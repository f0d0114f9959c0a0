------------------------------ MODULE Accounts ------------------------------
(***************************************************************************)
(* The users and sessions rows, and the requests that sign in, present a   *)
(* token, or log out.                                                      *)
(*                                                                         *)
(* Each request has an ORM session of its own.  A step is one call of the  *)
(* identity provider, one query or one commit, so requests overlap between *)
(* the queries of upsert_auth_user and its commit, and between the query   *)
(* and the commit of resolve_session.  The token a request was given is    *)
(* the request itself.                                                     *)
(***************************************************************************)
EXTENDS FiniteSets

CONSTANTS
    Ids,                  \* identities of the provider
    Emails,
    Requests,
    Legacy,               \* emails of the rows that were there before the provider
    RequireVerification,  \* settings.require_email_verification
    NoId, NoEmail, NoToken

ASSUME AccountsAssumption ==
    /\ Legacy \subseteq Emails /\ Legacy \cap Requests = {}
    /\ RequireVerification \in BOOLEAN
    /\ NoId \notin Ids /\ NoEmail \notin Emails /\ NoToken \notin Requests

VARIABLES
    accounts,   \* the provider's accounts
    issued,     \* all that a token of the provider, issued at any time, may state
    users,      \* rows; a new one is named by its request, a legacy one by its email
    sessions,   \* rows; history: owner, the identity that signed in
    at,         \* where each request is
    bearer,     \* it came with a token of the provider
    who,        \* its AuthIdentity
    found,      \* the User object it has, if any
    token       \* the token it presented

local == <<at, bearer, who, found, token>>
provider == <<accounts, issued>>
vars == <<provider, users, sessions, local>>

Identity == [id : Ids, email : Emails, verified : BOOLEAN]
NoIdentity == [id |-> NoId, email |-> NoEmail, verified |-> FALSE]
User == [key : Requests \cup Legacy, email : Emails, link : Ids \cup {NoId}]
Session == [token : Requests, user : Requests \cup Legacy, owner : Ids, seen : BOOLEAN,
            expired : BOOLEAN]

Init ==
    /\ accounts = {} /\ issued = {} /\ sessions = {}
    /\ users = {[key |-> e, email |-> e, link |-> NoId] : e \in Legacy}
    /\ at = [r \in Requests |-> "idle"]
    /\ bearer = [r \in Requests |-> FALSE]
    /\ who = [r \in Requests |-> NoIdentity]
    /\ found = [r \in Requests |-> {}]
    /\ token = [r \in Requests |-> NoToken]

Goto(r, place) == at' = [at EXCEPT ![r] = place]
Knows(r, account) == who' = [who EXCEPT ![r] = account]

Refused(r) == Goto(r, "refused") /\ UNCHANGED <<bearer, who, found, token>>
----------------------------------------------------------------------------
(***************************************************************************)
(* What the routes ask of the provider.                                    *)
(***************************************************************************)
Admits(account) == RequireVerification => account.verified
Taken(email) == \E a \in accounts : a.email = email

\* A token states what the account was when it was issued.
Become(new) == accounts' = new /\ issued' = issued \cup new

\* Mutant of Register: an incomplete answer of the provider is used.
RegisterIncomplete(r) ==
    /\ at[r] = "idle"
    /\ \E id \in Ids \ {a.id : a \in accounts}, email \in Emails \cup {NoEmail}, v \in BOOLEAN :
           LET account == [id |-> id, email |-> email, verified |-> v] IN
           /\ ~Taken(email) /\ Admits(account)
           /\ Become(accounts \cup {account})
           /\ Knows(r, account) /\ Goto(r, "byId")
    /\ UNCHANGED <<users, sessions, bearer, found, token>>

\* The account stays at the provider when the request is refused, because it is
\* not verified yet or because the answer was lost.
Register(r) ==
    /\ at[r] = "idle"
    /\ \E id \in Ids \ {a.id : a \in accounts}, email \in Emails, v \in BOOLEAN :
           LET account == [id |-> id, email |-> email, verified |-> v] IN
           /\ ~Taken(email)
           /\ Become(accounts \cup {account})
           /\ \/ Admits(account) /\ Knows(r, account) /\ Goto(r, "byId")
                 /\ UNCHANGED <<bearer, found, token>>
              \/ Refused(r)
    /\ UNCHANGED <<users, sessions>>

Login(r) ==
    /\ at[r] = "idle"
    /\ \E a \in accounts : Admits(a) /\ Knows(r, a)
    /\ Goto(r, "byId")
    /\ UNCHANGED <<provider, users, sessions, bearer, found, token>>

\* verify_email is two calls: the code is confirmed,
ConfirmCode(r) ==
    /\ at[r] = "idle"
    /\ \E a \in accounts :
           LET confirmed == [a EXCEPT !.verified = TRUE] IN
           Become((accounts \ {a}) \cup {confirmed}) /\ Knows(r, confirmed)
    /\ Goto(r, "confirmed")
    /\ UNCHANGED <<users, sessions, bearer, found, token>>

\* and whoever has the email now is logged in.
LoginConfirmed(r) ==
    /\ at[r] = "confirmed"
    /\ \E a \in accounts : a.email = who[r].email /\ Admits(a) /\ Knows(r, a)
    /\ Goto(r, "byId")
    /\ UNCHANGED <<provider, users, sessions, bearer, found, token>>

\* A token of the provider is taken by its word, which may be older than the
\* account, and its email need not be verified.
ShowJwt(r) ==
    /\ at[r] = "idle"
    /\ \E claims \in issued : Knows(r, claims)
    /\ bearer' = [bearer EXCEPT ![r] = TRUE]
    /\ Goto(r, "byId")
    /\ UNCHANGED <<provider, users, sessions, found, token>>

ProviderRefuses(r) ==
    /\ at[r] \in {"idle", "confirmed"}
    /\ Refused(r)
    /\ UNCHANGED <<provider, users, sessions>>

\* An account of the provider gets another email, and leaves its own to others.
ChangeEmail ==
    /\ \E a \in accounts, email \in Emails, v \in BOOLEAN :
           /\ ~Taken(email)
           /\ Become((accounts \ {a}) \cup {[a EXCEPT !.email = email, !.verified = v]})
    /\ UNCHANGED <<users, sessions, local>>
----------------------------------------------------------------------------
(***************************************************************************)
(* upsert_auth_user.                                                       *)
(***************************************************************************)
Loads(r, rows) == found' = [found EXCEPT ![r] = rows]

FindById(r) ==
    /\ at[r] = "byId"
    /\ LET rows == {u \in users : u.link = who[r].id} IN
       Loads(r, rows) /\ Goto(r, IF rows = {} THEN "byEmail" ELSE "writing")
    /\ UNCHANGED <<provider, users, sessions, bearer, who, token>>

\* Mutant of MayTake: a linked row is linked anew.
MayTakeLinked(u, identity) == u.link = NoId => identity.verified

\* Mutant of MayTake: an unlinked row is anyone's.
MayTakeUnverified(u, identity) == u.link \in {NoId, identity.id}

\* The row of another identity, and an unlinked row when the email is not
\* verified, are refused.
MayTake(u, identity) ==
    /\ u.link \in {NoId, identity.id}
    /\ u.link = NoId => identity.verified

FindByEmail(r) ==
    /\ at[r] = "byEmail"
    /\ LET rows == {u \in users : u.email = who[r].email} IN
       IF \A u \in rows : MayTake(u, who[r])
       THEN Loads(r, rows) /\ Goto(r, "writing") /\ UNCHANGED <<bearer, who, token>>
       ELSE Refused(r)
    /\ UNCHANGED <<provider, users, sessions>>

\* Mutant of Written: every column is written.
WrittenWhole(r, u, row) == [key |-> row.key, email |-> who[r].email, link |-> who[r].id]

\* What the commit makes of a row: the columns that differ from those the object
\* was loaded with are written.
Written(r, u, row) ==
    [key |-> row.key,
     email |-> IF u.email # who[r].email THEN who[r].email ELSE row.email,
     link |-> IF u.link # who[r].id THEN who[r].id ELSE row.link]

\* The row after the commit: a new one, or the one that is there now.
Stored(r) ==
    IF found[r] = {} THEN {[key |-> r, email |-> who[r].email, link |-> who[r].id]}
    ELSE UNION {{Written(r, u, row) : row \in {x \in users : x.key = u.key}} : u \in found[r]}

Others(r) == {row \in users : \A u \in Stored(r) : u.key # row.key}

\* The table's unique constraints.
Fits(rows, others) ==
    \A u \in rows, v \in others : u.email # v.email /\ u.link # v.link

\* The commit, or the error of the database when another request came first.
Upsert(r) ==
    /\ at[r] = "writing"
    /\ IF Fits(Stored(r), Others(r))
       THEN /\ users' = Others(r) \cup Stored(r)
            /\ Loads(r, Stored(r))
            /\ Goto(r, IF bearer[r] THEN "served" ELSE "signing")
            /\ UNCHANGED <<bearer, who, token>>
       ELSE Refused(r) /\ UNCHANGED users
    /\ UNCHANGED <<provider, sessions>>
----------------------------------------------------------------------------
(***************************************************************************)
(* Sessions.                                                               *)
(***************************************************************************)
CreateSession(r) ==
    /\ at[r] = "signing"
    /\ sessions' = sessions \cup
           {[token |-> r, user |-> u.key, owner |-> who[r].id, seen |-> FALSE, expired |-> FALSE] :
               u \in found[r]}
    /\ Goto(r, "signedIn")
    /\ UNCHANGED <<provider, users, bearer, who, found, token>>

Expire ==
    /\ \E s \in sessions :
           ~s.expired /\ sessions' = (sessions \ {s}) \cup {[s EXCEPT !.expired = TRUE]}
    /\ UNCHANGED <<provider, users, local>>

Of(t) == {s \in sessions : s.token = t}

\* resolve_session: an unknown token is tried as one of the provider, an expired
\* row is deleted, and a row that was not seen for five minutes is touched first.
Resolve(r, t) ==
    \/ Of(t) = {} /\ Goto(r, "refused") /\ UNCHANGED sessions
    \/ \E s \in Of(t) : s.expired /\ sessions' = sessions \ {s} /\ Goto(r, "refused")
    \/ \E s \in Of(t) : ~s.expired /\ Goto(r, "touching") /\ UNCHANGED sessions
    \/ \E s \in Of(t) : ~s.expired /\ s.seen /\ Goto(r, "served") /\ UNCHANGED sessions

\* Any route, with a token that some request was answered.
Present(r) ==
    /\ at[r] = "idle"
    /\ \E t \in Requests :
           /\ at[t] = "signedIn"
           /\ token' = [token EXCEPT ![r] = t]
           /\ Resolve(r, t)
    /\ UNCHANGED <<provider, users, bearer, who, found>>

\* Mutant of Touch: the object is merged, which inserts a row that is gone.
TouchMerges(r) ==
    /\ at[r] = "touching"
    /\ sessions' = (sessions \ Of(token[r])) \cup
           {[token |-> token[r], user |-> u.key, owner |-> who[token[r]].id, seen |-> TRUE,
             expired |-> FALSE] : u \in found[token[r]]}
    /\ Goto(r, "served")
    /\ UNCHANGED <<provider, users, bearer, who, found, token>>

\* An update of a row that was deleted meanwhile is an error.
Touch(r) ==
    /\ at[r] = "touching"
    /\ IF Of(token[r]) = {} THEN Goto(r, "refused") /\ UNCHANGED sessions
       ELSE /\ Goto(r, "served")
            /\ sessions' = (sessions \ Of(token[r]))
                   \cup {[s EXCEPT !.seen = TRUE] : s \in Of(token[r])}
    /\ UNCHANGED <<provider, users, bearer, who, found, token>>

\* revoke_session, when the request is a logout; a token of the provider has no
\* row.
Revoke(r) ==
    /\ at[r] = "served" /\ ~bearer[r]
    /\ sessions' = sessions \ Of(token[r])
    /\ Goto(r, "loggedOut")
    /\ UNCHANGED <<provider, users, bearer, who, found, token>>
----------------------------------------------------------------------------
Next ==
    \/ \E r \in Requests :
           \/ Register(r) \/ Login(r) \/ ConfirmCode(r) \/ LoginConfirmed(r) \/ ShowJwt(r)
           \/ ProviderRefuses(r)
           \/ FindById(r) \/ FindByEmail(r) \/ Upsert(r)
           \/ CreateSession(r) \/ Present(r) \/ Touch(r) \/ Revoke(r)
    \/ ChangeEmail \/ Expire

Spec == Init /\ [][Next]_vars
----------------------------------------------------------------------------
TypeOK ==
    /\ accounts \subseteq issued /\ issued \subseteq Identity
    /\ users \subseteq User /\ sessions \subseteq Session
    /\ at \in [Requests -> {"idle", "confirmed", "byId", "byEmail", "writing", "signing",
                            "signedIn", "touching", "served", "loggedOut", "refused"}]
    /\ bearer \in [Requests -> BOOLEAN]
    /\ who \in [Requests -> Identity \cup {NoIdentity}]
    /\ found \in [Requests -> SUBSET User]
    /\ token \in [Requests -> Requests \cup {NoToken}]

\* The provider has stated that the email of a legacy row is the identity's, and
\* verified.
Claimed(id, key) == key \in Legacy /\ [id |-> id, email |-> key, verified |-> TRUE] \in issued

\* A session is of the row that is linked to the identity that signed in, however
\* many sign-ins of however many identities raced for the row.  A legacy row alone
\* may have gone to another identity since, which had the same verified email.
SessionsMatchIdentity ==
    \A s \in sessions : \E u \in users :
        /\ u.key = s.user
        /\ u.link = s.owner \/ (Claimed(s.owner, u.key) /\ Claimed(u.link, u.key))

\* A linked row is linked anew only by a sign-in that has read it while it was
\* free: of sign-ins that do not overlap the first one has the row for good.
LinksAreKept ==
    [][\A u \in users, w \in users' :
           u.key = w.key /\ u.link # NoId /\ w.link # u.link =>
               \E r \in Requests :
                   /\ at[r] = "writing" /\ who[r].id = w.link
                   /\ \E f \in found[r] : f.key = u.key /\ f.link = NoId]_vars

\* Only a row from before the provider gets an identity, and only one whose
\* verified email was the row's ("linking legacy emails safely",
\* app/services/users.py:15), even if the row and the account have others now.
ClaimsAreVerified ==
    [][\A u \in users, w \in users' :
           u.key = w.key /\ u.link # w.link => Claimed(w.link, u.key)]_vars

\* Once a logout was answered its token has no session again, although another
\* request with the token may have read the session before and writes it after.
LoggedOutStaysOut ==
    \A r \in Requests : at[r] = "loggedOut" => Of(token[r]) = {}
=============================================================================
