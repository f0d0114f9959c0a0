--------------------------- MODULE AccountsProofs ---------------------------
(***************************************************************************)
(* Theorems about Accounts, for any requests, identities, emails and       *)
(* legacy rows.                                                            *)
(***************************************************************************)
EXTENDS Accounts, TLAPS

SigningIn == {r \in Requests : at[r] \in {"confirmed", "byId", "byEmail", "writing"}}

\* A request that signs in knows an identity that the provider has stated.
Known == \A r \in Requests : r \in SigningIn \/ at[r] = "signing" => who[r] \in issued

\* The row is the identity's, or is one that it had a claim to.
Holds(id, row) == row.link # NoId /\ (row.link = id \/ Claimed(id, row.key))

\* Rows have keys of their own; an unlinked one is as it was before the provider, and
\* a linked one of these was claimed; a new one belongs to a request that has
\* committed it.
Rows ==
    /\ \A u, v \in users : u.key = v.key => u = v
    /\ \A u \in users : u.link = NoId => u.key \in Legacy /\ u.email = u.key
    /\ \A u \in users : u.key \in Legacy /\ u.link # NoId => Claimed(u.link, u.key)
    /\ \A u \in users : u.key \in Requests =>
           u.key \notin SigningIn /\ at[u.key] # "idle"

\* A row that was linked to the identity when it was read still is, or was a claimed
\* one; one that was free is claimed by the identity, whoever has it now.
FoundFits(r, u) ==
    \E row \in users :
        /\ row.key = u.key
        /\ \/ u.link = who[r].id /\ Holds(who[r].id, row)
           \/ u.link = NoId /\ Claimed(who[r].id, u.key)

Found ==
    /\ \A r \in Requests : at[r] = "writing" =>
           /\ \A u \in found[r] : FoundFits(r, u)
           /\ \A u, v \in found[r] : u.key = v.key => u = v
    /\ \A r \in Requests : at[r] = "signing" =>
           \A u \in found[r] : \E row \in users : row.key = u.key /\ Holds(who[r].id, row)

SessionsHeld == \A s \in sessions : \E row \in users : row.key = s.user /\ Holds(s.owner, row)

\* A token that is presented was answered to a request that signed in.
Presented ==
    \A r \in Requests :
        at[r] \in {"touching", "loggedOut"} \/ (at[r] = "served" /\ ~bearer[r]) =>
            token[r] \in Requests /\ at[token[r]] = "signedIn"
----------------------------------------------------------------------------
(***************************************************************************)
(* Types.                                                                  *)
(***************************************************************************)
Typed == TypeOK /\ Known

\* A change of the place of one request is all that Goto does.
LEMMA GotoPlaces ==
    ASSUME TypeOK, NEW r \in Requests, NEW place, Goto(r, place)
    PROVE  /\ at'[r] = place
           /\ \A q \in Requests : q # r => at'[q] = at[q]
           /\ DOMAIN at' = Requests
BY DEF TypeOK, Goto

\* The rows a commit makes are rows.
LEMMA StoredType ==
    ASSUME TypeOK, NEW r \in Requests, who[r] \in Identity
    PROVE  Stored(r) \subseteq User
<1>1. \A u \in found[r], row \in users : Written(r, u, row) \in User
  BY DEF TypeOK, Written, User, Identity
<1>2. [key |-> r, email |-> who[r].email, link |-> who[r].id] \in User
  BY DEF TypeOK, User, Identity
<1> QED
  BY <1>1, <1>2 DEF Stored

\* Every step keeps the types.
LEMMA TypedStep == Typed /\ [Next]_vars => Typed'
<1> SUFFICES ASSUME Typed, [Next]_vars PROVE Typed'
  OBVIOUS
<1> USE DEF Typed
<1>1. CASE UNCHANGED vars
  BY <1>1 DEF vars, provider, local, TypeOK, Known, SigningIn
<1>2. ASSUME NEW r \in Requests, Register(r) PROVE Typed'
  <2>1. PICK id \in Ids, email \in Emails, v \in BOOLEAN :
            LET account == [id |-> id, email |-> email, verified |-> v] IN
            /\ accounts' = accounts \cup {account} /\ issued' = issued \cup accounts'
            /\ \/ Knows(r, account) /\ Goto(r, "byId") /\ UNCHANGED <<bearer, found, token>>
               \/ Refused(r)
    BY <1>2 DEF Register, Become
  <2>2. [id |-> id, email |-> email, verified |-> v] \in Identity
    BY DEF Identity
  <2> QED
    BY <1>2, <2>1, <2>2 DEF Register, Refused, Knows, Goto, provider, TypeOK, Known, SigningIn
<1>3. ASSUME NEW r \in Requests, Login(r) PROVE Typed'
  BY <1>3 DEF Login, Knows, Goto, provider, TypeOK, Known, SigningIn
<1>4. ASSUME NEW r \in Requests, ConfirmCode(r) PROVE Typed'
  <2>0. accounts \subseteq Identity
    BY DEF TypeOK
  <2>1. \A a \in accounts : [a EXCEPT !.verified = TRUE] \in Identity
    BY <2>0 DEF Identity
  <2> QED
    BY <1>4, <2>1 DEF ConfirmCode, Become, Knows, Goto, provider, TypeOK, Known, SigningIn
<1>5. ASSUME NEW r \in Requests, LoginConfirmed(r) PROVE Typed'
  BY <1>5 DEF LoginConfirmed, Knows, Goto, provider, TypeOK, Known, SigningIn
<1>6. ASSUME NEW r \in Requests, ShowJwt(r) PROVE Typed'
  BY <1>6 DEF ShowJwt, Knows, Goto, provider, TypeOK, Known, SigningIn
<1>7. ASSUME NEW r \in Requests, ProviderRefuses(r) PROVE Typed'
  BY <1>7 DEF ProviderRefuses, Refused, Goto, provider, TypeOK, Known, SigningIn
<1>8. ASSUME NEW r \in Requests, FindById(r) PROVE Typed'
  <2>1. {u \in users : u.link = who[r].id} \subseteq User
    BY DEF TypeOK
  <2> QED
    BY <1>8, <2>1 DEF FindById, Loads, Goto, provider, TypeOK, Known, SigningIn
<1>9. ASSUME NEW r \in Requests, FindByEmail(r) PROVE Typed'
  <2>1. {u \in users : u.email = who[r].email} \subseteq User
    BY DEF TypeOK
  <2> QED
    BY <1>9, <2>1 DEF FindByEmail, Loads, Refused, Goto, provider, TypeOK, Known, SigningIn
<1>10. ASSUME NEW r \in Requests, Upsert(r) PROVE Typed'
  <2>1. Stored(r) \subseteq User /\ Others(r) \subseteq User
    BY <1>10, StoredType DEF Upsert, Known, SigningIn, Others, TypeOK
  <2> QED
    BY <1>10, <2>1 DEF Upsert, Loads, Refused, Goto, provider, TypeOK, Known, SigningIn
<1>11. ASSUME NEW r \in Requests, CreateSession(r) PROVE Typed'
  <2>1. \A u \in found[r] :
            [token |-> r, user |-> u.key, owner |-> who[r].id, seen |-> FALSE, expired |-> FALSE]
                \in Session
    BY <1>11 DEF CreateSession, TypeOK, Known, User, Identity, Session
  <2> QED
    BY <1>11, <2>1 DEF CreateSession, Goto, provider, TypeOK, Known, SigningIn
<1>12. ASSUME NEW r \in Requests, Present(r) PROVE Typed'
  <2>1. PICK t \in Requests : token' = [token EXCEPT ![r] = t] /\ Resolve(r, t)
    BY <1>12 DEF Present
  <2>2. sessions' \subseteq sessions
        /\ \E place \in {"refused", "touching", "served"} : Goto(r, place)
    BY <2>1 DEF Resolve
  <2> QED
    BY <1>12, <2>1, <2>2 DEF Present, Goto, provider, TypeOK, Known, SigningIn
<1>13. ASSUME NEW r \in Requests, Touch(r) PROVE Typed'
  <2>1. \A s \in sessions : [s EXCEPT !.seen = TRUE] \in Session
    BY DEF TypeOK, Session
  <2> QED
    BY <1>13, <2>1 DEF Touch, Of, Goto, provider, TypeOK, Known, SigningIn
<1>14. ASSUME NEW r \in Requests, Revoke(r) PROVE Typed'
  BY <1>14 DEF Revoke, Goto, provider, TypeOK, Known, SigningIn
<1>15. ASSUME ChangeEmail PROVE Typed'
  <2>1. \A a \in accounts, email \in Emails, v \in BOOLEAN :
            [a EXCEPT !.email = email, !.verified = v] \in Identity
    BY DEF TypeOK, Identity
  <2> QED
    BY <1>15, <2>1 DEF ChangeEmail, Become, local, provider, TypeOK, Known, SigningIn
<1>16. ASSUME Expire PROVE Typed'
  <2>1. \A s \in sessions : [s EXCEPT !.expired = TRUE] \in Session
    BY DEF TypeOK, Session
  <2> QED
    BY <1>16, <2>1 DEF Expire, local, provider, TypeOK, Known, SigningIn
<1> QED
  BY <1>1, <1>2, <1>3, <1>4, <1>5, <1>6, <1>7, <1>8, <1>9, <1>10, <1>11, <1>12, <1>13, <1>14,
     <1>15, <1>16 DEF Next

\* The rows from before the provider are rows.
LEMMA TypedInit == Init => Typed
<1> SUFFICES ASSUME Init PROVE Typed
  OBVIOUS
<1>1. \A e \in Legacy : [key |-> e, email |-> e, link |-> NoId] \in User
  BY AccountsAssumption DEF User
<1> QED
  BY <1>1 DEF Init, Typed, TypeOK, Known, SigningIn

\* Accounts, rows, sessions and requests are always of their types: an identity that
\* reaches the rows is complete (app/services/auth.py:162).
THEOREM AccountsTyped == Spec => []TypeOK
<1>1. Typed => TypeOK
  BY DEF Typed
<1> QED
  BY <1>1, TypedInit, TypedStep, PTL DEF Spec
----------------------------------------------------------------------------
(***************************************************************************)
(* Logout.                                                                 *)
(***************************************************************************)
LoggedOut == Presented /\ LoggedOutStaysOut

\* A request that was answered its token has signed in for good; no step of another
\* request or of the provider changes what is presented.
LEMMA OtherPlaces ==
    ASSUME TypeOK, Presented, NEW r \in Requests, at[r] # "signedIn",
           \A q \in Requests : q # r =>
               at'[q] = at[q] /\ token'[q] = token[q] /\ bearer'[q] = bearer[q],
           at'[r] \in {"touching", "loggedOut"} \/ (at'[r] = "served" /\ ~bearer'[r]) =>
               token'[r] \in Requests /\ at[token'[r]] = "signedIn"
    PROVE  Presented'
BY DEF Presented

\* A step that adds no session of a token that is presented keeps who is logged out.
LEMMA LoggedOutStep == Typed /\ LoggedOut /\ [Next]_vars => LoggedOut'
<1> SUFFICES ASSUME Typed, LoggedOut, [Next]_vars PROVE LoggedOut'
  OBVIOUS
<1> USE DEF Typed, LoggedOut
<1>1. CASE UNCHANGED vars
  BY <1>1 DEF vars, local, Presented, LoggedOutStaysOut, Of
<1>2. ASSUME NEW r \in Requests,
             \/ Register(r) \/ Login(r) \/ ConfirmCode(r) \/ LoginConfirmed(r) \/ ShowJwt(r)
             \/ ProviderRefuses(r) \/ FindById(r) \/ FindByEmail(r) \/ Upsert(r)
      PROVE  LoggedOut'
  <2>1. /\ at[r] # "signedIn" /\ token' = token /\ sessions' = sessions
        /\ \E place \in {"byId", "byEmail", "confirmed", "writing", "signing", "served", "refused"} :
               Goto(r, place) /\ (place = "served" => bearer[r])
        /\ \A q \in Requests : q # r \/ at'[r] = "served" => bearer'[q] = bearer[q]
    BY <1>2 DEF Register, Login, ConfirmCode, LoginConfirmed, ShowJwt, ProviderRefuses, FindById,
                FindByEmail, Upsert, Refused, Goto, TypeOK
  <2>2. /\ \A q \in Requests : q # r => at'[q] = at[q]
        /\ at'[r] \in {"byId", "byEmail", "confirmed", "writing", "signing", "served", "refused"}
        /\ at'[r] = "served" => bearer[r]
    BY <2>1, GotoPlaces
  <2>3. Presented'
    BY <2>1, <2>2, OtherPlaces
  <2> QED
    BY <2>1, <2>2, <2>3 DEF LoggedOutStaysOut, Of
<1>3. ASSUME NEW r \in Requests, CreateSession(r) PROVE LoggedOut'
  <2>1. /\ at[r] = "signing" /\ at'[r] = "signedIn" /\ token' = token /\ bearer' = bearer
        /\ \A q \in Requests : q # r => at'[q] = at[q]
        /\ \A s \in sessions' : s \in sessions \/ s.token = r
    BY <1>3, GotoPlaces DEF CreateSession
  <2>2. Presented'
    BY <2>1, OtherPlaces
  <2> QED
    BY <2>1, <2>2 DEF LoggedOutStaysOut, Of, Presented
<1>4. ASSUME NEW r \in Requests, Present(r) PROVE LoggedOut'
  <2>1. PICK t \in Requests :
            /\ at[r] = "idle" /\ at[t] = "signedIn" /\ token' = [token EXCEPT ![r] = t]
            /\ bearer' = bearer /\ Resolve(r, t)
    BY <1>4 DEF Present
  <2>2. sessions' \subseteq sessions
        /\ \E place \in {"refused", "touching", "served"} : Goto(r, place)
    BY <2>1 DEF Resolve
  <2>3. /\ at'[r] \in {"refused", "touching", "served"}
        /\ \A q \in Requests : q # r => at'[q] = at[q] /\ token'[q] = token[q]
        /\ token'[r] = t
    BY <2>1, <2>2, GotoPlaces DEF TypeOK
  <2>4. Presented'
    BY <2>1, <2>3, OtherPlaces
  <2> QED
    BY <2>2, <2>3, <2>4 DEF LoggedOutStaysOut, Of
<1>5. ASSUME NEW r \in Requests, Touch(r) PROVE LoggedOut'
  <2>1. /\ at[r] = "touching" /\ at'[r] \in {"refused", "served"}
        /\ token' = token /\ bearer' = bearer
        /\ \A q \in Requests : q # r => at'[q] = at[q]
    BY <1>5, GotoPlaces DEF Touch
  <2>2. \A s \in sessions' : \E x \in sessions : x.token = s.token
    BY <1>5 DEF Touch, Of, TypeOK, Session
  <2>3. Presented'
    BY <2>1, OtherPlaces DEF Presented
  <2> QED
    BY <2>1, <2>2, <2>3 DEF LoggedOutStaysOut, Of
<1>6. ASSUME NEW r \in Requests, Revoke(r) PROVE LoggedOut'
  <2>1. /\ at[r] = "served" /\ ~bearer[r] /\ at'[r] = "loggedOut"
        /\ token' = token /\ bearer' = bearer
        /\ \A q \in Requests : q # r => at'[q] = at[q]
        /\ sessions' = sessions \ Of(token[r])
    BY <1>6, GotoPlaces DEF Revoke
  <2>2. Presented'
    BY <2>1, OtherPlaces DEF Presented
  <2> QED
    BY <2>1, <2>2 DEF LoggedOutStaysOut, Of
<1>7. CASE ChangeEmail
  BY <1>7 DEF ChangeEmail, local, Presented, LoggedOutStaysOut, Of
<1>8. CASE Expire
  <2>1. \A s \in sessions : [s EXCEPT !.expired = TRUE].token = s.token
    BY DEF TypeOK, Session
  <2>2. \A s \in sessions' : \E x \in sessions : x.token = s.token
    BY <1>8, <2>1 DEF Expire
  <2> QED
    BY <1>8, <2>2 DEF Expire, local, Presented, LoggedOutStaysOut, Of
<1> QED
  BY <1>1, <1>2, <1>3, <1>4, <1>5, <1>6, <1>7, <1>8 DEF Next

\* After a logout was answered no request brings its session back
\* (app/services/sessions.py:71), however many use the token at the same time.
THEOREM LogoutIsFinal == Spec => []LoggedOutStaysOut
<1>1. Init => Typed /\ LoggedOut
  <2>1. Init => LoggedOut
    BY DEF Init, LoggedOut, Presented, LoggedOutStaysOut
  <2> QED
    BY <2>1, TypedInit
<1>2. LoggedOut => LoggedOutStaysOut
  BY DEF LoggedOut
<1> QED
  BY <1>1, <1>2, TypedStep, LoggedOutStep, PTL DEF Spec
----------------------------------------------------------------------------
(***************************************************************************)
(* Links.                                                                  *)
(***************************************************************************)
Linked == Rows /\ Found /\ SessionsHeld

\* What the provider has stated stays stated.
LEMMA IssuedGrows == Typed /\ [Next]_vars => issued \subseteq issued'
BY DEF Next, vars, provider, Become, Register, Login, ConfirmCode, LoginConfirmed, ShowJwt,
       ProviderRefuses, FindById, FindByEmail, Upsert, CreateSession, Present, Touch, Revoke,
       ChangeEmail, Expire

\* So a claim stays one.
LEMMA ClaimsStay ==
    ASSUME issued \subseteq issued', NEW id, NEW key, Claimed(id, key)
    PROVE  Claimed(id, key)'
BY DEF Claimed

\* A row that is written has an identity; what it had before is another one only if it
\* was free when it was read.
TakenOver(u, w) ==
    /\ w.link # NoId /\ Claimed(w.link, u.key)
    /\ \E r \in Requests : /\ at[r] = "writing" /\ who[r].id = w.link
                          /\ \E f \in found[r] : f.key = u.key /\ f.link = NoId

LEMMA StoredRow ==
    ASSUME Typed, Rows, Found, NEW r \in Requests, at[r] = "writing", NEW w \in Stored(r)
    PROVE  /\ Holds(who[r].id, w)
           /\ \A u \in users : u.key = w.key => w.link = u.link \/ TakenOver(u, w)
           /\ w.key = r \/ \E u \in users : u.key = w.key
<1> USE DEF Typed
<1>0. who[r].id # NoId
  BY AccountsAssumption DEF Known, SigningIn, TypeOK, Identity
<1>1. CASE found[r] = {}
  <2>1. w.link = who[r].id /\ w.key = r
    BY <1>1 DEF Stored
  <2>2. \A u \in users : u.key # r
    BY DEF Rows, SigningIn
  <2> QED
    BY <1>0, <2>1, <2>2 DEF Holds
<1>2. CASE found[r] # {}
  <2>1. PICK x \in found[r], y \in users : y.key = x.key /\ w = Written(r, x, y)
    BY <1>2 DEF Stored
  <2>2. \A u \in users : u.key = w.key => u = y
    BY <2>1 DEF Rows, Written
  <2>3. PICK row \in users :
            /\ row.key = x.key
            /\ \/ x.link = who[r].id /\ Holds(who[r].id, row)
               \/ x.link = NoId /\ Claimed(who[r].id, x.key)
    BY <2>1 DEF Found, FoundFits
  <2>4. row = y /\ w.key = y.key
    BY <2>1, <2>3 DEF Rows, Written
  <2>5. CASE x.link = who[r].id
    <3>1. w.link = y.link
      BY <2>1, <2>5 DEF Written
    <3>2. Holds(who[r].id, y)
      BY <1>0, <2>3, <2>4, <2>5
    <3>3. Holds(who[r].id, w)
      BY <2>4, <3>1, <3>2 DEF Holds
    <3> QED
      BY <2>1, <2>2, <2>4, <3>1, <3>3
  <2>6. CASE x.link = NoId /\ Claimed(who[r].id, x.key)
    <3>1. w.link = who[r].id
      BY <1>0, <2>1, <2>6 DEF Written
    <3>2. Holds(who[r].id, w)
      BY <1>0, <3>1 DEF Holds
    <3>3. TakenOver(y, w)
      BY <1>0, <2>1, <2>6, <3>1 DEF TakenOver
    <3> QED
      BY <2>1, <2>2, <2>4, <3>2, <3>3
  <2> QED
    BY <2>3, <2>5, <2>6
<1> QED
  BY <1>1, <1>2

\* What becomes of the links in a step.
LinksKept == \A u \in users, w \in users' :
                 u.key = w.key => w.link = u.link \/ TakenOver(u, w)
RowsStay == \A u \in users : \E w \in users' : w.key = u.key

\* An identity that held a row holds it after such a step.
LEMMA HoldsStays ==
    ASSUME Rows, issued \subseteq issued', LinksKept, RowsStay, NEW id,
           NEW row \in users, Holds(id, row)
    PROVE  \E w \in users' : w.key = row.key /\ Holds(id, w)'
<1>1. PICK w \in users' : w.key = row.key
  BY DEF RowsStay
<1>2. CASE w.link = row.link
  <2>1. Claimed(id, row.key) => Claimed(id, row.key)'
    BY ClaimsStay
  <2> QED
    BY <1>1, <1>2, <2>1 DEF Holds, Claimed
<1>3. CASE TakenOver(row, w)
  <2>1. w.link # NoId /\ row.key \in Legacy
    BY <1>3 DEF TakenOver, Claimed
  <2>2. Claimed(id, row.key)
    BY <2>1 DEF Holds, Rows
  <2>3. Claimed(id, row.key)'
    BY <2>2, ClaimsStay
  <2> QED
    BY <1>1, <2>1, <2>3 DEF Holds, Claimed
<1> QED
  BY <1>1, <1>2, <1>3 DEF LinksKept

\* What a request has found, and what a session is of, when only another request
\* writes or none does.
LEMMA FoundStays ==
    ASSUME Rows, issued \subseteq issued', LinksKept, RowsStay,
           NEW q \in Requests, who'[q] = who[q], NEW u, FoundFits(q, u)
    PROVE  FoundFits(q, u)'
<1>1. PICK row \in users :
          /\ row.key = u.key
          /\ \/ u.link = who[q].id /\ Holds(who[q].id, row)
             \/ u.link = NoId /\ Claimed(who[q].id, u.key)
  BY DEF FoundFits
<1>2. CASE u.link = who[q].id /\ Holds(who[q].id, row)
  <2>1. PICK id : id = who[q].id
    OBVIOUS
  <2>2. PICK w \in users' : w.key = row.key /\ Holds(id, w)'
    BY <1>2, <2>1, HoldsStays
  <2> QED
    BY <1>1, <1>2, <2>1, <2>2 DEF FoundFits
<1>3. CASE u.link = NoId /\ Claimed(who[q].id, u.key)
  <2>1. PICK w \in users' : w.key = row.key
    BY DEF RowsStay
  <2>2. Claimed(who[q].id, u.key)'
    BY <1>3, ClaimsStay
  <2> QED
    BY <1>1, <1>3, <2>1, <2>2 DEF FoundFits, Claimed
<1> QED
  BY <1>1, <1>2, <1>3

\* A session that is kept, of a row that is kept.
LEMMA SessionsStay ==
    ASSUME Rows, issued \subseteq issued', LinksKept, RowsStay, SessionsHeld,
           \A s \in sessions' : \E x \in sessions : x.user = s.user /\ x.owner = s.owner
    PROVE  SessionsHeld'
<1> SUFFICES ASSUME NEW s \in sessions'
             PROVE  \E w \in users' : w.key = s.user /\ Holds(s.owner, w)'
  BY DEF SessionsHeld
<1>1. PICK x \in sessions : x.user = s.user /\ x.owner = s.owner
  OBVIOUS
<1>2. PICK row \in users : row.key = s.user /\ Holds(s.owner, row)
  BY <1>1 DEF SessionsHeld
<1>3. \E w \in users' : w.key = row.key /\ Holds(s.owner, w)'
  BY <1>2, HoldsStays
<1> QED
  BY <1>2, <1>3

\* What a commit that succeeds does to the rows.
LEMMA UpsertRows ==
    ASSUME Typed, Linked, NEW r \in Requests, at[r] = "writing",
           users' = Others(r) \cup Stored(r)
    PROVE  LinksKept /\ RowsStay
<1>1. RowsStay
  BY DEF RowsStay, Others
<1>2. ASSUME NEW u \in users, NEW w \in users', u.key = w.key
      PROVE  w.link = u.link \/ TakenOver(u, w)
  <2>1. CASE w \in Others(r)
    BY <1>2, <2>1 DEF Others, Linked, Rows
  <2>2. CASE w \in Stored(r)
    BY <1>2, <2>2, StoredRow DEF Linked
  <2> QED
    BY <2>1, <2>2
<1> QED
  BY <1>1, <1>2 DEF LinksKept

\* A commit keeps what the theorems rest on.
LEMMA UpsertLinked ==
    ASSUME Typed, Linked, NEW r \in Requests, Upsert(r),
           users' = Others(r) \cup Stored(r), found' = [found EXCEPT ![r] = Stored(r)],
           Goto(r, IF bearer[r] THEN "served" ELSE "signing")
    PROVE  Linked'
<1> USE DEF Typed
<1>1. /\ at[r] = "writing" /\ who' = who /\ sessions' = sessions /\ issued' = issued
      /\ at'[r] \in {"served", "signing"}
      /\ \A q \in Requests : q # r => at'[q] = at[q] /\ found'[q] = found[q]
      /\ found'[r] = Stored(r)
      /\ r \in SigningIn
  <2>1. at[r] = "writing" /\ who' = who /\ sessions' = sessions /\ issued' = issued
    BY DEF Upsert, Refused, provider
  <2>2. at'[r] \in {"served", "signing"} /\ \A q \in Requests : q # r => at'[q] = at[q]
    BY GotoPlaces
  <2>3. found'[r] = Stored(r) /\ \A q \in Requests : q # r => found'[q] = found[q]
    BY DEF TypeOK
  <2> QED
    BY <2>1, <2>2, <2>3 DEF SigningIn
<1>2. LinksKept /\ RowsStay
  BY <1>1, UpsertRows
<1>3. \A w \in Stored(r) :
          Holds(who[r].id, w) /\ (w.key = r \/ \E u \in users : u.key = w.key)
  BY <1>1, StoredRow DEF Linked
<1>4. Rows'
  <2>1. ASSUME NEW v \in Stored(r), NEW w \in Stored(r), v.key = w.key PROVE v = w
    <3>1. CASE found[r] = {}
      BY <3>1 DEF Stored
    <3>2. CASE found[r] # {}
      <4>1. PICK x \in found[r], y \in users : y.key = x.key /\ v = Written(r, x, y)
        BY <3>2 DEF Stored
      <4>2. PICK p \in found[r], q \in users : q.key = p.key /\ w = Written(r, p, q)
        BY <3>2 DEF Stored
      <4>3. v.key = y.key /\ w.key = q.key
        BY <4>1, <4>2 DEF Written
      <4>4. y = q /\ x = p
        BY <1>1, <2>1, <4>1, <4>2, <4>3 DEF Linked, Rows, Found
      <4> QED
        BY <4>1, <4>2, <4>4
    <3> QED
      BY <3>1, <3>2
  <2>2. \A u, v \in users' : u.key = v.key => u = v
    BY <2>1 DEF Others, Linked, Rows
  <2>3. \A u \in users' : u.link = NoId => u.key \in Legacy /\ u.email = u.key
    BY <1>3 DEF Others, Linked, Rows, Holds
  <2>4. \A u \in users' : u.key \in Requests => u.key = r \/ \E v \in users : v.key = u.key
    BY <1>3 DEF Others
  <2>5. \A q \in SigningIn' : q \in SigningIn /\ q # r
    BY <1>1 DEF SigningIn
  <2>6. \A u \in users' : u.key \in Requests => u.key \notin SigningIn' /\ at'[u.key] # "idle"
    BY <1>1, <2>4, <2>5 DEF Linked, Rows
  <2>7. ASSUME NEW w \in users', w.key \in Legacy, w.link # NoId
        PROVE  Claimed(w.link, w.key)'
    <3>1. PICK u \in users : u.key = w.key
      BY <1>1, <1>3, <2>7, AccountsAssumption DEF Others
    <3>2. CASE w.link = u.link
      BY <1>1, <2>7, <3>1, <3>2 DEF Linked, Rows, Claimed
    <3>3. CASE TakenOver(u, w)
      BY <1>1, <3>1, <3>3 DEF TakenOver, Claimed
    <3> QED
      BY <1>2, <3>1, <3>2, <3>3 DEF LinksKept
  <2> QED
    BY <2>2, <2>3, <2>6, <2>7 DEF Rows
<1>5. ASSUME NEW q \in Requests, at'[q] = "writing"
      PROVE  /\ \A u \in found'[q] : FoundFits(q, u)'
             /\ \A u, v \in found'[q] : u.key = v.key => u = v
  <2>1. q # r /\ at[q] = "writing" /\ found'[q] = found[q]
    BY <1>1, <1>5
  <2>2. \A u \in found[q] : FoundFits(q, u)
    BY <2>1 DEF Linked, Found
  <2>3. ASSUME NEW u \in found[q] PROVE FoundFits(q, u)'
    BY <1>1, <1>2, <2>2, <2>3, FoundStays DEF Linked
  <2> QED
    BY <2>1, <2>3 DEF Linked, Found
<1>6. ASSUME NEW q \in Requests, at'[q] = "signing", NEW u \in found'[q]
      PROVE  \E row \in users' : row.key = u.key /\ Holds(who[q].id, row)'
  <2>1. CASE q = r
    BY <1>1, <1>3, <1>6, <2>1 DEF Holds, Claimed
  <2>2. CASE q # r
    <3>1. PICK id : id = who[q].id
      OBVIOUS
    <3>2. PICK row \in users : row.key = u.key /\ Holds(id, row)
      BY <1>1, <1>6, <2>2, <3>1 DEF Linked, Found
    <3>3. PICK w \in users' : w.key = row.key /\ Holds(id, w)'
      BY <1>1, <1>2, <3>2, HoldsStays DEF Linked
    <3> QED
      BY <1>1, <3>1, <3>2, <3>3
  <2> QED
    BY <2>1, <2>2
<1>7. Found'
  BY <1>5, <1>6 DEF Found
<1>8. SessionsHeld'
  BY <1>1, <1>2, SessionsStay DEF Linked
<1> QED
  BY <1>4, <1>7, <1>8 DEF Linked

\* Steps that leave the rows alone, and load, at most, rows of one request.
LEMMA QuietLinked ==
    ASSUME Typed, Linked, users' = users, issued \subseteq issued',
           \A q \in Requests : q \in SigningIn' \/ at'[q] = "idle" =>
               q \in SigningIn \/ at[q] = "idle",
           \A q \in Requests : at'[q] = "writing" =>
               \/ at[q] = "writing" /\ found'[q] = found[q] /\ who'[q] = who[q]
               \/ /\ found'[q] \subseteq users
                  /\ \A u \in found'[q] : FoundFits(q, u) /\ who'[q] = who[q],
           \A q \in Requests : at'[q] = "signing" =>
               at[q] = "signing" /\ found'[q] = found[q] /\ who'[q] = who[q]
    PROVE  Rows' /\ Found' /\ LinksKept /\ RowsStay
<1>1. LinksKept /\ RowsStay
  BY DEF Linked, Rows, LinksKept, RowsStay
<1>2. Rows'
  <2>1. \A u \in users' : u.key \in Legacy /\ u.link # NoId => Claimed(u.link, u.key)'
    BY ClaimsStay DEF Linked, Rows
  <2> QED
    BY <2>1 DEF Linked, Rows
<1>3. ASSUME NEW q \in Requests, at'[q] = "writing"
      PROVE  /\ \A u \in found'[q] : FoundFits(q, u)'
             /\ \A u, v \in found'[q] : u.key = v.key => u = v
  <2>1. /\ \A u \in found'[q] : FoundFits(q, u) /\ who'[q] = who[q]
        /\ \A u, v \in found'[q] : u.key = v.key => u = v
    BY <1>3 DEF Linked, Found, Rows
  <2>2. ASSUME NEW u \in found'[q] PROVE FoundFits(q, u)'
    BY <1>1, <2>1, <2>2, FoundStays DEF Linked
  <2> QED
    BY <2>1, <2>2
<1>4. ASSUME NEW q \in Requests, at'[q] = "signing", NEW u \in found'[q]
      PROVE  \E row \in users' : row.key = u.key /\ Holds(who[q].id, row)'
  <2>1. PICK id : id = who[q].id
    OBVIOUS
  <2>2. PICK row \in users : row.key = u.key /\ Holds(id, row)
    BY <1>4, <2>1 DEF Linked, Found
  <2>3. PICK w \in users' : w.key = row.key /\ Holds(id, w)'
    BY <1>1, <2>2, HoldsStays DEF Linked
  <2> QED
    BY <1>4, <2>1, <2>2, <2>3
<1>5. Found'
  BY <1>3, <1>4 DEF Found
<1> QED
  BY <1>1, <1>2, <1>5

\* Every step keeps what the theorems rest on.
LEMMA LinkedStep == Typed /\ Linked /\ [Next]_vars => Linked' /\ LinksKept
<1> SUFFICES ASSUME Typed, Linked, [Next]_vars PROVE Linked' /\ LinksKept
  OBVIOUS
<1> USE DEF Typed
<1>1. issued \subseteq issued'
  BY IssuedGrows
<1>2. ASSUME NEW r \in Requests, Upsert(r) PROVE Linked' /\ LinksKept
  <2>1. CASE Fits(Stored(r), Others(r))
    <3>1. /\ users' = Others(r) \cup Stored(r) /\ found' = [found EXCEPT ![r] = Stored(r)]
          /\ Goto(r, IF bearer[r] THEN "served" ELSE "signing") /\ at[r] = "writing"
      BY <1>2, <2>1 DEF Upsert, Loads
    <3> QED
      BY <1>2, <3>1, UpsertRows, UpsertLinked
  <2>2. CASE ~Fits(Stored(r), Others(r))
    <3>1. /\ users' = users /\ found' = found /\ who' = who /\ sessions' = sessions
          /\ Goto(r, "refused")
      BY <1>2, <2>2 DEF Upsert, Refused
    <3>2. /\ \A q \in Requests : q # r => at'[q] = at[q]
          /\ at'[r] = "refused"
      BY <3>1, GotoPlaces
    <3>3. Rows' /\ Found' /\ LinksKept /\ RowsStay
      BY <1>1, <3>1, <3>2, QuietLinked DEF SigningIn
    <3> QED
      BY <1>1, <3>1, <3>3, SessionsStay DEF Linked
  <2> QED
    BY <2>1, <2>2
<1>3. ASSUME NEW r \in Requests, FindById(r) \/ FindByEmail(r) PROVE Linked' /\ LinksKept
  <2>1. /\ users' = users /\ who' = who /\ sessions' = sessions /\ r \in SigningIn
        /\ \E place \in {"byEmail", "writing", "refused"} : Goto(r, place)
        /\ \A q \in Requests : q # r => found'[q] = found[q]
    BY <1>3 DEF FindById, FindByEmail, Loads, Refused, SigningIn, TypeOK
  <2>2. /\ \A q \in Requests : q # r => at'[q] = at[q]
        /\ at'[r] \in {"byEmail", "writing", "refused"}
    BY <2>1, GotoPlaces
  <2>3. who[r] \in issued /\ who[r] \in Identity
    BY <2>1 DEF Known, TypeOK
  <2>4. ASSUME at'[r] = "writing"
        PROVE  /\ found'[r] \subseteq users
               /\ \A u \in found'[r] :
                      \/ u.link = who[r].id
                      \/ u.link = NoId /\ u.email = who[r].email /\ who[r].verified
    <3>1. CASE FindById(r)
      BY <3>1 DEF FindById, Loads, TypeOK
    <3>2. CASE FindByEmail(r)
      <4>1. ~Refused(r)
        BY <2>4, GotoPlaces DEF Refused
      <4>2. /\ found'[r] = {u \in users : u.email = who[r].email}
            /\ \A u \in found'[r] : MayTake(u, who[r])
        BY <3>2, <4>1 DEF FindByEmail, Loads, TypeOK
      <4> QED
        BY <4>2 DEF MayTake
    <3> QED
      BY <1>3, <3>1, <3>2
  <2>5. ASSUME at'[r] = "writing", NEW u \in found'[r] PROVE FoundFits(r, u)
    <3>1. u \in users
      BY <2>4, <2>5
    <3>2. CASE u.link = who[r].id
      <4>1. u.link # NoId
        BY <2>3, <3>2, AccountsAssumption DEF Identity
      <4> QED
        BY <3>1, <3>2, <4>1 DEF FoundFits, Holds
    <3>3. CASE u.link = NoId /\ u.email = who[r].email /\ who[r].verified
      <4>1. u.key \in Legacy /\ u.email = u.key
        BY <3>1, <3>3 DEF Linked, Rows
      <4>2. who[r] = [id |-> who[r].id, email |-> u.key, verified |-> TRUE]
        BY <2>3, <3>3, <4>1 DEF Identity
      <4> QED
        BY <2>3, <3>1, <3>3, <4>1, <4>2 DEF FoundFits, Claimed
    <3> QED
      BY <2>4, <2>5, <3>2, <3>3
  <2>6. Rows' /\ Found' /\ LinksKept /\ RowsStay
    BY <1>1, <2>1, <2>2, <2>4, <2>5, QuietLinked DEF SigningIn
  <2> QED
    BY <1>1, <2>1, <2>6, SessionsStay DEF Linked
<1>4. ASSUME NEW r \in Requests,
             \/ Register(r) \/ Login(r) \/ ConfirmCode(r) \/ LoginConfirmed(r) \/ ShowJwt(r)
             \/ ProviderRefuses(r) \/ Present(r) \/ Touch(r) \/ Revoke(r)
      PROVE  Linked' /\ LinksKept
  <2>1. /\ users' = users /\ found' = found /\ \A q \in Requests : q # r => who'[q] = who[q]
        /\ \E place \in {"byId", "confirmed", "refused", "touching", "served", "loggedOut"} :
               /\ Goto(r, place)
               /\ place \in {"byId", "confirmed"} => r \in SigningIn \/ at[r] = "idle"
    BY <1>4 DEF Register, Login, ConfirmCode, LoginConfirmed, ShowJwt, ProviderRefuses, Present,
                Resolve, Touch, Revoke, Refused, Knows, SigningIn, TypeOK
  <2>2. /\ \A q \in Requests : q # r => at'[q] = at[q]
        /\ at'[r] \in {"byId", "confirmed", "refused", "touching", "served", "loggedOut"}
        /\ at'[r] \in {"byId", "confirmed"} => r \in SigningIn \/ at[r] = "idle"
    BY <2>1, GotoPlaces
  <2>3. Rows' /\ Found' /\ LinksKept /\ RowsStay
    BY <1>1, <2>1, <2>2, QuietLinked DEF SigningIn
  <2>4. \A s \in sessions' : \E x \in sessions : x.user = s.user /\ x.owner = s.owner
    BY <1>4 DEF Register, Login, ConfirmCode, LoginConfirmed, ShowJwt, ProviderRefuses, Present,
                Resolve, Touch, Revoke, Of, TypeOK, Session
  <2> QED
    BY <1>1, <2>3, <2>4, SessionsStay DEF Linked
<1>5. ASSUME NEW r \in Requests, CreateSession(r) PROVE Linked' /\ LinksKept
  <2>1. /\ users' = users /\ issued' = issued /\ found' = found /\ who' = who
        /\ at[r] = "signing" /\ at'[r] = "signedIn"
        /\ \A q \in Requests : q # r => at'[q] = at[q]
    BY <1>5, GotoPlaces DEF CreateSession, provider
  <2>2. Rows' /\ Found' /\ LinksKept /\ RowsStay
    BY <1>1, <2>1, QuietLinked DEF SigningIn
  <2>3. \A s \in sessions' : s \in sessions
            \/ \E u \in found[r] : s.user = u.key /\ s.owner = who[r].id
    BY <1>5 DEF CreateSession
  <2>4. SessionsHeld'
    <3> SUFFICES ASSUME NEW s \in sessions'
                 PROVE  \E w \in users : w.key = s.user /\ Holds(s.owner, w)
      BY <2>1 DEF SessionsHeld, Holds, Claimed
    <3> QED
      BY <2>1, <2>3 DEF Linked, SessionsHeld, Found
  <2> QED
    BY <2>2, <2>4 DEF Linked
<1>6. CASE UNCHANGED vars \/ ChangeEmail \/ Expire
  <2>1. users' = users /\ at' = at /\ found' = found /\ who' = who
    BY <1>6 DEF vars, local, ChangeEmail, Expire
  <2>2. Rows' /\ Found' /\ LinksKept /\ RowsStay
    BY <1>1, <2>1, QuietLinked DEF SigningIn
  <2>3. \A s \in sessions' : \E x \in sessions : x.user = s.user /\ x.owner = s.owner
    <3>1. \A s \in sessions : [s EXCEPT !.expired = TRUE].user = s.user
                             /\ [s EXCEPT !.expired = TRUE].owner = s.owner
      BY DEF TypeOK, Session
    <3>2. CASE Expire
      BY <3>1, <3>2 DEF Expire
    <3>3. CASE sessions' = sessions
      BY <3>3
    <3> QED
      BY <1>6, <3>2, <3>3 DEF vars, ChangeEmail
  <2> QED
    BY <1>1, <2>2, <2>3, SessionsStay DEF Linked
<1> QED
  BY <1>2, <1>3, <1>4, <1>5, <1>6 DEF Next

LEMMA LinkedInit == Init => Linked
<1> SUFFICES ASSUME Init PROVE Linked
  OBVIOUS
<1>1. \A r \in Requests : at[r] = "idle"
  BY DEF Init
<1>2. Found /\ SessionsHeld
  BY <1>1 DEF Init, Found, SessionsHeld
<1>3. Rows
  BY AccountsAssumption DEF Init, Rows
<1> QED
  BY <1>2, <1>3 DEF Linked

\* A session is of a row that is linked to the identity that signed in
\* (app/services/users.py:35, app/services/sessions.py:24); only a legacy row may be
\* another's by then, who had claimed it as rightly.
THEOREM SessionsAreOfTheirIdentity == Spec => []SessionsMatchIdentity
<1>1. Linked => SessionsMatchIdentity
  <2> SUFFICES ASSUME Linked, NEW s \in sessions
               PROVE  \E u \in users :
                          /\ u.key = s.user
                          /\ u.link = s.owner \/ (Claimed(s.owner, u.key) /\ Claimed(u.link, u.key))
    BY DEF SessionsMatchIdentity
  <2>1. PICK u \in users : u.key = s.user /\ Holds(s.owner, u)
    BY DEF Linked, SessionsHeld
  <2>2. CASE u.link = s.owner
    BY <2>1, <2>2
  <2>3. CASE u.link # NoId /\ Claimed(s.owner, u.key)
    <3>1. Claimed(u.link, u.key)
      BY <2>3 DEF Linked, Rows, Claimed
    <3> QED
      BY <2>1, <2>3, <3>1
  <2> QED
    BY <2>1, <2>2, <2>3 DEF Holds
<1> QED
  BY <1>1, TypedInit, TypedStep, LinkedInit, LinkedStep, PTL DEF Spec

\* A linked row goes to another identity only by a sign-in that has read it while it was
\* free (app/services/users.py:22), however many overlap.
THEOREM LinksAreStable == Spec => LinksAreKept
<1>1. LinksKept =>
          (\A u \in users, w \in users' :
               u.key = w.key /\ u.link # NoId /\ w.link # u.link =>
                   \E r \in Requests :
                       /\ at[r] = "writing" /\ who[r].id = w.link
                       /\ \E f \in found[r] : f.key = u.key /\ f.link = NoId)
  BY DEF LinksKept, TakenOver
<1> QED
  BY <1>1, TypedInit, TypedStep, LinkedInit, LinkedStep, PTL DEF Spec, LinksAreKept

\* The link of a row is only ever written for a row from before the provider, and to an
\* identity that the provider has stated the row's email of, verified
\* (app/services/users.py:24).
THEOREM LegacyRowsAreClaimedByOwners == Spec => ClaimsAreVerified
<1>1. LinksKept =>
          (\A u \in users, w \in users' :
               u.key = w.key /\ u.link # w.link => Claimed(w.link, u.key))
  BY DEF LinksKept, TakenOver
<1> QED
  BY <1>1, TypedInit, TypedStep, LinkedInit, LinkedStep, PTL DEF Spec, ClaimsAreVerified
=============================================================================
