----------------------------- MODULE ActionItems -----------------------------
(***************************************************************************)
(* The action_items rows of one meeting, and the calls of store_summary    *)
(* that reconcile them with a new summary.                                 *)
(*                                                                         *)
(* A run and a manual summarize may call store_summary at the same time:   *)
(* it reads the rows, and its caller commits what it changed.  An item is  *)
(* its stable key, which two items share when description and owner are    *)
(* the same up to case; the due date and the source are left out.          *)
(***************************************************************************)
EXTENDS Naturals, SequencesExt

CONSTANTS
    Keys,         \* stable keys
    NoText,       \* an entry without a description
    Calls,        \* calls of store_summary
    MaxItems      \* bound on the entries of one summary

ASSUME ItemsAssumption == NoText \notin Keys /\ MaxItems \in Nat

VARIABLES
    items,        \* the committed rows
    lastId,       \* ids up to this one are taken
    calls,        \* the state of each call
    listed,       \* history: keys of the summary committed last
    orderly       \* history: no call has overlapped, no summary has repeated an entry

vars == <<items, lastId, calls, listed, orderly>>

Item == [id : Nat, key : Keys, status : {"open", "done"}]
KeysOf(rows) == {row.key : row \in rows}
IdsOf(rows) == {row.id : row \in rows}

\* A call: what its summary lists, and the id it found for each key, 0 for none.
Call == [at : {"idle", "read", "done"}, entries : Seq(Keys \cup {NoText}), found : [Keys -> Nat]]
NotFound == [k \in Keys |-> 0]

Init ==
    /\ items = {} /\ lastId = 0 /\ listed = {} /\ orderly = TRUE
    /\ calls = [c \in Calls |-> [at |-> "idle", entries |-> <<>>, found |-> NotFound]]

Reading(c) == calls[c].at = "read"

\* existing: a row for every key that has one; with several, the one read last.
Existing == {f \in [Keys -> IdsOf(items) \cup {0}] :
                \A k \in Keys :
                    \/ \E row \in items : row.id = f[k] /\ row.key = k
                    \/ f[k] = 0 /\ k \notin KeysOf(items)}

Read(c) ==
    /\ calls[c].at = "idle"
    /\ \E s \in SeqOf(Keys \cup {NoText}, MaxItems), f \in Existing :
           /\ calls' = [calls EXCEPT ![c] = [at |-> "read", entries |-> s, found |-> f]]
           /\ orderly' = (orderly /\ IsInjective(s) /\ \A d \in Calls : ~Reading(d))
    /\ UNCHANGED <<items, lastId, listed>>

\* The keys that had a row and those in the summary; the rows its entries insert,
\* update and delete.
Had(c) == {k \in Keys : calls[c].found[k] # 0}
Seen(c) == Range(calls[c].entries) \ {NoText}

NewRow(c, n) == [id |-> lastId + n, key |-> calls[c].entries[n], status |-> "open"]

\* Mutant of Inserted: an entry without a description is not skipped.
InsertedUnread(c) ==
    {NewRow(c, n) : n \in {m \in DOMAIN calls[c].entries :
                              calls[c].entries[m] \notin Had(c)}}

Inserted(c) ==
    {NewRow(c, n) : n \in {m \in DOMAIN calls[c].entries :
                              calls[c].entries[m] \notin Had(c) \cup {NoText}}}

Updated(c) == {calls[c].found[k] : k \in Seen(c) \cap Had(c)}

\* Mutant of Deleted: nothing is removed.
DeleteNothing(c) == {}

Deleted(c) == {calls[c].found[k] : k \in Had(c) \ Seen(c)}

Ends(c) == calls' = [calls EXCEPT ![c] = [at |-> "done", entries |-> <<>>, found |-> NotFound]]

\* The call is over; what it inserts and deletes is in the rows.
Store(c) ==
    /\ Reading(c)
    /\ items' = {row \in items : row.id \notin Deleted(c)} \cup Inserted(c)
    /\ lastId' = lastId + Len(calls[c].entries)
    /\ listed' = Seen(c)
    /\ Ends(c)
    /\ UNCHANGED orderly

\* Mutant of Commit: an update that finds no row is not noticed.
CommitAnyway(c) == Store(c)

\* Mutant of Commit: a row that is updated starts anew.
CommitReopens(c) ==
    /\ Reading(c) /\ Updated(c) \subseteq IdsOf(items)
    /\ items' = {IF row.id \in Updated(c) THEN [row EXCEPT !.status = "open"] ELSE row :
                    row \in {r \in items : r.id \notin Deleted(c)}} \cup Inserted(c)
    /\ lastId' = lastId + Len(calls[c].entries) /\ listed' = Seen(c)
    /\ Ends(c)
    /\ UNCHANGED orderly

\* The commit of the caller.  An update of a row that is gone is an error, a
\* deletion of one is not; an update does not touch the status.
Commit(c) == Updated(c) \subseteq IdsOf(items) /\ Store(c)

\* That error, or any other before the commit, rolls the call back.
RollBack(c) ==
    /\ Reading(c)
    /\ Ends(c)
    /\ UNCHANGED <<items, lastId, listed, orderly>>

\* Somebody sets an item done, directly in the database.
Complete(row) ==
    /\ row.status = "open"
    /\ items' = (items \ {row}) \cup {[row EXCEPT !.status = "done"]}
    /\ UNCHANGED <<lastId, calls, listed, orderly>>

Next ==
    \/ \E c \in Calls : Read(c) \/ Commit(c) \/ RollBack(c)
    \/ \E row \in items : Complete(row)

Spec == Init /\ [][Next]_vars
----------------------------------------------------------------------------
TypeOK ==
    /\ items \subseteq Item /\ lastId \in Nat /\ listed \subseteq Keys /\ orderly \in BOOLEAN
    /\ calls \in [Calls -> Call]

\* Every item of the summary committed last has a row, although another call
\* may have removed the row this one had found: then this one is rolled back.
ListedItemsExist == listed \subseteq KeysOf(items)

\* "a completed item keeps its status when the summary is regenerated"
\* (docs/features.md:51): a row that is done whose key is listed again stays as
\* it is, whatever other calls and other rows of that key do.
CompletedIsKept ==
    [][\A row \in items : row.status = "done" /\ row.key \in listed' => row \in items']_vars

\* Calls that do not overlap and summaries that repeat nothing leave exactly the
\* items of the last summary, each with one row.
OrderlyCallsAreExact ==
    orderly =>
        /\ KeysOf(items) = listed
        /\ \A r, s \in items : r.key = s.key => r = s

\* What the theorems rest on.  A row a call has found, if it is still there, is
\* of the key it was found for: ids are not used twice.
FoundRows ==
    /\ \A row \in items : row.id \in 1..lastId
    /\ \A r, s \in items : r.id = s.id => r = s
    /\ \A c \in Calls : Reading(c) =>
           \A k \in Had(c) :
               /\ calls[c].found[k] <= lastId
               /\ \A row \in items : row.id = calls[c].found[k] => row.key = k

\* While calls are orderly one reads at a time, and what it found is what is there.
OrderlyReads ==
    orderly =>
        /\ \A c, d \in Calls : Reading(c) /\ Reading(d) => c = d
        /\ \A c \in Calls : Reading(c) =>
               /\ IsInjective(calls[c].entries)
               /\ Had(c) = KeysOf(items)
               /\ \A row \in items : calls[c].found[row.key] = row.id
=============================================================================
