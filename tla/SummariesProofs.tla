---------------------------- MODULE SummariesProofs ----------------------------
(***************************************************************************)
(* Theorems about ActionItems, for any keys, calls and lengths of          *)
(* summaries, with calls that overlap or not, and about TranscriptChunks,  *)
(* for every text and every limit.                                         *)
(***************************************************************************)
EXTENDS ActionItems, TranscriptChunks, SequenceTheorems, WellFoundedInduction, TLAPS

\* A bounded sequence is a sequence, and its length is a number.
LEMMA EntriesType ==
    ASSUME NEW s \in SeqOf(Keys \cup {NoText}, MaxItems)
    PROVE  s \in Seq(Keys \cup {NoText})
<1>1. PICK m \in 0..MaxItems : s \in [1..m -> Keys \cup {NoText}]
  BY DEF SeqOf
<1>2. m \in Nat
  BY <1>1, ItemsAssumption
<1> QED
  BY <1>1, <1>2

\* The new rows of a call are items with new ids.
LEMMA InsertedType ==
    ASSUME TypeOK, NEW c \in Calls
    PROVE  /\ Inserted(c) \subseteq Item
           /\ \A row \in Inserted(c) :
                  row.id > lastId /\ row.id <= lastId + Len(calls[c].entries)
           /\ lastId + Len(calls[c].entries) \in Nat
<1> DEFINE es == calls[c].entries
<1>1. es \in Seq(Keys \cup {NoText}) /\ lastId \in Nat
  BY DEF TypeOK, Call
<1>2. Len(es) \in Nat /\ DOMAIN es = 1..Len(es)
  BY <1>1, LenProperties
<1>3. ASSUME NEW row \in Inserted(c)
      PROVE  /\ row \in Item
             /\ row.id > lastId /\ row.id <= lastId + Len(es)
  <2>1. PICK n \in DOMAIN es : es[n] \notin Had(c) \cup {NoText} /\ row = NewRow(c, n)
    BY <1>3 DEF Inserted
  <2>2. n \in 1..Len(es) /\ es[n] \in Keys
    BY <1>1, <1>2, <2>1, ElementOfSeq
  <2> QED
    BY <1>1, <1>2, <2>1, <2>2 DEF NewRow, Item
<1> QED
  BY <1>1, <1>2, <1>3

\* The rows and the calls are always of their types.
THEOREM ItemsTyped == Spec => []TypeOK
<1>0. <<>> \in Seq(Keys \cup {NoText}) /\ NotFound \in [Keys -> Nat]
  BY DEF NotFound
<1>1. Init => TypeOK
  BY <1>0 DEF Init, TypeOK, Call
<1>2. TypeOK /\ [Next]_vars => TypeOK'
  <2> SUFFICES ASSUME TypeOK, [Next]_vars PROVE TypeOK'
    OBVIOUS
  <2>0. ASSUME NEW c \in Calls, Ends(c) PROVE calls' \in [Calls -> Call]
    <3>1. [at |-> "done", entries |-> <<>>, found |-> NotFound] \in Call
      BY <1>0 DEF Call
    <3> QED
      BY <2>0, <3>1 DEF Ends, TypeOK
  <2>1. CASE UNCHANGED vars
    BY <2>1 DEF vars, TypeOK
  <2>2. ASSUME NEW c \in Calls, Read(c) PROVE TypeOK'
    <3>1. PICK s \in SeqOf(Keys \cup {NoText}, MaxItems), f \in Existing :
             /\ calls' = [calls EXCEPT ![c] = [at |-> "read", entries |-> s, found |-> f]]
             /\ orderly' = (orderly /\ IsInjective(s) /\ \A d \in Calls : ~Reading(d))
      BY <2>2 DEF Read
    <3>2. f \in [Keys -> Nat]
      BY DEF Existing, TypeOK, Item, IdsOf
    <3>3. [at |-> "read", entries |-> s, found |-> f] \in Call
      BY <3>2, EntriesType DEF Call
    <3>4. calls' \in [Calls -> Call]
      BY <3>1, <3>3 DEF TypeOK
    <3>5. orderly' \in BOOLEAN
      BY <3>1 DEF IsInjective
    <3> QED
      BY <2>2, <3>4, <3>5 DEF TypeOK, Read
  <2>3. ASSUME NEW c \in Calls, Commit(c) PROVE TypeOK'
    <3>1. calls[c].entries \in Seq(Keys \cup {NoText})
      BY DEF TypeOK, Call
    <3>2. Seen(c) \subseteq Keys
      BY <3>1, LenProperties, ElementOfSeq DEF Seen, Range
    <3>3. items' \subseteq Item /\ lastId' \in Nat
      BY <2>3, InsertedType DEF TypeOK, Commit, Store
    <3> QED
      BY <2>0, <2>3, <3>2, <3>3 DEF TypeOK, Commit, Store
  <2>4. ASSUME NEW c \in Calls, RollBack(c) PROVE TypeOK'
    BY <2>0, <2>4 DEF TypeOK, RollBack
  <2>5. ASSUME NEW row \in items, Complete(row) PROVE TypeOK'
    <3>1. [row EXCEPT !.status = "done"] \in Item
      BY DEF TypeOK, Item
    <3> QED
      BY <2>5, <3>1 DEF TypeOK, Complete
  <2> QED
    BY <2>1, <2>2, <2>3, <2>4, <2>5 DEF Next
<1> QED
  BY <1>1, <1>2, PTL DEF Spec
----------------------------------------------------------------------------
\* A row with a key the call has seen is not deleted by it.
LEMMA SeenRowsStay ==
    ASSUME TypeOK, FoundRows, NEW c \in Calls, Reading(c),
           NEW row \in items, row.key \in Seen(c)
    PROVE  row.id \notin Deleted(c)
BY DEF FoundRows, Deleted, Had

\* Setting a row done keeps the ids and keys of the rows.
LEMMA CompleteKeeps ==
    ASSUME TypeOK, NEW row \in items, Complete(row)
    PROVE  /\ \A r \in items' : \E s \in items : r.id = s.id /\ r.key = s.key
           /\ \A s \in items : \E r \in items' : r.id = s.id /\ r.key = s.key
           /\ KeysOf(items') = KeysOf(items)
<1>1. row \in Item
  BY DEF TypeOK
<1> DEFINE done == [row EXCEPT !.status = "done"]
<1>2. done.id = row.id /\ done.key = row.key
  BY <1>1 DEF Item
<1>3. items' = (items \ {row}) \cup {done}
  BY DEF Complete
<1>4. \A r \in items' : \E s \in items : r.id = s.id /\ r.key = s.key
  BY <1>2, <1>3
<1>5. \A s \in items : \E r \in items' : r.id = s.id /\ r.key = s.key
  BY <1>2, <1>3
<1> QED
  BY <1>4, <1>5 DEF KeysOf

\* A row a call has found is of the key it was found for, as long as it exists.
THEOREM FoundRowsHold == Spec => []FoundRows
<1>1. Init => FoundRows
  BY DEF Init, FoundRows, Reading
<1>2. TypeOK /\ FoundRows /\ [Next]_vars => FoundRows'
  <2> SUFFICES ASSUME TypeOK, FoundRows, [Next]_vars PROVE FoundRows'
    OBVIOUS
  <2>0. lastId \in Nat /\ calls \in [Calls -> Call]
    BY DEF TypeOK
  <2>1. CASE UNCHANGED vars
    BY <2>1 DEF vars, FoundRows, Reading, Had
  <2>2. ASSUME NEW c \in Calls, Read(c) PROVE FoundRows'
    <3>1. PICK s \in SeqOf(Keys \cup {NoText}, MaxItems), f \in Existing :
             calls' = [calls EXCEPT ![c] = [at |-> "read", entries |-> s, found |-> f]]
      BY <2>2 DEF Read
    <3>2. items' = items /\ lastId' = lastId
      BY <2>2 DEF Read
    <3>3. ASSUME NEW k \in Keys, f[k] # 0
          PROVE  f[k] <= lastId /\ \A row \in items : row.id = f[k] => row.key = k
      <4>1. PICK r \in items : r.id = f[k] /\ r.key = k
        BY <3>3 DEF Existing
      <4> QED
        BY <4>1 DEF FoundRows
    <3>4. ASSUME NEW d \in Calls, Reading(d)', NEW k \in Had(d)'
          PROVE  /\ calls'[d].found[k] <= lastId
                 /\ \A row \in items : row.id = calls'[d].found[k] => row.key = k
      <4>1. CASE d = c
        BY <2>0, <3>1, <3>3, <3>4, <4>1 DEF Had
      <4>2. CASE d # c
        BY <2>0, <3>1, <3>4, <4>2 DEF FoundRows, Had, Reading
      <4> QED
        BY <4>1, <4>2
    <3> QED
      BY <3>2, <3>4 DEF FoundRows
  <2>3. ASSUME NEW c \in Calls, Commit(c) PROVE FoundRows'
    <3>1. /\ items' \subseteq items \cup Inserted(c)
          /\ lastId' = lastId + Len(calls[c].entries)
          /\ calls' = [calls EXCEPT ![c] = [at |-> "done", entries |-> <<>>, found |-> NotFound]]
      BY <2>3 DEF Commit, Store, Ends
    <3>2. Len(calls[c].entries) \in Nat
      BY <2>0, LenProperties DEF Call
    <3>3. \A row \in Inserted(c) : row.id \in Nat /\ row.id > lastId /\ row.id <= lastId'
      BY <3>1, InsertedType DEF Item
    <3>4. \A row \in items' : row.id \in 1..lastId'
      BY <2>0, <3>1, <3>2, <3>3 DEF FoundRows
    <3>5. \A r, s \in Inserted(c) : r.id = s.id => r = s
      <4> SUFFICES ASSUME NEW r \in Inserted(c), NEW s \in Inserted(c), r.id = s.id PROVE r = s
        OBVIOUS
      <4>1. DOMAIN calls[c].entries \subseteq Nat
        BY <2>0, LenProperties DEF Call
      <4>2. PICK m \in Nat, n \in Nat : r = NewRow(c, m) /\ s = NewRow(c, n)
        BY <4>1 DEF Inserted
      <4> QED
        BY <2>0, <4>2 DEF NewRow
    <3>6. \A r, s \in items' : r.id = s.id => r = s
      BY <2>0, <3>1, <3>3, <3>5 DEF FoundRows
    <3>7. ASSUME NEW d \in Calls, Reading(d)', NEW k \in Had(d)'
          PROVE  /\ calls'[d].found[k] <= lastId'
                 /\ \A row \in items' : row.id = calls'[d].found[k] => row.key = k
      <4>1. d # c /\ calls'[d] = calls[d]
        BY <2>0, <3>1, <3>7 DEF Reading
      <4>2. Reading(d) /\ k \in Had(d) /\ calls[d].found[k] \in Nat
        BY <2>0, <3>7, <4>1 DEF Reading, Had, Call
      <4>3. calls[d].found[k] <= lastId
        BY <4>2 DEF FoundRows
      <4> QED
        BY <2>0, <3>1, <3>2, <3>3, <4>1, <4>2, <4>3 DEF FoundRows
    <3> QED
      BY <3>4, <3>6, <3>7 DEF FoundRows
  <2>4. ASSUME NEW c \in Calls, RollBack(c) PROVE FoundRows'
    BY <2>0, <2>4 DEF RollBack, Ends, FoundRows, Reading, Had
  <2>5. ASSUME NEW row \in items, Complete(row) PROVE FoundRows'
    <3>1. calls' = calls /\ lastId' = lastId
      BY <2>5 DEF Complete
    <3>2. \A r, s \in items' : r.id = s.id => r = s
      <4>1. row \in Item
        BY DEF TypeOK
      <4>2. items' = (items \ {row}) \cup {[row EXCEPT !.status = "done"]}
        BY <2>5 DEF Complete
      <4>3. [row EXCEPT !.status = "done"].id = row.id
        BY <4>1 DEF Item
      <4> QED
        BY <4>2, <4>3 DEF FoundRows
    <3>3. \A r \in items' : \E s \in items : r.id = s.id /\ r.key = s.key
      BY <2>5, CompleteKeeps
    <3> QED
      BY <3>1, <3>2, <3>3 DEF FoundRows, Reading, Had
  <2> QED
    BY <2>1, <2>2, <2>3, <2>4, <2>5 DEF Next
<1> QED
  BY <1>1, <1>2, ItemsTyped, PTL DEF Spec

\* After its commit every key a call has seen has a row.
LEMMA CommitLists ==
    ASSUME TypeOK, FoundRows, NEW c \in Calls, Commit(c)
    PROVE  ListedItemsExist'
<1>1. /\ Reading(c) /\ listed' = Seen(c) /\ Updated(c) \subseteq IdsOf(items)
      /\ items' = {row \in items : row.id \notin Deleted(c)} \cup Inserted(c)
  BY DEF Commit, Store
<1>2. ASSUME NEW k \in Seen(c) PROVE k \in KeysOf(items')
  <2>1. CASE k \in Had(c)
    <3>1. calls[c].found[k] \in IdsOf(items)
      BY <1>1, <1>2, <2>1 DEF Updated
    <3>2. PICK row \in items : row.id = calls[c].found[k]
      BY <3>1 DEF IdsOf
    <3>3. row.key = k
      BY <1>1, <2>1, <3>2 DEF FoundRows
    <3>4. row \in items'
      BY <1>1, <1>2, <3>3, SeenRowsStay
    <3> QED
      BY <3>3, <3>4 DEF KeysOf
  <2>2. CASE k \notin Had(c)
    <3>1. PICK n \in DOMAIN calls[c].entries : calls[c].entries[n] = k
      BY <1>2 DEF Seen, Range
    <3>2. NewRow(c, n) \in Inserted(c)
      BY <1>2, <2>2, <3>1 DEF Inserted, Seen
    <3> QED
      BY <1>1, <3>1, <3>2 DEF KeysOf, NewRow
  <2> QED
    BY <2>1, <2>2
<1> QED
  BY <1>1, <1>2 DEF ListedItemsExist

\* Every item of the summary committed last has a row: a call whose row another
\* one removed is rolled back.
THEOREM ListedItemsAreThere == Spec => []ListedItemsExist
<1>1. Init => ListedItemsExist
  BY DEF Init, ListedItemsExist
<1>2. TypeOK /\ FoundRows /\ ListedItemsExist /\ [Next]_vars => ListedItemsExist'
  <2> SUFFICES ASSUME TypeOK, FoundRows, ListedItemsExist, [Next]_vars PROVE ListedItemsExist'
    OBVIOUS
  <2>1. CASE UNCHANGED vars
    BY <2>1 DEF vars, ListedItemsExist
  <2>2. ASSUME NEW c \in Calls, Read(c) \/ RollBack(c) PROVE ListedItemsExist'
    BY <2>2 DEF Read, RollBack, ListedItemsExist
  <2>3. ASSUME NEW c \in Calls, Commit(c) PROVE ListedItemsExist'
    BY <2>3, CommitLists
  <2>4. ASSUME NEW row \in items, Complete(row) PROVE ListedItemsExist'
    BY <2>4, CompleteKeeps DEF Complete, ListedItemsExist
  <2> QED
    BY <2>1, <2>2, <2>3, <2>4 DEF Next
<1> QED
  BY <1>1, <1>2, ItemsTyped, FoundRowsHold, PTL DEF Spec

\* A row that is done whose key is listed again stays as it is.
THEOREM DoneItemsStay == Spec => CompletedIsKept
<1>1. TypeOK /\ FoundRows /\ [Next]_vars =>
        [\A row \in items : row.status = "done" /\ row.key \in listed' => row \in items']_vars
  <2> SUFFICES ASSUME TypeOK, FoundRows, [Next]_vars, NEW row \in items,
                      row.status = "done", row.key \in listed', vars' # vars
               PROVE  row \in items'
    BY DEF vars
  <2>1. ASSUME NEW c \in Calls, Read(c) \/ RollBack(c) PROVE row \in items'
    BY <2>1 DEF Read, RollBack
  <2>2. ASSUME NEW c \in Calls, Commit(c) PROVE row \in items'
    BY <2>2, SeenRowsStay DEF Commit, Store
  <2>3. ASSUME NEW r \in items, Complete(r) PROVE row \in items'
    BY <2>3 DEF Complete
  <2> QED
    BY <2>1, <2>2, <2>3 DEF Next
<1> QED
  BY <1>1, ItemsTyped, FoundRowsHold, PTL DEF Spec, CompletedIsKept

\* While calls do not overlap and summaries repeat nothing, the rows are exactly
\* the items of the last summary.
THEOREM OrderlyIsExact == Spec => [](OrderlyReads /\ OrderlyCallsAreExact)
<1>1. Init => OrderlyReads /\ OrderlyCallsAreExact
  BY DEF Init, OrderlyReads, OrderlyCallsAreExact, Reading, KeysOf
<1>2. TypeOK /\ FoundRows /\ OrderlyReads /\ OrderlyCallsAreExact /\ [Next]_vars
        => (OrderlyReads /\ OrderlyCallsAreExact)'
  <2> SUFFICES ASSUME TypeOK, FoundRows, OrderlyReads, OrderlyCallsAreExact, [Next]_vars, orderly'
               PROVE  (OrderlyReads /\ OrderlyCallsAreExact)'
    BY DEF OrderlyReads, OrderlyCallsAreExact
  <2>0. lastId \in Nat /\ calls \in [Calls -> Call] /\ items \subseteq Item /\ orderly
    BY DEF TypeOK, Next, vars, Read, Commit, Store, RollBack, Complete
  <2>1. CASE UNCHANGED vars
    BY <2>1 DEF vars, OrderlyReads, OrderlyCallsAreExact, Reading, Had
  <2>2. ASSUME NEW c \in Calls, Read(c) PROVE (OrderlyReads /\ OrderlyCallsAreExact)'
    <3>1. PICK s \in SeqOf(Keys \cup {NoText}, MaxItems), f \in Existing :
             /\ calls' = [calls EXCEPT ![c] = [at |-> "read", entries |-> s, found |-> f]]
             /\ orderly' = (orderly /\ IsInjective(s) /\ \A d \in Calls : ~Reading(d))
      BY <2>2 DEF Read
    <3>2. items' = items /\ listed' = listed
      BY <2>2 DEF Read
    <3>3. IsInjective(s) /\ \A d \in Calls : ~Reading(d)
      BY <3>1
    <3>4. \A d \in Calls : Reading(d)' => d = c
      BY <2>0, <3>1, <3>3 DEF Reading
    <3>5. calls'[c].entries = s /\ calls'[c].found = f
      BY <2>0, <3>1
    <3>6. \A row \in items : f[row.key] = row.id
      <4> SUFFICES ASSUME NEW row \in items PROVE f[row.key] = row.id
        OBVIOUS
      <4>1. row.key \in Keys /\ row.key \in KeysOf(items)
        BY <2>0 DEF Item, KeysOf
      <4>2. PICK r \in items : r.id = f[row.key] /\ r.key = row.key
        BY <4>1 DEF Existing
      <4> QED
        BY <2>0, <4>2 DEF OrderlyCallsAreExact
    <3>7. Had(c)' = KeysOf(items)
      <4>1. Had(c)' = {k \in Keys : f[k] # 0}
        BY <3>5 DEF Had
      <4>2. \A k \in Keys : f[k] # 0 <=> k \in KeysOf(items)
        BY <2>0, <3>6 DEF Existing, KeysOf, FoundRows
      <4>3. KeysOf(items) \subseteq Keys
        BY <2>0 DEF KeysOf, Item
      <4> QED
        BY <4>1, <4>2, <4>3
    <3> QED
      BY <2>0, <3>2, <3>3, <3>4, <3>5, <3>6, <3>7 DEF OrderlyReads, OrderlyCallsAreExact
  <2>3. ASSUME NEW c \in Calls, Commit(c) PROVE (OrderlyReads /\ OrderlyCallsAreExact)'
    <3>1. /\ Reading(c) /\ listed' = Seen(c) /\ listed' \subseteq KeysOf(items')
          /\ items' = {row \in items : row.id \notin Deleted(c)} \cup Inserted(c)
          /\ calls' = [calls EXCEPT ![c] = [at |-> "done", entries |-> <<>>, found |-> NotFound]]
      BY <2>3, CommitLists DEF Commit, Store, Ends, ListedItemsExist
    <3>2. /\ IsInjective(calls[c].entries) /\ Had(c) = KeysOf(items)
          /\ \A row \in items : calls[c].found[row.key] = row.id
      BY <2>0, <3>1 DEF OrderlyReads
    <3>3. \A d \in Calls : ~Reading(d)'
      BY <2>0, <3>1 DEF OrderlyReads, Reading
    <3>4. ASSUME NEW row \in items, row.id \notin Deleted(c) PROVE row.key \in Seen(c)
      BY <3>2, <3>4 DEF Deleted, KeysOf
    <3>5. ASSUME NEW row \in Inserted(c) PROVE row.key \in Seen(c) /\ row.key \notin KeysOf(items)
      BY <3>2, <3>5 DEF Inserted, NewRow, Seen, Range
    <3>6. KeysOf(items') = listed'
      BY <3>1, <3>4, <3>5 DEF KeysOf
    <3>7. \A r, s \in Inserted(c) : r.key = s.key => r = s
      BY <3>2 DEF Inserted, NewRow, IsInjective
    <3>8. \A r, s \in items' : r.key = s.key => r = s
      BY <2>0, <3>1, <3>5, <3>7 DEF OrderlyCallsAreExact, KeysOf
    <3> QED
      BY <3>3, <3>6, <3>8 DEF OrderlyReads, OrderlyCallsAreExact
  <2>4. ASSUME NEW c \in Calls, RollBack(c) PROVE (OrderlyReads /\ OrderlyCallsAreExact)'
    <3>1. /\ items' = items /\ listed' = listed /\ \A d \in Calls : Reading(d)' => Reading(d)
          /\ \A d \in Calls : d # c => calls'[d] = calls[d]
          /\ ~Reading(c)'
      BY <2>0, <2>4 DEF RollBack, Ends, Reading
    <3> QED
      BY <2>0, <3>1 DEF OrderlyReads, OrderlyCallsAreExact, Had
  <2>5. ASSUME NEW row \in items, Complete(row) PROVE (OrderlyReads /\ OrderlyCallsAreExact)'
    <3>1. PICK done : done = [row EXCEPT !.status = "done"]
      OBVIOUS
    <3>2. calls' = calls /\ listed' = listed /\ items' = (items \ {row}) \cup {done}
      BY <2>5, <3>1 DEF Complete
    <3>3. \A r, s \in items' : r.key = s.key => r = s
      <4>1. done.key = row.key
        BY <2>0, <3>1 DEF Item
      <4>2. \A r, s \in items : r.key = s.key => r = s
        BY <2>0 DEF OrderlyCallsAreExact
      <4> QED
        BY <3>2, <4>1, <4>2
    <3>4. KeysOf(items') = KeysOf(items)
          /\ \A r \in items' : \E s \in items : r.id = s.id /\ r.key = s.key
      BY <2>5, CompleteKeeps
    <3> QED
      BY <2>0, <3>2, <3>3, <3>4 DEF OrderlyReads, OrderlyCallsAreExact, Reading, Had
  <2> QED
    BY <2>1, <2>2, <2>3, <2>4, <2>5 DEF Next
<1> QED
  BY <1>1, <1>2, ItemsTyped, FoundRowsHold, PTL DEF Spec

----------------------------------------------------------------------------
(***************************************************************************)
(* Induction.  The theorems of the library take a predicate as parameter,  *)
(* which the provers cannot instantiate; with a set in its place they can: *)
(* the least natural number that the set misses refutes it.                *)
(***************************************************************************)
LEMMA NatLess == IsWellFoundedOn({ss \in Nat \X Nat : ss[1] < ss[2]}, Nat)
BY NatLessThanWellFounded DEF OpToRel

LEMMA LeastNat ==
    ASSUME NEW T \in SUBSET Nat, T # {}
    PROVE  \E n \in T : \A m \in T : n <= m
<1>1. PICK x \in T : \A y \in T : ~(<<y, x>> \in {ss \in Nat \X Nat : ss[1] < ss[2]})
  BY NatLess, WFMin
<1>2. ASSUME NEW y \in T PROVE x <= y
  <2>1. <<y, x>> \in Nat \X Nat
    OBVIOUS
  <2>2. ~(y < x)
    BY <1>1, <2>1
  <2> QED
    BY <2>2
<1> QED
  BY <1>2

LEMMA Induction ==
    ASSUME NEW S, 0 \in S, \A n \in Nat : n \in S => n + 1 \in S
    PROVE  Nat \subseteq S
<1> SUFFICES ASSUME Nat \ S # {} PROVE FALSE
  OBVIOUS
<1>1. PICK n \in Nat \ S : \A m \in Nat \ S : n <= m
  BY LeastNat
<1>2. n # 0 /\ n - 1 \in Nat
  BY <1>1
<1>3. n - 1 \in S
  BY <1>1, <1>2
<1> QED
  BY <1>1, <1>2, <1>3

LEMMA MinIsLeast ==
    ASSUME NEW T \in SUBSET Nat, T # {}
    PROVE  Min(T) \in T /\ \A y \in T : Min(T) <= y
<1>1. \E x \in T : \A y \in T : x <= y
  BY LeastNat
<1> QED
  BY <1>1 DEF Min

LEMMA MaxIsGreatest ==
    ASSUME NEW T \in SUBSET Nat, T # {}, NEW b \in Nat, \A y \in T : y <= b
    PROVE  Max(T) \in T /\ \A y \in T : y <= Max(T)
<1> DEFINE D == {b - y : y \in T}
<1>1. D \in SUBSET Nat /\ D # {}
  <2>1. \A y \in T : b - y \in Nat
    OBVIOUS
  <2> QED
    BY <2>1
<1>2. PICK d \in D : \A e \in D : d <= e
  BY <1>1, LeastNat
<1>3. PICK x \in T : d = b - x
  BY <1>2
<1>4. ASSUME NEW y \in T PROVE x >= y
  <2>1. b - y \in D
    OBVIOUS
  <2> QED
    BY <1>2, <1>3, <2>1
<1>5. Max(T) \in T /\ \A y \in T : Max(T) >= y
  BY <1>3, <1>4 DEF Max
<1> QED
  BY <1>5
----------------------------------------------------------------------------
(***************************************************************************)
(* The text and where it is cut.                                           *)
(***************************************************************************)
TextOK == text \in Seq({"char", "newline", "space"})

LEMMA TextsAreSequences == ChunksInit => TextOK
BY ChunksAssumption DEF ChunksInit, Texts, TextOK

\* lstrip stops at the first character that is not blank, or at the end.
LEMMA FirstOfIs ==
    ASSUME NEW from \in Nat, NEW to \in Nat, from <= to + 1
    PROVE  /\ FirstOf(from, to) \in from..to + 1
           /\ \A i \in from..to : i < FirstOf(from, to) => Blank(i)
           /\ FirstOf(from, to) <= to => ~Blank(FirstOf(from, to))
<1> DEFINE T == {i \in from..to : ~Blank(i)} \cup {to + 1}
<1>1. T \in SUBSET Nat /\ T # {} /\ T \subseteq from..to + 1
  OBVIOUS
<1>2. Min(T) \in T /\ \A y \in T : Min(T) <= y
  BY <1>1, MinIsLeast
<1>3. FirstOf(from, to) = Min(T)
  BY DEF FirstOf
<1>4. \A i \in from..to : ~Blank(i) => i \in T
  OBVIOUS
<1>5. \A i \in T : i <= to => ~Blank(i)
  OBVIOUS
<1> HIDE DEF T
<1>6. FirstOf(from, to) \in from..to + 1
  BY <1>1, <1>2, <1>3
<1>7. ASSUME NEW i \in from..to, i < FirstOf(from, to) PROVE Blank(i)
  <2>1. i \in T => Min(T) <= i
    BY <1>2
  <2>2. i \notin T
    BY <1>3, <1>6, <1>7, <2>1
  <2> QED
    BY <1>4, <2>2
<1> QED
  BY <1>2, <1>3, <1>5, <1>6, <1>7

\* rstrip stops at the last one, or before the first position.
LEMMA LastOfIs ==
    ASSUME NEW from \in Nat \ {0}, NEW to \in Nat, from <= to + 1
    PROVE  /\ LastOf(from, to) \in from - 1..to
           /\ \A i \in from..to : i > LastOf(from, to) => Blank(i)
<1> DEFINE T == {i \in from..to : ~Blank(i)} \cup {from - 1}
<1>1. T \in SUBSET Nat /\ T # {} /\ T \subseteq from - 1..to /\ \A y \in T : y <= to
  OBVIOUS
<1>2. Max(T) \in T /\ \A y \in T : y <= Max(T)
  BY <1>1, MaxIsGreatest
<1>3. LastOf(from, to) = Max(T)
  BY DEF LastOf
<1>4. \A i \in from..to : ~Blank(i) => i \in T
  OBVIOUS
<1> HIDE DEF T
<1>5. LastOf(from, to) \in from - 1..to
  BY <1>1, <1>2, <1>3
<1>6. ASSUME NEW i \in from..to, i > LastOf(from, to) PROVE Blank(i)
  <2>1. i \in T => i <= Max(T)
    BY <1>2
  <2>2. i \notin T
    BY <1>3, <1>5, <1>6, <2>1
  <2> QED
    BY <1>4, <2>2
<1> QED
  BY <1>5, <1>6

\* A cut falls behind the beginning, or on a newline there.
LEMMA CutIs ==
    ASSUME NEW from \in Nat \ {0}
    PROVE  Cut(from) \in from..from + Limit /\ (Cut(from) = from => Blank(from))
<1> DEFINE T == {i \in from .. from + Limit - 1 : text[i] = "newline"}
<1>1. Limit \in Nat \ {0}
  BY ChunksAssumption
<1>2. CASE Cut(from) = from + Limit
  BY <1>1, <1>2
<1>3. CASE Cut(from) # from + Limit
  <2>1. Cut(from) = Max(T) /\ T # {}
    BY <1>3 DEF Cut
  <2>2. T \in SUBSET Nat /\ \A y \in T : y <= from + Limit
    BY <1>1
  <2>3. Max(T) \in T
    <3> HIDE DEF T
    <3>1. from + Limit \in Nat
      BY <1>1
    <3> QED
      BY <2>1, <2>2, <3>1, MaxIsGreatest
  <2> QED
    BY <1>1, <2>1, <2>3 DEF Blank
<1> QED
  BY <1>2, <1>3

\* So what is left to cut begins further on, and only blanks are skipped.
LEMMA NextIs ==
    ASSUME NEW from \in Nat \ {0}, NEW end \in Nat, end - from + 1 > Limit
    PROVE  /\ Cut(from) \in from..end
           /\ FirstOf(Cut(from), end) \in from + 1..end + 1
           /\ Cut(from) <= FirstOf(Cut(from), end)
           /\ \A i \in Cut(from)..end : i < FirstOf(Cut(from), end) => Blank(i)
<1>1. Limit \in Nat \ {0}
  BY ChunksAssumption
<1>2. Cut(from) \in from..from + Limit /\ (Cut(from) = from => Blank(from))
  BY CutIs
<1>3. Cut(from) \in Nat /\ Cut(from) <= end /\ from <= end
  BY <1>1, <1>2
<1> DEFINE c == Cut(from)
<1> HIDE DEF c
<1>4. c \in Nat /\ c <= end + 1
  BY <1>3 DEF c
<1>5. /\ FirstOf(c, end) \in c..end + 1
      /\ \A i \in c..end : i < FirstOf(c, end) => Blank(i)
      /\ FirstOf(c, end) <= end => ~Blank(FirstOf(c, end))
  BY <1>4, FirstOfIs
<1>6. c = from => FirstOf(c, end) # from
  BY <1>2, <1>3, <1>5 DEF c
<1>7. c \in from..end /\ FirstOf(c, end) \in from + 1..end + 1
  BY <1>2, <1>3, <1>5, <1>6 DEF c
<1> QED
  BY <1>5, <1>7 DEF c
----------------------------------------------------------------------------
(***************************************************************************)
(* ChunksFrom is defined: what it says of a position uses it only further  *)
(* on.                                                                     *)
(***************************************************************************)
\* The chunks from a position on, with those of the rest of the text given.
Body(g, from) ==
    LET end == Len(text)
    IN  IF end - from + 1 > Limit
        THEN <<Stripped(from, Cut(from) - 1)>> \o g[FirstOf(Cut(from), end)]
        ELSE IF FirstOf(from, end) > end THEN <<>>
        ELSE <<Stripped(from, end)>>

Solves(g) == g = [from \in 1 .. Len(text) + 1 |-> Body(g, from)]

LEMMA BodyUsesRest ==
    ASSUME TextOK, NEW from \in 1 .. Len(text) + 1, NEW g, NEW h,
           \A i \in from + 1 .. Len(text) + 1 : g[i] = h[i]
    PROVE  Body(g, from) = Body(h, from)
<1>1. CASE Len(text) - from + 1 > Limit
  <2>1. FirstOf(Cut(from), Len(text)) \in from + 1 .. Len(text) + 1
    BY <1>1, NextIs DEF TextOK
  <2> QED
    BY <2>1 DEF Body
<1>2. CASE ~(Len(text) - from + 1 > Limit)
  BY <1>2 DEF Body
<1> QED
  BY <1>1, <1>2

LEMMA SolutionExists ==
    ASSUME TextOK
    PROVE  \E g : Solves(g)
<1> DEFINE end == Len(text)
           Upto(n) == \E g : /\ DOMAIN g = 1..end + 1
                             /\ \A from \in end + 1 - n .. end + 1 : g[from] = Body(g, from)
           S == {n \in Nat : n <= end => Upto(n)}
<1>1. end \in Nat
  BY DEF TextOK
<1>2. 0 \in S
  <2> DEFINE e == [i \in 1..end + 1 |-> Body(<<>>, end + 1)]
  <2>1. Body(e, end + 1) = Body(<<>>, end + 1)
    <3> HIDE DEF e
    <3>1. end + 1 \in 1 .. Len(text) + 1 /\ \A i \in end + 1 + 1 .. Len(text) + 1 : e[i] = <<>>[i]
      BY <1>1
    <3> HIDE DEF end
    <3> QED
      BY <3>1, BodyUsesRest
  <2>2. DOMAIN e = 1..end + 1 /\ e[end + 1] = Body(e, end + 1)
    BY <1>1, <2>1
  <2> HIDE DEF e
  <2>3. Upto(0)
    BY <1>1, <2>2
  <2> QED
    BY <2>3
<1>3. ASSUME NEW n \in Nat, n \in S PROVE n + 1 \in S
  <2> SUFFICES ASSUME n + 1 <= end PROVE Upto(n + 1)
    OBVIOUS
  <2>1. PICK g : /\ DOMAIN g = 1..end + 1
                 /\ \A from \in end + 1 - n .. end + 1 : g[from] = Body(g, from)
    BY <1>1, <1>3
  <2> DEFINE p == end - n
             h == [i \in 1..end + 1 |-> IF i = p THEN Body(g, p) ELSE g[i]]
  <2>2. p \in 1..end + 1
    BY <1>1
  <2>3. \A i \in p + 1 .. end + 1 : h[i] = g[i]
    BY <1>1
  <2>4. h[p] = Body(g, p) /\ DOMAIN h = 1..end + 1
    BY <2>2
  <2> HIDE DEF h
  <2>5. ASSUME NEW from \in p .. end + 1 PROVE h[from] = Body(h, from)
    <3>1. from \in 1 .. Len(text) + 1 /\ \A i \in from + 1 .. Len(text) + 1 : h[i] = g[i]
      BY <1>1, <2>2, <2>3
    <3>2. Body(h, from) = Body(g, from)
      BY <3>1, BodyUsesRest
    <3>3. h[from] = Body(g, from)
      BY <1>1, <2>1, <2>3, <2>4
    <3> QED
      BY <3>2, <3>3
  <2>6. end + 1 - (n + 1) = p
    BY <1>1
  <2> QED
    BY <2>4, <2>5, <2>6
<1> HIDE DEF S
<1>4. end \in S
  BY <1>1, <1>2, <1>3, Induction
<1>5. PICK g : /\ DOMAIN g = 1..end + 1
               /\ \A from \in end + 1 - end .. end + 1 : g[from] = Body(g, from)
  BY <1>1, <1>4 DEF S
<1> DEFINE h == [from \in 1..end + 1 |-> g[from]]
<1>6. ASSUME NEW from \in 1..end + 1 PROVE h[from] = Body(h, from)
  <2>1. \A i \in from + 1 .. end + 1 : h[i] = g[i]
    BY <1>1
  <2>2. h[from] = g[from]
    OBVIOUS
  <2> HIDE DEF h
  <2>3. Body(h, from) = Body(g, from)
    BY <2>1, BodyUsesRest
  <2> QED
    BY <1>1, <1>5, <2>2, <2>3
<1>7. h = [from \in 1..end + 1 |-> h[from]]
  OBVIOUS
<1> HIDE DEF h
<1>8. h = [from \in 1..end + 1 |-> Body(h, from)]
  BY <1>6, <1>7
<1> QED
  BY <1>8 DEF Solves

LEMMA ChunksFromIs ==
    ASSUME TextOK, NEW from \in 1 .. Len(text) + 1
    PROVE  ChunksFrom[from] = Body(ChunksFrom, from)
<1>1. ChunksFrom = CHOOSE g : Solves(g)
  BY Zenon DEF ChunksFrom, Solves, Body
<1>2. Solves(ChunksFrom)
  BY <1>1, SolutionExists, Zenon
<1> QED
  BY <1>2, Zenon DEF Solves
----------------------------------------------------------------------------
(***************************************************************************)
(* What the chunks keep.                                                   *)
(***************************************************************************)
Chunk == [first: Nat, last: Nat]

\* The chunks c keep the text from a position on.
Keep(c, from) ==
    /\ c \in Seq(Chunk)
    /\ \A k \in DOMAIN c : c[k].first >= from /\ c[k].last - c[k].first < Limit
    /\ \A j, k \in DOMAIN c : j < k => c[j].last < c[k].first
    /\ \A i \in from .. Len(text) :
           Blank(i) \/ \E k \in DOMAIN c : i \in c[k].first..c[k].last

\* One stripped piece keeps what it is cut from.
LEMMA StrippedKeeps ==
    ASSUME NEW from \in Nat \ {0}, NEW to \in Nat, from <= to + 1, to - from < Limit
    PROVE  LET s == Stripped(from, to) IN
           /\ s \in Chunk /\ s.first >= from /\ s.last <= to /\ s.last - s.first < Limit
           /\ \A i \in from..to : Blank(i) \/ i \in s.first..s.last
<1>1. /\ FirstOf(from, to) \in from..to + 1
      /\ \A i \in from..to : i < FirstOf(from, to) => Blank(i)
  BY FirstOfIs
<1>2. /\ LastOf(from, to) \in from - 1..to
      /\ \A i \in from..to : i > LastOf(from, to) => Blank(i)
  BY LastOfIs
<1>3. Stripped(from, to).first = FirstOf(from, to) /\ Stripped(from, to).last = LastOf(from, to)
      /\ Stripped(from, to) = [first |-> FirstOf(from, to), last |-> LastOf(from, to)]
  BY DEF Stripped
<1>4. FirstOf(from, to) \in Nat /\ LastOf(from, to) \in Nat /\ Limit \in Nat
  BY <1>1, <1>2, ChunksAssumption
<1>5. LastOf(from, to) - FirstOf(from, to) < Limit
  BY <1>1, <1>2, <1>4
<1>6. Stripped(from, to) \in Chunk
  BY <1>3, <1>4 DEF Chunk
<1>7. ASSUME NEW i \in from..to, ~Blank(i) PROVE i \in FirstOf(from, to)..LastOf(from, to)
  BY <1>1, <1>2, <1>4, <1>7
<1> QED
  BY <1>1, <1>2, <1>3, <1>5, <1>6, <1>7

LEMMA ConsIs ==
    ASSUME NEW S, NEW x \in S, NEW c \in Seq(S), NEW d, d = <<x>> \o c
    PROVE  /\ d \in Seq(S) /\ d[1] = x /\ DOMAIN d = 1..Len(c) + 1 /\ DOMAIN c = 1..Len(c)
           /\ Len(c) \in Nat /\ \A k \in 2..Len(c) + 1 : d[k] = c[k - 1]
           /\ \A k \in 1..Len(c) : d[k + 1] = c[k]
OBVIOUS

\* A piece before the chunks of the rest.
LEMMA ConsKeeps ==
    ASSUME TextOK, NEW from \in Nat \ {0}, NEW to \in Nat, from <= to + 1, to - from < Limit,
           NEW next \in Nat, to < next, NEW c, Keep(c, next),
           \A i \in to + 1 .. Len(text) : i < next => Blank(i)
    PROVE  Keep(<<Stripped(from, to)>> \o c, from)
<1> DEFINE s == Stripped(from, to)
           d == <<s>> \o c
<1>1. /\ s \in Chunk /\ s.first >= from /\ s.last <= to /\ s.last - s.first < Limit
      /\ \A i \in from..to : Blank(i) \/ i \in s.first..s.last
  BY StrippedKeeps
<1> HIDE DEF s
<1>2. c \in Seq(Chunk)
  BY DEF Keep
<1>3. /\ d \in Seq(Chunk) /\ d[1] = s /\ DOMAIN d = 1..Len(c) + 1 /\ DOMAIN c = 1..Len(c)
      /\ Len(c) \in Nat /\ \A k \in 2..Len(c) + 1 : d[k] = c[k - 1]
      /\ \A k \in 1..Len(c) : d[k + 1] = c[k]
  BY <1>1, <1>2, ConsIs
<1> HIDE DEF d
<1>4. ASSUME NEW k \in DOMAIN c
      PROVE  c[k] \in Chunk /\ c[k].first \in Nat /\ c[k].last \in Nat
  <2>1. c[k] \in Chunk
    BY <1>2, <1>3
  <2> QED
    BY <2>1 DEF Chunk
<1>5. \A k \in DOMAIN c : c[k].first >= next /\ c[k].last - c[k].first < Limit
  BY DEF Keep
<1>6. ASSUME NEW k \in DOMAIN d PROVE d[k].first >= from /\ d[k].last - d[k].first < Limit
  <2>1. CASE k = 1
    BY <1>1, <1>3, <2>1
  <2>2. CASE k # 1
    <3>1. k - 1 \in DOMAIN c /\ d[k] = c[k - 1]
      BY <1>3, <2>2
    <3> QED
      BY <1>4, <1>5, <3>1
  <2> QED
    BY <2>1, <2>2
<1>7. ASSUME NEW j \in DOMAIN d, NEW k \in DOMAIN d, j < k PROVE d[j].last < d[k].first
  <2>1. k - 1 \in DOMAIN c /\ d[k] = c[k - 1]
    BY <1>3, <1>7
  <2>2. CASE j = 1
    <3>1. s.last \in Nat /\ s.last <= to
      BY <1>1 DEF Chunk
    <3> QED
      BY <1>3, <1>4, <1>5, <2>1, <2>2, <3>1
  <2>3. CASE j # 1
    <3>1. j - 1 \in DOMAIN c /\ d[j] = c[j - 1] /\ j - 1 < k - 1
      BY <1>3, <1>7, <2>3
    <3> QED
      BY <2>1, <3>1 DEF Keep
  <2> QED
    BY <2>2, <2>3
<1>8. ASSUME NEW i \in from .. Len(text), ~Blank(i)
      PROVE  \E k \in DOMAIN d : i \in d[k].first..d[k].last
  <2>1. CASE i <= to
    <3>1. i \in d[1].first..d[1].last /\ 1 \in DOMAIN d
      BY <1>1, <1>3, <1>8, <2>1
    <3> QED
      BY <3>1
  <2>2. CASE i > to
    <3>1. i \in next .. Len(text)
      BY <1>8, <2>2 DEF TextOK
    <3>2. PICK k \in DOMAIN c : i \in c[k].first..c[k].last
      BY <1>8, <3>1 DEF Keep
    <3>3. k + 1 \in DOMAIN d /\ d[k + 1] = c[k]
      BY <1>3
    <3> QED
      BY <3>2, <3>3
  <2> QED
    BY <2>1, <2>2 DEF TextOK
<1> QED
  BY <1>3, <1>6, <1>7, <1>8 DEF Keep, d, s

LEMMA BodyKeeps ==
    ASSUME TextOK, NEW from \in 1 .. Len(text) + 1,
           \A i \in from + 1 .. Len(text) + 1 : Keep(ChunksFrom[i], i)
    PROVE  Keep(ChunksFrom[from], from)
<1> DEFINE end == Len(text)
<1>1. /\ end \in Nat /\ from \in Nat \ {0} /\ Limit \in Nat \ {0}
      /\ ChunksFrom[from] = Body(ChunksFrom, from)
  BY ChunksFromIs, ChunksAssumption DEF TextOK
<1>2. CASE end - from + 1 > Limit
  <2> DEFINE cut == Cut(from)
             next == FirstOf(cut, end)
  <2>1. /\ cut \in from..end /\ next \in from + 1..end + 1 /\ cut <= next
        /\ \A i \in cut..end : i < next => Blank(i)
    BY <1>1, <1>2, NextIs
  <2>2. cut \in from..from + Limit
    BY <1>1, CutIs
  <2>3. ChunksFrom[from] = <<Stripped(from, cut - 1)>> \o ChunksFrom[next]
    BY <1>1, <1>2 DEF Body
  <2> HIDE DEF cut, next
  <2>4. Keep(ChunksFrom[next], next)
    BY <2>1
  <2>5. cut - 1 \in Nat /\ from <= cut - 1 + 1 /\ cut - 1 - from < Limit
    BY <1>1, <2>1, <2>2
  <2>6. next \in Nat /\ cut - 1 < next /\ \A i \in cut - 1 + 1 .. Len(text) : i < next => Blank(i)
    BY <1>1, <2>1
  <2>7. Keep(<<Stripped(from, cut - 1)>> \o ChunksFrom[next], from)
    BY <1>1, <2>4, <2>5, <2>6, ConsKeeps
  <2> QED
    BY <2>3, <2>7
<1>3. CASE end - from + 1 <= Limit /\ FirstOf(from, end) > end
  <2>1. ChunksFrom[from] = <<>>
    BY <1>1, <1>3 DEF Body
  <2>2. \A i \in from..end : i < FirstOf(from, end) => Blank(i)
    BY <1>1, FirstOfIs
  <2>3. FirstOf(from, end) \in from..end + 1
    BY <1>1, FirstOfIs
  <2>4. \A i \in from..end : Blank(i)
    BY <1>1, <1>3, <2>2, <2>3
  <2> QED
    BY <2>1, <2>4 DEF Keep
<1>4. CASE end - from + 1 <= Limit /\ ~(FirstOf(from, end) > end)
  <2>1. ChunksFrom[from] = <<Stripped(from, end)>> \o <<>>
    <3>1. ChunksFrom[from] = <<Stripped(from, end)>>
      BY <1>1, <1>4 DEF Body
    <3> QED
      BY <3>1
  <2>2. Keep(<<>>, end + 1)
    BY <1>1 DEF Keep
  <2>3. from <= end + 1 /\ end - from < Limit /\ end + 1 \in Nat /\ end < end + 1
    BY <1>1, <1>4
  <2>4. \A i \in end + 1 .. Len(text) : i < end + 1 => Blank(i)
    BY <1>1
  <2> HIDE DEF end
  <2>5. Keep(<<Stripped(from, end)>> \o <<>>, from)
    BY <1>1, <2>2, <2>3, <2>4, ConsKeeps DEF end
  <2> QED
    BY <2>1, <2>5
<1> QED
  BY <1>1, <1>2, <1>3, <1>4

LEMMA ChunksFromKeep ==
    ASSUME TextOK
    PROVE  \A from \in 1 .. Len(text) + 1 : Keep(ChunksFrom[from], from)
<1> DEFINE end == Len(text)
           Upto(n) == \A from \in end + 1 - n .. end + 1 : Keep(ChunksFrom[from], from)
           S == {n \in Nat : n <= end => Upto(n)}
<1>1. end \in Nat
  BY DEF TextOK
<1>2. 0 \in S
  <2>1. ASSUME NEW from \in end + 1 .. end + 1 PROVE Keep(ChunksFrom[from], from)
    BY <1>1, BodyKeeps
  <2> QED
    BY <2>1
<1>3. ASSUME NEW n \in Nat, n \in S PROVE n + 1 \in S
  <2> SUFFICES ASSUME n + 1 <= end, NEW from \in end + 1 - (n + 1) .. end + 1
               PROVE  Keep(ChunksFrom[from], from)
    OBVIOUS
  <2>1. \A i \in end + 1 - n .. end + 1 : Keep(ChunksFrom[i], i)
    BY <1>1, <1>3
  <2>2. from \in 1 .. end + 1 /\ \A i \in from + 1 .. end + 1 : i \in end + 1 - n .. end + 1
    BY <1>1
  <2> QED
    BY <2>1, <2>2, BodyKeeps
<1> HIDE DEF S
<1>4. end \in S
  BY <1>1, <1>2, <1>3, Induction
<1>5. Upto(end)
  BY <1>1, <1>4 DEF S
<1> QED
  BY <1>1, <1>5

\* Whatever the text and the limit, the model is asked all of the text that is
\* not blank, in order and once, in parts that are within the limit.
THEOREM LongTextsAreKept == TextOK => ChunksKeepText
<1> SUFFICES ASSUME TextOK PROVE ChunksKeepText
  OBVIOUS
<1>1. DOMAIN text = 1 .. Len(text) /\ Len(text) \in Nat
  BY DEF TextOK
<1>2. Keep(ChunksFrom[1], 1)
  BY <1>1, ChunksFromKeep
<1>3. CASE ChunksFrom[1] = <<>>
  <2>1. Chunks = <<[first |-> 1, last |-> Len(text)]>>
    BY <1>3 DEF Chunks
  <2>2. Len(text) - 1 < Limit
    <3>1. ChunksFrom[1] = Body(ChunksFrom, 1)
      BY <1>1, ChunksFromIs
    <3>2. ~(Len(text) - 1 + 1 > Limit)
      <4> SUFFICES ASSUME Len(text) - 1 + 1 > Limit PROVE FALSE
        OBVIOUS
      <4> DEFINE next == FirstOf(Cut(1), Len(text))
      <4>1. ChunksFrom[1] = <<Stripped(1, Cut(1) - 1)>> \o ChunksFrom[next]
        BY <3>1 DEF Body
      <4>2. next \in 1 + 1 .. Len(text) + 1
        BY <1>1, NextIs
      <4>3. ChunksFrom[next] \in Seq(Chunk)
        BY <1>1, <4>2, ChunksFromKeep DEF Keep
      <4> QED
        BY <1>3, <4>1, <4>3
    <3> QED
      BY <1>1, <3>2, ChunksAssumption
  <2> QED
    BY <1>1, <2>1, <2>2 DEF ChunksKeepText
<1>4. CASE ChunksFrom[1] # <<>>
  <2>1. Chunks = ChunksFrom[1]
    BY <1>4 DEF Chunks
  <2> QED
    BY <1>1, <1>2, <2>1 DEF Keep, ChunksKeepText
<1> QED
  BY <1>3, <1>4
=============================================================================
