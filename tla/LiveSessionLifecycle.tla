------------------------ MODULE LiveSessionLifecycle ------------------------
(***************************************************************************)
(* What a row of live_sessions promises, whoever writes it: a session      *)
(* leaves "recording" once; it is finalizing or completed only if its      *)
(* audio is stored; one that failed without stored audio stays failed; one *)
(* with stored audio never records or finalizes again once it is resolved. *)
(***************************************************************************)
CONSTANT Sessions

VARIABLES status, stored

vars == <<status, stored>>

Init == status = [l \in Sessions |-> "recording"] /\ stored = {}

Store(l) ==
    /\ status[l] = "recording" /\ l \notin stored
    /\ status' = [status EXCEPT ![l] = "finalizing"]
    /\ stored' = stored \cup {l}

Discard(l) ==
    /\ status[l] = "recording" /\ l \notin stored
    /\ status' = [status EXCEPT ![l] = "failed"]
    /\ UNCHANGED stored

Resolve(l, outcome) ==
    /\ l \in stored /\ outcome \in {"completed", "failed"}
    /\ status' = [status EXCEPT ![l] = outcome]
    /\ UNCHANGED stored

Next == \E l \in Sessions :
           Store(l) \/ Discard(l) \/ \E o \in {"completed", "failed"} : Resolve(l, o)

Spec == Init /\ [][Next]_vars
=============================================================================
