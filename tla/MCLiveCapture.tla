---------------------------- MODULE MCLiveCapture ----------------------------
(***************************************************************************)
(* A live session of a process whose settings are at the limit.            *)
(***************************************************************************)
EXTENDS LiveCapture, LiveLimits

MCInit == Init /\ Started

MCSpec == MCInit /\ [][Next /\ UNCHANGED limits]_<<vars, limits>> /\ Fairness
=============================================================================
