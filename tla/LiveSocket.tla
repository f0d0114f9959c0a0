----------------------------- MODULE LiveSocket -----------------------------
(***************************************************************************)
(* What the server's end of a live websocket promises: the browser         *)
(* component is modelled against it, and LiveCapture keeps it.  Only the   *)
(* messages that decide something are looked at.                           *)
(***************************************************************************)
Words == {"connecting", "finalizing", "stopped"}

Wire == [open : BOOLEAN, told : SUBSET Words]

NewWire == [open |-> TRUE, told |-> {}]

Says(wire, word) == [open |-> wire.open, told |-> wire.told \cup {word}]

Closed(wire) == [open |-> FALSE, told |-> wire.told]

Accepted(wire) == "connecting" \in wire.told

\* Nothing is said before "connecting" or after the close; "stopped" is the last
\* word, after "finalizing", and nothing comes between it and the close.
Talks(wire) == {Says(wire, IF Accepted(wire) THEN "finalizing" ELSE "connecting")}

Ends(wire) ==
    {Closed(wire)}
      \cup (IF "finalizing" \in wire.told THEN {Closed(Says(wire, "stopped"))} ELSE {})

Moves(wire) == IF wire.open THEN Talks(wire) \cup Ends(wire) ELSE {}
=============================================================================
