----------------------------- MODULE MCSummaries -----------------------------
(***************************************************************************)
(* The rows of the action items, and the chunks a summary is made from.    *)
(* What the rows do does not depend on the text: one of them goes on.      *)
(***************************************************************************)
EXTENDS ActionItems, TranscriptChunks

MCInit == Init /\ ChunksInit

MCNext == text = <<>> /\ Next /\ UNCHANGED text

MCSpec == MCInit /\ [][MCNext]_<<vars, text>>
=============================================================================
