--------------------------- MODULE TranscriptChunks ---------------------------
(***************************************************************************)
(* How a long transcript is cut for the model: _split_chunks.  A text is a *)
(* sequence of kinds of characters, a chunk a range of its positions.      *)
(***************************************************************************)
EXTENDS Integers, Sequences, FiniteSetsExt

CONSTANTS
    Limit,     \* SUMMARY_CHUNK_CHARS
    MaxText    \* bound on the length of a text

ASSUME ChunksAssumption == Limit \in Nat \ {0} /\ MaxText \in Nat

VARIABLE text   \* the transcript

Blank(i) == text[i] \in {"newline", "space"}

\* Where lstrip and rstrip stop.
FirstOf(from, to) == Min({i \in from..to : ~Blank(i)} \cup {to + 1})
LastOf(from, to) == Max({i \in from..to : ~Blank(i)} \cup {from - 1})

Stripped(from, to) == [first |-> FirstOf(from, to), last |-> LastOf(from, to)]

\* Mutant of Cut: the newline is looked for in all of the text.
CutAnywhere(from) ==
    LET newlines == {i \in from .. Len(text) : text[i] = "newline"}
    IN  IF newlines = {} \/ Max(newlines) - from < Limit \div 2 THEN from + Limit
        ELSE Max(newlines)

\* The text is cut at the last newline of what fits, unless that is in its first
\* half.
Cut(from) ==
    LET newlines == {i \in from .. from + Limit - 1 : text[i] = "newline"}
    IN  IF newlines = {} \/ Max(newlines) - from < Limit \div 2
        THEN from + Limit ELSE Max(newlines)

\* The chunks of what begins at a position.
ChunksFrom[from \in 1 .. Len(text) + 1] ==
    LET end == Len(text)
    IN  IF end - from + 1 > Limit
        THEN <<Stripped(from, Cut(from) - 1)>> \o ChunksFrom[FirstOf(Cut(from), end)]
        ELSE IF FirstOf(from, end) > end THEN <<>>
        ELSE <<Stripped(from, end)>>

Chunks ==
    IF ChunksFrom[1] = <<>> THEN <<[first |-> 1, last |-> Len(text)]>> ELSE ChunksFrom[1]

Texts == UNION {[1..n -> {"char", "newline", "space"}] : n \in 0..MaxText}

ChunksInit == text \in Texts

\* What the model is asked is the text: in order, nothing but blanks left out or
\* repeated, and no part over the limit, wherever newlines and blanks are.
ChunksKeepText ==
    LET chunks == Chunks IN
    /\ \A k \in DOMAIN chunks : chunks[k].last - chunks[k].first < Limit
    /\ \A j, k \in DOMAIN chunks : j < k => chunks[j].last < chunks[k].first
    /\ \A i \in DOMAIN text :
           Blank(i) \/ \E k \in DOMAIN chunks : i \in chunks[k].first..chunks[k].last
=============================================================================
