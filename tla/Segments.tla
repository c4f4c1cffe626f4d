------------------------------ MODULE Segments ------------------------------
(***************************************************************************)
(* What the segmenter promises to those who watch the stream: the blocks   *)
(* of the publisher's movie, numbered as they arrive, are cut into         *)
(* segments. No block appears twice or out of order, a segment never       *)
(* changes once it is cut, and every segment but the first begins with a   *)
(* key frame, so that a consumer can start or resume at any of them.       *)
(* A block may be lost (StreamingState says when).                         *)
(***************************************************************************)
EXTENDS Naturals, Sequences

VARIABLES
  received,  \* number of blocks that arrived
  segments,  \* the segments cut so far
  rest       \* the blocks after the last cut

Init ==
  /\ received = 0
  /\ segments = <<>>
  /\ rest = <<>>

\* The block goes on with the segment being collected.
Take(b) ==
  /\ rest' = Append(rest, b)
  /\ UNCHANGED segments

\* The block is a key frame and begins a new segment.
Cut(b) ==
  /\ b.key
  /\ segments' = Append(segments, rest)
  /\ rest' = <<b>>

Lose == UNCHANGED <<segments, rest>>

Receive(b) ==
  /\ b.n = received + 1
  /\ received' = b.n
  /\ Take(b) \/ Cut(b) \/ Lose

Next == \E key \in BOOLEAN : Receive([n |-> received + 1, key |-> key])

Spec == Init /\ [][Next]_<<received, segments, rest>>
=============================================================================
