---------------------------- MODULE StreamInput ----------------------------
(***************************************************************************)
(* One publisher connection: StreamInput, its 64 KB buffer, and how the    *)
(* state object (HeaderDetectionState, then StreamingState) walks through  *)
(* the data in it.                                                         *)
(*                                                                         *)
(* Reads arrive behind the data already in the buffer. The HTTP parser     *)
(* (external) calls on_body for each piece of the movie in a read, and     *)
(* on_body moves the piece to the end of the data, within the same         *)
(* buffer. Then process_data consumes what it can from the front, and the  *)
(* rest is moved to the front. on_read runs without interruption; its      *)
(* loops are modelled step by step, pc saying how far it is.               *)
(*                                                                         *)
(* A byte of the movie is represented by its position in the movie, from   *)
(* 1 on, and every other byte by Junk. The decoder does not look at the    *)
(* length of the data: a head that is not complete is decoded from         *)
(* whatever bytes follow the data, so its outcome is a choice.             *)
(***************************************************************************)
EXTENDS Integers, Sequences

CONSTANTS
  Movies,         \* the inputs: sequences of elements, see MovieAssumption
  BufferLength,   \* buffer_length: 65536
  SegmentLength,  \* size of infiniteSegment: 12
  HeadLengthMax,  \* the longest head the decoder reads
  OverheadMax     \* bound: bytes of HTTP framing before a piece of the movie

(* An element of a movie, in the flat order in which the code walks: where *)
(* it starts, the length of its id, of its head (id and size), and of what *)
(* is consumed at once, which is the head for Segment and Cluster.         *)
Element ==
  [kind : {"ebml", "segment", "info", "tracks", "cluster", "other"},
   at : Nat, id : Nat \ {0}, head : Nat \ {0}, size : Nat \ {0}]

\* Element i of m is the first of its kind.
First(m, kind, i) == m[i].kind = kind /\ \A k \in 1 .. (i - 1) : m[k].kind # kind

\* Each element begins behind every one before it, the next one at once.
ASSUME MovieAssumption ==
  \A m \in Movies :
    /\ m \in Seq(Element)
    /\ Len(m) >= 4
    /\ m[1].kind = "ebml" /\ m[1].at = 0
    /\ m[2].kind = "segment"
    /\ \E i, j \in 3 .. Len(m) :
         /\ First(m, "info", i) /\ First(m, "tracks", j)
         /\ \A k \in 3 .. Len(m) :
              m[k].kind = "cluster" => i < k /\ j < k
    /\ \A i \in DOMAIN m :
         /\ m[i].id < m[i].head
         /\ m[i].head <= m[i].size
         /\ m[i].head <= HeadLengthMax
         /\ m[i].kind \in {"segment", "cluster"} => m[i].size = m[i].head
         /\ i < Len(m) => m[i + 1].at = m[i].at + m[i].size
         /\ \A k \in DOMAIN m : i < k => m[i].at + m[i].size <= m[k].at

ASSUME BufferAssumption ==
  /\ BufferLength \in Nat \ {0}
  /\ SegmentLength \in Nat
  /\ HeadLengthMax \in Nat
  /\ OverheadMax \in Nat \ {0}

Junk == 0

VARIABLES
  movie,    \* what this publisher sends
  arrived,  \* bytes of it that were read
  buffer,   \* buffer_.buffer
  offset,   \* buffer_.offset, where the next read goes
  length,   \* buffer_.length
  running,  \* running_
  state,    \* the class of state_
  parser,   \* whether the HTTP parser still works
  pc,       \* on_read is not running, before an on_body, or in its loop
  bodies,   \* the pieces of the current read yet to be passed to on_body
  scan,     \* process_data's offset
  handled,  \* history: the elements StreamingState has consumed
  header,   \* length of the header given to set_header, 0 before
  fault     \* how the process died, if it did; "overrun" is a write behind the
            \* end of header_buffer, from where on the behaviour is undefined

vars == <<movie, arrived, buffer, offset, length, running, state, parser, pc,
          bodies, scan, handled, header, fault>>

Addresses == 0 .. (BufferLength - 1)

End(e) == e.at + e.size

Total == End(movie[Len(movie)])

Of(kind) == movie[CHOOSE i \in DOMAIN movie : First(movie, kind, i)]

Body == [at : Addresses, length : Nat \ {0}]

TypeOK ==
  /\ movie \in Movies
  /\ arrived \in 0 .. Total
  /\ buffer \in [Addresses -> 0 .. Total]
  /\ offset \in 0 .. BufferLength
  /\ length \in 0 .. BufferLength
  /\ running \in BOOLEAN
  /\ state \in {"HeaderDetectionState", "StreamingState"}
  /\ parser \in {"ok", "failed"}
  /\ pc \in {"idle", "body", "process"}
  /\ bodies \in Seq(Body)
  /\ scan \in 0 .. BufferLength
  /\ handled \in Seq(DOMAIN movie)
  /\ header \in Nat
  /\ fault \in {"none", "thrown", "exited", "overrun", "wrapped"}

\* StreamInput::run, with the members as the constructors leave them.
Init ==
  /\ movie \in Movies
  /\ arrived = 0
  /\ buffer = [i \in Addresses |-> Junk]
  /\ offset = 0
  /\ length = 0
  /\ running = TRUE
  /\ state = "HeaderDetectionState"
  /\ parser = "ok"
  /\ pc = "idle"
  /\ bodies = <<>>
  /\ scan = 0
  /\ handled = <<>>
  /\ header = 0
  /\ fault = "none"

-----------------------------------------------------------------------------
Up == fault = "none"

Idle == Up /\ pc = "idle" /\ running

Span(at, n) == at .. (at + n - 1)

Memmove(to, from, n) ==
  [i \in Addresses |-> IF i \in Span(to, n) THEN buffer[from + i - to]
                                            ELSE buffer[i]]

\* Mutant: on_alloc forgets the data that the buffer holds.
RoomWhole == BufferLength

\* on_alloc hands out the buffer from offset on.
Room == BufferLength - offset

(* A read: framing, a piece of the movie, and perhaps more framing and a   *)
(* second piece. Framing at the end of a read changes nothing.             *)
Read(before, first, between, second) ==
  LET at1 == offset + before
      at2 == at1 + first + between
  IN  /\ Idle
      /\ parser = "ok"
      /\ (between = 0) = (second = 0)
      /\ before + first + between + second <= Room
      /\ first + second <= Total - arrived
      /\ buffer' = [i \in Addresses |->
                      CASE i \in Span(at1, first) -> arrived + i - at1 + 1
                        [] i \in Span(at2, second) ->
                             arrived + first + i - at2 + 1
                        [] i < offset -> buffer[i]
                        [] OTHER -> Junk]
      /\ bodies' = IF second = 0
                     THEN <<[at |-> at1, length |-> first]>>
                     ELSE <<[at |-> at1, length |-> first],
                            [at |-> at2, length |-> second]>>
      /\ arrived' = arrived + first + second
      /\ pc' = "body"
      /\ UNCHANGED <<movie, offset, length, running, state, parser, scan,
                     handled, header, fault>>

\* A read of no bytes, which the parser takes for the end of the message: it
\* fails, and from then on every read is ignored.
EmptyRead ==
  /\ Idle
  /\ Room > 0
  /\ parser = "ok"
  /\ parser' = "failed"
  /\ UNCHANGED <<movie, arrived, buffer, offset, length, running, state, pc,
                 bodies, scan, handled, header, fault>>

\* on_read with nread < 0: the connection is closed, and nothing read again.
Close ==
  /\ Idle
  /\ running' = FALSE
  /\ UNCHANGED <<movie, arrived, buffer, offset, length, state, parser, pc,
                 bodies, scan, handled, header, fault>>

\* on_body, up to its loop.
OnBody ==
  /\ Up
  /\ pc = "body"
  /\ buffer' = Memmove(offset, Head(bodies).at, Head(bodies).length)
  /\ length' = length + Head(bodies).length
  /\ bodies' = Tail(bodies)
  /\ scan' = 0
  /\ pc' = "process"
  /\ UNCHANGED <<movie, arrived, offset, running, state, parser, handled,
                 header, fault>>

-----------------------------------------------------------------------------
(* The rest of on_body, given what process_data returned.                 *)

Dies(how) ==
  /\ fault' = how
  /\ UNCHANGED <<buffer, offset, length, bodies, scan, pc>>

\* Mutant: offset stays where the last read began.
LeaveKeepsOffset(rest) ==
  /\ length' = rest
  /\ offset' = offset
  /\ pc' = IF bodies = <<>> THEN "idle" ELSE "body"
  /\ UNCHANGED <<bodies, scan, fault>>

\* The loop ends with rest bytes left: the next read goes behind them.
Leave(rest) ==
  /\ length' = rest
  /\ offset' = rest
  /\ pc' = IF bodies = <<>> THEN "idle" ELSE "body"
  /\ UNCHANGED <<bodies, scan, fault>>

\* Between reads the bytes beyond the data are of no use to anyone.
Forget(b, rest) ==
  [i \in Addresses |-> IF bodies = <<>> /\ i >= rest THEN Junk ELSE b[i]]

\* Mutant: the data are processed again although nothing was consumed.
BreakRetries ==
  /\ scan' = 0
  /\ UNCHANGED <<buffer, offset, length, bodies, pc, fault>>

\* Nothing was consumed: wait for more data.
Break ==
  /\ Leave(length)
  /\ buffer' = Forget(buffer, length)

\* An offset beyond the data. The check that throws misses those up to offset,
\* for which length - new wraps and the memmove runs out of memory.
BeyondData(new) ==
  /\ new > length
  /\ Dies(IF new > offset + length THEN "thrown" ELSE "wrapped")

\* What is left is processed again.
Again(rest) ==
  /\ length' = rest
  /\ offset' = rest
  /\ scan' = 0
  /\ UNCHANGED <<pc, bodies, fault>>

\* Mutant: the rest of the data is not moved to the front.
AdvanceUnmoved(new) ==
  /\ new < length
  /\ Again(length - new)
  /\ UNCHANGED buffer

\* The rest of the data is moved to the front.
Advance(new) ==
  /\ new < length
  /\ Again(length - new)
  /\ buffer' = Memmove(0, new, length - new)

Return(new) ==
  \/ new = 0 /\ Break
  \/ BeyondData(new)
  \/ new > 0 /\ new = length /\ Leave(0) /\ buffer' = Forget(buffer, 0)
  \/ new > 0 /\ Advance(new)

-----------------------------------------------------------------------------
(* HeaderDetectionState::process_data.                                    *)

\* The element that ends the header: Info or Tracks, whichever comes later.
HeaderEnd ==
  IF End(Of("info")) < End(Of("tracks")) THEN End(Of("tracks"))
                                         ELSE End(Of("info"))

\* Info and Tracks are found if something follows them.
Found == HeaderEnd < length

\* Mutant: Info and Tracks are copied before the test that they are found.
CopiedUntested ==
  movie[1].size + SegmentLength + Of("info").size + Of("tracks").size

(* What one call copies into header_buffer, before it knows whether it     *)
(* will keep it: the EBML element, the Segment that replaces the input's,  *)
(* Info once that is found, and Tracks once both are.                      *)
Copied ==
  movie[1].size + SegmentLength
    + (IF End(Of("info")) < length THEN Of("info").size ELSE 0)
    + (IF Found THEN Of("tracks").size ELSE 0)

\* Nothing bounds the copies. (The size in a head of the EBML element that is
\* not complete is made of stray bytes: see HeaderTorn.)
CopiesFit == movie[1].head <= length => Copied <= BufferLength

(* The search has decoded a head that was not complete: of the EBML        *)
(* element, of the Segment and of its first element whatever the length of *)
(* the data, of the others if they begin within the data.                  *)
DecodesBeyond ==
  \/ length < movie[3].at + movie[3].head
  \/ \E i \in DOMAIN movie :
       /\ movie[i].at < length /\ length < movie[i].at + movie[i].head
       /\ End(movie[i]) <= HeaderEnd

Detecting ==
  /\ Up
  /\ pc = "process"
  /\ state = "HeaderDetectionState"
  /\ UNCHANGED <<movie, arrived, running, parser, handled>>

DetectHeader ==
  /\ Detecting
  /\ CopiesFit
  /\ Found
  /\ state' = "StreamingState"
  /\ header' = Copied
  /\ Return(End(Of("segment")))

NoHeaderYet ==
  /\ Detecting
  /\ CopiesFit
  /\ ~Found
  /\ Return(0)
  /\ UNCHANGED <<state, header>>

\* The copies run over the end of header_buffer, found or not.
HeaderOverruns ==
  /\ Detecting
  /\ ~CopiesFit
  /\ Dies("overrun")
  /\ UNCHANGED <<state, header>>

\* A size from stray bytes ends the process in EBML::end_offset; a stray id
\* throws, and a stray size of the EBML element is used in a memcpy.
HeaderTorn ==
  /\ Detecting
  /\ CopiesFit
  /\ ~Found
  /\ DecodesBeyond
  /\ \E how \in {"exited", "thrown", "overrun"} :
       /\ how = "thrown" => length < movie[1].id
       /\ how = "overrun" => length < movie[1].head
       /\ Dies(how)
  /\ UNCHANGED <<state, header>>

-----------------------------------------------------------------------------
(* StreamingState::process_data, one element of its loop at a time.       *)

Streaming ==
  /\ Up
  /\ pc = "process"
  /\ state = "StreamingState"
  /\ UNCHANGED <<movie, arrived, running, parser, state, header>>

\* The data at scan begin with the head of element i, as far as they go.
Decodes(i) ==
  \A k \in 0 .. (movie[i].head - 1) :
    scan + k < length => buffer[scan + k] = movie[i].at + k + 1

\* Mutant: the last element of the data counts as not loaded.
LoadedEarlierOnly(i) == scan + movie[i].size < length

\* Element i is fully loaded.
Loaded(i) == scan + movie[i].size <= length

HeadLoaded(i) == scan + movie[i].head <= length

Consume(i) ==
  /\ Streaming
  /\ scan < length
  /\ Decodes(i)
  /\ Loaded(i)
  /\ scan' = scan + movie[i].size
  /\ handled' = Append(handled, i)
  /\ UNCHANGED <<buffer, offset, length, bodies, pc, fault>>

\* The loop has come to the end of the data.
ReachEnd ==
  /\ Streaming
  /\ scan = length
  /\ Return(scan)
  /\ UNCHANGED handled

(* An element that is not fully loaded is held back. A Cluster is not      *)
(* tested, so it is held back only if its id is not complete either and    *)
(* the bytes behind it do not happen to complete it.                       *)
HoldBack(i) ==
  /\ Streaming
  /\ scan < length
  /\ Decodes(i)
  /\ ~Loaded(i)
  /\ movie[i].kind = "cluster" => length < scan + movie[i].id
  /\ Return(scan)
  /\ UNCHANGED handled

\* A size from stray bytes ends the process in EBML::end_offset.
HeadTorn(i) ==
  /\ Streaming
  /\ scan < length
  /\ Decodes(i)
  /\ ~HeadLoaded(i)
  /\ movie[i].kind = "cluster" => length < scan + movie[i].id
  /\ Dies("exited")
  /\ UNCHANGED handled

\* The head of a Cluster is taken as it is: process_data returns where it ends,
\* or seems to end, beyond the data.
ClusterTorn(i) ==
  /\ Streaming
  /\ scan < length
  /\ movie[i].kind = "cluster"
  /\ Decodes(i)
  /\ ~HeadLoaded(i)
  /\ \E new \in (length + 1) .. (scan + HeadLengthMax) :
       /\ length > scan + movie[i].id => new = scan + movie[i].head
       /\ Return(new)
  /\ UNCHANGED handled

Step ==
  \/ OnBody
  \/ DetectHeader
  \/ NoHeaderYet
  \/ HeaderOverruns
  \/ HeaderTorn
  \/ ReachEnd
  \/ \E i \in DOMAIN movie :
       Consume(i) \/ HoldBack(i) \/ HeadTorn(i) \/ ClusterTorn(i)

Next ==
  \/ \E before, between \in 0 .. OverheadMax :
       \E first \in 1 .. BufferLength, second \in 0 .. BufferLength :
         Read(before, first, between, second)
  \/ EmptyRead
  \/ Close
  \/ Step

Spec == Init /\ [][Next]_vars

\* on_read, once called, runs on.
FairSpec == Spec /\ WF_vars(Step)

-----------------------------------------------------------------------------
(* Safety.                                                                *)

\* The bytes of the pieces in b.
Bytes(b) ==
  LET of(k) == IF k \in DOMAIN b THEN b[k].length ELSE 0
  IN  of(1) + of(2)

\* Bytes of the movie passed to on_body, and those before the buffer's first.
Passed == arrived - Bytes(bodies)

Base == Passed - length

\* n bytes of the movie from position p on lie at address at.
Lies(at, n, p) == \A i \in 0 .. (n - 1) : buffer[at + i] = p + i + 1

(* Whatever the sizes of the reads and of the pieces in them, the data are *)
(* the latest bytes passed to on_body, without a gap, and moving them      *)
(* about in the buffer never overwrites a piece of the same read that the  *)
(* parser has yet to pass.                                                 *)
BufferExact ==
  Up =>
    /\ Lies(0, length, Base)
    /\ bodies # <<>> => Lies(bodies[1].at, bodies[1].length, Passed)
    /\ Len(bodies) = 2 =>
         Lies(bodies[2].at, bodies[2].length, Passed + bodies[1].length)
    /\ pc # "process" => offset = length

(* StreamingState consumes the elements of the Segment one by one, none    *)
(* twice and none left out, and begins each at its first byte.             *)
NextElement == Len(handled) + 3

OneByOne ==
  /\ \A k \in DOMAIN handled : handled[k] = k + 2
  /\ Up /\ state = "HeaderDetectionState" => Base = 0
  /\ Up /\ state = "StreamingState" /\ NextElement <= Len(movie) =>
       Base + (IF pc = "process" THEN scan ELSE 0) = movie[NextElement].at

(* No complete element stays in the buffer when on_read returns, so what a *)
(* publisher has sent never waits for what it sends next (but the header   *)
(* does, for one byte).                                                    *)
NothingWaits ==
  Up /\ pc = "idle" =>
    IF state = "HeaderDetectionState"
      THEN length <= HeaderEnd
      ELSE NextElement <= Len(movie) => length < movie[NextElement].size

(* The buffer is full, and the connection stalls for ever, only if the     *)
(* header or the next element does not fit into it.                        *)
FullOnlyIfOversize ==
  Up /\ pc = "idle" /\ Room = 0 =>
    IF state = "HeaderDetectionState"
      THEN HeaderEnd >= BufferLength
      ELSE movie[NextElement].size > BufferLength

(* header_buffer has the length of the input's buffer, and every call      *)
(* copies into it before it knows what it has found. Info and Tracks fit,  *)
(* since they were in the input's buffer, unless the Segment that goes in  *)
(* between is longer than the input's. The EBML element is copied as soon  *)
(* as its head is there: one that leaves no room for the Segment is never  *)
(* waited for, nor published; its head is the end of the process.          *)
EbmlTooLong == movie[1].size + SegmentLength > BufferLength

HeaderFits ==
  /\ header <= BufferLength
  /\ fault = "overrun" =>
       length < movie[1].head \/ EbmlTooLong \/ Of("segment").size < SegmentLength
  /\ EbmlTooLong =>
       /\ state = "HeaderDetectionState"
       /\ Up /\ pc # "process" => length < movie[1].head

(* streaming_state.cc:51 "The element is not fully loaded: we need more    *)
(* data, so we end this processing cycle. The StreamInput will fill the    *)
(* buffer and take care of the yet unprocessed element.": process_data     *)
(* never returns an offset beyond the data, at which on_body dies.         *)
KeepsUnprocessed ==
  state = "StreamingState" => fault \notin {"thrown", "wrapped"}

-----------------------------------------------------------------------------
(* Liveness.                                                              *)

\* The loops of on_body and process_data end: on_read returns to the loop that
\* serves every other connection.
OnReadReturns == (pc # "idle") ~> (pc = "idle" \/ ~Up)
=============================================================================
