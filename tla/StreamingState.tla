--------------------------- MODULE StreamingState ---------------------------
(***************************************************************************)
(* The segmenter: StreamingState::process_data, which reads the publisher's *)
(* movie element by element, and the MovieFragment it fills and pushes.    *)
(*                                                                         *)
(* A fragment's data is represented by its length, the cluster heads       *)
(* written into it and the blocks copied into it, each with its offset.    *)
(* The parsing of the elements is not modelled here: each element of the   *)
(* loop of process_data is an action, whose input is what the code reads   *)
(* from the element. The input is a movie whose clusters start with their  *)
(* Timecode. Elements the switch ignores change nothing.                   *)
(*                                                                         *)
(* keyframe_offset_ and keyframe_length_ are left out: append_key_block    *)
(* sets them only if keyframe_offset_ is already positive, which it never  *)
(* is, so both keep the -1 of the constructor.                             *)
(***************************************************************************)
EXTENDS Integers, Sequences

CONSTANTS
  MINIMAL_FRAGMENT_LENGTH,     \* 100 * 1024
  CAPACITY,                    \* size of data_: 1024 * 1024
  CLUSTER_HEAD_LENGTH,         \* 19
  CLUSTER_LENGTH_LAST_OFFSET,  \* 8: the size field ends here in the head
  INITIAL_CLUSTER_LENGTH,      \* 10
  SignBit,                     \* 2^31: cluster_time_code_ is an int32_t
  Timecodes,                   \* Timecode values of the input
  Lengths,                     \* element sizes of the input's blocks
  MaxElements                  \* bound: number of elements read

ASSUME SegmenterAssumption ==
  /\ MINIMAL_FRAGMENT_LENGTH \in Nat
  /\ CAPACITY \in Nat
  /\ CLUSTER_HEAD_LENGTH \in Nat
  /\ CLUSTER_LENGTH_LAST_OFFSET \in Nat
  /\ INITIAL_CLUSTER_LENGTH \in Nat
  /\ SignBit \in Nat \ {0}
  /\ MaxElements \in Nat
  /\ Timecodes \subseteq Nat
  /\ Lengths \subseteq Nat \ {0}
  /\ CLUSTER_HEAD_LENGTH > 0
  /\ INITIAL_CLUSTER_LENGTH <= CLUSTER_HEAD_LENGTH
  /\ CLUSTER_HEAD_LENGTH <= MINIMAL_FRAGMENT_LENGTH
  /\ \A length \in Lengths : MINIMAL_FRAGMENT_LENGTH + length <= CAPACITY

VARIABLES
  fragments,        \* the MovieFragments allocated, by their address
  current,          \* fragment_: the address of the one being filled
  pushed,           \* the addresses given to Stream::push_fragment
  clusterTimeCode,  \* cluster_time_code_
  crashed,          \* the process died of a write beyond data_
  source            \* the input so far, see Source

vars == <<fragments, current, pushed, clusterTimeCode, crashed, source>>

(* History of the input: how many elements and blocks it had, the Timecode *)
(* of its latest cluster (NoTimecode before the first), and sinceKey, the  *)
(* bytes it asked to be stored since the latest video key frame, that      *)
(* frame included.                                                         *)
NoTimecode == -1

Source ==
  [elements : Nat, blocks : Nat, timecode : Nat \cup {NoTimecode},
   sinceKey : Nat]

(* A cluster head: where it starts, its Timecode and its size, as written. *)
(* A block: where it starts, and from the input its number, whether it is  *)
(* a video key frame, and the Timecode of its cluster.                     *)
ClusterHead == [at : Nat, timecode : Nat, size : Nat]

Block == [at : Nat, n : Nat, key : BOOLEAN, timecode : Nat]

\* MovieFragment. cluster is the open cluster: the head cluster_offset_
\* refers to, 0 for -1. lost is a history: the blocks dropped.
MovieFragment ==
  [length : Nat, cluster : Nat, heads : Seq(ClusterHead), blocks : Seq(Block),
   lost : Nat]

NewFragment ==
  [length |-> 0, cluster |-> 0, heads |-> <<>>, blocks |-> <<>>, lost |-> 0]

TypeOK ==
  /\ fragments \in Seq(MovieFragment)
  /\ current \in DOMAIN fragments
  /\ pushed \in Seq(DOMAIN fragments)
  /\ clusterTimeCode \in (-SignBit) .. (SignBit - 1)
  /\ crashed \in BOOLEAN
  /\ source \in Source
  /\ \A i \in DOMAIN fragments :
       fragments[i].cluster \in 0 .. Len(fragments[i].heads)

Init ==
  /\ fragments = <<NewFragment>>
  /\ current = 1
  /\ pushed = <<>>
  /\ clusterTimeCode = 0
  /\ crashed = FALSE
  /\ source = [elements |-> 0, blocks |-> 0, timecode |-> NoTimecode,
               sinceKey |-> 0]

-----------------------------------------------------------------------------
(* MovieFragment's member functions, as functions of the fragment.        *)

\* MovieFragment::close_cluster: the size is written over the head's zeros.
CloseCluster(f) ==
  IF f.cluster = 0
    THEN f
    ELSE [f EXCEPT
            !.heads[f.cluster].size =
              f.length - f.heads[f.cluster].at - INITIAL_CLUSTER_LENGTH,
            !.cluster = 0]

\* The Timecode that open_cluster's loop writes: nothing but the head's zeros
\* if the code is negative.
WrittenTimecode(code) == IF code > 0 THEN code ELSE 0

AddHead(f, code) ==
  [f EXCEPT
     !.heads = Append(@, [at |-> f.length, size |-> 0,
                          timecode |-> WrittenTimecode(code)]),
     !.cluster = Len(f.heads) + 1,
     !.length = @ + CLUSTER_HEAD_LENGTH]

\* Mutant: open_cluster leaves an open cluster's size unwritten.
OpenClusterUnclosed(f, code) == AddHead(f, code)

\* MovieFragment::open_cluster. It does not look at the capacity.
OpenCluster(f, code) == AddHead(CloseCluster(f), code)

\* MovieFragment::append_block and append_key_block: a block that does not
\* fit is dropped.
AppendBlock(f, b, length) ==
  IF CAPACITY < f.length + length
    THEN [f EXCEPT !.lost = @ + 1]
    ELSE [f EXCEPT !.blocks = Append(@, [b EXCEPT !.at = f.length]),
                   !.length = @ + length]

-----------------------------------------------------------------------------
\* load_unsigned assembles 32 bits, which cluster_time_code_ takes as signed.
SignedUnwrapped(t) == t  \* mutant: a 64-bit cluster_time_code_

Signed(t) ==
  LET word == t % (2 * SignBit) IN
    IF word < SignBit THEN word ELSE word - 2 * SignBit

Reads == ~crashed /\ source.elements < MaxElements

\* Mutant: the Timecode is not remembered for the fragments cut later.
TimecodeForgotten(t) ==
  /\ Reads
  /\ fragments' = [fragments EXCEPT ![current] = OpenCluster(@, Signed(t))]
  /\ source' = [source EXCEPT !.elements = @ + 1,
                              !.timecode = t,
                              !.sinceKey = @ + CLUSTER_HEAD_LENGTH]
  /\ UNCHANGED <<clusterTimeCode, current, pushed, crashed>>

\* case ID_TIMECODE.
Timecode(t) ==
  /\ Reads
  /\ clusterTimeCode' = Signed(t)
  /\ fragments' = [fragments EXCEPT ![current] = OpenCluster(@, Signed(t))]
  /\ source' = [source EXCEPT !.elements = @ + 1,
                              !.timecode = t,
                              !.sinceKey = @ + CLUSTER_HEAD_LENGTH]
  /\ UNCHANGED <<current, pushed, crashed>>

\* A block of the input, before it is stored.
InputBlock(key) ==
  [at |-> 0, n |-> source.blocks + 1, key |-> key,
   timecode |-> source.timecode]

ReadsBlock(key, length) ==
  /\ Reads
  /\ source.timecode # NoTimecode
  /\ source' = [source EXCEPT
                  !.elements = @ + 1,
                  !.blocks = @ + 1,
                  !.sinceKey = IF key THEN length ELSE @ + length]

\* The block goes into the fragment being filled.
Store(key, length) ==
  /\ ReadsBlock(key, length)
  /\ fragments' = [fragments EXCEPT
                     ![current] = AppendBlock(@, InputBlock(key), length)]
  /\ UNCHANGED <<current, pushed, clusterTimeCode, crashed>>

\* Mutant: the fragment pushed goes on being filled.
PushKeepsFilling(key, length) ==
  /\ ReadsBlock(key, length)
  /\ pushed' = Append(pushed, current)
  /\ fragments' = [fragments EXCEPT
                     ![current] = AppendBlock(OpenCluster(@, clusterTimeCode),
                                              InputBlock(key), length)]
  /\ UNCHANGED <<current, clusterTimeCode, crashed>>

\* The fragment is closed and pushed, and the block begins the next one.
Push(key, length) ==
  /\ ReadsBlock(key, length)
  /\ pushed' = Append(pushed, current)
  /\ current' = Len(fragments) + 1
  /\ fragments' =
       Append([fragments EXCEPT ![current] = CloseCluster(@)],
              AppendBlock(OpenCluster(NewFragment, clusterTimeCode),
                          InputBlock(key), length))
  /\ UNCHANGED <<clusterTimeCode, crashed>>

\* A video key frame ends a fragment that is long enough. Mutants: any video
\* frame does; the minimum is wrong.
CutsAnywhere(key) == fragments[current].length >= MINIMAL_FRAGMENT_LENGTH

CutsLate(key) == key /\ fragments[current].length >= 2 * MINIMAL_FRAGMENT_LENGTH

Cuts(key) == key /\ fragments[current].length >= MINIMAL_FRAGMENT_LENGTH

\* case ID_SIMPLEBLOCK. A key flag of another track's block is not looked at.
SimpleBlock(track, flag, length) ==
  LET key == track = "video" /\ flag IN
    \/ Cuts(key) /\ Push(key, length)
    \/ ~Cuts(key) /\ Store(key, length)

\* case ID_BLOCKGROUP.
BlockGroup(length) == Store(FALSE, length)

\* A write beyond data_, of which open_cluster may have made one, either hits
\* memory nobody uses or kills the process.
Crash ==
  /\ ~crashed
  /\ fragments[current].length > CAPACITY
  /\ crashed' = TRUE
  /\ UNCHANGED <<fragments, current, pushed, clusterTimeCode, source>>

Next ==
  \/ Crash
  \/ \E t \in Timecodes : Timecode(t)
  \/ \E length \in Lengths :
       \/ BlockGroup(length)
       \/ \E track \in {"video", "other"}, flag \in BOOLEAN :
            SimpleBlock(track, flag, length)

Spec == Init /\ [][Next]_vars

-----------------------------------------------------------------------------
(* Safety.                                                                *)

Fragment(k) == fragments[pushed[k]]

(* What push_fragment has handed to the consumers is not written to again: *)
(* they send its memory later, without a lock or a copy.                   *)
PushedImmutable ==
  [][\A k \in DOMAIN pushed : fragments'[pushed[k]] = Fragment(k)]_vars

\* The abstract specification: order, no duplicates, key frames first.
View(f) ==
  [i \in DOMAIN f.blocks |-> [n |-> f.blocks[i].n, key |-> f.blocks[i].key]]

S == INSTANCE Segments WITH
       received <- source.blocks,
       segments <- [k \in DOMAIN pushed |-> View(Fragment(k))],
       rest <- View(fragments[current])

CutAtKeyFrames == S!Spec

(* A block's time is relative to the Timecode of the cluster it lies in:   *)
(* although fragments are cut in the middle of clusters, the last head     *)
(* before a block has the Timecode of its cluster in the input. Timecodes  *)
(* from 2^31 on are out of the code's reach.                               *)
Enclosing(f, b, h) ==
  /\ f.heads[h].at < b.at
  /\ \A j \in DOMAIN f.heads : j > h => f.heads[j].at > b.at

TimecodeKept ==
  \A i \in DOMAIN fragments : \A m \in DOMAIN fragments[i].blocks :
    LET f == fragments[i]
        b == f.blocks[m]
    IN  b.timecode < SignBit =>
          \E h \in DOMAIN f.heads :
            Enclosing(f, b, h) /\ f.heads[h].timecode = b.timecode

\* Where cluster h of f ends: at the next head or the end of the data.
ClusterEnd(f, h) ==
  IF h < Len(f.heads) THEN f.heads[h + 1].at ELSE f.length

(* The clusters of a fragment follow each other from its first byte on,    *)
(* and every one that is not being filled has had its size written, the    *)
(* last one by the push.                                                   *)
ClustersTile ==
  \A i \in DOMAIN fragments :
    LET f == fragments[i] IN
      /\ f.length > 0 => f.heads # <<>> /\ f.heads[1].at = 0
      /\ \A h \in DOMAIN f.heads :
           \/ i = current /\ h = f.cluster
           \/ f.heads[h].size =
                ClusterEnd(f, h) - f.heads[h].at - INITIAL_CLUSTER_LENGTH

(* As long as the input brings a video key frame before the bytes since    *)
(* the last one exceed what the buffer has beyond the minimum, no block is *)
(* dropped and nothing is written beyond the buffer, although open_cluster *)
(* never checks the capacity.                                              *)
GopFits ==
  MINIMAL_FRAGMENT_LENGTH + source.sinceKey <= CAPACITY =>
    /\ fragments[current].lost = 0
    /\ fragments[current].length <= CAPACITY
    /\ ~crashed

(* The size of a cluster counts the bytes that follow its size field, as   *)
(* it does for the code's own reader, ebml.cc:155                          *)
(* "return data_offset_ + size_;".                                         *)
ClusterSizeExact ==
  \A k \in DOMAIN pushed : \A h \in DOMAIN Fragment(k).heads :
    LET f == Fragment(k) IN
      f.heads[h].at + CLUSTER_LENGTH_LAST_OFFSET + 1 + f.heads[h].size
        = ClusterEnd(f, h)
=============================================================================
