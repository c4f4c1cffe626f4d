------------------------ MODULE StreamingState_proof ------------------------
(***************************************************************************)
(* The safety of the segmenter for any movie, any capacity and any minimal *)
(* fragment length: its invariants, that pushed fragments are immutable,   *)
(* and that it implements Segments.                                        *)
(***************************************************************************)
EXTENDS StreamingState, SequenceTheorems, TLAPS

USE SegmenterAssumption DEF SegmenterAssumption

\* A fragment between two elements, whether it is being filled or pushed.
Good(f) ==
  /\ f \in MovieFragment
  /\ f.cluster \in {0, Len(f.heads)}
  /\ f.length > 0 => f.heads # <<>>
  /\ f.heads # <<>> => f.heads[1].at = 0
  /\ \A h \in DOMAIN f.heads :
       /\ f.heads[h].at + CLUSTER_HEAD_LENGTH <= f.length
       /\ h # f.cluster =>
            f.heads[h].size =
              ClusterEnd(f, h) - f.heads[h].at - INITIAL_CLUSTER_LENGTH
  /\ \A m \in DOMAIN f.blocks :
       /\ f.blocks[m].at < f.length
       /\ f.blocks[m].timecode < SignBit =>
            \E h \in DOMAIN f.heads :
              /\ Enclosing(f, f.blocks[m], h)
              /\ f.heads[h].timecode = f.blocks[m].timecode

\* The fragment being filled: its last cluster is open and has the Timecode
\* of the input's latest cluster, and its length is bounded by the input.
Filling(f, input, code) ==
  /\ f.cluster = Len(f.heads)
  /\ input.timecode # NoTimecode =>
       /\ f.heads # <<>>
       /\ f.heads[Len(f.heads)].timecode = WrittenTimecode(code)
  /\ f.length <= MINIMAL_FRAGMENT_LENGTH + input.sinceKey
  /\ f.lost > 0 =>
       /\ f.length >= MINIMAL_FRAGMENT_LENGTH
       /\ CAPACITY < MINIMAL_FRAGMENT_LENGTH + input.sinceKey

IInv ==
  /\ fragments \in Seq(MovieFragment) /\ fragments # <<>>
  /\ current = Len(fragments)
  /\ pushed \in Seq(Nat)
  /\ \A k \in DOMAIN pushed : pushed[k] \in 1 .. (current - 1)
  /\ clusterTimeCode \in (-SignBit) .. (SignBit - 1)
  /\ crashed \in BOOLEAN
  /\ source \in Source
  /\ source.timecode # NoTimecode => clusterTimeCode = Signed(source.timecode)
  /\ \A i \in 1 .. current : Good(fragments[i])
  /\ \A i \in 1 .. (current - 1) : fragments[i].cluster = 0
  /\ Filling(fragments[current], source, clusterTimeCode)
  /\ crashed => fragments[current].length > CAPACITY
-----------------------------------------------------------------------------
(* What MovieFragment's member functions keep and change.                  *)

\* The types of a fragment's parts.
LEMMA GoodTypes ==
  ASSUME NEW f, Good(f)
  PROVE  /\ f \in MovieFragment
         /\ f.length \in Nat /\ f.cluster \in Nat /\ f.lost \in Nat
         /\ f.heads \in Seq(ClusterHead) /\ f.blocks \in Seq(Block)
         /\ Len(f.heads) \in Nat /\ Len(f.blocks) \in Nat
         /\ DOMAIN f.heads = 1 .. Len(f.heads)
         /\ DOMAIN f.blocks = 1 .. Len(f.blocks)
         /\ \A h \in 1 .. Len(f.heads) :
              /\ f.heads[h] \in ClusterHead
              /\ f.heads[h].at \in Nat
         /\ \A m \in 1 .. Len(f.blocks) :
              /\ f.blocks[m] \in Block
              /\ f.blocks[m].at \in Nat /\ f.blocks[m].timecode \in Nat \cup {NoTimecode}
  <1>1. f \in MovieFragment
    BY DEF Good
  <1>2. /\ f.length \in Nat /\ f.cluster \in Nat /\ f.lost \in Nat
        /\ f.heads \in Seq(ClusterHead) /\ f.blocks \in Seq(Block)
    BY <1>1 DEF MovieFragment
  <1>3. \A h \in 1 .. Len(f.heads) : f.heads[h] \in ClusterHead
    BY <1>2
  <1>4. \A m \in 1 .. Len(f.blocks) : f.blocks[m] \in Block
    BY <1>2
  <1>5. \A h \in ClusterHead : h.at \in Nat
    BY DEF ClusterHead
  <1>6. \A b \in Block : b.at \in Nat /\ b.timecode \in Nat \cup {NoTimecode}
    BY DEF Block
  <1> QED
    BY <1>1, <1>2, <1>3, <1>4, <1>5, <1>6

\* close_cluster writes the size of the open cluster and changes nothing else.
LEMMA CloseGood ==
  ASSUME NEW f, Good(f)
  PROVE  LET g == CloseCluster(f) IN
           /\ Good(g)
           /\ g.cluster = 0 /\ Len(g.heads) = Len(f.heads)
           /\ g.length = f.length /\ g.lost = f.lost /\ g.blocks = f.blocks
  <1> DEFINE g == CloseCluster(f)
             n == Len(f.heads)
             size == f.length - f.heads[n].at - INITIAL_CLUSTER_LENGTH
             closed == [f.heads EXCEPT ![n].size = size]
  <1>1. f \in MovieFragment /\ f.heads \in Seq(ClusterHead) /\ n \in Nat
    BY DEF Good, MovieFragment
  <1>2. CASE f.cluster = 0
    BY <1>2 DEF CloseCluster
  <1>3. CASE f.cluster # 0
    <2>1. f.cluster = n /\ n \in DOMAIN f.heads
      BY <1>1, <1>3 DEF Good
    <2>2. f.heads[n] \in ClusterHead /\ f.heads[n].at \in Nat
          /\ f.length \in Nat /\ f.heads[n].at + CLUSTER_HEAD_LENGTH <= f.length
      <3>1. f.heads[n] \in ClusterHead
        BY <1>1, <2>1
      <3>2. f.length \in Nat
        BY <1>1 DEF MovieFragment
      <3> QED
        BY <2>1, <3>1, <3>2 DEF Good, ClusterHead
    <2>3. size \in Nat
      BY <2>2
    <2>4. [f.heads[n] EXCEPT !.size = size] \in ClusterHead
      BY <2>2, <2>3 DEF ClusterHead
    <2> HIDE DEF size
    <2>5. /\ closed \in Seq(ClusterHead) /\ Len(closed) = n
          /\ DOMAIN closed = DOMAIN f.heads
          /\ \A h \in DOMAIN f.heads : h # n => closed[h] = f.heads[h]
          /\ closed[n] = [f.heads[n] EXCEPT !.size = size]
      BY <1>1, <2>1, <2>4
    <2>6. \A h \in DOMAIN f.heads :
            /\ closed[h].at = f.heads[h].at
            /\ closed[h].timecode = f.heads[h].timecode
      BY <2>2, <2>5 DEF ClusterHead
    <2>7. closed[n].size = size
      BY <2>2, <2>5 DEF ClusterHead
    <2> HIDE DEF closed
    <2>8. /\ g = [f EXCEPT !.heads = closed, !.cluster = 0]
      BY <1>1, <1>3, <2>1 DEF CloseCluster, MovieFragment, closed, size
    <2>9. /\ g \in MovieFragment /\ g.heads = closed /\ g.cluster = 0
          /\ g.length = f.length /\ g.lost = f.lost /\ g.blocks = f.blocks
      <3>1. f.blocks \in Seq(Block) /\ f.length \in Nat /\ f.lost \in Nat
        BY <1>1 DEF MovieFragment
      <3>2. /\ g.heads = closed /\ g.cluster = 0
            /\ g.length = f.length /\ g.lost = f.lost /\ g.blocks = f.blocks
        BY <1>1, <2>8 DEF MovieFragment
      <3>3. g = [length |-> g.length, cluster |-> g.cluster, heads |-> g.heads,
                 blocks |-> g.blocks, lost |-> g.lost]
        BY <1>1, <2>8 DEF MovieFragment
      <3> QED
        BY <2>5, <3>1, <3>2, <3>3 DEF MovieFragment
    <2> HIDE DEF g
    <2>10. \A h \in DOMAIN f.heads : ClusterEnd(g, h) = ClusterEnd(f, h)
      BY <1>1, <2>5, <2>6, <2>9 DEF ClusterEnd
    <2>11. ClusterEnd(f, n) = f.length
      BY DEF ClusterEnd
    <2>12. \A b : \A h \in DOMAIN f.heads : Enclosing(f, b, h) => Enclosing(g, b, h)
      BY <2>5, <2>6, <2>9 DEF Enclosing
    <2>13. \A h \in DOMAIN g.heads :
             /\ g.heads[h].at + CLUSTER_HEAD_LENGTH <= g.length
             /\ g.heads[h].size =
                  ClusterEnd(g, h) - g.heads[h].at - INITIAL_CLUSTER_LENGTH
      <3> SUFFICES ASSUME NEW h \in DOMAIN f.heads
                   PROVE  /\ closed[h].at + CLUSTER_HEAD_LENGTH <= f.length
                          /\ closed[h].size = ClusterEnd(f, h) - closed[h].at
                                               - INITIAL_CLUSTER_LENGTH
        BY <2>5, <2>9, <2>10
      <3>1. CASE h = n
        BY <2>2, <2>6, <2>7, <2>11, <3>1 DEF size
      <3>2. CASE h # n
        BY <2>1, <2>5, <3>2 DEF Good
      <3> QED
        BY <3>1, <3>2
    <2>14. \A m \in DOMAIN g.blocks :
             /\ g.blocks[m].at < g.length
             /\ g.blocks[m].timecode < SignBit =>
                  \E h \in DOMAIN g.heads :
                    /\ Enclosing(g, g.blocks[m], h)
                    /\ g.heads[h].timecode = g.blocks[m].timecode
      BY <2>5, <2>6, <2>9, <2>12 DEF Good
    <2>15. /\ g.length > 0 => g.heads # <<>>
           /\ g.heads # <<>> => g.heads[1].at = 0
      BY <1>1, <2>1, <2>5, <2>6, <2>9 DEF Good
    <2>16. Good(g)
      BY <2>9, <2>13, <2>14, <2>15 DEF Good
    <2> QED
      BY <2>5, <2>9, <2>16 DEF g
  <1> QED
    BY <1>2, <1>3

\* A head added behind closed clusters tiles with them and is the open one.
LEMMA AddHeadGood ==
  ASSUME NEW f, Good(f), f.cluster = 0, NEW code \in Int
  PROVE  LET g == AddHead(f, code) IN
           /\ Good(g)
           /\ g.heads # <<>> /\ g.cluster = Len(g.heads)
           /\ g.heads[Len(g.heads)].timecode = WrittenTimecode(code)
           /\ g.length = f.length + CLUSTER_HEAD_LENGTH
           /\ g.lost = f.lost /\ g.blocks = f.blocks
  <1> DEFINE g == AddHead(f, code)
             n == Len(f.heads)
             head == [at |-> f.length, size |-> 0,
                      timecode |-> WrittenTimecode(code)]
             heads == Append(f.heads, head)
  <1>1. /\ f.heads \in Seq(ClusterHead) /\ n \in Nat /\ DOMAIN f.heads = 1 .. n
        /\ f.length \in Nat /\ f.lost \in Nat /\ f.blocks \in Seq(Block)
    BY GoodTypes
  <1>types. /\ f \in MovieFragment
            /\ \A h \in 1 .. n : f.heads[h].at \in Nat
            /\ \A m \in DOMAIN f.blocks : f.blocks[m].at \in Nat
    BY GoodTypes
  <1>2. head \in ClusterHead
    BY <1>1 DEF ClusterHead, WrittenTimecode
  <1>3. head.at = f.length /\ head.timecode = WrittenTimecode(code)
    OBVIOUS
  <1> HIDE DEF head
  <1>4. /\ heads \in Seq(ClusterHead) /\ Len(heads) = n + 1
        /\ DOMAIN heads = 1 .. (n + 1) /\ DOMAIN f.heads = 1 .. n
        /\ \A h \in 1 .. n : heads[h] = f.heads[h]
        /\ heads[n + 1] = head
    BY <1>1, <1>2
  <1> HIDE DEF heads
  <1>5. /\ g.heads = heads /\ g.cluster = n + 1
        /\ g.length = f.length + CLUSTER_HEAD_LENGTH
        /\ g.lost = f.lost /\ g.blocks = f.blocks
        /\ g = [length |-> g.length, cluster |-> g.cluster, heads |-> g.heads,
                blocks |-> g.blocks, lost |-> g.lost]
    <2>1. g = [f EXCEPT !.heads = heads, !.cluster = n + 1,
                        !.length = f.length + CLUSTER_HEAD_LENGTH]
      BY <1>1, <1>types DEF AddHead, MovieFragment, heads, head
    <2> HIDE DEF g
    <2> QED
      BY <1>types, <2>1 DEF MovieFragment
  <1> HIDE DEF g
  <1>6. g \in MovieFragment
    <2>1. n + 1 \in Nat /\ f.length + CLUSTER_HEAD_LENGTH \in Nat
      BY <1>1
    <2> QED
      BY <1>1, <1>4, <1>5, <2>1 DEF MovieFragment
  <1>7. \A h \in 1 .. n : ClusterEnd(g, h) = ClusterEnd(f, h)
    <2> SUFFICES ASSUME NEW h \in 1 .. n
                 PROVE  ClusterEnd(g, h) = ClusterEnd(f, h)
      OBVIOUS
    <2>1. CASE h = n
      BY <1>1, <1>3, <1>4, <1>5, <2>1 DEF ClusterEnd
    <2>2. CASE h < n
      <3>1. h + 1 \in 1 .. n
        BY <1>1, <2>2
      <3> QED
        BY <1>1, <1>4, <1>5, <2>2, <3>1 DEF ClusterEnd
    <2> QED
      BY <1>1, <2>1, <2>2
  <1>8. \A h \in DOMAIN g.heads :
          /\ g.heads[h].at + CLUSTER_HEAD_LENGTH <= g.length
          /\ h # g.cluster =>
               g.heads[h].size =
                 ClusterEnd(g, h) - g.heads[h].at - INITIAL_CLUSTER_LENGTH
    <2> SUFFICES ASSUME NEW h \in 1 .. (n + 1)
                 PROVE  /\ heads[h].at + CLUSTER_HEAD_LENGTH <= g.length
                        /\ h # n + 1 =>
                             heads[h].size = ClusterEnd(g, h) - heads[h].at
                                               - INITIAL_CLUSTER_LENGTH
      BY <1>4, <1>5
    <2>1. CASE h = n + 1
      BY <1>1, <1>3, <1>4, <1>5, <2>1
    <2>2. CASE h \in 1 .. n
      <3>1. /\ heads[h] = f.heads[h] /\ ClusterEnd(g, h) = ClusterEnd(f, h)
            /\ f.heads[h].at \in Nat
        BY <1>types, <1>4, <1>7, <2>2
      <3>2. /\ f.heads[h].at + CLUSTER_HEAD_LENGTH <= f.length
            /\ f.heads[h].size = ClusterEnd(f, h) - f.heads[h].at
                                    - INITIAL_CLUSTER_LENGTH
        BY <1>4, <2>2 DEF Good
      <3>3. f.heads[h].at + CLUSTER_HEAD_LENGTH <= f.length + CLUSTER_HEAD_LENGTH
        BY <1>1, <3>1, <3>2
      <3> QED
        BY <1>5, <3>1, <3>2, <3>3
    <2> QED
      BY <1>1, <2>1, <2>2
  <1>9. \A m \in DOMAIN g.blocks :
          /\ g.blocks[m].at < g.length
          /\ g.blocks[m].timecode < SignBit =>
               \E h \in DOMAIN g.heads :
                 /\ Enclosing(g, g.blocks[m], h)
                 /\ g.heads[h].timecode = g.blocks[m].timecode
    <2> SUFFICES ASSUME NEW m \in DOMAIN f.blocks
                 PROVE  /\ f.blocks[m].at < g.length
                        /\ f.blocks[m].timecode < SignBit =>
                             \E h \in DOMAIN g.heads :
                               /\ Enclosing(g, f.blocks[m], h)
                               /\ g.heads[h].timecode = f.blocks[m].timecode
      BY <1>5
    <2>1. f.blocks[m].at \in Nat
      BY <1>types
    <2>2. f.blocks[m].at < f.length
      BY DEF Good
    <2>3. ASSUME f.blocks[m].timecode < SignBit
          PROVE  \E h \in DOMAIN g.heads :
                   /\ Enclosing(g, f.blocks[m], h)
                   /\ g.heads[h].timecode = f.blocks[m].timecode
      <3>1. PICK h \in DOMAIN f.heads :
              /\ Enclosing(f, f.blocks[m], h)
              /\ f.heads[h].timecode = f.blocks[m].timecode
        BY <2>3 DEF Good
      <3>2. h \in DOMAIN g.heads /\ g.heads[h] = f.heads[h]
        BY <1>1, <1>4, <1>5, <3>1
      <3>3. Enclosing(g, f.blocks[m], h)
        <4>1. ASSUME NEW j \in 1 .. (n + 1), j > h
              PROVE  heads[j].at > f.blocks[m].at
          <5>1. CASE j = n + 1
            BY <1>1, <1>3, <1>4, <2>1, <2>2, <5>1
          <5>2. CASE j \in 1 .. n
            BY <1>1, <1>4, <3>1, <4>1, <5>2 DEF Enclosing
          <5> QED
            BY <1>1, <5>1, <5>2
        <4> QED
          BY <1>4, <1>5, <3>1, <3>2, <4>1 DEF Enclosing
      <3> QED
        BY <3>1, <3>2, <3>3
    <2> QED
      BY <1>1, <1>5, <2>1, <2>2, <2>3
  <1>10. g.heads # <<>> /\ g.heads[1].at = 0
    <2>1. heads # <<>>
      BY <1>1, <1>4
    <2>2. CASE n = 0
      <3>1. f.heads = <<>>
        BY <1>1, <2>2
      <3>2. f.length = 0
        BY <1>1, <3>1 DEF Good
      <3> QED
        BY <1>3, <1>4, <1>5, <2>1, <2>2, <3>2
    <2>3. CASE n > 0
      <3>1. f.heads # <<>> /\ 1 \in 1 .. n
        BY <1>1, <2>3
      <3>2. f.heads[1].at = 0
        BY <3>1 DEF Good
      <3> QED
        BY <1>4, <1>5, <2>1, <3>1, <3>2
    <2> QED
      BY <1>1, <2>2, <2>3
  <1>11. Good(g)
    BY <1>4, <1>5, <1>6, <1>8, <1>9, <1>10 DEF Good
  <1> QED
    BY <1>3, <1>4, <1>5, <1>10, <1>11 DEF g

\* A block stored behind an open cluster belongs to it.
LEMMA AppendBlockGood ==
  ASSUME NEW f, Good(f), f.cluster = Len(f.heads), f.heads # <<>>,
         NEW b \in Block, NEW length \in Nat \ {0},
         b.timecode < SignBit =>
           f.heads[Len(f.heads)].timecode = b.timecode
  PROVE  LET g == AppendBlock(f, b, length) IN
           /\ Good(g)
           /\ g.heads = f.heads /\ g.cluster = f.cluster
           /\ \/ /\ CAPACITY < f.length + length
                 /\ g.length = f.length /\ g.lost = f.lost + 1
                 /\ g.blocks = f.blocks
              \/ /\ f.length + length <= CAPACITY
                 /\ g.length = f.length + length /\ g.lost = f.lost
                 /\ g.blocks = Append(f.blocks, [b EXCEPT !.at = f.length])
  <1> DEFINE g == AppendBlock(f, b, length)
             n == Len(f.heads)
             stored == [b EXCEPT !.at = f.length]
  <1>1. /\ f.heads \in Seq(ClusterHead) /\ n \in Nat \ {0}
        /\ DOMAIN f.heads = 1 .. n /\ f.length \in Nat /\ f.lost \in Nat
        /\ f.blocks \in Seq(Block) /\ Len(f.blocks) \in Nat
        /\ DOMAIN f.blocks = 1 .. Len(f.blocks)
    <2>1. n # 0
      BY GoodTypes
    <2> QED
      BY <2>1, GoodTypes
  <1>types. /\ f \in MovieFragment
            /\ \A h \in 1 .. n : f.heads[h].at \in Nat
            /\ \A m \in DOMAIN f.blocks : f.blocks[m].at \in Nat
    BY GoodTypes
  <1>2. CASE CAPACITY < f.length + length
    <2>1. /\ g.heads = f.heads /\ g.cluster = f.cluster /\ g.length = f.length
          /\ g.lost = f.lost + 1 /\ g.blocks = f.blocks
          /\ g = [length |-> g.length, cluster |-> g.cluster,
                  heads |-> g.heads, blocks |-> g.blocks, lost |-> g.lost]
      BY <1>types, <1>2 DEF AppendBlock, MovieFragment
    <2> HIDE DEF g
    <2>2. g \in MovieFragment
      <3>1. g.length \in Nat /\ g.cluster \in Nat /\ g.lost \in Nat
        BY <1>1, <2>1, GoodTypes
      <3>2. g.heads \in Seq(ClusterHead) /\ g.blocks \in Seq(Block)
        BY <1>1, <2>1
      <3> HIDE DEF n
      <3> QED
        BY <2>1, <3>1, <3>2 DEF MovieFragment
    <2>3. Good(g)
      BY <2>1, <2>2 DEF Good, ClusterEnd, Enclosing
    <2> QED
      BY <1>2, <2>1, <2>3 DEF g
  <1>3. CASE ~(CAPACITY < f.length + length)
    <2>1. stored \in Block /\ stored.at = f.length /\ stored.timecode = b.timecode
      BY <1>1 DEF Block
    <2>2. /\ g.heads = f.heads /\ g.cluster = f.cluster
          /\ g.length = f.length + length /\ g.lost = f.lost
          /\ g.blocks = Append(f.blocks, stored)
          /\ g = [length |-> g.length, cluster |-> g.cluster,
                  heads |-> g.heads, blocks |-> g.blocks, lost |-> g.lost]
      BY <1>types, <1>3 DEF AppendBlock, MovieFragment
    <2> HIDE DEF g, stored
    <2>3. g \in MovieFragment
      <3>1. f.cluster \in Nat
        BY GoodTypes
      <3>2. g.blocks \in Seq(Block) /\ g.length \in Nat
        BY <1>1, <2>1, <2>2
      <3> QED
        BY <1>1, <2>2, <3>1, <3>2 DEF MovieFragment
    <2>longer. g.length \in Nat /\ g.length > f.length
      <3>1. \A x, y \in Nat : y # 0 => x + y \in Nat /\ x + y > x
        OBVIOUS
      <3> QED
        BY <1>1, <2>2, <3>1
    <2>4. \A h \in DOMAIN g.heads :
            /\ g.heads[h].at + CLUSTER_HEAD_LENGTH <= g.length
            /\ h # g.cluster =>
                 g.heads[h].size =
                   ClusterEnd(g, h) - g.heads[h].at - INITIAL_CLUSTER_LENGTH
      <3> SUFFICES ASSUME NEW h \in DOMAIN f.heads
                   PROVE  /\ f.heads[h].at + CLUSTER_HEAD_LENGTH <= g.length
                          /\ h # n =>
                               f.heads[h].size = ClusterEnd(g, h) - f.heads[h].at
                                                   - INITIAL_CLUSTER_LENGTH
        BY <2>2
      <3>1. f.heads[h].at \in Nat /\ f.heads[h].at + CLUSTER_HEAD_LENGTH <= f.length
        BY <1>1, <1>types DEF Good
      <3>2. h # n => ClusterEnd(g, h) = ClusterEnd(f, h)
        BY <1>1, <2>2 DEF ClusterEnd
      <3>4. f.heads[h].at + CLUSTER_HEAD_LENGTH <= g.length
        BY <1>1, <2>longer, <3>1
      <3>3. h # n => f.heads[h].size = ClusterEnd(f, h) - f.heads[h].at
                                         - INITIAL_CLUSTER_LENGTH
        BY DEF Good
      <3> QED
        BY <3>2, <3>3, <3>4
    <2>5. \A m \in DOMAIN g.blocks :
            /\ g.blocks[m].at < g.length
            /\ g.blocks[m].timecode < SignBit =>
                 \E h \in DOMAIN g.heads :
                   /\ Enclosing(g, g.blocks[m], h)
                   /\ g.heads[h].timecode = g.blocks[m].timecode
      <3> SUFFICES ASSUME NEW m \in DOMAIN g.blocks
                   PROVE  /\ g.blocks[m].at < g.length
                          /\ g.blocks[m].timecode < SignBit =>
                               \E h \in DOMAIN f.heads :
                                 /\ Enclosing(f, g.blocks[m], h)
                                 /\ f.heads[h].timecode = g.blocks[m].timecode
        BY <2>2 DEF Enclosing
      <3>1. CASE m = Len(f.blocks) + 1
        <4>1. g.blocks[m] = stored
          BY <1>1, <2>1, <2>2, <3>1
        <4>2. n \in DOMAIN f.heads
          BY <1>1
        <4>3. f.heads[n].at \in Nat /\ f.heads[n].at < f.length
          <5>1. f.heads[n].at \in Nat
            BY <1>1, <1>types
          <5>2. f.heads[n].at + CLUSTER_HEAD_LENGTH <= f.length
            BY <4>2 DEF Good
          <5> QED
            BY <1>1, <5>1, <5>2
        <4>4. Enclosing(f, stored, n)
          BY <1>1, <2>1, <4>3 DEF Enclosing
        <4>5. stored.at < g.length
          BY <1>1, <2>1, <2>2
        <4> QED
          BY <2>1, <4>1, <4>2, <4>4, <4>5
      <3>2. CASE m \in DOMAIN f.blocks
        <4>1. g.blocks[m] = f.blocks[m]
          BY <1>1, <2>1, <2>2, <3>2
        <4>2. f.blocks[m].at < g.length
          <5>1. f.blocks[m].at \in Nat
            BY <1>types, <3>2
          <5>2. f.blocks[m].at < f.length
            BY <3>2 DEF Good
          <5> QED
            BY <1>1, <2>longer, <5>1, <5>2
        <4>3. f.blocks[m].timecode < SignBit =>
                \E h \in DOMAIN f.heads :
                  /\ Enclosing(f, f.blocks[m], h)
                  /\ f.heads[h].timecode = f.blocks[m].timecode
          BY <3>2 DEF Good
        <4> QED
          BY <4>1, <4>2, <4>3
      <3>3. DOMAIN g.blocks = 1 .. (Len(f.blocks) + 1)
        BY <1>1, <2>1, <2>2
      <3> QED
        BY <1>1, <3>1, <3>2, <3>3
    <2>6. Good(g)
      BY <2>2, <2>3, <2>4, <2>5, <1>1 DEF Good
    <2> QED
      BY <1>1, <1>3, <2>2, <2>6 DEF g, stored
  <1> QED
    BY <1>2, <1>3

-----------------------------------------------------------------------------
(* Every step of Next keeps IInv.                                          *)

\* A Timecode below 2^31 survives the conversions and the writing.
LEMMA SignedProperties ==
  ASSUME NEW t \in Nat
  PROVE  /\ Signed(t) \in (-SignBit) .. (SignBit - 1)
         /\ t < SignBit => WrittenTimecode(Signed(t)) = t
  <1> DEFINE m == 2 * SignBit
  <1>1. m \in Nat /\ m > 0
    OBVIOUS
  <1>2. t % m \in 0 .. (m - 1)
    BY <1>1
  <1>3. t < m => t % m = t
    BY <1>1
  <1> QED
    BY <1>1, <1>2, <1>3 DEF Signed, WrittenTimecode

\* What IInv says of the fragment being filled.
LEMMA CurrentGood ==
  ASSUME IInv
  PROVE  /\ current \in Nat \ {0} /\ current \in DOMAIN fragments
         /\ DOMAIN fragments = 1 .. current
         /\ Good(fragments[current]) /\ Filling(fragments[current], source, clusterTimeCode)
         /\ source.elements \in Nat /\ source.blocks \in Nat
         /\ source.sinceKey \in Nat
  BY DEF IInv, Source

\* A step that changes only the fragment being filled, to a g that is Good
\* and Filling afterwards, keeps IInv.
LEMMA FillIInv ==
  ASSUME IInv, NEW g, Good(g), Filling(g, source', clusterTimeCode'),
         fragments' = [fragments EXCEPT ![current] = g],
         UNCHANGED <<current, pushed, crashed>>, ~crashed,
         clusterTimeCode' \in (-SignBit) .. (SignBit - 1),
         source' \in Source,
         source'.timecode # NoTimecode =>
           clusterTimeCode' = Signed(source'.timecode)
  PROVE  IInv'
  <1>1. g \in MovieFragment
    BY GoodTypes
  <1>2. /\ fragments \in Seq(MovieFragment)
        /\ current = Len(fragments) /\ current \in 1 .. Len(fragments)
    BY CurrentGood DEF IInv
  <1>3. /\ fragments' \in Seq(MovieFragment) /\ Len(fragments') = current
        /\ fragments'[current] = g
        /\ \A i \in 1 .. (current - 1) : fragments'[i] = fragments[i]
    BY <1>1, <1>2
  <1>4. \A i \in 1 .. current : Good(fragments'[i])
    BY <1>2, <1>3 DEF IInv
  <1>5. \A i \in 1 .. (current - 1) : fragments'[i].cluster = 0
    BY <1>3 DEF IInv
  <1>7. Filling(fragments[current], source, clusterTimeCode)'
    BY <1>2, <1>3
  <1> QED
    BY <1>2, <1>3, <1>4, <1>5, <1>7 DEF IInv

LEMMA TimecodeIInv ==
  ASSUME IInv, NEW t \in Timecodes, Timecode(t)
  PROVE  IInv'
  <1> DEFINE f == fragments[current]
             closed == CloseCluster(f)
             g == OpenCluster(f, Signed(t))
  <1>1. /\ t \in Nat /\ Signed(t) \in (-SignBit) .. (SignBit - 1)
        /\ Signed(t) \in Int
    BY SignedProperties
  <1>2. Good(f) /\ Filling(f, source, clusterTimeCode) /\ source.sinceKey \in Nat /\ f.length \in Nat
    BY CurrentGood, GoodTypes
  <1>3. /\ Good(closed) /\ closed.cluster = 0
        /\ closed.length = f.length /\ closed.lost = f.lost
    BY <1>2, CloseGood
  <1> HIDE DEF closed
  <1>4. g = AddHead(closed, Signed(t))
    BY DEF OpenCluster, closed
  <1>5. /\ Good(g) /\ g.heads # <<>> /\ g.cluster = Len(g.heads)
        /\ g.heads[Len(g.heads)].timecode = WrittenTimecode(Signed(t))
        /\ g.length = f.length + CLUSTER_HEAD_LENGTH /\ g.lost = f.lost
    BY <1>1, <1>3, <1>4, AddHeadGood
  <1>6. /\ fragments' = [fragments EXCEPT ![current] = g]
        /\ clusterTimeCode' = Signed(t) /\ ~crashed
        /\ UNCHANGED <<current, pushed, crashed>>
    BY CurrentGood DEF Timecode, Reads, IInv
  <1>7. /\ source' \in Source /\ source'.timecode = t
        /\ source'.sinceKey = source.sinceKey + CLUSTER_HEAD_LENGTH
    <2>1. source \in Source
      BY DEF IInv
    <2>2. source' = [source EXCEPT !.elements = @ + 1, !.timecode = t,
                                   !.sinceKey = @ + CLUSTER_HEAD_LENGTH]
      BY DEF Timecode
    <2>3. source.elements + 1 \in Nat /\ source.sinceKey + CLUSTER_HEAD_LENGTH \in Nat
      BY CurrentGood
    <2> QED
      BY <1>1, <2>1, <2>2, <2>3 DEF Source
  <1> HIDE DEF f, g
  <1>8. Filling(g, source', clusterTimeCode')
    BY <1>2, <1>5, <1>6, <1>7 DEF Filling
  <1> QED
    BY <1>1, <1>5, <1>6, <1>7, <1>8, FillIInv

\* What a block of the input brings.
LEMMA InputBlockProperties ==
  ASSUME IInv, NEW key \in BOOLEAN, NEW length \in Lengths,
         ReadsBlock(key, length)
  PROVE  /\ InputBlock(key) \in Block
         /\ InputBlock(key).n = source.blocks + 1 /\ InputBlock(key).key = key
         /\ InputBlock(key).timecode = source.timecode
         /\ source.timecode \in Nat /\ source.timecode # NoTimecode
         /\ source.timecode < SignBit =>
              WrittenTimecode(clusterTimeCode) = source.timecode
         /\ source' \in Source /\ source'.timecode = source.timecode
         /\ source'.blocks = source.blocks + 1
         /\ source'.sinceKey = IF key THEN length ELSE source.sinceKey + length
         /\ ~crashed /\ length \in Nat \ {0}
  <1>1. source \in Source /\ source.timecode # NoTimecode /\ ~crashed
    BY DEF ReadsBlock, Reads, IInv
  <1>2. /\ source.timecode \in Nat
        /\ source.elements + 1 \in Nat /\ source.blocks + 1 \in Nat
        /\ source.sinceKey + length \in Nat /\ length \in Nat \ {0}
    BY <1>1 DEF Source
  <1>3. source' = [source EXCEPT
                     !.elements = @ + 1, !.blocks = @ + 1,
                     !.sinceKey = IF key THEN length ELSE @ + length]
    BY DEF ReadsBlock
  <1>4. /\ source' \in Source /\ source'.timecode = source.timecode
        /\ source'.blocks = source.blocks + 1
        /\ source'.sinceKey = IF key THEN length ELSE source.sinceKey + length
    BY <1>1, <1>2, <1>3 DEF Source
  <1>5. /\ InputBlock(key) \in Block
        /\ InputBlock(key).n = source.blocks + 1 /\ InputBlock(key).key = key
        /\ InputBlock(key).timecode = source.timecode
    BY <1>2 DEF InputBlock, Block
  <1>6. source.timecode < SignBit =>
          WrittenTimecode(clusterTimeCode) = source.timecode
    BY <1>1, <1>2, SignedProperties DEF IInv
  <1> QED
    BY <1>1, <1>2, <1>4, <1>5, <1>6

LEMMA StoreIInv ==
  ASSUME IInv, NEW key \in BOOLEAN, NEW length \in Lengths,
         Store(key, length), ~Cuts(key)
  PROVE  IInv'
  <1> DEFINE f == fragments[current]
             b == InputBlock(key)
             g == AppendBlock(f, b, length)
  <1>1. ReadsBlock(key, length)
    BY DEF Store
  <1>2. /\ Good(f) /\ Filling(f, source, clusterTimeCode)
        /\ source.sinceKey \in Nat /\ f.length \in Nat /\ f.lost \in Nat
    BY CurrentGood, GoodTypes
  <1>3. /\ b \in Block /\ b.timecode = source.timecode
        /\ source.timecode # NoTimecode /\ length \in Nat \ {0} /\ ~crashed
        /\ source.timecode < SignBit =>
             WrittenTimecode(clusterTimeCode) = source.timecode
        /\ source' \in Source /\ source'.timecode = source.timecode
        /\ source'.sinceKey = IF key THEN length ELSE source.sinceKey + length
    BY <1>1, InputBlockProperties
  <1>4. key => f.length < MINIMAL_FRAGMENT_LENGTH
    BY <1>2 DEF Cuts
  <1> HIDE DEF f, b
  <1>5. /\ f.cluster = Len(f.heads) /\ f.heads # <<>>
        /\ f.heads[Len(f.heads)].timecode = WrittenTimecode(clusterTimeCode)
    BY <1>2, <1>3 DEF Filling
  <1>6. /\ Good(g) /\ g.heads = f.heads /\ g.cluster = f.cluster
        /\ \/ /\ CAPACITY < f.length + length
              /\ g.length = f.length /\ g.lost = f.lost + 1
           \/ g.length = f.length + length /\ g.lost = f.lost
    <2>1. b.timecode < SignBit => f.heads[Len(f.heads)].timecode = b.timecode
      BY <1>3, <1>5
    <2>2. Good(f) /\ b \in Block /\ length \in Nat \ {0}
      BY <1>2, <1>3
    <2> QED
      BY <1>5, <2>1, <2>2, AppendBlockGood
  <1>7. /\ fragments' = [fragments EXCEPT ![current] = g]
        /\ UNCHANGED <<current, pushed, clusterTimeCode, crashed>>
    BY CurrentGood DEF Store, IInv, f, b
  <1>8. MINIMAL_FRAGMENT_LENGTH + length <= CAPACITY
    OBVIOUS
  <1>9. /\ f.length <= MINIMAL_FRAGMENT_LENGTH + source.sinceKey
        /\ f.lost > 0 =>
             /\ f.length >= MINIMAL_FRAGMENT_LENGTH
             /\ CAPACITY < MINIMAL_FRAGMENT_LENGTH + source.sinceKey
    BY <1>2 DEF Filling
  <1> HIDE DEF g
  <1>10. /\ g.length <= MINIMAL_FRAGMENT_LENGTH + source'.sinceKey
         /\ g.lost > 0 =>
              /\ g.length >= MINIMAL_FRAGMENT_LENGTH
              /\ CAPACITY < MINIMAL_FRAGMENT_LENGTH + source'.sinceKey
    <2>1. CASE key
      <3>1. g.length = f.length + length /\ g.lost = f.lost
        BY <1>2, <1>3, <1>4, <1>6, <1>8, <2>1
      <3> QED
        BY <1>2, <1>3, <1>4, <1>9, <2>1, <3>1
    <2>2. CASE ~key
      BY <1>2, <1>3, <1>6, <1>8, <1>9, <2>2
    <2> QED
      BY <2>1, <2>2
  <1>11. Filling(g, source', clusterTimeCode')
    BY <1>3, <1>5, <1>6, <1>7, <1>10 DEF Filling
  <1>12. /\ clusterTimeCode' \in (-SignBit) .. (SignBit - 1)
         /\ source'.timecode # NoTimecode =>
              clusterTimeCode' = Signed(source'.timecode)
    BY <1>3, <1>7 DEF IInv
  <1> QED
    BY <1>3, <1>6, <1>7, <1>11, <1>12, FillIInv

LEMMA NewFragmentGood ==
  Good(NewFragment) /\ NewFragment.cluster = 0 /\ NewFragment.lost = 0
    /\ NewFragment.length = 0 /\ NewFragment.blocks = <<>>
  <1>1. NewFragment \in MovieFragment
    BY DEF NewFragment, MovieFragment
  <1>2. /\ NewFragment.heads = <<>> /\ NewFragment.blocks = <<>>
        /\ NewFragment.cluster = 0 /\ NewFragment.length = 0
        /\ NewFragment.lost = 0
    BY DEF NewFragment
  <1>3. DOMAIN NewFragment.heads = {} /\ DOMAIN NewFragment.blocks = {}
    BY <1>2
  <1> QED
    BY <1>1, <1>2, <1>3 DEF Good

\* The fragment that a cut begins: it holds the key frame and nothing else.
LEMMA BegunGood ==
  ASSUME IInv, NEW b \in Block, NEW length \in Lengths,
         b.timecode < SignBit => WrittenTimecode(clusterTimeCode) = b.timecode
  PROVE  LET g == AppendBlock(OpenCluster(NewFragment, clusterTimeCode), b, length)
         IN  /\ Good(g)
             /\ g.heads # <<>> /\ g.cluster = Len(g.heads)
             /\ g.heads[Len(g.heads)].timecode = WrittenTimecode(clusterTimeCode)
             /\ g.length = CLUSTER_HEAD_LENGTH + length /\ g.lost = 0
             /\ g.blocks = <<[b EXCEPT !.at = CLUSTER_HEAD_LENGTH]>>
  <1> DEFINE h == OpenCluster(NewFragment, clusterTimeCode)
             g == AppendBlock(h, b, length)
  <1>1. clusterTimeCode \in Int
    BY DEF IInv
  <1>2. h = AddHead(NewFragment, clusterTimeCode)
    BY NewFragmentGood DEF OpenCluster, CloseCluster
  <1>3. /\ Good(h) /\ h.heads # <<>> /\ h.cluster = Len(h.heads)
        /\ h.heads[Len(h.heads)].timecode = WrittenTimecode(clusterTimeCode)
        /\ h.length = 0 + CLUSTER_HEAD_LENGTH /\ h.lost = 0 /\ h.blocks = <<>>
    BY <1>1, <1>2, NewFragmentGood, AddHeadGood
  <1> HIDE DEF h
  <1>4. h.length = CLUSTER_HEAD_LENGTH /\ h.length + length <= CAPACITY
        /\ length \in Nat \ {0}
    <2>1. MINIMAL_FRAGMENT_LENGTH + length <= CAPACITY
      OBVIOUS
    <2>2. length \in Nat \ {0} /\ h.length = CLUSTER_HEAD_LENGTH
      BY <1>3
    <2>3. CLUSTER_HEAD_LENGTH + length <= CAPACITY
      BY <2>1, <2>2
    <2> QED
      BY <2>2, <2>3
  <1>5. /\ Good(g) /\ g.heads = h.heads /\ g.cluster = h.cluster
        /\ \/ CAPACITY < h.length + length
           \/ /\ g.length = h.length + length /\ g.lost = h.lost
              /\ g.blocks = Append(h.blocks, [b EXCEPT !.at = h.length])
    <2>1. b.timecode < SignBit => h.heads[Len(h.heads)].timecode = b.timecode
      BY <1>3
    <2> QED
      BY <1>3, <1>4, <2>1, AppendBlockGood
  <1>6. ~(CAPACITY < h.length + length)
    BY <1>4
  <1> HIDE DEF g
  <1>7. Append(<<>>, [b EXCEPT !.at = h.length]) = <<[b EXCEPT !.at = h.length]>>
    OBVIOUS
  <1> QED
    BY <1>3, <1>4, <1>5, <1>6, <1>7 DEF g, h

LEMMA PushIInv ==
  ASSUME IInv, NEW key \in BOOLEAN, NEW length \in Lengths,
         Push(key, length), Cuts(key)
  PROVE  IInv'
  <1> DEFINE f == fragments[current]
             closed == CloseCluster(f)
             b == InputBlock(key)
             g == AppendBlock(OpenCluster(NewFragment, clusterTimeCode), b, length)
             filled == [fragments EXCEPT ![current] = closed]
  <1>1. key
    BY DEF Cuts
  <1>2. /\ b \in Block /\ b.timecode = source.timecode
        /\ source.timecode # NoTimecode /\ length \in Nat \ {0} /\ ~crashed
        /\ source.timecode < SignBit =>
             WrittenTimecode(clusterTimeCode) = source.timecode
        /\ source' \in Source /\ source'.timecode = source.timecode
        /\ source'.sinceKey = length
    BY <1>1, InputBlockProperties DEF Push
  <1>3. /\ Good(g) /\ g.heads # <<>> /\ g.cluster = Len(g.heads)
        /\ g.heads[Len(g.heads)].timecode = WrittenTimecode(clusterTimeCode)
        /\ g.length = CLUSTER_HEAD_LENGTH + length /\ g.lost = 0
    BY <1>2, BegunGood
  <1>4. Good(closed) /\ closed.cluster = 0
    BY CurrentGood, CloseGood
  <1>5. closed \in MovieFragment /\ g \in MovieFragment
    BY <1>3, <1>4, GoodTypes
  <1>6. /\ fragments \in Seq(MovieFragment) /\ current = Len(fragments)
        /\ current \in Nat \ {0} /\ current \in 1 .. Len(fragments)
    BY CurrentGood DEF IInv
  <1>7. /\ fragments' = Append(filled, g) /\ current' = current + 1
        /\ pushed' = Append(pushed, current)
        /\ UNCHANGED <<clusterTimeCode, crashed>>
    BY <1>6 DEF Push
  <1> HIDE DEF closed, g, b, f
  <1>8. /\ filled \in Seq(MovieFragment) /\ Len(filled) = current
        /\ filled[current] = closed
        /\ \A i \in 1 .. (current - 1) : filled[i] = fragments[i]
    BY <1>5, <1>6
  <1> HIDE DEF filled
  <1>9. /\ fragments' \in Seq(MovieFragment) /\ Len(fragments') = current + 1
        /\ fragments' # <<>> /\ fragments'[current + 1] = g
        /\ \A i \in 1 .. current : fragments'[i] = filled[i]
    BY <1>5, <1>6, <1>7, <1>8
  <1>10. ASSUME NEW i \in 1 .. current
         PROVE  Good(fragments'[i]) /\ fragments'[i].cluster = 0
    <2>1. CASE i = current
      BY <1>4, <1>8, <1>9, <2>1
    <2>2. CASE i \in 1 .. (current - 1)
      <3>1. fragments'[i] = fragments[i]
        BY <1>8, <1>9, <2>2
      <3> QED
        BY <2>2, <3>1 DEF IInv
    <2> QED
      BY <1>6, <2>1, <2>2
  <1>11. Filling(g, source', clusterTimeCode')
    BY <1>2, <1>3, <1>7 DEF Filling
  <1>12. /\ pushed' \in Seq(Nat)
         /\ \A k \in DOMAIN pushed' : pushed'[k] \in 1 .. current
    <2>1. pushed \in Seq(Nat) /\ \A k \in DOMAIN pushed : pushed[k] \in 1 .. (current - 1)
      BY DEF IInv
    <2>2. ASSUME NEW k \in DOMAIN pushed'
          PROVE  pushed'[k] = current \/ (k \in DOMAIN pushed /\ pushed'[k] = pushed[k])
      BY <1>6, <1>7, <2>1
    <2> QED
      BY <1>6, <1>7, <2>1, <2>2
  <1>13. \A i \in 1 .. current' : Good(fragments'[i])
    BY <1>3, <1>6, <1>7, <1>9, <1>10
  <1>14. /\ clusterTimeCode' \in (-SignBit) .. (SignBit - 1)
         /\ crashed' \in BOOLEAN /\ ~crashed'
         /\ source'.timecode # NoTimecode =>
              clusterTimeCode' = Signed(source'.timecode)
    BY <1>2, <1>7 DEF IInv
  <1>15. current' - 1 = current
    BY <1>6, <1>7
  <1> QED
    BY <1>2, <1>7, <1>9, <1>10, <1>11, <1>12, <1>13, <1>14, <1>15 DEF IInv

LEMMA NextIInv ==
  ASSUME IInv, [Next]_vars
  PROVE  IInv'
  <1>1. CASE Crash
    <2>1. /\ fragments[current].length > CAPACITY /\ crashed' = TRUE
          /\ UNCHANGED <<fragments, current, pushed, clusterTimeCode, source>>
      BY <1>1 DEF Crash
    <2> QED
      BY <2>1 DEF IInv
  <1>2. ASSUME NEW t \in Timecodes, Timecode(t)
        PROVE  IInv'
    BY <1>2, TimecodeIInv
  <1>3. ASSUME NEW length \in Lengths, BlockGroup(length)
        PROVE  IInv'
    BY <1>3, StoreIInv DEF BlockGroup, Cuts
  <1>4. ASSUME NEW length \in Lengths, NEW track \in {"video", "other"},
               NEW flag \in BOOLEAN, SimpleBlock(track, flag, length)
        PROVE  IInv'
    <2> DEFINE key == track = "video" /\ flag
    <2>1. key \in BOOLEAN
      OBVIOUS
    <2>2. \/ Cuts(key) /\ Push(key, length)
          \/ ~Cuts(key) /\ Store(key, length)
      BY <1>4 DEF SimpleBlock
    <2> HIDE DEF key
    <2> QED
      BY <2>1, <2>2, PushIInv, StoreIInv
  <1>5. CASE UNCHANGED vars
    BY <1>5 DEF IInv, vars
  <1> QED
    BY <1>1, <1>2, <1>3, <1>4, <1>5 DEF Next

LEMMA InitIInv ==
  ASSUME Init
  PROVE  IInv
  <1>1. /\ fragments = <<NewFragment>> /\ current = 1 /\ pushed = <<>>
        /\ clusterTimeCode = 0 /\ crashed = FALSE
        /\ source.timecode = NoTimecode /\ source.sinceKey = 0
        /\ source \in Source
    BY DEF Init, Source
  <1>2. NewFragment \in MovieFragment /\ NewFragment.heads = <<>>
    BY NewFragmentGood, GoodTypes DEF NewFragment
  <1>3. Filling(NewFragment, source, clusterTimeCode)
    BY <1>1, <1>2, NewFragmentGood DEF Filling
  <1>4. /\ fragments \in Seq(MovieFragment) /\ Len(fragments) = 1
        /\ fragments[1] = NewFragment /\ fragments # <<>>
    BY <1>1, <1>2
  <1>5. \A i \in 1 .. current : Good(fragments[i])
    BY <1>1, <1>4, NewFragmentGood
  <1>6. pushed \in Seq(Nat) /\ DOMAIN pushed = {}
    BY <1>1
  <1>7. 0 \in (-SignBit) .. (SignBit - 1) /\ 1 .. (current - 1) = {}
    BY <1>1
  <1>8. ~(source.timecode # NoTimecode) /\ crashed = FALSE
    BY <1>1
  <1> QED
    BY <1>1, <1>3, <1>4, <1>5, <1>6, <1>7, <1>8 DEF IInv

\* IInv holds between any two elements.
THEOREM Inductive == Spec => []IInv
  <1>1. Init => IInv
    BY InitIInv
  <1>2. IInv /\ [Next]_vars => IInv'
    BY NextIInv
  <1> QED
    BY <1>1, <1>2, PTL DEF Spec

-----------------------------------------------------------------------------
(* What follows from IInv.                                                 *)

\* Fragments, references and the time code keep their types.
THEOREM TypeCorrect == Spec => []TypeOK
  <1>1. ASSUME IInv
        PROVE  TypeOK
    <2>1. current \in DOMAIN fragments /\ DOMAIN fragments = 1 .. current
      BY <1>1, CurrentGood
    <2>2. pushed \in Seq(DOMAIN fragments)
      <3>1. /\ pushed \in Seq(Nat)
            /\ \A k \in DOMAIN pushed : pushed[k] \in DOMAIN fragments
        BY <1>1, <2>1 DEF IInv
      <3> QED
        BY <3>1
    <2>3. \A i \in DOMAIN fragments :
            fragments[i].cluster \in 0 .. Len(fragments[i].heads)
      <3> SUFFICES ASSUME NEW i \in 1 .. current
                   PROVE  fragments[i].cluster \in 0 .. Len(fragments[i].heads)
        BY <2>1
      <3>1. Good(fragments[i])
        BY <1>1 DEF IInv
      <3>2. Len(fragments[i].heads) \in Nat
        BY <3>1, GoodTypes
      <3>3. fragments[i].cluster \in {0, Len(fragments[i].heads)}
        BY <3>1 DEF Good
      <3> QED
        BY <3>2, <3>3
    <2> QED
      BY <1>1, <2>1, <2>2, <2>3 DEF IInv, TypeOK
  <1> QED
    BY <1>1, Inductive, PTL

\* Blocks keep the Timecode of the cluster they came in.
THEOREM Timecodes32 == Spec => []TimecodeKept
  <1>1. ASSUME IInv
        PROVE  TimecodeKept
    <2>1. \A i \in DOMAIN fragments : Good(fragments[i])
      BY <1>1, CurrentGood DEF IInv
    <2> QED
      BY <2>1 DEF TimecodeKept, Good
  <1> QED
    BY <1>1, Inductive, PTL

\* Clusters tile their fragment, and every pushed fragment's are all closed.
THEOREM Tiling == Spec => []ClustersTile
  <1>1. ASSUME IInv
        PROVE  ClustersTile
    <2> SUFFICES ASSUME NEW i \in 1 .. current
                 PROVE  LET f == fragments[i] IN
                          /\ f.length > 0 => f.heads # <<>> /\ f.heads[1].at = 0
                          /\ \A h \in DOMAIN f.heads :
                               \/ i = current /\ h = f.cluster
                               \/ f.heads[h].size = ClusterEnd(f, h)
                                    - f.heads[h].at - INITIAL_CLUSTER_LENGTH
      BY <1>1, CurrentGood DEF ClustersTile
    <2>1. Good(fragments[i])
      BY <1>1 DEF IInv
    <2>2. i # current => fragments[i].cluster = 0
      BY <1>1, CurrentGood DEF IInv
    <2>3. \A h \in DOMAIN fragments[i].heads : h # 0
      BY <2>1, GoodTypes
    <2> QED
      BY <2>1, <2>2, <2>3 DEF Good
  <1> QED
    BY <1>1, Inductive, PTL

\* The buffer suffices, and nothing is lost, while key frames come in time.
THEOREM Capacity == Spec => []GopFits
  <1>1. ASSUME IInv
        PROVE  GopFits
    <2> DEFINE f == fragments[current]
    <2>1. /\ f.length \in Nat /\ f.lost \in Nat /\ source.sinceKey \in Nat
          /\ f.length <= MINIMAL_FRAGMENT_LENGTH + source.sinceKey
          /\ f.lost > 0 => CAPACITY < MINIMAL_FRAGMENT_LENGTH + source.sinceKey
          /\ crashed => f.length > CAPACITY
      BY <1>1, CurrentGood, GoodTypes DEF Filling, IInv
    <2> HIDE DEF f
    <2>2. MINIMAL_FRAGMENT_LENGTH + source.sinceKey <= CAPACITY =>
            f.lost = 0 /\ f.length <= CAPACITY /\ ~crashed
      BY <2>1
    <2> QED
      BY <2>2 DEF GopFits, f
  <1> QED
    BY <1>1, Inductive, PTL

\* Nothing writes to a fragment after its push.
THEOREM Immutable == Spec => PushedImmutable
  <1>1. ASSUME IInv, [Next]_vars
        PROVE  [\A k \in DOMAIN pushed : fragments'[pushed[k]] = Fragment(k)]_vars
    <2> SUFFICES ASSUME Next, NEW k \in DOMAIN pushed
                 PROVE  fragments'[pushed[k]] = fragments[pushed[k]]
      BY <1>1 DEF Fragment
    <2>1. /\ fragments \in Seq(MovieFragment) /\ current = Len(fragments)
          /\ current \in Nat /\ pushed[k] \in 1 .. (current - 1)
          /\ pushed[k] \in DOMAIN fragments /\ pushed[k] # current
      BY <1>1, CurrentGood DEF IInv
    <2>2. ASSUME NEW g, fragments' = [fragments EXCEPT ![current] = g]
          PROVE  fragments'[pushed[k]] = fragments[pushed[k]]
      BY <2>1, <2>2
    <2>3. ASSUME NEW g, NEW h,
                 fragments' = Append([fragments EXCEPT ![current] = g], h)
          PROVE  fragments'[pushed[k]] = fragments[pushed[k]]
      <3> DEFINE filled == [fragments EXCEPT ![current] = g]
      <3>1. /\ Len(filled) = current /\ filled[pushed[k]] = fragments[pushed[k]]
            /\ filled \in Seq(MovieFragment \cup {g})
        BY <2>1
      <3> HIDE DEF filled
      <3> QED
        BY <2>1, <2>3, <3>1 DEF filled
    <2> QED
      BY <1>1, <2>2, <2>3
      DEF Next, Crash, Timecode, BlockGroup, SimpleBlock, Store, Push
  <1> QED
    BY <1>1, Inductive, PTL DEF Spec, PushedImmutable

-----------------------------------------------------------------------------
(* StreamingState implements Segments.                                     *)

LEMMA ViewOfAppend ==
  ASSUME NEW f, NEW g, f.blocks \in Seq(Block), NEW b \in Block,
         g.blocks = Append(f.blocks, b)
  PROVE  View(g) = Append(View(f), [n |-> b.n, key |-> b.key])
  <1> DEFINE Seen(c) == [n |-> c.n, key |-> c.key]
             T == {Seen(c) : c \in Block}
             v == View(f)
             w == View(g)
             n == Len(f.blocks)
  <1>1. /\ n \in Nat /\ DOMAIN f.blocks = 1 .. n /\ DOMAIN g.blocks = 1 .. (n + 1)
        /\ \A i \in 1 .. n : f.blocks[i] \in Block /\ g.blocks[i] = f.blocks[i]
        /\ g.blocks[n + 1] = b
    OBVIOUS
  <1>2. v = [i \in 1 .. n |-> Seen(f.blocks[i])]
    BY <1>1 DEF View
  <1>3. w = [i \in 1 .. (n + 1) |-> Seen(g.blocks[i])]
    BY <1>1 DEF View
  <1>4. \A i \in 1 .. n : Seen(f.blocks[i]) \in T
    BY <1>1
  <1>5. Seen(b) \in T
    OBVIOUS
  <1> HIDE DEF v, w, T, n, Seen
  <1>6. v \in Seq(T) /\ Len(v) = n
    BY <1>1, <1>2, <1>4
  <1>7. /\ Append(v, Seen(b)) \in Seq(T) /\ Len(Append(v, Seen(b))) = n + 1
        /\ \A i \in 1 .. n : Append(v, Seen(b))[i] = v[i]
        /\ Append(v, Seen(b))[n + 1] = Seen(b)
    BY <1>1, <1>5, <1>6
  <1>8. w = Append(v, Seen(b))
    <2>1. \A i \in 1 .. (n + 1) : Seen(g.blocks[i]) \in T
      BY <1>1, <1>4, <1>5
    <2>2. w \in Seq(T) /\ Len(w) = n + 1
      BY <1>1, <1>3, <2>1
    <2>3. \A i \in 1 .. (n + 1) : w[i] = Append(v, Seen(b))[i]
      BY <1>1, <1>2, <1>3, <1>7
    <2> QED
      BY <1>1, <1>7, <2>2, <2>3, SeqEqual
  <1> QED
    BY <1>8 DEF v, w, Seen

\* A step that stores into the fragment being filled leaves the segments alone.
LEMMA SegmentsUnchanged ==
  ASSUME IInv, NEW g, fragments' = [fragments EXCEPT ![current] = g],
         UNCHANGED <<current, pushed>>
  PROVE  /\ UNCHANGED [k \in DOMAIN pushed |-> View(Fragment(k))]
         /\ View(fragments[current])' = View(g)
  <1>1. \A k \in DOMAIN pushed : pushed[k] # current /\ pushed[k] \in DOMAIN fragments
    BY CurrentGood DEF IInv
  <1>2. fragments'[current] = g
    BY CurrentGood
  <1>3. \A k \in DOMAIN pushed : fragments'[pushed[k]] = fragments[pushed[k]]
    BY <1>1
  <1> QED
    BY <1>2, <1>3 DEF View, Fragment

LEMMA InitSegments ==
  ASSUME Init
  PROVE  S!Init
  <1>1. source.blocks = 0 /\ pushed = <<>> /\ fragments[current].blocks = <<>>
    BY DEF Init, NewFragment
  <1>2. View(fragments[current]) = <<>>
    BY <1>1 DEF View
  <1>3. [k \in DOMAIN pushed |-> View(Fragment(k))] = <<>>
    BY <1>1
  <1> QED
    BY <1>1, <1>2, <1>3 DEF S!Init

LEMMA StoreSegments ==
  ASSUME IInv, NEW key \in BOOLEAN, NEW length \in Lengths, Store(key, length)
  PROVE  S!Next
  <1> DEFINE f == fragments[current]
             b == InputBlock(key)
             g == AppendBlock(f, b, length)
             seen == [n |-> source.blocks + 1, key |-> key]
  <1>1. ReadsBlock(key, length)
    BY DEF Store
  <1>2. /\ b \in Block /\ b.n = source.blocks + 1 /\ b.key = key
        /\ source'.blocks = source.blocks + 1
    BY <1>1, InputBlockProperties
  <1>3. /\ fragments' = [fragments EXCEPT ![current] = g]
        /\ UNCHANGED <<current, pushed>>
    BY CurrentGood DEF Store
  <1>4. f \in MovieFragment /\ f.blocks \in Seq(Block) /\ f.length \in Nat
    BY CurrentGood, GoodTypes
  <1>5. /\ UNCHANGED [k \in DOMAIN pushed |-> View(Fragment(k))]
        /\ View(fragments[current])' = View(g)
    BY <1>3, SegmentsUnchanged
  <1>6. View(g) = View(f) \/ View(g) = Append(View(f), seen)
    <2>1. CASE CAPACITY < f.length + length
      <3>1. g.blocks = f.blocks
        BY <1>4, <2>1 DEF AppendBlock, MovieFragment
      <3> QED
        BY <3>1 DEF View
    <2>2. CASE ~(CAPACITY < f.length + length)
      <3> DEFINE stored == [b EXCEPT !.at = f.length]
      <3>1. g.blocks = Append(f.blocks, stored)
        BY <1>4, <2>2 DEF AppendBlock, MovieFragment
      <3>2. stored \in Block /\ stored.n = b.n /\ stored.key = b.key
        BY <1>2, <1>4 DEF Block
      <3> HIDE DEF stored, g, f, b
      <3> QED
        BY <1>2, <1>4, <3>1, <3>2, ViewOfAppend
    <2> QED
      BY <2>1, <2>2
  <1>7. seen.n = source.blocks + 1
    OBVIOUS
  <1> HIDE DEF g
  <1>8. S!Receive(seen)
    BY <1>2, <1>5, <1>6, <1>7 DEF S!Receive, S!Take, S!Lose
  <1> QED
    BY <1>8 DEF S!Next

LEMMA PushSegments ==
  ASSUME IInv, NEW key \in BOOLEAN, NEW length \in Lengths,
         Push(key, length), Cuts(key)
  PROVE  S!Next
  <1> DEFINE f == fragments[current]
             closed == CloseCluster(f)
             b == InputBlock(key)
             g == AppendBlock(OpenCluster(NewFragment, clusterTimeCode), b, length)
             filled == [fragments EXCEPT ![current] = closed]
             seen == [n |-> source.blocks + 1, key |-> key]
             segs == [k \in DOMAIN pushed |-> View(Fragment(k))]
             V == {View(h) : h \in MovieFragment}
  <1>1. key
    BY DEF Cuts
  <1>2. /\ b \in Block /\ b.n = source.blocks + 1 /\ b.key = key
        /\ b.timecode = source.timecode
        /\ source.timecode < SignBit =>
             WrittenTimecode(clusterTimeCode) = source.timecode
        /\ source'.blocks = source.blocks + 1
    BY InputBlockProperties DEF Push
  <1>3. Good(g) /\ g.blocks = <<[b EXCEPT !.at = CLUSTER_HEAD_LENGTH]>>
    BY <1>2, BegunGood
  <1>4. Good(closed) /\ closed.blocks = f.blocks /\ Good(f)
    BY CurrentGood, CloseGood
  <1>5. closed \in MovieFragment /\ g \in MovieFragment /\ f \in MovieFragment
    BY <1>3, <1>4, GoodTypes
  <1>6. /\ fragments \in Seq(MovieFragment) /\ current = Len(fragments)
        /\ current \in Nat \ {0} /\ current \in 1 .. Len(fragments)
        /\ pushed \in Seq(Nat)
        /\ \A k \in DOMAIN pushed : pushed[k] \in 1 .. (current - 1)
    BY CurrentGood DEF IInv
  <1>7. /\ fragments' = Append(filled, g) /\ current' = current + 1
        /\ pushed' = Append(pushed, current)
    BY <1>6 DEF Push
  <1>8. View(closed) = View(f)
    BY <1>4 DEF View
  <1>9. View(g) = <<seen>>
    <2> DEFINE stored == [b EXCEPT !.at = CLUSTER_HEAD_LENGTH]
    <2>1. stored.n = b.n /\ stored.key = b.key
      BY <1>2 DEF Block
    <2> HIDE DEF stored
    <2>2. g.blocks = <<stored>>
      BY <1>3 DEF stored
    <2> HIDE DEF g, b
    <2>3. DOMAIN g.blocks = 1 .. 1 /\ g.blocks[1] = stored
      BY <2>2
    <2>4. View(g) = [i \in 1 .. 1 |-> seen]
      BY <1>2, <2>1, <2>3 DEF View
    <2> QED
      BY <2>4
  <1> HIDE DEF closed, g, b, f, V
  <1>10. /\ filled \in Seq(MovieFragment) /\ Len(filled) = current
         /\ filled[current] = closed
         /\ \A i \in 1 .. (current - 1) : filled[i] = fragments[i]
    BY <1>5, <1>6
  <1> HIDE DEF filled
  <1>11. /\ fragments'[current'] = g /\ fragments'[current] = closed
         /\ \A i \in 1 .. (current - 1) : fragments'[i] = fragments[i]
    BY <1>5, <1>6, <1>7, <1>10
  <1>12. segs' = Append(segs, View(f))
    <2> DEFINE n == Len(pushed)
    <2>1. /\ n \in Nat /\ DOMAIN pushed = 1 .. n /\ DOMAIN pushed' = 1 .. (n + 1)
          /\ \A k \in 1 .. n : pushed'[k] = pushed[k]
          /\ pushed'[n + 1] = current
      BY <1>6, <1>7
    <2>2. segs = [k \in 1 .. n |-> View(fragments[pushed[k]])]
      BY <2>1 DEF Fragment
    <2>3. segs' = [k \in 1 .. (n + 1) |-> View(fragments'[pushed'[k]])]
      BY <2>1 DEF Fragment, View
    <2>4. \A k \in 1 .. n : fragments'[pushed'[k]] = fragments[pushed[k]]
      BY <1>6, <1>11, <2>1
    <2>5. /\ \A k \in 1 .. n : View(fragments[pushed[k]]) \in V
          /\ View(f) \in V
      <3>1. \A h \in MovieFragment : View(h) \in V
        BY DEF V
      <3>2. \A k \in 1 .. n : fragments[pushed[k]] \in MovieFragment
        BY <1>6, <2>1
      <3> QED
        BY <1>5, <3>1, <3>2
    <2> HIDE DEF segs, n
    <2>6. segs \in Seq(V) /\ Len(segs) = n
      BY <2>1, <2>2, <2>5
    <2>7. /\ Append(segs, View(f)) \in Seq(V)
          /\ Len(Append(segs, View(f))) = n + 1
          /\ \A k \in 1 .. n : Append(segs, View(f))[k] = segs[k]
          /\ Append(segs, View(f))[n + 1] = View(f)
      BY <2>1, <2>5, <2>6
    <2>8. \A k \in 1 .. (n + 1) :
            View(fragments'[pushed'[k]]) = Append(segs, View(f))[k]
      <3> SUFFICES ASSUME NEW k \in 1 .. (n + 1)
                   PROVE  View(fragments'[pushed'[k]]) = Append(segs, View(f))[k]
        OBVIOUS
      <3>1. CASE k = n + 1
        BY <1>8, <1>11, <2>1, <2>7, <3>1
      <3>2. CASE k \in 1 .. n
        BY <2>2, <2>4, <2>7, <3>2
      <3>3. n \in Nat
        BY <2>1
      <3>4. k = n + 1 \/ k \in 1 .. n
        BY <3>3
      <3> QED
        BY <3>1, <3>2, <3>4
    <2>9. segs' \in Seq(V) /\ Len(segs') = n + 1
      <3>1. \A k \in 1 .. (n + 1) : View(fragments'[pushed'[k]]) \in V
        BY <2>1, <2>7, <2>8
      <3> QED
        BY <2>1, <2>3, <3>1
    <2>10. \A k \in 1 .. (n + 1) : segs'[k] = Append(segs, View(f))[k]
      BY <2>3, <2>8
    <2> QED
      BY <2>7, <2>9, <2>10, SeqEqual
  <1>13. View(fragments[current])' = <<seen>>
    BY <1>9, <1>11 DEF View
  <1>14. seen.key /\ seen.n = source.blocks + 1
    BY <1>1
  <1>15. S!Cut(seen)
    BY <1>12, <1>13, <1>14 DEF S!Cut, f
  <1>16. S!Receive(seen)
    BY <1>2, <1>14, <1>15 DEF S!Receive
  <1> QED
    BY <1>16 DEF S!Next

LEMMA TimecodeSegments ==
  ASSUME IInv, NEW t \in Timecodes, Timecode(t)
  PROVE  UNCHANGED <<source.blocks,
                     [k \in DOMAIN pushed |-> View(Fragment(k))],
                     View(fragments[current])>>
  <1> DEFINE f == fragments[current]
             g == OpenCluster(f, Signed(t))
  <1>1. Signed(t) \in Int
    BY SignedProperties
  <1>2. Good(CloseCluster(f)) /\ CloseCluster(f).cluster = 0
        /\ CloseCluster(f).blocks = f.blocks
    BY CurrentGood, CloseGood
  <1>3. g.blocks = f.blocks
    BY <1>1, <1>2, AddHeadGood DEF OpenCluster
  <1>4. /\ fragments' = [fragments EXCEPT ![current] = g]
        /\ UNCHANGED <<current, pushed>>
    BY CurrentGood DEF Timecode
  <1>5. /\ UNCHANGED [k \in DOMAIN pushed |-> View(Fragment(k))]
        /\ View(fragments[current])' = View(g)
    BY <1>4, SegmentsUnchanged
  <1>6. View(g) = View(f)
    BY <1>3 DEF View
  <1>7. source'.blocks = source.blocks
    BY DEF Timecode, IInv, Source
  <1> QED
    BY <1>5, <1>6, <1>7

(* Every consumer-visible history of the segmenter is one of Segments: the *)
(* blocks in order, none twice, cut at key frames only.                    *)
THEOREM Implements == Spec => CutAtKeyFrames
  <1>1. Init => S!Init
    BY InitSegments
  <1>2. ASSUME IInv, [Next]_vars
        PROVE  [S!Next]_<<source.blocks,
                          [k \in DOMAIN pushed |-> View(Fragment(k))],
                          View(fragments[current])>>
    <2>1. CASE Crash \/ UNCHANGED vars
      BY <2>1 DEF Crash, vars, View, Fragment
    <2>2. ASSUME NEW t \in Timecodes, Timecode(t)
          PROVE  UNCHANGED <<source.blocks,
                             [k \in DOMAIN pushed |-> View(Fragment(k))],
                             View(fragments[current])>>
      BY <1>2, <2>2, TimecodeSegments
    <2>3. ASSUME NEW length \in Lengths, BlockGroup(length)
          PROVE  S!Next
      BY <1>2, <2>3, StoreSegments DEF BlockGroup
    <2>4. ASSUME NEW length \in Lengths, NEW track \in {"video", "other"},
                 NEW flag \in BOOLEAN, SimpleBlock(track, flag, length)
          PROVE  S!Next
      <3> DEFINE key == track = "video" /\ flag
      <3>1. key \in BOOLEAN
        OBVIOUS
      <3>2. \/ Cuts(key) /\ Push(key, length)
            \/ ~Cuts(key) /\ Store(key, length)
        BY <2>4 DEF SimpleBlock
      <3> HIDE DEF key
      <3> QED
        BY <1>2, <3>1, <3>2, PushSegments, StoreSegments
    <2> QED
      BY <1>2, <2>1, <2>2, <2>3, <2>4 DEF Next
  <1> QED
    BY <1>1, <1>2, Inductive, PTL DEF Spec, CutAtKeyFrames, S!Spec
=============================================================================
