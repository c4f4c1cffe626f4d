--------------------------- MODULE LintChecks_proof ---------------------------
(***************************************************************************)
(* Proofs about the operators of cpplint.py. First the algorithms that     *)
(* work on a text: comments, strings and brackets. Then the checks: one    *)
(* reports through Error and in no other way, each in categories of its    *)
(* own, so a set of states of the report that Error stays in is one that   *)
(* the check stays in.                                                     *)
(***************************************************************************)
EXTENDS LintChecks, FiniteSetTheorems, TLAPS

\* The bodies of the folds and recursive functions of LintText.
CleanseStep(code, kept, i) ==
  LET open == {j \in 1..Len(code) : code[j] = "/*"}
      close == {j \in 1..Len(code) : code[j] = "*/" /\ \E k \in open : k < j}
  IN IF i < Min(open) \/ i > Max(close) THEN Append(kept, code[i]) ELSE kept

CleanseFold == INSTANCE Fold_proof WITH step <- CleanseStep

CollapseStep(t, kept, i) ==
  LET quotes == {j \in 1..Len(t) : t[j] = "quote"}
      inString == /\ i \notin quotes
                  /\ CountTo(t, "quote", i) % 2 = 1
                  /\ \E j \in quotes : j > i
  IN IF ~inString THEN Append(kept, t[i]) ELSE kept

CollapseFold == INSTANCE Fold_proof WITH step <- CollapseStep

RemoveStep(lines, remove, from) ==
  LET begin == FindNextMultiLineCommentStart(lines, from)
      end == FindNextMultiLineCommentEnd(lines, begin)
  IN CASE begin = NumLines(lines) -> [cleared |-> {}, unclosed |-> {}]
       [] begin # NumLines(lines) /\ end = NumLines(lines) ->
            [cleared |-> {}, unclosed |-> {begin}]
       [] OTHER ->
            LET rest == remove[end + 1]
            IN [rest EXCEPT !.cleared = @ \cup (begin..end)]

RemoveRec == INSTANCE Fold_proof WITH step <- RemoveStep

TextStep(c, state, i) ==
  IF i <= c.pos \/ state.stack = <<>> \/ state.failed THEN state
  ELSE IF c.t[i] = Last(state.stack) THEN [state EXCEPT !.stack = Front(@), !.end = i]
  ELSE IF c.t[i] \in {")", "]", "}"} THEN [state EXCEPT !.failed = TRUE]
  ELSE IF c.t[i] \in {"(", "[", "{"}
       THEN [state EXCEPT !.stack = Append(@, Closing(c.t[i]))]
  ELSE state

TextFold == INSTANCE Fold_proof WITH step <- TextStep

\* A sum over an interval: the body of the recursive functions that count.
SumStep(c, sum, i) == IF i = c.from THEN c.first ELSE sum[i - 1] + c.term[i]

SumRec == INSTANCE Fold_proof WITH step <- SumStep

\* The searches for an angle bracket, their texts, and what balances.
NextAngleStep(c, state, token) ==
  AngleStep(state, token, "<", ">", {"<", "(", "["}, {")", "]"})

NextAngleFold == INSTANCE Fold_proof WITH step <- NextAngleStep

PreviousAngleStep(c, state, token) ==
  AngleStep(state, token, ">", "<", {">", ")", "]"}, {"(", "["})

PreviousAngleFold == INSTANCE Fold_proof WITH step <- PreviousAngleStep

BalanceStep(c, s, token) ==
  IF s = <<"bad">> \/ token = ";" THEN <<"bad">>
  ELSE IF token = "<" THEN Append(s, ">")
  ELSE IF token \in {"(", "["} THEN Append(s, Closing(token))
  ELSE IF token \in {">", ")", "]"}
       THEN IF s # <<>> /\ Last(s) = token THEN Front(s) ELSE <<"bad">>
  ELSE s

BalanceFold == INSTANCE Fold_proof WITH step <- BalanceStep

AfterStep(lines, text, i) ==
  IF i = NumLines(lines) THEN <<>> ELSE lines[i].elided \o text[i + 1]

AfterRec == INSTANCE Fold_proof WITH step <- AfterStep

BeforeStep(c, text, i) ==
  IF i = -1 THEN <<>>
  ELSE text[i - 1] \o IF i = c.linenum THEN SubSeq(c.lines[i].elided, 1, c.pos - 1)
                                       ELSE c.lines[i].elided

BeforeRec == INSTANCE Fold_proof WITH step <- BeforeStep

\* Whether a comment is open, after a token.
ScanStep(c, s, token) ==
  CASE s = "code" /\ token = "/*" -> "comment"
    [] s = "code" /\ token = "//" -> "rest"
    [] s = "comment" /\ token = "*/" -> "code"
    [] OTHER -> s

ScanFold == INSTANCE Fold_proof WITH step <- ScanStep

-----------------------------------------------------------------------------
(* Induction by sets of numbers.                                           *)

LEMMA IntervalInduction ==
  ASSUME NEW a \in Int, NEW b \in Int, NEW S, a <= b => a \in S,
         \A i \in a + 1 .. b : i - 1 \in S => i \in S
  PROVE  a .. b \subseteq S
BY SumRec!IntervalInduction

\* Downwards, from b to a.
LEMMA DownwardInduction ==
  ASSUME NEW a \in Int, NEW b \in Int, NEW S, a <= b => b \in S,
         \A i \in a .. b - 1 : i + 1 \in S => i \in S
  PROVE  a .. b \subseteq S
<1> DEFINE R == {i \in Int : b - (i - a) \in S}
<1>1. a <= b => a \in R
  OBVIOUS
<1>2. ASSUME NEW i \in a + 1 .. b, i - 1 \in R PROVE i \in R
  <2>1. b - (i - a) \in a .. b - 1 /\ b - ((i - 1) - a) = (b - (i - a)) + 1
    OBVIOUS
  <2> QED
    BY <1>2, <2>1
<1>3. a .. b \subseteq R
  <2> HIDE DEF R
  <2> QED
    BY <1>1, <1>2, IntervalInduction
<1>4. ASSUME NEW i \in a .. b PROVE i \in S
  <2>1. b - (i - a) \in a .. b /\ b - ((b - (i - a)) - a) = i
    OBVIOUS
  <2> QED
    BY <1>3, <2>1
<1> QED
  BY <1>4

LEMMA Induction ==
  ASSUME NEW S, 0 \in S, \A n \in Nat : n \in S => n + 1 \in S
  PROVE  Nat \subseteq S
<1>1. ASSUME NEW n \in Nat PROVE n \in S
  <2>1. \A i \in 0 + 1 .. n : i - 1 \in S => i \in S
    <3>1. \A i \in 0 + 1 .. n : i - 1 \in Nat /\ (i - 1) + 1 = i
      OBVIOUS
    <3> QED
      BY <3>1
  <2>2. 0 .. n \subseteq S
    BY <2>1, IntervalInduction
  <2> QED
    BY <2>2
<1> QED
  BY <1>1

\* Every number has what all smaller ones having it gives it.
LEMMA StrongInduction ==
  ASSUME NEW S, \A n \in Nat : (\A k \in 0 .. n - 1 : k \in S) => n \in S
  PROVE  Nat \subseteq S
<1> DEFINE T == {n \in Nat : \A k \in 0 .. n : k \in S}
<1>1. 0 \in T
  <2>1. \A k \in 0 .. 0 - 1 : k \in S
    OBVIOUS
  <2>2. 0 \in S
    BY <2>1
  <2> QED
    BY <2>2
<1>2. ASSUME NEW n \in Nat, n \in T PROVE n + 1 \in T
  <2>1. \A k \in 0 .. n : k \in S
    BY <1>2
  <2>2. \A k \in 0 .. (n + 1) - 1 : k \in S
    BY <2>1
  <2>3. n + 1 \in S
    BY <2>2
  <2> QED
    BY <2>1, <2>3
<1>3. Nat \subseteq T
  <2> HIDE DEF T
  <2> QED
    BY <1>1, <1>2, Induction
<1> QED
  BY <1>3

LEMMA Least ==
  ASSUME NEW T, T \subseteq Nat, T # {}
  PROVE  \E m \in T : \A k \in T : m <= k
<1> DEFINE R == {n \in Nat : n \notin T}
<1>1. SUFFICES ASSUME \A m \in T : \E k \in T : ~(m <= k) PROVE FALSE
  OBVIOUS
<1>2. ASSUME NEW n \in Nat, \A k \in 0 .. n - 1 : k \in R PROVE n \in R
  <2>1. ASSUME n \in T PROVE FALSE
    <3>1. PICK k \in T : ~(n <= k)
      BY <1>1, <2>1
    <3>2. k \in 0 .. n - 1
      BY <3>1
    <3> QED
      BY <1>2, <3>2
  <2> QED
    BY <2>1
<1>3. Nat \subseteq R
  <2> HIDE DEF R
  <2> QED
    BY <1>2, StrongInduction
<1> QED
  BY <1>3

-----------------------------------------------------------------------------
(* Sets of indices, and counting.                                          *)

LEMMA MaxDef ==
  ASSUME NEW S, S \subseteq Int, NEW m \in S, \A k \in S : k <= m
  PROVE  Max(S) = m
<1>1. \A y \in S : m >= y
  OBVIOUS
<1>2. Max(S) \in S /\ \A y \in S : Max(S) >= y
  BY <1>1 DEF Max
<1>3. Max(S) \in Int /\ m \in Int /\ m >= Max(S) /\ Max(S) >= m
  BY <1>1, <1>2
<1> QED
  BY <1>3

LEMMA MinDef ==
  ASSUME NEW S, S \subseteq Int, NEW m \in S, \A k \in S : m <= k
  PROVE  Min(S) = m
<1>1. \A y \in S : m =< y
  OBVIOUS
<1>2. Min(S) \in S /\ \A y \in S : Min(S) =< y
  BY <1>1 DEF Min
<1>3. Min(S) \in Int /\ m \in Int /\ m =< Min(S) /\ Min(S) =< m
  BY <1>1, <1>2
<1> QED
  BY <1>3

LEMMA MinExists ==
  ASSUME NEW S, NEW a \in Int, S \subseteq Int, \A k \in S : a <= k, S # {}
  PROVE  Min(S) \in S /\ \A k \in S : Min(S) <= k
<1> DEFINE T == {k - a : k \in S}
<1>1. T \subseteq Nat
  OBVIOUS
<1>0. T # {}
  OBVIOUS
<1>2. PICK m \in T : \A k \in T : m <= k
  BY <1>0, <1>1, Least
<1>3. PICK s \in S : m = s - a
  BY <1>2
<1>4. ASSUME NEW k \in S PROVE s <= k
  <2>1. m <= k - a
    BY <1>2
  <2> QED
    BY <2>1, <1>3
<1> QED
  BY <1>4, MinDef

LEMMA MaxExists ==
  ASSUME NEW S, NEW b \in Int, S \subseteq Int, \A k \in S : k <= b, S # {}
  PROVE  Max(S) \in S /\ \A k \in S : k <= Max(S)
<1> DEFINE T == {b - k : k \in S}
<1>1. T \subseteq Nat
  OBVIOUS
<1>0. T # {}
  OBVIOUS
<1>2. PICK m \in T : \A k \in T : m <= k
  BY <1>0, <1>1, Least
<1>3. PICK s \in S : m = b - s
  BY <1>2
<1>4. ASSUME NEW k \in S PROVE k <= s
  <2>1. m <= b - k
    BY <1>2
  <2> QED
    BY <2>1, <1>3
<1> QED
  BY <1>4, MaxDef

\* Of the numbers from a to b.
LEMMA MinMaxInterval ==
  ASSUME NEW a \in Int, NEW b \in Int, NEW S \in SUBSET (a .. b), S # {}
  PROVE  /\ Min(S) \in S /\ \A k \in S : Min(S) <= k
         /\ Max(S) \in S /\ \A k \in S : k <= Max(S)
         /\ Min(S) \in a .. b /\ Max(S) \in a .. b
<1>1. S \subseteq Int /\ (\A k \in S : a <= k) /\ (\A k \in S : k <= b)
  OBVIOUS
<1>2. Min(S) \in S /\ \A k \in S : Min(S) <= k
  BY <1>1, MinExists
<1>3. Max(S) \in S /\ \A k \in S : k <= Max(S)
  BY <1>1, MaxExists
<1> QED
  BY <1>2, <1>3

LEMMA CountToType ==
  ASSUME NEW t, NEW token, NEW i \in Int
  PROVE  CountTo(t, token, i) \in Nat
<1>1. IsFiniteSet(1 .. i)
  BY FS_Interval
<1>2. {j \in 1 .. i : t[j] = token} \in SUBSET (1 .. i)
  OBVIOUS
<1> QED
  BY <1>1, <1>2, FS_Subset, FS_CardinalityType DEF CountTo

LEMMA CountIsCountTo ==
  ASSUME NEW t, NEW token
  PROVE  Count(t, token) = CountTo(t, token, Len(t))
BY DEF Count, CountTo

LEMMA CountNone ==
  ASSUME NEW t, NEW token
  PROVE  CountTo(t, token, 0) = 0
<1>1. {j \in 1 .. 0 : t[j] = token} = {}
  OBVIOUS
<1> QED
  BY <1>1, FS_EmptySet DEF CountTo

\* The next token is counted if it is the one looked for.
LEMMA CountNext ==
  ASSUME NEW t, NEW token, NEW i \in Nat \ {0}
  PROVE  CountTo(t, token, i) = CountTo(t, token, i - 1) + IF t[i] = token THEN 1 ELSE 0
<1> DEFINE S == {j \in 1 .. i - 1 : t[j] = token}
           R == {j \in 1 .. i : t[j] = token}
<1>1. IsFiniteSet(S) /\ Cardinality(S) \in Nat
  <2>1. IsFiniteSet(1 .. i - 1)
    BY FS_Interval
  <2>2. S \in SUBSET (1 .. i - 1)
    OBVIOUS
  <2> QED
    BY <2>1, <2>2, FS_Subset, FS_CardinalityType
<1>2. i \notin S
  OBVIOUS
<1>3. R = IF t[i] = token THEN S \cup {i} ELSE S
  <2>1. 1 .. i = (1 .. i - 1) \cup {i}
    OBVIOUS
  <2> QED
    BY <2>1
<1>4. Cardinality(S \cup {i}) = Cardinality(S) + 1
  BY <1>1, <1>2, FS_AddElement
<1>5. Cardinality(R) = Cardinality(S) + IF t[i] = token THEN 1 ELSE 0
  <2> HIDE DEF S, R
  <2> QED
    BY <1>1, <1>3, <1>4
<1> QED
  BY <1>5 DEF CountTo

-----------------------------------------------------------------------------
(* Types.                                                                  *)

LEMMA FromType ==
  ASSUME NEW S, NEW t \in Seq(S), NEW i \in Nat \ {0}
  PROVE  From(t, i) \in Seq(S)
BY DEF From

\* Picking tokens from a text makes a text of some of its tokens.
LEMMA CleanseFoldType ==
  ASSUME NEW S, NEW t \in Seq(S)
  PROVE  CleanseFold!Fold(t, <<>>, [i \in DOMAIN t |-> i]) \in Seq(S)
<1> DEFINE s == [i \in DOMAIN t |-> i]
<1>1. Len(t) \in Nat /\ DOMAIN s = 1 .. Len(t)
  OBVIOUS
<1>2. <<>> \in Seq(S)
  OBVIOUS
<1>3. \A i \in 1 .. Len(t) : \A v \in Seq(S) : CleanseStep(t, v, s[i]) \in Seq(S)
  BY DEF CleanseStep
<1> HIDE DEF s
<1>4. CleanseFold!Fold(t, <<>>, s) \in Seq(S)
  BY <1>1, <1>2, <1>3, CleanseFold!FoldStays
<1> QED
  BY <1>4 DEF s

LEMMA CleanseCommentsType ==
  ASSUME NEW S, NEW t \in Seq(S)
  PROVE  CleanseComments(t) \in Seq(S)
<1> DEFINE code == SubSeq(t, 1, LineCommentAt(t) - 1)
           open == {i \in 1 .. Len(code) : code[i] = "/*"}
           close == {i \in 1 .. Len(code) : code[i] = "*/" /\ \E j \in open : j < i}
<1>1. LineCommentAt(t) \in 1 .. Len(t) + 1
  <2> DEFINE marks == {i \in 1 .. Len(t) : t[i] = "//"}
  <2>1. marks # {} => Min(marks) \in 1 .. Len(t)
    <3>1. marks \in SUBSET (1 .. Len(t)) /\ 1 \in Int /\ Len(t) \in Int
      OBVIOUS
    <3> QED
      BY <3>1, MinMaxInterval
  <2> QED
    BY <2>1 DEF LineCommentAt
<1>2. code \in Seq(S)
  BY <1>1
<1>3. Pick(code, LAMBDA i : i < Min(open) \/ i > Max(close))
        = CleanseFold!Fold(code, <<>>, [i \in DOMAIN code |-> i])
  <2> HIDE DEF code
  <2> QED
    BY DEF Pick, FoldLeftDomain, FoldLeft, MapThenFoldSet, CleanseFold!Fold, CleanseStep,
           CleanseFold!Iter, CleanseFold!Max, Max
<1>4. CleanseComments(t) = IF close = {} THEN code
                           ELSE Pick(code, LAMBDA i : i < Min(open) \/ i > Max(close))
  BY DEF CleanseComments
<1> QED
  BY <1>2, <1>3, <1>4, CleanseFoldType

LEMMA CollapseFoldType ==
  ASSUME NEW S, NEW t \in Seq(S)
  PROVE  CollapseFold!Fold(t, <<>>, [i \in DOMAIN t |-> i]) \in Seq(S)
<1> DEFINE s == [i \in DOMAIN t |-> i]
<1>1. Len(t) \in Nat /\ DOMAIN s = 1 .. Len(t)
  OBVIOUS
<1>2. <<>> \in Seq(S)
  OBVIOUS
<1>3. \A i \in 1 .. Len(t) : \A v \in Seq(S) : CollapseStep(t, v, s[i]) \in Seq(S)
  BY DEF CollapseStep
<1> HIDE DEF s
<1>4. CollapseFold!Fold(t, <<>>, s) \in Seq(S)
  BY <1>1, <1>2, <1>3, CollapseFold!FoldStays
<1> QED
  BY <1>4 DEF s

LEMMA CollapseStringsType ==
  ASSUME NEW S, NEW t \in Seq(S)
  PROVE  CollapseStrings(t) \in Seq(S)
<1> DEFINE folded == CollapseFold!Fold(t, <<>>, [i \in DOMAIN t |-> i])
<1>1. CollapseStrings(t) = IF t # <<>> /\ t[1] = "#include" THEN t ELSE folded
  BY DEF CollapseStrings, Pick, FoldLeftDomain, FoldLeft, MapThenFoldSet, CollapseFold!Fold,
         CollapseStep, CollapseFold!Iter, CollapseFold!Max, Max
<1>2. folded \in Seq(S)
  BY CollapseFoldType
<1> QED
  BY <1>1, <1>2

-----------------------------------------------------------------------------
(* Files as functions from line numbers.                                   *)

LEMMA NumLinesOf ==
  ASSUME NEW n \in Nat, NEW lines, DOMAIN lines = 0 .. n
  PROVE  NumLines(lines) = n + 1
<1>1. Cardinality(0 .. n) = (n - 0) + 1
  BY FS_Interval
<1> QED
  BY <1>1 DEF NumLines

\* A line without comments, and without strings.
LEMMA CleansedLinesType ==
  ASSUME NEW n \in Nat, NEW raw, DOMAIN raw = 0 .. n,
         NEW i \in 0 .. n, NEW S, raw[i].text \in Seq(S)
  PROVE  LET line == CleansedLines(raw)[i]
         IN  /\ DOMAIN CleansedLines(raw) = 0 .. n
             /\ line.raw = raw[i]
             /\ line.text \in Seq(S)
             /\ line.elided \in Seq(S)
<1>1. CleanseComments(raw[i].text) \in Seq(S)
  BY CleanseCommentsType
<1>2. CleanseComments(CollapseStrings(raw[i].text)) \in Seq(S)
  BY CollapseStringsType, CleanseCommentsType
<1> QED
  BY <1>1, <1>2 DEF CleansedLines

LEMMA CommentStart ==
  ASSUME NEW n \in Nat, NEW lines, DOMAIN lines = 0 .. n, NEW from \in 0 .. n + 1
  PROVE  LET begin == FindNextMultiLineCommentStart(lines, from)
         IN  /\ begin \in from .. n + 1
             /\ begin # n + 1 => Opens(lines[begin].text)
             /\ \A i \in from .. begin - 1 : ~Opens(lines[i].text)
<1> DEFINE S == {i \in DOMAIN lines : i >= from /\ Opens(lines[i].text)} \cup {NumLines(lines)}
<1>1. S \in SUBSET (from .. n + 1) /\ S # {} /\ from \in Int /\ n + 1 \in Int
  BY NumLinesOf
<1>2. Min(S) \in S /\ (\A k \in S : Min(S) <= k) /\ Min(S) \in from .. n + 1
  <2> HIDE DEF S
  <2> QED
    BY <1>1, MinMaxInterval
<1>3. FindNextMultiLineCommentStart(lines, from) = Min(S)
  BY DEF FindNextMultiLineCommentStart
<1>4. Min(S) # n + 1 => Opens(lines[Min(S)].text)
  BY <1>2, NumLinesOf
<1>5. ASSUME NEW i \in from .. Min(S) - 1, Opens(lines[i].text) PROVE FALSE
  <2>1. i \in S
    BY <1>2, <1>5
  <2> HIDE DEF S
  <2> QED
    BY <1>2, <2>1
<1> QED
  BY <1>2, <1>3, <1>4, <1>5

LEMMA CommentEnd ==
  ASSUME NEW n \in Nat, NEW lines, DOMAIN lines = 0 .. n, NEW from \in 0 .. n + 1
  PROVE  LET end == FindNextMultiLineCommentEnd(lines, from)
             closes(i) == lines[i].text # <<>> /\ Last(lines[i].text) = "*/"
         IN  /\ end \in from .. n + 1
             /\ end # n + 1 => closes(end)
             /\ \A i \in from .. end - 1 : ~closes(i)
<1> DEFINE closes(i) == lines[i].text # <<>> /\ Last(lines[i].text) = "*/"
           S == {i \in DOMAIN lines : i >= from /\ lines[i].text # <<>>
                                      /\ Last(lines[i].text) = "*/"} \cup {NumLines(lines)}
<1>1. S \in SUBSET (from .. n + 1) /\ S # {} /\ from \in Int /\ n + 1 \in Int
  BY NumLinesOf
<1>2. Min(S) \in S /\ (\A k \in S : Min(S) <= k) /\ Min(S) \in from .. n + 1
  <2> HIDE DEF S
  <2> QED
    BY <1>1, MinMaxInterval
<1>3. FindNextMultiLineCommentEnd(lines, from) = Min(S)
  BY DEF FindNextMultiLineCommentEnd
<1>4. Min(S) # n + 1 => closes(Min(S))
  BY <1>2, NumLinesOf
<1>5. ASSUME NEW i \in from .. Min(S) - 1, closes(i) PROVE FALSE
  <2>1. i \in S
    BY <1>2, <1>5
  <2> HIDE DEF S
  <2> QED
    BY <1>2, <2>1
<1> QED
  BY <1>2, <1>3, <1>4, <1>5

\* RemoveMultiLineComments goes from one comment to the next.
LEMMA RemoveEquation ==
  ASSUME NEW n \in Nat, NEW lines, DOMAIN lines = 0 .. n
  PROVE  LET remove == RemoveRec!Recursive(lines, 0, n + 1)
         IN  \A from \in 0 .. n + 1 : remove[from] = RemoveStep(lines, remove, from)
<1>1. ASSUME NEW from \in 0 .. n + 1, NEW g, NEW h, RemoveRec!AgreeAbove(g, h, from, n + 1)
      PROVE  RemoveStep(lines, g, from) = RemoveStep(lines, h, from)
  <2> DEFINE begin == FindNextMultiLineCommentStart(lines, from)
             end == FindNextMultiLineCommentEnd(lines, begin)
  <2>1. begin \in from .. n + 1
    BY CommentStart
  <2>2. end \in begin .. n + 1
    BY <2>1, CommentEnd
  <2>3. NumLines(lines) = n + 1
    BY NumLinesOf
  <2> HIDE DEF begin, end
  <2>4. end # n + 1 => g[end + 1] = h[end + 1]
    BY <1>1, <2>1, <2>2 DEF RemoveRec!AgreeAbove
  <2>5. begin # n + 1 \/ begin = n + 1
    OBVIOUS
  <2> QED
    BY <2>3, <2>4, <2>5 DEF RemoveStep, begin, end
<1> DEFINE remove == RemoveRec!Recursive(lines, 0, n + 1)
<1>2. RemoveRec!Solves(remove, lines, 0, n + 1)
  BY <1>1, RemoveRec!RecursionDown
<1> HIDE DEF remove
<1>3. \A from \in 0 .. n + 1 : remove[from] = RemoveStep(lines, remove, from)
  BY <1>2 DEF RemoveRec!Solves
<1> QED
  BY <1>3 DEF remove

LEMMA RemoveIsRecursive ==
  ASSUME NEW n \in Nat, NEW lines, DOMAIN lines = 0 .. n
  PROVE  LET result == RemoveRec!Recursive(lines, 0, n + 1)[0]
         IN  RemoveMultiLineComments(lines) =
               [lines |-> [i \in 0 .. n |-> IF i \in result.cleared THEN Dummy ELSE lines[i]],
                unclosed |-> result.unclosed]
<1>1. LET result == RemoveRec!Recursive(lines, 0, NumLines(lines))[0]
      IN  RemoveMultiLineComments(lines) =
            [lines |-> [i \in DOMAIN lines |-> IF i \in result.cleared THEN Dummy ELSE lines[i]],
             unclosed |-> result.unclosed]
  BY DEF RemoveMultiLineComments, RemoveRec!Recursive, RemoveStep
<1>2. NumLines(lines) = n + 1
  BY NumLinesOf
<1> QED
  BY <1>1, <1>2

\* What the search for comments may find.
LEMMA RemoveType ==
  ASSUME NEW n \in Nat, NEW lines, DOMAIN lines = 0 .. n
  PROVE  RemoveRec!Recursive(lines, 0, n + 1)[0]
           \in [cleared : SUBSET (0 .. n), unclosed : SUBSET (0 .. n)]
<1> DEFINE remove == RemoveRec!Recursive(lines, 0, n + 1)
           D == [cleared : SUBSET (0 .. n), unclosed : SUBSET (0 .. n)]
           S == {k \in Nat : k <= n + 1 => remove[(n + 1) - k] \in D}
<1>1. \A from \in 0 .. n + 1 : remove[from] = RemoveStep(lines, remove, from)
  BY RemoveEquation
<1>2. NumLines(lines) = n + 1
  BY NumLinesOf
<1> HIDE DEF remove
<1>3. ASSUME NEW k \in Nat, \A j \in 0 .. k - 1 : j \in S PROVE k \in S
  <2>1. SUFFICES ASSUME k <= n + 1 PROVE remove[(n + 1) - k] \in D
    OBVIOUS
  <2> DEFINE from == (n + 1) - k
             begin == FindNextMultiLineCommentStart(lines, from)
             end == FindNextMultiLineCommentEnd(lines, begin)
             rest == remove[end + 1]
  <2>2. from \in 0 .. n + 1
    BY <2>1
  <2>3. begin \in from .. n + 1
    BY <2>2, CommentStart
  <2>4. end \in begin .. n + 1
    <3> HIDE DEF begin
    <3>1. begin \in 0 .. n + 1
      BY <2>2, <2>3
    <3> QED
      BY <3>1, CommentEnd
  <2>5. remove[from] = CASE begin = n + 1 -> [cleared |-> {}, unclosed |-> {}]
                         [] begin # n + 1 /\ end = n + 1 ->
                              [cleared |-> {}, unclosed |-> {begin}]
                         [] OTHER -> [rest EXCEPT !.cleared = @ \cup (begin .. end)]
    <3>1. remove[from] = RemoveStep(lines, remove, from)
      BY <1>1, <2>2
    <3> QED
      BY <1>2, <3>1 DEF RemoveStep
  <2> HIDE DEF begin, end, rest
  <2>6. begin # n + 1 /\ end # n + 1 => rest \in D
    <3>1. SUFFICES ASSUME begin # n + 1, end # n + 1 PROVE rest \in D
      OBVIOUS
    <3> DEFINE j == n - end
    <3>2. j \in 0 .. k - 1 /\ j <= n + 1 /\ (n + 1) - j = end + 1
      BY <2>2, <2>3, <2>4, <3>1
    <3>3. remove[(n + 1) - j] \in D
      <4> HIDE DEF j
      <4> QED
        BY <1>3, <3>2
    <3> QED
      BY <3>2, <3>3 DEF rest
  <2>7. begin # n + 1 /\ end # n + 1 => [rest EXCEPT !.cleared = @ \cup (begin .. end)] \in D
    <3>1. SUFFICES ASSUME begin # n + 1, end # n + 1
                   PROVE  [rest EXCEPT !.cleared = @ \cup (begin .. end)] \in D
      OBVIOUS
    <3>2. begin .. end \in SUBSET (0 .. n)
      BY <2>2, <2>3, <2>4, <3>1
    <3> QED
      BY <2>6, <3>1, <3>2
  <2>8. begin # n + 1 => begin \in 0 .. n
    BY <2>2, <2>3
  <2> HIDE DEF from
  <2> QED
    BY <2>5, <2>7, <2>8 DEF from
<1>4. Nat \subseteq S
  <2> HIDE DEF S
  <2> QED
    BY <1>3, StrongInduction
<1>5. (n + 1) - (n + 1) = 0 /\ n + 1 \in S
  BY <1>4
<1> QED
  BY <1>5 DEF remove

\* A line that is left is the line as it was, or a comment.
LEMMA RemoveMultiLineCommentsType ==
  ASSUME NEW n \in Nat, NEW raw, DOMAIN raw = 0 .. n
  PROVE  LET comments == RemoveMultiLineComments(raw)
         IN  /\ DOMAIN comments.lines = 0 .. n
             /\ \A i \in 0 .. n : comments.lines[i] \in {raw[i], Dummy}
             /\ comments.unclosed \in SUBSET (0 .. n)
BY RemoveIsRecursive, RemoveType

-----------------------------------------------------------------------------
(* Brackets.                                                               *)

LEMMA FindEndType ==
  ASSUME NEW S, NEW t \in Seq(S), NEW from \in Nat \ {0}, NEW depth, NEW start, NEW end
  PROVE  LET found == FindEndOfExpressionInLine(t, from, depth, start, end)
         IN  /\ found \in Nat
             /\ found # 0 =>
                  /\ found - 1 \in from .. Len(t)
                  /\ t[found - 1] = end
                  /\ DepthAt(t, from, found - 1, depth, start, end) = 0
                  /\ \A i \in from .. found - 2 :
                       ~(t[i] = end /\ DepthAt(t, from, i, depth, start, end) = 0)
<1> DEFINE ends == {i \in from .. Len(t) :
                      t[i] = end /\ DepthAt(t, from, i, depth, start, end) = 0}
<1>1. ends \in SUBSET (from .. Len(t)) /\ from \in Int /\ Len(t) \in Int
  OBVIOUS
<1>2. ends # {} => Min(ends) \in ends /\ \A k \in ends : Min(ends) <= k
  <2> HIDE DEF ends
  <2> QED
    BY <1>1, MinMaxInterval
<1>3. FindEndOfExpressionInLine(t, from, depth, start, end) =
        IF ends = {} THEN 0 ELSE Min(ends) + 1
  BY DEF FindEndOfExpressionInLine
<1>4. ends # {} => (Min(ends) + 1) - 1 = Min(ends) /\ (Min(ends) + 1) - 2 = Min(ends) - 1
  BY <1>1, <1>2
<1> HIDE DEF ends
<1>5. ASSUME ends # {}, NEW i \in from .. Min(ends) - 1
      PROVE  ~(t[i] = end /\ DepthAt(t, from, i, depth, start, end) = 0)
  <2>0. Min(ends) \in from .. Len(t)
    BY <1>1, <1>2, <1>5
  <2>1. i \in from .. Len(t) /\ i \notin ends
    BY <1>2, <1>5, <2>0
  <2> QED
    BY <2>1 DEF ends
<1>6. ends # {} => Min(ends) \in from .. Len(t) /\ t[Min(ends)] = end
                   /\ DepthAt(t, from, Min(ends), depth, start, end) = 0
  BY <1>2 DEF ends
<1> QED
  BY <1>3, <1>4, <1>5, <1>6

\* A bracket is closed on its line, on a later one, or not at all.
LEMMA CloseExpressionLine ==
  ASSUME NEW n \in Nat, NEW lines, DOMAIN lines = 0 .. n, NEW l \in 0 .. n,
         NEW S, lines[l].elided \in Seq(S), NEW pos \in Nat \ {0}
  PROVE  CloseExpression(lines, l, pos).linenum \in l .. n + 1
<1>1. NumLines(lines) = n + 1
  BY NumLinesOf
<1>2. ASSUME NEW U \in SUBSET (l + 1 .. NumLines(lines) - 1), U # {}
      PROVE  Min(U) \in l .. n + 1
  <2>1. l + 1 \in Int /\ n \in Int /\ U \in SUBSET (l + 1 .. n)
    BY <1>1
  <2>2. Min(U) \in l + 1 .. n
    BY <1>2, <2>1, MinMaxInterval
  <2> QED
    BY <2>2
<1> DEFINE line == lines[l].elided
           start == line[pos]
           end == Closing(start)
           here == FindEndOfExpressionInLine(line, pos, 0, start, end)
           tail == From(line, pos)
           numOpen[i \in l .. NumLines(lines) - 1] ==
             IF i = l
             THEN Count(tail, start) - Count(tail, end)
             ELSE numOpen[i - 1] + Count(lines[i].elided, start) - Count(lines[i].elided, end)
           closed == {i \in l + 1 .. NumLines(lines) - 1 : numOpen[i] <= 0}
           found == [linenum |-> Min(closed),
                     pos |-> FindEndOfExpressionInLine(lines[Min(closed)].elided, 1,
                                                       numOpen[Min(closed) - 1], start, end)]
<1>3. CloseExpression(lines, l, pos) =
        CASE here > 0 -> [linenum |-> l, pos |-> here]
          [] here = 0 /\ closed = {} -> [linenum |-> NumLines(lines), pos |-> 0]
          [] OTHER -> found
  BY DEF CloseExpression
<1>4. found.linenum = Min(closed) /\ closed \in SUBSET (l + 1 .. NumLines(lines) - 1)
  OBVIOUS
<1>5. here \in Nat
  BY FindEndType
<1> HIDE DEF closed, found, here
<1> QED
  BY <1>1, <1>2, <1>3, <1>4, <1>5

-----------------------------------------------------------------------------
(* The ends of brackets.                                                   *)

Openers == {"(", "[", "{"}

Closers == {")", "]", "}"}

\* The brackets.
LEMMA ClosingType ==
  ASSUME NEW a \in Openers
  PROVE  Closing(a) \in Closers
<1>1. Closing("(") = ")" /\ Closing("[") = "]" /\ Closing("{") = "}"
  BY DEF Closing
<1> QED
  BY <1>1, Zenon DEF Openers, Closers

LEMMA ClosingInjective ==
  ASSUME NEW a \in Openers, NEW b \in Openers, Closing(a) = Closing(b)
  PROVE  a = b
<1>1. Closing("(") = ")" /\ Closing("[") = "]" /\ Closing("{") = "}"
  BY DEF Closing
<1> QED
  BY <1>1, Zenon DEF Openers

LEMMA OpenersNotClosers == Openers \cap Closers = {}
BY Zenon DEF Openers, Closers

\* _GetTextInside is a fold.
LEMMA TextInsideIs ==
  ASSUME NEW c
  PROVE  LET final == TextFold!Fold(c, [stack |-> <<Closing(c.t[c.pos])>>, failed |-> FALSE,
                                        end |-> 0], [i \in DOMAIN c.t |-> i])
         IN GetTextInside(c.t, c.pos) =
              IF final.failed \/ final.stack # <<>> THEN 0 ELSE final.end
BY DEF GetTextInside, FoldLeftDomain, FoldLeft, MapThenFoldSet, TextFold!Fold, TextStep,
       TextFold!Iter, TextFold!Max, Max

\* Counting in a stack.
LEMMA CountPush ==
  ASSUME NEW S, NEW s \in Seq(S), NEW x \in S, NEW y
  PROVE  Count(Append(s, x), y) = Count(s, y) + IF x = y THEN 1 ELSE 0
<1> DEFINE n == Len(s)
           longer == Append(s, x)
<1>1. n \in Nat /\ Len(longer) = n + 1 /\ longer[n + 1] = x
      /\ \A i \in 1..n : longer[i] = s[i]
  OBVIOUS
<1> HIDE DEF longer, n
<1>2. CountTo(longer, y, n) = CountTo(s, y, n)
  <2>1. {j \in 1..n : longer[j] = y} = {j \in 1..n : s[j] = y}
    BY <1>1
  <2> QED
    BY <2>1 DEF CountTo
<1>3. CountTo(longer, y, n + 1) = CountTo(longer, y, n) + IF x = y THEN 1 ELSE 0
  <2>1. n + 1 \in Nat \ {0} /\ (n + 1) - 1 = n
    BY <1>1
  <2> QED
    BY <1>1, <2>1, CountNext
<1>4. Count(longer, y) = Count(s, y) + IF x = y THEN 1 ELSE 0
  BY <1>1, <1>2, <1>3, CountIsCountTo DEF n
<1> QED
  BY <1>4 DEF longer

LEMMA FrontIs ==
  ASSUME NEW S, NEW s \in Seq(S), s # <<>>
  PROVE  /\ Front(s) \in Seq(S) /\ Len(Front(s)) = Len(s) - 1
         /\ \A i \in 1..Len(s) - 1 : Front(s)[i] = s[i]
<1>1. ASSUME NEW n \in Nat, n <= Len(s)
      PROVE  SubSeq(s, 1, n) \in Seq(S) /\ Len(SubSeq(s, 1, n)) = n
             /\ \A i \in 1..n : SubSeq(s, 1, n)[i] = s[i]
  <2>1. SubSeq(s, 1, n) \in Seq(S)
    BY <1>1
  <2>2. Len(SubSeq(s, 1, n)) = n
    BY <1>1
  <2>3. \A i \in 1..n : SubSeq(s, 1, n)[i] = s[i]
    BY <1>1
  <2> QED
    BY <2>1, <2>2, <2>3
<1>2. Len(s) - 1 \in Nat /\ Len(s) - 1 <= Len(s)
  OBVIOUS
<1> QED
  BY <1>1, <1>2 DEF Front

LEMMA CountPop ==
  ASSUME NEW S, NEW s \in Seq(S), s # <<>>, NEW y
  PROVE  Count(s, y) = Count(Front(s), y) + IF Last(s) = y THEN 1 ELSE 0
<1> DEFINE n == Len(s)
           shorter == Front(s)
<1>1. n \in Nat \ {0} /\ Len(shorter) = n - 1 /\ Last(s) = s[n]
      /\ \A i \in 1..n - 1 : shorter[i] = s[i]
  BY FrontIs DEF Last
<1> HIDE DEF shorter, n
<1>2. CountTo(shorter, y, n - 1) = CountTo(s, y, n - 1)
  <2>1. {j \in 1..n - 1 : shorter[j] = y} = {j \in 1..n - 1 : s[j] = y}
    BY <1>1
  <2> QED
    BY <2>1 DEF CountTo
<1>3. CountTo(s, y, n) = CountTo(s, y, n - 1) + IF s[n] = y THEN 1 ELSE 0
  BY <1>1, CountNext
<1>4. Count(s, y) = Count(shorter, y) + IF Last(s) = y THEN 1 ELSE 0
  BY <1>1, <1>2, <1>3, CountIsCountTo DEF n
<1> QED
  BY <1>4 DEF shorter

LEMMA CountSome ==
  ASSUME NEW S, NEW s \in Seq(S), NEW i \in 1..Len(s)
  PROVE  Count(s, s[i]) \in Nat \ {0}
<1> DEFINE C == {j \in 1..Len(s) : s[j] = s[i]}
<1>1. IsFiniteSet(1..Len(s))
  BY FS_Interval
<1>2. C \in SUBSET (1..Len(s)) /\ C # {}
  OBVIOUS
<1>3. IsFiniteSet(C) /\ Cardinality(C) \in Nat /\ Cardinality(C) # 0
  <2> HIDE DEF C
  <2> QED
    BY <1>1, <1>2, FS_Subset, FS_CardinalityType, FS_EmptySet
<1> QED
  BY <1>3 DEF Count

\* The depth changes by one at a bracket.
LEMMA DepthType ==
  ASSUME NEW t, NEW from \in Nat \ {0}, NEW j \in Nat, NEW d \in Int, NEW a, NEW e
  PROVE  DepthAt(t, from, j, d, a, e) \in Int
<1>1. from - 1 \in Int /\ j \in Int
  OBVIOUS
<1> QED
  BY <1>1, CountToType DEF DepthAt

LEMMA DepthNext ==
  ASSUME NEW t, NEW from \in Nat \ {0}, NEW j \in Nat \ {0}, NEW d \in Int, NEW a, NEW e
  PROVE  DepthAt(t, from, j, d, a, e) =
           DepthAt(t, from, j - 1, d, a, e) + (IF t[j] = a THEN 1 ELSE 0)
             - (IF t[j] = e THEN 1 ELSE 0)
<1>1. from - 1 \in Int /\ j \in Int /\ j - 1 \in Int
  OBVIOUS
<1>2. /\ CountTo(t, a, j) = CountTo(t, a, j - 1) + IF t[j] = a THEN 1 ELSE 0
      /\ CountTo(t, e, j) = CountTo(t, e, j - 1) + IF t[j] = e THEN 1 ELSE 0
  BY CountNext
<1>3. /\ CountTo(t, a, j) \in Nat /\ CountTo(t, e, j) \in Nat
      /\ CountTo(t, a, j - 1) \in Nat /\ CountTo(t, e, j - 1) \in Nat
      /\ CountTo(t, a, from - 1) \in Nat /\ CountTo(t, e, from - 1) \in Nat
  BY <1>1, CountToType
<1> QED
  BY <1>2, <1>3 DEF DepthAt

\* How many of the bracket a are open after the j-th token, from the p-th on.
OpenedAt(t, p, a, j) == DepthAt(t, p, j, 0, a, Closing(a))

LEMMA OpenedType ==
  ASSUME NEW t, NEW p \in Nat \ {0}, NEW a, NEW j \in Nat
  PROVE  OpenedAt(t, p, a, j) \in Int
BY DepthType DEF OpenedAt

LEMMA OpenedNext ==
  ASSUME NEW t, NEW p \in Nat \ {0}, NEW a, NEW j \in Nat \ {0}
  PROVE  OpenedAt(t, p, a, j) = OpenedAt(t, p, a, j - 1) + (IF t[j] = a THEN 1 ELSE 0)
                              - (IF t[j] = Closing(a) THEN 1 ELSE 0)
BY DepthNext DEF OpenedAt

LEMMA OpenedFirst ==
  ASSUME NEW t, NEW p \in Nat \ {0}, t[p] \in Openers
  PROVE  OpenedAt(t, p, t[p], p) = 1
<1>1. OpenedAt(t, p, t[p], p - 1) = 0
  <2>1. p - 1 \in Int
    OBVIOUS
  <2> QED
    BY <2>1, CountToType DEF OpenedAt, DepthAt
<1>2. t[p] # Closing(t[p])
  BY ClosingType, OpenersNotClosers
<1> QED
  BY <1>1, <1>2, OpenedNext

(* What _GetTextInside knows after i tokens: the brackets that are to be   *)
(* closed, the one at p at the bottom, or where that was closed.           *)
Inside(t, p, a, i) ==
  {s \in [stack : Seq(Closers), failed : BOOLEAN, end : Nat] :
     /\ i <= p => s.stack = <<Closing(a)>> /\ ~s.failed
     /\ i >= p /\ ~s.failed /\ s.stack # <<>> =>
          /\ s.stack[1] = Closing(a)
          /\ OpenedAt(t, p, a, i) = Count(s.stack, Closing(a))
          /\ \A j \in p..i : OpenedAt(t, p, a, j) > 0
     /\ ~s.failed /\ s.stack = <<>> =>
          /\ s.end \in p + 1..i /\ t[s.end] = Closing(a) /\ OpenedAt(t, p, a, s.end) = 0
          /\ \A j \in p..s.end - 1 : OpenedAt(t, p, a, j) > 0}

LEMMA InsideFirst ==
  ASSUME NEW t, NEW p \in Nat \ {0}, t[p] \in Openers,
         NEW i \in 1..p, NEW s \in Inside(t, p, t[p], i - 1)
  PROVE  s \in Inside(t, p, t[p], i)
<1> DEFINE a == t[p]
<1>1. s.stack = <<Closing(a)>> /\ ~s.failed /\ s \in [stack : Seq(Closers), failed : BOOLEAN, end : Nat]
  BY DEF Inside
<1>2. OpenedAt(t, p, a, p) = 1
  BY OpenedFirst
<1>3. Count(<<Closing(a)>>, Closing(a)) = 1
  <2>1. Closing(a) \in Closers /\ <<>> \in Seq(Closers)
    BY ClosingType
  <2>2. Count(Append(<<>>, Closing(a)), Closing(a)) = Count(<<>>, Closing(a)) + 1
    BY <2>1, CountPush
  <2>3. Count(<<>>, Closing(a)) = 0
    BY CountNone, CountIsCountTo
  <2> QED
    BY <2>2, <2>3
<1> HIDE DEF a
<1>4. s.stack # <<>> /\ s.stack[1] = Closing(a)
  BY <1>1
<1>5. i >= p => i = p /\ \A j \in p..i : OpenedAt(t, p, a, j) > 0
  <2>1. i >= p => i = p /\ \A j \in p..i : j = p
    OBVIOUS
  <2> QED
    BY <1>2, <2>1
<1>6. s \in Inside(t, p, a, i)
  BY <1>1, <1>2, <1>3, <1>4, <1>5 DEF Inside
<1> QED
  BY <1>6 DEF a

LEMMA InsideNext ==
  ASSUME NEW S, NEW t \in Seq(S), NEW p \in 1..Len(t), t[p] \in Openers,
         NEW i \in p + 1..Len(t), NEW s \in Inside(t, p, t[p], i - 1)
  PROVE  TextStep([t |-> t, pos |-> p], s, i) \in Inside(t, p, t[p], i)
<1> DEFINE a == t[p]
           e == Closing(a)
           next == TextStep([t |-> t, pos |-> p], s, i)
           open(j) == OpenedAt(t, p, a, j)
<1>1. /\ s \in [stack : Seq(Closers), failed : BOOLEAN, end : Nat]
      /\ ~s.failed /\ s.stack # <<>> =>
           s.stack[1] = e /\ open(i - 1) = Count(s.stack, e) /\ \A j \in p..i - 1 : open(j) > 0
      /\ ~s.failed /\ s.stack = <<>> =>
           /\ s.end \in p + 1..i - 1 /\ t[s.end] = e /\ open(s.end) = 0
           /\ \A j \in p..s.end - 1 : open(j) > 0
  BY DEF Inside
<1>2. open(i) = open(i - 1) + (IF t[i] = a THEN 1 ELSE 0) - (IF t[i] = e THEN 1 ELSE 0)
      /\ open(i - 1) \in Int
  <2>1. p \in Nat \ {0} /\ i \in Nat \ {0} /\ i - 1 \in Nat
    OBVIOUS
  <2> HIDE DEF a
  <2> QED
    BY <2>1, OpenedNext, OpenedType
<1>3. a \in Openers /\ e \in Closers /\ a # e
  BY ClosingType, OpenersNotClosers
<1>4. next = IF i <= p \/ s.stack = <<>> \/ s.failed THEN s
             ELSE IF t[i] = Last(s.stack) THEN [s EXCEPT !.stack = Front(@), !.end = i]
             ELSE IF t[i] \in Closers THEN [s EXCEPT !.failed = TRUE]
             ELSE IF t[i] \in Openers THEN [s EXCEPT !.stack = Append(@, Closing(t[i]))]
             ELSE s
  BY Zenon DEF TextStep, Openers, Closers
<1>5. i \in Nat /\ ~(i <= p) /\ i >= p /\ p \in Nat \ {0}
  OBVIOUS
<1> HIDE DEF open, next
<1>6. \A j \in p..i : j \in p..i - 1 \/ j = i
  OBVIOUS
<1> SUFFICES /\ next \in [stack : Seq(Closers), failed : BOOLEAN, end : Nat]
             /\ ~next.failed /\ next.stack # <<>> =>
                  /\ next.stack[1] = e /\ open(i) = Count(next.stack, e) /\ open(i) > 0
                  /\ \A j \in p..i - 1 : open(j) > 0
             /\ ~next.failed /\ next.stack = <<>> =>
                  /\ next.end \in p + 1..i /\ t[next.end] = e /\ open(next.end) = 0
                  /\ \A j \in p..next.end - 1 : open(j) > 0
  <2>1. \A j \in p..i - 1 : OpenedAt(t, p, a, j) = open(j)
    BY DEF open
  <2> QED
    BY <1>5, <1>6 DEF Inside, open, next
<1> HIDE DEF a, e
<1>7. CASE s.stack = <<>> \/ s.failed
  <2>1. next = s
    BY <1>4, <1>7
  <2>2. s.end \in p + 1..i - 1 => s.end \in p + 1..i
    OBVIOUS
  <2> QED
    BY <1>1, <1>7, <2>1, <2>2
<1>8. ASSUME ~(s.stack = <<>> \/ s.failed), t[i] = Last(s.stack)
      PROVE  /\ next.stack = Front(s.stack) /\ ~next.failed /\ next.end = i
             /\ next \in [stack : Seq(Closers), failed : BOOLEAN, end : Nat]
  <2>1. next = [s EXCEPT !.stack = Front(@), !.end = i]
    BY <1>4, <1>5, <1>8
  <2>2. Front(s.stack) \in Seq(Closers)
    BY <1>1, <1>8, FrontIs
  <2> QED
    BY <1>1, <1>5, <1>8, <2>1, <2>2
<1>9. ASSUME ~(s.stack = <<>> \/ s.failed), t[i] # Last(s.stack), t[i] \in Closers
      PROVE  next.failed /\ next \in [stack : Seq(Closers), failed : BOOLEAN, end : Nat]
  <2>1. next = [s EXCEPT !.failed = TRUE]
    BY <1>4, <1>5, <1>9
  <2> QED
    BY <1>1, <2>1
<1>10. ASSUME ~(s.stack = <<>> \/ s.failed), t[i] # Last(s.stack), t[i] \in Openers
       PROVE  /\ next.stack = Append(s.stack, Closing(t[i])) /\ ~next.failed
              /\ next \in [stack : Seq(Closers), failed : BOOLEAN, end : Nat]
  <2>1. Closing(t[i]) \in Closers /\ t[i] \notin Closers
    BY <1>10, ClosingType, OpenersNotClosers
  <2>2. next = [s EXCEPT !.stack = Append(@, Closing(t[i]))]
    BY <1>4, <1>5, <1>10, <2>1
  <2>3. PICK x : x = Closing(t[i])
    OBVIOUS
  <2>4. next = [s EXCEPT !.stack = Append(s.stack, x)]
    BY <1>1, <2>2, <2>3
  <2>5. Append(s.stack, x) \in Seq(Closers)
    BY <1>1, <2>1, <2>3
  <2> QED
    BY <1>1, <1>10, <2>3, <2>4, <2>5
<1>11. CASE ~(s.stack = <<>> \/ s.failed) /\ t[i] = Last(s.stack)
  <2>1. Count(s.stack, e) = Count(Front(s.stack), e) + (IF t[i] = e THEN 1 ELSE 0)
    BY <1>1, <1>11, CountPop
  <2>2. t[i] \in Closers /\ t[i] # a
    <3>1. s.stack[Len(s.stack)] \in Closers
      BY <1>1, <1>11
    <3> QED
      BY <1>3, <1>11, <3>1, OpenersNotClosers DEF Last
  <2>3. Front(s.stack) \in Seq(Closers) /\ Len(Front(s.stack)) = Len(s.stack) - 1
        /\ \A j \in 1..Len(s.stack) - 1 : Front(s.stack)[j] = s.stack[j]
    BY <1>1, <1>11, FrontIs
  <2>4. Count(Front(s.stack), e) \in Int
    <3>1. Len(Front(s.stack)) \in Int
      BY <2>3
    <3> QED
      BY <3>1, CountIsCountTo, CountToType
  <2>5. open(i) = Count(Front(s.stack), e)
    BY <1>1, <1>2, <1>11, <2>1, <2>2, <2>4
  <2>6. ASSUME Front(s.stack) # <<>>
        PROVE  Front(s.stack)[1] = e /\ Count(Front(s.stack), e) > 0
    <3>1. 1 \in 1..Len(s.stack) - 1 /\ 1 \in 1..Len(Front(s.stack))
      BY <1>1, <2>3, <2>6
    <3>2. Front(s.stack)[1] = e
      BY <1>1, <1>11, <2>3, <3>1
    <3> QED
      <4>1. Count(Front(s.stack), Front(s.stack)[1]) \in Nat \ {0}
        BY <2>3, <3>1, CountSome
      <4> QED
        BY <3>2, <4>1
  <2>7. ASSUME Front(s.stack) = <<>>
        PROVE  t[i] = e /\ open(i) = 0
    <3>1. Len(s.stack) = 1
      BY <1>1, <2>3, <2>7
    <3>2. t[i] = e
      BY <1>1, <1>11, <3>1 DEF Last
    <3>3. Count(<<>>, e) = 0
      BY CountNone, CountIsCountTo
    <3> QED
      BY <2>5, <2>7, <3>2, <3>3
  <2>8. i \in p + 1..i /\ \A j \in p..i - 1 : open(j) > 0
    BY <1>1, <1>11
  <2> QED
    BY <1>8, <1>11, <2>5, <2>6, <2>7, <2>8
<1>12. CASE ~(s.stack = <<>> \/ s.failed) /\ t[i] # Last(s.stack) /\ t[i] \in Closers
  BY <1>9, <1>12
<1>13. CASE ~(s.stack = <<>> \/ s.failed) /\ t[i] # Last(s.stack) /\ t[i] \in Openers
  <2>1. Closing(t[i]) \in Closers /\ t[i] # e
    BY <1>3, <1>13, ClosingType, OpenersNotClosers
  <2>2. Closing(t[i]) = e <=> t[i] = a
    BY <1>3, <1>13, ClosingInjective DEF e
  <2>0. PICK x : x = Closing(t[i])
    OBVIOUS
  <2>3. Count(next.stack, e) = Count(s.stack, e) + IF t[i] = a THEN 1 ELSE 0
    <3>1. s.stack \in Seq(Closers) /\ x \in Closers
      BY <1>1, <2>0, <2>1
    <3>2. Count(Append(s.stack, x), e) = Count(s.stack, e) + IF x = e THEN 1 ELSE 0
      BY <3>1, CountPush
    <3> QED
      BY <1>10, <1>13, <2>0, <2>2, <3>2
  <2>4. next.stack # <<>> /\ next.stack[1] = e
    <3>1. s.stack \in Seq(Closers) /\ x \in Closers /\ s.stack # <<>> /\ s.stack[1] = e
      BY <1>1, <1>13, <2>0, <2>1
    <3>2. Append(s.stack, x) # <<>> /\ Append(s.stack, x)[1] = e
      BY <3>1
    <3> QED
      BY <1>10, <1>13, <2>0, <3>2
  <2>5. i - 1 \in p..i - 1 /\ open(i - 1) > 0
    BY <1>1, <1>13
  <2>6. open(i) = Count(next.stack, e) /\ open(i) > 0
    BY <1>1, <1>2, <1>13, <2>1, <2>3, <2>5
  <2> QED
    BY <1>1, <1>10, <1>13, <2>4, <2>6
<1>14. CASE ~(s.stack = <<>> \/ s.failed) /\ t[i] # Last(s.stack) /\ t[i] \notin Closers
            /\ t[i] \notin Openers
  <2>1. next = s
    BY <1>4, <1>5, <1>14
  <2>2. t[i] # a /\ t[i] # e
    BY <1>3, <1>14
  <2>3. i - 1 \in p..i - 1 /\ open(i - 1) > 0
    BY <1>1, <1>14
  <2>4. open(i) = open(i - 1)
    BY <1>2, <2>2
  <2> QED
    BY <1>1, <1>14, <2>1, <2>3, <2>4
<1> QED
  BY <1>7, <1>11, <1>12, <1>13, <1>14

(* Where _GetTextInside finds the end of a bracket, counting that kind of  *)
(* bracket alone finds it too.                                             *)
LEMMA TextInsideEnds ==
  ASSUME NEW S, NEW t \in Seq(S), NEW p \in 1..Len(t), t[p] \in Openers, GetTextInside(t, p) > 0
  PROVE  FindEndOfExpressionInLine(t, p, 0, t[p], Closing(t[p])) = GetTextInside(t, p) + 1
<1> DEFINE a == t[p]
           n == Len(t)
           c == [t |-> t, pos |-> p]
           base == [stack |-> <<Closing(a)>>, failed |-> FALSE, end |-> 0]
           order == [i \in DOMAIN t |-> i]
           T == [i \in 0..n |-> Inside(t, p, a, i)]
           final == TextFold!Fold(c, base, order)
<1>1. n \in Nat /\ DOMAIN order = 1..n /\ (\A i \in 1..n : order[i] = i) /\ c.t = t /\ c.pos = p
      /\ p \in Nat \ {0} /\ p <= n
  OBVIOUS
<1>2. base \in T[0]
  <2>1. Closing(a) \in Closers
    BY ClosingType
  <2>2. base \in [stack : Seq(Closers), failed : BOOLEAN, end : Nat]
        /\ base.stack = <<Closing(a)>> /\ ~base.failed /\ base.stack # <<>>
    BY <2>1
  <2> HIDE DEF base
  <2>3. base \in Inside(t, p, a, 0)
    <3>1. 0 <= p /\ ~(0 >= p)
      BY <1>1
    <3> HIDE DEF a
    <3> QED
      BY <2>2, <3>1 DEF Inside
  <2> QED
    BY <1>1, <2>3
<1> HIDE DEF base
<1>3. ASSUME NEW i \in 1..n, NEW s \in T[i - 1]
      PROVE  TextStep(c, s, order[i]) \in T[i]
  <2>1. i - 1 \in 0..n /\ i \in 0..n /\ s \in Inside(t, p, a, i - 1)
    BY <1>1
  <2>2. CASE i <= p
    <3>1. TextStep(c, s, i) = s
      BY <2>2 DEF TextStep
    <3>2. i \in 1..p
      BY <1>1, <2>2
    <3>3. s \in Inside(t, p, a, i)
      BY <1>1, <2>1, <3>2, InsideFirst
    <3> QED
      BY <1>1, <2>1, <3>1, <3>3
  <2>3. CASE ~(i <= p)
    <3>1. i \in p + 1..n
      BY <1>1, <2>3
    <3>2. TextStep(c, s, i) \in Inside(t, p, a, i)
      BY <2>1, <3>1, InsideNext
    <3> QED
      BY <1>1, <2>1, <3>2
  <2> QED
    BY <2>2, <2>3
<1>4. final \in T[n]
  <2> HIDE DEF T, order, c, n
  <2> QED
    BY <1>1, <1>2, <1>3, TextFold!FoldReaches
<1>5. GetTextInside(t, p) = IF final.failed \/ final.stack # <<>> THEN 0 ELSE final.end
  <2>1. GetTextInside(c.t, c.pos) = IF final.failed \/ final.stack # <<>> THEN 0 ELSE final.end
    <3> HIDE DEF c
    <3> QED
      BY <1>1, TextInsideIs DEF final, base, order
  <2> QED
    BY <1>1, <2>1
<1> HIDE DEF final, c, order
<1>6. final \in Inside(t, p, a, n)
  BY <1>1, <1>4
<1> DEFINE m == GetTextInside(t, p)
<1>7. /\ m \in p + 1..n /\ t[m] = Closing(a) /\ OpenedAt(t, p, a, m) = 0
      /\ \A j \in p..m - 1 : OpenedAt(t, p, a, j) > 0
  <2>1. ~final.failed /\ final.stack = <<>> /\ m = final.end
    BY <1>5
  <2> HIDE DEF m
  <2> QED
    BY <1>6, <2>1 DEF Inside
<1> DEFINE found == {i \in p..Len(t) : t[i] = Closing(a) /\ DepthAt(t, p, i, 0, a, Closing(a)) = 0}
<1> HIDE DEF m
<1>8. m \in found
  BY <1>1, <1>7 DEF OpenedAt
<1>9. \A k \in found : m <= k
  <2>1. \A k \in found : k \in p..n /\ OpenedAt(t, p, a, k) = 0
    BY <1>1 DEF OpenedAt
  <2>2. ASSUME NEW k \in found, ~(m <= k) PROVE FALSE
    <3>1. k \in p..m - 1
      BY <1>1, <1>7, <2>1, <2>2
    <3> QED
      BY <1>7, <2>1, <3>1
  <2> QED
    BY <2>2
<1>10. Min(found) = m
  <2>1. found \subseteq Int
    BY <1>1
  <2> HIDE DEF found
  <2> QED
    BY <1>8, <1>9, <2>1, MinDef
<1> QED
  BY <1>8, <1>10 DEF FindEndOfExpressionInLine, m

\* f is the sum of first and the terms after it.
IsSum(f, from, to, first, term) ==
  f = [i \in from..to |-> IF i = from THEN first ELSE f[i - 1] + term[i]]

LEMMA SumExists ==
  ASSUME NEW from \in Int, NEW to \in Int, NEW first, NEW term
  PROVE  \E f : IsSum(f, from, to, first, term)
<1> DEFINE c == [from |-> from, first |-> first, term |-> term]
           g == SumRec!Recursive(c, from, to)
<1>1. c.from = from /\ c.first = first /\ c.term = term
  OBVIOUS
<1> HIDE DEF c
<1>2. ASSUME NEW i \in from..to, NEW u, NEW v, SumRec!AgreeBelow(u, v, from, i)
      PROVE  SumStep(c, u, i) = SumStep(c, v, i)
  <2>1. i # from => i - 1 \in from..i - 1
    OBVIOUS
  <2> QED
    BY <1>1, <1>2, <2>1 DEF SumStep, SumRec!AgreeBelow
<1>3. SumRec!Solves(g, c, from, to)
  BY <1>2, SumRec!Recursion
<1> HIDE DEF g
<1>4. g = [i \in from..to |-> SumStep(c, g, i)]
  BY <1>3 DEF SumRec!Solves
<1>5. g = [i \in from..to |-> IF i = from THEN first ELSE g[i - 1] + term[i]]
  BY <1>1, <1>4 DEF SumStep
<1> QED
  BY <1>5 DEF IsSum

\* Two such sums agree as far as both go.
LEMMA SumUnique ==
  ASSUME NEW from \in Int, NEW to \in Int, NEW f, NEW g, f[from] = g[from], NEW term,
         \A i \in from + 1..to : f[i] = f[i - 1] + term[i] /\ g[i] = g[i - 1] + term[i]
  PROVE  \A i \in from..to : f[i] = g[i]
<1> DEFINE S == {i \in from..to : f[i] = g[i]}
<1>1. from <= to => from \in S
  OBVIOUS
<1>2. \A i \in from + 1..to : i - 1 \in S => i \in S
  OBVIOUS
<1> HIDE DEF S
<1>3. from..to \subseteq S
  BY <1>1, <1>2, IntervalInduction
<1> QED
  BY <1>3 DEF S

\* From above zero to zero or below it goes through a bracket that makes it zero.
LEMMA Crossing ==
  ASSUME NEW t, NEW from \in Nat \ {0}, NEW d \in Int, NEW a, NEW e,
         NEW i \in Nat, NEW k \in Nat, i <= k,
         DepthAt(t, from, i, d, a, e) > 0, DepthAt(t, from, k, d, a, e) <= 0
  PROVE  \E q \in i + 1..k : t[q] = e /\ DepthAt(t, from, q, d, a, e) = 0
<1> DEFINE D(j) == DepthAt(t, from, j, d, a, e)
           S == {j \in i..k : D(j) <= 0}
<1>1. S \in SUBSET (i..k) /\ S # {} /\ i \in Int /\ k \in Int
  OBVIOUS
<1> DEFINE q == Min(S)
<1>2. q \in S /\ (\A j \in S : q <= j) /\ q \in i..k
  <2> HIDE DEF S
  <2> QED
    BY <1>1, MinMaxInterval
<1> HIDE DEF q
<1>3. D(q) <= 0 /\ q # i /\ q \in Nat \ {0} /\ q - 1 \in i..k /\ q - 1 \notin S
  <2>1. D(q) <= 0 /\ D(i) \in Int /\ ~(D(i) <= 0)
    BY <1>2, DepthType
  <2>2. q # i
    BY <2>1
  <2>3. \A j \in S : q <= j
    BY <1>2
  <2> HIDE DEF S, D
  <2>4. q - 1 \notin S
    BY <1>2, <2>3
  <2> QED
    BY <1>2, <2>1, <2>2, <2>4
<1>4. ~(D(q - 1) <= 0)
  BY <1>3
<1>5. D(q) = D(q - 1) + (IF t[q] = a THEN 1 ELSE 0) - (IF t[q] = e THEN 1 ELSE 0)
      /\ D(q) \in Int /\ D(q - 1) \in Int
  BY <1>3, DepthNext, DepthType
<1> HIDE DEF D
<1>6. t[q] = e /\ D(q) = 0
  BY <1>3, <1>4, <1>5
<1> QED
  BY <1>2, <1>3, <1>6 DEF D

\* From zero to above zero it goes through an opening bracket.
LEMMA Rising ==
  ASSUME NEW t, NEW from \in Nat \ {0}, NEW d \in Int, NEW a, NEW e,
         NEW i \in Nat, NEW k \in Nat, i <= k,
         DepthAt(t, from, i, d, a, e) <= 0, DepthAt(t, from, k, d, a, e) > 0
  PROVE  \E q \in i + 1..k : t[q] = a
<1> DEFINE D(j) == DepthAt(t, from, j, d, a, e)
           S == {j \in i..k : D(j) > 0}
<1>1. S \in SUBSET (i..k) /\ S # {} /\ i \in Int /\ k \in Int
  OBVIOUS
<1> DEFINE q == Min(S)
<1>2. q \in S /\ (\A j \in S : q <= j) /\ q \in i..k
  <2> HIDE DEF S
  <2> QED
    BY <1>1, MinMaxInterval
<1> HIDE DEF q
<1>3. D(q) > 0 /\ q # i /\ q \in Nat \ {0} /\ q - 1 \in i..k /\ q - 1 \notin S
  <2>1. D(q) > 0 /\ D(i) \in Int /\ ~(D(i) > 0)
    BY <1>2, DepthType
  <2>2. q # i
    BY <2>1
  <2>3. \A j \in S : q <= j
    BY <1>2
  <2> HIDE DEF S, D
  <2>4. q - 1 \notin S
    BY <1>2, <2>3
  <2> QED
    BY <1>2, <2>1, <2>2, <2>4
<1>4. ~(D(q - 1) > 0)
  BY <1>3
<1>5. D(q) = D(q - 1) + (IF t[q] = a THEN 1 ELSE 0) - (IF t[q] = e THEN 1 ELSE 0)
      /\ D(q) \in Int /\ D(q - 1) \in Int
  BY <1>3, DepthNext, DepthType
<1> HIDE DEF D
<1>6. t[q] = a
  BY <1>3, <1>4, <1>5
<1> QED
  BY <1>2, <1>3, <1>6

\* Counting in a part of a text.
LEMMA CountPart ==
  ASSUME NEW S, NEW t \in Seq(S), NEW p \in 1..Len(t) + 1, NEW q \in p - 1..Len(t), NEW y
  PROVE  Count(SubSeq(t, p, q), y) = CountTo(t, y, q) - CountTo(t, y, p - 1)
<1> DEFINE s == SubSeq(t, p, q)
           m == q - p + 1
           U == {k \in 0..m : CountTo(s, y, k) = CountTo(t, y, p - 1 + k) - CountTo(t, y, p - 1)}
<1>1. m \in Nat /\ Len(s) = m
  OBVIOUS
<1>2. \A k \in 1..m : s[k] = t[p - 1 + k]
  OBVIOUS
<1> HIDE DEF s
<1>3. 0 \in U
  <2>1. CountTo(s, y, 0) = 0 /\ p - 1 + 0 = p - 1 /\ p - 1 \in Int
    BY CountNone
  <2>2. CountTo(t, y, p - 1) \in Nat
    BY <2>1, CountToType
  <2> QED
    BY <1>1, <2>1, <2>2
<1>4. ASSUME NEW k \in 0 + 1..m, k - 1 \in U PROVE k \in U
  <2>1. k \in Nat \ {0} /\ p - 1 + k \in Nat \ {0} /\ (p - 1 + k) - 1 = p - 1 + (k - 1)
    BY <1>1
  <2>2. CountTo(s, y, k) = CountTo(s, y, k - 1) + IF s[k] = y THEN 1 ELSE 0
    BY <2>1, CountNext
  <2>3. CountTo(t, y, p - 1 + k) = CountTo(t, y, p - 1 + (k - 1))
                                   + IF t[p - 1 + k] = y THEN 1 ELSE 0
    BY <2>1, CountNext
  <2>4. CountTo(t, y, p - 1) \in Nat /\ CountTo(t, y, p - 1 + (k - 1)) \in Nat
    <3>1. p - 1 \in Int /\ p - 1 + (k - 1) \in Int
      OBVIOUS
    <3> QED
      BY <3>1, CountToType
  <2>5. s[k] = t[p - 1 + k]
    BY <1>2, <2>1
  <2> QED
    BY <1>4, <2>2, <2>3, <2>4, <2>5
<1>5. 0..m \subseteq U
  <2>1. 0 \in Int /\ m \in Int
    BY <1>1
  <2> HIDE DEF U, m
  <2> QED
    BY <1>3, <1>4, <2>1, IntervalInduction
<1>6. m \in U /\ p - 1 + m = q
  BY <1>1, <1>5
<1>7. Count(s, y) = CountTo(t, y, q) - CountTo(t, y, p - 1)
  BY <1>1, <1>6, CountIsCountTo
<1> QED
  BY <1>7 DEF s

LEMMA SumType ==
  ASSUME NEW from \in Int, NEW to \in Int, NEW first \in Int, NEW term,
         \A i \in from..to : term[i] \in Int, NEW f, IsSum(f, from, to, first, term)
  PROVE  \A i \in from..to : f[i] \in Int
<1> DEFINE S == {i \in from..to : f[i] \in Int}
<1>1. from <= to => from \in S
  BY DEF IsSum
<1>2. ASSUME NEW i \in from + 1..to, i - 1 \in S PROVE i \in S
  <2>1. i \in from..to /\ i # from /\ term[i] \in Int
    OBVIOUS
  <2>2. f[i] = f[i - 1] + term[i]
    BY <2>1 DEF IsSum
  <2> QED
    BY <1>2, <2>1, <2>2
<1> HIDE DEF S
<1>3. from..to \subseteq S
  BY <1>1, <1>2, IntervalInduction
<1> QED
  BY <1>3 DEF S

LEMMA CountInt == ASSUME NEW S, NEW t \in Seq(S), NEW y PROVE Count(t, y) \in Int
<1>1. Len(t) \in Int
  OBVIOUS
<1> QED
  BY <1>1, CountIsCountTo, CountToType

\* What a line opens of a and closes.
Net(t, a) == Count(t, a) - Count(t, Closing(a))

\* open[i] brackets of the kind at (l, p) are open after line i.
OpenAfter(cl, n, l, p, open) ==
  LET a == cl[l].elided[p]
  IN /\ \A i \in l..n : open[i] \in Int
     /\ open[l] = Net(From(cl[l].elided, p), a)
     /\ \A i \in l + 1..n : open[i] = open[i - 1] + Net(cl[i].elided, a)

\* Where CloseExpression stops, then.
Stop(cl, n, l, p, open) ==
  LET a == cl[l].elided[p]
      here == FindEndOfExpressionInLine(cl[l].elided, p, 0, a, Closing(a))
      closed == {i \in l + 1..n : open[i] <= 0}
  IN CASE here > 0 -> [linenum |-> l, pos |-> here]
       [] here = 0 /\ closed = {} -> [linenum |-> n + 1, pos |-> 0]
       [] OTHER ->
            [linenum |-> Min(closed),
             pos |-> FindEndOfExpressionInLine(cl[Min(closed)].elided, 1, open[Min(closed) - 1],
                                               a, Closing(a))]

LEMMA CloseExpressionIs ==
  ASSUME NEW S, NEW n \in Nat, NEW cl, DOMAIN cl = 0..n, \A i \in 0..n : cl[i].elided \in Seq(S),
         NEW l \in 0..n, NEW p \in 1..Len(cl[l].elided)
  PROVE  \E open : OpenAfter(cl, n, l, p, open) /\ CloseExpression(cl, l, p) = Stop(cl, n, l, p, open)
<1> DEFINE line == cl[l].elided
           a == line[p]
           e == Closing(a)
           here == FindEndOfExpressionInLine(line, p, 0, a, e)
           tail == From(line, p)
           first == Count(tail, a) - Count(tail, e)
           term == [i \in l..n |-> Net(cl[i].elided, a)]
           J == CHOOSE f : f = [i \in l..n |->
                  IF i = l THEN Count(tail, a) - Count(tail, e)
                  ELSE f[i - 1] + Count(cl[i].elided, a) - Count(cl[i].elided, e)]
           closed == {i \in l + 1..n : J[i] <= 0}
           result == CASE here > 0 -> [linenum |-> l, pos |-> here]
                       [] here = 0 /\ closed = {} -> [linenum |-> n + 1, pos |-> 0]
                       [] OTHER ->
                            [linenum |-> Min(closed),
                             pos |-> FindEndOfExpressionInLine(cl[Min(closed)].elided, 1,
                                                               J[Min(closed) - 1], a, e)]
<1>1. NumLines(cl) - 1 = n /\ NumLines(cl) = n + 1
  BY NumLinesOf
<1>2. CloseExpression(cl, l, p) = result
  BY <1>1 DEF CloseExpression
<1>3. line \in Seq(S) /\ tail \in Seq(S) /\ \A i \in l..n : cl[i].elided \in Seq(S)
  <2>1. line \in Seq(S) /\ p \in Nat \ {0} /\ \A i \in l..n : cl[i].elided \in Seq(S)
    OBVIOUS
  <2> QED
    BY <2>1, FromType
<1> HIDE DEF result
<1>4. \A i \in l..n : Count(cl[i].elided, a) \in Int /\ Count(cl[i].elided, e) \in Int
                      /\ term[i] = Count(cl[i].elided, a) - Count(cl[i].elided, e)
  BY <1>3, CountInt DEF Net
<1>5. first \in Int
  <2>1. Count(tail, a) \in Int /\ Count(tail, e) \in Int
    BY <1>3, CountInt
  <2> QED
    BY <2>1
<1>6. l \in Int /\ n \in Int
  OBVIOUS
<1> HIDE DEF first, term, a, e, tail
<1>7. PICK g : IsSum(g, l, n, first, term)
  BY <1>6, SumExists
<1>8. \A i \in l..n : term[i] \in Int
  BY <1>4
<1>9. \A i \in l..n : g[i] \in Int
  <2> HIDE DEF first
  <2> QED
    BY <1>5, <1>6, <1>7, <1>8, SumType
<1>10. g = [i \in l..n |-> IF i = l THEN Count(tail, a) - Count(tail, e)
                           ELSE g[i - 1] + Count(cl[i].elided, a) - Count(cl[i].elided, e)]
  <2>1. ASSUME NEW i \in l..n, i # l
        PROVE  g[i - 1] + term[i] = g[i - 1] + Count(cl[i].elided, a) - Count(cl[i].elided, e)
    <3>1. i - 1 \in l..n
      BY <2>1
    <3>2. g[i - 1] \in Int
      BY <1>9, <3>1
    <3> QED
      BY <1>4, <3>2
  <2> QED
    BY <1>7, <2>1 DEF first, IsSum
<1>11. J = [i \in l..n |-> IF i = l THEN Count(tail, a) - Count(tail, e)
                           ELSE J[i - 1] + Count(cl[i].elided, a) - Count(cl[i].elided, e)]
  BY <1>10, Zenon
<1> HIDE DEF J
<1>12. IsSum(J, l, n, first, term)
  <2>1. \A i \in l..n : i = l \/ i - 1 \in l..n
    OBVIOUS
  <2>2. J[l] = first /\ \A i \in l + 1..n : J[i] = J[i - 1] + Count(cl[i].elided, a) - Count(cl[i].elided, e)
    BY <1>11 DEF first
  <2> DEFINE T == {i \in l..n : J[i] \in Int}
  <2>3. l \in T
    BY <1>5, <2>2
  <2>4. ASSUME NEW i \in l + 1..n, i - 1 \in T PROVE i \in T
    <3>1. i \in l..n /\ J[i - 1] \in Int
      BY <2>4
    <3>2. J[i] = J[i - 1] + Count(cl[i].elided, a) - Count(cl[i].elided, e)
      BY <2>2
    <3>3. Count(cl[i].elided, a) \in Int /\ Count(cl[i].elided, e) \in Int
      BY <1>4, <3>1
    <3> QED
      BY <3>1, <3>2, <3>3
  <2>5. l..n \subseteq T
    <3> HIDE DEF T
    <3> QED
      BY <1>6, <2>3, <2>4, IntervalInduction
  <2>6. ASSUME NEW i \in l..n
        PROVE  J[i] = IF i = l THEN first ELSE J[i - 1] + term[i]
    <3>1. CASE i = l
      BY <2>2, <3>1
    <3>2. CASE i # l
      <4>1. i \in l + 1..n /\ i - 1 \in l..n
        BY <3>2
      <4>2. J[i - 1] \in Int
        BY <2>5, <4>1
      <4> QED
        BY <1>4, <2>2, <3>2, <4>1, <4>2
    <3> QED
      BY <3>1, <3>2
  <2> QED
    BY <1>11, <2>6 DEF IsSum
<1>13. \A i \in l..n : J[i] \in Int
  BY <1>5, <1>6, <1>8, <1>12, SumType
<1>14. J[l] = Net(From(line, p), a) /\ \A i \in l + 1..n : J[i] = J[i - 1] + Net(cl[i].elided, a)
  <2>1. l \in l..n /\ \A i \in l + 1..n : i \in l..n /\ i # l
    OBVIOUS
  <2>2. J[l] = first
    BY <1>12, <2>1 DEF IsSum
  <2>3. \A i \in l + 1..n : J[i] = J[i - 1] + term[i]
    BY <1>12, <2>1 DEF IsSum
  <2> QED
    BY <2>1, <2>2, <2>3 DEF first, term, tail, e, Net
<1>15. OpenAfter(cl, n, l, p, J)
  BY <1>13, <1>14 DEF OpenAfter, a
<1>16. result = Stop(cl, n, l, p, J)
  BY DEF result, Stop, a, e
<1> QED
  BY <1>2, <1>15, <1>16

-----------------------------------------------------------------------------
(* Angle brackets.                                                         *)

Less == "<"

Greater == ">"

Comma == ","

Semicolon == ";"

AngleOpeners == {"<", "(", "["}

AngleClosers == {">", ")", "]"}

AngleClosing(a) == IF a = "<" THEN ">" ELSE Closing(a)

Bad == <<"bad">>

LEMMA AngleTokens ==
  /\ Less \in AngleOpeners /\ Greater \in AngleClosers
  /\ AngleOpeners \cap AngleClosers = {}
  /\ Comma \notin AngleOpeners /\ Comma \notin AngleClosers
  /\ \A a \in AngleOpeners : AngleClosing(a) \in AngleClosers /\ (AngleClosing(a) = Greater <=> a = Less)
<1>1. Closing("(") = ")" /\ Closing("[") = "]"
  BY DEF Closing
<1>2. \A a \in AngleOpeners : AngleClosing(a) \in AngleClosers /\ (AngleClosing(a) = Greater <=> a = Less)
  <2> SUFFICES ASSUME NEW a \in AngleOpeners
               PROVE  AngleClosing(a) \in AngleClosers /\ (AngleClosing(a) = Greater <=> a = Less)
    OBVIOUS
  <2>1. CASE a = "<"
    BY <2>1, Zenon DEF AngleOpeners, AngleClosers, AngleClosing, Less, Greater
  <2>2. CASE a = "("
    BY <1>1, <2>2, Zenon DEF AngleOpeners, AngleClosers, AngleClosing, Less, Greater
  <2>3. CASE a = "["
    BY <1>1, <2>3, Zenon DEF AngleOpeners, AngleClosers, AngleClosing, Less, Greater
  <2> QED
    BY <2>1, <2>2, <2>3, Zenon DEF AngleOpeners
<1>3. Less \in AngleOpeners /\ Greater \in AngleClosers
  BY Zenon DEF AngleOpeners, AngleClosers, Less, Greater
<1>4. AngleOpeners \cap AngleClosers = {}
  BY Zenon DEF AngleOpeners, AngleClosers
<1>5. Comma \notin AngleOpeners /\ Comma \notin AngleClosers
  BY Zenon DEF AngleOpeners, AngleClosers, Comma
<1> QED
  BY <1>2, <1>3, <1>4, <1>5

LEMMA BadIsNoStack == Bad # <<>> /\ Bad \notin Seq(AngleClosers)
<1>1. "bad" \notin AngleClosers
  BY Zenon DEF AngleClosers
<1>2. Len(Bad) = 1 /\ Bad[1] = "bad"
  BY DEF Bad
<1>3. Bad \in Seq(AngleClosers) => Bad[1] \in AngleClosers
  BY <1>2
<1> QED
  BY <1>1, <1>2, <1>3

LEMMA BalanceStepIs ==
  ASSUME NEW c, NEW s, NEW x
  PROVE  BalanceStep(c, s, x) =
           IF s = Bad \/ x = Semicolon THEN Bad
           ELSE IF x \in AngleOpeners THEN Append(s, AngleClosing(x))
           ELSE IF x \in AngleClosers THEN IF s # <<>> /\ Last(s) = x THEN Front(s) ELSE Bad
           ELSE s
<1>1. CASE s = <<"bad">> \/ x = ";"
  BY <1>1, Zenon DEF BalanceStep, Bad, Semicolon
<1>2. CASE ~(s = <<"bad">> \/ x = ";") /\ x = "<"
  <2>1. x \in AngleOpeners /\ AngleClosing(x) = ">"
    BY <1>2, Zenon DEF AngleOpeners, AngleClosing
  <2> QED
    BY <1>2, <2>1, Zenon DEF BalanceStep, Bad, Semicolon
<1>3. CASE ~(s = <<"bad">> \/ x = ";") /\ x # "<" /\ x \in {"(", "["}
  <2>1. x \in AngleOpeners /\ AngleClosing(x) = Closing(x)
    BY <1>3, Zenon DEF AngleOpeners, AngleClosing
  <2> QED
    BY <1>3, <2>1, Zenon DEF BalanceStep, Bad, Semicolon
<1>4. CASE ~(s = <<"bad">> \/ x = ";") /\ x # "<" /\ x \notin {"(", "["}
  <2>1. x \notin AngleOpeners
    BY <1>4, Zenon DEF AngleOpeners
  <2> QED
    BY <1>4, <2>1, Zenon DEF BalanceStep, Bad, Semicolon, AngleClosers
<1> QED
  BY <1>1, <1>2, <1>3, <1>4, Zenon

\* The stack goes from a to b at a token x of a balanced text.
BalancedStep(a, b, x) ==
  /\ x # Semicolon
  /\ x \in AngleOpeners => b = Append(a, AngleClosing(x))
  /\ x \in AngleClosers => a = Append(b, x)
  /\ x \notin AngleOpeners \cup AngleClosers => b = a

\* The stacks before and after each token of t.
Stacks(h, t) ==
  /\ h[0] = <<>> /\ h[Len(t)] = <<>>
  /\ \A i \in 0..Len(t) : h[i] \in Seq(AngleClosers)
  /\ \A i \in 1..Len(t) : BalancedStep(h[i - 1], h[i], t[i])

LEMMA FrontLast ==
  ASSUME NEW S, NEW s \in Seq(S), s # <<>>
  PROVE  s = Append(Front(s), Last(s))
<1>1. Front(s) \in Seq(S) /\ Len(Front(s)) = Len(s) - 1
      /\ \A i \in 1..Len(s) - 1 : Front(s)[i] = s[i]
  BY FrontIs
<1>2. Last(s) = s[Len(s)] /\ Last(s) \in S
  BY DEF Last
<1>3. PICK f, l : f = Front(s) /\ l = Last(s)
  OBVIOUS
<1>4. f \in Seq(S) /\ l \in S
  BY <1>1, <1>2, <1>3
<1>5. /\ Append(f, l) \in Seq(S) /\ Len(Append(f, l)) = Len(f) + 1
      /\ Append(f, l)[Len(f) + 1] = l
      /\ \A i \in 1..Len(f) : Append(f, l)[i] = f[i]
  BY <1>4
<1>6. Append(f, l) = s
  BY <1>1, <1>2, <1>3, <1>5
<1> QED
  BY <1>3, <1>6

LEMMA BalanceType ==
  ASSUME NEW s \in Seq(AngleClosers) \cup {Bad}, NEW x
  PROVE  BalanceStep(0, s, x) \in Seq(AngleClosers) \cup {Bad}
<1>1. CASE s = Bad \/ x = Semicolon
  BY <1>1, BalanceStepIs
<1>2. CASE ~(s = Bad \/ x = Semicolon) /\ x \in AngleOpeners
  <2>1. PICK y : y = AngleClosing(x) /\ y \in AngleClosers
    BY <1>2, AngleTokens
  <2>2. Append(s, y) \in Seq(AngleClosers)
    BY <1>2, <2>1
  <2>3. BalanceStep(0, s, x) = Append(s, y)
    BY <1>2, <2>1, BalanceStepIs
  <2> QED
    BY <2>2, <2>3
<1>3. CASE ~(s = Bad \/ x = Semicolon) /\ x \notin AngleOpeners /\ x \in AngleClosers
  <2>1. s \in Seq(AngleClosers) /\ (s # <<>> => Front(s) \in Seq(AngleClosers))
    BY <1>3, FrontIs
  <2> QED
    BY <1>3, <2>1, BalanceStepIs
<1>4. CASE ~(s = Bad \/ x = Semicolon) /\ x \notin AngleOpeners /\ x \notin AngleClosers
  BY <1>4, BalanceStepIs
<1> QED
  BY <1>1, <1>2, <1>3, <1>4

\* What a step that does not fail has done.
LEMMA BalanceStepGood ==
  ASSUME NEW a \in Seq(AngleClosers), NEW x, BalanceStep(0, a, x) # Bad
  PROVE  BalancedStep(a, BalanceStep(0, a, x), x)
<1>1. a # Bad /\ x # Semicolon
  BY BadIsNoStack, BalanceStepIs
<1>2. CASE x \in AngleOpeners
  <2>1. x \notin AngleClosers /\ BalanceStep(0, a, x) = Append(a, AngleClosing(x))
    BY <1>1, <1>2, BalanceStepIs, AngleTokens
  <2> QED
    BY <1>1, <1>2, <2>1 DEF BalancedStep
<1>3. CASE x \in AngleClosers
  <2>1. x \notin AngleOpeners
    BY <1>3, AngleTokens
  <2>2. a # <<>> /\ Last(a) = x /\ BalanceStep(0, a, x) = Front(a)
    BY <1>1, <1>3, <2>1, BalanceStepIs
  <2>3. a = Append(Front(a), x)
    BY <2>2, FrontLast
  <2> QED
    BY <1>1, <1>3, <2>1, <2>2, <2>3 DEF BalancedStep
<1>4. CASE x \notin AngleOpeners /\ x \notin AngleClosers
  BY <1>1, <1>4, BalanceStepIs DEF BalancedStep
<1> QED
  BY <1>2, <1>3, <1>4

LEMMA BalancedStacks ==
  ASSUME NEW S, NEW t \in Seq(S), BalanceFold!Fold(0, <<>>, t) = <<>>
  PROVE  \E h : Stacks(h, t)
<1> DEFINE n == Len(t)
<1>1. n \in Nat /\ DOMAIN t = 1..n
  OBVIOUS
<1>2. PICK h : BalanceFold!Runs(h, 0, <<>>, t, n) /\ h[n] = BalanceFold!Fold(0, <<>>, t)
  BY <1>1, BalanceFold!FoldSteps
<1> HIDE DEF n
<1>3. h[0] = <<>> /\ h[n] = <<>> /\ \A i \in 1..n : h[i] = BalanceStep(0, h[i - 1], t[i])
  BY <1>2 DEF BalanceFold!Runs
<1> DEFINE Typed == {i \in 0..n : h[i] \in Seq(AngleClosers) \cup {Bad}}
           Fine == {i \in 0..n : h[i] # Bad}
<1>4. 0 \in Typed
  <2>1. 0 \in 0..n /\ <<>> \in Seq(AngleClosers)
    BY <1>1
  <2> QED
    BY <1>3, <2>1
<1>5. ASSUME NEW i \in 0 + 1..n, i - 1 \in Typed PROVE i \in Typed
  <2>1. i \in 0..n /\ i \in 1..n
    BY <1>1
  <2>2. h[i - 1] \in Seq(AngleClosers) \cup {Bad}
    BY <1>5
  <2>3. h[i] = BalanceStep(0, h[i - 1], t[i])
    BY <1>3, <2>1
  <2>4. h[i] \in Seq(AngleClosers) \cup {Bad}
    BY <2>2, <2>3, BalanceType
  <2> QED
    BY <2>1, <2>4
<1>6. 0..n \subseteq Typed
  <2>1. 0 \in Int /\ n \in Int
    BY <1>1
  <2> HIDE DEF Typed
  <2> QED
    BY <1>4, <1>5, <2>1, IntervalInduction
<1>7. n \in Fine
  BY <1>1, <1>3, BadIsNoStack
<1>8. \A i \in 0..n - 1 : i + 1 \in Fine => i \in Fine
  <2> SUFFICES ASSUME NEW i \in 0..n - 1, h[i + 1] # Bad PROVE h[i] # Bad /\ i \in 0..n
    OBVIOUS
  <2>1. i + 1 \in 1..n /\ (i + 1) - 1 = i /\ i \in 0..n
    BY <1>1
  <2>2. h[i + 1] = BalanceStep(0, h[i], t[i + 1])
    BY <1>3, <2>1
  <2> QED
    BY <2>1, <2>2, BalanceStepIs
<1>9. 0..n \subseteq Fine
  <2>1. 0 \in Int /\ n \in Int
    BY <1>1
  <2> HIDE DEF Fine
  <2> QED
    BY <1>7, <1>8, <2>1, DownwardInduction
<1>10. \A i \in 0..n : h[i] \in Seq(AngleClosers) /\ h[i] # Bad
  BY <1>6, <1>9
<1>11. ASSUME NEW i \in 1..n PROVE BalancedStep(h[i - 1], h[i], t[i])
  <2>1. i - 1 \in 0..n /\ i \in 0..n
    BY <1>1
  <2>2. h[i - 1] \in Seq(AngleClosers) /\ h[i] = BalanceStep(0, h[i - 1], t[i]) /\ h[i] # Bad
    BY <1>3, <1>10, <2>1
  <2> QED
    BY <2>2, BalanceStepGood
<1>12. Stacks(h, t)
  BY <1>3, <1>10, <1>11 DEF Stacks, n
<1> QED
  BY <1>12

LEMMA SearchingIs ==
  ASSUME NEW s, NEW x
  PROVE  Searching(s, x) <=>
           s.verdict = "open" /\ (x \in AngleOpeners \cup AngleClosers \/ x \in {Comma, Semicolon})
BY Zenon DEF Searching, AngleOpeners, AngleClosers, Comma, Semicolon

LEMMA AngleStepIs ==
  ASSUME NEW s, NEW x, NEW open, NEW close, NEW opening, NEW closing,
         close \notin opening, opening \cap closing = {}
  PROVE  AngleStep(s, x, open, close, opening, closing) =
           IF ~Searching(s, x) THEN s
           ELSE IF x \in opening THEN [s EXCEPT !.stack = Append(@, x)]
           ELSE IF Last(s.stack) = open /\ x = close
                THEN [stack |-> Front(s.stack),
                      verdict |-> IF Len(s.stack) = 1 THEN "matched" ELSE "open"]
           ELSE IF Last(s.stack) = open
                THEN [s EXCEPT !.verdict = IF x = Comma THEN "matched" ELSE "unmatched"]
           ELSE IF x \in closing THEN [s EXCEPT !.stack = Front(@)]
           ELSE s
<1> DEFINE push == [s EXCEPT !.stack = Append(@, x)]
           pop == [stack |-> Front(s.stack),
                   verdict |-> IF Len(s.stack) = 1 THEN "matched" ELSE "open"]
           stop == [s EXCEPT !.verdict = IF x = "," THEN "matched" ELSE "unmatched"]
           shut == [s EXCEPT !.stack = Front(@)]
           top == Last(s.stack)
<1>1. AngleStep(s, x, open, close, opening, closing) =
        IF ~Searching(s, x) THEN s
        ELSE CASE x \in opening -> push
               [] top = open /\ x = close -> pop
               [] top = open /\ x \notin opening \cup {close} -> stop
               [] top # open /\ x \in closing -> shut
               [] OTHER -> s
  BY Zenon DEF AngleStep
<1>2. stop = [s EXCEPT !.verdict = IF x = Comma THEN "matched" ELSE "unmatched"]
  BY Zenon DEF Comma
<1> HIDE DEF push, pop, stop, shut, top
<1>3. AngleStep(s, x, open, close, opening, closing) =
        IF ~Searching(s, x) THEN s
        ELSE IF x \in opening THEN push
        ELSE IF top = open /\ x = close THEN pop
        ELSE IF top = open THEN stop
        ELSE IF x \in closing THEN shut
        ELSE s
  BY <1>1
<1> QED
  BY <1>2, <1>3, Zenon DEF push, pop, shut, top

LEMMA NextAngleStepIs ==
  ASSUME NEW s, NEW x
  PROVE  NextAngleStep(0, s, x) =
           IF ~Searching(s, x) THEN s
           ELSE IF x \in AngleOpeners THEN [s EXCEPT !.stack = Append(@, x)]
           ELSE IF Last(s.stack) = Less /\ x = Greater
                THEN [stack |-> Front(s.stack),
                      verdict |-> IF Len(s.stack) = 1 THEN "matched" ELSE "open"]
           ELSE IF Last(s.stack) = Less
                THEN [s EXCEPT !.verdict = IF x = Comma THEN "matched" ELSE "unmatched"]
           ELSE IF x \in AngleClosers \ {Greater} THEN [s EXCEPT !.stack = Front(@)]
           ELSE s
<1>1. NextAngleStep(0, s, x) =
        AngleStep(s, x, Less, Greater, AngleOpeners, AngleClosers \ {Greater})
  <2>1. {")", "]"} = AngleClosers \ {Greater}
    BY Zenon DEF AngleClosers, Greater
  <2> QED
    BY <2>1, Zenon DEF NextAngleStep, Less, Greater, AngleOpeners
<1>2. Greater \notin AngleOpeners /\ AngleOpeners \cap (AngleClosers \ {Greater}) = {}
  BY AngleTokens
<1> QED
  BY <1>1, <1>2, AngleStepIs

LEMMA PreviousAngleStepIs ==
  ASSUME NEW s, NEW x
  PROVE  PreviousAngleStep(0, s, x) =
           IF ~Searching(s, x) THEN s
           ELSE IF x \in AngleClosers THEN [s EXCEPT !.stack = Append(@, x)]
           ELSE IF Last(s.stack) = Greater /\ x = Less
                THEN [stack |-> Front(s.stack),
                      verdict |-> IF Len(s.stack) = 1 THEN "matched" ELSE "open"]
           ELSE IF Last(s.stack) = Greater
                THEN [s EXCEPT !.verdict = IF x = Comma THEN "matched" ELSE "unmatched"]
           ELSE IF x \in AngleOpeners \ {Less} THEN [s EXCEPT !.stack = Front(@)]
           ELSE s
<1>1. PreviousAngleStep(0, s, x) =
        AngleStep(s, x, Greater, Less, AngleClosers, AngleOpeners \ {Less})
  <2>1. {"(", "["} = AngleOpeners \ {Less}
    BY Zenon DEF AngleOpeners, Less
  <2> QED
    BY <2>1, Zenon DEF PreviousAngleStep, Less, Greater, AngleClosers
<1>2. Less \notin AngleClosers /\ AngleClosers \cap (AngleOpeners \ {Less}) = {}
  BY AngleTokens
<1> QED
  BY <1>1, <1>2, AngleStepIs

-----------------------------------------------------------------------------
(* The search forwards: its stack holds what has been opened above the     *)
(* first m brackets of the text's own stack, `tall`, which expects what    *)
(* closes them.                                                            *)

SeeksNext(tall, m) ==
  {s \in [stack : Seq(AngleOpeners), verdict : {"open", "matched"}] :
     s.verdict = "open" =>
       /\ s.stack # <<>> /\ s.stack[1] = Less
       /\ Len(tall) = m + Len(s.stack)
       /\ \A j \in 1..Len(s.stack) : tall[m + j] = AngleClosing(s.stack[j])}

LEMMA AppendIs ==
  ASSUME NEW S, NEW s \in Seq(S), NEW x \in S
  PROVE  /\ Append(s, x) \in Seq(S) /\ Append(s, x) # <<>> /\ Len(Append(s, x)) = Len(s) + 1
         /\ Append(s, x)[Len(s) + 1] = x
         /\ \A i \in 1..Len(s) : Append(s, x)[i] = s[i]
OBVIOUS

LEMMA SeeksNextKept ==
  ASSUME NEW m \in Nat, NEW a \in Seq(AngleClosers), NEW b \in Seq(AngleClosers), NEW x,
         BalancedStep(a, b, x), NEW s \in SeeksNext(a, m)
  PROVE  NextAngleStep(0, s, x) \in SeeksNext(b, m)
<1> DEFINE next == NextAngleStep(0, s, x)
           k == Len(s.stack)
           State == [stack : Seq(AngleOpeners), verdict : {"open", "matched"}]
<1>1. /\ s \in State /\ s.stack \in Seq(AngleOpeners) /\ s.verdict \in {"open", "matched"}
      /\ s.verdict = "open" => /\ s.stack # <<>> /\ s.stack[1] = Less
                               /\ Len(a) = m + k
                               /\ \A j \in 1..k : a[m + j] = AngleClosing(s.stack[j])
  BY DEF SeeksNext
<1>2. k \in Nat
  BY <1>1
<1> HIDE DEF next
<1>3. CASE s.verdict # "open"
  <2>1. next = s
    BY <1>3, NextAngleStepIs, SearchingIs DEF next
  <2> QED
    BY <1>1, <1>3, <2>1 DEF SeeksNext, next
<1>4. CASE s.verdict = "open" /\ x \in AngleOpeners
  <2>1. next = [s EXCEPT !.stack = Append(@, x)]
    BY <1>4, NextAngleStepIs, SearchingIs DEF next
  <2>2. PICK y : y = AngleClosing(x) /\ y \in AngleClosers
    BY <1>4, AngleTokens
  <2>3. b = Append(a, y)
    BY <1>4, <2>2 DEF BalancedStep
  <2>4. /\ Len(b) = Len(a) + 1 /\ b[Len(a) + 1] = y
        /\ \A i \in 1..Len(a) : b[i] = a[i]
    BY <2>2, <2>3, AppendIs
  <2>5. PICK p : p = Append(s.stack, x)
    OBVIOUS
  <2>6. /\ p \in Seq(AngleOpeners) /\ p # <<>> /\ Len(p) = k + 1 /\ p[k + 1] = x
        /\ \A i \in 1..k : p[i] = s.stack[i]
    <3>1. PICK q : q = s.stack
      OBVIOUS
    <3>2. q \in Seq(AngleOpeners) /\ x \in AngleOpeners /\ p = Append(q, x) /\ k = Len(q)
      BY <1>1, <1>4, <2>5, <3>1
    <3> HIDE DEF k
    <3>3. /\ p \in Seq(AngleOpeners) /\ p # <<>> /\ Len(p) = k + 1 /\ p[k + 1] = x
          /\ \A i \in 1..k : p[i] = q[i]
      BY <3>2, AppendIs
    <3> QED
      BY <3>1, <3>3
  <2>7. next \in State /\ next.stack = p /\ next.verdict = "open"
    BY <1>1, <1>4, <2>1, <2>5, <2>6
  <2>8. p[1] = Less /\ Len(b) = m + Len(p)
    <3>1. 1 \in 1..k /\ s.stack[1] = Less /\ Len(a) = m + k
      BY <1>1, <1>2, <1>4
    <3> QED
      BY <1>2, <2>4, <2>6, <3>1
  <2>9. ASSUME NEW j \in 1..Len(p) PROVE b[m + j] = AngleClosing(p[j])
    <3>1. CASE j = k + 1
      <4>1. m + j = Len(a) + 1
        <5>1. Len(a) = m + k
          BY <1>1, <1>4
        <5> QED
          BY <1>2, <3>1, <5>1
      <4> QED
        BY <2>2, <2>4, <2>6, <3>1, <4>1
    <3>2. CASE j # k + 1
      <4>1. j \in 1..k /\ m + j \in 1..Len(a)
        BY <1>1, <1>2, <1>4, <2>6, <3>2
      <4> QED
        BY <1>1, <1>4, <2>4, <2>6, <4>1
    <3> QED
      BY <3>1, <3>2
  <2> QED
    BY <2>6, <2>7, <2>8, <2>9 DEF SeeksNext, next
<1>5. CASE s.verdict = "open" /\ x \in AngleClosers
  <2>1. a = Append(b, x) /\ Len(a) = Len(b) + 1 /\ a[Len(a)] = x /\ \A i \in 1..Len(b) : a[i] = b[i]
    <3>1. a = Append(b, x)
      BY <1>5 DEF BalancedStep
    <3> QED
      BY <1>5, <3>1, AppendIs
  <2>2. k \in 1..k /\ a[m + k] = AngleClosing(Last(s.stack)) /\ Last(s.stack) \in AngleOpeners
    BY <1>1, <1>2, <1>5 DEF Last
  <2>3. AngleClosing(Last(s.stack)) = x
    BY <1>1, <1>2, <1>5, <2>1, <2>2
  <2>4. x = Greater <=> Last(s.stack) = Less
    BY <2>2, <2>3, AngleTokens
  <2>5. x \notin AngleOpeners
    BY <1>5, AngleTokens
  <2>6. PICK p : p = Front(s.stack)
    OBVIOUS
  <2>7. p \in Seq(AngleOpeners) /\ Len(p) = k - 1 /\ \A i \in 1..k - 1 : p[i] = s.stack[i]
    BY <1>1, <1>5, <2>6, FrontIs
  <2>8. k = 1 => x = Greater
    BY <1>1, <1>5, <2>4 DEF Last
  <2>9. next = [stack |-> p, verdict |-> IF k = 1 THEN "matched" ELSE "open"]
    <3>1. Searching(s, x)
      BY <1>5, SearchingIs
    <3>2. CASE x = Greater
      BY <2>4, <2>5, <2>6, <3>1, <3>2, NextAngleStepIs DEF next
    <3>3. CASE x # Greater
      <4>1. next = [s EXCEPT !.stack = p]
        BY <1>5, <2>4, <2>5, <2>6, <3>1, <3>3, NextAngleStepIs DEF next
      <4> QED
        BY <1>1, <1>5, <2>8, <3>3, <4>1
    <3> QED
      BY <3>2, <3>3
  <2>10. next \in State
    BY <2>7, <2>9
  <2>11. ASSUME k # 1
         PROVE  /\ p # <<>> /\ p[1] = Less /\ Len(b) = m + Len(p)
                /\ \A j \in 1..Len(p) : b[m + j] = AngleClosing(p[j])
    <3>1. k > 1 /\ 1 \in 1..k - 1
      <4>1. k >= 1
        BY <1>2, <2>2
      <4> HIDE DEF k
      <4> QED
        BY <1>2, <2>11, <4>1
    <3>2. p # <<>> /\ p[1] = Less /\ Len(b) = m + Len(p)
      BY <1>1, <1>2, <1>5, <2>1, <2>7, <3>1
    <3>3. ASSUME NEW j \in 1..Len(p) PROVE b[m + j] = AngleClosing(p[j])
      <4>1. j \in 1..k /\ j \in 1..k - 1 /\ m + j \in 1..Len(b)
        BY <1>2, <2>7, <3>2
      <4> QED
        BY <1>1, <1>5, <2>1, <2>7, <4>1
    <3> QED
      BY <3>2, <3>3
  <2> QED
    BY <2>9, <2>10, <2>11 DEF SeeksNext, next
<1>6. CASE s.verdict = "open" /\ x \notin AngleOpeners /\ x \notin AngleClosers
  <2>1. b = a /\ x # Semicolon
    BY <1>6 DEF BalancedStep
  <2>2. x # Greater /\ x \notin AngleClosers \ {Greater}
    BY <1>6, AngleTokens
  <2>3. next = s \/ next = [s EXCEPT !.verdict = "matched"]
    <3>1. Searching(s, x) => x = Comma
      BY <1>6, <2>1, SearchingIs
    <3> QED
      BY <1>6, <2>2, <3>1, NextAngleStepIs DEF next
  <2>4. next = [s EXCEPT !.verdict = "matched"] => next \in State /\ next.verdict = "matched"
    BY <1>1
  <2> QED
    BY <1>1, <2>1, <2>3, <2>4 DEF SeeksNext, next
<1> QED
  BY <1>3, <1>4, <1>5, <1>6

(* The search backwards: its stack holds what closes behind it, which the  *)
(* text's own stack, `tall`, expects above its first m brackets.           *)

SeeksPrevious(tall, m) ==
  {s \in [stack : Seq(AngleClosers), verdict : {"open", "matched"}] :
     s.verdict = "open" =>
       /\ s.stack # <<>> /\ s.stack[1] = Greater
       /\ Len(tall) = m + Len(s.stack)
       /\ \A j \in 1..Len(s.stack) : tall[m + j] = s.stack[j]}

LEMMA SeeksPreviousKept ==
  ASSUME NEW m \in Nat, NEW a \in Seq(AngleClosers), NEW b \in Seq(AngleClosers), NEW x,
         BalancedStep(a, b, x), NEW s \in SeeksPrevious(b, m)
  PROVE  PreviousAngleStep(0, s, x) \in SeeksPrevious(a, m)
<1> DEFINE next == PreviousAngleStep(0, s, x)
           k == Len(s.stack)
           State == [stack : Seq(AngleClosers), verdict : {"open", "matched"}]
<1>1. /\ s \in State /\ s.stack \in Seq(AngleClosers) /\ s.verdict \in {"open", "matched"}
      /\ s.verdict = "open" => /\ s.stack # <<>> /\ s.stack[1] = Greater
                               /\ Len(b) = m + k
                               /\ \A j \in 1..k : b[m + j] = s.stack[j]
  BY DEF SeeksPrevious
<1>2. k \in Nat
  BY <1>1
<1> HIDE DEF next
<1>3. CASE s.verdict # "open"
  <2>1. next = s
    BY <1>3, PreviousAngleStepIs, SearchingIs DEF next
  <2> QED
    BY <1>1, <1>3, <2>1 DEF SeeksPrevious, next
<1>4. CASE s.verdict = "open" /\ x \in AngleClosers
  <2>1. next = [s EXCEPT !.stack = Append(@, x)]
    BY <1>4, PreviousAngleStepIs, SearchingIs DEF next
  <2>2. a = Append(b, x)
    BY <1>4 DEF BalancedStep
  <2>3. /\ Len(a) = Len(b) + 1 /\ a[Len(b) + 1] = x
        /\ \A i \in 1..Len(b) : a[i] = b[i]
    BY <1>4, <2>2, AppendIs
  <2>4. PICK p : p = Append(s.stack, x)
    OBVIOUS
  <2>5. /\ p \in Seq(AngleClosers) /\ p # <<>> /\ Len(p) = k + 1 /\ p[k + 1] = x
        /\ \A i \in 1..k : p[i] = s.stack[i]
    BY <1>1, <1>4, <2>4, AppendIs
  <2>6. next \in State /\ next.stack = p /\ next.verdict = "open"
    BY <1>1, <1>4, <2>1, <2>4, <2>5
  <2>7. p[1] = Greater /\ Len(a) = m + Len(p)
    <3>1. 1 \in 1..k /\ s.stack[1] = Greater /\ Len(b) = m + k
      BY <1>1, <1>2, <1>4
    <3> QED
      BY <1>2, <2>3, <2>5, <3>1
  <2>8. ASSUME NEW j \in 1..Len(p) PROVE a[m + j] = p[j]
    <3>1. CASE j = k + 1
      <4>1. m + j = Len(b) + 1
        BY <1>1, <1>2, <1>4, <3>1
      <4> QED
        BY <2>3, <2>5, <3>1, <4>1
    <3>2. CASE j # k + 1
      <4>1. j \in 1..k /\ m + j \in 1..Len(b)
        BY <1>1, <1>2, <1>4, <2>5, <3>2
      <4> QED
        BY <1>1, <1>4, <2>3, <2>5, <4>1
    <3> QED
      BY <3>1, <3>2
  <2> QED
    BY <2>5, <2>6, <2>7, <2>8 DEF SeeksPrevious, next
<1>5. CASE s.verdict = "open" /\ x \in AngleOpeners
  <2>1. PICK y : y = AngleClosing(x) /\ y \in AngleClosers /\ (y = Greater <=> x = Less)
    BY <1>5, AngleTokens
  <2>2. b = Append(a, y) /\ Len(b) = Len(a) + 1 /\ b[Len(b)] = y /\ \A i \in 1..Len(a) : b[i] = a[i]
    <3>1. b = Append(a, y)
      BY <1>5, <2>1 DEF BalancedStep
    <3> QED
      BY <2>1, <3>1, AppendIs
  <2>3. k \in 1..k /\ b[m + k] = Last(s.stack)
    BY <1>1, <1>2, <1>5 DEF Last
  <2>4. Last(s.stack) = y
    BY <1>1, <1>2, <1>5, <2>2, <2>3
  <2>5. x \notin AngleClosers
    BY <1>5, AngleTokens
  <2>6. PICK p : p = Front(s.stack)
    OBVIOUS
  <2>7. p \in Seq(AngleClosers) /\ Len(p) = k - 1 /\ \A i \in 1..k - 1 : p[i] = s.stack[i]
    BY <1>1, <1>5, <2>6, FrontIs
  <2>8. k = 1 => x = Less
    BY <1>1, <1>5, <2>1, <2>4 DEF Last
  <2>9. next = [stack |-> p, verdict |-> IF k = 1 THEN "matched" ELSE "open"]
    <3>1. Searching(s, x)
      BY <1>5, SearchingIs
    <3>2. CASE x = Less
      BY <2>1, <2>4, <2>5, <2>6, <3>1, <3>2, PreviousAngleStepIs DEF next
    <3>3. CASE x # Less
      <4>1. next = [s EXCEPT !.stack = p]
        BY <1>5, <2>1, <2>4, <2>5, <2>6, <3>1, <3>3, PreviousAngleStepIs DEF next
      <4> QED
        BY <1>1, <1>5, <2>8, <3>3, <4>1
    <3> QED
      BY <3>2, <3>3
  <2>10. next \in State
    BY <2>7, <2>9
  <2>11. ASSUME k # 1
         PROVE  /\ p # <<>> /\ p[1] = Greater /\ Len(a) = m + Len(p)
                /\ \A j \in 1..Len(p) : a[m + j] = p[j]
    <3>1. k > 1 /\ 1 \in 1..k - 1
      <4>1. k >= 1
        BY <1>2, <2>3
      <4> HIDE DEF k
      <4> QED
        BY <1>2, <2>11, <4>1
    <3>2. p # <<>> /\ p[1] = Greater /\ Len(a) = m + Len(p)
      BY <1>1, <1>2, <1>5, <2>2, <2>7, <3>1
    <3>3. ASSUME NEW j \in 1..Len(p) PROVE a[m + j] = p[j]
      <4>1. j \in 1..k /\ j \in 1..k - 1 /\ m + j \in 1..Len(a)
        BY <1>2, <2>7, <3>2
      <4> QED
        BY <1>1, <1>5, <2>2, <2>7, <4>1
    <3> QED
      BY <3>2, <3>3
  <2> QED
    BY <2>9, <2>10, <2>11 DEF SeeksPrevious, next
<1>6. CASE s.verdict = "open" /\ x \notin AngleOpeners /\ x \notin AngleClosers
  <2>1. b = a /\ x # Semicolon
    BY <1>6 DEF BalancedStep
  <2>2. x # Less /\ x \notin AngleOpeners \ {Less}
    BY <1>6, AngleTokens
  <2>3. next = s \/ next = [s EXCEPT !.verdict = "matched"]
    <3>1. Searching(s, x) => x = Comma
      BY <1>6, <2>1, SearchingIs
    <3> QED
      BY <1>6, <2>2, <3>1, PreviousAngleStepIs DEF next
  <2>4. next = [s EXCEPT !.verdict = "matched"] => next \in State /\ next.verdict = "matched"
    BY <1>1
  <2> QED
    BY <1>1, <2>1, <2>3, <2>4 DEF SeeksPrevious, next
<1> QED
  BY <1>3, <1>4, <1>5, <1>6

-----------------------------------------------------------------------------
(* On a balanced text both searches find what they look for.               *)

\* What a search has found it keeps.
LEMMA MatchedStays ==
  ASSUME NEW s, s.verdict = "matched", NEW x
  PROVE  NextAngleStep(0, s, x) = s /\ PreviousAngleStep(0, s, x) = s
BY NextAngleStepIs, PreviousAngleStepIs, SearchingIs

LEMMA NextMatched ==
  ASSUME NEW S, NEW t \in Seq(S), BalanceFold!Fold(0, <<>>, t) = <<>>,
         NEW p \in 1..Len(t), t[p] = Less,
         NEW N \in Nat, NEW u, DOMAIN u = 1..N, Len(t) - p <= N,
         \A i \in 1..Len(t) - p : u[i] = t[p + i]
  PROVE  NextAngleFold!Fold(0, [stack |-> <<Less>>, verdict |-> "open"], u).verdict = "matched"
<1> DEFINE base == [stack |-> <<Less>>, verdict |-> "open"]
           n == Len(t)
<1>1. PICK h : Stacks(h, t)
  BY BalancedStacks
<1>2. /\ n \in Nat /\ h[0] = <<>> /\ h[n] = <<>>
      /\ \A i \in 0..n : h[i] \in Seq(AngleClosers)
      /\ \A i \in 1..n : BalancedStep(h[i - 1], h[i], t[i])
  BY <1>1 DEF Stacks
<1> DEFINE m == Len(h[p - 1])
           T == [i \in 0..N |-> IF i <= n - p THEN SeeksNext(h[p + i], m)
                                ELSE {s \in SeeksNext(h[n], m) : s.verdict = "matched"}]
<1> HIDE DEF n
<1>3. p \in 1..n /\ p - 1 \in 0..n /\ p \in 0..n /\ n - p \in 0..N /\ m \in Nat
  BY <1>2 DEF n
<1>4. base \in SeeksNext(h[p], m)
  <2>1. h[p] = Append(h[p - 1], AngleClosing(Less))
    BY <1>2, <1>3, AngleTokens DEF BalancedStep
  <2>2. PICK y : y = AngleClosing(Less) /\ y \in AngleClosers
    BY AngleTokens
  <2>3. Len(h[p]) = m + 1 /\ h[p][m + 1] = y
    BY <1>2, <1>3, <2>1, <2>2, AppendIs
  <2>4. Less \in AngleOpeners
    BY AngleTokens
  <2>5. /\ base \in [stack : Seq(AngleOpeners), verdict : {"open", "matched"}]
        /\ base.stack # <<>> /\ base.stack[1] = Less /\ Len(base.stack) = 1
    BY <2>4
  <2>6. \A j \in 1..1 : j = 1
    OBVIOUS
  <2> HIDE DEF base, m
  <2> QED
    BY <2>2, <2>3, <2>5, <2>6 DEF SeeksNext
<1>5. \A s \in SeeksNext(h[n], m) : s.verdict = "matched"
  <2> SUFFICES ASSUME NEW s \in SeeksNext(h[n], m), s.verdict = "open" PROVE FALSE
    BY DEF SeeksNext
  <2>1. s.stack \in Seq(AngleOpeners) /\ s.stack # <<>> /\ 0 = m + Len(s.stack)
    BY <1>2 DEF SeeksNext
  <2>2. Len(s.stack) \in Nat /\ Len(s.stack) # 0
    BY <2>1
  <2> HIDE DEF m
  <2> QED
    BY <1>3, <2>1, <2>2
<1> HIDE DEF m, base
<1>6. ASSUME NEW i \in 1..N, NEW s \in T[i - 1]
      PROVE  NextAngleStep(0, s, u[i]) \in T[i]
  <2>1. i - 1 \in 0..N /\ i \in 0..N
    BY <1>3
  <2>2. CASE i <= n - p
    <3>1. /\ p + i \in 1..n /\ (p + i) - 1 = p + (i - 1) /\ (p + i) - 1 \in 0..n
          /\ p + i \in 0..n /\ i \in 1..n - p /\ i - 1 <= n - p
      BY <1>2, <1>3, <2>2
    <3>2. s \in SeeksNext(h[(p + i) - 1], m)
      BY <2>1, <3>1
    <3>3. u[i] = t[p + i]
      BY <3>1 DEF n
    <3>4. NextAngleStep(0, s, u[i]) \in SeeksNext(h[p + i], m)
      BY <1>2, <1>3, <3>1, <3>2, <3>3, SeeksNextKept
    <3> QED
      BY <2>1, <2>2, <3>4
  <2>3. CASE ~(i <= n - p)
    <3>1. s \in SeeksNext(h[n], m)
      <4>1. CASE i - 1 <= n - p
        <5>1. p + (i - 1) = n
          BY <1>2, <1>3, <2>3, <4>1
        <5> QED
          BY <2>1, <4>1, <5>1
      <4>2. CASE ~(i - 1 <= n - p)
        BY <2>1, <4>2
      <4> QED
        BY <4>1, <4>2
    <3>2. s.verdict = "matched"
      BY <1>5, <3>1
    <3>3. NextAngleStep(0, s, u[i]) = s
      BY <3>2, MatchedStays
    <3> QED
      BY <2>1, <2>3, <3>1, <3>2, <3>3
  <2> QED
    BY <2>2, <2>3
<1>7. base \in T[0]
  BY <1>3, <1>4
<1>8. NextAngleFold!Fold(0, base, u) \in T[N]
  <2> HIDE DEF T
  <2> QED
    BY <1>6, <1>7, NextAngleFold!FoldReaches
<1>9. T[N] \subseteq SeeksNext(h[n], m)
  <2>1. CASE N <= n - p
    <3>1. N = n - p /\ p + N = n
      BY <1>2, <1>3, <2>1
    <3> QED
      BY <2>1, <3>1
  <2>2. CASE ~(N <= n - p)
    BY <2>2
  <2> QED
    BY <2>1, <2>2
<1> QED
  BY <1>5, <1>8, <1>9 DEF base

LEMMA PreviousMatched ==
  ASSUME NEW S, NEW t \in Seq(S), BalanceFold!Fold(0, <<>>, t) = <<>>,
         NEW p \in 1..Len(t), t[p] = Greater,
         NEW N \in Nat, NEW u, DOMAIN u = 1..N, p - 1 <= N,
         \A i \in 1..p - 1 : u[i] = t[p - i]
  PROVE  PreviousAngleFold!Fold(0, [stack |-> <<Greater>>, verdict |-> "open"], u).verdict = "matched"
<1> DEFINE base == [stack |-> <<Greater>>, verdict |-> "open"]
           n == Len(t)
<1>1. PICK h : Stacks(h, t)
  BY BalancedStacks
<1>2. /\ n \in Nat /\ h[0] = <<>> /\ h[n] = <<>>
      /\ \A i \in 0..n : h[i] \in Seq(AngleClosers)
      /\ \A i \in 1..n : BalancedStep(h[i - 1], h[i], t[i])
  BY <1>1 DEF Stacks
<1> DEFINE m == Len(h[p])
           T == [i \in 0..N |-> IF i <= p - 1 THEN SeeksPrevious(h[(p - i) - 1], m)
                                ELSE {s \in SeeksPrevious(h[0], m) : s.verdict = "matched"}]
<1> HIDE DEF n
<1>3. p \in 1..n /\ p - 1 \in 0..n /\ p \in 0..n /\ p - 1 \in 0..N /\ m \in Nat
  BY <1>2 DEF n
<1>4. base \in SeeksPrevious(h[p - 1], m)
  <2>1. h[p - 1] = Append(h[p], Greater)
    BY <1>2, <1>3, AngleTokens DEF BalancedStep
  <2>2. Greater \in AngleClosers
    BY AngleTokens
  <2>3. Len(h[p - 1]) = m + 1 /\ h[p - 1][m + 1] = Greater
    BY <1>2, <1>3, <2>1, <2>2, AppendIs
  <2>5. /\ base \in [stack : Seq(AngleClosers), verdict : {"open", "matched"}]
        /\ base.stack # <<>> /\ base.stack[1] = Greater /\ Len(base.stack) = 1
    BY <2>2
  <2>6. \A j \in 1..1 : j = 1
    OBVIOUS
  <2> HIDE DEF base, m
  <2> QED
    BY <2>3, <2>5, <2>6 DEF SeeksPrevious
<1>5. \A s \in SeeksPrevious(h[0], m) : s.verdict = "matched"
  <2> SUFFICES ASSUME NEW s \in SeeksPrevious(h[0], m), s.verdict = "open" PROVE FALSE
    BY DEF SeeksPrevious
  <2>1. s.stack \in Seq(AngleClosers) /\ s.stack # <<>> /\ 0 = m + Len(s.stack)
    BY <1>2 DEF SeeksPrevious
  <2>2. Len(s.stack) \in Nat /\ Len(s.stack) # 0
    BY <2>1
  <2> HIDE DEF m
  <2> QED
    BY <1>3, <2>1, <2>2
<1> HIDE DEF m, base
<1>6. ASSUME NEW i \in 1..N, NEW s \in T[i - 1]
      PROVE  PreviousAngleStep(0, s, u[i]) \in T[i]
  <2>1. i - 1 \in 0..N /\ i \in 0..N
    BY <1>3
  <2>2. CASE i <= p - 1
    <3>1. /\ p - i \in 1..n /\ (p - (i - 1)) - 1 = p - i /\ (p - i) - 1 \in 0..n
          /\ p - i \in 0..n /\ i \in 1..p - 1 /\ i - 1 <= p - 1
      BY <1>2, <1>3, <2>2
    <3>2. s \in SeeksPrevious(h[p - i], m)
      BY <2>1, <3>1
    <3>3. u[i] = t[p - i]
      BY <3>1
    <3>4. PreviousAngleStep(0, s, u[i]) \in SeeksPrevious(h[(p - i) - 1], m)
      BY <1>2, <1>3, <3>1, <3>2, <3>3, SeeksPreviousKept
    <3> QED
      BY <2>1, <2>2, <3>4
  <2>3. CASE ~(i <= p - 1)
    <3>1. s \in SeeksPrevious(h[0], m)
      <4>1. CASE i - 1 <= p - 1
        <5>1. (p - (i - 1)) - 1 = 0
          BY <1>2, <1>3, <2>3, <4>1
        <5> QED
          BY <2>1, <4>1, <5>1
      <4>2. CASE ~(i - 1 <= p - 1)
        BY <2>1, <4>2
      <4> QED
        BY <4>1, <4>2
    <3>2. s.verdict = "matched"
      BY <1>5, <3>1
    <3>3. PreviousAngleStep(0, s, u[i]) = s
      BY <3>2, MatchedStays
    <3> QED
      BY <2>1, <2>3, <3>1, <3>2, <3>3
  <2> QED
    BY <2>2, <2>3
<1>7. base \in T[0]
  <2>1. (p - 0) - 1 = p - 1 /\ 0 <= p - 1 /\ 0 \in 0..N
    BY <1>3
  <2> QED
    BY <1>4, <2>1
<1>8. PreviousAngleFold!Fold(0, base, u) \in T[N]
  <2> HIDE DEF T
  <2> QED
    BY <1>6, <1>7, PreviousAngleFold!FoldReaches
<1>9. T[N] \subseteq SeeksPrevious(h[0], m)
  <2>1. CASE N <= p - 1
    <3>1. N = p - 1 /\ (p - N) - 1 = 0 /\ N \in 0..N
      BY <1>2, <1>3, <2>1
    <3>2. T[N] = SeeksPrevious(h[(p - N) - 1], m)
      BY <2>1, <3>1
    <3> QED
      BY <3>1, <3>2
  <2>2. CASE ~(N <= p - 1)
    BY <2>2
  <2> QED
    BY <2>1, <2>2
<1> QED
  BY <1>5, <1>8, <1>9 DEF base

\* Before a position of a text come the tokens up to it, last first.
LEMMA ConcatIs ==
  ASSUME NEW S, NEW s \in Seq(S), NEW t \in Seq(S)
  PROVE  /\ s \o t \in Seq(S) /\ Len(s \o t) = Len(s) + Len(t)
         /\ \A i \in 1..Len(s) : (s \o t)[i] = s[i]
         /\ \A i \in 1..Len(t) : (s \o t)[Len(s) + i] = t[i]
<1>1. s \o t \in Seq(S) /\ Len(s \o t) = Len(s) + Len(t)
  OBVIOUS
<1>2. \A i \in 1..Len(s) : (s \o t)[i] = s[i]
  OBVIOUS
<1>3. \A i \in 1..Len(t) : (s \o t)[Len(s) + i] = t[i]
  OBVIOUS
<1> QED
  BY <1>1, <1>2, <1>3

LEMMA AfterBegins ==
  ASSUME NEW S, NEW n \in Nat, NEW lines, DOMAIN lines = 0..n,
         \A i \in 0..n : lines[i].elided \in Seq(S),
         NEW l \in 0..n, NEW p \in 1..Len(lines[l].elided)
  PROVE  /\ Len(lines[l].elided) - p <= Len(After(lines, l, p))
         /\ After(lines, l, p) \in Seq(S)
         /\ \A i \in 1..Len(lines[l].elided) - p : After(lines, l, p)[i] = lines[l].elided[p + i]
<1> DEFINE g == AfterRec!Recursive(lines, l, n + 1)
           t == lines[l].elided
<1>1. NumLines(lines) = n + 1
  BY NumLinesOf
<1>2. ASSUME NEW i \in l..n + 1, NEW u, NEW v, AfterRec!AgreeAbove(u, v, i, n + 1)
      PROVE  AfterStep(lines, u, i) = AfterStep(lines, v, i)
  <2>1. i # n + 1 => i + 1 \in i + 1..n + 1
    OBVIOUS
  <2> QED
    BY <1>1, <1>2, <2>1 DEF AfterStep, AfterRec!AgreeAbove
<1>3. AfterRec!Solves(g, lines, l, n + 1)
  <2>1. l \in Int /\ n + 1 \in Int
    OBVIOUS
  <2> QED
    BY <1>2, <2>1, AfterRec!RecursionDown
<1>4. After(lines, l, p) = From(g[l], p + 1)
  <2>1. After(lines, l, p) = From(AfterRec!Recursive(lines, l, NumLines(lines))[l], p + 1)
    BY DEF After, AfterRec!Recursive, AfterStep
  <2> QED
    BY <1>1, <2>1
<1> HIDE DEF g, t
<1>5. \A i \in l..n + 1 : g[i] = IF i = n + 1 THEN <<>> ELSE lines[i].elided \o g[i + 1]
  BY <1>1, <1>3 DEF AfterRec!Solves, AfterStep
<1> DEFINE T == {i \in l..n + 1 : g[i] \in Seq(S)}
<1>6. l..n + 1 \subseteq T
  <2>1. n + 1 \in T
    <3>1. n + 1 \in l..n + 1 /\ <<>> \in Seq(S)
      OBVIOUS
    <3> QED
      BY <1>5, <3>1
  <2>2. ASSUME NEW i \in l..(n + 1) - 1, i + 1 \in T PROVE i \in T
    <3>1. i \in l..n + 1 /\ i \in 0..n /\ i # n + 1
      OBVIOUS
    <3>2. g[i] = lines[i].elided \o g[i + 1]
      BY <1>5, <3>1
    <3>3. lines[i].elided \in Seq(S) /\ g[i + 1] \in Seq(S)
      BY <2>2, <3>1
    <3>4. g[i] \in Seq(S)
      BY <3>2, <3>3, ConcatIs
    <3> QED
      BY <3>1, <3>4
  <2>3. l \in Int /\ n + 1 \in Int
    OBVIOUS
  <2> HIDE DEF T
  <2> QED
    BY <2>1, <2>2, <2>3, DownwardInduction
<1>7. t \in Seq(S) /\ g[l + 1] \in Seq(S) /\ g[l] = t \o g[l + 1]
  <2>1. l \in l..n + 1 /\ l + 1 \in l..n + 1 /\ l # n + 1
    OBVIOUS
  <2> QED
    BY <1>5, <1>6, <2>1 DEF t
<1>8. g[l] \in Seq(S) /\ Len(g[l]) = Len(t) + Len(g[l + 1]) /\ \A i \in 1..Len(t) : g[l][i] = t[i]
  BY <1>7, ConcatIs
<1> DEFINE a == SubSeq(g[l], p + 1, Len(g[l]))
<1>9. p \in 1..Len(t) /\ Len(t) \in Nat /\ Len(g[l]) \in Nat /\ Len(t) <= Len(g[l])
  <2>1. p \in 1..Len(t)
    BY DEF t
  <2> QED
    BY <1>7, <1>8, <2>1
<1>10. a \in Seq(S)
  BY <1>8, <1>9
<1>11. Len(a) = Len(g[l]) - p
  BY <1>8, <1>9
<1>12. \A i \in 1..Len(g[l]) - p : a[i] = g[l][p + i]
  BY <1>8, <1>9
<1> HIDE DEF a
<1>13. \A i \in 1..Len(t) - p : a[i] = t[p + i]
  <2> TAKE i \in 1..Len(t) - p
  <2>1. i \in 1..Len(g[l]) - p /\ p + i \in 1..Len(t)
    BY <1>9
  <2> QED
    BY <1>8, <1>12, <2>1
<1>14. After(lines, l, p) = a
  BY <1>4 DEF From, a
<1> QED
  BY <1>9, <1>10, <1>11, <1>13, <1>14 DEF t

\* u begins with the tokens before position p of t, the nearest first.
TokensBefore(u, t, p) == p - 1 <= Len(u) /\ \A i \in 1..p - 1 : u[i] = t[p - i]

LEMMA BeforeBegins ==
  ASSUME NEW S, NEW n \in Nat, NEW lines, DOMAIN lines = 0..n,
         \A i \in 0..n : lines[i].elided \in Seq(S),
         NEW l \in 0..n, NEW p \in 1..Len(lines[l].elided)
  PROVE  Before(lines, l, p) \in Seq(S) /\ TokensBefore(Before(lines, l, p), lines[l].elided, p)
<1> DEFINE c == [lines |-> lines, linenum |-> l, pos |-> p]
           g == BeforeRec!Recursive(c, -1, l)
           t == SubSeq(lines[l].elided, 1, p - 1)
<1>1. c.lines = lines /\ c.linenum = l /\ c.pos = p
  OBVIOUS
<1> HIDE DEF c
<1>2. ASSUME NEW i \in -1..l, NEW u, NEW v, BeforeRec!AgreeBelow(u, v, -1, i)
      PROVE  BeforeStep(c, u, i) = BeforeStep(c, v, i)
  <2>1. i # -1 => i - 1 \in -1..i - 1
    OBVIOUS
  <2> QED
    BY <1>2, <2>1 DEF BeforeStep, BeforeRec!AgreeBelow
<1>3. BeforeRec!Solves(g, c, -1, l)
  <2>1. -1 \in Int /\ l \in Int
    OBVIOUS
  <2> QED
    BY <1>2, <2>1, BeforeRec!Recursion
<1>4. Before(lines, l, p) = Reverse(g[l])
  <2>1. Before(c.lines, c.linenum, c.pos) = Reverse(BeforeRec!Recursive(c, -1, c.linenum)[c.linenum])
    BY DEF Before, BeforeRec!Recursive, BeforeStep
  <2> QED
    BY <1>1, <2>1
<1> HIDE DEF g
<1>5. \A i \in -1..l : g[i] = IF i = -1 THEN <<>>
                               ELSE g[i - 1] \o IF i = l THEN t ELSE lines[i].elided
  BY <1>1, <1>3 DEF BeforeRec!Solves, BeforeStep
<1>6. t \in Seq(S) /\ Len(t) = p - 1 /\ \A i \in 1..p - 1 : t[i] = lines[l].elided[i]
  <2>0. PICK e : e = lines[l].elided
    OBVIOUS
  <2>1. e \in Seq(S) /\ p \in 1..Len(e)
    BY <2>0
  <2>2. SubSeq(e, 1, p - 1) \in Seq(S)
    BY <2>1
  <2>3. Len(SubSeq(e, 1, p - 1)) = p - 1
    BY <2>1
  <2>4. \A i \in 1..p - 1 : SubSeq(e, 1, p - 1)[i] = e[i]
    BY <2>1
  <2> QED
    BY <2>0, <2>2, <2>3, <2>4
<1> HIDE DEF t
<1> DEFINE T == {i \in -1..l : g[i] \in Seq(S)}
<1>7. -1..l \subseteq T
  <2>1. -1 \in T
    <3>1. -1 \in -1..l /\ <<>> \in Seq(S)
      OBVIOUS
    <3> QED
      BY <1>5, <3>1
  <2>2. ASSUME NEW i \in -1 + 1..l, i - 1 \in T PROVE i \in T
    <3>1. i \in -1..l /\ i \in 0..n /\ i # -1
      OBVIOUS
    <3>2. PICK e : e = IF i = l THEN t ELSE lines[i].elided
      OBVIOUS
    <3>3. g[i] = g[i - 1] \o e
      BY <1>5, <3>1, <3>2
    <3>4. e \in Seq(S) /\ g[i - 1] \in Seq(S)
      BY <1>6, <2>2, <3>1, <3>2
    <3>5. g[i] \in Seq(S)
      BY <3>3, <3>4, ConcatIs
    <3> QED
      BY <3>1, <3>5
  <2>3. -1 \in Int /\ l \in Int
    OBVIOUS
  <2> HIDE DEF T
  <2> QED
    BY <2>1, <2>2, <2>3, IntervalInduction
<1>8. g[l - 1] \in Seq(S) /\ g[l] = g[l - 1] \o t
  <2>1. l \in -1..l /\ l - 1 \in -1..l /\ l # -1
    OBVIOUS
  <2> QED
    BY <1>5, <1>7, <2>1
<1> DEFINE k == Len(g[l - 1])
<1>9. /\ g[l] \in Seq(S) /\ Len(g[l]) = k + (p - 1) /\ k \in Nat
      /\ \A i \in 1..p - 1 : g[l][k + i] = t[i]
  <2>1. PICK a : a = g[l - 1]
    OBVIOUS
  <2>2. a \in Seq(S) /\ t \in Seq(S) /\ g[l] = a \o t /\ k = Len(a)
    BY <1>6, <1>8, <2>1
  <2>3. /\ a \o t \in Seq(S) /\ Len(a \o t) = Len(a) + Len(t) /\ Len(a) \in Nat
        /\ \A i \in 1..Len(t) : (a \o t)[Len(a) + i] = t[i]
    BY <2>2, ConcatIs
  <2> HIDE DEF k
  <2> QED
    BY <1>6, <2>2, <2>3
<1> HIDE DEF k
<1>10. PICK N \in Nat : N = Len(g[l]) /\ N = k + (p - 1)
  BY <1>9
<1>11. /\ Reverse(g[l]) \in Seq(S) /\ Len(Reverse(g[l])) = N
       /\ \A i \in 1..N : Reverse(g[l])[i] = g[l][(N - i) + 1]
  <2>1. Reverse(g[l]) = [i \in 1..N |-> g[l][(N - i) + 1]]
    BY <1>10 DEF Reverse
  <2>2. \A i \in 1..N : (N - i) + 1 \in 1..N
    BY <1>10
  <2>3. \A i \in 1..N : g[l][(N - i) + 1] \in S
    <3>1. PICK f : f = g[l]
      OBVIOUS
    <3>2. f \in Seq(S) /\ Len(f) = N
      BY <1>9, <1>10, <3>1
    <3>3. \A j \in 1..N : f[j] \in S
      BY <3>2
    <3> QED
      BY <2>2, <3>1, <3>3
  <2> QED
    BY <2>1, <2>3
<1>12. ASSUME NEW i \in 1..p - 1 PROVE Reverse(g[l])[i] = lines[l].elided[p - i]
  <2>1. i \in 1..N /\ (N - i) + 1 = k + (p - i) /\ p - i \in 1..p - 1
    BY <1>9, <1>10
  <2> QED
    <3>1. g[l][k + (p - i)] = t[p - i]
      BY <1>9, <2>1
    <3>2. Reverse(g[l])[i] = g[l][k + (p - i)]
      BY <1>11, <2>1
    <3>3. t[p - i] = lines[l].elided[p - i]
      BY <1>6, <2>1
    <3> QED
      BY <3>1, <3>2, <3>3
<1>13. p - 1 <= N
  BY <1>9, <1>10
<1> QED
  BY <1>4, <1>11, <1>12, <1>13 DEF TokensBefore

LEMMA TemplateMatches ==
  ASSUME NEW S, NEW n \in Nat, NEW lines, DOMAIN lines = 0..n,
         \A i \in 0..n : lines[i].elided \in Seq(S),
         NEW l \in 0..n, BalanceFold!Fold(0, <<>>, lines[l].elided) = <<>>,
         NEW p \in 1..Len(lines[l].elided)
  PROVE  /\ lines[l].elided[p] = Less => FindNextMatchingAngleBracket(lines, l, p)
         /\ lines[l].elided[p] = Greater => FindPreviousMatchingAngleBracket(lines, l, p)
<1>1. FindNextMatchingAngleBracket(lines, l, p) <=>
        NextAngleFold!Fold(0, [stack |-> <<"<">>, verdict |-> "open"],
                           After(lines, l, p)).verdict # "unmatched"
  BY DEF FindNextMatchingAngleBracket, FoldLeft, MapThenFoldSet, NextAngleFold!Fold,
         NextAngleStep, NextAngleFold!Iter, NextAngleFold!Max, Max
<1>2. FindPreviousMatchingAngleBracket(lines, l, p) <=>
        PreviousAngleFold!Fold(0, [stack |-> <<">">>, verdict |-> "open"],
                               Before(lines, l, p)).verdict = "matched"
  BY DEF FindPreviousMatchingAngleBracket, FoldLeft, MapThenFoldSet, PreviousAngleFold!Fold,
         PreviousAngleStep, PreviousAngleFold!Iter,
         PreviousAngleFold!Max, Max
<1>3. ASSUME lines[l].elided[p] = Less PROVE FindNextMatchingAngleBracket(lines, l, p)
  <2>1. PICK t, u : t = lines[l].elided /\ u = After(lines, l, p)
    OBVIOUS
  <2>2. t \in Seq(S) /\ p \in 1..Len(t) /\ t[p] = Less
        /\ BalanceFold!Fold(0, <<>>, t) = <<>>
    BY <1>3, <2>1
  <2>3. u \in Seq(S) /\ Len(t) - p <= Len(u) /\ \A i \in 1..Len(t) - p : u[i] = t[p + i]
    <3>1. /\ Len(lines[l].elided) - p <= Len(After(lines, l, p))
          /\ After(lines, l, p) \in Seq(S)
          /\ \A i \in 1..Len(lines[l].elided) - p :
               After(lines, l, p)[i] = lines[l].elided[p + i]
      BY AfterBegins
    <3> QED
      BY <2>1, <3>1
  <2>4. Len(u) \in Nat /\ DOMAIN u = 1..Len(u)
    BY <2>3
  <2>5. NextAngleFold!Fold(0, [stack |-> <<Less>>, verdict |-> "open"], u).verdict = "matched"
    BY <2>2, <2>3, <2>4, NextMatched
  <2> QED
    BY <1>1, <2>1, <2>5 DEF Less
<1>4. ASSUME lines[l].elided[p] = Greater PROVE FindPreviousMatchingAngleBracket(lines, l, p)
  <2>1. PICK t, u : t = lines[l].elided /\ u = Before(lines, l, p)
    OBVIOUS
  <2>2. t \in Seq(S) /\ p \in 1..Len(t) /\ t[p] = Greater
        /\ BalanceFold!Fold(0, <<>>, t) = <<>>
    BY <1>4, <2>1
  <2>3. u \in Seq(S) /\ p - 1 <= Len(u) /\ \A i \in 1..p - 1 : u[i] = t[p - i]
    <3>1. Before(lines, l, p) \in Seq(S) /\ TokensBefore(Before(lines, l, p), lines[l].elided, p)
      BY BeforeBegins
    <3>2. u \in Seq(S) /\ TokensBefore(u, t, p)
      BY <2>1, <3>1
    <3> QED
      BY <3>2 DEF TokensBefore
  <2>4. Len(u) \in Nat /\ DOMAIN u = 1..Len(u)
    BY <2>3
  <2>5. PreviousAngleFold!Fold(0, [stack |-> <<Greater>>, verdict |-> "open"], u).verdict = "matched"
    BY <2>2, <2>3, <2>4, PreviousMatched
  <2> QED
    BY <1>2, <2>1, <2>5 DEF Greater
<1> QED
  BY <1>3, <1>4

-----------------------------------------------------------------------------
(* Comments.                                                               *)

\* The line ends as a multi-line comment does.
Closes(t) == t # <<>> /\ Last(t) = "*/"

LEMMA OpensOrCloses ==
  ASSUME NEW S, NEW t \in Seq(S), Opens(t)
  PROVE  ~Closes(t)
<1>1. t # <<>> /\ t[1] = "/*" /\ \A i \in 2..Len(t) : t[i] # "*/"
  BY DEF Opens
<1>2. t[1] # "*/"
  BY <1>1, Zenon
<1>3. \A i \in 1..Len(t) : i = 1 \/ i \in 2..Len(t)
  OBVIOUS
<1>4. Len(t) \in 1..Len(t)
  BY <1>1
<1>5. t[Len(t)] # "*/"
  BY <1>1, <1>2, <1>3, <1>4
<1> QED
  BY <1>5 DEF Closes, Last

(* o[i] says whether a comment is open after line i. Where comments begin  *)
(* and end as the search supposes,                                         *)
Comments(o, lines, n) ==
  /\ ~o[-1]
  /\ \A i \in 0..n : /\ ~o[i - 1] => (o[i] <=> Opens(lines[i].text))
                     /\ o[i - 1] => (~o[i] <=> Closes(lines[i].text))

\* these are the lines of the comments that are closed, from line `from` on.
Commented(o, n, from) ==
  {i \in from..n : (o[i - 1] \/ o[i]) /\ \E j \in i..n : ~o[j]}

\* One more comment.
LEMMA OneComment ==
  ASSUME NEW n \in Nat, NEW lines, DOMAIN lines = 0..n, NEW o, Comments(o, lines, n),
         \A i \in 0..n : lines[i].text \in Seq(STRING),
         NEW from \in 0..n + 1, ~o[from - 1],
         NEW begin, begin = FindNextMultiLineCommentStart(lines, from),
         NEW end, end = FindNextMultiLineCommentEnd(lines, begin)
  PROVE  /\ begin \in from..n + 1 /\ end \in begin..n + 1
         /\ begin = n + 1 \/ end = n + 1 => Commented(o, n, from) = {}
         /\ begin # n + 1 /\ end # n + 1 =>
              ~o[end] /\ Commented(o, n, from) = Commented(o, n, end + 1) \cup (begin..end)
<1>1. /\ begin \in from..n + 1 /\ (begin # n + 1 => Opens(lines[begin].text))
      /\ \A i \in from..begin - 1 : ~Opens(lines[i].text)
  BY CommentStart
<1>2. /\ end \in begin..n + 1 /\ (end # n + 1 => Closes(lines[end].text))
      /\ \A i \in begin..end - 1 : ~Closes(lines[i].text)
  <2>1. begin \in 0..n + 1
    BY <1>1
  <2> QED
    BY <2>1, CommentEnd DEF Closes
<1> DEFINE Before1 == {i \in from - 1..begin - 1 : ~o[i]}
           Within == {i \in begin..end - 1 : o[i]}
<1>3. from - 1..begin - 1 \subseteq Before1
  <2>1. from - 1 <= begin - 1 => from - 1 \in Before1
    BY <1>1
  <2>2. ASSUME NEW i \in (from - 1) + 1..begin - 1, i - 1 \in Before1 PROVE i \in Before1
    <3>1. i \in 0..n /\ i \in from..begin - 1 /\ ~o[i - 1]
      BY <1>1, <2>2
    <3> QED
      BY <1>1, <3>1 DEF Comments
  <2>3. PICK a \in Int, b \in Int : a = from - 1 /\ b = begin - 1
    BY <1>1
  <2> HIDE DEF Before1
  <2>4. (a <= b => a \in Before1) /\ \A i \in a + 1..b : i - 1 \in Before1 => i \in Before1
    BY <2>1, <2>2, <2>3
  <2>5. a..b \subseteq Before1
    BY <2>4, IntervalInduction
  <2> QED
    BY <2>3, <2>5
<1>4. \A i \in from - 1..begin - 1 : ~o[i]
  BY <1>3
<1>5. begin # n + 1 => begin..end - 1 \subseteq Within
  <2> SUFFICES ASSUME begin # n + 1 PROVE begin..end - 1 \subseteq Within
    OBVIOUS
  <2>1. begin \in 0..n /\ begin - 1 \in from - 1..begin - 1
    BY <1>1
  <2>2. o[begin]
    BY <1>1, <1>4, <2>1 DEF Comments
  <2>3. begin <= end - 1 => begin \in Within
    BY <1>1, <1>2, <2>2
  <2>4. ASSUME NEW i \in begin + 1..end - 1, i - 1 \in Within PROVE i \in Within
    <3>1. i \in 0..n /\ i \in begin..end - 1 /\ o[i - 1]
      BY <1>1, <1>2, <2>4
    <3> QED
      BY <1>2, <3>1 DEF Comments
  <2>5. PICK a \in Int, b \in Int : a = begin /\ b = end - 1
    BY <1>1, <1>2
  <2> HIDE DEF Within
  <2>6. (a <= b => a \in Within) /\ \A i \in a + 1..b : i - 1 \in Within => i \in Within
    BY <2>3, <2>4, <2>5
  <2>7. a..b \subseteq Within
    BY <2>6, IntervalInduction
  <2> QED
    BY <2>5, <2>7
<1>6. begin # n + 1 => \A i \in begin..end - 1 : o[i]
  BY <1>5
<1> HIDE DEF Before1, Within
<1>7. CASE begin = n + 1
  <2>1. ASSUME NEW i \in from..n PROVE ~(o[i - 1] \/ o[i])
    <3>1. i \in from - 1..begin - 1 /\ i - 1 \in from - 1..begin - 1
      BY <1>1, <1>7
    <3> QED
      BY <1>4, <3>1
  <2> QED
    BY <1>1, <1>2, <1>7, <2>1 DEF Commented
<1>8. CASE begin # n + 1 /\ end = n + 1
  <2>1. ASSUME NEW i \in from..n PROVE ~((o[i - 1] \/ o[i]) /\ \E j \in i..n : ~o[j])
    <3>1. CASE i < begin
      <4>1. i \in from - 1..begin - 1 /\ i - 1 \in from - 1..begin - 1
        BY <1>1, <3>1
      <4> QED
        BY <1>4, <4>1
    <3>2. CASE ~(i < begin)
      <4>1. \A j \in i..n : j \in begin..end - 1
        BY <1>1, <1>8, <3>2
      <4> QED
        BY <1>6, <1>8, <4>1
    <3> QED
      BY <3>1, <3>2
  <2> QED
    BY <1>1, <1>2, <1>8, <2>1 DEF Commented
<1>9. CASE begin # n + 1 /\ end # n + 1
  <2>1. begin \in 0..n /\ end \in 0..n /\ end # begin
    <3>1. begin \in 0..n /\ end \in 0..n
      BY <1>1, <1>2, <1>9
    <3>2. ~Closes(lines[begin].text)
      BY <1>1, <1>9, <3>1, OpensOrCloses
    <3> QED
      BY <1>2, <1>9, <3>1, <3>2
  <2>2. end - 1 \in begin..end - 1 /\ o[end - 1]
    <3>1. end - 1 \in begin..end - 1
      BY <1>2, <2>1
    <3> QED
      BY <1>6, <1>9, <3>1
  <2>3. ~o[end]
    BY <1>2, <1>9, <2>1, <2>2 DEF Comments
  <2>4. ASSUME NEW i \in from..n
        PROVE  (o[i - 1] \/ o[i]) /\ (\E j \in i..n : ~o[j])
                 <=> i \in Commented(o, n, end + 1) \cup (begin..end)
    <3>1. CASE i < begin
      <4>0. begin \in Int /\ end \in Int /\ begin <= end /\ from \in Int /\ i \in Int
            /\ from <= i
        BY <1>1, <1>2
      <4>1. i \in from - 1..begin - 1 /\ i - 1 \in from - 1..begin - 1
            /\ i \notin begin..end /\ i \notin end + 1..n
        BY <3>1, <4>0
      <4> QED
        BY <1>4, <4>1 DEF Commented
    <3>2. CASE i \in begin..end
      <4>1. end \in i..n /\ (i \in begin..end - 1 \/ i = end)
        BY <2>1, <3>2
      <4>2. o[i - 1] \/ o[i]
        BY <1>6, <1>9, <2>2, <4>1
      <4> QED
        BY <2>3, <3>2, <4>1, <4>2
    <3>3. CASE i > end
      <4>1. i \in end + 1..n /\ i \notin begin..end
        BY <2>1, <3>3
      <4> QED
        BY <4>1 DEF Commented
    <3> QED
      BY <1>1, <1>2, <3>1, <3>2, <3>3
  <2>5. Commented(o, n, end + 1) \cup (begin..end) \subseteq from..n
    BY <1>1, <1>2, <2>1 DEF Commented
  <2>6. Commented(o, n, from) = Commented(o, n, end + 1) \cup (begin..end)
    <3> DEFINE R == Commented(o, n, end + 1) \cup (begin..end)
    <3>1. \A i \in from..n : i \in Commented(o, n, from) <=> i \in R
      BY <2>4 DEF Commented
    <3>2. Commented(o, n, from) \subseteq from..n
      BY DEF Commented
    <3>3. R \subseteq from..n
      BY <2>5
    <3> HIDE DEF R
    <3>4. Commented(o, n, from) = R
      BY <3>1, <3>2, <3>3
    <3> QED
      BY <3>4 DEF R
  <2> QED
    BY <1>1, <1>2, <1>9, <2>3, <2>6
<1> QED
  BY <1>7, <1>8, <1>9

\* RemoveMultiLineComments clears these lines, and no other.
LEMMA RemovesComments ==
  ASSUME NEW n \in Nat, NEW lines, DOMAIN lines = 0..n, NEW o, Comments(o, lines, n),
         \A i \in 0..n : lines[i].text \in Seq(STRING)
  PROVE  \A i \in 0..n : RemoveMultiLineComments(lines).lines[i] =
                           IF i \in Commented(o, n, 0) THEN Dummy ELSE lines[i]
<1> DEFINE remove == RemoveRec!Recursive(lines, 0, n + 1)
           D == [cleared : SUBSET (0..n), unclosed : SUBSET (0..n)]
           Right(from) == ~o[from - 1] => /\ remove[from].cleared = Commented(o, n, from)
                                          /\ DOMAIN remove[from] = {"cleared", "unclosed"}
           S == {k \in Nat : k <= n + 1 => Right((n + 1) - k)}
<1>1. \A from \in 0..n + 1 : remove[from] = RemoveStep(lines, remove, from)
  BY RemoveEquation
<1>2. NumLines(lines) = n + 1
  BY NumLinesOf
<1> HIDE DEF remove
<1>3. ASSUME NEW k \in Nat, \A j \in 0..k - 1 : j \in S PROVE k \in S
  <2> DEFINE from == (n + 1) - k
             begin == FindNextMultiLineCommentStart(lines, from)
             end == FindNextMultiLineCommentEnd(lines, begin)
             rest == remove[end + 1]
  <2>1. SUFFICES ASSUME k <= n + 1, ~o[from - 1]
                 PROVE  /\ remove[from].cleared = Commented(o, n, from)
                        /\ DOMAIN remove[from] = {"cleared", "unclosed"}
    OBVIOUS
  <2>2. from \in 0..n + 1
    BY <2>1
  <2>3. /\ begin \in from..n + 1 /\ end \in begin..n + 1
        /\ begin = n + 1 \/ end = n + 1 => Commented(o, n, from) = {}
        /\ begin # n + 1 /\ end # n + 1 =>
             ~o[end] /\ Commented(o, n, from) = Commented(o, n, end + 1) \cup (begin..end)
    <3>1. PICK a, b, c : a = from /\ b = begin /\ c = end
      OBVIOUS
    <3>2. b = FindNextMultiLineCommentStart(lines, a) /\ c = FindNextMultiLineCommentEnd(lines, b)
      BY <3>1
    <3>3. a \in 0..n + 1 /\ ~o[a - 1]
      BY <2>1, <2>2, <3>1
    <3> HIDE DEF from, begin, end
    <3>4. /\ b \in a..n + 1 /\ c \in b..n + 1
          /\ b = n + 1 \/ c = n + 1 => Commented(o, n, a) = {}
          /\ b # n + 1 /\ c # n + 1 =>
               ~o[c] /\ Commented(o, n, a) = Commented(o, n, c + 1) \cup (b..c)
      BY <3>2, <3>3, OneComment
    <3> QED
      BY <3>1, <3>4
  <2>4. remove[from] = CASE begin = n + 1 -> [cleared |-> {}, unclosed |-> {}]
                         [] begin # n + 1 /\ end = n + 1 ->
                              [cleared |-> {}, unclosed |-> {begin}]
                         [] OTHER -> [rest EXCEPT !.cleared = @ \cup (begin..end)]
    <3>1. remove[from] = RemoveStep(lines, remove, from)
      BY <1>1, <2>2
    <3> QED
      BY <1>2, <3>1 DEF RemoveStep
  <2> HIDE DEF begin, end, rest
  <2>5. ASSUME begin # n + 1, end # n + 1
        PROVE  rest.cleared = Commented(o, n, end + 1) /\ DOMAIN rest = {"cleared", "unclosed"}
    <3> DEFINE j == n - end
    <3>1. j \in 0..k - 1 /\ j <= n + 1 /\ (n + 1) - j = end + 1 /\ (end + 1) - 1 = end
      BY <2>2, <2>3, <2>5
    <3>2. ~o[(end + 1) - 1]
      BY <2>3, <2>5, <3>1
    <3> HIDE DEF j
    <3>3. Right((n + 1) - j)
      BY <1>3, <3>1
    <3> QED
      BY <3>1, <3>2, <3>3 DEF rest
  <2> HIDE DEF from
  <2>6. CASE begin = n + 1 \/ end = n + 1
    BY <2>3, <2>4, <2>6
  <2>7. CASE begin # n + 1 /\ end # n + 1
    <3>1. remove[from] = [rest EXCEPT !.cleared = @ \cup (begin..end)]
      BY <2>4, <2>7
    <3>2. remove[from].cleared = rest.cleared \cup (begin..end)
          /\ DOMAIN remove[from] = {"cleared", "unclosed"}
      BY <2>5, <2>7, <3>1
    <3> QED
      BY <2>3, <2>5, <2>7, <3>2
  <2> QED
    BY <2>6, <2>7
<1>4. Nat \subseteq S
  <2> HIDE DEF S
  <2> QED
    BY <1>3, StrongInduction
<1>5. remove[0].cleared = Commented(o, n, 0)
  <2>1. (n + 1) - (n + 1) = 0 /\ n + 1 \in S /\ 0 - 1 = -1
    BY <1>4
  <2> QED
    BY <2>1 DEF Comments
<1>6. ASSUME NEW i \in 0..n
      PROVE  RemoveMultiLineComments(lines).lines[i] =
               IF i \in Commented(o, n, 0) THEN Dummy ELSE lines[i]
  BY <1>5, RemoveIsRecursive DEF remove
<1> QED
  BY <1>6

\* The same for callers: o says where the comments of the n + 1 lines of a file are.
Scanned(o, n, ls) ==
  /\ n \in Nat /\ DOMAIN ls = 0..n /\ Comments(o, ls, n)
  /\ \A i \in 0..n : ls[i].text \in Seq(STRING)

LEMMA RemovesScanned ==
  ASSUME NEW o, NEW n, NEW ls, Scanned(o, n, ls), NEW i \in 0..n
  PROVE  RemoveMultiLineComments(ls).lines[i] = IF i \in Commented(o, n, 0) THEN Dummy ELSE ls[i]
BY RemovesComments DEF Scanned

\* A line without tokens changes nothing.
LEMMA ScanEmpty ==
  ASSUME NEW base
  PROVE  ScanFold!Fold(0, base, <<>>) = base
<1>1. PICK h : ScanFold!Runs(h, 0, base, <<>>, 0) /\ h[0] = ScanFold!Fold(0, base, <<>>)
  <2>1. 0 \in Nat /\ DOMAIN <<>> = 1..0
    OBVIOUS
  <2> QED
    BY <2>1, ScanFold!FoldSteps
<1> QED
  BY <1>1 DEF ScanFold!Runs

\* After a line that begins with a /* and has no */ behind it, one is open.
LEMMA ScanOpens ==
  ASSUME NEW S, NEW t \in Seq(S), Opens(t)
  PROVE  ScanFold!Fold(0, "code", t) = "comment"
<1> DEFINE n == Len(t)
           T == [i \in 0..n |-> IF i = 0 THEN {"code"} ELSE {"comment"}]
<1>1. t # <<>> /\ t[1] = "/*" /\ \A i \in 2..n : t[i] # "*/"
  BY DEF Opens
<1>2. n \in Nat /\ n >= 1 /\ DOMAIN t = 1..n
  BY <1>1
<1> HIDE DEF n
<1>3. ScanStep(0, "code", "/*") = "comment"
  BY Zenon DEF ScanStep
<1>4. \A x : x # "*/" => ScanStep(0, "comment", x) = "comment"
  BY Zenon DEF ScanStep
<1>5. ASSUME NEW i \in 1..n, NEW s \in T[i - 1] PROVE ScanStep(0, s, t[i]) \in T[i]
  <2>1. i - 1 \in 0..n /\ i \in 0..n /\ i # 0
    BY <1>2
  <2>2. CASE i = 1
    BY <1>1, <1>3, <2>1, <2>2
  <2>3. CASE i # 1
    <3>1. i \in 2..n /\ i - 1 # 0
      BY <1>2, <2>3
    <3> QED
      BY <1>1, <1>4, <2>1, <3>1
  <2> QED
    BY <2>2, <2>3
<1>6. "code" \in T[0]
  BY <1>2
<1>7. ScanFold!Fold(0, "code", t) \in T[n]
  <2> HIDE DEF T
  <2> QED
    BY <1>2, <1>5, <1>6, ScanFold!FoldReaches
<1> QED
  BY <1>2, <1>7

-----------------------------------------------------------------------------
(* The checks.                                                             *)

\* The bodies of the folds of the checks.
ClassStep(unused, log, block) ==
  ErrorIf(log, block.kind = "class", block.startingLinenum, "build/class", 5)

ClassFold == INSTANCE Fold_proof WITH step <- ClassStep

MissingStep(unused, log, r) == Error(log, r[2], "build/include_what_you_use", 4)

MissingFold == INSTANCE Fold_proof WITH step <- MissingStep

UnicodeStep(lines, log, i) ==
  ErrorIf(log, Mentions(lines[i - 1].raw.text, {"utf8"}), i - 1, "readability/utf8", 5)

UnicodeFold == INSTANCE Fold_proof WITH step <- UnicodeStep

\* The bodies of PushNamespaces and of the fold of Update. The values that the
\* body takes from around it come as one record.
NamespaceStep(c, consume, n) ==
  IF n = 0 THEN [stack |-> c.stack, rest |-> c.t]
  ELSE LET before == consume[n - 1]
           name == IF Len(before.rest) >= 2 /\ before.rest[2] \in Names
                   THEN before.rest[2] ELSE ""
           left == From(before.rest, IF name = "" THEN 2 ELSE 3)
           braces == {i \in 1..Len(left) : left[i] = "{"}
       IN IF before.rest = <<>> \/ Head(before.rest) # "namespace"
          THEN before
          ELSE [stack |-> Append(before.stack,
                                 [NamespaceInfo(name, c.linenum)
                                    EXCEPT !.seenOpenBrace = braces # {}]),
                rest |-> IF braces = {} THEN left ELSE From(left, Min(braces) + 1)]

NamespaceRec == INSTANCE Fold_proof WITH step <- NamespaceStep

TokenStep(c, state, i) == Token(state, c.t, i, c.lines, c.linenum)

TokenFold == INSTANCE Fold_proof WITH step <- TokenStep

\* The fold of Update.
Tokens(t, lines, linenum, stack, lint) ==
  FoldLeftDomain(LAMBDA state, i : Token(state, t, i, lines, linenum),
                 [stack |-> stack, lint |-> lint], t)

CleanLine == [raw : SourceLine, text : Seq(STRING), elided : Seq(STRING)]

\* Error, called in one of the categories, stays in T.
Closed(T, categories) ==
  \A l \in T : \A n \in Nat : \A c \in categories : \A confidence \in 0 .. 5 :
    Error(l, n, c, confidence) \in T

\* So does reading the NOLINT comments of the lines.
ClosedNolint(T, lines) ==
  \A l \in T : \A i \in DOMAIN lines : ParseNolintSuppressions(l, lines[i].nolint, i) \in T

-----------------------------------------------------------------------------
(* Checks of the whole file.                                               *)

LEMMA CopyrightStays ==
  ASSUME NEW T, NEW K, Closed(T, K), "legal/copyright" \in K, NEW lint \in T, NEW lines
  PROVE  CheckForCopyright(lint, lines) \in T
BY DEF CheckForCopyright, ErrorIf, Closed

LEMMA HeaderGuardStays ==
  ASSUME NEW T, NEW K, Closed(T, K), "build/header_guard" \in K, NEW lint \in T,
         NEW n \in Nat, NEW lines \in [0 .. n -> SourceLine], ClosedNolint(T, lines),
         NEW target, NEW root
  PROVE  CheckForHeaderGuard(lint, lines, target, root) \in T
<1> DEFINE cppvar == GetHeaderGuardCPPVariable(target, root)
           at(directive) == {i \in DOMAIN lines : lines[i].text # <<>> /\ lines[i].text[1] = directive}
           ifndef == {i \in at("#ifndef") : lines[i].arg # <<>>}
           define == {i \in at("#define") : lines[i].arg # <<>>}
           endif == {i \in at("#endif") : ~lines[i].indent}
           name(S) == lines[Min(S)].arg
           confidence(guard) == IF guard = Append(cppvar, "_") THEN 0 ELSE 5
           check(log, guard, i) ==
             IF guard = cppvar THEN log
             ELSE Error(ParseNolintSuppressions(log, lines[i].nolint, i), i,
                        "build/header_guard", confidence(guard))
           named == check(lint, name(ifndef), Min(ifndef))
<1>1. ASSUME NEW S \in SUBSET (0 .. n), S # {} PROVE Min(S) \in 0 .. n /\ Max(S) \in 0 .. n
  <2>1. 0 \in Int /\ n \in Int
    OBVIOUS
  <2> QED
    BY <1>1, <2>1, MinMaxInterval
<1>2. ifndef \in SUBSET (0 .. n) /\ endif \in SUBSET (0 .. n)
  OBVIOUS
<1>3. ASSUME NEW log \in T, NEW guard, NEW i \in 0 .. n PROVE check(log, guard, i) \in T
  <2>1. ParseNolintSuppressions(log, lines[i].nolint, i) \in T
    BY DEF ClosedNolint
  <2>2. i \in Nat /\ confidence(guard) \in 0 .. 5
    OBVIOUS
  <2> HIDE DEF cppvar, confidence
  <2> QED
    BY <2>1, <2>2 DEF Closed
<1>4. ASSUME NEW log \in T PROVE Error(log, 0, "build/header_guard", 5) \in T
  BY DEF Closed
<1>5. CheckForHeaderGuard(lint, lines, target, root) =
        CASE ifndef = {} \/ define = {} -> Error(lint, 0, "build/header_guard", 5)
          [] OTHER ->
               IF name(define) # name(ifndef)
               THEN Error(named, 0, "build/header_guard", 5)
               ELSE IF endif = {}
               THEN Error(ParseNolintSuppressions(named, lines[0].nolint, 0), 0,
                          "build/header_guard", 5)
               ELSE check(named, lines[Max(endif)].arg, Max(endif))
  BY DEF CheckForHeaderGuard
<1> HIDE DEF check, ifndef, define, endif, name, cppvar
<1>6. ifndef # {} => named \in T
  BY <1>1, <1>2, <1>3
<1> HIDE DEF named
<1>7. ifndef # {} => ParseNolintSuppressions(named, lines[0].nolint, 0) \in T
  BY <1>6 DEF ClosedNolint
<1>8. ifndef # {} /\ endif # {} => check(named, lines[Max(endif)].arg, Max(endif)) \in T
  BY <1>1, <1>2, <1>3, <1>6
<1> QED
  BY <1>4, <1>5, <1>6, <1>7, <1>8

-----------------------------------------------------------------------------
(* Checks of a line.                                                       *)

LEMMA FunctionLengthsStay ==
  ASSUME NEW T, NEW K, Closed(T, K), "readability/fn_size" \in K, NEW lint \in T,
         NEW lines, NEW l \in Nat, NEW fn \in Function
  PROVE  /\ CheckForFunctionLengths(fn, lint, lines, l).lint \in T
         /\ CheckForFunctionLengths(fn, lint, lines, l).function \in Function
<1>1. CheckLength(fn, lint, l) \in T
  <2> DEFINE base == IF fn.isTest THEN TestTrigger ELSE NormalTrigger
             times == fn.linesInFunction \div base
             S == {k \in 0 .. 5 : 2^k <= times} \cup {0}
  <2>1. Max(S) \in 0 .. 5
    <3>1. S \in SUBSET (0 .. 5) /\ S # {} /\ 0 \in Int /\ 5 \in Int
      OBVIOUS
    <3> HIDE DEF S
    <3> QED
      BY <3>1, MinMaxInterval
  <2>2. CheckLength(fn, lint, l) =
          ErrorIf(lint, fn.linesInFunction > base * 2^lint.verboseLevel, l,
                  "readability/fn_size", Max(S))
    BY DEF CheckLength
  <2> HIDE DEF S, base
  <2> QED
    BY <2>1, <2>2 DEF ErrorIf, Closed
<1>2. Error(lint, l, "readability/fn_size", 5) \in T
  BY DEF Closed
<1>3. /\ End(fn) \in Function
      /\ CountLine(fn) \in Function
      /\ \A isTest \in BOOLEAN : Begin(isTest) \in Function
  <2>1. End(fn) \in Function
    BY DEF End, Function
  <2>2. CountLine(fn) \in Function
    BY DEF CountLine, Function
  <2>3. \A isTest \in BOOLEAN : Begin(isTest) \in Function
    BY DEF Begin, Function
  <2> QED
    BY <2>1, <2>2, <2>3
<1> QED
  BY <1>1, <1>2, <1>3 DEF CheckForFunctionLengths

LEMMA MultilineStays ==
  ASSUME NEW T, NEW K, Closed(T, K),
         {"readability/multiline_comment", "readability/multiline_string"} \subseteq K,
         NEW lint \in T, NEW lines, NEW l \in Nat
  PROVE  CheckForMultilineCommentsAndStrings(lint, lines, l) \in T
<1>1. \A log \in T : /\ Error(log, l, "readability/multiline_comment", 5) \in T
                     /\ Error(log, l, "readability/multiline_string", 5) \in T
  BY DEF Closed
<1> QED
  BY <1>1 DEF CheckForMultilineCommentsAndStrings, ErrorIf

LEMMA BracesStay ==
  ASSUME NEW T, NEW K, Closed(T, K),
         {"whitespace/braces", "whitespace/newline", "readability/braces"} \subseteq K,
         NEW lint \in T, NEW lines, NEW l \in Nat
  PROVE  CheckBraces(lint, lines, l) \in T
<1> DEFINE t == lines[l].elided
           previous == PreviousText(lines, l)
           text == JoinedText(lines, l).text
           alone == ErrorIf(lint,
                            t = <<"{">>
                            /\ (previous = <<>> \/ (Last(previous) \notin {";", ":", "}", "{"}
                                                    /\ Head(previous) \notin Directives)),
                            l, "whitespace/braces", 4)
           newline == ErrorIf(alone, t # <<>> /\ t[1] = "else" /\ previous = <<"}">>,
                              l, "whitespace/newline", 4)
           oneSided == ErrorIf(newline, OneSidedElse(lines, l), l, "readability/braces", 5)
           elseLine == ErrorIf(oneSided,
                               /\ \E i \in 1..Len(t) - 1 : t[i] = "else" /\ t[i + 1] \notin {"{", "if"}
                               /\ ~\E i \in 1..Len(t) - 1 : t[i] = "else" /\ t[i + 1] = "if",
                               l, "whitespace/newline", 4)
           doLine == ErrorIf(elseLine, Len(t) > 1 /\ t[1] = "do" /\ t[2] # "{",
                             l, "whitespace/newline", 4)
<1>1. \A log \in T : /\ Error(log, l, "whitespace/braces", 4) \in T
                     /\ Error(log, l, "whitespace/newline", 4) \in T
                     /\ Error(log, l, "readability/braces", 4) \in T
                     /\ Error(log, l, "readability/braces", 5) \in T
  BY DEF Closed
<1>2. CheckBraces(lint, lines, l) = doLine \/ CheckBraces(lint, lines, l) = Error(doLine, l, "readability/braces", 4)
  BY DEF CheckBraces, ErrorIf
<1> HIDE DEF t, previous, text
<1>3. alone \in T
  BY <1>1 DEF ErrorIf
<1> HIDE DEF alone
<1>4. newline \in T
  BY <1>1, <1>3 DEF ErrorIf
<1> HIDE DEF newline
<1>5. oneSided \in T
  BY <1>1, <1>4 DEF ErrorIf
<1> HIDE DEF oneSided
<1>6. elseLine \in T
  BY <1>1, <1>5 DEF ErrorIf
<1> HIDE DEF elseLine
<1>7. doLine \in T
  BY <1>1, <1>6 DEF ErrorIf
<1> HIDE DEF doLine
<1> QED
  BY <1>1, <1>2, <1>7
LEMMA EmptyLoopBodyStays ==
  ASSUME NEW T, NEW K, Closed(T, K), "whitespace/empty_loop_body" \in K, NEW lint \in T,
         NEW n \in Nat, NEW lines \in [0 .. n -> CleanLine], NEW l \in 0 .. n
  PROVE  CheckEmptyLoopBody(lint, lines, l) \in T
<1>1. lines[l].elided \in Seq(STRING) /\ 2 \in Nat \ {0}
  BY DEF CleanLine
<1>2. CloseExpression(lines, l, 2).linenum \in Nat
  <2>1. CloseExpression(lines, l, 2).linenum \in l .. n + 1
    BY <1>1, CloseExpressionLine
  <2> QED
    BY <2>1
<1>3. \A i \in Nat : Error(lint, i, "whitespace/empty_loop_body", 5) \in T
  BY DEF Closed
<1> QED
  BY <1>2, <1>3 DEF CheckEmptyLoopBody, ErrorIf

LEMMA AccessStays ==
  ASSUME NEW T, NEW K, Closed(T, K), "readability/constructors" \in K, NEW lint \in T,
         NEW lines, NEW l \in Nat, NEW state
  PROVE  CheckAccess(lint, lines, l, state) \in T
<1>1. Error(lint, l, "readability/constructors", 3) \in T
  BY DEF Closed
<1> QED
  BY <1>1 DEF CheckAccess, ErrorIf

LEMMA BlankLinesStay ==
  ASSUME NEW T, NEW K, Closed(T, K), "whitespace/blank_line" \in K, NEW lint \in T,
         NEW lines, NEW l \in Nat, NEW state
  PROVE  CheckBlankLines(lint, lines, l, state) \in T
<1>1. \A log \in T : /\ Error(log, l, "whitespace/blank_line", 2) \in T
                     /\ Error(log, l, "whitespace/blank_line", 3) \in T
  BY DEF Closed
<1> QED
  BY <1>1 DEF CheckBlankLines, ErrorIf

LEMMA AngleBracketsStay ==
  ASSUME NEW T, NEW K, Closed(T, K), "whitespace/operators" \in K, NEW lint \in T,
         NEW lines, NEW l \in Nat
  PROVE  CheckAngleBrackets(lint, lines, l) \in T
<1>1. \A log \in T : Error(log, l, "whitespace/operators", 3) \in T
  BY DEF Closed
<1> QED
  BY <1>1 DEF CheckAngleBrackets, ErrorIf

LEMMA SectionSpacingStays ==
  ASSUME NEW T, NEW K, Closed(T, K), "whitespace/blank_line" \in K, NEW lint \in T,
         NEW lines, NEW l \in Nat, NEW state
  PROVE  CheckSectionSpacing(lint, lines, l, state) \in T
<1>1. Error(lint, l, "whitespace/blank_line", 3) \in T
  BY DEF Closed
<1> QED
  BY <1>1 DEF CheckSectionSpacing, ErrorIf

\* What CheckStyle may report.
StyleCategories ==
  {"whitespace/braces", "whitespace/newline", "readability/braces",
   "whitespace/empty_loop_body", "readability/constructors", "whitespace/blank_line",
   "whitespace/operators"}

LEMMA StyleStays ==
  ASSUME NEW T, NEW K, Closed(T, K), StyleCategories \subseteq K, NEW lint \in T,
         NEW n \in Nat, NEW lines \in [0 .. n -> CleanLine], NEW l \in 0 .. n, NEW state
  PROVE  CheckStyle(lint, lines, l, state) \in T
<1> DEFINE braces == CheckBraces(lint, lines, l)
           loop == CheckEmptyLoopBody(braces, lines, l)
           access == CheckAccess(loop, lines, l, state)
           blank == CheckBlankLines(access, lines, l, state)
           angles == CheckAngleBrackets(blank, lines, l)
<1>1. /\ {"whitespace/braces", "whitespace/newline", "readability/braces"} \subseteq K
      /\ "whitespace/empty_loop_body" \in K /\ "readability/constructors" \in K
      /\ "whitespace/blank_line" \in K /\ "whitespace/operators" \in K
  BY DEF StyleCategories
<1>2. CheckStyle(lint, lines, l, state) = CheckSectionSpacing(angles, lines, l, state)
  BY DEF CheckStyle
<1>3. braces \in T
  BY <1>1, BracesStay
<1>4. loop \in T
  <2> HIDE DEF braces
  <2> QED
    BY <1>1, <1>3, EmptyLoopBodyStays
<1>5. access \in T
  <2> HIDE DEF loop
  <2> QED
    BY <1>1, <1>4, AccessStays
<1>6. blank \in T
  <2> HIDE DEF access
  <2> QED
    BY <1>1, <1>5, BlankLinesStay
<1>7. angles \in T
  <2> HIDE DEF blank
  <2> QED
    BY <1>1, <1>6, AngleBracketsStay
<1> HIDE DEF angles
<1> QED
  BY <1>1, <1>2, <1>7, SectionSpacingStays

-----------------------------------------------------------------------------
(* Includes.                                                               *)

LEMMA ClassifyIncludeType ==
  ASSUME NEW target, NEW include
  PROVE  ClassifyInclude(target, include) \in HeaderTypes
BY DEF ClassifyInclude, HeaderTypes

LEMMA NextSectionType ==
  ASSUME NEW section \in Sections, NEW type \in HeaderTypes
  PROVE  NextSection(section, type) \in Sections
BY DEF NextSection, Sections, HeaderTypes, Initial, MyH, CSection, CppSection, OtherH

\* What CheckIncludeLine may report.
IncludeCategories ==
  {"build/include", "build/include_order", "build/include_alpha", "readability/streams"}

LEMMA IncludeLineStays ==
  ASSUME NEW T, NEW K, Closed(T, K), IncludeCategories \subseteq K, NEW lint \in T,
         NEW state, NEW target, NEW include, NEW l \in Nat
  PROVE  CheckIncludeLine(state, lint, target, include, l).lint \in T
<1> DEFINE type == ClassifyInclude(target, include)
           ordered == CheckNextIncludeOrder(state, type)
           style == ErrorIf(lint, /\ ~include.isSystem /\ include.ext = "h"
                                  /\ LastSlash(include.path) = 0,
                            l, "build/include", 4)
           order == ErrorIf(style, OutOfOrder(state.section, type), l, "build/include_order", 4)
           alpha == ErrorIf(order, ~InAlphabeticalOrder(ordered, include), l,
                            "build/include_alpha", 4)
           again == Error(style, l, "build/include", 4)
<1>1. \A log \in T : /\ Error(log, l, "build/include", 4) \in T
                     /\ Error(log, l, "build/include_order", 4) \in T
                     /\ Error(log, l, "build/include_alpha", 4) \in T
                     /\ Error(log, l, "readability/streams", 3) \in T
  BY DEF Closed, IncludeCategories
<1>2. \E log \in {again, alpha} :
        \/ CheckIncludeLine(state, lint, target, include, l).lint = log
        \/ CheckIncludeLine(state, lint, target, include, l).lint =
             Error(log, l, "readability/streams", 3)
  BY DEF CheckIncludeLine, ErrorIf
<1>3. style \in T
  BY <1>1 DEF ErrorIf
<1> HIDE DEF type, ordered, style
<1>4. order \in T /\ again \in T
  BY <1>1, <1>3 DEF ErrorIf
<1> HIDE DEF order, again
<1>5. alpha \in T
  BY <1>1, <1>4 DEF ErrorIf
<1> HIDE DEF alpha
<1> QED
  BY <1>1, <1>2, <1>4, <1>5

LEMMA IncludeLineType ==
  ASSUME NEW state \in Includes, NEW lint, NEW target, NEW include \in Header, NEW l,
         Canonical(include) \in DOMAIN Rank
  PROVE  CheckIncludeLine(state, lint, target, include, l).includes \in Includes
<1> DEFINE type == ClassifyInclude(target, include)
           ordered == CheckNextIncludeOrder(state, type)
           name == <<include.path, include.ext>>
<1>1. Rank[Canonical(include)] \in Nat
  BY LintIncludesAssumption
<1>2. NextSection(state.section, type) \in Sections
  BY ClassifyIncludeType, NextSectionType DEF Includes
<1> HIDE DEF type
<1>3. ordered \in Includes
  BY <1>2 DEF CheckNextIncludeOrder, Includes
<1> HIDE DEF ordered
<1>4. RememberInOrder(ordered, include) \in Includes
  BY <1>1, <1>3 DEF RememberInOrder, Includes
<1>5. name \in Seq(STRING) \X STRING
  BY DEF Header
<1>6. CheckIncludeLine(state, lint, target, include, l).includes =
        IF name \in state.seen THEN state
        ELSE [RememberInOrder(ordered, include) EXCEPT !.seen = @ \cup {name}]
  BY DEF CheckIncludeLine, ordered, type
<1> HIDE DEF name
<1> QED
  BY <1>4, <1>5, <1>6 DEF Includes

-----------------------------------------------------------------------------
(* The end of a file.                                                      *)

\* A finite set as a sequence of its elements.
LEMMA SetToSeqType ==
  ASSUME NEW S, IsFiniteSet(S)
  PROVE  /\ Cardinality(S) \in Nat
         /\ SetToSeq(S) \in [1 .. Cardinality(S) -> S]
         /\ IsInjective(SetToSeq(S))
<1>1. ExistsBijection(1 .. Cardinality(S), S) /\ Cardinality(S) \in Nat
  BY FS_CardinalityType
<1>2. PICK f \in [1 .. Cardinality(S) -> S] : IsInjective(f)
  BY <1>1 DEF ExistsBijection, Bijection, Injection
<1> QED
  BY <1>1, <1>2 DEF SetToSeq

LEMMA ClassFinishedStays ==
  ASSUME NEW T, NEW K, Closed(T, K), "build/class" \in K, NEW lint \in T,
         NEW state \in Nesting
  PROVE  CheckClassFinished(state, lint) \in T
<1> DEFINE s == state.stack
<1>1. s \in Seq(Block)
  BY DEF Nesting
<1>2. CheckClassFinished(state, lint) = ClassFold!Fold(<<>>, lint, s)
  BY DEF CheckClassFinished, FoldLeft, MapThenFoldSet, ClassFold!Fold, ClassStep,
         ClassFold!Iter, ClassFold!Max, Max
<1>3. ASSUME NEW i \in 1 .. Len(s), NEW log \in T PROVE ClassStep(<<>>, log, s[i]) \in T
  <2>1. s[i].startingLinenum \in Nat
    <3>1. s[i] \in Block
      BY <1>1
    <3> QED
      BY <3>1 DEF Block
  <2>2. \A n \in Nat : Error(log, n, "build/class", 5) \in T
    BY DEF Closed
  <2> QED
    BY <2>1, <2>2 DEF ClassStep, ErrorIf
<1>4. Len(s) \in Nat /\ DOMAIN s = 1 .. Len(s)
  BY <1>1
<1> HIDE DEF s
<1>5. ClassFold!Fold(<<>>, lint, s) \in T
  BY <1>3, <1>4, ClassFold!FoldStays
<1> QED
  BY <1>2, <1>5

LEMMA UnicodeStays ==
  ASSUME NEW T, NEW K, Closed(T, K), "readability/utf8" \in K, NEW lint \in T,
         NEW n \in Nat, NEW lines, DOMAIN lines = 0 .. n
  PROVE  CheckForUnicodeReplacementCharacters(lint, lines) \in T
<1> DEFINE s == [i \in 1 .. NumLines(lines) |-> i]
<1>1. CheckForUnicodeReplacementCharacters(lint, lines) = UnicodeFold!Fold(lines, lint, s)
  BY DEF CheckForUnicodeReplacementCharacters, FoldLeft, MapThenFoldSet, UnicodeFold!Fold,
         UnicodeStep, UnicodeFold!Iter, UnicodeFold!Max, Max
<1>2. NumLines(lines) = n + 1
  BY NumLinesOf
<1>3. ASSUME NEW i \in 1 .. n + 1, NEW log \in T PROVE UnicodeStep(lines, log, s[i]) \in T
  <2>1. s[i] = i
    BY <1>2
  <2>2. Error(log, i - 1, "readability/utf8", 5) \in T
    BY DEF Closed
  <2> QED
    BY <2>1, <2>2 DEF UnicodeStep, ErrorIf
<1>4. n + 1 \in Nat /\ DOMAIN s = 1 .. n + 1
  BY <1>2
<1> HIDE DEF s
<1>5. UnicodeFold!Fold(lines, lint, s) \in T
  BY <1>3, <1>4, UnicodeFold!FoldStays
<1> QED
  BY <1>1, <1>5

LEMMA NewlineAtEOFStays ==
  ASSUME NEW T, NEW K, Closed(T, K), "whitespace/ending_newline" \in K, NEW lint \in T,
         NEW n \in Nat \ {0}, NEW lines, DOMAIN lines = 0 .. n
  PROVE  CheckForNewlineAtEOF(lint, lines) \in T
<1>1. NumLines(lines) - 2 \in Nat
  BY NumLinesOf
<1>2. \A i \in Nat : Error(lint, i, "whitespace/ending_newline", 5) \in T
  BY DEF Closed
<1> QED
  BY <1>1, <1>2 DEF CheckForNewlineAtEOF, ErrorIf

\* The lines a header is needed on.
LEMMA RequiredType ==
  ASSUME NEW n \in Nat, NEW lines, DOMAIN lines = 0 .. n
  PROVE  /\ IsFiniteSet(Required(lines))
         /\ \A r \in Required(lines) : r[1] \in CppHeaders /\ r[2] \in 0 .. n
<1> DEFINE users(h) == {i \in DOMAIN lines :
                          /\ lines[i].elided # <<>>
                          /\ lines[i].elided[1] \in Directives => lines[i].raw.indent
                          /\ h \in lines[i].raw.uses}
           needed == {h \in CppHeaders : users(h) # {}}
<1>1. ASSUME NEW h, users(h) # {} PROVE Max(users(h)) \in 0 .. n
  <2>1. users(h) \in SUBSET (0 .. n) /\ 0 \in Int /\ n \in Int
    OBVIOUS
  <2> HIDE DEF users
  <2> QED
    BY <1>1, <2>1, MinMaxInterval
<1>2. IsFiniteSet(needed)
  BY FS_Subset, LintIncludesAssumption
<1>3. Required(lines) = {<<h, Max(users(h))>> : h \in needed}
  BY DEF Required
<1> HIDE DEF users
<1>4. IsFiniteSet({<<h, Max(users(h))>> : h \in needed})
  <2> DEFINE f == [h \in needed |-> <<h, Max(users(h))>>]
  <2>1. f \in Surjection(needed, {<<h, Max(users(h))>> : h \in needed})
    BY DEF Surjection
  <2> QED
    BY <1>2, <2>1, FS_Surjection
<1> QED
  BY <1>1, <1>3, <1>4

LEMMA IncludeWhatYouUseStays ==
  ASSUME NEW T, NEW K, Closed(T, K), "build/include_what_you_use" \in K, NEW lint \in T,
         NEW n \in Nat, NEW lines, DOMAIN lines = 0 .. n, NEW state, NEW target
  PROVE  CheckForIncludeWhatYouUse(state, lint, target, lines) \in T
<1> DEFINE missing == {r \in Required(lines) : <<r[1], "">> \notin UpdateIncludeState(state, target)}
           s == SetToSeq(missing)
<1>1. IsFiniteSet(missing)
  BY RequiredType, FS_Subset
<1>2. CheckForIncludeWhatYouUse(state, lint, target, lines) =
        IF target.ext = "cc" /\ OwnHeaders(state, target) = {}
        THEN lint ELSE MissingFold!Fold(<<>>, lint, s)
  BY DEF CheckForIncludeWhatYouUse, FoldLeft, MapThenFoldSet, MissingFold!Fold, MissingStep,
         MissingFold!Iter, MissingFold!Max, Max
<1>3. Cardinality(missing) \in Nat /\ s \in [1 .. Cardinality(missing) -> missing]
  <2> HIDE DEF missing
  <2> QED
    BY <1>1, SetToSeqType
<1>4. ASSUME NEW r \in missing PROVE r[2] \in Nat
  <2>1. r \in Required(lines)
    OBVIOUS
  <2> HIDE DEF missing
  <2>2. r[2] \in 0 .. n
    BY <2>1, RequiredType
  <2> QED
    BY <2>2
<1>5. ASSUME NEW i \in 1 .. Cardinality(missing), NEW log \in T
      PROVE  MissingStep(<<>>, log, s[i]) \in T
  <2>1. s[i][2] \in Nat
    <3> HIDE DEF s, missing
    <3> QED
      BY <1>3, <1>4
  <2> HIDE DEF s, missing
  <2>2. \A m \in Nat : Error(log, m, "build/include_what_you_use", 4) \in T
    BY DEF Closed
  <2> QED
    BY <2>1, <2>2 DEF MissingStep
<1> HIDE DEF s, missing
<1>6. MissingFold!Fold(<<>>, lint, s) \in T
  BY <1>3, <1>5, MissingFold!FoldStays
<1> QED
  BY <1>2, <1>6

-----------------------------------------------------------------------------
(* Nesting.                                                                *)

\* Blocks in some states of an assembly statement, and a nesting of them.
Blocks(A) ==
  [kind : {"block", "namespace", "class"}, name : Names \cup {""},
   seenOpenBrace : BOOLEAN, openParentheses : Int, inlineAsm : A,
   startingLinenum : Nat, lastLine : Nat, access : AccessSpecifiers \cup {""},
   isDerived : BOOLEAN]

ConditionsOn(A) ==
  [stackBeforeIf : Seq(Blocks(A)), stackBeforeElse : Seq(Blocks(A)), seenElse : BOOLEAN]

Nestings(A) == [stack : Seq(Blocks(A)), ppStack : Seq(ConditionsOn(A))]

\* Every state may come up, or none but "no": the words W do not have asm.
Tracked(A, W) == A = AsmStates \/ (A = {"no"} /\ "asm" \notin W)

LEMMA NestingIs == Nesting = Nestings(AsmStates)
BY DEF Nesting, Nestings, Condition, ConditionsOn, Block, Blocks

LEMMA TrackedHasNo ==
  ASSUME NEW A, NEW W, Tracked(A, W)
  PROVE  "no" \in A
BY DEF Tracked, AsmStates

\* A line without asm begins no assembly statement.
LEMMA NoAsmNoMatch ==
  ASSUME NEW A, NEW W, Tracked(A, W), NEW t \in Seq(W), MatchAsm(t)
  PROVE  A = AsmStates
<1>1. Len(t) >= 2 /\ t[1] = "asm"
  BY Zenon DEF MatchAsm
<1>2. t[1] \in W
  BY <1>1
<1> QED
  BY <1>1, <1>2 DEF Tracked

LEMMA SetTopType ==
  ASSUME NEW A, NEW stack \in Seq(Blocks(A)), stack # <<>>, NEW block \in Blocks(A)
  PROVE  SetTop(stack, block) \in Seq(Blocks(A)) /\ Front(stack) \in Seq(Blocks(A))
         /\ Last(stack) \in Blocks(A)
<1>1. Front(stack) \in Seq(Blocks(A))
  BY DEF Front
<1>2. Last(stack) \in Blocks(A)
  BY DEF Last
<1> QED
  BY <1>1, <1>2 DEF SetTop

LEMMA CountType ==
  ASSUME NEW S, NEW t \in Seq(S), NEW token
  PROVE  Count(t, token) \in Nat
BY CountToType, CountIsCountTo

LEMMA CountParenthesesType ==
  ASSUME NEW A, NEW W, Tracked(A, W), NEW stack \in Seq(Blocks(A)), NEW t \in Seq(W)
  PROVE  CountParentheses(stack, t) \in Seq(Blocks(A))
<1> DEFINE change == Count(t, "(") - Count(t, ")")
           top == Last(stack)
           open == top.openParentheses + change
           asm == CASE top.inlineAsm \in {"no", "end"} ->
                         IF change # 0 /\ open = 1 /\ MatchAsm(t) THEN "inside" ELSE "no"
                    [] top.inlineAsm = "inside" /\ open = 0 -> "end"
                    [] OTHER -> top.inlineAsm
<1>1. CASE stack = <<>>
  BY <1>1 DEF CountParentheses
<1>2. CASE stack # <<>>
  <2>1. top \in Blocks(A)
    BY <1>2 DEF Last
  <2>2. change \in Int
    BY CountType
  <2>3. top.openParentheses \in Int /\ top.inlineAsm \in A
    BY <2>1 DEF Blocks
  <2>4. CountParentheses(stack, t) =
          SetTop(stack, [top EXCEPT !.openParentheses = open, !.inlineAsm = asm])
    BY <1>2 DEF CountParentheses
  <2> HIDE DEF change, top
  <2>5. open \in Int
    BY <2>2, <2>3
  <2>6. asm \in A
    <3>1. MatchAsm(t) => A = AsmStates
      BY NoAsmNoMatch
    <3>2. "no" \in A /\ (A = AsmStates \/ A = {"no"})
      BY TrackedHasNo DEF Tracked
    <3> HIDE DEF open
    <3> QED
      BY <2>3, <3>1, <3>2 DEF AsmStates
  <2> HIDE DEF open, asm
  <2>7. [top EXCEPT !.openParentheses = open, !.inlineAsm = asm] \in Blocks(A)
    BY <2>1, <2>5, <2>6 DEF Blocks
  <2> QED
    BY <1>2, <2>4, <2>7, SetTopType
<1> QED
  BY <1>1, <1>2

LEMMA UpdatePreprocessorType ==
  ASSUME NEW A, NEW state \in Nestings(A), NEW t
  PROVE  UpdatePreprocessor(state, t) \in Nestings(A)
<1> DEFINE pp == state.ppStack
           top == Last(pp)
<1>1. state.stack \in Seq(Blocks(A)) /\ pp \in Seq(ConditionsOn(A))
  BY DEF Nestings
<1>2. pp # <<>> => top \in ConditionsOn(A) /\ Front(pp) \in Seq(ConditionsOn(A))
  BY <1>1 DEF Last, Front
<1>3. PreprocessorInfo(state.stack) \in ConditionsOn(A)
  BY <1>1 DEF PreprocessorInfo, ConditionsOn
<1>4. [state EXCEPT !.ppStack = Append(pp, PreprocessorInfo(state.stack))] \in Nestings(A)
  <2>1. PICK info \in ConditionsOn(A) : info = PreprocessorInfo(state.stack)
    BY <1>3
  <2> HIDE DEF pp
  <2>2. PICK more : more = Append(pp, info)
    OBVIOUS
  <2>3. more \in Seq(ConditionsOn(A))
    BY <1>1, <2>2
  <2>4. [state EXCEPT !.ppStack = more] \in Nestings(A)
    BY <2>3 DEF Nestings
  <2> QED
    BY <2>1, <2>2, <2>4
<1>5. ASSUME pp # <<>>
      PROVE  [stack |-> top.stackBeforeIf,
              ppStack |-> IF top.seenElse THEN pp
                          ELSE SetTop(pp, [top EXCEPT !.seenElse = TRUE,
                                                      !.stackBeforeElse = state.stack])]
             \in Nestings(A)
  <2> HIDE DEF pp, top
  <2>1. [top EXCEPT !.seenElse = TRUE, !.stackBeforeElse = state.stack] \in ConditionsOn(A)
    BY <1>1, <1>2, <1>5 DEF ConditionsOn
  <2>2. SetTop(pp, [top EXCEPT !.seenElse = TRUE, !.stackBeforeElse = state.stack])
          \in Seq(ConditionsOn(A))
    BY <1>2, <1>5, <2>1 DEF SetTop
  <2>3. top.stackBeforeIf \in Seq(Blocks(A))
    BY <1>2, <1>5 DEF ConditionsOn
  <2> QED
    BY <1>1, <2>2, <2>3 DEF Nestings
<1>6. ASSUME pp # <<>>
      PROVE  [stack |-> IF top.seenElse THEN top.stackBeforeElse ELSE state.stack,
              ppStack |-> Front(pp)] \in Nestings(A)
  <2> HIDE DEF pp, top
  <2>1. top.stackBeforeElse \in Seq(Blocks(A))
    BY <1>2, <1>6 DEF ConditionsOn
  <2> QED
    BY <1>1, <1>2, <1>6, <2>1 DEF Nestings
<1> QED
  BY <1>4, <1>5, <1>6 DEF UpdatePreprocessor

\* What PushNamespaces and PushClass leave behind: a stack, and the rest of the line.
Declared(A, W) == [stack : Seq(Blocks(A)), rest : Seq(W)]

\* The text behind the first of some tokens.
LEMMA FromTokenType ==
  ASSUME NEW S, NEW t \in Seq(S), NEW token, NEW found,
         found = {i \in 1..Len(t) : t[i] = token}, found # {}
  PROVE  From(t, Min(found) + 1) \in Seq(S)
<1>1. found \in SUBSET (1 .. Len(t)) /\ 1 \in Int /\ Len(t) \in Int
  OBVIOUS
<1>2. Min(found) \in 1 .. Len(t)
  BY <1>1, MinMaxInterval
<1>3. Min(found) + 1 \in Nat \ {0}
  BY <1>2
<1> QED
  BY <1>3, FromType

LEMMA BlockInfoType ==
  ASSUME NEW A, "no" \in A, NEW seen \in BOOLEAN
  PROVE  BlockInfo(seen) \in Blocks(A)
BY DEF BlockInfo, Blocks

LEMMA NamespaceInfoType ==
  ASSUME NEW A, "no" \in A, NEW name \in Names \cup {""}, NEW l \in Nat, NEW seen \in BOOLEAN
  PROVE  [NamespaceInfo(name, l) EXCEPT !.seenOpenBrace = seen] \in Blocks(A)
<1>1. BlockInfo(FALSE) \in Blocks(A)
  BY BlockInfoType
<1>2. NamespaceInfo(name, l) \in Blocks(A)
  BY <1>1 DEF NamespaceInfo, Blocks
<1> QED
  BY <1>2 DEF Blocks

LEMMA NamespaceStepType ==
  ASSUME NEW A, NEW W, "no" \in A, NEW c, c.stack \in Seq(Blocks(A)), c.t \in Seq(W), c.linenum \in Nat,
         NEW consume, NEW n \in Nat, n # 0 => consume[n - 1] \in Declared(A, W)
  PROVE  NamespaceStep(c, consume, n) \in Declared(A, W)
<1> DEFINE before == consume[n - 1]
           name == IF Len(before.rest) >= 2 /\ before.rest[2] \in Names
                   THEN before.rest[2] ELSE ""
           left == From(before.rest, IF name = "" THEN 2 ELSE 3)
           braces == {i \in 1..Len(left) : left[i] = "{"}
           block == [NamespaceInfo(name, c.linenum) EXCEPT !.seenOpenBrace = braces # {}]
<1>1. CASE n = 0
  BY <1>1 DEF NamespaceStep, Declared
<1>2. CASE n # 0
  <2>1. before.stack \in Seq(Blocks(A)) /\ before.rest \in Seq(W)
    BY <1>2 DEF Declared
  <2>2. name \in Names \cup {""}
    OBVIOUS
  <2>3. NamespaceStep(c, consume, n) =
          IF before.rest = <<>> \/ Head(before.rest) # "namespace"
          THEN before
          ELSE [stack |-> Append(before.stack, block),
                rest |-> IF braces = {} THEN left ELSE From(left, Min(braces) + 1)]
    BY <1>2 DEF NamespaceStep
  <2> HIDE DEF before, name
  <2>4. left \in Seq(W)
    <3>1. (IF name = "" THEN 2 ELSE 3) \in Nat \ {0}
      OBVIOUS
    <3> QED
      BY <2>1, <3>1, FromType
  <2> HIDE DEF left
  <2>5. block \in Blocks(A)
    <3> HIDE DEF braces
    <3>1. (braces # {}) \in BOOLEAN
      OBVIOUS
    <3> QED
      BY <2>2, <3>1, NamespaceInfoType
  <2> HIDE DEF block
  <2>6. braces # {} => From(left, Min(braces) + 1) \in Seq(W)
    BY <2>4, FromTokenType, Zenon
  <2> HIDE DEF braces
  <2>7. before \in Declared(A, W)
    BY <1>2 DEF before
  <2> QED
    BY <2>1, <2>3, <2>4, <2>5, <2>6, <2>7 DEF Declared
<1> QED
  BY <1>1, <1>2

LEMMA PushNamespacesType ==
  ASSUME NEW A, NEW W, "no" \in A, NEW stack \in Seq(Blocks(A)), NEW t \in Seq(W), NEW l \in Nat
  PROVE  PushNamespaces(stack, t, l) \in Declared(A, W)
<1> DEFINE c == [stack |-> stack, t |-> t, linenum |-> l]
<1>1. PushNamespaces(c.stack, c.t, c.linenum) = NamespaceRec!Recursive(c, 0, Len(c.t))[Len(c.t)]
  <2> HIDE DEF c
  <2> QED
    BY DEF PushNamespaces, NamespaceRec!Recursive, NamespaceStep
<1>2. c.stack = stack /\ c.t = t /\ c.linenum = l /\ Len(t) \in Nat
  OBVIOUS
<1> HIDE DEF c
<1>3. ASSUME NEW i \in 0 .. Len(t), NEW g, NEW h, NamespaceRec!AgreeBelow(g, h, 0, i)
      PROVE  NamespaceStep(c, g, i) = NamespaceStep(c, h, i)
  <2>1. i # 0 => g[i - 1] = h[i - 1]
    BY <1>2, <1>3 DEF NamespaceRec!AgreeBelow
  <2> QED
    BY <2>1 DEF NamespaceStep
<1> DEFINE consume == NamespaceRec!Recursive(c, 0, Len(t))
<1>4. NamespaceRec!Solves(consume, c, 0, Len(t))
  <2>1. \A i \in 0 .. Len(t) : \A g, h :
          NamespaceRec!AgreeBelow(g, h, 0, i) => NamespaceStep(c, g, i) = NamespaceStep(c, h, i)
    BY <1>3
  <2> QED
    BY <1>2, <2>1, NamespaceRec!Recursion
<1> HIDE DEF consume
<1>5. \A i \in 0 .. Len(t) : consume[i] = NamespaceStep(c, consume, i)
  BY <1>4 DEF NamespaceRec!Solves
<1> DEFINE R == {i \in Nat : i <= Len(t) => consume[i] \in Declared(A, W)}
<1>6. 0 \in R
  <2>1. NamespaceStep(c, consume, 0) \in Declared(A, W)
    BY <1>2, NamespaceStepType
  <2> QED
    BY <1>2, <1>5, <2>1
<1>7. ASSUME NEW i \in Nat, i \in R PROVE i + 1 \in R
  <2>1. CASE i + 1 <= Len(t)
    <3>1. consume[(i + 1) - 1] \in Declared(A, W)
      BY <1>2, <1>7, <2>1
    <3>2. NamespaceStep(c, consume, i + 1) \in Declared(A, W)
      <4>1. i + 1 \in Nat /\ c.stack \in Seq(Blocks(A)) /\ c.t \in Seq(W) /\ c.linenum \in Nat
        BY <1>2
      <4> QED
        BY <3>1, <4>1, NamespaceStepType
    <3>3. consume[i + 1] = NamespaceStep(c, consume, i + 1)
      BY <1>2, <1>5, <2>1
    <3> QED
      BY <3>2, <3>3
  <2>2. CASE ~(i + 1 <= Len(t))
    BY <2>2
  <2> QED
    BY <2>1, <2>2
<1>8. Nat \subseteq R
  <2> HIDE DEF R
  <2> QED
    BY <1>6, <1>7, Induction
<1> QED
  BY <1>1, <1>2, <1>8 DEF consume

LEMMA ClassInfoType ==
  ASSUME NEW A, "no" \in A, NEW n \in Nat, NEW lines, DOMAIN lines = 0 .. n, NEW l \in 0 .. n,
         NEW name \in Names, NEW classOrStruct
  PROVE  ClassInfo(name, classOrStruct, lines, l) \in Blocks(A)
<1> DEFINE depth[i \in l - 1..NumLines(lines) - 1] ==
             IF i = l - 1 THEN 0
             ELSE depth[i - 1] + Count(lines[i].elided, "{") - Count(lines[i].elided, "}")
           balanced == {i \in l..NumLines(lines) - 1 : depth[i] = 0}
           last == IF balanced = {} THEN 0 ELSE Min(balanced)
           access == IF classOrStruct = "struct" THEN "public" ELSE "private"
<1>1. ClassInfo(name, classOrStruct, lines, l) =
        [BlockInfo(FALSE) EXCEPT
           !.kind = "class", !.name = name, !.startingLinenum = l,
           !.access = access, !.lastLine = last]
  BY DEF ClassInfo
<1>2. balanced \in SUBSET (l .. NumLines(lines) - 1)
  OBVIOUS
<1> HIDE DEF balanced
<1>3. last \in Nat
  <2>1. NumLines(lines) - 1 = n /\ l \in Int /\ n \in Int
    BY NumLinesOf
  <2>2. balanced # {} => Min(balanced) \in l .. n
    BY <1>2, <2>1, MinMaxInterval
  <2> QED
    BY <2>1, <2>2
<1>4. access \in AccessSpecifiers \cup {""}
  BY DEF AccessSpecifiers
<1> HIDE DEF last, access, depth
<1> DEFINE kinded == [BlockInfo(FALSE) EXCEPT !.kind = "class", !.name = name]
           placed == [kinded EXCEPT !.startingLinenum = l]
           accessed == [placed EXCEPT !.access = access]
<1>5. kinded \in Blocks(A)
  BY BlockInfoType DEF Blocks
<1> HIDE DEF kinded
<1>6. placed \in Blocks(A)
  <2>1. l \in Nat
    OBVIOUS
  <2> QED
    BY <1>5, <2>1, Zenon DEF Blocks
<1> HIDE DEF placed
<1>7. accessed \in Blocks(A)
  BY <1>4, <1>6, Zenon DEF Blocks
<1> HIDE DEF accessed
<1>8. [accessed EXCEPT !.lastLine = last] \in Blocks(A)
  BY <1>3, <1>7, Zenon DEF Blocks
<1> QED
  BY <1>1, <1>8 DEF kinded, placed, accessed

LEMMA PushClassType ==
  ASSUME NEW A, NEW W, "no" \in A, NEW n \in Nat, NEW lines, DOMAIN lines = 0 .. n, NEW l \in 0 .. n,
         NEW state \in Declared(A, W)
  PROVE  PushClass(state, lines, l) \in Declared(A, W)
<1> DEFINE t == state.rest
           k == ClassKeyword(t)
<1>1. state.stack \in Seq(Blocks(A)) /\ t \in Seq(W)
  BY DEF Declared
<1>2. k # 0 => k \in 1 .. Len(t) - 1 /\ t[k + 1] \in Names
  <2> DEFINE headEnd(m) == /\ m > 1 /\ t[1] = "template" /\ t[2] = "<" /\ t[m] = ">"
                           /\ \A i \in 3..m : t[i] \in Words \cup {"<", ">", ",", ":"}
             enclosed(i) == \E a \in 1..i - 1, b \in i..Len(t) :
                              /\ t[a] = "<" /\ t[b] = ">"
                              /\ \A j \in a + 1..b - 1 : t[j] \notin {"<", ">"}
             found == {m \in 1..Len(t) - 1 :
                         /\ t[m] \in {"class", "struct"}
                         /\ t[m + 1] \in Names
                         /\ m = 1 \/ headEnd(m - 1)
                         /\ \A i \in m + 2..Len(t) : t[i] \in {"=", ">"} => enclosed(i)}
  <2>1. k = IF found = {} THEN 0 ELSE Max(found)
    BY DEF ClassKeyword
  <2>2. found \in SUBSET (1 .. Len(t) - 1) /\ \A m \in found : t[m + 1] \in Names
    OBVIOUS
  <2>3. 1 \in Int /\ Len(t) - 1 \in Int
    BY <1>1
  <2> HIDE DEF found, k, t
  <2>4. found # {} => Max(found) \in found
    BY <2>2, <2>3, MinMaxInterval
  <2> QED
    BY <2>1, <2>2, <2>4
<1> HIDE DEF t, k
<1>3. PushClass(state, lines, l) =
        IF k = 0 \/ (state.stack # <<>> /\ Last(state.stack).openParentheses # 0)
        THEN state
        ELSE [stack |-> Append(state.stack, ClassInfo(t[k + 1], t[k], lines, l)),
              rest |-> From(t, k + 2)]
  BY DEF PushClass, t, k
<1>4. k # 0 => ClassInfo(t[k + 1], t[k], lines, l) \in Blocks(A)
  BY <1>2, ClassInfoType
<1>5. k # 0 => From(t, k + 2) \in Seq(W)
  <2>1. k # 0 => k + 2 \in Nat \ {0}
    BY <1>2
  <2> QED
    BY <1>1, <2>1, FromType
<1> QED
  BY <1>1, <1>3, <1>4, <1>5 DEF Declared

LEMMA CheckBeginType ==
  ASSUME NEW A, NEW stack \in Seq(Blocks(A)), NEW t
  PROVE  CheckBegin(stack, t) \in Seq(Blocks(A))
<1>1. stack # <<>> => [Last(stack) EXCEPT !.isDerived = TRUE] \in Blocks(A)
  <2>1. stack # <<>> => Last(stack) \in Blocks(A)
    BY DEF Last
  <2> QED
    BY <2>1 DEF Blocks
<1> QED
  BY <1>1, SetTopType DEF CheckBegin, SeenOpenBrace

LEMMA UpdateAccessType ==
  ASSUME NEW A, NEW W, NEW state \in Declared(A, W)
  PROVE  UpdateAccess(state) \in Declared(A, W)
<1> DEFINE t == state.rest
           stack == state.stack
<1>1. stack \in Seq(Blocks(A)) /\ t \in Seq(W)
  BY DEF Declared
<1>2. UpdateAccess(state) =
        IF /\ stack # <<>> /\ Last(stack).kind = "class"
           /\ Len(t) >= 2 /\ t[1] \in AccessSpecifiers /\ t[2] = ":"
        THEN [state EXCEPT !.stack = SetTop(stack, [Last(stack) EXCEPT !.access = t[1]])]
        ELSE state
  BY DEF UpdateAccess
<1>3. [state EXCEPT !.stack = SetTop(stack, [Last(stack) EXCEPT !.access = t[1]])] =
        [stack |-> SetTop(stack, [Last(stack) EXCEPT !.access = t[1]]), rest |-> t]
  BY DEF Declared
<1> HIDE DEF stack, t
<1>4. ASSUME stack # <<>>, t[1] \in AccessSpecifiers
      PROVE  SetTop(stack, [Last(stack) EXCEPT !.access = t[1]]) \in Seq(Blocks(A))
  <2>1. Last(stack) \in Blocks(A)
    BY <1>1, <1>4 DEF Last
  <2>2. [Last(stack) EXCEPT !.access = t[1]] \in Blocks(A)
    BY <1>4, <2>1 DEF Blocks
  <2> QED
    BY <1>1, <1>4, <2>2, SetTopType
<1> QED
  BY <1>1, <1>2, <1>3, <1>4 DEF Declared

\* What the fold of Update goes through.
Consumed(A, T) == [stack : Seq(Blocks(A)), lint : T]

LEMMA TokenStays ==
  ASSUME NEW A, NEW W, Tracked(A, W), NEW T, NEW K, Closed(T, K), "readability/namespace" \in K,
         NEW state \in Consumed(A, T), NEW t \in Seq(W), NEW i \in 1..Len(t), NEW lines,
         NEW l \in Nat
  PROVE  Token(state, t, i, lines, l) \in Consumed(A, T)
<1> DEFINE stack == state.stack
           seen == Max({j \in 1..i - 1 : t[j] \in {"{", ";", ")", "}"}} \cup {0})
           asm == IF MatchAsm(From(t, seen + 1)) THEN "block" ELSE "no"
           opened == SetTop(stack, [Last(stack) EXCEPT !.seenOpenBrace = TRUE])
           block == [BlockInfo(TRUE) EXCEPT !.inlineAsm = asm]
           checked == CheckEnd(state.lint, Last(stack), lines, l)
<1>1. stack \in Seq(Blocks(A)) /\ state.lint \in T /\ state = [stack |-> stack, lint |-> state.lint]
  BY DEF Consumed
<1>2. \/ stack # <<>> /\ Token(state, t, i, lines, l) = [state EXCEPT !.stack = opened]
      \/ Token(state, t, i, lines, l) = [state EXCEPT !.stack = Append(stack, block)]
      \/ stack # <<>> /\ Token(state, t, i, lines, l) = [state EXCEPT !.stack = Front(stack)]
      \/ stack # <<>> /\ Token(state, t, i, lines, l) = [stack |-> Front(stack), lint |-> checked]
      \/ Token(state, t, i, lines, l) = state
  BY Zenon DEF Token, SeenOpenBrace
<1>3. asm \in A
  <2> DEFINE marks == {j \in 1..i - 1 : t[j] \in {"{", ";", ")", "}"}}
             S == marks \cup {0}
  <2>1. marks \subseteq 1..i - 1
    BY Zenon
  <2>2. seen = Max(S)
    BY Zenon
  <2> HIDE DEF marks, seen
  <2>3. S \in SUBSET (0..i - 1) /\ S # {} /\ 0 \in Int /\ i - 1 \in Int
    BY <2>1
  <2> HIDE DEF S
  <2>4. seen + 1 \in Nat \ {0}
    <3>1. Max(S) \in 0..i - 1
      BY <2>3, MinMaxInterval
    <3> QED
      BY <2>2, <3>1
  <2>5. From(t, seen + 1) \in Seq(W)
    BY <2>4, FromType
  <2>6. MatchAsm(From(t, seen + 1)) => A = AsmStates
    BY <2>5, NoAsmNoMatch
  <2>7. "no" \in A
    BY TrackedHasNo
  <2> QED
    BY <2>6, <2>7 DEF AsmStates
<1>4. checked \in T
  <2>1. \A log \in T : Error(log, l, "readability/namespace", 5) \in T
    BY DEF Closed
  <2> QED
    BY <1>1, <2>1, Zenon DEF CheckEnd, ErrorIf
<1> HIDE DEF asm, seen, checked
<1>5. block \in Blocks(A)
  <2>1. "no" \in A
    BY TrackedHasNo
  <2>2. BlockInfo(TRUE) \in Blocks(A)
    BY <2>1, BlockInfoType
  <2> QED
    BY <1>3, <2>2 DEF Blocks
<1>6. stack # <<>> => opened \in Seq(Blocks(A)) /\ Front(stack) \in Seq(Blocks(A))
  <2>1. stack # <<>> => Last(stack) \in Blocks(A)
    BY <1>1 DEF Last
  <2>2. stack # <<>> => [Last(stack) EXCEPT !.seenOpenBrace = TRUE] \in Blocks(A)
    BY <2>1 DEF Blocks
  <2> QED
    BY <1>1, <2>2, SetTopType
<1>7. Append(stack, block) \in Seq(Blocks(A))
  BY <1>1, <1>5
<1> HIDE DEF opened, block
<1>8. stack # <<>> => [state EXCEPT !.stack = opened] \in Consumed(A, T)
  BY <1>1, <1>6 DEF Consumed
<1>9. [state EXCEPT !.stack = Append(stack, block)] \in Consumed(A, T)
  BY <1>1, <1>7 DEF Consumed
<1>10. stack # <<>> => [state EXCEPT !.stack = Front(stack)] \in Consumed(A, T)
  BY <1>1, <1>6 DEF Consumed
<1>11. stack # <<>> => [stack |-> Front(stack), lint |-> checked] \in Consumed(A, T)
  BY <1>4, <1>6 DEF Consumed
<1> QED
  BY <1>2, <1>8, <1>9, <1>10, <1>11

LEMMA TokensStay ==
  ASSUME NEW A, NEW W, Tracked(A, W), NEW T, NEW K, Closed(T, K), "readability/namespace" \in K, NEW lint \in T,
         NEW stack \in Seq(Blocks(A)), NEW t \in Seq(W), NEW lines, NEW l \in Nat
  PROVE  Tokens(t, lines, l, stack, lint) \in Consumed(A, T)
<1> DEFINE c == [t |-> t, lines |-> lines, linenum |-> l]
           base == [stack |-> stack, lint |-> lint]
           s == [i \in DOMAIN c.t |-> i]
<1>1. Tokens(c.t, c.lines, c.linenum, stack, lint) = TokenFold!Fold(c, base, s)
  <2> HIDE DEF c
  <2> QED
    BY DEF Tokens, FoldLeftDomain, FoldLeft, MapThenFoldSet, TokenFold!Fold, TokenStep,
           TokenFold!Iter, TokenFold!Max, Max
<1>2. c.t = t /\ c.lines = lines /\ c.linenum = l
  OBVIOUS
<1>3. base \in Consumed(A, T)
  BY DEF Consumed
<1>4. ASSUME NEW i \in 1 .. Len(t), NEW state \in Consumed(A, T)
      PROVE  TokenStep(c, state, s[i]) \in Consumed(A, T)
  <2>1. s[i] \in 1 .. Len(t)
    BY <1>2
  <2> HIDE DEF c, s
  <2>2. Token(state, t, s[i], lines, l) \in Consumed(A, T)
    BY <2>1, TokenStays
  <2> QED
    BY <1>2, <2>2 DEF TokenStep
<1>5. Len(t) \in Nat /\ DOMAIN s = 1 .. Len(t)
  BY <1>2
<1> HIDE DEF c, s, base
<1>6. TokenFold!Fold(c, base, s) \in Consumed(A, T)
  BY <1>3, <1>4, <1>5, TokenFold!FoldStays
<1> QED
  BY <1>1, <1>2, <1>6

\* What Update hands to the fold over the braces: the stack, and the rest of the line.
Accessed(stack, t, lines, l) ==
  UpdateAccess([PushClass(PushNamespaces(CountParentheses(stack, t), t, l), lines, l)
                  EXCEPT !.stack = CheckBegin(@, t)])

LEMMA UpdateIs ==
  ASSUME NEW state, NEW lint, NEW lines, NEW l
  PROVE  LET t == lines[l].elided
             pp == UpdatePreprocessor(state, t)
             accessed == Accessed(pp.stack, t, lines, l)
             consumed == Tokens(accessed.rest, lines, l, accessed.stack, lint)
         IN Update(state, lint, lines, l) =
              [nesting |-> [stack |-> consumed.stack, ppStack |-> pp.ppStack],
               lint |-> consumed.lint]
BY DEF Update, Tokens, Accessed

LEMMA AccessedType ==
  ASSUME NEW A, NEW W, Tracked(A, W), NEW stack \in Seq(Blocks(A)), NEW t \in Seq(W),
         NEW n \in Nat, NEW lines, DOMAIN lines = 0 .. n, NEW l \in 0 .. n
  PROVE  Accessed(stack, t, lines, l) \in Declared(A, W)
<1> DEFINE counted == CountParentheses(stack, t)
           named == PushNamespaces(counted, t, l)
           declared == PushClass(named, lines, l)
           begun == [declared EXCEPT !.stack = CheckBegin(@, t)]
<1>1. Accessed(stack, t, lines, l) = UpdateAccess(begun)
  BY DEF Accessed
<1>2. l \in Nat /\ "no" \in A
  BY TrackedHasNo
<1>3. counted \in Seq(Blocks(A))
  BY CountParenthesesType
<1> HIDE DEF counted
<1>4. named \in Declared(A, W)
  BY <1>2, <1>3, PushNamespacesType
<1> HIDE DEF named
<1>5. declared \in Declared(A, W)
  BY <1>2, <1>4, PushClassType
<1> HIDE DEF declared
<1>6. begun \in Declared(A, W)
  <2>1. CheckBegin(declared.stack, t) \in Seq(Blocks(A))
    BY <1>5, CheckBeginType DEF Declared
  <2> QED
    BY <1>5, <2>1 DEF Declared
<1> HIDE DEF begun
<1> QED
  BY <1>1, <1>6, UpdateAccessType

LEMMA UpdateStays ==
  ASSUME NEW A, NEW W, Tracked(A, W), NEW T, NEW K, Closed(T, K), "readability/namespace" \in K, NEW lint \in T,
         NEW n \in Nat, NEW lines \in [0 .. n -> CleanLine], NEW l \in 0 .. n,
         lines[l].elided \in Seq(W), NEW state \in Nestings(A)
  PROVE  /\ Update(state, lint, lines, l).nesting \in Nestings(A)
         /\ Update(state, lint, lines, l).lint \in T
<1> DEFINE t == lines[l].elided
           pp == UpdatePreprocessor(state, t)
           accessed == Accessed(pp.stack, t, lines, l)
           consumed == Tokens(accessed.rest, lines, l, accessed.stack, lint)
<1>1. t \in Seq(W) /\ l \in Nat
  OBVIOUS
<1>2. Update(state, lint, lines, l) =
        [nesting |-> [stack |-> consumed.stack, ppStack |-> pp.ppStack], lint |-> consumed.lint]
  BY UpdateIs
<1> HIDE DEF t
<1>3. pp \in Nestings(A)
  BY UpdatePreprocessorType
<1>4. pp.stack \in Seq(Blocks(A)) /\ pp.ppStack \in Seq(ConditionsOn(A))
  BY <1>3 DEF Nestings
<1> HIDE DEF pp
<1>5. accessed \in Declared(A, W)
  BY <1>1, <1>4, AccessedType
<1> HIDE DEF accessed
<1>6. accessed.rest \in Seq(W) /\ accessed.stack \in Seq(Blocks(A))
  BY <1>5 DEF Declared
<1>7. consumed \in Consumed(A, T)
  BY <1>1, <1>6, TokensStay
<1> HIDE DEF consumed
<1> QED
  BY <1>2, <1>4, <1>7 DEF Consumed, Nestings

\* The stack does not depend on the state of the report.
Fills(stack, t, i) == t[i] = "{" /\ ~SeenOpenBrace(stack)
Begins(stack, t, i) == t[i] = "{" /\ SeenOpenBrace(stack)
Drops(stack, t, i) == t[i] \in {";", ")"} /\ ~SeenOpenBrace(stack)
EndsOne(stack, t, i) == t[i] = "}" /\ stack # <<>>

NewBlock(t, i) ==
  [BlockInfo(TRUE) EXCEPT
     !.inlineAsm = IF MatchAsm(From(t, Max({j \in 1..i - 1 : t[j] \in {"{", ";", ")", "}"}} \cup {0}) + 1))
                   THEN "block" ELSE "no"]
OpenTop(stack) == SetTop(stack, [Last(stack) EXCEPT !.seenOpenBrace = TRUE])

LEMMA TokenIs ==
  ASSUME NEW state, NEW stack, stack = state.stack, NEW t, NEW i, NEW lines, NEW l
  PROVE  /\ Fills(stack, t, i) => Token(state, t, i, lines, l) = [state EXCEPT !.stack = OpenTop(stack)]
         /\ Begins(stack, t, i) =>
              Token(state, t, i, lines, l) = [state EXCEPT !.stack = Append(stack, NewBlock(t, i))]
         /\ Drops(stack, t, i) => Token(state, t, i, lines, l) = [state EXCEPT !.stack = Front(stack)]
         /\ EndsOne(stack, t, i) =>
              Token(state, t, i, lines, l) =
                [stack |-> Front(stack), lint |-> CheckEnd(state.lint, Last(stack), lines, l)]
         /\ \/ Fills(stack, t, i) \/ Begins(stack, t, i) \/ Drops(stack, t, i) \/ EndsOne(stack, t, i)
            \/ Token(state, t, i, lines, l) = state
BY Zenon DEF Token, Fills, Begins, Drops, EndsOne, SeenOpenBrace, NewBlock, OpenTop

IsState(a) == a = [stack |-> a.stack, lint |-> a.lint]

LEMMA TokenStack ==
  ASSUME NEW a, IsState(a), NEW b, IsState(b), a.stack = b.stack,
         NEW t, NEW i, NEW lines, NEW l
  PROVE  /\ Token(a, t, i, lines, l).stack = Token(b, t, i, lines, l).stack
         /\ IsState(Token(a, t, i, lines, l)) /\ IsState(Token(b, t, i, lines, l))
<1>1. PICK stack : stack = a.stack /\ stack = b.stack
  OBVIOUS
<1>2. \A x : /\ [a EXCEPT !.stack = x].stack = x /\ IsState([a EXCEPT !.stack = x])
            /\ [b EXCEPT !.stack = x].stack = x /\ IsState([b EXCEPT !.stack = x])
  BY DEF IsState
<1>3. CASE Fills(stack, t, i)
  <2>1. PICK x : x = OpenTop(stack)
    OBVIOUS
  <2>2. Token(a, t, i, lines, l) = [a EXCEPT !.stack = x] /\ Token(b, t, i, lines, l) = [b EXCEPT !.stack = x]
    BY <1>1, <1>3, <2>1, TokenIs
  <2> QED
    BY <1>2, <2>2
<1>4. CASE Begins(stack, t, i)
  <2>1. PICK x : x = Append(stack, NewBlock(t, i))
    OBVIOUS
  <2>2. Token(a, t, i, lines, l) = [a EXCEPT !.stack = x] /\ Token(b, t, i, lines, l) = [b EXCEPT !.stack = x]
    BY <1>1, <1>4, <2>1, TokenIs
  <2> QED
    BY <1>2, <2>2
<1>5. CASE Drops(stack, t, i)
  <2>1. PICK x : x = Front(stack)
    OBVIOUS
  <2>2. Token(a, t, i, lines, l) = [a EXCEPT !.stack = x] /\ Token(b, t, i, lines, l) = [b EXCEPT !.stack = x]
    BY <1>1, <1>5, <2>1, TokenIs
  <2> QED
    BY <1>2, <2>2
<1>6. CASE EndsOne(stack, t, i)
  <2>1. PICK x : Token(a, t, i, lines, l) = [stack |-> Front(stack), lint |-> x]
    BY <1>1, <1>6, TokenIs
  <2>2. PICK y : Token(b, t, i, lines, l) = [stack |-> Front(stack), lint |-> y]
    BY <1>1, <1>6, TokenIs
  <2> QED
    BY <2>1, <2>2 DEF IsState
<1>7. CASE ~Fills(stack, t, i) /\ ~Begins(stack, t, i) /\ ~Drops(stack, t, i) /\ ~EndsOne(stack, t, i)
  <2>1. Token(a, t, i, lines, l) = a /\ Token(b, t, i, lines, l) = b
    BY <1>1, <1>7, TokenIs
  <2> QED
    BY <2>1
<1> QED
  BY <1>3, <1>4, <1>5, <1>6, <1>7

\* The fold over the braces, as an instance of Fold_proof.
LEMMA TokensIs ==
  ASSUME NEW W, NEW t \in Seq(W), NEW lines, NEW l, NEW stack, NEW lint,
         NEW c, c = [t |-> t, lines |-> lines, linenum |-> l],
         NEW s, s = [i \in 1 .. Len(t) |-> i]
  PROVE  /\ Tokens(t, lines, l, stack, lint) = TokenFold!Fold(c, [stack |-> stack, lint |-> lint], s)
         /\ Len(t) \in Nat /\ DOMAIN s = 1 .. Len(t) /\ \A i \in 1 .. Len(t) : s[i] = i
         /\ \A state, i : TokenStep(c, state, i) = Token(state, t, i, lines, l)
<1>1. c.t = t /\ c.lines = lines /\ c.linenum = l /\ DOMAIN t = 1 .. Len(t) /\ Len(t) \in Nat
  OBVIOUS
<1>2. s = [i \in DOMAIN c.t |-> i]
  BY <1>1
<1>3. Tokens(c.t, c.lines, c.linenum, stack, lint) =
        TokenFold!Fold(c, [stack |-> stack, lint |-> lint], [i \in DOMAIN c.t |-> i])
  BY DEF Tokens, FoldLeftDomain, FoldLeft, MapThenFoldSet, TokenFold!Fold, TokenStep,
         TokenFold!Iter, TokenFold!Max, Max
<1>4. \A state, i : TokenStep(c, state, i) = Token(state, t, i, lines, l)
  BY <1>1 DEF TokenStep
<1>5. DOMAIN s = 1 .. Len(t) /\ \A i \in 1 .. Len(t) : s[i] = i
  OBVIOUS
<1> QED
  BY <1>1, <1>2, <1>3, <1>4, <1>5

LEMMA TokensSame ==
  ASSUME NEW W, NEW t \in Seq(W), NEW lines, NEW l, NEW stack, NEW x, NEW y
  PROVE  Tokens(t, lines, l, stack, x).stack = Tokens(t, lines, l, stack, y).stack
<1>1. PICK c, s : c = [t |-> t, lines |-> lines, linenum |-> l] /\ s = [i \in 1 .. Len(t) |-> i]
  OBVIOUS
<1>2. PICK a, b : a = [stack |-> stack, lint |-> x] /\ b = [stack |-> stack, lint |-> y]
  OBVIOUS
<1>3. /\ Tokens(t, lines, l, stack, x) = TokenFold!Fold(c, a, s)
      /\ Tokens(t, lines, l, stack, y) = TokenFold!Fold(c, b, s)
      /\ Len(t) \in Nat /\ DOMAIN s = 1 .. Len(t) /\ \A i \in 1 .. Len(t) : s[i] = i
      /\ \A state, i : TokenStep(c, state, i) = Token(state, t, i, lines, l)
  BY <1>1, <1>2, TokensIs
<1>4. PICK g : TokenFold!Runs(g, c, a, s, Len(t)) /\ g[Len(t)] = TokenFold!Fold(c, a, s)
  BY <1>3, TokenFold!FoldSteps
<1>5. PICK h : TokenFold!Runs(h, c, b, s, Len(t)) /\ h[Len(t)] = TokenFold!Fold(c, b, s)
  BY <1>3, TokenFold!FoldSteps
<1>6. /\ g[0] = a /\ \A i \in 1 .. Len(t) : g[i] = Token(g[i - 1], t, i, lines, l)
      /\ h[0] = b /\ \A i \in 1 .. Len(t) : h[i] = Token(h[i - 1], t, i, lines, l)
  BY <1>3, <1>4, <1>5 DEF TokenFold!Runs
<1> DEFINE Same == {i \in 0 .. Len(t) : IsState(g[i]) /\ IsState(h[i]) /\ g[i].stack = h[i].stack}
<1>7. 0 \in Same
  BY <1>2, <1>3, <1>6 DEF IsState
<1>8. ASSUME NEW i \in 0 + 1 .. Len(t), i - 1 \in Same PROVE i \in Same
  <2>1. i \in 1 .. Len(t) /\ i \in 0 .. Len(t)
    BY <1>3
  <2>2. IsState(g[i - 1]) /\ IsState(h[i - 1]) /\ g[i - 1].stack = h[i - 1].stack
    BY <1>8
  <2>3. g[i] = Token(g[i - 1], t, i, lines, l) /\ h[i] = Token(h[i - 1], t, i, lines, l)
    BY <1>6, <2>1
  <2> QED
    BY <2>1, <2>2, <2>3, TokenStack
<1>9. 0 .. Len(t) \subseteq Same
  <2>1. 0 \in Int /\ Len(t) \in Int
    BY <1>3
  <2> HIDE DEF Same
  <2> QED
    BY <1>7, <1>8, <2>1, IntervalInduction
<1>10. Len(t) \in Same
  BY <1>3, <1>9
<1> QED
  BY <1>3, <1>4, <1>5, <1>10

\* A line of code does to a stack what it does, whatever the conditions and the report.
LEMMA UpdateSame ==
  ASSUME NEW A, NEW W, Tracked(A, W), NEW n \in Nat, NEW lines, DOMAIN lines = 0 .. n, NEW l \in 0 .. n,
         lines[l].elided \in Seq(W),
         lines[l].elided # <<>> => lines[l].elided[1] \notin Directives,
         NEW a, NEW b, a.stack = b.stack, a.stack \in Seq(Blocks(A)), NEW x, NEW y
  PROVE  /\ Update(a, x, lines, l).nesting.stack = Update(b, y, lines, l).nesting.stack
         /\ Update(a, x, lines, l).nesting.ppStack = a.ppStack
<1> DEFINE t == lines[l].elided
           accessed == Accessed(a.stack, t, lines, l)
<1>1. UpdatePreprocessor(a, t) = a /\ UpdatePreprocessor(b, t) = b
  BY DEF UpdatePreprocessor, Directives, PpIf, PpElse
<1>2. /\ Update(a, x, lines, l).nesting.stack = Tokens(accessed.rest, lines, l, accessed.stack, x).stack
      /\ Update(a, x, lines, l).nesting.ppStack = a.ppStack
  BY <1>1, UpdateIs
<1>3. Update(b, y, lines, l).nesting.stack = Tokens(accessed.rest, lines, l, accessed.stack, y).stack
  BY <1>1, UpdateIs
<1>4. accessed \in Declared(A, W)
  BY AccessedType
<1> HIDE DEF accessed
<1>5. accessed.rest \in Seq(W)
  BY <1>4 DEF Declared
<1> QED
  BY <1>2, <1>3, <1>5, TokensSame

\* A directive with nothing on its line that Update would take for code.
Signs == {"(", ")", "{", "}", ";", ":"}
Plain(t) == t # <<>> /\ t[1] \in Directives /\ ~Mentions(t, Signs)

LEMMA NotMentioned ==
  ASSUME NEW S, NEW t \in Seq(S), NEW token, ~Mentions(t, {token})
  PROVE  Count(t, token) = 0
<1>1. {i \in 1..Len(t) : t[i] = token} = {}
  BY DEF Mentions
<1> QED
  BY <1>1, FS_EmptySet DEF Count

LEMMA PlainSigns ==
  ASSUME NEW t, Plain(t)
  PROVE  /\ ~Mentions(t, {"("}) /\ ~Mentions(t, {")"}) /\ ~Mentions(t, {":"})
         /\ \A i \in 1..Len(t) : t[i] # "{" /\ t[i] # "}" /\ t[i] \notin {";", ")"}
<1>1. "(" \in Signs /\ ")" \in Signs /\ ":" \in Signs /\ "{" \in Signs /\ "}" \in Signs /\ ";" \in Signs
  BY Zenon DEF Signs
<1>2. \A i \in 1..Len(t) : t[i] \notin Signs
  BY Zenon DEF Plain, Mentions
<1> QED
  BY <1>1, <1>2, Zenon DEF Mentions

LEMMA PlainParentheses ==
  ASSUME NEW S, NEW t \in Seq(S), Plain(t), NEW stack \in Seq(Blocks({"no"}))
  PROVE  CountParentheses(stack, t) = stack
<1> DEFINE change == Count(t, "(") - Count(t, ")")
           top == Last(stack)
           open == top.openParentheses + change
           asm == CASE top.inlineAsm \in {"no", "end"} ->
                         IF change # 0 /\ open = 1 /\ MatchAsm(t) THEN "inside" ELSE "no"
                    [] top.inlineAsm = "inside" /\ open = 0 -> "end"
                    [] OTHER -> top.inlineAsm
<1>1. CASE stack = <<>>
  BY <1>1 DEF CountParentheses
<1>2. CASE stack # <<>>
  <2>1. top \in Blocks({"no"}) /\ stack = Append(Front(stack), top)
    BY <1>2, FrontLast DEF Last
  <2>2. change = 0
    <3>1. Count(t, "(") = 0
      BY PlainSigns, NotMentioned
    <3>2. Count(t, ")") = 0
      BY PlainSigns, NotMentioned
    <3> QED
      BY <3>1, <3>2
  <2>3. CountParentheses(stack, t) =
          SetTop(stack, [top EXCEPT !.openParentheses = open, !.inlineAsm = asm])
    BY <1>2 DEF CountParentheses
  <2> HIDE DEF change, top
  <2>4. top.openParentheses \in Int /\ top.inlineAsm = "no"
    BY <2>1 DEF Blocks
  <2>5. open = top.openParentheses /\ asm = "no"
    BY <2>2, <2>4
  <2> HIDE DEF open, asm
  <2>6. [top EXCEPT !.openParentheses = open, !.inlineAsm = asm] = top
    BY <2>1, <2>4, <2>5 DEF Blocks
  <2> QED
    BY <2>1, <2>3, <2>6 DEF SetTop
<1> QED
  BY <1>1, <1>2

\* A line that begins with no declaration.
LEMMA NoNamespaces ==
  ASSUME NEW S, NEW t \in Seq(S), t # <<>> => t[1] # "namespace", NEW stack, NEW l
  PROVE  PushNamespaces(stack, t, l) = [stack |-> stack, rest |-> t]
<1> DEFINE c == [stack |-> stack, t |-> t, linenum |-> l]
<1>1. PushNamespaces(c.stack, c.t, c.linenum) = NamespaceRec!Recursive(c, 0, Len(c.t))[Len(c.t)]
  <2> HIDE DEF c
  <2> QED
    BY DEF PushNamespaces, NamespaceRec!Recursive, NamespaceStep
<1>2. c.stack = stack /\ c.t = t /\ c.linenum = l /\ Len(t) \in Nat
  OBVIOUS
<1> HIDE DEF c
<1>3. ASSUME NEW i \in 0 .. Len(t), NEW g, NEW h, NamespaceRec!AgreeBelow(g, h, 0, i)
      PROVE  NamespaceStep(c, g, i) = NamespaceStep(c, h, i)
  <2>1. i # 0 => g[i - 1] = h[i - 1]
    BY <1>2, <1>3 DEF NamespaceRec!AgreeBelow
  <2> QED
    BY <2>1 DEF NamespaceStep
<1> DEFINE consume == NamespaceRec!Recursive(c, 0, Len(t))
<1>4. NamespaceRec!Solves(consume, c, 0, Len(t))
  <2>1. \A i \in 0 .. Len(t) : \A g, h :
          NamespaceRec!AgreeBelow(g, h, 0, i) => NamespaceStep(c, g, i) = NamespaceStep(c, h, i)
    BY <1>3
  <2> QED
    BY <1>2, <2>1, NamespaceRec!Recursion
<1> HIDE DEF consume
<1>5. \A i \in 0 .. Len(t) : consume[i] = NamespaceStep(c, consume, i)
  BY <1>4 DEF NamespaceRec!Solves
<1> DEFINE R == {i \in 0 .. Len(t) : consume[i] = [stack |-> stack, rest |-> t]}
<1>6. 0 \in R
  <2>1. NamespaceStep(c, consume, 0) = [stack |-> c.stack, rest |-> c.t]
    BY DEF NamespaceStep
  <2> QED
    BY <1>2, <1>5, <2>1
<1>7. ASSUME NEW i \in 0 + 1 .. Len(t), i - 1 \in R PROVE i \in R
  <2>1. i \in 0 .. Len(t) /\ i # 0
    BY <1>2
  <2>2. consume[i - 1].rest = t /\ consume[i - 1] = [stack |-> stack, rest |-> t]
    BY <1>7
  <2>3. t = <<>> \/ Head(t) # "namespace"
    OBVIOUS
  <2>4. NamespaceStep(c, consume, i) = consume[i - 1]
    BY <2>1, <2>2, <2>3 DEF NamespaceStep
  <2> QED
    BY <1>5, <2>1, <2>2, <2>4
<1>8. 0 .. Len(t) \subseteq R
  <2>1. 0 \in Int /\ Len(t) \in Int
    BY <1>2
  <2> HIDE DEF R
  <2> QED
    BY <1>6, <1>7, <2>1, IntervalInduction
<1>9. Len(t) \in R
  BY <1>2, <1>8
<1> QED
  BY <1>1, <1>2, <1>9 DEF consume

LEMMA NoClass ==
  ASSUME NEW S, NEW t \in Seq(S),
         \A k \in 1..Len(t) : t[k] \in {"class", "struct"} => k # 1 /\ t[1] # "template"
  PROVE  ClassKeyword(t) = 0
<1>1. {k \in 1..Len(t) - 1 :
         /\ t[k] \in {"class", "struct"}
         /\ t[k + 1] \in Names
         /\ k = 1 \/ (/\ k - 1 > 1 /\ t[1] = "template" /\ t[2] = "<" /\ t[k - 1] = ">"
                      /\ \A i \in 3..k - 1 : t[i] \in Words \cup {"<", ">", ",", ":"})
         /\ \A i \in k + 2..Len(t) : t[i] \in {"=", ">"} =>
              \E a \in 1..i - 1, b \in i..Len(t) :
                       /\ t[a] = "<" /\ t[b] = ">"
                       /\ \A j \in a + 1..b - 1 : t[j] \notin {"<", ">"}} = {}
  <2>1. \A k \in 1..Len(t) - 1 : k \in 1..Len(t)
    OBVIOUS
  <2> QED
    BY <2>1, Zenon
<1> QED
  BY <1>1, Zenon DEF ClassKeyword

LEMMA PlainAccessed ==
  ASSUME NEW S, NEW t \in Seq(S), Plain(t), NEW stack \in Seq(Blocks({"no"})), NEW lines, NEW l
  PROVE  Accessed(stack, t, lines, l) = [stack |-> stack, rest |-> t]
<1>1. PICK state : state = [stack |-> stack, rest |-> t]
  OBVIOUS
<1>2. PushNamespaces(CountParentheses(stack, t), t, l) = state
  <2>1. t[1] # "namespace"
    BY DEF Plain, Directives
  <2> QED
    BY <1>1, <2>1, PlainParentheses, NoNamespaces
<1>3. PushClass(state, lines, l) = state
  <2>1. t[1] \notin {"class", "struct"} /\ t[1] # "template"
    BY DEF Plain, Directives
  <2>2. ClassKeyword(t) = 0
    BY <2>1, NoClass
  <2> QED
    BY <1>1, <2>2 DEF PushClass
<1>4. CheckBegin(stack, t) = stack
  BY PlainSigns DEF CheckBegin
<1>5. [state EXCEPT !.stack = CheckBegin(@, t)] = state
  BY <1>1, <1>4
<1>6. UpdateAccess(state) = state
  <2>1. state.rest[1] \notin AccessSpecifiers
    BY <1>1 DEF Plain, Directives, AccessSpecifiers
  <2> QED
    BY <2>1, Zenon DEF UpdateAccess
<1> QED
  BY <1>1, <1>2, <1>3, <1>5, <1>6 DEF Accessed

LEMMA PlainTokens ==
  ASSUME NEW S, NEW t \in Seq(S), Plain(t), NEW lines, NEW l, NEW stack, NEW lint
  PROVE  Tokens(t, lines, l, stack, lint) = [stack |-> stack, lint |-> lint]
<1>1. PICK c, s : c = [t |-> t, lines |-> lines, linenum |-> l] /\ s = [i \in 1 .. Len(t) |-> i]
  OBVIOUS
<1>2. PICK base : base = [stack |-> stack, lint |-> lint]
  OBVIOUS
<1>3. /\ Tokens(t, lines, l, stack, lint) = TokenFold!Fold(c, base, s)
      /\ Len(t) \in Nat /\ DOMAIN s = 1 .. Len(t) /\ \A i \in 1 .. Len(t) : s[i] = i
      /\ \A state, i : TokenStep(c, state, i) = Token(state, t, i, lines, l)
  BY <1>1, <1>2, TokensIs
<1>4. ASSUME NEW i \in 1 .. Len(t), NEW state \in {base} PROVE TokenStep(c, state, s[i]) \in {base}
  <2>1. TokenStep(c, state, s[i]) = Token(state, t, i, lines, l)
    BY <1>3
  <2>2. t[i] # "{" /\ t[i] # "}" /\ t[i] \notin {";", ")"}
    BY PlainSigns
  <2>3. PICK top : top = state.stack
    OBVIOUS
  <2>4. ~Fills(top, t, i) /\ ~Begins(top, t, i) /\ ~Drops(top, t, i) /\ ~EndsOne(top, t, i)
    BY <2>2, Zenon DEF Fills, Begins, Drops, EndsOne
  <2>5. Token(state, t, i, lines, l) = state
    BY <2>3, <2>4, TokenIs
  <2> QED
    BY <2>1, <2>5
<1>5. TokenFold!Fold(c, base, s) \in {base}
  <2>1. base \in {base}
    OBVIOUS
  <2>2. \A i \in 1 .. Len(t) : \A state \in {base} : TokenStep(c, state, s[i]) \in {base}
    BY <1>4
  <2> QED
    BY <1>3, <2>1, <2>2, TokenFold!FoldStays
<1> QED
  BY <1>2, <1>3, <1>5

\* A plain directive is for UpdatePreprocessor alone.
LEMMA UpdatePlain ==
  ASSUME NEW S, NEW lines, NEW l, lines[l].elided \in Seq(S), Plain(lines[l].elided),
         NEW state \in Nestings({"no"}), NEW lint, NEW pp, pp = UpdatePreprocessor(state, lines[l].elided)
  PROVE  /\ Update(state, lint, lines, l).nesting.stack = pp.stack
         /\ Update(state, lint, lines, l).nesting.ppStack = pp.ppStack
<1> DEFINE t == lines[l].elided
<1>1. pp.stack \in Seq(Blocks({"no"}))
  BY UpdatePreprocessorType DEF Nestings
<1>2. PICK stack : stack = pp.stack
  OBVIOUS
<1>3. Accessed(stack, t, lines, l) = [stack |-> stack, rest |-> t]
  BY <1>1, <1>2, PlainAccessed
<1>4. Tokens(t, lines, l, stack, lint) = [stack |-> stack, lint |-> lint]
  BY PlainTokens
<1>5. /\ Update(state, lint, lines, l).nesting.stack =
           Tokens(Accessed(stack, t, lines, l).rest, lines, l, Accessed(stack, t, lines, l).stack, lint).stack
      /\ Update(state, lint, lines, l).nesting.ppStack = pp.ppStack
  BY <1>2, UpdateIs
<1> QED
  BY <1>2, <1>3, <1>4, <1>5

-----------------------------------------------------------------------------
(* Reports and counts.                                                     *)

\* How many of the reports are in S.
Tally(reports, S) == Cardinality({i \in 1..Len(reports) : reports[i] \in S})

LEMMA TallyType ==
  ASSUME NEW R, NEW reports \in Seq(R), NEW S
  PROVE  /\ IsFiniteSet({i \in 1..Len(reports) : reports[i] \in S})
         /\ Tally(reports, S) \in Nat
<1>1. IsFiniteSet(1..Len(reports))
  BY FS_Interval
<1>2. {i \in 1..Len(reports) : reports[i] \in S} \in SUBSET (1..Len(reports))
  OBVIOUS
<1> QED
  BY <1>1, <1>2, FS_Subset, FS_CardinalityType DEF Tally

LEMMA TallyAppend ==
  ASSUME NEW R, NEW reports \in Seq(R), NEW S, NEW r \in R
  PROVE  Tally(Append(reports, r), S) = Tally(reports, S) + IF r \in S THEN 1 ELSE 0
<1> DEFINE n == Len(reports)
           longer == Append(reports, r)
           before == {i \in 1..n : reports[i] \in S}
           after == {i \in 1..Len(longer) : longer[i] \in S}
<1>1. n \in Nat /\ Len(longer) = n + 1 /\ longer[n + 1] = r
      /\ \A i \in 1..n : longer[i] = reports[i]
  OBVIOUS
<1>2. IsFiniteSet(before) /\ Cardinality(before) \in Nat
  BY TallyType DEF Tally
<1> HIDE DEF n, longer
<1>3. after = IF r \in S THEN before \cup {n + 1} ELSE before
  BY <1>1
<1>4. n + 1 \notin before
  BY <1>1
<1> HIDE DEF before, after
<1>5. Cardinality(before \cup {n + 1}) = Cardinality(before) + 1
  BY <1>2, <1>4, FS_AddElement
<1>6. Tally(reports, S) = Cardinality(before)
  BY DEF Tally, before, n
<1>7. Tally(longer, S) = Cardinality(after)
  BY DEF Tally, after
<1>8. Tally(longer, S) = Tally(reports, S) + IF r \in S THEN 1 ELSE 0
  BY <1>2, <1>3, <1>5, <1>6, <1>7
<1> QED
  BY <1>8 DEF longer

LEMMA TallyEmpty ==
  ASSUME NEW S
  PROVE  Tally(<<>>, S) = 0
<1>1. {i \in 1..Len(<<>>) : <<>>[i] \in S} = {}
  OBVIOUS
<1> QED
  BY <1>1, FS_EmptySet DEF Tally

Printed == {r \in Report : r.printed}
PrintedOf(category) == {r \in Printed : r.category = category}
PrintedUnder(top) == {r \in Printed : TopLevel(r.category) = top}

\* What is counted is what was printed.
Counted(log) ==
  /\ log.errorCount = Tally(log.reports, Printed)
  /\ log.counting = "detailed" =>
       \A c \in Categories : log.errorsByCategory[c] = Tally(log.reports, PrintedOf(c))
  /\ log.counting = "toplevel" =>
       \A top \in TopLevels : log.errorsByCategory[top] = Tally(log.reports, PrintedUnder(top))

LEMMA TopLevelType ==
  ASSUME NEW c \in Categories
  PROVE  TopLevel(c) \in TopLevels
BY DEF TopLevel, TopLevels, Categories

\* A field of the report's state may take any value of its type.
LEMMA LintStateField ==
  ASSUME NEW log \in LintState
  PROVE  /\ \A v \in Nat : [log EXCEPT !.errorCount = v] \in LintState
         /\ \A v \in [Categories \cup TopLevels -> Nat] :
              [log EXCEPT !.errorsByCategory = v] \in LintState
         /\ \A v \in SUBSET ((Categories \cup {"all"}) \X Nat) :
              [log EXCEPT !.suppressions = v] \in LintState
         /\ \A v \in Nat : [log EXCEPT !.file = v] \in LintState
         /\ \A v \in Seq(Report) : [log EXCEPT !.reports = v] \in LintState
         /\ \A v \in Nat : [log EXCEPT !.verboseLevel = v] \in LintState
         /\ \A v \in Seq(Filter) : [log EXCEPT !.filters = v] \in LintState
         /\ \A v \in CountingStyles : [log EXCEPT !.counting = v] \in LintState
<1>1. \A v \in Nat : [log EXCEPT !.errorCount = v] \in LintState
  BY DEF LintState
<1>2. \A v \in [Categories \cup TopLevels -> Nat] :
        [log EXCEPT !.errorsByCategory = v] \in LintState
  BY DEF LintState
<1>3. \A v \in SUBSET ((Categories \cup {"all"}) \X Nat) :
        [log EXCEPT !.suppressions = v] \in LintState
  BY DEF LintState
<1>4. \A v \in Nat : [log EXCEPT !.file = v] \in LintState
  BY DEF LintState
<1>5. \A v \in Seq(Report) : [log EXCEPT !.reports = v] \in LintState
  BY DEF LintState
<1>6. \A v \in Nat : [log EXCEPT !.verboseLevel = v] \in LintState
  BY DEF LintState
<1>7. \A v \in Seq(Filter) : [log EXCEPT !.filters = v] \in LintState
  BY DEF LintState
<1>8. \A v \in CountingStyles : [log EXCEPT !.counting = v] \in LintState
  BY DEF LintState
<1> QED
  BY <1>1, <1>2, <1>3, <1>4, <1>5, <1>6, <1>7, <1>8

LEMMA IncrementType ==
  ASSUME NEW log \in LintState, NEW c \in Categories
  PROVE  /\ IncrementErrorCount(log, c) \in LintState
         /\ \A next : next = IncrementErrorCount(log, c) =>
              /\ next.errorCount = log.errorCount + 1
              /\ next.reports = log.reports /\ next.counting = log.counting
              /\ next.file = log.file /\ next.suppressions = log.suppressions
              /\ next.filters = log.filters /\ next.verboseLevel = log.verboseLevel
              /\ log.counting = "detailed" =>
                   next.errorsByCategory = [log.errorsByCategory EXCEPT ![c] = @ + 1]
              /\ log.counting = "toplevel" =>
                   next.errorsByCategory = [log.errorsByCategory EXCEPT ![TopLevel(c)] = @ + 1]
<1> DEFINE key == IF log.counting = "detailed" THEN c ELSE TopLevel(c)
           counted == log.counting \in {"toplevel", "detailed"}
           counts == [log.errorsByCategory EXCEPT ![key] = IF counted THEN @ + 1 ELSE @]
           one == [log EXCEPT !.errorCount = @ + 1]
           next == [one EXCEPT !.errorsByCategory = counts]
<1>1. IncrementErrorCount(log, c) = next
  BY DEF IncrementErrorCount
<1>2. log.errorsByCategory \in [Categories \cup TopLevels -> Nat] /\ log.errorCount \in Nat
  BY DEF LintState
<1>3. key \in Categories \cup TopLevels
  BY TopLevelType
<1>4. counts \in [Categories \cup TopLevels -> Nat]
  <2> HIDE DEF key, counted
  <2> QED
    BY <1>2, <1>3
<1>5. /\ log.counting = "detailed" => counts = [log.errorsByCategory EXCEPT ![c] = @ + 1]
      /\ log.counting = "toplevel" => counts = [log.errorsByCategory EXCEPT ![TopLevel(c)] = @ + 1]
  OBVIOUS
<1> HIDE DEF counts
<1>6. one \in LintState /\ next \in LintState
  <2>1. one \in LintState
    <3>1. log.errorCount + 1 \in Nat
      BY <1>2
    <3> QED
      BY <3>1, LintStateField
  <2> HIDE DEF one
  <2>2. next \in LintState
    BY <1>4, <2>1, LintStateField
  <2> QED
    BY <2>1, <2>2
<1>7. /\ next.errorCount = log.errorCount + 1
      /\ next.reports = log.reports /\ next.counting = log.counting
      /\ next.file = log.file /\ next.suppressions = log.suppressions
      /\ next.filters = log.filters /\ next.verboseLevel = log.verboseLevel
      /\ next.errorsByCategory = counts
  BY DEF LintState
<1> HIDE DEF next
<1> QED
  BY <1>1, <1>5, <1>6, <1>7

\* From one state to the next r is reported, and counted if it is printed.
Reported(log, next, r) ==
  /\ next.reports = Append(log.reports, r)
  /\ next.file = log.file /\ next.suppressions = log.suppressions
  /\ next.filters = log.filters /\ next.verboseLevel = log.verboseLevel
  /\ next.counting = log.counting
  /\ next.errorCount = log.errorCount + IF r.printed THEN 1 ELSE 0
  /\ log.counting = "detailed" =>
       next.errorsByCategory =
         IF r.printed THEN [log.errorsByCategory EXCEPT ![r.category] = @ + 1]
         ELSE log.errorsByCategory
  /\ log.counting = "toplevel" =>
       next.errorsByCategory =
         IF r.printed THEN [log.errorsByCategory EXCEPT ![TopLevel(r.category)] = @ + 1]
         ELSE log.errorsByCategory

\* What Error does: a report more, counted if it is printed.
LEMMA ErrorEffect ==
  ASSUME NEW log \in LintState, NEW n \in Nat, NEW c \in Categories, NEW confidence \in 0..5,
         NEW r, r = [file |-> log.file, linenum |-> n, category |-> c, confidence |-> confidence,
                     printed |-> ShouldPrintError(log, c, confidence, n)],
         NEW next, next = Error(log, n, c, confidence)
  PROVE  /\ r \in Report
         /\ next \in LintState
         /\ Reported(log, next, r)
<1> DEFINE printed == ShouldPrintError(log, c, confidence, n)
           counted == IF printed THEN IncrementErrorCount(log, c) ELSE log
<1>1. printed \in BOOLEAN
  BY DEF ShouldPrintError
<1>2. /\ log.file \in Nat /\ log.reports \in Seq(Report) /\ log.errorCount \in Nat
  BY DEF LintState
<1> HIDE DEF printed
<1>3. r = [file |-> log.file, linenum |-> n, category |-> c, confidence |-> confidence,
           printed |-> printed]
  BY DEF printed
<1>4. r \in Report /\ r.printed = printed
  BY <1>1, <1>2, <1>3 DEF Report
<1>5. next = [counted EXCEPT !.reports = Append(@, r)]
  BY <1>3 DEF Error, counted, printed
<1>6. /\ counted \in LintState
      /\ counted.reports = log.reports /\ counted.counting = log.counting
      /\ counted.file = log.file /\ counted.suppressions = log.suppressions
      /\ counted.filters = log.filters /\ counted.verboseLevel = log.verboseLevel
      /\ counted.errorCount = log.errorCount + IF printed THEN 1 ELSE 0
      /\ log.counting = "detailed" =>
           counted.errorsByCategory =
             IF printed THEN [log.errorsByCategory EXCEPT ![c] = @ + 1]
             ELSE log.errorsByCategory
      /\ log.counting = "toplevel" =>
           counted.errorsByCategory =
             IF printed THEN [log.errorsByCategory EXCEPT ![TopLevel(c)] = @ + 1]
             ELSE log.errorsByCategory
  <2>1. CASE printed
    <3>1. counted = IncrementErrorCount(log, c)
      BY <2>1
    <3> HIDE DEF counted
    <3> QED
      BY <2>1, <3>1, IncrementType
  <2>2. CASE ~printed
    BY <1>2, <2>2
  <2> QED
    BY <2>1, <2>2
<1> HIDE DEF counted
<1>7. next = [counted EXCEPT !.reports = Append(counted.reports, r)]
  BY <1>5
<1>8. Append(counted.reports, r) \in Seq(Report)
  BY <1>2, <1>4, <1>6
<1>9. next \in LintState
  <2>1. PICK more \in Seq(Report) : more = Append(counted.reports, r)
    BY <1>8
  <2>2. [counted EXCEPT !.reports = more] \in LintState
    BY <1>6, LintStateField
  <2> QED
    BY <1>7, <2>1, <2>2
<1>10. /\ next.reports = Append(counted.reports, r)
       /\ next.file = counted.file /\ next.suppressions = counted.suppressions
       /\ next.filters = counted.filters /\ next.verboseLevel = counted.verboseLevel
       /\ next.counting = counted.counting /\ next.errorCount = counted.errorCount
       /\ next.errorsByCategory = counted.errorsByCategory
  BY <1>6, <1>7 DEF LintState
<1>11. next.reports = Append(log.reports, r)
  BY <1>6, <1>10
<1>12. r.category = c
  BY <1>3
<1>13. Reported(log, next, r)
  BY <1>4, <1>6, <1>10, <1>11, <1>12 DEF Reported
<1> QED
  BY <1>4, <1>9, <1>13

LEMMA ErrorCounted ==
  ASSUME NEW log \in LintState, NEW n \in Nat, NEW c \in Categories, NEW confidence \in 0..5,
         Counted(log)
  PROVE  Counted(Error(log, n, c, confidence))
<1> DEFINE next == Error(log, n, c, confidence)
           r == [file |-> log.file, linenum |-> n, category |-> c, confidence |-> confidence,
                 printed |-> ShouldPrintError(log, c, confidence, n)]
<1>1. /\ r \in Report /\ next \in LintState /\ next.reports = Append(log.reports, r)
      /\ next.counting = log.counting
      /\ next.errorCount = log.errorCount + IF r.printed THEN 1 ELSE 0
      /\ log.counting = "detailed" =>
              next.errorsByCategory =
                IF r.printed THEN [log.errorsByCategory EXCEPT ![c] = @ + 1]
                ELSE log.errorsByCategory
      /\ log.counting = "toplevel" =>
              next.errorsByCategory =
                IF r.printed THEN [log.errorsByCategory EXCEPT ![TopLevel(c)] = @ + 1]
                ELSE log.errorsByCategory
  <2> HIDE DEF next, r
  <2>1. next = Error(log, n, c, confidence)
    BY DEF next
  <2>2. r = [file |-> log.file, linenum |-> n, category |-> c, confidence |-> confidence,
             printed |-> ShouldPrintError(log, c, confidence, n)]
    BY DEF r
  <2>3. r \in Report /\ next \in LintState /\ Reported(log, next, r)
    BY <2>1, <2>2, ErrorEffect
  <2>4. r.category = c
    BY <2>2
  <2> QED
    BY <2>3, <2>4 DEF Reported
<1>2. r.category = c
  OBVIOUS
<1>3. /\ log.reports \in Seq(Report) /\ log.counting \in CountingStyles
      /\ log.errorsByCategory \in [Categories \cup TopLevels -> Nat]
  BY DEF LintState
<1> HIDE DEF next, r
<1>4. \A S : Tally(next.reports, S) = Tally(log.reports, S) + IF r \in S THEN 1 ELSE 0
  BY <1>1, <1>3, TallyAppend
<1>5. next.errorCount = Tally(next.reports, Printed)
  <2>1. r \in Printed <=> r.printed
    BY <1>1 DEF Printed
  <2>2. log.errorCount = Tally(log.reports, Printed)
    BY DEF Counted
  <2> QED
    BY <1>1, <1>4, <2>1, <2>2
<1>6. ASSUME next.counting = "detailed", NEW d \in Categories
      PROVE  next.errorsByCategory[d] = Tally(next.reports, PrintedOf(d))
  <2>1. r \in PrintedOf(d) <=> r.printed /\ d = c
    BY <1>1, <1>2 DEF Printed, PrintedOf
  <2>2. log.errorsByCategory[d] = Tally(log.reports, PrintedOf(d))
    BY <1>1, <1>6 DEF Counted
  <2>3. log.errorsByCategory[d] \in Nat /\ DOMAIN log.errorsByCategory = Categories \cup TopLevels
    BY <1>3
  <2>4. next.errorsByCategory[d] =
          log.errorsByCategory[d] + IF r.printed /\ d = c THEN 1 ELSE 0
    <3>1. CASE r.printed
      <4>1. next.errorsByCategory = [log.errorsByCategory EXCEPT ![c] = @ + 1]
        BY <1>1, <1>6, <3>1
      <4> QED
        BY <2>3, <3>1, <4>1
    <3>2. CASE ~r.printed
      BY <1>1, <1>6, <2>3, <3>2
    <3> QED
      BY <3>1, <3>2
  <2> QED
    BY <1>4, <2>1, <2>2, <2>4
<1>7. ASSUME next.counting = "toplevel", NEW top \in TopLevels
      PROVE  next.errorsByCategory[top] = Tally(next.reports, PrintedUnder(top))
  <2>1. r \in PrintedUnder(top) <=> r.printed /\ top = TopLevel(c)
    BY <1>1, <1>2 DEF Printed, PrintedUnder
  <2>2. log.errorsByCategory[top] = Tally(log.reports, PrintedUnder(top))
    BY <1>1, <1>7 DEF Counted
  <2>3. log.errorsByCategory[top] \in Nat /\ DOMAIN log.errorsByCategory = Categories \cup TopLevels
    BY <1>3
  <2>4. next.errorsByCategory[top] =
          log.errorsByCategory[top] + IF r.printed /\ top = TopLevel(c) THEN 1 ELSE 0
    <3>1. CASE r.printed
      <4>1. next.errorsByCategory = [log.errorsByCategory EXCEPT ![TopLevel(c)] = @ + 1]
        BY <1>1, <1>7, <3>1
      <4> QED
        BY <2>3, <3>1, <4>1
    <3>2. CASE ~r.printed
      BY <1>1, <1>7, <2>3, <3>2
    <3> QED
      BY <3>1, <3>2
  <2> QED
    BY <1>4, <2>1, <2>2, <2>4
<1>8. Counted(next)
  BY <1>5, <1>6, <1>7 DEF Counted
<1> QED
  BY <1>8 DEF next

-----------------------------------------------------------------------------
(* The text that CheckBraces puts together.                                *)

BeginsBlock(at) ==
  at.raw.indent /\ at.elided # <<>> /\ at.elided[1] = "{"

ClosesBlock(last) == \E i \in 2..Len(last) - 1 : last[i] = "}" /\ last[i + 1] = ";"

JoinStep(c, joined, i) ==
  LET previous == GetPreviousNonBlankLine(c.lines, i)
  IN IF ~(c.closed /\ BeginsBlock(c.lines[i])) \/ (previous # -1 /\ EndsStatement(c.lines, previous))
     THEN [linenum |-> i, text |-> <<>>]
     ELSE IF previous = -1 THEN [linenum |-> -1, text |-> <<>>]
     ELSE joined[previous]

JoinRec == INSTANCE Fold_proof WITH step <- JoinStep

LEMMA PreviousCode ==
  ASSUME NEW cl, NEW i \in Nat
  PROVE  LET previous == GetPreviousNonBlankLine(cl, i)
         IN /\ previous \in -1..i - 1
            /\ previous # -1 => cl[previous].elided # <<>>
            /\ \A k \in previous + 1..i - 1 : cl[k].elided = <<>>
<1> DEFINE S == {j \in 0..i - 1 : cl[j].elided # <<>>} \cup {-1}
<1>1. S \in SUBSET (-1..i - 1) /\ S # {} /\ -1 \in Int /\ i - 1 \in Int
  OBVIOUS
<1>2. GetPreviousNonBlankLine(cl, i) = Max(S)
  BY DEF GetPreviousNonBlankLine
<1> HIDE DEF S
<1>3. Max(S) \in S /\ (\A k \in S : k <= Max(S)) /\ Max(S) \in -1..i - 1
  BY <1>1, MinMaxInterval
<1> DEFINE m == Max(S)
<1>4. m \in S /\ (\A k \in S : k <= m) /\ m \in -1..i - 1
  BY <1>3
<1> HIDE DEF m
<1>5. m # -1 => cl[m].elided # <<>>
  BY <1>4 DEF S
<1>6. ASSUME NEW k \in m + 1..i - 1 PROVE cl[k].elided = <<>>
  <2>1. k \in 0..i - 1 /\ ~(k <= m)
    BY <1>4
  <2> QED
    BY <2>1, <1>4 DEF S
<1> QED
  BY <1>2, <1>4, <1>5, <1>6 DEF m

\* It never comes to an end only if all the code up to here begins blocks.
LEMMA JoinEquation ==
  ASSUME NEW cl, NEW m \in Nat, NEW closed
  PROVE  LET c == [lines |-> cl, closed |-> closed]
             f == JoinRec!Recursive(c, 0, m)
         IN f = [i \in 0..m |-> JoinStep(c, f, i)]
<1> DEFINE c == [lines |-> cl, closed |-> closed]
           f == JoinRec!Recursive(c, 0, m)
<1>1. ASSUME NEW i \in 0..m, NEW g, NEW h, JoinRec!AgreeBelow(g, h, 0, i)
      PROVE  JoinStep(c, g, i) = JoinStep(c, h, i)
  <2> DEFINE previous == GetPreviousNonBlankLine(c.lines, i)
  <2>1. previous \in -1..i - 1
    BY PreviousCode
  <2> HIDE DEF previous
  <2>2. previous # -1 => previous \in 0..i - 1
    BY <2>1
  <2>3. previous # -1 => g[previous] = h[previous]
    BY <1>1, <2>2 DEF JoinRec!AgreeBelow
  <2> HIDE DEF c
  <2> QED
    BY <2>3 DEF JoinStep, previous
<1> HIDE DEF c
<1>2. JoinRec!Solves(f, c, 0, m)
  BY <1>1, JoinRec!Recursion
<1> QED
  BY <1>2 DEF JoinRec!Solves, c

LEMMA JoinedTop ==
  ASSUME NEW cl, NEW m \in Nat
  PROVE  \E f : /\ JoinedText(cl, m).linenum = f[m].linenum
                /\ f = [i \in 0..m |->
                          JoinStep([lines |-> cl, closed |-> ClosesBlock(cl[m].elided)], f, i)]
<1> DEFINE c == [lines |-> cl, closed |-> ClosesBlock(cl[m].elided)]
           last == cl[m].elided
           Body(f, i) ==
        LET previous == GetPreviousNonBlankLine(cl, i)
        IN IF ~((\E j \in 2..Len(last) - 1 : last[j] = "}" /\ last[j + 1] = ";")
                /\ (cl[i].raw.indent /\ cl[i].elided # <<>> /\ cl[i].elided[1] = "{"))
              \/ (previous # -1 /\ EndsStatement(cl, previous))
           THEN [linenum |-> i, text |-> <<>>]
           ELSE IF previous = -1 THEN [linenum |-> -1, text |-> <<>>]
           ELSE f[previous]
           J == CHOOSE f : f = [i \in 0..m |-> Body(f, i)]
<1>1. JoinedText(cl, m).linenum = J[m].linenum
  BY Zenon DEF JoinedText
<1>2. ASSUME NEW f, NEW i PROVE JoinStep(c, f, i) = Body(f, i)
  BY Zenon DEF JoinStep, BeginsBlock, ClosesBlock
<1> HIDE DEF Body, c
<1>3. PICK f : f = [i \in 0..m |-> JoinStep(c, f, i)]
  <2> DEFINE g == JoinRec!Recursive(c, 0, m)
  <2>1. g = [i \in 0..m |-> JoinStep(c, g, i)]
    BY JoinEquation DEF c
  <2> HIDE DEF g
  <2> QED
    BY <2>1
<1>4. f = [i \in 0..m |-> Body(f, i)]
  BY <1>2, <1>3
<1>5. J = [i \in 0..m |-> Body(J, i)]
  BY <1>4, Zenon
<1> HIDE DEF J
<1>6. J = [i \in 0..m |-> JoinStep(c, J, i)]
  BY <1>2, <1>5
<1> QED
  BY <1>1, <1>6 DEF c

\* It never comes to an end only if all the code up to here begins blocks.
LEMMA JoinedHangs ==
  ASSUME NEW cl, NEW m \in Nat, JoinedText(cl, m).linenum = -1
  PROVE  \A k \in 0..m : cl[k].elided # <<>> =>
           BeginsBlock(cl[k]) /\ (EndsStatement(cl, k) => k = m)
<1> DEFINE c == [lines |-> cl, closed |-> ClosesBlock(cl[m].elided)]
<1>1. PICK f : JoinedText(cl, m).linenum = f[m].linenum
               /\ f = [i \in 0..m |-> JoinStep(c, f, i)]
  BY JoinedTop
<1>2. c.lines = cl
  OBVIOUS
<1> HIDE DEF c
<1> DEFINE Bare(i) == \A k \in 0..i : cl[k].elided # <<>> =>
                        BeginsBlock(cl[k]) /\ (EndsStatement(cl, k) => k = i)
           S == {i \in Nat : i \in 0..m /\ f[i].linenum = -1 => Bare(i)}
<1>3. ASSUME NEW i \in Nat, \A k \in 0..i - 1 : k \in S PROVE i \in S
  <2>1. SUFFICES ASSUME i \in 0..m, f[i].linenum = -1 PROVE Bare(i)
    OBVIOUS
  <2> DEFINE p == GetPreviousNonBlankLine(cl, i)
  <2>2. p \in -1..i - 1 /\ \A k \in p + 1..i - 1 : cl[k].elided = <<>>
    BY PreviousCode
  <2>3. f[i] = JoinStep(c, f, i)
    BY <1>1, <2>1
  <2>4. /\ BeginsBlock(cl[i])
        /\ p # -1 => ~EndsStatement(cl, p) /\ f[p].linenum = -1
    <3> DEFINE on == c.closed /\ BeginsBlock(cl[i])
               halts == EndsStatement(cl, p)
               here == [linenum |-> i, text |-> <<>>]
               never == [linenum |-> -1, text |-> <<>>]
    <3>1. f[i] = IF ~on \/ (p # -1 /\ halts) THEN here ELSE IF p = -1 THEN never ELSE f[p]
      BY <1>2, <2>3 DEF JoinStep
    <3>2. here.linenum # -1
      OBVIOUS
    <3>3. on /\ (p # -1 => ~halts)
      <4> HIDE DEF here, never, p
      <4> QED
        BY <2>1, <3>1, <3>2
    <3>4. p # -1 => f[i] = f[p]
      <4> HIDE DEF here, never, p
      <4> QED
        BY <3>1, <3>3
    <3> QED
      BY <2>1, <3>3, <3>4
  <2>5. p # -1 => Bare(p)
    <3>1. p # -1 => p \in 0..i - 1 /\ p \in 0..m
      BY <2>1, <2>2
    <3> HIDE DEF p, Bare
    <3> QED
      BY <1>3, <2>4, <3>1
  <2> HIDE DEF p
  <2>6. ASSUME NEW k \in 0..i, cl[k].elided # <<>>
        PROVE  BeginsBlock(cl[k]) /\ (EndsStatement(cl, k) => k = i)
    <3>1. CASE k = i
      BY <2>4, <3>1
    <3>2. CASE k # i
      <4>1. k \in 0..i - 1 /\ k \notin p + 1..i - 1
        BY <2>2, <2>6, <3>2
      <4>2. p # -1 /\ k \in 0..p
        BY <2>2, <4>1
      <4> QED
        BY <2>4, <2>5, <2>6, <4>2
    <3> QED
      BY <3>1, <3>2
  <2> QED
    BY <2>6
<1>4. Nat \subseteq S
  <2> HIDE DEF S
  <2> QED
    BY <1>3, StrongInduction
<1>5. Bare(m)
  <2>1. m \in 0..m /\ f[m].linenum = -1
    BY <1>1
  <2> HIDE DEF Bare
  <2> QED
    BY <1>4, <2>1
<1> QED
  BY <1>5

-----------------------------------------------------------------------------
(* What holds of the reports while a file is checked.                      *)

\* A report about this file that should be printed and is not is suppressed.
Excused(log) ==
  \A i \in 1..Len(log.reports) :
    LET r == log.reports[i]
    IN /\ r.file = log.file /\ ~r.printed
       /\ r.confidence >= log.verboseLevel /\ ~IsFiltered(log, r.category)
       => IsErrorSuppressedByNolint(log, r.category, r.linenum)

\* Suppressions are asked for by the line they are for.
Asked(f, log) ==
  \A s \in log.suppressions : s[2] \in 1..Len(f.lines) /\ f.lines[s[2]].nolint = s[1]

NoneAhead(log) == \A i \in 1..Len(log.reports) : log.reports[i].file <= log.file

\* The states of the report while f is checked.
Sound(f) == {log \in LintState : Counted(log) /\ Excused(log) /\ Asked(f, log) /\ NoneAhead(log)}

LEMMA ErrorSound ==
  ASSUME NEW f, NEW log \in Sound(f), NEW n \in Nat, NEW c \in Categories,
         NEW confidence \in 0..5
  PROVE  Error(log, n, c, confidence) \in Sound(f)
<1> DEFINE next == Error(log, n, c, confidence)
           r == [file |-> log.file, linenum |-> n, category |-> c, confidence |-> confidence,
                 printed |-> ShouldPrintError(log, c, confidence, n)]
<1>1. /\ log \in LintState /\ Counted(log) /\ Excused(log) /\ Asked(f, log) /\ NoneAhead(log)
      /\ log.reports \in Seq(Report) /\ log.file \in Nat
  BY DEF Sound, LintState
<1>2. r.file = log.file /\ r.linenum = n /\ r.category = c /\ r.confidence = confidence
      /\ r.printed = ShouldPrintError(log, c, confidence, n)
  OBVIOUS
<1>3. r \in Report /\ next \in LintState /\ Reported(log, next, r)
  <2> HIDE DEF next, r
  <2>1. next = Error(log, n, c, confidence)
    BY DEF next
  <2>2. r = [file |-> log.file, linenum |-> n, category |-> c, confidence |-> confidence,
             printed |-> ShouldPrintError(log, c, confidence, n)]
    BY DEF r
  <2> QED
    BY <1>1, <2>1, <2>2, ErrorEffect
<1>4. Counted(next)
  BY <1>1, ErrorCounted
<1> HIDE DEF next, r
<1>5. /\ next.reports = Append(log.reports, r) /\ next.file = log.file
      /\ next.suppressions = log.suppressions /\ next.filters = log.filters
      /\ next.verboseLevel = log.verboseLevel
  BY <1>3 DEF Reported
<1>6. /\ Len(next.reports) = Len(log.reports) + 1 /\ Len(log.reports) \in Nat
      /\ next.reports[Len(log.reports) + 1] = r
      /\ \A i \in 1..Len(log.reports) : next.reports[i] = log.reports[i]
  BY <1>1, <1>3, <1>5
<1>7. Asked(f, next)
  BY <1>1, <1>5 DEF Asked
<1>8. NoneAhead(next)
  <2>1. \A i \in 1..Len(log.reports) : next.reports[i].file <= next.file
    BY <1>1, <1>5, <1>6 DEF NoneAhead
  <2>2. r.file <= next.file
    BY <1>1, <1>2, <1>5
  <2> QED
    BY <1>6, <2>1, <2>2 DEF NoneAhead
<1>9. /\ \A d : IsFiltered(next, d) <=> IsFiltered(log, d)
      /\ \A d, i : IsErrorSuppressedByNolint(next, d, i) <=> IsErrorSuppressedByNolint(log, d, i)
  BY <1>5 DEF IsFiltered, IsErrorSuppressedByNolint
<1>10. Excused(next)
  <2>1. ASSUME NEW i \in 1..Len(next.reports),
               next.reports[i].file = next.file, ~next.reports[i].printed,
               next.reports[i].confidence >= next.verboseLevel,
               ~IsFiltered(next, next.reports[i].category)
        PROVE  IsErrorSuppressedByNolint(next, next.reports[i].category, next.reports[i].linenum)
    <3>1. CASE i \in 1..Len(log.reports)
      BY <1>1, <1>5, <1>6, <1>9, <2>1, <3>1 DEF Excused
    <3>2. CASE i = Len(log.reports) + 1
      <4>1. ~ShouldPrintError(log, c, confidence, n) /\ confidence >= log.verboseLevel
            /\ ~IsFiltered(log, c)
        BY <1>2, <1>5, <1>6, <1>9, <2>1, <3>2
      <4>2. IsErrorSuppressedByNolint(log, c, n)
        BY <4>1 DEF ShouldPrintError
      <4> QED
        BY <1>2, <1>6, <1>9, <3>2, <4>2
    <3> QED
      BY <1>6, <3>1, <3>2
  <2> QED
    BY <2>1 DEF Excused
<1>11. next \in Sound(f)
  BY <1>3, <1>4, <1>7, <1>8, <1>10 DEF Sound
<1> QED
  BY <1>11 DEF next

\* So does reading a NOLINT comment of the file.
LEMMA NolintSound ==
  ASSUME NEW f, NEW log \in Sound(f), NEW nolint, NEW l \in Nat,
         nolint # "no" => l \in 1..Len(f.lines) /\ f.lines[l].nolint = nolint
  PROVE  ParseNolintSuppressions(log, nolint, l) \in Sound(f)
<1> DEFINE next == [log EXCEPT !.suppressions = @ \cup {<<nolint, l>>}]
<1>1. Error(log, l, "readability/nolint", 5) \in Sound(f)
  <2>1. "readability/nolint" \in Categories /\ 5 \in 0..5
    BY DEF Categories, Readability
  <2> QED
    BY <2>1, ErrorSound
<1>2. ASSUME nolint # "no", nolint \in Categories \cup {"all"}
      PROVE  next \in Sound(f)
  <2>1. /\ log \in LintState /\ Counted(log) /\ Excused(log) /\ Asked(f, log) /\ NoneAhead(log)
        /\ log.suppressions \in SUBSET ((Categories \cup {"all"}) \X Nat)
    BY DEF Sound, LintState
  <2> DEFINE more == log.suppressions \cup {<<nolint, l>>}
  <2>2. more \in SUBSET ((Categories \cup {"all"}) \X Nat)
    BY <1>2, <2>1
  <2>3. next = [log EXCEPT !.suppressions = more]
    OBVIOUS
  <2>4. \A s \in more : s[2] \in 1..Len(f.lines) /\ f.lines[s[2]].nolint = s[1]
    BY <1>2, <2>1 DEF Asked
  <2>5. log.suppressions \subseteq more
    OBVIOUS
  <2> HIDE DEF more, next
  <2>6. next \in LintState
    BY <2>1, <2>2, <2>3, LintStateField
  <2>7. /\ next.reports = log.reports /\ next.file = log.file
        /\ next.suppressions = more /\ next.filters = log.filters
        /\ next.verboseLevel = log.verboseLevel /\ next.counting = log.counting
        /\ next.errorCount = log.errorCount /\ next.errorsByCategory = log.errorsByCategory
    BY <2>1, <2>3 DEF LintState
  <2>8. Counted(next) /\ NoneAhead(next)
    BY <2>1, <2>7 DEF Counted, NoneAhead
  <2>9. Asked(f, next)
    BY <2>4, <2>7 DEF Asked
  <2>10. /\ \A d : IsFiltered(next, d) <=> IsFiltered(log, d)
         /\ \A d, i : IsErrorSuppressedByNolint(log, d, i) => IsErrorSuppressedByNolint(next, d, i)
    BY <2>5, <2>7 DEF IsFiltered, IsErrorSuppressedByNolint
  <2>11. Excused(next)
    BY <2>1, <2>7, <2>10 DEF Excused
  <2> QED
    BY <2>6, <2>8, <2>9, <2>11 DEF Sound
<1>3. ParseNolintSuppressions(log, nolint, l) =
        CASE nolint = "no" -> log
          [] nolint \in Categories \cup {"all"} -> next
          [] OTHER -> Error(log, l, "readability/nolint", 5)
  BY DEF ParseNolintSuppressions
<1>4. "no" \notin Categories \cup {"all"}
  BY DEF Categories, Build, Legal, Readability, Whitespace
<1> HIDE DEF next
<1> QED
  BY <1>1, <1>2, <1>3, <1>4

\* A new file begins without reports and suppressions of its own.
LEMMA NewFileSound ==
  ASSUME NEW f, NEW g, NEW log \in Sound(f)
  PROVE  /\ [ResetNolintSuppressions(log) EXCEPT !.file = @ + 1] \in Sound(g)
         /\ [ResetNolintSuppressions(log) EXCEPT !.file = @ + 1].file = log.file + 1
         /\ [ResetNolintSuppressions(log) EXCEPT !.file = @ + 1].reports = log.reports
<1> DEFINE empty == [log EXCEPT !.suppressions = {}]
           next == [empty EXCEPT !.file = empty.file + 1]
<1>1. /\ log \in LintState /\ Counted(log) /\ NoneAhead(log)
      /\ log.file \in Nat /\ log.reports \in Seq(Report)
  BY DEF Sound, LintState
<1>2. [ResetNolintSuppressions(log) EXCEPT !.file = @ + 1] = next
  BY DEF ResetNolintSuppressions
<1>3. empty \in LintState
  BY <1>1, LintStateField
<1>4. /\ empty.reports = log.reports /\ empty.file = log.file
      /\ empty.suppressions = {} /\ empty.filters = log.filters
      /\ empty.verboseLevel = log.verboseLevel /\ empty.counting = log.counting
      /\ empty.errorCount = log.errorCount /\ empty.errorsByCategory = log.errorsByCategory
  BY <1>1 DEF LintState
<1> HIDE DEF empty
<1>5. empty.file + 1 \in Nat
  BY <1>1, <1>4
<1>6. next \in LintState
  BY <1>3, <1>5, LintStateField
<1>7. /\ next.reports = log.reports /\ next.file = log.file + 1
      /\ next.suppressions = {} /\ next.counting = log.counting
      /\ next.errorCount = log.errorCount /\ next.errorsByCategory = log.errorsByCategory
  BY <1>3, <1>4 DEF LintState
<1> HIDE DEF next
<1>8. Counted(next)
  BY <1>1, <1>7 DEF Counted
<1>9. \A i \in 1..Len(next.reports) : next.reports[i].file < next.file
  <2>1. \A i \in 1..Len(log.reports) : log.reports[i].file <= log.file /\ log.reports[i].file \in Nat
    <3>1. ASSUME NEW i \in 1..Len(log.reports)
          PROVE  log.reports[i].file <= log.file /\ log.reports[i].file \in Nat
      <4>1. log.reports[i] \in Report
        BY <1>1
      <4> QED
        BY <1>1, <4>1 DEF NoneAhead, Report
    <3> QED
      BY <3>1
  <2> QED
    BY <1>1, <1>7, <2>1
<1>10. ASSUME NEW i \in 1..Len(next.reports) PROVE next.reports[i].file \in Nat
  <2>1. next.reports[i] \in Report
    BY <1>1, <1>7
  <2> QED
    BY <2>1 DEF Report
<1>11. next.file \in Nat
  BY <1>1, <1>7
<1>12. NoneAhead(next) /\ Excused(next) /\ Asked(g, next)
  BY <1>7, <1>9, <1>10, <1>11 DEF NoneAhead, Excused, Asked
<1>13. next \in Sound(g)
  BY <1>6, <1>8, <1>12 DEF Sound
<1> QED
  BY <1>2, <1>7, <1>13

-----------------------------------------------------------------------------
(* The lines reported in a category.                                       *)

At(log, cat) ==
  {log.reports[i].linenum : i \in {j \in 1..Len(log.reports) :
     log.reports[j].file = log.file /\ log.reports[j].category = cat}}

\* The states of the report in which S has been reported about the k-th file.
Holding(k, v, cat, S) ==
  {log \in LintState : log.file = k /\ log.verboseLevel = v /\ At(log, cat) = S}

\* One report adds its line to those of its category, and changes no other.
LEMMA ErrorAt ==
  ASSUME NEW k, NEW v, NEW cat, NEW S, NEW log \in Holding(k, v, cat, S),
         NEW n \in Nat, NEW c \in Categories, NEW confidence \in 0..5
  PROVE  Error(log, n, c, confidence) \in Holding(k, v, cat, S \cup IF c = cat THEN {n} ELSE {})
<1> DEFINE next == Error(log, n, c, confidence)
           r == [file |-> log.file, linenum |-> n, category |-> c, confidence |-> confidence,
                 printed |-> ShouldPrintError(log, c, confidence, n)]
<1>1. log \in LintState /\ log.file = k /\ log.verboseLevel = v /\ At(log, cat) = S
      /\ log.reports \in Seq(Report)
  BY DEF Holding, LintState
<1>2. r.file = log.file /\ r.linenum = n /\ r.category = c
  OBVIOUS
<1>3. next \in LintState /\ Reported(log, next, r)
  <2> HIDE DEF next, r
  <2>1. next = Error(log, n, c, confidence)
    BY DEF next
  <2>2. r = [file |-> log.file, linenum |-> n, category |-> c, confidence |-> confidence,
             printed |-> ShouldPrintError(log, c, confidence, n)]
    BY DEF r
  <2> QED
    BY <1>1, <2>1, <2>2, ErrorEffect
<1> HIDE DEF next, r
<1>4. /\ next.reports = Append(log.reports, r) /\ next.file = k
      /\ next.verboseLevel = v
  BY <1>1, <1>3 DEF Reported
<1>5. /\ Len(next.reports) = Len(log.reports) + 1 /\ Len(log.reports) \in Nat
      /\ next.reports[Len(log.reports) + 1] = r
      /\ \A i \in 1..Len(log.reports) : next.reports[i] = log.reports[i]
  BY <1>1, <1>4
<1>6. At(next, cat) = S \cup IF c = cat THEN {n} ELSE {}
  <2>1. ASSUME NEW l \in At(next, cat) PROVE l \in S \cup IF c = cat THEN {n} ELSE {}
    <3>1. PICK i \in 1..Len(next.reports) :
            next.reports[i].file = next.file /\ next.reports[i].category = cat
            /\ l = next.reports[i].linenum
      BY <2>1 DEF At
    <3>2. CASE i = Len(log.reports) + 1
      BY <1>2, <1>5, <3>1, <3>2
    <3>3. CASE i \in 1..Len(log.reports)
      BY <1>1, <1>4, <1>5, <3>1, <3>3 DEF At
    <3> QED
      BY <1>5, <3>1, <3>2, <3>3
  <2>2. ASSUME NEW l \in S PROVE l \in At(next, cat)
    <3>1. PICK i \in 1..Len(log.reports) :
            log.reports[i].file = log.file /\ log.reports[i].category = cat
            /\ l = log.reports[i].linenum
      BY <1>1, <2>2 DEF At
    <3>2. i \in 1..Len(next.reports)
      BY <1>5, <3>1
    <3> QED
      BY <1>1, <1>4, <1>5, <3>1, <3>2 DEF At
  <2>3. ASSUME c = cat PROVE n \in At(next, cat)
    <3>1. Len(log.reports) + 1 \in 1..Len(next.reports)
      BY <1>5
    <3> QED
      BY <1>1, <1>2, <1>4, <1>5, <2>3, <3>1 DEF At
  <2> QED
    BY <2>1, <2>2, <2>3
<1>7. next \in Holding(k, v, cat, S \cup IF c = cat THEN {n} ELSE {})
  BY <1>3, <1>4, <1>6 DEF Holding
<1> QED
  BY <1>7 DEF next

\* An unclosed comment or string is reported in a category of its own.
LEMMA HoldingClosed ==
  ASSUME NEW k, NEW v, NEW cat, NEW S
  PROVE  Closed(Holding(k, v, cat, S), Categories \ {cat})
<1>1. ASSUME NEW log \in Holding(k, v, cat, S), NEW n \in Nat, NEW c \in Categories \ {cat},
             NEW confidence \in 0..5
      PROVE  Error(log, n, c, confidence) \in Holding(k, v, cat, S)
  <2>1. Error(log, n, c, confidence) \in Holding(k, v, cat, S \cup IF c = cat THEN {n} ELSE {})
    BY ErrorAt
  <2>2. (S \cup IF c = cat THEN {n} ELSE {}) = S
    OBVIOUS
  <2> QED
    BY <2>1, <2>2
<1> QED
  BY <1>1 DEF Closed

\* ParseNolintSuppressions reports in its own category only.
LEMMA HoldingNolint ==
  ASSUME NEW k, NEW v, NEW cat, cat # "readability/nolint", NEW S,
         NEW log \in Holding(k, v, cat, S), NEW nolint, NEW l \in Nat
  PROVE  ParseNolintSuppressions(log, nolint, l) \in Holding(k, v, cat, S)
<1> DEFINE more == log.suppressions \cup {<<nolint, l>>}
           next == [log EXCEPT !.suppressions = more]
<1>1. log \in LintState /\ log.file = k /\ log.verboseLevel = v /\ At(log, cat) = S
      /\ log.suppressions \in SUBSET ((Categories \cup {"all"}) \X Nat)
  BY DEF Holding, LintState
<1>2. Error(log, l, "readability/nolint", 5) \in Holding(k, v, cat, S)
  <2>1. "readability/nolint" \in Categories \ {cat} /\ 5 \in 0..5
    BY DEF Categories, Readability
  <2> QED
    BY <2>1, HoldingClosed DEF Closed
<1>3. ASSUME nolint \in Categories \cup {"all"} PROVE next \in Holding(k, v, cat, S)
  <2>1. more \in SUBSET ((Categories \cup {"all"}) \X Nat)
    BY <1>1, <1>3
  <2> HIDE DEF more
  <2>2. next \in LintState
    BY <1>1, <2>1, LintStateField
  <2>3. next.file = k /\ next.verboseLevel = v /\ next.reports = log.reports
    BY <1>1 DEF LintState
  <2> HIDE DEF next
  <2> QED
    BY <1>1, <2>2, <2>3 DEF Holding, At
<1>4. ParseNolintSuppressions(log, nolint, l) =
        CASE nolint = "no" -> log
          [] nolint \in Categories \cup {"all"} -> next
          [] OTHER -> Error(log, l, "readability/nolint", 5)
  BY DEF ParseNolintSuppressions
<1>5. "no" \notin Categories \cup {"all"}
  BY DEF Categories, Build, Legal, Readability, Whitespace
<1> HIDE DEF next
<1> QED
  BY <1>2, <1>3, <1>4, <1>5
=============================================================================
