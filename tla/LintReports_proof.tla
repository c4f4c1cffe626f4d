---------------------------- MODULE LintReports_proof ----------------------------
(***************************************************************************)
(* Proofs about what cpplint.py reports on includes, long functions and    *)
(* missing headers, and about preprocessor branches: it keeps a summary of *)
(* the lines so far, and that is enough to report what a look at the whole *)
(* file would.                                                             *)
(***************************************************************************)
EXTENDS Lint_proof

-----------------------------------------------------------------------------
(* The reports about the file at hand.                                     *)

\* The lines of a category, of the report at hand.
LEMMA ReportedAtIs ==
  ASSUME NEW cat
  PROVE  ReportedAt(cat) = At(lint, cat)
BY DEF ReportedAt, Mine, At

\* What has been reported about the file at hand.
LEMMA LintHolds ==
  ASSUME Inv, NEW cat
  PROVE  lint \in Holding(lint.file, lint.verboseLevel, cat, ReportedAt(cat))
<1>1. lint \in LintState
  BY DEF Inv, TypeOK
<1> QED
  BY <1>1, ReportedAtIs DEF Holding

\* The categories whose reports are known exactly.
Judged == {"build/include_order", "build/include_alpha", "readability/fn_size",
           "build/include_what_you_use"}

\* Nothing of these is reported about a file before its first line.
LEMMA BeginHolds ==
  ASSUME Inv, BeginFile, NEW cat \in Judged
  PROVE  lint' \in Holding(lint.file + 1, lint.verboseLevel, cat, {})
<1> DEFINE f == Head(todo)
           k == lint.file + 1
           T == Holding(k, lint.verboseLevel, cat, {})
           K == Categories \ {cat}
           n == Len(f.lines) + 1
           raw == Marked(f)
           empty == [lint EXCEPT !.suppressions = {}]
           reset == [empty EXCEPT !.file = @ + 1]
           copyright == CheckForCopyright(reset, raw)
           guard == IF f.ext = "h" THEN CheckForHeaderGuard(copyright, raw, f, root) ELSE copyright
           comments == RemoveMultiLineComments(raw)
<1>1. /\ todo \in Seq(SourceFile) /\ todo # <<>> /\ lint \in LintState /\ lint.file \in Nat
      /\ NoneAhead(lint) /\ lint.reports \in Seq(Report)
  BY DEF Inv, TypeOK, BeginFile, LintState, Sound
<1>2. lint' = UnclosedReports(guard, comments.unclosed)
  BY DEF BeginFile, UnclosedReports, ResetNolintSuppressions
<1>3. f.lines \in Seq(SourceLine)
  <2>1. f \in SourceFile
    BY <1>1
  <2> QED
    BY <2>1 DEF SourceFile
<1> HIDE DEF f
<1>4. n \in Nat /\ raw \in [0..n -> SourceLine]
  <2>1. n \in Nat
    BY <1>3
  <2>2. raw \in [0..n -> SourceLine]
    BY <1>3, MarkerType DEF Marked
  <2> QED
    BY <2>1, <2>2
<1>5. reset \in T
  <2>1. empty \in LintState
    BY <1>1, LintStateField
  <2>2. /\ empty.reports = lint.reports /\ empty.file = lint.file
        /\ empty.verboseLevel = lint.verboseLevel
    BY <1>1 DEF LintState
  <2> HIDE DEF empty
  <2>3. reset = [empty EXCEPT !.file = k] /\ k \in Nat
    BY <1>1, <2>1, <2>2 DEF LintState
  <2>4. reset \in LintState
    BY <2>1, <2>3, LintStateField
  <2>5. reset.reports = lint.reports /\ reset.file = k /\ reset.verboseLevel = lint.verboseLevel
    BY <2>1, <2>2, <2>3 DEF LintState
  <2> HIDE DEF reset
  <2>6. At(reset, cat) = {}
    <3>1. ASSUME NEW j \in 1..Len(lint.reports) PROVE lint.reports[j].file # k
      <4>1. lint.reports[j] \in Report
        BY <1>1
      <4>2. lint.reports[j].file \in Nat /\ lint.reports[j].file <= lint.file
        BY <1>1, <4>1 DEF Report, NoneAhead
      <4> QED
        BY <1>1, <4>2
    <3> QED
      BY <2>5, <3>1 DEF At
  <2> QED
    BY <2>4, <2>5, <2>6 DEF Holding
<1>6. Closed(T, K)
  BY HoldingClosed
<1>7. ClosedNolint(T, raw)
  <2>1. ASSUME NEW log \in T, NEW i \in DOMAIN raw
        PROVE  ParseNolintSuppressions(log, raw[i].nolint, i) \in T
    <3>1. i \in Nat /\ cat # "readability/nolint"
      BY <1>4 DEF Judged
    <3> HIDE DEF raw, k
    <3> QED
      BY <3>1, HoldingNolint
  <2> HIDE DEF T, raw
  <2> QED
    BY <2>1 DEF ClosedNolint
<1>8. /\ "legal/copyright" \in K /\ "build/header_guard" \in K
      /\ "readability/multiline_comment" \in K
  BY DEF Judged, Categories, Legal, Build, Readability
<1> HIDE DEF T, raw, reset, K, n
<1>9. copyright \in T
  BY <1>5, <1>6, <1>8, CopyrightStays
<1> HIDE DEF copyright
<1>10. guard \in T
  <2>1. CheckForHeaderGuard(copyright, raw, f, root) \in T
    BY <1>4, <1>6, <1>7, <1>8, <1>9, HeaderGuardStays
  <2> QED
    BY <1>9, <2>1
<1> HIDE DEF guard
<1>11. comments.unclosed \in SUBSET (0..n)
  BY <1>4, RemoveMultiLineCommentsType
<1> HIDE DEF comments
<1>12. lint' \in T
  BY <1>2, <1>4, <1>6, <1>8, <1>10, <1>11, UnclosedStays
<1> QED
  BY <1>12 DEF T

\* Without assembly blocks every line is checked: first all but its #include,
\* in the states T, then that.
LEMMA LineReads ==
  ASSUME NEW T, NEW K, Closed(T, K), StyleCategories \subseteq K,
         {"readability/multiline_comment", "readability/multiline_string",
          "readability/namespace"} \subseteq K,
         NEW n \in Nat, lines \in [0..n -> CleanLine], linenum \in 0..n,
         nesting \in Nestings({"no"}), NEW W, "asm" \notin W, lines[linenum].elided \in Seq(W),
         ProcessLine, pc' = "lines",
         ParseNolintSuppressions(lint, lines[linenum].raw.nolint, linenum) \in T
  PROVE  /\ nesting' \in Nestings({"no"}) /\ linenum' = linenum + 1
         /\ \E log \in T : \E measured \in {CheckForFunctionLengths(function, log, lines, linenum)} :
              /\ function' = measured.function
              /\ measured.lint \in T =>
                   \E styled \in T :
                     IF Starts(linenum, {"#include"})
                     THEN \E included \in {CheckIncludeLine(includes, styled, file,
                                                            Include(linenum), linenum)} :
                            includes' = included.includes /\ lint' = included.lint
                     ELSE includes' = includes /\ lint' = styled
<1> DEFINE noted == ParseNolintSuppressions(lint, lines[linenum].raw.nolint, linenum)
           updated == Update(nesting, noted, lines, linenum)
           measured == CheckForFunctionLengths(function, updated.lint, lines, linenum)
           closed == CheckForMultilineCommentsAndStrings(measured.lint, lines, linenum)
           styled == CheckStyle(closed, lines, linenum, updated.nesting)
<1>1. nesting' = updated.nesting
  BY DEF ProcessLine
<1>2. InlineAsm(updated.nesting) \/ CheckLine(updated.lint, updated.nesting)
  BY DEF ProcessLine
<1>3. noted \in T
  OBVIOUS
<1> HIDE DEF noted
<1>4. updated.nesting \in Nestings({"no"}) /\ updated.lint \in T
  <2>1. "readability/namespace" \in K /\ Tracked({"no"}, W)
    BY DEF Tracked
  <2> QED
    BY <1>3, <2>1, UpdateStays
<1> HIDE DEF updated
<1>5. ~InlineAsm(updated.nesting)
  <2>1. updated.nesting.stack \in Seq(Blocks({"no"}))
    BY <1>4 DEF Nestings
  <2>2. updated.nesting.stack # <<>> => Last(updated.nesting.stack) \in Blocks({"no"})
    BY <2>1 DEF Last
  <2>3. updated.nesting.stack # <<>> => Last(updated.nesting.stack).inlineAsm = "no"
    BY <2>2 DEF Blocks
  <2> QED
    BY <2>3 DEF InlineAsm
<1>6. /\ function' = measured.function /\ linenum' = linenum + 1
      /\ StyleAndLanguage(closed, updated.nesting)
  BY <1>2, <1>5 DEF CheckLine
<1> HIDE DEF measured
<1>7. measured.lint \in T => closed \in T
  <2>1. linenum \in Nat /\ {"readability/multiline_comment", "readability/multiline_string"} \subseteq K
    OBVIOUS
  <2> QED
    BY <2>1, MultilineStays
<1> HIDE DEF closed
<1>8. closed \in T => styled \in T
  BY StyleStays
<1>9. IF Starts(linenum, {"#include"})
      THEN \E included \in {CheckIncludeLine(includes, styled, file, Include(linenum), linenum)} :
             includes' = included.includes /\ lint' = included.lint
      ELSE includes' = includes /\ lint' = styled
  BY <1>6 DEF StyleAndLanguage, Starts, Elided, Include
<1> HIDE DEF styled
<1>10. measured.lint \in T =>
         \E s \in T :
           IF Starts(linenum, {"#include"})
           THEN \E included \in {CheckIncludeLine(includes, s, file, Include(linenum), linenum)} :
                  includes' = included.includes /\ lint' = included.lint
           ELSE includes' = includes /\ lint' = s
  BY <1>7, <1>8, <1>9
<1> QED
  BY <1>1, <1>4, <1>6, <1>10 DEF measured

-----------------------------------------------------------------------------
(* Includes: the section reached and the last header stand for all that    *)
(* has been included so far.                                               *)

RankAt(i) == Rank[Canonical(Include(i))]

\* The largest section of the headers before line m, Initial if there is none.
SectionReached(section, m) ==
  /\ \A j \in FirstIncludes : j < m => SectionOf(j) <= section
  /\ section # Initial => \E j \in FirstIncludes : j < m /\ SectionOf(j) = section

\* The alphabet has not begun anew between line j and line m.
SameStretch(j, m) ==
  /\ j \in FirstIncludes /\ j < m
  /\ \A k \in FirstIncludes : j < k /\ k < m => ~BeginsAlphabet(k)

\* The largest rank since then.
LastReached(last, m) ==
  /\ \A j \in FirstIncludes : SameStretch(j, m) => RankAt(j) <= last
  /\ last # 0 => \E j \in FirstIncludes : SameStretch(j, m) /\ RankAt(j) = last

OutOfAlphabet(i) ==
  ~BeginsAlphabet(i) /\ \E j \in FirstIncludes : SameStretch(j, i) /\ RankAt(j) > RankAt(i)

\* CheckIncludeLine reports nothing else of these categories.
LEMMA IncludeReports ==
  ASSUME NEW k, NEW v, NEW S, NEW cat \in {"build/include_order", "build/include_alpha"},
         NEW log \in Holding(k, v, cat, S), NEW state, NEW target, NEW include, NEW l \in Nat,
         NEW type, type = ClassifyInclude(target, include)
  PROVE  CheckIncludeLine(state, log, target, include, l).lint
           \in Holding(k, v, cat,
                 S \cup IF /\ <<include.path, include.ext>> \notin state.seen
                          /\ \/ cat = "build/include_order" /\ OutOfOrder(state.section, type)
                             \/ /\ cat = "build/include_alpha"
                                /\ ~InAlphabeticalOrder(CheckNextIncludeOrder(state, type), include)
                       THEN {l} ELSE {})
<1> DEFINE ordered == CheckNextIncludeOrder(state, type)
           again == <<include.path, include.ext>> \in state.seen
           bad == /\ ~again
                  /\ \/ cat = "build/include_order" /\ OutOfOrder(state.section, type)
                     \/ cat = "build/include_alpha" /\ ~InAlphabeticalOrder(ordered, include)
           style == ErrorIf(log, /\ ~include.isSystem /\ include.ext = "h"
                                 /\ LastSlash(include.path) = 0,
                            l, "build/include", 4)
           order == ErrorIf(style, OutOfOrder(state.section, type), l, "build/include_order", 4)
           alpha == ErrorIf(order, ~InAlphabeticalOrder(ordered, include), l,
                            "build/include_alpha", 4)
           before == IF again THEN Error(style, l, "build/include", 4) ELSE alpha
           H(P) == Holding(k, v, cat, P)
           O == S \cup IF cat = "build/include_order" /\ OutOfOrder(state.section, type)
                       THEN {l} ELSE {}
           R == S \cup IF bad THEN {l} ELSE {}
<1>1. CheckIncludeLine(state, log, target, include, l).lint =
        ErrorIf(before, IsStream(include) /\ ~IsTestFilename(target), l,
                "readability/streams", 3)
  BY DEF CheckIncludeLine
<1>2. {"build/include", "build/include_order", "build/include_alpha", "readability/streams"}
        \subseteq Categories
  BY DEF Categories, Build, Readability
<1>3. ASSUME NEW P, NEW x \in H(P)
      PROVE  /\ Error(x, l, "build/include", 4) \in H(P)
             /\ Error(x, l, "readability/streams", 3) \in H(P)
             /\ cat # "build/include_order" => Error(x, l, "build/include_order", 4) \in H(P)
             /\ cat # "build/include_alpha" => Error(x, l, "build/include_alpha", 4) \in H(P)
             /\ cat = "build/include_order" =>
                  Error(x, l, "build/include_order", 4) \in H(P \cup {l})
             /\ cat = "build/include_alpha" =>
                  Error(x, l, "build/include_alpha", 4) \in H(P \cup {l})
  <2>1. Closed(H(P), Categories \ {cat})
    BY HoldingClosed
  <2>2. cat # "build/include" /\ cat # "readability/streams"
    OBVIOUS
  <2>3. \A c \in Categories \ {cat} : Error(x, l, c, 4) \in H(P) /\ Error(x, l, c, 3) \in H(P)
    <3> 3 \in 0..5 /\ 4 \in 0..5
      OBVIOUS
    <3> HIDE DEF H
    <3> QED
      BY <2>1 DEF Closed
  <2>4. Error(x, l, cat, 4) \in H(P \cup {l})
    <3>1. cat \in Categories /\ 4 \in 0..5
      BY <1>2
    <3>2. Error(x, l, cat, 4) \in Holding(k, v, cat, P \cup IF cat = cat THEN {l} ELSE {})
      BY <3>1, ErrorAt
    <3> QED
      BY <3>2
  <2> HIDE DEF H
  <2> QED
    BY <1>2, <2>2, <2>3, <2>4
<1>4. log \in H(S)
  OBVIOUS
<1> HIDE DEF H
<1>5. style \in H(S)
  BY <1>3, <1>4 DEF ErrorIf
<1> HIDE DEF style
<1>6. order \in H(O)
  BY <1>3, <1>5 DEF ErrorIf
<1> HIDE DEF order
<1>7. alpha \in H(O \cup IF cat = "build/include_alpha" /\ ~InAlphabeticalOrder(ordered, include)
                         THEN {l} ELSE {})
  <2> HIDE DEF O, ordered
  <2> QED
    BY <1>3, <1>6 DEF ErrorIf
<1> HIDE DEF alpha
<1>8. before \in H(R)
  <2>1. CASE again
    <3>1. R = S
      BY <2>1
    <3> HIDE DEF R
    <3> QED
      BY <1>3, <1>5, <2>1, <3>1
  <2>2. CASE ~again
    <3>1. R = O \cup IF cat = "build/include_alpha" /\ ~InAlphabeticalOrder(ordered, include)
                     THEN {l} ELSE {}
      BY <2>2
    <3> HIDE DEF R, O
    <3> QED
      BY <1>7, <2>2, <3>1
  <2> QED
    BY <2>1, <2>2
<1> HIDE DEF before, R
<1>9. ErrorIf(before, IsStream(include) /\ ~IsTestFilename(target), l,
              "readability/streams", 3) \in H(R)
  BY <1>3, <1>8 DEF ErrorIf
<1> QED
  BY <1>1, <1>9 DEF H, R

\* The section of a header is that of its rank.
LEMMA SectionOfType ==
  ASSUME NEW i
  PROVE  /\ SectionOf(i) \in 1..4
         /\ LET type == ClassifyInclude(file, Include(i))
                mine(t) == t \in {"likely_my", "possible_my"}
            IN  /\ type \in HeaderTypes
                /\ type = "c_sys" => SectionOf(i) = 2
                /\ type = "cpp_sys" => SectionOf(i) = 3
                /\ type = "other" => SectionOf(i) = 4
                /\ mine(type) =>
                     SectionOf(i) =
                       IF \A j \in FirstIncludes : j < i => mine(ClassifyInclude(file, Include(j)))
                       THEN 1 ELSE 4
<1>1. ClassifyInclude(file, Include(i)) \in HeaderTypes
  BY ClassifyIncludeType
<1> QED
  BY <1>1 DEF SectionOf, HeaderTypes, CSection, CppSection, OtherH, MyH

(* The section reached is all that CheckNextIncludeOrder needs: it moves   *)
(* to the larger one, and a header is out of order if its own is smaller.  *)
LEMMA SectionStep ==
  ASSUME NEW n \in Nat, DOMAIN lines = 0..n, NEW i \in FirstIncludes, NEW section \in Sections,
         SectionReached(section, i), NEW type, type = ClassifyInclude(file, Include(i))
  PROVE  /\ NextSection(section, type) = IF SectionOf(i) > section THEN SectionOf(i) ELSE section
         /\ OutOfOrder(section, type) <=> SectionOf(i) < section
         /\ Misplaced(i) <=> SectionOf(i) < section
         /\ BeginsAlphabet(i) <=> SectionOf(i) # section
<1> DEFINE mine(t) == t \in {"likely_my", "possible_my"}
           typeOf(j) == ClassifyInclude(file, Include(j))
           all == \A j \in FirstIncludes : j < i => mine(typeOf(j))
<1>1. /\ FirstIncludes \subseteq Int /\ section \in 0..4 /\ i \in Int
  BY DEF FirstIncludes, IncludeLines, Sections, Initial, OtherH
<1>2. /\ \A j \in FirstIncludes : j < i => SectionOf(j) <= section
      /\ section # 0 => \E j \in FirstIncludes : j < i /\ SectionOf(j) = section
  BY DEF SectionReached, Initial
<1>3. \A j : SectionOf(j) \in 1..4
  BY SectionOfType
<1>4. /\ type \in HeaderTypes
      /\ type = "c_sys" => SectionOf(i) = 2
      /\ type = "cpp_sys" => SectionOf(i) = 3
      /\ type = "other" => SectionOf(i) = 4
      /\ mine(type) => SectionOf(i) = IF all THEN 1 ELSE 4
  BY SectionOfType
<1>5. ~all => section >= 2
  <2> SUFFICES ASSUME NEW j \in FirstIncludes, j < i, ~mine(typeOf(j)) PROVE section >= 2
    OBVIOUS
  <2>1. SectionOf(j) >= 2
    BY SectionOfType DEF HeaderTypes
  <2> QED
    BY <1>1, <1>2, <1>3, <2>1
<1>6. all => section <= 1
  <2> SUFFICES ASSUME all, section # 0 PROVE section = 1
    BY <1>1
  <2>1. PICK j \in FirstIncludes : j < i /\ SectionOf(j) = section
    BY <1>2
  <2>2. \A h \in FirstIncludes : h < j => mine(typeOf(h))
    <3>1. \A h \in FirstIncludes : h < j => h < i
      BY <1>1, <2>1
    <3> QED
      BY <3>1
  <2>3. mine(typeOf(j))
    BY <2>1
  <2>4. SectionOf(j) = 1
    BY <2>2, <2>3, SectionOfType
  <2> QED
    BY <2>1, <2>4
<1> HIDE DEF all
<1>7. /\ NextSection(section, type) = IF SectionOf(i) > section THEN SectionOf(i) ELSE section
      /\ OutOfOrder(section, type) <=> SectionOf(i) < section
  BY <1>1, <1>4, <1>5, <1>6
     DEF NextSection, OutOfOrder, HeaderTypes, CSection, CppSection, OtherH, MyH
<1>8. Misplaced(i) <=> SectionOf(i) < section
  <2>1. ASSUME Misplaced(i) PROVE SectionOf(i) < section
    <3>1. PICK j \in FirstIncludes : j < i /\ SectionOf(j) > SectionOf(i)
      BY <2>1 DEF Misplaced
    <3>2. SectionOf(j) <= section /\ SectionOf(j) \in Int /\ SectionOf(i) \in Int
      BY <1>2, <1>3, <3>1
    <3> QED
      BY <1>1, <3>1, <3>2
  <2>2. ASSUME SectionOf(i) < section PROVE Misplaced(i)
    <3>1. section # 0
      BY <1>1, <1>3, <2>2
    <3>2. PICK j \in FirstIncludes : j < i /\ SectionOf(j) = section
      BY <1>2, <3>1
    <3> QED
      BY <2>2, <3>2 DEF Misplaced
  <2> QED
    BY <2>1, <2>2
<1>9. BeginsAlphabet(i) <=> SectionOf(i) # section
  <2>1. (\A j \in FirstIncludes : j < i => SectionOf(j) < SectionOf(i)) <=> SectionOf(i) > section
    <3>1. ASSUME SectionOf(i) > section, NEW j \in FirstIncludes, j < i
          PROVE  SectionOf(j) < SectionOf(i)
      <4>1. SectionOf(j) <= section /\ SectionOf(j) \in Int /\ SectionOf(i) \in Int
        BY <1>2, <1>3, <3>1
      <4> QED
        BY <1>1, <3>1, <4>1
    <3>2. ASSUME \A j \in FirstIncludes : j < i => SectionOf(j) < SectionOf(i)
          PROVE  SectionOf(i) > section
      <4>1. section # 0 => section < SectionOf(i)
        BY <1>2, <3>2
      <4>2. SectionOf(i) \in 1..4
        BY <1>3
      <4> QED
        BY <1>1, <4>1, <4>2
    <3> QED
      BY <3>1, <3>2
  <2>2. SectionOf(i) \in Int
    BY <1>3
  <2> QED
    BY <1>1, <1>8, <2>1, <2>2 DEF BeginsAlphabet
<1> QED
  BY <1>7, <1>8, <1>9

\* What the state of the #include checks and the reports say before line m.
IncludesAt(state, m, order, alpha) ==
  /\ \A i \in IncludeLines : i < m => NameAt(i) \in state.seen
  /\ \A name \in state.seen : \E i \in IncludeLines : i < m /\ NameAt(i) = name
  /\ SectionReached(state.section, m)
  /\ LastReached(state.lastHeader, m)
  /\ order = {l \in FirstIncludes : l < m /\ Misplaced(l)}
  /\ alpha = {l \in FirstIncludes : l < m /\ OutOfAlphabet(l)}

\* What CheckIncludeLine leaves of the state.
IncludeSeen(state, target, include) ==
  IF <<include.path, include.ext>> \in state.seen THEN state
  ELSE [RememberInOrder(CheckNextIncludeOrder(state, ClassifyInclude(target, include)), include)
          EXCEPT !.seen = @ \cup {<<include.path, include.ext>>}]

\* A line that includes nothing, or nothing new, changes nothing.
LEMMA IncludeNothing ==
  ASSUME NEW n \in Nat, lines \in [0..n -> CleanLine], NEW m \in 0..n, m \notin FirstIncludes,
         NEW state, NEW order, NEW alpha, IncludesAt(state, m, order, alpha)
  PROVE  /\ m \in IncludeLines => NameAt(m) \in state.seen
         /\ IncludesAt(state, m + 1, order, alpha)
<1>1. IncludeLines \subseteq 0..n /\ FirstIncludes \subseteq IncludeLines
  BY DEF IncludeLines, FirstIncludes
<1>2. m \in IncludeLines => \E j \in IncludeLines : j < m /\ NameAt(j) = NameAt(m)
  BY DEF FirstIncludes
<1>3. m \in IncludeLines => NameAt(m) \in state.seen
  BY <1>2 DEF IncludesAt
<1>4. \A j \in FirstIncludes : j < m + 1 <=> j < m
  BY <1>1
<1>5. SectionReached(state.section, m + 1)
  BY <1>4 DEF IncludesAt, SectionReached
<1>6. \A j \in FirstIncludes : SameStretch(j, m + 1) <=> SameStretch(j, m)
  BY <1>4 DEF SameStretch
<1>7. LastReached(state.lastHeader, m + 1)
  BY <1>6 DEF IncludesAt, LastReached
<1>8. \A i \in IncludeLines : i < m + 1 => NameAt(i) \in state.seen
  <2> SUFFICES ASSUME NEW i \in IncludeLines, i < m + 1 PROVE NameAt(i) \in state.seen
    OBVIOUS
  <2>1. i < m \/ i = m
    BY <1>1
  <2> QED
    BY <1>3, <2>1 DEF IncludesAt
<1>9. \A name \in state.seen : \E i \in IncludeLines : i < m + 1 /\ NameAt(i) = name
  <2>1. \A i \in IncludeLines : i < m => i < m + 1
    BY <1>1
  <2> QED
    BY <2>1 DEF IncludesAt
<1>10. /\ order = {l \in FirstIncludes : l < m + 1 /\ Misplaced(l)}
       /\ alpha = {l \in FirstIncludes : l < m + 1 /\ OutOfAlphabet(l)}
  BY <1>4 DEF IncludesAt
<1> QED
  BY <1>3, <1>5, <1>7, <1>8, <1>9, <1>10 DEF IncludesAt

\* A header that is new: the section and the alphabet follow, and it is
\* reported if it is misplaced or out of the alphabet.
LEMMA IncludeNew ==
  ASSUME NEW n \in Nat, lines \in [0..n -> CleanLine], NEW m \in FirstIncludes,
         \A i \in IncludeLines : RankAt(i) \in Nat \ {0},
         NEW state \in Includes, NEW order, NEW alpha, IncludesAt(state, m, order, alpha),
         NEW type, type = ClassifyInclude(file, Include(m))
  PROVE  /\ NameAt(m) \notin state.seen
         /\ OutOfOrder(state.section, type) <=> Misplaced(m)
         /\ ~InAlphabeticalOrder(CheckNextIncludeOrder(state, type), Include(m))
              <=> OutOfAlphabet(m)
         /\ IncludesAt(IncludeSeen(state, file, Include(m)), m + 1,
                       order \cup IF Misplaced(m) THEN {m} ELSE {},
                       alpha \cup IF OutOfAlphabet(m) THEN {m} ELSE {})
<1> DEFINE s == SectionOf(m)
           section == state.section
           last == state.lastHeader
           rank == RankAt(m)
           begins == BeginsAlphabet(m)
           reset == IF begins THEN 0 ELSE last
           ordered == CheckNextIncludeOrder(state, type)
           remembered == RememberInOrder(ordered, Include(m))
           next == IncludeSeen(state, file, Include(m))
<1>1. /\ IncludeLines \subseteq 0..n /\ FirstIncludes \subseteq IncludeLines
      /\ DOMAIN lines = 0..n /\ m \in 0..n
  BY DEF IncludeLines, FirstIncludes
<1>2. NameAt(m) \notin state.seen
  BY DEF FirstIncludes, IncludesAt
<1>3. /\ SectionReached(section, m) /\ LastReached(last, m)
      /\ section \in Sections /\ last \in Nat /\ rank \in Nat \ {0}
  BY <1>1 DEF IncludesAt, Includes
<1>4. /\ NextSection(section, type) = IF s > section THEN s ELSE section
      /\ OutOfOrder(section, type) <=> s < section
      /\ Misplaced(m) <=> s < section
      /\ begins <=> s # section
  BY <1>1, <1>3, SectionStep
<1>5. section \in Int /\ s \in Int
  BY <1>3, SectionOfType DEF Sections, Initial, OtherH
<1>6. OutOfOrder(section, type) \/ NextSection(section, type) # section <=> begins
  BY <1>4, <1>5
<1>7. ordered.section = (IF s > section THEN s ELSE section) /\ ordered.lastHeader = reset
      /\ ordered.seen = state.seen
  <2>1. ordered = [seen |-> state.seen, section |-> NextSection(section, type),
                   lastHeader |-> IF OutOfOrder(section, type) \/ NextSection(section, type) # section
                                  THEN 0 ELSE last]
    BY DEF CheckNextIncludeOrder, Includes
  <2> QED
    BY <1>4, <1>6, <2>1
<1>8. ordered = [seen |-> state.seen, section |-> ordered.section, lastHeader |-> reset]
  <2>1. ordered = [seen |-> state.seen, section |-> NextSection(section, type),
                   lastHeader |-> IF OutOfOrder(section, type) \/ NextSection(section, type) # section
                                  THEN 0 ELSE last]
    BY DEF CheckNextIncludeOrder, Includes
  <2> QED
    BY <1>6, <2>1
<1> HIDE DEF ordered
<1>9. InAlphabeticalOrder(ordered, Include(m)) <=> reset <= rank
  BY <1>7 DEF InAlphabeticalOrder, RankAt
<1>10. remembered = [seen |-> state.seen, section |-> ordered.section,
                     lastHeader |-> IF reset <= rank THEN rank ELSE reset]
  BY <1>8, <1>9 DEF RememberInOrder, RankAt
<1> HIDE DEF remembered
<1>11. next.section = (IF s > section THEN s ELSE section)
       /\ next.lastHeader = (IF reset <= rank THEN rank ELSE reset)
       /\ next.seen = state.seen \cup {NameAt(m)}
  <2>1. next = [remembered EXCEPT !.seen = @ \cup {NameAt(m)}]
    BY <1>2 DEF IncludeSeen, NameAt, remembered, ordered
  <2> QED
    BY <1>7, <1>10, <2>1
<1> HIDE DEF next
<1>12. OutOfAlphabet(m) <=> reset > rank
  <2>1. ASSUME OutOfAlphabet(m) PROVE reset > rank
    <3>1. PICK j \in FirstIncludes : SameStretch(j, m) /\ RankAt(j) > rank
      BY <2>1 DEF OutOfAlphabet
    <3>2. RankAt(j) <= last /\ RankAt(j) \in Nat
      BY <1>1, <1>3, <3>1 DEF LastReached
    <3>3. ~begins
      BY <2>1 DEF OutOfAlphabet
    <3> QED
      BY <1>3, <3>1, <3>2, <3>3
  <2>2. ASSUME reset > rank PROVE OutOfAlphabet(m)
    <3>1. ~begins /\ last > rank /\ last # 0
      BY <1>3, <2>2
    <3>2. PICK j \in FirstIncludes : SameStretch(j, m) /\ RankAt(j) = last
      BY <1>3, <3>1 DEF LastReached
    <3> QED
      BY <3>1, <3>2 DEF OutOfAlphabet
  <2> QED
    BY <2>1, <2>2
<1>13. ~InAlphabeticalOrder(ordered, Include(m)) <=> OutOfAlphabet(m)
  BY <1>3, <1>9, <1>12
<1>14. \A j \in IncludeLines : j < m + 1 <=> j < m \/ j = m
  BY <1>1
<1>15. SectionReached(next.section, m + 1)
  <2>1. ASSUME NEW j \in FirstIncludes, j < m + 1 PROVE SectionOf(j) <= next.section
    <3>1. j < m \/ j = m
      BY <1>1, <1>14, <2>1
    <3>2. SectionOf(j) \in Int
      BY SectionOfType
    <3>3. j < m => SectionOf(j) <= section
      BY <1>3 DEF SectionReached
    <3> QED
      BY <1>5, <1>11, <3>1, <3>2, <3>3
  <2>2. ASSUME next.section # Initial
        PROVE  \E j \in FirstIncludes : j < m + 1 /\ SectionOf(j) = next.section
    <3>1. CASE s > section
      BY <1>1, <1>11, <1>14, <3>1
    <3>2. CASE ~(s > section)
      <4>1. next.section = section
        BY <1>11, <3>2
      <4>2. PICK j \in FirstIncludes : j < m /\ SectionOf(j) = section
        BY <1>3, <2>2, <4>1 DEF SectionReached
      <4> QED
        BY <1>1, <1>14, <4>1, <4>2
    <3> QED
      BY <3>1, <3>2
  <2> QED
    BY <2>1, <2>2 DEF SectionReached
<1>16. \A j \in FirstIncludes : SameStretch(j, m + 1) <=> j = m \/ (SameStretch(j, m) /\ ~begins)
  <2> SUFFICES ASSUME NEW j \in FirstIncludes
               PROVE  SameStretch(j, m + 1) <=> j = m \/ (SameStretch(j, m) /\ ~begins)
    OBVIOUS
  <2>1. j \in 0..n
    BY <1>1
  <2>2. CASE j = m
    <3>1. \A k \in FirstIncludes : ~(m < k /\ k < m + 1)
      BY <1>1
    <3> QED
      BY <1>1, <2>2, <3>1 DEF SameStretch
  <2>3. CASE j < m
    <3>1. \A k \in FirstIncludes : j < k /\ k < m + 1 <=> (j < k /\ k < m) \/ k = m
      BY <1>1, <1>14, <2>1, <2>3
    <3> QED
      BY <1>1, <2>1, <2>3, <3>1 DEF SameStretch
  <2>4. CASE j > m
    BY <1>1, <2>1, <2>4 DEF SameStretch
  <2> QED
    BY <1>1, <2>1, <2>2, <2>3, <2>4
<1>17. LastReached(next.lastHeader, m + 1)
  <2>1. ASSUME NEW j \in FirstIncludes, SameStretch(j, m + 1) PROVE RankAt(j) <= next.lastHeader
    <3>1. RankAt(j) \in Nat
      BY <1>1
    <3>2. j = m \/ (SameStretch(j, m) /\ ~begins)
      BY <1>16, <2>1
    <3>3. SameStretch(j, m) => RankAt(j) <= last
      BY <1>3 DEF LastReached
    <3> QED
      BY <1>3, <1>11, <3>1, <3>2, <3>3
  <2>2. \E j \in FirstIncludes : SameStretch(j, m + 1) /\ RankAt(j) = next.lastHeader
    <3>1. CASE reset <= rank
      BY <1>11, <1>16, <3>1
    <3>2. CASE ~(reset <= rank)
      <4>1. ~begins /\ next.lastHeader = last /\ last # 0
        BY <1>3, <1>11, <3>2
      <4>2. PICK j \in FirstIncludes : SameStretch(j, m) /\ RankAt(j) = last
        BY <1>3, <4>1 DEF LastReached
      <4> QED
        BY <1>16, <4>1, <4>2
    <3> QED
      BY <3>1, <3>2
  <2> QED
    BY <2>1, <2>2 DEF LastReached
<1>18. \A i \in IncludeLines : i < m + 1 => NameAt(i) \in next.seen
  BY <1>11, <1>14 DEF IncludesAt
<1>19. \A name \in next.seen : \E i \in IncludeLines : i < m + 1 /\ NameAt(i) = name
  BY <1>1, <1>11, <1>14 DEF IncludesAt
<1>20. /\ order \cup (IF Misplaced(m) THEN {m} ELSE {})
            = {l \in FirstIncludes : l < m + 1 /\ Misplaced(l)}
       /\ alpha \cup (IF OutOfAlphabet(m) THEN {m} ELSE {})
            = {l \in FirstIncludes : l < m + 1 /\ OutOfAlphabet(l)}
  <2>1. /\ order = {l \in FirstIncludes : l < m /\ Misplaced(l)}
        /\ alpha = {l \in FirstIncludes : l < m /\ OutOfAlphabet(l)}
        /\ \A l \in FirstIncludes : l < m + 1 <=> l < m \/ l = m
    BY <1>1, <1>14 DEF IncludesAt
  <2> QED
    BY <2>1
<1>21. IncludesAt(next, m + 1, order \cup IF Misplaced(m) THEN {m} ELSE {},
                  alpha \cup IF OutOfAlphabet(m) THEN {m} ELSE {})
  BY <1>15, <1>17, <1>18, <1>19, <1>20 DEF IncludesAt
<1> QED
  BY <1>2, <1>4, <1>13, <1>21 DEF next, ordered

\* What is known before a line, and so before the next.
IncludesJudged ==
  pc = "lines" /\ NoAsm =>
    /\ nesting \in Nestings({"no"})
    /\ IncludesAt(includes, linenum, ReportedAt("build/include_order"),
                  ReportedAt("build/include_alpha"))

\* It depends on nothing but the lines and the file.
LEMMA IncludesFrame ==
  ASSUME file' = file, lines' = lines, NEW state, NEW m, NEW order, NEW alpha
  PROVE  IncludesAt(state, m, order, alpha)' = IncludesAt(state, m, order, alpha)
<1>1. IncludeLines' = IncludeLines
  BY DEF IncludeLines, Starts, Elided
<1>2. \A i : NameAt(i)' = NameAt(i)
  BY DEF NameAt, Include
<1>3. FirstIncludes' = FirstIncludes
  BY <1>1, <1>2 DEF FirstIncludes
<1>4. \A i : SectionOf(i)' = SectionOf(i)
  BY <1>3 DEF SectionOf, Include
<1>5. \A i : Misplaced(i)' = Misplaced(i)
  BY <1>3, <1>4 DEF Misplaced
<1>6. \A i : BeginsAlphabet(i)' = BeginsAlphabet(i)
  BY <1>3, <1>4, <1>5 DEF BeginsAlphabet
<1>7. \A i : RankAt(i)' = RankAt(i)
  BY DEF RankAt, Include
<1>8. \A i, j : SameStretch(i, j)' = SameStretch(i, j)
  BY <1>3, <1>6 DEF SameStretch
<1>9. \A i : OutOfAlphabet(i)' = OutOfAlphabet(i)
  BY <1>3, <1>6, <1>7, <1>8 DEF OutOfAlphabet
<1>10. SectionReached(state.section, m)' = SectionReached(state.section, m)
  BY <1>3, <1>4 DEF SectionReached
<1>11. LastReached(state.lastHeader, m)' = LastReached(state.lastHeader, m)
  BY <1>3, <1>7, <1>8 DEF LastReached
<1> QED
  BY <1>1, <1>2, <1>3, <1>5, <1>9, <1>10, <1>11 DEF IncludesAt

\* Nothing has been included yet.
LEMMA IncludesBegin ==
  ASSUME Inv, BeginFile
  PROVE  IncludesJudged'
<1>1. /\ linenum' = 0 /\ includes' = IncludeState /\ nesting' = NestingState
      /\ IncludeState.seen = {} /\ IncludeState.section = Initial /\ IncludeState.lastHeader = 0
  BY DEF BeginFile, IncludeState
<1>2. nesting' \in Nestings({"no"})
  <2>1. <<>> \in Seq(Blocks({"no"})) /\ <<>> \in Seq(ConditionsOn({"no"}))
    OBVIOUS
  <2> QED
    BY <1>1, <2>1, Zenon DEF NestingState, Nestings
<1>3. ASSUME NEW cat \in Judged PROVE ReportedAt(cat)' = {}
  <2>1. lint' \in Holding(lint.file + 1, lint.verboseLevel, cat, {})
    BY BeginHolds
  <2>2. At(lint', cat) = {}
    BY <2>1 DEF Holding
  <2> QED
    BY <2>2 DEF ReportedAt, Mine, At
<1>4. ReportedAt("build/include_order")' = {} /\ ReportedAt("build/include_alpha")' = {}
  BY <1>3 DEF Judged
<1>5. \A i \in IncludeLines' : ~(i < 0)
  <2>1. Inv' /\ pc' = "lines"
    BY BeginInv DEF BeginFile
  <2>2. file' \in SourceFile /\ RankedFile(file)' /\ lines' = LinesOf(file')
    BY <2>1 DEF Inv, TypeOK
  <2>3. RankedFile(file')
    BY <2>2 DEF RankedFile
  <2>4. Len(file'.lines) + 1 \in Nat \ {0} /\ DOMAIN lines' = 0..Len(file'.lines) + 1
    BY <2>2, <2>3, LinesOfType
  <2> QED
    BY <2>4 DEF IncludeLines
<1>6. PICK state : state = IncludeState
  OBVIOUS
<1>7. IncludesAt(state, 0, {}, {})'
  BY <1>1, <1>5, <1>6
     DEF IncludesAt, SectionReached, LastReached, FirstIncludes, SameStretch, Initial
<1> QED
  BY <1>1, <1>2, <1>4, <1>6, <1>7 DEF IncludesJudged

\* Without assembly blocks, the #include of a line is the only one that makes
\* reports of these categories.
LEMMA LineIncludes ==
  ASSUME Inv, ProcessLine, pc' = "lines", NoAsm, nesting \in Nestings({"no"}),
         NEW cat \in {"build/include_order", "build/include_alpha"},
         NEW type, type = ClassifyInclude(file, Include(linenum))
  PROVE  /\ nesting' \in Nestings({"no"}) /\ linenum' = linenum + 1
         /\ includes' = IF linenum \in IncludeLines
                        THEN IncludeSeen(includes, file, Include(linenum)) ELSE includes
         /\ ReportedAt(cat)' =
              ReportedAt(cat) \cup
                IF /\ linenum \in IncludeLines /\ NameAt(linenum) \notin includes.seen
                   /\ \/ cat = "build/include_order" /\ OutOfOrder(includes.section, type)
                      \/ /\ cat = "build/include_alpha"
                         /\ ~InAlphabeticalOrder(CheckNextIncludeOrder(includes, type),
                                                 Include(linenum))
                THEN {linenum} ELSE {}
<1> DEFINE n == Len(file.lines) + 1
           k == lint.file
           v == lint.verboseLevel
           S == ReportedAt(cat)
           T == Holding(k, v, cat, S)
           K == Categories \ {cat}
           t == lines[linenum].elided
           W == {t[j] : j \in 1..Len(t)}
           again == NameAt(linenum) \in includes.seen
           bad == /\ ~again
                  /\ \/ cat = "build/include_order" /\ OutOfOrder(includes.section, type)
                     \/ /\ cat = "build/include_alpha"
                        /\ ~InAlphabeticalOrder(CheckNextIncludeOrder(includes, type),
                                                Include(linenum))
<1>1. /\ n \in Nat /\ lines \in [0..n -> CleanLine] /\ NumLines(lines) = n + 1
      /\ pc = "lines" /\ linenum < NumLines(lines)
  <2>1. pc = "lines" /\ linenum < NumLines(lines)
    BY DEF ProcessLine
  <2> QED
    BY <2>1, FileAtHand
<1> HIDE DEF n
<1>2. linenum \in 0..n /\ linenum \in Nat /\ function \in Function
  BY <1>1 DEF Inv, TypeOK
<1>3. "asm" \notin W /\ t \in Seq(W)
  <2>1. t \in Seq(STRING)
    BY <1>1, <1>2 DEF CleanLine
  <2>2. "asm" \notin W
    BY <1>1, <1>2 DEF NoAsm, Mentions
  <2>3. t \in Seq(W)
    BY <2>1
  <2> QED
    BY <2>2, <2>3
<1> HIDE DEF W
<1>4. lint \in T
  BY LintHolds
<1>5. Closed(T, K)
  BY HoldingClosed
<1>6. /\ StyleCategories \subseteq K /\ "readability/fn_size" \in K
      /\ {"readability/multiline_comment", "readability/multiline_string",
          "readability/namespace"} \subseteq K
      /\ cat # "readability/nolint"
  BY DEF StyleCategories, Categories, Build, Readability, Whitespace
<1>7. ParseNolintSuppressions(lint, lines[linenum].raw.nolint, linenum) \in T
  BY <1>2, <1>4, <1>6, HoldingNolint
<1> HIDE DEF T, K
<1>8. /\ nesting' \in Nestings({"no"}) /\ linenum' = linenum + 1
      /\ \E log \in T : \E measured \in {CheckForFunctionLengths(function, log, lines, linenum)} :
           /\ function' = measured.function
           /\ measured.lint \in T =>
                \E styled \in T :
                  IF Starts(linenum, {"#include"})
                  THEN \E included \in {CheckIncludeLine(includes, styled, file,
                                                         Include(linenum), linenum)} :
                         includes' = included.includes /\ lint' = included.lint
                  ELSE includes' = includes /\ lint' = styled
  BY <1>1, <1>2, <1>3, <1>5, <1>6, <1>7, LineReads
<1>9. PICK log \in T : \E measured \in {CheckForFunctionLengths(function, log, lines, linenum)} :
           measured.lint \in T =>
                \E styled \in T :
                  IF Starts(linenum, {"#include"})
                  THEN \E included \in {CheckIncludeLine(includes, styled, file,
                                                         Include(linenum), linenum)} :
                         includes' = included.includes /\ lint' = included.lint
                  ELSE includes' = includes /\ lint' = styled
  BY <1>8
<1>10. CheckForFunctionLengths(function, log, lines, linenum).lint \in T
  BY <1>2, <1>5, <1>6, FunctionLengthsStay
<1>11. PICK styled \in T :
         IF Starts(linenum, {"#include"})
         THEN \E included \in {CheckIncludeLine(includes, styled, file, Include(linenum), linenum)} :
                includes' = included.includes /\ lint' = included.lint
         ELSE includes' = includes /\ lint' = styled
  BY <1>9, <1>10
<1>12. Starts(linenum, {"#include"}) <=> linenum \in IncludeLines
  BY <1>1, <1>2 DEF IncludeLines
<1>13. CASE linenum \in IncludeLines
  <2> DEFINE included == CheckIncludeLine(includes, styled, file, Include(linenum), linenum)
  <2>1. includes' = included.includes /\ lint' = included.lint
    BY <1>11, <1>12, <1>13
  <2>2. included.includes = IncludeSeen(includes, file, Include(linenum))
    BY DEF CheckIncludeLine, IncludeSeen
  <2>3. included.lint \in Holding(k, v, cat, S \cup IF bad THEN {linenum} ELSE {})
    <3>1. styled \in Holding(k, v, cat, S)
      BY DEF T
    <3> HIDE DEF k, v, S
    <3> QED
      BY <1>2, <3>1, IncludeReports DEF NameAt
  <2>4. At(lint', cat) = S \cup IF bad THEN {linenum} ELSE {}
    BY <2>1, <2>3 DEF Holding
  <2>5. ReportedAt(cat)' = At(lint', cat)
    BY DEF ReportedAt, Mine, At
  <2> HIDE DEF included
  <2> QED
    BY <1>8, <1>13, <2>1, <2>2, <2>4, <2>5
<1>14. CASE linenum \notin IncludeLines
  <2>1. includes' = includes /\ lint' \in Holding(k, v, cat, S)
    BY <1>11, <1>12, <1>14 DEF T
  <2>2. ReportedAt(cat)' = S
    BY <2>1 DEF ReportedAt, Mine, At, Holding
  <2> QED
    BY <1>8, <1>14, <2>1, <2>2
<1> QED
  BY <1>13, <1>14

\* A line keeps what is known of the includes.
LEMMA IncludesProcess ==
  ASSUME Inv, IncludesJudged, ProcessLine
  PROVE  IncludesJudged'
<1>1. file' = file /\ lines' = lines /\ pc = "lines" /\ linenum < NumLines(lines)
  BY DEF ProcessLine
<1>2. NoAsm' = NoAsm
  BY <1>1 DEF NoAsm
<1> SUFFICES ASSUME pc' = "lines", NoAsm
             PROVE  /\ nesting' \in Nestings({"no"})
                    /\ IncludesAt(includes, linenum, ReportedAt("build/include_order"),
                                  ReportedAt("build/include_alpha"))'
  BY <1>2 DEF IncludesJudged
<1> DEFINE m == linenum
           n == Len(file.lines) + 1
           order == ReportedAt("build/include_order")
           alpha == ReportedAt("build/include_alpha")
           include == Include(linenum)
           type == ClassifyInclude(file, include)
           misplaced == m \in IncludeLines /\ NameAt(m) \notin includes.seen
                        /\ OutOfOrder(includes.section, type)
           unsorted == m \in IncludeLines /\ NameAt(m) \notin includes.seen
                       /\ ~InAlphabeticalOrder(CheckNextIncludeOrder(includes, type), include)
<1>3. nesting \in Nestings({"no"}) /\ IncludesAt(includes, m, order, alpha)
  BY <1>1 DEF IncludesJudged
<1>4. /\ n \in Nat /\ lines \in [0..n -> CleanLine] /\ m \in 0..n
      /\ includes \in Includes
      /\ \A i \in 0..n : lines[i].elided # <<>> /\ lines[i].elided[1] = "#include" =>
                   Canonical(lines[i].raw.header) \in DOMAIN Rank
  <2>1. /\ n \in Nat \ {0} /\ lines \in [0..n -> CleanLine] /\ NumLines(lines) = n + 1
        /\ \A i \in 0..n : lines[i].elided # <<>> /\ lines[i].elided[1] = "#include" =>
                   Canonical(lines[i].raw.header) \in DOMAIN Rank
    BY <1>1, FileAtHand
  <2> QED
    BY <1>1, <2>1 DEF Inv, TypeOK
<1> HIDE DEF n
<1>5. \A i \in IncludeLines : RankAt(i) \in Nat \ {0}
  <2> SUFFICES ASSUME NEW i \in IncludeLines PROVE RankAt(i) \in Nat \ {0}
    OBVIOUS
  <2>1. i \in 0..n /\ lines[i].elided # <<>> /\ lines[i].elided[1] = "#include"
    BY <1>4 DEF IncludeLines, Starts, Elided
  <2>2. Canonical(lines[i].raw.header) \in DOMAIN Rank
    BY <1>4, <2>1
  <2> QED
    BY <2>2, LintIncludesAssumption DEF RankAt, Include
<1>6. /\ nesting' \in Nestings({"no"}) /\ linenum' = m + 1
      /\ includes' = IF m \in IncludeLines THEN IncludeSeen(includes, file, include) ELSE includes
      /\ ReportedAt("build/include_order")' = order \cup IF misplaced THEN {m} ELSE {}
      /\ ReportedAt("build/include_alpha")' = alpha \cup IF unsorted THEN {m} ELSE {}
  <2>1. PICK kind : kind = type
    OBVIOUS
  <2>2. /\ nesting' \in Nestings({"no"}) /\ linenum' = m + 1
        /\ includes' = IF m \in IncludeLines THEN IncludeSeen(includes, file, include) ELSE includes
        /\ ReportedAt("build/include_order")' = order \cup IF misplaced THEN {m} ELSE {}
    BY <1>3, <2>1, LineIncludes
  <2>3. ReportedAt("build/include_alpha")' = alpha \cup IF unsorted THEN {m} ELSE {}
    BY <1>3, <2>1, LineIncludes
  <2> QED
    BY <2>2, <2>3
<1>7. \E state, o, a : /\ state = includes' /\ o = ReportedAt("build/include_order")'
                       /\ a = ReportedAt("build/include_alpha")'
                       /\ IncludesAt(state, m + 1, o, a)
  <2>1. CASE m \in FirstIncludes
    <3>1. PICK kind : kind = type
      OBVIOUS
    <3>2. m \in IncludeLines
      BY <2>1 DEF FirstIncludes
    <3>3. /\ NameAt(m) \notin includes.seen
          /\ OutOfOrder(includes.section, kind) <=> Misplaced(m)
          /\ ~InAlphabeticalOrder(CheckNextIncludeOrder(includes, kind), include)
               <=> OutOfAlphabet(m)
          /\ IncludesAt(IncludeSeen(includes, file, include), m + 1,
                        order \cup IF Misplaced(m) THEN {m} ELSE {},
                        alpha \cup IF OutOfAlphabet(m) THEN {m} ELSE {})
      BY <1>3, <1>4, <1>5, <2>1, <3>1, IncludeNew
    <3>4. misplaced = Misplaced(m) /\ unsorted = OutOfAlphabet(m)
      BY <3>1, <3>2, <3>3 DEF Misplaced, OutOfAlphabet
    <3> HIDE DEF misplaced, unsorted, order, alpha
    <3> QED
      BY <1>6, <3>2, <3>3, <3>4
  <2>2. CASE m \notin FirstIncludes
    <3>1. /\ m \in IncludeLines => NameAt(m) \in includes.seen
          /\ IncludesAt(includes, m + 1, order, alpha)
      BY <1>3, <1>4, <2>2, IncludeNothing
    <3>2. ~misplaced /\ ~unsorted /\ includes' = includes
      BY <1>6, <3>1 DEF IncludeSeen, NameAt
    <3> HIDE DEF misplaced, unsorted, order, alpha
    <3> QED
      BY <1>6, <3>1, <3>2
  <2> QED
    BY <2>1, <2>2
<1>8. PICK state, o, a : /\ state = includes' /\ o = ReportedAt("build/include_order")'
                         /\ a = ReportedAt("build/include_alpha")'
                         /\ IncludesAt(state, m + 1, o, a)
  BY <1>7
<1>9. PICK next : next = linenum + 1
  OBVIOUS
<1>10. IncludesAt(state, next, o, a)'
  BY <1>1, <1>8, <1>9, IncludesFrame
<1> QED
  BY <1>6, <1>8, <1>9, <1>10

\* So does every step.
LEMMA IncludesInductive ==
  Inv /\ IncludesJudged /\ [Next]_vars => IncludesJudged'
<1> SUFFICES ASSUME Inv, IncludesJudged, [Next]_vars PROVE IncludesJudged'
  OBVIOUS
<1>1. CASE BeginFile
  BY <1>1, IncludesBegin
<1>2. CASE ProcessLine
  BY <1>2, IncludesProcess
<1>3. CASE ~BeginFile /\ ~ProcessLine
  <2>1. UNCHANGED vars \/ pc' # "lines"
    BY <1>3 DEF Next, ParseArgumentsExits, ParseArguments, SkipFile, FinishFile, Finish, Exit
  <2>2. ASSUME UNCHANGED vars PROVE IncludesJudged'
    <3>1. file' = file /\ lines' = lines /\ pc' = pc /\ NoAsm' = NoAsm
      BY <2>2 DEF vars, NoAsm
    <3>2. PICK state, m, o, a : /\ state = includes /\ m = linenum
                                /\ o = ReportedAt("build/include_order")
                                /\ a = ReportedAt("build/include_alpha")
      OBVIOUS
    <3>3. IncludesAt(state, m, o, a)' = IncludesAt(state, m, o, a)
      BY <3>1, IncludesFrame
    <3>4. /\ includes' = includes /\ linenum' = linenum /\ nesting' = nesting
          /\ ReportedAt("build/include_order")' = ReportedAt("build/include_order")
          /\ ReportedAt("build/include_alpha")' = ReportedAt("build/include_alpha")
      BY <2>2 DEF vars, ReportedAt, Mine
    <3> QED
      BY <3>1, <3>2, <3>3, <3>4 DEF IncludesJudged
  <2> QED
    BY <2>1, <2>2 DEF IncludesJudged
<1> QED
  BY <1>1, <1>2, <1>3

(* The section and the last header that _IncludeState keeps are those of   *)
(* the headers included before the line at hand, and the headers out of    *)
(* order or of the alphabet among them have been reported, and no other.   *)
THEOREM IncludesInvariant == Spec => []IncludesJudged
<1>1. Init => IncludesJudged
  BY DEF Init, IncludesJudged
<1> QED
  BY <1>1, IncludesInductive, LintInvariant, PTL DEF Spec

(* When the last line is checked, the lines that include a header are all  *)
(* before.                                                                 *)
LEMMA AllIncluded ==
  ASSUME Inv, IncludesJudged, AllChecked, NoAsm
  PROVE  /\ ReportedAt("build/include_order") = {i \in FirstIncludes : Misplaced(i)}
         /\ ReportedAt("build/include_alpha") = {i \in FirstIncludes : OutOfAlphabet(i)}
<1> DEFINE n == Len(file.lines) + 1
<1>1. pc = "lines" /\ linenum = NumLines(lines)
  BY DEF AllChecked
<1>2. n \in Nat /\ DOMAIN lines = 0..n /\ NumLines(lines) = n + 1
  BY <1>1, FileAtHand
<1>3. \A l \in FirstIncludes : l < linenum
  BY <1>1, <1>2 DEF FirstIncludes, IncludeLines
<1> QED
  BY <1>1, <1>3 DEF IncludesJudged, IncludesAt

(* CheckIncludeLine reports a header out of order if, and only if, one of  *)
(* a later section is included before it.                                  *)
THEOREM LintOrderErrorsExact == Spec => []OrderErrorsExact
<1>1. Inv /\ IncludesJudged => OrderErrorsExact
  BY AllIncluded DEF OrderErrorsExact
<1> QED
  BY <1>1, LintInvariant, IncludesInvariant, PTL

(* CheckIncludeLine reports a header out of the alphabet if, and only if,  *)
(* a greater one comes before it in its own stretch.                       *)
THEOREM LintAlphabetErrorsExact == Spec => []AlphabetErrorsExact
<1>1. Inv /\ IncludesJudged => AlphabetErrorsExact
  <2> SUFFICES ASSUME Inv, IncludesJudged, AllChecked, NoAsm
               PROVE  ReportedAt("build/include_alpha") =
                        {i \in FirstIncludes :
                           \E j \in FirstIncludes :
                             /\ j < i /\ RankAt(j) > RankAt(i)
                             /\ \A k \in FirstIncludes : j < k /\ k <= i => ~BeginsAlphabet(k)}
    BY DEF AlphabetErrorsExact, RankAt
  <2>1. ASSUME NEW i \in FirstIncludes
        PROVE  OutOfAlphabet(i) <=>
                 \E j \in FirstIncludes :
                   /\ j < i /\ RankAt(j) > RankAt(i)
                   /\ \A k \in FirstIncludes : j < k /\ k <= i => ~BeginsAlphabet(k)
    <3>1. FirstIncludes \subseteq Int
      <4>1. Len(file.lines) + 1 \in Nat /\ DOMAIN lines = 0..Len(file.lines) + 1
        BY FileAtHand DEF AllChecked
      <4> QED
        BY <4>1 DEF FirstIncludes, IncludeLines
    <3>2. \A k \in FirstIncludes : k <= i <=> k < i \/ k = i
      BY <3>1
    <3> QED
      BY <3>1, <3>2 DEF OutOfAlphabet, SameStretch
  <2> QED
    BY <2>1, AllIncluded
<1> QED
  BY <1>1, LintInvariant, IncludesInvariant, PTL

-----------------------------------------------------------------------------
(* Functions: the count is that of the lines of the last body.             *)

BeginsBody(i) ==
  LET ends == {j \in i..NumLines(lines) - 1 : Mentions(lines[j].text, {";", "}", "{"})}
  IN /\ FunctionHead(lines[i]) > 0 /\ ends # {}
     /\ ~Mentions(lines[Min(ends)].text, {";", "}"})

HeadsUpTo(m) == {i \in 0..m - 1 : BeginsBody(i)}

Counts(head, m) == {i \in BodyLines(head) : i < m}

IsTest(head) == lines[head].text[FunctionHead(lines[head]) - 1] = "TEST"

Trigger(test) == IF test THEN TestTrigger ELSE NormalTrigger

FunctionAt(fn, m) ==
  IF HeadsUpTo(m) = {} THEN ~fn.inAFunction /\ fn.linesInFunction = 0
  ELSE LET head == Max(HeadsUpTo(m))
       IN /\ fn.isTest = IsTest(head)
          /\ fn.inAFunction <=> ~\E j \in Ends : head < j /\ j < m
          /\ fn.linesInFunction = Cardinality(Counts(head, m))

\* The end of a function that is longer than the level allows.
TooLong(l, v) ==
  /\ HeadsUpTo(l) # {}
  /\ Cardinality(BodyLines(Max(HeadsUpTo(l)))) > Trigger(IsTest(Max(HeadsUpTo(l)))) * 2^v

\* The trigger of _FunctionState.Check is a number.
LEMMA PowerType ==
  ASSUME NEW v \in Nat
  PROVE  2^v \in Nat
<1>1. IsFiniteSet(1..v) /\ Cardinality(1..v) = v
  <2>1. 1 \in Int /\ v \in Int
    OBVIOUS
  <2> QED
    BY <2>1, FS_Interval
<1>2. IsFiniteSet(SUBSET (1..v)) /\ Cardinality(SUBSET (1..v)) = 2^v
  BY <1>1, FS_SUBSET
<1> QED
  BY <1>2, FS_CardinalityType

\* A sequence of one.
LEMMA OneElement == ASSUME NEW b PROVE <<b>> # <<>> /\ Len(<<b>>) = 1
OBVIOUS

\* The five kinds of line.
LEMMA Measured ==
  ASSUME NEW fn, NEW log, NEW m \in DOMAIN lines,
         NEW next, next = CheckForFunctionLengths(fn, log, lines, m)
  PROVE  /\ BeginsBody(m) => next.function = Begin(IsTest(m)) /\ next.lint = log
         /\ FunctionHead(lines[m]) > 0 /\ ~BeginsBody(m) =>
              next.function = fn
              /\ next.lint \in {log, Error(log, m, "readability/fn_size", 5)}
         /\ FunctionHead(lines[m]) = 0 /\ m \in Ends =>
              next.function = End(fn) /\ next.lint = CheckLength(fn, log, m)
         /\ FunctionHead(lines[m]) = 0 /\ m \notin Ends /\ lines[m].text # <<>> =>
              next.function = CountLine(fn) /\ next.lint = log
         /\ FunctionHead(lines[m]) = 0 /\ m \notin Ends /\ lines[m].text = <<>> =>
              next.function = fn /\ next.lint = log
<1> DEFINE same == [function |-> fn, lint |-> log]
           ends == {i \in m..NumLines(lines) - 1 : Mentions(lines[i].text, {";", "}", "{"})}
           declaration == Mentions(lines[Min(ends)].text, {";", "}"})
           closing == lines[m].text = <<"}">> /\ ~lines[m].raw.indent
           head == FunctionHead(lines[m])
           t == lines[m].text
           test == t[head - 1] = "TEST"
<1>1. next = CASE head > 0 /\ ends = {} -> [same EXCEPT !.lint = Error(log, m, "readability/fn_size", 5)]
       [] head > 0 /\ ends # {} ->
            IF declaration THEN same
            ELSE [same EXCEPT !.function = Begin(t[head - 1] = "TEST")]
       [] head = 0 /\ closing ->
            [function |-> End(fn), lint |-> CheckLength(fn, log, m)]
       [] head = 0 /\ t # <<>> /\ ~closing ->
            [same EXCEPT !.function = CountLine(fn)]
       [] OTHER -> same
  BY DEF CheckForFunctionLengths
<1>2. BeginsBody(m) <=> head > 0 /\ ends # {} /\ ~declaration
  BY DEF BeginsBody
<1>3. m \in Ends <=> closing
  BY DEF Ends
<1>4. closing => t # <<>>
  BY OneElement, Zenon
<1>5. test = IsTest(m)
  BY DEF IsTest
<1> HIDE DEF ends, declaration, closing, test, head
<1>6. BeginsBody(m) => next.function = Begin(test) /\ next.lint = log
  <2>1. BeginsBody(m) => next = [same EXCEPT !.function = Begin(test)]
    BY <1>1, <1>2 DEF test, head
  <2> QED
    BY <2>1
<1>7. head > 0 /\ ~BeginsBody(m) =>
        next.function = fn /\ next.lint \in {log, Error(log, m, "readability/fn_size", 5)}
  <2>1. head > 0 /\ ~BeginsBody(m) =>
          next = same \/ next = [same EXCEPT !.lint = Error(log, m, "readability/fn_size", 5)]
    BY <1>1, <1>2
  <2> QED
    BY <2>1
<1>8. head = 0 /\ closing => next = [function |-> End(fn), lint |-> CheckLength(fn, log, m)]
  BY <1>1
<1>9. head = 0 /\ ~closing /\ t # <<>> => next.function = CountLine(fn) /\ next.lint = log
  <2>1. head = 0 /\ ~closing /\ t # <<>> => next = [same EXCEPT !.function = CountLine(fn)]
    BY <1>1
  <2> QED
    BY <2>1
<1>10. head = 0 /\ ~closing /\ t = <<>> => next = same
  BY <1>1
<1> HIDE DEF t
<1> QED
  BY <1>3, <1>5, <1>6, <1>7, <1>8, <1>9, <1>10 DEF head, t

\* The lines where a body begins.
LEMMA HeadType ==
  ASSUME NEW n \in Nat, lines \in [0..n -> CleanLine], NEW m \in 0..n
  PROVE  FunctionHead(lines[m]) \in Nat /\ (m \in Ends => FunctionHead(lines[m]) = 0)
<1> DEFINE t == lines[m].text
           heads == {i \in 2..Len(t) : t[i] = "(" /\ \A j \in 1..i - 1 : t[j] \in Words}
<1>1. FunctionHead(lines[m]) = IF lines[m].raw.indent \/ heads = {} \/ t[Min(heads) - 1] = "MACRO"
                               THEN 0 ELSE Min(heads)
  BY DEF FunctionHead
<1>2. t \in Seq(STRING)
  BY DEF CleanLine
<1>3. heads # {} => Min(heads) \in 2..Len(t)
  <2>1. heads \in SUBSET (2..Len(t)) /\ 2 \in Int /\ Len(t) \in Int
    BY <1>2
  <2> HIDE DEF heads
  <2> QED
    BY <2>1, MinMaxInterval
<1>4. m \in Ends => Len(t) = 1
  BY OneElement, Zenon DEF Ends
<1>5. Len(t) = 1 => heads = {}
  OBVIOUS
<1> HIDE DEF heads
<1> QED
  BY <1>1, <1>2, <1>3, <1>4, <1>5

\* The body of a function goes on until the first end after its head.
LEMMA InBody ==
  ASSUME NEW n \in Nat, lines \in [0..n -> CleanLine], NumLines(lines) = n + 1,
         NEW head \in 0..n, NEW i \in 0..n
  PROVE  /\ BodyLines(head) \subseteq 0..n
         /\ i \in BodyLines(head) <=>
              /\ head < i /\ lines[i].text # <<>> /\ FunctionHead(lines[i]) = 0
              /\ ~\E j \in Ends : head < j /\ j <= i
<1> DEFINE S == {j \in Ends : j > head} \cup {NumLines(lines)}
<1>1. Ends \subseteq 0..n
  BY DEF Ends
<1>2. S \in SUBSET (0..n + 1) /\ S # {} /\ 0 \in Int /\ n + 1 \in Int
  <2>1. S = {j \in Ends : j > head} \cup {n + 1}
    OBVIOUS
  <2>2. ASSUME NEW j \in Ends PROVE j \in 0..n + 1
    <3>1. j \in 0..n
      BY <1>1
    <3> QED
      BY <3>1
  <2>3. n + 1 \in 0..n + 1
    OBVIOUS
  <2> QED
    BY <2>1, <2>2, <2>3
<1> HIDE DEF S
<1>3. Min(S) \in S /\ (\A k \in S : Min(S) <= k) /\ Min(S) \in 0..n + 1
  BY <1>2, MinMaxInterval
<1>4. BodyLines(head) = {k \in head + 1..Min(S) - 1 :
                           lines[k].text # <<>> /\ FunctionHead(lines[k]) = 0}
  BY DEF BodyLines, S
<1>5. i < Min(S) <=> ~\E j \in Ends : head < j /\ j <= i
  BY <1>1, <1>3 DEF S
<1> QED
  BY <1>3, <1>4, <1>5

\* The last line where a body begins before a line.
LEMMA LastHead ==
  ASSUME NEW m \in Nat, HeadsUpTo(m) # {}
  PROVE  /\ Max(HeadsUpTo(m)) \in 0..m - 1 /\ Max(HeadsUpTo(m)) \in HeadsUpTo(m)
         /\ \A h \in HeadsUpTo(m) : h <= Max(HeadsUpTo(m))
<1>1. HeadsUpTo(m) \in SUBSET (0..m - 1) /\ 0 \in Int /\ m - 1 \in Int
  BY DEF HeadsUpTo
<1> QED
  BY <1>1, MinMaxInterval

\* The state keeps the kind of the last function, whether it goes on, and its lines.
LEMMA FunctionStep ==
  ASSUME NEW n \in Nat, lines \in [0..n -> CleanLine], NumLines(lines) = n + 1, NEW m \in 0..n,
         NEW fn \in Function, FunctionAt(fn, m), NEW log,
         NEW next, next = CheckForFunctionLengths(fn, log, lines, m).function
  PROVE  FunctionAt(next, m + 1)
<1> DEFINE head == Max(HeadsUpTo(m))
           counting == FunctionHead(lines[m]) = 0 /\ m \notin Ends /\ lines[m].text # <<>>
<1>1. /\ BeginsBody(m) => next = Begin(IsTest(m))
      /\ ~BeginsBody(m) /\ m \notin Ends /\ ~counting => next = fn
      /\ m \in Ends => next = End(fn) /\ ~BeginsBody(m)
      /\ counting => next = CountLine(fn) /\ ~BeginsBody(m)
  <2>1. m \in DOMAIN lines /\ FunctionHead(lines[m]) \in Nat
        /\ (m \in Ends => FunctionHead(lines[m]) = 0)
    BY HeadType
  <2>2. BeginsBody(m) => FunctionHead(lines[m]) > 0
    BY DEF BeginsBody
  <2>3. PICK got : got = CheckForFunctionLengths(fn, log, lines, m)
    OBVIOUS
  <2>4. next = got.function
    BY <2>3
  <2>5. /\ BeginsBody(m) => got.function = Begin(IsTest(m))
        /\ FunctionHead(lines[m]) > 0 /\ ~BeginsBody(m) => got.function = fn
        /\ FunctionHead(lines[m]) = 0 /\ m \in Ends => got.function = End(fn)
        /\ FunctionHead(lines[m]) = 0 /\ m \notin Ends /\ lines[m].text # <<>> =>
             got.function = CountLine(fn)
        /\ FunctionHead(lines[m]) = 0 /\ m \notin Ends /\ lines[m].text = <<>> =>
             got.function = fn
    BY <2>1, <2>3, Measured
  <2> QED
    BY <2>1, <2>2, <2>4, <2>5
<1>2. HeadsUpTo(m + 1) = HeadsUpTo(m) \cup IF BeginsBody(m) THEN {m} ELSE {}
  <2>1. 0..(m + 1) - 1 = (0..m - 1) \cup {m}
    OBVIOUS
  <2> QED
    BY <2>1 DEF HeadsUpTo
<1>3. HeadsUpTo(m) \subseteq 0..m - 1
  BY DEF HeadsUpTo
<1> HIDE DEF counting
<1>4. CASE BeginsBody(m)
  <2>1. HeadsUpTo(m + 1) # {} /\ Max(HeadsUpTo(m + 1)) = m
    <3>1. HeadsUpTo(m + 1) \subseteq Int /\ m \in HeadsUpTo(m + 1)
          /\ \A k \in HeadsUpTo(m + 1) : k <= m
      BY <1>2, <1>3, <1>4
    <3> QED
      BY <3>1, MaxDef
  <2>2. Counts(m, m + 1) = {} /\ ~\E j \in Ends : m < j /\ j < m + 1
    <3>1. BodyLines(m) \subseteq 0..n /\ Ends \subseteq 0..n
      BY InBody DEF Ends
    <3>2. ASSUME NEW i \in BodyLines(m), i < m + 1 PROVE FALSE
      <4>1. m < i /\ i \in 0..n
        BY <3>1, InBody
      <4> QED
        BY <3>2, <4>1
    <3> QED
      BY <3>1, <3>2 DEF Counts
  <2>3. next.isTest = IsTest(m) /\ next.inAFunction /\ next.linesInFunction = 0
    BY <1>1, <1>4 DEF Begin
  <2>4. Cardinality(Counts(m, m + 1)) = 0
    BY <2>2, FS_EmptySet
  <2> QED
    BY <2>1, <2>2, <2>3, <2>4 DEF FunctionAt
<1>5. CASE ~BeginsBody(m) /\ HeadsUpTo(m) = {}
  <2>1. HeadsUpTo(m + 1) = {}
    BY <1>2, <1>5
  <2>2. ~fn.inAFunction /\ fn.linesInFunction = 0
    BY <1>5 DEF FunctionAt
  <2>3. next \in {fn, End(fn), CountLine(fn)}
    BY <1>1, <1>5
  <2>4. CountLine(fn) = fn
    BY <2>2 DEF CountLine
  <2>5. ~End(fn).inAFunction /\ End(fn).linesInFunction = 0
    BY <2>2 DEF End, Function
  <2> QED
    BY <2>1, <2>2, <2>3, <2>4, <2>5 DEF FunctionAt
<1>6. CASE ~BeginsBody(m) /\ HeadsUpTo(m) # {}
  <2>1. HeadsUpTo(m + 1) = HeadsUpTo(m)
    BY <1>2, <1>6
  <2>2. head \in 0..m - 1
    BY <1>6, LastHead
  <2>3. /\ fn.isTest = IsTest(head)
        /\ fn.inAFunction <=> ~\E j \in Ends : head < j /\ j < m
        /\ fn.linesInFunction = Cardinality(Counts(head, m))
    BY <1>6 DEF FunctionAt
  <2> HIDE DEF head
  <2>4. Ends \subseteq 0..n /\ BodyLines(head) \subseteq 0..n
    <3>1. head \in 0..n
      BY <2>2
    <3> QED
      BY <3>1, InBody DEF Ends
  <2>5. IsFiniteSet(Counts(head, m)) /\ m \notin Counts(head, m)
    <3>1. IsFiniteSet(0..n)
      BY FS_Interval
    <3>2. Counts(head, m) \subseteq 0..n
      BY <2>4 DEF Counts
    <3> QED
      BY <3>1, <3>2, FS_Subset DEF Counts
  <2>6. m \in BodyLines(head) <=> counting /\ fn.inAFunction
    <3>1. m \in BodyLines(head) <=>
            /\ head < m /\ lines[m].text # <<>> /\ FunctionHead(lines[m]) = 0
            /\ ~\E j \in Ends : head < j /\ j <= m
      BY <2>2, InBody
    <3>2. (~\E j \in Ends : head < j /\ j <= m)
            <=> m \notin Ends /\ ~\E j \in Ends : head < j /\ j < m
      BY <2>2, <2>4
    <3> QED
      BY <2>2, <2>3, <3>1, <3>2 DEF counting
  <2>7. Counts(head, m + 1) = Counts(head, m) \cup IF counting /\ fn.inAFunction THEN {m} ELSE {}
    <3>1. \A i \in BodyLines(head) : i < m + 1 <=> i < m \/ i = m
      BY <2>4
    <3> QED
      BY <2>6, <3>1 DEF Counts
  <2>8. Cardinality(Counts(head, m + 1)) =
          fn.linesInFunction + IF counting /\ fn.inAFunction THEN 1 ELSE 0
    <3>1. Cardinality(Counts(head, m) \cup {m}) = Cardinality(Counts(head, m)) + 1
      BY <2>5, FS_AddElement
    <3>2. fn.linesInFunction \in Nat
      BY DEF Function
    <3>3. CASE counting /\ fn.inAFunction
      <4>1. Counts(head, m + 1) = Counts(head, m) \cup {m}
        BY <2>7, <3>3
      <4> QED
        BY <2>3, <3>1, <3>3, <4>1
    <3>4. CASE ~(counting /\ fn.inAFunction)
      <4>1. Counts(head, m + 1) = Counts(head, m)
        BY <2>7, <3>4
      <4> QED
        BY <2>3, <3>2, <3>4, <4>1
    <3> QED
      BY <3>3, <3>4
  <2>9. (~\E j \in Ends : head < j /\ j < m + 1)
          <=> m \notin Ends /\ ~\E j \in Ends : head < j /\ j < m
    BY <2>2, <2>4
  <2>10. /\ next.isTest = fn.isTest
         /\ next.inAFunction <=> m \notin Ends /\ fn.inAFunction
         /\ next.linesInFunction =
              fn.linesInFunction + IF counting /\ fn.inAFunction THEN 1 ELSE 0
    <3>1. fn.linesInFunction \in Nat
      BY DEF Function
    <3>2. CASE m \in Ends
      BY <1>1, <3>1, <3>2 DEF End, Function, counting
    <3>3. CASE m \notin Ends /\ counting
      BY <1>1, <3>1, <3>3 DEF CountLine, Function
    <3>4. CASE m \notin Ends /\ ~counting
      BY <1>1, <1>6, <3>1, <3>4
    <3> QED
      BY <3>2, <3>3, <3>4
  <2> QED
    BY <1>6, <2>1, <2>3, <2>8, <2>9, <2>10 DEF FunctionAt, head
<1> QED
  BY <1>4, <1>5, <1>6

\* The end of a function is reported only if it is too long.
LEMMA ReportedIsTooLong ==
  ASSUME NEW n \in Nat, lines \in [0..n -> CleanLine], NumLines(lines) = n + 1, NEW m \in 0..n,
         NEW fn \in Function, FunctionAt(fn, m), m \in Ends, NEW v \in Nat,
         fn.linesInFunction > Trigger(fn.isTest) * 2^v
  PROVE  TooLong(m, v)
<1> DEFINE head == Max(HeadsUpTo(m))
<1>1. Trigger(fn.isTest) \in Nat /\ 2^v \in Nat
  BY PowerType, LintChecksAssumption DEF Trigger
<1>2. Trigger(fn.isTest) * 2^v \in Nat
  <2> HIDE DEF Trigger
  <2> QED
    BY <1>1
<1>3. HeadsUpTo(m) # {}
  BY <1>2 DEF FunctionAt
<1>4. head \in 0..m - 1
  BY <1>3, LastHead
<1>5. fn.isTest = IsTest(head) /\ fn.linesInFunction = Cardinality(Counts(head, m))
  BY <1>3 DEF FunctionAt
<1> HIDE DEF head
<1>6. Counts(head, m) \subseteq BodyLines(head) /\ IsFiniteSet(BodyLines(head))
  <2>1. IsFiniteSet(0..n)
    BY FS_Interval
  <2>2. BodyLines(head) \subseteq 0..n
    <3>1. head \in 0..n
      BY <1>4
    <3> QED
      BY <3>1, InBody
  <2> QED
    BY <2>1, <2>2, FS_Subset DEF Counts
<1>7. Cardinality(Counts(head, m)) <= Cardinality(BodyLines(head))
      /\ Cardinality(BodyLines(head)) \in Nat /\ Cardinality(Counts(head, m)) \in Nat
  BY <1>6, FS_Subset, FS_CardinalityType
<1>8. Cardinality(BodyLines(head)) > Trigger(IsTest(head)) * 2^v
  BY <1>2, <1>5, <1>7
<1> QED
  BY <1>3, <1>8 DEF TooLong, head

\* What is known of functions before a line.
FunctionsJudged ==
  pc = "lines" /\ NoAsm =>
    /\ FunctionAt(function, linenum)
    /\ \A l \in ReportedAt("readability/fn_size") \cap Ends :
         l < linenum /\ TooLong(l, lint.verboseLevel)

\* It depends on nothing but the lines.
LEMMA FunctionsFrame ==
  ASSUME lines' = lines, NEW fn, NEW m, NEW v
  PROVE  /\ FunctionAt(fn, m)' = FunctionAt(fn, m)
         /\ TooLong(m, v)' = TooLong(m, v) /\ Ends' = Ends
<1>1. \A i : BeginsBody(i)' = BeginsBody(i)
  BY DEF BeginsBody
<1>2. \A i : HeadsUpTo(i)' = HeadsUpTo(i)
  BY <1>1 DEF HeadsUpTo
<1>3. Ends' = Ends
  BY DEF Ends
<1>4. \A h : BodyLines(h)' = BodyLines(h)
  BY <1>3 DEF BodyLines
<1>5. \A h : Counts(h, m)' = Counts(h, m)
  BY <1>4 DEF Counts
<1>6. \A h : IsTest(h)' = IsTest(h)
  BY DEF IsTest
<1>7. FunctionAt(fn, m)' = FunctionAt(fn, m)
  <2>1. HeadsUpTo(m)' = HeadsUpTo(m)
    BY <1>2
  <2>2. PICK head : head = Max(HeadsUpTo(m))
    OBVIOUS
  <2>3. IsTest(head)' = IsTest(head) /\ Counts(head, m)' = Counts(head, m)
    BY <1>5, <1>6
  <2>4. FunctionAt(fn, m) <=>
          IF HeadsUpTo(m) = {} THEN ~fn.inAFunction /\ fn.linesInFunction = 0
          ELSE /\ fn.isTest = IsTest(head)
               /\ fn.inAFunction <=> ~\E j \in Ends : head < j /\ j < m
               /\ fn.linesInFunction = Cardinality(Counts(head, m))
    BY <2>2 DEF FunctionAt
  <2>5. FunctionAt(fn, m)' <=>
          IF HeadsUpTo(m) = {} THEN ~fn.inAFunction /\ fn.linesInFunction = 0
          ELSE /\ fn.isTest = IsTest(head)
               /\ fn.inAFunction <=> ~\E j \in Ends : head < j /\ j < m
               /\ fn.linesInFunction = Cardinality(Counts(head, m))
    BY <1>3, <2>1, <2>2, <2>3 DEF FunctionAt
  <2> QED
    BY <2>4, <2>5 DEF FunctionAt
<1>8. TooLong(m, v)' = TooLong(m, v)
  BY <1>2, <1>4, <1>6 DEF TooLong
<1> QED
  BY <1>3, <1>7, <1>8

\* Before the first line there is no function.
LEMMA FunctionsBegin ==
  ASSUME Inv, BeginFile
  PROVE  FunctionsJudged'
<1>1. /\ linenum' = 0 /\ function' = FunctionState
      /\ ~FunctionState.inAFunction /\ FunctionState.linesInFunction = 0
  BY DEF BeginFile, FunctionState
<1>2. ReportedAt("readability/fn_size")' = {}
  <2>1. lint' \in Holding(lint.file + 1, lint.verboseLevel, "readability/fn_size", {})
    BY BeginHolds DEF Judged
  <2>2. At(lint', "readability/fn_size") = {}
    BY <2>1 DEF Holding
  <2> QED
    BY <2>2 DEF ReportedAt, Mine, At
<1>3. PICK fn : fn = FunctionState
  OBVIOUS
<1>4. FunctionAt(fn, 0)'
  BY <1>1, <1>3 DEF FunctionAt, HeadsUpTo
<1> QED
  BY <1>1, <1>2, <1>3, <1>4 DEF FunctionsJudged

\* The report of a function that is too long.
LEMMA CheckLengthHolds ==
  ASSUME NEW k, NEW v, NEW S, NEW log \in Holding(k, v, "readability/fn_size", S),
         NEW fn \in Function, NEW m \in Nat
  PROVE  fn.linesInFunction > Trigger(fn.isTest) * 2^v =>
           CheckLength(fn, log, m) \in Holding(k, v, "readability/fn_size", S \cup {m})
<1> DEFINE times == fn.linesInFunction \div Trigger(fn.isTest)
           level == Max({l \in 0..5 : 2^l <= times} \cup {0})
           long == fn.linesInFunction > Trigger(fn.isTest) * 2^v
<1>1. level \in 0..5
  <2> DEFINE L == {l \in 0..5 : 2^l <= times} \cup {0}
  <2>1. L \in SUBSET (0..5) /\ L # {} /\ 0 \in Int /\ 5 \in Int
    OBVIOUS
  <2> HIDE DEF L
  <2>2. Max(L) \in 0..5
    BY <2>1, MinMaxInterval
  <2> QED
    BY <2>2 DEF L
<1>2. log.verboseLevel = v
  BY DEF Holding
<1>3. CheckLength(fn, log, m) = ErrorIf(log, long, m, "readability/fn_size", level)
  BY <1>2 DEF CheckLength, Trigger
<1> HIDE DEF level, long
<1>4. Error(log, m, "readability/fn_size", level)
        \in Holding(k, v, "readability/fn_size", S \cup {m})
  <2>1. "readability/fn_size" \in Categories
    BY DEF Categories, Readability
  <2>2. PICK cat : cat = "readability/fn_size"
    OBVIOUS
  <2>3. Error(log, m, cat, level) \in Holding(k, v, cat, S \cup IF cat = cat THEN {m} ELSE {})
    BY <1>1, <2>1, <2>2, ErrorAt
  <2> QED
    BY <2>2, <2>3
<1> QED
  BY <1>3, <1>4 DEF ErrorIf, long

\* A line keeps what is known of functions.
LEMMA FunctionsProcess ==
  ASSUME Inv, IncludesJudged, FunctionsJudged, ProcessLine
  PROVE  FunctionsJudged'
<1>1. lines' = lines /\ pc = "lines" /\ linenum < NumLines(lines)
  BY DEF ProcessLine
<1>2. NoAsm' = NoAsm
  BY <1>1 DEF NoAsm
<1> SUFFICES ASSUME pc' = "lines", NoAsm
             PROVE  /\ FunctionAt(function, linenum)'
                    /\ \A l \in (ReportedAt("readability/fn_size") \cap Ends)' :
                         l < linenum' /\ TooLong(l, lint.verboseLevel)'
  BY <1>2 DEF FunctionsJudged
<1> DEFINE n == Len(file.lines) + 1
           m == linenum
           k == lint.file
           v == lint.verboseLevel
           cat == "readability/fn_size"
           S == ReportedAt(cat)
           long == function.linesInFunction > Trigger(function.isTest) * 2^v
           R == IF m \in Ends /\ ~long THEN S ELSE S \cup {m}
           T == Holding(k, v, cat, S) \cup Holding(k, v, cat, R)
           K == Categories \ {cat}
           t == lines[linenum].elided
           W == {t[j] : j \in 1..Len(t)}
<1>3. /\ n \in Nat /\ lines \in [0..n -> CleanLine] /\ NumLines(lines) = n + 1
  BY <1>1, FileAtHand
<1> HIDE DEF n
<1>4. /\ m \in 0..n /\ m \in Nat /\ function \in Function /\ v \in Nat
      /\ nesting \in Nestings({"no"}) /\ FunctionAt(function, m)
      /\ \A l \in S \cap Ends : l < m /\ TooLong(l, v)
  BY <1>1, <1>3 DEF Inv, TypeOK, LintState, IncludesJudged, FunctionsJudged
<1>5. "asm" \notin W /\ t \in Seq(W)
  <2>1. t \in Seq(STRING)
    BY <1>3, <1>4 DEF CleanLine
  <2>2. "asm" \notin W
    BY <1>3, <1>4 DEF NoAsm, Mentions
  <2>3. t \in Seq(W)
    BY <2>1
  <2> QED
    BY <2>2, <2>3
<1> HIDE DEF W
<1>6. lint \in Holding(k, v, cat, S)
  BY LintHolds
<1> HIDE DEF k, v, S
<1>7. Closed(T, K)
  <2>1. Closed(Holding(k, v, cat, S), K) /\ Closed(Holding(k, v, cat, R), K)
    BY HoldingClosed
  <2> HIDE DEF K, R
  <2> QED
    BY <2>1 DEF Closed
<1>8. /\ StyleCategories \subseteq K /\ IncludeCategories \subseteq K
      /\ {"readability/multiline_comment", "readability/multiline_string",
          "readability/namespace"} \subseteq K
      /\ cat # "readability/nolint" /\ cat \in Categories
  BY DEF StyleCategories, IncludeCategories, Categories, Build, Readability, Whitespace
<1>9. ParseNolintSuppressions(lint, lines[linenum].raw.nolint, linenum) \in T
  <2>1. ParseNolintSuppressions(lint, lines[m].raw.nolint, m) \in Holding(k, v, cat, S)
    BY <1>4, <1>6, <1>8, HoldingNolint
  <2> QED
    BY <2>1
<1>10. ASSUME NEW log \in T
       PROVE  /\ CheckForFunctionLengths(function, log, lines, m).lint \in T
              /\ FunctionAt(CheckForFunctionLengths(function, log, lines, m).function, m + 1)
  <2>1. PICK next : next = CheckForFunctionLengths(function, log, lines, m)
    OBVIOUS
  <2>2. PICK fn : fn = next.function
    OBVIOUS
  <2>3. FunctionAt(fn, m + 1)
    <3>1. fn = CheckForFunctionLengths(function, log, lines, m).function
      BY <2>1, <2>2
    <3> QED
      BY <1>3, <1>4, <3>1, FunctionStep
  <2>4. \/ next.lint = log
        \/ m \notin Ends /\ next.lint = Error(log, m, cat, 5)
        \/ m \in Ends /\ next.lint = CheckLength(function, log, m)
    <3>1. m \in DOMAIN lines /\ FunctionHead(lines[m]) \in Nat
          /\ (m \in Ends => FunctionHead(lines[m]) = 0)
      BY <1>3, <1>4, HeadType
    <3>2. /\ BeginsBody(m) => next.lint = log
          /\ FunctionHead(lines[m]) > 0 /\ ~BeginsBody(m) =>
               next.lint \in {log, Error(log, m, cat, 5)}
          /\ FunctionHead(lines[m]) = 0 /\ m \in Ends =>
               next.lint = CheckLength(function, log, m)
          /\ FunctionHead(lines[m]) = 0 /\ m \notin Ends /\ lines[m].text # <<>> =>
               next.lint = log
          /\ FunctionHead(lines[m]) = 0 /\ m \notin Ends /\ lines[m].text = <<>> =>
               next.lint = log
      BY <2>1, <3>1, Measured
    <3> QED
      BY <3>1, <3>2
  <2>5. PICK Q \in {S, R} : log \in Holding(k, v, cat, Q)
    <3> HIDE DEF R
    <3> QED
      OBVIOUS
  <2>6. CASE m \in Ends /\ ~long
    <3>1. CheckLength(function, log, m) = log
      <4>1. log.verboseLevel = v
        BY <2>5 DEF Holding
      <4>2. ~(function.linesInFunction > Trigger(function.isTest) * 2^log.verboseLevel)
        BY <2>6, <4>1
      <4> QED
        BY <4>2 DEF CheckLength, ErrorIf, Trigger
    <3> QED
      BY <2>1, <2>2, <2>3, <2>4, <2>6, <3>1
  <2>7. CASE ~(m \in Ends /\ ~long)
    <3>1. R = S \cup {m} /\ Q \cup {m} = R
      BY <2>5, <2>7
    <3>2. m \in Ends => CheckLength(function, log, m) \in Holding(k, v, cat, R)
      <4>1. m \in Ends => CheckLength(function, log, m) \in Holding(k, v, cat, Q \cup {m})
        BY <1>4, <2>5, <2>7, CheckLengthHolds
      <4> QED
        BY <3>1, <4>1
    <3>3. Error(log, m, cat, 5) \in Holding(k, v, cat, R)
      <4>1. 5 \in 0..5
        OBVIOUS
      <4>2. PICK c : c = cat
        OBVIOUS
      <4>3. Error(log, m, c, 5) \in Holding(k, v, c, Q \cup IF c = c THEN {m} ELSE {})
        BY <1>4, <1>8, <2>5, <4>1, <4>2, ErrorAt
      <4> QED
        BY <3>1, <4>2, <4>3
    <3> HIDE DEF R
    <3> QED
      BY <2>1, <2>2, <2>3, <2>4, <3>2, <3>3
  <2> QED
    BY <2>6, <2>7
<1> HIDE DEF T, K
<1>11. /\ linenum' = linenum + 1
       /\ \E log \in T : \E measured \in {CheckForFunctionLengths(function, log, lines, linenum)} :
            /\ function' = measured.function
            /\ measured.lint \in T =>
                 \E styled \in T :
                   IF Starts(linenum, {"#include"})
                   THEN \E included \in {CheckIncludeLine(includes, styled, file,
                                                          Include(linenum), linenum)} :
                          includes' = included.includes /\ lint' = included.lint
                   ELSE includes' = includes /\ lint' = styled
  BY <1>3, <1>4, <1>5, <1>7, <1>8, <1>9, LineReads
<1>12. PICK log \in T : \E measured \in {CheckForFunctionLengths(function, log, lines, linenum)} :
            /\ function' = measured.function
            /\ measured.lint \in T =>
                 \E styled \in T :
                   IF Starts(linenum, {"#include"})
                   THEN \E included \in {CheckIncludeLine(includes, styled, file,
                                                          Include(linenum), linenum)} :
                          includes' = included.includes /\ lint' = included.lint
                   ELSE includes' = includes /\ lint' = styled
  BY <1>11
<1>13. /\ \E fn : fn = function' /\ FunctionAt(fn, m + 1)
       /\ \E styled \in T : \/ lint' = styled
                            \/ lint' = CheckIncludeLine(includes, styled, file,
                                                        Include(m), m).lint
  BY <1>10, <1>12
<1>14. lint' \in T
  <2>1. \A styled \in T : CheckIncludeLine(includes, styled, file, Include(m), m).lint \in T
    BY <1>4, <1>7, <1>8, IncludeLineStays
  <2> QED
    BY <1>13, <2>1
<1>15. PICK fn, v2, m2 : fn = function' /\ v2 = lint'.verboseLevel /\ m2 = m + 1 /\ FunctionAt(fn, m2)
  BY <1>13
<1>16. v2 = v /\ At(lint', cat) \in {S, R}
  BY <1>14, <1>15 DEF T, Holding
<1>17. ReportedAt(cat)' \in {S, R}
  <2>1. ReportedAt(cat)' = At(lint', cat)
    BY DEF ReportedAt, Mine, At
  <2> QED
    BY <1>16, <2>1
<1>18. ASSUME NEW l \in R \cap Ends PROVE l < m + 1 /\ TooLong(l, v)
  <2>1. CASE l \in S
    <3>1. l < m /\ TooLong(l, v) /\ l \in 0..n
      BY <1>3, <1>4, <2>1 DEF Ends
    <3> QED
      BY <1>4, <3>1
  <2>2. CASE l \notin S
    <3>1. l = m /\ m \in Ends /\ long
      BY <2>2
    <3>2. TooLong(m, v)
      BY <1>3, <1>4, <3>1, ReportedIsTooLong
    <3> QED
      BY <1>4, <3>1, <3>2
  <2> QED
    BY <2>1, <2>2
<1>19. S \subseteq R
  OBVIOUS
<1>20. ASSUME NEW l \in (ReportedAt(cat) \cap Ends)'
       PROVE  l < linenum' /\ TooLong(l, lint.verboseLevel)'
  <2>1. Ends' = Ends
    BY <1>1, FunctionsFrame
  <2>2. l \in R \cap Ends
    <3> HIDE DEF R
    <3> QED
      BY <1>17, <1>19, <2>1
  <2>3. l < m + 1 /\ TooLong(l, v2)
    BY <1>16, <1>18, <2>2
  <2>4. TooLong(l, v2)'
    BY <1>1, <2>3, FunctionsFrame
  <2> QED
    BY <1>11, <1>15, <2>3, <2>4
<1>21. FunctionAt(fn, m2)'
  BY <1>1, <1>15, FunctionsFrame
<1>22. m2 = linenum'
  BY <1>11, <1>15
<1> QED
  BY <1>15, <1>20, <1>21, <1>22

\* So does every step.
LEMMA FunctionsInductive ==
  Inv /\ IncludesJudged /\ FunctionsJudged /\ [Next]_vars => FunctionsJudged'
<1> SUFFICES ASSUME Inv, IncludesJudged, FunctionsJudged, [Next]_vars PROVE FunctionsJudged'
  OBVIOUS
<1>1. CASE BeginFile
  BY <1>1, FunctionsBegin
<1>2. CASE ProcessLine
  BY <1>2, FunctionsProcess
<1>3. CASE ~BeginFile /\ ~ProcessLine
  <2>1. UNCHANGED vars \/ pc' # "lines"
    BY <1>3 DEF Next, ParseArgumentsExits, ParseArguments, SkipFile, FinishFile, Finish, Exit
  <2>2. ASSUME UNCHANGED vars PROVE FunctionsJudged'
    <3>1. lines' = lines /\ pc' = pc /\ NoAsm' = NoAsm
      BY <2>2 DEF vars, NoAsm
    <3>2. PICK fn, m, v : fn = function /\ m = linenum /\ v = lint.verboseLevel
      OBVIOUS
    <3>3. FunctionAt(fn, m)' = FunctionAt(fn, m) /\ Ends' = Ends
          /\ \A l : TooLong(l, v)' = TooLong(l, v)
      BY <3>1, FunctionsFrame
    <3>4. /\ function' = function /\ linenum' = linenum /\ lint' = lint
          /\ ReportedAt("readability/fn_size")' = ReportedAt("readability/fn_size")
      BY <2>2 DEF vars, ReportedAt, Mine
    <3> QED
      BY <3>1, <3>2, <3>3, <3>4 DEF FunctionsJudged
  <2> QED
    BY <2>1, <2>2 DEF FunctionsJudged
<1> QED
  BY <1>1, <1>2, <1>3

(* _FunctionState counts the lines of the last body that has begun, and    *)
(* what has been reported at the end of a function is too long.            *)
THEOREM FunctionsInvariant == Spec => []FunctionsJudged
<1>1. Init => FunctionsJudged
  BY DEF Init, FunctionsJudged
<1> QED
  BY <1>1, FunctionsInductive, LintInvariant, IncludesInvariant, PTL DEF Spec

(* A function is reported as too long at its end only if its body has more *)
(* lines than the level allows.                                            *)
THEOREM LintLongFunctionsOnly == Spec => []LongFunctionsOnly
<1>1. Inv /\ FunctionsJudged => LongFunctionsOnly
  <2> SUFFICES ASSUME Inv, FunctionsJudged, pc = "lines", NoAsm,
                      NEW l \in ReportedAt("readability/fn_size") \cap Ends
               PROVE  LET begun == {h \in Heads : h < l}
                          head == Max(begun)
                      IN  /\ begun # {}
                          /\ Cardinality(BodyLines(head)) >
                               Trigger(IsTest(head)) * 2^lint.verboseLevel
    BY DEF LongFunctionsOnly, Trigger, IsTest
  <2>1. l < linenum /\ TooLong(l, lint.verboseLevel)
    BY DEF FunctionsJudged
  <2>2. {h \in Heads : h < l} = HeadsUpTo(l)
    <3>1. Len(file.lines) + 1 \in Nat /\ DOMAIN lines = 0..Len(file.lines) + 1
          /\ NumLines(lines) = Len(file.lines) + 2
      BY FileAtHand
    <3>2. l \in Nat /\ linenum \in Nat
      <4>1. l \in 0..Len(file.lines) + 1
        BY <3>1 DEF Ends
      <4>2. linenum \in 0..NumLines(lines)
        BY DEF Inv, TypeOK
      <4> QED
        BY <3>1, <4>1, <4>2
    <3>3. Heads = {i \in 0..linenum - 1 : BeginsBody(i)}
      BY DEF Heads, BeginsBody
    <3>4. \A i \in Nat : i \in 0..l - 1 <=> i \in 0..linenum - 1 /\ i < l
      BY <2>1, <3>2
    <3> QED
      BY <3>2, <3>3, <3>4 DEF HeadsUpTo
  <2> QED
    BY <2>1, <2>2 DEF TooLong
<1> QED
  BY <1>1, LintInvariant, FunctionsInvariant, PTL

-----------------------------------------------------------------------------
(* Include what you use.                                                   *)

\* What is required and not known.
MissingOf(state, target, clean) ==
  {r \in Required(clean) : <<r[1], "">> \notin UpdateIncludeState(state, target)}

\* The lines reported are the last uses of what is missing.
LEMMA MissingReports ==
  ASSUME NEW k, NEW v, NEW log \in Holding(k, v, "build/include_what_you_use", {}),
         NEW n \in Nat, NEW clean, DOMAIN clean = 0..n, NEW state, NEW target,
         NEW missing, missing = MissingOf(state, target, clean)
  PROVE  CheckForIncludeWhatYouUse(state, log, target, clean)
           \in Holding(k, v, "build/include_what_you_use",
                       IF target.ext = "cc" /\ OwnHeaders(state, target) = {}
                       THEN {} ELSE {r[2] : r \in missing})
<1> DEFINE s == SetToSeq(missing)
           N == Cardinality(missing)
           cat == "build/include_what_you_use"
           L(i) == {s[j][2] : j \in 1..i}
           T == [i \in 0..N |-> Holding(k, v, cat, L(i))]
<1>1. IsFiniteSet(missing) /\ missing \subseteq Required(clean)
  <2>1. missing \subseteq Required(clean)
    BY Zenon DEF MissingOf
  <2> QED
    BY <2>1, RequiredType, FS_Subset
<1>2. CheckForIncludeWhatYouUse(state, log, target, clean) =
        IF target.ext = "cc" /\ OwnHeaders(state, target) = {}
        THEN log ELSE MissingFold!Fold(<<>>, log, s)
  <2> DEFINE absent == {r \in Required(clean) : <<r[1], "">> \notin UpdateIncludeState(state, target)}
  <2>1. CheckForIncludeWhatYouUse(state, log, target, clean) =
          IF target.ext = "cc" /\ OwnHeaders(state, target) = {}
          THEN log ELSE MissingFold!Fold(<<>>, log, SetToSeq(absent))
    BY DEF CheckForIncludeWhatYouUse, FoldLeft, MapThenFoldSet, MissingFold!Fold, MissingStep,
           MissingFold!Iter, MissingFold!Max, Max
  <2>2. absent = missing
    BY Zenon DEF MissingOf
  <2> HIDE DEF absent
  <2> QED
    BY <2>1, <2>2
<1>3. N \in Nat /\ s \in [1..N -> missing] /\ IsInjective(s)
  BY <1>1, SetToSeqType
<1> HIDE DEF s
<1>4. \A r \in missing : \E j \in 1..N : s[j] = r
  <2>1. s \in Injection(1..N, missing)
    BY <1>3 DEF Injection, IsInjective
  <2>2. Cardinality(1..N) = Cardinality(missing)
    <3>1. 1 \in Int /\ N \in Int
      BY <1>3
    <3> HIDE DEF N
    <3>2. Cardinality(1..N) = N
      BY <1>3, <3>1, FS_Interval
    <3> QED
      BY <3>2 DEF N
  <2>3. s \in Surjection(1..N, missing)
    <3> HIDE DEF N
    <3> QED
      BY <1>1, <2>1, <2>2, FS_Injection
  <2> QED
    BY <2>3 DEF Surjection
<1> HIDE DEF N
<1>5. ASSUME NEW i \in 1..N PROVE s[i] \in missing /\ s[i][2] \in Nat
  <2>1. s[i] \in missing
    BY <1>3
  <2>2. s[i][2] \in 0..n
    BY <1>1, <2>1, RequiredType
  <2> QED
    BY <2>1, <2>2
<1>6. log \in T[0]
  <2>1. L(0) = {} /\ 0 \in 0..N
    BY <1>3
  <2> HIDE DEF L
  <2>2. T[0] = Holding(k, v, cat, L(0))
    BY <2>1
  <2> HIDE DEF T
  <2> QED
    BY <2>1, <2>2
<1>7. ASSUME NEW i \in 1..N, NEW x \in T[i - 1] PROVE MissingStep(<<>>, x, s[i]) \in T[i]
  <2>1. i - 1 \in 0..N /\ i \in 0..N
    BY <1>3
  <2>2. x \in Holding(k, v, cat, L(i - 1))
    BY <2>1
  <2>3. L(i) = L(i - 1) \cup {s[i][2]}
    <3>1. 1..i = (1..i - 1) \cup {i}
      BY <1>3
    <3> QED
      BY <3>1
  <2>4. s[i][2] \in Nat /\ 4 \in 0..5
    BY <1>5
  <2>5. PICK c : c = cat
    OBVIOUS
  <2>6. c \in Categories
    BY <2>5 DEF Categories, Build
  <2> HIDE DEF L
  <2>7. Error(x, s[i][2], c, 4)
          \in Holding(k, v, c, L(i - 1) \cup IF c = c THEN {s[i][2]} ELSE {})
    BY <2>2, <2>4, <2>5, <2>6, ErrorAt
  <2>8. MissingStep(<<>>, x, s[i]) = Error(x, s[i][2], c, 4)
    BY <2>5 DEF MissingStep
  <2> QED
    BY <2>1, <2>3, <2>5, <2>7, <2>8
<1> HIDE DEF T
<1>8. MissingFold!Fold(<<>>, log, s) \in T[N]
  BY <1>3, <1>6, <1>7, MissingFold!FoldReaches
<1>9. L(N) = {r[2] : r \in missing}
  BY <1>4, <1>5
<1>10. T[N] = Holding(k, v, cat, {r[2] : r \in missing})
  <2> HIDE DEF L
  <2>1. T[N] = Holding(k, v, cat, L(N))
    BY <1>3 DEF T
  <2> QED
    BY <1>9, <2>1
<1> QED
  BY <1>2, <1>8, <1>10

\* The lines that should be reported.
MissingAt ==
  {i \in DOMAIN lines :
     /\ (file.ext = "cc" => Opened # {})
     /\ \E h \in UsesAt(i) : /\ <<h, "">> \notin IncludedNames
                             /\ \A j \in DOMAIN lines : j > i => h \notin UsesAt(j)}

\* At the end the state has exactly the names that the file includes.
LEMMA SeenIsIncluded ==
  ASSUME NEW n \in Nat, lines \in [0..n -> CleanLine], NEW state, NEW order, NEW alpha,
         IncludesAt(state, n + 1, order, alpha)
  PROVE  /\ state.seen = {NameAt(i) : i \in FirstIncludes}
         /\ UpdateIncludeState(state, file) = IncludedNames
         /\ OwnHeaders(state, file) = {} <=> Opened = {}
<1>1. IncludeLines \subseteq 0..n
  BY DEF IncludeLines
<1>2. state.seen = {NameAt(i) : i \in FirstIncludes}
  <2>1. ASSUME NEW name \in state.seen PROVE \E i \in FirstIncludes : NameAt(i) = name
    <3> DEFINE S == {i \in IncludeLines : NameAt(i) = name}
    <3>1. S \in SUBSET (0..n) /\ S # {} /\ 0 \in Int /\ n \in Int
      <4>1. S # {}
        BY DEF IncludesAt
      <4>2. S \subseteq 0..n
        BY <1>1
      <4> HIDE DEF S
      <4> QED
        BY <4>1, <4>2
    <3>2. Min(S) \in S /\ \A i \in S : Min(S) <= i
      <4> HIDE DEF S
      <4> QED
        BY <3>1, MinMaxInterval
    <3>3. PICK m \in S : \A i \in S : m <= i
      BY <3>2
    <3>4. m \in FirstIncludes
      <4>1. ASSUME NEW j \in IncludeLines, j < m, NameAt(j) = NameAt(m) PROVE FALSE
        <5>1. m <= j
          BY <3>3, <4>1
        <5> QED
          BY <1>1, <4>1, <5>1
      <4> QED
        BY <4>1 DEF FirstIncludes
    <3> QED
      BY <3>3, <3>4
  <2>2. ASSUME NEW i \in FirstIncludes PROVE NameAt(i) \in state.seen
    <3>1. i \in IncludeLines /\ i < n + 1
      BY <1>1 DEF FirstIncludes
    <3> QED
      BY <3>1 DEF IncludesAt
  <2> QED
    BY <2>1, <2>2
<1>3. Opened = {FullPath(file, name) : name \in OwnHeaders(state, file)}
  BY <1>2 DEF Opened, OwnHeaders
<1>4. UpdateIncludeState(state, file) = IncludedNames
  BY <1>2, <1>3 DEF UpdateIncludeState, IncludedNames
<1> QED
  BY <1>2, <1>3, <1>4

\* What is required is required at its last use.
LEMMA RequiredIs ==
  ASSUME NEW n \in Nat, lines \in [0..n -> CleanLine], NEW known
  PROVE  {r[2] : r \in {q \in Required(lines) : q[1] \notin known}} =
           {i \in DOMAIN lines : \E h \in UsesAt(i) :
              h \notin known /\ \A j \in DOMAIN lines : j > i => h \notin UsesAt(j)}
<1> DEFINE users(h) == {i \in DOMAIN lines :
                          /\ lines[i].elided # <<>>
                          /\ lines[i].elided[1] \in Directives => lines[i].raw.indent
                          /\ h \in lines[i].raw.uses}
           missing == {q \in Required(lines) : q[1] \notin known}
           last(i) == \E h \in UsesAt(i) :
                        h \notin known /\ \A j \in DOMAIN lines : j > i => h \notin UsesAt(j)
<1>1. Required(lines) = {<<h, Max(users(h))>> : h \in {g \in CppHeaders : users(g) # {}}}
  BY DEF Required
<1>2. ASSUME NEW h \in CppHeaders PROVE users(h) = {i \in DOMAIN lines : h \in UsesAt(i)}
  BY DEF UsesAt, Starts, Elided
<1>3. \A i : UsesAt(i) \subseteq CppHeaders
  BY DEF UsesAt
<1>4. ASSUME NEW h, users(h) # {}
      PROVE  Max(users(h)) \in users(h) /\ \A j \in users(h) : j <= Max(users(h))
  <2>1. users(h) \in SUBSET (0..n) /\ 0 \in Int /\ n \in Int
    OBVIOUS
  <2> HIDE DEF users
  <2> QED
    BY <1>4, <2>1, MinMaxInterval
<1>5. \A h : users(h) \subseteq 0..n
  OBVIOUS
<1> HIDE DEF users
<1>6. ASSUME NEW r \in missing PROVE r[2] \in DOMAIN lines /\ last(r[2])
  <2>1. PICK h \in CppHeaders : users(h) # {} /\ r = <<h, Max(users(h))>>
    BY <1>1
  <2>2. r[2] = Max(users(h)) /\ h \notin known
    BY <2>1
  <2>3. r[2] \in DOMAIN lines /\ h \in UsesAt(r[2])
    BY <1>2, <1>4, <2>1, <2>2
  <2>4. ASSUME NEW j \in DOMAIN lines, j > r[2] PROVE h \notin UsesAt(j)
    <3>1. j \in users(h) => j <= r[2]
      BY <1>4, <2>1, <2>2
    <3>2. r[2] \in 0..n /\ j \in 0..n
      BY <2>3
    <3> QED
      BY <1>2, <2>4, <3>1, <3>2
  <2> QED
    BY <2>2, <2>3, <2>4
<1>7. ASSUME NEW i \in DOMAIN lines, last(i) PROVE \E r \in missing : r[2] = i
  <2>1. PICK h \in UsesAt(i) :
          h \notin known /\ \A j \in DOMAIN lines : j > i => h \notin UsesAt(j)
    BY <1>7
  <2>2. h \in CppHeaders /\ i \in users(h) /\ users(h) \subseteq Int
    BY <1>2, <1>3, <1>5
  <2>3. ASSUME NEW j \in users(h) PROVE j <= i
    <3>1. j \in 0..n /\ i \in 0..n /\ j \in DOMAIN lines
      BY <1>5
    <3>2. h \in UsesAt(j)
      BY <1>2, <2>2
    <3> QED
      BY <2>1, <3>1, <3>2
  <2>4. Max(users(h)) = i
    BY <2>2, <2>3, MaxDef
  <2>5. <<h, i>> \in missing
    BY <1>1, <2>1, <2>2, <2>4
  <2> QED
    BY <2>5
<1> HIDE DEF last
<1> QED
  <2> HIDE DEF missing
  <2>1. {r[2] : r \in missing} = {i \in DOMAIN lines : last(i)}
    BY <1>6, <1>7
  <2> QED
    BY <2>1 DEF missing, last

\* What is missing, from the state at the end of the file and from the file.
LEMMA MissingIs ==
  ASSUME NEW n \in Nat, lines \in [0..n -> CleanLine], NEW order, NEW alpha,
         IncludesAt(includes, n + 1, order, alpha)
  PROVE  MissingAt = IF file.ext = "cc" /\ OwnHeaders(includes, file) = {} THEN {}
                     ELSE {r[2] : r \in MissingOf(includes, file, lines)}
<1> DEFINE known == {h \in CppHeaders : <<h, "">> \in IncludedNames}
           last(i) == \E h \in UsesAt(i) :
                        h \notin known /\ \A j \in DOMAIN lines : j > i => h \notin UsesAt(j)
<1>1. /\ UpdateIncludeState(includes, file) = IncludedNames
      /\ OwnHeaders(includes, file) = {} <=> Opened = {}
  BY SeenIsIncluded
<1>2. \A h \in CppHeaders : h \in known <=> <<h, "">> \in IncludedNames
  OBVIOUS
<1>3. \A i : UsesAt(i) \subseteq CppHeaders
  BY DEF UsesAt
<1>4. \A r \in Required(lines) : r[1] \in CppHeaders
  <2>1. DOMAIN lines = 0..n
    OBVIOUS
  <2> QED
    BY <2>1, RequiredType
<1>5. MissingOf(includes, file, lines) = {q \in Required(lines) : q[1] \notin known}
  BY <1>1, <1>2, <1>4, Zenon DEF MissingOf
<1>6. MissingAt = {i \in DOMAIN lines : (file.ext = "cc" => Opened # {}) /\ last(i)}
  <2>1. ASSUME NEW i, NEW h \in UsesAt(i) PROVE h \in known <=> <<h, "">> \in IncludedNames
    BY <1>2, <1>3
  <2> HIDE DEF known
  <2> QED
    BY <2>1, Zenon DEF MissingAt
<1> HIDE DEF known
<1>7. {r[2] : r \in {q \in Required(lines) : q[1] \notin known}} = {i \in DOMAIN lines : last(i)}
  BY RequiredIs
<1> HIDE DEF last
<1> QED
  BY <1>1, <1>5, <1>6, <1>7

\* Nothing is reported before the end of the file, and what should be then.
MissingJudged ==
  /\ pc = "lines" => ReportedAt("build/include_what_you_use") = {}
  /\ pc = "files" /\ lint.file > 0 /\ NoAsm =>
       ReportedAt("build/include_what_you_use") = MissingAt

\* It depends on nothing but the lines and the file.
LEMMA MissingFrame ==
  ASSUME file' = file, lines' = lines
  PROVE  MissingAt' = MissingAt
<1>1. IncludeLines' = IncludeLines
  BY DEF IncludeLines, Starts, Elided
<1>2. \A i : NameAt(i)' = NameAt(i)
  BY DEF NameAt, Include
<1>3. FirstIncludes' = FirstIncludes
  BY <1>1, <1>2 DEF FirstIncludes
<1>4. Opened' = Opened
  BY <1>2, <1>3 DEF Opened
<1>5. IncludedNames' = IncludedNames
  BY <1>2, <1>3, <1>4 DEF IncludedNames
<1>6. \A i : UsesAt(i)' = UsesAt(i)
  BY DEF UsesAt, Starts, Elided
<1> QED
  BY <1>4, <1>5, <1>6 DEF MissingAt

\* The end of the file reports what is missing, once.
LEMMA FinishMissing ==
  ASSUME Inv, IncludesJudged, MissingJudged, FinishFile, NoAsm
  PROVE  ReportedAt("build/include_what_you_use")' = MissingAt
<1> DEFINE n == Len(file.lines) + 1
           k == lint.file
           v == lint.verboseLevel
           cat == "build/include_what_you_use"
           S == IF file.ext = "cc" /\ OwnHeaders(includes, file) = {} THEN {}
                ELSE {r[2] : r \in MissingOf(includes, file, lines)}
           T == Holding(k, v, cat, S)
           K == Categories \ {cat}
           classes == CheckClassFinished(nesting, lint)
           uses == CheckForIncludeWhatYouUse(includes, classes, file, lines)
           utf8 == CheckForUnicodeReplacementCharacters(uses, lines)
           newline == CheckForNewlineAtEOF(utf8, lines)
<1>1. pc = "lines" /\ linenum = NumLines(lines)
      /\ lint' = ErrorIf(newline, file.carriageReturn, 0, "whitespace/newline", 1)
  BY DEF FinishFile
<1>2. /\ n \in Nat \ {0} /\ lines \in [0..n -> CleanLine] /\ NumLines(lines) = n + 1
  BY <1>1, FileAtHand
<1> HIDE DEF n
<1>3. n \in Nat /\ DOMAIN lines = 0..n /\ nesting \in Nesting
  BY <1>2 DEF Inv, TypeOK
<1>4. MissingAt = S
  <2>1. IncludesAt(includes, n + 1, ReportedAt("build/include_order"),
                   ReportedAt("build/include_alpha"))
    BY <1>1, <1>2 DEF IncludesJudged
  <2> QED
    BY <1>2, <1>3, <2>1, MissingIs
<1>5. lint \in Holding(k, v, cat, {})
  BY <1>1, LintHolds DEF MissingJudged
<1>6. classes \in Holding(k, v, cat, {})
  <2>1. Closed(Holding(k, v, cat, {}), K)
    BY HoldingClosed
  <2>2. "build/class" \in K
    BY DEF Categories, Build
  <2> HIDE DEF K, k, v, cat
  <2> QED
    BY <1>3, <1>5, <2>1, <2>2, ClassFinishedStays
<1> HIDE DEF classes, k, v
<1>7. uses \in T
  <2>1. PICK missing : missing = MissingOf(includes, file, lines)
    OBVIOUS
  <2> QED
    BY <1>3, <1>6, <2>1, MissingReports
<1>8. Closed(T, K)
  BY HoldingClosed
<1>9. /\ "readability/utf8" \in K /\ "whitespace/ending_newline" \in K
      /\ "whitespace/newline" \in K
  BY DEF Categories, Readability, Whitespace
<1> HIDE DEF T, K, S, uses
<1>10. utf8 \in T
  BY <1>3, <1>7, <1>8, <1>9, UnicodeStays
<1> HIDE DEF utf8
<1>11. newline \in T
  BY <1>2, <1>3, <1>8, <1>9, <1>10, NewlineAtEOFStays
<1> HIDE DEF newline
<1>12. lint' \in T
  <2>1. Error(newline, 0, "whitespace/newline", 1) \in T
    BY <1>8, <1>9, <1>11 DEF Closed
  <2> QED
    BY <1>1, <1>11, <2>1 DEF ErrorIf
<1>13. ReportedAt(cat)' = At(lint', cat)
  BY DEF ReportedAt, Mine, At
<1> QED
  BY <1>4, <1>12, <1>13 DEF T, Holding

\* A line reports nothing of it.
LEMMA ProcessMissing ==
  ASSUME Inv, MissingJudged, ProcessLine
  PROVE  ReportedAt("build/include_what_you_use")' = {}
<1> DEFINE n == Len(file.lines) + 1
           cat == "build/include_what_you_use"
           T == Holding(lint.file, lint.verboseLevel, cat, {})
           K == Categories \ {cat}
<1>1. pc = "lines" /\ linenum < NumLines(lines)
  BY DEF ProcessLine
<1>2. /\ n \in Nat /\ lines \in [0..n -> CleanLine] /\ NumLines(lines) = n + 1
      /\ \A i \in 0..n : lines[i].elided # <<>> /\ lines[i].elided[1] = "#include" =>
                   Canonical(lines[i].raw.header) \in DOMAIN Rank
  <2>1. n \in Nat \ {0} /\ lines \in [0..n -> CleanLine] /\ NumLines(lines) = n + 1
        /\ \A i \in 0..n : lines[i].elided # <<>> /\ lines[i].elided[1] = "#include" =>
                   Canonical(lines[i].raw.header) \in DOMAIN Rank
    BY <1>1, FileAtHand
  <2> QED
    BY <2>1
<1> HIDE DEF n
<1>3. /\ linenum \in 0..n /\ linenum \in Nat /\ includes \in Includes /\ function \in Function
      /\ nesting \in Nesting
  BY <1>1, <1>2 DEF Inv, TypeOK
<1>4. /\ StyleCategories \subseteq K /\ IncludeCategories \subseteq K
      /\ {"readability/fn_size", "readability/multiline_comment",
          "readability/multiline_string", "readability/namespace"} \subseteq K
      /\ cat # "readability/nolint"
  BY DEF StyleCategories, IncludeCategories, Categories, Build, Readability, Whitespace
<1>5. lint \in T
  BY <1>1, LintHolds DEF MissingJudged
<1>6. ParseNolintSuppressions(lint, lines[linenum].raw.nolint, linenum) \in T
  BY <1>3, <1>4, <1>5, HoldingNolint
<1>7. Closed(T, K)
  BY HoldingClosed
<1> HIDE DEF T, K
<1>8. LineChecked(T)
  BY <1>2, <1>3, <1>4, <1>6, <1>7, ProcessLineStays
<1>9. ReportedAt(cat)' = At(lint', cat)
  BY DEF ReportedAt, Mine, At
<1> QED
  BY <1>8, <1>9 DEF LineChecked, T, Holding

\* Every step keeps what is known of what is missing.
LEMMA MissingInductive ==
  Inv /\ IncludesJudged /\ MissingJudged /\ [Next]_vars => MissingJudged'
<1> SUFFICES ASSUME Inv, IncludesJudged, MissingJudged, [Next]_vars PROVE MissingJudged'
  OBVIOUS
<1> DEFINE cat == "build/include_what_you_use"
<1>1. CASE ParseArgumentsExits \/ Finish
  BY <1>1 DEF ParseArgumentsExits, Finish, Exit, MissingJudged
<1>2. CASE ParseArguments
  <2>1. command \in Command /\ lint \in LintState /\ Stops = {} /\ lint.file = 0
    BY <1>2, CppLintStateType DEF ParseArguments, Inv, TypeOK
  <2> DEFINE conf == Configured
             zero == [c \in DOMAIN conf.errorsByCategory |-> 0]
             none == [conf EXCEPT !.errorCount = 0]
  <2>2. conf \in LintState /\ conf.file = 0
    BY <2>1, ConfiguredType
  <2>3. lint' = conf \/ lint' = [none EXCEPT !.errorsByCategory = zero]
    BY <1>2 DEF ParseArguments, ResetErrorCounts
  <2> HIDE DEF conf, zero
  <2>4. none \in LintState /\ none.file = 0
    <3>1. none \in LintState
      BY <2>2, LintStateField
    <3> QED
      BY <2>2, <3>1 DEF LintState
  <2> HIDE DEF none
  <2>5. lint'.file = 0
    BY <2>2, <2>3, <2>4 DEF LintState
  <2>6. pc' \in {"files", "exit"}
    BY <1>2 DEF ParseArguments, Exit
  <2> QED
    BY <2>5, <2>6 DEF MissingJudged
<1>3. CASE BeginFile
  <2>1. lint' \in Holding(lint.file + 1, lint.verboseLevel, cat, {})
    BY <1>3, BeginHolds DEF Judged
  <2>2. ReportedAt(cat)' = At(lint', cat)
    BY DEF ReportedAt, Mine, At
  <2> QED
    BY <1>3, <2>1, <2>2 DEF BeginFile, MissingJudged, Holding
<1>4. CASE ProcessLine
  <2>1. pc' # "files"
    BY <1>4 DEF ProcessLine, CheckLine, StyleAndLanguage
  <2> QED
    BY <1>4, <2>1, ProcessMissing DEF MissingJudged
<1>5. CASE FinishFile
  <2>1. file' = file /\ lines' = lines /\ pc' = "files"
    BY <1>5 DEF FinishFile, fileVars
  <2>2. NoAsm' = NoAsm
    BY <2>1 DEF NoAsm
  <2> QED
    BY <1>5, <2>1, <2>2, FinishMissing, MissingFrame DEF MissingJudged
<1>6. CASE SkipFile \/ UNCHANGED vars
  <2>1. file' = file /\ lines' = lines /\ pc' = pc /\ NoAsm' = NoAsm
    BY <1>6 DEF SkipFile, fileVars, vars, NoAsm
  <2>2. lint' = lint
    <3>1. lint \in LintState
      BY DEF Inv, TypeOK
    <3> QED
      BY <1>6, <3>1 DEF SkipFile, SetVerboseLevel, LintState, vars
  <2> QED
    BY <2>1, <2>2, MissingFrame DEF MissingJudged, ReportedAt, Mine
<1> QED
  BY <1>1, <1>2, <1>3, <1>4, <1>5, <1>6 DEF Next

(* Nothing is reported as missing before the file ends, and then what is.  *)
THEOREM MissingInvariant == Spec => []MissingJudged
<1>1. Init => MissingJudged
  BY DEF Init, MissingJudged
<1> QED
  BY <1>1, MissingInductive, LintInvariant, IncludesInvariant, PTL DEF Spec

(* CheckForIncludeWhatYouUse reports, at its last use, each standard header*)
(* that the code uses and the file does not include.                       *)
THEOREM LintMissingExact == Spec => []MissingExact
<1>1. MissingJudged => MissingExact
  BY DEF MissingJudged, MissingExact, MissingAt
<1> QED
  BY <1>1, MissingInvariant, PTL

-----------------------------------------------------------------------------
(* Preprocessor branches: an #endif brings back the stack that the first   *)
(* branches alone lead to, because it was saved at the first #else.        *)

\* What Conditions and FirstBranches do at each line of c.
StartsIn(c, i, tokens) == c[i].elided # <<>> /\ c[i].elided[1] \in tokens

ConditionsAfter(before, c, l) ==
  CASE StartsIn(c, l, PpIf) -> Append(before, "first")
    [] StartsIn(c, l, PpElse) /\ before # <<>> -> SetTop(before, "later")
    [] StartsIn(c, l, {"#endif"}) /\ before # <<>> -> Front(before)
    [] OTHER -> before

ConditionStep(c, open, i) ==
  IF i = 0 THEN <<>> ELSE ConditionsAfter(open[i - 1], c, i - 1)

ConditionRec == INSTANCE Fold_proof WITH step <- ConditionStep

ConditionsIn(c) == ConditionRec!Recursive(c, 0, NumLines(c))

LiveIn(c, i) == \A k \in 1..Len(ConditionsIn(c)[i]) : ConditionsIn(c)[i][k] = "first"

AloneStep(c, alone, i) ==
  IF i = 0 THEN [nesting |-> NestingState, lint |-> CppLintState]
  ELSE IF LiveIn(c, i - 1) /\ ~StartsIn(c, i - 1, Directives)
       THEN Update(alone[i - 1].nesting, alone[i - 1].lint, c, i - 1)
       ELSE alone[i - 1]

AloneRec == INSTANCE Fold_proof WITH step <- AloneStep

FirstBranchesIn(c) == AloneRec!Recursive(c, 0, NumLines(c))

LEMMA ConditionsAre == Conditions = ConditionsIn(lines)
BY DEF Conditions, ConditionsIn, ConditionRec!Recursive, ConditionStep, ConditionsAfter, StartsIn,
       Starts, Elided

LEMMA LiveIs == ASSUME NEW i PROVE Live(i) <=> LiveIn(lines, i)
BY ConditionsAre DEF Live, LiveIn

LEMMA FirstBranchesAre == FirstBranches = FirstBranchesIn(lines)
BY ConditionsAre
   DEF FirstBranches, FirstBranchesIn, AloneRec!Recursive, AloneStep, StartsIn, Starts, Elided,
       Live, LiveIn

\* Both are these recursive functions.
LEMMA ConditionsIs ==
  ASSUME NEW n \in Nat, NEW c, NumLines(c) = n
  PROVE  \A i \in 0..n : ConditionsIn(c)[i] = ConditionStep(c, ConditionsIn(c), i)
<1> DEFINE g == ConditionsIn(c)
<1>1. ASSUME NEW i \in 0..n, NEW u, NEW v, ConditionRec!AgreeBelow(u, v, 0, i)
      PROVE  ConditionStep(c, u, i) = ConditionStep(c, v, i)
  <2>1. i # 0 => i - 1 \in 0..i - 1
    OBVIOUS
  <2>2. i # 0 => u[i - 1] = v[i - 1]
    BY <1>1, <2>1 DEF ConditionRec!AgreeBelow
  <2> QED
    BY <2>2 DEF ConditionStep
<1>2. ConditionRec!Solves(g, c, 0, n)
  <2>1. 0 \in Int /\ n \in Int
    OBVIOUS
  <2> QED
    BY <1>1, <2>1, ConditionRec!Recursion DEF ConditionsIn
<1> HIDE DEF g
<1> QED
  BY <1>2 DEF ConditionRec!Solves, g

LEMMA FirstBranchesIs ==
  ASSUME NEW n \in Nat, NEW c, NumLines(c) = n
  PROVE  \A i \in 0..n : FirstBranchesIn(c)[i] = AloneStep(c, FirstBranchesIn(c), i)
<1> DEFINE g == FirstBranchesIn(c)
<1>1. ASSUME NEW i \in 0..n, NEW u, NEW v, AloneRec!AgreeBelow(u, v, 0, i)
      PROVE  AloneStep(c, u, i) = AloneStep(c, v, i)
  <2>1. i # 0 => i - 1 \in 0..i - 1
    OBVIOUS
  <2>2. i # 0 => u[i - 1] = v[i - 1]
    BY <1>1, <2>1 DEF AloneRec!AgreeBelow
  <2> QED
    BY <2>2 DEF AloneStep
<1>2. AloneRec!Solves(g, c, 0, n)
  <2>1. 0 \in Int /\ n \in Int
    OBVIOUS
  <2> QED
    BY <1>1, <2>1, AloneRec!Recursion DEF FirstBranchesIn
<1> HIDE DEF g
<1> QED
  BY <1>2 DEF AloneRec!Solves, g

\* No condition of those is in another branch than its first.
AllFirst(open, m) == \A k \in 1..m : open[k] = "first"

Branches == {"first", "later"}

(* The stack of conditions has one for each that is open. As long as each  *)
(* is in its first branch, the stack is the one that these lead to; after  *)
(* that it is the one saved for the outermost that is not.                 *)
BranchesAt(state, open, stack) ==
  /\ open \in Seq(Branches)
  /\ Len(state.ppStack) = Len(open)
  /\ \A k \in 1..Len(open) : state.ppStack[k].seenElse <=> open[k] = "later"
  /\ AllFirst(open, Len(open)) => state.stack = stack
  /\ \A m \in 1..Len(open) :
       open[m] = "later" /\ AllFirst(open, m - 1) => state.ppStack[m].stackBeforeElse = stack

\* #if: a condition in its first branch.
LEMMA BranchesIf ==
  ASSUME NEW state \in Nestings({"no"}), NEW open, NEW stack, BranchesAt(state, open, stack),
         NEW t, t # <<>>, t[1] \in PpIf
  PROVE  BranchesAt(UpdatePreprocessor(state, t), Append(open, "first"), stack)
<1> DEFINE n == Len(open)
           info == PreprocessorInfo(state.stack)
           conditions == Append(state.ppStack, info)
           next == Append(open, "first")
<1>1. PICK P : state.ppStack \in Seq(P) /\ info \in P
  <2>1. state.ppStack \in Seq(ConditionsOn({"no"}))
    BY DEF Nestings
  <2>2. state.ppStack \in Seq(ConditionsOn({"no"}) \cup {info}) /\ info \in ConditionsOn({"no"}) \cup {info}
    BY <2>1
  <2> QED
    BY <2>2
<1>2. info.seenElse = FALSE
  BY DEF PreprocessorInfo
<1> HIDE DEF info
<1>3. UpdatePreprocessor(state, t) = [state EXCEPT !.ppStack = conditions]
  BY DEF UpdatePreprocessor, PpIf, PpElse, info
<1>4. /\ UpdatePreprocessor(state, t).ppStack = conditions
      /\ UpdatePreprocessor(state, t).stack = state.stack
  BY <1>3 DEF Nestings
<1>5. open \in Seq(Branches) /\ n \in Nat /\ Len(state.ppStack) = n
  BY DEF BranchesAt
<1>6. next \in Seq(Branches) /\ Len(next) = n + 1
      /\ next[n + 1] = "first" /\ \A k \in 1..n : next[k] = open[k]
  BY <1>5 DEF Branches
<1>7. Len(conditions) = n + 1
      /\ conditions[n + 1] = info /\ \A k \in 1..n : conditions[k] = state.ppStack[k]
  BY <1>1, <1>5
<1> HIDE DEF next, conditions
<1>8. ASSUME NEW m \in 0..n PROVE AllFirst(next, m) <=> AllFirst(open, m)
  <2>1. \A k \in 1..m : k \in 1..n
    BY <1>5
  <2> QED
    BY <1>6, <2>1 DEF AllFirst
<1>9. AllFirst(next, n + 1) <=> AllFirst(open, n)
  <2>1. 1..n + 1 = (1..n) \cup {n + 1}
    BY <1>5
  <2> QED
    BY <1>6, <2>1 DEF AllFirst
<1>10. \A k \in 1..n + 1 : conditions[k].seenElse <=> next[k] = "later"
  <2>1. \A k \in 1..n + 1 : k \in 1..n \/ k = n + 1
    BY <1>5
  <2> QED
    BY <1>2, <1>6, <1>7, <2>1 DEF BranchesAt
<1>11. ASSUME NEW m \in 1..n + 1, next[m] = "later", AllFirst(next, m - 1)
       PROVE  conditions[m].stackBeforeElse = stack
  <2>1. m \in 1..n /\ m - 1 \in 0..n
    BY <1>5, <1>6, <1>11
  <2>2. open[m] = "later" /\ AllFirst(open, m - 1)
    BY <1>6, <1>8, <1>11, <2>1
  <2> QED
    BY <1>7, <2>1, <2>2 DEF BranchesAt
<1>12. AllFirst(next, n + 1) => state.stack = stack
  BY <1>9 DEF BranchesAt
<1> QED
  BY <1>4, <1>6, <1>7, <1>10, <1>11, <1>12 DEF BranchesAt, next

LEMMA LaterIs ==
  ASSUME NEW open \in Seq(Branches), open # <<>>
  PROVE  /\ SetTop(open, "later") \in Seq(Branches) /\ Len(SetTop(open, "later")) = Len(open)
         /\ SetTop(open, "later")[Len(open)] = "later"
         /\ \A k \in 1..Len(open) - 1 : SetTop(open, "later")[k] = open[k]
<1>1. HasTop(Branches, open, "later")
  BY DEF HasTop, Branches
<1> QED
  BY <1>1, SetTopIs

\* #else and #elif: the first of a condition saves the stack of its branch.
LEMMA BranchesElse ==
  ASSUME NEW state \in Nestings({"no"}), NEW open, NEW stack, BranchesAt(state, open, stack),
         NEW t, t # <<>>, t[1] \in PpElse, open # <<>>
  PROVE  BranchesAt(UpdatePreprocessor(state, t), SetTop(open, "later"), stack)
<1> DEFINE n == Len(open)
           pp == state.ppStack
           top == Last(pp)
           saved == [top EXCEPT !.seenElse = TRUE, !.stackBeforeElse = state.stack]
           conditions == IF top.seenElse THEN pp ELSE SetTop(pp, saved)
           next == SetTop(open, "later")
<1>1. /\ open \in Seq(Branches) /\ n \in Nat \ {0} /\ Len(pp) = n
      /\ pp \in Seq(ConditionsOn({"no"})) /\ pp # <<>>
  BY DEF BranchesAt, Nestings
<1>2. top = pp[n] /\ top \in ConditionsOn({"no"})
  BY <1>1 DEF Last
<1>3. UpdatePreprocessor(state, t) = [stack |-> top.stackBeforeIf, ppStack |-> conditions]
  BY <1>1 DEF UpdatePreprocessor, PpIf, PpElse
<1>4. UpdatePreprocessor(state, t).ppStack = conditions
  BY <1>3
<1>5. /\ next \in Seq(Branches) /\ Len(next) = n
      /\ next[n] = "later" /\ \A k \in 1..n - 1 : next[k] = open[k]
  BY <1>1, LaterIs
<1> HIDE DEF next
<1>6. /\ Len(conditions) = n /\ \A k \in 1..n - 1 : conditions[k] = pp[k]
      /\ conditions[n].seenElse
      /\ conditions[n].stackBeforeElse = IF open[n] = "later" THEN pp[n].stackBeforeElse ELSE state.stack
  <2>1. top.seenElse <=> open[n] = "later"
    BY <1>1, <1>2 DEF BranchesAt
  <2>2. CASE top.seenElse
    <3>1. conditions = pp
      BY <2>2
    <3> HIDE DEF conditions, pp, top
    <3> QED
      BY <1>1, <1>2, <2>1, <2>2, <3>1
  <2>3. CASE ~top.seenElse
    <3>1. /\ saved \in ConditionsOn({"no"}) /\ saved.seenElse = TRUE
          /\ saved.stackBeforeElse = state.stack
      <4>1. state.stack \in Seq(Blocks({"no"}))
        BY DEF Nestings
      <4> QED
        BY <1>2, <4>1 DEF ConditionsOn
    <3>2. conditions = SetTop(pp, saved)
      BY <2>3
    <3> HIDE DEF conditions, saved, pp, top
    <3>3. /\ Len(SetTop(pp, saved)) = n /\ SetTop(pp, saved)[n] = saved
          /\ \A k \in 1..n - 1 : SetTop(pp, saved)[k] = pp[k]
      <4>1. HasTop(ConditionsOn({"no"}), pp, saved)
        BY <1>1, <3>1 DEF HasTop
      <4>2. /\ Len(SetTop(pp, saved)) = Len(pp) /\ SetTop(pp, saved)[Len(pp)] = saved
            /\ \A k \in 1..Len(pp) - 1 : SetTop(pp, saved)[k] = pp[k]
        BY <4>1, SetTopIs
      <4> QED
        BY <1>1, <4>2
    <3> QED
      BY <2>1, <2>3, <3>1, <3>2, <3>3
  <2> QED
    BY <2>2, <2>3
<1> HIDE DEF conditions, n
<1>7. ASSUME NEW m \in 0..n - 1 PROVE AllFirst(next, m) <=> AllFirst(open, m)
  <2>1. \A k \in 1..m : k \in 1..n - 1
    BY <1>1
  <2> QED
    BY <1>5, <2>1 DEF AllFirst
<1>8. ~AllFirst(next, n)
  BY <1>1, <1>5 DEF AllFirst
<1>9. \A k \in 1..n : conditions[k].seenElse <=> next[k] = "later"
  <2>1. \A k \in 1..n : k \in 1..n - 1 \/ k = n
    BY <1>1
  <2>2. \A k \in 1..n - 1 : k \in 1..n
    BY <1>1
  <2>3. \A k \in 1..n : pp[k].seenElse <=> open[k] = "later"
    BY DEF BranchesAt, n
  <2> HIDE DEF pp
  <2> QED
    BY <1>5, <1>6, <2>1, <2>2, <2>3
<1>10. ASSUME NEW m \in 1..n, next[m] = "later", AllFirst(next, m - 1)
       PROVE  conditions[m].stackBeforeElse = stack
  <2>1. \A k \in 1..n : open[k] = "later" /\ AllFirst(open, k - 1) => pp[k].stackBeforeElse = stack
    BY DEF BranchesAt, n
  <2>2. AllFirst(open, m - 1)
    BY <1>1, <1>7, <1>10
  <2>3. CASE m \in 1..n - 1
    BY <1>5, <1>6, <1>10, <2>1, <2>2, <2>3
  <2>4. CASE m = n
    <3>1. CASE open[n] = "later"
      BY <1>6, <2>1, <2>2, <2>4, <3>1
    <3>2. CASE open[n] # "later"
      <4>1. AllFirst(open, n)
        <5>1. \A k \in 1..n : k \in 1..n - 1 \/ k = n
          BY <1>1
        <5>2. n \in 1..n /\ open[n] \in Branches
          BY <1>1 DEF n
        <5>3. open[n] = "first"
          BY <3>2, <5>2 DEF Branches
        <5> QED
          BY <2>2, <2>4, <5>1, <5>3 DEF AllFirst
      <4> QED
        BY <1>6, <2>4, <3>2, <4>1 DEF BranchesAt, n
    <3> QED
      BY <3>1, <3>2
  <2> QED
    BY <1>1, <2>3, <2>4
<1> QED
  BY <1>4, <1>5, <1>6, <1>8, <1>9, <1>10 DEF BranchesAt, next

\* #endif: the stack of the first branch comes back.
LEMMA BranchesEndif ==
  ASSUME NEW state \in Nestings({"no"}), NEW open, NEW stack, BranchesAt(state, open, stack),
         NEW t, t # <<>>, t[1] = "#endif", open # <<>>
  PROVE  BranchesAt(UpdatePreprocessor(state, t), Front(open), stack)
<1> DEFINE n == Len(open)
           pp == state.ppStack
           top == Last(pp)
           conditions == Front(pp)
           next == Front(open)
<1>1. /\ open \in Seq(Branches) /\ n \in Nat \ {0} /\ Len(pp) = n
      /\ pp \in Seq(ConditionsOn({"no"})) /\ pp # <<>>
  BY DEF BranchesAt, Nestings
<1>2. top = pp[n]
  BY <1>1 DEF Last
<1>3. UpdatePreprocessor(state, t) =
        [stack |-> IF top.seenElse THEN top.stackBeforeElse ELSE state.stack, ppStack |-> conditions]
  BY <1>1 DEF UpdatePreprocessor, PpIf, PpElse
<1>4. /\ next \in Seq(Branches) /\ Len(next) = n - 1 /\ \A k \in 1..n - 1 : next[k] = open[k]
  BY <1>1, FrontIs
<1>5. Len(conditions) = n - 1 /\ \A k \in 1..n - 1 : conditions[k] = pp[k]
  BY <1>1, FrontIs
<1>6. \A k \in 1..n : pp[k].seenElse <=> open[k] = "later"
  BY DEF BranchesAt
<1>7. \A k \in 1..n : open[k] = "later" /\ AllFirst(open, k - 1) => pp[k].stackBeforeElse = stack
  BY DEF BranchesAt
<1>8. AllFirst(open, n) => state.stack = stack
  BY DEF BranchesAt
<1>9. /\ UpdatePreprocessor(state, t).ppStack = conditions
      /\ UpdatePreprocessor(state, t).stack = IF top.seenElse THEN top.stackBeforeElse ELSE state.stack
  BY <1>3
<1> HIDE DEF next, conditions, n, pp, top
<1>10. ASSUME NEW m \in 0..n - 1 PROVE AllFirst(next, m) <=> AllFirst(open, m)
  <2>1. \A k \in 1..m : k \in 1..n - 1
    BY <1>1
  <2> QED
    BY <1>4, <2>1 DEF AllFirst
<1>11. \A k \in 1..n - 1 : k \in 1..n /\ k - 1 \in 0..n - 1
  BY <1>1
<1>12. AllFirst(next, n - 1) => UpdatePreprocessor(state, t).stack = stack
  <2> SUFFICES ASSUME AllFirst(next, n - 1) PROVE UpdatePreprocessor(state, t).stack = stack
    OBVIOUS
  <2>1. AllFirst(open, n - 1) /\ n \in 1..n
    BY <1>1, <1>10
  <2>2. CASE open[n] = "later"
    BY <1>2, <1>6, <1>7, <1>9, <2>1, <2>2
  <2>3. CASE open[n] # "later"
    <3>1. \A k \in 1..n : k \in 1..n - 1 \/ k = n
      BY <1>1
    <3>2. open[n] \in Branches
      BY <1>1, <2>1 DEF n
    <3>3. open[n] = "first"
      BY <2>3, <3>2 DEF Branches
    <3>4. AllFirst(open, n)
      BY <2>1, <3>1, <3>3 DEF AllFirst
    <3> QED
      BY <1>2, <1>6, <1>8, <1>9, <2>1, <2>3, <3>4
  <2> QED
    BY <2>2, <2>3
<1>13. \A k \in 1..n - 1 : conditions[k].seenElse <=> next[k] = "later"
  BY <1>4, <1>5, <1>6, <1>11
<1>14. ASSUME NEW m \in 1..n - 1, next[m] = "later", AllFirst(next, m - 1)
       PROVE  conditions[m].stackBeforeElse = stack
  BY <1>4, <1>5, <1>7, <1>10, <1>11, <1>14
<1> QED
  BY <1>4, <1>5, <1>9, <1>12, <1>13, <1>14 DEF BranchesAt, next

\* Any directive.
LEMMA BranchesDirective ==
  ASSUME NEW state \in Nestings({"no"}), NEW open, NEW stack, BranchesAt(state, open, stack),
         NEW c, NEW l, NEW t, t = c[l].elided, t # <<>>
  PROVE  BranchesAt(UpdatePreprocessor(state, t), ConditionsAfter(open, c, l), stack)
<1>1. state.ppStack # <<>> <=> open # <<>>
  <2>1. Len(state.ppStack) = Len(open) /\ open \in Seq(Branches)
    BY DEF BranchesAt
  <2>2. state.ppStack \in Seq(ConditionsOn({"no"}))
    BY DEF Nestings
  <2> QED
    BY <2>1, <2>2
<1>2. CASE t[1] \in PpIf
  <2>1. ConditionsAfter(open, c, l) = Append(open, "first")
    BY <1>2 DEF ConditionsAfter, StartsIn, PpIf, PpElse
  <2> QED
    BY <1>2, <2>1, BranchesIf
<1>3. CASE t[1] \in PpElse /\ open # <<>>
  <2>1. ConditionsAfter(open, c, l) = SetTop(open, "later")
    BY <1>3 DEF ConditionsAfter, StartsIn, PpIf, PpElse
  <2> QED
    BY <1>3, <2>1, BranchesElse
<1>4. CASE t[1] = "#endif" /\ open # <<>>
  <2>1. ConditionsAfter(open, c, l) = Front(open)
    BY <1>4 DEF ConditionsAfter, StartsIn, PpIf, PpElse
  <2> QED
    BY <1>4, <2>1, BranchesEndif
<1>5. CASE t[1] \notin PpIf /\ (open = <<>> \/ (t[1] \notin PpElse /\ t[1] # "#endif"))
  <2>1. ConditionsAfter(open, c, l) = open
    BY <1>5 DEF ConditionsAfter, StartsIn
  <2>2. UpdatePreprocessor(state, t) = state
    BY <1>1, <1>5 DEF UpdatePreprocessor
  <2> QED
    BY <2>1, <2>2
<1> QED
  BY <1>2, <1>3, <1>4, <1>5

\* A line without a directive, in the first branches or in another.
LEMMA BranchesCode ==
  ASSUME NEW state, NEW open, NEW stack, BranchesAt(state, open, stack),
         NEW next, next.ppStack = state.ppStack, NEW after,
         AllFirst(open, Len(open)) => next.stack = after,
         ~AllFirst(open, Len(open)) => after = stack
  PROVE  BranchesAt(next, open, after)
<1> DEFINE n == Len(open)
<1>1. open \in Seq(Branches) /\ n \in Nat /\ Len(next.ppStack) = n
  BY DEF BranchesAt
<1>2. \A k \in 1..n : next.ppStack[k].seenElse <=> open[k] = "later"
  BY DEF BranchesAt
<1>3. ASSUME NEW m \in 1..n, open[m] = "later", AllFirst(open, m - 1)
      PROVE  next.ppStack[m].stackBeforeElse = after
  <2>1. open[m] # "first"
    BY <1>3
  <2>2. ~AllFirst(open, n)
    BY <2>1 DEF AllFirst
  <2> QED
    BY <1>3, <2>2 DEF BranchesAt
<1> QED
  BY <1>1, <1>2, <1>3 DEF BranchesAt

\* What is known before a line: a directive is nothing but that.
BranchesJudged ==
  pc = "lines" /\ NoAsm /\ PlainDirectives =>
    BranchesAt(nesting, ConditionsIn(lines)[linenum], FirstBranchesIn(lines)[linenum].nesting.stack)

\* No condition is open yet.
LEMMA BranchesBegin ==
  ASSUME Inv, BeginFile
  PROVE  BranchesJudged'
<1>1. linenum' = 0 /\ nesting' = NestingState
  BY DEF BeginFile
<1>2. PICK c : c = lines'
  OBVIOUS
<1>3. PICK n \in Nat : NumLines(c) = n
  <2>1. Inv' /\ pc' = "lines"
    BY BeginInv DEF BeginFile
  <2>2. file' \in SourceFile /\ RankedFile(file)' /\ lines' = LinesOf(file')
    BY <2>1 DEF Inv, TypeOK
  <2>3. RankedFile(file')
    BY <2>2 DEF RankedFile
  <2>4. Len(file'.lines) + 1 \in Nat \ {0} /\ DOMAIN lines' = 0..Len(file'.lines) + 1
    BY <2>2, <2>3, LinesOfType
  <2>5. PICK m \in Nat : m = Len(file'.lines) + 1
    BY <2>4
  <2>6. NumLines(c) = m + 1
    BY <1>2, <2>4, <2>5, NumLinesOf
  <2> QED
    BY <2>6
<1>4. ConditionsIn(c)[0] = <<>>
  <2>1. ConditionsIn(c)[0] = ConditionStep(c, ConditionsIn(c), 0)
    BY <1>3, ConditionsIs
  <2> QED
    BY <2>1 DEF ConditionStep
<1>5. FirstBranchesIn(c)[0].nesting.stack = <<>>
  <2>1. FirstBranchesIn(c)[0] = AloneStep(c, FirstBranchesIn(c), 0)
    BY <1>3, FirstBranchesIs
  <2> QED
    BY <2>1 DEF AloneStep, NestingState
<1>6. BranchesAt(NestingState, <<>>, <<>>)
  <2>1. NestingState.stack = <<>> /\ NestingState.ppStack = <<>>
    BY DEF NestingState
  <2> QED
    BY <2>1 DEF BranchesAt
<1>7. BranchesAt(NestingState, ConditionsIn(c)[0], FirstBranchesIn(c)[0].nesting.stack)
  BY <1>4, <1>5, <1>6
<1>8. BranchesAt(nesting', ConditionsIn(lines')[linenum'], FirstBranchesIn(lines')[linenum'].nesting.stack)
  BY <1>1, <1>2, <1>7
<1> QED
  BY <1>8 DEF BranchesJudged, BranchesAt, AllFirst

\* Every line leads from what is known before it to what is known after it.
LEMMA BranchesProcess ==
  ASSUME Inv, IncludesJudged, BranchesJudged, ProcessLine
  PROVE  BranchesJudged'
<1>1. file' = file /\ lines' = lines /\ pc = "lines" /\ linenum < NumLines(lines)
  BY DEF ProcessLine
<1>2. NoAsm' = NoAsm /\ PlainDirectives' = PlainDirectives
  BY <1>1 DEF NoAsm, PlainDirectives, Starts, Elided
<1> DEFINE m == linenum
           n == Len(file.lines) + 1
           t == lines[m].elided
           W == {t[j] : j \in 1..Len(t)}
           open == ConditionsIn(lines)[m]
           first == FirstBranchesIn(lines)[m]
           noted == ParseNolintSuppressions(lint, lines[m].raw.nolint, m)
           updated == Update(nesting, noted, lines, m).nesting
           ahead == ConditionsIn(lines)[m + 1]
           firstAhead == FirstBranchesIn(lines)[m + 1]
<1> SUFFICES ASSUME pc' = "lines", NoAsm, PlainDirectives
             PROVE  BranchesAt(nesting', ConditionsIn(lines)[linenum'],
                               FirstBranchesIn(lines)[linenum'].nesting.stack)
  <2>1. ConditionsIn(lines)' = ConditionsIn(lines) /\ FirstBranchesIn(lines)' = FirstBranchesIn(lines)
    BY <1>1
  <2> QED
    BY <1>1, <1>2, <2>1 DEF BranchesJudged, BranchesAt, AllFirst
<1>3. nesting \in Nestings({"no"}) /\ BranchesAt(nesting, open, first.nesting.stack)
  BY <1>1 DEF IncludesJudged, BranchesJudged
<1>4. /\ n \in Nat /\ lines \in [0..n -> CleanLine] /\ NumLines(lines) = n + 1
      /\ m \in 0..n
  <2>1. n \in Nat \ {0} /\ lines \in [0..n -> CleanLine] /\ NumLines(lines) = n + 1
    BY <1>1, FileAtHand
  <2> QED
    BY <1>1, <2>1 DEF Inv, TypeOK
<1> HIDE DEF n
<1>5. nesting' = updated /\ linenum' = m + 1
  <2>1. nesting' = updated
    BY DEF ProcessLine
  <2>2. PICK type : type = ClassifyInclude(file, Include(linenum))
    OBVIOUS
  <2>3. linenum' = linenum + 1
    BY <1>3, <2>2, LineIncludes
  <2> QED
    BY <2>1, <2>3
<1> HIDE DEF noted
<1>6. t \in Seq(W) /\ "asm" \notin W
  <2>1. t \in Seq(STRING)
    BY <1>4 DEF CleanLine
  <2>2. "asm" \notin W
    BY <1>4 DEF NoAsm, Mentions
  <2>3. t \in Seq(W)
    BY <2>1
  <2> QED
    BY <2>2, <2>3
<1> HIDE DEF W
<1>7. m + 1 \in 0..n + 1 /\ m + 1 # 0 /\ (m + 1) - 1 = m /\ n + 1 \in Nat
  BY <1>4
<1>8. ahead = ConditionsAfter(open, lines, m)
  <2>1. ahead = ConditionStep(lines, ConditionsIn(lines), m + 1)
    BY <1>4, <1>7, ConditionsIs
  <2> QED
    BY <1>7, <2>1 DEF ConditionStep
<1>9. firstAhead = IF LiveIn(lines, m) /\ ~StartsIn(lines, m, Directives)
                   THEN Update(first.nesting, first.lint, lines, m) ELSE first
  <2>1. firstAhead = AloneStep(lines, FirstBranchesIn(lines), m + 1)
    BY <1>4, <1>7, FirstBranchesIs
  <2> QED
    BY <1>7, <2>1 DEF AloneStep
<1>10. LiveIn(lines, m) <=> AllFirst(open, Len(open))
  BY DEF LiveIn, AllFirst
<1>11. CASE StartsIn(lines, m, Directives)
  <2>1. t # <<>> /\ Plain(t)
    <3>1. Signs = {"(", ")", "{", "}", ";", ":"}
      BY Zenon DEF Signs
    <3>2. m \in DOMAIN lines /\ Starts(m, Directives) /\ Elided(m) = t
      BY <1>4, <1>11 DEF StartsIn, Starts, Elided
    <3>3. ~Mentions(Elided(m), {"(", ")", "{", "}", ";", ":"})
      BY <3>2, Zenon DEF PlainDirectives
    <3>4. ~Mentions(t, Signs)
      BY <3>1, <3>2, <3>3, Zenon
    <3> QED
      BY <1>11, <3>4 DEF Plain, StartsIn
  <2>2. PICK pp : pp = UpdatePreprocessor(nesting, t)
    OBVIOUS
  <2>3. BranchesAt(pp, ahead, first.nesting.stack)
    BY <1>3, <1>8, <2>1, <2>2, BranchesDirective
  <2>4. updated.stack = pp.stack /\ updated.ppStack = pp.ppStack
    BY <1>3, <1>6, <2>1, <2>2, UpdatePlain
  <2>5. firstAhead = first
    BY <1>9, <1>11
  <2> HIDE DEF updated, ahead, first, firstAhead, open
  <2>6. BranchesAt(updated, ahead, first.nesting.stack)
    BY <2>3, <2>4 DEF BranchesAt
  <2> QED
    BY <1>5, <2>5, <2>6 DEF ahead, firstAhead
<1>12. CASE ~StartsIn(lines, m, Directives)
  <2>1. ahead = open
    BY <1>8, <1>12 DEF ConditionsAfter, StartsIn, Directives, PpIf, PpElse
  <2>2. /\ Tracked({"no"}, W) /\ DOMAIN lines = 0..n /\ nesting.stack \in Seq(Blocks({"no"}))
        /\ t # <<>> => t[1] \notin Directives
    BY <1>3, <1>4, <1>6, <1>12 DEF Tracked, Nestings, StartsIn
  <2>3. updated.ppStack = nesting.ppStack
    BY <1>4, <1>6, <2>2, UpdateSame
  <2>4. LiveIn(lines, m) => updated.stack = firstAhead.nesting.stack
    <3> SUFFICES ASSUME LiveIn(lines, m) PROVE updated.stack = firstAhead.nesting.stack
      OBVIOUS
    <3>1. nesting.stack = first.nesting.stack
      BY <1>3, <1>10 DEF BranchesAt
    <3>2. PICK alone, log : alone = first.nesting /\ log = first.lint
      OBVIOUS
    <3>3. firstAhead = Update(alone, log, lines, m)
      BY <1>9, <1>12, <3>2
    <3>4. updated.stack = Update(alone, log, lines, m).nesting.stack
      BY <1>4, <1>6, <2>2, <3>1, <3>2, UpdateSame
    <3> QED
      BY <3>3, <3>4
  <2>5. ~LiveIn(lines, m) => firstAhead.nesting.stack = first.nesting.stack
    BY <1>9
  <2> HIDE DEF updated, ahead, first, firstAhead, open
  <2>6. BranchesAt(updated, open, firstAhead.nesting.stack)
    BY <1>3, <1>10, <2>3, <2>4, <2>5, BranchesCode
  <2> QED
    BY <1>5, <2>1, <2>6 DEF ahead, firstAhead
<1> QED
  BY <1>11, <1>12

LEMMA BranchesInductive ==
  Inv /\ IncludesJudged /\ BranchesJudged /\ [Next]_vars => BranchesJudged'
<1> SUFFICES ASSUME Inv, IncludesJudged, BranchesJudged, [Next]_vars PROVE BranchesJudged'
  OBVIOUS
<1>1. CASE BeginFile
  BY <1>1, BranchesBegin
<1>2. CASE ProcessLine
  BY <1>2, BranchesProcess
<1>3. CASE ~BeginFile /\ ~ProcessLine
  <2>1. UNCHANGED vars \/ pc' # "lines"
    BY <1>3 DEF Next, ParseArgumentsExits, ParseArguments, SkipFile, FinishFile, Finish, Exit
  <2>2. ASSUME UNCHANGED vars PROVE BranchesJudged'
    <3>1. lines' = lines /\ pc' = pc /\ nesting' = nesting /\ linenum' = linenum
      BY <2>2 DEF vars
    <3>2. NoAsm' = NoAsm /\ PlainDirectives' = PlainDirectives
      BY <3>1 DEF NoAsm, PlainDirectives, Starts, Elided
    <3> QED
      BY <3>1, <3>2 DEF BranchesJudged, BranchesAt, AllFirst
  <2> QED
    BY <2>1, <2>2 DEF BranchesJudged
<1> QED
  BY <1>1, <1>2, <1>3

(* While every open condition is in its first branch, the stack is the one *)
(* these lead to, and after that the one that UpdatePreprocessor saved for *)
(* the outermost that is not.                                              *)
THEOREM BranchesInvariant == Spec => []BranchesJudged
<1>1. Init => BranchesJudged
  BY DEF Init, BranchesJudged
<1> QED
  BY <1>1, BranchesInductive, LintInvariant, IncludesInvariant, PTL DEF Spec

(* Code behind #else and #elif does not affect the nesting stack once the  *)
(* #endif is reached: UpdatePreprocessor follows the first branches.       *)
THEOREM LintFirstBranchNesting == Spec => []FirstBranchNesting
<1>1. BranchesJudged => FirstBranchNesting
  <2> SUFFICES ASSUME BranchesJudged, pc = "lines", NoAsm, PlainDirectives, Live(linenum)
               PROVE  nesting.stack = FirstBranches[linenum].nesting.stack
    BY DEF FirstBranchNesting
  <2>1. AllFirst(ConditionsIn(lines)[linenum], Len(ConditionsIn(lines)[linenum]))
    BY LiveIs DEF LiveIn, AllFirst
  <2>2. nesting.stack = FirstBranchesIn(lines)[linenum].nesting.stack
    BY <2>1 DEF BranchesJudged, BranchesAt
  <2> QED
    BY <2>2, FirstBranchesAre
<1> QED
  BY <1>1, BranchesInvariant, PTL
===============================================================================
