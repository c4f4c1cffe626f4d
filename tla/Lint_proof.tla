------------------------------ MODULE Lint_proof ------------------------------
(***************************************************************************)
(* Proofs about a run of cpplint.py: what it counts is what it prints, and *)
(* nothing is withheld but for a comment of its own line. The invariant    *)
(* says that the lines checked are those of the file at hand and that      *)
(* every check leaves a state of the report that is sound. Then what it    *)
(* takes for code and for templates, where it never ends, and how its      *)
(* stack of blocks follows the braces.                                     *)
(***************************************************************************)
EXTENDS LintProperties, LintChecks_proof

-----------------------------------------------------------------------------
(* The invariant.                                                          *)

\* What the report does on the comments that are not closed.
UnclosedStep(unused, log, i) == Error(log, i + 1, "readability/multiline_comment", 5)

UnclosedFold == INSTANCE Fold_proof WITH step <- UnclosedStep

\* Whether a comment is open after a line.
CommentStep(f, inComment, i) ==
  IF i \notin 1..Len(f.lines) THEN FALSE
  ELSE ScanFold!Fold(0, IF inComment[i - 1] THEN "comment" ELSE "code", f.lines[i].text) = "comment"

CommentRec == INSTANCE Fold_proof WITH step <- CommentStep

UnclosedReports(log, S) ==
  FoldLeft(LAMBDA acc, i : Error(acc, i + 1, "readability/multiline_comment", 5), log, SetToSeq(S))

RankedFile(f) == \A i \in 1..Len(f.lines) : Ranked(f.lines[i])

\* The lines of a file as they are checked.
LinesOf(f) == CleansedLines(RemoveMultiLineComments(Marked(f)).lines)

\* The states of the report while f, the k-th file, is checked.
During(f, k) == {log \in Sound(f) : log.file = k}

(* The lines are those of the file at hand, and what is reported about it  *)
(* is sound. A header that is included has a rank.                         *)
Inv ==
  /\ TypeOK
  /\ \A i \in 1..Len(command.files) : RankedFile(command.files[i])
  /\ \A i \in 1..Len(todo) : RankedFile(todo[i])
  /\ RankedFile(file)
  /\ lint \in Sound(file)
  /\ pc = "arguments" => lint = CppLintState
  /\ lint.file > 0 => lines = LinesOf(file)
  /\ pc \in {"lines", "hung"} => lint.file > 0
  /\ pc = "exit" /\ lint.reports # <<>> => (status = 1 <=> lint.errorCount > 0)

-----------------------------------------------------------------------------
(* The lines of a file.                                                    *)

LEMMA MarkerType ==
  /\ Dummy \in SourceLine /\ Marker \in SourceLine
  /\ Dummy.nolint = "no" /\ Marker.nolint = "no"
  /\ Dummy.text = <<"//", "x">> /\ Marker.text = <<"//", "x">>
<1>1. <<"//", "x">> \in Seq(STRING) /\ <<>> \in Seq(STRING)
  <2>1. "//" \in STRING /\ "x" \in STRING
    BY LiteralsAssumption, Zenon
  <2> QED
    BY <2>1
<1>2. [path |-> <<>>, ext |-> "", isSystem |-> FALSE] \in Header
  BY <1>1, LiteralsAssumption, Zenon DEF Header
<1>3. Dummy \in SourceLine
  <2>1. {} \in SUBSET Seq(STRING)
    OBVIOUS
  <2> QED
    BY <1>1, <1>2, <2>1, LiteralsAssumption, Zenon DEF Dummy, SourceLine
<1>4. Dummy.nolint = "no" /\ Dummy.text = <<"//", "x">>
  BY Zenon DEF Dummy
<1>5. Marker = [Dummy EXCEPT !.text = <<"//", "x">>]
  BY DEF Marker
<1>6. Marker = Dummy
  BY <1>3, <1>4, <1>5 DEF SourceLine
<1> QED
  BY <1>3, <1>4, <1>6

LEMMA LinesOfType ==
  ASSUME NEW f \in SourceFile, RankedFile(f), NEW n, n = Len(f.lines) + 1
  PROVE  /\ n \in Nat \ {0}
         /\ LinesOf(f) \in [0..n -> CleanLine]
         /\ \A i \in 0..n :
              LET line == LinesOf(f)[i]
              IN  /\ line.raw.nolint # "no" =>
                       i \in 1..Len(f.lines) /\ f.lines[i].nolint = line.raw.nolint
                  /\ line.elided # <<>> /\ line.elided[1] = "#include" =>
                       Canonical(line.raw.header) \in DOMAIN Rank
                  /\ line.raw \in {Marked(f)[i], Dummy}
<1> DEFINE marked == Marked(f)
           kept == RemoveMultiLineComments(marked).lines
<1>1. f.lines \in Seq(SourceLine) /\ n \in Nat \ {0} /\ Len(f.lines) \in Nat
  BY DEF SourceFile
<1>2. DOMAIN marked = 0..n
  BY <1>1 DEF Marked
<1>3. ASSUME NEW i \in 0..n
      PROVE  marked[i] = IF i \in 1..Len(f.lines) THEN f.lines[i] ELSE Marker
  BY DEF Marked
<1> HIDE DEF marked
<1>4. DOMAIN kept = 0..n /\ \A i \in 0..n : kept[i] \in {marked[i], Dummy}
  BY <1>1, <1>2, RemoveMultiLineCommentsType
<1> HIDE DEF kept
<1>5. ASSUME NEW i \in 0..n
      PROVE  /\ kept[i] \in SourceLine
             /\ kept[i].nolint # "no" => i \in 1..Len(f.lines) /\ f.lines[i].nolint = kept[i].nolint
             /\ Ranked(kept[i])
  <2>1. CASE kept[i] = f.lines[i] /\ i \in 1..Len(f.lines)
    <3>1. f.lines[i] \in SourceLine /\ Ranked(f.lines[i])
      BY <1>1, <2>1 DEF RankedFile
    <3> QED
      BY <2>1, <3>1
  <2>2. CASE kept[i] \in {Marker, Dummy}
    <3>1. ~Mentions(kept[i].text, {"#include"})
      <4>1. kept[i].text = <<"//", "x">>
        BY <2>2, MarkerType
      <4>2. Len(<<"//", "x">>) = 2 /\ <<"//", "x">>[1] = "//" /\ <<"//", "x">>[2] = "x"
        OBVIOUS
      <4>3. \A j \in 1..2 : j = 1 \/ j = 2
        OBVIOUS
      <4> QED
        BY <4>1, <4>2, <4>3 DEF Mentions
    <3> QED
      BY <2>2, <3>1, MarkerType DEF Ranked
  <2> QED
    BY <1>3, <1>4, <2>1, <2>2
<1> DEFINE clean == CleansedLines(kept)
<1>6. ASSUME NEW i \in 0..n
      PROVE  /\ DOMAIN clean = 0..n
             /\ clean[i].raw = kept[i] /\ clean[i].text \in Seq(STRING)
             /\ clean[i].elided \in Seq(STRING)
             /\ clean[i].elided \in Seq({kept[i].text[j] : j \in 1..Len(kept[i].text)})
  <2>1. kept[i].text \in Seq(STRING)
    BY <1>5 DEF SourceLine
  <2> DEFINE S == {kept[i].text[j] : j \in 1..Len(kept[i].text)}
  <2>2. kept[i].text \in Seq(S)
    BY <2>1
  <2> HIDE DEF S
  <2>3. clean[i].elided \in Seq(S)
    <3> HIDE DEF clean
    <3> QED
      BY <1>1, <1>4, <2>2, CleansedLinesType DEF clean
  <2>4. DOMAIN clean = 0..n /\ clean[i].raw = kept[i] /\ clean[i].text \in Seq(STRING)
        /\ clean[i].elided \in Seq(STRING)
    BY <1>1, <1>4, <2>1, CleansedLinesType
  <2> QED
    BY <2>3, <2>4 DEF S
<1>7. LinesOf(f) = clean
  BY DEF LinesOf, clean, kept, marked
<1>8. ASSUME NEW i \in 0..n PROVE clean[i] \in CleanLine
  BY <1>4, <1>5, <1>6 DEF CleansedLines, CleanLine
<1>9. clean \in [0..n -> CleanLine]
  BY <1>4, <1>8 DEF CleansedLines
<1> HIDE DEF clean
<1>10. ASSUME NEW i \in 0..n, clean[i].elided # <<>>, clean[i].elided[1] = "#include"
       PROVE  Canonical(clean[i].raw.header) \in DOMAIN Rank
  <2> DEFINE S == {kept[i].text[j] : j \in 1..Len(kept[i].text)}
  <2>1. clean[i].elided \in Seq(S)
    BY <1>6
  <2>2. clean[i].elided[1] \in S
    <3> HIDE DEF S
    <3> QED
      BY <1>10, <2>1
  <2>3. Mentions(kept[i].text, {"#include"})
    BY <1>10, <2>2 DEF Mentions
  <2> QED
    BY <1>5, <1>6, <2>3 DEF Ranked
<1> QED
  BY <1>1, <1>4, <1>5, <1>6, <1>7, <1>9, <1>10 DEF marked

-----------------------------------------------------------------------------
(* The beginning.                                                          *)

LEMMA EmptySound ==
  ASSUME NEW f, NEW log \in LintState, log.reports = <<>>, log.suppressions = {},
         log.errorCount = 0, \A k \in Categories \cup TopLevels : log.errorsByCategory[k] = 0
  PROVE  log \in Sound(f)
<1>1. Counted(log)
  BY TallyEmpty DEF Counted
<1>2. Len(log.reports) = 0
  OBVIOUS
<1>3. Excused(log) /\ Asked(f, log) /\ NoneAhead(log)
  BY <1>2 DEF Excused, Asked, NoneAhead
<1> QED
  BY <1>1, <1>3 DEF Sound

LEMMA CppLintStateType ==
  /\ CppLintState \in LintState
  /\ CppLintState.reports = <<>> /\ CppLintState.suppressions = {}
  /\ CppLintState.errorCount = 0 /\ CppLintState.file = 0
  /\ \A k \in Categories \cup TopLevels : CppLintState.errorsByCategory[k] = 0
<1>1. DefaultFilters \in Seq(Filter)
  <2>1. [sign |-> "-", covers |-> {"build/include_alpha"}] \in Filter
    BY DEF Filter, Categories, Build
  <2> QED
    BY <2>1 DEF DefaultFilters
<1>2. [c \in Categories \cup TopLevels |-> 0] \in [Categories \cup TopLevels -> Nat]
  OBVIOUS
<1>3. "total" \in CountingStyles
  BY Zenon DEF CountingStyles
<1>4. <<>> \in Seq(Report) /\ 1 \in Nat /\ 0 \in Nat
  OBVIOUS
<1>5. {} \in SUBSET ((Categories \cup {"all"}) \X Nat)
  OBVIOUS
<1>6. CppLintState \in LintState
  BY <1>1, <1>2, <1>3, <1>4, <1>5 DEF CppLintState, LintState
<1> QED
  BY <1>6 DEF CppLintState

LEMMA NoFileType == NoFile \in SourceFile /\ RankedFile(NoFile)
<1>1. NoFile \in SourceFile
  <2>1. <<>> \in Seq(STRING) /\ <<>> \in Seq(SourceLine)
    OBVIOUS
  <2> QED
    BY <2>1, LiteralsAssumption, Zenon DEF NoFile, SourceFile
<1>2. NoFile.lines = <<>>
  BY Zenon DEF NoFile
<1>3. Len(NoFile.lines) = 0
  BY <1>2
<1> QED
  BY <1>1, <1>3 DEF RankedFile

LEMMA NestingStateType == NestingState \in Nesting
<1>1. <<>> \in Seq(Block) /\ <<>> \in Seq(Condition)
  OBVIOUS
<1> QED
  BY <1>1 DEF NestingState, Nesting

LEMMA FileStatesType ==
  NestingState \in Nesting /\ FunctionState \in Function /\ IncludeState \in Includes
BY NestingStateType DEF FunctionState, Function, IncludeState, Includes, Sections, Initial, OtherH

LEMMA InitInv == Init => Inv
<1>1. SUFFICES ASSUME Init PROVE Inv
  OBVIOUS
<1>2. command \in Command /\ \A i \in 1..Len(command.files) : RankedFile(command.files[i])
  <2>1. PICK i \in DOMAIN Commands : command \in Commands[i]
    BY <1>1 DEF Init
  <2>2. /\ command \in Command
        /\ \A f \in 1..Len(command.files) : \A l \in 1..Len(command.files[f].lines) :
             Ranked(command.files[f].lines[l])
    BY <2>1, LintAssumption
  <2> QED
    BY <2>2 DEF RankedFile
<1>3. NumLines(<<>>) = 0
  <2>1. DOMAIN <<>> = {}
    OBVIOUS
  <2> QED
    BY <2>1, FS_EmptySet DEF NumLines
<1>4. TypeOK
  <2>1. <<>> \in Seq(STRING) /\ <<>> \in Seq(SourceFile) /\ 0 \in 0..0 /\ -1 \in -1..1
    OBVIOUS
  <2>2. lint \in LintState
    BY <1>1, CppLintStateType DEF Init
  <2>3. linenum \in 0..NumLines(lines)
    BY <1>1, <1>3, <2>1 DEF Init
  <2> QED
    BY <1>1, <1>2, <2>1, <2>2, <2>3, NoFileType, FileStatesType DEF Init, TypeOK
<1>5. lint \in Sound(file)
  BY <1>1, CppLintStateType, EmptySound DEF Init
<1>6. \A i \in 1..Len(todo) : RankedFile(todo[i])
  <2>1. Len(<<>>) = 0
    OBVIOUS
  <2> QED
    BY <1>1, <2>1 DEF Init
<1>7. lint.file = 0
  BY <1>1, CppLintStateType DEF Init
<1> QED
  BY <1>1, <1>2, <1>4, <1>5, <1>6, <1>7, NoFileType DEF Init, Inv

-----------------------------------------------------------------------------
(* The command line.                                                       *)

LEMMA GivenType ==
  ASSUME command \in Command, NEW name, NEW default
  PROVE  \/ Given(name, default) = default
         \/ \E i \in 1..Len(command.options) :
              Given(name, default) = command.options[i] /\ command.options[i].name = name
<1> DEFINE given == {i \in 1..Len(command.options) : command.options[i].name = name}
<1>1. given \in SUBSET (1..Len(command.options)) /\ 1 \in Int /\ Len(command.options) \in Int
  BY DEF Command
<1>2. Given(name, default) = IF given = {} THEN default ELSE command.options[Max(given)]
  BY DEF Given
<1>3. given # {} => Max(given) \in given
  <2> HIDE DEF given
  <2> QED
    BY <1>1, MinMaxInterval
<1> QED
  BY <1>2, <1>3

LEMMA ConfiguredType ==
  ASSUME command \in Command, lint \in LintState, Stops = {}
  PROVE  /\ Configured \in LintState
         /\ Configured.reports = lint.reports /\ Configured.file = lint.file
         /\ Configured.suppressions = lint.suppressions
         /\ Configured.errorCount = lint.errorCount
         /\ Configured.errorsByCategory = lint.errorsByCategory
<1> DEFINE level == Given("verbose", [NoOption EXCEPT !.level = lint.verboseLevel]).level
           filters == Given("filter", NoOption).filters
           style == Given("counting", NoOption).word
<1>1. command.options \in Seq(CommandOption)
  BY DEF Command
<1>2. ASSUME NEW i \in 1..Len(command.options)
      PROVE  command.options[i] \in CommandOption /\ Effect(command.options[i]) = "none"
  BY <1>1 DEF Stops
<1>3. level \in Nat
  <2> DEFINE default == [NoOption EXCEPT !.level = lint.verboseLevel]
  <2>1. default.level \in Nat
    BY DEF NoOption, LintState
  <2> HIDE DEF default
  <2>2. Given("verbose", default).level \in Nat
    BY <1>2, <2>1, GivenType DEF CommandOption
  <2> QED
    BY <2>2 DEF default
<1>4. filters \in Seq(Filter)
  <2>1. NoOption.filters \in Seq(Filter)
    <3>1. NoOption.filters = <<>>
      BY Zenon DEF NoOption
    <3> QED
      BY <3>1
  <2> QED
    BY <1>2, <2>1, GivenType DEF CommandOption
<1>5. style \in CountingStyles
  <2>1. NoOption.word \in CountingStyles
    BY Zenon DEF NoOption, CountingStyles
  <2>2. ASSUME NEW i \in 1..Len(command.options), command.options[i].name = "counting"
        PROVE  command.options[i].word \in CountingStyles
    <3>1. command.options[i].word \in {"total", "toplevel", "detailed"}
      BY <1>2, <2>2 DEF Effect
    <3> QED
      BY <3>1, Zenon DEF CountingStyles
  <2> QED
    BY <2>1, <2>2, GivenType
<1> HIDE DEF level, filters, style
<1> DEFINE levelled == SetVerboseLevel(lint, level)
           filtered == SetFilters(levelled, filters)
<1>6. Configured = SetCountingStyle(filtered, style)
  BY DEF Configured, level, filters, style
<1>7. /\ levelled \in LintState
      /\ levelled.reports = lint.reports /\ levelled.file = lint.file
      /\ levelled.suppressions = lint.suppressions /\ levelled.errorCount = lint.errorCount
      /\ levelled.errorsByCategory = lint.errorsByCategory
  <2>1. levelled \in LintState
    BY <1>3, LintStateField DEF SetVerboseLevel
  <2> QED
    BY <2>1 DEF SetVerboseLevel, LintState
<1> HIDE DEF levelled
<1>8. /\ filtered \in LintState
      /\ filtered.reports = levelled.reports /\ filtered.file = levelled.file
      /\ filtered.suppressions = levelled.suppressions
      /\ filtered.errorCount = levelled.errorCount
      /\ filtered.errorsByCategory = levelled.errorsByCategory
  <2>1. DefaultFilters \o filters \in Seq(Filter)
    <3>1. DefaultFilters \in Seq(Filter)
      BY CppLintStateType DEF CppLintState, LintState
    <3> QED
      BY <1>4, <3>1
  <2>2. filtered = [levelled EXCEPT !.filters = DefaultFilters \o filters]
    BY DEF SetFilters
  <2>3. filtered \in LintState
    BY <1>7, <2>1, <2>2, LintStateField
  <2> QED
    BY <1>7, <2>2, <2>3 DEF LintState
<1> HIDE DEF filtered
<1>9. SetCountingStyle(filtered, style) \in LintState
  BY <1>5, <1>8, LintStateField DEF SetCountingStyle
<1>10. /\ Configured.reports = filtered.reports /\ Configured.file = filtered.file
       /\ Configured.suppressions = filtered.suppressions
       /\ Configured.errorCount = filtered.errorCount
       /\ Configured.errorsByCategory = filtered.errorsByCategory
  BY <1>6, <1>8 DEF SetCountingStyle, LintState
<1> QED
  BY <1>6, <1>7, <1>8, <1>9, <1>10

-----------------------------------------------------------------------------
(* The steps.                                                              *)

\* Reporting keeps the state of the report during a file.
LEMMA DuringClosed ==
  ASSUME NEW f, NEW k
  PROVE  Closed(During(f, k), Categories)
<1>1. ASSUME NEW log \in During(f, k), NEW n \in Nat, NEW c \in Categories, NEW confidence \in 0..5
      PROVE  Error(log, n, c, confidence) \in During(f, k)
  <2> DEFINE r == [file |-> log.file, linenum |-> n, category |-> c, confidence |-> confidence,
                   printed |-> ShouldPrintError(log, c, confidence, n)]
             next == Error(log, n, c, confidence)
  <2>1. log \in Sound(f) /\ log.file = k
    BY DEF During
  <2>2. next \in Sound(f)
    BY <2>1, ErrorSound
  <2>3. next.file = log.file
    <3>1. log \in LintState
      BY <2>1 DEF Sound
    <3> HIDE DEF r, next
    <3>2. r = [file |-> log.file, linenum |-> n, category |-> c, confidence |-> confidence,
               printed |-> ShouldPrintError(log, c, confidence, n)]
      BY DEF r
    <3>3. next = Error(log, n, c, confidence)
      BY DEF next
    <3>4. Reported(log, next, r)
      BY <3>1, <3>2, <3>3, ErrorEffect
    <3> QED
      BY <3>4 DEF Reported
  <2> HIDE DEF next
  <2>4. next \in During(f, k)
    BY <2>1, <2>2, <2>3 DEF During
  <2> QED
    BY <2>4 DEF next
<1> QED
  BY <1>1 DEF Closed

LEMMA DuringNolint ==
  ASSUME NEW f, NEW k, NEW log \in During(f, k), NEW nolint, NEW l \in Nat,
         nolint # "no" => l \in 1..Len(f.lines) /\ f.lines[l].nolint = nolint
  PROVE  ParseNolintSuppressions(log, nolint, l) \in During(f, k)
<1> DEFINE next == ParseNolintSuppressions(log, nolint, l)
<1>1. log \in Sound(f) /\ log.file = k /\ log \in LintState
  BY DEF During, Sound
<1>2. next \in Sound(f)
  BY <1>1, NolintSound
<1>3. next.file = k
  <2>1. Error(log, l, "readability/nolint", 5) \in During(f, k)
    <3>1. "readability/nolint" \in Categories /\ 5 \in 0..5
      BY DEF Categories, Readability
    <3> QED
      BY <3>1, DuringClosed DEF Closed
  <2>2. [log EXCEPT !.suppressions = @ \cup {<<nolint, l>>}].file = log.file
    BY <1>1 DEF LintState
  <2> QED
    BY <1>1, <2>1, <2>2 DEF ParseNolintSuppressions, During
<1> HIDE DEF next
<1>4. next \in During(f, k)
  BY <1>2, <1>3 DEF During
<1> QED
  BY <1>4 DEF next

\* Nothing changes when nothing happens.
LEMMA StutterInv ==
  ASSUME Inv, UNCHANGED vars
  PROVE  Inv'
BY DEF Inv, TypeOK, vars

LEMMA ExitsInv ==
  ASSUME Inv, ParseArgumentsExits
  PROVE  Inv'
<1>1. lint.reports = <<>> /\ lint.file = 0
  BY CppLintStateType DEF Inv, ParseArgumentsExits
<1>2. TypeOK'
  BY DEF Inv, TypeOK, ParseArgumentsExits, Exit, fileVars
<1> QED
  BY <1>1, <1>2 DEF Inv, ParseArgumentsExits, Exit, fileVars

LEMMA ArgumentsInv ==
  ASSUME Inv, ParseArguments
  PROVE  Inv'
<1>1. /\ command \in Command /\ lint \in LintState /\ Stops = {}
      /\ lint = CppLintState
  BY DEF Inv, TypeOK, ParseArguments
<1>2. /\ lint.reports = <<>> /\ lint.suppressions = {} /\ lint.errorCount = 0
      /\ \A k \in Categories \cup TopLevels : lint.errorsByCategory[k] = 0
      /\ lint.file = 0
  BY <1>1, CppLintStateType
<1> DEFINE conf == Configured
           reset == ResetErrorCounts(conf)
<1>3. /\ conf \in LintState
      /\ conf.reports = lint.reports /\ conf.file = lint.file
      /\ conf.suppressions = lint.suppressions /\ conf.errorCount = lint.errorCount
      /\ conf.errorsByCategory = lint.errorsByCategory
  BY <1>1, ConfiguredType
<1>4. lint' = reset \/ lint' = conf
  BY DEF ParseArguments
<1> HIDE DEF conf
<1>5. /\ reset \in LintState
      /\ reset.reports = conf.reports /\ reset.file = conf.file
      /\ reset.suppressions = conf.suppressions /\ reset.errorCount = 0
      /\ \A k \in Categories \cup TopLevels : reset.errorsByCategory[k] = 0
  <2> DEFINE zero == [c \in DOMAIN conf.errorsByCategory |-> 0]
             none == [conf EXCEPT !.errorCount = 0]
             next == [none EXCEPT !.errorsByCategory = zero]
  <2>1. zero \in [Categories \cup TopLevels -> Nat]
        /\ \A k \in Categories \cup TopLevels : zero[k] = 0
    BY <1>3 DEF LintState
  <2>2. reset = next
    BY DEF ResetErrorCounts
  <2> HIDE DEF zero, reset
  <2>3. none \in LintState
    BY <1>3, LintStateField
  <2>4. none.reports = conf.reports /\ none.file = conf.file
        /\ none.suppressions = conf.suppressions /\ none.errorCount = 0
    BY <1>3 DEF LintState
  <2> HIDE DEF none
  <2>5. next \in LintState
    BY <2>1, <2>3, LintStateField
  <2>6. next.reports = none.reports /\ next.file = none.file
        /\ next.suppressions = none.suppressions /\ next.errorCount = none.errorCount
        /\ next.errorsByCategory = zero
    BY <2>3 DEF LintState
  <2> QED
    BY <2>1, <2>2, <2>4, <2>5, <2>6
<1> HIDE DEF reset
<1>6. /\ lint' \in LintState /\ lint'.reports = <<>> /\ lint'.file = 0
      /\ lint'.suppressions = {} /\ lint'.errorCount = 0
      /\ \A k \in Categories \cup TopLevels : lint'.errorsByCategory[k] = 0
  BY <1>2, <1>3, <1>4, <1>5
<1>7. lint' \in Sound(file)
  BY <1>6, EmptySound
<1>8. root' \in Seq(STRING)
  <2>1. NoOption.path \in Seq(STRING)
    <3>1. NoOption.path = <<>>
      BY Zenon DEF NoOption
    <3> QED
      BY <3>1
  <2>2. \A i \in 1..Len(command.options) : command.options[i].path \in Seq(STRING)
    <3>1. command.options \in Seq(CommandOption)
      BY <1>1 DEF Command
    <3>2. \A i \in 1..Len(command.options) : command.options[i] \in CommandOption
      BY <3>1
    <3> QED
      BY <3>2 DEF CommandOption
  <2>3. Given("root", NoOption).path \in Seq(STRING)
    BY <1>1, <2>1, <2>2, GivenType
  <2> QED
    BY <2>3 DEF ParseArguments
<1>9. todo' \in Seq(SourceFile) /\ \A i \in 1..Len(todo') : RankedFile(todo'[i])
  <2>1. todo' = command.files \/ todo' = todo
    BY DEF ParseArguments
  <2> QED
    BY <2>1 DEF Inv, TypeOK, Command
<1>10. /\ pc' \in {"files", "exit"} /\ status' \in -1..1
       /\ UNCHANGED <<command, file, lines, linenum, nesting, function, includes>>
  BY DEF ParseArguments, Exit, fileVars, Inv, TypeOK
<1>11. TypeOK'
  BY <1>6, <1>8, <1>9, <1>10 DEF Inv, TypeOK
<1> QED
  BY <1>6, <1>7, <1>9, <1>10, <1>11 DEF Inv

LEMMA SkipInv ==
  ASSUME Inv, SkipFile
  PROVE  Inv'
<1>1. todo \in Seq(SourceFile) /\ lint \in LintState /\ todo # <<>>
  BY DEF Inv, TypeOK, SkipFile
<1>2. lint' = lint
  BY <1>1 DEF SkipFile, SetVerboseLevel, LintState
<1>3. Tail(todo) \in Seq(SourceFile) /\ \A i \in 1..Len(Tail(todo)) : i + 1 \in 1..Len(todo) /\ Tail(todo)[i] = todo[i + 1]
  BY <1>1
<1>4. todo' \in Seq(SourceFile) /\ \A i \in 1..Len(todo') : RankedFile(todo'[i])
  BY <1>3 DEF SkipFile, Inv
<1>5. UNCHANGED <<pc, command, root, file, status, lines, linenum, nesting, function, includes>>
      /\ pc = "files"
  BY DEF SkipFile, fileVars
<1>6. TypeOK'
  BY <1>2, <1>4, <1>5 DEF Inv, TypeOK
<1> QED
  BY <1>2, <1>4, <1>5, <1>6 DEF Inv

LEMMA FinishInv ==
  ASSUME Inv, Finish
  PROVE  Inv'
<1>1. TypeOK'
  BY DEF Inv, TypeOK, Finish, Exit, fileVars
<1> QED
  BY <1>1 DEF Inv, Finish, Exit, fileVars

\* The comments that are not closed are reported one after the other.
LEMMA UnclosedStays ==
  ASSUME NEW T, NEW K, Closed(T, K), "readability/multiline_comment" \in K, NEW log \in T,
         NEW n \in Nat, NEW S \in SUBSET (0..n)
  PROVE  UnclosedReports(log, S) \in T
<1> DEFINE s == SetToSeq(S)
<1>1. UnclosedReports(log, S) = UnclosedFold!Fold(<<>>, log, s)
  BY DEF UnclosedReports, FoldLeft, MapThenFoldSet, UnclosedFold!Fold, UnclosedStep,
         UnclosedFold!Iter, UnclosedFold!Max, Max
<1>2. Cardinality(S) \in Nat /\ s \in [1..Cardinality(S) -> S]
  <2>1. 0 \in Int /\ n \in Int
    OBVIOUS
  <2>2. IsFiniteSet(0..n)
    BY <2>1, FS_Interval
  <2>3. IsFiniteSet(S)
    BY <2>2, FS_Subset
  <2> QED
    BY <2>3, SetToSeqType
<1> HIDE DEF s
<1>3. ASSUME NEW i \in 1..Cardinality(S), NEW l \in T PROVE UnclosedStep(<<>>, l, s[i]) \in T
  <2>1. s[i] + 1 \in Nat
    <3>1. s[i] \in S
      BY <1>2
    <3>2. s[i] \in 0..n
      BY <3>1
    <3> QED
      BY <3>2
  <2>2. 5 \in 0..5
    OBVIOUS
  <2>3. Error(l, s[i] + 1, "readability/multiline_comment", 5) \in T
    BY <2>1, <2>2 DEF Closed
  <2> QED
    BY <2>3 DEF UnclosedStep
<1>4. DOMAIN s = 1..Cardinality(S)
  BY <1>2
<1>5. UnclosedFold!Fold(<<>>, log, s) \in T
  BY <1>2, <1>3, <1>4, UnclosedFold!FoldStays
<1> QED
  BY <1>1, <1>5

LEMMA BeginInv ==
  ASSUME Inv, BeginFile
  PROVE  Inv'
<1> DEFINE f == Head(todo)
           k == lint.file + 1
           T == During(f, k)
           n == Len(f.lines) + 1
           raw == Marked(f)
           reset == [ResetNolintSuppressions(lint) EXCEPT !.file = @ + 1]
           copyright == CheckForCopyright(reset, raw)
           guard == IF f.ext = "h" THEN CheckForHeaderGuard(copyright, raw, f, root) ELSE copyright
           comments == RemoveMultiLineComments(raw)
<1>1. /\ todo \in Seq(SourceFile) /\ todo # <<>> /\ lint \in Sound(file) /\ lint.file \in Nat
      /\ f.ext \in {"cc", "h", "cpp"}
  BY DEF Inv, TypeOK, BeginFile, LintState
<1>2. /\ lint' = UnclosedReports(guard, comments.unclosed)
      /\ lines' = CleansedLines(comments.lines) /\ file' = f
  BY DEF BeginFile, UnclosedReports
<1>3. f \in SourceFile /\ RankedFile(f) /\ Tail(todo) \in Seq(SourceFile)
      /\ \A i \in 1..Len(Tail(todo)) : RankedFile(Tail(todo)[i])
  <2>1. f = todo[1] /\ 1 \in 1..Len(todo) /\ Tail(todo) \in Seq(SourceFile)
        /\ \A i \in 1..Len(Tail(todo)) : i + 1 \in 1..Len(todo) /\ Tail(todo)[i] = todo[i + 1]
    BY <1>1
  <2> QED
    BY <1>1, <2>1 DEF Inv
<1>4. lines' = LinesOf(f)
  BY <1>2 DEF LinesOf
<1> HIDE DEF f
<1>5. /\ n \in Nat \ {0} /\ f.lines \in Seq(SourceLine)
      /\ raw \in [0..n -> SourceLine]
      /\ \A i \in 0..n : raw[i].nolint # "no" =>
           i \in 1..Len(f.lines) /\ f.lines[i].nolint = raw[i].nolint
  <2>1. f.lines \in Seq(SourceLine)
    BY <1>3 DEF SourceFile
  <2>2. n \in Nat \ {0}
    BY <2>1
  <2>3. raw \in [0..n -> SourceLine]
    BY <2>1, MarkerType DEF Marked
  <2>4. ASSUME NEW i \in 0..n, raw[i].nolint # "no"
        PROVE  i \in 1..Len(f.lines) /\ f.lines[i].nolint = raw[i].nolint
    BY <2>1, <2>4, MarkerType DEF Marked
  <2> QED
    BY <2>1, <2>2, <2>3, <2>4
<1>6. reset \in T
  <2>1. reset \in Sound(f) /\ reset.file = lint.file + 1
    BY <1>1, NewFileSound
  <2> HIDE DEF reset
  <2> QED
    BY <2>1 DEF During
<1>7. Closed(T, Categories)
  BY DuringClosed
<1>8. ClosedNolint(T, raw)
  <2>1. ASSUME NEW log \in T, NEW i \in DOMAIN raw
        PROVE  ParseNolintSuppressions(log, raw[i].nolint, i) \in T
    <3>1. i \in 0..n /\ i \in Nat
      BY <1>5
    <3>2. raw[i].nolint # "no" => i \in 1..Len(f.lines) /\ f.lines[i].nolint = raw[i].nolint
      BY <1>5, <3>1
    <3> HIDE DEF raw, k
    <3> QED
      BY <3>1, <3>2, DuringNolint
  <2> HIDE DEF T, raw
  <2> QED
    BY <2>1 DEF ClosedNolint
<1> HIDE DEF T, raw, reset
<1>9. copyright \in T
  <2>1. "legal/copyright" \in Categories
    BY DEF Categories, Legal
  <2> QED
    BY <1>6, <1>7, <2>1, CopyrightStays
<1> HIDE DEF copyright
<1>10. guard \in T
  <2>1. "build/header_guard" \in Categories
    BY DEF Categories, Build
  <2>2. n \in Nat
    BY <1>5
  <2> HIDE DEF n
  <2>3. CheckForHeaderGuard(copyright, raw, f, root) \in T
    BY <1>5, <1>7, <1>8, <1>9, <2>1, <2>2, HeaderGuardStays
  <2> QED
    BY <1>9, <2>3
<1> HIDE DEF guard
<1>11. comments.unclosed \in SUBSET (0..n)
  BY <1>5, RemoveMultiLineCommentsType
<1> HIDE DEF comments
<1>12. lint' \in T
  <2>1. n \in Nat
    BY <1>5
  <2>2. "readability/multiline_comment" \in Categories
    BY DEF Categories, Readability
  <2> HIDE DEF n
  <2> QED
    BY <1>2, <1>7, <1>10, <1>11, <2>1, <2>2, UnclosedStays
<1>13. lint' \in Sound(f) /\ lint'.file = lint.file + 1 /\ lint' \in LintState
  BY <1>12 DEF T, During, Sound
<1>14. 0 \in 0..NumLines(lines')
  <2>1. DOMAIN lines' = 0..n
    BY <1>3, <1>4, LinesOfType
  <2>2. NumLines(lines') = n + 1
    <3> HIDE DEF n
    <3> QED
      BY <1>5, <2>1, NumLinesOf DEF n
  <2> QED
    BY <1>5, <2>2
<1>15. /\ pc' = "lines" /\ todo' = Tail(todo) /\ linenum' = 0
       /\ nesting' \in Nesting /\ function' \in Function /\ includes' \in Includes
       /\ UNCHANGED <<command, root, status>>
  BY FileStatesType DEF BeginFile
<1>16. TypeOK'
  BY <1>2, <1>3, <1>13, <1>14, <1>15 DEF Inv, TypeOK
<1>17. lint'.file > 0
  BY <1>1, <1>13
<1> QED
  BY <1>2, <1>3, <1>4, <1>13, <1>15, <1>16, <1>17 DEF Inv

\* While the lines of a file are checked.
LEMMA FileAtHand ==
  ASSUME Inv, pc = "lines", NEW n, n = Len(file.lines) + 1
  PROVE  /\ n \in Nat \ {0} /\ lines \in [0..n -> CleanLine] /\ NumLines(lines) = n + 1
         /\ lint \in During(file, lint.file)
         /\ \A i \in 0..n :
              /\ lines[i].raw.nolint # "no" =>
                   i \in 1..Len(file.lines) /\ file.lines[i].nolint = lines[i].raw.nolint
              /\ lines[i].elided # <<>> /\ lines[i].elided[1] = "#include" =>
                   Canonical(lines[i].raw.header) \in DOMAIN Rank
<1>1. /\ file \in SourceFile /\ RankedFile(file) /\ lint \in Sound(file) /\ lines = LinesOf(file)
  BY DEF Inv, TypeOK
<1>2. n \in Nat \ {0} /\ lines \in [0..n -> CleanLine]
  BY <1>1, LinesOfType
<1>3. NumLines(lines) = n + 1
  <2>1. n \in Nat /\ DOMAIN lines = 0..n
    BY <1>2
  <2> QED
    BY <2>1, NumLinesOf
<1>4. ASSUME NEW i \in 0..n
      PROVE  /\ lines[i].raw.nolint # "no" =>
                   i \in 1..Len(file.lines) /\ file.lines[i].nolint = lines[i].raw.nolint
             /\ lines[i].elided # <<>> /\ lines[i].elided[1] = "#include" =>
                   Canonical(lines[i].raw.header) \in DOMAIN Rank
  BY <1>1, LinesOfType
<1>5. lint \in During(file, lint.file)
  BY <1>1 DEF During
<1> QED
  BY <1>2, <1>3, <1>4, <1>5

\* What the checks of a line leave behind.
LineChecked(T) ==
  /\ lint' \in T
  /\ function' \in Function /\ includes' \in Includes
  /\ pc' \in {"lines", "hung"}
  /\ linenum' \in {linenum, linenum + 1}

LEMMA StyleAndLanguageStays ==
  ASSUME NEW T, NEW K, Closed(T, K), StyleCategories \subseteq K, IncludeCategories \subseteq K,
         NEW n \in Nat, lines \in [0..n -> CleanLine], linenum \in 0..n, NEW log \in T,
         includes \in Includes, NEW updated, StyleAndLanguage(log, updated),
         lines[linenum].elided # <<>> /\ lines[linenum].elided[1] = "#include" =>
           Canonical(lines[linenum].raw.header) \in DOMAIN Rank
  PROVE  lint' \in T /\ includes' \in Includes
<1> DEFINE styled == CheckStyle(log, lines, linenum, updated)
           header == lines[linenum].raw.header
           included == CheckIncludeLine(includes, styled, file, header, linenum)
<1>1. styled \in T
  BY StyleStays
<1>2. header \in Header /\ linenum \in Nat
  <2>1. lines[linenum].raw \in SourceLine
    BY DEF CleanLine
  <2> QED
    BY <2>1 DEF SourceLine
<1>3. \/ /\ lines[linenum].elided # <<>> /\ lines[linenum].elided[1] = "#include"
         /\ lint' = included.lint /\ includes' = included.includes
      \/ lint' = styled /\ includes' = includes
  BY DEF StyleAndLanguage
<1> HIDE DEF styled, header
<1>4. included.lint \in T
  BY <1>1, <1>2, IncludeLineStays
<1>5. lines[linenum].elided # <<>> /\ lines[linenum].elided[1] = "#include" =>
        included.includes \in Includes
  BY <1>2, IncludeLineType DEF header
<1> HIDE DEF included
<1> QED
  BY <1>1, <1>3, <1>4, <1>5

LEMMA CheckLineStays ==
  ASSUME NEW T, NEW K, Closed(T, K), StyleCategories \subseteq K, IncludeCategories \subseteq K,
         {"readability/fn_size", "readability/multiline_comment",
          "readability/multiline_string"} \subseteq K,
         NEW n \in Nat, lines \in [0..n -> CleanLine], linenum \in 0..n, NEW log \in T,
         includes \in Includes, function \in Function, pc = "lines",
         NEW updated, CheckLine(log, updated),
         lines[linenum].elided # <<>> /\ lines[linenum].elided[1] = "#include" =>
           Canonical(lines[linenum].raw.header) \in DOMAIN Rank
  PROVE  LineChecked(T)
<1> DEFINE measured == CheckForFunctionLengths(function, log, lines, linenum)
           closed == CheckForMultilineCommentsAndStrings(measured.lint, lines, linenum)
<1>1. linenum \in Nat
  OBVIOUS
<1>2. /\ function' = measured.function
      /\ \/ pc' = "hung" /\ lint' = closed /\ linenum' = linenum /\ includes' = includes
         \/ StyleAndLanguage(closed, updated) /\ linenum' = linenum + 1 /\ pc' = pc
  BY DEF CheckLine
<1>3. measured.lint \in T /\ measured.function \in Function
  <2>1. "readability/fn_size" \in K
    OBVIOUS
  <2> QED
    BY <1>1, <2>1, FunctionLengthsStay
<1> HIDE DEF measured
<1>4. closed \in T
  <2>1. {"readability/multiline_comment", "readability/multiline_string"} \subseteq K
    OBVIOUS
  <2> QED
    BY <1>1, <1>3, <2>1, MultilineStays
<1> HIDE DEF closed
<1>5. StyleAndLanguage(closed, updated) => lint' \in T /\ includes' \in Includes
  BY <1>4, StyleAndLanguageStays
<1> QED
  BY <1>2, <1>3, <1>4, <1>5 DEF LineChecked

LEMMA ProcessLineStays ==
  ASSUME NEW T, NEW K, Closed(T, K), StyleCategories \subseteq K, IncludeCategories \subseteq K,
         {"readability/fn_size", "readability/multiline_comment",
          "readability/multiline_string", "readability/namespace"} \subseteq K,
         NEW n \in Nat, lines \in [0..n -> CleanLine], linenum \in 0..n,
         includes \in Includes, function \in Function, nesting \in Nesting, ProcessLine,
         lines[linenum].elided # <<>> /\ lines[linenum].elided[1] = "#include" =>
           Canonical(lines[linenum].raw.header) \in DOMAIN Rank,
         ParseNolintSuppressions(lint, lines[linenum].raw.nolint, linenum) \in T
  PROVE  LineChecked(T) /\ nesting' \in Nesting
<1> DEFINE noted == ParseNolintSuppressions(lint, lines[linenum].raw.nolint, linenum)
           updated == Update(nesting, noted, lines, linenum)
<1>1. /\ nesting' = updated.nesting /\ pc = "lines"
      /\ \/ /\ lint' = updated.lint /\ linenum' = linenum + 1
            /\ pc' = pc /\ function' = function /\ includes' = includes
         \/ CheckLine(updated.lint, updated.nesting)
  BY DEF ProcessLine
<1>2. noted \in T
  OBVIOUS
<1> HIDE DEF noted
<1>3. updated.nesting \in Nesting /\ updated.lint \in T
  <2>1. "readability/namespace" \in K
    OBVIOUS
  <2>2. Tracked(AsmStates, STRING) /\ nesting \in Nestings(AsmStates)
    BY NestingIs DEF Tracked
  <2>3. lines[linenum].elided \in Seq(STRING)
    BY DEF CleanLine
  <2> QED
    BY <1>2, <2>1, <2>2, <2>3, UpdateStays, NestingIs
<1> HIDE DEF updated
<1>4. CheckLine(updated.lint, updated.nesting) => LineChecked(T)
  <2>1. {"readability/fn_size", "readability/multiline_comment",
         "readability/multiline_string"} \subseteq K
    OBVIOUS
  <2> QED
    BY <1>1, <1>3, <2>1, CheckLineStays
<1> QED
  BY <1>1, <1>3, <1>4 DEF LineChecked

LEMMA ProcessInv ==
  ASSUME Inv, ProcessLine
  PROVE  Inv'
<1> DEFINE n == Len(file.lines) + 1
           T == During(file, lint.file)
<1>1. /\ n \in Nat \ {0} /\ lines \in [0..n -> CleanLine] /\ NumLines(lines) = n + 1
      /\ lint \in T /\ pc = "lines"
      /\ \A i \in 0..n :
              /\ lines[i].raw.nolint # "no" =>
                   i \in 1..Len(file.lines) /\ file.lines[i].nolint = lines[i].raw.nolint
              /\ lines[i].elided # <<>> /\ lines[i].elided[1] = "#include" =>
                   Canonical(lines[i].raw.header) \in DOMAIN Rank
  <2>1. pc = "lines"
    BY DEF ProcessLine
  <2> QED
    BY <2>1, FileAtHand
<1> HIDE DEF n
<1>2. /\ linenum \in 0..n /\ includes \in Includes /\ function \in Function
      /\ nesting \in Nesting /\ lint.file \in Nat /\ lint.file > 0
  BY <1>1 DEF ProcessLine, Inv, TypeOK, LintState
<1>3. ParseNolintSuppressions(lint, lines[linenum].raw.nolint, linenum) \in T
  <2>1. linenum \in Nat
    BY <1>1, <1>2
  <2> QED
    BY <1>1, <1>2, <2>1, DuringNolint
<1>4. Closed(T, Categories)
  BY DuringClosed
<1>5. /\ StyleCategories \subseteq Categories /\ IncludeCategories \subseteq Categories
      /\ {"readability/fn_size", "readability/multiline_comment",
          "readability/multiline_string", "readability/namespace"} \subseteq Categories
  BY DEF StyleCategories, IncludeCategories, Categories, Build, Readability, Whitespace
<1> HIDE DEF T
<1>6. LineChecked(T) /\ nesting' \in Nesting
  <2>1. n \in Nat
    BY <1>1
  <2> QED
    BY <1>1, <1>2, <1>3, <1>4, <1>5, <2>1, ProcessLineStays
<1>7. UNCHANGED <<command, root, todo, file, lines, status>>
  BY DEF ProcessLine
<1>8. lint' \in Sound(file) /\ lint'.file = lint.file /\ lint' \in LintState
  BY <1>6 DEF LineChecked, T, During, Sound
<1>9. linenum' \in 0..NumLines(lines')
  BY <1>1, <1>2, <1>6, <1>7 DEF LineChecked
<1>10. TypeOK'
  BY <1>6, <1>7, <1>8, <1>9 DEF Inv, TypeOK, LineChecked
<1> QED
  BY <1>2, <1>6, <1>7, <1>8, <1>10 DEF Inv, LineChecked

LEMMA FinishFileInv ==
  ASSUME Inv, FinishFile
  PROVE  Inv'
<1> DEFINE n == Len(file.lines) + 1
           T == During(file, lint.file)
           classes == CheckClassFinished(nesting, lint)
           uses == CheckForIncludeWhatYouUse(includes, classes, file, lines)
           utf8 == CheckForUnicodeReplacementCharacters(uses, lines)
           newline == CheckForNewlineAtEOF(utf8, lines)
<1>1. /\ n \in Nat \ {0} /\ lines \in [0..n -> CleanLine]
      /\ lint \in T
  <2>1. pc = "lines"
    BY DEF FinishFile
  <2> QED
    BY <2>1, FileAtHand
<1> HIDE DEF n
<1>2. n \in Nat /\ DOMAIN lines = 0..n /\ nesting \in Nesting
  BY <1>1 DEF Inv, TypeOK
<1>3. Closed(T, Categories)
  BY DuringClosed
<1>4. /\ "build/class" \in Categories /\ "build/include_what_you_use" \in Categories
      /\ "readability/utf8" \in Categories /\ "whitespace/ending_newline" \in Categories
      /\ "whitespace/newline" \in Categories
  BY DEF Categories, Build, Readability, Whitespace
<1>5. lint' = ErrorIf(newline, file.carriageReturn, 0, "whitespace/newline", 1)
  BY DEF FinishFile
<1> HIDE DEF T
<1>6. classes \in T
  BY <1>1, <1>2, <1>3, <1>4, ClassFinishedStays
<1> HIDE DEF classes
<1>7. uses \in T
  BY <1>2, <1>3, <1>4, <1>6, IncludeWhatYouUseStays
<1> HIDE DEF uses
<1>8. utf8 \in T
  BY <1>2, <1>3, <1>4, <1>7, UnicodeStays
<1> HIDE DEF utf8
<1>9. newline \in T
  BY <1>1, <1>2, <1>3, <1>4, <1>8, NewlineAtEOFStays
<1> HIDE DEF newline
<1>10. lint' \in T
  <2>1. Error(newline, 0, "whitespace/newline", 1) \in T
    BY <1>3, <1>4, <1>9 DEF Closed
  <2> QED
    BY <1>5, <1>9, <2>1 DEF ErrorIf
<1>11. lint' \in Sound(file) /\ lint'.file = lint.file /\ lint' \in LintState
  BY <1>10 DEF T, During, Sound
<1>12. pc' = "files" /\ UNCHANGED <<command, root, todo, file, status, lines, linenum,
                                    nesting, function, includes>>
  BY DEF FinishFile, fileVars
<1>13. TypeOK'
  BY <1>11, <1>12 DEF Inv, TypeOK
<1> QED
  BY <1>11, <1>12, <1>13 DEF Inv

LEMMA Inductive == Inv /\ [Next]_vars => Inv'
BY StutterInv, ExitsInv, ArgumentsInv, SkipInv, BeginInv, ProcessInv, FinishFileInv, FinishInv
   DEF Next

-----------------------------------------------------------------------------
(* What always holds.                                                      *)

(* Every step of main, ProcessFile, ProcessFileData and ProcessLine, with  *)
(* all their checks, keeps the invariant.                                  *)
THEOREM LintInvariant == Spec => []Inv
BY InitInv, Inductive, PTL DEF Spec

\* The states of the checker have their types, whatever it is asked to check.
THEOREM LintTypeCorrect == Spec => []TypeOK
<1>1. Inv => TypeOK
  BY DEF Inv
<1> QED
  BY <1>1, LintInvariant, PTL

(* The totals, the counts of the categories and the exit status agree with *)
(* the lines that Error printed, for every command line and every file.    *)
THEOREM LintCountsAgree == Spec => []CountsAgree
<1>1. Inv => CountsAgree
  <2> SUFFICES ASSUME Inv PROVE CountsAgree
    OBVIOUS
  <2> DEFINE printed == {i \in 1..Len(lint.reports) : lint.reports[i].printed}
             ofCategory(c) == {i \in printed : lint.reports[i].category = c}
             ofTop(top) == {i \in printed : TopLevel(lint.reports[i].category) = top}
  <2>1. Counted(lint) /\ lint \in LintState /\ lint.reports \in Seq(Report)
    BY DEF Inv, Sound, LintState
  <2>2. \A i \in 1..Len(lint.reports) : lint.reports[i] \in Report
    BY <2>1
  <2>3. printed = {i \in 1..Len(lint.reports) : lint.reports[i] \in Printed}
    BY <2>2 DEF Printed
  <2>4. Cardinality(printed) = Tally(lint.reports, Printed)
    BY <2>3 DEF Tally
  <2>5. ASSUME NEW c PROVE Cardinality(ofCategory(c)) = Tally(lint.reports, PrintedOf(c))
    <3>1. ofCategory(c) = {i \in 1..Len(lint.reports) : lint.reports[i] \in PrintedOf(c)}
      BY <2>2 DEF Printed, PrintedOf
    <3> QED
      BY <3>1 DEF Tally
  <2>6. ASSUME NEW top PROVE Cardinality(ofTop(top)) = Tally(lint.reports, PrintedUnder(top))
    <3>1. ofTop(top) = {i \in 1..Len(lint.reports) : lint.reports[i] \in PrintedUnder(top)}
      BY <2>2 DEF Printed, PrintedUnder
    <3> QED
      BY <3>1 DEF Tally
  <2>7. lint.errorCount > 0 <=> printed # {}
    <3>1. IsFiniteSet(printed) /\ Cardinality(printed) \in Nat
      BY <2>1, <2>3, TallyType DEF Tally
    <3>2. Cardinality(printed) = 0 <=> printed = {}
      BY <3>1, FS_EmptySet
    <3> QED
      BY <2>1, <2>4, <3>1, <3>2 DEF Counted
  <2>8. pc = "exit" /\ lint.reports # <<>> => (status = 1 <=> lint.errorCount > 0)
    BY DEF Inv
  <2> HIDE DEF printed, ofCategory, ofTop
  <2>9. /\ pc \in {"files", "lines", "hung"} => lint.errorCount = Cardinality(printed)
        /\ pc = "exit" /\ lint.reports # <<>> => (status = 1 <=> printed # {})
        /\ lint.counting = "detailed" =>
             \A c \in Categories : lint.errorsByCategory[c] = Cardinality(ofCategory(c))
        /\ lint.counting = "toplevel" =>
             \A top \in TopLevels : lint.errorsByCategory[top] = Cardinality(ofTop(top))
    BY <2>1, <2>4, <2>5, <2>6, <2>7, <2>8 DEF Counted
  <2> QED
    BY <2>9 DEF CountsAgree, printed, ofCategory, ofTop
<1> QED
  BY <1>1, LintInvariant, PTL

(* A report that passes the level and the filters is withheld only if the  *)
(* line it is about asks for it, in this file.                             *)
THEOREM LintSuppressedByOwnNolint == Spec => []SuppressedByOwnNolint
<1>1. Inv => SuppressedByOwnNolint
  <2> SUFFICES ASSUME Inv, NEW i \in Mine, pc # "arguments", ~lint.reports[i].printed,
                      lint.reports[i].confidence >= lint.verboseLevel,
                      ~IsFiltered(lint, lint.reports[i].category)
               PROVE  /\ lint.reports[i].linenum \in 1..Len(file.lines)
                      /\ file.lines[lint.reports[i].linenum].nolint
                           \in {lint.reports[i].category, "all"}
    BY DEF SuppressedByOwnNolint
  <2> DEFINE r == lint.reports[i]
  <2>1. Excused(lint) /\ Asked(file, lint) /\ i \in 1..Len(lint.reports) /\ r.file = lint.file
    BY DEF Inv, Sound, Mine
  <2>2. IsErrorSuppressedByNolint(lint, r.category, r.linenum)
    BY <2>1 DEF Excused
  <2>3. PICK s \in lint.suppressions : s \in {r.category, "all"} \X {r.linenum}
    BY <2>2 DEF IsErrorSuppressedByNolint
  <2>4. s[1] \in {r.category, "all"} /\ s[2] = r.linenum
    BY <2>3
  <2>5. s[2] \in 1..Len(file.lines) /\ file.lines[s[2]].nolint = s[1]
    BY <2>1, <2>3 DEF Asked
  <2> QED
    BY <2>4, <2>5
<1> QED
  BY <1>1, LintInvariant, PTL

-----------------------------------------------------------------------------
(* Where a bracket is closed.                                              *)

\* The depth before line i, when open[k] is the depth after line k.
DepthBefore(open, l, i) == IF i = l THEN 0 ELSE open[i - 1]

FirstOf(l, p, i) == IF i = l THEN p ELSE 1

\* The places of line i that close the bracket at (l, p).
EndsAt(open, l, p, i) ==
  LET a == Elided(l)[p]
  IN {q \in FirstOf(l, p, i)..Len(Elided(i)) :
        /\ Elided(i)[q] = Closing(a)
        /\ DepthAt(Elided(i), FirstOf(l, p, i), q, DepthBefore(open, l, i), a, Closing(a)) = 0}

\* open[i] is the depth after line i.
IsOpen(open, l, p, n) ==
  /\ \A i \in l..n : open[i] \in Int
  /\ open[l] = Net(From(Elided(l), p), Elided(l)[p])
  /\ \A i \in l + 1..n : open[i] = open[i - 1] + Net(Elided(i), Elided(l)[p])

Text(n) == n \in Nat /\ DOMAIN lines = 0..n /\ \A i \in 0..n : Elided(i) \in Seq(STRING)

BeforeIn(l, p, i) ==
  CHOOSE before :
    before = [k \in l..i |->
                IF k = l THEN 0
                ELSE before[k - 1] + LET t == IF k - 1 = l THEN From(Elided(l), p) ELSE Elided(k - 1)
                                     IN Count(t, Elided(l)[p]) - Count(t, Closing(Elided(l)[p]))]

\* The depth that TrueClose counts up to a line.
LEMMA BeforeIs ==
  ASSUME NEW n, Text(n), NEW l \in 0..n, NEW p \in 1..Len(Elided(l)), NEW open,
         IsOpen(open, l, p, n), NEW i \in l..n
  PROVE  BeforeIn(l, p, i)[i] = DepthBefore(open, l, i)
<1> DEFINE a == Elided(l)[p]
           part(k) == IF k - 1 = l THEN From(Elided(l), p) ELSE Elided(k - 1)
           term == [k \in l..i |-> IF k = l THEN 0 ELSE Net(part(k), a)]
           B == BeforeIn(l, p, i)
<1>1. l \in Int /\ i \in Int /\ l <= i /\ l..i \subseteq l..n
  BY DEF Text
<1>2. ASSUME NEW k \in l + 1..i
      PROVE  Net(part(k), a) \in Int /\ k - 1 \in l..n /\ k \in l..n
  <2>1. k - 1 \in 0..n /\ l \in 0..n /\ k - 1 \in l..n /\ k \in l..n
    BY DEF Text
  <2>2. Elided(k - 1) \in Seq(STRING) /\ Elided(l) \in Seq(STRING)
    BY <2>1 DEF Text
  <2>3. From(Elided(l), p) \in Seq(STRING)
    <3>1. p \in Nat \ {0}
      OBVIOUS
    <3> QED
      BY <2>2, <3>1, FromType
  <2>4. part(k) \in Seq(STRING)
    BY <2>2, <2>3
  <2> HIDE DEF part, a
  <2>5. Count(part(k), a) \in Int /\ Count(part(k), Closing(a)) \in Int
    BY <2>4, CountInt
  <2> QED
    BY <2>1, <2>5 DEF Net
<1>3. \A k \in l..i : term[k] \in Int
  <2>1. \A k \in l..i : k = l \/ k \in l + 1..i
    OBVIOUS
  <2> HIDE DEF part, a
  <2> QED
    BY <1>2, <2>1
<1>4. PICK g : IsSum(g, l, i, 0, term)
  <2> HIDE DEF term
  <2> QED
    BY <1>1, SumExists
<1>5. g = [k \in l..i |-> IF k = l THEN 0
                          ELSE g[k - 1] + (Count(part(k), a) - Count(part(k), Closing(a)))]
  BY <1>4 DEF IsSum, Net
<1>6. B = [k \in l..i |-> IF k = l THEN 0
                          ELSE B[k - 1] + (Count(part(k), a) - Count(part(k), Closing(a)))]
  BY <1>5, Zenon DEF BeforeIn
<1> HIDE DEF B, part, a
<1> DEFINE T == {k \in l..i : B[k] = DepthBefore(open, l, k)}
<1>7. l \in T
  BY <1>1, <1>6 DEF DepthBefore
<1>8. ASSUME NEW k \in l + 1..i, k - 1 \in T PROVE k \in T
  <2>1. k \in l..i /\ k # l
    BY <1>1
  <2>2. B[k] = B[k - 1] + Net(part(k), a)
    BY <1>6, <2>1 DEF Net
  <2>3. DepthBefore(open, l, k) = open[k - 1]
    BY <2>1 DEF DepthBefore
  <2>4. CASE k - 1 = l
    <3>1. B[k - 1] = 0 /\ open[k - 1] = Net(part(k), a)
      BY <1>8, <2>4 DEF DepthBefore, IsOpen, part, a
    <3> QED
      BY <1>2, <2>1, <2>2, <2>3, <3>1
  <2>5. CASE k - 1 # l
    <3>1. B[k - 1] = open[k - 1 - 1]
      BY <1>8, <2>5 DEF DepthBefore
    <3>2. k - 1 \in l + 1..n
      BY <1>2, <2>5
    <3>3. open[k - 1] = open[k - 1 - 1] + Net(part(k), a)
      BY <2>5, <3>2 DEF IsOpen, part, a
    <3> QED
      BY <2>1, <2>2, <2>3, <3>1, <3>3
  <2> QED
    BY <2>4, <2>5
<1>9. l..i \subseteq T
  <2> HIDE DEF T
  <2> QED
    BY <1>1, <1>7, <1>8, IntervalInduction
<1>10. i \in T
  BY <1>1, <1>9
<1> QED
  BY <1>10 DEF B

TrueDepth(l, p, i, q) ==
  LET t == IF i = l THEN SubSeq(Elided(l), p, q) ELSE SubSeq(Elided(i), 1, q)
  IN BeforeIn(l, p, i)[i] + Count(t, Elided(l)[p]) - Count(t, Closing(Elided(l)[p]))

LEMMA TrueDepthIs ==
  ASSUME NEW n, Text(n), NEW l \in 0..n, NEW p \in 1..Len(Elided(l)), NEW open,
         IsOpen(open, l, p, n), NEW i \in l..n, NEW q \in FirstOf(l, p, i)..Len(Elided(i))
  PROVE  TrueDepth(l, p, i, q) =
           DepthAt(Elided(i), FirstOf(l, p, i), q, DepthBefore(open, l, i),
                   Elided(l)[p], Closing(Elided(l)[p]))
<1> DEFINE a == Elided(l)[p]
           e == Closing(a)
           from == FirstOf(l, p, i)
           t == Elided(i)
           part == SubSeq(t, from, q)
<1>1. t \in Seq(STRING) /\ from \in 1..Len(t) + 1 /\ q \in from - 1..Len(t) /\ i \in 0..n
  <2>1. i \in 0..n /\ t \in Seq(STRING)
    BY DEF Text
  <2> QED
    BY <2>1 DEF FirstOf
<1>2. DepthBefore(open, l, i) \in Int
  <2>1. i # l => i - 1 \in l..n
    BY DEF Text
  <2> QED
    BY <2>1 DEF DepthBefore, IsOpen
<1>3. TrueDepth(l, p, i, q) = DepthBefore(open, l, i) + Count(part, a) - Count(part, e)
  <2>1. BeforeIn(l, p, i)[i] = DepthBefore(open, l, i)
    BY BeforeIs
  <2> QED
    BY <2>1 DEF TrueDepth, FirstOf
<1> HIDE DEF a, e, t, from
<1>4. /\ Count(part, a) = CountTo(t, a, q) - CountTo(t, a, from - 1)
      /\ Count(part, e) = CountTo(t, e, q) - CountTo(t, e, from - 1)
  BY <1>1, CountPart
<1>5. /\ CountTo(t, a, q) \in Int /\ CountTo(t, a, from - 1) \in Int
      /\ CountTo(t, e, q) \in Int /\ CountTo(t, e, from - 1) \in Int
  <2>1. q \in Int /\ from - 1 \in Int
    BY <1>1
  <2> QED
    BY <2>1, CountToType
<1>6. TrueDepth(l, p, i, q) = DepthAt(t, from, q, DepthBefore(open, l, i), a, e)
  <2> HIDE DEF part
  <2> QED
    BY <1>2, <1>3, <1>4, <1>5 DEF DepthAt
<1> QED
  BY <1>6 DEF a, e, t, from

TrueStop(open, l, p, n) ==
  LET found == {i \in l..n : EndsAt(open, l, p, i) # {}}
  IN IF found = {} THEN [linenum |-> n + 1, pos |-> 0]
     ELSE [linenum |-> Min(found), pos |-> Min(EndsAt(open, l, p, Min(found))) + 1]

\* TrueClose looks for the first place where the depth is 0.
LEMMA TrueCloseIs ==
  ASSUME NEW n, Text(n), NEW l \in 0..n, NEW p \in 1..Len(Elided(l)), Elided(l)[p] \in Openers,
         NEW open, IsOpen(open, l, p, n)
  PROVE  TrueClose(l, p) = TrueStop(open, l, p, n)
<1> DEFINE closing(i) == {q \in 1..Len(Elided(i)) :
                            (i = l => q > p) /\ Elided(i)[q] = Closing(Elided(l)[p])
                            /\ TrueDepth(l, p, i, q) = 0}
           seen == {i \in l..NumLines(lines) - 1 : closing(i) # {}}
           found == {i \in l..n : EndsAt(open, l, p, i) # {}}
<1>1. TrueClose(l, p) = IF seen = {} THEN [linenum |-> NumLines(lines), pos |-> 0]
                        ELSE [linenum |-> Min(seen), pos |-> Min(closing(Min(seen))) + 1]
  BY DEF TrueClose, TrueDepth, BeforeIn
<1>2. NumLines(lines) = n + 1 /\ NumLines(lines) - 1 = n
  BY NumLinesOf DEF Text
<1>3. ASSUME NEW i \in l..n PROVE closing(i) = EndsAt(open, l, p, i)
  <2>1. Elided(l)[p] # Closing(Elided(l)[p])
    BY ClosingType, OpenersNotClosers
  <2>2. i \in 0..n /\ Len(Elided(i)) \in Nat /\ p \in Nat \ {0}
    <3>1. i \in 0..n
      BY DEF Text
    <3>2. Elided(i) \in Seq(STRING)
      BY <3>1 DEF Text
    <3> QED
      BY <3>1, <3>2
  <2>3. ASSUME NEW q, Elided(i)[q] = Closing(Elided(l)[p])
        PROVE  q \in 1..Len(Elided(i)) /\ (i = l => q > p)
                 <=> q \in FirstOf(l, p, i)..Len(Elided(i))
    <3>1. i = l => q # p
      BY <2>1, <2>3
    <3> QED
      BY <2>2, <3>1 DEF FirstOf
  <2>4. ASSUME NEW q \in FirstOf(l, p, i)..Len(Elided(i))
        PROVE  TrueDepth(l, p, i, q) =
                 DepthAt(Elided(i), FirstOf(l, p, i), q, DepthBefore(open, l, i),
                         Elided(l)[p], Closing(Elided(l)[p]))
    BY TrueDepthIs
  <2>5. ASSUME NEW q PROVE q \in closing(i) <=> q \in EndsAt(open, l, p, i)
    BY <2>3, <2>4 DEF EndsAt
  <2> HIDE DEF closing
  <2>6. closing(i) \subseteq EndsAt(open, l, p, i) /\ EndsAt(open, l, p, i) \subseteq closing(i)
    BY <2>5
  <2> QED
    BY <2>6
<1> HIDE DEF closing
<1>4. seen = found
  BY <1>2, <1>3
<1>5. found # {} => Min(found) \in l..n
  <2>1. found \in SUBSET (l..n) /\ l \in Int /\ n \in Int
    BY DEF Text
  <2> HIDE DEF found
  <2> QED
    BY <2>1, MinMaxInterval
<1>6. found # {} => closing(Min(found)) = EndsAt(open, l, p, Min(found))
  BY <1>3, <1>5
<1> HIDE DEF seen, found
<1>7. TrueClose(l, p) =
              IF found = {} THEN [linenum |-> n + 1, pos |-> 0]
              ELSE [linenum |-> Min(found), pos |-> Min(EndsAt(open, l, p, Min(found))) + 1]
  BY <1>1, <1>2, <1>4, <1>6
<1> QED
  BY <1>7 DEF found, TrueStop

LEMMA TrueCloseLine ==
  ASSUME NEW n, Text(n), NEW l \in 0..n, NEW p
  PROVE  TrueClose(l, p).linenum \in Int
<1> DEFINE closing(i) == {q \in 1..Len(Elided(i)) :
                            (i = l => q > p) /\ Elided(i)[q] = Closing(Elided(l)[p])
                            /\ TrueDepth(l, p, i, q) = 0}
           seen == {i \in l..NumLines(lines) - 1 : closing(i) # {}}
<1>1. TrueClose(l, p) = IF seen = {} THEN [linenum |-> NumLines(lines), pos |-> 0]
                        ELSE [linenum |-> Min(seen), pos |-> Min(closing(Min(seen))) + 1]
  BY DEF TrueClose, TrueDepth, BeforeIn
<1>2. NumLines(lines) = n + 1 /\ n \in Nat
  BY NumLinesOf DEF Text
<1> HIDE DEF closing
<1>3. seen # {} => Min(seen) \in seen
  <2>1. l \in Int /\ n \in Int /\ seen \in SUBSET (l..n)
    BY <1>2
  <2> HIDE DEF seen
  <2> QED
    BY <2>1, MinMaxInterval
<1>4. seen # {} => Min(seen) \in Int
  BY <1>3
<1> HIDE DEF seen
<1> QED
  BY <1>1, <1>2, <1>4

LEMMA EndsAtFound ==
  ASSUME NEW n, Text(n), NEW l \in 0..n, NEW p \in 1..Len(Elided(l)), NEW open,
         NEW i \in l..n, EndsAt(open, l, p, i) # {}
  PROVE  LET q == Min(EndsAt(open, l, p, i))
         IN q \in FirstOf(l, p, i)..Len(Elided(i)) /\ q \in EndsAt(open, l, p, i)
<1>1. i \in 0..n
  BY DEF Text
<1>2. Elided(i) \in Seq(STRING)
  BY <1>1 DEF Text
<1>3. EndsAt(open, l, p, i) \in SUBSET (FirstOf(l, p, i)..Len(Elided(i)))
  BY DEF EndsAt
<1>4. FirstOf(l, p, i) \in Int /\ Len(Elided(i)) \in Int
  BY <1>2 DEF FirstOf
<1> QED
  BY <1>3, <1>4, MinMaxInterval

\* The depth at the end of a line.
LEMMA DepthAfter ==
  ASSUME NEW n, Text(n), NEW l \in 0..n, NEW p \in 1..Len(Elided(l)), NEW open,
         IsOpen(open, l, p, n), NEW i \in l..n
  PROVE  open[i] = DepthAt(Elided(i), FirstOf(l, p, i), Len(Elided(i)), DepthBefore(open, l, i),
                           Elided(l)[p], Closing(Elided(l)[p]))
<1> DEFINE a == Elided(l)[p]
           e == Closing(a)
           from == FirstOf(l, p, i)
           t == Elided(i)
           m == Len(t)
           part == SubSeq(t, from, m)
<1>1. t \in Seq(STRING) /\ from \in 1..m + 1 /\ m \in from - 1..m /\ i \in 0..n
  <2>1. i \in 0..n /\ t \in Seq(STRING)
    BY DEF Text
  <2> QED
    BY <2>1 DEF FirstOf
<1>2. DepthBefore(open, l, i) \in Int
  <2>1. i # l => i - 1 \in l..n
    BY DEF Text
  <2> QED
    BY <2>1 DEF DepthBefore, IsOpen
<1>3. open[i] = DepthBefore(open, l, i) + Net(part, a) /\ open[i] \in Int
  <2>1. CASE i = l
    <3>1. open[i] = Net(From(Elided(l), p), a) /\ open[i] \in Int /\ DepthBefore(open, l, i) = 0
      BY <2>1 DEF IsOpen, DepthBefore
    <3>2. From(Elided(l), p) = part
      BY <2>1 DEF From, FirstOf
    <3> HIDE DEF part, a
    <3> QED
      BY <3>1, <3>2
  <2>2. CASE i # l
    <3>1. i \in l + 1..n
      BY <2>2 DEF Text
    <3>2. part = t
      BY <1>1, <2>2 DEF FirstOf
    <3>3. open[i] = open[i - 1] + Net(t, a) /\ open[i] \in Int
      BY <3>1 DEF IsOpen
    <3> HIDE DEF part, a, t
    <3> QED
      BY <2>2, <3>2, <3>3 DEF DepthBefore
  <2> QED
    BY <2>1, <2>2
<1> HIDE DEF a, e, t, from, m
<1>4. /\ Count(part, a) = CountTo(t, a, m) - CountTo(t, a, from - 1)
      /\ Count(part, e) = CountTo(t, e, m) - CountTo(t, e, from - 1)
  BY <1>1, CountPart DEF m
<1>5. /\ CountTo(t, a, m) \in Int /\ CountTo(t, a, from - 1) \in Int
      /\ CountTo(t, e, m) \in Int /\ CountTo(t, e, from - 1) \in Int
  <2>1. m \in Int /\ from - 1 \in Int
    BY <1>1 DEF m
  <2> QED
    BY <2>1, CountToType
<1>6. open[i] = DepthAt(t, from, m, DepthBefore(open, l, i), a, e)
  <2>1. Net(part, a) = Count(part, a) - Count(part, e)
    BY DEF Net, e
  <2> HIDE DEF part
  <2> QED
    BY <1>2, <1>3, <1>4, <1>5, <2>1 DEF DepthAt
<1> QED
  BY <1>6 DEF a, e, t, from, m

\* A line that goes below what was open closes the bracket.
LEMMA ClosedOnTheWay ==
  ASSUME NEW n, Text(n), NEW l \in 0..n, NEW p \in 1..Len(Elided(l)), Elided(l)[p] \in Openers,
         NEW open, IsOpen(open, l, p, n), NEW i \in l..n, open[i] <= 0,
         i = l \/ open[i - 1] > 0
  PROVE  EndsAt(open, l, p, i) # {}
<1> DEFINE a == Elided(l)[p]
           e == Closing(a)
           t == Elided(i)
           from == FirstOf(l, p, i)
           d == DepthBefore(open, l, i)
           start == IF i = l THEN p ELSE 0
<1>1. t \in Seq(STRING) /\ from \in Nat \ {0} /\ d \in Int /\ start \in Nat /\ start <= Len(t)
      /\ Len(t) \in Nat
  <2>1. i \in 0..n /\ t \in Seq(STRING) /\ (i # l => i - 1 \in l..n)
    BY DEF Text
  <2> QED
    BY <2>1 DEF FirstOf, DepthBefore, IsOpen
<1>2. DepthAt(t, from, start, d, a, e) > 0
  <2>1. CASE i = l
    <3>1. p \in Nat \ {0}
      OBVIOUS
    <3>2. OpenedAt(t, p, t[p], p) = 1
      BY <2>1, <3>1, OpenedFirst
    <3> QED
      BY <2>1, <3>2 DEF OpenedAt, FirstOf, DepthBefore
  <2>2. CASE i # l
    <3>1. from = 1 /\ start = 0 /\ d = open[i - 1] /\ d > 0
      BY <2>2 DEF FirstOf, DepthBefore
    <3> HIDE DEF a, e, t, from, d, start
    <3>2. CountTo(t, a, 0) = 0 /\ CountTo(t, e, 0) = 0 /\ 1 - 1 = 0
      BY CountNone
    <3> QED
      BY <1>1, <3>1, <3>2 DEF DepthAt
  <2> QED
    BY <2>1, <2>2
<1>3. DepthAt(t, from, Len(t), d, a, e) <= 0
  BY DepthAfter
<1> HIDE DEF a, e, t, from, d, start
<1>4. PICK q \in start + 1..Len(t) : t[q] = e /\ DepthAt(t, from, q, d, a, e) = 0
  BY <1>1, <1>2, <1>3, Crossing
<1>5. q \in from..Len(t)
  BY <1>1, <1>4 DEF start, from, FirstOf
<1> QED
  BY <1>4, <1>5 DEF EndsAt, a, e, t, from, d

\* A line that leaves it open again opens another one after that.
LEMMA OpenedAgain ==
  ASSUME NEW n, Text(n), NEW l \in 0..n, NEW p \in 1..Len(Elided(l)),
         NEW open, IsOpen(open, l, p, n), NEW i \in l..n, open[i] > 0,
         NEW q \in EndsAt(open, l, p, i)
  PROVE  Mentions(From(Elided(i), q + 1), {Elided(l)[p]})
<1> DEFINE a == Elided(l)[p]
           e == Closing(a)
           t == Elided(i)
           from == FirstOf(l, p, i)
           d == DepthBefore(open, l, i)
<1>1. t \in Seq(STRING) /\ from \in Nat \ {0} /\ d \in Int /\ Len(t) \in Nat
  <2>1. i \in 0..n /\ t \in Seq(STRING) /\ (i # l => i - 1 \in l..n)
    BY DEF Text
  <2> QED
    BY <2>1 DEF FirstOf, DepthBefore, IsOpen
<1>2. DepthAt(t, from, q, d, a, e) = 0 /\ q \in from..Len(t)
  BY DEF EndsAt
<1>3. DepthAt(t, from, Len(t), d, a, e) > 0
  BY DepthAfter
<1> HIDE DEF a, e, t, from, d
<1>4. q \in Nat /\ q <= Len(t) /\ DepthAt(t, from, q, d, a, e) <= 0
  BY <1>1, <1>2
<1>5. PICK k \in q + 1..Len(t) : t[k] = a
  BY <1>1, <1>3, <1>4, Rising
<1>6. From(t, q + 1)[k - q] = a /\ k - q \in 1..Len(From(t, q + 1))
  <2>1. k - q \in 1..Len(t) - q /\ (q + 1) + (k - q) - 1 = k /\ q + 1 \in Nat \ {0}
    BY <1>1, <1>4
  <2>2. Len(SubSeq(t, q + 1, Len(t))) = Len(t) - q
    BY <1>1, <1>4
  <2>3. SubSeq(t, q + 1, Len(t))[k - q] = t[k]
    BY <1>1, <1>4, <2>1
  <2> QED
    BY <1>5, <2>1, <2>2, <2>3 DEF From
<1> QED
  BY <1>6 DEF Mentions, a, t

(* CloseExpression against TrueClose: the same place, or a later line than *)
(* that, if the bracket is opened again behind it.                         *)
LEMMA CloseAgrees ==
  ASSUME NEW n, Text(n), NEW l \in 0..n, NEW p \in 1..Len(Elided(l)), Elided(l)[p] \in Openers
  PROVE  LET got == CloseExpression(lines, l, p)
             right == TrueClose(l, p)
         IN \/ got = right
            \/ /\ got.linenum > right.linenum /\ right.linenum > l
               /\ Mentions(From(Elided(right.linenum), right.pos), {Elided(l)[p]})
<1> DEFINE line == Elided(l)
           a == line[p]
           here == FindEndOfExpressionInLine(line, p, 0, a, Closing(a))
           got == CloseExpression(lines, l, p)
           right == TrueClose(l, p)
           result(open, m) ==
             [linenum |-> m,
              pos |-> FindEndOfExpressionInLine(Elided(m), 1, open[m - 1], a, Closing(a))]
<1>0. PICK open : IsOpen(open, l, p, n) /\ got = Stop(lines, n, l, p, open)
  <2>1. n \in Nat /\ DOMAIN lines = 0..n /\ \A i \in 0..n : lines[i].elided \in Seq(STRING)
    BY DEF Text, Elided
  <2>2. p \in 1..Len(lines[l].elided)
    BY DEF Elided
  <2>3. PICK open : OpenAfter(lines, n, l, p, open) /\ got = Stop(lines, n, l, p, open)
    BY <2>1, <2>2, CloseExpressionIs
  <2>4. IsOpen(open, l, p, n)
    BY <2>3 DEF IsOpen, OpenAfter, Elided
  <2> QED
    BY <2>3, <2>4
<1> DEFINE closed == {i \in l + 1..n : open[i] <= 0}
           ends(i) == EndsAt(open, l, p, i)
           found == {i \in l..n : ends(i) # {}}
<1>1. /\ IsOpen(open, l, p, n)
      /\ got = CASE here > 0 -> [linenum |-> l, pos |-> here]
                 [] here = 0 /\ closed = {} -> [linenum |-> n + 1, pos |-> 0]
                 [] OTHER -> result(open, Min(closed))
  BY <1>0 DEF Stop, Elided
<1>2. right = IF found = {} THEN [linenum |-> n + 1, pos |-> 0]
              ELSE [linenum |-> Min(found), pos |-> Min(ends(Min(found))) + 1]
  <2>1. right = TrueStop(open, l, p, n)
    BY <1>0, TrueCloseIs
  <2> QED
    BY <2>1 DEF TrueStop
<1>3. l \in Int /\ n \in Int /\ l \in l..n /\ p \in Nat \ {0}
  BY DEF Text
<1>4. here = IF ends(l) = {} THEN 0 ELSE Min(ends(l)) + 1
  BY DEF FindEndOfExpressionInLine, EndsAt, FirstOf, DepthBefore
<1>5. \A m \in l + 1..n :
        result(open, m) = [linenum |-> m, pos |-> IF ends(m) = {} THEN 0 ELSE Min(ends(m)) + 1]
  <2> SUFFICES ASSUME NEW m \in l + 1..n
               PROVE  FindEndOfExpressionInLine(Elided(m), 1, open[m - 1], a, Closing(a))
                        = IF ends(m) = {} THEN 0 ELSE Min(ends(m)) + 1
    OBVIOUS
  <2>1. m # l
    BY <1>3
  <2> QED
    BY <2>1 DEF FindEndOfExpressionInLine, EndsAt, FirstOf, DepthBefore
<1>6. found # {} => Min(found) \in found /\ (\A k \in found : Min(found) <= k) /\ Min(found) \in l..n
  <2>1. found \in SUBSET (l..n)
    OBVIOUS
  <2> HIDE DEF found
  <2> QED
    BY <1>3, <2>1, MinMaxInterval
<1>7. closed # {} => /\ Min(closed) \in closed /\ (\A k \in closed : Min(closed) <= k)
                     /\ Min(closed) \in l + 1..n
  <2>1. closed \in SUBSET (l + 1..n) /\ l + 1 \in Int
    BY <1>3
  <2> HIDE DEF closed
  <2> QED
    BY <1>3, <2>1, MinMaxInterval
<1>8. \A i \in found : Min(ends(i)) \in ends(i) /\ Min(ends(i)) \in Int
  <2>1. ASSUME NEW i \in found PROVE Min(ends(i)) \in ends(i) /\ Min(ends(i)) \in Int
    <3>1. Min(ends(i)) \in FirstOf(l, p, i)..Len(Elided(i)) /\ Min(ends(i)) \in ends(i)
      BY EndsAtFound
    <3> QED
      BY <3>1
  <2> QED
    BY <2>1
<1>9. CASE ends(l) # {}
  <2>1. l \in found
    BY <1>3, <1>9
  <2>4. Min(found) = l
    <3>1. Min(found) \in l..n /\ Min(found) <= l
      BY <1>6, <2>1
    <3> HIDE DEF found
    <3> QED
      BY <1>3, <3>1
  <2>2. here > 0
    <3>1. Min(ends(l)) \in FirstOf(l, p, l)..Len(Elided(l))
      BY <1>3, <1>9, EndsAtFound
    <3>2. Min(ends(l)) \in Int /\ Min(ends(l)) > 0
      BY <1>3, <3>1 DEF FirstOf
    <3> HIDE DEF ends, here
    <3> QED
      BY <1>4, <1>9, <3>2
  <2>3. got = [linenum |-> l, pos |-> here]
    <3>1. ~(here = 0)
      BY <2>2
    <3> HIDE DEF here, got, result, closed
    <3> QED
      BY <1>1, <2>2, <3>1
  <2>5. got = right
    <3> HIDE DEF found, ends, here, got, right
    <3>1. found # {}
      BY <2>1
    <3>2. right = [linenum |-> l, pos |-> Min(ends(l)) + 1]
      BY <1>2, <2>4, <3>1
    <3> QED
      BY <1>4, <1>9, <2>3, <3>2
  <2> QED
    BY <2>5
<1>10. CASE ends(l) = {}
  <2>1. got = IF closed = {} THEN [linenum |-> n + 1, pos |-> 0]
              ELSE [linenum |-> Min(closed),
                    pos |-> IF ends(Min(closed)) = {} THEN 0 ELSE Min(ends(Min(closed))) + 1]
    <3>1. here = 0 /\ ~(here > 0)
      BY <1>4, <1>10
    <3>2. got = IF closed = {} THEN [linenum |-> n + 1, pos |-> 0] ELSE result(open, Min(closed))
      <4> DEFINE none == [linenum |-> n + 1, pos |-> 0]
                 later == result(open, Min(closed))
                 same == [linenum |-> l, pos |-> here]
      <4>1. got = CASE here > 0 -> same [] here = 0 /\ closed = {} -> none [] OTHER -> later
        BY <1>1
      <4> HIDE DEF here, got, none, later, same, closed
      <4>2. got = IF closed = {} THEN none ELSE later
        BY <3>1, <4>1
      <4> QED
        BY <4>2 DEF none, later
    <3> HIDE DEF here, got, result, closed, ends
    <3> QED
      BY <1>5, <1>7, <3>2
  <2>2. open[l] > 0 /\ \A i \in l..n : open[i] \in Int
    <3>1. ~(open[l] <= 0)
      BY <1>1, <1>3, <1>10, ClosedOnTheWay
    <3> QED
      BY <1>1, <1>3, <3>1 DEF IsOpen
  <2>3. l \notin found
    BY <1>10
  <2>4. closed # {} => Min(closed) \in found
    <3> SUFFICES ASSUME closed # {} PROVE ends(Min(closed)) # {} /\ Min(closed) \in l..n
      OBVIOUS
    <3> DEFINE m == Min(closed)
    <3>1. m \in l + 1..n /\ m \in closed /\ \A k \in closed : m <= k
      BY <1>7
    <3> HIDE DEF m
    <3>2. m - 1 \in l..n /\ m - 1 \notin closed /\ m \in l..n
      BY <1>3, <3>1
    <3>3. open[m - 1] > 0
      <4>1. m - 1 = l \/ m - 1 \in l + 1..n
        BY <1>3, <3>2
      <4> QED
        BY <2>2, <3>2, <4>1
    <3>4. EndsAt(open, l, p, m) # {}
      BY <1>1, <3>1, <3>2, <3>3, ClosedOnTheWay
    <3> QED
      BY <3>2, <3>4 DEF m
  <2>5. ASSUME NEW r \in found, r \notin closed
        PROVE  Mentions(From(Elided(r), Min(ends(r)) + 1), {a})
    <3>1. r \in l + 1..n /\ r \in l..n
      BY <1>3, <2>3
    <3>2. open[r] > 0
      BY <2>2, <2>5, <3>1
    <3>3. Min(ends(r)) \in EndsAt(open, l, p, r)
      BY <1>8
    <3> QED
      BY <1>1, <3>1, <3>2, <3>3, OpenedAgain
  <2>6. \A r \in found : r > l /\ r < n + 1
    BY <1>3, <2>3
  <2>7. \A k \in closed : k \in Int
    BY <1>3
  <2> HIDE DEF found, closed, ends, got, right, here, result, a, line
  <2>8. CASE found = {}
    <3>1. closed = {}
      BY <2>4, <2>8
    <3>2. got = right
      BY <1>2, <2>1, <2>8, <3>1
    <3> QED
      BY <3>2 DEF got, right
  <2>9. CASE found # {} /\ closed # {} /\ Min(closed) = Min(found)
    <3>1. ends(Min(found)) # {}
      BY <1>6, <2>9 DEF found
    <3>2. got = right
      BY <1>2, <2>1, <2>9, <3>1
    <3> QED
      BY <3>2 DEF got, right
  <2>10. CASE found # {} /\ ~(closed # {} /\ Min(closed) = Min(found))
    <3> DEFINE r == Min(found)
    <3>1. r \in found /\ \A k \in found : r <= k
      BY <1>6, <2>10
    <3> HIDE DEF r
    <3>2. right = [linenum |-> r, pos |-> Min(ends(r)) + 1]
      BY <1>2, <2>10 DEF r
    <3>3. closed # {} => r < Min(closed)
      <4> SUFFICES ASSUME closed # {} PROVE r < Min(closed)
        OBVIOUS
      <4>1. Min(closed) \in found /\ Min(closed) \in l + 1..n
        BY <1>7, <2>4
      <4>2. r <= Min(closed) /\ r # Min(closed)
        BY <2>10, <3>1, <4>1 DEF r
      <4>3. r \in Int
        BY <1>3, <3>1 DEF found
      <4> QED
        BY <1>3, <4>1, <4>2, <4>3
    <3>4. r \notin closed
      BY <1>7, <2>6, <2>7, <3>1, <3>3
    <3>5. got.linenum > r
      BY <2>1, <2>6, <3>1, <3>3
    <3>6. right.linenum = r /\ right.pos = Min(ends(r)) + 1
      BY <3>2
    <3>7. Mentions(From(Elided(r), Min(ends(r)) + 1), {a})
      BY <2>5, <3>1, <3>4
    <3> QED
      BY <2>6, <3>1, <3>5, <3>6, <3>7 DEF a, line, got, right
  <2> QED
    BY <2>8, <2>9, <2>10
<1> QED
  BY <1>9, <1>10

\* The lines are texts.
LEMMA TextAtHand ==
  ASSUME Inv, JustBegun
  PROVE  Text(Len(file.lines) + 1) /\ NumLines(lines) = Len(file.lines) + 2
<1> DEFINE n == Len(file.lines) + 1
<1>1. n \in Nat \ {0} /\ lines \in [0..n -> CleanLine] /\ NumLines(lines) = n + 1
  BY FileAtHand DEF JustBegun
<1>2. \A i \in 0..n : lines[i].elided \in Seq(STRING)
  BY <1>1 DEF CleanLine
<1> QED
  BY <1>1, <1>2 DEF Text, Elided

\* The brackets that the properties name.
LEMMA OpenersAre == {"(", "{", "["} = Openers
BY Zenon DEF Openers

(* Where _GetTextInside, which watches all kinds of brackets, finds the    *)
(* end of one, FindEndOfExpressionInLine finds it, counting one kind only. *)
THEOREM LintBracketsAgree == Spec => []BracketsAgree
<1>1. ASSUME Inv, JustBegun, NEW l \in DOMAIN lines, NEW p \in 1..Len(Elided(l)),
             Elided(l)[p] \in Openers, GetTextInside(Elided(l), p) > 0
      PROVE  FindEndOfExpressionInLine(Elided(l), p, 0, Elided(l)[p], Closing(Elided(l)[p]))
               = GetTextInside(Elided(l), p) + 1
  <2>1. Elided(l) \in Seq(STRING)
    BY <1>1, TextAtHand DEF Text
  <2> QED
    BY <1>1, <2>1, TextInsideEnds
<1>2. Inv => BracketsAgree
  BY <1>1, OpenersAre DEF BracketsAgree
<1> QED
  BY <1>2, LintInvariant, PTL

(* CloseExpression never stops before the bracket is closed, and goes past *)
(* the place only on a later line that opens another one behind it.        *)
THEOREM LintCloseNeverEarly == Spec => []CloseNeverEarly
<1>1. ASSUME Inv, JustBegun, NEW l \in DOMAIN lines, NEW p \in 1..Len(Elided(l)),
             Elided(l)[p] \in Openers, NEW got, got = CloseExpression(lines, l, p),
             NEW right, right = TrueClose(l, p)
      PROVE  /\ got.linenum >= right.linenum
             /\ right.linenum = l => got = right
             /\ got.linenum = right.linenum => got = right
             /\ got.linenum > right.linenum
                => Mentions(From(Elided(right.linenum), right.pos), {Elided(l)[p]})
  <2> DEFINE n == Len(file.lines) + 1
  <2>1. Text(n)
    BY <1>1, TextAtHand
  <2> HIDE DEF n
  <2>2. n \in Nat /\ DOMAIN lines = 0..n /\ l \in 0..n /\ lines[l].elided \in Seq(STRING)
        /\ p \in Nat \ {0}
    BY <1>1, <2>1 DEF Text, Elided
  <2>3. got.linenum \in l..n + 1
    BY <1>1, <2>2, CloseExpressionLine
  <2>4. \/ got = right
        \/ /\ got.linenum > right.linenum /\ right.linenum > l
           /\ Mentions(From(Elided(right.linenum), right.pos), {Elided(l)[p]})
    BY <1>1, <2>1, <2>2, CloseAgrees
  <2>5. l \in Int /\ got.linenum \in Int /\ right.linenum \in Int
    BY <1>1, <2>1, <2>2, <2>3, TrueCloseLine
  <2>6. CASE got = right
    BY <2>5, <2>6
  <2>7. CASE got # right
    <3>1. /\ got.linenum > right.linenum /\ right.linenum > l
          /\ Mentions(From(Elided(right.linenum), right.pos), {Elided(l)[p]})
      BY <2>4, <2>7
    <3>2. got.linenum # right.linenum /\ right.linenum # l
      BY <2>5, <3>1
    <3>3. got.linenum >= right.linenum
      BY <2>5, <3>1
    <3> QED
      BY <3>1, <3>2, <3>3, Zenon
  <2> QED
    BY <2>6, <2>7
<1>2. Inv => CloseNeverEarly
  BY <1>1, OpenersAre DEF CloseNeverEarly
<1> QED
  BY <1>2, LintInvariant, PTL

\* Balanced is a fold.
LEMMA BalancedIs ==
  ASSUME NEW t
  PROVE  Balanced(t) <=> BalanceFold!Fold(0, <<>>, t) = <<>>
BY DEF Balanced, FoldLeft, MapThenFoldSet, BalanceFold!Fold, BalanceStep, BalanceFold!Iter, BalanceFold!Max, Max

(* On a line whose brackets match, CheckSpacing's two searches find for    *)
(* every < and every > the other one, and report nothing.                  *)
THEOREM LintTemplatesAccepted == Spec => []TemplatesAccepted
<1>1. ASSUME Inv, JustBegun, NEW l \in DOMAIN lines, Balanced(Elided(l)),
             NEW p \in 1..Len(Elided(l))
      PROVE  /\ Elided(l)[p] = Less => FindNextMatchingAngleBracket(lines, l, p)
             /\ Elided(l)[p] = Greater => FindPreviousMatchingAngleBracket(lines, l, p)
  <2> DEFINE n == Len(file.lines) + 1
  <2>1. Text(n)
    BY <1>1, TextAtHand
  <2> HIDE DEF n
  <2>2. n \in Nat /\ DOMAIN lines = 0..n /\ \A i \in 0..n : lines[i].elided \in Seq(STRING)
    BY <2>1 DEF Text, Elided
  <2>3. /\ l \in 0..n /\ p \in 1..Len(lines[l].elided)
        /\ BalanceFold!Fold(0, <<>>, lines[l].elided) = <<>>
    BY <1>1, <2>2, BalancedIs DEF Elided
  <2>4. /\ lines[l].elided[p] = Less => FindNextMatchingAngleBracket(lines, l, p)
        /\ lines[l].elided[p] = Greater => FindPreviousMatchingAngleBracket(lines, l, p)
    BY <2>2, <2>3, TemplateMatches
  <2> QED
    BY <2>4 DEF Elided
<1>2. Inv => TemplatesAccepted
  BY <1>1, Zenon DEF TemplatesAccepted, Less, Greater
<1> QED
  BY <1>2, LintInvariant, PTL

-----------------------------------------------------------------------------
(* Comments.                                                               *)

\* InComment is this recursive function.
LEMMA InCommentIs ==
  ASSUME NEW n \in Nat, NumLines(lines) = n + 1
  PROVE  \A i \in -1..n :
           InComment[i] =
             IF i \notin 1..Len(file.lines) THEN FALSE
             ELSE ScanFold!Fold(0, IF InComment[i - 1] THEN "comment" ELSE "code",
                                file.lines[i].text) = "comment"
<1> DEFINE g == CommentRec!Recursive(file, -1, n)
<1>1. InComment = g
  <2>1. InComment = CommentRec!Recursive(file, -1, NumLines(lines) - 1)
    BY DEF InComment, FoldLeft, MapThenFoldSet, Max, ScanFold!Fold, ScanFold!Iter, ScanFold!Max, ScanStep, CommentRec!Recursive, CommentStep
  <2>2. NumLines(lines) - 1 = n
    OBVIOUS
  <2> QED
    BY <2>1, <2>2
<1>2. ASSUME NEW i \in -1..n, NEW u, NEW v, CommentRec!AgreeBelow(u, v, -1, i)
      PROVE  CommentStep(file, u, i) = CommentStep(file, v, i)
  <2>1. i # -1 => i - 1 \in -1..i - 1
    OBVIOUS
  <2>2. i # -1 => u[i - 1] = v[i - 1]
    BY <1>2, <2>1 DEF CommentRec!AgreeBelow
  <2>3. -1 \notin 1..Len(file.lines)
    OBVIOUS
  <2> QED
    BY <2>2, <2>3 DEF CommentStep
<1>3. CommentRec!Solves(g, file, -1, n)
  <2>1. -1 \in Int /\ n \in Int
    OBVIOUS
  <2> QED
    BY <1>2, <2>1, CommentRec!Recursion
<1> HIDE DEF g
<1>4. \A i \in -1..n : g[i] = CommentStep(file, g, i)
  BY <1>3 DEF CommentRec!Solves
<1> QED
  BY <1>1, <1>4 DEF CommentStep

\* The markers around a file are in no comment.
LEMMA MarkerIsNone == ~Opens(Marker.text) /\ ~Closes(Marker.text)
<1>1. Marker.text = <<"//", "x">>
  BY MarkerType
<1>2. "//" # "/*" /\ "x" # "*/"
  OBVIOUS
<1>3. ~Opens(<<"//", "x">>)
  BY <1>2 DEF Opens
<1>4. ~Closes(<<"//", "x">>)
  BY <1>2 DEF Closes, Last
<1> QED
  BY <1>1, <1>3, <1>4

(* RemoveMultiLineComments replaces the lines of the comments that are     *)
(* closed, if they begin and end as it assumes, and leaves every other     *)
(* line as it is.                                                          *)
THEOREM LintCodeSurvives == Spec => []CodeSurvives
<1> DEFINE m == Len(file.lines)
           text(i) == file.lines[i].text
           opens(i) == ~InComment[i - 1] /\ InComment[i]
           closes(i) == InComment[i - 1] /\ ~InComment[i]
           assumed == \A i \in 1..m : /\ opens(i) => text(i)[1] = "/*"
                                                     /\ ~Mentions(text(i), {"*/"})
                                      /\ closes(i) <=> InComment[i - 1] /\ Mentions(text(i), {"*/"})
                                      /\ closes(i) => Last(text(i)) = "*/"
                                                      /\ Count(text(i), "*/") = 1
           unclosed == {i \in 1..m : \A j \in i..m : InComment[j]}
<1>1. ASSUME Inv, JustBegun, assumed, NEW k \in 1..m
      PROVE  (lines[k].raw # file.lines[k])
               <=> ((InComment[k - 1] \/ InComment[k])
                    /\ file.lines[k] # Dummy
                    /\ k \notin unclosed)
  <2> DEFINE n == m + 1
             marked == Marked(file)
             o == [i \in -1..n |-> IF i = n THEN InComment[n - 1] ELSE InComment[i]]
  <2>1. /\ file \in SourceFile /\ RankedFile(file) /\ lines = LinesOf(file) /\ pc = "lines"
        /\ m \in Nat /\ n \in Nat /\ file.lines \in Seq(SourceLine)
    BY <1>1 DEF Inv, TypeOK, JustBegun, SourceFile
  <2>2. NumLines(lines) = n + 1
    BY <1>1, <2>1, FileAtHand
  <2>3. DOMAIN marked = 0..n /\ \A i \in 0..n : marked[i] = IF i \in 1..m THEN file.lines[i] ELSE Marker
    BY <2>1 DEF Marked
  <2>4. \A i \in 1..m : text(i) \in Seq(STRING)
    <3>1. ASSUME NEW i \in 1..m PROVE text(i) \in Seq(STRING)
      <4>1. file.lines[i] \in SourceLine
        BY <2>1
      <4> QED
        BY <4>1 DEF SourceLine
    <3> QED
      BY <3>1
  <2>5. \A i \in 0..n : marked[i].text \in Seq(STRING)
    BY <2>3, <2>4, MarkerType DEF SourceLine
  <2>6. \A i \in -1..n :
           InComment[i] =
             IF i \notin 1..m THEN FALSE
             ELSE ScanFold!Fold(0, IF InComment[i - 1] THEN "comment" ELSE "code", text(i)) = "comment"
    BY <2>1, <2>2, InCommentIs
  <2> HIDE DEF marked, m, text
  <2>7. ASSUME NEW i \in 1..m
        PROVE  /\ ~InComment[i - 1] => (InComment[i] <=> Opens(text(i)))
               /\ InComment[i - 1] => (~InComment[i] <=> Closes(text(i)))
    <3>1. i \in -1..n
      BY <2>1
    <3>2. ASSUME ~InComment[i - 1], Opens(text(i)) PROVE InComment[i]
      <4>1. ScanFold!Fold(0, "code", text(i)) = "comment"
        BY <2>4, <3>2, ScanOpens
      <4> QED
        BY <2>6, <3>1, <3>2, <4>1
    <3>3. ASSUME ~InComment[i - 1], InComment[i] PROVE Opens(text(i))
      <4>1. text(i)[1] = "/*" /\ ~Mentions(text(i), {"*/"})
        BY <1>1, <3>3
      <4>2. text(i) # <<>>
        <5>1. ScanFold!Fold(0, "code", text(i)) = "comment"
          BY <2>6, <3>1, <3>3
        <5>2. ScanFold!Fold(0, "code", <<>>) = "code"
          BY ScanEmpty
        <5> QED
          BY <5>1, <5>2
      <4>3. \A j \in 2..Len(text(i)) : text(i)[j] # "*/"
        <5>1. \A j \in 2..Len(text(i)) : j \in 1..Len(text(i))
          OBVIOUS
        <5> QED
          BY <4>1, <5>1 DEF Mentions
      <4> QED
        BY <4>1, <4>2, <4>3 DEF Opens
    <3>4. ASSUME InComment[i - 1], ~InComment[i] PROVE Closes(text(i))
      <4>1. Last(text(i)) = "*/" /\ Mentions(text(i), {"*/"})
        BY <1>1, <3>4
      <4>2. text(i) # <<>>
        BY <4>1 DEF Mentions
      <4> QED
        BY <4>1, <4>2 DEF Closes
    <3>5. ASSUME InComment[i - 1], Closes(text(i)) PROVE ~InComment[i]
      <4>1. Len(text(i)) \in 1..Len(text(i)) /\ text(i)[Len(text(i))] = "*/"
        BY <2>4, <3>5 DEF Closes, Last
      <4>2. Mentions(text(i), {"*/"})
        BY <4>1 DEF Mentions
      <4> QED
        BY <1>1, <3>5, <4>2
    <3> QED
      BY <3>2, <3>3, <3>4, <3>5
  <2>8. /\ \A i \in -1..m : o[i] = InComment[i]
        /\ o[n] = InComment[m] /\ n - 1 = m
    BY <2>1
  <2>9. ~InComment[-1] /\ ~InComment[0]
    <3>1. -1 \in -1..n /\ 0 \in -1..n /\ -1 \notin 1..m /\ 0 \notin 1..m
      BY <2>1
    <3>2. InComment[-1] = FALSE
      BY <2>6, <3>1
    <3>3. InComment[0] = FALSE
      BY <2>6, <3>1
    <3> QED
      BY <3>2, <3>3
  <2> HIDE DEF o
  <2>10. Comments(o, marked, n)
    <3>1. ~o[-1]
      BY <2>1, <2>8, <2>9
    <3>2. ASSUME NEW i \in 0..n
          PROVE  /\ ~o[i - 1] => (o[i] <=> Opens(marked[i].text))
                 /\ o[i - 1] => (~o[i] <=> Closes(marked[i].text))
      <4>1. CASE i \in 1..m
        <5>1. marked[i].text = text(i) /\ o[i] = InComment[i] /\ o[i - 1] = InComment[i - 1]
          BY <2>1, <2>3, <2>8, <4>1 DEF text
        <5> QED
          BY <2>7, <4>1, <5>1
      <4>2. CASE i = 0
        <5>1. marked[i] = Marker /\ o[i] = InComment[0] /\ o[i - 1] = InComment[-1]
          BY <2>1, <2>3, <2>8, <4>2
        <5> QED
          BY <2>9, <5>1, MarkerIsNone
      <4>3. CASE i = n
        <5>1. marked[i] = Marker /\ o[i] = InComment[m] /\ o[i - 1] = InComment[m]
          BY <2>1, <2>3, <2>8, <4>3
        <5> QED
          BY <5>1, MarkerIsNone
      <4> QED
        BY <2>1, <4>1, <4>2, <4>3
    <3> QED
      BY <3>1, <3>2 DEF Comments
  <2>11. lines[k].raw = IF k \in Commented(o, n, 0) THEN Dummy ELSE marked[k]
    <3>1. k \in 0..n
      BY <1>1, <2>1
    <3>2. \A i \in 0..n : RemoveMultiLineComments(marked).lines[i] =
                            IF i \in Commented(o, n, 0) THEN Dummy ELSE marked[i]
      <4>1. n \in Nat /\ DOMAIN marked = 0..n
        BY <2>1, <2>3
      <4>2. Scanned(o, n, marked)
        BY <2>5, <2>10, <4>1 DEF Scanned
      <4> HIDE DEF n
      <4> QED
        BY <4>2, RemovesScanned
    <3>3. DOMAIN RemoveMultiLineComments(marked).lines = 0..n
      BY <2>1, <2>3, RemoveMultiLineCommentsType
    <3>4. lines[k].raw = RemoveMultiLineComments(marked).lines[k]
      BY <2>1, <3>1, <3>3 DEF LinesOf, CleansedLines, marked
    <3> QED
      BY <3>1, <3>2, <3>4
  <2>12. marked[k] = file.lines[k] /\ o[k - 1] = InComment[k - 1] /\ o[k] = InComment[k]
    BY <1>1, <2>1, <2>3, <2>8
  <2>13. (\E j \in k..n : ~o[j]) <=> k \notin unclosed
    <3>1. \A j \in k..n : (j \in k..m /\ o[j] = InComment[j]) \/ (j = n /\ o[j] = InComment[m])
      BY <1>1, <2>1, <2>8
    <3>2. m \in k..m /\ \A j \in k..m : j \in k..n
      BY <1>1, <2>1
    <3> QED
      BY <1>1, <3>1, <3>2
  <2>14. k \in Commented(o, n, 0) <=> (o[k - 1] \/ o[k]) /\ k \notin unclosed
    <3>1. k \in 0..n
      BY <1>1, <2>1
    <3> HIDE DEF unclosed
    <3> QED
      BY <2>13, <3>1 DEF Commented
  <2> QED
    BY <2>11, <2>12, <2>14
<1>2. Inv => CodeSurvives
  BY <1>1 DEF CodeSurvives
<1> QED
  BY <1>2, LintInvariant, PTL

-----------------------------------------------------------------------------
(* CheckBraces ends.                                                       *)

\* A check of the braces that never ends is of a line of the file.
HungAtBraces ==
  pc = "hung" => linenum \in 0..Len(file.lines) + 1 /\ JoinedText(lines, linenum).linenum = -1

LEMMA HungInductive ==
  ASSUME Inv, HungAtBraces, [Next]_vars
  PROVE  HungAtBraces'
<1>1. CASE ProcessLine
  <2>1. pc = "lines" /\ UNCHANGED <<lines, file>> /\ linenum < NumLines(lines)
    BY <1>1 DEF ProcessLine
  <2>2. NumLines(lines) = Len(file.lines) + 2 /\ linenum \in 0..Len(file.lines) + 1
    <3>1. Len(file.lines) + 1 \in Nat /\ NumLines(lines) = Len(file.lines) + 2
      BY <2>1, FileAtHand
    <3>2. linenum \in 0..NumLines(lines)
      BY DEF Inv, TypeOK
    <3> QED
      BY <2>1, <3>1, <3>2
  <2>3. pc' = "hung" => linenum' = linenum /\ JoinedText(lines, linenum).linenum = -1
    BY <1>1, <2>1 DEF ProcessLine, CheckLine
  <2>4. pc' = "hung" => JoinedText(lines, linenum)' = JoinedText(lines, linenum)
    <3> SUFFICES ASSUME pc' = "hung" PROVE JoinedText(lines, linenum)' = JoinedText(lines, linenum)
      OBVIOUS
    <3> QED
      BY <2>1, <2>3
  <2> QED
    BY <2>1, <2>2, <2>3, <2>4 DEF HungAtBraces
<1>2. CASE UNCHANGED vars
  BY <1>2 DEF HungAtBraces, vars
<1>3. CASE Next /\ ~ProcessLine
  <2>1. pc' # "hung"
    BY <1>3 DEF Next, ParseArgumentsExits, ParseArguments, SkipFile, BeginFile, FinishFile, Finish, Exit
  <2> QED
    BY <2>1 DEF HungAtBraces
<1> QED
  BY <1>1, <1>2, <1>3

(* CheckBraces goes on for good only where JoinedText finds no line to     *)
(* stop at.                                                                *)
THEOREM HungInvariant == Spec => []HungAtBraces
<1>1. Init => HungAtBraces
  BY DEF Init, HungAtBraces
<1> QED
  BY <1>1, HungInductive, LintInvariant, PTL DEF Spec

(* CheckBraces comes to an end unless all the code above is indented       *)
(* blocks, one inside the other, without a statement.                      *)
THEOREM LintHangsOnlyFromTheTop == Spec => []HangsOnlyFromTheTop
<1>1. ASSUME HungAtBraces, pc = "hung",
             NEW i \in {k \in 0..linenum : Elided(k) # <<>>}
      PROVE  /\ Starts(i, {"{"}) /\ lines[i].raw.indent
             /\ Mentions(Elided(i), {";"}) => i = linenum
  <2>1. /\ linenum \in 0..Len(file.lines) + 1 /\ JoinedText(lines, linenum).linenum = -1
    BY <1>1 DEF HungAtBraces
  <2>2. linenum \in Nat
    BY <2>1
  <2>3. i \in 0..linenum /\ lines[i].elided # <<>>
    BY DEF Elided
  <2>4. BeginsBlock(lines[i]) /\ (EndsStatement(lines, i) => i = linenum)
    BY <2>1, <2>2, <2>3, JoinedHangs
  <2> QED
    BY <2>4, Zenon DEF BeginsBlock, EndsStatement, Starts, Elided
<1>2. HungAtBraces => HangsOnlyFromTheTop
  BY <1>1 DEF HangsOnlyFromTheTop
<1> QED
  BY <1>2, HungInvariant, PTL

-----------------------------------------------------------------------------
(* Braces: one entry of the stack for each that is open.                   *)

\* Replacing the last element of a sequence.
HasTop(P, s, x) == s \in Seq(P) /\ s # <<>> /\ x \in P

LEMMA SetTopIs ==
  ASSUME NEW P, NEW s, NEW x, HasTop(P, s, x)
  PROVE  /\ SetTop(s, x) \in Seq(P) /\ Len(SetTop(s, x)) = Len(s)
         /\ SetTop(s, x)[Len(s)] = x /\ \A k \in 1..Len(s) - 1 : SetTop(s, x)[k] = s[k]
<1>1. s \in Seq(P) /\ s # <<>> /\ x \in P /\ Len(s) \in Nat /\ Len(s) # 0
  BY DEF HasTop
<1>2. PICK front \in Seq(P) : /\ front = Front(s) /\ Len(front) = Len(s) - 1
                              /\ \A k \in 1..Len(s) - 1 : front[k] = s[k]
  BY <1>1, FrontIs
<1>3. SetTop(s, x) = Append(front, x)
  BY <1>2 DEF SetTop
<1> QED
  BY <1>1, <1>2, <1>3

LeftBrace(x) == x = "{"
RightBrace(x) == x = "}"
Semi(x) == x = ";"
RightParen(x) == x = ")"

BraceStep(c, depth, token) ==
  CASE token = "{" -> depth + 1
    [] token = "}" /\ depth > 0 -> depth - 1
    [] OTHER -> depth

BraceFold == INSTANCE Fold_proof WITH step <- BraceStep

\* What OpenBraces does at each line of c.
DepthStep(c, depth, i) == IF i = 0 THEN 0 ELSE BracesAfter(depth[i - 1], c[i - 1].elided)

DepthRec == INSTANCE Fold_proof WITH step <- DepthStep

OpenBracesIn(c) == DepthRec!Recursive(c, 0, NumLines(c))

LEMMA OpenBracesAre == OpenBraces = OpenBracesIn(lines)
BY DEF OpenBraces, OpenBracesIn, DepthRec!Recursive, DepthStep, Elided

LEMMA OpenBracesIs ==
  ASSUME NEW n \in Nat, NEW c, NumLines(c) = n
  PROVE  \A i \in 0..n : OpenBracesIn(c)[i] = DepthStep(c, OpenBracesIn(c), i)
<1> DEFINE g == OpenBracesIn(c)
<1>1. ASSUME NEW i \in 0..n, NEW u, NEW v, DepthRec!AgreeBelow(u, v, 0, i)
      PROVE  DepthStep(c, u, i) = DepthStep(c, v, i)
  <2>1. i # 0 => i - 1 \in 0..i - 1
    OBVIOUS
  <2>2. i # 0 => u[i - 1] = v[i - 1]
    BY <1>1, <2>1 DEF DepthRec!AgreeBelow
  <2> QED
    BY <2>2 DEF DepthStep
<1>2. DepthRec!Solves(g, c, 0, n)
  <2>1. 0 \in Int /\ n \in Int
    OBVIOUS
  <2> QED
    BY <1>1, <2>1, DepthRec!Recursion DEF OpenBracesIn
<1> HIDE DEF g
<1> QED
  BY <1>2 DEF DepthRec!Solves, g

LEMMA BracesAfterIs ==
  ASSUME NEW d, NEW t
  PROVE  BracesAfter(d, t) = BraceFold!Fold(0, d, t)
BY DEF BracesAfter, FoldLeft, MapThenFoldSet, BraceFold!Fold, BraceStep, BraceFold!Iter,
       BraceFold!Max, Max

LEMMA BraceStepIs ==
  ASSUME NEW d, NEW x
  PROVE  /\ LeftBrace(x) => BraceStep(0, d, x) = d + 1
         /\ RightBrace(x) /\ d > 0 => BraceStep(0, d, x) = d - 1
         /\ ~LeftBrace(x) /\ ~(RightBrace(x) /\ d > 0) => BraceStep(0, d, x) = d
BY Zenon DEF BraceStep, LeftBrace, RightBrace

LEMMA TokensDiffer ==
  ASSUME NEW x
  PROVE  /\ LeftBrace(x) => ~RightBrace(x) /\ ~Semi(x) /\ ~RightParen(x)
         /\ RightBrace(x) => ~Semi(x) /\ ~RightParen(x)
         /\ x \in ClassOrNamespace \cup Names =>
              ~LeftBrace(x) /\ ~RightBrace(x) /\ ~Semi(x) /\ ~RightParen(x)
BY Zenon DEF LeftBrace, RightBrace, Semi, RightParen, ClassOrNamespace, Names

\* What Token looks at.
LEMMA TokenCases ==
  ASSUME NEW stack, NEW t, NEW i
  PROVE  /\ Fills(stack, t, i) <=> LeftBrace(t[i]) /\ ~SeenOpenBrace(stack)
         /\ Begins(stack, t, i) <=> LeftBrace(t[i]) /\ SeenOpenBrace(stack)
         /\ Drops(stack, t, i) <=> (Semi(t[i]) \/ RightParen(t[i])) /\ ~SeenOpenBrace(stack)
         /\ EndsOne(stack, t, i) <=> RightBrace(t[i]) /\ stack # <<>>
BY Zenon DEF Fills, Begins, Drops, EndsOne, LeftBrace, RightBrace, Semi, RightParen

\* The depths g before and after each token.
Depths(g, d, t) == g[0] = d /\ \A i \in 1..Len(t) : g[i] = BraceStep(0, g[i - 1], t[i])

LEMMA DepthsExist ==
  ASSUME NEW S, NEW t \in Seq(S), NEW d
  PROVE  \E g : Depths(g, d, t) /\ g[Len(t)] = BracesAfter(d, t)
<1>1. DOMAIN t = 1..Len(t) /\ Len(t) \in Nat
  OBVIOUS
<1>2. PICK g : BraceFold!Runs(g, 0, d, t, Len(t)) /\ g[Len(t)] = BraceFold!Fold(0, d, t)
  BY <1>1, BraceFold!FoldSteps
<1> QED
  BY <1>2, BracesAfterIs DEF BraceFold!Runs, Depths

\* An entry for each of d braces and at most one more, on top, that waits for its own.
Entries(stack, d) ==
  /\ d \in Nat /\ stack \in Seq(Blocks(AsmStates)) /\ Len(stack) \in {d, d + 1}
  /\ \A k \in 1..Len(stack) : stack[k].seenOpenBrace <=> k <= d

\* No entry has a parenthesis open.
Free(stack) == \A k \in 1..Len(stack) : stack[k].openParentheses = 0

LEMMA EntriesSeen ==
  ASSUME NEW stack, NEW d, Entries(stack, d)
  PROVE  /\ SeenOpenBrace(stack) <=> Len(stack) = d
         /\ Len(stack) = d + 1 => stack # <<>>
         /\ d > 0 => stack # <<>>
         /\ d = 0 /\ Len(stack) = d => stack = <<>>
         /\ Len(stack) \in Nat
<1>1. d \in Nat /\ stack \in Seq(Blocks(AsmStates)) /\ Len(stack) \in {d, d + 1}
      /\ \A k \in 1..Len(stack) : stack[k].seenOpenBrace <=> k <= d
  BY DEF Entries
<1>2. CASE stack = <<>>
  <2>1. Len(stack) = 0
    BY <1>2
  <2> QED
    BY <1>1, <1>2, <2>1 DEF SeenOpenBrace
<1>3. CASE stack # <<>>
  <2>1. Last(stack) = stack[Len(stack)] /\ Len(stack) \in 1..Len(stack) /\ Len(stack) \in Nat /\ Len(stack) > 0
    BY <1>1, <1>3 DEF Last
  <2>2. SeenOpenBrace(stack) <=> Len(stack) <= d
    BY <1>1, <1>3, <2>1 DEF SeenOpenBrace
  <2> QED
    BY <1>1, <1>3, <2>1, <2>2
<1> QED
  BY <1>2, <1>3

\* The innermost block changes, but not in what is counted.
LEMMA EntriesTop ==
  ASSUME NEW stack, NEW d, Entries(stack, d), stack # <<>>, NEW block \in Blocks(AsmStates),
         block.seenOpenBrace = Last(stack).seenOpenBrace
  PROVE  /\ Entries(SetTop(stack, block), d) /\ Len(SetTop(stack, block)) = Len(stack)
         /\ Free(stack) /\ block.openParentheses = 0 => Free(SetTop(stack, block))
<1> DEFINE next == SetTop(stack, block)
<1>1. d \in Nat /\ stack \in Seq(Blocks(AsmStates)) /\ Len(stack) \in {d, d + 1}
      /\ \A k \in 1..Len(stack) : stack[k].seenOpenBrace <=> k <= d
  BY DEF Entries
<1>2. /\ next \in Seq(Blocks(AsmStates)) /\ Len(next) = Len(stack) /\ next[Len(stack)] = block
      /\ \A k \in 1..Len(stack) - 1 : next[k] = stack[k]
  <2>1. HasTop(Blocks(AsmStates), stack, block)
    BY <1>1 DEF HasTop
  <2> QED
    BY <2>1, SetTopIs
<1>3. Last(stack) = stack[Len(stack)] /\ Len(stack) \in Nat /\ Len(stack) > 0
  BY <1>1 DEF Last
<1>4. \A k \in 1..Len(stack) : k \in 1..Len(stack) - 1 \/ k = Len(stack)
  BY <1>3
<1> HIDE DEF next
<1>5. \A k \in 1..Len(stack) : next[k].seenOpenBrace = stack[k].seenOpenBrace
  BY <1>2, <1>3, <1>4
<1>6. Entries(next, d)
  BY <1>1, <1>2, <1>5 DEF Entries
<1>7. Free(stack) /\ block.openParentheses = 0 => Free(next)
  BY <1>2, <1>4 DEF Free
<1> QED
  BY <1>2, <1>6, <1>7 DEF next

\* The innermost block gets its brace.
LEMMA EntriesFill ==
  ASSUME NEW stack, NEW d, Entries(stack, d), Len(stack) = d + 1
  PROVE  /\ Entries(OpenTop(stack), d + 1) /\ Len(OpenTop(stack)) = d + 1
         /\ Free(stack) => Free(OpenTop(stack))
<1> DEFINE block == [Last(stack) EXCEPT !.seenOpenBrace = TRUE]
           next == OpenTop(stack)
<1>1. d \in Nat /\ stack \in Seq(Blocks(AsmStates)) /\ stack # <<>>
      /\ \A k \in 1..Len(stack) : stack[k].seenOpenBrace <=> k <= d
  BY EntriesSeen DEF Entries
<1>2. Last(stack) = stack[d + 1] /\ Last(stack) \in Blocks(AsmStates)
  BY <1>1 DEF Last
<1>3. /\ block \in Blocks(AsmStates) /\ block.seenOpenBrace
      /\ block.openParentheses = Last(stack).openParentheses
  BY <1>2 DEF Blocks
<1> HIDE DEF block
<1>4. /\ next \in Seq(Blocks(AsmStates)) /\ Len(next) = d + 1 /\ next[d + 1] = block
      /\ \A k \in 1..d : next[k] = stack[k]
  <2>1. next = SetTop(stack, block)
    BY DEF OpenTop, block
  <2>2. /\ SetTop(stack, block) \in Seq(Blocks(AsmStates))
        /\ Len(SetTop(stack, block)) = Len(stack) /\ SetTop(stack, block)[Len(stack)] = block
        /\ \A k \in 1..Len(stack) - 1 : SetTop(stack, block)[k] = stack[k]
    <3>1. HasTop(Blocks(AsmStates), stack, block)
      BY <1>1, <1>3 DEF HasTop
    <3> QED
      BY <3>1, SetTopIs
  <2>3. Len(stack) = d + 1 /\ Len(stack) - 1 = d
    BY <1>1
  <2> HIDE DEF next
  <2> QED
    BY <2>1, <2>2, <2>3
<1>5. \A k \in 1..d + 1 : (k \in 1..d \/ k = d + 1) /\ k \in 1..Len(stack)
  BY <1>1
<1> HIDE DEF next
<1>6. \A k \in 1..d + 1 : next[k].seenOpenBrace
  BY <1>1, <1>3, <1>4, <1>5
<1>7. Entries(next, d + 1)
  BY <1>1, <1>4, <1>6 DEF Entries
<1>8. Free(stack) => Free(next)
  BY <1>1, <1>2, <1>3, <1>4, <1>5 DEF Free
<1> QED
  BY <1>4, <1>7, <1>8 DEF next

\* A block more.
LEMMA EntriesAppend ==
  ASSUME NEW stack, NEW d, Entries(stack, d), Len(stack) = d, NEW block \in Blocks(AsmStates)
  PROVE  /\ Len(Append(stack, block)) = d + 1
         /\ block.seenOpenBrace => Entries(Append(stack, block), d + 1)
         /\ ~block.seenOpenBrace => Entries(Append(stack, block), d)
         /\ Free(stack) /\ block.openParentheses = 0 => Free(Append(stack, block))
<1> DEFINE next == Append(stack, block)
<1>1. d \in Nat /\ stack \in Seq(Blocks(AsmStates))
      /\ \A k \in 1..Len(stack) : stack[k].seenOpenBrace <=> k <= d
  BY DEF Entries
<1>2. /\ next \in Seq(Blocks(AsmStates)) /\ Len(next) = d + 1 /\ next[d + 1] = block
      /\ \A k \in 1..d : next[k] = stack[k]
  BY <1>1
<1>3. \A k \in 1..d + 1 : k \in 1..d \/ k = d + 1
  BY <1>1
<1> HIDE DEF next
<1>4. \A k \in 1..d : next[k].seenOpenBrace
  BY <1>1, <1>2
<1>5. block.seenOpenBrace => Entries(next, d + 1)
  BY <1>1, <1>2, <1>3, <1>4 DEF Entries
<1>6. ~block.seenOpenBrace => Entries(next, d)
  BY <1>1, <1>2, <1>3, <1>4 DEF Entries
<1>7. Free(stack) /\ block.openParentheses = 0 => Free(next)
  BY <1>2, <1>3 DEF Free
<1> QED
  BY <1>2, <1>5, <1>6, <1>7 DEF next

\* A block less.
LEMMA EntriesFront ==
  ASSUME NEW stack, NEW d, Entries(stack, d), stack # <<>>
  PROVE  /\ Len(Front(stack)) = Len(stack) - 1
         /\ Entries(Front(stack), Len(stack) - 1)
         /\ Free(stack) => Free(Front(stack))
<1>1. d \in Nat /\ stack \in Seq(Blocks(AsmStates)) /\ Len(stack) \in {d, d + 1}
      /\ \A k \in 1..Len(stack) : stack[k].seenOpenBrace <=> k <= d
  BY DEF Entries
<1>2. PICK next : next = Front(stack)
  OBVIOUS
<1>3. PICK e \in Nat : e = Len(stack) - 1 /\ e <= d
  BY <1>1
<1>4. /\ next \in Seq(Blocks(AsmStates)) /\ Len(next) = e
      /\ \A k \in 1..e : next[k] = stack[k] /\ k \in 1..Len(stack)
  BY <1>1, <1>2, <1>3, FrontIs
<1>5. \A k \in 1..e : next[k].seenOpenBrace
  BY <1>1, <1>3, <1>4
<1>6. Entries(next, e)
  BY <1>3, <1>4, <1>5 DEF Entries
<1>7. Free(stack) => Free(next)
  BY <1>4 DEF Free
<1> QED
  BY <1>2, <1>3, <1>4, <1>6, <1>7

LEMMA NewBlockIs ==
  ASSUME NEW t, NEW i
  PROVE  /\ NewBlock(t, i) \in Blocks(AsmStates) /\ NewBlock(t, i).seenOpenBrace
         /\ NewBlock(t, i).openParentheses = 0
<1>1. BlockInfo(TRUE) \in Blocks(AsmStates)
  BY BlockInfoType DEF AsmStates
<1>2. BlockInfo(TRUE).seenOpenBrace /\ BlockInfo(TRUE).openParentheses = 0
  BY DEF BlockInfo
<1>3. PICK asm \in AsmStates : NewBlock(t, i) = [BlockInfo(TRUE) EXCEPT !.inlineAsm = asm]
  BY Zenon DEF NewBlock, AsmStates
<1> QED
  BY <1>1, <1>2, <1>3 DEF Blocks

\* What waits for its brace is not closed before.
NotClosed(stack, d, x) == Len(stack) = d + 1 => ~RightBrace(x) /\ ~RightParen(x)

\* The stack next and the depth e behind a token: nothing waits but what did before.
Follows(next, e, stack, d, x) ==
  /\ Entries(next, e)
  /\ Len(next) = e + 1 <=> Len(stack) = d + 1 /\ ~LeftBrace(x) /\ ~Semi(x)
  /\ Free(stack) => Free(next)

\* One token: a block opens, ends or turns out to be none, as the depth says.
LEMMA EntriesToken ==
  ASSUME NEW state, IsState(state), NEW stack, stack = state.stack, NEW d, Entries(stack, d),
         NEW t, NEW i, NEW lines1, NEW l, NEW token, token = t[i], NotClosed(stack, d, token),
         NEW e, e = BraceStep(0, d, token), NEW next, next = Token(state, t, i, lines1, l)
  PROVE  IsState(next) /\ Follows(next.stack, e, stack, d, token)
<1>1. /\ d \in Nat /\ Len(stack) \in {d, d + 1} /\ Len(stack) \in Nat
      /\ SeenOpenBrace(stack) <=> Len(stack) = d
      /\ Len(stack) = d + 1 => ~RightBrace(token) /\ ~RightParen(token)
  BY EntriesSeen DEF Entries, NotClosed
<1>2. \A x : [state EXCEPT !.stack = x].stack = x /\ IsState([state EXCEPT !.stack = x])
  BY DEF IsState
<1>3. CASE LeftBrace(token) /\ Len(stack) = d + 1
  <2>1. PICK x : x = OpenTop(stack)
    OBVIOUS
  <2>2. e = d + 1
    BY <1>3, BraceStepIs
  <2>3. next = [state EXCEPT !.stack = x]
    BY <1>1, <1>3, <2>1, TokenIs, TokenCases
  <2>4. next.stack = x /\ IsState(next)
    BY <1>2, <2>3
  <2>5. Entries(x, d + 1) /\ Len(x) = d + 1 /\ (Free(stack) => Free(x))
    BY <1>3, <2>1, EntriesFill
  <2> QED
    BY <1>1, <1>3, <2>2, <2>4, <2>5 DEF Follows
<1>4. CASE LeftBrace(token) /\ Len(stack) = d
  <2>1. PICK block : block = NewBlock(t, i)
    OBVIOUS
  <2>2. PICK x : x = Append(stack, block)
    OBVIOUS
  <2>3. e = d + 1
    BY <1>4, BraceStepIs
  <2>4. next = [state EXCEPT !.stack = x]
    BY <1>1, <1>4, <2>1, <2>2, TokenIs, TokenCases
  <2>5. next.stack = x /\ IsState(next)
    BY <1>2, <2>4
  <2>6. block \in Blocks(AsmStates) /\ block.seenOpenBrace /\ block.openParentheses = 0
    BY <2>1, NewBlockIs
  <2>7. Entries(x, d + 1) /\ Len(x) = d + 1 /\ (Free(stack) => Free(x))
    BY <1>4, <2>2, <2>6, EntriesAppend
  <2> QED
    BY <1>1, <1>4, <2>3, <2>5, <2>7 DEF Follows
<1>5. CASE ~LeftBrace(token) /\ (Semi(token) \/ RightParen(token)) /\ Len(stack) = d + 1
  <2>1. PICK x : x = Front(stack)
    OBVIOUS
  <2>2. e = d /\ Semi(token)
    BY <1>1, <1>5, BraceStepIs, TokensDiffer
  <2>3. next = [state EXCEPT !.stack = x]
    BY <1>1, <1>5, <2>1, TokenIs, TokenCases
  <2>4. next.stack = x /\ IsState(next)
    BY <1>2, <2>3
  <2>5. stack # <<>> /\ Len(stack) - 1 = d
    BY <1>1, <1>5, EntriesSeen
  <2>6. Entries(x, d) /\ Len(x) = d /\ (Free(stack) => Free(x))
    BY <2>1, <2>5, EntriesFront
  <2> QED
    BY <1>1, <2>2, <2>4, <2>6 DEF Follows
<1>6. CASE RightBrace(token) /\ d > 0
  <2>1. PICK x : x = Front(stack)
    OBVIOUS
  <2>2. e = d - 1 /\ Len(stack) = d /\ stack # <<>>
    BY <1>1, <1>6, BraceStepIs, EntriesSeen
  <2>3. PICK y : y = CheckEnd(state.lint, Last(stack), lines1, l)
    OBVIOUS
  <2>4. next = [stack |-> x, lint |-> y]
    BY <1>6, <2>1, <2>2, <2>3, TokenIs, TokenCases
  <2>5. next.stack = x /\ IsState(next)
    BY <2>4 DEF IsState
  <2>6. Entries(x, d - 1) /\ Len(x) = d - 1 /\ (Free(stack) => Free(x))
    BY <2>1, <2>2, EntriesFront
  <2> QED
    BY <1>1, <2>2, <2>5, <2>6 DEF Follows
<1>7. CASE /\ ~LeftBrace(token) /\ ~(RightBrace(token) /\ d > 0)
           /\ ~((Semi(token) \/ RightParen(token)) /\ Len(stack) = d + 1)
  <2>1. e = d
    BY <1>7, BraceStepIs
  <2>2. ~Fills(stack, t, i) /\ ~Begins(stack, t, i) /\ ~Drops(stack, t, i)
    BY <1>1, <1>7, TokenCases
  <2>3. ~EndsOne(stack, t, i)
    <3>1. RightBrace(token) => d = 0 /\ Len(stack) = d
      BY <1>1, <1>7
    <3> QED
      BY <3>1, TokenCases, EntriesSeen
  <2>4. next = state
    BY <2>2, <2>3, TokenIs
  <2> QED
    BY <1>1, <1>7, <2>1, <2>4 DEF Follows
<1> QED
  BY <1>1, <1>3, <1>4, <1>5, <1>6, <1>7, TokensDiffer DEF Follows

\* No brace and no semicolon among the first k tokens, and none of them closed
\* before a brace is opened.
Bare(t, k) == \A j \in 1..k : ~LeftBrace(t[j]) /\ ~Semi(t[j])
Guarded(t) ==
  \A j \in 1..Len(t) : RightParen(t[j]) \/ RightBrace(t[j]) => \E k \in 1..j - 1 : LeftBrace(t[k])

\* The stack after k tokens; w is 1 if a head on the line may wait for its brace.
Reached(t, g, w, k, stack) ==
  /\ Entries(stack, g[k])
  /\ Len(stack) = g[k] + 1 <=> w = 1 /\ Bare(t, k)

\* What is left of t behind its first m tokens, with the stack that goes with it.
Handed(a, t, g, w, m) ==
  /\ m \in 0..Len(t) /\ a.rest \in Seq(STRING) /\ Len(a.rest) = Len(t) - m
  /\ \A i \in 1..Len(a.rest) : a.rest[i] = t[m + i]
  /\ Reached(t, g, w, m, a.stack)

\* A line with the depths at its tokens. What waits for its brace is not closed.
Traced(t, d, g, w) == t \in Seq(STRING) /\ Depths(g, d, t) /\ (w = 1 => Guarded(t))

\* All the tokens that are left.
LEMMA EntriesTokens ==
  ASSUME NEW t, NEW d, NEW g, NEW w, Traced(t, d, g, w),
         NEW m, NEW a, Handed(a, t, g, w, m), NEW lines1, NEW l, NEW log,
         NEW stack, stack = Tokens(a.rest, lines1, l, a.stack, log).stack
  PROVE  /\ Reached(t, g, w, Len(t), stack)
         /\ Free(a.stack) => Free(stack)
<1>1. PICK rest : rest = a.rest
  OBVIOUS
<1>2. /\ m \in 0..Len(t) /\ rest \in Seq(STRING) /\ Len(rest) = Len(t) - m
      /\ Len(t) \in Nat /\ Len(rest) \in Nat
      /\ \A i \in 1..Len(rest) : rest[i] = t[m + i]
      /\ t \in Seq(STRING) /\ Depths(g, d, t) /\ (w = 1 => Guarded(t))
  BY <1>1 DEF Handed, Traced
<1>3. PICK c, s : c = [t |-> rest, lines |-> lines1, linenum |-> l] /\ s = [i \in 1..Len(rest) |-> i]
  OBVIOUS
<1>4. PICK top, base : top = a.stack /\ base = [stack |-> top, lint |-> log]
  OBVIOUS
<1>5. /\ Tokens(rest, lines1, l, top, log) = TokenFold!Fold(c, base, s)
      /\ DOMAIN s = 1..Len(rest) /\ \A i \in 1..Len(rest) : s[i] = i
      /\ \A state, i : TokenStep(c, state, i) = Token(state, rest, i, lines1, l)
  <2>1. rest \in Seq(STRING)
    BY <1>2
  <2> QED
    BY <1>3, <1>4, <2>1, TokensIs
<1>6. PICK h : TokenFold!Runs(h, c, base, s, Len(rest)) /\ h[Len(rest)] = TokenFold!Fold(c, base, s)
  BY <1>2, <1>5, TokenFold!FoldSteps
<1>7. h[0] = base /\ \A i \in 1..Len(rest) : h[i] = Token(h[i - 1], rest, i, lines1, l)
  BY <1>5, <1>6 DEF TokenFold!Runs
<1> DEFINE Good(i) == /\ IsState(h[i]) /\ Reached(t, g, w, m + i, h[i].stack)
                      /\ Free(a.stack) => Free(h[i].stack)
           R == {i \in 0..Len(rest) : Good(i)}
<1>8. 0 \in R
  <2>1. IsState(base) /\ base.stack = a.stack
    BY <1>4 DEF IsState
  <2>2. m + 0 = m /\ 0 \in 0..Len(rest)
    BY <1>2
  <2>3. Reached(t, g, w, m, a.stack)
    BY DEF Handed
  <2> QED
    BY <1>7, <2>1, <2>2, <2>3
<1>9. ASSUME NEW i \in 0 + 1..Len(rest), i - 1 \in R PROVE i \in R
  <2>1. i \in 1..Len(rest) /\ i \in 0..Len(rest) /\ m + i \in 1..Len(t) /\ m + (i - 1) = (m + i) - 1
    BY <1>2
  <2>2. PICK j \in 1..Len(t) : j = m + i
    BY <2>1
  <2>3. PICK state, before : state = h[i - 1] /\ before = state.stack
    OBVIOUS
  <2>4. IsState(state) /\ Reached(t, g, w, j - 1, before) /\ (Free(a.stack) => Free(before))
    BY <1>9, <2>1, <2>2, <2>3
  <2>5. h[i] = Token(state, rest, i, lines1, l) /\ rest[i] = t[j]
    BY <1>2, <1>7, <2>1, <2>2, <2>3
  <2>6. g[j] = BraceStep(0, g[j - 1], rest[i])
    BY <1>2, <2>2, <2>5 DEF Depths
  <2>7. PICK depth : depth = g[j - 1]
    OBVIOUS
  <2>8. Entries(before, depth) /\ (Len(before) = depth + 1 <=> w = 1 /\ Bare(t, j - 1))
    BY <2>4, <2>7 DEF Reached
  <2>9. NotClosed(before, depth, rest[i])
    BY <1>2, <2>2, <2>5, <2>8 DEF Bare, Guarded, NotClosed
  <2>10. /\ IsState(h[i]) /\ Entries(h[i].stack, g[j])
         /\ Len(h[i].stack) = g[j] + 1 <=>
              Len(before) = depth + 1 /\ ~LeftBrace(rest[i]) /\ ~Semi(rest[i])
         /\ Free(before) => Free(h[i].stack)
    <3>1. PICK next, e, k, token : next = h[i] /\ e = g[j] /\ k = i /\ token = rest[k]
      OBVIOUS
    <3>2. next = Token(state, rest, k, lines1, l) /\ e = BraceStep(0, depth, token)
      BY <2>5, <2>6, <2>7, <3>1
    <3>3. IsState(state) /\ Entries(before, depth) /\ NotClosed(before, depth, token)
      BY <2>4, <2>8, <2>9, <3>1
    <3>4. before = state.stack
      BY <2>3
    <3>5. IsState(next) /\ Follows(next.stack, e, before, depth, token)
      BY <3>1, <3>2, <3>3, <3>4, EntriesToken
    <3> QED
      BY <3>1, <3>5 DEF Follows
  <2>11. Bare(t, j) <=> Bare(t, j - 1) /\ ~LeftBrace(t[j]) /\ ~Semi(t[j])
    <3>1. \A k \in 1..j : k \in 1..j - 1 \/ k = j
      BY <2>2
    <3>2. j \in 1..j /\ \A k \in 1..j - 1 : k \in 1..j
      BY <2>2
    <3> QED
      BY <3>1, <3>2 DEF Bare
  <2>12. Reached(t, g, w, j, h[i].stack)
    BY <2>5, <2>8, <2>10, <2>11 DEF Reached
  <2> QED
    BY <2>1, <2>2, <2>4, <2>10, <2>12
<1>10. 0..Len(rest) \subseteq R
  <2>1. 0 \in Int /\ Len(rest) \in Int
    BY <1>2
  <2> HIDE DEF R
  <2> QED
    BY <1>8, <1>9, <2>1, IntervalInduction
<1>11. Len(rest) \in R /\ m + Len(rest) = Len(t)
  BY <1>2, <1>10
<1>12. stack = h[Len(rest)].stack
  BY <1>1, <1>4, <1>5, <1>6
<1> QED
  BY <1>11, <1>12

\* Parentheses change nothing of that, and if they match nothing at all.
LEMMA EntriesParentheses ==
  ASSUME NEW stack, NEW d, Entries(stack, d), NEW t \in Seq(STRING)
  PROVE  /\ Entries(CountParentheses(stack, t), d)
         /\ Len(CountParentheses(stack, t)) = Len(stack)
         /\ Free(stack) /\ Count(t, "(") = Count(t, ")") => Free(CountParentheses(stack, t))
<1> DEFINE change == Count(t, "(") - Count(t, ")")
           top == Last(stack)
           open == top.openParentheses + change
           asm == CASE top.inlineAsm \in {"no", "end"} ->
                         IF change # 0 /\ open = 1 /\ MatchAsm(t) THEN "inside" ELSE "no"
                    [] top.inlineAsm = "inside" /\ open = 0 -> "end"
                    [] OTHER -> top.inlineAsm
<1>1. CASE stack = <<>>
  BY <1>1 DEF CountParentheses
<1>2. CASE stack # <<>>
  <2>1. stack \in Seq(Blocks(AsmStates)) /\ top = stack[Len(stack)] /\ top \in Blocks(AsmStates)
        /\ Len(stack) \in 1..Len(stack)
    BY <1>2 DEF Last, Entries
  <2>2. change \in Int /\ (Count(t, "(") = Count(t, ")") => change = 0)
    <3>1. PICK x, y : x = Count(t, "(") /\ y = Count(t, ")")
      OBVIOUS
    <3>2. x \in Int /\ y \in Int
      BY <3>1, CountInt
    <3> QED
      BY <3>1, <3>2
  <2>3. CountParentheses(stack, t) =
          SetTop(stack, [top EXCEPT !.openParentheses = open, !.inlineAsm = asm])
    BY <1>2 DEF CountParentheses
  <2> HIDE DEF change, top
  <2>4. top.openParentheses \in Int /\ top.inlineAsm \in AsmStates
    BY <2>1 DEF Blocks
  <2>5. open \in Int /\ (change = 0 => open = top.openParentheses)
    BY <2>2, <2>4
  <2> HIDE DEF open
  <2>6. asm \in AsmStates
    BY <2>4, Zenon DEF AsmStates
  <2> HIDE DEF asm
  <2>7. PICK block : block = [top EXCEPT !.openParentheses = open, !.inlineAsm = asm]
    OBVIOUS
  <2>8. /\ block \in Blocks(AsmStates) /\ block.seenOpenBrace = top.seenOpenBrace
        /\ block.openParentheses = open
    BY <2>1, <2>5, <2>6, <2>7 DEF Blocks
  <2>9. /\ Entries(SetTop(stack, block), d) /\ Len(SetTop(stack, block)) = Len(stack)
        /\ Free(stack) /\ block.openParentheses = 0 => Free(SetTop(stack, block))
    BY <1>2, <2>8, EntriesTop DEF top
  <2>10. Free(stack) => top.openParentheses = 0
    BY <2>1 DEF Free
  <2> QED
    BY <2>2, <2>3, <2>5, <2>7, <2>8, <2>9, <2>10
<1> QED
  BY <1>1, <1>2

\* Nor do a base class and an access specifier.
LEMMA EntriesBegin ==
  ASSUME NEW stack, NEW d, Entries(stack, d), NEW t
  PROVE  /\ Entries(CheckBegin(stack, t), d) /\ Len(CheckBegin(stack, t)) = Len(stack)
         /\ Free(stack) => Free(CheckBegin(stack, t))
<1>1. CASE CheckBegin(stack, t) = stack
  BY <1>1
<1>2. CASE CheckBegin(stack, t) # stack
  <2>1. PICK block : block = [Last(stack) EXCEPT !.isDerived = TRUE]
    OBVIOUS
  <2>2. stack # <<>> /\ CheckBegin(stack, t) = SetTop(stack, block)
    BY <1>2, <2>1, Zenon DEF CheckBegin, SeenOpenBrace
  <2>3. /\ stack \in Seq(Blocks(AsmStates)) /\ Last(stack) = stack[Len(stack)]
        /\ Last(stack) \in Blocks(AsmStates) /\ Len(stack) \in 1..Len(stack)
    BY <2>2 DEF Last, Entries
  <2>4. /\ block \in Blocks(AsmStates) /\ block.seenOpenBrace = Last(stack).seenOpenBrace
        /\ block.openParentheses = Last(stack).openParentheses
    BY <2>1, <2>3 DEF Blocks
  <2>5. Free(stack) => block.openParentheses = 0
    BY <2>3, <2>4 DEF Free
  <2> QED
    BY <2>2, <2>4, <2>5, EntriesTop
<1> QED
  BY <1>1, <1>2

LEMMA EntriesAccess ==
  ASSUME NEW a, a = [stack |-> a.stack, rest |-> a.rest], NEW d, Entries(a.stack, d)
  PROVE  /\ UpdateAccess(a).rest = a.rest
         /\ Entries(UpdateAccess(a).stack, d) /\ Len(UpdateAccess(a).stack) = Len(a.stack)
         /\ Free(a.stack) => Free(UpdateAccess(a).stack)
<1>1. PICK stack : stack = a.stack
  OBVIOUS
<1>2. PICK access : access = a.rest[1]
  OBVIOUS
<1>3. PICK block : block = [Last(stack) EXCEPT !.access = access]
  OBVIOUS
<1>4. CASE UpdateAccess(a) = a
  BY <1>4
<1>5. CASE UpdateAccess(a) # a
  <2>1. /\ stack # <<>> /\ access \in AccessSpecifiers
        /\ UpdateAccess(a) = [a EXCEPT !.stack = SetTop(stack, block)]
    BY <1>1, <1>2, <1>3, <1>5, Zenon DEF UpdateAccess
  <2>2. /\ stack \in Seq(Blocks(AsmStates)) /\ Last(stack) = stack[Len(stack)]
        /\ Last(stack) \in Blocks(AsmStates) /\ Len(stack) \in 1..Len(stack)
    BY <1>1, <2>1 DEF Last, Entries
  <2>3. /\ block \in Blocks(AsmStates) /\ block.seenOpenBrace = Last(stack).seenOpenBrace
        /\ block.openParentheses = Last(stack).openParentheses
    BY <1>3, <2>1, <2>2 DEF Blocks
  <2>4. Free(stack) => block.openParentheses = 0
    BY <2>2, <2>3 DEF Free
  <2>5. PICK next : next = SetTop(stack, block)
    OBVIOUS
  <2>6. Entries(next, d) /\ Len(next) = Len(stack) /\ (Free(stack) => Free(next))
    BY <1>1, <2>1, <2>3, <2>4, <2>5, EntriesTop
  <2>7. UpdateAccess(a).stack = next /\ UpdateAccess(a).rest = a.rest
    BY <2>1, <2>5
  <2> QED
    BY <1>1, <2>6, <2>7
<1> QED
  BY <1>4, <1>5

\* So it is enough to look at the declarations.
LEMMA HandedOn ==
  ASSUME NEW a, a = [stack |-> a.stack, rest |-> a.rest], NEW t, NEW g, NEW w, NEW m,
         Handed(a, t, g, w, m), NEW next, next = UpdateAccess([a EXCEPT !.stack = CheckBegin(@, t)])
  PROVE  Handed(next, t, g, w, m) /\ (Free(a.stack) => Free(next.stack))
<1>1. PICK stack : stack = CheckBegin(a.stack, t)
  OBVIOUS
<1>2. PICK d : d = g[m]
  OBVIOUS
<1>3. Entries(a.stack, d) /\ (Len(a.stack) = d + 1 <=> w = 1 /\ Bare(t, m))
  BY <1>2 DEF Handed, Reached
<1>4. Entries(stack, d) /\ Len(stack) = Len(a.stack) /\ (Free(a.stack) => Free(stack))
  BY <1>1, <1>3, EntriesBegin
<1>5. PICK b : b = [stack |-> stack, rest |-> a.rest]
  OBVIOUS
<1>6. next = UpdateAccess(b)
  <2>1. [a EXCEPT !.stack = CheckBegin(@, t)] = b
    BY <1>1, <1>5
  <2> QED
    BY <2>1
<1>7. b = [stack |-> b.stack, rest |-> b.rest] /\ b.stack = stack /\ b.rest = a.rest
  BY <1>5
<1>8. /\ next.rest = a.rest /\ Entries(next.stack, d) /\ Len(next.stack) = Len(stack)
      /\ Free(stack) => Free(next.stack)
  BY <1>4, <1>6, <1>7, EntriesAccess
<1> QED
  BY <1>2, <1>3, <1>4, <1>8 DEF Handed, Reached

LEMMA FromIs ==
  ASSUME NEW S, NEW t \in Seq(S), NEW m \in 0..Len(t)
  PROVE  /\ From(t, m + 1) \in Seq(S) /\ Len(From(t, m + 1)) = Len(t) - m
         /\ \A i \in 1..Len(t) - m : From(t, m + 1)[i] = t[m + i]
<1>1. m + 1 \in Nat \ {0} /\ m + 1 <= Len(t) + 1 /\ Len(t) \in Nat
  OBVIOUS
<1>2. From(t, m + 1) \in Seq(S)
  BY <1>1, FromType
<1>3. Len(From(t, m + 1)) = Len(t) - m
  BY <1>1 DEF From
<1>4. \A i \in 1..Len(t) - m : From(t, m + 1)[i] = t[m + i]
  BY <1>1 DEF From
<1> QED
  BY <1>2, <1>3, <1>4

\* The depth stays what it is up to the first brace.
LEMMA Flat ==
  ASSUME NEW t \in Seq(STRING), Guarded(t), NEW d \in Nat, NEW g, Depths(g, d, t),
         NEW k \in 0..Len(t), \A j \in 1..k : ~LeftBrace(t[j])
  PROVE  g[k] = d
<1> DEFINE R == {i \in 0..k : g[i] = d}
<1>1. k \in Nat /\ k <= Len(t)
  OBVIOUS
<1>2. 0 \in R
  BY <1>1 DEF Depths
<1>3. ASSUME NEW i \in 0 + 1..k, i - 1 \in R PROVE i \in R
  <2>1. i \in 1..k /\ i \in 0..k /\ i \in 1..Len(t)
    BY <1>1
  <2>2. ~LeftBrace(t[i]) /\ ~RightBrace(t[i])
    <3>1. \A j \in 1..i - 1 : j \in 1..k
      BY <2>1
    <3> QED
      BY <2>1, <3>1 DEF Guarded
  <2>3. g[i] = BraceStep(0, g[i - 1], t[i]) /\ g[i - 1] = d
    BY <1>3, <2>1 DEF Depths
  <2> QED
    BY <2>1, <2>2, <2>3, BraceStepIs
<1>4. 0..k \subseteq R
  <2>1. 0 \in Int /\ k \in Int
    BY <1>1
  <2> HIDE DEF R
  <2> QED
    BY <1>2, <1>3, <2>1, IntervalInduction
<1> QED
  BY <1>1, <1>4

LEMMA NotInTail ==
  ASSUME NEW S, NEW t \in Seq(S), t # <<>>, NEW X, ~Mentions(Tail(t), X)
  PROVE  \A j \in 2..Len(t) : t[j] \notin X
<1>1. Len(Tail(t)) = Len(t) - 1 /\ \A i \in 1..Len(t) - 1 : Tail(t)[i] = t[i + 1]
  OBVIOUS
<1>2. \A j \in 2..Len(t) : j - 1 \in 1..Len(t) - 1 /\ (j - 1) + 1 = j
  OBVIOUS
<1>3. \A i \in 1..Len(Tail(t)) : Tail(t)[i] \notin X
  BY DEF Mentions
<1> QED
  BY <1>1, <1>2, <1>3

LEMMA DeclaresOneIs ==
  ASSUME NEW t \in Seq(STRING), t # <<>>, t[1] \in ClassOrNamespace, DeclaresOne(t)
  PROVE  /\ Len(t) \in Nat /\ 2 <= Len(t) /\ t[2] \in Names /\ Guarded(t)
         /\ \A j \in 2..Len(t) : t[j] \notin ClassOrNamespace /\ t[j] \notin {"=", ">"}
         /\ Bare(t, 2) /\ ~LeftBrace(t[1]) /\ ~LeftBrace(t[2])
<1>1. Len(t) >= 2 /\ t[2] \in Names /\ ~Mentions(Tail(t), ClassOrNamespace \cup {"=", ">"})
  BY Zenon DEF DeclaresOne
<1>2. Len(t) \in Nat /\ 2 <= Len(t)
  BY <1>1
<1>3. Guarded(t)
  BY Zenon DEF DeclaresOne, Guarded, LeftBrace, RightBrace, RightParen
<1>4. PICK X : X = ClassOrNamespace \cup {"=", ">"}
  OBVIOUS
<1>5. \A j \in 2..Len(t) : t[j] \notin X
  BY <1>1, <1>4, NotInTail
<1>6. \A j \in 2..Len(t) : t[j] \notin ClassOrNamespace /\ t[j] \notin {"=", ">"}
  BY <1>4, <1>5, Zenon
<1>7. \A j \in 1..2 : j = 1 \/ j = 2
  OBVIOUS
<1> QED
  BY <1>1, <1>2, <1>3, <1>6, <1>7, TokensDiffer, Zenon DEF Bare

\* A namespace, and what is left of its line.
LeftBraces(t) == {i \in 1..Len(t) : LeftBrace(t[i])}

NamespaceBlock(t, l) ==
  [NamespaceInfo(t[2], l) EXCEPT !.seenOpenBrace = LeftBraces(From(t, 3)) # {}]

BehindBrace(left) == IF LeftBraces(left) = {} THEN left ELSE From(left, Min(LeftBraces(left)) + 1)

BeginsNamespace(t) == t # <<>> /\ Head(t) = "namespace" /\ Len(t) >= 2 /\ t[2] \in Names

LEMMA NamespaceStepIs ==
  ASSUME NEW c, NEW consume, NEW n, n # 0, NEW before, before = consume[n - 1],
         BeginsNamespace(before.rest)
  PROVE  NamespaceStep(c, consume, n) =
           [stack |-> Append(before.stack, NamespaceBlock(before.rest, c.linenum)),
            rest |-> BehindBrace(From(before.rest, 3))]
<1>1. before.rest[2] # ""
  BY Zenon DEF Names, BeginsNamespace
<1> QED
  BY <1>1, Zenon DEF NamespaceStep, LeftBrace, LeftBraces, NamespaceBlock, BehindBrace, BeginsNamespace

LEMMA OneNamespace ==
  ASSUME NEW t \in Seq(STRING), BeginsNamespace(t), NEW stack, NEW l,
         NEW block, block = NamespaceBlock(t, l), NEW rest, rest = BehindBrace(From(t, 3)),
         rest = <<>> \/ Head(rest) # "namespace"
  PROVE  PushNamespaces(stack, t, l) = [stack |-> Append(stack, block), rest |-> rest]
<1> DEFINE c == [stack |-> stack, t |-> t, linenum |-> l]
<1>1. PushNamespaces(c.stack, c.t, c.linenum) = NamespaceRec!Recursive(c, 0, Len(c.t))[Len(c.t)]
  <2> HIDE DEF c
  <2> QED
    BY DEF PushNamespaces, NamespaceRec!Recursive, NamespaceStep
<1>2. c.stack = stack /\ c.t = t /\ c.linenum = l /\ Len(t) \in Nat
  OBVIOUS
<1> HIDE DEF c
<1>3. ASSUME NEW i \in 0 .. Len(t), NEW g, NEW h, NamespaceRec!AgreeBelow(g, h, 0, i)
      PROVE  NamespaceStep(c, g, i) = NamespaceStep(c, h, i)
  <2>1. i # 0 => g[i - 1] = h[i - 1]
    BY <1>2, <1>3 DEF NamespaceRec!AgreeBelow
  <2> QED
    BY <2>1 DEF NamespaceStep
<1> DEFINE consume == NamespaceRec!Recursive(c, 0, Len(t))
<1>4. NamespaceRec!Solves(consume, c, 0, Len(t))
  <2>1. \A i \in 0 .. Len(t) : \A g, h :
          NamespaceRec!AgreeBelow(g, h, 0, i) => NamespaceStep(c, g, i) = NamespaceStep(c, h, i)
    BY <1>3
  <2> QED
    BY <1>2, <2>1, NamespaceRec!Recursion
<1> HIDE DEF consume
<1>5. \A i \in 0 .. Len(t) : consume[i] = NamespaceStep(c, consume, i)
  BY <1>4 DEF NamespaceRec!Solves
<1>6. 2 <= Len(t)
  BY DEF BeginsNamespace
<1>7. PICK pushed : pushed = [stack |-> Append(stack, block), rest |-> rest]
  OBVIOUS
<1>8. consume[1] = pushed
  <2>1. 0 \in 0..Len(t) /\ 1 \in 0..Len(t) /\ 1 # 0 /\ 1 - 1 = 0
    BY <1>2, <1>6
  <2>2. consume[0] = [stack |-> stack, rest |-> t]
    BY <1>2, <1>5, <2>1 DEF NamespaceStep
  <2>3. PICK k, before : k = 1 /\ before = consume[k - 1]
    OBVIOUS
  <2>4. before.stack = stack /\ before.rest = t /\ k # 0
    BY <2>1, <2>2, <2>3
  <2>5. NamespaceStep(c, consume, k) =
          [stack |-> Append(before.stack, NamespaceBlock(before.rest, c.linenum)),
           rest |-> BehindBrace(From(before.rest, 3))]
    BY <2>3, <2>4, NamespaceStepIs
  <2>6. consume[1] = NamespaceStep(c, consume, k)
    BY <1>5, <2>1, <2>3
  <2> QED
    BY <1>2, <1>7, <2>4, <2>5, <2>6
<1> DEFINE R == {i \in 1 .. Len(t) : consume[i] = pushed}
<1>9. ASSUME NEW i \in 1 + 1 .. Len(t), i - 1 \in R PROVE i \in R
  <2>1. i \in 0 .. Len(t) /\ i \in 1 .. Len(t) /\ i # 0
    BY <1>2
  <2>2. consume[i - 1] = pushed /\ pushed.rest = rest
    BY <1>7, <1>9
  <2>3. NamespaceStep(c, consume, i) = consume[i - 1]
    BY <2>1, <2>2, Zenon DEF NamespaceStep
  <2> QED
    BY <1>5, <2>1, <2>2, <2>3
<1>10. 1 .. Len(t) \subseteq R
  <2>1. 1 \in Int /\ Len(t) \in Int /\ 1 \in 1 .. Len(t)
    BY <1>2, <1>6
  <2>2. 1 \in R
    BY <1>8, <2>1
  <2> HIDE DEF R
  <2> QED
    BY <1>9, <2>1, <2>2, IntervalInduction
<1>11. Len(t) \in R
  BY <1>2, <1>6, <1>10
<1> QED
  BY <1>1, <1>2, <1>7, <1>11 DEF consume

IsDeclared(a) == a = [stack |-> a.stack, rest |-> a.rest]

\* A namespace at the beginning of the line.
LEMMA HandedNamespace ==
  ASSUME NEW t \in Seq(STRING), t # <<>>, t[1] = "namespace", DeclaresOne(t),
         NEW stack, NEW d, Entries(stack, d), Len(stack) = d, NEW g, Depths(g, d, t),
         NEW l \in Nat, NEW lines1, NEW a, a = PushClass(PushNamespaces(stack, t, l), lines1, l)
  PROVE  /\ IsDeclared(a) /\ \E m \in 0..Len(t) : Handed(a, t, g, 1, m)
         /\ Free(stack) => Free(a.stack)
<1> DEFINE left == From(t, 3)
           braces == LeftBraces(left)
           block == NamespaceBlock(t, l)
           rest == BehindBrace(left)
           m == IF braces = {} THEN 2 ELSE Min(braces) + 2
           next == Append(stack, block)
<1>1. /\ Len(t) \in Nat /\ 2 <= Len(t) /\ t[2] \in Names /\ Guarded(t) /\ Bare(t, 2)
      /\ \A j \in 2..Len(t) : t[j] \notin ClassOrNamespace
      /\ ~LeftBrace(t[1]) /\ ~LeftBrace(t[2]) /\ BeginsNamespace(t) /\ d \in Nat
  <2>1. t[1] \in ClassOrNamespace
    BY Zenon DEF ClassOrNamespace
  <2>2. /\ Len(t) \in Nat /\ 2 <= Len(t) /\ t[2] \in Names /\ Guarded(t) /\ Bare(t, 2)
        /\ \A j \in 2..Len(t) : t[j] \notin ClassOrNamespace
        /\ ~LeftBrace(t[1]) /\ ~LeftBrace(t[2])
    BY <2>1, DeclaresOneIs
  <2>3. Head(t) = "namespace" /\ Len(t) >= 2
    BY <2>2
  <2> QED
    BY <2>2, <2>3 DEF BeginsNamespace, Entries
<1>2. /\ left \in Seq(STRING) /\ Len(left) = Len(t) - 2
      /\ \A i \in 1..Len(t) - 2 : left[i] = t[2 + i]
  <2>1. 2 \in 0..Len(t)
    BY <1>1
  <2>2. PICK two : two = 2
    OBVIOUS
  <2>3. /\ From(t, two + 1) \in Seq(STRING) /\ Len(From(t, two + 1)) = Len(t) - two
        /\ \A i \in 1..Len(t) - two : From(t, two + 1)[i] = t[two + i]
    BY <2>1, <2>2, FromIs
  <2>4. two + 1 = 3
    BY <2>2
  <2> QED
    BY <2>2, <2>3, <2>4
<1>3. braces \in SUBSET (1..Len(left)) /\ \A i \in 1..Len(left) : i \in braces <=> LeftBrace(left[i])
  BY DEF LeftBraces
<1> HIDE DEF left
<1>4. braces # {} => /\ Min(braces) \in braces /\ Min(braces) \in 1..Len(left)
                     /\ \A i \in braces : Min(braces) <= i
  <2>1. 1 \in Int /\ Len(left) \in Int
    BY <1>1, <1>2
  <2> HIDE DEF braces
  <2> QED
    BY <1>3, <2>1, MinMaxInterval
<1>5. /\ block \in Blocks(AsmStates) /\ (block.seenOpenBrace <=> braces # {})
      /\ block.openParentheses = 0
  <2>1. PICK seen \in BOOLEAN : seen <=> braces # {}
    OBVIOUS
  <2>2. block = [NamespaceInfo(t[2], l) EXCEPT !.seenOpenBrace = seen]
    BY <2>1 DEF NamespaceBlock, left
  <2>3. PICK A, name : A = AsmStates /\ name = t[2]
    OBVIOUS
  <2> HIDE DEF block
  <2>4. block \in Blocks(AsmStates)
    <3>1. "no" \in A /\ name \in Names \cup {""}
      BY <1>1, <2>3 DEF AsmStates
    <3>2. [NamespaceInfo(name, l) EXCEPT !.seenOpenBrace = seen] \in Blocks(A)
      BY <3>1, NamespaceInfoType
    <3> QED
      BY <2>2, <2>3, <3>2
  <2>5. block.seenOpenBrace = seen /\ block.openParentheses = 0
    BY <2>2 DEF NamespaceInfo, BlockInfo
  <2> QED
    BY <2>1, <2>4, <2>5
<1> HIDE DEF block
<1>6. /\ m \in 0..Len(t) /\ 2 <= m /\ rest \in Seq(STRING) /\ Len(rest) = Len(t) - m
      /\ \A i \in 1..Len(rest) : rest[i] = t[m + i]
  <2>1. CASE braces = {}
    <3>1. rest = left /\ m = 2
      BY <2>1 DEF BehindBrace
    <3> HIDE DEF rest, m, braces
    <3> QED
      BY <1>1, <1>2, <3>1
  <2>2. CASE braces # {}
    <3>1. PICK b : b = Min(braces)
      OBVIOUS
    <3>2. rest = From(left, b + 1) /\ m = b + 2
      BY <2>2, <3>1 DEF BehindBrace
    <3> HIDE DEF rest, m, braces
    <3>3. b \in 1..Len(left) /\ b \in 0..Len(left)
      BY <1>2, <1>4, <2>2, <3>1
    <3>4. /\ rest \in Seq(STRING) /\ Len(rest) = Len(left) - b
          /\ \A i \in 1..Len(left) - b : rest[i] = left[b + i]
      <4>1. PICK s : s = left
        OBVIOUS
      <4>2. s \in Seq(STRING) /\ b \in 0..Len(s) /\ rest = From(s, b + 1)
        BY <1>2, <3>2, <3>3, <4>1
      <4>3. /\ From(s, b + 1) \in Seq(STRING) /\ Len(From(s, b + 1)) = Len(s) - b
            /\ \A i \in 1..Len(s) - b : From(s, b + 1)[i] = s[b + i]
        BY <4>2, FromIs
      <4> QED
        BY <4>1, <4>2, <4>3
    <3>5. \A i \in 1..Len(left) - b : left[b + i] = t[m + i]
      <4>1. \A i \in 1..Len(left) - b : b + i \in 1..Len(t) - 2 /\ 2 + (b + i) = m + i
        BY <1>1, <1>2, <3>2, <3>3
      <4> QED
        BY <1>2, <4>1
    <3> QED
      BY <1>1, <1>2, <3>2, <3>3, <3>4, <3>5
  <2> QED
    BY <2>1, <2>2
<1>7. Reached(t, g, 1, m, next) /\ (Free(stack) => Free(next))
  <2>1. \A j \in 3..Len(t) : j - 2 \in 1..Len(left) /\ left[j - 2] = t[j]
    BY <1>1, <1>2
  <2>2. CASE braces = {}
    <3>1. m = 2 /\ ~block.seenOpenBrace
      BY <1>5, <2>2
    <3> HIDE DEF m, braces
    <3>2. g[2] = d
      <4>1. \A j \in 1..2 : j = 1 \/ j = 2
        OBVIOUS
      <4>2. \A j \in 1..2 : ~LeftBrace(t[j])
        BY <1>1, <4>1
      <4>3. 2 \in 0..Len(t)
        BY <1>1
      <4> QED
        BY <1>1, <4>2, <4>3, Flat
    <3>3. Entries(next, d) /\ Len(next) = d + 1 /\ (Free(stack) => Free(next))
      BY <1>5, <3>1, EntriesAppend
    <3> QED
      BY <1>1, <3>1, <3>2, <3>3 DEF Reached
  <2>3. CASE braces # {}
    <3>1. PICK b : b = Min(braces)
      OBVIOUS
    <3>2. m = b + 2 /\ block.seenOpenBrace
      BY <1>5, <2>3, <3>1
    <3>3. b \in braces /\ b \in 1..Len(left) /\ \A i \in braces : b <= i
      BY <1>4, <2>3, <3>1
    <3>4. LeftBrace(t[m]) /\ m \in 3..Len(t) /\ m \in 1..Len(t) /\ m - 1 \in 0..Len(t)
      <4>1. LeftBrace(left[b])
        BY <1>3, <3>3
      <4> HIDE DEF m, braces
      <4>2. m \in 3..Len(t) /\ m - 2 = b /\ m \in 1..Len(t) /\ m - 1 \in 0..Len(t)
        BY <1>1, <1>2, <3>2, <3>3
      <4> QED
        BY <2>1, <4>1, <4>2
    <3> HIDE DEF m
    <3>5. \A j \in 1..m - 1 : ~LeftBrace(t[j])
      <4> SUFFICES ASSUME NEW j \in 1..m - 1 PROVE ~LeftBrace(t[j])
        OBVIOUS
      <4>1. CASE j \in {1, 2}
        BY <1>1, <4>1
      <4>2. CASE j \notin {1, 2}
        <5>1. j \in 3..Len(t) /\ j - 2 < b
          BY <3>2, <3>3, <3>4, <4>2
        <5>2. j - 2 \in 1..Len(left) /\ left[j - 2] = t[j]
          BY <2>1, <5>1
        <5>3. j - 2 \notin braces
          <6> HIDE DEF braces
          <6> QED
            BY <3>3, <5>1, <5>2
        <5> QED
          BY <1>3, <5>2, <5>3
      <4> QED
        BY <4>1, <4>2
    <3> HIDE DEF braces
    <3>6. g[m - 1] = d
      BY <1>1, <3>4, <3>5, Flat
    <3>7. g[m] = d + 1
      <4>1. g[m] = BraceStep(0, g[m - 1], t[m])
        BY <3>4 DEF Depths
      <4> QED
        BY <3>4, <3>6, <4>1, BraceStepIs
    <3>8. Entries(next, d + 1) /\ Len(next) = d + 1 /\ (Free(stack) => Free(next))
      BY <1>5, <3>2, EntriesAppend
    <3>9. ~Bare(t, m)
      <4>1. m \in 1..m
        BY <3>4
      <4> QED
        BY <3>4, <4>1 DEF Bare
    <3>10. Len(next) # g[m] + 1
      BY <1>1, <3>7, <3>8
    <3> QED
      BY <3>7, <3>8, <3>9, <3>10 DEF Reached
  <2> QED
    BY <2>2, <2>3
<1> HIDE DEF next, m, rest, braces
<1>8. \A i \in 1..Len(rest) : rest[i] \notin ClassOrNamespace
  <2>1. \A i \in 1..Len(rest) : m + i \in 2..Len(t)
    BY <1>1, <1>6
  <2> QED
    BY <1>1, <1>6, <2>1
<1>9. PICK state : state = [stack |-> next, rest |-> rest]
  OBVIOUS
<1>10. PushNamespaces(stack, t, l) = state
  <2>1. rest = <<>> \/ Head(rest) # "namespace"
    <3>1. rest # <<>> => 1 \in 1..Len(rest) /\ Head(rest) = rest[1]
      BY <1>6
    <3>2. "namespace" \in ClassOrNamespace
      BY Zenon DEF ClassOrNamespace
    <3> QED
      BY <1>8, <3>1, <3>2
  <2> QED
    BY <1>1, <1>9, <2>1, OneNamespace DEF next, block, rest, left
<1>11. a = state
  <2>1. \A k \in 1..Len(rest) : rest[k] \notin {"class", "struct"}
    BY <1>8, Zenon DEF ClassOrNamespace
  <2>2. ClassKeyword(rest) = 0
    BY <1>6, <2>1, NoClass
  <2> QED
    BY <1>9, <1>10, <2>2 DEF PushClass
<1>12. a.stack = next /\ a.rest = rest /\ IsDeclared(a)
  BY <1>9, <1>11 DEF IsDeclared
<1>13. Handed(a, t, g, 1, m)
  BY <1>6, <1>7, <1>12 DEF Handed
<1> QED
  BY <1>6, <1>7, <1>12, <1>13

\* A class or struct at the beginning of the line.
LEMMA OneClass ==
  ASSUME NEW t \in Seq(STRING), t # <<>>, t[1] \in {"class", "struct"}, DeclaresOne(t)
  PROVE  ClassKeyword(t) = 1
<1> DEFINE headEnd(k) == /\ k > 1 /\ t[1] = "template" /\ t[2] = "<" /\ t[k] = ">"
                         /\ \A i \in 3..k : t[i] \in Words \cup {"<", ">", ",", ":"}
           enclosed(i) == \E b \in 1..i - 1, e \in i..Len(t) :
                            /\ t[b] = "<" /\ t[e] = ">"
                            /\ \A j \in b + 1..e - 1 : t[j] \notin {"<", ">"}
           found == {k \in 1..Len(t) - 1 :
                       /\ t[k] \in {"class", "struct"}
                       /\ t[k + 1] \in Names
                       /\ k = 1 \/ headEnd(k - 1)
                       /\ \A i \in k + 2..Len(t) : t[i] \in {"=", ">"} => enclosed(i)}
<1>1. ClassKeyword(t) = IF found = {} THEN 0 ELSE Max(found)
  BY DEF ClassKeyword
<1>2. /\ Len(t) \in Nat /\ 2 <= Len(t) /\ t[2] \in Names
      /\ \A j \in 2..Len(t) : t[j] \notin {"class", "struct"} /\ t[j] \notin {"=", ">"}
  <2>1. t[1] \in ClassOrNamespace
    BY Zenon DEF ClassOrNamespace
  <2>2. /\ Len(t) \in Nat /\ 2 <= Len(t) /\ t[2] \in Names
        /\ \A j \in 2..Len(t) : t[j] \notin ClassOrNamespace /\ t[j] \notin {"=", ">"}
    BY <2>1, DeclaresOneIs
  <2> QED
    BY <2>2, Zenon DEF ClassOrNamespace
<1>3. ASSUME NEW k \in found PROVE k = 1
  <2>1. k \in 1..Len(t) - 1 /\ t[k] \in {"class", "struct"}
    OBVIOUS
  <2> HIDE DEF found
  <2>2. k = 1 \/ k \in 2..Len(t)
    BY <1>2, <2>1
  <2> QED
    BY <1>2, <2>1, <2>2
<1>4. 1 \in found
  <2>1. PICK k : k = 1
    OBVIOUS
  <2>2. k \in 1..Len(t) - 1 /\ t[k] \in {"class", "struct"} /\ t[k + 1] \in Names
    BY <1>2, <2>1
  <2>3. \A i \in k + 2..Len(t) : i \in 2..Len(t)
    BY <1>2, <2>1
  <2>4. \A i \in k + 2..Len(t) : t[i] \in {"=", ">"} => enclosed(i)
    BY <1>2, <2>3, Zenon
  <2> HIDE DEF headEnd, enclosed
  <2> QED
    BY <2>1, <2>2, <2>4
<1>5. found \in SUBSET (1..1)
  <2> HIDE DEF found
  <2> QED
    BY <1>3
<1> HIDE DEF found
<1>6. Max(found) \in found
  <2>1. 1 \in Int /\ found # {}
    BY <1>4
  <2> QED
    BY <1>5, <2>1, MinMaxInterval
<1> QED
  BY <1>1, <1>3, <1>4, <1>6

LEMMA ClassInfoIs ==
  ASSUME NEW name, NEW classOrStruct, NEW lines1, NEW l
  PROVE  /\ ~ClassInfo(name, classOrStruct, lines1, l).seenOpenBrace
         /\ ClassInfo(name, classOrStruct, lines1, l).openParentheses = 0
<1> DEFINE depth[i \in l - 1..NumLines(lines1) - 1] ==
             IF i = l - 1 THEN 0
             ELSE depth[i - 1] + Count(lines1[i].elided, "{") - Count(lines1[i].elided, "}")
           balanced == {i \in l..NumLines(lines1) - 1 : depth[i] = 0}
           last == IF balanced = {} THEN 0 ELSE Min(balanced)
           access == IF classOrStruct = "struct" THEN "public" ELSE "private"
<1>1. ClassInfo(name, classOrStruct, lines1, l) =
        [BlockInfo(FALSE) EXCEPT
           !.kind = "class", !.name = name, !.startingLinenum = l,
           !.access = access, !.lastLine = last]
  BY DEF ClassInfo
<1> HIDE DEF last, access, balanced, depth
<1> QED
  BY <1>1 DEF BlockInfo

LEMMA HandedClass ==
  ASSUME NEW t \in Seq(STRING), t # <<>>, t[1] \in {"class", "struct"}, DeclaresOne(t),
         NEW stack, NEW d, Entries(stack, d), Len(stack) = d, NEW g, Depths(g, d, t),
         NEW n \in Nat, NEW lines1, DOMAIN lines1 = 0..n, NEW l \in 0..n,
         NEW a, a = PushClass(PushNamespaces(stack, t, l), lines1, l)
  PROVE  /\ IsDeclared(a)
         /\ \E w \in {0, 1}, m \in 0..Len(t) :
              Handed(a, t, g, w, m) /\ (Free(stack) => w = 1 /\ Free(a.stack))
<1>1. /\ Len(t) \in Nat /\ 2 <= Len(t) /\ t[2] \in Names /\ Guarded(t) /\ Bare(t, 2)
      /\ ~LeftBrace(t[1]) /\ ~LeftBrace(t[2]) /\ d \in Nat
  <2>1. t[1] \in ClassOrNamespace
    BY Zenon DEF ClassOrNamespace
  <2> QED
    BY <2>1, DeclaresOneIs DEF Entries
<1>2. PICK state : state = [stack |-> stack, rest |-> t]
  OBVIOUS
<1>3. PushNamespaces(stack, t, l) = state
  <2>1. t[1] # "namespace"
    OBVIOUS
  <2> QED
    BY <1>2, <2>1, NoNamespaces
<1>4. PICK k, name : k = ClassKeyword(t) /\ name = t[2]
  OBVIOUS
<1>5. k = 1 /\ k # 0 /\ k + 1 = 2 /\ k + 2 = 3
  BY <1>4, OneClass
<1>6. PICK block : block = ClassInfo(name, t[1], lines1, l)
  OBVIOUS
<1>7. block \in Blocks(AsmStates) /\ ~block.seenOpenBrace /\ block.openParentheses = 0
  <2>1. PICK A : A = AsmStates
    OBVIOUS
  <2>2. "no" \in A /\ name \in Names
    BY <1>1, <1>4, <2>1 DEF AsmStates
  <2>3. PICK keyword : keyword = t[1]
    OBVIOUS
  <2>4. ClassInfo(name, keyword, lines1, l) \in Blocks(A)
    BY <2>2, ClassInfoType
  <2> QED
    BY <1>6, <2>1, <2>3, <2>4, ClassInfoIs
<1>8. PICK next, rest : next = Append(stack, block) /\ rest = From(t, 3)
  OBVIOUS
<1>9. /\ 2 \in 0..Len(t) /\ rest \in Seq(STRING) /\ Len(rest) = Len(t) - 2
      /\ \A i \in 1..Len(rest) : rest[i] = t[2 + i]
  <2>1. PICK two : two = 2
    OBVIOUS
  <2>2. two \in 0..Len(t) /\ two + 1 = 3
    BY <1>1, <2>1
  <2>3. /\ From(t, two + 1) \in Seq(STRING) /\ Len(From(t, two + 1)) = Len(t) - two
        /\ \A i \in 1..Len(t) - two : From(t, two + 1)[i] = t[two + i]
    BY <2>2, FromIs
  <2> QED
    BY <1>8, <2>1, <2>2, <2>3
<1> DEFINE enclosed == stack # <<>> /\ Last(stack).openParentheses # 0
<1>10. a = IF enclosed THEN state ELSE [stack |-> next, rest |-> rest]
  <2>1. state.stack = stack /\ state.rest = t
    BY <1>2
  <2> QED
    BY <1>3, <1>4, <1>5, <1>6, <1>8, <2>1 DEF PushClass
<1>11. CASE enclosed
  <2>1. a.stack = stack /\ a.rest = t /\ IsDeclared(a)
    BY <1>2, <1>10, <1>11 DEF IsDeclared
  <2>2. ~Free(stack)
    <3>1. Last(stack) = stack[Len(stack)] /\ Len(stack) \in 1..Len(stack)
      BY <1>1, <1>11 DEF Last, Entries
    <3> QED
      BY <1>11, <3>1 DEF Free
  <2>3. Handed(a, t, g, 0, 0)
    <3>1. Len(stack) # d + 1 /\ g[0] = d
      BY <1>1 DEF Depths
    <3>2. Reached(t, g, 0, 0, stack)
      BY <3>1 DEF Reached
    <3> QED
      BY <1>1, <2>1, <3>2 DEF Handed
  <2> QED
    BY <2>1, <2>2, <2>3
<1>12. CASE ~enclosed
  <2>1. a.stack = next /\ a.rest = rest /\ IsDeclared(a)
    BY <1>10, <1>12 DEF IsDeclared
  <2>2. Entries(next, d) /\ Len(next) = d + 1 /\ (Free(stack) => Free(next))
    BY <1>7, <1>8, EntriesAppend
  <2>3. g[2] = d
    <3>1. \A j \in 1..2 : j = 1 \/ j = 2
      OBVIOUS
    <3>2. \A j \in 1..2 : ~LeftBrace(t[j])
      BY <1>1, <3>1
    <3> QED
      BY <1>1, <1>9, <3>2, Flat
  <2>4. Reached(t, g, 1, 2, next)
    BY <1>1, <2>2, <2>3 DEF Reached
  <2>5. Handed(a, t, g, 1, 2)
    BY <1>9, <2>1, <2>4 DEF Handed
  <2> QED
    BY <2>1, <2>2, <2>5
<1> QED
  BY <1>11, <1>12

\* No declaration at all.
LEMMA HandedCode ==
  ASSUME NEW t \in Seq(STRING), t # <<>> => t[1] \notin ClassOrNamespace /\ t[1] # "template",
         NEW stack, NEW d, Entries(stack, d), NEW g, Depths(g, d, t), NEW l, NEW lines1,
         NEW a, a = PushClass(PushNamespaces(stack, t, l), lines1, l)
  PROVE  /\ IsDeclared(a) /\ a.stack = stack
         /\ \E w \in {0, 1} : Handed(a, t, g, w, 0) /\ (w = 1 <=> Len(stack) = d + 1)
<1>1. PICK state : state = [stack |-> stack, rest |-> t]
  OBVIOUS
<1>2. PushNamespaces(stack, t, l) = state
  <2>1. t # <<>> => t[1] # "namespace"
    BY Zenon DEF ClassOrNamespace
  <2> QED
    BY <1>1, <2>1, NoNamespaces
<1>3. ClassKeyword(t) = 0
  <2>1. \A k \in 1..Len(t) : t # <<>>
    OBVIOUS
  <2>2. \A k \in 1..Len(t) : t[k] \in {"class", "struct"} => k # 1 /\ t[1] # "template"
    BY <2>1, Zenon DEF ClassOrNamespace
  <2> QED
    BY <2>2, NoClass
<1>4. a = state
  <2>1. state.rest = t
    BY <1>1
  <2> QED
    BY <1>2, <1>3, <2>1 DEF PushClass
<1>5. a.stack = stack /\ a.rest = t /\ IsDeclared(a)
  BY <1>1, <1>4 DEF IsDeclared
<1>6. PICK w \in {0, 1} : w = 1 <=> Len(stack) = d + 1
  OBVIOUS
<1>7. g[0] = d /\ Bare(t, 0)
  BY DEF Depths, Bare
<1>8. Reached(t, g, w, 0, stack)
  BY <1>6, <1>7 DEF Reached
<1>9. Handed(a, t, g, w, 0)
  <2>1. 0 \in 0..Len(t) /\ Len(t) - 0 = Len(t) /\ \A i \in 1..Len(t) : 0 + i = i
    OBVIOUS
  <2> QED
    BY <1>5, <1>8, <2>1 DEF Handed
<1> QED
  BY <1>5, <1>6, <1>9

\* What is left of a line when its declarations are on the stack.
LEMMA EntriesRest ==
  ASSUME NEW t, NEW d, NEW g, NEW w, Traced(t, d, g, w), NEW m, NEW a, IsDeclared(a),
         Handed(a, t, g, w, m), NEW lines1, NEW l, NEW log,
         NEW next, next = UpdateAccess([a EXCEPT !.stack = CheckBegin(@, t)]),
         NEW stack, stack = Tokens(next.rest, lines1, l, next.stack, log).stack
  PROVE  /\ Reached(t, g, w, Len(t), stack)
         /\ Free(a.stack) => Free(stack)
<1>1. Handed(next, t, g, w, m) /\ (Free(a.stack) => Free(next.stack))
  BY HandedOn DEF IsDeclared
<1>2. Reached(t, g, w, Len(t), stack) /\ (Free(next.stack) => Free(stack))
  BY <1>1, EntriesTokens
<1> QED
  BY <1>1, <1>2

IsHead(t) == t # <<>> /\ t[1] \in ClassOrNamespace

Paired(t) == Count(t, "(") = Count(t, ")")

PlainLine(t) ==
  /\ t # <<>> => t[1] \notin Directives /\ t[1] # "template"
  /\ IsHead(t) => DeclaresOne(t)

LineAt(t, lines1, l, n) ==
  /\ n \in Nat /\ DOMAIN lines1 = 0..n /\ l \in 0..n
  /\ t \in Seq(STRING) /\ t = lines1[l].elided /\ PlainLine(t)

\* An entry that waits for its brace gets it first.
BraceFirst(stack, d, t) == Len(stack) = d + 1 => t # <<>> /\ LeftBrace(t[1])

\* A line: the stack follows the braces, with one entry more behind a head that
\* waits for its own.
LEMMA UpdateEntries ==
  ASSUME NEW n, NEW lines1, NEW l, NEW t, LineAt(t, lines1, l, n),
         NEW state, NEW d, Entries(state.stack, d), BraceFirst(state.stack, d, t),
         NEW e, e = BracesAfter(d, t), NEW log,
         NEW stack, stack = Update(state, log, lines1, l).nesting.stack
  PROVE  /\ Entries(stack, e)
         /\ Len(stack) = e + 1 => IsHead(t) /\ Bare(t, Len(t))
         /\ Free(state.stack) /\ Paired(t) =>
              Free(stack) /\ (IsHead(t) /\ Bare(t, Len(t)) => Len(stack) = e + 1)
<1>1. /\ n \in Nat /\ DOMAIN lines1 = 0..n /\ l \in 0..n /\ l \in Nat
      /\ t \in Seq(STRING) /\ t = lines1[l].elided /\ PlainLine(t)
  BY DEF LineAt
<1>2. PICK before : before = state.stack
  OBVIOUS
<1>3. PICK counted : counted = CountParentheses(before, t)
  OBVIOUS
<1>4. PICK a : a = PushClass(PushNamespaces(counted, t, l), lines1, l)
  OBVIOUS
<1>5. PICK next : next = UpdateAccess([a EXCEPT !.stack = CheckBegin(@, t)])
  OBVIOUS
<1>6. stack = Tokens(next.rest, lines1, l, next.stack, log).stack
  <2>1. UpdatePreprocessor(state, t) = state
    BY <1>1, Zenon DEF UpdatePreprocessor, PlainLine, Directives, PpIf, PpElse
  <2>2. Accessed(before, t, lines1, l) = next
    BY <1>3, <1>4, <1>5 DEF Accessed
  <2> QED
    BY <1>1, <1>2, <2>1, <2>2, UpdateIs
<1>7. /\ Entries(before, d) /\ Entries(counted, d) /\ Len(counted) = Len(before)
      /\ Len(before) = d + 1 => t # <<>> /\ LeftBrace(t[1])
      /\ Free(before) /\ Paired(t) => Free(counted)
  <2>1. Entries(before, d) /\ (Len(before) = d + 1 => t # <<>> /\ LeftBrace(t[1]))
    BY <1>2 DEF BraceFirst
  <2>2. /\ Entries(counted, d) /\ Len(counted) = Len(before)
        /\ Free(before) /\ Count(t, "(") = Count(t, ")") => Free(counted)
    BY <1>1, <1>3, <2>1, EntriesParentheses
  <2> QED
    BY <2>1, <2>2, Zenon DEF Paired
<1>8. PICK g : Depths(g, d, t) /\ g[Len(t)] = e
  BY <1>1, DepthsExist
<1>9. CASE ~IsHead(t)
  <2>1. t # <<>> => t[1] \notin ClassOrNamespace /\ t[1] # "template"
    BY <1>1, <1>9 DEF IsHead, PlainLine
  <2>2. IsDeclared(a) /\ a.stack = counted
        /\ \E w \in {0, 1} : Handed(a, t, g, w, 0) /\ (w = 1 <=> Len(counted) = d + 1)
    BY <1>1, <1>4, <1>7, <1>8, <2>1, HandedCode
  <2>3. PICK w \in {0, 1}, m \in 0..Len(t) : Handed(a, t, g, w, m) /\ (w = 1 <=> Len(counted) = d + 1)
    BY <2>2
  <2>4. w = 1 => 1 \in 1..Len(t) /\ LeftBrace(t[1])
    BY <1>1, <1>2, <1>7, <2>3
  <2>5. w = 1 => Guarded(t)
    <3>1. \A j \in 1..Len(t) : j # 1 => 1 \in 1..j - 1
      BY <1>1
    <3> QED
      BY <2>4, <3>1, TokensDiffer DEF Guarded
  <2>6. Reached(t, g, w, Len(t), stack) /\ (Free(counted) => Free(stack))
    <3>1. Traced(t, d, g, w)
      BY <1>1, <1>8, <2>5 DEF Traced
    <3> QED
      BY <1>5, <1>6, <2>2, <2>3, <3>1, EntriesRest
  <2>7. ~(w = 1 /\ Bare(t, Len(t)))
    BY <2>4 DEF Bare
  <2>8. Entries(stack, e) /\ Len(stack) # e + 1
    BY <1>8, <2>6, <2>7 DEF Reached
  <2> QED
    BY <1>2, <1>7, <1>9, <2>6, <2>8
<1>10. CASE IsHead(t)
  <2>1. t # <<>> /\ t[1] \in ClassOrNamespace /\ DeclaresOne(t)
    BY <1>1, <1>10 DEF IsHead, PlainLine
  <2>2. Guarded(t) /\ ~LeftBrace(t[1])
    BY <1>1, <2>1, DeclaresOneIs
  <2>3. Len(counted) = d
    BY <1>2, <1>7, <2>2 DEF Entries
  <2>4. /\ IsDeclared(a)
        /\ \E w \in {0, 1}, m \in 0..Len(t) :
             Handed(a, t, g, w, m) /\ (Free(counted) => w = 1 /\ Free(a.stack))
    <3>1. CASE t[1] = "namespace"
      <4>1. /\ IsDeclared(a) /\ (\E m \in 0..Len(t) : Handed(a, t, g, 1, m))
            /\ Free(counted) => Free(a.stack)
        BY <1>1, <1>4, <1>7, <1>8, <2>1, <2>3, <3>1, HandedNamespace
      <4> QED
        BY <4>1
    <3>2. CASE t[1] \in {"class", "struct"}
      BY <1>1, <1>4, <1>7, <1>8, <2>1, <2>3, <3>2, HandedClass
    <3>3. t[1] = "namespace" \/ t[1] \in {"class", "struct"}
      BY <2>1, Zenon DEF ClassOrNamespace
    <3> QED
      BY <3>1, <3>2, <3>3
  <2>5. PICK w \in {0, 1}, m \in 0..Len(t) :
          Handed(a, t, g, w, m) /\ (Free(counted) => w = 1 /\ Free(a.stack))
    BY <2>4
  <2>6. Reached(t, g, w, Len(t), stack) /\ (Free(a.stack) => Free(stack))
    <3>1. Traced(t, d, g, w)
      BY <1>1, <1>8, <2>2 DEF Traced
    <3> QED
      BY <1>5, <1>6, <2>4, <2>5, <3>1, EntriesRest
  <2>7. Entries(stack, e) /\ (Len(stack) = e + 1 <=> w = 1 /\ Bare(t, Len(t)))
    BY <1>8, <2>6 DEF Reached
  <2> QED
    BY <1>2, <1>7, <1>10, <2>5, <2>6, <2>7
<1> QED
  BY <1>9, <1>10

\* A head that waits for its brace.
LEMMA UnfinishedIs ==
  ASSUME NEW i, NEW t, t = Elided(i)
  PROVE  Unfinished(i) <=> IsHead(t) /\ Bare(t, Len(t))
BY Zenon DEF Unfinished, Starts, Mentions, IsHead, Bare, LeftBrace, Semi

NoConditions == \A i \in DOMAIN lines : ~Starts(i, Directives)

\* What OneEntryPerBrace leads to, of all the entries: if a head waits for its
\* brace anywhere, there is no parenthesis that could have kept it from the stack.
EntriesAt(stack, d, l) ==
  /\ Entries(stack, d)
  /\ Len(stack) = d + 1 <=> l > 0 /\ Unfinished(l - 1)
  /\ (\E i \in DOMAIN lines : Unfinished(i)) => Free(stack)

EntriesJudged ==
  pc = "lines" /\ PlainDeclarations /\ NoConditions =>
    EntriesAt(nesting.stack, OpenBracesIn(lines)[linenum], linenum)

LEMMA EntriesStart ==
  ASSUME Inv, BeginFile
  PROVE  EntriesJudged'
<1>1. linenum' = 0 /\ nesting'.stack = <<>>
  BY DEF BeginFile, NestingState
<1>2. PICK c : c = lines'
  OBVIOUS
<1>3. PICK n \in Nat : NumLines(c) = n
  <2>1. Inv' /\ pc' = "lines"
    BY BeginInv DEF BeginFile
  <2>2. file' \in SourceFile /\ RankedFile(file)' /\ lines' = LinesOf(file')
    BY <2>1 DEF Inv, TypeOK
  <2>3. RankedFile(file')
    BY <2>2 DEF RankedFile
  <2>4. Len(file'.lines) + 1 \in Nat \ {0} /\ DOMAIN lines' = 0..Len(file'.lines) + 1
    BY <2>2, <2>3, LinesOfType
  <2>5. PICK m \in Nat : m = Len(file'.lines) + 1
    BY <2>4
  <2>6. NumLines(c) = m + 1
    BY <1>2, <2>4, <2>5, NumLinesOf
  <2> QED
    BY <2>6
<1>4. OpenBracesIn(c)[0] = 0
  <2>1. OpenBracesIn(c)[0] = DepthStep(c, OpenBracesIn(c), 0)
    BY <1>3, OpenBracesIs
  <2> QED
    BY <2>1 DEF DepthStep
<1>5. Entries(<<>>, 0) /\ Free(<<>>) /\ Len(<<>>) # 0 + 1
  BY DEF Entries, Free
<1>6. OpenBracesIn(lines')[linenum'] = 0
  BY <1>1, <1>2, <1>4
<1>7. EntriesAt(nesting.stack, OpenBracesIn(lines)[linenum], linenum)'
  BY <1>1, <1>5, <1>6 DEF EntriesAt
<1> QED
  BY <1>7 DEF EntriesJudged

LEMMA EntriesProcess ==
  ASSUME Inv, EntriesJudged, ProcessLine
  PROVE  EntriesJudged'
<1>1. lines' = lines /\ pc = "lines" /\ linenum < NumLines(lines)
  BY DEF ProcessLine
<1>2. /\ PlainDeclarations' = PlainDeclarations /\ NoConditions' = NoConditions
      /\ \A i : Unfinished(i)' = Unfinished(i)
  BY <1>1 DEF PlainDeclarations, NoConditions, Unfinished, Starts, Elided
<1> DEFINE m == linenum
           n == Len(file.lines) + 1
           t == lines[m].elided
           before == nesting.stack
           after == nesting'.stack
           d == OpenBracesIn(lines)[m]
           e == OpenBracesIn(lines)[m + 1]
           somewhere == \E i \in DOMAIN lines : Unfinished(i)
<1> SUFFICES ASSUME pc' = "lines", PlainDeclarations, NoConditions
             PROVE  /\ linenum' = m + 1 /\ Entries(after, e)
                    /\ Len(after) = e + 1 <=> Unfinished(m)
                    /\ somewhere => Free(after)
  <2>1. linenum' = m + 1 => linenum' > 0 /\ linenum' - 1 = m
    BY DEF Inv, TypeOK
  <2>2. OpenBracesIn(lines)' = OpenBracesIn(lines)
    BY <1>1
  <2>3. somewhere' = somewhere
    BY <1>1, <1>2
  <2> QED
    BY <1>1, <1>2, <2>1, <2>2, <2>3 DEF EntriesJudged, EntriesAt
<1>3. /\ Entries(before, d)
      /\ Len(before) = d + 1 <=> m > 0 /\ Unfinished(m - 1)
      /\ somewhere => Free(before)
  BY <1>1 DEF EntriesJudged, EntriesAt
<1>4. n \in Nat /\ lines \in [0..n -> CleanLine] /\ NumLines(lines) = n + 1 /\ m \in 0..n
  <2>1. n \in Nat \ {0} /\ lines \in [0..n -> CleanLine] /\ NumLines(lines) = n + 1
    BY <1>1, FileAtHand
  <2> QED
    BY <1>1, <2>1 DEF Inv, TypeOK
<1> HIDE DEF n
<1>5. linenum' = m + 1
  BY DEF ProcessLine, CheckLine
<1>6. PICK noted : after = Update(nesting, noted, lines, m).nesting.stack
  BY DEF ProcessLine
<1>7. DOMAIN lines = 0..n /\ t = Elided(m) /\ t \in Seq(STRING) /\ m \in DOMAIN lines
  BY <1>4 DEF Elided, CleanLine
<1>8. e = BracesAfter(d, t)
  <2>1. m + 1 \in 0..n + 1 /\ m + 1 # 0 /\ (m + 1) - 1 = m /\ n + 1 \in Nat
    BY <1>4
  <2>2. e = DepthStep(lines, OpenBracesIn(lines), m + 1)
    BY <1>4, <2>1, OpenBracesIs
  <2> QED
    BY <2>1, <2>2 DEF DepthStep
<1>9. PlainLine(t)
  <2>1. ~Starts(m, Directives) /\ ~Starts(m, {"template"})
    BY <1>7 DEF NoConditions, PlainDeclarations
  <2>2. Starts(m, ClassOrNamespace) => DeclaresOne(t)
    BY <1>7 DEF PlainDeclarations
  <2> QED
    BY <1>7, <2>1, <2>2, Zenon DEF PlainLine, IsHead, Starts
<1>10. Len(before) = d + 1 => t # <<>> /\ LeftBrace(t[1])
  <2> SUFFICES ASSUME Len(before) = d + 1 PROVE t # <<>> /\ LeftBrace(t[1])
    OBVIOUS
  <2>1. m > 0 /\ Unfinished(m - 1)
    BY <1>3
  <2>2. PICK l : l = m - 1
    OBVIOUS
  <2>3. l \in DOMAIN lines /\ l + 1 = m /\ l + 1 < NumLines(lines)
    BY <1>4, <1>7, <2>1, <2>2
  <2>4. Starts(l + 1, {"{"})
    BY <2>1, <2>2, <2>3 DEF PlainDeclarations
  <2> QED
    BY <1>7, <2>3, <2>4, Zenon DEF Starts, LeftBrace
<1>11. somewhere => Paired(t)
  BY <1>7, Zenon DEF PlainDeclarations, Paired
<1>12. Unfinished(m) <=> IsHead(t) /\ Bare(t, Len(t))
  BY <1>7, UnfinishedIs
<1>13. Unfinished(m) => somewhere
  BY <1>7
<1>14. PICK c, l, u, state, depth, next, stack :
         /\ c = lines /\ l = m /\ u = t
         /\ state = nesting /\ depth = d /\ next = e /\ stack = after
  OBVIOUS
<1>15. /\ Entries(stack, next)
       /\ Len(stack) = next + 1 => IsHead(u) /\ Bare(u, Len(u))
       /\ Free(state.stack) /\ Paired(u) =>
            Free(stack) /\ (IsHead(u) /\ Bare(u, Len(u)) => Len(stack) = next + 1)
  <2>1. LineAt(u, c, l, n)
    BY <1>4, <1>7, <1>9, <1>14 DEF LineAt
  <2>2. Entries(state.stack, depth) /\ BraceFirst(state.stack, depth, u)
    BY <1>3, <1>10, <1>14 DEF BraceFirst
  <2>3. next = BracesAfter(depth, u) /\ stack = Update(state, noted, c, l).nesting.stack
    BY <1>6, <1>8, <1>14
  <2> QED
    BY <1>4, <2>1, <2>2, <2>3, UpdateEntries
<1> HIDE DEF somewhere, after, before, d, e, t, m
<1> QED
  BY <1>3, <1>5, <1>11, <1>12, <1>13, <1>14, <1>15 DEF before, m

LEMMA EntriesInductive ==
  Inv /\ EntriesJudged /\ [Next]_vars => EntriesJudged'
<1> SUFFICES ASSUME Inv, EntriesJudged, [Next]_vars PROVE EntriesJudged'
  OBVIOUS
<1>1. CASE BeginFile
  BY <1>1, EntriesStart
<1>2. CASE ProcessLine
  BY <1>2, EntriesProcess
<1>3. CASE ~BeginFile /\ ~ProcessLine
  <2>1. UNCHANGED vars \/ pc' # "lines"
    BY <1>3 DEF Next, ParseArgumentsExits, ParseArguments, SkipFile, FinishFile, Finish, Exit
  <2>2. ASSUME UNCHANGED vars PROVE EntriesJudged'
    <3>1. lines' = lines /\ pc' = pc /\ nesting' = nesting /\ linenum' = linenum
      BY <2>2 DEF vars
    <3>2. /\ PlainDeclarations' = PlainDeclarations /\ NoConditions' = NoConditions
          /\ \A i : Unfinished(i)' = Unfinished(i)
      BY <3>1 DEF PlainDeclarations, NoConditions, Unfinished, Starts, Elided
    <3> QED
      BY <3>1, <3>2 DEF EntriesJudged, EntriesAt
  <2> QED
    BY <2>1, <2>2 DEF EntriesJudged
<1> QED
  BY <1>1, <1>2, <1>3

(* Every open brace has its entry, in the order they were opened, and only *)
(* the top one may wait for its brace: it does behind a head without one.  *)
THEOREM EntriesInvariant == Spec => []EntriesJudged
<1>1. Init => EntriesJudged
  BY DEF Init, EntriesJudged
<1> QED
  BY <1>1, EntriesInductive, LintInvariant, PTL DEF Spec

(* The stack has one entry for each open brace, and one for a head that    *)
(* waits for its brace: a declaration without a body leaves nothing        *)
(* behind.                                                                 *)
THEOREM LintOneEntryPerBrace == Spec => []OneEntryPerBrace
<1>1. Inv /\ EntriesJudged => OneEntryPerBrace
  <2> SUFFICES ASSUME EntriesJudged, pc = "lines", PlainDeclarations, NoConditions
               PROVE  Len(nesting.stack) =
                        OpenBraces[linenum] + IF linenum > 0 /\ Unfinished(linenum - 1) THEN 1 ELSE 0
    BY DEF OneEntryPerBrace, NoConditions
  <2>1. PICK d : d = OpenBracesIn(lines)[linenum]
    OBVIOUS
  <2>2. Entries(nesting.stack, d) /\ (Len(nesting.stack) = d + 1 <=> linenum > 0 /\ Unfinished(linenum - 1))
    BY <2>1 DEF EntriesJudged, EntriesAt
  <2>3. d \in Nat /\ Len(nesting.stack) \in {d, d + 1}
    BY <2>2 DEF Entries
  <2> QED
    BY <2>1, <2>2, <2>3, OpenBracesAre
<1> QED
  BY <1>1, EntriesInvariant, LintInvariant, PTL
===============================================================================
