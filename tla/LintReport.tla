------------------------------ MODULE LintReport ------------------------------
(***************************************************************************)
(* How bin/cpplint.py reports: the global _cpplint_state with its level,   *)
(* filters and counts, the global store of NOLINT suppressions, and Error, *)
(* which every check calls. Both are one record here, `lint`; a member     *)
(* function is an operator from record to record. What is printed is       *)
(* abstracted to the history `reports`, used by properties only.           *)
(***************************************************************************)
EXTENDS Integers, FiniteSets, Sequences, SequencesExt

Build == {"build/class", "build/header_guard", "build/include", "build/include_alpha",
          "build/include_order", "build/include_what_you_use"}
Legal == {"legal/copyright"}
Readability == {"readability/braces", "readability/constructors", "readability/fn_size",
                "readability/multiline_comment", "readability/multiline_string",
                "readability/namespace", "readability/nolint", "readability/streams",
                "readability/utf8"}
Whitespace == {"whitespace/blank_line", "whitespace/braces", "whitespace/empty_loop_body",
               "whitespace/ending_newline", "whitespace/newline", "whitespace/operators"}

\* _ERROR_CATEGORIES, those of the checks modelled.
Categories == Build \cup Legal \cup Readability \cup Whitespace

\* category.split('/')[0]
TopLevel(category) ==
  CASE category \in Build -> "build"
    [] category \in Legal -> "legal"
    [] category \in Readability -> "readability"
    [] category \in Whitespace -> "whitespace"

\* A filter is a sign and the categories that begin with its text.
Filter == [sign : {"+", "-", "none"}, covers : SUBSET Categories]

DefaultFilters == <<[sign |-> "-", covers |-> {"build/include_alpha"}]>>

\* What a check passes to Error, with the file it belongs to.
Report == [file : Nat, linenum : Nat, category : Categories, confidence : 0..5,
           printed : BOOLEAN]

CountingStyles == {"", "total", "toplevel", "detailed"}

\* What errors are counted by, with --counting.
TopLevels == {"build", "legal", "readability", "whitespace"}

LintState ==
  [verboseLevel : Nat, filters : Seq(Filter), counting : CountingStyles, errorCount : Nat,
   errorsByCategory : [Categories \cup TopLevels -> Nat],
   suppressions : SUBSET ((Categories \cup {"all"}) \X Nat),
   file : Nat, reports : Seq(Report)]

\* _CppLintState.__init__ and the empty _error_suppressions.
CppLintState ==
  [verboseLevel |-> 1, filters |-> DefaultFilters, counting |-> "total",
   errorCount |-> 0,
   errorsByCategory |-> [c \in Categories \cup TopLevels |-> 0],
   suppressions |-> {}, file |-> 0, reports |-> <<>>]

-----------------------------------------------------------------------------
(* _CppLintState.                                                          *)

\* SetFilters appends to the defaults; it raises ValueError, with the filters
\* already set, if one has no sign.
SetFilters(lint, filters) == [lint EXCEPT !.filters = DefaultFilters \o filters]

FiltersValid(lint) ==
  \A i \in 1..Len(lint.filters) : lint.filters[i].sign \in {"+", "-"}

SetVerboseLevel(lint, level) == [lint EXCEPT !.verboseLevel = level]

SetCountingStyle(lint, style) == [lint EXCEPT !.counting = style]

ResetErrorCounts(lint) ==
  [lint EXCEPT !.errorCount = 0,
               !.errorsByCategory = [c \in DOMAIN @ |-> 0]]

\* Mutant: the total is counted once for each category.
IncrementErrorCountOnce(lint, category) ==
  LET key == IF lint.counting = "detailed" THEN category ELSE TopLevel(category)
      counted == lint.counting \in {"toplevel", "detailed"}
  IN [lint EXCEPT !.errorCount = IF counted /\ lint.errorsByCategory[key] > 0 THEN @ ELSE @ + 1,
                  !.errorsByCategory[key] = IF counted THEN @ + 1 ELSE @]

IncrementErrorCount(lint, category) ==
  LET key == IF lint.counting = "detailed" THEN category ELSE TopLevel(category)
      counted == lint.counting \in {"toplevel", "detailed"}
  IN [lint EXCEPT !.errorCount = @ + 1,
                  !.errorsByCategory[key] = IF counted THEN @ + 1 ELSE @]

-----------------------------------------------------------------------------
(* Suppressions.                                                           *)

\* Mutant: the suppressions of the file before are kept.
ResetNolintSuppressionsNot(lint) == lint

ResetNolintSuppressions(lint) == [lint EXCEPT !.suppressions = {}]

IsErrorSuppressedByNolint(lint, category, linenum) ==
  {category, "all"} \X {linenum} \cap lint.suppressions # {}

\* The filters are applied from left to right: the last that matches decides.
IsFiltered(lint, category) ==
  LET matching == {i \in 1..Len(lint.filters) : category \in lint.filters[i].covers}
  IN matching # {} /\ lint.filters[Max(matching)].sign = "-"

ShouldPrintError(lint, category, confidence, linenum) ==
  /\ ~IsErrorSuppressedByNolint(lint, category, linenum)
  /\ confidence >= lint.verboseLevel
  /\ ~IsFiltered(lint, category)

\* Error: counted and printed, or not at all.
Error(lint, linenum, category, confidence) ==
  LET printed == ShouldPrintError(lint, category, confidence, linenum)
      counted == IF printed THEN IncrementErrorCount(lint, category) ELSE lint
  IN [counted EXCEPT !.reports =
        Append(@, [file |-> lint.file, linenum |-> linenum, category |-> category,
                   confidence |-> confidence, printed |-> printed])]

\* A check that reports on a condition.
ErrorIf(lint, condition, linenum, category, confidence) ==
  IF condition THEN Error(lint, linenum, category, confidence) ELSE lint

\* ParseNolintSuppressions: NOLINT and NOLINT(*) are "all".
ParseNolintSuppressions(lint, nolint, linenum) ==
  CASE nolint = "no" -> lint
    [] nolint \in Categories \cup {"all"} ->
         [lint EXCEPT !.suppressions = @ \cup {<<nolint, linenum>>}]
    [] OTHER -> Error(lint, linenum, "readability/nolint", 5)
===============================================================================
