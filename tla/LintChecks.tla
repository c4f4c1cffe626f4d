------------------------------- MODULE LintChecks -------------------------------
(***************************************************************************)
(* The checks of bin/cpplint.py that look at more than one line, or ask    *)
(* one of the states: copyright and header guard, function lengths,        *)
(* braces, loops, sections of a class, templates, end of the file. The     *)
(* checks that match one line against a fixed pattern are left out.        *)
(***************************************************************************)
EXTENDS LintNesting, LintIncludes

CONSTANTS
  CopyrightLines,   \* lines in which the copyright must appear: 10
  SmallClass,       \* lines of a class too small for CheckSectionSpacing: 24
  NormalTrigger,    \* _FunctionState._NORMAL_TRIGGER: 250
  TestTrigger       \* _FunctionState._TEST_TRIGGER: 400

ASSUME LintChecksAssumption ==
  /\ {CopyrightLines, SmallClass} \subseteq Nat
  /\ {NormalTrigger, TestTrigger} \subseteq Nat \ {0}

-----------------------------------------------------------------------------
(* The whole file, before its lines.                                       *)

\* CheckForCopyright
CheckForCopyright(lint, lines) ==
  ErrorIf(lint,
          \A i \in 1..NumLines(lines) - 1 :
            i <= CopyrightLines => ~Mentions(lines[i].text, {"copyright"}),
          0, "legal/copyright", 5)

\* GetHeaderGuardCPPVariable: every separator becomes an underscore.
GetHeaderGuardCPPVariable(target, root) ==
  LET path == RepositoryName(target.path)
      below == IF root # <<>> /\ IsPrefix(Append(root, "/"), path)
               THEN From(path, Len(root) + 2) ELSE path
      name == below \o <<"_", target.ext, "_">>
  IN [i \in 1..Len(name) |-> IF name[i] \in {"/", "-", "."} THEN "_" ELSE name[i]]

(* CheckForHeaderGuard: the first #ifndef and #define, and the last        *)
(* #endif. The NOLINT comments of the lines it reports on are read before. *)
CheckForHeaderGuard(lint, lines, target, root) ==
  LET cppvar == GetHeaderGuardCPPVariable(target, root)
      at(directive) == {i \in DOMAIN lines : lines[i].text # <<>> /\ lines[i].text[1] = directive}
      ifndef == {i \in at("#ifndef") : lines[i].arg # <<>>}
      define == {i \in at("#define") : lines[i].arg # <<>>}
      endif == {i \in at("#endif") : ~lines[i].indent}
      name(S) == lines[Min(S)].arg
      confidence(guard) == IF guard = Append(cppvar, "_") THEN 0 ELSE 5
      check(log, guard, i) ==
        IF guard = cppvar THEN log
        ELSE Error(ParseNolintSuppressions(log, lines[i].nolint, i), i,
                   "build/header_guard", confidence(guard))
      named == check(lint, name(ifndef), Min(ifndef))
  IN CASE ifndef = {} \/ define = {} -> Error(lint, 0, "build/header_guard", 5)
       [] OTHER ->
            IF name(define) # name(ifndef)
            THEN Error(named, 0, "build/header_guard", 5)
            ELSE IF endif = {}
            THEN Error(ParseNolintSuppressions(named, lines[0].nolint, 0), 0,
                       "build/header_guard", 5)
            ELSE check(named, lines[Max(endif)].arg, Max(endif))

-----------------------------------------------------------------------------
(* _FunctionState and CheckForFunctionLengths.                             *)

FunctionState == [inAFunction |-> FALSE, linesInFunction |-> 0, isTest |-> FALSE]

Function == [inAFunction : BOOLEAN, linesInFunction : Nat, isTest : BOOLEAN]

Begin(isTest) == [inAFunction |-> TRUE, linesInFunction |-> 0, isTest |-> isTest]

\* Mutant: lines are counted wherever they are.
CountAlways(function) == [function EXCEPT !.linesInFunction = @ + 1]

\* _FunctionState.Count
CountLine(function) ==
  IF function.inAFunction
  THEN [function EXCEPT !.linesInFunction = @ + 1]
  ELSE function

\* Check: the level is the logarithm of how often the base fits, rounded down.
CheckLength(function, lint, linenum) ==
  LET base == IF function.isTest THEN TestTrigger ELSE NormalTrigger
      times == function.linesInFunction \div base
      level == Max({l \in 0..5 : 2^l <= times} \cup {0})
  IN ErrorIf(lint, function.linesInFunction > base * 2^lint.verboseLevel, linenum,
             "readability/fn_size", level)

End(function) == [function EXCEPT !.inAFunction = FALSE]

\* The index of the ( of a function's head at the beginning of the line, or 0.
FunctionHead(line) ==
  LET t == line.text
      heads == {i \in 2..Len(t) : t[i] = "(" /\ \A j \in 1..i - 1 : t[j] \in Words}
  IN IF line.raw.indent \/ heads = {} \/ t[Min(heads) - 1] = "MACRO" THEN 0 ELSE Min(heads)

\* CheckForFunctionLengths
CheckForFunctionLengths(function, lint, lines, linenum) ==
  LET t == lines[linenum].text
      head == FunctionHead(lines[linenum])
      ends == {i \in linenum..NumLines(lines) - 1 : Mentions(lines[i].text, {";", "}", "{"})}
      declaration == Mentions(lines[Min(ends)].text, {";", "}"})
      same == [function |-> function, lint |-> lint]
  IN CASE head > 0 /\ ends = {} ->
            [same EXCEPT !.lint = Error(lint, linenum, "readability/fn_size", 5)]
       [] head > 0 /\ ends # {} ->
            IF declaration THEN same
            ELSE [same EXCEPT !.function = Begin(t[head - 1] = "TEST")]
       [] head = 0 /\ t = <<"}">> /\ ~lines[linenum].raw.indent ->
            [function |-> End(function), lint |-> CheckLength(function, lint, linenum)]
       [] head = 0 /\ t # <<>> /\ (t # <<"}">> \/ lines[linenum].raw.indent) ->
            [same EXCEPT !.function = CountLine(function)]
       [] OTHER -> same

-----------------------------------------------------------------------------
(* Braces, loops, classes, templates.                                      *)

\* A comment or string that does not end on its line.
CheckForMultilineCommentsAndStrings(lint, lines, linenum) ==
  LET t == lines[linenum].elided
      comment == ErrorIf(lint, Count(t, "/*") > Count(t, "*/"), linenum,
                         "readability/multiline_comment", 5)
  IN ErrorIf(comment, Count(t, "quote") % 2 = 1, linenum, "readability/multiline_string", 5)

\* An else with a brace on one side has none on the other.
OneSidedElse(lines, linenum) ==
  LET t == lines[linenum].elided
      opened(i) == \E j \in i + 1..Len(t) : t[j] = "{"
      bare == {i \in 2..Len(t) : t[i - 1] = "}" /\ t[i] = "else" /\ ~opened(i)}
      braced == {i \in 1..Len(t) - 1 : t[i] = "else" /\ t[i + 1] = "{"
                                       /\ \A j \in 1..i : t[j] # "}"}
      elseIf == {i \in bare : i < Len(t) /\ t[i + 1] = "if"}
      paren == {i \in 1..Len(t) : t[i] = "(" /\ i > Min(elseIf)}
      end == CloseExpression(lines, linenum, Min(paren))
  IN CASE bare = {} /\ braced = {} -> FALSE
       [] elseIf # {} ->
            /\ paren # {}
            /\ end.linenum = NumLines(lines)
                 \/ ~Mentions(From(lines[end.linenum].elided, end.pos), {"{"})
       [] OTHER -> TRUE

\* Mutant: no line is one that ends a statement.
EndsNothing(lines, i) == FALSE

EndsStatement(lines, i) == Mentions(lines[i].elided, {";"})

(* The end of CheckBraces: as long as the text begins with an indented {   *)
(* and ends with }; and the line before has no semicolon, that line is put *)
(* in front. Before the first line there is always one without: the empty  *)
(* one. `linenum` is -1 when the loop has got there, and goes on for good. *)
JoinedText(lines, linenum) ==
  LET begins(i) == lines[i].raw.indent /\ lines[i].elided # <<>> /\ lines[i].elided[1] = "{"
      last == lines[linenum].elided
      closed == \E i \in 2..Len(last) - 1 : last[i] = "}" /\ last[i + 1] = ";"
      joined[i \in 0..linenum] ==
        LET previous == GetPreviousNonBlankLine(lines, i)
        IN IF ~(closed /\ begins(i)) \/ (previous # -1 /\ EndsStatement(lines, previous))
           THEN [linenum |-> i, text |-> <<>>]
           ELSE IF previous = -1 THEN [linenum |-> -1, text |-> <<>>]
           ELSE joined[previous]
      top == joined[linenum].linenum
      text[i \in top - 1..linenum] == IF i = top - 1 THEN <<>> ELSE text[i - 1] \o lines[i].elided
  IN [linenum |-> top, text |-> IF top = -1 THEN <<>> ELSE text[linenum]]

\* CheckBraces
CheckBraces(lint, lines, linenum) ==
  LET t == lines[linenum].elided
      previous == PreviousText(lines, linenum)
      text == JoinedText(lines, linenum).text
      alone == ErrorIf(lint,
                       t = <<"{">>
                       /\ (previous = <<>> \/ (Last(previous) \notin {";", ":", "}", "{"}
                                               /\ Head(previous) \notin Directives)),
                       linenum, "whitespace/braces", 4)
      newline == ErrorIf(alone, t # <<>> /\ t[1] = "else" /\ previous = <<"}">>,
                         linenum, "whitespace/newline", 4)
      oneSided == ErrorIf(newline, OneSidedElse(lines, linenum),
                          linenum, "readability/braces", 5)
      elseLine == ErrorIf(oneSided,
                          /\ \E i \in 1..Len(t) - 1 : t[i] = "else" /\ t[i + 1] \notin {"{", "if"}
                          /\ ~\E i \in 1..Len(t) - 1 : t[i] = "else" /\ t[i + 1] = "if",
                          linenum, "whitespace/newline", 4)
      doLine == ErrorIf(elseLine, Len(t) > 1 /\ t[1] = "do" /\ t[2] # "{",
                        linenum, "whitespace/newline", 4)
  IN ErrorIf(doLine,
             /\ \E i, j \in 1..Len(text) : i < j /\ j < Len(text) /\ text[i] = "{"
                                           /\ text[j] = "}" /\ text[j + 1] = ";"
             /\ Count(text, "{") = Count(text, "}")
             /\ ~Mentions(text, {"struct", "class", "enum"})
             /\ ~\E i \in 1..Len(text) - 1 : text[i] = "=" /\ text[i + 1] = "{",
             linenum, "readability/braces", 4)

\* CheckEmptyLoopBody: reported at the line that closes the condition.
CheckEmptyLoopBody(lint, lines, linenum) ==
  LET t == lines[linenum].elided
      end == CloseExpression(lines, linenum, 2)
      rest == From(lines[end.linenum].elided, end.pos)
  IN IF Len(t) > 1 /\ t[1] \in {"for", "while"} /\ t[2] = "("
     THEN ErrorIf(lint, end.pos > 0 /\ rest # <<>> /\ Head(rest) = ";", end.linenum,
                  "whitespace/empty_loop_body", 5)
     ELSE lint

\* CheckAccess
CheckAccess(lint, lines, linenum, nesting) ==
  LET t == lines[linenum].elided
  IN ErrorIf(lint,
             /\ t # <<>> /\ t[1] = "DISALLOW"
             /\ nesting.stack # <<>> /\ Last(nesting.stack).kind = "class"
             /\ Last(nesting.stack).access # "private",
             linenum, "readability/constructors", 3)

\* CheckSectionSpacing of the innermost class.
CheckSectionSpacing(lint, lines, linenum, nesting) ==
  LET class == nesting.stack[InnermostClass(nesting)]
      t == lines[linenum].text
      previous == lines[linenum - 1].text
      heads == {i \in class.startingLinenum..linenum - 1 :
                  lines[i].text # <<>> /\ Last(lines[i].text) = "{"}
      headEnd == IF heads = {} THEN class.startingLinenum ELSE Min(heads)
  IN IF InnermostClass(nesting) = 0 THEN lint
     ELSE ErrorIf(lint,
                  /\ class.lastLine - class.startingLinenum > SmallClass
                  /\ linenum > class.startingLinenum
                  /\ Len(t) > 1 /\ t[1] \in AccessSpecifiers /\ t[2] = ":"
                  /\ previous # <<>>
                  /\ ~Mentions(previous, {"class", "struct", "backslash"})
                  /\ headEnd < linenum - 1,
                  linenum, "whitespace/blank_line", 3)

(* The part of CheckSpacing about <<, < and >: a << without spaces, a <    *)
(* without spaces that no > closes, and a > that closes none.              *)
CheckAngleBrackets(lint, lines, linenum) ==
  LET t == lines[linenum].elided
      shift == \E i \in 2..Len(t) - 2 : t[i] = "<" /\ t[i + 1] = "<"
      less == {i \in 2..Len(t) - 1 : t[i] = "<" /\ t[i - 1] # "<" /\ t[i + 1] \notin {"<", "="}}
      greater == {i \in 2..Len(t) - 1 :
                    t[i] = ">" /\ t[i - 1] # ">" /\ t[i + 1] \notin {">", "="}}
      first == ErrorIf(lint,
                       /\ less # {}
                       /\ ~FindNextMatchingAngleBracket(lines, linenum, Min(less)),
                       linenum, "whitespace/operators", 3)
  IN CASE shift -> Error(lint, linenum, "whitespace/operators", 3)
       [] ~shift /\ t # <<>> /\ t[1] = "#include" -> lint
       [] OTHER ->
            ErrorIf(first,
                    /\ greater # {}
                    /\ ~FindPreviousMatchingAngleBracket(lines, linenum, Max(greater)),
                    linenum, "whitespace/operators", 3)

(* The part of CheckSpacing about blank lines at the beginning or the end  *)
(* of a block; the exception for indented function heads is left out.      *)
CheckBlankLines(lint, lines, linenum, nesting) ==
  LET previous == IF linenum = 0 THEN <<>> ELSE lines[linenum - 1].elided
      next == IF linenum + 1 < NumLines(lines) THEN lines[linenum + 1].raw.text ELSE <<>>
      brace == Max({i \in 1..Len(previous) : previous[i] = "{"} \cup {0})
      start == ErrorIf(lint, brace > 0 /\ ~Mentions(From(previous, brace), {"}"}),
                       linenum, "whitespace/blank_line", 2)
      end == ErrorIf(start, next # <<>> /\ next[1] = "}"
                            /\ ~\E i \in 1..Len(next) - 1 : next[i] = "}" /\ next[i + 1] = "else",
                     linenum, "whitespace/blank_line", 3)
  IN IF lines[linenum].raw.text # <<>> \/ InNamespaceBody(nesting) THEN lint
     ELSE ErrorIf(end,
                  Len(previous) > 1 /\ previous[1] \in AccessSpecifiers /\ previous[2] = ":",
                  linenum, "whitespace/blank_line", 3)

\* CheckStyle, its checks that are modelled, in their order.
CheckStyle(lint, lines, linenum, nesting) ==
  LET braces == CheckBraces(lint, lines, linenum)
      loop == CheckEmptyLoopBody(braces, lines, linenum)
      access == CheckAccess(loop, lines, linenum, nesting)
      blank == CheckBlankLines(access, lines, linenum, nesting)
      angles == CheckAngleBrackets(blank, lines, linenum)
  IN CheckSectionSpacing(angles, lines, linenum, nesting)

\* CheckForNewlineAtEOF: the last line but the marker must be empty.
CheckForNewlineAtEOF(lint, lines) ==
  LET n == NumLines(lines)
  IN ErrorIf(lint, n < 3 \/ lines[n - 2].raw.text # <<>>, n - 2,
             "whitespace/ending_newline", 5)

\* CheckForUnicodeReplacementCharacters
CheckForUnicodeReplacementCharacters(lint, lines) ==
  FoldLeft(LAMBDA acc, i : ErrorIf(acc, Mentions(lines[i - 1].raw.text, {"utf8"}), i - 1,
                                   "readability/utf8", 5),
           lint, [i \in 1..NumLines(lines) |-> i])
=================================================================================
