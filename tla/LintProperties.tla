---------------------------- MODULE LintProperties ----------------------------
(***************************************************************************)
(* What bin/cpplint.py promises of the states it keeps and of what it      *)
(* reports, stated on the text of the file itself wherever that is         *)
(* possible, and on the reports made so far.                               *)
(***************************************************************************)
EXTENDS Lint

\* The reports about the file at hand, as indices into lint.reports.
Mine == {i \in 1..Len(lint.reports) : lint.reports[i].file = lint.file}

ReportedAt(category) ==
  {lint.reports[i].linenum : i \in {j \in Mine : lint.reports[j].category = category}}

AllChecked == pc = "lines" /\ linenum = NumLines(lines)

JustBegun == pc = "lines" /\ linenum = 0

\* Lines of an assembly block are not checked.
NoAsm == \A i \in DOMAIN lines : ~Mentions(lines[i].elided, {"asm"})

Elided(i) == lines[i].elided

Starts(i, tokens) == Elided(i) # <<>> /\ Elided(i)[1] \in tokens

-----------------------------------------------------------------------------
(* Reports.                                                                *)

(* The exit status and the totals agree with what was printed, whatever    *)
(* was filtered, suppressed or below the level: IncrementErrorCount is     *)
(* called once for each line that Error prints, and each is counted in one *)
(* category, if categories are counted at all.                             *)
CountsAgree ==
  LET printed == {i \in 1..Len(lint.reports) : lint.reports[i].printed}
      ofCategory(c) == {i \in printed : lint.reports[i].category = c}
      ofTop(top) == {i \in printed : TopLevel(lint.reports[i].category) = top}
  IN /\ pc \in {"files", "lines", "hung"} => lint.errorCount = Cardinality(printed)
     /\ pc = "exit" /\ lint.reports # <<>> => (status = 1 <=> printed # {})
     /\ lint.counting = "detailed" =>
          \A c \in Categories : lint.errorsByCategory[c] = Cardinality(ofCategory(c))
     /\ lint.counting = "toplevel" =>
          \A top \in TopLevels :
            lint.errorsByCategory[top] = Cardinality(ofTop(top))

(* Nothing is lost for the NOLINT comment of another line or of another    *)
(* file: a report that passes the level and the filters and yet is not     *)
(* printed is about a line of this file that asks for it. The suppressions *)
(* are a global that ProcessFileData must empty for each file.             *)
SuppressedByOwnNolint ==
  \A i \in Mine :
    LET r == lint.reports[i]
    IN /\ pc # "arguments" /\ ~r.printed
       /\ r.confidence >= lint.verboseLevel /\ ~IsFiltered(lint, r.category)
       => r.linenum \in 1..Len(file.lines)
          /\ file.lines[r.linenum].nolint \in {r.category, "all"}

(* The usage says a NOLINT comment on the line suppresses its errors. One  *)
(* that is reported from an earlier line, before the comment is read, is   *)
(* printed all the same.                                                   *)
NolintSuppresses ==
  \A i \in Mine :
    LET r == lint.reports[i]
    IN r.printed /\ r.linenum \in 1..Len(file.lines)
       => file.lines[r.linenum].nolint \notin {r.category, "all"}

-----------------------------------------------------------------------------
(* Comments and brackets.                                                  *)

\* Is a multi-line comment open after line i, reading token by token?
InComment ==
  LET scan(open, t) ==
        FoldLeft(LAMBDA s, token :
                   CASE s = "code" /\ token = "/*" -> "comment"
                     [] s = "code" /\ token = "//" -> "rest"
                     [] s = "comment" /\ token = "*/" -> "code"
                     [] OTHER -> s,
                 IF open THEN "comment" ELSE "code", t) = "comment"
      inComment[i \in -1..NumLines(lines) - 1] ==
        IF i \notin 1..Len(file.lines) THEN FALSE
        ELSE scan(inComment[i - 1], file.lines[i].text)
  IN inComment

(* RemoveMultiLineComments takes away the multi-line comments, and no      *)
(* code: where they begin and end as the function assumes, at the ends of  *)
(* lines, a line that is in no comment is kept as it is and a line of a    *)
(* comment that is closed is not. Comments are looked for by their first   *)
(* and last characters only, so a comment beside code must not take the    *)
(* code that follows it along.                                             *)
CodeSurvives ==
  LET n == Len(file.lines)
      text(i) == file.lines[i].text
      opens(i) == ~InComment[i - 1] /\ InComment[i]
      closes(i) == InComment[i - 1] /\ ~InComment[i]
      assumed == \A i \in 1..n : /\ opens(i) => text(i)[1] = "/*"
                                                /\ ~Mentions(text(i), {"*/"})
                                 /\ closes(i) <=> InComment[i - 1] /\ Mentions(text(i), {"*/"})
                                 /\ closes(i) => Last(text(i)) = "*/"
                                                 /\ Count(text(i), "*/") = 1
      unclosed == {i \in 1..n : \A j \in i..n : InComment[j]}
  IN JustBegun /\ assumed =>
       \A i \in 1..n : (lines[i].raw # file.lines[i])
                         <=> ((InComment[i - 1] \/ InComment[i])
                              /\ file.lines[i] # Dummy
                              /\ i \notin unclosed)

\* Where the bracket at (l, p) is closed, reading on over the lines: the pair
\* of line and position after the match, of the first line past the end if none.
TrueClose(l, p) ==
  LET start == Elided(l)[p]
      end == Closing(start)
      depth(i, q) ==  \* at position q of line i
        LET before[k \in l..i] ==
              IF k = l THEN 0
              ELSE before[k - 1] + LET t == IF k - 1 = l THEN From(Elided(l), p) ELSE Elided(k - 1)
                                   IN Count(t, start) - Count(t, end)
            t == IF i = l THEN SubSeq(Elided(l), p, q) ELSE SubSeq(Elided(i), 1, q)
        IN before[i] + Count(t, start) - Count(t, end)
      closing(i) == {q \in 1..Len(Elided(i)) :
                       (i = l => q > p) /\ Elided(i)[q] = end /\ depth(i, q) = 0}
      found == {i \in l..NumLines(lines) - 1 : closing(i) # {}}
  IN IF found = {} THEN [linenum |-> NumLines(lines), pos |-> 0]
     ELSE [linenum |-> Min(found), pos |-> Min(closing(Min(found))) + 1]

(* CloseExpression never stops before the bracket is closed, and finds the *)
(* place when it is on the same line; on another line it may go past the   *)
(* match only where that line opens as much again.                         *)
CloseNeverEarly ==
  JustBegun =>
    \A l \in DOMAIN lines : \A p \in 1..Len(Elided(l)) :
      Elided(l)[p] \in {"(", "{", "["} =>
        LET got == CloseExpression(lines, l, p)
            right == TrueClose(l, p)
        IN /\ got.linenum >= right.linenum
           /\ right.linenum = l => got = right
           /\ got.linenum = right.linenum => got = right
           /\ got.linenum > right.linenum
              => Mentions(From(Elided(right.linenum), right.pos), {Elided(l)[p]})

(* The two ways of finding the end of a bracket on one line agree: where   *)
(* _GetTextInside, which watches all kinds of brackets, finds one, it is   *)
(* the one FindEndOfExpressionInLine finds counting one kind only.         *)
BracketsAgree ==
  JustBegun =>
    \A l \in DOMAIN lines : \A p \in 1..Len(Elided(l)) :
      LET end == GetTextInside(Elided(l), p)
      IN Elided(l)[p] \in {"(", "{", "["} /\ end > 0
         => FindEndOfExpressionInLine(Elided(l), p, 0, Elided(l)[p], Closing(Elided(l)[p]))
              = end + 1

\* t is balanced in <>, () and [], and has no semicolon.
Balanced(t) ==
  LET step(s, token) ==
        IF s = <<"bad">> \/ token = ";" THEN <<"bad">>
        ELSE IF token = "<" THEN Append(s, ">")
        ELSE IF token \in {"(", "["} THEN Append(s, Closing(token))
        ELSE IF token \in {">", ")", "]"}
             THEN IF s # <<>> /\ Last(s) = token THEN Front(s) ELSE <<"bad">>
        ELSE s
  IN FoldLeft(step, <<>>, t) = <<>>

(* Template arguments are no comparison: on a line whose brackets all      *)
(* match, every < and every > of it finds the other, however parentheses   *)
(* and templates are nested, and CheckSpacing has nothing to say.          *)
TemplatesAccepted ==
  JustBegun =>
    \A l \in DOMAIN lines : Balanced(Elided(l)) =>
      \A p \in 1..Len(Elided(l)) :
        /\ Elided(l)[p] = "<" => FindNextMatchingAngleBracket(lines, l, p)
        /\ Elided(l)[p] = ">" => FindPreviousMatchingAngleBracket(lines, l, p)

-----------------------------------------------------------------------------
(* Nesting.                                                                *)

\* The preprocessor conditions open before each line, each in its first branch or,
\* from its first #else or #elif on, in a later one.
Conditions ==
  LET open[i \in 0..NumLines(lines)] ==
        IF i = 0 THEN <<>>
        ELSE LET before == open[i - 1]
             IN CASE Starts(i - 1, PpIf) -> Append(before, "first")
                  [] Starts(i - 1, PpElse) /\ before # <<>> -> SetTop(before, "later")
                  [] Starts(i - 1, {"#endif"}) /\ before # <<>> -> Front(before)
                  [] OTHER -> before
  IN open

\* Line i is compiled if every condition is taken in its first branch.
Live(i) == \A k \in 1..Len(Conditions[i]) : Conditions[i][k] = "first"

\* The nesting before each line if there were no directives and no line but those
\* that are live.
FirstBranches ==
  LET alone[i \in 0..NumLines(lines)] ==
        IF i = 0 THEN [nesting |-> NestingState, lint |-> CppLintState]
        ELSE IF Live(i - 1) /\ ~Starts(i - 1, Directives)
             THEN Update(alone[i - 1].nesting, alone[i - 1].lint, lines, i - 1)
             ELSE alone[i - 1]
  IN alone

\* Directives are lines of the file to Update, which counts their parentheses and
\* takes their braces, semicolons and colons for code.
PlainDirectives ==
  \A i \in DOMAIN lines :
    Starts(i, Directives) => ~Mentions(Elided(i), {"(", ")", "{", "}", ";", ":"})

(* Code behind #else and #elif does not affect the nesting stack once the  *)
(* #endif is reached, as UpdatePreprocessor promises: the stack is the one *)
(* that the first branches alone lead to, however conditions are nested    *)
(* and whatever the other branches open or close. Stated of files whose    *)
(* directives do nothing else, and without assembly blocks, where every    *)
(* line counts as one of the statement.                                    *)
FirstBranchNesting ==
  pc = "lines" /\ NoAsm /\ PlainDirectives /\ Live(linenum)
  => nesting.stack = FirstBranches[linenum].nesting.stack

\* The braces open behind the tokens t, none closed that was not open.
BracesAfter(before, t) ==
  LET step(depth, token) == CASE token = "{" -> depth + 1
                              [] token = "}" /\ depth > 0 -> depth - 1
                              [] OTHER -> depth
  IN FoldLeft(step, before, t)

\* The braces open before each line.
OpenBraces ==
  LET depth[i \in 0..NumLines(lines)] ==
        IF i = 0 THEN 0 ELSE BracesAfter(depth[i - 1], Elided(i - 1))
  IN depth

ClassOrNamespace == {"class", "struct", "namespace"}

\* A class or namespace is declared on the line without its brace.
Unfinished(i) == Starts(i, ClassOrNamespace) /\ ~Mentions(Elided(i), {"{", ";"})

\* The first token declares what the second names, and nothing else on the line
\* is declared, or closed before a brace is opened.
DeclaresOne(t) ==
  /\ Len(t) >= 2 /\ t[2] \in Names
  /\ ~Mentions(Tail(t), ClassOrNamespace \cup {"=", ">"})
  /\ \A j \in 1..Len(t) : t[j] \in {")", "}"} => \E k \in 1..j - 1 : t[k] = "{"

\* Declarations begin their line, and one that waits for its brace is followed by
\* it, and not enclosed in parentheses.
PlainDeclarations ==
  \A i \in DOMAIN lines :
    /\ ~Starts(i, {"template"})
    /\ Starts(i, ClassOrNamespace) => DeclaresOne(Elided(i))
    /\ Unfinished(i) =>
         /\ i + 1 < NumLines(lines) => Starts(i + 1, {"{"})
         /\ \A j \in DOMAIN lines : Count(Elided(j), "(") = Count(Elided(j), ")")

(* The stack has one entry for each open brace, and one for a head that    *)
(* waits for its brace: a declaration without a body leaves nothing        *)
(* behind. Stated of files without conditions whose declarations are plain *)
(* ones.                                                                   *)
OneEntryPerBrace ==
  pc = "lines" /\ PlainDeclarations /\ (\A i \in DOMAIN lines : ~Starts(i, Directives)) =>
    Len(nesting.stack) =
      OpenBraces[linenum] + IF linenum > 0 /\ Unfinished(linenum - 1) THEN 1 ELSE 0

(* CheckBraces comes to an end, unless the text it puts together reaches   *)
(* back to the first line of code: all of it is indented blocks, one       *)
(* inside the other, and no statement is before the line checked.          *)
HangsOnlyFromTheTop ==
  LET code == {i \in 0..linenum : Elided(i) # <<>>}
  IN pc = "hung" =>
       /\ \A i \in code : Starts(i, {"{"}) /\ lines[i].raw.indent
       /\ \A i \in code : Mentions(Elided(i), {";"}) => i = linenum

-----------------------------------------------------------------------------
(* Functions.                                                              *)

\* Lines that begin a function with a body, and lines that end one.
Heads == {i \in 0..linenum - 1 :
            LET ends == {j \in i..NumLines(lines) - 1 : Mentions(lines[j].text, {";", "}", "{"})}
            IN /\ FunctionHead(lines[i]) > 0 /\ ends # {}
               /\ ~Mentions(lines[Min(ends)].text, {";", "}"})}

Ends == {i \in DOMAIN lines : lines[i].text = <<"}">> /\ ~lines[i].raw.indent}

BodyLines(head) ==
  {i \in head + 1..Min({j \in Ends : j > head} \cup {NumLines(lines)}) - 1 :
     lines[i].text # <<>> /\ FunctionHead(lines[i]) = 0}

(* A function said to be too long is: the last one begun has more lines of *)
(* code than the level allows, blank lines, comments and what follows its  *)
(* end not counted.                                                        *)
LongFunctionsOnly ==
  pc = "lines" /\ NoAsm =>
    \A l \in ReportedAt("readability/fn_size") \cap Ends :
      LET begun == {h \in Heads : h < l}
          head == Max(begun)
          base == IF lines[head].text[FunctionHead(lines[head]) - 1] = "TEST"
                  THEN TestTrigger ELSE NormalTrigger
      IN /\ begun # {}
         /\ Cardinality(BodyLines(head)) > base * 2^lint.verboseLevel

-----------------------------------------------------------------------------
(* Includes.                                                               *)

IncludeLines == {i \in DOMAIN lines : Starts(i, {"#include"})}

Include(i) == lines[i].raw.header

NameAt(i) == <<Include(i).path, Include(i).ext>>

\* The lines that include a header for the first time.
FirstIncludes == {i \in IncludeLines : ~\E j \in IncludeLines : j < i /\ NameAt(j) = NameAt(i)}

\* The section a header belongs in: a header that could be the file's own does
\* so only if no other kind is before it.
SectionOf(i) ==
  LET type(j) == ClassifyInclude(file, Include(j))
      mine == {"likely_my", "possible_my"}
  IN CASE type(i) = "c_sys" -> CSection
       [] type(i) = "cpp_sys" -> CppSection
       [] type(i) = "other" -> OtherH
       [] OTHER -> IF \A j \in FirstIncludes : j < i => type(j) \in mine THEN MyH ELSE OtherH

Misplaced(i) == \E j \in FirstIncludes : j < i /\ SectionOf(j) > SectionOf(i)

(* The order of sections is judged right: the include_order reports are    *)
(* those of the headers that come, for the first time, after one of a      *)
(* later section. _IncludeState keeps only the section reached.            *)
OrderErrorsExact ==
  AllChecked /\ NoAsm =>
    ReportedAt("build/include_order") = {i \in FirstIncludes : Misplaced(i)}

\* A misplaced header, or the first of its section, begins a new alphabet.
BeginsAlphabet(i) ==
  Misplaced(i) \/ \A j \in FirstIncludes : j < i => SectionOf(j) < SectionOf(i)

(* The alphabet is judged right: the include_alpha reports are those of    *)
(* headers that an earlier header of the same stretch should follow, also  *)
(* if another one out of order stands between the two.                     *)
AlphabetErrorsExact ==
  LET rank(i) == Rank[Canonical(Include(i))]
  IN AllChecked /\ NoAsm =>
       ReportedAt("build/include_alpha") =
         {i \in FirstIncludes :
            \E j \in FirstIncludes :
              /\ j < i /\ rank(j) > rank(i)
              /\ \A k \in FirstIncludes : j < k /\ k <= i => ~BeginsAlphabet(k)}

\* The headers of its own name that the file includes and that can be opened.
Opened ==
  {FullPath(file, NameAt(i)) : i \in {j \in FirstIncludes :
     FilesBelongToSameModule(file, NameAt(j)) /\ FullPath(file, NameAt(j)) \in DOMAIN Contents}}

\* What the file includes, itself or through such a header.
IncludedNames == {NameAt(i) : i \in FirstIncludes} \cup UNION {Contents[full] : full \in Opened}

\* The standard headers that the code of line i uses: a preprocessor line at the
\* left margin uses none.
UsesAt(i) ==
  IF Elided(i) = <<>> \/ (Starts(i, Directives) /\ ~lines[i].raw.indent) THEN {}
  ELSE lines[i].raw.uses \cap CppHeaders

(* A standard header is asked for exactly if it is used and included       *)
(* neither by the file nor by its own header; nothing is asked of a .cc    *)
(* file whose own header was not found. Reported at its last use.          *)
MissingExact ==
  pc = "files" /\ lint.file > 0 /\ NoAsm =>
    ReportedAt("build/include_what_you_use") =
      {i \in DOMAIN lines :
         /\ (file.ext = "cc" => Opened # {})
         /\ \E h \in UsesAt(i) : /\ <<h, "">> \notin IncludedNames
                               /\ \A j \in DOMAIN lines : j > i => h \notin UsesAt(j)}
==============================================================================
