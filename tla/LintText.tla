------------------------------- MODULE LintText -------------------------------
(***************************************************************************)
(* The text algorithms of bin/cpplint.py, the checker behind `make lint`:  *)
(* comments and strings are removed from the lines, and brackets matched.  *)
(*                                                                         *)
(* A line is a sequence of tokens: the punctuation and the keywords the    *)
(* checks tell apart; any other text is a word, or "+" for an operator.    *)
(* Spaces are left out, but for the field `indent`. A file is a function   *)
(* from line numbers, from 0 on, as the Python list is.                    *)
(***************************************************************************)
EXTENDS Integers, FiniteSets, Sequences, SequencesExt

Keywords == {"namespace", "class", "struct", "template", "public", "private",
             "protected", "asm", "else", "if", "for", "while", "do"}

\* Names a line can mention: n and m are told apart, x is any other.
Names == {"x", "n", "m", "MACRO", "TEST"}

Words == Keywords \cup Names

Directives == {"#include", "#define", "#if", "#ifdef", "#ifndef", "#else", "#elif",
               "#endif"}

AccessSpecifiers == {"public", "private", "protected"}

\* A header, as an #include line names it.
Header == [path : Seq(STRING), ext : STRING, isSystem : BOOLEAN]

(* A line of a file: its tokens, whether it is indented, the argument of   *)
(* its NOLINT comment or "no", that of its directive, the header it        *)
(* includes, and the headers that what it mentions needs.                  *)
SourceLine ==
  [text : Seq(STRING), indent : BOOLEAN, nolint : STRING, arg : Seq(STRING),
   header : Header, uses : SUBSET Seq(STRING)]

\* The literals that stand for no text and for a comment are strings.
ASSUME LiteralsAssumption == {"", "no", "//", "x"} \subseteq STRING

NumLines(lines) == Cardinality(DOMAIN lines)

Count(t, token) == Cardinality({i \in 1..Len(t) : t[i] = token})

\* The number of tokens `token` among the first i.
CountTo(t, token, i) == Cardinality({j \in 1..i : t[j] = token})

Mentions(t, tokens) == \E i \in 1..Len(t) : t[i] \in tokens

\* The tokens of t at the indices that satisfy P.
Pick(t, P(_)) ==
  FoldLeftDomain(LAMBDA acc, i : IF P(i) THEN Append(acc, t[i]) ELSE acc, <<>>, t)

From(t, i) == SubSeq(t, i, Len(t))

-----------------------------------------------------------------------------
(* Comments and strings.                                                   *)

\* Line comments begin at the first // only, and not if a string is open there.
LineCommentAt(t) ==
  LET marks == {i \in 1..Len(t) : t[i] = "//"}
  IN IF marks = {} \/ CountTo(t, "quote", Min(marks)) % 2 = 1
     THEN Len(t) + 1
     ELSE Min(marks)

\* CleanseComments: what is between the first /* and the last */ goes, too.
CleanseComments(t) ==
  LET code == SubSeq(t, 1, LineCommentAt(t) - 1)
      open == {i \in 1..Len(code) : code[i] = "/*"}
      close == {i \in 1..Len(code) : code[i] = "*/" /\ \E j \in open : j < i}
  IN IF close = {}
     THEN code
     ELSE Pick(code, LAMBDA i : i < Min(open) \/ i > Max(close))

\* CleansedLines._CollapseStrings: a string keeps its quotes only.
CollapseStrings(t) ==
  LET quotes == {i \in 1..Len(t) : t[i] = "quote"}
      inString(i) == /\ i \notin quotes
                     /\ CountTo(t, "quote", i) % 2 = 1
                     /\ \E j \in quotes : j > i
  IN IF t # <<>> /\ t[1] = "#include" THEN t ELSE Pick(t, LAMBDA i : ~inString(i))

\* CleansedLines: the line without comments, and without strings either.
CleansedLines(raw) ==
  [i \in DOMAIN raw |->
     [raw |-> raw[i],
      text |-> CleanseComments(raw[i].text),
      elided |-> CleanseComments(CollapseStrings(raw[i].text))]]

\* Mutant: a comment that ends on its line counts as one that goes on.
OpensAny(t) == t # <<>> /\ t[1] = "/*"

\* The line begins with a /* that is not closed on it.
Opens(t) ==
  t # <<>> /\ t[1] = "/*" /\ "*/" \notin {t[i] : i \in 2..Len(t)}

FindNextMultiLineCommentStart(lines, from) ==
  Min({i \in DOMAIN lines : i >= from /\ Opens(lines[i].text)} \cup {NumLines(lines)})

FindNextMultiLineCommentEnd(lines, from) ==
  Min({i \in DOMAIN lines : /\ i >= from
                            /\ lines[i].text # <<>>
                            /\ Last(lines[i].text) = "*/"}
      \cup {NumLines(lines)})

\* What is left of a line of a multi-line comment.
Dummy == [text |-> <<"//", "x">>, indent |-> FALSE, nolint |-> "no", arg |-> <<>>,
          header |-> [path |-> <<>>, ext |-> "", isSystem |-> FALSE], uses |-> {}]

(* RemoveMultiLineComments: comments are replaced one after the other; one *)
(* that is never closed is reported, and the search given up.              *)
RemoveMultiLineComments(lines) ==
  LET remove[from \in 0..NumLines(lines)] ==
        LET begin == FindNextMultiLineCommentStart(lines, from)
            end == FindNextMultiLineCommentEnd(lines, begin)
        IN CASE begin = NumLines(lines) -> [cleared |-> {}, unclosed |-> {}]
             [] begin # NumLines(lines) /\ end = NumLines(lines) ->
                  [cleared |-> {}, unclosed |-> {begin}]
             [] OTHER ->
                  LET rest == remove[end + 1]
                  IN [rest EXCEPT !.cleared = @ \cup (begin..end)]
      result == remove[0]
  IN [lines |-> [i \in DOMAIN lines |-> IF i \in result.cleared THEN Dummy ELSE lines[i]],
      unclosed |-> result.unclosed]

-----------------------------------------------------------------------------
(* Brackets.                                                               *)

Closing(token) ==
  CASE token = "(" -> ")"
    [] token = "[" -> "]"
    [] token = "{" -> "}"

\* Brackets open after the first i tokens of t, `depth` of them before `from`.
DepthAt(t, from, i, depth, start, end) ==
  depth + (CountTo(t, start, i) - CountTo(t, start, from - 1))
        - (CountTo(t, end, i) - CountTo(t, end, from - 1))

\* Mutant: any closing bracket will do.
FindFirstEndInLine(t, from, depth, start, end) ==
  LET ends == {i \in from..Len(t) : t[i] = end}
  IN IF ends = {} THEN 0 ELSE Min(ends) + 1

\* FindEndOfExpressionInLine: just after the match, 0 for the code's -1.
FindEndOfExpressionInLine(t, from, depth, start, end) ==
  LET ends == {i \in from..Len(t) :
                 t[i] = end /\ DepthAt(t, from, i, depth, start, end) = 0}
  IN IF ends = {} THEN 0 ELSE Min(ends) + 1

(* CloseExpression: where the bracket at (linenum, pos) is closed. A later *)
(* line is searched only if it closes at least as many as are open, taken  *)
(* over the whole line.                                                    *)
CloseExpression(lines, linenum, pos) ==
  LET line == lines[linenum].elided
      start == line[pos]
      end == Closing(start)
      here == FindEndOfExpressionInLine(line, pos, 0, start, end)
      tail == From(line, pos)
      numOpen[i \in linenum..NumLines(lines) - 1] ==
        IF i = linenum
        THEN Count(tail, start) - Count(tail, end)
        ELSE numOpen[i - 1] + Count(lines[i].elided, start) - Count(lines[i].elided, end)
      closed == {i \in linenum + 1..NumLines(lines) - 1 : numOpen[i] <= 0}
  IN CASE here > 0 -> [linenum |-> linenum, pos |-> here]
       [] here = 0 /\ closed = {} -> [linenum |-> NumLines(lines), pos |-> 0]
       [] OTHER ->
            [linenum |-> Min(closed),
             pos |-> FindEndOfExpressionInLine(lines[Min(closed)].elided, 1,
                                               numOpen[Min(closed) - 1], start, end)]

\* The tokens after position pos of line linenum, to the end of the file.
After(lines, linenum, pos) ==
  LET text[i \in linenum..NumLines(lines)] ==
        IF i = NumLines(lines) THEN <<>> ELSE lines[i].elided \o text[i + 1]
  IN From(text[linenum], pos + 1)

\* The tokens before position pos of line linenum, the nearest first.
Before(lines, linenum, pos) ==
  LET text[i \in -1..linenum] ==
        IF i = -1 THEN <<>>
        ELSE text[i - 1] \o IF i = linenum THEN SubSeq(lines[i].elided, 1, pos - 1)
                                           ELSE lines[i].elided
  IN Reverse(text[linenum])

\* The search goes on, and stops at no other token than these.
Searching(state, token) ==
  state.verdict = "open" /\ token \in {"<", ">", "(", ")", ",", ";", "[", "]"}

\* Mutant: parentheses inside a template's arguments are not kept.
AngleStepFlat(state, token, open, close, opening, closing) ==
  IF ~Searching(state, token) THEN state
  ELSE CASE Last(state.stack) = open /\ token = close ->
              [state EXCEPT !.stack = Front(@),
                            !.verdict = IF Len(state.stack) = 1 THEN "matched" ELSE "open"]
         [] Last(state.stack) = open /\ token = "," -> [state EXCEPT !.verdict = "matched"]
         [] Last(state.stack) = open /\ token = open -> [state EXCEPT !.stack = Append(@, token)]
         [] OTHER -> [state EXCEPT !.verdict = "unmatched"]

(* One operator on the way from an angle bracket to its match. `opening`   *)
(* are the tokens that nest deeper in the direction of the search. Inside  *)
(* ( or [ any closing bracket of the two kinds will do.                    *)
AngleStep(state, token, open, close, opening, closing) ==
  LET top == Last(state.stack)
  IN IF ~Searching(state, token) THEN state
     ELSE CASE token \in opening -> [state EXCEPT !.stack = Append(@, token)]
            [] top = open /\ token = close ->
                 [stack |-> Front(state.stack),
                  verdict |-> IF Len(state.stack) = 1 THEN "matched" ELSE "open"]
            [] top = open /\ token \notin opening \cup {close} ->
                 [state EXCEPT !.verdict = IF token = "," THEN "matched" ELSE "unmatched"]
            [] top # open /\ token \in closing -> [state EXCEPT !.stack = Front(@)]
            [] OTHER -> state

\* FindNextMatchingAngleBracket: the end of the file is taken for a match.
FindNextMatchingAngleBracket(lines, linenum, pos) ==
  FoldLeft(LAMBDA state, token :
             AngleStep(state, token, "<", ">", {"<", "(", "["}, {")", "]"}),
           [stack |-> <<"<">>, verdict |-> "open"],
           After(lines, linenum, pos)).verdict # "unmatched"

\* FindPreviousMatchingAngleBracket: the beginning of the file is none.
FindPreviousMatchingAngleBracket(lines, linenum, pos) ==
  FoldLeft(LAMBDA state, token :
             AngleStep(state, token, ">", "<", {">", ")", "]"}, {"(", "["}),
           [stack |-> <<">">>, verdict |-> "open"],
           Before(lines, linenum, pos)).verdict = "matched"

(* _GetTextInside: the position of the bracket that closes the one at pos, *)
(* 0 for None: another kind of bracket closes first, or the text ends.     *)
GetTextInside(t, pos) ==
  LET step(state, i) ==
        IF i <= pos \/ state.stack = <<>> \/ state.failed THEN state
        ELSE IF t[i] = Last(state.stack) THEN [state EXCEPT !.stack = Front(@), !.end = i]
        ELSE IF t[i] \in {")", "]", "}"} THEN [state EXCEPT !.failed = TRUE]
        ELSE IF t[i] \in {"(", "[", "{"} THEN [state EXCEPT !.stack = Append(@, Closing(t[i]))]
        ELSE state
      final == FoldLeftDomain(step, [stack |-> <<Closing(t[pos])>>, failed |-> FALSE, end |-> 0], t)
  IN IF final.failed \/ final.stack # <<>> THEN 0 ELSE final.end

\* GetPreviousNonBlankLine: -1 if there is none.
GetPreviousNonBlankLine(lines, linenum) ==
  Max({i \in 0..linenum - 1 : lines[i].elided # <<>>} \cup {-1})

\* The text of that line, empty if there is none.
PreviousText(lines, linenum) ==
  LET i == GetPreviousNonBlankLine(lines, linenum)
  IN IF i = -1 THEN <<>> ELSE lines[i].elided
===============================================================================
