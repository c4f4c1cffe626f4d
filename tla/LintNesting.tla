------------------------------ MODULE LintNesting ------------------------------
(***************************************************************************)
(* _NestingState of bin/cpplint.py: the stack of open blocks, which the    *)
(* checks ask where they are, and the stack of open #if with the           *)
(* checkpoints that make it follow the first branch of each. Operators go  *)
(* from nesting state to nesting state; `lint` comes along where a check   *)
(* at the end of a block may report.                                       *)
(***************************************************************************)
EXTENDS LintText, LintReport

CONSTANT SmallNamespace  \* lines of a namespace that needs no end comment: 10

ASSUME SmallNamespaceAssumption == SmallNamespace \in Nat

AsmStates == {"no", "inside", "end", "block"}

\* _BlockInfo.__init__, with the members of the two derived classes.
BlockInfo(seenOpenBrace) ==
  [kind |-> "block", name |-> "", seenOpenBrace |-> seenOpenBrace,
   openParentheses |-> 0, inlineAsm |-> "no",
   startingLinenum |-> 0, lastLine |-> 0, access |-> "", isDerived |-> FALSE]

NamespaceInfo(name, linenum) ==
  [BlockInfo(FALSE) EXCEPT !.kind = "namespace", !.name = name,
                           !.startingLinenum = linenum]

(* _ClassInfo.__init__. The last line is the first on which the braces     *)
(* counted since the head balance, the head's own line included.           *)
ClassInfo(name, classOrStruct, lines, linenum) ==
  LET depth[i \in linenum - 1..NumLines(lines) - 1] ==
        IF i = linenum - 1 THEN 0
        ELSE depth[i - 1] + Count(lines[i].elided, "{") - Count(lines[i].elided, "}")
      balanced == {i \in linenum..NumLines(lines) - 1 : depth[i] = 0}
  IN [BlockInfo(FALSE) EXCEPT
        !.kind = "class", !.name = name, !.startingLinenum = linenum,
        !.access = IF classOrStruct = "struct" THEN "public" ELSE "private",
        !.lastLine = IF balanced = {} THEN 0 ELSE Min(balanced)]

Block == [kind : {"block", "namespace", "class"}, name : Names \cup {""},
          seenOpenBrace : BOOLEAN, openParentheses : Int, inlineAsm : AsmStates,
          startingLinenum : Nat, lastLine : Nat, access : AccessSpecifiers \cup {""},
          isDerived : BOOLEAN]

Condition == [stackBeforeIf : Seq(Block), stackBeforeElse : Seq(Block), seenElse : BOOLEAN]

Nesting == [stack : Seq(Block), ppStack : Seq(Condition)]

NestingState == [stack |-> <<>>, ppStack |-> <<>>]

SeenOpenBrace(stack) == stack = <<>> \/ Last(stack).seenOpenBrace

InNamespaceBody(nesting) ==
  nesting.stack # <<>> /\ Last(nesting.stack).kind = "namespace"

\* InnermostClass, as an index into the stack, 0 for None.
InnermostClass(nesting) ==
  Max({i \in 1..Len(nesting.stack) : nesting.stack[i].kind = "class"} \cup {0})

InlineAsm(nesting) ==
  nesting.stack # <<>> /\ Last(nesting.stack).inlineAsm # "no"

SetTop(stack, block) == Append(Front(stack), block)

-----------------------------------------------------------------------------
(* Preprocessor branches.                                                  *)

PpIf == {"#if", "#ifdef", "#ifndef"}
PpElse == {"#else", "#elif"}

PreprocessorInfo(stack) ==
  [stackBeforeIf |-> stack, stackBeforeElse |-> <<>>, seenElse |-> FALSE]

\* Mutant: every #else and #elif replaces what the #endif will restore.
UpdatePreprocessorLatest(nesting, t) ==
  LET pp == nesting.ppStack
      top == Last(pp)
  IN CASE t # <<>> /\ t[1] \in PpIf ->
            [nesting EXCEPT !.ppStack = Append(@, PreprocessorInfo(nesting.stack))]
       [] t # <<>> /\ t[1] \in PpElse /\ pp # <<>> ->
            [stack |-> top.stackBeforeIf,
             ppStack |-> SetTop(pp, [top EXCEPT !.seenElse = TRUE,
                                                !.stackBeforeElse = nesting.stack])]
       [] t # <<>> /\ t[1] = "#endif" /\ pp # <<>> ->
            [stack |-> IF top.seenElse THEN top.stackBeforeElse ELSE nesting.stack,
             ppStack |-> Front(pp)]
       [] OTHER -> nesting

(* UpdatePreprocessor: the stack is saved at #if, restored at each #else   *)
(* and #elif, and set at #endif to what it was at the first of those.      *)
UpdatePreprocessor(nesting, t) ==
  LET pp == nesting.ppStack
      top == Last(pp)
  IN CASE t # <<>> /\ t[1] \in PpIf ->
            [nesting EXCEPT !.ppStack = Append(@, PreprocessorInfo(nesting.stack))]
       [] t # <<>> /\ t[1] \in PpElse /\ pp # <<>> ->
            [stack |-> top.stackBeforeIf,
             ppStack |-> IF top.seenElse
                         THEN pp
                         ELSE SetTop(pp, [top EXCEPT !.seenElse = TRUE,
                                                     !.stackBeforeElse = nesting.stack])]
       [] t # <<>> /\ t[1] = "#endif" /\ pp # <<>> ->
            [stack |-> IF top.seenElse THEN top.stackBeforeElse ELSE nesting.stack,
             ppStack |-> Front(pp)]
       [] OTHER -> nesting

-----------------------------------------------------------------------------
(* One line.                                                               *)

\* _MATCH_ASM: the line is the head of an assembly block.
MatchAsm(t) == Len(t) >= 2 /\ t[1] = "asm" /\ t[2] \in {"{", "("}

\* Parentheses are counted, and an asm statement watched, in the innermost
\* block as it is before the line.
CountParentheses(stack, t) ==
  LET change == Count(t, "(") - Count(t, ")")
      top == Last(stack)
      open == top.openParentheses + change
      asm == CASE top.inlineAsm \in {"no", "end"} ->
                    IF change # 0 /\ open = 1 /\ MatchAsm(t) THEN "inside" ELSE "no"
               [] top.inlineAsm = "inside" /\ open = 0 -> "end"
               [] OTHER -> top.inlineAsm
  IN IF stack = <<>>
     THEN stack
     ELSE SetTop(stack, [top EXCEPT !.openParentheses = open, !.inlineAsm = asm])

\* The namespaces declared at the beginning of the line, one after the other.
PushNamespaces(stack, t, linenum) ==
  LET consume[n \in 0..Len(t)] ==
        IF n = 0 THEN [stack |-> stack, rest |-> t]
        ELSE LET before == consume[n - 1]
                 name == IF Len(before.rest) >= 2 /\ before.rest[2] \in Names
                         THEN before.rest[2] ELSE ""
                 left == From(before.rest, IF name = "" THEN 2 ELSE 3)
                 braces == {i \in 1..Len(left) : left[i] = "{"}
             IN IF before.rest = <<>> \/ Head(before.rest) # "namespace"
                THEN before
                ELSE [stack |-> Append(before.stack,
                                       [NamespaceInfo(name, linenum)
                                          EXCEPT !.seenOpenBrace = braces # {}]),
                      rest |-> IF braces = {} THEN left ELSE From(left, Min(braces) + 1)]
  IN consume[Len(t)]

(* A class declared at the beginning of what is left: the index of the     *)
(* keyword, or 0. A template head may come first; an = or a > behind the   *)
(* name is allowed only between a < and the next >.                        *)
ClassKeyword(t) ==
  LET headEnd(k) == /\ k > 1 /\ t[1] = "template" /\ t[2] = "<" /\ t[k] = ">"
                    /\ \A i \in 3..k : t[i] \in Words \cup {"<", ">", ",", ":"}
      enclosed(i) == \E a \in 1..i - 1, b \in i..Len(t) :
                       /\ t[a] = "<" /\ t[b] = ">"
                       /\ \A j \in a + 1..b - 1 : t[j] \notin {"<", ">"}
      found == {k \in 1..Len(t) - 1 :
                  /\ t[k] \in {"class", "struct"}
                  /\ t[k + 1] \in Names
                  /\ k = 1 \/ headEnd(k - 1)
                  /\ \A i \in k + 2..Len(t) : t[i] \in {"=", ">"} => enclosed(i)}
  IN IF found = {} THEN 0 ELSE Max(found)

\* The class, pushed unless an argument list is open around it.
PushClass(state, lines, linenum) ==
  LET t == state.rest
      k == ClassKeyword(t)
  IN IF k = 0 \/ (state.stack # <<>> /\ Last(state.stack).openParentheses # 0)
     THEN state
     ELSE [stack |-> Append(state.stack, ClassInfo(t[k + 1], t[k], lines, linenum)),
           rest |-> From(t, k + 2)]

\* _ClassInfo.CheckBegin: a bare : makes the class a derived one.
CheckBegin(stack, t) ==
  IF ~SeenOpenBrace(stack) /\ Last(stack).kind = "class" /\ Mentions(t, {":"})
  THEN SetTop(stack, [Last(stack) EXCEPT !.isDerived = TRUE])
  ELSE stack

\* Mutant: the wrong group of the match is kept.
UpdateAccessColon(state) ==
  LET t == state.rest
  IN IF /\ state.stack # <<>> /\ Last(state.stack).kind = "class"
        /\ Len(t) >= 2 /\ t[1] \in AccessSpecifiers /\ t[2] = ":"
     THEN [state EXCEPT !.stack = SetTop(@, [Last(@) EXCEPT !.access = t[2]])]
     ELSE state

UpdateAccess(state) ==
  LET t == state.rest
  IN IF /\ state.stack # <<>> /\ Last(state.stack).kind = "class"
        /\ Len(t) >= 2 /\ t[1] \in AccessSpecifiers /\ t[2] = ":"
     THEN [state EXCEPT !.stack = SetTop(@, [Last(@) EXCEPT !.access = t[1]])]
     ELSE state

\* _NamespaceInfo.CheckEnd: a long namespace, or one with an end comment,
\* needs the comment with its name.
CheckEnd(lint, block, lines, linenum) ==
  LET t == lines[linenum].raw.text
      mark == {i \in 2..Len(t) : /\ t[i] \in {"//", "/*"} /\ t[1] = "}"
                                 /\ \A j \in 2..i - 1 : t[j] = ";"}
      comment == IF mark = {} \/ lines[linenum].raw.indent
                 THEN <<>>
                 ELSE SelectSeq(From(t, Min(mark) + 1), LAMBDA w : w # "*/")
      names == IF block.name = "" THEN <<"namespace">> ELSE <<"namespace", block.name>>
  IN ErrorIf(lint,
             /\ block.kind = "namespace"
             /\ \/ linenum - block.startingLinenum >= SmallNamespace
                \/ Mentions(comment, {"namespace"})
             /\ ~IsSuffix(names, comment),
             linenum, "readability/namespace", 5)

\* Mutant: a declaration without a body stays open.
TokenKept(state, t, i, lines, linenum) ==
  LET stack == state.stack
  IN CASE t[i] = "{" /\ ~SeenOpenBrace(stack) ->
            [state EXCEPT !.stack = SetTop(@, [Last(@) EXCEPT !.seenOpenBrace = TRUE])]
       [] t[i] = "{" /\ SeenOpenBrace(stack) ->
            [state EXCEPT !.stack = Append(@, BlockInfo(TRUE))]
       [] t[i] = "}" /\ stack # <<>> -> [state EXCEPT !.stack = Front(@)]
       [] OTHER -> state

(* A brace, semicolon or closing parenthesis of the rest of the line: a    *)
(* brace opens the head that waits for it or a plain block; a semicolon or *)
(* ) shows that the head was a declaration or an argument.                 *)
Token(state, t, i, lines, linenum) ==
  LET stack == state.stack
      seen == Max({j \in 1..i - 1 : t[j] \in {"{", ";", ")", "}"}} \cup {0})
  IN CASE t[i] = "{" /\ ~SeenOpenBrace(stack) ->
            [state EXCEPT !.stack = SetTop(@, [Last(@) EXCEPT !.seenOpenBrace = TRUE])]
       [] t[i] = "{" /\ SeenOpenBrace(stack) ->
            [state EXCEPT !.stack =
               Append(@, [BlockInfo(TRUE) EXCEPT
                            !.inlineAsm = IF MatchAsm(From(t, seen + 1)) THEN "block" ELSE "no"])]
       [] t[i] \in {";", ")"} /\ ~SeenOpenBrace(stack) -> [state EXCEPT !.stack = Front(@)]
       [] t[i] = "}" /\ stack # <<>> ->
            [stack |-> Front(stack),
             lint |-> CheckEnd(state.lint, Last(stack), lines, linenum)]
       [] OTHER -> state

\* _NestingState.Update
Update(nesting, lint, lines, linenum) ==
  LET t == lines[linenum].elided
      pp == UpdatePreprocessor(nesting, t)
      counted == CountParentheses(pp.stack, t)
      declared == PushClass(PushNamespaces(counted, t, linenum), lines, linenum)
      begun == [declared EXCEPT !.stack = CheckBegin(@, t)]
      accessed == UpdateAccess(begun)
      consumed == FoldLeftDomain(
                    LAMBDA state, i : Token(state, accessed.rest, i, lines, linenum),
                    [stack |-> accessed.stack, lint |-> lint], accessed.rest)
  IN [nesting |-> [stack |-> consumed.stack, ppStack |-> pp.ppStack],
      lint |-> consumed.lint]

\* CheckClassFinished
CheckClassFinished(nesting, lint) ==
  FoldLeft(LAMBDA acc, block :
             ErrorIf(acc, block.kind = "class", block.startingLinenum, "build/class", 5),
           lint, nesting.stack)
===============================================================================
