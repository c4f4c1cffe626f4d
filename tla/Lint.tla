---------------------------------- MODULE Lint ----------------------------------
(***************************************************************************)
(* bin/cpplint.py, the style checker of `make lint`: a command line is     *)
(* parsed, then each file is read, its comments removed, its lines checked *)
(* one after the other, and what is left to say said at its end. The       *)
(* globals _cpplint_state and _error_suppressions live as long as the      *)
(* process; the three states of ProcessFileData as long as a file.         *)
(***************************************************************************)
EXTENDS LintChecks

CONSTANT Commands  \* sets of command lines: options, and files as they would be read

SourceFile ==
  [path : Seq(STRING), ext : STRING, readable : BOOLEAN, carriageReturn : BOOLEAN,
   lines : Seq(SourceLine)]

CommandOption ==
  [name : STRING, word : STRING, level : Nat, filters : Seq(Filter), path : Seq(STRING)]

Command == [options : Seq(CommandOption), files : Seq(SourceFile)]

\* Names can be compared: every header that is included has a rank.
Ranked(line) == Mentions(line.text, {"#include"}) => Canonical(line.header) \in DOMAIN Rank

ASSUME LintAssumption ==
  \A i \in DOMAIN Commands : \A c \in Commands[i] :
    /\ c \in Command
    /\ \A f \in 1..Len(c.files) : \A l \in 1..Len(c.files[f].lines) :
         Ranked(c.files[f].lines[l])

VARIABLES
  pc,        \* "arguments", "files", "lines", "hung" or "exit"
  command,   \* sys.argv
  lint,      \* _cpplint_state and _error_suppressions
  root,      \* _root
  todo,      \* files not yet looked at
  file,      \* the file being checked
  lines,     \* clean_lines
  linenum,   \* the next line
  nesting,   \* nesting_state
  function,  \* function_state
  includes,  \* include_state
  status     \* exit status, -1 while the program runs

vars == <<pc, command, lint, root, todo, file, lines, linenum, nesting, function,
          includes, status>>

fileVars == <<lines, linenum, nesting, function, includes>>

NoFile == [path |-> <<>>, ext |-> "", readable |-> FALSE, carriageReturn |-> FALSE,
           lines |-> <<>>]

TypeOK ==
  /\ pc \in {"arguments", "files", "lines", "hung", "exit"}
  /\ command \in Command
  /\ lint \in LintState
  /\ root \in Seq(STRING)
  /\ todo \in Seq(SourceFile)
  /\ file \in SourceFile
  /\ linenum \in 0..NumLines(lines)
  /\ nesting \in Nesting
  /\ function \in Function
  /\ includes \in Includes
  /\ status \in -1..1

Init ==
  /\ pc = "arguments"
  /\ \E i \in DOMAIN Commands : command \in Commands[i]
  /\ lint = CppLintState
  /\ root = <<>>
  /\ todo = <<>>
  /\ file = NoFile
  /\ lines = <<>>
  /\ linenum = 0
  /\ nesting = NestingState
  /\ function = FunctionState
  /\ includes = IncludeState
  /\ status = -1

Exit(code) ==
  /\ pc' = "exit"
  /\ status' = code

-----------------------------------------------------------------------------
(* ParseArguments.                                                         *)

\* What an option makes the program do at once: nothing, end with the usage
\* or the categories, or die of a ValueError.
Effect(option) ==
  CASE option.name = "help" -> "usage"
    [] option.name = "output" /\ option.word \notin {"emacs", "vs7", "eclipse"} -> "usage"
    [] option.name = "counting" /\ option.word \notin {"total", "toplevel", "detailed"} -> "usage"
    [] option.name = "verbose" /\ option.word # "" -> "traceback"
    [] option.name = "filter" /\ option.filters = <<>> -> "categories"
    [] OTHER -> "none"

\* The last option of a name, or the default.
Given(name, default) ==
  LET given == {i \in 1..Len(command.options) : command.options[i].name = name}
  IN IF given = {} THEN default ELSE command.options[Max(given)]

Stops == {i \in 1..Len(command.options) : Effect(command.options[i]) # "none"}

BadUsage ==
  \/ \E i \in 1..Len(command.options) : command.options[i].name = "unknown"
  \/ Stops # {} /\ Effect(command.options[Min(Stops)]) \in {"usage", "traceback"}
  \/ Stops = {} /\ command.files = <<>>

\* The program ends while it parses the command line.
ParseArgumentsExits ==
  /\ pc = "arguments"
  /\ BadUsage \/ Stops # {}
  /\ Exit(IF BadUsage THEN 1 ELSE 0)
  /\ UNCHANGED <<command, lint, root, todo, file>>
  /\ UNCHANGED fileVars

NoOption == [name |-> "", word |-> "", level |-> 0, filters |-> <<>>, path |-> <<>>]

\* The state as the options leave it. Without --counting it is the empty string.
Configured ==
  SetCountingStyle(
    SetFilters(
      SetVerboseLevel(lint, Given("verbose", [NoOption EXCEPT !.level = lint.verboseLevel]).level),
      Given("filter", NoOption).filters),
    Given("counting", NoOption).word)

(* The options hold: main resets the counts and goes through the files. A  *)
(* filter without a sign ends the program with a ValueError.               *)
ParseArguments ==
  /\ pc = "arguments"
  /\ ~BadUsage /\ Stops = {}
  /\ root' = Given("root", NoOption).path
  /\ IF FiltersValid(Configured)
     THEN /\ lint' = ResetErrorCounts(Configured)
          /\ todo' = command.files
          /\ pc' = "files"
          /\ UNCHANGED status
     ELSE /\ Exit(1)
          /\ lint' = Configured
          /\ UNCHANGED todo
  /\ UNCHANGED <<command, file>>
  /\ UNCHANGED fileVars

-----------------------------------------------------------------------------
(* ProcessFile and ProcessFileData.                                        *)

Marker == [Dummy EXCEPT !.text = <<"//", "x">>]

\* The lines between two markers, so that numbers and indices both start at 1.
Marked(f) ==
  [i \in 0..Len(f.lines) + 1 |->
     IF i \in 1..Len(f.lines) THEN f.lines[i] ELSE Marker]

\* A file that cannot be read, or is neither .cc nor .h nor .cpp.
SkipFile ==
  /\ pc = "files" /\ todo # <<>>
  /\ LET next == Head(todo)
     IN /\ ~next.readable \/ next.ext \notin {"cc", "h", "cpp"}
        /\ lint' = SetVerboseLevel(lint, lint.verboseLevel)
  /\ todo' = Tail(todo)
  /\ UNCHANGED <<pc, command, root, file, status>>
  /\ UNCHANGED fileVars

(* The beginning of ProcessFileData, up to the first line. An unclosed     *)
(* comment is reported one line below the one it begins on.                *)
BeginFile ==
  /\ pc = "files" /\ todo # <<>>
  /\ Head(todo).readable /\ Head(todo).ext \in {"cc", "h", "cpp"}
  /\ file' = Head(todo)
  /\ todo' = Tail(todo)
  /\ LET raw == Marked(Head(todo))
         reset == [ResetNolintSuppressions(lint) EXCEPT !.file = @ + 1]
         copyright == CheckForCopyright(reset, raw)
         guard == IF Head(todo).ext = "h"
                  THEN CheckForHeaderGuard(copyright, raw, Head(todo), root)
                  ELSE copyright
         comments == RemoveMultiLineComments(raw)
     IN /\ lint' = FoldLeft(LAMBDA acc, i : Error(acc, i + 1, "readability/multiline_comment", 5),
                            guard, SetToSeq(comments.unclosed))
        /\ lines' = CleansedLines(comments.lines)
  /\ linenum' = 0
  /\ nesting' = NestingState
  /\ function' = FunctionState
  /\ includes' = IncludeState
  /\ pc' = "lines"
  /\ UNCHANGED <<command, root, status>>

\* CheckStyle and the #include part of CheckLanguage.
StyleAndLanguage(log, updated) ==
  LET t == lines[linenum].elided
  IN \E styled \in {CheckStyle(log, lines, linenum, updated)} :
       IF t # <<>> /\ t[1] = "#include"
       THEN \E included \in {CheckIncludeLine(includes, styled, file, lines[linenum].raw.header, linenum)} :
              /\ includes' = included.includes
              /\ lint' = included.lint
       ELSE /\ lint' = styled
            /\ UNCHANGED includes

(* The checks of one line, after the nesting is updated. CheckBraces, in   *)
(* CheckStyle, may never return.                                           *)
CheckLine(log, updated) ==
  \E measured \in {CheckForFunctionLengths(function, log, lines, linenum)} :
  \E closed \in {CheckForMultilineCommentsAndStrings(measured.lint, lines, linenum)} :
    /\ function' = measured.function
    /\ IF JoinedText(lines, linenum).linenum = -1
       THEN /\ pc' = "hung"
            /\ lint' = closed
            /\ UNCHANGED <<linenum, includes>>
       ELSE /\ StyleAndLanguage(closed, updated)
            /\ linenum' = linenum + 1
            /\ UNCHANGED pc

\* ProcessLine. Inside an assembly block, nothing but the nesting is followed.
ProcessLine ==
  /\ pc = "lines" /\ linenum < NumLines(lines)
  /\ \E noted \in {ParseNolintSuppressions(lint, lines[linenum].raw.nolint, linenum)} :
     \E updated \in {Update(nesting, noted, lines, linenum)} :
       /\ nesting' = updated.nesting
       /\ IF InlineAsm(updated.nesting)
          THEN /\ lint' = updated.lint
               /\ linenum' = linenum + 1
               /\ UNCHANGED <<pc, function, includes>>
          ELSE CheckLine(updated.lint, updated.nesting)
  /\ UNCHANGED <<command, root, todo, file, lines, status>>

\* The end of ProcessFileData and of ProcessFile.
FinishFile ==
  /\ pc = "lines" /\ linenum = NumLines(lines)
  /\ LET classes == CheckClassFinished(nesting, lint)
         uses == CheckForIncludeWhatYouUse(includes, classes, file, lines)
         utf8 == CheckForUnicodeReplacementCharacters(uses, lines)
         newline == CheckForNewlineAtEOF(utf8, lines)
     IN lint' = ErrorIf(newline, file.carriageReturn, 0, "whitespace/newline", 1)
  /\ pc' = "files"
  /\ UNCHANGED <<command, root, todo, file, status>>
  /\ UNCHANGED fileVars

\* The end of main.
Finish ==
  /\ pc = "files" /\ todo = <<>>
  /\ Exit(IF lint.errorCount > 0 THEN 1 ELSE 0)
  /\ UNCHANGED <<command, lint, root, todo, file>>
  /\ UNCHANGED fileVars

Next ==
  \/ ParseArgumentsExits
  \/ ParseArguments
  \/ SkipFile
  \/ BeginFile
  \/ ProcessLine
  \/ FinishFile
  \/ Finish

Spec == Init /\ [][Next]_vars

==================================================================================
