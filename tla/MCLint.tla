-------------------------------- MODULE MCLint --------------------------------
(***************************************************************************)
(* Command lines for cpplint.py: every short file of a few dialects, each  *)
(* the lines that one part of the program tells apart, with options and    *)
(* files that reach the rest.                                              *)
(***************************************************************************)
EXTENDS LintProperties

\* A line of code with its first character in the first column.
L(t) == [Dummy EXCEPT !.text = t]
Indented(t) == [L(t) EXCEPT !.indent = TRUE]
Nolint(t, category) == [L(t \o <<"//", "x">>) EXCEPT !.nolint = category]
Uses(header) == [L(<<"x", ";">>) EXCEPT !.uses = {header}]
Guard(directive, name) == [L(<<directive>>) EXCEPT !.arg = name]
Inc(path, ext, isSystem) ==
  [L(<<"#include">>) EXCEPT !.header = [path |-> path, ext |-> ext, isSystem |-> isSystem]]

Blank == L(<<>>)

UpTo(n, S) == UNION {[1..k -> S] : k \in 0..n}

Path(base) == <<"/", "r", "/", "s", "/">> \o base

File(ext, body) ==
  [path |-> Path(<<"a">>), ext |-> ext, readable |-> TRUE, carriageReturn |-> FALSE,
   lines |-> Append(body, Blank)]

Run(options, files) == [options |-> options, files |-> files]

Option(name) == [name |-> name, word |-> "", level |-> 1, filters |-> <<>>, path |-> <<>>]

Files(ext, bodies) == {Run(<<>>, <<File(ext, b)>>) : b \in bodies}

\* The file's own header includes vector; the others cannot be opened.
MCCppHeaders == {<<"vector">>, <<"string">>, <<"iostream">>}
MCOldCppHeaders == {<<"iostream">>}
MCStreams == {<<"iostream">>}
MCContents == <<Path(<<"a">>), "h">> :> {<<<<"vector">>, "">>}
MCRank == <<<<"vector">>, "">> :> 8 @@ <<<<"string">>, "">> :> 6 @@ <<<<"string">>, "h">> :> 7
          @@ <<<<"iostream">>, "">> :> 1 @@ <<<<"iostream">>, "h">> :> 2
          @@ <<<<"s", "/", "a">>, "h">> :> 4 @@ <<<<"s", "/", "a", "_", "b">>, "h">> :> 5
          @@ <<<<"o">>, "h">> :> 3
MCSvnDirs == {<<"/", "r", "/", "v">>, <<"/", "r", "/", "v", "/", "w">>}
MCRepositoryDirs == {<<"/", "r">>} \cup MCSvnDirs

-----------------------------------------------------------------------------
(* Dialects.                                                               *)

\* Conditions around the heads and the ends of blocks.
Conditional == {L(<<"#if">>), L(<<"#else">>), L(<<"#endif">>),
                L(<<"class", "x", "{">>), L(<<"}">>)}
ConditionalFiles == {<<L(<<"#if">>)>> \o b : b \in UpTo(4, Conditional)}

\* Declarations with and without a body, and the brace on its own line.
Declarations == {L(<<"namespace", "n", "{">>), L(<<"class", "x">>), L(<<"{">>),
                 L(<<"class", "m", ";">>), L(<<"}">>), L(<<"}", "//", "namespace", "n">>),
                 L(<<"x", "(", "class", "x", ")", "{">>)}
DeclarationFiles == {<<L(<<"namespace", "n", "{">>)>> \o b : b \in UpTo(3, Declarations)}
                    \cup UpTo(3, Declarations)

\* Access sections in a class, and blank lines around them.
ClassBody == {L(<<"public", ":">>), L(<<"DISALLOW">>), Blank, L(<<"x", ";">>), L(<<"}", ";">>)}
ClassFiles == {<<L(<<"class", "x", "{">>)>> \o b : b \in UpTo(4, ClassBody)}

\* Assembly blocks of both kinds.
Assembly == {L(<<"{">>), L(<<"asm", "(", "x">>), L(<<"asm", "{">>), L(<<")", ";">>),
             L(<<"}">>), L(<<"x", "(", ")", "{">>)}
AssemblyFiles == {<<L(<<"{">>)>> \o b : b \in UpTo(3, Assembly)} \cup UpTo(2, Assembly)

\* Comments that end on their line or on another, alone or beside code.
Comments == {L(<<"/*", "x">>), L(<<"/*", "*/", "x">>), L(<<"x", "*/">>), L(<<"x">>),
             L(<<"//", "/*">>), L(<<"quote", "//", "quote">>)}

\* One line of angle brackets and parentheses.
Angles == UpTo(4, {"<", ">", "(", ")", ","}) \cup UpTo(3, {"<", ">", ";", "[", "]"})

\* Conditions of loops and else clauses over several lines.
Loops == {L(<<"while", "(", "x">>), L(<<"x", ")", ";">>), L(<<")", "(">>),
          L(<<"for", "(", ")", ";">>), L(<<"}", "else", "if", "(", "x">>),
          L(<<"x", ")", "{">>), Nolint(<<"x", ")", ";">>, "all")}

\* Braces with a semicolon behind, and else and do clauses.
Semicolons == {Indented(<<"{">>), Indented(<<"{", "x", ";">>), Indented(<<"{", "}", ";">>), L(<<"x">>), L(<<"x", ";">>),
               L(<<"else", "{">>), L(<<"else", "x">>), L(<<"do", "x">>), L(<<"}">>),
               L(<<"}", "else", "x">>)}

\* Long functions and what follows them, at level 0.
Functions == {L(<<"x", "(", ")", "{">>), Indented(<<"x", ";">>), L(<<"}">>), Blank,
              L(<<"x", "(", ")">>)}
FunctionFiles == {<<head>> \o b : head \in {L(<<"x", "(", ")", "{">>), L(<<"TEST", "(", ")", "{">>)},
                                  b \in UpTo(4, Functions)}

\* Headers of every section; string.h is one of C's, iostream.h of C++.
IncludesBody == {Inc(<<"s", "/", "a">>, "h", FALSE), Inc(<<"s", "/", "a", "_", "b">>, "h", FALSE),
                 Inc(<<"o">>, "h", FALSE), Inc(<<"string">>, "h", TRUE),
                 Inc(<<"iostream">>, "h", TRUE), Inc(<<"vector">>, "", TRUE)}

\* Uses of headers, with and without them.
UsesBody == {Inc(<<"s", "/", "a">>, "h", FALSE), Inc(<<"iostream">>, "", TRUE),
             Inc(<<"string">>, "", TRUE), Uses(<<"vector">>), Uses(<<"string">>)}

\* Guards: the right name, one with an underscore too many, another.
GuardName == <<"s", "_", "a", "_", "h", "_">>
GuardBody == {Guard("#ifndef", GuardName), Guard("#ifndef", Append(GuardName, "_")),
              [Guard("#ifndef", <<"x">>) EXCEPT !.nolint = "build/header_guard"],
              Guard("#define", GuardName), Guard("#define", <<"x">>),
              Guard("#endif", GuardName), L(<<"copyright">>)}

\* Lines with and without a suppression, for files one after the other.
Suppressed == {Nolint(<<"else", "x">>, "whitespace/newline"), L(<<"else", "x">>),
               Nolint(<<"x">>, "all"), Nolint(<<"x">>, "other"),
               L(<<"else", "x", "utf8">>), L(<<"quote", "/*">>)}

Filter1(sign, covers) == [Option("filter") EXCEPT !.filters = <<[sign |-> sign, covers |-> covers]>>]

OptionsTried ==
  {<<>>, <<Option("unknown")>>, <<Option("help")>>, <<Option("filter")>>,
   <<[Option("output") EXCEPT !.word = "x"]>>, <<[Option("output") EXCEPT !.word = "vs7"]>>,
   <<[Option("counting") EXCEPT !.word = "x"]>>, <<[Option("verbose") EXCEPT !.word = "x"]>>,
   <<[Option("verbose") EXCEPT !.level = 5]>>, <<[Option("verbose") EXCEPT !.level = 0]>>,
   <<[Option("root") EXCEPT !.path = <<"s">>]>>,
   <<Filter1("none", Build)>>, <<Filter1("-", Categories)>>,
   <<[Option("filter") EXCEPT !.filters = <<[sign |-> "-", covers |-> Categories],
                                           [sign |-> "+", covers |-> Whitespace]>>],
     [Option("counting") EXCEPT !.word = "detailed"]>>,
   <<[Option("counting") EXCEPT !.word = "toplevel"]>>,
   <<Filter1("+", Build), [Option("counting") EXCEPT !.word = "detailed"]>>}

Other(ext, body, readable) ==
  [File(ext, body) EXCEPT !.path = <<"/", "r", "/", "v", "/", "w", "/", "b", "_", "test">>,
                          !.readable = readable, !.carriageReturn = TRUE, !.lines = body]

Pairs ==
  {Run(o, <<File("cc", a), Other("h", b, TRUE)>>) :
     o \in OptionsTried, a \in UpTo(1, Suppressed), b \in UpTo(1, Suppressed)}

Skipped ==
  {Run(o, f) : o \in OptionsTried,
               f \in {<<>>, <<Other("h", <<>>, FALSE), File("txt", <<Blank>>), File("cpp", <<Blank>>)>>}}

MCCommands ==
  <<Files("cc", ConditionalFiles), Files("cc", DeclarationFiles), Files("cc", ClassFiles),
    Files("cc", AssemblyFiles), Files("cc", UpTo(4, Comments)),
    Files("cc", {<<L(<<"x">> \o t \o <<"x">>)>> : t \in Angles}),
    Files("cc", UpTo(3, Loops)), Files("cc", UpTo(3, Semicolons)),
    {Run(<<[Option("verbose") EXCEPT !.level = 0]>>, <<File("cc", b)>>) : b \in FunctionFiles},
    Files("cc", UpTo(4, IncludesBody)), Files("cc", UpTo(3, UsesBody)),
    Files("h", UpTo(3, GuardBody)), Files("h", UpTo(2, UsesBody)), Pairs, Skipped>>
==============================================================================
