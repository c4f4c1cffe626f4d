------------------------------ MODULE LintIncludes ------------------------------
(***************************************************************************)
(* What bin/cpplint.py knows of file names and #include lines: which       *)
(* header belongs to which file, the order of the sections, and which      *)
(* standard headers a file needs.                                          *)
(*                                                                         *)
(* A file name is its path, a sequence of name parts and the separators    *)
(* between them, and its extension: <<"s", "/", "a", "_", "test">>, "cc".  *)
(* A header adds whether it stands in angle brackets. The file checked is  *)
(* given by its absolute path.                                             *)
(***************************************************************************)
EXTENDS LintText, LintReport

CONSTANTS
  CppHeaders,   \* C++ headers, _STL_HEADERS and _CPP_HEADERS, without extension
  OldCppHeaders,  \* paths of those of them that end in .h
  Streams,      \* those of CppHeaders that are stream headers
  Rank,         \* alphabetical rank of a header's name in its canonical form
  Contents,     \* what can be opened: from a path and extension to its includes
  SvnDirs,      \* directories with a .svn
  RepositoryDirs  \* directories with a .git, .hg or .svn

ASSUME LintIncludesAssumption ==
  /\ IsFiniteSet(CppHeaders)
  /\ Streams \subseteq CppHeaders
  /\ \A name \in DOMAIN Rank : Rank[name] \in Nat \ {0}
  /\ SvnDirs \subseteq RepositoryDirs

\* os.path.split
LastSlash(path) == Max({i \in 1..Len(path) : path[i] = "/"} \cup {0})
Dir(path) == SubSeq(path, 1, LastSlash(path) - 1)
Base(path) == SubSeq(path, LastSlash(path) + 1, Len(path))

(* FileInfo.RepositoryName: the path below the top of the chain of .svn    *)
(* directories the file is in, or else below the nearest repository; the   *)
(* whole path if there is neither.                                         *)
RepositoryName(full) ==
  LET slashes == {i \in 1..Len(full) : full[i] = "/"}
      chain == {i \in slashes : \A j \in slashes :
                  j >= i => SubSeq(full, 1, j - 1) \in SvnDirs}
      roots == {i \in slashes : SubSeq(full, 1, i - 1) \in RepositoryDirs}
  IN CASE chain # {} -> From(full, Min(chain) + 1)
       [] chain = {} /\ roots # {} -> From(full, Max(roots) + 1)
       [] OTHER -> full

CommonSuffixes(ext) ==
  CASE ext = "cc" -> {"test", "regtest", "unittest"}
    [] ext = "h" -> {"inl", "impl", "internal"}
    [] OTHER -> {}

\* _DropCommonSuffixes, which also drops the extension.
DropCommonSuffixes(name) ==
  LET n == Len(name.path)
  IN IF n > 1 /\ Last(name.path) \in CommonSuffixes(name.ext) /\ name.path[n - 1] \in {"-", "_"}
     THEN SubSeq(name.path, 1, n - 2)
     ELSE name.path

\* _IsTestFilename
IsTestFilename(name) ==
  /\ name.ext = "cc" /\ Len(name.path) > 1
  /\ Last(name.path) \in {"test", "unittest", "regtest"}
  /\ name.path[Len(name.path) - 1] = "_"

HeaderTypes == {"c_sys", "cpp_sys", "likely_my", "possible_my", "other"}

\* include in _STL_HEADERS or in _CPP_HEADERS: the name with its extension.
IsCppHeader(include) ==
  \/ include.ext = "" /\ include.path \in CppHeaders
  \/ include.ext = "h" /\ include.path \in OldCppHeaders

(* _ClassifyInclude: the header with the file's own name, in its directory *)
(* or in ../public, is likely its own; one whose name begins with the same *)
(* part may be.                                                            *)
ClassifyInclude(target, include) ==
  LET file == DropCommonSuffixes([target EXCEPT !.path = RepositoryName(@)])
      header == DropCommonSuffixes(include)
      up == Dir(file)
      public == IF LastSlash(up) = 0 THEN <<"public">>
                ELSE SubSeq(up, 1, LastSlash(up)) \o <<"public">>
  IN CASE include.isSystem /\ IsCppHeader(include) -> "cpp_sys"
       [] include.isSystem /\ ~IsCppHeader(include) -> "c_sys"
       [] OTHER ->
            IF Base(file) = Base(header) /\ Dir(header) \in {up, public}
            THEN "likely_my"
            ELSE IF Base(file) # <<>> /\ Base(header) # <<>>
                    /\ Head(Base(file)) = Head(Base(header))
            THEN "possible_my"
            ELSE "other"

-----------------------------------------------------------------------------
(* _IncludeState: the headers seen, the section reached, the last header.  *)

\* The sections in the order they have to come in.
Initial == 0
MyH == 1
CSection == 2
CppSection == 3
OtherH == 4

Sections == Initial..OtherH

\* lastHeader is the rank of the last header, 0 for the empty string.
IncludeState == [seen |-> {}, section |-> Initial, lastHeader |-> 0]

Includes ==
  [seen : SUBSET (Seq(STRING) \X STRING), section : Sections, lastHeader : Nat]

\* Mutant: C++ headers leave the section as it is.
NextSectionStay(section, headerType) ==
  CASE headerType = "c_sys" -> IF section <= CSection THEN CSection ELSE section
    [] headerType = "cpp_sys" -> section
    [] headerType \in {"likely_my", "possible_my"} -> IF section <= MyH THEN MyH ELSE OtherH
    [] headerType = "other" -> OtherH

\* The section that CheckNextIncludeOrder moves to.
NextSection(section, headerType) ==
  CASE headerType = "c_sys" -> IF section <= CSection THEN CSection ELSE section
    [] headerType = "cpp_sys" -> IF section <= CppSection THEN CppSection ELSE section
    [] headerType \in {"likely_my", "possible_my"} -> IF section <= MyH THEN MyH ELSE OtherH
    [] headerType = "other" -> OtherH

\* CheckNextIncludeOrder returns a message.
OutOfOrder(section, headerType) ==
  \/ headerType = "c_sys" /\ section > CSection
  \/ headerType = "cpp_sys" /\ section > CppSection

\* CheckNextIncludeOrder: a new section, or an error, begins the alphabet anew.
CheckNextIncludeOrder(includes, headerType) ==
  LET section == NextSection(includes.section, headerType)
  IN [includes EXCEPT
        !.section = section,
        !.lastHeader = IF OutOfOrder(includes.section, headerType)
                          \/ section # includes.section
                       THEN 0 ELSE @]

\* CanonicalizeAlphabeticalOrder, but for the case.
Canonical(include) ==
  LET n == Len(include.path)
      name == IF include.ext = "h" /\ n > 2 /\ IsSuffix(<<"-", "inl">>, include.path)
              THEN SubSeq(include.path, 1, n - 2) ELSE include.path
  IN <<ReplaceAll(name, "-", "_"), include.ext>>

InAlphabeticalOrder(includes, include) == includes.lastHeader <= Rank[Canonical(include)]

\* Mutant: a header out of order becomes the one to compare with.
RememberAlways(includes, include) ==
  [includes EXCEPT !.lastHeader = Rank[Canonical(include)]]

\* IsInAlphabeticalOrder remembers the header if it is in order.
RememberInOrder(includes, include) ==
  IF InAlphabeticalOrder(includes, include)
  THEN [includes EXCEPT !.lastHeader = Rank[Canonical(include)]]
  ELSE includes

\* The name of a stream header, from its first letter to its last.
IsStream(include) == include.ext = "" /\ include.path \in Streams

\* CheckIncludeLine
CheckIncludeLine(includes, lint, target, include, linenum) ==
  LET name == <<include.path, include.ext>>
      again == name \in includes.seen
      type == ClassifyInclude(target, include)
      ordered == CheckNextIncludeOrder(includes, type)
      style == ErrorIf(lint, /\ ~include.isSystem /\ include.ext = "h"
                             /\ LastSlash(include.path) = 0,
                       linenum, "build/include", 4)
      order == ErrorIf(style, OutOfOrder(includes.section, type), linenum,
                       "build/include_order", 4)
      alpha == ErrorIf(order, ~InAlphabeticalOrder(ordered, include), linenum,
                       "build/include_alpha", 4)
  IN [includes |-> IF again THEN includes
                   ELSE [RememberInOrder(ordered, include) EXCEPT !.seen = @ \cup {name}],
      lint |-> ErrorIf(IF again THEN Error(style, linenum, "build/include", 4) ELSE alpha,
                       IsStream(include) /\ ~IsTestFilename(target),
                       linenum, "readability/streams", 3)]

-----------------------------------------------------------------------------
(* Include what you use.                                                   *)

\* A path without the directories public and internal.
WithoutPublic(path) ==
  LET hidden(i) == /\ path[i] \in {"public", "internal"}
                   /\ 1 < i /\ i < Len(path) /\ path[i - 1] = "/" /\ path[i + 1] = "/"
  IN FoldLeftDomain(LAMBDA acc, i : IF hidden(i) \/ (i > 1 /\ hidden(i - 1))
                                    THEN acc ELSE Append(acc, path[i]), <<>>, path)

DropSuffix(path, suffixes) ==
  IF \E s \in suffixes : IsSuffix(s, path) THEN SubSeq(path, 1, Len(path) - 2) ELSE path

\* FilesBelongToSameModule: the header's path is the end of the file's.
FilesBelongToSameModule(cc, name) ==
  /\ cc.ext = "cc" /\ name[2] = "h"
  /\ IsSuffix(WithoutPublic(DropSuffix(name[1], {<<"-", "inl">>})),
              WithoutPublic(DropSuffix(cc.path, {<<"_", "unittest">>, <<"_", "test">>})))

\* The path the header is opened at: the rest of the file's path before its own.
FullPath(cc, name) ==
  LET module == WithoutPublic(DropSuffix(cc.path, {<<"_", "unittest">>, <<"_", "test">>}))
      own == WithoutPublic(DropSuffix(name[1], {<<"-", "inl">>}))
  IN <<SubSeq(module, 1, Len(module) - Len(own)) \o name[1], name[2]>>

\* Mutant: the file's own header is not looked into.
OwnHeadersNone(includes, target) == {}

\* The included headers of the file's own module that can be opened.
OwnHeaders(includes, target) ==
  {name \in includes.seen : /\ FilesBelongToSameModule(target, name)
                            /\ FullPath(target, name) \in DOMAIN Contents}

\* UpdateIncludeState: what those headers include counts as included.
UpdateIncludeState(includes, target) ==
  includes.seen \cup UNION {Contents[FullPath(target, name)] :
                              name \in OwnHeaders(includes, target)}

\* The last line that needs each header.
Required(lines) ==
  LET users(h) == {i \in DOMAIN lines : /\ lines[i].elided # <<>>
                                        /\ lines[i].elided[1] \in Directives => lines[i].raw.indent
                                        /\ h \in lines[i].raw.uses}
  IN {<<h, Max(users(h))>> : h \in {g \in CppHeaders : users(g) # {}}}

(* CheckForIncludeWhatYouUse: nothing is said of a .cc file whose own      *)
(* header was not found. The order of the reports is that of a dictionary. *)
CheckForIncludeWhatYouUse(includes, lint, target, lines) ==
  LET known == UpdateIncludeState(includes, target)
      missing == {r \in Required(lines) : <<r[1], "">> \notin known}
  IN IF target.ext = "cc" /\ OwnHeaders(includes, target) = {}
     THEN lint
     ELSE FoldLeft(LAMBDA acc, r : Error(acc, r[2], "build/include_what_you_use", 4),
                   lint, SetToSeq(missing))
===============================================================================
