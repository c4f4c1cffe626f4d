# bt-stream: specification and proofs

bt-stream takes a WebM movie from one publisher (HTTP POST on TCP port 8081)
and serves it live to consumers over Bluetooth RFCOMM. The program is one
process with one libuv loop: every piece of code below is a callback of that
loop, so callbacks never overlap, and all concurrency is in the order in which
connections, reads, timers and write completions reach it. The repository's
largest program is `bin/cpplint.py`, the checker that `make lint` runs over the
sources: one Python process that goes through its files line by line.

## Inventory

| Part (in `src/src/`) | State | Operations | Properties that make it correct |
|---|---|---|---|
| `stream.cc` Stream | header and its length, latest fragment, its age | `set_header`, `push_fragment`, getters | age counts the pushes and belongs to the latest fragment; header valid when its length says so |
| `stream_client.cc`, `client.cc` StreamClient | timer, write request, `age_`, `fragment_offset_`, `fragment_length_`, `running_`, TCP handle | `run`, `write_header`, `write_fragment`, three timer callbacks, three write completions, close, destructor | exactly one callback pending per connection; packets lie within a fragment; no fragment twice, none forgotten; failure closes |
| `main.cc` accept callbacks | the globals `input`, `stream_client` | replace the global, accept, `run` or close | a replaced object leaves nothing in the loop |
| `streaming_state.cc` StreamingState | fragment being filled, Timecode of the latest cluster | `process_data`: Timecode, SimpleBlock, BlockGroup | cuts at key frames only, order kept, pushed fragments immutable |
| `movie_fragment.cc` MovieFragment | bytes, length, open cluster | open/close cluster, append block | clusters tile the fragment with right sizes, nothing beyond 1 MB |
| `stream_input.cc` StreamInput | 64 KB buffer with offset and length, parser, state object | `run`, `on_alloc`, `on_read`, `on_body`, `change_state` | every byte is processed once and in order whatever the reads' sizes |
| `header_detection_state.cc` | none between calls | `process_data`: find EBML, Segment, Info, Tracks | waits until they are complete, then sets the header once; what it copies on the way stays in its 64 KB |
| `ebml.cc` EBML | id, size, offsets of one element | variable-length integers | equals the EBML definition for every input; says when the input is too short |
| `controlled_stream.cc` | number of clients | subscribe, unsubscribe | 0 ≤ clients ≤ MAX; not used by the program |
| `main()`, `HCI.cc`, `SDP.cc`, `RFCOMM.cc`, `Util.cc` | sockets and sessions at start-up | listen, query the adapter, register a service | nothing is served before the start-up is complete |
| `bin/cpplint.py`: `main`, `ProcessFile` | options, files left, exit status | parse options, go through files and lines | the exit status tells whether anything was reported |
| `_CppLintState`, `Error`, `_error_suppressions` | level, filters, counts, NOLINT lines | report, suppress, count | a report is lost only for a NOLINT of its own line and file; counts agree with what is printed |
| comments, strings, brackets | the cleansed lines | remove comments, match brackets over lines | no code is lost; a match is never before the bracket is closed |
| `_NestingState` | stack of blocks, stack of open `#if` | `Update` | one entry per open brace; only the first branch of a condition counts |
| `_IncludeState` | section, last header, headers seen | `CheckNextIncludeOrder`, include-what-you-use | the order errors are exactly the headers out of order |
| `_FunctionState` and the checks of a line | lines counted | one call per line | a function said to be too long is |

How they interact:

```
 publisher --TCP--> StreamInput --bytes--> HeaderDetectionState --set_header--> Stream
                        |  change_state            |                              ^  |
                        +--bytes--> StreamingState-+--MovieFragment--push_fragment+  | polled by timers
                                                                                     v
 consumers <--RFCOMM-- Client::write <------------------------------------- StreamClient
```

The Stream is shared memory, read by the consumers' timer and write callbacks at
moments unrelated to the publisher's. The hard behaviours are there: a fragment is
replaced while a consumer is in the middle of the one before; a new consumer or
publisher replaces, and so deletes, the object of the previous one while the loop
still refers to it; a write fails or is still under way when something else
happens; elements arrive cut at any byte; the buffers of 64 KB and 1 MB fill up.
`PROJECT.json` lists these hazards at their lines.

## Modules

- `Stream` — the Stream and the promise the publishing side makes about it.
  `input` stands for the publisher's connection: `PublisherConnects` (accept
  callback), `SetHeader` (end of header detection), `PushFragment`, and
  `PublisherCloses` (`on_read` with `nread < 0`). A header is represented by the
  length of its memory, a fragment by its age and length. `headerLength` starts with
  any of `UninitialisedLengths`: the constructor does not set `header_length_`.
- `StreamClient` (extends `Stream`) — the consumers. `client[c]` is the StreamClient
  of connection `c`; its `timer` and `write` fields say which callback `uv_timer_start`
  armed and which completion `uv_write` will call. Member functions are operators
  from record to record (`WriteHeader`, `WriteFragment`, `Run`, ...), callbacks are
  actions: `HeaderTimer`, `FragmentTimer`, `CloseTimer` (the three static timer
  callbacks), `HttpHeaderWritten`, `HeaderWritten`, `FragmentWritten`, `WriteFails` (the
  three completion lambdas), `Closed`, and `Accepts`/`Rejects` (the accept callback,
  including the deletion of the replaced object). `NullHeaderTimer` and `UseAfterFree`
  are the two places where the code's behaviour is undefined; both may end the process.
  `parts` is a history variable, for the properties only.
- `StreamingState` — the segmenter together with MovieFragment. One action per
  element of `process_data` that has an effect: `Timecode`, `SimpleBlock` (which is
  `Push` or `Store`, by `Cuts`), `BlockGroup`. A fragment is its length, the cluster
  heads written into it and the blocks copied into it, with their offsets. `Crash`
  is the possible consequence of writing a cluster head beyond the 1 MB. `source` and
  the field `lost` are histories.
- `Segments` — the abstract specification of the segmenter: numbered blocks are cut
  into immutable segments, in order, each but the first beginning with a key frame.
- `StreamInput` — a publisher's connection: the 64 KB buffer with its contents, reads cut
  anywhere, pieces of the movie between HTTP framing, and the walk of HeaderDetectionState and
  StreamingState over the elements. `Read` is `on_alloc` and `on_read`, `OnBody` the first half of
  `on_body`, `Return` what its loop does with the result of `process_data`, `Consume`/`HoldBack`/`ClusterTorn`/...
  one round of `process_data`. `on_read` is not interruptible; `pc` divides it into steps only so that
  no recursion is needed. The elements it consumes are the input of `StreamingState`. The bytes of a movie
  are their positions, so that a byte moved to a wrong place shows. The HTTP parser is external: it
  passes on one or two pieces per read, and fails for good on an empty read. Before its header is found, every
  call of HeaderDetectionState copies the EBML element and a Segment of 12 bytes, and then Info, into `header_buffer`
  (`Copied`), found or not; what does not fit (`CopiesFit`) is written over its end. From there on the behaviour is undefined, and
  the model ends (`HeaderOverruns`, `fault = "overrun"`).
- `Server` — `main()` up to its loop and the lives of the publishers: `StartServer`, `QueryAdapter` and
  `RegisterService` with their failures, `Accepts`/`Rejects` (the accept callback of `start_publisher_server`),
  `OnRead` ... `ReadEnds`/`ReadDies` (a read, of which only what reaches the Stream is kept; `StreamInput` has the
  rest), `HangsUp` and `Closed`. `connection[p]` is the StreamInput and the Client of publisher `p`, which are
  deleted together. Deleting them stops reading but closes nothing: the handle of a replaced publisher stays
  open in the loop, in freed memory, and so does the handle of one that `accept` refused while it is being closed.
  What the loop does with such a handle is undefined (`UseAfterFree`). `Server` implements
  `Stream!StreamSpec`, the promise on which all results about consumers rest.
- `LintText`, `LintReport`, `LintNesting`, `LintIncludes`, `LintChecks` — the parts of cpplint as operators, one per
  function: cleansing and brackets; `Error`, NOLINT and the counts; `_NestingState`; `_IncludeState` and file
  names; the checks of a file's beginning, of its lines and of its end. A line is a sequence of tokens, with the
  spaces left out but for the indentation; a member function goes from record to record. `Lint` composes them:
  `ParseArguments`, `SkipFile`, `BeginFile`, `ProcessLine` (one line with all its checks, in the program's order),
  `FinishFile`, `Finish`. `LintProperties` says what is expected of them, mostly by a second definition that
  reads the file itself, without the checker's state.
- `MCStreamClient` — the symmetry set; `MCStreamInput` — the movies; `MCLint` — the files and command lines; `*.cfg` — the instances.
- `StreamClient_proof`, `StreamingState_proof`, `StreamInput_proof`, `Server_proof` — theorems about these.
- `Fold_proof` — what folds and recursive functions compute, for any body. `LintChecks_proof` (the text algorithms,
  the checks and the report they write), `Lint_proof` (the runs of the checker, and its blocks) and `LintReports_proof` (what a run reports on
  includes, functions and missing headers, and preprocessor branches) — theorems about cpplint.

## Runs

| Run | What it shows |
|---|---|
| `consumers` (`StreamClient.cfg`) | Two connections and up to three pushes. `OneContinuation`: every served connection has exactly one timer, write or close pending, a finished or deleted one none. `PacketInBounds`: a packet lies inside the fragment it is cut from, although the offset may come from another one. `NoResend`, `NeverWaitsMidFragment`, and `WholeFragmentUnlessOvertaken`: a fragment is marked finished only after exactly its bytes, when no push came in between. |
| `consumers_live` | `EveryAgeReached`: a connected consumer catches up with every push; `FailureCloses`: a failed connection is closed. |
| `segmenter` | Every input of seven elements. `CutAtKeyFrames` is the refinement of `Segments`; `PushedImmutable`; `TimecodeKept`: a block lies in a cluster with its own Timecode although fragments are cut inside clusters; `ClustersTile`; `GopFits`: nothing is lost or overrun while key frames come in time. |
| `publisher_buffer` (`StreamInput.cfg`) | Eight movies in reads of all sizes. `BufferExact`: the buffer holds the latest bytes without a gap, and moving them never overwrites a piece of the same read not yet passed on; `OneByOne`: elements are consumed in order, once, from their first byte; `NothingWaits`: a complete element is never left over; `FullOnlyIfOversize`: the buffer is full only before an element that does not fit; `HeaderFits`: Info and Tracks never overrun `header_buffer` unless the Segment put in is longer than the input's, and an EBML element that leaves no room for the Segment ends the process with its head, before anything of the movie is streamed; `OnReadReturns`: the loops end. |
| `publisher_lifetimes` (`Server.cfg`) | Start-up, then three publishers that connect, are refused, replace each other and hang up at any moment. `PublishesAsStream` is the refinement of `Stream`; `OneMovieAtATime`: header and fragments come from the publisher connected last, its header once and before its fragments; `ReleasedInOrder`: as long as each publisher is accepted, and connects after the close callback of the one before, nothing freed is left in the loop. (With overlapping publishers it is: a replaced connection is never closed.) |
| `lint` (`Lint.cfg`) | Every short file of thirteen dialects and every option. `CountsAgree`, `SuppressedByOwnNolint`: reports, counts, suppressions and exit status agree over several files. `CodeSurvives`, `CloseNeverEarly`, `BracketsAgree`, `TemplatesAccepted`: the text algorithms against reference definitions. `FirstBranchNesting`, `OneEntryPerBrace`: the nesting stack is that of the first branches, with one entry per brace. `HangsOnlyFromTheTop`: CheckBraces loops for ever only on a file that begins with indented blocks before any statement. `LongFunctionsOnly`, `OrderErrorsExact`, `AlphabetErrorsExact`, `MissingExact`: what is reported is so. |
| `mixed_fragments`, `input_close`, `header_wait`, `cluster_size`, `torn_cluster`, `late_nolint` | Disagreements between code and comments, below. |

Bounds. Lengths of the consumer's model count units of 12 KB, half of `PACKET_SIZE`,
the smallest unit in which a packet (2), the largest last packet (under 3) and a
fragment of at least 100 KB (9) are distinguished. Lengths 9 and 11 give fragments
of different packet counts and odd rests; three pushes let a consumer be overtaken
twice. Two connections suffice for replacement: only one is ever current, and a
third would only replace again. The liveness run has one fragment length and two
pushes because TLC's symmetry reduction is not sound for it. In the segmenter, the
lengths of the cluster head (19, 8, 10) are the code's; the minimum and the capacity
are scaled to 50 and 100 so that a push needs two or three blocks and a fragment that is not
cut overflows after four. `SignBit = 4` makes Timecode 5 negative as a signed word.
`MaxElements = 7` allows two pushes and an overflow. The publisher's buffer is scaled to
twelve bytes, with heads of two bytes (four for a Cluster), so that a read can end before, inside
and behind every part of an element; the movies have elements of the buffer's length and one byte
more, Info and Tracks in both orders, headers that just fit and just do not, in the input's buffer and with the longer Segment in
`header_buffer`, and EBML elements that leave too little room for the Segment or do not fit themselves. Three publishers are enough for
one that was replaced, one refused and one served to be in the loop at once; three pushes let each of them push.
cpplint's thresholds are scaled (a namespace of 3 lines, a class of 2, a copyright in the first 2, functions of 1 and
2 lines at level 0), so that files of four to six lines lie on both sides of each; a dialect is the handful of
lines that one part of the checker tells apart, and all their sequences up to that length are tried. The suppression
dialects check two files with every option, so that what one file leaves behind would show in the next.
All runs set `CHECK_DEADLOCK FALSE`: the bounded models end, and so does a process that died or a checker that is through.

Fairness (`FairSpec`, liveness only). Weak fairness of the armed timer and of the close callback:
libuv runs both in bounded time.
`OnReadReturns` assumes weak fairness of `Step`: a function that runs goes on running. Weak fairness of `WriteCompletes`, which includes
failure: a connection takes the bytes or breaks. Nothing is assumed of the publisher
or of new connections.

### What the code does not do

- `PacketsOfOneFragment` (stream_client.cc:140): each packet is cut from the latest
  fragment at the offset reached in whichever was the latest before; a slow consumer
  gets the head of one fragment followed by the tail of another, or skips the new one.
- `InputCloseClosesOutput` (stream_client.cc:123): "Since an input stream was closed,
  close the output stream." tests a flag that nothing clears.
- `WaitsForHeader` (stream.cc:7): the test for a prepared header reads an uninitialised length.
- `KeepsUnprocessed` (streaming_state.cc:43): an incomplete element is kept until the rest of it
  arrives, but a Cluster is not tested, and a read that ends inside its head kills the process.
- `ClusterSizeExact` (movie_fragment.cc:64): cluster sizes are one byte short.
- `NolintSuppresses` (cpplint.py:2666): the error about an empty loop body is reported for the line where the
  condition ends, before that line's NOLINT comment is read, and so is printed in spite of it.

Not runs of their own, but visible in the models: an EBML element of nearly 64 KB or more overruns `header_buffer` as soon as its
head is there, and so does a header that only just fits behind a Segment shorter than 12 bytes (header_detection_state.cc:56-69,
104; `HeaderFits` says exactly when); a failed registration with the SDP server or query of the adapter
has no effect, and a missing session is dereferenced (`RegisterService`, `QueryAdapter`); a consumer that has
sent the header of one publisher goes on with the fragments of the next (`OneMovieAtATime` is about
what is pushed, `StreamClient` never asks for the header again); a second `}` in the first column after a long
function repeats the report on its length, because `_FunctionState.Check` does not test whether a function is open; `CloseExpression`
goes past a line that closes the bracket and opens it again (the exception in `CloseNeverEarly`); a multi-line
comment that ends before code on its line is not seen to end, and one that is closed and opened again on a line is taken
for a single one (the assumption of `CodeSurvives`).

## Proofs

TLAPS proves, for every value of the constants allowed by the assumptions beside
their declarations (any number of connections, any packet size, any
positive fragment lengths, any movie; `MINIMAL_FRAGMENT_LENGTH` plus one block must
fit in the capacity and hold a cluster head, as 100 KB, 64 KB and 1 MB do):

- `StreamClient_proof`: `TypeCorrect`, `Continuity`, `Bounds`, `Fresh`, `NoWait` and
  `WholeFragments`, that is, every safety property of run `consumers`. None is inductive
  alone. `IInv` adds what each callback needs to find: `Good(s)` says that a consumer which
  has not begun a fragment has offset 0 and no parts, that bytes in flight come from a fragment newer
  than `age_` and no newer than the stream's, and, if as new, from that very fragment.
  `WriteFragment` is the one non-trivial step (`WriteFragmentGood`): called
  with nothing pending it leaves one event pending. A push preserves `Good` because a buffer as old as
  the previous latest fragment becomes strictly older. The action property follows from `IInv` step by step.
- `StreamingState_proof`: `TypeCorrect`, `Timecodes32`, `Tiling`, `Capacity`,
  `Immutable` and `Implements`, every property of run `segmenter`. `IInv` says of each fragment that it is well formed
  (`Good`) and of the one being filled (`Filling`) that its open cluster is its last and has
  the Timecode the input gave last, and that its length is at most the minimum plus the bytes
  since the last key frame: at a key frame, a fragment at or above the minimum is
  replaced, and one below it starts counting again. Pushed addresses are below `current`, hence immutable.
  `Implements` maps `Store` to Take or Lose, `Push` to Cut, and the rest to stutters.

- `StreamInput_proof`: `TypeCorrect`, `BufferIsExact`, `InOrderOnce`, `NothingLeft`, `FullIfOversize` and
  `HeaderHasRoom`, every safety property of run `publisher_buffer`, for a buffer and a movie of any length and
  reads cut anywhere. `IInv` adds `Shape` (the pieces of a read that are still to come lie behind the data, the
  second behind the first: that is why moving one to the data cannot overwrite the other) and `Progress` (the
  movie's position at which `process_data` has come to, `Base + scan`, is where the next element begins).
  `DecodedIsNext` is the core: data that look like element `i` are the next element, since by `BufferExact` their first
  byte is the movie's at that position, and positions of elements differ. `ReturnFacts` covers the three ways
  in which `on_body`'s loop treats an offset within the data. `CopiedFacts` relates what is copied into `header_buffer` to
  what was in the input's buffer: with a Segment no longer than the input's, only the EBML element can be too much.
- `Server_proof`: `TypeCorrect`, `Released`, `OneMovie` and `Implements`, every property of run
  `publisher_lifetimes`, for any number of publishers. `IInv` says who can be read at all: only the publisher behind the global `input`
  is reading, only while its handle is open, and every other one is deleted and silent. `Implements` maps a
  publisher's connection to the three-valued `input` of `Stream`; start-up, refusals and the ends of reads are stutters.

- `Lint_proof` and `LintReports_proof`: all fourteen properties of run `lint`, for any command lines, any number of files and
  any lines in them, whatever the thresholds. cpplint is folds and recursive functions over the lines of a file and the
  tokens of a line, that is, each a CHOOSE of a function that satisfies an equation. `Fold_proof` proves once that such a
  function exists and goes step by step (`FoldSteps`, `Recursion`), for a body `step` that is a constant of the module; every fold of the model
  is an instance of it. Its induction is over sets of numbers (`IntervalInduction`), from the well-founded order of the
  library. Assumed are `LintAssumption` (the command lines are command lines, and headers that are included can be compared)
  and `LiteralsAssumption`, a fact about four literals that the provers do not know.
  - `LintTypeCorrect`, `LintCountsAgree` and `LintSuppressedByOwnNolint` follow from `Inv`: the lines checked are those of the file
    at hand, cleansed, and the state of the report is `Sound`, that is, its counts are those of what was printed and what it withholds is
    suppressed by its own line. A check writes to the report through `Error` and `ParseNolintSuppressions` alone, so a set
    of states `Closed` under these is one that every check stays in: one lemma per check, and no property of a check is needed.
    The same lemmas with another set say which categories a check never reports.
  - `LintOrderErrorsExact` and `LintAlphabetErrorsExact` rest on `IncludesInvariant`: the section and the last header of `_IncludeState`
    are the maxima over the headers included so far (in the alphabet, since it last began anew), and what those headers deserve
    has been reported, and nothing else. `LintLongFunctionsOnly` rests on `FunctionsInvariant`: `_FunctionState` counts the lines since
    the last head. `LintMissingExact` rests on `MissingInvariant`, and that on what `_IncludeState` has seen being what the file includes.
  - `LintFirstBranchNesting` rests on `BranchesInvariant`, which says what the saved stacks are: of the open conditions, the outermost that
    has left its first branch saved the stack that the first branches alone lead to, and those around it saved theirs. Its hypotheses are
    needed: a directive is a line to `Update`, which counts its parentheses and braces before and after the saving, and the state of
    an assembly block is in the top of the stack.
  - `LintOneEntryPerBrace` rests on `EntriesInvariant`: the entries are those of the open braces, in order, all with their brace seen but for
    the top one behind an unfinished head, and if there is such a head anywhere no entry has a parenthesis open. A line keeps this since
    the stack after any of its tokens is tied to the braces counted so far. Its hypotheses, which every file of the run without
    conditions meets if its heads are followed by their braces, are needed: a head that its braces do not follow, stands behind other
    code or is closed by a `)` leaves entries that a count of braces does not, and `PushClass` passes over one inside parentheses.
  - `LintHangsOnlyFromTheTop`: only `CheckBraces` can hang (`HungInvariant`), and the loop that does finds no line to stop at.
  - `LintBracketsAgree` and `LintCloseNeverEarly` are about the number of brackets of one kind that are open: while the stack of
    `_GetTextInside` is above its bottom that number is positive, and when it is back it is zero; what `CloseExpression` adds up line
    by line is the depth at the ends of lines, and a sum that comes from above zero to zero or below passes a bracket that makes it zero.
  - `LintTemplatesAccepted`: on a balanced line the stack of each search is, turned round, the part of the line's own stack above the
    bracket it started from, so it meets its partner exactly there. `LintCodeSurvives`: under its assumption the comments
    that `RemoveMultiLineComments` finds one after the other are the maximal stretches of lines with a comment open.

Every `IInv` was also model-checked, on the instance of its run, and so were `Inv` and the invariants of cpplint. Only model-checked are
`EveryAgeReached`, `FailureCloses` and `OnReadReturns`: they need fairness, which is out of the prover's reach.

## Not modelled

The memory of a fragment or header replaced during a `uv_write` (the code keeps no
reference); the bytes of packets and the delays of timers; errors that `uv_write`
returns at once, which `Client::write` ignores; `fragment_age_` wrapping at 2^32; the
consumers' view of a process ended by the publisher's parsing (`StreamInput` has it as `fault`, `Server` as `ReadDies`);
`keyframe_offset_` and `keyframe_length_`, which never change and are never read.

Of the decoder, the arithmetic of the variable-length integers, and with it the test for an unknown size (ebml.cc:122, 144), which compares
with a value that still has the length marker that line 46 removed; what the models use of it is whether a head is
complete. `ControlledStream`, a counter that nothing constructs; `RFCOMM::Socket`, blocking sockets that
`main.cc` does not use; `Util`, which formats an address.

Of cpplint, the checks that match one line against a fixed regular expression (casts, operators
and commas, printf formats, line length, thread functions, CHECK macros and the like): a model of one would be the
expression again. Characters below the level of tokens, escapes inside strings, and the output formats.

Components that are not or partly modelled are listed with their reasons in `PROJECT.json`.

## What is left

1. `Ebml`: the variable-length integers as recursive functions over scaled widths,
   against the definition of EBML; unknown sizes, which the code never recognises.
2. The memory of fragments in flight, as a refinement of `StreamClient`'s packets.
3. `ControlledStream` and the RFCOMM channel search, should the program come to use them.
