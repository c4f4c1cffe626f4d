-------------------------------- MODULE Server --------------------------------
(***************************************************************************)
(* The publishing side of the process: main() up to its loop, the accept   *)
(* callback of start_publisher_server, and the lifetime of the StreamInput *)
(* and the Client behind the global `input`. Shown to implement Stream,    *)
(* the promise that the consumers of StreamClient rely on.                 *)
(*                                                                         *)
(* A StreamInput and its Client are made and deleted together. Deleting    *)
(* them stops reading, but closes nothing: a handle that is not closed yet *)
(* stays in the loop, in memory that is free. What the loop then does is   *)
(* undefined: it goes on as before, or the process dies (UseAfterFree).    *)
(* A callback for a connection attempt that failed does nothing.           *)
(***************************************************************************)
EXTENDS Integers

CONSTANTS
  FragmentLengths,       \* as in Stream
  HeaderLengths,
  UninitialisedLengths,
  MaxAge,                \* bound: number of fragments pushed
  MaxPublishers          \* bound: number of publishers that connect

ASSUME ServerAssumption ==
  /\ FragmentLengths \subseteq Nat \ {0}
  /\ HeaderLengths \subseteq Nat \ {0}
  /\ UninitialisedLengths \subseteq Nat
  /\ MaxAge \in Nat
  /\ MaxPublishers \in Nat

Publishers == 1 .. MaxPublishers  \* in the order in which they connect

None == 0

VARIABLES
  stage,         \* how far main() is
  registered,    \* whether the service can be found: the result is not looked at
  accepted,      \* calls of the accept callback
  connection,    \* the StreamInput and the Client of each
  input,         \* the global input of main.cc
  busy,          \* whose on_read is running
  header,        \* Stream::header_ and header_length_
  headerLength,
  fragmentAge,   \* Stream::fragment_age_ and fragment_
  fragment,
  headerFrom,    \* history: the publisher that set the header
  fragmentFrom,  \* history: the publisher that pushed the fragment
  overlap,       \* history: one connected before the last was closed, or in vain
  fault          \* how the process died, if it did

streamVars == <<header, headerLength, fragmentAge, fragment, headerFrom, fragmentFrom>>

mainVars == <<stage, registered>>

vars == <<mainVars, accepted, connection, input, busy, streamVars, overlap, fault>>

(* object: whether the memory is allocated. handle: the TCP handle in the  *)
(* loop. state: the class of state_. reading: whether the loop calls       *)
(* on_read for it.                                                         *)
Connection ==
  [object  : {"none", "live", "freed"},
   handle  : {"none", "open", "closing", "closed"},
   state   : {"detecting", "streaming"},
   reading : BOOLEAN]

NotConnected ==
  [object |-> "none", handle |-> "none", state |-> "detecting", reading |-> FALSE]

NoFragment == [age |-> 0, length |-> 0]

TypeOK ==
  /\ stage \in {"publisher_server", "adapter", "consumer_server", "service", "loop", "failed"}
  /\ registered \in BOOLEAN
  /\ accepted \in 0 .. MaxPublishers
  /\ connection \in [Publishers -> Connection]
  /\ input \in 0 .. accepted
  /\ busy \in {None, input}
  /\ header \in HeaderLengths \cup {0}
  /\ headerLength \in HeaderLengths \cup UninitialisedLengths
  /\ fragmentAge \in 0 .. MaxAge
  /\ fragment \in [age : 1 .. MaxAge, length : FragmentLengths] \cup {NoFragment}
  /\ headerFrom \in 0 .. input
  /\ fragmentFrom \in 0 .. headerFrom
  /\ overlap \in BOOLEAN
  /\ fault \in {"none", "null_session", "parsing", "use_after_free"}

Init ==
  /\ stage = "publisher_server"
  /\ registered = FALSE
  /\ accepted = 0
  /\ connection = [p \in Publishers |-> NotConnected]
  /\ input = None
  /\ busy = None
  /\ header = 0
  /\ headerLength \in UninitialisedLengths
  /\ fragmentAge = 0
  /\ fragment = NoFragment
  /\ headerFrom = None
  /\ fragmentFrom = None
  /\ overlap = FALSE
  /\ fault = "none"

-----------------------------------------------------------------------------
(* main().                                                                *)

Up == fault = "none"

Starting(at) ==
  /\ Up
  /\ stage = at
  /\ UNCHANGED <<accepted, connection, input, busy, streamVars, overlap>>

\* start_publisher_server or start_consumer_server: a failure ends main().
StartServer(at, next) ==
  /\ Starting(at)
  /\ stage' \in {next, "failed"}
  /\ UNCHANGED <<registered, fault>>

\* HCI::LocalDevice: a failure is printed, and its device info used as it is.
QueryAdapter ==
  /\ Starting("adapter")
  /\ stage' = "consumer_server"
  /\ UNCHANGED <<registered, fault>>

\* SDP::Session and register_service: the session is not tested for null, and
\* the result is dropped.
RegisterService ==
  /\ Starting("service")
  /\ \/ registered' \in BOOLEAN /\ stage' = "loop" /\ UNCHANGED fault
     \/ fault' = "null_session" /\ UNCHANGED mainVars

-----------------------------------------------------------------------------
(* The accept callback.                                                   *)

\* A callback of the loop can begin.
Loop == Up /\ stage = "loop" /\ busy = None

\* Client::Client and accept, StreamInput::StreamInput and run.
Running == [object |-> "live", handle |-> "open", state |-> "detecting", reading |-> TRUE]

\* The Client of a failed accept is deleted right after uv_close.
Rejected == [object |-> "freed", handle |-> "closing", state |-> "detecting", reading |-> FALSE]

\* Mutant: the destructor leaves the handle reading.
DeletedKeepsReading(c) == [c EXCEPT !.object = "freed"]

\* ~StreamInput and ~Client, which stops reading.
Deleted(c) == [c EXCEPT !.object = "freed", !.reading = FALSE]

Accepts ==
  /\ Loop
  /\ accepted < MaxPublishers
  /\ accepted' = accepted + 1
  /\ input' = accepted + 1
  /\ connection' = [p \in Publishers |->
                      IF p = accepted + 1 THEN Running
                      ELSE IF p = input THEN Deleted(connection[p])
                      ELSE connection[p]]
  /\ overlap' = (overlap \/ (input # None /\ connection[input].handle # "closed"))
  /\ UNCHANGED <<mainVars, busy, streamVars, fault>>

Rejects ==
  /\ Loop
  /\ accepted < MaxPublishers
  /\ accepted' = accepted + 1
  /\ connection' = [connection EXCEPT ![accepted + 1] = Rejected]
  /\ overlap' = TRUE
  /\ UNCHANGED <<mainVars, input, busy, streamVars, fault>>

-----------------------------------------------------------------------------
(* on_read. StreamInput models what it does with the data; here it is what *)
(* reaches the Stream.                                                     *)

OnRead ==
  /\ Loop
  /\ \E p \in Publishers :
       /\ connection[p].reading
       /\ busy' = p
  /\ UNCHANGED <<mainVars, accepted, connection, input, streamVars, overlap, fault>>

Processing ==
  /\ Up
  /\ busy # None
  /\ UNCHANGED <<mainVars, accepted, input, overlap>>

\* Mutant: the state object is not replaced.
EntersNothing(c) == c

\* change_state.
EntersStreaming(c) == [c EXCEPT !.state = "streaming"]

\* HeaderDetectionState has found the header: set_header, and the next state.
SetHeader ==
  /\ Processing
  /\ connection[busy].state = "detecting"
  /\ \E length \in HeaderLengths : header' = length /\ headerLength' = length
  /\ headerFrom' = busy
  /\ connection' = [connection EXCEPT ![busy] = EntersStreaming(@)]
  /\ UNCHANGED <<busy, fragmentAge, fragment, fragmentFrom, fault>>

\* StreamingState has filled a fragment: push_fragment.
PushFragment ==
  /\ Processing
  /\ connection[busy].state = "streaming"
  /\ fragmentAge < MaxAge
  /\ fragmentAge' = fragmentAge + 1
  /\ \E length \in FragmentLengths :
       fragment' = [age |-> fragmentAge + 1, length |-> length]
  /\ fragmentFrom' = busy
  /\ UNCHANGED <<connection, busy, header, headerLength, headerFrom, fault>>

ReadEnds ==
  /\ Processing
  /\ busy' = None
  /\ UNCHANGED <<connection, streamVars, fault>>

\* The data end the process, see StreamInput.
ReadDies ==
  /\ Processing
  /\ fault' = "parsing"
  /\ UNCHANGED <<connection, busy, streamVars>>

\* Mutant: the StreamInput and its Client are deleted as soon as they close.
HungUpDeleted(c) == [c EXCEPT !.object = "freed", !.handle = "closing", !.reading = FALSE]

\* uv_close, which stops reading.
HungUp(c) == [c EXCEPT !.handle = "closing", !.reading = FALSE]

\* on_read with nread < 0.
HangsUp ==
  /\ Loop
  /\ \E p \in Publishers :
       /\ connection[p].reading
       /\ connection' = [connection EXCEPT ![p] = HungUp(@)]
  /\ UNCHANGED <<mainVars, accepted, input, busy, streamVars, overlap, fault>>

\* The close callback, which prints a line; a rejected handle's does nothing.
Closed ==
  /\ Loop
  /\ \E p \in Publishers :
       /\ connection[p].handle = "closing"
       /\ connection' = [connection EXCEPT ![p].handle = "closed"]
  /\ UNCHANGED <<mainVars, accepted, input, busy, streamVars, overlap, fault>>

\* Memory that is free and that the loop still refers to.
Dangling == {p \in Publishers : /\ connection[p].object = "freed"
                                /\ connection[p].handle \in {"open", "closing"}}

UseAfterFree ==
  /\ Loop
  /\ Dangling # {}
  /\ fault' = "use_after_free"
  /\ UNCHANGED <<mainVars, accepted, connection, input, busy, streamVars, overlap>>

Next ==
  \/ StartServer("publisher_server", "adapter")
  \/ QueryAdapter
  \/ StartServer("consumer_server", "service")
  \/ RegisterService
  \/ Accepts
  \/ Rejects
  \/ OnRead
  \/ SetHeader
  \/ PushFragment
  \/ ReadEnds
  \/ ReadDies
  \/ HangsUp
  \/ Closed
  \/ UseAfterFree

Spec == Init /\ [][Next]_vars

-----------------------------------------------------------------------------
(* Properties.                                                            *)

(* Publishers that connect while another one is served replace it, and     *)
(* never mix with it: what is pushed comes from the publisher connected    *)
(* last and follows its own header, which it sets once. A consumer that    *)
(* asks for header and fragment at one moment gets a fragment that is at   *)
(* most too old. That rests on ~Client, which stops a replaced one.        *)
OneMovieAtATime ==
  [][/\ headerFrom' # headerFrom \/ header' # header
          => headerFrom' = input /\ headerFrom < input
     /\ fragmentAge' # fragmentAge
          => fragmentFrom' = input /\ headerFrom = input]_vars

(* The loop never refers to freed memory, and no connection is left open   *)
(* behind, provided that each publisher is accepted and connects after the *)
(* close callback of the one before: its Client outlives its handle.       *)
ReleasedInOrder ==
  ~overlap =>
    /\ Dangling = {}
    /\ fault # "use_after_free"
    /\ \A p \in Publishers : p < input => connection[p].handle = "closed"

\* What the consumers see of a publisher.
Publisher ==
  IF input = None THEN "none"
  ELSE IF connection[input].handle = "open" THEN connection[input].state
  ELSE "closed"

S == INSTANCE Stream WITH input <- Publisher, streamRunning <- TRUE

(* The publishing side keeps the promise that Stream makes to consumers:   *)
(* a header before any fragment of a publisher, ages without a gap, and    *)
(* nothing pushed by a connection that was replaced or has ended.          *)
PublishesAsStream == S!StreamSpec
===============================================================================
