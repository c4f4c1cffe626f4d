------------------------------- MODULE Stream -------------------------------
(***************************************************************************)
(* The Stream object of src/src/stream.cc, the only state that publishers  *)
(* and consumers share, and the promise the publishing side makes about    *)
(* it: a header is set before any fragment is pushed, and every push       *)
(* replaces the latest fragment and raises the age by one.                 *)
(*                                                                         *)
(* A header is represented by the length of the memory header_ owns, 0     *)
(* for the null pointer; a fragment by its age and its data_length().      *)
(* Lengths count units of the packetisation, see StreamClient.             *)
(***************************************************************************)
EXTENDS Integers

CONSTANTS
  FragmentLengths,       \* lengths a pushed fragment can have
  HeaderLengths,         \* lengths a detected header can have
  UninitialisedLengths,  \* what header_length_ may hold before set_header:
                         \* the constructor does not initialise it
  MaxAge                 \* bound: number of fragments pushed

ASSUME StreamAssumption ==
  /\ FragmentLengths \subseteq Nat \ {0}
  /\ HeaderLengths \subseteq Nat \ {0}
  /\ UninitialisedLengths \subseteq Nat
  /\ MaxAge \in Nat

VARIABLES
  input,          \* the publisher behind the global `input` of main.cc
  streamRunning,  \* Stream::running_
  header,         \* Stream::header_
  headerLength,   \* Stream::header_length_
  fragmentAge,    \* Stream::fragment_age_
  fragment        \* Stream::fragment_

streamVars ==
  <<input, streamRunning, header, headerLength, fragmentAge, fragment>>

NoFragment == [age |-> 0, length |-> 0]

Fragment == [age : Nat \ {0}, length : FragmentLengths]

InputStates == {"none", "detecting", "streaming", "closed"}

StreamTypeOK ==
  /\ input \in InputStates
  /\ streamRunning \in BOOLEAN
  /\ header \in HeaderLengths \cup {0}
  /\ headerLength \in HeaderLengths \cup UninitialisedLengths
  /\ fragmentAge \in Nat
  /\ fragment \in Fragment \cup {NoFragment}

\* Stream::Stream: every member but header_length_ is initialised.
StreamInit ==
  /\ input = "none"
  /\ streamRunning = TRUE
  /\ header = 0
  /\ headerLength \in UninitialisedLengths
  /\ fragmentAge = 0
  /\ fragment = NoFragment

-----------------------------------------------------------------------------
(* A publisher connects: main.cc replaces the global input, whatever it   *)
(* was doing, and run() starts reading with a HeaderDetectionState.       *)
PublisherConnects ==
  /\ input' = "detecting"
  /\ UNCHANGED <<streamRunning, header, headerLength, fragmentAge, fragment>>

\* Mutant: header_length counts one byte that the header does not have.
SetHeaderLong ==
  /\ input = "detecting"
  /\ input' = "streaming"
  /\ \E length \in HeaderLengths :
       header' = length /\ headerLength' = length + 1
  /\ UNCHANGED <<streamRunning, fragmentAge, fragment>>

\* Stream::set_header, called once per publisher when its header is found.
SetHeader ==
  /\ input = "detecting"
  /\ input' = "streaming"
  /\ \E length \in HeaderLengths : header' = length /\ headerLength' = length
  /\ UNCHANGED <<streamRunning, fragmentAge, fragment>>

\* Stream::push_fragment: the new fragment replaces the one before it.
PushFragment ==
  /\ input = "streaming"
  /\ fragmentAge < MaxAge
  /\ fragmentAge' = fragmentAge + 1
  /\ \E length \in FragmentLengths :
       fragment' = [age |-> fragmentAge + 1, length |-> length]
  /\ UNCHANGED <<input, streamRunning, header, headerLength>>

(* The publisher's connection ends: StreamInput::on_read with nread < 0.  *)
(* Only the StreamInput's own running_ is cleared, never the Stream's.    *)
PublisherCloses ==
  /\ input \in {"detecting", "streaming"}
  /\ input' = "closed"
  /\ UNCHANGED <<streamRunning, header, headerLength, fragmentAge, fragment>>

StreamNext ==
  \/ PublisherConnects
  \/ SetHeader
  \/ PushFragment
  \/ PublisherCloses

StreamSpec == StreamInit /\ [][StreamNext]_streamVars
=============================================================================
