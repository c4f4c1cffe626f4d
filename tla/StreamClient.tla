---------------------------- MODULE StreamClient ----------------------------
(***************************************************************************)
(* Consumers: StreamClient and its base Client, and the accept callback    *)
(* of start_consumer_server in main.cc that owns them.                     *)
(*                                                                         *)
(* Everything runs on one libuv loop, so each callback is one action. A    *)
(* StreamClient acts only through what it leaves in the loop: its timer    *)
(* (which callback uv_timer_start armed), its write request, or a close    *)
(* under way. Timers may fire and writes may complete in any order: the    *)
(* 0, 200 and 1000 ms delays are not modelled.                             *)
(*                                                                         *)
(* A connection accepted while another one is served overwrites the global *)
(* stream_client, which deletes the previous object. Memory the loop still *)
(* refers to is then freed. What follows is undefined: either nothing      *)
(* reuses the memory and its callbacks go on as before ("dangling"), or    *)
(* the process dies (UseAfterFree).                                        *)
(***************************************************************************)
EXTENDS Stream

CONSTANTS
  Consumers,   \* accepted connections, one StreamClient each
  PacketSize,  \* PACKET_SIZE of write_fragment
  None         \* a null stream_client

ASSUME ConsumerAssumption ==
  /\ PacketSize \in Nat \ {0}
  /\ None \notin Consumers

VARIABLES
  client,   \* the StreamClient of each connection
  current,  \* the global stream_client of main.cc
  fault     \* how the process died, if it did

vars == <<streamVars, client, current, fault>>

(* One StreamClient. object: whether its memory is allocated. handle: its  *)
(* TCP handle; a "rejected" handle is closing because accept failed.       *)
(* timer: the callback armed on timer_. write: the callback of the write   *)
(* in flight, and buf the fragment its bytes belong to. running, age,      *)
(* offset, length: running_, age_, fragment_offset_, fragment_length_.     *)
(* parts is a history: the ages of the fragments whose bytes were written  *)
(* since fragment_offset_ was last 0.                                      *)
Client ==
  [object  : {"none", "live", "freed", "dangling"},
   handle  : {"none", "open", "closing", "rejected", "closed"},
   timer   : {"off", "write_header", "write_fragment", "close"},
   write   : {"none", "http", "header", "fragment"},
   buf     : Fragment \cup {NoFragment},
   running : BOOLEAN,
   age     : Nat,
   offset  : Nat,
   length  : Nat,
   parts   : SUBSET Nat]

NotConnected ==
  [object |-> "none", handle |-> "none", timer |-> "off", write |-> "none",
   buf |-> NoFragment, running |-> FALSE, age |-> 0, offset |-> 0,
   length |-> 0, parts |-> {}]

TypeOK ==
  /\ StreamTypeOK
  /\ client \in [Consumers -> Client]
  /\ current \in Consumers \cup {None}
  /\ fault \in {"none", "null_header", "use_after_free"}

Init ==
  /\ StreamInit
  /\ client = [c \in Consumers |-> NotConnected]
  /\ current = None
  /\ fault = "none"

-----------------------------------------------------------------------------
(* The member functions, as functions from a StreamClient to itself.      *)

Arm(s, callback) == [s EXCEPT !.timer = callback]

Send(s, callback, owner) == [s EXCEPT !.write = callback, !.buf = owner]

Closing(s) == s.handle \in {"closing", "rejected"}

Pending(s) == s.write # "none" \/ Closing(s)

\* StreamClient::StreamClient and Client::Client.
Constructed ==
  [NotConnected EXCEPT !.object = "live", !.running = TRUE]

\* Mutant: the destructor leaves the timer armed.
DestroyedTimerRuns(s) ==
  [s EXCEPT !.object = IF Pending(s) THEN "dangling" ELSE "freed"]

\* ~StreamClient: uv_timer_stop disarms the timer; uv_cancel has no effect on
\* a write request, and neither the handle nor the timer is closed.
Destroyed(s) ==
  [s EXCEPT !.timer = "off",
            !.object = IF Pending(s) THEN "dangling" ELSE "freed"]

\* Client::accept succeeded and run() wrote the HTTP header.
Run(s) == Send([s EXCEPT !.handle = "open"], "http", NoFragment)

\* StreamClient::write_header, when the stream has a header to dereference.
WriteHeader(s) ==
  IF headerLength = 0
    THEN Arm(s, "write_header")
    ELSE Send(s, "header", NoFragment)

\* The part of the rest of a fragment that one packet carries.
PacketLengthUncut(rest) == PacketSize  \* mutant: no shorter last packet

PacketLength(rest) ==
  IF rest >= PacketSize + PacketSize \div 2 THEN PacketSize ELSE rest

\* No fragment is newer than the last one finished.
UpToDateLate(s) == s.age > fragmentAge  \* mutant: off by one

UpToDate(s) == s.age >= fragmentAge

\* fragment_offset_ is at or beyond the end of the latest fragment.
UsedUpEarly(s) == s.offset >= fragment.length - 1  \* mutant: off by one

UsedUp(s) == s.offset >= fragment.length

(* The current fragment is used up: wait for the next one. Its mutants     *)
(* forget fragment_offset_, and age_.                                      *)
FinishKeepsOffset(s) == [s EXCEPT !.age = fragmentAge, !.parts = {}]

FinishKeepsAge(s) == [s EXCEPT !.offset = 0, !.parts = {}]

Finish(s) == [s EXCEPT !.age = fragmentAge, !.offset = 0, !.parts = {}]

SendPacket(s) ==
  Send([s EXCEPT !.length = PacketLength(fragment.length - s.offset)],
       "fragment", fragment)

\* StreamClient::write_fragment.
WriteFragment(s) ==
  IF ~s.running THEN s
  ELSE IF ~streamRunning THEN Arm(s, "close")
  ELSE IF UpToDate(s) THEN Arm(s, "write_fragment")
  ELSE IF UsedUp(s) THEN Arm(Finish(s), "write_fragment")
  ELSE SendPacket(s)

\* A write completed: its request is out of the queue when the callback runs.
Written(s) == [s EXCEPT !.write = "none", !.buf = NoFragment]

\* write_fragment's completion callback, which goes on with the next packet.
PacketWritten(s) ==
  WriteFragment([Written(s) EXCEPT !.offset = @ + s.length,
                                   !.parts = @ \cup {s.buf.age}])

-----------------------------------------------------------------------------
Up == fault = "none"

\* A callback of connection c turns its StreamClient into s.
Becomes(c, s) ==
  /\ client' = [client EXCEPT ![c] = s]
  /\ UNCHANGED <<streamVars, current, fault>>

(* on_connect with a good status: the new object replaces, and so deletes, *)
(* the one before it, and is then accepted (run) or rejected (close).      *)
Connect(c, new) ==
  /\ Up
  /\ client[c].object = "none"
  /\ client' = [d \in Consumers |->
                  IF d = c THEN new
                  ELSE IF d = current THEN Destroyed(client[d])
                  ELSE client[d]]
  /\ current' = c
  /\ UNCHANGED <<streamVars, fault>>

Accepts(c) == Connect(c, Run(Constructed))

Rejects(c) == Connect(c, [Constructed EXCEPT !.handle = "rejected"])

\* The completion callbacks of the three writes, with status 0.
HttpHeaderWritten(c) ==
  /\ Up
  /\ client[c].write = "http"
  /\ Becomes(c, Arm(Written(client[c]), "write_header"))

HeaderWritten(c) ==
  /\ Up
  /\ client[c].write = "header"
  /\ Becomes(c, Arm(Written(client[c]), "write_fragment"))

FragmentWritten(c) ==
  /\ Up
  /\ client[c].write = "fragment"
  /\ Becomes(c, PacketWritten(client[c]))

\* Any of the three with another status: the peer is gone.
WriteFails(c) ==
  /\ Up
  /\ client[c].write # "none"
  /\ Becomes(c, Arm(Written(client[c]), "close"))

Fires(c, callback) == Up /\ client[c].timer = callback

HeaderTimer(c) ==
  /\ Fires(c, "write_header")
  /\ headerLength # 0 => header # 0
  /\ Becomes(c, WriteHeader(Arm(client[c], "off")))

\* write_header prints the bytes of a header that header_length_ claims and
\* header_ does not have (the build defines DEBUG_CONSUMER).
NullHeaderTimer(c) ==
  /\ Fires(c, "write_header")
  /\ headerLength # 0 /\ header = 0
  /\ fault' = "null_header"
  /\ UNCHANGED <<streamVars, client, current>>

FragmentTimer(c) ==
  /\ Fires(c, "write_fragment")
  /\ Becomes(c, WriteFragment(Arm(client[c], "off")))

\* Mutant: the close callback forgets uv_close.
CloseTimerIdle(c) ==
  /\ Fires(c, "close")
  /\ Becomes(c, Arm(client[c], "off"))

\* close_static: uv_close.
CloseTimer(c) ==
  /\ Fires(c, "close")
  /\ Becomes(c, [Arm(client[c], "off") EXCEPT !.handle = "closing"])

\* The close callback: on_close clears running_; a rejected handle's is empty.
Closed(c) ==
  /\ Up
  /\ Closing(client[c])
  /\ Becomes(c, [client[c] EXCEPT
                   !.handle = "closed",
                   !.running = @ /\ client[c].handle = "rejected"])

(* The loop touches the memory of a deleted StreamClient: a callback of    *)
(* its own, or a neighbour in the loop's list of handles, from which the   *)
(* destructor removes neither its TCP handle nor its timer.                *)
UseAfterFree ==
  /\ Up
  /\ \E c \in Consumers : client[c].object \in {"freed", "dangling"}
  /\ fault' = "use_after_free"
  /\ UNCHANGED <<streamVars, client, current>>

Publish ==
  /\ Up
  /\ StreamNext
  /\ UNCHANGED <<client, current, fault>>

WriteCompletes(c) ==
  \/ HttpHeaderWritten(c)
  \/ HeaderWritten(c)
  \/ FragmentWritten(c)
  \/ WriteFails(c)

TimerFires(c) ==
  \/ HeaderTimer(c)
  \/ NullHeaderTimer(c)
  \/ FragmentTimer(c)
  \/ CloseTimer(c)

Next ==
  \/ Publish
  \/ UseAfterFree
  \/ \E c \in Consumers :
       \/ Accepts(c)
       \/ Rejects(c)
       \/ WriteCompletes(c)
       \/ TimerFires(c)
       \/ Closed(c)

Spec == Init /\ [][Next]_vars

(* The loop runs armed timers and close callbacks; the connection either  *)
(* takes the bytes of a write or breaks.                                  *)
Fairness ==
  \A c \in Consumers :
    /\ WF_vars(TimerFires(c))
    /\ WF_vars(Closed(c))
    /\ WF_vars(WriteCompletes(c))

FairSpec == Spec /\ Fairness

-----------------------------------------------------------------------------
(* Safety.                                                                *)

\* What the loop will call back into the object for.
Continuations(s) ==
  {k \in {"timer", "write", "close"} :
     \/ k = "timer" /\ s.timer # "off"
     \/ k = "write" /\ s.write # "none"
     \/ k = "close" /\ Closing(s)}

(* A served connection always has exactly one event pending in the loop:   *)
(* never two chains of callbacks writing to it (uv_timer_start, uv_write   *)
(* and the direct call of write_fragment from a completion callback), and  *)
(* never none, which would leave it open and silent. A closed connection, *)
(* and a deleted object that had nothing in flight, are never called back. *)
OneContinuation ==
  \A c \in Consumers :
    LET s == client[c] IN
      /\ \A j, k \in Continuations(s) : j = k
      /\ s.object \in {"live", "dangling"} /\ s.handle # "closed"
           => Continuations(s) # {}
      /\ s.object \in {"none", "freed"} \/ s.handle = "closed"
           => Continuations(s) = {}

(* The packet in flight lies inside the fragment it was cut from and is    *)
(* not empty, although fragment_offset_ may have advanced over another,    *)
(* longer fragment (fragment_length - fragment_offset_ is unsigned).       *)
PacketInBounds ==
  \A c \in Consumers :
    LET s == client[c] IN
      s.write = "fragment" =>
        /\ s.length > 0
        /\ s.offset + s.length <= s.buf.length

(* No packet is cut from a fragment the consumer has already finished, and *)
(* age_ never runs ahead of the stream.                                    *)
NoResend ==
  \A c \in Consumers :
    LET s == client[c] IN
      /\ s.age <= fragmentAge
      /\ s.write = "fragment" => s.age < s.buf.age

(* write_fragment never goes back to polling in the middle of a fragment:  *)
(* once a fragment is begun, packets follow each other directly.           *)
NeverWaitsMidFragment ==
  \A c \in Consumers :
    client[c].timer \in {"write_header", "write_fragment"}
      => client[c].offset = 0 /\ client[c].parts = {}

(* When a consumer marks a fragment as finished and every byte since the   *)
(* last one came from it, then exactly its bytes were written: no packet   *)
(* missing, none twice.                                                    *)
FinishesWhole(c) ==
  LET s == client[c]
      t == client'[c]
  IN  t.age > s.age /\ s.parts \cup {s.buf.age} = {t.age}
        => s.offset + s.length = s.buf.length

WholeFragmentUnlessOvertaken ==
  [][\A c \in Consumers : FinishesWhole(c)]_vars

-----------------------------------------------------------------------------
(* Liveness.                                                              *)

\* The connection has failed, was replaced, or the process died.
Gone(c) ==
  \/ client[c].object # "live"
  \/ client[c].timer = "close"
  \/ client[c].handle # "open"
  \/ ~Up

(* Every fragment is reached: a consumer that stays connected eventually   *)
(* brings age_ to it or to one pushed after it. It never polls for ever    *)
(* beside a newer fragment, or circles among the packets of an old one.    *)
EveryAgeReached ==
  \A c \in Consumers : \A k \in 1 .. MaxAge :
    (client[c].handle = "open" /\ fragmentAge >= k)
      ~> (client[c].age >= k \/ Gone(c))

\* A failed write or accept ends with a closed handle, unless the object is
\* deleted while it waits to close.
FailureCloses ==
  \A c \in Consumers :
    (client[c].timer = "close" \/ Closing(client[c]))
      ~> (client[c].handle = "closed" \/ client[c].object = "freed" \/ ~Up)

-----------------------------------------------------------------------------
(* What comments of the source say and the code does not do.              *)

(* stream_client.cc:154 "Process Current Fragment.": the packets between   *)
(* two finished fragments all come from one fragment.                      *)
PacketsOfOneFragment ==
  \A c \in Consumers : \A j, k \in client[c].parts : j = k

(* stream_client.cc:124 "Since an input stream was closed, close the       *)
(* output stream.": after the publisher's connection ended the consumer's  *)
(* is closed, unless another publisher comes.                              *)
InputCloseClosesOutput ==
  \A c \in Consumers :
    (input = "closed" /\ client[c].handle = "open")
      ~> (client[c].handle # "open" \/ input # "closed"
            \/ client[c].object # "live" \/ ~Up)

(* stream_client.cc:66 "Wait for a header prepared.": write_header leaves  *)
(* a header alone that no publisher has set.                               *)
WaitsForHeader == fault # "null_header"
=============================================================================
