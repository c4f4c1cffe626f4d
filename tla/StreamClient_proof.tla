------------------------- MODULE StreamClient_proof -------------------------
(***************************************************************************)
(* The safety of StreamClient for any number of connections, any packet    *)
(* size, any fragment lengths and any number of fragments: its invariants  *)
(* and its action property follow from the inductive invariant IInv, which *)
(* is a fact about each connection's record and the latest fragment.       *)
(***************************************************************************)
EXTENDS StreamClient, TLAPS

USE StreamAssumption, ConsumerAssumption DEF StreamAssumption, ConsumerAssumption

(* What is true of every StreamClient between two callbacks. The third     *)
(* conjunct of the fragment write ties the buffer to the stream: a buffer  *)
(* as old as the latest fragment is the latest fragment.                   *)
Good(s) ==
  /\ \A j, k \in Continuations(s) : j = k
  /\ s.object \in {"live", "dangling"} /\ s.handle # "closed"
       => Continuations(s) # {} /\ s.running
  /\ s.object \in {"none", "freed"} \/ s.handle = "closed"
       => Continuations(s) = {}
  /\ s.age <= fragmentAge
  /\ s.write \in {"http", "header"}
       \/ s.timer \in {"write_header", "write_fragment"}
       => s.offset = 0 /\ s.parts = {}
  /\ s.write = "fragment" =>
       /\ s.age < s.buf.age
       /\ s.buf.age <= fragmentAge
       /\ s.buf.age = fragmentAge => s.buf = fragment
       /\ s.length > 0
       /\ s.offset + s.length <= s.buf.length

IInv ==
  /\ TypeOK
  /\ fragment.age = fragmentAge
  /\ \A c \in Consumers : Good(client[c])
-----------------------------------------------------------------------------
(* The member functions keep records in Client, and what they return is    *)
(* Good.                                                                   *)

\* A packet is not empty and is no longer than the rest it is cut from.
LEMMA PacketLengthBounds ==
  ASSUME NEW rest \in Nat \ {0}
  PROVE  /\ PacketLength(rest) \in Nat \ {0}
         /\ PacketLength(rest) <= rest
  BY DEF PacketLength

\* Between a push and the next the latest fragment is well formed.
LEMMA LatestFragment ==
  ASSUME TypeOK, fragment.age = fragmentAge, fragmentAge > 0
  PROVE  fragment \in Fragment /\ fragment.length \in Nat \ {0}
  <1>1. fragment \in Fragment \cup {NoFragment}
    BY DEF TypeOK, StreamTypeOK
  <1>2. fragment # NoFragment
    BY DEF NoFragment
  <1>3. fragment.length \in FragmentLengths
    BY <1>1, <1>2 DEF Fragment
  <1> QED
    BY <1>1, <1>2, <1>3

\* write_fragment, entered with nothing pending, leaves one event pending.
LEMMA WriteFragmentGood ==
  ASSUME TypeOK, fragment.age = fragmentAge,
         NEW s \in Client,
         Continuations(s) = {},
         s.object \in {"live", "dangling"},
         s.handle # "closed" /\ s.running,
         s.age <= fragmentAge,
         s.age = fragmentAge => s.offset = 0 /\ s.parts = {}
  PROVE  WriteFragment(s) \in Client /\ Good(WriteFragment(s))
  <1>1. s.timer = "off" /\ s.write = "none" /\ ~Closing(s)
    BY DEF Continuations
  <1>2. /\ fragmentAge \in Nat
        /\ fragment \in Fragment \cup {NoFragment}
    BY DEF TypeOK, StreamTypeOK
  <1>3. CASE ~s.running
    BY <1>1, <1>3 DEF WriteFragment, Good, Continuations
  <1>4. CASE s.running /\ ~streamRunning
    <2>1. WriteFragment(s) = [s EXCEPT !.timer = "close"]
      BY <1>4 DEF WriteFragment, Arm
    <2> QED
      BY <1>1, <1>4, <2>1 DEF Client, Good, Continuations, Closing
  <1>5. CASE s.running /\ streamRunning /\ UpToDate(s)
    <2>1. WriteFragment(s) = [s EXCEPT !.timer = "write_fragment"]
      BY <1>5 DEF WriteFragment, Arm
    <2>2. s.offset = 0 /\ s.parts = {}
      BY <1>2, <1>5 DEF UpToDate, Client
    <2> QED
      BY <1>1, <1>5, <2>1, <2>2 DEF Client, Good, Continuations, Closing
  <1>6. CASE s.running /\ streamRunning /\ ~UpToDate(s) /\ UsedUp(s)
    <2>1. WriteFragment(s) = [s EXCEPT !.age = fragmentAge, !.offset = 0,
                                       !.parts = {}, !.timer = "write_fragment"]
      BY <1>6 DEF WriteFragment, Arm, Finish, Client
    <2>2. WriteFragment(s) \in Client
      <3>1. Finish(s) \in Client
        BY <1>2 DEF Finish, Client
      <3>2. WriteFragment(s) = Arm(Finish(s), "write_fragment")
        BY <1>6 DEF WriteFragment
      <3> QED
        BY <3>1, <3>2 DEF Arm, Client
    <2>3. Continuations(WriteFragment(s)) = {"timer"}
      BY <1>1, <2>1 DEF Client, Continuations, Closing
    <2> QED
      BY <1>1, <1>2, <1>6, <2>1, <2>2, <2>3 DEF Client, Good
  <1>7. CASE s.running /\ streamRunning /\ ~UpToDate(s) /\ ~UsedUp(s)
    <2> DEFINE rest == fragment.length - s.offset
    <2>1. WriteFragment(s) = [s EXCEPT !.length = PacketLength(rest),
                                       !.write = "fragment", !.buf = fragment]
      BY <1>7 DEF WriteFragment, SendPacket, Send, Client
    <2>2. s.age < fragmentAge /\ s.offset < fragment.length
      <3>1. fragment.length \in Nat
        <4>1. CASE fragment \in Fragment
          BY <4>1 DEF Fragment
        <4>2. CASE fragment = NoFragment
          BY <4>2 DEF NoFragment
        <4> QED
          BY <1>2, <4>1, <4>2
      <3> QED
        BY <1>2, <1>7, <3>1 DEF UpToDate, UsedUp, Client
    <2>3. rest \in Nat \ {0}
      BY <1>2, <2>2, LatestFragment DEF Client
    <2>4. /\ PacketLength(rest) \in Nat \ {0}
          /\ s.offset + PacketLength(rest) <= fragment.length
      BY <2>2, <2>3, PacketLengthBounds, LatestFragment, <1>2 DEF Client
    <2> HIDE DEF rest
    <2>5. WriteFragment(s) \in Client
      BY <1>2, <2>1, <2>4 DEF Client
    <2>6. Continuations(WriteFragment(s)) = {"write"}
      BY <1>1, <2>1 DEF Client, Continuations, Closing
    <2> QED
      BY <1>1, <1>2, <1>7, <2>1, <2>2, <2>4, <2>5, <2>6 DEF Client, Good
  <1> QED
    BY <1>3, <1>4, <1>5, <1>6, <1>7

\* The same for write_fragment as it is called by the completion callback.
LEMMA PacketWrittenGood ==
  ASSUME TypeOK, fragment.age = fragmentAge,
         NEW s \in Client, Good(s), s.write = "fragment"
  PROVE  PacketWritten(s) \in Client /\ Good(PacketWritten(s))
  <1> DEFINE t == [Written(s) EXCEPT !.offset = @ + s.length,
                                     !.parts = @ \cup {s.buf.age}]
  <1>1. s.buf.age \in Nat
    BY DEF Client, Fragment, NoFragment
  <1>2. Written(s) \in Client
    BY DEF Written, Client
  <1>3. t \in Client
    <2>1. Written(s).offset + s.length \in Nat
      BY <1>2 DEF Client
    <2>2. Written(s).parts \cup {s.buf.age} \in SUBSET Nat
      BY <1>1, <1>2 DEF Client
    <2> QED
      BY <1>2, <2>1, <2>2 DEF Client
  <1>4. /\ t.object = s.object /\ t.handle = s.handle /\ t.timer = s.timer
        /\ t.write = "none" /\ t.running = s.running /\ t.age = s.age
    BY <1>2 DEF Written, Client
  <1>5. Continuations(s) = {"write"}
    BY DEF Good, Continuations
  <1>6. Continuations(t) = {}
    BY <1>4, <1>5 DEF Continuations, Closing
  <1>7. /\ t.object \in {"live", "dangling"}
        /\ t.handle # "closed" /\ t.running
        /\ t.age < fragmentAge
    <2>1. s.age < fragmentAge
      BY <1>1 DEF Good, Client, TypeOK, StreamTypeOK
    <2> QED
      BY <1>4, <1>5, <2>1 DEF Good, Client
  <1>8. PacketWritten(s) = WriteFragment(t)
    BY DEF PacketWritten
  <1> HIDE DEF t
  <1>9. t.age <= fragmentAge /\ t.age # fragmentAge
    BY <1>3, <1>7 DEF Client, TypeOK, StreamTypeOK
  <1> QED
    BY <1>3, <1>6, <1>7, <1>8, <1>9, WriteFragmentGood

\* uv_timer_start of a callback that does not write leaves one event pending.
LEMMA ArmGood ==
  ASSUME NEW s \in Client, Continuations(s) = {},
         NEW callback \in {"write_header", "write_fragment", "close"},
         s.object \in {"live", "dangling"},
         s.handle # "closed" /\ s.running,
         s.age <= fragmentAge,
         callback = "close" \/ (s.offset = 0 /\ s.parts = {})
  PROVE  Arm(s, callback) \in Client /\ Good(Arm(s, callback))
  <1>1. Arm(s, callback) \in Client
    BY DEF Arm, Client
  <1>2. s.write = "none" /\ ~Closing(s)
    BY DEF Continuations
  <1>3. Continuations(Arm(s, callback)) = {"timer"}
    BY <1>2 DEF Arm, Client, Continuations, Closing
  <1> QED
    BY <1>1, <1>2, <1>3 DEF Arm, Client, Good

\* The callback of a write, or of a timer, starts with nothing pending.
LEMMA WrittenPending ==
  ASSUME TypeOK, NEW s \in Client, Good(s), s.write # "none"
  PROVE  /\ Written(s) \in Client
         /\ Continuations(Written(s)) = {}
         /\ s.object \in {"live", "dangling"}
         /\ s.handle # "closed" /\ s.running
  <1>1. Continuations(s) = {"write"}
    BY DEF Good, Continuations
  <1>2. Written(s) \in Client
    BY DEF Written, Client
  <1>3. Continuations(Written(s)) = {}
    BY <1>1 DEF Written, Client, Continuations, Closing
  <1> QED
    BY <1>1, <1>2, <1>3 DEF Good, Client

LEMMA FiredPending ==
  ASSUME TypeOK, NEW s \in Client, Good(s), s.timer # "off"
  PROVE  /\ Arm(s, "off") \in Client
         /\ Continuations(Arm(s, "off")) = {}
         /\ s.object \in {"live", "dangling"}
         /\ s.handle # "closed" /\ s.running
  <1>1. Continuations(s) = {"timer"}
    BY DEF Good, Continuations
  <1>2. Arm(s, "off") \in Client
    BY DEF Arm, Client
  <1>3. Continuations(Arm(s, "off")) = {}
    BY <1>1 DEF Arm, Client, Continuations, Closing
  <1> QED
    BY <1>1, <1>2, <1>3 DEF Good, Client

-----------------------------------------------------------------------------
(* Every step of Next keeps IInv.                                          *)

\* A callback touches one connection: if it leaves its record Good, IInv
\* holds again.
LEMMA BecomesGood ==
  ASSUME IInv, NEW c \in Consumers, NEW s \in Client, Good(s), Becomes(c, s)
  PROVE  IInv'
  <1>1. \A t \in Client : Good(t) => Good(t)'
    BY DEF Becomes, streamVars, Good
  <1>2. \A d \in Consumers : client'[d] \in Client /\ Good(client'[d])
    BY DEF Becomes, IInv, TypeOK
  <1>3. TypeOK'
    BY <1>2 DEF Becomes, IInv, TypeOK, StreamTypeOK, streamVars
  <1>4. (fragment.age = fragmentAge)'
    BY DEF Becomes, IInv, streamVars
  <1> QED
    BY <1>1, <1>2, <1>3, <1>4 DEF IInv

\* The publisher changes no connection, and a push only makes fragments in
\* flight older than the latest one.
LEMMA PublishIInv ==
  ASSUME IInv, Publish
  PROVE  IInv'
  <1>1. StreamTypeOK' /\ (fragment.age = fragmentAge)'
    <2>1. CASE PublisherConnects \/ PublisherCloses
      BY <2>1 DEF IInv, TypeOK, StreamTypeOK, InputStates, PublisherConnects,
                  PublisherCloses
    <2>2. CASE SetHeader
      BY <2>2 DEF IInv, TypeOK, StreamTypeOK, InputStates, SetHeader
    <2>3. CASE PushFragment
      BY <2>3 DEF IInv, TypeOK, StreamTypeOK, Fragment, PushFragment
    <2> QED
      BY <2>1, <2>2, <2>3 DEF Publish, StreamNext
  <1>2. TypeOK'
    BY <1>1 DEF IInv, TypeOK, Publish
  <1>3. \/ fragmentAge' = fragmentAge /\ fragment' = fragment
        \/ fragmentAge' = fragmentAge + 1
    BY DEF Publish, StreamNext, PublisherConnects, PublisherCloses, SetHeader,
           PushFragment
  <1>4. ASSUME NEW c \in Consumers
        PROVE  Good(client[c])'
    <2> DEFINE s == client[c]
    <2>1. s \in Client /\ Good(s) /\ s' = s /\ fragmentAge \in Nat
      BY DEF IInv, TypeOK, StreamTypeOK, Publish
    <2>2. s.age \in Nat /\ s.buf.age \in Nat
      BY <2>1 DEF Client, Fragment, NoFragment
    <2> HIDE DEF s
    <2>3. CASE fragmentAge' = fragmentAge /\ fragment' = fragment
      <3>1. Good(s)'
        BY <2>1, <2>3 DEF Good, Continuations, Closing
      <3> QED
        BY <3>1 DEF s
    <2>4. CASE fragmentAge' = fragmentAge + 1
      <3>1. Good(s)'
        BY <2>1, <2>2, <2>4 DEF Good, Continuations, Closing
      <3> QED
        BY <3>1 DEF s
    <2> QED
      BY <1>3, <2>3, <2>4
  <1> QED
    BY <1>1, <1>2, <1>4 DEF IInv

\* An object deleted with a write or a close pending keeps just that; any
\* other keeps nothing.
LEMMA DestroyedGood ==
  ASSUME TypeOK, NEW s \in Client, Good(s)
  PROVE  Destroyed(s) \in Client /\ Good(Destroyed(s))
  <1>1. Destroyed(s) \in Client
    BY DEF Destroyed, Client
  <1>2. CASE Pending(s)
    <2>1. Destroyed(s) = [s EXCEPT !.timer = "off", !.object = "dangling"]
      BY <1>2 DEF Destroyed
    <2>2. Continuations(s) # {} /\ Continuations(Destroyed(s)) = Continuations(s)
      BY <1>2, <2>1 DEF Pending, Client, Good, Continuations, Closing
    <2> QED
      BY <1>1, <2>1, <2>2 DEF Client, Good
  <1>3. CASE ~Pending(s)
    <2>1. Destroyed(s) = [s EXCEPT !.timer = "off", !.object = "freed"]
      BY <1>3 DEF Destroyed
    <2>2. Continuations(Destroyed(s)) = {}
      BY <1>3, <2>1 DEF Pending, Client, Continuations, Closing
    <2> QED
      BY <1>1, <2>1, <2>2 DEF Client, Good
  <1> QED
    BY <1>2, <1>3

\* What accepting a connection needs of the record it starts with.
LEMMA ConnectGood ==
  ASSUME IInv, NEW c \in Consumers, NEW new \in Client, Good(new),
         Connect(c, new)
  PROVE  IInv'
  <1>1. \A t \in Client : Good(t) => Good(t)'
    BY DEF Connect, streamVars, Good
  <1>2. ASSUME NEW d \in Consumers
        PROVE  client'[d] \in Client /\ Good(client'[d])
    <2>1. client[d] \in Client /\ Good(client[d]) /\ TypeOK
      BY DEF IInv, TypeOK
    <2>2. Destroyed(client[d]) \in Client /\ Good(Destroyed(client[d]))
      BY <2>1, DestroyedGood
    <2> QED
      BY <2>1, <2>2 DEF Connect
  <1>3. client' \in [Consumers -> Client]
    BY <1>2 DEF Connect
  <1>4. TypeOK'
    BY <1>3 DEF Connect, IInv, TypeOK, StreamTypeOK, streamVars
  <1>5. (fragment.age = fragmentAge)'
    BY DEF Connect, IInv, streamVars
  <1> QED
    BY <1>1, <1>2, <1>4, <1>5 DEF IInv

\* A new connection has one event pending: its first write, or its close.
LEMMA NewGood ==
  ASSUME TypeOK
  PROVE  /\ Run(Constructed) \in Client /\ Good(Run(Constructed))
         /\ [Constructed EXCEPT !.handle = "rejected"] \in Client
         /\ Good([Constructed EXCEPT !.handle = "rejected"])
         /\ NotConnected \in Client /\ Good(NotConnected)
  <1> DEFINE accepted == Run(Constructed)
             rejected == [Constructed EXCEPT !.handle = "rejected"]
             Fresh(s) == /\ s.timer = "off" /\ s.age = 0 /\ s.offset = 0
                         /\ s.parts = {}
  <1>1. /\ NotConnected \in Client /\ Fresh(NotConnected)
        /\ NotConnected.object = "none" /\ NotConnected.handle = "none"
        /\ NotConnected.write = "none"
    BY DEF Client, NotConnected
  <1>2. /\ Constructed \in Client /\ Fresh(Constructed)
        /\ Constructed.object = "live" /\ Constructed.handle = "none"
        /\ Constructed.write = "none" /\ Constructed.running
    BY <1>1 DEF Constructed, Client
  <1>3. /\ accepted \in Client /\ Fresh(accepted)
        /\ accepted.object = "live" /\ accepted.handle = "open"
        /\ accepted.write = "http" /\ accepted.running
    BY <1>2 DEF Run, Send, Client
  <1>4. /\ rejected \in Client /\ Fresh(rejected)
        /\ rejected.object = "live" /\ rejected.handle = "rejected"
        /\ rejected.write = "none" /\ rejected.running
    BY <1>2 DEF Client
  <1> HIDE DEF accepted, rejected
  <1>5. /\ Continuations(accepted) = {"write"}
        /\ Continuations(rejected) = {"close"}
        /\ Continuations(NotConnected) = {}
    BY <1>1, <1>3, <1>4 DEF Continuations, Closing
  <1>6. fragmentAge \in Nat
    BY DEF TypeOK, StreamTypeOK
  <1>7. Good(accepted) /\ Good(rejected) /\ Good(NotConnected)
    BY <1>1, <1>3, <1>4, <1>5, <1>6 DEF Good
  <1> QED
    BY <1>1, <1>3, <1>4, <1>7 DEF accepted, rejected

\* The connection's own callbacks, one step per action.
LEMMA CallbackIInv ==
  ASSUME IInv, NEW c \in Consumers,
         WriteCompletes(c) \/ HeaderTimer(c) \/ FragmentTimer(c)
           \/ CloseTimer(c) \/ Closed(c)
  PROVE  IInv'
  <1> DEFINE s == client[c]
  <1>1. /\ TypeOK /\ fragment.age = fragmentAge
        /\ s \in Client /\ Good(s)
    BY DEF IInv, TypeOK
  <1>2. CASE HttpHeaderWritten(c)
    <2>1. s.write = "http" /\ Becomes(c, Arm(Written(s), "write_header"))
      BY <1>2 DEF HttpHeaderWritten
    <2>2. /\ Written(s) \in Client /\ Continuations(Written(s)) = {}
          /\ s.object \in {"live", "dangling"}
          /\ s.handle # "closed" /\ s.running
      BY <1>1, <2>1, WrittenPending
    <2>3. /\ Written(s).object = s.object /\ Written(s).handle = s.handle
          /\ Written(s).running = s.running /\ Written(s).age <= fragmentAge
          /\ Written(s).offset = 0 /\ Written(s).parts = {}
      BY <1>1, <2>1 DEF Written, Client, Good
    <2>4. /\ Arm(Written(s), "write_header") \in Client
          /\ Good(Arm(Written(s), "write_header"))
      BY <2>2, <2>3, ArmGood
    <2> QED
      BY <2>1, <2>4, BecomesGood
  <1>3. CASE HeaderWritten(c)
    <2>1. s.write = "header" /\ Becomes(c, Arm(Written(s), "write_fragment"))
      BY <1>3 DEF HeaderWritten
    <2>2. /\ Written(s) \in Client /\ Continuations(Written(s)) = {}
          /\ s.object \in {"live", "dangling"}
          /\ s.handle # "closed" /\ s.running
      BY <1>1, <2>1, WrittenPending
    <2>3. /\ Written(s).object = s.object /\ Written(s).handle = s.handle
          /\ Written(s).running = s.running /\ Written(s).age <= fragmentAge
          /\ Written(s).offset = 0 /\ Written(s).parts = {}
      BY <1>1, <2>1 DEF Written, Client, Good
    <2>4. /\ Arm(Written(s), "write_fragment") \in Client
          /\ Good(Arm(Written(s), "write_fragment"))
      BY <2>2, <2>3, ArmGood
    <2> QED
      BY <2>1, <2>4, BecomesGood
  <1>4. CASE FragmentWritten(c)
    <2>1. PacketWritten(s) \in Client /\ Good(PacketWritten(s))
      BY <1>1, <1>4, PacketWrittenGood DEF FragmentWritten
    <2> QED
      BY <1>4, <2>1, BecomesGood DEF FragmentWritten
  <1>5. CASE WriteFails(c)
    <2>1. s.write # "none" /\ Becomes(c, Arm(Written(s), "close"))
      BY <1>5 DEF WriteFails
    <2>2. /\ Written(s) \in Client /\ Continuations(Written(s)) = {}
          /\ s.object \in {"live", "dangling"}
          /\ s.handle # "closed" /\ s.running
      BY <1>1, <2>1, WrittenPending
    <2>3. /\ Written(s).object = s.object /\ Written(s).handle = s.handle
          /\ Written(s).running = s.running /\ Written(s).age <= fragmentAge
      BY <1>1, <2>1 DEF Written, Client, Good
    <2>4. /\ Arm(Written(s), "close") \in Client
          /\ Good(Arm(Written(s), "close"))
      BY <2>2, <2>3, ArmGood
    <2> QED
      BY <2>1, <2>4, BecomesGood
  <1>6. CASE HeaderTimer(c)
    <2> DEFINE t == Arm(s, "off")
    <2>1. s.timer = "write_header" /\ Becomes(c, WriteHeader(t))
      BY <1>6 DEF HeaderTimer, Fires
    <2>2. /\ t \in Client /\ Continuations(t) = {}
          /\ s.object \in {"live", "dangling"}
          /\ s.handle # "closed" /\ s.running
      BY <1>1, <2>1, FiredPending
    <2>3. /\ t.object = s.object /\ t.handle = s.handle
          /\ t.running = s.running /\ t.age <= fragmentAge
          /\ t.offset = 0 /\ t.parts = {}
      BY <1>1, <2>1 DEF Arm, Client, Good
    <2>4. Arm(t, "write_header") \in Client /\ Good(Arm(t, "write_header"))
      BY <2>2, <2>3, ArmGood
    <2>5. Send(t, "header", NoFragment) \in Client
      BY <2>2 DEF Send, Client
    <2>6. t.timer = "off" /\ ~Closing(t)
      BY <2>2 DEF Continuations
    <2>7. Continuations(Send(t, "header", NoFragment)) = {"write"}
      BY <2>2, <2>6 DEF Send, Client, Continuations, Closing
    <2>8. Good(Send(t, "header", NoFragment))
      BY <2>2, <2>3, <2>5, <2>7 DEF Send, Client, Good
    <2>9. WriteHeader(t) \in Client /\ Good(WriteHeader(t))
      BY <2>4, <2>5, <2>8 DEF WriteHeader
    <2> QED
      BY <2>1, <2>9, BecomesGood
  <1>7. CASE FragmentTimer(c)
    <2> DEFINE t == Arm(s, "off")
    <2>1. s.timer = "write_fragment" /\ Becomes(c, WriteFragment(t))
      BY <1>7 DEF FragmentTimer, Fires
    <2>2. /\ t \in Client /\ Continuations(t) = {}
          /\ s.object \in {"live", "dangling"}
          /\ s.handle # "closed" /\ s.running
      BY <1>1, <2>1, FiredPending
    <2>3. /\ t.object = s.object /\ t.handle = s.handle
          /\ t.running = s.running /\ t.age <= fragmentAge
          /\ t.offset = 0 /\ t.parts = {}
      BY <1>1, <2>1 DEF Arm, Client, Good
    <2>4. WriteFragment(t) \in Client /\ Good(WriteFragment(t))
      BY <1>1, <2>2, <2>3, WriteFragmentGood
    <2> QED
      BY <2>1, <2>4, BecomesGood
  <1>8. CASE CloseTimer(c)
    <2> DEFINE t == [Arm(s, "off") EXCEPT !.handle = "closing"]
    <2>1. s.timer = "close" /\ Becomes(c, t)
      BY <1>8 DEF CloseTimer, Fires
    <2>2. t \in Client
      BY <1>1 DEF Arm, Client
    <2>3. Continuations(s) = {"timer"}
      BY <1>1, <2>1 DEF Good, Continuations
    <2>4. Continuations(t) = {"close"}
      BY <1>1, <2>3 DEF Arm, Client, Continuations, Closing
    <2>5. s.running
      BY <1>1, <2>3 DEF Good, Client
    <2>6. /\ t.object = s.object /\ t.handle = "closing" /\ t.timer = "off"
          /\ t.write = s.write /\ t.running = s.running /\ t.age = s.age
      BY <1>1 DEF Arm, Client
    <2>7. s.write = "none" /\ s.object \in {"live", "dangling"}
      BY <1>1, <2>3 DEF Good, Continuations, Client
    <2> HIDE DEF t
    <2>8. Good(t)
      BY <1>1, <2>4, <2>5, <2>6, <2>7 DEF Good
    <2> QED
      BY <2>1, <2>2, <2>8, BecomesGood
  <1>9. CASE Closed(c)
    <2> DEFINE t == [s EXCEPT !.handle = "closed",
                              !.running = @ /\ s.handle = "rejected"]
    <2>1. Closing(s) /\ Becomes(c, t)
      BY <1>9 DEF Closed
    <2>2. t \in Client
      BY <1>1 DEF Client
    <2>3. Continuations(s) = {"close"}
      BY <1>1, <2>1 DEF Good, Continuations
    <2>4. Continuations(t) = {}
      BY <1>1, <2>3 DEF Client, Continuations, Closing
    <2>5. Good(t)
      BY <1>1, <2>2, <2>3, <2>4 DEF Client, Good, Continuations
    <2> QED
      BY <2>1, <2>2, <2>5, BecomesGood
  <1> QED
    BY <1>2, <1>3, <1>4, <1>5, <1>6, <1>7, <1>8, <1>9 DEF WriteCompletes

LEMMA InitIInv ==
  ASSUME Init
  PROVE  IInv
  <1>1. TypeOK
    <2>1. StreamTypeOK
      BY DEF Init, StreamInit, StreamTypeOK, InputStates
    <2>2. NotConnected \in Client
      BY DEF NotConnected, Client
    <2> QED
      BY <2>1, <2>2 DEF Init, TypeOK
  <1>2. fragment.age = fragmentAge
    BY DEF Init, StreamInit, NoFragment
  <1>3. Good(NotConnected)
    BY <1>1, NewGood
  <1> QED
    BY <1>1, <1>2, <1>3 DEF Init, IInv

LEMMA NextIInv ==
  ASSUME IInv, [Next]_vars
  PROVE  IInv'
  <1>1. CASE Publish
    BY <1>1, PublishIInv
  <1>2. CASE UseAfterFree \/ \E c \in Consumers : NullHeaderTimer(c)
    <2>1. /\ UNCHANGED <<streamVars, client, current>>
          /\ fault' \in {"none", "null_header", "use_after_free"}
      BY <1>2 DEF UseAfterFree, NullHeaderTimer
    <2>2. TypeOK' /\ (fragment.age = fragmentAge)'
      BY <2>1 DEF IInv, TypeOK, StreamTypeOK, streamVars
    <2>3. \A c \in Consumers : Good(client[c])'
      BY <2>1 DEF IInv, Good, streamVars, Continuations, Closing
    <2> QED
      BY <2>2, <2>3 DEF IInv
  <1>3. ASSUME NEW c \in Consumers, Accepts(c) \/ Rejects(c)
        PROVE  IInv'
    BY <1>3, NewGood, ConnectGood DEF Accepts, Rejects, IInv
  <1>4. ASSUME NEW c \in Consumers,
               WriteCompletes(c) \/ HeaderTimer(c) \/ FragmentTimer(c)
                 \/ CloseTimer(c) \/ Closed(c)
        PROVE  IInv'
    BY <1>4, CallbackIInv
  <1>5. CASE UNCHANGED vars
    <2>1. TypeOK' /\ (fragment.age = fragmentAge)'
      BY <1>5 DEF IInv, TypeOK, StreamTypeOK, vars, streamVars
    <2>2. \A c \in Consumers : Good(client[c])'
      BY <1>5 DEF IInv, Good, vars, streamVars, Continuations, Closing
    <2> QED
      BY <2>1, <2>2 DEF IInv
  <1> QED
    BY <1>1, <1>2, <1>3, <1>4, <1>5 DEF Next, TimerFires

\* IInv holds between any two callbacks of the loop.
THEOREM Inductive == Spec => []IInv
  <1>1. Init => IInv
    BY InitIInv
  <1>2. IInv /\ [Next]_vars => IInv'
    BY NextIInv
  <1> QED
    BY <1>1, <1>2, PTL DEF Spec

\* The variables keep their types: in particular fragment_offset_ and
\* fragment_length_, which the code subtracts, are never negative.
THEOREM TypeCorrect == Spec => []TypeOK
  <1>1. IInv => TypeOK
    BY DEF IInv
  <1> QED
    BY <1>1, Inductive, PTL

(* A served connection always has exactly one event pending in the loop,   *)
(* whatever the order in which its timers, writes and closes complete and  *)
(* whenever it is replaced.                                                *)
THEOREM Continuity == Spec => []OneContinuation
  <1>1. IInv => OneContinuation
    BY DEF IInv, OneContinuation, Good
  <1> QED
    BY <1>1, Inductive, PTL

\* No packet reaches beyond the fragment it is cut from, nor is it empty.
THEOREM Bounds == Spec => []PacketInBounds
  <1>1. IInv => PacketInBounds
    BY DEF IInv, PacketInBounds, Good
  <1> QED
    BY <1>1, Inductive, PTL

\* A consumer never writes a fragment it has finished.
THEOREM Fresh == Spec => []NoResend
  <1>1. IInv => NoResend
    BY DEF IInv, NoResend, Good
  <1> QED
    BY <1>1, Inductive, PTL

\* Between the packets of a fragment a consumer never waits for the timer.
THEOREM NoWait == Spec => []NeverWaitsMidFragment
  <1>1. IInv => NeverWaitsMidFragment
    BY DEF IInv, NeverWaitsMidFragment, Good
  <1> QED
    BY <1>1, Inductive, PTL

-----------------------------------------------------------------------------
(* Only write_fragment moves age_, and only when the latest fragment is    *)
(* used up.                                                                *)

LEMMA WriteFragmentAge ==
  ASSUME TypeOK, NEW s \in Client, WriteFragment(s).age # s.age
  PROVE  /\ s.age < fragmentAge
         /\ s.offset >= fragment.length
         /\ WriteFragment(s).age = fragmentAge
  <1>1. CASE s.running /\ streamRunning /\ ~UpToDate(s) /\ UsedUp(s)
    BY <1>1 DEF WriteFragment, Arm, Finish, UpToDate, UsedUp, Client, TypeOK,
                StreamTypeOK
  <1>2. CASE ~(s.running /\ streamRunning /\ ~UpToDate(s) /\ UsedUp(s))
    BY <1>2 DEF WriteFragment, Arm, SendPacket, Send, Client
  <1> QED
    BY <1>1, <1>2

LEMMA StepFinishesWhole ==
  ASSUME IInv, Next, NEW c \in Consumers
  PROVE  FinishesWhole(c)
  <1> DEFINE s == client[c]
             t == client'[c]
  <1>1. SUFFICES ASSUME t.age > s.age, s.parts \cup {s.buf.age} = {t.age}
                 PROVE  s.offset + s.length = s.buf.length
    BY DEF FinishesWhole
  <1>2. /\ TypeOK /\ fragment.age = fragmentAge
        /\ s \in Client /\ Good(s) /\ fragmentAge \in Nat
    BY DEF IInv, TypeOK, StreamTypeOK
  <1>3. s.age \in Nat /\ t.age # s.age
    BY <1>1, <1>2 DEF Client
  <1>4. ASSUME NEW d \in Consumers,
               Accepts(d) \/ Rejects(d) \/ WriteCompletes(d)
                 \/ TimerFires(d) \/ Closed(d)
        PROVE  c = d /\ FragmentWritten(c)
    <2>1. ~Accepts(d) /\ ~Rejects(d)
      <3>1. Run(Constructed).age = 0
        BY DEF Run, Send, Constructed, NotConnected
      <3>2. [Constructed EXCEPT !.handle = "rejected"].age = 0
        BY DEF Constructed, NotConnected
      <3>3. Destroyed(s).age = s.age
        BY <1>2 DEF Destroyed, Client
      <3>4. ASSUME NEW new, new.age = 0, Connect(d, new)
            PROVE  FALSE
        <4>1. t = new \/ t = Destroyed(s) \/ t = s
          BY <3>4 DEF Connect
        <4> QED
          BY <1>1, <1>3, <3>3, <3>4, <4>1
      <3> QED
        BY <3>1, <3>2, <3>4 DEF Accepts, Rejects
    <2>2. ~NullHeaderTimer(d)
      BY <1>3 DEF NullHeaderTimer
    <2>3. c = d
      BY <1>3, <1>4, <2>1, <2>2
      DEF WriteCompletes, TimerFires, HttpHeaderWritten, HeaderWritten,
          FragmentWritten, WriteFails, HeaderTimer, FragmentTimer, CloseTimer,
          Closed, Becomes, IInv, TypeOK
    <2>4. ~HttpHeaderWritten(c) /\ ~HeaderWritten(c) /\ ~WriteFails(c)
      <3>1. \A k : Becomes(c, Arm(Written(s), k)) => t.age = s.age
        BY <1>2 DEF Becomes, Arm, Written, Client, TypeOK
      <3> QED
        BY <1>3, <3>1 DEF HttpHeaderWritten, HeaderWritten, WriteFails
    <2>5. ~HeaderTimer(c) /\ ~CloseTimer(c) /\ ~Closed(c)
      <3>1. \A u : Becomes(c, u) => t = u
        BY <1>2 DEF Becomes, TypeOK
      <3>2. WriteHeader(Arm(s, "off")).age = s.age
        BY <1>2 DEF WriteHeader, Arm, Send, Client
      <3>3. [Arm(s, "off") EXCEPT !.handle = "closing"].age = s.age
        BY <1>2 DEF Arm, Client
      <3>4. [s EXCEPT !.handle = "closed",
                      !.running = @ /\ s.handle = "rejected"].age = s.age
        BY <1>2 DEF Client
      <3> QED
        BY <1>3, <3>1, <3>2, <3>3, <3>4 DEF HeaderTimer, CloseTimer, Closed
    <2>6. ~FragmentTimer(c)
      <3>1. SUFFICES ASSUME FragmentTimer(c) PROVE FALSE
        OBVIOUS
      <3> DEFINE u == Arm(s, "off")
      <3>2. u \in Client /\ u.age = s.age /\ u.offset = s.offset
        BY <1>2 DEF Arm, Client
      <3>3. s.offset = 0 /\ t = WriteFragment(u)
        BY <1>2, <3>1 DEF FragmentTimer, Fires, Good, Becomes, TypeOK
      <3> HIDE DEF u
      <3>4. s.age < fragmentAge /\ 0 >= fragment.length
        BY <1>2, <1>3, <3>2, <3>3, WriteFragmentAge
      <3> QED
        BY <1>2, <1>3, <3>4, LatestFragment
    <2> QED
      BY <1>4, <2>1, <2>2, <2>3, <2>4, <2>5, <2>6
      DEF WriteCompletes, TimerFires
  <1>5. ~Publish /\ ~UseAfterFree
    BY <1>3 DEF Publish, UseAfterFree
  <1>6. FragmentWritten(c)
    BY <1>4, <1>5 DEF Next
  <1>7. s.write = "fragment" /\ t = PacketWritten(s)
    BY <1>2, <1>6 DEF FragmentWritten, Becomes, TypeOK
  <1> DEFINE u == [Written(s) EXCEPT !.offset = @ + s.length,
                                     !.parts = @ \cup {s.buf.age}]
  <1>8. u \in Client /\ u.age = s.age /\ u.offset = s.offset + s.length
    <2>1. Written(s) \in Client
      BY <1>2 DEF Written, Client
    <2>2. s.buf.age \in Nat
      BY <1>2 DEF Client, Fragment, NoFragment
    <2>3. Written(s).offset + s.length \in Nat
      BY <1>2, <2>1 DEF Client
    <2>4. Written(s).parts \cup {s.buf.age} \in SUBSET Nat
      BY <2>1, <2>2 DEF Client
    <2>5. u \in Client
      BY <2>1, <2>3, <2>4 DEF Client
    <2> QED
      BY <1>2, <2>5 DEF Written, Client
  <1>9. t = WriteFragment(u)
    BY <1>7 DEF PacketWritten
  <1> HIDE DEF u
  <1>10. s.offset + s.length >= fragment.length /\ t.age = fragmentAge
    BY <1>2, <1>3, <1>8, <1>9, WriteFragmentAge
  <1>11. s.buf = fragment
    <2>1. s.buf.age = fragmentAge
      BY <1>1, <1>10
    <2> QED
      BY <1>2, <1>7, <2>1 DEF Good
  <1>12. s.offset + s.length <= fragment.length
    BY <1>2, <1>7, <1>11 DEF Good
  <1>13. /\ s.offset \in Nat /\ s.length \in Nat
         /\ fragment.length \in Nat
    <2>1. fragmentAge > 0
      BY <1>2, <1>3, <1>10, <1>1
    <2> QED
      BY <1>2, <2>1, LatestFragment DEF Client
  <1> QED
    BY <1>10, <1>11, <1>12, <1>13

\* A consumer that took all its packets from one fragment marks it finished
\* only when it has written exactly its bytes.
THEOREM WholeFragments == Spec => WholeFragmentUnlessOvertaken
  <1>1. IInv /\ [Next]_vars => [\A c \in Consumers : FinishesWhole(c)]_vars
    BY StepFinishesWhole
  <1> QED
    BY <1>1, Inductive, PTL DEF Spec, WholeFragmentUnlessOvertaken
=============================================================================
