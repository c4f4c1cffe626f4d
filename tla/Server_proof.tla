----------------------------- MODULE Server_proof -----------------------------
(***************************************************************************)
(* Proofs about Server: types, one movie at a time, memory released in     *)
(* order, and that the publishing side implements Stream. All follow from  *)
(* one inductive invariant, which says who may be read: only the publisher *)
(* behind the global input, and only while its handle is open.             *)
(***************************************************************************)
EXTENDS Server, TLAPS

Unborn ==
  \A p \in Publishers : p > accepted => connection[p] = NotConnected

Past ==
  \A p \in Publishers :
    p <= accepted /\ p # input
      => connection[p].object = "freed" /\ ~connection[p].reading

Current ==
  input # None =>
    LET c == connection[input] IN
      /\ c.object = "live"
      /\ c.handle # "none"
      /\ c.reading <=> c.handle = "open"
      /\ c.state = "streaming" <=> headerFrom = input

Busy == busy # None => connection[busy].reading

InOrder ==
  ~overlap =>
    /\ input = accepted
    /\ fault # "use_after_free"
    /\ \A p \in Publishers : p < input => connection[p].handle = "closed"

IInv == TypeOK /\ Unborn /\ Past /\ Current /\ Busy /\ InOrder

-----------------------------------------------------------------------------
\* The loop reads for nobody but the publisher behind input.
LEMMA OnlyCurrentReads ==
  ASSUME IInv, NEW p \in Publishers, connection[p].reading
  PROVE  /\ p = input
         /\ connection[p].object = "live"
         /\ connection[p].handle = "open"
BY ServerAssumption DEF IInv, TypeOK, Unborn, Past, Current, NotConnected, Publishers, None

\* Who is being read is the current publisher.
LEMMA BusyIsCurrent ==
  ASSUME IInv, busy # None
  PROVE  /\ busy = input
         /\ busy \in Publishers
         /\ connection[busy].reading
         /\ connection[busy].object = "live"
         /\ connection[busy].handle = "open"
BY ServerAssumption DEF IInv, TypeOK, Current, Busy, Publishers, None

\* A connection is again one after each of the updates.
LEMMA ConnectionTypes ==
  ASSUME NEW c \in Connection
  PROVE  /\ Running \in Connection
         /\ Rejected \in Connection
         /\ NotConnected \in Connection
         /\ Deleted(c) \in Connection
         /\ EntersStreaming(c) \in Connection
         /\ HungUp(c) \in Connection
         /\ [c EXCEPT !.handle = "closed"] \in Connection
BY DEF Connection, Running, Rejected, NotConnected, Deleted, EntersStreaming, HungUp

\* The initial state satisfies the invariant.
LEMMA InitHolds == Init => IInv
<1> SUFFICES ASSUME Init PROVE IInv
  OBVIOUS
<1>1. NotConnected \in Connection
  BY DEF NotConnected, Connection
<1>2. TypeOK
  <2>1. connection \in [Publishers -> Connection]
    BY <1>1 DEF Init
  <2>2. accepted \in 0 .. MaxPublishers /\ input \in 0 .. accepted /\ busy \in {None, input}
        /\ fragmentAge \in 0 .. MaxAge /\ headerFrom \in 0 .. input /\ fragmentFrom \in 0 .. headerFrom
    BY ServerAssumption DEF Init, None
  <2>3. fragment \in [age : 1 .. MaxAge, length : FragmentLengths] \cup {NoFragment}
    BY DEF Init
  <2>4. header \in HeaderLengths \cup {0} /\ headerLength \in HeaderLengths \cup UninitialisedLengths
    BY DEF Init
  <2> QED
    BY <2>1, <2>2, <2>3, <2>4 DEF Init, TypeOK
<1> QED
  BY <1>2, ServerAssumption
     DEF Init, IInv, Unborn, Past, Current, Busy, InOrder, None, Publishers, NotConnected

-----------------------------------------------------------------------------
\* The steps of main() leave the loop alone.
LEMMA StartHolds ==
  ASSUME IInv,
         \/ StartServer("publisher_server", "adapter")
         \/ QueryAdapter
         \/ StartServer("consumer_server", "service")
         \/ RegisterService
  PROVE  IInv'
<1>1. TypeOK'
  BY DEF IInv, TypeOK, StartServer, QueryAdapter, RegisterService, Starting, mainVars, streamVars
<1>2. fault' # "use_after_free" \/ fault' = fault
  BY DEF StartServer, QueryAdapter, RegisterService
<1> QED
  BY <1>1, <1>2 DEF IInv, StartServer, QueryAdapter, RegisterService, Starting, streamVars,
     Unborn, Past, Current, Busy, InOrder

\* A publisher is accepted.
LEMMA AcceptsHolds == ASSUME IInv, Accepts PROVE IInv'
<1> DEFINE new == accepted + 1
<1>1. /\ new \in Publishers
      /\ accepted \in Nat /\ input \in 0 .. accepted /\ input # new
      /\ accepted' = new /\ input' = new
      /\ busy = None /\ busy' = None
      /\ headerFrom' = headerFrom /\ headerFrom \in 0 .. input
      /\ fragmentFrom' = fragmentFrom /\ fault' = fault
  BY ServerAssumption DEF IInv, TypeOK, Accepts, Loop, Publishers, streamVars
<1>2. \A p \in Publishers :
        /\ connection[p] \in Connection
        /\ connection'[p] \in Connection
        /\ connection'[p] = IF p = new THEN Running
                            ELSE IF p = input THEN Deleted(connection[p]) ELSE connection[p]
  <2>1. \A p \in Publishers : connection[p] \in Connection
    BY DEF IInv, TypeOK
  <2>2. connection' = [p \in Publishers |->
                         IF p = new THEN Running
                         ELSE IF p = input THEN Deleted(connection[p]) ELSE connection[p]]
    BY DEF Accepts
  <2> HIDE DEF new
  <2>3. \A p \in Publishers : Deleted(connection[p]) \in Connection /\ Running \in Connection
    BY <2>1, ConnectionTypes
  <2> QED
    BY <2>1, <2>2, <2>3
<1>3. connection' \in [Publishers -> Connection]
  <2>1. connection' = [p \in Publishers |-> connection'[p]]
    BY DEF Accepts
  <2> QED
    BY <2>1, <1>2
<1>4. TypeOK'
  <2>1. stage' = stage /\ registered' = registered /\ header' = header
        /\ headerLength' = headerLength /\ fragmentAge' = fragmentAge /\ fragment' = fragment
    BY DEF Accepts, mainVars, streamVars
  <2>2. overlap' \in BOOLEAN
    BY DEF IInv, TypeOK, Accepts
  <2>3. accepted' \in 0 .. MaxPublishers /\ input' \in 0 .. accepted'
        /\ headerFrom' \in 0 .. input' /\ fragmentFrom' \in 0 .. headerFrom'
    BY <1>1, ServerAssumption DEF Publishers, IInv, TypeOK
  <2> QED
    BY <1>1, <1>3, <2>1, <2>2, <2>3 DEF IInv, TypeOK
<1>5. Unborn'
  BY <1>1, <1>2 DEF IInv, Unborn, Publishers
<1>6. Past'
  <2> SUFFICES ASSUME NEW p \in Publishers, p <= new, p # new
               PROVE  connection'[p].object = "freed" /\ ~connection'[p].reading
    BY <1>1 DEF Past
  <2>1. CASE p = input
    <3>1. connection'[p] = Deleted(connection[p]) /\ connection[p] \in Connection
      BY <1>2, <2>1
    <3> QED
      BY <3>1 DEF Deleted, Connection
  <2>2. CASE p # input
    BY <1>1, <1>2, <2>2 DEF IInv, Past, Publishers
  <2> QED
    BY <2>1, <2>2
<1>7. Current'
  BY <1>1, <1>2 DEF Current, Running
<1>8. Busy'
  BY <1>1 DEF Busy
<1>9. InOrder'
  <2> SUFFICES ASSUME ~overlap'
               PROVE  /\ fault # "use_after_free"
                      /\ \A p \in Publishers : p < new => connection'[p].handle = "closed"
    BY <1>1 DEF InOrder
  <2>1. ~overlap /\ (input # None => connection[input].handle = "closed")
    BY DEF Accepts, IInv, TypeOK
  <2>2. input = accepted /\ fault # "use_after_free"
        /\ \A p \in Publishers : p < input => connection[p].handle = "closed"
    BY <2>1 DEF IInv, InOrder
  <2>3. ASSUME NEW p \in Publishers, p < new PROVE connection'[p].handle = "closed"
    <3>1. CASE p = input
      <4>1. connection'[p] = Deleted(connection[p]) /\ connection[p] \in Connection
        BY <1>1, <1>2, <3>1
      <4>2. connection[p].handle = "closed"
        BY <2>1, <3>1 DEF Publishers, None
      <4> QED
        BY <4>1, <4>2 DEF Deleted, Connection
    <3>2. CASE p # input
      BY <1>1, <1>2, <2>2, <2>3, <3>2 DEF Publishers
    <3> QED
      BY <3>1, <3>2
  <2> QED
    BY <2>2, <2>3
<1> QED
  BY <1>4, <1>5, <1>6, <1>7, <1>8, <1>9 DEF IInv

\* A publisher is rejected.
LEMMA RejectsHolds == ASSUME IInv, Rejects PROVE IInv'
<1> DEFINE new == accepted + 1
<1>1. /\ new \in Publishers
      /\ accepted \in Nat /\ input \in 0 .. accepted /\ input # new
      /\ accepted' = new /\ input' = input /\ busy' = busy /\ busy = None
      /\ UNCHANGED streamVars /\ UNCHANGED mainVars /\ fault' = fault
      /\ overlap' = TRUE
  BY ServerAssumption DEF IInv, TypeOK, Rejects, Loop, Publishers
<1>2. /\ connection' \in [Publishers -> Connection]
      /\ connection'[new] = Rejected
      /\ \A p \in Publishers : p # new => connection'[p] = connection[p]
  <2>1. connection \in [Publishers -> Connection] /\ connection' = [connection EXCEPT ![new] = Rejected]
    BY DEF IInv, TypeOK, Rejects
  <2>2. Rejected \in Connection
    BY DEF Rejected, Connection
  <2> HIDE DEF new
  <2> QED
    BY <1>1, <2>1, <2>2
<1>3. TypeOK'
  <2>1. accepted' \in 0 .. MaxPublishers /\ input' \in 0 .. accepted'
    BY <1>1, ServerAssumption DEF Publishers
  <2> QED
    BY <1>1, <1>2, <2>1 DEF IInv, TypeOK, streamVars, mainVars
<1>4. Unborn'
  BY <1>1, <1>2 DEF IInv, Unborn, Publishers
<1>5. Past'
  <2> SUFFICES ASSUME NEW p \in Publishers, p <= new, p # input
               PROVE  connection'[p].object = "freed" /\ ~connection'[p].reading
    BY <1>1 DEF Past
  <2>1. CASE p = new
    BY <1>2, <2>1 DEF Rejected
  <2>2. CASE p # new
    BY <1>1, <1>2, <2>2 DEF IInv, Past, Publishers
  <2> QED
    BY <2>1, <2>2
<1>6. Current'
  <2>1. input # None => connection'[input] = connection[input]
    BY <1>1, <1>2, ServerAssumption DEF Publishers, None
  <2> QED
    BY <1>1, <2>1 DEF IInv, Current, streamVars
<1>7. Busy' /\ InOrder'
  BY <1>1 DEF Busy, InOrder
<1> QED
  BY <1>3, <1>4, <1>5, <1>6, <1>7 DEF IInv

\* on_read begins.
LEMMA OnReadHolds == ASSUME IInv, OnRead PROVE IInv'
<1>1. PICK p \in Publishers : connection[p].reading /\ busy' = p
  BY DEF OnRead
<1>2. p = input
  BY <1>1, OnlyCurrentReads
<1>3. UNCHANGED <<mainVars, accepted, connection, input, streamVars, overlap, fault>>
  BY DEF OnRead
<1> QED
  BY <1>1, <1>2, <1>3
     DEF IInv, TypeOK, Unborn, Past, Current, Busy, InOrder, mainVars, streamVars

\* The header is set.
LEMMA SetHeaderHolds == ASSUME IInv, SetHeader PROVE IInv'
<1>1. /\ busy # None /\ busy = input /\ busy \in Publishers
      /\ connection[busy].reading /\ connection[busy].object = "live" /\ connection[busy].handle = "open"
  BY BusyIsCurrent DEF SetHeader, Processing
<1>2. /\ UNCHANGED <<mainVars, accepted, input, overlap, busy, fragmentAge, fragment, fragmentFrom, fault>>
      /\ headerFrom' = busy
      /\ header' \in HeaderLengths /\ headerLength' \in HeaderLengths
  BY DEF SetHeader, Processing
<1>3. /\ connection' \in [Publishers -> Connection]
      /\ connection'[busy] = EntersStreaming(connection[busy])
      /\ \A p \in Publishers : p # busy => connection'[p] = connection[p]
  <2>1. connection \in [Publishers -> Connection]
        /\ connection' = [connection EXCEPT ![busy] = EntersStreaming(connection[busy])]
    BY DEF IInv, TypeOK, SetHeader
  <2>2. connection[busy] \in Connection
    BY <1>1, <2>1
  <2>3. EntersStreaming(connection[busy]) \in Connection
    BY <2>2, ConnectionTypes
  <2> QED
    BY <1>1, <2>1, <2>3
<1>4. /\ connection'[busy].object = "live" /\ connection'[busy].handle = "open"
      /\ connection'[busy].state = "streaming" /\ connection'[busy].reading
  <2>1. connection[busy] \in Connection
    BY <1>1 DEF IInv, TypeOK
  <2> QED
    BY <1>1, <1>3, <2>1 DEF EntersStreaming, Connection
<1>5. TypeOK'
  <2>1. headerFrom' \in 0 .. input' /\ fragmentFrom' \in 0 .. headerFrom'
    BY <1>1, <1>2 DEF IInv, TypeOK, Publishers
  <2> QED
    BY <1>1, <1>2, <1>3, <2>1 DEF IInv, TypeOK, mainVars
<1>6. Unborn'
  BY <1>1, <1>2, <1>3 DEF IInv, TypeOK, Unborn, Publishers
<1>7. Past'
  BY <1>1, <1>2, <1>3 DEF IInv, Past
<1>8. Current' /\ Busy'
  BY <1>1, <1>2, <1>4 DEF Current, Busy
<1>9. InOrder'
  BY <1>1, <1>2, <1>3 DEF IInv, TypeOK, InOrder, Publishers
<1> QED
  BY <1>5, <1>6, <1>7, <1>8, <1>9 DEF IInv

\* A fragment is pushed.
LEMMA PushFragmentHolds == ASSUME IInv, PushFragment PROVE IInv'
<1>1. /\ busy # None /\ busy = input /\ busy \in Publishers
  BY BusyIsCurrent DEF PushFragment, Processing
<1>2. headerFrom = input
  BY <1>1 DEF IInv, Current, PushFragment
<1>3. /\ UNCHANGED <<mainVars, accepted, input, overlap, connection, busy, header, headerLength,
                     headerFrom, fault>>
      /\ fragmentAge' = fragmentAge + 1 /\ fragmentFrom' = busy /\ fragmentAge < MaxAge
      /\ \E length \in FragmentLengths : fragment' = [age |-> fragmentAge + 1, length |-> length]
  BY DEF PushFragment, Processing
<1>4. TypeOK'
  <2>1. fragmentAge' \in 1 .. MaxAge
    BY <1>3, ServerAssumption DEF IInv, TypeOK
  <2>2. fragment' \in [age : 1 .. MaxAge, length : FragmentLengths]
    BY <1>3, <2>1
  <2>3. fragmentFrom' \in 0 .. headerFrom'
    BY <1>1, <1>2, <1>3 DEF Publishers
  <2> QED
    BY <1>3, <2>1, <2>2, <2>3 DEF IInv, TypeOK, mainVars
<1> QED
  BY <1>3, <1>4 DEF IInv, Unborn, Past, Current, Busy, InOrder

\* on_read returns, or ends the process.
LEMMA ReadHolds == ASSUME IInv, ReadEnds \/ ReadDies PROVE IInv'
BY DEF IInv, ReadEnds, ReadDies, Processing, TypeOK, Unborn, Past, Current, Busy, InOrder,
       mainVars, streamVars

\* A publisher hangs up.
LEMMA HangsUpHolds == ASSUME IInv, HangsUp PROVE IInv'
<1>1. PICK p \in Publishers :
        connection[p].reading /\ connection' = [connection EXCEPT ![p] = HungUp(connection[p])]
  BY DEF HangsUp
<1>2. p = input /\ connection[p].object = "live" /\ connection[p] \in Connection /\ p # None
  BY <1>1, OnlyCurrentReads DEF IInv, TypeOK, Publishers, None
<1>3. UNCHANGED <<mainVars, accepted, input, busy, streamVars, overlap, fault>> /\ busy = None
  BY DEF HangsUp, Loop
<1>4. /\ connection' \in [Publishers -> Connection]
      /\ connection'[p] = HungUp(connection[p])
      /\ \A q \in Publishers : q # p => connection'[q] = connection[q]
  <2>1. HungUp(connection[p]) \in Connection
    BY <1>2, ConnectionTypes
  <2> QED
    BY <1>1, <2>1 DEF IInv, TypeOK
<1>5. /\ connection'[p].object = "live" /\ connection'[p].handle = "closing"
      /\ connection'[p].state = connection[p].state /\ connection'[p].reading = FALSE
  BY <1>2, <1>4 DEF HungUp, Connection
<1>6. TypeOK'
  BY <1>3, <1>4 DEF IInv, TypeOK, mainVars, streamVars
<1>7. Unborn'
  BY <1>2, <1>3, <1>4 DEF IInv, TypeOK, Unborn, Publishers
<1>8. Past' /\ Busy'
  BY <1>2, <1>3, <1>4 DEF IInv, Past, Busy
<1>9. Current'
  BY <1>2, <1>3, <1>5 DEF IInv, Current, streamVars
<1>10. InOrder'
  BY <1>2, <1>3, <1>4 DEF IInv, TypeOK, InOrder, Publishers
<1> QED
  BY <1>6, <1>7, <1>8, <1>9, <1>10 DEF IInv

\* A handle is closed.
LEMMA ClosedHolds == ASSUME IInv, Closed PROVE IInv'
<1>1. PICK p \in Publishers :
        connection[p].handle = "closing" /\ connection' = [connection EXCEPT ![p].handle = "closed"]
  BY DEF Closed
<1>2. UNCHANGED <<mainVars, accepted, input, busy, streamVars, overlap, fault>> /\ busy = None
  BY DEF Closed, Loop
<1>3. /\ connection' \in [Publishers -> Connection]
      /\ connection[p] \in Connection
      /\ connection'[p] = [connection[p] EXCEPT !.handle = "closed"]
      /\ \A q \in Publishers : q # p => connection'[q] = connection[q]
  <2>1. connection \in [Publishers -> Connection] /\ connection[p] \in Connection
    BY DEF IInv, TypeOK
  <2>2. [connection[p] EXCEPT !.handle = "closed"] \in Connection
    BY <2>1, ConnectionTypes
  <2> QED
    BY <1>1, <2>1, <2>2
<1>4. /\ connection'[p].object = connection[p].object /\ connection'[p].handle = "closed"
      /\ connection'[p].state = connection[p].state /\ connection'[p].reading = connection[p].reading
  BY <1>3 DEF Connection
<1>5. TypeOK'
  BY <1>2, <1>3 DEF IInv, TypeOK, mainVars, streamVars
<1>6. Unborn'
  <2>1. connection[p] # NotConnected
    BY <1>1 DEF NotConnected
  <2> QED
    BY <1>2, <1>3, <2>1 DEF IInv, Unborn
<1>7. Past' /\ Busy'
  BY <1>2, <1>3, <1>4 DEF IInv, Past, Busy
<1>8. Current'
  <2>1. input # None => input \in Publishers
    BY ServerAssumption DEF IInv, TypeOK, Publishers, None
  <2>2. CASE input = p
    BY <1>1, <1>2, <1>4, <2>2 DEF IInv, Current, streamVars
  <2>3. CASE input # p
    BY <1>2, <1>3, <2>1, <2>3 DEF IInv, Current, streamVars
  <2> QED
    BY <2>2, <2>3
<1>9. InOrder'
  BY <1>2, <1>3, <1>4 DEF IInv, InOrder
<1> QED
  BY <1>5, <1>6, <1>7, <1>8, <1>9 DEF IInv

\* The loop touches freed memory: there is none as long as nothing overlapped.
LEMMA NothingDangles == IInv /\ ~overlap => Dangling = {}
<1> SUFFICES ASSUME IInv, ~overlap, NEW p \in Publishers,
                    connection[p].object = "freed", connection[p].handle \in {"open", "closing"}
             PROVE  FALSE
  BY DEF Dangling
<1>1. input = accepted /\ (p < input => connection[p].handle = "closed")
  BY DEF IInv, InOrder
<1>2. ~(p < input)
  BY <1>1
<1>3. p # input
  BY DEF IInv, Current, Publishers, None
<1>4. p > accepted
  BY <1>1, <1>2, <1>3 DEF IInv, TypeOK, Publishers
<1> QED
  BY <1>4 DEF IInv, Unborn, NotConnected

LEMMA UseAfterFreeHolds == ASSUME IInv, UseAfterFree PROVE IInv'
<1>1. overlap
  BY NothingDangles DEF UseAfterFree
<1> QED
  BY <1>1 DEF IInv, UseAfterFree, TypeOK, Unborn, Past, Current, Busy, InOrder, mainVars, streamVars

\* Every step preserves the invariant.
LEMMA NextHolds == IInv /\ [Next]_vars => IInv'
<1> SUFFICES ASSUME IInv, [Next]_vars PROVE IInv'
  OBVIOUS
<1>1. CASE UNCHANGED vars
  BY <1>1 DEF vars, mainVars, streamVars, IInv, TypeOK, Unborn, Past, Current, Busy, InOrder
<1> QED
  BY <1>1, StartHolds, AcceptsHolds, RejectsHolds, OnReadHolds, SetHeaderHolds,
     PushFragmentHolds, ReadHolds, HangsUpHolds, ClosedHolds, UseAfterFreeHolds DEF Next

(* IInv holds in every reachable state: only the publisher behind input is *)
(* read, every other one is deleted, and the header is its own once its    *)
(* state object is a StreamingState.                                       *)
THEOREM Inductive == Spec => []IInv
BY InitHolds, NextHolds, PTL DEF Spec

-----------------------------------------------------------------------------
(* The variables keep their types; in particular on_read runs only for the *)
(* publisher connected last, and fragments are never newer than headers.   *)
THEOREM TypeCorrect == Spec => []TypeOK
<1>1. IInv => TypeOK
  BY DEF IInv
<1> QED
  BY <1>1, Inductive, PTL

(* Publishers accepted one after the other, each once the one before it is *)
(* closed, leave nothing in the loop that was freed.                       *)
THEOREM Released == Spec => []ReleasedInOrder
<1>1. IInv => ReleasedInOrder
  BY NothingDangles DEF IInv, InOrder, ReleasedInOrder
<1> QED
  BY <1>1, Inductive, PTL

(* What is pushed comes from the publisher connected last and follows its  *)
(* own header, which it sets once.                                         *)
THEOREM OneMovie == Spec => OneMovieAtATime
<1> DEFINE Step ==
      /\ headerFrom' # headerFrom \/ header' # header
           => headerFrom' = input /\ headerFrom < input
      /\ fragmentAge' # fragmentAge
           => fragmentFrom' = input /\ headerFrom = input
<1>1. IInv /\ [Next]_vars => [Step]_vars
  <2> SUFFICES ASSUME IInv, Next PROVE Step
    OBVIOUS
  <2>1. CASE SetHeader
    <3>1. busy # None /\ busy = input /\ headerFrom' = busy /\ fragmentAge' = fragmentAge
      BY <2>1, BusyIsCurrent DEF SetHeader, Processing
    <3>2. headerFrom # input
      BY <2>1, <3>1 DEF IInv, Current, SetHeader
    <3> QED
      BY <3>1, <3>2 DEF IInv, TypeOK
  <2>2. CASE PushFragment
    <3>1. busy # None /\ busy = input
      BY <2>2, BusyIsCurrent DEF PushFragment, Processing
    <3>2. headerFrom = input
      BY <2>2, <3>1 DEF IInv, Current, PushFragment
    <3> QED
      BY <2>2, <3>1, <3>2 DEF PushFragment
  <2>3. CASE ~SetHeader /\ ~PushFragment
    <3>1. UNCHANGED streamVars
      BY <2>3 DEF Next, StartServer, QueryAdapter, RegisterService, Starting, Accepts, Rejects,
                  OnRead, ReadEnds, ReadDies, HangsUp, Closed, UseAfterFree
    <3> QED
      BY <3>1 DEF streamVars
  <2> QED
    BY <2>1, <2>2, <2>3
<1>2. [Step]_vars => [Step]_vars
  OBVIOUS
<1> QED
  BY <1>1, Inductive, PTL DEF Spec, OneMovieAtATime

-----------------------------------------------------------------------------
\* A step that leaves the current connection and the Stream alone is a stutter.
LEMMA Stutters ==
  ASSUME input' = input, input # None => connection'[input] = connection[input],
         UNCHANGED streamVars
  PROVE  UNCHANGED S!streamVars
BY DEF S!streamVars, Publisher, streamVars

\* Each step is one of Stream's, or a stutter.
LEMMA NextImplements == IInv /\ [Next]_vars => [S!StreamNext]_(S!streamVars)
<1> SUFFICES ASSUME IInv, [Next]_vars PROVE [S!StreamNext]_(S!streamVars)
  OBVIOUS
<1>0. input # None => input \in Publishers
  BY ServerAssumption DEF IInv, TypeOK, Publishers, None
<1>1. CASE UNCHANGED vars
  BY <1>1, Stutters DEF vars
<1>2. CASE \/ StartServer("publisher_server", "adapter") \/ QueryAdapter
           \/ StartServer("consumer_server", "service") \/ RegisterService
           \/ OnRead \/ ReadEnds \/ ReadDies \/ UseAfterFree
  BY <1>2, Stutters DEF StartServer, QueryAdapter, RegisterService, Starting, OnRead, ReadEnds,
                        ReadDies, Processing, UseAfterFree
<1>3. CASE Accepts
  <2>1. input' = accepted + 1 /\ accepted + 1 \in Publishers /\ input' # None
    BY <1>3, ServerAssumption DEF IInv, TypeOK, Accepts, Publishers, None
  <2>2. connection'[input'] = Running
    BY <1>3, <2>1 DEF Accepts
  <2>3. Publisher' = "detecting"
    BY <2>1, <2>2 DEF Publisher, Running
  <2>4. S!PublisherConnects
    BY <1>3, <2>3 DEF Accepts, streamVars, S!PublisherConnects
  <2> QED
    BY <2>4 DEF S!StreamNext
<1>4. CASE Rejects
  <2>1. accepted + 1 # input /\ UNCHANGED streamVars /\ input' = input
    BY <1>4 DEF Rejects, IInv, TypeOK
  <2>2. input # None => connection'[input] = connection[input]
    BY <1>0, <1>4, <2>1 DEF Rejects, IInv, TypeOK
  <2> QED
    BY <2>1, <2>2, Stutters
<1>5. CASE SetHeader
  <2>1. /\ busy # None /\ busy = input /\ busy \in Publishers /\ connection[busy].handle = "open"
        /\ connection[busy].state = "detecting" /\ input' = input
    BY <1>5, BusyIsCurrent DEF SetHeader, Processing
  <2>2. connection'[busy] = EntersStreaming(connection[busy]) /\ connection[busy] \in Connection
    BY <1>5, <2>1 DEF SetHeader, IInv, TypeOK
  <2>3. Publisher = "detecting" /\ Publisher' = "streaming"
    BY <2>1, <2>2 DEF Publisher, EntersStreaming, Connection
  <2>4. S!SetHeader
    BY <1>5, <2>3 DEF SetHeader, S!SetHeader
  <2> QED
    BY <2>4 DEF S!StreamNext
<1>6. CASE PushFragment
  <2>1. /\ busy # None /\ busy = input /\ connection[busy].handle = "open"
        /\ connection[busy].state = "streaming"
    BY <1>6, BusyIsCurrent DEF PushFragment, Processing
  <2>2. Publisher = "streaming" /\ Publisher' = "streaming"
    BY <1>6, <2>1 DEF Publisher, PushFragment, Processing
  <2>3. S!PushFragment
    BY <1>6, <2>2 DEF PushFragment, S!PushFragment
  <2> QED
    BY <2>3 DEF S!StreamNext
<1>7. CASE HangsUp
  <2>1. PICK p \in Publishers :
          connection[p].reading /\ connection' = [connection EXCEPT ![p] = HungUp(connection[p])]
    BY <1>7 DEF HangsUp
  <2>2. /\ p = input /\ connection[p].handle = "open" /\ input # None /\ input' = input
        /\ connection[p] \in Connection /\ connection'[p] = HungUp(connection[p])
    BY <1>7, <2>1, OnlyCurrentReads DEF HangsUp, IInv, TypeOK, Publishers, None
  <2>3. Publisher \in {"detecting", "streaming"}
    BY <2>2 DEF Publisher, Connection
  <2>4. Publisher' = "closed"
    BY <2>2 DEF Publisher, HungUp, Connection
  <2>5. S!PublisherCloses
    BY <1>7, <2>3, <2>4 DEF HangsUp, streamVars, S!PublisherCloses
  <2> QED
    BY <2>5 DEF S!StreamNext
<1>8. CASE Closed
  <2>1. PICK p \in Publishers :
          connection[p].handle = "closing" /\ connection' = [connection EXCEPT ![p].handle = "closed"]
    BY <1>8 DEF Closed
  <2>2. input' = input /\ UNCHANGED streamVars
    BY <1>8 DEF Closed
  <2>3. CASE p = input
    <3>1. input # None /\ connection'[input].handle = "closed" /\ connection[input].handle = "closing"
      BY <2>1, <2>3 DEF IInv, TypeOK, Connection, Publishers, None
    <3>2. Publisher = "closed" /\ Publisher' = "closed"
      BY <2>2, <3>1 DEF Publisher
    <3> QED
      BY <2>2, <3>2 DEF streamVars, S!streamVars
  <2>4. CASE p # input
    <3>1. input # None => connection'[input] = connection[input]
      BY <1>0, <2>1, <2>4 DEF IInv, TypeOK
    <3> QED
      BY <2>2, <3>1, Stutters
  <2> QED
    BY <2>3, <2>4
<1> QED
  BY <1>1, <1>2, <1>3, <1>4, <1>5, <1>6, <1>7, <1>8 DEF Next

(* The publishing side implements Stream, on which all that is proved of   *)
(* the consumers in StreamClient rests.                                    *)
THEOREM Implements == Spec => PublishesAsStream
<1>1. Init => S!StreamInit
  BY DEF Init, S!StreamInit, Publisher, NoFragment, S!NoFragment
<1> QED
  BY <1>1, NextImplements, Inductive, PTL DEF Spec, PublishesAsStream, S!StreamSpec
===============================================================================
