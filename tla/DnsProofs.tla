------------------------------ MODULE DnsProofs ------------------------------
(***************************************************************************)
(* SingleFlight, Owned, and that Connector implements SharedConn, for any  *)
(* set of calls; then that the UDP transport uses the connector as it is   *)
(* meant, CallbacksExact, ClosedIsIdle and AnswerMatches.                  *)
(***************************************************************************)
EXTENDS DnsUdp, FiniteSetTheorems, TLAPS

(* Zenon proves what does not say otherwise.                              *)
USE ZenonT(30)

(* While a dial runs nothing is installed, and `connecting` names it.      *)
Slots ==
  /\ SingleFlight
  /\ connecting # None => Dialing(connecting) /\ current = None
  /\ cancel = current
  /\ current # None => dial[current] = "done"

(* A call dials at most once.  A dial its call has left belongs to a       *)
(* context that is done, and so does one whose context was cancelled early.*)
Dials ==
  \A d \in Calls :
    /\ ~(At(d, "dial") \/ At(d, "done")) => dial[d] = "none"
    /\ At(d, "dial") => Dialing(d)
    /\ Dialing(d) /\ ~At(d, "dial") => d \in ctxDone \/ ended
    /\ dial[d] \in {"none", "dialing", "failed"} => sock[d] = "none"
    /\ dial[d] = "none" => d \notin cancelled
    /\ dial[d] \in {"dialing", "ok"} /\ d \in cancelled => d \in ctxDone

ConnectorInv == ConnectorTypeOK /\ Slots /\ Dials /\ Owned

(* Init satisfies the invariant.                                           *)
LEMMA InitInv == Init => ConnectorInv
<1> SUFFICES ASSUME Init PROVE ConnectorInv
  OBVIOUS
<1> USE NoneAssumption DEF Init, At
<1>1. ConnectorTypeOK BY DEF ConnectorTypeOK, Some
<1>2. Slots BY DEF Slots, SingleFlight, Dialing
<1>3. Dials BY DEF Dials, Dialing
<1>4. Owned BY DEF Owned
<1> QED BY <1>1, <1>2, <1>3, <1>4 DEF ConnectorInv

(* Get preserves it: the interesting case starts a dial after dropping a   *)
(* broken connection.                                                      *)
LEMMA GetInv == ASSUME NEW g \in Calls, ConnectorInv, Get(g) PROVE ConnectorInv'
<1>1. ConnectorTypeOK'
  BY SMTT(30) DEF Get, ConnectorInv, ConnectorTypeOK, Goto, At, Some, Opt
<1>2. Slots'
  BY SMTT(30), NoneAssumption DEF Get, ConnectorInv, ConnectorTypeOK, Slots, SingleFlight, Dialing
<1> DEFINE starts == connecting' = g /\ dial' = [dial EXCEPT ![g] = "dialing"]
                        /\ Goto(g, "dial", None) /\ g \notin ctxDone
           returns == UNCHANGED <<connecting, dial>>
                        /\ \E pc \in {"wait", "done"}, c \in Some : Goto(g, pc, c)
           drops == cancelled' = cancelled \cup Opt(current) /\ current' = None
<1>3. /\ At(g, "get") /\ UNCHANGED <<closed, ended, sock, ctxDone>>
      /\ starts \/ returns
      /\ UNCHANGED <<current, cancelled>> \/ drops
  BY DEF Get, ConnectorInv, ConnectorTypeOK, Slots
<1>4. g # current /\ g \notin cancelled'
  BY <1>3, NoneAssumption DEF ConnectorInv, Slots, Dials, At, Opt
<1>5. dial[g] = "none" /\ sock[g] = "none"
  BY <1>3 DEF ConnectorInv, Dials, At
<1>6. Dials'
  <2>1. CASE starts
    BY SMTT(30), <1>3 DEF ConnectorInv, ConnectorTypeOK, Slots, Dials, Dialing, Goto, At, Opt
  <2>2. CASE returns
    BY SMTT(30), <1>3 DEF ConnectorInv, ConnectorTypeOK, Slots, Dials, Dialing, Goto, At, Opt
  <2> QED BY <1>3, <2>1, <2>2
<1>7. \A d \in Calls : dial'[d] \in {"ok", "done"} => dial'[d] = dial[d]
  BY <1>3 DEF ConnectorInv, ConnectorTypeOK
<1>8. \A d \in Calls : dial[d] \in {"ok", "done"} => dial'[d] = dial[d]
  BY <1>3, <1>5 DEF ConnectorInv, ConnectorTypeOK
<1>9. Owned'
  <2>1. CASE UNCHANGED <<current, cancelled>>
    BY <1>3, <1>7, <1>8, <2>1 DEF ConnectorInv, Owned
  <2>2. CASE drops /\ ~Live
    BY <1>3, <1>8, <2>2 DEF ConnectorInv, ConnectorTypeOK, Owned, Live, Opt
  <2> QED BY <1>3, <2>1, <2>2 DEF Get
<1> QED BY <1>1, <1>2, <1>6, <1>9 DEF ConnectorInv

(* The other steps of a call and its dial.                                 *)
LEMMA StepInv ==
  ASSUME NEW g \in Calls, ConnectorInv,
         Call(g) \/ Wait(g) \/ DialReturn(g) \/ AfterFunc(g) \/ Abandon(g)
  PROVE  ConnectorInv'
<1> USE NoneAssumption
           DEF ConnectorInv, ConnectorTypeOK, Slots, Dials, Owned, SingleFlight, Dialing, Goto,
               At, Some
<1>1. CASE Call(g) BY SMTT(30), <1>1 DEF Call
<1>2. CASE Wait(g)
  <2>1. ConnectorTypeOK' BY SMTT(30), <1>2 DEF Wait
  <2>2. Slots' /\ Owned' BY SMTT(30), <1>2 DEF Wait
  <2>3. Dials' BY SMTT(30), <1>2 DEF Wait
  <2> QED BY <2>1, <2>2, <2>3
<1>3. CASE DialReturn(g) BY SMTT(30), <1>3 DEF DialReturn
<1>4. CASE AfterFunc(g) BY SMTT(30), <1>4 DEF AfterFunc
<1>5. CASE Abandon(g) BY SMTT(30), <1>5 DEF Abandon
<1> QED BY <1>1, <1>2, <1>3, <1>4, <1>5

(* completeDial, whether it installs the connection or closes it.          *)
LEMMA CompleteDialInv ==
  ASSUME NEW d \in Calls, ConnectorInv, CompleteDial(d) PROVE ConnectorInv'
<1>1. ConnectorTypeOK'
  BY SMTT(30) DEF CompleteDial, ConnectorInv, ConnectorTypeOK, Goto, At, Some
<1>2. Slots'
  BY DEF CompleteDial, ConnectorInv, ConnectorTypeOK, Slots, SingleFlight, Dialing, Some
<1>3. Dials'
  BY SMTT(30) DEF CompleteDial, ConnectorInv, ConnectorTypeOK, Dials, Dialing, Goto, At
<1>4. Owned'
  BY SMTT(30), NoneAssumption DEF CompleteDial, ConnectorInv, ConnectorTypeOK, Slots, Dials, Owned,
      SingleFlight, Dialing
<1> QED BY <1>1, <1>2, <1>3, <1>4 DEF ConnectorInv

(* What happens from outside: contexts end, sockets break, Reset, Close.   *)
LEMMA EnvInv ==
  ASSUME ConnectorInv,
         \/ Reset \/ EndCtx \/ CloseConnector
         \/ \E g \in Calls : CtxDone(g) \/ LoseConn(g)
  PROVE  ConnectorInv'
<1> USE NoneAssumption
           DEF ConnectorInv, ConnectorTypeOK, Slots, Dials, Owned, SingleFlight, Dialing, At, Some
<1>1. CASE Reset BY SMTT(30), <1>1 DEF Reset, Drop, Opt
<1>2. CASE EndCtx BY <1>2 DEF EndCtx
<1>3. CASE CloseConnector BY SMTT(30), <1>3 DEF CloseConnector, Drop, Opt
<1>4. CASE \E g \in Calls : CtxDone(g) BY SMTT(30), <1>4 DEF CtxDone
<1>5. CASE \E g \in Calls : LoseConn(g) BY SMTT(30), <1>5 DEF LoseConn
<1> QED BY <1>1, <1>2, <1>3, <1>4, <1>5

(* The invariant is inductive.                                             *)
LEMMA NextInv == ConnectorInv /\ [ConnectorNext]_connVars => ConnectorInv'
<1>1. ASSUME ConnectorInv, ConnectorNext PROVE ConnectorInv'
  BY <1>1, GetInv, StepInv, CompleteDialInv, EnvInv DEF ConnectorNext, Step
<1>2. ASSUME ConnectorInv, UNCHANGED connVars PROVE ConnectorInv'
  BY <1>2 DEF connVars, ConnectorInv, ConnectorTypeOK, Slots, Dials, Owned, SingleFlight, Dialing,
      At
<1> QED BY <1>1, <1>2

(* The inductive invariant holds in every state.                           *)
LEMMA ConnectorInvariant == ConnectorSpec => []ConnectorInv
BY InitInv, NextInv, PTL DEF ConnectorSpec

(* No second dial starts before the first is complete.                     *)
THEOREM DialsAreSingleFlight == ConnectorSpec => []SingleFlight
BY ConnectorInvariant, PTL DEF ConnectorInv, Slots

(* No socket and no context is leaked or cut off.                          *)
THEOREM ConnectionsAreOwned == ConnectorSpec => []Owned
BY ConnectorInvariant, PTL DEF ConnectorInv

-----------------------------------------------------------------------------
(* Get hands out the shared connection, or changes nothing visible.        *)
LEMMA GetServes ==
  ASSUME NEW g \in Calls, ConnectorInv, Get(g)
  PROVE  Shared!Serve(g) \/ UNCHANGED Shared!vars
<1> USE NoneAssumption
           DEF ConnectorInv, ConnectorTypeOK, Slots, Dials, Some, At, Goto, Live, Get
<1>1. CASE ~closed /\ Live
  <2>1. /\ Goto(g, "done", current) /\ current \in Calls /\ current # g
        /\ UNCHANGED <<current, sock, closed>>
    BY <1>1
  <2>2. UNCHANGED {d \in Calls : get[d].pc = "done" /\ get[d].conn = d}
    BY <2>1
  <2>3. [h \in Calls |-> IF At(h, "done") THEN get[h].conn ELSE None]'
          = [[h \in Calls |-> IF At(h, "done") THEN get[h].conn ELSE None] EXCEPT ![g] = current]
    BY <2>1
  <2> QED BY <1>1, <2>1, <2>2 DEF Shared!Serve
<1>2. CASE closed \/ ~Live
  BY SMTT(30), <1>2 DEF Shared!vars
<1> QED BY <1>1, <1>2

(* completeDial publishes its connection, or changes nothing visible.      *)
LEMMA CompleteDialPublishes ==
  ASSUME NEW d \in Calls, ConnectorInv, CompleteDial(d)
  PROVE  Shared!Publish(d) \/ UNCHANGED Shared!vars
<1> USE NoneAssumption
           DEF ConnectorInv, ConnectorTypeOK, Slots, Dials, SingleFlight, Dialing, Some, At, Goto,
               Live, CompleteDial
<1>1. connecting = d /\ current = None
  OBVIOUS
<1>2. CASE dial[d] = "ok" /\ ~closed /\ ~ended /\ d \notin ctxDone
  <2>1. /\ At(d, "dial") /\ Goto(d, "done", d) /\ current' = d
        /\ UNCHANGED <<sock, closed>>
    BY <1>2
  <2>2. {c \in Calls : get[c].pc = "done" /\ get[c].conn = c}'
          = {c \in Calls : get[c].pc = "done" /\ get[c].conn = c} \cup {d}
    BY SMTT(30), <2>1
  <2>3. [h \in Calls |-> IF At(h, "done") THEN get[h].conn ELSE None]'
          = [[h \in Calls |-> IF At(h, "done") THEN get[h].conn ELSE None] EXCEPT ![d] = d]
    BY <2>1
  <2>4. (IF Live THEN current ELSE None)' \in {d, None}
    OBVIOUS
  <2> QED BY <1>1, <1>2, <2>1, <2>2 DEF Shared!Publish
<1>3. CASE ~(dial[d] = "ok" /\ ~closed /\ ~ended /\ d \notin ctxDone)
  BY SMTT(30), <1>3 DEF Shared!vars
<1> QED BY <1>2, <1>3

(* Every other step withdraws the connection, closes, or is not visible.   *)
LEMMA OthersStutter ==
  ASSUME ConnectorInv,
         \/ Reset \/ EndCtx \/ CloseConnector
         \/ \E g \in Calls : \/ CtxDone(g) \/ LoseConn(g) \/ Call(g) \/ Wait(g)
                             \/ DialReturn(g) \/ AfterFunc(g) \/ Abandon(g)
  PROVE  Shared!Withdraw \/ Shared!Close \/ UNCHANGED Shared!vars
<1> USE NoneAssumption
           DEF ConnectorInv, ConnectorTypeOK, Slots, Dials, Dialing, Owned, Some, At, Goto, Live
<1>1. CASE Reset BY <1>1 DEF Reset, Drop, Shared!Withdraw
<1>2. CASE EndCtx BY <1>2 DEF EndCtx, Shared!vars
<1>3. CASE CloseConnector BY <1>3 DEF CloseConnector, Drop, Shared!Close
<1>4. CASE \E g \in Calls : CtxDone(g) BY SMTT(30), <1>4 DEF CtxDone, Shared!vars
<1>5. CASE \E g \in Calls : LoseConn(g)
  BY SMTT(30), <1>5 DEF LoseConn, Shared!vars, Shared!Withdraw
<1>6. CASE \E g \in Calls : Call(g) \/ Wait(g) \/ Abandon(g)
  BY SMTT(30), <1>6 DEF Call, Wait, Abandon, Shared!vars
<1>7. CASE \E g \in Calls : DialReturn(g) \/ AfterFunc(g)
  BY SMTT(30), <1>7 DEF DialReturn, AfterFunc, Shared!vars
<1> QED BY <1>1, <1>2, <1>3, <1>4, <1>5, <1>6, <1>7

(* Connector implements SharedConn.                                        *)
THEOREM Refinement == ConnectorSpec => SharesOneConnection
<1>1. Init => Shared!Init
  BY SMTT(30) DEF Init, Shared!Init
<1>2. ConnectorInv /\ [ConnectorNext]_connVars => [Shared!Next]_Shared!vars
  <2>1. ASSUME ConnectorInv, ConnectorNext PROVE [Shared!Next]_Shared!vars
    BY <2>1, GetServes, CompleteDialPublishes, OthersStutter DEF ConnectorNext, Step, Shared!Next
  <2>2. ASSUME UNCHANGED connVars PROVE UNCHANGED Shared!vars
    BY <2>2 DEF connVars, Shared!vars, Live, At
  <2> QED BY <2>1, <2>2
<1> QED BY <1>1, <1>2, ConnectorInvariant, PTL DEF ConnectorSpec, SharesOneConnection, Shared!Spec

-----------------------------------------------------------------------------
(* The UDP transport.  A query that has registered holds a connection.     *)
Connected ==
  \A g \in Calls : PC(g) \in {"write", "wait"} => At(g, "done") /\ get[g].conn \in Calls

(* BaseTransport counts the queries between BeginQuery and EndQuery.       *)
Active == {g \in Calls : PC(g) \notin {"idle", "done"}}
Counted == inFlight = Cardinality(Active)

(* Once Shutdown has begun no query begins, and queriesComplete is closed  *)
(* by the last one.                                                        *)
Draining ==
  /\ shut # "idle" => base \in {"closing", "closed"}
  /\ complete # "none" => shut # "idle"
  /\ complete = "closed" => inFlight = 0

UdpInv ==
  /\ ConnectorInv /\ UdpTypeOK /\ Connected /\ Counted /\ Draining
  /\ CallbacksExact /\ ClosedIsIdle

(* The transport's initial state satisfies the invariant.                  *)
LEMMA UdpInitInv == UdpInit => UdpInv
<1> SUFFICES ASSUME UdpInit PROVE UdpInv
  OBVIOUS
<1>1. ConnectorInv
  BY InitInv DEF UdpInit
<1>2. UdpTypeOK
  <2>1. 0 \in Ids BY SMTT(30), IdSpaceAssumption DEF Ids
  <2> QED BY <1>1, <2>1 DEF UdpInit, UdpTypeOK, ConnectorInv, Some
<1>3. Connected /\ Draining /\ CallbacksExact /\ ClosedIsIdle
  BY DEF UdpInit, Connected, Draining, CallbacksExact, ClosedIsIdle, PC
<1>4. Counted
  <2>1. Active = {} BY DEF UdpInit, Active, PC
  <2> QED BY <2>1, FS_EmptySet DEF UdpInit, Counted
<1> QED BY <1>1, <1>2, <1>3, <1>4 DEF UdpInv

(* Every step of the transport is one of the connector, or none.           *)
LEMMA UsesConnector ==
  ASSUME UdpInv, [UdpNext]_vars PROVE [ConnectorNext]_connVars
<1>1. ASSUME NEW g \in Calls, Edns(g) PROVE ConnectorNext
  BY <1>1 DEF Edns, ConnectorNext
<1>2. ASSUME NEW g \in Calls, Write(g) PROVE [ConnectorNext]_connVars
  <2>1. get[g].conn \in Calls
    BY <1>2 DEF UdpInv, Connected, Write
  <2> QED BY <1>2, <2>1 DEF Write, ConnectorNext
<1>3. ASSUME NEW g \in Calls,
             BeginQuery(g) \/ Register(g) \/ Answer(g) \/ EndQuery(g) \/ ExchangeTCP(g)
      PROVE  UNCHANGED connVars
  BY <1>3 DEF BeginQuery, Register, Answer, EndQuery, ExchangeTCP
<1>4. CASE SetStarted \/ Shutdown \/ ShutdownDone \/ \E m \in net : Receive(m)
  BY <1>4 DEF SetStarted, Shutdown, ShutdownDone, Receive
<1>5. CASE CloseCancel \/ CloseTransport
  BY <1>5 DEF CloseCancel, CloseTransport, ConnectorNext
<1>6. CASE \/ Reset
           \/ \E g \in Calls : Step(g) \/ CtxDone(g) \/ LoseConn(g)
  BY <1>6 DEF ConnectorNext
<1>7. CASE UNCHANGED vars
  BY <1>7 DEF vars
<1> QED BY <1>1, <1>2, <1>3, <1>4, <1>5, <1>6, <1>7 DEF UdpNext, QueryStep

(* What Get has returned stays.                                            *)
LEMMA ReturnedStays ==
  ASSUME ConnectorTypeOK, [ConnectorNext]_connVars, NEW g \in Calls, At(g, "done")
  PROVE  get'[g] = get[g]
<1> USE DEF ConnectorTypeOK, At, Goto
<1>1. ASSUME NEW h \in Calls, Get(h) PROVE get'[g] = get[g]
  BY <1>1 DEF Get
<1>2. ASSUME NEW h \in Calls, Call(h) \/ Wait(h) \/ Abandon(h) PROVE get'[g] = get[g]
  BY <1>2 DEF Call, Wait, Abandon
<1>3. ASSUME NEW h \in Calls, CompleteDial(h) PROVE get'[g] = get[g]
  BY <1>3 DEF CompleteDial
<1>4. ASSUME NEW h \in Calls, DialReturn(h) \/ AfterFunc(h) \/ CtxDone(h) \/ LoseConn(h)
      PROVE  get' = get
  BY <1>4 DEF DialReturn, AfterFunc, CtxDone, LoseConn
<1>5. CASE Reset \/ EndCtx \/ CloseConnector
  BY <1>5 DEF Reset, EndCtx, CloseConnector
<1>6. CASE UNCHANGED connVars
  BY <1>6 DEF connVars
<1> QED BY <1>1, <1>2, <1>3, <1>4, <1>5, <1>6 DEF ConnectorNext, Step

(* Both at once: what a step leaves of the connector.                      *)
LEMMA ConnectorKept ==
  ASSUME UdpInv, [UdpNext]_vars
  PROVE  /\ ConnectorInv' /\ ConnectorTypeOK'
         /\ \A g \in Calls : At(g, "done") => At(g, "done")' /\ get'[g] = get[g]
<1>1. [ConnectorNext]_connVars /\ ConnectorInv /\ ConnectorTypeOK
  BY UsesConnector DEF UdpInv, ConnectorInv
<1>2. ConnectorInv' /\ ConnectorTypeOK'
  BY <1>1, NextInv DEF ConnectorInv
<1>3. \A g \in Calls : At(g, "done") => get'[g] = get[g]
  BY <1>1, ReturnedStays
<1> QED BY <1>2, <1>3 DEF At

-----------------------------------------------------------------------------
(* The set of queries in flight is finite, and its size is known.          *)
LEMMA InFlight ==
  ASSUME UdpInv
  PROVE  /\ IsFiniteSet(Active) /\ inFlight \in Nat
         /\ \A g \in Active : inFlight >= 1
<1>1. IsFiniteSet(Active)
  BY CallsAssumption, FS_Subset DEF Active
<1>2. inFlight = Cardinality(Active) /\ inFlight \in Nat
  BY DEF UdpInv, Counted, UdpTypeOK
<1>3. ASSUME NEW g \in Active PROVE inFlight # 0
  BY <1>1, <1>2, FS_EmptySet
<1> QED BY SMTT(30), <1>1, <1>2, <1>3

(* A query begins.                                                         *)
LEMMA BeginInv == ASSUME UdpInv, NEW g \in Calls, BeginQuery(g), UdpNext PROVE UdpInv'
<1>1. /\ ConnectorInv' /\ ConnectorTypeOK' /\ UNCHANGED get
  BY ConnectorKept DEF BeginQuery, connVars
<1>2. UdpTypeOK'
  BY SMTT(30), <1>1 DEF BeginQuery, Move, UdpInv, UdpTypeOK
<1>3. Connected' /\ CallbacksExact'
  BY SMTT(30), <1>1 DEF BeginQuery, Move, PC, At, UdpInv, UdpTypeOK, Connected, CallbacksExact, Some
<1>4. Draining' /\ ClosedIsIdle'
  BY DEF BeginQuery, UdpInv, Draining, ClosedIsIdle
<1>5. Counted'
  <2>1. CASE base = "started"
    <3>1. g \notin Active /\ Active' = Active \cup {g} /\ inFlight' = inFlight + 1
      BY <2>1 DEF BeginQuery, Move, PC, Active, UdpInv, UdpTypeOK
    <3> QED BY <3>1, InFlight, FS_AddElement DEF Counted, UdpInv
  <2>2. CASE base # "started"
    <3>1. Active' = Active /\ inFlight' = inFlight
      BY <2>2 DEF BeginQuery, Move, PC, Active, UdpInv, UdpTypeOK
    <3> QED BY <3>1 DEF Counted, UdpInv
  <2> QED BY <2>1, <2>2
<1> QED BY <1>1, <1>2, <1>3, <1>4, <1>5 DEF UdpInv

(* A query ends; the last one tells Shutdown.                              *)
LEMMA EndInv == ASSUME UdpInv, NEW g \in Calls, EndQuery(g), UdpNext PROVE UdpInv'
<1>1. /\ ConnectorInv' /\ ConnectorTypeOK' /\ UNCHANGED get
  BY ConnectorKept DEF EndQuery, connVars
<1>2. g \in Active /\ inFlight \in Nat /\ inFlight >= 1 /\ inFlight' = inFlight - 1
  BY InFlight DEF EndQuery, Active
<1>3. UdpTypeOK'
  BY SMTT(30), <1>1, <1>2 DEF EndQuery, Move, UdpInv, UdpTypeOK
<1>4. Connected' /\ CallbacksExact'
  BY SMTT(30), <1>1 DEF EndQuery, Move, PC, At, UdpInv, Connected, CallbacksExact
<1>5. Draining' /\ ClosedIsIdle'
  BY SMTT(30), <1>2 DEF EndQuery, UdpInv, Draining, ClosedIsIdle
<1>6. Counted'
  <2>1. Active' = Active \ {g}
    BY DEF EndQuery, Move, PC, Active, UdpInv, UdpTypeOK
  <2> QED BY <1>2, <2>1, InFlight, FS_RemoveElement DEF Counted, UdpInv
<1> QED BY <1>1, <1>3, <1>4, <1>5, <1>6 DEF UdpInv

-----------------------------------------------------------------------------
(* The steps in between leave the count and the shutdown alone.            *)
LEMMA UnderwayInv ==
  ASSUME UdpInv, UNCHANGED <<base, inFlight, complete, shut, timedOut>>, Active' = Active,
         ConnectorInv', UdpTypeOK', Connected', CallbacksExact'
  PROVE  UdpInv'
<1>1. Draining' /\ ClosedIsIdle'
  BY DEF UdpInv, Draining, ClosedIsIdle
<1>2. Counted'
  BY DEF UdpInv, Counted
<1> QED BY <1>1, <1>2 DEF UdpInv

(* A larger EDNS size, and the call of Get.                                *)
LEMMA EdnsInv == ASSUME UdpInv, NEW g \in Calls, Edns(g), UdpNext PROVE UdpInv'
<1>1. /\ ConnectorInv' /\ ConnectorTypeOK'
      /\ \A h \in Calls : At(h, "done") => At(h, "done")' /\ get'[h] = get[h]
  BY ConnectorKept
<1>2. UdpTypeOK'
  <2>1. /\ grown' \in BOOLEAN
        /\ UNCHANGED query \/ query' = [query EXCEPT ![g].pc = "get"]
    BY DEF Edns, Move, UdpInv, UdpTypeOK
  <2>2. query' \in [Calls -> [pc : {"idle", "edns", "get", "write", "wait", "tcp", "end", "done"},
                            id : Ids, answer : Some]]
    <3>1. CASE UNCHANGED query
      BY <3>1 DEF UdpInv, UdpTypeOK
    <3>2. CASE query' = [query EXCEPT ![g].pc = "get"]
      BY <3>2 DEF UdpInv, UdpTypeOK
    <3> QED BY <2>1, <3>1, <3>2
  <2> QED BY <1>1, <2>1, <2>2 DEF Edns, UdpInv, UdpTypeOK
<1>3. Connected'
  BY SMTT(30), <1>1 DEF Edns, Move, PC, UdpInv, UdpTypeOK, Connected
<1>4. CallbacksExact'
  BY SMTT(30) DEF Edns, Move, PC, UdpInv, UdpTypeOK, CallbacksExact, Some
<1>5. Active' = Active
  BY DEF Edns, Move, PC, UdpInv, UdpTypeOK, Active
<1>6. UNCHANGED <<base, inFlight, complete, shut, timedOut>>
  BY DEF Edns
<1> QED BY <1>1, <1>2, <1>3, <1>4, <1>5, <1>6, UnderwayInv

(* Get has answered: the query takes an ID or gives up.                    *)
LEMMA RegisterInv == ASSUME UdpInv, NEW g \in Calls, Register(g), UdpNext PROVE UdpInv'
<1>1. ConnectorInv' /\ ConnectorTypeOK' /\ UNCHANGED get
  BY ConnectorKept DEF Register, connVars
<1>2. UdpTypeOK'
  BY SMTT(30), <1>1 DEF Register, Move, UdpInv, UdpTypeOK, Some
<1>3. Connected'
  BY SMTT(30), <1>1 DEF Register, Move, PC, At, UdpInv, ConnectorTypeOK, UdpTypeOK, Connected, Some
<1>4. CallbacksExact'
  BY SMTT(30) DEF Register, Move, PC, UdpInv, UdpTypeOK, CallbacksExact, Some
<1>5. Active' = Active
  BY SMTT(30) DEF Register, Move, PC, UdpInv, UdpTypeOK, Active
<1>6. UNCHANGED <<base, inFlight, complete, shut, timedOut>>
  BY DEF Register
<1> QED BY <1>1, <1>2, <1>3, <1>4, <1>5, <1>6, UnderwayInv

(* The query is sent, or its entry leaves the table.                       *)
LEMMA WriteInv == ASSUME UdpInv, NEW g \in Calls, Write(g), UdpNext PROVE UdpInv'
<1>1. /\ ConnectorInv' /\ ConnectorTypeOK'
      /\ \A h \in Calls : At(h, "done") => At(h, "done")' /\ get'[h] = get[h]
  BY ConnectorKept
<1>2. get[g].conn \in Calls
  BY DEF Write, UdpInv, Connected
<1>3. UdpTypeOK'
  BY SMTT(30), <1>1, <1>2 DEF Write, Unregister, Move, UdpInv, UdpTypeOK, Some
<1>4. Connected'
  BY <1>1 DEF Write, Move, PC, UdpInv, UdpTypeOK, Connected
<1>5. CallbacksExact'
  BY SMTT(30) DEF Write, Unregister, Move, PC, UdpInv, UdpTypeOK, CallbacksExact, Some
<1>6. Active' = Active
  BY DEF Write, Move, PC, UdpInv, UdpTypeOK, Active
<1>7. UNCHANGED <<base, inFlight, complete, shut, timedOut>>
  BY DEF Write
<1> QED BY <1>1, <1>3, <1>4, <1>5, <1>6, <1>7, UnderwayInv

(* The wait ends, with or without an answer, or the TCP retry returns.     *)
LEMMA AnswerInv ==
  ASSUME UdpInv, NEW g \in Calls, Answer(g) \/ ExchangeTCP(g), UdpNext PROVE UdpInv'
<1>1. ConnectorInv' /\ ConnectorTypeOK' /\ UNCHANGED get
  BY ConnectorKept DEF Answer, ExchangeTCP, connVars
<1>2. UdpTypeOK'
  BY SMTT(30), <1>1 DEF Answer, ExchangeTCP, Unregister, Move, UdpInv, UdpTypeOK, Some
<1>3. Connected'
  BY SMTT(30), <1>1 DEF Answer, ExchangeTCP, Move, PC, At, UdpInv, UdpTypeOK, Connected
<1>4. CallbacksExact'
  BY SMTT(30) DEF Answer, ExchangeTCP, Unregister, Move, PC, UdpInv, UdpTypeOK, CallbacksExact, Some
<1>5. Active' = Active
  BY DEF Answer, ExchangeTCP, Move, PC, UdpInv, UdpTypeOK, Active
<1>6. UNCHANGED <<base, inFlight, complete, shut, timedOut>>
  BY DEF Answer, ExchangeTCP
<1> QED BY <1>1, <1>2, <1>3, <1>4, <1>5, <1>6, UnderwayInv

(* An answer arrives, whatever it answers.                                 *)
LEMMA ReceiveInv == ASSUME UdpInv, NEW m \in net, Receive(m), UdpNext PROVE UdpInv'
<1>1. ConnectorInv' /\ ConnectorTypeOK' /\ UNCHANGED get
  BY ConnectorKept DEF Receive, connVars
<1>2. callbacks[m.id] \in Calls /\ m.to \in Calls
  BY DEF Receive, UdpInv, UdpTypeOK, Some
<1>3. UdpTypeOK'
  BY SMTT(30), <1>1 DEF Receive, UdpInv, UdpTypeOK, Some
<1>4. Connected' /\ CallbacksExact' /\ Active' = Active
  BY SMTT(30), <1>1 DEF Receive, PC, At, UdpInv, Connected, CallbacksExact, Active
<1>5. UNCHANGED <<base, inFlight, complete, shut, timedOut>>
  BY DEF Receive
<1> QED BY <1>1, <1>3, <1>4, <1>5, UnderwayInv

(* SetStarted and the steps of Close.                                      *)
LEMMA LifecycleInv ==
  ASSUME UdpInv, SetStarted \/ Shutdown \/ CloseCancel \/ ShutdownDone \/ CloseTransport, UdpNext
  PROVE  UdpInv'
<1> USE DEF SetStarted, Shutdown, CloseCancel, ShutdownDone, CloseTransport
<1>1. /\ ConnectorInv' /\ ConnectorTypeOK'
      /\ \A h \in Calls : At(h, "done") => At(h, "done")' /\ get'[h] = get[h]
  BY ConnectorKept
<1>2. UNCHANGED <<query, callbacks, inFlight, queryId, grown, net>>
  OBVIOUS
<1>3. UdpTypeOK'
  BY <1>1 DEF UdpInv, UdpTypeOK
<1>4. Connected' /\ CallbacksExact' /\ Counted'
  BY <1>1 DEF UdpInv, Connected, CallbacksExact, Counted, Active, PC
<1>5. Draining' /\ ClosedIsIdle'
  BY DEF UdpInv, Draining, ClosedIsIdle
<1> QED BY <1>1, <1>3, <1>4, <1>5 DEF UdpInv

(* The invariant of the transport is inductive.                            *)
LEMMA UdpNextInv == UdpInv /\ [UdpNext]_vars => UdpInv'
<1> SUFFICES ASSUME UdpInv, [UdpNext]_vars PROVE UdpInv'
  OBVIOUS
<1>1. CASE UNCHANGED udpVars
  <2>1. /\ ConnectorInv' /\ ConnectorTypeOK'
        /\ \A h \in Calls : At(h, "done") => At(h, "done")' /\ get'[h] = get[h]
    BY ConnectorKept
  <2>2. UdpTypeOK' /\ Connected' /\ CallbacksExact' /\ Active' = Active
    BY <1>1, <2>1 DEF udpVars, UdpInv, UdpTypeOK, Connected, CallbacksExact, Active, PC
  <2> QED BY <1>1, <2>1, <2>2, UnderwayInv DEF udpVars
<1>2. CASE UdpNext /\ ~UNCHANGED udpVars
  BY <1>2, BeginInv, EndInv, EdnsInv, RegisterInv, WriteInv, AnswerInv, ReceiveInv, LifecycleInv
      DEF UdpNext, QueryStep
<1>3. CASE UNCHANGED vars
  BY <1>1, <1>3 DEF vars
<1> QED BY <1>1, <1>2, <1>3

(* The inductive invariant of the transport holds in every state.          *)
LEMMA UdpInvariant == UdpSpec => []UdpInv
BY UdpInitInv, UdpNextInv, PTL DEF UdpSpec

(* The transport uses the connector only through its operations, so what   *)
(* it gets is the one shared connection of SharedConn.                     *)
THEOREM TransportShares == UdpSpec => SharesOneConnection
<1>1. UdpInit => Init
  BY DEF UdpInit
<1>2. UdpInv /\ [UdpNext]_vars => [ConnectorNext]_connVars
  BY UsesConnector
<1>3. UdpSpec => ConnectorSpec
  BY <1>1, <1>2, UdpInvariant, PTL DEF UdpSpec, ConnectorSpec
<1> QED BY <1>3, Refinement, PTL

(* UdpTypeOK: every variable keeps its type; the count of queries in       *)
(* flight never goes below zero.                                           *)
THEOREM TransportTypes == UdpSpec => []UdpTypeOK
BY UdpInvariant, PTL DEF UdpInv

(* CallbacksExact: no path out of exchange leaves an entry in the callback *)
(* table, for any number of queries and of IDs.                            *)
THEOREM CallbacksAreExact == UdpSpec => []CallbacksExact
BY UdpInvariant, PTL DEF UdpInv

(* ClosedIsIdle: when Shutdown reports success no query is in flight.      *)
THEOREM ShutdownIsComplete == UdpSpec => []ClosedIsIdle
BY UdpInvariant, PTL DEF UdpInv

-----------------------------------------------------------------------------
(* Query IDs.  They are given out in order, from 1 up and 0 last, so with  *)
(* no more queries than IDs none is given out twice.                       *)
Unnumbered(g) == PC(g) \in {"idle", "edns", "get"}
Numbered == {g \in Calls : query[g].id # 0}

(* Before the last ID is taken, ...                                        *)
Counting ==
  /\ queryId <= Cardinality(Numbered)
  /\ \A g \in Calls : query[g].id <= queryId /\ (PC(g) \in {"write", "wait"} => query[g].id # 0)
  /\ \A g, h \in Numbered : query[g].id = query[h].id => g = h
  /\ \A m \in net : m.id # 0

(* ... and after it, when every query has its own.                         *)
Exhausted ==
  /\ \A g \in Calls : ~Unnumbered(g)
  /\ \A g, h \in Calls : query[g].id = query[h].id => g = h

Labelled ==
  /\ AnswerMatches /\ (Counting \/ Exhausted)
  /\ \A g \in Calls : Unnumbered(g) => query[g].id = 0
  /\ \A m \in net : m.id = query[m.to].id /\ ~Unnumbered(m.to)

(* No query has an ID at first.                                            *)
LEMMA InitLabelled == UdpInit => Labelled
<1> SUFFICES ASSUME UdpInit PROVE Labelled
  OBVIOUS
<1>1. Numbered = {} /\ queryId = 0 /\ net = {}
  BY DEF UdpInit, Numbered
<1>2. Counting
  BY SMTT(30), <1>1, FS_EmptySet DEF UdpInit, Counting, PC
<1> QED BY <1>2 DEF UdpInit, Labelled, AnswerMatches

(* The search for a free ID stops at the next one when that is free.       *)
LEMMA NextIsFree ==
  ASSUME UdpTypeOK, NEW i \in Ids, NextAvailableQueryId(i),
         callbacks[(queryId + 1) % IdSpace] = None
  PROVE  i = (queryId + 1) % IdSpace
<1> DEFINE k == IF i > queryId THEN i - queryId ELSE i - queryId + IdSpace
<1>1. k \in 1..IdSpace /\ (queryId + k = i \/ queryId + k = i + IdSpace)
  BY SMTT(30), IdSpaceAssumption DEF UdpTypeOK, Ids
<1>2. i % IdSpace = i /\ (i + IdSpace) % IdSpace = i
  BY SMTT(30), IdSpaceAssumption DEF Ids
<1>3. (queryId + k) % IdSpace = i
  BY <1>1, <1>2
<1> HIDE DEF k
<1>4. \A l \in 1..(k - 1) : callbacks[(queryId + l) % IdSpace] # None
  BY <1>1, <1>3 DEF NextAvailableQueryId
<1>5. k = 1
  BY SMTT(30), <1>1, <1>4
<1> QED BY <1>3, <1>5

(* A step that gives out no ID, and sends only what a query writes.        *)
LEMMA KeepsLabels ==
  ASSUME UdpTypeOK, Labelled, AnswerMatches', queryId' = queryId,
         \A g \in Calls : /\ query'[g].id = query[g].id /\ (Unnumbered(g)' => Unnumbered(g))
                          /\ PC(g)' \in {"write", "wait"} => PC(g) \in {"write", "wait"},
         \A m \in net' : \/ m \in net
                         \/ m.to \in Calls /\ PC(m.to) = "write" /\ m.id = query[m.to].id
  PROVE  Labelled'
<1>1. Numbered' = Numbered
  BY DEF Numbered
<1>2. \A m \in net' : m.to \in Calls /\ m.id = query[m.to].id /\ ~Unnumbered(m.to)
  BY DEF UdpTypeOK, Labelled, Unnumbered
<1>3. ASSUME Counting PROVE Counting'
  <2>1. \A m \in net' : m.id # 0
    BY <1>3 DEF Counting
  <2>2. \A g, h \in Numbered' : query'[g].id = query'[h].id => g = h
    BY <1>1, <1>3 DEF Counting, Numbered
  <2>3. \A g \in Calls : /\ query'[g].id <= queryId'
                         /\ PC(g)' \in {"write", "wait"} => query'[g].id # 0
    BY <1>3 DEF Counting
  <2> QED BY <1>1, <1>3, <2>1, <2>2 DEF Counting
<1>4. ASSUME Exhausted PROVE Exhausted'
  <2>1. \A g \in Calls : ~Unnumbered(g)'
    BY <1>4 DEF Exhausted
  <2>2. \A g, h \in Calls : query'[g].id = query'[h].id => g = h
    BY <1>4 DEF Exhausted
  <2> QED BY <2>1, <2>2 DEF Exhausted
<1> QED BY <1>2, <1>3, <1>4 DEF Labelled

(* The answer that arrives is the one to the query that waits under its ID.*)
LEMMA ReceiveLabelled == ASSUME UdpInv, Labelled, NEW m \in net, Receive(m) PROVE Labelled'
<1> DEFINE g == callbacks[m.id]
<1>1. /\ g \in Calls /\ query[g].id = m.id /\ PC(g) \in {"write", "wait"}
      /\ m.to \in Calls /\ query[m.to].id = m.id
  BY DEF Receive, UdpInv, UdpTypeOK, CallbacksExact, Labelled, Some
<1> HIDE DEF g
<1>2. g = m.to
  BY SMTT(30), <1>1 DEF Labelled, Counting, Exhausted, Numbered
<1>3. query' = [query EXCEPT ![g].answer = m.to] /\ UNCHANGED <<queryId, net>>
  BY DEF Receive, g
<1>4. AnswerMatches'
  BY SMTT(30), <1>2, <1>3 DEF Labelled, AnswerMatches
<1>5. \A h \in Calls : query'[h].id = query[h].id /\ query'[h].pc = query[h].pc
  BY <1>3 DEF UdpInv, UdpTypeOK
<1> QED BY <1>3, <1>4, <1>5, KeepsLabels DEF UdpInv, Unnumbered, PC

(* A query takes the next ID, which no query has had.                      *)
LEMMA RegisterLabelled ==
  ASSUME Cardinality(Calls) <= IdSpace, UdpInv, Labelled, NEW g \in Calls, Register(g)
  PROVE  Labelled'
<1>1. UdpTypeOK /\ Unnumbered(g) /\ query[g].id = 0 /\ g \notin Numbered /\ net' = net
  BY DEF UdpInv, Register, Unnumbered, Labelled, Numbered
<1>2. CASE Move(g, "end") /\ UNCHANGED queryId
  <2>1. \A h \in Calls : /\ query'[h].id = query[h].id /\ query'[h].answer = query[h].answer
                         /\ query'[h].pc \in {query[h].pc, "end"}
    BY <1>1, <1>2 DEF Move, UdpTypeOK
  <2>2. AnswerMatches'
    BY <2>1 DEF Labelled, AnswerMatches
  <2> QED BY <1>1, <1>2, <2>1, <2>2, KeepsLabels DEF Unnumbered, PC
<1>3. CASE \E i \in Ids : /\ NextAvailableQueryId(i) /\ queryId' = i
                          /\ query' = [query EXCEPT ![g].pc = "write", ![g].id = i]
  <2>1. PICK i \in Ids : /\ NextAvailableQueryId(i) /\ queryId' = i
                         /\ query' = [query EXCEPT ![g].pc = "write", ![g].id = i]
    BY <1>3
  <2>2. /\ query'[g].id = i /\ query'[g].pc = "write" /\ query'[g].answer = query[g].answer
        /\ \A h \in Calls \ {g} : query'[h] = query[h]
    BY <1>1, <2>1 DEF UdpTypeOK
  <2>3. Counting
    BY <1>1 DEF Labelled, Exhausted
  <2>4. queryId \in 0..(IdSpace - 1) /\ IdSpace \in Nat \ {0}
    BY <1>1, IdSpaceAssumption DEF UdpTypeOK, Ids
  <2>5. /\ IsFiniteSet(Numbered) /\ Numbered \subseteq Calls \ {g}
        /\ Cardinality(Numbered) \in Nat
        /\ Cardinality(Numbered) <= Cardinality(Calls) - 1
        /\ Cardinality(Numbered) = Cardinality(Calls) - 1 => Numbered = Calls \ {g}
    <3>1. IsFiniteSet(Calls \ {g}) /\ Cardinality(Calls \ {g}) = Cardinality(Calls) - 1
      BY CallsAssumption, FS_RemoveElement
    <3>2. Numbered \subseteq Calls \ {g}
      BY <1>1 DEF Numbered
    <3>3. /\ IsFiniteSet(Numbered) /\ Cardinality(Numbered) <= Cardinality(Calls \ {g})
          /\ Cardinality(Numbered) = Cardinality(Calls \ {g}) => Numbered = Calls \ {g}
      BY <3>1, <3>2, FS_Subset
    <3> QED BY <3>1, <3>2, <3>3, FS_CardinalityType
  <2>6. Cardinality(Calls) \in Nat /\ queryId \in Nat /\ queryId <= Cardinality(Numbered)
    BY SMTT(30), <2>3, <2>4, CallsAssumption, FS_CardinalityType DEF Counting
  <2>7. \A j \in Ids : j > queryId \/ j = 0 => callbacks[j] = None
    BY SMTT(30), <2>3 DEF UdpInv, UdpTypeOK, CallbacksExact, Counting, Ids, Some
  <2>8. \A m \in net : m.to \in Calls \ {g}
    BY <1>1 DEF UdpTypeOK, Labelled
  <2>9. AnswerMatches' /\ ~Unnumbered(g)' /\ \A h \in Calls \ {g} : Unnumbered(h)' = Unnumbered(h)
    BY <2>2 DEF Labelled, AnswerMatches, Unnumbered, PC
  <2>10. CASE queryId + 1 < IdSpace
    <3>1. i = queryId + 1 /\ i # 0
      <4>1. (queryId + 1) % IdSpace = queryId + 1
        BY SMTT(30), <2>4, <2>10
      <4> QED BY SMTT(30), <1>1, <2>1, <2>4, <2>7, <2>10, NextIsFree DEF Ids
    <3>2. Numbered' = Numbered \cup {g}
      BY <2>2, <3>1 DEF Numbered
    <3>3. Cardinality(Numbered') = Cardinality(Numbered) + 1
      BY <2>5, <3>2, FS_AddElement
    <3>4. Counting'
      <4>1. queryId' <= Cardinality(Numbered')
        BY SMTT(30), <2>1, <2>5, <2>6, <3>1, <3>3
      <4>2. \A h \in Calls : query[h].id <= queryId /\ query[h].id \in Nat
        BY SMTT(30), <1>1, <2>3 DEF Counting, UdpTypeOK, Ids
      <4>3. \A h \in Calls : query'[h].id <= queryId'
        <5>1. query'[g].id <= queryId'
          BY SMTT(30), <2>1, <2>2, <2>4, <3>1
        <5>2. ASSUME NEW h \in Calls \ {g} PROVE query'[h].id <= queryId'
          <6>1. query'[h].id = query[h].id
            BY <2>2
          <6>2. query[h].id <= queryId /\ query[h].id \in Nat
            BY <4>2
          <6> QED BY SMTT(30), <2>1, <2>4, <3>1, <6>1, <6>2
        <5> QED BY <5>1, <5>2
      <4>4. \A h \in Calls : PC(h)' \in {"write", "wait"} => query'[h].id # 0
        BY <2>2, <2>3, <3>1 DEF Counting, PC
      <4>5. \A h \in Numbered : query'[h] = query[h] /\ query[h].id <= queryId /\ h # g
        BY <1>1, <2>2, <2>3 DEF Counting, Numbered
      <4>6. \A a, b \in Numbered' : query'[a].id = query'[b].id => a = b
        BY SMTT(30), <2>2, <2>3, <2>4, <3>1 DEF Counting, Numbered
      <4> QED BY <1>1, <2>3, <4>1, <4>3, <4>4, <4>6 DEF Counting
    <3> QED BY <1>1, <2>2, <2>8, <2>9, <3>4 DEF Labelled
  <2>11. CASE queryId + 1 >= IdSpace
    <3>1. i = 0
      <4>1. queryId + 1 = IdSpace /\ IdSpace % IdSpace = 0
        BY SMTT(30), <2>4, <2>11
      <4>2. 0 \in Ids
        BY SMTT(30), <2>4 DEF Ids
      <4> QED BY <1>1, <2>1, <2>7, <4>1, <4>2, NextIsFree
    <3>2. Numbered = Calls \ {g}
      BY SMTT(30), <2>4, <2>5, <2>6, <2>11
    <3>3. \A h \in Calls \ {g} : query'[h].id # 0 /\ ~Unnumbered(h)
      BY <2>2, <3>2 DEF Numbered, Labelled
    <3>4. Exhausted'
      BY <2>2, <2>3, <2>9, <3>1, <3>2, <3>3 DEF Exhausted, Counting
    <3> QED BY <1>1, <2>2, <2>8, <2>9, <3>4 DEF Labelled
  <2> QED BY SMTT(30), <2>4, <2>10, <2>11
<1> QED BY <1>2, <1>3 DEF Register

(* The other steps give out no ID.                                         *)
LEMMA OthersLabelled ==
  ASSUME UdpInv, Labelled,
         \/ UNCHANGED udpVars
         \/ SetStarted \/ Shutdown \/ CloseCancel \/ ShutdownDone \/ CloseTransport
         \/ \E g \in Calls : \/ BeginQuery(g) \/ Edns(g) \/ Write(g) \/ Answer(g)
                             \/ EndQuery(g) \/ ExchangeTCP(g)
  PROVE  Labelled'
<1>1. UdpTypeOK /\ AnswerMatches
  BY DEF UdpInv, Labelled
<1>2. ASSUME queryId' = queryId, net' = net, query' = query PROVE Labelled'
  BY <1>1, <1>2, KeepsLabels DEF AnswerMatches, Unnumbered, PC
<1>3. ASSUME NEW g \in Calls, NEW pc, queryId' = queryId, Move(g, pc),
             Unnumbered(g) \/ pc \notin {"idle", "edns", "get"},
             pc \in {"write", "wait"} => PC(g) = "write",
             \A m \in net' : \/ m \in net
                             \/ m.to \in Calls /\ PC(m.to) = "write" /\ m.id = query[m.to].id
      PROVE  Labelled'
  <2>1. \A h \in Calls : /\ query'[h].id = query[h].id /\ query'[h].answer = query[h].answer
                         /\ query'[h].pc = IF h = g THEN pc ELSE query[h].pc
    BY <1>1, <1>3 DEF Move, UdpTypeOK
  <2>2. AnswerMatches'
    BY <1>1, <2>1 DEF AnswerMatches
  <2>3. \A h \in Calls : /\ query'[h].id = query[h].id /\ (Unnumbered(h)' => Unnumbered(h))
                         /\ PC(h)' \in {"write", "wait"} => PC(h) \in {"write", "wait"}
    BY <1>3, <2>1 DEF Unnumbered, PC
  <2> QED BY <1>1, <1>3, <2>2, <2>3, KeepsLabels
<1>4. CASE \/ UNCHANGED udpVars
           \/ SetStarted \/ Shutdown \/ CloseCancel \/ ShutdownDone \/ CloseTransport
  BY <1>2, <1>4 DEF udpVars, SetStarted, Shutdown, CloseCancel, ShutdownDone, CloseTransport
<1>5. ASSUME NEW g \in Calls, BeginQuery(g) \/ Edns(g) PROVE Labelled'
  BY <1>2, <1>3, <1>5 DEF BeginQuery, Edns, Unnumbered
<1>6. ASSUME NEW g \in Calls, Write(g) PROVE Labelled'
  BY SMTT(30), <1>3, <1>6 DEF Write
<1>7. ASSUME NEW g \in Calls, Answer(g) \/ EndQuery(g) \/ ExchangeTCP(g) PROVE Labelled'
  BY <1>3, <1>7 DEF Answer, EndQuery, ExchangeTCP
<1> QED BY <1>4, <1>5, <1>6, <1>7

(* AnswerMatches: as long as there are no more queries than IDs (2^16), an *)
(* answer is only ever handed to the query that asked for it.              *)
THEOREM AnswersMatch ==
  ASSUME Cardinality(Calls) <= IdSpace PROVE UdpSpec => []AnswerMatches
<1>1. UdpInv /\ Labelled /\ [UdpNext]_vars => Labelled'
  <2> SUFFICES ASSUME UdpInv, Labelled, [UdpNext]_vars PROVE Labelled'
    OBVIOUS
  <2>1. CASE UNCHANGED vars
    BY <2>1, OthersLabelled DEF vars
  <2>2. CASE UdpNext
    BY <2>2, OthersLabelled, RegisterLabelled, ReceiveLabelled DEF UdpNext, QueryStep
  <2> QED BY <2>1, <2>2
<1>2. Labelled => AnswerMatches
  BY DEF Labelled
<1> QED BY InitLabelled, UdpInvariant, <1>1, <1>2, PTL DEF UdpSpec
=============================================================================
