------------------------------- MODULE DnsUdp -------------------------------
(***************************************************************************)
(* The UDP DNS transport (dns/transport/udp.go, base.go) on top of the     *)
(* connector: queries get the shared connection, register a callback under *)
(* a fresh query ID, and wait for an answer over a network that loses,     *)
(* delays, reorders and duplicates; the transport shuts down around them.  *)
(* A query is one call of Exchange, and makes the call of Get of the same  *)
(* name.                                                                   *)
(***************************************************************************)
EXTENDS Connector, Integers, FiniteSets

CONSTANT IdSpace   \* number of query IDs (2^16 in the code)

ASSUME IdSpaceAssumption == IdSpace \in Nat \ {0}
ASSUME CallsAssumption == IsFiniteSet(Calls)

Ids == 0..(IdSpace - 1)

VARIABLES
  base,       \* BaseTransport.state
  inFlight,   \* BaseTransport.inFlight
  complete,   \* queriesComplete: "none", "open" or "closed"
  shut,       \* where Close is
  timedOut,   \* history: Shutdown gave up waiting
  query,      \* each Exchange: [pc, id, answer]
  queryId, callbacks,
  grown,      \* udpSize was raised to a query's EDNS size
  net         \* answers the server has sent: [conn, id, to]

udpVars == <<base, inFlight, complete, shut, timedOut, query, queryId, callbacks, grown, net>>
vars == <<connVars, udpVars>>

UdpInit ==
  /\ Init
  /\ base = "new" /\ inFlight = 0 /\ complete = "none" /\ shut = "idle"
  /\ timedOut = FALSE /\ grown = FALSE /\ net = {}
  /\ query = [g \in Calls |-> [pc |-> "idle", id |-> 0, answer |-> None]]
  /\ queryId = 0
  /\ callbacks = [i \in Ids |-> None]

PC(g) == query[g].pc
Move(g, pc) == query' = [query EXCEPT ![g].pc = pc]

SetStarted ==
  /\ base = "new" /\ base' = "started"
  /\ UNCHANGED <<connVars, inFlight, complete, shut, timedOut, query, queryId, callbacks,
                 grown, net>>

(* Mutant: a query begins without being counted.                           *)
BeginQueryUncounted(g) ==
  /\ PC(g) = "idle"
  /\ Move(g, IF base = "started" THEN "edns" ELSE "done")
  /\ UNCHANGED <<connVars, base, inFlight, complete, shut, timedOut, queryId, callbacks,
                 grown, net>>

(* Exchange, BeginQuery.                                                   *)
BeginQuery(g) ==
  /\ PC(g) = "idle"
  /\ \/ base = "started" /\ inFlight' = inFlight + 1 /\ Move(g, "edns")
     \/ base # "started" /\ Move(g, "done") /\ UNCHANGED inFlight
  /\ UNCHANGED <<connVars, base, complete, shut, timedOut, queryId, callbacks, grown, net>>

(* A larger EDNS size resets the connection; then Get is called.           *)
Edns(g) ==
  /\ PC(g) = "edns"
  /\ \/ ~grown /\ grown' = TRUE /\ Reset /\ UNCHANGED query
     \/ Call(g) /\ Move(g, "get") /\ UNCHANGED grown
  /\ UNCHANGED <<base, inFlight, complete, shut, timedOut, queryId, callbacks, net>>

(* Mutant: an ID is taken without looking whether it is in use.            *)
NextAvailableStuck(i) == i = queryId

(* nextAvailableQueryId: the first free ID after the last one.             *)
NextAvailableQueryId(i) ==
  /\ callbacks[i] = None
  /\ \A k \in 1..IdSpace :
       (queryId + k) % IdSpace = i
         => \A l \in 1..(k - 1) : callbacks[(queryId + l) % IdSpace] # None

Register(g) ==
  /\ PC(g) = "get" /\ At(g, "done")
  /\ \/ /\ get[g].conn = None \/ \A i \in Ids : callbacks[i] # None
        /\ Move(g, "end")
        /\ UNCHANGED <<queryId, callbacks>>
     \/ /\ get[g].conn # None
        /\ \E i \in Ids :
             /\ NextAvailableQueryId(i)
             /\ queryId' = i
             /\ callbacks' = [callbacks EXCEPT ![i] = g]
             /\ query' = [query EXCEPT ![g].pc = "write", ![g].id = i]
  /\ UNCHANGED <<connVars, base, inFlight, complete, shut, timedOut, grown, net>>

Unregister(g) == callbacks' = [callbacks EXCEPT ![query[g].id] = None]

(* conn.Write; the server may answer what it was sent.  A failed write     *)
(* closes the connection; a message that does not pack does not.           *)
Write(g) ==
  LET c == get[g].conn IN
  /\ PC(g) = "write"
  /\ \/ /\ sock[c] = "open"
        /\ net' = net \cup {[conn |-> c, id |-> query[g].id, to |-> g]}
        /\ Move(g, "wait")
        /\ UNCHANGED <<connVars, callbacks>>
     \/ /\ LoseConn(c) \/ UNCHANGED connVars
        /\ Move(g, "end") /\ Unregister(g)
        /\ UNCHANGED net
  /\ UNCHANGED <<base, inFlight, complete, shut, timedOut, queryId, grown>>

(* recvLoop delivers an answer, maybe late, maybe twice.                   *)
Receive(m) ==
  LET g == callbacks[m.id] IN
  /\ sock[m.conn] = "open"
  /\ g # None /\ query[g].answer = None
  /\ query' = [query EXCEPT ![g].answer = m.to]
  /\ UNCHANGED <<connVars, base, inFlight, complete, shut, timedOut, queryId, callbacks,
                 grown, net>>

(* Mutant: exchange forgets the deferred delete.                           *)
AnswerKeep(g) ==
  /\ PC(g) = "wait"
  /\ \/ query[g].answer # None /\ (Move(g, "end") \/ Move(g, "tcp"))
     \/ (sock[get[g].conn] = "closed" \/ ended \/ g \in ctxDone) /\ Move(g, "end")
  /\ UNCHANGED <<connVars, base, inFlight, complete, shut, timedOut, queryId, callbacks,
                 grown, net>>

(* exchange's last select; a truncated answer is asked for again over TCP. *)
Answer(g) ==
  /\ PC(g) = "wait"
  /\ \/ query[g].answer # None /\ (Move(g, "end") \/ Move(g, "tcp"))
     \/ (sock[get[g].conn] = "closed" \/ ended \/ g \in ctxDone) /\ Move(g, "end")
  /\ Unregister(g)
  /\ UNCHANGED <<connVars, base, inFlight, complete, shut, timedOut, queryId, grown, net>>

(* exchangeTCP returns; its read has neither deadline nor context.         *)
ExchangeTCP(g) ==
  /\ PC(g) = "tcp" /\ Move(g, "end")
  /\ UNCHANGED <<connVars, base, inFlight, complete, shut, timedOut, queryId, callbacks,
                 grown, net>>

EndQuery(g) ==
  /\ PC(g) = "end" /\ Move(g, "done")
  /\ inFlight' = inFlight - 1
  /\ complete' = IF inFlight = 1 /\ complete = "open" THEN "closed" ELSE complete
  /\ UNCHANGED <<connVars, base, shut, timedOut, queryId, callbacks, grown, net>>

-----------------------------------------------------------------------------
(* Close: BaseTransport.Shutdown, then Connector.Close.                    *)

(* Mutant: Shutdown leaves the state as it is.                             *)
ShutdownOpen ==
  /\ shut = "idle" /\ shut' = "cancel"
  /\ complete' = IF inFlight = 0 THEN complete ELSE "open"
  /\ UNCHANGED <<connVars, base, inFlight, timedOut, query, queryId, callbacks, grown, net>>

Shutdown ==
  /\ shut = "idle" /\ shut' = "cancel"
  /\ base' = IF inFlight = 0 THEN "closed" ELSE "closing"
  /\ complete' = IF inFlight = 0 THEN complete ELSE "open"
  /\ UNCHANGED <<connVars, inFlight, timedOut, query, queryId, callbacks, grown, net>>

CloseCancel ==
  /\ shut = "cancel" /\ EndCtx
  /\ shut' = IF complete = "none" THEN "connector" ELSE "wait"
  /\ UNCHANGED <<base, inFlight, complete, timedOut, query, queryId, callbacks, grown, net>>

ShutdownDone ==
  /\ shut = "wait" /\ shut' = "connector"
  /\ base' = "closed"
  /\ timedOut' = (complete # "closed")
  /\ UNCHANGED <<connVars, inFlight, complete, query, queryId, callbacks, grown, net>>

(* Mutant: the connector is left alone after a timeout of Shutdown.        *)
CloseTransportEarly ==
  /\ shut = "connector" /\ shut' = "done"
  /\ IF timedOut THEN UNCHANGED connVars ELSE CloseConnector
  /\ UNCHANGED <<base, inFlight, complete, timedOut, query, queryId, callbacks, grown, net>>

CloseTransport ==
  /\ shut = "connector" /\ shut' = "done"
  /\ CloseConnector
  /\ UNCHANGED <<base, inFlight, complete, timedOut, query, queryId, callbacks, grown, net>>

QueryStep(g) ==
  Edns(g) \/ Register(g) \/ Write(g) \/ Answer(g) \/ EndQuery(g)

UdpNext ==
  \/ SetStarted \/ Shutdown \/ CloseCancel \/ ShutdownDone \/ CloseTransport
  \/ \E g \in Calls : BeginQuery(g) \/ QueryStep(g) \/ ExchangeTCP(g)
  \/ \E m \in net : Receive(m)
  \/ (\E g \in Calls : Step(g) \/ CtxDone(g) \/ LoseConn(g)) /\ UNCHANGED udpVars
  \/ Reset /\ UNCHANGED udpVars

UdpSpec == UdpInit /\ [][UdpNext]_vars

(* Runnable goroutines run.  Nothing is assumed of dials, of the network,  *)
(* of when a context ends, or of the timeout of Shutdown.                  *)
UdpFairness ==
  /\ \A g \in Calls :
       WF_vars(\/ QueryStep(g)
               \/ (Get(g) \/ Wait(g) \/ Abandon(g) \/ CompleteDial(g)) /\ UNCHANGED udpVars)
  /\ WF_vars(CloseCancel \/ (complete = "closed" /\ ShutdownDone) \/ CloseTransport)

UdpFairSpec == UdpSpec /\ UdpFairness

-----------------------------------------------------------------------------
(* Type correctness; the count of queries in flight never goes below zero. *)
UdpTypeOK ==
  /\ ConnectorTypeOK
  /\ base \in {"new", "started", "closing", "closed"} /\ inFlight \in Nat
  /\ complete \in {"none", "open", "closed"} /\ timedOut \in BOOLEAN
  /\ shut \in {"idle", "cancel", "wait", "connector", "done"}
  /\ query \in [Calls -> [pc : {"idle", "edns", "get", "write", "wait", "tcp", "end", "done"},
                          id : Ids, answer : Some]]
  /\ queryId \in Ids /\ callbacks \in [Ids -> Some] /\ grown \in BOOLEAN
  /\ net \subseteq [conn : Calls, id : Ids, to : Calls]

(* A query gets only the answer to what it asked, however late, reordered  *)
(* or repeated the answers are (the IDs of a run are not exhausted).       *)
AnswerMatches == \A g \in Calls : query[g].answer \in {None, g}

(* The callback table holds the queries that wait for an answer, and no    *)
(* others: returning queries leave nothing behind, on any path.            *)
CallbacksExact ==
  \A i \in Ids : callbacks[i] # None =>
    LET g == callbacks[i] IN PC(g) \in {"write", "wait"} /\ query[g].id = i

(* Shutdown reports success only when no query is in flight, and then none *)
(* begins.                                                                 *)
ClosedIsIdle == base = "closed" /\ ~timedOut => inFlight = 0

(* A query whose context ends, or whose transport closes, returns, except  *)
(* out of the TCP retry, which neither reaches.                            *)
CancelledReturns ==
  \A g \in Calls : PC(g) # "idle" /\ (g \in ctxDone \/ ended) ~> PC(g) \in {"done", "tcp"}

(* Close leaves no socket behind, also of dials that were under way.       *)
SocketsClosed ==
  \A d \in Calls : (shut = "done" /\ sock[d] = "open") ~> sock[d] = "closed"
=============================================================================
