------------------------------ MODULE Connector ------------------------------
(***************************************************************************)
(* The single-flight connector of the DNS transports                       *)
(* (dns/transport/connector.go): calls of Get share one connection, one of *)
(* them dials it, requests are cancelled at any moment, the transport      *)
(* resets and closes.  A connection, its context and its `connecting`      *)
(* channel are named after the call of Get that dials.                     *)
(***************************************************************************)
CONSTANTS
  Calls,   \* the calls of Get
  None

ASSUME NoneAssumption == None \notin Calls

VARIABLES
  current,     \* connection, or None when hasConnection is false
  cancel,      \* connectionCancel
  connecting,  \* the connecting channel, or None
  closed,      \* c.closed
  ended,       \* closeCtx is done
  get,         \* each call of Get: [pc, conn]; conn is the dial it waits for,
               \* or what it returned (None: an error)
  dial,        \* the dial goroutine of each call
  sock,        \* the socket it opened
  ctxDone,     \* calls whose context is done
  cancelled    \* connections whose context was cancelled

connVars == <<current, cancel, connecting, closed, ended, get, dial, sock, ctxDone,
              cancelled>>

Opt(x) == {x} \ {None}
Live == current # None /\ sock[current] = "open"

Init ==
  /\ current = None /\ cancel = None /\ connecting = None
  /\ closed = FALSE /\ ended = FALSE
  /\ get = [g \in Calls |-> [pc |-> "idle", conn |-> None]]
  /\ dial = [g \in Calls |-> "none"]
  /\ sock = [g \in Calls |-> "none"]
  /\ ctxDone = {} /\ cancelled = {}

At(g, pc) == get[g].pc = pc
Goto(g, pc, conn) == get' = [get EXCEPT ![g] = [pc |-> pc, conn |-> conn]]

Call(g) ==
  /\ At(g, "idle") /\ Goto(g, "get", None)
  /\ UNCHANGED <<current, cancel, connecting, closed, ended, dial, sock, ctxDone, cancelled>>

(* One pass through Get's critical section.                                *)
Get(g) ==
  /\ At(g, "get")
  /\ \/ /\ closed
        /\ Goto(g, "done", None)
        /\ UNCHANGED <<current, cancel, connecting, dial, cancelled>>
     \/ /\ ~closed /\ Live
        /\ Goto(g, "done", current)
        /\ UNCHANGED <<current, cancel, connecting, dial, cancelled>>
     \/ /\ ~closed /\ ~Live
        /\ current' = None
        /\ cancelled' = cancelled \cup Opt(cancel) /\ cancel' = None
        /\ \/ /\ connecting # None
              /\ Goto(g, "wait", connecting)
              /\ UNCHANGED <<connecting, dial>>
           \/ /\ connecting = None /\ g \in ctxDone
              /\ Goto(g, "done", None)
              /\ UNCHANGED <<connecting, dial>>
           \/ /\ connecting = None /\ g \notin ctxDone
              /\ connecting' = g
              /\ dial' = [dial EXCEPT ![g] = "dialing"]
              /\ Goto(g, "dial", None)
  /\ UNCHANGED <<closed, ended, sock, ctxDone>>

(* Mutant: a waiter cannot be cancelled.                                   *)
WaitOut(g) ==
  /\ At(g, "wait")
  /\ dial[get[g].conn] = "done" /\ Goto(g, "get", None)
  /\ UNCHANGED <<current, cancel, connecting, closed, ended, dial, sock, ctxDone, cancelled>>

(* The awaited dial is complete (try again), or the wait is given up.      *)
Wait(g) ==
  /\ At(g, "wait")
  /\ \/ dial[get[g].conn] = "done" /\ Goto(g, "get", None)
     \/ (g \in ctxDone \/ ended) /\ Goto(g, "done", None)
  /\ UNCHANGED <<current, cancel, connecting, closed, ended, dial, sock, ctxDone, cancelled>>

(* dialWithCancellation: the dial may ignore its context, also when the    *)
(* context's AfterFunc has cancelled it.  A recursive Get inside the dial  *)
(* makes it fail.                                                          *)
DialReturn(d) ==
  /\ dial[d] = "dialing"
  /\ \/ /\ dial' = [dial EXCEPT ![d] = "ok"]
        /\ sock' = [sock EXCEPT ![d] = "open"]
        /\ UNCHANGED cancelled
     \/ /\ dial' = [dial EXCEPT ![d] = "failed"]
        /\ cancelled' = cancelled \cup {d}
        /\ UNCHANGED sock
  /\ UNCHANGED <<current, cancel, connecting, closed, ended, get, ctxDone>>

(* Mutant: the AfterFunc does not look at dialComplete.                    *)
AfterFuncLate(d) ==
  /\ dial[d] # "none" /\ d \in ctxDone \ cancelled
  /\ cancelled' = cancelled \cup {d}
  /\ UNCHANGED <<current, cancel, connecting, closed, ended, get, dial, sock, ctxDone>>

AfterFunc(d) ==
  /\ dial[d] = "dialing" /\ d \in ctxDone \ cancelled
  /\ cancelled' = cancelled \cup {d}
  /\ UNCHANGED <<current, cancel, connecting, closed, ended, get, dial, sock, ctxDone>>

(* Mutant: giving up clears the way for another dial.                      *)
AbandonClears(g) ==
  /\ At(g, "dial") /\ (g \in ctxDone \/ ended)
  /\ Goto(g, "done", None) /\ connecting' = None
  /\ UNCHANGED <<current, cancel, closed, ended, dial, sock, ctxDone, cancelled>>

(* Get's select gives up; a goroutine is left behind for completeDial.     *)
Abandon(g) ==
  /\ At(g, "dial") /\ (g \in ctxDone \/ ended)
  /\ Goto(g, "done", None)
  /\ UNCHANGED <<current, cancel, connecting, closed, ended, dial, sock, ctxDone, cancelled>>

(* Mutant: an abandoned dial is installed all the same.                    *)
CompleteDialAny(d) ==
  LET installs == dial[d] = "ok" /\ ~closed IN
  /\ dial[d] \in {"ok", "failed"}
  /\ dial' = [dial EXCEPT ![d] = "done"]
  /\ connecting' = IF connecting = d THEN None ELSE connecting
  /\ current' = IF installs THEN d ELSE current
  /\ cancel' = IF installs THEN d ELSE cancel
  /\ sock' = IF installs \/ dial[d] = "failed" THEN sock ELSE [sock EXCEPT ![d] = "closed"]
  /\ cancelled' = IF installs THEN cancelled ELSE cancelled \cup {d}
  /\ IF At(d, "dial") THEN Goto(d, "done", IF installs THEN d ELSE None) ELSE UNCHANGED get
  /\ UNCHANGED <<closed, ended, ctxDone>>

(* completeDial, in Get or in the goroutine that Abandon left.             *)
CompleteDial(d) ==
  LET installs == dial[d] = "ok" /\ ~closed /\ ~ended /\ d \notin ctxDone IN
  /\ dial[d] \in {"ok", "failed"}
  /\ dial' = [dial EXCEPT ![d] = "done"]
  /\ connecting' = IF connecting = d THEN None ELSE connecting
  /\ current' = IF installs THEN d ELSE current
  /\ cancel' = IF installs THEN d ELSE cancel
  /\ sock' = IF installs \/ dial[d] = "failed" THEN sock ELSE [sock EXCEPT ![d] = "closed"]
  /\ cancelled' = IF installs THEN cancelled ELSE cancelled \cup {d}
  /\ IF At(d, "dial") THEN Goto(d, "done", IF installs THEN d ELSE None) ELSE UNCHANGED get
  /\ UNCHANGED <<closed, ended, ctxDone>>

(* The caller's context is cancelled or times out, also after Get.         *)
CtxDone(g) ==
  /\ ~At(g, "idle") /\ g \notin ctxDone
  /\ ctxDone' = ctxDone \cup {g}
  /\ UNCHANGED <<current, cancel, connecting, closed, ended, get, dial, sock, cancelled>>

(* Connection.CloseWithError: by the read loop or by a failed write.       *)
LoseConn(d) ==
  /\ sock[d] = "open"
  /\ sock' = [sock EXCEPT ![d] = "closed"]
  /\ UNCHANGED <<current, cancel, connecting, closed, ended, get, dial, ctxDone, cancelled>>

Drop ==
  /\ cancelled' = cancelled \cup Opt(cancel) /\ cancel' = None
  /\ sock' = [d \in Calls |-> IF d = current THEN "closed" ELSE sock[d]]
  /\ current' = None

Reset ==
  /\ Drop
  /\ UNCHANGED <<connecting, closed, ended, get, dial, ctxDone>>

(* The transport cancels closeCtx; later it calls Connector.Close.         *)
EndCtx ==
  /\ ended' = TRUE
  /\ UNCHANGED <<current, cancel, connecting, closed, get, dial, sock, ctxDone, cancelled>>

CloseConnector ==
  /\ closed' = TRUE
  /\ IF closed THEN UNCHANGED <<current, cancel, sock, cancelled>> ELSE Drop
  /\ UNCHANGED <<connecting, ended, get, dial, ctxDone>>

Step(g) ==
  \/ Get(g) \/ Wait(g) \/ DialReturn(g) \/ AfterFunc(g) \/ Abandon(g) \/ CompleteDial(g)

ConnectorNext ==
  \/ \E g \in Calls : Call(g) \/ Step(g) \/ CtxDone(g) \/ LoseConn(g)
  \/ Reset \/ EndCtx \/ CloseConnector

ConnectorSpec == Init /\ [][ConnectorNext]_connVars

-----------------------------------------------------------------------------
Some == Calls \cup {None}

ConnectorTypeOK ==
  /\ current \in Some /\ cancel \in Some /\ connecting \in Some
  /\ closed \in BOOLEAN /\ ended \in BOOLEAN
  /\ get \in [Calls -> [pc : {"idle", "get", "wait", "dial", "done"}, conn : Some]]
  /\ \A g \in Calls : At(g, "wait") => get[g].conn \in Calls
  /\ dial \in [Calls -> {"none", "dialing", "ok", "failed", "done"}]
  /\ sock \in [Calls -> {"none", "open", "closed"}]
  /\ ctxDone \subseteq Calls /\ cancelled \subseteq Calls

Dialing(d) == dial[d] \in {"dialing", "ok", "failed"}

(* No second dial starts before the first is complete, whoever gave up on  *)
(* it (connector_test.go,                                                  *)
(* TestConnectorWaiterDoesNotStartNewDialBeforeCanceledDialCompletes).     *)
SingleFlight == \A d \in Calls : Dialing(d) => connecting = d

(* Nothing leaks and nothing is cut off: an open socket is the shared      *)
(* connection or still in the hands of its dial, a context that was not    *)
(* cancelled belongs to one of the two, and the shared connection's        *)
(* context is intact, although the request that dialled it may be over.    *)
Owned ==
  /\ \A d \in Calls : sock[d] = "open" => d = current \/ dial[d] = "ok"
  /\ \A d \in Calls : dial[d] = "done" /\ d \notin cancelled => d = current
  /\ current # None => current \notin cancelled /\ ~closed

(* The refinement mapping: a connection is shared while it is installed    *)
(* and open.                                                               *)
Shared == INSTANCE SharedConn WITH
  shared <- IF Live THEN current ELSE None,
  used   <- {d \in Calls : get[d].pc = "done" /\ get[d].conn = d},
  given  <- [g \in Calls |-> IF At(g, "done") THEN get[g].conn ELSE None],
  over   <- closed

(* The connector implements SharedConn.                                    *)
SharesOneConnection == Shared!Spec
=============================================================================
