----------------------------- MODULE SharedConn -----------------------------
(***************************************************************************)
(* What dns/transport/connector.go promises its users: there is at most    *)
(* one shared connection; Get hands out the one that is shared (installed  *)
(* and unbroken) at that moment; a connection that was withdrawn is never  *)
(* shared again; after Close nothing is.  Connector implements this        *)
(* specification.                                                          *)
(***************************************************************************)
CONSTANTS Calls, None

VARIABLES
  shared,   \* the shared connection (named after the call that dialled it)
  used,     \* connections that are or were shared
  given,    \* what each call of Get returned, None before it or for an error
  over      \* Close has been called

vars == <<shared, used, given, over>>

Init ==
  /\ shared = None /\ used = {} /\ over = FALSE
  /\ given = [g \in Calls |-> None]

(* The call that dialled a connection is the first to get it.  The         *)
(* connection may have broken before.                                      *)
Publish(g) ==
  /\ shared = None /\ g \notin used /\ ~over
  /\ shared' \in {g, None} /\ used' = used \cup {g}
  /\ given' = [given EXCEPT ![g] = g]
  /\ UNCHANGED over

Serve(g) ==
  /\ shared # None /\ given[g] = None
  /\ given' = [given EXCEPT ![g] = shared]
  /\ UNCHANGED <<shared, used, over>>

Withdraw == shared' = None /\ UNCHANGED <<used, given, over>>

Close == over' = TRUE /\ shared' = None /\ UNCHANGED <<used, given>>

Next == Withdraw \/ Close \/ \E g \in Calls : Publish(g) \/ Serve(g)

Spec == Init /\ [][Next]_vars
=============================================================================
