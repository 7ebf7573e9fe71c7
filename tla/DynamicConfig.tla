---------------------------- MODULE DynamicConfig ----------------------------
(***************************************************************************)
(* The dynamic sources of the speed limiter and of traffic quota: a table  *)
(* in Postgres or a hash in Redis is polled, and its changes are notified  *)
(* over a connection that may break.  One user; kind says which store.     *)
(***************************************************************************)
EXTENDS Integers, Sequences

CONSTANTS None,      \* no row, no runtime config
          Zero,      \* a row whose columns for this service are unset
          Gone,      \* a "del:" payload, a Redis entry with delete set
          Configs,
          MaxEdits,  \* bound: changes of the row
          MaxFaults  \* bound: removals that fail

ASSUME ConfigAssumption ==
  /\ {None, Zero, Gone} \cap Configs = {} /\ None # Zero /\ None # Gone /\ Zero # Gone
  /\ MaxEdits \in Nat /\ MaxFaults \in Nat

VARIABLES
  kind, row,     \* the store and its row
  queue,         \* notifications sent on the open connection
  mem,           \* the service's runtime config
  poll, listen,  \* the goroutines: pc and what they read
  edits, faults,
  missed,        \* history: a change was not notified by name, the
                 \* notification was lost, or a removal failed
  crossed        \* history: a change overtook what a poll had read

vars == <<kind, row, queue, mem, poll, listen, edits, faults, missed, crossed>>

Rows == Configs \cup {None, Zero, Gone}

Init ==
  /\ kind \in {"postgres", "redis"} /\ row \in Rows \ {Gone}
  /\ queue = <<>> /\ mem = None /\ edits = 0 /\ faults = 0 /\ missed = FALSE /\ crossed = FALSE
  /\ poll = [pc |-> "idle", got |-> None]
  /\ listen = [pc |-> IF kind = "postgres" THEN "off" ELSE "down", got |-> None]

-----------------------------------------------------------------------------
(* fetchAll selects rows with some config; pollHash takes every entry.     *)
Visible(v) == v \in Configs \/ (kind = "redis" /\ v # None)

(* The store changes.  Postgres notifies the name, "del:" and the name, or *)
(* nothing; Redis publishes the new value.                                 *)
Payloads(v) ==
  IF kind = "redis" THEN {IF v = None THEN Gone ELSE v}
  ELSE {"user", "all"} \cup (IF v = None THEN {Gone} ELSE {})

Edit(v) ==
  /\ edits < MaxEdits /\ edits' = edits + 1
  /\ v # row /\ (kind = "postgres" => v # Gone)
  /\ row' = v
  /\ IF listen.pc \in {"off", "down"} THEN missed' = TRUE /\ UNCHANGED queue
     ELSE \E m \in Payloads(v) : /\ queue' = Append(queue, m)
                                 /\ missed' = (missed \/ (m = "all" /\ ~Visible(v)))
  /\ crossed' = (crossed \/ poll.pc = "apply")
  /\ UNCHANGED <<kind, mem, poll, listen, faults>>

(* Mutant: every row is taken for a partial update.                        *)
EffectPartial(v) == IF v \in Configs THEN v ELSE IF v = Zero THEN mem ELSE None

(* applyDynamic and removeDynamic: an unset column of a full row clears    *)
(* the config, that of a partial update leaves it.                         *)
Effect(v) == IF v \in Configs THEN v
             ELSE IF v = Zero /\ kind = "redis" THEN mem ELSE None

(* removeConfigLocked keeps a quota whose row it cannot delete; the        *)
(* sources log the error.                                                  *)
Receiver(v) ==
  \/ mem' = Effect(v) /\ UNCHANGED <<faults, missed>>
  \/ /\ mem # None /\ Effect(v) = None /\ faults < MaxFaults
     /\ faults' = faults + 1 /\ missed' = TRUE /\ UNCHANGED mem

(* Run starts the listener of Postgres after its first fetchAll.           *)
Started == IF listen.pc = "off" THEN [listen EXCEPT !.pc = "down"] ELSE listen

(* Mutant: the poller remembers what it read and skips it the next time.   *)
PollReadOnce ==
  /\ poll.pc = "idle"
  /\ IF Visible(row) /\ poll.got # row
     THEN poll' = [pc |-> "apply", got |-> row] /\ UNCHANGED listen
     ELSE poll' = [poll EXCEPT !.pc = "idle"] /\ listen' = Started
  /\ UNCHANGED <<kind, row, queue, mem, edits, faults, missed, crossed>>

PollRead ==
  /\ poll.pc = "idle"
  /\ IF Visible(row)
     THEN poll' = [pc |-> "apply", got |-> row] /\ UNCHANGED listen
     ELSE poll' = [pc |-> "idle", got |-> None] /\ listen' = Started
  /\ UNCHANGED <<kind, row, queue, mem, edits, faults, missed, crossed>>

PollApply ==
  /\ poll.pc = "apply"
  /\ Receiver(poll.got)
  /\ poll' = [poll EXCEPT !.pc = "idle"] /\ listen' = Started
  /\ UNCHANGED <<kind, row, queue, edits, crossed>>

-----------------------------------------------------------------------------
(* listen and doListen.                                                    *)
Connect ==
  /\ listen.pc = "down"
  /\ listen' = [pc |-> "wait", got |-> None] /\ queue' = <<>>
  /\ UNCHANGED <<kind, row, mem, poll, edits, faults, missed, crossed>>

Disconnect ==
  /\ listen.pc = "wait"
  /\ listen' = [pc |-> "down", got |-> None] /\ queue' = <<>>
  /\ missed' = (missed \/ queue # <<>>)
  /\ UNCHANGED <<kind, row, mem, poll, edits, faults, crossed>>

(* A payload is looked up (fetchUser), taken as it is, or polls.           *)
Receive ==
  LET m == Head(queue)
      v == IF m \in {"user", "all"} THEN row ELSE m IN
  /\ listen.pc = "wait" /\ queue # <<>>
  /\ queue' = Tail(queue)
  /\ listen' = IF m = "all" /\ ~Visible(v) THEN listen ELSE [pc |-> "apply", got |-> v]
  /\ UNCHANGED <<kind, row, mem, poll, edits, faults, missed, crossed>>

ListenApply ==
  /\ listen.pc = "apply"
  /\ Receiver(listen.got)
  /\ listen' = [pc |-> "wait", got |-> None]
  /\ UNCHANGED <<kind, row, queue, poll, edits, crossed>>

Next ==
  \/ \E v \in Rows : Edit(v)
  \/ PollRead \/ PollApply \/ Connect \/ Disconnect \/ Receive \/ ListenApply

Spec == Init /\ [][Next]_vars

(* The ticker keeps polling, a broken connection is opened again, and what *)
(* it brings is handled.                                                   *)
FairSpec == Spec /\ WF_vars(PollRead \/ PollApply) /\ WF_vars(Connect)
                 /\ WF_vars(Receive \/ ListenApply)

(* Once the row is quiet and holds a config, or a delete marker of Redis,  *)
(* the service follows it for good, whatever notifications were lost,      *)
(* overtaken by a poll or failed (the polling fallback).                   *)
PollHeals == <>[](Visible(row) /\ row # Zero => mem = Effect(row))

(* A row that polling cannot see, deleted or with its columns unset, is    *)
(* cleared for good by its notification, if that arrives and no read of    *)
(* the old row was still on its way (fetchUser, "del:").                   *)
RemovalReaches ==
  <>[](~Visible(row) /\ ~missed /\ ~crossed => mem = None)
=============================================================================
