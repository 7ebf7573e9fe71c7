---------------------------- MODULE SpeedLimits ----------------------------
(***************************************************************************)
(* The limiters of one user (service/speedlimiter/manager.go, service.go): *)
(* connections fetch or create them without a lock while administrators    *)
(* replace the configuration snapshot and sweep the map, and the schedule  *)
(* loop sweeps it every minute.  Both directions are treated alike; the    *)
(* model keeps one.  A limiter is named after the connection that made it. *)
(***************************************************************************)
EXTENDS Integers, Sequences, FiniteSetsExt

CONSTANTS
  Conns, Source,     \* connections; Source[c] is the client address of c
  Rates, Groups,     \* the speeds of users, and of the groups
  Schedules,         \* the schedule lists a user may be given
  Default,           \* the default's speed, 0 for none
  GlobalSchedule,    \* the options' schedule list
  Day,               \* minutes of the day
  PerClient,         \* the values of per_client; DefaultPerClient is the default's
  DefaultPerClient,
  Configured,        \* the speed the options give the user at the start, or 0
  User,              \* the per-user key (the others are the sources)
  None, Inf,
  Admin, Scheduler, Ticker,   \* ApplyConfig/RemoveConfig (serialized by applyMu), the
                              \* calls on user schedules, and the schedule loop
  MaxEvents          \* bounds the configuration calls and the events of time

ASSUME SpeedAssumption ==
  /\ None \notin Conns
  /\ Rates \subseteq Nat \ {0} /\ Groups \subseteq Nat \ {0}
  /\ Default \in Nat /\ Configured \in Nat /\ Day \in Nat \ {0}
  /\ Schedules \cup {GlobalSchedule}
       \subseteq Seq([start : 0..(Day - 1), end : 0..(Day - 1), speed : Nat])

Keys == {User} \cup {Source[c] : c \in Conns}
Ops == {Admin, Scheduler, Ticker}

(* scheduleEntry.matchesTime; a range may cross midnight.                  *)
MatchesTime(e, t) ==
  IF e.start <= e.end THEN t >= e.start /\ t < e.end ELSE t >= e.start \/ t < e.end

(* The last entry that matches wins; 0 when none does.                     *)
ActiveSpeed(schedule, t) ==
  LET active == {i \in DOMAIN schedule : MatchesTime(schedule[i], t)}
  IN  IF active = {} THEN 0 ELSE schedule[Max(active)].speed

(* resolveConfig: the user's speed, else the group's, else the default; 0  *)
(* for a nil speedConfig.                                                  *)
ResolveConfig(snap) ==
  IF snap.speed > 0 THEN snap.speed ELSE IF snap.group > 0 THEN snap.group ELSE Default

(* effectiveSpeed: schedules replace anything but the user's own speed;    *)
(* the global ones only for users that have some limit.                    *)
EffectiveSpeed(snap, t) ==
  LET user == ActiveSpeed(snap.sched, t)
      global == ActiveSpeed(GlobalSchedule, t)
      base == ResolveConfig(snap)
  IN  IF snap.speed > 0 \/ (base = 0 /\ user = 0) THEN base
      ELSE IF user > 0 THEN user ELSE IF global > 0 THEN global ELSE base

VARIABLES
  config,      \* the snapshot: the user's speed, group's speed, per_client, schedules
  clock,       \* the minute of the day
  lastCheck,   \* lastCheckTime
  limiters,    \* key -> limiter
  rate,        \* limiter -> speed, Inf when neutralized
  old,         \* limiters not touched for the TTL
  conn, op,
  events,      \* how many of those there were
  evicted,     \* history: limiters dropped by the TTL
  overlapped   \* history: two sweeps ran at a time

vars == <<config, clock, lastCheck, limiters, rate, old, conn, op, events,
          evicted, overlapped>>

OpIdle == [pc |-> "idle", snap |-> None, now |-> 0, remove |-> FALSE, todo |-> {},
           seen |-> {}, key |-> None, lim |-> None]

Init ==
  /\ config = [speed |-> Configured, group |-> 0, perClient |-> DefaultPerClient, sched |-> <<>>]
  /\ clock = 0 /\ lastCheck = 0
  /\ limiters = [k \in Keys |-> None]
  /\ rate = [c \in Conns |-> 0] /\ old = {}
  /\ conn = [c \in Conns |-> [pc |-> "new", speed |-> 0, key |-> None, lim |-> None]]
  /\ op = [o \in Ops |-> OpIdle]
  /\ events = 0
  /\ evicted = {} /\ overlapped = FALSE

-----------------------------------------------------------------------------
(* GetOrCreateLimiterForClient: the snapshot, then the map.                *)
GetConfig(c) ==
  LET s == EffectiveSpeed(config, lastCheck) IN
  /\ conn[c].pc = "new"
  /\ conn' = [conn EXCEPT ![c] =
                IF s = 0 THEN [pc |-> "free", speed |-> 0, key |-> None, lim |-> None]
                ELSE [pc |-> "lookup", speed |-> s, lim |-> None,
                      key |-> IF config.perClient THEN Source[c] ELSE User]]
  /\ UNCHANGED <<config, clock, lastCheck, limiters, rate, old, op, events,
                 evicted, overlapped>>

Open(c, l) == conn' = [conn EXCEPT ![c] = [pc |-> "open", speed |-> 0, key |-> None, lim |-> l]]

GetLimiter(c) ==
  LET l == limiters[conn[c].key] IN
  /\ conn[c].pc = "lookup"
  /\ Open(c, IF l = None THEN c ELSE l)
  /\ \/ l # None /\ old' = old \ {l} /\ UNCHANGED <<limiters, rate>>
     \/ /\ l = None
        /\ limiters' = [limiters EXCEPT ![conn[c].key] = c]
        /\ rate' = [rate EXCEPT ![c] = conn[c].speed]
        /\ UNCHANGED old
  /\ UNCHANGED <<config, clock, lastCheck, op, events, evicted, overlapped>>

-----------------------------------------------------------------------------
Event == events < MaxEvents /\ events' = events + 1

(* A configuration call loads the snapshot and changes a clone of it ...   *)
Load(o, snap, remove) ==
  /\ op[o].pc = "idle" /\ Event
  /\ op' = [op EXCEPT ![o] = [OpIdle EXCEPT !.pc = "store", !.snap = snap, !.remove = remove]]
  /\ UNCHANGED <<config, clock, lastCheck, limiters, rate, old, conn,
                 evicted, overlapped>>

ApplyConfig ==
  \E r \in Rates \cup {0}, g \in Groups \cup {0}, per \in PerClient :
    /\ r + g > 0
    /\ Load(Admin, [config EXCEPT !.speed = r, !.group = g, !.perClient = per], FALSE)
RemoveConfig ==
  Load(Admin, [config EXCEPT !.speed = 0, !.group = 0, !.perClient = DefaultPerClient], TRUE)
ReplaceUserSchedules == \E s \in Schedules : Load(Scheduler, [config EXCEPT !.sched = s], FALSE)
RemoveUserSchedules == Load(Scheduler, [config EXCEPT !.sched = <<>>], FALSE)

Sweeping(o) == op[o].pc \in {"sweep", "apply", "delete", "clean", "evict"}
Note(o) == overlapped' = (overlapped \/ \E q \in Ops \ {o} : Sweeping(q))

Mapped == {limiters[k] : k \in Keys} \ {None}
Ranging(r, pc) == [r EXCEPT !.pc = pc, !.todo = Keys, !.seen = Mapped]

(* ... and stores it.  RemoveConfig goes on to drop the user's limiters.   *)
Store(o) ==
  /\ op[o].pc = "store"
  /\ config' = op[o].snap
  /\ op' = [op EXCEPT ![o] = IF @.remove THEN Ranging([@ EXCEPT !.snap = None], "sweep")
                             ELSE [OpIdle EXCEPT !.pc = "check"]]
  /\ Note(o)
  /\ UNCHANGED <<clock, lastCheck, limiters, rate, old, conn, events, evicted>>

Tick ==
  /\ op[Ticker].pc = "idle"
  /\ op' = [op EXCEPT ![Ticker].pc = "check"]
  /\ UNCHANGED <<config, clock, lastCheck, limiters, rate, old, conn, events,
                 evicted, overlapped>>

(* applyRuntimeState and CheckSchedules note the time; updateLimiterRates  *)
(* loads the snapshot and ranges over the map.                             *)
Check(o) ==
  /\ op[o].pc = "check"
  /\ lastCheck' = clock
  /\ op' = [op EXCEPT ![o] = Ranging([@ EXCEPT !.snap = config, !.now = clock], "sweep")]
  /\ Note(o)
  /\ UNCHANGED <<config, clock, limiters, rate, old, conn, events, evicted>>

(* Mutant: an entry is visited that is gone.                               *)
VisitGone(o, k) ==
  /\ op[o].pc = "sweep" /\ k \in op[o].todo
  /\ op' = [op EXCEPT ![o].todo = @ \ {k}, ![o].key = k, ![o].lim = limiters[k],
                      ![o].pc = "apply"]
  /\ UNCHANGED <<config, clock, lastCheck, limiters, rate, old, conn, events, evicted,
                 overlapped>>

(* Range hands out an entry (updateLimiterRates, RemoveConfig) ...         *)
Visit(o, k) ==
  /\ op[o].pc = "sweep" /\ k \in op[o].todo /\ limiters[k] # None
  /\ op' = [op EXCEPT ![o].todo = @ \ {k}, ![o].key = k, ![o].lim = limiters[k],
                      ![o].pc = "apply"]
  /\ UNCHANGED <<config, clock, lastCheck, limiters, rate, old, conn, events,
                 evicted, overlapped>>

(* ... or cleanExpiredClientLimiters finds one past its TTL ...            *)
VisitExpired(o, k) ==
  /\ op[o].pc = "clean" /\ k \in op[o].todo \ {User} /\ limiters[k] \in old
  /\ op' = [op EXCEPT ![o].todo = @ \ {k}, ![o].key = k, ![o].pc = "evict"]
  /\ UNCHANGED <<config, clock, lastCheck, limiters, rate, old, conn, events,
                 evicted, overlapped>>

Done(o, pc) == op' = [op EXCEPT ![o].pc = pc, ![o].key = None, ![o].lim = None]

(* Mutant: the sweep drops entries without neutralizing them.              *)
ReconcileQuiet(o) ==
  LET s == IF op[o].remove THEN 0 ELSE EffectiveSpeed(op[o].snap, op[o].now) IN
  /\ op[o].pc = "apply"
  /\ rate' = IF s = 0 THEN rate ELSE [rate EXCEPT ![op[o].lim] = s]
  /\ IF s = 0 THEN op' = [op EXCEPT ![o].pc = "delete"] ELSE Done(o, "sweep")
  /\ UNCHANGED <<config, clock, lastCheck, limiters, old, conn, events, evicted,
                 overlapped>>

(* Mutant: the sweep leaves the speed of an entry alone.                   *)
ReconcileStale(o) ==
  /\ op[o].pc = "apply"
  /\ Done(o, "sweep")
  /\ UNCHANGED <<config, clock, lastCheck, limiters, rate, old, conn, events,
                 evicted, overlapped>>

(* ... whose limiter gets the new speed, or is neutralized ...             *)
Reconcile(o) ==
  LET s == IF op[o].remove THEN 0 ELSE EffectiveSpeed(op[o].snap, op[o].now) IN
  /\ op[o].pc = "apply"
  /\ rate' = [rate EXCEPT ![op[o].lim] = IF s = 0 THEN Inf ELSE s]
  /\ IF s = 0 THEN op' = [op EXCEPT ![o].pc = "delete"] ELSE Done(o, "sweep")
  /\ UNCHANGED <<config, clock, lastCheck, limiters, old, conn, events, evicted,
                 overlapped>>

(* ... and dropped, by its key.  cleanExpiredClientLimiters only drops.    *)
Delete(o) ==
  /\ op[o].pc \in {"delete", "evict"}
  /\ limiters' = [limiters EXCEPT ![op[o].key] = None]
  /\ evicted' = IF op[o].pc = "evict" THEN evicted \cup ({limiters[op[o].key]} \ {None})
                ELSE evicted
  /\ Done(o, IF op[o].pc = "delete" THEN "sweep" ELSE "clean")
  /\ UNCHANGED <<config, clock, lastCheck, rate, old, conn, events, overlapped>>

(* The Range ends.  It need not see an entry stored after it began.        *)
EndSweep(o) ==
  /\ \/ op[o].pc = "sweep" /\ \A k \in op[o].todo : limiters[k] \notin op[o].seen
     \/ op[o].pc = "clean" /\ \A k \in op[o].todo \ {User} : limiters[k] \notin op[o].seen \cap old
  /\ op' = [op EXCEPT ![o] = IF o = Ticker /\ @.pc = "sweep" THEN Ranging(OpIdle, "clean")
                             ELSE OpIdle]
  /\ UNCHANGED <<config, clock, lastCheck, limiters, rate, old, conn, events,
                 evicted, overlapped>>

-----------------------------------------------------------------------------
(* Time: the next minute comes, a limiter outlives its TTL.                *)
Minute ==
  /\ Event
  /\ clock' = (clock + 1) % Day
  /\ UNCHANGED <<config, lastCheck, limiters, rate, old, conn, op, evicted,
                 overlapped>>

Expire(l) ==
  /\ Event
  /\ \E k \in Keys : limiters[k] = l
  /\ old' = old \cup {l}
  /\ UNCHANGED <<config, clock, lastCheck, limiters, rate, conn, op, evicted,
                 overlapped>>

OpStep(o) ==
  \/ Store(o) \/ Check(o) \/ Reconcile(o) \/ Delete(o) \/ EndSweep(o)
  \/ \E k \in Keys : Visit(o, k) \/ VisitExpired(o, k)

Next ==
  \/ \E c \in Conns : GetConfig(c) \/ GetLimiter(c) \/ Expire(c)
  \/ ApplyConfig \/ RemoveConfig \/ ReplaceUserSchedules \/ RemoveUserSchedules
  \/ Tick \/ Minute
  \/ \E o \in Ops : OpStep(o)

Spec == Init /\ [][Next]_vars

(* The ticker fires every minute and a call that has begun goes on.        *)
FairSpec == Spec /\ WF_vars(Tick) /\ \A o \in Ops : WF_vars(OpStep(o))

-----------------------------------------------------------------------------
(* Type correctness, and every connection that was admitted and every      *)
(* entry a sweep visits has a limiter.                                     *)
TypeOK ==
  /\ config.speed \in Nat /\ config.group \in Nat /\ config.sched \in Schedules \cup {<<>>}
  /\ clock \in 0..(Day - 1) /\ lastCheck \in 0..(Day - 1) /\ overlapped \in BOOLEAN
  /\ limiters \in [Keys -> Conns \cup {None}]
  /\ rate \in [Conns -> Nat \cup {Inf}]
  /\ old \subseteq Conns /\ evicted \subseteq Conns
  /\ \A c \in Conns : /\ conn[c].pc \in {"new", "free", "lookup", "open"}
                      /\ conn[c].pc = "open" => conn[c].lim \in Conns
  /\ \A o \in Ops : op[o].pc \in {"apply", "delete"} => op[o].lim \in Conns

(* A connection's limiter stays within reach: it is in the map, where the  *)
(* next configuration change finds it, or it was neutralized, or the TTL   *)
(* dropped it.  Sweeps that overlap void this.                             *)
Controlled ==
  ~overlapped => \A c \in Conns : conn[c].pc = "open" =>
    conn[c].lim \in Mapped \/ rate[conn[c].lim] = Inf \/ conn[c].lim \in evicted

(* The limiters in the map get the configured speed in the end: also those *)
(* created from an old snapshot, and those an overtaken sweep set back.    *)
RatesConverge ==
  \A k \in Keys :
    (limiters[k] # None /\ rate[limiters[k]] # EffectiveSpeed(config, clock))
      ~> (limiters[k] = None \/ rate[limiters[k]] = EffectiveSpeed(config, clock))

=============================================================================
