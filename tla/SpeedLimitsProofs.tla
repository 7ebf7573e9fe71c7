-------------------------- MODULE SpeedLimitsProofs --------------------------
(***************************************************************************)
(* What a schedule's time range covers; Controlled: while sweeps do not    *)
(* overlap, every connection's limiter stays within reach; and TypeOK.     *)
(***************************************************************************)
EXTENDS SpeedLimits, WellFoundedInduction, TLAPS

(* Zenon proves what does not say otherwise.                              *)
USE ZenonT(30)

(* Minutes from a to b, around the clock.                                  *)
Ahead(a, b) == IF a <= b THEN b - a ELSE b - a + Day

(* matchesTime holds from start up to, but not including, end, around the  *)
(* clock; a range of no length covers nothing.                             *)
THEOREM MatchesAroundTheClock ==
  ASSUME NEW s \in 0..(Day - 1), NEW e \in 0..(Day - 1), NEW t \in 0..(Day - 1), NEW v \in Nat
  PROVE  MatchesTime([start |-> s, end |-> e, speed |-> v], t) <=> Ahead(s, t) < Ahead(s, e)
BY SMTT(30), SpeedAssumption DEF MatchesTime, Ahead

-----------------------------------------------------------------------------
Fields == {"pc", "snap", "now", "remove", "todo", "seen", "key", "lim"}

(* The shape of the state, as far as the argument needs it.                *)
Shape ==
  /\ limiters \in [Keys -> Conns \cup {None}] /\ DOMAIN rate = Conns
  /\ DOMAIN conn = Conns /\ DOMAIN op = Ops /\ overlapped \in BOOLEAN
  /\ \A o \in Ops : DOMAIN op[o] = Fields
  /\ \A c \in Conns : /\ conn[c].pc = "lookup" => conn[c].key \in Keys
                      /\ conn[c].pc = "open" => conn[c].lim \in Conns

(* A limiter is in use only once its connection is open.                   *)
Fresh ==
  \A c \in Conns : conn[c].pc # "open" =>
    /\ \A k \in Keys : limiters[k] # c
    /\ \A d \in Conns : conn[d].pc = "open" => conn[d].lim # c

(* Without overlap there is one sweep, what it works on is still in the    *)
(* map, and it has neutralized what it is about to drop.                   *)
OneSweep ==
  ~overlapped =>
    /\ \A o, q \in Ops : Sweeping(o) /\ Sweeping(q) => o = q
    /\ \A o \in Ops :
         /\ op[o].pc \in {"apply", "delete", "evict"} => op[o].key \in Keys
         /\ op[o].pc \in {"apply", "delete"} =>
              op[o].lim \in Conns /\ limiters[op[o].key] = op[o].lim
         /\ op[o].pc = "delete" => rate[op[o].lim] = Inf

SpeedInv == Shape /\ Fresh /\ OneSweep /\ Controlled

(* The initial state satisfies the invariant.                              *)
LEMMA InitSpeedInv == Init => SpeedInv
<1> SUFFICES ASSUME Init PROVE SpeedInv
  OBVIOUS
<1> USE SpeedAssumption DEF Init, OpIdle
<1>1. Shape BY DEF Shape, Fields
<1>2. Fresh BY DEF Fresh
<1>3. OneSweep BY DEF OneSweep, Sweeping
<1>4. Controlled BY DEF Controlled
<1> QED BY <1>1, <1>2, <1>3, <1>4 DEF SpeedInv

(* Connections fetch or create limiters.                                   *)
LEMMA ConnInv ==
  ASSUME NEW c \in Conns, SpeedInv, GetConfig(c) \/ GetLimiter(c) PROVE SpeedInv'
<1> USE SpeedAssumption DEF SpeedInv
<1>1. CASE GetConfig(c)
  <2> USE <1>1 DEF GetConfig
  <2>1. Shape' BY DEF Shape, Keys
  <2>2. Fresh' BY DEF Shape, Fresh
  <2>3. OneSweep' BY DEF OneSweep, Sweeping
  <2>4. Controlled' BY DEF Shape, Controlled, Mapped
  <2> QED BY <2>1, <2>2, <2>3, <2>4
<1>2. CASE GetLimiter(c)
  <2> USE <1>2 DEF GetLimiter, Open
  <2>1. Shape' BY SMTT(30) DEF Shape
  <2>2. Fresh' BY SMTT(30) DEF Shape, Fresh
  <2>3. OneSweep' BY SMTT(30) DEF Shape, Fresh, OneSweep, Sweeping
  <2>4. Controlled' BY SMTT(30) DEF Shape, Controlled, Mapped
  <2> QED BY <2>1, <2>2, <2>3, <2>4
<1> QED BY <1>1, <1>2

(* Calls begin, and time passes.                                           *)
LEMMA EventInv ==
  ASSUME SpeedInv,
         \/ ApplyConfig \/ RemoveConfig \/ ReplaceUserSchedules \/ RemoveUserSchedules
         \/ Tick \/ Minute \/ \E c \in Conns : Expire(c)
  PROVE  SpeedInv'
<1>1. ASSUME NEW o \in Ops, NEW r, DOMAIN r = Fields, r.pc \in {"store", "check"},
             op[o].pc = "idle", op' = [op EXCEPT ![o] = r],
             UNCHANGED <<limiters, rate, conn, evicted, overlapped>>
      PROVE  SpeedInv'
  <2> USE <1>1 DEF SpeedInv
  <2>1. Shape' BY DEF Shape
  <2>2. Fresh' BY DEF Fresh
  <2>3. OneSweep' BY DEF Shape, OneSweep, Sweeping
  <2>4. Controlled' BY DEF Controlled, Mapped
  <2> QED BY <2>1, <2>2, <2>3, <2>4
<1>2. ASSUME NEW o \in Ops, NEW s, NEW b, Load(o, s, b) PROVE SpeedInv'
  <2> DEFINE r == [OpIdle EXCEPT !.pc = "store", !.snap = s, !.remove = b]
  <2>1. DOMAIN r = Fields /\ r.pc = "store"
    BY DEF OpIdle, Fields
  <2> HIDE DEF r
  <2> QED BY <1>1, <1>2, <2>1 DEF Load, r
<1>3. CASE Tick
  <2> DEFINE r == [op[Ticker] EXCEPT !.pc = "check"]
  <2>1. DOMAIN r = Fields /\ r.pc = "check"
    BY DEF SpeedInv, Shape, Ops, Fields
  <2>2. op' = [op EXCEPT ![Ticker] = r]
    BY <1>3 DEF Tick
  <2> HIDE DEF r
  <2> QED BY <1>1, <1>3, <2>1, <2>2 DEF Tick, Ops
<1>4. CASE Minute \/ \E c \in Conns : Expire(c)
  BY SMTT(30), <1>4 DEF Minute, Expire, SpeedInv, Shape, Fresh, OneSweep, Sweeping, Controlled,
      Mapped
<1> QED
  BY <1>2, <1>3, <1>4 DEF ApplyConfig, RemoveConfig, ReplaceUserSchedules, RemoveUserSchedules,
      Ops

(* Sweeps begin and end, and pick up entries.                              *)
LEMMA SweepInv ==
  ASSUME NEW o \in Ops, SpeedInv,
         \/ Store(o) \/ Check(o) \/ EndSweep(o)
         \/ \E k \in Keys : Visit(o, k) \/ VisitExpired(o, k)
  PROVE  SpeedInv'
<1> USE DEF SpeedInv
<1>1. UNCHANGED <<limiters, rate, conn, evicted>>
  BY DEF Store, Check, EndSweep, Visit, VisitExpired
<1>2. DOMAIN op' = Ops /\ \A q \in Ops \ {o} : op'[q] = op[q]
  BY DEF Store, Check, EndSweep, Visit, VisitExpired, Shape
<1>3. /\ DOMAIN op'[o] = Fields
      /\ \/ op'[o].pc \in {"idle", "check"} /\ (Note(o) \/ UNCHANGED overlapped)
         \/ op'[o].pc = "sweep" /\ Note(o)
         \/ op'[o].pc = "clean" /\ Sweeping(o) /\ UNCHANGED overlapped
         \/ \E k \in Keys : /\ op'[o].key = k /\ Sweeping(o) /\ UNCHANGED overlapped
                            /\ \/ op'[o].pc = "evict"
                               \/ /\ op'[o].pc = "apply"
                                  /\ op'[o].lim = limiters[k] /\ limiters[k] # None
  <2>1. CASE Store(o)
    BY <2>1 DEF Store, Shape, Fields, Ranging, OpIdle
  <2>2. CASE Check(o)
    BY <2>2 DEF Check, Shape, Fields, Ranging
  <2>3. CASE EndSweep(o)
    BY <2>3 DEF EndSweep, Shape, Fields, Ranging, OpIdle, Sweeping
  <2>4. ASSUME NEW k \in Keys, Visit(o, k)
        PROVE  /\ DOMAIN op'[o] = Fields /\ op'[o].pc = "apply" /\ op'[o].key = k
               /\ op'[o].lim = limiters[k] /\ limiters[k] # None
               /\ Sweeping(o) /\ UNCHANGED overlapped
    BY <2>4 DEF Visit, Shape, Fields, Sweeping
  <2>5. ASSUME NEW k \in Keys, VisitExpired(o, k)
        PROVE  /\ DOMAIN op'[o] = Fields /\ op'[o].pc = "evict" /\ op'[o].key = k
               /\ Sweeping(o) /\ UNCHANGED overlapped
    <3>1. /\ op[o].pc = "clean" /\ UNCHANGED overlapped
          /\ op' = [op EXCEPT ![o].todo = @ \ {k}, ![o].key = k, ![o].pc = "evict"]
      BY <2>5 DEF VisitExpired
    <3>2. o \in DOMAIN op /\ DOMAIN op[o] = Fields
      BY DEF Shape
    <3>3. op'[o] = [op[o] EXCEPT !.todo = op[o].todo \ {k}, !.key = k, !.pc = "evict"]
      BY <3>1, <3>2
    <3> QED BY <3>1, <3>2, <3>3 DEF Fields, Sweeping
  <2> QED BY <2>1, <2>2, <2>3, <2>4, <2>5
<1>4. overlapped => overlapped'
  BY <1>3 DEF Note
<1>5. Shape'
  BY <1>1, <1>2, <1>3 DEF Shape, Note
<1>6. Fresh'
  BY <1>1 DEF Fresh
<1>7. Controlled'
  BY <1>1, <1>4 DEF Controlled, Mapped
<1>8. OneSweep'
  <2> SUFFICES ASSUME ~overlapped'
               PROVE  OneSweep'
    BY DEF OneSweep
  <2>1. ~overlapped
    BY <1>4
  <2>2. \A q \in Ops \ {o} : Sweeping(q)' <=> Sweeping(q)
    BY <1>2 DEF Sweeping
  <2>3. Sweeping(o)' => \A q \in Ops \ {o} : ~Sweeping(q)
    BY <1>3, <2>1 DEF OneSweep, Note, Sweeping
  <2>4. \A p, q \in Ops : Sweeping(p)' /\ Sweeping(q)' => p = q
    BY <2>1, <2>2, <2>3 DEF OneSweep
  <2>5. ASSUME NEW q \in Ops \ {o}
        PROVE  /\ op'[q].pc \in {"apply", "delete", "evict"} => op'[q].key \in Keys
               /\ op'[q].pc \in {"apply", "delete"} =>
                    op'[q].lim \in Conns /\ limiters'[op'[q].key] = op'[q].lim
               /\ op'[q].pc = "delete" => rate'[op'[q].lim] = Inf
    BY <1>1, <1>2, <2>1 DEF OneSweep
  <2>6. /\ op'[o].pc \in {"apply", "delete", "evict"} => op'[o].key \in Keys
        /\ op'[o].pc \in {"apply", "delete"} =>
             op'[o].lim \in Conns /\ limiters'[op'[o].key] = op'[o].lim
        /\ op'[o].pc = "delete" => rate'[op'[o].lim] = Inf
    BY <1>1, <1>3 DEF Shape
  <2> QED BY <2>4, <2>5, <2>6 DEF OneSweep
<1> QED BY <1>5, <1>6, <1>7, <1>8

(* A sweep sets the speed of an entry, or neutralizes it.                  *)
LEMMA ReconcileInv == ASSUME NEW o \in Ops, SpeedInv, Reconcile(o) PROVE SpeedInv'
<1> DEFINE s == IF op[o].remove THEN 0 ELSE EffectiveSpeed(op[o].snap, op[o].now)
           v == IF s = 0 THEN Inf ELSE s
<1>1. /\ op[o].pc = "apply" /\ rate' = [rate EXCEPT ![op[o].lim] = v]
      /\ UNCHANGED <<limiters, conn, evicted, overlapped>>
      /\ op' = IF s = 0 THEN [op EXCEPT ![o].pc = "delete"]
               ELSE [op EXCEPT ![o].pc = "sweep", ![o].key = None, ![o].lim = None]
      /\ s = 0 => v = Inf
  BY DEF Reconcile, Done
<1> HIDE DEF s, v
<1> USE DEF SpeedInv
<1>2. Shape'
  BY <1>1 DEF Shape
<1>3. Fresh'
  BY <1>1 DEF Fresh
<1>4. OneSweep'
  BY SMTT(30), <1>1 DEF Shape, OneSweep, Sweeping
<1>5. Controlled'
  BY SMTT(30), <1>1, SpeedAssumption DEF OneSweep, Controlled, Mapped
<1> QED BY <1>2, <1>3, <1>4, <1>5

(* A sweep drops an entry.                                                 *)
LEMMA DeleteInv == ASSUME NEW o \in Ops, SpeedInv, Delete(o) PROVE SpeedInv'
<1> USE SpeedAssumption DEF SpeedInv, Delete, Done
<1>1. CASE op[o].key \in Keys
  <2>1. Shape' BY DEF Shape
  <2>2. Fresh' BY DEF Shape, Fresh
  <2>3. OneSweep' BY SMTT(30) DEF Shape, OneSweep, Sweeping
  <2>4. Controlled' BY SMTT(30) DEF OneSweep, Controlled, Mapped
  <2> QED BY <2>1, <2>2, <2>3, <2>4
<1>2. CASE op[o].key \notin Keys
  <2>1. overlapped BY <1>2 DEF OneSweep
  <2>2. UNCHANGED limiters BY <1>2 DEF Shape
  <2>3. Shape' BY DEF Shape
  <2>4. Fresh' BY <2>2 DEF Fresh
  <2>5. OneSweep' /\ Controlled' BY <2>1 DEF OneSweep, Controlled
  <2> QED BY <2>3, <2>4, <2>5
<1> QED BY <1>1, <1>2

(* The inductive invariant holds in every state.                           *)
LEMMA SpeedInvariant == Spec => []SpeedInv
<1>1. SpeedInv /\ [Next]_vars => SpeedInv'
  <2>1. ASSUME SpeedInv, Next PROVE SpeedInv'
    BY <2>1, ConnInv, EventInv, SweepInv, ReconcileInv, DeleteInv DEF Next, OpStep
  <2>2. ASSUME SpeedInv, UNCHANGED vars PROVE SpeedInv'
    BY SMTT(30), <2>2 DEF vars, SpeedInv, Shape, Fresh, OneSweep, Sweeping, Controlled, Mapped
  <2> QED BY <2>1, <2>2
<1> QED BY InitSpeedInv, <1>1, PTL DEF Spec

(* While sweeps do not overlap, no limiter of a connection gets lost.      *)
THEOREM LimitersControlled == Spec => []Controlled
BY SpeedInvariant, PTL DEF SpeedInv

-----------------------------------------------------------------------------
(* A set of naturals has a least element.                                  *)
LEMMA Least == ASSUME NEW T, T \subseteq Nat, T # {} PROVE \E x \in T : \A y \in T : x <= y
<1> DEFINE R == OpToRel(<, Nat)
<1>1. IsWellFoundedOn(R, Nat)
  BY NatLessThanWellFounded
<1>2. ASSUME NEW x \in Nat, NEW y \in Nat, <<x, y>> \notin R PROVE ~(x < y)
  BY <1>2 DEF OpToRel
<1> HIDE DEF R
<1>3. PICK x \in T : \A y \in T : <<y, x>> \notin R
  BY <1>1, WFMin
<1>4. ASSUME NEW y \in T PROVE x <= y
  <2>1. x \in Nat /\ y \in Nat /\ <<y, x>> \notin R
    BY <1>3
  <2>2. ~(y < x)
    BY <1>2, <2>1
  <2> QED BY SMTT(30), <2>2
<1> QED BY <1>4

(* Max is an element of any set of indices that is not empty.              *)
LEMMA MaxIsElement == ASSUME NEW n \in Nat, NEW S, S \subseteq 1..n, S # {} PROVE Max(S) \in S
<1> DEFINE T == {n - i : i \in S}
<1>1. ASSUME NEW i \in S PROVE i \in 1..n /\ n - i \in Nat
  BY SMTT(30)
<1>2. T \subseteq Nat
  BY <1>1
<1>3. T # {}
  OBVIOUS
<1>4. PICK x \in T : \A y \in T : x <= y
  BY <1>2, Least
<1>5. PICK m \in S : x = n - m
  OBVIOUS
<1>6. ASSUME NEW j \in S PROVE m >= j
  <2>1. n - m <= n - j
    BY <1>4, <1>5
  <2> QED BY SMTT(30), <2>1
<1> QED BY <1>6 DEF Max

(* A configuration snapshot.                                               *)
IsSnap(s) ==
  /\ DOMAIN s = {"speed", "group", "perClient", "sched"}
  /\ s.speed \in Nat /\ s.group \in Nat /\ s.sched \in Schedules \cup {<<>>}

(* effectiveSpeed of a snapshot is a speed, whatever the time.             *)
LEMMA SpeedType == ASSUME NEW s, IsSnap(s), NEW t PROVE EffectiveSpeed(s, t) \in Nat
<1> DEFINE Entries == [start : 0..(Day - 1), end : 0..(Day - 1), speed : Nat]
<1>1. s.sched \in Seq(Entries) /\ GlobalSchedule \in Seq(Entries)
  <2>1. Schedules \cup {GlobalSchedule} \subseteq Seq(Entries)
    BY SpeedAssumption
  <2> HIDE DEF Entries
  <2>2. <<>> \in Seq(Entries)
    BY SMTT(30)
  <2> QED BY <2>1, <2>2 DEF IsSnap
<1> HIDE DEF Entries
<1>2. ASSUME NEW q \in Seq(Entries) PROVE ActiveSpeed(q, t) \in Nat
  <2> DEFINE active == {i \in DOMAIN q : MatchesTime(q[i], t)}
  <2>1. CASE active = {}
    BY <2>1 DEF ActiveSpeed
  <2>2. CASE active # {}
    <3>1. Len(q) \in Nat /\ DOMAIN q = 1..Len(q)
      BY SMTT(30)
    <3>2. Max(active) \in active
      BY <2>2, <3>1, MaxIsElement
    <3>3. Max(active) \in DOMAIN q
      BY <3>2
    <3> HIDE DEF active
    <3>4. q[Max(active)] \in Entries
      BY SMTT(30), <3>3
    <3>5. q[Max(active)].speed \in Nat
      BY <3>4 DEF Entries
    <3>6. ActiveSpeed(q, t) = q[Max(active)].speed
      BY <2>2 DEF ActiveSpeed, active
    <3> QED BY <3>5, <3>6
  <2> QED BY <2>1, <2>2
<1>3. ActiveSpeed(s.sched, t) \in Nat /\ ActiveSpeed(GlobalSchedule, t) \in Nat
  BY <1>1, <1>2
<1>4. ResolveConfig(s) \in Nat
  BY SpeedAssumption DEF ResolveConfig, IsSnap
<1> QED BY <1>3, <1>4 DEF EffectiveSpeed

(* What a call or a sweep under way works on.                              *)
OpTyped(o) ==
  /\ op[o].pc = "store" => IsSnap(op[o].snap)
  /\ op[o].pc \in {"sweep", "apply", "delete"} => op[o].remove \/ IsSnap(op[o].snap)
  /\ op[o].pc \in {"apply", "delete"} => op[o].lim \in Conns
  /\ op[o].pc \in {"apply", "delete", "evict"} => op[o].key \in Keys

Typed ==
  /\ IsSnap(config) /\ clock \in 0..(Day - 1) /\ lastCheck \in 0..(Day - 1)
  /\ rate \in [Conns -> Nat \cup {Inf}] /\ old \subseteq Conns /\ evicted \subseteq Conns
  /\ \A c \in Conns : /\ conn[c].pc \in {"new", "free", "lookup", "open"}
                      /\ conn[c].pc = "lookup" => conn[c].speed \in Nat
  /\ \A o \in Ops : OpTyped(o)

(* A step of one call or sweep.                                            *)
LEMMA OneOpTyped ==
  ASSUME NEW o \in Ops, Typed, UNCHANGED <<config, clock, lastCheck, old, conn>>,
         rate' \in [Conns -> Nat \cup {Inf}], evicted' \subseteq Conns,
         \A q \in Ops \ {o} : op'[q] = op[q], OpTyped(o)'
  PROVE  Typed'
<1>1. \A q \in Ops \ {o} : OpTyped(q)'
  BY DEF Typed, OpTyped
<1> QED BY <1>1 DEF Typed

(* The initial configuration is the options'.                              *)
LEMMA InitTyped == Init => Typed
<1> SUFFICES ASSUME Init PROVE Typed
  OBVIOUS
<1>1. IsSnap(config)
  BY SpeedAssumption DEF Init, IsSnap
<1>2. 0 \in 0..(Day - 1)
  BY SMTT(30), SpeedAssumption
<1> QED BY <1>1, <1>2 DEF Init, Typed, OpTyped, OpIdle

(* Connections fetch or create limiters.                                   *)
LEMMA ConnTyped ==
  ASSUME NEW c \in Conns, SpeedInv, Typed, GetConfig(c) \/ GetLimiter(c) PROVE Typed'
<1>1. CASE GetConfig(c)
  <2>1. EffectiveSpeed(config, lastCheck) \in Nat
    BY SpeedType DEF Typed
  <2> QED BY <1>1, <2>1 DEF GetConfig, Typed, OpTyped, SpeedInv, Shape
<1>2. CASE GetLimiter(c)
  BY <1>2 DEF GetLimiter, Open, Typed, OpTyped, SpeedInv, Shape
<1> QED BY <1>1, <1>2

(* Calls begin with a changed clone of the snapshot, and time passes.      *)
LEMMA EventTyped ==
  ASSUME SpeedInv, Typed,
         \/ ApplyConfig \/ RemoveConfig \/ ReplaceUserSchedules \/ RemoveUserSchedules
         \/ Tick \/ Minute \/ \E c \in Conns : Expire(c)
  PROVE  Typed'
<1>1. ASSUME NEW o \in Ops, NEW s, NEW b, IsSnap(s), Load(o, s, b) PROVE Typed'
  <2>1. op'[o].pc = "store" /\ op'[o].snap = s /\ \A q \in Ops \ {o} : op'[q] = op[q]
    BY <1>1 DEF Load, OpIdle, SpeedInv, Shape
  <2>2. OpTyped(o)'
    BY <1>1, <2>1 DEF OpTyped
  <2> QED BY <1>1, <2>1, <2>2, OneOpTyped DEF Load, Typed
<1>2. CASE ApplyConfig
  <2>1. PICK r \in Rates \cup {0}, g \in Groups \cup {0}, per \in PerClient :
               Load(Admin, [config EXCEPT !.speed = r, !.group = g, !.perClient = per], FALSE)
    BY <1>2 DEF ApplyConfig
  <2>2. IsSnap([config EXCEPT !.speed = r, !.group = g, !.perClient = per])
    BY SMTT(30), SpeedAssumption DEF Typed, IsSnap
  <2> QED BY <1>1, <2>1, <2>2 DEF Ops
<1>3. CASE RemoveConfig
  <2>1. IsSnap([config EXCEPT !.speed = 0, !.group = 0, !.perClient = DefaultPerClient])
    BY DEF Typed, IsSnap
  <2> QED BY <1>1, <1>3, <2>1 DEF RemoveConfig, Ops
<1>4. CASE ReplaceUserSchedules \/ RemoveUserSchedules
  <2>1. \A q \in Schedules \cup {<<>>} : IsSnap([config EXCEPT !.sched = q])
    BY DEF Typed, IsSnap
  <2>2. \E q \in Schedules \cup {<<>>} : Load(Scheduler, [config EXCEPT !.sched = q], FALSE)
    BY <1>4 DEF ReplaceUserSchedules, RemoveUserSchedules
  <2> QED BY <1>1, <2>1, <2>2 DEF Ops
<1>5. CASE Tick
  <2>1. op'[Ticker].pc = "check" /\ \A q \in Ops \ {Ticker} : op'[q] = op[q]
    BY <1>5 DEF Tick, SpeedInv, Shape, Fields, Ops
  <2>2. OpTyped(Ticker)'
    BY <2>1 DEF OpTyped
  <2> QED BY <1>5, <2>1, <2>2, OneOpTyped DEF Tick, Typed, Ops
<1>6. CASE Minute
  <2>1. clock' \in 0..(Day - 1)
    BY SMTT(30), <1>6, SpeedAssumption DEF Minute, Typed
  <2> QED BY <1>6, <2>1 DEF Minute, Typed, OpTyped
<1>7. CASE \E c \in Conns : Expire(c)
  BY <1>7 DEF Expire, Typed, OpTyped
<1> QED BY <1>2, <1>3, <1>4, <1>5, <1>6, <1>7

(* A call stores its snapshot; a sweep loads one.                          *)
LEMMA StoreTyped ==
  ASSUME NEW o \in Ops, SpeedInv, Typed, Store(o) \/ Check(o) \/ EndSweep(o) PROVE Typed'
<1>1. \A q \in Ops \ {o} : op'[q] = op[q]
  BY DEF Store, Check, EndSweep, SpeedInv, Shape
<1>2. UNCHANGED <<clock, rate, old, conn, evicted>> /\ lastCheck' \in {lastCheck, clock}
  BY DEF Store, Check, EndSweep
<1>3. IsSnap(config')
  BY DEF Store, Check, EndSweep, Typed, OpTyped
<1>4. /\ op'[o].pc \in {"idle", "check", "sweep", "clean"}
      /\ op'[o].pc = "sweep" => op'[o].remove \/ IsSnap(op'[o].snap)
  <2>1. CASE Store(o)
    BY <2>1 DEF Store, SpeedInv, Shape, Fields, Ranging, OpIdle
  <2>2. CASE Check(o)
    <3>1. op'[o].pc = "sweep" /\ op'[o].snap = config
      BY <2>2 DEF Check, SpeedInv, Shape, Fields, Ranging
    <3> QED BY <3>1 DEF Typed
  <2>3. CASE EndSweep(o)
    BY <2>3 DEF EndSweep, SpeedInv, Shape, Ranging, OpIdle
  <2> QED BY <2>1, <2>2, <2>3
<1>5. OpTyped(o)'
  BY <1>4 DEF OpTyped
<1>6. \A q \in Ops \ {o} : OpTyped(q)'
  BY <1>1 DEF Typed, OpTyped
<1> QED BY <1>2, <1>3, <1>5, <1>6 DEF Typed

(* A sweep picks up an entry, which has a limiter, sets its speed to what  *)
(* its snapshot says and drops it or goes on.                              *)
LEMMA SweepTyped ==
  ASSUME NEW o \in Ops, SpeedInv, Typed,
         \/ Reconcile(o) \/ Delete(o)
         \/ \E k \in Keys : Visit(o, k) \/ VisitExpired(o, k)
  PROVE  Typed'
<1>1. DOMAIN op = Ops /\ DOMAIN op[o] = Fields
  BY DEF SpeedInv, Shape
<1>2. ASSUME NEW k \in Keys, Visit(o, k) PROVE Typed'
  <2>1. /\ op[o].pc = "sweep" /\ limiters[k] # None
        /\ UNCHANGED <<config, clock, lastCheck, old, conn, rate, evicted>>
        /\ op' = [op EXCEPT ![o].todo = @ \ {k}, ![o].key = k, ![o].lim = limiters[k],
                            ![o].pc = "apply"]
    BY <1>2 DEF Visit
  <2>2. limiters[k] \in Conns
    BY <2>1 DEF SpeedInv, Shape
  <2>3. /\ op'[o].pc = "apply" /\ op'[o].key = k /\ op'[o].lim = limiters[k]
        /\ op'[o].remove = op[o].remove /\ op'[o].snap = op[o].snap
        /\ \A q \in Ops \ {o} : op'[q] = op[q]
    BY <1>1, <2>1 DEF Fields
  <2>4. OpTyped(o)'
    BY <2>1, <2>2, <2>3 DEF Typed, OpTyped
  <2> QED BY <2>1, <2>3, <2>4, OneOpTyped DEF Typed
<1>3. ASSUME NEW k \in Keys, VisitExpired(o, k) PROVE Typed'
  <2>1. /\ UNCHANGED <<config, clock, lastCheck, old, conn, rate, evicted>>
        /\ op' = [op EXCEPT ![o].todo = @ \ {k}, ![o].key = k, ![o].pc = "evict"]
    BY <1>3 DEF VisitExpired
  <2>2. op'[o].pc = "evict" /\ op'[o].key = k /\ \A q \in Ops \ {o} : op'[q] = op[q]
    BY <1>1, <2>1 DEF Fields
  <2>3. OpTyped(o)'
    BY <2>2 DEF OpTyped
  <2> QED BY <2>1, <2>2, <2>3, OneOpTyped DEF Typed
<1>4. CASE Reconcile(o)
  <2> DEFINE s == IF op[o].remove THEN 0 ELSE EffectiveSpeed(op[o].snap, op[o].now)
  <2>1. op[o].pc = "apply" /\ op[o].lim \in Conns /\ (op[o].remove \/ IsSnap(op[o].snap))
    BY <1>4 DEF Reconcile, Typed, OpTyped
  <2>2. s \in Nat
    BY <2>1, SpeedType
  <2>3. /\ rate' = [rate EXCEPT ![op[o].lim] = IF s = 0 THEN Inf ELSE s]
        /\ UNCHANGED <<config, clock, lastCheck, old, conn, evicted>>
        /\ op' = IF s = 0 THEN [op EXCEPT ![o].pc = "delete"]
                 ELSE [op EXCEPT ![o].pc = "sweep", ![o].key = None, ![o].lim = None]
    BY <1>4 DEF Reconcile, Done
  <2> HIDE DEF s
  <2>4. rate' \in [Conns -> Nat \cup {Inf}]
    BY <2>2, <2>3 DEF Typed
  <2>5. /\ op'[o].remove = op[o].remove /\ op'[o].snap = op[o].snap
        /\ \/ op'[o].pc = "delete" /\ op'[o].lim = op[o].lim /\ op'[o].key = op[o].key
           \/ op'[o].pc = "sweep"
        /\ \A q \in Ops \ {o} : op'[q] = op[q]
    BY <1>1, <2>3 DEF Fields
  <2>6. OpTyped(o)'
    BY <2>1, <2>5 DEF Typed, OpTyped
  <2> QED BY <2>3, <2>4, <2>5, <2>6, OneOpTyped DEF Typed
<1>5. CASE Delete(o)
  <2>1. op[o].pc \in {"delete", "evict"} /\ limiters[op[o].key] \in Conns \cup {None}
    BY <1>5 DEF Delete, Typed, OpTyped, SpeedInv, Shape
  <2>2. /\ evicted' \subseteq Conns
        /\ UNCHANGED <<config, clock, lastCheck, old, conn, rate>>
    BY <1>5, <2>1 DEF Delete, Typed
  <2>3. /\ op'[o].remove = op[o].remove /\ op'[o].snap = op[o].snap
        /\ \/ op[o].pc = "delete" /\ op'[o].pc = "sweep"
           \/ op'[o].pc = "clean"
        /\ \A q \in Ops \ {o} : op'[q] = op[q]
    BY <1>1, <1>5 DEF Delete, Done, Fields
  <2>4. OpTyped(o)'
    BY <2>3 DEF Typed, OpTyped
  <2> QED BY <2>2, <2>3, <2>4, OneOpTyped DEF Typed
<1> QED BY <1>2, <1>3, <1>4, <1>5

(* TypeOK: speeds, snapshots and the clock stay in range, and every        *)
(* connection that was admitted and every entry a sweep works on has a     *)
(* limiter, however sweeps, calls and connections interleave.              *)
THEOREM SpeedTypes == Spec => []TypeOK
<1>1. SpeedInv /\ Typed /\ [Next]_vars => Typed'
  <2>1. ASSUME SpeedInv, Typed, Next PROVE Typed'
    BY <2>1, ConnTyped, EventTyped, StoreTyped, SweepTyped DEF Next, OpStep
  <2>2. ASSUME Typed, UNCHANGED vars PROVE Typed'
    BY <2>2 DEF vars, Typed, OpTyped
  <2> QED BY <2>1, <2>2
<1>2. SpeedInv /\ Typed => TypeOK
  BY DEF SpeedInv, Shape, Typed, OpTyped, IsSnap, TypeOK
<1> QED BY InitTyped, SpeedInvariant, <1>1, <1>2, PTL DEF Spec
=============================================================================
