----------------------- MODULE QuotaUsageTypeProofs -------------------------
(***************************************************************************)
(* The byte accounting of QuotaUsage is well formed: its types, who holds  *)
(* persistAccess, when a config is known to be present, and which          *)
(* *userState objects are allocated and have a period key.                 *)
(*                                                                         *)
(* TypeOK alone is not inductive.  The flush may use the key of the state  *)
(* it consumed from only because a state with pending bytes has one        *)
(* (Keyed), which RestoreState suspends while it holds persistAccess       *)
(* (Locks).  mustPeriodKey finds a config because RemoveConfig is kept out *)
(* (Configured).                                                           *)
(***************************************************************************)
EXTENDS QuotaUsage, TLAPS

(* Zenon proves what does not say otherwise.                              *)
USE ZenonT(30)

AdminHolds ==
  {"key", "fetch", "loading", "unlock", "rmKey", "rmRow", "rmConfig", "rmState"}
RestorerHolds == {"usage", "pending", "flag", "key", "save", "clear", "unlock"}

(* Who is where in its critical section of persistAccess; LoadUsage runs   *)
(* inside the flush's or ApplyConfig's.                                    *)
Locks ==
  /\ fl.pc # "idle" <=> persist = Flusher
  /\ rs.pc = "delete" <=> persist = Resetter
  /\ am.pc \in AdminHolds <=> persist = Admin
  /\ rt.pc \in RestorerHolds <=> persist = Restorer
  /\ lu.pc # "idle" => fl.pc = "loading" \/ am.pc = "loading"
  /\ persist = Restorer => restored

(* A caller of mustPeriodKey other than CheckPeriodReset has a config.     *)
Configured ==
  /\ lu.pc = "state" => config # NoConfig
  /\ am.pc \in {"state", "read", "decide", "lock", "key", "rmKey"} => config # NoConfig
  /\ rt.pc # "idle" => rt.quota # NoConfig

(* A process that is down has no memory.                                   *)
Off ==
  run = "down" =>
    /\ config = NoConfig /\ states = Nil /\ nStates = 0
    /\ heap = [s \in Ids |-> Fresh]
    /\ dirty = FALSE /\ persist = Nobody
    /\ ad = [a \in Adders |-> AdIdle]
    /\ fl = FlIdle /\ lu = LuIdle /\ rs = RsIdle /\ am = AmIdle /\ rt = RtIdle

(* Calls hold allocated objects, and the others are untouched.             *)
Allocated ==
  /\ \A a \in Adders : ad[a].state <= nStates
  /\ lu.state <= nStates /\ rs.state <= nStates
  /\ am.state <= nStates /\ rt.state <= nStates
  /\ \A s \in Ids : s > nStates => heap[s] = Fresh

(* Pending bytes have a period, except in the state RestoreState is        *)
(* writing.                                                                *)
Keyed ==
  /\ \A s \in Ids : heap[s].pending > 0 /\ heap[s].key = NoKey =>
       rt.pc \in {"flag", "key", "save"} /\ rt.state = s
  /\ rt.snap.pending > 0 => rt.snap.key # NoKey
  /\ rt.pc = "save" /\ rt.snap.key # NoKey => heap[rt.state].key # NoKey

WellFormed ==
  TypeOK /\ Locks /\ Configured /\ Off /\ Allocated /\ Keyed /\ PanicsOnlyInReset

-----------------------------------------------------------------------------
(* What each conjunct of WellFormed depends on.                            *)
LEMMA Frames ==
  /\ TypeMem /\ UNCHANGED <<run, now, memVars, persist>> => TypeMem'
  /\ TypeDb /\ UNCHANGED <<dbVars, counted, discarded, twice, leaked>> => TypeDb'
  /\ TypeCounters /\ UNCHANGED <<boundVars, restored, panics>> => TypeCounters'
  /\ TypeAd /\ UNCHANGED ad => TypeAd'
  /\ TypeFl /\ UNCHANGED fl => TypeFl'
  /\ TypeLu /\ UNCHANGED lu => TypeLu'
  /\ TypeRs /\ UNCHANGED rs => TypeRs'
  /\ TypeAm /\ UNCHANGED am => TypeAm'
  /\ TypeRt /\ UNCHANGED rt => TypeRt'
  /\ Locks /\ UNCHANGED <<persist, fl, lu, rs, am, rt, restored>> => Locks'
  /\ Configured /\ UNCHANGED <<config, lu, am, rt>> => Configured'
  /\ Allocated /\ UNCHANGED <<nStates, heap, ad, lu, rs, am, rt>> => Allocated'
  /\ Keyed /\ UNCHANGED <<heap, rt>> => Keyed'
  /\ PanicsOnlyInReset /\ UNCHANGED panics => PanicsOnlyInReset'
<1>1. TypeMem /\ UNCHANGED <<run, now, memVars, persist>> => TypeMem'
  BY DEF TypeMem, memVars
<1>2. TypeDb /\ UNCHANGED <<dbVars, counted, discarded, twice, leaked>> => TypeDb'
  BY DEF TypeDb, dbVars
<1>3. TypeCounters /\ UNCHANGED <<boundVars, restored, panics>> => TypeCounters'
  BY DEF TypeCounters, boundVars
<1>4. /\ TypeAd /\ UNCHANGED ad => TypeAd'
      /\ TypeFl /\ UNCHANGED fl => TypeFl'
      /\ TypeLu /\ UNCHANGED lu => TypeLu'
      /\ TypeRs /\ UNCHANGED rs => TypeRs'
      /\ TypeAm /\ UNCHANGED am => TypeAm'
      /\ TypeRt /\ UNCHANGED rt => TypeRt'
  BY DEF TypeAd, TypeFl, TypeLu, TypeRs, TypeAm, TypeRt
<1>5. Locks /\ UNCHANGED <<persist, fl, lu, rs, am, rt, restored>> => Locks'
  BY SMTT(30) DEF Locks
<1>6. Configured /\ UNCHANGED <<config, lu, am, rt>> => Configured'
  BY DEF Configured
<1>7. Allocated /\ UNCHANGED <<nStates, heap, ad, lu, rs, am, rt>> => Allocated'
  BY DEF Allocated
<1>8. /\ Keyed /\ UNCHANGED <<heap, rt>> => Keyed'
      /\ PanicsOnlyInReset /\ UNCHANGED panics => PanicsOnlyInReset'
  BY DEF Keyed, PanicsOnlyInReset
<1> QED  BY <1>1, <1>2, <1>3, <1>4, <1>5, <1>6, <1>7, <1>8

(* Only a step that ends the process, or one of a process that is down,    *)
(* has to show Off.                                                        *)
LEMMA OffFrame == run' # "down" => Off'
BY DEF Off

(* A process in which a call runs is not down.                             *)
LEMMA OffBusy ==
  ASSUME Off, run' = run
  PROVE  /\ \A a \in Adders : ad[a].pc # "idle" => Off'
         /\ fl.pc # "idle" => Off'
         /\ lu.pc # "idle" => Off'
         /\ rs.pc # "idle" => Off'
         /\ am.pc # "idle" => Off'
         /\ rt.pc # "idle" => Off'
<1>1. run = "down" => \A a \in Adders : ad[a].pc = "idle"  BY SMTT(30) DEF Off, AdIdle
<1>2. run = "down" => fl.pc = "idle" /\ lu.pc = "idle" /\ rs.pc = "idle"
  BY SMTT(30) DEF Off, FlIdle, LuIdle, RsIdle
<1>3. run = "down" => am.pc = "idle" /\ rt.pc = "idle"  BY SMTT(30) DEF Off, AmIdle, RtIdle
<1> QED  BY <1>1, <1>2, <1>3, OffFrame

-----------------------------------------------------------------------------
(* Stores to the fields of one *userState.                                 *)

(* exceeded.Store leaves usage, pending and the key alone.                 *)
LEMMA FlagUpdate ==
  ASSUME heap \in [Ids -> States], NEW s \in Ids, NEW b \in BOOLEAN,
         heap' = [heap EXCEPT ![s].exceeded = b]
  PROVE  /\ heap' \in [Ids -> States]
         /\ \A t \in Ids : /\ heap'[t].usage = heap[t].usage
                           /\ heap'[t].pending = heap[t].pending
                           /\ heap'[t].key = heap[t].key
         /\ \A t \in Ids \ {s} : heap'[t] = heap[t]
BY DEF States

(* usage.Store leaves pending and the key alone.                           *)
LEMMA UsageUpdate ==
  ASSUME heap \in [Ids -> States], NEW s \in Ids, NEW n \in Nat,
         heap' = [heap EXCEPT ![s].usage = n]
  PROVE  /\ heap' \in [Ids -> States]
         /\ heap'[s].usage = n
         /\ \A t \in Ids : /\ heap'[t].pending = heap[t].pending
                           /\ heap'[t].key = heap[t].key
         /\ \A t \in Ids \ {s} : heap'[t] = heap[t]
BY DEF States

(* pending.Store leaves usage and the key alone.                           *)
LEMMA PendingUpdate ==
  ASSUME heap \in [Ids -> States], NEW s \in Ids, NEW n \in Nat,
         heap' = [heap EXCEPT ![s].pending = n]
  PROVE  /\ heap' \in [Ids -> States]
         /\ heap'[s].pending = n
         /\ \A t \in Ids : /\ heap'[t].usage = heap[t].usage
                           /\ heap'[t].key = heap[t].key
         /\ \A t \in Ids \ {s} : heap'[t] = heap[t]
BY DEF States

(* A store to periodKey leaves usage and pending alone.                    *)
LEMMA KeyUpdate ==
  ASSUME heap \in [Ids -> States], NEW s \in Ids, NEW k \in Keys,
         heap' = [heap EXCEPT ![s].key = k]
  PROVE  /\ heap' \in [Ids -> States]
         /\ heap'[s].key = k
         /\ \A t \in Ids : /\ heap'[t].usage = heap[t].usage
                           /\ heap'[t].pending = heap[t].pending
         /\ \A t \in Ids \ {s} : heap'[t] = heap[t]
BY DEF States

(* CheckPeriodReset clears usage and pending.                              *)
LEMMA ClearUpdate ==
  ASSUME heap \in [Ids -> States], NEW s \in Ids,
         heap' = [heap EXCEPT ![s].usage = 0, ![s].pending = 0]
  PROVE  /\ heap' \in [Ids -> States]
         /\ heap'[s].usage = 0 /\ heap'[s].pending = 0 /\ heap'[s].key = heap[s].key
         /\ \A t \in Ids \ {s} : heap'[t] = heap[t]
BY DEF States

(* CheckPeriodReset clears the flag and moves the state to the new period. *)
LEMMA MoveUpdate ==
  ASSUME heap \in [Ids -> States], NEW s \in Ids, NEW k \in Keys,
         heap' = [heap EXCEPT ![s].exceeded = FALSE, ![s].key = k]
  PROVE  /\ heap' \in [Ids -> States]
         /\ heap'[s].key = k
         /\ \A t \in Ids : /\ heap'[t].usage = heap[t].usage
                           /\ heap'[t].pending = heap[t].pending
         /\ \A t \in Ids \ {s} : heap'[t] = heap[t]
BY DEF States

(* AddBytes: the critical section of periodAccess sets the key and adds    *)
(* the byte to usage and pending of one state.                             *)
LEMMA CountUpdate ==
  ASSUME heap \in [Ids -> States], NEW s \in Ids, NEW k \in Keys,
         heap' = [heap EXCEPT ![s].key = k, ![s].usage = @ + 1, ![s].pending = @ + 1]
  PROVE  /\ heap' \in [Ids -> States]
         /\ heap'[s].key = k /\ heap'[s].usage = heap[s].usage + 1
         /\ heap'[s].pending = heap[s].pending + 1
         /\ \A t \in Ids \ {s} : heap'[t] = heap[t]
<1>1. [heap EXCEPT ![s].key = k, ![s].usage = @ + 1] \in [Ids -> States]
  BY SMTT(30) DEF States
<1>2. heap' = [[heap EXCEPT ![s].key = k, ![s].usage = @ + 1] EXCEPT ![s].pending = @ + 1]
  OBVIOUS
<1>3. heap' \in [Ids -> States]
  <2> DEFINE h == [heap EXCEPT ![s].key = k, ![s].usage = @ + 1]
  <2>1. h \in [Ids -> States] /\ heap' = [h EXCEPT ![s].pending = @ + 1]  BY <1>1
  <2> HIDE DEF h
  <2> QED  BY SMTT(30) DEF States
<1> QED  BY SMTT(30), <1>3

-----------------------------------------------------------------------------
(* Delete of a row.                                                        *)
LEMMA DeleteRowTypes ==
  ASSUME TypeDb, NEW p \in Periods, DeleteRow(p)
  PROVE  rows' \subseteq Periods /\ db' \in [Periods -> Nat]
         /\ discarded' \in [Periods -> Nat]
BY SMTT(30) DEF TypeDb, DeleteRow

(* IncrBy of a row.                                                        *)
LEMMA IncrByTypes ==
  ASSUME TypeDb, NEW p \in Periods, NEW n \in Nat, IncrBy(p, n)
  PROVE  rows' \subseteq Periods /\ db' \in [Periods -> Nat]
BY SMTT(30) DEF TypeDb, IncrBy

(* Adding to the bytes of a period.                                        *)
LEMMA AddTo ==
  ASSUME NEW f \in [Periods -> Nat], NEW p \in Periods, NEW n \in Nat
  PROVE  [f EXCEPT ![p] = @ + n] \in [Periods -> Nat]
BY SMTT(30)

(* The delta a flush gives up.                                             *)
LEMMA DropDeltaTypes ==
  ASSUME TypeDb, fl.key \in Periods, fl.delta \in Nat, DropDelta
  PROVE  discarded' \in [Periods -> Nat]
BY SMTT(30) DEF TypeDb, DropDelta

(* stateFor yields the entry of the map, allocated if there was none.      *)
LEMMA StateForFacts ==
  ASSUME TypeMem, NEW s \in Ids, StateFor(s)
  PROVE  /\ states' = s /\ s <= nStates' /\ nStates <= nStates'
         /\ nStates' \in 0..MaxObjects /\ states' \in 0..nStates'
         /\ states # Nil => s = states
         /\ states = Nil => s > nStates
BY SMTT(30) DEF TypeMem, StateFor, Ids

(* The objects the calls hold are numbers of the allocation order.         *)
LEMMA StatesNat ==
  ASSUME TypeOK
  PROVE  /\ nStates \in Nat /\ lu.state \in Nat /\ rs.state \in Nat
         /\ am.state \in Nat /\ rt.state \in Nat
         /\ \A a \in Adders : ad[a].state \in Nat
BY SMTT(30) DEF TypeOK, TypeMem, TypeAd, TypeLu, TypeRs, TypeAm, TypeRt, Refs, Ids, Nil

(* A step that only allocates keeps the calls' objects allocated.          *)
LEMMA AllocatedGrows ==
  ASSUME TypeOK, Allocated, nStates' \in Nat, nStates <= nStates',
         UNCHANGED <<lu, rs, am, rt>>,
         \A a \in Adders : ad'[a].state = ad[a].state \/ ad'[a].state <= nStates',
         \A s \in Ids : s > nStates' => heap'[s] = heap[s]
  PROVE  Allocated'
<1>1. \A a \in Adders : ad'[a].state <= nStates'
  BY SMTT(30), StatesNat DEF Allocated
<1>2. /\ lu.state <= nStates' /\ rs.state <= nStates'
      /\ am.state <= nStates' /\ rt.state <= nStates'
  BY SMTT(30), StatesNat DEF Allocated
<1>3. \A s \in Ids : s > nStates' => heap'[s] = Fresh
  BY SMTT(30), StatesNat DEF Allocated, Ids
<1> QED  BY <1>1, <1>2, <1>3 DEF Allocated

(* RestoreState returns, or the snapshot is dropped.                       *)
LEMMA RestorerIdle ==
  ASSUME WellFormed, rt.pc \in {"held", "unlock"}, rt' = RtIdle
  PROVE  /\ TypeRt'
         /\ UNCHANGED heap => Keyed'
         /\ UNCHANGED <<nStates, heap, ad, lu, rs, am>> => Allocated'
         /\ UNCHANGED <<config, lu, am>> => Configured'
<1>1. rt'.pc = "idle" /\ rt'.state = 0 /\ rt'.snap.pending = 0
  BY DEF RtIdle, Fresh, Nil
<1>2. TypeRt'  BY DEF TypeRt, RtIdle, Fresh, Refs, States, Keys, NoConfig
<1>3. UNCHANGED heap => Keyed'
  <2>1. \A s \in Ids : ~(heap[s].pending > 0 /\ heap[s].key = NoKey)
    BY DEF Keyed, WellFormed
  <2> QED  BY SMTT(30), <1>1, <2>1 DEF Keyed
<1>4. UNCHANGED <<nStates, heap, ad, lu, rs, am>> => Allocated'
  <2>1. 0 <= nStates  BY SMTT(30), StatesNat DEF WellFormed
  <2> QED  BY <1>1, <2>1 DEF Allocated, WellFormed
<1>5. UNCHANGED <<config, lu, am>> => Configured'  BY <1>1 DEF Configured, WellFormed
<1> QED  BY <1>2, <1>3, <1>4, <1>5

-----------------------------------------------------------------------------
(* One lemma per action: a well-formed state stays well formed.            *)
-----------------------------------------------------------------------------
(* The process and the database.                                           *)

(* The bytes pending and in flight in a period are a number.               *)
LEMMA PendingNat ==
  ASSUME TypeOK, NEW p \in Periods  PROVE Pending(p) \in Nat /\ InFlight(p) \in Nat
<1>1. states # Nil => heap[states] \in States
  BY SMTT(30), BoundsAssumption DEF TypeOK, TypeMem, Ids, Nil
<1>2. Pending(p) \in Nat  BY <1>1 DEF Pending, States
<1>3. InFlight(p) \in Nat  BY DEF TypeOK, TypeFl, InFlight
<1> QED  BY <1>2, <1>3

(* The process ends: every part but the database is initial again.         *)
LEMMA StopWF ==
  ASSUME WellFormed, Stop, UNCHANGED now
  PROVE  /\ TypeMem' /\ TypeAd' /\ TypeFl' /\ TypeLu' /\ TypeRs' /\ TypeAm' /\ TypeRt'
         /\ Locks' /\ Configured' /\ Off' /\ Allocated' /\ Keyed'
         /\ discarded' \in [Periods -> Nat] /\ leaked' \in SUBSET Periods
<1> USE DEF Keys, Refs
<1>1. TypeMem'
  <2>1. heap' \in [Ids -> States]
    <3>1. Fresh \in States  BY DEF Fresh, States
    <3>2. heap' = [s \in Ids |-> Fresh]  BY DEF Stop
    <3> QED  BY <3>1, <3>2
  <2>2. run' = "down" /\ config' = 0 /\ nStates' = 0 /\ states' = 0 /\ dirty' = FALSE
        /\ persist' = Nobody
    BY DEF Stop, Nil, NoConfig
  <2>3. now' \in Periods  BY DEF TypeMem, WellFormed, TypeOK
  <2>4. nStates' \in 0..MaxObjects /\ states' \in 0..nStates'  BY SMTT(30), <2>2, BoundsAssumption
  <2> QED  BY <2>1, <2>2, <2>3, <2>4 DEF TypeMem, NoConfig
<1>2. TypeAd'
  BY DEF Stop, AdIdle, TypeAd
<1>3. TypeFl' /\ TypeLu' /\ TypeRs'
  BY DEF Stop, FlIdle, LuIdle, RsIdle, TypeFl, TypeLu, TypeRs, NoKey
<1>4. TypeAm' /\ TypeRt'
  BY DEF Stop, AmIdle, RtIdle, Fresh, TypeAm, TypeRt, States, NoConfig
<1>5. Locks' /\ Configured'
  BY HoldersAssumption DEF Stop, FlIdle, LuIdle, RsIdle, AmIdle, RtIdle, Locks, Configured,
      AdminHolds, RestorerHolds
<1>6. Off'
  BY DEF Stop, Off
<1>7. Allocated' /\ Keyed'
  BY SMTT(30) DEF Stop, AdIdle, LuIdle, RsIdle, AmIdle, RtIdle, Fresh, Allocated, Keyed, Nil
<1>8. leaked' \in SUBSET Periods
  BY DEF TypeDb, Stop, WellFormed, TypeOK
<1>9. discarded' \in [Periods -> Nat]
  <2>1. \A p \in Periods : discarded[p] + Pending(p) + InFlight(p) \in Nat
    <3>1. discarded \in [Periods -> Nat]  BY DEF TypeDb, WellFormed, TypeOK
    <3> QED  BY SMTT(30), <3>1, PendingNat DEF WellFormed
  <2>2. discarded' = [p \in Periods |-> discarded[p] + Pending(p) + InFlight(p)]
    BY DEF Stop
  <2> QED  BY <2>1, <2>2
<1> QED  BY <1>1, <1>2, <1>3, <1>4, <1>5, <1>6, <1>7, <1>8, <1>9

(* NewService and Start load the persisted usage.                          *)
LEMMA StartWF ==
  ASSUME WellFormed, Start  PROVE WellFormed'
<1>1. run = "down" /\ UNCHANGED <<now, dirty, persist, dbVars, ad, fl, lu, rs, am, rt,
                                 bytes, ops, snaps, stops, peer, histVars>>
      /\ nStates' = states' /\ run' = "up"
  BY DEF Start
<1>2. PICK q \in Quotas \cup {NoConfig}, n \in {0, db[now]} :
        /\ fails' \in {fails, fails + 1} /\ config' = q
        /\ states' = IF q = NoConfig THEN Nil ELSE 1
        /\ heap' = IF q = NoConfig THEN heap
                   ELSE [heap EXCEPT ![1] = [usage |-> n, pending |-> 0,
                                             exceeded |-> n > q, key |-> now]]
  BY DEF Start
<1>3. n \in Nat /\ q \in Nat /\ 1 \in Ids /\ now \in Periods /\ heap \in [Ids -> States]
  BY SMTT(30), QuotasAssumption, BoundsAssumption DEF TypeDb, TypeMem, WellFormed, TypeOK, Ids,
      NoConfig
<1>4. /\ heap' \in [Ids -> States]
      /\ \A t \in Ids : heap'[t].pending = 0
      /\ \A t \in Ids : t > nStates' => heap'[t] = Fresh
  <2>1. heap = [t \in Ids |-> Fresh]  BY <1>1 DEF Off, WellFormed
  <2>2. CASE q = NoConfig
    <3>1. heap' = [t \in Ids |-> Fresh]  BY <1>2, <2>1, <2>2
    <3>2. Fresh.pending = 0  BY DEF Fresh
    <3> QED  BY <1>3, <2>1, <3>1, <3>2
  <2>3. CASE q # NoConfig
    <3> DEFINE new == [usage |-> n, pending |-> 0, exceeded |-> n > q, key |-> now]
    <3>1. heap' = [heap EXCEPT ![1] = new] /\ nStates' = 1  BY <1>1, <1>2, <2>3
    <3>2. (n > q) \in BOOLEAN  BY SMTT(30)
    <3>3. new \in States /\ new.pending = 0  BY SMTT(30), <1>3 DEF States, Keys
    <3>4. Fresh.pending = 0  BY DEF Fresh
    <3> HIDE DEF new
    <3>5. heap' \in [Ids -> States]  BY <1>3, <3>1, <3>3
    <3>6. \A t \in Ids : heap'[t] = IF t = 1 THEN new ELSE Fresh
      BY <2>1, <3>1
    <3> QED  BY SMTT(30), <3>1, <3>3, <3>4, <3>5, <3>6
  <2> QED  BY <2>2, <2>3
<1>5. TypeMem'
  <2>1. config' \in Quotas \cup {NoConfig} /\ states' \in {0, 1}  BY <1>2 DEF Nil
  <2> QED  BY SMTT(30), <1>1, <1>4, <2>1, BoundsAssumption DEF TypeMem, WellFormed, TypeOK
<1>6. TypeDb' /\ PanicsOnlyInReset'
  BY <1>1, Frames DEF WellFormed, TypeOK, histVars
<1>7. TypeCounters'
  BY SMTT(30), <1>1, <1>2 DEF TypeCounters, WellFormed, TypeOK, histVars
<1>8. TypeAd' /\ TypeFl' /\ TypeLu' /\ TypeRs' /\ TypeAm' /\ TypeRt' /\ Locks'
  BY <1>1, Frames DEF WellFormed, TypeOK, histVars
<1>9. Configured'
  BY <1>1 DEF Configured, Off, WellFormed
<1>10. Off'
  BY <1>1 DEF Off
<1>11. Allocated'
  <2>1. nStates = 0 /\ nStates' \in Nat  BY <1>1, <1>2 DEF Off, WellFormed, Nil
  <2>2. /\ lu.state <= nStates' /\ rs.state <= nStates' /\ am.state <= nStates'
        /\ rt.state <= nStates' /\ \A a \in Adders : ad[a].state <= nStates'
    BY SMTT(30), <1>1, <2>1 DEF Off, AdIdle, LuIdle, RsIdle, AmIdle, RtIdle, WellFormed, Nil
  <2> QED  BY <1>1, <1>4, <2>2 DEF Allocated
<1>12. Keyed'
  BY SMTT(30), <1>1, <1>4 DEF Keyed, Off, RtIdle, WellFormed
<1> QED  BY <1>5, <1>6, <1>7, <1>8, <1>9, <1>10, <1>11, <1>12 DEF WellFormed, TypeOK

(* A crash.                                                                *)
LEMMA CrashWF ==
  ASSUME WellFormed, Crash  PROVE WellFormed'
<1>1. Stop /\ UNCHANGED <<now, dbVars, bytes, ops, snaps, fails, peer, counted, twice,
                          restored, panics>>
      /\ stops' = stops + 1
  BY DEF Crash
<1>2. TypeDb'
  BY <1>1, StopWF DEF TypeDb, WellFormed, TypeOK, dbVars
<1>3. TypeCounters' /\ PanicsOnlyInReset'
  BY SMTT(30), <1>1 DEF TypeCounters, PanicsOnlyInReset, WellFormed, TypeOK
<1> QED  BY <1>1, <1>2, <1>3, StopWF DEF WellFormed, TypeOK

(* Close cancels the context.                                              *)
LEMMA CloseWF ==
  ASSUME WellFormed, Close  PROVE WellFormed'
<1>1. TypeDb' /\ TypeAd' /\ TypeFl' /\ TypeLu' /\ TypeRs' /\ TypeAm' /\ TypeRt'
    /\ Locks' /\ Configured' /\ Allocated' /\ Keyed' /\ PanicsOnlyInReset'
  BY Frames DEF Close, WellFormed, TypeOK, memVars, histVars
<1>2. TypeMem'  BY DEF Close, TypeMem, WellFormed, TypeOK, memVars
<1>3. TypeCounters'  BY SMTT(30) DEF Close, TypeCounters, WellFormed, TypeOK, histVars
<1>4. Off'  BY OffFrame DEF Close
<1> QED  BY <1>1, <1>2, <1>3, <1>4 DEF WellFormed, TypeOK

(* Close starts the last flush.                                            *)
LEMMA CloseFlushWF ==
  ASSUME WellFormed, CloseFlush  PROVE WellFormed'
<1>1. TypeDb' /\ TypeCounters' /\ TypeAd' /\ TypeLu' /\ TypeRs' /\ TypeAm' /\ TypeRt'
    /\ Configured' /\ Allocated' /\ Keyed' /\ PanicsOnlyInReset'
  BY Frames DEF CloseFlush, WellFormed, TypeOK, memVars, histVars
<1>2. TypeMem'  BY DEF CloseFlush, TypeMem, WellFormed, TypeOK, memVars
<1>3. TypeFl'  BY DEF CloseFlush, TypeFl, WellFormed, TypeOK
<1>4. Locks'  BY SMTT(30), HoldersAssumption DEF CloseFlush, Locks, WellFormed
<1>5. Off'  BY OffFrame DEF CloseFlush
<1> QED  BY <1>1, <1>2, <1>3, <1>4, <1>5 DEF WellFormed, TypeOK

(* The clock moves on.                                                     *)
LEMMA TickWF ==
  ASSUME WellFormed, Tick  PROVE WellFormed'
<1> USE DEF Tick
<1>1. TypeDb' /\ TypeCounters' /\ TypeAd' /\ TypeFl' /\ TypeLu' /\ TypeRs' /\ TypeAm'
      /\ TypeRt' /\ Locks' /\ Configured' /\ Allocated' /\ Keyed' /\ PanicsOnlyInReset'
  BY Frames DEF WellFormed, TypeOK, memVars, histVars
<1>2. TypeMem'
  BY SMTT(30), BoundsAssumption DEF TypeMem, Periods, WellFormed, TypeOK, memVars
<1>3. Off'
  BY DEF Off, WellFormed, memVars
<1> QED  BY <1>1, <1>2, <1>3 DEF WellFormed, TypeOK

(* Another instance writes to the database.                                *)
LEMMA PeerIncrWF ==
  ASSUME WellFormed, PeerIncr  PROVE WellFormed'
<1>1. TypeMem' /\ TypeAd' /\ TypeFl' /\ TypeLu' /\ TypeRs' /\ TypeAm' /\ TypeRt'
      /\ Locks' /\ Configured' /\ Allocated' /\ Keyed' /\ PanicsOnlyInReset'
  BY Frames DEF PeerIncr, WellFormed, TypeOK, memVars
<1>2. TypeDb'
  <2>1. now \in Periods /\ 1 \in Nat  BY DEF TypeMem, WellFormed, TypeOK
  <2>2. rows' \subseteq Periods /\ db' \in [Periods -> Nat]
    BY <2>1, IncrByTypes DEF PeerIncr, WellFormed, TypeOK
  <2>3. counted' \in [Periods -> Nat]  BY AddTo DEF PeerIncr, TypeDb, WellFormed, TypeOK
  <2> QED  BY <2>1, <2>2, <2>3 DEF PeerIncr, TypeDb, WellFormed, TypeOK
<1>3. TypeCounters'
  BY SMTT(30) DEF PeerIncr, TypeCounters, WellFormed, TypeOK
<1>4. Off'
  BY DEF PeerIncr, Off, WellFormed, memVars
<1> QED  BY <1>1, <1>2, <1>3, <1>4 DEF WellFormed, TypeOK

-----------------------------------------------------------------------------
(* AddBytes.                                                               *)

(* AddBytes reads the config.                                              *)
LEMMA AddBytesWF ==
  ASSUME WellFormed, NEW a \in Adders, AddBytes(a)  PROVE WellFormed'
<1>1. TypeMem' /\ TypeDb' /\ TypeFl' /\ TypeLu' /\ TypeRs' /\ TypeAm' /\ TypeRt'
    /\ Locks' /\ Configured' /\ Keyed' /\ PanicsOnlyInReset'
  BY Frames DEF AddBytes, WellFormed, TypeOK, memVars, histVars
<1>2. TypeCounters'  BY SMTT(30) DEF AddBytes, TypeCounters, WellFormed, TypeOK, histVars
<1>3. TypeAd'
  <2>1. config \in Nat  BY SMTT(30), QuotasAssumption DEF TypeMem, WellFormed, TypeOK, NoConfig
  <2>2. ad' = [ad EXCEPT ![a].pc = "state", ![a].quota = config]  BY DEF AddBytes
  <2> QED  BY <2>1, <2>2 DEF TypeAd, WellFormed, TypeOK
<1>4. Off'  BY OffFrame DEF AddBytes, Up
<1>5. Allocated'  BY DEF AddBytes, Allocated, TypeAd, WellFormed, TypeOK, memVars
<1> QED  BY <1>1, <1>2, <1>3, <1>4, <1>5 DEF WellFormed, TypeOK

(* AddBytes calls stateFor.                                                *)
LEMMA AddStateWF ==
  ASSUME WellFormed, NEW a \in Adders, AddState(a)  PROVE WellFormed'
<1>1. PICK s \in Ids : /\ StateFor(s)
                       /\ ad' = [ad EXCEPT ![a].pc = "count", ![a].state = s]
  BY DEF AddState
<1>2. /\ s <= nStates' /\ nStates <= nStates' /\ nStates' \in 0..MaxObjects
      /\ states' \in 0..nStates'
  BY <1>1, StateForFacts DEF WellFormed, TypeOK
<1>3. TypeDb' /\ TypeCounters' /\ TypeFl' /\ TypeLu' /\ TypeRs' /\ TypeAm' /\ TypeRt'
    /\ Locks' /\ Configured' /\ Keyed' /\ PanicsOnlyInReset'
  BY Frames DEF AddState, WellFormed, TypeOK, histVars
<1>4. TypeMem'
  BY <1>2 DEF AddState, TypeMem, WellFormed, TypeOK
<1>5. TypeAd'
  <2>1. TypeAd /\ s \in Refs
    BY DEF WellFormed, TypeOK, Refs
  <2>2. ad' = [ad EXCEPT ![a].pc = "count", ![a].state = s]
    BY <1>1
  <2>3. ad' \in [Adders -> [pc : {"idle", "state", "count", "dirty", "trip"},
                           quota : Nat, state : Refs, total : Nat]]
    BY <2>1, <2>2 DEF TypeAd
  <2>4. \A b \in Adders : ad'[b].pc \in {"count", "dirty", "trip"} => ad'[b].state \in Ids
    BY SMTT(30), <2>1, <2>2 DEF TypeAd
  <2> QED  BY <2>3, <2>4 DEF TypeAd
<1>6. Off'  BY OffBusy DEF AddState, WellFormed
<1>7. Allocated'
  <2>1. UNCHANGED <<heap, lu, rs, am, rt>>  BY DEF AddState
  <2>2. \A b \in Adders : ad'[b].state = IF b = a THEN s ELSE ad[b].state
    BY <1>1 DEF TypeAd, WellFormed, TypeOK
  <2> QED  BY SMTT(30), <1>2, <2>1, <2>2, AllocatedGrows DEF WellFormed
<1> QED  BY <1>3, <1>4, <1>5, <1>6, <1>7 DEF WellFormed, TypeOK

(* AddBytes finds neither a key nor a config.                              *)
LEMMA AddDropWF ==
  ASSUME WellFormed, NEW a \in Adders, AddDrop(a)  PROVE WellFormed'
<1>1. TypeMem' /\ TypeDb' /\ TypeCounters' /\ TypeFl' /\ TypeLu' /\ TypeRs' /\ TypeAm'
    /\ TypeRt' /\ Locks' /\ Configured' /\ Keyed' /\ PanicsOnlyInReset'
  BY Frames DEF AddDrop, WellFormed, TypeOK, memVars, histVars
<1>2. TypeAd'  BY DEF AddDrop, AdIdle, TypeAd, Refs, WellFormed, TypeOK
<1>3. Off'  BY OffBusy DEF AddDrop, WellFormed
<1>4. Allocated'
  BY SMTT(30) DEF AddDrop, AdIdle, Allocated, TypeMem, WellFormed, TypeOK, Nil, memVars
<1> QED  BY <1>1, <1>2, <1>3, <1>4 DEF WellFormed, TypeOK

(* AddBytes' critical section: a state that gets bytes gets a key.         *)
LEMMA AddCountWF ==
  ASSUME WellFormed, NEW a \in Adders, AddCount(a)  PROVE WellFormed'
<1> DEFINE s == ad[a].state
           k == KeyOf(s)
<1>1. ad[a].pc = "count" /\ s \in Ids /\ k \in Periods
  BY DEF AddCount, KeyOf, TypeMem, TypeAd, States, Keys, WellFormed, TypeOK
<1>2. /\ heap' \in [Ids -> States]
      /\ heap'[s].key = k /\ \A t \in Ids \ {s} : heap'[t] = heap[t]
  <2>1. heap' = [heap EXCEPT ![s].key = k, ![s].usage = @ + 1, ![s].pending = @ + 1]
    BY DEF AddCount
  <2>2. k \in Keys /\ heap \in [Ids -> States]  BY <1>1 DEF Keys, TypeMem, WellFormed, TypeOK
  <2> HIDE DEF s, k
  <2> QED  BY <1>1, <2>1, <2>2, CountUpdate
<1>3. TypeCounters' /\ TypeFl' /\ TypeLu' /\ TypeRs' /\ TypeAm' /\ TypeRt' /\ Locks'
      /\ Configured' /\ PanicsOnlyInReset'
  BY Frames DEF AddCount, WellFormed, TypeOK
<1>4. TypeMem'
  BY <1>2 DEF AddCount, TypeMem, WellFormed, TypeOK
<1>5. TypeDb'
  <2>1. /\ counted' = [counted EXCEPT ![k] = @ + 1]
        /\ discarded' = [discarded EXCEPT ![k] = IF s = states THEN @ ELSE @ + 1]
        /\ UNCHANGED <<dbVars, twice, leaked>>
    BY DEF AddCount
  <2> HIDE DEF s, k
  <2>2. counted' \in [Periods -> Nat]
    BY <2>1, AddTo DEF TypeDb, WellFormed, TypeOK
  <2>3. discarded' \in [Periods -> Nat]
    <3>1. discarded \in [Periods -> Nat]  BY DEF TypeDb, WellFormed, TypeOK
    <3> QED  BY SMTT(30), <1>1, <2>1, <3>1
  <2> QED  BY <2>1, <2>2, <2>3 DEF TypeDb, WellFormed, TypeOK, dbVars
<1>6. TypeAd'
  <2>1. ad' = [ad EXCEPT ![a].pc = "dirty", ![a].total = heap[s].usage + 1]
    BY DEF AddCount
  <2>2. heap[s].usage + 1 \in Nat  BY SMTT(30), <1>1 DEF TypeMem, States, WellFormed, TypeOK
  <2> QED
    BY <1>1, <2>1, <2>2 DEF TypeAd, WellFormed, TypeOK
<1>7. Off'  BY OffBusy DEF AddCount, WellFormed
<1>8. Allocated'
  <2>1. UNCHANGED <<nStates, lu, rs, am, rt>> /\ s <= nStates
    BY DEF AddCount, Allocated, WellFormed, TypeOK
  <2>2. \A b \in Adders : ad'[b].state = ad[b].state  BY DEF AddCount, TypeAd, WellFormed, TypeOK
  <2>3. \A t \in Ids : t > nStates => heap'[t] = heap[t]
    BY SMTT(30), <1>2, <2>1 DEF TypeMem, WellFormed, TypeOK, Ids
  <2> HIDE DEF s, k
  <2> QED  BY <2>1, <2>2, <2>3 DEF Allocated, WellFormed
<1>9. Keyed'
  <2>1. UNCHANGED rt  BY DEF AddCount
  <2> HIDE DEF s, k
  <2> QED  BY SMTT(30), <1>1, <1>2, <2>1 DEF Keyed, TypeRt, WellFormed, TypeOK, Periods, NoKey
<1> QED  BY <1>3, <1>4, <1>5, <1>6, <1>7, <1>8, <1>9 DEF WellFormed, TypeOK

(* AddBytes calls markDirty.                                               *)
LEMMA AddDirtyWF ==
  ASSUME WellFormed, NEW a \in Adders, AddDirty(a)  PROVE WellFormed'
<1>1. TypeDb' /\ TypeCounters' /\ TypeFl' /\ TypeLu' /\ TypeRs' /\ TypeAm' /\ TypeRt'
    /\ Locks' /\ Configured' /\ Keyed' /\ PanicsOnlyInReset'
  BY Frames DEF AddDirty, WellFormed, TypeOK, histVars
<1>2. TypeMem'  BY DEF AddDirty, TypeMem, WellFormed, TypeOK
<1>3. TypeAd'  BY DEF AddDirty, AdIdle, TypeAd, Refs, WellFormed, TypeOK
<1>4. Off'  BY OffBusy DEF AddDirty, WellFormed
<1>5. Allocated'  BY SMTT(30) DEF AddDirty, AdIdle, Allocated, TypeMem, WellFormed, TypeOK, Nil
<1> QED  BY <1>1, <1>2, <1>3, <1>4, <1>5 DEF WellFormed, TypeOK

(* AddBytes calls tripExceeded.                                            *)
LEMMA AddTripWF ==
  ASSUME WellFormed, NEW a \in Adders, AddTrip(a)  PROVE WellFormed'
<1>1. TypeDb' /\ TypeCounters' /\ TypeFl' /\ TypeLu' /\ TypeRs' /\ TypeAm' /\ TypeRt'
    /\ Locks' /\ Configured' /\ PanicsOnlyInReset'
  BY Frames DEF AddTrip, WellFormed, TypeOK, histVars
<1>2. TypeMem'
  <2>1. heap \in [Ids -> States] /\ ad[a].state \in Ids
    BY DEF AddTrip, TypeMem, TypeAd, WellFormed, TypeOK
  <2>2. heap' \in [Ids -> States]  BY <2>1, FlagUpdate DEF AddTrip
  <2> QED  BY <2>2 DEF AddTrip, TypeMem, WellFormed, TypeOK
<1>3. TypeAd'  BY DEF AddTrip, AdIdle, TypeAd, Refs, WellFormed, TypeOK
<1>4. Off'  BY OffBusy DEF AddTrip, WellFormed
<1>5. Allocated'  BY SMTT(30) DEF AddTrip, AdIdle, Allocated, TypeMem, WellFormed, TypeOK, Ids, Nil
<1>6. Keyed'  BY SMTT(30) DEF AddTrip, Keyed, WellFormed
<1> QED  BY <1>1, <1>2, <1>3, <1>4, <1>5, <1>6 DEF WellFormed, TypeOK

-----------------------------------------------------------------------------
(* LoadUsage.                                                              *)

(* stateFor and setPeriodKeyIfEmpty: the map's state has a key.            *)
LEMMA KeyedState ==
  ASSUME WellFormed, NEW s \in Ids, StateFor(s), SetKeyIfEmpty(s)
  PROVE  /\ nStates' \in 0..MaxObjects /\ states' \in 0..nStates'
         /\ s <= nStates' /\ nStates <= nStates'
         /\ heap' \in [Ids -> States] /\ KeyOf(s) \in Periods /\ heap'[s].key = KeyOf(s)
         /\ \A t \in Ids : heap'[t].pending = heap[t].pending
                           /\ heap'[t].usage = heap[t].usage
         /\ \A t \in Ids \ {s} : heap'[t] = heap[t]
<1>1. /\ nStates' \in 0..MaxObjects /\ states' \in 0..nStates'
      /\ s <= nStates' /\ nStates <= nStates'
  BY StateForFacts DEF WellFormed, TypeOK
<1>2. KeyOf(s) \in Periods /\ KeyOf(s) \in Keys /\ heap \in [Ids -> States]
  BY DEF WellFormed, TypeOK, TypeMem, KeyOf, States, Keys
<1>3. heap' = [heap EXCEPT ![s].key = KeyOf(s)]
  BY DEF SetKeyIfEmpty
<1>4. /\ heap' \in [Ids -> States] /\ heap'[s].key = KeyOf(s)
      /\ \A t \in Ids : /\ heap'[t].usage = heap[t].usage
                        /\ heap'[t].pending = heap[t].pending
      /\ \A t \in Ids \ {s} : heap'[t] = heap[t]
  BY <1>2, <1>3, KeyUpdate
<1> QED  BY <1>1, <1>2, <1>4

(* What such a step needs for Allocated and Keyed.                         *)
LEMMA KeyedStateWF ==
  ASSUME WellFormed, NEW s \in Ids, StateFor(s), SetKeyIfEmpty(s)
  PROVE  /\ UNCHANGED rt => Keyed'
         /\ \A t \in Ids : t > nStates' => heap'[t] = Fresh
<1>1. UNCHANGED rt => Keyed'
  <2>1. /\ heap'[s].key \in Periods
        /\ \A t \in Ids : heap'[t].pending = heap[t].pending
        /\ \A t \in Ids \ {s} : heap'[t] = heap[t]
    BY KeyedState
  <2>2. rt.pc = "save" => rt.state \in Ids  BY DEF TypeRt, WellFormed, TypeOK
  <2> QED  BY SMTT(30), <2>1, <2>2 DEF Keyed, WellFormed, Periods, NoKey
<1>2. ASSUME NEW t \in Ids, t > nStates'  PROVE heap'[t] = Fresh
  <2>1. t # s /\ t > nStates /\ heap'[t] = heap[t]
    BY SMTT(30), <1>2, StatesNat, KeyedState DEF WellFormed, Ids
  <2> QED  BY <2>1 DEF Allocated, WellFormed
<1> QED  BY <1>1, <1>2

(* LoadUsage reads the config.                                             *)
LEMMA LuConfigWF ==
  ASSUME WellFormed, LuConfig  PROVE WellFormed'
<1>1. TypeMem' /\ TypeDb' /\ TypeCounters' /\ TypeAd' /\ TypeFl' /\ TypeRs' /\ TypeAm'
    /\ TypeRt' /\ Keyed' /\ PanicsOnlyInReset'
  BY Frames DEF LuConfig, WellFormed, TypeOK, memVars, histVars
<1>2. TypeLu'
  BY QuotasAssumption DEF LuConfig, LuIdle, TypeLu, Refs, TypeMem, WellFormed, TypeOK
<1>3. Locks'  BY DEF LuConfig, Locks, WellFormed, histVars
<1>4. Configured'  BY DEF LuConfig, LuIdle, Configured, WellFormed, memVars
<1>5. Off'  BY OffBusy DEF LuConfig, WellFormed
<1>6. Allocated'
  BY SMTT(30) DEF LuConfig, LuIdle, Allocated, TypeMem, WellFormed, TypeOK, Nil, memVars
<1> QED  BY <1>1, <1>2, <1>3, <1>4, <1>5, <1>6 DEF WellFormed, TypeOK

(* LoadUsage calls stateFor and mustPeriodKey: the config is there.        *)
LEMMA LuStateWF ==
  ASSUME WellFormed, LuState  PROVE WellFormed'
<1>1. lu.pc = "state" /\ config # NoConfig
  BY DEF LuState, Configured, WellFormed
<1>2. PICK s \in Ids : /\ StateFor(s) /\ SetKeyIfEmpty(s)
                       /\ lu' = [lu EXCEPT !.pc = "store", !.state = s]
  BY <1>1 DEF LuState, Panic
<1>3. UNCHANGED <<run, now, config, dirty, persist, dbVars, ad, fl, rs, am, rt, boundVars,
                  histVars>>
  BY <1>1 DEF LuState, Panic
<1>4. TypeDb' /\ TypeCounters' /\ TypeAd' /\ TypeFl' /\ TypeRs' /\ TypeAm' /\ TypeRt'
      /\ PanicsOnlyInReset'
  BY <1>3, Frames DEF WellFormed, TypeOK, histVars
<1>5. TypeMem'
  BY <1>2, <1>3, KeyedState DEF TypeMem, WellFormed, TypeOK
<1>6. TypeLu'
  BY <1>2 DEF TypeLu, Refs, WellFormed, TypeOK
<1>7. lu'.pc = "store" /\ lu'.state = s
  BY SMTT(30), <1>2
<1>8. Locks' /\ Configured'
  BY <1>1, <1>3 DEF Locks, Configured, WellFormed, histVars
<1>9. Off'
  BY <1>1, <1>3 DEF Off, WellFormed
<1>10. Allocated'
  <2>1. /\ s <= nStates' /\ nStates <= nStates' /\ nStates' \in 0..MaxObjects
        /\ \A t \in Ids : t > nStates' => heap'[t] = Fresh
    BY <1>2, KeyedState, KeyedStateWF
  <2>2. /\ nStates \in Nat /\ lu.state \in Nat /\ rs.state \in Nat /\ am.state \in Nat
        /\ rt.state \in Nat /\ \A a \in Adders : ad[a].state \in Nat
    BY StatesNat DEF WellFormed
  <2> QED  BY SMTT(30), <1>3, <1>7, <2>1, <2>2 DEF Allocated, WellFormed
<1>11. Keyed'
  BY <1>2, <1>3, KeyedStateWF
<1> QED  BY <1>4, <1>5, <1>6, <1>8, <1>9, <1>10, <1>11 DEF WellFormed, TypeOK

(* LoadUsage stores the usage it was given.                                *)
LEMMA LuStoreWF ==
  ASSUME WellFormed, LuStore  PROVE WellFormed'
<1>1. TypeDb' /\ TypeCounters' /\ TypeAd' /\ TypeFl' /\ TypeRs' /\ TypeAm' /\ TypeRt'
    /\ PanicsOnlyInReset'
  BY Frames DEF LuStore, WellFormed, TypeOK, histVars
<1>2. TypeMem'
  <2>1. lu.state \in Ids /\ heap \in [Ids -> States] /\ lu.val \in Nat
    BY DEF LuStore, TypeLu, TypeMem, WellFormed, TypeOK
  <2>2. heap' \in [Ids -> States]  BY <2>1, UsageUpdate DEF LuStore
  <2> QED  BY <2>2 DEF LuStore, TypeMem, WellFormed, TypeOK
<1>3. TypeLu'  BY DEF LuStore, TypeLu, WellFormed, TypeOK
<1>4. Locks'  BY DEF LuStore, Locks, WellFormed, histVars
<1>5. Configured'  BY SMTT(30) DEF LuStore, Configured, WellFormed
<1>6. Off'  BY OffBusy DEF LuStore, WellFormed
<1>7. Allocated'  BY SMTT(30) DEF LuStore, Allocated, TypeMem, WellFormed, TypeOK, Ids
<1>8. Keyed'  BY SMTT(30) DEF LuStore, Keyed, WellFormed
<1> QED  BY <1>1, <1>2, <1>3, <1>4, <1>5, <1>6, <1>7, <1>8 DEF WellFormed, TypeOK

(* LoadUsage trips or clears.                                              *)
LEMMA LuDecideWF ==
  ASSUME WellFormed, LuDecide  PROVE WellFormed'
<1>1. TypeDb' /\ TypeCounters' /\ TypeAd' /\ TypeFl' /\ TypeRs' /\ TypeAm' /\ TypeRt'
    /\ PanicsOnlyInReset'
  BY Frames DEF LuDecide, WellFormed, TypeOK, histVars
<1>2. TypeMem'
  <2> DEFINE over == lu.val > lu.quota
  <2>1. lu.state \in Ids /\ heap \in [Ids -> States] /\ over \in BOOLEAN
    BY SMTT(30) DEF LuDecide, TypeLu, TypeMem, WellFormed, TypeOK
  <2>2. heap' = [heap EXCEPT ![lu.state].exceeded = over]  BY DEF LuDecide
  <2> HIDE DEF over
  <2>3. heap' \in [Ids -> States]  BY <2>1, <2>2, FlagUpdate
  <2> QED  BY <2>3 DEF LuDecide, TypeMem, WellFormed, TypeOK
<1>3. TypeLu'  BY DEF LuDecide, LuIdle, TypeLu, Refs
<1>4. Locks'  BY DEF LuDecide, Locks, WellFormed, histVars
<1>5. Configured'  BY DEF LuDecide, LuIdle, Configured, WellFormed
<1>6. Off'  BY OffBusy DEF LuDecide, WellFormed
<1>7. Allocated'  BY SMTT(30) DEF LuDecide, LuIdle, Allocated, TypeMem, WellFormed, TypeOK, Ids, Nil
<1>8. Keyed'  BY SMTT(30) DEF LuDecide, Keyed, WellFormed
<1> QED  BY <1>1, <1>2, <1>3, <1>4, <1>5, <1>6, <1>7, <1>8 DEF WellFormed, TypeOK

-----------------------------------------------------------------------------
(* flushPending.                                                           *)

(* flushPending takes persistAccess.                                       *)
LEMMA FlushLockWF ==
  ASSUME WellFormed, FlushLock  PROVE WellFormed'
<1>1. TypeDb' /\ TypeCounters' /\ TypeAd' /\ TypeLu' /\ TypeRs' /\ TypeAm' /\ TypeRt'
    /\ Configured' /\ Allocated' /\ Keyed' /\ PanicsOnlyInReset'
  BY Frames DEF FlushLock, WellFormed, TypeOK, memVars, histVars
<1>2. TypeMem'  BY DEF FlushLock, TypeMem, WellFormed, TypeOK, memVars
<1>3. TypeFl'  BY DEF FlushLock, TypeFl, WellFormed, TypeOK
<1>4. Locks'  BY SMTT(30), HoldersAssumption DEF FlushLock, Locks, WellFormed
<1>5. Off'  BY OffFrame DEF FlushLock
<1> QED  BY <1>1, <1>2, <1>3, <1>4, <1>5 DEF WellFormed, TypeOK

(* ConsumePendingDeltas takes the dirty queue.                             *)
LEMMA FlushDrainWF ==
  ASSUME WellFormed, FlushDrain  PROVE WellFormed'
<1>1. TypeDb' /\ TypeCounters' /\ TypeAd' /\ TypeLu' /\ TypeRs' /\ TypeAm' /\ TypeRt'
    /\ Configured' /\ Allocated' /\ Keyed' /\ PanicsOnlyInReset'
  BY Frames DEF FlushDrain, WellFormed, TypeOK, histVars
<1>2. TypeMem'  BY DEF FlushDrain, TypeMem, WellFormed, TypeOK
<1>3. TypeFl'  BY DEF FlushDrain, TypeFl, WellFormed, TypeOK
<1>4. Locks'  BY SMTT(30) DEF FlushDrain, Locks, WellFormed, histVars
<1>5. Off'  BY OffBusy DEF FlushDrain, WellFormed
<1> QED  BY <1>1, <1>2, <1>3, <1>4, <1>5 DEF WellFormed, TypeOK

(* ConsumePendingDeltas takes the delta: it has a period.                  *)
LEMMA FlushConsumeWF ==
  ASSUME WellFormed, FlushConsume  PROVE WellFormed'
<1>1. fl.pc = "consume" /\ rt.pc \notin RestorerHolds
  BY HoldersAssumption DEF FlushConsume, Locks, WellFormed
<1>2. /\ heap' \in [Ids -> States]
      /\ \A t \in Ids : /\ heap'[t].key = heap[t].key
                        /\ heap'[t].pending > 0 => heap[t].pending > 0
  <2>1. CASE states = Nil  BY <2>1 DEF FlushConsume, TypeMem, WellFormed, TypeOK
  <2>2. CASE states # Nil
    <3>1. states \in Ids /\ heap \in [Ids -> States] /\ 0 \in Nat
      BY SMTT(30), <2>2, BoundsAssumption DEF TypeMem, WellFormed, TypeOK, Ids, Nil
    <3>2. heap' = [heap EXCEPT ![states].pending = 0]  BY <2>2 DEF FlushConsume
    <3>3. /\ heap' \in [Ids -> States] /\ heap'[states].pending = 0
          /\ \A t \in Ids : heap'[t].key = heap[t].key
          /\ \A t \in Ids \ {states} : heap'[t] = heap[t]
      BY <3>1, <3>2, PendingUpdate
    <3> QED  BY SMTT(30), <3>3
  <2> QED  BY <2>1, <2>2
<1>3. TypeDb' /\ TypeCounters' /\ TypeAd' /\ TypeLu' /\ TypeRs' /\ TypeAm' /\ TypeRt'
    /\ Configured' /\ PanicsOnlyInReset'
  BY Frames DEF FlushConsume, WellFormed, TypeOK, histVars
<1>4. TypeMem'
  BY <1>2 DEF FlushConsume, TypeMem, WellFormed, TypeOK
<1>5. TypeFl'
  <2>1. CASE states = Nil \/ heap[states].pending = 0
    <3>1. fl' = [fl EXCEPT !.pc = "unlock"]  BY <2>1 DEF FlushConsume
    <3> QED  BY <3>1 DEF TypeFl, WellFormed, TypeOK
  <2>2. CASE states # Nil /\ heap[states].pending # 0
    <3>1. fl' = [pc |-> "filter", key |-> heap[states].key, delta |-> heap[states].pending]
      BY <2>2 DEF FlushConsume
    <3>2. heap[states] \in States /\ states \in Ids
      BY SMTT(30), <2>2, BoundsAssumption DEF TypeMem, WellFormed, TypeOK, Ids, Nil
    <3>3. heap[states].pending > 0  BY SMTT(30), <2>2, <3>2 DEF States
    <3>4. heap[states].key \in Periods
      BY <1>1, <3>2, <3>3 DEF Keyed, RestorerHolds, States, Keys, WellFormed
    <3> QED  BY <3>1, <3>2, <3>4 DEF TypeFl, States
  <2> QED  BY <2>1, <2>2
<1>6. Locks'  BY SMTT(30) DEF FlushConsume, Locks, TypeFl, WellFormed, TypeOK, histVars
<1>7. Off'  BY OffBusy DEF FlushConsume, WellFormed
<1>8. Allocated'  BY SMTT(30) DEF FlushConsume, Allocated, TypeMem, WellFormed, TypeOK
<1>9. Keyed'
  <2>1. UNCHANGED rt /\ rt.pc \notin {"flag", "key", "save"}
    BY <1>1 DEF FlushConsume, RestorerHolds
  <2> QED  BY <1>2, <2>1 DEF Keyed, WellFormed
<1> QED  BY <1>3, <1>4, <1>5, <1>6, <1>7, <1>8, <1>9 DEF WellFormed, TypeOK

(* flushPending drops the delta of a removed user.                         *)
LEMMA FlushFilterWF ==
  ASSUME WellFormed, FlushFilter  PROVE WellFormed'
<1>1. TypeMem' /\ TypeCounters' /\ TypeAd' /\ TypeLu' /\ TypeRs' /\ TypeAm' /\ TypeRt'
    /\ Configured' /\ Allocated' /\ Keyed' /\ PanicsOnlyInReset'
  BY Frames DEF FlushFilter, WellFormed, TypeOK, memVars
<1>2. TypeDb'
  <2>1. fl.key \in Periods /\ fl.delta \in Nat  BY DEF FlushFilter, TypeFl, WellFormed, TypeOK
  <2>2. DropDelta \/ UNCHANGED discarded  BY DEF FlushFilter
  <2>3. discarded' \in [Periods -> Nat]
    BY <2>1, <2>2, DropDeltaTypes DEF TypeDb, WellFormed, TypeOK
  <2> QED  BY <2>3 DEF FlushFilter, TypeDb, WellFormed, TypeOK, dbVars
<1>3. TypeFl'  BY SMTT(30) DEF FlushFilter, FlIdle, TypeFl, Keys, WellFormed, TypeOK
<1>4. Locks'  BY DEF FlushFilter, FlIdle, Locks, TypeFl, WellFormed, TypeOK
<1>5. Off'  BY OffBusy DEF FlushFilter, WellFormed
<1> QED  BY <1>1, <1>2, <1>3, <1>4, <1>5 DEF WellFormed, TypeOK

(* flushPending calls IncrBy.                                              *)
LEMMA FlushIncrWF ==
  ASSUME WellFormed, FlushIncr  PROVE WellFormed'
<1>1. TypeMem' /\ TypeAd' /\ TypeLu' /\ TypeRs' /\ TypeAm' /\ TypeRt' /\ Configured'
    /\ Allocated' /\ Keyed' /\ PanicsOnlyInReset'
  BY Frames DEF FlushIncr, WellFormed, TypeOK, memVars
<1>2. TypeDb'
  <2>1. fl.key \in Periods /\ fl.delta \in Nat  BY DEF FlushIncr, TypeFl, WellFormed, TypeOK
  <2>2. IncrBy(fl.key, fl.delta) \/ UNCHANGED dbVars  BY DEF FlushIncr
  <2>3. rows' \subseteq Periods /\ db' \in [Periods -> Nat]
    BY <2>1, <2>2, IncrByTypes DEF TypeDb, WellFormed, TypeOK, dbVars
  <2>4. twice' = twice \/ twice' = [twice EXCEPT ![fl.key] = @ + fl.delta]
    BY DEF FlushIncr
  <2>5. twice' \in [Periods -> Nat]
    <3>1. CASE twice' = twice  BY <3>1 DEF TypeDb, WellFormed, TypeOK
    <3>2. CASE twice' = [twice EXCEPT ![fl.key] = @ + fl.delta]
      BY <2>1, <3>2, AddTo DEF TypeDb, WellFormed, TypeOK
    <3> QED  BY <2>4, <3>1, <3>2
  <2> QED  BY <2>3, <2>5 DEF FlushIncr, TypeDb, WellFormed, TypeOK
<1>3. TypeCounters'
  BY SMTT(30) DEF FlushIncr, CallSucceeds, CallFails, TypeCounters, WellFormed, TypeOK
<1>4. TypeFl'  BY DEF FlushIncr, TypeFl, WellFormed, TypeOK
<1>5. Locks'  BY DEF FlushIncr, Locks, TypeFl, WellFormed, TypeOK
<1>6. Off'  BY OffFrame DEF FlushIncr, CallSucceeds, CallFails
<1> QED  BY <1>1, <1>2, <1>3, <1>4, <1>5, <1>6 DEF WellFormed, TypeOK

(* RestorePendingDelta.                                                    *)
LEMMA FlushRestoreWF ==
  ASSUME WellFormed, FlushRestore  PROVE WellFormed'
<1>1. fl.key \in Periods /\ fl.delta \in Nat /\ fl.pc = "restore"
  BY DEF FlushRestore, TypeFl, WellFormed, TypeOK
<1>2. nStates' \in 0..MaxObjects /\ states' \in 0..nStates' /\ nStates <= nStates'
  <2>1. UNCHANGED <<states, nStates>> \/ \E s \in Ids : StateFor(s)  BY DEF FlushRestore
  <2>2. CASE UNCHANGED <<states, nStates>>  BY SMTT(30), <2>2 DEF TypeMem, WellFormed, TypeOK
  <2>3. CASE \E s \in Ids : StateFor(s)  BY <2>3, StateForFacts DEF WellFormed, TypeOK
  <2> QED  BY <2>1, <2>2, <2>3
<1>3. /\ heap' \in [Ids -> States]
      /\ \A t \in Ids : heap'[t].key = heap[t].key
      /\ \A t \in Ids : heap'[t] # heap[t] => heap[t].key # NoKey /\ t <= nStates
  <2>1. heap \in [Ids -> States]  BY DEF TypeMem, WellFormed, TypeOK
  <2>2. CASE UNCHANGED heap  BY <2>1, <2>2
  <2>3. CASE heap' # heap
    <3>1. PICK s \in Ids : heap[s].key = fl.key
                           /\ heap' = [heap EXCEPT ![s].pending = @ + fl.delta]
      BY <2>3 DEF FlushRestore
    <3>2. heap[s].pending + fl.delta \in Nat  BY SMTT(30), <1>1, <2>1 DEF States
    <3>3. /\ heap' \in [Ids -> States]
          /\ \A t \in Ids : heap'[t].key = heap[t].key
          /\ \A t \in Ids \ {s} : heap'[t] = heap[t]
      BY <2>1, <3>1, <3>2, PendingUpdate
    <3>4. heap[s].key # NoKey  BY SMTT(30), <1>1, <3>1 DEF Periods, NoKey
    <3>5. s <= nStates  BY SMTT(30), <3>4 DEF Allocated, Fresh, TypeMem, WellFormed, TypeOK, Ids
    <3> QED  BY <3>3, <3>4, <3>5
  <2> QED  BY <2>2, <2>3
<1>4. TypeCounters' /\ TypeAd' /\ TypeLu' /\ TypeRs' /\ TypeAm' /\ TypeRt'
    /\ Configured' /\ PanicsOnlyInReset'
  BY Frames DEF FlushRestore, WellFormed, TypeOK
<1>5. TypeMem'
  BY <1>2, <1>3 DEF FlushRestore, TypeMem, WellFormed, TypeOK
<1>6. TypeDb'
  <2>1. DropDelta \/ UNCHANGED discarded  BY DEF FlushRestore
  <2>2. discarded' \in [Periods -> Nat]
    BY <1>1, <2>1, DropDeltaTypes DEF TypeDb, WellFormed, TypeOK
  <2> QED  BY <2>2 DEF FlushRestore, TypeDb, WellFormed, TypeOK, dbVars
<1>7. TypeFl'
  <2>1. fl' = [pc |-> "unlock", key |-> NoKey, delta |-> 0]
        \/ fl' = [pc |-> "redirty", key |-> NoKey, delta |-> 0]
    BY DEF FlushRestore, FlIdle
  <2> QED  BY SMTT(30), <2>1 DEF TypeFl, Keys
<1>8. Locks'  BY DEF FlushRestore, FlIdle, Locks, WellFormed
<1>9. Off'  BY OffBusy DEF FlushRestore, WellFormed
<1>10. Allocated'
  <2>1. UNCHANGED <<ad, lu, rs, am, rt>>  BY DEF FlushRestore
  <2>2. \A t \in Ids : t > nStates' => heap'[t] = heap[t]
    BY SMTT(30), <1>2, <1>3, StatesNat DEF WellFormed, Ids
  <2> QED  BY SMTT(30), <1>2, <2>1, <2>2, AllocatedGrows DEF WellFormed
<1>11. Keyed'
  <2>1. UNCHANGED rt /\ rt.pc \notin RestorerHolds
    BY HoldersAssumption DEF FlushRestore, Locks, WellFormed
  <2> QED  BY <1>3, <2>1 DEF Keyed, RestorerHolds, WellFormed
<1> QED  BY <1>4, <1>5, <1>6, <1>7, <1>8, <1>9, <1>10, <1>11 DEF WellFormed, TypeOK

(* RestorePendingDelta calls markDirty.                                    *)
LEMMA FlushRedirtyWF ==
  ASSUME WellFormed, FlushRedirty  PROVE WellFormed'
<1>1. TypeDb' /\ TypeCounters' /\ TypeAd' /\ TypeLu' /\ TypeRs' /\ TypeAm' /\ TypeRt'
    /\ Configured' /\ Allocated' /\ Keyed' /\ PanicsOnlyInReset'
  BY Frames DEF FlushRedirty, WellFormed, TypeOK, histVars
<1>2. TypeMem'  BY DEF FlushRedirty, TypeMem, WellFormed, TypeOK
<1>3. TypeFl'  BY DEF FlushRedirty, TypeFl, WellFormed, TypeOK
<1>4. Locks'  BY SMTT(30) DEF FlushRedirty, Locks, WellFormed, histVars
<1>5. Off'  BY OffBusy DEF FlushRedirty, WellFormed
<1> QED  BY <1>1, <1>2, <1>3, <1>4, <1>5 DEF WellFormed, TypeOK

(* flushPending calls LoadMany.                                            *)
LEMMA FlushReloadWF ==
  ASSUME WellFormed, FlushReload  PROVE WellFormed'
<1>1. lu' = lu \/ \E n \in Nat : lu' = [LuIdle EXCEPT !.pc = "config", !.val = n]
  <2>1. fl.key \in Periods  BY DEF FlushReload, TypeFl, WellFormed, TypeOK
  <2>2. db[fl.key] \in Nat  BY <2>1 DEF TypeDb, WellFormed, TypeOK
  <2> QED  BY <2>2 DEF FlushReload, LoadUsage
<1>2. TypeMem' /\ TypeDb' /\ TypeAd' /\ TypeRs' /\ TypeAm' /\ TypeRt' /\ Keyed'
    /\ PanicsOnlyInReset'
  BY Frames DEF FlushReload, WellFormed, TypeOK, memVars, histVars
<1>3. TypeCounters'
  BY SMTT(30) DEF FlushReload, CallSucceeds, CallFails, TypeCounters, WellFormed, TypeOK, histVars
<1>4. TypeFl'  BY SMTT(30) DEF FlushReload, FlIdle, TypeFl, Keys
<1>5. TypeLu'
  <2>1. CASE lu' = lu  BY <2>1 DEF TypeLu, WellFormed, TypeOK
  <2>2. ASSUME NEW n \in Nat, lu' = [LuIdle EXCEPT !.pc = "config", !.val = n]
        PROVE  TypeLu'
    <3>1. lu' = [pc |-> "config", quota |-> 0, state |-> 0, val |-> n]
      BY <2>2 DEF LuIdle, Nil
    <3> QED  BY <3>1 DEF TypeLu, Refs, Nil
  <2> QED  BY <1>1, <2>1, <2>2
<1>6. Locks'  BY DEF FlushReload, FlIdle, Locks, WellFormed, histVars
<1>7. Configured'  BY DEF FlushReload, LoadUsage, LuIdle, Configured, WellFormed, memVars
<1>8. Off'  BY OffFrame DEF FlushReload, CallSucceeds, CallFails
<1>9. Allocated'
  <2>1. UNCHANGED <<nStates, heap, ad, rs, am, rt>>  BY DEF FlushReload, memVars
  <2>2. lu'.state \in {lu.state, 0}  BY <1>1 DEF LuIdle, Nil
  <2> QED  BY SMTT(30), <2>1, <2>2 DEF Allocated, TypeMem, WellFormed, TypeOK
<1> QED  BY <1>2, <1>3, <1>4, <1>5, <1>6, <1>7, <1>8, <1>9 DEF WellFormed, TypeOK

(* FlushPending releases persistAccess; the last one ends the process.     *)
LEMMA FlushUnlockWF ==
  ASSUME WellFormed, FlushUnlock  PROVE WellFormed'
<1>1. CASE run = "final"
  <2>1. Stop /\ UNCHANGED <<now, dbVars, boundVars, counted, twice, restored, panics>>
    BY <1>1 DEF FlushUnlock
  <2>2. TypeDb'
    BY <2>1, StopWF DEF TypeDb, WellFormed, TypeOK, dbVars
  <2>3. TypeCounters' /\ PanicsOnlyInReset'
    BY <2>1, Frames DEF WellFormed, TypeOK
  <2> QED  BY <2>1, <2>2, <2>3, StopWF DEF WellFormed, TypeOK
<1>2. CASE run # "final"
  <2>1. /\ fl.pc \in {"unlock", "loading"} /\ lu.pc = "idle"
        /\ persist' = Nobody /\ fl' = FlIdle
        /\ UNCHANGED <<run, now, memVars, dbVars, ad, lu, rs, am, rt, boundVars, histVars>>
    BY <1>2, HoldersAssumption DEF FlushUnlock, Locks, AdminHolds, WellFormed, histVars
  <2>2. TypeDb' /\ TypeCounters' /\ TypeAd' /\ TypeLu' /\ TypeRs' /\ TypeAm' /\ TypeRt'
        /\ Configured' /\ Allocated' /\ Keyed' /\ PanicsOnlyInReset'
    BY <2>1, Frames DEF WellFormed, TypeOK, memVars, histVars
  <2>3. TypeMem'
    BY <2>1 DEF TypeMem, WellFormed, TypeOK, memVars
  <2>4. TypeFl'
    BY <2>1 DEF TypeFl, FlIdle, Keys
  <2>5. Locks'
    BY <2>1, HoldersAssumption DEF Locks, FlIdle, WellFormed
  <2>6. Off'
    BY SMTT(30), <2>1 DEF Off, FlIdle, WellFormed
  <2> QED  BY <2>2, <2>3, <2>4, <2>5, <2>6 DEF WellFormed, TypeOK
<1> QED  BY <1>1, <1>2

-----------------------------------------------------------------------------
(* handlePeriodResets and CheckPeriodReset.                                *)

(* CheckPeriodReset panics.                                                *)
LEMMA PanicWF ==
  ASSUME WellFormed, Panic("CheckPeriodReset")  PROVE WellFormed'
<1>1. Stop /\ UNCHANGED <<now, dbVars, boundVars, counted, twice, restored>>
      /\ panics' = panics \cup {"CheckPeriodReset"}
  BY DEF Panic
<1>2. TypeDb'
  BY <1>1, StopWF DEF TypeDb, WellFormed, TypeOK, dbVars
<1>3. TypeCounters' /\ PanicsOnlyInReset'
  BY <1>1 DEF TypeCounters, PanicsOnlyInReset, WellFormed, TypeOK, boundVars
<1> QED  BY <1>1, <1>2, <1>3, StopWF DEF WellFormed, TypeOK

(* handlePeriodResets starts.                                              *)
LEMMA ResetStartWF ==
  ASSUME WellFormed, ResetStart  PROVE WellFormed'
<1>1. TypeMem' /\ TypeDb' /\ TypeCounters' /\ TypeAd' /\ TypeFl' /\ TypeLu' /\ TypeAm'
    /\ TypeRt' /\ Configured' /\ Keyed' /\ PanicsOnlyInReset'
  BY Frames DEF ResetStart, WellFormed, TypeOK, memVars, histVars
<1>2. TypeRs'  BY DEF ResetStart, TypeRs, Keys, TypeMem, WellFormed, TypeOK
<1>3. Locks'  BY SMTT(30) DEF ResetStart, Locks, WellFormed, histVars
<1>4. Off'  BY OffFrame DEF ResetStart
<1>5. Allocated'  BY SMTT(30) DEF ResetStart, Allocated, WellFormed, memVars
<1> QED  BY <1>1, <1>2, <1>3, <1>4, <1>5 DEF WellFormed, TypeOK

(* CheckPeriodReset loads the state.                                       *)
LEMMA ResetLoadWF ==
  ASSUME WellFormed, ResetLoad  PROVE WellFormed'
<1>1. TypeMem' /\ TypeDb' /\ TypeCounters' /\ TypeAd' /\ TypeFl' /\ TypeLu' /\ TypeAm'
    /\ TypeRt' /\ Configured' /\ Keyed' /\ PanicsOnlyInReset'
  BY Frames DEF ResetLoad, WellFormed, TypeOK, memVars, histVars
<1>2. TypeRs'
  <2>1. CASE states = Nil
    <3>1. rs' = RsIdle  BY <2>1 DEF ResetLoad
    <3> QED  BY <3>1 DEF TypeRs, RsIdle, Refs, Keys, NoKey
  <2>2. CASE states # Nil
    <3>1. rs' = [rs EXCEPT !.pc = "key", !.state = states] /\ rs.pc = "load"
      BY <2>2 DEF ResetLoad
    <3>2. states \in Ids
      BY SMTT(30), <2>2, BoundsAssumption DEF TypeMem, WellFormed, TypeOK, Ids, Nil
    <3> QED  BY <3>1, <3>2 DEF TypeRs, Refs, WellFormed, TypeOK
  <2> QED  BY <2>1, <2>2
<1>3. Locks'  BY SMTT(30) DEF ResetLoad, RsIdle, Locks, WellFormed, histVars
<1>4. Off'  BY OffBusy DEF ResetLoad, WellFormed
<1>5. Allocated'  BY SMTT(30) DEF ResetLoad, RsIdle, Allocated, TypeMem, WellFormed, TypeOK, memVars
<1> QED  BY <1>1, <1>2, <1>3, <1>4, <1>5 DEF WellFormed, TypeOK

(* CheckPeriodReset calls mustPeriodKey, which may panic.                  *)
LEMMA ResetKeyWF ==
  ASSUME WellFormed, ResetKey  PROVE WellFormed'
<1>1. CASE Panic("CheckPeriodReset")
  BY <1>1, PanicWF
<1>2. CASE /\ rs' = [rs EXCEPT !.pc = "compare"]
           /\ UNCHANGED <<run, now, memVars, persist, dbVars, ad, fl, lu, am, rt,
                           boundVars, histVars>>
  <2>1. rs.pc = "key"  BY DEF ResetKey
  <2>2. TypeMem' /\ TypeDb' /\ TypeCounters' /\ TypeAd' /\ TypeFl' /\ TypeLu' /\ TypeAm'
        /\ TypeRt' /\ Configured' /\ Keyed' /\ PanicsOnlyInReset'
    BY <1>2, Frames DEF WellFormed, TypeOK, memVars, histVars
  <2>3. TypeRs'
    BY <1>2, <2>1 DEF TypeRs, WellFormed, TypeOK
  <2>4. rs'.pc = "compare" /\ rs'.state = rs.state
    BY SMTT(30), <1>2
  <2>5. Locks' /\ Allocated'
    BY SMTT(30), <1>2, <2>1 DEF Locks, Allocated, WellFormed, memVars, histVars
  <2>6. Off'
    BY SMTT(30), <1>2, <2>1 DEF Off, RsIdle, WellFormed
  <2> QED  BY <2>2, <2>3, <2>5, <2>6 DEF WellFormed, TypeOK
<1> QED  BY <1>1, <1>2 DEF ResetKey

(* CheckPeriodReset compares the keys and clears.                          *)
LEMMA ResetCompareWF ==
  ASSUME WellFormed, ResetCompare  PROVE WellFormed'
<1> DEFINE s == rs.state
           prev == heap[s].key
<1>1. rs.pc = "compare" /\ s \in Ids /\ rs.now \in Periods /\ prev \in Keys
      /\ heap \in [Ids -> States]
  BY DEF ResetCompare, TypeRs, TypeMem, States, WellFormed, TypeOK
<1>2. \/ /\ heap' = [heap EXCEPT ![s].key = rs.now]
         /\ rs' = RsIdle /\ UNCHANGED discarded
      \/ /\ prev \in Periods
         /\ heap' = [heap EXCEPT ![s].usage = 0, ![s].pending = 0]
         /\ discarded' = [discarded EXCEPT ![prev] =
                            IF s = states THEN @ + heap[s].pending ELSE @]
         /\ rs' = [rs EXCEPT !.pc = "flag", !.prev = prev]
  BY <1>1 DEF ResetCompare, Keys
<1>3. /\ heap' \in [Ids -> States]
      /\ \A t \in Ids \ {s} : heap'[t] = heap[t]
      /\ heap'[s].pending > 0 => heap'[s].key # NoKey
      /\ heap[s].key # NoKey => heap'[s].key # NoKey
  <2>1. CASE heap' = [heap EXCEPT ![s].key = rs.now]
    <3>1. rs.now \in Keys  BY <1>1 DEF Keys
    <3> HIDE DEF s, prev
    <3>2. /\ heap' \in [Ids -> States] /\ heap'[s].key = rs.now
          /\ \A t \in Ids \ {s} : heap'[t] = heap[t]
      BY <1>1, <2>1, <3>1, KeyUpdate
    <3> QED  BY SMTT(30), <1>1, <3>2 DEF Periods, NoKey
  <2>2. CASE heap' = [heap EXCEPT ![s].usage = 0, ![s].pending = 0]
    <3> HIDE DEF s, prev
    <3>2. /\ heap' \in [Ids -> States] /\ heap'[s].pending = 0
          /\ heap'[s].key = heap[s].key
          /\ \A t \in Ids \ {s} : heap'[t] = heap[t]
      BY <1>1, <2>2, ClearUpdate
    <3> QED  BY SMTT(30), <3>2
  <2> QED  BY <1>2, <2>1, <2>2
<1>4. TypeCounters' /\ TypeAd' /\ TypeFl' /\ TypeLu' /\ TypeAm' /\ TypeRt'
    /\ Configured' /\ PanicsOnlyInReset'
  BY Frames DEF ResetCompare, WellFormed, TypeOK
<1>5. TypeMem'
  BY <1>3 DEF ResetCompare, TypeMem, WellFormed, TypeOK
<1>6. TypeDb'
  <2>1. discarded' \in [Periods -> Nat]
    <3>1. CASE UNCHANGED discarded  BY <3>1 DEF TypeDb, WellFormed, TypeOK
    <3>2. CASE prev \in Periods
               /\ discarded' = [discarded EXCEPT ![prev] =
                                  IF s = states THEN @ + heap[s].pending ELSE @]
      <4>1. heap[s].pending \in Nat /\ discarded \in [Periods -> Nat]
        BY <1>1 DEF States, TypeDb, WellFormed, TypeOK
      <4> HIDE DEF s, prev
      <4> QED  BY SMTT(30), <3>2, <4>1
    <3> QED  BY <1>2, <3>1, <3>2
  <2> QED  BY <2>1 DEF ResetCompare, TypeDb, WellFormed, TypeOK, dbVars
<1>7. TypeRs'
  <2> HIDE DEF s, prev
  <2>1. CASE rs' = RsIdle  BY <2>1 DEF TypeRs, RsIdle, Refs, Keys, NoKey
  <2>2. CASE prev \in Periods /\ rs' = [rs EXCEPT !.pc = "flag", !.prev = prev]
    BY <1>1, <2>2 DEF TypeRs, WellFormed, TypeOK
  <2> QED  BY <1>2, <2>1, <2>2
<1>8. Locks'
  <2>1. UNCHANGED <<persist, fl, lu, am, rt, restored>>  BY DEF ResetCompare
  <2>2. rs'.pc \in {"idle", "flag"}
    <3> HIDE DEF s, prev
    <3>1. CASE rs' = RsIdle  BY <3>1 DEF RsIdle
    <3>2. CASE rs' = [rs EXCEPT !.pc = "flag", !.prev = prev]  BY SMTT(30), <3>2
    <3> QED  BY <1>2, <3>1, <3>2
  <2> HIDE <1>2
  <2> QED  BY <1>1, <2>1, <2>2 DEF Locks, WellFormed
<1>9. Off'  BY OffBusy DEF ResetCompare, WellFormed
<1>10. Allocated'
  <2>1. UNCHANGED <<nStates, ad, lu, am, rt>>  BY DEF ResetCompare
  <2>2. s <= nStates /\ rs.state <= nStates /\ 0 <= nStates
    <3>1. s <= nStates  BY DEF Allocated, WellFormed
    <3> QED  BY SMTT(30), <3>1, StatesNat DEF WellFormed
  <2>3. rs'.state \in {rs.state, 0}
    <3> HIDE DEF s, prev
    <3>1. CASE rs' = RsIdle  BY <3>1 DEF RsIdle, Nil
    <3>2. CASE rs' = [rs EXCEPT !.pc = "flag", !.prev = prev]  BY SMTT(30), <3>2
    <3> QED  BY <1>2, <3>1, <3>2
  <2> HIDE DEF s, prev
  <2>4. rs'.state <= nStates  BY <2>2, <2>3
  <2>5. \A t \in Ids : t > nStates => heap'[t] = heap[t]
    BY SMTT(30), <1>3, <2>2, StatesNat DEF WellFormed, Ids
  <2> QED  BY <2>1, <2>4, <2>5 DEF Allocated, WellFormed
<1>11. Keyed'
  <2>1. UNCHANGED rt  BY DEF ResetCompare
  <2> HIDE DEF s, prev
  <2> QED  BY <1>3, <2>1 DEF Keyed, TypeRt, WellFormed, TypeOK
<1> QED  BY <1>4, <1>5, <1>6, <1>7, <1>8, <1>9, <1>10, <1>11 DEF WellFormed, TypeOK

(* CheckPeriodReset clears the flag and sets the key.                      *)
LEMMA ResetFlagWF ==
  ASSUME WellFormed, ResetFlag  PROVE WellFormed'
<1>1. rs.pc = "flag" /\ rs.state \in Ids /\ rs.now \in Periods
  BY DEF ResetFlag, TypeRs, WellFormed, TypeOK
<1>2. /\ heap' \in [Ids -> States] /\ heap'[rs.state].key = rs.now
      /\ \A t \in Ids : heap'[t].pending = heap[t].pending
      /\ \A t \in Ids \ {rs.state} : heap'[t] = heap[t]
  <2>1. rs.now \in Keys /\ heap \in [Ids -> States]  BY <1>1 DEF Keys, TypeMem, WellFormed, TypeOK
  <2>2. heap' = [heap EXCEPT ![rs.state].exceeded = FALSE, ![rs.state].key = rs.now]
    BY DEF ResetFlag
  <2> QED  BY <1>1, <2>1, <2>2, MoveUpdate
<1>3. TypeDb' /\ TypeCounters' /\ TypeAd' /\ TypeFl' /\ TypeLu' /\ TypeAm' /\ TypeRt'
    /\ Configured' /\ PanicsOnlyInReset'
  BY Frames DEF ResetFlag, WellFormed, TypeOK, histVars
<1>4. TypeMem'
  BY <1>2 DEF ResetFlag, TypeMem, WellFormed, TypeOK
<1>5. TypeRs'  BY DEF ResetFlag, TypeRs, WellFormed, TypeOK
<1>6. Locks'  BY SMTT(30) DEF ResetFlag, Locks, WellFormed, histVars
<1>7. Off'  BY OffBusy DEF ResetFlag, WellFormed
<1>8. Allocated'
  <2>1. UNCHANGED <<nStates, ad, lu, am, rt>>  BY DEF ResetFlag
  <2>2. rs'.state = rs.state  BY SMTT(30) DEF ResetFlag
  <2> QED  BY SMTT(30), <1>2, <2>1, <2>2, StatesNat DEF Allocated, WellFormed
<1>9. Keyed'
  <2>1. UNCHANGED rt  BY DEF ResetFlag
  <2> QED  BY SMTT(30), <1>1, <1>2, <2>1 DEF Keyed, TypeRt, WellFormed, TypeOK, Periods, NoKey
<1> QED  BY <1>3, <1>4, <1>5, <1>6, <1>7, <1>8, <1>9 DEF WellFormed, TypeOK

(* handlePeriodResets takes persistAccess.                                 *)
LEMMA ResetLockWF ==
  ASSUME WellFormed, ResetLock  PROVE WellFormed'
<1>1. TypeDb' /\ TypeCounters' /\ TypeAd' /\ TypeFl' /\ TypeLu' /\ TypeAm' /\ TypeRt'
    /\ Configured' /\ Keyed' /\ PanicsOnlyInReset'
  BY Frames DEF ResetLock, WellFormed, TypeOK, memVars, histVars
<1>2. TypeMem'  BY DEF ResetLock, TypeMem, WellFormed, TypeOK, memVars
<1>3. TypeRs'  BY DEF ResetLock, TypeRs, WellFormed, TypeOK
<1>4. Locks'  BY SMTT(30), HoldersAssumption DEF ResetLock, Locks, WellFormed
<1>5. Off'  BY OffBusy DEF ResetLock, WellFormed
<1>6. Allocated'  BY SMTT(30) DEF ResetLock, Allocated, WellFormed, memVars
<1> QED  BY <1>1, <1>2, <1>3, <1>4, <1>5, <1>6 DEF WellFormed, TypeOK

(* handlePeriodResets deletes the old row.                                 *)
LEMMA ResetDeleteWF ==
  ASSUME WellFormed, ResetDelete  PROVE WellFormed'
<1>1. TypeAd' /\ TypeFl' /\ TypeLu' /\ TypeAm' /\ TypeRt' /\ Configured' /\ Keyed'
    /\ PanicsOnlyInReset'
  BY Frames DEF ResetDelete, WellFormed, TypeOK, memVars
<1>2. TypeMem'  BY DEF ResetDelete, TypeMem, WellFormed, TypeOK, memVars
<1>3. TypeDb'
  <2>1. rs.prev \in Periods  BY DEF ResetDelete, TypeRs, WellFormed, TypeOK
  <2>2. \/ DeleteRow(rs.prev) /\ UNCHANGED leaked
        \/ leaked' = leaked \cup {rs.prev} /\ UNCHANGED <<dbVars, discarded>>
    BY DEF ResetDelete
  <2>3. /\ rows' \subseteq Periods /\ db' \in [Periods -> Nat]
        /\ discarded' \in [Periods -> Nat] /\ leaked' \subseteq Periods
    BY <2>1, <2>2, DeleteRowTypes DEF TypeDb, WellFormed, TypeOK, dbVars
  <2> QED  BY <2>3 DEF ResetDelete, TypeDb, WellFormed, TypeOK
<1>4. TypeCounters'
  BY SMTT(30) DEF ResetDelete, CallSucceeds, CallFails, TypeCounters, WellFormed, TypeOK
<1>5. TypeRs'  BY DEF ResetDelete, RsIdle, TypeRs, Refs, Keys, NoKey
<1>6. Locks'  BY HoldersAssumption DEF ResetDelete, RsIdle, Locks, WellFormed
<1>7. Off'  BY OffFrame DEF ResetDelete, CallSucceeds, CallFails
<1>8. Allocated'
  BY SMTT(30) DEF ResetDelete, RsIdle, Allocated, TypeMem, WellFormed, TypeOK, Nil, memVars
<1> QED  BY <1>1, <1>2, <1>3, <1>4, <1>5, <1>6, <1>7, <1>8 DEF WellFormed, TypeOK

-----------------------------------------------------------------------------
(* ApplyConfig and RemoveConfig.                                           *)

(* ApplyConfig stores the config.                                          *)
LEMMA ApplyConfigWF ==
  ASSUME WellFormed, ApplyConfig  PROVE WellFormed'
<1>1. TypeDb' /\ TypeAd' /\ TypeFl' /\ TypeLu' /\ TypeRs' /\ TypeRt' /\ Keyed'
    /\ PanicsOnlyInReset'
  BY Frames DEF ApplyConfig, WellFormed, TypeOK, histVars
<1>2. TypeMem'  BY DEF ApplyConfig, TypeMem, WellFormed, TypeOK
<1>3. TypeCounters'  BY SMTT(30) DEF ApplyConfig, TypeCounters, WellFormed, TypeOK, histVars
<1>4. TypeAm'
  <2> DEFINE new == config = NoConfig
  <2>1. PICK q \in Quotas : am' = [am EXCEPT !.pc = "state", !.isNew = new, !.quota = q]
    BY DEF ApplyConfig
  <2>2. q \in Nat /\ new \in BOOLEAN  BY QuotasAssumption
  <2> HIDE DEF new
  <2> QED  BY <2>1, <2>2 DEF TypeAm, WellFormed, TypeOK
<1>5. Locks'  BY SMTT(30) DEF ApplyConfig, Locks, AdminHolds, WellFormed, histVars
<1>6. Configured'  BY QuotasAssumption DEF ApplyConfig, Configured, WellFormed, NoConfig
<1>7. Off'  BY OffFrame DEF ApplyConfig, Up
<1>8. Allocated'  BY SMTT(30) DEF ApplyConfig, Allocated, WellFormed
<1> QED  BY <1>1, <1>2, <1>3, <1>4, <1>5, <1>6, <1>7, <1>8 DEF WellFormed, TypeOK

(* ApplyConfig calls stateFor and mustPeriodKey: the config is there.      *)
LEMMA ApplyStateWF ==
  ASSUME WellFormed, ApplyState  PROVE WellFormed'
<1>1. am.pc = "state" /\ config # NoConfig
  BY DEF ApplyState, Configured, WellFormed
<1>2. PICK s \in Ids : /\ StateFor(s) /\ SetKeyIfEmpty(s)
                       /\ am' = [am EXCEPT !.pc = "read", !.state = s]
  BY <1>1 DEF ApplyState, Panic
<1>3. UNCHANGED <<run, now, config, dirty, persist, dbVars, ad, fl, lu, rs, rt, boundVars,
                  histVars>>
  BY <1>1 DEF ApplyState, Panic
<1>4. TypeDb' /\ TypeCounters' /\ TypeAd' /\ TypeFl' /\ TypeLu' /\ TypeRs' /\ TypeRt'
      /\ PanicsOnlyInReset'
  BY <1>3, Frames DEF WellFormed, TypeOK, histVars
<1>5. TypeMem'
  BY <1>2, <1>3, KeyedState DEF TypeMem, WellFormed, TypeOK
<1>6. TypeAm'
  BY <1>2 DEF TypeAm, Refs, WellFormed, TypeOK
<1>7. am'.pc = "read" /\ am'.state = s
  BY SMTT(30), <1>2
<1>8. Locks' /\ Configured'
  BY <1>1, <1>3, <1>7 DEF Locks, Configured, AdminHolds, WellFormed, histVars
<1>9. Off'
  BY <1>1, <1>3 DEF Off, WellFormed
<1>10. Allocated'
  <2>1. /\ s <= nStates' /\ nStates <= nStates' /\ nStates' \in 0..MaxObjects
        /\ \A t \in Ids : t > nStates' => heap'[t] = Fresh
    BY <1>2, KeyedState, KeyedStateWF
  <2>2. /\ nStates \in Nat /\ lu.state \in Nat /\ rs.state \in Nat /\ am.state \in Nat
        /\ rt.state \in Nat /\ \A a \in Adders : ad[a].state \in Nat
    BY StatesNat DEF WellFormed
  <2> QED  BY SMTT(30), <1>3, <1>7, <2>1, <2>2 DEF Allocated, WellFormed
<1>11. Keyed'
  BY <1>2, <1>3, KeyedStateWF
<1> QED  BY <1>4, <1>5, <1>6, <1>8, <1>9, <1>10, <1>11 DEF WellFormed, TypeOK

(* ApplyConfig reads the usage.                                            *)
LEMMA ApplyReadWF ==
  ASSUME WellFormed, ApplyRead  PROVE WellFormed'
<1>1. TypeMem' /\ TypeDb' /\ TypeCounters' /\ TypeAd' /\ TypeFl' /\ TypeLu' /\ TypeRs'
    /\ TypeRt' /\ Keyed' /\ PanicsOnlyInReset'
  BY Frames DEF ApplyRead, WellFormed, TypeOK, memVars, histVars
<1>2. TypeAm'
  <2> DEFINE over == heap[am.state].usage > am.quota
  <2>1. am' = [am EXCEPT !.pc = "decide", !.over = over] /\ am.pc = "read"  BY DEF ApplyRead
  <2>2. over \in BOOLEAN  BY SMTT(30)
  <2> HIDE DEF over
  <2> QED  BY <2>1, <2>2 DEF TypeAm, WellFormed, TypeOK
<1>3. Locks'  BY SMTT(30) DEF ApplyRead, Locks, AdminHolds, WellFormed, histVars
<1>4. Configured'  BY DEF ApplyRead, Configured, WellFormed, memVars
<1>5. Off'  BY OffBusy DEF ApplyRead, WellFormed
<1>6. Allocated'  BY SMTT(30) DEF ApplyRead, Allocated, WellFormed, memVars
<1> QED  BY <1>1, <1>2, <1>3, <1>4, <1>5, <1>6 DEF WellFormed, TypeOK

(* ApplyConfig trips or clears.                                            *)
LEMMA ApplyDecideWF ==
  ASSUME WellFormed, ApplyDecide  PROVE WellFormed'
<1>1. TypeDb' /\ TypeCounters' /\ TypeAd' /\ TypeFl' /\ TypeLu' /\ TypeRs' /\ TypeRt'
    /\ PanicsOnlyInReset'
  BY Frames DEF ApplyDecide, WellFormed, TypeOK, histVars
<1>2. TypeMem'
  <2>1. am.state \in Ids /\ heap \in [Ids -> States] /\ am.over \in BOOLEAN
    BY DEF ApplyDecide, TypeAm, TypeMem, WellFormed, TypeOK
  <2>2. heap' = [heap EXCEPT ![am.state].exceeded = am.over]  BY DEF ApplyDecide
  <2>3. heap' \in [Ids -> States]  BY <2>1, <2>2, FlagUpdate
  <2> QED  BY <2>3 DEF ApplyDecide, TypeMem, WellFormed, TypeOK
<1>3. TypeAm'  BY DEF ApplyDecide, AmIdle, TypeAm, Refs, Keys
<1>4. Locks'  BY DEF ApplyDecide, AmIdle, Locks, AdminHolds, WellFormed, histVars
<1>5. Configured'  BY DEF ApplyDecide, Configured, WellFormed
<1>6. Off'  BY OffBusy DEF ApplyDecide, WellFormed
<1>7. Allocated'
  BY SMTT(30) DEF ApplyDecide, AmIdle, Allocated, TypeMem, WellFormed, TypeOK, Ids, Nil
<1>8. Keyed'  BY SMTT(30) DEF ApplyDecide, Keyed, WellFormed
<1> QED  BY <1>1, <1>2, <1>3, <1>4, <1>5, <1>6, <1>7, <1>8 DEF WellFormed, TypeOK

(* ApplyConfig takes persistAccess.                                        *)
LEMMA ApplyLockWF ==
  ASSUME WellFormed, ApplyLock  PROVE WellFormed'
<1>1. TypeDb' /\ TypeCounters' /\ TypeAd' /\ TypeFl' /\ TypeLu' /\ TypeRs' /\ TypeRt'
    /\ Keyed' /\ PanicsOnlyInReset'
  BY Frames DEF ApplyLock, WellFormed, TypeOK, memVars, histVars
<1>2. TypeMem'  BY DEF ApplyLock, TypeMem, WellFormed, TypeOK, memVars
<1>3. TypeAm'  BY DEF ApplyLock, TypeAm, WellFormed, TypeOK
<1>4. Locks'  BY SMTT(30), HoldersAssumption DEF ApplyLock, Locks, AdminHolds, WellFormed
<1>5. Configured'  BY DEF ApplyLock, Configured, WellFormed, memVars
<1>6. Off'  BY OffBusy DEF ApplyLock, WellFormed
<1>7. Allocated'  BY SMTT(30) DEF ApplyLock, Allocated, WellFormed, memVars
<1> QED  BY <1>1, <1>2, <1>3, <1>4, <1>5, <1>6, <1>7 DEF WellFormed, TypeOK

(* CurrentPeriodKey under persistAccess: the config is there.              *)
LEMMA CurrentPeriodKeyWF ==
  ASSUME WellFormed, NEW caller,
         NEW next \in {"fetch", "rmRow"}, CurrentPeriodKey(caller, next),
         am.pc \in {"key", "rmKey"}
  PROVE  WellFormed'
<1>1. config # NoConfig
  BY DEF Configured, WellFormed
<1>2. PICK s \in Ids : /\ StateFor(s) /\ SetKeyIfEmpty(s)
                       /\ am' = [am EXCEPT !.pc = next, !.key = KeyOf(s)]
  BY <1>1 DEF CurrentPeriodKey, Panic
<1>3. UNCHANGED <<run, now, config, dirty, persist, dbVars, ad, fl, lu, rs, rt, boundVars,
                  histVars>>
  BY <1>1 DEF CurrentPeriodKey, Panic
<1>4. TypeDb' /\ TypeCounters' /\ TypeAd' /\ TypeFl' /\ TypeLu' /\ TypeRs' /\ TypeRt'
      /\ PanicsOnlyInReset'
  BY <1>3, Frames DEF WellFormed, TypeOK, histVars
<1>5. TypeMem'
  BY <1>2, <1>3, KeyedState DEF TypeMem, WellFormed, TypeOK
<1>6. KeyOf(s) \in Periods
  BY <1>2, KeyedState
<1>7. TypeAm'
  BY <1>2, <1>6 DEF TypeAm, Keys, WellFormed, TypeOK
<1>8. am'.pc = next /\ am'.state = am.state
  BY SMTT(30), <1>2
<1>9. Locks' /\ Configured'
  BY <1>3, <1>8 DEF Locks, Configured, AdminHolds, WellFormed, histVars
<1>10. Off'
  BY <1>1, <1>3 DEF Off, WellFormed
<1>11. Allocated'
  <2>1. /\ s <= nStates' /\ nStates <= nStates' /\ nStates' \in 0..MaxObjects
        /\ \A t \in Ids : t > nStates' => heap'[t] = Fresh
    BY <1>2, KeyedState, KeyedStateWF
  <2>2. /\ nStates \in Nat /\ lu.state \in Nat /\ rs.state \in Nat /\ am.state \in Nat
        /\ rt.state \in Nat /\ \A a \in Adders : ad[a].state \in Nat
    BY StatesNat DEF WellFormed
  <2> QED  BY SMTT(30), <1>3, <1>8, <2>1, <2>2 DEF Allocated, WellFormed
<1>12. Keyed'
  BY <1>2, <1>3, KeyedStateWF
<1> QED  BY <1>4, <1>5, <1>7, <1>9, <1>10, <1>11, <1>12 DEF WellFormed, TypeOK

(* ApplyConfig calls Load.                                                 *)
LEMMA ApplyFetchWF ==
  ASSUME WellFormed, ApplyFetch  PROVE WellFormed'
<1>1. lu' = lu \/ \E n \in Nat : lu' = [LuIdle EXCEPT !.pc = "config", !.val = n]
  <2>1. am.key \in Periods  BY DEF ApplyFetch, TypeAm, WellFormed, TypeOK
  <2>2. db[am.key] \in Nat  BY <2>1 DEF TypeDb, WellFormed, TypeOK
  <2> QED  BY <2>2 DEF ApplyFetch, LoadUsage
<1>2. am' \in {[AmIdle EXCEPT !.pc = "loading"], [AmIdle EXCEPT !.pc = "unlock"]}
  BY DEF ApplyFetch
<1>3. TypeMem' /\ TypeDb' /\ TypeAd' /\ TypeFl' /\ TypeRs' /\ TypeRt' /\ Keyed'
    /\ PanicsOnlyInReset'
  BY Frames DEF ApplyFetch, WellFormed, TypeOK, memVars, histVars
<1>4. TypeCounters'
  BY SMTT(30) DEF ApplyFetch, CallSucceeds, CallFails, TypeCounters, WellFormed, TypeOK, histVars
<1>5. TypeLu'
  <2>1. CASE lu' = lu  BY <2>1 DEF TypeLu, WellFormed, TypeOK
  <2>2. ASSUME NEW n \in Nat, lu' = [LuIdle EXCEPT !.pc = "config", !.val = n]
        PROVE  TypeLu'
    <3>1. lu' = [pc |-> "config", quota |-> 0, state |-> 0, val |-> n]
      BY <2>2 DEF LuIdle, Nil
    <3> QED  BY <3>1 DEF TypeLu, Refs, Nil
  <2> QED  BY <1>1, <2>1, <2>2
<1>6. TypeAm'
  <2>1. \E pc \in {"loading", "unlock"} :
          am' = [pc |-> pc, isNew |-> FALSE, quota |-> 0, state |-> 0, over |-> FALSE,
                 key |-> 0]
    BY <1>2 DEF AmIdle, Nil, NoKey
  <2> QED  BY SMTT(30), <2>1 DEF TypeAm, Refs, Keys, Nil, NoKey
<1>7. Locks'  BY DEF ApplyFetch, AmIdle, Locks, AdminHolds, WellFormed, histVars
<1>8. Configured'
  BY DEF ApplyFetch, LoadUsage, AmIdle, LuIdle, Configured, WellFormed, memVars
<1>9. Off'  BY OffFrame DEF ApplyFetch, CallSucceeds, CallFails
<1>10. Allocated'
  <2>1. UNCHANGED <<nStates, heap, ad, rs, rt>>  BY DEF ApplyFetch, memVars
  <2>2. lu'.state \in {lu.state, 0} /\ am'.state = 0  BY <1>1, <1>2 DEF LuIdle, AmIdle, Nil
  <2> QED  BY SMTT(30), <2>1, <2>2 DEF Allocated, TypeMem, WellFormed, TypeOK
<1> QED  BY <1>3, <1>4, <1>5, <1>6, <1>7, <1>8, <1>9, <1>10 DEF WellFormed, TypeOK

(* ApplyConfig and RemoveConfig release persistAccess.                     *)
LEMMA AdminUnlockWF ==
  ASSUME WellFormed, AdminUnlock  PROVE WellFormed'
<1>1. TypeDb' /\ TypeCounters' /\ TypeAd' /\ TypeFl' /\ TypeLu' /\ TypeRs' /\ TypeRt'
    /\ Keyed' /\ PanicsOnlyInReset'
  BY Frames DEF AdminUnlock, WellFormed, TypeOK, memVars, histVars
<1>2. TypeMem'  BY DEF AdminUnlock, TypeMem, WellFormed, TypeOK, memVars
<1>3. TypeAm'  BY DEF AdminUnlock, AmIdle, TypeAm, Refs, Keys
<1>4. Locks'  BY HoldersAssumption DEF AdminUnlock, AmIdle, Locks, AdminHolds, WellFormed
<1>5. Configured'  BY DEF AdminUnlock, AmIdle, Configured, WellFormed, memVars
<1>6. Off'  BY OffBusy DEF AdminUnlock, WellFormed
<1>7. Allocated'
  BY SMTT(30) DEF AdminUnlock, AmIdle, Allocated, TypeMem, WellFormed, TypeOK, Nil, memVars
<1> QED  BY <1>1, <1>2, <1>3, <1>4, <1>5, <1>6, <1>7 DEF WellFormed, TypeOK

(* RemoveConfig takes persistAccess.                                       *)
LEMMA RemoveStartWF ==
  ASSUME WellFormed, RemoveStart  PROVE WellFormed'
<1>1. TypeDb' /\ TypeAd' /\ TypeFl' /\ TypeLu' /\ TypeRs' /\ TypeRt' /\ Keyed'
    /\ PanicsOnlyInReset'
  BY Frames DEF RemoveStart, WellFormed, TypeOK, memVars, histVars
<1>2. TypeMem'  BY DEF RemoveStart, TypeMem, WellFormed, TypeOK, memVars
<1>3. TypeCounters'  BY SMTT(30) DEF RemoveStart, TypeCounters, WellFormed, TypeOK, histVars
<1>4. TypeAm'  BY DEF RemoveStart, TypeAm, WellFormed, TypeOK
<1>5. Locks'  BY SMTT(30), HoldersAssumption DEF RemoveStart, Locks, AdminHolds, WellFormed
<1>6. Configured'  BY SMTT(30) DEF RemoveStart, Configured, WellFormed, memVars
<1>7. Off'  BY OffFrame DEF RemoveStart, Up
<1>8. Allocated'  BY SMTT(30) DEF RemoveStart, Allocated, WellFormed, memVars
<1> QED  BY <1>1, <1>2, <1>3, <1>4, <1>5, <1>6, <1>7, <1>8 DEF WellFormed, TypeOK

(* RemoveConfig deletes the row.                                           *)
LEMMA RemoveRowWF ==
  ASSUME WellFormed, RemoveRow  PROVE WellFormed'
<1>1. TypeMem' /\ TypeAd' /\ TypeFl' /\ TypeLu' /\ TypeRs' /\ TypeRt' /\ Keyed'
    /\ PanicsOnlyInReset'
  BY Frames DEF RemoveRow, WellFormed, TypeOK, memVars
<1>2. TypeDb'
  <2>1. am.key \in Periods  BY DEF RemoveRow, TypeAm, WellFormed, TypeOK
  <2>2. DeleteRow(am.key) \/ UNCHANGED <<dbVars, discarded>>  BY DEF RemoveRow
  <2>3. /\ rows' \subseteq Periods /\ db' \in [Periods -> Nat]
        /\ discarded' \in [Periods -> Nat]
    BY <2>1, <2>2, DeleteRowTypes DEF TypeDb, WellFormed, TypeOK, dbVars
  <2> QED  BY <2>3 DEF RemoveRow, TypeDb, WellFormed, TypeOK
<1>3. TypeCounters'
  BY SMTT(30) DEF RemoveRow, CallSucceeds, CallFails, TypeCounters, WellFormed, TypeOK
<1>4. TypeAm'
  <2>1. \E pc \in {"rmConfig", "unlock"} :
          am' = [pc |-> pc, isNew |-> FALSE, quota |-> 0, state |-> 0, over |-> FALSE,
                 key |-> 0]
    BY DEF RemoveRow, AmIdle, Nil, NoKey
  <2> QED  BY SMTT(30), <2>1 DEF TypeAm, Refs, Keys, Nil, NoKey
<1>5. Locks'  BY DEF RemoveRow, AmIdle, Locks, AdminHolds, WellFormed
<1>6. Configured'  BY DEF RemoveRow, AmIdle, Configured, WellFormed, memVars
<1>7. Off'  BY OffFrame DEF RemoveRow, CallSucceeds, CallFails
<1>8. Allocated'
  BY SMTT(30) DEF RemoveRow, AmIdle, Allocated, TypeMem, WellFormed, TypeOK, Nil, memVars
<1> QED  BY <1>1, <1>2, <1>3, <1>4, <1>5, <1>6, <1>7, <1>8 DEF WellFormed, TypeOK

(* RemoveConfig deletes the config: nobody else relies on it.              *)
LEMMA RemoveConfigWF ==
  ASSUME WellFormed, RemoveConfig  PROVE WellFormed'
<1>1. TypeDb' /\ TypeCounters' /\ TypeAd' /\ TypeFl' /\ TypeLu' /\ TypeRs' /\ TypeRt'
    /\ Keyed' /\ PanicsOnlyInReset'
  BY Frames DEF RemoveConfig, WellFormed, TypeOK, histVars
<1>2. TypeMem'  BY DEF RemoveConfig, TypeMem, WellFormed, TypeOK
<1>3. TypeAm'  BY DEF RemoveConfig, TypeAm, WellFormed, TypeOK
<1>4. Locks'  BY SMTT(30) DEF RemoveConfig, Locks, AdminHolds, WellFormed, histVars
<1>5. Configured'
  <2>1. persist = Admin /\ am.pc = "rmConfig"  BY DEF RemoveConfig, Locks, AdminHolds, WellFormed
  <2>2. lu.pc = "idle"  BY <2>1, HoldersAssumption DEF Locks, WellFormed
  <2>3. am'.pc = "rmState" /\ UNCHANGED <<lu, rt>>  BY SMTT(30) DEF RemoveConfig
  <2> QED  BY <2>2, <2>3 DEF Configured, WellFormed
<1>6. Off'  BY OffBusy DEF RemoveConfig, WellFormed
<1>7. Allocated'  BY SMTT(30) DEF RemoveConfig, Allocated, WellFormed
<1> QED  BY <1>1, <1>2, <1>3, <1>4, <1>5, <1>6, <1>7 DEF WellFormed, TypeOK

(* RemoveConfig deletes the state.                                         *)
LEMMA RemoveStateWF ==
  ASSUME WellFormed, RemoveState  PROVE WellFormed'
<1>1. TypeCounters' /\ TypeAd' /\ TypeFl' /\ TypeLu' /\ TypeRs' /\ TypeRt' /\ Keyed'
    /\ PanicsOnlyInReset'
  BY Frames DEF RemoveState, WellFormed, TypeOK
<1>2. TypeMem'  BY SMTT(30) DEF RemoveState, TypeMem, WellFormed, TypeOK, Nil
<1>3. TypeDb'
  <2>1. \A p \in Periods : Pending(p) \in Nat
    BY SMTT(30), BoundsAssumption DEF Pending, TypeMem, States, WellFormed, TypeOK, Ids, Nil
  <2>2. discarded' = [p \in Periods |-> discarded[p] + Pending(p)]  BY DEF RemoveState
  <2>3. \A p \in Periods : discarded[p] + Pending(p) \in Nat
    BY SMTT(30), <2>1 DEF TypeDb, WellFormed, TypeOK
  <2>4. discarded' \in [Periods -> Nat]  BY <2>2, <2>3
  <2> QED  BY <2>4 DEF RemoveState, TypeDb, WellFormed, TypeOK, dbVars
<1>4. TypeAm'  BY DEF RemoveState, TypeAm, WellFormed, TypeOK
<1>5. Locks'  BY SMTT(30) DEF RemoveState, Locks, AdminHolds, WellFormed
<1>6. Configured'  BY SMTT(30) DEF RemoveState, Configured, WellFormed
<1>7. Off'  BY OffBusy DEF RemoveState, WellFormed
<1>8. Allocated'  BY SMTT(30) DEF RemoveState, Allocated, WellFormed
<1> QED  BY <1>1, <1>2, <1>3, <1>4, <1>5, <1>6, <1>7, <1>8 DEF WellFormed, TypeOK

-----------------------------------------------------------------------------
(* SnapshotState and RestoreState.                                         *)

(* SnapshotState reads the usage.                                          *)
LEMMA SnapshotUsageWF ==
  ASSUME WellFormed, SnapshotUsage  PROVE WellFormed'
<1>1. TypeMem' /\ TypeDb' /\ TypeAd' /\ TypeFl' /\ TypeLu' /\ TypeRs' /\ TypeAm'
    /\ PanicsOnlyInReset'
  BY Frames DEF SnapshotUsage, WellFormed, TypeOK, histVars
<1>2. TypeCounters'  BY SMTT(30) DEF SnapshotUsage, TypeCounters, WellFormed, TypeOK, histVars
<1>3. TypeRt'
  <2> DEFINE u == IF states = Nil THEN 0 ELSE heap[states].usage
  <2>1. rt' = [pc |-> IF states = Nil THEN "held" ELSE "fields", quota |-> config,
               state |-> states, snap |-> [Fresh EXCEPT !.usage = u]]
    BY DEF SnapshotUsage
  <2>2. u \in Nat /\ (states # Nil => states \in Ids)
    BY SMTT(30), BoundsAssumption DEF TypeMem, States, WellFormed, TypeOK, Ids, Nil
  <2>3. config \in Quotas \cup {NoConfig} /\ states \in Refs
    BY <2>2 DEF TypeMem, Refs, WellFormed, TypeOK
  <2> HIDE DEF u
  <2>4. [Fresh EXCEPT !.usage = u] \in States  BY <2>2 DEF Fresh, States, Keys
  <2> QED  BY <2>1, <2>2, <2>3, <2>4 DEF TypeRt
<1>4. Locks'  BY DEF SnapshotUsage, Locks, RestorerHolds, WellFormed
<1>5. Configured'  BY DEF SnapshotUsage, Configured, memVars
<1>6. Off'  BY OffFrame DEF SnapshotUsage, Up
<1>7. Allocated'  BY SMTT(30) DEF SnapshotUsage, Allocated, TypeMem, WellFormed, TypeOK, memVars
<1>8. Keyed'  BY SMTT(30) DEF SnapshotUsage, Fresh, Keyed, WellFormed, memVars
<1> QED  BY <1>1, <1>2, <1>3, <1>4, <1>5, <1>6, <1>7, <1>8 DEF WellFormed, TypeOK

(* SnapshotState reads the other fields.                                   *)
LEMMA SnapshotFieldsWF ==
  ASSUME WellFormed, SnapshotFields  PROVE WellFormed'
<1>1. TypeMem' /\ TypeDb' /\ TypeCounters' /\ TypeAd' /\ TypeFl' /\ TypeLu' /\ TypeRs'
    /\ TypeAm' /\ PanicsOnlyInReset'
  BY Frames DEF SnapshotFields, WellFormed, TypeOK, histVars
<1>2. TypeRt'  BY DEF SnapshotFields, TypeRt, States, TypeMem, WellFormed, TypeOK
<1>3. Locks'  BY SMTT(30) DEF SnapshotFields, Locks, RestorerHolds, WellFormed
<1>4. Configured'  BY SMTT(30) DEF SnapshotFields, Configured, WellFormed, memVars
<1>5. Off'  BY OffBusy DEF SnapshotFields, WellFormed
<1>6. Allocated'  BY SMTT(30) DEF SnapshotFields, Allocated, WellFormed, memVars
<1>7. Keyed'
  <2>1. rt.pc = "fields" /\ rt.state \in Ids  BY DEF SnapshotFields, TypeRt, WellFormed, TypeOK
  <2>2. heap[rt.state] \in States  BY <2>1 DEF TypeMem, WellFormed, TypeOK
  <2>3. rt' = [rt EXCEPT !.pc = "held",
                         !.snap = [heap[rt.state] EXCEPT !.usage = rt.snap.usage]]
    BY DEF SnapshotFields
  <2>4. rt'.pc = "held" /\ rt'.snap.pending = heap[rt.state].pending
        /\ rt'.snap.key = heap[rt.state].key
    BY SMTT(30), <2>2, <2>3 DEF States
  <2>5. heap[rt.state].pending > 0 => heap[rt.state].key # NoKey  BY <2>1 DEF Keyed, WellFormed
  <2>6. UNCHANGED heap /\ \A t \in Ids : heap[t].pending > 0 => heap[t].key # NoKey
    BY DEF SnapshotFields, Keyed, WellFormed, memVars
  <2> HIDE <2>3
  <2> QED  BY <2>4, <2>5, <2>6 DEF Keyed
<1> QED  BY <1>1, <1>2, <1>3, <1>4, <1>5, <1>6, <1>7 DEF WellFormed, TypeOK

(* A snapshot that is not needed is dropped.                               *)
LEMMA SnapshotDropWF ==
  ASSUME WellFormed, SnapshotDrop  PROVE WellFormed'
<1>1. TypeMem' /\ TypeDb' /\ TypeCounters' /\ TypeAd' /\ TypeFl' /\ TypeLu' /\ TypeRs'
    /\ TypeAm' /\ PanicsOnlyInReset'
  BY Frames DEF SnapshotDrop, WellFormed, TypeOK, histVars
<1>2. TypeRt' /\ Configured' /\ Allocated' /\ Keyed'
  BY RestorerIdle DEF SnapshotDrop, memVars
<1>3. Locks'  BY DEF SnapshotDrop, RtIdle, Locks, RestorerHolds, WellFormed
<1>4. Off'  BY OffBusy DEF SnapshotDrop, WellFormed
<1> QED  BY <1>1, <1>2, <1>3, <1>4 DEF WellFormed, TypeOK

(* RestoreState takes persistAccess and stores the config.                 *)
LEMMA RestoreConfigWF ==
  ASSUME WellFormed, RestoreConfig  PROVE WellFormed'
<1>1. PICK s \in Ids : StateFor(s) /\ rt' = [rt EXCEPT !.pc = "usage", !.state = s]
  BY DEF RestoreConfig
<1>2. /\ s <= nStates' /\ nStates <= nStates' /\ nStates' \in 0..MaxObjects
      /\ states' \in 0..nStates'
  BY <1>1, StateForFacts DEF WellFormed, TypeOK
<1>3. TypeDb' /\ TypeAd' /\ TypeFl' /\ TypeLu' /\ TypeRs' /\ TypeAm'
    /\ PanicsOnlyInReset'
  BY Frames DEF RestoreConfig, WellFormed, TypeOK
<1>4. TypeMem'
  <2>1. config' = rt.quota /\ persist' = Restorer  BY DEF RestoreConfig
  <2>2. config' \in Quotas \cup {NoConfig}  BY <2>1 DEF TypeRt, WellFormed, TypeOK
  <2> QED  BY <1>2, <2>2 DEF RestoreConfig, TypeMem, WellFormed, TypeOK
<1>5. TypeCounters'  BY DEF RestoreConfig, TypeCounters, WellFormed, TypeOK, boundVars
<1>6. TypeRt'
  BY <1>1 DEF TypeRt, Refs, WellFormed, TypeOK
<1>7. Locks'  BY SMTT(30), HoldersAssumption DEF RestoreConfig, Locks, RestorerHolds, WellFormed
<1>8. Configured'  BY SMTT(30) DEF RestoreConfig, Configured, WellFormed
<1>9. Off'  BY OffBusy DEF RestoreConfig, WellFormed
<1>10. Allocated'
  <2>1. UNCHANGED <<heap, ad, lu, rs, am>>  BY DEF RestoreConfig
  <2>2. rt'.state = s  BY <1>1 DEF TypeRt, WellFormed, TypeOK
  <2>3. \A a \in Adders : ad[a].state <= nStates'
    BY SMTT(30), <1>2, StatesNat DEF Allocated, WellFormed
  <2>4. lu.state <= nStates' /\ rs.state <= nStates' /\ am.state <= nStates'
    BY SMTT(30), <1>2, StatesNat DEF Allocated, WellFormed
  <2>5. \A t \in Ids : t > nStates' => heap[t] = Fresh
    BY SMTT(30), <1>2, StatesNat DEF Allocated, WellFormed, Ids
  <2> QED  BY <1>2, <2>1, <2>2, <2>3, <2>4, <2>5 DEF Allocated
<1>11. Keyed'  BY DEF RestoreConfig, Keyed, TypeRt, WellFormed, TypeOK
<1> QED  BY <1>3, <1>4, <1>5, <1>6, <1>7, <1>8, <1>9, <1>10, <1>11 DEF WellFormed, TypeOK

(* RestoreState stores the usage.                                          *)
LEMMA RestoreUsageWF ==
  ASSUME WellFormed, RestoreUsage  PROVE WellFormed'
<1>1. TypeDb' /\ TypeCounters' /\ TypeAd' /\ TypeFl' /\ TypeLu' /\ TypeRs' /\ TypeAm'
    /\ PanicsOnlyInReset'
  BY Frames DEF RestoreUsage, RestoreField, WellFormed, TypeOK, histVars
<1>2. TypeMem'
  BY DEF RestoreUsage, RestoreField, TypeMem, States, TypeRt, WellFormed, TypeOK
<1>3. TypeRt'  BY DEF RestoreUsage, RestoreField, TypeRt, WellFormed, TypeOK
<1>4. Locks'  BY SMTT(30) DEF RestoreUsage, RestoreField, Locks, RestorerHolds, WellFormed, histVars
<1>5. Configured'  BY SMTT(30) DEF RestoreUsage, RestoreField, Configured, WellFormed
<1>6. Off'  BY OffBusy DEF RestoreUsage, RestoreField, WellFormed
<1>7. Allocated'
  BY SMTT(30) DEF RestoreUsage, RestoreField, Allocated, TypeMem, WellFormed, TypeOK, Ids
<1>8. Keyed'  BY SMTT(30) DEF RestoreUsage, RestoreField, Keyed, WellFormed
<1> QED  BY <1>1, <1>2, <1>3, <1>4, <1>5, <1>6, <1>7, <1>8 DEF WellFormed, TypeOK

(* RestoreState stores the pending bytes.                                  *)
LEMMA RestorePendingWF ==
  ASSUME WellFormed, RestorePending  PROVE WellFormed'
<1>1. TypeDb' /\ TypeCounters' /\ TypeAd' /\ TypeFl' /\ TypeLu' /\ TypeRs' /\ TypeAm'
    /\ PanicsOnlyInReset'
  BY Frames DEF RestorePending, RestoreField, WellFormed, TypeOK, histVars
<1>2. TypeMem'
  BY DEF RestorePending, RestoreField, TypeMem, States, TypeRt, WellFormed, TypeOK
<1>3. TypeRt'  BY DEF RestorePending, RestoreField, TypeRt, WellFormed, TypeOK
<1>4. Locks'
  BY SMTT(30) DEF RestorePending, RestoreField, Locks, RestorerHolds, WellFormed, histVars
<1>5. Configured'  BY SMTT(30) DEF RestorePending, RestoreField, Configured, WellFormed
<1>6. Off'  BY OffBusy DEF RestorePending, RestoreField, WellFormed
<1>7. Allocated'
  BY SMTT(30) DEF RestorePending, RestoreField, Allocated, TypeMem, WellFormed, TypeOK, Ids
<1>8. Keyed'  BY SMTT(30) DEF RestorePending, RestoreField, Keyed, WellFormed
<1> QED  BY <1>1, <1>2, <1>3, <1>4, <1>5, <1>6, <1>7, <1>8 DEF WellFormed, TypeOK

(* RestoreState stores the flag.                                           *)
LEMMA RestoreFlagWF ==
  ASSUME WellFormed, RestoreFlag  PROVE WellFormed'
<1>1. TypeDb' /\ TypeCounters' /\ TypeAd' /\ TypeFl' /\ TypeLu' /\ TypeRs' /\ TypeAm'
    /\ PanicsOnlyInReset'
  BY Frames DEF RestoreFlag, RestoreField, WellFormed, TypeOK, histVars
<1>2. TypeMem'
  BY DEF RestoreFlag, RestoreField, TypeMem, States, TypeRt, WellFormed, TypeOK
<1>3. TypeRt'  BY DEF RestoreFlag, RestoreField, TypeRt, WellFormed, TypeOK
<1>4. Locks'  BY SMTT(30) DEF RestoreFlag, RestoreField, Locks, RestorerHolds, WellFormed, histVars
<1>5. Configured'  BY SMTT(30) DEF RestoreFlag, RestoreField, Configured, WellFormed
<1>6. Off'  BY OffBusy DEF RestoreFlag, RestoreField, WellFormed
<1>7. Allocated'
  BY SMTT(30) DEF RestoreFlag, RestoreField, Allocated, TypeMem, WellFormed, TypeOK, Ids
<1>8. Keyed'  BY SMTT(30) DEF RestoreFlag, RestoreField, Keyed, WellFormed
<1> QED  BY <1>1, <1>2, <1>3, <1>4, <1>5, <1>6, <1>7, <1>8 DEF WellFormed, TypeOK

(* RestoreState stores the key.                                            *)
LEMMA RestoreKeyWF ==
  ASSUME WellFormed, RestoreKey  PROVE WellFormed'
<1>1. TypeDb' /\ TypeCounters' /\ TypeAd' /\ TypeFl' /\ TypeLu' /\ TypeRs' /\ TypeAm'
    /\ PanicsOnlyInReset'
  BY Frames DEF RestoreKey, RestoreField, WellFormed, TypeOK, histVars
<1>2. TypeMem'  BY DEF RestoreKey, RestoreField, TypeMem, States, TypeRt, WellFormed, TypeOK
<1>3. TypeRt'  BY DEF RestoreKey, RestoreField, TypeRt, WellFormed, TypeOK
<1>4. Locks'  BY SMTT(30) DEF RestoreKey, RestoreField, Locks, RestorerHolds, WellFormed, histVars
<1>5. Configured'  BY SMTT(30) DEF RestoreKey, RestoreField, Configured, WellFormed
<1>6. Off'  BY OffBusy DEF RestoreKey, RestoreField, WellFormed
<1>7. Allocated'
  BY SMTT(30) DEF RestoreKey, RestoreField, Allocated, TypeMem, WellFormed, TypeOK, Ids
<1>8. Keyed'  BY SMTT(30) DEF RestoreKey, RestoreField, Keyed, TypeRt, TypeMem, WellFormed, TypeOK
<1> QED  BY <1>1, <1>2, <1>3, <1>4, <1>5, <1>6, <1>7, <1>8 DEF WellFormed, TypeOK

(* RestoreState calls Save.                                                *)
LEMMA RestoreSaveWF ==
  ASSUME WellFormed, RestoreSave  PROVE WellFormed'
<1> DEFINE k == IF rt.snap.key = NoKey THEN KeyOf(rt.state) ELSE rt.snap.key
<1>1. rt.pc = "save" /\ rt.state \in Ids /\ rt.snap \in States
  BY DEF RestoreSave, TypeRt, WellFormed, TypeOK
<1>2. k \in Periods /\ KeyOf(rt.state) \in Periods
  BY <1>1 DEF KeyOf, TypeMem, States, Keys, WellFormed, TypeOK
<1>3. /\ heap' \in [Ids -> States] /\ heap'[rt.state].key # NoKey
      /\ \A t \in Ids : heap'[t].pending = heap[t].pending
      /\ \A t \in Ids \ {rt.state} : heap'[t] = heap[t]
  <2>1. CASE rt.snap.key # NoKey
    <3>1. UNCHANGED heap  BY <2>1 DEF RestoreSave
    <3> QED  BY <1>1, <2>1, <3>1 DEF Keyed, TypeMem, WellFormed, TypeOK
  <2>2. CASE rt.snap.key = NoKey
    <3>1. heap' = [heap EXCEPT ![rt.state].key = KeyOf(rt.state)]
      BY <2>2 DEF RestoreSave, SetKeyIfEmpty
    <3>2. KeyOf(rt.state) \in Keys /\ heap \in [Ids -> States]
      BY <1>2 DEF Keys, TypeMem, WellFormed, TypeOK
    <3>3. /\ heap' \in [Ids -> States] /\ heap'[rt.state].key = KeyOf(rt.state)
          /\ \A t \in Ids : heap'[t].pending = heap[t].pending
          /\ \A t \in Ids \ {rt.state} : heap'[t] = heap[t]
      BY <1>1, <3>1, <3>2, KeyUpdate
    <3> QED  BY SMTT(30), <1>2, <3>3 DEF Periods, NoKey
  <2> QED  BY <2>1, <2>2
<1> HIDE DEF k
<1>4. TypeAd' /\ TypeFl' /\ TypeLu' /\ TypeRs' /\ TypeAm' /\ PanicsOnlyInReset'
  BY Frames DEF RestoreSave, WellFormed, TypeOK, histVars
<1>5. TypeMem'
  BY <1>3 DEF RestoreSave, TypeMem, WellFormed, TypeOK
<1>6. TypeDb'
  <2>1. \/ UNCHANGED dbVars
        \/ rows' = rows \cup {k} /\ db' = [db EXCEPT ![k] = rt.snap.usage]
    BY DEF RestoreSave, k
  <2>2. rows' \subseteq Periods /\ db' \in [Periods -> Nat]
    BY <1>1, <1>2, <2>1 DEF TypeDb, States, WellFormed, TypeOK, dbVars
  <2> QED  BY <2>2 DEF RestoreSave, TypeDb, WellFormed, TypeOK, histVars
<1>7. TypeCounters'
  BY SMTT(30) DEF RestoreSave, CallSucceeds, CallFails, TypeCounters, WellFormed, TypeOK, histVars
<1>8. TypeRt'  BY DEF RestoreSave, TypeRt, WellFormed, TypeOK
<1>9. Locks'  BY DEF RestoreSave, Locks, RestorerHolds, TypeRt, WellFormed, TypeOK, histVars
<1>10. Configured'  BY DEF RestoreSave, Configured, TypeRt, WellFormed, TypeOK
<1>11. Off'  BY OffFrame DEF RestoreSave, CallSucceeds, CallFails
<1>12. Allocated'
  <2>1. UNCHANGED <<nStates, ad, lu, rs, am>> /\ rt'.state = rt.state
    BY DEF RestoreSave, TypeRt, WellFormed, TypeOK
  <2>2. \A t \in Ids : t > nStates => t # rt.state  BY SMTT(30), StatesNat DEF Allocated, WellFormed
  <2> QED  BY <1>3, <2>1, <2>2 DEF Allocated, WellFormed
<1>13. Keyed'
  <2>1. rt'.pc \in {"clear", "unlock"} /\ rt'.state = rt.state /\ rt'.snap = rt.snap
    BY DEF RestoreSave, TypeRt, WellFormed, TypeOK
  <2> QED  BY <1>3, <2>1 DEF Keyed, WellFormed
<1> QED
  BY <1>4, <1>5, <1>6, <1>7, <1>8, <1>9, <1>10, <1>11, <1>12, <1>13 DEF WellFormed, TypeOK

(* RestoreState calls ClearPendingDelta.                                   *)
LEMMA RestoreClearWF ==
  ASSUME WellFormed, RestoreClear  PROVE WellFormed'
<1>1. TypeDb' /\ TypeCounters' /\ TypeAd' /\ TypeFl' /\ TypeLu' /\ TypeRs' /\ TypeAm'
    /\ PanicsOnlyInReset'
  BY Frames DEF RestoreClear, WellFormed, TypeOK, histVars
<1>2. TypeMem'  BY DEF RestoreClear, TypeMem, States, WellFormed, TypeOK
<1>3. TypeRt'  BY DEF RestoreClear, TypeRt, WellFormed, TypeOK
<1>4. Locks'  BY SMTT(30) DEF RestoreClear, Locks, RestorerHolds, WellFormed, histVars
<1>5. Configured'  BY SMTT(30) DEF RestoreClear, Configured, WellFormed
<1>6. Off'  BY OffBusy DEF RestoreClear, WellFormed
<1>7. Allocated'  BY SMTT(30) DEF RestoreClear, Allocated, TypeMem, WellFormed, TypeOK
<1>8. Keyed'  BY SMTT(30) DEF RestoreClear, Keyed, WellFormed
<1> QED  BY <1>1, <1>2, <1>3, <1>4, <1>5, <1>6, <1>7, <1>8 DEF WellFormed, TypeOK

(* RestoreState releases persistAccess.                                    *)
LEMMA RestoreUnlockWF ==
  ASSUME WellFormed, RestoreUnlock  PROVE WellFormed'
<1>1. TypeDb' /\ TypeCounters' /\ TypeAd' /\ TypeFl' /\ TypeLu' /\ TypeRs' /\ TypeAm'
    /\ PanicsOnlyInReset'
  BY Frames DEF RestoreUnlock, WellFormed, TypeOK, histVars
<1>2. TypeMem'  BY DEF RestoreUnlock, TypeMem, WellFormed, TypeOK, memVars
<1>3. TypeRt' /\ Configured' /\ Allocated' /\ Keyed'
  BY RestorerIdle DEF RestoreUnlock, memVars
<1>4. Locks'  BY HoldersAssumption DEF RestoreUnlock, RtIdle, Locks, RestorerHolds, WellFormed
<1>5. Off'  BY OffBusy DEF RestoreUnlock, WellFormed
<1> QED  BY <1>1, <1>2, <1>3, <1>4, <1>5 DEF WellFormed, TypeOK

-----------------------------------------------------------------------------
(* The initial states are well formed.                                     *)
LEMMA InitWF == Init => WellFormed
<1> SUFFICES ASSUME Init  PROVE WellFormed  OBVIOUS
<1> USE HoldersAssumption, BoundsAssumption DEF Init, Ids, Nil, NoKey, NoConfig, Keys, Refs
<1>1. Fresh \in States  BY DEF Fresh, States
<1>2. TypeMem
  <2>1. heap \in [Ids -> States] /\ now \in Periods /\ 0 \in 0..MaxObjects /\ 0 \in 0..0
    BY SMTT(30), <1>1 DEF Periods
  <2> QED  BY <2>1 DEF TypeMem
<1>3. TypeDb /\ TypeCounters  BY DEF TypeDb, TypeCounters
<1>4. TypeAd  BY DEF TypeAd, AdIdle
<1>5. TypeFl /\ TypeLu /\ TypeRs  BY DEF TypeFl, TypeLu, TypeRs, FlIdle, LuIdle, RsIdle
<1>6. TypeAm  BY DEF TypeAm, AmIdle
<1>7. TypeRt  BY <1>1 DEF TypeRt, RtIdle
<1>8. Locks /\ Configured
  BY DEF Locks, Configured, AdminHolds, RestorerHolds, FlIdle, LuIdle, RsIdle, AmIdle, RtIdle
<1>9. Off /\ PanicsOnlyInReset  BY DEF Off, PanicsOnlyInReset
<1>10. Allocated
  <2>1. AdIdle.state = 0 /\ LuIdle.state = 0 /\ RsIdle.state = 0
    BY DEF AdIdle, LuIdle, RsIdle
  <2>2. AmIdle.state = 0 /\ RtIdle.state = 0  BY DEF AmIdle, RtIdle
  <2> QED  BY SMTT(30), <2>1, <2>2 DEF Allocated
<1>11. Keyed
  <2>1. RtIdle.pc = "idle" /\ RtIdle.snap = Fresh /\ Fresh.pending = 0
    BY DEF RtIdle, Fresh
  <2> QED  BY SMTT(30), <2>1 DEF Keyed
<1> QED
  BY <1>2, <1>3, <1>4, <1>5, <1>6, <1>7, <1>8, <1>9, <1>10, <1>11 DEF WellFormed, TypeOK

(* Every step keeps the accounting well formed.                            *)
LEMMA NextWF == WellFormed /\ [Next]_vars => WellFormed'
<1> SUFFICES ASSUME WellFormed, [Next]_vars  PROVE WellFormed'  OBVIOUS
<1>1. CASE UNCHANGED vars
  <2> USE <1>1 DEF WellFormed, TypeOK, vars
  <2>1. TypeMem' /\ TypeDb' /\ TypeCounters' /\ TypeAd' /\ TypeFl' /\ TypeLu' /\ TypeRs'
        /\ TypeAm' /\ TypeRt' /\ Locks' /\ Configured' /\ Allocated' /\ Keyed'
        /\ PanicsOnlyInReset'
    BY Frames DEF memVars, histVars
  <2>2. Off'  BY DEF Off, memVars
  <2> QED  BY <2>1, <2>2
<1>2. CASE Start \/ Crash \/ Close \/ CloseFlush \/ Tick \/ PeerIncr
  BY <1>2, StartWF, CrashWF, CloseWF, CloseFlushWF, TickWF, PeerIncrWF
<1>3. ASSUME NEW a \in Adders, AddBytes(a) \/ AddStep(a)  PROVE WellFormed'
  BY <1>3, AddBytesWF, AddStateWF, AddDropWF, AddCountWF, AddDirtyWF, AddTripWF DEF AddStep
<1>4. CASE LoadStep
  BY <1>4, LuConfigWF, LuStateWF, LuStoreWF, LuDecideWF DEF LoadStep
<1>5. CASE FlushLock \/ FlushStep
  BY <1>5, FlushLockWF, FlushDrainWF, FlushConsumeWF, FlushFilterWF, FlushIncrWF, FlushRestoreWF,
      FlushRedirtyWF, FlushReloadWF, FlushUnlockWF DEF FlushStep
<1>6. CASE ResetStart \/ ResetStep
  BY <1>6, ResetStartWF, ResetLoadWF, ResetKeyWF, ResetCompareWF, ResetFlagWF, ResetLockWF,
      ResetDeleteWF DEF ResetStep
<1>7. CASE ApplyConfig \/ RemoveStart \/ AdminStep
  <2>1. CASE ApplyKey  BY <2>1, CurrentPeriodKeyWF DEF ApplyKey
  <2>2. CASE RemoveKey  BY <2>2, CurrentPeriodKeyWF DEF RemoveKey
  <2> QED
    BY <1>7, <2>1, <2>2, ApplyConfigWF, ApplyStateWF, ApplyReadWF, ApplyDecideWF, ApplyLockWF,
        ApplyFetchWF, AdminUnlockWF, RemoveStartWF, RemoveRowWF, RemoveConfigWF, RemoveStateWF DEF
        AdminStep
<1>8. CASE SnapshotUsage \/ SnapshotDrop \/ RestoreConfig \/ RestoreStep
  BY <1>8, SnapshotUsageWF, SnapshotFieldsWF, SnapshotDropWF, RestoreConfigWF, RestoreUsageWF,
      RestorePendingWF, RestoreFlagWF, RestoreKeyWF, RestoreSaveWF, RestoreClearWF,
      RestoreUnlockWF DEF RestoreStep
<1> QED  BY <1>1, <1>2, <1>3, <1>4, <1>5, <1>6, <1>7, <1>8 DEF Next

(* WellFormed is an invariant of the accounting.                           *)
THEOREM AccountingWellFormed == Spec => []WellFormed
BY InitWF, NextWF, PTL DEF Spec

(* Type correctness, for every number of goroutines, objects and periods:  *)
(* in particular every delta a flush takes belongs to a period.            *)
THEOREM AccountingTypes == Spec => []TypeOK
<1>1. WellFormed => TypeOK  BY DEF WellFormed
<1> QED  BY <1>1, AccountingWellFormed, PTL

(* Of the callers of mustPeriodKey, only CheckPeriodReset can find the     *)
(* user's config removed under it: applyMu and persistAccess protect the   *)
(* others.                                                                 *)
THEOREM PanicConfined == Spec => []PanicsOnlyInReset
<1>1. WellFormed => PanicsOnlyInReset  BY DEF WellFormed
<1> QED  BY <1>1, AccountingWellFormed, PTL


=============================================================================
