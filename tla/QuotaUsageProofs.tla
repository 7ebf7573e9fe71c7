------------------------- MODULE QuotaUsageProofs ---------------------------
(***************************************************************************)
(* The byte accounting of QuotaUsage loses and invents nothing, for every  *)
(* number of goroutines, objects and periods: Conservation,                *)
(* PendingIsDirty, RowsOwned and NoOvercount.                              *)
(*                                                                         *)
(* NoOvercount bounds the copies that RestoreState and LoadUsage store as  *)
(* absolute values (Charged), which is possible while all keys are those   *)
(* of the first period (Past).                                             *)
(***************************************************************************)
EXTENDS QuotaUsageLedgerProofs

(* Zenon proves what does not say otherwise.                              *)
USE ZenonT(30)

(* No key is ahead of the clock.                                           *)
Past ==
  /\ \A s \in Ids : heap[s].key <= now
  /\ fl.key <= now /\ rs.now <= now /\ rs.prev <= now /\ am.key <= now
  /\ rt.snap.key <= now
  /\ \A p \in Periods : p > now => db[p] = 0

(* In the first period nothing that is stored exceeds what was counted.    *)
Charged ==
  now = 1 /\ fails = 0 =>
    /\ \A s \in Ids : heap[s].usage <= counted[1]
    /\ lu.val <= counted[1] /\ rt.snap.usage <= counted[1] /\ db[1] <= counted[1]
    /\ run \in {"up", "down"} /\ rt.pc \notin Window =>
         db[1] + Pending(1) + InFlight(1) <= counted[1]

-----------------------------------------------------------------------------
(* NoOvercount: the clock and the counters, and where keys come from.      *)

(* The clock, the failures and the counted bytes never decrease.           *)
LEMMA Grows ==
  ASSUME WellFormed, Next
  PROVE  /\ now <= now' /\ fails <= fails'
         /\ \A p \in Periods : counted[p] <= counted'[p]
<1> USE DEF boundVars, histVars
<1>1. now \in Nat /\ fails \in Nat /\ counted \in [Periods -> Nat]
  BY SMTT(30) DEF WellFormed, TypeOK, TypeMem, TypeDb, TypeCounters, Periods
<1>2. CASE UNCHANGED <<now, counted>> /\ (UNCHANGED fails \/ fails' = fails + 1)
  BY SMTT(30), <1>1, <1>2
<1>3. CASE Control
  <2>1. UNCHANGED counted  BY <1>3, ControlFacts
  <2>2. \/ UNCHANGED now /\ (UNCHANGED fails \/ fails' = fails + 1)
        \/ now' = now + 1 /\ UNCHANGED fails
    <3>1. CASE \/ Close \/ CloseFlush \/ Tick \/ LuConfig
               \/ \E a \in Adders : AddBytes(a) \/ AddDrop(a) \/ AddDirty(a)
      BY <3>1 DEF Close, CloseFlush, Tick, LuConfig, AddBytes, AddDrop, AddDirty
    <3>2. CASE \/ FlushLock \/ FlushDrain \/ FlushRedirty \/ FlushReload
               \/ FlushUnlock /\ run # "final"
      BY <3>2 DEF FlushLock, FlushDrain, FlushRedirty, FlushReload, FlushUnlock, CallSucceeds,
          CallFails
    <3>3. CASE ResetStart \/ ResetLoad \/ (ResetKey /\ UNCHANGED run) \/ ResetLock
      BY <3>3 DEF ResetStart, ResetLoad, ResetKey, Panic, ResetLock
    <3>4. CASE \/ ApplyConfig \/ ApplyRead \/ ApplyLock \/ ApplyFetch \/ AdminUnlock
               \/ RemoveStart \/ RemoveConfig
      BY <3>4 DEF ApplyConfig, ApplyRead, ApplyLock, ApplyFetch, AdminUnlock, RemoveStart,
          RemoveConfig, CallSucceeds, CallFails
    <3>5. CASE SnapshotUsage \/ SnapshotFields \/ SnapshotDrop \/ RestoreUnlock
      BY <3>5 DEF SnapshotUsage, SnapshotFields, SnapshotDrop, RestoreUnlock
    <3> QED  BY <1>3, <3>1, <3>2, <3>3, <3>4, <3>5 DEF Control
  <2> QED  BY SMTT(30), <1>1, <2>1, <2>2
<1>4. CASE Field \/ KeyStep  BY <1>2, <1>4, FieldFacts, KeyFacts
<1>5. CASE Stops \/ Start
  BY <1>2, <1>5 DEF Stops, Start
<1>6. CASE PeerIncr \/ \E a \in Adders : AddCount(a)
  <2>1. /\ UNCHANGED <<now, fails>>
        /\ \E k : counted' = [counted EXCEPT ![k] = @ + 1]
    BY <1>6 DEF PeerIncr, AddCount
  <2> QED  BY SMTT(30), <1>1, <2>1
<1>7. CASE FlushConsume \/ FlushFilter \/ FlushIncr \/ FlushRestore
  BY <1>2, <1>7 DEF FlushConsume, FlushFilter, FlushIncr, FlushRestore, CallSucceeds, CallFails
<1>8. CASE ResetCompare \/ ResetFlag \/ ResetDelete \/ RemoveRow \/ RemoveState
  BY <1>2, <1>8 DEF ResetCompare, ResetFlag, ResetDelete, RemoveRow, RemoveState, CallSucceeds,
      CallFails
<1>9. CASE RestorePending \/ RestoreKey \/ RestoreSave \/ RestoreClear
  BY <1>2, <1>9 DEF RestorePending, RestoreKey, RestoreSave, RestoreClear, RestoreField,
      CallSucceeds, CallFails
<1> QED  BY <1>3, <1>4, <1>5, <1>6, <1>7, <1>8, <1>9, Kinds

(* A step is one of the flush, of the reset, of the administrator or of    *)
(* the restorer, or it leaves all four where they are, or it stops them.   *)
LEMMA Actors ==
  ASSUME Next
  PROVE  \/ Stop
         \/ UNCHANGED <<fl, rs, am, rt>>
         \/ UNCHANGED <<rs, am, rt>> /\ (CloseFlush \/ FlushLock \/ FlushStep)
         \/ UNCHANGED <<fl, am, rt>> /\ (ResetStart \/ ResetStep)
         \/ UNCHANGED <<fl, rs, rt>> /\ (ApplyConfig \/ RemoveStart \/ AdminStep)
         \/ /\ UNCHANGED <<fl, rs, am>>
            /\ SnapshotUsage \/ SnapshotDrop \/ RestoreConfig \/ RestoreStep
<1>1. CASE Start \/ Crash \/ Close \/ Tick \/ PeerIncr
  BY <1>1 DEF Start, Crash, Close, Tick, PeerIncr
<1>2. CASE \E a \in Adders : AddBytes(a) \/ AddStep(a)
  BY ZenonT(40), <1>2 DEF AddBytes, AddStep, AddState, AddDrop, AddCount, AddDirty, AddTrip
<1>3. CASE LoadStep
  BY <1>3 DEF LoadStep, LuConfig, LuState, Panic, LuStore, LuDecide
<1>4. CASE CloseFlush \/ FlushLock \/ FlushStep
  <2>1. Stop \/ UNCHANGED <<rs, am, rt>>
    BY <1>4 DEF CloseFlush, FlushLock, FlushStep, FlushDrain, FlushConsume, FlushFilter,
        FlushIncr, FlushRestore, FlushRedirty, FlushReload, FlushUnlock
  <2> QED  BY <1>4, <2>1
<1>5. CASE ResetStart \/ ResetStep
  <2>1. Stop \/ UNCHANGED <<fl, am, rt>>
    BY <1>5 DEF ResetStart, ResetStep, ResetLoad, ResetKey, Panic, ResetCompare, ResetFlag,
        ResetLock, ResetDelete
  <2> QED  BY <1>5, <2>1
<1>6. CASE ApplyConfig \/ RemoveStart \/ AdminStep
  <2>1. Stop \/ UNCHANGED <<fl, rs, rt>>
    BY <1>6 DEF ApplyConfig, RemoveStart, AdminStep, ApplyState, ApplyRead, ApplyDecide,
        ApplyLock, ApplyKey, ApplyFetch, AdminUnlock, RemoveKey, RemoveRow, RemoveConfig,
        RemoveState, CurrentPeriodKey, Panic
  <2> QED  BY <1>6, <2>1
<1>7. CASE SnapshotUsage \/ SnapshotDrop \/ RestoreConfig \/ RestoreStep
  <2>1. UNCHANGED <<fl, rs, am>>
    BY <1>7 DEF SnapshotUsage, SnapshotDrop, RestoreConfig, RestoreStep, SnapshotFields,
        RestoreUsage, RestorePending, RestoreFlag, RestoreKey, RestoreField, RestoreSave,
        RestoreClear, RestoreUnlock
  <2> QED  BY <1>7, <2>1
<1> QED  BY <1>1, <1>2, <1>3, <1>4, <1>5, <1>6, <1>7 DEF Next

(* A key that a call takes is that of a state, or the clock's.             *)
LEMMA CallKeys ==
  ASSUME WellFormed, Past, Next
  PROVE  /\ fl'.key <= now /\ rs'.now <= now /\ rs'.prev <= now /\ am'.key <= now
         /\ rt'.snap.key <= now
<1>1. now \in Nat /\ 0 <= now  BY SMTT(30) DEF WellFormed, TypeOK, TypeMem, Periods
<1>2. /\ \A s \in Ids : heap[s].key <= now
      /\ fl.key <= now /\ rs.now <= now /\ rs.prev <= now /\ am.key <= now
      /\ rt.snap.key <= now
  BY DEF Past
<1>3. states # Nil => states \in Ids
  BY SMTT(30), BoundsAssumption DEF WellFormed, TypeOK, TypeMem, Ids, Nil
<1>4. /\ FlIdle.key <= now /\ RsIdle.now <= now /\ RsIdle.prev <= now
      /\ AmIdle.key <= now /\ RtIdle.snap.key <= now
  BY <1>1 DEF FlIdle, RsIdle, AmIdle, RtIdle, Fresh, NoKey
<1>5. ASSUME CloseFlush \/ FlushLock \/ FlushStep  PROVE fl'.key <= now
  <2>1. \/ fl' = FlIdle \/ \E pc : fl' = [fl EXCEPT !.pc = pc]
        \/ \E pc : fl' = [FlIdle EXCEPT !.pc = pc]
        \/ FlushConsume
    BY <1>5 DEF CloseFlush, FlushLock, FlushStep, FlushDrain, FlushFilter, FlushIncr,
        FlushRestore, FlushRedirty, FlushReload, FlushUnlock, Stop
  <2>2. CASE \E pc : fl' = [fl EXCEPT !.pc = pc]
    BY SMTT(30), <1>2, <2>2
  <2>3. CASE fl' = FlIdle \/ \E pc : fl' = [FlIdle EXCEPT !.pc = pc]
    BY SMTT(30), <1>1, <2>3 DEF FlIdle, NoKey
  <2>4. CASE FlushConsume
    <3>1. CASE /\ states # Nil
               /\ fl' = [pc |-> "filter", key |-> heap[states].key,
                         delta |-> heap[states].pending]
      BY <1>2, <1>3, <3>1
    <3> QED  BY <2>2, <2>4, <3>1 DEF FlushConsume
  <2> QED  BY <2>1, <2>2, <2>3, <2>4
<1>6. ASSUME ResetStart \/ ResetStep  PROVE rs'.now <= now /\ rs'.prev <= now
  <2>1. \/ rs' = RsIdle \/ \E pc : rs' = [rs EXCEPT !.pc = pc]
        \/ \E pc, s : rs' = [rs EXCEPT !.pc = pc, !.state = s]
        \/ rs' = [rs EXCEPT !.pc = "load", !.now = now]
        \/ ResetCompare
    BY <1>6 DEF ResetStart, ResetStep, ResetLoad, ResetKey, Panic, Stop, ResetFlag, ResetLock,
        ResetDelete
  <2>2. CASE rs' = RsIdle  BY <1>4, <2>2
  <2>3. CASE \/ \E pc : rs' = [rs EXCEPT !.pc = pc]
             \/ \E pc, s : rs' = [rs EXCEPT !.pc = pc, !.state = s]
    <3>1. rs'.now = rs.now /\ rs'.prev = rs.prev  BY <2>3 DEF WellFormed, TypeOK, TypeRs
    <3> QED  BY <1>2, <3>1
  <2>4. CASE rs' = [rs EXCEPT !.pc = "load", !.now = now]
    BY SMTT(30), <1>1, <1>2, <2>4
  <2>5. CASE ResetCompare
    <3>1. CASE rs' = [rs EXCEPT !.pc = "flag", !.prev = heap[rs.state].key]
      <4>1. rs.state \in Ids  BY <2>5 DEF ResetCompare, WellFormed, TypeOK, TypeRs
      <4>2. heap[rs.state].key <= now  BY <1>2, <4>1
      <4>3. PICK k : rs' = [rs EXCEPT !.pc = "flag", !.prev = k] /\ k <= now
        BY <3>1, <4>2
      <4> QED  BY SMTT(30), <1>2, <4>3
    <3> QED  BY <2>2, <2>5, <3>1 DEF ResetCompare
  <2> QED  BY <2>1, <2>2, <2>3, <2>4, <2>5
<1>7. ASSUME ApplyConfig \/ RemoveStart \/ AdminStep  PROVE am'.key <= now
  <2>1. CASE \/ am' = AmIdle \/ \E pc : am' = [AmIdle EXCEPT !.pc = pc]
    BY SMTT(30), <1>1, <2>1 DEF AmIdle, NoKey
  <2>2. CASE \E pc, x : \/ am' = [am EXCEPT !.pc = pc, !.state = x]
                        \/ am' = [am EXCEPT !.pc = pc, !.over = x]
                        \/ am' = [am EXCEPT !.pc = pc]
    BY <1>2, <2>2 DEF WellFormed, TypeOK, TypeAm
  <2>3. CASE \E s \in Ids : \E pc : am' = [am EXCEPT !.pc = pc, !.key = KeyOf(s)]
    <3>1. PICK s \in Ids : \E pc : am' = [am EXCEPT !.pc = pc, !.key = KeyOf(s)]
      BY <2>3
    <3>2. KeyOf(s) <= now  BY SMTT(30), <1>1, <1>2 DEF KeyOf
    <3> HIDE DEF KeyOf
    <3> QED  BY SMTT(30), <3>1, <3>2
  <2>4. CASE ApplyConfig \/ RemoveStart \/ ApplyState \/ ApplyRead
    <3>1. CASE ApplyConfig
      <4>1. \E b, q : am' = [am EXCEPT !.pc = "state", !.isNew = b, !.quota = q]
        BY <3>1 DEF ApplyConfig
      <4> QED  BY SMTT(30), <1>2, <4>1
    <3>2. CASE ApplyState  BY <2>1, <2>2, <3>2 DEF ApplyState, Panic, Stop
    <3>3. CASE RemoveStart \/ ApplyRead  BY <2>2, <3>3 DEF RemoveStart, ApplyRead
    <3> QED  BY <2>4, <3>1, <3>2, <3>3
  <2>5. CASE ApplyDecide \/ ApplyLock \/ ApplyFetch \/ AdminUnlock
    BY <2>1, <2>2, <2>5 DEF ApplyDecide, ApplyLock, ApplyFetch, AdminUnlock
  <2>6. CASE ApplyKey \/ RemoveKey
    BY <2>1, <2>3, <2>6 DEF ApplyKey, RemoveKey, CurrentPeriodKey, Panic, Stop
  <2>7. CASE RemoveRow \/ RemoveConfig \/ RemoveState
    BY <2>1, <2>2, <2>7 DEF RemoveRow, RemoveConfig, RemoveState
  <2> QED  BY <1>7, <2>4, <2>5, <2>6, <2>7 DEF AdminStep
<1>8. ASSUME SnapshotUsage \/ SnapshotDrop \/ RestoreConfig \/ RestoreStep
      PROVE  rt'.snap.key <= now
  <2>1. CASE rt' = RtIdle  BY <1>4, <2>1
  <2>2. CASE \E pc, s : rt' = [rt EXCEPT !.pc = pc] \/ rt' = [rt EXCEPT !.pc = pc, !.state = s]
    BY <1>2, <2>2 DEF WellFormed, TypeOK, TypeRt
  <2>3. CASE SnapshotUsage
    <3>1. \E pc, q, n : rt' = [pc |-> pc, quota |-> q, state |-> states,
                               snap |-> [Fresh EXCEPT !.usage = n]]
      BY <2>3 DEF SnapshotUsage
    <3> QED  BY SMTT(30), <1>1, <3>1 DEF Fresh, NoKey
  <2>4. CASE SnapshotFields
    <3>1. rt' = [rt EXCEPT !.pc = "held",
                           !.snap = [heap[rt.state] EXCEPT !.usage = rt.snap.usage]]
      BY <2>4 DEF SnapshotFields
    <3>2. rt.state \in Ids  BY <2>4 DEF SnapshotFields, WellFormed, TypeOK, TypeRt
    <3>3. heap[rt.state] \in States  BY <3>2 DEF WellFormed, TypeOK, TypeMem
    <3>4. [heap[rt.state] EXCEPT !.usage = rt.snap.usage].key <= now
      BY SMTT(30), <1>2, <3>2, <3>3
    <3>5. \E x : rt' = [rt EXCEPT !.pc = "held", !.snap = x] /\ x.key <= now
      BY <3>1, <3>4
    <3> QED  BY SMTT(30), <3>5
  <2>5. CASE SnapshotDrop \/ RestoreConfig \/ RestoreClear \/ RestoreUnlock
    BY <2>1, <2>2, <2>5 DEF SnapshotDrop, RestoreConfig, RestoreClear, RestoreUnlock
  <2>6. CASE RestoreUsage \/ RestorePending \/ RestoreFlag \/ RestoreKey \/ RestoreSave
    BY <2>2, <2>6 DEF RestoreUsage, RestorePending, RestoreFlag, RestoreKey, RestoreField,
        RestoreSave
  <2> QED  BY <1>8, <2>3, <2>4, <2>5, <2>6 DEF RestoreStep
<1> QED  BY <1>2, <1>4, <1>5, <1>6, <1>7, <1>8, Actors DEF Stop

(* A key that a step gives to a state is the clock's, or one that a call   *)
(* holds.                                                                  *)
LEMMA StateKeys ==
  ASSUME WellFormed, Past, Next, NEW t \in Ids  PROVE heap'[t].key <= now
<1>1. now \in Nat /\ 0 <= now /\ now \in Keys
  BY SMTT(30) DEF WellFormed, TypeOK, TypeMem, Periods, Keys
<1>2. heap \in [Ids -> States] /\ rs.now \in Keys /\ rt.snap.key \in Keys
  BY DEF WellFormed, TypeOK, TypeMem, TypeRs, TypeRt, States
<1>3. (\A s \in Ids : heap[s].key <= now) /\ rs.now <= now /\ rt.snap.key <= now
  BY DEF Past
<1>4. CASE heap'[t].key = heap[t].key  BY <1>3, <1>4
<1>5. \A s \in Ids : KeyOf(s) \in Keys /\ KeyOf(s) <= now
  BY SMTT(30), <1>1, <1>2, <1>3 DEF KeyOf, States
<1>6. states # Nil => states \in Ids
  BY SMTT(30), BoundsAssumption DEF WellFormed, TypeOK, TypeMem, Ids, Nil
<1>7. CASE Control \/ Field \/ FlushFilter \/ FlushIncr \/ PeerIncr
  <2>1. CASE UNCHANGED heap  BY <1>4, <2>1
  <2> QED
    BY <1>4, <1>7, <2>1, ControlFacts, FieldFacts DEF FlushFilter, FlushIncr, PeerIncr, memVars
<1>8. CASE KeyStep
  <2>1. heap'[t].key = heap[t].key \/ heap'[t].key = now  BY <1>8, KeyFacts
  <2> QED  BY SMTT(30), <1>1, <1>4, <2>1
<1>9. CASE Stops
  <2>1. heap' = [s \in Ids |-> Fresh]  BY <1>9 DEF Stops, Stop
  <2> QED  BY <1>1, <2>1 DEF Fresh, NoKey
<1>10. CASE Start
  <2>1. UNCHANGED heap \/ \E r : heap' = [heap EXCEPT ![1] = r] /\ r.key = now
    <3>1. PICK q, n : heap' = IF q = NoConfig THEN heap
                              ELSE [heap EXCEPT ![1] = [usage |-> n, pending |-> 0,
                                                        exceeded |-> n > q, key |-> now]]
      BY <1>10 DEF Start
    <3> DEFINE over == n > q
               r == [usage |-> n, pending |-> 0, exceeded |-> over, key |-> now]
    <3>2. UNCHANGED heap \/ heap' = [heap EXCEPT ![1] = r]  BY <3>1
    <3> HIDE DEF over
    <3>3. r.key = now  OBVIOUS
    <3> HIDE DEF r
    <3> QED  BY <3>2, <3>3
  <2> QED  BY SMTT(30), <1>1, <1>2, <1>3, <2>1
<1>11. CASE \E a \in Adders : AddCount(a)
  <2>1. PICK a \in Adders : AddCount(a)  BY <1>11
  <2>2. ad[a].state \in Ids  BY <2>1 DEF AddCount, WellFormed, TypeOK, TypeAd
  <2>3. PICK s \in Ids : heap' = [heap EXCEPT ![s].key = KeyOf(s), ![s].usage = @ + 1,
                                              ![s].pending = @ + 1]
    BY <2>1, <2>2 DEF AddCount
  <2>4. heap'[s].key = KeyOf(s) /\ \A u \in Ids \ {s} : heap'[u] = heap[u]
    BY <1>2, <1>5, <2>3, CountUpdate
  <2> QED  BY <1>3, <1>5, <2>4
<1>12. CASE FlushConsume \/ FlushRestore \/ RestorePending \/ RestoreClear
  <2>1. CASE \E s \in Ids, n \in Nat : heap' = [heap EXCEPT ![s].pending = n]
    BY <1>2, <1>4, <2>1, PendingUpdate
  <2>2. CASE UNCHANGED heap  BY <1>4, <2>2
  <2>3. CASE FlushConsume \/ RestoreClear
    <3>1. UNCHANGED heap \/ (states # Nil /\ heap' = [heap EXCEPT ![states].pending = 0])
      BY <2>3 DEF FlushConsume, RestoreClear
    <3> QED  BY <1>6, <2>1, <2>2, <3>1
  <2>4. CASE FlushRestore
    <3>1. UNCHANGED heap \/ \E s \in Ids : heap' = [heap EXCEPT ![s].pending = @ + fl.delta]
      BY <2>4 DEF FlushRestore
    <3>2. \A s \in Ids : heap[s].pending + fl.delta \in Nat
      BY SMTT(30), <1>2 DEF States, WellFormed, TypeOK, TypeFl
    <3> QED  BY <2>1, <2>2, <3>1, <3>2
  <2>5. CASE RestorePending
    <3>1. heap' = [heap EXCEPT ![rt.state].pending = rt.snap.pending]
      BY <2>5 DEF RestorePending, RestoreField
    <3>2. rt.state \in Ids /\ rt.snap.pending \in Nat
      BY <2>5 DEF RestorePending, RestoreField, WellFormed, TypeOK, TypeRt, States
    <3> QED  BY <2>1, <3>1, <3>2
  <2> QED  BY <1>12, <2>3, <2>4, <2>5
<1>13. CASE ResetCompare \/ ResetFlag \/ RestoreKey \/ RestoreSave
  <2>1. CASE \E s \in Ids, k \in Keys : heap' = [heap EXCEPT ![s].key = k] /\ k <= now
    <3>1. PICK s \in Ids, k \in Keys : heap' = [heap EXCEPT ![s].key = k] /\ k <= now
      BY <2>1
    <3>2. heap'[s].key = k /\ \A u \in Ids \ {s} : heap'[u] = heap[u]
      BY <1>2, <3>1, KeyUpdate
    <3> QED  BY <1>3, <3>1, <3>2
  <2>2. CASE ResetCompare
    <3>1. rs.state \in Ids  BY <2>2 DEF ResetCompare, WellFormed, TypeOK, TypeRs
    <3>2. \/ heap' = [heap EXCEPT ![rs.state].key = rs.now]
          \/ heap' = [heap EXCEPT ![rs.state].usage = 0, ![rs.state].pending = 0]
      BY <2>2 DEF ResetCompare
    <3>3. CASE heap' = [heap EXCEPT ![rs.state].usage = 0, ![rs.state].pending = 0]
      BY <1>2, <1>3, <3>1, <3>3, ClearUpdate
    <3> QED  BY <1>2, <1>3, <2>1, <3>1, <3>2, <3>3
  <2>3. CASE ResetFlag
    <3>1. rs.state \in Ids  BY <2>3 DEF ResetFlag, WellFormed, TypeOK, TypeRs
    <3>2. heap' = [heap EXCEPT ![rs.state].exceeded = FALSE, ![rs.state].key = rs.now]
      BY <2>3 DEF ResetFlag
    <3> QED  BY <1>2, <1>3, <3>1, <3>2, MoveUpdate
  <2>4. CASE RestoreKey
    <3>1. rt.state \in Ids
      BY <2>4 DEF RestoreKey, RestoreField, WellFormed, TypeOK, TypeRt
    <3>2. heap' = [heap EXCEPT ![rt.state].key = rt.snap.key]
      BY <2>4 DEF RestoreKey, RestoreField
    <3> QED  BY <1>2, <1>3, <2>1, <3>1, <3>2
  <2>5. CASE RestoreSave
    <3>1. rt.state \in Ids  BY <2>5 DEF RestoreSave, WellFormed, TypeOK, TypeRt
    <3>2. UNCHANGED heap \/ heap' = [heap EXCEPT ![rt.state].key = KeyOf(rt.state)]
      BY <2>5 DEF RestoreSave, SetKeyIfEmpty
    <3> QED  BY <1>4, <1>5, <2>1, <3>1, <3>2
  <2> QED  BY <1>13, <2>2, <2>3, <2>4, <2>5
<1>14. CASE ResetDelete \/ RemoveRow \/ RemoveState
  BY <1>4, <1>14 DEF ResetDelete, RemoveRow, RemoveState, memVars
<1> QED
  BY <1>7, <1>8, <1>9, <1>10, <1>11, <1>12, <1>13, <1>14, Kinds

(* A row is written under a key that a state or a call holds.              *)
LEMMA RowKeys ==
  ASSUME WellFormed, Past, Next, NEW p \in Periods, p > now  PROVE db'[p] = 0
<1>1. /\ now \in Nat /\ db \in [Periods -> Nat] /\ heap \in [Ids -> States]
      /\ p \in Nat /\ db[p] = 0
  BY SMTT(30) DEF Past, WellFormed, TypeOK, TypeMem, TypeDb, Periods
<1>2. CASE UNCHANGED db  BY <1>1, <1>2
<1>3. CASE \E k, n : db' = [db EXCEPT ![k] = n] /\ k # p  BY <1>1, <1>3
<1>4. CASE \E k : DeleteRow(k)
  <2>1. \E k : db' = [db EXCEPT ![k] = 0]  BY <1>4 DEF DeleteRow
  <2> QED  BY <1>1, <2>1
<1>5. CASE Control \/ Field \/ KeyStep
  BY <1>2, <1>5, ControlFacts, FieldFacts, KeyFacts
<1>6. CASE Stops \/ Start \/ \E a \in Adders : AddCount(a)
  BY <1>2, <1>6 DEF Stops, Start, AddCount, dbVars
<1>7. CASE FlushConsume \/ FlushFilter \/ FlushRestore \/ ResetCompare \/ ResetFlag
  BY <1>2, <1>7 DEF FlushConsume, FlushFilter, FlushRestore, ResetCompare, ResetFlag, dbVars
<1>8. CASE ResetDelete \/ RemoveRow \/ RemoveState
  BY <1>2, <1>4, <1>8 DEF ResetDelete, RemoveRow, RemoveState, dbVars
<1>9. CASE PeerIncr
  <2>1. now # p  BY SMTT(30), <1>1
  <2> QED  BY <1>3, <1>9, <2>1 DEF PeerIncr, IncrBy
<1>10. CASE FlushIncr
  <2>1. fl.key # p  BY SMTT(30), <1>1, <1>10 DEF Past
  <2> QED  BY <1>2, <1>3, <1>10, <2>1 DEF FlushIncr, IncrBy, dbVars
<1>11. CASE RestorePending \/ RestoreKey \/ RestoreClear
  BY <1>2, <1>11 DEF RestorePending, RestoreKey, RestoreClear, RestoreField, dbVars
<1>12. CASE RestoreSave
  <2> DEFINE k == IF rt.snap.key = NoKey THEN KeyOf(rt.state) ELSE rt.snap.key
  <2>1. UNCHANGED db \/ db' = [db EXCEPT ![k] = rt.snap.usage]
    BY <1>12 DEF RestoreSave, dbVars
  <2>2. rt.state \in Ids /\ rt.snap \in States
    BY <1>12 DEF RestoreSave, WellFormed, TypeOK, TypeRt
  <2>3. heap[rt.state].key <= now /\ rt.snap.key <= now  BY <2>2 DEF Past
  <2>4. k # p  BY SMTT(30), <1>1, <2>2, <2>3 DEF KeyOf
  <2> HIDE DEF k
  <2> QED  BY <1>2, <1>3, <2>1, <2>4
<1> QED
  BY <1>5, <1>6, <1>7, <1>8, <1>9, <1>10, <1>11, <1>12, Kinds

(* Every step keeps the keys behind the clock.                             *)
LEMMA PastNext ==
  ASSUME WellFormed, WellFormed', Past, Next  PROVE Past'
<1>1. now \in Nat /\ now' \in Nat /\ now <= now'
  BY SMTT(30), Grows DEF WellFormed, TypeOK, TypeMem, Periods
<1>2. \A k \in Keys : k <= now => k <= now'  BY SMTT(30), <1>1 DEF Keys, NoKey
<1>3. /\ \A s \in Ids : heap'[s].key \in Keys
      /\ fl'.key \in Keys /\ rs'.now \in Keys /\ rs'.prev \in Keys /\ am'.key \in Keys
      /\ rt'.snap.key \in Keys
  BY DEF WellFormed, TypeOK, TypeMem, TypeFl, TypeRs, TypeAm, TypeRt, States
<1>4. \A s \in Ids : heap'[s].key <= now'  BY <1>2, <1>3, StateKeys
<1>5. /\ fl'.key <= now' /\ rs'.now <= now' /\ rs'.prev <= now' /\ am'.key <= now'
      /\ rt'.snap.key <= now'
  BY <1>2, <1>3, CallKeys
<1>6. \A p \in Periods : p > now' => p > now  BY SMTT(30), <1>1 DEF Periods
<1>7. \A p \in Periods : p > now' => db'[p] = 0  BY <1>6, RowKeys
<1> QED  BY <1>4, <1>5, <1>7 DEF Past

(* In the first period there is one key.                                   *)
LEMMA FirstKeys ==
  ASSUME WellFormed, Past, now = 1
  PROVE  /\ 1 \in Periods
         /\ \A s \in Ids : heap[s].key \in {NoKey, 1} /\ KeyOf(s) = 1
         /\ fl.key \in {NoKey, 1} /\ rs.now \in {NoKey, 1} /\ am.key \in {NoKey, 1}
         /\ rt.snap.key \in {NoKey, 1}
<1>1. \A k \in Keys : k <= 1 => k \in {NoKey, 1}  BY SMTT(30) DEF Keys, Periods
<1>2. /\ \A s \in Ids : heap[s].key \in Keys
      /\ fl.key \in Keys /\ rs.now \in Keys /\ am.key \in Keys /\ rt.snap.key \in Keys
      /\ 1 \in Periods
  BY DEF WellFormed, TypeOK, TypeMem, TypeFl, TypeRs, TypeAm, TypeRt, States
<1>3. \A s \in Ids : heap[s].key \in {NoKey, 1}  BY <1>1, <1>2 DEF Past
<1>4. \A s \in Ids : KeyOf(s) = 1  BY <1>3 DEF KeyOf
<1> QED  BY <1>1, <1>2, <1>3, <1>4 DEF Past

(* Charged's bound holds of what a LoadUsage has been given.               *)
LEMMA LoadCharged ==
  ASSUME WellFormed, Past, now = 1, Next,
         lu.val <= counted[1], db[1] <= counted[1]
  PROVE  lu'.val <= counted[1]
<1>1. counted[1] \in Nat
  BY FirstKeys DEF WellFormed, TypeOK, TypeDb
<1>2. LuIdle.val <= counted[1]  BY SMTT(30), <1>1 DEF LuIdle
<1>3. CASE UNCHANGED lu  BY <1>3
<1>4. CASE lu' = LuIdle  BY <1>2, <1>4
<1>5. CASE \E pc, x : lu' = [lu EXCEPT !.pc = pc, !.quota = x]
                      \/ lu' = [lu EXCEPT !.pc = pc, !.state = x]
                      \/ lu' = [lu EXCEPT !.pc = pc]
  BY <1>5 DEF WellFormed, TypeOK, TypeLu
<1>6. CASE LoadUsage(db[1])
  <2>1. lu'.val = db[1]  BY SMTT(30), <1>6 DEF LoadUsage
  <2> QED  BY <2>1
<1>7. CASE Start \/ Crash \/ Close \/ CloseFlush \/ Tick \/ PeerIncr
  BY <1>3, <1>4, <1>7 DEF Start, Crash, Stop, Close, CloseFlush, Tick, PeerIncr
<1>8. CASE \E a \in Adders : AddBytes(a) \/ AddStep(a)
  BY <1>3, <1>8 DEF AddBytes, AddStep, AddState, AddDrop, AddCount, AddDirty, AddTrip
<1>9. CASE LoadStep
  BY <1>4, <1>5, <1>9 DEF LoadStep, LuConfig, LuState, Panic, Stop, LuStore, LuDecide
<1>10. CASE FlushLock \/ FlushStep
  <2>1. CASE FlushReload
    <3>1. fl.key = 1
      BY SMTT(30), <2>1, FirstKeys DEF FlushReload, WellFormed, TypeOK, TypeFl, Periods, NoKey
    <3> QED  BY <1>3, <1>6, <2>1, <3>1 DEF FlushReload
  <2> QED
    BY <1>3, <1>4, <1>10, <2>1 DEF FlushLock, FlushStep, FlushDrain, FlushConsume, FlushFilter,
        FlushIncr, FlushRestore, FlushRedirty, FlushUnlock, Stop
<1>11. CASE ResetStart \/ ResetStep
  BY <1>3, <1>4, <1>11 DEF ResetStart, ResetStep, ResetLoad, ResetKey, Panic, Stop, ResetCompare,
      ResetFlag, ResetLock, ResetDelete
<1>12. CASE ApplyConfig \/ RemoveStart \/ AdminStep
  <2>1. CASE ApplyFetch
    <3>1. am.key = 1
      BY SMTT(30), <2>1, FirstKeys DEF ApplyFetch, WellFormed, TypeOK, TypeAm, Periods, NoKey
    <3> QED  BY <1>3, <1>6, <2>1, <3>1 DEF ApplyFetch
  <2> QED
    BY <1>3, <1>4, <1>12, <2>1 DEF ApplyConfig, RemoveStart, AdminStep, ApplyState, ApplyRead,
        ApplyDecide, ApplyLock, ApplyKey, AdminUnlock, RemoveKey, RemoveRow, RemoveConfig,
        RemoveState, CurrentPeriodKey, Panic, Stop
<1>13. CASE SnapshotUsage \/ SnapshotDrop \/ RestoreConfig \/ RestoreStep
  BY <1>3, <1>13 DEF SnapshotUsage, SnapshotDrop, RestoreConfig, RestoreStep, SnapshotFields,
      RestoreUsage, RestorePending, RestoreFlag, RestoreKey, RestoreField, RestoreSave,
      RestoreClear, RestoreUnlock
<1> QED
  BY <1>7, <1>8, <1>9, <1>10, <1>11, <1>12, <1>13 DEF Next

(* ... and of a snapshot.                                                  *)
LEMMA SnapshotCharged ==
  ASSUME WellFormed, Past, now = 1, Next, \A s \in Ids : heap[s].usage <= counted[1],
         rt.snap.usage <= counted[1]
  PROVE  rt'.snap.usage <= counted[1]
<1>1. counted[1] \in Nat  BY FirstKeys DEF WellFormed, TypeOK, TypeDb
<1>2. CASE UNCHANGED rt  BY <1>2
<1>3. CASE rt' = RtIdle  BY SMTT(30), <1>1, <1>3 DEF RtIdle, Fresh
<1>4. CASE \E pc, s : rt' = [rt EXCEPT !.pc = pc] \/ rt' = [rt EXCEPT !.pc = pc, !.state = s]
  BY <1>4 DEF WellFormed, TypeOK, TypeRt
<1>5. CASE SnapshotUsage
  <2> DEFINE n == IF states = Nil THEN 0 ELSE heap[states].usage
  <2>1. n <= counted[1]
    BY SMTT(30), <1>1, BoundsAssumption DEF WellFormed, TypeOK, TypeMem, Ids, Nil
  <2>2. \E pc, q, s : rt' = [pc |-> pc, quota |-> q, state |-> s,
                             snap |-> [Fresh EXCEPT !.usage = n]]
    BY <1>5 DEF SnapshotUsage
  <2> HIDE DEF n
  <2> QED  BY SMTT(30), <2>1, <2>2 DEF Fresh
<1>6. CASE SnapshotFields
  <2>1. rt' = [rt EXCEPT !.pc = "held",
                         !.snap = [heap[rt.state] EXCEPT !.usage = rt.snap.usage]]
    BY <1>6 DEF SnapshotFields
  <2>2. rt.state \in Ids  BY <1>6 DEF SnapshotFields, WellFormed, TypeOK, TypeRt
  <2>3. heap[rt.state] \in States  BY <2>2 DEF WellFormed, TypeOK, TypeMem
  <2>4. [heap[rt.state] EXCEPT !.usage = rt.snap.usage].usage <= counted[1]
    BY SMTT(30), <2>3
  <2>5. \E x : rt' = [rt EXCEPT !.pc = "held", !.snap = x] /\ x.usage <= counted[1]
    BY <2>1, <2>4
  <2> QED  BY SMTT(30), <2>5
<1>7. CASE SnapshotDrop \/ RestoreConfig \/ RestoreClear \/ RestoreUnlock
  BY <1>3, <1>4, <1>7 DEF SnapshotDrop, RestoreConfig, RestoreClear, RestoreUnlock
<1>8. CASE RestoreUsage \/ RestorePending \/ RestoreFlag \/ RestoreKey \/ RestoreSave
  BY <1>4, <1>8 DEF RestoreUsage, RestorePending, RestoreFlag, RestoreKey, RestoreField,
      RestoreSave
<1> QED  BY <1>2, <1>3, <1>5, <1>6, <1>7, <1>8, Actors DEF RestoreStep, Stop

(* ... and of the usage of a state.                                        *)
LEMMA UsageCharged ==
  ASSUME WellFormed, WellFormed', Past, now = 1, Next, NEW t \in Ids,
         \A s \in Ids : heap[s].usage <= counted[1],
         lu.val <= counted[1], rt.snap.usage <= counted[1], db[1] <= counted[1]
  PROVE  heap'[t].usage <= counted'[1]
<1>1. 1 \in Periods /\ \A s \in Ids : KeyOf(s) = 1  BY FirstKeys
<1>2. /\ heap \in [Ids -> States] /\ counted \in [Periods -> Nat]
      /\ counted[1] \in Nat /\ counted'[1] \in Nat
      /\ heap[t].usage \in Nat /\ heap'[t].usage \in Nat
  BY <1>1 DEF WellFormed, TypeOK, TypeMem, TypeDb, States
<1>3. counted[1] <= counted'[1]  BY <1>1, Grows
<1>4. ASSUME heap'[t].usage <= counted[1]  PROVE heap'[t].usage <= counted'[1]
  BY SMTT(30), <1>2, <1>3, <1>4
<1>5. CASE heap'[t].usage = heap[t].usage  BY <1>4, <1>5
<1>6. CASE UNCHANGED heap  BY <1>5, <1>6
<1>7. CASE \E s \in Ids, n \in Nat : heap' = [heap EXCEPT ![s].pending = n]
  BY <1>2, <1>5, <1>7, PendingUpdate
<1>8. CASE \E s \in Ids, k \in Keys : heap' = [heap EXCEPT ![s].key = k]
  BY <1>2, <1>5, <1>8, KeyUpdate
<1>9. states # Nil => states \in Ids
  BY SMTT(30), BoundsAssumption DEF WellFormed, TypeOK, TypeMem, Ids, Nil
<1>10. CASE Control  BY <1>6, <1>10, ControlFacts
<1>11. CASE Field
  <2>1. CASE \E s \in Ids, n \in Nat : heap' = [heap EXCEPT ![s].usage = n] /\ n <= counted[1]
    <3>1. PICK s \in Ids, n \in Nat : /\ heap' = [heap EXCEPT ![s].usage = n]
                                      /\ n <= counted[1]
      BY <2>1
    <3>2. heap'[s].usage = n /\ \A u \in Ids \ {s} : heap'[u] = heap[u]
      BY <1>2, <3>1, UsageUpdate
    <3> QED  BY <1>4, <3>1, <3>2
  <2>2. CASE LuStore
    <3>1. lu.state \in Ids /\ lu.val \in Nat  BY <2>2 DEF LuStore, WellFormed, TypeOK, TypeLu
    <3> QED  BY <2>1, <2>2, <3>1 DEF LuStore
  <2>3. CASE RestoreUsage
    <3>1. rt.state \in Ids /\ rt.snap.usage \in Nat
      BY <2>3 DEF RestoreUsage, RestoreField, WellFormed, TypeOK, TypeRt, States
    <3> QED  BY <2>1, <2>3, <3>1 DEF RestoreUsage, RestoreField
  <2>4. CASE LuDecide \/ ApplyDecide \/ RestoreFlag \/ \E a \in Adders : AddTrip(a)
    <3>1. \E s, b : heap' = [heap EXCEPT ![s].exceeded = b]
      BY <2>4 DEF LuDecide, ApplyDecide, RestoreFlag, RestoreField, AddTrip
    <3>2. heap'[t].usage = heap[t].usage  BY SMTT(30), <1>2, <3>1
    <3> QED  BY <1>5, <3>2
  <2> QED  BY <1>11, <2>2, <2>3, <2>4 DEF Field
<1>12. CASE KeyStep  BY <1>5, <1>12, KeyFacts
<1>13. CASE Stops
  <2>1. heap' = [s \in Ids |-> Fresh]  BY <1>13 DEF Stops, Stop
  <2> QED  BY SMTT(30), <1>2, <2>1 DEF Fresh
<1>14. CASE Start
  <2>1. PICK q \in Quotas \cup {NoConfig}, n \in {0, db[now]} :
          heap' = IF q = NoConfig THEN heap
                  ELSE [heap EXCEPT ![1] = [usage |-> n, pending |-> 0,
                                            exceeded |-> n > q, key |-> now]]
    BY <1>14 DEF Start
  <2> DEFINE over == n > q
             r == [usage |-> n, pending |-> 0, exceeded |-> over, key |-> now]
  <2>2. UNCHANGED heap \/ heap' = [heap EXCEPT ![1] = r]  BY <2>1
  <2> HIDE DEF over
  <2>3. r.usage = n /\ n <= counted[1]  BY SMTT(30), <1>2
  <2> HIDE DEF r
  <2>4. CASE heap' = [heap EXCEPT ![1] = r]
    <3>1. heap'[t] = heap[t] \/ heap'[t] = r  BY <1>2, <2>4
    <3> QED  BY <1>4, <2>3, <3>1
  <2> QED  BY <1>6, <2>2, <2>4
<1>15. CASE \E a \in Adders : AddCount(a)
  <2>1. PICK a \in Adders : AddCount(a)  BY <1>15
  <2>2. ad[a].state \in Ids  BY <2>1 DEF AddCount, WellFormed, TypeOK, TypeAd
  <2>3. PICK s \in Ids : /\ heap' = [heap EXCEPT ![s].key = KeyOf(s), ![s].usage = @ + 1,
                                                 ![s].pending = @ + 1]
                         /\ counted' = [counted EXCEPT ![KeyOf(s)] = @ + 1]
    BY <2>1, <2>2 DEF AddCount
  <2>4. KeyOf(s) = 1 /\ KeyOf(s) \in Keys  BY <1>1 DEF Keys
  <2>5. heap'[s].usage = heap[s].usage + 1 /\ \A u \in Ids \ {s} : heap'[u] = heap[u]
    BY <1>2, <2>3, <2>4, CountUpdate
  <2>6. counted'[1] = counted[1] + 1  BY <1>1, <1>2, <2>3, <2>4
  <2>7. CASE t = s
    <3>1. heap[s].usage <= counted[1]  OBVIOUS
    <3>2. heap'[t].usage = heap[t].usage + 1 /\ heap[t].usage <= counted[1]
      BY <2>5, <2>7, <3>1
    <3> QED  BY SMTT(30), <1>2, <2>6, <3>2
  <2>8. CASE t # s  BY <1>5, <2>5, <2>8
  <2> QED  BY <2>7, <2>8
<1>16. CASE FlushConsume \/ RestoreClear
  <2>1. UNCHANGED heap \/ (states # Nil /\ heap' = [heap EXCEPT ![states].pending = 0])
    BY <1>16 DEF FlushConsume, RestoreClear
  <2>2. 0 \in Nat  OBVIOUS
  <2> QED  BY <1>6, <1>7, <1>9, <2>1, <2>2
<1>17. CASE FlushRestore
  <2>1. UNCHANGED heap \/ \E s \in Ids : heap' = [heap EXCEPT ![s].pending = @ + fl.delta]
    BY <1>17 DEF FlushRestore
  <2>2. \A s \in Ids : heap[s].pending + fl.delta \in Nat
    BY SMTT(30), <1>2 DEF States, WellFormed, TypeOK, TypeFl
  <2> QED  BY <1>6, <1>7, <2>1, <2>2
<1>18. CASE ResetCompare
  <2>1. rs.state \in Ids /\ rs.now \in Keys
    BY <1>18 DEF ResetCompare, WellFormed, TypeOK, TypeRs
  <2>2. \/ heap' = [heap EXCEPT ![rs.state].key = rs.now]
        \/ heap' = [heap EXCEPT ![rs.state].usage = 0, ![rs.state].pending = 0]
    BY <1>18 DEF ResetCompare
  <2>3. CASE heap' = [heap EXCEPT ![rs.state].usage = 0, ![rs.state].pending = 0]
    <3>1. heap'[t].usage = 0 \/ heap'[t] = heap[t]
      BY <1>2, <2>1, <2>3, ClearUpdate
    <3> QED  BY SMTT(30), <1>2, <1>5, <3>1
  <2> QED  BY <1>8, <2>1, <2>2, <2>3
<1>19. CASE ResetFlag
  <2>1. rs.state \in Ids /\ rs.now \in Keys
    BY <1>19 DEF ResetFlag, WellFormed, TypeOK, TypeRs
  <2>2. heap' = [heap EXCEPT ![rs.state].exceeded = FALSE, ![rs.state].key = rs.now]
    BY <1>19 DEF ResetFlag
  <2> QED  BY <1>2, <1>5, <2>1, <2>2, MoveUpdate
<1>20. CASE RestorePending
  <2>1. heap' = [heap EXCEPT ![rt.state].pending = rt.snap.pending]
    BY <1>20 DEF RestorePending, RestoreField
  <2>2. rt.state \in Ids /\ rt.snap.pending \in Nat
    BY <1>20 DEF RestorePending, RestoreField, WellFormed, TypeOK, TypeRt, States
  <2> QED  BY <1>7, <2>1, <2>2
<1>21. CASE RestoreKey \/ RestoreSave
  <2>1. rt.state \in Ids /\ rt.snap.key \in Keys
    BY <1>21 DEF RestoreKey, RestoreField, RestoreSave, WellFormed, TypeOK, TypeRt, States
  <2>2. \/ UNCHANGED heap \/ heap' = [heap EXCEPT ![rt.state].key = rt.snap.key]
        \/ heap' = [heap EXCEPT ![rt.state].key = KeyOf(rt.state)]
    BY <1>21 DEF RestoreKey, RestoreField, RestoreSave, SetKeyIfEmpty
  <2>3. KeyOf(rt.state) \in Keys  BY <1>1, <2>1 DEF Keys
  <2> QED  BY <1>6, <1>8, <2>1, <2>2, <2>3
<1>22. CASE FlushFilter \/ FlushIncr \/ PeerIncr \/ ResetDelete \/ RemoveRow \/ RemoveState
  BY <1>6, <1>22 DEF FlushFilter, FlushIncr, PeerIncr, ResetDelete, RemoveRow, RemoveState,
      memVars
<1> QED
  BY <1>10, <1>11, <1>12, <1>13, <1>14, <1>15, <1>16, <1>17, <1>18, <1>19, <1>20, <1>21, <1>22,
      Kinds

(* ... and of the row: what a flush adds was in its hands, and the ledger  *)
(* was charged.                                                            *)
LEMMA RowCharged ==
  ASSUME WellFormed, WellFormed', Past, Charged, now = 1, fails = 0, fails' = 0, Next
  PROVE  db'[1] <= counted'[1]
<1>1. 1 \in Periods /\ counted[1] <= counted'[1]  BY FirstKeys, Grows
<1>2. /\ db \in [Periods -> Nat] /\ counted \in [Periods -> Nat]
      /\ db[1] \in Nat /\ counted[1] \in Nat /\ counted'[1] \in Nat /\ db'[1] \in Nat
  BY <1>1 DEF WellFormed, TypeOK, TypeDb
<1>3. /\ db[1] <= counted[1] /\ rt.snap.usage <= counted[1]
      /\ run \in {"up", "down"} /\ rt.pc \notin Window =>
           db[1] + Pending(1) + InFlight(1) <= counted[1]
  BY DEF Charged
<1>4. CASE db'[1] <= counted[1]  BY SMTT(30), <1>1, <1>2, <1>4
<1>5. CASE UNCHANGED db  BY <1>3, <1>4, <1>5
<1>6. CASE \E k : DeleteRow(k)
  <2>1. \E k : db' = [db EXCEPT ![k] = 0]  BY <1>6 DEF DeleteRow
  <2>2. db'[1] = 0 \/ db'[1] = db[1]  BY <1>1, <1>2, <2>1
  <2> QED  BY SMTT(30), <1>1, <1>2, <1>3, <2>2
<1>7. CASE Control \/ Field \/ KeyStep
  BY <1>5, <1>7, ControlFacts, FieldFacts, KeyFacts
<1>8. CASE Stops \/ Start \/ \E a \in Adders : AddCount(a)
  BY <1>5, <1>8 DEF Stops, Start, AddCount, dbVars
<1>9. CASE FlushConsume \/ FlushFilter \/ FlushRestore \/ ResetCompare \/ ResetFlag
  BY <1>5, <1>9 DEF FlushConsume, FlushFilter, FlushRestore, ResetCompare, ResetFlag, dbVars
<1>10. CASE ResetDelete \/ RemoveRow \/ RemoveState
  BY <1>5, <1>6, <1>10 DEF ResetDelete, RemoveRow, RemoveState, dbVars
<1>11. CASE PeerIncr
  <2>1. db' = [db EXCEPT ![1] = @ + 1] /\ counted' = [counted EXCEPT ![1] = @ + 1]
    BY <1>11 DEF PeerIncr, IncrBy
  <2> QED  BY SMTT(30), <1>1, <1>2, <1>3, <2>1
<1>12. CASE FlushIncr
  <2>1. fl.pc = "incr" /\ fl.key = 1 /\ fl.delta \in Nat
    BY SMTT(30), <1>12, FirstKeys DEF FlushIncr, WellFormed, TypeOK, TypeFl, Periods, NoKey
  <2>2. CASE UNCHANGED db  BY <1>5, <2>2
  <2>3. CASE run = "up" /\ IncrBy(fl.key, fl.delta)
    <3>1. rt.pc \notin Window
      BY <2>1, HoldersAssumption DEF WellFormed, Locks, RestorerHolds, Window
    <3>2. InFlight(1) = fl.delta /\ Pending(1) \in Nat
      BY <1>1, <2>1, Columns DEF InFlight, Numbers
    <3>3. db[1] + Pending(1) + InFlight(1) <= counted[1]  BY <1>3, <2>3, <3>1
    <3>4. db[1] + fl.delta <= counted[1]
      <4> HIDE DEF Pending, InFlight
      <4> QED  BY SMTT(30), <1>2, <2>1, <3>2, <3>3
    <3>5. db' = [db EXCEPT ![1] = @ + fl.delta]  BY <2>1, <2>3 DEF IncrBy
    <3>6. db'[1] = db[1] + fl.delta  BY <1>1, <1>2, <3>5
    <3> QED  BY <1>4, <3>4, <3>6
  <2>4. CASE CallFails /\ run = "up"
    <3>1. fails' = fails + 1  BY <2>4 DEF CallFails
    <3> QED  BY SMTT(30), <3>1
  <2> QED  BY <1>12, <2>2, <2>3, <2>4 DEF FlushIncr, CallSucceeds, dbVars
<1>13. CASE RestorePending \/ RestoreKey \/ RestoreClear
  BY <1>5, <1>13 DEF RestorePending, RestoreKey, RestoreClear, RestoreField, dbVars
<1>14. CASE RestoreSave
  <2>1. UNCHANGED db \/ \E k : db' = [db EXCEPT ![k] = rt.snap.usage]
    BY <1>14 DEF RestoreSave, dbVars
  <2>2. db'[1] = db[1] \/ db'[1] = rt.snap.usage  BY <1>1, <1>2, <2>1
  <2> QED  BY <1>3, <1>4, <2>2
<1> QED
  BY <1>7, <1>8, <1>9, <1>10, <1>11, <1>12, <1>13, <1>14, Kinds

(* Only the end of the process takes it out of Close.                      *)
LEMMA CloseEnds ==
  ASSUME WellFormed, Next, run \notin {"up", "down"}, run' \in {"up", "down"}
  PROVE  Stops
<1>1. CASE Control
  <2>1. CASE UNCHANGED run  BY <2>1
  <2>2. CASE Close \/ CloseFlush  BY <2>2 DEF Close, CloseFlush
  <2>3. CASE \/ Tick \/ LuConfig
             \/ \E a \in Adders : AddBytes(a) \/ AddDrop(a) \/ AddDirty(a)
    BY <2>1, <2>3 DEF Tick, LuConfig, AddBytes, AddDrop, AddDirty
  <2>4. CASE \/ FlushLock \/ FlushDrain \/ FlushRedirty \/ FlushReload
             \/ FlushUnlock /\ run # "final"
    BY <2>1, <2>4 DEF FlushLock, FlushDrain, FlushRedirty, FlushReload, FlushUnlock
  <2>5. CASE ResetStart \/ ResetLoad \/ (ResetKey /\ UNCHANGED run) \/ ResetLock
    BY <2>1, <2>5 DEF ResetStart, ResetLoad, ResetLock
  <2>6. CASE \/ ApplyConfig \/ ApplyRead \/ ApplyLock \/ ApplyFetch \/ AdminUnlock
             \/ RemoveStart \/ RemoveConfig
    BY <2>1, <2>6 DEF ApplyConfig, ApplyRead, ApplyLock, ApplyFetch, AdminUnlock, RemoveStart,
        RemoveConfig
  <2>7. CASE SnapshotUsage \/ SnapshotFields \/ SnapshotDrop \/ RestoreUnlock
    BY <2>1, <2>7 DEF SnapshotUsage, SnapshotFields, SnapshotDrop, RestoreUnlock
  <2> QED  BY <1>1, <2>2, <2>3, <2>4, <2>5, <2>6, <2>7 DEF Control
<1>2. CASE UNCHANGED run  BY <1>2
<1>3. CASE Field \/ KeyStep  BY <1>2, <1>3, FieldFacts, KeyFacts
<1>4. CASE Start  BY <1>4 DEF Start
<1>5. CASE PeerIncr \/ \E a \in Adders : AddCount(a)
  BY <1>2, <1>5 DEF PeerIncr, AddCount
<1>6. CASE FlushConsume \/ FlushFilter \/ FlushIncr \/ FlushRestore
  BY <1>2, <1>6 DEF FlushConsume, FlushFilter, FlushIncr, FlushRestore
<1>7. CASE ResetCompare \/ ResetFlag \/ ResetDelete \/ RemoveRow \/ RemoveState
  BY <1>2, <1>7 DEF ResetCompare, ResetFlag, ResetDelete, RemoveRow, RemoveState
<1>8. CASE RestorePending \/ RestoreKey \/ RestoreSave \/ RestoreClear
  BY <1>2, <1>8 DEF RestorePending, RestoreKey, RestoreSave, RestoreClear, RestoreField
<1> QED  BY <1>1, <1>3, <1>4, <1>5, <1>6, <1>7, <1>8, Kinds

(* ... and of the whole ledger, outside Close and RestoreState's window.   *)
LEMMA LedgerCharged ==
  ASSUME WellFormed, WellFormed', Past, Charged, now = 1, fails = 0, fails' = 0, Next,
         db'[1] <= counted'[1], run' \in {"up", "down"}, rt'.pc \notin Window
  PROVE  db'[1] + Pending(1)' + InFlight(1)' <= counted'[1]
<1>1. 1 \in Periods /\ counted[1] <= counted'[1]  BY FirstKeys, Grows
<1>2. Numbers /\ Numbers'  BY Columns, ColumnsNext
<1>3. CASE Pending(1)' = 0 /\ InFlight(1)' = 0
  <2> HIDE DEF Pending, InFlight
  <2> QED  BY SMTT(30), <1>1, <1>2, <1>3 DEF Numbers
<1>4. CASE Stop
  <2>1. states' = Nil /\ fl' = FlIdle  BY <1>4 DEF Stop
  <2> QED  BY <1>3, <2>1 DEF Pending, InFlight, FlIdle
<1>5. CASE rt.pc \in Window
  <2>1. fl.pc = "idle"
    BY <1>5, HoldersAssumption DEF WellFormed, Locks, RestorerHolds, Window
  <2>2. CASE RestoreClear
    <3>1. UNCHANGED <<states, fl>>
          /\ (states # Nil => heap' = [heap EXCEPT ![states].pending = 0])
      BY <2>2 DEF RestoreClear
    <3>2. states # Nil => states \in Ids
      BY SMTT(30), BoundsAssumption DEF WellFormed, TypeOK, TypeMem, Ids, Nil
    <3>3. heap \in [Ids -> States]  BY DEF WellFormed, TypeOK, TypeMem
    <3>4. states # Nil => heap'[states].pending = 0
      BY <3>1, <3>2, <3>3, PendingUpdate
    <3> QED  BY <1>3, <2>1, <3>1, <3>4 DEF Pending, InFlight
  <2>3. CASE RestoreSave
    <3>1. \/ rt' = [rt EXCEPT !.pc = "clear"]
          \/ CallFails /\ UNCHANGED run
      BY <2>3 DEF RestoreSave
    <3>2. CASE rt' = [rt EXCEPT !.pc = "clear"]
      BY SMTT(30), <3>2 DEF Window
    <3>3. CASE CallFails /\ UNCHANGED run  BY SMTT(30), <3>3 DEF CallFails
    <3> QED  BY <3>1, <3>2, <3>3
  <2>4. CASE RestoreFlag \/ RestoreKey
    <3>1. \E pc \in {"key", "save"} : rt' = [rt EXCEPT !.pc = pc]
      BY <2>4 DEF RestoreFlag, RestoreKey, RestoreField
    <3> QED  BY SMTT(30), <3>1 DEF Window
  <2>5. CASE UNCHANGED rt  BY <1>5, <2>5
  <2>6. CASE \/ SnapshotUsage \/ SnapshotDrop \/ RestoreConfig \/ SnapshotFields
             \/ RestoreUsage \/ RestorePending \/ RestoreUnlock
    BY <1>5, <2>6 DEF Window, SnapshotUsage, SnapshotDrop, RestoreConfig, SnapshotFields,
        RestoreUsage, RestorePending, RestoreField, RestoreUnlock
  <2> QED  BY <1>4, <2>2, <2>3, <2>4, <2>5, <2>6, Actors DEF RestoreStep
<1>6. CASE rt.pc \notin Window /\ run \in {"up", "down"}
  <2>1. rs.pc = "flag" => heap[rs.state].pending = 0 \/ heap[rs.state].key = rs.now
    <3>1. rs.pc = "flag" => rs.state \in Ids /\ rs.now \in Periods
      BY DEF WellFormed, TypeOK, TypeRs
    <3>2. rs.pc = "flag" => rs.now = 1  BY SMTT(30), <3>1, FirstKeys DEF Periods, NoKey
    <3> QED  BY <1>6, <3>1, <3>2, FirstKeys, Unkeyed
  <2>2. Balanced(1)  BY <1>1, <1>6, <2>1, Balance
  <2>3. db[1] + Pending(1) + InFlight(1) <= counted[1]  BY <1>6 DEF Charged
  <2>4. twice'[1] = twice[1]  BY SMTT(30), <2>2 DEF Balanced
  <2> HIDE DEF Pending, InFlight
  <2> QED  BY SMTT(30), <1>1, <1>2, <2>2, <2>3, <2>4 DEF Balanced, Numbers
<1>7. CASE run \notin {"up", "down"}  BY <1>4, <1>7, CloseEnds DEF Stops
<1> QED  BY <1>5, <1>6, <1>7

(* Every step keeps Charged.                                               *)
LEMMA ChargedNext ==
  ASSUME WellFormed, WellFormed', Past, Charged, Next  PROVE Charged'
<1> SUFFICES ASSUME now' = 1, fails' = 0  PROVE Charged'  BY DEF Charged
<1>1. now = 1 /\ fails = 0
  <2>1. now <= now' /\ fails <= fails'  BY Grows
  <2> QED  BY SMTT(30), <2>1 DEF WellFormed, TypeOK, TypeMem, TypeCounters, Periods
<1>2. 1 \in Periods /\ counted[1] <= counted'[1]  BY <1>1, FirstKeys, Grows
<1>3. /\ \A s \in Ids : heap[s].usage <= counted[1]
      /\ lu.val <= counted[1] /\ rt.snap.usage <= counted[1] /\ db[1] <= counted[1]
  BY <1>1 DEF Charged
<1>4. \A s \in Ids : heap'[s].usage <= counted'[1]  BY <1>1, <1>3, UsageCharged
<1>5. lu'.val <= counted[1] /\ rt'.snap.usage <= counted[1]
  BY <1>1, <1>3, LoadCharged, SnapshotCharged
<1>6. lu'.val <= counted'[1] /\ rt'.snap.usage <= counted'[1]
  BY SMTT(30), <1>2, <1>5 DEF WellFormed, TypeOK, TypeDb, TypeLu, TypeRt, States
<1>7. db'[1] <= counted'[1]  BY <1>1, RowCharged
<1>8. run' \in {"up", "down"} /\ rt'.pc \notin Window =>
        db'[1] + Pending(1)' + InFlight(1)' <= counted'[1]
  BY <1>1, <1>7, LedgerCharged
<1> QED  BY <1>4, <1>6, <1>7, <1>8 DEF Charged

-----------------------------------------------------------------------------
(* The inductive invariant.                                                *)
Accounted ==
  /\ WellFormed /\ Drained /\ Rows /\ Past /\ Charged
  /\ Conservation /\ PendingIsDirty

(* It holds when nothing has been counted.                                 *)
LEMMA InitAccounted == Init => Accounted
<1> SUFFICES ASSUME Init  PROVE Accounted  OBVIOUS
<1>1. WellFormed  BY InitWF
<1>2. states = Nil /\ rows = {} /\ now = 1  BY DEF Init
<1>3. /\ fl.pc = "idle" /\ fl.key = 0
      /\ rs.pc = "idle" /\ rs.now = 0 /\ rs.prev = 0
  BY DEF Init, FlIdle, RsIdle, NoKey
<1>4. am.pc = "idle" /\ am.key = 0 /\ lu.val = 0  BY DEF Init, AmIdle, LuIdle, NoKey
<1>5. rt.snap.key = 0 /\ rt.snap.usage = 0  BY DEF Init, RtIdle, Fresh, NoKey
<1>6. \A s \in Ids : heap[s].usage = 0 /\ heap[s].key = 0  BY DEF Init, Fresh, NoKey
<1>7. \A p \in Periods : Pending(p) = 0 /\ InFlight(p) = 0
  BY <1>2, <1>3 DEF Pending, InFlight
<1>8. /\ 1 \in Periods
      /\ \A p \in Periods : db[p] = 0 /\ counted[p] = 0 /\ discarded[p] = 0 /\ twice[p] = 0
  <2>1. 1 \in Periods  BY <1>1, <1>2 DEF WellFormed, TypeOK, TypeMem
  <2> QED  BY <2>1 DEF Init
<1>9. Drained  BY <1>3 DEF Drained
<1>10. Rows  BY <1>2, <1>3, <1>4 DEF Rows, Forgotten
<1>11. PendingIsDirty  BY <1>2 DEF PendingIsDirty
<1>12. Past
  <2>1. 0 <= now  BY SMTT(30), <1>2
  <2> QED  BY <1>3, <1>4, <1>5, <1>6, <1>8, <2>1 DEF Past
<1> HIDE DEF Pending, InFlight
<1>13. Conservation  BY SMTT(30), <1>7, <1>8 DEF Conservation
<1>14. Charged
  <2>1. 0 <= 0 /\ 0 + 0 + 0 <= 0  BY SMTT(30)
  <2> QED  BY <1>4, <1>5, <1>6, <1>7, <1>8, <2>1 DEF Charged
<1> QED  BY <1>1, <1>9, <1>10, <1>11, <1>12, <1>13, <1>14 DEF Accounted

(* Every step keeps it.                                                    *)
LEMMA NextAccounted == Accounted /\ [Next]_vars => Accounted'
<1> SUFFICES ASSUME Accounted, [Next]_vars  PROVE Accounted'  OBVIOUS
<1>1. WellFormed'  BY NextWF DEF Accounted
<1>2. CASE Next
  BY <1>1, <1>2, DrainedNext, RowsNext, PastNext, ChargedNext, ConservationNext,
      PendingIsDirtyNext DEF Accounted
<1>3. CASE UNCHANGED vars
  <2>1. UNCHANGED <<run, now, config, states, heap, dirty, rows, db, ad, fl, lu, rs, am, rt,
                    fails, counted, discarded, twice, leaked, restored>>
    BY <1>3 DEF vars, memVars, dbVars, boundVars, histVars
  <2>2. \A p : /\ Pending(p)' = Pending(p) /\ InFlight(p)' = InFlight(p)
               /\ Leaving(p)' = Leaving(p) /\ Owned(p)' = Owned(p)
    BY <2>1 DEF Pending, InFlight, Leaving, Owned
  <2>3. Drained'  BY <2>1 DEF Accounted, Drained
  <2>4. Past'  BY <2>1 DEF Accounted, Past
  <2>5. PendingIsDirty'  BY <2>1 DEF Accounted, PendingIsDirty
  <2>6. Rows'
    <3>1. Owned(fl.key)' = Owned(fl.key)  BY <2>1 DEF Owned, Leaving
    <3>2. Forgotten' = Forgotten  BY <2>1 DEF Forgotten
    <3> QED  BY <2>1, <2>2, <3>1, <3>2 DEF Accounted, Rows
  <2> HIDE DEF Pending, InFlight
  <2>7. Charged'  BY <2>1, <2>2 DEF Accounted, Charged
  <2>8. Conservation'  BY <2>1, <2>2 DEF Accounted, Conservation
  <2> QED  BY <1>1, <2>3, <2>4, <2>5, <2>6, <2>7, <2>8 DEF Accounted
<1> QED  BY <1>2, <1>3

(* Accounted is an invariant of the accounting.                            *)
THEOREM AccountingInvariant == Spec => []Accounted
BY InitAccounted, NextAccounted, PTL DEF Spec

(* No byte is lost, persisted twice or moved to another period: until a    *)
(* RestoreState, every byte that AddBytes or a peer counted under a period *)
(* is in its row, pending, in a flush's hands or was given up with the     *)
(* period, the user or the process; the excess is what failed IncrBys      *)
(* that took effect have added.                                            *)
THEOREM BytesConserved == Spec => []Conservation
<1>1. Accounted => Conservation  BY DEF Accounted
<1> QED  BY <1>1, AccountingInvariant, PTL

(* The dirty queue misses no pending bytes, whatever interleaves with      *)
(* AddBytes between its pending.Add and its markDirty, or with a flush     *)
(* between taking the queue and taking the delta.                          *)
THEOREM DirtyComplete == Spec => []PendingIsDirty
<1>1. Accounted => PendingIsDirty  BY DEF Accounted
<1> QED  BY <1>1, AccountingInvariant, PTL

(* No flush brings back the row of a past period or of a removed user.     *)
THEOREM RowsAreOwned == Spec => []RowsOwned
<1>1. Accounted => RowsOwned  BY DEF Accounted, Rows, Owned, Leaving, RowsOwned
<1> QED  BY <1>1, AccountingInvariant, PTL

(* Nothing is charged twice in the first period, RestoreState's absolute   *)
(* values and LoadUsage's included.                                        *)
THEOREM NothingOvercounted == Spec => []NoOvercount
<1>1. Accounted => NoOvercount
  <2> SUFFICES ASSUME Accounted, now = 1, fails = 0, run \in {"up", "down"},
                      rt.pc \notin Window, NEW p \in Periods
               PROVE  db[p] + Pending(p) + InFlight(p) <= counted[p]
    BY DEF NoOvercount, Window
  <2>1. CASE p = 1  BY <2>1 DEF Accounted, Charged
  <2>2. CASE p # 1
    <3>0. p > now
      BY SMTT(30), <2>2, BoundsAssumption DEF Periods
    <3>1. /\ p > now /\ db[p] = 0 /\ counted[p] \in Nat
          /\ states # Nil => states \in Ids
      <4>1. db[p] = 0  BY <3>0 DEF Accounted, Past
      <4>2. counted[p] \in Nat  BY DEF Accounted, WellFormed, TypeOK, TypeDb
      <4>3. states # Nil => states \in Ids
        BY SMTT(30), BoundsAssumption DEF Accounted, WellFormed, TypeOK, TypeMem, Ids, Nil
      <4> QED BY <3>0, <4>1, <4>2, <4>3
    <3>2. p # NoKey /\ fl.key # p /\ (states # Nil => heap[states].key # p)
      BY SMTT(30), <2>2, <3>1, FirstKeys DEF Accounted, NoKey
    <3>3. Pending(p) = 0 /\ InFlight(p) = 0  BY <3>2 DEF Pending, InFlight
    <3> HIDE DEF Pending, InFlight
    <3> QED  BY SMTT(30), <3>1, <3>3
  <2> QED  BY <2>1, <2>2
<1> QED  BY <1>1, AccountingInvariant, PTL
=============================================================================
