---------------------- MODULE QuotaUsageLedgerProofs ------------------------
(***************************************************************************)
(* What the steps of QuotaUsage do to the ledger of a period: its row, its *)
(* pending bytes and the bytes in a flush's hands.                         *)
(*                                                                         *)
(* Most steps leave every ledger alone (Neutral); the others move bytes    *)
(* between its columns (Balance).  Conservation needs that                 *)
(* CheckPeriodReset re-keys a state it has emptied (Drained).  RowsOwned   *)
(* needs what the flush, RemoveConfig and the reset know of the rows       *)
(* between their steps (Rows).                                             *)
(***************************************************************************)
EXTENDS QuotaUsageTypeProofs

(* Zenon proves what does not say otherwise.                              *)
USE ZenonT(30)

(* Between CheckPeriodReset's stores the state is empty and keeps its key. *)
Drained ==
  ~restored /\ rs.pc = "flag" =>
    heap[rs.state].pending = 0 /\ heap[rs.state].key = rs.prev

(* The row of p is about to be deleted, or was left behind.                *)
Leaving(p) == (rs.pc \in {"flag", "lock", "delete"} /\ rs.prev = p) \/ p \in leaked

Owned(p) == (states # Nil /\ heap[states].key = p) \/ Leaving(p)

(* Without a config, the map's state is one that stateFor resurrected: it  *)
(* has no key, and no reset is under way that would give it one.           *)
Forgotten ==
  config = NoConfig /\ states # Nil /\ am.pc # "rmState" =>
    /\ heap[states].key = NoKey
    /\ ~(rs.pc \in {"compare", "flag"} /\ rs.state = states)

(* RowsOwned, with what the steps of the flush, RemoveConfig and the reset *)
(* that write or re-key know of the rows.                                  *)
Rows ==
  ~restored =>
    /\ \A p \in rows : Owned(p)
    /\ fl.pc \in {"filter", "incr"} => Owned(fl.key)
    /\ am.pc = "rmRow" => \A p \in rows : p = am.key \/ Leaving(p)
    /\ am.pc \in {"rmConfig", "rmState"} => \A p \in rows : Leaving(p)
    /\ Forgotten

(* From RestoreState's pending.Store to its ClearPendingDelta, bytes may   *)
(* be both pending and in the usage it saves.                              *)
Window == {"flag", "key", "save", "clear"}

-----------------------------------------------------------------------------
(* The columns of a ledger.                                                *)

(* Pending depends on the map's entry, its key and its pending bytes.      *)
LEMMA PendingKept ==
  ASSUME NEW p, UNCHANGED states,
         states # Nil => /\ heap'[states].pending = heap[states].pending
                         /\ heap'[states].key = heap[states].key
  PROVE  Pending(p)' = Pending(p)
BY DEF Pending

(* A state that stateFor allocates has no bytes; re-keying a state without *)
(* bytes moves none.                                                       *)
LEMMA PendingStateFor ==
  ASSUME TypeMem, Allocated, NEW p, NEW s \in Ids, StateFor(s),
         heap'[s].pending = heap[s].pending,
         heap'[s].key = heap[s].key \/ heap[s].pending = 0
  PROVE  Pending(p)' = Pending(p)
<1>1. states' = s /\ (states # Nil => s = states) /\ (states = Nil => s > nStates)
  BY StateForFacts
<1>2. states = Nil => heap[s].pending = 0
  BY SMTT(30), <1>1 DEF Allocated, Fresh
<1> QED  BY <1>1, <1>2 DEF Pending

(* InFlight depends on the flush's position, key and delta.                *)
LEMMA InFlightKept ==
  ASSUME NEW p,
         \/ UNCHANGED fl
         \/ /\ fl.pc \notin {"filter", "incr", "restore"}
            /\ fl'.pc \notin {"filter", "incr", "restore"}
  PROVE  InFlight(p)' = InFlight(p)
BY DEF InFlight

(* A state without a key has no pending bytes, outside RestoreState.       *)
LEMMA Unkeyed ==
  ASSUME WellFormed, rt.pc \notin Window, NEW s \in Ids, heap[s].key = NoKey
  PROVE  heap[s].pending = 0
BY SMTT(30) DEF WellFormed, TypeOK, TypeMem, States, Keyed, Window

-----------------------------------------------------------------------------
(* The steps that leave every ledger alone.                                *)

(* Steps that store into no *userState and write no row.                   *)
Control ==
  \/ Close \/ CloseFlush \/ Tick \/ LuConfig
  \/ \E a \in Adders : AddBytes(a) \/ AddDrop(a) \/ AddDirty(a)
  \/ FlushLock \/ FlushDrain \/ FlushRedirty \/ FlushReload
  \/ FlushUnlock /\ run # "final"
  \/ ResetStart \/ ResetLoad \/ (ResetKey /\ UNCHANGED run) \/ ResetLock
  \/ ApplyConfig \/ ApplyRead \/ ApplyLock \/ ApplyFetch \/ AdminUnlock
  \/ RemoveStart \/ RemoveConfig
  \/ SnapshotUsage \/ SnapshotFields \/ SnapshotDrop \/ RestoreUnlock

(* Steps that store the usage or the flag of a *userState.                 *)
Field ==
  \/ \E a \in Adders : AddTrip(a)
  \/ LuStore \/ LuDecide \/ ApplyDecide \/ RestoreUsage \/ RestoreFlag

(* Steps that call stateFor, and setPeriodKeyIfEmpty with a config.        *)
KeyStep ==
  \/ \E a \in Adders : AddState(a)
  \/ LuState \/ ApplyState \/ ApplyKey \/ RemoveKey \/ RestoreConfig

(* Control steps leave the states, the rows and the history alone.         *)
LEMMA ControlFacts ==
  ASSUME WellFormed, Control
  PROVE  /\ UNCHANGED <<states, heap, rows, db, counted, discarded, twice, leaked, restored>>
         /\ \A p \in Periods : InFlight(p)' = InFlight(p)
         /\ \/ ResetStart \/ ResetLoad \/ (ResetKey /\ UNCHANGED run) \/ ResetLock
            \/ UNCHANGED rs
<1> USE DEF memVars, dbVars, histVars
<1>1. CASE \/ Close \/ Tick \/ LuConfig
           \/ \E a \in Adders : AddBytes(a) \/ AddDrop(a) \/ AddDirty(a)
  BY <1>1, InFlightKept DEF Close, Tick, LuConfig, AddBytes, AddDrop, AddDirty
<1>2. CASE \/ CloseFlush \/ FlushLock \/ FlushDrain \/ FlushRedirty \/ FlushReload
           \/ FlushUnlock /\ run # "final"
  <2>1. /\ fl.pc \notin {"filter", "incr", "restore"}
        /\ fl'.pc \notin {"filter", "incr", "restore"}
    BY SMTT(30), <1>2 DEF CloseFlush, FlushLock, FlushDrain, FlushRedirty, FlushReload,
        FlushUnlock, FlIdle, WellFormed, TypeOK, TypeFl
  <2>2. /\ UNCHANGED <<states, heap, rows, db, counted, discarded, twice, leaked, restored>>
        /\ UNCHANGED rs
    BY <1>2 DEF CloseFlush, FlushLock, FlushDrain, FlushRedirty, FlushReload, FlushUnlock
  <2>3. \A p \in Periods : InFlight(p)' = InFlight(p)
    BY <2>1, <2>2, InFlightKept
  <2> QED  BY <2>2, <2>3
<1>3. CASE ResetStart \/ ResetLoad \/ (ResetKey /\ UNCHANGED run) \/ ResetLock
  <2>1. CASE ResetKey /\ UNCHANGED run
    <3>1. run # "down"  BY SMTT(30), <2>1 DEF ResetKey, WellFormed, Off, RsIdle
    <3> QED  BY <2>1, <3>1, InFlightKept DEF ResetKey, Panic, Stop
  <2> QED  BY <1>3, <2>1, InFlightKept DEF ResetStart, ResetLoad, ResetLock
<1>4. CASE \/ ApplyConfig \/ ApplyRead \/ ApplyLock \/ ApplyFetch \/ AdminUnlock
           \/ RemoveStart \/ RemoveConfig
  BY <1>4, InFlightKept DEF ApplyConfig, ApplyRead, ApplyLock, ApplyFetch, AdminUnlock,
      RemoveStart, RemoveConfig
<1>5. CASE SnapshotUsage \/ SnapshotFields \/ SnapshotDrop \/ RestoreUnlock
  BY <1>5, InFlightKept DEF SnapshotUsage, SnapshotFields, SnapshotDrop, RestoreUnlock
<1> QED  BY <1>1, <1>2, <1>3, <1>4, <1>5 DEF Control

(* Field steps leave the keys, the pending bytes and all else alone.       *)
LEMMA FieldFacts ==
  ASSUME WellFormed, Field
  PROVE  /\ UNCHANGED <<run, now, config, states, dirty, rows, db, fl, rs, fails,
                        counted, discarded, twice, leaked, restored>>
         /\ \A t \in Ids : /\ heap'[t].pending = heap[t].pending
                           /\ heap'[t].key = heap[t].key
<1> USE DEF dbVars, boundVars, histVars
<1>1. UNCHANGED <<run, now, config, states, dirty, rows, db, fl, rs, fails,
                  counted, discarded, twice, leaked, restored>>
  BY DEF Field, AddTrip, LuStore, LuDecide, ApplyDecide, RestoreUsage, RestoreFlag, RestoreField
<1>2. heap \in [Ids -> States]  BY DEF WellFormed, TypeOK, TypeMem
<1>3. CASE LuStore \/ RestoreUsage
  <2>1. PICK s \in Ids, n \in Nat : heap' = [heap EXCEPT ![s].usage = n]
    BY <1>3 DEF LuStore, RestoreUsage, RestoreField, WellFormed, TypeOK, TypeLu, TypeRt, States
  <2> QED  BY <1>1, <1>2, <2>1, UsageUpdate
<1>4. CASE LuDecide \/ ApplyDecide \/ RestoreFlag \/ \E a \in Adders : AddTrip(a)
  <2>1. \E s \in Ids, b \in BOOLEAN : heap' = [heap EXCEPT ![s].exceeded = b]
    <3>1. CASE LuDecide
      <4> DEFINE over == lu.val > lu.quota
      <4>1. lu.state \in Ids /\ over \in BOOLEAN
        BY SMTT(30), <3>1 DEF LuDecide, WellFormed, TypeOK, TypeLu
      <4>2. heap' = [heap EXCEPT ![lu.state].exceeded = over]  BY <3>1 DEF LuDecide
      <4> QED  BY <4>1, <4>2
    <3>2. CASE ApplyDecide
      BY <3>2 DEF ApplyDecide, WellFormed, TypeOK, TypeAm
    <3>3. CASE RestoreFlag
      BY <3>3 DEF RestoreFlag, RestoreField, WellFormed, TypeOK, TypeRt, States
    <3>4. CASE \E a \in Adders : AddTrip(a)
      BY <3>4 DEF AddTrip, WellFormed, TypeOK, TypeAd
    <3> QED  BY <1>4, <3>1, <3>2, <3>3, <3>4
  <2>2. PICK s \in Ids, b \in BOOLEAN : heap' = [heap EXCEPT ![s].exceeded = b]  BY <2>1
  <2> QED  BY <1>1, <1>2, <2>2, FlagUpdate
<1> QED  BY <1>3, <1>4 DEF Field

(* Key steps only ever give the map's state, if it has none, the key of    *)
(* the clock's period.                                                     *)
LEMMA KeyFacts ==
  ASSUME WellFormed, KeyStep
  PROVE  /\ UNCHANGED <<run, now, dirty, rows, db, fl, rs, fails, counted, discarded,
                        twice, leaked>>
         /\ UNCHANGED <<config, restored>> \/ restored'
         /\ \E s \in Ids :
              /\ StateFor(s)
              /\ \A t \in Ids : /\ heap'[t].pending = heap[t].pending
                                /\ heap'[t].usage = heap[t].usage
              /\ \A t \in Ids \ {s} : heap'[t] = heap[t]
              /\ \/ heap'[s].key = heap[s].key
                 \/ heap[s].key = NoKey /\ heap'[s].key = now /\ config # NoConfig
<1> USE DEF dbVars, boundVars, histVars
<1>1. CASE RestoreConfig \/ \E a \in Adders : AddState(a)
  BY <1>1 DEF RestoreConfig, AddState
<1>2. CASE LuState \/ ApplyState \/ ApplyKey \/ RemoveKey
  <2>1. config # NoConfig
    BY <1>2 DEF LuState, ApplyState, ApplyKey, RemoveKey, WellFormed, Configured
  <2>2. /\ UNCHANGED <<run, now, config, dirty, rows, db, fl, rs, fails, counted, discarded,
                       twice, leaked, restored>>
        /\ \E s \in Ids : StateFor(s) /\ SetKeyIfEmpty(s)
    BY <1>2, <2>1 DEF LuState, ApplyState, ApplyKey, RemoveKey, CurrentPeriodKey, Panic
  <2>3. PICK s \in Ids : StateFor(s) /\ SetKeyIfEmpty(s)  BY <2>2
  <2>4. /\ \A t \in Ids : /\ heap'[t].pending = heap[t].pending
                          /\ heap'[t].usage = heap[t].usage
        /\ \A t \in Ids \ {s} : heap'[t] = heap[t]
        /\ heap'[s].key = KeyOf(s)
    BY <2>3, KeyedState
  <2>5. heap'[s].key = heap[s].key \/ (heap[s].key = NoKey /\ heap'[s].key = now)
    BY <2>4 DEF KeyOf
  <2> QED  BY <2>1, <2>2, <2>3, <2>4, <2>5
<1> QED  BY <1>1, <1>2 DEF KeyStep

(* Outside RestoreState's window these steps move no byte.                 *)
LEMMA Neutral ==
  ASSUME WellFormed, rt.pc \notin Window, Control \/ Field \/ KeyStep, NEW p \in Periods
  PROVE  /\ Pending(p)' = Pending(p) /\ InFlight(p)' = InFlight(p)
         /\ UNCHANGED <<db, counted, discarded, twice>>
<1>0. states # Nil => states \in Ids
  BY SMTT(30), BoundsAssumption DEF WellFormed, TypeOK, TypeMem, Ids, Nil
<1>1. CASE Control
  BY <1>1, ControlFacts, PendingKept
<1>2. CASE Field
  <2>1. UNCHANGED <<states, fl, db, counted, discarded, twice>>  BY <1>2, FieldFacts
  <2>2. Pending(p)' = Pending(p)  BY <1>0, <1>2, FieldFacts, PendingKept
  <2> QED  BY <2>1, <2>2, InFlightKept
<1>3. CASE KeyStep
  <2>1. UNCHANGED <<fl, db, counted, discarded, twice>>  BY <1>3, KeyFacts
  <2>2. PICK s \in Ids : /\ StateFor(s) /\ heap'[s].pending = heap[s].pending
                         /\ heap'[s].key = heap[s].key \/ heap[s].key = NoKey
    BY <1>3, KeyFacts
  <2>3. heap'[s].key = heap[s].key \/ heap[s].pending = 0  BY <2>2, Unkeyed
  <2>4. Pending(p)' = Pending(p)
    BY <2>2, <2>3, PendingStateFor DEF WellFormed, TypeOK
  <2> QED  BY <2>1, <2>4, InFlightKept
<1> QED  BY <1>1, <1>2, <1>3

-----------------------------------------------------------------------------
(* The ledger of a period balances over a step: what enters it is counted  *)
(* or is an IncrBy that took effect twice, and what leaves it is           *)
(* discarded.                                                              *)
Balanced(p) ==
  /\ discarded[p] <= discarded'[p]
  /\ twice'[p] = twice[p] \/ fails' > 0
  /\ db'[p] + Pending(p)' + InFlight(p)' + discarded'[p] + counted[p] + twice[p]
     = db[p] + Pending(p) + InFlight(p) + discarded[p] + counted'[p] + twice'[p]

Numbers ==
  \A p \in Periods : /\ db[p] \in Nat /\ Pending(p) \in Nat /\ InFlight(p) \in Nat
                     /\ discarded[p] \in Nat /\ counted[p] \in Nat /\ twice[p] \in Nat

(* The columns of a ledger are numbers.                                    *)
LEMMA Columns == WellFormed => Numbers
<1> SUFFICES ASSUME WellFormed, NEW p \in Periods
             PROVE  /\ db[p] \in Nat /\ Pending(p) \in Nat /\ InFlight(p) \in Nat
                    /\ discarded[p] \in Nat /\ counted[p] \in Nat /\ twice[p] \in Nat
  BY DEF Numbers
<1>1. db[p] \in Nat /\ discarded[p] \in Nat /\ counted[p] \in Nat /\ twice[p] \in Nat
  BY DEF WellFormed, TypeOK, TypeDb
<1> QED  BY <1>1, PendingNat DEF WellFormed

(* The same, over a step.                                                  *)
LEMMA ColumnsNext == WellFormed' => Numbers'
BY Columns, PTL

(* A step that moves no byte.                                              *)
LEMMA NeutralBalanced ==
  ASSUME WellFormed, NEW p \in Periods, Pending(p)' = Pending(p),
         InFlight(p)' = InFlight(p), UNCHANGED <<db, counted, discarded, twice>>
  PROVE  Balanced(p)
<1> HIDE DEF Pending, InFlight
<1> QED  BY SMTT(30), Columns DEF Balanced, Numbers

(* Re-keying a state that is empty, or not the map's, or has the key       *)
(* already.                                                                *)
LEMMA RekeyKept ==
  ASSUME NEW p, NEW s \in Ids, UNCHANGED states, states # Nil => states \in Ids,
         \A t \in Ids : heap'[t].pending = heap[t].pending,
         \A t \in Ids \ {s} : heap'[t] = heap[t],
         s # states \/ heap[s].pending = 0 \/ heap'[s].key = heap[s].key
  PROVE  Pending(p)' = Pending(p)
BY DEF Pending

(* AddBytes counts a byte under the state's key: pending, or lost if the   *)
(* state has been removed meanwhile.                                       *)
LEMMA AddCountBalanced ==
  ASSUME WellFormed, rt.pc \notin Window, NEW a \in Adders, AddCount(a),
         NEW p \in Periods
  PROVE  Balanced(p)
<1> DEFINE s == ad[a].state
           k == KeyOf(s)
<1>1. s \in Ids /\ k \in Periods /\ heap \in [Ids -> States]
  BY DEF AddCount, KeyOf, WellFormed, TypeOK, TypeMem, TypeAd, States, Keys
<1>2. /\ heap' = [heap EXCEPT ![s].key = k, ![s].usage = @ + 1, ![s].pending = @ + 1]
      /\ counted' = [counted EXCEPT ![k] = @ + 1]
      /\ discarded' = [discarded EXCEPT ![k] = IF s = states THEN @ ELSE @ + 1]
      /\ UNCHANGED <<states, db, fl, twice>>
  BY DEF AddCount, dbVars
<1>3. k = heap[s].key \/ heap[s].pending = 0
  BY <1>1, Unkeyed DEF KeyOf
<1> HIDE DEF s, k
<1>4. /\ heap'[s].key = k /\ heap'[s].pending = heap[s].pending + 1
      /\ \A t \in Ids \ {s} : heap'[t] = heap[t]
  BY <1>1, <1>2, CountUpdate DEF Keys
<1>5. InFlight(p)' = InFlight(p)  BY <1>2, InFlightKept
<1>6. /\ counted'[p] = IF p = k THEN counted[p] + 1 ELSE counted[p]
      /\ discarded'[p] = IF p = k /\ s # states THEN discarded[p] + 1 ELSE discarded[p]
  BY <1>1, <1>2 DEF WellFormed, TypeOK, TypeDb
<1>7. Pending(p)' = IF p = k /\ s = states THEN Pending(p) + 1 ELSE Pending(p)
  <2>1. CASE s # states
    <3>1. states # Nil => states \in Ids
      BY SMTT(30), BoundsAssumption DEF WellFormed, TypeOK, TypeMem, Ids, Nil
    <3>2. states # Nil => heap'[states] = heap[states]  BY <1>4, <2>1, <3>1
    <3>3. Pending(p)' = Pending(p)  BY <1>2, <3>2, PendingKept
    <3> QED  BY <2>1, <3>3
  <2>2. CASE s = states
    BY SMTT(30), <1>1, <1>2, <1>3, <1>4, <2>2 DEF States
  <2> QED  BY <2>1, <2>2
<1>8. UNCHANGED <<db, twice>>  BY <1>2
<1> HIDE DEF Pending, InFlight
<1> QED  BY SMTT(30), <1>5, <1>6, <1>7, <1>8, Columns DEF Balanced, Numbers

(* ConsumePendingDeltas takes the pending bytes into the flush's hands.    *)
LEMMA FlushConsumeBalanced ==
  ASSUME WellFormed, FlushConsume, NEW p \in Periods  PROVE Balanced(p)
<1>1. /\ fl.pc = "consume" /\ UNCHANGED <<states, db, counted, discarded, twice>>
      /\ rt.pc \notin Window
  BY HoldersAssumption DEF FlushConsume, dbVars, histVars, WellFormed, Locks, RestorerHolds,
      Window
<1>2. InFlight(p) = 0  BY <1>1 DEF InFlight
<1>3. Pending(p)' + InFlight(p)' = Pending(p)
  <2>1. CASE states = Nil
    BY SMTT(30), <1>1, <2>1 DEF FlushConsume, Pending, InFlight, WellFormed, TypeOK, TypeFl
  <2>2. CASE states # Nil
    <3>1. states \in Ids /\ heap \in [Ids -> States] /\ heap[states] \in States
      BY SMTT(30), <2>2, BoundsAssumption DEF WellFormed, TypeOK, TypeMem, Ids, Nil
    <3>2. heap' = [heap EXCEPT ![states].pending = 0]  BY <2>2 DEF FlushConsume
    <3>3. Pending(p)' = 0  BY SMTT(30), <1>1, <3>1, <3>2 DEF Pending
    <3>4. CASE heap[states].pending = 0
      <4>1. fl' = [fl EXCEPT !.pc = "unlock"]  BY <2>2, <3>4 DEF FlushConsume
      <4>2. InFlight(p)' = 0  BY SMTT(30), <4>1 DEF InFlight
      <4> QED  BY SMTT(30), <3>3, <3>4, <4>2 DEF Pending
    <3>5. CASE heap[states].pending # 0
      <4>1. fl' = [pc |-> "filter", key |-> heap[states].key, delta |-> heap[states].pending]
        BY <2>2, <3>5 DEF FlushConsume
      <4> QED  BY SMTT(30), <2>2, <3>1, <3>3, <4>1 DEF InFlight, Pending, States
    <3> QED  BY <3>4, <3>5
  <2> QED  BY <2>1, <2>2
<1> HIDE DEF Pending, InFlight
<1>4. Numbers'  BY FlushConsumeWF, ColumnsNext
<1> QED  BY SMTT(30), <1>1, <1>2, <1>3, <1>4, Columns DEF Balanced, Numbers

(* flushPending drops the delta of a removed user.                         *)
LEMMA FlushFilterBalanced ==
  ASSUME WellFormed, FlushFilter, NEW p \in Periods  PROVE Balanced(p)
<1>1. /\ fl.pc = "filter" /\ fl.key \in Periods /\ fl.delta \in Nat
      /\ UNCHANGED <<states, heap, db, counted, twice>>
  BY DEF FlushFilter, memVars, dbVars, WellFormed, TypeOK, TypeFl
<1>2. Pending(p)' = Pending(p)  BY <1>1, PendingKept
<1>3. InFlight(p) = IF fl.key = p THEN fl.delta ELSE 0  BY <1>1 DEF InFlight
<1>4. CASE config = NoConfig
  <2>1. /\ discarded' = [discarded EXCEPT ![fl.key] = @ + fl.delta]
        /\ fl' = [FlIdle EXCEPT !.pc = "unlock"]
    BY <1>4 DEF FlushFilter, DropDelta
  <2>2. InFlight(p)' = 0  BY SMTT(30), <2>1 DEF InFlight
  <2>3. discarded'[p] = discarded[p] + InFlight(p)
    BY SMTT(30), <1>1, <1>3, <2>1 DEF WellFormed, TypeOK, TypeDb
  <2> HIDE DEF Pending, InFlight
  <2> QED  BY SMTT(30), <1>1, <1>2, <2>2, <2>3, Columns DEF Balanced, Numbers
<1>5. CASE config # NoConfig
  <2>1. fl' = [fl EXCEPT !.pc = "incr"] /\ UNCHANGED discarded  BY <1>5 DEF FlushFilter
  <2>2. InFlight(p)' = InFlight(p)  BY SMTT(30), <1>1, <2>1 DEF InFlight
  <2> QED  BY <1>1, <1>2, <2>1, <2>2, NeutralBalanced
<1> QED  BY <1>4, <1>5

(* IncrBy moves the delta into the row; one that fails after taking effect *)
(* leaves it in the flush's hands too.                                     *)
LEMMA FlushIncrBalanced ==
  ASSUME WellFormed, FlushIncr, NEW p \in Periods  PROVE Balanced(p)
<1>1. /\ fl.pc = "incr" /\ fl.key \in Periods /\ fl.delta \in Nat /\ fails \in Nat
      /\ UNCHANGED <<states, heap, counted, discarded>>
  BY DEF FlushIncr, memVars, WellFormed, TypeOK, TypeFl, TypeCounters
<1>2. Pending(p)' = Pending(p)  BY <1>1, PendingKept
<1>3. InFlight(p) = IF fl.key = p THEN fl.delta ELSE 0  BY <1>1 DEF InFlight
<1>4. CASE IncrBy(fl.key, fl.delta) /\ fl' = [fl EXCEPT !.pc = "reload"] /\ UNCHANGED twice
  <2>1. db'[p] = db[p] + InFlight(p)
    BY SMTT(30), <1>1, <1>3, <1>4 DEF IncrBy, WellFormed, TypeOK, TypeDb
  <2>2. InFlight(p)' = 0  BY SMTT(30), <1>4 DEF InFlight
  <2> HIDE DEF Pending, InFlight
  <2> QED  BY SMTT(30), <1>1, <1>2, <1>4, <2>1, <2>2, Columns DEF Balanced, Numbers
<1>5. CASE fl' = [fl EXCEPT !.pc = "restore"] /\ UNCHANGED <<dbVars, twice>>
  <2>1. InFlight(p)' = InFlight(p)
    BY SMTT(30), <1>1, <1>5 DEF InFlight
  <2> QED  BY <1>1, <1>2, <1>5, <2>1, NeutralBalanced DEF dbVars
<1>6. CASE /\ fl' = [fl EXCEPT !.pc = "restore"] /\ fails' = fails + 1
           /\ IncrBy(fl.key, fl.delta)
           /\ twice' = [twice EXCEPT ![fl.key] = @ + fl.delta]
  <2>1. InFlight(p)' = InFlight(p)
    BY SMTT(30), <1>1, <1>6 DEF InFlight
  <2>2. db'[p] = db[p] + InFlight(p) /\ twice'[p] = twice[p] + InFlight(p)
    BY SMTT(30), <1>1, <1>3, <1>6 DEF IncrBy, WellFormed, TypeOK, TypeDb
  <2> HIDE DEF Pending, InFlight
  <2> QED  BY SMTT(30), <1>1, <1>2, <1>6, <2>1, <2>2, Columns DEF Balanced, Numbers
<1> QED  BY <1>4, <1>5, <1>6 DEF FlushIncr, CallFails

(* RestorePendingDelta puts the delta back into its period, or drops it.   *)
LEMMA FlushRestoreBalanced ==
  ASSUME WellFormed, FlushRestore, NEW p \in Periods  PROVE Balanced(p)
<1>1. /\ fl.pc = "restore" /\ fl.key \in Periods /\ fl.delta \in Nat
      /\ UNCHANGED <<db, counted, twice>>
  BY DEF FlushRestore, dbVars, WellFormed, TypeOK, TypeFl
<1>2. InFlight(p) = IF fl.key = p THEN fl.delta ELSE 0  BY <1>1 DEF InFlight
<1>3. InFlight(p)' = 0  BY DEF FlushRestore, InFlight, FlIdle
<1>4. CASE DropDelta /\ Pending(p)' = Pending(p)
  <2>1. discarded'[p] = discarded[p] + InFlight(p)
    BY SMTT(30), <1>1, <1>2, <1>4 DEF DropDelta, WellFormed, TypeOK, TypeDb
  <2> HIDE DEF Pending, InFlight
  <2> QED  BY SMTT(30), <1>1, <1>3, <1>4, <2>1, Columns DEF Balanced, Numbers
<1>5. CASE config = NoConfig
  <2>1. DropDelta /\ UNCHANGED <<states, heap>>  BY <1>5 DEF FlushRestore
  <2> QED  BY <1>4, <2>1, PendingKept
<1>6. CASE config # NoConfig
  <2>1. PICK s \in Ids :
          /\ StateFor(s)
          /\ \/ /\ heap[s].key = fl.key
                /\ heap' = [heap EXCEPT ![s].pending = @ + fl.delta]
                /\ UNCHANGED discarded
             \/ DropDelta /\ UNCHANGED heap
    BY <1>6 DEF FlushRestore
  <2>2. CASE DropDelta /\ UNCHANGED heap
    <3>1. Pending(p)' = Pending(p)
      BY <2>1, <2>2, PendingStateFor DEF WellFormed, TypeOK
    <3> QED  BY <1>4, <2>2, <3>1
  <2>3. CASE /\ heap[s].key = fl.key
             /\ heap' = [heap EXCEPT ![s].pending = @ + fl.delta]
             /\ UNCHANGED discarded
    <3>1. heap \in [Ids -> States] /\ heap[s] \in States  BY DEF WellFormed, TypeOK, TypeMem
    <3>2. states = s /\ states' = s
      <4>1. s <= nStates
        BY SMTT(30), <1>1, <2>3 DEF WellFormed, TypeOK, TypeMem, Allocated, Fresh, NoKey, Periods,
            Ids
      <4> QED  BY SMTT(30), <2>1, <4>1 DEF StateFor, WellFormed, TypeOK, TypeMem
    <3>3. heap'[s].key = heap[s].key /\ heap'[s].pending = heap[s].pending + fl.delta
      BY SMTT(30), <2>3, <3>1
    <3>4. Pending(p)' = Pending(p) + InFlight(p)
      BY SMTT(30), <1>1, <1>2, <2>3, <3>1, <3>2, <3>3 DEF Pending, Ids, Nil
    <3> HIDE DEF Pending, InFlight
    <3> QED  BY SMTT(30), <1>1, <1>3, <2>3, <3>4, Columns DEF Balanced, Numbers
  <2> QED  BY <2>1, <2>2, <2>3
<1> QED  BY <1>5, <1>6

(* CheckPeriodReset keys a state without a key, or discards its bytes.     *)
LEMMA ResetCompareBalanced ==
  ASSUME WellFormed, rt.pc \notin Window, ResetCompare, NEW p \in Periods
  PROVE  Balanced(p)
<1> DEFINE s == rs.state
           prev == heap[s].key
<1>1. /\ s \in Ids /\ heap \in [Ids -> States] /\ heap[s] \in States /\ rs.now \in Keys
      /\ states # Nil => states \in Ids
      /\ UNCHANGED <<states, fl, db, counted, twice>>
  BY SMTT(30), BoundsAssumption DEF ResetCompare, dbVars, WellFormed, TypeOK, TypeMem, TypeRs,
      Ids, Nil
<1>2. InFlight(p)' = InFlight(p)  BY <1>1, InFlightKept
<1>3. CASE /\ prev \in {NoKey, rs.now} /\ UNCHANGED discarded
           /\ heap' = [heap EXCEPT ![s].key = rs.now]
  <2>1. prev = rs.now \/ heap[s].pending = 0  BY <1>1, <1>3, Unkeyed
  <2> HIDE DEF s
  <2>2. /\ heap'[s].key = rs.now /\ \A t \in Ids : heap'[t].pending = heap[t].pending
        /\ \A t \in Ids \ {s} : heap'[t] = heap[t]
    BY <1>1, <1>3, KeyUpdate
  <2>3. Pending(p)' = Pending(p)  BY <1>1, <2>1, <2>2, RekeyKept
  <2> QED  BY <1>1, <1>2, <1>3, <2>3, NeutralBalanced
<1>4. CASE /\ prev \notin {NoKey, rs.now}
           /\ heap' = [heap EXCEPT ![s].usage = 0, ![s].pending = 0]
           /\ discarded' = [discarded EXCEPT ![prev] =
                              IF s = states THEN @ + heap[s].pending ELSE @]
  <2>1. prev \in Periods /\ heap[s].pending \in Nat  BY <1>1, <1>4 DEF States, Keys
  <2> HIDE DEF s
  <2>2. /\ heap'[s].pending = 0 /\ heap'[s].key = heap[s].key
        /\ \A t \in Ids \ {s} : heap'[t] = heap[t]
    BY <1>1, <1>4, ClearUpdate
  <2>3. CASE s = states
    <3>1. Pending(p)' = 0 /\ Pending(p) = IF prev = p THEN heap[s].pending ELSE 0
      BY SMTT(30), <1>1, <2>2, <2>3 DEF Pending, Ids, Nil
    <3>2. discarded'[p] = discarded[p] + Pending(p)
      BY SMTT(30), <1>4, <2>1, <2>3, <3>1 DEF WellFormed, TypeOK, TypeDb
    <3> HIDE DEF Pending, InFlight
    <3> QED  BY SMTT(30), <1>1, <1>2, <3>1, <3>2, Columns DEF Balanced, Numbers
  <2>4. CASE s # states
    <3>1. Pending(p)' = Pending(p)  BY <1>1, <2>2, <2>4, PendingKept
    <3>2. UNCHANGED discarded
      BY <1>4, <2>1, <2>4 DEF WellFormed, TypeOK, TypeDb
    <3> QED  BY <1>1, <1>2, <3>1, <3>2, NeutralBalanced
  <2> QED  BY <2>3, <2>4
<1> QED  BY <1>3, <1>4 DEF ResetCompare

(* CheckPeriodReset re-keys the state: it moves no byte if the state is    *)
(* empty.                                                                  *)
LEMMA ResetFlagBalanced ==
  ASSUME WellFormed, ResetFlag, NEW p \in Periods,
         heap[rs.state].pending = 0 \/ heap[rs.state].key = rs.now
  PROVE  Balanced(p)
<1>1. /\ rs.state \in Ids /\ heap \in [Ids -> States] /\ rs.now \in Keys
      /\ states # Nil => states \in Ids
      /\ UNCHANGED <<states, fl, db, counted, discarded, twice>>
  BY SMTT(30), BoundsAssumption DEF ResetFlag, dbVars, histVars, WellFormed, TypeOK, TypeMem,
      TypeRs, Ids, Nil
<1>2. heap' = [heap EXCEPT ![rs.state].exceeded = FALSE, ![rs.state].key = rs.now]
  BY DEF ResetFlag
<1>3. /\ heap'[rs.state].key = rs.now /\ \A t \in Ids : heap'[t].pending = heap[t].pending
      /\ \A t \in Ids \ {rs.state} : heap'[t] = heap[t]
  BY <1>1, <1>2, MoveUpdate
<1>4. Pending(p)' = Pending(p)  BY <1>1, <1>3, RekeyKept
<1> QED  BY <1>1, <1>4, InFlightKept, NeutralBalanced

(* Deleting a row discards its bytes.                                      *)
LEMMA DeleteBalanced ==
  ASSUME WellFormed, ResetDelete \/ RemoveRow, NEW p \in Periods  PROVE Balanced(p)
<1>1. UNCHANGED <<states, heap, fl, counted, twice>>
  BY DEF ResetDelete, RemoveRow, memVars
<1>2. Pending(p)' = Pending(p) /\ InFlight(p)' = InFlight(p)
  BY <1>1, PendingKept, InFlightKept
<1>3. CASE UNCHANGED <<dbVars, discarded>>
  BY <1>1, <1>2, <1>3, NeutralBalanced DEF dbVars
<1>4. CASE \E k \in Periods : DeleteRow(k)
  <2>1. \/ discarded'[p] = discarded[p] + db[p] /\ db'[p] = 0
        \/ UNCHANGED <<discarded[p], db[p]>>
    BY <1>4 DEF DeleteRow, WellFormed, TypeOK, TypeDb
  <2> HIDE DEF Pending, InFlight
  <2> QED  BY SMTT(30), <1>1, <1>2, <2>1, Columns DEF Balanced, Numbers
<1>5. UNCHANGED <<dbVars, discarded>> \/ \E k \in Periods : DeleteRow(k)
  BY DEF ResetDelete, RemoveRow, WellFormed, TypeOK, TypeRs, TypeAm
<1> QED  BY <1>3, <1>4, <1>5

(* RemoveConfig discards the pending bytes with the state.                 *)
LEMMA RemoveStateBalanced ==
  ASSUME WellFormed, RemoveState, NEW p \in Periods  PROVE Balanced(p)
<1>1. states' = Nil /\ UNCHANGED <<db, fl, counted, twice>>  BY DEF RemoveState, dbVars
<1>2. Pending(p)' = 0 /\ InFlight(p)' = InFlight(p)
  BY <1>1, InFlightKept DEF Pending
<1> HIDE DEF Pending, InFlight
<1>3. discarded'[p] = discarded[p] + Pending(p)  BY DEF RemoveState
<1> QED  BY SMTT(30), <1>1, <1>2, <1>3, Columns DEF Balanced, Numbers

(* When the process ends, what was only in memory is discarded.            *)
LEMMA StopBalanced ==
  ASSUME WellFormed, Stop, UNCHANGED <<db, counted, twice>>, NEW p \in Periods
  PROVE  Balanced(p) /\ Pending(p)' = 0 /\ InFlight(p)' = 0
<1>1. Pending(p)' = 0 /\ InFlight(p)' = 0  BY DEF Stop, Pending, InFlight, FlIdle
<1> HIDE DEF Pending, InFlight
<1>2. discarded'[p] = discarded[p] + Pending(p) + InFlight(p)  BY DEF Stop
<1> QED  BY SMTT(30), <1>1, <1>2, Columns DEF Balanced, Numbers

(* A new process starts without pending bytes.                             *)
LEMMA StartBalanced ==
  ASSUME WellFormed, Start, NEW p \in Periods  PROVE Balanced(p)
<1>1. /\ states = Nil /\ UNCHANGED <<db, fl, counted, discarded, twice>>
      /\ states' # Nil => heap'[states'].pending = 0
  <2>1. states = Nil /\ UNCHANGED <<db, fl, counted, discarded, twice>>
    BY DEF Start, dbVars, histVars, WellFormed, Off
  <2>2. 1 \in Ids /\ heap \in [Ids -> States]
    BY SMTT(30), BoundsAssumption DEF Ids, WellFormed, TypeOK, TypeMem
  <2> QED  BY SMTT(30), <2>1, <2>2 DEF Start
<1>2. Pending(p)' = Pending(p)  BY <1>1 DEF Pending
<1> QED  BY <1>1, <1>2, InFlightKept, NeutralBalanced

(* Another instance counts the byte it writes.                             *)
LEMMA PeerIncrBalanced ==
  ASSUME WellFormed, PeerIncr, NEW p \in Periods  PROVE Balanced(p)
<1>1. UNCHANGED <<states, heap, fl, discarded, twice>>  BY DEF PeerIncr, memVars
<1>2. Pending(p)' = Pending(p) /\ InFlight(p)' = InFlight(p)
  BY <1>1, PendingKept, InFlightKept
<1>3. \/ db'[p] = db[p] + 1 /\ counted'[p] = counted[p] + 1
      \/ UNCHANGED <<db[p], counted[p]>>
  BY DEF PeerIncr, IncrBy, WellFormed, TypeOK, TypeDb
<1> HIDE DEF Pending, InFlight
<1> QED  BY SMTT(30), <1>1, <1>2, <1>3, Columns DEF Balanced, Numbers

-----------------------------------------------------------------------------
(* The process ends: by a crash, a panic or the end of Close.              *)
Stops == Stop /\ UNCHANGED <<now, rows, db, fails, counted, twice, restored>>

(* The kinds of step.                                                      *)
LEMMA Kinds ==
  ASSUME WellFormed, Next
  PROVE  \/ Control \/ Field \/ KeyStep \/ Stops \/ Start \/ PeerIncr
         \/ \E a \in Adders : AddCount(a)
         \/ FlushConsume \/ FlushFilter \/ FlushIncr \/ FlushRestore
         \/ ResetCompare \/ ResetFlag \/ ResetDelete \/ RemoveRow \/ RemoveState
         \/ RestorePending \/ RestoreKey \/ RestoreSave \/ RestoreClear
<1>1. Crash => Stops  BY DEF Crash, Stops, dbVars
<1>2. FlushUnlock => (FlushUnlock /\ run # "final") \/ Stops
  BY DEF FlushUnlock, Stops, dbVars, boundVars
<1>3. ResetKey => (ResetKey /\ UNCHANGED run) \/ Stops
  BY DEF ResetKey, Panic, Stops, dbVars, boundVars
<1> QED
  BY <1>1, <1>2, <1>3 DEF Next, AddStep, LoadStep, FlushStep, ResetStep, AdminStep, RestoreStep,
      Control, Field, KeyStep

(* RestoreState's steps under persistAccess come after restored is set.    *)
LEMMA Unrestored ==
  ASSUME WellFormed, ~restored
  PROVE  /\ rt.pc \notin RestorerHolds /\ rt.pc \notin Window
         /\ ~RestorePending /\ ~RestoreKey /\ ~RestoreSave /\ ~RestoreClear
<1>1. rt.pc \notin RestorerHolds  BY DEF WellFormed, Locks
<1> QED
  BY <1>1 DEF RestorerHolds, Window, RestorePending, RestoreKey, RestoreSave, RestoreClear,
      RestoreField

(* restored is never reset.                                                *)
LEMMA RestoredStays ==
  ASSUME WellFormed, Next, ~restored'  PROVE ~restored
<1> USE DEF histVars
<1>1. CASE Control  BY <1>1, ControlFacts
<1>2. CASE Field \/ KeyStep  BY <1>2, FieldFacts, KeyFacts
<1>3. CASE Stops \/ Start \/ PeerIncr \/ \E a \in Adders : AddCount(a)
  BY <1>3 DEF Stops, Start, PeerIncr, AddCount
<1>4. CASE FlushConsume \/ FlushFilter \/ FlushIncr \/ FlushRestore
  BY <1>4 DEF FlushConsume, FlushFilter, FlushIncr, FlushRestore
<1>5. CASE ResetCompare \/ ResetFlag \/ ResetDelete \/ RemoveRow \/ RemoveState
  BY <1>5 DEF ResetCompare, ResetFlag, ResetDelete, RemoveRow, RemoveState
<1>6. CASE RestorePending \/ RestoreKey \/ RestoreSave \/ RestoreClear
  BY <1>6 DEF RestorePending, RestoreKey, RestoreSave, RestoreClear, RestoreField
<1> QED  BY <1>1, <1>2, <1>3, <1>4, <1>5, <1>6, Kinds

(* Every ledger balances over every step outside RestoreState's window, if *)
(* CheckPeriodReset re-keys no pending byte.                               *)
LEMMA Balance ==
  ASSUME WellFormed, Next, rt.pc \notin Window, rt'.pc \notin Window,
         rs.pc = "flag" => heap[rs.state].pending = 0 \/ heap[rs.state].key = rs.now,
         NEW p \in Periods
  PROVE  Balanced(p)
<1>1. CASE Control \/ Field \/ KeyStep  BY <1>1, Neutral, NeutralBalanced
<1>2. CASE Stops  BY <1>2, StopBalanced DEF Stops
<1>3. CASE Start \/ PeerIncr \/ \E a \in Adders : AddCount(a)
  BY <1>3, StartBalanced, PeerIncrBalanced, AddCountBalanced
<1>4. CASE FlushConsume \/ FlushFilter \/ FlushIncr \/ FlushRestore
  BY <1>4, FlushConsumeBalanced, FlushFilterBalanced, FlushIncrBalanced, FlushRestoreBalanced
<1>5. CASE ResetFlag
  <2>1. rs.pc = "flag"  BY <1>5 DEF ResetFlag
  <2> QED  BY <1>5, <2>1, ResetFlagBalanced
<1>6. CASE ResetCompare \/ ResetDelete \/ RemoveRow \/ RemoveState
  BY <1>6, ResetCompareBalanced, DeleteBalanced, RemoveStateBalanced
<1>7. CASE RestorePending \/ RestoreKey \/ RestoreSave \/ RestoreClear
  BY <1>7 DEF RestorePending, RestoreKey, RestoreSave, RestoreClear, RestoreField, Window,
      WellFormed, TypeOK, TypeRt
<1> QED  BY <1>1, <1>2, <1>3, <1>4, <1>5, <1>6, <1>7, Kinds

(* Only CheckPeriodReset itself touches the state it is resetting.         *)
LEMMA DrainedNext ==
  ASSUME WellFormed, Drained, Next  PROVE Drained'
<1> SUFFICES ASSUME ~restored', rs'.pc = "flag"
             PROVE  heap'[rs'.state].pending = 0 /\ heap'[rs'.state].key = rs'.prev
  BY DEF Drained
<1>1. ~restored /\ heap \in [Ids -> States]
  BY RestoredStays DEF WellFormed, TypeOK, TypeMem
<1>2. CASE /\ UNCHANGED rs
           /\ heap'[rs.state].pending = heap[rs.state].pending
           /\ heap'[rs.state].key = heap[rs.state].key
  BY <1>1, <1>2 DEF Drained
<1>3. rs.pc = "flag" => rs.state \in Ids /\ rs.prev # NoKey
  BY SMTT(30) DEF WellFormed, TypeOK, TypeRs, Periods, NoKey
<1>4. CASE Control
  <2>1. UNCHANGED heap  BY <1>4, ControlFacts
  <2>2. CASE ResetStart \/ ResetLoad \/ (ResetKey /\ UNCHANGED run) \/ ResetLock
    <3>1. rs' = RsIdle \/ \E pc \in {"load", "key", "compare", "delete"} : rs'.pc = pc
      <4>1. run # "down" \/ rs.pc # "key"  BY SMTT(30) DEF WellFormed, Off, RsIdle
      <4> QED
        BY <2>2, <4>1 DEF ResetStart, ResetLoad, ResetKey, Panic, Stop, ResetLock, WellFormed,
            TypeOK, TypeRs
    <3> QED  BY SMTT(30), <3>1 DEF RsIdle
  <2>3. CASE UNCHANGED rs  BY <1>2, <2>1, <2>3
  <2> QED  BY <1>4, <2>2, <2>3, ControlFacts
<1>5. CASE Field
  <2>1. UNCHANGED rs /\ rs.state \in Ids  BY <1>3, <1>5, FieldFacts
  <2> QED  BY <1>2, <1>5, <2>1, FieldFacts
<1>6. CASE KeyStep
  <2>1. UNCHANGED rs /\ rs.state \in Ids /\ heap[rs.state].key = rs.prev
    BY <1>1, <1>3, <1>6, KeyFacts DEF Drained
  <2>2. /\ heap'[rs.state].pending = heap[rs.state].pending
        /\ heap'[rs.state].key = heap[rs.state].key \/ heap[rs.state].key = NoKey
    BY <1>6, <2>1, KeyFacts
  <2> QED  BY <1>2, <1>3, <2>1, <2>2
<1>7. CASE Stops \/ Start \/ PeerIncr
  BY SMTT(30), <1>2, <1>7 DEF Stops, Stop, RsIdle, Start, WellFormed, Off, PeerIncr, memVars
<1>8. CASE \E a \in Adders : AddCount(a)
  <2>1. PICK a \in Adders : AddCount(a)  BY <1>8
  <2>2. UNCHANGED rs /\ ad[a].state # rs.state  BY <2>1 DEF AddCount, Locked
  <2>3. heap'[rs.state] = heap[rs.state]
    BY <1>1, <1>3, <2>1, <2>2 DEF AddCount
  <2> QED  BY <1>2, <2>2, <2>3
<1>9. CASE FlushConsume
  <2>1. UNCHANGED rs /\ (heap' = heap \/ rs.state # states)
    BY <1>9 DEF FlushConsume, Locked
  <2>2. heap'[rs.state] = heap[rs.state]  BY <1>1, <1>3, <1>9, <2>1 DEF FlushConsume
  <2> QED  BY <1>2, <2>1, <2>2
<1>10. CASE FlushRestore
  <2>1. /\ UNCHANGED rs
        /\ \/ UNCHANGED heap
           \/ \E s \in Ids : s # rs.state
                             /\ heap' = [heap EXCEPT ![s].pending = @ + fl.delta]
    BY <1>10 DEF FlushRestore, Locked
  <2>2. heap'[rs.state] = heap[rs.state]  BY <1>1, <1>3, <2>1
  <2> QED  BY <1>2, <2>1, <2>2
<1>11. CASE ResetCompare
  <2>1. CASE rs' = RsIdle  BY <2>1 DEF RsIdle
  <2>2. CASE /\ heap' = [heap EXCEPT ![rs.state].usage = 0, ![rs.state].pending = 0]
             /\ rs' = [rs EXCEPT !.pc = "flag", !.prev = heap[rs.state].key]
    <3>1. rs'.state = rs.state /\ rs'.prev = heap[rs.state].key /\ rs.state \in Ids
      BY <1>11, <2>2 DEF ResetCompare, WellFormed, TypeOK, TypeRs
    <3> QED  BY <1>1, <2>2, <3>1, ClearUpdate
  <2> QED  BY <1>11, <2>1, <2>2 DEF ResetCompare
<1>12. CASE ResetFlag \/ ResetDelete
  BY SMTT(30), <1>12 DEF ResetFlag, ResetDelete, RsIdle, WellFormed, TypeOK, TypeRs
<1>13. CASE FlushFilter \/ FlushIncr \/ RemoveRow \/ RemoveState
  BY <1>2, <1>13 DEF FlushFilter, FlushIncr, RemoveRow, RemoveState, memVars
<1> QED
  BY <1>1, <1>4, <1>5, <1>6, <1>7, <1>8, <1>9, <1>10, <1>11, <1>12, <1>13, Kinds, Unrestored

(* Conservation: the ledgers balance over every step before RestoreState.  *)
LEMMA ConservationNext ==
  ASSUME WellFormed, WellFormed', Drained, Conservation, Next  PROVE Conservation'
<1> SUFFICES ASSUME ~restored', NEW p \in Periods
             PROVE  db'[p] + Pending(p)' + InFlight(p)' + discarded'[p]
                    = counted'[p] + twice'[p]
  BY DEF Conservation
<1>1. ~restored /\ rt.pc \notin Window  BY RestoredStays, Unrestored
<1>2. rt'.pc \notin Window  BY DEF WellFormed, Locks, RestorerHolds, Window
<1>3. Balanced(p)  BY <1>1, <1>2, Balance DEF Drained
<1>4. db[p] + Pending(p) + InFlight(p) + discarded[p] = counted[p] + twice[p]
  BY <1>1 DEF Conservation
<1>5. Numbers /\ Numbers'  BY Columns, ColumnsNext
<1> HIDE DEF Pending, InFlight
<1> QED  BY SMTT(30), <1>3, <1>4, <1>5 DEF Balanced, Numbers

-----------------------------------------------------------------------------
(* A step after which pending bytes have a goroutine that will mark them.  *)
LEMMA DirtyFrame ==
  ASSUME PendingIsDirty, ~restored, states # Nil, heap[states].pending > 0,
         UNCHANGED dirty,
         fl.pc \in {"consume", "redirty"} => fl'.pc \in {"consume", "redirty"},
         \A a \in Adders : ad[a].pc = "dirty" => ad'[a].pc = "dirty"
  PROVE  PendingIsDirty'
BY DEF PendingIsDirty

(* The dirty index stays complete.                                         *)
LEMMA PendingIsDirtyNext ==
  ASSUME WellFormed, PendingIsDirty, Next  PROVE PendingIsDirty'
<1> SUFFICES ASSUME ~restored', states' # Nil, heap'[states'].pending > 0
             PROVE  PendingIsDirty'
  BY DEF PendingIsDirty
<1>1. /\ ~restored /\ heap \in [Ids -> States]
      /\ states # Nil => states \in Ids
      /\ \A a \in Adders : ad[a].pc \in {"idle", "state", "count", "dirty", "trip"}
  BY SMTT(30), RestoredStays, BoundsAssumption DEF WellFormed, TypeOK, TypeMem, TypeAd, Ids, Nil
<1>2. CASE Control
  <2>1. states # Nil /\ heap[states].pending > 0  BY <1>2, ControlFacts
  <2>2. CASE dirty'  BY <2>2 DEF PendingIsDirty
  <2>3. CASE \E a \in Adders : AddBytes(a) \/ AddDrop(a)
    BY <1>1, <2>1, <2>3, DirtyFrame DEF AddBytes, AddDrop, memVars, WellFormed, TypeOK, TypeAd
  <2>4. CASE CloseFlush \/ FlushLock \/ FlushReload \/ (FlushUnlock /\ run # "final")
    <3>1. UNCHANGED <<dirty, ad>> /\ fl.pc \notin {"consume", "redirty"}
      BY <2>4 DEF CloseFlush, FlushLock, FlushReload, FlushUnlock, memVars
    <3> QED  BY <1>1, <2>1, <3>1, DirtyFrame
  <2>5. CASE FlushDrain /\ ~dirty'
    <3>1. CASE dirty
      BY SMTT(30), <2>5, <3>1 DEF FlushDrain, PendingIsDirty
    <3>2. CASE ~dirty
      <4>1. UNCHANGED <<dirty, ad>> /\ fl.pc \notin {"consume", "redirty"}
        BY <2>5, <3>2 DEF FlushDrain, WellFormed, TypeOK, TypeMem
      <4> QED  BY <1>1, <2>1, <4>1, DirtyFrame
    <3> QED  BY <3>1, <3>2
  <2>6. CASE \/ Close \/ Tick \/ LuConfig
             \/ ResetStart \/ ResetLoad \/ (ResetKey /\ UNCHANGED run) \/ ResetLock
             \/ ApplyConfig \/ ApplyRead \/ ApplyLock \/ ApplyFetch \/ AdminUnlock
             \/ RemoveStart \/ RemoveConfig
             \/ SnapshotUsage \/ SnapshotFields \/ SnapshotDrop \/ RestoreUnlock
    <3>1. ResetKey /\ UNCHANGED run => UNCHANGED <<dirty, fl, ad>>
      BY DEF ResetKey, Panic, Stop, memVars
    <3>2. UNCHANGED <<dirty, fl, ad>>
      BY <2>6, <3>1 DEF Close, Tick, LuConfig, ResetStart, ResetLoad, ResetLock, ApplyConfig,
          ApplyRead, ApplyLock, ApplyFetch, AdminUnlock, RemoveStart, RemoveConfig, SnapshotUsage,
          SnapshotFields, SnapshotDrop, RestoreUnlock, memVars
    <3> QED  BY <1>1, <2>1, <3>2, DirtyFrame
  <2>7. ((\E a \in Adders : AddDirty(a)) \/ FlushRedirty) => dirty'
    BY DEF AddDirty, FlushRedirty
  <2> QED  BY <1>2, <2>2, <2>3, <2>4, <2>5, <2>6, <2>7 DEF Control
<1>3. CASE Field
  <2>1. UNCHANGED <<states, dirty, fl>> /\ states # Nil /\ heap[states].pending > 0
    BY <1>1, <1>3, FieldFacts
  <2>2. \A a \in Adders : ad[a].pc = "dirty" => ad'[a].pc = "dirty"
    BY <1>1, <1>3 DEF Field, AddTrip, LuStore, LuDecide, ApplyDecide, RestoreUsage, RestoreFlag,
        RestoreField, WellFormed, TypeOK, TypeAd
  <2> QED  BY <1>1, <2>1, <2>2, DirtyFrame
<1>4. CASE KeyStep
  <2>1. UNCHANGED <<dirty, fl>>  BY <1>4, KeyFacts
  <2>2. states # Nil /\ heap[states].pending > 0
    <3>1. PICK s \in Ids : StateFor(s) /\ heap'[s].pending = heap[s].pending
      BY <1>4, KeyFacts
    <3>2. states' = s /\ (states # Nil => s = states) /\ (states = Nil => s > nStates)
      BY <3>1, StateForFacts DEF WellFormed, TypeOK
    <3> QED  BY SMTT(30), <3>1, <3>2 DEF WellFormed, Allocated, Fresh
  <2>3. \A a \in Adders : ad[a].pc = "dirty" => ad'[a].pc = "dirty"
    <3>1. CASE \E a \in Adders : AddState(a)
      BY <3>1 DEF AddState, WellFormed, TypeOK, TypeAd
    <3>2. CASE LuState \/ ApplyState \/ ApplyKey \/ RemoveKey \/ RestoreConfig
      <4>1. config # NoConfig \/ RestoreConfig
        BY <3>2 DEF LuState, ApplyState, ApplyKey, RemoveKey, WellFormed, Configured
      <4> QED
        BY <3>2, <4>1 DEF LuState, ApplyState, ApplyKey, RemoveKey, CurrentPeriodKey, Panic,
            RestoreConfig
    <3> QED  BY <1>4, <3>1, <3>2 DEF KeyStep
  <2> QED  BY <1>1, <2>1, <2>2, <2>3, DirtyFrame
<1>5. CASE \E a \in Adders : AddCount(a)
  <2>1. PICK a \in Adders : AddCount(a)  BY <1>5
  <2>2. ad'[a].pc = "dirty"  BY <2>1 DEF AddCount, WellFormed, TypeOK, TypeAd
  <2> QED  BY <2>2 DEF PendingIsDirty
<1>6. CASE FlushConsume
  <2>1. UNCHANGED states /\ (states # Nil => heap' = [heap EXCEPT ![states].pending = 0])
    BY <1>6 DEF FlushConsume
  <2> QED  BY SMTT(30), <1>1, <2>1 DEF States
<1>7. CASE FlushRestore
  <2>1. CASE fl'.pc = "redirty"  BY <2>1 DEF PendingIsDirty
  <2>2. CASE fl'.pc # "redirty"
    <3>1. UNCHANGED <<heap, dirty, ad>> /\ fl.pc = "restore"
          /\ (UNCHANGED states \/ \E s \in Ids : StateFor(s))
      BY <1>7, <2>2 DEF FlushRestore, FlIdle
    <3>2. CASE UNCHANGED states  BY <1>1, <3>1, <3>2, DirtyFrame
    <3>3. CASE \E s \in Ids : StateFor(s)
      <4>1. PICK s \in Ids : StateFor(s)  BY <3>3
      <4>2. states' = s /\ (states # Nil => s = states) /\ (states = Nil => s > nStates)
        BY <4>1, StateForFacts DEF WellFormed, TypeOK
      <4>3. states # Nil  BY SMTT(30), <3>1, <4>2 DEF WellFormed, Allocated, Fresh
      <4> QED  BY <1>1, <3>1, <4>2, <4>3, DirtyFrame
    <3> QED  BY <3>1, <3>2, <3>3
  <2> QED  BY <2>1, <2>2
<1>8. CASE ResetCompare \/ ResetFlag
  <2>1. UNCHANGED <<states, dirty, fl, ad>>  BY <1>8 DEF ResetCompare, ResetFlag
  <2>2. \A t \in Ids : heap'[t].pending > 0 => heap[t].pending > 0
    BY SMTT(30), <1>1, <1>8 DEF ResetCompare, ResetFlag, States
  <2> QED  BY <1>1, <2>1, <2>2, DirtyFrame
<1>9. CASE \/ Stops \/ RemoveState \/ Start \/ PeerIncr \/ FlushFilter \/ FlushIncr
           \/ ResetDelete \/ RemoveRow
  <2>1. CASE Stops \/ RemoveState  BY <2>1 DEF Stops, Stop, RemoveState
  <2>2. CASE Start
    <3>1. 1 \in Ids  BY SMTT(30), BoundsAssumption DEF Ids
    <3> QED  BY SMTT(30), <1>1, <2>2, <3>1 DEF Start
  <2>3. CASE PeerIncr \/ FlushFilter \/ FlushIncr \/ ResetDelete \/ RemoveRow
    <3>1. /\ UNCHANGED <<states, heap, dirty, ad>>
          /\ UNCHANGED fl \/ fl.pc \notin {"consume", "redirty"}
      BY <2>3 DEF PeerIncr, FlushFilter, FlushIncr, ResetDelete, RemoveRow, memVars
    <3> QED  BY <1>1, <3>1, DirtyFrame
  <2> QED  BY <1>9, <2>1, <2>2, <2>3
<1> QED
  BY <1>1, <1>2, <1>3, <1>4, <1>5, <1>6, <1>7, <1>8, <1>9, Kinds, Unrestored

-----------------------------------------------------------------------------
(* What Control steps do to the flush and to RemoveConfig.                 *)
LEMMA ControlAdmin ==
  ASSUME WellFormed, Control
  PROVE  /\ UNCHANGED fl \/ fl'.pc \notin {"filter", "incr"}
         /\ \/ UNCHANGED <<config, am>>
            \/ ApplyConfig \/ RemoveStart \/ RemoveConfig
            \/ /\ UNCHANGED config /\ am.pc # "rmState"
               /\ am'.pc \notin {"rmRow", "rmConfig", "rmState"}
<1> USE DEF memVars
<1>1. CASE \/ Close \/ Tick \/ LuConfig
           \/ \E a \in Adders : AddBytes(a) \/ AddDrop(a) \/ AddDirty(a)
  BY <1>1 DEF Close, Tick, LuConfig, AddBytes, AddDrop, AddDirty
<1>2. CASE \/ CloseFlush \/ FlushLock \/ FlushDrain \/ FlushRedirty \/ FlushReload
           \/ FlushUnlock /\ run # "final"
  <2>1. UNCHANGED <<config, am>>
    BY <1>2 DEF CloseFlush, FlushLock, FlushDrain, FlushRedirty, FlushReload, FlushUnlock
  <2>2. fl'.pc \notin {"filter", "incr"}
    BY SMTT(30), <1>2 DEF CloseFlush, FlushLock, FlushDrain, FlushRedirty, FlushReload, FlushUnlock,
        FlIdle, WellFormed, TypeOK, TypeFl
  <2> QED  BY <2>1, <2>2
<1>3. CASE ResetStart \/ ResetLoad \/ (ResetKey /\ UNCHANGED run) \/ ResetLock
  <2>1. CASE ResetKey /\ UNCHANGED run
    BY <2>1 DEF ResetKey, Panic, Stop, WellFormed, Off
  <2> QED  BY <1>3, <2>1 DEF ResetStart, ResetLoad, ResetLock
<1>4. CASE ApplyRead \/ ApplyLock \/ ApplyFetch \/ AdminUnlock
  <2>1. UNCHANGED <<config, fl>>
    BY <1>4 DEF ApplyRead, ApplyLock, ApplyFetch, AdminUnlock
  <2>2. am.pc # "rmState"
    BY <1>4 DEF ApplyRead, ApplyLock, ApplyFetch, AdminUnlock
  <2>3. am'.pc \in {"decide", "key", "loading", "unlock", "idle"}
    <3>1. CASE ApplyFetch  BY <3>1 DEF ApplyFetch, AmIdle
    <3>2. CASE ApplyRead
      <4>1. \E b : am' = [am EXCEPT !.pc = "decide", !.over = b]
        BY <3>2 DEF ApplyRead
      <4> QED  BY SMTT(30), <4>1
    <3>3. CASE ApplyLock \/ AdminUnlock
      BY SMTT(30), <3>3 DEF ApplyLock, AdminUnlock, AmIdle, WellFormed, TypeOK, TypeAm
    <3> QED  BY <1>4, <3>1, <3>2, <3>3
  <2> QED  BY <2>1, <2>2, <2>3
<1>5. CASE ApplyConfig \/ RemoveStart \/ RemoveConfig
  BY <1>5 DEF ApplyConfig, RemoveStart, RemoveConfig
<1>6. CASE SnapshotUsage \/ SnapshotFields \/ SnapshotDrop \/ RestoreUnlock
  BY <1>6 DEF SnapshotUsage, SnapshotFields, SnapshotDrop, RestoreUnlock
<1> QED  BY <1>1, <1>2, <1>3, <1>4, <1>5, <1>6 DEF Control

(* Owners survive a step that keeps the map's entry and its key, if it has *)
(* one, and what the reset is going to delete.                             *)
LEMMA OwnersKept ==
  ASSUME WellFormed, leaked \subseteq leaked',
         \/ UNCHANGED rs
         \/ rs.pc \notin {"flag", "lock", "delete"}
         \/ rs'.pc \in {"flag", "lock", "delete"} /\ rs'.prev = rs.prev,
         states # Nil => /\ states' = states
                         /\ heap'[states].key = heap[states].key \/ heap[states].key = NoKey
  PROVE  \A p \in Periods : (Leaving(p) => Leaving(p)') /\ (Owned(p) => Owned(p)')
BY SMTT(30) DEF Leaving, Owned, Periods, NoKey

(* A step that adds no row, keeps the owners, and enters the flush's and   *)
(* RemoveConfig's critical steps only with what they have to know.         *)
LEMMA RowsFrame ==
  ASSUME WellFormed, ~restored, Rows, rows' \subseteq rows,
         \A p \in Periods : (Leaving(p) => Leaving(p)') /\ (Owned(p) => Owned(p)'),
         fl'.pc \in {"filter", "incr"} =>
           \/ fl.pc \in {"filter", "incr"} /\ fl'.key = fl.key
           \/ Owned(fl.key)',
         am'.pc = "rmRow" => UNCHANGED am \/ \A p \in rows : p = am'.key \/ Leaving(p),
         am'.pc \in {"rmConfig", "rmState"} =>
           am.pc \in {"rmConfig", "rmState"} \/ \A p \in rows : Leaving(p),
         Forgotten'
  PROVE  Rows'
<1>1. rows \subseteq Periods /\ (fl.pc \in {"filter", "incr"} => fl.key \in Periods)
  BY DEF WellFormed, TypeOK, TypeDb, TypeFl
<1>2. \A p \in rows' : Owned(p)'  BY <1>1 DEF Rows
<1>3. fl'.pc \in {"filter", "incr"} => Owned(fl.key)'  BY <1>1 DEF Rows
<1>4. am'.pc = "rmRow" => \A p \in rows' : p = am'.key \/ Leaving(p)'
  BY <1>1 DEF Rows
<1>5. am'.pc \in {"rmConfig", "rmState"} => \A p \in rows' : Leaving(p)'
  BY <1>1 DEF Rows
<1> QED  BY <1>2, <1>3, <1>4, <1>5 DEF Rows

(* Rows is kept by the steps that move no byte.                            *)
LEMMA RowsNeutral ==
  ASSUME WellFormed, Rows, ~restored, ~restored', Control \/ Field \/ KeyStep
  PROVE  Rows'
<1>1. /\ states # Nil => states \in Ids
      /\ rows \subseteq Periods /\ NoKey \notin Periods
  BY SMTT(30), BoundsAssumption DEF WellFormed, TypeOK, TypeMem, TypeDb, Ids, Nil, NoKey, Periods
<1>2. CASE Control
  <2>1. UNCHANGED <<states, heap, rows, leaked>>  BY <1>2, ControlFacts
  <2>2. CASE ResetStart \/ ResetLoad \/ (ResetKey /\ UNCHANGED run) \/ ResetLock
    <3>1. /\ UNCHANGED <<config, fl, am>>
          /\ rs.pc = "lock" => rs'.prev = rs.prev /\ rs'.pc = "delete"
          /\ rs.pc \notin {"flag", "delete"}
          /\ rs'.pc # "flag" /\ (rs'.pc = "compare" => config # NoConfig)
      <4>1. run # "down" \/ rs.pc # "key"  BY SMTT(30) DEF WellFormed, Off, RsIdle
      <4>2. CASE ResetStart
        BY SMTT(30), <4>2 DEF ResetStart, memVars
      <4>3. CASE ResetLoad
        BY SMTT(30), <4>3 DEF ResetLoad, RsIdle, memVars
      <4>4. CASE ResetKey /\ UNCHANGED run
        <5>1. /\ rs.pc = "key" /\ config # NoConfig
              /\ rs' = [rs EXCEPT !.pc = "compare"]
              /\ UNCHANGED <<config, fl, am>>
          BY <4>1, <4>4 DEF ResetKey, Panic, Stop, memVars
        <5> QED  BY SMTT(30), <5>1
      <4>5. CASE ResetLock
        BY SMTT(30), <4>5 DEF ResetLock, memVars
      <4> QED  BY <2>2, <4>2, <4>3, <4>4, <4>5
    <3>2. \A p \in Periods : (Leaving(p) => Leaving(p)') /\ (Owned(p) => Owned(p)')
      BY <2>1, <3>1, OwnersKept
    <3>3. Forgotten'  BY <2>1, <3>1 DEF Rows, Forgotten
    <3> QED  BY <2>1, <3>1, <3>2, <3>3, RowsFrame
  <2>3. CASE UNCHANGED rs
    <3>1. \A p \in Periods : (Leaving(p) => Leaving(p)') /\ (Owned(p) => Owned(p)')
      BY <2>1, <2>3, OwnersKept
    <3>2. CASE \/ UNCHANGED <<config, am>>
               \/ /\ UNCHANGED config /\ am.pc # "rmState"
                  /\ am'.pc \notin {"rmRow", "rmConfig", "rmState"}
      <4>1. Forgotten'  BY <2>1, <2>3, <3>2 DEF Rows, Forgotten
      <4> QED  BY <1>2, <2>1, <3>1, <3>2, <4>1, ControlAdmin, RowsFrame
    <3>3. CASE ApplyConfig
      <4>1. UNCHANGED fl /\ config' # NoConfig /\ am'.pc = "state"
        BY SMTT(30), <3>3, QuotasAssumption DEF ApplyConfig, NoConfig
      <4> QED  BY <2>1, <3>1, <4>1, RowsFrame DEF Forgotten
    <3>4. CASE RemoveStart
      <4>1. /\ UNCHANGED <<config, fl>> /\ am.pc = "idle"
            /\ am'.pc = IF config = NoConfig THEN "rmConfig" ELSE "rmKey"
        BY SMTT(30), <3>4 DEF RemoveStart, memVars
      <4>2. Forgotten'  BY <2>1, <2>3, <4>1 DEF Rows, Forgotten
      <4>3. config = NoConfig => \A p \in rows : Leaving(p)
        BY <1>1, <4>1 DEF Rows, Owned, Forgotten
      <4> QED  BY <2>1, <3>1, <4>1, <4>2, <4>3, RowsFrame
    <3>5. CASE RemoveConfig
      <4>1. UNCHANGED fl /\ am.pc = "rmConfig" /\ am'.pc = "rmState"
        BY SMTT(30), <3>5 DEF RemoveConfig
      <4> QED  BY <2>1, <3>1, <4>1, RowsFrame DEF Forgotten
    <3> QED  BY <1>2, <3>2, <3>3, <3>4, <3>5, ControlAdmin
  <2> QED  BY <1>2, <2>2, <2>3, ControlFacts
<1>3. CASE Field
  <2>1. /\ UNCHANGED <<config, states, rows, fl, rs, leaked>>
        /\ states # Nil => heap'[states].key = heap[states].key
    BY <1>1, <1>3, FieldFacts
  <2>2. UNCHANGED am \/ (am.pc = "decide" /\ am'.pc \in {"lock", "idle"})
    <3>1. UNCHANGED am \/ ApplyDecide
      BY <1>3 DEF Field, AddTrip, LuStore, LuDecide, RestoreUsage, RestoreFlag, RestoreField
    <3> QED  BY SMTT(30), <3>1 DEF ApplyDecide, AmIdle
  <2>3. \A p \in Periods : (Leaving(p) => Leaving(p)') /\ (Owned(p) => Owned(p)')
    BY <2>1, OwnersKept
  <2>4. Forgotten'  BY <2>1, <2>2 DEF Rows, Forgotten
  <2> QED  BY <2>1, <2>2, <2>3, <2>4, RowsFrame
<1>4. CASE KeyStep
  <2>1. UNCHANGED <<config, rows, fl, rs, leaked>>  BY <1>4, KeyFacts
  <2>2. PICK s \in Ids :
          /\ StateFor(s)
          /\ \/ heap'[s].key = heap[s].key
             \/ heap[s].key = NoKey /\ heap'[s].key = now /\ config # NoConfig
    BY <1>4, KeyFacts
  <2>3. states' = s /\ (states # Nil => s = states) /\ (states = Nil => s > nStates)
    BY <2>2, StateForFacts DEF WellFormed, TypeOK
  <2>4. \A p \in Periods : (Leaving(p) => Leaving(p)') /\ (Owned(p) => Owned(p)')
    BY <2>1, <2>2, <2>3, OwnersKept
  <2>5. /\ am'.pc = "rmRow" => UNCHANGED am \/ am'.key = heap'[s].key
        /\ am'.pc \in {"rmConfig", "rmState"} => UNCHANGED am
        /\ UNCHANGED am \/ config # NoConfig
    <3>1. CASE \E a \in Adders : AddState(a)  BY <3>1 DEF AddState
    <3>2. CASE RestoreConfig  BY <3>2 DEF RestoreConfig
    <3>3. CASE LuState \/ ApplyState \/ ApplyKey \/ RemoveKey
      <4>1. config # NoConfig
        BY <3>3 DEF LuState, ApplyState, ApplyKey, RemoveKey, WellFormed, Configured
      <4>2. UNCHANGED am \/ ApplyState \/ ApplyKey \/ RemoveKey
        BY <3>3, <4>1 DEF LuState, Panic
      <4>3. CASE ApplyState
        BY <4>1, <4>3 DEF ApplyState, Panic, WellFormed, TypeOK, TypeAm
      <4>4. CASE ApplyKey
        BY <4>1, <4>4 DEF ApplyKey, CurrentPeriodKey, Panic, WellFormed, TypeOK, TypeAm
      <4>5. CASE RemoveKey
        <5>1. PICK t \in Ids : /\ StateFor(t) /\ SetKeyIfEmpty(t)
                               /\ am' = [am EXCEPT !.pc = "rmRow", !.key = KeyOf(t)]
          BY <4>1, <4>5 DEF RemoveKey, CurrentPeriodKey, Panic
        <5>2. t = s
          BY <2>3, <5>1, StateForFacts DEF WellFormed, TypeOK
        <5>3. heap'[s].key = KeyOf(s)  BY <5>1, <5>2, KeyedState
        <5>4. am'.pc = "rmRow" /\ am'.key = KeyOf(s)
          BY SMTT(30), <5>1, <5>2
        <5> QED  BY <4>1, <5>3, <5>4
      <4> QED  BY <4>2, <4>1, <4>3, <4>4, <4>5
    <3> QED  BY <1>4, <3>1, <3>2, <3>3 DEF KeyStep
  <2>6. Forgotten'
    <3>1. CASE states = Nil
      <4>1. s > nStates /\ heap[s].key = NoKey /\ rs.state <= nStates
        BY SMTT(30), <2>3, <3>1 DEF WellFormed, Allocated, Fresh
      <4>2. rs.state # s  BY SMTT(30), <4>1, StatesNat DEF WellFormed
      <4> QED  BY <2>1, <2>2, <2>3, <4>1, <4>2 DEF Forgotten
    <3>2. CASE states # Nil
      BY <2>1, <2>2, <2>3, <2>5, <3>2 DEF Rows, Forgotten
    <3> QED  BY <3>1, <3>2
  <2>7. am'.pc = "rmRow" => UNCHANGED am \/ \A p \in rows : p = am'.key \/ Leaving(p)
    BY <1>1, <2>2, <2>3, <2>5 DEF Rows, Owned
  <2> QED  BY <2>1, <2>4, <2>5, <2>6, <2>7, RowsFrame
<1> QED  BY <1>2, <1>3, <1>4

(* Rows is kept by AddBytes and the flush while they work in memory.       *)
LEMMA RowsMemory ==
  ASSUME WellFormed, Rows, ~restored,
         \/ \E a \in Adders : AddCount(a)
         \/ FlushConsume \/ FlushFilter \/ FlushRestore
  PROVE  Rows'
<1>1. /\ states # Nil => states \in Ids
      /\ heap \in [Ids -> States] /\ now \in Keys
  BY SMTT(30), BoundsAssumption DEF WellFormed, TypeOK, TypeMem, Ids, Nil, Keys
<1>2. CASE \E a \in Adders : AddCount(a)
  <2>1. PICK a \in Adders : AddCount(a)  BY <1>2
  <2> DEFINE s == ad[a].state
  <2>2. /\ UNCHANGED <<config, states, rows, fl, rs, am, leaked>>
        /\ heap[s].key # NoKey \/ config # NoConfig
        /\ heap' = [heap EXCEPT ![s].key = KeyOf(s), ![s].usage = @ + 1, ![s].pending = @ + 1]
    BY <2>1 DEF AddCount, dbVars
  <2>3. s \in Ids  BY <2>1 DEF AddCount, WellFormed, TypeOK, TypeAd
  <2>4. KeyOf(s) \in Keys  BY <1>1, <2>3 DEF KeyOf, States
  <2> HIDE DEF s
  <2>5. /\ heap'[s].key = KeyOf(s)
        /\ \A t \in Ids \ {s} : heap'[t] = heap[t]
    BY <1>1, <2>2, <2>3, <2>4, CountUpdate
  <2>6. states # Nil =>
          heap'[states].key = heap[states].key
            \/ (heap[states].key = NoKey /\ config # NoConfig)
    BY <1>1, <2>2, <2>5 DEF KeyOf
  <2>7. \A p \in Periods : (Leaving(p) => Leaving(p)') /\ (Owned(p) => Owned(p)')
    BY <2>2, <2>6, OwnersKept
  <2>8. Forgotten'  BY <2>2, <2>6 DEF Rows, Forgotten
  <2> QED  BY <2>2, <2>7, <2>8, RowsFrame
<1>3. CASE FlushConsume
  <2>1. /\ UNCHANGED <<config, states, rows, rs, am, leaked>>
        /\ UNCHANGED heap \/ (states # Nil /\ heap' = [heap EXCEPT ![states].pending = 0])
        /\ \/ fl' = [fl EXCEPT !.pc = "unlock"]
           \/ states # Nil /\ fl' = [pc |-> "filter", key |-> heap[states].key,
                                     delta |-> heap[states].pending]
    <3>1. /\ UNCHANGED <<config, states, rows, rs, am, leaked>>
          /\ \/ UNCHANGED heap /\ fl' = [fl EXCEPT !.pc = "unlock"]
             \/ /\ states # Nil /\ heap' = [heap EXCEPT ![states].pending = 0]
                /\ fl' = IF heap[states].pending = 0 THEN [fl EXCEPT !.pc = "unlock"]
                         ELSE [pc |-> "filter", key |-> heap[states].key,
                               delta |-> heap[states].pending]
      BY <1>3 DEF FlushConsume, dbVars, histVars
    <3>2. CASE heap[states].pending = 0  BY <3>1, <3>2
    <3>3. CASE heap[states].pending # 0  BY <3>1, <3>3
    <3> QED  BY <3>2, <3>3
  <2>2. states # Nil => heap'[states].key = heap[states].key
    BY <1>1, <2>1, PendingUpdate
  <2>3. \A p \in Periods : (Leaving(p) => Leaving(p)') /\ (Owned(p) => Owned(p)')
    BY <2>1, <2>2, OwnersKept
  <2>4. Forgotten'  BY <2>1, <2>2 DEF Rows, Forgotten
  <2>5. fl'.pc \in {"filter", "incr"} => states # Nil /\ fl'.key = heap[states].key
    BY SMTT(30), <2>1 DEF WellFormed, TypeOK, TypeFl
  <2>6. fl'.pc \in {"filter", "incr"} => Owned(fl.key)'
    BY <2>1, <2>2, <2>5 DEF Owned
  <2> QED  BY <2>1, <2>3, <2>4, <2>6, RowsFrame
<1>4. CASE FlushFilter
  <2>1. /\ UNCHANGED <<config, states, heap, rows, rs, am, leaked>> /\ fl.pc = "filter"
        /\ fl' = [FlIdle EXCEPT !.pc = "unlock"] \/ fl' = [fl EXCEPT !.pc = "incr"]
    BY <1>4 DEF FlushFilter, memVars, dbVars
  <2>2. \A p \in Periods : (Leaving(p) => Leaving(p)') /\ (Owned(p) => Owned(p)')
    BY <2>1, OwnersKept
  <2>3. Forgotten'  BY <2>1 DEF Rows, Forgotten
  <2>4. fl'.pc = "unlock" \/ fl'.key = fl.key
    BY <2>1 DEF FlIdle, WellFormed, TypeOK, TypeFl
  <2> QED  BY <2>1, <2>2, <2>3, <2>4, RowsFrame
<1>5. CASE FlushRestore
  <2>1. /\ UNCHANGED <<config, rows, rs, am, leaked>>
        /\ \E pc \in {"redirty", "unlock"} : fl' = [FlIdle EXCEPT !.pc = pc]
        /\ \/ UNCHANGED <<states, heap>>
           \/ /\ config # NoConfig
              /\ \E t \in Ids :
                   /\ StateFor(t)
                   /\ \/ heap' = [heap EXCEPT ![t].pending = @ + fl.delta]
                      \/ UNCHANGED heap
    BY <1>5 DEF FlushRestore, dbVars
  <2>2. fl'.pc \notin {"filter", "incr"}  BY SMTT(30), <2>1
  <2>3. states # Nil => states' = states /\ heap'[states].key = heap[states].key
    BY SMTT(30), <1>1, <2>1 DEF StateFor, States
  <2>4. \A p \in Periods : (Leaving(p) => Leaving(p)') /\ (Owned(p) => Owned(p)')
    BY <2>1, <2>3, OwnersKept
  <2>5. Forgotten'  BY <2>1, <2>3 DEF Rows, Forgotten
  <2> QED  BY <2>1, <2>2, <2>4, <2>5, RowsFrame
<1> QED  BY <1>2, <1>3, <1>4, <1>5

(* Rows is kept by CheckPeriodReset and by the end of RemoveConfig.        *)
LEMMA RowsReset ==
  ASSUME WellFormed, Drained, Rows, ~restored, ResetCompare \/ ResetFlag \/ RemoveState
  PROVE  Rows'
<1>1. /\ states # Nil => states \in Ids
      /\ heap \in [Ids -> States] /\ rs.now \in Keys
      /\ rs.pc \in {"compare", "flag"} => rs.state \in Ids
  BY SMTT(30), BoundsAssumption DEF WellFormed, TypeOK, TypeMem, TypeRs, Ids, Nil
<1>2. CASE ResetCompare
  <2>1. /\ UNCHANGED <<config, states, rows, fl, am, leaked>> /\ rs.pc = "compare"
        /\ \/ /\ heap[rs.state].key \in {NoKey, rs.now}
              /\ heap' = [heap EXCEPT ![rs.state].key = rs.now]
              /\ rs' = RsIdle
           \/ /\ heap' = [heap EXCEPT ![rs.state].usage = 0, ![rs.state].pending = 0]
              /\ rs' = [rs EXCEPT !.pc = "flag", !.prev = heap[rs.state].key]
    BY <1>2 DEF ResetCompare, dbVars
  <2>2. /\ \A t \in Ids \ {rs.state} : heap'[t] = heap[t]
        /\ heap'[rs.state].key = heap[rs.state].key \/ heap[rs.state].key = NoKey
    BY <1>1, <2>1, KeyUpdate, ClearUpdate
  <2>3. rs'.state = rs.state \/ rs'.pc = "idle"
    <3>1. CASE rs' = RsIdle  BY <3>1 DEF RsIdle
    <3>2. CASE rs' = [rs EXCEPT !.pc = "flag", !.prev = heap[rs.state].key]
      <4>1. \E k : rs' = [rs EXCEPT !.pc = "flag", !.prev = k]  BY <3>2
      <4> QED  BY SMTT(30), <4>1
    <3> QED  BY <2>1, <3>1, <3>2
  <2>4. states # Nil =>
          heap'[states].key = heap[states].key \/ heap[states].key = NoKey
    BY <1>1, <2>2
  <2>5. \A p \in Periods : (Leaving(p) => Leaving(p)') /\ (Owned(p) => Owned(p)')
    BY <2>1, <2>4, OwnersKept
  <2>6. Forgotten'  BY <1>1, <2>1, <2>2, <2>3 DEF Rows, Forgotten
  <2> QED  BY <2>1, <2>5, <2>6, RowsFrame
<1>3. CASE ResetFlag
  <2>1. /\ UNCHANGED <<config, states, rows, fl, am, leaked>> /\ rs.pc = "flag"
        /\ heap' = [heap EXCEPT ![rs.state].exceeded = FALSE, ![rs.state].key = rs.now]
        /\ rs' = [rs EXCEPT !.pc = "lock"]
    BY <1>3 DEF ResetFlag, dbVars, histVars
  <2>2. /\ \A t \in Ids \ {rs.state} : heap'[t] = heap[t]
        /\ heap[rs.state].key = rs.prev
    BY <1>1, <2>1, MoveUpdate DEF Drained
  <2>3. rs'.pc = "lock" /\ rs'.prev = rs.prev  BY SMTT(30), <2>1
  <2>4. \A p \in Periods : (Leaving(p) => Leaving(p)') /\ (Owned(p) => Owned(p)')
    BY <1>1, <2>1, <2>2, <2>3 DEF Leaving, Owned
  <2>5. Forgotten'  BY <1>1, <2>1, <2>2, <2>3 DEF Rows, Forgotten
  <2> QED  BY <2>1, <2>4, <2>5, RowsFrame
<1>4. CASE RemoveState
  <2>1. /\ UNCHANGED <<config, heap, rows, fl, rs, leaked>> /\ am.pc = "rmState"
        /\ states' = Nil /\ am' = [am EXCEPT !.pc = "unlock"]
    BY <1>4 DEF RemoveState, dbVars
  <2>2. am'.pc = "unlock"  BY SMTT(30), <2>1
  <2>3. fl.pc = "idle"
    BY <2>1, HoldersAssumption DEF WellFormed, Locks, AdminHolds
  <2>4. \A p \in rows : Leaving(p) /\ Leaving(p)'  BY <2>1 DEF Rows, Leaving
  <2> QED  BY <2>1, <2>2, <2>3, <2>4 DEF Rows, Owned, Forgotten
<1> QED  BY <1>2, <1>3, <1>4

(* Rows is kept when the process stops or starts.                          *)
LEMMA RowsStops ==
  ASSUME WellFormed, Rows, ~restored, Stops \/ Start
  PROVE  Rows'
<1>1. CASE Stops
  <2>1. /\ rows' = rows /\ leaked' = leaked \cup rows
        /\ states' = Nil /\ fl' = FlIdle /\ am' = AmIdle
    BY <1>1 DEF Stops, Stop
  <2>2. fl'.pc = "idle" /\ am'.pc = "idle"  BY <2>1 DEF FlIdle, AmIdle
  <2> QED  BY <2>1, <2>2 DEF Rows, Owned, Leaving, Forgotten
<1>2. CASE Start
  <2>1. /\ UNCHANGED <<rows, fl, rs, am, leaked>>
        /\ config' = NoConfig => states' = Nil
    BY <1>2 DEF Start, dbVars, histVars
  <2>2. states = Nil /\ fl = FlIdle /\ rs = RsIdle /\ am = AmIdle
    BY <1>2 DEF Start, WellFormed, Off
  <2>3. fl.pc = "idle" /\ am.pc = "idle" /\ rs.pc = "idle"
    BY <2>2 DEF FlIdle, AmIdle, RsIdle
  <2>4. \A p \in rows : p \in leaked  BY <2>2, <2>3 DEF Rows, Owned, Leaving
  <2> QED  BY <2>1, <2>3, <2>4 DEF Rows, Owned, Leaving, Forgotten
<1> QED  BY <1>1, <1>2

(* Rows is kept by the steps that write or delete a row.                   *)
LEMMA RowsStored ==
  ASSUME WellFormed, Rows, ~restored, PeerIncr \/ FlushIncr \/ ResetDelete \/ RemoveRow
  PROVE  Rows'
<1>1. CASE PeerIncr
  <2>1. /\ UNCHANGED <<config, states, heap, fl, rs, am>>
        /\ rows' = rows \cup {now} /\ leaked' = leaked \cup {now}
    BY <1>1 DEF PeerIncr, IncrBy, memVars
  <2>2. \A p : (Leaving(p) => Leaving(p)') /\ (Owned(p) => Owned(p)')
    BY <2>1 DEF Leaving, Owned
  <2>4. Forgotten'  BY <2>1 DEF Rows, Forgotten
  <2>5. \A p \in rows' : p \in rows \/ p = now  BY <2>1
  <2>6. \A p \in rows' : p = now => Leaving(p)' /\ Owned(p)'
    BY <2>1 DEF Leaving, Owned
  <2>7. fl.pc \in {"filter", "incr"} => Owned(fl.key)'
    BY <2>1 DEF Rows, Owned, Leaving
  <2>8. \A p \in rows' : Owned(p)'  BY <2>2, <2>5, <2>6 DEF Rows
  <2>9. /\ am.pc = "rmRow" => \A p \in rows' : p = am.key \/ Leaving(p)'
        /\ am.pc \in {"rmConfig", "rmState"} => \A p \in rows' : Leaving(p)'
    BY <2>2, <2>5, <2>6 DEF Rows
  <2> QED  BY <2>1, <2>4, <2>7, <2>8, <2>9 DEF Rows
<1>2. CASE FlushIncr
  <2>1. /\ UNCHANGED <<config, states, heap, rs, am, leaked>> /\ fl.pc = "incr"
        /\ rows' = rows \/ rows' = rows \cup {fl.key}
        /\ \E pc \in {"reload", "restore"} : fl' = [fl EXCEPT !.pc = pc]
    BY <1>2 DEF FlushIncr, IncrBy, memVars, dbVars
  <2>2. fl'.pc \notin {"filter", "incr"}  BY SMTT(30), <2>1
  <2>3. am.pc \notin {"rmRow", "rmConfig", "rmState"}
    BY <2>1, HoldersAssumption DEF WellFormed, Locks, AdminHolds
  <2>4. \A p : Owned(p) => Owned(p)'  BY <2>1 DEF Leaving, Owned
  <2>5. Forgotten' /\ Owned(fl.key)  BY <2>1 DEF Rows, Forgotten
  <2>6. \A p \in rows' : Owned(p)  BY <2>1, <2>5 DEF Rows
  <2> QED  BY <2>1, <2>2, <2>3, <2>4, <2>5, <2>6 DEF Rows
<1>3. CASE ResetDelete
  <2>1. /\ UNCHANGED <<config, states, heap, fl, am>> /\ rs.pc = "delete" /\ rs' = RsIdle
        /\ \/ rows' = rows \ {rs.prev} /\ leaked' = leaked
           \/ rows' = rows /\ leaked' = leaked \cup {rs.prev}
    BY <1>3 DEF ResetDelete, DeleteRow, memVars, dbVars
  <2>2. fl.pc = "idle" /\ am.pc \notin {"rmRow", "rmConfig", "rmState"}
    BY <2>1, HoldersAssumption DEF WellFormed, Locks, AdminHolds
  <2>3. rs'.pc = "idle"  BY <2>1 DEF RsIdle
  <2>4. \A p \in rows' : Owned(p)'  BY <2>1 DEF Rows, Owned, Leaving
  <2>5. Forgotten'  BY <2>1, <2>3 DEF Rows, Forgotten
  <2> QED  BY <2>1, <2>2, <2>4, <2>5 DEF Rows
<1>4. CASE RemoveRow
  <2>1. /\ UNCHANGED <<config, states, heap, fl, rs, leaked>> /\ am.pc = "rmRow"
        /\ \/ rows' = rows \ {am.key} /\ am' = [AmIdle EXCEPT !.pc = "rmConfig"]
           \/ rows' = rows /\ am' = [AmIdle EXCEPT !.pc = "unlock"]
    BY <1>4 DEF RemoveRow, DeleteRow, memVars, dbVars
  <2>2. /\ am'.pc = "unlock" \/ (rows' = rows \ {am.key} /\ am'.pc = "rmConfig")
        /\ rows' \subseteq rows
    BY <2>1 DEF AmIdle
  <2>3. \A p : (Leaving(p) => Leaving(p)') /\ (Owned(p) => Owned(p)')
    BY <2>1 DEF Leaving, Owned
  <2>4. \A p \in rows : p = am.key \/ Leaving(p)  BY <2>1 DEF Rows
  <2>5. am'.pc = "rmConfig" => \A p \in rows' : Leaving(p)'
    BY <2>2, <2>3, <2>4
  <2>6. Forgotten'  BY <2>1 DEF Rows, Forgotten
  <2>7. fl.pc = "idle"  BY <2>1, HoldersAssumption DEF WellFormed, Locks, AdminHolds
  <2> QED  BY <2>1, <2>2, <2>3, <2>5, <2>6, <2>7 DEF Rows
<1> QED  BY <1>1, <1>2, <1>3, <1>4

(* Every step keeps Rows.                                                  *)
LEMMA RowsNext ==
  ASSUME WellFormed, Drained, Rows, Next  PROVE Rows'
<1> SUFFICES ASSUME ~restored'  PROVE Rows'  BY DEF Rows
<1>1. ~restored  BY RestoredStays
<1>2. CASE Control \/ Field \/ KeyStep  BY <1>1, <1>2, RowsNeutral
<1>3. CASE \/ \E a \in Adders : AddCount(a)
           \/ FlushConsume \/ FlushFilter \/ FlushRestore
  BY <1>1, <1>3, RowsMemory
<1>4. CASE ResetCompare \/ ResetFlag \/ RemoveState  BY <1>1, <1>4, RowsReset
<1>5. CASE Stops \/ Start  BY <1>1, <1>5, RowsStops
<1>6. CASE PeerIncr \/ FlushIncr \/ ResetDelete \/ RemoveRow
  BY <1>1, <1>6, RowsStored
<1> QED  BY <1>1, <1>2, <1>3, <1>4, <1>5, <1>6, Kinds, Unrestored
=============================================================================
