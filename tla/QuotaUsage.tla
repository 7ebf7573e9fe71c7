----------------------------- MODULE QuotaUsage -----------------------------
(***************************************************************************)
(* Byte accounting of the traffic-quota service for one user: AddBytes,    *)
(* the flush to Redis or Postgres, the period reset, configuration         *)
(* changes, RestoreState, crash, shutdown and restart                      *)
(* (service/trafficquota/manager.go, service.go, persist*.go).  A period   *)
(* key is the number of the period the clock is in.  The connections a     *)
(* trip closes are in QuotaConns.                                          *)
(***************************************************************************)
EXTENDS Integers

CONSTANTS
  Adders,       \* goroutines that call AddBytes
  Quotas,       \* the quotaBytes an administrator may configure
  Flusher, Resetter, Admin, Restorer, Nobody,   \* holders of persistAccess
  MaxPeriod,    \* bound on the clock
  MaxBytes,     \* bound on the bytes counted in one run
  MaxPeer,      \* bound on the bytes other instances add to the database
  MaxObjects,   \* bound on *userState allocations
  MaxOps,       \* bound on ApplyConfig and RemoveConfig calls
  MaxRestores,  \* bound on SnapshotState calls
  MaxFails,     \* bound on failing persister calls
  MaxStops      \* bound on crashes and shutdowns

ASSUME HoldersAssumption ==
  /\ Flusher \notin {Resetter, Admin, Restorer, Nobody}
  /\ Resetter \notin {Admin, Restorer, Nobody}
  /\ Admin \notin {Restorer, Nobody} /\ Restorer # Nobody

ASSUME QuotasAssumption == Quotas \subseteq Nat \ {0}

ASSUME BoundsAssumption ==
  /\ MaxPeriod \in Nat \ {0} /\ MaxObjects \in Nat \ {0}
  /\ MaxBytes \in Nat /\ MaxPeer \in Nat /\ MaxOps \in Nat
  /\ MaxRestores \in Nat /\ MaxFails \in Nat /\ MaxStops \in Nat

Nil == 0
Ids == 1..MaxObjects
Periods == 1..MaxPeriod
NoKey == 0                       \* the empty periodKey
NoConfig == 0                    \* userConfigs has no entry
Fresh == [usage |-> 0, pending |-> 0, exceeded |-> FALSE, key |-> NoKey]

VARIABLES
  run,        \* "up", "closing" (cancelled), "final" (last flush), "down"
  now,        \* the period the clock is in
  config,     \* quotaBytes of userConfigs' entry, or NoConfig
  states,     \* the states map's entry
  nStates,    \* number of allocated *userState
  heap,       \* every *userState
  dirty,      \* dirtySet/dirtyQueue hold the user
  persist,    \* holder of Service.persistAccess
  rows,       \* periods with a row for the user in the database
  db,         \* the bytes in each row
  ad,         \* AddBytes calls: [pc, quota, state, total]
  fl,         \* flushPending: [pc, key, delta]
  lu,         \* LoadUsage: [pc, quota, state, val], run by persist's holder
  rs,         \* handlePeriodResets: [pc, now, state, prev]
  am,         \* ApplyConfig, RemoveConfig: [pc, isNew, quota, state, over, key]
  rt,         \* SnapshotState, RestoreState: [pc, quota, snap, state]
  bytes, ops, snaps, fails, stops, peer,  \* the bounded counters
  counted,    \* history: bytes counted under each period key, by any instance
  discarded,  \* history: bytes given up by reset, removal, crash, deletion
  twice,      \* history: bytes of IncrBy calls that failed after taking effect
  leaked,     \* history: rows whose deletion failed or was never attempted
  restored,   \* history: RestoreState has run
  panics      \* history: the callers in which mustPeriodKey panicked

memVars   == <<config, states, nStates, heap, dirty>>
dbVars    == <<rows, db>>
boundVars == <<bytes, ops, snaps, fails, stops, peer>>
histVars  == <<counted, discarded, twice, leaked, restored, panics>>
vars == <<run, now, memVars, persist, dbVars, ad, fl, lu, rs, am, rt,
          boundVars, histVars>>

AdIdle == [pc |-> "idle", quota |-> 0, state |-> Nil, total |-> 0]
FlIdle == [pc |-> "idle", key |-> NoKey, delta |-> 0]
LuIdle == [pc |-> "idle", quota |-> 0, state |-> Nil, val |-> 0]
RsIdle == [pc |-> "idle", now |-> 0, state |-> Nil, prev |-> NoKey]
AmIdle == [pc |-> "idle", isNew |-> FALSE, quota |-> 0, state |-> Nil,
           over |-> FALSE, key |-> NoKey]
RtIdle == [pc |-> "idle", quota |-> 0, state |-> Nil, snap |-> Fresh]

Init ==
  /\ run = "down" /\ now = 1
  /\ config = NoConfig /\ states = Nil /\ nStates = 0
  /\ heap = [s \in Ids |-> Fresh]
  /\ dirty = FALSE /\ persist = Nobody
  /\ rows = {} /\ db = [p \in Periods |-> 0]
  /\ ad = [a \in Adders |-> AdIdle]
  /\ fl = FlIdle /\ lu = LuIdle /\ rs = RsIdle /\ am = AmIdle /\ rt = RtIdle
  /\ bytes = 0 /\ ops = 0 /\ snaps = 0 /\ fails = 0 /\ stops = 0 /\ peer = 0
  /\ counted = [p \in Periods |-> 0]
  /\ discarded = [p \in Periods |-> 0]
  /\ twice = [p \in Periods |-> 0]
  /\ leaked = {} /\ restored = FALSE /\ panics = {}

-----------------------------------------------------------------------------
Up == run # "down"

(* CheckPeriodReset is inside s's periodAccess critical section.           *)
Locked(s) == rs.pc = "flag" /\ rs.state = s

(* stateFor: states.LoadOrStore(user, &userState{}) yields s.              *)
StateFor(s) ==
  \/ /\ states # Nil /\ s = states
     /\ UNCHANGED <<states, nStates>>
  \/ /\ states = Nil /\ nStates < MaxObjects
     /\ s = nStates + 1
     /\ states' = s /\ nStates' = s

(* setPeriodKeyIfEmpty with the current period's key.                      *)
KeyOf(s) == IF heap[s].key = NoKey THEN now ELSE heap[s].key
SetKeyIfEmpty(s) == ~Locked(s) /\ heap' = [heap EXCEPT ![s].key = KeyOf(s)]

(* A persister call: it runs on the service's context, so it fails once    *)
(* Close has cancelled it.                                                 *)
CallSucceeds == run = "up" /\ UNCHANGED fails
CallFails ==
  \/ run \in {"closing", "final"} /\ UNCHANGED fails
  \/ run = "up" /\ fails < MaxFails /\ fails' = fails + 1

DeleteRow(p) ==
  /\ rows' = rows \ {p}
  /\ db' = [db EXCEPT ![p] = 0]
  /\ discarded' = [discarded EXCEPT ![p] = @ + db[p]]

IncrBy(p, n) ==
  /\ rows' = rows \cup {p}
  /\ db' = [db EXCEPT ![p] = @ + n]

(* Bytes of period p that are only in memory.                              *)
Pending(p) == IF states # Nil /\ heap[states].key = p THEN heap[states].pending ELSE 0
InFlight(p) == IF fl.pc \in {"filter", "incr", "restore"} /\ fl.key = p THEN fl.delta ELSE 0

-----------------------------------------------------------------------------
(* The process ends: memory is gone, the database stays.                   *)
Stop ==
  /\ run' = "down"
  /\ config' = NoConfig /\ states' = Nil /\ nStates' = 0
  /\ heap' = [s \in Ids |-> Fresh]
  /\ dirty' = FALSE /\ persist' = Nobody
  /\ ad' = [a \in Adders |-> AdIdle]
  /\ fl' = FlIdle /\ lu' = LuIdle /\ rs' = RsIdle /\ am' = AmIdle /\ rt' = RtIdle
  /\ discarded' = [p \in Periods |-> discarded[p] + Pending(p) + InFlight(p)]
  /\ leaked' = leaked \cup rows

Crash ==
  /\ Up /\ stops < MaxStops
  /\ stops' = stops + 1
  /\ Stop
  /\ UNCHANGED <<now, dbVars, bytes, ops, snaps, fails, peer, counted, twice,
                 restored, panics>>

(* mustPeriodKey panics: the user's config is gone.                        *)
Panic(caller) ==
  /\ config = NoConfig
  /\ panics' = panics \cup {caller}
  /\ Stop
  /\ UNCHANGED <<now, dbVars, boundVars, counted, twice, restored>>

(* NewService and Start: the configured user's persisted usage is loaded;  *)
(* an error is logged and the user starts from zero.                       *)
Start ==
  /\ run = "down" /\ run' = "up"
  /\ \E q \in Quotas \cup {NoConfig}, bytesLoaded \in {0, db[now]} :
       /\ \/ bytesLoaded = db[now] /\ UNCHANGED fails
          \/ bytesLoaded = 0 /\ fails < MaxFails /\ fails' = fails + 1
       /\ config' = q
       /\ states' = IF q = NoConfig THEN Nil ELSE 1
       /\ heap' = IF q = NoConfig THEN heap
                  ELSE [heap EXCEPT ![1] = [usage |-> bytesLoaded, pending |-> 0,
                                            exceeded |-> bytesLoaded > q, key |-> now]]
  /\ nStates' = states'
  /\ UNCHANGED <<now, dirty, persist, dbVars, ad, fl, lu, rs, am, rt, bytes, ops,
                 snaps, stops, peer, histVars>>

(* Service.Close: cancel the context; when the loops have returned, flush  *)
(* once more and close the persister (FlushUnlock).                        *)
Close ==
  /\ run = "up" /\ stops < MaxStops
  /\ run' = "closing" /\ stops' = stops + 1
  /\ UNCHANGED <<now, memVars, persist, dbVars, ad, fl, lu, rs, am, rt, bytes, ops,
                 snaps, fails, peer, histVars>>

CloseFlush ==
  /\ run = "closing" /\ run' = "final"
  /\ fl.pc = "idle" /\ rs.pc = "idle" /\ persist = Nobody
  /\ persist' = Flusher
  /\ fl' = [fl EXCEPT !.pc = "drain"]
  /\ UNCHANGED <<now, memVars, dbVars, ad, lu, rs, am, rt, boundVars, histVars>>

Tick ==
  /\ now < MaxPeriod /\ now' = now + 1
  /\ UNCHANGED <<run, memVars, persist, dbVars, ad, fl, lu, rs, am, rt, boundVars,
                 histVars>>

(* Another instance flushes to the shared database.                        *)
PeerIncr ==
  /\ peer < MaxPeer /\ peer' = peer + 1
  /\ IncrBy(now, 1)
  /\ counted' = [counted EXCEPT ![now] = @ + 1]
  /\ leaked' = leaked \cup {now}
  /\ UNCHANGED <<run, now, memVars, persist, ad, fl, lu, rs, am, rt, bytes, ops,
                 snaps, fails, stops, discarded, twice, restored, panics>>

-----------------------------------------------------------------------------
(* AddBytes, for one byte: loadConfig, stateFor, the critical section of   *)
(* periodAccess, markDirty, tripExceeded.                                  *)

AddBytes(a) ==
  /\ Up /\ ad[a].pc = "idle" /\ config # NoConfig
  /\ bytes < MaxBytes /\ bytes' = bytes + 1
  /\ ad' = [ad EXCEPT ![a].pc = "state", ![a].quota = config]
  /\ UNCHANGED <<run, now, memVars, persist, dbVars, fl, lu, rs, am, rt, ops, snaps,
                 fails, stops, peer, histVars>>

AddState(a) ==
  /\ ad[a].pc = "state"
  /\ \E s \in Ids :
       /\ StateFor(s)
       /\ ad' = [ad EXCEPT ![a].pc = "count", ![a].state = s]
  /\ UNCHANGED <<run, now, config, heap, dirty, persist, dbVars, fl, lu, rs, am, rt,
                 boundVars, histVars>>

(* A resurrected state without a config: the bytes are dropped.            *)
AddDrop(a) ==
  LET s == ad[a].state IN
  /\ ad[a].pc = "count" /\ ~Locked(s)
  /\ heap[s].key = NoKey /\ config = NoConfig
  /\ ad' = [ad EXCEPT ![a] = AdIdle]
  /\ UNCHANGED <<run, now, memVars, persist, dbVars, fl, lu, rs, am, rt, boundVars,
                 histVars>>

AddCount(a) ==
  LET s == ad[a].state
      k == KeyOf(s)
  IN
  /\ ad[a].pc = "count" /\ ~Locked(s)
  /\ heap[s].key # NoKey \/ config # NoConfig
  /\ heap' = [heap EXCEPT ![s].key = k, ![s].usage = @ + 1, ![s].pending = @ + 1]
  /\ ad' = [ad EXCEPT ![a].pc = "dirty", ![a].total = heap[s].usage + 1]
  /\ counted' = [counted EXCEPT ![k] = @ + 1]
  /\ discarded' = [discarded EXCEPT ![k] = IF s = states THEN @ ELSE @ + 1]
  /\ UNCHANGED <<run, now, config, states, nStates, dirty, persist, dbVars, fl, lu,
                 rs, am, rt, boundVars, twice, leaked, restored, panics>>

AddDirty(a) ==
  /\ ad[a].pc = "dirty"
  /\ dirty' = TRUE
  /\ ad' = [ad EXCEPT ![a] = IF @.total > @.quota THEN [@ EXCEPT !.pc = "trip"]
                                                  ELSE AdIdle]
  /\ UNCHANGED <<run, now, config, states, nStates, heap, persist, dbVars, fl, lu, rs,
                 am, rt, boundVars, histVars>>

AddTrip(a) ==
  /\ ad[a].pc = "trip"
  /\ heap' = [heap EXCEPT ![ad[a].state].exceeded = TRUE]
  /\ ad' = [ad EXCEPT ![a] = AdIdle]
  /\ UNCHANGED <<run, now, config, states, nStates, dirty, persist, dbVars, fl, lu, rs,
                 am, rt, boundVars, histVars>>

-----------------------------------------------------------------------------
(* LoadUsage, called by whoever holds persistAccess: loadConfig, stateFor  *)
(* and mustPeriodKey, usage.Store, then trip or clear.                     *)

LuConfig ==
  /\ lu.pc = "config"
  /\ lu' = IF config = NoConfig THEN LuIdle
           ELSE [lu EXCEPT !.pc = "state", !.quota = config]
  /\ UNCHANGED <<run, now, memVars, persist, dbVars, ad, fl, rs, am, rt, boundVars,
                 histVars>>

LuState ==
  /\ lu.pc = "state"
  /\ \/ Panic("LoadUsage")
     \/ /\ config # NoConfig
        /\ \E s \in Ids :
             /\ StateFor(s)
             /\ SetKeyIfEmpty(s)
             /\ lu' = [lu EXCEPT !.pc = "store", !.state = s]
        /\ UNCHANGED <<run, now, config, dirty, persist, dbVars, ad, fl, rs, am, rt,
                       boundVars, histVars>>

LuStore ==
  /\ lu.pc = "store"
  /\ heap' = [heap EXCEPT ![lu.state].usage = lu.val]
  /\ lu' = [lu EXCEPT !.pc = "decide"]
  /\ UNCHANGED <<run, now, config, states, nStates, dirty, persist, dbVars, ad, fl, rs,
                 am, rt, boundVars, histVars>>

(* Mutant: LoadUsage only clears the flag.                                 *)
LuDecideNoTrip ==
  /\ lu.pc = "decide"
  /\ heap' = [heap EXCEPT ![lu.state].exceeded = @ /\ lu.val > lu.quota]
  /\ lu' = LuIdle
  /\ UNCHANGED <<run, now, config, states, nStates, dirty, persist, dbVars, ad, fl, rs,
                 am, rt, boundVars, histVars>>

LuDecide ==
  /\ lu.pc = "decide"
  /\ heap' = [heap EXCEPT ![lu.state].exceeded = lu.val > lu.quota]
  /\ lu' = LuIdle
  /\ UNCHANGED <<run, now, config, states, nStates, dirty, persist, dbVars, ad, fl, rs,
                 am, rt, boundVars, histVars>>

LoadUsage(bytesLoaded) == lu' = [LuIdle EXCEPT !.pc = "config", !.val = bytesLoaded]

-----------------------------------------------------------------------------
(* flushPending, under persistAccess from the first step to the last.  The *)
(* select of a loop may take the tick once more after the cancellation.    *)

FlushLock ==
  /\ run \in {"up", "closing"} /\ fl.pc = "idle" /\ persist = Nobody
  /\ persist' = Flusher
  /\ fl' = [fl EXCEPT !.pc = "drain"]
  /\ UNCHANGED <<run, now, memVars, dbVars, ad, lu, rs, am, rt, boundVars, histVars>>

(* ConsumePendingDeltas: take the dirty queue, then the user's delta.      *)
FlushDrain ==
  /\ fl.pc = "drain"
  /\ dirty' = FALSE
  /\ fl' = [fl EXCEPT !.pc = IF dirty THEN "consume" ELSE "unlock"]
  /\ UNCHANGED <<run, now, config, states, nStates, heap, persist, dbVars, ad, lu, rs,
                 am, rt, boundVars, histVars>>

(* Mutant: a zero delta is not skipped.                                    *)
FlushConsumeZero ==
  /\ fl.pc = "consume"
  /\ \/ /\ states = Nil
        /\ fl' = [fl EXCEPT !.pc = "unlock"]
        /\ UNCHANGED heap
     \/ /\ states # Nil /\ ~Locked(states)
        /\ heap' = [heap EXCEPT ![states].pending = 0]
        /\ fl' = [pc |-> "filter", key |-> heap[states].key,
                  delta |-> heap[states].pending]
  /\ UNCHANGED <<run, now, config, states, nStates, dirty, persist, dbVars, ad, lu, rs,
                 am, rt, boundVars, histVars>>

FlushConsume ==
  /\ fl.pc = "consume"
  /\ \/ /\ states = Nil
        /\ fl' = [fl EXCEPT !.pc = "unlock"]
        /\ UNCHANGED heap
     \/ /\ states # Nil /\ ~Locked(states)
        /\ heap' = [heap EXCEPT ![states].pending = 0]
        /\ fl' = IF heap[states].pending = 0 THEN [fl EXCEPT !.pc = "unlock"]
                 ELSE [pc |-> "filter", key |-> heap[states].key,
                       delta |-> heap[states].pending]
  /\ UNCHANGED <<run, now, config, states, nStates, dirty, persist, dbVars, ad, lu, rs,
                 am, rt, boundVars, histVars>>

DropDelta == discarded' = [discarded EXCEPT ![fl.key] = @ + fl.delta]

FlushFilter ==
  /\ fl.pc = "filter"
  /\ \/ /\ config = NoConfig
        /\ DropDelta
        /\ fl' = [FlIdle EXCEPT !.pc = "unlock"]
     \/ /\ config # NoConfig
        /\ fl' = [fl EXCEPT !.pc = "incr"]
        /\ UNCHANGED discarded
  /\ UNCHANGED <<run, now, memVars, persist, dbVars, ad, lu, rs, am, rt, boundVars,
                 counted, twice, leaked, restored, panics>>

(* An IncrBy that reports an error may have taken effect all the same.     *)
FlushIncr ==
  /\ fl.pc = "incr"
  /\ \/ /\ CallSucceeds
        /\ IncrBy(fl.key, fl.delta)
        /\ fl' = [fl EXCEPT !.pc = "reload"]
        /\ UNCHANGED twice
     \/ /\ CallFails
        /\ fl' = [fl EXCEPT !.pc = "restore"]
        /\ \/ UNCHANGED <<dbVars, twice>>
           \/ /\ run = "up"
              /\ IncrBy(fl.key, fl.delta)
              /\ twice' = [twice EXCEPT ![fl.key] = @ + fl.delta]
  /\ UNCHANGED <<run, now, memVars, persist, ad, lu, rs, am, rt, bytes, ops, snaps,
                 stops, peer, counted, discarded, leaked, restored, panics>>

(* Mutant: RestorePendingDelta ignores the period.                         *)
FlushRestoreAnyPeriod ==
  /\ fl.pc = "restore" /\ config # NoConfig
  /\ \E s \in Ids :
       /\ StateFor(s) /\ ~Locked(s)
       /\ heap' = [heap EXCEPT ![s].pending = @ + fl.delta]
  /\ fl' = [FlIdle EXCEPT !.pc = "redirty"]
  /\ UNCHANGED <<run, now, config, dirty, persist, dbVars, ad, lu, rs, am, rt,
                 boundVars, histVars>>

(* Mutant: RestorePendingDelta does not call markDirty.                    *)
FlushRestoreNoMark ==
  /\ fl.pc = "restore" /\ config # NoConfig
  /\ \E s \in Ids :
       /\ StateFor(s) /\ ~Locked(s) /\ heap[s].key = fl.key
       /\ heap' = [heap EXCEPT ![s].pending = @ + fl.delta]
  /\ fl' = [FlIdle EXCEPT !.pc = "unlock"]
  /\ UNCHANGED <<run, now, config, dirty, persist, dbVars, ad, lu, rs, am, rt,
                 boundVars, histVars>>

(* RestorePendingDelta: only into the period it was taken from.            *)
FlushRestore ==
  /\ fl.pc = "restore"
  /\ \/ /\ config = NoConfig
        /\ DropDelta
        /\ fl' = [FlIdle EXCEPT !.pc = "unlock"]
        /\ UNCHANGED <<states, nStates, heap>>
     \/ /\ config # NoConfig
        /\ \E s \in Ids :
             /\ StateFor(s) /\ ~Locked(s)
             /\ \/ /\ heap[s].key = fl.key
                   /\ heap' = [heap EXCEPT ![s].pending = @ + fl.delta]
                   /\ fl' = [FlIdle EXCEPT !.pc = "redirty"]
                   /\ UNCHANGED discarded
                \/ /\ heap[s].key # fl.key
                   /\ DropDelta
                   /\ fl' = [FlIdle EXCEPT !.pc = "unlock"]
                   /\ UNCHANGED heap
  /\ UNCHANGED <<run, now, config, dirty, persist, dbVars, ad, lu, rs, am, rt,
                 boundVars, counted, twice, leaked, restored, panics>>

FlushRedirty ==
  /\ fl.pc = "redirty"
  /\ dirty' = TRUE
  /\ fl' = [fl EXCEPT !.pc = "unlock"]
  /\ UNCHANGED <<run, now, config, states, nStates, heap, persist, dbVars, ad, lu, rs,
                 am, rt, boundVars, histVars>>

(* LoadMany of the consumed period, then LoadUsage of what it returned.    *)
FlushReload ==
  /\ fl.pc = "reload"
  /\ \/ /\ CallSucceeds /\ fl.key \in rows
        /\ LoadUsage(db[fl.key])
        /\ fl' = [FlIdle EXCEPT !.pc = "loading"]
     \/ /\ CallFails \/ (CallSucceeds /\ fl.key \notin rows)
        /\ fl' = [FlIdle EXCEPT !.pc = "unlock"]
        /\ UNCHANGED lu
  /\ UNCHANGED <<run, now, memVars, persist, dbVars, ad, rs, am, rt, bytes, ops, snaps,
                 stops, peer, histVars>>

FlushUnlock ==
  /\ fl.pc = "unlock" \/ (fl.pc = "loading" /\ lu.pc = "idle")
  /\ \/ /\ run # "final"
        /\ persist' = Nobody
        /\ fl' = FlIdle
        /\ UNCHANGED <<run, memVars, ad, lu, rs, am, rt, discarded, leaked>>
     \/ /\ run = "final"
        /\ Stop
  /\ UNCHANGED <<now, dbVars, boundVars, counted, twice, restored, panics>>

-----------------------------------------------------------------------------
(* handlePeriodResets(now): CheckPeriodReset takes neither persistAccess   *)
(* nor lifecycle; only the deletion of the old row takes persistAccess.    *)

ResetStart ==
  /\ run \in {"up", "closing"} /\ rs.pc = "idle" /\ config # NoConfig
  /\ rs' = [rs EXCEPT !.pc = "load", !.now = now]
  /\ UNCHANGED <<run, now, memVars, persist, dbVars, ad, fl, lu, am, rt, boundVars,
                 histVars>>

ResetLoad ==
  /\ rs.pc = "load"
  /\ rs' = IF states = Nil THEN RsIdle
           ELSE [rs EXCEPT !.pc = "key", !.state = states]
  /\ UNCHANGED <<run, now, memVars, persist, dbVars, ad, fl, lu, am, rt, boundVars,
                 histVars>>

ResetKey ==
  /\ rs.pc = "key"
  /\ \/ Panic("CheckPeriodReset")
     \/ /\ config # NoConfig
        /\ rs' = [rs EXCEPT !.pc = "compare"]
        /\ UNCHANGED <<run, now, memVars, persist, dbVars, ad, fl, lu, am, rt,
                       boundVars, histVars>>

ResetCompare ==
  LET s == rs.state
      prev == heap[s].key
  IN
  /\ rs.pc = "compare"
  /\ \/ /\ prev \in {NoKey, rs.now}
        /\ heap' = [heap EXCEPT ![s].key = rs.now]
        /\ rs' = RsIdle
        /\ UNCHANGED discarded
     \/ /\ prev \notin {NoKey, rs.now}
        /\ heap' = [heap EXCEPT ![s].usage = 0, ![s].pending = 0]
        /\ discarded' = [discarded EXCEPT ![prev] =
                           IF s = states THEN @ + heap[s].pending ELSE @]
        /\ rs' = [rs EXCEPT !.pc = "flag", !.prev = prev]
  /\ UNCHANGED <<run, now, config, states, nStates, dirty, persist, dbVars, ad, fl, lu,
                 am, rt, boundVars, counted, twice, leaked, restored, panics>>

ResetFlag ==
  /\ rs.pc = "flag"
  /\ heap' = [heap EXCEPT ![rs.state].exceeded = FALSE, ![rs.state].key = rs.now]
  /\ rs' = [rs EXCEPT !.pc = "lock"]
  /\ UNCHANGED <<run, now, config, states, nStates, dirty, persist, dbVars, ad, fl, lu,
                 am, rt, boundVars, histVars>>

(* Mutant: handlePeriodResets does not take persistAccess.                 *)
ResetUnserialized ==
  /\ rs.pc = "lock"
  /\ rs' = [rs EXCEPT !.pc = "delete"]
  /\ UNCHANGED <<run, now, memVars, persist, dbVars, ad, fl, lu, am, rt, boundVars,
                 histVars>>

ResetLock ==
  /\ rs.pc = "lock" /\ persist = Nobody
  /\ persist' = Resetter
  /\ rs' = [rs EXCEPT !.pc = "delete"]
  /\ UNCHANGED <<run, now, memVars, dbVars, ad, fl, lu, am, rt, boundVars, histVars>>

ResetDelete ==
  /\ rs.pc = "delete"
  /\ \/ /\ CallSucceeds
        /\ DeleteRow(rs.prev)
        /\ UNCHANGED leaked
     \/ /\ CallFails
        /\ leaked' = leaked \cup {rs.prev}
        /\ UNCHANGED <<dbVars, discarded>>
  /\ persist' = Nobody
  /\ rs' = RsIdle
  /\ UNCHANGED <<run, now, memVars, ad, fl, lu, am, rt, bytes, ops, snaps, stops, peer,
                 counted, twice, restored, panics>>

-----------------------------------------------------------------------------
(* Service.ApplyConfig / applyDynamic with a quota, under applyMu.         *)

ApplyConfig ==
  /\ Up /\ am.pc = "idle"
  /\ ops < MaxOps /\ ops' = ops + 1
  /\ \E q \in Quotas :
       /\ config' = q
       /\ am' = [am EXCEPT !.pc = "state", !.isNew = config = NoConfig, !.quota = q]
  /\ UNCHANGED <<run, now, states, nStates, heap, dirty, persist, dbVars, ad, fl, lu,
                 rs, rt, bytes, snaps, fails, stops, peer, histVars>>

ApplyState ==
  /\ am.pc = "state"
  /\ \/ Panic("ApplyConfig")
     \/ /\ config # NoConfig
        /\ \E s \in Ids :
             /\ StateFor(s)
             /\ SetKeyIfEmpty(s)
             /\ am' = [am EXCEPT !.pc = "read", !.state = s]
        /\ UNCHANGED <<run, now, config, dirty, persist, dbVars, ad, fl, lu, rs, rt,
                       boundVars, histVars>>

ApplyRead ==
  /\ am.pc = "read"
  /\ am' = [am EXCEPT !.pc = "decide", !.over = heap[am.state].usage > am.quota]
  /\ UNCHANGED <<run, now, memVars, persist, dbVars, ad, fl, lu, rs, rt, boundVars,
                 histVars>>

ApplyDecide ==
  /\ am.pc = "decide"
  /\ heap' = [heap EXCEPT ![am.state].exceeded = am.over]
  /\ am' = IF am.isNew THEN [AmIdle EXCEPT !.pc = "lock"] ELSE AmIdle
  /\ UNCHANGED <<run, now, config, states, nStates, dirty, persist, dbVars, ad, fl, lu,
                 rs, rt, boundVars, histVars>>

(* CurrentPeriodKey: stateFor, and the state's key or the clock's.         *)
CurrentPeriodKey(caller, next) ==
  \/ Panic(caller) /\ (states = Nil \/ heap[states].key = NoKey)
  \/ /\ config # NoConfig \/ (states # Nil /\ heap[states].key # NoKey)
     /\ \E s \in Ids :
          /\ StateFor(s)
          /\ SetKeyIfEmpty(s)
          /\ am' = [am EXCEPT !.pc = next, !.key = KeyOf(s)]
     /\ UNCHANGED <<run, now, config, dirty, persist, dbVars, ad, fl, lu, rs, rt,
                    boundVars, histVars>>

ApplyLock ==
  /\ am.pc = "lock" /\ persist = Nobody
  /\ persist' = Admin
  /\ am' = [am EXCEPT !.pc = "key"]
  /\ UNCHANGED <<run, now, memVars, dbVars, ad, fl, lu, rs, rt, boundVars, histVars>>

ApplyKey == am.pc = "key" /\ CurrentPeriodKey("ApplyConfig", "fetch")

(* persister.Load, and LoadUsage unless it failed.                         *)
ApplyFetch ==
  /\ am.pc = "fetch"
  /\ \/ /\ CallSucceeds
        /\ LoadUsage(db[am.key])
        /\ am' = [AmIdle EXCEPT !.pc = "loading"]
     \/ /\ CallFails
        /\ am' = [AmIdle EXCEPT !.pc = "unlock"]
        /\ UNCHANGED lu
  /\ UNCHANGED <<run, now, memVars, persist, dbVars, ad, fl, rs, rt, bytes, ops, snaps,
                 stops, peer, histVars>>

AdminUnlock ==
  /\ am.pc = "unlock" \/ (am.pc = "loading" /\ lu.pc = "idle")
  /\ persist' = Nobody
  /\ am' = AmIdle
  /\ UNCHANGED <<run, now, memVars, dbVars, ad, fl, lu, rs, rt, boundVars, histVars>>

-----------------------------------------------------------------------------
(* removeConfigLocked: the current row first, then the memory.             *)

(* Mutant: removeConfigLocked does not take persistAccess.                 *)
RemoveUnserialized ==
  /\ Up /\ am.pc = "idle"
  /\ ops < MaxOps /\ ops' = ops + 1
  /\ am' = [am EXCEPT !.pc = IF config = NoConfig THEN "rmConfig" ELSE "rmKey"]
  /\ UNCHANGED <<run, now, memVars, persist, dbVars, ad, fl, lu, rs, rt, bytes, snaps,
                 fails, stops, peer, histVars>>

RemoveStart ==
  /\ Up /\ am.pc = "idle" /\ persist = Nobody
  /\ ops < MaxOps /\ ops' = ops + 1
  /\ persist' = Admin
  /\ am' = [am EXCEPT !.pc = IF config = NoConfig THEN "rmConfig" ELSE "rmKey"]
  /\ UNCHANGED <<run, now, memVars, dbVars, ad, fl, lu, rs, rt, bytes, snaps, fails,
                 stops, peer, histVars>>

RemoveKey == am.pc = "rmKey" /\ CurrentPeriodKey("RemoveConfig", "rmRow")

RemoveRow ==
  /\ am.pc = "rmRow"
  /\ \/ /\ CallSucceeds
        /\ DeleteRow(am.key)
        /\ am' = [AmIdle EXCEPT !.pc = "rmConfig"]
     \/ /\ CallFails
        /\ am' = [AmIdle EXCEPT !.pc = "unlock"]
        /\ UNCHANGED <<dbVars, discarded>>
  /\ UNCHANGED <<run, now, memVars, persist, ad, fl, lu, rs, rt, bytes, ops, snaps,
                 stops, peer, counted, twice, leaked, restored, panics>>

RemoveConfig ==
  /\ am.pc = "rmConfig"
  /\ config' = NoConfig
  /\ am' = [am EXCEPT !.pc = "rmState"]
  /\ UNCHANGED <<run, now, states, nStates, heap, dirty, persist, dbVars, ad, fl, lu,
                 rs, rt, boundVars, histVars>>

RemoveState ==
  /\ am.pc = "rmState"
  /\ states' = Nil
  /\ discarded' = [p \in Periods |-> discarded[p] + Pending(p)]
  /\ am' = [am EXCEPT !.pc = "unlock"]
  /\ UNCHANGED <<run, now, config, nStates, heap, dirty, persist, dbVars, ad, fl, lu,
                 rs, rt, boundVars, counted, twice, leaked, restored, panics>>

-----------------------------------------------------------------------------
(* SnapshotState reads the fields one by one, without a lock.              *)

SnapshotUsage ==
  /\ Up /\ rt.pc = "idle" /\ config # NoConfig
  /\ snaps < MaxRestores /\ snaps' = snaps + 1
  /\ rt' = [pc |-> IF states = Nil THEN "held" ELSE "fields", quota |-> config,
            state |-> states,
            snap |-> [Fresh EXCEPT !.usage = IF states = Nil THEN 0
                                             ELSE heap[states].usage]]
  /\ UNCHANGED <<run, now, memVars, persist, dbVars, ad, fl, lu, rs, am, bytes, ops,
                 fails, stops, peer, histVars>>

SnapshotFields ==
  /\ rt.pc = "fields"
  /\ rt' = [rt EXCEPT !.pc = "held",
                      !.snap = [heap[rt.state] EXCEPT !.usage = rt.snap.usage]]
  /\ UNCHANGED <<run, now, memVars, persist, dbVars, ad, fl, lu, rs, am, boundVars,
                 histVars>>

(* The deletion succeeded: nothing to restore.                             *)
SnapshotDrop ==
  /\ rt.pc = "held"
  /\ rt' = RtIdle
  /\ UNCHANGED <<run, now, memVars, persist, dbVars, ad, fl, lu, rs, am, boundVars,
                 histVars>>

(* RestoreState under persistAccess; its stores are not atomic.            *)
RestoreConfig ==
  /\ rt.pc = "held" /\ persist = Nobody
  /\ persist' = Restorer
  /\ config' = rt.quota
  /\ \E s \in Ids : StateFor(s) /\ rt' = [rt EXCEPT !.pc = "usage", !.state = s]
  /\ restored' = TRUE
  /\ UNCHANGED <<run, now, heap, dirty, dbVars, ad, fl, lu, rs, am, boundVars, counted,
                 discarded, twice, leaked, panics>>

RestoreField(from, to, newHeap) ==
  /\ rt.pc = from
  /\ heap' = newHeap
  /\ rt' = [rt EXCEPT !.pc = to]
  /\ UNCHANGED <<run, now, config, states, nStates, dirty, persist, dbVars, ad, fl, lu,
                 rs, am, boundVars, histVars>>

RestoreUsage ==
  RestoreField("usage", "pending", [heap EXCEPT ![rt.state].usage = rt.snap.usage])
RestorePending ==
  RestoreField("pending", "flag", [heap EXCEPT ![rt.state].pending = rt.snap.pending])
RestoreFlag ==
  RestoreField("flag", "key", [heap EXCEPT ![rt.state].exceeded = rt.snap.exceeded])
RestoreKey ==
  /\ ~Locked(rt.state)
  /\ RestoreField("key", "save", [heap EXCEPT ![rt.state].key = rt.snap.key])

(* Mutant: RestoreState forgets ClearPendingDelta.                         *)
RestoreSaveNoClear ==
  /\ rt.pc = "save" /\ rt.snap.key # NoKey /\ CallSucceeds
  /\ rows' = rows \cup {rt.snap.key}
  /\ db' = [db EXCEPT ![rt.snap.key] = rt.snap.usage]
  /\ rt' = [rt EXCEPT !.pc = "unlock"]
  /\ UNCHANGED <<run, now, memVars, persist, ad, fl, lu, rs, am, bytes, ops, snaps,
                 stops, peer, histVars>>

(* persister.Save of the snapshot's usage, then ClearPendingDelta.         *)
RestoreSave ==
  LET k == IF rt.snap.key = NoKey THEN KeyOf(rt.state) ELSE rt.snap.key IN
  /\ rt.pc = "save"
  /\ \/ rt.snap.key # NoKey /\ UNCHANGED heap
     \/ rt.snap.key = NoKey /\ SetKeyIfEmpty(rt.state)      \* CurrentPeriodKey
  /\ \/ /\ CallSucceeds
        /\ rows' = rows \cup {k}
        /\ db' = [db EXCEPT ![k] = rt.snap.usage]
        /\ rt' = [rt EXCEPT !.pc = "clear"]
     \/ /\ CallFails
        /\ rt' = [rt EXCEPT !.pc = "unlock"]
        /\ UNCHANGED dbVars
  /\ UNCHANGED <<run, now, config, states, nStates, dirty, persist, ad, fl, lu, rs,
                 am, bytes, ops, snaps, stops, peer, histVars>>

RestoreClear ==
  /\ rt.pc = "clear"
  /\ heap' = IF states = Nil THEN heap ELSE [heap EXCEPT ![states].pending = 0]
  /\ rt' = [rt EXCEPT !.pc = "unlock"]
  /\ UNCHANGED <<run, now, config, states, nStates, dirty, persist, dbVars, ad, fl, lu,
                 rs, am, boundVars, histVars>>

RestoreUnlock ==
  /\ rt.pc = "unlock"
  /\ persist' = Nobody
  /\ rt' = RtIdle
  /\ UNCHANGED <<run, now, memVars, dbVars, ad, fl, lu, rs, am, boundVars, histVars>>

-----------------------------------------------------------------------------
AddStep(a) == AddState(a) \/ AddDrop(a) \/ AddCount(a) \/ AddDirty(a) \/ AddTrip(a)

LoadStep == LuConfig \/ LuState \/ LuStore \/ LuDecide

FlushStep ==
  \/ FlushDrain \/ FlushConsume \/ FlushFilter \/ FlushIncr \/ FlushRestore
  \/ FlushRedirty \/ FlushReload \/ FlushUnlock

ResetStep ==
  \/ ResetLoad \/ ResetKey \/ ResetCompare \/ ResetFlag \/ ResetLock \/ ResetDelete

AdminStep ==
  \/ ApplyState \/ ApplyRead \/ ApplyDecide \/ ApplyLock \/ ApplyKey \/ ApplyFetch
  \/ AdminUnlock \/ RemoveKey \/ RemoveRow \/ RemoveConfig \/ RemoveState

RestoreStep ==
  \/ SnapshotFields \/ RestoreUsage \/ RestorePending \/ RestoreFlag \/ RestoreKey
  \/ RestoreSave \/ RestoreClear \/ RestoreUnlock

Next ==
  \/ Start \/ Crash \/ Close \/ CloseFlush \/ Tick \/ PeerIncr
  \/ \E a \in Adders : AddBytes(a) \/ AddStep(a)
  \/ LoadStep
  \/ FlushLock \/ FlushStep
  \/ ResetStart \/ ResetStep
  \/ ApplyConfig \/ RemoveStart \/ AdminStep
  \/ SnapshotUsage \/ SnapshotDrop \/ RestoreConfig \/ RestoreStep

Spec == Init /\ [][Next]_vars

(* The tickers of runFlushLoop and runPeriodResetLoop keep firing, the Go  *)
(* scheduler runs every runnable goroutine, and a waiter on persistAccess  *)
(* gets it in the end (sync.Mutex's starvation mode): strong fairness for  *)
(* the steps that lock it.                                                 *)
Fairness ==
  /\ WF_vars(Start)
  /\ \A a \in Adders : WF_vars(AddStep(a))
  /\ SF_vars(FlushLock) /\ SF_vars(ResetLock) /\ SF_vars(ApplyLock)
  /\ WF_vars(LoadStep) /\ WF_vars(FlushStep) /\ WF_vars(ResetStart)
  /\ WF_vars(ResetStep) /\ WF_vars(AdminStep) /\ WF_vars(RestoreStep)

FairSpec == Spec /\ Fairness

-----------------------------------------------------------------------------
Keys == {NoKey} \cup Periods
States == [usage : Nat, pending : Nat, exceeded : BOOLEAN, key : Keys]

Refs == Ids \cup {Nil}

TypeMem ==
  /\ run \in {"up", "closing", "final", "down"} /\ now \in Periods
  /\ config \in Quotas \cup {NoConfig}
  /\ nStates \in 0..MaxObjects /\ states \in 0..nStates
  /\ heap \in [Ids -> States] /\ dirty \in BOOLEAN
  /\ persist \in {Flusher, Resetter, Admin, Restorer, Nobody}

TypeDb ==
  /\ rows \in SUBSET Periods /\ db \in [Periods -> Nat]
  /\ counted \in [Periods -> Nat] /\ discarded \in [Periods -> Nat]
  /\ twice \in [Periods -> Nat] /\ leaked \in SUBSET Periods

TypeCounters ==
  /\ bytes \in Nat /\ ops \in Nat /\ snaps \in Nat /\ fails \in Nat /\ stops \in Nat
  /\ peer \in Nat /\ restored \in BOOLEAN
  /\ panics \in SUBSET {"LoadUsage", "ApplyConfig", "RemoveConfig", "CheckPeriodReset"}

TypeAd ==
  /\ ad \in [Adders -> [pc : {"idle", "state", "count", "dirty", "trip"},
                        quota : Nat, state : Refs, total : Nat]]
  /\ \A a \in Adders : ad[a].pc \in {"count", "dirty", "trip"} => ad[a].state \in Ids

TypeFl ==
  /\ fl \in [pc : {"idle", "drain", "consume", "filter", "incr", "restore", "redirty",
                   "reload", "loading", "unlock"}, key : Keys, delta : Nat]
  /\ fl.pc \in {"filter", "incr", "restore", "reload"} => fl.key \in Periods

TypeLu ==
  /\ lu \in [pc : {"idle", "config", "state", "store", "decide"}, quota : Nat,
             state : Refs, val : Nat]
  /\ lu.pc \in {"store", "decide"} => lu.state \in Ids

TypeRs ==
  /\ rs \in [pc : {"idle", "load", "key", "compare", "flag", "lock", "delete"},
             now : Keys, state : Refs, prev : Keys]
  /\ rs.pc \in {"key", "compare", "flag"} => rs.state \in Ids
  /\ rs.pc # "idle" => rs.now \in Periods
  /\ rs.pc \in {"flag", "lock", "delete"} => rs.prev \in Periods

TypeAm ==
  /\ am \in [pc : {"idle", "state", "read", "decide", "lock", "key", "fetch", "loading",
                   "unlock", "rmKey", "rmRow", "rmConfig", "rmState"},
             isNew : BOOLEAN, quota : Nat, state : Refs, over : BOOLEAN, key : Keys]
  /\ am.pc \in {"read", "decide"} => am.state \in Ids
  /\ am.pc \in {"fetch", "rmRow"} => am.key \in Periods

TypeRt ==
  /\ rt \in [pc : {"idle", "fields", "held", "usage", "pending", "flag", "key", "save",
                   "clear", "unlock"},
             quota : Quotas \cup {NoConfig}, state : Refs, snap : States]
  /\ rt.pc \notin {"idle", "held"} => rt.state \in Ids

(* Every variable keeps its type, and a call that works on a *userState    *)
(* works on an allocated one.                                              *)
TypeOK ==
  /\ TypeMem /\ TypeDb /\ TypeCounters
  /\ TypeAd /\ TypeFl /\ TypeLu /\ TypeRs /\ TypeAm /\ TypeRt

(* No byte is persisted twice, attributed to another period or forgotten:  *)
(* every byte counted under a period is in its row, pending, in a flush's  *)
(* hands, or was given up with the period, the user or the process.  The   *)
(* one excess is an IncrBy that failed after taking effect and is retried  *)
(* (until RestoreState, which writes absolute values).                     *)
Conservation ==
  ~restored => \A p \in Periods :
    db[p] + Pending(p) + InFlight(p) + discarded[p] = counted[p] + twice[p]

(* The dirty index is complete: pending bytes are in the dirty queue, or   *)
(* the goroutine that will put them there or consume them is under way.    *)
PendingIsDirty ==
  (~restored /\ states # Nil /\ heap[states].pending > 0) =>
    \/ dirty
    \/ fl.pc \in {"consume", "redirty"}
    \/ \E a \in Adders : ad[a].pc = "dirty"

(* A row of a past period is not brought back after its deletion: every    *)
(* row belongs to the user's current key or is about to be deleted by      *)
(* handlePeriodResets, unless a deletion failed, the process stopped or    *)
(* another instance wrote it.                                              *)
RowsOwned ==
  ~restored => \A p \in rows :
    \/ states # Nil /\ heap[states].key = p
    \/ rs.pc \in {"flag", "lock", "delete"} /\ rs.prev = p
    \/ p \in leaked

(* applyMu and persistAccess keep RemoveConfig out of every mustPeriodKey  *)
(* call but the one in CheckPeriodReset.                                   *)
PanicsOnlyInReset == panics \subseteq {"CheckPeriodReset"}

(* The user's traffic of the current period is above the quota.            *)
OverQuota ==
  /\ config # NoConfig /\ states # Nil /\ heap[states].key # NoKey
  /\ db[heap[states].key] + heap[states].pending > config

Exceeded == states # Nil /\ heap[states].exceeded

(* manager.go:689-695: no operation makes mustPeriodKey panic.  The test   *)
(* TestQuotaManagerAddBytesRemoveConfigNoPanic states it for AddBytes;     *)
(* CheckPeriodReset breaks it.                                             *)
NoPanic == panics = {}

(* Close flushes all pending deltas: with a database that never fails, its *)
(* flush does not have to put back a delta it took.                        *)
CloseFlushes == (run = "final" /\ fails = 0) => fl.pc \notin {"restore", "redirty"}

(* Neither the flush nor a RestoreState whose calls succeed charges a byte *)
(* twice: within the first period, before Close makes the calls fail and   *)
(* outside the window from RestoreState's pending.Store to its             *)
(* ClearPendingDelta, what is persisted, pending and in flight is at most  *)
(* what was counted.                                                       *)
NoOvercount ==
  (/\ now = 1 /\ fails = 0 /\ run \in {"up", "down"}
   /\ rt.pc \notin {"flag", "key", "save", "clear"}) =>
    \A p \in Periods : db[p] + Pending(p) + InFlight(p) <= counted[p]

(* Counted bytes end up persisted within a bounded number of flushes.      *)
PendingPersisted ==
  [](states # Nil /\ heap[states].pending > 0 =>
       <>(states = Nil \/ heap[states].pending = 0))

(* Enforcement recovers: a user above the quota is refused in the end, if  *)
(* the database answers and the configuration stays as it is.              *)
EventuallyEnforced == OverQuota ~> (Exceeded \/ ~OverQuota \/ ops + fails > 0)

=============================================================================
