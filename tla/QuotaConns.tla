----------------------------- MODULE QuotaConns -----------------------------
(***************************************************************************)
(* Connection tracking of the traffic-quota service for one user: who is   *)
(* registered in the user's connList, who trips the `exceeded` flag, and   *)
(* who closes which connections (service/trafficquota/manager.go, conn.go, *)
(* service.go).  Users share no state but the two locks, so one user shows *)
(* every interleaving.                                                     *)
(*                                                                         *)
(* Byte counts are abstracted: an AddBytes, LoadUsage or ApplyConfig may   *)
(* find the total above the quota or not.  QuotaUsage models the counts.   *)
(*                                                                         *)
(* *userState and *connList values are heap objects with identities,       *)
(* because goroutines keep pointers to objects that RemoveConfig has       *)
(* already deleted from the maps.                                          *)
(***************************************************************************)
EXTENDS Naturals, FiniteSets

CONSTANTS
  Conns,        \* connections the router hands to RoutedConnection
  Ios,          \* Read/Write calls that can be in flight at the same time
  Admin,        \* the goroutine holding applyMu: ApplyConfig, RemoveConfig
  Flusher,      \* runFlushLoop
  Restorer,     \* the admin API's SnapshotState ... RestoreState
  Nobody,       \* persistAccess is free
  MaxObjects,   \* bound on *userState and on *connList allocations
  MaxOps,       \* bound on ApplyConfig and RemoveConfig calls
  MaxRestores   \* bound on snapshots taken

ASSUME ProcsAssumption ==
  /\ Admin \notin Ios /\ Flusher \notin Ios /\ Admin # Flusher
  /\ Restorer \notin {Admin, Flusher} /\ Nobody \notin {Admin, Flusher, Restorer}

ASSUME BoundsAssumption == MaxObjects \in Nat \ {0} /\ MaxOps \in Nat /\ MaxRestores \in Nat

Nil == 0
Ids == 1..MaxObjects
Ptr == {Nil} \cup Ids

Workers == Ios \cup {Admin, Flusher}   \* the goroutines that run tripExceeded

VARIABLES
  config,       \* userConfigs has an entry for the user
  states,       \* the states map's entry
  exceeded,     \* userState.exceeded of every allocated state
  nStates,      \* number of allocated *userState
  activeConns,  \* the activeConns map's entry
  conns,        \* connList.conns of every allocated list
  nLists,       \* number of allocated *connList
  readers,      \* holders of lifecycle.RLock
  writer,       \* RemoveConfig holds lifecycle.Lock
  persist,      \* holder of Service.persistAccess
  cpc,          \* where each connection's goroutine is
  cstate,       \* the *userState its RegisterConn works on
  clist,        \* the *connList its onClose closure captured
  closed,       \* QuotaConn.closed
  pc,           \* where each worker is
  wstate,       \* the *userState the worker works on
  trip,         \* progress inside tripExceeded
  wlist,        \* the *connList being closed
  todo,         \* connections still to be marked by closeAll
  isNew,        \* ApplyConfig's isNew
  rpc,          \* where the snapshot/restore goroutine is
  snap,         \* RuntimeState taken by SnapshotState
  rstate,       \* the *userState RestoreState writes
  resetting,    \* the *userState runPeriodResetLoop is about to reset
  ops,          \* ApplyConfig and RemoveConfig calls so far
  snaps,        \* SnapshotState calls so far
  displaced,    \* history: lists RestoreState unlinked without closing them
  forced        \* history: states whose flag RestoreState raised

mapVars  == <<config, states, nStates, activeConns, nLists>>
lockVars == <<readers, writer, persist>>
connVars == <<cpc, cstate, clist>>
workVars == <<pc, wstate, isNew>>
tripVars == <<trip, wlist, todo>>
restVars == <<rpc, snap, snaps, rstate>>
histVars == <<displaced, forced>>
vars == <<mapVars, exceeded, conns, lockVars, connVars, closed, workVars,
          tripVars, restVars, resetting, ops, histVars>>

Init ==
  /\ config \in BOOLEAN                       \* options.Users names the user or not
  /\ states = IF config THEN 1 ELSE Nil       \* restoreUsage has run
  /\ nStates = states
  /\ exceeded \in [Ids -> BOOLEAN]
  /\ \A s \in Ids : exceeded[s] => config /\ s = 1
  /\ activeConns = Nil /\ nLists = 0
  /\ conns = [l \in Ids |-> {}]
  /\ readers = {} /\ writer = FALSE /\ persist = Nobody
  /\ cpc = [c \in Conns |-> "new"]
  /\ cstate = [c \in Conns |-> Nil] /\ clist = [c \in Conns |-> Nil]
  /\ closed = [c \in Conns |-> FALSE]
  /\ pc = [w \in Workers |-> "idle"]
  /\ wstate = [w \in Workers |-> Nil]
  /\ trip = [w \in Workers |-> "none"]
  /\ wlist = [w \in Workers |-> Nil] /\ todo = [w \in Workers |-> {}]
  /\ isNew = FALSE
  /\ rpc = "idle" /\ snap = [exceeded |-> FALSE, list |-> Nil] /\ rstate = Nil
  /\ snaps = 0
  /\ resetting = Nil /\ ops = 0
  /\ displaced = {} /\ forced = {}

-----------------------------------------------------------------------------
(* stateFor: states.LoadOrStore(user, &userState{}) yields s.              *)
StateFor(s) ==
  \/ /\ states # Nil /\ s = states
     /\ UNCHANGED <<states, nStates>>
  \/ /\ states = Nil /\ nStates < MaxObjects
     /\ s = nStates + 1
     /\ states' = s /\ nStates' = s

(* The local variable that held the *userState goes out of scope.          *)
Forget(w) == wstate' = [wstate EXCEPT ![w] = Nil]

(* userState.exceeded.Store(FALSE) *)
ClearExceeded(s) ==
  /\ exceeded' = [exceeded EXCEPT ![s] = FALSE]
  /\ forced' = forced \ {s}

-----------------------------------------------------------------------------
(* RoutedConnection and RegisterConn, one atomic access to shared state at *)
(* a time.  A raw connection is not tracked, a dead one is refused.        *)

HasQuota(c) ==
  /\ cpc[c] = "new"
  /\ cpc' = [cpc EXCEPT ![c] = IF config THEN "check" ELSE "raw"]
  /\ UNCHANGED <<mapVars, exceeded, conns, lockVars, cstate, clist, closed,
                 workVars, tripVars, restVars, resetting, ops, histVars>>

IsExceeded(c) ==
  /\ cpc[c] = "check"
  /\ LET refused == states # Nil /\ exceeded[states] IN
       /\ cpc' = [cpc EXCEPT ![c] = IF refused THEN "dead" ELSE "register"]
       /\ closed' = [closed EXCEPT ![c] = refused]
  /\ UNCHANGED <<mapVars, exceeded, conns, lockVars, cstate, clist,
                 workVars, tripVars, restVars, resetting, ops, histVars>>

(* Mutant of RegisterLock: no lifecycle.RLock.                             *)
RegisterUnlocked(c) ==
  /\ cpc[c] = "register"
  /\ cpc' = [cpc EXCEPT ![c] = IF config THEN "state" ELSE "raw"]
  /\ UNCHANGED <<mapVars, exceeded, conns, lockVars, cstate, clist,
                 closed, workVars, tripVars, restVars, resetting, ops, histVars>>

(* Mutant of RegisterLock: RoutedConnection's HasQuota is trusted.         *)
RegisterUnchecked(c) ==
  /\ cpc[c] = "register" /\ ~writer
  /\ cpc' = [cpc EXCEPT ![c] = "state"]
  /\ readers' = readers \cup {c}
  /\ UNCHANGED <<mapVars, exceeded, conns, writer, persist, cstate, clist,
                 closed, workVars, tripVars, restVars, resetting, ops, histVars>>

(* lifecycle.RLock and loadConfig; without a config RUnlock at once.       *)
RegisterLock(c) ==
  /\ cpc[c] = "register" /\ ~writer
  /\ cpc' = [cpc EXCEPT ![c] = IF config THEN "state" ELSE "raw"]
  /\ readers' = IF config THEN readers \cup {c} ELSE readers
  /\ UNCHANGED <<mapVars, exceeded, conns, writer, persist, cstate, clist,
                 closed, workVars, tripVars, restVars, resetting, ops, histVars>>

RegisterState(c) ==
  /\ cpc[c] = "state"
  /\ \E s \in Ids : StateFor(s) /\ cstate' = [cstate EXCEPT ![c] = s]
  /\ cpc' = [cpc EXCEPT ![c] = "list"]
  /\ UNCHANGED <<config, activeConns, nLists, exceeded, conns, lockVars, clist,
                 closed, workVars, tripVars, restVars, resetting, ops, histVars>>

(* activeConns.LoadOrStore(user, &connList{}) *)
RegisterList(c) ==
  /\ cpc[c] = "list"
  /\ \/ /\ activeConns # Nil
        /\ clist' = [clist EXCEPT ![c] = activeConns]
        /\ UNCHANGED <<activeConns, nLists>>
     \/ /\ activeConns = Nil /\ nLists < MaxObjects
        /\ nLists' = nLists + 1 /\ activeConns' = nLists'
        /\ clist' = [clist EXCEPT ![c] = nLists']
  /\ cpc' = [cpc EXCEPT ![c] = "add"]
  /\ UNCHANGED <<config, states, nStates, exceeded, conns, lockVars, cstate,
                 closed, workVars, tripVars, restVars, resetting, ops, histVars>>

(* connList.add *)
RegisterAdd(c) ==
  /\ cpc[c] = "add"
  /\ conns' = [conns EXCEPT ![clist[c]] = @ \cup {c}]
  /\ cpc' = [cpc EXCEPT ![c] = "load"]
  /\ UNCHANGED <<mapVars, exceeded, lockVars, cstate, clist, closed, workVars,
                 tripVars, restVars, resetting, ops, histVars>>

(* Mutant of RegisterLoad: RoutedConnection's IsExceeded is trusted.       *)
RegisterNoRecheck(c) ==
  /\ cpc[c] = "load"
  /\ cpc' = [cpc EXCEPT ![c] = "open"]
  /\ readers' = readers \ {c}
  /\ cstate' = [cstate EXCEPT ![c] = Nil]
  /\ UNCHANGED <<mapVars, exceeded, conns, writer, persist, clist,
                 closed, workVars, tripVars, restVars, resetting, ops, histVars>>

(* Mutant of RegisterLoad: the exceeded path returns without RUnlock.      *)
RegisterNoUnlock(c) ==
  /\ cpc[c] = "load"
  /\ cpc' = [cpc EXCEPT ![c] = IF exceeded[cstate[c]] THEN "mark" ELSE "open"]
  /\ readers' = IF exceeded[cstate[c]] THEN readers ELSE readers \ {c}
  /\ cstate' = [cstate EXCEPT ![c] = Nil]
  /\ UNCHANGED <<mapVars, exceeded, conns, writer, persist, clist,
                 closed, workVars, tripVars, restVars, resetting, ops, histVars>>

(* exceeded.Load and lifecycle.RUnlock *)
RegisterLoad(c) ==
  /\ cpc[c] = "load"
  /\ cpc' = [cpc EXCEPT ![c] = IF exceeded[cstate[c]] THEN "mark" ELSE "open"]
  /\ readers' = readers \ {c}
  /\ cstate' = [cstate EXCEPT ![c] = Nil]
  /\ UNCHANGED <<mapVars, exceeded, conns, writer, persist, clist,
                 closed, workVars, tripVars, restVars, resetting, ops, histVars>>

RegisterMark(c) ==
  /\ cpc[c] = "mark"
  /\ closed' = [closed EXCEPT ![c] = TRUE]
  /\ cpc' = [cpc EXCEPT ![c] = "open"]
  /\ UNCHANGED <<mapVars, exceeded, conns, lockVars, cstate, clist, workVars,
                 tripVars, restVars, resetting, ops, histVars>>

(* QuotaConn.Close: onClose runs connList.remove on the captured list.     *)
CloseConn(c) ==
  /\ cpc[c] = "open"
  /\ conns' = [conns EXCEPT ![clist[c]] = @ \ {c}]
  /\ cpc' = [cpc EXCEPT ![c] = "gone"]
  /\ clist' = [clist EXCEPT ![c] = Nil]
  /\ UNCHANGED <<mapVars, exceeded, lockVars, cstate, closed, workVars,
                 tripVars, restVars, resetting, ops, histVars>>
-----------------------------------------------------------------------------
(* tripExceeded: CompareAndSwap, activeConns.Load, then closeAll, which    *)
(* copies the list under its lock and marks the copy outside it.           *)

TripExceeded(w) ==
  LET s == wstate[w] IN
  \/ /\ exceeded[s]
     /\ Forget(w)
     /\ UNCHANGED <<exceeded, trip>>
  \/ /\ ~exceeded[s]
     /\ exceeded' = [exceeded EXCEPT ![s] = TRUE]
     /\ trip' = [trip EXCEPT ![w] = "list"]
     /\ UNCHANGED wstate

(* Mutant of TripList: the list is used although none was loaded.          *)
TripListUnchecked(w) ==
  /\ trip[w] = "list"
  /\ trip' = [trip EXCEPT ![w] = "copy"]
  /\ wlist' = [wlist EXCEPT ![w] = activeConns]
  /\ UNCHANGED <<mapVars, exceeded, conns, lockVars, connVars, closed, workVars,
                 todo, restVars, resetting, ops, histVars>>

TripList(w) ==
  /\ trip[w] = "list"
  /\ \/ /\ activeConns = Nil
        /\ trip' = [trip EXCEPT ![w] = "none"]
        /\ Forget(w)
        /\ UNCHANGED wlist
     \/ /\ activeConns # Nil
        /\ trip' = [trip EXCEPT ![w] = "copy"]
        /\ wlist' = [wlist EXCEPT ![w] = activeConns]
        /\ UNCHANGED wstate
  /\ UNCHANGED <<mapVars, exceeded, conns, lockVars, connVars, closed, pc, isNew,
                 todo, restVars, resetting, ops, histVars>>

TripCopy(w) ==
  /\ trip[w] = "copy"
  /\ todo' = [todo EXCEPT ![w] = conns[wlist[w]]]
  /\ wlist' = [wlist EXCEPT ![w] = Nil]
  /\ trip' = [trip EXCEPT ![w] = "mark"]
  /\ UNCHANGED <<mapVars, exceeded, conns, lockVars, connVars, closed, workVars,
                 restVars, resetting, ops, histVars>>

(* Mutant of TripMark: the loop stops after the first connection.          *)
TripMarkFirst(w) ==
  /\ trip[w] = "mark"
  /\ \/ \E c \in todo[w] : closed' = [closed EXCEPT ![c] = TRUE]
     \/ todo[w] = {} /\ UNCHANGED closed
  /\ todo' = [todo EXCEPT ![w] = {}]
  /\ trip' = [trip EXCEPT ![w] = "none"]
  /\ Forget(w)
  /\ UNCHANGED <<mapVars, exceeded, conns, lockVars, connVars, pc, isNew,
                 wlist, restVars, resetting, ops, histVars>>

TripMark(w) ==
  /\ trip[w] = "mark"
  /\ \/ \E c \in todo[w] :
          /\ closed' = [closed EXCEPT ![c] = TRUE]
          /\ todo' = [todo EXCEPT ![w] = @ \ {c}]
          /\ UNCHANGED <<trip, wstate>>
     \/ /\ todo[w] = {}
        /\ trip' = [trip EXCEPT ![w] = "none"]
        /\ Forget(w)
        /\ UNCHANGED <<closed, todo>>
  /\ UNCHANGED <<mapVars, exceeded, conns, lockVars, connVars, pc, isNew,
                 wlist, restVars, resetting, ops, histVars>>

Goto(w, from, to) ==
  /\ pc[w] = from /\ trip[w] = "none"
  /\ pc' = [pc EXCEPT ![w] = to]

-----------------------------------------------------------------------------
(* QuotaConn.Read/Write: the closed check, the inner call, AddBytes.       *)

IoStart(i) ==
  /\ \E c \in Conns : cpc[c] = "open" /\ ~closed[c]
  /\ Goto(i, "idle", "io")
  /\ UNCHANGED <<mapVars, exceeded, conns, lockVars, connVars, closed, wstate,
                 isNew, tripVars, restVars, resetting, ops, histVars>>

(* The inner call returns; AddBytes ends early on n <= 0 or no config.     *)
IoDone(i) ==
  /\ \/ Goto(i, "io", "idle")
     \/ config /\ Goto(i, "io", "addBytes")
  /\ UNCHANGED <<mapVars, exceeded, conns, lockVars, connVars, closed, wstate,
                 isNew, tripVars, restVars, resetting, ops, histVars>>

AddBytesState(i) ==
  /\ Goto(i, "addBytes", "count")
  /\ \E s \in Ids : StateFor(s) /\ wstate' = [wstate EXCEPT ![i] = s]
  /\ UNCHANGED <<config, activeConns, nLists, exceeded, conns, lockVars, connVars,
                 closed, isNew, tripVars, restVars, resetting, ops, histVars>>

(* The bytes are counted or dropped; the total is above the quota or not.  *)
AddBytesCount(i) ==
  /\ Goto(i, "count", "idle")
  /\ \/ TripExceeded(i)
     \/ Forget(i) /\ UNCHANGED <<exceeded, trip>>
  /\ UNCHANGED <<mapVars, conns, lockVars, connVars, closed, isNew, wlist, todo,
                 restVars, resetting, ops, histVars>>

-----------------------------------------------------------------------------
(* LoadUsage: above the quota it trips, otherwise it clears the flag.      *)

LoadUsageState(w) ==
  /\ \/ /\ Goto(w, "load", "unlock")       \* Load failed or nothing to load
        /\ UNCHANGED <<states, nStates, wstate>>
     \/ /\ config
        /\ Goto(w, "load", "loadDecide")
        /\ \E s \in Ids : StateFor(s) /\ wstate' = [wstate EXCEPT ![w] = s]
  /\ UNCHANGED <<config, activeConns, nLists, exceeded, conns, lockVars, connVars,
                 closed, isNew, tripVars, restVars, resetting, ops, histVars>>

TripOrClear(w) ==
  \/ TripExceeded(w) /\ UNCHANGED forced
  \/ ClearExceeded(wstate[w]) /\ Forget(w) /\ UNCHANGED trip

LoadUsageDecide(w) ==
  /\ Goto(w, "loadDecide", "unlock")
  /\ TripOrClear(w)
  /\ UNCHANGED <<mapVars, conns, lockVars, connVars, closed, isNew, wlist, todo,
                 restVars, resetting, ops, displaced>>

(* runFlushLoop: flushPending holds persistAccess around its LoadUsage.    *)
FlushLock ==
  /\ persist = Nobody
  /\ Goto(Flusher, "idle", "load")
  /\ persist' = Flusher
  /\ UNCHANGED <<mapVars, exceeded, conns, readers, writer, connVars, closed, wstate,
                 isNew, tripVars, restVars, resetting, ops, histVars>>

PersistUnlock(w) ==
  /\ Goto(w, "unlock", "idle")
  /\ persist' = Nobody
  /\ UNCHANGED <<mapVars, exceeded, conns, readers, writer, connVars, closed, wstate,
                 isNew, tripVars, restVars, resetting, ops, histVars>>

-----------------------------------------------------------------------------
(* Service.ApplyConfig / applyDynamic, under applyMu.                      *)

ApplyConfig ==
  /\ ops < MaxOps /\ ops' = ops + 1
  /\ Goto(Admin, "idle", "apply")
  /\ isNew' = ~config
  /\ config' = TRUE
  /\ UNCHANGED <<states, nStates, activeConns, nLists, exceeded, conns, lockVars,
                 connVars, closed, wstate, tripVars, restVars, resetting, histVars>>

ApplyConfigState ==
  /\ Goto(Admin, "apply", "applyDecide")
  /\ \E s \in Ids : StateFor(s) /\ wstate' = [wstate EXCEPT ![Admin] = s]
  /\ UNCHANGED <<config, activeConns, nLists, exceeded, conns, lockVars, connVars,
                 closed, isNew, tripVars, restVars, resetting, ops, histVars>>

ApplyConfigDecide ==
  /\ Goto(Admin, "applyDecide", IF isNew THEN "applyLoad" ELSE "idle")
  /\ TripOrClear(Admin)
  /\ isNew' = FALSE
  /\ UNCHANGED <<mapVars, conns, lockVars, connVars, closed, wlist, todo,
                 restVars, resetting, ops, displaced>>

(* A new user's persisted usage is loaded under persistAccess.             *)
ApplyConfigLoad ==
  /\ persist = Nobody
  /\ Goto(Admin, "applyLoad", "load")
  /\ persist' = Admin
  /\ UNCHANGED <<mapVars, exceeded, conns, readers, writer, connVars, closed, wstate,
                 isNew, tripVars, restVars, resetting, ops, histVars>>

-----------------------------------------------------------------------------
(* removeConfigLocked (applyMu and persistAccess held), RemoveConfig.      *)

RemoveConfigStart ==
  /\ ops < MaxOps /\ ops' = ops + 1
  /\ persist = Nobody
  /\ Goto(Admin, "idle", "remove")
  /\ persist' = Admin
  /\ UNCHANGED <<mapVars, exceeded, conns, readers, writer, connVars, closed, wstate,
                 isNew, tripVars, restVars, resetting, histVars>>

(* persister.Delete(user, CurrentPeriodKey(user)); an error ends the call. *)
RemoveConfigDelete ==
  /\ \/ /\ ~config
        /\ Goto(Admin, "remove", "removeLock")
        /\ UNCHANGED <<states, nStates>>
     \/ /\ config
        /\ Goto(Admin, "remove", "removeLock") \/ Goto(Admin, "remove", "unlock")
        /\ \E s \in Ids : StateFor(s)
  /\ UNCHANGED <<config, activeConns, nLists, exceeded, conns, lockVars, connVars,
                 closed, wstate, isNew, tripVars, restVars, resetting, ops, histVars>>

RemoveConfigLock ==
  /\ readers = {}
  /\ Goto(Admin, "removeLock", "removeConfig")
  /\ writer' = TRUE
  /\ UNCHANGED <<mapVars, exceeded, conns, readers, persist, connVars, closed, wstate,
                 isNew, tripVars, restVars, resetting, ops, histVars>>

DeleteConfig ==
  /\ Goto(Admin, "removeConfig", "removeConns")
  /\ config' = FALSE
  /\ UNCHANGED <<states, nStates, activeConns, nLists, exceeded, conns, lockVars,
                 connVars, closed, wstate, isNew, tripVars, restVars, resetting, ops,
                 histVars>>

(* activeConns.LoadAndDelete *)
RemoveConns ==
  /\ Goto(Admin, "removeConns", "removeState")
  /\ wlist' = [wlist EXCEPT ![Admin] = activeConns]
  /\ activeConns' = Nil
  /\ UNCHANGED <<config, states, nStates, nLists, exceeded, conns, lockVars, connVars,
                 closed, wstate, isNew, trip, todo, restVars, resetting, ops, histVars>>

(* states.Delete and lifecycle.Unlock *)
RemoveState ==
  /\ Goto(Admin, "removeState", IF wlist[Admin] = Nil THEN "unlock" ELSE "removeClear")
  /\ states' = Nil
  /\ writer' = FALSE
  /\ UNCHANGED <<config, nStates, activeConns, nLists, exceeded, conns, readers,
                 persist, connVars, closed, wstate, isNew, tripVars, restVars,
                 resetting, ops, histVars>>

(* closeAllAndClear *)
RemoveClear ==
  /\ Goto(Admin, "removeClear", "removeMark")
  /\ todo' = [todo EXCEPT ![Admin] = conns[wlist[Admin]]]
  /\ conns' = [conns EXCEPT ![wlist[Admin]] = {}]
  /\ wlist' = [wlist EXCEPT ![Admin] = Nil]
  /\ UNCHANGED <<mapVars, exceeded, lockVars, connVars, closed, wstate, isNew, trip,
                 restVars, resetting, ops, histVars>>

RemoveMark ==
  /\ \/ \E c \in todo[Admin] :
          /\ Goto(Admin, "removeMark", "removeMark")
          /\ closed' = [closed EXCEPT ![c] = TRUE]
          /\ todo' = [todo EXCEPT ![Admin] = @ \ {c}]
     \/ /\ todo[Admin] = {}
        /\ Goto(Admin, "removeMark", "unlock")
        /\ UNCHANGED <<closed, todo>>
  /\ UNCHANGED <<mapVars, exceeded, conns, lockVars, connVars, wstate, isNew, trip,
                 wlist, restVars, resetting, ops, histVars>>

-----------------------------------------------------------------------------
(* SnapshotState (no lock), later RestoreState (persistAccess, no          *)
(* lifecycle): the admin API restores a user whose deletion failed.        *)

SnapshotFlag ==
  /\ rpc = "idle" /\ config
  /\ snaps < MaxRestores /\ snaps' = snaps + 1
  /\ snap' = [snap EXCEPT !.exceeded = states # Nil /\ exceeded[states]]
  /\ rpc' = "snapList"
  /\ UNCHANGED <<mapVars, exceeded, conns, lockVars, connVars, closed, workVars,
                 tripVars, rstate, resetting, ops, histVars>>

SnapshotList ==
  /\ rpc = "snapList"
  /\ snap' = [snap EXCEPT !.list = activeConns]
  /\ rpc' = "held"
  /\ UNCHANGED <<mapVars, exceeded, conns, lockVars, connVars, closed, workVars,
                 tripVars, snaps, rstate, resetting, ops, histVars>>

(* The deletion succeeded: nothing to restore.                             *)
SnapshotDrop ==
  /\ rpc = "held" /\ rpc' = "idle"
  /\ UNCHANGED <<mapVars, exceeded, conns, lockVars, connVars, closed, workVars,
                 tripVars, snap, snaps, rstate, resetting, ops, histVars>>

RestoreLock ==
  /\ rpc = "held" /\ persist = Nobody
  /\ persist' = Restorer /\ rpc' = "config"
  /\ UNCHANGED <<mapVars, exceeded, conns, readers, writer, connVars, closed, workVars,
                 tripVars, snap, snaps, rstate, resetting, ops, histVars>>

RestoreConfig ==
  /\ rpc = "config" /\ rpc' = "state"
  /\ config' = TRUE
  /\ UNCHANGED <<states, nStates, activeConns, nLists, exceeded, conns, lockVars,
                 connVars, closed, workVars, tripVars, snap, snaps, rstate, resetting, ops,
                 histVars>>

RestoreStateFor ==
  /\ rpc = "state" /\ rpc' = "flag"
  /\ \E s \in Ids : StateFor(s) /\ rstate' = s
  /\ UNCHANGED <<config, activeConns, nLists, exceeded, conns, lockVars, connVars,
                 closed, workVars, tripVars, snap, snaps, resetting, ops, histVars>>

(* exceeded.Store(state.Exceeded) closes nothing.                          *)
RestoreFlag ==
  /\ rpc = "flag" /\ rpc' = "list"
  /\ exceeded' = [exceeded EXCEPT ![rstate] = snap.exceeded]
  /\ forced' = IF snap.exceeded THEN forced \cup {rstate} ELSE forced \ {rstate}
  /\ UNCHANGED <<mapVars, conns, lockVars, connVars, closed, workVars, tripVars,
                 snap, snaps, rstate, resetting, ops, displaced>>

(* activeConns.Store(user, list) or activeConns.Delete(user)               *)
RestoreList ==
  /\ rpc = "list" /\ rpc' = "save"
  /\ activeConns' = snap.list
  /\ displaced' = displaced \cup ({activeConns} \ {Nil, snap.list})
  /\ UNCHANGED <<config, states, nStates, nLists, exceeded, conns, lockVars, connVars,
                 closed, workVars, tripVars, snap, snaps, rstate, resetting, ops, forced>>

RestoreUnlock ==
  /\ rpc = "save" /\ rpc' = "idle"
  /\ persist' = Nobody
  /\ UNCHANGED <<mapVars, exceeded, conns, readers, writer, connVars, closed, workVars,
                 tripVars, snap, snaps, rstate, resetting, ops, histVars>>

-----------------------------------------------------------------------------
(* CheckPeriodReset takes neither lifecycle nor persistAccess.             *)

ResetLoad ==
  /\ resetting = Nil /\ config /\ states # Nil
  /\ resetting' = states
  /\ UNCHANGED <<mapVars, exceeded, conns, lockVars, connVars, closed, workVars,
                 tripVars, restVars, ops, histVars>>

ResetClear ==
  /\ resetting # Nil
  /\ ClearExceeded(resetting)
  /\ resetting' = Nil
  /\ UNCHANGED <<mapVars, conns, lockVars, connVars, closed, workVars, tripVars,
                 restVars, ops, displaced>>

-----------------------------------------------------------------------------
(* The steps a goroutine takes once it has begun an operation.             *)
ConnStep(c) ==
  \/ IsExceeded(c) \/ RegisterLock(c) \/ RegisterState(c) \/ RegisterList(c)
  \/ RegisterAdd(c) \/ RegisterLoad(c) \/ RegisterMark(c)

TripStep(w) == TripList(w) \/ TripCopy(w) \/ TripMark(w)

AddBytesStep(i) == AddBytesState(i) \/ AddBytesCount(i)

LoadUsageStep(w) == LoadUsageState(w) \/ LoadUsageDecide(w) \/ PersistUnlock(w)

ApplyStep == ApplyConfigState \/ ApplyConfigDecide \/ ApplyConfigLoad

RemoveStep ==
  \/ RemoveConfigDelete \/ RemoveConfigLock \/ DeleteConfig \/ RemoveConns
  \/ RemoveState \/ RemoveClear \/ RemoveMark

RestoreStep ==
  \/ SnapshotList \/ RestoreConfig \/ RestoreStateFor \/ RestoreFlag
  \/ RestoreList \/ RestoreUnlock

Next ==
  \/ \E c \in Conns : HasQuota(c) \/ ConnStep(c) \/ CloseConn(c)
  \/ \E i \in Ios : IoStart(i) \/ IoDone(i) \/ AddBytesStep(i)
  \/ \E w \in Workers : TripStep(w)
  \/ \E w \in {Admin, Flusher} : LoadUsageStep(w)
  \/ FlushLock
  \/ ApplyConfig \/ ApplyStep
  \/ RemoveConfigStart \/ RemoveStep
  \/ SnapshotFlag \/ SnapshotDrop \/ RestoreLock \/ RestoreStep
  \/ ResetLoad \/ ResetClear

Spec == Init /\ [][Next]_vars

(* The Go scheduler eventually runs a runnable goroutine, and sync.RWMutex *)
(* and sync.Mutex do not starve a waiter.  Nothing obliges peers to send   *)
(* bytes, or an administrator or a timer to begin an operation.            *)
Fairness ==
  /\ \A c \in Conns : WF_vars(ConnStep(c))
  /\ \A i \in Ios : WF_vars(AddBytesStep(i))
  /\ \A w \in Workers : WF_vars(TripStep(w))
  /\ \A w \in {Admin, Flusher} : WF_vars(LoadUsageStep(w))
  /\ WF_vars(ApplyStep) /\ WF_vars(RemoveStep) /\ WF_vars(RestoreStep)
  /\ WF_vars(ResetClear)

FairSpec == Spec /\ Fairness

-----------------------------------------------------------------------------
ConnPcs == {"new", "check", "register", "state", "list", "add", "load", "mark",
            "open", "raw", "dead", "gone"}
WorkerPcs == {"idle", "io", "addBytes", "count", "load", "loadDecide", "unlock",
              "apply", "applyDecide", "applyLoad", "remove", "removeLock",
              "removeConfig", "removeConns", "removeState", "removeClear",
              "removeMark"}

TypeMaps ==
  /\ config \in BOOLEAN
  /\ nStates \in 0..MaxObjects /\ nLists \in 0..MaxObjects
  /\ states \in 0..nStates /\ activeConns \in 0..nLists
  /\ exceeded \in [Ids -> BOOLEAN] /\ conns \in [Ids -> SUBSET Conns]
  /\ displaced \in SUBSET Ids /\ forced \in SUBSET Ids

TypeLocks ==
  /\ readers \in SUBSET Conns /\ writer \in BOOLEAN
  /\ persist \in {Nobody, Admin, Flusher, Restorer}

TypeConns ==
  /\ cpc \in [Conns -> ConnPcs] /\ closed \in [Conns -> BOOLEAN]
  /\ cstate \in [Conns -> Ptr] /\ clist \in [Conns -> Ptr]
  /\ \A c \in Conns : cpc[c] \in {"add", "load", "mark", "open"} => clist[c] # Nil

TypeWorkers ==
  /\ pc \in [Workers -> WorkerPcs] /\ wstate \in [Workers -> Ptr]
  /\ trip \in [Workers -> {"none", "list", "copy", "mark"}]
  /\ wlist \in [Workers -> Ptr] /\ todo \in [Workers -> SUBSET Conns]
  /\ isNew \in BOOLEAN
  /\ \A w \in Workers : trip[w] = "copy" => wlist[w] # Nil
  /\ pc[Admin] = "removeClear" => wlist[Admin] # Nil

TypeRestore ==
  /\ rpc \in {"idle", "snapList", "held", "config", "state", "flag", "list", "save"}
  /\ snap \in [exceeded : BOOLEAN, list : Ptr] /\ rstate \in Ptr
  /\ rpc \in {"flag", "list", "save"} => rstate # Nil
  /\ resetting \in Ptr /\ ops \in 0..MaxOps /\ snaps \in 0..MaxRestores

(* Every variable of the tracker keeps its type: map entries are nil or    *)
(* allocated objects, and closeAll and connList.add never run on nil.      *)
TypeOK == TypeMaps /\ TypeLocks /\ TypeConns /\ TypeWorkers /\ TypeRestore

(* A connection RoutedConnection has returned that still passes traffic.   *)
Tracked(c) == cpc[c] = "open" /\ ~closed[c]

(* RemoveConfig has unlinked c's list and has still to mark c.             *)
BeingRemoved(c) ==
  \/ /\ pc[Admin] \in {"removeState", "removeClear"}
     /\ wlist[Admin] = clist[c] /\ c \in conns[clist[c]]
  \/ pc[Admin] = "removeMark" /\ c \in todo[Admin]

(* w has raised the current state's flag and has still to mark c.          *)
BeingTripped(w, c) ==
  /\ wstate[w] = states
  /\ \/ trip[w] = "list"
     \/ trip[w] = "copy" /\ wlist[w] = clist[c]
     \/ trip[w] = "mark" /\ c \in todo[w]

(* No connection escapes RemoveConfig: a tracked connection is in the list *)
(* activeConns holds, unless RemoveConfig is about to mark it or           *)
(* RestoreState replaced its list.  This is what RegisterConn's and        *)
(* RemoveConfig's lifecycle lock is for.                                   *)
NoOrphan ==
  \A c \in Conns : Tracked(c) =>
    \/ clist[c] = activeConns
    \/ clist[c] \in displaced
    \/ BeingRemoved(c)

(* The user is over quota and c passes traffic.                            *)
Exposed(c) ==
  /\ Tracked(c)
  /\ clist[c] = activeConns /\ clist[c] \notin displaced
  /\ states # Nil /\ exceeded[states] /\ states \notin forced

(* No connection escapes tripExceeded: RegisterConn adds before it loads   *)
(* the flag, tripExceeded raises the flag before it reads the list, so     *)
(* while the flag is up every listed connection is marked or is about to   *)
(* be marked by the goroutine whose CompareAndSwap succeeded.              *)
TripClosesAll ==
  \A c \in Conns : Exposed(c) => \E w \in Workers : BeingTripped(w, c)

(* The capacity contract of activeConns: an entry exists only for a        *)
(* configured user, or RemoveConfig is just deleting it.                   *)
ActiveConnsBounded ==
  activeConns # Nil => config \/ pc[Admin] = "removeConns"

(* Over quota, no connection keeps passing traffic for ever: it is marked, *)
(* closed or the flag is cleared.                                          *)
EnforcementCompletes == \A c \in Conns : []<>~Exposed(c)

(* RemoveConfig always returns: it never waits for ever on registrations,  *)
(* the flush or a restore.                                                 *)
RemoveCompletes == pc[Admin] = "remove" ~> pc[Admin] = "idle"

-----------------------------------------------------------------------------
(* The inductive invariant behind NoOrphan, TripClosesAll and              *)
(* ActiveConnsBounded.                                                     *)

Removing == {"remove", "removeLock", "removeConfig", "removeConns", "removeState",
             "removeClear", "removeMark"}
LockedAdmin == {"load", "loadDecide", "unlock"} \cup Removing
Registering == {"state", "list", "add", "load"}
Registered == {"load", "mark", "open"}
Restoring == {"state", "flag", "list", "save"}

(* Where each goroutine can be, and where it can be inside tripExceeded.   *)
PcsOK ==
  /\ \A i \in Ios : pc[i] \in {"idle", "io", "addBytes", "count"}
  /\ pc[Flusher] \in {"idle", "load", "loadDecide", "unlock"}
  /\ pc[Admin] \in LockedAdmin \cup {"idle", "apply", "applyDecide", "applyLoad"}
  /\ trip[Admin] # "none" => pc[Admin] \in {"idle", "unlock", "applyLoad"}

(* The locks are held exactly where the code holds them.                   *)
LocksOK ==
  /\ readers = {c \in Conns : cpc[c] \in Registering}
  /\ writer <=> pc[Admin] \in {"removeConfig", "removeConns", "removeState"}
  /\ writer => readers = {}
  /\ persist = Admin <=> pc[Admin] \in LockedAdmin
  /\ persist = Flusher <=> pc[Flusher] # "idle"
  /\ persist = Restorer <=> rpc \in {"config"} \cup Restoring

(* Under lifecycle.RLock, and in RestoreState, the config stays.           *)
ConfigHeld == (readers # {} \/ rpc \in Restoring) => config

(* Every pointer points to an allocated object, and a fresh state's flag   *)
(* is down.                                                                *)
ListsAllocated ==
  /\ \A c \in Conns : clist[c] <= nLists
  /\ \A w \in Workers : wlist[w] <= nLists
  /\ snap.list <= nLists

StatesAllocated ==
  /\ \A w \in Workers : wstate[w] <= nStates
  /\ rstate <= nStates /\ resetting <= nStates
  /\ \A s \in Ids : exceeded[s] => s <= nStates

(* Under lifecycle.RLock a registration works on the linked state and on a *)
(* list RemoveConfig has not unlinked.                                     *)
RegistrationOK ==
  \A c \in Conns :
    /\ cpc[c] \in {"list", "add", "load"} => states # Nil /\ cstate[c] = states
    /\ cpc[c] = "add" => clist[c] = activeConns \/ clist[c] \in displaced

(* A list holds registered connections, in the list they will leave on     *)
(* Close.                                                                  *)
ListMembers == \A l \in Ids : \A c \in conns[l] : clist[c] = l /\ cpc[c] \in Registered

Passing(c) == cpc[c] \in Registered /\ ~closed[c]

(* A registered connection is in its list until somebody marks it...       *)
Listed ==
  \A c \in Conns : Passing(c) =>
    c \in conns[clist[c]] \/ (pc[Admin] = "removeMark" /\ c \in todo[Admin])

(* ... and NoOrphan holds from connList.add on.                            *)
NoOrphanPassing ==
  \A c \in Conns : Passing(c) =>
    clist[c] = activeConns \/ clist[c] \in displaced \/ BeingRemoved(c)

(* RemoveConfig closes a list nobody can reach through the map any more.   *)
Unlinked ==
  /\ pc[Admin] \in {"removeState", "removeClear"} =>
       wlist[Admin] = Nil \/ wlist[Admin] # activeConns
  /\ pc[Admin] = "removeMark" => \A c \in todo[Admin] :
       \/ cpc[c] \in Registered /\ clist[c] # activeConns
       \/ cpc[c] = "gone"

(* The inductive invariant behind NoOrphan and TripClosesAll: at every     *)
(* step RegisterConn, tripExceeded and RemoveConfig keep the lists, the    *)
(* maps and the locks in agreement.                                        *)
Inv ==
  /\ TypeOK /\ PcsOK /\ LocksOK /\ ConfigHeld
  /\ ListsAllocated /\ StatesAllocated /\ RegistrationOK
  /\ ListMembers /\ Listed /\ NoOrphanPassing /\ Unlinked
  /\ TripClosesAll /\ ActiveConnsBounded

=============================================================================
