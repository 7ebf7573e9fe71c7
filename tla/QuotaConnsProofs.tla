-------------------------- MODULE QuotaConnsProofs --------------------------
(***************************************************************************)
(* The theorems about QuotaConns, for any number of connections, I/O       *)
(* goroutines, objects and calls: Inv is inductive, so TypeOK, NoOrphan,   *)
(* TripClosesAll and ActiveConnsBounded are invariants.                    *)
(***************************************************************************)
EXTENDS QuotaConnsStepProofs

(* Zenon proves what does not say otherwise.                              *)
USE ZenonT(30)

(* RemoveConfigLocked's locking of persistAccess: RemoveConfigStart *)
(* preserves Inv. *)
LEMMA RemoveConfigStartInv ==
  ASSUME Inv, RemoveConfigStart
  PROVE  Inv'
<1>1. PassingKept /\ TrackedKept /\ RegisteredKept
  BY KeptFrame DEF RemoveConfigStart, connVars
<1>2. SameClosing
  BY DEF SameClosing, Closing, TypeWorkers, Inv, TypeOK, RemoveConfigStart, Goto
<1>3. TypeMaps' /\ TypeConns' /\ ConfigHeld' /\ ListsAllocated' /\ StatesAllocated' /\
    RegistrationOK' /\ ListMembers' /\ Listed' /\ NoOrphanPassing' /\ Unlinked' /\
    TripClosesAll'
  BY <1>1, <1>2, Frames, LinkFrames DEF Inv, TypeOK, RemoveConfigStart, mapVars, connVars,
      tripVars, restVars, histVars
<1>4. TypeLocks'
  BY DEF TypeLocks, Inv, TypeOK, RemoveConfigStart
<1>5. TypeWorkers'
  BY DEF TypeWorkers, WorkerPcs, Inv, TypeOK, RemoveConfigStart, Goto, tripVars
<1>6. TypeRestore'
  BY SMTT(30), BoundsAssumption DEF TypeRestore, Inv, TypeOK, RemoveConfigStart, restVars
<1>7. PcsOK'
  BY ProcsAssumption DEF TypeWorkers, PcsOK, LockedAdmin, Removing, Workers, Inv, TypeOK,
      RemoveConfigStart, Goto, tripVars
<1>8. LocksOK'
  BY ProcsAssumption DEF TypeWorkers, LocksOK, LockedAdmin, Removing, Workers, Inv, TypeOK,
      RemoveConfigStart, Goto, connVars, restVars
<1>9. ActiveConnsBounded'
  BY DEF ActiveConnsBounded, Inv, RemoveConfigStart, Goto, mapVars
<1> QED
  BY <1>3, <1>4, <1>5, <1>6, <1>7, <1>8, <1>9 DEF Inv, TypeOK

(* RemoveConfigLocked's deletion of the row: RemoveConfigDelete preserves *)
(* Inv. *)
LEMMA RemoveConfigDeleteInv ==
  ASSUME Inv, RemoveConfigDelete
  PROVE  Inv'
<1>1. PassingKept /\ TrackedKept /\ RegisteredKept
  BY KeptFrame DEF RemoveConfigDelete, connVars
<1>2. SameClosing
  BY DEF SameClosing, Closing, TypeWorkers, Inv, TypeOK, RemoveConfigDelete, Goto
<1>3. TypeLocks' /\ TypeConns' /\ TypeRestore' /\ ConfigHeld' /\ ListsAllocated' /\
    ListMembers' /\ Listed' /\ NoOrphanPassing' /\ Unlinked'
  BY <1>1, <1>2, Frames, LinkFrames DEF Inv, TypeOK, RemoveConfigDelete, lockVars, connVars,
      tripVars, restVars, histVars
<1>4. TypeMaps'
  <2>1. CASE UNCHANGED <<states, nStates>>
    BY <2>1, Frames DEF Inv, TypeOK, RemoveConfigDelete, histVars
  <2>2. ASSUME NEW s \in Ids, StateFor(s)
        PROVE  TypeMaps'
    BY StateForMaps DEF TypeMaps, Inv, TypeOK, RemoveConfigDelete, histVars
  <2> QED
    BY <2>1, <2>2 DEF RemoveConfigDelete
<1>5. TypeWorkers'
  BY DEF TypeMaps, TypeWorkers, WorkerPcs, Inv, TypeOK, RemoveConfigDelete, Goto, tripVars
<1>6. PcsOK'
  BY DEF TypeWorkers, PcsOK, LockedAdmin, Removing, Workers, Inv, TypeOK, RemoveConfigDelete,
      Goto, tripVars
<1>7. LocksOK'
  BY DEF TypeWorkers, LocksOK, LockedAdmin, Removing, Workers, Inv, TypeOK, RemoveConfigDelete,
      Goto, lockVars, connVars, restVars
<1>8. StatesAllocated'
  <2>1. CASE UNCHANGED <<states, nStates>>
    BY <2>1, Frames DEF Inv, RemoveConfigDelete, restVars
  <2>2. ASSUME NEW s \in Ids, StateFor(s)
        PROVE  StatesAllocated'
    BY <2>2, StateForAllocated DEF Inv, TypeOK, RemoveConfigDelete, restVars
  <2> QED
    BY <2>1, <2>2 DEF RemoveConfigDelete
<1>9. RegistrationOK'
  BY DEF RegistrationOK, Inv, RemoveConfigDelete, StateFor, connVars, histVars
<1>10. TripClosesAll'
  <2>1. CASE UNCHANGED <<states, nStates>>
    BY <1>1, <2>1, LinkFrames DEF Inv, RemoveConfigDelete, tripVars, histVars
  <2>2. ASSUME NEW s \in Ids, StateFor(s)
        PROVE  TripClosesAll'
    BY <2>2, <1>1, StateForTrip DEF Inv, TypeOK, RemoveConfigDelete, tripVars, histVars
  <2> QED
    BY <2>1, <2>2 DEF RemoveConfigDelete
<1>11. ActiveConnsBounded'
  BY DEF ActiveConnsBounded, Inv, RemoveConfigDelete, Goto
<1> QED
  BY <1>3, <1>4, <1>5, <1>6, <1>7, <1>8, <1>9, <1>10, <1>11 DEF Inv, TypeOK

(* RemoveConfig's lifecycle.Lock: RemoveConfigLock preserves Inv. *)
LEMMA RemoveConfigLockInv ==
  ASSUME Inv, RemoveConfigLock
  PROVE  Inv'
<1>1. PassingKept /\ TrackedKept /\ RegisteredKept
  BY KeptFrame DEF RemoveConfigLock, connVars
<1>2. SameClosing
  BY DEF SameClosing, Closing, TypeWorkers, Inv, TypeOK, RemoveConfigLock, Goto
<1>3. TypeMaps' /\ TypeConns' /\ TypeRestore' /\ ConfigHeld' /\ ListsAllocated' /\
    StatesAllocated' /\ RegistrationOK' /\ ListMembers' /\ Listed' /\ NoOrphanPassing'
    /\ Unlinked' /\ TripClosesAll'
  BY <1>1, <1>2, Frames, LinkFrames DEF Inv, TypeOK, RemoveConfigLock, mapVars, connVars,
      tripVars, restVars, histVars
<1>4. TypeLocks'
  BY DEF TypeLocks, Inv, TypeOK, RemoveConfigLock
<1>5. TypeWorkers'
  BY DEF TypeWorkers, WorkerPcs, Inv, TypeOK, RemoveConfigLock, Goto, tripVars
<1>6. PcsOK'
  BY DEF TypeWorkers, PcsOK, LockedAdmin, Removing, Workers, Inv, TypeOK, RemoveConfigLock, Goto,
      tripVars
<1>7. LocksOK'
  BY DEF TypeWorkers, LocksOK, LockedAdmin, Removing, Workers, Inv, TypeOK, RemoveConfigLock,
      Goto, connVars, restVars
<1>8. ActiveConnsBounded'
  BY DEF ActiveConnsBounded, Inv, RemoveConfigLock, Goto, mapVars
<1> QED
  BY <1>3, <1>4, <1>5, <1>6, <1>7, <1>8 DEF Inv, TypeOK

(* RemoveConfig's deleteConfig: DeleteConfig preserves Inv. *)
LEMMA DeleteConfigInv ==
  ASSUME Inv, DeleteConfig
  PROVE  Inv'
<1>1. PassingKept /\ TrackedKept /\ RegisteredKept
  BY KeptFrame DEF DeleteConfig, connVars
<1>2. SameClosing
  BY DEF SameClosing, Closing, TypeWorkers, Inv, TypeOK, DeleteConfig, Goto
<1>3. TypeLocks' /\ TypeConns' /\ TypeRestore' /\ ListsAllocated' /\ StatesAllocated'
    /\ RegistrationOK' /\ ListMembers' /\ Listed' /\ NoOrphanPassing' /\ Unlinked' /\
    TripClosesAll'
  BY <1>1, <1>2, Frames, LinkFrames DEF Inv, TypeOK, DeleteConfig, lockVars, connVars, tripVars,
      restVars, histVars
<1>4. TypeMaps'
  BY DEF TypeMaps, Inv, TypeOK, DeleteConfig, histVars
<1>5. TypeWorkers'
  BY DEF TypeWorkers, WorkerPcs, Inv, TypeOK, DeleteConfig, Goto, tripVars
<1>6. PcsOK'
  BY DEF TypeWorkers, PcsOK, LockedAdmin, Removing, Workers, Inv, TypeOK, DeleteConfig, Goto,
      tripVars
<1>7. LocksOK'
  BY DEF TypeWorkers, LocksOK, LockedAdmin, Removing, Workers, Inv, TypeOK, DeleteConfig, Goto,
      lockVars, connVars, restVars
<1>8. ConfigHeld'
  BY ProcsAssumption DEF LocksOK, ConfigHeld, LockedAdmin, Removing, Inv, DeleteConfig, Goto,
      lockVars, restVars
<1>9. ActiveConnsBounded'
  BY DEF TypeWorkers, ActiveConnsBounded, Workers, Inv, TypeOK, DeleteConfig, Goto
<1> QED
  BY <1>3, <1>4, <1>5, <1>6, <1>7, <1>8, <1>9 DEF Inv, TypeOK

(* RemoveConns preserves Inv (RemoveConfig's LoadAndDelete: the unlinked *)
(* list is the one to clear). *)
LEMMA RemoveConnsInv ==
  ASSUME Inv, RemoveConns
  PROVE  Inv'
<1>1. TypeLocks' /\ TypeConns' /\ TypeRestore' /\ ConfigHeld' /\ StatesAllocated' /\
    ListMembers'
  BY Frames DEF Inv, TypeOK, RemoveConns, lockVars, connVars, restVars
<1>2. TypeMaps'
  BY SMTT(30) DEF TypeMaps, Nil, Inv, TypeOK, RemoveConns, histVars
<1>3. TypeWorkers'
  BY SMTT(30), BoundsAssumption DEF TypeMaps, TypeWorkers, WorkerPcs, Nil, Ids, Ptr, Workers, Inv,
      TypeOK, RemoveConns, Goto
<1>4. PcsOK'
  BY DEF TypeWorkers, PcsOK, LockedAdmin, Removing, Workers, Inv, TypeOK, RemoveConns, Goto
<1>5. LocksOK'
  BY DEF TypeWorkers, LocksOK, LockedAdmin, Removing, Workers, Inv, TypeOK, RemoveConns, Goto,
      lockVars, connVars, restVars
<1>6. ListsAllocated'
  BY SMTT(30) DEF TypeMaps, ListsAllocated, Inv, TypeOK, RemoveConns, connVars, restVars
<1>7. RegistrationOK'
  BY DEF LocksOK, RegistrationOK, Registering, Inv, RemoveConns, Goto, connVars
<1>8. Listed'
  BY DEF Listed, Passing, Inv, RemoveConns, Goto, connVars
<1>9. NoOrphanPassing'
  BY DEF TypeWorkers, Listed, NoOrphanPassing, Passing, BeingRemoved, Workers, Inv, TypeOK,
      RemoveConns, Goto, connVars, histVars
<1>10. Unlinked'
  BY DEF TypeWorkers, Unlinked, Inv, TypeOK, RemoveConns, Goto
<1>11. TripClosesAll'
  BY DEF TypeConns, TripClosesAll, Exposed, Tracked, Inv, TypeOK, RemoveConns, connVars
<1>12. ActiveConnsBounded'
  BY DEF ActiveConnsBounded, RemoveConns
<1> QED
  BY <1>1, <1>2, <1>3, <1>4, <1>5, <1>6, <1>7, <1>8, <1>9, <1>10, <1>11, <1>12 DEF Inv, TypeOK

(* RemoveConfig's states.Delete: RemoveState preserves Inv. *)
LEMMA RemoveStateInv ==
  ASSUME Inv, RemoveState
  PROVE  Inv'
<1>1. TypeConns' /\ TypeRestore' /\ ConfigHeld' /\ ListsAllocated' /\ StatesAllocated'
    /\ ListMembers'
  BY Frames DEF Inv, TypeOK, RemoveState, connVars, tripVars, restVars
<1>2. TypeMaps'
  BY SMTT(30) DEF TypeMaps, Nil, Inv, TypeOK, RemoveState, histVars
<1>3. TypeLocks'
  BY DEF TypeLocks, Inv, TypeOK, RemoveState
<1>4. TypeWorkers'
  BY DEF TypeWorkers, WorkerPcs, Inv, TypeOK, RemoveState, Goto, tripVars
<1>5. PcsOK'
  BY DEF TypeWorkers, PcsOK, LockedAdmin, Removing, Workers, Inv, TypeOK, RemoveState, Goto,
      tripVars
<1>6. LocksOK'
  BY DEF TypeWorkers, LocksOK, LockedAdmin, Removing, Workers, Inv, TypeOK, RemoveState, Goto,
      connVars, restVars
<1>7. RegistrationOK'
  BY DEF LocksOK, RegistrationOK, Registering, Inv, RemoveState, Goto, connVars
<1>8. Listed'
  BY DEF Listed, Passing, Inv, RemoveState, Goto, connVars
<1>9. NoOrphanPassing'
  BY SMTT(30) DEF TypeConns, NoOrphanPassing, Passing, Registered, BeingRemoved, Inv, TypeOK,
      RemoveState, Goto, connVars, tripVars, histVars
<1>10. Unlinked'
  BY DEF TypeWorkers, Unlinked, Inv, TypeOK, RemoveState, Goto, tripVars
<1>11. TripClosesAll'
  BY DEF TripClosesAll, Exposed, RemoveState
<1>12. ActiveConnsBounded'
  BY DEF ActiveConnsBounded, Inv, RemoveState, Goto
<1> QED
  BY <1>1, <1>2, <1>3, <1>4, <1>5, <1>6, <1>7, <1>8, <1>9, <1>10, <1>11, <1>12 DEF Inv, TypeOK

(* CloseAllAndClear's copy: RemoveClear preserves Inv. *)
LEMMA RemoveClearInv ==
  ASSUME Inv, RemoveClear
  PROVE  Inv'
<1>1. TypeLocks' /\ TypeConns' /\ TypeRestore' /\ ConfigHeld' /\ StatesAllocated' /\
    RegistrationOK'
  BY Frames DEF Inv, TypeOK, RemoveClear, mapVars, lockVars, connVars, restVars, histVars
<1>2. TypeMaps'
  BY DEF TypeMaps, Inv, TypeOK, RemoveClear, mapVars, histVars
<1>3. TypeWorkers'
  BY DEF TypeMaps, TypeWorkers, WorkerPcs, Ptr, Workers, Inv, TypeOK, RemoveClear, Goto
<1>4. PcsOK'
  BY DEF TypeWorkers, PcsOK, LockedAdmin, Removing, Workers, Inv, TypeOK, RemoveClear, Goto
<1>5. LocksOK'
  BY DEF TypeWorkers, LocksOK, LockedAdmin, Removing, Workers, Inv, TypeOK, RemoveClear, Goto,
      lockVars, connVars, restVars
<1>6. ListsAllocated'
  BY SMTT(30) DEF TypeMaps, ListsAllocated, Nil, Inv, TypeOK, RemoveClear, mapVars, connVars,
      restVars
<1>7. ListMembers'
  BY SMTT(30) DEF ListMembers, Inv, RemoveClear, connVars
<1>8. Listed'
  BY SMTT(30) DEF TypeWorkers, Listed, Passing, Workers, Inv, TypeOK, RemoveClear, Goto, connVars
<1>9. NoOrphanPassing'
  BY DEF TypeWorkers, NoOrphanPassing, Passing, BeingRemoved, Workers, Inv, TypeOK, RemoveClear,
      Goto, mapVars, connVars, histVars
<1>10. Unlinked'
  BY SMTT(30) DEF TypeWorkers, ListMembers, Unlinked, Ptr, Inv, TypeOK, RemoveClear, Goto, mapVars,
      connVars
<1>11. TripClosesAll'
  BY DEF TypeWorkers, TripClosesAll, Exposed, Tracked, BeingTripped, Inv, TypeOK, RemoveClear,
      Goto, mapVars, connVars, histVars
<1>12. ActiveConnsBounded'
  BY DEF ActiveConnsBounded, Inv, RemoveClear, Goto, mapVars
<1> QED
  BY <1>1, <1>2, <1>3, <1>4, <1>5, <1>6, <1>7, <1>8, <1>9, <1>10, <1>11, <1>12 DEF Inv, TypeOK

(* CloseAllAndClear's marking: RemoveMark preserves Inv. *)
LEMMA RemoveMarkInv ==
  ASSUME Inv, RemoveMark
  PROVE  Inv'
<1>1. TypeMaps' /\ TypeLocks' /\ TypeRestore' /\ ConfigHeld' /\ ListsAllocated' /\
    StatesAllocated' /\ RegistrationOK' /\ ListMembers'
  BY Frames DEF Inv, TypeOK, RemoveMark, mapVars, lockVars, connVars, restVars, histVars
<1>2. TypeConns'
  BY DEF TypeConns, Inv, TypeOK, RemoveMark, connVars
<1>3. TypeWorkers'
  BY SMTT(30) DEF TypeWorkers, WorkerPcs, Inv, TypeOK, RemoveMark, Goto
<1>4. PcsOK'
  BY DEF TypeWorkers, PcsOK, LockedAdmin, Workers, Inv, TypeOK, RemoveMark, Goto
<1>5. LocksOK'
  BY DEF TypeWorkers, LocksOK, LockedAdmin, Removing, Workers, Inv, TypeOK, RemoveMark, Goto,
      lockVars, connVars, restVars
<1>6. Listed'
  <2> SUFFICES ASSUME NEW d \in Conns, Passing(d)'
               PROVE  (d \in conns[clist[d]] \/ (pc[Admin] = "removeMark" /\ d \in
                   todo[Admin]))'
    BY DEF Listed
  <2>1. Passing(d) /\ ~closed'[d]
    BY DEF Passing, TypeConns, Inv, TypeOK, RemoveMark, connVars
  <2>2. CASE d \in conns[clist[d]]
    BY <2>2 DEF RemoveMark, connVars
  <2>3. CASE pc[Admin] = "removeMark" /\ d \in todo[Admin]
    <3>1. pc'[Admin] = "removeMark" /\ d \in todo'[Admin]
      BY SMTT(30), <2>1, <2>3 DEF TypeWorkers, TypeConns, Inv, TypeOK, RemoveMark, Goto
    <3> QED
      BY <3>1
  <2> QED
    BY <2>1, <2>2, <2>3 DEF Listed, Inv
<1>7. NoOrphanPassing'
  <2> SUFFICES ASSUME NEW d \in Conns, Passing(d)'
               PROVE  (clist[d] = activeConns \/ clist[d] \in displaced \/
                   BeingRemoved(d))'
    BY DEF NoOrphanPassing
  <2>1. Passing(d) /\ ~closed'[d]
    BY DEF Passing, TypeConns, Inv, TypeOK, RemoveMark, connVars
  <2>2. CASE pc[Admin] = "removeMark" /\ d \in todo[Admin]
    <3>1. pc'[Admin] = "removeMark" /\ d \in todo'[Admin]
      BY SMTT(30), <2>1, <2>2 DEF TypeWorkers, TypeConns, Inv, TypeOK, RemoveMark, Goto
    <3> QED
      BY <3>1 DEF BeingRemoved
  <2>3. CASE pc[Admin] \in {"removeState", "removeClear"} /\ BeingRemoved(d)
    BY <2>3 DEF RemoveMark, Goto
  <2> QED
    BY <2>1, <2>2, <2>3 DEF NoOrphanPassing, BeingRemoved, Inv, RemoveMark, mapVars, connVars,
        histVars
<1>8. Unlinked'
  BY SMTT(30) DEF TypeWorkers, Unlinked, Inv, TypeOK, RemoveMark, Goto, mapVars, connVars
<1>9. TripClosesAll'
  <2> SUFFICES ASSUME NEW d \in Conns, Exposed(d)'
               PROVE  \E v \in Workers : BeingTripped(v, d)'
    BY DEF TripClosesAll
  <2>1. Exposed(d) /\ ~closed'[d]
    BY DEF Exposed, Tracked, TypeConns, Inv, TypeOK, RemoveMark, mapVars, connVars, histVars
  <2>2. PICK v \in Workers : BeingTripped(v, d)
    BY <2>1 DEF TripClosesAll, Inv
  <2>3. BeingTripped(v, d)'
    BY <2>2 DEF BeingTripped, TypeWorkers, Inv, TypeOK, RemoveMark, Goto, mapVars, connVars
  <2> QED
    BY <2>3
<1>10. ActiveConnsBounded'
  BY DEF ActiveConnsBounded, Inv, RemoveMark, Goto, mapVars
<1> QED
  BY <1>1, <1>2, <1>3, <1>4, <1>5, <1>6, <1>7, <1>8, <1>9, <1>10 DEF Inv, TypeOK

(* RestoreState's locking of persistAccess: RestoreLock preserves Inv. *)
LEMMA RestoreLockInv ==
  ASSUME Inv, RestoreLock
  PROVE  Inv'
<1>1. PassingKept /\ TrackedKept /\ RegisteredKept
  BY KeptFrame DEF RestoreLock, connVars
<1>2. SameClosing
  BY DEF SameClosing, RestoreLock, workVars
<1>3. TypeMaps' /\ TypeConns' /\ TypeWorkers' /\ PcsOK' /\ ListsAllocated' /\
    StatesAllocated' /\ RegistrationOK' /\ ListMembers' /\ Listed' /\ NoOrphanPassing'
    /\ Unlinked' /\ TripClosesAll' /\ ActiveConnsBounded'
  BY <1>1, <1>2, Frames, LinkFrames DEF Inv, TypeOK, RestoreLock, mapVars, connVars, workVars,
      tripVars, histVars
<1>4. TypeLocks'
  BY DEF TypeLocks, Inv, TypeOK, RestoreLock
<1>5. TypeRestore'
  BY DEF TypeRestore, Inv, TypeOK, RestoreLock
<1>6. LocksOK'
  BY ProcsAssumption DEF LocksOK, Inv, RestoreLock, connVars, workVars
<1>7. ConfigHeld'
  BY DEF ConfigHeld, Restoring, Inv, RestoreLock, mapVars
<1> QED
  BY <1>3, <1>4, <1>5, <1>6, <1>7 DEF Inv, TypeOK

(* RestoreState's storeConfig: RestoreConfig preserves Inv. *)
LEMMA RestoreConfigInv ==
  ASSUME Inv, RestoreConfig
  PROVE  Inv'
<1>1. PassingKept /\ TrackedKept /\ RegisteredKept
  BY KeptFrame DEF RestoreConfig, connVars
<1>2. SameClosing
  BY DEF SameClosing, RestoreConfig, workVars
<1>3. TypeLocks' /\ TypeConns' /\ TypeWorkers' /\ PcsOK' /\ ListsAllocated' /\
    StatesAllocated' /\ RegistrationOK' /\ ListMembers' /\ Listed' /\ NoOrphanPassing'
    /\ Unlinked' /\ TripClosesAll'
  BY <1>1, <1>2, Frames, LinkFrames DEF Inv, TypeOK, RestoreConfig, lockVars, connVars, workVars,
      tripVars, histVars
<1>4. TypeMaps'
  BY DEF TypeMaps, Inv, TypeOK, RestoreConfig, histVars
<1>5. TypeRestore'
  BY DEF TypeRestore, Inv, TypeOK, RestoreConfig
<1>6. LocksOK'
  BY DEF LocksOK, Restoring, Inv, RestoreConfig, lockVars, connVars, workVars
<1>7. ConfigHeld'
  BY DEF ConfigHeld, RestoreConfig
<1>8. ActiveConnsBounded'
  BY DEF ActiveConnsBounded, RestoreConfig
<1> QED
  BY <1>3, <1>4, <1>5, <1>6, <1>7, <1>8 DEF Inv, TypeOK

(* RestoreState's stateFor: RestoreStateFor preserves Inv. *)
LEMMA RestoreStateForInv ==
  ASSUME Inv, RestoreStateFor
  PROVE  Inv'
<1>0. PICK s \in Ids : StateFor(s) /\ rstate' = s
  BY DEF RestoreStateFor
<1>1. PassingKept /\ TrackedKept /\ RegisteredKept
  BY KeptFrame DEF RestoreStateFor, connVars
<1>2. SameClosing
  BY DEF SameClosing, RestoreStateFor, workVars
<1>3. TypeLocks' /\ TypeConns' /\ TypeWorkers' /\ PcsOK' /\ ListsAllocated' /\
    ListMembers' /\ Listed' /\ NoOrphanPassing' /\ Unlinked' /\ ActiveConnsBounded'
  BY <1>1, <1>2, Frames, LinkFrames DEF Inv, TypeOK, RestoreStateFor, lockVars, connVars,
      workVars, tripVars, histVars
<1>4. TypeMaps'
  BY StateForMaps DEF TypeMaps, Inv, TypeOK, RestoreStateFor, histVars
<1>5. TypeRestore'
  BY SMTT(30) DEF TypeRestore, Nil, Ids, Ptr, Inv, TypeOK, RestoreStateFor
<1>6. LocksOK'
  BY DEF LocksOK, Restoring, Inv, RestoreStateFor, lockVars, connVars, workVars
<1>7. ConfigHeld'
  BY DEF ConfigHeld, Restoring, Inv, RestoreStateFor
<1>8. StatesAllocated'
  BY StateForAllocated DEF Inv, TypeOK, RestoreStateFor, workVars
<1>9. RegistrationOK'
  BY DEF RegistrationOK, Inv, RestoreStateFor, StateFor, connVars, histVars
<1>10. TripClosesAll'
  BY <1>1, StateForTrip DEF Inv, TypeOK, RestoreStateFor, workVars, tripVars, histVars
<1> QED
  BY <1>3, <1>4, <1>5, <1>6, <1>7, <1>8, <1>9, <1>10 DEF Inv, TypeOK

(* RestoreState's store of the flag: RestoreFlag preserves Inv. *)
LEMMA RestoreFlagInv ==
  ASSUME Inv, RestoreFlag
  PROVE  Inv'
<1>1. PassingKept /\ TrackedKept /\ RegisteredKept
  BY KeptFrame DEF RestoreFlag, connVars
<1>2. SameClosing
  BY DEF SameClosing, RestoreFlag, workVars
<1>3. TypeLocks' /\ TypeConns' /\ TypeWorkers' /\ PcsOK' /\ ListsAllocated' /\
    RegistrationOK' /\ ListMembers' /\ Listed' /\ NoOrphanPassing' /\ Unlinked' /\
    ActiveConnsBounded'
  BY <1>1, <1>2, Frames, LinkFrames DEF Inv, TypeOK, RestoreFlag, mapVars, lockVars, connVars,
      workVars, tripVars
<1>4. TypeMaps'
  BY DEF TypeMaps, TypeRestore, Ptr, Inv, TypeOK, RestoreFlag, mapVars
<1>5. TypeRestore'
  BY DEF TypeRestore, Inv, TypeOK, RestoreFlag
<1>6. LocksOK'
  BY DEF LocksOK, Restoring, Inv, RestoreFlag, lockVars, connVars, workVars
<1>7. ConfigHeld'
  BY DEF ConfigHeld, Restoring, Inv, RestoreFlag, mapVars
<1>8. StatesAllocated'
  BY DEF TypeMaps, StatesAllocated, Inv, TypeOK, RestoreFlag, mapVars, workVars
<1>9. TripClosesAll'
  <2> SUFFICES ASSUME NEW d \in Conns, Exposed(d)'
               PROVE  \E v \in Workers : BeingTripped(v, d)'
    BY DEF TripClosesAll
  <2>1. states # rstate /\ states \in Ids
    BY SMTT(30), BoundsAssumption DEF Exposed, TypeMaps, Nil, Ids, Inv, TypeOK, RestoreFlag, mapVars
  <2>2. Exposed(d)
    BY <2>1 DEF Exposed, Tracked, TypeMaps, Inv, TypeOK, RestoreFlag, mapVars, connVars
  <2>3. PICK v \in Workers : BeingTripped(v, d)
    BY <2>2 DEF TripClosesAll, Inv
  <2> QED
    BY <2>3 DEF BeingTripped, RestoreFlag, mapVars, connVars, workVars, tripVars
<1> QED
  BY <1>3, <1>4, <1>5, <1>6, <1>7, <1>8, <1>9 DEF Inv, TypeOK

(* RestoreList preserves Inv (RestoreState's store of the list: a list it *)
(* puts back has no passing connection that the map had lost). *)
LEMMA RestoreListInv ==
  ASSUME Inv, RestoreList
  PROVE  Inv'
<1>1. PassingKept /\ TrackedKept /\ RegisteredKept
  BY KeptFrame DEF RestoreList, connVars
<1>2. SameClosing
  BY DEF SameClosing, RestoreList, workVars
<1>3. TypeLocks' /\ TypeConns' /\ TypeWorkers' /\ PcsOK' /\ ListsAllocated' /\
    StatesAllocated' /\ ListMembers' /\ Listed'
  BY <1>1, <1>2, Frames, LinkFrames DEF Inv, TypeOK, RestoreList, lockVars, connVars, workVars,
      tripVars
<1>4. TypeMaps'
  <2>1. snap.list \in 0..nLists
    BY SMTT(30) DEF TypeRestore, ListsAllocated, Nil, Ids, Ptr, Inv, TypeOK
  <2>2. {activeConns} \ {Nil, snap.list} \subseteq Ids
    BY SMTT(30), BoundsAssumption DEF TypeMaps, Nil, Ids, Inv, TypeOK
  <2> QED
    BY <2>1, <2>2 DEF TypeMaps, Inv, TypeOK, RestoreList
<1>5. TypeRestore'
  BY DEF TypeRestore, Inv, TypeOK, RestoreList
<1>6. LocksOK'
  BY DEF LocksOK, Restoring, Inv, RestoreList, lockVars, connVars, workVars
<1>7. ConfigHeld'
  BY DEF ConfigHeld, Restoring, Inv, RestoreList
<1>8. RegistrationOK'
  BY DEF TypeConns, RegistrationOK, Inv, TypeOK, RestoreList, connVars
<1>9. NoOrphanPassing'
  BY DEF TypeConns, NoOrphanPassing, Passing, Registered, BeingRemoved, Inv, TypeOK, RestoreList,
      connVars, workVars, tripVars
<1>10. Unlinked'
  BY ProcsAssumption DEF LocksOK, Unlinked, LockedAdmin, Removing, Restoring, Inv, RestoreList,
      workVars
<1>11. TripClosesAll'
  BY ProcsAssumption DEF TripClosesAll, Exposed, Tracked, BeingTripped, NoOrphanPassing, Passing,
      Registered, BeingRemoved, LocksOK, LockedAdmin, Removing, Restoring, Inv, RestoreList,
      connVars, workVars, tripVars
<1>12. ActiveConnsBounded'
  BY DEF ConfigHeld, ActiveConnsBounded, Restoring, Inv, RestoreList
<1> QED
  BY <1>3, <1>4, <1>5, <1>6, <1>7, <1>8, <1>9, <1>10, <1>11, <1>12 DEF Inv, TypeOK

(* RestoreState's return: RestoreUnlock preserves Inv. *)
LEMMA RestoreUnlockInv ==
  ASSUME Inv, RestoreUnlock
  PROVE  Inv'
<1>1. PassingKept /\ TrackedKept /\ RegisteredKept
  BY KeptFrame DEF RestoreUnlock, connVars
<1>2. SameClosing
  BY DEF SameClosing, RestoreUnlock, workVars
<1>3. TypeMaps' /\ TypeConns' /\ TypeWorkers' /\ PcsOK' /\ ListsAllocated' /\
    StatesAllocated' /\ RegistrationOK' /\ ListMembers' /\ Listed' /\ NoOrphanPassing'
    /\ Unlinked' /\ TripClosesAll' /\ ActiveConnsBounded'
  BY <1>1, <1>2, Frames, LinkFrames DEF Inv, TypeOK, RestoreUnlock, mapVars, connVars, workVars,
      tripVars, histVars
<1>4. TypeLocks'
  BY DEF TypeLocks, Inv, TypeOK, RestoreUnlock
<1>5. TypeRestore'
  BY DEF TypeRestore, Inv, TypeOK, RestoreUnlock
<1>6. LocksOK'
  BY ProcsAssumption DEF LocksOK, Restoring, Inv, RestoreUnlock, connVars, workVars
<1>7. ConfigHeld'
  BY DEF ConfigHeld, Restoring, Inv, RestoreUnlock, mapVars
<1> QED
  BY <1>3, <1>4, <1>5, <1>6, <1>7 DEF Inv, TypeOK

-----------------------------------------------------------------------------
(* SnapshotState's reading of the flag: SnapshotFlag preserves Inv. *)
LEMMA SnapshotFlagInv ==
  ASSUME Inv, SnapshotFlag
  PROVE  Inv'
<1>1. PassingKept /\ TrackedKept /\ RegisteredKept
  BY KeptFrame DEF SnapshotFlag, connVars
<1>2. SameClosing
  BY DEF SameClosing, SnapshotFlag, workVars
<1>3. TypeMaps' /\ TypeLocks' /\ TypeConns' /\ TypeWorkers' /\ PcsOK' /\
    StatesAllocated' /\ RegistrationOK' /\ ListMembers' /\ Listed' /\ NoOrphanPassing'
    /\ Unlinked' /\ TripClosesAll' /\ ActiveConnsBounded'
  BY <1>1, <1>2, Frames, LinkFrames DEF Inv, TypeOK, SnapshotFlag, mapVars, lockVars, connVars,
      workVars, tripVars, histVars
<1>4. TypeRestore'
  <2> DEFINE flag == states # Nil /\ exceeded[states]
  <2>1. flag \in BOOLEAN
    OBVIOUS
  <2>2. snap' = [snap EXCEPT !.exceeded = flag]
    BY DEF SnapshotFlag
  <2> HIDE DEF flag
  <2>3. snap' \in [exceeded : BOOLEAN, list : Ptr]
    BY <2>1, <2>2 DEF TypeRestore, Inv, TypeOK
  <2> QED
    BY SMTT(30), <2>3, BoundsAssumption DEF TypeRestore, Inv, TypeOK, SnapshotFlag
<1>5. LocksOK'
  BY DEF LocksOK, Restoring, Inv, SnapshotFlag, lockVars, connVars, workVars
<1>6. ConfigHeld'
  BY DEF ConfigHeld, SnapshotFlag, mapVars
<1>7. ListsAllocated'
  BY DEF TypeRestore, ListsAllocated, Inv, TypeOK, SnapshotFlag, mapVars, connVars, tripVars
<1> QED
  BY <1>3, <1>4, <1>5, <1>6, <1>7 DEF Inv, TypeOK

(* SnapshotState's reading of the list: SnapshotList preserves Inv. *)
LEMMA SnapshotListInv ==
  ASSUME Inv, SnapshotList
  PROVE  Inv'
<1>1. PassingKept /\ TrackedKept /\ RegisteredKept
  BY KeptFrame DEF SnapshotList, connVars
<1>2. SameClosing
  BY DEF SameClosing, SnapshotList, workVars
<1>3. TypeMaps' /\ TypeLocks' /\ TypeConns' /\ TypeWorkers' /\ PcsOK' /\
    StatesAllocated' /\ RegistrationOK' /\ ListMembers' /\ Listed' /\ NoOrphanPassing'
    /\ Unlinked' /\ TripClosesAll' /\ ActiveConnsBounded'
  BY <1>1, <1>2, Frames, LinkFrames DEF Inv, TypeOK, SnapshotList, mapVars, lockVars, connVars,
      workVars, tripVars, histVars
<1>4. TypeRestore'
  <2>1. activeConns \in Ptr
    BY SMTT(30), BoundsAssumption DEF TypeMaps, Nil, Ids, Ptr, Inv, TypeOK
  <2> QED
    BY <2>1 DEF TypeRestore, Inv, TypeOK, SnapshotList
<1>5. LocksOK'
  BY DEF LocksOK, Restoring, Inv, SnapshotList, lockVars, connVars, workVars
<1>6. ConfigHeld'
  BY DEF ConfigHeld, Restoring, Inv, SnapshotList, mapVars, lockVars
<1>7. ListsAllocated'
  BY SMTT(30) DEF TypeMaps, ListsAllocated, Inv, TypeOK, SnapshotList, mapVars, connVars, tripVars
<1> QED
  BY <1>3, <1>4, <1>5, <1>6, <1>7 DEF Inv, TypeOK

(* The end of a snapshot's life: SnapshotDrop preserves Inv. *)
LEMMA SnapshotDropInv ==
  ASSUME Inv, SnapshotDrop
  PROVE  Inv'
<1>1. PassingKept /\ TrackedKept /\ RegisteredKept
  BY KeptFrame DEF SnapshotDrop, connVars
<1>2. SameClosing
  BY DEF SameClosing, SnapshotDrop, workVars
<1>3. TypeMaps' /\ TypeLocks' /\ TypeConns' /\ TypeWorkers' /\ PcsOK' /\
    ListsAllocated' /\ StatesAllocated' /\ RegistrationOK' /\ ListMembers' /\ Listed'
    /\ NoOrphanPassing' /\ Unlinked' /\ TripClosesAll' /\ ActiveConnsBounded'
  BY <1>1, <1>2, Frames, LinkFrames DEF Inv, TypeOK, SnapshotDrop, mapVars, lockVars, connVars,
      workVars, tripVars, histVars
<1>4. TypeRestore'
  BY DEF TypeRestore, Inv, TypeOK, SnapshotDrop
<1>5. LocksOK'
  BY DEF LocksOK, Restoring, Inv, SnapshotDrop, lockVars, connVars, workVars
<1>6. ConfigHeld'
  BY DEF ConfigHeld, Restoring, Inv, SnapshotDrop, mapVars, lockVars
<1> QED
  BY <1>3, <1>4, <1>5, <1>6 DEF Inv, TypeOK

(* CheckPeriodReset's states.Load: ResetLoad preserves Inv. *)
LEMMA ResetLoadInv ==
  ASSUME Inv, ResetLoad
  PROVE  Inv'
<1>1. PassingKept /\ TrackedKept /\ RegisteredKept
  BY KeptFrame DEF ResetLoad, connVars
<1>2. SameClosing
  BY DEF SameClosing, ResetLoad, workVars
<1>3. TypeMaps' /\ TypeLocks' /\ TypeConns' /\ TypeWorkers' /\ PcsOK' /\ LocksOK' /\
    ConfigHeld' /\ ListsAllocated' /\ RegistrationOK' /\ ListMembers' /\ Listed' /\
    NoOrphanPassing' /\ Unlinked' /\ TripClosesAll' /\ ActiveConnsBounded'
  BY <1>1, <1>2, Frames, LinkFrames DEF Inv, TypeOK, ResetLoad, mapVars, lockVars, connVars,
      workVars, tripVars, restVars, histVars
<1>4. TypeRestore'
  BY SMTT(30), BoundsAssumption DEF TypeRestore, TypeMaps, Nil, Ids, Ptr, Inv, TypeOK, ResetLoad,
      restVars
<1>5. StatesAllocated'
  <2>1. states <= nStates
    BY SMTT(30) DEF TypeMaps, Inv, TypeOK
  <2> QED
    BY <2>1 DEF StatesAllocated, Inv, ResetLoad, mapVars, workVars, restVars
<1> QED
  BY <1>3, <1>4, <1>5 DEF Inv, TypeOK

(* CheckPeriodReset's clearing of the flag: ResetClear preserves Inv. *)
LEMMA ResetClearInv ==
  ASSUME Inv, ResetClear
  PROVE  Inv'
<1>1. PassingKept /\ TrackedKept /\ RegisteredKept
  BY KeptFrame DEF ResetClear, connVars
<1>2. SameClosing
  BY DEF SameClosing, ResetClear, workVars
<1>3. TypeLocks' /\ TypeConns' /\ TypeWorkers' /\ PcsOK' /\ LocksOK' /\ ConfigHeld' /\
    ListsAllocated' /\ RegistrationOK' /\ ListMembers' /\ Listed' /\ NoOrphanPassing'
    /\ Unlinked' /\ ActiveConnsBounded'
  BY <1>1, <1>2, Frames, LinkFrames DEF Inv, TypeOK, ResetClear, mapVars, lockVars, connVars,
      workVars, tripVars, restVars
<1>4. TypeMaps'
  BY DEF TypeMaps, Inv, TypeOK, ResetClear, ClearExceeded, mapVars
<1>5. TypeRestore'
  BY DEF TypeRestore, Ptr, Inv, TypeOK, ResetClear, restVars
<1>6. StatesAllocated'
  BY SMTT(30) DEF TypeMaps, StatesAllocated, Nil, Inv, TypeOK, ResetClear, ClearExceeded, mapVars,
      workVars, restVars
<1>7. TripClosesAll'
  <2> SUFFICES ASSUME NEW d \in Conns, Exposed(d)'
               PROVE  \E v \in Workers : BeingTripped(v, d)'
    BY DEF TripClosesAll
  <2>1. states # resetting /\ states \in Ids
    BY SMTT(30), BoundsAssumption DEF Exposed, TypeMaps, Nil, Ids, Inv, TypeOK, ResetClear,
        ClearExceeded, mapVars
  <2>2. Exposed(d)
    BY <2>1 DEF Exposed, Tracked, TypeMaps, Inv, TypeOK, ResetClear, ClearExceeded, mapVars,
        connVars
  <2>3. PICK v \in Workers : BeingTripped(v, d)
    BY <2>2 DEF TripClosesAll, Inv
  <2> QED
    BY <2>3 DEF BeingTripped, ResetClear, mapVars, connVars, workVars, tripVars
<1> QED
  BY <1>3, <1>4, <1>5, <1>6, <1>7 DEF Inv, TypeOK

(* The initial states satisfy Inv: nothing is registered and no call is in  *)
(* progress.                                                               *)
LEMMA InitInv == Init => Inv
<1> SUFFICES ASSUME Init  PROVE Inv  OBVIOUS
<1>1. TypeOK
  <2>1. TypeMaps  BY SMTT(30), BoundsAssumption DEF TypeMaps, Init, Nil
  <2>2. TypeLocks
    BY DEF TypeLocks, Init
  <2>3. TypeConns
    BY DEF TypeConns, ConnPcs, Init, Ptr
  <2>4. TypeWorkers
    BY DEF TypeWorkers, WorkerPcs, Init, Ptr, Workers
  <2>5. TypeRestore
    BY SMTT(30), BoundsAssumption DEF TypeRestore, Init, Ptr
  <2> QED
    BY <2>1, <2>2, <2>3, <2>4, <2>5 DEF TypeOK
<1>2. PcsOK /\ LocksOK /\ ConfigHeld
  BY ProcsAssumption DEF PcsOK, LocksOK, ConfigHeld, LockedAdmin, Removing, Restoring,
      Registering, Init, Workers
<1>3. ListsAllocated /\ StatesAllocated
  BY SMTT(30) DEF ListsAllocated, StatesAllocated, Init, Nil
<1>4. RegistrationOK /\ ListMembers /\ Listed /\ NoOrphanPassing /\ Unlinked
  BY DEF RegistrationOK, ListMembers, Listed, NoOrphanPassing, Unlinked, Passing, Registered,
      Init, Workers
<1>5. TripClosesAll /\ ActiveConnsBounded
  BY DEF TripClosesAll, ActiveConnsBounded, Exposed, Tracked, Init
<1> QED
  BY <1>1, <1>2, <1>3, <1>4, <1>5 DEF Inv

(* Every step preserves Inv.                                               *)
LEMMA NextInv == Inv /\ [Next]_vars => Inv'
<1> SUFFICES ASSUME Inv, [Next]_vars  PROVE Inv'  OBVIOUS
<1>1. CASE UNCHANGED vars
  BY <1>1, KeptFrame, Frames, LinkFrames DEF Inv, TypeOK, SameClosing, vars, mapVars, lockVars,
      connVars, workVars, tripVars, restVars, histVars
<1>2. ASSUME NEW c \in Conns, HasQuota(c) \/ ConnStep(c) \/ CloseConn(c)  PROVE Inv'
  BY <1>2, HasQuotaInv, IsExceededInv, RegisterLockInv, RegisterStateInv, RegisterListInv,
      RegisterAddInv, RegisterLoadInv, RegisterMarkInv, CloseConnInv DEF ConnStep
<1>3. ASSUME NEW i \in Ios, IoStart(i) \/ IoDone(i) \/ AddBytesStep(i)  PROVE Inv'
  BY <1>3, IoStartInv, IoDoneInv, AddBytesStateInv, AddBytesCountInv DEF AddBytesStep
<1>4. ASSUME NEW w \in Workers, TripStep(w)  PROVE Inv'
  BY <1>4, TripListInv, TripCopyInv, TripMarkInv DEF TripStep
<1>5. ASSUME NEW w \in {Admin, Flusher}, LoadUsageStep(w)  PROVE Inv'
  BY <1>5, LoadUsageStateInv, LoadUsageDecideInv, PersistUnlockInv DEF LoadUsageStep
<1>6. CASE FlushLock \/ ApplyConfig \/ ApplyStep
  BY <1>6, FlushLockInv, ApplyConfigInv, ApplyConfigStateInv, ApplyConfigDecideInv,
      ApplyConfigLoadInv DEF ApplyStep
<1>7. CASE RemoveConfigStart \/ RemoveStep
  BY <1>7, RemoveConfigStartInv, RemoveConfigDeleteInv, RemoveConfigLockInv, DeleteConfigInv,
      RemoveConnsInv, RemoveStateInv, RemoveClearInv, RemoveMarkInv DEF RemoveStep
<1>8. CASE SnapshotFlag \/ SnapshotDrop \/ RestoreLock \/ RestoreStep
  BY <1>8, SnapshotFlagInv, SnapshotListInv, SnapshotDropInv, RestoreLockInv, RestoreConfigInv,
      RestoreStateForInv, RestoreFlagInv, RestoreListInv, RestoreUnlockInv DEF RestoreStep
<1>9. CASE ResetLoad \/ ResetClear
  BY <1>9, ResetLoadInv, ResetClearInv
<1> QED  BY <1>1, <1>2, <1>3, <1>4, <1>5, <1>6, <1>7, <1>8, <1>9 DEF Next

(* Inv is an invariant of the tracker.                                     *)
THEOREM Invariance == Spec => []Inv
BY InitInv, NextInv, PTL DEF Spec

(* Type correctness, for every number of goroutines and objects.           *)
THEOREM TypeCorrectness == Spec => []TypeOK
<1>1. Inv => TypeOK  BY DEF Inv
<1> QED  BY <1>1, Invariance, PTL

(* No connection escapes RemoveConfig: RegisterConn and RemoveConfig       *)
(* exclude each other through lifecycle, so a connection that passes       *)
(* traffic is reachable through activeConns or is about to be marked,      *)
(* except in a list RestoreState has displaced.                            *)
THEOREM RemoveReachesAll == Spec => []NoOrphan
<1>1. Inv => NoOrphan
  BY DEF Inv, NoOrphan, NoOrphanPassing, Passing, Tracked, Registered
<1> QED  BY <1>1, Invariance, PTL

(* No connection escapes tripExceeded: add-then-load in RegisterConn and   *)
(* flag-then-list in tripExceeded leave no interleaving in which a listed  *)
(* connection of a user over quota passes traffic unmarked for good.       *)
THEOREM TripReachesAll == Spec => []TripClosesAll
<1>1. Inv => TripClosesAll  BY DEF Inv
<1> QED  BY <1>1, Invariance, PTL

(* activeConns keeps the capacity contract of its comment: an entry        *)
(* belongs to a configured user.                                           *)
THEOREM CapacityContract == Spec => []ActiveConnsBounded
<1>1. Inv => ActiveConnsBounded  BY DEF Inv
<1> QED  BY <1>1, Invariance, PTL
=============================================================================
