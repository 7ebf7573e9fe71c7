------------------------ MODULE QuotaConnsStepProofs ------------------------
(***************************************************************************)
(* Inv of QuotaConns is inductive: the lemmas the actions share, then the  *)
(* steps of a connection's own goroutine (RoutedConnection, RegisterConn,  *)
(* QuotaConn.Close), of Read and Write with AddBytes, of tripExceeded, of  *)
(* the flush with LoadUsage, and of ApplyConfig.                           *)
(*                                                                         *)
(* Inv is a conjunction of named parts.  Frames says which variables a     *)
(* part reads; the lemma of an action cites it for the parts the action    *)
(* leaves alone and proves the others one by one.                          *)
(***************************************************************************)
EXTENDS QuotaConns, TLAPS

(* Zenon proves what does not say otherwise.                              *)
USE ZenonT(30)

-----------------------------------------------------------------------------
Closing == {"removeState", "removeClear", "removeMark"}

(* RemoveConfig's closing of the unlinked list makes no step.              *)
SameClosing ==
  (pc[Admin] \in Closing \/ pc'[Admin] \in Closing) => pc'[Admin] = pc[Admin]

(* No connection begins to pass traffic, and none changes its list.        *)
PassingKept == \A d \in Conns : Passing(d)' => Passing(d) /\ clist'[d] = clist[d]
TrackedKept == \A d \in Conns : Tracked(d)' => Tracked(d) /\ clist'[d] = clist[d]

(* A registered connection stays in its list or is closed for good.        *)
RegisteredKept ==
  \A d \in Conns :
    /\ cpc[d] \in Registered =>
         (cpc'[d] \in Registered /\ clist'[d] = clist[d]) \/ cpc'[d] = "gone"
    /\ cpc[d] = "gone" => cpc'[d] = "gone"

(* A step that leaves the connections' variables alone keeps them all.     *)
LEMMA KeptFrame ==
  UNCHANGED <<cpc, clist, closed>> => PassingKept /\ TrackedKept /\ RegisteredKept
BY DEF PassingKept, TrackedKept, RegisteredKept, Passing, Tracked

(* What each part of Inv reads.                                            *)
LEMMA Frames ==
  /\ TypeMaps /\ UNCHANGED <<config, nStates, nLists, states, activeConns, exceeded,
                             conns, displaced, forced>> => TypeMaps'
  /\ TypeLocks /\ UNCHANGED <<readers, writer, persist>> => TypeLocks'
  /\ TypeConns /\ UNCHANGED <<cpc, closed, cstate, clist>> => TypeConns'
  /\ TypeWorkers /\ UNCHANGED <<pc, wstate, trip, wlist, todo, isNew>> => TypeWorkers'
  /\ TypeRestore /\ UNCHANGED <<rpc, snap, snaps, rstate, resetting, ops>> => TypeRestore'
  /\ PcsOK /\ UNCHANGED <<pc, trip>> => PcsOK'
  /\ LocksOK /\ UNCHANGED <<readers, cpc, writer, pc, persist, rpc>> => LocksOK'
  /\ ConfigHeld /\ UNCHANGED <<readers, rpc, config>> => ConfigHeld'
  /\ ListsAllocated /\ UNCHANGED <<clist, wlist, snap, nLists>> => ListsAllocated'
  /\ StatesAllocated /\ UNCHANGED <<wstate, rstate, resetting, exceeded, nStates>> =>
       StatesAllocated'
  /\ RegistrationOK /\ UNCHANGED <<cpc, states, cstate, clist, activeConns, displaced>> =>
       RegistrationOK'
  /\ ListMembers /\ UNCHANGED <<conns, clist, cpc>> => ListMembers'
  /\ ActiveConnsBounded /\ UNCHANGED <<activeConns, config, pc>> => ActiveConnsBounded'
<1>1. /\ TypeMaps /\ UNCHANGED <<config, nStates, nLists, states, activeConns, exceeded,
                                 conns, displaced, forced>> => TypeMaps'
      /\ TypeLocks /\ UNCHANGED <<readers, writer, persist>> => TypeLocks'
      /\ TypeConns /\ UNCHANGED <<cpc, closed, cstate, clist>> => TypeConns'
  BY DEF TypeMaps, TypeLocks, TypeConns
<1>2. /\ TypeWorkers /\ UNCHANGED <<pc, wstate, trip, wlist, todo, isNew>> => TypeWorkers'
      /\ TypeRestore /\ UNCHANGED <<rpc, snap, snaps, rstate, resetting, ops>> => TypeRestore'
  BY DEF TypeWorkers, TypeRestore
<1>3. /\ PcsOK /\ UNCHANGED <<pc, trip>> => PcsOK'
      /\ LocksOK /\ UNCHANGED <<readers, cpc, writer, pc, persist, rpc>> => LocksOK'
      /\ ConfigHeld /\ UNCHANGED <<readers, rpc, config>> => ConfigHeld'
  BY SMTT(30) DEF PcsOK, LocksOK, ConfigHeld
<1>4. /\ ListsAllocated /\ UNCHANGED <<clist, wlist, snap, nLists>> => ListsAllocated'
      /\ StatesAllocated /\ UNCHANGED <<wstate, rstate, resetting, exceeded, nStates>> =>
           StatesAllocated'
  BY DEF ListsAllocated, StatesAllocated
<1>5. RegistrationOK /\ UNCHANGED <<cpc, states, cstate, clist, activeConns, displaced>> =>
        RegistrationOK'
  BY DEF RegistrationOK
<1>6. /\ ListMembers /\ UNCHANGED <<conns, clist, cpc>> => ListMembers'
      /\ ActiveConnsBounded /\ UNCHANGED <<activeConns, config, pc>> => ActiveConnsBounded'
  BY SMTT(30) DEF ListMembers, ActiveConnsBounded
<1> QED  BY <1>1, <1>2, <1>3, <1>4, <1>5, <1>6

(* What the parts read that let connections close: the lists, the map's    *)
(* entry, RemoveConfig's progress and a trip's, and the connections' own   *)
(* state.                                                                  *)
LEMMA LinkFrames ==
  /\ Listed /\ PassingKept /\ SameClosing /\ UNCHANGED <<conns, todo>> => Listed'
  /\ NoOrphanPassing /\ PassingKept /\ SameClosing
       /\ UNCHANGED <<conns, activeConns, displaced, wlist, todo>> => NoOrphanPassing'
  /\ Unlinked /\ RegisteredKept /\ SameClosing /\ TypeWorkers
       /\ UNCHANGED <<wlist, activeConns, todo>> => Unlinked'
  /\ TripClosesAll /\ TrackedKept
       /\ UNCHANGED <<activeConns, displaced, states, exceeded, forced, wstate, trip,
                      wlist, todo>> => TripClosesAll'
<1>1. Listed /\ PassingKept /\ SameClosing /\ UNCHANGED <<conns, todo>> => Listed'
  BY DEF Listed, PassingKept, SameClosing, Closing
<1>2. NoOrphanPassing /\ PassingKept /\ SameClosing
        /\ UNCHANGED <<conns, activeConns, displaced, wlist, todo>> => NoOrphanPassing'
  BY DEF NoOrphanPassing, PassingKept, SameClosing, Closing, BeingRemoved
<1>3. ASSUME Unlinked, RegisteredKept, SameClosing, TypeWorkers,
             UNCHANGED <<wlist, activeConns, todo>>
      PROVE  Unlinked'
  <2>1. pc[Admin] = "removeMark" => todo[Admin] \subseteq Conns
    BY <1>3 DEF TypeWorkers, Workers
  <2> QED  BY <1>3, <2>1 DEF Unlinked, RegisteredKept, SameClosing, Closing
<1>4. TripClosesAll /\ TrackedKept
        /\ UNCHANGED <<activeConns, displaced, states, exceeded, forced, wstate, trip,
                       wlist, todo>> => TripClosesAll'
  BY SMTT(30) DEF TripClosesAll, TrackedKept, Exposed, BeingTripped
<1> QED  BY <1>1, <1>2, <1>3, <1>4

(* stateFor returns the linked state; a state it allocates is fresh.       *)
LEMMA StateForFacts ==
  ASSUME TypeMaps, StatesAllocated, NEW s \in Ids, StateFor(s)
  PROVE  /\ nStates' \in 0..MaxObjects /\ nStates <= nStates'
         /\ states' \in 1..nStates' /\ states' = s
         /\ states' # states => ~exceeded[states']
<1>1. CASE states # Nil /\ s = states /\ UNCHANGED <<states, nStates>>
  BY SMTT(30), <1>1 DEF TypeMaps, Ids
<1>2. CASE states = Nil /\ nStates < MaxObjects /\ s = nStates + 1
           /\ states' = s /\ nStates' = s
  <2>1. nStates \in Nat  BY SMTT(30) DEF TypeMaps
  <2>2. ~exceeded[s]  BY SMTT(30), <1>2, <2>1 DEF StatesAllocated
  <2> QED  BY SMTT(30), <1>2, <2>1, <2>2 DEF Ids
<1> QED  BY <1>1, <1>2 DEF StateFor

(* stateFor keeps the map well typed.                                      *)
LEMMA StateForMaps ==
  ASSUME TypeMaps, StatesAllocated, NEW s \in Ids, StateFor(s),
         UNCHANGED <<nLists, activeConns, exceeded, conns, displaced, forced>>,
         config' \in BOOLEAN
  PROVE  TypeMaps'
<1>1. nStates' \in 0..MaxObjects /\ states' \in 0..nStates'
  BY SMTT(30), StateForFacts
<1> QED  BY <1>1 DEF TypeMaps

(* A pointer stateFor returns is an allocated one.                         *)
LEMMA StateForAllocated ==
  ASSUME TypeMaps, TypeWorkers, TypeRestore, StatesAllocated,
         NEW s \in Ids, StateFor(s), UNCHANGED <<exceeded, resetting>>,
         \A w \in Workers : wstate'[w] \in {wstate[w], s}, rstate' \in {rstate, s}
  PROVE  StatesAllocated'
<1>1. nStates \in Nat /\ nStates' \in Nat /\ nStates <= nStates' /\ s <= nStates'
  BY SMTT(30), StateForFacts DEF TypeMaps
<1>2. ASSUME NEW n \in Ptr, n <= nStates  PROVE n <= nStates'
  BY SMTT(30), <1>1, <1>2 DEF Ptr, Nil
<1>3. ASSUME NEW w \in Workers  PROVE wstate'[w] <= nStates'
  BY <1>1, <1>2 DEF TypeWorkers, StatesAllocated
<1>4. rstate' <= nStates'
  BY <1>1, <1>2 DEF TypeRestore, StatesAllocated
<1>5. resetting' <= nStates'
  BY <1>2 DEF TypeRestore, StatesAllocated
<1>6. ASSUME NEW t \in Ids, exceeded'[t]  PROVE t <= nStates'
  BY <1>2, <1>6 DEF StatesAllocated, Ptr
<1> QED  BY <1>3, <1>4, <1>5, <1>6 DEF StatesAllocated

(* A state stateFor allocates exposes nobody, and a trip in progress keeps *)
(* its state.                                                              *)
LEMMA StateForTrip ==
  ASSUME TypeMaps, StatesAllocated, TripClosesAll, TrackedKept,
         NEW s \in Ids, StateFor(s),
         UNCHANGED <<activeConns, displaced, exceeded, forced, trip, wlist, todo>>,
         \A w \in Workers : trip[w] # "none" => wstate'[w] = wstate[w]
  PROVE  TripClosesAll'
<1> SUFFICES ASSUME NEW d \in Conns, Exposed(d)'
             PROVE  \E v \in Workers : BeingTripped(v, d)'
  BY DEF TripClosesAll
<1>1. states' = states  BY StateForFacts DEF Exposed
<1>2. Exposed(d)  BY <1>1 DEF Exposed, TrackedKept
<1>3. PICK v \in Workers : BeingTripped(v, d)  BY <1>2 DEF TripClosesAll
<1>4. trip[v] # "none"  BY <1>3 DEF BeingTripped
<1>5. wstate'[v] = wstate[v]  BY <1>4
<1>6. clist'[d] = clist[d]  BY DEF Exposed, TrackedKept
<1> QED  BY <1>1, <1>3, <1>5, <1>6 DEF BeingTripped

(* The outcomes of AddBytes, LoadUsage and ApplyConfig for the flag: raise *)
(* it and begin a trip, leave it, or clear it.                             *)
Decide(w) ==
  \/ TripExceeded(w) /\ UNCHANGED forced
  \/ Forget(w) /\ UNCHANGED <<trip, exceeded, forced>>
  \/ Forget(w) /\ UNCHANGED trip /\ ClearExceeded(wstate[w])

(* Whoever raises the flag is about to read the list and mark.             *)
LEMMA DecideTrip ==
  ASSUME TypeMaps, TypeWorkers, TripClosesAll, NEW w \in Workers, trip[w] = "none",
         Decide(w),
         UNCHANGED <<states, activeConns, displaced, cpc, closed, clist, wlist, todo>>
  PROVE  TripClosesAll'
<1> SUFFICES ASSUME NEW d \in Conns, Exposed(d)'
             PROVE  \E v \in Workers : BeingTripped(v, d)'
  BY DEF TripClosesAll
<1>1. states \in Ids /\ exceeded'[states] /\ states \notin forced'
  BY SMTT(30), BoundsAssumption DEF Exposed, TypeMaps, Nil, Ids
<1>2. CASE TripExceeded(w) /\ ~exceeded[states] /\ UNCHANGED forced
  <2>1. wstate[w] = states /\ trip'[w] = "list" /\ wstate' = wstate
    BY <1>1, <1>2 DEF TripExceeded, TypeMaps, TypeWorkers
  <2>2. BeingTripped(w, d)'  BY <2>1 DEF BeingTripped
  <2> QED  BY <2>2
<1>3. CASE exceeded[states] /\ states \notin forced
  <2>1. Exposed(d)  BY <1>3 DEF Exposed, Tracked
  <2>2. PICK v \in Workers : BeingTripped(v, d)  BY <2>1 DEF TripClosesAll
  <2>3. v # w  BY <2>2 DEF BeingTripped
  <2>4. wstate'[v] = wstate[v] /\ trip'[v] = trip[v]
    BY <2>3 DEF Decide, TripExceeded, Forget, TypeWorkers
  <2> QED  BY <2>2, <2>4 DEF BeingTripped
<1>4. CASE ClearExceeded(wstate[w])
  <2>1. states # wstate[w] /\ exceeded'[states] = exceeded[states]
    BY <1>1, <1>4 DEF ClearExceeded, TypeMaps
  <2> QED  BY <1>1, <1>3, <1>4, <2>1 DEF ClearExceeded
<1>5. exceeded[states] \/ ~exceeded[states]  OBVIOUS
<1>6. CASE Forget(w) /\ UNCHANGED <<trip, exceeded, forced>>
  BY <1>1, <1>3, <1>6
<1> QED  BY <1>1, <1>2, <1>3, <1>4, <1>5, <1>6 DEF Decide

(* A raised flag is a flag of an allocated state.                          *)
LEMMA DecideAllocated ==
  ASSUME TypeMaps, TypeWorkers, TypeRestore, StatesAllocated,
         NEW w \in Workers, Decide(w), UNCHANGED <<nStates, rstate, resetting>>
  PROVE  StatesAllocated' /\ exceeded' \in [Ids -> BOOLEAN] /\ forced' \in SUBSET Ids
<1>1. ASSUME NEW v \in Workers  PROVE wstate'[v] <= nStates'
  <2>1. wstate'[v] = wstate[v] \/ wstate'[v] = 0
    BY DEF Decide, TripExceeded, Forget, TypeWorkers, Nil
  <2> QED  BY SMTT(30), <2>1 DEF TypeMaps, StatesAllocated
<1>2. ASSUME NEW s \in Ids, exceeded'[s]  PROVE s <= nStates'
  <2>1. exceeded[s] \/ s = wstate[w]
    BY <1>2 DEF Decide, TripExceeded, ClearExceeded, TypeMaps
  <2> QED  BY <2>1 DEF StatesAllocated
<1>3. exceeded' \in [Ids -> BOOLEAN] /\ forced' \in SUBSET Ids
  BY DEF Decide, TripExceeded, ClearExceeded, TypeMaps
<1> QED  BY <1>1, <1>2, <1>3 DEF StatesAllocated

-----------------------------------------------------------------------------
(* RoutedConnection's first check: HasQuota preserves Inv. *)
LEMMA HasQuotaInv ==
  ASSUME Inv, NEW c \in Conns, HasQuota(c)
  PROVE  Inv'
<1>1. PassingKept /\ TrackedKept /\ RegisteredKept
  BY SMTT(30) DEF PassingKept, TrackedKept, RegisteredKept, Passing, Tracked, Registered, HasQuota
<1>2. SameClosing
  BY DEF SameClosing, HasQuota, workVars
<1>3. TypeMaps' /\ TypeLocks' /\ TypeWorkers' /\ TypeRestore' /\ PcsOK' /\ ConfigHeld'
    /\ ListsAllocated' /\ StatesAllocated' /\ Listed' /\ NoOrphanPassing' /\ Unlinked'
    /\ TripClosesAll' /\ ActiveConnsBounded'
  BY <1>1, <1>2, Frames, LinkFrames DEF Inv, TypeOK, HasQuota, mapVars, lockVars, workVars,
      tripVars, restVars, histVars
<1>4. TypeConns'
  BY DEF TypeConns, ConnPcs, Inv, TypeOK, HasQuota
<1>5. LocksOK'
  BY SMTT(30) DEF LocksOK, Removing, Restoring, Registering, Inv, HasQuota, lockVars, workVars,
      restVars
<1>6. RegistrationOK'
  BY SMTT(30) DEF RegistrationOK, Removing, Inv, HasQuota, mapVars, histVars
<1>7. ListMembers'
  BY SMTT(30) DEF ListMembers, Registered, Inv, HasQuota
<1> QED
  BY <1>3, <1>4, <1>5, <1>6, <1>7 DEF Inv, TypeOK

(* RoutedConnection's refusal of a user over quota: IsExceeded preserves *)
(* Inv. *)
LEMMA IsExceededInv ==
  ASSUME Inv, NEW c \in Conns, IsExceeded(c)
  PROVE  Inv'
<1>1. PassingKept /\ TrackedKept /\ RegisteredKept
  BY SMTT(30) DEF PassingKept, TrackedKept, RegisteredKept, Passing, Tracked, Registered, IsExceeded
<1>2. SameClosing
  BY DEF SameClosing, IsExceeded, workVars
<1>3. TypeMaps' /\ TypeLocks' /\ TypeWorkers' /\ TypeRestore' /\ PcsOK' /\ ConfigHeld'
    /\ ListsAllocated' /\ StatesAllocated' /\ Listed' /\ NoOrphanPassing' /\ Unlinked'
    /\ TripClosesAll' /\ ActiveConnsBounded'
  BY <1>1, <1>2, Frames, LinkFrames DEF Inv, TypeOK, IsExceeded, mapVars, lockVars, workVars,
      tripVars, restVars, histVars
<1>4. TypeConns'
  BY DEF TypeConns, ConnPcs, Inv, TypeOK, IsExceeded
<1>5. LocksOK'
  BY SMTT(30) DEF LocksOK, Removing, Restoring, Registering, Inv, IsExceeded, lockVars, workVars,
      restVars
<1>6. RegistrationOK'
  BY SMTT(30) DEF RegistrationOK, Removing, Inv, IsExceeded, mapVars, histVars
<1>7. ListMembers'
  BY SMTT(30) DEF ListMembers, Registered, Inv, IsExceeded
<1> QED
  BY <1>3, <1>4, <1>5, <1>6, <1>7 DEF Inv, TypeOK

(* RegisterConn's lifecycle.RLock: RegisterLock preserves Inv. *)
LEMMA RegisterLockInv ==
  ASSUME Inv, NEW c \in Conns, RegisterLock(c)
  PROVE  Inv'
<1>1. PassingKept /\ TrackedKept /\ RegisteredKept
  BY SMTT(30) DEF PassingKept, TrackedKept, RegisteredKept, Passing, Tracked, Registered,
      RegisterLock
<1>2. SameClosing
  BY DEF SameClosing, RegisterLock, workVars
<1>3. TypeMaps' /\ TypeWorkers' /\ TypeRestore' /\ PcsOK' /\ ListsAllocated' /\
    StatesAllocated' /\ Listed' /\ NoOrphanPassing' /\ Unlinked' /\ TripClosesAll' /\
    ActiveConnsBounded'
  BY <1>1, <1>2, Frames, LinkFrames DEF Inv, TypeOK, RegisterLock, mapVars, workVars, tripVars,
      restVars, histVars
<1>4. TypeLocks'
  BY DEF TypeLocks, Inv, TypeOK, RegisterLock
<1>5. TypeConns'
  BY DEF TypeConns, ConnPcs, Inv, TypeOK, RegisterLock
<1>6. LocksOK'
  BY SMTT(30) DEF TypeConns, LocksOK, LockedAdmin, Removing, Restoring, Registering, Inv, TypeOK,
      RegisterLock, workVars, restVars
<1>7. ConfigHeld'
  BY DEF ConfigHeld, Removing, Inv, RegisterLock, mapVars, restVars
<1>8. RegistrationOK'
  BY DEF TypeConns, RegistrationOK, Registering, LockedAdmin, Removing, Inv, TypeOK, RegisterLock,
      mapVars, histVars
<1>9. ListMembers'
  BY SMTT(30) DEF ListMembers, Registered, Inv, RegisterLock
<1> QED
  BY <1>3, <1>4, <1>5, <1>6, <1>7, <1>8, <1>9 DEF Inv, TypeOK

(* RegisterConn's stateFor: RegisterState preserves Inv. *)
LEMMA RegisterStateInv ==
  ASSUME Inv, NEW c \in Conns, RegisterState(c)
  PROVE  Inv'
<1>0. PICK s \in Ids : StateFor(s) /\ cstate' = [cstate EXCEPT ![c] = s]
  BY DEF RegisterState
<1>1. PassingKept /\ TrackedKept /\ RegisteredKept
  BY SMTT(30) DEF PassingKept, TrackedKept, RegisteredKept, Passing, Tracked, Registered,
      RegisterState, StateFor
<1>2. SameClosing
  BY DEF SameClosing, RegisterState, workVars
<1>3. TypeLocks' /\ TypeWorkers' /\ TypeRestore' /\ PcsOK' /\ ConfigHeld' /\
    ListsAllocated' /\ Listed' /\ NoOrphanPassing' /\ Unlinked' /\ ActiveConnsBounded'
  BY <1>1, <1>2, Frames, LinkFrames DEF Inv, TypeOK, RegisterState, lockVars, workVars, tripVars,
      restVars, histVars
<1>4. TypeMaps'
  BY <1>0, StateForMaps DEF TypeMaps, Inv, TypeOK, RegisterState, StateFor, histVars
<1>5. TypeConns'
  BY DEF TypeConns, ConnPcs, Ptr, Inv, TypeOK, RegisterState, StateFor
<1>6. LocksOK'
  BY SMTT(30) DEF LocksOK, LockedAdmin, Removing, Restoring, Registering, Inv, RegisterState,
      StateFor, lockVars, workVars, restVars
<1>7. StatesAllocated'
  BY <1>0, StateForAllocated DEF Inv, TypeOK, RegisterState, workVars, restVars
<1>8. RegistrationOK'
  BY SMTT(30) DEF TypeMaps, TypeConns, RegistrationOK, Registering, LockedAdmin, Removing, Inv,
      TypeOK, RegisterState, StateFor, histVars
<1>9. ListMembers'
  BY DEF TypeMaps, TypeConns, ListMembers, Registered, Inv, TypeOK, RegisterState, StateFor
<1>10. TripClosesAll'
  BY <1>0, <1>1, StateForTrip DEF Inv, TypeOK, RegisterState, workVars, tripVars, histVars
<1> QED
  BY <1>3, <1>4, <1>5, <1>6, <1>7, <1>8, <1>9, <1>10 DEF Inv, TypeOK

(* RegisterList preserves Inv (RegisterConn's activeConns.LoadOrStore: a *)
(* new list is nobody's yet). *)
LEMMA RegisterListInv ==
  ASSUME Inv, NEW c \in Conns, RegisterList(c)
  PROVE  Inv'
<1>1. PassingKept
  BY DEF TypeConns, PassingKept, Passing, Registered, Inv, TypeOK, RegisterList
<1>2. SameClosing
  BY DEF SameClosing, RegisterList, workVars
<1>3. TypeLocks' /\ TypeWorkers' /\ TypeRestore' /\ PcsOK' /\ ConfigHeld' /\
    StatesAllocated' /\ Listed'
  BY <1>1, <1>2, Frames, LinkFrames DEF Inv, TypeOK, RegisterList, lockVars, workVars, tripVars,
      restVars
<1>4. TypeMaps'
  BY SMTT(30), BoundsAssumption DEF TypeMaps, Inv, TypeOK, RegisterList, histVars
<1>5. TypeConns'
  <2>1. clist'[c] \in Ids
    BY SMTT(30), BoundsAssumption DEF TypeMaps, TypeConns, Nil, Ids, Inv, TypeOK, RegisterList
  <2> QED
    BY SMTT(30), <2>1 DEF TypeConns, ConnPcs, Nil, Ids, Ptr, Inv, TypeOK, RegisterList
<1>6. LocksOK'
  BY SMTT(30) DEF LocksOK, Removing, Restoring, Registering, Inv, RegisterList, lockVars, workVars,
      restVars
<1>7. ListsAllocated'
  <2>1. nLists <= nLists' /\ nLists' \in Nat /\ clist'[c] <= nLists'
    BY SMTT(30) DEF TypeMaps, TypeConns, Inv, TypeOK, RegisterList
  <2>2. ASSUME NEW d \in Conns  PROVE clist'[d] <= nLists'
    <3>1. d = c \/ clist'[d] = clist[d]
      BY DEF TypeConns, Inv, TypeOK, RegisterList
    <3> QED
      BY SMTT(30), <2>1, <3>1 DEF TypeMaps, TypeConns, ListsAllocated, Ids, Ptr, Inv, TypeOK,
          RegisterList
  <2>3. \A w \in Workers : wlist[w] <= nLists'
    BY SMTT(30), <2>1 DEF TypeMaps, TypeWorkers, ListsAllocated, Ids, Ptr, Inv, TypeOK, RegisterList
  <2>4. snap.list <= nLists'
    BY SMTT(30), <2>1 DEF TypeMaps, TypeRestore, ListsAllocated, Ids, Ptr, Inv, TypeOK, RegisterList
  <2> QED
    BY <2>2, <2>3, <2>4 DEF ListsAllocated, RegisterList, tripVars, restVars
<1>8. RegistrationOK'
  BY DEF TypeConns, RegistrationOK, Registering, LockedAdmin, Removing, Inv, TypeOK, RegisterList,
      histVars
<1>9. ListMembers'
  BY SMTT(30) DEF TypeMaps, TypeConns, ListMembers, Registered, Inv, TypeOK, RegisterList
<1>10. NoOrphanPassing'
  BY SMTT(30) DEF TypeConns, ListsAllocated, ListMembers, Listed, NoOrphanPassing, Passing,
      Registered, BeingRemoved, LockedAdmin, Removing, Inv, TypeOK, RegisterList, workVars,
      tripVars, histVars
<1>11. Unlinked'
  BY SMTT(30) DEF TypeMaps, TypeConns, TypeWorkers, ListsAllocated, ListMembers, Unlinked,
      Registered, Workers, Inv, TypeOK, RegisterList, workVars, tripVars
<1>12. TripClosesAll'
  BY SMTT(30) DEF TypeMaps, TypeConns, TripClosesAll, Exposed, Tracked, BeingTripped,
      ListsAllocated, Inv, TypeOK, RegisterList, workVars, tripVars, histVars
<1>13. ActiveConnsBounded'
  BY DEF LocksOK, ConfigHeld, ActiveConnsBounded, Registering, Restoring, Inv, RegisterList
<1> QED
  BY <1>3, <1>4, <1>5, <1>6, <1>7, <1>8, <1>9, <1>10, <1>11, <1>12, <1>13 DEF Inv, TypeOK

(* ConnList.add: RegisterAdd preserves Inv. *)
LEMMA RegisterAddInv ==
  ASSUME Inv, NEW c \in Conns, RegisterAdd(c)
  PROVE  Inv'
<1>1. TrackedKept /\ RegisteredKept
  BY SMTT(30) DEF TrackedKept, RegisteredKept, Tracked, Registered, RegisterAdd
<1>2. SameClosing
  BY DEF SameClosing, RegisterAdd, workVars
<1>3. TypeLocks' /\ TypeWorkers' /\ TypeRestore' /\ PcsOK' /\ ConfigHeld' /\
    ListsAllocated' /\ StatesAllocated' /\ Unlinked' /\ TripClosesAll' /\
    ActiveConnsBounded'
  BY <1>1, <1>2, Frames, LinkFrames DEF Inv, TypeOK, RegisterAdd, mapVars, lockVars, workVars,
      tripVars, restVars, histVars
<1>4. TypeMaps'
  BY DEF TypeMaps, Inv, TypeOK, RegisterAdd, mapVars, histVars
<1>5. TypeConns'
  BY DEF TypeConns, ConnPcs, Inv, TypeOK, RegisterAdd
<1>6. LocksOK'
  BY SMTT(30) DEF LocksOK, LockedAdmin, Removing, Restoring, Registering, Inv, RegisterAdd,
      lockVars, workVars, restVars
<1>7. RegistrationOK'
  BY DEF TypeConns, RegistrationOK, Registering, LockedAdmin, Removing, Inv, TypeOK, RegisterAdd,
      mapVars, histVars
<1>8. ListMembers'
  <2>1. \A l \in Ids : conns'[l] = IF l = clist[c] THEN conns[l] \cup {c} ELSE conns[l]
    BY DEF TypeMaps, Inv, TypeOK, RegisterAdd
  <2>2. \A l \in Ids : \A d \in conns[l] : d \in Conns
    BY DEF TypeMaps, Inv, TypeOK
  <2>3. \A d \in Conns : cpc[d] \in Registered => cpc'[d] \in Registered
    BY DEF TypeConns, Registered, Inv, TypeOK, RegisterAdd
  <2>4. cpc'[c] \in Registered /\ clist' = clist
    BY DEF TypeConns, Registered, Inv, TypeOK, RegisterAdd
  <2>5. ASSUME NEW l \in Ids, NEW d \in conns'[l]
        PROVE  clist'[d] = l /\ cpc'[d] \in Registered
    <3>1. CASE d \in conns[l]  BY <2>2, <2>3, <2>4, <3>1 DEF ListMembers, Inv
    <3>2. CASE d = c /\ l = clist[c]  BY <2>4, <3>2
    <3> QED BY <2>1, <2>5, <3>1, <3>2
  <2> QED BY <2>5 DEF ListMembers
<1>9. Listed'
  BY SMTT(30) DEF TypeMaps, TypeConns, Listed, Passing, Registered, Ptr, Inv, TypeOK, RegisterAdd,
      workVars, tripVars
<1>10. NoOrphanPassing'
  <2> SUFFICES ASSUME NEW d \in Conns, Passing(d)'
               PROVE  (clist[d] = activeConns \/ clist[d] \in displaced \/
                   BeingRemoved(d))'
    BY DEF NoOrphanPassing
  <2>1. CASE d = c
    BY <2>1 DEF RegistrationOK, Inv, RegisterAdd, mapVars, histVars
  <2>2. CASE d # c
    <3>1. Passing(d)
      BY SMTT(30), <2>2 DEF Passing, RegisterAdd
    <3>2. d \in conns[clist[d]] => d \in conns'[clist[d]]
      BY SMTT(30) DEF RegisterAdd
    <3>3. BeingRemoved(d) => BeingRemoved(d)'
      BY <3>2 DEF BeingRemoved, RegisterAdd, workVars, tripVars
    <3> QED
      BY <3>1, <3>3 DEF NoOrphanPassing, Inv, RegisterAdd, mapVars, histVars
  <2> QED
    BY <2>1, <2>2
<1> QED
  BY <1>3, <1>4, <1>5, <1>6, <1>7, <1>8, <1>9, <1>10 DEF Inv, TypeOK

(* RegisterLoad preserves Inv (RegisterConn's reading of the flag: after *)
(* the add, so the trip that raised it later sees c). *)
LEMMA RegisterLoadInv ==
  ASSUME Inv, NEW c \in Conns, RegisterLoad(c)
  PROVE  Inv'
<1>1. PassingKept /\ RegisteredKept
  BY SMTT(30) DEF PassingKept, RegisteredKept, Passing, Registered, RegisterLoad
<1>2. SameClosing
  BY DEF SameClosing, RegisterLoad, workVars
<1>3. TypeMaps' /\ TypeWorkers' /\ TypeRestore' /\ PcsOK' /\ ListsAllocated' /\
    StatesAllocated' /\ Listed' /\ NoOrphanPassing' /\ Unlinked' /\
    ActiveConnsBounded'
  BY <1>1, <1>2, Frames, LinkFrames DEF Inv, TypeOK, RegisterLoad, mapVars, workVars, tripVars,
      restVars, histVars
<1>4. TypeLocks'
  BY DEF TypeLocks, Inv, TypeOK, RegisterLoad
<1>5. TypeConns'
  BY DEF TypeConns, ConnPcs, Ptr, Inv, TypeOK, RegisterLoad
<1>6. LocksOK'
  BY DEF TypeConns, LocksOK, LockedAdmin, Removing, Restoring, Registering, Inv, TypeOK,
      RegisterLoad, workVars, restVars
<1>7. ConfigHeld'
  BY DEF ConfigHeld, Removing, Inv, RegisterLoad, mapVars, restVars
<1>8. RegistrationOK'
  BY DEF TypeConns, RegistrationOK, Registering, LockedAdmin, Removing, Inv, TypeOK, RegisterLoad,
      mapVars, histVars
<1>9. ListMembers'
  BY DEF TypeMaps, TypeConns, ListMembers, Registered, Inv, TypeOK, RegisterLoad
<1>10. TripClosesAll'
  BY DEF TypeMaps, TypeConns, TypeWorkers, TripClosesAll, Exposed, Tracked, BeingTripped,
      RegistrationOK, Nil, Inv, TypeOK, RegisterLoad, mapVars, workVars, tripVars, restVars,
      histVars
<1> QED
  BY <1>3, <1>4, <1>5, <1>6, <1>7, <1>8, <1>9, <1>10 DEF Inv, TypeOK

(* The marking of a connection registered over quota: RegisterMark *)
(* preserves Inv. *)
LEMMA RegisterMarkInv ==
  ASSUME Inv, NEW c \in Conns, RegisterMark(c)
  PROVE  Inv'
<1>1. PassingKept /\ TrackedKept /\ RegisteredKept
  BY DEF TypeConns, PassingKept, TrackedKept, RegisteredKept, Passing, Tracked, Registered, Inv,
      TypeOK, RegisterMark
<1>2. SameClosing
  BY DEF SameClosing, RegisterMark, workVars
<1>3. TypeMaps' /\ TypeLocks' /\ TypeWorkers' /\ TypeRestore' /\ PcsOK' /\ ConfigHeld'
    /\ ListsAllocated' /\ StatesAllocated' /\ Listed' /\ NoOrphanPassing' /\ Unlinked'
    /\ TripClosesAll' /\ ActiveConnsBounded'
  BY <1>1, <1>2, Frames, LinkFrames DEF Inv, TypeOK, RegisterMark, mapVars, lockVars, workVars,
      tripVars, restVars, histVars
<1>4. TypeConns'
  BY DEF TypeConns, ConnPcs, Inv, TypeOK, RegisterMark
<1>5. LocksOK'
  BY DEF TypeConns, LocksOK, LockedAdmin, Removing, Restoring, Registering, Inv, TypeOK,
      RegisterMark, lockVars, workVars, restVars
<1>6. RegistrationOK'
  BY DEF TypeConns, RegistrationOK, Registering, LockedAdmin, Removing, Inv, TypeOK, RegisterMark,
      mapVars, histVars
<1>7. ListMembers'
  BY DEF TypeMaps, TypeConns, ListMembers, Registered, Inv, TypeOK, RegisterMark
<1> QED
  BY <1>3, <1>4, <1>5, <1>6, <1>7 DEF Inv, TypeOK

(* QuotaConn.Close: CloseConn preserves Inv. *)
LEMMA CloseConnInv ==
  ASSUME Inv, NEW c \in Conns, CloseConn(c)
  PROVE  Inv'
<1>1. TrackedKept /\ RegisteredKept
  BY DEF TypeConns, TrackedKept, RegisteredKept, Tracked, Registered, Inv, TypeOK, CloseConn
<1>2. SameClosing
  BY DEF SameClosing, CloseConn, workVars
<1>3. TypeLocks' /\ TypeWorkers' /\ TypeRestore' /\ PcsOK' /\ ConfigHeld' /\
    StatesAllocated' /\ Unlinked' /\ TripClosesAll' /\ ActiveConnsBounded'
  BY <1>1, <1>2, Frames, LinkFrames DEF Inv, TypeOK, CloseConn, mapVars, lockVars, workVars,
      tripVars, restVars, histVars
<1>4. TypeMaps'
  BY DEF TypeMaps, Inv, TypeOK, CloseConn, mapVars, histVars
<1>5. TypeConns'
  BY DEF TypeConns, ConnPcs, Ptr, Inv, TypeOK, CloseConn
<1>6. LocksOK'
  BY DEF TypeConns, LocksOK, LockedAdmin, Removing, Restoring, Registering, Inv, TypeOK,
      CloseConn, lockVars, workVars, restVars
<1>7. ListsAllocated'
  BY SMTT(30) DEF TypeMaps, ListsAllocated, Nil, Inv, TypeOK, CloseConn, mapVars, tripVars, restVars
<1>8. RegistrationOK'
  BY DEF TypeConns, RegistrationOK, Registering, LockedAdmin, Removing, Inv, TypeOK, CloseConn,
      mapVars, histVars
<1>9. ListMembers'
  BY SMTT(30) DEF TypeMaps, ListMembers, Inv, TypeOK, CloseConn
<1>10. Listed'
  BY SMTT(30) DEF TypeConns, Listed, Passing, Registered, Inv, TypeOK, CloseConn, workVars, tripVars
<1>11. NoOrphanPassing'
  <2> SUFFICES ASSUME NEW d \in Conns, Passing(d)'
               PROVE  (clist[d] = activeConns \/ clist[d] \in displaced \/
                   BeingRemoved(d))'
    BY DEF NoOrphanPassing
  <2>1. d # c /\ Passing(d) /\ clist'[d] = clist[d]
    BY DEF Passing, TypeConns, Registered, Inv, TypeOK, CloseConn
  <2>2. d \in conns[clist[d]] => d \in conns'[clist[d]]
    BY SMTT(30), <2>1 DEF CloseConn
  <2>3. BeingRemoved(d) => BeingRemoved(d)'
    BY <2>1, <2>2 DEF BeingRemoved, CloseConn, workVars, tripVars
  <2> QED
    BY SMTT(30), <2>1, <2>3 DEF NoOrphanPassing, Inv, CloseConn, mapVars, histVars
<1> QED
  BY <1>3, <1>4, <1>5, <1>6, <1>7, <1>8, <1>9, <1>10, <1>11 DEF Inv, TypeOK

(* The start of a Read or Write: IoStart preserves Inv. *)
LEMMA IoStartInv ==
  ASSUME Inv, NEW i \in Ios, IoStart(i)
  PROVE  Inv'
<1>1. PassingKept /\ TrackedKept /\ RegisteredKept
  BY KeptFrame DEF IoStart, connVars
<1>2. SameClosing
  BY DEF SameClosing, Closing, TypeWorkers, Workers, Inv, TypeOK, IoStart, Goto
<1>3. TypeMaps' /\ TypeLocks' /\ TypeConns' /\ TypeRestore' /\ ConfigHeld' /\
    ListsAllocated' /\ StatesAllocated' /\ RegistrationOK' /\ ListMembers' /\ Listed'
    /\ NoOrphanPassing' /\ Unlinked' /\ TripClosesAll'
  BY <1>1, <1>2, Frames, LinkFrames DEF Inv, TypeOK, IoStart, mapVars, lockVars, connVars,
      tripVars, restVars, histVars
<1>4. TypeWorkers'
  BY DEF TypeWorkers, WorkerPcs, LockedAdmin, Removing, Workers, Inv, TypeOK, IoStart, Goto,
      tripVars
<1>5. PcsOK'
  BY SMTT(30), ProcsAssumption DEF PcsOK, Inv, IoStart, Goto, tripVars
<1>6. LocksOK'
  BY ProcsAssumption DEF TypeWorkers, LocksOK, LockedAdmin, Removing, Restoring, Registering,
      Workers, Inv, TypeOK, IoStart, Goto, lockVars, connVars, restVars
<1>7. ActiveConnsBounded'
  BY SMTT(30) DEF ActiveConnsBounded, Registering, Restoring, Inv, IoStart, Goto, mapVars
<1> QED
  BY <1>3, <1>4, <1>5, <1>6, <1>7 DEF Inv, TypeOK

(* The end of a Read or Write: IoDone preserves Inv. *)
LEMMA IoDoneInv ==
  ASSUME Inv, NEW i \in Ios, IoDone(i)
  PROVE  Inv'
<1>1. PassingKept /\ TrackedKept /\ RegisteredKept
  BY KeptFrame DEF IoDone, connVars
<1>2. SameClosing
  BY DEF SameClosing, Closing, TypeWorkers, Workers, Inv, TypeOK, IoDone, Goto
<1>3. TypeMaps' /\ TypeLocks' /\ TypeConns' /\ TypeRestore' /\ ConfigHeld' /\
    ListsAllocated' /\ StatesAllocated' /\ RegistrationOK' /\ ListMembers' /\ Listed'
    /\ NoOrphanPassing' /\ Unlinked' /\ TripClosesAll'
  BY <1>1, <1>2, Frames, LinkFrames DEF Inv, TypeOK, IoDone, mapVars, lockVars, connVars,
      tripVars, restVars, histVars
<1>4. TypeWorkers'
  BY DEF TypeWorkers, WorkerPcs, LockedAdmin, Removing, Workers, Inv, TypeOK, IoDone, Goto,
      tripVars
<1>5. PcsOK'
  BY DEF TypeWorkers, PcsOK, LockedAdmin, Removing, Workers, Inv, TypeOK, IoDone, Goto, tripVars
<1>6. LocksOK'
  BY DEF TypeLocks, TypeWorkers, PcsOK, LocksOK, LockedAdmin, Removing, Restoring, Registering,
      Workers, Inv, TypeOK, IoDone, Goto, mapVars, lockVars, connVars, restVars
<1>7. ActiveConnsBounded'
  BY DEF TypeWorkers, ActiveConnsBounded, Registering, Restoring, Workers, Inv, TypeOK, IoDone,
      Goto, mapVars
<1> QED
  BY <1>3, <1>4, <1>5, <1>6, <1>7 DEF Inv, TypeOK

(* AddBytes's stateFor: AddBytesState preserves Inv. *)
LEMMA AddBytesStateInv ==
  ASSUME Inv, NEW i \in Ios, AddBytesState(i)
  PROVE  Inv'
<1>0. PICK s \in Ids : StateFor(s) /\ wstate' = [wstate EXCEPT ![i] = s]
  BY DEF AddBytesState
<1>1. PassingKept /\ TrackedKept /\ RegisteredKept
  BY KeptFrame DEF AddBytesState, connVars
<1>2. SameClosing
  BY DEF SameClosing, Closing, TypeWorkers, Workers, Inv, TypeOK, AddBytesState, Goto, StateFor
<1>3. TypeLocks' /\ TypeConns' /\ TypeRestore' /\ ConfigHeld' /\ ListsAllocated' /\
    ListMembers' /\ Listed' /\ NoOrphanPassing' /\ Unlinked'
  BY <1>1, <1>2, Frames, LinkFrames DEF Inv, TypeOK, AddBytesState, StateFor, lockVars, connVars,
      tripVars, restVars, histVars
<1>4. TypeMaps'
  BY <1>0, StateForMaps DEF TypeMaps, Inv, TypeOK, AddBytesState, Goto, StateFor, histVars
<1>5. TypeWorkers'
  BY SMTT(30) DEF TypeWorkers, WorkerPcs, LockedAdmin, Removing, Ptr, Workers, Inv, TypeOK,
      AddBytesState, Goto, StateFor, tripVars
<1>5a. /\ pc'[Admin] = pc[Admin] /\ pc'[Flusher] = pc[Flusher]
       /\ pc'[i] = "count" /\ \A j \in Ios \ {i} : pc'[j] = pc[j]
  BY ProcsAssumption DEF TypeWorkers, Workers, Inv, TypeOK, AddBytesState, Goto
<1>6. PcsOK'
  BY <1>5a DEF PcsOK, Inv, AddBytesState, tripVars
<1>7. LocksOK'
  BY <1>5a DEF LocksOK, Inv, AddBytesState, lockVars, connVars, restVars
<1>8. StatesAllocated'
  BY <1>0, StateForAllocated DEF TypeWorkers, Inv, TypeOK, AddBytesState, Goto, StateFor, restVars
<1>9. RegistrationOK'
  BY DEF RegistrationOK, Removing, Inv, AddBytesState, Goto, StateFor, connVars, histVars
<1>10. TripClosesAll'
  BY <1>0, <1>1, StateForTrip DEF TypeWorkers, Inv, TypeOK, AddBytesState, Goto, StateFor,
      tripVars, histVars
<1>11. ActiveConnsBounded'
  BY <1>5a DEF ActiveConnsBounded, Inv, AddBytesState
<1> QED
  BY <1>3, <1>4, <1>5, <1>6, <1>7, <1>8, <1>9, <1>10, <1>11 DEF Inv, TypeOK, StateFor

(* AddBytesCount preserves Inv (AddBytes's trip: whoever raises the flag *)
(* will mark). *)
LEMMA AddBytesCountInv ==
  ASSUME Inv, NEW i \in Ios, AddBytesCount(i)
  PROVE  Inv'
<1>0. Decide(i) /\ trip[i] = "none" /\ i \in Workers
  BY DEF Decide, Workers, AddBytesCount, Goto, TripExceeded, Forget, histVars
<1>1. PassingKept /\ TrackedKept /\ RegisteredKept
  BY KeptFrame DEF AddBytesCount, connVars
<1>2. SameClosing
  BY DEF SameClosing, Closing, TypeWorkers, Workers, Inv, TypeOK, AddBytesCount, Goto,
      TripExceeded, Forget
<1>3. TypeLocks' /\ TypeConns' /\ TypeRestore' /\ ConfigHeld' /\ ListsAllocated' /\
    RegistrationOK' /\ ListMembers' /\ Listed' /\ NoOrphanPassing' /\ Unlinked'
  BY <1>1, <1>2, Frames, LinkFrames DEF Inv, TypeOK, AddBytesCount, TripExceeded, Forget, mapVars,
      lockVars, connVars, restVars, histVars
<1>4. TypeMaps'
  BY <1>0, DecideAllocated DEF TypeMaps, Inv, TypeOK, AddBytesCount, Goto, TripExceeded, Forget,
      mapVars, histVars
<1>5. TypeWorkers'
  BY DEF TypeWorkers, WorkerPcs, LockedAdmin, Removing, Ptr, Workers, Inv, TypeOK, AddBytesCount,
      Goto, TripExceeded, Forget
<1>6. PcsOK'
  BY DEF TypeWorkers, PcsOK, Workers, Inv, TypeOK, AddBytesCount, Goto, TripExceeded, Forget
<1>7. LocksOK'
  BY SMTT(30) DEF PcsOK, LocksOK, LockedAdmin, Removing, Restoring, Registering, Inv, AddBytesCount,
      Goto, TripExceeded, Forget, lockVars, connVars, restVars
<1>8. StatesAllocated'
  BY <1>0, DecideAllocated DEF Inv, TypeOK, AddBytesCount, TripExceeded, Forget, mapVars, restVars
<1>9. TripClosesAll'
  BY <1>0, DecideTrip DEF Inv, TypeOK, AddBytesCount, TripExceeded, Forget, mapVars, connVars,
      histVars
<1>10. ActiveConnsBounded'
  BY SMTT(30) DEF ActiveConnsBounded, Registering, Restoring, Inv, AddBytesCount, Goto,
      TripExceeded, Forget, mapVars
<1> QED
  BY <1>3, <1>4, <1>5, <1>6, <1>7, <1>8, <1>9, <1>10 DEF Inv, TypeOK, TripExceeded, Forget

-----------------------------------------------------------------------------
(* TripExceeded's activeConns.Load: TripList preserves Inv. *)
LEMMA TripListInv ==
  ASSUME Inv, NEW w \in Workers, TripList(w)
  PROVE  Inv'
<1>1. PassingKept /\ TrackedKept /\ RegisteredKept
  BY KeptFrame DEF TripList, connVars
<1>2. SameClosing
  BY DEF SameClosing, TripList
<1>3. TypeMaps' /\ TypeLocks' /\ TypeConns' /\ TypeRestore' /\ LocksOK' /\ ConfigHeld'
    /\ RegistrationOK' /\ ListMembers' /\ Listed' /\ ActiveConnsBounded'
  BY <1>1, <1>2, Frames, LinkFrames DEF Inv, TypeOK, TripList, mapVars, lockVars, connVars,
      restVars, histVars
<1>4. TypeWorkers'
  <2>1. activeConns \in Ptr
    BY SMTT(30), BoundsAssumption DEF TypeMaps, Nil, Ids, Ptr, Inv, TypeOK, TripList, Forget
  <2>2. pc[Admin] # "removeClear" \/ w # Admin
    BY DEF PcsOK, Inv, TripList
  <2> QED
    BY SMTT(30), <2>1, <2>2 DEF TypeWorkers, Workers, Inv, TypeOK, TripList, Forget
<1>5. PcsOK'
  BY DEF TypeWorkers, PcsOK, Workers, Inv, TypeOK, TripList, Forget
<1>6. ListsAllocated'
  <2>1. activeConns <= nLists
    BY SMTT(30) DEF TypeMaps, Inv, TypeOK, Forget
  <2> QED
    BY <2>1 DEF TypeWorkers, ListsAllocated, Inv, TypeOK, TripList, Forget, mapVars, connVars,
        restVars
<1>7. StatesAllocated'
  <2>1. ASSUME NEW v \in Workers  PROVE wstate'[v] <= nStates'
    <3>1. wstate'[v] = wstate[v] \/ wstate'[v] = 0
      BY DEF TypeWorkers, Nil, Inv, TypeOK, TripList, Forget
    <3> QED
      BY SMTT(30), <3>1 DEF TypeMaps, StatesAllocated, Inv, TypeOK, TripList, Forget, mapVars
  <2>2. ASSUME NEW s \in Ids, exceeded'[s]  PROVE s <= nStates'
    <3>1. exceeded[s] \/ \E v \in Workers : s = wstate[v]
      BY <2>2 DEF TripList
    <3> QED
      BY <3>1 DEF StatesAllocated, Inv, TripList, mapVars
  <2> QED
    BY <2>1, <2>2 DEF StatesAllocated, Inv, TripList, mapVars, restVars
<1>8. NoOrphanPassing'
  <2>1. pc[Admin] \in {"removeState", "removeClear"} => wlist'[Admin] = wlist[Admin]
    BY DEF PcsOK, TypeWorkers, Workers, Inv, TypeOK, TripList, Forget
  <2> QED
    BY <2>1 DEF NoOrphanPassing, Passing, BeingRemoved, Inv, TripList, Forget, mapVars, connVars,
        histVars
<1>9. Unlinked'
  <2>1. pc[Admin] \in {"removeState", "removeClear"} => wlist'[Admin] = wlist[Admin]
    BY DEF PcsOK, TypeWorkers, Workers, Inv, TypeOK, TripList, Forget
  <2> QED
    BY <2>1 DEF Unlinked, Inv, TripList, mapVars, connVars
<1>10. TripClosesAll'
  <2> SUFFICES ASSUME NEW d \in Conns, Exposed(d)'
               PROVE  \E v \in Workers : BeingTripped(v, d)'
    BY DEF TripClosesAll
  <2>1. Exposed(d)
    BY DEF Exposed, Tracked, TripList, mapVars, connVars, histVars
  <2>2. PICK v \in Workers : BeingTripped(v, d)
    BY <2>1 DEF TripClosesAll, Inv
  <2>3. activeConns # Nil /\ clist[d] = activeConns
    BY <2>1 DEF Exposed, Tracked, TypeConns, Inv, TypeOK, TripList, Forget
  <2>4. BeingTripped(v, d)'
    BY <2>2, <2>3 DEF BeingTripped, TypeWorkers, Inv, TypeOK, TripList, Forget, mapVars, connVars
  <2> QED
    BY <2>4
<1> QED
  BY <1>3, <1>4, <1>5, <1>6, <1>7, <1>8, <1>9, <1>10 DEF Inv, TypeOK

(* TripCopy preserves Inv (closeAll's copy of the list: it has every *)
(* passing connection). *)
LEMMA TripCopyInv ==
  ASSUME Inv, NEW w \in Workers, TripCopy(w)
  PROVE  Inv'
<1>1. TypeMaps' /\ TypeLocks' /\ TypeConns' /\ TypeRestore' /\ LocksOK' /\ ConfigHeld'
    /\ StatesAllocated' /\ RegistrationOK' /\ ListMembers' /\ ActiveConnsBounded'
  BY Frames DEF Inv, TypeOK, TripCopy, mapVars, lockVars, connVars, workVars, restVars, histVars
<1>2. TypeWorkers'
  BY DEF TypeMaps, TypeWorkers, PcsOK, LockedAdmin, Removing, Ptr, Workers, Inv, TypeOK, TripCopy,
      workVars
<1>3. PcsOK'
  BY DEF TypeWorkers, PcsOK, Workers, Inv, TypeOK, TripCopy, workVars
<1>4. ListsAllocated'
  BY SMTT(30) DEF TypeMaps, ListsAllocated, Nil, Inv, TypeOK, TripCopy, mapVars, connVars, restVars
<1>5. Listed'
  <2> SUFFICES ASSUME NEW d \in Conns, Passing(d)'
               PROVE  (d \in conns[clist[d]] \/ (pc[Admin] = "removeMark" /\ d \in
                   todo[Admin]))'
    BY DEF Listed
  <2>1. Passing(d)
    BY DEF Passing, TripCopy, connVars
  <2>2. pc[Admin] = "removeMark" => w # Admin
    BY DEF PcsOK, Inv, TripCopy
  <2> QED
    BY <2>1, <2>2 DEF Listed, TypeWorkers, Workers, Inv, TypeOK, TripCopy, connVars, workVars
<1>6. NoOrphanPassing'
  <2> SUFFICES ASSUME NEW d \in Conns, Passing(d)'
               PROVE  (clist[d] = activeConns \/ clist[d] \in displaced \/
                   BeingRemoved(d))'
    BY DEF NoOrphanPassing
  <2>1. Passing(d)
    BY DEF Passing, TripCopy, connVars
  <2>2. pc[Admin] \in {"removeState", "removeClear", "removeMark"} => w # Admin
    BY DEF PcsOK, Inv, TripCopy
  <2>3. BeingRemoved(d) => BeingRemoved(d)'
    BY <2>2 DEF BeingRemoved, TypeWorkers, Workers, Inv, TypeOK, TripCopy, connVars, workVars
  <2> QED
    BY <2>1, <2>3 DEF NoOrphanPassing, Inv, TripCopy, mapVars, connVars, histVars
<1>7. Unlinked'
  <2>1. pc[Admin] \in {"removeState", "removeClear", "removeMark"} => w # Admin
    BY DEF PcsOK, Inv, TripCopy
  <2> QED
    BY <2>1 DEF Unlinked, TypeWorkers, Workers, Inv, TypeOK, TripCopy, mapVars, connVars, workVars
<1>8. TripClosesAll'
  <2> SUFFICES ASSUME NEW d \in Conns, Exposed(d)'
               PROVE  \E v \in Workers : BeingTripped(v, d)'
    BY DEF TripClosesAll
  <2>1. Exposed(d) /\ Passing(d)
    BY DEF Exposed, Tracked, Passing, Registered, TripCopy, mapVars, connVars, histVars
  <2>2. PICK v \in Workers : BeingTripped(v, d)
    BY <2>1 DEF TripClosesAll, Inv
  <2>3. d \in conns[clist[d]]
    BY <2>1 DEF Listed, Unlinked, Exposed, Tracked, Registered, Inv, TripCopy
  <2>4. CASE v = w
    <3>1. wlist[w] = clist[d] /\ wstate[w] = states
      BY <2>2, <2>4 DEF BeingTripped, TripCopy
    <3> QED
      BY <2>3, <2>4, <3>1 DEF BeingTripped, TypeWorkers, Inv, TypeOK, TripCopy, mapVars, workVars
  <2>5. CASE v # w
    BY <2>2, <2>5 DEF BeingTripped, TypeWorkers, Inv, TypeOK, TripCopy, mapVars, connVars,
        workVars
  <2> QED
    BY <2>4, <2>5
<1> QED
  BY <1>1, <1>2, <1>3, <1>4, <1>5, <1>6, <1>7, <1>8 DEF Inv, TypeOK

(* CloseAll's marking: TripMark preserves Inv. *)
LEMMA TripMarkInv ==
  ASSUME Inv, NEW w \in Workers, TripMark(w)
  PROVE  Inv'
<1>1. TypeMaps' /\ TypeLocks' /\ TypeRestore' /\ LocksOK' /\ ConfigHeld' /\
    ListsAllocated' /\ RegistrationOK' /\ ListMembers' /\ ActiveConnsBounded'
  BY Frames DEF Inv, TypeOK, TripMark, mapVars, lockVars, connVars, restVars, histVars
<1>2. TypeConns'
  BY DEF TypeConns, Inv, TypeOK, TripMark, Forget, connVars
<1>3. TypeWorkers'
  <2>1. todo' \in [Workers -> SUBSET Conns]
    BY DEF TypeWorkers, Inv, TypeOK, TripMark, Forget
  <2>2. /\ wstate' \in [Workers -> Ptr]
        /\ trip' \in [Workers -> {"none", "list", "copy", "mark"}]
        /\ \A v \in Workers : trip'[v] = "copy" => wlist[v] # Nil
    BY DEF TypeWorkers, Ptr, Inv, TypeOK, TripMark, Forget
  <2> QED
    BY <2>1, <2>2 DEF TypeWorkers, Inv, TypeOK, TripMark, Forget
<1>4. PcsOK'
  BY DEF TypeWorkers, PcsOK, Workers, Inv, TypeOK, TripMark, Forget
<1>5. StatesAllocated'
  BY SMTT(30) DEF TypeMaps, TypeWorkers, StatesAllocated, Nil, Inv, TypeOK, TripMark, Forget,
      mapVars, restVars
<1>6. Listed'
  <2> SUFFICES ASSUME NEW d \in Conns, Passing(d)'
               PROVE  (d \in conns[clist[d]] \/ (pc[Admin] = "removeMark" /\ d \in
                   todo[Admin]))'
    BY DEF Listed
  <2>1. Passing(d) /\ ~closed'[d]
    BY DEF Passing, TypeConns, Inv, TypeOK, TripMark, Forget, connVars
  <2>2. CASE d \in conns[clist[d]]
    BY <2>2 DEF TripMark, connVars
  <2>3. CASE pc[Admin] = "removeMark" /\ d \in todo[Admin]
    <3>1. pc'[Admin] = "removeMark" /\ d \in todo'[Admin]
      BY <2>1, <2>3 DEF TypeWorkers, PcsOK, Workers, Inv, TypeOK, TripMark, Forget
    <3> QED
      BY <3>1
  <2> QED
    BY <2>1, <2>2, <2>3 DEF Listed, Inv
<1>7. NoOrphanPassing'
  <2> SUFFICES ASSUME NEW d \in Conns, Passing(d)'
               PROVE  (clist[d] = activeConns \/ clist[d] \in displaced \/
                   BeingRemoved(d))'
    BY DEF NoOrphanPassing
  <2>1. Passing(d) /\ ~closed'[d]
    BY DEF Passing, TypeConns, Inv, TypeOK, TripMark, Forget, connVars
  <2>2. CASE pc[Admin] = "removeMark" /\ d \in todo[Admin]
    <3>1. pc'[Admin] = "removeMark" /\ d \in todo'[Admin]
      BY <2>1, <2>2 DEF TypeWorkers, PcsOK, Workers, Inv, TypeOK, TripMark, Forget
    <3> QED
      BY <3>1 DEF BeingRemoved
  <2>3. CASE pc[Admin] \in {"removeState", "removeClear"} /\ BeingRemoved(d)
    BY <2>3 DEF BeingRemoved, TripMark, connVars
  <2> QED
    BY <2>1, <2>2, <2>3 DEF NoOrphanPassing, BeingRemoved, Inv, TripMark, Forget, mapVars,
        connVars, histVars
<1>8. Unlinked'
  BY SMTT(30) DEF TypeWorkers, ListsAllocated, ListMembers, Unlinked, Registered, PcsOK, Workers,
      Inv, TypeOK, TripMark, Forget, mapVars, connVars
<1>9. TripClosesAll'
  <2> SUFFICES ASSUME NEW d \in Conns, Exposed(d)'
               PROVE  \E v \in Workers : BeingTripped(v, d)'
    BY DEF TripClosesAll
  <2>1. Exposed(d) /\ ~closed'[d]
    BY DEF Exposed, Tracked, TypeConns, Inv, TypeOK, TripMark, Forget, mapVars, connVars, histVars
  <2>2. PICK v \in Workers : BeingTripped(v, d)
    BY <2>1 DEF TripClosesAll, Inv
  <2>3. CASE v # w
    BY <2>2, <2>3 DEF BeingTripped, TypeWorkers, Inv, TypeOK, TripMark, Forget, mapVars, connVars
  <2>4. CASE v = w
    <3>1. trip[w] = "mark" /\ d \in todo[w] /\ wstate[w] = states
      BY <2>2, <2>4 DEF BeingTripped, TripMark
    <3>2. PICK e \in todo[w] : /\ closed' = [closed EXCEPT ![e] = TRUE]
                               /\ todo' = [todo EXCEPT ![w] = @ \ {e}]
                               /\ UNCHANGED <<trip, wstate>>
      BY <3>1 DEF TripMark
    <3>3. e \in Conns /\ d # e
      BY <2>1, <3>2 DEF TypeConns, TypeWorkers, Inv, TypeOK, TripMark, Forget
    <3>4. d \in todo'[w]
      BY SMTT(30), <3>1, <3>2, <3>3
    <3> QED
      BY <2>4, <3>1, <3>2, <3>4 DEF BeingTripped, TripMark, mapVars
  <2> QED
    BY <2>3, <2>4
<1> QED
  BY <1>1, <1>2, <1>3, <1>4, <1>5, <1>6, <1>7, <1>8, <1>9 DEF Inv, TypeOK

(* LoadUsage's stateFor: LoadUsageState preserves Inv. *)
LEMMA LoadUsageStateInv ==
  ASSUME Inv, NEW w \in {Admin, Flusher}, LoadUsageState(w)
  PROVE  Inv'
<1>1. PassingKept /\ TrackedKept /\ RegisteredKept
  BY KeptFrame DEF LoadUsageState, connVars
<1>2. SameClosing
  BY DEF SameClosing, Closing, TypeWorkers, Workers, Inv, TypeOK, LoadUsageState, Goto, StateFor
<1>3. TypeLocks' /\ TypeConns' /\ TypeRestore' /\ ConfigHeld' /\ ListsAllocated' /\
    ListMembers' /\ Listed' /\ NoOrphanPassing' /\ Unlinked'
  BY <1>1, <1>2, Frames, LinkFrames DEF Inv, TypeOK, LoadUsageState, StateFor, lockVars, connVars,
      tripVars, restVars, histVars
<1>4. TypeMaps'
  <2>1. CASE UNCHANGED <<states, nStates, wstate>>
    BY <1>1, <2>1, Frames DEF Inv, TypeOK, LoadUsageState, StateFor, histVars
  <2>2. ASSUME NEW s \in Ids, StateFor(s), wstate' = [wstate EXCEPT ![w] = s]
        PROVE  TypeMaps'
    BY <2>2, StateForMaps DEF TypeMaps, Inv, TypeOK, LoadUsageState, Goto, StateFor, histVars
  <2> QED
    BY <2>1, <2>2 DEF LoadUsageState
<1>5. TypeWorkers'
  <2>1. wstate' \in [Workers -> Ptr]
    BY DEF TypeWorkers, Ptr, Inv, TypeOK, LoadUsageState, Goto, StateFor
  <2>2. pc' \in [Workers -> WorkerPcs] /\ (pc'[Admin] = "removeClear" => pc[Admin] =
      "removeClear")
    BY DEF TypeWorkers, WorkerPcs, Workers, Inv, TypeOK, LoadUsageState, Goto, StateFor
  <2> QED
    BY <2>1, <2>2 DEF TypeWorkers, Inv, TypeOK, LoadUsageState, Goto, StateFor, tripVars
<1>6. PcsOK'
  BY DEF TypeWorkers, PcsOK, LockedAdmin, Workers, Inv, TypeOK, LoadUsageState, Goto, StateFor,
      tripVars
<1>7. LocksOK'
  BY SMTT(30) DEF TypeWorkers, LocksOK, LockedAdmin, Removing, Restoring, Registering, Workers, Inv,
      TypeOK, LoadUsageState, Goto, StateFor, lockVars, connVars, restVars
<1>8. StatesAllocated'
  <2>1. CASE UNCHANGED <<states, nStates, wstate>>
    BY <1>1, <2>1, Frames DEF Inv, LoadUsageState, restVars
  <2>2. ASSUME NEW s \in Ids, StateFor(s), wstate' = [wstate EXCEPT ![w] = s]
        PROVE  StatesAllocated'
    BY <2>2, StateForAllocated DEF TypeWorkers, Inv, TypeOK, LoadUsageState, Goto, StateFor,
        restVars
  <2> QED
    BY <2>1, <2>2 DEF LoadUsageState
<1>9. RegistrationOK'
  BY DEF RegistrationOK, Registering, LockedAdmin, Removing, Inv, LoadUsageState, Goto, StateFor,
      connVars, histVars
<1>10. TripClosesAll'
  <2>1. CASE UNCHANGED <<states, nStates, wstate>>
    BY <1>1, <2>1, LinkFrames DEF Inv, LoadUsageState, tripVars, histVars
  <2>2. ASSUME NEW s \in Ids, StateFor(s), wstate' = [wstate EXCEPT ![w] = s]
        PROVE  TripClosesAll'
    BY <2>2, <1>1, StateForTrip DEF TypeWorkers, Inv, TypeOK, LoadUsageState, Goto, StateFor,
        tripVars, histVars
  <2> QED
    BY <2>1, <2>2 DEF LoadUsageState
<1>11. ActiveConnsBounded'
  BY DEF TypeWorkers, ActiveConnsBounded, Registering, Restoring, Workers, Inv, TypeOK,
      LoadUsageState, Goto, StateFor
<1> QED
  BY <1>3, <1>4, <1>5, <1>6, <1>7, <1>8, <1>9, <1>10, <1>11 DEF Inv, TypeOK, StateFor

(* LoadUsage's trip or clear: LoadUsageDecide preserves Inv. *)
LEMMA LoadUsageDecideInv ==
  ASSUME Inv, NEW w \in {Admin, Flusher}, LoadUsageDecide(w)
  PROVE  Inv'
<1>0. Decide(w) /\ trip[w] = "none" /\ w \in Workers
  BY DEF Decide, Workers, LoadUsageDecide, Goto, TripOrClear, TripExceeded, ClearExceeded, Forget
<1>1. PassingKept /\ TrackedKept /\ RegisteredKept
  BY KeptFrame DEF LoadUsageDecide, Forget, connVars
<1>2. SameClosing
  BY DEF SameClosing, Closing, TypeWorkers, Workers, Inv, TypeOK, LoadUsageDecide, Goto,
      TripOrClear, TripExceeded, ClearExceeded, Forget
<1>3. TypeLocks' /\ TypeConns' /\ TypeRestore' /\ ConfigHeld' /\ ListsAllocated' /\
    RegistrationOK' /\ ListMembers' /\ Listed' /\ NoOrphanPassing' /\ Unlinked'
  BY <1>1, <1>2, Frames, LinkFrames DEF Inv, TypeOK, LoadUsageDecide, TripOrClear, TripExceeded,
      ClearExceeded, Forget, mapVars, lockVars, connVars, restVars
<1>4. TypeMaps'
  BY <1>0, DecideAllocated DEF TypeMaps, Inv, TypeOK, LoadUsageDecide, Goto, TripOrClear,
      TripExceeded, ClearExceeded, Forget, mapVars
<1>5. TypeWorkers'
  BY SMTT(30) DEF TypeWorkers, WorkerPcs, LockedAdmin, Removing, Ptr, Workers, Inv, TypeOK,
      LoadUsageDecide, Goto, TripOrClear, TripExceeded, ClearExceeded, Forget
<1>6. PcsOK'
  BY DEF TypeWorkers, PcsOK, LockedAdmin, Workers, Inv, TypeOK, LoadUsageDecide, Goto,
      TripOrClear, TripExceeded, ClearExceeded, Forget
<1>7. LocksOK'
  BY DEF TypeWorkers, LocksOK, LockedAdmin, Removing, Restoring, Registering, Workers, Inv,
      TypeOK, LoadUsageDecide, Goto, TripOrClear, TripExceeded, ClearExceeded, Forget, lockVars,
      connVars, restVars
<1>8. StatesAllocated'
  BY <1>0, DecideAllocated DEF Inv, TypeOK, LoadUsageDecide, TripOrClear, TripExceeded,
      ClearExceeded, Forget, mapVars, restVars
<1>9. TripClosesAll'
  BY <1>0, DecideTrip DEF Inv, TypeOK, LoadUsageDecide, TripOrClear, TripExceeded, ClearExceeded,
      Forget, mapVars, connVars
<1>10. ActiveConnsBounded'
  BY DEF TypeWorkers, ActiveConnsBounded, Registering, Restoring, Workers, Inv, TypeOK,
      LoadUsageDecide, Goto, TripOrClear, TripExceeded, ClearExceeded, Forget, mapVars
<1> QED
  BY <1>3, <1>4, <1>5, <1>6, <1>7, <1>8, <1>9, <1>10 DEF Inv, TypeOK, TripOrClear, TripExceeded,
      ClearExceeded, Forget

(* The release of persistAccess: PersistUnlock preserves Inv. *)
LEMMA PersistUnlockInv ==
  ASSUME Inv, NEW w \in {Admin, Flusher}, PersistUnlock(w)
  PROVE  Inv'
<1>1. PassingKept /\ TrackedKept /\ RegisteredKept
  BY KeptFrame DEF PersistUnlock, connVars
<1>2. SameClosing
  BY DEF SameClosing, Closing, TypeWorkers, Workers, Inv, TypeOK, PersistUnlock, Goto
<1>3. TypeMaps' /\ TypeConns' /\ TypeRestore' /\ ConfigHeld' /\ ListsAllocated' /\
    StatesAllocated' /\ RegistrationOK' /\ ListMembers' /\ Listed' /\ NoOrphanPassing'
    /\ Unlinked' /\ TripClosesAll'
  BY <1>1, <1>2, Frames, LinkFrames DEF Inv, TypeOK, PersistUnlock, mapVars, connVars, tripVars,
      restVars, histVars
<1>4. TypeLocks'
  BY DEF TypeLocks, Inv, TypeOK, PersistUnlock, Goto
<1>5. TypeWorkers'
  BY DEF TypeWorkers, WorkerPcs, LockedAdmin, Removing, Workers, Inv, TypeOK, PersistUnlock, Goto,
      tripVars
<1>6. PcsOK'
  BY DEF TypeWorkers, PcsOK, Workers, Inv, TypeOK, PersistUnlock, Goto, tripVars
<1>7. LocksOK'
  BY ProcsAssumption DEF TypeWorkers, LocksOK, LockedAdmin, Removing, Restoring, Registering,
      Workers, Inv, TypeOK, PersistUnlock, Goto, connVars, restVars
<1>8. ActiveConnsBounded'
  <2>1. UNCHANGED <<activeConns, config, rpc>>
    BY DEF PersistUnlock, mapVars, restVars
  <2>2. pc[Admin] = "removeConns" => pc'[Admin] = pc[Admin]
    BY DEF TypeWorkers, Workers, Inv, TypeOK, PersistUnlock, Goto
  <2> QED BY <2>1, <2>2 DEF ActiveConnsBounded, Inv
<1> QED
  BY <1>3, <1>4, <1>5, <1>6, <1>7, <1>8 DEF Inv, TypeOK

(* FlushPending's locking of persistAccess: FlushLock preserves Inv. *)
LEMMA FlushLockInv ==
  ASSUME Inv, FlushLock
  PROVE  Inv'
<1>1. PassingKept /\ TrackedKept /\ RegisteredKept
  BY KeptFrame DEF FlushLock, connVars
<1>2. SameClosing
  BY DEF SameClosing, Closing, TypeWorkers, Workers, Inv, TypeOK, FlushLock, Goto
<1>3. TypeMaps' /\ TypeConns' /\ TypeRestore' /\ ConfigHeld' /\ ListsAllocated' /\
    StatesAllocated' /\ RegistrationOK' /\ ListMembers' /\ Listed' /\ NoOrphanPassing'
    /\ Unlinked' /\ TripClosesAll'
  BY <1>1, <1>2, Frames, LinkFrames DEF Inv, TypeOK, FlushLock, mapVars, connVars, tripVars,
      restVars, histVars
<1>4. TypeLocks'
  BY DEF TypeLocks, Inv, TypeOK, FlushLock, Goto
<1>5. TypeWorkers'
  BY DEF TypeWorkers, WorkerPcs, LockedAdmin, Removing, Workers, Inv, TypeOK, FlushLock, Goto,
      tripVars
<1>6. PcsOK'
  BY ProcsAssumption DEF TypeWorkers, PcsOK, Workers, Inv, TypeOK, FlushLock, Goto, tripVars
<1>7. LocksOK'
  BY ProcsAssumption DEF TypeWorkers, LocksOK, LockedAdmin, Removing, Restoring, Registering,
      Workers, Inv, TypeOK, FlushLock, Goto, connVars, restVars
<1>8. ActiveConnsBounded'
  <2>1. UNCHANGED <<activeConns, config>>
    BY DEF FlushLock, mapVars
  <2>2. pc'[Admin] = pc[Admin]
    BY ProcsAssumption DEF TypeWorkers, Workers, Inv, TypeOK, FlushLock, Goto
  <2> QED BY <2>1, <2>2 DEF ActiveConnsBounded, Inv
<1> QED
  BY <1>3, <1>4, <1>5, <1>6, <1>7, <1>8 DEF Inv, TypeOK

(* ApplyConfig's storeConfig: ApplyConfig preserves Inv. *)
LEMMA ApplyConfigInv ==
  ASSUME Inv, ApplyConfig
  PROVE  Inv'
<1>1. PassingKept /\ TrackedKept /\ RegisteredKept
  BY KeptFrame DEF ApplyConfig, connVars
<1>2. SameClosing
  BY DEF SameClosing, Closing, TypeWorkers, Inv, TypeOK, ApplyConfig, Goto
<1>3. TypeLocks' /\ TypeConns' /\ ListsAllocated' /\ StatesAllocated' /\
    RegistrationOK' /\ ListMembers' /\ Listed' /\ NoOrphanPassing' /\ Unlinked' /\
    TripClosesAll'
  BY <1>1, <1>2, Frames, LinkFrames DEF Inv, TypeOK, ApplyConfig, lockVars, connVars, tripVars,
      restVars, histVars
<1>4. TypeMaps'
  BY DEF TypeMaps, Inv, TypeOK, ApplyConfig, Goto, histVars
<1>5. /\ pc' = [pc EXCEPT ![Admin] = "apply"] /\ pc[Admin] = "idle"
      /\ pc'[Admin] = "apply" /\ \A w \in Workers \ {Admin} : pc'[w] = pc[w]
      /\ trip[Admin] = "none"
  BY DEF TypeWorkers, Workers, Inv, TypeOK, ApplyConfig, Goto
<1>6. TypeWorkers'
  BY <1>5 DEF TypeWorkers, WorkerPcs, Inv, TypeOK, ApplyConfig, tripVars
<1>7. TypeRestore'
  <2>1. ops' \in 0..MaxOps
    BY SMTT(30), BoundsAssumption DEF TypeRestore, Inv, TypeOK, ApplyConfig
  <2> QED BY <2>1 DEF TypeRestore, Inv, TypeOK, ApplyConfig, restVars
<1>8. PcsOK' /\ LocksOK'
  <2>1. pc'[Flusher] = pc[Flusher] /\ \A i \in Ios : pc'[i] = pc[i]
    BY <1>5, ProcsAssumption DEF Workers
  <2>2. pc'[Admin] \notin LockedAdmin /\ pc[Admin] \notin LockedAdmin
    BY <1>5 DEF LockedAdmin, Removing
  <2>3. PcsOK'
    BY <1>5, <2>1 DEF PcsOK, Inv, ApplyConfig, tripVars
  <2>4. LocksOK'
    BY <1>5, <2>1, <2>2 DEF LocksOK, Inv, ApplyConfig, lockVars, connVars, restVars
  <2> QED BY <2>3, <2>4
<1>9. ConfigHeld'
  BY DEF ConfigHeld, ApplyConfig, Goto
<1>10. ActiveConnsBounded'
  BY DEF ActiveConnsBounded, ApplyConfig, Goto
<1> QED
  BY <1>3, <1>4, <1>5, <1>6, <1>7, <1>8, <1>9, <1>10 DEF Inv, TypeOK

(* ApplyConfig's stateFor: ApplyConfigState preserves Inv. *)
LEMMA ApplyConfigStateInv ==
  ASSUME Inv, ApplyConfigState
  PROVE  Inv'
<1>0. PICK s \in Ids : StateFor(s) /\ wstate' = [wstate EXCEPT ![Admin] = s]
  BY DEF ApplyConfigState
<1>1. PassingKept /\ TrackedKept /\ RegisteredKept
  BY KeptFrame DEF ApplyConfigState, connVars
<1>2. SameClosing
  BY DEF SameClosing, Closing, TypeWorkers, Inv, TypeOK, ApplyConfigState, Goto, StateFor
<1>3. TypeLocks' /\ TypeConns' /\ TypeRestore' /\ ConfigHeld' /\ ListsAllocated' /\
    ListMembers' /\ Listed' /\ NoOrphanPassing' /\ Unlinked'
  BY <1>1, <1>2, Frames, LinkFrames DEF Inv, TypeOK, ApplyConfigState, StateFor, lockVars,
      connVars, tripVars, restVars, histVars
<1>4. TypeMaps'
  BY <1>0, StateForMaps DEF TypeMaps, Inv, TypeOK, ApplyConfigState, Goto, StateFor, histVars
<1>5. TypeWorkers'
  BY SMTT(30) DEF TypeWorkers, WorkerPcs, LockedAdmin, Removing, Ptr, Workers, Inv, TypeOK,
      ApplyConfigState, Goto, StateFor, tripVars
<1>6. PcsOK'
  BY SMTT(30) DEF PcsOK, Inv, ApplyConfigState, Goto, StateFor, tripVars
<1>7. LocksOK'
  BY DEF TypeWorkers, LocksOK, LockedAdmin, Removing, Restoring, Registering, Workers, Inv,
      TypeOK, ApplyConfigState, Goto, StateFor, lockVars, connVars, restVars
<1>8. StatesAllocated'
  BY <1>0, StateForAllocated DEF TypeWorkers, Inv, TypeOK, ApplyConfigState, Goto, StateFor,
      restVars
<1>9. RegistrationOK'
  BY DEF RegistrationOK, Registering, LockedAdmin, Removing, Inv, ApplyConfigState, Goto,
      StateFor, connVars, histVars
<1>10. TripClosesAll'
  BY <1>0, <1>1, StateForTrip DEF TypeWorkers, Inv, TypeOK, ApplyConfigState, Goto, StateFor,
      tripVars, histVars
<1>11. ActiveConnsBounded'
  BY DEF ActiveConnsBounded, Restoring, Inv, ApplyConfigState, Goto, StateFor
<1> QED
  BY <1>3, <1>4, <1>5, <1>6, <1>7, <1>8, <1>9, <1>10, <1>11 DEF Inv, TypeOK, StateFor

(* ApplyConfig's trip or clear: ApplyConfigDecide preserves Inv. *)
LEMMA ApplyConfigDecideInv ==
  ASSUME Inv, ApplyConfigDecide
  PROVE  Inv'
<1>0. Decide(Admin) /\ trip[Admin] = "none" /\ Admin \in Workers
  BY DEF Decide, Workers, ApplyConfigDecide, Goto, TripOrClear, TripExceeded, ClearExceeded,
      Forget
<1>1. PassingKept /\ TrackedKept /\ RegisteredKept
  BY KeptFrame DEF ApplyConfigDecide, Forget, connVars
<1>2. SameClosing
  BY DEF SameClosing, Closing, TypeWorkers, Workers, Inv, TypeOK, ApplyConfigDecide, Goto,
      TripOrClear, TripExceeded, ClearExceeded, Forget
<1>3. TypeLocks' /\ TypeConns' /\ TypeRestore' /\ ConfigHeld' /\ ListsAllocated' /\
    RegistrationOK' /\ ListMembers' /\ Listed' /\ NoOrphanPassing' /\ Unlinked'
  BY <1>1, <1>2, Frames, LinkFrames DEF Inv, TypeOK, ApplyConfigDecide, TripOrClear, TripExceeded,
      ClearExceeded, Forget, mapVars, lockVars, connVars, restVars
<1>4. TypeMaps'
  BY <1>0, DecideAllocated DEF TypeMaps, Inv, TypeOK, ApplyConfigDecide, Goto, TripOrClear,
      TripExceeded, ClearExceeded, Forget, mapVars
<1>5. TypeWorkers'
  BY DEF TypeWorkers, WorkerPcs, LockedAdmin, Removing, Ptr, Workers, Inv, TypeOK,
      ApplyConfigDecide, Goto, TripOrClear, TripExceeded, ClearExceeded, Forget
<1>6. PcsOK'
  BY SMTT(30) DEF TypeWorkers, PcsOK, Inv, TypeOK, ApplyConfigDecide, Goto, TripOrClear,
      TripExceeded, ClearExceeded, Forget
<1>7. LocksOK'
  BY DEF TypeWorkers, LocksOK, LockedAdmin, Removing, Restoring, Registering, Workers, Inv,
      TypeOK, ApplyConfigDecide, Goto, TripOrClear, TripExceeded, ClearExceeded, Forget, lockVars,
      connVars, restVars
<1>8. StatesAllocated'
  BY <1>0, DecideAllocated DEF Inv, TypeOK, ApplyConfigDecide, TripOrClear, TripExceeded,
      ClearExceeded, Forget, mapVars, restVars
<1>9. TripClosesAll'
  BY <1>0, DecideTrip DEF Inv, TypeOK, ApplyConfigDecide, TripOrClear, TripExceeded,
      ClearExceeded, Forget, mapVars, connVars
<1>10. ActiveConnsBounded'
  BY DEF ActiveConnsBounded, Registering, Restoring, Inv, ApplyConfigDecide, Goto, TripOrClear,
      TripExceeded, ClearExceeded, Forget, mapVars
<1> QED
  BY <1>3, <1>4, <1>5, <1>6, <1>7, <1>8, <1>9, <1>10 DEF Inv, TypeOK, TripOrClear, TripExceeded,
      ClearExceeded, Forget

(* A new user's locking of persistAccess: ApplyConfigLoad preserves Inv. *)
LEMMA ApplyConfigLoadInv ==
  ASSUME Inv, ApplyConfigLoad
  PROVE  Inv'
<1>1. PassingKept /\ TrackedKept /\ RegisteredKept
  BY KeptFrame DEF ApplyConfigLoad, connVars
<1>2. SameClosing
  BY DEF SameClosing, Closing, TypeWorkers, Inv, TypeOK, ApplyConfigLoad, Goto
<1>3. TypeMaps' /\ TypeConns' /\ TypeRestore' /\ ConfigHeld' /\ ListsAllocated' /\
    StatesAllocated' /\ RegistrationOK' /\ ListMembers' /\ Listed' /\ NoOrphanPassing'
    /\ Unlinked' /\ TripClosesAll'
  BY <1>1, <1>2, Frames, LinkFrames DEF Inv, TypeOK, ApplyConfigLoad, mapVars, connVars, tripVars,
      restVars, histVars
<1>4. TypeLocks'
  BY DEF TypeLocks, Inv, TypeOK, ApplyConfigLoad, Goto
<1>5. TypeWorkers'
  BY DEF TypeWorkers, WorkerPcs, LockedAdmin, Removing, Inv, TypeOK, ApplyConfigLoad, Goto,
      tripVars
<1>6. PcsOK'
  BY SMTT(30) DEF PcsOK, LockedAdmin, Inv, ApplyConfigLoad, Goto, tripVars
<1>7. LocksOK'
  BY ProcsAssumption DEF TypeWorkers, LocksOK, LockedAdmin, Removing, Restoring, Registering,
      Workers, Inv, TypeOK, ApplyConfigLoad, Goto, connVars, restVars
<1>8. ActiveConnsBounded'
  BY DEF ActiveConnsBounded, Registering, Restoring, Inv, ApplyConfigLoad, Goto, mapVars
<1> QED
  BY <1>3, <1>4, <1>5, <1>6, <1>7, <1>8 DEF Inv, TypeOK
=============================================================================
