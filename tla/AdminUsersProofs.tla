-------------------------- MODULE AdminUsersProofs --------------------------
(***************************************************************************)
(* The mutex of the user provider and what it protects, under the admin    *)
(* API's requests: TypeOK, StaysDeleted and ServedAgrees for every set of  *)
(* sources, inbounds and requests; and that a create and a delete which    *)
(* nothing disturbs do all of their work or take all of it back.           *)
(***************************************************************************)
EXTENDS AdminUsers, TLAPS

(* Zenon proves what does not say otherwise.                              *)
USE ZenonT(30)

V == Values \cup {None}
PCs == {"idle", "note", "store", "lock", "read", "stat", "ok", "failed"}
ProcRecs == [pc : PCs, call : {"none", "update", "create", "patch", "delete"}, arg : V,
             load : Nat, read : V]
Fields == {"pc", "kind", "todo", "want", "bad", "applied", "snap", "user", "before", "since"}

(* The types of the provider's variables.                                  *)
Types ==
  /\ file \in V \cup {Bad} /\ store \in V /\ cache \in V /\ overlay \in V /\ all \in V
  /\ mtime \in Nat /\ lastMod \in Nat
  /\ served \in [Servers -> V] /\ access \in Procs \cup {None}
  /\ proc \in [Procs -> ProcRecs]

(* The holder of the mutex is past Lock and has not returned.              *)
Mutex == \A p \in Procs : proc[p].pc \in {"read", "stat"} <=> access = p

(* A tombstone and an overlay exclude each other.                          *)
Exclusive == ~(deleted /\ overlay # None)

(* A handler calls the provider only when its last call has returned.      *)
Waiting == {"user", "undoUser", "restoreUser"}
Handlers ==
  /\ DOMAIN req = Requests
  /\ \A r \in Requests : /\ DOMAIN req[r] = Fields /\ req[r].user \in V
                         /\ req[r].pc \notin Waiting => proc[r].pc = "idle"

UsersInv == Types /\ Mutex /\ Exclusive /\ Handlers

(* Whatever a load read, the merged user is a user or none.                *)
LEMMA MergedType == ASSUME Types, NEW f \in V PROVE Merged(f) \in V
BY UserAssumption DEF Types, Merged, Source, V

(* The initial state satisfies the invariant.                              *)
LEMMA InitUsersInv == AdminInit => UsersInv
<1> SUFFICES ASSUME AdminInit PROVE UsersInv
  OBVIOUS
<1> USE UserAssumption DEF AdminInit, Init
<1>1. Types
  BY DEF Types, V, Merged, Source, Idle, ProcRecs, PCs
<1>2. Mutex /\ Exclusive
  BY DEF Mutex, Exclusive, Procs, Idle
<1>3. Handlers
  BY DEF Handlers, Fields, NoRequest, Procs, Idle, V
<1> QED BY <1>1, <1>2, <1>3 DEF UsersInv

(* The world outside changes nothing the mutex protects.                   *)
LEMMA WorldInv ==
  ASSUME UsersInv, EditFile \/ EditStore \/ Cancel \/ Close, UNCHANGED <<limits, req>>
  PROVE  UsersInv'
<1>1. UNCHANGED <<cache, lastMod, access, proc>> /\ UNCHANGED userVars
  BY DEF EditFile, EditStore, Cancel, Close
<1>2. file' \in V \cup {Bad} /\ store' \in V /\ mtime' \in Nat
  <2>1. CASE EditFile
    BY SMTT(30), <2>1 DEF UsersInv, Types, V, EditFile
  <2>2. CASE EditStore
    BY <2>2 DEF UsersInv, Types, V, EditStore
  <2>3. CASE Cancel \/ Close
    BY <2>3 DEF UsersInv, Types, Cancel, Close, sourceVars
  <2> QED BY <2>1, <2>2, <2>3
<1>3. Types'
  BY <1>1, <1>2 DEF UsersInv, Types, userVars
<1>4. Mutex' /\ Exclusive'
  BY <1>1 DEF UsersInv, Mutex, Exclusive, userVars
<1>5. Handlers'
  BY <1>1 DEF UsersInv, Handlers
<1> QED BY <1>3, <1>4, <1>5 DEF UsersInv

(* The loops of the sources, outside the mutex.                            *)
LEMMA LoopInv ==
  ASSUME UsersInv, UNCHANGED <<limits, req>>,
         \/ FileRun \in Sources /\ (FileTick \/ FileNote)
         \/ \E p \in Sources : Fetch(p) \/ Fetched(p)
  PROVE  UsersInv'
<1>1. PICK p \in Sources : \/ p = FileRun /\ (FileTick \/ FileNote)
                           \/ Fetch(p) \/ Fetched(p)
  OBVIOUS
<1>2. /\ p \in Procs /\ p \notin Requests
      /\ UNCHANGED <<file, store, mtime, overlay, deleted, all, served, access>>
  BY UserAssumption DEF Procs, FileTick, FileNote, Fetch, Fetched, sourceVars, userVars
<1>3. /\ proc'[p] \in ProcRecs /\ proc' = [proc EXCEPT ![p] = proc'[p]]
      /\ proc[p].pc \in {"idle", "note", "store"} /\ proc'[p].pc \in {"note", "store", "lock"}
      /\ lastMod' \in Nat /\ cache' \in V
  <2> USE DEF UsersInv, Types, ProcRecs, PCs
  <2>1. CASE p = FileRun /\ FileTick
    BY <1>2, <2>1 DEF FileTick
  <2>2. CASE p = FileRun /\ FileNote
    <3>1. FileRun \in Procs /\ proc[FileRun].load \in Nat
      BY <1>2, <2>2
    <3>2. lastMod' \in Nat /\ UNCHANGED cache
      BY SMTT(30), <2>2, <3>1 DEF FileNote, Written
    <3>3. Call("update", None) \in ProcRecs /\ Call("update", None).pc = "lock"
      BY DEF Call, Idle, V
    <3> QED BY <2>2, <3>1, <3>2, <3>3 DEF FileNote
  <2>3. CASE Fetch(p)
    BY <1>2, <2>3 DEF Fetch
  <2>4. CASE Fetched(p)
    BY <1>2, <2>4 DEF Fetched, Call, Idle, V
  <2> QED BY <1>1, <2>1, <2>2, <2>3, <2>4
<1>4. Types'
  BY <1>2, <1>3 DEF UsersInv, Types
<1>5. Mutex' /\ Exclusive'
  BY <1>2, <1>3 DEF UsersInv, Types, Mutex, Exclusive
<1>6. Handlers'
  BY <1>2, <1>3 DEF UsersInv, Types, Handlers, Procs
<1> QED BY <1>4, <1>5, <1>6 DEF UsersInv

(* What a returning call leaves.                                           *)
LEMMA ReturnFacts ==
  ASSUME UsersInv, NEW p \in Procs, NEW ok \in BOOLEAN, Return(p, ok)
  PROVE  /\ access' = None /\ proc' = [proc EXCEPT ![p] = proc'[p]]
         /\ proc'[p] \in ProcRecs /\ proc'[p].pc \in {"idle", "ok", "failed"}
BY DEF Return, Idle, UsersInv, Types, ProcRecs, PCs, V

(* The steps of a call under the mutex.                                    *)
LEMMA CallInv ==
  ASSUME UsersInv, NEW p \in Procs, ProcStep(p), UNCHANGED <<limits, req>>
  PROVE  UsersInv'
<1>1. /\ UNCHANGED <<file, store, mtime, cache>> /\ lastMod' \in Nat
      /\ proc[p].pc \in {"lock", "read", "stat"}
  <2>1. CASE Lock(p) \/ Read(p)
    BY <2>1 DEF Lock, Read, sourceVars, UsersInv, Types
  <2>2. CASE Stat(p) /\ UNCHANGED sourceVars /\ UNCHANGED cache
    BY SMTT(30), <2>2 DEF Stat, Written, sourceVars, UsersInv, Types
  <2> QED BY <2>1, <2>2 DEF ProcStep, Mutate, PushUsers
<1>2. /\ proc'[p] \in ProcRecs /\ proc' = [proc EXCEPT ![p] = proc'[p]]
      /\ \/ access = None /\ access' = p /\ proc'[p].pc \in {"read", "stat"}
         \/ access = p /\ access' = p /\ proc'[p].pc \in {"read", "stat"}
         \/ access = p /\ access' = None /\ proc'[p].pc \in {"idle", "ok", "failed"}
  <2> USE DEF UsersInv
  <2>1. CASE Lock(p)
    BY <2>1 DEF Lock, Types, ProcRecs, PCs
  <2>2. CASE Read(p)
    <3>1. access = p
      BY <2>2 DEF Read, Mutex
    <3>2. CASE Return(p, FALSE)
      BY <3>1, <3>2, ReturnFacts
    <3>3. CASE /\ file # Bad /\ proc' = [proc EXCEPT ![p].pc = "stat", ![p].read = file]
               /\ UNCHANGED access
      BY <3>1, <3>3 DEF Types, ProcRecs, PCs
    <3> QED BY <2>2, <3>2, <3>3 DEF Read
  <2>3. CASE Mutate(p)
    <3>1. access = p
      BY <2>3 DEF Mutate, Stat, Mutex
    <3>2. CASE Again(p)
      BY SMTT(30), <3>2 DEF Again, Types, ProcRecs
    <3>3. CASE Return(p, FALSE)
      BY <3>1, <3>3, ReturnFacts
    <3> QED BY <2>3, <3>2, <3>3 DEF Mutate
  <2>4. ASSUME NEW failing \in SUBSET Servers, PushUsers(p, failing)
        PROVE  access = p /\ Return(p, failing = {})
    BY <2>4 DEF PushUsers, Stat, Mutex
  <2>5. CASE \E failing \in SUBSET Servers : PushUsers(p, failing)
    BY <2>4, <2>5, ReturnFacts
  <2> QED BY <2>1, <2>2, <2>3, <2>5 DEF ProcStep
<1>3. /\ overlay' \in V /\ all' \in V /\ served' \in [Servers -> V]
      /\ Exclusive'
  <2> USE DEF UsersInv, Types, Exclusive
  <2>1. CASE Lock(p) \/ Read(p)
    <3>1. UNCHANGED userVars
      BY <2>1 DEF Lock, Read
    <3> QED BY <3>1 DEF userVars
  <2>2. CASE Mutate(p)
    <3>1. UNCHANGED <<all, served>>
      BY <2>2 DEF Mutate
    <3>2. \/ UNCHANGED <<overlay, deleted>>
          \/ overlay' = proc[p].arg /\ ~deleted'
          \/ overlay' = None
      BY <2>2 DEF Mutate
    <3>3. proc[p].arg \in V
      BY DEF ProcRecs
    <3>4. overlay' \in V
      BY <3>2, <3>3 DEF V
    <3>5. Exclusive'
      BY <3>2
    <3> QED BY <3>1, <3>4, <3>5
  <2>3. ASSUME NEW failing \in SUBSET Servers, PushUsers(p, failing)
        PROVE  all' \in V /\ served' \in [Servers -> V] /\ UNCHANGED <<overlay, deleted>>
    <3>1. Merged(proc[p].read) \in V
      BY MergedType DEF ProcRecs
    <3> QED BY <2>3, <3>1 DEF PushUsers
  <2> QED BY <2>1, <2>2, <2>3 DEF ProcStep
<1>4. Types'
  BY <1>1, <1>2, <1>3 DEF UsersInv, Types
<1>5. Mutex'
  BY <1>2, UserAssumption DEF UsersInv, Types, Mutex, Procs
<1>6. Handlers'
  BY <1>1, <1>2 DEF UsersInv, Types, Handlers, Procs
<1> QED BY <1>3, <1>4, <1>5, <1>6 DEF UsersInv

-----------------------------------------------------------------------------
(* What a step of a handler may do to the provider: nothing, start a call  *)
(* when none is under way, or take the answer of one.                      *)
HandlerFrame(r) ==
  /\ UNCHANGED <<file, store, mtime, lastMod, cache, overlay, deleted, all, served, refused,
                 access>>
  /\ DOMAIN req' = Requests /\ DOMAIN req'[r] = Fields /\ req'[r].user \in V
  /\ \A q \in Requests \ {r} : /\ DOMAIN req'[q] = Fields
                               /\ req'[q].user = req[q].user /\ req'[q].pc = req[q].pc
  /\ \/ UNCHANGED proc /\ proc[r].pc = "idle"
     \/ /\ proc[r].pc = "idle" /\ req'[r].pc \in Waiting
        /\ \E c \in {"create", "patch", "delete"}, v \in V :
             proc' = [proc EXCEPT ![r] = Call(c, v)]
     \/ proc[r].pc \in {"ok", "failed"} /\ proc' = [proc EXCEPT ![r] = Idle]

(* Such a step preserves the invariant.                                    *)
LEMMA FrameInv == ASSUME UsersInv, NEW r \in Requests, HandlerFrame(r) PROVE UsersInv'
<1> DEFINE Own == /\ r \in Procs /\ proc'[r] \in ProcRecs /\ proc' = [proc EXCEPT ![r] = proc'[r]]
                  /\ proc[r].pc \notin {"read", "stat"} /\ proc'[r].pc \notin {"read", "stat"}
                  /\ proc'[r].pc = "idle" \/ req'[r].pc \in Waiting
<1>1. Own
  <2>1. r \in Procs /\ proc \in [Procs -> ProcRecs]
    BY DEF UsersInv, Types, Procs
  <2>2. CASE UNCHANGED proc /\ proc[r].pc = "idle"
    BY <2>1, <2>2
  <2>3. ASSUME NEW c \in {"create", "patch", "delete"}, NEW v \in V, proc[r].pc = "idle",
               req'[r].pc \in Waiting, proc' = [proc EXCEPT ![r] = Call(c, v)]
        PROVE  Own
    <3>1. Call(c, v) \in ProcRecs /\ Call(c, v).pc = "lock"
      BY DEF Call, Idle, ProcRecs, PCs, V
    <3> QED BY <2>1, <2>3, <3>1
  <2>4. CASE proc[r].pc \in {"ok", "failed"} /\ proc' = [proc EXCEPT ![r] = Idle]
    <3>1. Idle \in ProcRecs /\ Idle.pc = "idle"
      BY DEF Idle, ProcRecs, PCs, V
    <3> QED BY <2>1, <2>4, <3>1
  <2> QED BY <2>2, <2>3, <2>4 DEF HandlerFrame
<1>2. Types'
  BY <1>1 DEF HandlerFrame, UsersInv, Types
<1>3. Mutex'
  BY <1>1 DEF HandlerFrame, UsersInv, Types, Mutex
<1>4. Exclusive'
  BY DEF HandlerFrame, UsersInv, Exclusive
<1>5. Handlers'
  BY <1>1 DEF HandlerFrame, UsersInv, Types, Handlers, Procs
<1> QED BY <1>2, <1>3, <1>4, <1>5 DEF UsersInv

(* The requests as they come in.                                           *)
LEMMA BeginFrame ==
  ASSUME UsersInv, NEW r \in Requests,
         \/ \E v \in Values : CreateUserHandler(r, v) \/ UpdateUserHandler(r, v)
         \/ DeleteUserHandler(r) \/ \E f \in UNION Wants : LimitHandler(r, f)
  PROVE  HandlerFrame(r)
<1>1. ASSUME NEW rec, DOMAIN rec = Fields, rec.user \in V, Begin(r, rec)
      PROVE  /\ DOMAIN req' = Requests /\ DOMAIN req'[r] = Fields
             /\ req'[r].user = rec.user /\ req'[r].pc = rec.pc /\ proc[r].pc = "idle"
             /\ \A q \in Requests \ {r} : /\ DOMAIN req'[q] = Fields
                                          /\ req'[q].user = req[q].user /\ req'[q].pc = req[q].pc
  BY <1>1 DEF Begin, UsersInv, Handlers, Fields, Waiting
<1>2. ASSUME NEW v \in Values, CreateUserHandler(r, v) PROVE HandlerFrame(r)
  <2>1. PICK want, bad :
          Begin(r, [NoRequest EXCEPT !.pc = "user", !.kind = "create", !.user = v,
                                     !.want = want, !.bad = bad])
    BY <1>2 DEF CreateUserHandler
  <2> DEFINE rec == [NoRequest EXCEPT !.pc = "user", !.kind = "create", !.user = v,
                                      !.want = want, !.bad = bad]
  <2>2. DOMAIN rec = Fields /\ rec.user \in V /\ rec.pc = "user"
    BY DEF NoRequest, Fields, V
  <2> HIDE DEF rec
  <2> QED
    BY <1>1, <1>2, <2>1, <2>2 DEF rec, CreateUserHandler, HandlerFrame, Rest, sourceVars,
        userVars, Waiting, V
<1>3. ASSUME NEW v \in Values, UpdateUserHandler(r, v) PROVE HandlerFrame(r)
  <2> DEFINE rec == [NoRequest EXCEPT !.pc = "user", !.kind = "patch", !.user = v]
  <2>1. DOMAIN rec = Fields /\ rec.user \in V /\ rec.pc = "user"
    BY DEF NoRequest, Fields, V
  <2>2. Begin(r, rec)
    BY <1>3 DEF UpdateUserHandler
  <2> HIDE DEF rec
  <2> QED
    BY <1>1, <1>3, <2>1, <2>2 DEF UpdateUserHandler, HandlerFrame, Rest, sourceVars, userVars,
        Waiting, V
<1>4. CASE DeleteUserHandler(r)
  <2> DEFINE rec == IF all = None THEN [NoRequest EXCEPT !.pc = "end"]
                    ELSE [NoRequest EXCEPT !.pc = "snap", !.kind = "delete", !.user = all,
                                           !.todo = Limits]
  <2>1. DOMAIN rec = Fields /\ rec.user \in V
    BY DEF NoRequest, Fields, UsersInv, Types
  <2>2. Begin(r, rec)
    BY <1>4 DEF DeleteUserHandler
  <2> HIDE DEF rec
  <2> QED
    BY <1>1, <1>4, <2>1, <2>2 DEF DeleteUserHandler, HandlerFrame, Rest, sourceVars, userVars
<1>5. ASSUME NEW f \in UNION Wants, LimitHandler(r, f) PROVE HandlerFrame(r)
  <2> DEFINE rec == [NoRequest EXCEPT !.pc = "end"]
  <2>1. DOMAIN rec = Fields /\ rec.user \in V
    BY DEF NoRequest, Fields, V
  <2>2. Begin(r, rec)
    BY <1>5 DEF LimitHandler
  <2> HIDE DEF rec
  <2> QED BY <1>1, <1>5, <2>1, <2>2 DEF LimitHandler, HandlerFrame, Rest, sourceVars, userVars
<1> QED BY <1>2, <1>3, <1>4, <1>5

(* A handler's own record, and what ending it leaves.                      *)
LEMMA ReqFacts ==
  ASSUME UsersInv, NEW r \in Requests
  PROVE  /\ DOMAIN req = Requests /\ DOMAIN req[r] = Fields /\ req[r].user \in V
         /\ req[r].pc \notin Waiting => proc[r].pc = "idle"
         /\ End(r) => /\ DOMAIN req' = Requests /\ DOMAIN req'[r] = Fields
                      /\ req'[r].user \in V /\ \A q \in Requests \ {r} : req'[q] = req[q]
BY DEF UsersInv, Handlers, End, NoRequest, Fields, V

(* The steps of a request under way.                                       *)
LEMMA StepFrame == ASSUME UsersInv, NEW r \in Requests, HandlerStep(r) PROVE HandlerFrame(r)
<1>0. /\ DOMAIN req = Requests /\ \A q \in Requests : DOMAIN req[q] = Fields
      /\ req[r].user \in V /\ None \in V
      /\ req[r].pc \notin Waiting => proc[r].pc = "idle"
  BY DEF UsersInv, Handlers, V
<1>1. HandlerStep(r) => UNCHANGED <<file, store, mtime, lastMod, cache, overlay, deleted, all,
                                    served, refused, access>>
  BY DEF HandlerStep, SnapshotDeleteRuntimeState, Answered, Apply, RollbackCreatedUser,
      RolledBack, CleanupDeleteRuntimeState, Recreated, RestoreDeleteRuntimeState, Rest,
      sourceVars, userVars
<1> DEFINE Own == /\ DOMAIN req' = Requests /\ DOMAIN req'[r] = Fields /\ req'[r].user \in V
                  /\ \A q \in Requests \ {r} : req'[q] = req[q]
<1>2. End(r) => Own
  BY ReqFacts
<1>3. ASSUME Own, \/ UNCHANGED proc /\ req[r].pc \notin Waiting
                  \/ /\ req[r].pc \notin Waiting /\ req'[r].pc \in Waiting
                     /\ \E c \in {"create", "patch", "delete"}, v \in V :
                          proc' = [proc EXCEPT ![r] = Call(c, v)]
                  \/ proc[r].pc \in {"ok", "failed"} /\ proc' = [proc EXCEPT ![r] = Idle]
      PROVE  HandlerFrame(r)
  BY <1>0, <1>1, <1>3 DEF HandlerFrame
<1>4. CASE SnapshotDeleteRuntimeState(r)
  <2>1. CASE req[r].todo # <<>>
    BY SMTT(30), <1>0, <1>3, <1>4 DEF SnapshotDeleteRuntimeState, Waiting, Fields
  <2>2. CASE req[r].todo = <<>>
    BY SMTT(30), <1>0, <1>3, <1>4 DEF SnapshotDeleteRuntimeState, Waiting, Fields
  <2> QED BY <2>1, <2>2
<1>5. CASE Answered(r)
  <2>1. Own
    BY SMTT(30), <1>0, <1>2, <1>5 DEF Answered, Fields
  <2> QED BY <1>3, <1>5, <2>1 DEF Answered
<1>6. CASE Apply(r)
  <2>1. Own
    BY <1>0, <1>2, <1>6 DEF Apply, Fields
  <2> QED BY <1>3, <1>6, <2>1 DEF Apply, Waiting
<1>7. CASE RollbackCreatedUser(r)
  <2>1. Own
    BY <1>0, <1>7 DEF RollbackCreatedUser, Fields
  <2>2. CASE UNCHANGED proc
    BY <1>3, <1>7, <2>1, <2>2 DEF RollbackCreatedUser, Waiting
  <2>3. CASE /\ proc' = [proc EXCEPT ![r] = Call("delete", None)]
             /\ req' = [req EXCEPT ![r].pc = "undoUser"]
    BY <1>0, <1>3, <1>7 DEF RollbackCreatedUser, Waiting, Fields
  <2> QED BY <1>7, <2>2, <2>3 DEF RollbackCreatedUser
<1>8. CASE RolledBack(r)
  BY <1>2, <1>3, <1>8 DEF RolledBack
<1>9. CASE CleanupDeleteRuntimeState(r)
  <2>1. Own
    BY SMTT(30), <1>0, <1>2, <1>9 DEF CleanupDeleteRuntimeState, Fields
  <2>2. CASE UNCHANGED proc
    BY <1>3, <1>9, <2>1, <2>2 DEF CleanupDeleteRuntimeState, Waiting
  <2>3. CASE /\ proc' = [proc EXCEPT ![r] = Call("create", req[r].user)]
             /\ req' = [req EXCEPT ![r].pc = "restoreUser", ![r].since = Allow(@)]
    BY <1>0, <1>3, <1>9, <2>3 DEF CleanupDeleteRuntimeState, Waiting, Fields
  <2> QED BY <1>9, <2>2, <2>3 DEF CleanupDeleteRuntimeState
<1>10. CASE Recreated(r)
  <2>1. Own
    BY SMTT(30), <1>0, <1>10 DEF Recreated
  <2> QED BY <1>3, <1>10, <2>1 DEF Recreated
<1>11. CASE RestoreDeleteRuntimeState(r)
  <2>1. Own
    BY <1>0, <1>2, <1>11 DEF RestoreDeleteRuntimeState, Fields
  <2> QED BY <1>3, <1>11, <2>1 DEF RestoreDeleteRuntimeState, Waiting
<1> QED BY <1>4, <1>5, <1>6, <1>7, <1>8, <1>9, <1>10, <1>11 DEF HandlerStep

-----------------------------------------------------------------------------
(* Every step preserves the invariant.                                     *)
LEMMA StepUsersInv == UsersInv /\ [AdminNext]_adminVars => UsersInv'
<1> SUFFICES ASSUME UsersInv, [AdminNext]_adminVars PROVE UsersInv'
  OBVIOUS
<1>1. CASE (EditFile \/ EditStore \/ Cancel \/ Close) /\ UNCHANGED <<limits, req>>
  BY <1>1, WorldInv
<1>2. ASSUME NEW p \in Sources, SourceStep(p), UNCHANGED <<limits, req>> PROVE UsersInv'
  BY <1>2, LoopInv, CallInv DEF SourceStep, Procs
<1>3. ASSUME NEW r \in Requests, ProcStep(r), UNCHANGED <<limits, req>> PROVE UsersInv'
  BY <1>3, CallInv DEF Procs
<1>4. ASSUME NEW r \in Requests,
             \/ \E v \in Values : CreateUserHandler(r, v) \/ UpdateUserHandler(r, v)
             \/ DeleteUserHandler(r) \/ \E f \in UNION Wants : LimitHandler(r, f)
             \/ HandlerStep(r)
      PROVE  UsersInv'
  BY <1>4, BeginFrame, StepFrame, FrameInv
<1>5. CASE UNCHANGED adminVars
  <2>1. UNCHANGED <<file, mtime, lastMod, store, cache, overlay, deleted, all, served, access,
                    proc, req>>
    BY <1>5 DEF adminVars, vars, sourceVars, userVars
  <2> QED BY <2>1 DEF UsersInv, Types, Mutex, Exclusive, Handlers
<1> QED BY <1>1, <1>2, <1>3, <1>4, <1>5 DEF AdminNext

(* TypeOK: whoever is between Lock and Return in the user provider holds   *)
(* its mutex, and the overlay and the tombstones exclude each other, for   *)
(* any number of sources, inbounds and overlapping admin requests.         *)
THEOREM MutexProtects == AdminSpec => []TypeOK
<1>1. UsersInv => TypeOK
  BY DEF UsersInv, Types, Mutex, Exclusive, TypeOK, V
<1> QED BY InitUsersInv, StepUsersInv, <1>1, PTL DEF AdminSpec

(* Only a push changes the list of users, and while a tombstone stands it  *)
(* lists none.                                                             *)
LEMMA ListStep ==
  ASSUME UsersInv, [AdminNext]_adminVars, deleted, all' # all PROVE all' = None
<1>1. ASSUME NEW p, NEW failing, PushUsers(p, failing) PROVE all' = None
  BY <1>1 DEF PushUsers, Merged, UsersInv, Exclusive
<1>2. ASSUME NEW p, ProcStep(p) PROVE all' = None
  BY <1>1, <1>2 DEF ProcStep, Lock, Read, Mutate, userVars
<1>3. CASE EditFile \/ EditStore \/ Cancel \/ Close
  BY <1>3 DEF EditFile, EditStore, Cancel, Close, userVars
<1>4. ASSUME NEW p \in Sources, SourceStep(p) PROVE all' = None
  BY <1>2, <1>4 DEF SourceStep, FileTick, FileNote, Fetch, Fetched, userVars
<1>5. ASSUME NEW r \in Requests, HandlerFrame(r) PROVE FALSE
  BY <1>5 DEF HandlerFrame
<1>6. CASE UNCHANGED adminVars
  BY <1>6 DEF adminVars, vars, userVars
<1> QED BY <1>2, <1>3, <1>4, <1>5, <1>6, BeginFrame, StepFrame DEF AdminNext

(* StaysDeleted: no load, fetch or notification brings a deleted user back *)
(* while its tombstone stands.                                             *)
THEOREM DeletedStaysDeleted == AdminSpec => StaysDeleted
<1>1. UsersInv /\ [AdminNext]_adminVars => [deleted /\ all' # all => all' = None]_vars
  BY ListStep
<1> QED BY InitUsersInv, StepUsersInv, <1>1, PTL DEF AdminSpec, StaysDeleted

(* A push serves its list to every inbound that does not refuse it; other  *)
(* steps change neither list nor inbounds.                                 *)
LEMMA ServedStep ==
  ASSUME UsersInv, ServedAgrees, [AdminNext]_adminVars PROVE ServedAgrees'
<1>1. ASSUME NEW p, NEW failing, PushUsers(p, failing) PROVE ServedAgrees'
  BY <1>1 DEF PushUsers, ServedAgrees
<1>2. ASSUME UNCHANGED <<all, served, refused>> PROVE ServedAgrees'
  BY <1>2 DEF ServedAgrees
<1>3. ASSUME NEW p, ProcStep(p) PROVE ServedAgrees'
  BY <1>1, <1>2, <1>3 DEF ProcStep, Lock, Read, Mutate, userVars
<1>4. CASE EditFile \/ EditStore \/ Cancel \/ Close
  BY <1>2, <1>4 DEF EditFile, EditStore, Cancel, Close, userVars
<1>5. ASSUME NEW p \in Sources, SourceStep(p) PROVE ServedAgrees'
  BY <1>2, <1>3, <1>5 DEF SourceStep, FileTick, FileNote, Fetch, Fetched, userVars
<1>6. ASSUME NEW r \in Requests, HandlerFrame(r) PROVE ServedAgrees'
  BY <1>2, <1>6 DEF HandlerFrame
<1>7. CASE UNCHANGED adminVars
  BY <1>2, <1>7 DEF adminVars, vars, userVars
<1> QED BY <1>3, <1>4, <1>5, <1>6, <1>7, BeginFrame, StepFrame DEF AdminNext

(* ServedAgrees: every inbound that took the last push authenticates what  *)
(* the service lists, however loops and requests overlap.                  *)
THEOREM InboundsAgree == AdminSpec => []ServedAgrees
<1>1. AdminInit => ServedAgrees
  BY DEF AdminInit, Init, ServedAgrees
<1> QED BY <1>1, InitUsersInv, StepUsersInv, ServedStep, PTL DEF AdminSpec

-----------------------------------------------------------------------------
(* All or nothing.  A request that still counts as undisturbed, and a      *)
(* provider whose users come from the configuration and a file.            *)
Quiet(r) == req[r].since = <<edits, faults>>
NoStore == Sources \subseteq {FileRun}

LimitValues == Given \cup Requests \cup {None}

(* An undisturbed request is alone since it began, and nothing is counted  *)
(* before it happens; sources only reload.                                 *)
Alone ==
  /\ edits \in Nat /\ faults \in Nat
  /\ \A r \in Requests : req[r].since # <<>> =>
       /\ Active(r) /\ \A q \in Requests \ {r} : ~Active(q)
       /\ \E e \in 0..edits, n \in 0..faults : req[r].since = <<e, n>>
  /\ \A p \in Sources : proc[p].pc \in {"lock", "read", "stat"} => proc[p].call = "update"

(* A request that has not begun has set no limit, and none is remembered.  *)
Unset ==
  /\ limits \in [Limits -> LimitValues]
  /\ \A r \in Requests :
       /\ req[r].snap \in [Limits -> LimitValues]
       /\ req[r].todo \subseteq Limits /\ req[r].want \subseteq Limits
       /\ req[r].applied \subseteq Limits
       /\ req[r].pc = "idle" => \A f \in Limits : /\ limits[f] # r
                                                  /\ \A q \in Requests : req[q].snap[f] # r

(* Where the provider is in load n of a call.                              *)
Loading(r, c, n) ==
  /\ proc[r].call = c
  /\ \/ proc[r].pc \in {"read", "stat"} /\ proc[r].load = n
     \/ proc[r].pc = "lock" /\ n = 1

(* CreateUser of a request, called with overlay o; DeleteUser likewise.    *)
Created(r) == overlay = req[r].user /\ file # Bad
Creating(r, o) ==
  \/ Loading(r, "create", 1) /\ proc[r].arg = req[r].user /\ overlay = o
  \/ (Loading(r, "create", 2) \/ proc[r].pc = "ok") /\ Created(r) /\ o = None
  \/ proc[r].pc = "failed" /\ overlay = o

Gone == overlay = None /\ file # Bad /\ (deleted \/ Source(file) = None)
Deleting(r, o) ==
  \/ Loading(r, "delete", 1) /\ overlay = o
  \/ Loading(r, "delete", 2) /\ overlay = o /\ file # Bad
  \/ (Loading(r, "delete", 3) \/ proc[r].pc = "ok") /\ Gone
  \/ proc[r].pc = "failed" /\ overlay = o

(* Taking back what the request created cannot fail, nor can creating what *)
(* it deleted.                                                             *)
Removing(r) ==
  \/ (Loading(r, "delete", 1) \/ Loading(r, "delete", 2)) /\ Created(r)
  \/ (Loading(r, "delete", 3) \/ proc[r].pc = "ok") /\ overlay = None /\ file # Bad
Recreating(r) ==
  \/ Loading(r, "create", 1) /\ proc[r].arg = req[r].user /\ Gone
  \/ (Loading(r, "create", 2) \/ proc[r].pc = "ok") /\ Created(r)

CreatePhase(r) ==
  /\ req[r].pc \in {"user", "apply", "undo", "undoUser"} /\ req[r].user \in Values
  /\ req[r].pc = "user" => Creating(r, req[r].before[1]) /\ req[r].applied = {}
  /\ req[r].pc # "user" => req[r].before[1] = None
  /\ req[r].pc \in {"apply", "undo"} => Created(r)
  /\ req[r].pc = "apply" => /\ req[r].applied \cup req[r].todo = req[r].want
                            /\ \A f \in req[r].applied : limits[f] = r
                            /\ "sched" \in req[r].applied => req[r].todo = {}
  /\ req[r].pc = "undoUser" => Removing(r)
  /\ \A f \in Limits : limits[f] = r => \/ req[r].pc = "apply" /\ f \in req[r].applied
                                        \/ req[r].pc = "undo" /\ f \in req[r].todo

DeletePhase(r) ==
  LET was == req[r].before[2] IN
  /\ req[r].pc \in {"snap", "user", "cleanup", "restoreUser", "restore"}
  /\ was \in [Limits -> LimitValues]
  /\ req[r].pc \in {"snap", "user"} => limits = was
  /\ req[r].pc = "snap" => overlay = req[r].before[1]
  /\ \A f \in Limits : req[r].snap[f] = was[f] \/ (req[r].pc = "snap" /\ f \in req[r].todo)
  /\ req[r].pc = "user" => Deleting(r, req[r].before[1])
  /\ req[r].pc = "cleanup" =>
       Gone /\ \A f \in Limits : limits[f] = IF f \in req[r].todo THEN was[f] ELSE None
  /\ req[r].pc = "restoreUser" => Recreating(r) /\ \A f \in Limits : limits[f] \in {None, was[f]}
  /\ req[r].pc = "restore" =>
       overlay = req[r].user /\ \A f \in Limits \ req[r].todo : limits[f] = was[f]

(* The call under way has read the file as it is.                          *)
Undisturbed(r) ==
  /\ proc[r].pc = "stat" => proc[r].read = file /\ file # Bad
  /\ req[r].kind = "create" => CreatePhase(r)
  /\ req[r].kind = "delete" /\ NoStore => DeletePhase(r)

AtomicInv == Alone /\ Unset /\ \A r \in Requests : Quiet(r) => Undisturbed(r)

(* The initial state satisfies it.                                         *)
LEMMA InitAtomic == AdminInit => AtomicInv
<1> SUFFICES ASSUME AdminInit PROVE AtomicInv
  OBVIOUS
<1>1. /\ req = [r \in Requests |-> NoRequest] /\ limits \in [Limits -> Given]
      /\ edits = 0 /\ faults = 0 /\ \A p \in Procs : proc[p] = Idle
  BY DEF AdminInit, Init
<1>2. \A r \in Requests : req[r].since = <<>>
  BY <1>1 DEF NoRequest
<1>3. Alone
  BY SMTT(30), <1>1, <1>2 DEF Alone, Procs, Idle
<1>4. Unset
  BY <1>1, UserAssumption, AdminAssumption DEF Unset, NoRequest, LimitValues
<1>5. \A r \in Requests : ~Quiet(r)
  BY SMTT(30), <1>2 DEF Quiet
<1> QED BY <1>3, <1>4, <1>5 DEF AtomicInv

(* Edits and faults only grow, and a step that counts one disturbs every   *)
(* request that does not allow for it.                                     *)
LEMMA StillQuiet ==
  ASSUME Alone, NEW r \in Requests, Quiet(r)', req'[r].since = req[r].since,
         edits' \in Nat, faults' \in Nat, edits' >= edits, faults' >= faults
  PROVE  /\ Quiet(r) /\ UNCHANGED <<edits, faults>>
         /\ Active(r) /\ \A q \in Requests \ {r} : ~Active(q)
<1>1. req[r].since = <<edits', faults'>>
  BY DEF Quiet
<1>2. req[r].since # <<>>
  BY SMTT(30), <1>1
<1>3. PICK e \in 0..edits, n \in 0..faults : req[r].since = <<e, n>>
  BY <1>2 DEF Alone
<1>4. edits' = e /\ faults' = n
  BY SMTT(30), <1>1, <1>3
<1>5. edits' = edits /\ faults' = faults
  BY SMTT(30), <1>4 DEF Alone
<1>6. Active(r) /\ \A q \in Requests \ {r} : ~Active(q)
  BY <1>2 DEF Alone
<1> QED BY <1>5, <1>6 DEF Quiet

(* What does not touch a request, nor what it works on, does not disturb   *)
(* it; only a remote store's sources touch the cache.                      *)
LEMMA KeptUndisturbed ==
  ASSUME NEW r \in Requests, Undisturbed(r), req'[r] = req[r], proc'[r] = proc[r],
         UNCHANGED <<file, overlay, deleted, limits>>, NoStore => cache' = cache
  PROVE  Undisturbed(r)'
<1>1. CreatePhase(r) => CreatePhase(r)'
  BY DEF CreatePhase, Creating, Removing, Created, Loading
<1>2. NoStore /\ DeletePhase(r) => DeletePhase(r)'
  BY DEF DeletePhase, Deleting, Recreating, Created, Gone, Loading, Source
<1> QED BY <1>1, <1>2 DEF Undisturbed

-----------------------------------------------------------------------------
(* A step of a call under the mutex, when no inbound refuses and the file  *)
(* has been read as it is.                                                 *)
LEMMA ProviderStep ==
  ASSUME UsersInv, faults \in Nat, NEW r \in Requests, ProcStep(r), UNCHANGED faults,
         proc[r].pc = "stat" => proc[r].read = file /\ file # Bad
  PROVE  LET c == proc[r].call  v == proc[r].arg
             goes(n) == proc'[r].call = c /\ proc'[r].arg = v /\ proc'[r].load = n
             to(pc) == proc'[r].pc = pc
             kept == UNCHANGED <<overlay, deleted>>
         IN  /\ UNCHANGED <<file, cache, edits>>
             /\ \A p \in Procs \ {r} : proc'[p] = proc[p]
             /\ \/ proc[r].pc = "lock" /\ to("read") /\ goes(1) /\ kept
                \/ proc[r].pc = "read" /\ file = Bad /\ to("failed") /\ kept
                \/ /\ proc[r].pc = "read" /\ file # Bad /\ to("stat") /\ goes(proc[r].load)
                   /\ proc'[r].read = file /\ kept
                \/ /\ proc[r].pc = "stat" /\ proc[r].load = 1 /\ c # "update"
                   /\ (Merged(file) # None) = (c = "create") /\ to("failed") /\ kept
                \/ /\ proc[r].pc = "stat" /\ proc[r].load = 1 /\ c \in {"create", "patch"}
                   /\ (Merged(file) # None) = (c = "patch")
                   /\ overlay' = v /\ ~deleted' /\ to("read") /\ goes(2)
                \/ /\ proc[r].pc = "stat" /\ proc[r].load = 1 /\ c = "delete"
                   /\ Merged(file) # None /\ to("read") /\ goes(2) /\ kept
                \/ /\ proc[r].pc = "stat" /\ proc[r].load = 2 /\ c = "delete"
                   /\ overlay' = None /\ (deleted' \/ Source(file) = None)
                   /\ to("read") /\ goes(3)
                \/ /\ proc[r].pc = "stat" /\ proc[r].load = LastLoad(c) /\ to("ok") /\ kept
<1>1. r \in Procs /\ proc \in [Procs -> ProcRecs] /\ proc[r] \in ProcRecs
  BY DEF UsersInv, Types, Procs
<1>2. ASSUME NEW ok \in BOOLEAN, Return(r, ok)
      PROVE  /\ proc'[r].pc = IF ok THEN "ok" ELSE "failed"
             /\ \A p \in Procs \ {r} : proc'[p] = proc[p]
  BY SMTT(30), <1>1, <1>2 DEF Return
<1>3. ASSUME Again(r)
      PROVE  /\ proc'[r].pc = "read" /\ proc'[r].load = proc[r].load + 1
             /\ proc'[r].call = proc[r].call /\ proc'[r].arg = proc[r].arg
             /\ \A p \in Procs \ {r} : proc'[p] = proc[p]
  BY SMTT(30), <1>1, <1>3 DEF Again
<1>4. CASE Lock(r)
  <2>1. /\ proc'[r].pc = "read" /\ proc'[r].load = 1
        /\ proc'[r].call = proc[r].call /\ proc'[r].arg = proc[r].arg
        /\ \A p \in Procs \ {r} : proc'[p] = proc[p]
    BY SMTT(30), <1>1, <1>4 DEF Lock
  <2> QED BY <1>4, <2>1 DEF Lock, sourceVars, userVars
<1>5. CASE Read(r)
  <2>1. CASE file = Bad /\ Return(r, FALSE)
    BY <1>2, <1>5, <2>1 DEF Read, sourceVars, userVars
  <2>2. CASE file # Bad /\ proc' = [proc EXCEPT ![r].pc = "stat", ![r].read = file]
    <3>1. /\ proc'[r].pc = "stat" /\ proc'[r].load = proc[r].load /\ proc'[r].read = file
          /\ proc'[r].call = proc[r].call /\ proc'[r].arg = proc[r].arg
          /\ \A p \in Procs \ {r} : proc'[p] = proc[p]
      BY SMTT(30), <1>1, <2>2
    <3> QED BY <1>5, <2>2, <3>1 DEF Read, sourceVars, userVars
  <2> QED BY <1>5, <2>1, <2>2 DEF Read
<1>6. CASE Mutate(r)
  <2>1. proc[r].pc = "stat" /\ proc[r].read = file /\ UNCHANGED <<file, cache, edits>>
    BY <1>6 DEF Mutate, Stat, sourceVars
  <2>2. CASE /\ proc[r].load = 1 /\ proc[r].call # "update" /\ Return(r, FALSE)
             /\ (Merged(file) # None) = (proc[r].call = "create")
             /\ UNCHANGED <<overlay, deleted>>
    BY <1>2, <2>1, <2>2
  <2>3. CASE /\ proc[r].load = 1 /\ proc[r].call \in {"create", "patch"} /\ Again(r)
             /\ (Merged(file) # None) = (proc[r].call = "patch")
             /\ overlay' = proc[r].arg /\ deleted' = FALSE
    BY SMTT(30), <1>3, <2>1, <2>3
  <2>4. CASE /\ proc[r].load = 1 /\ proc[r].call = "delete" /\ Merged(file) # None
             /\ Again(r) /\ UNCHANGED <<overlay, deleted>>
    BY SMTT(30), <1>3, <2>1, <2>4
  <2>5. CASE /\ proc[r].load = 2 /\ proc[r].call = "delete" /\ Again(r)
             /\ overlay' = None /\ deleted' = (Source(file) # None)
    <3>1. overlay' = None /\ (deleted' \/ Source(file) = None)
      BY <2>5
    <3>2. proc'[r].load = 3
      BY SMTT(30), <1>3, <2>5
    <3> QED BY <1>3, <2>1, <2>5, <3>2
  <2> QED BY <1>6, <2>1, <2>2, <2>3, <2>4, <2>5 DEF Mutate
<1>7. ASSUME NEW failing \in SUBSET Servers, PushUsers(r, failing)
      PROVE  /\ proc[r].pc = "stat" /\ proc[r].load = LastLoad(proc[r].call)
             /\ proc'[r].pc = "ok" /\ UNCHANGED <<overlay, deleted, file, cache, edits>>
             /\ \A p \in Procs \ {r} : proc'[p] = proc[p]
  <2>1. faults' = faults + (IF failing = {} THEN 0 ELSE 1) /\ Return(r, failing = {})
    BY <1>7 DEF PushUsers
  <2>2. failing = {}
    BY SMTT(30), <2>1
  <2>3. proc'[r].pc = "ok" /\ \A p \in Procs \ {r} : proc'[p] = proc[p]
    BY <1>2, <2>1, <2>2
  <2> QED BY <1>7, <2>3 DEF PushUsers, Stat, sourceVars
<1> QED BY <1>4, <1>5, <1>6, <1>7 DEF ProcStep

(* A create goes through its call of CreateUser, and through the DeleteUser*)
(* of its rollback.                                                        *)
LEMMA CreateCalls ==
  ASSUME UsersInv, Alone, NEW r \in Requests, ProcStep(r), UNCHANGED <<faults, limits, req>>,
         Undisturbed(r), req[r].kind = "create"
  PROVE  CreatePhase(r)'
<1>1. CreatePhase(r) /\ faults \in Nat /\ proc[r].pc \notin {"idle", "ok", "failed"}
  <2>1. proc[r].pc \in {"lock", "read", "stat"}
    BY DEF ProcStep, Lock, Read, Mutate, PushUsers, Stat
  <2> QED BY <2>1 DEF Undisturbed, Alone
<1>2. req[r].pc \in {"user", "undoUser"} /\ req'[r] = req[r]
  BY <1>1 DEF CreatePhase, UsersInv, Handlers, Waiting
<1>3. req[r].user # None /\ LastLoad("create") = 2 /\ LastLoad("delete") = 3
  BY <1>1, UserAssumption DEF CreatePhase, LastLoad
<1>4. ASSUME req[r].pc = "user" PROVE Creating(r, req[r].before[1])'
  <2>1. Creating(r, req[r].before[1])
    BY <1>1, <1>4 DEF CreatePhase
  <2>2. Merged(file) = None => overlay = None
    BY DEF Merged
  <2> QED BY SMTT(30), <1>1, <1>3, <2>1, <2>2, ProviderStep DEF Undisturbed, Creating, Created,
      Loading
<1>5. ASSUME req[r].pc = "undoUser" PROVE Removing(r)'
  <2>1. Removing(r)
    BY <1>1, <1>5 DEF CreatePhase
  <2>2. overlay # None => Merged(file) # None
    BY DEF Merged
  <2> QED BY SMTT(30), <1>1, <1>3, <2>1, <2>2, ProviderStep DEF Undisturbed, Removing, Created,
      Loading
<1> QED BY <1>1, <1>2, <1>4, <1>5 DEF CreatePhase

(* A delete goes through its call of DeleteUser, and through the CreateUser*)
(* of its compensation.                                                    *)
LEMMA DeleteCalls ==
  ASSUME UsersInv, Alone, NEW r \in Requests, ProcStep(r), UNCHANGED <<faults, limits, req>>,
         Undisturbed(r), req[r].kind = "delete", NoStore
  PROVE  DeletePhase(r)'
<1>1. DeletePhase(r) /\ faults \in Nat /\ proc[r].pc \notin {"idle", "ok", "failed"}
  <2>1. proc[r].pc \in {"lock", "read", "stat"}
    BY DEF ProcStep, Lock, Read, Mutate, PushUsers, Stat
  <2> QED BY <2>1 DEF Undisturbed, Alone
<1>2. req[r].pc \in {"user", "restoreUser"} /\ req'[r] = req[r]
  BY <1>1 DEF DeletePhase, UsersInv, Handlers, Waiting
<1>3. LastLoad("create") = 2 /\ LastLoad("delete") = 3
  BY DEF LastLoad
<1>4. ASSUME req[r].pc = "user" PROVE Deleting(r, req[r].before[1])'
  <2>1. Deleting(r, req[r].before[1])
    BY <1>1, <1>4 DEF DeletePhase
  <2>2. Source(file)' = Source(file)
    BY <1>1, ProviderStep DEF Undisturbed, Source
  <2> QED BY SMTT(30), <1>1, <1>3, <2>1, <2>2, ProviderStep DEF Undisturbed, Deleting, Gone, Loading
<1>5. ASSUME req[r].pc = "restoreUser" PROVE Recreating(r)'
  <2>1. Recreating(r)
    BY <1>1, <1>5 DEF DeletePhase
  <2>2. Gone => Merged(file) = None
    BY DEF Merged, Gone
  <2> QED
    BY SMTT(30), <1>1, <1>3, <2>1, <2>2, ProviderStep DEF Undisturbed, Recreating, Created, Gone,
        Source, Loading
<1> QED BY <1>1, <1>2, <1>4, <1>5 DEF DeletePhase

-----------------------------------------------------------------------------
(* What a step of a handler does to its record.                            *)
Goes(r) == /\ req'[r].kind = req[r].kind /\ req'[r].user = req[r].user
           /\ req'[r].want = req[r].want /\ req'[r].before = req[r].before
Ended(r) == /\ req'[r].pc = "end" /\ req'[r].since = <<>>
            /\ req'[r].todo = {} /\ req'[r].want = {} /\ req'[r].applied = {}
            /\ req'[r].snap = [f \in Limits |-> None]

(* A create applies its limits one by one, ...                             *)
LEMMA ApplyFacts ==
  ASSUME UsersInv, Unset, NEW r \in Requests, Apply(r)
  PROVE  LET f == First(req[r].todo, "quota", "speed", "sched")
             goes == Goes(r) /\ req'[r].since = req[r].since /\ req'[r].snap = req[r].snap
         IN  /\ \A q \in Requests \ {r} : req'[q] = req[q]
             /\ \/ req[r].todo = {} /\ Ended(r) /\ limits' = limits
                \/ /\ req[r].todo # {} /\ goes /\ req'[r].pc = "apply"
                   /\ f \in req[r].todo /\ limits' = [limits EXCEPT ![f] = r]
                   /\ req'[r].todo = req[r].todo \ {f}
                   /\ req'[r].applied = req[r].applied \cup {f}
                \/ /\ req[r].todo # {} /\ goes /\ req'[r].pc = "undo"
                   /\ req'[r].todo = ToUndo(r) /\ limits' = limits
                   /\ req'[r].applied = req[r].applied
<1> DEFINE f == First(req[r].todo, "quota", "speed", "sched")
<1>1. DOMAIN req = Requests /\ DOMAIN req[r] = Fields /\ req[r].todo \subseteq Limits
  BY DEF UsersInv, Handlers, Unset
<1>2. req[r].todo # {} => f \in req[r].todo
  BY <1>1 DEF First, Limits
<1> HIDE DEF f
<1>3. CASE req[r].todo = {} /\ End(r) /\ UNCHANGED limits
  BY <1>1, <1>3 DEF End, NoRequest, Ended
<1>4. CASE /\ req[r].todo # {} /\ limits' = [limits EXCEPT ![f] = r]
           /\ req' = [req EXCEPT ![r].todo = @ \ {f}, ![r].applied = @ \cup {f}]
  BY SMTT(30), <1>1, <1>2, <1>4 DEF Apply, Fields, Goes
<1>5. CASE /\ req[r].todo # {} /\ UNCHANGED limits
           /\ req' = [req EXCEPT ![r].pc = "undo", ![r].todo = ToUndo(r)]
  BY SMTT(30), <1>1, <1>5 DEF Goes
<1> QED BY <1>3, <1>4, <1>5 DEF Apply, f

(* ... and a rollback removes them.                                        *)
LEMMA RollbackFacts ==
  ASSUME UsersInv, Unset, NEW r \in Requests, RollbackCreatedUser(r)
  PROVE  LET f == First(req[r].todo, "speed", "sched", "quota") IN
         /\ \A q \in Requests \ {r} : req'[q] = req[q]
         /\ Goes(r) /\ req'[r].since = req[r].since /\ req'[r].snap = req[r].snap
         /\ req'[r].applied = req[r].applied
         /\ \/ /\ req'[r].pc = "undo" /\ f \in req[r].todo /\ req'[r].todo = req[r].todo \ {f}
               /\ \/ limits' = [limits EXCEPT ![f] = None] /\ faults' = faults
                  \/ limits' = limits /\ faults' = faults + 1
            \/ /\ req'[r].pc = "undoUser" /\ req[r].todo = {} /\ req'[r].todo = {}
               /\ proc' = [proc EXCEPT ![r] = Call("delete", None)]
               /\ UNCHANGED <<limits, faults>>
<1> DEFINE f == First(req[r].todo, "speed", "sched", "quota")
<1>1. DOMAIN req = Requests /\ DOMAIN req[r] = Fields /\ req[r].todo \subseteq Limits
  BY DEF UsersInv, Handlers, Unset
<1>2. req[r].todo # {} => f \in req[r].todo
  BY <1>1 DEF First, Limits
<1> HIDE DEF f
<1>3. CASE /\ req[r].todo # {} /\ req' = [req EXCEPT ![r].todo = @ \ {f}]
           /\ \/ limits' = [limits EXCEPT ![f] = None] /\ UNCHANGED faults
              \/ Fails(f) /\ faults' = faults + 1 /\ UNCHANGED limits
  BY SMTT(30), <1>1, <1>2 DEF RollbackCreatedUser, Fields, Goes, f
<1>4. CASE /\ req[r].todo = {} /\ req' = [req EXCEPT ![r].pc = "undoUser"]
           /\ proc' = [proc EXCEPT ![r] = Call("delete", None)] /\ UNCHANGED <<limits, faults>>
  BY SMTT(30), <1>1, <1>4 DEF Goes
<1> QED BY <1>3, <1>4 DEF RollbackCreatedUser, f

(* A delete takes its snapshot, ...                                        *)
LEMMA SnapshotFacts ==
  ASSUME UsersInv, Unset, NEW r \in Requests, SnapshotDeleteRuntimeState(r)
  PROVE  LET f == First(req[r].todo, "quota", "speed", "sched") IN
         /\ \A q \in Requests \ {r} : req'[q] = req[q]
         /\ Goes(r) /\ req'[r].since = req[r].since /\ req'[r].applied = req[r].applied
         /\ limits' = limits /\ faults' = faults
         /\ \/ /\ req'[r].pc = "snap" /\ f \in req[r].todo /\ req'[r].todo = req[r].todo \ {f}
               /\ req'[r].snap = [req[r].snap EXCEPT ![f] = limits[f]] /\ proc' = proc
            \/ /\ req'[r].pc = "user" /\ req[r].todo = {} /\ req'[r].todo = {}
               /\ req'[r].snap = req[r].snap
               /\ proc' = [proc EXCEPT ![r] = Call("delete", None)]
<1> DEFINE f == First(req[r].todo, "quota", "speed", "sched")
<1>1. DOMAIN req = Requests /\ DOMAIN req[r] = Fields /\ req[r].todo \subseteq Limits
  BY DEF UsersInv, Handlers, Unset
<1>2. req[r].todo # {} => f \in req[r].todo
  BY <1>1 DEF First, Limits
<1> HIDE DEF f
<1>3. CASE /\ req[r].todo # {} /\ UNCHANGED <<proc, limits, faults>>
           /\ req' = [req EXCEPT ![r].todo = @ \ {f}, ![r].snap[f] = limits[f]]
  BY SMTT(30), <1>1, <1>2 DEF SnapshotDeleteRuntimeState, Fields, Goes, f
<1>4. CASE /\ req[r].todo = {} /\ req' = [req EXCEPT ![r].pc = "user"]
           /\ proc' = [proc EXCEPT ![r] = Call("delete", None)] /\ UNCHANGED <<limits, faults>>
  BY SMTT(30), <1>1, <1>4 DEF Goes
<1> QED BY <1>3, <1>4 DEF SnapshotDeleteRuntimeState, f

(* ... cleans up until a call fails, ...                                   *)
LEMMA CleanupFacts ==
  ASSUME UsersInv, Unset, NEW r \in Requests, CleanupDeleteRuntimeState(r)
  PROVE  LET f == First(req[r].todo, "sched", "speed", "quota")
             goes == Goes(r) /\ req'[r].snap = req[r].snap /\ req'[r].applied = req[r].applied
         IN  /\ \A q \in Requests \ {r} : req'[q] = req[q]
             /\ \/ req[r].todo = {} /\ Ended(r) /\ UNCHANGED <<limits, faults>>
                \/ /\ goes /\ req'[r].pc = "cleanup" /\ req'[r].since = req[r].since
                   /\ f \in req[r].todo /\ req'[r].todo = req[r].todo \ {f}
                   /\ limits' = [limits EXCEPT ![f] = None] /\ faults' = faults
                \/ /\ goes /\ req'[r].pc = "restoreUser" /\ req'[r].since = Allow(req[r].since)
                   /\ req'[r].todo = req[r].todo /\ limits' = limits /\ faults' = faults + 1
                   /\ proc' = [proc EXCEPT ![r] = Call("create", req[r].user)]
<1> DEFINE f == First(req[r].todo, "sched", "speed", "quota")
<1>1. DOMAIN req = Requests /\ DOMAIN req[r] = Fields /\ req[r].todo \subseteq Limits
  BY DEF UsersInv, Handlers, Unset
<1>2. req[r].todo # {} => f \in req[r].todo
  BY <1>1 DEF First, Limits
<1> HIDE DEF f
<1>3. CASE req[r].todo = {} /\ End(r) /\ UNCHANGED <<limits, faults>>
  BY <1>1, <1>3 DEF End, NoRequest, Ended
<1>4. CASE /\ req[r].todo # {} /\ limits' = [limits EXCEPT ![f] = None] /\ UNCHANGED faults
           /\ req' = [req EXCEPT ![r].todo = @ \ {f}]
  BY SMTT(30), <1>1, <1>2, <1>4 DEF CleanupDeleteRuntimeState, Fields, Goes
<1>5. CASE /\ faults' = faults + 1 /\ UNCHANGED limits
           /\ req' = [req EXCEPT ![r].pc = "restoreUser", ![r].since = Allow(@)]
           /\ proc' = [proc EXCEPT ![r] = Call("create", req[r].user)]
  BY SMTT(30), <1>1, <1>5 DEF Goes
<1> QED BY <1>3, <1>4, <1>5 DEF CleanupDeleteRuntimeState, f

(* ... and puts the snapshot back.                                         *)
LEMMA RestoreFacts ==
  ASSUME UsersInv, Unset, NEW r \in Requests, RestoreDeleteRuntimeState(r)
  PROVE  LET f == First(req[r].todo, "quota", "speed", "sched")
             goes == /\ Goes(r) /\ req'[r].since = req[r].since
                     /\ req'[r].snap = req[r].snap /\ req'[r].applied = req[r].applied
         IN  /\ \A q \in Requests \ {r} : req'[q] = req[q]
             /\ \/ req[r].todo = {} /\ Ended(r) /\ limits' = limits
                \/ /\ goes /\ req'[r].pc = "restore"
                   /\ f \in req[r].todo /\ req'[r].todo = req[r].todo \ {f}
                   /\ limits' = [limits EXCEPT ![f] = req[r].snap[f]]
<1> DEFINE f == First(req[r].todo, "quota", "speed", "sched")
<1>1. DOMAIN req = Requests /\ DOMAIN req[r] = Fields /\ req[r].todo \subseteq Limits
  BY DEF UsersInv, Handlers, Unset
<1>2. req[r].todo # {} => f \in req[r].todo
  BY <1>1 DEF First, Limits
<1> HIDE DEF f
<1>3. CASE req[r].todo = {} /\ End(r) /\ UNCHANGED limits
  BY <1>1, <1>3 DEF End, NoRequest, Ended
<1>4. CASE /\ req[r].todo # {} /\ limits' = [limits EXCEPT ![f] = req[r].snap[f]]
           /\ req' = [req EXCEPT ![r].todo = @ \ {f}]
  BY SMTT(30), <1>1, <1>2, <1>4 DEF RestoreDeleteRuntimeState, Fields, Goes
<1> QED BY <1>3, <1>4 DEF RestoreDeleteRuntimeState, f

(* The answers of the provider.                                            *)
LEMMA AnswerFacts ==
  ASSUME UsersInv, Unset, NEW r \in Requests, Answered(r) \/ RolledBack(r) \/ Recreated(r)
  PROVE  LET goes == /\ Goes(r) /\ req'[r].since = req[r].since
                     /\ req'[r].snap = req[r].snap /\ req'[r].applied = req[r].applied
         IN  /\ \A q \in Requests \ {r} : req'[q] = req[q]
             /\ proc' = [proc EXCEPT ![r] = Idle] /\ UNCHANGED <<limits, faults>>
             /\ \/ /\ Ended(r)
                   /\ \/ req[r].pc = "user" /\ (proc[r].pc = "failed" \/ req[r].kind = "patch")
                      \/ req[r].pc = "undoUser"
                \/ /\ goes /\ req'[r].pc = "apply" /\ req'[r].todo = req[r].want
                   /\ req[r].pc = "user" /\ proc[r].pc = "ok" /\ req[r].kind = "create"
                \/ /\ goes /\ req'[r].pc = "cleanup" /\ req'[r].todo = Limits
                   /\ req[r].pc = "user" /\ proc[r].pc = "ok" /\ req[r].kind # "create"
                \/ /\ goes /\ req'[r].pc = "restore" /\ req'[r].todo = ToRestore(r)
                   /\ req[r].pc = "restoreUser" /\ proc[r].pc \in {"ok", "failed"}
<1>1. DOMAIN req = Requests /\ DOMAIN req[r] = Fields
  BY DEF UsersInv, Handlers
<1>2. End(r) => Ended(r) /\ \A q \in Requests \ {r} : req'[q] = req[q]
  BY <1>1 DEF End, NoRequest, Ended
<1>3. CASE Answered(r)
  BY SMTT(30), <1>1, <1>2, <1>3 DEF Answered, Fields, Goes
<1>4. CASE RolledBack(r)
  BY <1>2, <1>4 DEF RolledBack
<1>5. CASE Recreated(r)
  BY SMTT(30), <1>1, <1>5 DEF Recreated, Goes
<1> QED BY <1>3, <1>4, <1>5

-----------------------------------------------------------------------------
(* An undisturbed create keeps to its phases, ...                          *)
LEMMA CreateHandled ==
  ASSUME UsersInv, Unset, NEW r \in Requests, HandlerStep(r), ~Ended(r),
         CreatePhase(r), req[r].kind = "create", UNCHANGED faults, faults \in Nat,
         UNCHANGED <<overlay, file>>
  PROVE  CreatePhase(r)'
<1>1. /\ req[r].pc \in {"user", "apply", "undo", "undoUser"} /\ req[r].user \in Values
      /\ req[r].todo \subseteq Limits /\ req[r].applied \subseteq Limits
      /\ limits \in [Limits -> LimitValues] /\ proc \in [Procs -> ProcRecs] /\ r \in Procs
  BY DEF CreatePhase, Unset, UsersInv, Types, Procs
<1>2. CASE Answered(r) \/ RolledBack(r) \/ Recreated(r)
  <2>1. /\ Goes(r) /\ req'[r].pc = "apply" /\ req'[r].todo = req[r].want
        /\ req[r].pc = "user" /\ proc[r].pc = "ok" /\ limits' = limits
        /\ req'[r].applied = req[r].applied
    BY <1>1, <1>2, AnswerFacts
  <2>2. req[r].before[1] = None /\ Created(r) /\ req[r].applied = {}
    BY <2>1 DEF CreatePhase, Creating, Loading
  <2>3. \A f \in Limits : limits[f] # r
    BY <2>1 DEF CreatePhase
  <2> QED BY <2>1, <2>2 DEF CreatePhase, Created, Goes
<1>3. CASE Apply(r)
  <2>1. req[r].pc = "apply"
    BY <1>3 DEF Apply
  <2>2. /\ req[r].before[1] = None /\ Created(r)
        /\ req[r].applied \cup req[r].todo = req[r].want
        /\ \A f \in req[r].applied : limits[f] = r
        /\ "sched" \in req[r].applied => req[r].todo = {}
        /\ \A f \in Limits : limits[f] = r => f \in req[r].applied
    BY <2>1 DEF CreatePhase
  <2> DEFINE f == First(req[r].todo, "quota", "speed", "sched")
  <2>3. CASE /\ req[r].todo # {} /\ Goes(r) /\ req'[r].pc = "apply"
             /\ f \in req[r].todo /\ limits' = [limits EXCEPT ![f] = r]
             /\ req'[r].todo = req[r].todo \ {f} /\ req'[r].applied = req[r].applied \cup {f}
    <3>1. f = "sched" => req[r].todo = {"sched"}
      BY SMTT(30), <1>1, <2>3 DEF First, Limits
    <3> HIDE DEF f
    <3>2. \A g \in Limits : limits'[g] = IF g = f THEN r ELSE limits[g]
      BY <1>1, <2>3
    <3> QED BY SMTT(30), <1>1, <2>2, <2>3, <3>1 DEF CreatePhase, Created, Goes
  <2>4. CASE /\ req[r].todo # {} /\ Goes(r) /\ req'[r].pc = "undo"
             /\ req'[r].todo = ToUndo(r) /\ limits' = limits
    <3>1. \A g \in req[r].applied : g \in ToUndo(r)
      BY <1>1, <2>2, <2>4 DEF ToUndo, Limits
    <3> QED BY <2>2, <2>4, <3>1 DEF CreatePhase, Created, Goes
  <2> QED BY <1>3, <2>3, <2>4, ApplyFacts
<1>4. CASE RollbackCreatedUser(r)
  <2>1. req[r].pc = "undo"
    BY <1>4 DEF RollbackCreatedUser
  <2>2. /\ req[r].before[1] = None /\ Created(r)
        /\ \A f \in Limits : limits[f] = r => f \in req[r].todo
    BY <2>1 DEF CreatePhase
  <2> DEFINE f == First(req[r].todo, "speed", "sched", "quota")
  <2>3. CASE /\ Goes(r) /\ req'[r].pc = "undo" /\ f \in req[r].todo
             /\ req'[r].todo = req[r].todo \ {f} /\ limits' = [limits EXCEPT ![f] = None]
    <3> HIDE DEF f
    <3>1. \A g \in Limits : limits'[g] = IF g = f THEN None ELSE limits[g]
      BY <1>1, <2>3
    <3> QED BY <1>1, <2>2, <2>3, UserAssumption DEF CreatePhase, Created, Goes
  <2>4. CASE /\ Goes(r) /\ req'[r].pc = "undoUser" /\ req[r].todo = {} /\ limits' = limits
             /\ proc' = [proc EXCEPT ![r] = Call("delete", None)]
    <3>1. Loading(r, "delete", 1)'
      BY SMTT(30), <1>1, <2>4 DEF Loading, Call
    <3> QED BY <2>2, <2>4, <3>1 DEF CreatePhase, Created, Removing, Goes
  <2>5. faults' # faults + 1
    BY SMTT(30)
  <2> QED BY SMTT(30), <1>4, <2>3, <2>4, RollbackFacts
<1> QED
  BY <1>1, <1>2, <1>3, <1>4 DEF HandlerStep, SnapshotDeleteRuntimeState,
      CleanupDeleteRuntimeState, RestoreDeleteRuntimeState

(* ... and so does an undisturbed delete.                                  *)
LEMMA DeleteHandled ==
  ASSUME UsersInv, Unset, NEW r \in Requests, HandlerStep(r), ~Ended(r),
         DeletePhase(r), req[r].kind = "delete", UNCHANGED <<overlay, deleted, file, cache>>
  PROVE  DeletePhase(r)'
<1> DEFINE was == req[r].before[2]
<1>1. /\ req[r].pc \in {"snap", "user", "cleanup", "restoreUser", "restore"}
      /\ was \in [Limits -> LimitValues] /\ req[r].snap \in [Limits -> LimitValues]
      /\ req[r].todo \subseteq Limits
      /\ limits \in [Limits -> LimitValues] /\ proc \in [Procs -> ProcRecs] /\ r \in Procs
  BY DEF DeletePhase, Unset, UsersInv, Types, Procs
<1>2. Gone = Gone'
  BY DEF Gone, Source
<1>3. CASE SnapshotDeleteRuntimeState(r)
  <2>1. req[r].pc = "snap"
    BY <1>3 DEF SnapshotDeleteRuntimeState
  <2>2. /\ limits = was /\ overlay = req[r].before[1]
        /\ \A f \in Limits : req[r].snap[f] = was[f] \/ f \in req[r].todo
    BY <2>1 DEF DeletePhase
  <2> DEFINE f == First(req[r].todo, "quota", "speed", "sched")
  <2>3. CASE /\ Goes(r) /\ limits' = limits /\ req'[r].pc = "snap" /\ f \in req[r].todo
             /\ req'[r].todo = req[r].todo \ {f}
             /\ req'[r].snap = [req[r].snap EXCEPT ![f] = limits[f]]
    <3> HIDE DEF f
    <3>1. \A g \in Limits : req'[r].snap[g] = IF g = f THEN limits[f] ELSE req[r].snap[g]
      BY <1>1, <2>3
    <3> QED BY SMTT(30), <1>1, <2>2, <2>3 DEF DeletePhase, Goes
  <2>4. CASE /\ Goes(r) /\ limits' = limits /\ req'[r].pc = "user" /\ req[r].todo = {}
             /\ req'[r].snap = req[r].snap
             /\ proc' = [proc EXCEPT ![r] = Call("delete", None)]
    <3>1. Loading(r, "delete", 1)'
      BY SMTT(30), <1>1, <2>4 DEF Loading, Call
    <3> QED BY <2>2, <2>4, <3>1 DEF DeletePhase, Deleting, Goes
  <2> QED BY <1>3, <2>3, <2>4, SnapshotFacts
<1>4. CASE Answered(r) \/ RolledBack(r) \/ Recreated(r)
  <2>1. \A f \in Limits : req[r].pc # "snap" => req[r].snap[f] = was[f]
    BY DEF DeletePhase
  <2>2. CASE /\ Goes(r) /\ req'[r].pc = "cleanup" /\ req'[r].todo = Limits /\ limits' = limits
             /\ req'[r].snap = req[r].snap /\ req[r].pc = "user" /\ proc[r].pc = "ok"
    <3>1. Gone /\ limits = was
      BY <2>2 DEF DeletePhase, Deleting, Loading
    <3> QED BY <1>2, <2>2, <3>1 DEF DeletePhase, Goes
  <2>3. CASE /\ Goes(r) /\ req'[r].pc = "restore" /\ req'[r].todo = ToRestore(r)
             /\ limits' = limits /\ req'[r].snap = req[r].snap
             /\ req[r].pc = "restoreUser" /\ proc[r].pc \in {"ok", "failed"}
    <3>1. overlay = req[r].user /\ \A f \in Limits : limits[f] \in {None, was[f]}
      BY <2>3 DEF DeletePhase, Recreating, Loading, Created
    <3>2. \A f \in Limits : f \notin ToRestore(r) => was[f] = None
      BY <2>1, <2>3 DEF ToRestore
    <3> QED BY <2>3, <3>1, <3>2 DEF DeletePhase, Goes
  <2> QED BY <1>4, <2>2, <2>3, AnswerFacts
<1>5. CASE CleanupDeleteRuntimeState(r)
  <2>1. req[r].pc = "cleanup"
    BY <1>5 DEF CleanupDeleteRuntimeState
  <2>2. /\ Gone /\ \A f \in Limits : /\ req[r].snap[f] = was[f]
                                     /\ limits[f] = IF f \in req[r].todo THEN was[f] ELSE None
    BY <2>1 DEF DeletePhase
  <2> DEFINE f == First(req[r].todo, "sched", "speed", "quota")
  <2>3. CASE /\ Goes(r) /\ req'[r].snap = req[r].snap /\ req'[r].pc = "cleanup"
             /\ f \in req[r].todo /\ req'[r].todo = req[r].todo \ {f}
             /\ limits' = [limits EXCEPT ![f] = None]
    <3> HIDE DEF f
    <3>1. \A g \in Limits : limits'[g] = IF g = f THEN None ELSE limits[g]
      BY <1>1, <2>3
    <3> QED BY SMTT(30), <1>2, <2>2, <2>3, <3>1 DEF DeletePhase, Goes
  <2>4. CASE /\ Goes(r) /\ req'[r].snap = req[r].snap /\ req'[r].pc = "restoreUser"
             /\ limits' = limits /\ proc' = [proc EXCEPT ![r] = Call("create", req[r].user)]
    <3>1. Loading(r, "create", 1)' /\ proc'[r].arg = req[r].user
      BY SMTT(30), <1>1, <2>4 DEF Loading, Call
    <3>2. Recreating(r)'
      BY <1>2, <2>2, <2>4, <3>1 DEF Recreating, Goes
    <3> QED BY <2>2, <2>4, <3>2 DEF DeletePhase, Goes
  <2> QED BY <1>5, <2>3, <2>4, CleanupFacts
<1>6. CASE RestoreDeleteRuntimeState(r)
  <2>1. req[r].pc = "restore"
    BY <1>6 DEF RestoreDeleteRuntimeState
  <2>2. /\ overlay = req[r].user /\ \A f \in Limits : req[r].snap[f] = was[f]
        /\ \A f \in Limits \ req[r].todo : limits[f] = was[f]
    BY <2>1 DEF DeletePhase
  <2> DEFINE f == First(req[r].todo, "quota", "speed", "sched")
  <2>3. /\ Goes(r) /\ req'[r].snap = req[r].snap /\ req'[r].pc = "restore"
        /\ f \in req[r].todo /\ req'[r].todo = req[r].todo \ {f}
        /\ limits' = [limits EXCEPT ![f] = req[r].snap[f]]
    BY <1>6, RestoreFacts
  <2> HIDE DEF f
  <2>4. \A g \in Limits : limits'[g] = IF g = f THEN req[r].snap[f] ELSE limits[g]
    BY <1>1, <2>3
  <2>5. \A g \in Limits \ req'[r].todo : limits'[g] = was[g]
    BY SMTT(30), <2>2, <2>3, <2>4
  <2> HIDE DEF was
  <2>6. req'[r].before[2] = was /\ req'[r].user = req[r].user
    BY <2>3 DEF Goes, was
  <2> QED BY SMTT(30), <1>1, <2>2, <2>3, <2>6 DEF DeletePhase
<1> QED BY <1>1, <1>3, <1>4, <1>5, <1>6 DEF HandlerStep, Apply, RollbackCreatedUser

-----------------------------------------------------------------------------
(* A step of a handler leaves its request alone and the limits of requests *)
(* to come unset, ...                                                      *)
LEMMA HandlerSets ==
  ASSUME UsersInv, Unset, NEW r \in Requests, HandlerStep(r)
  PROVE  /\ \A q \in Requests \ {r} : req'[q] = req[q]
         /\ req[r].pc \notin {"idle", "end"} /\ req'[r].pc # "idle"
         /\ req'[r].todo \subseteq Limits /\ req'[r].want \subseteq Limits
         /\ req'[r].applied \subseteq Limits
         /\ limits' \in [Limits -> LimitValues] /\ req'[r].snap \in [Limits -> LimitValues]
         /\ \A f \in Limits : /\ limits'[f] \in {None, r, limits[f], req[r].snap[f]}
                              /\ req'[r].snap[f] \in {None, limits[f], req[r].snap[f]}
<1>1. /\ limits \in [Limits -> LimitValues] /\ req[r].snap \in [Limits -> LimitValues]
      /\ req[r].todo \subseteq Limits /\ req[r].want \subseteq Limits
      /\ req[r].applied \subseteq Limits /\ None \in LimitValues /\ r \in LimitValues
  BY DEF Unset, LimitValues
<1>2. CASE SnapshotDeleteRuntimeState(r)
  <2>1. req[r].pc = "snap"
    BY <1>2 DEF SnapshotDeleteRuntimeState
  <2> DEFINE f == First(req[r].todo, "quota", "speed", "sched")
  <2>2. /\ \A q \in Requests \ {r} : req'[q] = req[q]
        /\ req'[r].want = req[r].want /\ req'[r].applied = req[r].applied /\ limits' = limits
        /\ req'[r].pc \in {"snap", "user"} /\ req'[r].todo \subseteq req[r].todo
        /\ \/ req'[r].snap = req[r].snap
           \/ f \in req[r].todo /\ req'[r].snap = [req[r].snap EXCEPT ![f] = limits[f]]
    BY <1>2, SnapshotFacts DEF Goes
  <2> HIDE DEF f
  <2> QED BY <1>1, <2>1, <2>2
<1>3. CASE Answered(r) \/ RolledBack(r) \/ Recreated(r)
  <2>1. req[r].pc \notin {"idle", "end"} /\ ToRestore(r) \subseteq Limits
    BY <1>3 DEF Answered, RolledBack, Recreated, ToRestore
  <2> QED BY SMTT(30), <1>1, <1>3, <2>1, AnswerFacts DEF Goes, Ended
<1>4. CASE Apply(r)
  <2>1. req[r].pc \notin {"idle", "end"} /\ ToUndo(r) \subseteq Limits
    BY <1>4 DEF Apply, ToUndo, Limits
  <2> QED BY SMTT(30), <1>1, <1>4, <2>1, ApplyFacts DEF Goes, Ended
<1>5. CASE RollbackCreatedUser(r)
  <2> DEFINE f == First(req[r].todo, "speed", "sched", "quota")
  <2>1. req[r].pc = "undo"
    BY <1>5 DEF RollbackCreatedUser
  <2>2. /\ \A q \in Requests \ {r} : req'[q] = req[q]
        /\ req'[r].want = req[r].want /\ req'[r].applied = req[r].applied
        /\ req'[r].snap = req[r].snap /\ req'[r].pc \in {"undo", "undoUser"}
        /\ req'[r].todo \subseteq req[r].todo
        /\ limits' = limits \/ limits' = [limits EXCEPT ![f] = None]
    BY <1>5, RollbackFacts DEF Goes
  <2> HIDE DEF f
  <2> QED BY <1>1, <2>1, <2>2
<1>6. CASE CleanupDeleteRuntimeState(r)
  BY SMTT(30), <1>1, <1>6, CleanupFacts DEF CleanupDeleteRuntimeState, Goes, Ended
<1>7. CASE RestoreDeleteRuntimeState(r)
  BY SMTT(30), <1>1, <1>7, RestoreFacts DEF RestoreDeleteRuntimeState, Goes, Ended
<1> QED BY <1>2, <1>3, <1>4, <1>5, <1>6, <1>7 DEF HandlerStep

(* so that no limit carries the name of a request that has not begun, ...  *)
LEMMA HandlerUnset ==
  ASSUME UsersInv, Unset, NEW r \in Requests, HandlerStep(r)
  PROVE  Unset'
<1>1. \A q \in Requests : q # r => req'[q] = req[q]
  BY HandlerSets
<1>2. ASSUME NEW q \in Requests, req'[q].pc = "idle", NEW f \in Limits
      PROVE  limits'[f] # q /\ \A s \in Requests : req'[s].snap[f] # q
  <2>1. q # r /\ req[q].pc = "idle"
    BY <1>2, HandlerSets
  <2>2. limits[f] # q /\ (\A s \in Requests : req[s].snap[f] # q) /\ q # None
    BY <2>1, UserAssumption DEF Unset
  <2> QED BY SMTT(30), <2>1, <2>2, HandlerSets
<1>3. ASSUME NEW q \in Requests
      PROVE  /\ req'[q].snap \in [Limits -> LimitValues]
             /\ req'[q].todo \subseteq Limits /\ req'[q].want \subseteq Limits
             /\ req'[q].applied \subseteq Limits
  BY HandlerSets DEF Unset
<1>4. limits' \in [Limits -> LimitValues]
  BY HandlerSets
<1> QED BY <1>2, <1>3, <1>4 DEF Unset

(* ... and counts a failure it allows for only with the count.             *)
LEMMA HandlerCounts ==
  ASSUME UsersInv, Unset, NEW r \in Requests, HandlerStep(r), faults \in Nat
  PROVE  /\ UNCHANGED <<edits, file, cache, overlay, deleted>>
         /\ faults' \in {faults, faults + 1}
         /\ \/ Ended(r)
            \/ req'[r].since = req[r].since /\ req'[r].pc # "end"
            \/ /\ req'[r].since = Allow(req[r].since) /\ faults' = faults + 1
               /\ req'[r].pc # "end" /\ req[r].pc = "cleanup"
<1>1. UNCHANGED <<edits, file, cache, overlay, deleted>>
  BY DEF HandlerStep, SnapshotDeleteRuntimeState, Answered, Apply, RollbackCreatedUser,
      RolledBack, CleanupDeleteRuntimeState, Recreated, RestoreDeleteRuntimeState, Rest,
      sourceVars, userVars
<1>2. CASE SnapshotDeleteRuntimeState(r)
  BY <1>1, <1>2, SnapshotFacts
<1>3. CASE Answered(r) \/ RolledBack(r) \/ Recreated(r)
  BY <1>1, <1>3, AnswerFacts
<1>4. CASE Apply(r)
  <2>1. faults' = faults
    BY <1>4 DEF Apply
  <2> QED BY <1>1, <1>4, <2>1, ApplyFacts
<1>5. CASE RollbackCreatedUser(r)
  BY <1>1, <1>5, RollbackFacts
<1>6. CASE CleanupDeleteRuntimeState(r)
  <2>1. req[r].pc = "cleanup"
    BY <1>6 DEF CleanupDeleteRuntimeState
  <2> QED BY <1>1, <1>6, <2>1, CleanupFacts
<1>7. CASE RestoreDeleteRuntimeState(r)
  <2>1. faults' = faults
    BY <1>7 DEF RestoreDeleteRuntimeState
  <2> QED BY <1>1, <1>7, <2>1, RestoreFacts
<1> QED BY <1>2, <1>3, <1>4, <1>5, <1>6, <1>7 DEF HandlerStep

(* A step of a handler keeps an undisturbed request in its phases.         *)
LEMMA HandlerAtomic ==
  ASSUME UsersInv, AtomicInv, NEW r \in Requests, HandlerStep(r)
  PROVE  AtomicInv'
<1>1. Unset /\ Unset' /\ Alone /\ edits \in Nat /\ faults \in Nat
  BY HandlerUnset DEF AtomicInv, Alone
<1>2. /\ \A q \in Requests \ {r} : req'[q] = req[q]
      /\ req[r].pc \notin {"idle", "end"} /\ req'[r].pc # "idle"
  BY <1>1, HandlerSets
<1>3. /\ edits' = edits /\ edits' \in Nat /\ faults' \in Nat /\ faults' >= faults
      /\ UNCHANGED <<file, cache, overlay, deleted>>
  BY SMTT(30), <1>1, HandlerCounts
<1>4. /\ \A p \in Procs \ {r} : proc'[p] = proc[p]
      /\ proc'[r] = proc[r] \/ proc'[r].pc \in {"idle", "lock"}
  <2>1. proc \in [Procs -> ProcRecs] /\ r \in Procs
    BY DEF UsersInv, Types, Procs
  <2>2. HandlerFrame(r)
    BY StepFrame
  <2>3. \/ UNCHANGED proc \/ proc' = [proc EXCEPT ![r] = Idle]
        \/ \E c, v : proc' = [proc EXCEPT ![r] = Call(c, v)]
    BY <2>2 DEF HandlerFrame
  <2>4. Idle.pc = "idle" /\ \A c, v : Call(c, v).pc = "lock"
    BY DEF Call, Idle
  <2> QED BY SMTT(30), <2>1, <2>3, <2>4
<1>5. ASSUME NEW q \in Requests, q # r, req'[q].since # <<>> PROVE FALSE
  <2>1. req[q].since # <<>> /\ r \in Requests \ {q}
    BY <1>2, <1>5
  <2>2. ~Active(r)
    BY <1>1, <2>1 DEF Alone
  <2> QED BY <1>2, <2>2 DEF Active
<1>6. ASSUME req'[r].since # <<>>
      PROVE  /\ req[r].since # <<>> /\ ~Ended(r) /\ Active(r)'
             /\ \A q \in Requests \ {r} : ~Active(q)'
             /\ \E e \in 0..edits', n \in 0..faults' : req'[r].since = <<e, n>>
  <2>1. ~Ended(r) /\ req[r].since # <<>> /\ req'[r].pc # "end"
    BY <1>1, <1>6, HandlerCounts DEF Ended, Allow
  <2>2. PICK e \in 0..edits, n \in 0..faults : req[r].since = <<e, n>>
    BY <1>1, <2>1 DEF Alone
  <2>3. \A q \in Requests \ {r} : ~Active(q)
    BY <1>1, <2>1 DEF Alone
  <2>4. Active(r)' /\ \A q \in Requests \ {r} : ~Active(q)'
    BY <1>2, <2>1, <2>3 DEF Active
  <2>5. CASE req'[r].since = req[r].since
    BY SMTT(30), <1>1, <1>3, <2>1, <2>2, <2>4, <2>5
  <2>6. CASE req'[r].since = Allow(req[r].since) /\ faults' = faults + 1
    <3>1. req'[r].since = <<e, n + 1>> /\ n + 1 \in 0..faults' /\ e \in 0..edits'
      BY SMTT(30), <1>1, <1>3, <2>2, <2>6 DEF Allow
    <3> QED BY <2>1, <2>4, <3>1
  <2> QED BY <1>1, <2>1, <2>5, <2>6, HandlerCounts
<1>7. Alone'
  <2>1. ASSUME NEW p \in Sources PROVE proc'[p] = proc[p]
    BY <1>4, UserAssumption DEF Procs
  <2>2. ASSUME NEW p \in Sources, proc'[p].pc \in {"lock", "read", "stat"}
        PROVE  proc'[p].call = "update"
    BY <1>1, <2>1, <2>2 DEF Alone
  <2> QED BY <1>3, <1>5, <1>6, <2>2 DEF Alone
<1>8. ASSUME Quiet(r)' PROVE Undisturbed(r)'
  <2>1. req'[r].since = <<edits', faults'>> /\ req'[r].since # <<>>
    BY SMTT(30), <1>8 DEF Quiet
  <2>2. ~Ended(r) /\ req[r].since # <<>>
    BY <1>6, <2>1
  <2>3. PICK e \in 0..edits, n \in 0..faults : req[r].since = <<e, n>>
    BY <1>1, <2>2 DEF Alone
  <2>4. Quiet(r) /\ (req[r].pc # "cleanup" => UNCHANGED faults)
    <3>1. CASE req'[r].since = req[r].since
      BY SMTT(30), <1>1, <1>3, <2>1, <2>3, <3>1 DEF Quiet
    <3>2. CASE /\ req'[r].since = Allow(req[r].since) /\ faults' = faults + 1
               /\ req[r].pc = "cleanup"
      BY SMTT(30), <1>1, <1>3, <2>1, <2>3, <3>2 DEF Quiet, Allow
    <3> QED BY <1>1, <2>2, <3>1, <3>2, HandlerCounts
  <2>5. Undisturbed(r)
    BY <2>4 DEF AtomicInv
  <2>6. req'[r].kind = req[r].kind
    BY <1>1, <2>2, SnapshotFacts, ApplyFacts, RollbackFacts, CleanupFacts, RestoreFacts,
        AnswerFacts DEF HandlerStep, Goes
  <2>7. req[r].kind = "create" => CreatePhase(r)'
    <3>1. SUFFICES ASSUME req[r].kind = "create" PROVE CreatePhase(r)'
      OBVIOUS
    <3>2. CreatePhase(r)
      BY <2>5, <3>1 DEF Undisturbed
    <3>3. UNCHANGED faults
      BY <2>4, <3>2 DEF CreatePhase
    <3> QED BY <1>1, <1>3, <2>2, <3>1, <3>2, <3>3, CreateHandled
  <2>8. req[r].kind = "delete" /\ NoStore => DeletePhase(r)'
    BY <1>1, <1>3, <2>2, <2>5, DeleteHandled DEF Undisturbed
  <2>9. proc'[r].pc = "stat" => proc'[r].read = file' /\ file' # Bad
    BY <1>3, <1>4, <2>5 DEF Undisturbed
  <2> QED BY <2>6, <2>7, <2>8, <2>9 DEF Undisturbed
<1>9. ASSUME NEW q \in Requests, q # r PROVE ~Quiet(q)'
  BY SMTT(30), <1>5, <1>9 DEF Quiet
<1> QED BY <1>1, <1>7, <1>8, <1>9 DEF AtomicInv

-----------------------------------------------------------------------------
(* A request that begins alone remembers what it finds; one that does not  *)
(* disturbs the others.                                                    *)
LEMMA BeginSets ==
  ASSUME UsersInv, Unset, NEW r \in Requests, NEW rec, Begin(r, rec), DOMAIN rec = Fields,
         rec.since = <<>>
  PROVE  /\ req[r].pc = "idle" /\ proc[r].pc = "idle"
         /\ \A f \in Fields \ {"before", "since"} : req'[r][f] = rec[f]
         /\ \A q \in Requests \ {r} :
              /\ req'[q].pc = req[q].pc /\ req'[q].snap = req[q].snap
              /\ req'[q].todo = req[q].todo /\ req'[q].want = req[q].want
              /\ req'[q].applied = req[q].applied
              /\ req'[q].since = IF Active(q) THEN <<>> ELSE req[q].since
         /\ \/ req'[r].since = <<>>
            \/ /\ req'[r].since = <<edits, faults>> /\ req'[r].before = <<overlay, limits>>
               /\ rec.pc # "end" /\ \A q \in Requests \ {r} : ~Active(q)
<1>1. DOMAIN req = Requests /\ \A q \in Requests : DOMAIN req[q] = Fields
  BY DEF UsersInv, Handlers
<1>2. req[r].pc = "idle" /\ proc[r].pc = "idle"
  BY DEF Begin, UsersInv, Handlers, Waiting
<1>3. ASSUME NEW q \in Requests \ {r}
      PROVE  /\ req'[q].pc = req[q].pc /\ req'[q].snap = req[q].snap
             /\ req'[q].todo = req[q].todo /\ req'[q].want = req[q].want
             /\ req'[q].applied = req[q].applied
             /\ req'[q].since = IF Active(q) THEN <<>> ELSE req[q].since
  <2>1. req'[q] = IF Active(q) THEN [req[q] EXCEPT !.before = <<>>, !.since = <<>>] ELSE req[q]
    BY DEF Begin
  <2> QED BY SMTT(30), <2>1
<1>4. \/ req'[r] = rec
      \/ /\ req'[r] = [rec EXCEPT !.before = <<overlay, limits>>, !.since = <<edits, faults>>]
         /\ rec.pc # "end" /\ \A q \in Requests \ {r} : ~Active(q)
  BY DEF Begin
<1>5. /\ \A f \in Fields \ {"before", "since"} : req'[r][f] = rec[f]
      /\ \/ req'[r].since = <<>>
         \/ /\ req'[r].since = <<edits, faults>> /\ req'[r].before = <<overlay, limits>>
            /\ rec.pc # "end" /\ \A q \in Requests \ {r} : ~Active(q)
  BY <1>4 DEF Fields
<1> QED BY <1>2, <1>3, <1>5

(* The phases of a request that has just begun.                            *)
LEMMA BeginAtomic ==
  ASSUME UsersInv, AtomicInv, NEW r \in Requests, NEW rec, Begin(r, rec), DOMAIN rec = Fields,
         rec.since = <<>>, rec.snap = [f \in Limits |-> None], rec.applied = {}, rec.pc # "idle",
         rec.todo \subseteq Limits, rec.want \subseteq Limits,
         UNCHANGED <<file, cache, overlay, deleted, edits, faults>>,
         \A p \in Procs \ {r} : proc'[p] = proc[p], proc'[r].pc \in {"idle", "lock"},
         \/ limits' = limits
         \/ rec.pc = "end" /\ \E f \in Limits, v \in {r, None} : limits' = [limits EXCEPT ![f] = v],
         \/ rec.pc = "end" \/ rec.kind = "patch"
         \/ /\ rec.kind = "create" /\ rec.pc = "user" /\ rec.user \in Values
            /\ proc'[r] = Call("create", rec.user)
         \/ rec.kind = "delete" /\ rec.pc = "snap" /\ rec.todo = Limits
  PROVE  AtomicInv'
<1>1. Unset /\ Alone /\ edits \in Nat /\ faults \in Nat
  BY DEF AtomicInv, Alone
<1>2. /\ req[r].pc = "idle" /\ proc[r].pc = "idle"
      /\ req'[r].pc = rec.pc /\ req'[r].kind = rec.kind /\ req'[r].user = rec.user
      /\ req'[r].snap = rec.snap /\ req'[r].todo = rec.todo /\ req'[r].want = rec.want
      /\ req'[r].applied = rec.applied
  BY SMTT(30), <1>1, BeginSets DEF Fields
<1>3. \A q \in Requests \ {r} : req'[q].since = <<>>
  BY SMTT(30), <1>1, BeginSets DEF Alone
<1>4. \A f \in Limits : limits[f] # r /\ \A q \in Requests : req[q].snap[f] # r
  BY <1>1, <1>2 DEF Unset
<1>5. Unset'
  <2>1. /\ limits \in [Limits -> LimitValues] /\ r \in LimitValues /\ None \in LimitValues
        /\ \A q \in Requests : req[q].snap \in [Limits -> LimitValues]
    BY <1>1 DEF Unset, LimitValues
  <2>2. limits' \in [Limits -> LimitValues] /\ \A f \in Limits : limits'[f] \in {limits[f], r, None}
    BY SMTT(30), <2>1
  <2>3. ASSUME NEW q \in Requests, req'[q].pc = "idle", NEW f \in Limits
        PROVE  limits'[f] # q /\ \A s \in Requests : req'[s].snap[f] # q
    <3>1. q # r /\ req[q].pc = "idle"
      BY <1>1, <1>2, <2>3, BeginSets
    <3>2. limits[f] # q /\ (\A s \in Requests : req[s].snap[f] # q) /\ q # None
      BY <1>1, <3>1, UserAssumption DEF Unset
    <3>3. limits'[f] # q
      BY <2>2, <3>1, <3>2
    <3>4. ASSUME NEW s \in Requests PROVE req'[s].snap[f] # q
      <4>1. CASE s = r
        BY SMTT(30), <1>2, <3>2, <4>1
      <4>2. CASE s # r
        BY SMTT(30), <1>1, <3>2, <4>2, BeginSets
      <4> QED BY <4>1, <4>2
    <3> QED BY <3>3, <3>4
  <2>4. ASSUME NEW q \in Requests
        PROVE  /\ req'[q].snap \in [Limits -> LimitValues]
               /\ req'[q].todo \subseteq Limits /\ req'[q].want \subseteq Limits
               /\ req'[q].applied \subseteq Limits
    <3>1. CASE q = r
      BY SMTT(30), <1>2, <2>1, <3>1
    <3>2. CASE q # r
      <4>1. /\ req'[q].snap = req[q].snap /\ req'[q].todo = req[q].todo
            /\ req'[q].want = req[q].want /\ req'[q].applied = req[q].applied
        BY ZenonT(90), <1>1, <3>2, BeginSets
      <4> QED BY <1>1, <4>1 DEF Unset
    <3> QED BY <3>1, <3>2
  <2> QED BY <2>2, <2>3, <2>4 DEF Unset
<1>6. Alone'
  <2>1. ASSUME req'[r].since # <<>>
        PROVE  /\ Active(r)' /\ \A q \in Requests \ {r} : ~Active(q)'
               /\ \E e \in 0..edits', n \in 0..faults' : req'[r].since = <<e, n>>
    <3>1. /\ req'[r].since = <<edits, faults>> /\ rec.pc # "end"
          /\ \A q \in Requests \ {r} : ~Active(q)
      BY <1>1, <2>1, BeginSets
    <3>2. \A q \in Requests \ {r} : req'[q].pc = req[q].pc
      BY <1>1, BeginSets
    <3>3. edits \in 0..edits' /\ faults \in 0..faults'
      BY SMTT(30), <1>1
    <3> QED BY <1>2, <3>1, <3>2, <3>3 DEF Active
  <2>2. ASSUME NEW p \in Sources PROVE proc'[p] = proc[p]
    BY UserAssumption DEF Procs
  <2>3. ASSUME NEW p \in Sources, proc'[p].pc \in {"lock", "read", "stat"}
        PROVE  proc'[p].call = "update"
    BY <1>1, <2>2, <2>3 DEF Alone
  <2> QED BY SMTT(30), <1>1, <1>3, <2>1, <2>3 DEF Alone
<1>7. ASSUME Quiet(r)' PROVE Undisturbed(r)'
  <2>1. /\ req'[r].before = <<overlay, limits>> /\ rec.pc # "end"
    BY SMTT(30), <1>1, <1>7, BeginSets DEF Quiet
  <2>2. limits' = limits /\ req'[r].before[1] = overlay /\ req'[r].before[2] = limits
    BY SMTT(30), <2>1
  <2>3. CASE rec.kind = "create" /\ rec.pc = "user" /\ rec.user \in Values
             /\ proc'[r] = Call("create", rec.user)
    <3>1. Loading(r, "create", 1)' /\ proc'[r].arg = rec.user
      BY SMTT(30), <2>3 DEF Loading, Call
    <3> QED BY <1>2, <1>4, <2>2, <2>3, <3>1 DEF Undisturbed, CreatePhase, Creating
  <2>4. CASE rec.kind = "delete" /\ rec.pc = "snap" /\ rec.todo = Limits
    <3>1. limits \in [Limits -> LimitValues]
      BY <1>1 DEF Unset
    <3> QED BY <1>2, <2>2, <2>4, <3>1 DEF Undisturbed, DeletePhase
  <2>5. CASE rec.kind = "patch"
    BY <1>2, <2>5 DEF Undisturbed
  <2> QED BY <2>1, <2>3, <2>4, <2>5
<1>8. ASSUME NEW q \in Requests, q # r PROVE ~Quiet(q)'
  BY SMTT(30), <1>3, <1>8 DEF Quiet
<1> QED BY <1>5, <1>6, <1>7, <1>8 DEF AtomicInv

(* The routes that begin a request.                                        *)
LEMMA RouteAtomic ==
  ASSUME UsersInv, AtomicInv, NEW r \in Requests,
         \/ \E v \in Values : CreateUserHandler(r, v) \/ UpdateUserHandler(r, v)
         \/ DeleteUserHandler(r) \/ \E f \in UNION Wants : LimitHandler(r, f)
  PROVE  AtomicInv'
<1>1. proc \in [Procs -> ProcRecs] /\ r \in Procs /\ req[r].pc = "idle" /\ proc[r].pc = "idle"
  BY DEF UsersInv, Types, Procs, Handlers, Waiting, CreateUserHandler, UpdateUserHandler,
      DeleteUserHandler, LimitHandler, Begin
<1>2. UNCHANGED <<file, cache, overlay, deleted, edits, faults>>
  BY DEF CreateUserHandler, UpdateUserHandler, DeleteUserHandler, LimitHandler, Rest, sourceVars,
      userVars
<1>3. ASSUME NEW c, NEW v, proc' = [proc EXCEPT ![r] = Call(c, v)]
      PROVE  /\ proc'[r] = Call(c, v) /\ proc'[r].pc = "lock"
             /\ \A p \in Procs \ {r} : proc'[p] = proc[p]
  BY SMTT(30), <1>1, <1>3 DEF Call
<1>4. ASSUME NEW v \in Values, CreateUserHandler(r, v) PROVE AtomicInv'
  <2>1. PICK want \in Wants : \E bad :
          Begin(r, [NoRequest EXCEPT !.pc = "user", !.kind = "create", !.user = v,
                                     !.want = want, !.bad = bad])
    BY <1>4 DEF CreateUserHandler
  <2>2. PICK bad : Begin(r, [NoRequest EXCEPT !.pc = "user", !.kind = "create", !.user = v,
                                              !.want = want, !.bad = bad])
    BY <2>1
  <2> DEFINE rec == [NoRequest EXCEPT !.pc = "user", !.kind = "create", !.user = v,
                                      !.want = want, !.bad = bad]
  <2>3. /\ DOMAIN rec = Fields /\ rec.user = v /\ rec.pc = "user" /\ rec.kind = "create"
        /\ rec.since = <<>> /\ rec.snap = [f \in Limits |-> None] /\ rec.applied = {}
        /\ rec.todo = {} /\ rec.want \subseteq Limits
    BY AdminAssumption DEF NoRequest, Fields
  <2>4. proc' = [proc EXCEPT ![r] = Call("create", v)] /\ limits' = limits
    BY <1>4 DEF CreateUserHandler
  <2>5. Begin(r, rec) /\ rec.todo \subseteq Limits /\ rec.user \in Values /\ rec.pc # "idle"
    BY <2>2, <2>3
  <2> HIDE DEF rec
  <2>6. /\ proc'[r] = Call("create", rec.user) /\ proc'[r].pc \in {"idle", "lock"}
        /\ \A p \in Procs \ {r} : proc'[p] = proc[p]
    <3>1. /\ proc'[r] = Call("create", v) /\ proc'[r].pc = "lock"
          /\ \A p \in Procs \ {r} : proc'[p] = proc[p]
      BY <1>3, <2>4
    <3> QED BY <2>3, <3>1
  <2> QED BY <1>2, <2>3, <2>4, <2>5, <2>6, BeginAtomic
<1>5. ASSUME NEW v \in Values, UpdateUserHandler(r, v) PROVE AtomicInv'
  <2> DEFINE rec == [NoRequest EXCEPT !.pc = "user", !.kind = "patch", !.user = v]
  <2>1. /\ DOMAIN rec = Fields /\ rec.pc = "user" /\ rec.kind = "patch"
        /\ rec.since = <<>> /\ rec.snap = [f \in Limits |-> None] /\ rec.applied = {}
        /\ rec.todo = {} /\ rec.want = {}
    BY DEF NoRequest, Fields
  <2>2. proc' = [proc EXCEPT ![r] = Call("patch", v)] /\ limits' = limits /\ Begin(r, rec)
    BY <1>5 DEF UpdateUserHandler
  <2> HIDE DEF rec
  <2> QED BY <1>2, <1>3, <2>1, <2>2, BeginAtomic
<1>6. CASE DeleteUserHandler(r)
  <2> DEFINE rec == IF all = None THEN [NoRequest EXCEPT !.pc = "end"]
                    ELSE [NoRequest EXCEPT !.pc = "snap", !.kind = "delete", !.user = all,
                                           !.todo = Limits]
  <2>1. /\ DOMAIN rec = Fields /\ rec.since = <<>> /\ rec.snap = [f \in Limits |-> None]
        /\ rec.applied = {} /\ rec.todo \subseteq Limits /\ rec.want = {} /\ rec.pc # "idle"
        /\ rec.pc = "end" \/ (rec.kind = "delete" /\ rec.pc = "snap" /\ rec.todo = Limits)
    BY DEF NoRequest, Fields
  <2>2. proc' = proc /\ limits' = limits /\ Begin(r, rec)
    BY <1>6 DEF DeleteUserHandler
  <2> HIDE DEF rec
  <2> QED BY <1>1, <1>2, <2>1, <2>2, BeginAtomic
<1>7. ASSUME NEW f \in UNION Wants, LimitHandler(r, f) PROVE AtomicInv'
  <2> DEFINE rec == [NoRequest EXCEPT !.pc = "end"]
  <2>1. /\ DOMAIN rec = Fields /\ rec.since = <<>> /\ rec.snap = [g \in Limits |-> None]
        /\ rec.applied = {} /\ rec.todo = {} /\ rec.want = {} /\ rec.pc = "end"
    BY DEF NoRequest, Fields
  <2>2. /\ proc' = proc /\ Begin(r, rec) /\ f \in Limits
        /\ \E v \in {r, None} : limits' = [limits EXCEPT ![f] = v]
    BY <1>7, AdminAssumption DEF LimitHandler
  <2> HIDE DEF rec
  <2> QED BY <1>1, <1>2, <2>1, <2>2, BeginAtomic
<1> QED BY <1>4, <1>5, <1>6, <1>7

-----------------------------------------------------------------------------
(* What a source or a provider call does to the rest.                      *)
LEMMA CallCounts ==
  ASSUME UsersInv, Alone, NEW p \in Procs, ProcStep(p)
  PROVE  /\ proc[p].pc \in {"lock", "read", "stat"}
         /\ UNCHANGED <<file, cache, edits>> /\ faults' \in Nat /\ faults' >= faults
         /\ \A s \in Procs \ {p} : proc'[s] = proc[s]
         /\ proc'[p].pc \in {"lock", "read", "stat"} => proc'[p].call = proc[p].call
         /\ proc[p].call = "update" => UNCHANGED <<overlay, deleted>>
<1>1. proc \in [Procs -> ProcRecs] /\ proc[p] \in ProcRecs /\ faults \in Nat
  BY DEF UsersInv, Types, Alone
<1>2. ASSUME NEW ok \in BOOLEAN, Return(p, ok)
      PROVE  /\ proc'[p].pc \in {"idle", "ok", "failed"}
             /\ \A s \in Procs \ {p} : proc'[s] = proc[s]
  BY <1>1, <1>2 DEF Return, Idle
<1>3. ASSUME Again(p)
      PROVE  proc'[p].call = proc[p].call /\ \A s \in Procs \ {p} : proc'[s] = proc[s]
  BY SMTT(30), <1>1, <1>3 DEF Again
<1>4. CASE Lock(p)
  BY SMTT(30), <1>1, <1>4 DEF Lock, sourceVars, userVars
<1>5. CASE Read(p)
  <2>1. UNCHANGED <<file, cache, edits, faults, overlay, deleted>> /\ proc[p].pc = "read"
    BY <1>5 DEF Read, sourceVars, userVars
  <2>2. CASE Return(p, FALSE)
    <3>1. proc'[p].pc \in {"idle", "ok", "failed"} /\ \A s \in Procs \ {p} : proc'[s] = proc[s]
      BY <1>2, <2>2
    <3> QED BY SMTT(30), <1>1, <2>1, <3>1
  <2>3. CASE proc' = [proc EXCEPT ![p].pc = "stat", ![p].read = file]
    BY SMTT(30), <1>1, <2>1, <2>3
  <2> QED BY <1>5, <2>2, <2>3 DEF Read
<1>6. CASE Mutate(p)
  <2>1. UNCHANGED <<file, cache, edits, faults>> /\ proc[p].pc = "stat"
    BY <1>6 DEF Mutate, Stat, sourceVars
  <2>2. proc[p].call = "update" => FALSE
    BY <1>6 DEF Mutate
  <2>3. Return(p, FALSE) \/ Again(p)
    BY <1>6 DEF Mutate
  <2>4. /\ proc'[p].pc \in {"idle", "ok", "failed"} \/ proc'[p].call = proc[p].call
        /\ \A s \in Procs \ {p} : proc'[s] = proc[s]
    BY <1>2, <1>3, <2>3
  <2> QED BY SMTT(30), <1>1, <2>1, <2>2, <2>4
<1>7. ASSUME NEW failing \in SUBSET Servers, PushUsers(p, failing)
      PROVE  /\ proc[p].pc = "stat" /\ UNCHANGED <<file, cache, edits, overlay, deleted>>
             /\ faults' \in Nat /\ faults' >= faults /\ proc'[p].pc \in {"idle", "ok", "failed"}
             /\ \A s \in Procs \ {p} : proc'[s] = proc[s]
  <2>1. faults' \in {faults, faults + 1}
    <3>1. faults' = faults + (IF failing = {} THEN 0 ELSE 1)
      BY <1>7 DEF PushUsers
    <3> QED BY SMTT(30), <1>1, <3>1
  <2>2. Return(p, failing = {})
    BY <1>7 DEF PushUsers
  <2>3. proc'[p].pc \in {"idle", "ok", "failed"} /\ \A s \in Procs \ {p} : proc'[s] = proc[s]
    BY <1>2, <2>2
  <2>4. proc[p].pc = "stat" /\ UNCHANGED <<file, cache, edits, overlay, deleted>>
    BY <1>7 DEF PushUsers, Stat, sourceVars
  <2> QED BY SMTT(30), <1>1, <2>1, <2>3, <2>4
<1> QED BY <1>4, <1>5, <1>6, <1>7 DEF ProcStep

(* A source publishes and reloads; it changes neither overlay nor tombstones.*)
LEMMA SourceCounts ==
  ASSUME UsersInv, Alone, NEW p \in Sources, SourceStep(p)
  PROVE  /\ UNCHANGED <<file, edits, overlay, deleted>> /\ (NoStore => cache' = cache)
         /\ faults' \in Nat /\ faults' >= faults
         /\ \A s \in Procs \ {p} : proc'[s] = proc[s]
         /\ proc'[p].pc \in {"lock", "read", "stat"} => proc'[p].call = "update"
<1>1. p \in Procs /\ proc \in [Procs -> ProcRecs] /\ proc[p] \in ProcRecs /\ faults \in Nat
  BY DEF UsersInv, Types, Alone, Procs
<1>2. CASE ProcStep(p)
  <2>1. proc[p].pc \in {"lock", "read", "stat"}
    BY <1>1, <1>2, CallCounts
  <2>2. proc[p].call = "update"
    BY <2>1 DEF Alone
  <2> QED BY <1>1, <1>2, <2>2, CallCounts
<1>3. CASE p = FileRun /\ FileTick
  BY SMTT(30), <1>1, <1>3 DEF FileTick, sourceVars, userVars
<1>4. CASE p = FileRun /\ FileNote
  BY SMTT(30), <1>1, <1>4 DEF FileNote, sourceVars, userVars, Call
<1>5. CASE p # FileRun /\ Fetch(p)
  BY SMTT(30), <1>1, <1>5 DEF Fetch, userVars
<1>6. CASE p # FileRun /\ Fetched(p)
  BY SMTT(30), <1>1, <1>6 DEF Fetched, sourceVars, userVars, Call, NoStore
<1> QED BY <1>2, <1>3, <1>4, <1>5, <1>6 DEF SourceStep

(* When no handler moves, the requests and the limits are as they were.    *)
LEMMA StillUnset ==
  ASSUME Alone, Unset, UNCHANGED <<limits, req>>, edits' \in Nat, faults' \in Nat,
         edits' >= edits, faults' >= faults,
         \A p \in Sources : proc'[p].pc \in {"lock", "read", "stat"} => proc'[p].call = "update"
  PROVE  Alone' /\ Unset'
<1>1. Unset'
  BY DEF Unset
<1>2. edits \in Nat /\ faults \in Nat
  BY DEF Alone
<1>3. ASSUME NEW r \in Requests, req'[r].since # <<>>
      PROVE  /\ Active(r)' /\ \A q \in Requests \ {r} : ~Active(q)'
             /\ \E e \in 0..edits', n \in 0..faults' : req'[r].since = <<e, n>>
  <2>1. req[r].since # <<>>
    BY <1>3
  <2>2. Active(r) /\ \A q \in Requests \ {r} : ~Active(q)
    BY <2>1 DEF Alone
  <2>3. PICK e \in 0..edits, n \in 0..faults : req[r].since = <<e, n>>
    BY <2>1 DEF Alone
  <2>4. e \in 0..edits' /\ n \in 0..faults'
    BY SMTT(30), <1>2
  <2> QED BY <2>2, <2>3, <2>4 DEF Active
<1> QED BY <1>1, <1>3 DEF Alone

(* The outside world disturbs only by an edit, which is counted, ...       *)
LEMMA WorldAtomic ==
  ASSUME UsersInv, AtomicInv, UNCHANGED <<limits, req>>,
         \/ EditFile \/ EditStore \/ Cancel \/ Close
         \/ UNCHANGED <<file, cache, overlay, deleted, edits, faults, proc>>
  PROVE  AtomicInv'
<1>1. Alone /\ Unset /\ edits \in Nat /\ faults \in Nat
  BY DEF AtomicInv, Alone
<1>2. /\ UNCHANGED <<proc, overlay, deleted, cache, faults>>
      /\ edits' = edits + 1 \/ UNCHANGED <<edits, file>>
  BY DEF EditFile, EditStore, Cancel, Close, sourceVars, userVars
<1>3. Alone' /\ Unset'
  <2>1. \A p \in Sources : proc'[p].pc \in {"lock", "read", "stat"} => proc'[p].call = "update"
    BY <1>1, <1>2 DEF Alone
  <2> QED BY SMTT(30), <1>1, <1>2, <2>1, StillUnset
<1>4. ASSUME NEW r \in Requests, Quiet(r)' PROVE Undisturbed(r)'
  <2>1. Quiet(r) /\ UNCHANGED edits
    BY SMTT(30), <1>1, <1>2, <1>4, StillQuiet
  <2>2. UNCHANGED file
    BY SMTT(30), <1>1, <1>2, <2>1
  <2>3. Undisturbed(r)
    BY <2>1 DEF AtomicInv
  <2> QED BY <1>2, <2>2, <2>3, KeptUndisturbed
<1> QED BY <1>3, <1>4 DEF AtomicInv

(* ... a source does not disturb, unless a store feeds the cache, ...      *)
LEMMA SourceAtomic ==
  ASSUME UsersInv, AtomicInv, UNCHANGED <<limits, req>>, NEW p \in Sources, SourceStep(p)
  PROVE  AtomicInv'
<1>1. Alone /\ Unset /\ edits \in Nat /\ faults \in Nat
  BY DEF AtomicInv, Alone
<1>2. /\ UNCHANGED <<file, edits, overlay, deleted>> /\ (NoStore => cache' = cache)
      /\ faults' \in Nat /\ faults' >= faults
      /\ \A s \in Procs \ {p} : proc'[s] = proc[s]
      /\ proc'[p].pc \in {"lock", "read", "stat"} => proc'[p].call = "update"
  BY <1>1, SourceCounts
<1>3. Alone' /\ Unset'
  <2>1. \A s \in Sources : proc'[s].pc \in {"lock", "read", "stat"} => proc'[s].call = "update"
    BY <1>1, <1>2 DEF Alone, Procs
  <2> QED BY SMTT(30), <1>1, <1>2, <2>1, StillUnset
<1>4. ASSUME NEW r \in Requests, Quiet(r)' PROVE Undisturbed(r)'
  <2>1. Quiet(r)
    BY SMTT(30), <1>1, <1>2, <1>4, StillQuiet
  <2>2. Undisturbed(r)
    BY <2>1 DEF AtomicInv
  <2>3. proc'[r] = proc[r]
    BY <1>2, UserAssumption DEF Procs
  <2> QED BY <1>2, <2>2, <2>3, KeptUndisturbed
<1> QED BY <1>3, <1>4 DEF AtomicInv

(* ... and a call of the provider moves its own request on.                *)
LEMMA CallAtomic ==
  ASSUME UsersInv, AtomicInv, UNCHANGED <<limits, req>>, NEW p \in Requests, ProcStep(p)
  PROVE  AtomicInv'
<1>1. Alone /\ Unset /\ edits \in Nat /\ faults \in Nat /\ p \in Procs
  BY DEF AtomicInv, Alone, Procs
<1>2. /\ proc[p].pc \in {"lock", "read", "stat"}
      /\ UNCHANGED <<file, cache, edits>> /\ faults' \in Nat /\ faults' >= faults
      /\ \A s \in Procs \ {p} : proc'[s] = proc[s]
  BY <1>1, CallCounts
<1>3. Active(p)
  BY <1>2 DEF UsersInv, Handlers, Waiting, Active
<1>4. Alone' /\ Unset'
  <2>1. \A s \in Sources : proc'[s] = proc[s]
    BY <1>2, UserAssumption DEF Procs
  <2>2. \A s \in Sources : proc'[s].pc \in {"lock", "read", "stat"} => proc'[s].call = "update"
    BY <1>1, <2>1 DEF Alone
  <2> QED BY SMTT(30), <1>1, <1>2, <2>2, StillUnset
<1>5. ASSUME NEW r \in Requests, Quiet(r)' PROVE Undisturbed(r)'
  <2>1. Quiet(r) /\ UNCHANGED faults /\ r = p
    BY SMTT(30), <1>1, <1>2, <1>3, <1>5, StillQuiet
  <2>2. Undisturbed(p)
    BY <2>1 DEF AtomicInv
  <2>3. proc'[p].pc = "stat" => proc'[p].read = file' /\ file' # Bad
    <3>1. proc[p].pc = "stat" => proc[p].read = file /\ file # Bad
      BY <2>2 DEF Undisturbed
    <3> QED BY <1>1, <2>1, <3>1, ProviderStep
  <2>4. req[p].kind = "create" => CreatePhase(p)'
    BY <1>1, <2>1, <2>2, CreateCalls
  <2>5. req[p].kind = "delete" /\ NoStore => DeletePhase(p)'
    BY <1>1, <2>1, <2>2, DeleteCalls
  <2> QED BY <2>1, <2>3, <2>4, <2>5 DEF Undisturbed
<1> QED BY <1>4, <1>5 DEF AtomicInv

(* Every step keeps every undisturbed request in its phases.               *)
LEMMA StepAtomic == UsersInv /\ AtomicInv /\ [AdminNext]_adminVars => AtomicInv'
<1> SUFFICES ASSUME UsersInv, AtomicInv, [AdminNext]_adminVars PROVE AtomicInv'
  OBVIOUS
<1>1. CASE (EditFile \/ EditStore \/ Cancel \/ Close) /\ UNCHANGED <<limits, req>>
  BY <1>1, WorldAtomic
<1>2. ASSUME NEW p \in Sources, SourceStep(p), UNCHANGED <<limits, req>> PROVE AtomicInv'
  BY <1>2, SourceAtomic
<1>3. ASSUME NEW r \in Requests, ProcStep(r), UNCHANGED <<limits, req>> PROVE AtomicInv'
  BY <1>3, CallAtomic
<1>4. ASSUME NEW r \in Requests,
             \/ \E v \in Values : CreateUserHandler(r, v) \/ UpdateUserHandler(r, v)
             \/ DeleteUserHandler(r) \/ \E f \in UNION Wants : LimitHandler(r, f)
             \/ HandlerStep(r)
      PROVE  AtomicInv'
  BY <1>4, RouteAtomic, HandlerAtomic
<1>5. CASE UNCHANGED adminVars
  <2>1. UNCHANGED <<limits, req, file, cache, overlay, deleted, edits, faults, proc>>
    BY <1>5 DEF adminVars, vars, sourceVars, userVars
  <2> QED BY <2>1, WorldAtomic
<1> QED BY <1>1, <1>2, <1>3, <1>4, <1>5 DEF AdminNext

(* Only a handler ends a request that is under way.                        *)
LEMMA OnlyHandlersEnd ==
  ASSUME UsersInv, AtomicInv, [AdminNext]_adminVars, NEW r \in Requests, NEW kind, Ends(r, kind)
  PROVE  HandlerStep(r) /\ Undisturbed(r) /\ Unset /\ UNCHANGED overlay
<1>1. Active(r) /\ req'[r].pc = "end" /\ Quiet(r)
  BY DEF Ends, Quiet
<1>2. req[r].pc \notin {"idle", "end"} /\ req[r].since # <<>> /\ Unset /\ Alone
  BY SMTT(30), <1>1 DEF Active, Quiet, AtomicInv
<1>3. req' # req
  BY <1>1, <1>2
<1>4. ~UNCHANGED adminVars
  BY <1>3 DEF adminVars
<1>5. PICK q \in Requests :
        \/ \E v \in Values : CreateUserHandler(q, v) \/ UpdateUserHandler(q, v)
        \/ DeleteUserHandler(q) \/ \E f \in UNION Wants : LimitHandler(q, f)
        \/ HandlerStep(q)
  BY <1>3, <1>4 DEF AdminNext
<1>6. CASE HandlerStep(q)
  <2>1. req[q].pc \notin {"idle", "end"} /\ \A s \in Requests \ {q} : req'[s] = req[s]
    BY <1>2, <1>6, HandlerSets
  <2>2. q = r
    BY <1>1, <1>2, <2>1
  <2>3. UNCHANGED overlay
    BY <1>2, <1>6, HandlerCounts DEF Alone
  <2>4. Undisturbed(r)
    BY <1>1 DEF AtomicInv
  <2> QED BY <1>2, <1>6, <2>2, <2>3, <2>4
<1>7. CASE \/ \E v \in Values : CreateUserHandler(q, v) \/ UpdateUserHandler(q, v)
           \/ DeleteUserHandler(q) \/ \E f \in UNION Wants : LimitHandler(q, f)
  <2>1. HandlerFrame(q) /\ req[q].pc = "idle"
    BY <1>7, BeginFrame DEF CreateUserHandler, UpdateUserHandler, DeleteUserHandler, LimitHandler,
        Begin
  <2>2. q # r
    BY <1>2, <2>1
  <2>3. req'[r].pc = req[r].pc
    BY <2>1, <2>2 DEF HandlerFrame
  <2> QED BY <1>1, <1>2, <2>3
<1> QED BY <1>5, <1>6, <1>7

(* How an undisturbed create ends, ...                                     *)
LEMMA CreateEnds ==
  ASSUME UsersInv, AtomicInv, [AdminNext]_adminVars, NEW r \in Requests, Ends(r, "create")
  PROVE  IF Succeeds(r)
         THEN overlay' = req[r].user /\ \A f \in req[r].want : limits'[f] = r
         ELSE overlay' = req[r].before[1] /\ \A f \in Limits : limits'[f] # r
<1>1. HandlerStep(r) /\ Undisturbed(r) /\ Unset /\ UNCHANGED overlay
  BY OnlyHandlersEnd
<1>2. CreatePhase(r) /\ req'[r].pc = "end" /\ req[r].kind = "create"
  BY <1>1 DEF Undisturbed, Ends
<1>3. req[r].pc \in {"user", "apply", "undo", "undoUser"}
  BY <1>2 DEF CreatePhase
<1>4. CASE Apply(r)
  <2>1. limits' = limits /\ req[r].todo = {} /\ req[r].pc = "apply"
    BY <1>1, <1>2, <1>4, ApplyFacts DEF Apply
  <2>2. overlay = req[r].user /\ \A f \in req[r].want : limits[f] = r
    BY <1>2, <2>1 DEF CreatePhase, Created
  <2> QED BY <1>1, <2>1, <2>2 DEF Succeeds
<1>5. CASE Answered(r) \/ RolledBack(r) \/ Recreated(r)
  <2>1. limits' = limits /\ \/ req[r].pc = "user" /\ proc[r].pc = "failed"
                            \/ req[r].pc = "undoUser" /\ proc[r].pc \in {"ok", "failed"}
    <3>1. req[r].pc = "undoUser" => proc[r].pc \in {"ok", "failed"}
      BY <1>5 DEF Answered, RolledBack, Recreated
    <3> QED BY <1>1, <1>2, <1>5, <3>1, AnswerFacts
  <2>2. overlay = req[r].before[1] /\ \A f \in Limits : limits[f] # r
    <3>1. CASE req[r].pc = "user" /\ proc[r].pc = "failed"
      BY <1>2, <3>1 DEF CreatePhase, Creating, Loading
    <3>2. CASE req[r].pc = "undoUser" /\ proc[r].pc \in {"ok", "failed"}
      BY <1>2, <3>2 DEF CreatePhase, Removing, Loading
    <3> QED BY <2>1, <3>1, <3>2
  <2> QED BY <1>1, <2>1, <2>2 DEF Succeeds
<1>6. CASE RollbackCreatedUser(r)
  BY <1>1, <1>2, <1>6, RollbackFacts
<1> QED
  BY <1>1, <1>3, <1>4, <1>5, <1>6 DEF HandlerStep, SnapshotDeleteRuntimeState,
      CleanupDeleteRuntimeState, RestoreDeleteRuntimeState

(* ... and an undisturbed delete.                                          *)
LEMMA DeleteEnds ==
  ASSUME NoStore, UsersInv, AtomicInv, [AdminNext]_adminVars, NEW r \in Requests,
         Ends(r, "delete")
  PROVE  IF Succeeds(r)
         THEN overlay' = None /\ \A f \in Limits : limits'[f] = None
         ELSE overlay' \in {req[r].before[1], req[r].user} /\ limits' = req[r].before[2]
<1>1. HandlerStep(r) /\ Undisturbed(r) /\ Unset /\ UNCHANGED overlay
  BY OnlyHandlersEnd
<1>2. DeletePhase(r) /\ req'[r].pc = "end" /\ req[r].kind = "delete"
  BY <1>1 DEF Undisturbed, Ends
<1>3. req[r].pc \in {"snap", "user", "cleanup", "restoreUser", "restore"}
  BY <1>2 DEF DeletePhase
<1>4. CASE SnapshotDeleteRuntimeState(r)
  BY <1>1, <1>2, <1>4, SnapshotFacts
<1>5. CASE Answered(r) \/ RolledBack(r) \/ Recreated(r)
  <2>1. limits' = limits /\ req[r].pc = "user" /\ proc[r].pc = "failed"
    BY <1>1, <1>2, <1>3, <1>5, AnswerFacts
  <2>2. overlay = req[r].before[1] /\ limits = req[r].before[2]
    BY <1>2, <2>1 DEF DeletePhase, Deleting, Loading
  <2> QED BY <1>1, <2>1, <2>2 DEF Succeeds
<1>6. CASE CleanupDeleteRuntimeState(r)
  <2>1. limits' = limits /\ req[r].todo = {} /\ req[r].pc = "cleanup"
    BY <1>1, <1>2, <1>6, CleanupFacts DEF CleanupDeleteRuntimeState
  <2>2. overlay = None /\ \A f \in Limits : limits[f] = None
    BY <1>2, <2>1 DEF DeletePhase, Gone
  <2> QED BY <1>1, <2>1, <2>2 DEF Succeeds
<1>7. CASE RestoreDeleteRuntimeState(r)
  <2>1. limits' = limits /\ req[r].todo = {} /\ req[r].pc = "restore"
    BY <1>1, <1>2, <1>7, RestoreFacts DEF RestoreDeleteRuntimeState
  <2>2. /\ overlay = req[r].user /\ \A f \in Limits : limits[f] = req[r].before[2][f]
        /\ limits \in [Limits -> LimitValues] /\ req[r].before[2] \in [Limits -> LimitValues]
    BY <1>1, <1>2, <2>1 DEF DeletePhase, Unset
  <2>3. limits = req[r].before[2]
    BY SMTT(30), <2>2
  <2> QED BY SMTT(30), <1>1, <2>1, <2>2 DEF Succeeds
<1> QED BY <1>1, <1>3, <1>4, <1>5, <1>6, <1>7 DEF HandlerStep, Apply, RollbackCreatedUser

(* CreateAllOrNothing: whatever sources feed the provider, a create that   *)
(* nothing disturbs leaves the user with every limit it names, or after    *)
(* the rollback of CreateUserHandler the overlay as it was and no limit.   *)
THEOREM CreateIsAtomic == AdminSpec => CreateAllOrNothing
<1>1. UsersInv /\ AtomicInv /\ [AdminNext]_adminVars =>
        [\A r \in Requests : Ends(r, "create") =>
           IF Succeeds(r)
           THEN overlay' = req[r].user /\ \A f \in req[r].want : limits'[f] = r
           ELSE overlay' = req[r].before[1] /\ \A f \in Limits : limits'[f] # r]_adminVars
  BY CreateEnds
<1> QED
  BY <1>1, InitUsersInv, InitAtomic, StepUsersInv, StepAtomic, PTL DEF AdminSpec,
      CreateAllOrNothing

(* DeleteAllOrNothing: without a remote store, a delete that nothing       *)
(* disturbs but its own cleanup leaves neither user nor limits, or after   *)
(* the compensation of DeleteUserHandler every limit and the user.         *)
THEOREM DeleteIsAtomic == ASSUME NoStore PROVE AdminSpec => DeleteAllOrNothing
<1>1. UsersInv /\ AtomicInv /\ [AdminNext]_adminVars =>
      [\A r \in Requests : Ends(r, "delete") =>
         IF Succeeds(r)
         THEN overlay' = None /\ \A f \in Limits : limits'[f] = None
         ELSE overlay' \in {req[r].before[1], req[r].user} /\ limits' = req[r].before[2]]_adminVars
  BY DeleteEnds
<1> QED
  BY <1>1, InitUsersInv, InitAtomic, StepUsersInv, StepAtomic, PTL DEF AdminSpec,
      DeleteAllOrNothing
=============================================================================
