----------------------------- MODULE AdminUsers -----------------------------
(***************************************************************************)
(* The admin API's requests, composed with the user provider: a create     *)
(* applies quota, speed and schedules call by call and rolls back, a       *)
(* delete cleans up call by call and restores.  A limit's value is the     *)
(* request that set it, or Static; every controller is configured.         *)
(***************************************************************************)
EXTENDS UserProvider

CONSTANTS Static, Wants, Given

Limits == {"quota", "speed", "sched"}

ASSUME AdminAssumption == Wants \subseteq SUBSET Limits /\ Given \cap Requests = {}

(* The first limit of a set, for calls made in the order a, b, c.          *)
First(S, a, b, c) == IF a \in S THEN a ELSE IF b \in S THEN b ELSE c

VARIABLES
  limits,   \* the controllers' runtime state of the user
  req       \* requests: pc, kind, todo, want, bad, applied, snap, user; and
            \* as history before, since

adminVars == <<vars, limits, req>>

NoRequest == [pc |-> "idle", kind |-> "none", todo |-> {}, want |-> {}, bad |-> None,
              applied |-> {}, snap |-> [f \in Limits |-> None], user |-> None,
              before |-> <<>>, since |-> <<>>]

AdminInit ==
  /\ Init /\ limits \in [Limits -> Given]
  /\ req = [r \in Requests |-> NoRequest]

Active(r) == req[r].pc \notin {"idle", "end"}
Rest == UNCHANGED <<sourceVars, lastMod, cache, userVars, access, closing>>

(* Requests that overlap are told apart: nothing orders their calls.       *)
Begin(r, rec) ==
  LET others == {q \in Requests \ {r} : Active(q)} IN
  /\ req[r].pc = "idle"
  /\ req' = [q \in Requests |->
               IF q = r /\ others = {} /\ rec.pc # "end"
               THEN [rec EXCEPT !.before = <<overlay, limits>>, !.since = <<edits, faults>>]
               ELSE IF q = r THEN rec
               ELSE IF q \in others THEN [req[q] EXCEPT !.before = <<>>, !.since = <<>>]
               ELSE req[q]]

End(r) == req' = [req EXCEPT ![r] = [NoRequest EXCEPT !.pc = "end"]]

-----------------------------------------------------------------------------
(* CreateUserHandler and UpdateUserHandler call the provider first.        *)
CreateUserHandler(r, v) ==
  /\ \E want \in Wants : \E bad \in want \cup {None} :
       Begin(r, [NoRequest EXCEPT !.pc = "user", !.kind = "create", !.user = v,
                                  !.want = want, !.bad = bad])
  /\ proc' = [proc EXCEPT ![r] = Call("create", v)]
  /\ Rest /\ UNCHANGED <<faults, limits>>

UpdateUserHandler(r, v) ==
  /\ Begin(r, [NoRequest EXCEPT !.pc = "user", !.kind = "patch", !.user = v])
  /\ proc' = [proc EXCEPT ![r] = Call("patch", v)]
  /\ Rest /\ UNCHANGED <<faults, limits>>

(* DeleteUserHandler takes a snapshot, starting with the provider's user.  *)
DeleteUserHandler(r) ==
  /\ access = None
  /\ Begin(r, IF all = None THEN [NoRequest EXCEPT !.pc = "end"]
              ELSE [NoRequest EXCEPT !.pc = "snap", !.kind = "delete", !.user = all,
                                     !.todo = Limits])
  /\ Rest /\ UNCHANGED <<proc, faults, limits>>

(* The routes of one limit make one call.                                  *)
LimitHandler(r, f) ==
  /\ Begin(r, [NoRequest EXCEPT !.pc = "end"])
  /\ limits' \in {[limits EXCEPT ![f] = r], [limits EXCEPT ![f] = None]}
  /\ Rest /\ UNCHANGED <<proc, faults>>

(* snapshotDeleteRuntimeState asks the controllers one by one.             *)
SnapshotDeleteRuntimeState(r) ==
  LET f == First(req[r].todo, "quota", "speed", "sched") IN
  /\ req[r].pc = "snap"
  /\ IF req[r].todo # {}
     THEN /\ req' = [req EXCEPT ![r].todo = @ \ {f}, ![r].snap[f] = limits[f]]
          /\ UNCHANGED proc
     ELSE /\ req' = [req EXCEPT ![r].pc = "user"]
          /\ proc' = [proc EXCEPT ![r] = Call("delete", None)]
  /\ Rest /\ UNCHANGED <<faults, limits>>

(* The provider has answered; an error ends the request as it is.          *)
Answered(r) ==
  /\ req[r].pc = "user" /\ proc[r].pc \in {"ok", "failed"}
  /\ proc' = [proc EXCEPT ![r] = Idle]
  /\ CASE proc[r].pc = "failed" -> End(r)
       [] proc[r].pc = "ok" /\ req[r].kind = "patch" -> End(r)
       [] proc[r].pc = "ok" /\ req[r].kind = "create" ->
            req' = [req EXCEPT ![r].pc = "apply", ![r].todo = req[r].want]
       [] OTHER -> req' = [req EXCEPT ![r].pc = "cleanup", ![r].todo = Limits]
  /\ Rest /\ UNCHANGED <<faults, limits>>

-----------------------------------------------------------------------------
(* Mutant: a rollback forgets the quota.                                   *)
ToUndoShort(r) == IF "speed" \in req[r].applied THEN {"speed", "sched"} ELSE {}

(* rollbackCreatedUser: what was applied; the schedules go with the speed. *)
ToUndo(r) == (IF "speed" \in req[r].applied THEN {"speed", "sched"} ELSE {})
             \cup (req[r].applied \cap {"quota"})

(* The limits of a create, until one is invalid.                           *)
Apply(r) ==
  LET f == First(req[r].todo, "quota", "speed", "sched") IN
  /\ req[r].pc = "apply"
  /\ \/ req[r].todo = {} /\ End(r) /\ UNCHANGED limits
     \/ /\ req[r].todo # {} /\ f # req[r].bad
        /\ limits' = [limits EXCEPT ![f] = r]
        /\ req' = [req EXCEPT ![r].todo = @ \ {f}, ![r].applied = @ \cup {f}]
     \/ /\ req[r].todo # {} /\ f = req[r].bad
        /\ req' = [req EXCEPT ![r].pc = "undo", ![r].todo = ToUndo(r)]
        /\ UNCHANGED limits
  /\ Rest /\ UNCHANGED <<proc, faults>>

(* RemoveConfig of a quota fails when its row cannot be deleted.           *)
Fails(f) == f = "quota" /\ limits[f] # None /\ faults < MaxFaults

(* handleCreateRollbackError goes on after a failure and deletes the user. *)
RollbackCreatedUser(r) ==
  LET f == First(req[r].todo, "speed", "sched", "quota") IN
  /\ req[r].pc = "undo"
  /\ \/ /\ req[r].todo # {}
        /\ req' = [req EXCEPT ![r].todo = @ \ {f}]
        /\ \/ limits' = [limits EXCEPT ![f] = None] /\ UNCHANGED faults
           \/ Fails(f) /\ faults' = faults + 1 /\ UNCHANGED limits
        /\ UNCHANGED proc
     \/ /\ req[r].todo = {}
        /\ req' = [req EXCEPT ![r].pc = "undoUser"]
        /\ proc' = [proc EXCEPT ![r] = Call("delete", None)]
        /\ UNCHANGED <<limits, faults>>
  /\ Rest

RolledBack(r) ==
  /\ req[r].pc = "undoUser" /\ proc[r].pc \in {"ok", "failed"}
  /\ proc' = [proc EXCEPT ![r] = Idle] /\ End(r)
  /\ Rest /\ UNCHANGED <<limits, faults>>

Allow(since) == IF since = <<>> THEN since ELSE [since EXCEPT ![2] = @ + 1]

(* cleanupDeleteRuntimeState stops at the first failure, ...               *)
CleanupDeleteRuntimeState(r) ==
  LET f == First(req[r].todo, "sched", "speed", "quota") IN
  /\ req[r].pc = "cleanup"
  /\ \/ req[r].todo = {} /\ End(r) /\ UNCHANGED <<limits, faults, proc>>
     \/ /\ req[r].todo # {}
        /\ limits' = [limits EXCEPT ![f] = None]
        /\ req' = [req EXCEPT ![r].todo = @ \ {f}]
        /\ UNCHANGED <<faults, proc>>
     \/ /\ req[r].todo # {} /\ Fails(f)
        /\ faults' = faults + 1
        /\ req' = [req EXCEPT ![r].pc = "restoreUser", ![r].since = Allow(@)]
        /\ proc' = [proc EXCEPT ![r] = Call("create", req[r].user)]
        /\ UNCHANGED limits
  /\ Rest

(* Mutant: the schedules are not restored.                                 *)
ToRestoreShort(r) == {f \in Limits \ {"sched"} : req[r].snap[f] # None}

(* ... and restoreDeleteRuntimeState puts the snapshot back.               *)
ToRestore(r) == {f \in Limits : req[r].snap[f] # None}

Recreated(r) ==
  /\ req[r].pc = "restoreUser" /\ proc[r].pc \in {"ok", "failed"}
  /\ proc' = [proc EXCEPT ![r] = Idle]
  /\ req' = [req EXCEPT ![r].pc = "restore", ![r].todo = ToRestore(r)]
  /\ Rest /\ UNCHANGED <<limits, faults>>

RestoreDeleteRuntimeState(r) ==
  LET f == First(req[r].todo, "quota", "speed", "sched") IN
  /\ req[r].pc = "restore"
  /\ \/ req[r].todo = {} /\ End(r) /\ UNCHANGED limits
     \/ /\ req[r].todo # {}
        /\ limits' = [limits EXCEPT ![f] = req[r].snap[f]]
        /\ req' = [req EXCEPT ![r].todo = @ \ {f}]
  /\ Rest /\ UNCHANGED <<proc, faults>>

-----------------------------------------------------------------------------
HandlerStep(r) ==
  \/ SnapshotDeleteRuntimeState(r) \/ Answered(r) \/ Apply(r) \/ RollbackCreatedUser(r)
  \/ RolledBack(r) \/ CleanupDeleteRuntimeState(r) \/ Recreated(r) \/ RestoreDeleteRuntimeState(r)

AdminNext ==
  \/ /\ \/ EditFile \/ EditStore \/ Cancel \/ Close
        \/ \E p \in Sources : SourceStep(p)
        \/ \E r \in Requests : ProcStep(r)
     /\ UNCHANGED <<limits, req>>
  \/ \E r \in Requests :
       \/ \E v \in Values : CreateUserHandler(r, v) \/ UpdateUserHandler(r, v)
       \/ DeleteUserHandler(r) \/ \E f \in UNION Wants : LimitHandler(r, f)
       \/ HandlerStep(r)

AdminSpec == AdminInit /\ [][AdminNext]_adminVars
AdminFairSpec == AdminSpec /\ Fairness

Ends(r, kind) == /\ Active(r) /\ req[r].kind = kind /\ req'[r].pc = "end"
                 /\ req[r].since = <<edits, faults>>
Succeeds(r) == req[r].pc \in {"apply", "cleanup"}

(* A create that no other request, edit or second failure disturbs leaves  *)
(* the user and every limit it names, or, after an error, the overlay as   *)
(* it was and none of its limits (CreateUserHandler's rollback).           *)
CreateAllOrNothing ==
  [][\A r \in Requests : Ends(r, "create") =>
       IF Succeeds(r)
       THEN overlay' = req[r].user /\ \A f \in req[r].want : limits'[f] = r
       ELSE overlay' = req[r].before[1] /\ \A f \in Limits : limits'[f] # r]_adminVars

(* A delete that nothing disturbs but the failure of its own cleanup       *)
(* leaves no overlay and no limits, or, after an error, every limit as it  *)
(* was and the user it found (DeleteUserHandler's compensation).           *)
DeleteAllOrNothing ==
  [][\A r \in Requests : Ends(r, "delete") =>
       IF Succeeds(r)
       THEN overlay' = None /\ \A f \in Limits : limits'[f] = None
       ELSE overlay' \in {req[r].before[1], req[r].user} /\ limits' = req[r].before[2]]_adminVars
=============================================================================
