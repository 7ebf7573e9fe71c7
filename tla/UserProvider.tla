---------------------------- MODULE UserProvider ----------------------------
(***************************************************************************)
(* The user-provider service: the users of its sources (the configuration, *)
(* a watched file, a polled and notified store with a cache), merged with  *)
(* the runtime overlay and tombstones of the admin API and pushed to the   *)
(* inbounds.  One user name; a value is the user's credentials, None none. *)
(***************************************************************************)
EXTENDS Integers

CONSTANTS None, Bad, Values, Servers, Inline, FileRun, Poll, Listen,
          Sources,     \* the goroutines of the configured sources
          Requests,    \* the admin requests that call the service
          MaxEdits,    \* bound: changes of the file and of the store
          MaxFaults    \* bound: failing calls

ASSUME UserAssumption ==
  /\ None \notin Values \cup {Bad} /\ Bad \notin Values /\ Inline \in Values \cup {None}
  /\ Sources \subseteq {FileRun, Poll, Listen}
  /\ None \notin Sources \cup Requests /\ Sources \cap Requests = {}
  /\ MaxEdits \in Nat /\ MaxFaults \in Nat

Procs == Sources \cup Requests

VARIABLES
  file, mtime, lastMod,      \* FileSource: contents, its time, lastModTime
  store, notice, cache,      \* the remote store, a notification, cachedUsers
  overlay, deleted,          \* overlayUsers, deletedUsers
  all, served, refused,      \* allUsers; what each inbound authenticates; who
                             \* refused the last push (history)
  access,                    \* the holder of the mutex
  proc,                      \* goroutines: pc, call, arg, load, read
  closing,                   \* Close: "no", "cancelled", "done"
  edits, faults

sourceVars == <<file, mtime, store, notice, edits>>
userVars == <<overlay, deleted, all, served, refused>>
vars == <<sourceVars, lastMod, cache, userVars, access, proc, closing, faults>>

Idle == [pc |-> "idle", call |-> "none", arg |-> None, load |-> 0, read |-> None]

(* Mutant: tombstones are ignored.                                         *)
MergedAny(f) == IF overlay # None THEN overlay ELSE IF cache # None THEN cache ELSE f

(* sourceUsersLocked: the later source wins; mergedUsersLocked: a          *)
(* tombstone hides the sources' user, the overlay replaces it.             *)
Source(f) == IF cache # None THEN cache ELSE IF f # None THEN f ELSE Inline
Merged(f) == IF overlay # None THEN overlay ELSE IF deleted THEN None ELSE Source(f)

(* Start has loaded and pushed once; the store has not been fetched yet.   *)
Init ==
  /\ file \in Values \cup {None} /\ mtime = 0 /\ lastMod = 0
  /\ store \in Values \cup {None} /\ notice = FALSE /\ cache = None
  /\ overlay = None /\ deleted = FALSE
  /\ all = Merged(file) /\ served = [s \in Servers |-> all] /\ refused = {}
  /\ access = None /\ proc = [p \in Procs |-> Idle] /\ closing = "no"
  /\ edits = 0 /\ faults = 0

-----------------------------------------------------------------------------
(* The outside world.  A notification may be lost.                         *)
EditFile ==
  /\ edits < MaxEdits /\ edits' = edits + 1
  /\ file' \in (Values \cup {None, Bad}) \ {file} /\ mtime' = mtime + 1
  /\ UNCHANGED <<lastMod, store, notice, cache, userVars, access, proc, closing, faults>>

EditStore ==
  /\ edits < MaxEdits /\ edits' = edits + 1
  /\ store' \in (Values \cup {None}) \ {store} /\ notice' \in {notice, TRUE}
  /\ UNCHANGED <<file, mtime, lastMod, cache, userVars, access, proc, closing, faults>>

-----------------------------------------------------------------------------
Call(c, v) == [Idle EXCEPT !.pc = "lock", !.call = c, !.arg = v]

(* lastModTime is written by Run without the mutex and by Load with it;    *)
(* two writes at once may leave a time past both.                          *)
Written(m, racing) == IF racing THEN {m, m + 1} ELSE {m}

(* FileSource.Run sees a newer file, notes its time and reloads.           *)
FileTick ==
  /\ proc[FileRun].pc = "idle" /\ closing # "done" /\ mtime > lastMod
  /\ proc' = [proc EXCEPT ![FileRun].pc = "note", ![FileRun].load = mtime]
  /\ UNCHANGED <<sourceVars, lastMod, cache, userVars, access, closing, faults>>

FileNote ==
  /\ proc[FileRun].pc = "note"
  /\ lastMod' \in Written(proc[FileRun].load, \E p \in Procs : proc[p].pc = "stat")
  /\ proc' = [proc EXCEPT ![FileRun] = Call("update", None)]
  /\ UNCHANGED <<sourceVars, cache, userVars, access, closing, faults>>

(* Mutant: the context of Run does not reach the fetch.                    *)
FetchUncancelled(p) ==
  /\ proc[p].pc = "idle" /\ closing # "done"
  /\ \/ p = Poll /\ UNCHANGED notice
     \/ p = Listen /\ notice /\ notice' = FALSE
  /\ proc' = [proc EXCEPT ![p].pc = "store", ![p].read = store]
  /\ UNCHANGED <<file, mtime, store, edits, lastMod, cache, userVars, access, closing, faults>>

(* The poller and the listener of a store each read it, ...                *)
Fetch(p) ==
  /\ proc[p].pc = "idle" /\ closing = "no"
  /\ \/ p = Poll /\ UNCHANGED notice
     \/ p = Listen /\ notice /\ notice' = FALSE
  /\ proc' = [proc EXCEPT ![p].pc = "store", ![p].read = store]
  /\ UNCHANGED <<file, mtime, store, edits, lastMod, cache, userVars, access, closing, faults>>

(* Mutant: what was fetched is stored and not pushed.                      *)
FetchedQuiet(p) ==
  /\ proc[p].pc = "store"
  /\ cache' = proc[p].read
  /\ proc' = [proc EXCEPT ![p] = Idle]
  /\ UNCHANGED <<sourceVars, lastMod, userVars, access, closing, faults>>

(* ... replace the cache, and reload.                                      *)
Fetched(p) ==
  /\ proc[p].pc = "store"
  /\ cache' = proc[p].read
  /\ proc' = [proc EXCEPT ![p] = Call("update", None)]
  /\ UNCHANGED <<sourceVars, lastMod, userVars, access, closing, faults>>

-----------------------------------------------------------------------------
(* Mutant: loadAndPush does not wait for the mutex.                        *)
LockFree(p) ==
  /\ proc[p].pc = "lock"
  /\ access' = p /\ proc' = [proc EXCEPT ![p].pc = "read", ![p].load = 1]
  /\ UNCHANGED <<sourceVars, lastMod, cache, userVars, closing, faults>>

(* loadAndPush, CreateUser, UpdateUser and DeleteUser, under the mutex.    *)
Lock(p) ==
  /\ proc[p].pc = "lock" /\ access = None
  /\ access' = p /\ proc' = [proc EXCEPT ![p].pc = "read", ![p].load = 1]
  /\ UNCHANGED <<sourceVars, lastMod, cache, userVars, closing, faults>>

(* The call returns: a source goroutine goes on, a request gets the error. *)
Return(p, ok) ==
  /\ access' = None
  /\ proc' = [proc EXCEPT ![p] = IF p \in Requests
                                 THEN [Idle EXCEPT !.pc = IF ok THEN "ok" ELSE "failed"] ELSE Idle]

(* FileSource.Load reads the file ...                                      *)
Read(p) ==
  /\ proc[p].pc = "read"
  /\ \/ file = Bad /\ Return(p, FALSE)
     \/ /\ file # Bad /\ UNCHANGED access
        /\ proc' = [proc EXCEPT ![p].pc = "stat", ![p].read = file]
  /\ UNCHANGED <<sourceVars, lastMod, cache, userVars, closing, faults>>

(* ... and asks for its time only then; the call goes on with what it read.*)
Stat(p) ==
  /\ proc[p].pc = "stat"
  /\ lastMod' \in Written(mtime, \E q \in Procs : proc[q].pc = "note")

Again(p) == /\ proc' = [proc EXCEPT ![p].pc = "read", ![p].load = @ + 1, ![p].read = None]
            /\ UNCHANGED access

(* The calls of the admin API look the user up and change the overlay;     *)
(* DeleteUser asks the sources once more for its tombstone.                *)
Mutate(p) ==
  LET c == proc[p].call
      exists == Merged(proc[p].read) # None IN
  /\ Stat(p)
  /\ \/ /\ proc[p].load = 1 /\ c # "update" /\ exists = (c = "create")
        /\ Return(p, FALSE) /\ UNCHANGED <<overlay, deleted>>
     \/ /\ proc[p].load = 1 /\ c \in {"create", "patch"} /\ exists = (c = "patch")
        /\ overlay' = proc[p].arg /\ deleted' = FALSE /\ Again(p)
     \/ /\ proc[p].load = 1 /\ c = "delete" /\ exists
        /\ Again(p) /\ UNCHANGED <<overlay, deleted>>
     \/ /\ proc[p].load = 2 /\ c = "delete"
        /\ overlay' = None /\ deleted' = (Source(proc[p].read) # None) /\ Again(p)
  /\ UNCHANGED <<sourceVars, cache, all, served, refused, closing, faults>>

LastLoad(c) == CASE c = "update" -> 1 [] c = "delete" -> 3 [] OTHER -> 2

(* Mutant: pushUsers stops at the first inbound that fails.                *)
PushUsersStop(p, failing) ==
  /\ Stat(p) /\ proc[p].load = LastLoad(proc[p].call)
  /\ all' = Merged(proc[p].read)
  /\ served' = IF failing = {} THEN [s \in Servers |-> all'] ELSE served
  /\ refused' = failing
  /\ faults' = faults + (IF failing = {} THEN 0 ELSE 1) /\ faults' <= MaxFaults
  /\ Return(p, failing = {})
  /\ UNCHANGED <<sourceVars, cache, overlay, deleted, closing>>

(* loadAndPushLocked: every inbound gets the merged users, or refuses them.*)
PushUsers(p, failing) ==
  /\ Stat(p) /\ proc[p].load = LastLoad(proc[p].call)
  /\ all' = Merged(proc[p].read)
  /\ served' = [s \in Servers |-> IF s \in failing THEN served[s] ELSE all']
  /\ refused' = failing
  /\ faults' = faults + (IF failing = {} THEN 0 ELSE 1) /\ faults' <= MaxFaults
  /\ Return(p, failing = {})
  /\ UNCHANGED <<sourceVars, cache, overlay, deleted, closing>>

-----------------------------------------------------------------------------
(* Close cancels the context, under which no fetch succeeds, and waits     *)
(* until the loops of the sources are back at their select and end.        *)
Cancel ==
  /\ closing = "no" /\ closing' = "cancelled"
  /\ UNCHANGED <<sourceVars, lastMod, cache, userVars, access, proc, faults>>

Close ==
  /\ closing = "cancelled" /\ \A p \in Sources : proc[p].pc = "idle"
  /\ closing' = "done"
  /\ UNCHANGED <<sourceVars, lastMod, cache, userVars, access, proc, faults>>

ProcStep(p) == \/ Lock(p) \/ Read(p) \/ Mutate(p)
               \/ \E failing \in SUBSET Servers : PushUsers(p, failing)

SourceStep(p) == \/ p = FileRun /\ (FileTick \/ FileNote)
                 \/ p # FileRun /\ (Fetch(p) \/ Fetched(p))
                 \/ ProcStep(p)

-----------------------------------------------------------------------------
(* The file's loop, the poller's and the listener's keep running; the      *)
(* mutex and the requests are fair because Go schedules every goroutine.   *)
Fairness == /\ \A p \in Sources : WF_vars(SourceStep(p))
            /\ \A r \in Requests : WF_vars(ProcStep(r))
            /\ WF_vars(Close)

(* Type correctness, and the mutex: whoever is past Lock holds it, and a   *)
(* user is never both in the overlay and tombstoned.                       *)
TypeOK ==
  /\ file \in Values \cup {None, Bad} /\ {store, cache, overlay, all} \subseteq Values \cup {None}
  /\ served \in [Servers -> Values \cup {None}] /\ access \in Procs \cup {None}
  /\ \A p \in Procs : proc[p].pc \in {"read", "stat"} <=> access = p
  /\ ~(deleted /\ overlay # None)

(* What the service lists is what every inbound that took the last push    *)
(* authenticates (pushUsers goes on after an inbound fails).               *)
ServedAgrees == \A s \in Servers \ refused : served[s] = all

(* While a tombstone stands the list changes only to drop the user: no     *)
(* update of a source brings a deleted user back.                          *)
StaysDeleted == [][deleted /\ all' # all => all' = None]_vars

(* Once file, store and requests are quiet every inbound authenticates     *)
(* what the sources, the overlay and the tombstones say, whatever was      *)
(* lost, refused or read too early before.                                 *)
Converges ==
  <>[](file = Bad \/ closing # "no" \/ \A s \in Servers : served[s] = Merged(file) /\ cache = store)

(* Close returns: every loop of a source ends.                             *)
CloseReturns == closing = "cancelled" ~> closing = "done"
=============================================================================
