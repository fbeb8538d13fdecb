--------------------------- MODULE ChildLifecycle ---------------------------
(***************************************************************************)
(* The lifecycle of the child MCP servers of the gateway: the part of      *)
(* `Supervisor` (src/src/mcpflow/supervisor.py) that adds, edits,          *)
(* approves, starts, restarts, stops and removes a server while start      *)
(* tasks, snapshot probes and leased requests run beside it on one event   *)
(* loop.  A step is the code between two suspension points; the steps of   *)
(* different coroutines interleave.                                        *)
(*                                                                         *)
(* One identity serves three purposes, because the code creates at most    *)
(* one of each per operation: a call p is also the name of the `Child`     *)
(* object that an `add` p installs, and of the generation (a transport and *)
(* its `ChildSession`) that a start begun by p builds.  The finite set of  *)
(* calls is the only bound of a model; nothing below depends on it.        *)
(***************************************************************************)
CONSTANTS
  Key,               \* server keys (owner, namespace)
  AdminKey,          \* the keys with no owner: no approval needed
  Rev,               \* revisions of a spec, as `registry.revision` hashes them
  Call,              \* operations; also `Child` objects and generations
  Reader,            \* holders of a lease (actions page, instructions read)
  None,
  BuildMayFail,      \* `_build_transport` may raise (the log cannot be opened)
  CancelMaySwallow   \* the MCP client may swallow the cancel of a start

\* What `registry` keeps of a server, as far as its lifecycle can tell.
Record == [rev : Rev, approved : Rev \cup {None}, enabled : BOOLEAN]

ASSUME ConstantsAssumption ==
  /\ AdminKey \subseteq Key
  /\ None \notin Key \cup Rev \cup Call \cup Record
  /\ BuildMayFail \in BOOLEAN
  /\ CancelMaySwallow \in BOOLEAN

VARIABLES
  registry,   \* the stored record of each key
  children,   \* `_children`: the current `Child` object of each key
  removing,   \* `_removing`: keys whose removal still tears down
  key,        \* the key a call names
  kind,       \* the operation a call runs
  pc,         \* where the call stands
  target,     \* the `Child` object the call resolved
  lock,       \* `child.lock`: the call that holds it across a suspension
  status,     \* `child.status`
  spec,       \* the revision of `child.spec`
  task,       \* the start task `child.task`
  run,        \* the generation number the start task will take
  session,    \* `child.session` (with `child.transport`)
  provider,   \* `child.provider`, mounted in `table.providers`
  genState,   \* `ChildSession.state` of each generation
  genRev,     \* the revision each generation was built from
  leases,     \* the readers inside `_lease` of each generation
  probe,      \* the snapshot probe of each generation
  expired     \* history: generations closed by the drain bound

gateVars  == <<registry, children, removing>>
callVars  == <<key, kind, pc, target>>
childVars == <<lock, status, spec, task, run, session, provider>>
genVars   == <<genState, genRev, leases, probe, expired>>
vars      == <<gateVars, callVars, childVars, genVars>>

Kind == {"add", "update", "approve", "remove", "enable", "disable", "restart"}

Status == {"starting", "running", "failed", "stopped"}

\* A call that holds `child.lock` is in one of the suspension points of `_teardown`.
Teardown == {"cancelling", "draining", "closing"}

\* "cancelled" and "interrupted": cancel requested, the second inside the probe
\* of the child.  "crashed": done with an exception nobody awaited.
PendingStart == {"created", "probing", "answered", "erred"}
TaskState == PendingStart \cup {"none", "cancelled", "interrupted", "crashed"}

Alive == {"starting", "open", "closing"}

TypeOK ==
  /\ registry \in [Key -> Record \cup {None}]
  /\ children \in [Key -> Call \cup {None}]
  /\ removing \subseteq Key
  /\ key      \in [Call -> Key \cup {None}]
  /\ kind     \in [Call -> Kind \cup {None}]
  /\ pc       \in [Call -> {"idle", "waiting", "done"} \cup Teardown]
  /\ target   \in [Call -> Call \cup {None}]
  /\ lock     \in [Call -> Call \cup {None}]
  /\ status   \in [Call -> Status]
  /\ spec     \in [Call -> Rev \cup {None}]
  /\ task     \in [Call -> TaskState]
  /\ run      \in [Call -> Call \cup {None}]
  /\ session  \in [Call -> Call \cup {None}]
  /\ provider \in [Call -> Call \cup {None}]
  /\ genState \in [Call -> {"unborn", "closed"} \cup Alive]
  /\ genRev   \in [Call -> Rev \cup {None}]
  /\ leases   \in [Call -> SUBSET Reader]
  /\ probe    \in [Call -> {"none", "scheduled", "reading", "failed"}]
  /\ expired  \subseteq Call

(***************************************************************************)
(* `ServerSpec.approval` is derived: an admin-owned server is approved, a  *)
(* user-owned one while the approved revision equals the current one.      *)
(***************************************************************************)
Approved(k, rec) == k \in AdminKey \/ rec.approved = rec.rev

Startable(k, rec) == rec.enabled /\ Approved(k, rec)

\* Mutation: the body of an edit carries its own approval.
EditedWithApproval(rec, r, e) == [rev |-> r, approved |-> r, enabled |-> e]

\* `Registry.merge`: an edit keeps the approved revision it finds.
Edited(rec, r, e) == [rev |-> r, approved |-> rec.approved, enabled |-> e]

(***************************************************************************)
(* The state when `startup` returns: one `Child` object per stored record, *)
(* and a start task for each enabled record that awaits no approval.  The  *)
(* calls that name these objects are already over.                         *)
(***************************************************************************)
Init ==
  /\ children \in [Key -> Call \cup {None}]
  /\ key \in [Call -> Key \cup {None}]
  /\ \A k \in Key, p \in Call : children[k] = p <=> key[p] = k
  /\ registry \in [Key -> Record \cup {None}]
  /\ \A k \in Key : registry[k] = None <=> children[k] = None
  /\ \A k \in AdminKey : registry[k] # None => registry[k].approved = None
  /\ removing = {}
  /\ kind     = [p \in Call |-> IF key[p] = None THEN None ELSE "add"]
  /\ pc       = [p \in Call |-> IF key[p] = None THEN "idle" ELSE "done"]
  /\ target   = [p \in Call |-> IF key[p] = None THEN None ELSE p]
  /\ lock     = [c \in Call |-> None]
  /\ LET Boots(c) == key[c] # None /\ Startable(key[c], registry[key[c]])
     IN /\ status = [c \in Call |-> IF Boots(c) THEN "starting" ELSE "stopped"]
        /\ task   = [c \in Call |-> IF Boots(c) THEN "created" ELSE "none"]
        /\ run    = [c \in Call |-> IF Boots(c) THEN c ELSE None]
  /\ spec = [c \in Call |-> IF key[c] = None THEN None ELSE registry[key[c]].rev]
  /\ session  = [c \in Call |-> None]
  /\ provider = [c \in Call |-> None]
  /\ genState = [g \in Call |-> "unborn"]
  /\ genRev   = [g \in Call |-> None]
  /\ leases   = [g \in Call |-> {}]
  /\ probe    = [g \in Call |-> "none"]
  /\ expired  = {}

-----------------------------------------------------------------------------
(* Starting a child.                                                       *)

\* `_begin_start`, past its gate: the child runs the stored record it checked.
BeginStart(c, g, rec) ==
  /\ status' = [status EXCEPT ![c] = "starting"]
  /\ spec'   = [spec EXCEPT ![c] = rec.rev]
  /\ task'   = [task EXCEPT ![c] = "created"]
  /\ run'    = [run EXCEPT ![c] = g]

\* `if not (spec.enabled and self._start_unless_pending(child)): stopped`
StartUnlessPending(k, c, g, rec) ==
  IF Startable(k, rec)
  THEN BeginStart(c, g, rec)
  ELSE /\ status' = [status EXCEPT ![c] = "stopped"]
       /\ spec'   = [spec EXCEPT ![c] = rec.rev]
       /\ UNCHANGED <<task, run>>

\* The first step of `_run_start`, up to its first await: it looks the child up
\* by key, builds the transport and the session, and enters the client.  A
\* transport that cannot be built ends the task before its error handler.
RunStart(k) ==
  LET c == children[k] IN
  /\ c # None
  /\ task[c] = "created"
  /\ \/ /\ task'     = [task EXCEPT ![c] = "probing"]
        /\ session'  = [session EXCEPT ![c] = run[c]]
        /\ genState' = [genState EXCEPT ![run[c]] = "starting"]
        /\ genRev'   = [genRev EXCEPT ![run[c]] = spec[c]]
     \/ /\ BuildMayFail
        /\ task' = [task EXCEPT ![c] = "crashed"]
        /\ UNCHANGED <<session, genState, genRev>>
  /\ UNCHANGED <<gateVars, callVars, lock, status, spec, run, provider,
                 leases, probe, expired>>

\* The probe of the child answers, or errs or reaches `child_start_timeout`.
ProbeReturns(c) ==
  /\ task[c] = "probing"
  /\ \E t \in {"answered", "erred"} : task' = [task EXCEPT ![c] = t]
  /\ UNCHANGED <<gateVars, callVars, lock, status, spec, run, session, provider,
                 genVars>>

\* The publish block of `_run_start`, under `child.lock`.
Publish(c) ==
  /\ task[c] = "answered"
  /\ lock[c] = None
  /\ task' = [task EXCEPT ![c] = "none"]
  /\ IF status[c] = "starting"
     THEN /\ provider' = [provider EXCEPT ![c] = session[c]]
          /\ status'   = [status EXCEPT ![c] = "running"]
          /\ genState' = [genState EXCEPT ![session[c]] = "open"]
     ELSE UNCHANGED <<provider, status, genState>>
  /\ UNCHANGED <<gateVars, callVars, lock, spec, run, session, genRev, leases,
                 probe, expired>>

\* Mutation: the failure block forgets the status.
FailStartSilently(c) ==
  /\ task[c] = "erred"
  /\ lock[c] = None
  /\ task' = [task EXCEPT ![c] = "none"]
  /\ UNCHANGED <<gateVars, callVars, lock, status, spec, run, session, provider,
                 genVars>>

\* Mutation: the failure block stores the outcome of the task as the status.
FailStartRaw(c) ==
  /\ task[c] = "erred"
  /\ lock[c] = None
  /\ task'   = [task EXCEPT ![c] = "none"]
  /\ status' = [status EXCEPT ![c] = task[c]]
  /\ UNCHANGED <<gateVars, callVars, lock, spec, run, session, provider, genVars>>

\* The failure blocks of `_run_start`, under `child.lock`.
FailStart(c) ==
  /\ task[c] = "erred"
  /\ lock[c] = None
  /\ task'   = [task EXCEPT ![c] = "none"]
  /\ status' = [status EXCEPT ![c] = IF @ = "starting" THEN "failed" ELSE @]
  /\ UNCHANGED <<gateVars, callVars, lock, spec, run, session, provider, genVars>>

\* The client library swallows the cancel and raises its own error, so the task
\* goes on to its failure block instead of ending.
SwallowCancel(c) ==
  /\ CancelMaySwallow
  /\ task[c] = "interrupted"
  /\ task' = [task EXCEPT ![c] = "erred"]
  /\ UNCHANGED <<gateVars, callVars, lock, status, spec, run, session, provider,
                 genVars>>

-----------------------------------------------------------------------------
(* `_teardown`, in the call p that holds the lock of its child.            *)

\* Mutation: the provider stays mounted while the generation drains.
WithdrawLate(p) ==
  LET g == session[target[p]] IN
  /\ pc' = [pc EXCEPT ![p] = "draining"]
  /\ UNCHANGED provider
  /\ IF g = None
     THEN UNCHANGED <<genState, probe>>
     ELSE /\ genState' = [genState EXCEPT ![g] = "closing"]
          /\ probe' = [probe EXCEPT ![g] = IF @ = "reading" THEN @ ELSE "none"]

\* One synchronous block: unpublish, close the generation to new leases, cancel
\* its probe.  A probe inside a read keeps its lease until the read ends.
Withdraw(p) ==
  LET g == session[target[p]] IN
  /\ pc' = [pc EXCEPT ![p] = "draining"]
  /\ provider' = [provider EXCEPT ![target[p]] = None]
  /\ IF g = None
     THEN UNCHANGED <<genState, probe>>
     ELSE /\ genState' = [genState EXCEPT ![g] = "closing"]
          /\ probe' = [probe EXCEPT ![g] = IF @ = "reading" THEN @ ELSE "none"]

\* Mutation: a teardown does not cancel the start it finds pending.
StartTeardownLeavingTask(p) ==
  /\ lock' = [lock EXCEPT ![target[p]] = p]
  /\ UNCHANGED task
  /\ Withdraw(p)

\* From the entry to the first suspension.  Awaiting a task that is done does not
\* suspend, so a crashed start is dropped in the same step.
StartTeardown(p) ==
  LET c == target[p] IN
  /\ lock' = [lock EXCEPT ![c] = p]
  /\ \/ /\ task[c] \in PendingStart
        /\ task' = [task EXCEPT ![c] = IF @ = "probing" THEN "interrupted"
                                                         ELSE "cancelled"]
        /\ pc' = [pc EXCEPT ![p] = "cancelling"]
        /\ UNCHANGED <<provider, genState, probe>>
     \/ /\ task[c] \notin PendingStart
        /\ task' = [task EXCEPT ![c] = "none"]
        /\ Withdraw(p)

\* The cancelled start task has ended; `_teardown` goes on.
TaskEnds(p) ==
  /\ pc[p] = "cancelling"
  /\ task[target[p]] \in {"cancelled", "interrupted"}
  /\ task' = [task EXCEPT ![target[p]] = "none"]
  /\ Withdraw(p)
  /\ UNCHANGED <<gateVars, key, kind, target, lock, status, spec, run, session,
                 genRev, leases, expired>>

Idle(g) == g # None => leases[g] = {} /\ probe[g] # "reading"

\* Mutation: the drain waits for the last lease without a bound.
DrainUnbounded(p) ==
  /\ pc[p] = "draining"
  /\ Idle(session[target[p]])
  /\ pc' = [pc EXCEPT ![p] = "closing"]
  /\ UNCHANGED <<gateVars, key, kind, target, childVars, genVars>>

\* `idle.wait()` returns, or LEASE_DRAIN_TIMEOUT passes (or the call is cancelled).
Drain(p) ==
  LET g == session[target[p]] IN
  /\ pc[p] = "draining"
  /\ pc' = [pc EXCEPT ![p] = "closing"]
  /\ \/ /\ Idle(g)
        /\ UNCHANGED expired
     \/ /\ ~Idle(g)
        /\ expired' = expired \cup {g}
  /\ UNCHANGED <<gateVars, key, kind, target, childVars, genState, genRev, leases,
                 probe>>

\* The client exit and the transport close have returned.
CloseSession(c) ==
  /\ session' = [session EXCEPT ![c] = None]
  /\ genState' = IF session[c] = None THEN genState
                 ELSE [genState EXCEPT ![session[c]] = "closed"]

-----------------------------------------------------------------------------
(* The operations.  Authorization reads state kept elsewhere, so a refusal *)
(* is always possible; what a granted operation does is not a choice.      *)

\* Mutation: a key is free as soon as its record is gone.
AddWhileRemoving(p, k) ==
  /\ pc[p] = "idle"
  /\ registry[k] = None
  /\ \E r \in Rev, e \in BOOLEAN :
       LET rec == [rev |-> r, approved |-> None, enabled |-> e]
       IN  /\ registry' = [registry EXCEPT ![k] = rec]
           /\ StartUnlessPending(k, p, p, rec)
  /\ children' = [children EXCEPT ![k] = p]
  /\ key'    = [key EXCEPT ![p] = k]
  /\ kind'   = [kind EXCEPT ![p] = "add"]
  /\ target' = [target EXCEPT ![p] = p]
  /\ pc'     = [pc EXCEPT ![p] = "done"]
  /\ UNCHANGED <<removing, lock, session, provider, genVars>>

\* `add`.  No suspension: the lock of the new object is free.  An admin adds an
\* admin-owned server, another user a server that awaits approval.
Add(p, k) ==
  /\ pc[p] = "idle"
  /\ k \notin removing
  /\ registry[k] = None
  /\ \E r \in Rev, e \in BOOLEAN :
       LET rec == [rev |-> r, approved |-> None, enabled |-> e]
       IN  /\ registry' = [registry EXCEPT ![k] = rec]
           /\ StartUnlessPending(k, p, p, rec)
  /\ children' = [children EXCEPT ![k] = p]
  /\ key'    = [key EXCEPT ![p] = k]
  /\ kind'   = [kind EXCEPT ![p] = "add"]
  /\ target' = [target EXCEPT ![p] = p]
  /\ pc'     = [pc EXCEPT ![p] = "done"]
  /\ UNCHANGED <<removing, lock, session, provider, genVars>>

\* `_locked` of another operation: resolve the child, then wait for its lock.
Invoke(p, k) ==
  /\ pc[p] = "idle"
  /\ children[k] # None
  /\ key' = [key EXCEPT ![p] = k]
  /\ \E op \in Kind \ {"add"} : kind' = [kind EXCEPT ![p] = op]
  /\ target' = [target EXCEPT ![p] = children[k]]
  /\ pc'     = [pc EXCEPT ![p] = "waiting"]
  /\ UNCHANGED <<gateVars, childVars, genVars>>

\* A queued operation is cancelled before it gets the lock.
Abandon(p) ==
  /\ pc[p] = "waiting"
  /\ pc' = [pc EXCEPT ![p] = "done"]
  /\ UNCHANGED <<gateVars, key, kind, target, childVars, genVars>>

\* The lock is granted and the operation refuses, or has nothing to do: the child
\* was replaced, the actor lost its right, a check of the operation failed.
Refuse(p) ==
  /\ pc[p] = "waiting"
  /\ lock[target[p]] = None
  /\ pc' = [pc EXCEPT ![p] = "done"]
  /\ UNCHANGED <<gateVars, key, kind, target, childVars, genVars>>

\* Mutation: the operation does not wait for the lock.
GrantedUnlocked(p, op) ==
  /\ pc[p] = "waiting"
  /\ kind[p] = op
  /\ children[key[p]] = target[p]

\* Mutation: a listed child will do, whichever the waiter resolved.
GrantedByKey(p, op) ==
  /\ pc[p] = "waiting"
  /\ kind[p] = op
  /\ lock[target[p]] = None
  /\ children[key[p]] # None

\* The lock is granted and `_still_current` holds.
Granted(p, op) ==
  /\ pc[p] = "waiting"
  /\ kind[p] = op
  /\ lock[target[p]] = None
  /\ children[key[p]] = target[p]

Enable(p) ==
  LET k == key[p]
      c == target[p]
  IN /\ Granted(p, "enable")
     /\ status[c] = "stopped"
     /\ Approved(k, registry[k])
     /\ registry' = [registry EXCEPT ![k] = Edited(@, @.rev, TRUE)]
     /\ BeginStart(c, p, registry[k])
     /\ pc' = [pc EXCEPT ![p] = "done"]
     /\ UNCHANGED <<children, removing, key, kind, target, lock, session,
                    provider, genVars>>

\* The revision the admin read equals the stored one; another is refused.
Approve(p) ==
  LET k == key[p]
      c == target[p]
      rec == registry[k]
  IN /\ Granted(p, "approve")
     /\ k \notin AdminKey
     /\ registry' = [registry EXCEPT ![k] =
                       [rev |-> rec.rev, approved |-> rec.rev, enabled |-> rec.enabled]]
     /\ IF rec.enabled /\ status[c] = "stopped"
        THEN BeginStart(c, p, rec)
        ELSE /\ spec' = [spec EXCEPT ![c] = rec.rev]
             /\ UNCHANGED <<status, task, run>>
     /\ pc' = [pc EXCEPT ![p] = "done"]
     /\ UNCHANGED <<children, removing, key, kind, target, lock, session,
                    provider, genVars>>

\* `update` persists the edit, then tears the old generation down.
BeginUpdate(p) ==
  /\ Granted(p, "update")
  /\ \E r \in Rev, e \in BOOLEAN :
       registry' = [registry EXCEPT ![key[p]] = Edited(@, r, e)]
  /\ StartTeardown(p)
  /\ UNCHANGED <<children, removing, key, kind, target, status, spec, run,
                 session, genRev, leases, expired>>

BeginDisable(p) ==
  /\ Granted(p, "disable")
  /\ registry' = [registry EXCEPT ![key[p]] = Edited(@, @.rev, FALSE)]
  /\ spec' = [spec EXCEPT ![target[p]] = registry[key[p]].rev]
  /\ StartTeardown(p)
  /\ UNCHANGED <<children, removing, key, kind, target, status, run, session,
                 genRev, leases, expired>>

BeginRestart(p) ==
  /\ Granted(p, "restart")
  /\ status[target[p]] \in {"running", "failed"}
  /\ StartTeardown(p)
  /\ UNCHANGED <<gateVars, key, kind, target, status, spec, run, session, genRev,
                 leases, expired>>

\* `remove` drops the record and the object, and reserves the key.
BeginRemove(p) ==
  /\ Granted(p, "remove")
  /\ registry' = [registry EXCEPT ![key[p]] = None]
  /\ children' = [children EXCEPT ![key[p]] = None]
  /\ removing' = removing \cup {key[p]}
  /\ status' = [status EXCEPT ![target[p]] = "stopped"]
  /\ StartTeardown(p)
  /\ UNCHANGED <<key, kind, target, spec, run, session, genRev, leases, expired>>

\* The synchronous tail of an operation: its teardown has returned, and it
\* releases the lock at its end.
Finishing(p, op) ==
  /\ pc[p] = "closing"
  /\ kind[p] = op
  /\ CloseSession(target[p])
  /\ lock' = [lock EXCEPT ![target[p]] = None]
  /\ pc'   = [pc EXCEPT ![p] = "done"]
  /\ UNCHANGED <<key, kind, target, provider, genRev, leases, probe, expired>>

FinishUpdate(p) ==
  /\ Finishing(p, "update")
  /\ StartUnlessPending(key[p], target[p], p, registry[key[p]])
  /\ UNCHANGED gateVars

\* Mutation: a disable forgets the status.
FinishDisableKeepingStatus(p) ==
  /\ Finishing(p, "disable")
  /\ UNCHANGED <<gateVars, status, spec, task, run>>

FinishDisable(p) ==
  /\ Finishing(p, "disable")
  /\ status' = [status EXCEPT ![target[p]] = "stopped"]
  /\ UNCHANGED <<gateVars, spec, task, run>>

FinishRestart(p) ==
  /\ Finishing(p, "restart")
  /\ IF Approved(key[p], registry[key[p]])
     THEN BeginStart(target[p], p, registry[key[p]])
     ELSE /\ status' = [status EXCEPT ![target[p]] = "stopped"]
          /\ UNCHANGED <<spec, task, run>>
  /\ UNCHANGED gateVars

FinishRemove(p) ==
  /\ Finishing(p, "remove")
  /\ removing' = removing \ {key[p]}
  /\ UNCHANGED <<registry, children, status, spec, task, run>>

\* The lock-free visibility writes read the whole record back into `child.spec`.
Mute(k) ==
  /\ children[k] # None
  /\ spec' = [spec EXCEPT ![children[k]] = registry[k].rev]
  /\ UNCHANGED <<gateVars, callVars, lock, status, task, run, session, provider,
                 genVars>>

-----------------------------------------------------------------------------
(* Requests that lease a generation, and the snapshot probe.               *)

\* Mutation: `acquire` does not look at the state of the generation.
LeaseAny(r, c) ==
  LET g == session[c] IN
  /\ g # None
  /\ \A h \in Call : r \notin leases[h]
  /\ leases' = [leases EXCEPT ![g] = @ \cup {r}]
  /\ UNCHANGED <<gateVars, callVars, childVars, genState, genRev, probe, expired>>

\* `_lease`.  The reader resolved its `Child` object earlier, so the object may
\* have been replaced since.
Lease(r, c) ==
  LET g == session[c] IN
  /\ g # None
  /\ genState[g] = "open"
  /\ \A h \in Call : r \notin leases[h]
  /\ leases' = [leases EXCEPT ![g] = @ \cup {r}]
  /\ UNCHANGED <<gateVars, callVars, childVars, genState, genRev, probe, expired>>

Release(r, g) ==
  /\ r \in leases[g]
  /\ leases' = [leases EXCEPT ![g] = @ \ {r}]
  /\ UNCHANGED <<gateVars, callVars, childVars, genState, genRev, probe, expired>>

\* A render of the tool tree starts one probe of a stale snapshot.
ScheduleProbe(c) ==
  LET g == session[c] IN
  /\ status[c] = "running"
  /\ g # None
  /\ genState[g] = "open"
  /\ probe[g] = "none"
  /\ probe' = [probe EXCEPT ![g] = "scheduled"]
  /\ UNCHANGED <<gateVars, callVars, childVars, genState, genRev, leases, expired>>

\* First step of `_probe_child`: the identity check and the lease.
StartProbe(g) ==
  /\ probe[g] = "scheduled"
  /\ probe' = [probe EXCEPT ![g] =
                 IF session[target[g]] = g /\ genState[g] = "open"
                 THEN "reading" ELSE "none"]
  /\ UNCHANGED <<gateVars, callVars, childVars, genState, genRev, leases, expired>>

\* The read ends and the lease is released; a failed one then waits for the lock.
EndRead(g) ==
  /\ probe[g] = "reading"
  /\ \E o \in {"none", "failed"} : probe' = [probe EXCEPT ![g] = o]
  /\ UNCHANGED <<gateVars, callVars, childVars, genState, genRev, leases, expired>>

\* The failure path of `_probe_child`, under `child.lock`.
ReportProbeFailure(g) ==
  LET c == target[g] IN
  /\ probe[g] = "failed"
  /\ lock[c] = None
  /\ probe' = [probe EXCEPT ![g] = "none"]
  /\ IF status[c] = "running" /\ session[c] = g /\ genState[g] = "open"
     THEN /\ status'   = [status EXCEPT ![c] = "failed"]
          /\ provider' = [provider EXCEPT ![c] = None]
     ELSE UNCHANGED <<status, provider>>
  /\ UNCHANGED <<gateVars, callVars, lock, spec, task, run, session, genState,
                 genRev, leases, expired>>

-----------------------------------------------------------------------------
\* What the event loop does for a call once it may run.
CallStep(p) ==
  \/ Refuse(p) \/ Enable(p) \/ Approve(p)
  \/ BeginUpdate(p) \/ BeginDisable(p) \/ BeginRestart(p) \/ BeginRemove(p)
  \/ TaskEnds(p) \/ Drain(p)
  \/ FinishUpdate(p) \/ FinishDisable(p) \/ FinishRestart(p) \/ FinishRemove(p)

StartStep(c) == ProbeReturns(c) \/ Publish(c) \/ FailStart(c)

Next ==
  \/ \E k \in Key : RunStart(k) \/ Mute(k)
  \/ \E p \in Call, k \in Key : Add(p, k) \/ Invoke(p, k)
  \/ \E p \in Call : Abandon(p) \/ CallStep(p)
  \/ \E c \in Call : StartStep(c) \/ SwallowCancel(c) \/ ScheduleProbe(c)
  \/ \E r \in Reader, g \in Call : Lease(r, g) \/ Release(r, g)
  \/ \E g \in Call : StartProbe(g) \/ EndRead(g) \/ ReportProbeFailure(g)

Spec == Init /\ [][Next]_vars

(***************************************************************************)
(* The loop runs a ready task, child_start_timeout ends the probe of a     *)
(* start, LEASE_DRAIN_TIMEOUT ends a drain, and a close is assumed to      *)
(* return.  No client has to call, and no reader has to release.           *)
(***************************************************************************)
Fairness ==
  /\ \A k \in Key : WF_vars(RunStart(k))
  /\ \A p \in Call : WF_vars(CallStep(p))
  /\ \A c \in Call : WF_vars(StartStep(c))

FairSpec == Spec /\ Fairness

-----------------------------------------------------------------------------
(* Safety.                                                                 *)

\* A mounted provider belongs to the current object of a stored, enabled record
\* whose revision is approved, and runs exactly that revision.  An edit, a disable
\* and a removal persist first and unpublish later in the code; this says no
\* request can see the gap.
PublishedImpliesApproved ==
  \A c \in Call : provider[c] # None =>
    /\ children[key[c]] = c
    /\ Startable(key[c], registry[key[c]])
    /\ genRev[provider[c]] = registry[key[c]].rev
    /\ genState[provider[c]] = "open"

\* Two generations of one key are never alive together, whatever object they
\* belong to, and a live generation is reachable by the teardown that must close
\* it: `enable`, `restart` and a re-add never lose a running process.
OneProcessPerKey ==
  \A g \in Call : genState[g] \in Alive =>
    /\ session[target[g]] = g
    /\ \A h \in Call : genState[h] \in Alive /\ key[h] = key[g] => h = g

\* Between operations the status tells the truth: a stopped child is one that must
\* not run and holds nothing, a running one is mounted, a failed one is not, and
\* a starting one has a start task.  No completed operation forgets a child.
SettledStatus ==
  \A k \in Key : LET c == children[k] IN
    c # None /\ lock[c] = None =>
      /\ status[c] = "stopped" <=> ~Startable(k, registry[k])
      /\ status[c] = "stopped" => session[c] = None /\ task[c] = "none"
      /\ status[c] = "running" <=> provider[c] # None
      /\ status[c] = "starting" <=> task[c] # "none"

\* A generation is closed under a lease only when the drain bound had passed.
NoCloseUnderLease ==
  \A g \in Call : genState[g] = "closed" /\ g \notin expired => Idle(g)

\* A record changes only in the step that takes an operation off the free lock of the
\* child it describes, and that operation had resolved this very child: one that waited
\* for a removed child never edits its replacement (`_still_current`), and nothing edits
\* a record beneath a teardown.
RecordChangesUnderLock ==
  [][\A k \in Key : registry[k] # None /\ registry'[k] # registry[k] =>
       \E p \in Call :
         /\ pc[p] = "waiting" /\ pc'[p] # "waiting"
         /\ key[p] = k
         /\ target[p] = children[k] /\ lock[target[p]] = None]_vars

\* A process is started, and a lease is granted, only for the revision the store
\* holds as approved and enabled at that very step.
OnlyReviewedCodeRuns ==
  [][\A g \in Call :
       \/ genState[g] = "unborn" /\ genState'[g] # "unborn"
       \/ \E r \in Reader : r \in leases'[g] \ leases[g]
       \/ probe[g] # "reading" /\ probe'[g] = "reading"
       => LET k == key[g]
          IN  registry[k] # None /\ Startable(k, registry[k])
              /\ genRev'[g] = registry[k].rev]_vars

-----------------------------------------------------------------------------
(* The inductive invariant behind the safety properties.                   *)

Current(c) == key[c] # None /\ children[key[c]] = c

\* The object is current and its record may run.
MayRun(c) == Current(c) /\ Startable(key[c], registry[key[c]])

\* A call that began names the object an earlier `add` of its key installed.
CallsInv ==
  \A p \in Call :
    /\ pc[p] = "idle" <=> key[p] = None
    /\ pc[p] = "idle" <=> target[p] = None
    /\ pc[p] # "idle" =>
         /\ key[target[p]] = key[p]
         /\ target[target[p]] = target[p]
         /\ pc[target[p]] = "done"
    /\ pc[p] \in Teardown => kind[p] \in {"update", "disable", "restart", "remove"}

\* The registry and the child table agree.
TablesInv ==
  \A k \in Key :
    /\ registry[k] = None <=> children[k] = None
    /\ children[k] # None => key[children[k]] = k /\ target[children[k]] = children[k]

\* A lock is held exactly by the call inside the teardown of its object.
LockInv ==
  \A p, c \in Call : lock[c] = p <=> pc[p] \in Teardown /\ target[p] = c

\* A removal in progress reserves its key and is the only one of it; any other
\* teardown belongs to the current object, whose record it already fixed.
TeardownInv ==
  \A p \in Call : pc[p] \in Teardown =>
    /\ kind[p] = "remove" =>
         /\ key[p] \in removing
         /\ children[key[p]] = None
         /\ \A q \in Call : pc[q] \in Teardown /\ kind[q] = "remove"
                            /\ key[q] = key[p] => q = p
    /\ kind[p] # "remove" => children[key[p]] = target[p]
    /\ kind[p] = "disable" => ~registry[key[p]].enabled
    /\ kind[p] = "restart" => registry[key[p]].enabled
    /\ pc[p] = "cancelling" =>
         /\ task[target[p]] \in {"cancelled", "interrupted", "erred"}
         /\ provider[target[p]] = None
         /\ session[target[p]] # None => genState[session[target[p]]] = "starting"
    /\ pc[p] # "cancelling" =>
         /\ task[target[p]] = "none"
         /\ provider[target[p]] = None
         /\ session[target[p]] # None => genState[session[target[p]]] = "closing"

\* An object nobody holds: what its task, its session and its status say of it.
FreeInv ==
  \A c \in Call : lock[c] = None =>
    /\ session[c] # None \/ task[c] # "none" \/ provider[c] # None => MayRun(c)
    /\ task[c] \in {"cancelled", "interrupted"} => FALSE
    /\ task[c] # "none" => status[c] = "starting" /\ provider[c] = None
    /\ task[c] \in {"created", "crashed"} => session[c] = None
    /\ task[c] = "created" => spec[c] = registry[key[c]].rev
    /\ task[c] \in {"probing", "answered", "erred"} =>
         session[c] # None /\ genState[session[c]] = "starting"
    /\ session[c] # None =>
         /\ genRev[session[c]] = registry[key[c]].rev
         /\ genState[session[c]] \in {"starting", "open"}
    /\ provider[c] # None => status[c] = "running"
    /\ Current(c) =>
         /\ status[c] = "stopped" <=> ~MayRun(c)
         /\ status[c] = "stopped" => session[c] = None /\ task[c] = "none"
         /\ status[c] = "running" =>
              /\ provider[c] # None
              /\ provider[c] = session[c]
              /\ genState[session[c]] = "open"
         /\ status[c] = "starting" => task[c] # "none"

\* Every live generation is the session of the object its start was begun for, and
\* a generation is fresh until the call that names it has ended.
GenerationInv ==
  /\ \A c \in Call : session[c] # None =>
       target[session[c]] = c /\ genState[session[c]] \in Alive
  /\ \A g \in Call : genState[g] \in Alive => session[target[g]] = g
  /\ \A g \in Call : genState[g] # "unborn" => pc[g] = "done"
  /\ \A c \in Call : task[c] = "created" =>
       run[c] # None /\ target[run[c]] = c /\ pc[run[c]] = "done"
       /\ genState[run[c]] = "unborn"

\* A lease or a probe enters only an open generation, and a drain that was not cut
\* short left nobody inside.
LeaseInv ==
  /\ \A g \in Call : genState[g] = "unborn" => Idle(g)
  /\ \A g \in Call : genState[g] = "closed" /\ g \notin expired => Idle(g)
  /\ \A p \in Call : pc[p] = "closing" /\ session[target[p]] # None
                     /\ session[target[p]] \notin expired => Idle(session[target[p]])

IInv ==
  /\ TypeOK
  /\ CallsInv
  /\ TablesInv
  /\ LockInv
  /\ TeardownInv
  /\ FreeInv
  /\ GenerationInv
  /\ LeaseInv

-----------------------------------------------------------------------------
(* Liveness.                                                               *)

\* Every operation returns: a hung reader delays a teardown, it never blocks it.
EveryCallReturns == \A p \in Call : pc[p] = "waiting" ~> pc[p] = "done"

\* A child does not stay `starting`: a start ends in `running` or `failed`, or
\* another operation ends it.
StartSettles == \A c \in Call : status[c] = "starting" ~> status[c] # "starting"

\* `_teardown` gets past the await of the start task it cancelled: the comment in
\* its `finally` says the task is done either way.
CancelledStartEnds == \A p \in Call : pc[p] = "cancelling" ~> pc[p] # "cancelling"

-----------------------------------------------------------------------------
(* Refinement.                                                             *)

\* The revision a key serves: that of the generation behind the mounted provider
\* of its current object.
ServedRev ==
  [k \in Key |-> IF children[k] = None \/ provider[children[k]] = None THEN None
                 ELSE genRev[provider[children[k]]]]

Service == INSTANCE ApprovedService WITH record <- registry, serving <- ServedRev

\* The lifecycle implements the service: withdrawing what is served is never
\* visible as a step of its own after an edit, a disable or a removal.
ImplementsService == Service!SSpec

=============================================================================
