-------------------------------- MODULE Stores ------------------------------
(***************************************************************************)
(* What the supervisor keeps of a server besides its process: the record   *)
(* in memory and in the registry files, the live visibility transform, the *)
(* log, the source tree and the rules; the operations that write one of    *)
(* them, with their failures; and the crash and restart of the gateway     *)
(* between any two steps.  Two kinds of write are not here: `enable` and   *)
(* `disable`, which to these stores are an edit of `enabled` and which     *)
(* `ChildLifecycle` has as operations of their own, and the header that a  *)
(* sign-in or a refresh writes into a record, which `HeaderGrant` has.     *)
(*                                                                         *)
(* An operation that holds the child lock is two steps, before and after   *)
(* the awaits of `_teardown`; everything without an await is one step.     *)
(* `ChildLifecycle` has the locks, the leases and the queue themselves; the *)
(* right of the actor of a write is in `Accounts`.                         *)
(***************************************************************************)
EXTENDS Access, FiniteSets

CONSTANTS
  Env,          \* what a record says of its process: environment, package, source
  Letter,
  SecretsOf,    \* the secrets in it (`_secrets_of`)
  Sourced,      \* the servers whose source is their own directory of the store
  MaxOwned,     \* MAX_USER_SERVERS
  AdminTool,    \* the tools of the built-in server that tests and models name
  Pinned,       \* those that no mute hides (PINNED_ADMIN_TOOLS)
  RulePool,     \* bound: the rules an administrator may add
  Scenario,     \* bound: the records and the rules on disk when the model starts, and
                \* how many steps of each kind it may take
  MaxVersion    \* bound: source writes

Budget == {"policy", "life", "store", "fault", "crash", "req", "answer", "act"}

\* A record.  `env` stands for everything that the approval digest covers.
Record == [env : Env, enabled : BOOLEAN, muted : BOOLEAN, hidden : SUBSET Name,
           approved : Env \cup {None}]

\* What a `Visibility` transform holds.
Marks == [all : BOOLEAN, names : SUBSET (Name \cup AdminTool)]

\* An operation between its two steps, and the source write that a restart belongs to.
Operation == [kind : {"update", "restart", "remove"}, version : 0..MaxVersion]

\* What `ApprovedService` sees of a record.
ServiceRecord == [rev : Env, approved : Env \cup {None}, enabled : BOOLEAN]

ASSUME StoresAssumption ==
  /\ SecretsOf \in [Env -> SUBSET Seq(Letter)]
  /\ Sourced \subseteq Key /\ Pinned \subseteq AdminTool
  /\ MaxOwned \in Nat /\ MaxVersion \in Nat \ {0}
  /\ RulePool \subseteq Rule
  /\ Scenario \subseteq [boot : [Key -> Record \cup {None}], rules : SUBSET RulePool,
                         left : [Budget -> Nat]]
  /\ None \notin Record \cup Marks \cup Operation \cup ServiceRecord
  /\ \A s \in Scenario, k \in Key :
       OwnerOf[k] = None /\ s.boot[k] # None => s.boot[k].approved = None

VARIABLES
  specs, rootMuted, builtin,  \* `Registry`: the records, the root and the admin object
  adminFile, userFile,        \* servers.json and user_servers.json
  rules,                      \* `RuleStore`, in memory and in rules.json
  status, spec, task,         \* the `Child` of a key: status, `child.spec`, start task
  live, builtinLive,          \* the mounted `Visibility` of a child, of the built-in server
  op,                         \* the operation that holds the key or its lock
  log,                        \* whose output logs/<ref>.log has or may still get
  tree,                       \* servers/<ref>, its .tmp and its .old
  version, seen,              \* source writes so far; those the current process read
  pending, acked,             \* write_source calls before their restart; the last answered
  left                        \* what is left of the budget

memory == <<specs, rootMuted, builtin>>
files  == <<adminFile, userFile>>
child  == <<status, spec, task, live, op>>
source == <<tree, version, pending, acked>>
svars  == <<memory, files, rules, child, builtinLive, log, source, seen, left>>

-----------------------------------------------------------------------------
(* The registry.                                                           *)

Shared(k) == OwnerOf[k] = None

Approved(k, rec) == Shared(k) \/ rec.approved = rec.env

Listed == {k \in Key : specs[k] # None}
ApprovedKeys == {k \in Listed : Approved(k, specs[k])}

\* `_write`: the file of the administrators keeps no approval.
AdminPart(s, root, b) ==
  [muted |-> root, builtin |-> b,
   servers |-> [k \in Key |-> IF Shared(k) THEN s[k] ELSE None]]

UserPart(s) == [k \in Key |-> IF Shared(k) THEN None ELSE s[k]]

\* `load`: one list of both classes.
LoadedSpecs == [k \in Key |-> IF Shared(k) THEN adminFile.servers[k] ELSE userFile[k]]

\* Mutation: memory adopts the change although the write raised.
AdoptThenFail(s, root, b) ==
  specs' = s /\ rootMuted' = root /\ builtin' = b /\ UNCHANGED files

WriteFails(s, root, b) == UNCHANGED <<memory, files>>

\* `_commit`: the file of the class is written, then memory adopts the state.
Commit(s, root, b, user, ok) ==
  IF ~ok THEN WriteFails(s, root, b)
  ELSE /\ IF user
          THEN userFile' = UserPart(s) /\ UNCHANGED adminFile
          ELSE adminFile' = AdminPart(s, root, b) /\ UNCHANGED userFile
       /\ specs' = s /\ rootMuted' = root /\ builtin' = b

CommitRecord(k, rec, ok) ==
  Commit([specs EXCEPT ![k] = rec], rootMuted, builtin, ~Shared(k), ok)

\* `visibility` and `admin_visibility`: the levels read together.
Resolved(muted, hidden) ==
  [all |-> muted, names |-> IF muted THEN {} ELSE hidden]

MarksOf(root, rec) == Resolved(root \/ rec.muted, rec.hidden)
BuiltinMarks(b) == Resolved(b.muted, b.hidden)

\* `_visible`, and what the transforms of a provider let through.
Visible(pinned, marks, t) == pinned \/ (~marks.all /\ t \notin marks.names)

\* The mark of a tool in a dashboard row, resolved when the row is rendered
\* (`_snapshot_views`, `_builtin_views`).
RowMark(k, t) == Visible(FALSE, MarksOf(rootMuted, spec[k]), t)
BuiltinRowMark(t) == Visible(t \in Pinned, BuiltinMarks(builtin), t)

\* The pin is the last transform of the built-in provider.
BuiltinServes(t) == Visible(t \in Pinned, builtinLive, t)

Toggled(hidden, t, m) == IF m THEN hidden \cup {t} ELSE hidden \ {t}

-----------------------------------------------------------------------------
(* Budget, children and the start gate.                                    *)

Kinds(kind, ok) == IF ok THEN {kind} ELSE {kind, "fault"}

Pay(kinds) ==
  /\ \A b \in kinds : left[b] > 0
  /\ left' = [b \in Budget |-> IF b \in kinds THEN left[b] - 1 ELSE left[b]]

HasChild(k) == status[k] # "absent"
Free(k) == op[k] = None

\* `_begin_start`: the child gets the stored record and a start task.
Starts(k) ==
  /\ spec' = [spec EXCEPT ![k] = specs'[k]]
  /\ status' = [status EXCEPT ![k] = "starting"]
  /\ task' = [task EXCEPT ![k] = "new"]
  /\ seen' = [seen EXCEPT ![k] = {}]

Stops(k) ==
  /\ spec' = [spec EXCEPT ![k] = specs'[k]]
  /\ status' = [status EXCEPT ![k] = "stopped"]
  /\ task' = [task EXCEPT ![k] = "none"]
  /\ UNCHANGED seen

\* Mutation: the gate looks at `enabled` alone.
StartsUnreviewed(k) == IF specs'[k].enabled THEN Starts(k) ELSE Stops(k)

\* `_start_unless_pending`, for a record that may be disabled too.
StartsOrStops(k) ==
  IF specs'[k].enabled /\ Approved(k, specs'[k]) THEN Starts(k) ELSE Stops(k)

\* The first step of `_teardown`: the start task is cancelled, the provider is gone.
Unpublishes(k) ==
  /\ live' = [live EXCEPT ![k] = None]
  /\ task' = [task EXCEPT ![k] = "none"]

Takes(k, kind, v) == op' = [op EXCEPT ![k] = [kind |-> kind, version |-> v]]
Releases(k) == op' = [op EXCEPT ![k] = None]
Holds(k, kind) == op[k] # None /\ op[k].kind = kind

RulesWithout(k) == {r \in rules : r.server # k}
NoLog(k) == [log EXCEPT ![k] = {}]

-----------------------------------------------------------------------------
(* A start, its probe and its end.                                         *)

\* `_run_start` up to its await: the log is opened with the transport.
RunStart(k) ==
  /\ task[k] = "new"
  /\ task' = [task EXCEPT ![k] = "probing"]
  /\ log' = [log EXCEPT ![k] = @ \cup {spec[k].env}]
  /\ UNCHANGED <<memory, files, rules, status, spec, live, op, builtinLive, source, seen,
                 left>>

\* Mutation: the policy is resolved for the record alone.
MarksOfRecord(k) == MarksOf(FALSE, spec[k])

\* `_build_provider` reads `child.spec` when the probe commits.
MarksAtPublish(k) == MarksOf(rootMuted, spec[k])

Publish(k) ==
  /\ task[k] = "probing" /\ Free(k)
  /\ live' = [live EXCEPT ![k] = MarksAtPublish(k)]
  /\ status' = [status EXCEPT ![k] = "running"]
  /\ task' = [task EXCEPT ![k] = "none"]
  /\ UNCHANGED <<memory, files, rules, spec, op, builtinLive, log, source, seen, left>>

StartFails(k) ==
  /\ task[k] = "probing" /\ Free(k)
  /\ Pay({"fault"})
  /\ status' = [status EXCEPT ![k] = "failed"]
  /\ task' = [task EXCEPT ![k] = "none"]
  /\ UNCHANGED <<memory, files, rules, spec, live, op, builtinLive, log, source, seen>>

\* The failure path of `_probe_child`.
ProbeFails(k) ==
  /\ status[k] = "running" /\ Free(k)
  /\ Pay({"fault"})
  /\ status' = [status EXCEPT ![k] = "failed"]
  /\ live' = [live EXCEPT ![k] = None]
  /\ UNCHANGED <<memory, files, rules, spec, task, op, builtinLive, log, source, seen>>

\* The process of a local source reads a file of its tree. One that failed its probe
\* stays up until the next teardown.
Reads(k) == k \in Sourced /\ (task[k] = "probing" \/ status[k] \in {"running", "failed"})

ReadSource(k) ==
  /\ Reads(k)
  /\ seen' = [seen EXCEPT ![k] = @ \cup {tree[k].live}]
  /\ UNCHANGED <<memory, files, rules, child, builtinLive, log, source, left>>

-----------------------------------------------------------------------------
(* Visibility: no lock and no await; the record, `child.spec`, then the    *)
(* live transform.  A call that would change nothing is left out.          *)

\* `_apply` after a change of one record: a child with no provider has no transform.
AppliedTo(k, rec) ==
  IF live[k] = None THEN live ELSE [live EXCEPT ![k] = MarksOf(rootMuted, rec)]

AppliedToAll(root) ==
  [k \in Key |-> IF live[k] = None THEN None ELSE MarksOf(root, spec[k])]

SetRootMuted(m, ok) ==
  /\ m # rootMuted
  /\ Pay(Kinds("policy", ok))
  /\ Commit(specs, m, builtin, FALSE, ok)
  /\ live' = IF ok THEN AppliedToAll(m) ELSE live
  /\ UNCHANGED <<rules, status, spec, task, op, builtinLive, log, source, seen>>

\* set_namespace_muted and set_tool_muted of a child, rec being the record to store.
SetVisibility(k, rec, ok) ==
  /\ HasChild(k)
  /\ Pay(Kinds("policy", ok))
  /\ CommitRecord(k, rec, ok)
  /\ spec' = IF ok THEN [spec EXCEPT ![k] = rec] ELSE spec
  /\ live' = IF ok THEN AppliedTo(k, rec) ELSE live
  /\ UNCHANGED <<rules, status, task, op, builtinLive, log, source, seen>>

SetMuted(k, m, ok) ==
  /\ HasChild(k)
  /\ m # specs[k].muted \/ spec[k] # specs[k]
  /\ SetVisibility(k, [specs[k] EXCEPT !.muted = m], ok)

\* A tool that already is as asked is not written; the rest is done all the same.
SetToolMuted(k, t, m, ok) ==
  /\ HasChild(k)
  /\ IF (t \in specs[k].hidden) = m
     THEN /\ ok /\ spec[k] # specs[k]
          /\ Pay({"policy"})
          /\ spec' = [spec EXCEPT ![k] = specs[k]]
          /\ live' = AppliedTo(k, specs[k])
          /\ UNCHANGED <<memory, files, rules, status, task, op, builtinLive, log, source,
                         seen>>
     ELSE SetVisibility(k, [specs[k] EXCEPT !.hidden = Toggled(@, t, m)], ok)

\* The built-in server has no record: its policy is the admin object.
SetBuiltin(b, ok) ==
  /\ Pay(Kinds("policy", ok))
  /\ Commit(specs, rootMuted, b, FALSE, ok)
  /\ builtinLive' = IF ok THEN BuiltinMarks(b) ELSE builtinLive
  /\ UNCHANGED <<rules, child, log, source, seen>>

SetAdminMuted(m, ok) == m # builtin.muted /\ SetBuiltin([builtin EXCEPT !.muted = m], ok)

SetAdminToolMuted(t, m, ok) ==
  /\ (t \in builtin.hidden) # m
  /\ SetBuiltin([builtin EXCEPT !.hidden = Toggled(@, t, m)], ok)

-----------------------------------------------------------------------------
(* Rules: rules.json first, then memory.                                   *)

\* `add_rule`: a rule on a server names one of the registry.
AddRule(r, ok) ==
  /\ r \notin rules
  /\ r.server # None => r.server \in Listed
  /\ Pay(Kinds("policy", ok))
  /\ rules' = IF ok THEN rules \cup {r} ELSE rules
  /\ UNCHANGED <<memory, files, child, builtinLive, log, source, seen>>

RemoveRule(r, ok) ==
  /\ r \in rules
  /\ Pay(Kinds("policy", ok))
  /\ rules' = IF ok THEN rules \ {r} ELSE rules
  /\ UNCHANGED <<memory, files, child, builtinLive, log, source, seen>>

-----------------------------------------------------------------------------
(* Add, edit, approve, restart, remove.                                    *)

Conflict(n, m) ==
  \/ Len(m) < Len(n) /\ SubSeq(n, 1, Len(m)) = m
  \/ Len(n) < Len(m) /\ SubSeq(m, 1, Len(n)) = n

\* `registry.add` refuses a user over the cap, and a namespace that shares names with
\* one the user can see in the registry.
Refused(k) ==
  /\ ~Shared(k)
  /\ \/ MaxOwned <= Cardinality({j \in Listed : OwnerOf[j] = OwnerOf[k]})
     \/ \E j \in Listed : OwnerOf[j] \in {None, OwnerOf[k]} /\ Conflict(NamespaceOf[k], NamespaceOf[j])

NewRecord(env, enabled) ==
  [env |-> env, enabled |-> enabled, muted |-> FALSE, hidden |-> {}, approved |-> None]

\* `done` writes take place: the rules of the key go, then its old log, then the record
\* is stored; the third may be refused or fail with the residue gone.
Add(k, env, enabled, done) ==
  /\ specs[k] = None /\ ~HasChild(k) /\ Free(k)
  /\ done = 3 => ~Refused(k)
  /\ Pay(Kinds("life", done = 3 \/ (done = 2 /\ Refused(k))))
  /\ rules' = IF done >= 1 THEN RulesWithout(k) ELSE rules
  /\ log' = IF done >= 2 THEN NoLog(k) ELSE log
  /\ IF done = 3
     THEN /\ CommitRecord(k, NewRecord(env, enabled), TRUE)
          /\ StartsOrStops(k)
     ELSE UNCHANGED <<memory, files, status, spec, task, seen>>
  /\ UNCHANGED <<live, op, builtinLive, source>>

\* Mutation: the log is kept.
LogKept(k, rec) == log

\* A changed set of secrets discards the log before the record is stored.
LogAfterEdit(k, rec) ==
  IF SecretsOf[rec.env] # SecretsOf[spec[k].env] THEN NoLog(k) ELSE log

\* `registry.merge`: the visibility and the approval stay those of the stored record.
Merged(k, env, enabled) == [specs[k] EXCEPT !.env = env, !.enabled = enabled]

BeginUpdate(k, env, enabled, ok) ==
  /\ HasChild(k) /\ Free(k)
  /\ Pay(Kinds("life", ok))
  /\ log' = LogAfterEdit(k, Merged(k, env, enabled))
  /\ CommitRecord(k, Merged(k, env, enabled), ok)
  /\ IF ok THEN Unpublishes(k) /\ Takes(k, "update", 0)
           ELSE UNCHANGED <<live, task, op>>
  /\ UNCHANGED <<rules, status, spec, builtinLive, source, seen>>

FinishUpdate(k) ==
  /\ Holds(k, "update")
  /\ UNCHANGED <<memory, files, rules, live, builtinLive, log, source, left>>
  /\ StartsOrStops(k)
  /\ Releases(k)

Approve(k, ok) ==
  /\ HasChild(k) /\ Free(k) /\ ~Shared(k)
  /\ Pay(Kinds("life", ok))
  /\ CommitRecord(k, [specs[k] EXCEPT !.approved = specs[k].env], ok)
  /\ IF ~ok THEN UNCHANGED <<status, spec, task, seen>>
     ELSE IF specs'[k].enabled /\ status[k] = "stopped" THEN Starts(k)
     ELSE spec' = [spec EXCEPT ![k] = specs'[k]] /\ UNCHANGED <<status, task, seen>>
  /\ UNCHANGED <<rules, live, op, builtinLive, log, source>>

\* `restart`, by an administrator or by the write_source call of a version.
BeginRestart(k, v) ==
  /\ HasChild(k) /\ Free(k) /\ status[k] \in {"running", "failed"}
  /\ IF v = 0 THEN Pay({"life"}) ELSE v \in pending[k] /\ UNCHANGED left
  /\ pending' = [pending EXCEPT ![k] = @ \ {v}]
  /\ Unpublishes(k) /\ Takes(k, "restart", v)
  /\ UNCHANGED <<memory, files, rules, status, spec, builtinLive, log, tree, version, acked,
                 seen>>

\* The child moved while the call waited for the lock: it ends with an error.
RestartRefused(k, v) ==
  /\ v \in pending[k] /\ Free(k) /\ status[k] \notin {"running", "failed"}
  /\ pending' = [pending EXCEPT ![k] = @ \ {v}]
  /\ UNCHANGED <<memory, files, rules, child, builtinLive, log, tree, version, acked, seen,
                 left>>

\* The gate may refuse after the teardown; only a start answers the write.
FinishRestart(k) ==
  /\ Holds(k, "restart")
  /\ UNCHANGED <<memory, files, rules, live, builtinLive, log, tree, version, pending, left>>
  /\ IF Approved(k, specs[k])
     THEN /\ Starts(k)
          /\ acked' = [acked EXCEPT ![k] = IF op[k].version > @ THEN op[k].version ELSE @]
     ELSE /\ status' = [status EXCEPT ![k] = "stopped"]
          /\ UNCHANGED <<spec, task, seen, acked>>
  /\ Releases(k)

BeginRemove(k, ok) ==
  /\ HasChild(k) /\ Free(k)
  /\ Pay(Kinds("life", ok))
  /\ CommitRecord(k, None, ok)
  /\ IF ok
     THEN /\ status' = [status EXCEPT ![k] = "absent"]
          /\ pending' = [pending EXCEPT ![k] = {}]
          /\ Unpublishes(k) /\ Takes(k, "remove", 0)
     ELSE UNCHANGED <<status, pending, live, task, op>>
  /\ UNCHANGED <<rules, spec, builtinLive, log, tree, version, acked, seen>>

Partial == MaxVersion + 1
NoTree == [live |-> 0, tmp |-> 0, old |-> 0]

\* `done` of the deletes take place: the log, the tree when it is its own, the rules.
\* The delete of the tree may stop in the middle of it.
FinishRemove(k, done) ==
  /\ Holds(k, "remove")
  /\ IF done = 3 THEN UNCHANGED left ELSE Pay({"fault"})
  /\ log' = IF done >= 1 THEN NoLog(k) ELSE log
  /\ \/ done >= 2 /\ k \in Sourced /\ tree' = [tree EXCEPT ![k] = NoTree]
     \/ done = 1 /\ k \in Sourced
          /\ tree' = [tree EXCEPT ![k] = [@ EXCEPT !.live = Partial]]
     \/ (done < 2 \/ k \notin Sourced) /\ UNCHANGED tree
  /\ acked' = [acked EXCEPT ![k] = 0]
  /\ rules' = IF done = 3 THEN RulesWithout(k) ELSE rules
  /\ Releases(k)
  /\ UNCHANGED <<memory, files, status, spec, task, live, builtinLive, version, pending,
                 seen>>

-----------------------------------------------------------------------------
(* The source store.                                                       *)

\* Mutation: the files are written where the process reads them.
StagesInPlace(t, v) ==
  <<[t EXCEPT !.tmp = 0], NoTree, [NoTree EXCEPT !.live = Partial],
    [NoTree EXCEPT !.live = v]>>

\* The states of servers/<ref>, <ref>.tmp and <ref>.old that a write goes through: the
\* leftovers of an earlier one go, the new tree is staged, and two renames swap it in.
Stages(t, v) ==
  LET cleared == [t EXCEPT !.tmp = 0, !.old = 0]
      staged == [cleared EXCEPT !.tmp = v]
      aside == IF t.live = 0 THEN staged ELSE [staged EXCEPT !.live = 0, !.old = t.live]
      swapped == [aside EXCEPT !.live = v, !.tmp = 0]
  IN  <<[t EXCEPT !.tmp = 0], cleared, [cleared EXCEPT !.tmp = Partial], staged, aside,
        swapped, [swapped EXCEPT !.old = 0]>>

\* write_source: the write never awaits, but the process of the child reads beside it,
\* and it may fail, or the host may stop, after any of its steps.
WriteSource(k) ==
  /\ version < MaxVersion /\ left.store > 0
  /\ \E done \in DOMAIN Stages(tree[k], version + 1) :
       LET stages == Stages(tree[k], version + 1)
           ok == done = Len(stages)
           passed == {stages[i].live : i \in 1..done}
       IN  /\ Pay(Kinds("store", ok))
           /\ version' = version + 1
           /\ tree' = [tree EXCEPT ![k] = stages[done]]
           /\ \E glimpsed \in IF Reads(k) THEN SUBSET passed ELSE {{}} :
                seen' = [seen EXCEPT ![k] = @ \cup glimpsed]
           /\ pending' = IF ok /\ status[k] \in {"running", "failed"}
                         THEN [pending EXCEPT ![k] = @ \cup {version + 1}] ELSE pending
  /\ UNCHANGED <<memory, files, rules, child, builtinLive, log, acked>>

-----------------------------------------------------------------------------
(* The gateway dies and starts again: `load`, `register_builtin`, `startup`. *)

AfterLoad(k) ==
  IF LoadedSpecs[k] = None THEN "absent"
  ELSE IF LoadedSpecs[k].enabled /\ Approved(k, LoadedSpecs[k]) THEN "starting"
  ELSE "stopped"

Crash ==
  /\ Pay({"crash"})
  /\ specs' = LoadedSpecs /\ rootMuted' = adminFile.muted /\ builtin' = adminFile.builtin
  /\ status' = [k \in Key |-> AfterLoad(k)]
  /\ spec' = [k \in Key |-> IF LoadedSpecs[k] = None THEN spec[k] ELSE LoadedSpecs[k]]
  /\ task' = [k \in Key |-> IF AfterLoad(k) = "starting" THEN "new" ELSE "none"]
  /\ live' = [k \in Key |-> None]
  /\ builtinLive' = BuiltinMarks(adminFile.builtin)
  /\ op' = [k \in Key |-> None]
  /\ seen' = [k \in Key |-> {}]
  /\ pending' = [k \in Key |-> {}]
  /\ UNCHANGED <<files, rules, log, tree, version, acked>>

-----------------------------------------------------------------------------
(* The specification.                                                      *)

NoBuiltin == [muted |-> FALSE, hidden |-> {}]

\* The gateway has started with the records of `boot`, and every server that may run
\* runs.
Started(boot) ==
  /\ specs = boot /\ rootMuted = FALSE /\ builtin = NoBuiltin
  /\ adminFile = AdminPart(boot, FALSE, NoBuiltin) /\ userFile = UserPart(boot)
  /\ status = [k \in Key |-> IF boot[k] = None THEN "absent"
                             ELSE IF boot[k].enabled /\ Approved(k, boot[k])
                             THEN "running" ELSE "stopped"]
  /\ spec = boot
  /\ task = [k \in Key |-> "none"]
  /\ live = [k \in Key |-> IF status[k] = "running" THEN MarksOf(FALSE, boot[k]) ELSE None]
  /\ builtinLive = BuiltinMarks(NoBuiltin)
  /\ op = [k \in Key |-> None]
  /\ log = [k \in Key |-> IF status[k] = "running" THEN {boot[k].env} ELSE {}]
  /\ tree = [k \in Key |-> IF k \in Sourced /\ boot[k] # None
                           THEN [NoTree EXCEPT !.live = 1] ELSE NoTree]
  /\ version = 1
  /\ seen = [k \in Key |-> IF k \in Sourced /\ status[k] = "running" THEN {1} ELSE {}]
  /\ pending = [k \in Key |-> {}]
  /\ acked = [k \in Key |-> 0]

StoresInit ==
  \E s \in Scenario : Started(s.boot) /\ rules = s.rules /\ left = s.left

\* A write may fail while the budget has a fault.
Outcomes == IF left.fault > 0 THEN BOOLEAN ELSE {TRUE}

Mutes(ok) ==
  \/ \E m \in BOOLEAN : SetRootMuted(m, ok) \/ SetAdminMuted(m, ok)
  \/ \E m \in BOOLEAN, t \in AdminTool : SetAdminToolMuted(t, m, ok)
  \/ \E k \in Key, m \in BOOLEAN :
       SetMuted(k, m, ok) \/ \E t \in Name : SetToolMuted(k, t, m, ok)

Edits(ok) ==
  \E k \in Key :
    \/ \E env \in Env, enabled \in BOOLEAN : BeginUpdate(k, env, enabled, ok)
    \/ Approve(k, ok)
    \/ BeginRemove(k, ok)

Adds ==
  \E k \in Key, env \in Env, enabled \in BOOLEAN, done \in 0..3 : Add(k, env, enabled, done)

Continues ==
  \E k \in Key :
    \/ RunStart(k) \/ Publish(k) \/ StartFails(k) \/ ProbeFails(k) \/ ReadSource(k)
    \/ FinishUpdate(k) \/ FinishRestart(k)
    \/ \E done \in 0..3 : FinishRemove(k, done)
    \/ \E v \in pending[k] \cup {0} : BeginRestart(k, v) \/ RestartRefused(k, v)
    \/ k \in Sourced /\ WriteSource(k)

Works ==
  \/ /\ left.policy > 0
     /\ \E ok \in Outcomes : Mutes(ok) \/ \E r \in RulePool : AddRule(r, ok) \/ RemoveRule(r, ok)
  \/ /\ left.life > 0
     /\ Adds \/ \E ok \in Outcomes : Edits(ok)
  \/ Continues

StoresNext == Works \/ Crash

StoresSpec == StoresInit /\ [][StoresNext]_svars
-----------------------------------------------------------------------------
(* Properties.                                                             *)

Version == 0..Partial
Builtin == [muted : BOOLEAN, hidden : SUBSET AdminTool]
Status == {"absent", "stopped", "starting", "running", "failed"}

\* Every variable holds what the code can put there.
StoresTypeOK ==
  /\ specs \in [Key -> Record \cup {None}] /\ rootMuted \in BOOLEAN /\ builtin \in Builtin
  /\ adminFile \in [muted : BOOLEAN, builtin : Builtin, servers : [Key -> Record \cup {None}]]
  /\ userFile \in [Key -> Record \cup {None}]
  /\ rules \subseteq RulePool
  /\ status \in [Key -> Status] /\ spec \in [Key -> Record \cup {None}]
  /\ task \in [Key -> {"none", "new", "probing"}]
  /\ live \in [Key -> Marks \cup {None}] /\ builtinLive \in Marks
  /\ op \in [Key -> Operation \cup {None}]
  /\ log \in [Key -> SUBSET Env]
  /\ tree \in [Key -> [live : Version, tmp : Version, old : Version]]
  /\ version \in 1..MaxVersion /\ seen \in [Key -> SUBSET Version]
  /\ pending \in [Key -> SUBSET (1..MaxVersion)] /\ acked \in [Key -> 0..MaxVersion]
  /\ left \in [Budget -> Nat]

\* Memory is what a restart would load: each change goes to one of the two files, and
\* memory adopts it only when it is written (`_commit`, "memory still equals the file").
MemoryIsDisk ==
  /\ specs = LoadedSpecs
  /\ rootMuted = adminFile.muted
  /\ builtin = adminFile.builtin

\* Three views of one policy agree at every moment: the mark of the dashboard row, what
\* the mounted transform of a published server lets through, and the stored policy,
\* whatever write failed, edit is under way or start ends while a mute comes in. A pinned
\* tool is served whatever the policy says.
MarksAgree ==
  /\ \A k \in Key : live[k] # None =>
       /\ HasChild(k) /\ specs[k] # None
       /\ \A t \in Name :
            /\ RowMark(k, t) = Visible(FALSE, live[k], t)
            /\ RowMark(k, t) = (~rootMuted /\ ~specs[k].muted /\ t \notin specs[k].hidden)
  /\ \A t \in AdminTool :
       /\ BuiltinRowMark(t) = BuiltinServes(t)
       /\ BuiltinServes(t) = (t \in Pinned \/ (~builtin.muted /\ t \notin builtin.hidden))

\* A write_source call that answered "restarted" is served: the process since then has
\* read whole trees only, none older than that write, whatever later write overlaps its
\* reads, fails half-way or is cut by a crash. An absent tree is the one exception.
RestartServesWrite ==
  \A k \in Key : acked[k] > 0 =>
    \A v \in seen[k] : v = 0 \/ (acked[k] <= v /\ v # Partial)

\* What the registry and the mounted transforms say, in the words of `ApprovedService`.
StoredRecord ==
  [k \in Key |-> IF specs[k] = None THEN None
                 ELSE [rev |-> specs[k].env, approved |-> specs[k].approved,
                       enabled |-> specs[k].enabled]]

ServedEnv == [k \in Key |-> IF live[k] = None THEN None ELSE spec[k].env]

Service == INSTANCE ApprovedService
             WITH AdminKey <- {k \in Key : Shared(k)}, Rev <- Env,
                  record <- StoredRecord, serving <- ServedEnv

\* Failed writes, crashes and restarts included, the gateway serves only what was reviewed:
\* a change of the record withdraws what is served in the same step, a write that fails
\* does neither, a mute is not seen at all, and a crash loses no record.
ImplementsService == Service!SSpec
=============================================================================
