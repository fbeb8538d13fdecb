----------------------------- MODULE HeaderGrant -----------------------------
(***************************************************************************)
(* The OAuth grant of one admin-owned server whose access token is a       *)
(* request header (a "header sink"): the sign-in flow from the connect or  *)
(* re-authorize form to `Supervisor.finish_oauth`, the task that refreshes *)
(* the token, the two files that hold it (refresh.json and the header in   *)
(* the registry), and the crash or failed write between the two.           *)
(*                                                                         *)
(* A token stands for one answer of the token endpoint: an access token    *)
(* and the refresh token to use next.  References share nothing here, so   *)
(* one server key is enough; it is added, removed and added again.  The    *)
(* lifecycle of the child appears only as far as it carries the header:    *)
(* a teardown is a suspension that holds the lock of the child.            *)
(***************************************************************************)
EXTENDS Naturals, Sequences

CONSTANTS
  Flow,      \* authorization flows; the connect flow also names its server
  Token,     \* answers of the token endpoint
  Lasting,   \* answers without `expires_in`: such a token is never refreshed
  Child,     \* `Child` objects
  Task,      \* slots for refresh tasks
  Caller,    \* requests: OAuth callbacks and operations of an admin
  None,
  MaxMishaps,          \* bound on crashes, and on failed writes and reads while up
  CancelMaySwallow,    \* the HTTP client may swallow a cancel
  AnswerMayBeGarbled   \* the token endpoint may answer 2xx with no JSON

ASSUME ConstantsAssumption ==
  /\ Lasting \subseteq Token
  /\ None \notin Flow \cup Token \cup Child \cup Task \cup Caller
  /\ MaxMishaps \in Nat
  /\ CancelMaySwallow \in BOOLEAN
  /\ AnswerMayBeGarbled \in BOOLEAN

VARIABLES
  up,          \* the process runs
  disk,        \* servers.json and creds/<ref>/refresh.json
  mishaps,     \* how many mishaps happened
  issued,      \* the provider: where each token comes from
  flow,        \* `PendingFlows._flows`
  server,      \* the server a flow was opened for (its `ref`, and which add of it)
  exchanging,  \* `PendingFlows._exchanging`
  posted,      \* history: flows whose code was sent to the token endpoint
  child,       \* `_children[key]`
  used,        \* the `Child` objects made since the boot
  removing,    \* `_removing` holds the key
  lock,        \* `child.lock`, held across a suspension
  kid,         \* the fields of the current child
  table,       \* `_refresh_tasks[key]`
  task,        \* the refresh tasks
  call         \* the requests under way

flowVars == <<flow, server, exchanging, posted>>
keyVars  == <<child, used, removing>>
vars == <<up, disk, mishaps, issued, flowVars, keyVars, lock, kid, table, task, call>>

Disk == [id : Flow \cup {None}, enabled : BOOLEAN,
         header : Token \cup {None}, file : Token \cup {None}]

\* Where the provider issued a token: for the code of a flow, or for another token.
Origin == [line : Flow, parent : Token \cup {None}]

ASSUME OriginAssumption == None \notin Origin

\* err: what `last_error` tells; "child" is an error of the child itself, of its start
\* or of a probe.  rejected: `refresh_rejected` is set, which nothing shows by itself.
\* proc: the status.  live: the header in `transport.headers`, None without a transport.
\* unfinished: history, a write of the last sign-in raised; no field of the code has it.
Kid == [grant : Nat, err : {"none", "child", "transient", "rejected"},
        rejected : BOOLEAN, proc : {"down", "starting", "up", "failed"},
        live : Token \cup {None}, unfinished : BOOLEAN]
NewKid == [grant |-> 0, err |-> "none", rejected |-> FALSE, proc |-> "down",
           live |-> None, unfinished |-> FALSE]

\* of, born: the `Child` and the grant a task captured.  held: the `state` of its
\* round.  reply: the token it received.
TaskPhase == {"none", "sync", "send", "posted", "retry", "apply", "fault", "reject"}
TaskRec == [phase : TaskPhase, of : Child \cup {None}, born : Nat,
            cancelled : BOOLEAN, held : Token \cup {None}, reply : Token \cup {None}]
NoTask == [phase |-> "none", of |-> None, born |-> 0, cancelled |-> FALSE,
           held |-> None, reply |-> None]

\* flow, token: of a callback.  target: the `Child` a request resolved.
CallRec == [job : {"none", "callback", "remove", "disable"},
            pc : {"idle", "exchange", "waiting", "teardown"},
            flow : Flow \cup {None}, target : Child \cup {None},
            token : Token \cup {None}]
NoCall == [job |-> "none", pc |-> "idle", flow |-> None, target |-> None,
           token |-> None]

TypeOK ==
  /\ up \in BOOLEAN
  /\ disk \in Disk
  /\ mishaps \in 0..MaxMishaps
  /\ issued \in [Token -> Origin \cup {None}]
  /\ flow \in [Flow -> {"new", "open", "gone"}]
  /\ server \in [Flow -> Flow \cup {None}]
  /\ exchanging \subseteq Flow
  /\ posted \subseteq Flow
  /\ child \in Child \cup {None}
  /\ used \subseteq Child
  /\ removing \in BOOLEAN
  /\ lock \in [Child -> Caller \cup {None}]
  /\ kid \in Kid
  /\ table \in Task \cup {None}
  /\ task \in [Task -> TaskRec]
  /\ call \in [Caller -> CallRec]

Init ==
  /\ up = TRUE
  /\ disk = [id |-> None, enabled |-> FALSE, header |-> None, file |-> None]
  /\ mishaps = 0
  /\ issued = [n \in Token |-> None]
  /\ flow = [f \in Flow |-> "new"]
  /\ server = [f \in Flow |-> None]
  /\ exchanging = {}
  /\ posted = {}
  /\ child = None
  /\ used = {}
  /\ removing = FALSE
  /\ lock = [c \in Child |-> None]
  /\ kid = NewKid
  /\ table = None
  /\ task = [t \in Task |-> NoTask]
  /\ call = [p \in Caller |-> NoCall]

Mishap == mishaps < MaxMishaps /\ mishaps' = mishaps + 1

-----------------------------------------------------------------------------
(* What each operation writes, in order: a sequence of states of the disk. *)
(* Nothing else runs between the writes, but a crash or an error may come  *)
(* after any of them.                                                      *)

AddWrites(f) ==
  LET listed == [disk EXCEPT !.id = f, !.enabled = FALSE, !.header = None]
  IN  <<listed, [listed EXCEPT !.file = None]>>

RemoveWrites ==
  LET dropped == [disk EXCEPT !.id = None, !.enabled = FALSE, !.header = None]
  IN  <<dropped, [dropped EXCEPT !.file = None]>>

\* Mutation: the header first.
HeaderFirstWrites(n) ==
  LET headed == [disk EXCEPT !.header = n]
  IN  <<headed, [headed EXCEPT !.file = n]>>

\* refresh.json first, then the header that is derived from it.
RefreshWrites(n) ==
  LET filed == [disk EXCEPT !.file = n]
  IN  <<filed, [filed EXCEPT !.header = n]>>

\* A sign-in that gives no refresh token deletes the file of the old grant.
SignInWrites(n, refreshable) ==
  LET filed == [disk EXCEPT !.file = IF refreshable THEN n ELSE None]
  IN  <<filed, [filed EXCEPT !.header = n]>>

\* Mutation: the flag takes the truthy token.
EnableWithToken(d) == <<d, [d EXCEPT !.enabled = d.header]>>

\* A connect enables the child it has just authorized.
EnableWrites(d) == <<d, [d EXCEPT !.enabled = TRUE]>>

CutShort(writes) == {disk} \cup {writes[i] : i \in 1..(Len(writes) - 1)}

-----------------------------------------------------------------------------
(* Flows: the connect form adds the server and opens its flow; the         *)
(* re-authorize form opens one more for a server that is authorized.       *)

CanConnect(f) == up /\ child = None /\ ~removing /\ disk.id = None /\ flow[f] = "new"

Connect(f) ==
  /\ CanConnect(f)
  /\ \E c \in Child \ used : child' = c /\ used' = used \cup {c}
  /\ disk' = AddWrites(f)[2]
  /\ kid' = NewKid
  /\ flow' = [flow EXCEPT ![f] = "open"]
  /\ server' = [server EXCEPT ![f] = f]
  /\ UNCHANGED <<up, mishaps, issued, exchanging, posted, removing, lock, table,
                 task, call>>

Reauthorize(f) ==
  /\ up /\ child # None /\ flow[f] = "new"
  /\ disk.header # None
  /\ \A g \in Flow : flow[g] # "open"
  /\ flow' = [flow EXCEPT ![f] = "open"]
  /\ server' = [server EXCEPT ![f] = disk.id]
  /\ UNCHANGED <<up, disk, mishaps, issued, exchanging, posted, keyVars, lock, kid,
                 table, task, call>>

\* The ttl passed and some operation swept, or the callback brought an error word.
Expire(f) ==
  /\ flow[f] = "open"
  /\ flow' = [flow EXCEPT ![f] = "gone"]
  /\ UNCHANGED <<up, disk, mishaps, issued, server, exchanging, posted, keyVars,
                 lock, kid, table, task, call>>

-----------------------------------------------------------------------------
(* The OAuth callback.                                                     *)

Popped(f) == [flow EXCEPT ![f] = "gone"]

Returns(p) == call' = [call EXCEPT ![p] = NoCall]

\* The callback returns; its `finally` ends the exchange.
CallbackReturns(p) == Returns(p) /\ exchanging' = exchanging \ {call[p].flow}

\* Mutation: `begin_exchange` marks and never refuses.
MayExchangeAlways(f) == flow[f] = "open"

\* `peek` finds the flow and no other callback exchanges its code.
MayExchange(f) == flow[f] = "open" /\ f \notin exchanging

BeginCallback(p, f) ==
  /\ up /\ call[p] = NoCall
  /\ MayExchange(f)
  /\ exchanging' = exchanging \cup {f}
  /\ posted' = posted \cup {f}
  /\ call' = [call EXCEPT ![p] = [NoCall EXCEPT !.job = "callback", !.pc = "exchange",
                                                !.flow = f]]
  /\ UNCHANGED <<up, disk, mishaps, issued, flow, server, keyVars, lock, kid, table,
                 task>>

Fresh(n) == issued[n] = None

\* A usable answer.  `finish_oauth` then looks its child up before it waits.
ExchangeAnswered(p) ==
  /\ call[p].pc = "exchange"
  /\ \E n \in Token :
       /\ Fresh(n)
       /\ issued' = [issued EXCEPT ![n] = [line |-> call[p].flow, parent |-> None]]
       /\ IF child = None
          THEN flow' = Popped(call[p].flow) /\ CallbackReturns(p)
          ELSE /\ call' = [call EXCEPT ![p] = [@ EXCEPT !.pc = "waiting",
                                                 !.target = child, !.token = n]]
               /\ UNCHANGED <<flow, exchanging>>
  /\ UNCHANGED <<up, disk, mishaps, server, posted, keyVars, lock, kid, table,
                 task>>

\* No answer, an error status, or an answer the checks refuse: the flow is spent.
ExchangeFails(p) ==
  /\ call[p].pc = "exchange"
  /\ flow' = Popped(call[p].flow)
  /\ CallbackReturns(p)
  /\ UNCHANGED <<up, disk, mishaps, issued, server, posted, keyVars, lock, kid, table,
                 task>>

\* A 2xx answer that is no JSON leaves the callback with an exception.
ExchangeGarbled(p) ==
  /\ AnswerMayBeGarbled
  /\ call[p].pc = "exchange"
  /\ CallbackReturns(p)
  /\ UNCHANGED <<up, disk, mishaps, issued, flow, server, posted, keyVars, lock, kid,
                 table, task>>

-----------------------------------------------------------------------------
(* `finish_oauth`, once it holds the lock.                                 *)

AtLock(p, j) ==
  call[p].job = j /\ call[p].pc = "waiting" /\ lock[call[p].target] = None

\* The waiter's child is still the one that owns the key.
StillCurrent(p) == call[p].target = child

\* Mutation: a callback whose server was replaced has no way out.
FinishNothingCurrent(p) ==
  /\ AtLock(p, "callback") /\ StillCurrent(p)
  /\ flow' = Popped(call[p].flow)
  /\ CallbackReturns(p)
  /\ UNCHANGED <<up, disk, mishaps, issued, server, posted, keyVars, lock, kid, table,
                 task>>

\* A removal replaced the child, or the flow is gone, or the opener lost the right:
\* the flow is spent and nothing is written.
FinishNothing(p) ==
  /\ AtLock(p, "callback")
  /\ flow' = Popped(call[p].flow)
  /\ CallbackReturns(p)
  /\ UNCHANGED <<up, disk, mishaps, issued, server, posted, keyVars, lock, kid, table,
                 task>>

\* Mutation: the result of the pop is not looked at.
CanFinishUnpopped(p) == AtLock(p, "callback") /\ StillCurrent(p)

CanFinish(p) ==
  AtLock(p, "callback") /\ StillCurrent(p) /\ flow[call[p].flow] = "open"

IsReauth(f) == server[f] # f

\* Mutation: a sign-in leaves the grant counter alone.
NewGrantUncounted == [kid EXCEPT !.err = "none", !.rejected = FALSE, !.unfinished = FALSE]

\* Mutation: the transient error of the old grant stays.
NewGrantKeepingError ==
  [kid EXCEPT !.grant = @ + 1, !.err = IF @ = "rejected" THEN "none" ELSE @,
              !.rejected = FALSE, !.unfinished = FALSE]

\* A new grant retires the errors of the old one.
NewGrant ==
  [kid EXCEPT !.grant = @ + 1,
              !.err = IF @ \in {"transient", "rejected"} THEN "none" ELSE @,
              !.rejected = FALSE, !.unfinished = FALSE]

\* `_cancel_refresh_task`: the cancel arrives when the task next runs.
Retired ==
  IF table = None THEN task
  ELSE [task EXCEPT ![table] = [@ EXCEPT !.cancelled = TRUE]]

\* `_start_refresh_task`, after a retirement.
StartRefresh(tasks, c, g) ==
  \E t \in Task : /\ tasks[t] = NoTask
                  /\ task' = [tasks EXCEPT ![t] = [NoTask EXCEPT !.phase = "sync",
                                                     !.of = c, !.born = g]]
                  /\ table' = t

NoRefresh(tasks) == task' = tasks /\ table' = None

\* Mutation: the task captures the grant before the bump.
RefreshForOldGrant(refreshable) ==
  IF refreshable THEN StartRefresh(Retired, child, kid.grant) ELSE NoRefresh(Retired)

\* The part every sign-in shares: the flow is spent, the old grant retired.
RefreshFor(refreshable) ==
  IF refreshable THEN StartRefresh(Retired, child, NewGrant.grant) ELSE NoRefresh(Retired)

Stopped(k) == [k EXCEPT !.proc = "down", !.live = None]

\* A connect: write, then enable and start a child that is stopped.
FinishConnect(p) ==
  /\ CanFinish(p) /\ ~IsReauth(call[p].flow)
  /\ \E refreshable \in BOOLEAN :
       LET signed == SignInWrites(call[p].token, refreshable)[2]
       IN  /\ RefreshFor(refreshable)
           /\ disk' = IF kid.proc = "down" THEN EnableWrites(signed)[2] ELSE signed
  /\ kid' = IF kid.proc = "down" THEN [NewGrant EXCEPT !.proc = "starting"] ELSE NewGrant
  /\ flow' = Popped(call[p].flow)
  /\ CallbackReturns(p)
  /\ UNCHANGED <<up, mishaps, issued, server, posted, keyVars, lock>>

\* A re-authorization: write, then restart the child if it is enabled.
FinishReauth(p) ==
  /\ CanFinish(p) /\ IsReauth(call[p].flow)
  /\ \E refreshable \in BOOLEAN :
       /\ RefreshFor(refreshable)
       /\ disk' = SignInWrites(call[p].token, refreshable)[2]
  /\ kid' = Stopped(NewGrant)
  /\ flow' = Popped(call[p].flow)
  /\ IF disk.enabled
     THEN /\ call' = [call EXCEPT ![p] = [@ EXCEPT !.pc = "teardown"]]
          /\ lock' = [lock EXCEPT ![child] = p]
          /\ UNCHANGED exchanging
     ELSE CallbackReturns(p) /\ UNCHANGED lock
  /\ UNCHANGED <<up, mishaps, issued, server, posted, keyVars>>

\* Mutation: the old grant is retired after the writes, so not if one raises.
FinishFailsUnretired(p) ==
  /\ CanFinish(p)
  /\ Mishap
  /\ \E refreshable \in BOOLEAN : disk' \in CutShort(SignInWrites(call[p].token, refreshable))
  /\ kid' = [kid EXCEPT !.unfinished = TRUE]
  /\ flow' = Popped(call[p].flow)
  /\ CallbackReturns(p)
  /\ UNCHANGED <<up, issued, server, posted, keyVars, lock, table, task>>

\* A write of the sign-in raises: what was written stays, no task is started.
FinishFails(p) ==
  /\ CanFinish(p)
  /\ Mishap
  /\ \E refreshable \in BOOLEAN : disk' \in CutShort(SignInWrites(call[p].token, refreshable))
  /\ NoRefresh(Retired)
  /\ kid' = [NewGrant EXCEPT !.unfinished = TRUE]
  /\ flow' = Popped(call[p].flow)
  /\ CallbackReturns(p)
  /\ UNCHANGED <<up, issued, server, posted, keyVars, lock>>

\* The write that enables a connected child raises: its task runs already.
EnableFails(p) ==
  /\ CanFinish(p) /\ ~IsReauth(call[p].flow) /\ kid.proc = "down"
  /\ Mishap
  /\ \E refreshable \in BOOLEAN :
       /\ RefreshFor(refreshable)
       /\ disk' = SignInWrites(call[p].token, refreshable)[2]
  /\ kid' = NewGrant
  /\ flow' = Popped(call[p].flow)
  /\ CallbackReturns(p)
  /\ UNCHANGED <<up, issued, server, posted, keyVars, lock>>

-----------------------------------------------------------------------------
(* The operations of an admin, as far as they touch the grant or the       *)
(* header.  A restart or an update stops and starts the child under one    *)
(* hold of the lock; to the header that is a disable and an enable.        *)

\* A free lock is taken without suspending; a request waits only for a held one.
Queue(p, j) ==
  /\ call[p] = NoCall /\ child # None /\ lock[child] # None
  /\ call' = [call EXCEPT ![p] = [NoCall EXCEPT !.job = j, !.pc = "waiting",
                                                !.target = child]]
  /\ UNCHANGED <<up, disk, mishaps, issued, flowVars, keyVars, lock, kid, table, task>>

\* The child changed while the operation waited, or the operation is refused.
Refuse(p) ==
  /\ \E j \in {"remove", "disable"} : AtLock(p, j)
  /\ Returns(p)
  /\ UNCHANGED <<up, disk, mishaps, issued, flowVars, keyVars, lock, kid, table, task>>

\* The request has the lock of the current child.
Takes(p, j) ==
  \/ AtLock(p, j) /\ StillCurrent(p)
  \/ call[p] = NoCall /\ child # None /\ lock[child] = None

TearsDown(p, j) ==
  /\ call' = [call EXCEPT ![p] = [NoCall EXCEPT !.job = j, !.pc = "teardown",
                                                !.target = child]]
  /\ lock' = [lock EXCEPT ![child] = p]

\* Mutation: a removal leaves the open flows of its reference.
FlowsLeft == flow

\* `flows.discard`: the flows of the reference, with their exchange marks.
FlowsDiscarded == [f \in Flow |-> IF flow[f] = "open" THEN "gone" ELSE flow[f]]

Remove(p) ==
  /\ Takes(p, "remove")
  /\ disk' = RemoveWrites[2]
  /\ removing' = TRUE
  /\ flow' = FlowsDiscarded
  /\ exchanging' = exchanging \ {f \in Flow : flow[f] = "open"}
  /\ NoRefresh(Retired)
  /\ child' = None
  /\ kid' = NewKid
  /\ TearsDown(p, "remove")
  /\ UNCHANGED <<up, mishaps, issued, server, posted, used>>

Disable(p) ==
  /\ Takes(p, "disable")
  /\ disk' = [disk EXCEPT !.enabled = FALSE]
  /\ kid' = Stopped(kid)
  /\ TearsDown(p, "disable")
  /\ UNCHANGED <<up, mishaps, issued, flowVars, keyVars, table, task>>

\* Back from the teardown, still under the lock.
FinishTeardown(p) ==
  /\ call[p].pc = "teardown"
  /\ lock' = [lock EXCEPT ![call[p].target] = None]
  /\ IF call[p].job = "remove"
     THEN /\ disk' = [disk EXCEPT !.file = None]
          /\ removing' = FALSE
          /\ UNCHANGED kid
     ELSE /\ kid' = IF call[p].job = "disable" THEN kid
                    ELSE [kid EXCEPT !.proc = "starting"]
          /\ UNCHANGED <<disk, removing>>
  /\ IF call[p].job = "callback" THEN CallbackReturns(p)
     ELSE Returns(p) /\ UNCHANGED exchanging
  /\ UNCHANGED <<up, mishaps, issued, flow, server, posted, child, used, table, task>>

\* `enable` never suspends: it needs a stopped child that does not await its token.
Enable ==
  /\ up /\ child # None /\ lock[child] = None
  /\ kid.proc = "down" /\ disk.header # None
  /\ disk' = [disk EXCEPT !.enabled = TRUE]
  /\ kid' = [kid EXCEPT !.proc = "starting"]
  /\ UNCHANGED <<up, mishaps, issued, flowVars, keyVars, lock, table, task, call>>

\* `_run_start` takes the header of `child.spec` when it builds the transport, ...
BuildTransport ==
  /\ up /\ kid.proc = "starting" /\ kid.live = None
  /\ kid' = [kid EXCEPT !.live = disk.header]
  /\ UNCHANGED <<up, disk, mishaps, issued, flowVars, keyVars, lock, table, task, call>>

\* Mutation: a start that succeeds clears every error.
StartClears ==
  /\ up /\ kid.proc = "starting" /\ kid.live # None /\ lock[child] = None
  /\ \/ kid' = [kid EXCEPT !.proc = "up", !.err = "none"]
     \/ kid' = [kid EXCEPT !.proc = "failed", !.err = "child"]
  /\ UNCHANGED <<up, disk, mishaps, issued, flowVars, keyVars, lock, table, task, call>>

\* ... and shows `refresh_rejected` again when the child runs, or the start error.
StartEnds ==
  /\ up /\ kid.proc = "starting" /\ kid.live # None /\ lock[child] = None
  /\ \/ kid' = [kid EXCEPT !.proc = "up",
                           !.err = IF kid.rejected THEN "rejected" ELSE "none"]
     \/ kid' = [kid EXCEPT !.proc = "failed", !.err = "child"]
  /\ UNCHANGED <<up, disk, mishaps, issued, flowVars, keyVars, lock, table, task, call>>

\* Mutation: the error of a probe leaves the status alone.
ProbeFailsRunning ==
  /\ up /\ kid.proc = "up" /\ lock[child] = None
  /\ kid' = [kid EXCEPT !.err = "child"]
  /\ UNCHANGED <<up, disk, mishaps, issued, flowVars, keyVars, lock, table, task, call>>

\* A probe of the running child fails, as it does once the provider refuses the token:
\* the child is failed and its error replaces what `last_error` said.  The transport
\* stays until the next teardown.
ProbeFails ==
  /\ up /\ kid.proc = "up" /\ lock[child] = None
  /\ kid' = [kid EXCEPT !.proc = "failed", !.err = "child"]
  /\ UNCHANGED <<up, disk, mishaps, issued, flowVars, keyVars, lock, table, task, call>>

-----------------------------------------------------------------------------
(* The refresh task: `_refresh_loop`, `_refresh_sync`, `_refresh_once`.    *)

Runs(t, ph) == task[t].phase = ph /\ ~task[t].cancelled

LockFree(t) == lock[task[t].of] = None

\* Mutation: the captured grant alone decides.
TaskCurrentByGrant(t) == child # None /\ task[t].born = kid.grant

\* `_refresh_current`
TaskCurrent(t) == child # None /\ task[t].of = child /\ task[t].born = kid.grant

MovesTo(t, ph) == task' = [task EXCEPT ![t] = [@ EXCEPT !.phase = ph]]

\* The request of the round is over.
RoundOver(t, ph) ==
  task' = [task EXCEPT ![t] = [@ EXCEPT !.phase = ph, !.held = None, !.reply = None]]

TaskEnds(t) ==
  /\ task' = [task EXCEPT ![t] = NoTask]
  /\ table' = IF table = t THEN None ELSE table

taskOnly == <<up, disk, mishaps, issued, flowVars, keyVars, lock, kid, call>>

\* Mutation: only the registry learns the new header.
AppliedToRegistry(n) == [kid EXCEPT !.err = IF @ = "transient" THEN "none" ELSE @]

\* The header follows the file; a live transport takes it at once; the transient
\* error of an earlier header write is healed.
Applied(n) ==
  [kid EXCEPT !.live = IF @ = None THEN None ELSE n,
              !.err = IF @ = "transient" THEN "none" ELSE @]

\* Mutation: nothing is repaired.
UnrepairedHeader == disk.header

\* `_repair_refresh_header`: the header follows refresh.json.
RepairedHeader == disk.file

\* Mutation: a round starts from the token the registry holds.
RegistryState == disk.header

\* Each round starts from refresh.json.
RoundState == disk.file

Sync(t) ==
  /\ Runs(t, "sync") /\ LockFree(t)
  /\ TaskCurrent(t) /\ disk.file # None
  /\ disk' = [disk EXCEPT !.header = RepairedHeader]
  /\ kid' = IF disk.header = disk.file THEN kid ELSE Applied(disk.file)
  /\ IF disk.file \in Lasting
     THEN TaskEnds(t)
     ELSE /\ task' = [task EXCEPT ![t] = [@ EXCEPT !.phase = "send",
                                                   !.held = RoundState]]
          /\ UNCHANGED table
  /\ UNCHANGED <<up, mishaps, issued, flowVars, keyVars, lock, call>>

\* The grant moved on, or the file is gone.
SyncStops(t) ==
  /\ Runs(t, "sync") /\ LockFree(t)
  /\ ~TaskCurrent(t) \/ disk.file = None
  /\ TaskEnds(t)
  /\ UNCHANGED taskOnly

Rejects(t) ==
  /\ kid' = IF TaskCurrent(t) THEN [kid EXCEPT !.err = "rejected", !.rejected = TRUE]
            ELSE kid
  /\ TaskEnds(t)

\* An unreadable file is a rejection.
SyncUnreadable(t) ==
  /\ Runs(t, "sync") /\ LockFree(t)
  /\ TaskCurrent(t) /\ disk.file # None
  /\ Mishap
  /\ Rejects(t)
  /\ UNCHANGED <<up, disk, issued, flowVars, keyVars, lock, call>>

\* A read or a header repair that raises is a fault of the round.
SyncFaults(t) ==
  /\ Runs(t, "sync") /\ LockFree(t)
  /\ TaskCurrent(t) /\ disk.file # None
  /\ Mishap
  /\ RoundOver(t, "fault")
  /\ UNCHANGED <<up, disk, issued, flowVars, keyVars, lock, kid, call, table>>

RecordFault(t) ==
  /\ Runs(t, "fault") /\ LockFree(t)
  /\ kid' = IF TaskCurrent(t) THEN [kid EXCEPT !.err = "transient"] ELSE kid
  /\ RoundOver(t, "sync")
  /\ UNCHANGED <<up, disk, mishaps, issued, flowVars, keyVars, lock, call, table>>

\* The sleep is over: check once more, without the lock, and post.
Send(t) ==
  /\ Runs(t, "send") /\ TaskCurrent(t)
  /\ MovesTo(t, "posted")
  /\ UNCHANGED taskOnly /\ UNCHANGED table

SendStops(t) ==
  /\ Runs(t, "send") /\ ~TaskCurrent(t)
  /\ TaskEnds(t)
  /\ UNCHANGED taskOnly

\* A usable answer arrives: a new token, with or without a new refresh token.
Renewed(t) ==
  /\ task[t].phase = "posted"
  /\ \E n \in Token :
       /\ Fresh(n)
       /\ issued' = [issued EXCEPT ![n] = [line |-> issued[task[t].held].line,
                                           parent |-> task[t].held]]
       /\ task' = [task EXCEPT ![t] = [@ EXCEPT !.phase = "apply", !.reply = n]]
  /\ UNCHANGED <<up, disk, mishaps, flowVars, keyVars, lock, kid, table, call>>

\* The answer is lost (the provider may have honoured the request), an overload, a
\* refusal, an answer of no use, or an error of another kind.
NotRefreshed(t) ==
  /\ task[t].phase = "posted"
  /\ MovesTo(t, "retry") \/ RoundOver(t, "reject") \/ RoundOver(t, "fault")
  /\ UNCHANGED taskOnly /\ UNCHANGED table

\* Once the token has expired, the retry says so, under the lock.
Retry(t) ==
  /\ Runs(t, "retry")
  /\ \/ UNCHANGED kid
     \/ /\ LockFree(t) /\ TaskCurrent(t)
        /\ kid' = [kid EXCEPT !.err = "transient"]
  /\ MovesTo(t, "send")
  /\ UNCHANGED <<up, disk, mishaps, issued, flowVars, keyVars, lock, call, table>>

CanApply(t) == Runs(t, "apply") /\ LockFree(t) /\ TaskCurrent(t)

Apply(t) ==
  /\ CanApply(t)
  /\ disk' = RefreshWrites(task[t].reply)[2]
  /\ kid' = Applied(task[t].reply)
  /\ RoundOver(t, "sync")
  /\ UNCHANGED <<up, mishaps, issued, flowVars, keyVars, lock, call, table>>

\* One of the two writes raises.
ApplyFails(t) ==
  /\ CanApply(t)
  /\ Mishap
  /\ disk' \in CutShort(RefreshWrites(task[t].reply))
  /\ RoundOver(t, "fault")
  /\ UNCHANGED <<up, issued, flowVars, keyVars, lock, kid, call, table>>

\* An answer to a grant that is no longer current is dropped.
ApplyStops(t) ==
  /\ Runs(t, "apply") /\ LockFree(t) /\ ~TaskCurrent(t)
  /\ TaskEnds(t)
  /\ UNCHANGED taskOnly

RecordRejection(t) ==
  /\ Runs(t, "reject") /\ LockFree(t)
  /\ Rejects(t)
  /\ UNCHANGED <<up, disk, mishaps, issued, flowVars, keyVars, lock, call>>

CancelledEnds(t) ==
  /\ task[t].cancelled
  /\ TaskEnds(t)
  /\ UNCHANGED taskOnly

\* The HTTP client loses the cancel; the answer or an error follows.
CancelSwallowed(t) ==
  /\ CancelMaySwallow
  /\ task[t].cancelled /\ task[t].phase = "posted"
  /\ task' = [task EXCEPT ![t] = [@ EXCEPT !.cancelled = FALSE]]
  /\ UNCHANGED taskOnly /\ UNCHANGED table

-----------------------------------------------------------------------------
(* Crash, and the restart that puts the files in order.                    *)

\* What the disk may hold when the process dies now: the present state, or that
\* between two writes of an operation that could run now.
Torn ==
  {disk}
  \cup (UNION {CutShort(AddWrites(f)) : f \in {g \in Flow : CanConnect(g)}})
  \cup (UNION {CutShort(RemoveWrites) : p \in {q \in Caller : Takes(q, "remove")}})
  \cup (UNION {CutShort(RefreshWrites(task[t].reply)) : t \in {s \in Task : CanApply(s)}})
  \cup (UNION {CutShort(SignInWrites(call[p].token, r))
                   \cup {SignInWrites(call[p].token, r)[2]} :
                 p \in {q \in Caller : CanFinish(q)}, r \in BOOLEAN})

\* A crash or a shutdown.  The flows are memory.
Crash ==
  /\ up /\ Mishap
  /\ up' = FALSE
  /\ disk' \in Torn
  /\ flow' = FlowsDiscarded
  /\ exchanging' = {}
  /\ child' = None /\ used' = {} /\ removing' = FALSE
  /\ lock' = [c \in Child |-> None]
  /\ kid' = NewKid
  /\ table' = None
  /\ task' = [t \in Task |-> NoTask]
  /\ call' = [p \in Caller |-> NoCall]
  /\ UNCHANGED <<issued, server, posted>>

BootedKid == [NewKid EXCEPT !.proc = IF disk.enabled THEN "starting" ELSE "down"]

Boots ==
  /\ ~up /\ up' = TRUE
  /\ UNCHANGED <<issued, flowVars, removing, lock, call>>

BootsChild == \E c \in Child : child' = c /\ used' = {c}

\* Mutation: the credentials of an unlisted reference survive the boot.
OrphanKept == disk

\* The credentials of a reference that is not listed go first.
OrphanDropped == [disk EXCEPT !.file = None]

BootEmpty ==
  /\ Boots /\ disk.id = None
  /\ disk' = OrphanDropped
  /\ UNCHANGED <<mishaps, child, used, kid, table, task>>

BootNoFile ==
  /\ Boots /\ disk.id # None /\ disk.file = None
  /\ BootsChild
  /\ kid' = BootedKid
  /\ UNCHANGED <<disk, mishaps, table, task>>

\* The header follows its file before any child starts.
BootRepair ==
  /\ Boots /\ disk.id # None /\ disk.file # None
  /\ BootsChild
  /\ disk' = [disk EXCEPT !.header = RepairedHeader]
  /\ kid' = BootedKid
  /\ StartRefresh(task, child', 0)
  /\ UNCHANGED mishaps

\* The read or the repair raises: the task will do it again.
BootFaults ==
  /\ Boots /\ disk.id # None /\ disk.file # None
  /\ BootsChild
  /\ kid' = BootedKid
  /\ StartRefresh(task, child', 0)
  /\ UNCHANGED <<disk, mishaps>>

\* An unreadable file is a recorded rejection with no task.
BootUnreadable ==
  /\ Boots /\ disk.id # None /\ disk.file # None
  /\ BootsChild
  /\ kid' = [BootedKid EXCEPT !.err = "rejected", !.rejected = TRUE]
  /\ UNCHANGED <<disk, mishaps, table, task>>

Boot == BootEmpty \/ BootNoFile \/ BootRepair \/ BootFaults \/ BootUnreadable

-----------------------------------------------------------------------------

FlowStep(f) == Connect(f) \/ Reauthorize(f) \/ Expire(f)

Exchange(p) == ExchangeAnswered(p) \/ ExchangeFails(p) \/ ExchangeGarbled(p)

Finish(p) ==
  \/ FinishNothing(p) \/ FinishConnect(p) \/ FinishReauth(p) \/ FinishFails(p)
  \/ EnableFails(p)

Operate(p) == Refuse(p) \/ Remove(p) \/ Disable(p)

\* A request that waits for the lock and now has it.
Granted(p) == call[p].pc = "waiting" /\ (Finish(p) \/ Operate(p))

Arrive(p) ==
  \/ \E f \in Flow : BeginCallback(p, f)
  \/ \E j \in {"remove", "disable"} : Queue(p, j)

CallStep(p) ==
  Arrive(p) \/ Exchange(p) \/ Finish(p) \/ Operate(p) \/ FinishTeardown(p)

\* The steps of a task that need the lock of the child.
TaskLocked(t) ==
  \/ Sync(t) \/ SyncStops(t) \/ SyncUnreadable(t) \/ SyncFaults(t) \/ RecordFault(t)
  \/ Apply(t) \/ ApplyFails(t) \/ ApplyStops(t) \/ RecordRejection(t)

TaskFree(t) == Send(t) \/ SendStops(t) \/ Retry(t) \/ CancelledEnds(t)

TaskEnv(t) == Renewed(t) \/ NotRefreshed(t) \/ CancelSwallowed(t)

Next ==
  \/ \E f \in Flow : FlowStep(f)
  \/ \E p \in Caller : CallStep(p)
  \/ \E t \in Task : TaskLocked(t) \/ TaskFree(t) \/ TaskEnv(t)
  \/ Enable \/ BuildTransport \/ StartEnds \/ ProbeFails
  \/ Crash \/ Boot

Spec == Init /\ [][Next]_vars

\* The loop runs what is ready; asyncio grants a lock in the order of waiting, so a
\* waiter is not overtaken for ever; requests to the provider time out; a boot
\* happens.  Nothing is assumed of flows, callers, starts, probes or mishaps.
Fairness ==
  /\ WF_vars(Boot)
  /\ \A p \in Caller :
       WF_vars(Exchange(p)) /\ SF_vars(Granted(p)) /\ WF_vars(FinishTeardown(p))
  /\ \A t \in Task :
       /\ SF_vars(TaskLocked(t))
       /\ WF_vars(TaskFree(t))
       /\ WF_vars(Renewed(t) \/ NotRefreshed(t))

FairSpec == Spec /\ Fairness

-----------------------------------------------------------------------------
(* Safety.                                                                 *)

\* A task whose answer would be applied.
Renews(t) == task[t].phase # "none" /\ ~task[t].cancelled /\ TaskCurrent(t)

\* While the gateway runs, the credentials on disk belong to the server that is
\* listed: to a flow that was opened for this very server, not for one that had the
\* same reference before (`remove`, `add` and `startup` purge; `finish_oauth` and the
\* refresh check the child again under the lock).
CredentialsBelongToServer ==
  up => \A n \in {disk.file, disk.header} \ {None} :
          disk.id # None /\ server[issued[n].line] = disk.id

\* A header that does not follow refresh.json has a task that is about to repair it,
\* or the server shows that it must be authorized again, or the sign-in itself
\* reported the failed write.
HeaderFollowsFile ==
  up /\ disk.file \notin {None, disk.header} =>
    \/ kid.rejected \/ kid.unfinished
    \/ \E t \in Task : Renews(t) /\ task[t].phase \in {"sync", "fault"}

\* At most one task may apply an answer, and it is the one in the table, so a remove
\* or a new sign-in retires all there is.
OneRenewer == \A t \in Task : Renews(t) => table = t

\* A grant that can be renewed is being renewed, or the server was shown to need a new
\* sign-in.  The exception is a sign-in whose write raised: from the error its callback
\* answered with to the next sign-in or boot no task renews what is on disk, the task of
\* the old grant least of all, and the server does not show it.
NoGrantAbandoned ==
  /\ up /\ disk.file \notin Lasting \cup {None} =>
       \/ kid.rejected \/ kid.unfinished
       \/ table # None /\ Renews(table)
  /\ kid.unfinished => \A t \in Task : ~Renews(t)

\* No child starts before its token exists or after it was disabled, and a running
\* child sends the header the registry holds, whatever changed it.
LiveHeaderCurrent ==
  up /\ child # None /\ lock[child] = None =>
    /\ kid.proc \in {"starting", "up"} => disk.enabled /\ disk.header # None
    /\ kid.live \in {None, disk.header}

\* A running child whose grant was rejected says so, whatever started it and whatever a
\* refresh of the old grant did meanwhile: only an error that made the child fail may
\* cover a rejection, and only until the child runs again.  And none is shown that a
\* sign-in has settled.
RejectionVisible ==
  /\ kid.rejected => kid.err = "rejected" \/ (kid.err = "child" /\ kid.proc # "up")
  /\ kid.err = "rejected" => kid.rejected

\* The comment of `_run_start`, supervisor.py 1424: a rejected refresh stays visible until
\* a re-authorization clears it.  Here for a child that runs: no step but a new sign-in,
\* a removal or the end of the process takes the rejection off it.
RejectionStays ==
  [][kid.proc = "up" /\ kid.err = "rejected" =>
       kid'.err = "rejected" \/ ~kid'.rejected]_vars

\* A server that says "retrying" has a task that retries.
RetryingIsTrue ==
  kid.err = "transient" => table # None /\ Renews(table)

\* A credential is written only by the flow that is spent on it, or by a refresh of
\* the very token it replaces: a late answer never overwrites a newer grant, and a
\* replayed callback writes nothing.
WrittenOnce ==
  [][disk'.file \notin {None, disk.file} =>
       LET o == issued[disk'.file]
       IN  IF o.parent = None
           THEN flow[o.line] = "open" /\ flow'[o.line] = "gone"
           ELSE o.parent = disk.file]_vars

\* refresh.json is written first: a header never holds a token that a crash or a failed
\* write could leave without its file, while an older file waits to overwrite it.
FileFirst ==
  [][disk'.header \notin {None, disk.header} => disk'.file \in {None, disk'.header}]_vars

\* A request carries the refresh token that is stored: a failed header write never
\* makes a task send one that the provider replaced by the stored one.
SendsWhatIsStored ==
  [][\A t \in Task : task[t].phase = "send" /\ task'[t].phase = "posted" =>
       task[t].held = disk.file]_vars

\* One state drives at most one token exchange (`_exchanging`).
OneExchangePerState ==
  [][\A p \in Caller : call[p].pc = "idle" /\ call'[p].pc = "exchange" =>
       call'[p].flow \notin posted]_vars

-----------------------------------------------------------------------------
(* Liveness.                                                               *)

\* Every callback is answered, whatever holds the lock or removes the server.
CallbackAnswered ==
  \A p \in Caller : call[p].job = "callback" ~> call[p].job # "callback"

\* A crash or a failed write between the two files heals: the header catches up with
\* refresh.json, unless the grant is given up or the sign-in reported the failure.
HeaderCatchesUp ==
  disk.file \notin {None, disk.header} ~>
    \/ disk.file \in {None, disk.header}
    \/ kid.rejected \/ kid.unfinished
-----------------------------------------------------------------------------
(* Refinement.                                                             *)

\* The refresh token of the listed server.  A file that a removal left is nobody's.
LiveGrant == IF disk.id = None THEN None ELSE disk.file

Ledger == INSTANCE GrantLedger WITH origin <- issued, listed <- disk.id, grant <- LiveGrant

\* The two files, the late answers, the crashes and the failed writes implement one
\* cell: a step changes the token of a server only by the flow it spends, by the answer
\* given for that very token, or by listing or removing the server, whose flows end
\* with it.
ImplementsLedger == Ledger!LSpec
=============================================================================
