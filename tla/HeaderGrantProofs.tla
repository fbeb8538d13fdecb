-------------------------- MODULE HeaderGrantProofs --------------------------
(***************************************************************************)
(* Theorems about HeaderGrant, for any number of flows, tokens, children,  *)
(* tasks, requests and mishaps, and whatever the switches say.             *)
(*                                                                         *)
(* What makes the safety properties inductive: a task that is current is   *)
(* the one in the table, was never cancelled and holds what refresh.json   *)
(* holds; the holder of the lock keeps its child, stopped; an open flow    *)
(* belongs to the server that is listed, and that of a connect finds the   *)
(* server without a token.                                                 *)
(***************************************************************************)
EXTENDS HeaderGrant, TLAPS

-----------------------------------------------------------------------------
(* The inductive invariant.                                                *)

\* While the process is down, memory is as new.
DownInv ==
  ~up => /\ child = None /\ used = {} /\ ~removing /\ kid = NewKid /\ table = None
         /\ exchanging = {}
         /\ \A t \in Task : task[t] = NoTask
         /\ \A p \in Caller : call[p] = NoCall
         /\ \A c \in Child : lock[c] = None
         /\ \A f \in Flow : flow[f] # "open"

\* A child has a record; without a child there is neither record nor credential.
ChildInv ==
  /\ child # None => child \in used /\ disk.id # None
  /\ child = None => kid = NewKid
  /\ up /\ child = None => disk.id = None /\ disk.header = None /\ disk.file = None
  /\ kid.proc = "down" => kid.live = None

\* Credentials are issued ones, of the flows of the listed server.
DiskInv ==
  /\ disk.enabled => disk.header # None
  /\ disk.header # None => /\ disk.id # None /\ issued[disk.header] # None
                           /\ server[issued[disk.header].line] = disk.id
  /\ disk.file # None => /\ issued[disk.file] # None
                         /\ disk.id # None => server[issued[disk.file].line] = disk.id

\* A request that waits knows its child, a callback also its flow and its token.
CallOk(p) ==
  /\ call[p].pc = "exchange" => call[p].job = "callback"
  /\ call[p].pc \in {"waiting", "teardown"} =>
       call[p].target # None /\ call[p].job # "none"
  /\ call[p].pc # "idle" /\ call[p].job = "callback" =>
       call[p].flow # None /\ flow[call[p].flow] # "new"
  /\ call[p].pc = "waiting" /\ call[p].job = "callback" =>
       /\ call[p].token # None
       /\ issued[call[p].token] = [line |-> call[p].flow, parent |-> None]

CallInv == \A p \in Caller : CallOk(p)

\* A request that tears a removed child down.
Removes(p) == call[p].pc = "teardown" /\ call[p].job = "remove"

\* A lock is held exactly by the request that tears its child down; a removal reserves
\* the key, any other holder keeps the child and finds it stopped.
LockInv ==
  /\ \A c \in Child, p \in Caller :
       lock[c] = p <=> (call[p].pc = "teardown" /\ call[p].target = c)
  /\ \A p \in Caller : call[p].pc = "teardown" =>
       /\ call[p].job = "remove" => removing /\ child = None
       /\ call[p].job # "remove" => child = call[p].target /\ kid.proc = "down"
       /\ call[p].job = "callback" => disk.enabled /\ flow[call[p].flow] # "open"
  /\ \A p, q \in Caller :
       Removes(p) /\ Removes(q) => p = q

\* A task that is current.
Current(t) == task[t].phase # "none" /\ TaskCurrent(t)

\* At most one flow is open, for the listed server; that of a connect finds it bare.
FlowInv ==
  /\ \A f \in Flow : server[f] # None => flow[server[f]] # "new"
  /\ \A n \in Token : issued[n] # None => flow[issued[n].line] # "new"
  /\ \A f \in Flow : flow[f] = "open" =>
       /\ child # None /\ server[f] = disk.id
       /\ server[f] = f => /\ disk.header = None /\ disk.file = None
                           /\ kid.proc = "down" /\ \A t \in Task : ~Current(t)
  /\ \A f, g \in Flow : flow[f] = "open" /\ flow[g] = "open" => f = g

\* The current task is the one in the table; no cancel ever reached it, and its round is
\* about what refresh.json holds.
TaskOk(t) ==
  /\ task[t].phase # "none" => task[t].of \in used
  /\ task[t].phase # "none" /\ task[t].of = child => task[t].born <= kid.grant
  /\ task[t].phase \in {"send", "posted", "retry", "apply"} =>
       task[t].held # None /\ issued[task[t].held] # None
  /\ task[t].phase = "apply" =>
       /\ task[t].reply # None
       /\ issued[task[t].reply] = [line |-> issued[task[t].held].line,
                                   parent |-> task[t].held]
  /\ Current(t) =>
       /\ table = t /\ ~task[t].cancelled /\ ~kid.rejected /\ disk.file # None
       /\ task[t].phase \in {"send", "posted", "retry", "apply"} =>
            task[t].held = disk.file

TaskInv == \A t \in Task : TaskOk(t)

\* A server that says "retrying" has a task that retries, if no token lasts.
RetryInv ==
  Lasting = {} /\ kid.err = "transient" => table # None /\ Current(table)

\* A code that was posted is being exchanged or spent, if no answer is garbled.
PostedInv ==
  ~AnswerMayBeGarbled =>
    \A f \in posted : /\ flow[f] # "new"
                      /\ flow[f] = "open" => f \in exchanging

IInv ==
  /\ TypeOK
  /\ DownInv /\ ChildInv /\ DiskInv /\ CallInv /\ LockInv /\ FlowInv /\ TaskInv
  /\ RetryInv /\ PostedInv
  /\ HeaderFollowsFile /\ NoGrantAbandoned /\ LiveHeaderCurrent /\ RejectionVisible

-----------------------------------------------------------------------------
(* What the operators compute.                                             *)

LEMMA Empty ==
  /\ NewKid \in Kid /\ NoTask \in TaskRec /\ NoCall \in CallRec
  /\ NewKid.grant = 0 /\ NewKid.err = "none" /\ ~NewKid.rejected
  /\ NewKid.proc = "down" /\ NewKid.live = None /\ ~NewKid.unfinished
  /\ NoTask.phase = "none" /\ NoTask.of = None /\ NoTask.born = 0 /\ ~NoTask.cancelled
  /\ NoTask.held = None /\ NoTask.reply = None
  /\ NoCall.job = "none" /\ NoCall.pc = "idle" /\ NoCall.flow = None
  /\ NoCall.target = None /\ NoCall.token = None
BY DEF NewKid, NoTask, NoCall, Kid, TaskRec, TaskPhase, CallRec

\* The fields of the records have their types.
LEMMA DiskParts ==
  ASSUME NEW d \in Disk
  PROVE  /\ d.id \in Flow \cup {None} /\ d.enabled \in BOOLEAN
         /\ d.header \in Token \cup {None} /\ d.file \in Token \cup {None}
BY DEF Disk

LEMMA KidParts ==
  ASSUME NEW k \in Kid
  PROVE  /\ k.grant \in Nat /\ k.err \in {"none", "child", "transient", "rejected"}
         /\ k.rejected \in BOOLEAN /\ k.proc \in {"down", "starting", "up", "failed"}
         /\ k.live \in Token \cup {None} /\ k.unfinished \in BOOLEAN
BY DEF Kid

LEMMA TaskParts ==
  ASSUME NEW r \in TaskRec
  PROVE  /\ r.phase \in TaskPhase /\ r.of \in Child \cup {None} /\ r.born \in Nat
         /\ r.cancelled \in BOOLEAN /\ r.held \in Token \cup {None}
         /\ r.reply \in Token \cup {None}
BY DEF TaskRec

LEMMA CallParts ==
  ASSUME NEW r \in CallRec
  PROVE  /\ r.job \in {"none", "callback", "remove", "disable"}
         /\ r.pc \in {"idle", "exchange", "waiting", "teardown"}
         /\ r.flow \in Flow \cup {None} /\ r.target \in Child \cup {None}
         /\ r.token \in Token \cup {None}
BY DEF CallRec

\* A disk, field by field.
DiskIs(d, i, e, h, f) ==
  d \in Disk /\ d.id = i /\ d.enabled = e /\ d.header = h /\ d.file = f

LEMMA DiskEdits ==
  ASSUME NEW d \in Disk
  PROVE  /\ DiskIs(d, d.id, d.enabled, d.header, d.file)
         /\ \A i \in Flow \cup {None} :
              DiskIs([d EXCEPT !.id = i], i, d.enabled, d.header, d.file)
         /\ \A e \in BOOLEAN :
              DiskIs([d EXCEPT !.enabled = e], d.id, e, d.header, d.file)
         /\ \A h \in Token \cup {None} :
              DiskIs([d EXCEPT !.header = h], d.id, d.enabled, h, d.file)
         /\ \A f \in Token \cup {None} :
              DiskIs([d EXCEPT !.file = f], d.id, d.enabled, d.header, f)
BY DEF Disk, DiskIs

\* Two writes can be cut short after the first, or before it.
LEMMA CutsOfTwo == \A a, b : CutShort(<<a, b>>) = {disk, a} /\ <<a, b>>[2] = b
BY DEF CutShort

\* The states an operation passes through.
LEMMA Listed ==
  ASSUME disk \in Disk, NEW i \in Flow
  PROVE  /\ DiskIs(AddWrites(i)[2], i, FALSE, None, None)
         /\ \A d \in CutShort(AddWrites(i)) :
              d = disk \/ DiskIs(d, i, FALSE, None, disk.file)
<1> DEFINE listed == [disk EXCEPT !.id = i, !.enabled = FALSE, !.header = None]
           emptied == [listed EXCEPT !.file = None]
<1>1. DiskIs(listed, i, FALSE, None, disk.file)
  BY DEF Disk, DiskIs
<1> HIDE DEF listed
<1>2. DiskIs(emptied, i, FALSE, None, None)
  BY <1>1, DiskEdits DEF DiskIs
<1>3. AddWrites(i) = <<listed, emptied>>
  BY DEF AddWrites, listed
<1> HIDE DEF emptied
<1>4. AddWrites(i)[2] = emptied /\ CutShort(AddWrites(i)) = {disk, listed}
  BY <1>3, CutsOfTwo
<1> QED BY <1>1, <1>2, <1>4 DEF DiskIs

LEMMA Unlisted ==
  ASSUME disk \in Disk
  PROVE  /\ DiskIs(RemoveWrites[2], None, FALSE, None, None)
         /\ \A d \in CutShort(RemoveWrites) :
              d = disk \/ DiskIs(d, None, FALSE, None, disk.file)
<1> DEFINE dropped == [disk EXCEPT !.id = None, !.enabled = FALSE, !.header = None]
           emptied == [dropped EXCEPT !.file = None]
<1>1. DiskIs(dropped, None, FALSE, None, disk.file)
  BY DEF Disk, DiskIs
<1> HIDE DEF dropped
<1>2. DiskIs(emptied, None, FALSE, None, None)
  BY <1>1, DiskEdits DEF DiskIs
<1>3. RemoveWrites = <<dropped, emptied>>
  BY DEF RemoveWrites, dropped
<1> HIDE DEF emptied
<1>4. RemoveWrites[2] = emptied /\ CutShort(RemoveWrites) = {disk, dropped}
  BY <1>3, CutsOfTwo
<1> QED BY <1>1, <1>2, <1>4 DEF DiskIs

LEMMA Refreshed ==
  ASSUME disk \in Disk, NEW n \in Token
  PROVE  /\ DiskIs(RefreshWrites(n)[2], disk.id, disk.enabled, n, n)
         /\ \A d \in CutShort(RefreshWrites(n)) :
              d = disk \/ DiskIs(d, disk.id, disk.enabled, disk.header, n)
<1> DEFINE filed == [disk EXCEPT !.file = n]
           headed == [filed EXCEPT !.header = n]
<1>1. DiskIs(filed, disk.id, disk.enabled, disk.header, n)
  BY DiskEdits
<1>2. RefreshWrites(n) = <<filed, headed>>
  BY DEF RefreshWrites
<1> HIDE DEF filed
<1>3. DiskIs(headed, disk.id, disk.enabled, n, n)
  BY <1>1, DiskEdits DEF DiskIs
<1> HIDE DEF headed
<1> QED BY <1>1, <1>2, <1>3, CutsOfTwo

\* A sign-in, and what enables the child after it.
LEMMA SignedIn ==
  ASSUME disk \in Disk, NEW n \in Token, NEW r \in BOOLEAN,
         NEW file, file = IF r THEN n ELSE None
  PROVE  /\ DiskIs(SignInWrites(n, r)[2], disk.id, disk.enabled, n, file)
         /\ DiskIs(EnableWrites(SignInWrites(n, r)[2])[2], disk.id, TRUE, n, file)
         /\ \A d \in CutShort(SignInWrites(n, r)) :
              d = disk \/ DiskIs(d, disk.id, disk.enabled, disk.header, file)
<1> DEFINE filed == [disk EXCEPT !.file = file]
           headed == [filed EXCEPT !.header = n]
           enabled == [headed EXCEPT !.enabled = TRUE]
<1>1. DiskIs(filed, disk.id, disk.enabled, disk.header, file)
  BY DiskEdits
<1>2. SignInWrites(n, r) = <<filed, headed>>
  BY DEF SignInWrites
<1> HIDE DEF filed
<1>3. DiskIs(headed, disk.id, disk.enabled, n, file)
  BY <1>1, DiskEdits DEF DiskIs
<1> HIDE DEF headed
<1>4. DiskIs(enabled, disk.id, TRUE, n, file)
  BY <1>3, DiskEdits DEF DiskIs
<1>5. EnableWrites(SignInWrites(n, r)[2])[2] = enabled
  BY <1>2 DEF EnableWrites
<1> HIDE DEF enabled
<1>6. SignInWrites(n, r)[2] = headed /\ CutShort(SignInWrites(n, r)) = {disk, filed}
  BY <1>2, CutsOfTwo
<1> QED BY <1>1, <1>3, <1>4, <1>5, <1>6 DEF DiskIs

LEMMA NewGrantIs ==
  ASSUME kid \in Kid
  PROVE  /\ NewGrant \in Kid /\ NewGrant.grant = kid.grant + 1
         /\ NewGrant.err \in {"none", "child"} /\ ~NewGrant.rejected
         /\ ~NewGrant.unfinished /\ NewGrant.proc = kid.proc /\ NewGrant.live = kid.live
<1> DEFINE e == IF kid.err \in {"transient", "rejected"} THEN "none" ELSE kid.err
           k == [kid EXCEPT !.grant = kid.grant + 1, !.err = e, !.rejected = FALSE,
                            !.unfinished = FALSE]
<1>1. NewGrant = k
  BY DEF NewGrant
<1>2. e \in {"none", "child"} /\ kid.grant + 1 \in Nat
  BY KidParts
<1> HIDE DEF e
<1>3. /\ k \in Kid /\ k.grant = kid.grant + 1 /\ k.err = e /\ ~k.rejected
      /\ ~k.unfinished /\ k.proc = kid.proc /\ k.live = kid.live
  BY <1>2 DEF Kid
<1> QED BY <1>1, <1>2, <1>3

LEMMA StoppedIs ==
  ASSUME NEW k \in Kid
  PROVE  /\ Stopped(k) \in Kid /\ Stopped(k).proc = "down" /\ Stopped(k).live = None
         /\ Stopped(k).grant = k.grant /\ Stopped(k).err = k.err
         /\ Stopped(k).rejected = k.rejected /\ Stopped(k).unfinished = k.unfinished
BY DEF Stopped, Kid

LEMMA AppliedIs ==
  ASSUME kid \in Kid, NEW n \in Token
  PROVE  /\ Applied(n) \in Kid
         /\ Applied(n).live = IF kid.live = None THEN None ELSE n
         /\ Applied(n).err = IF kid.err = "transient" THEN "none" ELSE kid.err
         /\ Applied(n).grant = kid.grant /\ Applied(n).rejected = kid.rejected
         /\ Applied(n).unfinished = kid.unfinished /\ Applied(n).proc = kid.proc
BY DEF Applied, Kid

LEMMA BootedKidIs ==
  /\ BootedKid \in Kid /\ BootedKid.grant = 0 /\ BootedKid.err = "none"
  /\ ~BootedKid.rejected /\ BootedKid.live = None /\ ~BootedKid.unfinished
  /\ BootedKid.proc = IF disk.enabled THEN "starting" ELSE "down"
BY DEF BootedKid, NewKid, Kid

\* One field of a child changes.
LEMMA KidErr ==
  ASSUME NEW k \in Kid, NEW e \in {"none", "child", "transient", "rejected"}
  PROVE  LET l == [k EXCEPT !.err = e]
         IN  /\ l \in Kid /\ l.err = e /\ l.grant = k.grant
             /\ l.rejected = k.rejected /\ l.proc = k.proc
             /\ l.live = k.live /\ l.unfinished = k.unfinished
BY DEF Kid

LEMMA KidProc ==
  ASSUME NEW k \in Kid, NEW q \in {"down", "starting", "up", "failed"}
  PROVE  LET l == [k EXCEPT !.proc = q]
         IN  /\ l \in Kid /\ l.proc = q /\ l.grant = k.grant
             /\ l.err = k.err /\ l.rejected = k.rejected
             /\ l.live = k.live /\ l.unfinished = k.unfinished
BY DEF Kid

LEMMA KidLive ==
  ASSUME NEW k \in Kid, NEW n \in Token \cup {None}
  PROVE  LET l == [k EXCEPT !.live = n]
         IN  /\ l \in Kid /\ l.live = n /\ l.grant = k.grant
             /\ l.err = k.err /\ l.rejected = k.rejected
             /\ l.proc = k.proc /\ l.unfinished = k.unfinished
BY DEF Kid

\* The other tasks are left alone.
OnlyTask(t) == \A u \in Task : u # t => task'[u] = task[u]

\* The task is the same attempt at the same grant.
SameTask(t) ==
  /\ task'[t].of = task[t].of /\ task'[t].born = task[t].born
  /\ task'[t].cancelled = task[t].cancelled

LEMMA MovesToIs ==
  ASSUME task \in [Task -> TaskRec], NEW t \in Task, NEW ph \in TaskPhase, MovesTo(t, ph)
  PROVE  /\ task' \in [Task -> TaskRec] /\ OnlyTask(t) /\ SameTask(t)
         /\ task'[t].phase = ph /\ task'[t].held = task[t].held
         /\ task'[t].reply = task[t].reply
BY DEF MovesTo, TaskRec, OnlyTask, SameTask

LEMMA RoundOverIs ==
  ASSUME task \in [Task -> TaskRec], NEW t \in Task, NEW ph \in TaskPhase, RoundOver(t, ph)
  PROVE  /\ task' \in [Task -> TaskRec] /\ OnlyTask(t) /\ SameTask(t)
         /\ task'[t].phase = ph /\ task'[t].held = None /\ task'[t].reply = None
BY DEF RoundOver, TaskRec, OnlyTask, SameTask

LEMMA TaskEndsIs ==
  ASSUME task \in [Task -> TaskRec], table \in Task \cup {None}, NEW t \in Task, TaskEnds(t)
  PROVE  /\ task' \in [Task -> TaskRec] /\ OnlyTask(t) /\ task'[t] = NoTask
         /\ table' = IF table = t THEN None ELSE table
         /\ table' \in Task \cup {None}
BY Empty DEF TaskEnds, OnlyTask

\* A retirement cancels the task in the table and changes nothing else of any task.
LEMMA RetiredIs ==
  ASSUME task \in [Task -> TaskRec], table \in Task \cup {None}
  PROVE  /\ Retired \in [Task -> TaskRec]
         /\ \A u \in Task :
              /\ Retired[u].phase = task[u].phase /\ Retired[u].of = task[u].of
              /\ Retired[u].born = task[u].born /\ Retired[u].held = task[u].held
              /\ Retired[u].reply = task[u].reply
BY DEF Retired, TaskRec

\* A start takes a free slot for the child and the grant it is given.
Started(tasks, t, c, g) ==
  /\ t \in Task /\ tasks[t] = NoTask /\ table' = t
  /\ task' \in [Task -> TaskRec]
  /\ \A u \in Task : u # t => task'[u] = tasks[u]
  /\ task'[t].phase = "sync" /\ task'[t].of = c /\ task'[t].born = g
  /\ ~task'[t].cancelled /\ task'[t].held = None /\ task'[t].reply = None

LEMMA StartRefreshIs ==
  ASSUME NEW tasks \in [Task -> TaskRec], NEW c \in Child, NEW g \in Nat,
         StartRefresh(tasks, c, g)
  PROVE  \E t : Started(tasks, t, c, g)
<1>1. PICK t \in Task :
        /\ tasks[t] = NoTask
        /\ task' = [tasks EXCEPT ![t] = [NoTask EXCEPT !.phase = "sync",
                                           !.of = c, !.born = g]]
        /\ table' = t
  BY DEF StartRefresh
<1> DEFINE r == [NoTask EXCEPT !.phase = "sync", !.of = c, !.born = g]
<1>2. /\ r \in TaskRec /\ r.phase = "sync" /\ r.of = c /\ r.born = g /\ ~r.cancelled
      /\ r.held = None /\ r.reply = None
  BY DEF NoTask, TaskRec, TaskPhase
<1> HIDE DEF r
<1>3. task' = [tasks EXCEPT ![t] = r]
  BY <1>1 DEF r
<1>4. Started(tasks, t, c, g)
  BY <1>1, <1>2, <1>3 DEF Started
<1> QED BY <1>4

\* The other requests are left alone.
OnlyCall(p) == \A q \in Caller : q # p => call'[q] = call[q]

LEMMA ReturnsIs ==
  ASSUME call \in [Caller -> CallRec], NEW p \in Caller, Returns(p)
  PROVE  call' \in [Caller -> CallRec] /\ OnlyCall(p) /\ call'[p] = NoCall
BY Empty DEF Returns, OnlyCall

LEMMA TearsDownIs ==
  ASSUME call \in [Caller -> CallRec], lock \in [Child -> Caller \cup {None}],
         child \in Child, NEW p \in Caller,
         NEW j \in {"remove", "disable"}, TearsDown(p, j)
  PROVE  /\ call' \in [Caller -> CallRec] /\ OnlyCall(p)
         /\ call'[p].job = j /\ call'[p].pc = "teardown" /\ call'[p].target = child
         /\ lock' \in [Child -> Caller \cup {None}] /\ lock'[child] = p
         /\ \A c \in Child : c # child => lock'[c] = lock[c]
<1> DEFINE r == [NoCall EXCEPT !.job = j, !.pc = "teardown", !.target = child]
<1>1. r \in CallRec /\ r.job = j /\ r.pc = "teardown" /\ r.target = child
  BY DEF NoCall, CallRec
<1> HIDE DEF r
<1>2. call' = [call EXCEPT ![p] = r]
  BY DEF TearsDown, r
<1>3. lock' = [lock EXCEPT ![child] = p]
  BY DEF TearsDown
<1> QED BY <1>1, <1>2, <1>3 DEF OnlyCall

-----------------------------------------------------------------------------
(* What the invariant says of a task that is current.                      *)

LEMMA CurrentStands ==
  ASSUME IInv, NEW t \in Task, Current(t)
  PROVE  /\ up /\ child # None /\ disk.id # None
         /\ disk.file \in Token /\ disk.file # None /\ issued[disk.file] # None
         /\ server[issued[disk.file].line] = disk.id
         /\ table = t /\ ~task[t].cancelled /\ ~kid.rejected
         /\ \A u \in Task : u # t => ~Current(u)
         /\ \A f \in Flow : flow[f] = "open" => server[f] = disk.id /\ server[f] # f
<1>1. child # None
  BY DEF Current, TaskCurrent
<1>2. up /\ disk.id # None
  BY <1>1 DEF IInv, DownInv, ChildInv
<1>3. disk.file # None /\ table = t /\ ~task[t].cancelled /\ ~kid.rejected
  BY DEF IInv, TaskInv, TaskOk
<1>4. disk.file \in Token
  BY <1>3, DiskParts DEF IInv, TypeOK
<1>5. issued[disk.file] # None /\ server[issued[disk.file].line] = disk.id
  BY <1>2, <1>3 DEF IInv, DiskInv
<1>6. \A u \in Task : u # t => ~Current(u)
  BY <1>3 DEF IInv, TaskInv, TaskOk
<1>7. \A f \in Flow : flow[f] = "open" => server[f] = disk.id /\ server[f] # f
  BY DEF IInv, FlowInv
<1> QED BY <1>1, <1>2, <1>3, <1>4, <1>5, <1>6, <1>7

\* The answer a current task holds continues the grant on disk.
LEMMA AnswerFits ==
  ASSUME IInv, NEW t \in Task, CanApply(t)
  PROVE  /\ Current(t) /\ lock[child] = None /\ task[t].phase = "apply"
         /\ task[t].held = disk.file
         /\ task[t].reply \in Token /\ task[t].reply # None
         /\ issued[task[t].reply] # None
         /\ issued[task[t].reply].parent = disk.file
         /\ server[issued[task[t].reply].line] = disk.id
<1>1. Current(t) /\ lock[child] = None /\ task[t].phase = "apply"
  BY DEF CanApply, Runs, LockFree, TaskCurrent, Current
<1>2. TaskOk(t) /\ task[t] \in TaskRec /\ issued \in [Token -> Origin \cup {None}]
  BY DEF IInv, TaskInv, TypeOK
<1>3. /\ issued[task[t].reply] = [line |-> issued[disk.file].line, parent |-> disk.file]
      /\ task[t].held = disk.file /\ task[t].reply # None
  BY <1>1, <1>2 DEF TaskOk
<1>4. issued[disk.file] \in Origin /\ disk.file \in Token
  BY <1>1, <1>2, CurrentStands
<1>5. /\ issued[task[t].reply] \in Origin
      /\ issued[task[t].reply].line = issued[disk.file].line
      /\ issued[task[t].reply].parent = disk.file
  BY <1>3, <1>4 DEF Origin
<1>6. task[t].reply \in Token
  BY <1>2, <1>3, TaskParts
<1> QED BY <1>1, <1>3, <1>5, <1>6, CurrentStands, OriginAssumption

\* After a sign-in whose write raised nothing renews, and a step in which no task becomes
\* current leaves it so.
LEMMA StaysQuiet ==
  ASSUME IInv, kid'.unfinished => kid.unfinished,
         \A u \in Task : Renews(u)' => Current(u)
  PROVE  kid'.unfinished => \A u \in Task : ~Renews(u)'
<1>1. \A u \in Task : Current(u) => Renews(u)
  BY DEF IInv, TaskInv, TaskOk, Current, Renews
<1> QED BY <1>1 DEF IInv, NoGrantAbandoned

-----------------------------------------------------------------------------
(* One lemma per action.                                                   *)

\* A task that is not current may end.
LEMMA QuietEndKeeps ==
  ASSUME IInv, NEW t \in Task, TaskEnds(t), UNCHANGED taskOnly,
         task[t].cancelled \/ ~Current(t) \/ disk.file = None
  PROVE  IInv'
<1>1. /\ disk \in Disk /\ kid \in Kid /\ task \in [Task -> TaskRec]
      /\ table \in Task \cup {None} /\ task[t] \in TaskRec
  BY DEF IInv, TypeOK
<1>2. /\ UNCHANGED <<up, disk, mishaps, issued, flow, server, exchanging, posted>>
      /\ UNCHANGED <<child, used, removing, lock, kid, call>>
  BY DEF taskOnly, flowVars, keyVars
<1>3. /\ task' \in [Task -> TaskRec] /\ OnlyTask(t) /\ task'[t] = NoTask
      /\ table' = (IF table = t THEN None ELSE table) /\ table' \in Task \cup {None}
  BY <1>1, TaskEndsIs
<1>4. ~Current(t) /\ NoTask.phase = "none" /\ None \notin Task
  BY Empty, ConstantsAssumption DEF IInv, TaskInv, TaskOk
<1>5. \A u \in Task : Current(u) => u # t /\ table = u /\ task'[u] = task[u] /\ table' = u
  BY <1>1, <1>3, <1>4 DEF IInv, TaskInv, TaskOk, OnlyTask
<1>6. \A u \in Task : Renews(u) => Renews(u)' /\ task'[u] = task[u] /\ table' = u
  BY <1>2, <1>5 DEF Renews, Current, TaskCurrent
<1>7. TypeOK'
  BY <1>2, <1>3 DEF IInv, TypeOK
<1>8. DownInv'
  BY <1>2, <1>3, <1>1 DEF IInv, DownInv, OnlyTask
<1>9. ChildInv'
  BY <1>2 DEF IInv, ChildInv
<1>10. DiskInv'
  BY <1>2 DEF IInv, DiskInv
<1>11. CallInv'
  BY <1>2 DEF IInv, CallInv, CallOk
<1>12. LockInv'
  BY <1>2 DEF IInv, LockInv, Removes
<1>13. FlowInv'
  <2>1. \A u \in Task : ~Current(u) => ~Current(u)'
    BY <1>2, <1>3, <1>4 DEF Current, TaskCurrent, OnlyTask
  <2> QED BY <1>2, <2>1 DEF IInv, FlowInv
<1>14. TaskInv'
  BY <1>2, <1>3, <1>4, <1>5, Empty DEF IInv, TaskInv, TaskOk, Current, TaskCurrent, OnlyTask
<1>15. RetryInv'
  BY <1>2, <1>5, <1>1, <1>4 DEF IInv, RetryInv, Current, TaskCurrent
<1>16. PostedInv'
  BY <1>2 DEF IInv, PostedInv
<1>17. HeaderFollowsFile'
  BY <1>2, <1>6 DEF IInv, HeaderFollowsFile
<1>18. NoGrantAbandoned'
  <2>1. \A u \in Task : Renews(u)' => Current(u)
    BY <1>2, <1>3, <1>4 DEF Renews, Current, TaskCurrent, OnlyTask
  <2>2. kid'.unfinished => \A u \in Task : ~Renews(u)'
    BY <1>2, <2>1, StaysQuiet
  <2> QED BY <1>2, <1>6, <1>1, <2>2 DEF IInv, NoGrantAbandoned
<1>19. LiveHeaderCurrent'
  BY <1>2 DEF IInv, LiveHeaderCurrent
<1>20. RejectionVisible'
  BY <1>2 DEF IInv, RejectionVisible
<1> QED BY <1>7, <1>8, <1>9, <1>10, <1>11, <1>12, <1>13, <1>14, <1>15, <1>16, <1>17, <1>18,
         <1>19, <1>20 DEF IInv

\* A task may go through its round, and tell that it retries if it is current.
LEMMA QuietMoveKeeps ==
  ASSUME IInv, NEW t \in Task,
         mishaps' \in 0..MaxMishaps,
         UNCHANGED <<up, disk, issued, flow, server, exchanging, posted>>,
         UNCHANGED <<child, used, removing, lock, call, table>>,
         kid' = kid \/ (Current(t) /\ kid' = [kid EXCEPT !.err = "transient"]),
         task' \in [Task -> TaskRec], OnlyTask(t),
         task'[t].of = task[t].of, task'[t].born = task[t].born,
         task'[t].cancelled => task[t].cancelled,
         task[t].phase # "none", task'[t].phase \notin {"none", "apply"},
         task'[t].phase \in {"send", "posted", "retry"} =>
           task[t].phase \in {"send", "posted", "retry"} /\ task'[t].held = task[t].held,
         task[t].phase \in {"sync", "fault"} => task'[t].phase \in {"sync", "fault"}
  PROVE  IInv'
<1>1. /\ disk \in Disk /\ kid \in Kid /\ task \in [Task -> TaskRec]
      /\ table \in Task \cup {None} /\ task[t] \in TaskRec
      /\ None \notin Task
  BY ConstantsAssumption DEF IInv, TypeOK
<1>2. /\ kid' \in Kid /\ kid'.grant = kid.grant /\ kid'.rejected = kid.rejected
      /\ kid'.unfinished = kid.unfinished /\ kid'.proc = kid.proc /\ kid'.live = kid.live
      /\ kid'.err # kid.err => Current(t) /\ kid'.err = "transient"
  <2>1. CASE kid' = kid
    BY <1>1, <2>1
  <2>2. CASE Current(t) /\ kid' = [kid EXCEPT !.err = "transient"]
    BY <1>1, <2>2, KidErr
  <2> QED BY <2>1, <2>2
<1>3. \A u \in Task : Current(u)' <=> Current(u)
  BY <1>2 DEF Current, TaskCurrent, OnlyTask
<1>4. \A u \in Task : Renews(u) => Renews(u)' /\ table' = u
  BY <1>2, <1>3 DEF Renews, Current, IInv, TaskInv, TaskOk, OnlyTask
<1>5. \A u \in Task : task[u].phase \in {"sync", "fault"} =>
                    task'[u].phase \in {"sync", "fault"}
  BY DEF OnlyTask
<1>6. TypeOK'
  BY <1>1, <1>2 DEF IInv, TypeOK
<1>7. DownInv'
  <2>1. up
    BY <1>1, Empty DEF IInv, DownInv
  <2> QED BY <2>1 DEF DownInv
<1>8. ChildInv'
  <2>1. child = None => kid' = kid
    BY DEF Current, TaskCurrent
  <2> QED BY <1>2, <2>1 DEF IInv, ChildInv
<1>9. DiskInv'
  BY DEF IInv, DiskInv
<1>10. CallInv'
  BY DEF IInv, CallInv, CallOk
<1>11. LockInv'
  BY <1>2 DEF IInv, LockInv, Removes
<1>12. FlowInv'
  BY <1>1, <1>2, <1>3 DEF IInv, FlowInv
<1>13. TaskInv'
  <2> SUFFICES ASSUME NEW u \in Task
               PROVE  TaskOk(u)'
    BY DEF TaskInv
  <2>1. TaskOk(u)
    BY DEF IInv, TaskInv
  <2>2. CASE u # t
    BY <1>2, <1>3, <2>1, <2>2 DEF TaskOk, OnlyTask
  <2>3. CASE u = t
    BY <1>2, <1>3, <2>1, <2>3 DEF TaskOk
  <2> QED BY <2>2, <2>3
<1>14. RetryInv'
  BY <1>1, <1>2, <1>3 DEF IInv, RetryInv, TaskInv, TaskOk
<1>15. PostedInv'
  BY DEF IInv, PostedInv
<1>16. HeaderFollowsFile'
  BY <1>2, <1>4, <1>5 DEF IInv, HeaderFollowsFile
<1>17. NoGrantAbandoned'
  <2>1. \A u \in Task : Renews(u)' => Current(u)
    BY <1>3 DEF Renews, Current
  <2>2. kid'.unfinished => \A u \in Task : ~Renews(u)'
    BY <1>2, <2>1, StaysQuiet
  <2> QED BY <1>1, <1>2, <1>4, <2>2 DEF IInv, NoGrantAbandoned
<1>18. LiveHeaderCurrent'
  BY <1>2 DEF IInv, LiveHeaderCurrent
<1>19. RejectionVisible'
  BY <1>2 DEF IInv, RejectionVisible, TaskInv, TaskOk
<1> QED BY <1>6, <1>7, <1>8, <1>9, <1>10, <1>11, <1>12, <1>13, <1>14, <1>15, <1>16, <1>17,
         <1>18, <1>19 DEF IInv

\* The current task records the rejection of its grant and ends.
LEMMA RejectsKeeps ==
  ASSUME IInv, NEW t \in Task, Current(t), ~task[t].cancelled, Rejects(t),
         mishaps' \in 0..MaxMishaps,
         UNCHANGED <<up, disk, issued, flowVars, keyVars, lock, call>>
  PROVE  IInv'
<1>1. /\ disk \in Disk /\ kid \in Kid /\ task \in [Task -> TaskRec]
      /\ table \in Task \cup {None} /\ task[t] \in TaskRec
      /\ None \notin Task /\ child # None
  BY ConstantsAssumption DEF IInv, TypeOK, Current, TaskCurrent
<1>2. /\ UNCHANGED <<up, disk, issued, flow, server, exchanging, posted>>
      /\ UNCHANGED <<child, used, removing, lock, call>>
  BY DEF flowVars, keyVars
<1>3. /\ kid' \in Kid /\ kid'.err = "rejected" /\ kid'.rejected /\ kid'.grant = kid.grant
      /\ kid'.unfinished = kid.unfinished /\ kid'.proc = kid.proc /\ kid'.live = kid.live
  BY <1>1 DEF Rejects, Kid, Current
<1>4. /\ task' \in [Task -> TaskRec] /\ OnlyTask(t) /\ task'[t] = NoTask
      /\ table' = (IF table = t THEN None ELSE table) /\ table' \in Task \cup {None}
  BY <1>1, TaskEndsIs DEF Rejects
<1>5. /\ NoTask.phase = "none"
      /\ \A u \in Task : ~Current(u)'
  <2>1. \A u \in Task : Current(u) => u = t
    BY DEF IInv, TaskInv, TaskOk
  <2>2. \A u \in Task : u # t => (Current(u)' <=> Current(u))
    BY <1>2, <1>3, <1>4 DEF Current, TaskCurrent, OnlyTask
  <2> QED BY <1>4, <2>1, <2>2, Empty DEF Current
<1>6. TypeOK'
  BY <1>1, <1>2, <1>3, <1>4 DEF IInv, TypeOK
<1>7. DownInv'
  <2>1. up
    BY <1>1 DEF IInv, DownInv
  <2> QED BY <1>2, <2>1 DEF DownInv
<1>8. ChildInv'
  BY <1>1, <1>2, <1>3 DEF IInv, ChildInv
<1>9. DiskInv'
  BY <1>2 DEF IInv, DiskInv
<1>10. CallInv'
  BY <1>2 DEF IInv, CallInv, CallOk
<1>11. LockInv'
  BY <1>2, <1>3 DEF IInv, LockInv, Removes
<1>12. FlowInv'
  BY <1>2, <1>3, <1>5 DEF IInv, FlowInv
<1>13. TaskInv'
  <2> SUFFICES ASSUME NEW u \in Task
               PROVE  TaskOk(u)'
    BY DEF TaskInv
  <2>1. TaskOk(u)
    BY DEF IInv, TaskInv
  <2> QED BY <1>2, <1>3, <1>4, <1>5, <2>1 DEF TaskOk, OnlyTask
<1>14. RetryInv'
  BY <1>3 DEF RetryInv
<1>15. PostedInv'
  BY <1>2 DEF IInv, PostedInv
<1>16. HeaderFollowsFile'
  BY <1>3 DEF HeaderFollowsFile
<1>17. NoGrantAbandoned'
  <2>1. \A u \in Task : ~Renews(u)'
    BY <1>5 DEF Renews, Current
  <2> QED BY <1>3, <2>1 DEF NoGrantAbandoned
<1>18. LiveHeaderCurrent'
  BY <1>2, <1>3 DEF IInv, LiveHeaderCurrent
<1>19. RejectionVisible'
  BY <1>3 DEF RejectionVisible
<1> QED BY <1>6, <1>7, <1>8, <1>9, <1>10, <1>11, <1>12, <1>13, <1>14, <1>15, <1>16, <1>17,
         <1>18, <1>19 DEF IInv

\* A token that is issued disturbs nothing that is known of the others.
LEMMA RenewedKeeps ==
  ASSUME IInv, NEW t \in Task, Renewed(t)
  PROVE  IInv'
<1>1. /\ disk \in Disk /\ kid \in Kid /\ task \in [Task -> TaskRec]
      /\ table \in Task \cup {None} /\ task[t] \in TaskRec
      /\ None \notin Task \cup Token /\ issued \in [Token -> Origin \cup {None}]
  BY ConstantsAssumption DEF IInv, TypeOK
<1>2. /\ UNCHANGED <<up, disk, mishaps, flow, server, exchanging, posted>>
      /\ UNCHANGED <<child, used, removing, lock, kid, table, call>>
  BY DEF Renewed, flowVars, keyVars
<1>3. PICK n \in Token :
        /\ issued[n] = None
        /\ issued' = [issued EXCEPT ![n] = [line |-> issued[task[t].held].line,
                                           parent |-> task[t].held]]
        /\ task' = [task EXCEPT ![t] = [@ EXCEPT !.phase = "apply", !.reply = n]]
  BY DEF Renewed, Fresh
<1>4. /\ task[t].phase = "posted" /\ task[t].held \in Token /\ task[t].held # n
      /\ issued[task[t].held] \in Origin
  <2>1. task[t].phase = "posted"
    BY DEF Renewed
  <2>2. TaskOk(t)
    BY DEF IInv, TaskInv
  <2>3. task[t].held \in Token /\ issued[task[t].held] # None
    BY <1>1, <2>1, <2>2, TaskParts DEF TaskOk
  <2> QED BY <1>1, <1>3, <2>1, <2>3
<1>5. /\ task' \in [Task -> TaskRec] /\ OnlyTask(t) /\ SameTask(t)
      /\ task'[t].phase = "apply" /\ task'[t].reply = n /\ task'[t].held = task[t].held
  <2> DEFINE r == [task[t] EXCEPT !.phase = "apply", !.reply = n]
  <2>1. /\ r \in TaskRec /\ r.phase = "apply" /\ r.reply = n /\ r.held = task[t].held
        /\ r.of = task[t].of /\ r.born = task[t].born /\ r.cancelled = task[t].cancelled
    BY <1>1 DEF TaskRec, TaskPhase
  <2> HIDE DEF r
  <2>2. task' = [task EXCEPT ![t] = r]
    BY <1>3 DEF r
  <2> QED BY <1>1, <2>1, <2>2 DEF OnlyTask, SameTask
<1>6. /\ issued' \in [Token -> Origin \cup {None}]
      /\ \A m \in Token : m # n => issued'[m] = issued[m]
      /\ issued'[n] = [line |-> issued'[task[t].held].line, parent |-> task[t].held]
      /\ issued'[n] # None /\ issued'[n].line = issued[task[t].held].line
  <2> DEFINE o == [line |-> issued[task[t].held].line, parent |-> task[t].held]
  <2>1. o \in Origin /\ o.line = issued[task[t].held].line
    BY <1>4 DEF Origin
  <2>2. o # None
    BY <2>1, OriginAssumption
  <2>3. issued' = [issued EXCEPT ![n] = o]
    BY <1>3
  <2>4. issued'[n] = o /\ \A m \in Token : m # n => issued'[m] = issued[m]
    BY <1>1, <2>3
  <2>5. issued'[task[t].held] = issued[task[t].held]
    BY <1>4, <2>4
  <2>6. issued'[n] = [line |-> issued'[task[t].held].line, parent |-> task[t].held]
    BY <2>4, <2>5
  <2> HIDE DEF o
  <2> QED BY <1>1, <2>1, <2>2, <2>3, <2>4, <2>6
<1>7. \A m \in Token : issued[m] # None => m # n /\ issued'[m] = issued[m]
  BY <1>3, <1>6
<1>8. \A u \in Task : Current(u)' <=> Current(u)
  BY <1>2, <1>4, <1>5 DEF Current, TaskCurrent, OnlyTask, SameTask
<1>9. \A u \in Task : Renews(u) => Renews(u)' /\ table' = u
  BY <1>2, <1>5, <1>8 DEF Renews, Current, IInv, TaskInv, TaskOk, OnlyTask, SameTask
<1>10. TypeOK'
  BY <1>1, <1>2, <1>5, <1>6 DEF IInv, TypeOK
<1>11. DownInv'
  <2>1. up
    BY <1>4, Empty DEF IInv, DownInv
  <2> QED BY <1>2, <2>1 DEF DownInv
<1>12. ChildInv'
  BY <1>2 DEF IInv, ChildInv
<1>13. DiskInv'
  BY <1>1, <1>2, <1>7, DiskParts DEF IInv, DiskInv
<1>14. CallInv'
  <2>1. \A p \in Caller : call[p].token \in Token \cup {None}
    BY CallParts DEF IInv, TypeOK
  <2> SUFFICES ASSUME NEW p \in Caller, call[p].pc = "waiting", call[p].job = "callback"
               PROVE  issued'[call[p].token] = [line |-> call[p].flow, parent |-> None]
    BY <1>2 DEF IInv, CallInv, CallOk
  <2>2. issued[call[p].token] = [line |-> call[p].flow, parent |-> None]
    BY DEF IInv, CallInv, CallOk
  <2>3. call[p].flow \in Flow
    BY CallParts DEF IInv, TypeOK, CallInv, CallOk
  <2>4. issued[call[p].token] \in Origin
    BY <2>2, <2>3 DEF Origin
  <2> QED BY <1>7, <2>1, <2>2, <2>4, OriginAssumption DEF IInv, CallInv, CallOk
<1>15. LockInv'
  BY <1>2 DEF IInv, LockInv, Removes
<1>16. FlowInv'
  <2>1. \A m \in Token : issued'[m] # None => flow'[issued'[m].line] # "new"
    BY <1>2, <1>4, <1>6, <1>7, OriginAssumption DEF IInv, FlowInv
  <2> QED BY <1>2, <1>8, <2>1 DEF IInv, FlowInv
<1>17. TaskInv'
  <2> SUFFICES ASSUME NEW u \in Task
               PROVE  TaskOk(u)'
    BY DEF TaskInv
  <2>1. TaskOk(u) /\ task[u] \in TaskRec
    BY <1>1 DEF IInv, TaskInv
  <2>2. CASE u # t
    <3>1. task'[u] = task[u] /\ (Current(u)' <=> Current(u))
      BY <1>5, <1>8, <2>2 DEF OnlyTask
    <3>2. ASSUME task[u].phase \in {"send", "posted", "retry", "apply"}
          PROVE  /\ task[u].held # None /\ issued'[task[u].held] # None
                 /\ issued'[task[u].held] = issued[task[u].held]
      BY <1>7, <2>1, <3>2, TaskParts DEF TaskOk
    <3>3. ASSUME task[u].phase = "apply"
          PROVE  /\ task[u].reply # None
                 /\ issued'[task[u].reply] = [line |-> issued'[task[u].held].line,
                                              parent |-> task[u].held]
      <4>1. issued[task[u].reply] \in Origin
        BY <1>1, <2>1, <3>3, TaskParts, OriginAssumption DEF TaskOk, Origin
      <4> QED BY <1>7, <2>1, <3>2, <3>3, <4>1, OriginAssumption, TaskParts DEF TaskOk
    <3> QED BY <1>2, <2>1, <3>1, <3>2, <3>3 DEF TaskOk
  <2>3. CASE u = t
    BY <1>1, <1>2, <1>4, <1>5, <1>6, <1>7, <1>8, <2>1, <2>3 DEF TaskOk, SameTask
  <2> QED BY <2>2, <2>3
<1>18. RetryInv'
  BY <1>2, <1>8, <1>1 DEF IInv, RetryInv
<1>19. PostedInv'
  BY <1>2 DEF IInv, PostedInv
<1>20. HeaderFollowsFile'
  <2>1. \A u \in Task : task[u].phase \in {"sync", "fault"} => u # t /\ task'[u] = task[u]
    BY <1>4, <1>5 DEF OnlyTask
  <2> QED BY <1>2, <1>9, <2>1 DEF IInv, HeaderFollowsFile
<1>21. NoGrantAbandoned'
  <2>1. \A u \in Task : Renews(u)' => Current(u)
    BY <1>8 DEF Renews, Current
  <2>2. kid'.unfinished => \A u \in Task : ~Renews(u)'
    BY <1>2, <2>1, StaysQuiet
  <2> QED BY <1>1, <1>2, <1>9, <2>2 DEF IInv, NoGrantAbandoned
<1>22. LiveHeaderCurrent'
  BY <1>2 DEF IInv, LiveHeaderCurrent
<1>23. RejectionVisible'
  BY <1>2 DEF IInv, RejectionVisible
<1> QED BY <1>10, <1>11, <1>12, <1>13, <1>14, <1>15, <1>16, <1>17, <1>18, <1>19, <1>20,
         <1>21, <1>22, <1>23 DEF IInv

\* The header is repaired from the file, and the round begins with what the file holds.
LEMMA SyncKeeps ==
  ASSUME IInv, NEW t \in Task, Sync(t)
  PROVE  IInv'
<1>1. /\ disk \in Disk /\ kid \in Kid /\ task \in [Task -> TaskRec]
      /\ table \in Task \cup {None} /\ task[t] \in TaskRec
      /\ None \notin Task
  BY ConstantsAssumption DEF IInv, TypeOK
<1>2. /\ UNCHANGED <<up, issued, flow, server, exchanging, posted>>
      /\ UNCHANGED <<child, used, removing, lock, call>>
      /\ mishaps' = mishaps
  BY DEF Sync, flowVars, keyVars
<1>3. /\ Current(t) /\ up /\ child # None /\ lock[child] = None /\ disk.id # None
      /\ disk.file \in Token /\ disk.file # None /\ issued[disk.file] # None
      /\ server[issued[disk.file].line] = disk.id /\ table = t /\ ~kid.rejected
      /\ \A u \in Task : u # t => ~Current(u)
      /\ \A f \in Flow : flow[f] = "open" => server[f] = disk.id /\ server[f] # f
      /\ task[t].phase = "sync"
  <2>1. Current(t) /\ lock[child] = None /\ task[t].phase = "sync"
    BY DEF Sync, Runs, LockFree, TaskCurrent, Current
  <2> QED BY <2>1, CurrentStands
<1>4. DiskIs(disk', disk.id, disk.enabled, disk.file, disk.file)
  BY <1>1, <1>3, DiskEdits DEF Sync, RepairedHeader
<1>5. /\ kid' \in Kid /\ kid'.grant = kid.grant /\ kid'.rejected = kid.rejected
      /\ kid'.unfinished = kid.unfinished /\ kid'.proc = kid.proc
      /\ kid'.live = (IF kid.live = None \/ disk.header = disk.file THEN kid.live
                       ELSE disk.file)
      /\ kid'.err = kid.err \/ (kid.err = "transient" /\ kid'.err = "none")
  <2>1. CASE kid' = kid /\ disk.header = disk.file
    BY <1>1, <2>1
  <2>2. CASE kid' = Applied(disk.file) /\ disk.header # disk.file
    BY <1>1, <1>3, <2>2, AppliedIs
  <2> QED BY <2>1, <2>2 DEF Sync
<1>6. /\ task' \in [Task -> TaskRec] /\ OnlyTask(t) /\ table' \in Task \cup {None}
      /\ \/ disk.file \in Lasting /\ task'[t] = NoTask
         \/ /\ disk.file \notin Lasting /\ SameTask(t) /\ table' = table
            /\ task'[t].phase = "send" /\ task'[t].held = disk.file
  <2>1. CASE disk.file \in Lasting
    BY <1>1, <2>1, TaskEndsIs DEF Sync
  <2>2. CASE disk.file \notin Lasting
    <3> DEFINE r == [task[t] EXCEPT !.phase = "send", !.held = disk.file]
    <3>1. /\ r \in TaskRec /\ r.phase = "send" /\ r.held = disk.file
          /\ r.of = task[t].of /\ r.born = task[t].born /\ r.cancelled = task[t].cancelled
      BY <1>1, <1>3 DEF TaskRec, TaskPhase
    <3> HIDE DEF r
    <3>2. task' = [task EXCEPT ![t] = r] /\ table' = table
      BY <2>2 DEF Sync, RoundState, r
    <3> QED BY <1>1, <2>2, <3>1, <3>2 DEF OnlyTask, SameTask
  <2> QED BY <2>1, <2>2
<1>7. \A u \in Task : u # t => ~Current(u)'
  BY <1>2, <1>3, <1>5, <1>6 DEF Current, TaskCurrent, OnlyTask
<1>8. Current(t)' <=> disk.file \notin Lasting
  BY <1>2, <1>3, <1>5, <1>6, Empty DEF Current, TaskCurrent, SameTask
<1>9. TypeOK'
  BY <1>1, <1>2, <1>4, <1>5, <1>6 DEF IInv, TypeOK, DiskIs
<1>10. DownInv'
  BY <1>2, <1>3 DEF DownInv
<1>11. ChildInv'
  BY <1>2, <1>3, <1>4, <1>5 DEF IInv, ChildInv, DiskIs
<1>12. DiskInv'
  BY <1>2, <1>3, <1>4 DEF IInv, DiskInv, DiskIs
<1>13. CallInv'
  BY <1>2 DEF IInv, CallInv, CallOk
<1>14. LockInv'
  BY <1>2, <1>4, <1>5 DEF IInv, LockInv, Removes, DiskIs
<1>15. FlowInv'
  BY <1>2, <1>3, <1>4 DEF IInv, FlowInv, DiskIs
<1>16. TaskInv'
  <2> SUFFICES ASSUME NEW u \in Task
               PROVE  TaskOk(u)'
    BY DEF TaskInv
  <2>1. TaskOk(u)
    BY DEF IInv, TaskInv
  <2>2. CASE u # t
    BY <1>2, <1>5, <1>6, <1>7, <2>1, <2>2 DEF TaskOk, OnlyTask
  <2>3. CASE u = t /\ disk.file \in Lasting
    BY <1>6, <1>8, <2>3, Empty DEF TaskOk
  <2>4. CASE u = t /\ disk.file \notin Lasting
    BY <1>1, <1>2, <1>3, <1>4, <1>5, <1>6, <2>1, <2>4, CurrentStands
       DEF TaskOk, SameTask, DiskIs
  <2> QED BY <2>2, <2>3, <2>4
<1>17. RetryInv'
  BY <1>1, <1>3, <1>5, <1>6, <1>8 DEF IInv, RetryInv
<1>18. PostedInv'
  BY <1>2 DEF IInv, PostedInv
<1>19. HeaderFollowsFile'
  BY <1>4 DEF HeaderFollowsFile, DiskIs
<1>20. NoGrantAbandoned'
  <2>1. \A u \in Task : Renews(u)' => Current(u)
    BY <1>3, <1>7 DEF Renews, Current
  <2>2. kid'.unfinished => \A u \in Task : ~Renews(u)'
    BY <1>5, <2>1, StaysQuiet
  <2>3. disk'.file = disk.file
    BY <1>4 DEF DiskIs
  <2>4. disk.file \notin Lasting => table' = t /\ Renews(t)'
    BY <1>1, <1>3, <1>6, <1>8, CurrentStands DEF Renews, Current, SameTask
  <2> QED BY <1>1, <1>3, <2>2, <2>3, <2>4 DEF NoGrantAbandoned
<1>21. LiveHeaderCurrent'
  BY <1>2, <1>3, <1>4, <1>5 DEF IInv, LiveHeaderCurrent, DiskIs
<1>22. RejectionVisible'
  BY <1>5 DEF IInv, RejectionVisible
<1> QED BY <1>9, <1>10, <1>11, <1>12, <1>13, <1>14, <1>15, <1>16, <1>17, <1>18, <1>19,
         <1>20, <1>21, <1>22 DEF IInv

\* The answer to the token that is stored replaces it, and the header follows.
LEMMA ApplyKeeps ==
  ASSUME IInv, NEW t \in Task, Apply(t)
  PROVE  IInv'
<1>1. /\ disk \in Disk /\ kid \in Kid /\ task \in [Task -> TaskRec]
      /\ table \in Task \cup {None} /\ task[t] \in TaskRec
      /\ None \notin Task
  BY ConstantsAssumption DEF IInv, TypeOK
<1>2. /\ UNCHANGED <<up, issued, flow, server, exchanging, posted>>
      /\ UNCHANGED <<child, used, removing, lock, call>>
      /\ mishaps' = mishaps /\ table' = table
  BY DEF Apply, flowVars, keyVars
<1>3. /\ Current(t) /\ up /\ child # None /\ lock[child] = None /\ disk.id # None
      /\ disk.file \in Token /\ disk.file # None /\ issued[disk.file] # None
      /\ server[issued[disk.file].line] = disk.id /\ table = t /\ ~kid.rejected
      /\ \A u \in Task : u # t => ~Current(u)
      /\ \A f \in Flow : flow[f] = "open" => server[f] = disk.id /\ server[f] # f
  BY CurrentStands, AnswerFits DEF Apply
<1>4. /\ task[t].reply \in Token /\ task[t].reply # None
      /\ issued[task[t].reply] # None
      /\ server[issued[task[t].reply].line] = disk.id /\ task[t].phase = "apply"
  BY AnswerFits DEF Apply
<1>5. DiskIs(disk', disk.id, disk.enabled, task[t].reply, task[t].reply)
  BY <1>1, <1>4, Refreshed DEF Apply
<1>6. /\ kid' \in Kid /\ kid'.grant = kid.grant /\ kid'.rejected = kid.rejected
      /\ kid'.unfinished = kid.unfinished /\ kid'.proc = kid.proc
      /\ kid'.live = (IF kid.live = None THEN None ELSE task[t].reply)
      /\ kid'.err = IF kid.err = "transient" THEN "none" ELSE kid.err
  BY <1>1, <1>4, AppliedIs DEF Apply
<1>7. /\ task' \in [Task -> TaskRec] /\ OnlyTask(t) /\ SameTask(t)
      /\ task'[t].phase = "sync"
  BY <1>1, RoundOverIs DEF Apply, TaskPhase
<1>8. \A u \in Task : Current(u)' <=> Current(u)
  BY <1>2, <1>4, <1>6, <1>7 DEF Current, TaskCurrent, OnlyTask, SameTask
<1>9. TypeOK'
  BY <1>1, <1>2, <1>5, <1>6, <1>7 DEF IInv, TypeOK, DiskIs
<1>10. DownInv'
  BY <1>2, <1>3 DEF DownInv
<1>11. ChildInv'
  BY <1>2, <1>3, <1>5, <1>6 DEF IInv, ChildInv, DiskIs
<1>12. DiskInv'
  BY <1>2, <1>3, <1>4, <1>5 DEF IInv, DiskInv, DiskIs
<1>13. CallInv'
  BY <1>2 DEF IInv, CallInv, CallOk
<1>14. LockInv'
  BY <1>2, <1>5, <1>6 DEF IInv, LockInv, Removes, DiskIs
<1>15. FlowInv'
  BY <1>2, <1>3, <1>5, <1>8 DEF IInv, FlowInv, DiskIs
<1>16. TaskInv'
  <2> SUFFICES ASSUME NEW u \in Task
               PROVE  TaskOk(u)'
    BY DEF TaskInv
  <2>1. TaskOk(u)
    BY DEF IInv, TaskInv
  <2>2. CASE u # t
    BY <1>2, <1>3, <1>6, <1>7, <1>8, <2>1, <2>2 DEF TaskOk, OnlyTask
  <2>3. CASE u = t
    BY <1>2, <1>3, <1>4, <1>5, <1>6, <1>7, <1>8, <2>1, <2>3, CurrentStands
       DEF TaskOk, SameTask, DiskIs
  <2> QED BY <2>2, <2>3
<1>17. RetryInv'
  BY <1>6 DEF RetryInv
<1>18. PostedInv'
  BY <1>2 DEF IInv, PostedInv
<1>19. HeaderFollowsFile'
  BY <1>5 DEF HeaderFollowsFile, DiskIs
<1>20. NoGrantAbandoned'
  <2>1. \A u \in Task : Renews(u)' => Current(u)
    BY <1>8 DEF Renews, Current
  <2>2. kid'.unfinished => \A u \in Task : ~Renews(u)'
    BY <1>6, <2>1, StaysQuiet
  <2>3. table' = t /\ Renews(t)'
    BY <1>2, <1>3, <1>7, <1>8, CurrentStands DEF Renews, Current, SameTask
  <2> QED BY <1>1, <2>2, <2>3 DEF NoGrantAbandoned
<1>21. LiveHeaderCurrent'
  BY <1>2, <1>3, <1>4, <1>5, <1>6 DEF IInv, LiveHeaderCurrent, DiskIs
<1>22. RejectionVisible'
  BY <1>6 DEF IInv, RejectionVisible
<1> QED BY <1>9, <1>10, <1>11, <1>12, <1>13, <1>14, <1>15, <1>16, <1>17, <1>18, <1>19,
         <1>20, <1>21, <1>22 DEF IInv

\* A write of the answer fails: the header waits for its repair.
LEMMA ApplyFailsKeeps ==
  ASSUME IInv, NEW t \in Task, ApplyFails(t)
  PROVE  IInv'
<1>1. /\ disk \in Disk /\ kid \in Kid /\ task \in [Task -> TaskRec]
      /\ table \in Task \cup {None} /\ task[t] \in TaskRec
      /\ None \notin Task
  BY ConstantsAssumption DEF IInv, TypeOK
<1>2. /\ UNCHANGED <<up, issued, flow, server, exchanging, posted>>
      /\ UNCHANGED <<child, used, removing, lock, call>>
      /\ mishaps' \in 0..MaxMishaps /\ table' = table /\ kid' = kid
  BY ConstantsAssumption DEF ApplyFails, flowVars, keyVars, Mishap, IInv, TypeOK
<1>3. /\ Current(t) /\ up /\ child # None /\ lock[child] = None /\ disk.id # None
      /\ disk.file \in Token /\ disk.file # None /\ issued[disk.file] # None
      /\ server[issued[disk.file].line] = disk.id /\ table = t /\ ~kid.rejected
      /\ \A u \in Task : u # t => ~Current(u)
      /\ \A f \in Flow : flow[f] = "open" => server[f] = disk.id /\ server[f] # f
  BY CurrentStands, AnswerFits DEF ApplyFails
<1>4. /\ task[t].reply \in Token /\ task[t].reply # None
      /\ issued[task[t].reply] # None
      /\ server[issued[task[t].reply].line] = disk.id /\ task[t].phase = "apply"
  BY AnswerFits DEF ApplyFails
<1>5. /\ disk' \in Disk /\ disk'.id = disk.id /\ disk'.enabled = disk.enabled
      /\ disk'.header = disk.header /\ disk'.file \in {disk.file, task[t].reply}
  BY <1>1, <1>4, Refreshed DEF ApplyFails, DiskIs
<1>6. /\ task' \in [Task -> TaskRec] /\ OnlyTask(t) /\ SameTask(t)
      /\ task'[t].phase = "fault"
  BY <1>1, RoundOverIs DEF ApplyFails, TaskPhase
<1>7. \A u \in Task : Current(u)' <=> Current(u)
  BY <1>2, <1>4, <1>6 DEF Current, TaskCurrent, OnlyTask, SameTask
<1>8. Renews(t)'
  BY <1>3, <1>6, <1>7, CurrentStands DEF Renews, Current, SameTask
<1>9. TypeOK'
  BY <1>1, <1>2, <1>5, <1>6 DEF IInv, TypeOK, DiskIs
<1>10. DownInv'
  BY <1>2, <1>3 DEF DownInv
<1>11. ChildInv'
  BY <1>2, <1>3, <1>5 DEF IInv, ChildInv, DiskIs
<1>12. DiskInv'
  BY <1>2, <1>3, <1>4, <1>5 DEF IInv, DiskInv
<1>13. CallInv'
  BY <1>2 DEF IInv, CallInv, CallOk
<1>14. LockInv'
  BY <1>2, <1>5 DEF IInv, LockInv, Removes, DiskIs
<1>15. FlowInv'
  BY <1>2, <1>3, <1>5, <1>7 DEF IInv, FlowInv, DiskIs
<1>16. TaskInv'
  <2> SUFFICES ASSUME NEW u \in Task
               PROVE  TaskOk(u)'
    BY DEF TaskInv
  <2>1. TaskOk(u)
    BY DEF IInv, TaskInv
  <2>2. CASE u # t
    BY <1>2, <1>3, <1>6, <1>7, <2>1, <2>2 DEF TaskOk, OnlyTask
  <2>3. CASE u = t
    BY <1>2, <1>3, <1>4, <1>5, <1>6, <1>7, <2>1, <2>3, CurrentStands
       DEF TaskOk, SameTask
  <2> QED BY <2>2, <2>3
<1>17. RetryInv'
  BY <1>1, <1>2, <1>3, <1>7 DEF IInv, RetryInv
<1>18. PostedInv'
  BY <1>2 DEF IInv, PostedInv
<1>19. HeaderFollowsFile'
  BY <1>6, <1>8 DEF HeaderFollowsFile
<1>20. NoGrantAbandoned'
  <2>1. \A u \in Task : Renews(u)' => Current(u)
    BY <1>7 DEF Renews, Current
  <2>2. kid'.unfinished => \A u \in Task : ~Renews(u)'
    BY <1>2, <2>1, StaysQuiet
  <2> QED BY <1>1, <1>2, <1>3, <1>8, <2>2 DEF NoGrantAbandoned
<1>21. LiveHeaderCurrent'
  BY <1>2, <1>5 DEF IInv, LiveHeaderCurrent
<1>22. RejectionVisible'
  BY <1>2 DEF IInv, RejectionVisible
<1> QED BY <1>9, <1>10, <1>11, <1>12, <1>13, <1>14, <1>15, <1>16, <1>17, <1>18, <1>19,
         <1>20, <1>21, <1>22 DEF IInv

\* The steps of a round that only move the task, or tell that it retries.
LEMMA RoundKeeps ==
  ASSUME IInv, NEW t \in Task,
         \/ SyncFaults(t) \/ RecordFault(t) \/ Send(t) \/ NotRefreshed(t) \/ Retry(t)
         \/ CancelSwallowed(t)
  PROVE  IInv'
<1>1. /\ task \in [Task -> TaskRec] /\ mishaps \in 0..MaxMishaps
      /\ MaxMishaps \in Nat
  BY ConstantsAssumption DEF IInv, TypeOK
<1>2. CASE SyncFaults(t)
  <2>1. /\ task[t].phase = "sync" /\ RoundOver(t, "fault")
        /\ mishaps' \in 0..MaxMishaps
        /\ UNCHANGED <<up, disk, issued, flow, server, exchanging, posted>>
        /\ UNCHANGED <<child, used, removing, lock, kid, call, table>>
    BY <1>1, <1>2 DEF SyncFaults, Runs, Mishap, flowVars, keyVars
  <2> QED BY <1>1, <2>1, RoundOverIs, QuietMoveKeeps DEF SameTask, TaskPhase
<1>3. CASE RecordFault(t)
  <2>1. /\ task[t].phase = "fault" /\ RoundOver(t, "sync")
        /\ mishaps' = mishaps
        /\ UNCHANGED <<up, disk, issued, flow, server, exchanging, posted>>
        /\ UNCHANGED <<child, used, removing, lock, call, table>>
    BY <1>3 DEF RecordFault, Runs, flowVars, keyVars
  <2>2. kid' = kid \/ (Current(t) /\ kid' = [kid EXCEPT !.err = "transient"])
    BY <1>3, <2>1 DEF RecordFault, Current
  <2> QED BY <1>1, <2>1, <2>2, RoundOverIs, QuietMoveKeeps DEF SameTask, TaskPhase
<1>4. CASE Send(t)
  <2>1. /\ task[t].phase = "send" /\ MovesTo(t, "posted")
        /\ mishaps' = mishaps
        /\ UNCHANGED <<up, disk, issued, flow, server, exchanging, posted>>
        /\ UNCHANGED <<child, used, removing, lock, kid, call, table>>
    BY <1>4 DEF Send, Runs, taskOnly, flowVars, keyVars
  <2> QED BY <1>1, <2>1, MovesToIs, QuietMoveKeeps DEF SameTask, TaskPhase
<1>5. CASE NotRefreshed(t)
  <2>1. /\ task[t].phase = "posted"
        /\ MovesTo(t, "retry") \/ RoundOver(t, "reject") \/ RoundOver(t, "fault")
        /\ mishaps' = mishaps
        /\ UNCHANGED <<up, disk, issued, flow, server, exchanging, posted>>
        /\ UNCHANGED <<child, used, removing, lock, kid, call, table>>
    BY <1>5 DEF NotRefreshed, taskOnly, flowVars, keyVars
  <2>2. CASE MovesTo(t, "retry")
    BY <1>1, <2>1, <2>2, MovesToIs, QuietMoveKeeps DEF SameTask, TaskPhase
  <2>3. CASE RoundOver(t, "reject") \/ RoundOver(t, "fault")
    BY <1>1, <2>1, <2>3, RoundOverIs, QuietMoveKeeps DEF SameTask, TaskPhase
  <2> QED BY <2>1, <2>2, <2>3
<1>6. CASE Retry(t)
  <2>1. /\ task[t].phase = "retry" /\ MovesTo(t, "send")
        /\ mishaps' = mishaps
        /\ UNCHANGED <<up, disk, issued, flow, server, exchanging, posted>>
        /\ UNCHANGED <<child, used, removing, lock, call, table>>
    BY <1>6 DEF Retry, Runs, flowVars, keyVars
  <2>2. kid' = kid \/ (Current(t) /\ kid' = [kid EXCEPT !.err = "transient"])
    BY <1>6, <2>1 DEF Retry, Current
  <2> QED BY <1>1, <2>1, <2>2, MovesToIs, QuietMoveKeeps DEF SameTask, TaskPhase
<1>7. CASE CancelSwallowed(t)
  <2>1. /\ task[t].cancelled /\ task[t].phase = "posted"
        /\ task' = [task EXCEPT ![t] = [@ EXCEPT !.cancelled = FALSE]]
        /\ mishaps' = mishaps
        /\ UNCHANGED <<up, disk, issued, flow, server, exchanging, posted>>
        /\ UNCHANGED <<child, used, removing, lock, kid, call, table>>
    BY <1>7 DEF CancelSwallowed, taskOnly, flowVars, keyVars
  <2>2. /\ task' \in [Task -> TaskRec] /\ OnlyTask(t)
        /\ task'[t].of = task[t].of /\ task'[t].born = task[t].born
        /\ task'[t].phase = task[t].phase /\ task'[t].held = task[t].held
    BY <1>1, <2>1 DEF OnlyTask, TaskRec
  <2> QED BY <1>1, <2>1, <2>2, QuietMoveKeeps
<1> QED BY <1>2, <1>3, <1>4, <1>5, <1>6, <1>7

\* Every step of a refresh task.
LEMMA TaskKeeps ==
  ASSUME IInv, NEW t \in Task, TaskLocked(t) \/ TaskFree(t) \/ TaskEnv(t)
  PROVE  IInv'
<1>1. CASE \/ SyncFaults(t) \/ RecordFault(t) \/ Send(t) \/ NotRefreshed(t) \/ Retry(t)
           \/ CancelSwallowed(t)
  BY <1>1, RoundKeeps
<1>2. CASE SyncStops(t) \/ SendStops(t) \/ ApplyStops(t) \/ CancelledEnds(t)
  <2>1. /\ TaskEnds(t) /\ UNCHANGED taskOnly
        /\ task[t].cancelled \/ ~TaskCurrent(t) \/ disk.file = None
    BY <1>2 DEF SyncStops, SendStops, ApplyStops, CancelledEnds
  <2> QED BY <2>1, QuietEndKeeps DEF Current
<1>3. CASE SyncUnreadable(t) \/ RecordRejection(t)
  <2>1. /\ Rejects(t) /\ task[t].phase # "none" /\ ~task[t].cancelled
        /\ UNCHANGED <<up, disk, issued, flowVars, keyVars, lock, call>>
    BY <1>3 DEF SyncUnreadable, RecordRejection, Runs
  <2>2. mishaps' \in 0..MaxMishaps /\ (TaskCurrent(t) \/ mishaps' = mishaps)
    BY <1>3, ConstantsAssumption DEF SyncUnreadable, RecordRejection, Mishap, IInv, TypeOK
  <2>3. CASE TaskCurrent(t)
    BY <2>1, <2>2, <2>3, RejectsKeeps DEF Current
  <2>4. CASE ~TaskCurrent(t)
    <3>1. TaskEnds(t) /\ UNCHANGED taskOnly
      BY <2>1, <2>2, <2>4 DEF Rejects, taskOnly
    <3> QED BY <2>4, <3>1, QuietEndKeeps DEF Current
  <2> QED BY <2>3, <2>4
<1>4. CASE Sync(t) \/ Apply(t) \/ ApplyFails(t) \/ Renewed(t)
  BY <1>4, SyncKeeps, ApplyKeeps, ApplyFailsKeeps, RenewedKeeps
<1> QED BY <1>1, <1>2, <1>3, <1>4 DEF TaskLocked, TaskFree, TaskEnv

\* Tokens are only ever added, each to a flow that was opened.
TokensAdded ==
  /\ issued' \in [Token -> Origin \cup {None}]
  /\ \A m \in Token : issued[m] # None => issued'[m] = issued[m]
  /\ \A m \in Token : issued'[m] # None => flow'[issued'[m].line] # "new"

\* Flows are only ever spent.
FlowsSpent ==
  /\ flow' \in [Flow -> {"new", "open", "gone"}]
  /\ \A f \in Flow : flow'[f] = flow[f] \/ (flow'[f] = "gone" /\ flow[f] # "new")

LEMMA PoppedIs ==
  ASSUME flow \in [Flow -> {"new", "open", "gone"}], NEW f \in Flow, flow[f] # "new",
         flow' = Popped(f)
  PROVE  /\ FlowsSpent /\ flow'[f] = "gone"
         /\ \A g \in Flow : g # f => flow'[g] = flow[g]
BY DEF Popped, FlowsSpent

\* A request that takes no lock may spend flows and bring a token.
LEMMA QuietCallKeeps ==
  ASSUME IInv, NEW p \in Caller, up,
         UNCHANGED <<up, disk, mishaps, server, child, used, removing, lock>>,
         UNCHANGED <<kid, table, task>>,
         TokensAdded, FlowsSpent, exchanging' \subseteq Flow, posted' \subseteq Flow,
         call' \in [Caller -> CallRec], OnlyCall(p),
         call[p].pc # "teardown", call'[p].pc # "teardown", CallOk(p)',
         PostedInv'
  PROVE  IInv'
<1>1. /\ disk \in Disk /\ kid \in Kid /\ task \in [Task -> TaskRec]
      /\ call \in [Caller -> CallRec] /\ server \in [Flow -> Flow \cup {None}]
  BY DEF IInv, TypeOK
<1>2. \A f \in Flow : /\ flow'[f] = "open" => flow[f] = "open"
                      /\ flow[f] # "new" => flow'[f] # "new"
  BY DEF FlowsSpent
<1>3. \A m \in Token : issued[m] # None => issued'[m] = issued[m]
  BY DEF TokensAdded
<1>4. \A u \in Task : /\ Current(u)' <=> Current(u)
                      /\ Renews(u)' <=> Renews(u)
  BY DEF Current, Renews, TaskCurrent
<1>5. TypeOK'
  BY <1>1 DEF IInv, TypeOK, TokensAdded, FlowsSpent
<1>6. DownInv'
  BY DEF DownInv
<1>7. ChildInv'
  BY DEF IInv, ChildInv
<1>8. DiskInv'
  BY <1>1, <1>3, DiskParts DEF IInv, DiskInv
<1>9. CallInv'
  <2> SUFFICES ASSUME NEW q \in Caller, q # p
               PROVE  CallOk(q)'
    BY DEF CallInv
  <2>1. CallOk(q) /\ call[q] \in CallRec /\ call'[q] = call[q]
    BY <1>1 DEF IInv, CallInv, OnlyCall
  <2>2. ASSUME call[q].pc = "waiting", call[q].job = "callback"
        PROVE  issued'[call[q].token] = [line |-> call[q].flow, parent |-> None]
    <3>1. issued[call[q].token] \in Origin /\ call[q].token \in Token
      BY <2>1, <2>2, CallParts DEF CallOk, Origin
    <3> QED BY <1>3, <2>1, <2>2, <3>1, OriginAssumption DEF CallOk
  <2> QED BY <1>2, <2>1, <2>2, CallParts DEF CallOk
<1>10. LockInv'
  <2>1. \A q \in Caller : call[q].pc = "teardown" \/ call'[q].pc = "teardown" =>
          call'[q] = call[q]
    BY DEF OnlyCall
  <2>2. \A q \in Caller : call[q].pc = "teardown" /\ call[q].job = "callback" =>
          call[q].flow \in Flow
    BY <1>1, CallParts DEF IInv, CallInv, CallOk
  <2>3. \A c \in Child, q \in Caller :
          lock'[c] = q <=> (call'[q].pc = "teardown" /\ call'[q].target = c)
    BY <2>1 DEF IInv, LockInv
  <2>4. \A q \in Caller : call'[q].pc = "teardown" =>
          /\ call'[q].job = "remove" => removing' /\ child' = None
          /\ call'[q].job # "remove" => child' = call'[q].target /\ kid'.proc = "down"
          /\ call'[q].job = "callback" => disk'.enabled /\ flow'[call'[q].flow] # "open"
    BY <1>2, <2>1, <2>2 DEF IInv, LockInv
  <2>5. \A q, r \in Caller : Removes(q)' /\ Removes(r)' => q = r
    BY <2>1 DEF IInv, LockInv, Removes
  <2> QED BY <2>3, <2>4, <2>5 DEF LockInv
<1>11. FlowInv'
  BY <1>1, <1>2, <1>4 DEF IInv, FlowInv, TokensAdded
<1>12. TaskInv'
  <2> SUFFICES ASSUME NEW u \in Task
               PROVE  TaskOk(u)'
    BY DEF TaskInv
  <2>1. TaskOk(u) /\ task[u] \in TaskRec
    BY <1>1 DEF IInv, TaskInv
  <2>2. ASSUME task[u].phase \in {"send", "posted", "retry", "apply"}
        PROVE  /\ task[u].held \in Token
               /\ issued[task[u].held] # None
               /\ issued'[task[u].held] = issued[task[u].held]
    BY <1>3, <2>1, <2>2, TaskParts DEF TaskOk
  <2>3. ASSUME task[u].phase = "apply"
        PROVE  issued'[task[u].reply] = issued[task[u].reply]
    <3>1. issued[task[u].held] \in Origin
      BY <2>2, <2>3 DEF IInv, TypeOK
    <3>2. issued[task[u].reply] \in Origin
      BY <2>1, <2>2, <2>3, <3>1 DEF TaskOk, Origin
    <3> QED BY <1>3, <2>1, <2>3, <3>2, OriginAssumption, TaskParts DEF TaskOk
  <2> QED BY <1>4, <2>1, <2>2, <2>3 DEF TaskOk
<1>13. RetryInv'
  BY <1>1, <1>4, ConstantsAssumption DEF IInv, RetryInv, TypeOK
<1>14. PostedInv'
  OBVIOUS
<1>15. HeaderFollowsFile'
  BY <1>4 DEF IInv, HeaderFollowsFile
<1>16. NoGrantAbandoned'
  BY <1>1, <1>4 DEF IInv, NoGrantAbandoned, TypeOK
<1>17. LiveHeaderCurrent'
  BY DEF IInv, LiveHeaderCurrent
<1>18. RejectionVisible'
  BY DEF IInv, RejectionVisible
<1> QED BY <1>5, <1>6, <1>7, <1>8, <1>9, <1>10, <1>11, <1>12, <1>13, <1>14, <1>15, <1>16,
         <1>17, <1>18 DEF IInv

\* A callback that returns without taking the lock: its flow is spent, or the answer
\* was garbled.
LEMMA CallbackEnds ==
  ASSUME IInv, NEW p \in Caller, call[p].job = "callback", call[p].pc # "idle",
         call[p].pc # "teardown",
         UNCHANGED <<up, disk, mishaps, server, posted, child, used, removing, lock>>,
         UNCHANGED <<kid, table, task>>,
         flow' = Popped(call[p].flow) \/ (flow' = flow /\ AnswerMayBeGarbled),
         TokensAdded, CallbackReturns(p)
  PROVE  IInv'
<1>1. /\ call \in [Caller -> CallRec] /\ flow \in [Flow -> {"new", "open", "gone"}]
      /\ exchanging \subseteq Flow /\ posted \subseteq Flow
  BY DEF IInv, TypeOK
<1>2. up
  BY Empty DEF IInv, DownInv
<1>3. call[p].flow \in Flow /\ flow[call[p].flow] # "new"
  BY <1>1, CallParts DEF IInv, CallInv, CallOk
<1>4. FlowsSpent
  <2>1. CASE flow' = Popped(call[p].flow)
    BY <1>1, <1>3, <2>1, PoppedIs
  <2>2. CASE flow' = flow
    BY <1>1, <2>2 DEF FlowsSpent
  <2> QED BY <2>1, <2>2
<1>5. /\ call' \in [Caller -> CallRec] /\ OnlyCall(p) /\ call'[p] = NoCall
      /\ exchanging' = exchanging \ {call[p].flow}
  BY <1>1, ReturnsIs DEF CallbackReturns
<1>6. CallOk(p)' /\ call'[p].pc # "teardown"
  BY <1>5, Empty DEF CallOk
<1>7. PostedInv'
  <2> SUFFICES ASSUME ~AnswerMayBeGarbled, NEW f \in posted
               PROVE  /\ flow'[f] # "new"
                      /\ flow'[f] = "open" => f \in exchanging'
    BY DEF PostedInv
  <2>1. flow' = Popped(call[p].flow)
    OBVIOUS
  <2>2. flow[f] # "new" /\ (flow[f] = "open" => f \in exchanging)
    BY DEF IInv, PostedInv
  <2> QED BY <1>1, <1>3, <1>5, <2>1, <2>2, PoppedIs
<1> QED BY <1>1, <1>2, <1>4, <1>5, <1>6, <1>7, QuietCallKeeps

LEMMA TokensStay ==
  ASSUME IInv, FlowsSpent, issued' = issued
  PROVE  TokensAdded
BY DEF IInv, FlowInv, TypeOK, FlowsSpent, TokensAdded, Origin

\* A callback returns before it holds the lock.
LEMMA GivesUpKeeps ==
  ASSUME IInv, NEW p \in Caller,
         ExchangeFails(p) \/ ExchangeGarbled(p) \/ FinishNothing(p)
  PROVE  IInv'
<1>1. /\ call[p].job = "callback" /\ call[p].pc \in {"exchange", "waiting"}
      /\ UNCHANGED <<up, disk, mishaps, issued, server, posted, child, used, removing>>
      /\ UNCHANGED <<lock, kid, table, task>>
      /\ flow' = Popped(call[p].flow) \/ (flow' = flow /\ AnswerMayBeGarbled)
      /\ CallbackReturns(p)
  BY DEF ExchangeFails, ExchangeGarbled, FinishNothing, AtLock, IInv, CallInv, CallOk,
     keyVars
<1>2. /\ flow \in [Flow -> {"new", "open", "gone"}]
      /\ call[p].flow \in Flow /\ flow[call[p].flow] # "new"
  BY <1>1, CallParts DEF IInv, TypeOK, CallInv, CallOk
<1>3. FlowsSpent
  <2>1. CASE flow' = Popped(call[p].flow)
    BY <1>2, <2>1, PoppedIs
  <2>2. CASE flow' = flow
    BY <1>2, <2>2 DEF FlowsSpent
  <2> QED BY <1>1, <2>1, <2>2
<1> QED BY <1>1, <1>3, TokensStay, CallbackEnds

\* The provider answers: the callback waits for its child, or finds none.
LEMMA ExchangeAnsweredKeeps ==
  ASSUME IInv, NEW p \in Caller, ExchangeAnswered(p)
  PROVE  IInv'
<1>1. /\ call \in [Caller -> CallRec] /\ flow \in [Flow -> {"new", "open", "gone"}]
      /\ issued \in [Token -> Origin \cup {None}] /\ child \in Child \cup {None}
      /\ exchanging \subseteq Flow /\ posted \subseteq Flow
      /\ None \notin Token
  BY ConstantsAssumption DEF IInv, TypeOK
<1>2. call[p].pc = "exchange" /\ call[p].job = "callback" /\ up
  BY Empty DEF ExchangeAnswered, IInv, DownInv, CallInv, CallOk
<1>3. call[p].flow \in Flow /\ call[p].flow # None /\ flow[call[p].flow] # "new"
  BY <1>1, <1>2, CallParts DEF IInv, CallInv, CallOk
<1>4. /\ UNCHANGED <<up, disk, mishaps, server, posted, child, used, removing, lock>>
      /\ UNCHANGED <<kid, table, task>>
  BY DEF ExchangeAnswered, keyVars
<1>5. PICK n \in Token :
        /\ issued[n] = None
        /\ issued' = [issued EXCEPT ![n] = [line |-> call[p].flow, parent |-> None]]
        /\ \/ /\ child = None /\ flow' = Popped(call[p].flow) /\ CallbackReturns(p)
           \/ /\ child # None
              /\ call' = [call EXCEPT ![p] = [@ EXCEPT !.pc = "waiting", !.target = child,
                                                       !.token = n]]
              /\ flow' = flow /\ exchanging' = exchanging
  BY DEF ExchangeAnswered, Fresh
<1> DEFINE o == [line |-> call[p].flow, parent |-> None]
<1>6. o \in Origin /\ o.line = call[p].flow /\ o # None
  BY <1>3, OriginAssumption DEF Origin
<1>7. issued' = [issued EXCEPT ![n] = o]
  BY <1>5
<1>8. FlowsSpent
  <2>1. CASE flow' = Popped(call[p].flow)
    BY <1>1, <1>3, <2>1, PoppedIs
  <2>2. CASE flow' = flow
    BY <1>1, <2>2 DEF FlowsSpent
  <2> QED BY <1>5, <2>1, <2>2
<1> HIDE DEF o
<1>9. TokensAdded
  <2>1. \A m \in Token : m # n => issued'[m] = issued[m]
    BY <1>1, <1>7
  <2>2. issued'[n] = o
    BY <1>1, <1>7
  <2>3. flow'[call[p].flow] # "new"
    BY <1>3, <1>8 DEF FlowsSpent
  <2>4. \A m \in Token : issued[m] # None => issued[m].line \in Flow
    BY <1>1 DEF Origin
  <2>5. \A m \in Token : issued[m] # None => flow'[issued[m].line] # "new"
    BY <1>8, <2>4 DEF IInv, FlowInv, FlowsSpent
  <2>6. \A m \in Token : issued'[m] # None => flow'[issued'[m].line] # "new"
    BY <1>6, <2>1, <2>2, <2>3, <2>5
  <2>7. issued' \in [Token -> Origin \cup {None}]
    BY <1>1, <1>6, <1>7
  <2> QED BY <1>5, <2>1, <2>6, <2>7 DEF TokensAdded
<1>10. CASE flow' = Popped(call[p].flow) /\ CallbackReturns(p)
  BY <1>2, <1>4, <1>9, <1>10, CallbackEnds
<1>11. CASE /\ child # None
            /\ call' = [call EXCEPT ![p] = [@ EXCEPT !.pc = "waiting", !.target = child,
                                                     !.token = n]]
            /\ flow' = flow /\ exchanging' = exchanging
  <2> DEFINE r == [call[p] EXCEPT !.pc = "waiting", !.target = child, !.token = n]
  <2>1. /\ r \in CallRec /\ r.pc = "waiting" /\ r.target = child /\ r.token = n
        /\ r.job = "callback" /\ r.flow = call[p].flow
    BY <1>1, <1>2 DEF CallRec
  <2> HIDE DEF r
  <2>2. call' = [call EXCEPT ![p] = r]
    BY <1>11 DEF r
  <2>3. call' \in [Caller -> CallRec] /\ OnlyCall(p) /\ call'[p] = r
    BY <1>1, <2>1, <2>2 DEF OnlyCall
  <2>4. issued'[n] = [line |-> call[p].flow, parent |-> None]
    BY <1>1, <1>7 DEF o
  <2>5. CallOk(p)'
    BY <1>1, <1>3, <1>11, <2>1, <2>3, <2>4 DEF CallOk
  <2>6. PostedInv'
    BY <1>4, <1>11 DEF IInv, PostedInv
  <2> QED BY <1>1, <1>2, <1>4, <1>8, <1>9, <1>11, <2>1, <2>3, <2>5, <2>6, QuietCallKeeps
<1> QED BY <1>5, <1>10, <1>11

\* A callback begins to exchange its code; an operation begins to wait, or gives up.
LEMMA ArriveKeeps ==
  ASSUME IInv, NEW p \in Caller, Arrive(p) \/ Refuse(p)
  PROVE  IInv'
<1>1. /\ call \in [Caller -> CallRec] /\ flow \in [Flow -> {"new", "open", "gone"}]
      /\ exchanging \subseteq Flow /\ posted \subseteq Flow /\ child \in Child \cup {None}
      /\ None \notin Flow
  BY ConstantsAssumption DEF IInv, TypeOK
<1>2. ASSUME UNCHANGED <<flow, issued>>
      PROVE  FlowsSpent /\ TokensAdded
  <2>1. FlowsSpent
    BY <1>1, <1>2 DEF FlowsSpent
  <2> QED BY <1>2, <2>1, TokensStay
<1>3. CASE \E f \in Flow : BeginCallback(p, f)
  <2>1. PICK f \in Flow : BeginCallback(p, f)
    BY <1>3
  <2> DEFINE r == [NoCall EXCEPT !.job = "callback", !.pc = "exchange", !.flow = f]
  <2>2. /\ r \in CallRec /\ r.pc = "exchange" /\ r.job = "callback" /\ r.flow = f
    BY DEF NoCall, CallRec
  <2> HIDE DEF r
  <2>3. /\ UNCHANGED <<up, disk, mishaps, issued, flow, server, child, used, removing>>
        /\ UNCHANGED <<lock, kid, table, task>>
        /\ up /\ call[p] = NoCall /\ flow[f] = "open"
        /\ call' = [call EXCEPT ![p] = r]
        /\ exchanging' = exchanging \cup {f} /\ posted' = posted \cup {f}
    BY <2>1 DEF BeginCallback, MayExchange, keyVars, r
  <2>4. call' \in [Caller -> CallRec] /\ OnlyCall(p) /\ call'[p] = r
    BY <1>1, <2>2, <2>3 DEF OnlyCall
  <2>5. CallOk(p)'
    BY <1>1, <2>2, <2>3, <2>4 DEF CallOk
  <2>6. PostedInv'
    BY <2>3 DEF IInv, PostedInv
  <2> QED BY <1>1, <1>2, <2>2, <2>3, <2>4, <2>5, <2>6, Empty, QuietCallKeeps
<1>4. CASE \E j \in {"remove", "disable"} : Queue(p, j)
  <2>1. PICK j \in {"remove", "disable"} : Queue(p, j)
    BY <1>4
  <2> DEFINE r == [NoCall EXCEPT !.job = j, !.pc = "waiting", !.target = child]
  <2>2. /\ r \in CallRec /\ r.pc = "waiting" /\ r.job = j /\ r.target = child
    BY <1>1 DEF NoCall, CallRec
  <2> HIDE DEF r
  <2>3. /\ UNCHANGED <<up, disk, mishaps, issued, flow, server, child, used, removing>>
        /\ UNCHANGED <<lock, kid, table, task, exchanging, posted>>
        /\ call[p] = NoCall /\ child # None
        /\ call' = [call EXCEPT ![p] = r]
    BY <2>1 DEF Queue, keyVars, flowVars, r
  <2>4. call' \in [Caller -> CallRec] /\ OnlyCall(p) /\ call'[p] = r
    BY <1>1, <2>2, <2>3 DEF OnlyCall
  <2>5. CallOk(p)'
    BY <2>2, <2>3, <2>4 DEF CallOk
  <2>6. PostedInv' /\ up
    BY <2>3 DEF IInv, PostedInv, DownInv
  <2> QED BY <1>1, <1>2, <2>2, <2>3, <2>4, <2>5, <2>6, Empty, QuietCallKeeps
<1>5. CASE Refuse(p)
  <2>1. /\ UNCHANGED <<up, disk, mishaps, issued, flow, server, child, used, removing>>
        /\ UNCHANGED <<lock, kid, table, task, exchanging, posted>>
        /\ call[p].pc = "waiting" /\ Returns(p)
    BY <1>5 DEF Refuse, AtLock, keyVars, flowVars
  <2>2. call' \in [Caller -> CallRec] /\ OnlyCall(p) /\ call'[p] = NoCall
    BY <1>1, <2>1, ReturnsIs
  <2>3. CallOk(p)'
    BY <2>2, Empty DEF CallOk
  <2>4. PostedInv' /\ up
    BY <2>1, Empty DEF IInv, PostedInv, DownInv
  <2> QED BY <1>1, <1>2, <2>1, <2>2, <2>3, <2>4, Empty, QuietCallKeeps
<1> QED BY <1>3, <1>4, <1>5 DEF Arrive

\* The request that has its lock finds its child installed and nothing torn down.
LEMMA NoTeardown ==
  ASSUME IInv, child # None, lock[child] = None
  PROVE  \A q \in Caller : call[q].pc # "teardown"
<1> SUFFICES ASSUME NEW q \in Caller, call[q].pc = "teardown"
             PROVE  FALSE
  OBVIOUS
<1>1. call[q].job # "remove" /\ child = call[q].target
  BY DEF IInv, LockInv
<1>2. child \in Child /\ None \notin Caller
  BY ConstantsAssumption DEF IInv, TypeOK
<1>3. lock[child] = q
  BY <1>1, <1>2 DEF IInv, LockInv
<1> QED BY <1>2, <1>3

\* What a callback that may finish knows.
LEMMA CanFinishStands ==
  ASSUME IInv, NEW p \in Caller, CanFinish(p)
  PROVE  /\ up /\ child \in Child /\ child # None /\ lock[child] = None
         /\ call[p].target = child /\ call[p].job = "callback" /\ call[p].pc = "waiting"
         /\ call[p].flow \in Flow /\ call[p].flow # None /\ flow[call[p].flow] = "open"
         /\ \A f \in Flow : flow[f] = "open" => f = call[p].flow
         /\ \A q \in Caller : call[q].pc # "teardown"
         /\ call[p].token \in Token /\ call[p].token # None
         /\ issued[call[p].token] = [line |-> call[p].flow, parent |-> None]
         /\ issued[call[p].token] # None
         /\ server[issued[call[p].token].line] = disk.id /\ disk.id # None
         /\ ~IsReauth(call[p].flow) =>
              disk.header = None /\ disk.file = None /\ kid.proc = "down"
<1>1. /\ call[p].job = "callback" /\ call[p].pc = "waiting" /\ call[p].target = child
      /\ lock[child] = None /\ flow[call[p].flow] = "open"
  BY DEF CanFinish, AtLock, StillCurrent
<1>2. CallOk(p) /\ call[p] \in CallRec /\ child \in Child \cup {None}
  BY DEF IInv, CallInv, TypeOK
<1>3. /\ child # None /\ call[p].flow \in Flow /\ call[p].flow # None
      /\ call[p].token \in Token /\ call[p].token # None
      /\ issued[call[p].token] = [line |-> call[p].flow, parent |-> None]
  BY <1>1, <1>2, CallParts DEF CallOk
<1>4. up /\ disk.id # None
  BY <1>3 DEF IInv, DownInv, ChildInv
<1>5. issued[call[p].token].line = call[p].flow /\ issued[call[p].token] # None
  BY <1>3, OriginAssumption DEF Origin
<1>6. /\ server[call[p].flow] = disk.id
      /\ \A f \in Flow : flow[f] = "open" => f = call[p].flow
      /\ server[call[p].flow] = call[p].flow =>
           disk.header = None /\ disk.file = None /\ kid.proc = "down"
  BY <1>1, <1>3 DEF IInv, FlowInv
<1>7. \A q \in Caller : call[q].pc # "teardown"
  BY <1>1, <1>3, NoTeardown
<1> QED BY <1>1, <1>2, <1>3, <1>4, <1>5, <1>6, <1>7 DEF IsReauth

\* The tasks after a new grant: those of the old one are past, at most one is begun.
GrantTasks ==
  /\ task' \in [Task -> TaskRec] /\ table' \in Task \cup {None}
  /\ \A u \in Task :
       u # table' => /\ task'[u].phase = task[u].phase /\ task'[u].of = task[u].of
                     /\ task'[u].born = task[u].born /\ task'[u].held = task[u].held
                     /\ task'[u].reply = task[u].reply
  /\ table' # None =>
       /\ task'[table'].phase = "sync" /\ task'[table'].of = child
       /\ task'[table'].born = kid.grant + 1 /\ ~task'[table'].cancelled

LEMMA NoRefreshIs ==
  ASSUME TypeOK, NoRefresh(Retired)
  PROVE  GrantTasks /\ table' = None
<1>1. task' = Retired /\ table' = None
  BY DEF NoRefresh
<1>2. task \in [Task -> TaskRec] /\ table \in Task \cup {None}
  BY DEF TypeOK
<1> QED BY <1>1, <1>2, RetiredIs DEF GrantTasks

LEMMA RefreshForIs ==
  ASSUME TypeOK, child \in Child, NEW r \in BOOLEAN, RefreshFor(r)
  PROVE  GrantTasks /\ (table' # None <=> r)
<1>1. /\ task \in [Task -> TaskRec] /\ table \in Task \cup {None} /\ kid \in Kid
      /\ None \notin Task
  BY ConstantsAssumption DEF TypeOK
<1>2. CASE r
  <2>1. Retired \in [Task -> TaskRec] /\ NewGrant.grant = kid.grant + 1
        /\ kid.grant + 1 \in Nat
    BY <1>1, RetiredIs, NewGrantIs, KidParts
  <2>2. StartRefresh(Retired, child, kid.grant + 1)
    BY <1>2, <2>1 DEF RefreshFor
  <2>3. PICK t : Started(Retired, t, child, kid.grant + 1)
    BY <2>1, <2>2, StartRefreshIs
  <2> QED BY <1>1, <1>2, <2>3, RetiredIs DEF GrantTasks, Started
<1>3. CASE ~r
  BY <1>3, NoRefreshIs DEF RefreshFor
<1> QED BY <1>2, <1>3

\* What a sign-in leaves in force whatever it writes and starts.
SignInOk ==
  /\ TypeOK
  /\ DownInv /\ ChildInv /\ DiskInv /\ CallInv /\ LockInv /\ FlowInv /\ TaskInv
  /\ RetryInv /\ PostedInv

\* No task but the one a sign-in starts is current after it.
LEMMA OnlyGrantRenews ==
  ASSUME IInv, GrantTasks, child' = child, kid'.grant = kid.grant + 1,
         NEW u \in Task, u # table'
  PROVE  ~Current(u)' /\ ~Renews(u)'
<1>1. task[u].phase # "none" /\ task[u].of = child => task[u].born <= kid.grant
  BY DEF IInv, TaskInv, TaskOk
<1>2. kid \in Kid /\ task[u] \in TaskRec
  BY DEF IInv, TypeOK
<1>3. task[u].born \in Nat /\ kid.grant \in Nat
  BY <1>2, TaskParts, KidParts
<1>4. ~Current(u)'
  BY <1>1, <1>3 DEF GrantTasks, Current, TaskCurrent
<1> QED BY <1>4 DEF Renews, Current

\* A sign-in.
LEMMA SignInKeeps ==
  ASSUME IInv, NEW p \in Caller, CanFinish(p),
         UNCHANGED <<up, issued, server, posted, child, used, removing>>,
         mishaps' \in 0..MaxMishaps,
         flow' = Popped(call[p].flow), exchanging' \in SUBSET Flow,
         exchanging \ {call[p].flow} \subseteq exchanging',
         GrantTasks,
         kid' \in Kid, kid'.grant = kid.grant + 1, ~kid'.rejected,
         kid'.err \in {"none", "child"}, kid'.proc = "down" => kid'.live = None,
         disk' \in Disk, disk'.id = disk.id,
         disk'.header \in {disk.header, call[p].token},
         disk'.file \in {disk.file, None, call[p].token},
         table' # None => disk'.file # None,
         disk'.enabled => disk'.header # None,
         call' \in [Caller -> CallRec], OnlyCall(p),
         \/ call'[p] = NoCall /\ lock' = lock
         \/ /\ call'[p].pc = "teardown" /\ call'[p].job = "callback"
            /\ call'[p].target = child /\ call'[p].flow = call[p].flow
            /\ lock' = [lock EXCEPT ![child] = p]
            /\ disk'.enabled /\ kid'.proc = "down"
  PROVE  SignInOk'
<1>1. /\ kid \in Kid /\ task \in [Task -> TaskRec] /\ table \in Task \cup {None}
      /\ call \in [Caller -> CallRec] /\ lock \in [Child -> Caller \cup {None}]
      /\ server \in [Flow -> Flow \cup {None}] /\ flow \in [Flow -> {"new", "open", "gone"}]
      /\ issued \in [Token -> Origin \cup {None}] /\ posted \subseteq Flow
      /\ used \subseteq Child /\ None \notin Caller \cup Task /\ kid.grant \in Nat
  BY ConstantsAssumption, KidParts DEF IInv, TypeOK
<1>2. /\ up /\ child \in Child /\ child # None /\ lock[child] = None
      /\ call[p].flow \in Flow /\ call[p].flow # None /\ flow[call[p].flow] = "open"
      /\ \A f \in Flow : flow[f] = "open" => f = call[p].flow
      /\ \A q \in Caller : call[q].pc # "teardown"
      /\ call[p].token \in Token /\ call[p].token # None /\ issued[call[p].token] # None
      /\ server[issued[call[p].token].line] = disk.id /\ disk.id # None
  BY CanFinishStands
<1>3. /\ \A f \in Flow : flow'[f] # "open"
      /\ \A f \in Flow : flow[f] # "new" => flow'[f] # "new"
      /\ flow' \in [Flow -> {"new", "open", "gone"}]
  BY <1>1, <1>2 DEF Popped
<1>4. \A u \in Task : Current(u)' <=> u = table'
  <2> SUFFICES ASSUME NEW u \in Task
               PROVE  Current(u)' <=> u = table'
    OBVIOUS
  <2>1. CASE u = table'
    BY <1>1, <1>2, <2>1 DEF GrantTasks, Current, TaskCurrent
  <2>2. CASE u # table'
    BY <2>2, OnlyGrantRenews
  <2> QED BY <2>1, <2>2
<1>5. TypeOK'
  <2>1. lock' \in [Child -> Caller \cup {None}]
    BY <1>1
  <2> QED BY <1>1, <1>2, <1>3, <2>1 DEF IInv, TypeOK, GrantTasks
<1>6. DownInv'
  BY <1>2 DEF DownInv
<1>7. ChildInv'
  BY <1>2 DEF IInv, ChildInv
<1>8. DiskInv'
  BY <1>2 DEF IInv, DiskInv
<1>9. CallInv'
  <2> SUFFICES ASSUME NEW q \in Caller
               PROVE  CallOk(q)'
    BY DEF CallInv
  <2>1. CASE q # p
    <3>1. CallOk(q) /\ call[q] \in CallRec /\ call'[q] = call[q]
      BY <1>1, <2>1 DEF IInv, CallInv, OnlyCall
    <3> QED BY <1>3, <3>1, CallParts DEF CallOk
  <2>2. CASE q = p
    BY <1>2, <1>3, <2>2, Empty DEF CallOk
  <2> QED BY <2>1, <2>2
<1>10. LockInv'
  <2>1. \A q \in Caller : call'[q].pc = "teardown" => q = p
    BY <1>2 DEF OnlyCall
  <2>2. CASE call'[p] = NoCall /\ lock' = lock
    <3>1. \A q \in Caller : call'[q].pc # "teardown"
      BY <2>1, <2>2, Empty
    <3>2. \A c \in Child, q \in Caller : lock[c] # q
      BY <1>2 DEF IInv, LockInv
    <3> QED BY <2>2, <3>1, <3>2 DEF LockInv, Removes
  <2>3. CASE call'[p].pc = "teardown"
    <3>1. /\ call'[p].job = "callback" /\ call'[p].target = child
          /\ call'[p].flow = call[p].flow /\ lock' = [lock EXCEPT ![child] = p]
          /\ disk'.enabled /\ kid'.proc = "down"
      BY <2>3, Empty
    <3>2. \A c \in Child, q \in Caller :
            lock'[c] = q <=> (call'[q].pc = "teardown" /\ call'[q].target = c)
      BY <1>1, <1>2, <2>1, <2>3, <3>1 DEF IInv, LockInv
    <3> QED BY <1>2, <1>3, <2>1, <3>1, <3>2 DEF LockInv, Removes
  <2> QED BY <2>2, <2>3
<1>11. FlowInv'
  <2>1. \A f \in Flow : server[f] # None => flow'[server[f]] # "new"
    BY <1>1, <1>3 DEF IInv, FlowInv
  <2>2. \A n \in Token : issued[n] # None => flow'[issued[n].line] # "new"
    BY <1>1, <1>3 DEF IInv, FlowInv, Origin
  <2> QED BY <1>3, <2>1, <2>2 DEF FlowInv
<1>12. TaskInv'
  <2> SUFFICES ASSUME NEW u \in Task
               PROVE  TaskOk(u)'
    BY DEF TaskInv
  <2>1. TaskOk(u) /\ task[u].born \in Nat
    BY <1>1, TaskParts DEF IInv, TaskInv
  <2>2. CASE u # table'
    <3>1. /\ task'[u].phase = task[u].phase /\ task'[u].of = task[u].of
          /\ task'[u].born = task[u].born /\ task'[u].held = task[u].held
          /\ task'[u].reply = task[u].reply
      BY <2>2 DEF GrantTasks
    <3> QED BY <1>1, <1>4, <2>1, <2>2, <3>1 DEF TaskOk
  <2>3. CASE u = table'
    <3>1. child \in used
      BY <1>2 DEF IInv, ChildInv
    <3>2. /\ task'[u].phase = "sync" /\ task'[u].of = child
          /\ task'[u].born = kid'.grant /\ ~task'[u].cancelled
      BY <1>1, <2>3 DEF GrantTasks
    <3>3. kid'.grant <= kid'.grant
      BY <1>1
    <3> QED BY <1>1, <2>3, <3>1, <3>2, <3>3 DEF TaskOk
  <2> QED BY <2>2, <2>3
<1>13. RetryInv'
  BY DEF RetryInv
<1>14. PostedInv'
  <2> SUFFICES ASSUME ~AnswerMayBeGarbled, NEW f \in posted
               PROVE  flow'[f] # "new"
    BY <1>1, <1>3 DEF PostedInv
  <2> QED BY <1>1, <1>3 DEF IInv, PostedInv
<1> QED BY <1>5, <1>6, <1>7, <1>8, <1>9, <1>10, <1>11, <1>12, <1>13, <1>14 DEF SignInOk

\* The parts a sign-in settles by what it writes and starts.
LEMMA SignInSettles ==
  ASSUME SignInOk', HeaderFollowsFile', NoGrantAbandoned', LiveHeaderCurrent',
         kid'.err \in {"none", "child"}, ~kid'.rejected
  PROVE  IInv'
BY DEF SignInOk, IInv, RejectionVisible

\* The task a sign-in starts renews the new grant.
LEMMA GrantRenews ==
  ASSUME IInv, GrantTasks, child \in Child, child # None, child' = child,
         kid'.grant = kid.grant + 1, table' # None
  PROVE  Renews(table)'
BY DEF GrantTasks, Renews, TaskCurrent

\* A connect: the credentials are written, then the child is enabled and started.
LEMMA FinishConnectKeeps ==
  ASSUME IInv, NEW p \in Caller, FinishConnect(p)
  PROVE  IInv'
<1> DEFINE f == call[p].flow
           n == call[p].token
<1>1. /\ disk \in Disk /\ kid \in Kid /\ call \in [Caller -> CallRec]
/\ exchanging \subseteq Flow
      /\ lock \in [Child -> Caller \cup {None}] /\ TypeOK /\ mishaps \in 0..MaxMishaps
      /\ MaxMishaps \in Nat /\ None \notin Token /\ disk.enabled \in BOOLEAN
  BY ConstantsAssumption, DiskParts DEF IInv, TypeOK
<1>2. CanFinish(p)
  BY DEF FinishConnect
<1>3. /\ up /\ child \in Child /\ child # None /\ lock[child] = None
      /\ call[p].job = "callback" /\ n \in Token /\ n # None
      /\ disk.enabled => disk.header # None
      /\ kid.proc \in {"starting", "up"} => disk.enabled /\ disk.header # None
      /\ kid.live \in {None, disk.header} /\ (kid.proc = "down" => kid.live = None)
      /\ ~IsReauth(f) => disk.header = None /\ disk.file = None /\ kid.proc = "down"
  BY <1>2, CanFinishStands DEF IInv, DiskInv, LiveHeaderCurrent, ChildInv
<1>4. /\ UNCHANGED <<up, issued, server, posted, child, used, removing>>
      /\ flow' = Popped(f) /\ mishaps' \in 0..MaxMishaps
  BY <1>1 DEF FinishConnect, keyVars, Mishap
<1>5. /\ call' \in [Caller -> CallRec] /\ OnlyCall(p) /\ call'[p] = NoCall
      /\ exchanging' = exchanging \ {f} /\ exchanging' \in SUBSET Flow /\ lock' = lock
  BY <1>1, ReturnsIs DEF FinishConnect, CallbackReturns
<1>6. ~IsReauth(f) /\ kid.proc = "down"
  BY <1>3 DEF FinishConnect
<1>7. PICK r \in BOOLEAN :
        /\ RefreshFor(r)
        /\ disk' = EnableWrites(SignInWrites(n, r)[2])[2]
  BY <1>6 DEF FinishConnect
<1>8. GrantTasks /\ (table' # None <=> r)
  BY <1>1, <1>3, <1>7, RefreshForIs
<1>9. DiskIs(disk', disk.id, TRUE, n, IF r THEN n ELSE None)
  BY <1>1, <1>3, <1>7, SignedIn
<1>10. /\ disk' \in Disk /\ disk'.id = disk.id /\ disk'.enabled /\ disk'.header = n
       /\ disk'.file = (IF r THEN n ELSE None)
  BY <1>9 DEF DiskIs
<1>11. kid' = [NewGrant EXCEPT !.proc = "starting"]
  BY <1>6 DEF FinishConnect
<1>12. /\ kid' \in Kid /\ kid'.grant = kid.grant + 1 /\ ~kid'.rejected
       /\ kid'.err \in {"none", "child"} /\ kid'.proc = "starting" /\ kid'.live = None
       /\ ~kid'.unfinished
  <2>1. /\ NewGrant \in Kid /\ NewGrant.grant = kid.grant + 1 /\ ~NewGrant.rejected
        /\ NewGrant.err \in {"none", "child"} /\ NewGrant.live = kid.live
        /\ ~NewGrant.unfinished
    BY <1>1, NewGrantIs
  <2>2. /\ kid' \in Kid /\ kid'.grant = NewGrant.grant /\ kid'.err = NewGrant.err
        /\ kid'.rejected = NewGrant.rejected /\ kid'.proc = "starting"
        /\ kid'.live = NewGrant.live /\ kid'.unfinished = NewGrant.unfinished
    BY <1>11, <2>1, KidProc
  <2> QED BY <1>3, <1>6, <2>1, <2>2
<1>13. SignInOk'
  BY <1>1, <1>2, <1>3, <1>4, <1>5, <1>8, <1>10, <1>12, SignInKeeps
<1>14. /\ HeaderFollowsFile' /\ NoGrantAbandoned' /\ LiveHeaderCurrent'
  <2>1. table' # None => Renews(table)'
    BY <1>3, <1>4, <1>8, <1>12, GrantRenews
  <2> QED BY <1>3, <1>8, <1>10, <1>12, <2>1
          DEF HeaderFollowsFile, NoGrantAbandoned, LiveHeaderCurrent
<1> QED BY <1>12, <1>13, <1>14, SignInSettles

\* The write that enables the connected child fails: it stays stopped, its task runs.
LEMMA EnableFailsKeeps ==
  ASSUME IInv, NEW p \in Caller, EnableFails(p)
  PROVE  IInv'
<1> DEFINE f == call[p].flow
           n == call[p].token
<1>1. /\ disk \in Disk /\ kid \in Kid /\ call \in [Caller -> CallRec]
/\ exchanging \subseteq Flow
      /\ lock \in [Child -> Caller \cup {None}] /\ TypeOK /\ mishaps \in 0..MaxMishaps
      /\ MaxMishaps \in Nat /\ None \notin Token /\ disk.enabled \in BOOLEAN
  BY ConstantsAssumption, DiskParts DEF IInv, TypeOK
<1>2. CanFinish(p)
  BY DEF EnableFails
<1>3. /\ up /\ child \in Child /\ child # None /\ lock[child] = None
      /\ call[p].job = "callback" /\ n \in Token /\ n # None
      /\ disk.enabled => disk.header # None
      /\ kid.proc \in {"starting", "up"} => disk.enabled /\ disk.header # None
      /\ kid.live \in {None, disk.header} /\ (kid.proc = "down" => kid.live = None)
      /\ ~IsReauth(f) => disk.header = None /\ disk.file = None /\ kid.proc = "down"
  BY <1>2, CanFinishStands DEF IInv, DiskInv, LiveHeaderCurrent, ChildInv
<1>4. /\ UNCHANGED <<up, issued, server, posted, child, used, removing>>
      /\ flow' = Popped(f) /\ mishaps' \in 0..MaxMishaps
  BY <1>1 DEF EnableFails, keyVars, Mishap
<1>5. /\ call' \in [Caller -> CallRec] /\ OnlyCall(p) /\ call'[p] = NoCall
      /\ exchanging' = exchanging \ {f} /\ exchanging' \in SUBSET Flow /\ lock' = lock
  BY <1>1, ReturnsIs DEF EnableFails, CallbackReturns
<1>6. ~IsReauth(f) /\ kid.proc = "down"
  BY DEF EnableFails
<1>7. PICK r \in BOOLEAN : RefreshFor(r) /\ disk' = SignInWrites(n, r)[2]
  BY DEF EnableFails
<1>8. GrantTasks /\ (table' # None <=> r)
  BY <1>1, <1>3, <1>7, RefreshForIs
<1>9. DiskIs(disk', disk.id, disk.enabled, n, IF r THEN n ELSE None)
  BY <1>1, <1>3, <1>7, SignedIn
<1>10. /\ disk' \in Disk /\ disk'.id = disk.id /\ disk'.header = n
       /\ disk'.file = (IF r THEN n ELSE None)
  BY <1>9 DEF DiskIs
<1>11. kid' = NewGrant
  BY DEF EnableFails
<1>12. /\ kid' \in Kid /\ kid'.grant = kid.grant + 1 /\ ~kid'.rejected
       /\ kid'.err \in {"none", "child"} /\ kid'.proc = "down" /\ kid'.live = None
       /\ ~kid'.unfinished
  BY <1>1, <1>3, <1>6, <1>11, NewGrantIs
<1>13. SignInOk'
  BY <1>1, <1>2, <1>3, <1>4, <1>5, <1>8, <1>10, <1>12, SignInKeeps
<1>14. /\ HeaderFollowsFile' /\ NoGrantAbandoned' /\ LiveHeaderCurrent'
  <2>1. table' # None => Renews(table)'
    BY <1>3, <1>4, <1>8, <1>12, GrantRenews
  <2> QED BY <1>3, <1>8, <1>10, <1>12, <2>1
          DEF HeaderFollowsFile, NoGrantAbandoned, LiveHeaderCurrent
<1> QED BY <1>12, <1>13, <1>14, SignInSettles

\* A write of the sign-in fails: no task is started, and the sign-in says so.
LEMMA FinishFailsKeeps ==
  ASSUME IInv, NEW p \in Caller, FinishFails(p)
  PROVE  IInv'
<1> DEFINE f == call[p].flow
           n == call[p].token
<1>1. /\ disk \in Disk /\ kid \in Kid /\ call \in [Caller -> CallRec]
/\ exchanging \subseteq Flow
      /\ lock \in [Child -> Caller \cup {None}] /\ TypeOK /\ mishaps \in 0..MaxMishaps
      /\ MaxMishaps \in Nat /\ None \notin Token /\ disk.enabled \in BOOLEAN
  BY ConstantsAssumption, DiskParts DEF IInv, TypeOK
<1>2. CanFinish(p)
  BY DEF FinishFails
<1>3. /\ up /\ child \in Child /\ child # None /\ lock[child] = None
      /\ call[p].job = "callback" /\ n \in Token /\ n # None
      /\ disk.enabled => disk.header # None
      /\ kid.proc \in {"starting", "up"} => disk.enabled /\ disk.header # None
      /\ kid.live \in {None, disk.header} /\ (kid.proc = "down" => kid.live = None)
      /\ ~IsReauth(f) => disk.header = None /\ disk.file = None /\ kid.proc = "down"
  BY <1>2, CanFinishStands DEF IInv, DiskInv, LiveHeaderCurrent, ChildInv
<1>4. /\ UNCHANGED <<up, issued, server, posted, child, used, removing>>
      /\ flow' = Popped(f) /\ mishaps' \in 0..MaxMishaps
  BY <1>1 DEF FinishFails, keyVars, Mishap
<1>5. /\ call' \in [Caller -> CallRec] /\ OnlyCall(p) /\ call'[p] = NoCall
      /\ exchanging' = exchanging \ {f} /\ exchanging' \in SUBSET Flow /\ lock' = lock
  BY <1>1, ReturnsIs DEF FinishFails, CallbackReturns
<1>6. NoRefresh(Retired)
  BY DEF FinishFails
<1>7. PICK r \in BOOLEAN : disk' \in CutShort(SignInWrites(n, r))
  BY DEF FinishFails
<1>8. GrantTasks /\ table' = None
  BY <1>1, <1>6, NoRefreshIs
<1>9. disk' = disk \/ DiskIs(disk', disk.id, disk.enabled, disk.header, IF r THEN n ELSE None)
  BY <1>1, <1>3, <1>7, SignedIn
<1>10. /\ disk' \in Disk /\ disk'.id = disk.id /\ disk'.enabled = disk.enabled
       /\ disk'.header = disk.header /\ disk'.file \in {disk.file, None, n}
  BY <1>1, <1>9 DEF DiskIs
<1>11. kid' = [NewGrant EXCEPT !.unfinished = TRUE]
  BY DEF FinishFails
<1>12. /\ kid' \in Kid /\ kid'.grant = kid.grant + 1 /\ ~kid'.rejected
       /\ kid'.err \in {"none", "child"} /\ kid'.proc = kid.proc /\ kid'.live = kid.live
       /\ kid'.unfinished
  <2>1. /\ NewGrant \in Kid /\ NewGrant.grant = kid.grant + 1 /\ ~NewGrant.rejected
        /\ NewGrant.err \in {"none", "child"} /\ NewGrant.live = kid.live
        /\ NewGrant.proc = kid.proc
    BY <1>1, NewGrantIs
  <2> DEFINE k == NewGrant
  <2> HIDE DEF k
  <2>2. /\ kid' \in Kid /\ kid'.grant = k.grant /\ kid'.err = k.err
        /\ kid'.rejected = k.rejected /\ kid'.proc = k.proc
        /\ kid'.live = k.live /\ kid'.unfinished
    BY <1>11, <2>1 DEF Kid, k
  <2> QED BY <2>1, <2>2 DEF k
<1>13. SignInOk'
  BY <1>1, <1>2, <1>3, <1>4, <1>5, <1>8, <1>10, <1>12, SignInKeeps
<1>14. /\ HeaderFollowsFile' /\ NoGrantAbandoned' /\ LiveHeaderCurrent'
  <2>1. \A u \in Task : ~Renews(u)'
    <3>1. child' = child /\ \A u \in Task : u # table'
      BY <1>4, <1>8, ConstantsAssumption
    <3> QED BY <1>8, <1>12, <3>1, OnlyGrantRenews
  <2> QED BY <1>3, <1>4, <1>5, <1>10, <1>12, <2>1
          DEF HeaderFollowsFile, NoGrantAbandoned, LiveHeaderCurrent
<1> QED BY <1>12, <1>13, <1>14, SignInSettles

\* A re-authorization: the credentials are written, then an enabled child is stopped
\* to be started again.
LEMMA FinishReauthKeeps ==
  ASSUME IInv, NEW p \in Caller, FinishReauth(p)
  PROVE  IInv'
<1> DEFINE f == call[p].flow
           n == call[p].token
<1>1. /\ disk \in Disk /\ kid \in Kid /\ call \in [Caller -> CallRec]
/\ exchanging \subseteq Flow
      /\ lock \in [Child -> Caller \cup {None}] /\ TypeOK /\ mishaps \in 0..MaxMishaps
      /\ MaxMishaps \in Nat /\ None \notin Token /\ disk.enabled \in BOOLEAN
  BY ConstantsAssumption, DiskParts DEF IInv, TypeOK
<1>2. CanFinish(p)
  BY DEF FinishReauth
<1>3. /\ up /\ child \in Child /\ child # None /\ lock[child] = None
      /\ call[p].job = "callback" /\ n \in Token /\ n # None
      /\ disk.enabled => disk.header # None
      /\ kid.proc \in {"starting", "up"} => disk.enabled /\ disk.header # None
      /\ kid.live \in {None, disk.header} /\ (kid.proc = "down" => kid.live = None)
      /\ ~IsReauth(f) => disk.header = None /\ disk.file = None /\ kid.proc = "down"
  BY <1>2, CanFinishStands DEF IInv, DiskInv, LiveHeaderCurrent, ChildInv
<1>4. /\ UNCHANGED <<up, issued, server, posted, child, used, removing>>
      /\ flow' = Popped(f) /\ mishaps' \in 0..MaxMishaps
  BY <1>1 DEF FinishReauth, keyVars, Mishap
<1>5. /\ call' \in [Caller -> CallRec] /\ OnlyCall(p) /\ exchanging' \in SUBSET Flow
      /\ exchanging \ {f} \subseteq exchanging'
      /\ \/ call'[p] = NoCall /\ lock' = lock
         \/ /\ call'[p].pc = "teardown" /\ call'[p].job = "callback"
            /\ call'[p].target = child /\ call'[p].flow = f
            /\ lock' = [lock EXCEPT ![child] = p] /\ disk.enabled
  <2>1. CASE disk.enabled
    <3> DEFINE r == [call[p] EXCEPT !.pc = "teardown"]
    <3>1. /\ r \in CallRec /\ r.pc = "teardown" /\ r.job = "callback" /\ r.flow = f
          /\ r.target = call[p].target
      BY <1>1, <1>3 DEF CallRec
    <3> HIDE DEF r
    <3>2. /\ call' = [call EXCEPT ![p] = r] /\ lock' = [lock EXCEPT ![child] = p]
          /\ exchanging' = exchanging
      BY <2>1 DEF FinishReauth, r
    <3> QED BY <1>1, <1>2, <2>1, <3>1, <3>2, CanFinishStands DEF OnlyCall
  <2>2. CASE ~disk.enabled
    BY <1>1, <2>2, ReturnsIs DEF FinishReauth, CallbackReturns
  <2> QED BY <2>1, <2>2
<1>7. PICK r \in BOOLEAN : RefreshFor(r) /\ disk' = SignInWrites(n, r)[2]
  BY DEF FinishReauth
<1>8. GrantTasks /\ (table' # None <=> r)
  BY <1>1, <1>3, <1>7, RefreshForIs
<1>9. DiskIs(disk', disk.id, disk.enabled, n, IF r THEN n ELSE None)
  BY <1>1, <1>3, <1>7, SignedIn
<1>10. /\ disk' \in Disk /\ disk'.id = disk.id /\ disk'.header = n
       /\ disk'.enabled = disk.enabled /\ disk'.file = (IF r THEN n ELSE None)
  BY <1>9 DEF DiskIs
<1>11. kid' = Stopped(NewGrant)
  BY DEF FinishReauth
<1>12. /\ kid' \in Kid /\ kid'.grant = kid.grant + 1 /\ ~kid'.rejected
       /\ kid'.err \in {"none", "child"} /\ kid'.proc = "down" /\ kid'.live = None
       /\ ~kid'.unfinished
  BY <1>1, <1>11, NewGrantIs, StoppedIs
<1>13. SignInOk'
  BY <1>1, <1>2, <1>3, <1>4, <1>5, <1>8, <1>10, <1>12, SignInKeeps
<1>14. /\ HeaderFollowsFile' /\ NoGrantAbandoned' /\ LiveHeaderCurrent'
  <2>1. table' # None => Renews(table)'
    BY <1>3, <1>4, <1>8, <1>12, GrantRenews
  <2> QED BY <1>3, <1>8, <1>10, <1>12, <2>1
          DEF HeaderFollowsFile, NoGrantAbandoned, LiveHeaderCurrent
<1> QED BY <1>12, <1>13, <1>14, SignInSettles

\* No flow of a connect is open once the header exists.
LEMMA NoConnectOpen ==
  ASSUME IInv, disk.header # None
  PROVE  \A f \in Flow : flow[f] = "open" => server[f] = disk.id /\ server[f] # f
BY DEF IInv, FlowInv

\* A stopped child that has its token is enabled.
LEMMA EnableKeeps ==
  ASSUME IInv, Enable
  PROVE  IInv'
<1>1. /\ disk \in Disk /\ kid \in Kid /\ task \in [Task -> TaskRec]
      /\ flow \in [Flow -> {"new", "open", "gone"}] /\ call \in [Caller -> CallRec]
      /\ lock \in [Child -> Caller \cup {None}] /\ server \in [Flow -> Flow \cup {None}]
      /\ issued \in [Token -> Origin \cup {None}] /\ child \in Child \cup {None}
      /\ exchanging \subseteq Flow /\ posted \subseteq Flow /\ used \subseteq Child
      /\ None \notin Caller \cup Task \cup Flow \cup Token
  BY ConstantsAssumption DEF IInv, TypeOK
<1>2. /\ UNCHANGED <<up, mishaps, issued, flow, server, exchanging, posted>>
      /\ UNCHANGED <<child, used, removing, lock, table, task, call>>
  BY DEF Enable, flowVars, keyVars
<1>3. /\ up /\ child # None /\ lock[child] = None /\ kid.proc = "down" /\ kid.live = None
      /\ disk.header # None
  BY DEF Enable, IInv, ChildInv
<1>4. DiskIs(disk', disk.id, TRUE, disk.header, disk.file)
  BY <1>1, DiskEdits DEF Enable
<1>5. /\ disk' \in Disk /\ disk'.id = disk.id /\ disk'.enabled /\ disk'.header = disk.header
      /\ disk'.file = disk.file
  BY <1>4 DEF DiskIs
<1>6. /\ kid' \in Kid /\ kid'.grant = kid.grant /\ kid'.rejected = kid.rejected
      /\ kid'.unfinished = kid.unfinished /\ kid'.proc = "starting" /\ kid'.live = None
      /\ kid'.err = kid.err
  BY <1>1, <1>3, KidProc DEF Enable
<1>7. \A q \in Caller : call[q].pc # "teardown"
  BY <1>3, NoTeardown
<1>8. \A u \in Task : (Current(u)' <=> Current(u)) /\ (Renews(u)' <=> Renews(u))
  BY <1>2, <1>6 DEF Current, Renews, TaskCurrent
<1>9. TypeOK'
  BY <1>2, <1>5, <1>6 DEF IInv, TypeOK
<1>10. DownInv'
  BY <1>2, <1>3 DEF DownInv
<1>11. ChildInv'
  BY <1>2, <1>3, <1>5, <1>6 DEF IInv, ChildInv
<1>12. DiskInv'
  BY <1>2, <1>3, <1>5 DEF IInv, DiskInv
<1>13. CallInv'
  BY <1>2 DEF IInv, CallInv, CallOk
<1>14. LockInv'
  BY <1>2, <1>7 DEF IInv, LockInv, Removes
<1>15. FlowInv'
  BY <1>2, <1>3, <1>5, NoConnectOpen DEF IInv, FlowInv
<1>16. TaskInv'
  BY <1>2, <1>5, <1>6, <1>8 DEF IInv, TaskInv, TaskOk
<1>17. RetryInv'
  BY <1>1, <1>2, <1>6, <1>8, ConstantsAssumption DEF IInv, RetryInv, TypeOK
<1>18. PostedInv'
  BY <1>2 DEF IInv, PostedInv
<1>19. HeaderFollowsFile'
  BY <1>2, <1>5, <1>6, <1>8 DEF IInv, HeaderFollowsFile
<1>20. NoGrantAbandoned'
  BY <1>2, <1>5, <1>6, <1>8 DEF IInv, NoGrantAbandoned, TypeOK
<1>21. LiveHeaderCurrent'
  BY <1>3, <1>5, <1>6 DEF LiveHeaderCurrent
<1>22. RejectionVisible'
  BY <1>6 DEF IInv, RejectionVisible
<1> QED BY <1>9, <1>10, <1>11, <1>12, <1>13, <1>14, <1>15, <1>16, <1>17, <1>18, <1>19,
         <1>20, <1>21, <1>22 DEF IInv

\* A start takes the header that the registry holds.
LEMMA BuildTransportKeeps ==
  ASSUME IInv, BuildTransport
  PROVE  IInv'
<1>1. /\ disk \in Disk /\ kid \in Kid /\ task \in [Task -> TaskRec]
      /\ flow \in [Flow -> {"new", "open", "gone"}] /\ call \in [Caller -> CallRec]
      /\ lock \in [Child -> Caller \cup {None}] /\ server \in [Flow -> Flow \cup {None}]
      /\ issued \in [Token -> Origin \cup {None}] /\ child \in Child \cup {None}
      /\ exchanging \subseteq Flow /\ posted \subseteq Flow /\ used \subseteq Child
      /\ None \notin Caller \cup Task \cup Flow \cup Token
  BY ConstantsAssumption DEF IInv, TypeOK
<1>2. /\ UNCHANGED <<up, mishaps, issued, flow, server, exchanging, posted>>
      /\ UNCHANGED <<child, used, removing, lock, table, task, call>> /\ disk' = disk
  BY DEF BuildTransport, flowVars, keyVars
<1>3. /\ up /\ child # None /\ kid.proc = "starting"
  <2>1. up /\ kid.proc = "starting"
    BY DEF BuildTransport
  <2> QED BY <2>1, Empty DEF IInv, ChildInv
<1>4. /\ kid' \in Kid /\ kid'.grant = kid.grant /\ kid'.rejected = kid.rejected
      /\ kid'.unfinished = kid.unfinished /\ kid'.proc = "starting"
      /\ kid'.live = disk.header /\ kid'.err = kid.err
  <2>1. disk.header \in Token \cup {None}
    BY <1>1, DiskParts
  <2>2. kid' = [kid EXCEPT !.live = disk.header]
    BY DEF BuildTransport
  <2> QED BY <1>1, <1>3, <2>1, <2>2, KidLive
<1>5. \A u \in Task : (Current(u)' <=> Current(u)) /\ (Renews(u)' <=> Renews(u))
  BY <1>2, <1>4 DEF Current, Renews, TaskCurrent
<1>6. TypeOK'
  BY <1>2, <1>4 DEF IInv, TypeOK
<1>7. DownInv'
  BY <1>2, <1>3 DEF DownInv
<1>8. ChildInv'
  BY <1>2, <1>3, <1>4 DEF IInv, ChildInv
<1>9. DiskInv'
  BY <1>2 DEF IInv, DiskInv
<1>10. CallInv'
  BY <1>2 DEF IInv, CallInv, CallOk
<1>11. LockInv'
  BY <1>2, <1>3, <1>4 DEF IInv, LockInv, Removes
<1>12. FlowInv'
  BY <1>2, <1>3, <1>4, <1>5 DEF IInv, FlowInv
<1>13. TaskInv'
  BY <1>2, <1>4, <1>5 DEF IInv, TaskInv, TaskOk
<1>14. RetryInv'
  BY <1>1, <1>2, <1>4, <1>5 DEF IInv, RetryInv, TypeOK
<1>15. PostedInv'
  BY <1>2 DEF IInv, PostedInv
<1>16. HeaderFollowsFile'
  BY <1>2, <1>4, <1>5 DEF IInv, HeaderFollowsFile
<1>17. NoGrantAbandoned'
  BY <1>2, <1>4, <1>5 DEF IInv, NoGrantAbandoned, TypeOK
<1>18. LiveHeaderCurrent'
  BY <1>2, <1>3, <1>4 DEF IInv, LiveHeaderCurrent
<1>19. RejectionVisible'
  BY <1>4 DEF IInv, RejectionVisible
<1> QED BY <1>6, <1>7, <1>8, <1>9, <1>10, <1>11, <1>12, <1>13, <1>14, <1>15, <1>16, <1>17,
         <1>18, <1>19 DEF IInv

\* A start ends; what it tells covers a rejection only with an error of its own.
LEMMA StartEndsKeeps ==
  ASSUME IInv, StartEnds
  PROVE  IInv'
<1>1. /\ disk \in Disk /\ kid \in Kid /\ task \in [Task -> TaskRec]
      /\ flow \in [Flow -> {"new", "open", "gone"}] /\ call \in [Caller -> CallRec]
      /\ lock \in [Child -> Caller \cup {None}] /\ server \in [Flow -> Flow \cup {None}]
      /\ issued \in [Token -> Origin \cup {None}] /\ child \in Child \cup {None}
      /\ exchanging \subseteq Flow /\ posted \subseteq Flow /\ used \subseteq Child
      /\ None \notin Caller \cup Task \cup Flow \cup Token
  BY ConstantsAssumption DEF IInv, TypeOK
<1>2. /\ UNCHANGED <<up, mishaps, issued, flow, server, exchanging, posted>>
      /\ UNCHANGED <<child, used, removing, lock, table, task, call>> /\ disk' = disk
  BY DEF StartEnds, flowVars, keyVars
<1>3. /\ up /\ child # None /\ kid.proc = "starting"
  <2>1. up /\ kid.proc = "starting"
    BY DEF StartEnds
  <2> QED BY <2>1, Empty DEF IInv, ChildInv
<1>4. /\ kid' \in Kid /\ kid'.grant = kid.grant /\ kid'.rejected = kid.rejected
      /\ kid'.unfinished = kid.unfinished /\ kid'.live = kid.live
      /\ kid'.proc \in {"up", "failed"}
      /\ kid'.err \in {"none", "rejected", "child"} /\ (kid'.err = "rejected" => kid.rejected)
      /\ (kid.rejected => kid'.err = "rejected" \/ (kid'.err = "child" /\ kid'.proc = "failed"))
  <2>1. CASE kid' = [kid EXCEPT !.proc = "up",
                                 !.err = IF kid.rejected THEN "rejected" ELSE "none"]
    <3> DEFINE e == IF kid.rejected THEN "rejected" ELSE "none"
               k == [kid EXCEPT !.proc = "up", !.err = e]
    <3>1. e \in {"none", "rejected"} /\ (e = "rejected" <=> kid.rejected)
      OBVIOUS
    <3> HIDE DEF e
    <3>2. /\ k \in Kid /\ k.grant = kid.grant /\ k.rejected = kid.rejected
          /\ k.unfinished = kid.unfinished /\ k.live = kid.live /\ k.proc = "up" /\ k.err = e
      BY <1>1, <3>1 DEF Kid
    <3>3. kid' = k
      BY <2>1 DEF e
    <3> QED BY <3>1, <3>2, <3>3
  <2>2. CASE kid' = [kid EXCEPT !.proc = "failed", !.err = "child"]
    BY <1>1, <2>2 DEF Kid
  <2> QED BY <2>1, <2>2 DEF StartEnds
<1>5. \A u \in Task : (Current(u)' <=> Current(u)) /\ (Renews(u)' <=> Renews(u))
  BY <1>2, <1>4 DEF Current, Renews, TaskCurrent
<1>6. TypeOK'
  BY <1>2, <1>4 DEF IInv, TypeOK
<1>7. DownInv'
  BY <1>2, <1>3 DEF DownInv
<1>8. ChildInv'
  BY <1>2, <1>3, <1>4 DEF IInv, ChildInv
<1>9. DiskInv'
  BY <1>2 DEF IInv, DiskInv
<1>10. CallInv'
  BY <1>2 DEF IInv, CallInv, CallOk
<1>11. LockInv'
  BY <1>2, <1>3, <1>4 DEF IInv, LockInv, Removes
<1>12. FlowInv'
  BY <1>2, <1>3, <1>4, <1>5 DEF IInv, FlowInv
<1>13. TaskInv'
  BY <1>2, <1>4, <1>5 DEF IInv, TaskInv, TaskOk
<1>14. RetryInv'
  BY <1>1, <1>2, <1>4, <1>5 DEF IInv, RetryInv, TypeOK
<1>15. PostedInv'
  BY <1>2 DEF IInv, PostedInv
<1>16. HeaderFollowsFile'
  BY <1>2, <1>4, <1>5 DEF IInv, HeaderFollowsFile
<1>17. NoGrantAbandoned'
  BY <1>2, <1>4, <1>5 DEF IInv, NoGrantAbandoned, TypeOK
<1>18. LiveHeaderCurrent'
  BY <1>2, <1>3, <1>4 DEF IInv, LiveHeaderCurrent
<1>19. RejectionVisible'
  BY <1>4 DEF IInv, RejectionVisible
<1> QED BY <1>6, <1>7, <1>8, <1>9, <1>10, <1>11, <1>12, <1>13, <1>14, <1>15, <1>16, <1>17,
         <1>18, <1>19 DEF IInv

\* A probe fails; its error covers a rejection, and the child no longer runs.
LEMMA ProbeFailsKeeps ==
  ASSUME IInv, ProbeFails
  PROVE  IInv'
<1>1. /\ disk \in Disk /\ kid \in Kid /\ task \in [Task -> TaskRec]
      /\ flow \in [Flow -> {"new", "open", "gone"}] /\ call \in [Caller -> CallRec]
      /\ lock \in [Child -> Caller \cup {None}] /\ server \in [Flow -> Flow \cup {None}]
      /\ issued \in [Token -> Origin \cup {None}] /\ child \in Child \cup {None}
      /\ exchanging \subseteq Flow /\ posted \subseteq Flow /\ used \subseteq Child
      /\ None \notin Caller \cup Task \cup Flow \cup Token
  BY ConstantsAssumption DEF IInv, TypeOK
<1>2. /\ UNCHANGED <<up, mishaps, issued, flow, server, exchanging, posted>>
      /\ UNCHANGED <<child, used, removing, lock, table, task, call>> /\ disk' = disk
  BY DEF ProbeFails, flowVars, keyVars
<1>3. /\ up /\ child # None /\ kid.proc = "up"
  <2>1. up /\ kid.proc = "up"
    BY DEF ProbeFails
  <2> QED BY <2>1, Empty DEF IInv, ChildInv
<1>4. /\ kid' \in Kid /\ kid'.grant = kid.grant /\ kid'.rejected = kid.rejected
      /\ kid'.unfinished = kid.unfinished /\ kid'.live = kid.live
      /\ kid'.proc = "failed" /\ kid'.err = "child"
  <2>1. kid' = [kid EXCEPT !.proc = "failed", !.err = "child"]
    BY DEF ProbeFails
  <2> QED BY <1>1, <2>1 DEF Kid
<1>5. \A u \in Task : (Current(u)' <=> Current(u)) /\ (Renews(u)' <=> Renews(u))
  BY <1>2, <1>4 DEF Current, Renews, TaskCurrent
<1>6. TypeOK'
  BY <1>2, <1>4 DEF IInv, TypeOK
<1>7. DownInv'
  BY <1>2, <1>3 DEF DownInv
<1>8. ChildInv'
  BY <1>2, <1>3, <1>4 DEF IInv, ChildInv
<1>9. DiskInv'
  BY <1>2 DEF IInv, DiskInv
<1>10. CallInv'
  BY <1>2 DEF IInv, CallInv, CallOk
<1>11. LockInv'
  BY <1>2, <1>3, <1>4 DEF IInv, LockInv, Removes
<1>12. FlowInv'
  BY <1>2, <1>3, <1>4, <1>5 DEF IInv, FlowInv
<1>13. TaskInv'
  BY <1>2, <1>4, <1>5 DEF IInv, TaskInv, TaskOk
<1>14. RetryInv'
  BY <1>1, <1>2, <1>4, <1>5 DEF IInv, RetryInv, TypeOK
<1>15. PostedInv'
  BY <1>2 DEF IInv, PostedInv
<1>16. HeaderFollowsFile'
  BY <1>2, <1>4, <1>5 DEF IInv, HeaderFollowsFile
<1>17. NoGrantAbandoned'
  BY <1>2, <1>4, <1>5 DEF IInv, NoGrantAbandoned, TypeOK
<1>18. LiveHeaderCurrent'
  BY <1>2, <1>3, <1>4 DEF IInv, LiveHeaderCurrent
<1>19. RejectionVisible'
  BY <1>4 DEF IInv, RejectionVisible
<1> QED BY <1>6, <1>7, <1>8, <1>9, <1>10, <1>11, <1>12, <1>13, <1>14, <1>15, <1>16, <1>17,
         <1>18, <1>19 DEF IInv

\* A flow expires.
LEMMA ExpireKeeps ==
  ASSUME IInv, NEW f \in Flow, Expire(f)
  PROVE  IInv'
<1>1. /\ disk \in Disk /\ kid \in Kid /\ task \in [Task -> TaskRec]
      /\ flow \in [Flow -> {"new", "open", "gone"}] /\ call \in [Caller -> CallRec]
      /\ lock \in [Child -> Caller \cup {None}] /\ server \in [Flow -> Flow \cup {None}]
      /\ issued \in [Token -> Origin \cup {None}] /\ child \in Child \cup {None}
      /\ exchanging \subseteq Flow /\ posted \subseteq Flow /\ used \subseteq Child
      /\ None \notin Caller \cup Task \cup Flow \cup Token
  BY ConstantsAssumption DEF IInv, TypeOK
<1>2. /\ UNCHANGED <<up, disk, mishaps, issued, server, exchanging, posted, child, used>>
      /\ UNCHANGED <<removing, lock, kid, table, task, call>>
  BY DEF Expire, keyVars
<1>3. flow[f] = "open" /\ flow' = [flow EXCEPT ![f] = "gone"]
  BY DEF Expire
<1>4. \A g \in Flow : /\ flow'[g] = "open" => flow[g] = "open"
                      /\ flow'[g] = "new" <=> flow[g] = "new"
  BY <1>1, <1>3
<1>5. \A u \in Task : Current(u)' <=> Current(u)
  BY <1>2 DEF Current, TaskCurrent
<1>6. TypeOK'
  BY <1>1, <1>2, <1>3 DEF IInv, TypeOK
<1>7. DownInv'
  BY <1>2, <1>4 DEF IInv, DownInv
<1>8. ChildInv'
  BY <1>2 DEF IInv, ChildInv
<1>9. DiskInv'
  BY <1>2 DEF IInv, DiskInv
<1>10. CallInv'
  BY <1>1, <1>2, <1>4, CallParts DEF IInv, CallInv, CallOk
<1>11. LockInv'
  <2>1. \A q \in Caller : call[q].pc = "teardown" /\ call[q].job = "callback" =>
          call[q].flow \in Flow
    BY <1>1, CallParts DEF IInv, CallInv, CallOk
  <2> QED BY <1>2, <1>4, <2>1 DEF IInv, LockInv, Removes
<1>12. FlowInv'
  <2>1. \A n \in Token : issued[n] # None => issued[n].line \in Flow
    BY <1>1 DEF Origin
  <2> QED BY <1>1, <1>2, <1>4, <1>5, <2>1 DEF IInv, FlowInv
<1>13. TaskInv'
  BY <1>2, <1>5 DEF IInv, TaskInv, TaskOk
<1>14. RetryInv'
  BY <1>1, <1>2, <1>5, ConstantsAssumption DEF IInv, RetryInv, TypeOK
<1>15. PostedInv'
  BY <1>1, <1>2, <1>4 DEF IInv, PostedInv
<1>16. HeaderFollowsFile'
  BY <1>2 DEF IInv, HeaderFollowsFile, Renews, TaskCurrent
<1>17. NoGrantAbandoned'
  BY <1>2 DEF IInv, NoGrantAbandoned, Renews, TaskCurrent
<1>18. LiveHeaderCurrent'
  BY <1>2 DEF IInv, LiveHeaderCurrent
<1>19. RejectionVisible'
  BY <1>2 DEF IInv, RejectionVisible
<1> QED BY <1>6, <1>7, <1>8, <1>9, <1>10, <1>11, <1>12, <1>13, <1>14, <1>15, <1>16, <1>17,
         <1>18, <1>19 DEF IInv

\* A server that is authorized opens a flow to be authorized again.
LEMMA ReauthorizeKeeps ==
  ASSUME IInv, NEW f \in Flow, Reauthorize(f)
  PROVE  IInv'
<1>1. /\ disk \in Disk /\ kid \in Kid /\ task \in [Task -> TaskRec]
      /\ flow \in [Flow -> {"new", "open", "gone"}] /\ call \in [Caller -> CallRec]
      /\ lock \in [Child -> Caller \cup {None}] /\ server \in [Flow -> Flow \cup {None}]
      /\ issued \in [Token -> Origin \cup {None}] /\ child \in Child \cup {None}
      /\ exchanging \subseteq Flow /\ posted \subseteq Flow /\ used \subseteq Child
      /\ None \notin Caller \cup Task \cup Flow \cup Token
  BY ConstantsAssumption DEF IInv, TypeOK
<1>2. /\ UNCHANGED <<up, disk, mishaps, issued, exchanging, posted, child, used>>
      /\ UNCHANGED <<removing, lock, kid, table, task, call>>
  BY DEF Reauthorize, keyVars
<1>3. /\ up /\ child # None /\ flow[f] = "new" /\ disk.header # None
      /\ disk.id # None /\ disk.id \in Flow /\ \A g \in Flow : flow[g] # "open"
      /\ flow' = [flow EXCEPT ![f] = "open"]
      /\ server' = [server EXCEPT ![f] = disk.id]
  BY <1>1, DiskParts DEF Reauthorize, IInv, ChildInv
<1>4. flow[disk.id] # "new" /\ disk.id # f
  <2>1. /\ disk.header \in Token /\ issued[disk.header] # None
        /\ server[issued[disk.header].line] = disk.id
    BY <1>1, <1>3, DiskParts DEF IInv, DiskInv
  <2>2. issued[disk.header].line \in Flow
    BY <1>1, <2>1 DEF Origin
  <2> QED BY <1>1, <1>3, <2>1, <2>2 DEF IInv, FlowInv
<1>5. \A g \in Flow : /\ g # f => flow'[g] = flow[g] /\ server'[g] = server[g]
                      /\ flow[g] # "new" => flow'[g] # "new"
  BY <1>1, <1>3
<1>6. flow'[f] = "open" /\ server'[f] = disk.id
  BY <1>1, <1>3
<1>7. \A n \in Token : issued[n] # None => issued[n].line \in Flow /\ issued[n].line # f
  BY <1>1, <1>3 DEF IInv, FlowInv, Origin
<1>8. \A u \in Task : Current(u)' <=> Current(u)
  BY <1>2 DEF Current, TaskCurrent
<1>9. TypeOK'
  BY <1>1, <1>2, <1>3 DEF IInv, TypeOK
<1>10. DownInv'
  BY <1>2, <1>3 DEF DownInv
<1>11. ChildInv'
  BY <1>2 DEF IInv, ChildInv
<1>12. DiskInv'
  BY <1>1, <1>2, <1>5, <1>7, DiskParts DEF IInv, DiskInv
<1>13. CallInv'
  BY <1>1, <1>2, <1>5, CallParts DEF IInv, CallInv, CallOk
<1>14. LockInv'
  <2>1. \A q \in Caller : call[q].pc = "teardown" /\ call[q].job = "callback" =>
          call[q].flow \in Flow /\ call[q].flow # f
    BY <1>1, <1>3, CallParts DEF IInv, CallInv, CallOk
  <2> QED BY <1>2, <1>5, <2>1 DEF IInv, LockInv, Removes
<1>15. FlowInv'
  <2>1. \A g \in Flow : server'[g] # None => flow'[server'[g]] # "new"
    BY <1>1, <1>3, <1>4, <1>5, <1>6 DEF IInv, FlowInv
  <2>2. \A n \in Token : issued[n] # None => flow'[issued[n].line] # "new"
    BY <1>5, <1>7 DEF IInv, FlowInv
  <2>3. \A g \in Flow : flow'[g] = "open" => g = f
    BY <1>3, <1>5
  <2> QED BY <1>2, <1>3, <1>4, <1>6, <2>1, <2>2, <2>3 DEF FlowInv
<1>16. TaskInv'
  BY <1>2, <1>8 DEF IInv, TaskInv, TaskOk
<1>17. RetryInv'
  BY <1>1, <1>2, <1>8, ConstantsAssumption DEF IInv, RetryInv, TypeOK
<1>18. PostedInv'
  BY <1>1, <1>2, <1>3, <1>5 DEF IInv, PostedInv
<1>19. HeaderFollowsFile'
  BY <1>2 DEF IInv, HeaderFollowsFile, Renews, TaskCurrent
<1>20. NoGrantAbandoned'
  BY <1>2 DEF IInv, NoGrantAbandoned, Renews, TaskCurrent
<1>21. LiveHeaderCurrent'
  BY <1>2 DEF IInv, LiveHeaderCurrent
<1>22. RejectionVisible'
  BY <1>2 DEF IInv, RejectionVisible
<1> QED BY <1>9, <1>10, <1>11, <1>12, <1>13, <1>14, <1>15, <1>16, <1>17, <1>18, <1>19,
         <1>20, <1>21, <1>22 DEF IInv

\* A server is added: bare, stopped, and with its own flow.
LEMMA ConnectKeeps ==
  ASSUME IInv, NEW f \in Flow, Connect(f)
  PROVE  IInv'
<1>1. /\ disk \in Disk /\ kid \in Kid /\ task \in [Task -> TaskRec]
      /\ flow \in [Flow -> {"new", "open", "gone"}] /\ call \in [Caller -> CallRec]
      /\ lock \in [Child -> Caller \cup {None}] /\ server \in [Flow -> Flow \cup {None}]
      /\ issued \in [Token -> Origin \cup {None}] /\ child \in Child \cup {None}
      /\ exchanging \subseteq Flow /\ posted \subseteq Flow /\ used \subseteq Child
      /\ None \notin Caller \cup Task \cup Flow \cup Token
  BY ConstantsAssumption DEF IInv, TypeOK
<1>2. /\ UNCHANGED <<up, mishaps, issued, exchanging, posted, removing, lock>>
      /\ UNCHANGED <<table, task, call>>
  BY DEF Connect
<1>3. /\ up /\ child = None /\ ~removing /\ disk.id = None /\ flow[f] = "new"
      /\ disk' = AddWrites(f)[2] /\ kid' = NewKid /\ kid = NewKid
      /\ flow' = [flow EXCEPT ![f] = "open"]
      /\ server' = [server EXCEPT ![f] = f]
  BY DEF Connect, CanConnect, IInv, ChildInv
<1>4. PICK c \in Child : c \notin used /\ child' = c /\ used' = used \cup {c}
  BY DEF Connect
<1>5. /\ disk' \in Disk /\ disk'.id = f /\ ~disk'.enabled /\ disk'.header = None
      /\ disk'.file = None
  BY <1>1, <1>3, Listed DEF DiskIs
<1>6. /\ flow'[f] = "open" /\ server'[f] = f
      /\ \A g \in Flow : /\ g # f => flow'[g] = flow[g] /\ server'[g] = server[g]
                         /\ flow[g] # "new" => flow'[g] # "new"
  BY <1>1, <1>3
<1>7. \A g \in Flow : flow'[g] = "open" => g = f
  BY <1>3, <1>6 DEF IInv, FlowInv
<1>8. \A q \in Caller : call[q].pc # "teardown"
  <2> SUFFICES ASSUME NEW q \in Caller, call[q].pc = "teardown"
               PROVE  FALSE
    OBVIOUS
  <2>1. call[q].target # None
    BY DEF IInv, CallInv, CallOk
  <2> QED BY <1>3, <2>1 DEF IInv, LockInv
<1>9. child' # None /\ \A u \in Task : ~Current(u)'
  <2>1. child' # None
    BY <1>4, ConstantsAssumption
  <2>2. \A u \in Task : task[u].phase # "none" => task[u].of # child'
    BY <1>4 DEF IInv, TaskInv, TaskOk
  <2> QED BY <1>2, <2>1, <2>2 DEF Current, TaskCurrent
<1>10. TypeOK'
  BY <1>1, <1>2, <1>3, <1>4, <1>5, Empty DEF IInv, TypeOK
<1>11. DownInv'
  BY <1>2, <1>3 DEF DownInv
<1>12. ChildInv'
  BY <1>1, <1>3, <1>4, <1>5, <1>9, Empty DEF ChildInv
<1>13. DiskInv'
  BY <1>5 DEF DiskInv
<1>14. CallInv'
  BY <1>1, <1>2, <1>6, CallParts DEF IInv, CallInv, CallOk
<1>15. LockInv'
  BY <1>2, <1>8 DEF IInv, LockInv, Removes
<1>16. FlowInv'
  <2>1. \A g \in Flow : server'[g] # None => flow'[server'[g]] # "new"
    BY <1>1, <1>6 DEF IInv, FlowInv
  <2>2. \A n \in Token : issued[n] # None => flow'[issued[n].line] # "new"
    BY <1>1, <1>6 DEF IInv, FlowInv, Origin
  <2> QED BY <1>2, <1>3, <1>5, <1>6, <1>7, <1>9, <2>1, <2>2, Empty DEF FlowInv
<1>17. TaskInv'
  BY <1>2, <1>3, <1>4, <1>9 DEF IInv, TaskInv, TaskOk
<1>18. RetryInv'
  BY <1>3, Empty DEF RetryInv
<1>19. PostedInv'
  BY <1>1, <1>2, <1>3, <1>6 DEF IInv, PostedInv
<1>20. HeaderFollowsFile'
  BY <1>5 DEF HeaderFollowsFile
<1>21. NoGrantAbandoned'
  BY <1>3, <1>5, Empty DEF NoGrantAbandoned
<1>22. LiveHeaderCurrent'
  BY <1>3, Empty DEF LiveHeaderCurrent
<1>23. RejectionVisible'
  BY <1>3, Empty DEF RejectionVisible
<1> QED BY <1>10, <1>11, <1>12, <1>13, <1>14, <1>15, <1>16, <1>17, <1>18, <1>19, <1>20,
         <1>21, <1>22, <1>23 DEF IInv

\* An operation that takes the lock finds its child and no teardown.
LEMMA TakesStands ==
  ASSUME IInv, NEW p \in Caller, NEW j \in {"remove", "disable"}, Takes(p, j)
  PROVE  /\ up /\ child \in Child /\ child # None /\ lock[child] = None
         /\ \A q \in Caller : call[q].pc # "teardown"
         /\ \A c \in Child, q \in Caller : lock[c] # q
<1>1. child # None /\ lock[child] = None
  BY DEF Takes, AtLock, StillCurrent, IInv, CallInv, CallOk
<1>2. up /\ child \in Child
  BY <1>1 DEF IInv, TypeOK, DownInv
<1>3. \A q \in Caller : call[q].pc # "teardown"
  BY <1>1, NoTeardown
<1>4. \A c \in Child, q \in Caller : lock[c] # q
  BY <1>3 DEF IInv, LockInv
<1> QED BY <1>1, <1>2, <1>3, <1>4

\* A removal: nothing of the server is left, but the lock of its child.
LEMMA RemoveKeeps ==
  ASSUME IInv, NEW p \in Caller, Remove(p)
  PROVE  IInv'
<1>1. /\ disk \in Disk /\ kid \in Kid /\ task \in [Task -> TaskRec]
      /\ flow \in [Flow -> {"new", "open", "gone"}] /\ call \in [Caller -> CallRec]
      /\ lock \in [Child -> Caller \cup {None}] /\ server \in [Flow -> Flow \cup {None}]
      /\ issued \in [Token -> Origin \cup {None}] /\ child \in Child \cup {None}
      /\ exchanging \subseteq Flow /\ posted \subseteq Flow /\ used \subseteq Child
      /\ None \notin Caller \cup Task \cup Flow \cup Token
      /\ table \in Task \cup {None}
  BY ConstantsAssumption DEF IInv, TypeOK
<1>2. /\ UNCHANGED <<up, mishaps, issued, server, posted, used>>
      /\ removing' /\ removing' \in BOOLEAN
      /\ flow' = FlowsDiscarded /\ exchanging' = exchanging \ {f \in Flow : flow[f] = "open"}
      /\ child' = None /\ kid' = NewKid /\ task' = Retired /\ table' = None
  BY DEF Remove, NoRefresh
<1>3. /\ up /\ child \in Child /\ child # None
      /\ \A q \in Caller : call[q].pc # "teardown"
      /\ \A c \in Child, q \in Caller : lock[c] # q
  BY TakesStands DEF Remove
<1>4. /\ disk' \in Disk /\ disk'.id = None /\ ~disk'.enabled /\ disk'.header = None
      /\ disk'.file = None
  BY <1>1, Unlisted DEF Remove, DiskIs
<1>5. /\ call' \in [Caller -> CallRec] /\ OnlyCall(p)
      /\ call'[p].job = "remove" /\ call'[p].pc = "teardown" /\ call'[p].target = child
      /\ lock' \in [Child -> Caller \cup {None}] /\ lock'[child] = p
      /\ \A c \in Child : c # child => lock'[c] = lock[c]
  BY <1>1, <1>3, TearsDownIs DEF Remove
<1>6. /\ flow' \in [Flow -> {"new", "open", "gone"}]
      /\ \A f \in Flow : flow'[f] # "open" /\ (flow[f] # "new" => flow'[f] # "new")
  BY <1>1, <1>2 DEF FlowsDiscarded
<1>7. /\ task' \in [Task -> TaskRec]
      /\ \A u \in Task :
           /\ task'[u].phase = task[u].phase /\ task'[u].of = task[u].of
           /\ task'[u].born = task[u].born /\ task'[u].held = task[u].held
           /\ task'[u].reply = task[u].reply /\ ~Current(u)'
  BY <1>1, <1>2, RetiredIs DEF Current, TaskCurrent
<1>8. TypeOK'
  BY <1>1, <1>2, <1>4, <1>5, <1>6, <1>7, Empty DEF IInv, TypeOK
<1>9. DownInv'
  BY <1>2, <1>3 DEF DownInv
<1>10. ChildInv'
  BY <1>2, <1>4, Empty DEF ChildInv
<1>11. DiskInv'
  BY <1>4 DEF DiskInv
<1>12. CallInv'
  <2> SUFFICES ASSUME NEW q \in Caller
               PROVE  CallOk(q)'
    BY DEF CallInv
  <2>1. CASE q # p
    <3>1. CallOk(q) /\ call[q] \in CallRec /\ call'[q] = call[q]
      BY <1>1, <1>5, <2>1 DEF IInv, CallInv, OnlyCall
    <3> QED BY <1>2, <1>6, <3>1, CallParts DEF CallOk
  <2>2. CASE q = p
    BY <1>3, <1>5, <2>2, Empty DEF CallOk
  <2> QED BY <2>1, <2>2
<1>13. LockInv'
  <2>1. \A q \in Caller : call'[q].pc = "teardown" => q = p
    BY <1>3, <1>5 DEF OnlyCall
  <2>2. \A c \in Child, q \in Caller :
          lock'[c] = q <=> (call'[q].pc = "teardown" /\ call'[q].target = c)
    BY <1>3, <1>5, <2>1
  <2> QED BY <1>2, <1>5, <2>1, <2>2 DEF LockInv, Removes
<1>14. FlowInv'
  <2>1. \A f \in Flow : server[f] # None => flow'[server[f]] # "new"
    BY <1>1, <1>6 DEF IInv, FlowInv
  <2>2. \A n \in Token : issued[n] # None => flow'[issued[n].line] # "new"
    BY <1>1, <1>6 DEF IInv, FlowInv, Origin
  <2> QED BY <1>2, <1>6, <2>1, <2>2 DEF FlowInv
<1>15. TaskInv'
  <2>1. child \notin {None} /\ None \notin used
    BY <1>1, <1>3, ConstantsAssumption
  <2> QED BY <1>2, <1>7, <2>1 DEF IInv, TaskInv, TaskOk
<1>16. RetryInv'
  BY <1>2, Empty DEF RetryInv
<1>17. PostedInv'
  BY <1>1, <1>2, <1>6 DEF IInv, PostedInv
<1>18. HeaderFollowsFile'
  BY <1>4 DEF HeaderFollowsFile
<1>19. NoGrantAbandoned'
  BY <1>2, <1>4, Empty DEF NoGrantAbandoned
<1>20. LiveHeaderCurrent'
  BY <1>2 DEF LiveHeaderCurrent
<1>21. RejectionVisible'
  BY <1>2, Empty DEF RejectionVisible
<1> QED BY <1>8, <1>9, <1>10, <1>11, <1>12, <1>13, <1>14, <1>15, <1>16, <1>17, <1>18,
         <1>19, <1>20, <1>21 DEF IInv

\* A disable stops the child and keeps its grant.
LEMMA DisableKeeps ==
  ASSUME IInv, NEW p \in Caller, Disable(p)
  PROVE  IInv'
<1>1. /\ disk \in Disk /\ kid \in Kid /\ task \in [Task -> TaskRec]
      /\ flow \in [Flow -> {"new", "open", "gone"}] /\ call \in [Caller -> CallRec]
      /\ lock \in [Child -> Caller \cup {None}] /\ server \in [Flow -> Flow \cup {None}]
      /\ issued \in [Token -> Origin \cup {None}] /\ child \in Child \cup {None}
      /\ exchanging \subseteq Flow /\ posted \subseteq Flow /\ used \subseteq Child
      /\ None \notin Caller \cup Task \cup Flow \cup Token
  BY ConstantsAssumption DEF IInv, TypeOK
<1>2. /\ UNCHANGED <<up, mishaps, issued, flow, server, exchanging, posted, child, used>>
      /\ UNCHANGED <<removing, table, task>>
  BY DEF Disable, flowVars, keyVars
<1>3. /\ up /\ child \in Child /\ child # None
      /\ \A q \in Caller : call[q].pc # "teardown"
      /\ \A c \in Child, q \in Caller : lock[c] # q
  BY TakesStands DEF Disable
<1>4. /\ disk' \in Disk /\ disk'.id = disk.id /\ ~disk'.enabled /\ disk'.header = disk.header
      /\ disk'.file = disk.file
  <2>1. DiskIs(disk', disk.id, FALSE, disk.header, disk.file)
    BY <1>1, DiskEdits DEF Disable
  <2> QED BY <2>1 DEF DiskIs
<1>5. /\ kid' \in Kid /\ kid'.grant = kid.grant /\ kid'.rejected = kid.rejected
      /\ kid'.unfinished = kid.unfinished /\ kid'.proc = "down" /\ kid'.live = None
      /\ kid'.err = kid.err
  BY <1>1, StoppedIs DEF Disable
<1>6. /\ call' \in [Caller -> CallRec] /\ OnlyCall(p)
      /\ call'[p].job = "disable" /\ call'[p].pc = "teardown" /\ call'[p].target = child
      /\ lock' \in [Child -> Caller \cup {None}] /\ lock'[child] = p
      /\ \A c \in Child : c # child => lock'[c] = lock[c]
  BY <1>1, <1>3, TearsDownIs DEF Disable
<1>7. \A u \in Task : (Current(u)' <=> Current(u)) /\ (Renews(u)' <=> Renews(u))
  BY <1>2, <1>5 DEF Current, Renews, TaskCurrent
<1>8. TypeOK'
  BY <1>2, <1>4, <1>5, <1>6 DEF IInv, TypeOK
<1>9. DownInv'
  BY <1>2, <1>3 DEF DownInv
<1>10. ChildInv'
  BY <1>2, <1>3, <1>4, <1>5 DEF IInv, ChildInv
<1>11. DiskInv'
  BY <1>2, <1>4 DEF IInv, DiskInv
<1>12. CallInv'
  <2> SUFFICES ASSUME NEW q \in Caller
               PROVE  CallOk(q)'
    BY DEF CallInv
  <2>1. CASE q # p
    <3>1. CallOk(q) /\ call[q] \in CallRec /\ call'[q] = call[q]
      BY <1>1, <1>6, <2>1 DEF IInv, CallInv, OnlyCall
    <3> QED BY <1>2, <3>1, CallParts DEF CallOk
  <2>2. CASE q = p
    BY <1>3, <1>6, <2>2, Empty DEF CallOk
  <2> QED BY <2>1, <2>2
<1>13. LockInv'
  <2>1. \A q \in Caller : call'[q].pc = "teardown" => q = p
    BY <1>3, <1>6 DEF OnlyCall
  <2>2. \A c \in Child, q \in Caller :
          lock'[c] = q <=> (call'[q].pc = "teardown" /\ call'[q].target = c)
    BY <1>3, <1>6, <2>1
  <2> QED BY <1>2, <1>5, <1>6, <2>1, <2>2 DEF LockInv, Removes
<1>14. FlowInv'
  BY <1>2, <1>4, <1>5, <1>7 DEF IInv, FlowInv
<1>15. TaskInv'
  BY <1>2, <1>4, <1>5, <1>7 DEF IInv, TaskInv, TaskOk
<1>16. RetryInv'
  BY <1>1, <1>2, <1>5, <1>7, ConstantsAssumption DEF IInv, RetryInv, TypeOK
<1>17. PostedInv'
  BY <1>2 DEF IInv, PostedInv
<1>18. HeaderFollowsFile'
  BY <1>2, <1>4, <1>5, <1>7 DEF IInv, HeaderFollowsFile
<1>19. NoGrantAbandoned'
  BY <1>2, <1>4, <1>5, <1>7 DEF IInv, NoGrantAbandoned, TypeOK
<1>20. LiveHeaderCurrent'
  BY <1>5 DEF LiveHeaderCurrent
<1>21. RejectionVisible'
  BY <1>5 DEF IInv, RejectionVisible
<1> QED BY <1>8, <1>9, <1>10, <1>11, <1>12, <1>13, <1>14, <1>15, <1>16, <1>17, <1>18,
         <1>19, <1>20, <1>21 DEF IInv

\* A teardown ends: the lock is free, and a re-authorized child starts.
LEMMA FinishTeardownKeeps ==
  ASSUME IInv, NEW p \in Caller, FinishTeardown(p)
  PROVE  IInv'
<1>1. /\ disk \in Disk /\ kid \in Kid /\ task \in [Task -> TaskRec]
      /\ flow \in [Flow -> {"new", "open", "gone"}] /\ call \in [Caller -> CallRec]
      /\ lock \in [Child -> Caller \cup {None}] /\ server \in [Flow -> Flow \cup {None}]
      /\ issued \in [Token -> Origin \cup {None}] /\ child \in Child \cup {None}
      /\ exchanging \subseteq Flow /\ posted \subseteq Flow /\ used \subseteq Child
      /\ None \notin Caller \cup Task \cup Flow \cup Token
  BY ConstantsAssumption DEF IInv, TypeOK
<1>2. /\ UNCHANGED <<up, mishaps, issued, flow, server, posted, child, used>>
      /\ UNCHANGED <<table, task>>
      /\ call[p].pc = "teardown" /\ up /\ call[p].target \in Child
      /\ lock' = [lock EXCEPT ![call[p].target] = None]
  <2>1. call[p].pc = "teardown" /\ call[p].target # None
    BY DEF FinishTeardown, IInv, CallInv, CallOk
  <2> QED BY <1>1, <2>1, CallParts, Empty DEF FinishTeardown, IInv, DownInv
<1>3. /\ call' \in [Caller -> CallRec] /\ OnlyCall(p) /\ call'[p] = NoCall
      /\ exchanging' = IF call[p].job = "callback" THEN exchanging \ {call[p].flow}
                       ELSE exchanging
  BY <1>1, ReturnsIs DEF FinishTeardown, CallbackReturns
<1>4. /\ lock[call[p].target] = p
      /\ \A q \in Caller : call[q].pc = "teardown" /\ q # p => call[q].target # call[p].target
  BY <1>1, <1>2 DEF IInv, LockInv
<1>5. call[p].job = "remove" =>
        /\ child = None /\ kid = NewKid /\ disk.id = None /\ disk.file = None /\ kid' = kid
        /\ ~removing' /\ removing' \in BOOLEAN
        /\ \A q \in Caller : call[q].pc = "teardown" => q = p
  <2> SUFFICES ASSUME call[p].job = "remove"
               PROVE  /\ child = None /\ kid = NewKid /\ disk.id = None /\ disk.file = None
                      /\ kid' = kid /\ ~removing' /\ removing' \in BOOLEAN
                      /\ \A q \in Caller : call[q].pc = "teardown" => q = p
    OBVIOUS
  <2>1. child = None /\ kid' = kid /\ ~removing' /\ removing' \in BOOLEAN
    BY <1>2 DEF IInv, LockInv, FinishTeardown
  <2>2. kid = NewKid /\ disk.id = None /\ disk.file = None
    BY <1>2, <2>1 DEF IInv, ChildInv
  <2>3. ASSUME NEW q \in Caller, call[q].pc = "teardown"
        PROVE  q = p
    <3>1. call[q].target # None
      BY <2>3 DEF IInv, CallInv, CallOk
    <3>2. call[q].job = "remove"
      BY <2>1, <2>3, <3>1 DEF IInv, LockInv
    <3>3. Removes(q) /\ Removes(p)
      BY <1>2, <2>3, <3>2 DEF Removes
    <3> QED BY <3>3 DEF IInv, LockInv
  <2> QED BY <2>1, <2>2, <2>3
<1>6. disk' \in Disk /\ disk' = disk
  <2>1. CASE call[p].job = "remove"
    <3>1. disk' = [disk EXCEPT !.file = None] /\ disk.file = None
      BY <1>5, <2>1 DEF FinishTeardown
    <3> QED BY <1>1, <3>1 DEF Disk
  <2>2. CASE call[p].job # "remove"
    BY <1>1, <2>2 DEF FinishTeardown
  <2> QED BY <2>1, <2>2
<1>7. call[p].job # "remove" =>
        /\ child = call[p].target /\ child # None /\ kid.proc = "down" /\ kid.live = None
        /\ removing' = removing
        /\ kid' \in Kid /\ kid'.grant = kid.grant /\ kid'.rejected = kid.rejected
        /\ kid'.unfinished = kid.unfinished /\ kid'.live = None /\ kid'.err = kid.err
        /\ \/ kid'.proc = "down"
           \/ kid'.proc = "starting" /\ disk.enabled /\ disk.header # None
        /\ \A q \in Caller : call[q].pc = "teardown" => q = p
  <2> SUFFICES ASSUME call[p].job # "remove"
               PROVE  /\ child = call[p].target /\ child # None /\ kid.proc = "down"
                      /\ kid.live = None /\ removing' = removing
                      /\ kid' \in Kid /\ kid'.grant = kid.grant /\ kid'.rejected = kid.rejected
                      /\ kid'.unfinished = kid.unfinished /\ kid'.live = None
                      /\ kid'.err = kid.err
                      /\ \/ kid'.proc = "down"
                         \/ kid'.proc = "starting" /\ disk.enabled /\ disk.header # None
                      /\ \A q \in Caller : call[q].pc = "teardown" => q = p
    OBVIOUS
  <2>1. child = call[p].target /\ kid.proc = "down" /\ kid.live = None /\ child # None
    BY <1>2, ConstantsAssumption DEF IInv, LockInv, ChildInv
  <2>2. \A q \in Caller : call[q].pc = "teardown" => q = p
    BY <1>4, <2>1 DEF IInv, LockInv
  <2>3. CASE call[p].job = "disable"
    BY <1>1, <2>1, <2>2, <2>3 DEF FinishTeardown
  <2>4. CASE call[p].job # "disable"
    <3>1. call[p].job = "callback"
      BY <1>1, <1>2, <2>4, CallParts DEF IInv, CallInv, CallOk
    <3>2. disk.enabled /\ disk.header # None
      BY <1>2, <3>1 DEF IInv, LockInv, DiskInv
    <3>3. kid' = [kid EXCEPT !.proc = "starting"] /\ removing' = removing
      BY <3>1 DEF FinishTeardown
    <3> QED BY <1>1, <2>1, <2>2, <3>2, <3>3, KidProc
  <2> QED BY <2>3, <2>4
<1>8. /\ kid' \in Kid /\ kid'.grant = kid.grant /\ kid'.rejected = kid.rejected
      /\ kid'.unfinished = kid.unfinished /\ kid'.live = kid.live /\ kid'.err = kid.err
      /\ removing' \in BOOLEAN
      /\ \A q \in Caller : call'[q].pc # "teardown"
  BY <1>1, <1>3, <1>5, <1>7, Empty DEF OnlyCall, IInv, TypeOK
<1>9. \A u \in Task : (Current(u)' <=> Current(u)) /\ (Renews(u)' <=> Renews(u))
  BY <1>2, <1>8 DEF Current, Renews, TaskCurrent
<1>10. TypeOK'
  BY <1>1, <1>2, <1>3, <1>6, <1>8 DEF IInv, TypeOK
<1>11. DownInv'
  BY <1>2 DEF DownInv
<1>12. ChildInv'
  BY <1>2, <1>5, <1>6, <1>7 DEF IInv, ChildInv
<1>13. DiskInv'
  BY <1>2, <1>6 DEF IInv, DiskInv
<1>14. CallInv'
  <2> SUFFICES ASSUME NEW q \in Caller
               PROVE  CallOk(q)'
    BY DEF CallInv
  <2>1. CASE q # p
    <3>1. CallOk(q) /\ call[q] \in CallRec /\ call'[q] = call[q]
      BY <1>1, <1>3, <2>1 DEF IInv, CallInv, OnlyCall
    <3> QED BY <1>2, <3>1, CallParts DEF CallOk
  <2>2. CASE q = p
    BY <1>3, <2>2, Empty DEF CallOk
  <2> QED BY <2>1, <2>2
<1>15. LockInv'
  <2>1. \A c \in Child, q \in Caller : lock'[c] # q
    <3> SUFFICES ASSUME NEW c \in Child, NEW q \in Caller, lock'[c] = q
                 PROVE  FALSE
      OBVIOUS
    <3>1. c # call[p].target /\ lock[c] = q
      BY <1>1, <1>2
    <3>2. call[q].pc = "teardown" /\ call[q].target = c
      BY <3>1 DEF IInv, LockInv
    <3> QED BY <1>5, <1>7, <3>1, <3>2
  <2> QED BY <1>8, <2>1 DEF LockInv, Removes
<1>16. FlowInv'
  <2>1. kid'.proc = "down" \/ disk.header # None
    BY <1>5, <1>7, Empty
  <2> QED BY <1>2, <1>6, <1>9, <2>1 DEF IInv, FlowInv
<1>17. TaskInv'
  BY <1>2, <1>6, <1>8, <1>9 DEF IInv, TaskInv, TaskOk
<1>18. RetryInv'
  BY <1>1, <1>2, <1>8, <1>9, ConstantsAssumption DEF IInv, RetryInv, TypeOK
<1>19. PostedInv'
  <2>1. call[p].job = "callback" => call[p].flow \in Flow /\ flow[call[p].flow] # "open"
    BY <1>1, <1>2, CallParts DEF IInv, CallInv, CallOk, LockInv
  <2> QED BY <1>2, <1>3, <2>1 DEF IInv, PostedInv
<1>20. HeaderFollowsFile'
  BY <1>2, <1>6, <1>8, <1>9 DEF IInv, HeaderFollowsFile
<1>21. NoGrantAbandoned'
  BY <1>2, <1>6, <1>8, <1>9 DEF IInv, NoGrantAbandoned, TypeOK
<1>22. LiveHeaderCurrent'
  BY <1>2, <1>5, <1>6, <1>7 DEF LiveHeaderCurrent
<1>23. RejectionVisible'
  <2>1. kid'.proc = "up" => kid.proc = "up"
    BY <1>5, <1>7
  <2> QED BY <1>8, <2>1 DEF IInv, RejectionVisible
<1> QED BY <1>10, <1>11, <1>12, <1>13, <1>14, <1>15, <1>16, <1>17, <1>18, <1>19, <1>20,
         <1>21, <1>22, <1>23 DEF IInv

\* What the disk may hold: `DiskInv` of any disk.
Sound(d) ==
  /\ d \in Disk
  /\ d.enabled => d.header # None
  /\ d.header # None => /\ d.id # None /\ issued[d.header] # None
                        /\ server[issued[d.header].line] = d.id
  /\ d.file # None => /\ issued[d.file] # None
                      /\ d.id # None => server[issued[d.file].line] = d.id

\* Where a crash may find the disk.
LEMMA TornIs ==
  ASSUME NEW d \in Torn
  PROVE  \/ d = disk
         \/ \E f \in Flow : CanConnect(f) /\ d \in CutShort(AddWrites(f))
         \/ d \in CutShort(RemoveWrites)
         \/ \E t \in Task : CanApply(t) /\ d \in CutShort(RefreshWrites(task[t].reply))
         \/ \E p \in Caller, r \in BOOLEAN :
              /\ CanFinish(p)
              /\ d \in CutShort(SignInWrites(call[p].token, r))
                         \cup {SignInWrites(call[p].token, r)[2]}
<1> DEFINE A == UNION {CutShort(AddWrites(f)) : f \in {g \in Flow : CanConnect(g)}}
           R == UNION {CutShort(RemoveWrites) : p \in {q \in Caller : Takes(q, "remove")}}
           W == UNION {CutShort(RefreshWrites(task[t].reply)) :
                         t \in {s \in Task : CanApply(s)}}
           S == UNION {CutShort(SignInWrites(call[p].token, r))
                           \cup {SignInWrites(call[p].token, r)[2]} :
                         p \in {q \in Caller : CanFinish(q)}, r \in BOOLEAN}
<1>1. d = disk \/ d \in A \/ d \in R \/ d \in W \/ d \in S
  <2>1. Torn = {disk} \cup A \cup R \cup W \cup S
    BY DEF Torn
  <2> HIDE DEF A, R, W, S
  <2> QED BY <2>1
<1> QED BY <1>1

\* Every state between two writes is sound: a removed record leaves its file, a listed
\* one finds none, and the first file of a grant belongs to the server that is listed.
LEMMA TornIsSound ==
  ASSUME IInv
  PROVE  \A d \in Torn : Sound(d)
<1>1. disk \in Disk /\ Sound(disk)
  BY DEF IInv, TypeOK, DiskInv, Sound
<1>2. ASSUME NEW f \in Flow, CanConnect(f), NEW d \in CutShort(AddWrites(f))
      PROVE  Sound(d)
  <2>1. disk.file = None
    BY <1>2 DEF CanConnect, IInv, ChildInv
  <2>2. d = disk \/ DiskIs(d, f, FALSE, None, None)
    BY <1>1, <1>2, <2>1, Listed
  <2> QED BY <1>1, <2>2 DEF Sound, DiskIs
<1>3. ASSUME NEW d \in CutShort(RemoveWrites)
      PROVE  Sound(d)
  <2>1. d = disk \/ DiskIs(d, None, FALSE, None, disk.file)
    BY <1>1, <1>3, Unlisted
  <2> QED BY <1>1, <2>1 DEF Sound, DiskIs
<1>4. ASSUME NEW t \in Task, CanApply(t), NEW d \in CutShort(RefreshWrites(task[t].reply))
      PROVE  Sound(d)
  <2>1. /\ task[t].reply \in Token /\ task[t].reply # None
        /\ issued[task[t].reply] # None
        /\ server[issued[task[t].reply].line] = disk.id
    BY <1>4, AnswerFits
  <2>2. d = disk \/ DiskIs(d, disk.id, disk.enabled, disk.header, task[t].reply)
    BY <1>1, <1>4, <2>1, Refreshed
  <2> QED BY <1>1, <2>1, <2>2 DEF Sound, DiskIs
<1>5. ASSUME NEW p \in Caller, CanFinish(p), NEW r \in BOOLEAN,
             NEW d \in CutShort(SignInWrites(call[p].token, r))
                         \cup {SignInWrites(call[p].token, r)[2]}
      PROVE  Sound(d)
  <2> DEFINE n == call[p].token
             file == IF r THEN n ELSE None
  <2>1. /\ n \in Token /\ n # None /\ issued[n] # None
        /\ server[issued[n].line] = disk.id /\ disk.id # None
    BY <1>5, CanFinishStands
  <2>2. file = None \/ file = n
    OBVIOUS
  <2>3. \/ d = disk
        \/ DiskIs(d, disk.id, disk.enabled, disk.header, file)
        \/ DiskIs(d, disk.id, disk.enabled, n, file)
    BY <1>1, <1>5, <2>1, SignedIn
  <2> HIDE DEF n, file
  <2> QED BY <1>1, <2>1, <2>2, <2>3 DEF Sound, DiskIs
<1> QED BY <1>1, <1>2, <1>3, <1>4, <1>5, TornIs

\* A crash leaves a sound disk and nothing else.
LEMMA CrashKeeps ==
  ASSUME IInv, Crash
  PROVE  IInv'
<1>1. /\ server \in [Flow -> Flow \cup {None}] /\ issued \in [Token -> Origin \cup {None}]
      /\ flow \in [Flow -> {"new", "open", "gone"}] /\ posted \subseteq Flow
      /\ None \notin Task \cup Caller
  BY ConstantsAssumption DEF IInv, TypeOK
<1>2. /\ UNCHANGED <<issued, server, posted>> /\ ~up' /\ up' \in BOOLEAN /\ child' = None
      /\ used' = {} /\ ~removing' /\ removing' \in BOOLEAN /\ kid' = NewKid /\ table' = None
      /\ exchanging' = {} /\ flow' = FlowsDiscarded
  BY DEF Crash
<1>3. Sound(disk)'
  <2>1. Sound(disk')
    BY TornIsSound DEF Crash
  <2> QED BY <1>2, <2>1 DEF Sound
<1>4. /\ lock' \in [Child -> Caller \cup {None}] /\ task' \in [Task -> TaskRec]
      /\ call' \in [Caller -> CallRec]
      /\ \A c \in Child : lock'[c] = None
      /\ \A t \in Task : task'[t] = NoTask
      /\ \A p \in Caller : call'[p] = NoCall
  BY Empty DEF Crash
<1>5. /\ flow' \in [Flow -> {"new", "open", "gone"}]
      /\ \A f \in Flow : flow'[f] # "open" /\ (flow[f] # "new" => flow'[f] # "new")
  BY <1>1, <1>2 DEF FlowsDiscarded
<1>6. mishaps' \in 0..MaxMishaps
  BY ConstantsAssumption DEF Crash, Mishap, IInv, TypeOK
<1>7. TypeOK'
  BY <1>1, <1>2, <1>3, <1>4, <1>5, <1>6, Empty DEF TypeOK, Sound
<1>8. DownInv'
  BY <1>2, <1>4, <1>5 DEF DownInv
<1>9. ChildInv'
  BY <1>2, Empty DEF ChildInv
<1>10. DiskInv'
  BY <1>3 DEF DiskInv, Sound
<1>11. CallInv'
  BY <1>4, Empty DEF CallInv, CallOk
<1>12. LockInv'
  BY <1>1, <1>4, Empty DEF LockInv, Removes
<1>13. FlowInv'
  <2>1. \A f \in Flow : server[f] # None => flow'[server[f]] # "new"
    BY <1>1, <1>5 DEF IInv, FlowInv
  <2>2. \A n \in Token : issued[n] # None => flow'[issued[n].line] # "new"
    BY <1>1, <1>5 DEF IInv, FlowInv, Origin
  <2> QED BY <1>2, <1>5, <2>1, <2>2 DEF FlowInv
<1>14. TaskInv'
  BY <1>2, <1>4, Empty DEF TaskInv, TaskOk, Current
<1>15. RetryInv'
  BY <1>2, Empty DEF RetryInv
<1>16. PostedInv'
  BY <1>1, <1>2, <1>5 DEF IInv, PostedInv
<1>17. HeaderFollowsFile'
  BY <1>2 DEF HeaderFollowsFile
<1>18. NoGrantAbandoned'
  BY <1>2, Empty DEF NoGrantAbandoned
<1>19. LiveHeaderCurrent'
  BY <1>2 DEF LiveHeaderCurrent
<1>20. RejectionVisible'
  BY <1>2, Empty DEF RejectionVisible
<1> QED BY <1>7, <1>8, <1>9, <1>10, <1>11, <1>12, <1>13, <1>14, <1>15, <1>16, <1>17, <1>18,
         <1>19, <1>20 DEF IInv

\* A boot without a record drops what an unfinished removal left.
LEMMA BootEmptyKeeps ==
  ASSUME IInv, BootEmpty
  PROVE  IInv'
<1>1. /\ ~up /\ up' /\ up' \in BOOLEAN /\ disk.id = None
      /\ UNCHANGED <<issued, flow, server, exchanging, posted, removing, lock, call>>
      /\ UNCHANGED <<mishaps, child, used, kid, table, task>>
  BY DEF BootEmpty, Boots, flowVars
<1>2. /\ child = None /\ used = {} /\ ~removing /\ kid = NewKid /\ table = None
      /\ exchanging = {}
      /\ \A t \in Task : task[t] = NoTask
      /\ \A p \in Caller : call[p] = NoCall
      /\ \A c \in Child : lock[c] = None
      /\ \A f \in Flow : flow[f] # "open"
      /\ None \notin Task \cup Caller \cup Child /\ disk \in Disk
  BY <1>1, ConstantsAssumption DEF IInv, DownInv, TypeOK
<1>3. /\ disk' \in Disk /\ disk'.id = None /\ disk'.header = None /\ disk'.file = None
      /\ ~disk'.enabled
  <2>1. DiskIs(disk', disk.id, disk.enabled, disk.header, None)
    BY <1>2, DiskEdits DEF BootEmpty, OrphanDropped
  <2> QED BY <1>1, <2>1 DEF DiskIs, IInv, DiskInv
<1>4. TypeOK'
  BY <1>1, <1>3 DEF IInv, TypeOK
<1>5. DownInv'
  BY <1>1 DEF DownInv
<1>6. ChildInv'
  BY <1>1, <1>2, <1>3, Empty DEF ChildInv
<1>7. DiskInv'
  BY <1>3 DEF DiskInv
<1>8. CallInv'
  BY <1>1, <1>2, Empty DEF CallInv, CallOk
<1>9. LockInv'
  BY <1>1, <1>2, Empty DEF LockInv, Removes
<1>10. FlowInv'
  BY <1>1, <1>2 DEF IInv, FlowInv
<1>11. TaskInv'
  BY <1>1, <1>2, Empty DEF TaskInv, TaskOk, Current
<1>12. RetryInv'
  BY <1>1, <1>2, Empty DEF RetryInv
<1>13. PostedInv'
  BY <1>1, <1>2 DEF IInv, PostedInv
<1>14. HeaderFollowsFile'
  BY <1>3 DEF HeaderFollowsFile
<1>15. NoGrantAbandoned'
  BY <1>1, <1>2, <1>3, Empty DEF NoGrantAbandoned
<1>16. LiveHeaderCurrent'
  BY <1>1, <1>2 DEF LiveHeaderCurrent
<1>17. RejectionVisible'
  BY <1>1, <1>2, Empty DEF RejectionVisible
<1> QED BY <1>4, <1>5, <1>6, <1>7, <1>8, <1>9, <1>10, <1>11, <1>12, <1>13, <1>14, <1>15,
         <1>16, <1>17 DEF IInv

\* A boot installs the child that is listed, with its task or the reason why not.
LEMMA BootServerKeeps ==
  ASSUME IInv, ~up, up' = TRUE, disk.id # None, BootsChild,
         UNCHANGED <<issued, flow, server, exchanging, posted, removing, lock, call>>,
         mishaps' = mishaps,
         DiskIs(disk', disk.id, disk.enabled, disk'.header, disk.file),
         disk'.header = disk.header \/ (disk.file # None /\ disk'.header = disk.file),
         kid' \in Kid, kid'.grant = 0, kid'.live = None, ~kid'.unfinished,
         kid'.proc = IF disk.enabled THEN "starting" ELSE "down",
         \/ /\ kid'.err = "none" /\ ~kid'.rejected /\ disk.file # None
            /\ StartRefresh(task, child', 0)
         \/ /\ table' = table /\ task' = task
            /\ \/ kid'.err = "none" /\ ~kid'.rejected /\ disk.file = None
               \/ kid'.err = "rejected" /\ kid'.rejected
  PROVE  IInv'
<1>1. /\ child = None /\ used = {} /\ ~removing /\ kid = NewKid /\ table = None
      /\ exchanging = {}
      /\ \A t \in Task : task[t] = NoTask
      /\ \A p \in Caller : call[p] = NoCall
      /\ \A c \in Child : lock[c] = None
      /\ \A f \in Flow : flow[f] # "open"
      /\ None \notin Task \cup Caller \cup Child /\ disk \in Disk
  BY ConstantsAssumption DEF IInv, DownInv, TypeOK
<1>2. child' \in Child /\ child' # None /\ used' = {child'}
  BY <1>1 DEF BootsChild
<1>3. /\ disk' \in Disk /\ disk'.id = disk.id /\ disk'.enabled = disk.enabled
      /\ disk'.file = disk.file
  BY DEF DiskIs
<1>4. /\ task' \in [Task -> TaskRec] /\ table' \in Task \cup {None}
      /\ \/ /\ kid'.err = "none" /\ ~kid'.rejected /\ disk.file # None /\ table' \in Task
            /\ task'[table'].phase = "sync" /\ task'[table'].of = child'
            /\ task'[table'].born = 0 /\ ~task'[table'].cancelled
            /\ \A u \in Task : u # table' => task'[u] = NoTask
         \/ /\ table' = None /\ \A u \in Task : task'[u] = NoTask
            /\ \/ kid'.err = "none" /\ ~kid'.rejected /\ disk.file = None
               \/ kid'.err = "rejected" /\ kid'.rejected
  <2>1. task \in [Task -> TaskRec]
    BY DEF IInv, TypeOK
  <2>2. CASE StartRefresh(task, child', 0) /\ kid'.err = "none" /\ ~kid'.rejected
             /\ disk.file # None
    <3>1. PICK t : Started(task, t, child', 0)
      BY <1>2, <2>1, <2>2, StartRefreshIs
    <3> QED BY <1>1, <2>2, <3>1 DEF Started
  <2>3. CASE /\ table' = table /\ task' = task
             /\ \/ kid'.err = "none" /\ ~kid'.rejected /\ disk.file = None
                \/ kid'.err = "rejected" /\ kid'.rejected
    BY <1>1, <2>1, <2>3
  <2> QED BY <2>2, <2>3
<1>5. \A u \in Task : Current(u)' <=> table' = u
  BY <1>1, <1>2, <1>4, Empty DEF Current, TaskCurrent
<1>6. \A u \in Task : table' = u => Renews(u)' /\ task'[u].phase = "sync"
  BY <1>1, <1>2, <1>4 DEF Renews, TaskCurrent
<1>7. TypeOK'
  BY <1>1, <1>2, <1>3, <1>4 DEF IInv, TypeOK
<1>8. DownInv'
  BY DEF DownInv
<1>9. ChildInv'
  BY <1>2, <1>3 DEF ChildInv
<1>10. DiskInv'
  BY <1>3 DEF IInv, DiskInv
<1>11. CallInv'
  BY <1>1, Empty DEF CallInv, CallOk
<1>12. LockInv'
  BY <1>1, Empty DEF LockInv, Removes
<1>13. FlowInv'
  BY <1>1 DEF IInv, FlowInv
<1>14. TaskInv'
  BY <1>1, <1>2, <1>3, <1>4, <1>5, Empty DEF TaskInv, TaskOk
<1>15. RetryInv'
  BY <1>4 DEF RetryInv
<1>16. PostedInv'
  BY <1>1 DEF IInv, PostedInv
<1>17. HeaderFollowsFile'
  BY <1>3, <1>4, <1>6 DEF HeaderFollowsFile
<1>18. NoGrantAbandoned'
  BY <1>1, <1>3, <1>4, <1>6 DEF NoGrantAbandoned
<1>19. LiveHeaderCurrent'
  BY <1>3 DEF IInv, DiskInv, LiveHeaderCurrent
<1>20. RejectionVisible'
  BY <1>4 DEF RejectionVisible
<1> QED BY <1>7, <1>8, <1>9, <1>10, <1>11, <1>12, <1>13, <1>14, <1>15, <1>16, <1>17, <1>18,
         <1>19, <1>20 DEF IInv

LEMMA BootKeeps ==
  ASSUME IInv, Boot
  PROVE  IInv'
<1>1. disk \in Disk /\ kid \in Kid
  BY DEF IInv, TypeOK
<1>2. CASE BootEmpty
  BY <1>2, BootEmptyKeeps
<1>3. CASE BootNoFile
  <2>1. DiskIs(disk', disk.id, disk.enabled, disk.header, disk.file)
    BY <1>1, <1>3, DiskEdits DEF BootNoFile
  <2>2. kid' \in Kid /\ kid' = BootedKid
    BY <1>3, BootedKidIs DEF BootNoFile
  <2> QED BY <1>3, <2>1, <2>2, BootedKidIs, BootServerKeeps
             DEF BootNoFile, Boots, flowVars, DiskIs
<1>4. CASE BootRepair
  <2>1. DiskIs(disk', disk.id, disk.enabled, disk.file, disk.file)
    BY <1>1, <1>4, DiskEdits, DiskParts DEF BootRepair, RepairedHeader
  <2>2. kid' \in Kid /\ kid' = BootedKid
    BY <1>4, BootedKidIs DEF BootRepair
  <2> QED BY <1>4, <2>1, <2>2, BootedKidIs, BootServerKeeps
             DEF BootRepair, Boots, flowVars, DiskIs
<1>5. CASE BootFaults
  <2>1. DiskIs(disk', disk.id, disk.enabled, disk.header, disk.file)
    BY <1>1, <1>5, DiskEdits DEF BootFaults
  <2>2. kid' \in Kid /\ kid' = BootedKid
    BY <1>5, BootedKidIs DEF BootFaults
  <2> QED BY <1>5, <2>1, <2>2, BootedKidIs, BootServerKeeps
             DEF BootFaults, Boots, flowVars, DiskIs
<1>6. CASE BootUnreadable
  <2>1. DiskIs(disk', disk.id, disk.enabled, disk.header, disk.file)
    BY <1>1, <1>6, DiskEdits DEF BootUnreadable
  <2>2. /\ kid' \in Kid /\ kid'.err = "rejected" /\ kid'.rejected
        /\ kid'.grant = BootedKid.grant /\ kid'.live = BootedKid.live
        /\ kid'.unfinished = BootedKid.unfinished /\ kid'.proc = BootedKid.proc
    BY <1>6, BootedKidIs DEF BootUnreadable, Kid
  <2> QED BY <1>6, <2>1, <2>2, BootedKidIs, BootServerKeeps
             DEF BootUnreadable, Boots, flowVars, DiskIs
<1> QED BY <1>2, <1>3, <1>4, <1>5, <1>6 DEF Boot

-----------------------------------------------------------------------------
(* The theorems.                                                           *)

LEMMA InitHolds == Init => IInv
<1> SUFFICES ASSUME Init
             PROVE  IInv
  OBVIOUS
<1>1. /\ up = TRUE /\ mishaps = 0 /\ exchanging = {} /\ posted = {} /\ child = None
      /\ used = {} /\ removing = FALSE /\ kid = NewKid /\ table = None
      /\ issued = [n \in Token |-> None] /\ flow = [f \in Flow |-> "new"]
      /\ server = [f \in Flow |-> None] /\ lock = [c \in Child |-> None]
      /\ task = [t \in Task |-> NoTask] /\ call = [p \in Caller |-> NoCall]
  BY DEF Init
<1>2. /\ disk \in Disk /\ disk.id = None /\ ~disk.enabled /\ disk.header = None
      /\ disk.file = None
  BY DEF Init, Disk
<1>3. None \notin Caller
  BY ConstantsAssumption
<1>4. TypeOK
  <2>1. up \in BOOLEAN /\ removing \in BOOLEAN
    BY <1>1
  <2>2. mishaps \in 0..MaxMishaps
    <3>1. mishaps = 0 /\ MaxMishaps \in Nat
      BY <1>1, ConstantsAssumption
    <3> QED BY <3>1
  <2>3. /\ issued \in [Token -> Origin \cup {None}]
        /\ flow \in [Flow -> {"new", "open", "gone"}]
        /\ server \in [Flow -> Flow \cup {None}]
        /\ lock \in [Child -> Caller \cup {None}]
    BY <1>1
  <2>4. task \in [Task -> TaskRec] /\ call \in [Caller -> CallRec] /\ kid \in Kid
    BY <1>1, Empty
  <2> QED BY <1>1, <1>2, <2>1, <2>2, <2>3, <2>4 DEF TypeOK
<1>5. DownInv /\ ChildInv /\ DiskInv
  BY <1>1, <1>2, Empty DEF DownInv, ChildInv, DiskInv
<1>6. CallInv /\ LockInv
  BY <1>1, <1>3, Empty DEF CallInv, CallOk, LockInv, Removes
<1>7. FlowInv /\ TaskInv
  BY <1>1, Empty DEF FlowInv, TaskInv, TaskOk, Current, TaskCurrent
<1>8. RetryInv /\ PostedInv
  BY <1>1, Empty DEF RetryInv, PostedInv
<1>9. HeaderFollowsFile /\ NoGrantAbandoned
  BY <1>1, <1>2, Empty DEF HeaderFollowsFile, NoGrantAbandoned
<1>10. LiveHeaderCurrent /\ RejectionVisible
  BY <1>1, Empty DEF LiveHeaderCurrent, RejectionVisible
<1> QED BY <1>4, <1>5, <1>6, <1>7, <1>8, <1>9, <1>10 DEF IInv

LEMMA StutterKeeps ==
  ASSUME IInv, UNCHANGED vars
  PROVE  IInv'
<1>1. /\ UNCHANGED <<up, disk, mishaps, issued, flow, server, exchanging, posted>>
      /\ UNCHANGED <<child, used, removing, lock, kid, table, task, call>>
  BY DEF vars, flowVars, keyVars
<1>2. TypeOK' /\ DownInv' /\ ChildInv' /\ DiskInv'
  BY <1>1 DEF IInv, TypeOK, DownInv, ChildInv, DiskInv
<1>3. CallInv' /\ LockInv' /\ PostedInv'
  BY <1>1 DEF IInv, CallInv, CallOk, LockInv, Removes, PostedInv
<1>4. FlowInv' /\ TaskInv' /\ RetryInv'
  BY <1>1 DEF IInv, FlowInv, TaskInv, TaskOk, RetryInv, Current, TaskCurrent
<1>5. HeaderFollowsFile' /\ NoGrantAbandoned' /\ LiveHeaderCurrent' /\ RejectionVisible'
  BY <1>1 DEF IInv, HeaderFollowsFile, NoGrantAbandoned, LiveHeaderCurrent,
              RejectionVisible, Renews, TaskCurrent
<1> QED BY <1>2, <1>3, <1>4, <1>5 DEF IInv

LEMMA NextHolds == IInv /\ [Next]_vars => IInv'
<1> SUFFICES ASSUME IInv, [Next]_vars
             PROVE  IInv'
  OBVIOUS
<1>1. ASSUME NEW f \in Flow, FlowStep(f)
      PROVE  IInv'
  BY <1>1, ConnectKeeps, ReauthorizeKeeps, ExpireKeeps DEF FlowStep
<1>2. ASSUME NEW p \in Caller, CallStep(p)
      PROVE  IInv'
  <2>1. CASE Arrive(p) \/ Refuse(p)
    BY <2>1, ArriveKeeps
  <2>2. CASE ExchangeAnswered(p)
    BY <2>2, ExchangeAnsweredKeeps
  <2>3. CASE ExchangeFails(p) \/ ExchangeGarbled(p) \/ FinishNothing(p)
    BY <2>3, GivesUpKeeps
  <2>4. CASE FinishConnect(p) \/ FinishReauth(p) \/ FinishFails(p) \/ EnableFails(p)
    BY <2>4, FinishConnectKeeps, FinishReauthKeeps, FinishFailsKeeps, EnableFailsKeeps
  <2>5. CASE Remove(p) \/ Disable(p) \/ FinishTeardown(p)
    BY <2>5, RemoveKeeps, DisableKeeps, FinishTeardownKeeps
  <2> QED BY <1>2, <2>1, <2>2, <2>3, <2>4, <2>5 DEF CallStep, Exchange, Finish, Operate
<1>3. ASSUME NEW t \in Task, TaskLocked(t) \/ TaskFree(t) \/ TaskEnv(t)
      PROVE  IInv'
  BY <1>3, TaskKeeps
<1>4. CASE Enable \/ BuildTransport \/ StartEnds \/ ProbeFails
  BY <1>4, EnableKeeps, BuildTransportKeeps, StartEndsKeeps, ProbeFailsKeeps
<1>5. CASE Crash \/ Boot
  BY <1>5, CrashKeeps, BootKeeps
<1>6. CASE UNCHANGED vars
  BY <1>6, StutterKeeps
<1> QED BY <1>1, <1>2, <1>3, <1>4, <1>5, <1>6 DEF Next

\* The inductive invariant: types; what each request, lock, flow and task knows of the
\* child, the files and the grant it works on; and the safety properties themselves.
THEOREM Inductive == Spec => []IInv
BY InitHolds, NextHolds, PTL DEF Spec

\* Every variable stays in its type.
THEOREM Typed == Spec => []TypeOK
<1>1. IInv => TypeOK
  BY DEF IInv
<1> QED BY <1>1, Inductive, PTL

\* While the gateway runs, the credentials on disk are those of the server that is
\* listed, never of one that had its reference before.
THEOREM CredentialsBelong == Spec => []CredentialsBelongToServer
<1>1. IInv => CredentialsBelongToServer
  <2> SUFFICES ASSUME IInv, up, NEW n \in {disk.file, disk.header} \ {None}
               PROVE  disk.id # None /\ server[issued[n].line] = disk.id
    BY DEF CredentialsBelongToServer
  <2>1. disk.id # None
    BY DEF IInv, ChildInv, DiskInv
  <2> QED BY <2>1 DEF IInv, DiskInv
<1> QED BY <1>1, Inductive, PTL

\* A header that does not follow refresh.json is about to be repaired, or the server
\* shows why not.
THEOREM HeadersFollow == Spec => []HeaderFollowsFile
<1>1. IInv => HeaderFollowsFile
  BY DEF IInv
<1> QED BY <1>1, Inductive, PTL

\* At most one task may apply an answer, and it is the one that a removal or a new
\* sign-in retires.
THEOREM RenewerIsOne == Spec => []OneRenewer
<1>1. IInv => OneRenewer
  BY DEF IInv, TaskInv, TaskOk, OneRenewer, Renews, Current
<1> QED BY <1>1, Inductive, PTL

\* A grant that can be renewed is being renewed, or its rejection was recorded; after a
\* sign-in whose write raised no task renews anything until the next sign-in or boot.
THEOREM GrantsRenewed == Spec => []NoGrantAbandoned
<1>1. IInv => NoGrantAbandoned
  BY DEF IInv
<1> QED BY <1>1, Inductive, PTL

\* A running child sends the header the registry holds, and none runs without one.
THEOREM LiveHeadersCurrent == Spec => []LiveHeaderCurrent
<1>1. IInv => LiveHeaderCurrent
  BY DEF IInv
<1> QED BY <1>1, Inductive, PTL

\* A running child shows the rejection of its grant, whatever start, late refresh or probe
\* came between; only the error of one that failed covers it, and no settled one is shown.
THEOREM RejectionsVisible == Spec => []RejectionVisible
<1>1. IInv => RejectionVisible
  BY DEF IInv
<1> QED BY <1>1, Inductive, PTL

\* A server that says "retrying" has a task that retries, if every token expires.
THEOREM RetriesAreTrue ==
  ASSUME Lasting = {}
  PROVE  Spec => []RetryingIsTrue
<1>1. IInv => RetryingIsTrue
  <2> SUFFICES ASSUME IInv, kid.err = "transient"
               PROVE  table # None /\ Renews(table)
    BY DEF RetryingIsTrue
  <2>1. table # None /\ Current(table) /\ table \in Task
    BY DEF IInv, RetryInv, TypeOK
  <2> QED BY <2>1, CurrentStands DEF Current, Renews
<1> QED BY <1>1, Inductive, PTL

-----------------------------------------------------------------------------
(* What a step may write and send.                                         *)

\* The token of a flow that is spent on it, or the answer a current task may apply.
FileWritten(d) ==
  \/ d.file \in {None, disk.file}
  \/ \E p \in Caller :
       CanFinish(p) /\ d.file = call[p].token /\ flow'[call[p].flow] = "gone"
  \/ \E t \in Task : CanApply(t) /\ d.file = task[t].reply

HeaderWritten(d) == d.header \in {None, disk.header} \/ d.file \in {None, d.header}

\* A disk that a step may leave.
Writable(d) == FileWritten(d) /\ HeaderWritten(d)

LEMMA SignInWritable ==
  ASSUME IInv, NEW p \in Caller, CanFinish(p), NEW r \in BOOLEAN,
         flow' = Popped(call[p].flow) \/ flow' = FlowsDiscarded,
         NEW d, \/ d \in CutShort(SignInWrites(call[p].token, r))
                \/ d = SignInWrites(call[p].token, r)[2]
                \/ d = EnableWrites(SignInWrites(call[p].token, r)[2])[2]
  PROVE  Writable(d)
<1> DEFINE n == call[p].token
           file == IF r THEN n ELSE None
<1>1. disk \in Disk /\ n \in Token
  BY CanFinishStands DEF IInv, TypeOK
<1>2. file = None \/ file = n
  OBVIOUS
<1>3. \/ d = disk \/ DiskIs(d, disk.id, disk.enabled, disk.header, file)
      \/ DiskIs(d, disk.id, disk.enabled, n, file) \/ DiskIs(d, disk.id, TRUE, n, file)
  BY <1>1, SignedIn
<1>4. flow'[call[p].flow] = "gone"
  <2>1. call[p].flow \in Flow /\ flow[call[p].flow] = "open"
    BY CanFinishStands
  <2>2. flow \in [Flow -> {"new", "open", "gone"}]
    BY DEF IInv, TypeOK
  <2> QED BY <2>1, <2>2 DEF Popped, FlowsDiscarded
<1> HIDE DEF file, n
<1>5. HeaderWritten(d)
  BY <1>2, <1>3 DEF HeaderWritten, DiskIs
<1>6. d.file \in {None, disk.file, n}
  BY <1>2, <1>3 DEF DiskIs
<1> QED BY <1>4, <1>5, <1>6 DEF Writable, FileWritten, n

LEMMA RefreshWritable ==
  ASSUME IInv, NEW t \in Task, CanApply(t),
         NEW d, \/ d \in CutShort(RefreshWrites(task[t].reply))
                \/ d = RefreshWrites(task[t].reply)[2]
  PROVE  Writable(d)
<1> DEFINE n == task[t].reply
<1>1. disk \in Disk /\ n \in Token
  BY AnswerFits DEF IInv, TypeOK
<1>2. \/ d = disk \/ DiskIs(d, disk.id, disk.enabled, disk.header, n)
      \/ DiskIs(d, disk.id, disk.enabled, n, n)
  BY <1>1, Refreshed
<1> QED BY <1>2 DEF Writable, FileWritten, HeaderWritten, DiskIs

LEMMA TornWritable ==
  ASSUME IInv, NEW d \in Torn, flow' = FlowsDiscarded
  PROVE  Writable(d)
<1>1. disk \in Disk
  BY DEF IInv, TypeOK
<1>2. ASSUME NEW f \in Flow, d \in CutShort(AddWrites(f))
      PROVE  Writable(d)
  BY <1>1, <1>2, Listed DEF Writable, FileWritten, HeaderWritten, DiskIs
<1>3. CASE d \in CutShort(RemoveWrites)
  BY <1>1, <1>3, Unlisted DEF Writable, FileWritten, HeaderWritten, DiskIs
<1>4. CASE d = disk
  BY <1>4 DEF Writable, FileWritten, HeaderWritten
<1> QED BY <1>2, <1>3, <1>4, TornIs, RefreshWritable, SignInWritable

LEMMA FileDropped ==
  ASSUME IInv
  PROVE  LET d == [disk EXCEPT !.file = None]
         IN  d \in Disk /\ d.file = None /\ d.header = disk.header
BY DEF IInv, TypeOK, Disk

\* Whatever a step leaves on the disk is writable.
LEMMA StepWrites ==
  ASSUME IInv, [Next]_vars
  PROVE  Writable(disk')
<1>1. disk \in Disk
  BY DEF IInv, TypeOK
<1>2. ASSUME NEW d \in Disk, d.file \in {None, disk.file}, d.header \in {None, disk.header}
      PROVE  Writable(d)
  BY <1>2 DEF Writable, FileWritten, HeaderWritten
<1>3. CASE disk' = disk
  BY <1>1, <1>2, <1>3
<1>4. ASSUME NEW f \in Flow, FlowStep(f)
      PROVE  Writable(disk')
  <2>1. CASE Connect(f)
    BY <1>1, <1>2, <2>1, Listed DEF Connect, DiskIs
  <2> QED BY <1>3, <1>4, <2>1 DEF FlowStep, Reauthorize, Expire
<1>5. ASSUME NEW p \in Caller, CallStep(p)
      PROVE  Writable(disk')
  <2>1. CASE FinishConnect(p) \/ FinishReauth(p) \/ EnableFails(p) \/ FinishFails(p)
    BY <2>1, SignInWritable DEF FinishConnect, FinishReauth, EnableFails, FinishFails
  <2>2. CASE Remove(p)
    BY <1>1, <1>2, <2>2, Unlisted DEF Remove, DiskIs
  <2>3. CASE Disable(p)
    BY <1>1, <1>2, <2>3, DiskEdits DEF Disable, DiskIs
  <2>4. CASE FinishTeardown(p)
    BY <1>2, <1>3, <2>4, FileDropped DEF FinishTeardown
  <2> QED BY <1>3, <1>5, <2>1, <2>2, <2>3, <2>4
             DEF CallStep, Arrive, BeginCallback, Queue, Exchange, ExchangeAnswered,
                 ExchangeFails, ExchangeGarbled, Finish, FinishNothing, Operate, Refuse
<1>6. ASSUME NEW t \in Task, TaskLocked(t) \/ TaskFree(t) \/ TaskEnv(t)
      PROVE  Writable(disk')
  <2>1. CASE Apply(t) \/ ApplyFails(t)
    BY <2>1, RefreshWritable DEF Apply, ApplyFails
  <2>2. CASE Sync(t)
    <3>1. DiskIs(disk', disk.id, disk.enabled, disk.file, disk.file)
      BY <1>1, <2>2, DiskEdits, DiskParts DEF Sync, RepairedHeader
    <3> QED BY <3>1 DEF DiskIs, Writable, FileWritten, HeaderWritten
  <2> QED BY <1>3, <1>6, <2>1, <2>2
             DEF TaskLocked, TaskFree, TaskEnv, SyncStops, SyncUnreadable, SyncFaults,
                 RecordFault, ApplyStops, RecordRejection, Send, SendStops, Retry,
                 CancelledEnds, Renewed, NotRefreshed, CancelSwallowed, taskOnly
<1>7. CASE Enable \/ BuildTransport \/ StartEnds \/ ProbeFails
  <2>1. CASE Enable
    <3>1. DiskIs(disk', disk.id, TRUE, disk.header, disk.file)
      BY <1>1, <2>1, DiskEdits DEF Enable
    <3> QED BY <1>2, <3>1 DEF DiskIs
  <2> QED BY <1>3, <1>7, <2>1 DEF BuildTransport, StartEnds, ProbeFails
<1>8. CASE Crash
  BY <1>8, TornWritable DEF Crash
<1>9. CASE Boot
  <2>1. CASE BootEmpty
    BY <1>2, <2>1, FileDropped DEF BootEmpty, OrphanDropped
  <2>2. CASE BootRepair
    <3>1. DiskIs(disk', disk.id, disk.enabled, disk.file, disk.file)
      BY <1>1, <2>2, DiskEdits, DiskParts DEF BootRepair, RepairedHeader
    <3> QED BY <3>1 DEF DiskIs, Writable, FileWritten, HeaderWritten
  <2> QED BY <1>3, <1>9, <2>1, <2>2 DEF Boot, BootNoFile, BootFaults, BootUnreadable
<1>10. CASE UNCHANGED vars
  BY <1>3, <1>10 DEF vars
<1> QED BY <1>4, <1>5, <1>6, <1>7, <1>8, <1>9, <1>10 DEF Next

\* A header that is written follows the file that is on disk after the step.
THEOREM FilesFirst == Spec => FileFirst
<1>1. IInv /\ [Next]_vars =>
        [disk'.header \notin {None, disk.header} => disk'.file \in {None, disk'.header}]_vars
  BY StepWrites DEF Writable, HeaderWritten
<1> QED BY <1>1, Inductive, PTL DEF Spec, FileFirst

\* A credential is written by the flow that the step spends, or by a refresh of the very
\* token it replaces.
THEOREM GrantsWrittenOnce == Spec => WrittenOnce
<1>1. ASSUME IInv, [Next]_vars, disk'.file \notin {None, disk.file}
      PROVE  LET o == issued[disk'.file]
             IN  IF o.parent = None THEN flow[o.line] = "open" /\ flow'[o.line] = "gone"
                 ELSE o.parent = disk.file
  <2>1. CASE \E p \in Caller : /\ CanFinish(p) /\ disk'.file = call[p].token
                               /\ flow'[call[p].flow] = "gone"
    <3>1. PICK p \in Caller : /\ CanFinish(p) /\ disk'.file = call[p].token
                              /\ flow'[call[p].flow] = "gone"
      BY <2>1
    <3>2. /\ issued[disk'.file] = [line |-> call[p].flow, parent |-> None]
          /\ flow[call[p].flow] = "open"
      BY <1>1, <3>1, CanFinishStands
    <3> QED BY <3>1, <3>2
  <2>2. CASE \E t \in Task : CanApply(t) /\ disk'.file = task[t].reply
    <3>1. PICK t \in Task : CanApply(t) /\ disk'.file = task[t].reply
      BY <2>2
    <3>2. issued[disk'.file].parent = disk.file
      BY <1>1, <3>1, AnswerFits
    <3>3. disk.file # None
      BY <1>1, <3>1, AnswerFits, CurrentStands
    <3> QED BY <3>2, <3>3
  <2> QED BY <1>1, <2>1, <2>2, StepWrites DEF Writable, FileWritten
<1>2. IInv /\ [Next]_vars =>
        [disk'.file \notin {None, disk.file} =>
           LET o == issued[disk'.file]
           IN  IF o.parent = None THEN flow[o.line] = "open" /\ flow'[o.line] = "gone"
               ELSE o.parent = disk.file]_vars
  BY <1>1
<1> QED BY <1>2, Inductive, PTL DEF Spec, WrittenOnce

\* Only the task itself posts.
LEMMA WhoSends ==
  ASSUME IInv, [Next]_vars, NEW t \in Task,
         task[t].phase = "send", task'[t].phase = "posted"
  PROVE  TaskCurrent(t)
<1>1. task \in [Task -> TaskRec] /\ table \in Task \cup {None}
  BY DEF IInv, TypeOK
<1>2. task' # task
  OBVIOUS
<1>3. ASSUME NEW tasks, tasks = task \/ tasks = Retired,
             NEW r \in BOOLEAN,
             \/ NoRefresh(tasks)
             \/ \E c, g : StartRefresh(tasks, c, g)
      PROVE  FALSE
  <2>1. tasks \in [Task -> TaskRec] /\ tasks[t].phase = "send"
    BY <1>1, <1>3, RetiredIs
  <2>2. CASE NoRefresh(tasks)
    BY <2>1, <2>2 DEF NoRefresh
  <2>3. ASSUME NEW c, NEW g, StartRefresh(tasks, c, g)
        PROVE  FALSE
    <3>1. PICK u \in Task : /\ tasks[u] = NoTask
                            /\ \E s : task' = [tasks EXCEPT ![u] = s]
      BY <2>3 DEF StartRefresh
    <3>2. u # t
      BY <2>1, <3>1, Empty
    <3> QED BY <2>1, <3>1, <3>2
  <2> QED BY <1>3, <2>2, <2>3
<1>4. ASSUME NEW f \in Flow, FlowStep(f)
      PROVE  FALSE
  BY <1>2, <1>4 DEF FlowStep, Connect, Reauthorize, Expire
<1>5. ASSUME NEW p \in Caller, CallStep(p)
      PROVE  FALSE
  <2>1. CASE FinishConnect(p) \/ FinishReauth(p) \/ EnableFails(p)
    BY <1>3, <2>1 DEF FinishConnect, FinishReauth, EnableFails, RefreshFor
  <2>2. CASE FinishFails(p) \/ Remove(p)
    BY <1>3, <2>2 DEF FinishFails, Remove
  <2> QED BY <1>2, <1>5, <2>1, <2>2
             DEF CallStep, Arrive, BeginCallback, Queue, Exchange, ExchangeAnswered,
                 ExchangeFails, ExchangeGarbled, Finish, FinishNothing, Operate, Refuse,
                 Disable, FinishTeardown
<1>6. ASSUME NEW u \in Task, TaskLocked(u) \/ TaskFree(u) \/ TaskEnv(u)
      PROVE  TaskCurrent(t)
  <2>1. u = t
    BY <1>1, <1>6
       DEF TaskLocked, TaskFree, TaskEnv, Sync, SyncStops, SyncUnreadable, SyncFaults,
           RecordFault, Apply, ApplyFails, ApplyStops, RecordRejection, Rejects, Send,
           SendStops, Retry, CancelledEnds, Renewed, NotRefreshed, CancelSwallowed,
           TaskEnds, RoundOver, MovesTo
  <2>2. ~TaskLocked(t) /\ ~TaskEnv(t)
    <3>1. task'[t] # NoTask
      BY Empty
    <3> QED BY <1>1, <3>1
       DEF TaskLocked, TaskEnv, Sync, SyncStops, SyncUnreadable, SyncFaults, RecordFault,
           Apply, ApplyFails, ApplyStops, RecordRejection, Rejects, Renewed, NotRefreshed,
           CancelSwallowed, Runs, CanApply, TaskEnds, RoundOver, MovesTo
  <2> QED BY <1>1, <1>6, <2>1, <2>2, Empty
          DEF TaskFree, Send, SendStops, Retry, CancelledEnds, Runs, TaskEnds
<1>7. CASE Enable \/ BuildTransport \/ StartEnds \/ ProbeFails
  BY <1>2, <1>7 DEF Enable, BuildTransport, StartEnds, ProbeFails
<1>8. ~Crash
  BY Empty DEF Crash
<1>9. ~Boot
  <2>1. up
    BY Empty DEF IInv, DownInv
  <2> QED BY <2>1 DEF Boot, BootEmpty, BootNoFile, BootRepair, BootFaults, BootUnreadable,
                      Boots
<1>10. CASE UNCHANGED vars
  BY <1>2, <1>10 DEF vars
<1> QED BY <1>4, <1>5, <1>6, <1>7, <1>8, <1>9, <1>10 DEF Next

\* A request carries the refresh token that is stored.
THEOREM StoredIsSent == Spec => SendsWhatIsStored
<1>1. ASSUME IInv, [Next]_vars, NEW t \in Task,
             task[t].phase = "send", task'[t].phase = "posted"
      PROVE  task[t].held = disk.file
  <2>1. Current(t)
    BY <1>1, WhoSends DEF Current
  <2> QED BY <1>1, <2>1 DEF IInv, TaskInv, TaskOk
<1>2. IInv /\ [Next]_vars =>
        [\A t \in Task : task[t].phase = "send" /\ task'[t].phase = "posted" =>
           task[t].held = disk.file]_vars
  BY <1>1
<1> QED BY <1>2, Inductive, PTL DEF Spec, SendsWhatIsStored

\* A request begins an exchange only as a callback.
LEMMA WhoExchanges ==
  ASSUME IInv, [Next]_vars, NEW p \in Caller,
         call[p].pc = "idle", call'[p].pc = "exchange"
  PROVE  \E f \in Flow : MayExchange(f) /\ call'[p].flow = f
<1>1. call \in [Caller -> CallRec]
  BY DEF IInv, TypeOK
<1>2. call' # call /\ call'[p] # NoCall
  BY Empty
<1>3. ASSUME NEW q \in Caller, CallStep(q)
      PROVE  \E f \in Flow : MayExchange(f) /\ call'[p].flow = f
  <2>1. ASSUME NEW f \in Flow, BeginCallback(q, f)
        PROVE  MayExchange(f) /\ call'[p].flow = f
    <3> DEFINE r == [NoCall EXCEPT !.job = "callback", !.pc = "exchange", !.flow = f]
    <3>1. r.flow = f
      BY DEF NoCall
    <3> HIDE DEF r
    <3>2. call' = [call EXCEPT ![q] = r] /\ MayExchange(f)
      BY <2>1 DEF BeginCallback, r
    <3>3. q = p
      BY <1>1, <3>2
    <3> QED BY <1>1, <3>1, <3>2, <3>3
  <2>2. ASSUME NEW j \in {"remove", "disable"}, Queue(q, j) \/ TearsDown(q, j)
        PROVE  FALSE
    <3> DEFINE w == [NoCall EXCEPT !.job = j, !.pc = "waiting", !.target = child]
               d == [NoCall EXCEPT !.job = j, !.pc = "teardown", !.target = child]
    <3>1. w.pc = "waiting" /\ d.pc = "teardown"
      BY DEF NoCall
    <3> HIDE DEF w, d
    <3>2. call' = [call EXCEPT ![q] = w] \/ call' = [call EXCEPT ![q] = d]
      BY <2>2 DEF Queue, TearsDown, w, d
    <3> QED BY <1>1, <3>1, <3>2
  <2>3. ASSUME Returns(q)
        PROVE  FALSE
    BY <1>1, <1>2, <2>3 DEF Returns
  <2>4. CASE ExchangeAnswered(q)
    <3>1. CASE child = None
      BY <2>3, <2>4, <3>1 DEF ExchangeAnswered, CallbackReturns
    <3>2. CASE child # None
      <4>1. q # p
        BY <2>4 DEF ExchangeAnswered
      <4> QED BY <1>1, <2>4, <3>2, <4>1 DEF ExchangeAnswered
    <3> QED BY <3>1, <3>2
  <2>5. CASE FinishReauth(q)
    <3>1. CASE ~disk.enabled
      BY <2>3, <2>5, <3>1 DEF FinishReauth, CallbackReturns
    <3>2. CASE disk.enabled
      <4>1. q # p
        BY <2>5 DEF FinishReauth, CanFinish, AtLock
      <4> QED BY <1>1, <2>5, <3>2, <4>1 DEF FinishReauth
    <3> QED BY <3>1, <3>2
  <2> QED BY <1>3, <2>1, <2>2, <2>3, <2>4, <2>5
          DEF CallStep, Arrive, Exchange, ExchangeFails, ExchangeGarbled, Finish,
              FinishNothing, FinishConnect, FinishFails, EnableFails, Operate, Refuse,
              Remove, Disable, FinishTeardown, CallbackReturns
<1>4. ASSUME NEW f \in Flow, FlowStep(f)
      PROVE  FALSE
  BY <1>2, <1>4 DEF FlowStep, Connect, Reauthorize, Expire
<1>5. ASSUME NEW t \in Task, TaskLocked(t) \/ TaskFree(t) \/ TaskEnv(t)
      PROVE  FALSE
  BY <1>2, <1>5
     DEF TaskLocked, TaskFree, TaskEnv, Sync, SyncStops, SyncUnreadable, SyncFaults,
         RecordFault, Apply, ApplyFails, ApplyStops, RecordRejection, Send, SendStops,
         Retry, CancelledEnds, Renewed, NotRefreshed, CancelSwallowed, taskOnly
<1>6. CASE Enable \/ BuildTransport \/ StartEnds \/ ProbeFails
  BY <1>2, <1>6 DEF Enable, BuildTransport, StartEnds, ProbeFails
<1>7. ~Crash
  BY <1>2 DEF Crash
<1>8. ~Boot
  BY <1>2 DEF Boot, BootEmpty, BootNoFile, BootRepair, BootFaults, BootUnreadable, Boots
<1>9. CASE UNCHANGED vars
  BY <1>2, <1>9 DEF vars
<1> QED BY <1>3, <1>4, <1>5, <1>6, <1>7, <1>8, <1>9 DEF Next

\* One state drives at most one token exchange, if no answer is garbled.
THEOREM StatesExchangeOnce ==
  ASSUME ~AnswerMayBeGarbled
  PROVE  Spec => OneExchangePerState
<1>1. ASSUME IInv, [Next]_vars, NEW p \in Caller,
             call[p].pc = "idle", call'[p].pc = "exchange"
      PROVE  call'[p].flow \notin posted
  BY <1>1, WhoExchanges DEF MayExchange, IInv, PostedInv
<1>2. IInv /\ [Next]_vars =>
        [\A p \in Caller : call[p].pc = "idle" /\ call'[p].pc = "exchange" =>
           call'[p].flow \notin posted]_vars
  BY <1>1
<1> QED BY <1>2, Inductive, PTL DEF Spec, OneExchangePerState

-----------------------------------------------------------------------------
(* The ledger: every step of HeaderGrant is one of GrantLedger, or none.   *)

\* The ledger does not see a step that moves neither flows nor tokens nor the grant.
SameGrant == disk'.id = disk.id /\ (disk.id = None \/ disk'.file = disk.file)

LEMMA LedgerStands ==
  ASSUME SameGrant, UNCHANGED <<issued, flow, server>>
  PROVE  UNCHANGED Ledger!lvars
BY DEF SameGrant, LiveGrant, Ledger!lvars

LEMMA LedgerEnds ==
  ASSUME SameGrant, UNCHANGED <<issued, server>>, Ledger!FlowsEnd
  PROVE  Ledger!LNext
BY DEF SameGrant, LiveGrant, Ledger!EndFlows, Ledger!LNext

\* What the operations do to the flows.
LEMMA FlowsOnlyEnd ==
  ASSUME IInv,
         \/ flow' = flow \/ flow' = FlowsDiscarded
         \/ \E f \in Flow : flow[f] # "new" /\ flow' = Popped(f)
  PROVE  Ledger!FlowsEnd
<1>1. flow \in [Flow -> {"new", "open", "gone"}]
  BY DEF IInv, TypeOK
<1> QED BY <1>1 DEF Ledger!FlowsEnd, FlowsDiscarded, Popped

\* A listed server, its flow open or lost with the process.
LEMMA LedgerLists ==
  ASSUME IInv, NEW f \in Flow, CanConnect(f), UNCHANGED issued,
         \/ /\ disk' = AddWrites(f)[2] /\ flow' = [flow EXCEPT ![f] = "open"]
            /\ server' = [server EXCEPT ![f] = f]
         \/ /\ disk' \in CutShort(AddWrites(f)) /\ disk' # disk
            /\ flow' = FlowsDiscarded /\ server' = server
  PROVE  Ledger!LNext
<1>1. disk \in Disk /\ disk.id = None /\ disk.file = None /\ flow[f] = "new"
  BY DEF IInv, TypeOK, ChildInv, CanConnect
<1>2. disk'.id = f /\ disk'.file = None
  <2>1. DiskIs(AddWrites(f)[2], f, FALSE, None, None)
    BY <1>1, Listed
  <2>2. \A d \in CutShort(AddWrites(f)) : d # disk => DiskIs(d, f, FALSE, None, disk.file)
    BY <1>1, Listed
  <2> QED BY <1>1, <2>1, <2>2 DEF DiskIs
<1>3. LiveGrant' = None
  BY <1>2 DEF LiveGrant
<1>4. \/ flow' = [flow EXCEPT ![f] = "open"] /\ server' = [server EXCEPT ![f] = f]
      \/ Ledger!FlowsEnd /\ server' = server
  BY FlowsOnlyEnd
<1>5. Ledger!List(f)
  BY <1>1, <1>2, <1>3, <1>4 DEF Ledger!List
<1> QED BY <1>5 DEF Ledger!LNext

\* A removed server, whether or not its file went too.
LEMMA LedgerUnlists ==
  ASSUME IInv, UNCHANGED <<issued, server>>, flow' = FlowsDiscarded, disk.id # None,
         disk' # disk, disk' \in CutShort(RemoveWrites) \cup {RemoveWrites[2]}
  PROVE  Ledger!LNext
<1>1. disk \in Disk
  BY DEF IInv, TypeOK
<1>2. disk'.id = None
  BY <1>1, Unlisted DEF DiskIs
<1>3. LiveGrant' = None
  BY <1>2 DEF LiveGrant
<1>4. Ledger!Unlist
  BY <1>2, <1>3 DEF Ledger!Unlist, FlowsDiscarded
<1> QED BY <1>4 DEF Ledger!LNext

\* A flow that a callback or a crash takes away is the only open one.
LEMMA OneFlowSpent ==
  ASSUME IInv, NEW p \in Caller, CanFinish(p),
         flow' = Popped(call[p].flow) \/ flow' = FlowsDiscarded
  PROVE  flow' = [flow EXCEPT ![call[p].flow] = "gone"] /\ Ledger!FlowsEnd
<1>1. /\ call[p].flow \in Flow /\ flow[call[p].flow] = "open"
      /\ \A f \in Flow : flow[f] = "open" => f = call[p].flow
  BY CanFinishStands
<1>2. flow \in [Flow -> {"new", "open", "gone"}]
  BY DEF IInv, TypeOK
<1>3. flow' = [flow EXCEPT ![call[p].flow] = "gone"]
  BY <1>1, <1>2 DEF Popped, FlowsDiscarded
<1>4. Ledger!FlowsEnd
  BY <1>1, <1>2, <1>3 DEF Ledger!FlowsEnd
<1> QED BY <1>3, <1>4

\* A sign-in that wrote its file is one write of the ledger, one that did not spends
\* the flow.
LEMMA LedgerSignsIn ==
  ASSUME IInv, NEW p \in Caller, CanFinish(p), NEW r \in BOOLEAN,
         UNCHANGED <<issued, server>>,
         flow' = Popped(call[p].flow) \/ flow' = FlowsDiscarded,
         \/ disk' \in CutShort(SignInWrites(call[p].token, r))
         \/ disk' = SignInWrites(call[p].token, r)[2]
         \/ disk' = EnableWrites(SignInWrites(call[p].token, r)[2])[2]
  PROVE  Ledger!LNext
<1> DEFINE n == call[p].token
           f == call[p].flow
           file == IF r THEN n ELSE None
<1>1. /\ disk \in Disk /\ n \in Token /\ f \in Flow /\ flow[f] = "open" /\ disk.id # None
      /\ issued[n] = [line |-> f, parent |-> None]
      /\ server[f] = disk.id
  BY CanFinishStands DEF IInv, TypeOK, FlowInv
<1>2. file = None \/ file = n
  OBVIOUS
<1>3. \/ disk' = disk \/ DiskIs(disk', disk.id, disk.enabled, disk.header, file)
      \/ DiskIs(disk', disk.id, disk.enabled, n, file) \/ DiskIs(disk', disk.id, TRUE, n, file)
  BY <1>1, SignedIn
<1>4. flow' = [flow EXCEPT ![f] = "gone"] /\ Ledger!FlowsEnd
  BY OneFlowSpent
<1> HIDE DEF file, n, f
<1>5. CASE disk' = disk
  BY <1>4, <1>5, LedgerEnds DEF SameGrant
<1>6. CASE disk'.id = disk.id /\ disk'.file = file
  <2>1. LiveGrant' \in {n, None}
    BY <1>1, <1>2, <1>6 DEF LiveGrant
  <2>2. Ledger!SignIn(f, n)
    BY <1>1, <1>4, <1>6, <2>1 DEF Ledger!SignIn, Ledger!FromCode
  <2> QED BY <1>1, <2>2 DEF Ledger!LNext
<1> QED BY <1>3, <1>5, <1>6 DEF DiskIs

\* A refresh that wrote its file continues the line.
LEMMA LedgerRotates ==
  ASSUME IInv, NEW t \in Task, CanApply(t), UNCHANGED <<issued, server>>,
         flow' = flow \/ flow' = FlowsDiscarded,
         \/ disk' \in CutShort(RefreshWrites(task[t].reply))
         \/ disk' = RefreshWrites(task[t].reply)[2]
  PROVE  Ledger!LNext
<1> DEFINE n == task[t].reply
<1>1. disk \in Disk /\ n \in Token /\ disk.id # None /\ disk.file # None
  BY AnswerFits, CurrentStands DEF IInv, TypeOK
<1>2. issued[n] = [line |-> issued[disk.file].line, parent |-> disk.file]
  BY AnswerFits DEF IInv, TaskInv, TaskOk
<1>3. \/ disk' = disk \/ DiskIs(disk', disk.id, disk.enabled, disk.header, n)
      \/ DiskIs(disk', disk.id, disk.enabled, n, n)
  BY <1>1, Refreshed
<1>4. Ledger!FlowsEnd
  BY FlowsOnlyEnd
<1> HIDE DEF n
<1>5. CASE disk' = disk
  BY <1>4, <1>5, LedgerEnds DEF SameGrant
<1>6. CASE disk'.id = disk.id /\ disk'.file = n
  <2>1. LiveGrant = disk.file /\ LiveGrant' = n
    BY <1>1, <1>6 DEF LiveGrant
  <2>2. Ledger!Rotate(n)
    BY <1>1, <1>2, <1>4, <1>6, <2>1 DEF Ledger!Rotate, Ledger!FromToken
  <2> QED BY <1>1, <2>2 DEF Ledger!LNext
<1> QED BY <1>3, <1>5, <1>6 DEF DiskIs

\* A crash leaves one of the states between two writes, and no open flow.
LEMMA LedgerCrashes ==
  ASSUME IInv, Crash
  PROVE  Ledger!LNext
<1>1. UNCHANGED <<issued, server>> /\ flow' = FlowsDiscarded /\ disk' \in Torn
  BY DEF Crash
<1>2. CASE disk' = disk
  BY <1>1, <1>2, FlowsOnlyEnd, LedgerEnds DEF SameGrant
<1>3. CASE disk' # disk /\ \E f \in Flow : CanConnect(f) /\ disk' \in CutShort(AddWrites(f))
  BY <1>1, <1>3, LedgerLists
<1>4. CASE disk' # disk /\ disk' \in CutShort(RemoveWrites)
  <2>1. CASE disk.id # None
    BY <1>1, <1>4, <2>1, LedgerUnlists
  <2>2. CASE disk.id = None
    <3>1. disk'.id = None
      BY <1>4, Unlisted DEF IInv, TypeOK, DiskIs
    <3> QED BY <1>1, <2>2, <3>1, FlowsOnlyEnd, LedgerEnds DEF SameGrant
  <2> QED BY <2>1, <2>2
<1>5. ASSUME NEW t \in Task, CanApply(t), disk' \in CutShort(RefreshWrites(task[t].reply))
      PROVE  Ledger!LNext
  BY <1>1, <1>5, LedgerRotates
<1>6. ASSUME NEW p \in Caller, NEW r \in BOOLEAN, CanFinish(p),
             disk' \in CutShort(SignInWrites(call[p].token, r))
                         \cup {SignInWrites(call[p].token, r)[2]}
      PROVE  Ledger!LNext
  BY <1>1, <1>6, LedgerSignsIn
<1> QED BY <1>1, <1>2, <1>3, <1>4, <1>5, <1>6, TornIs

\* A token is issued for a code that was posted, or for a token a round holds.
LEMMA LedgerAnswers ==
  ASSUME IInv, SameGrant, UNCHANGED server, Ledger!FlowsEnd,
         NEW n \in Token, Fresh(n), NEW o, issued' = [issued EXCEPT ![n] = o],
         \/ \E f \in Flow : flow[f] # "new" /\ o = [line |-> f, parent |-> None]
         \/ \E m \in Token : issued[m] # None /\ o = [line |-> issued[m].line, parent |-> m]
  PROVE  Ledger!LNext
<1>1. Ledger!Answer(n)
  BY DEF Ledger!Answer, Ledger!FromCode, Ledger!FromToken, Fresh, SameGrant, LiveGrant
<1> QED BY <1>1 DEF Ledger!LNext

LEMMA LedgerFlowStep ==
  ASSUME IInv, NEW f \in Flow, FlowStep(f)
  PROVE  Ledger!LNext
<1>1. CASE Connect(f)
  BY <1>1, LedgerLists DEF Connect
<1>2. CASE Reauthorize(f)
  <2>1. disk.id # None /\ flow[f] = "new" /\ disk' = disk
    BY <1>2 DEF Reauthorize, IInv, ChildInv
  <2>2. Ledger!Reopen(f)
    BY <1>2, <2>1 DEF Reauthorize, Ledger!Reopen, LiveGrant
  <2> QED BY <2>2 DEF Ledger!LNext
<1>3. CASE Expire(f)
  <2>1. flow' = Popped(f) /\ flow[f] # "new" /\ SameGrant /\ UNCHANGED <<issued, server>>
    BY <1>3 DEF Expire, Popped, SameGrant
  <2> QED BY <2>1, FlowsOnlyEnd, LedgerEnds
<1> QED BY <1>1, <1>2, <1>3 DEF FlowStep

\* A callback that writes nothing at most spends its flow.
LEMMA LedgerCallback ==
  ASSUME IInv, NEW p \in Caller, Exchange(p) \/ FinishNothing(p)
  PROVE  Ledger!LNext \/ UNCHANGED Ledger!lvars
<1>1. call[p].job = "callback" /\ call[p].pc # "idle"
  BY DEF Exchange, ExchangeAnswered, ExchangeFails, ExchangeGarbled, FinishNothing, AtLock,
         IInv, CallInv, CallOk
<1>2. call[p].flow \in Flow /\ flow[call[p].flow] # "new"
  <2>1. CallOk(p) /\ call[p] \in CallRec
    BY DEF IInv, CallInv, TypeOK
  <2> QED BY <1>1, <2>1, CallParts DEF CallOk
<1>3. disk' = disk /\ UNCHANGED server
  BY DEF Exchange, ExchangeAnswered, ExchangeFails, ExchangeGarbled, FinishNothing
<1>4. SameGrant
  BY <1>3 DEF SameGrant
<1>5. flow' = flow \/ flow' = Popped(call[p].flow)
  BY DEF Exchange, ExchangeAnswered, ExchangeFails, ExchangeGarbled, FinishNothing
<1>6. Ledger!FlowsEnd
  BY <1>2, <1>5, FlowsOnlyEnd
<1>7. CASE ExchangeAnswered(p)
  <2>1. PICK n \in Token :
          /\ Fresh(n)
          /\ issued' = [issued EXCEPT ![n] = [line |-> call[p].flow, parent |-> None]]
    BY <1>7 DEF ExchangeAnswered
  <2> QED BY <1>2, <1>3, <1>4, <1>6, <2>1, LedgerAnswers
<1>8. CASE ExchangeFails(p) \/ ExchangeGarbled(p) \/ FinishNothing(p)
  <2>1. UNCHANGED issued
    BY <1>8 DEF ExchangeFails, ExchangeGarbled, FinishNothing
  <2> QED BY <1>3, <1>4, <1>6, <2>1, LedgerEnds
<1> QED BY <1>7, <1>8 DEF Exchange

LEMMA LedgerCallStep ==
  ASSUME IInv, NEW p \in Caller, CallStep(p)
  PROVE  Ledger!LNext \/ UNCHANGED Ledger!lvars
<1>1. disk \in Disk
  BY DEF IInv, TypeOK
<1>2. CASE Exchange(p) \/ FinishNothing(p)
  BY <1>2, LedgerCallback
<1>3. CASE FinishConnect(p) \/ FinishReauth(p) \/ FinishFails(p) \/ EnableFails(p)
  <2>1. /\ CanFinish(p) /\ UNCHANGED <<issued, server>> /\ flow' = Popped(call[p].flow)
    BY <1>3 DEF FinishConnect, FinishReauth, FinishFails, EnableFails
  <2>2. \E r \in BOOLEAN :
          \/ disk' \in CutShort(SignInWrites(call[p].token, r))
          \/ disk' = SignInWrites(call[p].token, r)[2]
          \/ disk' = EnableWrites(SignInWrites(call[p].token, r)[2])[2]
    BY <1>3 DEF FinishConnect, FinishReauth, FinishFails, EnableFails
  <2> QED BY <2>1, <2>2, LedgerSignsIn
<1>4. CASE Remove(p)
  <2>1. /\ disk.id # None /\ UNCHANGED <<issued, server>> /\ flow' = FlowsDiscarded
        /\ disk' = RemoveWrites[2]
    BY <1>4, TakesStands DEF Remove, IInv, ChildInv
  <2>2. disk' # disk
    BY <1>1, <2>1, Unlisted DEF DiskIs
  <2> QED BY <2>1, <2>2, LedgerUnlists
<1>5. CASE Disable(p)
  <2>1. disk'.id = disk.id /\ disk'.file = disk.file /\ UNCHANGED <<issued, flow, server>>
    BY <1>1, <1>5, DiskEdits DEF Disable, DiskIs, flowVars
  <2> QED BY <2>1, LedgerStands DEF SameGrant
<1>6. CASE FinishTeardown(p)
  <2>1. UNCHANGED <<issued, flow, server>>
    BY <1>6 DEF FinishTeardown
  <2>2. SameGrant
    <3>1. CASE call[p].job # "remove"
      BY <1>6, <3>1 DEF FinishTeardown, SameGrant
    <3>2. CASE call[p].job = "remove"
      <4>1. call[p].pc = "teardown" /\ call[p] # NoCall
        BY <1>6, Empty DEF FinishTeardown
      <4>2. child = None /\ up
        BY <3>2, <4>1 DEF IInv, LockInv, DownInv
      <4>3. disk.id = None
        BY <4>2 DEF IInv, ChildInv
      <4>4. disk' = [disk EXCEPT !.file = None]
        BY <1>6, <3>2 DEF FinishTeardown
      <4>5. DiskIs([disk EXCEPT !.file = None], disk.id, disk.enabled, disk.header, None)
        BY <1>1, DiskEdits
      <4> QED BY <4>3, <4>4, <4>5 DEF DiskIs, SameGrant
    <3> QED BY <3>1, <3>2
  <2> QED BY <2>1, <2>2, LedgerStands
<1>7. CASE Arrive(p) \/ Refuse(p)
  <2>1. disk' = disk /\ UNCHANGED <<issued, flow, server>>
    BY <1>7 DEF Arrive, BeginCallback, Queue, Refuse, flowVars
  <2> QED BY <2>1, LedgerStands DEF SameGrant
<1> QED BY <1>2, <1>3, <1>4, <1>5, <1>6, <1>7 DEF CallStep, Finish, Operate

LEMMA LedgerTaskStep ==
  ASSUME IInv, NEW t \in Task, TaskLocked(t) \/ TaskFree(t) \/ TaskEnv(t)
  PROVE  Ledger!LNext \/ UNCHANGED Ledger!lvars
<1>1. disk \in Disk
  BY DEF IInv, TypeOK
<1>2. CASE Apply(t) \/ ApplyFails(t)
  BY <1>2, LedgerRotates DEF Apply, ApplyFails, flowVars
<1>3. CASE Renewed(t)
  <2>1. task[t].held \in Token /\ issued[task[t].held] # None
    <3>1. TaskOk(t) /\ task[t] \in TaskRec /\ task[t].phase = "posted"
      BY <1>3 DEF Renewed, IInv, TaskInv, TypeOK
    <3> QED BY <3>1, TaskParts DEF TaskOk
  <2>2. PICK n \in Token :
          /\ Fresh(n)
          /\ issued' = [issued EXCEPT ![n] = [line |-> issued[task[t].held].line,
                                              parent |-> task[t].held]]
    BY <1>3 DEF Renewed
  <2>3. SameGrant /\ UNCHANGED <<flow, server>>
    BY <1>3 DEF Renewed, SameGrant, flowVars
  <2>4. Ledger!FlowsEnd
    BY <2>3, FlowsOnlyEnd
  <2> QED BY <2>1, <2>2, <2>3, <2>4, LedgerAnswers
<1>4. CASE Sync(t)
  <2>1. UNCHANGED <<issued, flow, server>>
    BY <1>4 DEF Sync, flowVars
  <2>2. DiskIs(disk', disk.id, disk.enabled, disk.file, disk.file)
    BY <1>1, <1>4, DiskEdits, DiskParts DEF Sync, RepairedHeader
  <2> QED BY <2>1, <2>2, LedgerStands DEF SameGrant, DiskIs
<1>5. CASE disk' = disk /\ UNCHANGED <<issued, flow, server>>
  BY <1>5, LedgerStands DEF SameGrant
<1> QED BY <1>2, <1>3, <1>4, <1>5
        DEF TaskLocked, TaskFree, TaskEnv, SyncStops, SyncUnreadable, SyncFaults,
            RecordFault, ApplyStops, RecordRejection, Send, SendStops, Retry,
            CancelledEnds, NotRefreshed, CancelSwallowed, taskOnly, flowVars

LEMMA LedgerBoots ==
  ASSUME IInv, Boot
  PROVE  UNCHANGED Ledger!lvars
<1>1. disk \in Disk
  BY DEF IInv, TypeOK
<1>2. UNCHANGED <<issued, flow, server>>
  BY DEF Boot, BootEmpty, BootNoFile, BootRepair, BootFaults, BootUnreadable, Boots, flowVars
<1>3. SameGrant
  <2>1. CASE BootEmpty
    <3>1. disk.id = None /\ disk'.id = disk.id
      BY <1>1, <2>1, DiskEdits DEF BootEmpty, OrphanDropped, DiskIs
    <3> QED BY <3>1 DEF SameGrant
  <2>2. CASE BootRepair
    <3>1. DiskIs(disk', disk.id, disk.enabled, disk.file, disk.file)
      BY <1>1, <2>2, DiskEdits, DiskParts DEF BootRepair, RepairedHeader
    <3> QED BY <3>1 DEF SameGrant, DiskIs
  <2>3. CASE BootNoFile \/ BootFaults \/ BootUnreadable
    BY <2>3 DEF BootNoFile, BootFaults, BootUnreadable, SameGrant
  <2> QED BY <2>1, <2>2, <2>3 DEF Boot
<1> QED BY <1>2, <1>3, LedgerStands

LEMMA LedgerStep ==
  ASSUME IInv, [Next]_vars
  PROVE  Ledger!LNext \/ UNCHANGED Ledger!lvars
<1>1. CASE Enable \/ BuildTransport \/ StartEnds \/ ProbeFails
  <2>1. disk \in Disk /\ UNCHANGED <<issued, flow, server>>
    BY <1>1 DEF Enable, BuildTransport, StartEnds, ProbeFails, flowVars, IInv, TypeOK
  <2>2. disk' = disk \/ disk' = [disk EXCEPT !.enabled = TRUE]
    BY <1>1 DEF Enable, BuildTransport, StartEnds, ProbeFails
  <2>3. SameGrant
    <3>1. DiskIs([disk EXCEPT !.enabled = TRUE], disk.id, TRUE, disk.header, disk.file)
      BY <2>1, DiskEdits
    <3> QED BY <2>2, <3>1 DEF DiskIs, SameGrant
  <2> QED BY <2>1, <2>3, LedgerStands
<1>2. CASE UNCHANGED vars
  BY <1>2, LedgerStands DEF vars, flowVars, SameGrant
<1> QED BY <1>1, <1>2, LedgerFlowStep, LedgerCallStep, LedgerTaskStep, LedgerCrashes,
        LedgerBoots DEF Next

LEMMA LedgerInit == Init => Ledger!LInit
<1> SUFFICES ASSUME Init PROVE Ledger!LInit
  OBVIOUS
<1>1. disk.id = None /\ LiveGrant = None
  BY DEF Init, LiveGrant
<1> QED BY <1>1 DEF Init, Ledger!LInit

\* The two files of a grant, its requests, tasks, locks, failed writes and crashes
\* implement the ledger: one cell that a flow writes once and a refresh continues.
THEOREM LedgerImplemented == Spec => ImplementsLedger
<1>1. IInv /\ [Next]_vars => [Ledger!LNext]_(Ledger!lvars)
  BY LedgerStep
<1> QED BY <1>1, LedgerInit, Inductive, PTL DEF Spec, ImplementsLedger, Ledger!LSpec

=============================================================================
