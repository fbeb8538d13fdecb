------------------------ MODULE ChildLifecycleProofs ------------------------
(***************************************************************************)
(* Proofs about ChildLifecycle, for any sets of keys, revisions, calls and *)
(* readers, whether or not a build may fail and a cancel may be swallowed. *)
(* IInv is inductive: one lemma per action shows that the action keeps it, *)
(* one step per conjunct.  The safety properties follow from it.           *)
(***************************************************************************)
EXTENDS ChildLifecycle, TLAPS

USE ConstantsAssumption DEF Record, Kind, Status, TaskState, PendingStart, Alive,
    Teardown, gateVars, callVars, childVars, genVars

\* An edit of a record is a record.
LEMMA EditedType ==
  ASSUME NEW rec \in Record, NEW r \in Rev, NEW e \in BOOLEAN
  PROVE  Edited(rec, r, e) \in Record
BY DEF Edited

\* A call that was granted its lock names an object and a stored record.
LEMMA GrantedTypes ==
  ASSUME TypeOK, CallsInv, TablesInv, NEW p \in Call, NEW op, Granted(p, op)
  PROVE  key[p] \in Key /\ target[p] \in Call /\ registry[key[p]] \in Record
BY DEF TypeOK, CallsInv, TablesInv, Granted

\* What the first block of a teardown assigns has its type.
LEMMA StartTeardownTypes ==
  ASSUME TypeOK, NEW p \in Call, target[p] \in Call, StartTeardown(p)
  PROVE  /\ lock' \in [Call -> Call \cup {None}]
         /\ task' \in [Call -> TaskState]
         /\ pc' \in [Call -> {"idle", "waiting", "done"} \cup Teardown]
         /\ provider' \in [Call -> Call \cup {None}]
         /\ genState' \in [Call -> {"unborn", "closed"} \cup Alive]
         /\ probe' \in [Call -> {"none", "scheduled", "reading", "failed"}]
BY SMTT(60) DEF TypeOK, StartTeardown, Withdraw

\* A teardown takes away the provider and the task, never the session.
LEMMA TeardownKeepsGenerations ==
  ASSUME TypeOK, GenerationInv, NEW p \in Call, target[p] \in Call,
         pc[p] = "waiting", StartTeardown(p), UNCHANGED <<session, run, target>>
  PROVE  GenerationInv'
<1>1. /\ \A g \in Call : genState'[g] \in Alive <=> genState[g] \in Alive
      /\ \A g \in Call : genState'[g] = "unborn" <=> genState[g] = "unborn"
  BY DEF TypeOK, GenerationInv, StartTeardown, Withdraw
<1>2. \A q \in Call : pc[q] = "done" => pc'[q] = "done"
  BY DEF TypeOK, StartTeardown, Withdraw
<1>3. \A c \in Call : task'[c] = "created" => task[c] = "created"
  BY DEF TypeOK, StartTeardown, Withdraw
<1>4. QED
  BY <1>1, <1>2, <1>3 DEF TypeOK, GenerationInv

\* A generation that an operation closes was drained, or its drain expired.
LEMMA ClosingKeepsLeases ==
  ASSUME TypeOK, CallsInv, LeaseInv, NEW p \in Call, NEW op, Finishing(p, op)
  PROVE  LeaseInv'
<1> DEFINE g == session[target[p]]
<1>1. target[p] \in Call /\ pc[p] = "closing"
  BY DEF TypeOK, CallsInv, Finishing
<1>2. g # None /\ g \notin expired => Idle(g)
  BY <1>1 DEF LeaseInv
<1>3. \A h \in Call : /\ genState'[h] = "unborn" => genState[h] = "unborn"
                      /\ genState'[h] = "closed" => genState[h] = "closed" \/ h = g
  BY <1>1 DEF TypeOK, Finishing, CloseSession
<1>4. \A q \in Call : pc'[q] = "closing" =>
        /\ pc[q] = "closing"
        /\ session'[target[q]] # None => session'[target[q]] = session[target[q]]
  BY <1>1 DEF TypeOK, CallsInv, Finishing, CloseSession
<1>5. UNCHANGED <<target, leases, probe, expired>>
  BY DEF Finishing
<1>6. QED
  BY <1>2, <1>3, <1>4, <1>5 DEF LeaseInv, Idle

\* When `startup` returns every object is current and only starts are pending.
LEMMA InitIInv == Init => IInv
<1> SUFFICES ASSUME Init PROVE IInv
  OBVIOUS
<1>0. \A c \in Call : key[c] # None =>
        key[c] \in Key /\ children[key[c]] = c /\ registry[key[c]] \in Record
  BY DEF Init
<1>1. TypeOK
  BY <1>0 DEF Init, TypeOK
<1>2. CallsInv
  BY <1>0 DEF Init, CallsInv
<1>3. TablesInv
  <2>1. \A k \in Key : children[k] # None =>
          children[k] \in Call /\ key[children[k]] = k
    BY DEF Init
  <2>2. \A k \in Key : children[k] # None => target[children[k]] = children[k]
    BY <2>1 DEF Init
  <2>3. QED
    BY <2>1, <2>2 DEF Init, TablesInv
<1>4. LockInv
  BY <1>0 DEF Init, LockInv
<1>5. TeardownInv
  BY <1>0 DEF Init, TeardownInv
<1>6. FreeInv
  BY <1>0 DEF Init, FreeInv, MayRun, Current
<1>7. GenerationInv
  BY <1>0 DEF Init, GenerationInv
<1>8. LeaseInv
  BY <1>0 DEF Init, LeaseInv, Idle
<1>9. QED
  BY <1>1, <1>2, <1>3, <1>4, <1>5, <1>6, <1>7, <1>8 DEF IInv

-----------------------------------------------------------------------------
\* The first step of a start gives its generation, fresh until now, to the child.
LEMMA RunStartStep ==
  ASSUME IInv, NEW k \in Key, RunStart(k)
  PROVE  IInv'
<1>0. TypeOK /\ CallsInv /\ TablesInv /\ LockInv /\ TeardownInv /\ FreeInv
      /\ GenerationInv /\ LeaseInv
  BY DEF IInv
<1>1. TypeOK'
  BY <1>0 DEF TypeOK, RunStart
<1>2. CallsInv'
  BY <1>0 DEF TypeOK, CallsInv, RunStart
<1>3. TablesInv'
  BY <1>0 DEF TypeOK, TablesInv, RunStart
<1>4. LockInv'
  BY <1>0 DEF TypeOK, LockInv, RunStart
<1>5. TeardownInv'
  BY <1>0 DEF TypeOK, CallsInv, LockInv, TeardownInv, FreeInv, MayRun, Current,
       Startable, Approved, GenerationInv, RunStart
<1>6. FreeInv'
  BY <1>0 DEF TypeOK, CallsInv, LockInv, FreeInv, MayRun, Current, Startable,
       Approved, GenerationInv, RunStart
<1>7. GenerationInv'
  <2> DEFINE c == children[k]
  <2>1. c \in Call /\ task[c] = "created" /\ lock[c] = None
    BY <1>0 DEF TypeOK, LockInv, TeardownInv, RunStart
  <2>2. /\ run[c] \in Call
        /\ target[run[c]] = c
        /\ pc[run[c]] = "done"
        /\ genState[run[c]] = "unborn"
        /\ session[c] = None
    BY <1>0, <2>1 DEF TypeOK, FreeInv, GenerationInv
  <2>3. CASE task' = [task EXCEPT ![c] = "crashed"] /\ UNCHANGED <<session, genState>>
    BY <1>0, <2>1, <2>3 DEF TypeOK, GenerationInv, RunStart
  <2>4. CASE /\ task' = [task EXCEPT ![c] = "probing"]
             /\ session' = [session EXCEPT ![c] = run[c]]
             /\ genState' = [genState EXCEPT ![run[c]] = "starting"]
    <3>1. /\ \A d \in Call : d # c => task'[d] = task[d] /\ session'[d] = session[d]
          /\ \A g \in Call : g # run[c] => genState'[g] = genState[g]
          /\ task'[c] = "probing" /\ session'[c] = run[c]
          /\ genState'[run[c]] = "starting"
      BY <1>0, <2>1, <2>2, <2>4 DEF TypeOK
    <3>2. \A d \in Call : session'[d] # None =>
            target[session'[d]] = d /\ genState'[session'[d]] \in Alive
      BY <1>0, <2>1, <2>2, <3>1 DEF TypeOK, GenerationInv
    <3>3. \A g \in Call : genState'[g] \in Alive => session'[target[g]] = g
      <4> SUFFICES ASSUME NEW g \in Call, g # run[c], genState[g] \in Alive
                   PROVE  session'[target[g]] = g
        BY <2>2, <3>1
      <4>1. target[g] \in Call /\ session[target[g]] = g
        BY <1>0 DEF TypeOK, CallsInv, GenerationInv
      <4>2. target[g] # c
        BY <2>2, <4>1
      <4>3. QED
        BY <3>1, <4>1, <4>2
    <3>4. \A d \in Call : task'[d] = "created" =>
            run[d] # None /\ target[run[d]] = d /\ pc[run[d]] = "done"
            /\ genState'[run[d]] = "unborn"
      BY <1>0, <2>1, <2>2, <3>1 DEF TypeOK, GenerationInv
    <3>5. \A g \in Call : genState'[g] # "unborn" => pc[g] = "done"
      BY <1>0, <2>1, <2>2, <3>1 DEF TypeOK, GenerationInv
    <3>6. QED
      BY <3>2, <3>3, <3>4, <3>5 DEF GenerationInv, RunStart
  <2>5. QED
    BY <2>3, <2>4 DEF RunStart
<1>8. LeaseInv'
  <2> DEFINE c == children[k]
  <2>1. \A p \in Call : pc[p] = "closing" => target[p] # c
    BY <1>0 DEF TeardownInv, RunStart
  <2>2. \A d \in Call : d # c => session'[d] = session[d]
    BY <1>0 DEF TypeOK, RunStart
  <2>3. \A g \in Call : /\ genState'[g] = "unborn" => genState[g] = "unborn"
                        /\ genState'[g] = "closed" => genState[g] = "closed"
    BY <1>0 DEF TypeOK, RunStart
  <2>4. \A p \in Call : pc[p] = "closing" => target[p] \in Call
    BY <1>0 DEF TypeOK, CallsInv
  <2>5. UNCHANGED <<pc, target, leases, probe, expired>>
    BY DEF RunStart
  <2>6. QED
    BY <1>0, <2>1, <2>2, <2>3, <2>4, <2>5 DEF LeaseInv, Idle
<1>9. QED
  BY <1>1, <1>2, <1>3, <1>4, <1>5, <1>6, <1>7, <1>8 DEF IInv

\* A visibility write may only refresh the revision the child remembers.
LEMMA MuteStep ==
  ASSUME IInv, NEW k \in Key, Mute(k)
  PROVE  IInv'
<1>0. TypeOK /\ CallsInv /\ TablesInv /\ LockInv /\ TeardownInv /\ FreeInv
      /\ GenerationInv /\ LeaseInv
  BY DEF IInv
<1>1. TypeOK'
  BY <1>0 DEF TypeOK, CallsInv, TablesInv, LockInv, Mute
<1>2. CallsInv'
  BY <1>0 DEF TypeOK, CallsInv, Mute
<1>3. TablesInv'
  BY <1>0 DEF TypeOK, TablesInv, Mute
<1>4. LockInv'
  BY <1>0 DEF TypeOK, LockInv, Mute
<1>5. TeardownInv'
  BY <1>0 DEF TypeOK, TeardownInv, Mute
<1>6. FreeInv'
  BY <1>0 DEF TypeOK, CallsInv, TablesInv, LockInv, FreeInv, MayRun, Current,
       Startable, Approved, Mute
<1>7. GenerationInv'
  BY <1>0 DEF TypeOK, GenerationInv, Mute
<1>8. LeaseInv'
  BY <1>0 DEF TypeOK, CallsInv, LeaseInv, Idle, Mute
<1>9. QED
  BY <1>1, <1>2, <1>3, <1>4, <1>5, <1>6, <1>7, <1>8 DEF IInv

\* A new server gets a new object and starts only when it needs no approval.
LEMMA AddStep ==
  ASSUME IInv, NEW p \in Call, NEW k \in Key, Add(p, k)
  PROVE  IInv'
<1>0. TypeOK /\ CallsInv /\ TablesInv /\ LockInv /\ TeardownInv /\ FreeInv
      /\ GenerationInv /\ LeaseInv
  BY DEF IInv
<1>1. TypeOK'
  <2>1. PICK r \in Rev, e \in BOOLEAN :
          LET rec == [rev |-> r, approved |-> None, enabled |-> e]
          IN  /\ registry' = [registry EXCEPT ![k] = rec]
              /\ StartUnlessPending(k, p, p, rec)
    BY DEF Add
  <2>2. registry' \in [Key -> Record \cup {None}]
    BY <1>0, <2>1 DEF TypeOK
  <2>3. /\ status' \in [Call -> Status] /\ spec' \in [Call -> Rev \cup {None}]
        /\ task' \in [Call -> TaskState] /\ run' \in [Call -> Call \cup {None}]
    <3>1. /\ \/ status' = [status EXCEPT ![p] = "starting"]
             \/ status' = [status EXCEPT ![p] = "stopped"]
          /\ spec' = [spec EXCEPT ![p] = r]
          /\ task' = task \/ task' = [task EXCEPT ![p] = "created"]
          /\ run' = run \/ run' = [run EXCEPT ![p] = p]
      BY <2>1 DEF StartUnlessPending, BeginStart
    <3>2. status' \in [Call -> Status] /\ spec' \in [Call -> Rev \cup {None}]
      BY <1>0, <3>1 DEF TypeOK
    <3>3. task' \in [Call -> TaskState] /\ run' \in [Call -> Call \cup {None}]
      BY <1>0, <3>1 DEF TypeOK
    <3> QED BY <3>2, <3>3
  <2>4. /\ children' \in [Key -> Call \cup {None}] /\ key' \in [Call -> Key \cup {None}]
        /\ kind' \in [Call -> Kind \cup {None}] /\ target' \in [Call -> Call \cup {None}]
        /\ pc' \in [Call -> {"idle", "waiting", "done"} \cup Teardown]
    BY <1>0 DEF TypeOK, Add
  <2>5. UNCHANGED <<removing, lock, session, provider, genVars>>
    BY DEF Add
  <2>6. QED
    BY <1>0, <2>2, <2>3, <2>4, <2>5 DEF TypeOK
<1>2. CallsInv'
  BY <1>0 DEF TypeOK, CallsInv, Add, StartUnlessPending, BeginStart
<1>3. TablesInv'
  BY <1>0 DEF TypeOK, CallsInv, TablesInv, Add, StartUnlessPending, BeginStart
<1>4. LockInv'
  BY <1>0 DEF TypeOK, LockInv, Add, StartUnlessPending, BeginStart
<1>5. TeardownInv'
  BY <1>0 DEF TypeOK, CallsInv, TablesInv, LockInv, TeardownInv, Add,
       StartUnlessPending, BeginStart
<1>6. FreeInv'
  BY <1>0 DEF TypeOK, CallsInv, TablesInv, LockInv, FreeInv, MayRun, Current,
       Startable, Approved, Add, StartUnlessPending, BeginStart
<1>7. GenerationInv'
  BY <1>0 DEF TypeOK, GenerationInv, Add, StartUnlessPending, BeginStart
<1>8. LeaseInv'
  BY <1>0 DEF TypeOK, CallsInv, LeaseInv, Idle, Add, StartUnlessPending,
       BeginStart
<1>9. QED
  BY <1>1, <1>2, <1>3, <1>4, <1>5, <1>6, <1>7, <1>8 DEF IInv

\* A call that queues for a lock binds a current object and changes no child.
LEMMA InvokeStep ==
  ASSUME IInv, NEW p \in Call, NEW k \in Key, Invoke(p, k)
  PROVE  IInv'
<1>0. TypeOK /\ CallsInv /\ TablesInv /\ LockInv /\ TeardownInv /\ FreeInv
      /\ GenerationInv /\ LeaseInv
  BY DEF IInv
<1>1. TypeOK'
  BY <1>0 DEF TypeOK, Invoke
<1>2. CallsInv'
  BY <1>0 DEF TypeOK, CallsInv, TablesInv, LockInv, Invoke
<1>3. TablesInv'
  BY <1>0 DEF TypeOK, CallsInv, TablesInv, Invoke
<1>4. LockInv'
  BY <1>0 DEF TypeOK, LockInv, Invoke
<1>5. TeardownInv'
  BY <1>0 DEF TypeOK, TeardownInv, Invoke
<1>6. FreeInv'
  BY <1>0 DEF TypeOK, CallsInv, TablesInv, LockInv, FreeInv, MayRun, Current,
       Startable, Approved, Invoke
<1>7. GenerationInv'
  BY <1>0 DEF TypeOK, GenerationInv, Invoke
<1>8. LeaseInv'
  BY <1>0 DEF TypeOK, CallsInv, LeaseInv, Idle, Invoke
<1>9. QED
  BY <1>1, <1>2, <1>3, <1>4, <1>5, <1>6, <1>7, <1>8 DEF IInv

\* A queued call that is cancelled leaves the children alone.
LEMMA AbandonStep ==
  ASSUME IInv, NEW p \in Call, Abandon(p)
  PROVE  IInv'
<1>0. TypeOK /\ CallsInv /\ TablesInv /\ LockInv /\ TeardownInv /\ FreeInv
      /\ GenerationInv /\ LeaseInv
  BY DEF IInv
<1>1. TypeOK'
  BY <1>0 DEF TypeOK, Abandon
<1>2. CallsInv'
  BY <1>0 DEF TypeOK, CallsInv, Abandon
<1>3. TablesInv'
  BY <1>0 DEF TypeOK, TablesInv, Abandon
<1>4. LockInv'
  BY <1>0 DEF TypeOK, LockInv, Abandon
<1>5. TeardownInv'
  BY <1>0 DEF TypeOK, TeardownInv, Abandon
<1>6. FreeInv'
  BY <1>0 DEF TypeOK, FreeInv, MayRun, Current, Startable, Approved, Abandon
<1>7. GenerationInv'
  BY <1>0 DEF TypeOK, GenerationInv, Abandon
<1>8. LeaseInv'
  BY <1>0 DEF TypeOK, CallsInv, LeaseInv, Idle, Abandon
<1>9. QED
  BY <1>1, <1>2, <1>3, <1>4, <1>5, <1>6, <1>7, <1>8 DEF IInv

\* An operation that refuses leaves the children alone.
LEMMA RefuseStep ==
  ASSUME IInv, NEW p \in Call, Refuse(p)
  PROVE  IInv'
<1>0. TypeOK /\ CallsInv /\ TablesInv /\ LockInv /\ TeardownInv /\ FreeInv
      /\ GenerationInv /\ LeaseInv
  BY DEF IInv
<1>1. TypeOK'
  BY <1>0 DEF TypeOK, Refuse
<1>2. CallsInv'
  BY <1>0 DEF TypeOK, CallsInv, Refuse
<1>3. TablesInv'
  BY <1>0 DEF TypeOK, TablesInv, Refuse
<1>4. LockInv'
  BY <1>0 DEF TypeOK, LockInv, Refuse
<1>5. TeardownInv'
  BY <1>0 DEF TypeOK, TeardownInv, Refuse
<1>6. FreeInv'
  BY <1>0 DEF TypeOK, FreeInv, MayRun, Current, Startable, Approved, Refuse
<1>7. GenerationInv'
  BY <1>0 DEF TypeOK, GenerationInv, Refuse
<1>8. LeaseInv'
  BY <1>0 DEF TypeOK, CallsInv, LeaseInv, Idle, Refuse
<1>9. QED
  BY <1>1, <1>2, <1>3, <1>4, <1>5, <1>6, <1>7, <1>8 DEF IInv

\* A stopped child holds nothing, so starting it loses nothing.
LEMMA EnableStep ==
  ASSUME IInv, NEW p \in Call, Enable(p)
  PROVE  IInv'
<1>0. TypeOK /\ CallsInv /\ TablesInv /\ LockInv /\ TeardownInv /\ FreeInv
      /\ GenerationInv /\ LeaseInv
  BY DEF IInv
<1>1. TypeOK'
  BY <1>0 DEF TypeOK, CallsInv, TablesInv, LockInv, Enable, Granted, BeginStart,
       Edited
<1>2. CallsInv'
  BY <1>0 DEF TypeOK, CallsInv, Enable, Granted, BeginStart, Edited
<1>3. TablesInv'
  <2>1. registry[key[p]] \in Record /\ key[p] \in Key
    BY <1>0, GrantedTypes DEF Enable
  <2>2. registry'[key[p]] \in Record
    BY <1>0, <2>1, EditedType, ZenonT(60) DEF TypeOK, Enable
  <2>3. registry'[key[p]] # None
    BY <2>2
  <2>4. \A k \in Key : k # key[p] => registry'[k] = registry[k]
    BY <1>0, <2>1 DEF TypeOK, Enable
  <2>5. QED
    BY <1>0, <2>1, <2>3, <2>4, ZenonT(60) DEF TablesInv, Enable, Granted
<1>4. LockInv'
  BY <1>0 DEF TypeOK, LockInv, Enable, Granted, BeginStart, Edited
<1>5. TeardownInv'
  BY <1>0 DEF TypeOK, CallsInv, TablesInv, LockInv, TeardownInv, Enable,
       Granted, BeginStart, Edited
<1>6. FreeInv'
  BY <1>0 DEF TypeOK, CallsInv, FreeInv, MayRun, Current, Startable, Approved,
       Enable, Granted, BeginStart, Edited
<1>7. GenerationInv'
  BY <1>0 DEF TypeOK, GenerationInv, Enable, Granted, BeginStart, Edited
<1>8. LeaseInv'
  BY <1>0 DEF TypeOK, CallsInv, LeaseInv, Idle, Enable, Granted, BeginStart,
       Edited
<1>9. QED
  BY <1>1, <1>2, <1>3, <1>4, <1>5, <1>6, <1>7, <1>8 DEF IInv

\* An approval starts a child that was stopped for the lack of it.
LEMMA ApproveStep ==
  ASSUME IInv, NEW p \in Call, Approve(p)
  PROVE  IInv'
<1>0. TypeOK /\ CallsInv /\ TablesInv /\ LockInv /\ TeardownInv /\ FreeInv
      /\ GenerationInv /\ LeaseInv
  BY DEF IInv
<1>1. TypeOK'
  <2>1. key[p] \in Key /\ target[p] \in Call /\ registry[key[p]] \in Record
    BY <1>0, GrantedTypes DEF Approve
  <2>2. [rev |-> registry[key[p]].rev, approved |-> registry[key[p]].rev,
         enabled |-> registry[key[p]].enabled] \in Record
    BY <2>1
  <2>3. registry' \in [Key -> Record \cup {None}]
    BY <1>0, <2>1, <2>2 DEF TypeOK, Approve
  <2>4. /\ status' \in [Call -> Status] /\ spec' \in [Call -> Rev \cup {None}]
        /\ task' \in [Call -> TaskState] /\ run' \in [Call -> Call \cup {None}]
    BY <1>0, <2>1, SMTT(60) DEF TypeOK, Approve, BeginStart
  <2>5. QED
    BY <1>0, <2>3, <2>4 DEF TypeOK, Approve
<1>2. CallsInv'
  BY <1>0 DEF TypeOK, CallsInv, Approve, Granted, BeginStart
<1>3. TablesInv'
  BY <1>0 DEF TypeOK, CallsInv, TablesInv, Approve, Granted, BeginStart
<1>4. LockInv'
  BY <1>0 DEF TypeOK, LockInv, Approve, Granted, BeginStart
<1>5. TeardownInv'
  BY <1>0 DEF TypeOK, CallsInv, TablesInv, LockInv, TeardownInv, Approve,
       Granted, BeginStart
<1>6. FreeInv'
  BY <1>0 DEF TypeOK, CallsInv, FreeInv, MayRun, Current, Startable, Approved,
       Approve, Granted, BeginStart
<1>7. GenerationInv'
  BY <1>0 DEF TypeOK, GenerationInv, Approve, Granted, BeginStart
<1>8. LeaseInv'
  BY <1>0 DEF TypeOK, CallsInv, LeaseInv, Idle, Approve, Granted, BeginStart
<1>9. QED
  BY <1>1, <1>2, <1>3, <1>4, <1>5, <1>6, <1>7, <1>8 DEF IInv

\* The edit is persisted, and nothing of the old revision stays published.
LEMMA BeginUpdateStep ==
  ASSUME IInv, NEW p \in Call, BeginUpdate(p)
  PROVE  IInv'
<1>0. TypeOK /\ CallsInv /\ TablesInv /\ LockInv /\ TeardownInv /\ FreeInv
      /\ GenerationInv /\ LeaseInv
  BY DEF IInv
<1>1. TypeOK'
  <2>1. key[p] \in Key /\ target[p] \in Call /\ registry[key[p]] \in Record
    BY <1>0, GrantedTypes DEF BeginUpdate
  <2>2. registry' \in [Key -> Record \cup {None}]
    <3>1. PICK r \in Rev, e \in BOOLEAN :
            registry' = [registry EXCEPT ![key[p]] = Edited(@, r, e)]
      BY DEF BeginUpdate
    <3>2. Edited(registry[key[p]], r, e) \in Record
      BY <2>1, EditedType
    <3>3. QED
      BY <1>0, <2>1, <3>1, <3>2 DEF TypeOK
  <2>3. UNCHANGED <<children, spec, status>>
    BY <1>0, <2>1 DEF TypeOK, BeginUpdate
  <2>4. /\ lock' \in [Call -> Call \cup {None}] /\ task' \in [Call -> TaskState]
        /\ pc' \in [Call -> {"idle", "waiting", "done"} \cup Teardown]
        /\ provider' \in [Call -> Call \cup {None}]
        /\ genState' \in [Call -> {"unborn", "closed"} \cup Alive]
        /\ probe' \in [Call -> {"none", "scheduled", "reading", "failed"}]
    BY <1>0, <2>1, StartTeardownTypes DEF BeginUpdate
  <2>5. QED
    BY <1>0, <2>2, <2>3, <2>4 DEF TypeOK, BeginUpdate
<1>2. CallsInv'
  BY <1>0 DEF TypeOK, CallsInv, BeginUpdate, Granted, StartTeardown, Withdraw,
       Edited
<1>3. TablesInv'
  BY <1>0 DEF TypeOK, CallsInv, TablesInv, BeginUpdate, Granted, StartTeardown,
       Withdraw, Edited
<1>4. LockInv'
  BY <1>0 DEF TypeOK, LockInv, BeginUpdate, Granted, StartTeardown, Withdraw,
       Edited
<1>5. TeardownInv'
  BY <1>0 DEF TypeOK, CallsInv, LockInv, TeardownInv, FreeInv, MayRun, Current,
       Startable, Approved, GenerationInv, BeginUpdate, Granted,
       StartTeardown, Withdraw, Edited
<1>6. FreeInv'
  BY <1>0 DEF TypeOK, CallsInv, LockInv, FreeInv, MayRun, Current, Startable,
       Approved, GenerationInv, BeginUpdate, Granted, StartTeardown, Withdraw,
       Edited
<1>7. GenerationInv'
  BY <1>0, GrantedTypes, TeardownKeepsGenerations DEF BeginUpdate, Granted
<1>8. LeaseInv'
  BY <1>0, SMTT(30) DEF TypeOK, CallsInv, LeaseInv, Idle, BeginUpdate, Granted,
       StartTeardown, Withdraw, Edited
<1>9. QED
  BY <1>1, <1>2, <1>3, <1>4, <1>5, <1>6, <1>7, <1>8 DEF IInv

\* The record is disabled before the generation is gone.
LEMMA BeginDisableStep ==
  ASSUME IInv, NEW p \in Call, BeginDisable(p)
  PROVE  IInv'
<1>0. TypeOK /\ CallsInv /\ TablesInv /\ LockInv /\ TeardownInv /\ FreeInv
      /\ GenerationInv /\ LeaseInv
  BY DEF IInv
<1>1. TypeOK'
  <2>1. key[p] \in Key /\ target[p] \in Call /\ registry[key[p]] \in Record
    BY <1>0, GrantedTypes DEF BeginDisable
  <2>2. registry' \in [Key -> Record \cup {None}]
    <3>1. registry[key[p]].rev \in Rev /\ FALSE \in BOOLEAN
      BY <2>1
    <3>2. Edited(registry[key[p]], registry[key[p]].rev, FALSE) \in Record
      BY <2>1, <3>1, EditedType
    <3>3. QED
      BY <1>0, <2>1, <3>2 DEF TypeOK, BeginDisable
  <2>3. spec' \in [Call -> Rev \cup {None}]
    BY <1>0, <2>1 DEF TypeOK, BeginDisable
  <2>4. /\ lock' \in [Call -> Call \cup {None}] /\ task' \in [Call -> TaskState]
        /\ pc' \in [Call -> {"idle", "waiting", "done"} \cup Teardown]
        /\ provider' \in [Call -> Call \cup {None}]
        /\ genState' \in [Call -> {"unborn", "closed"} \cup Alive]
        /\ probe' \in [Call -> {"none", "scheduled", "reading", "failed"}]
    BY <1>0, <2>1, StartTeardownTypes DEF BeginDisable
  <2>5. QED
    BY <1>0, <2>2, <2>3, <2>4 DEF TypeOK, BeginDisable
<1>2. CallsInv'
  BY <1>0 DEF TypeOK, CallsInv, BeginDisable, Granted, StartTeardown, Withdraw,
       Edited
<1>3. TablesInv'
  <2>1. registry[key[p]] \in Record /\ key[p] \in Key
    BY <1>0, GrantedTypes DEF BeginDisable
  <2>2. registry'[key[p]] \in Record
    BY <1>0, <2>1, EditedType DEF TypeOK, BeginDisable
  <2>3. registry'[key[p]] # None
    BY <2>2
  <2>4. \A k \in Key : k # key[p] => registry'[k] = registry[k]
    BY <1>0, <2>1 DEF TypeOK, BeginDisable
  <2>5. QED
    BY <1>0, <2>1, <2>3, <2>4, ZenonT(60) DEF TablesInv, BeginDisable, Granted
<1>4. LockInv'
  BY <1>0 DEF TypeOK, LockInv, BeginDisable, Granted, StartTeardown, Withdraw,
       Edited
<1>5. TeardownInv'
  BY <1>0 DEF TypeOK, CallsInv, LockInv, TeardownInv, FreeInv, MayRun, Current,
       Startable, Approved, GenerationInv, BeginDisable, Granted,
       StartTeardown, Withdraw, Edited
<1>6. FreeInv'
  BY <1>0 DEF TypeOK, CallsInv, LockInv, FreeInv, MayRun, Current, Startable,
       Approved, GenerationInv, BeginDisable, Granted, StartTeardown,
       Withdraw, Edited
<1>7. GenerationInv'
  BY <1>0, GrantedTypes, TeardownKeepsGenerations DEF BeginDisable, Granted
<1>8. LeaseInv'
  BY <1>0, SMTT(60) DEF TypeOK, CallsInv, LeaseInv, Idle, BeginDisable, Granted,
       StartTeardown, Withdraw, Edited
<1>9. QED
  BY <1>1, <1>2, <1>3, <1>4, <1>5, <1>6, <1>7, <1>8 DEF IInv

\* A restart takes the lock and leaves the record enabled.
LEMMA BeginRestartStep ==
  ASSUME IInv, NEW p \in Call, BeginRestart(p)
  PROVE  IInv'
<1>0. TypeOK /\ CallsInv /\ TablesInv /\ LockInv /\ TeardownInv /\ FreeInv
      /\ GenerationInv /\ LeaseInv
  BY DEF IInv
<1>1. TypeOK'
  <2>1. key[p] \in Key /\ target[p] \in Call /\ registry[key[p]] \in Record
    BY <1>0, GrantedTypes DEF BeginRestart
  <2>2. registry' \in [Key -> Record \cup {None}]
    BY <1>0 DEF TypeOK, BeginRestart
  <2>3. UNCHANGED <<children, spec, status>>
    BY <1>0, <2>1 DEF TypeOK, BeginRestart
  <2>4. /\ lock' \in [Call -> Call \cup {None}] /\ task' \in [Call -> TaskState]
        /\ pc' \in [Call -> {"idle", "waiting", "done"} \cup Teardown]
        /\ provider' \in [Call -> Call \cup {None}]
        /\ genState' \in [Call -> {"unborn", "closed"} \cup Alive]
        /\ probe' \in [Call -> {"none", "scheduled", "reading", "failed"}]
    BY <1>0, <2>1, StartTeardownTypes DEF BeginRestart
  <2>5. QED
    BY <1>0, <2>2, <2>3, <2>4 DEF TypeOK, BeginRestart
<1>2. CallsInv'
  BY <1>0 DEF TypeOK, CallsInv, BeginRestart, Granted, StartTeardown, Withdraw
<1>3. TablesInv'
  BY <1>0 DEF TypeOK, TablesInv, BeginRestart, Granted, StartTeardown, Withdraw
<1>4. LockInv'
  BY <1>0 DEF TypeOK, LockInv, BeginRestart, Granted, StartTeardown, Withdraw
<1>5. TeardownInv'
  BY <1>0 DEF TypeOK, CallsInv, LockInv, TeardownInv, FreeInv, MayRun, Current,
       Startable, Approved, GenerationInv, BeginRestart, Granted,
       StartTeardown, Withdraw
<1>6. FreeInv'
  BY <1>0 DEF TypeOK, CallsInv, LockInv, FreeInv, MayRun, Current, Startable,
       Approved, GenerationInv, BeginRestart, Granted, StartTeardown, Withdraw
<1>7. GenerationInv'
  BY <1>0, GrantedTypes, TeardownKeepsGenerations DEF BeginRestart, Granted
<1>8. LeaseInv'
  BY <1>0, SMTT(30) DEF TypeOK, CallsInv, LeaseInv, Idle, BeginRestart, Granted,
       StartTeardown, Withdraw
<1>9. QED
  BY <1>1, <1>2, <1>3, <1>4, <1>5, <1>6, <1>7, <1>8 DEF IInv

\* The removal reserves the key for as long as the generation lives.
LEMMA BeginRemoveStep ==
  ASSUME IInv, NEW p \in Call, BeginRemove(p)
  PROVE  IInv'
<1>0. TypeOK /\ CallsInv /\ TablesInv /\ LockInv /\ TeardownInv /\ FreeInv
      /\ GenerationInv /\ LeaseInv
  BY DEF IInv
<1>1. TypeOK'
  <2>1. key[p] \in Key /\ target[p] \in Call /\ registry[key[p]] \in Record
    BY <1>0, GrantedTypes DEF BeginRemove
  <2>2. registry' \in [Key -> Record \cup {None}]
    BY <1>0, <2>1 DEF TypeOK, BeginRemove
  <2>3. /\ children' \in [Key -> Call \cup {None}] /\ removing' \subseteq Key
        /\ status' \in [Call -> Status]
    BY <1>0, <2>1 DEF TypeOK, BeginRemove
  <2>4. /\ lock' \in [Call -> Call \cup {None}] /\ task' \in [Call -> TaskState]
        /\ pc' \in [Call -> {"idle", "waiting", "done"} \cup Teardown]
        /\ provider' \in [Call -> Call \cup {None}]
        /\ genState' \in [Call -> {"unborn", "closed"} \cup Alive]
        /\ probe' \in [Call -> {"none", "scheduled", "reading", "failed"}]
    BY <1>0, <2>1, StartTeardownTypes DEF BeginRemove
  <2>5. QED
    BY <1>0, <2>2, <2>3, <2>4 DEF TypeOK, BeginRemove
<1>2. CallsInv'
  BY <1>0 DEF TypeOK, CallsInv, BeginRemove, Granted, StartTeardown, Withdraw
<1>3. TablesInv'
  BY <1>0 DEF TypeOK, TablesInv, BeginRemove, Granted, StartTeardown, Withdraw
<1>4. LockInv'
  BY <1>0 DEF TypeOK, LockInv, BeginRemove, Granted, StartTeardown, Withdraw
<1>5. TeardownInv'
  BY <1>0 DEF TypeOK, CallsInv, LockInv, TeardownInv, FreeInv, MayRun, Current,
       Startable, Approved, GenerationInv, BeginRemove, Granted,
       StartTeardown, Withdraw
<1>6. FreeInv'
  BY <1>0 DEF TypeOK, CallsInv, LockInv, FreeInv, MayRun, Current, Startable,
       Approved, GenerationInv, BeginRemove, Granted, StartTeardown, Withdraw
<1>7. GenerationInv'
  BY <1>0, GrantedTypes, TeardownKeepsGenerations DEF BeginRemove, Granted
<1>8. LeaseInv'
  BY <1>0, SMTT(60) DEF TypeOK, CallsInv, LeaseInv, Idle, BeginRemove, Granted,
       StartTeardown, Withdraw
<1>9. QED
  BY <1>1, <1>2, <1>3, <1>4, <1>5, <1>6, <1>7, <1>8 DEF IInv

\* After the await of the cancelled start nothing is published.
LEMMA TaskEndsStep ==
  ASSUME IInv, NEW p \in Call, TaskEnds(p)
  PROVE  IInv'
<1>0. TypeOK /\ CallsInv /\ TablesInv /\ LockInv /\ TeardownInv /\ FreeInv
      /\ GenerationInv /\ LeaseInv
  BY DEF IInv
<1>1. TypeOK'
  BY <1>0, SMTT(60) DEF TypeOK, CallsInv, TaskEnds, Withdraw
<1>2. CallsInv'
  BY <1>0 DEF TypeOK, CallsInv, TaskEnds, Withdraw
<1>3. TablesInv'
  BY <1>0 DEF TypeOK, TablesInv, TaskEnds, Withdraw
<1>4. LockInv'
  BY <1>0 DEF TypeOK, LockInv, TaskEnds, Withdraw
<1>5. TeardownInv'
  BY <1>0 DEF TypeOK, CallsInv, LockInv, TeardownInv, FreeInv, MayRun, Current,
       Startable, Approved, GenerationInv, TaskEnds, Withdraw
<1>6. FreeInv'
  BY <1>0 DEF TypeOK, CallsInv, LockInv, FreeInv, MayRun, Current, Startable,
       Approved, GenerationInv, TaskEnds, Withdraw
<1>7. GenerationInv'
  BY <1>0, SMTT(60) DEF TypeOK, CallsInv, GenerationInv, TaskEnds, Withdraw
<1>8. LeaseInv'
  BY <1>0 DEF TypeOK, CallsInv, LeaseInv, Idle, TaskEnds, Withdraw
<1>9. QED
  BY <1>1, <1>2, <1>3, <1>4, <1>5, <1>6, <1>7, <1>8 DEF IInv

\* A drain ends with nobody inside, or its generation is marked expired.
LEMMA DrainStep ==
  ASSUME IInv, NEW p \in Call, Drain(p)
  PROVE  IInv'
<1>0. TypeOK /\ CallsInv /\ TablesInv /\ LockInv /\ TeardownInv /\ FreeInv
      /\ GenerationInv /\ LeaseInv
  BY DEF IInv
<1>1. TypeOK'
  BY <1>0 DEF TypeOK, CallsInv, TablesInv, LockInv, TeardownInv, FreeInv,
       MayRun, Current, Startable, Approved, GenerationInv, LeaseInv, Idle,
       Drain
<1>2. CallsInv'
  BY <1>0 DEF TypeOK, CallsInv, Drain
<1>3. TablesInv'
  BY <1>0 DEF TypeOK, TablesInv, Drain
<1>4. LockInv'
  BY <1>0 DEF TypeOK, LockInv, Drain
<1>5. TeardownInv'
  BY <1>0 DEF TypeOK, TeardownInv, Drain
<1>6. FreeInv'
  BY <1>0 DEF TypeOK, FreeInv, MayRun, Current, Startable, Approved, Drain
<1>7. GenerationInv'
  BY <1>0 DEF TypeOK, GenerationInv, Drain
<1>8. LeaseInv'
  BY <1>0 DEF TypeOK, CallsInv, LeaseInv, Idle, Drain
<1>9. QED
  BY <1>1, <1>2, <1>3, <1>4, <1>5, <1>6, <1>7, <1>8 DEF IInv

\* The end of an update starts the edited record if it may run.
LEMMA FinishUpdateStep ==
  ASSUME IInv, NEW p \in Call, FinishUpdate(p)
  PROVE  IInv'
<1>0. TypeOK /\ CallsInv /\ TablesInv /\ LockInv /\ TeardownInv /\ FreeInv
      /\ GenerationInv /\ LeaseInv
  BY DEF IInv
<1>1. TypeOK'
  <2>1. key[p] \in Key /\ target[p] \in Call /\ registry[key[p]] \in Record
    BY <1>0 DEF TypeOK, CallsInv, TablesInv, TeardownInv, FinishUpdate, Finishing
  <2>2. /\ status' \in [Call -> Status] /\ spec' \in [Call -> Rev \cup {None}]
        /\ task' \in [Call -> TaskState] /\ run' \in [Call -> Call \cup {None}]
    <3>1. registry[key[p]].rev \in Rev
      BY <2>1
    <3>2. QED
      BY <1>0, <2>1, <3>1 DEF TypeOK, FinishUpdate, StartUnlessPending, BeginStart
  <2>3. /\ session' \in [Call -> Call \cup {None}]
        /\ genState' \in [Call -> {"unborn", "closed"} \cup Alive]
        /\ lock' \in [Call -> Call \cup {None}]
        /\ pc' \in [Call -> {"idle", "waiting", "done"} \cup Teardown]
    BY <1>0, <2>1 DEF TypeOK, FinishUpdate, Finishing, CloseSession
  <2>4. QED
    BY <1>0, <2>2, <2>3 DEF TypeOK, FinishUpdate, Finishing
<1>2. CallsInv'
  BY <1>0 DEF TypeOK, CallsInv, FinishUpdate, Finishing, CloseSession,
       StartUnlessPending, BeginStart
<1>3. TablesInv'
  BY <1>0 DEF TypeOK, TablesInv, FinishUpdate, Finishing, CloseSession,
       StartUnlessPending, BeginStart
<1>4. LockInv'
  BY <1>0 DEF TypeOK, LockInv, FinishUpdate, Finishing, CloseSession,
       StartUnlessPending, BeginStart
<1>5. TeardownInv'
  BY <1>0 DEF TypeOK, CallsInv, LockInv, TeardownInv, FreeInv, MayRun, Current,
       Startable, Approved, GenerationInv, FinishUpdate, Finishing,
       CloseSession, StartUnlessPending, BeginStart
<1>6. FreeInv'
  BY <1>0 DEF TypeOK, CallsInv, TablesInv, LockInv, TeardownInv, FreeInv,
       MayRun, Current, Startable, Approved, FinishUpdate, Finishing,
       CloseSession, StartUnlessPending, BeginStart
<1>7. GenerationInv'
  BY <1>0 DEF TypeOK, CallsInv, GenerationInv, FinishUpdate, Finishing,
       CloseSession, StartUnlessPending, BeginStart
<1>8. LeaseInv'
  BY <1>0, ClosingKeepsLeases DEF FinishUpdate
<1>9. QED
  BY <1>1, <1>2, <1>3, <1>4, <1>5, <1>6, <1>7, <1>8 DEF IInv

\* The end of a disable leaves a stopped child that holds nothing.
LEMMA FinishDisableStep ==
  ASSUME IInv, NEW p \in Call, FinishDisable(p)
  PROVE  IInv'
<1>0. TypeOK /\ CallsInv /\ TablesInv /\ LockInv /\ TeardownInv /\ FreeInv
      /\ GenerationInv /\ LeaseInv
  BY DEF IInv
<1>1. TypeOK'
  BY <1>0 DEF TypeOK, CallsInv, FinishDisable, Finishing, CloseSession
<1>2. CallsInv'
  BY <1>0 DEF TypeOK, CallsInv, FinishDisable, Finishing, CloseSession
<1>3. TablesInv'
  BY <1>0 DEF TypeOK, TablesInv, FinishDisable, Finishing, CloseSession
<1>4. LockInv'
  BY <1>0 DEF TypeOK, LockInv, FinishDisable, Finishing, CloseSession
<1>5. TeardownInv'
  BY <1>0 DEF TypeOK, CallsInv, LockInv, TeardownInv, FreeInv, MayRun, Current,
       Startable, Approved, GenerationInv, FinishDisable, Finishing,
       CloseSession
<1>6. FreeInv'
  BY <1>0 DEF TypeOK, CallsInv, TablesInv, LockInv, TeardownInv, FreeInv,
       MayRun, Current, Startable, Approved, FinishDisable, Finishing,
       CloseSession
<1>7. GenerationInv'
  BY <1>0 DEF TypeOK, CallsInv, GenerationInv, FinishDisable, Finishing,
       CloseSession
<1>8. LeaseInv'
  BY <1>0, ClosingKeepsLeases DEF FinishDisable
<1>9. QED
  BY <1>1, <1>2, <1>3, <1>4, <1>5, <1>6, <1>7, <1>8 DEF IInv

\* The end of a restart starts the record if it is approved.
LEMMA FinishRestartStep ==
  ASSUME IInv, NEW p \in Call, FinishRestart(p)
  PROVE  IInv'
<1>0. TypeOK /\ CallsInv /\ TablesInv /\ LockInv /\ TeardownInv /\ FreeInv
      /\ GenerationInv /\ LeaseInv
  BY DEF IInv
<1>1. TypeOK'
  <2>1. key[p] \in Key /\ target[p] \in Call /\ registry[key[p]] \in Record
    BY <1>0 DEF TypeOK, CallsInv, TablesInv, TeardownInv, FinishRestart, Finishing
  <2>2. /\ status' \in [Call -> Status] /\ spec' \in [Call -> Rev \cup {None}]
        /\ task' \in [Call -> TaskState] /\ run' \in [Call -> Call \cup {None}]
    <3>1. registry[key[p]].rev \in Rev
      BY <2>1
    <3>2. QED
      BY <1>0, <2>1, <3>1, SMTT(60) DEF TypeOK, FinishRestart, BeginStart
  <2>3. /\ session' \in [Call -> Call \cup {None}]
        /\ genState' \in [Call -> {"unborn", "closed"} \cup Alive]
        /\ lock' \in [Call -> Call \cup {None}]
        /\ pc' \in [Call -> {"idle", "waiting", "done"} \cup Teardown]
    BY <1>0, <2>1 DEF TypeOK, FinishRestart, Finishing, CloseSession
  <2>4. QED
    BY <1>0, <2>2, <2>3 DEF TypeOK, FinishRestart, Finishing
<1>2. CallsInv'
  BY <1>0 DEF TypeOK, CallsInv, FinishRestart, Finishing, CloseSession,
       BeginStart
<1>3. TablesInv'
  BY <1>0 DEF TypeOK, TablesInv, FinishRestart, Finishing, CloseSession,
       BeginStart
<1>4. LockInv'
  BY <1>0 DEF TypeOK, LockInv, FinishRestart, Finishing, CloseSession,
       BeginStart
<1>5. TeardownInv'
  BY <1>0 DEF TypeOK, CallsInv, LockInv, TeardownInv, FreeInv, MayRun, Current,
       Startable, Approved, GenerationInv, FinishRestart, Finishing,
       CloseSession, BeginStart
<1>6. FreeInv'
  BY <1>0 DEF TypeOK, CallsInv, TablesInv, LockInv, TeardownInv, FreeInv,
       MayRun, Current, Startable, Approved, FinishRestart, Finishing,
       CloseSession, BeginStart
<1>7. GenerationInv'
  BY <1>0 DEF TypeOK, CallsInv, GenerationInv, FinishRestart, Finishing,
       CloseSession, BeginStart
<1>8. LeaseInv'
  BY <1>0, ClosingKeepsLeases DEF FinishRestart
<1>9. QED
  BY <1>1, <1>2, <1>3, <1>4, <1>5, <1>6, <1>7, <1>8 DEF IInv

\* The end of a removal frees the key of an object that holds nothing.
LEMMA FinishRemoveStep ==
  ASSUME IInv, NEW p \in Call, FinishRemove(p)
  PROVE  IInv'
<1>0. TypeOK /\ CallsInv /\ TablesInv /\ LockInv /\ TeardownInv /\ FreeInv
      /\ GenerationInv /\ LeaseInv
  BY DEF IInv
<1>1. TypeOK'
  BY <1>0 DEF TypeOK, CallsInv, FinishRemove, Finishing, CloseSession
<1>2. CallsInv'
  BY <1>0 DEF TypeOK, CallsInv, FinishRemove, Finishing, CloseSession
<1>3. TablesInv'
  BY <1>0 DEF TypeOK, TablesInv, FinishRemove, Finishing, CloseSession
<1>4. LockInv'
  BY <1>0 DEF TypeOK, LockInv, FinishRemove, Finishing, CloseSession
<1>5. TeardownInv'
  BY <1>0 DEF TypeOK, CallsInv, LockInv, TeardownInv, FreeInv, MayRun, Current,
       Startable, Approved, GenerationInv, FinishRemove, Finishing,
       CloseSession
<1>6. FreeInv'
  BY <1>0 DEF TypeOK, CallsInv, TablesInv, LockInv, TeardownInv, FreeInv,
       MayRun, Current, Startable, Approved, FinishRemove, Finishing,
       CloseSession
<1>7. GenerationInv'
  BY <1>0 DEF TypeOK, CallsInv, GenerationInv, FinishRemove, Finishing,
       CloseSession
<1>8. LeaseInv'
  BY <1>0, ClosingKeepsLeases DEF FinishRemove
<1>9. QED
  BY <1>1, <1>2, <1>3, <1>4, <1>5, <1>6, <1>7, <1>8 DEF IInv

\* An answer of the child moves only its start task.
LEMMA ProbeReturnsStep ==
  ASSUME IInv, NEW p \in Call, ProbeReturns(p)
  PROVE  IInv'
<1>0. TypeOK /\ CallsInv /\ TablesInv /\ LockInv /\ TeardownInv /\ FreeInv
      /\ GenerationInv /\ LeaseInv
  BY DEF IInv
<1>1. TypeOK'
  BY <1>0 DEF TypeOK, ProbeReturns
<1>2. CallsInv'
  BY <1>0 DEF TypeOK, CallsInv, ProbeReturns
<1>3. TablesInv'
  BY <1>0 DEF TypeOK, TablesInv, ProbeReturns
<1>4. LockInv'
  BY <1>0 DEF TypeOK, LockInv, ProbeReturns
<1>5. TeardownInv'
  BY <1>0 DEF TypeOK, TeardownInv, ProbeReturns
<1>6. FreeInv'
  BY <1>0 DEF TypeOK, FreeInv, MayRun, Current, Startable, Approved,
       ProbeReturns
<1>7. GenerationInv'
  BY <1>0 DEF TypeOK, GenerationInv, ProbeReturns
<1>8. LeaseInv'
  BY <1>0 DEF TypeOK, CallsInv, LeaseInv, Idle, ProbeReturns
<1>9. QED
  BY <1>1, <1>2, <1>3, <1>4, <1>5, <1>6, <1>7, <1>8 DEF IInv

\* A start publishes under the lock, so the record is the one it was begun for.
LEMMA PublishStep ==
  ASSUME IInv, NEW p \in Call, Publish(p)
  PROVE  IInv'
<1>0. TypeOK /\ CallsInv /\ TablesInv /\ LockInv /\ TeardownInv /\ FreeInv
      /\ GenerationInv /\ LeaseInv
  BY DEF IInv
<1>1. TypeOK'
  BY <1>0, SMTT(60) DEF TypeOK, Publish
<1>2. CallsInv'
  BY <1>0 DEF TypeOK, CallsInv, Publish
<1>3. TablesInv'
  BY <1>0 DEF TypeOK, TablesInv, Publish
<1>4. LockInv'
  BY <1>0 DEF TypeOK, LockInv, Publish
<1>5. TeardownInv'
  BY <1>0 DEF TypeOK, CallsInv, LockInv, TeardownInv, FreeInv, MayRun, Current,
       Startable, Approved, GenerationInv, Publish
<1>6. FreeInv'
  BY <1>0 DEF TypeOK, CallsInv, LockInv, FreeInv, MayRun, Current, Startable,
       Approved, GenerationInv, Publish
<1>7. GenerationInv'
  BY <1>0 DEF TypeOK, GenerationInv, Publish
<1>8. LeaseInv'
  BY <1>0 DEF TypeOK, CallsInv, LeaseInv, Idle, Publish
<1>9. QED
  BY <1>1, <1>2, <1>3, <1>4, <1>5, <1>6, <1>7, <1>8 DEF IInv

\* A failed start leaves a failed child with an unpublished generation.
LEMMA FailStartStep ==
  ASSUME IInv, NEW p \in Call, FailStart(p)
  PROVE  IInv'
<1>0. TypeOK /\ CallsInv /\ TablesInv /\ LockInv /\ TeardownInv /\ FreeInv
      /\ GenerationInv /\ LeaseInv
  BY DEF IInv
<1>1. TypeOK'
  BY <1>0 DEF TypeOK, FailStart
<1>2. CallsInv'
  BY <1>0 DEF TypeOK, CallsInv, FailStart
<1>3. TablesInv'
  BY <1>0 DEF TypeOK, TablesInv, FailStart
<1>4. LockInv'
  BY <1>0 DEF TypeOK, LockInv, FailStart
<1>5. TeardownInv'
  BY <1>0 DEF TypeOK, CallsInv, TablesInv, LockInv, TeardownInv, FailStart
<1>6. FreeInv'
  BY <1>0 DEF TypeOK, FreeInv, MayRun, Current, Startable, Approved, FailStart
<1>7. GenerationInv'
  BY <1>0 DEF TypeOK, GenerationInv, FailStart
<1>8. LeaseInv'
  BY <1>0 DEF TypeOK, CallsInv, LeaseInv, Idle, FailStart
<1>9. QED
  BY <1>1, <1>2, <1>3, <1>4, <1>5, <1>6, <1>7, <1>8 DEF IInv

\* A cancel that the client swallowed happens only inside a teardown.
LEMMA SwallowCancelStep ==
  ASSUME IInv, NEW p \in Call, SwallowCancel(p)
  PROVE  IInv'
<1>0. TypeOK /\ CallsInv /\ TablesInv /\ LockInv /\ TeardownInv /\ FreeInv
      /\ GenerationInv /\ LeaseInv
  BY DEF IInv
<1>1. TypeOK'
  BY <1>0 DEF TypeOK, SwallowCancel
<1>2. CallsInv'
  BY <1>0 DEF TypeOK, CallsInv, SwallowCancel
<1>3. TablesInv'
  BY <1>0 DEF TypeOK, TablesInv, SwallowCancel
<1>4. LockInv'
  BY <1>0 DEF TypeOK, LockInv, SwallowCancel
<1>5. TeardownInv'
  BY <1>0 DEF TypeOK, TeardownInv, SwallowCancel
<1>6. FreeInv'
  BY <1>0 DEF TypeOK, FreeInv, MayRun, Current, Startable, Approved,
       SwallowCancel
<1>7. GenerationInv'
  BY <1>0 DEF TypeOK, GenerationInv, SwallowCancel
<1>8. LeaseInv'
  BY <1>0 DEF TypeOK, CallsInv, LeaseInv, Idle, SwallowCancel
<1>9. QED
  BY <1>1, <1>2, <1>3, <1>4, <1>5, <1>6, <1>7, <1>8 DEF IInv

\* A probe is scheduled only for an open generation.
LEMMA ScheduleProbeStep ==
  ASSUME IInv, NEW p \in Call, ScheduleProbe(p)
  PROVE  IInv'
<1>0. TypeOK /\ CallsInv /\ TablesInv /\ LockInv /\ TeardownInv /\ FreeInv
      /\ GenerationInv /\ LeaseInv
  BY DEF IInv
<1>1. TypeOK'
  BY <1>0 DEF TypeOK, ScheduleProbe
<1>2. CallsInv'
  BY <1>0 DEF TypeOK, CallsInv, ScheduleProbe
<1>3. TablesInv'
  BY <1>0 DEF TypeOK, TablesInv, ScheduleProbe
<1>4. LockInv'
  BY <1>0 DEF TypeOK, LockInv, ScheduleProbe
<1>5. TeardownInv'
  BY <1>0 DEF TypeOK, TeardownInv, ScheduleProbe
<1>6. FreeInv'
  BY <1>0 DEF TypeOK, FreeInv, MayRun, Current, Startable, Approved,
       ScheduleProbe
<1>7. GenerationInv'
  BY <1>0 DEF TypeOK, GenerationInv, ScheduleProbe
<1>8. LeaseInv'
  BY <1>0 DEF TypeOK, CallsInv, LeaseInv, Idle, ScheduleProbe
<1>9. QED
  BY <1>1, <1>2, <1>3, <1>4, <1>5, <1>6, <1>7, <1>8 DEF IInv

\* A lease enters only an open generation.
LEMMA LeaseStep ==
  ASSUME IInv, NEW r \in Reader, NEW p \in Call, Lease(r, p)
  PROVE  IInv'
<1>0. TypeOK /\ CallsInv /\ TablesInv /\ LockInv /\ TeardownInv /\ FreeInv
      /\ GenerationInv /\ LeaseInv
  BY DEF IInv
<1>1. TypeOK'
  BY <1>0 DEF TypeOK, Lease
<1>2. CallsInv'
  BY <1>0 DEF TypeOK, CallsInv, Lease
<1>3. TablesInv'
  BY <1>0 DEF TypeOK, TablesInv, Lease
<1>4. LockInv'
  BY <1>0 DEF TypeOK, LockInv, Lease
<1>5. TeardownInv'
  BY <1>0 DEF TypeOK, TeardownInv, Lease
<1>6. FreeInv'
  BY <1>0 DEF TypeOK, FreeInv, MayRun, Current, Startable, Approved, Lease
<1>7. GenerationInv'
  BY <1>0 DEF TypeOK, GenerationInv, Lease
<1>8. LeaseInv'
  BY <1>0 DEF TypeOK, CallsInv, TablesInv, LockInv, TeardownInv, LeaseInv, Idle,
       Lease
<1>9. QED
  BY <1>1, <1>2, <1>3, <1>4, <1>5, <1>6, <1>7, <1>8 DEF IInv

\* A release only empties a generation.
LEMMA ReleaseStep ==
  ASSUME IInv, NEW r \in Reader, NEW p \in Call, Release(r, p)
  PROVE  IInv'
<1>0. TypeOK /\ CallsInv /\ TablesInv /\ LockInv /\ TeardownInv /\ FreeInv
      /\ GenerationInv /\ LeaseInv
  BY DEF IInv
<1>1. TypeOK'
  BY <1>0 DEF TypeOK, Release
<1>2. CallsInv'
  BY <1>0 DEF TypeOK, CallsInv, Release
<1>3. TablesInv'
  BY <1>0 DEF TypeOK, TablesInv, Release
<1>4. LockInv'
  BY <1>0 DEF TypeOK, LockInv, Release
<1>5. TeardownInv'
  BY <1>0 DEF TypeOK, TeardownInv, Release
<1>6. FreeInv'
  BY <1>0 DEF TypeOK, FreeInv, MayRun, Current, Startable, Approved, Release
<1>7. GenerationInv'
  BY <1>0 DEF TypeOK, GenerationInv, Release
<1>8. LeaseInv'
  <2>1. UNCHANGED <<genState, expired, pc, session, target, probe>>
    BY DEF Release
  <2>2. ASSUME NEW g \in Call, Idle(g) PROVE Idle(g)'
    <3>1. leases'[g] \subseteq leases[g]
      BY <1>0 DEF TypeOK, Release
    <3> QED BY <2>1, <2>2, <3>1 DEF Idle
  <2>3. Idle(None)'
    BY DEF Idle
  <2>4. \A q \in Call : pc[q] = "closing" => session[target[q]] \in Call \cup {None}
    BY <1>0 DEF TypeOK, CallsInv
  <2> QED BY <1>0, <2>1, <2>2, <2>3, <2>4, Zenon DEF LeaseInv
<1>9. QED
  BY <1>1, <1>2, <1>3, <1>4, <1>5, <1>6, <1>7, <1>8 DEF IInv

\* A probe that finds its generation withdrawn reads nothing.
LEMMA StartProbeStep ==
  ASSUME IInv, NEW p \in Call, StartProbe(p)
  PROVE  IInv'
<1>0. TypeOK /\ CallsInv /\ TablesInv /\ LockInv /\ TeardownInv /\ FreeInv
      /\ GenerationInv /\ LeaseInv
  BY DEF IInv
<1>1. TypeOK'
  BY <1>0 DEF TypeOK, StartProbe
<1>2. CallsInv'
  BY <1>0 DEF TypeOK, CallsInv, StartProbe
<1>3. TablesInv'
  BY <1>0 DEF TypeOK, TablesInv, StartProbe
<1>4. LockInv'
  BY <1>0 DEF TypeOK, LockInv, StartProbe
<1>5. TeardownInv'
  BY <1>0 DEF TypeOK, TeardownInv, StartProbe
<1>6. FreeInv'
  BY <1>0 DEF TypeOK, FreeInv, MayRun, Current, Startable, Approved, StartProbe
<1>7. GenerationInv'
  BY <1>0 DEF TypeOK, GenerationInv, StartProbe
<1>8. LeaseInv'
  BY <1>0 DEF TypeOK, CallsInv, TablesInv, LockInv, TeardownInv, LeaseInv, Idle,
       StartProbe
<1>9. QED
  BY <1>1, <1>2, <1>3, <1>4, <1>5, <1>6, <1>7, <1>8 DEF IInv

\* The end of a read only empties a generation.
LEMMA EndReadStep ==
  ASSUME IInv, NEW p \in Call, EndRead(p)
  PROVE  IInv'
<1>0. TypeOK /\ CallsInv /\ TablesInv /\ LockInv /\ TeardownInv /\ FreeInv
      /\ GenerationInv /\ LeaseInv
  BY DEF IInv
<1>1. TypeOK'
  BY <1>0 DEF TypeOK, EndRead
<1>2. CallsInv'
  BY <1>0 DEF TypeOK, CallsInv, EndRead
<1>3. TablesInv'
  BY <1>0 DEF TypeOK, TablesInv, EndRead
<1>4. LockInv'
  BY <1>0 DEF TypeOK, LockInv, EndRead
<1>5. TeardownInv'
  BY <1>0 DEF TypeOK, TeardownInv, EndRead
<1>6. FreeInv'
  BY <1>0 DEF TypeOK, FreeInv, MayRun, Current, Startable, Approved, EndRead
<1>7. GenerationInv'
  BY <1>0 DEF TypeOK, GenerationInv, EndRead
<1>8. LeaseInv'
  <2>1. \A g \in Call : Idle(g) => Idle(g)'
    BY <1>0 DEF TypeOK, Idle, EndRead
  <2>2. UNCHANGED <<genState, pc, session, target, expired>>
    BY DEF EndRead
  <2>3. \A q \in Call : Idle(session[target[q]]) => Idle(session[target[q]])'
    BY <2>2, <1>0 DEF TypeOK, Idle, EndRead
  <2>4. QED
    BY <1>0, <2>1, <2>2, <2>3 DEF LeaseInv
<1>9. QED
  BY <1>1, <1>2, <1>3, <1>4, <1>5, <1>6, <1>7, <1>8 DEF IInv

\* A failed probe unmounts only the generation it read.
LEMMA ReportProbeFailureStep ==
  ASSUME IInv, NEW p \in Call, ReportProbeFailure(p)
  PROVE  IInv'
<1>0. TypeOK /\ CallsInv /\ TablesInv /\ LockInv /\ TeardownInv /\ FreeInv
      /\ GenerationInv /\ LeaseInv
  BY DEF IInv
<1>1. TypeOK'
  BY <1>0, SMTT(30) DEF TypeOK, ReportProbeFailure
<1>2. CallsInv'
  BY <1>0 DEF TypeOK, CallsInv, ReportProbeFailure
<1>3. TablesInv'
  BY <1>0 DEF TypeOK, TablesInv, ReportProbeFailure
<1>4. LockInv'
  BY <1>0 DEF TypeOK, LockInv, ReportProbeFailure
<1>5. TeardownInv'
  BY <1>0 DEF TypeOK, CallsInv, TeardownInv, ReportProbeFailure
<1>6. FreeInv'
  BY <1>0 DEF TypeOK, FreeInv, MayRun, Current, Startable, Approved,
       ReportProbeFailure
<1>7. GenerationInv'
  BY <1>0 DEF TypeOK, GenerationInv, ReportProbeFailure
<1>8. LeaseInv'
  BY <1>0 DEF TypeOK, CallsInv, LeaseInv, Idle, ReportProbeFailure
<1>9. QED
  BY <1>1, <1>2, <1>3, <1>4, <1>5, <1>6, <1>7, <1>8 DEF IInv

-----------------------------------------------------------------------------
\* Nothing else moves: a step that changes no variable keeps the invariant.
LEMMA StutterStep == IInv /\ UNCHANGED vars => IInv'
<1> SUFFICES ASSUME IInv, UNCHANGED vars PROVE IInv'
  OBVIOUS
<1> USE DEF vars
<1>1. TypeOK' /\ CallsInv' /\ TablesInv' /\ LockInv'
  BY DEF IInv, TypeOK, CallsInv, TablesInv, LockInv
<1>2. TeardownInv'
  BY DEF IInv, TeardownInv
<1>3. FreeInv'
  BY DEF IInv, FreeInv, MayRun, Current, Startable, Approved
<1>4. GenerationInv' /\ LeaseInv'
  BY DEF IInv, GenerationInv, LeaseInv, Idle
<1>5. QED
  BY <1>1, <1>2, <1>3, <1>4 DEF IInv

\* Every step of the system keeps the invariant.
LEMMA NextIInv == IInv /\ [Next]_vars => IInv'
<1> SUFFICES ASSUME IInv, [Next]_vars PROVE IInv'
  OBVIOUS
<1>1. CASE \E k \in Key : RunStart(k) \/ Mute(k)
  BY <1>1, RunStartStep, MuteStep
<1>2. CASE \E p \in Call, k \in Key : Add(p, k) \/ Invoke(p, k)
  BY <1>2, AddStep, InvokeStep
<1>3. CASE \E p \in Call : Abandon(p) \/ CallStep(p)
  <2>1. PICK p \in Call : Abandon(p) \/ CallStep(p)
    BY <1>3
  <2>2. CASE Abandon(p) \/ Refuse(p) \/ Enable(p) \/ Approve(p)
    BY <2>2, AbandonStep, RefuseStep, EnableStep, ApproveStep
  <2>3. CASE BeginUpdate(p) \/ BeginDisable(p) \/ BeginRestart(p) \/ BeginRemove(p)
    BY <2>3, BeginUpdateStep, BeginDisableStep, BeginRestartStep, BeginRemoveStep
  <2>4. CASE TaskEnds(p) \/ Drain(p)
    BY <2>4, TaskEndsStep, DrainStep
  <2>5. CASE \/ FinishUpdate(p) \/ FinishDisable(p)
             \/ FinishRestart(p) \/ FinishRemove(p)
    BY <2>5, FinishUpdateStep, FinishDisableStep, FinishRestartStep,
       FinishRemoveStep
  <2>6. QED
    BY <2>1, <2>2, <2>3, <2>4, <2>5 DEF CallStep
<1>4. CASE \E c \in Call : StartStep(c) \/ SwallowCancel(c) \/ ScheduleProbe(c)
  BY <1>4, ProbeReturnsStep, PublishStep, FailStartStep, SwallowCancelStep,
     ScheduleProbeStep DEF StartStep
<1>5. CASE \E r \in Reader, g \in Call : Lease(r, g) \/ Release(r, g)
  BY <1>5, LeaseStep, ReleaseStep
<1>6. CASE \E g \in Call : StartProbe(g) \/ EndRead(g) \/ ReportProbeFailure(g)
  BY <1>6, StartProbeStep, EndReadStep, ReportProbeFailureStep
<1>7. CASE UNCHANGED vars
  BY <1>7, StutterStep
<1>8. QED
  BY <1>1, <1>2, <1>3, <1>4, <1>5, <1>6, <1>7 DEF Next

\* The inductive invariant holds in every reachable state.
THEOREM Inductive == Spec => []IInv
<1>1. QED
  BY InitIInv, NextIInv, PTL DEF Spec

\* Every variable keeps its type.
THEOREM TypeCorrect == Spec => []TypeOK
<1>1. IInv => TypeOK
  BY DEF IInv
<1>2. QED
  BY Inductive, <1>1, PTL

\* In a state of the invariant whatever is published was approved.
LEMMA InvPublished == IInv => PublishedImpliesApproved
<1> SUFFICES ASSUME IInv, NEW c \in Call, provider[c] # None
             PROVE  /\ children[key[c]] = c
                    /\ Startable(key[c], registry[key[c]])
                    /\ genRev[provider[c]] = registry[key[c]].rev
                    /\ genState[provider[c]] = "open"
  BY DEF PublishedImpliesApproved
<1>1. lock[c] = None
  BY DEF IInv, TypeOK, LockInv, TeardownInv
<1>2. MayRun(c) /\ status[c] = "running"
  BY <1>1 DEF IInv, FreeInv
<1>3. provider[c] = session[c] /\ genState[session[c]] = "open"
  BY <1>1, <1>2 DEF IInv, FreeInv, MayRun
<1>4. genRev[session[c]] = registry[key[c]].rev
  BY <1>1, <1>3 DEF IInv, FreeInv
<1>5. QED
  BY <1>2, <1>3, <1>4 DEF MayRun, Current

\* No request can reach the tools of a server whose stored revision was not
\* approved, is disabled or is gone.
THEOREM PublishedSafe == Spec => []PublishedImpliesApproved
<1>1. QED
  BY Inductive, InvPublished, PTL

\* Two generations of one key are never alive together, and a live one is never
\* out of reach of the teardown that has to close it.
THEOREM OneProcess == Spec => []OneProcessPerKey
<1>1. IInv => OneProcessPerKey
  <2> SUFFICES ASSUME IInv, NEW g \in Call, genState[g] \in Alive
               PROVE  /\ session[target[g]] = g
                      /\ \A h \in Call :
                           genState[h] \in Alive /\ key[h] = key[g] => h = g
    BY DEF OneProcessPerKey
  <2>1. session[target[g]] = g
    BY DEF IInv, GenerationInv
  <2>2. SUFFICES ASSUME NEW h \in Call, genState[h] \in Alive, key[h] = key[g]
                 PROVE  h = g
    BY <2>1
  <2>3. /\ target[g] \in Call /\ target[h] \in Call
        /\ session[target[h]] = h
        /\ key[target[g]] = key[g] /\ key[target[h]] = key[g]
    BY <2>1, <2>2 DEF IInv, TypeOK, CallsInv, GenerationInv
  <2>4. ASSUME NEW c \in Call, key[c] = key[g], session[c] # None
        PROVE  \/ children[key[g]] = c
               \/ /\ children[key[g]] = None
                  /\ \E p \in Call : /\ pc[p] \in Teardown /\ kind[p] = "remove"
                                     /\ target[p] = c /\ key[p] = key[g]
    <3>1. CASE lock[c] = None
      BY <2>4, <3>1 DEF IInv, FreeInv, MayRun, Current
    <3>2. CASE lock[c] # None
      <4>1. lock[c] \in Call /\ pc[lock[c]] \in Teardown /\ target[lock[c]] = c
        BY <3>2 DEF IInv, TypeOK, LockInv
      <4>2. key[lock[c]] = key[g]
        BY <2>4, <4>1 DEF IInv, CallsInv
      <4>3. QED
        BY <4>1, <4>2 DEF IInv, TeardownInv
    <3>3. QED
      BY <3>1, <3>2
  <2>5. target[g] = target[h]
    BY <2>1, <2>2, <2>3, <2>4 DEF IInv, TeardownInv
  <2>6. QED
    BY <2>1, <2>3, <2>5
<1>2. QED
  BY Inductive, <1>1, PTL

\* Between operations the status of a child says what it holds.
THEOREM StatusSettled == Spec => []SettledStatus
<1>1. IInv => SettledStatus
  <2> SUFFICES ASSUME IInv, NEW k \in Key, children[k] # None, lock[children[k]] = None
               PROVE  LET c == children[k] IN
                      /\ status[c] = "stopped" <=> ~Startable(k, registry[k])
                      /\ status[c] = "stopped" => session[c] = None /\ task[c] = "none"
                      /\ status[c] = "running" <=> provider[c] # None
                      /\ status[c] = "starting" <=> task[c] # "none"
    BY DEF SettledStatus
  <2>1. children[k] \in Call /\ key[children[k]] = k
    BY DEF IInv, TypeOK, TablesInv
  <2>2. Current(children[k]) /\ (MayRun(children[k]) <=> Startable(k, registry[k]))
    BY <2>1 DEF Current, MayRun
  <2>3. QED
    BY <2>1, <2>2 DEF IInv, FreeInv
<1>2. QED
  BY Inductive, <1>1, PTL

\* A generation nobody's drain was cut short for is closed with nobody inside.
THEOREM NoEarlyClose == Spec => []NoCloseUnderLease
<1>1. IInv => NoCloseUnderLease
  BY DEF IInv, LeaseInv, NoCloseUnderLease
<1>2. QED
  BY Inductive, <1>1, PTL
-----------------------------------------------------------------------------
(* The safety half of liveness: whoever must move is never blocked.        *)

\* The guard of the next step of a call inside a teardown: of TaskEnds, of Drain,
\* and of the four tails of an operation.
GoesOn(p) ==
  \/ pc[p] = "cancelling" /\ task[target[p]] \in {"cancelled", "interrupted"}
  \/ pc[p] = "draining"
  \/ pc[p] = "closing" /\ kind[p] \in {"update", "disable", "restart", "remove"}

\* The guard of the next step of a start nobody tears down: of RunStart, of
\* ProbeReturns, of Publish or FailStart.
StartGoesOn(c) ==
  \/ key[c] \in Key /\ children[key[c]] = c /\ task[c] = "created"
  \/ task[c] \in {"probing", "answered", "erred"}

\* A holder of a lock can take its next step unless the client swallowed the
\* cancel it waits for, and waits for no other holder; a start under way can take
\* its next step or is being torn down, unless its transport could not be built.
NobodyIsBlocked ==
  /\ \A p \in Call : ~CancelMaySwallow /\ pc[p] \in Teardown => GoesOn(p)
  /\ \A p \in Call : pc[p] = "waiting" =>
       \/ lock[target[p]] = None
       \/ lock[target[p]] # p /\ pc[lock[target[p]]] \in Teardown
  /\ \A c \in Call : ~BuildMayFail /\ status[c] = "starting" =>
       \/ lock[c] = None /\ StartGoesOn(c)
       \/ lock[c] # None /\ pc[lock[c]] \in Teardown

\* What IInv leaves open: a start that crashed, a cancel that was swallowed, and
\* an object that starts although its key has another.
PendingInv ==
  /\ ~BuildMayFail => \A c \in Call : task[c] # "crashed"
  /\ ~CancelMaySwallow =>
       \A p \in Call : pc[p] = "cancelling" => task[target[p]] # "erred"
  /\ \A c \in Call : status[c] = "starting" => Current(c)

\* The start tasks of `startup` are fresh, and their objects are current.
LEMMA InitPending == Init => PendingInv
BY DEF Init, PendingInv, Current

\* The first block of a teardown cancels the task, or finds none to wait for.
LEMMA StartTeardownPending ==
  ASSUME TypeOK, CallsInv, LockInv, PendingInv, NEW p \in Call, NEW op,
         Granted(p, op), target[p] \in Call, StartTeardown(p), UNCHANGED target
  PROVE  /\ ~BuildMayFail => \A c \in Call : task'[c] # "crashed"
         /\ ~CancelMaySwallow =>
              \A q \in Call : pc'[q] = "cancelling" => task'[target'[q]] # "erred"
<1>1. \A c \in Call : task'[c] = "crashed" => task[c] = "crashed"
  BY DEF TypeOK, StartTeardown
<1>2. \A q \in Call : q # p /\ pc'[q] = "cancelling" =>
        pc[q] = "cancelling" /\ target[q] # target[p]
  BY DEF TypeOK, LockInv, Granted, StartTeardown, Withdraw
<1>3. pc'[p] = "cancelling" => task'[target[p]] \in {"cancelled", "interrupted"}
  BY DEF TypeOK, StartTeardown, Withdraw, Granted
<1>4. \A c \in Call : c # target[p] => task'[c] = task[c]
  BY DEF TypeOK, StartTeardown
<1>5. \A q \in Call : pc[q] = "cancelling" => target[q] \in Call
  BY DEF TypeOK, CallsInv
<1>6. QED
  BY <1>1, <1>2, <1>3, <1>4, <1>5 DEF PendingInv

\* A step that sets no task to `crashed` or `erred`, begins no start and replaces
\* no object.
LEMMA QuietStep ==
  ASSUME PendingInv,
         \A c \in Call : task'[c] \in {"crashed", "erred"} => task'[c] = task[c],
         \A p \in Call : pc'[p] = "cancelling" => pc[p] = "cancelling",
         \A c \in Call : status'[c] = "starting" => status[c] = "starting",
         \A p \in Call : pc'[p] = "cancelling" => target'[p] \in Call,
         UNCHANGED <<children, key, target>>
  PROVE  PendingInv'
BY DEF PendingInv, Current

\* Every step keeps it.
LEMMA NextPending == IInv /\ IInv' /\ PendingInv /\ [Next]_vars => PendingInv'
<1> SUFFICES ASSUME IInv, IInv', PendingInv, [Next]_vars PROVE PendingInv'
  OBVIOUS
<1>0. TypeOK /\ CallsInv /\ TablesInv /\ LockInv /\ TeardownInv
  BY DEF IInv
<1>a. \A p \in Call : pc[p] = "cancelling" => target[p] \in Call
  BY <1>0 DEF TypeOK, CallsInv
<1>b. \A p \in Call : pc'[p] = "cancelling" => target'[p] \in Call
  BY DEF IInv, TypeOK, CallsInv
<1>1. CASE \E k \in Key : RunStart(k)
  BY <1>0, <1>1, <1>b DEF RunStart, TypeOK, PendingInv, Current
<1>2. CASE \E k \in Key : Mute(k)
  BY <1>2, <1>b, QuietStep DEF Mute
<1>3. CASE \E p \in Call, k \in Key : Add(p, k)
  <2>1. PICK p \in Call, k \in Key : Add(p, k)
    BY <1>3
  <2>2. \A c \in Call : task'[c] # task[c] => task'[c] = "created"
    BY <1>0, <2>1 DEF Add, StartUnlessPending, BeginStart, TypeOK
  <2>3. \A q \in Call : pc'[q] = "cancelling" =>
          pc[q] = "cancelling" /\ target'[q] = target[q]
    BY <1>0, <2>1 DEF Add, TypeOK
  <2>4. \A c \in Call : status'[c] = "starting" /\ c # p =>
          status[c] = "starting" /\ key'[c] = key[c] /\ key[c] # k
    BY <1>0, <2>1 DEF Add, StartUnlessPending, BeginStart, TypeOK, PendingInv,
         Current, TablesInv
  <2>5. key'[p] = k /\ children'[k] = p /\ \A j \in Key \ {k} : children'[j] = children[j]
    BY <1>0, <2>1 DEF Add, TypeOK
  <2>6. \A c \in Call : status'[c] = "starting" => Current(c)'
    BY <1>0, <2>4, <2>5 DEF PendingInv, Current, TypeOK
  <2>7. QED
    BY <2>2, <2>3, <2>6, <1>b DEF PendingInv
<1>4. CASE \E p \in Call, k \in Key : Invoke(p, k)
  <2>1. PICK p \in Call, k \in Key : Invoke(p, k)
    BY <1>4
  <2>2. \A q \in Call : pc'[q] = "cancelling" =>
          pc[q] = "cancelling" /\ target'[q] = target[q]
    BY <1>0, <2>1 DEF Invoke, TypeOK
  <2>3. \A c \in Call : Current(c) => Current(c)'
    BY <1>0, <2>1 DEF Invoke, TypeOK, CallsInv, Current
  <2>4. UNCHANGED <<task, status>>
    BY <2>1 DEF Invoke
  <2>5. QED
    BY <2>2, <2>3, <2>4, <1>b DEF PendingInv
<1>5. CASE \E p \in Call : Abandon(p) \/ Refuse(p)
  BY <1>0, <1>5, <1>b, QuietStep DEF Abandon, Refuse, TypeOK
<1>6. CASE \E p \in Call : Enable(p) \/ Approve(p)
  <2>1. PICK p \in Call : Enable(p) \/ Approve(p)
    BY <1>6
  <2>2. Current(target[p]) /\ target[p] \in Call
    <3>1. PICK op : Granted(p, op)
      BY <2>1 DEF Enable, Approve
    <3>2. /\ target[p] \in Call
          /\ key[p] \in Key
          /\ children[key[p]] = target[p]
          /\ key[target[p]] = key[p]
      BY <1>0, <3>1, GrantedTypes DEF Granted, CallsInv
    <3>3. QED
      BY <3>2 DEF Current
  <2>3. CASE Enable(p)
    <3>1. BeginStart(target[p], p, registry[key[p]]) /\ pc' = [pc EXCEPT ![p] = "done"]
          /\ UNCHANGED <<children, key, target>>
      BY <2>3 DEF Enable
    <3>2. \A c \in Call : /\ task'[c] # task[c] => task'[c] = "created"
                          /\ status'[c] # status[c] => c = target[p]
      BY <1>0, <3>1 DEF BeginStart, TypeOK
    <3>3. \A q \in Call : pc'[q] = "cancelling" => pc[q] = "cancelling"
      BY <1>0, <3>1 DEF TypeOK
    <3>4. QED
      BY <2>2, <3>1, <3>2, <3>3, <1>b DEF PendingInv, Current
  <2>4. CASE Approve(p)
    <3>1. /\ \/ BeginStart(target[p], p, registry[key[p]])
             \/ UNCHANGED <<status, task>>
          /\ pc' = [pc EXCEPT ![p] = "done"]
          /\ UNCHANGED <<children, key, target>>
      BY <2>4 DEF Approve
    <3>2. \A c \in Call : /\ task'[c] # task[c] => task'[c] = "created"
                          /\ status'[c] # status[c] => c = target[p]
      BY <1>0, <3>1 DEF BeginStart, TypeOK
    <3>3. \A q \in Call : pc'[q] = "cancelling" => pc[q] = "cancelling"
      BY <1>0, <3>1 DEF TypeOK
    <3>4. QED
      BY <2>2, <3>1, <3>2, <3>3, <1>b DEF PendingInv, Current
  <2>5. QED
    BY <2>1, <2>3, <2>4
<1>7. CASE \E p \in Call : BeginUpdate(p) \/ BeginDisable(p) \/ BeginRestart(p)
  <2>1. PICK p \in Call : BeginUpdate(p) \/ BeginDisable(p) \/ BeginRestart(p)
    BY <1>7
  <2>2. PICK op : Granted(p, op) /\ StartTeardown(p) /\ UNCHANGED target
    BY <2>1 DEF BeginUpdate, BeginDisable, BeginRestart
  <2>3. target[p] \in Call
    BY <1>0, <2>2, GrantedTypes
  <2>4. UNCHANGED <<children, key, status>>
    BY <2>1 DEF BeginUpdate, BeginDisable, BeginRestart
  <2>5. QED
    BY <1>0, <2>2, <2>3, <2>4, StartTeardownPending DEF PendingInv, Current
<1>8. CASE \E p \in Call : BeginRemove(p)
  <2>1. PICK p \in Call : BeginRemove(p)
    BY <1>8
  <2>2. Granted(p, "remove") /\ StartTeardown(p) /\ UNCHANGED <<key, target>>
    BY <2>1 DEF BeginRemove
  <2>3. target[p] \in Call /\ key[p] \in Key /\ children[key[p]] = target[p]
    BY <1>0, <2>2, GrantedTypes DEF Granted
  <2>4. \A c \in Call : status'[c] = "starting" =>
          status[c] = "starting" /\ c # target[p]
    BY <1>0, <2>1, <2>3 DEF BeginRemove, TypeOK
  <2>5. \A k \in Key : k # key[p] => children'[k] = children[k]
    BY <1>0, <2>1 DEF BeginRemove, TypeOK
  <2>6. \A c \in Call : status'[c] = "starting" => Current(c)'
    BY <1>0, <2>2, <2>3, <2>4, <2>5 DEF PendingInv, Current, TypeOK
  <2>7. QED
    BY <1>0, <2>2, <2>3, <2>6, StartTeardownPending DEF PendingInv
<1>9. CASE \E p \in Call : TaskEnds(p) \/ Drain(p)
  BY <1>0, <1>9, <1>b, QuietStep DEF TaskEnds, Drain, Withdraw, TypeOK
<1>10. CASE \E p \in Call : FinishUpdate(p) \/ FinishRestart(p)
  <2>1. PICK p \in Call : FinishUpdate(p) \/ FinishRestart(p)
    BY <1>10
  <2>2. Current(target[p]) /\ target[p] \in Call
    BY <1>0, <2>1 DEF FinishUpdate, FinishRestart, Finishing, Current, TypeOK,
         CallsInv, TeardownInv
  <2>3. \A c \in Call : /\ task'[c] # task[c] => task'[c] = "created"
                        /\ status'[c] = "starting" => status[c] = "starting" \/ c = target[p]
    BY <1>0, <2>1 DEF FinishUpdate, FinishRestart, StartUnlessPending, BeginStart, TypeOK
  <2>4. \A q \in Call : pc'[q] = "cancelling" => pc[q] = "cancelling"
    BY <1>0, <2>1 DEF FinishUpdate, FinishRestart, Finishing, TypeOK
  <2>5. UNCHANGED <<children, key, target>>
    BY <2>1 DEF FinishUpdate, FinishRestart, Finishing
  <2>6. QED
    BY <2>2, <2>3, <2>4, <2>5, <1>b DEF PendingInv, Current
<1>11. CASE \E p \in Call : FinishDisable(p) \/ FinishRemove(p)
  BY <1>0, <1>11, <1>b, QuietStep DEF FinishDisable, FinishRemove, Finishing, TypeOK
<1>12. CASE \E c \in Call : Publish(c) \/ FailStart(c)
  BY <1>0, <1>12, <1>b, QuietStep DEF Publish, FailStart, TypeOK
<1>13. CASE \E c \in Call : ProbeReturns(c) \/ SwallowCancel(c)
  <2>1. PICK c \in Call : ProbeReturns(c) \/ SwallowCancel(c)
    BY <1>13
  <2>2. UNCHANGED <<children, key, target, pc, status>>
    BY <2>1 DEF ProbeReturns, SwallowCancel
  <2>3. \A d \in Call : task'[d] = "crashed" => task[d] = "crashed"
    BY <1>0, <2>1 DEF ProbeReturns, SwallowCancel, TypeOK
  <2>4. ~CancelMaySwallow => task[c] = "probing" /\ \A d \in Call \ {c} : task'[d] = task[d]
    BY <1>0, <2>1 DEF ProbeReturns, SwallowCancel, TypeOK
  <2>5. ~CancelMaySwallow => \A p \in Call : pc[p] = "cancelling" => target[p] # c
    BY <1>0, <2>4 DEF TeardownInv
  <2>6. QED
    BY <1>a, <2>2, <2>3, <2>4, <2>5 DEF PendingInv, Current
<1>14. CASE UNCHANGED <<children, key, target, pc, task, status>>
  BY <1>14, <1>b, QuietStep
<1>15. CASE \E g \in Call : ReportProbeFailure(g)
  BY <1>0, <1>15, <1>b, QuietStep DEF ReportProbeFailure, TypeOK
<1>16. CASE \/ \E c \in Call : ScheduleProbe(c)
            \/ \E r \in Reader, g \in Call : Lease(r, g) \/ Release(r, g)
            \/ \E g \in Call : StartProbe(g) \/ EndRead(g)
            \/ UNCHANGED vars
  BY <1>14, <1>16 DEF ScheduleProbe, Lease, Release, StartProbe, EndRead, vars
<1>17. QED
  BY <1>1, <1>2, <1>3, <1>4, <1>5, <1>6, <1>7, <1>8, <1>9, <1>10, <1>11, <1>12,
     <1>13, <1>15, <1>16 DEF Next, CallStep, StartStep

\* In every reachable state a holder of a lock, and a start under way, can take its
\* next step: no chain of waiting calls closes on itself, and only a swallowed
\* cancel or a transport that cannot be built leaves a child without one.
THEOREM NeverBlocked == Spec => []NobodyIsBlocked
<1>1. IInv /\ PendingInv => NobodyIsBlocked
  <2> SUFFICES ASSUME IInv, PendingInv PROVE NobodyIsBlocked
    OBVIOUS
  <2>0. TypeOK /\ CallsInv /\ TablesInv /\ LockInv /\ TeardownInv /\ FreeInv
    BY DEF IInv
  <2>1. \A p \in Call : ~CancelMaySwallow /\ pc[p] \in Teardown => GoesOn(p)
    BY <2>0 DEF CallsInv, TeardownInv, PendingInv, GoesOn
  <2>2. \A c \in Call : lock[c] # None =>
          lock[c] \in Call /\ pc[lock[c]] \in Teardown /\ target[lock[c]] = c
    BY <2>0 DEF TypeOK, LockInv
  <2>3. \A p \in Call : pc[p] = "waiting" =>
          \/ lock[target[p]] = None
          \/ lock[target[p]] # p /\ pc[lock[target[p]]] \in Teardown
    BY <2>0, <2>2 DEF TypeOK, CallsInv
  <2>4. ASSUME NEW c \in Call, ~BuildMayFail, status[c] = "starting", lock[c] = None
        PROVE  StartGoesOn(c)
    <3>1. Current(c) /\ task[c] # "crashed"
      BY <2>4 DEF PendingInv
    <3>2. task[c] \in {"created", "probing", "answered", "erred"}
      BY <2>0, <2>4, <3>1 DEF TypeOK, FreeInv
    <3>3. key[c] \in Key
      BY <2>0, <3>1 DEF TypeOK, Current
    <3>4. QED
      BY <3>1, <3>2, <3>3 DEF StartGoesOn, Current
  <2>5. QED
    BY <2>1, <2>2, <2>3, <2>4 DEF NobodyIsBlocked
<1>2. Spec => []PendingInv
  BY Inductive, InitPending, NextPending, PTL DEF Spec
<1>3. QED
  BY Inductive, <1>1, <1>2, PTL

=============================================================================
