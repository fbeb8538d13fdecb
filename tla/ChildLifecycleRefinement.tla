----------------------- MODULE ChildLifecycleRefinement -----------------------
(***************************************************************************)
(* What a step of ChildLifecycle may never do, and the proof that every    *)
(* step is a step of ApprovedService or leaves what it shows unchanged.    *)
(* Both rest on the inductive invariant of ChildLifecycleProofs.           *)
(***************************************************************************)
EXTENDS ChildLifecycleProofs

USE ConstantsAssumption DEF Record, Kind, Status, TaskState, PendingStart, Alive,
    Teardown, gateVars, callVars, childVars, genVars

-----------------------------------------------------------------------------
\* A record changes only in the step that takes a call off the free lock of its child.
LEMMA RecordChanges ==
  ASSUME IInv, [Next]_vars, NEW k \in Key, registry[k] # None, registry'[k] # registry[k]
  PROVE  \E p \in Call :
           /\ pc[p] = "waiting" /\ pc'[p] # "waiting"
           /\ key[p] = k
           /\ target[p] = children[k] /\ lock[target[p]] = None
<1>1. PICK p \in Call : \/ Enable(p) \/ Approve(p) \/ BeginUpdate(p)
                        \/ BeginDisable(p) \/ BeginRemove(p)
  <2>1. \A j \in Key : ~RunStart(j) /\ ~Mute(j)
    BY DEF RunStart, Mute
  <2>2. \A p \in Call, j \in Key : ~Add(p, j) /\ ~Invoke(p, j)
    <3>1. ASSUME NEW p \in Call, NEW j \in Key, Add(p, j) PROVE FALSE
      <4>1. registry[j] = None /\ \E rec \in Record : registry' = [registry EXCEPT ![j] = rec]
        BY <3>1 DEF Add
      <4>2. registry'[k] = registry[k]
        BY <4>1 DEF IInv, TypeOK
      <4>3. QED
        BY <4>2
    <3>2. QED
      BY <3>1 DEF Invoke
  <2>3. \A p \in Call : ~Abandon(p) /\ ~Refuse(p) /\ ~BeginRestart(p) /\ ~TaskEnds(p)
                        /\ ~Drain(p)
    BY DEF Abandon, Refuse, BeginRestart, TaskEnds, Drain
  <2>4. \A p \in Call : /\ ~FinishUpdate(p) /\ ~FinishDisable(p)
                        /\ ~FinishRestart(p) /\ ~FinishRemove(p)
    BY DEF FinishUpdate, FinishDisable, FinishRestart, FinishRemove
  <2>5. \A c \in Call : ~StartStep(c) /\ ~SwallowCancel(c) /\ ~ScheduleProbe(c)
    BY DEF StartStep, ProbeReturns, Publish, FailStart, SwallowCancel, ScheduleProbe
  <2>6. \A r \in Reader, g \in Call : ~Lease(r, g) /\ ~Release(r, g)
    BY DEF Lease, Release
  <2>7. \A g \in Call : ~StartProbe(g) /\ ~EndRead(g) /\ ~ReportProbeFailure(g)
    BY DEF StartProbe, EndRead, ReportProbeFailure
  <2>8. QED
    BY <2>1, <2>2, <2>3, <2>4, <2>5, <2>6, <2>7 DEF Next, CallStep, vars
<1>2. \E op \in Kind : Granted(p, op)
  BY <1>1 DEF Enable, Approve, BeginUpdate, BeginDisable, BeginRemove
<1>3. key[p] = k
  <2>1. registry \in [Key -> Record \cup {None}]
    BY DEF IInv, TypeOK
  <2>2. \E x : registry' = [registry EXCEPT ![key[p]] = x]
    <3>1. ASSUME Enable(p) PROVE \E x : registry' = [registry EXCEPT ![key[p]] = x]
      BY <3>1 DEF Enable
    <3>2. ASSUME Approve(p) PROVE \E x : registry' = [registry EXCEPT ![key[p]] = x]
      BY <3>2 DEF Approve
    <3>3. ASSUME BeginUpdate(p) PROVE \E x : registry' = [registry EXCEPT ![key[p]] = x]
      BY <3>3 DEF BeginUpdate
    <3>4. ASSUME BeginDisable(p) PROVE \E x : registry' = [registry EXCEPT ![key[p]] = x]
      BY <3>4 DEF BeginDisable
    <3>5. ASSUME BeginRemove(p) PROVE \E x : registry' = [registry EXCEPT ![key[p]] = x]
      BY <3>5 DEF BeginRemove
    <3> QED BY <1>1, <3>1, <3>2, <3>3, <3>4, <3>5
  <2>3. QED
    BY <2>1, <2>2
<1>4. pc'[p] # "waiting"
  <2>1. pc \in [Call -> {"idle", "waiting", "done"} \cup Teardown]
    BY DEF IInv, TypeOK
  <2>2. CASE Enable(p) \/ Approve(p)
    BY <2>1, <2>2 DEF Enable, Approve
  <2>3. CASE BeginUpdate(p) \/ BeginDisable(p) \/ BeginRemove(p)
    <3>1. StartTeardown(p)
      BY <2>3 DEF BeginUpdate, BeginDisable, BeginRemove
    <3>2. \/ pc' = [pc EXCEPT ![p] = "cancelling"]
          \/ Withdraw(p)
      BY <3>1 DEF StartTeardown
    <3> QED BY <2>1, <3>2 DEF Withdraw
  <2> QED BY <1>1, <2>2, <2>3
<1>5. pc[p] = "waiting" /\ children[k] = target[p] /\ lock[target[p]] = None
  BY <1>2, <1>3 DEF Granted
<1>6. QED
  BY <1>3, <1>4, <1>5

\* Nothing edits a record beneath a teardown of the child it describes, and an
\* operation that waited for a removed child never edits its replacement: the call that
\* the step takes off the lock had resolved the object that is current.
THEOREM RecordsGuarded == Spec => RecordChangesUnderLock
<1>1. IInv /\ [Next]_vars =>
        [\A k \in Key : registry[k] # None /\ registry'[k] # registry[k] =>
           \E p \in Call :
             /\ pc[p] = "waiting" /\ pc'[p] # "waiting"
             /\ key[p] = k
             /\ target[p] = children[k] /\ lock[target[p]] = None]_vars
  BY RecordChanges
<1>2. QED
  BY Inductive, <1>1, PTL DEF Spec, RecordChangesUnderLock

-----------------------------------------------------------------------------
\* The generation g enters a new use: it starts, or a reader enters it.
Enters(g) ==
  \/ genState[g] = "unborn" /\ genState'[g] # "unborn"
  \/ \E r \in Reader : r \in leases'[g] \ leases[g]
  \/ probe[g] # "reading" /\ probe'[g] = "reading"

\* An open session is that of a free, current object whose record may run.
LEMMA OpenIsReviewed ==
  ASSUME IInv, NEW c \in Call, session[c] # None, genState[session[c]] = "open"
  PROVE  /\ MayRun(c)
         /\ key[session[c]] = key[c]
         /\ genRev[session[c]] = registry[key[c]].rev
<1>1. lock[c] = None
  BY DEF IInv, TypeOK, LockInv, TeardownInv
<1>2. target[session[c]] = c /\ pc[session[c]] = "done"
  BY DEF IInv, TypeOK, GenerationInv
<1>3. key[session[c]] = key[c]
  BY <1>2 DEF IInv, TypeOK, CallsInv
<1>4. QED
  BY <1>1, <1>3 DEF IInv, FreeInv

\* Only the start of a task, a lease and a probe enter a generation.
LEMMA Entrances ==
  ASSUME IInv, [Next]_vars, NEW g \in Call, Enters(g)
  PROVE  \/ \E k \in Key : RunStart(k)
         \/ \E r \in Reader, c \in Call : Lease(r, c)
         \/ StartProbe(g)
<1> USE DEF Enters
<1>1. \A k \in Key : ~Mute(k)
  BY DEF Mute
<1>2. \A p \in Call, k \in Key : ~Add(p, k) /\ ~Invoke(p, k)
  BY DEF Add, Invoke
<1>3. \A p \in Call : ~Abandon(p) /\ ~Refuse(p) /\ ~Enable(p) /\ ~Approve(p)
                      /\ ~Drain(p)
  BY DEF Abandon, Refuse, Enable, Approve, Drain
<1>4. \A p \in Call : ~TaskEnds(p)
  BY DEF IInv, TypeOK, CallsInv, GenerationInv, TaskEnds, Withdraw
<1>5. \A p \in Call : ~(target[p] \in Call /\ StartTeardown(p) /\ UNCHANGED leases)
  BY DEF IInv, TypeOK, GenerationInv, StartTeardown, Withdraw
<1>6. \A p \in Call : ~BeginUpdate(p) /\ ~BeginDisable(p) /\ ~BeginRestart(p)
                      /\ ~BeginRemove(p)
  BY <1>5, GrantedTypes DEF IInv, BeginUpdate, BeginDisable, BeginRestart, BeginRemove
<1>7. \A p \in Call, op \in Kind : ~Finishing(p, op)
  BY DEF IInv, TypeOK, CallsInv, GenerationInv, Finishing, CloseSession
<1>8. \A c \in Call : /\ ~ProbeReturns(c) /\ ~FailStart(c) /\ ~SwallowCancel(c)
                      /\ ~ScheduleProbe(c)
  BY DEF IInv, TypeOK, ProbeReturns, FailStart, SwallowCancel, ScheduleProbe
<1>9. \A c \in Call : ~Publish(c)
  BY DEF IInv, TypeOK, LockInv, FreeInv, Publish
<1>10. \A r \in Reader, h \in Call : ~Release(r, h)
  BY DEF IInv, TypeOK, Release
<1>11. \A h \in Call : ~EndRead(h) /\ ~ReportProbeFailure(h)
                       /\ (StartProbe(h) => h = g)
  BY DEF IInv, TypeOK, EndRead, ReportProbeFailure, StartProbe
<1>12. QED
  BY <1>1, <1>2, <1>3, <1>4, <1>6, <1>7, <1>8, <1>9, <1>10, <1>11
     DEF Next, CallStep, StartStep, FinishUpdate, FinishDisable, FinishRestart,
         FinishRemove, vars

\* A generation is entered only for a revision the store holds as approved.
LEMMA EntersReviewed ==
  ASSUME IInv, [Next]_vars, NEW g \in Call, Enters(g)
  PROVE  LET k == key[g] IN
         /\ registry[k] # None
         /\ Startable(k, registry[k])
         /\ genRev'[g] = registry[k].rev
<1>0. \A c \in Call : MayRun(c) => registry[key[c]] # None
  BY DEF IInv, TypeOK, TablesInv, MayRun, Current
<1>1. ASSUME NEW k \in Key, RunStart(k)
      PROVE  LET j == key[g] IN
             /\ registry[j] # None
             /\ Startable(j, registry[j])
             /\ genRev'[g] = registry[j].rev
  <2> DEFINE c == children[k]
  <2>1. c \in Call /\ task[c] = "created" /\ lock[c] = None
    BY <1>1 DEF IInv, TypeOK, LockInv, TeardownInv, RunStart
  <2>2. g = run[c] /\ genRev'[g] = spec[c]
    BY <1>1, <2>1 DEF IInv, TypeOK, RunStart, Enters
  <2>3. key[g] = key[c]
    BY <2>1, <2>2 DEF IInv, TypeOK, CallsInv, GenerationInv
  <2>4. MayRun(c) /\ spec[c] = registry[key[c]].rev
    BY <2>1 DEF IInv, FreeInv
  <2>5. QED
    BY <1>0, <2>1, <2>2, <2>3, <2>4 DEF MayRun
<1>2. ASSUME NEW c \in Call, g = session[c], genState[g] = "open", UNCHANGED genRev
      PROVE  LET j == key[g] IN
             /\ registry[j] # None
             /\ Startable(j, registry[j])
             /\ genRev'[g] = registry[j].rev
  BY <1>0, <1>2, OpenIsReviewed DEF MayRun
<1>3. CASE \E r \in Reader, c \in Call : Lease(r, c)
  BY <1>2, <1>3 DEF IInv, TypeOK, Lease, Enters
<1>4. CASE StartProbe(g)
  <2>1. session[target[g]] = g /\ genState[g] = "open" /\ UNCHANGED genRev
    BY <1>4 DEF IInv, TypeOK, StartProbe, Enters
  <2>2. target[g] \in Call
    BY <2>1 DEF IInv, TypeOK, CallsInv, GenerationInv
  <2>3. QED
    BY <1>2, <2>1, <2>2
<1>5. QED
  BY <1>1, <1>3, <1>4, Entrances

\* A process is started, and a lease is granted, only for the revision the store
\* holds as approved and enabled at that step.
THEOREM OnlyReviewed == Spec => OnlyReviewedCodeRuns
<1> DEFINE Reviewed(g) == LET k == key[g]
                          IN  registry[k] # None /\ Startable(k, registry[k])
                              /\ genRev'[g] = registry[k].rev
<1>1. IInv /\ [Next]_vars => \A g \in Call : Enters(g) => Reviewed(g)
  BY EntersReviewed
<1>2. IInv /\ [Next]_vars => [\A g \in Call : Enters(g) => Reviewed(g)]_vars
  BY <1>1
<1>3. QED
  BY Inductive, <1>2, PTL DEF Spec, OnlyReviewedCodeRuns, Enters

-----------------------------------------------------------------------------
\* What a key shows depends on its object and on what that object publishes.
LEMMA SameServed ==
  ASSUME UNCHANGED <<children, provider>>,
         \A c \in Call : provider[c] # None => genRev'[provider[c]] = genRev[provider[c]],
         TypeOK
  PROVE  UNCHANGED ServedRev
BY DEF TypeOK, ServedRev

\* A step that touches the object and the provider of one key shows at that key.
LEMMA OthersServed ==
  ASSUME IInv, NEW k \in Key, UNCHANGED genRev,
         \A j \in Key : j # k => children'[j] = children[j],
         \A j \in Key : j # k /\ children[j] # None =>
            provider'[children[j]] = provider[children[j]],
         children' \in [Key -> Call \cup {None}]
  PROVE  ServedRev' = [ServedRev EXCEPT ![k] = ServedRev'[k]]
<1>1. \A j \in Key : j # k => ServedRev'[j] = ServedRev[j]
  BY DEF ServedRev
<1>2. DOMAIN ServedRev = Key /\ DOMAIN ServedRev' = Key
      /\ ServedRev = [j \in Key |-> ServedRev[j]]
      /\ ServedRev' = [j \in Key |-> ServedRev'[j]]
  BY DEF ServedRev
<1>3. QED
  BY <1>1, <1>2

\* A step that withdraws what the key k serves.
LEMMA Withdrawn ==
  ASSUME IInv, NEW k \in Key, UNCHANGED genRev,
         NEW c \in Call, key[c] = k,
         children' = children \/ children' = [children EXCEPT ![k] = None],
         provider' = [provider EXCEPT ![c] = None],
         children[k] = c
  PROVE  ServedRev' = [ServedRev EXCEPT ![k] = None]
<1>1. \A j \in Key : j # k => children'[j] = children[j]
  BY DEF IInv, TypeOK
<1>2. \A j \in Key : j # k /\ children[j] # None =>
        provider'[children[j]] = provider[children[j]]
  BY DEF IInv, TypeOK, TablesInv
<1>3. children' \in [Key -> Call \cup {None}]
  BY DEF IInv, TypeOK
<1>4. ServedRev'[k] = None
  BY DEF IInv, TypeOK, ServedRev
<1>5. QED
  BY <1>1, <1>2, <1>3, <1>4, OthersServed

\* After the first block of a teardown the object publishes nothing: it unmounted
\* its provider, or it waits for a start that had published none.
LEMMA TeardownWithdraws ==
  ASSUME IInv, NEW p \in Call, NEW op, Granted(p, op), StartTeardown(p)
  PROVE  provider' = [provider EXCEPT ![target[p]] = None]
<1>1. target[p] \in Call /\ lock[target[p]] = None
  BY GrantedTypes DEF IInv, Granted
<1>2. task[target[p]] \in PendingStart => provider[target[p]] = None
  BY <1>1 DEF IInv, FreeInv
<1>3. QED
  BY <1>1, <1>2 DEF IInv, TypeOK, StartTeardown, Withdraw

\* `add` registers a record and shows nothing: its new object has no provider.
LEMMA AddRegisters ==
  ASSUME IInv, NEW p \in Call, NEW k \in Key, Add(p, k)
  PROVE  Service!Register(k)
<1>1. provider[p] = None
  BY DEF IInv, TypeOK, CallsInv, LockInv, FreeInv, MayRun, Current, Add
<1>2. children[k] = None /\ children' = [children EXCEPT ![k] = p] /\ UNCHANGED provider
  BY DEF IInv, TablesInv, Add
<1>3. UNCHANGED genRev
  BY DEF Add
<1>4. ServedRev' = [ServedRev EXCEPT ![k] = ServedRev'[k]]
  <2>1. \A j \in Key : j # k => children'[j] = children[j]
    BY <1>2 DEF IInv, TypeOK
  <2>2. children' \in [Key -> Call \cup {None}]
    BY <1>2 DEF IInv, TypeOK
  <2>3. QED
    BY <1>2, <1>3, <2>1, <2>2, OthersServed
<1>5. ServedRev'[k] = None /\ ServedRev[k] = None
  BY <1>1, <1>2 DEF IInv, TypeOK, ServedRev
<1>6. UNCHANGED ServedRev
  <2>1. DOMAIN ServedRev = Key /\ ServedRev = [j \in Key |-> ServedRev[j]]
    BY DEF ServedRev
  <2>2. ServedRev'[k] = ServedRev[k]
    BY <1>5
  <2>3. k \in Key /\ [ServedRev EXCEPT ![k] = ServedRev[k]] = ServedRev
    BY <2>1
  <2>4. QED
    BY <1>4, <2>2, <2>3
<1>7. registry[k] = None /\ \E r \in Rev, e \in BOOLEAN : registry' =
        [registry EXCEPT ![k] = [rev |-> r, approved |-> None, enabled |-> e]]
  BY DEF Add
<1>8. QED
  BY <1>6, <1>7 DEF Service!Register

\* An edit and a disable show as an edit that withdraws what the key serves.
LEMMA EditShows ==
  ASSUME IInv, NEW p \in Call, NEW op, Granted(p, op), NEW r \in Rev, NEW e \in BOOLEAN,
         registry' = [registry EXCEPT ![key[p]] = Edited(@, r, e)],
         UNCHANGED <<children, genRev>>,
         provider' = [provider EXCEPT ![target[p]] = None]
  PROVE  Service!Edit(key[p])
<1>1. key[p] \in Key /\ target[p] \in Call /\ registry[key[p]] \in Record
  BY GrantedTypes DEF IInv
<1>2. key[target[p]] = key[p] /\ children[key[p]] = target[p]
  BY DEF IInv, CallsInv, Granted
<1>3. ServedRev' = [ServedRev EXCEPT ![key[p]] = None]
  BY <1>1, <1>2, Withdrawn
<1>4. registry[key[p]] # None
  BY <1>1
<1>5. QED
  BY <1>1, <1>3, <1>4 DEF Service!Edit, Edited

\* An enable shows as an edit: the child was stopped, so its key served nothing.
LEMMA EnableShows ==
  ASSUME IInv, NEW p \in Call, Enable(p)
  PROVE  Service!Edit(key[p])
<1>1. /\ key[p] \in Key /\ target[p] \in Call /\ registry[key[p]] \in Record
      /\ Granted(p, "enable")
  BY GrantedTypes DEF IInv, Enable
<1>2. status[target[p]] = "stopped" /\ lock[target[p]] = None
  BY DEF Enable, Granted
<1>3. provider[target[p]] = None
  BY <1>1, <1>2 DEF IInv, FreeInv
<1>4. provider' = [provider EXCEPT ![target[p]] = None]
  BY <1>1, <1>3 DEF IInv, TypeOK, Enable
<1>5. QED
  BY <1>1, <1>4, EditShows DEF Enable

\* An approval shows as a review, and leaves what is served alone.
LEMMA ApproveShows ==
  ASSUME IInv, NEW p \in Call, Approve(p)
  PROVE  Service!Review(key[p])
<1>1. registry[key[p]] \in Record
  BY GrantedTypes DEF IInv, Approve
<1>2. registry[key[p]] # None
  BY <1>1
<1>3. UNCHANGED ServedRev
  BY SameServed DEF IInv, Approve
<1>4. QED
  BY <1>2, <1>3 DEF Service!Review, Approve

\* The removal of a record withdraws what its key serves.
LEMMA RemoveShows ==
  ASSUME IInv, NEW p \in Call, BeginRemove(p)
  PROVE  Service!Delete(key[p])
<1>1. /\ key[p] \in Key /\ target[p] \in Call /\ registry[key[p]] \in Record
      /\ Granted(p, "remove")
  BY GrantedTypes DEF IInv, BeginRemove
<1>2. key[target[p]] = key[p] /\ children[key[p]] = target[p]
  BY <1>1 DEF IInv, CallsInv, Granted
<1>3. provider' = [provider EXCEPT ![target[p]] = None]
  BY <1>1, TeardownWithdraws DEF BeginRemove
<1>4. ServedRev' = [ServedRev EXCEPT ![key[p]] = None]
  BY <1>1, <1>2, <1>3, Withdrawn DEF BeginRemove
<1>5. registry[key[p]] # None
  BY <1>1
<1>6. QED
  BY <1>4, <1>5 DEF Service!Delete, BeginRemove

\* A restart withdraws what the key serves and leaves the record alone.
LEMMA RestartShows ==
  ASSUME IInv, NEW p \in Call, BeginRestart(p)
  PROVE  Service!Stop(key[p])
<1>1. /\ key[p] \in Key /\ target[p] \in Call
      /\ Granted(p, "restart")
  BY GrantedTypes DEF IInv, BeginRestart
<1>2. key[target[p]] = key[p] /\ children[key[p]] = target[p]
  BY <1>1 DEF IInv, CallsInv, Granted
<1>3. provider' = [provider EXCEPT ![target[p]] = None]
  BY <1>1, TeardownWithdraws DEF BeginRestart
<1>4. ServedRev' = [ServedRev EXCEPT ![key[p]] = None]
  BY <1>1, <1>2, <1>3, Withdrawn DEF BeginRestart
<1>5. QED
  BY <1>4 DEF Service!Stop, BeginRestart

\* A start that publishes serves the revision the store holds as approved.
LEMMA PublishShows ==
  ASSUME IInv, NEW c \in Call, Publish(c)
  PROVE  \/ key[c] \in Key /\ Service!Serve(key[c])
         \/ UNCHANGED <<registry, ServedRev>>
<1>1. CASE status[c] # "starting"
  BY <1>1, SameServed DEF IInv, Publish
<1>2. CASE status[c] = "starting"
  <2> DEFINE k == key[c]
  <2>1. lock[c] = None /\ task[c] = "answered"
    BY DEF Publish
  <2>2. /\ MayRun(c) /\ provider[c] = None /\ session[c] # None
        /\ genRev[session[c]] = registry[k].rev
    BY <2>1 DEF IInv, FreeInv
  <2>3. k \in Key /\ children[k] = c /\ registry[k] # None
    BY <2>2 DEF IInv, TypeOK, TablesInv, MayRun, Current
  <2>4. provider' = [provider EXCEPT ![c] = session[c]] /\ UNCHANGED <<children, genRev>>
    BY <1>2 DEF Publish
  <2>5. ServedRev' = [ServedRev EXCEPT ![k] = ServedRev'[k]]
    <3>1. \A j \in Key : j # k /\ children[j] # None =>
            provider'[children[j]] = provider[children[j]]
      BY <2>3, <2>4 DEF IInv, TypeOK, TablesInv
    <3>2. \A j \in Key : children'[j] = children[j]
      BY <2>4
    <3>3. children' \in [Key -> Call \cup {None}]
      BY <2>4 DEF IInv, TypeOK
    <3>4. QED
      BY <2>3, <2>4, <3>1, <3>2, <3>3, OthersServed
  <2>6. ServedRev[k] = None /\ ServedRev'[k] = registry[k].rev
    BY <2>2, <2>3, <2>4 DEF IInv, TypeOK, ServedRev
  <2>7. Service!MayServe(k)
    BY <2>2, <2>3 DEF MayRun, Startable, Approved, Service!MayServe
  <2>8. UNCHANGED registry
    BY DEF Publish
  <2>9. QED
    BY <2>3, <2>5, <2>6, <2>7, <2>8 DEF Service!Serve
<1>3. QED
  BY <1>1, <1>2

\* A failed probe unmounts the provider of a current object, or shows nothing.
LEMMA ProbeFailureShows ==
  ASSUME IInv, NEW g \in Call, ReportProbeFailure(g)
  PROVE  \/ \E k \in Key : Service!Stop(k)
         \/ UNCHANGED <<registry, ServedRev>>
<1> DEFINE c == target[g]
<1>1. CASE UNCHANGED provider
  BY <1>1, SameServed DEF IInv, ReportProbeFailure
<1>2. CASE session[c] = g /\ genState[g] = "open"
           /\ provider' = [provider EXCEPT ![c] = None]
  <2>1. c \in Call
    BY <1>2 DEF IInv, TypeOK, CallsInv, GenerationInv
  <2>2. MayRun(c)
    BY <1>2, <2>1, OpenIsReviewed
  <2>3. key[c] \in Key /\ children[key[c]] = c
    BY <2>1, <2>2 DEF IInv, TypeOK, MayRun, Current
  <2>4. ServedRev' = [ServedRev EXCEPT ![key[c]] = None]
    BY <1>2, <2>1, <2>3, Withdrawn DEF ReportProbeFailure
  <2>5. QED
    BY <2>3, <2>4 DEF Service!Stop, ReportProbeFailure
<1>3. QED
  BY <1>1, <1>2 DEF ReportProbeFailure

\* What a key serves does not change while its revision is not touched and its
\* provider is not: every other step shows nothing.
LEMMA OtherSteps ==
  ASSUME IInv, UNCHANGED <<registry, children, provider, genRev>>
  PROVE  UNCHANGED <<registry, ServedRev>>
BY SameServed DEF IInv

\* Building a generation shows nothing: nobody publishes a generation unborn.
LEMMA RunStartShows ==
  ASSUME IInv, NEW k \in Key, RunStart(k)
  PROVE  UNCHANGED <<registry, ServedRev>>
<1> DEFINE c == children[k]
<1>1. genState[run[c]] = "unborn" /\ run[c] \in Call
  BY DEF IInv, TypeOK, GenerationInv, RunStart
<1>2. \A d \in Call : provider[d] # None => genState[provider[d]] # "unborn"
  BY InvPublished DEF PublishedImpliesApproved
<1>3. \A d \in Call : provider[d] # None => genRev'[provider[d]] = genRev[provider[d]]
  BY <1>1, <1>2 DEF IInv, TypeOK, RunStart
<1>4. QED
  BY <1>3, SameServed DEF IInv, RunStart

\* The end of a cancelled start shows nothing: it had published nothing.
LEMMA TaskEndsShows ==
  ASSUME IInv, NEW p \in Call, TaskEnds(p)
  PROVE  UNCHANGED <<registry, ServedRev>>
<1>1. target[p] \in Call /\ provider[target[p]] = None
  BY DEF IInv, TypeOK, CallsInv, TeardownInv, TaskEnds
<1>2. UNCHANGED provider
  BY <1>1 DEF IInv, TypeOK, TaskEnds, Withdraw
<1>3. QED
  BY <1>2, OtherSteps DEF TaskEnds

\* Every step of the lifecycle is a step of the service, or shows nothing.
LEMMA StepImplements ==
  ASSUME IInv, [Next]_vars
  PROVE  Service!SNext \/ UNCHANGED <<registry, ServedRev>>
<1>1. CASE \E k \in Key : RunStart(k) \/ Mute(k)
  <2>1. ASSUME NEW k \in Key, Mute(k) PROVE UNCHANGED <<registry, ServedRev>>
    BY <2>1, OtherSteps DEF Mute
  <2>2. QED
    BY <1>1, <2>1, RunStartShows
<1>2. CASE \E p \in Call, k \in Key : Add(p, k) \/ Invoke(p, k)
  <2>1. ASSUME NEW p \in Call, NEW k \in Key, Invoke(p, k)
        PROVE UNCHANGED <<registry, ServedRev>>
    BY <2>1, OtherSteps DEF Invoke
  <2>2. QED
    BY <1>2, <2>1, AddRegisters DEF Service!SNext
<1>3. CASE \E p \in Call : Abandon(p) \/ CallStep(p)
  <2>1. PICK p \in Call : Abandon(p) \/ CallStep(p)
    BY <1>3
  <2>2. CASE Abandon(p) \/ Refuse(p) \/ Drain(p)
    BY <2>2, OtherSteps DEF Abandon, Refuse, Drain
  <2>3. CASE \/ FinishUpdate(p) \/ FinishDisable(p)
             \/ FinishRestart(p) \/ FinishRemove(p)
    BY <2>3, OtherSteps DEF FinishUpdate, FinishDisable, FinishRestart, FinishRemove,
       Finishing
  <2>4. CASE TaskEnds(p)
    BY <2>4, TaskEndsShows
  <2>5. ASSUME NEW op, Granted(p, op) PROVE key[p] \in Key
    BY <2>5, GrantedTypes DEF IInv
  <2>6. CASE Enable(p) \/ Approve(p) \/ BeginRestart(p) \/ BeginRemove(p)
    <3>1. key[p] \in Key
      BY <2>5, <2>6 DEF Enable, Approve, BeginRestart, BeginRemove
    <3>2. QED
      BY <2>6, <3>1, EnableShows, ApproveShows, RestartShows, RemoveShows
         DEF Service!SNext
  <2>7. CASE BeginUpdate(p)
    <3>1. Granted(p, "update") /\ StartTeardown(p) /\ UNCHANGED <<children, genRev>>
      BY <2>7 DEF BeginUpdate
    <3>2. PICK r \in Rev, e \in BOOLEAN :
            registry' = [registry EXCEPT ![key[p]] = Edited(@, r, e)]
      BY <2>7 DEF BeginUpdate
    <3>3. Service!Edit(key[p])
      BY <3>1, <3>2, EditShows, TeardownWithdraws
    <3>4. QED
      BY <2>5, <3>1, <3>3 DEF Service!SNext
  <2>8. CASE BeginDisable(p)
    <3>1. Granted(p, "disable") /\ StartTeardown(p) /\ UNCHANGED <<children, genRev>>
      BY <2>8 DEF BeginDisable
    <3>2. registry[key[p]].rev \in Rev
      BY <3>1, GrantedTypes DEF IInv
    <3>3. registry' = [registry EXCEPT ![key[p]] = Edited(@, registry[key[p]].rev, FALSE)]
      BY <2>8 DEF BeginDisable
    <3>4. Service!Edit(key[p])
      BY <3>1, <3>2, <3>3, EditShows, TeardownWithdraws
    <3>5. QED
      BY <2>5, <3>1, <3>4 DEF Service!SNext
  <2>9. QED
    BY <2>1, <2>2, <2>3, <2>4, <2>6, <2>7, <2>8 DEF CallStep
<1>4. CASE \E c \in Call : StartStep(c) \/ SwallowCancel(c) \/ ScheduleProbe(c)
  <2>1. ASSUME NEW c \in Call,
               \/ ProbeReturns(c) \/ FailStart(c) \/ SwallowCancel(c) \/ ScheduleProbe(c)
        PROVE UNCHANGED <<registry, ServedRev>>
    BY <2>1, OtherSteps DEF ProbeReturns, FailStart, SwallowCancel, ScheduleProbe
  <2>2. ASSUME NEW c \in Call, Publish(c)
        PROVE  Service!SNext \/ UNCHANGED <<registry, ServedRev>>
    BY <2>2, PublishShows DEF Service!SNext
  <2>3. QED
    BY <1>4, <2>1, <2>2 DEF StartStep
<1>5. CASE \E r \in Reader, g \in Call : Lease(r, g) \/ Release(r, g)
  BY <1>5, OtherSteps DEF Lease, Release
<1>6. CASE \E g \in Call : StartProbe(g) \/ EndRead(g) \/ ReportProbeFailure(g)
  <2>1. ASSUME NEW g \in Call, StartProbe(g) \/ EndRead(g)
        PROVE UNCHANGED <<registry, ServedRev>>
    BY <2>1, OtherSteps DEF StartProbe, EndRead
  <2>2. QED
    BY <1>6, <2>1, ProbeFailureShows DEF Service!SNext
<1>7. CASE UNCHANGED vars
  BY <1>7, OtherSteps DEF vars
<1>8. QED
  BY <1>1, <1>2, <1>3, <1>4, <1>5, <1>6, <1>7 DEF Next

\* The lifecycle, with its tasks, locks and teardowns, implements the service that
\* withdraws what a key serves in the very step that edits or removes its record.
THEOREM Implements == Spec => ImplementsService
<1>1. Init => Service!SInit
  <2> SUFFICES ASSUME Init PROVE Service!SInit
    OBVIOUS
  <2>1. ServedRev = [k \in Key |-> None]
    BY DEF Init, ServedRev
  <2>2. Service!ServedIsReviewed /\ ServedRev \in [Key -> Rev \cup {None}]
    BY <2>1 DEF Service!ServedIsReviewed
  <2>3. QED
    BY <2>2 DEF Init, Service!SInit, Service!SRecord
<1>2. IInv /\ [Next]_vars => [Service!SNext]_(Service!svars)
  BY StepImplements DEF Service!svars
<1>3. QED
  BY Inductive, <1>1, <1>2, PTL DEF Spec, ImplementsService, Service!SSpec
=============================================================================
