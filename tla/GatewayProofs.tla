---------------------------- MODULE GatewayProofs ---------------------------
(***************************************************************************)
(* Theorems about the gateway with its callers, for any servers, users,    *)
(* rules, names and budgets: the invariants of the stores hold beside the  *)
(* requests and the action runs, and what these two answer is earned.      *)
(***************************************************************************)
EXTENDS Gateway, StoresProofs, DecisionProofs, RedactionProofs

-----------------------------------------------------------------------------
(* The stores beside requests and action runs.                             *)

\* A request has no part in the stores.
LEMMA RequestFrame ==
  ASSUME Request
  PROVE  Frame /\ UNCHANGED <<admins, act>>
<1>1. CASE \E path, kind, ident, u, scoped : Receive(path, kind, ident, u, scoped)
  BY <1>1 DEF Receive
<1>2. CASE \E k \in Key : Answer(k)
  BY <1>2 DEF Answer
<1>3. CASE \E k \in Key : AnswerFails(k)
  BY <1>3 DEF AnswerFails
<1>4. CASE \E result : Returns(result)
  BY <1>4 DEF Returns, Frame, svars
<1>5. CASE \E c, others : AskByName(c, others)
  BY <1>5 DEF AskByName, Frame, svars
<1>6. ReturnList \/ ReturnGet \/ ReturnInstructions \/ Lookup \/ Named
        => (\E result : Returns(result)) \/ (\E c, others : AskByName(c, others))
  BY DEF ReturnList, ReturnGet, ReturnInstructions, Lookup, Named
<1> QED BY <1>1, <1>2, <1>3, <1>4, <1>5, <1>6 DEF Request, Initialize

\* A step of the gateway is a step of the stores, or has no part in them.
LEMMA StepOfStores ==
  ASSUME StoresInv, [Next]_vars
  PROVE  \/ StoresNext
         \/ Frame /\ left' \in [Budget -> Nat]
<1> USE DEF Frame
<1>1. left \in [Budget -> Nat]
  BY DEF StoresInv, StoresTypeOK
<1>2. CASE Works /\ Follow
  BY <1>2 DEF StoresNext
<1>3. CASE Crash
  BY <1>3 DEF StoresNext
<1>4. CASE Request
  <2>1. CASE \E path, kind, ident, u, scoped : Receive(path, kind, ident, u, scoped)
    BY <1>1, <2>1, PayType DEF Receive
  <2>2. CASE \E k \in Key : Answer(k)
    BY <1>1, <2>2 DEF Answer
  <2>3. CASE \E k \in Key : AnswerFails(k)
    BY <1>1, <2>3, PayType DEF AnswerFails
  <2>4. CASE UNCHANGED svars
    BY <1>1, <2>4 DEF svars
  <2>5. CASE ReturnList \/ ReturnGet \/ ReturnInstructions \/ Lookup \/ Named
    <3>1. UNCHANGED svars
      BY <2>5 DEF ReturnList, ReturnGet, ReturnInstructions, Lookup, Named, Returns, AskByName
    <3> QED BY <2>4, <3>1
  <2> QED BY <1>4, <2>1, <2>2, <2>3, <2>5 DEF Request, Initialize
<1>5. CASE \E u, k, n : BeginAction(u, k, n)
  BY <1>1, <1>5, PayType DEF BeginAction
<1>6. CASE FinishAction
  BY <1>1, <1>6 DEF FinishAction, svars
<1>7. CASE \E u \in User : ChangeRole(u)
  BY <1>1, <1>7, PayType DEF ChangeRole
<1>8. CASE UNCHANGED vars
  BY <1>1, <1>8 DEF vars, svars
<1> QED BY <1>2, <1>3, <1>4, <1>5, <1>6, <1>7, <1>8 DEF Next

LEMMA StoresPreserved ==
  ASSUME StoresInv, [Next]_vars
  PROVE  StoresInv'
BY StepOfStores, StoresStep, StoresFrame DEF Frame

\* The invariant of `Stores` holds of the whole gateway: a request or an action run changes
\* nothing that it speaks of.
THEOREM StoresHold == Spec => []StoresInv
<1>1. Init => StoresInv
  BY StoresInitial DEF Init
<1> QED BY <1>1, StoresPreserved, PTL DEF Spec

\* Whatever request, action run, failure or crash comes in between, memory is what a
\* restart of the gateway would load.
THEOREM MemoryStaysDisk == Spec => []MemoryIsDisk
<1>1. StoresInv => MemoryIsDisk
  BY DEF StoresInv
<1> QED BY <1>1, StoresHold, PTL

\* The dashboard, the mounted transforms and the stored policy show the same tools.
THEOREM MarksStayInAgreement == Spec => []MarksAgree
BY StoresHold, MarksFollow, PTL

\* A source write that was answered is what the process has read.
THEOREM AnsweredWriteServed == Spec => []RestartServesWrite
BY StoresHold, ServesFollow, PTL

\* A step of the gateway shows a step of the service, or nothing of it.
LEMMA GatewayShows ==
  ASSUME StoresInv, AllReviewed, [Next]_vars
  PROVE  AllReviewed' /\ [Service!SNext]_(Service!svars)
<1>1. CASE StoresNext
  BY <1>1, ServiceStep DEF Showing, Service!svars
<1>2. CASE Frame
  BY <1>2, ServiceFrame DEF Frame, Service!svars
<1> QED BY <1>1, <1>2, StepOfStores

\* The whole gateway implements the service that serves reviewed records only: a change of
\* a record withdraws what is served of it in the same step, a write that fails does
\* neither, and requests, action runs, mutes and the end of an operation show nothing.
THEOREM GatewayImplements == Spec => ImplementsService
<1>1. Init => StoresInv /\ AllReviewed /\ Service!SInit
  BY StoresInitial, ServiceInitial DEF Init
<1>2. AllReviewed /\ StoresInv /\ [Next]_vars => AllReviewed' /\ [Service!SNext]_(Service!svars)
  BY GatewayShows
<1> QED BY <1>1, <1>2, StoresHold, PTL DEF Spec, ImplementsService, Service!SSpec

\* No crash, failed write or edit in between lets the gateway serve a process that the
\* store does not hold as enabled and approved.
THEOREM ServesReviewed == Spec => []Service!ServedIsReviewed
<1>1. Init => AllReviewed
  BY ServiceInitial DEF Init
<1>2. AllReviewed /\ StoresInv /\ [Next]_vars => AllReviewed'
  BY GatewayShows
<1>3. StoresInv /\ AllReviewed => Service!ServedIsReviewed
  BY ReviewedServed
<1> QED BY <1>1, <1>2, <1>3, StoresHold, PTL DEF Spec

\* What `LogsMatch` says of a log, for the record that its lines are read under.
LEMMA LinesOfLog ==
  ASSUME StoresInv, NEW k \in Key, HasChild(k), NEW e \in log[k]
  PROVE  /\ e \in Env /\ spec[k].env \in Env
         /\ SecretsOf[e] = SecretsOf[spec[k].env]
<1>1. e \in Env /\ spec[k].env \in Env
  BY ChildRecords, RecordFields, ZenonT(60) DEF StoresInv, StoresTypeOK
<1>2. SecretsOf[e] = SecretsOf[spec[k].env]
  BY DEF StoresInv, LogsMatch, LogMatches
<1> QED BY <1>1, <1>2

\* Whatever edits, failed writes and crashes came between, the log tail shows of a line
\* what masking it with the secrets of the process that wrote it promises.
THEOREM LogStaysMaskable == Spec => []LogMaskable
<1>1. StoresInv => LogMaskable
  <2> SUFFICES ASSUME StoresInv, NEW k \in Key, HasChild(k), NEW e \in log[k]
               PROVE  spec[k].env \in MasksLine[e]
    BY DEF LogMaskable
  <2>1. /\ e \in Env /\ spec[k].env \in Env
        /\ SecretsOf[e] = SecretsOf[spec[k].env]
    BY LinesOfLog
  <2>2. LineOf[e] \in Seq(Letter) /\ SecretsOf[e] \in SUBSET Seq(Letter)
    BY <2>1, GatewayAssumption, StoresAssumption
  <2>3. Scrub(LineOf[e], SecretsOf[e]) = Promised(LineOf[e], SecretsOf[e])
    BY <2>2, ScrubIsPromised
  <2>4. Scrub(LineOf[e], SecretsOf[spec[k].env]) = Promised(LineOf[e], SecretsOf[e])
    BY <2>1, <2>3
  <2> QED BY <2>1, <2>4 DEF MasksLine
<1> QED BY <1>1, StoresHold, PTL

\* The secrets that `log_tail` may leave readable: those of the process that wrote the line.
LogShowsNoSecret ==
  \A k \in Key : HasChild(k) => \A e \in log[k] :
    Spans(Scrub(LineOf[e], SecretsOf[spec[k].env]), SecretsOf[e]) = {}

\* No long enough secret of a process can be read in the log of its server, neither where
\* the process wrote it nor across a mask: what is masked is every place of every secret,
\* and what is left between two masks is a part of the line.
THEOREM LogHidesSecrets == Spec => []LogShowsNoSecret
<1>1. StoresInv => LogShowsNoSecret
  <2> SUFFICES ASSUME StoresInv, NEW k \in Key, HasChild(k), NEW e \in log[k]
               PROVE  Spans(Scrub(LineOf[e], SecretsOf[spec[k].env]), SecretsOf[e]) = {}
    BY DEF LogShowsNoSecret
  <2>1. e \in Env /\ SecretsOf[e] = SecretsOf[spec[k].env]
    BY LinesOfLog
  <2>2. LineOf[e] \in Seq(Letter) /\ SecretsOf[e] \in SUBSET Seq(Letter)
    BY <2>1, GatewayAssumption, StoresAssumption
  <2>3. \A s \in SecretsOf[e] : Mask \notin Range(s)
    BY <2>2, GatewayAssumption DEF Range
  <2>4. Spans(Scrub(LineOf[e], SecretsOf[e]), SecretsOf[e]) = {}
    BY <2>2, <2>3, NoSecretIsShown
  <2> QED BY <2>1, <2>4
<1> QED BY <1>1, StoresHold, PTL

-----------------------------------------------------------------------------
(* Action runs.                                                            *)

\* A run that awaits its listing keeps the record of its child object, which follows the
\* record of the key while there is a child.
RunInv ==
  act.phase = "listing" =>
    /\ act \in Run
    /\ HasChild(act.key) => act.rec = spec[act.key]

LEMMA RunStep ==
  ASSUME StoresInv, RunInv, [Next]_vars
  PROVE  RunInv'
<1>1. StoresInv'
  BY StoresPreserved
<1>2. CASE Works /\ Follow
  <2>1. CASE act.phase # "listing"
    BY <1>2, <2>1 DEF Follow, RunInv
  <2>2. CASE act.phase = "listing"
    <3> DEFINE k == act.key
               rec == IF status'[k] = "absent" THEN act.rec ELSE spec'[k]
               closed == act.closed \/ (op[k] # None /\ op'[k] = None)
    <3>1. act \in Run
      BY <2>2 DEF RunInv
    <3>2. act' = [act EXCEPT !.rec = rec, !.closed = closed]
      BY <1>2, <2>2 DEF Follow
    <3>3. k \in Key /\ act.rec \in Record /\ act.closed \in BOOLEAN
      BY <3>1 DEF Run
    <3>4. rec \in Record
      <4>1. status'[k] # "absent" => spec'[k] \in Record
        <5>1. (HasChild(act.key) => spec[act.key] \in Record)'
          <6>1. ASSUME NEW j \in Key PROVE (HasChild(j) => spec[j] \in Record)'
            BY <1>1 DEF StoresInv, StoresTypeOK, ChildrenBeside, Beside, HasChild
          <6>2. act'.key = act.key
            BY <3>1, <3>2 DEF Run
          <6> QED BY <3>3, <6>1, <6>2 DEF HasChild
        <5>2. act'.key = act.key
          BY <3>1, <3>2 DEF Run
        <5> QED BY <5>1, <5>2 DEF HasChild
      <4> QED BY <3>3, <4>1
    <3>5. closed \in BOOLEAN
      BY <3>3
    <3> HIDE DEF rec, closed
    <3>6. act' \in Run /\ act'.rec = rec /\ act'.key = k
      BY <3>1, <3>2, <3>4, <3>5 DEF Run
    <3>7. HasChild(k)' => rec = spec'[k]
      BY <3>6 DEF rec, HasChild
    <3> QED BY <3>6, <3>7 DEF RunInv, HasChild
  <2> QED BY <2>1, <2>2
<1>3. CASE act' = NoAct
  BY <1>3 DEF NoAct, RunInv
<1>4. CASE act' = act /\ UNCHANGED <<status, spec>>
  BY <1>4 DEF RunInv, HasChild
<1>5. ASSUME NEW u \in User, NEW k \in Key, NEW n \in Content[k]["tool"], BeginAction(u, k, n)
      PROVE  RunInv'
  <2>1. n \in Name
    BY GatewayAssumption DEF Kind
  <2>2. spec[k] \in Record
    BY <1>5, ChildRecords DEF StoresInv, BeginAction
  <2>3. act' = [phase |-> "listing", actor |-> u, key |-> k, name |-> n, rec |-> spec[k],
                closed |-> FALSE]
    BY <1>5 DEF BeginAction
  <2>4. spec' = spec
    BY <1>5 DEF BeginAction, Frame, child
  <2> QED BY <2>1, <2>2, <2>3, <2>4 DEF RunInv, Run
<1>6. CASE FinishAction
  <2>1. act'.phase # "listing"
    BY <1>6 DEF FinishAction
  <2> QED BY <2>1 DEF RunInv
<1>7. CASE Crash /\ act' = NoAct
  BY <1>3, <1>7
<1>8. CASE Request
  <2>1. act' = act /\ UNCHANGED <<status, spec>>
    BY <1>8, RequestFrame DEF Frame, child
  <2> QED BY <1>4, <2>1
<1>9. CASE \E u \in User : ChangeRole(u)
  BY <1>4, <1>9 DEF ChangeRole, Frame, child
<1>10. CASE UNCHANGED vars
  BY <1>4, <1>10 DEF vars, svars, child
<1> QED BY <1>2, <1>5, <1>6, <1>7, <1>8, <1>9, <1>10 DEF Next

\* What the classification, the mute and the second check of the actor decide when the
\* listing has come back.
LEMMA RunEarned ==
  ASSUME StoresInv, RunInv, [Next]_vars, act.phase = "listing", act'.phase = "ran"
  PROVE  /\ act.actor \in admins /\ ~act.closed
         /\ [key |-> act.key, name |-> act.name] \in Tagged
         /\ ~rootMuted
         /\ specs[act.key] # None =>
              ~specs[act.key].muted /\ act.name \notin specs[act.key].hidden
<1>1. act \in Run /\ (HasChild(act.key) => act.rec = spec[act.key])
  BY DEF RunInv
<1>2. FinishAction
  <2>1. CASE Works /\ Follow
    <3>1. act'.phase = act.phase
      BY <1>1, <2>1 DEF Follow, Run
    <3> QED BY <3>1
  <2>2. CASE act' = NoAct
    BY <2>2 DEF NoAct
  <2>3. CASE act' = act
    BY <2>3
  <2>4. ASSUME NEW u, NEW k, NEW n, BeginAction(u, k, n) PROVE FALSE
    BY <2>4 DEF BeginAction, NoAct
  <2>5. Request => act' = act
    BY RequestFrame
  <2>6. (\E u \in User : ChangeRole(u)) => act' = act
    BY DEF ChangeRole
  <2>7. UNCHANGED vars => act' = act
    BY DEF vars
  <2> QED BY <2>1, <2>2, <2>3, <2>4, <2>5, <2>6, <2>7 DEF Next
<1>3. /\ ~act.closed /\ [key |-> act.key, name |-> act.name] \in Tagged
      /\ Visible(FALSE, MarksOf(rootMuted, act.rec), act.name)
      /\ act.actor \in admins
  BY <1>1, <1>2 DEF FinishAction, Entitled, Run
<1>4. ~rootMuted /\ ~act.rec.muted /\ act.name \notin act.rec.hidden
  BY <1>3 DEF Visible, MarksOf, Resolved
<1>5. specs[act.key] # None => /\ act.rec.muted = specs[act.key].muted
                               /\ act.rec.hidden = specs[act.key].hidden
  BY <1>1 DEF StoresInv, ChildrenBeside, Beside, Run
<1> QED BY <1>3, <1>4, <1>5

\* run_action (supervisor.py 2298-2397), for any operations, role changes and failures
\* between its listing and its call: what runs is offered, shown and asked for by an
\* administrator of that moment, on a generation nobody closed.
THEOREM ActionsAreEarned == Spec => ActionEarned
<1>1. Init => RunInv
  BY DEF Init, RunInv, NoAct
<1>2. Spec => []RunInv
  BY <1>1, RunStep, StoresHold, PTL DEF Spec
<1>3. StoresInv /\ RunInv /\ [Next]_vars =>
        [act.phase = "listing" /\ act'.phase = "ran" =>
           /\ act.actor \in admins /\ ~act.closed
           /\ [key |-> act.key, name |-> act.name] \in Tagged
           /\ ~rootMuted
           /\ specs[act.key] # None =>
                ~specs[act.key].muted /\ act.name \notin specs[act.key].hidden]_vars
  BY RunEarned
<1> QED BY <1>2, <1>3, StoresHold, PTL DEF Spec, ActionEarned

-----------------------------------------------------------------------------
(* A request that is being answered.                                       *)

ReqType ==
  /\ req \in Question
  /\ req.waiting \cup req.failed \subseteq Routed /\ Routed \subseteq req.reach.keys
  /\ \A c \in req.hits : c.key \in Routed \ req.waiting
  /\ req.steady \subseteq req.shown
  /\ \A k \in Routed : req.chain[k] = Mounted => live[k] # None

\* The path decides the kind and the names; every failure of the second question ends the
\* request; where the rules speak of the server as a whole, the route has asked them.
ReqShape ==
  /\ req.path \in {"hash", "app", "instructions"} => req.kind = "tool"
  /\ req.phase = "named" => req.path \in {"hash", "app"}
  /\ \A c \in req.hits \cup req.cands : c.name = None <=> req.path = "instructions"
  /\ req.missed = req.failed
  /\ req.kind # "tool" \/ req.path = "instructions"
       => \A k \in Routed : AllowsServer(req.reach, k)

\* What a server shows through the chain of the request, whether its provider is still
\* mounted or not, is what the stored policy has shown since the request began.
ReqShown ==
  /\ Stored(req.kind, Routed, rootMuted, specs) \subseteq req.shown
  /\ \A k \in Routed : req.chain[k] # Mounted =>
       \A c \in Components(k, req.kind) : Lets(req.chain[k], c) => c \in req.shown
  /\ req.path = "instructions" => \A k \in Routed : [key |-> k, name |-> None] \in req.shown
  /\ \A c \in req.hits : c \in req.shown /\ (c \in Tagged => req.scoped)

\* A component that the stored policy shows all along is among the answers of its server.
ReqSteady ==
  /\ req.steady \subseteq Stored(req.kind, Routed, rootMuted, specs)
  /\ \A k \in Routed : req.chain[k] # Mounted =>
       \A c \in req.steady : c.key = k => Lets(req.chain[k], c)
  /\ req.path = "get" \/ req.phase = "named" =>
       \A c \in req.hits : Ident(req.kind, c) = req.ident
  /\ req.path # "instructions" =>
       \A d \in req.steady :
         d.key \notin req.waiting \cup req.failed /\ Wanted(d) /\ ScopeLets(d) => d \in req.hits

ReqInv == Asking => ReqType /\ ReqShape /\ ReqShown /\ ReqSteady

LEMMA ComponentShape ==
  ASSUME NEW k \in Key, NEW kind \in Kind, NEW c \in Components(k, kind)
  PROVE  c \in Component /\ c.key = k
BY GatewayAssumption DEF Components, Component

LEMMA StoredShape ==
  ASSUME NEW kind \in Kind, NEW keys \in SUBSET Key, NEW root, NEW s, NEW c
  PROVE  /\ c \in Stored(kind, keys, root, s) =>
              /\ c \in Component /\ c.key \in keys /\ c \in Components(c.key, kind)
              /\ s[c.key] # None /\ Lets(MarksOf(root, s[c.key]), c)
         /\ \A k \in keys : c \in Components(k, kind) /\ s[k] # None
              /\ Lets(MarksOf(root, s[k]), c) => c \in Stored(kind, keys, root, s)
BY ComponentShape DEF Stored

\* A mounted provider lets through what the stored policy shows.
LEMMA LiveStored ==
  ASSUME StoresInv, NEW k \in Key, HasChild(k)
  PROVE  /\ specs[k] # None /\ MarksOf(rootMuted, spec[k]) = MarksOf(rootMuted, specs[k])
         /\ live[k] # None => live[k] = MarksOf(rootMuted, specs[k])
BY DEF StoresInv, ChildrenBeside, Beside, MarksOf

LEMMA LiveHasChild ==
  ASSUME StoresInv, NEW k \in Key, live[k] # None
  PROVE  HasChild(k)
BY DEF StoresInv, ChildrenBeside, Beside

LEMMA ReceiveStep ==
  ASSUME StoresInv, NEW path \in Path, NEW kind \in Kind, NEW ident \in Identity,
         NEW u \in User, NEW scoped \in BOOLEAN, Receive(path, kind, ident, u, scoped),
         path \in {"hash", "app", "instructions"} => kind = "tool"
  PROVE  ReqInv'
<1> DEFINE reach == ReachOf(rules, u, u \in admins, "mcp", Listed, ApprovedKeys)
           keys == RoutedBy(path, kind, reach)
           now == Stored(kind, keys, rootMuted, specs)
<1>1. req' = [phase |-> "ask", path |-> path, kind |-> kind, ident |-> ident,
              scoped |-> scoped, reach |-> reach, routed |-> keys,
              chain |-> [k \in Key |-> Mounted],
              waiting |-> keys, hits |-> {}, failed |-> {}, missed |-> {}, cands |-> {},
              shown |-> now, steady |-> now]
  BY DEF Receive
<1>2. reach \in Reach
  <2>1. Listed \in SUBSET Key
    BY DEF Listed
  <2>2. KeysFor(rules, u, u \in admins, "mcp", Listed, ApprovedKeys) \in SUBSET Key
    BY <2>1 DEF KeysFor
  <2>3. rules \in SUBSET RulePool
    BY DEF StoresInv, StoresTypeOK
  <2> QED BY <2>2, <2>3 DEF ReachOf, Reach
<1>3. keys \in SUBSET reach.keys /\ reach.keys \in SUBSET Key
  BY <1>2 DEF RoutedBy, Reach
<1>4. \A k \in keys : /\ live[k] # None
                      /\ kind # "tool" \/ path = "instructions" => AllowsServer(reach, k)
                      /\ path = "instructions" => ~MarksOf(rootMuted, spec[k]).all
  BY DEF RoutedBy
<1> HIDE DEF reach, keys
<1>5. now \in SUBSET Component
  BY <1>3, StoredShape
<1>6. path = "instructions" => \A k \in keys : [key |-> k, name |-> None] \in now
  <2> SUFFICES ASSUME path = "instructions", NEW k \in keys
               PROVE  [key |-> k, name |-> None] \in now
    OBVIOUS
  <2>1. specs[k] # None /\ ~MarksOf(rootMuted, specs[k]).all
    BY <1>3, <1>4, LiveHasChild, LiveStored
  <2>2. [key |-> k, name |-> None] \in Components(k, kind)
    BY DEF Components
  <2>3. Lets(MarksOf(rootMuted, specs[k]), [key |-> k, name |-> None])
    BY <2>1 DEF Lets
  <2> QED BY <1>3, <2>1, <2>2, <2>3, StoredShape
<1>7. UNCHANGED <<rootMuted, specs, live>>
  BY DEF Receive, Frame, memory, child
<1> HIDE DEF now
<1>8. /\ req'.phase = "ask" /\ req'.path = path /\ req'.kind = kind /\ req'.ident = ident
      /\ req'.scoped = scoped /\ req'.reach = reach /\ req'.routed = keys
      /\ req'.chain = [k \in Key |-> Mounted]
      /\ req'.waiting = keys /\ req'.hits = {} /\ req'.failed = {} /\ req'.missed = {}
      /\ req'.cands = {} /\ req'.shown = now /\ req'.steady = now
  BY <1>1
<1>9. req' \in Question
  BY <1>1, <1>2, <1>3, <1>5 DEF Question, Mounted
<1>10. ReqType'
  BY <1>3, <1>4, <1>7, <1>8, <1>9 DEF ReqType, Routed
<1>11. ReqShape'
  BY <1>4, <1>8 DEF ReqShape, Routed
<1>12. Stored(req.kind, Routed, rootMuted, specs)' = now
  BY <1>7, <1>8 DEF Routed, now, Stored
<1>13. \A k \in keys : req'.chain[k] = Mounted
  BY <1>3, <1>8
<1>14. ReqShown'
  BY <1>6, <1>8, <1>12, <1>13 DEF ReqShown, Routed
<1>15. ReqSteady'
  <2>1. \A d \in now : d.key \in keys
    BY <1>3, StoredShape DEF now
  <2> QED BY <1>8, <1>12, <1>13, <2>1 DEF ReqSteady, Routed
<1> QED BY <1>10, <1>11, <1>14, <1>15 DEF ReqInv

LEMMA AnswerStep ==
  ASSUME StoresInv, ReqInv, NEW k \in Key, Answer(k)
  PROVE  ReqInv'
<1>1. ReqType /\ ReqShape /\ ReqShown /\ ReqSteady /\ Asking
  BY DEF ReqInv, Answer
<1>2. /\ req \in Question /\ k \in Routed /\ k \in req.waiting /\ req.kind \in Kind
      /\ UNCHANGED <<rootMuted, specs, live>>
  BY <1>1 DEF ReqType, Answer, Question, Frame, memory, child
<1>3. \A c \in Shows(k) : /\ c \in Component /\ c.key = k /\ c \in Components(k, req.kind)
                          /\ Wanted(c)
                          /\ req.path = "instructions" \/ (Lets(ChainMarks(k), c) /\ ScopeLets(c))
  BY <1>2, ComponentShape DEF Shows
<1>4. req' = [req EXCEPT !.waiting = req.waiting \ {k}, !.hits = req.hits \cup Shows(k)]
  BY DEF Answer
<1>5. /\ req'.phase = req.phase /\ req'.path = req.path /\ req'.kind = req.kind
      /\ req'.ident = req.ident /\ req'.scoped = req.scoped /\ req'.reach = req.reach
      /\ req'.routed = req.routed /\ req'.chain = req.chain /\ req'.failed = req.failed
      /\ req'.missed = req.missed /\ req'.cands = req.cands /\ req'.shown = req.shown
      /\ req'.steady = req.steady
      /\ req'.waiting = req.waiting \ {k} /\ req'.hits = req.hits \cup Shows(k)
  BY <1>2, <1>4 DEF Question
<1>6. req' \in Question
  <2>1. req.hits \cup Shows(k) \in SUBSET Component /\ req.waiting \ {k} \in SUBSET Key
    BY <1>2, <1>3 DEF Question
  <2> QED BY <1>2, <1>4, <2>1 DEF Question
<1>7. ReqType'
  BY <1>1, <1>2, <1>3, <1>5, <1>6 DEF ReqType, Routed
<1>8. ReqShape'
  <2>1. \A c \in Shows(k) : c.name = None <=> req.path = "instructions"
    BY <1>3 DEF Wanted
  <2> QED BY <1>1, <1>5, <2>1 DEF ReqShape, Routed
<1>9. Stored(req.kind, Routed, rootMuted, specs)' = Stored(req.kind, Routed, rootMuted, specs)
  BY <1>2, <1>5 DEF Routed, Stored
<1>10. live[k] # None => /\ specs[k] # None /\ live[k] = MarksOf(rootMuted, specs[k])
  BY <1>2, LiveHasChild, LiveStored
<1>11. Routed \in SUBSET Key
  BY <1>2 DEF Routed, Question
<1>12. ReqShown'
  <2>1. ASSUME NEW c \in Shows(k) PROVE c \in req.shown /\ (c \in Tagged => req.scoped)
    <3>1. CASE req.path = "instructions"
      <4>1. c = [key |-> k, name |-> None]
        BY <1>3, <3>1 DEF Wanted, Component
      <4>2. None \notin Name
        BY AccessAssumption
      <4>3. c \notin Tagged
        BY <4>1, <4>2, GatewayAssumption
      <4> QED BY <1>1, <1>2, <3>1, <4>1, <4>3 DEF ReqShown
    <3>2. CASE req.path # "instructions"
      <4>1. Lets(ChainMarks(k), c) /\ ScopeLets(c)
        BY <1>3, <3>2
      <4>2. CASE req.chain[k] = Mounted
        <5>1. live[k] # None /\ Lets(live[k], c)
          BY <1>1, <1>2, <4>1, <4>2 DEF ReqType, ChainMarks
        <5>2. c \in Stored(req.kind, Routed, rootMuted, specs)
          BY <1>2, <1>3, <1>10, <1>11, <5>1, StoredShape
        <5> QED BY <1>1, <4>1, <5>2 DEF ReqShown, ScopeLets
      <4>3. CASE req.chain[k] # Mounted
        BY <1>1, <1>2, <1>3, <4>1, <4>3 DEF ReqShown, ChainMarks, ScopeLets
      <4> QED BY <4>2, <4>3
    <3> QED BY <3>1, <3>2
  <2> QED BY <1>1, <1>5, <1>9, <2>1 DEF ReqShown, Routed
<1>13. ReqSteady'
  <2>1. req.path = "get" \/ req.phase = "named" =>
          \A c \in Shows(k) : Ident(req.kind, c) = req.ident
    <3>1. req.path # "instructions" \/ req.phase # "named"
      BY <1>1 DEF ReqShape
    <3> QED BY <1>1, <1>3, <3>1 DEF Wanted, ReqShape
  <2>2. ASSUME req.path # "instructions", NEW d \in req.steady,
               d.key \notin (req.waiting \ {k}) \cup req.failed, Wanted(d), ScopeLets(d)
        PROVE  d \in req.hits \cup Shows(k)
    <3>1. CASE d.key # k
      BY <1>1, <2>2, <3>1 DEF ReqSteady
    <3>2. CASE d.key = k
      <4>1. d \in Stored(req.kind, Routed, rootMuted, specs)
        BY <1>1 DEF ReqSteady
      <4>2. d \in Components(k, req.kind) /\ Lets(MarksOf(rootMuted, specs[k]), d)
        BY <1>2, <1>11, <3>2, <4>1, StoredShape
      <4>3. Lets(ChainMarks(k), d)
        BY <1>1, <1>2, <1>10, <3>2, <4>2 DEF ReqType, ReqSteady, ChainMarks
      <4> QED BY <2>2, <4>2, <4>3 DEF Shows
    <3> QED BY <3>1, <3>2
  <2>3. \A c : (Wanted(c) <=> Wanted(c)') /\ (ScopeLets(c) <=> ScopeLets(c)')
    BY <1>5 DEF Wanted, ScopeLets
  <2> QED BY <1>1, <1>5, <1>9, <2>1, <2>2, <2>3 DEF ReqSteady, Routed
<1> QED BY <1>7, <1>8, <1>12, <1>13 DEF ReqInv

LEMMA AnswerFailsStep ==
  ASSUME StoresInv, ReqInv, NEW k \in Key, AnswerFails(k)
  PROVE  ReqInv'
<1>1. ReqType /\ ReqShape /\ ReqShown /\ ReqSteady /\ Asking
  BY DEF ReqInv, AnswerFails
<1>2. /\ req \in Question /\ k \in Routed /\ k \in req.waiting
      /\ UNCHANGED <<rootMuted, specs, live>>
  BY <1>1 DEF ReqType, AnswerFails, Frame, memory, child
<1>3. req' = [req EXCEPT !.waiting = req.waiting \ {k}, !.failed = req.failed \cup {k},
                         !.missed = req.missed \cup {k}]
  BY DEF AnswerFails
<1>4. /\ req'.phase = req.phase /\ req'.path = req.path /\ req'.kind = req.kind
      /\ req'.ident = req.ident /\ req'.scoped = req.scoped /\ req'.reach = req.reach
      /\ req'.routed = req.routed /\ req'.chain = req.chain /\ req'.hits = req.hits
      /\ req'.cands = req.cands /\ req'.shown = req.shown /\ req'.steady = req.steady
      /\ req'.waiting = req.waiting \ {k} /\ req'.failed = req.failed \cup {k}
      /\ req'.missed = req.missed \cup {k}
  BY <1>2, <1>3 DEF Question
<1>5. req' \in Question
  <2>1. /\ req.waiting \ {k} \in SUBSET Key /\ req.failed \cup {k} \in SUBSET Key
        /\ req.missed \cup {k} \in SUBSET Key
    BY <1>2 DEF Question
  <2> QED BY <1>2, <1>3, <2>1 DEF Question
<1>6. ReqType'
  BY <1>1, <1>2, <1>4, <1>5 DEF ReqType, Routed
<1>7. ReqShape'
  BY <1>1, <1>4 DEF ReqShape, Routed
<1>8. Stored(req.kind, Routed, rootMuted, specs)' = Stored(req.kind, Routed, rootMuted, specs)
  BY <1>2, <1>4 DEF Routed, Stored
<1>9. ReqShown'
  BY <1>1, <1>4, <1>8 DEF ReqShown, Routed
<1>10. ReqSteady'
  <2>1. \A c : (Wanted(c) <=> Wanted(c)') /\ (ScopeLets(c) <=> ScopeLets(c)')
    BY <1>4 DEF Wanted, ScopeLets
  <2> QED BY <1>1, <1>4, <1>8, <2>1 DEF ReqSteady, Routed
<1> QED BY <1>6, <1>7, <1>9, <1>10 DEF ReqInv

LEMMA IdentityParts ==
  /\ None \in Identity
  /\ \A kind \in Kind : Asked[kind] \subseteq Identity
  /\ Published \subseteq Identity
<1> DEFINE asked == UNION {Asked[kind] : kind \in Kind}
<1>1. \A kind \in Kind : Asked[kind] \subseteq asked
  OBVIOUS
<1> HIDE DEF asked
<1>2. Identity = {None} \cup asked \cup Published
  BY DEF Identity, asked
<1> QED BY <1>1, <1>2

\* The names of the first answer, asked again one by one.
LEMMA AskByNameStep ==
  ASSUME StoresInv, ReqInv, Asking, req.path \in {"hash", "app"}, req.failed = {},
         NEW c \in req.hits \cup req.cands, NEW others \in SUBSET (req.hits \cup req.cands),
         AskByName(c, others)
  PROVE  ReqInv'
<1>1. ReqType /\ ReqShape /\ ReqShown /\ ReqSteady
  BY DEF ReqInv
<1>2. req \in Question /\ UNCHANGED <<rootMuted, specs, live>>
  BY <1>1 DEF ReqType, AskByName, svars, memory, child
<1>3. req' = [req EXCEPT !.phase = "named", !.ident = Ident("tool", c), !.cands = others,
                         !.waiting = req.routed, !.hits = {}, !.failed = {}]
  BY DEF AskByName, Routed
<1>4. /\ req'.phase = "named" /\ req'.path = req.path /\ req'.kind = req.kind
      /\ req'.ident = Ident("tool", c) /\ req'.scoped = req.scoped /\ req'.reach = req.reach
      /\ req'.routed = req.routed /\ req'.chain = req.chain /\ req'.hits = {}
      /\ req'.cands = others /\ req'.shown = req.shown /\ req'.steady = req.steady
      /\ req'.waiting = req.routed /\ req'.failed = {} /\ req'.missed = req.missed
  BY <1>2, <1>3 DEF Question
<1>5. c \in [key : Key, name : Name]
  <2>1. c \in Component
    BY <1>2 DEF Question
  <2> QED BY <1>1, <2>1 DEF ReqShape, Component
<1>6. req' \in Question
  <2>1. Ident("tool", c) \in Identity
    <3>1. Ident("tool", c) \in Published
      BY <1>5, Zenon DEF Published
    <3> QED BY <3>1, IdentityParts
  <2>2. others \in SUBSET Component /\ req.routed \in SUBSET Key
    BY <1>2 DEF Question
  <2> QED BY <1>2, <1>3, <2>1, <2>2 DEF Question
<1>7. ReqType'
  BY <1>1, <1>2, <1>4, <1>6 DEF ReqType, Routed
<1>8. ReqShape'
  BY <1>1, <1>4 DEF ReqShape, Routed
<1>9. Stored(req.kind, Routed, rootMuted, specs)' = Stored(req.kind, Routed, rootMuted, specs)
  BY <1>2, <1>4 DEF Routed, Stored
<1>10. ReqShown'
  BY <1>1, <1>4, <1>9 DEF ReqShown, Routed
<1>11. \A d \in req.steady : d.key \in req.routed
  BY <1>1, <1>2, StoredShape DEF ReqSteady, Routed, Question
<1>12. ReqSteady'
  BY <1>1, <1>4, <1>9, <1>11 DEF ReqSteady, Routed
<1> QED BY <1>7, <1>8, <1>10, <1>12 DEF ReqInv

\* A step of the stores beside the request.
LEMMA FollowStep ==
  ASSUME StoresInv, StoresInv', ReqInv, Asking, Follow
  PROVE  ReqInv'
<1> DEFINE chain == [j \in Key |-> IF j \in req.routed /\ req.chain[j] = Mounted /\ live'[j] = None
                                   THEN live[j] ELSE req.chain[j]]
           now == Stored(req.kind, req.routed, rootMuted', specs')
<1>1. ReqType /\ ReqShape /\ ReqShown /\ ReqSteady
  BY DEF ReqInv
<1>2. req \in Question /\ req.routed \in SUBSET Key /\ req.kind \in Kind
  BY <1>1 DEF ReqType, Question
<1>3. req' = [req EXCEPT !.chain = chain, !.shown = req.shown \cup now,
                         !.steady = req.steady \cap now]
  <2>1. [j \in Key |-> IF j \in req.routed /\ req.chain[j] = Mounted /\ live'[j] = None
                       THEN live[j] ELSE req.chain[j]] = chain
    OBVIOUS
  <2> QED BY <2>1 DEF Follow, Routed
<1>4. chain \in [Key -> Marks \cup {Mounted}]
  <2>1. req.chain \in [Key -> Marks \cup {Mounted}] /\ live \in [Key -> Marks \cup {None}]
    BY <1>2 DEF Question, StoresInv, StoresTypeOK
  <2> QED BY <2>1 DEF Mounted
<1>5. now \in SUBSET Component
  BY <1>2, StoredShape
<1>6. \A j \in Key : chain[j] = IF j \in req.routed /\ req.chain[j] = Mounted /\ live'[j] = None
                                THEN live[j] ELSE req.chain[j]
  OBVIOUS
<1> HIDE DEF chain, now
<1>7. /\ req'.phase = req.phase /\ req'.path = req.path /\ req'.kind = req.kind
      /\ req'.ident = req.ident /\ req'.scoped = req.scoped /\ req'.reach = req.reach
      /\ req'.routed = req.routed /\ req'.waiting = req.waiting /\ req'.hits = req.hits
      /\ req'.failed = req.failed /\ req'.missed = req.missed /\ req'.cands = req.cands
      /\ req'.chain = chain /\ req'.shown = req.shown \cup now
      /\ req'.steady = req.steady \cap now
  BY <1>2, <1>3 DEF Question
<1>8. req' \in Question
  <2>1. req.shown \cup now \in SUBSET Component /\ req.steady \cap now \in SUBSET Component
    BY <1>2, <1>5 DEF Question
  <2> QED BY <1>2, <1>3, <1>4, <2>1 DEF Question
<1>9. Stored(req.kind, Routed, rootMuted, specs)' = now
  BY <1>7 DEF Routed, now, Stored
<1>10. ReqType'
  BY <1>1, <1>2, <1>6, <1>7, <1>8 DEF ReqType, Routed, Mounted
<1>11. ReqShape'
  BY <1>1, <1>7 DEF ReqShape, Routed
\* The marks that an unpublished provider keeps are those of the stored policy of then.
<1>12. ASSUME NEW k \in req.routed, chain[k] # Mounted, NEW c \in Components(k, req.kind)
       PROVE  /\ Lets(chain[k], c) => c \in req.shown
              /\ c \in req.steady => Lets(chain[k], c)
  <2>1. CASE req.chain[k] # Mounted
    <3>1. chain[k] = req.chain[k]
      BY <1>2, <1>6, <2>1
    <3>2. c.key = k
      BY <1>2, ComponentShape
    <3> QED BY <1>1, <2>1, <3>1, <3>2 DEF ReqShown, ReqSteady, Routed
  <2>2. CASE req.chain[k] = Mounted
    <3>1. chain[k] = live[k] /\ live[k] # None
      BY <1>1, <1>2, <1>6, <1>12, <2>2 DEF ReqType, Routed, Mounted
    <3>2. specs[k] # None /\ live[k] = MarksOf(rootMuted, specs[k])
      BY <1>2, <3>1, LiveHasChild, LiveStored
    <3>3. c \in Stored(req.kind, Routed, rootMuted, specs) <=> Lets(chain[k], c)
      <4>1. c.key = k
        BY <1>2, ComponentShape
      <4>2. c \in Stored(req.kind, req.routed, rootMuted, specs)
              => Lets(MarksOf(rootMuted, specs[k]), c)
        BY <1>2, <4>1, StoredShape, ZenonT(60)
      <4>3. Lets(MarksOf(rootMuted, specs[k]), c)
              => c \in Stored(req.kind, req.routed, rootMuted, specs)
        BY <1>2, <1>12, <3>2, StoredShape
      <4> QED BY <3>1, <3>2, <4>2, <4>3 DEF Routed
    <3> QED BY <1>1, <3>3 DEF ReqShown, ReqSteady
  <2> QED BY <2>1, <2>2
<1>13. ReqShown'
  <2>1. \A k \in req.routed : chain[k] # Mounted =>
          \A c \in Components(k, req.kind) : Lets(chain[k], c) => c \in req.shown
    BY <1>12
  <2> QED BY <1>1, <1>7, <1>9, <2>1 DEF ReqShown, Routed
<1>14. ReqSteady'
  <2>1. \A k \in req.routed : chain[k] # Mounted =>
          \A c \in req.steady : c.key = k => Lets(chain[k], c)
    <3>1. \A c \in req.steady : c \in Components(c.key, req.kind)
      BY <1>1, <1>2, StoredShape DEF ReqSteady, Routed
    <3> QED BY <1>12, <3>1
  <2>2. \A c : (Wanted(c) <=> Wanted(c)') /\ (ScopeLets(c) <=> ScopeLets(c)')
    BY <1>7 DEF Wanted, ScopeLets
  <2> QED BY <1>1, <1>7, <1>9, <2>1, <2>2 DEF ReqSteady, Routed
<1> QED BY <1>10, <1>11, <1>13, <1>14 DEF ReqInv

LEMMA ReqKept ==
  ASSUME ReqInv, UNCHANGED <<req, rootMuted, specs, live>>
  PROVE  ReqInv'
<1>1. CASE ~Asking
  BY <1>1 DEF ReqInv, Asking
<1>2. CASE Asking
  <2>1. ReqType /\ ReqShape /\ ReqShown /\ ReqSteady
    BY <1>2 DEF ReqInv
  <2>2. Stored(req.kind, Routed, rootMuted, specs)' = Stored(req.kind, Routed, rootMuted, specs)
    BY DEF Routed, Stored
  <2>3. \A c : (Wanted(c) <=> Wanted(c)') /\ (ScopeLets(c) <=> ScopeLets(c)')
    BY DEF Wanted, ScopeLets
  <2>4. ReqType' /\ ReqShape'
    BY <2>1 DEF ReqType, ReqShape, Routed
  <2>5. ReqShown'
    BY <2>1, <2>2 DEF ReqShown, Routed
  <2>6. ReqSteady'
    BY <2>1, <2>2, <2>3 DEF ReqSteady, Routed
  <2> QED BY <2>4, <2>5, <2>6 DEF ReqInv
<1> QED BY <1>1, <1>2

LEMMA NotAsking ==
  ASSUME req'.phase \notin {"ask", "named"}
  PROVE  ReqInv'
BY DEF ReqInv, Asking

LEMMA RequestStep ==
  ASSUME StoresInv, ReqInv, Request
  PROVE  ReqInv'
<1>1. ASSUME NEW u \in User, NEW scoped \in BOOLEAN, NEW kind \in Kind,
             Receive("list", kind, None, u, scoped)
      PROVE  ReqInv'
  BY <1>1, ReceiveStep DEF Path, Identity
<1>2. ASSUME NEW u \in User, NEW scoped \in BOOLEAN, NEW kind \in Kind,
             NEW ident \in Asked[kind], Receive("get", kind, ident, u, scoped)
      PROVE  ReqInv'
  <2>1. ident \in Identity
    BY DEF Identity
  <2> QED BY <1>2, <2>1, ReceiveStep DEF Path
<1>3. ASSUME NEW u \in User, NEW scoped \in BOOLEAN,
             NEW path \in {"hash", "app", "instructions"},
             Receive(path, "tool", None, u, scoped)
      PROVE  ReqInv'
  BY <1>3, ReceiveStep DEF Path, Identity, Kind
<1>4. ASSUME NEW result, Returns(result)
      PROVE  ReqInv'
  <2>1. req'.phase = "done"
    BY <1>4 DEF Returns
  <2> QED BY <2>1, NotAsking
<1>5. CASE Asking /\ Lookup
  <2>1. CASE \E result : Returns(result)
    BY <1>4, <2>1
  <2>2. ASSUME req.failed = {}, NEW c \in Passed, AskByName(c, Passed \ {c})
        PROVE  ReqInv'
    BY <1>5, <2>2, AskByNameStep DEF Lookup, Passed
  <2> QED BY <1>5, <2>1, <2>2 DEF Lookup
<1>6. CASE Asking /\ Named
  <2>1. CASE \E result : Returns(result)
    BY <1>4, <2>1
  <2>2. ASSUME req.failed = {}, NEW c \in req.cands, AskByName(c, req.cands \ {c})
        PROVE  ReqInv'
    <3>1. req.path \in {"hash", "app"}
      BY <1>6 DEF ReqInv, ReqShape, Named
    <3> QED BY <1>6, <2>2, <3>1, AskByNameStep
  <2> QED BY <1>6, <2>1, <2>2 DEF Named
<1>7. CASE Asking /\ (ReturnList \/ ReturnGet \/ ReturnInstructions)
  BY <1>4, <1>7 DEF ReturnList, ReturnGet, ReturnInstructions
<1> QED BY <1>1, <1>2, <1>3, <1>5, <1>6, <1>7, AnswerStep, AnswerFailsStep DEF Request, Initialize, Answered

LEMMA ReqStep ==
  ASSUME StoresInv, ReqInv, [Next]_vars
  PROVE  ReqInv'
<1>1. StoresInv'
  BY StoresPreserved
<1>2. CASE Works /\ Follow
  <2>1. CASE Asking
    BY <1>1, <1>2, <2>1, FollowStep
  <2>2. CASE ~Asking
    BY <1>2, <2>2, NotAsking DEF Follow, Asking
  <2> QED BY <2>1, <2>2
<1>3. CASE Crash /\ req' = NoReq
  BY <1>3, NotAsking DEF NoReq
<1>4. CASE \E u, k, n : BeginAction(u, k, n)
  BY <1>4, ReqKept DEF BeginAction, Frame, memory, child
<1>5. CASE FinishAction
  BY <1>5, ReqKept DEF FinishAction, svars, memory, child
<1>6. CASE \E u \in User : ChangeRole(u)
  BY <1>6, ReqKept DEF ChangeRole, Frame, memory, child
<1>7. CASE UNCHANGED vars
  BY <1>7, ReqKept DEF vars, svars, memory, child
<1> QED BY <1>2, <1>3, <1>4, <1>5, <1>6, <1>7, RequestStep DEF Next

\* The inductive invariant of the gateway.
GatewayInv == StoresInv /\ RunInv /\ ReqInv /\ admins \subseteq User

\* With requests and action runs beside the operations of `Stores`.
THEOREM GatewayInductive == Spec => []GatewayInv
<1>1. Init => GatewayInv
  BY StoresInitial, GatewayAssumption
     DEF Init, GatewayInv, RunInv, ReqInv, Asking, NoReq, NoAct
<1>2. ASSUME admins \subseteq User, [Next]_vars
      PROVE  admins' \subseteq User
  <2>1. CASE Works /\ Follow
    BY <1>2, <2>1 DEF Follow
  <2>2. CASE Request
    BY <1>2, <2>2, RequestFrame
  <2>3. CASE \E u \in User : ChangeRole(u)
    BY <1>2, <2>3 DEF ChangeRole
  <2> QED BY <1>2, <2>1, <2>2, <2>3 DEF Next, BeginAction, FinishAction, vars
<1>3. GatewayInv /\ [Next]_vars => GatewayInv'
  BY <1>2, StoresPreserved, RunStep, ReqStep DEF GatewayInv
<1> QED BY <1>1, <1>3, PTL DEF Spec

\* Type correctness of the gateway: a request waits only for servers it routed, and what it
\* was answered stays within the components of those.
THEOREM GatewayTyped == Spec => []TypeOK
<1>1. GatewayInv => TypeOK
  BY DEF GatewayInv, StoresInv, RunInv, ReqInv, ReqType, TypeOK
<1> QED BY <1>1, GatewayInductive, PTL

-----------------------------------------------------------------------------
(* What a request returns.                                                 *)

\* The decision of the code, `Resolve`, and its meaning, `Permitted`, agree on each
\* component that may be asked for.
LEMMA ReachDecides ==
  ASSUME NEW reach \in Reach, NEW k \in reach.keys, NEW t \in Name \cup {None}
  PROVE  Allows(reach, k, t) <=> reach.admin \/ Permitted(reach.rules, reach.user, k, t)
<1>1. reach.rules \in SUBSET Rule /\ reach.user \in User /\ k \in Key
  BY StoresAssumption DEF Reach
<1> QED BY <1>1, DecisionIsPermitted DEF Allows

LEMMA HitShape ==
  ASSUME ReqType, NEW c \in req.hits \cup req.steady \cup req.shown
  PROVE  c.key \in Key /\ c.name \in Name \cup {None}
BY DEF ReqType, Question, Component

\* What passes the router is permitted.
LEMMA PassedIsMay ==
  ASSUME ReqType, ReqShape, ReqShown, NEW c \in req.hits,
         req.path = "instructions" \/ Passes(req.reach, req.kind, c)
  PROVE  c.key \in req.reach.keys /\ May(c) /\ c \in req.shown
<1>1. /\ c.key \in Routed /\ c.key \in req.reach.keys /\ c \in req.shown
      /\ c \in Tagged => req.scoped
  BY DEF ReqType, ReqShown
<1>2. req.reach \in Reach /\ c.name \in Name \cup {None} /\ (c.name = None <=> req.path = "instructions")
  BY HitShape DEF ReqType, Question, ReqShape
<1>3. CASE req.kind = "tool" /\ req.path # "instructions"
  BY <1>1, <1>2, <1>3, ReachDecides DEF Passes, AllowsTool, May
<1>4. CASE req.kind # "tool" \/ req.path = "instructions"
  <2>1. AllowsServer(req.reach, c.key)
    BY <1>1, <1>4 DEF ReqShape
  <2>2. req.reach.admin \/ Permitted(req.reach.rules, req.reach.user, c.key, None)
    BY <1>1, <1>2, <2>1, ReachDecides DEF AllowsServer
  <2>3. (IF req.kind = "tool" THEN c.name ELSE None) = None
    BY <1>2, <1>4
  <2> QED BY <1>1, <2>2, <2>3 DEF May
<1> QED BY <1>3, <1>4

\* What is permitted, and showed all along on a server that answered, passes.
LEMMA SteadyPasses ==
  ASSUME ReqType, ReqShape, ReqSteady, req.waiting = {}, req.path # "instructions",
         NEW d \in req.steady, d.name # None, May(d), d.key \notin req.failed,
         Owns(d.key, req.kind, Ident(req.kind, d)), Wanted(d)
  PROVE  d \in Passed
<1>1. req.reach \in Reach /\ req.kind \in Kind /\ Routed \in SUBSET Key
  BY DEF ReqType, Question, Routed
<1>2. d.key \in Routed /\ d.name \in Name
  BY <1>1, HitShape, StoredShape DEF ReqSteady
<1>3. d.key \in req.reach.keys
  BY <1>2 DEF ReqType
<1>4. d \in req.hits
  BY DEF ReqSteady, May, ScopeLets
<1>5. req.kind = "tool" => AllowsTool(req.reach, d.key, d.name)
  BY <1>1, <1>2, <1>3, ReachDecides DEF AllowsTool, May
<1> QED BY <1>4, <1>5 DEF Passed, Passes

\* No name of the list, and no component of a single answer, has a second publisher.
LEMMA ListEarned ==
  ASSUME Asking, ReqInv, req.waiting = {}, req.path = "list",
         NEW result, result = Unique(req.kind, Passed, req.failed)
  PROVE  Earned(result)
<1>1. ReqType /\ ReqShape /\ ReqShown /\ ReqSteady /\ req.kind \in Kind /\ req.phase = "ask"
  BY DEF ReqInv, ReqType, ReqShape, Question, Asking
<1>2. result \subseteq Passed /\ Passed \subseteq req.hits
  BY DEF Unique, Passed
<1>3. ASSUME NEW c \in result
      PROVE  c.key \in req.reach.keys /\ May(c) /\ c \in req.shown
  BY <1>1, <1>2, PassedIsMay DEF Passed
<1>4. ASSUME NEW c \in result, NEW d \in result \cup req.steady, d.name # None,
             Ident(req.kind, d) = Ident(req.kind, c), May(d),
             Owns(d.key, req.kind, Ident(req.kind, d))
      PROVE  d.key = c.key
  <2>1. \A f \in req.failed : ~Owns(f, req.kind, Ident(req.kind, c))
    BY <1>1, <1>2, ListIsUnambiguous
  <2>2. Wanted(d)
    BY <1>1, <1>4 DEF Wanted
  <2>3. d \in Passed
    <3>1. CASE d \in result
      BY <1>2, <3>1
    <3>2. CASE d \in req.steady
      BY <1>1, <1>4, <2>1, <2>2, <3>2, SteadyPasses
    <3> QED BY <3>1, <3>2
  <2> QED BY <1>1, <1>4, <2>3, ListIsUnambiguous
<1>5. \A c \in result : \A f \in req.failed : ~Owns(f, req.kind, Ident(req.kind, c))
  BY <1>1, <1>2, ListIsUnambiguous
<1> QED BY <1>3, <1>4, <1>5 DEF Earned

LEMMA SingleEarned ==
  ASSUME Asking, ReqInv, req.waiting = {}, req.path # "instructions",
         req.path = "get" \/ req.phase = "named",
         req.phase = "named" => req.failed = {},
         NEW result, result = Single(req.kind, req.ident, Passed, req.failed)
  PROVE  Earned(result)
<1>1. ReqType /\ ReqShape /\ ReqShown /\ ReqSteady /\ req.kind \in Kind
  BY DEF ReqInv, ReqType, Question
<1>2. result \subseteq Passed /\ Passed \subseteq req.hits
  BY DEF Single, Passed
<1>3. ASSUME NEW c \in result
      PROVE  c.key \in req.reach.keys /\ May(c) /\ c \in req.shown
  BY <1>1, <1>2, PassedIsMay DEF Passed
<1>4. \A c \in Passed : Ident(req.kind, c) = req.ident
  BY <1>1, <1>2 DEF ReqSteady
<1>5. result # {} => /\ \A f \in req.failed : ~Owns(f, req.kind, req.ident)
                     /\ \A c, d \in Passed : c.key = d.key
  BY DEF Single, Clash
<1>6. ASSUME NEW c \in result, NEW d \in result \cup req.steady, d.name # None,
             Ident(req.kind, d) = Ident(req.kind, c), May(d),
             Owns(d.key, req.kind, Ident(req.kind, d))
      PROVE  d.key = c.key
  <2>1. Ident(req.kind, d) = req.ident
    BY <1>2, <1>4, <1>6
  <2>2. Wanted(d)
    BY <1>1, <1>6, <2>1 DEF Wanted, ReqShape, Asking
  <2>3. d \in Passed
    <3>1. CASE d \in result
      BY <1>2, <3>1
    <3>2. CASE d \in req.steady
      BY <1>1, <1>5, <1>6, <2>1, <2>2, <3>2, SteadyPasses
    <3> QED BY <3>1, <3>2
  <2> QED BY <1>2, <1>5, <2>3
<1>7. req.path \in {"hash", "app"} => req.missed = {}
  BY <1>1 DEF ReqShape
<1>8. \A c \in result : \A f \in req.failed : ~Owns(f, req.kind, Ident(req.kind, c))
  BY <1>2, <1>4, <1>5
<1> QED BY <1>3, <1>6, <1>7, <1>8 DEF Earned

LEMMA InstructionsEarned ==
  ASSUME Asking, ReqInv, req.path = "instructions"
  PROVE  Earned(req.hits)
<1>1. ReqType /\ ReqShape /\ ReqShown
  BY DEF ReqInv
<1>2. \A c \in req.hits : c.key \in req.reach.keys /\ May(c) /\ c \in req.shown
  BY <1>1, PassedIsMay
<1> QED BY <1>2 DEF Earned

LEMMA RequestEarned ==
  ASSUME GatewayInv, [Next]_vars, Asking, req'.phase = "done"
  PROVE  Earned(req'.result)
<1> USE DEF GatewayInv
<1>1. req \in Question /\ req.phase \in {"ask", "named"}
  BY DEF ReqInv, ReqType, Asking
<1>2. \/ Answered /\ (ReturnList \/ ReturnGet \/ ReturnInstructions \/ Lookup \/ Named)
      \/ req'.phase # "done"
  <2>1. req' = req => req'.phase # "done"
    BY <1>1
  <2>2. Follow => req'.phase # "done"
    BY <1>1 DEF Follow, Question
  <2>3. \A k \in Key : Answer(k) \/ AnswerFails(k) => req'.phase # "done"
    BY <1>1 DEF Answer, AnswerFails, Question
  <2>4. \A path, kind, ident, u, scoped : ~Receive(path, kind, ident, u, scoped)
    BY <1>1 DEF Receive, NoReq
  <2>5. req' = NoReq => req'.phase # "done"
    BY DEF NoReq
  <2>6. Request => \/ Answered /\ (ReturnList \/ ReturnGet \/ ReturnInstructions \/ Lookup \/ Named)
                   \/ \E k \in Key : Answer(k) \/ AnswerFails(k)
    BY <2>4 DEF Request, Initialize
  <2> QED BY <2>1, <2>2, <2>3, <2>5, <2>6
          DEF Next, BeginAction, FinishAction, ChangeRole, vars
<1>3. Earned({})
  BY DEF Earned
<1>4. ASSUME NEW result, Returns(result)
      PROVE  req'.result = result
  BY <1>4 DEF Returns
<1>5. ASSUME NEW c, NEW others, AskByName(c, others)
      PROVE  req'.phase # "done"
  <2>1. req'.phase = "named"
    BY <1>1, <1>5 DEF AskByName, Question
  <2> QED BY <2>1
<1>6. CASE Answered /\ ReturnList
  BY <1>4, <1>6, ListEarned DEF ReturnList, Answered
<1>7. CASE Answered /\ ReturnGet
  <2>1. req.phase # "named"
    BY <1>7 DEF ReturnGet, ReqInv, ReqShape
  <2> QED BY <1>4, <1>7, <2>1, SingleEarned DEF ReturnGet, Answered
<1>8. CASE Answered /\ ReturnInstructions
  BY <1>4, <1>8, InstructionsEarned DEF ReturnInstructions, Answered
<1>9. CASE Answered /\ Lookup
  BY <1>3, <1>4, <1>5, <1>9 DEF Lookup
<1>10. CASE Answered /\ Named
  <2>1. req.path \in {"hash", "app"} /\ req.phase = "named" /\ req.kind = "tool"
    BY <1>10 DEF Named, ReqInv, ReqShape
  <2>2. CASE req.failed # {}
    BY <1>3, <1>4, <1>5, <1>10, <2>2 DEF Named
  <2>3. CASE req.failed = {}
    <3> DEFINE single == Single("tool", req.ident, Passed, req.failed)
    <3>1. Earned(single)
      BY <1>10, <2>1, <2>3, SingleEarned DEF Answered
    <3>2. Returns(single) \/ \E c, others : AskByName(c, others)
      BY <1>10, <2>3 DEF Named
    <3> HIDE DEF single
    <3> QED BY <1>4, <1>5, <3>1, <3>2
  <2> QED BY <2>2, <2>3
<1> QED BY <1>2, <1>6, <1>7, <1>8, <1>9, <1>10

\* The caller router and the instructions (router.py 57-390, supervisor.py 2399-2467), for
\* any rules, servers, names and order of answers, with mutes, edits, removals and crashes in
\* between: what a caller is answered was earned.
THEOREM AnswersAreEarned == Spec => AnswerEarned
<1>1. GatewayInv /\ [Next]_vars => [Asking /\ req'.phase = "done" => Earned(req'.result)]_vars
  BY RequestEarned
<1> QED BY <1>1, GatewayInductive, PTL DEF Spec, AnswerEarned
=============================================================================
