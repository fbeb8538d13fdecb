---------------------------- MODULE StoresProofs ----------------------------
(***************************************************************************)
(* Theorems about what the supervisor keeps of a server, for any sets of   *)
(* users, servers, records, rules and budgets.                             *)
(*                                                                         *)
(* Each invariant is stated for one step of `Stores`; the last section     *)
(* joins them, and `GatewayProofs` lifts them to the whole gateway.        *)
(***************************************************************************)
EXTENDS Stores, TLAPS

-----------------------------------------------------------------------------
(* Records, marks and budgets.                                             *)

\* An edited record is a record: each operation changes one field of it.
LEMMA RecordFields ==
  /\ \A r \in Record :
       /\ r.env \in Env /\ r.enabled \in BOOLEAN /\ r.muted \in BOOLEAN
       /\ r.hidden \in SUBSET Name /\ r.approved \in Env \cup {None} /\ r # None
       /\ \A m \in BOOLEAN :
            /\ [r EXCEPT !.muted = m] \in Record
            /\ [r EXCEPT !.muted = m].muted = m
            /\ [r EXCEPT !.muted = m].hidden = r.hidden
            /\ [r EXCEPT !.muted = m].env = r.env
       /\ \A h \in SUBSET Name :
            /\ [r EXCEPT !.hidden = h] \in Record
            /\ [r EXCEPT !.hidden = h].muted = r.muted
            /\ [r EXCEPT !.hidden = h].hidden = h
            /\ [r EXCEPT !.hidden = h].env = r.env
       /\ /\ [r EXCEPT !.approved = r.env] \in Record
          /\ [r EXCEPT !.approved = r.env].muted = r.muted
          /\ [r EXCEPT !.approved = r.env].hidden = r.hidden
          /\ [r EXCEPT !.approved = r.env].env = r.env
       /\ \A env \in Env, enabled \in BOOLEAN :
            /\ [r EXCEPT !.env = env, !.enabled = enabled] \in Record
            /\ [r EXCEPT !.env = env, !.enabled = enabled].muted = r.muted
            /\ [r EXCEPT !.env = env, !.enabled = enabled].hidden = r.hidden
            /\ [r EXCEPT !.env = env, !.enabled = enabled].env = env
<1>1. None \notin Record
  BY StoresAssumption
<1>2. ASSUME NEW r \in Record
      PROVE  /\ r.env \in Env /\ r.enabled \in BOOLEAN /\ r.muted \in BOOLEAN
             /\ r.hidden \in SUBSET Name /\ r.approved \in Env \cup {None} /\ r # None
  BY <1>1 DEF Record
<1>3. ASSUME NEW r \in Record, NEW m \in BOOLEAN
      PROVE  /\ [r EXCEPT !.muted = m] \in Record
             /\ [r EXCEPT !.muted = m].muted = m
             /\ [r EXCEPT !.muted = m].hidden = r.hidden
             /\ [r EXCEPT !.muted = m].env = r.env
  BY DEF Record
<1>4. ASSUME NEW r \in Record, NEW h \in SUBSET Name
      PROVE  /\ [r EXCEPT !.hidden = h] \in Record
             /\ [r EXCEPT !.hidden = h].muted = r.muted
             /\ [r EXCEPT !.hidden = h].hidden = h
             /\ [r EXCEPT !.hidden = h].env = r.env
  BY DEF Record
<1>5. ASSUME NEW r \in Record
      PROVE  /\ [r EXCEPT !.approved = r.env] \in Record
             /\ [r EXCEPT !.approved = r.env].muted = r.muted
             /\ [r EXCEPT !.approved = r.env].hidden = r.hidden
             /\ [r EXCEPT !.approved = r.env].env = r.env
  BY DEF Record
<1>6. ASSUME NEW r \in Record, NEW env \in Env, NEW enabled \in BOOLEAN
      PROVE  /\ [r EXCEPT !.env = env, !.enabled = enabled] \in Record
             /\ [r EXCEPT !.env = env, !.enabled = enabled].muted = r.muted
             /\ [r EXCEPT !.env = env, !.enabled = enabled].hidden = r.hidden
             /\ [r EXCEPT !.env = env, !.enabled = enabled].env = env
  BY DEF Record
<1> QED BY <1>2, <1>3, <1>4, <1>5, <1>6

\* A new record, and the marks of any.
LEMMA RecordMarks ==
  /\ \A env \in Env, enabled \in BOOLEAN :
       NewRecord(env, enabled) \in Record /\ NewRecord(env, enabled).env = env
  /\ \A r \in Record, root \in BOOLEAN : MarksOf(root, r) \in Marks /\ MarksOf(root, r) # None
  /\ \A b \in Builtin : /\ BuiltinMarks(b) \in Marks
                        /\ \A m \in BOOLEAN : [b EXCEPT !.muted = m] \in Builtin
                        /\ \A h \in SUBSET AdminTool : [b EXCEPT !.hidden = h] \in Builtin
<1>1. ASSUME NEW env \in Env, NEW enabled \in BOOLEAN
      PROVE  NewRecord(env, enabled) \in Record /\ NewRecord(env, enabled).env = env
  BY DEF NewRecord, Record
<1>2. ASSUME NEW r \in Record, NEW root \in BOOLEAN
      PROVE  MarksOf(root, r) \in Marks
  BY DEF MarksOf, Resolved, Marks, Record
<1>3. ASSUME NEW b \in Builtin
      PROVE  /\ BuiltinMarks(b) \in Marks
             /\ \A m \in BOOLEAN : [b EXCEPT !.muted = m] \in Builtin
             /\ \A h \in SUBSET AdminTool : [b EXCEPT !.hidden = h] \in Builtin
  BY DEF BuiltinMarks, Resolved, Marks, Builtin
<1>4. None \notin Marks
  BY StoresAssumption
<1> QED BY <1>1, <1>2, <1>3, <1>4

\* A payment leaves a budget a budget.
LEMMA PayType ==
  ASSUME left \in [Budget -> Nat], NEW kinds, Pay(kinds)
  PROVE  left' \in [Budget -> Nat]
<1>1. \A b \in Budget : b \in kinds => left[b] - 1 \in Nat
  BY DEF Pay
<1> QED BY <1>1 DEF Pay

-----------------------------------------------------------------------------
(* Types.                                                                  *)

MemoryType ==
  /\ specs \in [Key -> Record \cup {None}] /\ rootMuted \in BOOLEAN /\ builtin \in Builtin
  /\ adminFile \in [muted : BOOLEAN, builtin : Builtin, servers : [Key -> Record \cup {None}]]
  /\ userFile \in [Key -> Record \cup {None}]

ChildType ==
  /\ status \in [Key -> Status] /\ spec \in [Key -> Record \cup {None}]
  /\ task \in [Key -> {"none", "new", "probing"}]
  /\ live \in [Key -> Marks \cup {None}]
  /\ op \in [Key -> Operation \cup {None}]

SourceType ==
  /\ tree \in [Key -> [live : Version, tmp : Version, old : Version]]
  /\ version \in 1..MaxVersion /\ seen \in [Key -> SUBSET Version]
  /\ pending \in [Key -> SUBSET (1..MaxVersion)] /\ acked \in [Key -> 0..MaxVersion]

RestType ==
  /\ rules \subseteq RulePool /\ builtinLive \in Marks /\ log \in [Key -> SUBSET Env]
  /\ left \in [Budget -> Nat]

LEMMA TypeParts == StoresTypeOK <=> MemoryType /\ ChildType /\ SourceType /\ RestType
  BY DEF StoresTypeOK, MemoryType, ChildType, SourceType, RestType

\* A commit of a typed state, whether or not its write fails.
LEMMA CommitType ==
  ASSUME MemoryType, NEW s \in [Key -> Record \cup {None}], NEW root \in BOOLEAN,
         NEW b \in Builtin, NEW user, NEW ok, Commit(s, root, b, user, ok)
  PROVE  MemoryType'
<1>1. AdminPart(s, root, b)
        \in [muted : BOOLEAN, builtin : Builtin, servers : [Key -> Record \cup {None}]]
  BY DEF AdminPart
<1>2. UserPart(s) \in [Key -> Record \cup {None}]
  BY DEF UserPart
<1> QED BY <1>1, <1>2 DEF MemoryType, Commit, WriteFails, memory, files

LEMMA CommitRecordType ==
  ASSUME MemoryType, NEW k \in Key, NEW rec \in Record \cup {None}, NEW ok,
         CommitRecord(k, rec, ok)
  PROVE  /\ MemoryType'
         /\ ok => specs' = [specs EXCEPT ![k] = rec] /\ UNCHANGED <<rootMuted, builtin>>
         /\ ~ok => UNCHANGED <<memory, files>>
<1>1. [specs EXCEPT ![k] = rec] \in [Key -> Record \cup {None}]
  BY DEF MemoryType
<1>2. MemoryType'
  BY <1>1, CommitType DEF CommitRecord, MemoryType
<1> QED BY <1>2 DEF CommitRecord, Commit, WriteFails

\* The ways a child changes: to a start, to a stop, to an unpublished generation.
LEMMA StartType ==
  ASSUME ChildType, MemoryType', NEW k \in Key,
         Starts(k) \/ Stops(k), seen \in [Key -> SUBSET Version]
  PROVE  /\ status' \in [Key -> Status] /\ spec' \in [Key -> Record \cup {None}]
         /\ task' \in [Key -> {"none", "new", "probing"}]
         /\ seen' \in [Key -> SUBSET Version]
<1>1. specs'[k] \in Record \cup {None}
  BY DEF MemoryType
<1>2. CASE Starts(k)
  BY <1>1, <1>2 DEF ChildType, Starts, Status
<1>3. CASE Stops(k)
  BY <1>1, <1>3 DEF ChildType, Stops, Status
<1> QED BY <1>2, <1>3

LEMMA MemoryKept ==
  ASSUME MemoryType, UNCHANGED <<memory, files>>
  PROVE  MemoryType'
BY DEF MemoryType, memory, files

LEMMA ChildKept ==
  ASSUME ChildType, UNCHANGED child
  PROVE  ChildType'
BY DEF ChildType, child

LEMMA SourceKept ==
  ASSUME SourceType, UNCHANGED <<source, seen>>
  PROVE  SourceType'
BY DEF SourceType, source

LEMMA RestKept ==
  ASSUME RestType, UNCHANGED <<rules, builtinLive, log>>, left' \in [Budget -> Nat]
  PROVE  RestType'
BY DEF RestType

-----------------------------------------------------------------------------
(* The child of a key beside its record.                                   *)

\* A child exists exactly while its record does, and shows the visibility of that record,
\* although an edit may have left the rest of it behind.  An operation between its two
\* steps finds the child it began with; nothing starts and nothing is mounted meanwhile.
Beside(k) ==
  /\ HasChild(k) <=> specs[k] # None
  /\ HasChild(k) => /\ spec[k] # None
                    /\ spec[k].muted = specs[k].muted
                    /\ spec[k].hidden = specs[k].hidden
  /\ ~HasChild(k) => task[k] = "none" /\ live[k] = None /\ pending[k] = {}
  /\ live[k] # None => live[k] = MarksOf(rootMuted, spec[k])
  /\ op[k] # None => /\ task[k] = "none" /\ live[k] = None
                     /\ op[k].kind = "remove" <=> ~HasChild(k)

ChildrenBeside == (\A k \in Key : Beside(k)) /\ builtinLive = BuiltinMarks(builtin)

\* The record of a child, and the kind and version of an operation.
LEMMA ChildRecords ==
  ASSUME StoresTypeOK, ChildrenBeside, NEW k \in Key
  PROVE  /\ HasChild(k) => spec[k] \in Record /\ specs[k] \in Record
         /\ task[k] # "none" => HasChild(k)
         /\ live[k] # None => HasChild(k)
         /\ op[k] # None => /\ op[k].kind \in {"update", "restart", "remove"}
                            /\ op[k].version \in 0..MaxVersion
BY DEF StoresTypeOK, ChildrenBeside, Beside, Operation

\* What a source write may leave: the live tree is the one before, none, or the new one,
\* and only a write that went to its end waits for a restart.
LEMMA StagesShape ==
  ASSUME NEW t \in [live : Version, tmp : Version, old : Version], NEW v \in 1..MaxVersion
  PROVE  /\ Len(Stages(t, v)) = 7 /\ DOMAIN Stages(t, v) = 1..7
         /\ \A i \in 1..7 : /\ Stages(t, v)[i] \in [live : Version, tmp : Version, old : Version]
                             /\ Stages(t, v)[i].live \in {t.live, 0, v}
         /\ Stages(t, v)[7].live = v
<1>1. 0 \in Version /\ Partial \in Version /\ v \in Version
  BY StoresAssumption DEF Version, Partial
<1> DEFINE cleared == [t EXCEPT !.tmp = 0, !.old = 0]
           staged == [cleared EXCEPT !.tmp = v]
           aside == IF t.live = 0 THEN staged ELSE [staged EXCEPT !.live = 0, !.old = t.live]
           swapped == [aside EXCEPT !.live = v, !.tmp = 0]
           Tree == [live : Version, tmp : Version, old : Version]
<1>2. Stages(t, v) = <<[t EXCEPT !.tmp = 0], cleared, [cleared EXCEPT !.tmp = Partial], staged,
                       aside, swapped, [swapped EXCEPT !.old = 0]>>
  BY DEF Stages
<1>3. [t EXCEPT !.tmp = 0] \in Tree /\ [t EXCEPT !.tmp = 0].live = t.live
  BY <1>1
<1>4. cleared \in Tree /\ cleared.live = t.live
  BY <1>1
<1>5. [cleared EXCEPT !.tmp = Partial] \in Tree /\ [cleared EXCEPT !.tmp = Partial].live = t.live
  <2> HIDE DEF cleared
  <2> QED BY <1>1, <1>4
<1>6. staged \in Tree /\ staged.live = t.live
  <2> HIDE DEF cleared
  <2> QED BY <1>1, <1>4
<1>7. aside \in Tree /\ aside.live \in {t.live, 0}
  <2> HIDE DEF staged
  <2> QED BY <1>1, <1>6
<1>8. swapped \in Tree /\ swapped.live = v
  <2> HIDE DEF aside
  <2> QED BY <1>1, <1>7
<1>9. [swapped EXCEPT !.old = 0] \in Tree /\ [swapped EXCEPT !.old = 0].live = v
  <2> HIDE DEF swapped
  <2> QED BY <1>1, <1>8
<1> HIDE DEF cleared, staged, aside, swapped
<1> QED BY <1>2, <1>3, <1>4, <1>5, <1>6, <1>7, <1>8, <1>9

\* One source write, in terms of its last stage.
LEMMA WriteShape ==
  ASSUME SourceType, NEW k \in Key, WriteSource(k)
  PROVE  \E done \in 1..7, glimpsed \in SUBSET {tree[k].live, 0, version + 1} :
           /\ version' = version + 1 /\ version' \in 1..MaxVersion
           /\ tree' = [tree EXCEPT ![k] = Stages(tree[k], version + 1)[done]]
           /\ seen' = [seen EXCEPT ![k] = @ \cup glimpsed]
           /\ \/ pending' = pending
              \/ /\ done = 7 /\ HasChild(k)
                 /\ pending' = [pending EXCEPT ![k] = @ \cup {version + 1}]
<1> DEFINE stages == Stages(tree[k], version + 1)
           passed(done) == {stages[i].live : i \in 1..done}
<1>1. version + 1 \in 1..MaxVersion
  BY StoresAssumption DEF WriteSource, SourceType
<1>2. tree[k] \in [live : Version, tmp : Version, old : Version]
  BY DEF SourceType
<1>3. /\ Len(stages) = 7 /\ DOMAIN stages = 1..7
      /\ \A i \in 1..7 : stages[i].live \in {tree[k].live, 0, version + 1}
  BY <1>1, <1>2, StagesShape
<1> HIDE DEF stages
<1>4. PICK done \in 1..7 :
        /\ version' = version + 1
        /\ tree' = [tree EXCEPT ![k] = stages[done]]
        /\ \E glimpsed \in IF Reads(k) THEN SUBSET passed(done) ELSE {{}} :
             seen' = [seen EXCEPT ![k] = @ \cup glimpsed]
        /\ pending' = IF done = Len(stages) /\ status[k] \in {"running", "failed"}
                      THEN [pending EXCEPT ![k] = @ \cup {version + 1}] ELSE pending
  BY <1>3 DEF WriteSource, stages
<1>5. PICK glimpsed \in SUBSET passed(done) : seen' = [seen EXCEPT ![k] = @ \cup glimpsed]
  BY <1>4
<1>6. glimpsed \in SUBSET {tree[k].live, 0, version + 1}
  BY <1>3, <1>4, <1>5
<1>7. \/ pending' = pending
      \/ /\ done = 7 /\ HasChild(k)
         /\ pending' = [pending EXCEPT ![k] = @ \cup {version + 1}]
  BY <1>3, <1>4 DEF HasChild
<1> HIDE DEF passed
<1> QED BY <1>1, <1>4, <1>5, <1>6, <1>7 DEF stages

LEMMA WriteType ==
  ASSUME SourceType, NEW k \in Key, WriteSource(k)
  PROVE  SourceType'
<1>1. version + 1 \in 1..MaxVersion /\ tree[k] \in [live : Version, tmp : Version, old : Version]
  BY StoresAssumption DEF WriteSource, SourceType
<1>2. {tree[k].live, 0, version + 1} \subseteq Version
  BY <1>1, StoresAssumption DEF Version, Partial
<1>3. PICK done \in 1..7, glimpsed \in SUBSET {tree[k].live, 0, version + 1} :
        /\ version' = version + 1 /\ version' \in 1..MaxVersion
        /\ tree' = [tree EXCEPT ![k] = Stages(tree[k], version + 1)[done]]
        /\ seen' = [seen EXCEPT ![k] = @ \cup glimpsed]
        /\ \/ pending' = pending
           \/ /\ done = 7 /\ HasChild(k)
              /\ pending' = [pending EXCEPT ![k] = @ \cup {version + 1}]
  BY WriteShape
<1>4. Stages(tree[k], version + 1)[done] \in [live : Version, tmp : Version, old : Version]
  BY <1>1, StagesShape
<1>5. acked' = acked
  BY DEF WriteSource
<1>6. tree' \in [Key -> [live : Version, tmp : Version, old : Version]]
  BY <1>3, <1>4 DEF SourceType
<1>7. seen' \in [Key -> SUBSET Version]
  <2>1. seen \in [Key -> SUBSET Version] /\ seen[k] \cup glimpsed \in SUBSET Version
    BY <1>2 DEF SourceType
  <2> QED BY <1>3, <2>1
<1>8. pending' \in [Key -> SUBSET (1..MaxVersion)]
  <2>1. pending \in [Key -> SUBSET (1..MaxVersion)]
    BY DEF SourceType
  <2>2. pending[k] \cup {version + 1} \in SUBSET (1..MaxVersion)
    BY <1>1, <2>1
  <2>3. [pending EXCEPT ![k] = @ \cup {version + 1}] \in [Key -> SUBSET (1..MaxVersion)]
    BY <2>1, <2>2
  <2> QED BY <1>3, <2>1, <2>3
<1>9. version' \in 1..MaxVersion
  BY <1>3, StoresAssumption
<1>10. acked' \in [Key -> 0..MaxVersion]
  BY <1>5 DEF SourceType
<1> QED BY <1>6, <1>7, <1>8, <1>9, <1>10 DEF SourceType

\* Types: one step per operation, in the order of the module.
LEMMA TypeStep ==
  ASSUME StoresTypeOK, ChildrenBeside, StoresNext
  PROVE  StoresTypeOK'
<1> DEFINE Goal == MemoryType' /\ ChildType' /\ SourceType' /\ RestType'
<1>1. /\ MemoryType /\ ChildType /\ SourceType /\ RestType
      /\ left \in [Budget -> Nat] /\ rules \subseteq RulePool
  BY TypeParts DEF RestType
<1>2. SUFFICES Goal
  BY DEF StoresTypeOK, MemoryType, ChildType, SourceType, RestType
<1>3. ASSUME NEW k \in Key, RunStart(k) PROVE Goal
  <2>1. spec[k].env \in Env
    BY <1>3, ChildRecords, RecordFields DEF RunStart
  <2>2. ChildType'
    BY <1>1, <1>3 DEF RunStart, ChildType
  <2>3. RestType'
    BY <1>1, <1>3, <2>1 DEF RunStart, RestType
  <2> QED BY <1>1, <1>3, <2>2, <2>3, MemoryKept, SourceKept DEF RunStart
<1>4. ASSUME NEW k \in Key, Publish(k) PROVE Goal
  <2>1. MarksAtPublish(k) \in Marks
    BY <1>1, <1>4, ChildRecords, RecordMarks DEF Publish, MarksAtPublish, MemoryType
  <2>2. ChildType'
    BY <1>1, <1>4, <2>1 DEF Publish, ChildType, Status
  <2> QED BY <1>1, <1>4, <2>2, MemoryKept, SourceKept, RestKept DEF Publish
<1>5. ASSUME NEW k \in Key, StartFails(k) \/ ProbeFails(k) PROVE Goal
  <2>1. ChildType'
    BY <1>1, <1>5 DEF StartFails, ProbeFails, ChildType, Status
  <2> QED BY <1>1, <1>5, <2>1, MemoryKept, SourceKept, RestKept, PayType DEF StartFails, ProbeFails
<1>6. ASSUME NEW k \in Key, ReadSource(k) PROVE Goal
  <2>1. SourceType'
    BY <1>1, <1>6 DEF ReadSource, SourceType, source
  <2> QED BY <1>1, <1>6, <2>1, MemoryKept, ChildKept, RestKept DEF ReadSource
<1>7. ASSUME NEW m \in BOOLEAN, NEW ok \in BOOLEAN, SetRootMuted(m, ok) PROVE Goal
  <2>1. MemoryType'
    BY <1>1, <1>7, CommitType DEF SetRootMuted, MemoryType
  <2>2. \A k \in Key : AppliedToAll(m)[k] \in Marks \cup {None}
    BY ChildRecords, RecordMarks DEF AppliedToAll
  <2>3. ChildType'
    BY <1>1, <1>7, <2>2 DEF SetRootMuted, ChildType, AppliedToAll
  <2> QED BY <1>1, <1>7, <2>1, <2>3, SourceKept, RestKept, PayType DEF SetRootMuted
<1>8. ASSUME NEW k \in Key, NEW rec \in Record, NEW ok \in BOOLEAN, SetVisibility(k, rec, ok)
      PROVE Goal
  <2>1. MemoryType'
    BY <1>1, <1>8, CommitRecordType DEF SetVisibility
  <2>2. AppliedTo(k, rec) \in [Key -> Marks \cup {None}]
    BY <1>1, RecordMarks DEF AppliedTo, ChildType, MemoryType
  <2>3. ChildType'
    BY <1>1, <1>8, <2>2 DEF SetVisibility, ChildType
  <2> QED BY <1>1, <1>8, <2>1, <2>3, SourceKept, RestKept, PayType DEF SetVisibility
<1>9. ASSUME NEW k \in Key, NEW m \in BOOLEAN, NEW ok \in BOOLEAN, SetMuted(k, m, ok)
      PROVE Goal
  <2>1. [specs[k] EXCEPT !.muted = m] \in Record
    BY <1>9, ChildRecords, RecordFields DEF SetMuted
  <2> QED BY <1>8, <1>9, <2>1 DEF SetMuted
<1>10. ASSUME NEW k \in Key, NEW t \in Name, NEW m \in BOOLEAN, NEW ok \in BOOLEAN,
              SetToolMuted(k, t, m, ok)
       PROVE Goal
  <2>1. specs[k] \in Record /\ specs[k].hidden \in SUBSET Name /\ rootMuted \in BOOLEAN
    BY <1>1, <1>10, ChildRecords, RecordFields DEF SetToolMuted, MemoryType
  <2>2. CASE (t \in specs[k].hidden) = m
    <3>1. AppliedTo(k, specs[k]) \in [Key -> Marks \cup {None}]
      BY <1>1, <2>1, RecordMarks DEF AppliedTo, ChildType
    <3>2. ChildType'
      BY <1>1, <1>10, <2>1, <2>2, <3>1 DEF SetToolMuted, ChildType
    <3> QED BY <1>1, <1>10, <2>2, <3>2, MemoryKept, SourceKept, RestKept, PayType DEF SetToolMuted
  <2>3. CASE (t \in specs[k].hidden) # m
    <3>1. Toggled(specs[k].hidden, t, m) \in SUBSET Name
      BY <2>1 DEF Toggled
    <3>2. [specs[k] EXCEPT !.hidden = Toggled(specs[k].hidden, t, m)] \in Record
      BY <2>1, <3>1, RecordFields
    <3> QED BY <1>8, <1>10, <2>3, <3>2 DEF SetToolMuted
  <2> QED BY <2>2, <2>3
<1>11. ASSUME NEW b \in Builtin, NEW ok \in BOOLEAN, SetBuiltin(b, ok) PROVE Goal
  <2>1. MemoryType'
    BY <1>1, <1>11, CommitType DEF SetBuiltin, MemoryType
  <2>2. left' \in [Budget -> Nat] /\ BuiltinMarks(b) \in Marks
    BY <1>1, <1>11, PayType, RecordMarks DEF SetBuiltin
  <2>3. RestType'
    BY <1>1, <1>11, <2>2 DEF SetBuiltin, RestType
  <2> QED BY <1>1, <1>11, <2>1, <2>3, ChildKept, SourceKept DEF SetBuiltin
<1>12. ASSUME NEW m \in BOOLEAN, NEW ok \in BOOLEAN,
              SetAdminMuted(m, ok) \/ \E t \in AdminTool : SetAdminToolMuted(t, m, ok)
       PROVE Goal
  <2>1. builtin \in Builtin /\ builtin.hidden \in SUBSET AdminTool
    BY <1>1 DEF MemoryType, Builtin
  <2>2. [builtin EXCEPT !.muted = m] \in Builtin
    BY <2>1, RecordMarks
  <2>3. \A t \in AdminTool : [builtin EXCEPT !.hidden = Toggled(builtin.hidden, t, m)] \in Builtin
    BY <2>1, RecordMarks DEF Toggled
  <2> QED BY <1>11, <1>12, <2>2, <2>3 DEF SetAdminMuted, SetAdminToolMuted
<1>13. ASSUME NEW r \in RulePool, NEW ok \in BOOLEAN, AddRule(r, ok) \/ RemoveRule(r, ok)
       PROVE Goal
  <2>1. left' \in [Budget -> Nat]
    BY <1>1, <1>13, PayType DEF AddRule, RemoveRule
  <2>2. RestType'
    BY <1>1, <1>13, <2>1 DEF AddRule, RemoveRule, RestType
  <2> QED BY <1>1, <1>13, <2>2, MemoryKept, ChildKept, SourceKept DEF AddRule, RemoveRule
<1>14. ASSUME NEW k \in Key, NEW env \in Env, NEW enabled \in BOOLEAN, NEW done \in 0..3,
              Add(k, env, enabled, done)
       PROVE Goal
  <2>1. left' \in [Budget -> Nat]
    BY <1>1, <1>14, PayType DEF Add
  <2>2. RestType'
    BY <1>1, <1>14, <2>1 DEF Add, RestType, RulesWithout, NoLog
  <2>3. CASE done = 3
    <3>1. MemoryType'
      BY <1>1, <1>14, <2>3, CommitRecordType, RecordMarks DEF Add
    <3>2. Starts(k) \/ Stops(k)
      BY <1>14, <2>3 DEF Add, StartsOrStops
    <3>3. seen' \in [Key -> SUBSET Version] /\ ChildType'
      BY <1>1, <1>14, <3>1, <3>2, StartType DEF Add, ChildType, SourceType
    <3>4. SourceType'
      BY <1>1, <1>14, <3>3 DEF Add, SourceType, source
    <3> QED BY <2>2, <3>1, <3>3, <3>4
  <2>4. CASE done # 3
    <3>1. ChildType'
      BY <1>1, <1>14, <2>4 DEF Add, ChildType
    <3> QED BY <1>1, <1>14, <2>2, <2>4, <3>1, MemoryKept, SourceKept DEF Add
  <2> QED BY <2>3, <2>4
<1>15. ASSUME NEW k \in Key, NEW env \in Env, NEW enabled \in BOOLEAN, NEW ok \in BOOLEAN,
              BeginUpdate(k, env, enabled, ok)
       PROVE Goal
  <2>1. Merged(k, env, enabled) \in Record
    BY <1>15, ChildRecords, RecordFields DEF BeginUpdate, Merged
  <2>2. MemoryType'
    BY <1>1, <1>15, <2>1, CommitRecordType DEF BeginUpdate
  <2>3. [kind |-> "update", version |-> 0] \in Operation
    BY StoresAssumption DEF Operation
  <2>4. ChildType'
    BY <1>1, <1>15, <2>3 DEF BeginUpdate, ChildType, Unpublishes, Takes
  <2>5. left' \in [Budget -> Nat]
    BY <1>1, <1>15, PayType DEF BeginUpdate
  <2>6. RestType'
    BY <1>1, <1>15, <2>5 DEF BeginUpdate, RestType, LogAfterEdit, NoLog
  <2> QED BY <1>1, <1>15, <2>2, <2>4, <2>6, SourceKept DEF BeginUpdate
<1>16. ASSUME NEW k \in Key, FinishUpdate(k) PROVE Goal
  <2>1. MemoryType'
    BY <1>1, <1>16, MemoryKept DEF FinishUpdate
  <2>2. Starts(k) \/ Stops(k)
    BY <1>16 DEF FinishUpdate, StartsOrStops
  <2>3. seen' \in [Key -> SUBSET Version] /\ ChildType'
    BY <1>1, <1>16, <2>1, <2>2, StartType DEF FinishUpdate, Releases, ChildType, SourceType
  <2>4. SourceType'
    BY <1>1, <1>16, <2>3 DEF FinishUpdate, SourceType, source
  <2> QED BY <1>1, <1>16, <2>1, <2>3, <2>4, RestKept DEF FinishUpdate
<1>17. ASSUME NEW k \in Key, NEW ok \in BOOLEAN, Approve(k, ok) PROVE Goal
  <2>1. [specs[k] EXCEPT !.approved = specs[k].env] \in Record
    BY <1>17, ChildRecords, RecordFields DEF Approve
  <2>2. MemoryType'
    BY <1>1, <1>17, <2>1, CommitRecordType DEF Approve
  <2>3. specs'[k] \in Record \cup {None}
    BY <2>2 DEF MemoryType
  <2>4. seen' \in [Key -> SUBSET Version] /\ ChildType'
    <3>1. CASE Starts(k)
      BY <1>1, <1>17, <2>2, <3>1, StartType DEF Approve, ChildType, SourceType
    <3>2. CASE ~Starts(k)
      BY <1>1, <1>17, <2>3, <3>2 DEF Approve, ChildType, SourceType
    <3> QED BY <3>1, <3>2
  <2>5. SourceType'
    BY <1>1, <1>17, <2>4 DEF Approve, SourceType, source
  <2> QED BY <1>1, <1>17, <2>2, <2>4, <2>5, RestKept, PayType DEF Approve
<1>18. ASSUME NEW k \in Key, NEW v \in pending[k] \cup {0},
              BeginRestart(k, v) \/ RestartRefused(k, v)
       PROVE Goal
  <2>1. v \in 0..MaxVersion /\ pending' \in [Key -> SUBSET (1..MaxVersion)]
    <3>1. pending[k] \in SUBSET (1..MaxVersion) /\ 0 \in 0..MaxVersion
      BY <1>1, StoresAssumption DEF SourceType
    <3>2. pending' = [pending EXCEPT ![k] = @ \ {v}]
      BY <1>18 DEF BeginRestart, RestartRefused
    <3> QED BY <1>1, <3>1, <3>2 DEF SourceType
  <2>2. [kind |-> "restart", version |-> v] \in Operation
    BY <2>1 DEF Operation
  <2>3. ChildType'
    BY <1>1, <1>18, <2>2 DEF BeginRestart, RestartRefused, ChildType, child, Unpublishes, Takes
  <2>4. SourceType'
    BY <1>1, <1>18, <2>1 DEF BeginRestart, RestartRefused, SourceType
  <2>5. left' \in [Budget -> Nat]
    BY <1>1, <1>18, PayType DEF BeginRestart, RestartRefused
  <2> QED BY <1>1, <1>18, <2>3, <2>4, <2>5, MemoryKept, RestKept DEF BeginRestart, RestartRefused
<1>19. ASSUME NEW k \in Key, FinishRestart(k) PROVE Goal
  <2>1. MemoryType'
    BY <1>1, <1>19, MemoryKept DEF FinishRestart
  <2>2. CASE Approved(k, specs[k])
    <3>1. seen' \in [Key -> SUBSET Version] /\ ChildType'
      BY <1>1, <1>19, <2>1, <2>2, StartType DEF FinishRestart, Releases, ChildType, SourceType
    <3>2. acked' \in [Key -> 0..MaxVersion]
      BY <1>1, <1>19, <2>2, ChildRecords DEF FinishRestart, Holds, SourceType
    <3>3. SourceType'
      BY <1>1, <1>19, <3>1, <3>2 DEF FinishRestart, SourceType
    <3> QED BY <1>1, <1>19, <2>1, <3>1, <3>3, RestKept DEF FinishRestart
  <2>3. CASE ~Approved(k, specs[k])
    <3>1. ChildType'
      BY <1>1, <1>19, <2>3 DEF FinishRestart, Releases, ChildType, Status
    <3>2. SourceType'
      BY <1>1, <1>19, <2>3 DEF FinishRestart, SourceType
    <3> QED BY <1>1, <1>19, <2>1, <3>1, <3>2, RestKept DEF FinishRestart
  <2> QED BY <2>2, <2>3
<1>20. ASSUME NEW k \in Key, NEW ok \in BOOLEAN, BeginRemove(k, ok) PROVE Goal
  <2>1. MemoryType'
    BY <1>1, <1>20, CommitRecordType DEF BeginRemove
  <2>2. [kind |-> "remove", version |-> 0] \in Operation
    BY StoresAssumption DEF Operation
  <2>3. ChildType'
    BY <1>1, <1>20, <2>2 DEF BeginRemove, ChildType, Unpublishes, Takes, Status
  <2>4. SourceType'
    BY <1>1, <1>20 DEF BeginRemove, SourceType
  <2> QED BY <1>1, <1>20, <2>1, <2>3, <2>4, RestKept, PayType DEF BeginRemove
<1>21. ASSUME NEW k \in Key, NEW done \in 0..3, FinishRemove(k, done) PROVE Goal
  <2>1. Partial \in Version /\ 0 \in Version
    BY StoresAssumption DEF Partial, Version
  <2>2. SourceType'
    <3>1. tree[k] \in [live : Version, tmp : Version, old : Version] /\ 0 \in 0..MaxVersion
      BY <1>1, StoresAssumption DEF SourceType
    <3>2. NoTree \in [live : Version, tmp : Version, old : Version]
          /\ [tree[k] EXCEPT !.live = Partial] \in [live : Version, tmp : Version, old : Version]
      BY <2>1, <3>1 DEF NoTree
    <3>3. \/ tree' = tree \/ tree' = [tree EXCEPT ![k] = NoTree]
          \/ tree' = [tree EXCEPT ![k] = [tree[k] EXCEPT !.live = Partial]]
      BY <1>21 DEF FinishRemove
    <3>4. tree' \in [Key -> [live : Version, tmp : Version, old : Version]]
      BY <1>1, <3>2, <3>3 DEF SourceType
    <3> QED BY <1>1, <1>21, <3>1, <3>4 DEF FinishRemove, SourceType
  <2>3. ChildType'
    BY <1>1, <1>21 DEF FinishRemove, ChildType, Releases
  <2>4. left' \in [Budget -> Nat]
    BY <1>1, <1>21, PayType DEF FinishRemove
  <2>5. RestType'
    BY <1>1, <1>21, <2>4 DEF FinishRemove, RestType, NoLog, RulesWithout
  <2> QED BY <1>1, <1>21, <2>2, <2>3, <2>5, MemoryKept DEF FinishRemove
<1>22. ASSUME NEW k \in Key, WriteSource(k) PROVE Goal
  <2>1. left' \in [Budget -> Nat]
    BY <1>1, <1>22, PayType DEF WriteSource
  <2>2. SourceType'
    BY <1>1, <1>22, WriteType
  <2> QED BY <1>1, <1>22, <2>1, <2>2, MemoryKept, ChildKept, RestKept DEF WriteSource
<1>23. ASSUME Crash PROVE Goal
  <2>1. LoadedSpecs \in [Key -> Record \cup {None}]
    BY <1>1 DEF LoadedSpecs, MemoryType
  <2>2. MemoryType'
    BY <1>1, <1>23, <2>1 DEF Crash, MemoryType, files
  <2>3. \A k \in Key : AfterLoad(k) \in Status
    BY DEF AfterLoad, Status
  <2>4. ChildType'
    BY <1>1, <1>23, <2>1, <2>3 DEF Crash, ChildType
  <2>5. SourceType'
    BY <1>1, <1>23 DEF Crash, SourceType
  <2>6. left' \in [Budget -> Nat] /\ BuiltinMarks(adminFile.builtin) \in Marks
    BY <1>1, <1>23, PayType, RecordMarks DEF Crash, MemoryType
  <2>7. RestType'
    BY <1>1, <1>23, <2>6 DEF Crash, RestType
  <2> QED BY <2>2, <2>4, <2>5, <2>7
<1>24. CASE \E ok \in Outcomes : Mutes(ok) \/ \E r \in RulePool : AddRule(r, ok) \/ RemoveRule(r, ok)
  <2>1. PICK ok \in BOOLEAN :
          Mutes(ok) \/ \E r \in RulePool : AddRule(r, ok) \/ RemoveRule(r, ok)
    BY <1>24 DEF Outcomes
  <2> QED BY <1>7, <1>9, <1>10, <1>12, <1>13, <2>1 DEF Mutes
<1>25. CASE Adds
  BY <1>14, <1>25 DEF Adds
<1>26. CASE \E ok \in Outcomes : Edits(ok)
  <2>1. PICK ok \in BOOLEAN : Edits(ok)
    BY <1>26 DEF Outcomes
  <2> QED BY <1>15, <1>17, <1>20, <2>1 DEF Edits
<1>27. CASE Continues
  BY <1>3, <1>4, <1>5, <1>6, <1>16, <1>18, <1>19, <1>21, <1>22, <1>27 DEF Continues
<1> QED BY <1>23, <1>24, <1>25, <1>26, <1>27 DEF StoresNext, Works

\* A key that a step leaves alone.
LEMMA BesideKept ==
  ASSUME NEW j \in Key, Beside(j), rootMuted' = rootMuted,
         specs'[j] = specs[j], status'[j] = status[j], spec'[j] = spec[j],
         task'[j] = task[j], live'[j] = live[j], op'[j] = op[j], pending'[j] = pending[j]
  PROVE  Beside(j)'
BY DEF Beside, HasChild, MarksOf

\* The key whose record, child and operation a step sets together.
LEMMA BesideStarted ==
  ASSUME NEW k \in Key, MemoryType, ChildType, Beside(k), rootMuted' = rootMuted,
         specs'[k] \in Record,
         HasChild(k) => specs'[k].muted = specs[k].muted /\ specs'[k].hidden = specs[k].hidden,
         Starts(k) \/ Stops(k), live' = live, op'[k] = None, pending' = pending,
         HasChild(k) \/ op[k] = None
  PROVE  Beside(k)'
<1>1. status'[k] # "absent" /\ spec'[k] = specs'[k]
  BY DEF Starts, Stops, ChildType
<1>2. specs'[k] # None
  BY RecordFields
<1>3. live[k] # None => live[k] = MarksOf(rootMuted, specs'[k])
  BY DEF Beside, HasChild, MarksOf
<1> QED BY <1>1, <1>2, <1>3 DEF Beside, HasChild, MarksOf

\* The record of a child keeps its visibility while an operation begins or ends.
LEMMA BesideStep ==
  ASSUME StoresTypeOK, ChildrenBeside, StoresNext
  PROVE  ChildrenBeside'
<1> DEFINE Goal == ChildrenBeside'
<1>1. /\ MemoryType /\ ChildType /\ SourceType /\ RestType
      /\ \A k \in Key : Beside(k)
      /\ builtinLive = BuiltinMarks(builtin)
  BY TypeParts DEF ChildrenBeside
<1>2. /\ MemoryType' /\ ChildType' /\ SourceType'
  BY TypeStep, TypeParts DEF StoresTypeOK, MemoryType, ChildType, SourceType
<1>3. ASSUME NEW k \in Key, RunStart(k) \/ Publish(k) \/ StartFails(k) \/ ProbeFails(k)
      PROVE Goal
  <2>1. /\ UNCHANGED <<specs, rootMuted, builtin, builtinLive, spec, op, pending>>
        /\ HasChild(k) /\ (task'[k] # "none" => op[k] = None)
    BY <1>1, <1>3, ChildRecords DEF RunStart, Publish, StartFails, ProbeFails, HasChild, Free,
       memory, source, Beside
  <2>2. ASSUME NEW j \in Key, j # k PROVE Beside(j)'
    <3>1. task'[j] = task[j] /\ live'[j] = live[j] /\ status'[j] = status[j]
      BY <1>1, <1>3, <2>2 DEF RunStart, Publish, StartFails, ProbeFails, ChildType
    <3> QED BY <1>1, <2>1, <3>1, BesideKept
  <2>3. Beside(k)'
    <3>1. CASE RunStart(k)
      BY <1>1, <2>1, <3>1 DEF RunStart, Beside, HasChild, ChildType, MarksOf
    <3>2. CASE Publish(k)
      BY <1>1, <2>1, <3>2 DEF Publish, MarksAtPublish, Beside, HasChild, Free, ChildType, MarksOf
    <3>3. CASE StartFails(k) \/ ProbeFails(k)
      BY <1>1, <2>1, <3>3 DEF StartFails, ProbeFails, Beside, HasChild, Free, ChildType, MarksOf
    <3> QED BY <1>3, <3>1, <3>2, <3>3
  <2>4. builtinLive' = BuiltinMarks(builtin')
    BY <1>1, <2>1
  <2> QED BY <2>2, <2>3, <2>4 DEF ChildrenBeside
<1>4. ASSUME NEW k \in Key, ReadSource(k) PROVE Goal
  BY <1>1, <1>4, BesideKept DEF ReadSource, ChildrenBeside, memory, child, source
<1>5. ASSUME NEW m \in BOOLEAN, NEW ok \in BOOLEAN, SetRootMuted(m, ok) PROVE Goal
  <2>1. CASE ok
    <3>1. /\ specs' = specs /\ rootMuted' = m /\ builtin' = builtin
          /\ UNCHANGED <<status, spec, task, op, builtinLive, source>>
          /\ live' = [k \in Key |-> IF live[k] = None THEN None ELSE MarksOf(m, spec[k])]
      BY <1>5, <2>1 DEF SetRootMuted, Commit, AppliedToAll
    <3>2. ASSUME NEW j \in Key PROVE Beside(j)'
      BY <1>1, <3>1 DEF Beside, HasChild, MarksOf, source
    <3> QED BY <1>1, <3>1, <3>2 DEF ChildrenBeside
  <2>2. CASE ~ok
    BY <1>1, <1>5, <2>2, BesideKept DEF SetRootMuted, Commit, WriteFails, ChildrenBeside, memory,
       source
  <2> QED BY <2>1, <2>2
<1>6. ASSUME NEW k \in Key, NEW rec \in Record, NEW ok \in BOOLEAN, SetVisibility(k, rec, ok)
      PROVE Goal
  <2> HasChild(k) /\ rec # None
    BY <1>6, RecordFields DEF SetVisibility
  <2>1. CASE ok
    <3>0. specs' = [specs EXCEPT ![k] = rec] /\ UNCHANGED <<rootMuted, builtin>>
      BY <1>1, <1>6, <2>1, CommitRecordType DEF SetVisibility
    <3>1. /\ specs' = [specs EXCEPT ![k] = rec] /\ rootMuted' = rootMuted /\ builtin' = builtin
          /\ spec' = [spec EXCEPT ![k] = rec]
          /\ live' = IF live[k] = None THEN live
                     ELSE [live EXCEPT ![k] = MarksOf(rootMuted, rec)]
          /\ UNCHANGED <<status, task, op, builtinLive, source>>
          /\ HasChild(k) /\ rec # None
      BY <1>6, <2>1, <3>0 DEF SetVisibility, AppliedTo
    <3>2. ASSUME NEW j \in Key PROVE Beside(j)'
      <4>1. CASE j # k
        BY <1>1, <3>1, <4>1, BesideKept DEF MemoryType, ChildType, source
      <4>2. CASE j = k
        BY <1>1, <3>1, <4>2 DEF Beside, HasChild, MarksOf, MemoryType, ChildType, source
      <4> QED BY <4>1, <4>2
    <3> QED BY <1>1, <3>1, <3>2 DEF ChildrenBeside
  <2>2. CASE ~ok
    <3>1. UNCHANGED <<memory, files>>
      BY <1>1, <1>6, <2>2, CommitRecordType DEF SetVisibility
    <3> QED BY <1>1, <1>6, <2>2, <3>1, BesideKept DEF SetVisibility, ChildrenBeside, memory, source
  <2> QED BY <2>1, <2>2
<1>7. ASSUME NEW k \in Key, NEW m \in BOOLEAN, NEW ok \in BOOLEAN, SetMuted(k, m, ok)
      PROVE Goal
  <2>1. [specs[k] EXCEPT !.muted = m] \in Record
    BY <1>7, ChildRecords, RecordFields DEF SetMuted
  <2> QED BY <1>6, <1>7, <2>1 DEF SetMuted
<1>8. ASSUME NEW k \in Key, NEW t \in Name, NEW m \in BOOLEAN, NEW ok \in BOOLEAN,
             SetToolMuted(k, t, m, ok)
      PROVE Goal
  <2>1. specs[k] \in Record /\ specs[k].hidden \in SUBSET Name /\ specs[k] # None /\ HasChild(k)
    BY <1>8, ChildRecords, RecordFields DEF SetToolMuted
  <2>2. CASE (t \in specs[k].hidden) = m
    <3>1. /\ UNCHANGED <<memory, status, task, op, builtinLive, source>>
          /\ spec' = [spec EXCEPT ![k] = specs[k]]
          /\ live' = IF live[k] = None THEN live
                     ELSE [live EXCEPT ![k] = MarksOf(rootMuted, specs[k])]
      BY <1>8, <2>2 DEF SetToolMuted, AppliedTo
    <3>2. ASSUME NEW j \in Key PROVE Beside(j)'
      <4>1. CASE j # k
        BY <1>1, <3>1, <4>1, BesideKept DEF ChildType, memory, source
      <4>2. CASE j = k
        BY <1>1, <2>1, <3>1, <4>2 DEF Beside, HasChild, MarksOf, ChildType, memory, source
      <4> QED BY <4>1, <4>2
    <3> QED BY <1>1, <3>1, <3>2 DEF ChildrenBeside, memory
  <2>3. CASE (t \in specs[k].hidden) # m
    <3>1. Toggled(specs[k].hidden, t, m) \in SUBSET Name
      BY <2>1 DEF Toggled
    <3>2. [specs[k] EXCEPT !.hidden = Toggled(specs[k].hidden, t, m)] \in Record
      BY <2>1, <3>1, RecordFields
    <3> QED BY <1>6, <1>8, <2>3, <3>2 DEF SetToolMuted
  <2> QED BY <2>2, <2>3
<1>9. ASSUME NEW b, NEW ok \in BOOLEAN, SetBuiltin(b, ok) PROVE Goal
  <2>1. specs' = specs /\ rootMuted' = rootMuted /\ builtinLive' = BuiltinMarks(builtin')
    BY <1>1, <1>9 DEF SetBuiltin, Commit, WriteFails, memory
  <2> QED BY <1>1, <1>9, <2>1, BesideKept DEF SetBuiltin, ChildrenBeside, child, source
<1>10. ASSUME NEW r \in RulePool, NEW ok \in BOOLEAN, AddRule(r, ok) \/ RemoveRule(r, ok)
       PROVE Goal
  BY <1>1, <1>10, BesideKept DEF AddRule, RemoveRule, ChildrenBeside, memory, child, source
<1>11. ASSUME NEW k \in Key, NEW env \in Env, NEW enabled \in BOOLEAN, NEW done \in 0..3,
              Add(k, env, enabled, done)
       PROVE Goal
  <2>1. CASE done = 3
    <3>1. /\ specs' = [specs EXCEPT ![k] = NewRecord(env, enabled)]
          /\ rootMuted' = rootMuted /\ builtin' = builtin
          /\ UNCHANGED <<live, op, builtinLive, source>> /\ op[k] = None
          /\ Starts(k) \/ Stops(k)
      BY <1>1, <1>11, <2>1, CommitRecordType, RecordMarks DEF Add, StartsOrStops, Free
    <3>2. ASSUME NEW j \in Key, j # k PROVE Beside(j)'
      BY <1>1, <3>1, <3>2, BesideKept DEF Starts, Stops, ChildType, MemoryType, source
    <3>3. Beside(k)'
      <4>1. specs'[k] \in Record /\ ~HasChild(k)
        BY <1>1, <1>11, <3>1, RecordMarks DEF Add, MemoryType
      <4> QED BY <1>1, <3>1, <4>1, BesideStarted DEF source
    <3> QED BY <1>1, <3>1, <3>2, <3>3 DEF ChildrenBeside
  <2>2. CASE done # 3
    BY <1>1, <1>11, <2>2, BesideKept DEF Add, ChildrenBeside, memory, source
  <2> QED BY <2>1, <2>2
<1>12. ASSUME NEW k \in Key, NEW env \in Env, NEW enabled \in BOOLEAN, NEW ok \in BOOLEAN,
              BeginUpdate(k, env, enabled, ok)
       PROVE Goal
  <2>1. /\ specs[k] \in Record /\ HasChild(k) /\ op[k] = None
        /\ Merged(k, env, enabled) \in Record
        /\ Merged(k, env, enabled).muted = specs[k].muted
        /\ Merged(k, env, enabled).hidden = specs[k].hidden
        /\ Merged(k, env, enabled) # None
    <3>1. specs[k] \in Record /\ HasChild(k) /\ op[k] = None
      BY <1>12, ChildRecords DEF BeginUpdate, Free
    <3>2. /\ Merged(k, env, enabled) \in Record
          /\ Merged(k, env, enabled).muted = specs[k].muted
          /\ Merged(k, env, enabled).hidden = specs[k].hidden
      BY <3>1 DEF Merged, Record
    <3> QED BY <3>1, <3>2, RecordFields
  <2>2. CASE ok
    <3>1. /\ specs' = [specs EXCEPT ![k] = Merged(k, env, enabled)]
          /\ rootMuted' = rootMuted /\ builtin' = builtin
          /\ UNCHANGED <<status, spec, builtinLive, source>>
          /\ live' = [live EXCEPT ![k] = None] /\ task' = [task EXCEPT ![k] = "none"]
          /\ op' = [op EXCEPT ![k] = [kind |-> "update", version |-> 0]]
      BY <1>1, <1>12, <2>1, <2>2, CommitRecordType DEF BeginUpdate, Unpublishes, Takes
    <3>2. ASSUME NEW j \in Key PROVE Beside(j)'
      <4>1. CASE j # k
        BY <1>1, <3>1, <4>1, BesideKept DEF ChildType, MemoryType, source
      <4>2. CASE j = k
        BY <1>1, <2>1, <3>1, <4>2 DEF Beside, HasChild, ChildType, MemoryType, source
      <4> QED BY <4>1, <4>2
    <3> QED BY <1>1, <3>1, <3>2 DEF ChildrenBeside
  <2>3. CASE ~ok
    <3>1. UNCHANGED <<memory, files>>
      BY <1>1, <1>12, <2>1, <2>3, CommitRecordType DEF BeginUpdate
    <3> QED BY <1>1, <1>12, <2>3, <3>1, BesideKept DEF BeginUpdate, ChildrenBeside, memory, source
  <2> QED BY <2>2, <2>3
<1>13. ASSUME NEW k \in Key, FinishUpdate(k) PROVE Goal
  <2>1. /\ UNCHANGED <<memory, live, builtinLive, source>>
        /\ Starts(k) \/ Stops(k)
        /\ op[k] # None /\ op[k].kind = "update" /\ op' = [op EXCEPT ![k] = None]
    BY <1>13 DEF FinishUpdate, StartsOrStops, Holds, Releases
  <2>2. HasChild(k) /\ specs'[k] \in Record /\ specs'[k] = specs[k]
    BY <1>1, <2>1, ChildRecords DEF Beside, memory
  <2>3. ASSUME NEW j \in Key, j # k PROVE Beside(j)'
    BY <1>1, <2>1, <2>3, BesideKept DEF Starts, Stops, ChildType, memory, source
  <2>4. Beside(k)'
    BY <1>1, <2>1, <2>2, BesideStarted DEF ChildType, memory, source
  <2> QED BY <1>1, <2>1, <2>3, <2>4 DEF ChildrenBeside, memory
<1>14. ASSUME NEW k \in Key, NEW ok \in BOOLEAN, Approve(k, ok) PROVE Goal
  <2> DEFINE rec == [specs[k] EXCEPT !.approved = specs[k].env]
  <2>1. /\ HasChild(k) /\ op[k] = None /\ rec \in Record /\ rec # None
        /\ rec.muted = specs[k].muted /\ rec.hidden = specs[k].hidden
    BY <1>14, ChildRecords, RecordFields DEF Approve, Free
  <2>2. CASE ok
    <3>1. /\ specs' = [specs EXCEPT ![k] = rec]
          /\ rootMuted' = rootMuted /\ builtin' = builtin
          /\ UNCHANGED <<live, op, builtinLive, source>>
      BY <1>1, <1>14, <2>1, <2>2, CommitRecordType DEF Approve
    <3> HIDE DEF rec
    <3>2. specs'[k] = rec
      BY <1>1, <3>1 DEF MemoryType
    <3>3. CASE Starts(k)
      <4>1. ASSUME NEW j \in Key, j # k PROVE Beside(j)'
        BY <1>1, <3>1, <3>3, <4>1, BesideKept DEF Starts, ChildType, MemoryType, source
      <4>2. Beside(k)'
        BY <1>1, <2>1, <3>1, <3>2, <3>3, BesideStarted DEF source
      <4> QED BY <1>1, <3>1, <4>1, <4>2 DEF ChildrenBeside
    <3>4. CASE ~Starts(k)
      <4>1. spec' = [spec EXCEPT ![k] = rec] /\ UNCHANGED <<status, task>>
        BY <1>14, <2>2, <3>2, <3>4 DEF Approve
      <4>2. ASSUME NEW j \in Key, j # k PROVE Beside(j)'
        BY <1>1, <3>1, <4>1, <4>2, BesideKept DEF ChildType, MemoryType, source
      <4>3. Beside(k)'
        BY <1>1, <2>1, <3>1, <3>2, <4>1 DEF Beside, HasChild, MarksOf, ChildType, source
      <4> QED BY <1>1, <3>1, <4>2, <4>3 DEF ChildrenBeside
    <3> QED BY <3>3, <3>4
  <2>3. CASE ~ok
    <3>1. UNCHANGED <<memory, files>>
      BY <1>1, <1>14, <2>1, <2>3, CommitRecordType DEF Approve
    <3> QED BY <1>1, <1>14, <2>3, <3>1, BesideKept DEF Approve, ChildrenBeside, memory, source
  <2> QED BY <2>2, <2>3
<1>15. ASSUME NEW k \in Key, NEW v \in pending[k] \cup {0}, BeginRestart(k, v) PROVE Goal
  <2>1. /\ UNCHANGED <<memory, status, spec, builtinLive>> /\ HasChild(k) /\ op[k] = None
        /\ pending' = [pending EXCEPT ![k] = @ \ {v}]
        /\ live' = [live EXCEPT ![k] = None] /\ task' = [task EXCEPT ![k] = "none"]
        /\ op' = [op EXCEPT ![k] = [kind |-> "restart", version |-> v]]
    BY <1>15 DEF BeginRestart, Unpublishes, Takes, Free
  <2>2. ASSUME NEW j \in Key PROVE Beside(j)'
    <3>1. CASE j # k
      BY <1>1, <2>1, <3>1, BesideKept DEF ChildType, SourceType, memory
    <3>2. CASE j = k
      BY <1>1, <2>1, <3>2 DEF Beside, HasChild, ChildType, memory
    <3> QED BY <3>1, <3>2
  <2> QED BY <1>1, <2>1, <2>2 DEF ChildrenBeside, memory
<1>16. ASSUME NEW k \in Key, NEW v, RestartRefused(k, v) PROVE Goal
  <2>1. /\ UNCHANGED <<memory, child, builtinLive>>
        /\ pending' = [pending EXCEPT ![k] = @ \ {v}]
    BY <1>16 DEF RestartRefused
  <2>2. ASSUME NEW j \in Key PROVE Beside(j)'
    BY <1>1, <2>1 DEF Beside, HasChild, MarksOf, SourceType, memory, child
  <2> QED BY <1>1, <2>1, <2>2 DEF ChildrenBeside, memory
<1>17. ASSUME NEW k \in Key, FinishRestart(k) PROVE Goal
  <2>1. /\ UNCHANGED <<memory, live, builtinLive, pending>>
        /\ op[k] # None /\ op[k].kind = "restart" /\ op' = [op EXCEPT ![k] = None]
    BY <1>17 DEF FinishRestart, Holds, Releases
  <2>2. HasChild(k) /\ specs'[k] \in Record /\ specs'[k] = specs[k] /\ live[k] = None
    BY <1>1, <2>1, ChildRecords DEF Beside, memory
  <2>3. CASE Approved(k, specs[k])
    <3>1. Starts(k)
      BY <1>17, <2>3 DEF FinishRestart
    <3>2. ASSUME NEW j \in Key, j # k PROVE Beside(j)'
      BY <1>1, <2>1, <3>1, <3>2, BesideKept DEF Starts, ChildType, memory
    <3>3. Beside(k)'
      BY <1>1, <2>1, <2>2, <3>1, BesideStarted DEF ChildType, memory
    <3> QED BY <1>1, <2>1, <3>2, <3>3 DEF ChildrenBeside, memory
  <2>4. CASE ~Approved(k, specs[k])
    <3>1. status' = [status EXCEPT ![k] = "stopped"] /\ UNCHANGED <<spec, task>>
      BY <1>17, <2>4 DEF FinishRestart
    <3>2. ASSUME NEW j \in Key, j # k PROVE Beside(j)'
      BY <1>1, <2>1, <3>1, <3>2, BesideKept DEF ChildType, memory
    <3>3. Beside(k)'
      BY <1>1, <2>1, <2>2, <3>1 DEF Beside, HasChild, ChildType, memory
    <3> QED BY <1>1, <2>1, <3>2, <3>3 DEF ChildrenBeside, memory
  <2> QED BY <2>3, <2>4
<1>18. ASSUME NEW k \in Key, NEW ok \in BOOLEAN, BeginRemove(k, ok) PROVE Goal
  <2>1. CASE ok
    <3>1. /\ specs' = [specs EXCEPT ![k] = None] /\ rootMuted' = rootMuted /\ builtin' = builtin
          /\ UNCHANGED <<spec, builtinLive>>
          /\ status' = [status EXCEPT ![k] = "absent"]
          /\ pending' = [pending EXCEPT ![k] = {}]
          /\ live' = [live EXCEPT ![k] = None] /\ task' = [task EXCEPT ![k] = "none"]
          /\ op' = [op EXCEPT ![k] = [kind |-> "remove", version |-> 0]]
      BY <1>1, <1>18, <2>1, CommitRecordType DEF BeginRemove, Unpublishes, Takes
    <3>2. ASSUME NEW j \in Key PROVE Beside(j)'
      <4>1. CASE j # k
        BY <1>1, <3>1, <4>1, BesideKept DEF ChildType, MemoryType, SourceType
      <4>2. CASE j = k
        BY <1>1, <3>1, <4>2 DEF Beside, HasChild, ChildType, MemoryType, SourceType
      <4> QED BY <4>1, <4>2
    <3> QED BY <1>1, <3>1, <3>2 DEF ChildrenBeside
  <2>2. CASE ~ok
    <3>1. UNCHANGED <<memory, files>>
      BY <1>1, <1>18, <2>2, CommitRecordType DEF BeginRemove
    <3> QED BY <1>1, <1>18, <2>2, <3>1, BesideKept DEF BeginRemove, ChildrenBeside, memory
  <2> QED BY <2>1, <2>2
<1>19. ASSUME NEW k \in Key, NEW done \in 0..3, FinishRemove(k, done) PROVE Goal
  <2>1. /\ UNCHANGED <<memory, status, spec, task, live, builtinLive, pending>>
        /\ op' = [op EXCEPT ![k] = None]
    BY <1>19 DEF FinishRemove, Releases
  <2>2. ASSUME NEW j \in Key PROVE Beside(j)'
    BY <1>1, <2>1 DEF Beside, HasChild, MarksOf, ChildType, memory
  <2> QED BY <1>1, <2>1, <2>2 DEF ChildrenBeside, memory
<1>20. ASSUME NEW k \in Key, WriteSource(k) PROVE Goal
  <2>1. /\ UNCHANGED <<memory, child, builtinLive>>
        /\ \/ pending' = pending
           \/ HasChild(k) /\ pending' = [pending EXCEPT ![k] = @ \cup {version + 1}]
    BY <1>1, <1>20, WriteShape DEF WriteSource
  <2>2. ASSUME NEW j \in Key PROVE Beside(j)'
    BY <1>1, <2>1 DEF Beside, HasChild, MarksOf, SourceType, memory, child
  <2> QED BY <1>1, <2>1, <2>2 DEF ChildrenBeside, memory
<1>21. ASSUME Crash PROVE Goal
  <2>1. ASSUME NEW j \in Key PROVE Beside(j)'
    <3>1. /\ specs'[j] = LoadedSpecs[j] /\ status'[j] = AfterLoad(j)
          /\ spec'[j] = IF LoadedSpecs[j] = None THEN spec[j] ELSE LoadedSpecs[j]
          /\ task'[j] = IF AfterLoad(j) = "starting" THEN "new" ELSE "none"
          /\ live'[j] = None /\ op'[j] = None /\ pending'[j] = {}
      BY <1>21 DEF Crash
    <3> QED BY <3>1 DEF Beside, HasChild, AfterLoad
  <2> QED BY <1>21, <2>1 DEF Crash, ChildrenBeside
<1>22. CASE \E ok \in Outcomes : Mutes(ok) \/ \E r \in RulePool : AddRule(r, ok) \/ RemoveRule(r, ok)
  <2>1. PICK ok \in BOOLEAN :
          Mutes(ok) \/ \E r \in RulePool : AddRule(r, ok) \/ RemoveRule(r, ok)
    BY <1>22 DEF Outcomes
  <2> QED BY <1>5, <1>7, <1>8, <1>9, <1>10, <2>1 DEF Mutes, SetAdminMuted, SetAdminToolMuted
<1>23. CASE Adds
  BY <1>11, <1>23 DEF Adds
<1>24. CASE \E ok \in Outcomes : Edits(ok)
  <2>1. PICK ok \in BOOLEAN : Edits(ok)
    BY <1>24 DEF Outcomes
  <2> QED BY <1>12, <1>14, <1>18, <2>1 DEF Edits
<1>25. CASE Continues
  BY <1>3, <1>4, <1>13, <1>15, <1>16, <1>17, <1>19, <1>20, <1>25 DEF Continues
<1> QED BY <1>21, <1>22, <1>23, <1>24, <1>25 DEF StoresNext, Works

-----------------------------------------------------------------------------
(* Memory and the two registry files.                                      *)

\* What a step does to the registry: nothing, one commit of a record, one of the policies
\* of the root and the built-in server, or a load.
LEMMA RegistrySteps ==
  ASSUME StoresNext
  PROVE  \/ UNCHANGED <<memory, files>>
         \/ \E k \in Key, ok \in BOOLEAN : \E rec : CommitRecord(k, rec, ok)
         \/ \E ok \in BOOLEAN : \E m, b : Commit(specs, m, b, FALSE, ok)
         \/ Crash
<1> DEFINE Goal == \/ UNCHANGED <<memory, files>>
                   \/ \E k \in Key, ok \in BOOLEAN : \E rec : CommitRecord(k, rec, ok)
                   \/ \E ok \in BOOLEAN : \E m, b : Commit(specs, m, b, FALSE, ok)
<1>1. ASSUME NEW ok \in BOOLEAN, Mutes(ok) PROVE Goal
  <2>1. ASSUME NEW m, SetRootMuted(m, ok) PROVE Goal
    BY <2>1 DEF SetRootMuted
  <2>2. ASSUME NEW m, SetAdminMuted(m, ok) PROVE Goal
    BY <2>2 DEF SetAdminMuted, SetBuiltin
  <2>3. ASSUME NEW m, NEW t, SetAdminToolMuted(t, m, ok) PROVE Goal
    BY <2>3 DEF SetAdminToolMuted, SetBuiltin
  <2>4. ASSUME NEW k \in Key, NEW m, SetMuted(k, m, ok) PROVE Goal
    BY <2>4 DEF SetMuted, SetVisibility
  <2>5. ASSUME NEW k \in Key, NEW m, NEW t, SetToolMuted(k, t, m, ok) PROVE Goal
    BY <2>5 DEF SetToolMuted, SetVisibility
  <2> QED BY <1>1, <2>1, <2>2, <2>3, <2>4, <2>5 DEF Mutes
<1>2. ASSUME NEW ok \in BOOLEAN, NEW r, AddRule(r, ok) \/ RemoveRule(r, ok) PROVE Goal
  BY <1>2 DEF AddRule, RemoveRule
<1>3. ASSUME NEW k \in Key, NEW env, NEW enabled, NEW done, Add(k, env, enabled, done)
      PROVE Goal
  BY <1>3 DEF Add
<1>4. ASSUME NEW ok \in BOOLEAN, Edits(ok) PROVE Goal
  BY <1>4 DEF Edits, BeginUpdate, Approve, BeginRemove
<1>5. ASSUME NEW k \in Key,
             \/ RunStart(k) \/ Publish(k) \/ StartFails(k) \/ ProbeFails(k) \/ ReadSource(k)
             \/ FinishUpdate(k) \/ FinishRestart(k) \/ WriteSource(k)
             \/ \E done : FinishRemove(k, done)
             \/ \E v : BeginRestart(k, v) \/ RestartRefused(k, v)
      PROVE Goal
  BY <1>5 DEF RunStart, Publish, StartFails, ProbeFails, ReadSource, FinishUpdate,
     FinishRestart, WriteSource, FinishRemove, BeginRestart, RestartRefused
<1>6. CASE Continues
  BY <1>5, <1>6 DEF Continues
<1> QED BY <1>1, <1>2, <1>3, <1>4, <1>6 DEF StoresNext, Works, Adds, Outcomes

\* A commit goes to one file; what the other one holds is what memory held before.
LEMMA CommitIsDisk ==
  ASSUME MemoryIsDisk, NEW s, NEW root, NEW b, NEW user, NEW ok \in BOOLEAN,
         s = [k \in Key |-> s[k]],
         user => /\ \A k \in Key : Shared(k) => s[k] = specs[k]
                 /\ root = rootMuted /\ b = builtin,
         ~user => \A k \in Key : ~Shared(k) => s[k] = specs[k],
         Commit(s, root, b, user, ok)
  PROVE  MemoryIsDisk'
<1>1. CASE ~ok
  BY <1>1 DEF Commit, WriteFails, memory, files, MemoryIsDisk, LoadedSpecs
<1>2. CASE ok /\ user
  <2>1. /\ userFile' = [k \in Key |-> IF Shared(k) THEN None ELSE s[k]] /\ adminFile' = adminFile
        /\ specs' = s /\ rootMuted' = root /\ builtin' = b
    BY <1>2 DEF Commit, UserPart
  <2>2. \A k \in Key : Shared(k) => adminFile.servers[k] = s[k]
    BY <1>2 DEF MemoryIsDisk, LoadedSpecs
  <2>3. \A k \in Key : (IF Shared(k) THEN adminFile'.servers[k] ELSE userFile'[k]) = s[k]
    BY <2>1, <2>2
  <2>4. LoadedSpecs' = s
    BY <2>3 DEF LoadedSpecs, Shared
  <2> QED BY <1>2, <2>1, <2>4 DEF MemoryIsDisk
<1>3. CASE ok /\ ~user
  <2>1. /\ adminFile' = [muted |-> root, builtin |-> b,
                         servers |-> [k \in Key |-> IF Shared(k) THEN s[k] ELSE None]]
        /\ userFile' = userFile
        /\ specs' = s /\ rootMuted' = root /\ builtin' = b
    BY <1>3 DEF Commit, AdminPart
  <2>2. \A k \in Key : ~Shared(k) => userFile[k] = s[k]
    BY <1>3 DEF MemoryIsDisk, LoadedSpecs
  <2>3. \A k \in Key : (IF Shared(k) THEN adminFile'.servers[k] ELSE userFile'[k]) = s[k]
    BY <2>1, <2>2
  <2>4. LoadedSpecs' = s
    BY <2>3 DEF LoadedSpecs, Shared
  <2> QED BY <2>1, <2>4 DEF MemoryIsDisk
<1> QED BY <1>1, <1>2, <1>3

LEMMA DiskStep ==
  ASSUME MemoryIsDisk, StoresNext
  PROVE  MemoryIsDisk'
<1>1. specs = [k \in Key |-> specs[k]]
  BY DEF MemoryIsDisk, LoadedSpecs
<1>2. CASE UNCHANGED <<memory, files>>
  BY <1>2 DEF MemoryIsDisk, LoadedSpecs, Shared, memory, files
<1>3. ASSUME NEW k \in Key, NEW ok \in BOOLEAN, NEW rec, CommitRecord(k, rec, ok)
      PROVE  MemoryIsDisk'
  <2> DEFINE s == [specs EXCEPT ![k] = rec]
  <2>1. s = [j \in Key |-> s[j]] /\ \A j \in Key : j # k => s[j] = specs[j]
    BY <1>1
  <2>2. Commit(s, rootMuted, builtin, ~Shared(k), ok)
    BY <1>3 DEF CommitRecord
  <2> HIDE DEF s
  <2> QED BY <2>1, <2>2, CommitIsDisk
<1>4. ASSUME NEW ok \in BOOLEAN, NEW m, NEW b, Commit(specs, m, b, FALSE, ok)
      PROVE  MemoryIsDisk'
  BY <1>1, <1>4, CommitIsDisk
<1>5. CASE Crash
  BY <1>5 DEF Crash, MemoryIsDisk, LoadedSpecs, Shared, files
<1> QED BY <1>2, <1>3, <1>4, <1>5, RegistrySteps

-----------------------------------------------------------------------------
(* The log of a server and the secrets of its record.                      *)

\* The log of a child holds the output of processes that had its present secrets, those of
\* the record it runs and those of the stored one; outside an edit the two agree.
LogMatches(k) ==
  HasChild(k) =>
    /\ ~Holds(k, "update") => spec[k].env = specs[k].env
    /\ \A e \in log[k] : SecretsOf[e] = SecretsOf[spec[k].env]
                         /\ SecretsOf[e] = SecretsOf[specs[k].env]

LogsMatch == \A k \in Key : LogMatches(k)

LEMMA LogKeptMatches ==
  ASSUME NEW j \in Key, LogMatches(j), specs'[j] = specs[j], status'[j] = status[j],
         spec'[j] = spec[j], op'[j] = op[j], log'[j] \subseteq log[j]
  PROVE  LogMatches(j)'
BY DEF LogMatches, HasChild, Holds

\* A child that takes over the stored record, which still has the secrets of the log.
LEMMA LogAdopted ==
  ASSUME NEW k \in Key, spec'[k] = specs'[k],
         \A e \in log'[k] : SecretsOf[e] = SecretsOf[specs'[k].env]
  PROVE  LogMatches(k)'
BY DEF LogMatches

LEMMA LogStep ==
  ASSUME StoresTypeOK, ChildrenBeside, MemoryIsDisk, LogsMatch, StoresNext
  PROVE  LogsMatch'
<1> DEFINE Goal == LogsMatch'
<1>1. /\ MemoryType /\ ChildType /\ SourceType /\ RestType
      /\ \A k \in Key : Beside(k) /\ LogMatches(k)
  BY TypeParts DEF ChildrenBeside, LogsMatch
<1>2. ASSUME NEW k \in Key, RunStart(k) PROVE Goal
  <2>1. /\ UNCHANGED <<specs, status, spec, op>>
        /\ log' = [log EXCEPT ![k] = @ \cup {spec[k].env}]
        /\ HasChild(k) /\ op[k] = None
    BY <1>1, <1>2, ChildRecords DEF RunStart, memory, Beside
  <2>2. ASSUME NEW j \in Key PROVE LogMatches(j)'
    <3>1. CASE j # k
      BY <1>1, <2>1, <3>1, LogKeptMatches DEF RestType
    <3>2. CASE j = k
      BY <1>1, <2>1, <3>2 DEF LogMatches, Holds, HasChild, RestType
    <3> QED BY <3>1, <3>2
  <2> QED BY <2>2 DEF LogsMatch
<1>3. ASSUME NEW k \in Key, \/ Publish(k) \/ StartFails(k) \/ ProbeFails(k)
             PROVE Goal
  <2>1. UNCHANGED <<specs, spec, op, log>> /\ HasChild(k)
        /\ \A j \in Key : j # k => status'[j] = status[j]
    BY <1>1, <1>3, ChildRecords DEF Publish, StartFails, ProbeFails, memory, HasChild, ChildType
  <2> QED BY <1>1, <2>1 DEF LogsMatch, LogMatches, HasChild, Holds
<1>4. ASSUME UNCHANGED <<specs, status, spec, op, log>> PROVE Goal
  BY <1>1, <1>4, LogKeptMatches DEF LogsMatch
<1>5. ASSUME NEW k \in Key, NEW rec \in Record, NEW ok \in BOOLEAN, SetVisibility(k, rec, ok),
             rec.env = specs[k].env
      PROVE Goal
  <2>1. CASE ok
    <3>1. specs' = [specs EXCEPT ![k] = rec]
      BY <1>1, <1>5, <2>1, CommitRecordType DEF SetVisibility
    <3>2. /\ spec' = [spec EXCEPT ![k] = rec]
          /\ UNCHANGED <<status, op, log>> /\ HasChild(k)
      BY <1>5, <2>1 DEF SetVisibility
    <3>3. ASSUME NEW j \in Key PROVE LogMatches(j)'
      <4>1. CASE j # k
        BY <1>1, <3>1, <3>2, <4>1, LogKeptMatches DEF MemoryType, ChildType
      <4>2. CASE j = k
        BY <1>1, <1>5, <3>1, <3>2, <4>2, LogAdopted DEF LogMatches, MemoryType, ChildType
      <4> QED BY <4>1, <4>2
    <3> QED BY <3>3 DEF LogsMatch
  <2>2. CASE ~ok
    BY <1>1, <1>4, <1>5, <2>2, CommitRecordType DEF SetVisibility, memory
  <2> QED BY <2>1, <2>2
<1>6. ASSUME NEW k \in Key, NEW m \in BOOLEAN, NEW ok \in BOOLEAN, SetMuted(k, m, ok)
      PROVE Goal
  <2>1. [specs[k] EXCEPT !.muted = m] \in Record /\ [specs[k] EXCEPT !.muted = m].env = specs[k].env
    <3>1. specs[k] \in Record
      BY <1>6, ChildRecords DEF SetMuted
    <3> QED BY <3>1 DEF Record
  <2> QED BY <1>5, <1>6, <2>1 DEF SetMuted
<1>7. ASSUME NEW k \in Key, NEW t \in Name, NEW m \in BOOLEAN, NEW ok \in BOOLEAN,
             SetToolMuted(k, t, m, ok)
      PROVE Goal
  <2>1. specs[k] \in Record /\ specs[k].hidden \in SUBSET Name /\ HasChild(k)
    BY <1>7, ChildRecords, RecordFields DEF SetToolMuted
  <2>2. CASE (t \in specs[k].hidden) = m
    <3>1. /\ UNCHANGED <<specs, status, op, log>> /\ spec' = [spec EXCEPT ![k] = specs[k]]
      BY <1>7, <2>2 DEF SetToolMuted, memory
    <3>2. ASSUME NEW j \in Key PROVE LogMatches(j)'
      <4>1. CASE j # k
        BY <1>1, <3>1, <4>1, LogKeptMatches DEF ChildType
      <4>2. CASE j = k
        BY <1>1, <2>1, <3>1, <4>2, LogAdopted DEF LogMatches, ChildType
      <4> QED BY <4>1, <4>2
    <3> QED BY <3>2 DEF LogsMatch
  <2>3. CASE (t \in specs[k].hidden) # m
    <3>1. Toggled(specs[k].hidden, t, m) \in SUBSET Name
      BY <2>1 DEF Toggled
    <3>2. /\ [specs[k] EXCEPT !.hidden = Toggled(specs[k].hidden, t, m)] \in Record
          /\ [specs[k] EXCEPT !.hidden = Toggled(specs[k].hidden, t, m)].env = specs[k].env
      BY <2>1, <3>1 DEF Record
    <3> QED BY <1>5, <1>7, <2>3, <3>2 DEF SetToolMuted
  <2> QED BY <2>2, <2>3
<1>8. ASSUME NEW ok \in BOOLEAN, NEW m \in BOOLEAN,
             \/ SetRootMuted(m, ok) \/ SetAdminMuted(m, ok)
             \/ \E t \in AdminTool : SetAdminToolMuted(t, m, ok)
             \/ \E r \in RulePool : AddRule(r, ok) \/ RemoveRule(r, ok)
      PROVE Goal
  <2>1. UNCHANGED <<specs, status, spec, op, log>>
    BY <1>8 DEF SetRootMuted, SetAdminMuted, SetAdminToolMuted, SetBuiltin, AddRule, RemoveRule,
       Commit, WriteFails, memory, child
  <2> QED BY <1>4, <2>1
<1>9. ASSUME NEW k \in Key, NEW env \in Env, NEW enabled \in BOOLEAN, NEW done \in 0..3,
             Add(k, env, enabled, done)
      PROVE Goal
  <2>1. CASE done = 3
    <3>1. specs' = [specs EXCEPT ![k] = NewRecord(env, enabled)]
      BY <1>1, <1>9, <2>1, CommitRecordType, RecordMarks DEF Add
    <3>2. /\ log' = [log EXCEPT ![k] = {}] /\ UNCHANGED op
          /\ Starts(k) \/ Stops(k)
      BY <1>9, <2>1 DEF Add, StartsOrStops, NoLog
    <3>3. ASSUME NEW j \in Key PROVE LogMatches(j)'
      <4>1. CASE j # k
        BY <1>1, <3>1, <3>2, <4>1, LogKeptMatches DEF Starts, Stops, ChildType, MemoryType, RestType
      <4>2. CASE j = k
        BY <1>1, <3>1, <3>2, <4>2, LogAdopted DEF Starts, Stops, ChildType, RestType
      <4> QED BY <4>1, <4>2
    <3> QED BY <3>3 DEF LogsMatch
  <2>2. CASE done # 3
    <3>1. UNCHANGED <<specs, status, spec, op>> /\ \A j \in Key : log'[j] \subseteq log[j]
      BY <1>1, <1>9, <2>2 DEF Add, NoLog, memory, RestType
    <3> QED BY <1>1, <3>1, LogKeptMatches DEF LogsMatch
  <2> QED BY <2>1, <2>2
<1>10. ASSUME NEW k \in Key, NEW env \in Env, NEW enabled \in BOOLEAN, NEW ok \in BOOLEAN,
              BeginUpdate(k, env, enabled, ok)
       PROVE Goal
  <2>1. /\ specs[k] \in Record /\ HasChild(k) /\ op[k] = None
        /\ UNCHANGED <<status, spec>>
        /\ log' = IF SecretsOf[Merged(k, env, enabled).env] # SecretsOf[spec[k].env]
                  THEN [log EXCEPT ![k] = {}] ELSE log
    BY <1>10, ChildRecords DEF BeginUpdate, Free, LogAfterEdit, NoLog
  <2>2. Merged(k, env, enabled) \in Record
    BY <2>1, RecordFields DEF Merged
  <2>3. \A j \in Key : log'[j] \subseteq log[j]
    BY <1>1, <2>1 DEF RestType
  <2>4. CASE ok
    <3>1. specs' = [specs EXCEPT ![k] = Merged(k, env, enabled)]
      BY <1>1, <1>10, <2>2, <2>4, CommitRecordType DEF BeginUpdate
    <3>2. op' = [op EXCEPT ![k] = [kind |-> "update", version |-> 0]]
      BY <1>10, <2>4 DEF BeginUpdate, Takes
    <3>3. [kind |-> "update", version |-> 0] # None
      BY StoresAssumption DEF Operation
    <3>4. ASSUME NEW j \in Key PROVE LogMatches(j)'
      <4>1. CASE j # k
        BY <1>1, <2>1, <2>3, <3>1, <3>2, <4>1, LogKeptMatches DEF ChildType, MemoryType
      <4>2. CASE j = k
        <5>1. Holds(k, "update")'
          BY <1>1, <3>2, <3>3 DEF Holds, ChildType
        <5>2. \A e \in log'[k] : SecretsOf[e] = SecretsOf[spec[k].env]
                                /\ SecretsOf[e] = SecretsOf[Merged(k, env, enabled).env]
          BY <1>1, <2>1 DEF LogMatches, RestType
        <5>3. specs'[k] = Merged(k, env, enabled)
          BY <1>1, <3>1 DEF MemoryType
        <5> QED BY <2>1, <4>2, <5>1, <5>2, <5>3 DEF LogMatches
      <4> QED BY <4>1, <4>2
    <3> QED BY <3>4 DEF LogsMatch
  <2>5. CASE ~ok
    <3>1. UNCHANGED <<specs, op>>
      BY <1>1, <1>10, <2>2, <2>5, CommitRecordType DEF BeginUpdate, memory
    <3> QED BY <1>1, <2>1, <2>3, <3>1, LogKeptMatches DEF LogsMatch
  <2> QED BY <2>4, <2>5
<1>11. ASSUME NEW k \in Key, FinishUpdate(k) \/ FinishRestart(k) PROVE Goal
  <2>1. /\ UNCHANGED <<specs, log>> /\ op' = [op EXCEPT ![k] = None]
        /\ \/ Starts(k) \/ Stops(k)
           \/ /\ status' = [status EXCEPT ![k] = "stopped"] /\ spec' = spec
              /\ Holds(k, "restart")
    BY <1>11 DEF FinishUpdate, FinishRestart, StartsOrStops, Releases, memory
  <2>2. HasChild(k)
    BY <1>1, <1>11, ChildRecords DEF FinishUpdate, FinishRestart, Holds, Beside
  <2>3. ASSUME NEW j \in Key PROVE LogMatches(j)'
    <3>1. CASE j # k
      BY <1>1, <2>1, <3>1, LogKeptMatches DEF Starts, Stops, ChildType
    <3>2. CASE j = k /\ (Starts(k) \/ Stops(k))
      BY <1>1, <2>1, <2>2, <3>2, LogAdopted DEF LogMatches, Starts, Stops, ChildType
    <3>3. CASE j = k /\ spec' = spec /\ Holds(k, "restart")
      BY <1>1, <2>1, <2>2, <3>3 DEF LogMatches, Holds
    <3> QED BY <2>1, <3>1, <3>2, <3>3
  <2> QED BY <2>3 DEF LogsMatch
<1>12. ASSUME NEW k \in Key, NEW ok \in BOOLEAN, Approve(k, ok) PROVE Goal
  <2> DEFINE rec == [specs[k] EXCEPT !.approved = specs[k].env]
  <2>1. HasChild(k) /\ rec \in Record /\ rec.env = specs[k].env
    BY <1>12, ChildRecords, RecordFields DEF Approve
  <2> HIDE DEF rec
  <2>2. UNCHANGED <<op, log>>
    BY <1>12 DEF Approve
  <2>3. CASE ok
    <3>1. specs' = [specs EXCEPT ![k] = rec]
      BY <1>1, <1>12, <2>1, <2>3, CommitRecordType DEF Approve, rec
    <3>2. \/ Starts(k)
          \/ spec' = [spec EXCEPT ![k] = specs'[k]] /\ status' = status
      BY <1>12, <2>3 DEF Approve
    <3>3. ASSUME NEW j \in Key PROVE LogMatches(j)'
      <4>1. CASE j # k
        BY <1>1, <2>2, <3>1, <3>2, <4>1, LogKeptMatches DEF Starts, ChildType, MemoryType
      <4>2. CASE j = k
        BY <1>1, <2>1, <2>2, <3>1, <3>2, <4>2, LogAdopted DEF LogMatches, Starts, ChildType, MemoryType
      <4> QED BY <4>1, <4>2
    <3> QED BY <3>3 DEF LogsMatch
  <2>4. CASE ~ok
    BY <1>1, <1>4, <1>12, <2>1, <2>2, <2>4, CommitRecordType DEF Approve, memory, rec
  <2> QED BY <2>3, <2>4
<1>13. ASSUME NEW k \in Key, NEW v \in pending[k] \cup {0}, BeginRestart(k, v) PROVE Goal
  <2>1. /\ UNCHANGED <<specs, status, spec, log>> /\ op[k] = None
        /\ op' = [op EXCEPT ![k] = [kind |-> "restart", version |-> v]]
    BY <1>13 DEF BeginRestart, Takes, Free, memory
  <2> QED BY <1>1, <2>1 DEF LogsMatch, LogMatches, HasChild, Holds, ChildType
<1>14. ASSUME NEW k \in Key, NEW ok \in BOOLEAN, BeginRemove(k, ok) PROVE Goal
  <2>1. CASE ok
    <3>1. specs' = [specs EXCEPT ![k] = None]
      BY <1>1, <1>14, <2>1, CommitRecordType DEF BeginRemove
    <3>2. /\ UNCHANGED <<spec, log>> /\ status' = [status EXCEPT ![k] = "absent"]
          /\ op' = [op EXCEPT ![k] = [kind |-> "remove", version |-> 0]]
      BY <1>14, <2>1 DEF BeginRemove, Takes
    <3>3. ASSUME NEW j \in Key PROVE LogMatches(j)'
      <4>1. CASE j # k
        BY <1>1, <3>1, <3>2, <4>1, LogKeptMatches DEF ChildType, MemoryType
      <4>2. CASE j = k
        BY <1>1, <3>2, <4>2 DEF LogMatches, HasChild, ChildType
      <4> QED BY <4>1, <4>2
    <3> QED BY <3>3 DEF LogsMatch
  <2>2. CASE ~ok
    BY <1>1, <1>4, <1>14, <2>2, CommitRecordType DEF BeginRemove, memory
  <2> QED BY <2>1, <2>2
<1>15. ASSUME NEW k \in Key, NEW done \in 0..3, FinishRemove(k, done) PROVE Goal
  <2>1. /\ UNCHANGED <<specs, status, spec>> /\ op' = [op EXCEPT ![k] = None]
        /\ \A j \in Key : log'[j] \subseteq log[j]
        /\ Holds(k, "remove")
    BY <1>1, <1>15 DEF FinishRemove, Releases, NoLog, memory, RestType
  <2>2. ~HasChild(k)
    BY <1>1, <2>1 DEF Holds, Beside
  <2>3. ASSUME NEW j \in Key PROVE LogMatches(j)'
    <3>1. CASE j # k
      BY <1>1, <2>1, <3>1, LogKeptMatches DEF ChildType
    <3>2. CASE j = k
      BY <2>1, <2>2, <3>2 DEF LogMatches, HasChild
    <3> QED BY <3>1, <3>2
  <2> QED BY <2>3 DEF LogsMatch
<1>16. ASSUME Crash PROVE Goal
  <2>1. specs' = specs /\ log' = log
    BY <1>16 DEF Crash, MemoryIsDisk
  <2>2. ASSUME NEW j \in Key PROVE LogMatches(j)'
    <3>1. /\ status'[j] = AfterLoad(j) /\ LoadedSpecs[j] = specs[j]
          /\ spec'[j] = IF LoadedSpecs[j] = None THEN spec[j] ELSE LoadedSpecs[j]
      BY <1>16 DEF Crash, MemoryIsDisk
    <3>2. CASE specs[j] = None
      BY <3>1, <3>2 DEF LogMatches, HasChild, AfterLoad
    <3>3. CASE specs[j] # None
      BY <1>1, <2>1, <3>1, <3>3, LogAdopted DEF LogMatches, Beside
    <3> QED BY <3>2, <3>3
  <2> QED BY <2>2 DEF LogsMatch
<1>17. CASE \E ok \in Outcomes : Mutes(ok) \/ \E r \in RulePool : AddRule(r, ok) \/ RemoveRule(r, ok)
  <2>1. PICK ok \in BOOLEAN :
          Mutes(ok) \/ \E r \in RulePool : AddRule(r, ok) \/ RemoveRule(r, ok)
    BY <1>17 DEF Outcomes
  <2>2. CASE Mutes(ok)
    BY <1>6, <1>7, <1>8, <2>2 DEF Mutes
  <2>3. CASE \E r \in RulePool : AddRule(r, ok) \/ RemoveRule(r, ok)
    BY <1>8, <2>3
  <2> QED BY <2>1, <2>2, <2>3
<1>18. CASE Adds
  BY <1>9, <1>18 DEF Adds
<1>19. CASE \E ok \in Outcomes : Edits(ok)
  <2>1. PICK ok \in BOOLEAN : Edits(ok)
    BY <1>19 DEF Outcomes
  <2> QED BY <1>10, <1>12, <1>14, <2>1 DEF Edits
<1>20. CASE Continues
  <2>1. ASSUME NEW k \in Key, \/ ReadSource(k) \/ WriteSource(k)
                              \/ \E v \in pending[k] \cup {0} : RestartRefused(k, v)
        PROVE Goal
    BY <1>4, <2>1 DEF ReadSource, WriteSource, RestartRefused, memory, child
  <2> QED BY <1>2, <1>3, <1>11, <1>13, <1>15, <1>20, <2>1 DEF Continues
<1> QED BY <1>16, <1>17, <1>18, <1>19, <1>20 DEF StoresNext, Works

-----------------------------------------------------------------------------
(* The source tree and the writes that were answered.                      *)

\* Whoever reads a tree t now reads no tree at all, or a whole one at least as new as v.
Serves(t, v) == v = 0 \/ t.live = 0 \/ (v <= t.live /\ t.live # Partial)

\* Each write that was answered, that waits for its restart or whose restart is under way
\* is served by the tree; only the deletion of a removed server leaves a partial one.
SourceServes(k) ==
  /\ acked[k] <= version /\ Serves(tree[k], acked[k])
  /\ \A v \in pending[k] : v <= version /\ Serves(tree[k], v)
  /\ op[k] # None => op[k].version <= version /\ Serves(tree[k], op[k].version)
  /\ acked[k] > 0 => \A v \in seen[k] : v = 0 \/ (acked[k] <= v /\ v # Partial)

SourcesServe == \A k \in Key : SourceServes(k)

LEMMA SourceKeptServes ==
  ASSUME NEW j \in Key, SourceServes(j), version' = version, tree'[j] = tree[j],
         acked'[j] = acked[j], pending'[j] \subseteq pending[j], seen'[j] \subseteq seen[j],
         op'[j] = None \/ op'[j] = op[j]
  PROVE  SourceServes(j)'
<1>1. \A v : Serves(tree'[j], v) <=> Serves(tree[j], v)
  BY DEF Serves
<1> QED BY <1>1 DEF SourceServes

\* The process of a start has read nothing yet; the one of a stop stays as it was.
LEMMA StartSeen ==
  ASSUME SourceType, NEW k \in Key, Starts(k) \/ Stops(k)
  PROVE  \A j \in Key : seen'[j] \subseteq seen[j]
BY DEF SourceType, Starts, Stops

LEMMA SourceStep ==
  ASSUME StoresTypeOK, ChildrenBeside, SourcesServe, StoresNext
  PROVE  SourcesServe'
<1> DEFINE Goal == SourcesServe'
<1>1. /\ MemoryType /\ ChildType /\ SourceType /\ RestType
      /\ \A k \in Key : Beside(k) /\ SourceServes(k)
  BY TypeParts DEF ChildrenBeside, SourcesServe
<1>2. \A k \in Key : 0 <= version /\ version <= MaxVersion
  BY <1>1, StoresAssumption DEF SourceType
<1>3. ASSUME UNCHANGED <<source, op>>, \A j \in Key : seen'[j] \subseteq seen[j] PROVE Goal
  BY <1>1, <1>3, SourceKeptServes DEF SourcesServe, source
<1>4. ASSUME NEW k \in Key, ReadSource(k) PROVE Goal
  <2>1. UNCHANGED <<source, op>> /\ seen' = [seen EXCEPT ![k] = @ \cup {tree[k].live}]
    BY <1>4 DEF ReadSource, child
  <2>2. ASSUME NEW j \in Key PROVE SourceServes(j)'
    <3>1. CASE j # k
      BY <1>1, <2>1, <3>1, SourceKeptServes DEF SourceType, source
    <3>2. CASE j = k
      <4>1. \A v : Serves(tree'[k], v) <=> Serves(tree[k], v)
        BY <2>1 DEF Serves, source
      <4>2. acked[k] > 0 => tree[k].live = 0 \/ (acked[k] <= tree[k].live /\ tree[k].live # Partial)
        BY <1>1 DEF SourceServes, Serves
      <4> QED BY <1>1, <2>1, <3>2, <4>1, <4>2 DEF SourceServes, SourceType, source
    <3> QED BY <3>1, <3>2
  <2> QED BY <2>2 DEF SourcesServe
<1>5. ASSUME NEW k \in Key, WriteSource(k) PROVE Goal
  <2> DEFINE new == Stages(tree[k], version + 1)
  <2>1. PICK done \in 1..7, glimpsed \in SUBSET {tree[k].live, 0, version + 1} :
          /\ version' = version + 1 /\ version' \in 1..MaxVersion
          /\ tree' = [tree EXCEPT ![k] = Stages(tree[k], version + 1)[done]]
          /\ seen' = [seen EXCEPT ![k] = @ \cup glimpsed]
          /\ \/ pending' = pending
             \/ /\ done = 7 /\ HasChild(k)
                /\ pending' = [pending EXCEPT ![k] = @ \cup {version + 1}]
    BY <1>1, <1>5, WriteShape
  <2>2. UNCHANGED <<op, acked>>
    BY <1>5 DEF WriteSource, child
  <2>3. /\ tree'[k].live \in {tree[k].live, 0, version + 1}
        /\ done = 7 => tree'[k].live = version + 1
    <3>1. tree[k] \in [live : Version, tmp : Version, old : Version]
      BY <1>1 DEF SourceType
    <3>2. tree'[k] = Stages(tree[k], version + 1)[done]
      BY <1>1, <2>1 DEF SourceType
    <3>3. version + 1 \in 1..MaxVersion
      BY <2>1
    <3>4. /\ \A i \in 1..7 : new[i].live \in {tree[k].live, 0, version + 1}
          /\ new[7].live = version + 1
      BY <3>1, <3>3, StagesShape
    <3>5. tree'[k] = new[done]
      BY <3>2
    <3> HIDE DEF new
    <3> QED BY <3>4, <3>5
  <2>4. version \in Nat /\ version + 1 <= MaxVersion /\ version + 1 # Partial
    BY <1>1, <2>1, StoresAssumption DEF SourceType, Partial
  <2>5. ASSUME NEW v \in 0..MaxVersion, v <= version, Serves(tree[k], v) PROVE Serves(tree'[k], v)
    BY <2>3, <2>4, <2>5 DEF Serves, Partial
  <2>6. ASSUME NEW j \in Key, j # k PROVE SourceServes(j)'
    <3>1. /\ tree'[j] = tree[j] /\ seen'[j] = seen[j] /\ pending'[j] = pending[j]
      BY <1>1, <2>1, <2>6 DEF SourceType
    <3>2. \A v : Serves(tree'[j], v) <=> Serves(tree[j], v)
      BY <3>1 DEF Serves
    <3>3. \A v \in 0..MaxVersion : v <= version => v <= version'
      BY <2>1, <2>4
    <3>4. /\ acked[j] \in 0..MaxVersion /\ pending[j] \subseteq 0..MaxVersion
          /\ op[j] # None => op[j].version \in 0..MaxVersion
      BY <1>1, ChildRecords DEF SourceType
    <3> QED BY <1>1, <2>2, <3>1, <3>2, <3>3, <3>4 DEF SourceServes
  <2>7. SourceServes(k)'
    <3>1. /\ acked[k] \in 0..MaxVersion /\ pending[k] \subseteq 0..MaxVersion
          /\ op[k] # None => op[k].version \in 0..MaxVersion
      BY <1>1, ChildRecords DEF SourceType
    <3>2. \A v \in 0..MaxVersion : v <= version => v <= version'
      BY <2>1, <2>4
    <3>3. acked'[k] <= version' /\ Serves(tree'[k], acked[k])
      BY <1>1, <2>2, <2>5, <3>1, <3>2 DEF SourceServes
    <3>4. op'[k] # None => op'[k].version <= version' /\ Serves(tree'[k], op[k].version)
      BY <1>1, <2>2, <2>5, <3>1, <3>2 DEF SourceServes
    <3>5. ASSUME NEW v \in pending'[k] PROVE v <= version' /\ Serves(tree'[k], v)
      <4>1. CASE v \in pending[k]
        BY <1>1, <2>5, <3>1, <3>2, <4>1 DEF SourceServes
      <4>2. CASE v = version + 1 /\ done = 7
        BY <2>1, <2>3, <2>4, <4>2 DEF Serves
      <4> QED BY <1>1, <2>1, <3>5, <4>1, <4>2 DEF SourceType
    <3>6. ASSUME acked[k] > 0, NEW v \in seen'[k] PROVE v = 0 \/ (acked[k] <= v /\ v # Partial)
      <4>1. CASE v \in seen[k]
        BY <1>1, <3>6, <4>1 DEF SourceServes
      <4>2. CASE v \in {0, version + 1}
        BY <1>1, <2>4, <3>1, <4>2 DEF SourceServes
      <4>3. CASE v = tree[k].live
        BY <1>1, <3>6, <4>3 DEF SourceServes, Serves
      <4> QED BY <1>1, <2>1, <3>6, <4>1, <4>2, <4>3 DEF SourceType
    <3>7. acked' = acked /\ op' = op
      BY <2>2
    <3>8. Serves(tree'[k], acked'[k]) /\ (op'[k] # None => Serves(tree'[k], op'[k].version))
      BY <3>3, <3>4, <3>7
    <3> QED BY <3>3, <3>4, <3>5, <3>6, <3>7, <3>8 DEF SourceServes, Serves
  <2> QED BY <2>6, <2>7 DEF SourcesServe
<1>6. ASSUME NEW k \in Key, NEW env, NEW enabled, NEW done, Add(k, env, enabled, done)
      PROVE Goal
  <2>1. UNCHANGED <<source, op>>
    BY <1>6 DEF Add
  <2>2. \A j \in Key : seen'[j] \subseteq seen[j]
    BY <1>1, <1>6, StartSeen DEF Add, StartsOrStops
  <2> QED BY <1>3, <2>1, <2>2
<1>7. ASSUME NEW k \in Key, NEW env \in Env, NEW enabled, NEW ok, BeginUpdate(k, env, enabled, ok)
      PROVE Goal
  <2>1. UNCHANGED <<source, seen>>
    BY <1>7 DEF BeginUpdate
  <2>2. op' = op \/ op' = [op EXCEPT ![k] = [kind |-> "update", version |-> 0]]
    BY <1>7 DEF BeginUpdate, Takes
  <2>3. ASSUME NEW j \in Key PROVE SourceServes(j)'
    <3>1. CASE op'[j] = op[j]
      BY <1>1, <2>1, <3>1, SourceKeptServes DEF source
    <3>2. CASE op'[j] # op[j]
      BY <1>1, <1>2, <2>1, <2>2, <3>2 DEF SourceServes, Serves, source, ChildType
    <3> QED BY <3>1, <3>2
  <2> QED BY <2>3 DEF SourcesServe
<1>8. ASSUME NEW k \in Key, FinishUpdate(k) PROVE Goal
  <2>1. UNCHANGED source /\ op' = [op EXCEPT ![k] = None]
    BY <1>8 DEF FinishUpdate, Releases
  <2>2. \A j \in Key : seen'[j] \subseteq seen[j]
    BY <1>1, <1>8, StartSeen DEF FinishUpdate, StartsOrStops
  <2>3. \A j \in Key : op'[j] = None \/ op'[j] = op[j]
    BY <1>1, <2>1 DEF ChildType
  <2> QED BY <1>1, <2>1, <2>2, <2>3, SourceKeptServes DEF SourcesServe, source
<1>9. ASSUME NEW k \in Key, NEW ok, Approve(k, ok) PROVE Goal
  <2>1. UNCHANGED <<source, op>>
    BY <1>9 DEF Approve
  <2>2. \A j \in Key : seen'[j] \subseteq seen[j]
    BY <1>1, <1>9, StartSeen DEF Approve
  <2> QED BY <1>3, <2>1, <2>2
<1>10. ASSUME NEW k \in Key, NEW v \in pending[k] \cup {0}, BeginRestart(k, v) \/ RestartRefused(k, v)
       PROVE Goal
  <2>1. /\ UNCHANGED <<tree, version, acked, seen>>
        /\ pending' = [pending EXCEPT ![k] = @ \ {v}]
        /\ op' = op \/ op' = [op EXCEPT ![k] = [kind |-> "restart", version |-> v]]
    BY <1>10 DEF BeginRestart, RestartRefused, Takes, child
  <2>2. v <= version /\ Serves(tree[k], v)
    BY <1>1, <1>2 DEF SourceServes, Serves
  <2>3. ASSUME NEW j \in Key PROVE SourceServes(j)'
    <3>1. CASE op'[j] = op[j]
      BY <1>1, <2>1, <3>1, SourceKeptServes DEF SourceType
    <3>2. CASE op'[j] # op[j]
      <4>1. j = k /\ op'[k] = [kind |-> "restart", version |-> v]
        BY <1>1, <2>1, <3>2 DEF ChildType
      <4>2. \A w : Serves(tree'[k], w) <=> Serves(tree[k], w)
        BY <2>1 DEF Serves
      <4>3. pending'[k] \subseteq pending[k]
        BY <1>1, <2>1 DEF SourceType
      <4>4. op'[k].version = v
        BY <4>1
      <4>5. Serves(tree'[k], op'[k].version)
        BY <2>1, <2>2, <4>4
      <4> QED BY <1>1, <2>1, <2>2, <4>1, <4>2, <4>3, <4>4, <4>5 DEF SourceServes, Serves
    <3> QED BY <3>1, <3>2
  <2> QED BY <2>3 DEF SourcesServe
<1>11. ASSUME NEW k \in Key, FinishRestart(k) PROVE Goal
  <2>1. UNCHANGED <<tree, version, pending>> /\ op' = [op EXCEPT ![k] = None]
    BY <1>11 DEF FinishRestart, Releases
  <2>2. \A j \in Key : j # k => op'[j] = op[j]
    BY <1>1, <2>1 DEF ChildType
  <2>3. CASE Approved(k, specs[k])
    <3>1. /\ seen' = [seen EXCEPT ![k] = {}]
          /\ acked' = [acked EXCEPT ![k] = IF op[k].version > @ THEN op[k].version ELSE @]
      BY <1>11, <2>3 DEF FinishRestart, Starts
    <3>2. ASSUME NEW j \in Key PROVE SourceServes(j)'
      <4>1. CASE j # k
        BY <1>1, <2>1, <2>2, <3>1, <4>1, SourceKeptServes DEF SourceType
      <4>2. CASE j = k
        <5>1. \A w : Serves(tree'[k], w) <=> Serves(tree[k], w)
          BY <2>1 DEF Serves
        <5>2. acked'[k] \in {acked[k], op[k].version} /\ seen'[k] = {} /\ op'[k] = None
          BY <1>1, <2>1, <3>1 DEF SourceType, ChildType
        <5>3. op[k] # None
          BY <1>11 DEF FinishRestart, Holds
        <5>4. acked'[k] <= version /\ Serves(tree'[k], acked'[k])
          BY <1>1, <2>1, <5>2, <5>3 DEF SourceServes
        <5> QED BY <1>1, <2>1, <4>2, <5>1, <5>2, <5>4 DEF SourceServes
      <4> QED BY <4>1, <4>2
    <3> QED BY <3>2 DEF SourcesServe
  <2>4. CASE ~Approved(k, specs[k])
    <3>1. UNCHANGED <<acked, seen>> /\ \A j \in Key : op'[j] = None \/ op'[j] = op[j]
      BY <1>1, <1>11, <2>1, <2>4 DEF FinishRestart, ChildType
    <3> QED BY <1>1, <2>1, <3>1, SourceKeptServes DEF SourcesServe
  <2> QED BY <2>3, <2>4
<1>12. ASSUME NEW k \in Key, NEW ok, BeginRemove(k, ok) PROVE Goal
  <2>1. /\ UNCHANGED <<tree, version, acked, seen>>
        /\ \/ op' = op /\ pending' = pending
           \/ /\ pending' = [pending EXCEPT ![k] = {}]
              /\ op' = [op EXCEPT ![k] = [kind |-> "remove", version |-> 0]]
    BY <1>12 DEF BeginRemove, Takes
  <2>2. \A j \in Key : pending'[j] \subseteq pending[j]
    BY <1>1, <2>1 DEF SourceType
  <2>3. ASSUME NEW j \in Key PROVE SourceServes(j)'
    <3>1. CASE op'[j] = op[j]
      BY <1>1, <2>1, <2>2, <3>1, SourceKeptServes
    <3>2. CASE op'[j] # op[j]
      BY <1>1, <1>2, <2>1, <2>2, <3>2 DEF SourceServes, Serves, ChildType
    <3> QED BY <3>1, <3>2
  <2> QED BY <2>3 DEF SourcesServe
<1>13. ASSUME NEW k \in Key, NEW done \in 0..3, FinishRemove(k, done) PROVE Goal
  <2>1. /\ UNCHANGED <<version, pending, seen>> /\ op' = [op EXCEPT ![k] = None]
        /\ acked' = [acked EXCEPT ![k] = 0]
        /\ \A j \in Key : j # k => tree'[j] = tree[j]
        /\ Holds(k, "remove")
    BY <1>1, <1>13 DEF FinishRemove, Releases, SourceType
  <2>2. pending[k] = {}
    BY <1>1, <2>1 DEF Holds, Beside
  <2>3. ASSUME NEW j \in Key PROVE SourceServes(j)'
    <3>1. CASE j # k
      BY <1>1, <2>1, <3>1, SourceKeptServes DEF SourceType, ChildType
    <3>2. CASE j = k
      BY <1>1, <1>2, <2>1, <2>2, <3>2 DEF SourceServes, Serves, SourceType, ChildType
    <3> QED BY <3>1, <3>2
  <2> QED BY <2>3 DEF SourcesServe
<1>14. ASSUME Crash PROVE Goal
  <2>1. /\ UNCHANGED <<tree, version, acked>>
        /\ \A j \in Key : op'[j] = None /\ pending'[j] = {} /\ seen'[j] = {}
    BY <1>14 DEF Crash
  <2> QED BY <1>1, <2>1, SourceKeptServes DEF SourcesServe
<1>15. ASSUME NEW ok, Mutes(ok) PROVE Goal
  <2>1. UNCHANGED <<source, op, seen>>
    BY <1>15, ZenonT(60) DEF Mutes, SetRootMuted, SetAdminMuted, SetAdminToolMuted, SetBuiltin,
       SetMuted, SetToolMuted, SetVisibility, child
  <2> QED BY <1>3, <2>1
<1>16. ASSUME NEW ok, NEW r, AddRule(r, ok) \/ RemoveRule(r, ok) PROVE Goal
  BY <1>3, <1>16 DEF AddRule, RemoveRule, child
<1>17. ASSUME NEW k \in Key, RunStart(k) \/ Publish(k) \/ StartFails(k) \/ ProbeFails(k) PROVE Goal
  BY <1>3, <1>17 DEF RunStart, Publish, StartFails, ProbeFails
<1>18. CASE Continues
  BY <1>4, <1>5, <1>8, <1>10, <1>11, <1>13, <1>17, <1>18 DEF Continues
<1>19. CASE Adds
  BY <1>6, <1>19 DEF Adds
<1>20. CASE \E ok \in Outcomes : Edits(ok)
  BY <1>7, <1>9, <1>12, <1>20 DEF Edits
<1> QED BY <1>14, <1>15, <1>16, <1>18, <1>19, <1>20 DEF StoresNext, Works

-----------------------------------------------------------------------------
(* All of it.                                                              *)

StoresInv ==
  /\ StoresTypeOK /\ ChildrenBeside
  /\ MemoryIsDisk /\ LogsMatch /\ SourcesServe

LEMMA StoresInitial == StoresInit => StoresInv
<1> SUFFICES ASSUME StoresInit PROVE StoresInv
  OBVIOUS
<1>1. PICK s \in Scenario : Started(s.boot) /\ rules = s.rules /\ left = s.left
  BY DEF StoresInit
<1> DEFINE boot == s.boot
<1>2. boot \in [Key -> Record \cup {None}] /\ s.rules \subseteq RulePool /\ s.left \in [Budget -> Nat]
  BY StoresAssumption
<1> HIDE DEF boot
<1>3. NoBuiltin \in Builtin /\ NoBuiltin.muted = FALSE
  BY DEF NoBuiltin, Builtin
<1>4. \A k \in Key : boot[k] # None => boot[k] \in Record /\ MarksOf(FALSE, boot[k]) \in Marks
  BY <1>2, RecordMarks
<1>5. /\ specs = boot /\ rootMuted = FALSE /\ builtin = NoBuiltin
      /\ adminFile = AdminPart(boot, FALSE, NoBuiltin) /\ userFile = UserPart(boot)
      /\ status = [k \in Key |-> IF boot[k] = None THEN "absent"
                                 ELSE IF boot[k].enabled /\ Approved(k, boot[k])
                                 THEN "running" ELSE "stopped"]
      /\ spec = boot /\ task = [k \in Key |-> "none"]
      /\ live = [k \in Key |-> IF status[k] = "running" THEN MarksOf(FALSE, boot[k]) ELSE None]
      /\ builtinLive = BuiltinMarks(NoBuiltin) /\ op = [k \in Key |-> None]
      /\ log = [k \in Key |-> IF status[k] = "running" THEN {boot[k].env} ELSE {}]
      /\ tree = [k \in Key |-> IF k \in Sourced /\ boot[k] # None
                               THEN [NoTree EXCEPT !.live = 1] ELSE NoTree]
      /\ version = 1
      /\ seen = [k \in Key |-> IF k \in Sourced /\ status[k] = "running" THEN {1} ELSE {}]
      /\ pending = [k \in Key |-> {}] /\ acked = [k \in Key |-> 0]
  BY <1>1 DEF Started, boot
<1>6. MemoryType
  BY <1>2, <1>3, <1>5 DEF MemoryType, AdminPart, UserPart
<1>7. \A k \in Key : status[k] = "running" => boot[k] # None
  BY <1>5
<1>8. ChildType
  <2>1. status \in [Key -> Status]
    BY <1>5 DEF Status
  <2>2. live \in [Key -> Marks \cup {None}]
    BY <1>4, <1>5, <1>7
  <2> QED BY <1>2, <1>5, <2>1, <2>2 DEF ChildType
<1>9. SourceType
  <2>1. 1 \in 1..MaxVersion /\ 0 \in Version /\ 1 \in Version /\ 0 \in 0..MaxVersion
    BY StoresAssumption DEF Version, Partial
  <2>2. /\ NoTree \in [live : Version, tmp : Version, old : Version]
        /\ [NoTree EXCEPT !.live = 1] \in [live : Version, tmp : Version, old : Version]
    BY <2>1 DEF NoTree
  <2> QED BY <1>5, <2>1, <2>2 DEF SourceType
<1>10. RestType
  <2>1. log \in [Key -> SUBSET Env]
    <3>1. \A k \in Key : status[k] = "running" => boot[k].env \in Env
      BY <1>4, <1>7, RecordFields
    <3> QED BY <1>5, <3>1
  <2> QED BY <1>1, <1>2, <1>3, <1>5, <2>1, RecordMarks DEF RestType
<1>11. ChildrenBeside
  BY <1>4, <1>5, <1>7 DEF ChildrenBeside, Beside, HasChild
<1>12. MemoryIsDisk
  <2>1. \A k \in Key : (IF Shared(k) THEN adminFile.servers[k] ELSE userFile[k]) = boot[k]
    BY <1>5 DEF AdminPart, UserPart
  <2>2. LoadedSpecs = boot
    BY <1>2, <2>1 DEF LoadedSpecs
  <2> QED BY <1>5, <2>2 DEF MemoryIsDisk, AdminPart
<1>13. LogsMatch
  BY <1>5 DEF LogsMatch, LogMatches
<1>14. SourcesServe
  BY <1>5 DEF SourcesServe, SourceServes, Serves
<1> QED BY <1>6, <1>8, <1>9, <1>10, <1>11, <1>12, <1>13, <1>14, TypeParts DEF StoresInv

LEMMA StoresStep ==
  ASSUME StoresInv, StoresNext
  PROVE  StoresInv'
BY TypeStep, BesideStep, DiskStep, LogStep, SourceStep DEF StoresInv

\* A step that has no part in any of it, beyond its own payment.
LEMMA StoresFrame ==
  ASSUME StoresInv, UNCHANGED <<memory, files, rules, child, builtinLive, log, source, seen>>,
         left' \in [Budget -> Nat]
  PROVE  StoresInv'
<1>1. StoresTypeOK'
  BY DEF StoresInv, StoresTypeOK, memory, files, child, source
<1>2. ChildrenBeside'
  BY BesideKept DEF StoresInv, ChildrenBeside, memory, child, source
<1>3. MemoryIsDisk'
  BY DEF StoresInv, MemoryIsDisk, LoadedSpecs, Shared, memory, files
<1>4. LogsMatch'
  BY LogKeptMatches DEF StoresInv, LogsMatch, memory, child
<1>5. SourcesServe'
  BY SourceKeptServes DEF StoresInv, SourcesServe, child, source
<1> QED BY <1>1, <1>2, <1>3, <1>4, <1>5 DEF StoresInv

\* The invariant behind the properties of the stores, for any operations, failures and
\* crashes in any order: the child beside its record, the two files, the log and the tree.
THEOREM StoresInductive == StoresSpec => []StoresInv
<1>1. StoresInv /\ UNCHANGED svars => StoresInv'
  <2> SUFFICES ASSUME StoresInv, UNCHANGED svars PROVE StoresInv'
    OBVIOUS
  <2>1. left' \in [Budget -> Nat]
    BY DEF svars, StoresInv, StoresTypeOK
  <2> QED BY <2>1, StoresFrame DEF svars
<1> QED BY <1>1, StoresInitial, StoresStep, PTL DEF StoresSpec

-----------------------------------------------------------------------------
(* The stores implement the service that serves reviewed records only.     *)

\* A start, a mounted provider and a restart under way belong to a child that is at its
\* step, and but for an edit under way the stored record of such a child was reviewed.
Reviewed(k) ==
  /\ task[k] # "none" => status[k] = "starting" /\ Free(k)
  /\ live[k] # None => status[k] = "running" /\ Free(k)
  /\ Holds(k, "restart") => status[k] \in {"running", "failed"}
  /\ status[k] \in {"starting", "running", "failed"} /\ ~Holds(k, "update")
       => Service!MayServe(k)

AllReviewed == \A k \in Key : Reviewed(k)

\* What a step shows of itself: a step of the service, or nothing.
Showing == Service!SNext \/ UNCHANGED <<StoredRecord, ServedEnv>>

\* What the service sees of a record.
RowOf(rec) ==
  IF rec = None THEN None
  ELSE [rev |-> rec.env, approved |-> rec.approved, enabled |-> rec.enabled]

LEMMA RowFields ==
  /\ \A rec \in Record : /\ RowOf(rec) \in Service!SRecord /\ RowOf(rec) # None
                         /\ RowOf(rec).rev = rec.env
                         /\ RowOf(rec).approved = rec.approved
                         /\ RowOf(rec).enabled = rec.enabled
  /\ RowOf(None) = None
  /\ DOMAIN StoredRecord = Key /\ \A k \in Key : StoredRecord[k] = RowOf(specs[k])
  /\ DOMAIN StoredRecord' = Key /\ \A k \in Key : StoredRecord'[k] = RowOf(specs'[k])
<1>1. \A rec \in Record : rec # None /\ rec.env \in Env /\ rec.enabled \in BOOLEAN
                          /\ rec.approved \in Env \cup {None}
  BY RecordFields, Zenon
<1>2. None \notin ServiceRecord
  BY StoresAssumption
<1>3. ASSUME NEW rec \in Record
      PROVE  /\ RowOf(rec) \in Service!SRecord /\ RowOf(rec) # None
             /\ RowOf(rec).rev = rec.env
             /\ RowOf(rec).approved = rec.approved
             /\ RowOf(rec).enabled = rec.enabled
  BY <1>1, <1>2 DEF RowOf, Service!SRecord, ServiceRecord
<1>4. RowOf(None) = None
  BY DEF RowOf
<1>5. DOMAIN StoredRecord = Key /\ \A k \in Key : StoredRecord[k] = RowOf(specs[k])
  BY DEF StoredRecord, RowOf
<1>6. DOMAIN StoredRecord' = Key /\ \A k \in Key : StoredRecord'[k] = RowOf(specs'[k])
  BY DEF StoredRecord, RowOf
<1> QED BY <1>3, <1>4, <1>5, <1>6

\* The record of a key that has one may be served when it is enabled and approved.
LEMMA MayServeRecord ==
  /\ \A k \in Key : specs[k] \in Record =>
       (Service!MayServe(k) <=> specs[k].enabled /\ Approved(k, specs[k]))
  /\ \A k \in Key : specs'[k] \in Record =>
       (Service!MayServe(k)' <=> specs'[k].enabled /\ Approved(k, specs'[k]))
<1>1. ASSUME NEW k \in Key, specs[k] \in Record
      PROVE  Service!MayServe(k) <=> specs[k].enabled /\ Approved(k, specs[k])
  BY <1>1, RowFields DEF Service!MayServe, Approved, Shared
<1>2. ASSUME NEW k \in Key, specs'[k] \in Record
      PROVE  Service!MayServe(k)' <=> specs'[k].enabled /\ Approved(k, specs'[k])
  BY <1>2, RowFields DEF Service!MayServe, Approved, Shared
<1> QED BY <1>1, <1>2

\* A step that leaves the records of the service alone, and one that changes one of them.
LEMMA SameRecords ==
  ASSUME \A j \in Key : RowOf(specs'[j]) = RowOf(specs[j])
  PROVE  StoredRecord' = StoredRecord
BY DEF StoredRecord, RowOf

LEMMA OneRecord ==
  ASSUME NEW k \in Key, specs \in [Key -> Record \cup {None}], NEW rec,
         specs' = [specs EXCEPT ![k] = rec]
  PROVE  StoredRecord' = [StoredRecord EXCEPT ![k] = RowOf(rec)]
<1>1. StoredRecord = [j \in Key |-> RowOf(specs[j])]
      /\ StoredRecord' = [j \in Key |-> RowOf(specs'[j])]
  BY DEF StoredRecord, RowOf
<1>2. \A j \in Key : specs'[j] = IF j = k THEN rec ELSE specs[j]
  OBVIOUS
<1> HIDE DEF RowOf
<1> QED BY <1>1, <1>2

\* A step that leaves what is served alone, and one that changes it for one key.
LEMMA SameServed ==
  ASSUME \A j \in Key : live'[j] = None <=> live[j] = None,
         \A j \in Key : live[j] # None => spec'[j].env = spec[j].env
  PROVE  ServedEnv' = ServedEnv
BY DEF ServedEnv

LEMMA OneServed ==
  ASSUME NEW k \in Key,
         \A j \in Key : j # k => (live'[j] = None <=> live[j] = None) /\ spec'[j] = spec[j]
  PROVE  ServedEnv' = [ServedEnv EXCEPT ![k] = IF live'[k] = None THEN None ELSE spec'[k].env]
BY DEF ServedEnv

\* A key whose child and reviewed record a step leaves alone.
LEMMA ReviewedKept ==
  ASSUME NEW j \in Key, Reviewed(j), RowOf(specs'[j]) = RowOf(specs[j]),
         status'[j] = status[j], task'[j] = task[j], op'[j] = op[j],
         live'[j] = None <=> live[j] = None
  PROVE  Reviewed(j)'
<1>1. StoredRecord'[j] = StoredRecord[j]
  BY RowFields
<1>2. Service!MayServe(j)' <=> Service!MayServe(j)
  BY <1>1 DEF Service!MayServe
<1> QED BY <1>2 DEF Reviewed, Free, Holds

\* The gate of a start: it lets a child start only with a reviewed record.
LEMMA GateReviews ==
  ASSUME NEW k \in Key, ChildType, specs'[k] \in Record, op'[k] = None, live'[k] = None,
         StartsOrStops(k)
  PROVE  Reviewed(k)'
<1>1. CASE Starts(k) /\ specs'[k].enabled /\ Approved(k, specs'[k])
  <2>1. Service!MayServe(k)'
    BY <1>1, MayServeRecord
  <2>2. status'[k] = "starting" /\ task'[k] = "new"
    BY <1>1 DEF Starts, ChildType
  <2> QED BY <2>1, <2>2 DEF Reviewed, Free, Holds
<1>2. CASE Stops(k)
  <2>1. status'[k] = "stopped" /\ task'[k] = "none"
    BY <1>2 DEF Stops, ChildType
  <2> QED BY <2>1 DEF Reviewed, Free, Holds
<1> QED BY <1>1, <1>2 DEF StartsOrStops

\* Every step of the stores keeps what was reviewed, and is a step of the service or shows
\* nothing: one step per operation, in the order of the module.
LEMMA ServiceStep ==
  ASSUME StoresInv, AllReviewed, StoresNext
  PROVE  AllReviewed' /\ Showing
<1> DEFINE Goal == AllReviewed' /\ Showing
<1>1. /\ StoresTypeOK /\ ChildrenBeside /\ MemoryType /\ ChildType /\ MemoryIsDisk
      /\ \A k \in Key : Beside(k) /\ LogMatches(k) /\ Reviewed(k)
  BY TypeParts DEF StoresInv, ChildrenBeside, LogsMatch, AllReviewed
<1>2. MemoryType' /\ ChildType'
  BY <1>1, TypeStep, TypeParts DEF StoresTypeOK, MemoryType, ChildType
<1>3. ASSUME NEW j \in Key, live[j] # None
      PROVE  /\ status[j] = "running" /\ Free(j) /\ HasChild(j)
             /\ specs[j] \in Record /\ spec[j].env = specs[j].env
  <2>1. status[j] = "running" /\ Free(j)
    BY <1>1, <1>3 DEF Reviewed
  <2>2. HasChild(j) /\ ~Holds(j, "update")
    BY <2>1 DEF HasChild, Free, Holds
  <2> QED BY <1>1, <2>1, <2>2, ChildRecords DEF LogMatches
<1>4. ASSUME UNCHANGED <<specs, status, spec, task, live, op>> PROVE Goal
  <2>1. AllReviewed'
    BY <1>1, <1>4, ReviewedKept DEF AllReviewed
  <2>2. StoredRecord' = StoredRecord /\ ServedEnv' = ServedEnv
    BY <1>4, SameRecords, SameServed
  <2> QED BY <2>1, <2>2 DEF Showing
<1>5. ASSUME NEW k \in Key, RunStart(k) PROVE Goal
  <2>1. /\ UNCHANGED <<specs, status, spec, live, op>> /\ task[k] = "new"
        /\ task' = [task EXCEPT ![k] = "probing"]
    BY <1>5 DEF RunStart, memory
  <2>2. StoredRecord' = StoredRecord /\ ServedEnv' = ServedEnv
    BY <2>1, SameRecords, SameServed
  <2>3. ASSUME NEW j \in Key PROVE Reviewed(j)'
    <3>1. CASE j # k
      BY <1>1, <2>1, <3>1, ReviewedKept DEF ChildType
    <3>2. CASE j = k
      <4>1. Service!MayServe(k)' <=> Service!MayServe(k)
        BY <2>2 DEF Service!MayServe
      <4> QED BY <1>1, <2>1, <3>2, <4>1 DEF Reviewed, Free, Holds, ChildType
    <3> QED BY <3>1, <3>2
  <2> QED BY <2>2, <2>3 DEF AllReviewed, Showing
<1>6. ASSUME NEW k \in Key, Publish(k) PROVE Goal
  <2>1. /\ UNCHANGED <<specs, spec, op>> /\ task[k] # "none" /\ op[k] = None
        /\ live' = [live EXCEPT ![k] = MarksAtPublish(k)]
        /\ status' = [status EXCEPT ![k] = "running"]
        /\ task' = [task EXCEPT ![k] = "none"]
    BY <1>6 DEF Publish, memory, Free
  <2>2. /\ status[k] = "starting" /\ live[k] = None /\ Service!MayServe(k)
        /\ HasChild(k) /\ ~Holds(k, "update")
    BY <1>1, <2>1 DEF Reviewed, Free, Holds, HasChild
  <2>3. specs[k] \in Record /\ spec[k] \in Record /\ spec[k].env = specs[k].env
    BY <1>1, <2>2, ChildRecords DEF LogMatches
  <2>4. live'[k] # None
    BY <1>1, <2>1, <2>3, RecordMarks DEF MarksAtPublish, MemoryType, ChildType
  <2>5. StoredRecord' = StoredRecord
    BY <2>1, SameRecords
  <2>6. ServedEnv' = [ServedEnv EXCEPT ![k] = StoredRecord[k].rev]
    <3>1. ServedEnv' = [ServedEnv EXCEPT ![k] = IF live'[k] = None THEN None ELSE spec'[k].env]
      BY <1>1, <2>1, OneServed DEF ChildType
    <3>2. StoredRecord[k].rev = specs[k].env
      BY <2>3, RowFields
    <3> QED BY <2>1, <2>3, <2>4, <3>1, <3>2
  <2>7. ServedEnv[k] = None
    BY <2>2 DEF ServedEnv
  <2>8. Service!Serve(k)
    BY <2>2, <2>5, <2>6, <2>7 DEF Service!Serve
  <2>9. ASSUME NEW j \in Key PROVE Reviewed(j)'
    <3>1. CASE j # k
      BY <1>1, <2>1, <3>1, ReviewedKept DEF ChildType
    <3>2. CASE j = k
      <4>1. Service!MayServe(k)'
        BY <2>2, <2>5 DEF Service!MayServe
      <4> QED BY <1>1, <2>1, <3>2, <4>1 DEF Reviewed, Free, Holds, ChildType
    <3> QED BY <3>1, <3>2
  <2> QED BY <2>8, <2>9 DEF AllReviewed, Showing, Service!SNext
<1>7. ASSUME NEW k \in Key, StartFails(k) PROVE Goal
  <2>1. /\ UNCHANGED <<specs, spec, live, op>> /\ task[k] # "none" /\ op[k] = None
        /\ status' = [status EXCEPT ![k] = "failed"]
        /\ task' = [task EXCEPT ![k] = "none"]
    BY <1>7 DEF StartFails, memory, Free
  <2>2. StoredRecord' = StoredRecord /\ ServedEnv' = ServedEnv
    BY <2>1, SameRecords, SameServed
  <2>3. ASSUME NEW j \in Key PROVE Reviewed(j)'
    <3>1. CASE j # k
      BY <1>1, <2>1, <3>1, ReviewedKept DEF ChildType
    <3>2. CASE j = k
      <4>1. Service!MayServe(k)' /\ live[k] = None
        BY <1>1, <2>1, <2>2 DEF Service!MayServe, Reviewed, Free, Holds
      <4> QED BY <1>1, <2>1, <3>2, <4>1 DEF Reviewed, Free, Holds, ChildType
    <3> QED BY <3>1, <3>2
  <2> QED BY <2>2, <2>3 DEF AllReviewed, Showing
<1>8. ASSUME NEW k \in Key, ProbeFails(k) PROVE Goal
  <2>1. /\ UNCHANGED <<specs, spec, task, op>> /\ status[k] = "running" /\ op[k] = None
        /\ status' = [status EXCEPT ![k] = "failed"]
        /\ live' = [live EXCEPT ![k] = None]
    BY <1>8 DEF ProbeFails, memory, Free
  <2>2. StoredRecord' = StoredRecord
    BY <2>1, SameRecords
  <2>3. ServedEnv' = [ServedEnv EXCEPT ![k] = None]
    BY <1>1, <2>1, OneServed DEF ChildType
  <2>4. Service!Stop(k)
    BY <2>2, <2>3 DEF Service!Stop
  <2>5. ASSUME NEW j \in Key PROVE Reviewed(j)'
    <3>1. CASE j # k
      BY <1>1, <2>1, <3>1, ReviewedKept DEF ChildType
    <3>2. CASE j = k
      <4>1. Service!MayServe(k)' /\ task[k] = "none"
        BY <1>1, <2>1, <2>2 DEF Service!MayServe, Reviewed, Free, Holds
      <4> QED BY <1>1, <2>1, <3>2, <4>1 DEF Reviewed, Free, Holds, ChildType
    <3> QED BY <3>1, <3>2
  <2> QED BY <2>4, <2>5 DEF AllReviewed, Showing, Service!SNext
<1>9. ASSUME NEW m \in BOOLEAN, NEW ok \in BOOLEAN, SetRootMuted(m, ok) PROVE Goal
  <2>1. CASE ok
    <3>1. /\ UNCHANGED <<specs, status, spec, task, op>>
          /\ live' = [k \in Key |-> IF live[k] = None THEN None ELSE MarksOf(m, spec[k])]
      BY <1>9, <2>1 DEF SetRootMuted, Commit, AppliedToAll
    <3>2. \A j \in Key : live'[j] = None <=> live[j] = None
      BY <1>1, <3>1, ChildRecords, RecordMarks
    <3>3. AllReviewed'
      BY <1>1, <3>1, <3>2, ReviewedKept DEF AllReviewed
    <3>4. StoredRecord' = StoredRecord /\ ServedEnv' = ServedEnv
      BY <3>1, <3>2, SameRecords, SameServed
    <3> QED BY <3>3, <3>4 DEF Showing
  <2>2. CASE ~ok
    BY <1>4, <1>9, <2>2 DEF SetRootMuted, Commit, WriteFails, memory
  <2> QED BY <2>1, <2>2
\* The child takes over a record that the service cannot tell from the stored one.
<1>10. ASSUME NEW k \in Key, NEW rec \in Record, HasChild(k), RowOf(rec) = RowOf(specs[k]),
              specs' = [specs EXCEPT ![k] = rec], spec' = [spec EXCEPT ![k] = rec],
              live' = AppliedTo(k, rec), UNCHANGED <<status, task, op>>
       PROVE Goal
  <2>1. \A j \in Key : RowOf(specs'[j]) = RowOf(specs[j])
    BY <1>1, <1>10 DEF MemoryType
  <2>2. \A j \in Key : live'[j] = None <=> live[j] = None
    BY <1>1, <1>10, RecordMarks DEF AppliedTo, MemoryType, ChildType
  <2>3. rec.env = specs[k].env
    <3>1. specs[k] \in Record
      BY <1>1, <1>10, ChildRecords
    <3> QED BY <1>10, <3>1, RowFields
  <2>4. \A j \in Key : live[j] # None => spec'[j].env = spec[j].env
    BY <1>1, <1>3, <1>10, <2>3 DEF ChildType
  <2>5. AllReviewed'
    BY <1>1, <1>10, <2>1, <2>2, ReviewedKept DEF AllReviewed
  <2>6. StoredRecord' = StoredRecord /\ ServedEnv' = ServedEnv
    BY <2>1, <2>2, <2>4, SameRecords, SameServed
  <2> QED BY <2>5, <2>6 DEF Showing
<1>11. ASSUME NEW k \in Key, NEW rec \in Record, NEW ok \in BOOLEAN, SetVisibility(k, rec, ok),
              RowOf(rec) = RowOf(specs[k])
       PROVE Goal
  <2>1. CASE ok
    <3>1. specs' = [specs EXCEPT ![k] = rec]
      BY <1>1, <1>11, <2>1, CommitRecordType DEF SetVisibility
    <3> QED BY <1>10, <1>11, <2>1, <3>1 DEF SetVisibility
  <2>2. CASE ~ok
    <3>1. UNCHANGED specs
      BY <1>1, <1>11, <2>2, CommitRecordType DEF SetVisibility, memory
    <3> QED BY <1>4, <1>11, <2>2, <3>1 DEF SetVisibility
  <2> QED BY <2>1, <2>2
<1>12. ASSUME NEW k \in Key, NEW m \in BOOLEAN, NEW ok \in BOOLEAN, SetMuted(k, m, ok)
       PROVE Goal
  <2> DEFINE rec == [specs[k] EXCEPT !.muted = m]
  <2>1. specs[k] \in Record
    BY <1>12, <1>1, ChildRecords DEF SetMuted
  <2>2. /\ rec \in Record /\ rec.env = specs[k].env
        /\ rec.enabled = specs[k].enabled /\ rec.approved = specs[k].approved
    BY <2>1 DEF Record
  <2>3. SetVisibility(k, rec, ok)
    BY <1>12 DEF SetMuted
  <2> HIDE DEF rec
  <2>4. RowOf(rec) = RowOf(specs[k])
    BY <2>1, <2>2, RecordFields DEF RowOf
  <2> QED BY <1>11, <2>2, <2>3, <2>4
<1>13. ASSUME NEW k \in Key, NEW t \in Name, NEW m \in BOOLEAN, NEW ok \in BOOLEAN,
              SetToolMuted(k, t, m, ok)
       PROVE Goal
  <2>1. specs[k] \in Record /\ specs[k].hidden \in SUBSET Name /\ HasChild(k)
    BY <1>13, <1>1, ChildRecords, RecordFields DEF SetToolMuted
  <2>2. CASE (t \in specs[k].hidden) = m
    <3>1. /\ UNCHANGED <<specs, status, task, op>> /\ spec' = [spec EXCEPT ![k] = specs[k]]
          /\ live' = AppliedTo(k, specs[k])
      BY <1>13, <2>2 DEF SetToolMuted, memory
    <3>2. specs' = [specs EXCEPT ![k] = specs[k]]
      BY <1>1, <3>1 DEF MemoryType
    <3> QED BY <1>10, <2>1, <3>1, <3>2
  <2>3. CASE (t \in specs[k].hidden) # m
    <3> DEFINE rec == [specs[k] EXCEPT !.hidden = Toggled(specs[k].hidden, t, m)]
    <3>1. Toggled(specs[k].hidden, t, m) \in SUBSET Name
      BY <2>1 DEF Toggled
    <3>2. /\ rec \in Record /\ rec.env = specs[k].env
          /\ rec.enabled = specs[k].enabled /\ rec.approved = specs[k].approved
      BY <2>1, <3>1 DEF Record
    <3>3. SetVisibility(k, rec, ok)
      BY <1>13, <2>3 DEF SetToolMuted
    <3> HIDE DEF rec
    <3>4. RowOf(rec) = RowOf(specs[k])
      BY <2>1, <3>2, RecordFields DEF RowOf
    <3> QED BY <1>11, <3>2, <3>3, <3>4
  <2> QED BY <2>2, <2>3
<1>14. ASSUME NEW ok \in BOOLEAN, NEW m \in BOOLEAN,
              \/ SetAdminMuted(m, ok)
              \/ \E t \in AdminTool : SetAdminToolMuted(t, m, ok)
              \/ \E r \in RulePool : AddRule(r, ok) \/ RemoveRule(r, ok)
       PROVE Goal
  <2>1. UNCHANGED <<specs, status, spec, task, live, op>>
    BY <1>14 DEF SetAdminMuted, SetAdminToolMuted, SetBuiltin, AddRule, RemoveRule,
       Commit, WriteFails, memory, child
  <2> QED BY <1>4, <2>1
<1>15. ASSUME NEW k \in Key, NEW env \in Env, NEW enabled \in BOOLEAN, NEW done \in 0..3,
              Add(k, env, enabled, done)
       PROVE Goal
  <2>1. CASE done = 3
    <3> DEFINE rec == NewRecord(env, enabled)
    <3>1. rec \in Record /\ rec.env = env /\ rec.enabled = enabled /\ rec.approved = None
      BY RecordMarks DEF NewRecord
    <3>2. /\ specs[k] = None /\ ~HasChild(k) /\ op[k] = None
          /\ CommitRecord(k, rec, TRUE) /\ StartsOrStops(k) /\ UNCHANGED <<live, op>>
      BY <1>15, <2>1 DEF Add, Free
    <3> HIDE DEF rec
    <3>3. specs' = [specs EXCEPT ![k] = rec]
      BY <1>1, <3>1, <3>2, CommitRecordType
    <3>4. RowOf(rec) = [rev |-> env, approved |-> None, enabled |-> enabled]
      BY <3>1, RecordFields DEF RowOf
    <3>5. live[k] = None
      BY <1>1, <3>2, ChildRecords
    <3>6. \A j \in Key : j # k => /\ specs'[j] = specs[j] /\ spec'[j] = spec[j]
                                  /\ status'[j] = status[j] /\ task'[j] = task[j]
      BY <1>1, <3>2, <3>3 DEF StartsOrStops, Starts, Stops, MemoryType, ChildType
    <3>7. ServedEnv' = ServedEnv
      BY <3>2, <3>5, <3>6, SameServed
    <3>8. StoredRecord' = [StoredRecord EXCEPT ![k] = RowOf(rec)]
      BY <1>1, <3>3, OneRecord DEF MemoryType
    <3>9. StoredRecord[k] = None
      BY <3>2 DEF StoredRecord
    <3>10. Service!Register(k)
      BY <3>4, <3>7, <3>8, <3>9 DEF Service!Register
    <3>11. ASSUME NEW j \in Key PROVE Reviewed(j)'
      <4>1. CASE j # k
        BY <1>1, <3>2, <3>6, <4>1, ReviewedKept
      <4>2. specs'[k] \in Record
        BY <1>1, <3>1, <3>3 DEF MemoryType
      <4>3. CASE j = k
        BY <1>1, <3>2, <3>5, <4>2, <4>3, GateReviews
      <4> QED BY <4>1, <4>3
    <3> QED BY <3>10, <3>11 DEF AllReviewed, Showing, Service!SNext
  <2>2. CASE done # 3
    BY <1>4, <1>15, <2>2 DEF Add, memory
  <2> QED BY <2>1, <2>2
<1>16. ASSUME NEW k \in Key, NEW env \in Env, NEW enabled \in BOOLEAN, NEW ok \in BOOLEAN,
              BeginUpdate(k, env, enabled, ok)
       PROVE Goal
  <2> DEFINE rec == Merged(k, env, enabled)
  <2>1. specs[k] \in Record
    BY <1>1, <1>16, ChildRecords DEF BeginUpdate
  <2>2. /\ rec \in Record /\ rec.env = env /\ rec.enabled = enabled
        /\ rec.approved = specs[k].approved
    BY <2>1 DEF Merged, Record
  <2>3. CommitRecord(k, rec, ok) /\ UNCHANGED <<status, spec>>
    BY <1>16 DEF BeginUpdate
  <2> HIDE DEF rec
  <2>4. CASE ok
    <3>1. specs' = [specs EXCEPT ![k] = rec]
      BY <1>1, <2>2, <2>3, <2>4, CommitRecordType
    <3>2. /\ live' = [live EXCEPT ![k] = None] /\ task' = [task EXCEPT ![k] = "none"]
          /\ op' = [op EXCEPT ![k] = [kind |-> "update", version |-> 0]]
      BY <1>16, <2>4 DEF BeginUpdate, Unpublishes, Takes
    <3>3. [kind |-> "update", version |-> 0] # None
      BY StoresAssumption DEF Operation
    <3>4. StoredRecord' = [StoredRecord EXCEPT ![k] = RowOf(rec)]
      BY <1>1, <3>1, OneRecord DEF MemoryType
    <3>5. /\ StoredRecord[k] # None
          /\ RowOf(rec) = [rev |-> env, approved |-> StoredRecord[k].approved,
                           enabled |-> enabled]
      <4>1. RowOf(rec) = [rev |-> rec.env, approved |-> rec.approved, enabled |-> rec.enabled]
        BY <2>2, RecordFields DEF RowOf
      <4>2. StoredRecord[k] # None /\ StoredRecord[k].approved = specs[k].approved
        BY <2>1, RowFields
      <4> QED BY <2>2, <4>1, <4>2
    <3>6. ServedEnv' = [ServedEnv EXCEPT ![k] = None]
      BY <1>1, <2>3, <3>2, OneServed DEF ChildType
    <3>7. Service!Edit(k)
      BY <3>4, <3>5, <3>6 DEF Service!Edit
    <3>8. ASSUME NEW j \in Key PROVE Reviewed(j)'
      <4>1. CASE j # k
        BY <1>1, <2>3, <3>1, <3>2, <4>1, ReviewedKept DEF MemoryType, ChildType
      <4>2. CASE j = k
        BY <1>1, <3>2, <3>3, <4>2 DEF Reviewed, Holds, ChildType
      <4> QED BY <4>1, <4>2
    <3> QED BY <3>7, <3>8 DEF AllReviewed, Showing, Service!SNext
  <2>5. CASE ~ok
    <3>1. UNCHANGED specs
      BY <1>1, <2>2, <2>3, <2>5, CommitRecordType DEF memory
    <3> QED BY <1>4, <1>16, <2>3, <2>5, <3>1 DEF BeginUpdate
  <2> QED BY <2>4, <2>5
<1>17. ASSUME NEW k \in Key, FinishUpdate(k) PROVE Goal
  <2>1. /\ UNCHANGED <<specs, live>> /\ op[k] # None
        /\ op' = [op EXCEPT ![k] = None] /\ StartsOrStops(k)
    BY <1>17 DEF FinishUpdate, Holds, Releases, memory
  <2>2. live[k] = None /\ HasChild(k) /\ specs'[k] \in Record
    BY <1>1, <1>17, <2>1, ChildRecords DEF Beside, FinishUpdate, Holds
  <2>3. \A j \in Key : j # k => /\ spec'[j] = spec[j] /\ status'[j] = status[j]
                                /\ task'[j] = task[j] /\ op'[j] = op[j]
    BY <1>1, <2>1 DEF StartsOrStops, Starts, Stops, ChildType
  <2>4. StoredRecord' = StoredRecord /\ ServedEnv' = ServedEnv
    BY <2>1, <2>2, <2>3, SameRecords, SameServed
  <2>5. ASSUME NEW j \in Key PROVE Reviewed(j)'
    <3>1. CASE j # k
      BY <1>1, <2>1, <2>3, <3>1, ReviewedKept
    <3>2. CASE j = k
      BY <1>1, <2>1, <2>2, <3>2, GateReviews DEF ChildType
    <3> QED BY <3>1, <3>2
  <2> QED BY <2>4, <2>5 DEF AllReviewed, Showing
<1>18. ASSUME NEW k \in Key, NEW ok \in BOOLEAN, Approve(k, ok) PROVE Goal
  <2> DEFINE rec == [specs[k] EXCEPT !.approved = specs[k].env]
  <2>1. HasChild(k) /\ op[k] = None /\ specs[k] \in Record
    BY <1>1, <1>18, ChildRecords DEF Approve, Free
  <2>2. /\ rec \in Record /\ rec.env = specs[k].env /\ rec.enabled = specs[k].enabled
        /\ rec.approved = specs[k].env
    BY <2>1 DEF Record
  <2>3. CommitRecord(k, rec, ok) /\ UNCHANGED <<live, op>>
    BY <1>18 DEF Approve
  <2> HIDE DEF rec
  <2>4. CASE ok
    <3>1. specs' = [specs EXCEPT ![k] = rec]
      BY <1>1, <2>2, <2>3, <2>4, CommitRecordType
    <3>2. specs'[k] = rec
      BY <1>1, <3>1 DEF MemoryType
    <3>3. \/ Starts(k) /\ rec.enabled /\ status[k] = "stopped"
          \/ spec' = [spec EXCEPT ![k] = rec] /\ UNCHANGED <<status, task>>
      BY <1>18, <2>4, <3>2 DEF Approve
    <3>4. \A j \in Key : j # k => /\ specs'[j] = specs[j] /\ spec'[j] = spec[j]
                                  /\ status'[j] = status[j] /\ task'[j] = task[j]
      BY <1>1, <3>1, <3>3 DEF Starts, MemoryType, ChildType
    <3>5. spec'[k] = rec
      BY <1>1, <3>2, <3>3 DEF Starts, ChildType
    <3>6. ServedEnv' = ServedEnv
      BY <1>3, <2>2, <2>3, <3>4, <3>5, SameServed
    <3>7. StoredRecord' = [StoredRecord EXCEPT ![k] = RowOf(rec)]
      BY <1>1, <3>1, OneRecord DEF MemoryType
    <3>8. /\ StoredRecord[k] # None
          /\ RowOf(rec) = [rev |-> StoredRecord[k].rev, approved |-> StoredRecord[k].rev,
                           enabled |-> StoredRecord[k].enabled]
      <4>1. RowOf(rec) = [rev |-> rec.env, approved |-> rec.approved, enabled |-> rec.enabled]
        BY <2>2, RecordFields DEF RowOf
      <4>2. /\ StoredRecord[k] # None /\ StoredRecord[k].rev = specs[k].env
            /\ StoredRecord[k].enabled = specs[k].enabled
        BY <2>1, RowFields
      <4> QED BY <2>2, <4>1, <4>2
    <3>9. Service!Review(k)
      BY <3>6, <3>7, <3>8 DEF Service!Review
    <3>10. ASSUME NEW j \in Key PROVE Reviewed(j)'
      <4>1. CASE j # k
        BY <1>1, <2>3, <3>4, <4>1, ReviewedKept
      <4>2. CASE j = k
        <5>1. Service!MayServe(k)' <=> rec.enabled
          BY <2>2, <3>2, MayServeRecord DEF Approved
        <5>2. Service!MayServe(k) => rec.enabled
          BY <2>1, <2>2, MayServeRecord
        <5>3. CASE Starts(k) /\ rec.enabled /\ status[k] = "stopped"
          <6>1. status'[k] = "starting" /\ op'[k] = None /\ live'[k] = None
            BY <1>1, <2>1, <2>3, <5>3 DEF Starts, ChildType, Reviewed
          <6> QED BY <4>2, <5>1, <5>3, <6>1 DEF Reviewed, Free, Holds
        <5>4. CASE UNCHANGED <<status, task>>
          BY <1>1, <2>1, <2>3, <4>2, <5>1, <5>2, <5>4 DEF Reviewed, Free, Holds
        <5> QED BY <3>3, <5>3, <5>4
      <4> QED BY <4>1, <4>2
    <3> QED BY <3>9, <3>10 DEF AllReviewed, Showing, Service!SNext
  <2>5. CASE ~ok
    <3>1. UNCHANGED specs
      BY <1>1, <2>2, <2>3, <2>5, CommitRecordType DEF memory
    <3> QED BY <1>4, <1>18, <2>3, <2>5, <3>1 DEF Approve
  <2> QED BY <2>4, <2>5
<1>19. ASSUME NEW k \in Key, NEW v \in pending[k] \cup {0}, BeginRestart(k, v) PROVE Goal
  <2>1. /\ UNCHANGED <<specs, status, spec>> /\ op[k] = None
        /\ status[k] \in {"running", "failed"}
        /\ live' = [live EXCEPT ![k] = None] /\ task' = [task EXCEPT ![k] = "none"]
        /\ op' = [op EXCEPT ![k] = [kind |-> "restart", version |-> v]]
    BY <1>19 DEF BeginRestart, Unpublishes, Takes, Free, memory
  <2>2. StoredRecord' = StoredRecord
    BY <2>1, SameRecords
  <2>3. ServedEnv' = [ServedEnv EXCEPT ![k] = None]
    BY <1>1, <2>1, OneServed DEF ChildType
  <2>4. Service!Stop(k)
    BY <2>2, <2>3 DEF Service!Stop
  <2>5. ASSUME NEW j \in Key PROVE Reviewed(j)'
    <3>1. CASE j # k
      BY <1>1, <2>1, <3>1, ReviewedKept DEF ChildType
    <3>2. CASE j = k
      <4>1. Service!MayServe(k)'
        BY <1>1, <2>1, <2>2 DEF Service!MayServe, Reviewed, Holds
      <4> QED BY <1>1, <2>1, <3>2, <4>1 DEF Reviewed, Holds, ChildType
    <3> QED BY <3>1, <3>2
  <2> QED BY <2>4, <2>5 DEF AllReviewed, Showing, Service!SNext
<1>20. ASSUME NEW k \in Key, FinishRestart(k) PROVE Goal
  <2>1. /\ UNCHANGED <<specs, live>> /\ op[k] # None /\ Holds(k, "restart")
        /\ op' = [op EXCEPT ![k] = None] /\ op[k].kind = "restart"
        /\ \/ Starts(k)
           \/ /\ status' = [status EXCEPT ![k] = "stopped"] /\ UNCHANGED <<spec, task>>
    BY <1>20 DEF FinishRestart, Holds, Releases, memory
  <2>2. live[k] = None /\ task[k] = "none" /\ Service!MayServe(k)
    BY <1>1, <2>1 DEF Beside, Reviewed, Holds
  <2>3. \A j \in Key : j # k => /\ spec'[j] = spec[j] /\ status'[j] = status[j]
                                /\ task'[j] = task[j] /\ op'[j] = op[j]
    BY <1>1, <2>1 DEF Starts, ChildType
  <2>4. StoredRecord' = StoredRecord /\ ServedEnv' = ServedEnv
    BY <2>1, <2>2, <2>3, SameRecords, SameServed
  <2>5. ASSUME NEW j \in Key PROVE Reviewed(j)'
    <3>1. CASE j # k
      BY <1>1, <2>1, <2>3, <3>1, ReviewedKept
    <3>2. CASE j = k
      <4>1. Service!MayServe(k)'
        BY <2>2, <2>4 DEF Service!MayServe
      <4>2. status'[k] = "starting" \/ (status'[k] = "stopped" /\ task'[k] = "none")
        BY <1>1, <2>1, <2>2 DEF Starts, ChildType
      <4> QED BY <1>1, <2>1, <2>2, <3>2, <4>1, <4>2 DEF Reviewed, Free, Holds, ChildType
    <3> QED BY <3>1, <3>2
  <2> QED BY <2>4, <2>5 DEF AllReviewed, Showing
<1>21. ASSUME NEW k \in Key, NEW ok \in BOOLEAN, BeginRemove(k, ok) PROVE Goal
  <2>1. CASE ok
    <3>1. /\ specs' = [specs EXCEPT ![k] = None] /\ specs[k] \in Record
      BY <1>1, <1>21, <2>1, CommitRecordType, ChildRecords DEF BeginRemove
    <3>2. /\ UNCHANGED spec /\ status' = [status EXCEPT ![k] = "absent"]
          /\ live' = [live EXCEPT ![k] = None] /\ task' = [task EXCEPT ![k] = "none"]
          /\ op' = [op EXCEPT ![k] = [kind |-> "remove", version |-> 0]]
      BY <1>21, <2>1 DEF BeginRemove, Unpublishes, Takes
    <3>3. StoredRecord' = [StoredRecord EXCEPT ![k] = None] /\ StoredRecord[k] # None
      <4>1. StoredRecord' = [StoredRecord EXCEPT ![k] = RowOf(None)]
        BY <1>1, <3>1, OneRecord DEF MemoryType
      <4>2. RowOf(None) = None /\ StoredRecord[k] # None
        BY <3>1, RowFields
      <4> QED BY <4>1, <4>2
    <3>4. ServedEnv' = [ServedEnv EXCEPT ![k] = None]
      BY <1>1, <3>2, OneServed DEF ChildType
    <3>5. Service!Delete(k)
      BY <3>3, <3>4 DEF Service!Delete
    <3>6. ASSUME NEW j \in Key PROVE Reviewed(j)'
      <4>1. CASE j # k
        BY <1>1, <3>1, <3>2, <4>1, ReviewedKept DEF MemoryType, ChildType
      <4>2. CASE j = k
        BY <1>1, <3>2, <4>2 DEF Reviewed, Holds, ChildType
      <4> QED BY <4>1, <4>2
    <3> QED BY <3>5, <3>6 DEF AllReviewed, Showing, Service!SNext
  <2>2. CASE ~ok
    <3>1. UNCHANGED specs
      BY <1>1, <1>21, <2>2, CommitRecordType DEF BeginRemove, memory
    <3> QED BY <1>4, <1>21, <2>2, <3>1 DEF BeginRemove
  <2> QED BY <2>1, <2>2
<1>22. ASSUME NEW k \in Key, NEW done \in 0..3, FinishRemove(k, done) PROVE Goal
  <2>1. /\ UNCHANGED <<specs, status, spec, task, live>> /\ Holds(k, "remove")
        /\ op' = [op EXCEPT ![k] = None]
    BY <1>22 DEF FinishRemove, Releases, memory
  <2>2. status[k] = "absent" /\ task[k] = "none" /\ live[k] = None
    BY <1>1, <2>1 DEF Holds, Beside, HasChild
  <2>3. StoredRecord' = StoredRecord /\ ServedEnv' = ServedEnv
    BY <2>1, SameRecords, SameServed
  <2>4. ASSUME NEW j \in Key PROVE Reviewed(j)'
    <3>1. CASE j # k
      BY <1>1, <2>1, <3>1, ReviewedKept DEF ChildType
    <3>2. CASE j = k
      BY <1>1, <2>1, <2>2, <3>2 DEF Reviewed, Holds, ChildType
    <3> QED BY <3>1, <3>2
  <2> QED BY <2>3, <2>4 DEF AllReviewed, Showing
<1>23. ASSUME Crash PROVE Goal
  <2>1. specs' = specs
    BY <1>1, <1>23 DEF Crash, MemoryIsDisk
  <2>2. live' = [k \in Key |-> None] /\ op' = [k \in Key |-> None]
    BY <1>23 DEF Crash
  <2>3. StoredRecord' = StoredRecord
    BY <2>1, SameRecords
  <2>4. ServedEnv' = [k \in Key |-> None]
    BY <2>2 DEF ServedEnv
  <2>5. Service!StopAll
    BY <2>3, <2>4 DEF Service!StopAll
  <2>6. ASSUME NEW j \in Key PROVE Reviewed(j)'
    <3>1. /\ status'[j] = AfterLoad(j) /\ LoadedSpecs[j] = specs[j]
          /\ task'[j] = IF AfterLoad(j) = "starting" THEN "new" ELSE "none"
          /\ specs[j] \in Record \cup {None}
      BY <1>1, <1>23 DEF Crash, MemoryIsDisk, MemoryType
    <3>2. status'[j] \in {"absent", "stopped", "starting"}
      BY <3>1 DEF AfterLoad
    <3>3. status'[j] = "starting" => Service!MayServe(j)'
      <4>1. SUFFICES ASSUME status'[j] = "starting" PROVE Service!MayServe(j)'
        OBVIOUS
      <4>2. specs[j] # None /\ specs[j].enabled /\ Approved(j, specs[j])
        BY <3>1, <4>1 DEF AfterLoad
      <4> QED BY <2>1, <3>1, <4>2, MayServeRecord
    <3> QED BY <2>2, <3>1, <3>2, <3>3 DEF Reviewed, Free, Holds
  <2> QED BY <2>5, <2>6 DEF AllReviewed, Showing, Service!SNext
<1>24. CASE \E ok \in Outcomes : Mutes(ok) \/ \E r \in RulePool : AddRule(r, ok) \/ RemoveRule(r, ok)
  <2>1. PICK ok \in BOOLEAN :
          Mutes(ok) \/ \E r \in RulePool : AddRule(r, ok) \/ RemoveRule(r, ok)
    BY <1>24 DEF Outcomes
  <2>2. CASE Mutes(ok)
    BY <1>9, <1>12, <1>13, <1>14, <2>2 DEF Mutes
  <2>3. CASE \E r \in RulePool : AddRule(r, ok) \/ RemoveRule(r, ok)
    BY <1>14, <2>3
  <2> QED BY <2>1, <2>2, <2>3
<1>25. CASE Adds
  BY <1>15, <1>25 DEF Adds
<1>26. CASE \E ok \in Outcomes : Edits(ok)
  <2>1. PICK ok \in BOOLEAN : Edits(ok)
    BY <1>26 DEF Outcomes
  <2> QED BY <1>16, <1>18, <1>21, <2>1 DEF Edits
<1>27. CASE Continues
  <2>1. ASSUME NEW k \in Key, \/ ReadSource(k) \/ WriteSource(k)
                              \/ \E v \in pending[k] \cup {0} : RestartRefused(k, v)
        PROVE Goal
    BY <1>4, <2>1 DEF ReadSource, WriteSource, RestartRefused, memory, child
  <2> QED BY <1>5, <1>6, <1>7, <1>8, <1>17, <1>19, <1>20, <1>22, <1>27, <2>1 DEF Continues
<1> QED BY <1>23, <1>24, <1>25, <1>26, <1>27 DEF StoresNext, Works

\* Before the first step what runs was reviewed.
LEMMA ServiceInitial == StoresInit => AllReviewed /\ Service!SInit
<1> SUFFICES ASSUME StoresInit PROVE AllReviewed /\ Service!SInit
  OBVIOUS
<1>1. PICK s \in Scenario : Started(s.boot)
  BY DEF StoresInit
<1>2. StoresTypeOK /\ MemoryType /\ ChildType
  BY StoresInitial, TypeParts DEF StoresInv
<1>3. /\ specs = spec /\ task = [k \in Key |-> "none"] /\ op = [k \in Key |-> None]
      /\ status = [k \in Key |-> IF specs[k] = None THEN "absent"
                                 ELSE IF specs[k].enabled /\ Approved(k, specs[k])
                                 THEN "running" ELSE "stopped"]
      /\ live = [k \in Key |-> IF status[k] = "running" THEN MarksOf(FALSE, specs[k]) ELSE None]
  BY <1>1 DEF Started
<1>4. ASSUME NEW k \in Key
      PROVE  /\ status[k] \in {"absent", "stopped", "running"}
             /\ status[k] = "running" => Service!MayServe(k) /\ specs[k] \in Record
             /\ live[k] # None => status[k] = "running"
  <2>1. specs[k] \in Record \cup {None}
    BY <1>2 DEF MemoryType
  <2> QED BY <1>3, <2>1, MayServeRecord
<1>5. AllReviewed
  BY <1>3, <1>4 DEF AllReviewed, Reviewed, Free, Holds
<1>6. StoredRecord \in [Key -> Service!SRecord \cup {None}]
  <2>1. \A k \in Key : RowOf(specs[k]) \in Service!SRecord \cup {None}
    <3>1. \A k \in Key : specs[k] \in Record \cup {None}
      BY <1>2 DEF MemoryType
    <3> QED BY <3>1, RowFields
  <2>2. StoredRecord = [k \in Key |-> RowOf(specs[k])]
    BY DEF StoredRecord, RowOf
  <2> HIDE DEF RowOf
  <2> QED BY <2>1, <2>2
<1>7. ASSUME NEW k \in Key, ServedEnv[k] # None
      PROVE  Service!MayServe(k) /\ ServedEnv[k] = StoredRecord[k].rev /\ ServedEnv[k] \in Env
  <2>1. live[k] # None /\ ServedEnv[k] = spec[k].env
    BY <1>7 DEF ServedEnv
  <2>2. Service!MayServe(k) /\ specs[k] \in Record
    BY <1>4, <2>1
  <2>3. StoredRecord[k].rev = specs[k].env
    BY <2>2, RowFields
  <2>4. specs[k].env \in Env
    BY <2>2, RecordFields, Zenon
  <2> QED BY <1>3, <2>1, <2>2, <2>3, <2>4
<1>8. ServedEnv \in [Key -> Env \cup {None}]
  BY <1>7 DEF ServedEnv
<1> QED BY <1>5, <1>6, <1>7, <1>8 DEF Service!SInit, Service!ServedIsReviewed

\* What the mounted transforms serve is the stored revision, enabled and approved.
LEMMA ReviewedServed ==
  ASSUME StoresInv, AllReviewed
  PROVE  Service!ServedIsReviewed
<1> SUFFICES ASSUME NEW k \in Key, ServedEnv[k] # None
             PROVE  Service!MayServe(k) /\ ServedEnv[k] = StoredRecord[k].rev
  BY DEF Service!ServedIsReviewed
<1>1. live[k] # None /\ ServedEnv[k] = spec[k].env
  BY DEF ServedEnv
<1>2. status[k] = "running" /\ Service!MayServe(k) /\ ~Holds(k, "update") /\ HasChild(k)
  BY <1>1 DEF AllReviewed, Reviewed, Free, Holds, HasChild
<1>3. specs[k] \in Record /\ spec[k].env = specs[k].env
  BY <1>2, ChildRecords DEF StoresInv, LogsMatch, LogMatches
<1>4. StoredRecord[k].rev = specs[k].env
  BY <1>3, RowFields
<1> QED BY <1>1, <1>2, <1>3, <1>4

\* A step that has no part in the stores shows nothing.
LEMMA ServiceFrame ==
  ASSUME AllReviewed, UNCHANGED <<memory, child>>
  PROVE  AllReviewed' /\ UNCHANGED <<StoredRecord, ServedEnv>>
<1>1. UNCHANGED <<specs, status, spec, task, live, op>>
  BY DEF memory, child
<1>2. AllReviewed'
  BY <1>1, ReviewedKept DEF AllReviewed
<1> QED BY <1>1, <1>2, SameRecords, SameServed

\* Whatever write fails and whenever the process dies, the stores serve nothing but reviewed
\* records: each step of theirs is a step of the abstract service or cannot be seen there.
THEOREM StoresImplement == StoresSpec => ImplementsService
<1> DEFINE J == StoresInv /\ AllReviewed
<1>1. StoresInit => J /\ Service!SInit
  BY StoresInitial, ServiceInitial
<1>2. J /\ [StoresNext]_svars => J' /\ [Service!SNext]_(Service!svars)
  <2> SUFFICES ASSUME J, [StoresNext]_svars PROVE J' /\ [Service!SNext]_(Service!svars)
    OBVIOUS
  <2>1. CASE StoresNext
    BY <2>1, StoresStep, ServiceStep DEF Showing, Service!svars
  <2>2. CASE UNCHANGED svars
    <3>1. left' \in [Budget -> Nat]
      BY <2>2 DEF svars, StoresInv, StoresTypeOK
    <3>2. StoresInv'
      BY <2>2, <3>1, StoresFrame DEF svars
    <3> QED BY <2>2, <3>2, ServiceFrame DEF svars, Service!svars
  <2> QED BY <2>1, <2>2
<1> HIDE DEF J
<1> QED BY <1>1, <1>2, PTL DEF StoresSpec, ImplementsService, Service!SSpec

-----------------------------------------------------------------------------
(* What follows from it.                                                   *)

\* The three views of the visibility policy agree.
LEMMA MarksFollow == StoresInv => MarksAgree
<1> SUFFICES ASSUME StoresInv PROVE MarksAgree
  OBVIOUS
<1>1. /\ StoresTypeOK /\ ChildrenBeside /\ MemoryType
      /\ \A k \in Key : Beside(k)
      /\ builtinLive = BuiltinMarks(builtin)
  BY TypeParts DEF StoresInv, ChildrenBeside
<1>2. ASSUME NEW k \in Key, live[k] # None
      PROVE  /\ HasChild(k) /\ specs[k] # None
             /\ \A t \in Name :
                  /\ RowMark(k, t) = Visible(FALSE, live[k], t)
                  /\ RowMark(k, t)
                       = (~rootMuted /\ ~specs[k].muted /\ t \notin specs[k].hidden)
  <2>1. /\ HasChild(k) /\ specs[k] # None /\ live[k] = MarksOf(rootMuted, spec[k])
        /\ spec[k].muted = specs[k].muted /\ spec[k].hidden = specs[k].hidden
        /\ specs[k].muted \in BOOLEAN /\ rootMuted \in BOOLEAN
    <3>1. HasChild(k) /\ specs[k] \in Record
      BY <1>1, <1>2, ChildRecords
    <3> QED BY <1>1, <1>2, <3>1, RecordFields DEF Beside, MemoryType
  <2>2. ASSUME NEW t \in Name
        PROVE  Visible(FALSE, MarksOf(rootMuted, spec[k]), t)
                 = (~rootMuted /\ ~specs[k].muted /\ t \notin specs[k].hidden)
    BY <2>1 DEF Visible, MarksOf, Resolved
  <2> QED BY <2>1, <2>2 DEF RowMark
<1>3. ASSUME NEW t \in AdminTool
      PROVE  /\ BuiltinRowMark(t) = BuiltinServes(t)
             /\ BuiltinServes(t) = (t \in Pinned \/ (~builtin.muted /\ t \notin builtin.hidden))
  BY <1>1 DEF BuiltinRowMark, BuiltinServes, Visible, BuiltinMarks, Resolved, MemoryType, Builtin
<1> QED BY <1>2, <1>3 DEF MarksAgree

\* A write that was answered is served.
LEMMA ServesFollow == StoresInv => RestartServesWrite
BY DEF StoresInv, SourcesServe, SourceServes, RestartServesWrite
=============================================================================
