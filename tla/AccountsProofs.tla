--------------------------- MODULE AccountsProofs ---------------------------
(***************************************************************************)
(* Theorems about Accounts, for any number of requests, tokens, lives,     *)
(* credentials, rules and mishaps.                                         *)
(*                                                                         *)
(* What makes the properties inductive: the credential of a user is the    *)
(* last one made, a request knows no later one and no later incarnation,   *)
(* and a key is taken down only after its record.                          *)
(***************************************************************************)
EXTENDS Accounts, TLAPS

-----------------------------------------------------------------------------
(* The inductive invariant.                                                *)

\* Credentials never repeat: that of a user was made last.
CredentialIsLast == user.exists => user.cred = made

\* What a request read and proved lies in the past, in that order.
ProofInOrder(c) ==
  /\ c.seen # None => c.seen <= made
  /\ c.pc = "verify" => c.seen # None
  /\ c.pc = "answer" =>
       c.seen # None /\ c.proved # None /\ c.seen <= c.proved /\ c.proved <= made

\* A snapshot of the present incarnation is one of this life.
SnapshotInOrder(c) ==
  /\ c.pc = "admitted" => c.incarnation # None
  /\ c.incarnation # None => incarnation # None /\ c.incarnation <= incarnation
  /\ c.pc = "admitted" /\ c.job # "tool" /\ c.incarnation = incarnation =>
       c.life = user.life

ProofsInOrder == \A p \in Request : ProofInOrder(call[p])

SnapshotsInOrder ==
  /\ user.exists => incarnation # None
  /\ \A p \in Request : SnapshotInOrder(call[p])

\* A server that is being taken down has no record.
RemovingIsGone == removing => ~disk.server.exists

IInv ==
  /\ TypeOK
  /\ NothingInherited /\ OwnerLives /\ ResetRevokes /\ CookieEarned
  /\ CredentialIsLast /\ ProofsInOrder /\ SnapshotsInOrder /\ RemovingIsGone

-----------------------------------------------------------------------------
(* What the operators compute.                                             *)

\* A sequence of writes ends in one of its states.
LEMMA WritesShape ==
  /\ \A a : Writes(<<a>>) => disk' = a
  /\ \A a, b : Writes(<<a, b>>) => disk' = a \/ disk' = b
  /\ \A a, b, c : Writes(<<a, b, c>>) => disk' = a \/ disk' = b \/ disk' = c
BY DEF Writes

\* The cap on mishaps holds through any write.
LEMMA MishapsCounted ==
  ASSUME mishaps \in 0..MaxMishaps, NEW s, Writes(s)
  PROVE  mishaps' \in 0..MaxMishaps
BY ConstantsAssumption DEF Writes

\* The stores, field by field.
StoresOf(u, g, s, t, r) ==
  [user |-> u, group |-> g, server |-> s, tokens |-> t, rules |-> r]

DiskIs(u, g, s, t, r) == disk' = StoresOf(u, g, s, t, r)

\* An edit of the stores replaces one field of them.
LEMMA DiskEdits ==
  /\ disk \in Disk =>
       /\ disk = StoresOf(user, disk.group, disk.server, disk.tokens, disk.rules)
       /\ \A x :
            /\ [disk EXCEPT !.user = x] =
                  StoresOf(x, disk.group, disk.server, disk.tokens, disk.rules)
            /\ [disk EXCEPT !.group = x] =
                  StoresOf(user, x, disk.server, disk.tokens, disk.rules)
            /\ [disk EXCEPT !.server = x] =
                  StoresOf(user, disk.group, x, disk.tokens, disk.rules)
            /\ [disk EXCEPT !.tokens = x] =
                  StoresOf(user, disk.group, disk.server, x, disk.rules)
            /\ [disk EXCEPT !.rules = x] =
                  StoresOf(user, disk.group, disk.server, disk.tokens, x)
  /\ \A u, g, s, t, r, x :
       /\ [StoresOf(u, g, s, t, r) EXCEPT !.user = x] = StoresOf(x, g, s, t, r)
       /\ [StoresOf(u, g, s, t, r) EXCEPT !.group = x] = StoresOf(u, x, s, t, r)
       /\ [StoresOf(u, g, s, t, r) EXCEPT !.server = x] = StoresOf(u, g, x, t, r)
       /\ [StoresOf(u, g, s, t, r) EXCEPT !.tokens = x] = StoresOf(u, g, s, x, r)
       /\ [StoresOf(u, g, s, t, r) EXCEPT !.rules = x] = StoresOf(u, g, s, t, x)
       /\ StoresOf(u, g, s, t, r).user = u /\ StoresOf(u, g, s, t, r).group = g
       /\ StoresOf(u, g, s, t, r).server = s /\ StoresOf(u, g, s, t, r).tokens = t
       /\ StoresOf(u, g, s, t, r).rules = r
<1>1. ASSUME NEW u, NEW g, NEW s, NEW t, NEW r, NEW x
      PROVE  /\ [StoresOf(u, g, s, t, r) EXCEPT !.user = x] = StoresOf(x, g, s, t, r)
             /\ [StoresOf(u, g, s, t, r) EXCEPT !.group = x] = StoresOf(u, x, s, t, r)
             /\ [StoresOf(u, g, s, t, r) EXCEPT !.server = x] = StoresOf(u, g, x, t, r)
             /\ [StoresOf(u, g, s, t, r) EXCEPT !.tokens = x] = StoresOf(u, g, s, x, r)
             /\ [StoresOf(u, g, s, t, r) EXCEPT !.rules = x] = StoresOf(u, g, s, t, x)
             /\ StoresOf(u, g, s, t, r).user = u /\ StoresOf(u, g, s, t, r).group = g
             /\ StoresOf(u, g, s, t, r).server = s /\ StoresOf(u, g, s, t, r).tokens = t
             /\ StoresOf(u, g, s, t, r).rules = r
  BY DEF StoresOf
<1>2. ASSUME disk \in Disk
      PROVE  disk = StoresOf(user, disk.group, disk.server, disk.tokens, disk.rules)
  BY <1>2 DEF Disk, StoresOf, user
<1>3. ASSUME disk \in Disk, NEW x
      PROVE  /\ [disk EXCEPT !.user = x] =
                   StoresOf(x, disk.group, disk.server, disk.tokens, disk.rules)
             /\ [disk EXCEPT !.group = x] =
                   StoresOf(user, x, disk.server, disk.tokens, disk.rules)
             /\ [disk EXCEPT !.server = x] =
                   StoresOf(user, disk.group, x, disk.tokens, disk.rules)
             /\ [disk EXCEPT !.tokens = x] =
                   StoresOf(user, disk.group, disk.server, x, disk.rules)
             /\ [disk EXCEPT !.rules = x] =
                   StoresOf(user, disk.group, disk.server, disk.tokens, x)
  BY <1>3 DEF Disk, StoresOf, user
<1> QED BY <1>1, <1>2, <1>3

LEMMA DiskFields ==
  ASSUME NEW u \in UserRec, NEW g \in NameRec, NEW s \in ServerRec,
         NEW t \in [Token -> TokenRec \cup {None}], NEW r \in SUBSET RuleRec,
         DiskIs(u, g, s, t, r)
  PROVE  /\ disk' \in Disk
         /\ disk'.user = u /\ disk'.group = g /\ disk'.server = s
         /\ disk'.tokens = t /\ disk'.rules = r
BY DEF DiskIs, StoresOf, Disk

\* The fields of the stores have their types, and so do the records that replace them.
LEMMA DiskParts ==
  ASSUME disk \in Disk
  PROVE  /\ user \in UserRec /\ disk.group \in NameRec /\ disk.server \in ServerRec
         /\ disk.tokens \in [Token -> TokenRec \cup {None}] /\ disk.rules \in SUBSET RuleRec
         /\ NoTokens \in [Token -> TokenRec \cup {None}]
         /\ \A s : WithoutSubject(s) \in SUBSET disk.rules
         /\ WithoutServer \in SUBSET disk.rules
BY DEF Disk, user, NoTokens, WithoutSubject, WithoutServer

LEMMA UserParts ==
  ASSUME NEW u \in UserRec
  PROVE  /\ u.exists \in BOOLEAN /\ u.active \in BOOLEAN /\ u.admin \in BOOLEAN
         /\ u.life \in Life /\ u.cred \in Credential
BY DEF UserRec

LEMMA NameParts ==
  /\ \A g \in NameRec : g.exists \in BOOLEAN /\ g.life \in Life
  /\ \A s \in ServerRec : s.exists \in BOOLEAN /\ s.life \in Life /\ s.owner \in Life
  /\ \A t \in TokenRec : t.admin \in BOOLEAN /\ t.life \in Life /\ t.under \in Credential
  /\ \A r \in RuleRec : /\ r.subject \in {"user", "group"} /\ r.life \in Life
                        /\ r.server \in {"any", "own"} /\ r.serverLife \in Life
BY DEF NameRec, ServerRec, TokenRec, RuleRec

\* A name that may begin a life has one left.
LEMMA LivesLeft ==
  ASSUME disk \in Disk, CanBegin
  PROVE  user.life + 1 \in Life /\ disk.group.life + 1 \in Life /\ disk.server.life + 1 \in Life
<1>1. user.life \in Life /\ disk.group.life \in Life /\ disk.server.life \in Life
  BY DiskParts, UserParts, NameParts
<1> QED BY <1>1, ConstantsAssumption DEF CanBegin, Life

\* The answer of an operation ends the request of a current actor, and no other.
OnlyCurrentAnswered ==
  \A p \in Request : call'[p] = call[p] \/ (RequireCurrent(p) /\ call'[p] = NoCall)

LEMMA NoCallTyped == NoCall \in CallRec /\ NoCall.pc = "idle" /\ NoCall.job = "none"
                     /\ NoCall.seen = None /\ NoCall.incarnation = None
BY ConstantsAssumption DEF NoCall, CallRec, Credential, Life

LEMMA AnswersShape ==
  ASSUME call \in [Request -> CallRec], NEW a \in AccountWriter, Answers(a)
  PROVE  call' \in [Request -> CallRec] /\ OnlyCurrentAnswered
<1>1. CASE a = Root
  BY <1>1 DEF Answers, OnlyCurrentAnswered
<1>2. CASE a # Root
  <2>1. a \in Request /\ RequireCurrent(a)
    BY <1>2 DEF AccountWriter, Writer
  <2>2. call' = [call EXCEPT ![a] = NoCall]
    BY <1>2 DEF Answers, Ends
  <2> QED BY <2>1, <2>2, NoCallTyped DEF OnlyCurrentAnswered
<1> QED BY <1>1, <1>2

-----------------------------------------------------------------------------
(* What a change of the stores preserves.                                  *)

StoresOk ==
  /\ NothingInherited /\ OwnerLives /\ ResetRevokes
  /\ CredentialIsLast /\ RemovingIsGone

\* Credentials and incarnations only move on, an incarnation with each life.
Onward ==
  /\ made' \in Credential /\ made <= made'
  /\ incarnation' \in Nat \cup {None}
  /\ disk'.user.exists => incarnation' # None
  /\ \/ incarnation' = incarnation /\ disk'.user.life = user.life
     \/ incarnation = None /\ incarnation' = 0
     \/ incarnation \in Nat /\ incarnation' = incarnation + 1

\* Losing tokens, rules, names or servers spoils nothing, if the tokens go with a reset.
LEMMA LossIsClean ==
  ASSUME disk \in Disk, disk' \in Disk, NothingInherited, OwnerLives, ResetRevokes,
         disk'.rules \subseteq disk.rules,
         \A t \in Token : disk'.tokens[t] = disk.tokens[t] \/ disk'.tokens[t] = None,
         disk'.user.life = user.life, disk'.user.exists => user.exists,
         disk'.group.life = disk.group.life, disk'.group.exists => disk.group.exists,
         disk'.server.life = disk.server.life, disk'.server.owner = disk.server.owner,
         disk'.server.exists => disk.server.exists /\ disk'.user.exists,
         \/ disk'.user.exists /\ ~disk'.user.active =>
              ~user.active /\ disk'.user.cred = user.cred
         \/ \A t \in Token : disk'.tokens[t] = None
  PROVE  NothingInherited' /\ OwnerLives' /\ ResetRevokes'
<1>1. /\ user \in UserRec /\ disk'.user \in UserRec /\ disk.rules \in SUBSET RuleRec
      /\ user' = disk'.user
  BY DEF Disk, user
<1>2. NothingInherited'
  <2>1. ASSUME user'.exists, NEW t \in Token, disk'.tokens[t] # None
        PROVE  disk'.tokens[t].life = user'.life
    BY <1>1, <2>1 DEF NothingInherited, Held
  <2>2. ASSUME NEW r \in disk'.rules
        PROVE  /\ Subject(r.subject)'.exists => r.life = Subject(r.subject)'.life
               /\ r.server = "own" /\ disk'.server.exists => r.serverLife = disk'.server.life
    <3>1. /\ Subject(r.subject).exists => r.life = Subject(r.subject).life
          /\ r.server = "own" /\ disk.server.exists => r.serverLife = disk.server.life
      BY <2>2 DEF NothingInherited
    <3> QED BY <1>1, <3>1 DEF Subject
  <2> QED BY <2>1, <2>2 DEF NothingInherited, Held
<1>3. OwnerLives'
  BY <1>1 DEF OwnerLives
<1>4. ResetRevokes'
  <2>1. ASSUME user'.exists, ~user'.active, NEW t \in Token, disk'.tokens[t] # None
        PROVE  disk'.tokens[t].under = user'.cred
    BY <1>1, <2>1 DEF ResetRevokes, Held
  <2> QED BY <2>1 DEF ResetRevokes, Held
<1> QED BY <1>2, <1>3, <1>4

\* A rule that goes is not in force before or not in force afterwards.
RulesKept ==
  \A r \in disk.rules \ disk'.rules : ~(InForce(disk, r) /\ InForce(disk', r))

LEMMA CascadesKeepRules ==
  ASSUME \/ disk.rules \subseteq disk'.rules
         \/ disk'.rules = WithoutSubject("user") /\ ~(user.exists /\ disk'.user.exists)
         \/ disk'.rules = WithoutSubject("group") /\ ~(disk.group.exists /\ disk'.group.exists)
              /\ disk.rules \subseteq RuleRec
         \/ disk'.rules = WithoutServer /\ ~(disk.server.exists /\ disk'.server.exists)
  PROVE  RulesKept
BY DEF RulesKept, InForce, WithoutSubject, WithoutServer, user

-----------------------------------------------------------------------------
(* One lemma per operation.                                                *)

OpKeeps == disk' \in Disk /\ StoresOk' /\ Onward

\* A new user starts with nothing: its rules and tokens went before it came.
LEMMA CreateUserKeeps ==
  ASSUME TypeOK, StoresOk, SnapshotsInOrder, NEW a, CreateUser(a)
  PROVE  OpKeeps /\ RulesKept
<1>1. /\ disk \in Disk /\ made \in Credential /\ incarnation \in Nat \cup {None}
      /\ made + 1 \in Credential /\ ~user.exists
      /\ None \notin Nat
  BY ConstantsAssumption DEF TypeOK, CreateUser, Credential
<1>2. user.life + 1 \in Life
  BY <1>1, LivesLeft DEF CreateUser
<1>3. PICK admin \in BOOLEAN : Writes(CreateUserWrites(admin))
  BY DEF CreateUser
<1> DEFINE none == WithoutSubject("user")
<1>4. \/ DiskIs(user, disk.group, disk.server, NoTokens, disk.rules)
      \/ DiskIs(user, disk.group, disk.server, NoTokens, none)
      \/ DiskIs(NewUser(admin), disk.group, disk.server, NoTokens, none)
  <2> DEFINE d1 == StoresOf(user, disk.group, disk.server, NoTokens, disk.rules)
             d2 == StoresOf(user, disk.group, disk.server, NoTokens, none)
             d3 == StoresOf(NewUser(admin), disk.group, disk.server, NoTokens, none)
  <2>1. [disk EXCEPT !.tokens = NoTokens] = d1
    BY <1>1, DiskEdits
  <2>2. [d1 EXCEPT !.rules = none] = d2
    BY DEF StoresOf
  <2>3. [d2 EXCEPT !.user = NewUser(admin)] = d3
    BY DEF StoresOf
  <2>4. Writes(<<d1, d2, d3>>)
    BY <1>3, <2>1, <2>2, <2>3 DEF CreateUserWrites
  <2> QED BY <2>4, WritesShape DEF DiskIs
<1>5. ASSUME NEW r \in {disk.rules, none},
             DiskIs(user, disk.group, disk.server, NoTokens, r)
      PROVE  OpKeeps /\ RulesKept
  <2>1. /\ disk' \in Disk /\ disk'.user = user /\ disk'.group = disk.group
        /\ disk'.server = disk.server /\ disk'.tokens = NoTokens /\ disk'.rules = r
    BY <1>1, <1>5, DiskParts, DiskFields
  <2>2. /\ made' = made /\ incarnation' = incarnation /\ removing' = removing
    BY <1>1, <2>1 DEF CreateUser
  <2>3. ~disk.server.exists
    BY <1>1 DEF StoresOk, OwnerLives
  <2>4. NothingInherited' /\ OwnerLives' /\ ResetRevokes'
    BY <1>1, <1>5, <2>1, <2>3, LossIsClean, DiskParts DEF StoresOk, NoTokens
  <2>5. RulesKept
    BY <1>1, <2>1, CascadesKeepRules
  <2> QED BY <1>1, <2>1, <2>2, <2>4, <2>5
          DEF OpKeeps, StoresOk, Onward, CredentialIsLast, RemovingIsGone, user, Credential
<1>6. ASSUME DiskIs(NewUser(admin), disk.group, disk.server, NoTokens, none)
      PROVE  OpKeeps /\ RulesKept
  <2>1. NewUser(admin) \in UserRec
    BY <1>1, <1>2 DEF NewUser, UserRec
  <2>2. /\ disk' \in Disk /\ disk'.user = NewUser(admin) /\ disk'.group = disk.group
        /\ disk'.server = disk.server /\ disk'.tokens = NoTokens /\ disk'.rules = none
    BY <1>1, <1>6, <2>1, DiskParts, DiskFields
  <2>3. disk'.user.exists /\ disk'.user.life = user.life + 1 /\ disk'.user.cred = made + 1
    BY <2>2 DEF NewUser
  <2>4. /\ made' = made + 1 /\ removing' = removing
        /\ incarnation' = IF incarnation = None THEN 0 ELSE incarnation + 1
    BY <2>3 DEF CreateUser
  <2>5. ~disk.server.exists
    BY <1>1 DEF StoresOk, OwnerLives
  <2>6. NothingInherited'
    <3>1. Held' = {}
      BY <2>2 DEF Held, NoTokens
    <3>2. ASSUME NEW r \in disk'.rules
          PROVE  /\ r.subject = "group"
                 /\ disk.group.exists => r.life = disk.group.life
      BY <1>1, <2>2, <3>2, DiskParts, NameParts DEF StoresOk, NothingInherited, Subject,
         WithoutSubject
    <3> QED BY <2>2, <2>5, <3>1, <3>2 DEF NothingInherited, Subject
  <2>7. OwnerLives' /\ ResetRevokes'
    BY <2>2, <2>5 DEF OwnerLives, ResetRevokes, Held, NoTokens
  <2>8. CredentialIsLast' /\ RemovingIsGone'
    BY <2>2, <2>3, <2>4, <2>5 DEF CredentialIsLast, RemovingIsGone, user
  <2>9. Onward
    BY <1>1, <2>3, <2>4 DEF Onward, Credential
  <2>10. RulesKept
    BY <1>1, <2>2, CascadesKeepRules
  <2> QED BY <2>2, <2>6, <2>7, <2>8, <2>9, <2>10 DEF OpKeeps, StoresOk
<1> QED BY <1>1, <1>4, <1>5, <1>6, DiskParts

\* What becomes of the record of a user.
LEMMA UserGone ==
  ASSUME disk \in Disk
  PROVE  NoUser \in UserRec /\ NoUser.life = user.life /\ NoUser.exists = FALSE
<1>1. user \in UserRec
  BY DiskParts
<1>2. 0 \in Credential
  BY ConstantsAssumption DEF Credential
<1> QED BY <1>1, <1>2 DEF NoUser, UserRec

LEMMA UserReset ==
  ASSUME disk \in Disk, made + 1 \in Credential
  PROVE  /\ Reset \in UserRec /\ Reset.life = user.life /\ Reset.exists = user.exists
         /\ Reset.cred = made + 1
<1>1. user \in UserRec
  BY DiskParts
<1> QED BY <1>1 DEF Reset, UserRec

LEMMA UserRole ==
  ASSUME disk \in Disk
  PROVE  /\ ChangedRole \in UserRec /\ ChangedRole.life = user.life
         /\ ChangedRole.exists = user.exists /\ ChangedRole.cred = user.cred
         /\ ChangedRole.active = user.active
<1>1. user \in UserRec
  BY DiskParts
<1> QED BY <1>1 DEF ChangedRole, UserRec

\* The record goes first, and its owner has no server.
LEMMA DeleteUserKeeps ==
  ASSUME TypeOK, StoresOk, SnapshotsInOrder, NEW a, DeleteUser(a)
  PROVE  OpKeeps /\ RulesKept
<1>1. /\ disk \in Disk /\ made \in Credential /\ incarnation \in Nat \cup {None}
      /\ ~disk.server.exists
      /\ UNCHANGED <<made, incarnation, removing>> /\ Writes(DeleteUserWrites)
  BY DEF TypeOK, DeleteUser, CanDelete
<1> DEFINE none == WithoutSubject("user")
           d1 == StoresOf(NoUser, disk.group, disk.server, disk.tokens, disk.rules)
           d2 == StoresOf(NoUser, disk.group, disk.server, NoTokens, disk.rules)
           d3 == StoresOf(NoUser, disk.group, disk.server, NoTokens, none)
<1>2. Writes(<<d1, d2, d3>>)
  <2>1. [disk EXCEPT !.user = NoUser] = d1
    BY <1>1, DiskEdits
  <2>2. [d1 EXCEPT !.tokens = NoTokens] = d2
    BY DEF StoresOf
  <2>3. [d2 EXCEPT !.rules = none] = d3
    BY DEF StoresOf
  <2> QED BY <1>1, <2>1, <2>2, <2>3 DEF DeleteUserWrites
<1>3. PICK t \in {disk.tokens, NoTokens}, r \in {disk.rules, none} :
        DiskIs(NoUser, disk.group, disk.server, t, r)
  BY <1>2, WritesShape DEF DiskIs
<1>4. /\ disk' \in Disk /\ disk'.user = NoUser /\ disk'.group = disk.group
      /\ disk'.server = disk.server /\ disk'.tokens = t /\ disk'.rules = r
  BY <1>1, <1>3, UserGone, DiskParts, DiskFields
<1>5. r \subseteq disk.rules /\ \A x \in Token : t[x] = disk.tokens[x] \/ t[x] = None
  BY <1>1, DiskParts DEF NoTokens
<1>6. NothingInherited' /\ OwnerLives' /\ ResetRevokes'
  BY <1>1, <1>4, <1>5, UserGone, LossIsClean DEF StoresOk
<1>7. ~disk'.user.exists /\ disk'.user.life = user.life
  BY <1>1, <1>4, UserGone
<1>8. CredentialIsLast' /\ RemovingIsGone'
  BY <1>1, <1>4, <1>7 DEF CredentialIsLast, RemovingIsGone, user
<1>9. Onward
  BY <1>1, <1>7 DEF Onward, Credential
<1>10. RulesKept
  BY <1>1, <1>4, <1>7, CascadesKeepRules
<1> QED BY <1>10, <1>4, <1>6, <1>8, <1>9 DEF OpKeeps, StoresOk

\* The tokens go before the new code comes.
LEMMA IssueSetupCodeKeeps ==
  ASSUME TypeOK, StoresOk, SnapshotsInOrder, NEW a, IssueSetupCode(a)
  PROVE  OpKeeps /\ RulesKept
<1>1. /\ disk \in Disk /\ made \in Credential /\ incarnation \in Nat \cup {None}
      /\ made + 1 \in Credential /\ user.exists /\ user.cred = made
      /\ UNCHANGED <<incarnation, removing>> /\ Writes(ResetWrites)
      /\ made' = IF disk'.user = user THEN made ELSE made + 1
  BY ConstantsAssumption
     DEF TypeOK, IssueSetupCode, StoresOk, CredentialIsLast, Credential
<1> DEFINE d1 == StoresOf(user, disk.group, disk.server, NoTokens, disk.rules)
           d2 == StoresOf(Reset, disk.group, disk.server, NoTokens, disk.rules)
<1>2. Writes(<<d1, d2>>)
  <2>1. [disk EXCEPT !.tokens = NoTokens] = d1
    BY <1>1, DiskEdits
  <2>2. [d1 EXCEPT !.user = Reset] = d2
    BY DEF StoresOf
  <2> QED BY <1>1, <2>1, <2>2 DEF ResetWrites
<1>3. PICK u \in {user, Reset} : DiskIs(u, disk.group, disk.server, NoTokens, disk.rules)
  BY <1>2, WritesShape DEF DiskIs
<1>4. u \in UserRec /\ u.life = user.life /\ u.exists = user.exists
  BY <1>1, UserReset, DiskParts
<1>5. /\ disk' \in Disk /\ disk'.user = u /\ disk'.group = disk.group
      /\ disk'.server = disk.server /\ disk'.tokens = NoTokens /\ disk'.rules = disk.rules
  BY <1>1, <1>3, <1>4, DiskParts, DiskFields
<1>6. NothingInherited' /\ OwnerLives' /\ ResetRevokes'
  BY <1>1, <1>4, <1>5, LossIsClean DEF StoresOk, NoTokens
<1>7. made' \in Credential /\ made <= made' /\ u.cred = made'
  BY <1>1, <1>5, UserReset DEF Credential
<1>8. user.exists => incarnation # None
  BY DEF SnapshotsInOrder
<1>9. RulesKept
  BY <1>5, CascadesKeepRules
<1> QED BY <1>9, <1>1, <1>4, <1>5, <1>6, <1>7, <1>8
        DEF OpKeeps, StoresOk, Onward, CredentialIsLast, RemovingIsGone, user

LEMMA ChangeRoleKeeps ==
  ASSUME TypeOK, StoresOk, SnapshotsInOrder, NEW a, ChangeRole(a)
  PROVE  OpKeeps /\ RulesKept
<1>1. /\ disk \in Disk /\ made \in Credential /\ incarnation \in Nat \cup {None}
      /\ user.exists /\ user.cred = made /\ incarnation # None
      /\ UNCHANGED <<made, incarnation, removing>>
      /\ Writes(<<[disk EXCEPT !.user = ChangedRole]>>)
  BY DEF TypeOK, ChangeRole, StoresOk, CredentialIsLast, SnapshotsInOrder
<1>2. DiskIs(ChangedRole, disk.group, disk.server, disk.tokens, disk.rules)
  BY <1>1, WritesShape, DiskEdits DEF DiskIs
<1>3. /\ disk' \in Disk /\ disk'.user = ChangedRole /\ disk'.group = disk.group
      /\ disk'.server = disk.server /\ disk'.tokens = disk.tokens /\ disk'.rules = disk.rules
  BY <1>1, <1>2, UserRole, DiskParts, DiskFields
<1>4. NothingInherited' /\ OwnerLives' /\ ResetRevokes'
  BY <1>1, <1>3, UserRole, LossIsClean DEF StoresOk, OwnerLives
<1>5. RulesKept
  BY <1>3, CascadesKeepRules
<1> QED BY <1>5, <1>1, <1>3, <1>4, UserRole
        DEF OpKeeps, StoresOk, Onward, CredentialIsLast, RemovingIsGone, user, Credential

-----------------------------------------------------------------------------
(* Tokens, groups, rules and servers.                                      *)

\* A token is minted for the living user, under its credential.
LEMMA MintTokenKeeps ==
  ASSUME TypeOK, StoresOk, SnapshotsInOrder, NEW a, MintToken(a)
  PROVE  OpKeeps /\ RulesKept
<1>1. /\ disk \in Disk /\ made \in Credential /\ incarnation \in Nat \cup {None}
      /\ user.exists /\ incarnation # None
      /\ UNCHANGED <<made, incarnation, removing>>
  BY DEF TypeOK, MintToken, SnapshotsInOrder
<1>2. PICK t \in Token, admin \in BOOLEAN :
        disk' = [disk EXCEPT !.tokens[t] = [admin |-> admin, life |-> user.life,
                                            under |-> user.cred]]
  BY DEF MintToken, Held
<1> DEFINE minted == [admin |-> admin, life |-> user.life, under |-> user.cred]
           tokens == [disk.tokens EXCEPT ![t] = minted]
<1>3. user \in UserRec /\ disk.tokens \in [Token -> TokenRec \cup {None}]
  BY <1>1, DiskParts
<1>4. minted \in TokenRec /\ minted.life = user.life /\ minted.under = user.cred
  BY <1>3, UserParts DEF TokenRec
<1>5. DiskIs(user, disk.group, disk.server, tokens, disk.rules)
  <2>1. disk' = [disk EXCEPT !.tokens = tokens]
    BY <1>2
  <2> HIDE DEF tokens
  <2> QED BY <1>1, <2>1, DiskEdits DEF DiskIs
<1>6. /\ tokens \in [Token -> TokenRec \cup {None}] /\ tokens[t] = minted
      /\ \A x \in Token : x # t => tokens[x] = disk.tokens[x]
  BY <1>3, <1>4
<1> HIDE DEF minted, tokens
<1>7. /\ disk' \in Disk /\ disk'.user = user /\ disk'.group = disk.group
      /\ disk'.server = disk.server /\ disk'.tokens = tokens /\ disk'.rules = disk.rules
  BY <1>1, <1>5, <1>6, DiskParts, DiskFields
<1>8. \A x \in Token : tokens[x] # None => x = t \/ (x \in Held /\ tokens[x] = disk.tokens[x])
  BY <1>6 DEF Held
<1>9. NothingInherited'
  <2>1. \A x \in Token : tokens[x] # None => tokens[x].life = user.life
    BY <1>1, <1>4, <1>6, <1>8 DEF StoresOk, NothingInherited
  <2> QED BY <1>7, <2>1 DEF StoresOk, NothingInherited, Held, Subject, user
<1>10. ResetRevokes'
  <2>1. ~user.active => \A x \in Token : tokens[x] # None => tokens[x].under = user.cred
    BY <1>1, <1>4, <1>6, <1>8 DEF StoresOk, ResetRevokes
  <2> QED BY <1>7, <2>1 DEF ResetRevokes, Held, user
<1>11. RulesKept
  BY <1>7, CascadesKeepRules
<1> QED BY <1>11, <1>1, <1>7, <1>9, <1>10
        DEF OpKeeps, StoresOk, OwnerLives, Onward, CredentialIsLast, RemovingIsGone, user,
            Credential

LEMMA RevokeTokenKeeps ==
  ASSUME TypeOK, StoresOk, SnapshotsInOrder, NEW a, RevokeToken(a)
  PROVE  OpKeeps /\ RulesKept
<1>1. /\ disk \in Disk /\ made \in Credential /\ incarnation \in Nat \cup {None}
      /\ UNCHANGED <<made, incarnation, removing>>
      /\ user.exists => incarnation # None
  BY DEF TypeOK, RevokeToken, SnapshotsInOrder
<1>2. PICK t \in Token : disk' = [disk EXCEPT !.tokens[t] = None]
  BY DEF RevokeToken, Held
<1> DEFINE tokens == [disk.tokens EXCEPT ![t] = None]
<1>3. disk.tokens \in [Token -> TokenRec \cup {None}]
  BY <1>1, DiskParts
<1>4. DiskIs(user, disk.group, disk.server, tokens, disk.rules)
  <2>1. disk' = [disk EXCEPT !.tokens = tokens]
    BY <1>2
  <2> HIDE DEF tokens
  <2> QED BY <1>1, <2>1, DiskEdits DEF DiskIs
<1>5. /\ tokens \in [Token -> TokenRec \cup {None}]
      /\ \A x \in Token : tokens[x] = disk.tokens[x] \/ tokens[x] = None
  BY <1>3
<1> HIDE DEF tokens
<1>6. /\ disk' \in Disk /\ disk'.user = user /\ disk'.group = disk.group
      /\ disk'.server = disk.server /\ disk'.tokens = tokens /\ disk'.rules = disk.rules
  BY <1>1, <1>4, <1>5, DiskParts, DiskFields
<1>7. NothingInherited' /\ OwnerLives' /\ ResetRevokes'
  BY <1>1, <1>5, <1>6, LossIsClean DEF StoresOk, OwnerLives
<1>8. RulesKept
  BY <1>6, CascadesKeepRules
<1> QED BY <1>8, <1>1, <1>6, <1>7
        DEF OpKeeps, StoresOk, Onward, CredentialIsLast, RemovingIsGone, user, Credential

\* A new group meets no rule of an earlier one.
LEMMA CreateGroupKeeps ==
  ASSUME TypeOK, StoresOk, SnapshotsInOrder, NEW a, CreateGroup(a)
  PROVE  OpKeeps /\ RulesKept
<1>1. /\ disk \in Disk /\ made \in Credential /\ incarnation \in Nat \cup {None}
      /\ UNCHANGED <<made, incarnation, removing>> /\ Writes(CreateGroupWrites)
      /\ user.exists => incarnation # None
      /\ ~disk.group.exists
  BY DEF TypeOK, CreateGroup, SnapshotsInOrder
<1>2. disk.group.life + 1 \in Life
  BY <1>1, LivesLeft DEF CreateGroup
<1> DEFINE none == WithoutSubject("group")
           new == [exists |-> TRUE, life |-> disk.group.life + 1]
           d1 == StoresOf(user, disk.group, disk.server, disk.tokens, none)
           d2 == StoresOf(user, new, disk.server, disk.tokens, none)
<1>3. Writes(<<d1, d2>>)
  <2>1. [disk EXCEPT !.rules = none] = d1
    BY <1>1, DiskEdits
  <2>2. [d1 EXCEPT !.group = [exists |-> TRUE, life |-> @.life + 1]] = d2
    <3>1. [d1 EXCEPT !.group = new] = d2
      <4> HIDE DEF new
      <4> QED BY DEF StoresOf
    <3>2. d1.group = disk.group
      BY DEF StoresOf
    <3> HIDE DEF d1, d2
    <3> QED BY <3>1, <3>2
  <2> QED BY <1>1, <2>1, <2>2 DEF CreateGroupWrites
<1>4. PICK g \in {disk.group, new} : DiskIs(user, g, disk.server, disk.tokens, none)
  BY <1>3, WritesShape DEF DiskIs
<1>5. g \in NameRec
  <2>1. new \in NameRec
    BY <1>2 DEF NameRec
  <2>2. disk.group \in NameRec
    BY <1>1, DiskParts
  <2> QED BY <2>1, <2>2
<1>6. none \subseteq disk.rules /\ none \in SUBSET RuleRec
      /\ \A r \in none : r.subject = "user"
  BY <1>1, DiskParts, NameParts DEF WithoutSubject
<1> HIDE DEF none, new
<1>7. /\ disk' \in Disk /\ disk'.user = user /\ disk'.group = g
      /\ disk'.server = disk.server /\ disk'.tokens = disk.tokens /\ disk'.rules = none
  BY <1>1, <1>4, <1>5, <1>6, DiskParts, DiskFields
<1>8. NothingInherited'
  BY <1>6, <1>7 DEF StoresOk, NothingInherited, Held, Subject, user
<1>9. OwnerLives' /\ ResetRevokes'
  BY <1>7 DEF StoresOk, OwnerLives, ResetRevokes, Held, user
<1>10. RulesKept
  BY <1>1, <1>7, DiskParts, CascadesKeepRules DEF none
<1> QED BY <1>10, <1>1, <1>7, <1>8, <1>9
        DEF OpKeeps, StoresOk, Onward, CredentialIsLast, RemovingIsGone, user, Credential

\* The group goes before its rules.
LEMMA DeleteGroupKeeps ==
  ASSUME TypeOK, StoresOk, SnapshotsInOrder, NEW a, DeleteGroup(a)
  PROVE  OpKeeps /\ RulesKept
<1>1. /\ disk \in Disk /\ made \in Credential /\ incarnation \in Nat \cup {None}
      /\ UNCHANGED <<made, incarnation, removing>> /\ Writes(DeleteGroupWrites)
      /\ user.exists => incarnation # None
  BY DEF TypeOK, DeleteGroup, SnapshotsInOrder
<1> DEFINE none == WithoutSubject("group")
           gone == [disk.group EXCEPT !.exists = FALSE]
           d1 == StoresOf(user, gone, disk.server, disk.tokens, disk.rules)
           d2 == StoresOf(user, gone, disk.server, disk.tokens, none)
<1>2. Writes(<<d1, d2>>)
  <2>1. [disk EXCEPT !.group.exists = FALSE] = d1
    <3>1. [disk EXCEPT !.group.exists = FALSE] = [disk EXCEPT !.group = gone]
      OBVIOUS
    <3> HIDE DEF gone
    <3> QED BY <1>1, <3>1, DiskEdits
  <2>2. [d1 EXCEPT !.rules = none] = d2
    <3> HIDE DEF gone, none
    <3> QED BY DEF StoresOf
  <2> QED BY <1>1, <2>1, <2>2 DEF DeleteGroupWrites
<1>3. PICK r \in {disk.rules, none} : DiskIs(user, gone, disk.server, disk.tokens, r)
  BY <1>2, WritesShape DEF DiskIs
<1>4. gone \in NameRec /\ gone.life = disk.group.life /\ ~gone.exists
  <2>1. disk.group \in NameRec
    BY <1>1, DiskParts
  <2> QED BY <2>1 DEF NameRec
<1>5. r \subseteq disk.rules /\ r \in SUBSET RuleRec
  BY <1>1, DiskParts
<1> HIDE DEF none, gone
<1>6. /\ disk' \in Disk /\ disk'.user = user /\ disk'.group = gone
      /\ disk'.server = disk.server /\ disk'.tokens = disk.tokens /\ disk'.rules = r
  BY <1>1, <1>3, <1>4, <1>5, DiskParts, DiskFields
<1>7. NothingInherited' /\ OwnerLives' /\ ResetRevokes'
  BY <1>1, <1>4, <1>5, <1>6, LossIsClean DEF StoresOk, OwnerLives
<1>8. RulesKept
  BY <1>1, <1>4, <1>6, DiskParts, CascadesKeepRules DEF none
<1> QED BY <1>8, <1>1, <1>6, <1>7
        DEF OpKeeps, StoresOk, Onward, CredentialIsLast, RemovingIsGone, user, Credential

\* A rule is added on a subject and a server that exist.
LEMMA AddRuleKeeps ==
  ASSUME TypeOK, StoresOk, SnapshotsInOrder, NEW a, AddRule(a)
  PROVE  OpKeeps /\ RulesKept
<1>1. /\ disk \in Disk /\ made \in Credential /\ incarnation \in Nat \cup {None}
      /\ UNCHANGED <<made, incarnation, removing>>
      /\ user.exists => incarnation # None
  BY DEF TypeOK, AddRule, SnapshotsInOrder
<1>2. PICK s \in {"user", "group"}, on \in {"any", "own"} :
        /\ Subject(s).exists /\ on = "own" => disk.server.exists
        /\ disk' = [disk EXCEPT !.rules = @ \cup
                     {[subject |-> s, life |-> Subject(s).life, server |-> on,
                       serverLife |-> IF on = "own" THEN disk.server.life ELSE 0]}]
  BY DEF AddRule
<1> DEFINE rule == [subject |-> s, life |-> Subject(s).life, server |-> on,
                    serverLife |-> IF on = "own" THEN disk.server.life ELSE 0]
<1>3. DiskIs(user, disk.group, disk.server, disk.tokens, disk.rules \cup {rule})
  <2>1. disk' = [disk EXCEPT !.rules = disk.rules \cup {rule}]
    BY <1>2
  <2> HIDE DEF rule
  <2> QED BY <1>1, <2>1, DiskEdits DEF DiskIs
<1>4. /\ rule \in RuleRec /\ rule.subject = s /\ rule.server = on
      /\ rule.life = Subject(s).life /\ (on = "own" => rule.serverLife = disk.server.life)
  <2>1. Subject(s).life \in Life
    BY <1>1, DiskParts, UserParts, NameParts DEF Subject
  <2>2. disk.server.life \in Life /\ 0 \in Life
    BY <1>1, DiskParts, NameParts, ConstantsAssumption DEF Life
  <2> QED BY <2>1, <2>2 DEF RuleRec
<1> HIDE DEF rule
<1>5. /\ disk' \in Disk /\ disk'.user = user /\ disk'.group = disk.group
      /\ disk'.server = disk.server /\ disk'.tokens = disk.tokens
      /\ disk'.rules = disk.rules \cup {rule}
  BY <1>1, <1>3, <1>4, DiskParts, DiskFields
<1>6. NothingInherited'
  <2>1. ASSUME NEW r \in disk.rules \cup {rule}
        PROVE  /\ Subject(r.subject).exists => r.life = Subject(r.subject).life
               /\ r.server = "own" /\ disk.server.exists => r.serverLife = disk.server.life
    BY <1>4, <2>1 DEF StoresOk, NothingInherited
  <2> QED BY <1>5, <2>1 DEF StoresOk, NothingInherited, Held, Subject, user
<1>7. RulesKept
  BY <1>5, CascadesKeepRules
<1> QED BY <1>7, <1>1, <1>5, <1>6
        DEF OpKeeps, StoresOk, OwnerLives, ResetRevokes, Held, Onward, CredentialIsLast,
            RemovingIsGone, user, Credential

LEMMA RemoveRuleKeeps ==
  ASSUME TypeOK, StoresOk, SnapshotsInOrder, NEW a, RemoveRule(a)
  PROVE  OpKeeps
<1>1. /\ disk \in Disk /\ made \in Credential /\ incarnation \in Nat \cup {None}
      /\ UNCHANGED <<made, incarnation, removing>>
      /\ user.exists => incarnation # None
  BY DEF TypeOK, RemoveRule, SnapshotsInOrder
<1>2. PICK r \in disk.rules : disk' = [disk EXCEPT !.rules = disk.rules \ {r}]
  BY DEF RemoveRule
<1>3. DiskIs(user, disk.group, disk.server, disk.tokens, disk.rules \ {r})
  BY <1>1, <1>2, DiskEdits DEF DiskIs
<1>4. /\ disk' \in Disk /\ disk'.user = user /\ disk'.group = disk.group
      /\ disk'.server = disk.server /\ disk'.tokens = disk.tokens
      /\ disk'.rules = disk.rules \ {r}
  BY <1>1, <1>3, DiskParts, DiskFields
<1>5. NothingInherited' /\ OwnerLives' /\ ResetRevokes'
  BY <1>1, <1>4, LossIsClean DEF StoresOk, OwnerLives
<1> QED BY <1>1, <1>4, <1>5
        DEF OpKeeps, StoresOk, Onward, CredentialIsLast, RemovingIsGone, user, Credential

\* A new server has the living user as its owner, and its key meets no earlier rule.
LEMMA AddServerKeeps ==
  ASSUME TypeOK, StoresOk, SnapshotsInOrder, NEW p \in Request, AddServer(p)
  PROVE  OpKeeps /\ RulesKept
<1>1. /\ disk \in Disk /\ made \in Credential /\ incarnation \in Nat \cup {None}
      /\ UNCHANGED <<made, incarnation, removing>> /\ Writes(AddServerWrites)
      /\ ~disk.server.exists /\ ~removing
  BY DEF TypeOK, AddServer, CanAdd
<1>2. user.exists /\ incarnation # None
  BY ConstantsAssumption
     DEF AddServer, AccountWriter, Writer, RequireCurrent, AdminOf, SnapshotsInOrder
<1>3. disk.server.life + 1 \in Life
  BY <1>1, LivesLeft DEF AddServer
<1> DEFINE new == [exists |-> TRUE, life |-> disk.server.life + 1, owner |-> user.life]
           d1 == StoresOf(user, disk.group, disk.server, disk.tokens, WithoutServer)
           d2 == StoresOf(user, disk.group, new, disk.tokens, WithoutServer)
<1>4. Writes(<<d1, d2>>)
  <2>1. [disk EXCEPT !.rules = WithoutServer] = d1
    BY <1>1, DiskEdits
  <2>2. [d1 EXCEPT !.server = [exists |-> TRUE, life |-> @.life + 1,
                               owner |-> user.life]] = d2
    <3>1. [d1 EXCEPT !.server = new] = d2
      <4> HIDE DEF new
      <4> QED BY DEF StoresOf
    <3>2. d1.server = disk.server
      BY DEF StoresOf
    <3> HIDE DEF d1, d2
    <3> QED BY <3>1, <3>2
  <2> QED BY <1>1, <2>1, <2>2 DEF AddServerWrites
<1>5. PICK s \in {disk.server, new} : DiskIs(user, disk.group, s, disk.tokens, WithoutServer)
  BY <1>4, WritesShape DEF DiskIs
<1>6. s \in ServerRec /\ (s.exists => s.owner = user.life)
  <2>1. new \in ServerRec /\ new.owner = user.life
    BY <1>1, <1>3, DiskParts, UserParts DEF ServerRec
  <2>2. disk.server \in ServerRec
    BY <1>1, DiskParts
  <2> QED BY <1>1, <2>1, <2>2
<1> HIDE DEF new
<1>7. /\ disk' \in Disk /\ disk'.user = user /\ disk'.group = disk.group
      /\ disk'.server = s /\ disk'.tokens = disk.tokens /\ disk'.rules = WithoutServer
  BY <1>1, <1>5, <1>6, DiskParts, DiskFields
<1>8. NothingInherited'
  BY <1>7 DEF StoresOk, NothingInherited, Held, Subject, user, WithoutServer
<1>9. OwnerLives'
  BY <1>2, <1>6, <1>7 DEF OwnerLives, user
<1>10. RulesKept
  BY <1>1, <1>7, CascadesKeepRules
<1> QED BY <1>10, <1>1, <1>2, <1>7, <1>8, <1>9
        DEF OpKeeps, StoresOk, ResetRevokes, Held, Onward, CredentialIsLast,
            RemovingIsGone, user, Credential

\* The record of a server goes before its rules.
LEMMA RemoveServerKeeps ==
  ASSUME TypeOK, StoresOk, SnapshotsInOrder, NEW a, RemoveServer(a)
  PROVE  OpKeeps /\ RulesKept
<1>1. /\ disk \in Disk /\ made \in Credential /\ incarnation \in Nat \cup {None}
      /\ UNCHANGED <<made, incarnation>>
      /\ disk' = [disk EXCEPT !.server.exists = FALSE]
      /\ user.exists => incarnation # None
  BY DEF TypeOK, RemoveServer, SnapshotsInOrder
<1> DEFINE gone == [disk.server EXCEPT !.exists = FALSE]
<1>2. DiskIs(user, disk.group, gone, disk.tokens, disk.rules)
  <2>1. disk' = [disk EXCEPT !.server = gone]
    BY <1>1
  <2> HIDE DEF gone
  <2> QED BY <1>1, <2>1, DiskEdits DEF DiskIs
<1>3. /\ gone \in ServerRec /\ gone.life = disk.server.life /\ ~gone.exists
      /\ gone.owner = disk.server.owner
  <2>1. disk.server \in ServerRec
    BY <1>1, DiskParts
  <2> QED BY <2>1 DEF ServerRec
<1> HIDE DEF gone
<1>4. /\ disk' \in Disk /\ disk'.user = user /\ disk'.group = disk.group
      /\ disk'.server = gone /\ disk'.tokens = disk.tokens /\ disk'.rules = disk.rules
  BY <1>1, <1>2, <1>3, DiskParts, DiskFields
<1>5. NothingInherited' /\ OwnerLives' /\ ResetRevokes'
  BY <1>1, <1>3, <1>4, LossIsClean DEF StoresOk
<1>6. RulesKept
  BY <1>4, CascadesKeepRules
<1> QED BY <1>6, <1>1, <1>3, <1>4, <1>5
        DEF OpKeeps, StoresOk, Onward, CredentialIsLast, RemovingIsGone, user, Credential

LEMMA FinishRemoveServerKeeps ==
  ASSUME TypeOK, StoresOk, SnapshotsInOrder, FinishRemoveServer
  PROVE  OpKeeps /\ RulesKept
<1>1. /\ disk \in Disk /\ made \in Credential /\ incarnation \in Nat \cup {None}
      /\ UNCHANGED <<made, incarnation>> /\ removing' = FALSE
      /\ Writes(<<disk, [disk EXCEPT !.rules = WithoutServer]>>)
      /\ user.exists => incarnation # None
  BY DEF TypeOK, FinishRemoveServer, SnapshotsInOrder
<1>2. PICK r \in {disk.rules, WithoutServer} :
        DiskIs(user, disk.group, disk.server, disk.tokens, r)
  <2>1. disk' = disk \/ disk' = [disk EXCEPT !.rules = WithoutServer]
    BY <1>1, WritesShape
  <2> QED BY <1>1, <2>1, DiskEdits DEF DiskIs
<1>3. r \subseteq disk.rules /\ r \in SUBSET RuleRec
  BY <1>1, DiskParts
<1>4. /\ disk' \in Disk /\ disk'.user = user /\ disk'.group = disk.group
      /\ disk'.server = disk.server /\ disk'.tokens = disk.tokens /\ disk'.rules = r
  BY <1>1, <1>2, <1>3, DiskParts, DiskFields
<1>5. NothingInherited' /\ OwnerLives' /\ ResetRevokes'
  BY <1>1, <1>3, <1>4, LossIsClean DEF StoresOk, OwnerLives
<1>6. RulesKept
  <2>1. ~disk.server.exists
    BY DEF FinishRemoveServer, StoresOk, RemovingIsGone
  <2> QED BY <1>4, <2>1, CascadesKeepRules
<1> QED BY <1>6, <1>1, <1>4, <1>5
        DEF OpKeeps, StoresOk, Onward, CredentialIsLast, RemovingIsGone, user, Credential

-----------------------------------------------------------------------------
(* The requests under way.                                                 *)

\* An operation moves credentials and incarnations on and ends its own request only.
LEMMA OnwardKeepsOrder ==
  ASSUME TypeOK, ProofsInOrder, SnapshotsInOrder, Onward,
         \A p \in Request : call'[p] = call[p] \/ call'[p] = NoCall
  PROVE  ProofsInOrder' /\ SnapshotsInOrder'
<1>1. /\ made \in Nat /\ made' \in Nat /\ made <= made'
      /\ incarnation \in Nat \cup {None} /\ None \notin Nat
      /\ \A p \in Request : /\ call[p].seen \in Nat \cup {None}
                            /\ call[p].proved \in Nat \cup {None}
                            /\ call[p].incarnation \in Nat \cup {None}
  BY ConstantsAssumption DEF TypeOK, Onward, Credential, CallRec
<1>2. ProofsInOrder'
  <2>1. ASSUME NEW p \in Request PROVE ProofInOrder(call[p])'
    <3>1. CASE call'[p] = NoCall
      BY <3>1, NoCallTyped DEF ProofInOrder
    <3>2. CASE call'[p] = call[p]
      BY <1>1, <3>2 DEF ProofsInOrder, ProofInOrder
    <3> QED BY <3>1, <3>2
  <2> QED BY <2>1 DEF ProofsInOrder
<1>3. SnapshotsInOrder'
  <2>1. ASSUME NEW p \in Request PROVE SnapshotInOrder(call[p])'
    <3>1. CASE call'[p] = NoCall
      BY <3>1, NoCallTyped DEF SnapshotInOrder
    <3>2. CASE call'[p] = call[p]
      <4>1. SnapshotInOrder(call[p])
        BY DEF SnapshotsInOrder
      <4>2. call[p].incarnation # None =>
              incarnation \in Nat /\ call[p].incarnation <= incarnation
        BY <1>1, <4>1 DEF SnapshotInOrder
      <4> QED BY <1>1, <3>2, <4>1, <4>2 DEF SnapshotInOrder, Onward, user
    <3> QED BY <3>1, <3>2
  <2> QED BY <2>1 DEF SnapshotsInOrder, Onward, user
<1> QED BY <1>2, <1>3

\* A step of a request leaves the stores alone.
LEMMA MoveKeepsOrder ==
  ASSUME TypeOK, ProofsInOrder, SnapshotsInOrder, UNCHANGED <<disk, made, incarnation>>,
         NEW p \in Request, NEW rec \in CallRec, ProofInOrder(rec), SnapshotInOrder(rec),
         call' = [call EXCEPT ![p] = rec]
  PROVE  /\ call' \in [Request -> CallRec]
         /\ ProofsInOrder' /\ SnapshotsInOrder'
<1>1. /\ call' \in [Request -> CallRec] /\ call'[p] = rec
      /\ \A q \in Request : q # p => call'[q] = call[q]
  BY DEF TypeOK
<1>2. \A q \in Request : ProofInOrder(call'[q]) /\ SnapshotInOrder(call'[q])
  BY <1>1 DEF ProofsInOrder, SnapshotsInOrder
<1>3. \A c : /\ ProofInOrder(c) => ProofInOrder(c)'
             /\ SnapshotInOrder(c) => SnapshotInOrder(c)'
  BY DEF ProofInOrder, SnapshotInOrder, user
<1> QED BY <1>1, <1>2, <1>3 DEF ProofsInOrder, SnapshotsInOrder, user

\* What no step of a request but a swap touches.
Still == UNCHANGED <<disk, made, incarnation, removing, mishaps>>

LEMMA StillKeeps ==
  ASSUME IInv, Still, call' \in [Request -> CallRec], ProofsInOrder', SnapshotsInOrder',
         cookie' \in Cookie \cup {None}, CookieEarned'
  PROVE  IInv'
<1>1. TypeOK'
  BY DEF IInv, TypeOK, Still
<1>2. NothingInherited' /\ OwnerLives' /\ ResetRevokes'
  BY DEF IInv, NothingInherited, Held, Subject, user, OwnerLives, ResetRevokes, Still
<1>3. CredentialIsLast' /\ RemovingIsGone'
  BY DEF IInv, CredentialIsLast, RemovingIsGone, user, Still
<1> QED BY <1>1, <1>2, <1>3 DEF IInv

\* The credential that a session binds is the last one made.
LEMMA BindingIsLast ==
  ASSUME IInv, Binding # None
  PROVE  user.exists /\ user.active /\ Binding = made /\ user.cred = made /\ incarnation # None
BY DEF IInv, Binding, CredentialIsLast, SnapshotsInOrder

\* A request that moves on with what it has seen.
LEMMA MoveKeeps ==
  ASSUME IInv, Still, UNCHANGED cookie, NEW p \in Request, NEW rec \in CallRec,
         ProofInOrder(rec), SnapshotInOrder(rec), call' = [call EXCEPT ![p] = rec]
  PROVE  IInv'
<1>1. /\ call' \in [Request -> CallRec] /\ ProofsInOrder' /\ SnapshotsInOrder'
  BY MoveKeepsOrder DEF IInv, Still
<1>2. cookie' \in Cookie \cup {None} /\ CookieEarned'
  BY DEF IInv, TypeOK, CookieEarned
<1> QED BY <1>1, <1>2, StillKeeps

\* The records that the steps of a request put into its slot.
Checking(job, b) == [NoCall EXCEPT !.job = job, !.pc = "verify", !.seen = b]
Coded(b) == [NoCall EXCEPT !.job = "setup", !.pc = "answer", !.seen = b, !.proved = b]
Proved(c, b) == [c EXCEPT !.pc = "answer", !.proved = b]
Queued(l) == [NoCall EXCEPT !.job = "tool", !.pc = "queued", !.life = l]

LEMMA CheckingShape ==
  ASSUME NEW job \in {"login", "settings"}, NEW b \in Credential
  PROVE  /\ Checking(job, b) \in CallRec /\ Checking(job, b).pc = "verify"
         /\ Checking(job, b).seen = b /\ Checking(job, b).incarnation = None
BY NoCallTyped DEF Checking, CallRec

LEMMA CodedShape ==
  ASSUME NEW b \in Credential
  PROVE  /\ Coded(b) \in CallRec /\ Coded(b).pc = "answer"
         /\ Coded(b).seen = b /\ Coded(b).proved = b /\ Coded(b).incarnation = None
BY NoCallTyped DEF Coded, CallRec

LEMMA ProvedShape ==
  ASSUME NEW c \in CallRec, NEW b \in Credential
  PROVE  /\ Proved(c, b) \in CallRec /\ Proved(c, b).pc = "answer"
         /\ Proved(c, b).seen = c.seen /\ Proved(c, b).proved = b
         /\ Proved(c, b).incarnation = c.incarnation
BY DEF Proved, CallRec

LEMMA QueuedShape ==
  ASSUME NEW l \in Life
  PROVE  /\ Queued(l) \in CallRec /\ Queued(l).pc = "queued"
         /\ Queued(l).seen = None /\ Queued(l).incarnation = None
BY NoCallTyped DEF Queued, CallRec

LEMMA SnapshotShape ==
  ASSUME TypeOK, NEW job \in {"page", "api", "tool"}
  PROVE  /\ Snapshot(job) \in CallRec
         /\ Snapshot(job).pc = "admitted" /\ Snapshot(job).job = job
         /\ Snapshot(job).seen = None /\ Snapshot(job).proved = None
         /\ Snapshot(job).incarnation = incarnation
         /\ Snapshot(job).life = user.life /\ Snapshot(job).admin = user.admin
         /\ \A l \in Life :
              LET rec == [Snapshot(job) EXCEPT !.life = l]
              IN  /\ rec \in CallRec /\ rec.pc = "admitted" /\ rec.job = job
                  /\ rec.seen = None /\ rec.incarnation = incarnation /\ rec.life = l
<1>1. user.life \in Life /\ user.admin \in BOOLEAN /\ incarnation \in Nat \cup {None}
  BY DiskParts, UserParts DEF TypeOK
<1> QED BY <1>1, ConstantsAssumption DEF Snapshot, NoCall, CallRec, Credential, Life

LEMMA SignInKeeps ==
  ASSUME IInv, NEW p \in Request, SignIn(p)
  PROVE  IInv'
<1>1. /\ TypeOK /\ made \in Credential /\ made \in Nat /\ None \notin Nat
      /\ call[p] \in CallRec /\ ProofInOrder(call[p]) /\ SnapshotInOrder(call[p])
      /\ call \in [Request -> CallRec]
  BY ConstantsAssumption DEF IInv, TypeOK, Credential, ProofsInOrder, SnapshotsInOrder
<1>2. ASSUME BeginLogin(p) PROVE IInv'
  <2> DEFINE rec == Checking("login", Binding)
  <2>1. Binding = made
    BY <1>2, BindingIsLast DEF BeginLogin
  <2>2. rec \in CallRec /\ rec.pc = "verify" /\ rec.seen = made /\ rec.incarnation = None
    BY <1>1, <2>1, CheckingShape
  <2>3. Still /\ UNCHANGED cookie /\ call' = [call EXCEPT ![p] = rec]
    BY <1>2 DEF BeginLogin, Begins, Still, Checking
  <2> HIDE DEF rec
  <2>4. ProofInOrder(rec) /\ SnapshotInOrder(rec)
    BY <1>1, <2>2 DEF ProofInOrder, SnapshotInOrder
  <2> QED BY <2>2, <2>3, <2>4, MoveKeeps
<1>3. ASSUME VerifyPassword(p) PROVE IInv'
  <2> DEFINE rec == Proved(call[p], user.cred)
  <2>1. user.cred = made /\ call[p].pc = "verify"
    BY <1>3 DEF VerifyPassword, IInv, CredentialIsLast
  <2>2. /\ rec \in CallRec /\ rec.pc = "answer" /\ rec.seen = call[p].seen
        /\ rec.proved = made /\ rec.incarnation = call[p].incarnation
    BY <1>1, <2>1, ProvedShape
  <2>3. Still /\ UNCHANGED cookie /\ call' = [call EXCEPT ![p] = rec]
    BY <1>3 DEF VerifyPassword, Moves, Still, Proved
  <2> HIDE DEF rec
  <2>4. ProofInOrder(rec) /\ SnapshotInOrder(rec)
    BY <1>1, <2>1, <2>2 DEF ProofInOrder, SnapshotInOrder
  <2> QED BY <2>2, <2>3, <2>4, MoveKeeps
<1>4. ASSUME FinishLogin(p) PROVE IInv'
  <2>1. /\ call[p].seen = made /\ call[p].proved = made
    <3>1. Binding # None
      BY <1>1, <1>4 DEF FinishLogin, ProofInOrder
    <3>2. call[p].seen = made
      BY <1>4, <3>1, BindingIsLast DEF FinishLogin
    <3>3. call[p].proved \in Nat
      BY <1>1, <1>4 DEF FinishLogin, ProofInOrder, CallRec, Credential
    <3> QED BY <1>1, <1>4, <3>2, <3>3 DEF FinishLogin, ProofInOrder
  <2>2. /\ Still /\ call' = [call EXCEPT ![p] = NoCall]
        /\ cookie' = [binding |-> made, proved |-> made]
    BY <1>4, <2>1 DEF FinishLogin, Signs, Ends, Still
  <2>3. cookie' \in Cookie /\ CookieEarned'
    BY <1>1, <2>2 DEF Cookie, CookieEarned
  <2>4. call' \in [Request -> CallRec] /\ ProofsInOrder' /\ SnapshotsInOrder'
    <3>1. ProofInOrder(NoCall) /\ SnapshotInOrder(NoCall)
      BY NoCallTyped DEF ProofInOrder, SnapshotInOrder
    <3> QED BY <2>2, <3>1, NoCallTyped, MoveKeepsOrder DEF IInv, Still
  <2> QED BY <2>2, <2>3, <2>4, StillKeeps
<1>5. ASSUME BeginSetup(p) PROVE IInv'
  <2> DEFINE rec == Coded(user.cred)
  <2>1. user.cred = made
    BY <1>5 DEF BeginSetup, IInv, CredentialIsLast
  <2>2. /\ rec \in CallRec /\ rec.pc = "answer" /\ rec.seen = made
        /\ rec.proved = made /\ rec.incarnation = None
    BY <1>1, <2>1, CodedShape
  <2>3. Still /\ UNCHANGED cookie /\ call' = [call EXCEPT ![p] = rec]
    BY <1>5 DEF BeginSetup, Begins, Still, Coded
  <2> HIDE DEF rec
  <2>4. ProofInOrder(rec) /\ SnapshotInOrder(rec)
    BY <1>1, <2>2 DEF ProofInOrder, SnapshotInOrder
  <2> QED BY <2>2, <2>3, <2>4, MoveKeeps
<1>6. ASSUME BeginSettings(p) PROVE IInv'
  <2> DEFINE rec == Checking("settings", Binding)
  <2>1. Binding = made
    BY <1>6, BindingIsLast DEF BeginSettings
  <2>2. rec \in CallRec /\ rec.pc = "verify" /\ rec.seen = made /\ rec.incarnation = None
    BY <1>1, <2>1, CheckingShape
  <2>3. Still /\ UNCHANGED cookie /\ call' = [call EXCEPT ![p] = rec]
    BY <1>6 DEF BeginSettings, Moves, Still, Checking
  <2> HIDE DEF rec
  <2>4. ProofInOrder(rec) /\ SnapshotInOrder(rec)
    BY <1>1, <2>2 DEF ProofInOrder, SnapshotInOrder
  <2> QED BY <2>2, <2>3, <2>4, MoveKeeps
<1>7. ASSUME Swap(p) PROVE IInv'
  <2>1. /\ user.exists /\ incarnation # None /\ disk \in Disk
        /\ made' = made + 1 /\ made' \in Credential
        /\ disk' = [disk EXCEPT !.user.cred = made', !.user.active = TRUE]
        /\ UNCHANGED <<incarnation, removing, mishaps>>
        /\ cookie' = [binding |-> made', proved |-> made']
        /\ call' = [call EXCEPT ![p] = NoCall]
    BY <1>1, <1>7, ConstantsAssumption
       DEF Swap, CanSwap, Signs, Ends, IInv, SnapshotsInOrder, TypeOK, Credential
  <2> DEFINE new == [user EXCEPT !.cred = made', !.active = TRUE]
  <2>2. /\ new \in UserRec /\ new.life = user.life /\ new.exists /\ new.active
        /\ new.cred = made'
    <3>1. user \in UserRec
      BY <2>1, DiskParts
    <3> QED BY <2>1, <3>1 DEF UserRec
  <2>3. DiskIs(new, disk.group, disk.server, disk.tokens, disk.rules)
    <3>1. disk' = [disk EXCEPT !.user = new]
      BY <2>1 DEF user
    <3> HIDE DEF new
    <3> QED BY <2>1, <3>1, DiskEdits DEF DiskIs
  <2> HIDE DEF new
  <2>4. /\ disk' \in Disk /\ disk'.user = new /\ disk'.group = disk.group
        /\ disk'.server = disk.server /\ disk'.tokens = disk.tokens /\ disk'.rules = disk.rules
    BY <2>1, <2>2, <2>3, DiskParts, DiskFields
  <2>5. NothingInherited' /\ OwnerLives' /\ ResetRevokes'
    BY <2>1, <2>2, <2>4, LossIsClean DEF IInv, OwnerLives
  <2>6. CredentialIsLast' /\ RemovingIsGone'
    BY <2>1, <2>2, <2>4 DEF IInv, CredentialIsLast, RemovingIsGone, user
  <2>7. Onward
    BY <1>1, <2>1, <2>2, <2>4 DEF Onward, TypeOK, Credential
  <2>8. /\ call' \in [Request -> CallRec]
        /\ \A q \in Request : call'[q] = call[q] \/ call'[q] = NoCall
    BY <1>1, <2>1, NoCallTyped
  <2>9. ProofsInOrder' /\ SnapshotsInOrder'
    BY <1>1, <2>7, <2>8, OnwardKeepsOrder DEF IInv
  <2>10. cookie' \in Cookie /\ CookieEarned'
    BY <2>1 DEF Cookie, CookieEarned
  <2>11. TypeOK'
    BY <2>1, <2>4, <2>8, <2>10 DEF TypeOK, IInv
  <2> QED BY <2>5, <2>6, <2>9, <2>10, <2>11 DEF IInv
<1> QED BY <1>2, <1>3, <1>4, <1>5, <1>6, <1>7 DEF SignIn

LEMMA AdmitKeeps ==
  ASSUME IInv, NEW p \in Request, Admit(p)
  PROVE  IInv'
<1>1. /\ TypeOK /\ incarnation \in Nat \cup {None} /\ None \notin Nat
      /\ call[p] \in CallRec /\ user.life \in Life
      /\ user.exists => incarnation # None
  BY DiskParts, UserParts, ConstantsAssumption DEF IInv, TypeOK, SnapshotsInOrder
<1>2. ASSUME NEW job \in {"page", "api"}, user.exists
      PROVE  ProofInOrder(Snapshot(job)) /\ SnapshotInOrder(Snapshot(job))
  BY <1>1, <1>2, SnapshotShape DEF ProofInOrder, SnapshotInOrder
<1>3. ASSUME AdmitCookie(p) PROVE IInv'
  <2>1. user.exists
    <3>1. cookie.binding # None
      BY <1>1, <1>3, ConstantsAssumption DEF AdmitCookie, TypeOK, Cookie, Credential
    <3> QED BY <1>3, <3>1 DEF AdmitCookie, Binding
  <2>2. Still /\ UNCHANGED cookie /\ call' = [call EXCEPT ![p] = Snapshot("page")]
    BY <1>3 DEF AdmitCookie, Begins, Still
  <2>3. Snapshot("page") \in CallRec
    BY <1>1, SnapshotShape
  <2> QED BY <1>2, <2>1, <2>2, <2>3, MoveKeeps
<1>4. ASSUME AdmitToken(p) PROVE IInv'
  <2>1. Still /\ UNCHANGED cookie /\ call' = [call EXCEPT ![p] = Snapshot("api")]
    BY <1>4 DEF AdmitToken, Begins, Still
  <2>2. user.exists
    BY <1>4 DEF AdmitToken, AdminToken
  <2>3. Snapshot("api") \in CallRec
    BY <1>1, SnapshotShape
  <2> QED BY <1>2, <2>1, <2>2, <2>3, MoveKeeps
<1>5. ASSUME AdmitTool(p) PROVE IInv'
  <2>1. Still /\ UNCHANGED cookie /\ call' = [call EXCEPT ![p] = Queued(user.life)]
    BY <1>5 DEF AdmitTool, Begins, Still, Queued
  <2>2. Queued(user.life) \in CallRec
    BY <1>1, QueuedShape
  <2>3. ProofInOrder(Queued(user.life)) /\ SnapshotInOrder(Queued(user.life))
    BY <1>1, QueuedShape DEF ProofInOrder, SnapshotInOrder
  <2> QED BY <2>1, <2>2, <2>3, MoveKeeps
<1>6. ASSUME ResolveTool(p) PROVE IInv'
  <2> DEFINE rec == [Snapshot("tool") EXCEPT !.life = call[p].life]
  <2>1. call[p].life \in Life
    BY <1>1 DEF CallRec
  <2>2. /\ rec \in CallRec /\ rec.pc = "admitted" /\ rec.job = "tool"
        /\ rec.seen = None /\ rec.incarnation = incarnation
    BY <1>1, <2>1, SnapshotShape
  <2>3. Still /\ UNCHANGED cookie /\ call' = [call EXCEPT ![p] = rec]
    BY <1>6 DEF ResolveTool, Moves, Still
  <2> HIDE DEF rec
  <2>4. ProofInOrder(rec) /\ SnapshotInOrder(rec)
    BY <1>1, <1>6, <2>2 DEF ProofInOrder, SnapshotInOrder, ResolveTool
  <2> QED BY <2>2, <2>3, <2>4, MoveKeeps
<1> QED BY <1>3, <1>4, <1>5, <1>6 DEF Admit

LEMMA EndsKeeps ==
  ASSUME IInv, NEW p \in Request, GiveUp(p) \/ ToolWrites(p)
  PROVE  IInv'
<1>1. Still /\ UNCHANGED cookie /\ call' = [call EXCEPT ![p] = NoCall]
  BY DEF GiveUp, ToolWrites, Ends, Still
<1>2. ProofInOrder(NoCall) /\ SnapshotInOrder(NoCall)
  BY NoCallTyped DEF ProofInOrder, SnapshotInOrder
<1> QED BY <1>1, <1>2, NoCallTyped, MoveKeeps

\* What every operation on the stores shares.
LEMMA OpKeepsInv ==
  ASSUME IInv, OpKeeps, UNCHANGED cookie, removing' \in BOOLEAN,
         mishaps' \in 0..MaxMishaps, call' \in [Request -> CallRec],
         \A p \in Request : call'[p] = call[p] \/ call'[p] = NoCall
  PROVE  IInv'
<1>1. ProofsInOrder' /\ SnapshotsInOrder'
  BY OnwardKeepsOrder DEF IInv, OpKeeps
<1>2. TypeOK'
  BY DEF IInv, TypeOK, OpKeeps, Onward
<1>3. CookieEarned'
  BY DEF IInv, CookieEarned
<1> QED BY <1>1, <1>2, <1>3 DEF IInv, OpKeeps, StoresOk

LEMMA OperateShape ==
  ASSUME IInv, NEW a \in Request \cup {Root}, Operate(a)
  PROVE  /\ a \in AccountWriter /\ Answers(a)
         /\ UNCHANGED cookie /\ removing' \in BOOLEAN
         /\ mishaps' \in 0..MaxMishaps
<1>1. mishaps \in 0..MaxMishaps /\ removing \in BOOLEAN
  BY DEF IInv, TypeOK
<1>2. ASSUME \/ CreateUser(a) \/ DeleteUser(a) \/ IssueSetupCode(a) \/ ChangeRole(a)
             \/ CreateGroup(a) \/ DeleteGroup(a)
      PROVE  /\ a \in AccountWriter /\ Answers(a) /\ UNCHANGED <<cookie, removing>>
             /\ \E s : Writes(s)
  BY <1>2 DEF CreateUser, DeleteUser, IssueSetupCode, ChangeRole, CreateGroup, DeleteGroup,
     Administers
<1>3. ASSUME \/ MintToken(a) \/ RevokeToken(a) \/ AddRule(a) \/ RemoveRule(a)
      PROVE  /\ a \in AccountWriter /\ Answers(a) /\ UNCHANGED <<cookie, removing, mishaps>>
  BY <1>3 DEF MintToken, RevokeToken, AddRule, RemoveRule, Administers
<1>4. ASSUME RemoveServer(a)
      PROVE  /\ a \in AccountWriter /\ Answers(a) /\ UNCHANGED <<cookie, mishaps>>
             /\ removing' = TRUE
  BY <1>4 DEF RemoveServer
<1> QED BY <1>1, <1>2, <1>3, <1>4, MishapsCounted DEF Operate

LEMMA OperateKeeps ==
  ASSUME IInv, NEW a \in Request \cup {Root}, Operate(a)
  PROVE  IInv'
<1>1. TypeOK /\ StoresOk /\ SnapshotsInOrder
  BY DEF IInv, StoresOk
<1>2. OpKeeps
  BY <1>1, CreateUserKeeps, DeleteUserKeeps, IssueSetupCodeKeeps, ChangeRoleKeeps,
     MintTokenKeeps, RevokeTokenKeeps, CreateGroupKeeps, DeleteGroupKeeps, AddRuleKeeps,
     RemoveRuleKeeps, RemoveServerKeeps DEF Operate
<1>3. call' \in [Request -> CallRec] /\ OnlyCurrentAnswered
  BY <1>1, OperateShape, AnswersShape DEF TypeOK
<1>4. \A p \in Request : call'[p] = call[p] \/ call'[p] = NoCall
  BY <1>3 DEF OnlyCurrentAnswered
<1> QED BY <1>2, <1>3, <1>4, OperateShape, OpKeepsInv

LEMMA ServersKeep ==
  ASSUME IInv, (\E p \in Request : AddServer(p)) \/ FinishRemoveServer
  PROVE  IInv'
<1>1. TypeOK /\ StoresOk /\ SnapshotsInOrder /\ call \in [Request -> CallRec]
      /\ mishaps \in 0..MaxMishaps
  BY DEF IInv, StoresOk, TypeOK
<1>2. ASSUME NEW p \in Request, AddServer(p) PROVE IInv'
  <2>1. OpKeeps
    BY <1>1, <1>2, AddServerKeeps
  <2>2. /\ UNCHANGED <<cookie, removing>> /\ Writes(AddServerWrites)
        /\ call' = [call EXCEPT ![p] = NoCall]
    BY <1>2 DEF AddServer, Ends
  <2>3. /\ call' \in [Request -> CallRec]
        /\ \A q \in Request : call'[q] = call[q] \/ call'[q] = NoCall
    BY <1>1, <2>2, NoCallTyped
  <2>4. mishaps' \in 0..MaxMishaps /\ removing' \in BOOLEAN
    BY <1>1, <2>2, MishapsCounted DEF TypeOK
  <2> QED BY <2>1, <2>2, <2>3, <2>4, OpKeepsInv
<1>3. ASSUME FinishRemoveServer PROVE IInv'
  <2>1. OpKeeps
    BY <1>1, <1>3, FinishRemoveServerKeeps
  <2>2. /\ UNCHANGED <<cookie, call>> /\ removing' = FALSE
        /\ Writes(<<disk, [disk EXCEPT !.rules = WithoutServer]>>)
    BY <1>3 DEF FinishRemoveServer
  <2>3. mishaps' \in 0..MaxMishaps
    BY <1>1, <2>2, MishapsCounted
  <2> QED BY <1>1, <2>1, <2>2, <2>3, OpKeepsInv
<1> QED BY <1>2, <1>3

\* A restart ends every request and starts the incarnations anew.
LEMMA RestartKeeps ==
  ASSUME IInv, Restart
  PROVE  IInv'
<1>1. /\ UNCHANGED <<disk, made, cookie, mishaps>> /\ removing' = FALSE
      /\ incarnation' = IF user.exists THEN 0 ELSE None
      /\ \A p \in Request : call'[p] = NoCall
      /\ call' \in [Request -> CallRec]
  BY NoCallTyped DEF Restart
<1>2. TypeOK'
  BY <1>1 DEF IInv, TypeOK
<1>3. NothingInherited' /\ OwnerLives' /\ ResetRevokes' /\ CookieEarned'
  BY <1>1 DEF IInv, NothingInherited, Held, Subject, user, OwnerLives, ResetRevokes,
     CookieEarned
<1>4. CredentialIsLast' /\ RemovingIsGone'
  BY <1>1 DEF IInv, CredentialIsLast, RemovingIsGone, user
<1>5. ProofsInOrder'
  BY <1>1, NoCallTyped DEF ProofsInOrder, ProofInOrder
<1>6. SnapshotsInOrder'
  <2>1. 0 # None
    BY ConstantsAssumption
  <2> QED BY <1>1, <2>1, NoCallTyped DEF SnapshotsInOrder, SnapshotInOrder, user
<1> QED BY <1>2, <1>3, <1>4, <1>5, <1>6 DEF IInv

-----------------------------------------------------------------------------
(* The theorems.                                                           *)

LEMMA InitHolds == Init => IInv
<1>1. ASSUME Init PROVE IInv
  <2>1. disk \in Disk
    BY <1>1, ConstantsAssumption
       DEF Init, Disk, UserRec, NameRec, ServerRec, NoTokens, Life, Credential
  <2>2. TypeOK
    <3>1. 0 \in Credential /\ 0 \in 0..MaxMishaps
      BY ConstantsAssumption DEF Credential
    <3>2. call \in [Request -> CallRec]
      BY <1>1, NoCallTyped DEF Init
    <3> QED BY <1>1, <2>1, <3>1, <3>2 DEF Init, TypeOK
  <2>3. ProofsInOrder /\ SnapshotsInOrder
    BY <1>1, NoCallTyped DEF Init, ProofsInOrder, ProofInOrder, SnapshotsInOrder,
       SnapshotInOrder, user
  <2> QED BY <1>1, <2>2, <2>3
          DEF Init, IInv, NothingInherited, Held, NoTokens, OwnerLives, ResetRevokes,
              CookieEarned, CredentialIsLast, RemovingIsGone, user
<1> QED BY <1>1

LEMMA NextHolds == IInv /\ [Next]_vars => IInv'
<1>1. ASSUME IInv, UNCHANGED vars PROVE IInv'
  <2>1. Still /\ UNCHANGED <<cookie, call>>
    BY <1>1 DEF vars, Still
  <2>2. ProofsInOrder' /\ SnapshotsInOrder'
    BY <1>1, <2>1 DEF IInv, Still, ProofsInOrder, ProofInOrder, SnapshotsInOrder,
       SnapshotInOrder, user
  <2> QED BY <1>1, <2>1, <2>2, StillKeeps DEF IInv, TypeOK, CookieEarned
<1>2. ASSUME IInv, Next PROVE IInv'
  BY <1>2, SignInKeeps, AdmitKeeps, EndsKeeps, OperateKeeps, ServersKeep, RestartKeeps DEF Next
<1> QED BY <1>1, <1>2

\* The inductive invariant: types; what a living user, group and server have; that the
\* credential of a user is the last one made; that what a request has read and proved
\* lies in the past in that order; and that a snapshot of the present incarnation is of
\* this life.
THEOREM Inductive == Spec => []IInv
BY InitHolds, NextHolds, PTL DEF Spec

\* Every variable stays in its type.
THEOREM Typed == Spec => []TypeOK
<1>1. IInv => TypeOK
  BY DEF IInv
<1> QED BY <1>1, Inductive, PTL

\* A user, a group or a server that has the name of an earlier one gets none of its
\* tokens and none of its rules, wherever a cascade was cut short.
THEOREM NamesStartClean == Spec => []NothingInherited
<1>1. IInv => NothingInherited
  BY DEF IInv
<1> QED BY <1>1, Inductive, PTL

\* The owner of a private server is the user that lives under its id.
THEOREM OwnersLive == Spec => []OwnerLives
<1>1. IInv => OwnerLives
  BY DEF IInv
<1> QED BY <1>1, Inductive, PTL

\* While a user is pending, no token is from before its code, even if the reset that
\* issued the code was cut short.
THEOREM ResetsRevoke == Spec => []ResetRevokes
<1>1. IInv => ResetRevokes
  BY DEF IInv
<1> QED BY <1>1, Inductive, PTL

\* A cookie binds the credential that its client proved, whatever changed during the
\* slow check.
THEOREM CookiesEarned == Spec => []CookieEarned
<1>1. IInv => CookieEarned
  BY DEF IInv
<1> QED BY <1>1, Inductive, PTL

\* The stores change only in a swap, or in an operation that ends the request of a
\* current actor and of nobody else.
LEMMA WhoWrites ==
  ASSUME IInv, [Next]_vars, disk' # disk
  PROVE  OnlyCurrentAnswered \/ \E q \in Request : Swap(q)
<1>1. call \in [Request -> CallRec]
  BY DEF IInv, TypeOK
<1>2. ASSUME NEW p \in Request, SignIn(p) \/ Admit(p) \/ ToolWrites(p) \/ GiveUp(p)
      PROVE  Swap(p)
  BY <1>2 DEF SignIn, BeginLogin, VerifyPassword, FinishLogin, BeginSetup, BeginSettings,
     Admit, AdmitCookie, AdmitToken, AdmitTool, ResolveTool, ToolWrites, GiveUp
<1>3. ASSUME NEW p \in Request, AddServer(p) PROVE OnlyCurrentAnswered
  <2>1. RequireCurrent(p) /\ call' = [call EXCEPT ![p] = NoCall]
    BY <1>3, ConstantsAssumption DEF AddServer, AccountWriter, Writer, AdminOf, Ends
  <2> QED BY <1>1, <2>1 DEF OnlyCurrentAnswered
<1>4. ASSUME NEW a \in Request \cup {Root}, Operate(a) PROVE OnlyCurrentAnswered
  BY <1>1, <1>4, OperateShape, AnswersShape
<1>5. ASSUME FinishRemoveServer PROVE OnlyCurrentAnswered
  BY <1>5 DEF FinishRemoveServer, OnlyCurrentAnswered
<1>6. ~Restart /\ ~UNCHANGED vars
  BY DEF Restart, vars
<1> QED BY <1>2, <1>3, <1>4, <1>5, <1>6 DEF Next

\* A credential is replaced in place only by a client that proved that same credential.
THEOREM SwapsEarned == Spec => SwapEarned
<1>1. ASSUME IInv, [Next]_vars, NEW p \in Request,
             call[p].pc = "answer", disk'.user.cred # user.cred, call'[p] # call[p]
      PROVE  call[p].proved = user.cred
  <2>1. disk' # disk /\ call \in [Request -> CallRec]
    BY <1>1 DEF user, IInv, TypeOK
  <2>2. ~RequireCurrent(p)
    BY <1>1 DEF RequireCurrent
  <2>3. PICK q \in Request : Swap(q)
    BY <1>1, <2>1, <2>2, WhoWrites DEF OnlyCurrentAnswered
  <2>4. call' = [call EXCEPT ![q] = NoCall]
    BY <2>3 DEF Swap, Signs, Ends
  <2>5. Swap(p)
    BY <1>1, <2>1, <2>3, <2>4
  <2>6. /\ user.cred = made /\ call[p].seen = made /\ made \in Nat
        /\ call[p].proved \in Nat \cup {None}
    BY <1>1, <2>1, <2>5, ConstantsAssumption
       DEF Swap, CanSwap, IInv, TypeOK, CredentialIsLast, Credential, CallRec
  <2>7. call[p].proved # None /\ call[p].seen <= call[p].proved /\ call[p].proved <= made
    BY <1>1 DEF IInv, ProofsInOrder, ProofInOrder
  <2> QED BY <2>6, <2>7
<1>2. IInv /\ [Next]_vars =>
        [\A p \in Request :
           call[p].pc = "answer" /\ disk'.user.cred # user.cred /\ call'[p] # call[p] =>
             call[p].proved = user.cred]_vars
  BY <1>1
<1> QED BY <1>2, Inductive, PTL DEF Spec, SwapEarned

\* A request with a snapshot writes only for the user it was admitted for, and only with
\* a role that this user still has.
THEOREM SnapshotsCurrent == Spec => SnapshotCurrent
<1>1. ASSUME IInv, [Next]_vars, NEW p \in Request, call[p].job # "tool", WritesAs(p)
      PROVE  OwnRight(p)
  <2>1. call[p].pc = "admitted" /\ call'[p] # call[p] /\ disk' # disk
    BY <1>1 DEF WritesAs, ToolWrites
  <2>2. ASSUME NEW q \in Request, Swap(q) PROVE FALSE
    <3>1. call' = [call EXCEPT ![q] = NoCall] /\ q # p
      BY <2>1, <2>2 DEF Swap, Signs, Ends
    <3> QED BY <1>1, <2>1, <3>1 DEF IInv, TypeOK
  <2>3. RequireCurrent(p)
    BY <1>1, <2>1, <2>2, WhoWrites DEF OnlyCurrentAnswered
  <2>4. SnapshotInOrder(call[p])
    BY <1>1 DEF IInv, SnapshotsInOrder
  <2> QED BY <1>1, <2>1, <2>3, <2>4 DEF RequireCurrent, SnapshotInOrder, OwnRight
<1>2. IInv /\ [Next]_vars =>
        [\A p \in Request : call[p].job # "tool" /\ WritesAs(p) => OwnRight(p)]_vars
  BY <1>1
<1> QED BY <1>2, Inductive, PTL DEF Spec, SnapshotCurrent

\* Every step but the removal of a rule keeps the rules in force.
LEMMA WhoDropsRules ==
  ASSUME IInv, [Next]_vars
  PROVE  RulesKept \/ \E a \in Request \cup {Root} : RemoveRule(a)
<1>1. TypeOK /\ StoresOk /\ SnapshotsInOrder /\ disk \in Disk
  BY DEF IInv, StoresOk, TypeOK
<1>2. ASSUME disk' = disk PROVE RulesKept
  BY <1>2, CascadesKeepRules
<1>3. ASSUME NEW q \in Request, Swap(q) PROVE RulesKept
  <2> DEFINE new == [user EXCEPT !.cred = made', !.active = TRUE]
  <2>1. disk' = [disk EXCEPT !.user = new]
    BY <1>3 DEF Swap, user
  <2>2. disk'.rules = disk.rules
    <3> HIDE DEF new
    <3> QED BY <1>1, <2>1, DiskEdits
  <2> QED BY <2>2, CascadesKeepRules
<1>4. ASSUME NEW p \in Request, SignIn(p) \/ Admit(p) \/ ToolWrites(p) \/ GiveUp(p)
      PROVE  Swap(p) \/ disk' = disk
  BY <1>4 DEF SignIn, BeginLogin, VerifyPassword, FinishLogin, BeginSetup, BeginSettings,
     Admit, AdmitCookie, AdmitToken, AdmitTool, ResolveTool, ToolWrites, GiveUp
<1>5. ASSUME NEW a \in Request \cup {Root}, Operate(a) PROVE RulesKept \/ RemoveRule(a)
  BY <1>1, <1>5, CreateUserKeeps, DeleteUserKeeps, IssueSetupCodeKeeps, ChangeRoleKeeps,
     MintTokenKeeps, RevokeTokenKeeps, CreateGroupKeeps, DeleteGroupKeeps, AddRuleKeeps,
     RemoveServerKeeps DEF Operate
<1>6. ASSUME NEW p \in Request, AddServer(p) PROVE RulesKept
  BY <1>1, <1>6, AddServerKeeps
<1>7. ASSUME FinishRemoveServer PROVE RulesKept
  BY <1>1, <1>7, FinishRemoveServerKeeps
<1>8. Restart \/ UNCHANGED vars => disk' = disk
  BY DEF Restart, vars
<1> QED BY <1>2, <1>3, <1>4, <1>5, <1>6, <1>7, <1>8 DEF Next

\* A cascade cut short never takes a rule from a subject and a server that stay.
THEOREM RulesStayInForce == Spec => RulesStay
<1>1. IInv /\ [Next]_vars =>
        [\A r \in disk.rules \ disk'.rules :
           InForce(disk, r) /\ InForce(disk', r) =>
             \E a \in Request \cup {Root} : RemoveRule(a)]_vars
  BY WhoDropsRules DEF RulesKept
<1> QED BY <1>1, Inductive, PTL DEF Spec, RulesStay
=============================================================================
