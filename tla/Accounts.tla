------------------------------ MODULE Accounts ------------------------------
(***************************************************************************)
(* Accounts: one local user id, one group name and one private server key, *)
(* each of which is created, deleted and created again; the credential of  *)
(* the user, the tokens, the grant rules and the cookie that refer to     *)
(* them; the requests under way; and a failed write or a crash between two *)
(* stores.                                                                 *)
(*                                                                         *)
(* What shares a name shares nothing else: a life counts the creations of  *)
(* a name, and is what no store records.  A credential is a setup code or  *)
(* a salted password hash; neither ever repeats, so credentials are        *)
(* numbered in the order in which they are made.                           *)
(***************************************************************************)
EXTENDS Naturals, Sequences, FiniteSets

CONSTANTS
  Request,     \* slots for requests under way
  Token,       \* slots for API tokens of the user
  Root,        \* the bootstrap admin, whose account never changes
  None,
  MaxTokens,   \* MAX_USER_TOKENS
  MaxLives,    \* bound on the lives of the three names together
  MaxMade,     \* bound on the credentials made
  MaxRules,    \* bound on the rules stored at a time
  MaxMishaps   \* bound on writes that fail between two stores

ASSUME ConstantsAssumption ==
  /\ {MaxTokens, MaxLives, MaxMade, MaxRules, MaxMishaps} \subseteq Nat
  /\ Root \notin Request
  /\ None \notin Request \cup Token \cup {Root} \cup Nat

VARIABLES
  disk,         \* users.json, the token files, rules.json, the server registry
  made,         \* how many credentials were made
  incarnation,  \* `_incarnations[id]`, memory only
  removing,     \* the Supervisor is taking the private server down
  cookie,       \* the session cookie signed last; no older one binds more than it does
  call,         \* the requests under way
  mishaps

vars == <<disk, made, incarnation, removing, cookie, call, mishaps>>

Life == 0..MaxLives
Credential == 0..MaxMade

\* cred: the hash of an active user, the code of a pending one, 0 of none.
UserRec == [exists : BOOLEAN, life : Life, cred : Credential, active : BOOLEAN,
            admin : BOOLEAN]
NameRec == [exists : BOOLEAN, life : Life]

\* owner: the life of the user that added the server.
ServerRec == [exists : BOOLEAN, life : Life, owner : Life]

\* under: the credential that was current at the mint.
TokenRec == [admin : BOOLEAN, life : Life, under : Credential]

\* A rule on the user or on the group, for every server or for the private one.
RuleRec == [subject : {"user", "group"}, life : Life, server : {"any", "own"},
            serverLife : Life]

Disk == [user : UserRec, group : NameRec, server : ServerRec,
         tokens : [Token -> TokenRec \cup {None}], rules : SUBSET RuleRec]

\* proved: the credential whose code or password the client gave.
Cookie == [binding : Credential, proved : Credential]

\* seen: the credential state a request read before its slow hash.  life: of the user
\* that was admitted.  incarnation, admin: the snapshot `User`.
CallRec == [job : {"none", "login", "setup", "settings", "page", "api", "tool"},
            pc : {"idle", "verify", "answer", "queued", "admitted"},
            seen : Credential \cup {None}, proved : Credential \cup {None},
            life : Life, incarnation : Nat \cup {None}, admin : BOOLEAN]
NoCall == [job |-> "none", pc |-> "idle", seen |-> None, proved |-> None,
           life |-> 0, incarnation |-> None, admin |-> FALSE]

TypeOK ==
  /\ disk \in Disk
  /\ made \in Credential
  /\ incarnation \in Nat \cup {None}
  /\ removing \in BOOLEAN
  /\ cookie \in Cookie \cup {None}
  /\ call \in [Request -> CallRec]
  /\ mishaps \in 0..MaxMishaps

NoTokens == [t \in Token |-> None]

Init ==
  /\ disk = [user |-> [exists |-> FALSE, life |-> 0, cred |-> 0, active |-> FALSE,
                       admin |-> FALSE],
             group |-> [exists |-> FALSE, life |-> 0],
             server |-> [exists |-> FALSE, life |-> 0, owner |-> 0],
             tokens |-> NoTokens, rules |-> {}]
  /\ made = 0
  /\ incarnation = None
  /\ removing = FALSE
  /\ cookie = None
  /\ call = [p \in Request |-> NoCall]
  /\ mishaps = 0

user == disk.user

CanBegin == user.life + disk.group.life + disk.server.life < MaxLives

-----------------------------------------------------------------------------
(* Sessions.                                                               *)

\* Mutation: a pending user binds its empty hash.
BindingOfPending ==
  IF ~user.exists THEN None ELSE IF user.active THEN user.cred ELSE 0

\* `session_binding`: a pending user has none.
Binding == IF user.exists /\ user.active THEN user.cred ELSE None

Begins(p, rec) == call[p] = NoCall /\ call' = [call EXCEPT ![p] = rec]

Ends(p) == call' = [call EXCEPT ![p] = NoCall]

Moves(p, rec) == call' = [call EXCEPT ![p] = rec]

\* A client hangs up, or the request is refused: nothing is written.
GiveUp(p) ==
  /\ call[p] # NoCall
  /\ Ends(p)
  /\ UNCHANGED <<disk, made, incarnation, removing, cookie, mishaps>>

Signs(p, binding, proved) ==
  /\ cookie' = [binding |-> binding, proved |-> proved]
  /\ Ends(p)

\* `login_post` reads the binding, hands the check to a thread, ...  With no binding it
\* is refused in the end, whatever the check finds.
BeginLogin(p) ==
  /\ Binding # None
  /\ Begins(p, [NoCall EXCEPT !.job = "login", !.pc = "verify", !.seen = Binding])
  /\ UNCHANGED <<disk, made, incarnation, removing, cookie, mishaps>>

\* ... which reads the record once and finds that the password fits its hash.
VerifyPassword(p) ==
  /\ call[p].job \in {"login", "settings"} /\ call[p].pc = "verify"
  /\ user.exists /\ user.active
  /\ Moves(p, [call[p] EXCEPT !.pc = "answer", !.proved = user.cred])
  /\ UNCHANGED <<disk, made, incarnation, removing, cookie, mishaps>>

\* The binding is read again, and the one read before is signed.
FinishLogin(p) ==
  /\ call[p].job = "login" /\ call[p].pc = "answer"
  /\ call[p].seen = Binding
  /\ Signs(p, call[p].seen, call[p].proved)
  /\ UNCHANGED <<disk, made, incarnation, removing, mishaps>>

\* `setup_post`: the code fits a pending user and has not expired.
BeginSetup(p) ==
  /\ user.exists /\ ~user.active
  /\ Begins(p, [NoCall EXCEPT !.job = "setup", !.pc = "answer", !.seen = user.cred,
                              !.proved = user.cred])
  /\ UNCHANGED <<disk, made, incarnation, removing, cookie, mishaps>>

\* `settings_password`, past its form: the binding is the expected state.
BeginSettings(p) ==
  /\ call[p].job = "page" /\ call[p].pc = "admitted"
  /\ Binding # None
  /\ Moves(p, [NoCall EXCEPT !.job = "settings", !.pc = "verify", !.seen = Binding])
  /\ UNCHANGED <<disk, made, incarnation, removing, cookie, mishaps>>

\* Mutation: the credential is replaced whatever it is by now.
CanSwapAny(p) == user.exists

\* The compare of `replace_credential`.
CanSwap(p) == user.exists /\ user.cred = call[p].seen

\* The swap and the cookie of a setup or a new password: one step.
Swap(p) ==
  /\ call[p].job \in {"setup", "settings"} /\ call[p].pc = "answer"
  /\ CanSwap(p)
  /\ made < MaxMade /\ made' = made + 1
  /\ disk' = [disk EXCEPT !.user.cred = made', !.user.active = TRUE]
  /\ Signs(p, made', made')
  /\ UNCHANGED <<incarnation, removing, mishaps>>

-----------------------------------------------------------------------------
(* Admission: a request carries a snapshot of its user from here on.       *)

Snapshot(job) ==
  [NoCall EXCEPT !.job = job, !.pc = "admitted", !.life = user.life,
                 !.incarnation = incarnation, !.admin = user.admin]

\* `SessionGate`, of the pages: a cookie that still verifies.
AdmitCookie(p) ==
  /\ cookie # None /\ cookie.binding = Binding
  /\ Begins(p, Snapshot("page"))
  /\ UNCHANGED <<disk, made, incarnation, removing, cookie, mishaps>>

\* A token of admin scope has it only while its user is an admin.
AdminToken(t) ==
  /\ disk.tokens[t] # None /\ disk.tokens[t].admin
  /\ user.exists /\ user.admin

\* `AdminTokenGate`, of /api.
AdmitToken(p) ==
  /\ \E t \in Token : AdminToken(t)
  /\ Begins(p, Snapshot("api"))
  /\ UNCHANGED <<disk, made, incarnation, removing, cookie, mishaps>>

\* `HashedTokenVerifier`, of /mcp: the request is admitted with its scope, ...
AdmitTool(p) ==
  /\ \E t \in Token : AdminToken(t)
  /\ Begins(p, [NoCall EXCEPT !.job = "tool", !.pc = "queued", !.life = user.life])
  /\ UNCHANGED <<disk, made, incarnation, removing, cookie, mishaps>>

\* ... and the tool resolves the name of its user when it runs.
ResolveTool(p) ==
  /\ call[p].pc = "queued"
  /\ user.exists
  /\ Moves(p, [Snapshot("tool") EXCEPT !.life = call[p].life])
  /\ UNCHANGED <<disk, made, incarnation, removing, cookie, mishaps>>

-----------------------------------------------------------------------------
(* Who may write: `require_current`, then the role of the snapshot.        *)

\* Mutation: a name is enough.
RequireCurrentName(p) ==
  call[p].pc = "admitted" /\ user.exists /\ (call[p].admin => user.admin)

RequireCurrent(p) ==
  /\ call[p].pc = "admitted"
  /\ user.exists /\ incarnation = call[p].incarnation
  /\ call[p].admin => user.admin

\* The actor of a write: the bootstrap admin or a request that is still current.
Writer == {Root} \cup {p \in Request : RequireCurrent(p)}

\* The tools of /mcp have no operation on accounts.
AccountWriter == {Root} \cup {p \in Writer \ {Root} : call[p].job \in {"page", "api"}}

AdminOf(a) == a = Root \/ (a \in Request /\ call[a].admin)
Administers(a) == a \in AccountWriter /\ AdminOf(a)

Answers(a) == IF a = Root THEN UNCHANGED call ELSE Ends(a)

\* An operation goes through a sequence of states of the stores; a write may raise.
Writes(states) ==
  \/ /\ disk' = states[Len(states)]
     /\ UNCHANGED mishaps
  \/ /\ mishaps < MaxMishaps /\ mishaps' = mishaps + 1
     /\ disk' \in {states[i] : i \in 1..(Len(states) - 1)}

WithoutSubject(s) == {r \in disk.rules : r.subject # s}
WithoutServer == {r \in disk.rules : r.server # "own"}

-----------------------------------------------------------------------------
(* Users.                                                                  *)

NewUser(admin) ==
  [exists |-> TRUE, life |-> user.life + 1, cred |-> made + 1, active |-> FALSE,
   admin |-> admin]

\* Mutation: what the id left behind stays.
CreateUserAlone(admin) == <<[disk EXCEPT !.user = NewUser(admin)]>>

\* `create_user`: the residue of the id first, the identity last.
CreateUserWrites(admin) ==
  LET untokened == [disk EXCEPT !.tokens = NoTokens]
      unruled   == [untokened EXCEPT !.rules = WithoutSubject("user")]
  IN  <<untokened, unruled, [unruled EXCEPT !.user = NewUser(admin)]>>

\* A deleted id starts its next incarnation, once the write is done.
CreateUser(a) ==
  /\ Administers(a)
  /\ ~user.exists /\ CanBegin /\ made < MaxMade
  /\ \E admin \in BOOLEAN : Writes(CreateUserWrites(admin))
  /\ IF disk'.user.exists
     THEN /\ made' = made + 1
          /\ incarnation' = IF incarnation = None THEN 0 ELSE incarnation + 1
     ELSE UNCHANGED <<made, incarnation>>
  /\ Answers(a)
  /\ UNCHANGED <<removing, cookie>>

NoUser == [user EXCEPT !.exists = FALSE, !.cred = 0, !.active = FALSE, !.admin = FALSE]

\* Mutation: the user goes last.
DeleteUserLast ==
  LET untokened == [disk EXCEPT !.tokens = NoTokens]
      unruled   == [untokened EXCEPT !.rules = WithoutSubject("user")]
  IN  <<untokened, unruled, [unruled EXCEPT !.user = NoUser]>>

\* `delete_user`: the identity first, so that the rest is unreachable.
DeleteUserWrites ==
  LET gone      == [disk EXCEPT !.user = NoUser]
      untokened == [gone EXCEPT !.tokens = NoTokens]
  IN  <<gone, untokened, [untokened EXCEPT !.rules = WithoutSubject("user")]>>

\* Mutation: servers are not asked for.
CanDeleteAny == user.exists

\* An owner of servers is not deleted.
CanDelete == user.exists /\ ~disk.server.exists

DeleteUser(a) ==
  /\ Administers(a)
  /\ CanDelete
  /\ Writes(DeleteUserWrites)
  /\ Answers(a)
  /\ UNCHANGED <<made, incarnation, removing, cookie>>

\* Mutation: the hash is cleared and no code is stored.
ResetWithoutCode == [user EXCEPT !.cred = None, !.active = FALSE]

Reset == [user EXCEPT !.cred = made + 1, !.active = FALSE]

\* Mutation: the identity first.
ResetLate ==
  LET pending == [disk EXCEPT !.user = Reset]
  IN  <<pending, [pending EXCEPT !.tokens = NoTokens]>>

\* `issue_setup_code`: the tokens first.
ResetWrites ==
  LET untokened == [disk EXCEPT !.tokens = NoTokens]
  IN  <<untokened, [untokened EXCEPT !.user = Reset]>>

IssueSetupCode(a) ==
  /\ Administers(a)
  /\ user.exists /\ made < MaxMade
  /\ Writes(ResetWrites)
  /\ made' = IF disk'.user = user THEN made ELSE made + 1
  /\ Answers(a)
  /\ UNCHANGED <<incarnation, removing, cookie>>

ChangedRole == [user EXCEPT !.admin = ~@]

\* `set_admin`, `set_groups`, `change_groups`
ChangeRole(a) ==
  /\ Administers(a)
  /\ user.exists
  /\ Writes(<<[disk EXCEPT !.user = ChangedRole]>>)
  /\ Answers(a)
  /\ UNCHANGED <<made, incarnation, removing, cookie>>

-----------------------------------------------------------------------------
(* Tokens.                                                                 *)

Held == {t \in Token : disk.tokens[t] # None}

\* An admin mints any token for the user, past the cap; a user one of scope mcp.
MintToken(a) ==
  /\ user.exists
  /\ \E t \in Token \ Held, admin \in BOOLEAN :
       /\ \/ Administers(a)
          \/ a \in AccountWriter /\ ~AdminOf(a) /\ ~admin /\ Cardinality(Held) < MaxTokens
       /\ disk' = [disk EXCEPT !.tokens[t] = [admin |-> admin, life |-> user.life,
                                              under |-> user.cred]]
  /\ Answers(a)
  /\ UNCHANGED <<made, incarnation, removing, cookie, mishaps>>

RevokeToken(a) ==
  /\ a \in AccountWriter
  /\ \E t \in Held : disk' = [disk EXCEPT !.tokens[t] = None]
  /\ Answers(a)
  /\ UNCHANGED <<made, incarnation, removing, cookie, mishaps>>

-----------------------------------------------------------------------------
(* Groups and rules.                                                       *)

\* `create_group`: the residue of the name first.
CreateGroupWrites ==
  LET unruled == [disk EXCEPT !.rules = WithoutSubject("group")]
  IN  <<unruled, [unruled EXCEPT !.group = [exists |-> TRUE, life |-> @.life + 1]]>>

CreateGroup(a) ==
  /\ Administers(a)
  /\ ~disk.group.exists /\ CanBegin
  /\ Writes(CreateGroupWrites)
  /\ Answers(a)
  /\ UNCHANGED <<made, incarnation, removing, cookie>>

\* `delete_group`: the group first.
DeleteGroupWrites ==
  LET gone == [disk EXCEPT !.group.exists = FALSE]
  IN  <<gone, [gone EXCEPT !.rules = WithoutSubject("group")]>>

DeleteGroup(a) ==
  /\ Administers(a)
  /\ disk.group.exists
  /\ Writes(DeleteGroupWrites)
  /\ Answers(a)
  /\ UNCHANGED <<made, incarnation, removing, cookie>>

Subject(s) == IF s = "user" THEN user ELSE disk.group

\* `add_rule`: its subject and its server exist.
AddRule(a) ==
  /\ Administers(a)
  /\ Cardinality(disk.rules) < MaxRules
  /\ \E s \in {"user", "group"}, on \in {"any", "own"} :
       /\ Subject(s).exists
       /\ on = "own" => disk.server.exists
       /\ disk' = [disk EXCEPT !.rules = @ \cup
                     {[subject |-> s, life |-> Subject(s).life, server |-> on,
                       serverLife |-> IF on = "own" THEN disk.server.life ELSE 0]}]
  /\ Answers(a)
  /\ UNCHANGED <<made, incarnation, removing, cookie, mishaps>>

RemoveRule(a) ==
  /\ Administers(a)
  /\ \E r \in disk.rules : disk' = [disk EXCEPT !.rules = @ \ {r}]
  /\ Answers(a)
  /\ UNCHANGED <<made, incarnation, removing, cookie, mishaps>>

-----------------------------------------------------------------------------
(* Servers: the private one of the user, and those of the gateway.         *)

\* Mutation: a key that is being removed may be taken.
CanAddWhileRemoving == ~disk.server.exists

CanAdd == ~disk.server.exists /\ ~removing

\* `Supervisor.add`: the rules on the free key first.
AddServerWrites ==
  LET unruled == [disk EXCEPT !.rules = WithoutServer]
  IN  <<unruled, [unruled EXCEPT !.server = [exists |-> TRUE, life |-> @.life + 1,
                                             owner |-> user.life]]>>

AddServer(p) ==
  /\ p \in AccountWriter /\ ~AdminOf(p)
  /\ CanAdd /\ CanBegin
  /\ Writes(AddServerWrites)
  /\ Ends(p)
  /\ UNCHANGED <<made, incarnation, removing, cookie>>

\* `Supervisor.remove` up to its teardown; by the owner or an admin.
RemoveServer(a) ==
  /\ a \in AccountWriter
  /\ disk.server.exists
  /\ disk' = [disk EXCEPT !.server.exists = FALSE]
  /\ removing' = TRUE
  /\ Answers(a)
  /\ UNCHANGED <<made, incarnation, cookie, mishaps>>

\* The rest of it: the rules on the key, unless a write before that raises.
FinishRemoveServer ==
  /\ removing /\ removing' = FALSE
  /\ Writes(<<disk, [disk EXCEPT !.rules = WithoutServer]>>)
  /\ UNCHANGED <<made, incarnation, cookie, call>>

\* A tool of /mcp writes a server of the gateway, which is not among these stores: the
\* write is this step.  The pages and /api have such writes too, under the same guard.
ToolWrites(p) ==
  /\ p \in Writer /\ AdminOf(p) /\ call[p].job = "tool"
  /\ Ends(p)
  /\ UNCHANGED <<disk, made, incarnation, removing, cookie, mishaps>>

-----------------------------------------------------------------------------

\* The process dies and starts again: the stores stay, memory starts anew.
Restart ==
  /\ call' = [p \in Request |-> NoCall]
  /\ incarnation' = IF user.exists THEN 0 ELSE None
  /\ removing' = FALSE
  /\ UNCHANGED <<disk, made, cookie, mishaps>>

SignIn(p) ==
  \/ BeginLogin(p) \/ VerifyPassword(p) \/ FinishLogin(p)
  \/ BeginSetup(p) \/ BeginSettings(p) \/ Swap(p)

Admit(p) == AdmitCookie(p) \/ AdmitToken(p) \/ AdmitTool(p) \/ ResolveTool(p)

Operate(a) ==
  \/ CreateUser(a) \/ DeleteUser(a) \/ IssueSetupCode(a) \/ ChangeRole(a)
  \/ MintToken(a) \/ RevokeToken(a)
  \/ CreateGroup(a) \/ DeleteGroup(a) \/ AddRule(a) \/ RemoveRule(a)
  \/ RemoveServer(a)

Next ==
  \/ \E p \in Request : SignIn(p) \/ Admit(p) \/ AddServer(p) \/ ToolWrites(p) \/ GiveUp(p)
  \/ \E a \in Request \cup {Root} : Operate(a)
  \/ FinishRemoveServer \/ Restart

Spec == Init /\ [][Next]_vars

-----------------------------------------------------------------------------
(* Properties.                                                             *)

\* A name that is used again starts clean: a living user holds no token and meets no
\* rule of an earlier user of its id, a group or a server none of an earlier one,
\* whatever was cut short in between (`create_user`, `create_group`, `add`).
NothingInherited ==
  /\ user.exists => \A t \in Held : disk.tokens[t].life = user.life
  /\ \A r \in disk.rules :
       /\ Subject(r.subject).exists => r.life = Subject(r.subject).life
       /\ r.server = "own" /\ disk.server.exists => r.serverLife = disk.server.life

\* A private server belongs to the user that lives now, not to one that had the id
\* before (`delete_user` refuses an owner, `add` a request of a deleted user).
OwnerLives ==
  disk.server.exists => user.exists /\ disk.server.owner = user.life

\* A reset ends every token: while a user is pending, no token is from before its code
\* was issued, even if the reset was cut short (`issue_setup_code`).
ResetRevokes ==
  user.exists /\ ~user.active =>
    \A t \in Held : disk.tokens[t].under = user.cred

\* A cookie binds the very credential that its client gave the password of or has just
\* set, whatever changed during the slow check (`login_post`, `setup_post`).
CookieEarned == cookie # None => cookie.binding = cookie.proved

\* A credential is replaced in place only by a client that proved that same credential;
\* a request that checked an older one, or the code of an older reset, changes nothing.
SwapEarned ==
  [][\A p \in Request :
       call[p].pc = "answer" /\ disk'.user.cred # user.cred /\ call'[p] # call[p] =>
         call[p].proved = user.cred]_vars

WritesAs(p) ==
  \/ ToolWrites(p)
  \/ call[p].pc = "admitted" /\ call'[p] # call[p] /\ disk' # disk

OwnRight(p) ==
  user.exists /\ user.life = call[p].life /\ (call[p].admin => user.admin)

\* A request that was admitted with a snapshot writes only while the user it was
\* admitted for lives and still has the role (`require_current`).
SnapshotCurrent ==
  [][\A p \in Request : call[p].job # "tool" /\ WritesAs(p) => OwnRight(p)]_vars

\* A request of a deleted user never lands once its id is in use again.
NoWriteByDeleted ==
  [][\A p \in Request : WritesAs(p) => user.exists /\ user.life = call[p].life]_vars

InForce(d, r) ==
  /\ IF r.subject = "user" THEN d.user.exists ELSE d.group.exists
  /\ r.server = "own" => d.server.exists

\* A rule in force is lost only by its own removal or with its subject or its server: a
\* cascade cut short never takes a deny from a user who can still act.
RulesStay ==
  [][\A r \in disk.rules \ disk'.rules :
       InForce(disk, r) /\ InForce(disk', r) => \E a \in Request \cup {Root} : RemoveRule(a)]_vars
=============================================================================
