------------------------------- MODULE Gateway ------------------------------
(***************************************************************************)
(* The gateway as its callers meet it: one MCP request through the caller  *)
(* router, or one action run from the dashboard, beside every operation of *)
(* `Stores`.  A request decides who may see what when it starts and then   *)
(* awaits the servers it asked; mutes, rules, roles, edits, removals and   *)
(* crashes fall between the answers.                                       *)
(***************************************************************************)
EXTENDS Stores, Routing, Redaction

CONSTANTS
  Content,      \* the bare names a server publishes, by kind
  Bears,        \* those of its tools that carry the one app identity asked for
  Capable,      \* the servers with the `actions` grant
  Tagged,       \* the tools marked as actions, as [key, name]
  Admins,       \* the administrators when the model starts
  Asked,        \* the identities that callers ask for, by kind
  LineOf        \* what a process with this environment writes to its log

ASSUME GatewayAssumption ==
  /\ Content \in [Key -> [Kind -> SUBSET Name]]
  /\ \A k \in Key : Bears[k] \subseteq Content[k]["tool"]
  /\ Capable \subseteq Key /\ Admins \subseteq User
  /\ Tagged \subseteq [key : Capable, name : Name]
  /\ \A e \in Env : LineOf[e] \in Seq(Letter)
  /\ Mask \notin Letter

VARIABLES
  admins,   \* who holds the role now
  req,      \* the request
  act       \* the action run

vars == <<svars, admins, req, act>>

Path == {"list", "get", "hash", "app", "instructions"}

NoReq == [phase |-> "idle"]
NoAct == [phase |-> "idle"]

-----------------------------------------------------------------------------
(* What a server shows.                                                    *)

\* The whole answer of a server to an instructions read is one component with no name.
Components(k, kind) == {[key |-> k, name |-> n] : n \in Content[k][kind] \cup {None}}

Routed == req.routed

\* A mark matches the bare name, whatever the kind.
Lets(marks, c) == IF c.name = None THEN ~marks.all ELSE Visible(FALSE, marks, c.name)

Mounted == None

\* A provider that was unpublished keeps the marks of that moment: `_apply` no longer
\* reaches the `Visibility` that the request still holds.
ChainMarks(k) == IF req.chain[k] = Mounted THEN live[k] ELSE req.chain[k]

\* The scope filter of a server with the grant hides its actions from other sessions.
ScopeLets(c) == c \in Tagged => req.scoped

\* The part of what k shows that the question asks for.
Wanted(c) ==
  IF req.path = "instructions" THEN c.name = None
  ELSE /\ c.name # None
       /\ req.path = "get" \/ req.phase = "named" => Ident(req.kind, c) = req.ident
       /\ req.path \in {"hash", "app"} /\ req.phase = "ask" => c.name \in Bears[c.key]

\* An instructions read goes to the process itself, past the chain.
Shows(k) ==
  {c \in Components(k, req.kind) :
     /\ Wanted(c)
     /\ req.path = "instructions" \/ (Lets(ChainMarks(k), c) /\ ScopeLets(c))}

\* History: what the stored policy shows of these servers.
Stored(kind, keys, root, s) ==
  {c \in UNION {Components(k, kind) : k \in keys} :
     s[c.key] # None /\ Lets(MarksOf(root, s[c.key]), c)}

-----------------------------------------------------------------------------
(* A request.                                                              *)

Frame == UNCHANGED <<memory, files, rules, child, builtinLive, log, source, seen>>

\* Mutation: a server whose provider is gone is asked too.
RoutedUnpublished(path, kind, reach) == reach.keys

\* `routed`: the published servers of the reach. Where the rules speak of the server as a
\* whole they decide here; the instructions ask the mute too.
RoutedBy(path, kind, reach) ==
  {k \in reach.keys :
     /\ live[k] # None
     /\ kind # "tool" \/ path = "instructions" => AllowsServer(reach, k)
     /\ path = "instructions" => ~MarksOf(rootMuted, spec[k]).all}

\* `_route`: one `Reach` per operation, built before the servers are asked.
Receive(path, kind, ident, u, scoped) ==
  LET reach == ReachOf(rules, u, u \in admins, "mcp", Listed, ApprovedKeys)
      keys == RoutedBy(path, kind, reach)
      now == Stored(kind, keys, rootMuted, specs)
  IN  /\ req = NoReq /\ Pay({"req"})
      /\ scoped => u \in admins
      /\ req' = [phase |-> "ask", path |-> path, kind |-> kind, ident |-> ident,
                 scoped |-> scoped, reach |-> reach, routed |-> keys,
                 chain |-> [k \in Key |-> Mounted], waiting |-> keys, hits |-> {},
                 failed |-> {}, missed |-> {}, cands |-> {}, shown |-> now, steady |-> now]
      /\ Frame /\ UNCHANGED <<admins, act>>

Asking == req.phase \in {"ask", "named"}

\* The middleware of a new session: no block is read without a user.
Initialize(u, scoped) == Receive("instructions", "tool", None, u, scoped)

Answer(k) ==
  /\ Asking /\ k \in req.waiting
  /\ req' = [req EXCEPT !.waiting = @ \ {k}, !.hits = @ \cup Shows(k)]
  /\ Frame /\ UNCHANGED <<admins, act, left>>

\* A server that is torn down refuses the lease; another one may fail as well.
AnswerFails(k) ==
  /\ Asking /\ k \in req.waiting
  /\ IF live[k] = None THEN UNCHANGED left ELSE Pay({"answer"})
  /\ req' = [req EXCEPT !.waiting = @ \ {k}, !.failed = @ \cup {k},
                        !.missed = @ \cup {k}]
  /\ Frame /\ UNCHANGED <<admins, act>>

Answered == Asking /\ req.waiting = {}
Passed == {c \in req.hits : Passes(req.reach, req.kind, c)}

Returns(result) ==
  /\ req' = [phase |-> "done", result |-> result]
  /\ UNCHANGED <<svars, admins, act>>

\* list_tools, list_prompts, list_resources, list_resource_templates.
ReturnList == req.path = "list" /\ Returns(Unique(req.kind, Passed, req.failed))

\* get_tool, get_prompt, get_resource, get_resource_template.
ReturnGet == req.path = "get" /\ Returns(Single(req.kind, req.ident, Passed, req.failed))

\* `instructions_blocks`: a failed read leaves its block out.
ReturnInstructions == req.path = "instructions" /\ Returns(req.hits)

\* `_identity_call`: the candidates of the first answer, each asked again by its name.
AskByName(c, others) ==
  /\ req' = [req EXCEPT !.phase = "named", !.ident = Ident("tool", c), !.cands = others,
                        !.waiting = Routed, !.hits = {}, !.failed = {}]
  /\ UNCHANGED <<svars, admins, act>>

Lookup ==
  /\ req.path \in {"hash", "app"} /\ req.phase = "ask"
  /\ IF req.failed # {} \/ Passed = {} \/ (req.path = "hash" /\ Cardinality(Passed) > 1)
     THEN Returns({})
     ELSE \E c \in Passed : AskByName(c, Passed \ {c})

Named ==
  /\ req.phase = "named"
  /\ LET single == Single("tool", req.ident, Passed, req.failed)
     IN  IF req.failed # {} \/ single # {} \/ req.cands = {}
         THEN Returns(IF req.failed # {} THEN {} ELSE single)
         ELSE \E c \in req.cands : AskByName(c, req.cands \ {c})

Request ==
  \/ \E u \in User, scoped \in BOOLEAN :
       \/ \E kind \in Kind : Receive("list", kind, None, u, scoped)
       \/ \E kind \in Kind : \E ident \in Asked[kind] : Receive("get", kind, ident, u, scoped)
       \/ \E path \in {"hash", "app"} : Receive(path, "tool", None, u, scoped)
       \/ Initialize(u, scoped)
  \/ \E k \in Key : Answer(k) \/ AnswerFails(k)
  \/ Answered /\ (ReturnList \/ ReturnGet \/ ReturnInstructions \/ Lookup \/ Named)

-----------------------------------------------------------------------------
(* An action run, `run_action`.                                            *)

\* The entry checks the actor; the lease is granted while the server is published.
BeginAction(u, k, n) ==
  /\ act = NoAct /\ u \in admins
  /\ k \in Capable /\ live[k] # None
  /\ Pay({"act"})
  /\ act' = [phase |-> "listing", actor |-> u, key |-> k, name |-> n, rec |-> spec[k],
             closed |-> FALSE]
  /\ Frame /\ UNCHANGED <<admins, req>>

\* Mutation: the actor is checked at entry only.
StillEntitled(u) == TRUE
Entitled(u) == u \in admins

\* Everything after the listing is one step: the classification, the mute, the actor once
\* more, the call. A closed generation ends the lease with a transport error.
FinishAction ==
  /\ act.phase = "listing"
  /\ act' = [phase |->
       CASE act.closed -> "transport"
         [] ~act.closed /\ [key |-> act.key, name |-> act.name] \notin Tagged -> "unknown"
         [] ~act.closed /\ [key |-> act.key, name |-> act.name] \in Tagged ->
              IF ~Visible(FALSE, MarksOf(rootMuted, act.rec), act.name) THEN "muted"
              ELSE IF Entitled(act.actor) THEN "ran" ELSE "refused"]
  /\ UNCHANGED <<svars, admins, req>>

ChangeRole(u) ==
  /\ Pay({"policy"})
  /\ admins' = IF u \in admins THEN admins \ {u} ELSE admins \cup {u}
  /\ Frame /\ UNCHANGED <<req, act>>

-----------------------------------------------------------------------------
(* What a step of `Stores` does to a request and to an action run.         *)

\* The child object of an action run outlives its key; `child.spec` is that of the object.
Follow ==
  /\ req' =
       IF ~Asking THEN req
       ELSE [req EXCEPT !.chain = [k \in Key |->
                                     IF k \in Routed /\ @[k] = Mounted /\ live'[k] = None
                                     THEN live[k] ELSE @[k]],
                        !.shown = @ \cup Stored(req.kind, Routed, rootMuted', specs'),
                        !.steady = @ \cap Stored(req.kind, Routed, rootMuted', specs')]
  /\ act' =
       IF act.phase # "listing" THEN act
       ELSE [act EXCEPT !.rec = IF status'[act.key] = "absent" THEN @ ELSE spec'[act.key],
                        !.closed = @ \/ (op[act.key] # None /\ op'[act.key] = None)]
  /\ UNCHANGED admins

Init == StoresInit /\ admins = Admins /\ req = NoReq /\ act = NoAct

Next ==
  \/ Works /\ Follow
  \/ Crash /\ req' = NoReq /\ act' = NoAct /\ UNCHANGED admins
  \/ Request
  \/ \E u \in User, k \in Key : \E n \in Content[k]["tool"] : BeginAction(u, k, n)
  \/ FinishAction
  \/ \E u \in User : ChangeRole(u)

Spec == Init /\ [][Next]_vars

-----------------------------------------------------------------------------
(* Properties.                                                             *)

Component == [key : Key, name : Name \cup {None}]

Reach == [user : User, admin : BOOLEAN, rules : SUBSET RulePool, keys : SUBSET Key]

Published == {Ident("tool", c) : c \in [key : Key, name : Name]}
Identity == {None} \cup (UNION {Asked[kind] : kind \in Kind}) \cup Published

\* A request that is being answered.
Question ==
  [phase : {"ask", "named"}, path : Path, kind : Kind, ident : Identity, scoped : BOOLEAN,
   reach : Reach, routed : SUBSET Key, chain : [Key -> Marks \cup {Mounted}],
   waiting : SUBSET Key, hits : SUBSET Component, failed : SUBSET Key, missed : SUBSET Key,
   cands : SUBSET Component, shown : SUBSET Component, steady : SUBSET Component]

Run == [phase : {"listing"}, actor : User, key : Key, name : Name, rec : Record, closed : BOOLEAN]

\* Every variable holds what the code can put there; a request waits only for servers it
\* routed and has an answer only of servers it no longer waits for.
TypeOK ==
  /\ StoresTypeOK
  /\ admins \subseteq User
  /\ Asking =>
       /\ req \in Question
       /\ req.waiting \cup req.failed \subseteq Routed /\ Routed \subseteq req.reach.keys
       /\ \A c \in req.hits : c.key \in Routed \ req.waiting
       /\ req.steady \subseteq req.shown
       /\ \A k \in Routed : req.chain[k] = Mounted => live[k] # None
  /\ act.phase = "listing" => act \in Run

May(c) ==
  /\ req.reach.admin \/ Permitted(req.reach.rules, req.reach.user, c.key,
                                  IF req.kind = "tool" THEN c.name ELSE None)
  /\ c \in Tagged => req.scoped

\* What a request returns was earned: each component is of a server in the reach, the
\* rules at the start of the request permit it, and the stored policy showed it at some
\* moment since. No name is answered that two servers publish to this caller, that a
\* server which failed to answer may own, or that another server showed all along; an app
\* identity, which has no namespace, is not answered once any server failed.
Earned(result) ==
  \A c \in result :
    /\ c.key \in req.reach.keys /\ May(c) /\ c \in req.shown
    /\ req.path \in {"hash", "app"} => req.missed = {}
    /\ req.path # "instructions" =>
         /\ \A f \in req.failed : ~Owns(f, req.kind, Ident(req.kind, c))
         /\ \A d \in result \cup req.steady :
              /\ d.name # None /\ Ident(req.kind, d) = Ident(req.kind, c)
              /\ May(d) /\ Owns(d.key, req.kind, Ident(req.kind, d))
              => d.key = c.key

AnswerEarned == [][Asking /\ req'.phase = "done" => Earned(req'.result)]_vars

\* An action runs only for an actor who is an administrator at that moment, while the
\* stored policy shows the tool (or the server has just left the registry), on a
\* generation that no operation has closed since the run began. The page that offered
\* it, the role it was asked under and the listing are all older.
ActionEarned ==
  [][act.phase = "listing" /\ act'.phase = "ran" =>
       /\ act.actor \in admins /\ ~act.closed
       /\ [key |-> act.key, name |-> act.name] \in Tagged
       /\ ~rootMuted
       /\ specs[act.key] # None =>
            ~specs[act.key].muted /\ act.name \notin specs[act.key].hidden]_vars

\* The records under which the log tail shows of a line of e what masking it with the
\* secrets of e promises: its letters outside them, and one mask for each run inside.
MasksLine ==
  [e \in Env |->
     {f \in Env : Scrub(LineOf[e], SecretsOf[f]) = Promised(LineOf[e], SecretsOf[e])}]

\* `log_tail` masks with the secrets of the present record, so no log may hold the output
\* of a process whose secrets that record no longer has, whatever edit, failed write,
\* removal or crash came between.
LogMaskable ==
  \A k \in Key : HasChild(k) => \A e \in log[k] : spec[k].env \in MasksLine[e]
=============================================================================
