------------------------------- MODULE Access -------------------------------
(***************************************************************************)
(* Who may use which server, and which of its tools: the rules, the        *)
(* decision, the view of a caller and its `Reach` (policy.py 63-325).      *)
(*                                                                         *)
(* The module has no state.  An administrator is not bound by rules, so    *)
(* `Resolve` speaks of the other users only.  A name is a sequence of the  *)
(* parts that `_` separates, so that "starts with `<namespace>_`" is "has  *)
(* the namespace as a strict prefix".                                      *)
(***************************************************************************)
EXTENDS Naturals, Sequences

CONSTANTS
  User, Group,
  GroupsOf,     \* the groups of a user
  IdOrder,      \* the place of a user in the order of the ids
  Part, Name,
  Key,          \* the references
  OwnerOf,      \* the user that owns a reference, None for the administrators
  NamespaceOf,
  None

ASSUME AccessAssumption ==
  /\ GroupsOf \in [User -> SUBSET Group]
  /\ IdOrder \in [User -> Nat]
  /\ \A u, v \in User : IdOrder[u] = IdOrder[v] => u = v
  /\ Name \subseteq Seq(Part)
  /\ OwnerOf \in [Key -> User \cup {None}] /\ NamespaceOf \in [Key -> Seq(Part)]
  /\ \A j, k \in Key : OwnerOf[j] = OwnerOf[k] /\ NamespaceOf[j] = NamespaceOf[k] => j = k
  /\ None \notin User /\ None \notin Key /\ None \notin Name

-----------------------------------------------------------------------------
(* Rules.                                                                  *)

Specificity == [global |-> 1, server |-> 2, tool |-> 3]
Level == {"global", "server", "tool"}

\* The fields of a rule agree with its level (`_check_shape`).
WellShaped(r) ==
  /\ r.subject \in IF r.kind = "user" THEN User ELSE Group
  /\ r.level = "global" <=> r.server = None
  /\ r.level = "tool" <=> r.tool # None

Rule ==
  {r \in [kind : {"user", "group"}, subject : User \cup Group, level : Level,
          server : Key \cup {None}, tool : Name \cup {None},
          effect : {"allow", "deny"}] : WellShaped(r)}

Applies(r, u) ==
  IF r.kind = "user" THEN r.subject = u ELSE r.subject \in GroupsOf[u]

\* A global allow stops at the shared servers, a global deny does not; a rule on a
\* tool says nothing of the server as a whole, which is t = None.
Covers(r, k, t) ==
  \/ r.level = "global" /\ (OwnerOf[k] = None \/ r.effect = "deny")
  \/ r.level = "server" /\ r.server = k
  \/ r.level = "tool" /\ t # None /\ r.server = k /\ r.tool = t

Matching(R, u, k, t) == {r \in R : Applies(r, u) /\ Covers(r, k, t)}

MostSpecific(M) ==
  {r \in M : \A s \in M : Specificity[s.level] <= Specificity[r.level]}

\* The rules that decide: among the most specific ones those of the user itself, and
\* those of its groups only when it has none.
Decisive(M) ==
  LET kept == MostSpecific(M)
      own == {r \in kept : r.kind = "user"}
  IN  IF own # {} THEN own ELSE kept

Resolve(R, u, k, t) ==
  LET matching == Matching(R, u, k, t)
  IN  IF matching = {} THEN OwnerOf[k] = u
      ELSE \A r \in Decisive(matching) : r.effect = "allow"

-----------------------------------------------------------------------------
(* The view of a caller.                                                   *)

\* Some allow for the user names the server, or is global and the server is shared.
\* A deny is not asked here: it decides on each tool, after the view.
Reachable(R, u, k) ==
  \E r \in R : /\ Applies(r, u)
               /\ r.effect = "allow"
               /\ IF r.level = "global" THEN OwnerOf[k] = None ELSE r.server = k

\* Own before shared, shared before foreign, foreign by the id of the owner.
ViewRank(u, k) ==
  IF OwnerOf[k] = u THEN 0 ELSE IF OwnerOf[k] = None THEN 1 ELSE 2 + IdOrder[OwnerOf[k]]

Candidate(R, u, approved) == {k \in approved : OwnerOf[k] = u \/ Reachable(R, u, k)}

\* One approved candidate per namespace, the first by rank (`_user_view`).
UserView(R, u, approved) ==
  LET candidate == Candidate(R, u, approved)
  IN  {k \in candidate :
         \A c \in candidate :
           NamespaceOf[c] = NamespaceOf[k] => ViewRank(u, k) <= ViewRank(u, c)}

\* The keys of a `Reach`: listed are all servers of the registry, approved those that
\* may serve.
KeysFor(R, u, admin, surface, listed, approved) ==
  IF admin
  THEN {k \in listed : surface = "dashboard" \/ OwnerOf[k] = None}
  ELSE {k \in listed : \/ k \in UserView(R, u, approved)
                       \/ surface = "dashboard" /\ OwnerOf[k] = u}

\* One user, one request: its rules are the copy taken when it was built.
ReachOf(R, u, admin, surface, listed, approved) ==
  [user |-> u, admin |-> admin, rules |-> R,
   keys |-> KeysFor(R, u, admin, surface, listed, approved)]

Allows(reach, k, t) ==
  k \in reach.keys /\ (reach.admin \/ Resolve(reach.rules, reach.user, k, t))

AllowsTool(reach, k, t) == Allows(reach, k, t)
AllowsServer(reach, k) == Allows(reach, k, None)

-----------------------------------------------------------------------------
(* What the decision means, written down a second time: the levels from the *)
(* most specific one, at each the word of the user before that of a group,  *)
(* and a deny before an allow.                                              *)

Says(R, u, k, t, level, kind, effect) ==
  \E r \in R :
    /\ r.level = level /\ r.kind = kind /\ r.effect = effect
    /\ IF kind = "user" THEN r.subject = u ELSE r.subject \in GroupsOf[u]
    /\ level = "global" => effect = "deny" \/ OwnerOf[k] = None
    /\ level # "global" => r.server = k
    /\ level = "tool" => r.tool = t

Speaks(R, u, k, t, level, kind) ==
  \E effect \in {"allow", "deny"} : Says(R, u, k, t, level, kind, effect)

Silent(R, u, k, t, level) ==
  \A kind \in {"user", "group"} : ~Speaks(R, u, k, t, level, kind)

AtLevel(R, u, k, t, level) ==
  IF Speaks(R, u, k, t, level, "user")
  THEN ~Says(R, u, k, t, level, "user", "deny")
  ELSE ~Says(R, u, k, t, level, "group", "deny")

Permitted(R, u, k, t) ==
  IF ~Silent(R, u, k, t, "tool") THEN AtLevel(R, u, k, t, "tool")
  ELSE IF ~Silent(R, u, k, t, "server") THEN AtLevel(R, u, k, t, "server")
  ELSE IF ~Silent(R, u, k, t, "global") THEN AtLevel(R, u, k, t, "global")
  ELSE OwnerOf[k] = u
=============================================================================
