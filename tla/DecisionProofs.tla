--------------------------- MODULE DecisionProofs ---------------------------
(***************************************************************************)
(* What the access decision and the caller router guarantee for every set  *)
(* of users, servers, rules and answers.                                   *)
(***************************************************************************)
EXTENDS Routing, SequenceTheorems, TLAPS

\* The most specific rules of a set that has any, level by level.
LEMMA MostSpecificLevel ==
  ASSUME NEW M \in SUBSET Rule, NEW l \in Level,
         \E r \in M : r.level = l,
         \A r \in M : Specificity[r.level] <= Specificity[l]
  PROVE  MostSpecific(M) = {r \in M : r.level = l}
<1>1. \A r \in M : r.level \in Level
  BY DEF Rule
<1>2. \A a, b \in Level :
        /\ Specificity[a] \in Nat
        /\ Specificity[a] <= Specificity[b] /\ Specificity[b] <= Specificity[a] => a = b
  BY DEF Level, Specificity
<1>3. ASSUME NEW r \in MostSpecific(M) PROVE r.level = l
  BY <1>1, <1>2 DEF MostSpecific
<1>4. ASSUME NEW r \in M, r.level = l PROVE r \in MostSpecific(M)
  BY <1>4 DEF MostSpecific
<1> QED BY <1>3, <1>4 DEF MostSpecific

\* The rules that decide, once it is known at which level.
LEMMA DecisiveLevel ==
  ASSUME NEW M \in SUBSET Rule, NEW l \in Level,
         \E r \in M : r.level = l,
         \A r \in M : Specificity[r.level] <= Specificity[l]
  PROVE  (\A r \in Decisive(M) : r.effect = "allow") <=>
           IF \E r \in M : r.level = l /\ r.kind = "user"
           THEN ~\E r \in M : r.level = l /\ r.kind = "user" /\ r.effect = "deny"
           ELSE ~\E r \in M : r.level = l /\ r.kind = "group" /\ r.effect = "deny"
<1> DEFINE kept == {r \in M : r.level = l}
           own == {r \in kept : r.kind = "user"}
<1>1. MostSpecific(M) = kept
  BY MostSpecificLevel
<1>2. Decisive(M) = IF own # {} THEN own ELSE kept
  BY <1>1 DEF Decisive
<1>3. \A r \in M : r.kind \in {"user", "group"} /\ r.effect \in {"allow", "deny"}
  BY DEF Rule
<1>4. CASE own # {}
  BY <1>2, <1>3, <1>4
<1>5. CASE own = {}
  <2>1. \A r \in kept : r.kind = "group"
    BY <1>3, <1>5
  <2> QED BY <1>2, <1>3, <1>5, <2>1
<1> QED BY <1>4, <1>5

\* A rule of a set is among the matching ones exactly when it says its effect of the
\* question at its own level.
LEMMA SaysIsMatching ==
  ASSUME NEW R \in SUBSET Rule, NEW u, NEW k, NEW t
  PROVE  \A l \in Level, kind \in {"user", "group"}, effect \in {"allow", "deny"} :
           Says(R, u, k, t, l, kind, effect) <=>
             \E r \in Matching(R, u, k, t) : r.level = l /\ r.kind = kind /\ r.effect = effect
<1> TAKE l \in Level, kind \in {"user", "group"}, effect \in {"allow", "deny"}
<1> DEFINE AtLevelOf(r) == r.level = l /\ r.kind = kind /\ r.effect = effect
<1>1. ASSUME NEW r \in R, AtLevelOf(r)
      PROVE  (/\ IF kind = "user" THEN r.subject = u ELSE r.subject \in GroupsOf[u]
              /\ l = "global" => effect = "deny" \/ OwnerOf[k] = None
              /\ l # "global" => r.server = k
              /\ l = "tool" => r.tool = t)
             <=> Applies(r, u) /\ Covers(r, k, t)
  <2>1. Applies(r, u) <=> IF kind = "user" THEN r.subject = u ELSE r.subject \in GroupsOf[u]
    BY <1>1 DEF Applies
  <2>2. r \in Rule /\ (r.level = "tool" <=> r.tool # None)
    BY DEF Rule, WellShaped
  <2>3. CASE l = "global"
    BY <1>1, <2>1, <2>3 DEF Covers
  <2>4. CASE l = "server"
    BY <1>1, <2>1, <2>4 DEF Covers
  <2>5. CASE l = "tool"
    BY <1>1, <2>1, <2>2, <2>5 DEF Covers
  <2> QED BY <2>3, <2>4, <2>5 DEF Level
<1> QED BY <1>1 DEF Says, Matching

\* resolve (policy.py 202-216) decides what the levels mean, for any rules, user, server
\* and tool: the most specific level that speaks at all, there the user before its
\* groups, and a deny before an allow; when nobody speaks, the owner alone.
THEOREM DecisionIsPermitted ==
  ASSUME NEW R \in SUBSET Rule, NEW u \in User, NEW k \in Key, NEW t \in Name \cup {None}
  PROVE  Resolve(R, u, k, t) <=> Permitted(R, u, k, t)
<1> DEFINE M == Matching(R, u, k, t)
<1>1. M \in SUBSET Rule
  BY DEF Matching
<1>2. \A r \in M : /\ r.level \in Level /\ r.kind \in {"user", "group"}
                   /\ r.effect \in {"allow", "deny"}
  BY <1>1 DEF Rule
<1>3. \A l \in Level, kind \in {"user", "group"}, effect \in {"allow", "deny"} :
        Says(R, u, k, t, l, kind, effect) <=>
          \E r \in M : r.level = l /\ r.kind = kind /\ r.effect = effect
  <2>1. ASSUME NEW l \in Level, NEW kind \in {"user", "group"}, NEW effect \in {"allow", "deny"}
        PROVE  Says(R, u, k, t, l, kind, effect) <=>
                 \E r \in Matching(R, u, k, t) : r.level = l /\ r.kind = kind /\ r.effect = effect
    <3> HIDE DEF M
    <3> QED BY SaysIsMatching
  <2> QED BY <2>1
<1> HIDE DEF M
<1>4. \A l \in Level, kind \in {"user", "group"} :
        Speaks(R, u, k, t, l, kind) <=> \E r \in M : r.level = l /\ r.kind = kind
  BY <1>2, <1>3 DEF Speaks
<1>5. \A l \in Level : Silent(R, u, k, t, l) <=> ~\E r \in M : r.level = l
  BY <1>2, <1>4 DEF Silent
<1>6. ASSUME NEW l \in Level, ~Silent(R, u, k, t, l),
             \A r \in M : Specificity[r.level] <= Specificity[l]
      PROVE  Resolve(R, u, k, t) <=> AtLevel(R, u, k, t, l)
  <2>1. M # {} /\ \E r \in M : r.level = l
    BY <1>5, <1>6
  <2>2. Resolve(R, u, k, t) <=> \A r \in Decisive(M) : r.effect = "allow"
    BY <2>1 DEF Resolve, M
  <2>3. (\A r \in Decisive(M) : r.effect = "allow") <=>
          IF \E r \in M : r.level = l /\ r.kind = "user"
          THEN ~\E r \in M : r.level = l /\ r.kind = "user" /\ r.effect = "deny"
          ELSE ~\E r \in M : r.level = l /\ r.kind = "group" /\ r.effect = "deny"
    BY <1>1, <1>6, <2>1, DecisiveLevel
  <2> QED BY <1>3, <1>4, <2>2, <2>3 DEF AtLevel
<1>7. \A a \in Level : /\ Specificity[a] <= Specificity["tool"]
                       /\ a # "tool" => Specificity[a] <= Specificity["server"]
                       /\ a = "global" => Specificity[a] <= Specificity["global"]
  BY DEF Level, Specificity
<1>8. "tool" \in Level /\ "server" \in Level /\ "global" \in Level
  BY DEF Level
<1>9. CASE ~Silent(R, u, k, t, "tool")
  <2>1. \A r \in M : Specificity[r.level] <= Specificity["tool"]
    BY <1>2, <1>7
  <2> QED BY <1>6, <1>8, <1>9, <2>1 DEF Permitted
<1>10. CASE Silent(R, u, k, t, "tool") /\ ~Silent(R, u, k, t, "server")
  <2>1. \A r \in M : Specificity[r.level] <= Specificity["server"]
    BY <1>2, <1>5, <1>7, <1>8, <1>10
  <2> QED BY <1>6, <1>8, <1>10, <2>1 DEF Permitted
<1>11. CASE /\ Silent(R, u, k, t, "tool") /\ Silent(R, u, k, t, "server")
            /\ ~Silent(R, u, k, t, "global")
  <2>1. \A r \in M : r.level = "global"
    BY <1>2, <1>5, <1>8, <1>11 DEF Level
  <2>2. \A r \in M : Specificity[r.level] <= Specificity["global"]
    BY <1>2, <1>7, <2>1
  <2> QED BY <1>6, <1>8, <1>11, <2>2 DEF Permitted
<1>12. CASE /\ Silent(R, u, k, t, "tool") /\ Silent(R, u, k, t, "server")
            /\ Silent(R, u, k, t, "global")
  <2>1. M = {}
    BY <1>2, <1>5, <1>12 DEF Level
  <2> QED BY <1>12, <2>1 DEF Resolve, Permitted, M
<1> QED BY <1>9, <1>10, <1>11, <1>12

-----------------------------------------------------------------------------
(* The view.                                                               *)

\* An allow decides only where a rule of the set says it: a private server is open to a
\* user who does not own it only by a rule that names that server, never by a global one.
THEOREM PrivateStaysPrivate ==
  ASSUME NEW R \in SUBSET Rule, NEW u \in User, NEW k \in Key, NEW t \in Name \cup {None},
         OwnerOf[k] \notin {None, u}, Resolve(R, u, k, t)
  PROVE  \E r \in R : r.effect = "allow" /\ r.server = k /\ Applies(r, u)
<1> DEFINE M == Matching(R, u, k, t)
<1>1. M # {} /\ \A r \in Decisive(M) : r.effect = "allow"
  BY DEF Resolve
<1>2. M \in SUBSET Rule
  BY DEF Matching
<1>3. PICK r \in Decisive(M) : TRUE
  <2>1. \A s \in M : Specificity[s.level] \in {1, 2, 3}
    BY <1>2 DEF Rule, Level, Specificity
  <2>2. PICK s \in M : \A q \in M : Specificity[q.level] <= Specificity[s.level]
    <3>1. CASE \E s \in M : Specificity[s.level] = 3
      BY <2>1, <3>1
    <3>2. CASE ~(\E s \in M : Specificity[s.level] = 3) /\ \E s \in M : Specificity[s.level] = 2
      BY <2>1, <3>2
    <3>3. CASE ~\E s \in M : Specificity[s.level] \in {2, 3}
      BY <1>1, <2>1, <3>3
    <3> QED BY <3>1, <3>2, <3>3
  <2>3. s \in MostSpecific(M)
    BY <2>2 DEF MostSpecific
  <2> QED BY <2>3 DEF Decisive
<1>4. r \in M /\ r.effect = "allow"
  BY <1>1, <1>3 DEF Decisive, MostSpecific
<1>5. r \in R /\ Applies(r, u) /\ Covers(r, k, t)
  BY <1>4 DEF Matching
<1>6. r.level # "global"
  BY <1>4, <1>5 DEF Covers
<1> QED BY <1>4, <1>5, <1>6 DEF Covers

\* A user meets at most one server per namespace (`_user_view`): of two candidates with
\* one namespace the other is dropped, so a published name belongs to one of them.
THEOREM OneKeyPerNamespace ==
  ASSUME NEW R \in SUBSET Rule, NEW u \in User, NEW approved \in SUBSET Key,
         NEW j \in UserView(R, u, approved), NEW k \in UserView(R, u, approved),
         NamespaceOf[j] = NamespaceOf[k]
  PROVE  j = k
<1>1. j \in Key /\ k \in Key
  BY DEF UserView, Candidate
<1>2. \A c \in Key : /\ OwnerOf[c] \in User \cup {None}
                     /\ OwnerOf[c] # None => IdOrder[OwnerOf[c]] \in Nat
  BY AccessAssumption
<1>3. ViewRank(u, j) \in Nat /\ ViewRank(u, k) \in Nat
  BY <1>1, <1>2 DEF ViewRank
<1>4. ViewRank(u, j) <= ViewRank(u, k) /\ ViewRank(u, k) <= ViewRank(u, j)
  BY DEF UserView
<1>5. ViewRank(u, j) = ViewRank(u, k)
  BY <1>3, <1>4
<1>6. u # None
  BY AccessAssumption
<1>7. OwnerOf[j] = OwnerOf[k]
  <2>1. CASE OwnerOf[j] = u \/ OwnerOf[j] = None
    BY <1>1, <1>2, <1>5, <1>6, <2>1 DEF ViewRank
  <2>2. CASE OwnerOf[j] \notin {u, None}
    <3>1. OwnerOf[k] \notin {u, None}
      BY <1>1, <1>2, <1>5, <2>2 DEF ViewRank
    <3>2. IdOrder[OwnerOf[j]] = IdOrder[OwnerOf[k]]
      BY <1>1, <1>2, <1>5, <2>2, <3>1 DEF ViewRank
    <3> QED BY <1>1, <1>2, <2>2, <3>1, <3>2, AccessAssumption
  <2> QED BY <2>1, <2>2
<1> QED BY <1>1, <1>7, AccessAssumption

\* The server of a user is never taken from it by one of another owner: approved, it is in
\* the view of its owner whatever the rules are and whatever else bears its namespace.
THEOREM OwnServerInView ==
  ASSUME NEW R \in SUBSET Rule, NEW u \in User, NEW approved \in SUBSET Key,
         NEW k \in approved, OwnerOf[k] = u
  PROVE  k \in UserView(R, u, approved)
<1>1. ASSUME NEW c \in Key PROVE ViewRank(u, c) \in Nat
  BY <1>1, AccessAssumption DEF ViewRank
<1>2. ViewRank(u, k) = 0
  BY DEF ViewRank
<1>3. k \in Candidate(R, u, approved) /\ Candidate(R, u, approved) \subseteq Key
  BY DEF Candidate
<1> QED BY <1>1, <1>2, <1>3 DEF UserView

\* Once the rules that name a key are dropped, as a removal does
\* (`drop_server_rules`), only the global rules speak of it: the decision on it and its
\* place in a view are those of a key that no rule ever named, whoever adds it next.  A
\* private one is then its owner's alone, unless a global deny shuts the owner out too.
THEOREM OnlyGlobalRulesRemain ==
  ASSUME NEW R \in SUBSET Rule, NEW u \in User, NEW k \in Key, NEW t \in Name \cup {None},
         NEW kept, kept = {r \in R : r.server # k},
         NEW globals, globals = {r \in R : r.level = "global"}
  PROVE  /\ Resolve(kept, u, k, t) <=> Resolve(globals, u, k, t)
         /\ Reachable(kept, u, k) <=> Reachable(globals, u, k)
         /\ OwnerOf[k] # None =>
              /\ ~Reachable(kept, u, k)
              /\ Resolve(kept, u, k, t) <=>
                   /\ OwnerOf[k] = u
                   /\ \A r \in globals : Applies(r, u) => r.effect = "allow"
<1>1. \A r \in R : r.level = "global" <=> r.server = None
  BY DEF Rule, WellShaped
<1>2. k # None
  BY AccessAssumption
<1>3. Matching(kept, u, k, t) = Matching(globals, u, k, t)
  BY <1>1, <1>2 DEF Matching, Covers
<1>4. Resolve(kept, u, k, t) <=> Resolve(globals, u, k, t)
  BY <1>3 DEF Resolve
<1>5. Reachable(kept, u, k) <=> Reachable(globals, u, k)
  BY <1>1, <1>2 DEF Reachable
<1>6. ASSUME OwnerOf[k] # None
      PROVE  ~Reachable(kept, u, k)
  BY <1>5, <1>6 DEF Reachable
<1>7. ASSUME OwnerOf[k] # None
      PROVE  Resolve(kept, u, k, t) <=>
               /\ OwnerOf[k] = u
               /\ \A r \in globals : Applies(r, u) => r.effect = "allow"
  <2> DEFINE denies == {r \in globals : Applies(r, u) /\ r.effect = "deny"}
  <2>1. \A r \in globals : r.effect \in {"allow", "deny"}
    BY DEF Rule
  <2>2. Matching(globals, u, k, t) = denies
    BY <1>1, <1>2, <1>7 DEF Matching, Covers
  <2>3. denies = {} <=> \A r \in globals : Applies(r, u) => r.effect = "allow"
    BY <2>1
  <2>4. \A r, s \in denies : Specificity[s.level] <= Specificity[r.level]
    BY DEF Specificity
  <2> HIDE DEF denies
  <2>5. MostSpecific(denies) = denies
    BY <2>4 DEF MostSpecific
  <2>6. Decisive(denies) \subseteq denies /\ (denies # {} => Decisive(denies) # {})
    BY <2>5 DEF Decisive
  <2>7. \A r \in denies : r.effect # "allow"
    BY DEF denies
  <2>8. CASE denies = {}
    BY <1>4, <2>2, <2>3, <2>8 DEF Resolve
  <2>9. CASE denies # {}
    BY <1>4, <2>2, <2>3, <2>6, <2>7, <2>9 DEF Resolve
  <2> QED BY <2>8, <2>9
<1> QED BY <1>4, <1>5, <1>6, <1>7

-----------------------------------------------------------------------------
(* The router.                                                             *)

\* A list names each component of one server only: no name of it is published by two
\* servers, or may be owned by one that failed to answer (`_unique`).
THEOREM ListIsUnambiguous ==
  ASSUME NEW kind \in Kind, NEW passed, NEW failed,
         NEW c \in Unique(kind, passed, failed), NEW d \in passed,
         Ident(kind, c) = Ident(kind, d)
  PROVE  /\ c.key = d.key
         /\ d \in Unique(kind, passed, failed)
         /\ \A f \in failed : ~Owns(f, kind, Ident(kind, c))
<1>1. c \in passed /\ ~Clash(kind, Ident(kind, c), Publishers(kind, passed, Ident(kind, c)), failed)
  BY DEF Unique
<1>2. c.key \in Publishers(kind, passed, Ident(kind, c))
      /\ d.key \in Publishers(kind, passed, Ident(kind, c))
  BY <1>1 DEF Publishers
<1>3. c.key = d.key /\ \A f \in failed : ~Owns(f, kind, Ident(kind, c))
  BY <1>1, <1>2 DEF Clash
<1> QED BY <1>1, <1>3 DEF Unique

\* The two sides of the refusal agree: over the same answers, the get of a name finds what
\* the list shows under it, no more and no less (`_single` and `_unique`).
THEOREM GetAgreesWithList ==
  ASSUME NEW kind \in Kind, NEW passed, NEW failed, NEW ident
  PROVE  Single(kind, ident, Hits(kind, passed, ident), failed)
           = {c \in Unique(kind, passed, failed) : Ident(kind, c) = ident}
<1> DEFINE hits == Hits(kind, passed, ident)
<1>1. hits = {c \in passed : Ident(kind, c) = ident}
  BY DEF Hits
<1>2. {c.key : c \in hits} = Publishers(kind, passed, ident)
  BY DEF Hits, Publishers
<1>3. \A c \in hits : c \in Unique(kind, passed, failed)
                       <=> ~Clash(kind, ident, Publishers(kind, passed, ident), failed)
  BY <1>1 DEF Unique
<1>4. CASE Clash(kind, ident, Publishers(kind, passed, ident), failed)
  BY <1>1, <1>2, <1>3, <1>4 DEF Single, Unique
<1>5. CASE ~Clash(kind, ident, Publishers(kind, passed, ident), failed)
  BY <1>1, <1>2, <1>3, <1>5 DEF Single, Unique
<1> QED BY <1>4, <1>5

\* Two servers publish one name only when a namespace continues the other, or is the
\* other one's: within a view, where namespaces differ, only the first is possible.
THEOREM SharedNameSharedPrefix ==
  ASSUME NEW c, NEW d, c.key \in Key, d.key \in Key, c.name \in Name, d.name \in Name,
         Ident("tool", c) = Ident("tool", d),
         Len(NamespaceOf[c.key]) <= Len(NamespaceOf[d.key])
  PROVE  \A i \in 1..Len(NamespaceOf[c.key]) : NamespaceOf[c.key][i] = NamespaceOf[d.key][i]
<1>1. /\ NamespaceOf[c.key] \in Seq(Part) /\ NamespaceOf[d.key] \in Seq(Part)
      /\ c.name \in Seq(Part) /\ d.name \in Seq(Part)
  BY AccessAssumption
<1>2. NamespaceOf[c.key] \o c.name = NamespaceOf[d.key] \o d.name
  BY DEF Ident
<1> DEFINE n == NamespaceOf[c.key]
           m == NamespaceOf[d.key]
<1>3. ASSUME NEW i \in 1..Len(n) PROVE n[i] = m[i]
  <2>1. n \in Seq(Part) /\ m \in Seq(Part) /\ c.name \in Seq(Part) /\ d.name \in Seq(Part)
    BY <1>1
  <2> HIDE DEF n, m
  <2>2. /\ Len(n) \in Nat /\ Len(m) \in Nat /\ Len(c.name) \in Nat /\ Len(d.name) \in Nat
        /\ i \in Nat /\ i >= 1 /\ i <= Len(n) /\ i <= Len(m)
    <3>1. Len(n) \in Nat /\ Len(m) \in Nat /\ Len(c.name) \in Nat /\ Len(d.name) \in Nat
      BY <2>1, LenProperties
    <3>2. Len(n) <= Len(m)
      BY DEF n, m
    <3> QED BY <1>3, <3>1, <3>2
  <2>3. (n \o c.name)[i] = n[i]
    <3>1. i \in 1..(Len(n) + Len(c.name))
      BY <2>2
    <3> QED BY <2>1, <2>2, <3>1, ConcatProperties
  <2>4. (m \o d.name)[i] = m[i]
    <3>1. i \in 1..(Len(m) + Len(d.name))
      BY <2>2
    <3> QED BY <2>1, <2>2, <3>1, ConcatProperties
  <2> QED BY <1>2, <2>3, <2>4 DEF n, m
<1> QED BY <1>3
=============================================================================
