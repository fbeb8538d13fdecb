------------------------------ MODULE Routing -------------------------------
(***************************************************************************)
(* The decisions of the caller router over the answers of the servers it   *)
(* asked (router.py).  Stateless; `Gateway` has the requests themselves.    *)
(*                                                                         *)
(* A component is [key, name]: the server it comes from and its bare name. *)
(* The two versions that one server may publish of a component are one     *)
(* component here: the code counts servers, not versions.                  *)
(***************************************************************************)
EXTENDS Access

Kind == {"tool", "prompt", "resource"}

\* The name a component is published under: `<namespace>_<name>` for a tool or a
\* prompt, `proto://<namespace>/path` for a resource or a template, where the
\* namespace is one part of the URI.
Ident(kind, c) ==
  IF kind = "resource" THEN <<NamespaceOf[c.key]>> \o c.name
  ELSE NamespaceOf[c.key] \o c.name

StrictPrefix(s, t) == Len(s) < Len(t) /\ \A i \in DOMAIN s : s[i] = t[i]

\* The namespace of k could have published the name.
Owns(k, kind, ident) ==
  IF kind = "resource" THEN ident # <<>> /\ ident[1] = NamespaceOf[k]
  ELSE StrictPrefix(NamespaceOf[k], ident)

\* Mutation: a server that did not answer does not count.
ClashOfAnswers(kind, ident, keys, failed) == \E a, b \in keys : a # b

\* Two servers publish the name, or one that failed to answer may own it.
Clash(kind, ident, keys, failed) ==
  \/ \E a, b \in keys : a # b
  \/ \E f \in failed : Owns(f, kind, ident)

\* What a server showed and the caller may use.  The rules speak of tools one by one
\* and of the other kinds by their server, which was decided before the server was
\* asked.
Passes(reach, kind, c) ==
  /\ Owns(c.key, kind, Ident(kind, c))
  /\ kind = "tool" => AllowsTool(reach, c.key, c.name)

Publishers(kind, passed, ident) == {c.key : c \in {d \in passed : Ident(kind, d) = ident}}

\* The list: every component whose name is not refused (`_unique`).
Unique(kind, passed, failed) ==
  {c \in passed :
     ~Clash(kind, Ident(kind, c), Publishers(kind, passed, Ident(kind, c)), failed)}

\* The answer to one name: at most one component (`_single`).
Single(kind, ident, hits, failed) ==
  IF Clash(kind, ident, {c.key : c \in hits}, failed) THEN {} ELSE hits

Hits(kind, passed, ident) == {c \in passed : Ident(kind, c) = ident}
=============================================================================
