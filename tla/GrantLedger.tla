----------------------------- MODULE GrantLedger -----------------------------
(***************************************************************************)
(* What the gateway promises about the refresh token of one server, with   *)
(* no file, lock, task, request or crash in sight.  A sign-in starts a     *)
(* line of tokens for the server that is listed and spends its flow in the *)
(* same step; a refresh replaces the token by the answer given for it; and *)
(* nothing but a new sign-in or the end of the server ends the line.       *)
(* HeaderGrant is shown to implement it, with its two files written one    *)
(* after the other and its late answers.                                   *)
(***************************************************************************)
CONSTANTS Flow, Token, None

VARIABLES
  origin,    \* where the provider issued each token, None before
  flow,      \* the authorization flows
  server,    \* the server a flow was opened for: the flow that listed it
  listed,    \* the server that is listed
  grant      \* the refresh token of the listed server

lvars == <<origin, flow, server, listed, grant>>

FromCode(f) == [line |-> f, parent |-> None]
FromToken(m) == [line |-> origin[m].line, parent |-> m]

LInit ==
  /\ origin = [n \in Token |-> None]
  /\ flow = [f \in Flow |-> "new"]
  /\ server = [f \in Flow |-> None]
  /\ listed = None
  /\ grant = None

\* Flows end in any step: they expire, fail, or die with the process.
FlowsEnd ==
  \A f \in Flow : flow'[f] # flow[f] => flow[f] = "open" /\ flow'[f] = "gone"

\* A new server has no token, and its flow is open unless the process died first.
List(f) ==
  /\ listed = None /\ flow[f] = "new"
  /\ listed' = f /\ grant' = None
  /\ \/ flow' = [flow EXCEPT ![f] = "open"] /\ server' = [server EXCEPT ![f] = f]
     \/ FlowsEnd /\ UNCHANGED server
  /\ UNCHANGED origin

\* No flow and no token outlives its server.
Unlist ==
  /\ listed # None
  /\ listed' = None /\ grant' = None
  /\ flow' = [f \in Flow |-> IF flow[f] = "open" THEN "gone" ELSE flow[f]]
  /\ UNCHANGED <<origin, server>>

Reopen(f) ==
  /\ listed # None /\ flow[f] = "new"
  /\ flow' = [flow EXCEPT ![f] = "open"]
  /\ server' = [server EXCEPT ![f] = listed]
  /\ UNCHANGED <<origin, listed, grant>>

EndFlows == FlowsEnd /\ UNCHANGED <<origin, server, listed, grant>>

\* The provider answers, for a code or for a token it issued.
Answer(n) ==
  /\ origin[n] = None
  /\ \/ \E f \in Flow : /\ flow[f] # "new"
                        /\ origin' = [origin EXCEPT ![n] = FromCode(f)]
     \/ \E m \in Token : /\ origin[m] # None
                         /\ origin' = [origin EXCEPT ![n] = FromToken(m)]
  /\ FlowsEnd
  /\ UNCHANGED <<server, listed, grant>>

\* The one write of a flow: its token, or none if the answer cannot be renewed.
SignIn(f, n) ==
  /\ flow[f] = "open" /\ server[f] = listed
  /\ origin[n] = FromCode(f)
  /\ flow' = [flow EXCEPT ![f] = "gone"]
  /\ grant' \in {n, None}
  /\ UNCHANGED <<origin, server, listed>>

Rotate(n) ==
  /\ grant # None /\ origin[n] = FromToken(grant)
  /\ grant' = n
  /\ FlowsEnd
  /\ UNCHANGED <<origin, server, listed>>

LNext ==
  \/ \E f \in Flow : List(f) \/ Reopen(f)
  \/ Unlist \/ EndFlows
  \/ \E n \in Token : Answer(n) \/ Rotate(n)
  \/ \E f \in Flow, n \in Token : SignIn(f, n)

LSpec == LInit /\ [][LNext]_lvars
=============================================================================
