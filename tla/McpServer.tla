------------------------------ MODULE McpServer ------------------------------
(***************************************************************************)
(* The hosted MCP server: one request, Caller, of those that share the     *)
(* pool is followed into the tool calls it makes of the engine it leased   *)
(* (ai/mcp/src: http-app.ts).  The engine is released when the whole       *)
(* answer has been read, that is when every call of the request is over.   *)
(***************************************************************************)
EXTENDS EnginePool

CONSTANTS Caller, Calls, Queries, Statements, Sandbox

ASSUME ServerAssumption ==
  /\ Caller \in Requests
  /\ Queries \subseteq Calls
  /\ Statements \in Nat \ {0}
  /\ Sandbox \in BOOLEAN

VARIABLES queue, at, left, timer, running, hit

Gate == INSTANCE StatementGate

gate == <<queue, at, left, timer, running, hit>>
serverVars == <<vars, gate>>

ServerInit == Init /\ Gate!Init

\* The pool goes on: Caller's task, serveMcp, ends with its last call.
PoolStep ==
  /\ Next
  /\ req[Caller] = "using" /\ req'[Caller] = "releasing" => Gate!Answered
  /\ UNCHANGED gate

\* A tool call goes on, in the engine leased.
CallStep == req[Caller] = "using" /\ Gate!Next /\ UNCHANGED vars

ServerNext == PoolStep \/ CallStep

ServerSpec == ServerInit /\ [][ServerNext]_serverVars

\* That Caller's task ends is no assumption: it follows from its calls'.
FairServerSpec ==
  /\ ServerSpec
  /\ \A e \in Engines : WF_vars(Settles(e)) /\ WF_vars(Disposed(e))
  /\ \A r \in Requests : WF_vars(GiveUp(r)) /\ WF_vars(r # Caller /\ EndTask(r)) /\ WF_vars(Release(r))
  /\ WF_vars(Gate!Answered /\ EndTask(Caller))
  /\ WF_vars(Closed)
  /\ Gate!Fairness

\* The timers keep to their statements (StatementGate), and none is left that
\* could interrupt an engine already given up.
InterruptsItsOwn ==
  /\ Gate!InterruptsItsOwn
  /\ req[Caller] # "using" => \A c \in Calls : timer[c] # "set" /\ running[c] # "works"
=============================================================================
