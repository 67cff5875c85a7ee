---------------------------- MODULE StatementGate ----------------------------
(***************************************************************************)
(* The tool calls that share one engine's connection (ai/mcp/src:          *)
(* serialise.ts, tools/query.ts, and of tools/describe.ts its reads).  A   *)
(* client pipelines calls; each task of a call has the connection to       *)
(* itself, and a query's statement runs under a timer that interrupts the  *)
(* connection, whatever runs on it by then.                                *)
(*                                                                         *)
(* A statement runs outside the event loop: it ends there (Ends), and the  *)
(* event loop learns of it later (Purged, Returns, ReadReturns); a timer   *)
(* may fire in between.  An interrupt stops what runs, and nothing that    *)
(* begins after it.                                                        *)
(***************************************************************************)
EXTENDS Integers, Sequences, FiniteSets

CONSTANTS
  Calls,      \* the tool calls made of the engine
  Queries,    \* those of them that are queries; the others are describes
  Statements, \* how many statements a query has
  Sandbox     \* TRUE: secrets are purged before every statement

VARIABLES
  queue,    \* the calls with a task begun or to begin, in the order asked
  at,       \* at[c]: where the call c is
  left,     \* left[c]: the statements of c not yet over
  timer,    \* timer[c]: "none", "set" or "fired"
  running,  \* running[c]: how what c runs on the connection stands
  hit       \* hit[c]: the calls whose timers have interrupted it

gate == <<queue, at, left, timer, running, hit>>

Query(c) == c \in Queries

Init ==
  /\ queue = <<>>
  /\ at = [c \in Calls |-> "off"]
  /\ left = [c \in Calls |-> IF Query(c) THEN Statements ELSE 0]
  /\ timer = [c \in Calls |-> "none"]
  /\ running = [c \in Calls |-> "nothing"]
  /\ hit = [c \in Calls |-> {}]
-----------------------------------------------------------------------------
\* What is never asked for: in a sandbox a statement that mentions secrets; a
\* describe of a local path there, or of a URL that names no path.
Refused(c) == Query(c) => Sandbox

\* The call asks for its first task; a describe has read metadata.json by then.
Asks(c) ==
  /\ at[c] = "off"
  /\ \/ at' = [at EXCEPT ![c] = "queued"] /\ queue' = Append(queue, c)
     \/ Refused(c) /\ at' = [at EXCEPT ![c] = "answered"] /\ UNCHANGED queue
  /\ UNCHANGED <<left, timer, running, hit>>

\* What a statement of c begins with.
Runs(c) == running' = [running EXCEPT ![c] = "works"] /\ hit' = [hit EXCEPT ![c] = {}]

\* Mutant: a task begins whether or not another is under way.
BeginsAtOnce(c) ==
  /\ at[c] = "queued"
  /\ IF Query(c) /\ Sandbox THEN at' = [at EXCEPT ![c] = "purge"] /\ UNCHANGED timer
     ELSE /\ at' = [at EXCEPT ![c] = "statement"]
          /\ timer' = [timer EXCEPT ![c] = IF Query(c) THEN "set" ELSE "none"]
  /\ Runs(c)
  /\ UNCHANGED <<queue, left>>

\* The task before is over: this one begins, a query's with the purge.
Begins(c) ==
  /\ at[c] = "queued"
  /\ Head(queue) = c
  /\ IF Query(c) /\ Sandbox THEN at' = [at EXCEPT ![c] = "purge"] /\ UNCHANGED timer
     ELSE /\ at' = [at EXCEPT ![c] = "statement"]
          /\ timer' = [timer EXCEPT ![c] = IF Query(c) THEN "set" ELSE "none"]
  /\ Runs(c)
  /\ UNCHANGED <<queue, left>>

\* The engine is done with what c runs: an interrupted statement fails, if it
\* was not just ending.
Ends(c) ==
  /\ running[c] = "works"
  /\ \E end \in {"ok", "error"} : running' = [running EXCEPT ![c] = end]
  /\ UNCHANGED <<queue, at, left, timer, hit>>

\* The timer's callback: the whole connection is interrupted.
Fires(c) ==
  /\ timer[c] = "set"
  /\ timer' = [timer EXCEPT ![c] = "fired"]
  /\ hit' = [d \in Calls |-> IF running[d] = "works" THEN hit[d] \cup {c} ELSE hit[d]]
  /\ UNCHANGED <<queue, at, left, running>>

\* c's task is over: c asks for another, or it has its answer.
Leaves(c, again) ==
  /\ running' = [running EXCEPT ![c] = "nothing"]
  /\ hit' = [hit EXCEPT ![c] = {}]
  /\ left' = [left EXCEPT ![c] = IF again THEN @ - 1 ELSE 0]
  /\ at' = [at EXCEPT ![c] = IF again THEN "queued" ELSE "answered"]
  /\ queue' = Tail(queue) \o (IF again THEN <<c>> ELSE <<>>)

\* No secret was found: the timer is set and the statement begins.  A secret,
\* or a purge that fails, is the end of the script.
Purged(c) ==
  /\ at[c] = "purge"
  /\ running[c] \in {"ok", "error"}
  /\ \/ /\ running[c] = "ok"
        /\ at' = [at EXCEPT ![c] = "statement"]
        /\ timer' = [timer EXCEPT ![c] = "set"]
        /\ Runs(c)
        /\ UNCHANGED <<queue, left>>
     \/ Leaves(c, FALSE) /\ UNCHANGED timer

\* A statement of a query is over: its timer is cleared.  It is told as timed
\* out if it failed and its timer had fired.  A failure, of the statement or in
\* shaping its rows, ends the script; so does a next statement that is refused.
Returns(c) ==
  /\ at[c] = "statement"
  /\ Query(c)
  /\ \/ running[c] = "ok" /\ Leaves(c, left[c] > 1)
     \/ running[c] \in {"ok", "error"} /\ Leaves(c, FALSE)
  /\ timer' = [timer EXCEPT ![c] = "none"]

\* All reads of a describe are one task, without a timer.
ReadReturns(c) ==
  /\ at[c] = "statement"
  /\ ~Query(c)
  /\ running[c] \in {"ok", "error"}
  /\ Leaves(c, FALSE)
  /\ UNCHANGED timer

Step(c) == Begins(c) \/ Purged(c) \/ Returns(c) \/ ReadReturns(c)

Next == \E c \in Calls : Asks(c) \/ Step(c) \/ Ends(c) \/ Fires(c)

Answered == \A c \in Calls : at[c] = "answered"

\* The event loop goes on, a timer that is set fires, and reads of footers end;
\* so does an interrupted statement.  Another may run for ever.
Fairness ==
  \A c \in Calls :
    /\ WF_gate(Asks(c)) /\ WF_gate(Step(c)) /\ WF_gate(Fires(c))
    /\ WF_gate(Ends(c) /\ (at[c] = "purge" \/ ~Query(c) \/ hit[c] # {}))
-----------------------------------------------------------------------------
\* A timer interrupts the statement it was set for and no other: "whichever
\* statement is running when the timer fires is, guaranteed, this one"
\* (tools/query.ts, serialise.ts).  So a call that waits or drops secrets has
\* no timer, and what timed out of its own is all that is told as timed out.
InterruptsItsOwn ==
  /\ \A c \in Calls : hit[c] \subseteq {c}
  /\ \A c, d \in Calls : running[c] = "works" /\ running[d] = "works" => c = d
  /\ \A c \in Calls : at[c] \in {"queued", "purge"} => timer[c] = "none"
=============================================================================
