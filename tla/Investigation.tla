--------------------------- MODULE Investigation ---------------------------
(***************************************************************************)
(* One investigation after another: brain/investigation.py runs the model  *)
(* with the MCP tools that brain/mcp_registry.py could connect, under a    *)
(* budget of tool calls, and closes every tool on the way out.  The model  *)
(* may ask for several calls at once, and they run concurrently.           *)
(***************************************************************************)
EXTENDS Naturals, FiniteSets

CONSTANTS
    Server,   \* the servers mcp_tools.json may name
    Call,     \* the tool calls one run of the model may make
    Budget,   \* TOOL_CALL_BUDGET
    MaxRuns   \* bound: investigations, one after another

ASSUME InvestigationAssumption ==
    /\ Budget \in Nat
    /\ MaxRuns \in Nat
    /\ IsFiniteSet(Call)

VARIABLES
    pc,          \* what run_investigation does next
    runs,        \* runs started
    config,      \* the servers mcp_tools.json named when the run began
    todo,        \* servers still to be connected
    tools,       \* ToolLifecycle.tools
    unavailable, \* ToolLifecycle.unavailable
    open,        \* the connections on the exit stack
    count,       \* the budget middleware's count
    calls,       \* where each tool call is
    report,      \* tools_unavailable of the run's report, once it has one
    raised       \* whether closing a tool raised

toolVars == <<config, todo, tools, unavailable, open>>
vars     == <<pc, runs, toolVars, count, calls, report, raised>>

CallState == {"unmade", "asked", "running", "done", "blocked", "dropped"}

Ran      == {c \in Call : calls[c] \in {"running", "done"}}
InFlight == {c \in Call : calls[c] \in {"asked", "running"}}

Init ==
    /\ pc = "returned"
    /\ runs = 0
    /\ config = {} /\ todo = {} /\ tools = {} /\ unavailable = {} /\ open = {}
    /\ count = 0
    /\ calls = [c \in Call |-> "unmade"]
    /\ report = {}
    /\ raised = FALSE
-----------------------------------------------------------------------------
(* ToolLifecycle.__aenter__.                                               *)

Idle == pc \in {"returned", "failed"} /\ runs < MaxRuns

(* A run's lifecycle, its calls and its report are its own.                *)
NewRun ==
    /\ Idle
    /\ runs' = runs + 1
    /\ tools' = {} /\ open' = {}
    /\ calls' = [c \in Call |-> "unmade"]
    /\ report' = {}
    /\ raised' = FALSE
    /\ UNCHANGED count

(* Mutant of Start: a skipped server is only logged.                       *)
StartLogsSkipped(named, skipped) ==
    /\ NewRun
    /\ config' = named
    /\ todo' = named \ skipped
    /\ unavailable' = {}
    /\ pc' = "connect"

(* The file is read afresh; a server whose URL is not set is skipped.      *)
Start(named, skipped) ==
    /\ NewRun
    /\ config' = named
    /\ todo' = named \ skipped
    /\ unavailable' = skipped
    /\ pc' = "connect"

(* The file is missing or malformed.                                       *)
ConfigFails ==
    /\ NewRun
    /\ config' = {} /\ todo' = {} /\ unavailable' = {}
    /\ pc' = "failed"

Connect(s) ==
    /\ pc = "connect"
    /\ s \in todo
    /\ todo' = todo \ {s}
    /\ tools' = tools \cup {s}
    /\ open' = open \cup {s}
    /\ UNCHANGED <<pc, runs, config, unavailable, count, calls, report, raised>>

ConnectFails(s) ==
    /\ pc = "connect"
    /\ s \in todo
    /\ todo' = todo \ {s}
    /\ unavailable' = unavailable \cup {s}
    /\ UNCHANGED <<pc, runs, config, tools, open, count, calls, report, raised>>
-----------------------------------------------------------------------------
(* The agent's run.                                                        *)

(* Mutant of BuildAgent: the middleware is made once for all runs.         *)
BuildAgentOnce ==
    /\ pc = "connect"
    /\ todo = {}
    /\ pc' = "model"
    /\ UNCHANGED <<runs, toolVars, count, calls, report, raised>>

(* A new agent, with a new middleware whose count starts at zero.          *)
BuildAgent ==
    /\ pc = "connect"
    /\ todo = {}
    /\ count' = 0
    /\ pc' = "model"
    /\ UNCHANGED <<runs, toolVars, calls, report, raised>>

(* The model asks for some calls of the tools it was given.                *)
Ask(cs) ==
    /\ pc = "model"
    /\ tools # {}
    /\ InFlight = {}
    /\ cs # {}
    /\ \A c \in cs : calls[c] = "unmade"
    /\ calls' = [c \in Call |-> IF c \in cs THEN "asked" ELSE calls[c]]
    /\ UNCHANGED <<pc, runs, toolVars, count, report, raised>>

(* Mutant of Admit: one call too many.                                     *)
AdmitOneMore(c) ==
    /\ calls[c] = "asked"
    /\ count <= Budget
    /\ count' = count + 1
    /\ calls' = [calls EXCEPT ![c] = "running"]
    /\ UNCHANGED <<pc, runs, toolVars, report, raised>>

(* The middleware: no await between the test and the increment.            *)
Admit(c) ==
    /\ calls[c] = "asked"
    /\ count < Budget
    /\ count' = count + 1
    /\ calls' = [calls EXCEPT ![c] = "running"]
    /\ UNCHANGED <<pc, runs, toolVars, report, raised>>

Block(c) ==
    /\ calls[c] = "asked"
    /\ count >= Budget
    /\ calls' = [calls EXCEPT ![c] = "blocked"]
    /\ UNCHANGED <<pc, runs, toolVars, count, report, raised>>

(* The tool answers, or raises: the model is told either way.              *)
CallEnds(c) ==
    /\ calls[c] = "running"
    /\ calls' = [calls EXCEPT ![c] = "done"]
    /\ UNCHANGED <<pc, runs, toolVars, count, report, raised>>

(* The model answers; it may list servers as unavailable by itself.        *)
Respond(listed) ==
    /\ pc = "model"
    /\ InFlight = {}
    /\ report' = {listed \cup unavailable}
    /\ pc' = "close"
    /\ UNCHANGED <<runs, toolVars, count, calls, raised>>

(* The model call raises, or its output is not an InvestigationReport; or  *)
(* the run is cut off with calls under way, which are given up.            *)
RunFails ==
    /\ pc = "model"
    /\ pc' = "close"
    /\ calls' = [c \in Call |-> CASE calls[c] = "asked"   -> "dropped"
                                 [] calls[c] = "running" -> "done"
                                 [] OTHER                -> calls[c]]
    /\ UNCHANGED <<runs, toolVars, count, report, raised>>
-----------------------------------------------------------------------------
(* ToolLifecycle.__aexit__: the exit stack closes every tool, whether or   *)
(* not another one raised; what was raised leaves at the end, and          *)
(* run_investigation turns it into an InvestigationError.                  *)

(* Mutant of Close: the first tool that raises ends the closing.           *)
CloseUntilOneRaises(s) ==
    /\ pc = "close"
    /\ s \in open
    /\ \/ open' = open \ {s} /\ UNCHANGED <<pc, raised>>
       \/ pc' = "failed" /\ raised' = TRUE /\ UNCHANGED open
    /\ UNCHANGED <<runs, config, todo, tools, unavailable, count, calls, report>>

Close(s) ==
    /\ pc = "close"
    /\ s \in open
    /\ open' = open \ {s}
    /\ raised' \in {raised, TRUE}
    /\ UNCHANGED <<pc, runs, config, todo, tools, unavailable, count, calls, report>>

Leave ==
    /\ pc = "close"
    /\ open = {}
    /\ pc' = IF raised \/ report = {} THEN "failed" ELSE "returned"
    /\ UNCHANGED <<runs, toolVars, count, calls, report, raised>>

Done == pc \in {"returned", "failed"} /\ runs = MaxRuns /\ UNCHANGED vars

Next ==
    \/ \E named \in SUBSET Server : \E skipped \in SUBSET named : Start(named, skipped)
    \/ ConfigFails
    \/ \E s \in Server : Connect(s) \/ ConnectFails(s) \/ Close(s)
    \/ BuildAgent
    \/ \E cs \in SUBSET Call : Ask(cs)
    \/ \E c \in Call : Admit(c) \/ Block(c) \/ CallEnds(c)
    \/ \E listed \in SUBSET Server : Respond(listed)
    \/ RunFails \/ Leave \/ Done

Spec == Init /\ [][Next]_vars
-----------------------------------------------------------------------------
(* Properties.                                                             *)

TypeOK ==
    /\ pc \in {"returned", "failed", "connect", "model", "close"}
    /\ runs \in Nat
    /\ config \in SUBSET Server
    /\ todo \in SUBSET Server
    /\ tools \in SUBSET Server
    /\ unavailable \in SUBSET Server
    /\ open \in SUBSET Server
    /\ count \in 0..Budget
    /\ calls \in [Call -> CallState]
    /\ report \in SUBSET SUBSET Server
    /\ raised \in BOOLEAN

(* Whatever the model asks for at once, a run makes no more than Budget    *)
(* tool calls, and it gets its whole budget: a call is only blocked after  *)
(* Budget calls of the same run (investigation.py:165-173).                *)
BudgetKept ==
    /\ Cardinality(Ran) <= Budget
    /\ (\E c \in Call : calls[c] = "blocked") => Cardinality(Ran) = Budget

(* A report that is returned never hides a tool it did not have: each      *)
(* server the file named was connected, or is listed as unavailable        *)
(* (mcp_registry.py:119-125, investigation.py:310-314).                    *)
EveryServerAccounted ==
    pc = "returned" => \A listed \in report : config \subseteq tools \cup listed

(* No run leaves a connection behind, however it ends (mcp_registry.py:110,*)
(* "closes all of them on __aexit__").                                     *)
NothingLeftOpen == pc \in {"returned", "failed"} => open = {}
=============================================================================
