---------------------------- MODULE AgentCycles ------------------------------
(***************************************************************************)
(* Cycles of the cognitive agent (keryxflow/agent/cognitive.py) and of the *)
(* team analyst, risk, executor (orchestrator.py, base_agent.py), and the  *)
(* tool executor they share (executor.py).                                 *)
(*                                                                         *)
(* The engine and the trading session each run cycles.  A cycle reads the  *)
(* price, then asks the model, runs the tools it names one after the other *)
(* and asks again.  Asking blocks the event loop, so it is one step; a     *)
(* tool is awaited, so other cycles go on between its start and its end.   *)
(* What the model answers is arbitrary.  One symbol, one client; the       *)
(* context that memory adds, the tools' own effects, the decision read     *)
(* from the answer and the result a cycle returns are left out.            *)
(***************************************************************************)
EXTENDS Integers, Sequences, FiniteSets

CONSTANTS
    Solos,          \* coroutines that run cycles of the cognitive agent
    Teams,          \* coroutines that run cycles of the orchestrator
    MaxPerMinute,   \* max_executions_per_minute
    Window,         \* the minute, in units of the clock
    Budget,         \* daily_token_budget, 0 for none
    CallTokens,     \* tokens of one answer
    MaxIterations,  \* max_tool_calls_per_cycle
    MaxErrors,      \* max_consecutive_errors
    Fallback,       \* fallback_to_technical
    MaxBatch,       \* bound: tools named in one answer
    MaxCycles,      \* bound: cycles started
    MaxClock        \* bound: the clock stops there

Cyclers == Solos \cup Teams

ASSUME CyclesAssumption ==
    /\ IsFiniteSet(Cyclers) /\ Solos \cap Teams = {}
    /\ {MaxPerMinute, Window, MaxIterations, MaxErrors, MaxBatch} \subseteq Nat \ {0}
    /\ {Budget, CallTokens, MaxCycles, MaxClock} \subseteq Nat
    /\ Fallback \in BOOLEAN

VARIABLES
    clock,       \* seconds, coarsely
    recent,      \* _recent_executions: when tools completed
    cycle,       \* cycler -> its cycle
    call,        \* cycler -> the category of the tool it awaits, or "none"
    counted,     \* the cognitive agent's total_tokens_used
    lost,        \* history: tokens of its cycles that failed
    exceeded,    \* budget_exceeded
    errors,      \* the cognitive agent's consecutive_errors
    traded,      \* history: the roles in which execution tools ran, per cycler
    cyclesRun    \* bound

cycleVars == <<clock, recent, cycle, call, counted, lost, exceeded, errors,
               traded, cyclesRun>>

Categories == {"perception", "analysis", "introspection", "execution"}

(* allowed_categories of each role; the cognitive agent's are the settings' *)
(* default, all of them, and it checks none when it runs a tool.            *)
AllowedCategories(role) ==
    CASE role = "analyst" -> {"perception", "analysis", "introspection"}
      [] role = "risk" -> {"perception", "analysis"}
      [] role = "executor" -> {"perception", "execution"}
      [] OTHER -> Categories

NoCycle == [stage |-> "idle", role |-> "none", iter |-> 0, batch |-> 0,
            tokens |-> 0]

CyclesInit ==
    /\ clock = 0 /\ recent = <<>>
    /\ cycle = [r \in Cyclers |-> NoCycle]
    /\ call = [r \in Cyclers |-> "none"]
    /\ counted = 0 /\ lost = 0 /\ exceeded = FALSE /\ errors = 0
    /\ traded = [r \in Cyclers |-> {}]
    /\ cyclesRun = 0

-----------------------------------------------------------------------------
(* How a cycle of the cognitive agent ends: _update_stats() for a cycle     *)
(* that was answered or fell back, and not for one that failed, whose       *)
(* tokens are not counted.  The flag is never cleared.                      *)
Ended(r) == cycle' = [cycle EXCEPT ![r] = NoCycle]

CountTokens(n) ==
    /\ counted' = counted + n
    /\ exceeded' = (exceeded \/ (Budget > 0 /\ counted' >= Budget))

FallsBack(r) ==
    cycle' = [cycle EXCEPT ![r] = [NoCycle EXCEPT !.stage = "fallback", !.role = "solo",
                                                  !.batch = 1]]

(* run_cycle().  Mutated form of BeginCycle: the budget is not looked at.   *)
BeginCycleUnchecked(r) ==
    /\ r \in Solos /\ cycle[r].stage = "idle" /\ cyclesRun < MaxCycles
    /\ cyclesRun' = cyclesRun + 1
    /\ cycle' = [cycle EXCEPT ![r] = [NoCycle EXCEPT !.stage = "context", !.role = "solo",
                                                     !.batch = 1]]
    /\ UNCHANGED <<clock, recent, call, counted, lost, exceeded, errors, traded>>

BeginCycle(r) ==
    /\ r \in Solos /\ cycle[r].stage = "idle" /\ cyclesRun < MaxCycles
    /\ ~(exceeded /\ Budget > 0)
    /\ cyclesRun' = cyclesRun + 1
    /\ cycle' = [cycle EXCEPT ![r] = [NoCycle EXCEPT !.stage = "context", !.role = "solo",
                                                     !.batch = 1]]
    /\ UNCHANGED <<clock, recent, call, counted, lost, exceeded, errors, traded>>

SkipCycle(r) ==
    /\ r \in Solos /\ cycle[r].stage = "idle" /\ cyclesRun < MaxCycles
    /\ exceeded /\ Budget > 0
    /\ cyclesRun' = cyclesRun + 1
    /\ IF Fallback THEN FallsBack(r) ELSE Ended(r)
    /\ UNCHANGED <<clock, recent, call, counted, lost, exceeded, errors, traded>>

(* AgentOrchestrator.run_cycle(): it has no budget to look at.              *)
BeginTeam(r) ==
    /\ r \in Teams /\ cycle[r].stage = "idle" /\ cyclesRun < MaxCycles
    /\ cyclesRun' = cyclesRun + 1
    /\ cycle' = [cycle EXCEPT ![r] = [NoCycle EXCEPT !.stage = "context", !.role = "analyst",
                                                     !.batch = 1]]
    /\ UNCHANGED <<clock, recent, call, counted, lost, exceeded, errors, traded>>

-----------------------------------------------------------------------------
(* After the last tool of a batch the cycle asks again, unless the          *)
(* iterations are used up: then it has nothing to say.                      *)
AfterTool(k) ==
    IF k.batch > 1 THEN [k EXCEPT !.batch = @ - 1]
    ELSE [k EXCEPT !.batch = 0,
                   !.stage = CASE k.stage = "context" -> "ask"
                               [] k.stage = "fallback" -> "fellback"
                               [] k.stage = "tools" /\ k.iter < MaxIterations -> "ask"
                               [] OTHER -> "silent"]

(* execute(): the window is looked at first, the call is counted when it    *)
(* has ended.  A raised error is counted nowhere that the limit looks.      *)
InWindowNow == {i \in DOMAIN recent : clock - recent[i] < Window}
RateOk == Cardinality(InWindowNow) < MaxPerMinute
Wants(r, cat) ==
    /\ cycle[r].stage \in {"context", "tools", "fallback"} /\ call[r] = "none"
    /\ cycle[r].stage # "tools" => cat = "perception"

(* The check of base_agent.py, which only the team's agents make.           *)
MayCall(r, cat) == cycle[r].stage = "tools" => cat \in AllowedCategories(cycle[r].role)

(* A result without an execution: not allowed, over the limit, refused by   *)
(* the guardrails (the module Aegis has them), or with invalid parameters.  *)
ToolRefused(r, cat) ==
    /\ Wants(r, cat)
    /\ cycle' = [cycle EXCEPT ![r] = AfterTool(@)]
    /\ UNCHANGED <<clock, recent, call, counted, lost, exceeded, errors, traded, cyclesRun>>

(* Mutated form of ToolStarts: the limit is not looked at.                  *)
ToolStartsUnlimited(r, cat) ==
    /\ Wants(r, cat) /\ MayCall(r, cat)
    /\ call' = [call EXCEPT ![r] = cat]
    /\ traded' = IF cat = "execution" THEN [traded EXCEPT ![r] = @ \cup {cycle[r].role}] ELSE traded
    /\ UNCHANGED <<clock, recent, cycle, counted, lost, exceeded, errors, cyclesRun>>

ToolStarts(r, cat) ==
    /\ Wants(r, cat) /\ MayCall(r, cat) /\ RateOk
    /\ call' = [call EXCEPT ![r] = cat]
    /\ traded' = IF cat = "execution" THEN [traded EXCEPT ![r] = @ \cup {cycle[r].role}] ELSE traded
    /\ UNCHANGED <<clock, recent, cycle, counted, lost, exceeded, errors, cyclesRun>>

(* The list is in order of time: what stays of it is its end.               *)
FirstInWindow ==
    CHOOSE i \in InWindowNow \cup {Len(recent) + 1} : \A j \in InWindowNow : i <= j
StillInWindow == SubSeq(recent, FirstInWindow, Len(recent))

ToolEnds(r) ==
    /\ call[r] # "none"
    /\ recent' = Append(StillInWindow, clock)
    /\ call' = [call EXCEPT ![r] = "none"]
    /\ cycle' = [cycle EXCEPT ![r] = AfterTool(@)]
    /\ UNCHANGED <<clock, counted, lost, exceeded, errors, traded, cyclesRun>>

ToolRaises(r) ==
    /\ call[r] # "none"
    /\ call' = [call EXCEPT ![r] = "none"]
    /\ cycle' = [cycle EXCEPT ![r] = AfterTool(@)]
    /\ UNCHANGED <<clock, recent, counted, lost, exceeded, errors, traded, cyclesRun>>

-----------------------------------------------------------------------------
(* The model's answer: tools to run, which may be the last of its turn, or  *)
(* words; or, when the last attempt failed, an error.                       *)
AskTools(r, n, last) ==
    /\ cycle[r].stage = "ask"
    /\ cycle' = [cycle EXCEPT ![r].stage = "tools", ![r].batch = n,
                              ![r].iter = IF last THEN MaxIterations ELSE @ + 1,
                              ![r].tokens = @ + CallTokens]
    /\ UNCHANGED <<clock, recent, call, counted, lost, exceeded, errors, traded, cyclesRun>>

AskWords(r) ==
    /\ cycle[r].stage = "ask"
    /\ cycle' = [cycle EXCEPT ![r].stage = "spoken", ![r].tokens = @ + CallTokens]
    /\ UNCHANGED <<clock, recent, call, counted, lost, exceeded, errors, traded, cyclesRun>>

(* An error in the cognitive agent's cycle: after enough of them in a row   *)
(* it falls back.                                                           *)
AskFails(r) ==
    /\ r \in Solos /\ cycle[r].stage = "ask"
    /\ errors' = errors + 1 /\ lost' = lost + cycle[r].tokens
    /\ IF Fallback /\ errors' >= MaxErrors THEN FallsBack(r) ELSE Ended(r)
    /\ UNCHANGED <<clock, recent, call, counted, exceeded, traded, cyclesRun>>

(* With words a decision is read from them; without, the result says that   *)
(* there was no action, although an order may have been placed on the way.  *)
EndCycle(r) ==
    /\ r \in Solos /\ cycle[r].stage \in {"spoken", "silent"}
    /\ Ended(r)
    /\ CountTokens(cycle[r].tokens)
    /\ errors' = 0
    /\ UNCHANGED <<clock, recent, call, lost, traded, cyclesRun>>

EndFallback(r) ==
    /\ cycle[r].stage = "fellback"
    /\ Ended(r)
    /\ CountTokens(0)
    /\ UNCHANGED <<clock, recent, call, lost, errors, traded, cyclesRun>>

-----------------------------------------------------------------------------
(* The team: each role asks with its own iterations; an error of one ends   *)
(* its part as a hold, a rejection or a trade not executed, whatever orders *)
(* its tools placed.  The orchestrator's own counters, which nothing reads, *)
(* are left out.                                                            *)
NextRole(k, role) == [k EXCEPT !.stage = "ask", !.role = role, !.iter = 0, !.tokens = 0]

AnalystSignals(r) ==
    /\ cycle[r].role = "analyst" /\ cycle[r].stage = "spoken"
    /\ cycle' = [cycle EXCEPT ![r] = NextRole(@, "risk")]
    /\ UNCHANGED <<clock, recent, call, counted, lost, exceeded, errors, traded, cyclesRun>>

RiskApproves(r) ==
    /\ cycle[r].role = "risk" /\ cycle[r].stage = "spoken"
    /\ cycle' = [cycle EXCEPT ![r] = NextRole(@, "executor")]
    /\ UNCHANGED <<clock, recent, call, counted, lost, exceeded, errors, traded, cyclesRun>>

(* Hold or low confidence, rejected: no action.                             *)
TeamDeclines(r) ==
    /\ cycle[r].role \in {"analyst", "risk"} /\ cycle[r].stage \in {"spoken", "silent"}
    /\ Ended(r)
    /\ UNCHANGED <<clock, recent, call, counted, lost, exceeded, errors, traded, cyclesRun>>

ExecutorReports(r) ==
    /\ cycle[r].role = "executor" /\ cycle[r].stage \in {"spoken", "silent"}
    /\ Ended(r)
    /\ UNCHANGED <<clock, recent, call, counted, lost, exceeded, errors, traded, cyclesRun>>

TeamAskFails(r) ==
    /\ r \in Teams /\ cycle[r].stage = "ask"
    /\ Ended(r)
    /\ UNCHANGED <<clock, recent, call, counted, lost, exceeded, errors, traded, cyclesRun>>

-----------------------------------------------------------------------------
ClockTicks ==
    /\ clock < MaxClock /\ clock' = clock + 1
    /\ UNCHANGED <<recent, cycle, call, counted, lost, exceeded, errors, traded, cyclesRun>>

CyclesNext ==
    \/ ClockTicks
    \/ \E r \in Cyclers :
          \/ BeginCycle(r) \/ SkipCycle(r) \/ BeginTeam(r)
          \/ \E cat \in Categories : ToolRefused(r, cat) \/ ToolStarts(r, cat)
          \/ ToolEnds(r) \/ ToolRaises(r)
          \/ \E n \in 1 .. MaxBatch, last \in BOOLEAN : AskTools(r, n, last)
          \/ AskWords(r) \/ AskFails(r) \/ EndCycle(r) \/ EndFallback(r)
          \/ AnalystSignals(r) \/ RiskApproves(r) \/ TeamDeclines(r)
          \/ ExecutorReports(r) \/ TeamAskFails(r)

CyclesSpec == CyclesInit /\ [][CyclesNext]_cycleVars

-----------------------------------------------------------------------------
CycleState == [stage : {"idle", "context", "ask", "tools", "fallback", "fellback",
                        "spoken", "silent"},
               role : {"none", "solo", "analyst", "risk", "executor"},
               iter : Nat, batch : Nat, tokens : Nat]

CyclesTypeOK ==
    /\ clock \in Nat /\ recent \in Seq(Nat)
    /\ cycle \in [Cyclers -> CycleState]
    /\ call \in [Cyclers -> Categories \cup {"none"}]
    /\ counted \in Nat /\ lost \in Nat /\ errors \in Nat /\ cyclesRun \in Nat
    /\ exceeded \in BOOLEAN
    /\ traded \in [Cyclers -> SUBSET {"none", "solo", "analyst", "risk", "executor"}]

(* The limit is looked at before a tool runs and counted after it           *)
(* (executor.py:119, 172), so the callers may pass it together: by all of   *)
(* them but one, and by no more.                                            *)
Running == {r \in Cyclers : call[r] # "none"}
RateOvershoot ==
    Cardinality(InWindowNow) + Cardinality(Running)
        <= MaxPerMinute - 1 + Cardinality(Cyclers)

(* The budget is no maximum, though the user guide calls it "Max AI tokens  *)
(* per day" (docs/user-guide.md:177): it is looked at when a cycle begins   *)
(* and counted when it ends (cognitive.py:288, 862), and coroutines that    *)
(* looked together pass it together.  What is counted passes it by at most  *)
(* a whole cycle for each coroutine that runs them.                         *)
MaxPerCycle == MaxIterations * CallTokens
BudgetOvershoot ==
    Budget > 0 => counted <= Budget - 1 + Cardinality(Solos) * MaxPerCycle

(* In a team only the executor's part runs execution tools, so no order     *)
(* precedes the risk agent's approval (base_agent.py:215).                  *)
OnlyExecutorTrades == \A r \in Teams : traded[r] \subseteq {"executor"}

(* The user guide calls daily_token_budget "Max AI tokens per day"          *)
(* (docs/user-guide.md): what the answers really took, failed cycles        *)
(* included, passes it by no more than what is counted may.                 *)
BudgetHolds ==
    Budget > 0 => counted + lost <= Budget - 1 + Cardinality(Solos) * MaxPerCycle
=============================================================================
