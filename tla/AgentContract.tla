---------------------------- MODULE AgentContract ----------------------------
(***************************************************************************)
(* What a run of the agent promises to whoever subscribes to its events    *)
(* and awaits it (packages/agent/src/agent.ts and agent-loop.ts): it goes  *)
(* through turns, in each of which the model is asked once; a response     *)
(* owes the results of its tool calls; the model is asked again, and the   *)
(* run ends, only when none is owed; a failed response ends the run.       *)
(* Agent shows that the loop keeps the promise, AgentSession that it is    *)
(* built on nothing else.                                                  *)
(***************************************************************************)
EXTENDS Naturals

CONSTANT MaxOwed   \* tool calls of one response

VARIABLES
    stage,  \* of the run: what was announced to the subscribers last
    owed    \* results of the last response that were not announced yet

contractVars == <<stage, owed>>

Stages == {"idle", "speaking", "asked", "answered", "failed", "ended"}

ContractInit == stage = "idle" /\ owed = 0

Moves(from, to) == stage \in from /\ stage' \in to

(* prompt() and continue().                                                *)
BeginRun == Moves({"idle"}, {"speaking"}) /\ owed' = 0

(* The messages of the turn have been announced: the model is asked.       *)
AskModel == Moves({"speaking"}, {"asked"}) /\ UNCHANGED owed

Answer == Moves({"asked"}, {"answered"}) /\ owed' \in 0 .. MaxOwed

AnswerFails == Moves({"asked"}, {"failed"}) /\ owed' = 0

Result == stage = "answered" /\ owed > 0 /\ owed' = owed - 1 /\ UNCHANGED stage

NextTurn == owed = 0 /\ Moves({"answered"}, {"speaking"}) /\ UNCHANGED owed

(* agent_end.                                                              *)
EndRun == owed = 0 /\ Moves({"answered", "failed"}, {"ended"}) /\ UNCHANGED owed

(* streamFn throws; the failure is reported by agent_end only.             *)
ThrowInStream == owed = 0 /\ Moves({"speaking", "asked"}, {"failed", "ended"}) /\ UNCHANGED owed

SettleRun == Moves({"ended"}, {"idle"}) /\ UNCHANGED owed

ContractNext ==
    \/ BeginRun \/ AskModel \/ Answer \/ AnswerFails \/ Result
    \/ NextTurn \/ EndRun \/ ThrowInStream \/ SettleRun

ContractSpec == ContractInit /\ [][ContractNext]_contractVars
=============================================================================
