--------------------------- MODULE WorkflowExecutor ---------------------------
(***************************************************************************)
(* WorkflowExecutor.execute (packages/agent/src/orchestration/executor.ts) *)
(* on one workflow, while others pause, resume and cancel it.  The tasks   *)
(* are numbered in the order of the definition; a dependency that names no *)
(* task is 0.  A handler succeeds or throws; the backoff before a retry is *)
(* an await like any other, its length is not modelled.                    *)
(***************************************************************************)
EXTENDS Naturals, FiniteSets

CONSTANTS Tasks,          \* their number
          Graphs,         \* the dependencies there may be: sets of functions
          OnFailure,      \* the policies there may be: subset of {"stop", "continue"}
          ConfigRetries   \* config.maxRetries

ASSUME WorkflowAssumption ==
    /\ Tasks \in Nat /\ ConfigRetries \in Nat
    /\ OnFailure \subseteq {"stop", "continue"}
    /\ Graphs \subseteq [1 .. Tasks -> SUBSET (0 .. Tasks)]

TaskIds == 1 .. Tasks

VARIABLES
    dependencies, policy,  \* the definition
    status,      \* task -> its status
    retries,     \* task -> how often it failed
    completed,   \* the set of that name: tasks that will not run again
    results,     \* the tasks with a result
    position,    \* where the scan goes on; 0 before execute()
    workflow,    \* workflow.status, "none" before
    outcome      \* the status returned, "none" before

workflowVars == <<dependencies, policy, status, retries, completed, results, position, workflow, outcome>>
definition == <<dependencies, policy>>

MaxRetries == IF ConfigRetries = 0 THEN 3 ELSE ConfigRetries

WorkflowInit ==
    /\ dependencies \in Graphs /\ policy \in OnFailure
    /\ status = [t \in TaskIds |-> "pending"]
    /\ retries = [t \in TaskIds |-> 0]
    /\ completed = {} /\ results = {} /\ position = 0
    /\ workflow = "none" /\ outcome = "none"

Begin ==
    /\ position = 0
    /\ position' = 1 /\ workflow' = "running"
    /\ UNCHANGED <<definition, status, retries, completed, results, outcome>>

AnyDependency(t) == dependencies[t] = {} \/ dependencies[t] \cap completed # {}   \* mutant: some instead of every
DependenciesDone(t) == dependencies[t] \subseteq completed

Eligible(t) == t \notin completed /\ status[t] = "pending" /\ DependenciesDone(t)

(* The scan goes on after the last task, then starts again: it ends when a *)
(* whole round finds nothing.                                              *)
Candidates == IF \E t \in position .. Tasks : Eligible(t)
                THEN {t \in position .. Tasks : Eligible(t)}
                ELSE {t \in TaskIds : Eligible(t)}

Idle == position > 0 /\ outcome = "none" /\ \A t \in TaskIds : status[t] \notin {"running", "retrying"}

StartTask ==
    /\ Idle
    /\ \E t \in Candidates :
         /\ \A other \in Candidates : t <= other
         /\ status' = [status EXCEPT ![t] = "running"]
         /\ position' = t + 1
    /\ UNCHANGED <<definition, retries, completed, results, workflow, outcome>>

TaskSucceeds(t) ==
    /\ status[t] = "running"
    /\ status' = [status EXCEPT ![t] = "completed"]
    /\ completed' = completed \cup {t} /\ results' = results \cup {t}
    /\ UNCHANGED <<definition, retries, position, workflow, outcome>>

Exhausted(t) == retries[t] + 1 >= MaxRetries

Fails(t) == status[t] = "running" /\ retries' = [retries EXCEPT ![t] = @ + 1]

TaskRetried(t) ==
    /\ Fails(t) /\ ~Exhausted(t)
    /\ status' = [status EXCEPT ![t] = "retrying"]
    /\ UNCHANGED <<definition, completed, results, position, workflow, outcome>>

BackoffOver(t) ==
    /\ status[t] = "retrying"
    /\ status' = [status EXCEPT ![t] = "pending"]
    /\ UNCHANGED <<definition, retries, completed, results, position, workflow, outcome>>

(* A task that failed for good counts as completed; under the policy       *)
(* "stop" the workflow ends, and its results are not returned.             *)
TaskFailed(t) ==
    /\ Fails(t) /\ Exhausted(t)
    /\ status' = [status EXCEPT ![t] = "failed"]
    /\ completed' = completed \cup {t}
    /\ IF policy = "stop"
         THEN workflow' = "failed" /\ outcome' = "failed"
         ELSE UNCHANGED <<workflow, outcome>>
    /\ UNCHANGED <<definition, results, position>>

AllCompleted == completed = TaskIds    \* mutant: the loop has no way out without progress
NothingToDo == Candidates = {}

(* The loop ends; what pause and cancel wrote is overwritten.              *)
Finish ==
    /\ Idle /\ NothingToDo
    /\ outcome' = IF \E t \in TaskIds : status[t] = "failed" THEN "failed" ELSE "completed"
    /\ workflow' = outcome'
    /\ UNCHANGED <<definition, status, retries, completed, results, position>>

Steer(from, to) ==
    /\ workflow \in from /\ workflow' = to
    /\ UNCHANGED <<definition, status, retries, completed, results, position, outcome>>

PauseWorkflow  == Steer({"running"}, "paused")
ResumeWorkflow == Steer({"paused"}, "running")
CancelWorkflow == Steer({"running", "paused"}, "cancelled")

Execute ==
    \/ StartTask \/ Finish
    \/ \E t \in TaskIds : TaskSucceeds(t) \/ TaskRetried(t) \/ BackoffOver(t) \/ TaskFailed(t)

WorkflowNext == Begin \/ Execute \/ PauseWorkflow \/ ResumeWorkflow \/ CancelWorkflow

WorkflowSpec == WorkflowInit /\ [][WorkflowNext]_workflowVars /\ WF_workflowVars(Execute)
---------------------------------------------------------------------------
(* Every dependency is a task, and none depends on itself in any way.      *)
Sound ==
    \E rank \in [TaskIds -> TaskIds] :
        \A t \in TaskIds : \A d \in dependencies[t] : d \in TaskIds /\ rank[d] < rank[t]

(* Under the policy "stop" a task runs only when the tasks it depends on   *)
(* have left their results for it.                                         *)
RunsWithResults == \A t \in TaskIds : status[t] = "running" => dependencies[t] \subseteq results
RunsWithResultsUnderStop == policy = "stop" => RunsWithResults

(* A workflow whose dependencies can be met is completed only with all its *)
(* tasks, each tried no more often than configured.                        *)
CompletedMeansAll == outcome = "completed" => results = TaskIds
CompletedMeansAllIfSound ==
    /\ Sound => CompletedMeansAll
    /\ \A t \in TaskIds : retries[t] <= MaxRetries

(* No task runs before its dependencies, and none is left out.             *)
WorkflowSound == RunsWithResultsUnderStop /\ CompletedMeansAllIfSound

(* Every execution ends, failing handlers and cyclic dependencies or not.  *)
ExecutionEnds == position > 0 ~> outcome # "none"

(* A cancelled workflow starts no task and stays cancelled.                *)
CancelStops ==
    [][workflow = "cancelled" =>
         workflow' = "cancelled" /\ \A t \in TaskIds : status'[t] = "running" => status[t] = "running"]_workflowVars
=============================================================================
