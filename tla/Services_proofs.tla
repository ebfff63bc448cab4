---------------------------- MODULE Services_proofs ----------------------------
(***************************************************************************)
(* Proofs about four services that share no state: the workflow executor,  *)
(* for any number of tasks, dependencies and retries, the RPC client, for  *)
(* any calls, the event stream, for any number of iterators and events,    *)
(* and the messages of a request, for any conversation.  The argument for  *)
(* the stream: the buffer holds the last events pushed, nobody waits       *)
(* unless it is empty, and every event before those in the buffer was      *)
(* yielded by, or handed to, one iterator.  For the messages: a message    *)
(* more appends a block to what is sent, so that an answer of which all    *)
(* results are sent stays so, and only the last one may still lack some:   *)
(* as many as it has calls that may get a result.                          *)
(***************************************************************************)
EXTENDS EventStream, WorkflowExecutor, RpcClient, TransformMessages, Functions, FiniteSetTheorems,
        SequenceTheorems, WellFoundedInduction, TLAPS

(* The workflow.                                                           *)

Statuses == {"pending", "running", "retrying", "completed", "failed"}
Settled  == {"completed", "failed"}
Active(t) == status[t] \in {"running", "retrying"}

WorkflowTypeOK ==
    /\ dependencies \in [TaskIds -> SUBSET (0 .. Tasks)]
    /\ status \in [TaskIds -> Statuses] /\ retries \in [TaskIds -> Nat]
    /\ position \in Nat

(* What execute() keeps about a task agrees with its status.               *)
Bookkeeping ==
    /\ completed = {t \in TaskIds : status[t] \in Settled}
    /\ results = {t \in TaskIds : status[t] = "completed"}

(* One task at a time, none after the end.                                 *)
OneActive ==
    /\ \A t, u \in TaskIds : Active(t) /\ Active(u) => t = u
    /\ outcome # "none" => \A t \in TaskIds : ~Active(t)

(* Under the policy "stop" a failed task ends the workflow.                *)
StopEnds ==
    policy = "stop" /\ (\E t \in TaskIds : status[t] = "failed") => outcome # "none"

RunsInOrder == \A t \in TaskIds : status[t] = "running" => dependencies[t] \subseteq completed

TriesLeft ==
    \A t \in TaskIds : retries[t] <= MaxRetries /\ (status[t] # "failed" => retries[t] < MaxRetries)

WorkflowInv ==
    /\ WorkflowTypeOK /\ Bookkeeping /\ OneActive /\ StopEnds /\ RunsInOrder /\ TriesLeft
    /\ Sound => CompletedMeansAll

(* A set of numbers has a least one.                                       *)
LEMMA LeastElement ==
    ASSUME NEW T \in SUBSET Nat, T # {}
    PROVE  \E x \in T : \A y \in T : x <= y
<1>1. IsWellFoundedOn(OpToRel(<, Nat), Nat)
  BY NatLessThanWellFounded
<1>2. PICK x \in T : \A y \in T : ~(<<y, x>> \in OpToRel(<, Nat))
  BY <1>1, WFMin
<1>3. \A y \in T : ~(y < x)
  BY <1>2 DEF OpToRel
<1> QED BY <1>3

(* When the dependencies are sound, some task that is not completed has    *)
(* only completed dependencies.                                            *)
LEMMA SomeTaskReady ==
    ASSUME Tasks \in Nat, Sound, NEW over \in SUBSET TaskIds, over # TaskIds
    PROVE  \E t \in TaskIds \ over : dependencies[t] \subseteq over
<1>1. PICK rank \in [TaskIds -> TaskIds] :
        \A t \in TaskIds : \A d \in dependencies[t] : d \in TaskIds /\ rank[d] < rank[t]
  BY DEF Sound
<1> DEFINE R == {rank[t] : t \in TaskIds \ over}
<1>2. R \in SUBSET Nat /\ R # {}
  <2>1. PICK t \in TaskIds : t \notin over
    OBVIOUS
  <2>2. rank[t] \in R
    BY <2>1
  <2>3. R \in SUBSET Nat
    BY <1>1 DEF TaskIds
  <2> QED BY <2>2, <2>3
<1>3. PICK x \in R : \A y \in R : x <= y
  BY <1>2, LeastElement
<1>4. PICK t \in TaskIds \ over : x = rank[t]
  BY <1>3
<1>5. ASSUME NEW d \in dependencies[t] PROVE d \in over
  <2>1. d \in TaskIds /\ rank[d] < rank[t] /\ rank[d] \in Nat /\ rank[t] \in Nat
    BY SMTT(30), <1>1, <1>4 DEF TaskIds
  <2>2. CASE d \notin over
    <3>1. rank[t] <= rank[d]
      BY <1>3, <1>4, <2>1, <2>2
    <3> QED BY <2>1, <3>1
  <2> QED BY <2>2
<1> QED BY <1>4, <1>5

(* MaxRetries is at least one: a task is tried before it is given up.      *)
LEMMA RetriesPositive == MaxRetries \in Nat /\ MaxRetries >= 1
BY WorkflowAssumption DEF MaxRetries

(* Before it begins every task is pending.                                 *)
LEMMA WorkflowInitInv == WorkflowInit => WorkflowInv
BY WorkflowAssumption, RetriesPositive
   DEF WorkflowInit, WorkflowInv, WorkflowTypeOK, Statuses, Settled, Active, Bookkeeping, OneActive, StopEnds, RunsInOrder,
       TriesLeft, CompletedMeansAll, TaskIds

(* No task has begun or ended: what the caller does to the status of the   *)
(* workflow changes nothing that is kept about a task.                     *)
LEMMA WorkflowTasksKept ==
    ASSUME WorkflowInv, UNCHANGED <<definition, status, retries, completed, results, outcome>>, position' \in Nat
    PROVE  WorkflowInv'
BY DEF WorkflowInv, WorkflowTypeOK, Active, Bookkeeping, OneActive, StopEnds, RunsInOrder, TriesLeft, Sound,
       CompletedMeansAll, definition

(* The tasks the loop may start are those eligible.                        *)
LEMMA CandidatesEligible ==
    ASSUME WorkflowTypeOK, position > 0
    PROVE  /\ \A t \in Candidates : t \in TaskIds /\ Eligible(t)
           /\ Candidates = {} => \A t \in TaskIds : ~Eligible(t)
<1>1. \A t \in position .. Tasks : t \in TaskIds
  BY WorkflowAssumption DEF TaskIds, WorkflowTypeOK
<1>2. CASE \E t \in position .. Tasks : Eligible(t)
  <2>1. Candidates = {t \in position .. Tasks : Eligible(t)}
    BY <1>2 DEF Candidates
  <2> QED BY <1>1, <1>2, <2>1
<1>3. CASE ~(\E t \in position .. Tasks : Eligible(t))
  <2>1. Candidates = {t \in TaskIds : Eligible(t)}
    BY <1>3 DEF Candidates
  <2> QED BY <2>1
<1> QED BY <1>2, <1>3

(* A task starts when no other is active and its dependencies are done.    *)
LEMMA TaskStarts ==
    ASSUME WorkflowInv, StartTask
    PROVE  WorkflowInv'
<1>1. PICK t \in Candidates : status' = [status EXCEPT ![t] = "running"] /\ position' = t + 1
  BY DEF StartTask
<1>2. /\ UNCHANGED <<definition, retries, completed, results, outcome>>
      /\ outcome = "none" /\ (\A u \in TaskIds : ~Active(u)) /\ position > 0
  BY DEF StartTask, Idle, Active
<1>3. t \in TaskIds /\ t \notin completed /\ status[t] = "pending" /\ dependencies[t] \subseteq completed
  BY <1>2, CandidatesEligible DEF Eligible, DependenciesDone, WorkflowInv
<1>4. /\ status'[t] = "running" /\ (\A u \in TaskIds : u # t => status'[u] = status[u])
      /\ status' \in [TaskIds -> Statuses]
  BY <1>1, <1>3 DEF WorkflowInv, WorkflowTypeOK, Statuses
<1>5. WorkflowTypeOK'
  BY <1>1, <1>2, <1>3, <1>4 DEF WorkflowInv, WorkflowTypeOK, definition, TaskIds
<1>6. Bookkeeping'
  BY <1>2, <1>3, <1>4 DEF WorkflowInv, Bookkeeping, Settled
<1>7. OneActive'
  <2>1. \A u \in TaskIds : Active(u)' => u = t
    BY <1>2, <1>4 DEF Active
  <2>2. outcome' = "none"
    BY <1>2
  <2> QED BY <2>1, <2>2 DEF OneActive
<1>8. StopEnds'
  <2>1. \A u \in TaskIds : status'[u] = "failed" => status[u] = "failed"
    BY <1>4
  <2> QED BY <1>2, <2>1 DEF WorkflowInv, StopEnds, definition
<1>9. RunsInOrder'
  BY <1>2, <1>3, <1>4 DEF RunsInOrder, Active, definition
<1>10. TriesLeft'
  <2>1. \A u \in TaskIds : status'[u] # "failed" => status[u] # "failed"
    BY <1>3, <1>4
  <2> QED BY <1>2, <2>1 DEF WorkflowInv, TriesLeft, MaxRetries
<1>11. CompletedMeansAll'
  BY <1>2 DEF CompletedMeansAll
<1> QED BY <1>5, <1>6, <1>7, <1>8, <1>9, <1>10, <1>11 DEF WorkflowInv

(* While a task is active, its end or its retry is the next thing that     *)
(* happens to a task, and no other becomes active.                         *)
LEMMA OnlyActive ==
    ASSUME WorkflowInv, NEW t \in TaskIds, Active(t), NEW s \in Statuses,
           status' = [status EXCEPT ![t] = s]
    PROVE  /\ status' \in [TaskIds -> Statuses] /\ status'[t] = s
           /\ \A u \in TaskIds : u # t => status'[u] = status[u] /\ ~Active(u) /\ ~Active(u)'
           /\ outcome = "none" /\ t \notin completed /\ t \notin results
           /\ policy = "stop" => \A u \in TaskIds : status[u] # "failed"
           /\ retries[t] \in Nat /\ retries[t] < MaxRetries
<1>1. status' \in [TaskIds -> Statuses] /\ status'[t] = s /\ (\A u \in TaskIds : u # t => status'[u] = status[u])
  BY DEF WorkflowInv, WorkflowTypeOK
<1>2. \A u \in TaskIds : u # t => ~Active(u)
  BY DEF WorkflowInv, OneActive
<1>3. \A u \in TaskIds : u # t => ~Active(u)'
  BY <1>1, <1>2 DEF Active
<1>4. outcome = "none"
  BY DEF WorkflowInv, OneActive
<1>5. t \notin completed /\ t \notin results
  BY DEF WorkflowInv, Bookkeeping, Active, Settled
<1>6. policy = "stop" => \A u \in TaskIds : status[u] # "failed"
  BY <1>4 DEF WorkflowInv, StopEnds
<1>7. retries[t] \in Nat /\ retries[t] < MaxRetries
  BY DEF WorkflowInv, WorkflowTypeOK, TriesLeft, Active
<1> QED BY <1>1, <1>2, <1>3, <1>4, <1>5, <1>6, <1>7

(* A handler succeeds.                                                     *)
LEMMA TaskSucceedsKeeps ==
    ASSUME WorkflowInv, NEW t \in TaskIds, TaskSucceeds(t)
    PROVE  WorkflowInv'
<1>1. /\ Active(t) /\ status' = [status EXCEPT ![t] = "completed"]
      /\ completed' = completed \cup {t} /\ results' = results \cup {t}
      /\ UNCHANGED <<definition, retries, position, workflow, outcome>>
  BY DEF TaskSucceeds, Active
<1>2. "completed" \in Statuses
  BY DEF Statuses
<1>3. /\ status' \in [TaskIds -> Statuses] /\ status'[t] = "completed"
      /\ \A u \in TaskIds : u # t => status'[u] = status[u] /\ ~Active(u) /\ ~Active(u)'
      /\ outcome = "none"
      /\ policy = "stop" => \A u \in TaskIds : status[u] # "failed"
  BY <1>1, <1>2, OnlyActive
<1>4. WorkflowTypeOK'
  BY <1>1, <1>3 DEF WorkflowInv, WorkflowTypeOK, definition
<1>5. Bookkeeping'
  BY <1>1, <1>3 DEF WorkflowInv, Bookkeeping, Settled
<1>6. OneActive'
  BY <1>1, <1>3 DEF OneActive, Active
<1>7. StopEnds'
  BY <1>1, <1>3 DEF StopEnds, definition
<1>8. RunsInOrder'
  BY <1>1, <1>3 DEF RunsInOrder, Active, definition
<1>9. TriesLeft'
  BY <1>1, <1>3 DEF WorkflowInv, TriesLeft, MaxRetries, Active
<1>10. CompletedMeansAll'
  BY <1>1, <1>3 DEF CompletedMeansAll
<1> QED BY <1>4, <1>5, <1>6, <1>7, <1>8, <1>9, <1>10 DEF WorkflowInv

(* A handler throws and has tries left, or its backoff ends.               *)
LEMMA TaskAgainKeeps ==
    ASSUME WorkflowInv, NEW t \in TaskIds, TaskRetried(t) \/ BackoffOver(t)
    PROVE  WorkflowInv'
<1>1. PICK s \in {"retrying", "pending"} : status' = [status EXCEPT ![t] = s]
  BY DEF TaskRetried, BackoffOver
<1>2. /\ Active(t) /\ s \in Statuses
      /\ UNCHANGED <<definition, completed, results, position, workflow, outcome>>
  BY <1>1 DEF TaskRetried, BackoffOver, Fails, Active, Statuses
<1>3. /\ status' \in [TaskIds -> Statuses] /\ status'[t] = s
      /\ \A u \in TaskIds : u # t => status'[u] = status[u] /\ ~Active(u) /\ ~Active(u)'
      /\ outcome = "none" /\ t \notin completed /\ t \notin results
      /\ policy = "stop" => \A u \in TaskIds : status[u] # "failed"
      /\ retries[t] \in Nat /\ retries[t] < MaxRetries
  BY <1>1, <1>2, OnlyActive
<1>4. /\ retries' \in [TaskIds -> Nat] /\ retries'[t] < MaxRetries
      /\ \A u \in TaskIds : u # t => retries'[u] = retries[u]
  <2>1. CASE TaskRetried(t)
    <3>1. retries' = [retries EXCEPT ![t] = @ + 1] /\ ~(retries[t] + 1 >= MaxRetries)
      BY <2>1 DEF TaskRetried, Fails, Exhausted
    <3> QED BY <1>3, <3>1, RetriesPositive DEF WorkflowInv, WorkflowTypeOK
  <2>2. CASE BackoffOver(t)
    <3>1. retries' = retries
      BY <2>2 DEF BackoffOver
    <3> QED BY <1>3, <3>1 DEF WorkflowInv, WorkflowTypeOK
  <2> QED BY <2>1, <2>2
<1>5. WorkflowTypeOK'
  BY <1>2, <1>3, <1>4 DEF WorkflowInv, WorkflowTypeOK, definition
<1>6. Bookkeeping'
  BY <1>1, <1>2, <1>3 DEF WorkflowInv, Bookkeeping, Settled
<1>7. OneActive'
  BY <1>2, <1>3 DEF OneActive, Active
<1>8. StopEnds'
  BY <1>1, <1>2, <1>3 DEF StopEnds, definition
<1>9. RunsInOrder'
  BY <1>1, <1>3 DEF RunsInOrder, Active
<1>10. TriesLeft'
  <2>1. ASSUME NEW u \in TaskIds
        PROVE  retries'[u] <= MaxRetries' /\ (status'[u] # "failed" => retries'[u] < MaxRetries')
    <3>1. MaxRetries' = MaxRetries
      BY DEF MaxRetries
    <3>2. CASE u = t
      BY <1>4, <3>1, <3>2, RetriesPositive
    <3>3. CASE u # t
      BY <1>3, <1>4, <3>1, <3>3 DEF WorkflowInv, TriesLeft
    <3> QED BY <3>2, <3>3
  <2> QED BY <2>1 DEF TriesLeft
<1>11. CompletedMeansAll'
  BY <1>2, <1>3 DEF CompletedMeansAll
<1> QED BY <1>5, <1>6, <1>7, <1>8, <1>9, <1>10, <1>11 DEF WorkflowInv

(* A task has failed for good.                                             *)
LEMMA TaskFailedKeeps ==
    ASSUME WorkflowInv, NEW t \in TaskIds, TaskFailed(t)
    PROVE  WorkflowInv'
<1>1. /\ Active(t) /\ status' = [status EXCEPT ![t] = "failed"]
      /\ completed' = completed \cup {t}
      /\ retries' = [retries EXCEPT ![t] = @ + 1]
      /\ UNCHANGED <<definition, results, position>>
  BY DEF TaskFailed, Fails, Active
<1>2. /\ policy = "stop" => outcome' = "failed"
      /\ policy # "stop" => outcome' = outcome
  BY DEF TaskFailed
<1>3. "failed" \in Statuses
  BY DEF Statuses
<1>4. /\ status' \in [TaskIds -> Statuses] /\ status'[t] = "failed"
      /\ \A u \in TaskIds : u # t => status'[u] = status[u] /\ ~Active(u) /\ ~Active(u)'
      /\ outcome = "none" /\ t \notin completed /\ t \notin results
      /\ policy = "stop" => \A u \in TaskIds : status[u] # "failed"
      /\ retries[t] \in Nat /\ retries[t] < MaxRetries
  BY <1>1, <1>3, OnlyActive
<1>5. /\ retries' \in [TaskIds -> Nat] /\ retries'[t] = retries[t] + 1
      /\ \A u \in TaskIds : u # t => retries'[u] = retries[u]
  BY <1>1 DEF WorkflowInv, WorkflowTypeOK
<1>6. WorkflowTypeOK'
  BY <1>1, <1>4, <1>5 DEF WorkflowInv, WorkflowTypeOK, definition
<1>7. Bookkeeping'
  BY <1>1, <1>4 DEF WorkflowInv, Bookkeeping, Settled
<1>8. OneActive'
  BY <1>4 DEF OneActive, Active
<1>9. StopEnds'
  BY <1>1, <1>2 DEF StopEnds, definition
<1>10. RunsInOrder'
  BY <1>4 DEF RunsInOrder, Active
<1>11. TriesLeft'
  <2>1. ASSUME NEW u \in TaskIds
        PROVE  retries'[u] <= MaxRetries' /\ (status'[u] # "failed" => retries'[u] < MaxRetries')
    <3>1. MaxRetries' = MaxRetries
      BY DEF MaxRetries
    <3>2. CASE u = t
      BY <1>4, <1>5, <3>1, <3>2, RetriesPositive
    <3>3. CASE u # t
      BY <1>4, <1>5, <3>1, <3>3 DEF WorkflowInv, TriesLeft
    <3> QED BY <3>2, <3>3
  <2> QED BY <2>1 DEF TriesLeft
<1>12. CompletedMeansAll'
  BY <1>2, <1>4 DEF CompletedMeansAll
<1> QED BY <1>6, <1>7, <1>8, <1>9, <1>10, <1>11, <1>12 DEF WorkflowInv

(* The loop ends with nothing eligible.  With sound dependencies that is   *)
(* because every task is completed.                                        *)
LEMMA FinishKeeps ==
    ASSUME WorkflowInv, Finish
    PROVE  WorkflowInv'
<1>1. /\ outcome = "none" /\ position > 0 /\ \A t \in TaskIds : ~Active(t)
      /\ Candidates = {}
      /\ outcome' = IF \E t \in TaskIds : status[t] = "failed" THEN "failed" ELSE "completed"
      /\ UNCHANGED <<definition, status, retries, completed, results, position>>
  BY DEF Finish, Idle, NothingToDo, Active
<1>2. \A t \in TaskIds : ~Eligible(t)
  BY <1>1, CandidatesEligible DEF WorkflowInv
<1>3. WorkflowTypeOK' /\ Bookkeeping' /\ RunsInOrder'
  BY <1>1 DEF WorkflowInv, WorkflowTypeOK, Bookkeeping, RunsInOrder, definition
<1>4. OneActive' /\ StopEnds'
  BY <1>1 DEF WorkflowInv, OneActive, StopEnds, Active
<1>5. TriesLeft'
  BY <1>1 DEF WorkflowInv, TriesLeft, MaxRetries
<1>6. ASSUME Sound', outcome' = "completed" PROVE results' = TaskIds
  <2>1. Sound /\ \A t \in TaskIds : status[t] # "failed"
    BY <1>1, <1>6 DEF Sound, definition
  <2>2. completed \in SUBSET TaskIds /\ Tasks \in Nat
    BY WorkflowAssumption DEF WorkflowInv, Bookkeeping
  <2>3. completed = TaskIds
    <3>1. SUFFICES ASSUME completed # TaskIds PROVE FALSE
      OBVIOUS
    <3>2. PICK t \in TaskIds \ completed : dependencies[t] \subseteq completed
      BY <2>1, <2>2, <3>1, SomeTaskReady
    <3>3. status[t] = "pending"
      BY <1>1, <3>2 DEF WorkflowInv, WorkflowTypeOK, Bookkeeping, Statuses, Settled, Active
    <3> QED BY <1>2, <3>2, <3>3 DEF Eligible, DependenciesDone
  <2>4. \A t \in TaskIds : status[t] = "completed"
    BY <2>1, <2>3 DEF WorkflowInv, Bookkeeping, Settled
  <2> QED BY <1>1, <2>4 DEF WorkflowInv, Bookkeeping
<1> QED BY <1>3, <1>4, <1>5, <1>6 DEF WorkflowInv, CompletedMeansAll

(* The invariant holds in every state of every execution, with handlers    *)
(* that fail, cyclic dependencies, and a workflow paused, resumed and      *)
(* cancelled meanwhile.                                                    *)
THEOREM WorkflowInvariant == WorkflowSpec => []WorkflowInv
<1>1. WorkflowInv /\ [WorkflowNext]_workflowVars => WorkflowInv'
  <2>1. SUFFICES ASSUME WorkflowInv, [WorkflowNext]_workflowVars PROVE WorkflowInv'
    OBVIOUS
  <2>2. CASE Begin
    BY <2>1, <2>2, WorkflowTasksKept DEF Begin
  <2>3. CASE StartTask
    BY <2>1, <2>3, TaskStarts
  <2>4. CASE Finish
    BY <2>1, <2>4, FinishKeeps
  <2>5. CASE \E t \in TaskIds : TaskSucceeds(t) \/ TaskRetried(t) \/ BackoffOver(t) \/ TaskFailed(t)
    BY <2>1, <2>5, TaskSucceedsKeeps, TaskAgainKeeps, TaskFailedKeeps
  <2>6. CASE PauseWorkflow \/ ResumeWorkflow \/ CancelWorkflow
    <3>1. UNCHANGED <<definition, status, retries, completed, results, outcome>> /\ position' = position
      BY <2>6 DEF PauseWorkflow, ResumeWorkflow, CancelWorkflow, Steer
    <3>2. position' \in Nat
      BY <2>1, <3>1 DEF WorkflowInv, WorkflowTypeOK
    <3> QED BY <2>1, <3>1, <3>2, WorkflowTasksKept
  <2>7. CASE UNCHANGED workflowVars
    <3>1. UNCHANGED <<definition, status, retries, completed, results, outcome>> /\ position' = position
      BY <2>7 DEF workflowVars, definition
    <3>2. position' \in Nat
      BY <2>1, <3>1 DEF WorkflowInv, WorkflowTypeOK
    <3> QED BY <2>1, <3>1, <3>2, WorkflowTasksKept
  <2> QED BY <2>1, <2>2, <2>3, <2>4, <2>5, <2>6, <2>7 DEF WorkflowNext, Execute
<1> QED BY <1>1, WorkflowInitInv, PTL DEF WorkflowSpec

(* Under the policy "stop" a task runs only with the results of all it     *)
(* depends on, and a workflow with sound dependencies is completed only    *)
(* with all its tasks, for any number of tasks and any retries.            *)
THEOREM WorkflowSoundHolds == WorkflowSpec => []WorkflowSound
<1>1. WorkflowInv => WorkflowSound
  <2>1. SUFFICES ASSUME WorkflowInv PROVE WorkflowSound
    OBVIOUS
  <2>2. ASSUME policy = "stop", NEW t \in TaskIds, status[t] = "running"
        PROVE  dependencies[t] \subseteq results
    <3>1. outcome = "none" /\ dependencies[t] \subseteq completed
      BY <2>1, <2>2 DEF WorkflowInv, OneActive, Active, RunsInOrder
    <3>2. \A u \in TaskIds : status[u] # "failed"
      BY <2>1, <2>2, <3>1 DEF WorkflowInv, StopEnds
    <3> QED BY <2>1, <3>1, <3>2 DEF WorkflowInv, Bookkeeping, Settled
  <2>3. CompletedMeansAllIfSound
    BY <2>1 DEF WorkflowInv, CompletedMeansAllIfSound, TriesLeft
  <2> QED BY <2>2, <2>3 DEF WorkflowSound, RunsWithResultsUnderStop, RunsWithResults
<1> QED BY <1>1, WorkflowInvariant, PTL

---------------------------------------------------------------------------
(* The RPC client.  Beside NothingLeaks: a listener is in the list once.   *)
RpcTypeOK ==
    /\ call \in [RpcCalls -> {"new", "pending", "resolved", "rejected"}]
    /\ waiter \in [Listening -> {"new", "listening", "resolved", "rejected"}]
    /\ listeners \in Seq(Listening)

ListenersOnce == \A i, j \in DOMAIN listeners : listeners[i] = listeners[j] => i = j

Pending == {c \in RpcCalls : call[c] = "pending"}
Heard   == {l \in Listening : waiter[l] = "listening"}

TimersAccurate ==
    /\ \A c \in RpcCalls : c \in timers <=> call[c] = "pending"
    /\ \A l \in Listening : ListenerTimer(l) \in timers <=> waiter[l] = "listening"
    /\ \A x \in timers : x \in RpcCalls \/ \E l \in Listening : x = ListenerTimer(l)

ListAccurate == \A l \in Listening : waiter[l] = "listening" <=> \E i \in DOMAIN listeners : listeners[i] = l

RpcInv == RpcTypeOK /\ ListenersOnce /\ requests \subseteq Pending /\ TimersAccurate /\ ListAccurate

(* Timers of calls and of listeners are never taken for one another.       *)
LEMMA TimersDiffer ==
    /\ \A l \in Listening : ListenerTimer(l) \notin RpcCalls
    /\ \A l, m \in Listening : ListenerTimer(l) = ListenerTimer(m) => l = m
BY TimersDistinct DEF ListenerTimer

(* A new client has nothing pending.                                       *)
LEMMA RpcInitInv == RpcInit => RpcInv
<1>1. SUFFICES ASSUME RpcInit PROVE RpcInv
  OBVIOUS
<1>2. listeners = <<>> /\ timers = {} /\ requests = {}
  BY <1>1 DEF RpcInit
<1>3. listeners \in Seq(Listening) /\ \A i : i \notin DOMAIN listeners
  BY <1>2
<1> QED BY <1>1, <1>2, <1>3 DEF RpcInit, RpcInv, RpcTypeOK, ListenersOnce, TimersAccurate, ListAccurate, Pending

(* A command is sent, or fails at once without a process.                  *)
LEMMA RequestEffect ==
    ASSUME RpcInv, NEW c \in RpcCalls, NEW armed, Request(c, armed)
    PROVE  /\ call' \in [RpcCalls -> {"new", "pending", "resolved", "rejected"}]
           /\ \A d \in RpcCalls : d # c => call'[d] = call[d]
           /\ call'[c] \in {"pending", "rejected"} /\ call[c] = "new"
           /\ requests' \subseteq Pending'
           /\ timers' = timers \cup armed \cup (IF call'[c] = "pending" THEN {c} ELSE {})
<1>1. call[c] = "new"
  BY DEF Request
<1>2. CASE client = "none"
  BY <1>1, <1>2 DEF Request, RpcInv, RpcTypeOK, Pending
<1>3. CASE client # "none"
  BY <1>1, <1>3 DEF Request, RpcInv, RpcTypeOK, Pending
<1> QED BY <1>2, <1>3

(* A listener joins the list.                                              *)
LEMMA ListenEffect ==
    ASSUME RpcInv, NEW l \in Listening, Listen(l)
    PROVE  /\ waiter' \in [Listening -> {"new", "listening", "resolved", "rejected"}]
           /\ listeners' \in Seq(Listening) /\ waiter[l] = "new" /\ waiter'[l] = "listening"
           /\ \A m \in Listening : m # l => waiter'[m] = waiter[m]
           /\ ListenersOnce' /\ ListAccurate'
<1>1. /\ waiter[l] = "new" /\ waiter' = [waiter EXCEPT ![l] = "listening"]
      /\ listeners' = Append(listeners, l) /\ listeners \in Seq(Listening)
  BY DEF Listen, RpcInv, RpcTypeOK
<1>2. /\ waiter' \in [Listening -> {"new", "listening", "resolved", "rejected"}] /\ waiter'[l] = "listening"
      /\ \A m \in Listening : m # l => waiter'[m] = waiter[m]
  BY <1>1 DEF RpcInv, RpcTypeOK
<1>3. /\ listeners' \in Seq(Listening) /\ Len(listeners) \in Nat
      /\ DOMAIN listeners' = DOMAIN listeners \cup {Len(listeners) + 1}
      /\ Len(listeners) + 1 \notin DOMAIN listeners
      /\ listeners'[Len(listeners) + 1] = l
      /\ \A i \in DOMAIN listeners : listeners'[i] = listeners[i]
  BY <1>1
<1>4. \A i \in DOMAIN listeners : listeners[i] # l
  BY <1>1 DEF RpcInv, ListAccurate
<1>5. ListenersOnce'
  BY <1>3, <1>4 DEF RpcInv, ListenersOnce
<1>6. ListAccurate'
  <2>1. ASSUME NEW m \in Listening
        PROVE  waiter'[m] = "listening" <=> \E i \in DOMAIN listeners' : listeners'[i] = m
    <3>1. CASE m = l
      BY <1>2, <1>3, <3>1
    <3>2. CASE m # l
      BY <1>2, <1>3, <3>2 DEF RpcInv, ListAccurate
    <3> QED BY <3>1, <3>2
  <2> QED BY <2>1 DEF ListAccurate
<1> QED BY <1>1, <1>2, <1>3, <1>5, <1>6

(* A command sent has a timer and an entry.                                *)
LEMMA SendKeeps ==
    ASSUME RpcInv, NEW c \in RpcCalls, Send(c)
    PROVE  RpcInv'
<1>1. Request(c, {}) /\ UNCHANGED <<listeners, waiter>>
  BY DEF Send, waiterVars
<1>2. /\ call' \in [RpcCalls -> {"new", "pending", "resolved", "rejected"}]
      /\ \A d \in RpcCalls : d # c => call'[d] = call[d]
      /\ call'[c] \in {"pending", "rejected"} /\ call[c] = "new"
      /\ requests' \subseteq Pending'
      /\ timers' = timers \cup (IF call'[c] = "pending" THEN {c} ELSE {})
  BY <1>1, RequestEffect
<1>3. TimersAccurate'
  BY <1>1, <1>2, TimersDiffer DEF RpcInv, TimersAccurate
<1> QED BY <1>1, <1>2, <1>3 DEF RpcInv, RpcTypeOK, ListenersOnce, ListAccurate

(* promptAndWait arms the timer of its listener, and of its call.          *)
LEMMA PromptKeeps ==
    ASSUME RpcInv, NEW p \in Prompts, PromptAndWait(p)
    PROVE  RpcInv'
<1>1. p \in RpcCalls /\ p \in Listening /\ Request(p, {ListenerTimer(p)}) /\ Listen(p)
  BY DEF PromptAndWait, RpcCalls, Listening
<1>2. /\ call' \in [RpcCalls -> {"new", "pending", "resolved", "rejected"}]
      /\ \A d \in RpcCalls : d # p => call'[d] = call[d]
      /\ call'[p] \in {"pending", "rejected"} /\ call[p] = "new"
      /\ requests' \subseteq Pending'
      /\ timers' = timers \cup {ListenerTimer(p)} \cup (IF call'[p] = "pending" THEN {p} ELSE {})
  BY <1>1, RequestEffect
<1>3. /\ waiter' \in [Listening -> {"new", "listening", "resolved", "rejected"}]
      /\ listeners' \in Seq(Listening) /\ waiter[p] = "new" /\ waiter'[p] = "listening"
      /\ \A m \in Listening : m # p => waiter'[m] = waiter[m]
      /\ ListenersOnce' /\ ListAccurate'
  BY <1>1, ListenEffect
<1>4. TimersAccurate'
  BY <1>1, <1>2, <1>3, TimersDiffer DEF RpcInv, TimersAccurate
<1> QED BY <1>2, <1>3, <1>4 DEF RpcInv, RpcTypeOK

(* waitForIdle adds a listener and arms its timer.                         *)
LEMMA WaitKeeps ==
    ASSUME RpcInv, NEW l \in Listening, WaitForIdle(l)
    PROVE  RpcInv'
<1>1. Listen(l) /\ timers' = timers \cup {ListenerTimer(l)} /\ UNCHANGED <<call, requests>>
  BY DEF WaitForIdle, callVars
<1>2. /\ waiter' \in [Listening -> {"new", "listening", "resolved", "rejected"}]
      /\ listeners' \in Seq(Listening) /\ waiter[l] = "new" /\ waiter'[l] = "listening"
      /\ \A m \in Listening : m # l => waiter'[m] = waiter[m]
      /\ ListenersOnce' /\ ListAccurate'
  BY <1>1, ListenEffect
<1>3. TimersAccurate'
  BY <1>1, <1>2, TimersDiffer DEF RpcInv, TimersAccurate
<1> QED BY <1>1, <1>2, <1>3 DEF RpcInv, RpcTypeOK, Pending

(* A call is settled by its response or its timer.                         *)
LEMMA CallSettled ==
    ASSUME RpcInv, NEW c \in RpcCalls, NEW how \in {"resolved", "rejected"}, call' = [call EXCEPT ![c] = how],
           requests' = requests \ {c}, timers' = timers \ {c}, UNCHANGED <<listeners, waiter>>
    PROVE  RpcInv'
<1>1. /\ call' \in [RpcCalls -> {"new", "pending", "resolved", "rejected"}] /\ call'[c] = how
      /\ \A d \in RpcCalls : d # c => call'[d] = call[d]
  BY DEF RpcInv, RpcTypeOK
<1>2. TimersAccurate'
  BY <1>1, TimersDiffer DEF RpcInv, TimersAccurate
<1>3. requests' \subseteq Pending'
  BY <1>1 DEF RpcInv, Pending
<1> QED BY <1>1, <1>2, <1>3 DEF RpcInv, RpcTypeOK, ListenersOnce, ListAccurate

(* The listeners at odd places have seen agent_end and are gone; those at  *)
(* even places were skipped and are left.                                  *)
LEMMA AgentEndKeeps ==
    ASSUME RpcInv, NEW line, HandleAgentEnd(line)
    PROVE  RpcInv'
<1> DEFINE woken == {listeners[i] : i \in Notified}
           n == Len(listeners)
           half == n \div 2
<1>1. /\ waiter' = [l \in Listening |-> IF l \in woken THEN "resolved" ELSE waiter[l]]
      /\ listeners' = [i \in 1 .. half |-> listeners[2 * i]]
      /\ timers' = timers \ {ListenerTimer(l) : l \in woken}
      /\ UNCHANGED <<call, requests>>
  BY DEF HandleAgentEnd, Skipped, callVars
<1>2. /\ listeners \in Seq(Listening) /\ n \in Nat /\ DOMAIN listeners = 1 .. n
      /\ \A i \in 1 .. n : listeners[i] \in Listening
  BY DEF RpcInv, RpcTypeOK
<1>3. half \in Nat /\ (\A i \in 1 .. half : 2 * i \in 1 .. n /\ 2 * i % 2 = 0)
      /\ \A i \in 1 .. n : i % 2 = 1 \/ (i \div 2 \in 1 .. half /\ i = 2 * (i \div 2))
  BY <1>2
<1>4. \A i \in Notified : i \in 1 .. n /\ i % 2 = 1
  BY <1>2 DEF Notified
<1>5. \A l \in woken : l \in Listening /\ waiter[l] = "listening"
  BY <1>2, <1>4 DEF RpcInv, ListAccurate
<1>6. \A i \in 1 .. n : listeners[i] \in woken <=> i % 2 = 1
  BY <1>2, <1>4 DEF Notified, RpcInv, ListenersOnce
<1> HIDE DEF woken, n, half
<1>7. listeners' \in Seq(Listening) /\ DOMAIN listeners' = 1 .. half
      /\ \A i \in 1 .. half : listeners'[i] = listeners[2 * i]
  BY <1>1, <1>2, <1>3
<1>8. /\ waiter' \in [Listening -> {"new", "listening", "resolved", "rejected"}]
      /\ \A l \in Listening : waiter'[l] = IF l \in woken THEN "resolved" ELSE waiter[l]
  BY <1>1 DEF RpcInv, RpcTypeOK
<1>9. ListenersOnce'
  <2>1. ASSUME NEW i \in 1 .. half, NEW j \in 1 .. half, listeners'[i] = listeners'[j] PROVE i = j
    <3>1. 2 * i = 2 * j
      BY SMTT(30), <1>2, <1>3, <1>7, <2>1 DEF RpcInv, ListenersOnce
    <3> QED BY <1>3, <3>1
  <2> QED BY <1>7, <2>1 DEF ListenersOnce
<1>10. ListAccurate'
  <2>1. ASSUME NEW l \in Listening, waiter'[l] = "listening"
        PROVE  \E i \in DOMAIN listeners' : listeners'[i] = l
    <3>1. l \notin woken /\ waiter[l] = "listening"
      BY <1>8, <2>1
    <3>2. PICK i \in 1 .. n : listeners[i] = l
      BY <1>2, <3>1 DEF RpcInv, ListAccurate
    <3>3. i \div 2 \in 1 .. half /\ i = 2 * (i \div 2)
      BY <1>3, <1>6, <3>1, <3>2
    <3> QED BY <1>7, <3>2, <3>3
  <2>2. ASSUME NEW l \in Listening, NEW i \in 1 .. half, listeners'[i] = l
        PROVE  waiter'[l] = "listening"
    <3>1. listeners[2 * i] = l /\ 2 * i \in 1 .. n /\ l \notin woken
      BY <1>3, <1>6, <1>7, <2>2
    <3>2. waiter[l] = "listening"
      BY <1>2, <3>1 DEF RpcInv, ListAccurate
    <3> QED BY <1>8, <3>1, <3>2
  <2> QED BY <1>7, <2>1, <2>2 DEF ListAccurate
<1>11. TimersAccurate'
  BY <1>1, <1>5, <1>8, TimersDiffer DEF RpcInv, TimersAccurate
<1> QED BY <1>1, <1>7, <1>8, <1>9, <1>10, <1>11 DEF RpcInv, RpcTypeOK, Pending

(* A listener whose timer fires leaves the list.                           *)
LEMMA ListenerTimeoutKeeps ==
    ASSUME RpcInv, NEW l \in Listening, ListenerTimeout(l)
    PROVE  RpcInv'
<1> DEFINE n == Len(listeners)
<1>1. /\ waiter' = [waiter EXCEPT ![l] = "rejected"] /\ listeners' = Without(l)
      /\ timers' = timers \ {ListenerTimer(l)} /\ UNCHANGED <<call, requests>>
  BY DEF ListenerTimeout, callVars
<1>2. waiter[l] = "listening"
  BY DEF ListenerTimeout, RpcInv, TimersAccurate
<1>3. /\ listeners \in Seq(Listening) /\ n \in Nat /\ DOMAIN listeners = 1 .. n
      /\ \A i \in 1 .. n : listeners[i] \in Listening
      /\ \A i, j \in 1 .. n : listeners[i] = listeners[j] => i = j
  BY DEF RpcInv, RpcTypeOK, ListenersOnce
<1>4. PICK k \in 1 .. n : listeners[k] = l
  BY <1>2, <1>3 DEF RpcInv, ListAccurate
<1> DEFINE At1(i) == IF k <= i THEN i + 1 ELSE i
<1>5. \A i \in 1 .. n - 1 : (\E j \in 1 .. i : listeners[j] = l) <=> k <= i
  BY <1>3, <1>4
<1>6. \A i \in 1 .. n - 1 : At1(i) \in 1 .. n /\ At1(i) # k
  BY <1>3, <1>4
<1>7. listeners' = [i \in 1 .. n - 1 |-> listeners[At1(i)]]
  <2>1. listeners' = [i \in 1 .. n - 1 |-> listeners[IF \E j \in 1 .. i : listeners[j] = l THEN i + 1 ELSE i]]
    BY <1>1, <1>3, <1>4 DEF Without
  <2> QED BY <1>5, <2>1
<1>8. \A i, j \in 1 .. n - 1 : At1(i) = At1(j) => i = j
  BY <1>3
<1>9. \A j \in 1 .. n : j # k => \E i \in 1 .. n - 1 : At1(i) = j
  <2>1. ASSUME NEW j \in 1 .. n, j # k PROVE \E i \in 1 .. n - 1 : At1(i) = j
    <3>1. CASE j < k
      BY <1>3, <1>4, <3>1
    <3>2. CASE j > k
      <4>1. j - 1 \in 1 .. n - 1 /\ At1(j - 1) = j
        BY <1>3, <1>4, <3>2
      <4> QED BY <4>1
    <3> QED BY <1>3, <1>4, <2>1, <3>1, <3>2
  <2> QED BY <2>1
<1> HIDE DEF n, At1
<1>10. listeners' \in Seq(Listening) /\ DOMAIN listeners' = 1 .. n - 1
       /\ \A i \in 1 .. n - 1 : listeners'[i] = listeners[At1(i)]
  <2>1. n - 1 \in Nat
    BY <1>3, <1>4
  <2> QED BY <1>3, <1>6, <1>7, <2>1
<1>11. /\ waiter' \in [Listening -> {"new", "listening", "resolved", "rejected"}] /\ waiter'[l] = "rejected"
       /\ \A m \in Listening : m # l => waiter'[m] = waiter[m]
  BY <1>1 DEF RpcInv, RpcTypeOK
<1>12. ListenersOnce'
  BY <1>3, <1>6, <1>8, <1>10 DEF ListenersOnce
<1>13. ListAccurate'
  <2>1. ASSUME NEW m \in Listening, waiter'[m] = "listening"
        PROVE  \E i \in DOMAIN listeners' : listeners'[i] = m
    <3>1. m # l /\ waiter[m] = "listening"
      BY <1>11, <2>1
    <3>2. PICK j \in 1 .. n : listeners[j] = m
      BY <1>3, <3>1 DEF RpcInv, ListAccurate
    <3>3. PICK i \in 1 .. n - 1 : At1(i) = j
      BY <1>4, <1>9, <3>1, <3>2
    <3> QED BY <1>10, <3>2, <3>3
  <2>2. ASSUME NEW m \in Listening, NEW i \in 1 .. n - 1, listeners'[i] = m
        PROVE  waiter'[m] = "listening"
    <3>1. listeners[At1(i)] = m /\ At1(i) \in 1 .. n /\ m # l
      BY <1>3, <1>4, <1>6, <1>10, <2>2
    <3>2. waiter[m] = "listening"
      BY <1>3, <3>1 DEF RpcInv, ListAccurate
    <3> QED BY <1>11, <3>1, <3>2
  <2> QED BY <1>10, <2>1, <2>2 DEF ListAccurate
<1>14. TimersAccurate'
  BY <1>1, <1>11, TimersDiffer DEF RpcInv, TimersAccurate
<1> QED BY <1>1, <1>10, <1>11, <1>12, <1>13, <1>14 DEF RpcInv, RpcTypeOK, Pending

(* As many listen as there are in the list.                                *)
LEMMA ListHoldsHeard ==
    ASSUME RpcInv
    PROVE  Cardinality(Heard) = Len(listeners)
<1> DEFINE n == Len(listeners)
<1>1. n \in Nat /\ DOMAIN listeners = 1 .. n /\ listeners \in [1 .. n -> Heard]
  BY DEF RpcInv, RpcTypeOK, ListAccurate, Heard
<1>2. listeners \in Bijection(1 .. n, Heard)
  <2>1. listeners \in Injection(1 .. n, Heard)
    BY <1>1, Zenon DEF Injection, IsInjective, RpcInv, ListenersOnce
  <2>2. listeners \in Surjection(1 .. n, Heard)
    BY <1>1 DEF Surjection, RpcInv, ListAccurate, Heard
  <2> QED BY <2>1, <2>2 DEF Bijection
<1>3. ExistsBijection(1 .. n, Heard)
  BY <1>2 DEF ExistsBijection
<1>4. IsFiniteSet(1 .. n) /\ Cardinality(1 .. n) = n
  BY <1>1, FS_Interval
<1> QED BY <1>3, <1>4, FS_Bijection

(* Whatever is answered late, twice or never, and whenever the client is   *)
(* stopped or the server crashes, what is settled leaves no timer, request *)
(* or listener, and what is not has its timer (rpc-client.ts).             *)
THEOREM NothingLeaksHolds == RpcSpec => []NothingLeaks
<1>1. RpcInv /\ [RpcNext]_rpcVars => RpcInv'
  <2>1. SUFFICES ASSUME RpcInv, [RpcNext]_rpcVars PROVE RpcInv'
    OBVIOUS
  <2>2. ASSUME NEW c \in RpcCalls, Timeout(c) PROVE RpcInv'
    <3>1. /\ call' = [call EXCEPT ![c] = "rejected"] /\ requests' = requests \ {c} /\ timers' = timers \ {c}
          /\ UNCHANGED <<listeners, waiter>>
      BY <2>2 DEF Timeout, RequestDropped, waiterVars
    <3> QED BY <2>1, <3>1, CallSettled
  <2>3. CASE HandleLine
    <3>1. PICK line : HandleResponse(line) \/ HandleAgentEnd(line) \/ HandleOther(line)
      BY <2>3 DEF HandleLine
    <3>2. CASE HandleResponse(line)
      <4>1. line.of \in RpcCalls
        BY <2>1, <3>2 DEF HandleResponse, Answers, RpcInv, Pending
      <4> QED BY <2>1, <3>2, <4>1, CallSettled DEF HandleResponse, waiterVars
    <3>3. CASE HandleOther(line)
      BY <2>1, <3>3 DEF HandleOther, callVars, waiterVars, RpcInv, RpcTypeOK, ListenersOnce, TimersAccurate, ListAccurate,
                        Pending
    <3> QED BY <2>1, <3>1, <3>2, <3>3, AgentEndKeeps
  <2>4. CASE \/ Stop \/ Stopped \/ ClientStart \/ ReadCommand \/ AgentEnd \/ ServerCrash
             \/ (\E c \in RpcCalls : Respond(c)) \/ UNCHANGED rpcVars
    <3>1. UNCHANGED <<call, timers, listeners, waiter>> /\ requests' \in {requests, {}}
      BY <2>4 DEF Stop, Stopped, TimersKept, ClientStart, ReadCommand, AgentEnd, ServerCrash, Respond, rpcVars, callVars,
                  waiterVars
    <3> QED BY <2>1, <3>1 DEF RpcInv, RpcTypeOK, ListenersOnce, TimersAccurate, ListAccurate, Pending
  <2> QED BY <2>1, <2>2, <2>3, <2>4, SendKeeps, PromptKeeps, WaitKeeps, ListenerTimeoutKeeps DEF RpcNext
<1>2. RpcInv => NothingLeaks
  <2>1. SUFFICES ASSUME RpcInv PROVE NothingLeaks
    OBVIOUS
  <2>2. timers = Pending \cup {ListenerTimer(l) : l \in Heard}
    BY <2>1 DEF RpcInv, TimersAccurate, Pending, Heard
  <2>3. Cardinality(Heard) = Len(listeners)
    BY <2>1, ListHoldsHeard
  <2> QED BY <2>1, <2>2, <2>3 DEF NothingLeaks, RpcInv, Pending, Heard, ListAccurate
<1> QED BY <1>1, <1>2, RpcInitInv, PTL DEF RpcSpec
----------------------------------------------------------------------------
(* The event stream.                                                       *)

StreamTypeOK ==
    /\ buffer \in Seq(Nat) /\ waiting \in Seq(Consumers)
    /\ done \in BOOLEAN
    /\ pushed \in Nat /\ pushed <= MaxEvents
    /\ at \in [Consumers -> {"new", "ready", "waiting", "returned", "left"}]
    /\ handed \in [Consumers -> Nat]
    /\ received \in [Consumers -> Seq(Nat)]

(* How many events have left the buffer.                                   *)
Delivered == pushed - Len(buffer)

BufferHoldsLast ==
    /\ Len(buffer) <= pushed
    /\ \A i \in DOMAIN buffer : buffer[i] = Delivered + i

(* Nobody waits twice, or with an answer, or while there are events.       *)
WaitersIdle ==
    /\ waiting # <<>> => buffer = <<>>
    /\ \A i \in DOMAIN waiting : at[waiting[i]] = "waiting" /\ handed[waiting[i]] = Undelivered
    /\ \A i, j \in DOMAIN waiting : waiting[i] = waiting[j] => i = j

StreamAnswers ==
    \A c \in Consumers :
        /\ handed[c] # Undelivered => at[c] = "waiting"
        /\ handed[c] \in {Undelivered, EndOfStream} \cup 1 .. Delivered
        /\ handed[c] = EndOfStream \/ at[c] = "returned" => done /\ buffer = <<>>

InOrder ==
    \A c \in Consumers :
        /\ Increasing(received[c])
        /\ \A i \in DOMAIN received[c] :
             /\ received[c][i] \in 1 .. Delivered
             /\ handed[c] # Undelivered => received[c][i] < handed[c]

Has(c, e) == handed[c] = e \/ YieldedBy(c, e)

EachOnce ==
    \A e \in 1 .. Delivered :
        /\ \E c \in Consumers : Has(c, e)
        /\ \A c, d \in Consumers : Has(c, e) /\ Has(d, e) => c = d

StreamInv ==
    /\ StreamTypeOK /\ (~done => pushed < MaxEvents)
    /\ BufferHoldsLast /\ WaitersIdle /\ StreamAnswers /\ InOrder /\ EachOnce
----------------------------------------------------------------------------
(* The indices of a sequence that grows at its end.                        *)
LEMMA AppendIndices ==
    ASSUME NEW S, NEW s \in Seq(S), NEW e \in S
    PROVE  /\ Append(s, e) \in Seq(S) /\ Len(s) \in Nat /\ DOMAIN s = 1 .. Len(s)
           /\ Len(Append(s, e)) = Len(s) + 1 /\ DOMAIN Append(s, e) = 1 .. Len(s) + 1
           /\ \A i \in 1 .. Len(s) : Append(s, e)[i] = s[i]
           /\ Append(s, e)[Len(s) + 1] = e
BY AppendProperties

(* The indices of a sequence whose first element is taken.                 *)
LEMMA TailIndices ==
    ASSUME NEW S, NEW s \in Seq(S), s # <<>>
    PROVE  /\ Head(s) = s[1] /\ Head(s) \in S /\ Tail(s) \in Seq(S) /\ Len(s) \in Nat /\ Len(s) >= 1
           /\ DOMAIN s = 1 .. Len(s) /\ Len(Tail(s)) = Len(s) - 1 /\ DOMAIN Tail(s) = 1 .. Len(s) - 1
           /\ \A i \in 1 .. Len(s) - 1 : Tail(s)[i] = s[i + 1]
BY HeadTailProperties, LenProperties

(* A yielded event comes after those yielded before it.                    *)
LEMMA AppendIncreasing ==
    ASSUME NEW s \in Seq(Nat), NEW e \in Nat, Increasing(s), \A i \in DOMAIN s : s[i] < e
    PROVE  Increasing(Append(s, e))
<1> DEFINE t == Append(s, e)
<1>1. Len(s) \in Nat /\ DOMAIN s = 1 .. Len(s) /\ DOMAIN t = 1 .. Len(s) + 1
      /\ (\A i \in 1 .. Len(s) : t[i] = s[i]) /\ t[Len(s) + 1] = e
  BY AppendIndices
<1> HIDE DEF t
<1>2. ASSUME NEW i \in 1 .. Len(s) + 1, NEW j \in 1 .. Len(s) + 1, i < j
      PROVE  t[i] < t[j]
  <2>1. i \in 1 .. Len(s)
    BY <1>1, <1>2
  <2>2. CASE j \in 1 .. Len(s)
    BY <1>1, <1>2, <2>1, <2>2 DEF Increasing
  <2>3. CASE j = Len(s) + 1
    BY <1>1, <2>1, <2>3
  <2> QED BY <1>1, <2>2, <2>3
<1> QED BY <1>1, <1>2 DEF Increasing, t

(* The types of what the definitions of the stream are built from.         *)
LEMMA StreamTypes ==
    ASSUME StreamInv
    PROVE  /\ MaxEvents \in Nat /\ MaxEvents >= 1 /\ pushed \in Nat /\ pushed <= MaxEvents
           /\ Len(buffer) \in Nat /\ Len(buffer) <= pushed /\ Delivered \in Nat /\ Delivered <= pushed
           /\ DOMAIN buffer = 1 .. Len(buffer) /\ DOMAIN waiting = 1 .. Len(waiting) /\ Len(waiting) \in Nat
           /\ buffer = <<>> <=> Len(buffer) = 0
           /\ \A i \in DOMAIN waiting : waiting[i] \in Consumers
           /\ DOMAIN at = Consumers /\ DOMAIN handed = Consumers /\ DOMAIN received = Consumers
           /\ \A c \in Consumers : received[c] \in Seq(Nat) /\ handed[c] \in Nat
<1>1. /\ StreamTypeOK /\ BufferHoldsLast
  BY DEF StreamInv
<1>2. MaxEvents \in Nat /\ MaxEvents >= 1
  BY StreamAssumption
<1>3. buffer \in Seq(Nat) /\ waiting \in Seq(Consumers)
  BY <1>1 DEF StreamTypeOK
<1>4. Len(buffer) \in Nat /\ DOMAIN buffer = 1 .. Len(buffer) /\ (buffer = <<>> <=> Len(buffer) = 0)
      /\ DOMAIN waiting = 1 .. Len(waiting) /\ Len(waiting) \in Nat /\ \A i \in DOMAIN waiting : waiting[i] \in Consumers
  BY <1>3, LenProperties, EmptySeq
<1>5. pushed \in Nat /\ pushed <= MaxEvents /\ Len(buffer) <= pushed
  BY <1>1 DEF StreamTypeOK, BufferHoldsLast
<1>6. Delivered \in Nat /\ Delivered <= pushed
  BY <1>4, <1>5 DEF Delivered
<1>7. DOMAIN at = Consumers /\ DOMAIN handed = Consumers /\ DOMAIN received = Consumers
      /\ \A c \in Consumers : received[c] \in Seq(Nat) /\ handed[c] \in Nat
  BY <1>1 DEF StreamTypeOK
<1> QED BY <1>2, <1>4, <1>5, <1>6, <1>7

(* Nothing is pushed, awaited or delivered at first.                       *)
LEMMA StreamInitInv == StreamInit => StreamInv
<1> SUFFICES ASSUME StreamInit
             PROVE  StreamInv
  OBVIOUS
<1>0. pushed = 0 /\ done = FALSE
  BY DEF StreamInit
<1>1. /\ buffer = <<>> /\ waiting = <<>>
      /\ \A c \in Consumers : at[c] = "new" /\ handed[c] = 0 /\ received[c] = <<>>
  BY DEF StreamInit, Undelivered
<1>2. Len(buffer) = 0 /\ DOMAIN buffer = {} /\ DOMAIN waiting = {} /\ Delivered = 0
  <2>1. Len(<<>>) = 0 /\ DOMAIN <<>> = {}
    OBVIOUS
  <2>2. Len(buffer) = 0 /\ DOMAIN buffer = {} /\ DOMAIN waiting = {}
    BY <1>1, <2>1, Zenon
  <2>3. Delivered = 0
    BY <1>0, <2>2 DEF Delivered
  <2> QED BY <2>2, <2>3
<1>3. StreamTypeOK /\ (~done => pushed < MaxEvents)
  <2>1. <<>> \in Seq(Nat) /\ <<>> \in Seq(Consumers)
    BY EmptySeq
  <2>2. received \in [Consumers -> Seq(Nat)]
    BY <2>1 DEF StreamInit
  <2>3. handed \in [Consumers -> Nat] /\ at \in [Consumers -> {"new", "ready", "waiting", "returned", "left"}]
    BY DEF StreamInit, Undelivered
  <2>4. buffer \in Seq(Nat) /\ waiting \in Seq(Consumers)
    BY <1>1, <2>1, Zenon
  <2>5. pushed \in Nat /\ pushed <= MaxEvents /\ pushed < MaxEvents
    <3>1. pushed = 0 /\ MaxEvents \in Nat \ {0}
      BY <1>0, StreamAssumption
    <3> QED BY <3>1
  <2>6. done \in BOOLEAN
    BY <1>0, Zenon
  <2> QED BY <2>2, <2>3, <2>4, <2>5, <2>6 DEF StreamTypeOK
<1>4. BufferHoldsLast /\ WaitersIdle
  <2>1. BufferHoldsLast
    BY <1>0, <1>2 DEF BufferHoldsLast
  <2>2. WaitersIdle
    BY <1>1, <1>2, Zenon DEF WaitersIdle
  <2> QED BY <2>1, <2>2
<1>5. StreamAnswers
  <2>1. EndOfStream # 0
    BY StreamAssumption DEF EndOfStream
  <2> QED BY <1>1, <2>1 DEF StreamAnswers, Undelivered
<1>6. InOrder
  <2>1. \A c \in Consumers : DOMAIN received[c] = {}
    <3>1. DOMAIN <<>> = {}
      OBVIOUS
    <3> QED BY <1>1, <3>1, Zenon
  <2> QED BY <2>1 DEF InOrder, Increasing
<1>7. EachOnce
  BY <1>2 DEF EachOnce
<1> QED BY <1>3, <1>4, <1>5, <1>6, <1>7 DEF StreamInv

(* A step that touches no event and no answer: an iterator begins, goes on *)
(* to wait, returns or is left.                                            *)
LEMMA QuietKeeps ==
    ASSUME StreamInv, UNCHANGED <<buffer, pushed, done, handed, received>>,
           waiting' \in Seq(Consumers), at' \in [Consumers -> {"new", "ready", "waiting", "returned", "left"}],
           WaitersIdle',
           \A c \in Consumers : handed[c] # Undelivered => at'[c] = "waiting",
           \A c \in Consumers : at'[c] = "returned" => done /\ buffer = <<>>
    PROVE  StreamInv'
<1>1. Delivered' = Delivered /\ \A c \in Consumers, e \in Nat : Has(c, e)' <=> Has(c, e)
  BY DEF Delivered, Has, YieldedBy
<1>2. StreamTypeOK' /\ (~done' => pushed' < MaxEvents) /\ BufferHoldsLast' /\ InOrder'
  BY <1>1 DEF StreamInv, StreamTypeOK, BufferHoldsLast, InOrder
<1>3. StreamAnswers'
  BY <1>1 DEF StreamInv, StreamAnswers
<1>4. EachOnce'
  BY <1>1, StreamTypes DEF StreamInv, EachOnce
<1> QED BY <1>2, <1>3, <1>4 DEF StreamInv

(* An event is handed to the first who waits, or else buffered.            *)
LEMMA PushKeeps ==
    ASSUME StreamInv, NEW final \in BOOLEAN, Push(final)
    PROVE  StreamInv'
<1>0. /\ StreamTypeOK /\ (~done => pushed < MaxEvents) /\ BufferHoldsLast /\ WaitersIdle /\ StreamAnswers /\ InOrder /\ EachOnce
  BY DEF StreamInv
<1>1. /\ ~done /\ pushed' = pushed + 1 /\ done' = final /\ at' = at /\ received' = received
      /\ pushed + 1 < MaxEvents \/ final
  BY DEF Push
<1>2. pushed < MaxEvents /\ pushed' \in Nat /\ pushed' <= MaxEvents /\ done' \in BOOLEAN /\ (~done' => pushed' < MaxEvents)
  <2>1. pushed < MaxEvents /\ pushed \in Nat /\ MaxEvents \in Nat
    BY <1>0, <1>1, StreamTypes
  <2>2. done' \in BOOLEAN
    BY <1>1, Zenon
  <2>3. ~done' => pushed + 1 < MaxEvents
    BY <1>1, Zenon
  <2> QED BY <1>1, <2>1, <2>2, <2>3
<1>3. \A c \in Consumers : handed[c] \in {Undelivered} \cup 1 .. Delivered /\ at[c] # "returned"
  BY <1>0, <1>1, Zenon DEF StreamAnswers
<1>4. CASE waiting # <<>>
  <2> DEFINE w == waiting[1]
  <2>1. /\ handed' = [handed EXCEPT ![w] = pushed + 1] /\ waiting' = Tail(waiting) /\ buffer' = buffer
        /\ Tail(waiting) \in Seq(Consumers) /\ DOMAIN Tail(waiting) = 1 .. Len(waiting) - 1
        /\ \A i \in 1 .. Len(waiting) - 1 : Tail(waiting)[i] = waiting[i + 1]
        /\ Len(waiting) \in Nat /\ Len(waiting) >= 1 /\ DOMAIN waiting = 1 .. Len(waiting)
    <3>1. waiting \in Seq(Consumers)
      BY <1>0 DEF StreamTypeOK
    <3> QED BY <1>4, <3>1, TailIndices DEF Push
  <2>2. w \in Consumers /\ at[w] = "waiting" /\ handed[w] = Undelivered
    <3>1. 1 \in DOMAIN waiting
      BY <2>1
    <3> QED BY <1>0, <3>1, StreamTypes DEF WaitersIdle
  <2>3. buffer = <<>> /\ Len(buffer) = 0 /\ Delivered = pushed /\ Delivered' = pushed + 1
    <3>1. buffer = <<>>
      BY <1>0, <1>4, Zenon DEF WaitersIdle
    <3>2. Len(buffer) = 0
      BY <3>1, StreamTypes
    <3> QED BY <1>1, <2>1, <3>1, <3>2, StreamTypes DEF Delivered
  <2>4. /\ pushed \in Nat /\ handed'[w] = pushed + 1
        /\ \A c \in Consumers : c # w => handed'[c] = handed[c]
    BY <2>1, <2>2, StreamTypes
  <2> HIDE DEF w
  <2>5. StreamTypeOK'
    <3>0. pushed + 1 \in Nat
      BY <2>4
    <3>1. handed' \in [Consumers -> Nat]
      BY <1>0, <2>1, <3>0 DEF StreamTypeOK
    <3> QED BY <1>0, <1>1, <1>2, <2>1, <3>1 DEF StreamTypeOK
  <2>6. BufferHoldsLast'
    BY <1>1, <2>1, <2>3, <2>4 DEF BufferHoldsLast
  <2>7. WaitersIdle'
    <3>1. \A i \in 1 .. Len(waiting) - 1 : i + 1 \in DOMAIN waiting /\ i + 1 # 1 /\ waiting'[i] = waiting[i + 1]
      BY <2>1
    <3>2. \A i \in DOMAIN waiting : i # 1 => waiting[i] # w /\ waiting[i] \in Consumers
      <4>1. 1 \in DOMAIN waiting
        BY <2>1
      <4> QED BY <1>0, <4>1, StreamTypes DEF WaitersIdle, w
    <3>3. \A i \in DOMAIN waiting' : at'[waiting'[i]] = "waiting" /\ handed'[waiting'[i]] = Undelivered
      BY <1>0, <1>1, <2>1, <2>4, <3>1, <3>2 DEF WaitersIdle
    <3>4. ASSUME NEW i \in 1 .. Len(waiting) - 1, NEW j \in 1 .. Len(waiting) - 1, waiting'[i] = waiting'[j]
          PROVE  i = j
      <4>1. waiting[i + 1] = waiting[j + 1] /\ i + 1 \in DOMAIN waiting /\ j + 1 \in DOMAIN waiting
        BY <3>1, <3>4
      <4>2. i + 1 = j + 1
        BY <1>0, <4>1 DEF WaitersIdle
      <4> QED BY <4>2
    <3>5. DOMAIN waiting' = 1 .. Len(waiting) - 1 /\ buffer' = <<>>
      BY <2>1, <2>3, Zenon
    <3> QED BY <3>3, <3>4, <3>5 DEF WaitersIdle
  <2>8. StreamAnswers'
    <3> SUFFICES ASSUME NEW c \in Consumers
                 PROVE  /\ handed'[c] # Undelivered => at[c] = "waiting"
                        /\ handed'[c] \in {Undelivered} \cup 1 .. Delivered'
                        /\ handed'[c] # EndOfStream /\ at'[c] # "returned"
      BY <1>1 DEF StreamAnswers, Undelivered, EndOfStream
    <3>1. handed[c] # Undelivered => at[c] = "waiting"
      BY <1>0 DEF StreamAnswers
    <3>2. CASE c = w
      BY <1>1, <1>2, <1>3, <2>2, <2>3, <2>4, <3>2, StreamAssumption DEF EndOfStream
    <3>3. CASE c # w
      <4>1. handed[c] \in {Undelivered} \cup 1 .. Delivered
        BY <1>3
      <4> QED BY <1>1, <1>2, <1>3, <2>3, <2>4, <3>1, <3>3, <4>1, StreamAssumption DEF EndOfStream, Undelivered
    <3> QED BY <3>2, <3>3
  <2>9. InOrder'
    <3> SUFFICES ASSUME NEW c \in Consumers
                 PROVE  /\ Increasing(received[c])
                        /\ \A i \in DOMAIN received[c] :
                             received[c][i] \in 1 .. Delivered' /\ (handed'[c] # Undelivered => received[c][i] < handed'[c])
      BY <1>1 DEF InOrder
    <3>1. Increasing(received[c]) /\ \A i \in DOMAIN received[c] :
             received[c][i] \in 1 .. Delivered /\ (handed[c] # Undelivered => received[c][i] < handed[c])
      BY <1>0 DEF InOrder
    <3> QED BY <2>3, <2>4, <3>1
  <2>10. EachOnce'
    <3>1. \A c \in Consumers, e \in 1 .. Delivered : Has(c, e)' <=> Has(c, e)
      BY <1>1, <2>2, <2>3, <2>4 DEF Has, YieldedBy, Undelivered
    <3>2. \A c \in Consumers, e \in {pushed + 1} : Has(c, e)' <=> c = w
      <4> TAKE c \in Consumers, e \in {pushed + 1}
      <4>1. ~YieldedBy(c, e)'
        BY <1>0, <1>1, <2>3, <2>4 DEF InOrder, YieldedBy
      <4>2. handed'[c] = e <=> c = w
        BY <1>3, <2>3, <2>4 DEF Undelivered
      <4> QED BY <4>1, <4>2 DEF Has
    <3>3. \A e \in 1 .. Delivered' : e \in 1 .. Delivered \/ e = pushed + 1
      BY <2>3, <2>4
    <3> QED BY <1>0, <2>2, <3>1, <3>2, <3>3 DEF EachOnce
  <2> QED BY <1>2, <2>5, <2>6, <2>7, <2>8, <2>9, <2>10 DEF StreamInv
<1>5. CASE waiting = <<>>
  <2>1. /\ buffer' = Append(buffer, pushed + 1) /\ waiting' = waiting /\ handed' = handed
    BY <1>5 DEF Push
  <2>2. /\ buffer \in Seq(Nat) /\ pushed \in Nat /\ pushed + 1 \in Nat /\ Len(buffer) \in Nat /\ Len(buffer) <= pushed
    BY <1>0, StreamTypes DEF StreamTypeOK
  <2>3. /\ buffer' \in Seq(Nat) /\ Len(buffer') = Len(buffer) + 1 /\ DOMAIN buffer' = 1 .. Len(buffer) + 1
        /\ DOMAIN buffer = 1 .. Len(buffer) /\ (\A i \in 1 .. Len(buffer) : buffer'[i] = buffer[i])
        /\ buffer'[Len(buffer) + 1] = pushed + 1
    BY <2>1, <2>2, AppendIndices
  <2>4. Delivered' = Delivered
    BY <1>1, <2>2, <2>3 DEF Delivered
  <2>5. StreamTypeOK'
    BY <1>0, <1>1, <1>2, <2>1, <2>3 DEF StreamTypeOK
  <2>6. BufferHoldsLast'
    <3>0. Delivered + Len(buffer) + 1 = pushed + 1 /\ Delivered \in Nat
      BY <2>2 DEF Delivered
    <3>1. ASSUME NEW i \in 1 .. Len(buffer) + 1
          PROVE  buffer'[i] = Delivered + i
      <4>1. CASE i \in 1 .. Len(buffer)
        BY <1>0, <2>3, <4>1 DEF BufferHoldsLast
      <4>2. CASE i = Len(buffer) + 1
        BY <2>2, <2>3, <3>0, <4>2
      <4> QED BY <2>2, <4>1, <4>2
    <3> QED BY <1>1, <2>2, <2>3, <2>4, <3>1 DEF BufferHoldsLast
  <2>7. WaitersIdle'
    <3>1. DOMAIN waiting = {}
      <4>1. DOMAIN <<>> = {}
        OBVIOUS
      <4> QED BY <1>5, <4>1, Zenon
    <3> QED BY <1>5, <2>1, <3>1, Zenon DEF WaitersIdle
  <2>8. StreamAnswers' /\ InOrder' /\ EachOnce'
    <3>1. StreamAnswers'
      <4>1. \A c \in Consumers : handed[c] # EndOfStream
        BY <1>0, <1>1, Zenon DEF StreamAnswers
      <4> QED BY <1>0, <1>1, <1>3, <2>1, <2>4, <4>1 DEF StreamAnswers
    <3>2. InOrder'
      BY <1>0, <1>1, <2>1, <2>4 DEF InOrder
    <3>3. EachOnce'
      BY <1>0, <1>1, <2>1, <2>4 DEF EachOnce, Has, YieldedBy
    <3> QED BY <3>1, <3>2, <3>3
  <2> QED BY <1>2, <2>5, <2>6, <2>7, <2>8 DEF StreamInv
<1> QED BY <1>4, <1>5

(* The end is told to those who wait, and only when nothing is buffered.   *)
LEMMA EndKeeps ==
    ASSUME StreamInv, End
    PROVE  StreamInv'
<1>0. /\ StreamTypeOK /\ (~done => pushed < MaxEvents) /\ BufferHoldsLast /\ WaitersIdle /\ StreamAnswers /\ InOrder /\ EachOnce
  BY DEF StreamInv
<1>1. /\ done' = TRUE /\ buffer' = buffer /\ pushed' = pushed /\ at' = at /\ received' = received
      /\ waiting' = SubSeq(waiting, Len(waiting) + 1, Len(waiting))
      /\ handed' = [c \in Consumers |-> IF \E i \in 1 .. Len(waiting) : waiting[i] = c THEN EndOfStream ELSE handed[c]]
  BY DEF End, WokenByEnd
<1>2. waiting' = <<>> /\ DOMAIN waiting' = {} /\ waiting' \in Seq(Consumers)
  <2>1. waiting' = <<>>
    BY <1>1, StreamTypes, SubSeqProperties
  <2>2. DOMAIN <<>> = {} /\ <<>> \in Seq(Consumers)
    OBVIOUS
  <2> QED BY <2>1, <2>2, Zenon
<1>3. EndOfStream \in Nat /\ EndOfStream > pushed /\ EndOfStream # Undelivered /\ Delivered' = Delivered
  BY <1>1, StreamTypes DEF EndOfStream, Undelivered, Delivered
<1>4. ASSUME NEW c \in Consumers
      PROVE  \/ handed'[c] = handed[c]
             \/ handed'[c] = EndOfStream /\ handed[c] = Undelivered /\ at[c] = "waiting" /\ buffer = <<>>
  <2>1. CASE \E i \in 1 .. Len(waiting) : waiting[i] = c
    <3>1. PICK i \in DOMAIN waiting : waiting[i] = c
      BY <2>1, StreamTypes
    <3>2. waiting # <<>>
      <4>1. Len(<<>>) = 0
        OBVIOUS
      <4> QED BY <3>1, <4>1, StreamTypes
    <3>3. handed'[c] = EndOfStream
      BY <1>1, <2>1
    <3> QED BY <1>0, <3>1, <3>2, <3>3 DEF WaitersIdle
  <2>2. CASE ~\E i \in 1 .. Len(waiting) : waiting[i] = c
    BY <1>1, <2>2
  <2> QED BY <2>1, <2>2
<1>5. StreamTypeOK' /\ (~done' => pushed' < MaxEvents)
  <2>1. handed' \in [Consumers -> Nat]
    BY <1>0, <1>1, <1>3 DEF StreamTypeOK
  <2>2. done' \in BOOLEAN /\ done'
    BY <1>1, Zenon
  <2>3. pushed' \in Nat /\ pushed' <= MaxEvents
    BY <1>1, StreamTypes
  <2>4. buffer' \in Seq(Nat) /\ at' \in [Consumers -> {"new", "ready", "waiting", "returned", "left"}]
        /\ received' \in [Consumers -> Seq(Nat)]
    BY <1>0, <1>1 DEF StreamTypeOK
  <2> QED BY <1>2, <2>1, <2>2, <2>3, <2>4, Zenon DEF StreamTypeOK
<1>6. BufferHoldsLast'
  BY <1>0, <1>1, <1>3 DEF BufferHoldsLast
<1>7. WaitersIdle'
  BY <1>2, Zenon DEF WaitersIdle
<1>8. StreamAnswers'
  <2> SUFFICES ASSUME NEW c \in Consumers
               PROVE  /\ handed'[c] # Undelivered => at'[c] = "waiting"
                      /\ handed'[c] \in {Undelivered, EndOfStream} \cup 1 .. Delivered'
                      /\ handed'[c] = EndOfStream \/ at'[c] = "returned" => done' /\ buffer' = <<>>
    BY DEF StreamAnswers
  <2>1. /\ handed[c] # Undelivered => at[c] = "waiting"
        /\ handed[c] \in {Undelivered, EndOfStream} \cup 1 .. Delivered
        /\ handed[c] = EndOfStream \/ at[c] = "returned" => buffer = <<>>
    BY <1>0 DEF StreamAnswers
  <2>2. done'
    BY <1>1
  <2> QED BY <1>1, <1>3, <1>4, <2>1, <2>2
<1>9. InOrder'
  <2> SUFFICES ASSUME NEW c \in Consumers
               PROVE  /\ Increasing(received[c])
                      /\ \A i \in DOMAIN received[c] :
                           received[c][i] \in 1 .. Delivered /\ (handed'[c] # Undelivered => received[c][i] < handed'[c])
    BY <1>1, <1>3 DEF InOrder
  <2>1. Increasing(received[c]) /\ \A i \in DOMAIN received[c] :
           received[c][i] \in 1 .. Delivered /\ (handed[c] # Undelivered => received[c][i] < handed[c])
    BY <1>0 DEF InOrder
  <2> QED BY SMTT(30), <1>3, <1>4, <2>1, StreamTypes
<1>10. EachOnce'
  <2>1. \A c \in Consumers, e \in 1 .. Delivered : Has(c, e)' <=> Has(c, e)
    <3> TAKE c \in Consumers, e \in 1 .. Delivered
    <3>1. e # EndOfStream /\ e # Undelivered
      BY <1>3, StreamTypes DEF Undelivered
    <3> QED BY <1>1, <1>4, <3>1 DEF Has, YieldedBy
  <2> QED BY <1>0, <1>3, <2>1 DEF EachOnce
<1> QED BY <1>5, <1>6, <1>7, <1>8, <1>9, <1>10 DEF StreamInv

(* An iterator that is not waiting for an answer yields the event that is  *)
(* next: the first of the buffer, or the one it was handed.                *)
LEMMA YieldKeeps ==
    ASSUME StreamInv, NEW c \in Consumers, NEW e \in 1 .. Delivered', Yields(c, e),
           UNCHANGED <<pushed, done, waiting>>,
           \A i \in DOMAIN waiting : waiting[i] # c,
           \A i \in DOMAIN received[c] : received[c][i] < e,
           handed' = [handed EXCEPT ![c] = Undelivered],
           StreamTypeOK', BufferHoldsLast', Delivered <= Delivered', buffer = <<>> => buffer' = <<>>,
           \A d \in Consumers : ~YieldedBy(d, e) /\ (handed[d] = e => d = c),
           \A f \in 1 .. Delivered' : f = e \/ (f \in 1 .. Delivered /\ handed[c] # f)
    PROVE  StreamInv'
<1>0. /\ StreamTypeOK /\ (~done => pushed < MaxEvents) /\ WaitersIdle /\ StreamAnswers /\ InOrder /\ EachOnce
  BY DEF StreamInv
<1>1. /\ at' = [at EXCEPT ![c] = "ready"] /\ received' = [received EXCEPT ![c] = Append(received[c], e)]
  BY DEF Yields
<1>2. /\ at'[c] = "ready" /\ handed'[c] = Undelivered /\ received'[c] = Append(received[c], e)
      /\ \A d \in Consumers : d # c => at'[d] = at[d] /\ handed'[d] = handed[d] /\ received'[d] = received[d]
  BY <1>1, StreamTypes
<1>3. /\ e \in Nat /\ Delivered \in Nat /\ Delivered' \in Nat /\ received[c] \in Seq(Nat)
  <2>1. Delivered' \in Nat
    <3>1. pushed' \in Nat /\ Len(buffer') \in Nat /\ Len(buffer') <= pushed'
      BY LenProperties DEF StreamTypeOK, BufferHoldsLast
    <3> QED BY <3>1 DEF Delivered
  <2> QED BY <2>1, StreamTypes
<1>4. /\ Len(received[c]) \in Nat /\ DOMAIN received[c] = 1 .. Len(received[c])
      /\ DOMAIN received'[c] = 1 .. Len(received[c]) + 1
      /\ (\A i \in 1 .. Len(received[c]) : received'[c][i] = received[c][i])
      /\ received'[c][Len(received[c]) + 1] = e
  BY <1>2, <1>3, AppendIndices
<1>5. WaitersIdle'
  <2>1. \A i \in DOMAIN waiting : at'[waiting[i]] = at[waiting[i]] /\ handed'[waiting[i]] = handed[waiting[i]]
    BY <1>2, StreamTypes
  <2> QED BY <1>0, <2>1 DEF WaitersIdle
<1>6. StreamAnswers'
  <2> SUFFICES ASSUME NEW d \in Consumers
               PROVE  /\ handed'[d] # Undelivered => at'[d] = "waiting"
                      /\ handed'[d] \in {Undelivered, EndOfStream} \cup 1 .. Delivered'
                      /\ handed'[d] = EndOfStream \/ at'[d] = "returned" => done' /\ buffer' = <<>>
    BY DEF StreamAnswers
  <2>1. CASE d = c
    <3>1. EndOfStream # Undelivered
      BY StreamTypes DEF EndOfStream, Undelivered
    <3> QED BY <1>2, <2>1, <3>1
  <2>2. CASE d # c
    <3>1. /\ handed[d] # Undelivered => at[d] = "waiting"
          /\ handed[d] \in {Undelivered, EndOfStream} \cup 1 .. Delivered
          /\ handed[d] = EndOfStream \/ at[d] = "returned" => done /\ buffer = <<>>
      BY <1>0 DEF StreamAnswers
    <3>2. 1 .. Delivered \subseteq 1 .. Delivered'
      BY <1>3
    <3>3. handed'[d] = EndOfStream \/ at'[d] = "returned" => done' /\ buffer' = <<>>
      BY <1>2, <2>2, <3>1
    <3> QED BY <1>2, <2>2, <3>1, <3>2, <3>3
  <2> QED BY <2>1, <2>2
<1>7. InOrder'
  <2> SUFFICES ASSUME NEW d \in Consumers
               PROVE  /\ Increasing(received'[d])
                      /\ \A i \in DOMAIN received'[d] :
                           received'[d][i] \in 1 .. Delivered' /\ (handed'[d] # Undelivered => received'[d][i] < handed'[d])
    BY DEF InOrder
  <2>1. Increasing(received[d]) /\ \A i \in DOMAIN received[d] :
           received[d][i] \in 1 .. Delivered /\ (handed[d] # Undelivered => received[d][i] < handed[d])
    BY <1>0 DEF InOrder
  <2>2. CASE d = c
    <3>1. Increasing(received'[c])
      BY <1>2, <1>3, <2>1, <2>2, AppendIncreasing
    <3>2. \A i \in DOMAIN received'[c] : received'[c][i] \in 1 .. Delivered'
      <4> TAKE i \in DOMAIN received'[c]
      <4>1. CASE i \in 1 .. Len(received[c])
        BY SMTT(30), <1>3, <1>4, <2>1, <2>2, <4>1
      <4>2. CASE i = Len(received[c]) + 1
        BY <1>4, <4>2
      <4> QED BY <1>4, <4>1, <4>2
    <3> QED BY <1>2, <2>2, <3>1, <3>2
  <2>3. CASE d # c
    BY <1>2, <1>3, <2>1, <2>3
  <2> QED BY <2>2, <2>3
<1>8. EachOnce'
  <2>1. \A d \in Consumers, f \in 1 .. Delivered : f # e /\ handed[c] # f => (Has(d, f)' <=> Has(d, f))
    <3> TAKE d \in Consumers, f \in 1 .. Delivered
    <3>1. CASE d = c
      <4>1. YieldedBy(c, f)' <=> YieldedBy(c, f) \/ f = e
        BY SMTT(30), <1>4 DEF YieldedBy
      <4>2. f # Undelivered
        BY <1>3 DEF Undelivered
      <4> QED BY <1>2, <3>1, <4>1, <4>2 DEF Has
    <3>2. CASE d # c
      BY <1>2, <3>2 DEF Has, YieldedBy
    <3> QED BY <3>1, <3>2
  <2>2. \A d \in Consumers : Has(d, e)' <=> d = c
    <3> TAKE d \in Consumers
    <3>1. CASE d = c
      <4>1. \E i \in DOMAIN received'[c] : received'[c][i] = e
        BY <1>4
      <4> QED BY <3>1, <4>1 DEF Has, YieldedBy
    <3>2. CASE d # c
      BY <1>2, <3>2 DEF Has, YieldedBy
    <3> QED BY <3>1, <3>2
  <2> QED BY <1>0, <2>1, <2>2 DEF EachOnce
<1> QED BY <1>0, <1>5, <1>6, <1>7, <1>8 DEF StreamInv

(* The next event of the buffer is one that nobody has.                    *)
LEMMA TakeKeeps ==
    ASSUME StreamInv, NEW c \in Consumers, Take(c)
    PROVE  StreamInv'
<1>0. /\ StreamTypeOK /\ BufferHoldsLast /\ WaitersIdle /\ StreamAnswers /\ InOrder /\ EachOnce
  BY DEF StreamInv
<1>1. /\ at[c] = "ready" /\ buffer # <<>> /\ buffer' = Tail(buffer) /\ Yields(c, Head(buffer))
      /\ UNCHANGED <<waiting, done, pushed, handed>>
  BY DEF Take
<1>2. /\ Head(buffer) = buffer[1] /\ Head(buffer) \in Nat /\ Tail(buffer) \in Seq(Nat) /\ Len(buffer) \in Nat
      /\ Len(buffer) >= 1 /\ DOMAIN buffer = 1 .. Len(buffer) /\ Len(Tail(buffer)) = Len(buffer) - 1
      /\ DOMAIN Tail(buffer) = 1 .. Len(buffer) - 1 /\ \A i \in 1 .. Len(buffer) - 1 : Tail(buffer)[i] = buffer[i + 1]
  <2>1. buffer \in Seq(Nat)
    BY <1>0 DEF StreamTypeOK
  <2> QED BY <1>1, <2>1, TailIndices
<1>3. PICK e \in Nat : e = Head(buffer)
  BY <1>2
<1>4. e = Delivered + 1 /\ Delivered' = Delivered + 1 /\ Delivered \in Nat /\ Delivered' <= pushed
  <2>1. e = Delivered + 1
    BY <1>0, <1>2, <1>3 DEF BufferHoldsLast
  <2>2. Delivered' = Delivered + 1
    BY <1>1, <1>2, StreamTypes DEF Delivered
  <2>3. Delivered \in Nat
    BY StreamTypes
  <2>4. Delivered' <= pushed
    BY <1>1, <1>2, StreamTypes DEF Delivered
  <2> QED BY <2>1, <2>2, <2>3, <2>4
<1>5. handed[c] = Undelivered /\ handed' = [handed EXCEPT ![c] = Undelivered]
  <2>1. handed[c] = Undelivered
    BY <1>0, <1>1 DEF StreamAnswers
  <2>2. handed \in [Consumers -> Nat]
    BY <1>0 DEF StreamTypeOK
  <2> QED BY <1>1, <2>1, <2>2
<1>6. \A i \in DOMAIN waiting : waiting[i] # c
  BY <1>0, <1>1 DEF WaitersIdle
<1>7. \A d \in Consumers : ~YieldedBy(d, e) /\ handed[d] # e
  <2> TAKE d \in Consumers
  <2>1. ~YieldedBy(d, e)
    BY <1>0, <1>4 DEF InOrder, YieldedBy
  <2>2. handed[d] # EndOfStream
    BY <1>0, <1>1 DEF StreamAnswers
  <2>3. handed[d] \in {Undelivered} \cup 1 .. Delivered
    BY <1>0, <2>2 DEF StreamAnswers
  <2> QED BY <1>4, <2>1, <2>3 DEF Undelivered
<1>8. \A i \in DOMAIN received[c] : received[c][i] < e
  BY <1>0, <1>4 DEF InOrder
<1>9. BufferHoldsLast'
  <2>1. Len(buffer') <= pushed' /\ DOMAIN buffer' = 1 .. Len(buffer) - 1
    BY <1>1, <1>2, StreamTypes
  <2>2. ASSUME NEW i \in 1 .. Len(buffer) - 1
        PROVE  buffer'[i] = Delivered' + i
    <3>1. i + 1 \in DOMAIN buffer /\ buffer'[i] = buffer[i + 1]
      BY <1>1, <1>2
    <3>2. buffer[i + 1] = Delivered + (i + 1)
      BY <1>0, <3>1 DEF BufferHoldsLast
    <3> QED BY <1>4, <3>1, <3>2
  <2> QED BY <2>1, <2>2 DEF BufferHoldsLast
<1>10. StreamTypeOK'
  <2>1. at' \in [Consumers -> {"new", "ready", "waiting", "returned", "left"}]
    BY <1>0, <1>1 DEF StreamTypeOK, Yields
  <2>2. received' \in [Consumers -> Seq(Nat)]
    <3>1. Append(received[c], e) \in Seq(Nat)
      BY StreamTypes, AppendIndices
    <3> QED BY <1>0, <1>1, <1>3, <3>1 DEF StreamTypeOK, Yields
  <2> QED BY <1>0, <1>1, <1>2, <2>1, <2>2 DEF StreamTypeOK
<1>11. e \in 1 .. Delivered' /\ Delivered <= Delivered'
       /\ \A f \in 1 .. Delivered' : f = e \/ (f \in 1 .. Delivered /\ handed[c] # f)
  BY <1>4, <1>5 DEF Undelivered
<1>12. Yields(c, e)
  BY <1>1, <1>3
<1> QED BY <1>1, <1>5, <1>6, <1>7, <1>8, <1>9, <1>10, <1>11, <1>12, YieldKeeps

(* An iterator is woken with an event that nobody else has, or with the    *)
(* end.                                                                    *)
LEMMA WakeKeeps ==
    ASSUME StreamInv, NEW c \in Consumers, Wake(c)
    PROVE  StreamInv'
<1>0. /\ StreamTypeOK /\ (~done => pushed < MaxEvents) /\ BufferHoldsLast /\ WaitersIdle /\ StreamAnswers /\ InOrder /\ EachOnce
  BY DEF StreamInv
<1>1. /\ at[c] = "waiting" /\ handed[c] # Undelivered /\ handed' = [handed EXCEPT ![c] = Undelivered]
      /\ UNCHANGED <<buffer, waiting, done, pushed>>
  BY DEF Wake
<1>2. Delivered' = Delivered /\ BufferHoldsLast' /\ Delivered \in Nat
  BY <1>0, <1>1, StreamTypes DEF Delivered, BufferHoldsLast
<1>3. handed' \in [Consumers -> Nat] /\ handed'[c] = Undelivered /\ \A d \in Consumers : d # c => handed'[d] = handed[d]
  BY <1>0, <1>1 DEF StreamTypeOK, Undelivered
<1>4. \A i \in DOMAIN waiting : waiting[i] # c
  BY <1>0, <1>1 DEF WaitersIdle
<1>5. CASE handed[c] = EndOfStream
  <2>1. at' = [at EXCEPT ![c] = "returned"] /\ received' = received /\ done /\ buffer = <<>>
    BY <1>0, <1>5 DEF Wake, StreamAnswers
  <2>2. at' \in [Consumers -> {"new", "ready", "waiting", "returned", "left"}]
        /\ at'[c] = "returned" /\ \A d \in Consumers : d # c => at'[d] = at[d]
    BY <1>0, <2>1 DEF StreamTypeOK
  <2>3. StreamTypeOK' /\ (~done' => pushed' < MaxEvents)
    BY <1>0, <1>1, <1>3, <2>1, <2>2 DEF StreamTypeOK
  <2>4. WaitersIdle'
    <3>1. \A i \in DOMAIN waiting : at'[waiting[i]] = at[waiting[i]] /\ handed'[waiting[i]] = handed[waiting[i]]
      BY <1>3, <1>4, <2>2, StreamTypes
    <3> QED BY <1>0, <1>1, <3>1 DEF WaitersIdle
  <2>5. StreamAnswers'
    BY <1>0, <1>1, <1>2, <1>3, <2>1, <2>2 DEF StreamAnswers
  <2>6. InOrder'
    BY <1>0, <1>2, <1>3, <2>1 DEF InOrder
  <2>7. EachOnce'
    <3>1. \A d \in Consumers, f \in 1 .. Delivered : Has(d, f)' <=> Has(d, f)
      <4> TAKE d \in Consumers, f \in 1 .. Delivered
      <4>1. f # Undelivered /\ f # EndOfStream
        BY StreamTypes DEF Undelivered, EndOfStream
      <4> QED BY <1>3, <1>5, <2>1, <4>1 DEF Has, YieldedBy
    <3> QED BY <1>0, <1>2, <3>1 DEF EachOnce
  <2> QED BY <1>2, <2>3, <2>4, <2>5, <2>6, <2>7 DEF StreamInv
<1>6. CASE handed[c] # EndOfStream
  <2>1. PICK e \in 1 .. Delivered : e = handed[c]
    BY <1>0, <1>1, <1>6 DEF StreamAnswers
  <2>2. Yields(c, e)
    BY <1>6, <2>1 DEF Wake
  <2>3. \A d \in Consumers : ~YieldedBy(d, e) /\ (handed[d] = e => d = c)
    <3> TAKE d \in Consumers
    <3>1. Has(c, e)
      BY <2>1 DEF Has
    <3>2. Has(d, e) => d = c
      BY <1>0, <3>1 DEF EachOnce
    <3>3. ~YieldedBy(c, e)
      BY <1>0, <1>1, <2>1 DEF InOrder, YieldedBy
    <3> QED BY <3>2, <3>3 DEF Has
  <2>4. \A i \in DOMAIN received[c] : received[c][i] < e
    BY <1>0, <1>1, <2>1 DEF InOrder
  <2>5. StreamTypeOK'
    <3>1. at' \in [Consumers -> {"new", "ready", "waiting", "returned", "left"}]
      BY <1>0, <2>2 DEF StreamTypeOK, Yields
    <3>2. received' \in [Consumers -> Seq(Nat)]
      <4>1. e \in Nat /\ received[c] \in Seq(Nat)
        BY <1>2, StreamTypes
      <4>2. Append(received[c], e) \in Seq(Nat)
        BY <4>1, AppendIndices
      <4> QED BY <1>0, <2>2, <4>2 DEF StreamTypeOK, Yields
    <3> QED BY <1>0, <1>1, <1>3, <3>1, <3>2 DEF StreamTypeOK
  <2>6. e \in 1 .. Delivered' /\ Delivered <= Delivered' /\ (buffer = <<>> => buffer' = <<>>)
        /\ \A f \in 1 .. Delivered' : f = e \/ (f \in 1 .. Delivered /\ handed[c] # f)
    <3>1. buffer = <<>> => buffer' = <<>>
      BY <1>1, Zenon
    <3>2. e \in 1 .. Delivered' /\ Delivered <= Delivered'
      BY <1>2, <2>1
    <3>3. \A f \in 1 .. Delivered' : f = e \/ (f \in 1 .. Delivered /\ handed[c] # f)
      <4> TAKE f \in 1 .. Delivered'
      <4>1. f \in 1 .. Delivered
        BY <1>2
      <4>2. CASE f # e
        BY <2>1, <4>1, <4>2
      <4> QED BY <4>2
    <3> QED BY <3>1, <3>2, <3>3
  <2> QED BY <1>1, <1>2, <1>4, <2>2, <2>3, <2>4, <2>5, <2>6, YieldKeeps
<1> QED BY <1>5, <1>6

(* An iterator waits only for a buffer that is empty.                      *)
LEMMA StreamWaitKeeps ==
    ASSUME StreamInv, NEW c \in Consumers, Wait(c)
    PROVE  StreamInv'
<1>0. StreamTypeOK /\ WaitersIdle /\ StreamAnswers
  BY DEF StreamInv
<1>1. /\ at[c] = "ready" /\ buffer = <<>> /\ at' = [at EXCEPT ![c] = "waiting"] /\ waiting' = Append(waiting, c)
      /\ UNCHANGED <<buffer, pushed, done, handed, received>>
  BY DEF Wait
<1>2. at' \in [Consumers -> {"new", "ready", "waiting", "returned", "left"}]
      /\ at'[c] = "waiting" /\ \A d \in Consumers : d # c => at'[d] = at[d]
  BY <1>0, <1>1 DEF StreamTypeOK
<1>3. /\ waiting' \in Seq(Consumers) /\ Len(waiting) \in Nat /\ DOMAIN waiting = 1 .. Len(waiting)
      /\ DOMAIN waiting' = 1 .. Len(waiting) + 1 /\ waiting'[Len(waiting) + 1] = c
      /\ \A i \in 1 .. Len(waiting) : waiting'[i] = waiting[i]
  <2>1. waiting \in Seq(Consumers)
    BY <1>0 DEF StreamTypeOK
  <2> QED BY <1>1, <2>1, AppendIndices
<1>4. handed[c] = Undelivered
  BY <1>0, <1>1 DEF StreamAnswers
<1>5. \A i \in DOMAIN waiting : waiting[i] # c /\ waiting[i] \in Consumers
  BY <1>0, <1>1, StreamTypes DEF WaitersIdle
<1>6. WaitersIdle'
  <2>1. \A i \in DOMAIN waiting' : at'[waiting'[i]] = "waiting" /\ handed'[waiting'[i]] = Undelivered
    <3> TAKE i \in DOMAIN waiting'
    <3>1. CASE i \in 1 .. Len(waiting)
      BY <1>0, <1>1, <1>2, <1>3, <1>5, <3>1 DEF WaitersIdle
    <3>2. CASE i = Len(waiting) + 1
      BY <1>1, <1>2, <1>3, <1>4, <3>2
    <3> QED BY <1>3, <3>1, <3>2
  <2>2. \A i, j \in DOMAIN waiting' : waiting'[i] = waiting'[j] => i = j
    <3> TAKE i, j \in DOMAIN waiting'
    <3>1. CASE i \in 1 .. Len(waiting) /\ j \in 1 .. Len(waiting)
      BY <1>0, <1>3, <3>1 DEF WaitersIdle
    <3>2. CASE ~(i \in 1 .. Len(waiting) /\ j \in 1 .. Len(waiting))
      BY <1>3, <1>5, <3>2
    <3> QED BY <3>1, <3>2
  <2>3. buffer' = <<>>
    BY <1>1, Zenon
  <2> QED BY <2>1, <2>2, <2>3 DEF WaitersIdle
<1>7. \A d \in Consumers : handed[d] # Undelivered => at'[d] = "waiting"
  BY <1>0, <1>2 DEF StreamAnswers
<1>8. \A d \in Consumers : at'[d] = "returned" => done /\ buffer = <<>>
  <2> TAKE d \in Consumers
  <2>1. d # c /\ at'[d] = "returned" => at[d] = "returned"
    BY <1>2
  <2> QED BY <1>0, <1>2, <2>1 DEF StreamAnswers
<1> QED BY <1>1, <1>2, <1>3, <1>6, <1>7, <1>8, QuietKeeps

(* Iterators that begin, return or are left are not waiting.               *)
LEMMA MoveKeeps ==
    ASSUME StreamInv, NEW c \in Consumers, Open(c) \/ Return(c) \/ Leave(c)
    PROVE  StreamInv'
<1>0. StreamTypeOK /\ WaitersIdle /\ StreamAnswers
  BY DEF StreamInv
<1>1. /\ at[c] # "waiting" /\ UNCHANGED <<buffer, waiting, pushed, done, handed, received>>
      /\ \/ at' = [at EXCEPT ![c] = "ready"]
         \/ at' = [at EXCEPT ![c] = "left"]
         \/ at' = [at EXCEPT ![c] = "returned"] /\ done /\ buffer = <<>>
  BY DEF Open, Return, Leave, Drained
<1>2. at' \in [Consumers -> {"new", "ready", "waiting", "returned", "left"}]
      /\ (at'[c] = "returned" => done /\ buffer = <<>>) /\ \A d \in Consumers : d # c => at'[d] = at[d]
  <2>1. at \in [Consumers -> {"new", "ready", "waiting", "returned", "left"}]
    BY <1>0 DEF StreamTypeOK
  <2>2. CASE at' = [at EXCEPT ![c] = "ready"] \/ at' = [at EXCEPT ![c] = "left"]
    BY <2>1, <2>2
  <2>3. CASE at' = [at EXCEPT ![c] = "returned"] /\ done /\ buffer = <<>>
    BY <2>1, <2>3
  <2> QED BY <1>1, <2>2, <2>3
<1>3. WaitersIdle'
  <2>1. \A i \in DOMAIN waiting : at'[waiting[i]] = at[waiting[i]]
    BY <1>0, <1>1, <1>2, StreamTypes DEF WaitersIdle
  <2> QED BY <1>0, <1>1, <2>1 DEF WaitersIdle
<1>4. \A d \in Consumers : handed[d] # Undelivered => at'[d] = "waiting"
  BY <1>0, <1>1, <1>2 DEF StreamAnswers
<1>5. \A d \in Consumers : at'[d] = "returned" => done /\ buffer = <<>>
  BY <1>0, <1>2 DEF StreamAnswers
<1>6. waiting' \in Seq(Consumers)
  BY <1>0, <1>1 DEF StreamTypeOK
<1> QED BY <1>1, <1>2, <1>3, <1>4, <1>5, <1>6, QuietKeeps

(* Every step keeps the invariant.                                         *)
LEMMA StreamInvKept ==
    ASSUME StreamInv, [StreamNext]_streamVars
    PROVE  StreamInv'
<1>1. ASSUME UNCHANGED <<buffer, waiting, done, pushed, at, handed, received>>
      PROVE  StreamInv'
  <2>1. Delivered' = Delivered /\ \A c \in Consumers, e \in Nat : Has(c, e)' <=> Has(c, e)
    BY <1>1 DEF Delivered, Has, YieldedBy
  <2>2. StreamTypeOK' /\ (~done' => pushed' < MaxEvents) /\ BufferHoldsLast' /\ InOrder'
    BY <1>1, <2>1 DEF StreamInv, StreamTypeOK, BufferHoldsLast, InOrder
  <2>3. WaitersIdle' /\ StreamAnswers'
    BY <1>1, <2>1 DEF StreamInv, WaitersIdle, StreamAnswers
  <2>4. EachOnce'
    BY <2>1, StreamTypes DEF StreamInv, EachOnce
  <2> QED BY <2>2, <2>3, <2>4 DEF StreamInv
<1>2. CASE Throw \/ UNCHANGED streamVars
  BY <1>1, <1>2 DEF Throw, streamVars
<1>3. CASE Produce
  BY <1>3, PushKeeps, EndKeeps DEF Produce
<1>4. ASSUME NEW c \in Consumers, Open(c) \/ Iterate(c) \/ Leave(c)
      PROVE  StreamInv'
  BY <1>4, MoveKeeps, TakeKeeps, StreamWaitKeeps, WakeKeeps DEF Iterate
<1> QED BY <1>2, <1>3, <1>4 DEF StreamNext

(* The invariant is what is promised.                                      *)
LEMMA StreamInvDelivers == StreamInv => EventsDelivered
<1> SUFFICES ASSUME StreamInv
             PROVE  EventsDelivered
  OBVIOUS
<1>0. /\ BufferHoldsLast /\ StreamAnswers /\ InOrder /\ EachOnce
  BY DEF StreamInv
<1>1. ASSUME NEW e \in 1 .. pushed
      PROVE  InBuffer(e) \/ \E c \in Consumers : handed[c] = e \/ YieldedBy(c, e)
  <2>1. CASE e \in 1 .. Delivered
    BY <1>0, <2>1 DEF EachOnce, Has
  <2>2. CASE e \notin 1 .. Delivered
    <3>1. e - Delivered \in DOMAIN buffer
      BY <2>2, StreamTypes DEF Delivered
    <3>2. buffer[e - Delivered] = e
      BY <1>0, <3>1, StreamTypes DEF BufferHoldsLast
    <3> QED BY <3>1, <3>2 DEF InBuffer
  <2> QED BY <2>1, <2>2
<1>2. ASSUME NEW c \in Consumers, NEW d \in Consumers, NEW e \in 1 .. pushed, YieldedBy(c, e), YieldedBy(d, e)
      PROVE  c = d
  <2>1. e \in 1 .. Delivered
    BY <1>0, <1>2 DEF InOrder, YieldedBy
  <2> QED BY <1>0, <1>2, <2>1 DEF EachOnce, Has
<1>3. ASSUME NEW c \in Consumers
      PROVE  Increasing(received[c] \o (IF handed[c] = Undelivered THEN <<>> ELSE <<handed[c]>>) \o buffer)
  <2> DEFINE r == received[c]
             h == IF handed[c] = Undelivered THEN <<>> ELSE <<handed[c]>>
             s == r \o h \o buffer
             n == Len(r) + Len(h)
  <2>1. r \in Seq(Nat) /\ h \in Seq(Nat) /\ buffer \in Seq(Nat)
    <3>1. handed[c] \in Nat /\ r \in Seq(Nat) /\ buffer \in Seq(Nat)
      BY StreamTypes DEF StreamInv, StreamTypeOK
    <3>2. <<>> \in Seq(Nat) /\ <<handed[c]>> \in Seq(Nat)
      BY <3>1
    <3> QED BY <3>1, <3>2
  <2>2. Len(h) \in Nat /\ (Len(h) = 0 \/ (Len(h) = 1 /\ h[1] = handed[c] /\ handed[c] # Undelivered))
    <3>1. CASE handed[c] = Undelivered
      <4>1. Len(<<>>) = 0 /\ h = <<>>
        BY <3>1
      <4>2. Len(h) = 0
        BY <4>1, Zenon
      <4> QED BY <4>2
    <3>2. CASE handed[c] # Undelivered
      <4>1. h = <<handed[c]>> /\ Len(<<handed[c]>>) = 1 /\ <<handed[c]>>[1] = handed[c]
        BY <3>2
      <4>2. Len(h) = 1 /\ h[1] = handed[c]
        BY <4>1
      <4> QED BY <3>2, <4>2
    <3> QED BY <3>1, <3>2
  <2> HIDE DEF h, r
  <2>3. /\ Len(r) \in Nat /\ Len(buffer) \in Nat /\ DOMAIN r = 1 .. Len(r) /\ DOMAIN buffer = 1 .. Len(buffer)
        /\ DOMAIN s = 1 .. n + Len(buffer)
        /\ \A i \in 1 .. Len(r) : s[i] = r[i]
        /\ Len(h) = 1 => s[n] = h[1]
        /\ \A i \in 1 .. Len(buffer) : s[n + i] = buffer[i]
    BY <2>1, <2>2, ConcatProperties, LenProperties
  <2>4. Increasing(r) /\ \A i \in DOMAIN r : r[i] \in 1 .. Delivered /\ (handed[c] # Undelivered => r[i] < handed[c])
    BY <1>0 DEF InOrder, r
  <2>5. handed[c] \in {Undelivered, EndOfStream} \cup 1 .. Delivered /\ (handed[c] = EndOfStream => Len(buffer) = 0)
    BY <1>0, StreamTypes DEF StreamAnswers
  <2>6. \A i \in 1 .. Len(buffer) : buffer[i] = Delivered + i
    BY <1>0, <2>3 DEF BufferHoldsLast
  <2> HIDE DEF s
  <2>7. ASSUME NEW i \in 1 .. n + Len(buffer), NEW j \in 1 .. n + Len(buffer), i < j
        PROVE  s[i] < s[j]
    <3>0. \A k \in 1 .. n + Len(buffer) : k \in 1 .. Len(r) \/ (Len(h) = 1 /\ k = n) \/ k \in n + 1 .. n + Len(buffer)
      <4>0. Len(r) \in Nat /\ Len(buffer) \in Nat /\ (Len(h) = 0 \/ Len(h) = 1)
        BY <2>2, <2>3
      <4>1. Len(r) \in Nat /\ Len(buffer) \in Nat /\ (n = Len(r) \/ (Len(h) = 1 /\ n = Len(r) + 1))
        <5>1. CASE Len(h) = 0
          BY <4>0, <5>1
        <5>2. CASE Len(h) = 1
          BY <4>0, <5>2
        <5> QED BY <4>0, <5>1, <5>2
      <4> HIDE DEF n
      <4> QED BY <4>1
    <3>1. \A k \in 1 .. Len(r) : s[k] \in 1 .. Delivered /\ (Len(h) = 1 => s[k] < s[n])
      BY <2>2, <2>3, <2>4
    <3>2. \A k \in n + 1 .. n + Len(buffer) : s[k] = Delivered + (k - n)
      <4> TAKE k \in n + 1 .. n + Len(buffer)
      <4>1. k - n \in 1 .. Len(buffer) /\ n + (k - n) = k
        BY <2>2, <2>3
      <4> QED BY <2>3, <2>6, <4>1
    <3>3. Len(h) = 1 /\ Len(buffer) > 0 => s[n] \in 1 .. Delivered
      BY <2>2, <2>3, <2>5
    <3>4. Delivered \in Nat
      BY StreamTypes
    <3>5. CASE i \in 1 .. Len(r)
      <4>1. CASE j \in 1 .. Len(r)
        BY <2>3, <2>4, <2>7, <4>1, <3>5 DEF Increasing
      <4>2. CASE Len(h) = 1 /\ j = n
        BY <3>1, <3>5, <4>2
      <4>3. CASE j \in n + 1 .. n + Len(buffer)
        <5>1. s[i] \in 1 .. Delivered /\ s[j] = Delivered + (j - n)
          BY <3>1, <3>2, <3>5, <4>3
        <5>2. n \in Nat /\ j - n \in Nat /\ j - n >= 1
          BY <2>2, <2>3, <4>3
        <5> HIDE DEF n
        <5>3. s[j] > Delivered /\ s[j] \in Nat /\ s[i] \in Nat /\ s[i] <= Delivered
          BY <3>4, <5>1, <5>2
        <5> QED BY <3>4, <5>3
      <4>4. j \in 1 .. Len(r) \/ (Len(h) = 1 /\ j = n) \/ j \in n + 1 .. n + Len(buffer)
        BY <3>0
      <4> QED BY <4>1, <4>2, <4>3, <4>4
    <3>6. CASE Len(h) = 1 /\ i = n
      BY <2>2, <2>3, <2>7, <3>2, <3>3, <3>4, <3>6
    <3>7. CASE i \in n + 1 .. n + Len(buffer)
      <4>1. n \in Nat /\ j \in n + 1 .. n + Len(buffer)
        BY <2>2, <2>3, <2>7, <3>7
      <4>2. s[i] = Delivered + (i - n) /\ s[j] = Delivered + (j - n)
        BY <3>2, <3>7, <4>1
      <4> HIDE DEF n
      <4>3. i \in Nat /\ j \in Nat
        BY <2>3, <3>7, <4>1
      <4> QED BY <2>7, <3>4, <4>1, <4>2, <4>3
    <3>8. i \in 1 .. Len(r) \/ (Len(h) = 1 /\ i = n) \/ i \in n + 1 .. n + Len(buffer)
      BY <3>0
    <3> QED BY <3>5, <3>6, <3>7, <3>8
  <2> QED BY <2>3, <2>7 DEF Increasing, s, r, h
<1>4. \A c \in Consumers : at[c] = "returned" => done /\ buffer = <<>>
  BY <1>0 DEF StreamAnswers
<1> QED BY <1>1, <1>2, <1>3, <1>4 DEF EventsDelivered

(* Every event pushed is yielded once, by one iterator and in the order    *)
(* pushed, or is still on its way; no iterator returns before the stream   *)
(* has ended and its queue is empty (event-stream.ts:20-61).               *)
THEOREM EventsDeliveredHolds == StreamSpec => []EventsDelivered
<1>1. StreamInv /\ [StreamNext]_streamVars => StreamInv'
  BY StreamInvKept
<1> QED BY StreamInitInv, StreamInvDelivers, <1>1, PTL DEF StreamSpec

---------------------------------------------------------------------------
(* The first n numbers are n.                                              *)
LEMMA FirstNumbers ==
    ASSUME NEW n \in Nat
    PROVE  IsFiniteSet(1 .. n) /\ Cardinality(1 .. n) = n
<1>1. 1 \in Int /\ n \in Int /\ n - 1 + 1 = n /\ (1 > n => n = 0)
  OBVIOUS
<1> QED BY <1>1, FS_Interval

(* What FlattenSeq computes, up to position n: every sequence after those  *)
(* before it.                                                              *)
Joins(seqs, n, joined) ==
    joined = [i \in 1 .. n |-> IF i = 1 THEN seqs[i] ELSE joined[i - 1] \o seqs[i]]

(* The same, position by position.                                         *)
JoinsAt(seqs, i, joined) ==
    joined[i] = IF i = 1 THEN seqs[i] ELSE joined[i - 1] \o seqs[i]

LEMMA JoinsEverywhere ==
    ASSUME NEW seqs, NEW n \in Nat, NEW joined
    PROVE  /\ Joins(seqs, n, joined) => \A i \in 1 .. n : JoinsAt(seqs, i, joined)
           /\ (joined = [i \in 1 .. n |-> joined[i]] /\ \A i \in 1 .. n : JoinsAt(seqs, i, joined))
              => Joins(seqs, n, joined)
<1>1. ASSUME Joins(seqs, n, joined), NEW i \in 1 .. n PROVE JoinsAt(seqs, i, joined)
  BY <1>1 DEF Joins, JoinsAt
<1>2. ASSUME joined = [i \in 1 .. n |-> joined[i]], \A i \in 1 .. n : JoinsAt(seqs, i, joined)
      PROVE  Joins(seqs, n, joined)
  <2>1. PICK f : f = [i \in 1 .. n |-> IF i = 1 THEN seqs[i] ELSE joined[i - 1] \o seqs[i]]
    OBVIOUS
  <2>2. \A i \in 1 .. n : f[i] = joined[i]
    BY <1>2, <2>1 DEF JoinsAt
  <2>3. f = [i \in 1 .. n |-> f[i]]
    BY <2>1
  <2>4. f = joined
    BY <1>2, <2>2, <2>3
  <2> QED BY <2>1, <2>4 DEF Joins
<1> QED BY <1>1, <1>2

LEMMA FlattenChosen ==
    ASSUME NEW seqs
    PROVE  FlattenSeq(seqs) = IF Len(seqs) = 0 THEN seqs
                              ELSE (CHOOSE joined : Joins(seqs, Len(seqs), joined))[Len(seqs)]
BY DEF FlattenSeq, Joins

LEMMA JoinsTyped ==
    ASSUME NEW S, NEW seqs \in Seq(Seq(S)), NEW n \in 0 .. Len(seqs), NEW joined, Joins(seqs, n, joined)
    PROVE  \A i \in 1 .. n : joined[i] \in Seq(S)
<1> DEFINE Bad == {i \in 1 .. n : joined[i] \notin Seq(S)}
<1>1. ASSUME Bad # {} PROVE FALSE
  <2>1. Bad \in SUBSET Nat
    OBVIOUS
  <2>2. PICK i \in Bad : \A j \in Bad : i <= j
    BY <2>1, <1>1, LeastElement
  <2>3. JoinsAt(seqs, i, joined)
    BY JoinsEverywhere
  <2>4. seqs[i] \in Seq(S)
    OBVIOUS
  <2>5. i # 1
    BY <2>2, <2>3, <2>4 DEF JoinsAt
  <2>6. joined[i - 1] \in Seq(S)
    BY <2>2, <2>5
  <2> HIDE DEF Bad
  <2>7. joined[i - 1] \o seqs[i] \in Seq(S)
    BY <2>4, <2>6
  <2> QED BY <2>2, <2>3, <2>5, <2>7 DEF JoinsAt, Bad
<1> QED BY <1>1

LEMMA JoinsSome ==
    ASSUME NEW seqs
    PROVE  \A n \in Nat : \E joined : Joins(seqs, n, joined)
<1> DEFINE Bad == {n \in Nat : ~\E joined : Joins(seqs, n, joined)}
<1>1. ASSUME Bad # {} PROVE FALSE
  <2>1. Bad \in SUBSET Nat
    OBVIOUS
  <2>2. PICK n \in Bad : \A m \in Bad : n <= m
    BY <2>1, <1>1, LeastElement
  <2>3. n # 0
    <3>1. Joins(seqs, 0, [i \in 1 .. 0 |-> <<>>])
      BY DEF Joins
    <3> QED BY <3>1
  <2>4. PICK joined : Joins(seqs, n - 1, joined)
    BY <2>2, <2>3
  <2> DEFINE next == [i \in 1 .. n |-> IF i < n THEN joined[i]
                        ELSE IF i = 1 THEN seqs[i] ELSE joined[i - 1] \o seqs[i]]
  <2>5. Joins(seqs, n, next)
    <3>1. ASSUME NEW i \in 1 .. n, i < n PROVE JoinsAt(seqs, i, next)
      <4>1. JoinsAt(seqs, i, joined)
        BY <2>3, <2>4, <3>1, JoinsEverywhere
      <4>2. next[i] = joined[i] /\ (i # 1 => next[i - 1] = joined[i - 1])
        BY <3>1
      <4> HIDE DEF next
      <4> QED BY <4>1, <4>2 DEF JoinsAt
    <3>2. JoinsAt(seqs, n, next)
      <4>1. n # 1 => next[n - 1] = joined[n - 1]
        BY <2>3
      <4>2. next[n] = IF n = 1 THEN seqs[n] ELSE joined[n - 1] \o seqs[n]
        BY <2>3
      <4> HIDE DEF next
      <4> QED BY <4>1, <4>2, <2>3 DEF JoinsAt
    <3>3. next = [i \in 1 .. n |-> next[i]]
      OBVIOUS
    <3> HIDE DEF next
    <3>4. \A i \in 1 .. n : JoinsAt(seqs, i, next)
      BY <3>1, <3>2
    <3> QED BY <3>3, <3>4, JoinsEverywhere
  <2> QED BY <2>5
<1> QED BY <1>1

LEMMA JoinsAgree ==
    ASSUME NEW seqs, NEW more, NEW joined, NEW longer, NEW n \in Nat, NEW m \in Nat, n <= m,
           \A i \in 1 .. n : seqs[i] = more[i], Joins(seqs, n, joined), Joins(more, m, longer)
    PROVE  \A i \in 1 .. n : joined[i] = longer[i]
<1> DEFINE Bad == {i \in 1 .. n : joined[i] # longer[i]}
<1>1. ASSUME Bad # {} PROVE FALSE
  <2>1. Bad \in SUBSET Nat
    OBVIOUS
  <2>2. PICK i \in Bad : \A j \in Bad : i <= j
    BY <2>1, <1>1, LeastElement
  <2>3. JoinsAt(seqs, i, joined) /\ JoinsAt(more, i, longer)
    BY JoinsEverywhere
  <2>4. i # 1
    BY <2>2, <2>3 DEF JoinsAt
  <2>5. joined[i - 1] = longer[i - 1]
    BY <2>2, <2>4
  <2>6. seqs[i] = more[i]
    BY <2>4
  <2> QED BY <2>2, <2>3, <2>4, <2>5, <2>6 DEF JoinsAt
<1> QED BY <1>1

(* The recursion of FlattenSeq: no sequences, and one more.                *)
LEMMA FlattenEmpty ==
    ASSUME NEW seqs, Len(seqs) = 0
    PROVE  FlattenSeq(seqs) = seqs
BY DEF FlattenSeq

LEMMA FlattenTyped ==
    ASSUME NEW S, NEW seqs \in Seq(Seq(S))
    PROVE  FlattenSeq(seqs) \in Seq(S)
<1>1. CASE Len(seqs) = 0
  BY <1>1, FlattenChosen, EmptySeq
<1>2. CASE Len(seqs) # 0
  <2>0. Len(seqs) \in Nat
    OBVIOUS
  <2>1. PICK joined : joined = CHOOSE f : Joins(seqs, Len(seqs), f)
    OBVIOUS
  <2>2. Joins(seqs, Len(seqs), joined)
    <3>1. \E f : Joins(seqs, Len(seqs), f)
      BY <2>0, JoinsSome
    <3> QED BY <2>1, <3>1
  <2>3. joined[Len(seqs)] \in Seq(S)
    BY <1>2, <2>0, <2>2, JoinsTyped
  <2> QED BY <1>2, <2>1, <2>3, FlattenChosen
<1> QED BY <1>1, <1>2

LEMMA FlattenAppend ==
    ASSUME NEW S, NEW seqs \in Seq(Seq(S)), NEW last \in Seq(S)
    PROVE  FlattenSeq(Append(seqs, last)) = FlattenSeq(seqs) \o last
<1> DEFINE n == Len(seqs)
           more == Append(seqs, last)
<1>0. n \in Nat /\ Len(more) = n + 1 /\ more[n + 1] = last /\ \A i \in 1 .. n : more[i] = seqs[i]
  OBVIOUS
<1>1. PICK longer : longer = CHOOSE f : Joins(more, n + 1, f)
  OBVIOUS
<1>2. Joins(more, n + 1, longer)
  <2>1. \E f : Joins(more, n + 1, f)
    <3>1. n + 1 \in Nat
      BY <1>0
    <3> QED BY <3>1, JoinsSome
  <2> QED BY <1>1, <2>1
<1>3. FlattenSeq(more) = longer[n + 1]
  <2>1. Len(more) # 0
    BY <1>0
  <2> HIDE DEF n, more
  <2> QED BY <1>0, <1>1, <2>1, FlattenChosen
<1>4. JoinsAt(more, n + 1, longer)
  BY <1>0, <1>2, JoinsEverywhere
<1>5. CASE n = 0
  <2>1. FlattenSeq(seqs) = <<>>
    BY <1>5, FlattenEmpty
  <2>2. longer[n + 1] = last
    BY <1>0, <1>4, <1>5 DEF JoinsAt
  <2> QED BY <1>3, <2>1, <2>2
<1>6. CASE n # 0
  <2>1. PICK joined : joined = CHOOSE f : Joins(seqs, n, f)
    OBVIOUS
  <2>2. Joins(seqs, n, joined)
    <3>1. \E f : Joins(seqs, n, f)
      BY <1>0, JoinsSome
    <3> QED BY <2>1, <3>1
  <2>3. joined[n] = longer[n]
    <3>1. n + 1 \in Nat /\ n <= n + 1 /\ n \in 1 .. n /\ \A i \in 1 .. n : seqs[i] = more[i]
      BY <1>0, <1>6
    <3> HIDE DEF n, more
    <3>2. \A i \in 1 .. n : joined[i] = longer[i]
      BY <1>0, <1>2, <2>2, <3>1, JoinsAgree
    <3> QED BY <3>1, <3>2
  <2>4. FlattenSeq(seqs) = joined[n]
    BY <1>6, <2>1, FlattenChosen
  <2>5. longer[n + 1] = longer[n] \o last
    BY <1>0, <1>4, <1>6 DEF JoinsAt
  <2> QED BY <1>3, <2>3, <2>4, <2>5
<1> QED BY <1>5, <1>6
(* A function of the first numbers is a sequence.                          *)
LEMMA FunctionIsSeq ==
    ASSUME NEW S, NEW n \in Nat, NEW f, f = [k \in 1 .. n |-> f[k]], \A k \in 1 .. n : f[k] \in S
    PROVE  f \in Seq(S) /\ Len(f) = n /\ DOMAIN f = 1 .. n
OBVIOUS

(* A sequence and one element more.                                        *)
LEMMA OneMore ==
    ASSUME NEW S, NEW s \in Seq(S), NEW e \in S
    PROVE  /\ s \o <<e>> \in Seq(S) /\ Len(s \o <<e>>) = Len(s) + 1 /\ Len(s) \in Nat
           /\ DOMAIN (s \o <<e>>) = 1 .. Len(s) + 1 /\ DOMAIN s = 1 .. Len(s)
           /\ (s \o <<e>>)[Len(s) + 1] = e
           /\ \A i \in 1 .. Len(s) : (s \o <<e>>)[i] = s[i]
OBVIOUS

(* What FlattenSeq makes of a sequence of at most one element for each     *)
(* number: those there is one for.                                         *)
Optional(seqs, W, value) ==
    \A k \in 1 .. Len(seqs) : seqs[k] = IF k \in W THEN <<value[k]>> ELSE <<>>

(* The values there are, in some order.                                    *)
Chosen(S, o, W, value) ==
    /\ o \in Seq(S) /\ Len(o) = Cardinality(W)
    /\ \A i \in DOMAIN o : \E k \in W : o[i] = value[k]
    /\ \A k \in W : \E i \in DOMAIN o : o[i] = value[k]

LEMMA FlattenSome ==
    ASSUME NEW S, NEW seqs \in Seq(Seq(S)), NEW W, NEW value, Optional(seqs, W, value),
           \A k \in 1 .. Len(seqs) : value[k] \in S
    PROVE  Chosen(S, FlattenSeq(seqs), (1 .. Len(seqs)) \cap W, value)
<1>20. PICK n \in Nat : n = Len(seqs)
  OBVIOUS
<1>21. \A k \in 1 .. n : value[k] \in S
  BY <1>20
<1>22. PICK whole : whole = FlattenSeq(seqs)
  OBVIOUS
<1> DEFINE upto(m) == [k \in 1 .. m |-> IF k \in W THEN <<value[k]>> ELSE <<>>]
           O(m)    == FlattenSeq(upto(m))
           Good(m) == /\ O(m) \in Seq(S) /\ Len(O(m)) = Cardinality((1 .. m) \cap W)
                      /\ \A i \in DOMAIN O(m) : \E k \in (1 .. m) \cap W : O(m)[i] = value[k]
                      /\ \A k \in (1 .. m) \cap W : \E i \in DOMAIN O(m) : O(m)[i] = value[k]
           Bad     == {m \in 0 .. n : ~Good(m)}
<1>1. ASSUME NEW m \in 0 .. n PROVE upto(m) \in Seq(Seq(S)) /\ Len(upto(m)) = m
  <2>1. \A k \in 1 .. m : upto(m)[k] \in Seq(S)
    <3>1. TAKE k \in 1 .. m
    <3>2. <<value[k]>> \in Seq(S) /\ <<>> \in Seq(S)
      BY <1>21
    <3>3. upto(m)[k] = IF k \in W THEN <<value[k]>> ELSE <<>>
      OBVIOUS
    <3> HIDE DEF upto
    <3> QED BY <3>2, <3>3
  <2>2. upto(m) = [k \in 1 .. m |-> upto(m)[k]] /\ m \in Nat
    OBVIOUS
  <2> HIDE DEF upto
  <2> QED BY <2>1, <2>2, FunctionIsSeq
<1>2. Good(0)
  <2>1. upto(0) = <<>> /\ Len(upto(0)) = 0
    OBVIOUS
  <2>2. O(0) = <<>>
    BY <2>1, FlattenEmpty
  <2>3. (1 .. 0) \cap W = {}
    OBVIOUS
  <2>4. Cardinality((1 .. 0) \cap W) = 0
    BY <2>3, FS_EmptySet
  <2>5. O(0) \in Seq(S) /\ Len(O(0)) = 0 /\ DOMAIN O(0) = {}
    <3>1. <<>> \in Seq(S) /\ Len(<<>>) = 0 /\ DOMAIN <<>> = {}
      OBVIOUS
    <3> HIDE DEF O
    <3> QED BY <2>2, <3>1
  <2> HIDE DEF O, upto
  <2> QED BY <2>3, <2>4, <2>5
<1>3. ASSUME NEW m \in 0 .. n, m < n, Good(m) PROVE Good(m + 1)
  <2> DEFINE x == IF m + 1 \in W THEN <<value[m + 1]>> ELSE <<>>
  <2>0. m + 1 \in 1 .. n /\ m \in Nat /\ m + 1 \in 0 .. n
    BY <1>3
  <2>1. x \in Seq(S)
    <3>1. value[m + 1] \in S
      BY <1>21, <2>0
    <3>2. <<value[m + 1]>> \in Seq(S) /\ <<>> \in Seq(S)
      BY <3>1
    <3> QED BY <3>2
  <2>2. upto(m + 1) = Append(upto(m), x)
    <3>1. upto(m) \in Seq(Seq(S)) /\ Len(upto(m)) = m /\ upto(m + 1) \in Seq(Seq(S)) /\ Len(upto(m + 1)) = m + 1
      BY <2>0, <1>1
    <3>2. \A k \in 1 .. m : upto(m + 1)[k] = upto(m)[k]
      BY <2>0
    <3>3. upto(m + 1)[m + 1] = x
      BY <2>0
    <3> HIDE DEF upto, x
    <3> QED BY <2>0, <2>1, <3>1, <3>2, <3>3
  <2>3. O(m + 1) = O(m) \o x
    <3>1. upto(m) \in Seq(Seq(S))
      BY <1>1
    <3> HIDE DEF upto, x
    <3> QED BY <2>1, <2>2, <3>1, FlattenAppend
  <2>4. IsFiniteSet((1 .. m) \cap W) /\ m + 1 \notin (1 .. m) \cap W
    <3>1. IsFiniteSet(1 .. m)
      BY <2>0, FS_Interval
    <3> QED BY <2>0, <3>1, FS_Subset
  <2>5. CASE m + 1 \in W
    <3>1. (1 .. m + 1) \cap W = ((1 .. m) \cap W) \cup {m + 1}
      BY <2>0, <2>5
    <3>2. Cardinality((1 .. m + 1) \cap W) = Cardinality((1 .. m) \cap W) + 1
      BY <2>4, <3>1, FS_AddElement
    <3>3. x = <<value[m + 1]>> /\ value[m + 1] \in S
      BY <1>21, <2>0, <2>5
    <3> HIDE DEF x, O
    <3>4. PICK o : o = O(m)
      OBVIOUS
    <3>5. PICK p : p = o \o <<value[m + 1]>>
      OBVIOUS
    <3>6. /\ o \in Seq(S) /\ Len(o) = Cardinality((1 .. m) \cap W)
          /\ \A i \in DOMAIN o : \E k \in (1 .. m) \cap W : o[i] = value[k]
          /\ \A k \in (1 .. m) \cap W : \E i \in DOMAIN o : o[i] = value[k]
      BY <1>3, <3>4
    <3>7. /\ p \in Seq(S) /\ Len(p) = Len(o) + 1 /\ DOMAIN p = 1 .. Len(o) + 1
          /\ DOMAIN o = 1 .. Len(o) /\ Len(o) \in Nat
          /\ p[Len(o) + 1] = value[m + 1] /\ \A i \in 1 .. Len(o) : p[i] = o[i]
      <4>1. PICK e \in S : e = value[m + 1]
        BY <3>3
      <4>2. p = o \o <<e>>
        BY <3>5, <4>1
      <4>3. o \in Seq(S)
        BY <3>6
      <4> QED BY <4>1, <4>2, <4>3, OneMore
    <3>8. ASSUME NEW i \in DOMAIN p PROVE \E k \in (1 .. m + 1) \cap W : p[i] = value[k]
      <4>1. CASE i \in 1 .. Len(o)
        <5>1. PICK k \in (1 .. m) \cap W : o[i] = value[k]
          BY <3>6, <3>7, <4>1
        <5> QED BY <3>1, <3>7, <4>1, <5>1
      <4>2. CASE i = Len(o) + 1
        BY <3>1, <3>7, <4>2
      <4> QED BY <3>7, <4>1, <4>2
    <3>9. ASSUME NEW k \in (1 .. m + 1) \cap W PROVE \E i \in DOMAIN p : p[i] = value[k]
      <4>1. CASE k \in (1 .. m) \cap W
        <5>1. PICK i \in DOMAIN o : o[i] = value[k]
          BY <3>6, <4>1
        <5> QED BY <3>7, <5>1
      <4>2. CASE k = m + 1
        <5>1. Len(o) + 1 \in DOMAIN p /\ p[Len(o) + 1] = value[k]
          BY <3>7, <4>2
        <5> QED BY <5>1
      <4> QED BY <3>1, <4>1, <4>2
    <3>10. O(m + 1) = p
      BY <2>3, <3>3, <3>4, <3>5
    <3> QED BY <3>2, <3>6, <3>7, <3>8, <3>9, <3>10
  <2>6. CASE m + 1 \notin W
    <3>1. (1 .. m + 1) \cap W = (1 .. m) \cap W
      BY <2>0, <2>6
    <3>2. x = <<>>
      BY <2>6
    <3> HIDE DEF x, O
    <3>3. O(m + 1) = O(m)
      BY <1>3, <2>3, <3>2
    <3> QED BY <1>3, <3>1, <3>3
  <2> QED BY <2>5, <2>6
<1>4. ASSUME Bad # {} PROVE FALSE
  <2>1. Bad \in SUBSET Nat
    OBVIOUS
  <2>2. PICK m \in Bad : \A l \in Bad : m <= l
    BY <2>1, <1>4, LeastElement
  <2> HIDE DEF Good
  <2>3. m # 0
    BY <1>2, <2>2
  <2>4. m - 1 \in 0 .. n /\ m - 1 < n /\ (m - 1) + 1 = m
    BY <2>2, <2>3
  <2>5. Good(m - 1)
    BY <2>2, <2>4
  <2>6. Good((m - 1) + 1)
    BY <1>3, <2>4, <2>5
  <2> QED BY <2>2, <2>4, <2>6
<1>5. Good(n)
  <2> HIDE DEF Good
  <2> QED BY <1>4
<1>6. O(n) = FlattenSeq(seqs)
  <2>1. upto(n) \in Seq(Seq(S)) /\ Len(upto(n)) = n
    BY <1>1
  <2>2. \A k \in 1 .. n : upto(n)[k] = seqs[k]
    BY <1>20 DEF Optional
  <2> HIDE DEF upto
  <2>3. upto(n) = seqs
    BY <1>20, <2>1, <2>2
  <2> QED BY <2>3
<1>7. O(n) = whole
  BY <1>6, <1>22
<1> HIDE DEF O
<1>8. /\ O(n) \in Seq(S) /\ Len(O(n)) = Cardinality((1 .. n) \cap W)
      /\ \A i \in DOMAIN O(n) : \E k \in (1 .. n) \cap W : O(n)[i] = value[k]
      /\ \A k \in (1 .. n) \cap W : \E i \in DOMAIN O(n) : O(n)[i] = value[k]
  BY <1>5
<1>9. whole \in Seq(S)
  BY <1>7, <1>8
<1>10. Len(whole) = Cardinality((1 .. n) \cap W)
  BY <1>7, <1>8
<1>11. \A i \in DOMAIN whole : \E k \in (1 .. n) \cap W : whole[i] = value[k]
  BY <1>7, <1>8
<1>12. ASSUME NEW k \in (1 .. n) \cap W PROVE \E i \in DOMAIN whole : whole[i] = value[k]
  <2>1. PICK i \in DOMAIN O(n) : O(n)[i] = value[k]
    BY <1>8
  <2> QED BY <1>7, <2>1
<1> QED BY <1>9, <1>10, <1>11, <1>12, <1>20, <1>22 DEF Chosen

---------------------------------------------------------------------------
(* The messages, and a call as answer i makes it.                          *)
Forms    == {"long", "short"}
CallIds  == Nat \X Nat \X Forms
Messages == [role : {"user", "assistant", "toolResult"}, calls : Seq(CallIds), call : CallIds \cup {NoTool},
             foreign : BOOLEAN, stop : {"none", "stop", "error", "aborted"}]
Form(m)  == IF m.foreign THEN "short" ELSE "long"

LEMMA MessageTyped ==
    /\ UserMessage \in Messages
    /\ \A c \in CallIds : ToolResult(c) \in Messages
    /\ \A calls \in Seq(CallIds), foreign \in BOOLEAN, stop \in {"stop", "error", "aborted"} :
        Message("assistant", calls, NoTool, foreign, stop) \in Messages
<1>1. <<>> \in Seq(CallIds)
  OBVIOUS
<1> HIDE DEF CallIds
<1> QED BY <1>1 DEF UserMessage, ToolResult, Message, Messages

(* An answer that is replayed and has had nothing but results since.       *)
Complete(m) == IsAnswer(m) /\ ~Incomplete(m)
OpenAt(s, a) ==
    /\ a \in DOMAIN s /\ Complete(s[a])
    /\ \A k \in a + 1 .. Len(s) : s[k].role = "toolResult"

LEMMA PendingIsOpen ==
    ASSUME NEW s \in Seq(Messages), NEW m
    PROVE  PendingAnswer(Append(s, m), Len(s) + 1) = {a \in DOMAIN s : OpenAt(s, a)}
<1> DEFINE t == Append(s, m)
<1>1. Len(s) \in Nat /\ DOMAIN s = 1 .. Len(s) /\ \A k \in 1 .. Len(s) : t[k] = s[k]
  OBVIOUS
<1>2. (Len(s) + 1) - 1 = Len(s)
  BY <1>1
<1> HIDE DEF t
<1>3. \A a \in 1 .. Len(s) :
        (IsAnswer(t[a]) /\ ~Incomplete(t[a]) /\ \A k \in a + 1 .. Len(s) : t[k].role = "toolResult") <=> OpenAt(s, a)
  <2>1. TAKE a \in 1 .. Len(s)
  <2>2. \A k \in a + 1 .. Len(s) : k \in 1 .. Len(s)
    BY <1>1
  <2> QED BY <1>1, <2>2 DEF OpenAt, Complete
<1>4. PendingAnswer(t, Len(s) + 1) = {a \in DOMAIN s : OpenAt(s, a)}
  BY <1>1, <1>2, <1>3 DEF PendingAnswer
<1> QED BY <1>4 DEF t

LEMMA OneOpen ==
    ASSUME NEW s \in Seq(Messages), NEW a \in DOMAIN s, NEW b \in DOMAIN s, OpenAt(s, a), OpenAt(s, b)
    PROVE  a = b
<1>1. a \in 1 .. Len(s) /\ b \in 1 .. Len(s) /\ Len(s) \in Nat
  OBVIOUS
<1>2. ASSUME a < b PROVE FALSE
  BY <1>1, <1>2 DEF OpenAt, Complete, IsAnswer
<1>3. ASSUME b < a PROVE FALSE
  BY <1>1, <1>3 DEF OpenAt, Complete, IsAnswer
<1> QED BY <1>1, <1>2, <1>3

---------------------------------------------------------------------------
(* What the first pass makes of a conversation.                            *)
Numbered(c) ==
    \A i \in DOMAIN c :
        /\ IsAnswer(c[i]) => \A k \in DOMAIN c[i].calls : c[i].calls[k] = <<i, k, "long">>
        /\ c[i].role = "toolResult" => c[i].call[1] \in Nat

LEMMA NormalizedPrefix ==
    ASSUME NEW c \in Seq(Messages), NEW m \in Messages
    PROVE  /\ Len(Normalized(c)) = Len(c) /\ DOMAIN Normalized(c) = DOMAIN c
           /\ Normalized(Append(c, m)) = Append(Normalized(c), Normalized(Append(c, m))[Len(c) + 1])
<1> DEFINE d == Append(c, m)
           s == Normalized(c)
           t == Normalized(d)
<1>1. Len(c) \in Nat /\ DOMAIN c = 1 .. Len(c) /\ DOMAIN d = 1 .. Len(c) + 1 /\ Len(d) = Len(c) + 1
      /\ \A k \in 1 .. Len(c) : d[k] = c[k]
  OBVIOUS
<1> HIDE DEF d
<1>2. DOMAIN s = DOMAIN c /\ DOMAIN t = DOMAIN d
  BY DEF Normalized
<1>3. \A i \in 1 .. Len(c) : Replaced(d, i) = Replaced(c, i)
  <2>1. TAKE i \in 1 .. Len(c)
  <2>2. \A k \in 1 .. i - 1 : d[k] = c[k]
    BY <1>1
  <2> QED BY <2>2 DEF Replaced
<1>4. \A i \in 1 .. Len(c) : t[i] = s[i]
  <2>1. TAKE i \in 1 .. Len(c)
  <2>2. d[i] = c[i] /\ Replaced(d, i) = Replaced(c, i) /\ i \in DOMAIN c /\ i \in DOMAIN d
    BY <1>1, <1>3
  <2> QED BY <2>2 DEF Normalized
<1>5. s = [i \in 1 .. Len(c) |-> s[i]] /\ t = [i \in 1 .. Len(c) + 1 |-> t[i]]
  BY <1>1 DEF Normalized
<1> HIDE DEF s, t
<1>6. Len(s) = Len(c) /\ Len(t) = Len(c) + 1
  BY <1>1, <1>5
<1>7. t = Append(s, t[Len(c) + 1])
  <2> DEFINE S == {s[i] : i \in 1 .. Len(c)} \cup {t[Len(c) + 1]}
  <2>1. \A i \in 1 .. Len(c) : s[i] \in S
    OBVIOUS
  <2>2. t[Len(c) + 1] \in S
    OBVIOUS
  <2> HIDE DEF S
  <2>3. \A i \in 1 .. Len(c) + 1 : t[i] \in S
    BY <1>1, <1>4, <2>1, <2>2
  <2>4. s \in Seq(S) /\ t \in Seq(S)
    BY <1>1, <1>5, <2>1, <2>3
  <2> QED BY <1>1, <1>4, <1>6, <2>2, <2>4
<1> QED BY <1>2, <1>6, <1>7 DEF s, t, d

LEMMA NormalizedTyped ==
    ASSUME NEW c \in Seq(Messages), Numbered(c)
    PROVE  /\ Normalized(c) \in Seq(Messages)
           /\ \A i \in DOMAIN c : 
                /\ Normalized(c)[i].role = c[i].role /\ Normalized(c)[i].stop = c[i].stop
                /\ IsAnswer(c[i]) =>
                    /\ DOMAIN Normalized(c)[i].calls = DOMAIN c[i].calls
                    /\ Len(Normalized(c)[i].calls) = Len(c[i].calls)
                    /\ \A k \in DOMAIN c[i].calls : Normalized(c)[i].calls[k] = <<i, k, Form(c[i])>>
<1> DEFINE s == Normalized(c)
<1>1. ASSUME NEW i \in DOMAIN c
      PROVE  /\ s[i] \in Messages
             /\ s[i].role = c[i].role /\ s[i].stop = c[i].stop
             /\ IsAnswer(c[i]) =>
                    /\ DOMAIN s[i].calls = DOMAIN c[i].calls
                    /\ Len(s[i].calls) = Len(c[i].calls)
                    /\ \A k \in DOMAIN c[i].calls : s[i].calls[k] = <<i, k, Form(c[i])>>
  <2>1. c[i] \in Messages /\ i \in Nat
    OBVIOUS
  <2>2. CASE IsAnswer(c[i]) /\ c[i].foreign
    <3> DEFINE short == [k \in DOMAIN c[i].calls |-> Shortened(c[i].calls[k])]
    <3>1. s[i] = [c[i] EXCEPT !.calls = short]
      <4>1. s[i] = CASE IsAnswer(c[i]) /\ c[i].foreign -> [c[i] EXCEPT !.calls = short]
                     [] c[i].role = "toolResult" /\ c[i].call \in Replaced(c, i) ->
                          [c[i] EXCEPT !.call = Shortened(c[i].call)]
                     [] OTHER -> c[i]
        BY Zenon DEF Normalized
      <4>2. c[i].role # "toolResult"
        BY <2>2 DEF IsAnswer
      <4> HIDE DEF s, short
      <4> QED BY <2>2, <4>1, <4>2
    <3>2. c[i].calls \in Seq(CallIds)
      BY <2>1 DEF Messages
    <3>3. \A k \in DOMAIN c[i].calls : short[k] = <<i, k, "short">> /\ k \in Nat
      BY <2>2, <3>2 DEF Numbered, Shortened
    <3>4. \A k \in DOMAIN c[i].calls : short[k] \in CallIds
      <4>1. TAKE k \in DOMAIN c[i].calls
      <4>2. k \in Nat /\ <<i, k, "short">> \in CallIds
        BY <2>1, <3>3 DEF CallIds, Forms
      <4> QED BY <3>3, <4>2
    <3>5. short \in Seq(CallIds) /\ Len(short) = Len(c[i].calls) /\ DOMAIN short = DOMAIN c[i].calls
      <4>1. DOMAIN c[i].calls = 1 .. Len(c[i].calls) /\ Len(c[i].calls) \in Nat
        BY <3>2
      <4>2. short = [k \in 1 .. Len(c[i].calls) |-> short[k]]
        BY <4>1
      <4>3. \A k \in 1 .. Len(c[i].calls) : short[k] \in CallIds
        BY <3>4, <4>1
      <4> HIDE DEF short
      <4>4. PICK n \in Nat : n = Len(c[i].calls)
        BY <4>1
      <4>5. short = [k \in 1 .. n |-> short[k]] /\ \A k \in 1 .. n : short[k] \in CallIds
        BY <4>2, <4>3, <4>4
      <4>6. short \in Seq(CallIds) /\ Len(short) = n /\ DOMAIN short = 1 .. n
        BY <4>5, FunctionIsSeq
      <4> QED BY <4>1, <4>4, <4>6
    <3> HIDE DEF short
    <3>6. s[i] \in Messages
      BY <2>1, <3>1, <3>5 DEF Messages
    <3>7. s[i].calls = short /\ s[i].role = c[i].role /\ s[i].stop = c[i].stop
      BY <2>1, <3>1 DEF Messages
    <3> QED BY <2>2, <3>3, <3>5, <3>6, <3>7 DEF Form
  <2>3. CASE ~(IsAnswer(c[i]) /\ c[i].foreign) /\ c[i].role = "toolResult" /\ c[i].call \in Replaced(c, i)
    <3>1. s[i] = [c[i] EXCEPT !.call = Shortened(c[i].call)]
      BY <2>3 DEF Normalized
    <3>2. c[i].call \in CallIds
      <4>1. PICK j \in 1 .. i - 1 : IsAnswer(c[j]) /\ c[i].call \in ToSet(c[j].calls)
        BY <2>3 DEF Replaced
      <4>2. c[j] \in Messages
        BY <4>1
      <4>3. c[j].calls \in Seq(CallIds)
        BY <4>2 DEF Messages
      <4> QED BY <4>1, <4>3 DEF ToSet
    <3>3. Shortened(c[i].call) \in CallIds
      BY <3>2 DEF Shortened, CallIds, Forms
    <3>4. s[i] \in Messages
      BY <2>1, <3>1, <3>3 DEF Messages
    <3>5. s[i].role = c[i].role /\ s[i].stop = c[i].stop
      BY <2>1, <3>1 DEF Messages
    <3> QED BY <2>3, <3>4, <3>5 DEF IsAnswer
  <2>4. CASE ~(IsAnswer(c[i]) /\ c[i].foreign) /\ ~(c[i].role = "toolResult" /\ c[i].call \in Replaced(c, i))
    <3>1. s[i] = c[i]
      BY <2>4 DEF Normalized
    <3> QED BY <2>1, <2>4, <3>1 DEF Numbered, Form
  <2> QED BY <2>2, <2>3, <2>4
<1>2. s = [i \in 1 .. Len(c) |-> s[i]] /\ Len(c) \in Nat /\ DOMAIN c = 1 .. Len(c)
  BY DEF Normalized
<1> HIDE DEF s
<1>3. s \in Seq(Messages)
  BY <1>1, <1>2
<1> QED BY <1>1, <1>3 DEF s

(* The result of a call keeps the id that the call has.                    *)
LEMMA NormalizedResult ==
    ASSUME NEW c \in Seq(Messages), Numbered(c), NEW i \in DOMAIN c, c[i].role = "toolResult",
           NEW a \in 1 .. i - 1, IsAnswer(c[a]), NEW k \in DOMAIN c[a].calls, c[i].call = <<a, k, "long">>
    PROVE  Normalized(c)[i].call = <<a, k, Form(c[a])>>
<1>1. ~IsAnswer(c[i]) /\ c[i] \in Messages /\ a \in DOMAIN c /\ i \in Nat
  BY DEF IsAnswer
<1>2. CASE c[a].foreign
  <2>1. c[i].call \in ToSet(c[a].calls)
    <3>1. c[a].calls[k] = <<a, k, "long">>
      BY <1>1 DEF Numbered
    <3> QED BY <3>1 DEF ToSet
  <2>2. c[i].call \in Replaced(c, i)
    BY <1>2, <2>1 DEF Replaced
  <2>3. Normalized(c)[i] = [c[i] EXCEPT !.call = Shortened(c[i].call)]
    BY <1>1, <2>2 DEF Normalized
  <2>4. Normalized(c)[i].call = Shortened(c[i].call)
    BY <1>1, <2>3 DEF Messages
  <2> QED BY <1>2, <2>4 DEF Shortened, Form
<1>3. CASE ~c[a].foreign
  <2>1. ASSUME c[i].call \in Replaced(c, i) PROVE FALSE
    <3>1. PICK j \in 1 .. i - 1 : IsAnswer(c[j]) /\ c[j].foreign /\ c[i].call \in ToSet(c[j].calls)
      BY <2>1 DEF Replaced
    <3>2. j \in DOMAIN c
      BY <3>1
    <3>3. c[j] \in Messages
      BY <3>2
    <3>4. PICK n \in DOMAIN c[j].calls : c[i].call = c[j].calls[n]
      BY <3>1, <3>3 DEF ToSet
    <3>5. c[i].call = <<j, n, "long">>
      BY <3>1, <3>2, <3>4 DEF Numbered
    <3>6. j = a
      BY <3>5
    <3> QED BY <1>3, <3>1, <3>6
  <2>2. Normalized(c)[i] = c[i]
    BY <1>1, <2>1 DEF Normalized
  <2> QED BY <1>3, <2>2 DEF Form
<1> QED BY <1>2, <1>3
---------------------------------------------------------------------------
(* What the second pass inserts.                                           *)
Unmet(s, a) ==
    {k \in 1 .. Len(s[a].calls) : \A x \in a + 1 .. Len(s) : s[x].call # s[a].calls[k]}
ResultsOf(m) == [k \in 1 .. Len(m.calls) |-> ToolResult(m.calls[k])]

(* The results of the calls that have none.                                *)
Fills(s, a, o) ==
    /\ o \in Seq(Messages) /\ Len(o) = Cardinality(Unmet(s, a))
    /\ \A i \in DOMAIN o : \E k \in Unmet(s, a) : o[i] = ToolResult(s[a].calls[k])
    /\ \A k \in Unmet(s, a) : \E i \in DOMAIN o : o[i] = ToolResult(s[a].calls[k])

LEMMA SyntheticNone ==
    ASSUME NEW s \in Seq(Messages), NEW m, m.role = "toolResult" \/ ~\E a \in DOMAIN s : OpenAt(s, a)
    PROVE  Synthetic(Append(s, m), Len(s) + 1) = <<>>
<1>1. Append(s, m)[Len(s) + 1] = m
  OBVIOUS
<1>2. PendingAnswer(Append(s, m), Len(s) + 1) = {a \in DOMAIN s : OpenAt(s, a)}
  BY PendingIsOpen
<1> QED BY <1>1, <1>2 DEF Synthetic

LEMMA SyntheticOpen ==
    ASSUME NEW s \in Seq(Messages), NEW m, m.role # "toolResult", NEW a \in DOMAIN s, OpenAt(s, a)
    PROVE  Fills(s, a, Synthetic(Append(s, m), Len(s) + 1))
<1> DEFINE t == Append(s, m)
           i == Len(s) + 1
           n == Len(s[a].calls)
           value == ResultsOf(s[a])
           W == Unmet(s, a)
           b == CHOOSE j \in PendingAnswer(t, i) : TRUE
<1>1. t[i] = m /\ Len(s) \in Nat /\ i - 1 = Len(s) /\ \A k \in 1 .. Len(s) : t[k] = s[k]
  OBVIOUS
<1>2. PendingAnswer(t, i) = {j \in DOMAIN s : OpenAt(s, j)}
  BY PendingIsOpen
<1>3. b = a
  <2>1. b \in DOMAIN s /\ OpenAt(s, b)
    BY <1>2
  <2> QED BY <2>1, OneOpen
<1>4. a \in 1 .. Len(s) /\ t[a] = s[a] /\ s[a] \in Messages
  BY <1>1
<1>5. s[a].calls \in Seq(CallIds) /\ DOMAIN s[a].calls = 1 .. n /\ n \in Nat
  BY <1>4 DEF Messages
<1>6. PendingAnswer(t, i) # {}
  BY <1>2
<1>7. Synthetic(t, i) =
        FlattenSeq([k \in DOMAIN t[b].calls |->
            IF \A x \in b + 1 .. i - 1 : t[x].call # t[b].calls[k] THEN <<ToolResult(t[b].calls[k])>> ELSE <<>>])
  <2> HIDE DEF t, i
  <2> QED BY <1>1, <1>6 DEF Synthetic
<1>8. Synthetic(t, i) = FlattenSeq([k \in 1 .. n |-> IF k \in W THEN <<value[k]>> ELSE <<>>])
  <2>1. \A k \in 1 .. n : (\A x \in a + 1 .. i - 1 : t[x].call # t[a].calls[k]) <=> k \in W
    <3>1. \A x \in a + 1 .. i - 1 : t[x] = s[x]
      BY <1>1, <1>4
    <3> HIDE DEF t, i
    <3> QED BY <1>1, <1>4, <3>1 DEF Unmet
  <2>2. \A k \in 1 .. n : value[k] = ToolResult(t[a].calls[k])
    BY <1>4 DEF ResultsOf
  <2>3. [k \in DOMAIN t[b].calls |->
            IF \A x \in b + 1 .. i - 1 : t[x].call # t[b].calls[k] THEN <<ToolResult(t[b].calls[k])>> ELSE <<>>]
        = [k \in 1 .. n |-> IF k \in W THEN <<value[k]>> ELSE <<>>]
    <3> HIDE DEF t, i, b, value, W
    <3>1. DOMAIN t[b].calls = 1 .. n
      BY <1>3, <1>4, <1>5
    <3>2. \A k \in 1 .. n : 
            (IF \A x \in b + 1 .. i - 1 : t[x].call # t[b].calls[k] THEN <<ToolResult(t[b].calls[k])>> ELSE <<>>)
            = IF k \in W THEN <<value[k]>> ELSE <<>>
      BY <1>3, <2>1, <2>2
    <3> QED BY <3>1, <3>2
  <2> HIDE DEF t, i, b, value, W
  <2> QED BY <1>7, <2>3
<1>9. \A k \in 1 .. n : value[k] \in Messages
  <2>1. \A k \in 1 .. n : s[a].calls[k] \in CallIds
    BY <1>5
  <2> QED BY <2>1, MessageTyped DEF ResultsOf
<1>10. (1 .. n) \cap W = W /\ \A k \in W : value[k] = ToolResult(s[a].calls[k])
  BY DEF Unmet, ResultsOf
<1> HIDE DEF t, i, n, value, W
<1> DEFINE o == Synthetic(t, i)
<1>11. /\ o \in Seq(Messages) /\ Len(o) = Cardinality((1 .. n) \cap W)
       /\ \A j \in DOMAIN o : \E k \in (1 .. n) \cap W : o[j] = value[k]
       /\ \A k \in (1 .. n) \cap W : \E j \in DOMAIN o : o[j] = value[k]
  <2>1. PICK seqs : seqs = [k \in 1 .. n |-> IF k \in W THEN <<value[k]>> ELSE <<>>]
    OBVIOUS
  <2>2. o = FlattenSeq(seqs)
    BY <1>8, <2>1
  <2>3. \A k \in 1 .. n : seqs[k] = IF k \in W THEN <<value[k]>> ELSE <<>>
    BY <2>1
  <2>4. \A k \in 1 .. n : seqs[k] \in Seq(Messages)
    <3>1. TAKE k \in 1 .. n
    <3>2. <<value[k]>> \in Seq(Messages) /\ <<>> \in Seq(Messages)
      BY <1>9
    <3> QED BY <2>3, <3>2
  <2>5. seqs \in Seq(Seq(Messages)) /\ Len(seqs) = n
    <3>1. seqs = [k \in 1 .. n |-> seqs[k]]
      BY <2>1
    <3> QED BY <1>5, <2>4, <3>1, FunctionIsSeq
  <2> HIDE DEF o
  <2>9. Optional(seqs, W, value)
    BY <2>3, <2>5 DEF Optional
  <2>10. \A k \in 1 .. Len(seqs) : value[k] \in Messages
    BY <1>9, <2>5
  <2>11. seqs \in Seq(Seq(Messages))
    BY <2>5
  <2>12. Chosen(Messages, FlattenSeq(seqs), (1 .. Len(seqs)) \cap W, value)
    BY <2>9, <2>10, <2>11, FlattenSome
  <2>13. Chosen(Messages, o, (1 .. n) \cap W, value)
    BY <2>2, <2>5, <2>12
  <2> QED BY <2>13 DEF Chosen
<1> HIDE DEF o
<1>12. /\ o \in Seq(Messages) /\ Len(o) = Cardinality(W)
       /\ \A j \in DOMAIN o : \E k \in W : o[j] = ToolResult(s[a].calls[k])
       /\ \A k \in W : \E j \in DOMAIN o : o[j] = ToolResult(s[a].calls[k])
  BY <1>10, <1>11
<1>13. Fills(s, a, o)
  BY <1>12 DEF W, Fills
<1> QED BY <1>13 DEF o, t, i

LEMMA SyntheticTyped ==
    ASSUME NEW s \in Seq(Messages), NEW m
    PROVE  Synthetic(Append(s, m), Len(s) + 1) \in Seq(Messages)
<1>1. CASE m.role = "toolResult" \/ ~\E a \in DOMAIN s : OpenAt(s, a)
  <2>1. <<>> \in Seq(Messages)
    OBVIOUS
  <2> QED BY <1>1, <2>1, SyntheticNone
<1>2. CASE m.role # "toolResult" /\ \E a \in DOMAIN s : OpenAt(s, a)
  BY <1>2, SyntheticOpen DEF Fills
<1> QED BY <1>1, <1>2

(* What is inserted before a message depends on those before it.           *)
LEMMA SyntheticPrefix ==
    ASSUME NEW s, NEW t, NEW i \in Nat, \A k \in 1 .. i : s[k] = t[k], i >= 1
    PROVE  Synthetic(s, i) = Synthetic(t, i)
<1>1. PendingAnswer(s, i) = PendingAnswer(t, i)
  <2>1. ASSUME NEW j \in 1 .. i - 1
        PROVE  (IsAnswer(s[j]) /\ ~Incomplete(s[j]) /\ \A k \in j + 1 .. i - 1 : s[k].role = "toolResult")
               <=> (IsAnswer(t[j]) /\ ~Incomplete(t[j]) /\ \A k \in j + 1 .. i - 1 : t[k].role = "toolResult")
    <3>1. s[j] = t[j] /\ \A k \in j + 1 .. i - 1 : s[k] = t[k]
      OBVIOUS
    <3> QED BY <3>1
  <2> QED BY <2>1 DEF PendingAnswer
<1>2. s[i] = t[i]
  OBVIOUS
<1>3. CASE s[i].role = "toolResult" \/ PendingAnswer(s, i) = {}
  BY <1>1, <1>2, <1>3 DEF Synthetic
<1>4. CASE s[i].role # "toolResult" /\ PendingAnswer(s, i) # {}
  <2> DEFINE b == CHOOSE j \in PendingAnswer(s, i) : TRUE
             F(u) == [k \in DOMAIN u[b].calls |->
            IF \A x \in b + 1 .. i - 1 : u[x].call # u[b].calls[k] THEN <<ToolResult(u[b].calls[k])>> ELSE <<>>]
  <2>1. b \in 1 .. i - 1
    BY <1>4 DEF PendingAnswer
  <2>2. Synthetic(s, i) = FlattenSeq(F(s))
    BY <1>4 DEF Synthetic
  <2>3. Synthetic(t, i) = FlattenSeq(F(t))
    BY <1>1, <1>2, <1>4 DEF Synthetic
  <2>4. s[b] = t[b] /\ \A x \in b + 1 .. i - 1 : s[x] = t[x]
    <3> HIDE DEF b
    <3> QED BY <2>1
  <2>5. F(s) = F(t)
    <3> HIDE DEF b
    <3>1. \A k \in DOMAIN s[b].calls : (\A x \in b + 1 .. i - 1 : s[x].call # s[b].calls[k])
                               <=> (\A x \in b + 1 .. i - 1 : t[x].call # t[b].calls[k])
      BY <2>4
    <3> QED BY <2>4, <3>1
  <2> HIDE DEF F
  <2> QED BY <2>2, <2>3, <2>5
<1> QED BY <1>3, <1>4

(* A message more: what is inserted before it, and itself.                 *)
Block(s, i) == Synthetic(s, i) \o Replayed(s[i])

LEMMA BlockTyped ==
    ASSUME NEW s \in Seq(Messages), NEW m \in Messages
    PROVE  Synthetic(Append(s, m), Len(s) + 1) \o Replayed(m) \in Seq(Messages)
<1>1. Replayed(m) \in Seq(Messages)
  BY DEF Replayed
<1> QED BY <1>1, SyntheticTyped

LEMMA BlocksTyped ==
    ASSUME NEW s \in Seq(Messages)
    PROVE  /\ [i \in DOMAIN s |-> Block(s, i)] \in Seq(Seq(Messages))
           /\ Len([i \in DOMAIN s |-> Block(s, i)]) = Len(s)
<1> DEFINE f == [i \in DOMAIN s |-> Block(s, i)]
<1>1. ASSUME NEW i \in 1 .. Len(s) PROVE f[i] \in Seq(Messages)
  <2> DEFINE r == SubSeq(s, 1, i - 1)
  <2>1. /\ r \in Seq(Messages) /\ Len(r) = i - 1 /\ s[i] \in Messages /\ i \in Nat
        /\ \A k \in 1 .. i - 1 : r[k] = s[k]
    OBVIOUS
  <2> HIDE DEF r
  <2>2. Append(r, s[i])[i] = s[i] /\ \A k \in 1 .. i : Append(r, s[i])[k] = s[k]
    BY <2>1
  <2>3. Len(r) + 1 = i
    BY <2>1
  <2>4. Synthetic(Append(r, s[i]), i) \o Replayed(s[i]) \in Seq(Messages)
    BY <2>1, <2>3, BlockTyped
  <2>5. Synthetic(Append(r, s[i]), i) = Synthetic(s, i)
    <3>1. PICK q : q = Append(r, s[i])
      OBVIOUS
    <3>2. \A k \in 1 .. i : q[k] = s[k]
      BY <2>2, <3>1
    <3>3. i \in Nat /\ i >= 1
      BY <2>1
    <3> QED BY <3>1, <3>2, <3>3, SyntheticPrefix
  <2> QED BY <2>4, <2>5 DEF Block
<1>2. f = [i \in 1 .. Len(s) |-> f[i]] /\ Len(s) \in Nat
  OBVIOUS
<1> HIDE DEF f
<1>3. f \in Seq(Seq(Messages)) /\ Len(f) = Len(s)
  BY <1>1, <1>2, FunctionIsSeq
<1> QED BY <1>3 DEF f

LEMMA TransformAppend ==
    ASSUME NEW c \in Seq(Messages), NEW m \in Messages, Numbered(c), Numbered(Append(c, m))
    PROVE  LET s == Normalized(c)
               e == Normalized(Append(c, m))[Len(c) + 1] IN
           /\ s \in Seq(Messages) /\ Len(s) = Len(c) /\ e \in Messages
           /\ Normalized(Append(c, m)) = Append(s, e)
           /\ transformMessages(c) \in Seq(Messages)
           /\ transformMessages(Append(c, m)) =
                transformMessages(c) \o (Synthetic(Append(s, e), Len(s) + 1) \o Replayed(e))
<1> DEFINE d == Append(c, m)
           s == Normalized(c)
           t == Normalized(d)
           e == t[Len(c) + 1]
           f == [i \in DOMAIN s |-> Block(s, i)]
           g == [i \in DOMAIN t |-> Block(t, i)]
           last == Synthetic(t, Len(s) + 1) \o Replayed(e)
<1>1. s \in Seq(Messages)
  BY NormalizedTyped
<1>2. d \in Seq(Messages)
  OBVIOUS
<1>3. t \in Seq(Messages)
  BY <1>2, NormalizedTyped
<1>4. Len(s) = Len(c) /\ t = Append(s, e) /\ Len(c) \in Nat
  BY NormalizedPrefix
<1> HIDE DEF s, t, d
<1>5. Len(t) = Len(s) + 1 /\ Len(s) \in Nat /\ e \in Messages /\ \A i \in 1 .. Len(s) : t[i] = s[i]
  BY <1>1, <1>3, <1>4
<1>6. f \in Seq(Seq(Messages)) /\ Len(f) = Len(s) /\ g \in Seq(Seq(Messages)) /\ Len(g) = Len(t)
  BY <1>1, <1>3, BlocksTyped
<1>7. \A i \in 1 .. Len(s) : g[i] = f[i]
  <2>1. TAKE i \in 1 .. Len(s)
  <2>2. Synthetic(t, i) = Synthetic(s, i)
    BY <1>5, SyntheticPrefix
  <2>3. g[i] = Block(t, i) /\ f[i] = Block(s, i)
    BY <1>1, <1>3, <1>5
  <2> QED BY <1>5, <2>2, <2>3 DEF Block
<1>8. g[Len(s) + 1] = last
  <2>1. Len(s) + 1 \in DOMAIN t
    BY <1>3, <1>5
  <2> QED BY <1>4, <2>1 DEF Block
<1>9. last \in Seq(Messages)
  BY <1>1, <1>4, <1>5, BlockTyped
<1>10. transformMessages(c) = FlattenSeq(f) /\ transformMessages(d) = FlattenSeq(g)
  BY DEF transformMessages, Block, s, t
<1> HIDE DEF f, g, last
<1>11. g = Append(f, last)
  BY <1>5, <1>6, <1>7, <1>8, <1>9
<1>12. FlattenSeq(g) = FlattenSeq(f) \o last
  BY <1>6, <1>9, <1>11, FlattenAppend
<1>13. FlattenSeq(f) \in Seq(Messages)
  BY <1>6, FlattenTyped
<1>14. transformMessages(d) = transformMessages(c) \o (Synthetic(Append(s, e), Len(s) + 1) \o Replayed(e))
  BY <1>4, <1>10, <1>12 DEF last
<1> QED BY <1>1, <1>4, <1>5, <1>10, <1>13, <1>14 DEF s, t, d
---------------------------------------------------------------------------
(* A sequence after another.                                               *)
LEMMA Joined ==
    ASSUME NEW S, NEW s \in Seq(S), NEW t \in Seq(S)
    PROVE  /\ s \o t \in Seq(S) /\ Len(s \o t) = Len(s) + Len(t) /\ Len(s) \in Nat /\ Len(t) \in Nat
           /\ DOMAIN (s \o t) = 1 .. Len(s) + Len(t) /\ DOMAIN s = 1 .. Len(s) /\ DOMAIN t = 1 .. Len(t)
           /\ \A i \in 1 .. Len(s) : (s \o t)[i] = s[i]
           /\ \A i \in 1 .. Len(t) : (s \o t)[Len(s) + i] = t[i]
           /\ \A i \in Len(s) + 1 .. Len(s) + Len(t) : i - Len(s) \in 1 .. Len(t) /\ (s \o t)[i] = t[i - Len(s)]
<1>1. /\ s \o t \in Seq(S) /\ Len(s \o t) = Len(s) + Len(t) /\ Len(s) \in Nat /\ Len(t) \in Nat
      /\ DOMAIN (s \o t) = 1 .. Len(s) + Len(t) /\ DOMAIN s = 1 .. Len(s) /\ DOMAIN t = 1 .. Len(t)
  OBVIOUS
<1>2. \A i \in 1 .. Len(s) : (s \o t)[i] = s[i]
  BY <1>1
<1>3. \A i \in Len(s) + 1 .. Len(s) + Len(t) : i - Len(s) \in 1 .. Len(t) /\ (s \o t)[i] = t[i - Len(s)]
  BY <1>1
<1>4. ASSUME NEW i \in 1 .. Len(t) PROVE (s \o t)[Len(s) + i] = t[i]
  <2>1. Len(s) + i \in Len(s) + 1 .. Len(s) + Len(t) /\ (Len(s) + i) - Len(s) = i
    BY <1>1
  <2> QED BY <1>3, <2>1
<1> QED BY <1>1, <1>2, <1>3, <1>4

(* The results of answer i follow it at once.                              *)
AnswerIn(o, i) ==
    LET n == Len(o[i].calls) IN
    i + n <= Len(o) /\ {o[k].call : k \in i + 1 .. i + n} = ToSet(o[i].calls)

LEMMA AnswerStays ==
    ASSUME NEW o \in Seq(Messages), NEW more \in Seq(Messages), NEW i \in DOMAIN o, AnswerIn(o, i)
    PROVE  AnswerIn(o \o more, i)
<1> DEFINE p == o \o more
           n == Len(o[i].calls)
<1>1. Len(p) = Len(o) + Len(more) /\ Len(o) \in Nat /\ Len(more) \in Nat /\ \A k \in 1 .. Len(o) : p[k] = o[k]
  BY Joined
<1>2. o[i] \in Messages /\ i \in 1 .. Len(o)
  OBVIOUS
<1>3. n \in Nat
  BY <1>2 DEF Messages
<1>4. i + n <= Len(o) /\ {o[k].call : k \in i + 1 .. i + n} = ToSet(o[i].calls)
  BY DEF AnswerIn
<1>5. p[i] = o[i] /\ i + n <= Len(p) /\ \A k \in i + 1 .. i + n : p[k] = o[k]
  BY <1>1, <1>2, <1>3, <1>4
<1>6. {p[k].call : k \in i + 1 .. i + n} = {o[k].call : k \in i + 1 .. i + n}
  BY <1>5
<1> HIDE DEF p
<1>7. AnswerIn(p, i)
  BY <1>4, <1>5, <1>6 DEF AnswerIn
<1> QED BY <1>7 DEF p

---------------------------------------------------------------------------
(* A conversation: a call that may still get its result is of the last     *)
(* answer; the results behind an open answer are of its calls, and with    *)
(* the calls that may still get one there is one for each.                 *)
Wanting(c, u, a) == {k \in 1 .. Len(c[a].calls) : <<a, k, "long">> \in u}

LastCalls(c, u) ==
    \A id \in u : \E a \in DOMAIN c :
        /\ Complete(c[a]) /\ \E k \in 1 .. Len(c[a].calls) : id = <<a, k, "long">>
        /\ \A i \in a + 1 .. Len(c) : ~IsAnswer(c[i])

Counted(c, u) ==
    \A a \in DOMAIN c : OpenAt(c, a) =>
        /\ \A x \in a + 1 .. Len(c) : \E k \in 1 .. Len(c[a].calls) : c[x].call = <<a, k, "long">>
        /\ Unmet(c, a) = Wanting(c, u, a)
        /\ Cardinality(Wanting(c, u, a)) + (Len(c) - a) = Len(c[a].calls)

Held(c, u) == c \in Seq(Messages) /\ Numbered(c) /\ LastCalls(c, u) /\ Counted(c, u)

(* What is sent of it: the answers have their results, but the open one,   *)
(* which is sent at the end with the results behind it.                    *)
Sent(c) ==
    LET o == transformMessages(c)
        shift == Len(o) - Len(c)
    IN  /\ o \in Seq(Messages)
        /\ \A i \in DOMAIN o : IsAnswer(o[i]) =>
            AnswerIn(o, i) \/ \E a \in DOMAIN c : OpenAt(c, a) /\ i = shift + a
        /\ \A a \in DOMAIN c : OpenAt(c, a) =>
            \A k \in a .. Len(c) : shift + k \in DOMAIN o /\ o[shift + k] = Normalized(c)[k]
        /\ InPlace(c) => NoOthers(o)

LEMMA OpenNormalized ==
    ASSUME NEW c \in Seq(Messages), Numbered(c), NEW a \in DOMAIN c
    PROVE  OpenAt(Normalized(c), a) <=> OpenAt(c, a)
<1> DEFINE s == Normalized(c)
<1>1. DOMAIN s = DOMAIN c /\ Len(s) = Len(c) /\ DOMAIN c = 1 .. Len(c) /\ Len(c) \in Nat
  <2>1. DOMAIN s = DOMAIN c /\ s \in Seq(Messages)
    BY NormalizedTyped DEF Normalized
  <2> QED BY <2>1
<1>2. \A i \in DOMAIN c : s[i].role = c[i].role /\ s[i].stop = c[i].stop
  BY NormalizedTyped
<1> HIDE DEF s
<1>3. \A k \in a + 1 .. Len(c) : k \in DOMAIN c
  BY <1>1
<1>4. OpenAt(s, a) <=> OpenAt(c, a)
  BY <1>1, <1>2, <1>3 DEF OpenAt, Complete, IsAnswer, Incomplete
<1> QED BY <1>4 DEF s

LEMMA UnmetNormalized ==
    ASSUME NEW c, NEW u, Held(c, u), NEW a \in DOMAIN c, OpenAt(c, a)
    PROVE  /\ Unmet(Normalized(c), a) = Unmet(c, a)
           /\ Len(Normalized(c)[a].calls) = Len(c[a].calls)
           /\ \A x \in a + 1 .. Len(c) : \E k \in 1 .. Len(c[a].calls) :
                Normalized(c)[x].call = Normalized(c)[a].calls[k]
<1> DEFINE s == Normalized(c)
           n == Len(c[a].calls)
<1>1. c \in Seq(Messages) /\ Numbered(c) /\ Counted(c, u)
  BY DEF Held
<1>2. Len(c) \in Nat /\ DOMAIN c = 1 .. Len(c) /\ a \in 1 .. Len(c) /\ c[a] \in Messages
  BY <1>1
<1>3. IsAnswer(c[a]) /\ \A x \in a + 1 .. Len(c) : c[x].role = "toolResult"
  BY DEF OpenAt, Complete
<1>4. c[a].calls \in Seq(CallIds) /\ DOMAIN c[a].calls = 1 .. n /\ n \in Nat
  BY <1>2 DEF Messages
<1>5. Len(s[a].calls) = n /\ \A k \in 1 .. n : s[a].calls[k] = <<a, k, Form(c[a])>>
  BY <1>1, <1>3, <1>4, NormalizedTyped
<1>6. Len(s) = Len(c)
  BY <1>1, <1>2 DEF Normalized
<1>7. \A k \in 1 .. n : c[a].calls[k] = <<a, k, "long">>
  BY <1>1, <1>3, <1>4 DEF Numbered
<1>8. ASSUME NEW x \in a + 1 .. Len(c)
      PROVE  \E k \in 1 .. n : c[x].call = <<a, k, "long">> /\ s[x].call = <<a, k, Form(c[a])>>
  <2>1. PICK k \in 1 .. n : c[x].call = <<a, k, "long">>
    BY <1>1 DEF Counted
  <2>2. x \in DOMAIN c /\ a \in 1 .. x - 1 /\ c[x].role = "toolResult" /\ k \in DOMAIN c[a].calls
    BY <1>2, <1>3, <1>4
  <2>3. s[x].call = <<a, k, Form(c[a])>>
    BY <1>1, <1>3, <2>1, <2>2, NormalizedResult
  <2> QED BY <2>1, <2>3
<1> HIDE DEF s, n
<1>9. ASSUME NEW k \in 1 .. n, NEW x \in a + 1 .. Len(c)
      PROVE  s[x].call # s[a].calls[k] <=> c[x].call # c[a].calls[k]
  <2>1. PICK j \in 1 .. n : c[x].call = <<a, j, "long">> /\ s[x].call = <<a, j, Form(c[a])>>
    BY <1>8
  <2>2. s[a].calls[k] = <<a, k, Form(c[a])>> /\ c[a].calls[k] = <<a, k, "long">>
    BY <1>5, <1>7
  <2> QED BY <2>1, <2>2
<1>10. Unmet(s, a) = Unmet(c, a)
  BY <1>5, <1>6, <1>9 DEF Unmet, n
<1>11. \A x \in a + 1 .. Len(c) : \E k \in 1 .. n : s[x].call = s[a].calls[k]
  BY <1>5, <1>8
<1> QED BY <1>5, <1>10, <1>11 DEF s, n

(* When the missing results of the open answer are inserted, every answer  *)
(* has its results.                                                        *)
AllAnswered(c, o) ==
    /\ \A i \in DOMAIN o : IsAnswer(o[i]) => AnswerIn(o, i)
    /\ InPlace(c) => NoOthers(o)

LEMMA ClosedOpen ==
    ASSUME NEW c, NEW u, Held(c, u), Sent(c), NEW a \in DOMAIN c, OpenAt(c, a),
           NEW syn, Fills(Normalized(c), a, syn)
    PROVE  AllAnswered(c, transformMessages(c) \o syn)
<1> DEFINE r == transformMessages(c)
           s == Normalized(c)
           o == r \o syn
           p == Len(r) - Len(c) + a
           m == Len(c) - a
           n == Len(c[a].calls)
<1>1. c \in Seq(Messages) /\ Numbered(c) /\ Counted(c, u)
  BY DEF Held
<1>2. Len(c) \in Nat /\ DOMAIN c = 1 .. Len(c) /\ a \in 1 .. Len(c) /\ c[a] \in Messages
  BY <1>1
<1>3. IsAnswer(c[a]) /\ \A x \in a + 1 .. Len(c) : c[x].role = "toolResult"
  BY DEF OpenAt, Complete
<1>4. c[a].calls \in Seq(CallIds) /\ DOMAIN c[a].calls = 1 .. n /\ n \in Nat
  BY <1>2 DEF Messages
<1>5. s \in Seq(Messages) /\ DOMAIN s[a].calls = 1 .. n /\ IsAnswer(s[a])
  BY <1>1, <1>3, <1>4, NormalizedTyped DEF IsAnswer
<1>6. /\ r \in Seq(Messages)
      /\ \A i \in DOMAIN r : IsAnswer(r[i]) => AnswerIn(r, i) \/ \E b \in DOMAIN c : OpenAt(c, b) /\ i = Len(r) - Len(c) + b
      /\ \A k \in a .. Len(c) : Len(r) - Len(c) + k \in DOMAIN r /\ r[Len(r) - Len(c) + k] = s[k]
      /\ InPlace(c) => NoOthers(r)
  BY DEF Sent
<1>7. /\ Unmet(s, a) = Unmet(c, a) /\ Len(s[a].calls) = n
      /\ \A x \in a + 1 .. Len(c) : \E k \in 1 .. n : s[x].call = s[a].calls[k]
  BY UnmetNormalized
<1>8. Len(syn) + m = n
  BY <1>1, <1>7 DEF Counted, Fills
<1>9. /\ o \in Seq(Messages) /\ Len(o) = Len(r) + Len(syn) /\ Len(r) \in Nat /\ Len(syn) \in Nat
      /\ DOMAIN o = 1 .. Len(r) + Len(syn) /\ DOMAIN r = 1 .. Len(r) /\ DOMAIN syn = 1 .. Len(syn)
      /\ \A i \in 1 .. Len(r) : o[i] = r[i]
      /\ \A i \in 1 .. Len(syn) : o[Len(r) + i] = syn[i]
      /\ \A i \in Len(r) + 1 .. Len(r) + Len(syn) : i - Len(r) \in 1 .. Len(syn) /\ o[i] = syn[i - Len(r)]
  <2>1. syn \in Seq(Messages)
    BY DEF Fills
  <2> QED BY <1>6, <2>1, Joined
<1>20. /\ \A i \in 1 .. Len(syn) : ~IsAnswer(syn[i]) /\ \E k \in Unmet(s, a) : syn[i].call = s[a].calls[k]
       /\ \A k \in Unmet(s, a) : \E i \in 1 .. Len(syn) : syn[i].call = s[a].calls[k]
  <2>1. \A x : ToolResult(x).call = x /\ ~IsAnswer(ToolResult(x))
    BY DEF ToolResult, Message, IsAnswer
  <2>2. \A i \in DOMAIN syn : \E k \in Unmet(s, a) : syn[i] = ToolResult(s[a].calls[k])
    BY DEF Fills
  <2>3. \A k \in Unmet(s, a) : \E i \in DOMAIN syn : syn[i] = ToolResult(s[a].calls[k])
    BY DEF Fills
  <2>4. DOMAIN syn = 1 .. Len(syn)
    BY <1>9
  <2> HIDE DEF s, o, r, m, n, p
  <2>5. \A i \in 1 .. Len(syn) : ~IsAnswer(syn[i]) /\ \E k \in Unmet(s, a) : syn[i].call = s[a].calls[k]
    <3>1. TAKE i \in 1 .. Len(syn)
    <3>2. PICK k \in Unmet(s, a) : syn[i] = ToolResult(s[a].calls[k])
      BY <2>2, <2>4
    <3> QED BY <2>1, <3>2
  <2>6. \A k \in Unmet(s, a) : \E i \in 1 .. Len(syn) : syn[i].call = s[a].calls[k]
    <3>1. TAKE k \in Unmet(s, a)
    <3>2. PICK i \in DOMAIN syn : syn[i] = ToolResult(s[a].calls[k])
      BY <2>3
    <3> QED BY <2>1, <2>4, <3>2
  <2> QED BY <2>5, <2>6
<1>21. s[a] \in Messages /\ Len(s) = Len(c)
  <2>1. a \in DOMAIN s
    BY <1>2 DEF Normalized
  <2>2. Len(s) = Len(c)
    BY <1>1, <1>2 DEF Normalized
  <2> HIDE DEF s
  <2> QED BY <1>5, <2>1, <2>2
<1> HIDE DEF r, s, o
<1>10. m \in Nat /\ p = Len(r) - m /\ p \in 1 .. Len(r) /\ r[p] = s[a] /\ p + n = Len(o)
  <2>1. a \in a .. Len(c)
    BY <1>2
  <2>2. p \in DOMAIN r /\ r[p] = s[a]
    BY <1>6, <2>1
  <2> QED BY <1>2, <1>4, <1>8, <1>9, <2>2
<1> HIDE DEF p, m, n
<1>11. \A k \in 1 .. m : p + k \in 1 .. Len(r) /\ a + k \in a + 1 .. Len(c) /\ r[p + k] = s[a + k]
  <2>1. TAKE k \in 1 .. m
  <2>2. a + k \in a .. Len(c) /\ Len(r) - Len(c) + (a + k) = p + k /\ a + k \in a + 1 .. Len(c)
    BY <1>2, <1>9, <1>10 DEF m, p
  <2> QED BY <1>6, <1>9, <2>2
<1>13. o[p] = s[a] /\ ToSet(s[a].calls) = {s[a].calls[k] : k \in 1 .. n}
  BY <1>5, <1>9, <1>10 DEF ToSet
<1>14. ASSUME NEW i \in p + 1 .. p + n PROVE \E k \in 1 .. n : o[i].call = s[a].calls[k]
  <2>1. CASE i <= Len(r)
    <3>1. i - p \in 1 .. m /\ p + (i - p) = i /\ i \in 1 .. Len(r)
      <4>1. p \in Nat /\ n \in Nat /\ m \in Nat /\ Len(r) \in Nat /\ p >= 1 /\ p + m = Len(r)
        BY <1>4, <1>9, <1>10
      <4>2. i \in Int /\ i >= p + 1
        BY <4>1
      <4> QED BY <2>1, <4>1, <4>2
    <3>2. o[i] = s[a + (i - p)] /\ a + (i - p) \in a + 1 .. Len(c)
      BY <1>9, <1>11, <3>1
    <3> QED BY <1>7, <3>2
  <2>2. CASE i > Len(r)
    <3>1. i \in Len(r) + 1 .. Len(r) + Len(syn)
      BY <1>4, <1>9, <1>10, <2>2
    <3>2. PICK k \in Unmet(s, a) : o[i].call = s[a].calls[k]
      <4>1. i - Len(r) \in 1 .. Len(syn) /\ o[i] = syn[i - Len(r)]
        BY <1>9, <3>1
      <4> QED BY <1>20, <4>1
    <3>3. k \in 1 .. n
      BY <1>7 DEF Unmet
    <3> QED BY <3>2, <3>3
  <2> QED BY <1>4, <1>9, <1>10, <2>1, <2>2
<1>15. ASSUME NEW k \in 1 .. n PROVE \E i \in p + 1 .. p + n : o[i].call = s[a].calls[k]
  <2>1. CASE k \in Unmet(s, a)
    <3>1. PICK i \in 1 .. Len(syn) : syn[i].call = s[a].calls[k]
      BY <1>20, <2>1
    <3>2. o[Len(r) + i].call = s[a].calls[k] /\ Len(r) + i \in p + 1 .. p + n
      BY <1>9, <1>10, <3>1
    <3> QED BY <3>2
  <2>2. CASE k \notin Unmet(s, a)
    <3>1. PICK x \in a + 1 .. Len(c) : s[x].call = s[a].calls[k]
      BY <1>7, <1>21, <2>2 DEF Unmet
    <3>2. x - a \in 1 .. m /\ a + (x - a) = x
      BY <1>2, <3>1 DEF m
    <3>3. p + (x - a) \in 1 .. Len(r) /\ r[p + (x - a)] = s[x]
      BY <1>11, <3>2
    <3>4. o[p + (x - a)] = s[x] /\ p + (x - a) \in p + 1 .. p + n
      <4>1. o[p + (x - a)] = s[x]
        BY <1>9, <3>3
      <4>2. p \in Nat /\ n \in Nat /\ m \in Nat /\ m <= n
        BY <1>4, <1>8, <1>9, <1>10
      <4> QED BY <3>2, <4>1, <4>2
    <3> QED BY <3>1, <3>4
  <2> QED BY <2>1, <2>2
<1>16. AnswerIn(o, p)
  <2>1. {o[i].call : i \in p + 1 .. p + n} = {s[a].calls[k] : k \in 1 .. n}
    <3> HIDE DEF p, n
    <3> QED BY <1>14, <1>15
  <2>2. Len(o[p].calls) = n /\ p + n <= Len(o)
    BY <1>7, <1>9, <1>10, <1>13
  <2> QED BY <1>13, <2>1, <2>2 DEF AnswerIn
<1>17. ASSUME NEW i \in DOMAIN o, IsAnswer(o[i]) PROVE AnswerIn(o, i)
  <2>1. CASE i \in 1 .. Len(r)
    <3>1. o[i] = r[i] /\ i \in DOMAIN r
      BY <1>9, <2>1
    <3>2. CASE AnswerIn(r, i)
      BY <1>6, <3>1, <3>2, AnswerStays DEF o, Fills
    <3>3. CASE ~AnswerIn(r, i)
      <4>1. PICK b \in DOMAIN c : OpenAt(c, b) /\ i = Len(r) - Len(c) + b
        BY <1>6, <1>17, <3>1, <3>3
      <4>2. b = a
        BY <1>1, <4>1, OneOpen
      <4> QED BY <1>16, <4>1, <4>2 DEF p
    <3> QED BY <3>2, <3>3
  <2>2. CASE i \in Len(r) + 1 .. Len(r) + Len(syn)
    <3>1. ~IsAnswer(o[i])
      BY <1>9, <1>20, <2>2
    <3> QED BY <1>17, <3>1
  <2> QED BY <1>9, <2>1, <2>2
<1>18. ASSUME InPlace(c), NEW i \in DOMAIN o, o[i].role = "toolResult"
       PROVE  \E j \in 1 .. i - 1 : IsAnswer(o[j]) /\ i <= j + Len(o[j].calls)
  <2>1. CASE i \in 1 .. Len(r)
    <3>1. o[i] = r[i] /\ i \in DOMAIN r
      BY <1>9, <2>1
    <3>2. PICK j \in 1 .. i - 1 : IsAnswer(r[j]) /\ i <= j + Len(r[j].calls)
      BY <1>6, <1>18, <3>1 DEF NoOthers
    <3>3. j \in 1 .. Len(r)
      BY <1>9, <2>1
    <3>4. o[j] = r[j]
      BY <1>9, <3>3
    <3> QED BY <3>2, <3>4
  <2>2. CASE i \in Len(r) + 1 .. Len(r) + Len(syn)
    <3>1. p \in 1 .. i - 1 /\ i <= p + n
      BY <1>9, <1>10, <2>2
    <3> QED BY <1>5, <1>7, <1>13, <3>1
  <2> QED BY <1>9, <2>1, <2>2
<1>22. AllAnswered(c, o)
  BY <1>17, <1>18 DEF NoOthers, AllAnswered
<1> QED BY <1>22 DEF o, r
---------------------------------------------------------------------------
(* A message more.                                                         *)
LEMMA MoreFacts ==
    ASSUME NEW c \in Seq(Messages), NEW m \in Messages
    PROVE  /\ Append(c, m) \in Seq(Messages) /\ Len(Append(c, m)) = Len(c) + 1 /\ Len(c) \in Nat
           /\ DOMAIN c = 1 .. Len(c) /\ DOMAIN Append(c, m) = 1 .. Len(c) + 1
           /\ Append(c, m)[Len(c) + 1] = m /\ \A i \in 1 .. Len(c) : Append(c, m)[i] = c[i]
OBVIOUS

LEMMA InPlaceBefore ==
    ASSUME NEW c \in Seq(Messages), Numbered(c), NEW m \in Messages, InPlace(Append(c, m))
    PROVE  InPlace(c)
<1> DEFINE d == Append(c, m)
<1>1. DOMAIN c = 1 .. Len(c) /\ DOMAIN d = 1 .. Len(c) + 1 /\ Len(c) \in Nat /\ \A i \in 1 .. Len(c) : d[i] = c[i]
  BY MoreFacts
<1> HIDE DEF d
<1>2. ASSUME NEW i \in DOMAIN c, c[i].role = "toolResult", NEW k \in c[i].call[1] + 1 .. i - 1
      PROVE  c[k].role = "toolResult"
  <2>1. c[i] \in Messages /\ d[i] = c[i] /\ i \in DOMAIN d
    BY <1>1
  <2>2. d[k].role = "toolResult"
    BY <1>2, <2>1 DEF InPlace, d
  <2>3. CASE k \in 1 .. Len(c)
    BY <1>1, <2>2, <2>3
  <2>4. c[i].call[1] \in Nat
    BY <1>2 DEF Numbered
  <2>5. k \in 1 .. Len(c)
    BY <1>1, <2>4
  <2> QED BY <2>3, <2>5
<1> QED BY <1>2 DEF InPlace

LEMMA OpenMore ==
    ASSUME NEW c \in Seq(Messages), NEW m \in Messages
    PROVE  /\ m.role = "toolResult" =>
                \A a \in DOMAIN Append(c, m) : OpenAt(Append(c, m), a) <=> a \in DOMAIN c /\ OpenAt(c, a)
           /\ m.role # "toolResult" =>
                \A a \in DOMAIN Append(c, m) : OpenAt(Append(c, m), a) <=> a = Len(c) + 1 /\ Complete(m)
<1> DEFINE d == Append(c, m)
<1>1. /\ DOMAIN c = 1 .. Len(c) /\ DOMAIN d = 1 .. Len(c) + 1 /\ Len(d) = Len(c) + 1 /\ Len(c) \in Nat
      /\ d[Len(c) + 1] = m /\ \A i \in 1 .. Len(c) : d[i] = c[i]
  BY MoreFacts
<1> HIDE DEF d
<1>2. ASSUME NEW a \in 1 .. Len(c), m.role = "toolResult" PROVE OpenAt(d, a) <=> OpenAt(c, a)
  <2>1. \A k \in a + 1 .. Len(c) : d[k] = c[k] /\ k \in a + 1 .. Len(d)
    BY <1>1
  <2>2. \A k \in a + 1 .. Len(d) : k \in a + 1 .. Len(c) \/ d[k] = m
    BY <1>1
  <2>3. d[a] = c[a] /\ a \in DOMAIN c /\ a \in DOMAIN d
    BY <1>1
  <2> QED BY <1>2, <2>1, <2>2, <2>3 DEF OpenAt
<1>3. ASSUME NEW a \in 1 .. Len(c), m.role # "toolResult" PROVE ~OpenAt(d, a)
  <2>1. Len(c) + 1 \in a + 1 .. Len(d)
    BY <1>1
  <2> QED BY <1>1, <1>3, <2>1 DEF OpenAt
<1>4. m.role = "toolResult" => ~OpenAt(d, Len(c) + 1)
  BY <1>1 DEF OpenAt, Complete, IsAnswer
<1>5. OpenAt(d, Len(c) + 1) <=> Complete(m)
  <2>1. \A k \in (Len(c) + 1) + 1 .. Len(d) : FALSE
    BY <1>1
  <2>2. Len(c) + 1 \in DOMAIN d
    BY <1>1
  <2> QED BY <1>1, <2>1, <2>2 DEF OpenAt
<1>6. \A a \in DOMAIN d : a \in 1 .. Len(c) \/ a = Len(c) + 1
  BY <1>1
<1>7. Len(c) + 1 \notin 1 .. Len(c)
  BY <1>1
<1>8. m.role = "toolResult" => \A a \in DOMAIN d : OpenAt(d, a) <=> a \in DOMAIN c /\ OpenAt(c, a)
  BY <1>1, <1>2, <1>4, <1>6, <1>7
<1>9. m.role # "toolResult" => \A a \in DOMAIN d : OpenAt(d, a) <=> a = Len(c) + 1 /\ Complete(m)
  BY <1>3, <1>5, <1>6, <1>7
<1> QED BY <1>8, <1>9 DEF d

(* The open answer is the one whose calls may still get a result.          *)
LEMMA CallsOfOpen ==
    ASSUME NEW c \in Seq(Messages), NEW u, LastCalls(c, u), NEW id \in u, NEW a \in DOMAIN c, OpenAt(c, a)
    PROVE  \E k \in 1 .. Len(c[a].calls) : id = <<a, k, "long">>
<1>1. PICK b \in DOMAIN c : /\ Complete(c[b]) /\ \E k \in 1 .. Len(c[b].calls) : id = <<b, k, "long">>
                            /\ \A i \in b + 1 .. Len(c) : ~IsAnswer(c[i])
  BY DEF LastCalls
<1>2. DOMAIN c = 1 .. Len(c) /\ Len(c) \in Nat
  OBVIOUS
<1>3. ~(a < b)
  BY <1>1, <1>2 DEF OpenAt, Complete, IsAnswer
<1>4. ~(b < a)
  BY <1>1, <1>2 DEF OpenAt, Complete
<1>5. a = b
  BY <1>2, <1>3, <1>4
<1> QED BY <1>1, <1>5

(* A result comes: it is added to what is sent.                            *)
LEMMA SentResult ==
    ASSUME NEW c, NEW u, Held(c, u), Sent(c), NEW id \in u, NEW m \in Messages, m = ToolResult(id),
           Numbered(Append(c, m))
    PROVE  Sent(Append(c, m))
<1> DEFINE d == Append(c, m)
           o == transformMessages(c)
           s == Normalized(c)
           e == Normalized(d)[Len(c) + 1]
           p == transformMessages(d)
           shift == Len(o) - Len(c)
<1>1. c \in Seq(Messages) /\ Numbered(c) /\ Counted(c, u) /\ LastCalls(c, u)
  BY DEF Held
<1>2. /\ d \in Seq(Messages) /\ Len(d) = Len(c) + 1 /\ Len(c) \in Nat /\ DOMAIN c = 1 .. Len(c) /\ DOMAIN d = 1 .. Len(c) + 1
      /\ d[Len(c) + 1] = m /\ \A i \in 1 .. Len(c) : d[i] = c[i]
  BY <1>1, MoreFacts
<1>3. m.role = "toolResult" /\ m.call = id
  BY DEF ToolResult, Message
<1>4. /\ s \in Seq(Messages) /\ Len(s) = Len(c) /\ e \in Messages
      /\ Normalized(d) = Append(s, e)
      /\ o \in Seq(Messages)
      /\ p = o \o (Synthetic(Append(s, e), Len(s) + 1) \o Replayed(e))
  BY <1>1, TransformAppend
<1>5. e.role = "toolResult"
  <2>1. Len(c) + 1 \in DOMAIN d
    BY <1>2
  <2> QED BY <1>2, <1>3, <2>1, NormalizedTyped
<1>6. \A a \in DOMAIN c : OpenAt(c, a) => \A k \in a .. Len(c) : shift + k \in DOMAIN o /\ o[shift + k] = s[k]
  BY DEF Sent
<1>7. \A i \in DOMAIN o : IsAnswer(o[i]) => AnswerIn(o, i) \/ \E a \in DOMAIN c : OpenAt(c, a) /\ i = shift + a
  BY DEF Sent
<1>8. InPlace(c) => NoOthers(o)
  BY DEF Sent
<1>9. \A a \in DOMAIN d : OpenAt(d, a) <=> a \in DOMAIN c /\ OpenAt(c, a)
  BY <1>1, <1>3, OpenMore
<1>10. InPlace(d) => InPlace(c)
  BY <1>1, InPlaceBefore
<1> HIDE DEF d, s, o, p, e
<1>11. p = o \o <<e>>
  <2>1. Synthetic(Append(s, e), Len(s) + 1) = <<>>
    BY <1>4, <1>5, SyntheticNone
  <2>2. Replayed(e) = <<e>>
    BY <1>5 DEF Replayed, IsAnswer
  <2>3. <<>> \o <<e>> = <<e>>
    OBVIOUS
  <2> QED BY <1>4, <2>1, <2>2, <2>3
<1>12. /\ p \in Seq(Messages) /\ Len(p) = Len(o) + 1 /\ Len(o) \in Nat /\ DOMAIN p = 1 .. Len(o) + 1
       /\ DOMAIN o = 1 .. Len(o) /\ p[Len(o) + 1] = e /\ \A i \in 1 .. Len(o) : p[i] = o[i]
  <2>1. o \in Seq(Messages) /\ e \in Messages
    BY <1>4
  <2> QED BY <1>11, <2>1, OneMore
<1>13. shift = Len(p) - Len(d) /\ shift + (Len(c) + 1) = Len(o) + 1
  BY <1>2, <1>12
<1>14. ASSUME NEW i \in DOMAIN p, IsAnswer(p[i])
       PROVE  AnswerIn(p, i) \/ \E a \in DOMAIN d : OpenAt(d, a) /\ i = shift + a
  <2>1. i \in DOMAIN o
    BY <1>5, <1>12, <1>14 DEF IsAnswer
  <2>2. CASE AnswerIn(o, i)
    <3>1. <<e>> \in Seq(Messages)
      BY <1>4
    <3> QED BY <1>4, <1>11, <2>1, <2>2, <3>1, AnswerStays
  <2>3. CASE ~AnswerIn(o, i)
    <3>1. p[i] = o[i]
      BY <1>12, <2>1
    <3>2. PICK a \in DOMAIN c : OpenAt(c, a) /\ i = shift + a
      BY <1>7, <1>14, <2>1, <2>3, <3>1
    <3>3. a \in DOMAIN d
      BY <1>2
    <3> HIDE DEF shift
    <3> QED BY <1>9, <3>2, <3>3
  <2> QED BY <2>2, <2>3
<1>15. ASSUME NEW a \in DOMAIN d, OpenAt(d, a), NEW k \in a .. Len(d)
       PROVE  shift + k \in DOMAIN p /\ p[shift + k] = Normalized(d)[k]
  <2>1. a \in DOMAIN c /\ OpenAt(c, a)
    BY <1>9, <1>15
  <2>2. CASE k \in a .. Len(c)
    <3>1. shift + k \in DOMAIN o /\ o[shift + k] = s[k]
      BY <1>6, <2>1, <2>2
    <3>2. k \in 1 .. Len(s)
      BY <1>2, <1>4, <2>1, <2>2
    <3>3. Normalized(d)[k] = s[k]
      BY <1>4, <3>2
    <3> HIDE DEF shift
    <3> QED BY <1>12, <3>1, <3>3
  <2>3. CASE k = Len(c) + 1
    <3>1. Normalized(d)[k] = e
      BY <2>3 DEF e
    <3> HIDE DEF shift
    <3> QED BY <1>12, <1>13, <2>3, <3>1
  <2> QED BY <1>2, <2>1, <2>2, <2>3
<1>16. ASSUME InPlace(d), NEW i \in DOMAIN p, p[i].role = "toolResult"
       PROVE  \E j \in 1 .. i - 1 : IsAnswer(p[j]) /\ i <= j + Len(p[j].calls)
  <2>1. CASE i \in 1 .. Len(o)
    <3>1. PICK j \in 1 .. i - 1 : IsAnswer(o[j]) /\ i <= j + Len(o[j].calls)
      BY <1>8, <1>10, <1>12, <1>16, <2>1 DEF NoOthers
    <3>2. p[j] = o[j]
      BY <1>12, <2>1
    <3> QED BY <3>1, <3>2
  <2>2. CASE i = Len(o) + 1
    <3>1. PICK a \in DOMAIN c : /\ Complete(c[a]) /\ \E k \in 1 .. Len(c[a].calls) : id = <<a, k, "long">>
                                /\ \A x \in a + 1 .. Len(c) : ~IsAnswer(c[x])
      BY <1>1 DEF LastCalls
    <3>2. PICK k \in 1 .. Len(c[a].calls) : id = <<a, k, "long">>
      BY <3>1
    <3>3. m.call[1] = a
      BY <1>3, <3>2
    <3>4. \A x \in a + 1 .. Len(c) : c[x].role = "toolResult"
      <4>1. TAKE x \in a + 1 .. Len(c)
      <4>2. Len(c) + 1 \in DOMAIN d /\ x \in a + 1 .. (Len(c) + 1) - 1 /\ x \in 1 .. Len(c)
        BY <1>2
      <4>3. d[x].role = "toolResult"
        BY <1>2, <1>3, <1>16, <3>3, <4>2 DEF InPlace
      <4> QED BY <1>2, <4>2, <4>3
    <3>5. OpenAt(c, a)
      BY <3>1, <3>4 DEF OpenAt
    <3>6. Cardinality(Wanting(c, u, a)) + (Len(c) - a) = Len(c[a].calls)
      BY <1>1, <3>5 DEF Counted
    <3>7. IsFiniteSet(Wanting(c, u, a)) /\ k \in Wanting(c, u, a)
      <4>1. c[a] \in Messages
        BY <1>1
      <4>2. c[a].calls \in Seq(CallIds)
        BY <4>1 DEF Messages
      <4>3. Len(c[a].calls) \in Nat
        BY <4>2
      <4>4. IsFiniteSet(1 .. Len(c[a].calls))
        BY <4>3, FS_Interval
      <4>5. Wanting(c, u, a) \subseteq 1 .. Len(c[a].calls)
        BY DEF Wanting
      <4> QED BY <3>2, <4>4, <4>5, FS_Subset DEF Wanting
    <3>8. Cardinality(Wanting(c, u, a)) \in Nat /\ Cardinality(Wanting(c, u, a)) # 0
      BY <3>7, FS_CardinalityType, FS_EmptySet
    <3>9. a \in a .. Len(c)
      BY <1>2
    <3>10. shift + a \in DOMAIN o /\ o[shift + a] = s[a]
      BY <1>6, <3>5, <3>9
    <3>11. IsAnswer(s[a]) /\ Len(s[a].calls) = Len(c[a].calls)
      BY <1>1, <3>1, NormalizedTyped DEF Complete, IsAnswer, s
    <3>12. Len(o) + 1 <= (shift + a) + Len(c[a].calls)
      BY <1>2, <1>12, <3>6, <3>8
    <3>13. PICK j \in 1 .. Len(o) : j = shift + a
      BY <1>12, <3>10
    <3> HIDE DEF shift
    <3>14. IsAnswer(p[j]) /\ i <= j + Len(p[j].calls) /\ j \in 1 .. i - 1
      BY <1>12, <2>2, <3>10, <3>11, <3>12, <3>13
    <3> QED BY <3>14
  <2> QED BY <1>12, <2>1, <2>2
<1>17. Len(p) - Len(d) = shift
  BY <1>13
<1> HIDE DEF shift
<1>18. \A i \in DOMAIN p : IsAnswer(p[i]) =>
            AnswerIn(p, i) \/ \E a \in DOMAIN d : OpenAt(d, a) /\ i = shift + a
  BY <1>14
<1>19. \A a \in DOMAIN d : OpenAt(d, a) => \A k \in a .. Len(d) : shift + k \in DOMAIN p /\ p[shift + k] = Normalized(d)[k]
  BY <1>15
<1>20. InPlace(d) => NoOthers(p)
  BY <1>16 DEF NoOthers
<1>21. Sent(d)
  BY <1>12, <1>17, <1>18, <1>19, <1>20 DEF Sent, p
<1> QED BY <1>21 DEF d

(* Any other message: the missing results come before it.                  *)
LEMMA SentOther ==
    ASSUME NEW c, NEW u, Held(c, u), Sent(c), NEW m \in Messages, m.role # "toolResult", Numbered(Append(c, m))
    PROVE  Sent(Append(c, m))
<1> DEFINE d == Append(c, m)
           o == transformMessages(c)
           s == Normalized(c)
           e == Normalized(d)[Len(c) + 1]
           p == transformMessages(d)
           syn == Synthetic(Append(s, e), Len(s) + 1)
           r == o \o syn
           shift == Len(p) - Len(d)
<1>1. c \in Seq(Messages) /\ Numbered(c)
  BY DEF Held
<1>2. /\ d \in Seq(Messages) /\ Len(d) = Len(c) + 1 /\ Len(c) \in Nat /\ DOMAIN c = 1 .. Len(c) /\ DOMAIN d = 1 .. Len(c) + 1
      /\ d[Len(c) + 1] = m /\ \A i \in 1 .. Len(c) : d[i] = c[i]
  BY <1>1, MoreFacts
<1>4. /\ s \in Seq(Messages) /\ Len(s) = Len(c) /\ e \in Messages
      /\ Normalized(d) = Append(s, e)
      /\ o \in Seq(Messages)
      /\ p = o \o (syn \o Replayed(e))
  BY <1>1, TransformAppend
<1>5. e.role = m.role /\ e.stop = m.stop
  <2>1. Len(c) + 1 \in DOMAIN d
    BY <1>2
  <2>2. Numbered(d)
    OBVIOUS
  <2> HIDE DEF d
  <2>3. \A i \in DOMAIN d : Normalized(d)[i].role = d[i].role /\ Normalized(d)[i].stop = d[i].stop
    BY <1>2, <2>2, NormalizedTyped
  <2> QED BY <1>2, <2>1, <2>3
<1>6. \A a \in DOMAIN d : OpenAt(d, a) <=> a = Len(c) + 1 /\ Complete(m)
  BY <1>1, OpenMore
<1>7. InPlace(d) => InPlace(c)
  BY <1>1, InPlaceBefore
<1>8. syn \in Seq(Messages)
  BY <1>4, SyntheticTyped
<1>9. /\ \A i \in DOMAIN r : IsAnswer(r[i]) => AnswerIn(r, i)
      /\ InPlace(c) => NoOthers(r)
  <2>1. CASE \E a \in DOMAIN c : OpenAt(c, a)
    <3>1. PICK a \in DOMAIN c : OpenAt(c, a)
      BY <2>1
    <3>2. OpenAt(s, a) /\ a \in DOMAIN s
      BY <1>1, <1>2, <1>4, <3>1, OpenNormalized
    <3>3. e.role # "toolResult"
      BY <1>5
    <3> HIDE DEF s, e
    <3>4. Fills(s, a, syn)
      BY <1>4, <3>2, <3>3, SyntheticOpen
    <3> HIDE DEF syn
    <3>5. AllAnswered(c, r)
      BY <3>1, <3>4, ClosedOpen DEF s
    <3> QED BY <3>5 DEF AllAnswered
  <2>2. CASE ~\E a \in DOMAIN c : OpenAt(c, a)
    <3>1. ASSUME NEW a \in DOMAIN s, OpenAt(s, a) PROVE FALSE
      <4>1. a \in DOMAIN c
        BY <1>2, <1>4
      <4>2. OpenAt(c, a)
        BY <1>1, <3>1, <4>1, OpenNormalized
      <4> QED BY <2>2, <4>1, <4>2
    <3>2. syn = <<>>
      BY <1>4, <3>1, SyntheticNone
    <3>3. r = o
      BY <1>4, <3>2
    <3> HIDE DEF r
    <3> QED BY <2>2, <3>3 DEF Sent
  <2> QED BY <2>1, <2>2
<1> HIDE DEF d, s, o, p, e, syn
<1>10. r \in Seq(Messages) /\ DOMAIN r = 1 .. Len(r) /\ Len(r) \in Nat
  BY <1>4, <1>8
<1>11. Replayed(e) = IF IsAnswer(m) /\ Incomplete(m) THEN <<>> ELSE <<e>>
  BY <1>5 DEF Replayed, IsAnswer, Incomplete
<1>12. Replayed(e) \in Seq(Messages) /\ p = r \o Replayed(e)
  <2>1. Replayed(e) \in Seq(Messages)
    BY <1>4, <1>11
  <2> QED BY <1>4, <1>8, <2>1
<1> HIDE DEF r
<1>13. CASE IsAnswer(m) /\ Incomplete(m)
  <2>1. p = r
    BY <1>10, <1>11, <1>12, <1>13
  <2>2. \A a \in DOMAIN d : ~OpenAt(d, a)
    BY <1>6, <1>13 DEF Complete
  <2>3. Sent(d)
    BY <1>7, <1>9, <1>10, <2>1, <2>2 DEF Sent, p
  <2> QED BY <2>3 DEF d
<1>14. CASE ~(IsAnswer(m) /\ Incomplete(m))
  <2>1. p = r \o <<e>>
    BY <1>11, <1>12, <1>14
  <2>2. /\ p \in Seq(Messages) /\ Len(p) = Len(r) + 1 /\ DOMAIN p = 1 .. Len(r) + 1
        /\ p[Len(r) + 1] = e /\ \A i \in 1 .. Len(r) : p[i] = r[i]
    BY <1>4, <1>10, <2>1, OneMore
  <2>3. shift + (Len(c) + 1) = Len(r) + 1
    BY <1>2, <1>10, <2>2
  <2>4. IsAnswer(m) => Complete(m)
    BY <1>14 DEF Complete
  <2>5. ASSUME NEW i \in DOMAIN p, IsAnswer(p[i])
        PROVE  AnswerIn(p, i) \/ \E a \in DOMAIN d : OpenAt(d, a) /\ i = shift + a
    <3>1. CASE i \in 1 .. Len(r)
      <4>1. p[i] = r[i] /\ i \in DOMAIN r
        BY <1>10, <2>2, <3>1
      <4>2. AnswerIn(r, i)
        BY <1>9, <2>5, <4>1
      <4>3. <<e>> \in Seq(Messages)
        BY <1>4
      <4> QED BY <1>10, <2>1, <4>1, <4>2, <4>3, AnswerStays
    <3>2. CASE i = Len(r) + 1
      <4>1. Complete(m)
        BY <1>5, <2>2, <2>4, <2>5, <3>2 DEF IsAnswer
      <4>2. Len(c) + 1 \in DOMAIN d
        BY <1>2
      <4>3. OpenAt(d, Len(c) + 1)
        BY <1>6, <4>1, <4>2
      <4> QED BY <2>3, <3>2, <4>2, <4>3
    <3> QED BY <2>2, <3>1, <3>2
  <2>6. ASSUME NEW a \in DOMAIN d, OpenAt(d, a), NEW k \in a .. Len(d)
        PROVE  shift + k \in DOMAIN p /\ p[shift + k] = Normalized(d)[k]
    <3>1. a = Len(c) + 1
      BY <1>6, <2>6
    <3>2. k = Len(c) + 1
      BY <1>2, <3>1
    <3>3. Normalized(d)[k] = e
      BY <3>2 DEF e
    <3> HIDE DEF shift
    <3>4. shift + k = Len(r) + 1
      BY <2>3, <3>2
    <3>5. Len(r) + 1 \in DOMAIN p
      BY <1>10, <2>2
    <3> QED BY <2>2, <3>3, <3>4, <3>5
  <2>7. ASSUME InPlace(d), NEW i \in DOMAIN p, p[i].role = "toolResult"
        PROVE  \E j \in 1 .. i - 1 : IsAnswer(p[j]) /\ i <= j + Len(p[j].calls)
    <3>1. i \in 1 .. Len(r)
      BY <1>5, <2>2, <2>7
    <3>2. PICK j \in 1 .. i - 1 : IsAnswer(r[j]) /\ i <= j + Len(r[j].calls)
      BY <1>7, <1>9, <1>10, <2>2, <2>7, <3>1 DEF NoOthers
    <3>3. p[j] = r[j]
      BY <1>10, <2>2, <3>1
    <3> QED BY <3>2, <3>3
  <2>8. InPlace(d) => NoOthers(p)
    BY <2>7 DEF NoOthers
  <2>9. \A i \in DOMAIN p : IsAnswer(p[i]) =>
            AnswerIn(p, i) \/ \E a \in DOMAIN d : OpenAt(d, a) /\ i = shift + a
    BY <2>5
  <2>10. \A a \in DOMAIN d : OpenAt(d, a) => \A k \in a .. Len(d) : shift + k \in DOMAIN p /\ p[shift + k] = Normalized(d)[k]
    BY <2>6
  <2>11. Sent(d)
    BY <2>2, <2>8, <2>9, <2>10 DEF Sent, p
  <2> QED BY <2>11 DEF d
<1> QED BY <1>13, <1>14
---------------------------------------------------------------------------
(* A conversation stays one.                                               *)
LEMMA NumberedMore ==
    ASSUME NEW c \in Seq(Messages), Numbered(c), NEW m \in Messages,
           IsAnswer(m) => \A k \in DOMAIN m.calls : m.calls[k] = <<Len(c) + 1, k, "long">>,
           m.role = "toolResult" => m.call[1] \in Nat
    PROVE  Numbered(Append(c, m))
<1> DEFINE d == Append(c, m)
<1>1. /\ DOMAIN c = 1 .. Len(c) /\ DOMAIN d = 1 .. Len(c) + 1 /\ Len(c) \in Nat
      /\ d[Len(c) + 1] = m /\ \A i \in 1 .. Len(c) : d[i] = c[i]
  BY MoreFacts
<1> HIDE DEF d
<1>2. ASSUME NEW i \in DOMAIN d
      PROVE  /\ IsAnswer(d[i]) => \A k \in DOMAIN d[i].calls : d[i].calls[k] = <<i, k, "long">>
             /\ d[i].role = "toolResult" => d[i].call[1] \in Nat
  <2>1. CASE i \in 1 .. Len(c)
    <3>1. d[i] = c[i] /\ i \in DOMAIN c
      BY <1>1, <2>1
    <3> QED BY <3>1 DEF Numbered
  <2>2. CASE i = Len(c) + 1
    <3>1. d[i] = m
      BY <1>1, <2>2
    <3> QED BY <2>2, <3>1
  <2> QED BY <1>1, <2>1, <2>2
<1>3. Numbered(d)
  BY <1>2 DEF Numbered
<1> QED BY <1>3 DEF d

LEMMA HeldResult ==
    ASSUME NEW c, NEW u, Held(c, u), NEW id \in u, NEW m \in Messages, m = ToolResult(id)
    PROVE  Held(Append(c, m), u \ {id})
<1> DEFINE d == Append(c, m)
           v == u \ {id}
<1>1. c \in Seq(Messages) /\ Numbered(c) /\ Counted(c, u) /\ LastCalls(c, u)
  BY DEF Held
<1>2. /\ d \in Seq(Messages) /\ Len(d) = Len(c) + 1 /\ Len(c) \in Nat /\ DOMAIN c = 1 .. Len(c) /\ DOMAIN d = 1 .. Len(c) + 1
      /\ d[Len(c) + 1] = m /\ \A i \in 1 .. Len(c) : d[i] = c[i]
  BY <1>1, MoreFacts
<1>3. m.role = "toolResult" /\ m.call = id
  BY DEF ToolResult, Message
<1>4. ~IsAnswer(m)
  BY <1>3 DEF IsAnswer
<1>5. id[1] \in Nat
  <2>1. PICK b \in DOMAIN c : \E k \in 1 .. Len(c[b].calls) : id = <<b, k, "long">>
    BY <1>1 DEF LastCalls
  <2> QED BY <1>2, <2>1
<1>6. Numbered(d)
  BY <1>1, <1>3, <1>4, <1>5, NumberedMore
<1>7. \A a \in DOMAIN d : OpenAt(d, a) <=> a \in DOMAIN c /\ OpenAt(c, a)
  BY <1>1, <1>3, OpenMore
<1> HIDE DEF d
<1>8. ASSUME NEW other \in v
      PROVE  \E a \in DOMAIN d : /\ Complete(d[a]) /\ \E k \in 1 .. Len(d[a].calls) : other = <<a, k, "long">>
                                 /\ \A i \in a + 1 .. Len(d) : ~IsAnswer(d[i])
  <2>1. PICK a \in DOMAIN c : /\ Complete(c[a]) /\ \E k \in 1 .. Len(c[a].calls) : other = <<a, k, "long">>
                              /\ \A i \in a + 1 .. Len(c) : ~IsAnswer(c[i])
    BY <1>1 DEF LastCalls
  <2>2. d[a] = c[a] /\ a \in DOMAIN d
    BY <1>2
  <2>3. ASSUME NEW i \in a + 1 .. Len(d) PROVE ~IsAnswer(d[i])
    <3>1. CASE i = Len(c) + 1
      BY <1>2, <1>4, <3>1
    <3>2. CASE i # Len(c) + 1
      <4>1. i \in a + 1 .. Len(c) /\ i \in 1 .. Len(c)
        BY <1>2, <3>2
      <4> QED BY <1>2, <2>1, <4>1
    <3> QED BY <3>1, <3>2
  <2> QED BY <2>1, <2>2, <2>3
<1>9. ASSUME NEW a \in DOMAIN d, OpenAt(d, a)
      PROVE  /\ \A x \in a + 1 .. Len(d) : \E k \in 1 .. Len(d[a].calls) : d[x].call = <<a, k, "long">>
             /\ Unmet(d, a) = Wanting(d, v, a)
             /\ Cardinality(Wanting(d, v, a)) + (Len(d) - a) = Len(d[a].calls)
  <2> DEFINE n == Len(c[a].calls)
  <2>1. a \in DOMAIN c /\ OpenAt(c, a) /\ a \in 1 .. Len(c)
    BY <1>2, <1>7, <1>9
  <2>2. d[a] = c[a] /\ c[a] \in Messages
    BY <1>1, <1>2, <2>1
  <2>3. PICK k0 \in 1 .. n : id = <<a, k0, "long">>
    BY <1>1, <2>1, CallsOfOpen
  <2>4. /\ \A x \in a + 1 .. Len(c) : \E k \in 1 .. n : c[x].call = <<a, k, "long">>
        /\ Unmet(c, a) = Wanting(c, u, a)
        /\ Cardinality(Wanting(c, u, a)) + (Len(c) - a) = n
    BY <1>1, <2>1 DEF Counted
  <2>5. c[a].calls \in Seq(CallIds) /\ DOMAIN c[a].calls = 1 .. n /\ n \in Nat
    BY <2>2 DEF Messages
  <2>6. \A k \in 1 .. n : c[a].calls[k] = <<a, k, "long">>
    BY <1>1, <2>1, <2>5 DEF Numbered, OpenAt, Complete
  <2> HIDE DEF n
  <2>7. Len(d[a].calls) = n
    BY <2>2 DEF n
  <2>8. Wanting(d, v, a) = Wanting(c, u, a) \ {k0}
    <3>1. \A k \in 1 .. n : <<a, k, "long">> \in v <=> <<a, k, "long">> \in u /\ k # k0
      BY <2>3
    <3> QED BY <2>7, <3>1 DEF Wanting, n
  <2>9. ASSUME NEW x \in a + 1 .. Len(d) PROVE (x \in a + 1 .. Len(c) /\ d[x] = c[x]) \/ (x = Len(c) + 1 /\ d[x] = m)
    BY <1>2, <2>1
  <2>10. Unmet(d, a) = Unmet(c, a) \ {k0}
    <3>1. \A k \in 1 .. n : (\A x \in a + 1 .. Len(d) : d[x].call # d[a].calls[k])
                        <=> (\A x \in a + 1 .. Len(c) : c[x].call # c[a].calls[k]) /\ k # k0
      <4>1. TAKE k \in 1 .. n
      <4>2. m.call = c[a].calls[k] <=> k = k0
        BY <1>3, <2>3, <2>6
      <4>3. Len(c) + 1 \in a + 1 .. Len(d) /\ \A x \in a + 1 .. Len(c) : x \in a + 1 .. Len(d) /\ d[x] = c[x]
        BY <1>2, <2>1
      <4> QED BY <1>2, <2>2, <2>9, <4>2, <4>3
    <3> QED BY <2>7, <3>1 DEF Unmet, n
  <2>11. Cardinality(Wanting(c, u, a) \ {k0}) = Cardinality(Wanting(c, u, a)) - 1
         /\ Cardinality(Wanting(c, u, a)) \in Nat
    <3>1. IsFiniteSet(1 .. n)
      BY <2>5, FirstNumbers
    <3>2. Wanting(c, u, a) \subseteq 1 .. n
      BY DEF Wanting, n
    <3>3. IsFiniteSet(Wanting(c, u, a))
      BY <3>1, <3>2, FS_Subset
    <3>4. k0 \in Wanting(c, u, a)
      BY <2>3 DEF Wanting, n
    <3> QED BY <3>3, <3>4, FS_RemoveElement, FS_CardinalityType
  <2>12. Cardinality(Wanting(d, v, a)) + (Len(d) - a) = n
    <3>1. PICK w \in Nat : w = Cardinality(Wanting(c, u, a))
      BY <2>11
    <3>2. w + (Len(c) - a) = n /\ Cardinality(Wanting(d, v, a)) = w - 1
      BY <2>4, <2>8, <2>11, <3>1
    <3> HIDE DEF v
    <3> QED BY <1>2, <2>1, <3>2
  <2>13. ASSUME NEW x \in a + 1 .. Len(d) PROVE \E k \in 1 .. n : d[x].call = <<a, k, "long">>
    BY <1>3, <2>3, <2>4, <2>9
  <2> QED BY <2>4, <2>7, <2>8, <2>10, <2>12, <2>13
<1>10. Held(d, v)
  BY <1>2, <1>6, <1>8, <1>9 DEF Held, LastCalls, Counted
<1> QED BY <1>10 DEF d

(* Any other message that is not a complete answer.                        *)
LEMMA HeldOther ==
    ASSUME NEW c, NEW u, Held(c, u), NEW m \in Messages, m.role # "toolResult", ~Complete(m),
           IsAnswer(m) => \A k \in DOMAIN m.calls : m.calls[k] = <<Len(c) + 1, k, "long">>,
           NEW v, v = {} \/ (v = u /\ ~IsAnswer(m))
    PROVE  Held(Append(c, m), v)
<1> DEFINE d == Append(c, m)
<1>1. c \in Seq(Messages) /\ Numbered(c) /\ LastCalls(c, u)
  BY DEF Held
<1>2. /\ d \in Seq(Messages) /\ Len(d) = Len(c) + 1 /\ Len(c) \in Nat /\ DOMAIN c = 1 .. Len(c) /\ DOMAIN d = 1 .. Len(c) + 1
      /\ d[Len(c) + 1] = m /\ \A i \in 1 .. Len(c) : d[i] = c[i]
  BY <1>1, MoreFacts
<1>3. Numbered(d)
  BY <1>1, NumberedMore
<1>4. \A a \in DOMAIN d : ~OpenAt(d, a)
  BY <1>1, OpenMore
<1> HIDE DEF d
<1>5. ASSUME NEW id \in v
      PROVE  \E a \in DOMAIN d : /\ Complete(d[a]) /\ \E k \in 1 .. Len(d[a].calls) : id = <<a, k, "long">>
                                 /\ \A i \in a + 1 .. Len(d) : ~IsAnswer(d[i])
  <2>0. ~IsAnswer(m) /\ id \in u
    BY <1>5
  <2>1. PICK a \in DOMAIN c : /\ Complete(c[a]) /\ \E k \in 1 .. Len(c[a].calls) : id = <<a, k, "long">>
                              /\ \A i \in a + 1 .. Len(c) : ~IsAnswer(c[i])
    BY <1>1, <2>0 DEF LastCalls
  <2>2. d[a] = c[a] /\ a \in DOMAIN d
    BY <1>2
  <2>3. ASSUME NEW i \in a + 1 .. Len(d) PROVE ~IsAnswer(d[i])
    <3>1. CASE i = Len(c) + 1
      BY <1>2, <2>0, <3>1
    <3>2. CASE i # Len(c) + 1
      <4>1. i \in a + 1 .. Len(c) /\ i \in 1 .. Len(c)
        BY <1>2, <3>2
      <4> QED BY <1>2, <2>1, <4>1
    <3> QED BY <3>1, <3>2
  <2> QED BY <2>1, <2>2, <2>3
<1>6. Held(d, v)
  BY <1>2, <1>3, <1>4, <1>5 DEF Held, LastCalls, Counted
<1> QED BY <1>6 DEF d

(* A complete answer: all its calls may get a result.                      *)
LEMMA HeldAnswer ==
    ASSUME NEW c, NEW u, Held(c, u), NEW m \in Messages, Complete(m),
           \A k \in DOMAIN m.calls : m.calls[k] = <<Len(c) + 1, k, "long">>
    PROVE  Held(Append(c, m), ToSet(m.calls))
<1> DEFINE d == Append(c, m)
           v == ToSet(m.calls)
           n == Len(m.calls)
           a == Len(c) + 1
<1>1. c \in Seq(Messages) /\ Numbered(c) /\ m.role # "toolResult" /\ IsAnswer(m)
  BY DEF Held, Complete, IsAnswer
<1>2. /\ d \in Seq(Messages) /\ Len(d) = Len(c) + 1 /\ Len(c) \in Nat /\ DOMAIN c = 1 .. Len(c) /\ DOMAIN d = 1 .. Len(c) + 1
      /\ d[Len(c) + 1] = m /\ \A i \in 1 .. Len(c) : d[i] = c[i]
  BY <1>1, MoreFacts
<1>3. Numbered(d)
  BY <1>1, NumberedMore
<1>4. \A b \in DOMAIN d : OpenAt(d, b) <=> b = a
  BY <1>1, OpenMore
<1>5. m.calls \in Seq(CallIds) /\ DOMAIN m.calls = 1 .. n /\ n \in Nat
  BY DEF Messages
<1>6. \A id : id \in v <=> \E k \in 1 .. n : id = <<a, k, "long">>
  BY <1>5 DEF ToSet
<1> HIDE DEF d, v
<1>7. a \in DOMAIN d /\ d[a] = m /\ \A i \in a + 1 .. Len(d) : FALSE
  BY <1>2
<1>8. LastCalls(d, v)
  BY <1>6, <1>7 DEF LastCalls
<1>9. Wanting(d, v, a) = 1 .. n
  BY <1>6, <1>7 DEF Wanting
<1>10. Unmet(d, a) = 1 .. n
  BY <1>7 DEF Unmet
<1>11. Cardinality(1 .. n) = n
  BY <1>5, FirstNumbers
<1>12. Cardinality(Wanting(d, v, a)) + (Len(d) - a) = Len(d[a].calls)
  BY <1>2, <1>5, <1>7, <1>9, <1>11
<1> HIDE DEF a
<1>13. Counted(d, v)
  BY <1>4, <1>7, <1>9, <1>10, <1>12 DEF Counted
<1>14. Held(d, v)
  BY <1>2, <1>3, <1>8, <1>13 DEF Held
<1> QED BY <1>14 DEF d, v

---------------------------------------------------------------------------
(* The conversations there are, and what is sent of them.                  *)
TransformInv == Held(conversation, unanswered) /\ Sent(conversation)

LEMMA TransformInitInv == TransformInit => TransformInv
<1> SUFFICES ASSUME TransformInit PROVE TransformInv
  OBVIOUS
<1>1. conversation = <<>> /\ unanswered = {} /\ <<>> \in Seq(Messages) /\ DOMAIN <<>> = {} /\ Len(<<>>) = 0
  BY DEF TransformInit
<1>2. Held(conversation, unanswered)
  BY <1>1 DEF Held, Numbered, LastCalls, Counted
<1>3. transformMessages(conversation) = <<>>
  <2>1. Normalized(<<>>) = <<>>
    BY <1>1 DEF Normalized
  <2>2. transformMessages(<<>>) = FlattenSeq([i \in DOMAIN <<>> |-> Synthetic(<<>>, i) \o Replayed(<<>>[i])])
    BY <2>1 DEF transformMessages
  <2>3. [i \in DOMAIN <<>> |-> Synthetic(<<>>, i) \o Replayed(<<>>[i])] = <<>>
    BY <1>1
  <2>4. FlattenSeq(<<>>) = <<>>
    BY <1>1, FlattenEmpty
  <2> QED BY <1>1, <2>2, <2>3, <2>4
<1>4. Sent(conversation)
  BY <1>1, <1>3 DEF Sent, NoOthers
<1> QED BY <1>2, <1>4 DEF TransformInv

LEMMA TransformNextInv ==
    ASSUME TransformInv, [TransformNext]_transformVars
    PROVE  TransformInv'
<1> DEFINE c == conversation
           u == unanswered
<1>0. Held(c, u) /\ Sent(c) /\ c \in Seq(Messages)
  BY DEF TransformInv, Held
<1>1. ASSUME NEW m \in Messages, c' = Append(c, m), Held(c', u'), m.role # "toolResult" PROVE TransformInv'
  <2>1. Numbered(Append(c, m))
    BY <1>1 DEF Held
  <2>2. Sent(Append(c, m))
    BY <1>0, <1>1, <2>1, SentOther
  <2> QED BY <1>1, <2>2 DEF TransformInv
<1>2. UserMessage \in Messages /\ UserMessage.role = "user"
  BY MessageTyped DEF UserMessage, Message
<1>3. CASE UserSays
  <2>1. c' = Append(c, UserMessage) /\ u' = {}
    BY <1>3 DEF UserSays, Says
  <2>2. Held(Append(c, UserMessage), {})
    BY <1>0, <1>2, HeldOther DEF Complete, IsAnswer
  <2> QED BY <1>1, <1>2, <2>1, <2>2
<1>4. CASE ModelAnswers
  <2>1. PICK n \in 0 .. MaxAnswerCalls, foreign \in BOOLEAN, stop \in {"stop", "error", "aborted"} :
            LET calls == [k \in 1 .. n |-> <<Len(c) + 1, k, "long">>] IN
            /\ Says(Message("assistant", calls, NoTool, foreign, stop))
            /\ u' = IF stop = "stop" THEN ToSet(calls) ELSE {}
    BY <1>4 DEF ModelAnswers
  <2> DEFINE calls == [k \in 1 .. n |-> <<Len(c) + 1, k, "long">>]
             m == Message("assistant", calls, NoTool, foreign, stop)
  <2>2. calls \in Seq(CallIds) /\ DOMAIN calls = 1 .. n
    <3>1. n \in Nat /\ Len(c) + 1 \in Nat
      BY <1>0, TransformAssumption
    <3>2. \A k \in 1 .. n : calls[k] \in CallIds
      BY <3>1 DEF CallIds, Forms
    <3>3. calls = [k \in 1 .. n |-> calls[k]]
      OBVIOUS
    <3> HIDE DEF calls
    <3> QED BY <3>1, <3>2, <3>3, FunctionIsSeq
  <2>3. \A k \in 1 .. n : calls[k] = <<Len(c) + 1, k, "long">>
    OBVIOUS
  <2>4. c' = Append(c, m) /\ u' = IF stop = "stop" THEN ToSet(calls) ELSE {}
    BY <2>1 DEF Says
  <2> HIDE DEF calls
  <2>5. m \in Messages /\ m.calls = calls /\ m.role = "assistant" /\ m.stop = stop
    BY <2>2, MessageTyped DEF Message
  <2> HIDE DEF m
  <2>6. IsAnswer(m) /\ m.role # "toolResult" /\ \A k \in DOMAIN m.calls : m.calls[k] = <<Len(c) + 1, k, "long">>
    BY <2>2, <2>3, <2>5 DEF IsAnswer
  <2>7. CASE stop = "stop"
    <3>1. Complete(m)
      BY <2>5, <2>6, <2>7 DEF Complete, Incomplete
    <3>2. Held(Append(c, m), ToSet(m.calls))
      BY <1>0, <2>5, <2>6, <3>1, HeldAnswer
    <3> QED BY <1>1, <2>4, <2>5, <2>6, <2>7, <3>2
  <2>8. CASE stop # "stop"
    <3>1. ~Complete(m)
      BY <2>5, <2>8 DEF Complete, Incomplete
    <3>2. Held(Append(c, m), {})
      BY <1>0, <2>5, <2>6, <3>1, HeldOther
    <3> QED BY <1>1, <2>4, <2>5, <2>6, <2>8, <3>2
  <2> QED BY <2>7, <2>8
<1>5. CASE ToolReturns
  <2>1. PICK id \in u : c' = Append(c, ToolResult(id)) /\ u' = u \ {id}
    BY <1>5 DEF ToolReturns, Says
  <2>2. id \in CallIds
    <3>1. PICK a \in DOMAIN c : \E k \in 1 .. Len(c[a].calls) : id = <<a, k, "long">>
      BY <1>0 DEF Held, LastCalls
    <3>2. a \in Nat /\ c[a] \in Messages
      BY <1>0
    <3>3. c[a].calls \in Seq(CallIds)
      BY <3>2 DEF Messages
    <3>4. PICK k \in 1 .. Len(c[a].calls) : id = <<a, k, "long">>
      BY <3>1
    <3>5. k \in Nat
      BY <3>3
    <3> QED BY <3>2, <3>4, <3>5 DEF CallIds, Forms
  <2>3. PICK m \in Messages : m = ToolResult(id)
    BY <2>2, MessageTyped
  <2>4. Held(Append(c, m), u \ {id})
    BY <1>0, <2>3, HeldResult
  <2>5. Sent(Append(c, m))
    BY <1>0, <2>3, <2>4, SentResult DEF Held
  <2> QED BY <2>1, <2>3, <2>4, <2>5 DEF TransformInv
<1>6. CASE RunFails
  <2> DEFINE m == Message("assistant", <<>>, NoTool, FALSE, "error")
  <2>1. c' = Append(c, m) /\ u' = {}
    BY <1>6 DEF RunFails, Says
  <2>2. m \in Messages
    <3>1. <<>> \in Seq(CallIds)
      OBVIOUS
    <3> QED BY <3>1, MessageTyped
  <2>3. m.role = "assistant" /\ ~Complete(m) /\ DOMAIN m.calls = {}
    BY DEF Message, Complete, Incomplete
  <2> HIDE DEF m
  <2>4. Held(Append(c, m), {})
    BY <1>0, <2>2, <2>3, HeldOther
  <2> QED BY <1>1, <2>1, <2>2, <2>3, <2>4
<1>7. CASE BashInterrupts
  <2>1. c' = Append(c, UserMessage) /\ u' = u
    BY <1>7 DEF BashInterrupts, Says
  <2>2. Held(Append(c, UserMessage), u)
    BY <1>0, <1>2, HeldOther DEF Complete, IsAnswer
  <2> QED BY <1>1, <1>2, <2>1, <2>2
<1>8. CASE UNCHANGED transformVars
  BY <1>8 DEF transformVars, TransformInv
<1> QED BY <1>3, <1>4, <1>5, <1>6, <1>7, <1>8 DEF TransformNext

(* When every call of the open answer has its result nothing is missing.   *)
LEMMA TransformComplete ==
    ASSUME ~Resumed, TransformInv
    PROVE  RequestsComplete
<1> DEFINE c == conversation
           u == unanswered
           o == transformMessages(c)
<1> SUFFICES ASSUME Askable PROVE AnsweredInPlace(o) /\ (InPlace(c) => NoOthers(o))
  BY DEF RequestsComplete
<1>1. u = {}
  BY DEF Askable
<1>2. Held(c, u) /\ Sent(c) /\ o \in Seq(Messages)
  BY DEF TransformInv, Sent
<1>3. AllAnswered(c, o)
  <2>1. CASE \E a \in DOMAIN c : OpenAt(c, a)
    <3>1. PICK a \in DOMAIN c : OpenAt(c, a)
      BY <2>1
    <3>2. Wanting(c, u, a) = {}
      BY <1>1 DEF Wanting
    <3>3. Unmet(Normalized(c), a) = {}
      <4>1. Unmet(c, a) = Wanting(c, u, a)
        BY <1>2, <3>1 DEF Held, Counted
      <4> QED BY <1>2, <3>1, <3>2, <4>1, UnmetNormalized
    <3>4. Fills(Normalized(c), a, <<>>)
      <4>1. <<>> \in Seq(Messages) /\ Len(<<>>) = 0 /\ DOMAIN <<>> = {} /\ Cardinality({}) = 0
        BY FS_EmptySet
      <4> QED BY <3>3, <4>1 DEF Fills
    <3>5. AllAnswered(c, transformMessages(c) \o <<>>)
      BY <1>2, <3>1, <3>4, ClosedOpen
    <3>6. transformMessages(c) \o <<>> = o
      BY <1>2
    <3> QED BY <3>5, <3>6
  <2>2. CASE ~\E a \in DOMAIN c : OpenAt(c, a)
    BY <1>2, <2>2 DEF Sent, AllAnswered
  <2> QED BY <2>1, <2>2
<1>4. AnsweredInPlace(o)
  BY <1>3 DEF AllAnswered, AnswerIn, AnsweredInPlace
<1> QED BY <1>3, <1>4 DEF AllAnswered

(* "Insert synthetic empty tool results for orphaned tool calls": whenever *)
(* the model is asked, the results of an answer's calls follow it at once, *)
(* one for each, and there are no others unless something came between a   *)
(* call and its result: for conversations of any length and any number of  *)
(* calls, when the model is asked only after the results.                  *)
THEOREM RequestsCompleteHolds ==
    ASSUME ~Resumed
    PROVE  TransformSpec => []RequestsComplete
<1>1. TransformInit => TransformInv
  BY TransformInitInv
<1>2. TransformInv /\ [TransformNext]_transformVars => TransformInv'
  BY TransformNextInv
<1>3. TransformInv => RequestsComplete
  BY TransformComplete
<1> QED BY <1>1, <1>2, <1>3, PTL DEF TransformSpec
================================================================================
