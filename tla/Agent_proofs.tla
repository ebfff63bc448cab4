---------------------------- MODULE Agent_proofs ----------------------------
(***************************************************************************)
(* Proofs about the agent for every number of messages, turns and tool     *)
(* calls, both execution modes, and listeners that may throw.              *)
(*                                                                         *)
(* IdleIsClean is not inductive: a run that ends may not leave a call it   *)
(* still waits for, so the invariant (AgentInv) adds that only a loop that *)
(* awaits its calls has running ones, each of them among those it still    *)
(* has to await, and that a loop is idle exactly when no run is active.    *)
(***************************************************************************)
EXTENDS Agent, SequenceTheorems, TLAPS

RunHasLoop == activeRun <=> loop.pc # "idle"

IdleState == isStreaming = FALSE /\ streamingMessage = None /\ pendingToolCalls = {}

IdleCleared == loop.pc = "idle" => IdleState /\ loop = IdleLoop

RunningAwaited ==
    /\ loop.pc # "await" => running = {}
    /\ \A c \in running : \E i \in 1 .. Len(loop.runnable) : loop.runnable[i] = c

(* In sequential mode a call is awaited before the next one is prepared.   *)
AwaitsOne ==
    ToolExecution = "sequential" =>
        /\ Len(loop.runnable) <= 1
        /\ loop.pc # "await" => loop.runnable = <<>>

ResponseHasId ==
    loop.pc \in {"responded", "tool", "prepare", "await"} => loop.assistant.id \in CallIds

AgentInv ==
    TypeOK /\ RunHasLoop /\ IdleCleared /\ RunningAwaited /\ AwaitsOne /\ ResponseHasId
----------------------------------------------------------------------------
(* The messages, events and calls the loop makes up are well typed.        *)
LEMMA MessagesTyped ==
    /\ NoMessage \in Messages
    /\ FailureMessage \in Messages
    /\ \A u \in UserMsgs : User(u) \in Messages
    /\ \A c \in CallIds : ToolResult(c) \in Messages /\ ToolResult(c).id = c
    /\ \A t, n \in Nat, stop \in StopReasons :
         Assistant(t, n, stop) \in Messages /\ Assistant(t, n, stop).id \in CallIds
BY DEF NoMessage, FailureMessage, User, ToolResult, Assistant, Messages, StopReasons, CallIds

(* An event made of a known type and a message is well typed.              *)
LEMMA EventTyped ==
    ASSUME NEW t \in EventTypes, NEW m \in Messages,
           t = "tool_execution_start" => m.id \in CallIds
    PROVE  Event(t, m) \in Events
BY DEF Event, Events

(* Announcing a message yields its message_start and message_end.          *)
LEMMA AnnounceTyped ==
    ASSUME NEW m \in Messages
    PROVE  Announce(m) \in Seq(Events)
BY EventTyped DEF Announce, EventTypes

(* The events of a finished call are well typed.                           *)
LEMMA OutcomeTyped ==
    ASSUME NEW c \in CallIds
    PROVE  Outcome(c) \in Seq(Events)
<1>1. ToolResult(c) \in Messages
  BY MessagesTyped
<1>2. Event("tool_execution_end", ToolResult(c)) \in Events
  BY <1>1, EventTyped DEF EventTypes
<1> QED BY <1>1, <1>2, AnnounceTyped DEF Outcome

(* Announcing several messages one after the other yields events.          *)
LEMMA AnnounceAllTyped ==
    ASSUME NEW ms \in Seq(Messages)
    PROVE  AnnounceAll(ms) \in Seq(Events)
<1>1. \A i \in 1 .. 2 * Len(ms) : (i + 1) \div 2 \in 1 .. Len(ms)
  OBVIOUS
<1>2. \A i \in 1 .. 2 * Len(ms) : AnnounceAll(ms)[i] \in Events
  <2> TAKE i \in 1 .. 2 * Len(ms)
  <2>1. ms[(i + 1) \div 2] \in Messages
    BY <1>1
  <2>2. AnnounceAll(ms)[i] = Event(IF i % 2 = 1 THEN "message_start" ELSE "message_end", ms[(i + 1) \div 2])
    BY DEF AnnounceAll
  <2> QED BY <2>1, <2>2, EventTyped DEF EventTypes
<1>3. AnnounceAll(ms) = [i \in 1 .. 2 * Len(ms) |-> AnnounceAll(ms)[i]]
  BY DEF AnnounceAll
<1>4. 2 * Len(ms) \in Nat
  OBVIOUS
<1> QED BY <1>2, <1>3, <1>4

(* The history of what was sent keeps its type as it grows.                *)
LEMMA SentTyped ==
    ASSUME HistoryTypeOK, NEW m \in Messages
    PROVE  /\ [sent EXCEPT !.prompt = Append(@, m)]
                \in [prompt : Seq(Messages), steer : Seq(Messages), followUp : Seq(Messages)]
           /\ [sent EXCEPT !.steer = Append(@, m)]
                \in [prompt : Seq(Messages), steer : Seq(Messages), followUp : Seq(Messages)]
           /\ [sent EXCEPT !.followUp = Append(@, m)]
                \in [prompt : Seq(Messages), steer : Seq(Messages), followUp : Seq(Messages)]
<1>1. /\ Append(sent.prompt, m) \in Seq(Messages)
      /\ Append(sent.steer, m) \in Seq(Messages)
      /\ Append(sent.followUp, m) \in Seq(Messages)
  BY DEF HistoryTypeOK
<1> QED BY <1>1 DEF HistoryTypeOK

(* Draining a queue splits it into two sequences of messages.              *)
LEMMA QueueTyped ==
    ASSUME NEW q \in Seq(Messages)
    PROVE  Drained(q) \in Seq(Messages) /\ Kept(q) \in Seq(Messages)
BY DEF Drained, Kept

(* The locals of no loop are well typed.                                   *)
LEMMA IdleLoopTyped == IdleLoop \in Loops /\ IdleLoop.pc = "idle" /\ IdleLoop.runnable = <<>>
BY MessagesTyped DEF IdleLoop, PCs, Loops

(* A jump to an await changes where the loop is and what it emits, nothing else. *)
LEMMA GotoTyped ==
    ASSUME LoopTypeOK, NEW at \in PCs, NEW todo \in Seq(Events)
    PROVE  /\ Goto(at, todo) \in Loops
           /\ Goto(at, todo).pc = at
           /\ Goto(at, todo).context = loop.context
           /\ Goto(at, todo).assistant = loop.assistant
           /\ Goto(at, todo).next = loop.next
           /\ Goto(at, todo).runnable = loop.runnable
           /\ Goto(at, todo).results = loop.results
BY DEF Goto, LoopTypeOK, Loops

(* The sequences of one event and of none are sequences of events.         *)
LEMMA EventsTyped ==
    ASSUME NEW t \in EventTypes, NEW m \in Messages,
           t = "tool_execution_start" => m.id \in CallIds
    PROVE  <<Event(t, m)>> \in Seq(Events) /\ <<>> \in Seq(Events)
BY EventTyped

(* A queue that holds one element is empty without it.                     *)
LEMMA TailOfOne ==
    ASSUME NEW S, NEW s \in Seq(S), s # <<>>, Len(s) <= 1
    PROVE  Tail(s) = <<>> /\ Len(Tail(s)) = 0
<1>1. Len(s) # 0 /\ Len(s) \in Nat
  BY EmptySeq
<1>2. Tail(s) \in Seq(S) /\ Len(Tail(s)) = Len(s) - 1
  BY HeadTailProperties
<1>3. Len(Tail(s)) = 0
  BY <1>1, <1>2
<1> QED BY <1>2, <1>3, EmptySeq

(* The next call of a response is one of its calls.                        *)
LEMMA NextCallTyped ==
    ASSUME LoopTypeOK, loop.assistant.id \in CallIds
    PROVE  NextCall \in CallIds
BY DEF LoopTypeOK, Loops, NextCall, CallIds
----------------------------------------------------------------------------
(* The invariant holds initially.                                          *)
LEMMA InitInv == Init => AgentInv
<1> SUFFICES ASSUME Init PROVE AgentInv
  OBVIOUS
<1>e. <<>> \in Seq(Messages)
  OBVIOUS
<1>0. StateTypeOK
  <2>1. messages \in Seq(Messages) /\ streamingMessage = None /\ pendingToolCalls = {}
    BY <1>e DEF Init
  <2>2. isStreaming \in BOOLEAN /\ errorMessage \in BOOLEAN
    BY DEF Init
  <2> QED BY <2>1, <2>2 DEF StateTypeOK
<1>1. InboxTypeOK /\ RunTypeOK /\ ToolTypeOK
  <2>1. InboxTypeOK /\ ToolTypeOK
    BY <1>e DEF Init, InboxTypeOK, ToolTypeOK
  <2>2. RunTypeOK
    BY DEF Init, RunTypeOK
  <2> QED BY <2>1, <2>2
<1>4. HistoryTypeOK
  <2>1. sent \in [prompt : Seq(Messages), steer : Seq(Messages), followUp : Seq(Messages)]
    BY <1>e DEF Init
  <2>2. turns \in Nat /\ base \in Nat
    BY DEF Init
  <2>3. ended \in BOOLEAN /\ late \in BOOLEAN
    BY DEF Init
  <2> QED BY <2>1, <2>2, <2>3 DEF HistoryTypeOK
<1>2. LoopTypeOK
  BY IdleLoopTyped DEF Init, LoopTypeOK
<1>3. RunHasLoop /\ IdleCleared /\ RunningAwaited /\ AwaitsOne /\ ResponseHasId
  BY IdleLoopTyped DEF Init, RunHasLoop, IdleCleared, IdleState, RunningAwaited, AwaitsOne, ResponseHasId
<1> QED BY <1>0, <1>1, <1>2, <1>3, <1>4 DEF AgentInv, TypeOK

(* Starting a run, by prompt() or continue(), keeps the invariant.         *)
LEMMA StartRunInv ==
    ASSUME AgentInv, NEW prompts \in Seq(Messages), NEW skip \in BOOLEAN, StartRun(prompts, skip),
           InboxTypeOK',
           sent' \in [prompt : Seq(Messages), steer : Seq(Messages), followUp : Seq(Messages)]
    PROVE  AgentInv'
<1> USE DEF AgentInv, TypeOK
<1>1. Event("agent_start", NoMessage) \in Events /\ Event("turn_start", NoMessage) \in Events
  BY EventTyped, MessagesTyped DEF EventTypes
<1>2. <<Event("agent_start", NoMessage), Event("turn_start", NoMessage)>> \o AnnounceAll(prompts)
         \in Seq(Events)
  BY <1>1, AnnounceAllTyped
<1>3. messages \o prompts \in Seq(Messages)
  BY DEF StateTypeOK
<1>4. LoopTypeOK'
  BY <1>2, <1>3, IdleLoopTyped DEF StartRun, PCs, Loops, LoopTypeOK
<1>5. StateTypeOK'
  BY DEF StateTypeOK, StartRun
<1>6. RunTypeOK' /\ ToolTypeOK'
  BY DEF RunTypeOK, ToolTypeOK, StartRun, toolVars
<1>7. HistoryTypeOK'
  <2>1. base' \in Nat /\ turns' \in Nat
    BY DEF HistoryTypeOK, StateTypeOK, StartRun
  <2>2. ended' \in BOOLEAN /\ late' \in BOOLEAN
    BY DEF HistoryTypeOK, StartRun
  <2> QED BY <2>1, <2>2 DEF HistoryTypeOK
<1>8. loop'.pc \in {"firstTurn", "initialPoll"} /\ loop'.runnable = IdleLoop.runnable
  BY IdleLoopTyped DEF StartRun, Loops
<1>9. RunHasLoop' /\ IdleCleared' /\ ResponseHasId' /\ AwaitsOne'
  BY <1>8, IdleLoopTyped DEF RunHasLoop, IdleCleared, ResponseHasId, AwaitsOne, StartRun
<1>10. running' = {}
  BY DEF StartRun, toolVars, RunHasLoop, RunningAwaited
<1>11. RunningAwaited'
  BY <1>10 DEF RunningAwaited
<1> QED BY <1>4, <1>5, <1>6, <1>7, <1>9, <1>11

(* Every call of the public interface keeps the invariant.                 *)
LEMMA InterfaceInv ==
    ASSUME AgentInv, Interface
    PROVE  AgentInv'
<1> USE DEF AgentInv, TypeOK
<1>1. ASSUME NEW u \in UserMsgs, Prompt(u)
      PROVE  AgentInv'
  <2>1. <<User(u)>> \in Seq(Messages)
    BY MessagesTyped
  <2>2. sent' \in [prompt : Seq(Messages), steer : Seq(Messages), followUp : Seq(Messages)]
    BY <1>1, SentTyped, MessagesTyped DEF Prompt
  <2>3. InboxTypeOK' /\ StartRun(<<User(u)>>, FALSE)
    BY <1>1 DEF Prompt, InboxTypeOK, inboxVars
  <2> QED BY <2>1, <2>2, <2>3, StartRunInv
<1>2. ASSUME NEW u \in UserMsgs, Steer(u) \/ FollowUp(u)
      PROVE  AgentInv'
  <2>1. UNCHANGED <<stateVars, runVars, loop, toolVars, turns, base, ended, late>>
    BY <1>2 DEF Steer, FollowUp
  <2>2. sent' \in [prompt : Seq(Messages), steer : Seq(Messages), followUp : Seq(Messages)]
    BY <1>2, SentTyped, MessagesTyped DEF Steer, FollowUp
  <2>3. InboxTypeOK'
    <3>1. User(u) \in Messages
      BY MessagesTyped
    <3>2. Append(steeringQueue, User(u)) \in Seq(Messages) /\ Append(followUpQueue, User(u)) \in Seq(Messages)
      BY <3>1 DEF InboxTypeOK
    <3> QED BY <1>2, <3>2 DEF Steer, FollowUp, InboxTypeOK
  <2>4. StateTypeOK' /\ RunTypeOK' /\ LoopTypeOK' /\ ToolTypeOK'
    BY <2>1 DEF StateTypeOK, RunTypeOK, LoopTypeOK, ToolTypeOK, stateVars, runVars, toolVars
  <2>5. HistoryTypeOK'
    BY <2>1, <2>2 DEF HistoryTypeOK
  <2>6. RunHasLoop' /\ IdleCleared' /\ RunningAwaited' /\ AwaitsOne' /\ ResponseHasId'
    BY <2>1 DEF RunHasLoop, IdleCleared, IdleState, RunningAwaited, AwaitsOne, ResponseHasId, stateVars, runVars, toolVars
  <2> QED BY <2>3, <2>4, <2>5, <2>6
<1>3. CASE Continue
  <2>1. /\ Drained(steeringQueue) \in Seq(Messages) /\ Kept(steeringQueue) \in Seq(Messages)
        /\ Drained(followUpQueue) \in Seq(Messages) /\ Kept(followUpQueue) \in Seq(Messages)
        /\ <<>> \in Seq(Messages)
    BY QueueTyped DEF InboxTypeOK
  <2>2. InboxTypeOK'
    BY <1>3, <2>1 DEF Continue, InboxTypeOK, inboxVars
  <2>3. sent' \in [prompt : Seq(Messages), steer : Seq(Messages), followUp : Seq(Messages)]
    BY <1>3 DEF Continue, HistoryTypeOK
  <2>4. \/ StartRun(<<>>, FALSE)
        \/ StartRun(Drained(steeringQueue), TRUE)
        \/ StartRun(Drained(followUpQueue), FALSE)
    BY <1>3 DEF Continue
  <2> QED BY <2>1, <2>2, <2>3, <2>4, StartRunInv
<1>4. CASE Abort \/ ClearAllQueues
  <2>1. UNCHANGED <<stateVars, activeRun, loop, toolVars, histVars>>
    BY <1>4 DEF Abort, ClearAllQueues, runVars
  <2>2. InboxTypeOK'
    <3>1. <<>> \in Seq(Messages)
      OBVIOUS
    <3> QED BY <1>4, <3>1 DEF Abort, ClearAllQueues, InboxTypeOK, inboxVars
  <2>3. RunTypeOK'
    BY <1>4 DEF Abort, ClearAllQueues, RunTypeOK, runVars
  <2>4. StateTypeOK' /\ LoopTypeOK' /\ ToolTypeOK' /\ HistoryTypeOK'
    BY <2>1 DEF StateTypeOK, LoopTypeOK, ToolTypeOK, HistoryTypeOK, stateVars, toolVars, histVars
  <2>5. RunHasLoop' /\ IdleCleared' /\ RunningAwaited' /\ AwaitsOne' /\ ResponseHasId'
    BY <2>1 DEF RunHasLoop, IdleCleared, IdleState, RunningAwaited, AwaitsOne, ResponseHasId, stateVars, toolVars
  <2> QED BY <2>2, <2>3, <2>4, <2>5
<1>5. CASE Reset
  <2>1. StateTypeOK'
    <3>1. messages' \in Seq(Messages)
      BY <1>5 DEF Reset
    <3>2. isStreaming' \in BOOLEAN /\ errorMessage' \in BOOLEAN
      BY <1>5 DEF Reset
    <3> QED BY <1>5, <3>1, <3>2 DEF Reset, StateTypeOK
  <2>2. InboxTypeOK'
    BY <1>5 DEF Reset, InboxTypeOK
  <2>3. RunTypeOK' /\ LoopTypeOK' /\ ToolTypeOK' /\ HistoryTypeOK'
    BY <1>5 DEF Reset, RunTypeOK, LoopTypeOK, ToolTypeOK, HistoryTypeOK, runVars, toolVars, histVars
  <2>4. RunHasLoop' /\ RunningAwaited' /\ AwaitsOne' /\ ResponseHasId'
    BY <1>5 DEF Reset, RunHasLoop, RunningAwaited, AwaitsOne, ResponseHasId, runVars, toolVars
  <2>5. IdleCleared'
    BY <1>5 DEF Reset, IdleCleared, IdleState
  <2> QED BY <2>1, <2>2, <2>3, <2>4, <2>5
<1> QED BY <1>1, <1>2, <1>3, <1>4, <1>5 DEF Interface

(* A tool that settles or reports progress keeps the invariant.            *)
LEMMA ToolStepInv ==
    ASSUME AgentInv, ToolStep
    PROVE  AgentInv'
<1> USE DEF AgentInv, TypeOK
<1> PICK c \in running \cup orphans :
           ToolSettles(c) \/ UpdateRejected(c) \/ OrphanUpdate(c) \/ OrphanSettles(c)
  BY DEF ToolStep
<1>1. UNCHANGED <<stateVars, inboxVars, runVars, loop>>
  BY DEF ToolSettles, UpdateRejected, OrphanUpdate, OrphanSettles
<1>2. running' \subseteq running /\ rejected' \subseteq rejected \cup {c} /\ orphans' \subseteq orphans
  BY DEF ToolSettles, UpdateRejected, OrphanUpdate, OrphanSettles, toolVars
<1>3. ToolTypeOK'
  BY <1>2 DEF ToolTypeOK
<1>4. HistoryTypeOK'
  <2>1. UNCHANGED <<turns, base, ended, sent>>
    BY DEF ToolSettles, UpdateRejected, OrphanUpdate, OrphanSettles, histVars
  <2>2. late' \in BOOLEAN
    BY DEF ToolSettles, UpdateRejected, OrphanUpdate, OrphanSettles, histVars, HistoryTypeOK
  <2> QED BY <2>1, <2>2 DEF HistoryTypeOK
<1>5. StateTypeOK' /\ InboxTypeOK' /\ RunTypeOK' /\ LoopTypeOK'
  BY <1>1 DEF StateTypeOK, InboxTypeOK, RunTypeOK, LoopTypeOK, stateVars, inboxVars, runVars
<1>6. RunHasLoop' /\ IdleCleared' /\ AwaitsOne' /\ ResponseHasId'
  BY <1>1 DEF RunHasLoop, IdleCleared, IdleState, AwaitsOne, ResponseHasId, stateVars, runVars
<1>7. RunningAwaited'
  BY <1>1, <1>2 DEF RunningAwaited
<1> QED BY <1>3, <1>4, <1>5, <1>6, <1>7
----------------------------------------------------------------------------
(* A step of the loop that keeps the transcript and the running calls.     *)
LEMMA LoopMoves ==
    ASSUME AgentInv, UNCHANGED <<stateVars, runVars, running, rejected, orphans>>, HistoryTypeOK', InboxTypeOK',
           loop.pc # "idle", loop.pc # "await", loop' \in Loops, loop'.runnable = loop.runnable, loop'.pc # "idle",
           loop'.pc \in {"responded", "tool", "prepare", "await"} => loop'.assistant.id \in CallIds
    PROVE  AgentInv'
<1> USE DEF AgentInv, TypeOK
<1>1. StateTypeOK' /\ RunTypeOK' /\ ToolTypeOK' /\ LoopTypeOK'
  BY DEF StateTypeOK, RunTypeOK, ToolTypeOK, LoopTypeOK, stateVars, runVars
<1>2. RunHasLoop' /\ IdleCleared' /\ ResponseHasId'
  BY DEF RunHasLoop, IdleCleared, ResponseHasId, runVars
<1>3. running' = {}
  BY DEF RunningAwaited
<1>4. RunningAwaited' /\ AwaitsOne'
  BY <1>3 DEF RunningAwaited, AwaitsOne
<1> QED BY <1>1, <1>2, <1>4

(* Polling the queues keeps the invariant.                                 *)
LEMMA PollInv ==
    ASSUME AgentInv, InitialPoll \/ PollSteering \/ PollFollowUp
    PROVE  AgentInv'
<1> USE DEF AgentInv, TypeOK
<1>1. /\ Drained(steeringQueue) \in Seq(Messages) /\ Kept(steeringQueue) \in Seq(Messages)
      /\ Drained(followUpQueue) \in Seq(Messages) /\ Kept(followUpQueue) \in Seq(Messages)
  BY QueueTyped DEF InboxTypeOK
<1>2. InboxTypeOK'
  BY <1>1 DEF InitialPoll, PollSteering, PollFollowUp, InboxTypeOK
<1>3. \A at \in {"firstTurn", "turn", "pollFollowUp", "finish"} :
        \A todo \in {<<>>, <<Event("agent_end", NoMessage)>>} :
          Goto(at, todo) \in Loops /\ Goto(at, todo).pc = at /\ Goto(at, todo).runnable = loop.runnable
  <2>1. <<Event("agent_end", NoMessage)>> \in Seq(Events) /\ <<>> \in Seq(Events)
    BY EventsTyped, MessagesTyped DEF EventTypes
  <2>2. {"firstTurn", "turn", "pollFollowUp", "finish"} \subseteq PCs
    BY DEF PCs
  <2> TAKE at \in {"firstTurn", "turn", "pollFollowUp", "finish"}
  <2> TAKE todo \in {<<>>, <<Event("agent_end", NoMessage)>>}
  <2>3. at \in PCs /\ todo \in Seq(Events)
    BY <2>1, <2>2
  <2> QED BY <2>3, GotoTyped
<1>4. PICK at \in {"firstTurn", "turn", "pollFollowUp", "finish"},
           todo \in {<<>>, <<Event("agent_end", NoMessage)>>}, pending \in Seq(Messages) :
           \/ loop' = Goto(at, todo)
           \/ loop' = [Goto(at, todo) EXCEPT !.pendingMessages = pending]
  BY <1>1 DEF InitialPoll, PollSteering, PollFollowUp
<1>7. loop' \in Loops /\ loop'.pc = at /\ loop'.runnable = loop.runnable
  <2> DEFINE g == Goto(at, todo)
  <2>1. g \in Loops /\ g.pc = at /\ g.runnable = loop.runnable
    BY <1>3
  <2>2. loop' = g \/ loop' = [g EXCEPT !.pendingMessages = pending]
    BY <1>4
  <2> HIDE DEF g
  <2> QED BY <2>1, <2>2 DEF Loops
<1>5. UNCHANGED <<stateVars, runVars, running, rejected, orphans>> /\ HistoryTypeOK'
  BY DEF InitialPoll, PollSteering, PollFollowUp, toolVars, histVars, HistoryTypeOK
<1>6. loop.pc # "idle" /\ loop.pc # "await"
  BY DEF InitialPoll, PollSteering, PollFollowUp, Resume
<1> QED BY <1>2, <1>5, <1>6, <1>7, LoopMoves

(* Injecting messages and ending a turn keep the invariant.                *)
LEMMA TurnInv ==
    ASSUME AgentInv, InjectPending \/ TurnEnd
    PROVE  AgentInv'
<1> USE DEF AgentInv, TypeOK
<1>1. /\ loop.pendingMessages \in Seq(Messages) /\ loop.results \in Seq(Messages)
      /\ loop.context \in Seq(Messages) /\ loop.newMessages \in Seq(Messages)
      /\ loop.assistant \in Messages /\ <<>> \in Seq(Messages)
  BY DEF LoopTypeOK, Loops
<1>2. /\ loop.context \o loop.pendingMessages \in Seq(Messages)
      /\ loop.context \o loop.results \in Seq(Messages)
      /\ Collect(loop.pendingMessages) \in Seq(Messages)
      /\ Collect(loop.results) \in Seq(Messages)
  BY <1>1 DEF Collect
<1>3. /\ Event("turn_start", NoMessage) \in Events
      /\ Event("turn_end", loop.assistant) \in Events
  BY <1>1, EventTyped, MessagesTyped DEF EventTypes
<1>4. /\ AnnounceAll(loop.pendingMessages) \in Seq(Events)
      /\ <<Event("turn_start", NoMessage)>> \o AnnounceAll(loop.pendingMessages) \in Seq(Events)
      /\ <<>> \o AnnounceAll(loop.pendingMessages) \in Seq(Events)
      /\ <<Event("turn_end", loop.assistant)>> \in Seq(Events)
  BY <1>1, <1>3, AnnounceAllTyped
<1>5. loop' \in Loops /\ loop'.pc \in {"request", "pollSteering"} /\ loop'.runnable = loop.runnable
  <2>1. CASE InjectPending
    <3>1. PICK todo \in Seq(Events) :
             loop' = [Goto("request", todo) EXCEPT !.context = @ \o loop.pendingMessages,
                                                   !.newMessages = Collect(loop.pendingMessages),
                                                   !.pendingMessages = <<>>]
      BY <1>4, <2>1 DEF InjectPending
    <3>0. "request" \in PCs
      BY DEF PCs
    <3>2. Goto("request", todo) \in Loops /\ Goto("request", todo).context = loop.context
          /\ Goto("request", todo).pc = "request" /\ Goto("request", todo).runnable = loop.runnable
      BY <3>0, GotoTyped
    <3> QED BY <1>1, <1>2, <3>1, <3>2 DEF Loops
  <2>2. CASE TurnEnd
    <3>0. "pollSteering" \in PCs
      BY DEF PCs
    <3> DEFINE g == Goto("pollSteering", <<Event("turn_end", loop.assistant)>>)
    <3>1. g \in Loops /\ g.pc = "pollSteering" /\ g.runnable = loop.runnable
      BY <1>4, <3>0, GotoTyped
    <3>2. loop' = [g EXCEPT !.context = ContextWithResults, !.newMessages = Collect(loop.results),
                            !.results = <<>>]
      BY <2>2 DEF TurnEnd
    <3>3. ContextWithResults \in Seq(Messages)
      BY <1>2 DEF ContextWithResults
    <3> HIDE DEF g
    <3> QED BY <1>1, <1>2, <3>1, <3>2, <3>3 DEF Loops
  <2> QED BY <2>1, <2>2
<1>6. UNCHANGED <<stateVars, runVars, running, rejected, orphans>> /\ HistoryTypeOK' /\ InboxTypeOK'
  BY DEF InjectPending, TurnEnd, inboxVars, toolVars, histVars, HistoryTypeOK, InboxTypeOK
<1>7. loop.pc # "idle" /\ loop.pc # "await"
  BY DEF InjectPending, TurnEnd, Resume
<1> QED BY <1>5, <1>6, <1>7, LoopMoves

(* Asking the model, streaming and taking its response keep the invariant. *)
LEMMA ResponseInv ==
    ASSUME AgentInv, NEW n \in 0 .. MaxCalls, NEW stop \in StopReasons,
           Request \/ StreamStart \/ StreamDone(n, stop) \/ Responded
    PROVE  AgentInv'
<1> USE DEF AgentInv, TypeOK
<1> DEFINE m == Assistant(turns, n, stop)
           p == Assistant(turns, 0, "none")
<1>0. n \in Nat /\ turns \in Nat
  BY ConstantsAssumption DEF HistoryTypeOK
<1>1. m \in Messages /\ m.id \in CallIds /\ p \in Messages
  BY <1>0, MessagesTyped DEF StopReasons
<1>2. loop.assistant \in Messages /\ loop.context \in Seq(Messages) /\ loop.newMessages \in Seq(Messages)
  BY DEF LoopTypeOK, Loops
<1>3. Append(loop.context, m) \in Seq(Messages) /\ Collect(<<m>>) \in Seq(Messages)
  BY <1>1, <1>2 DEF Collect
<1>4. /\ <<Event("message_start", p)>> \in Seq(Events) /\ <<>> \in Seq(Events)
      /\ Announce(m) \in Seq(Events) /\ <<Event("message_end", m)>> \in Seq(Events)
  BY <1>1, EventsTyped, AnnounceTyped DEF EventTypes
<1>5. <<Event("turn_end", loop.assistant), Event("agent_end", NoMessage)>> \in Seq(Events)
  <2>1. Event("turn_end", loop.assistant) \in Events /\ Event("agent_end", NoMessage) \in Events
    BY <1>2, EventTyped, MessagesTyped DEF EventTypes
  <2> QED BY <2>1
<1>6. /\ "requested" \in PCs /\ "streaming" \in PCs /\ "responded" \in PCs
      /\ "finish" \in PCs /\ "turnEnd" \in PCs /\ "tool" \in PCs
  BY DEF PCs
<1>7. loop' \in Loops /\ loop'.pc # "idle" /\ loop'.pc # "await" /\ loop'.runnable = loop.runnable
      /\ (loop'.pc \in {"responded", "tool", "prepare", "await"} => loop'.assistant.id \in CallIds)
  <2>1. CASE Request
    <3>1. loop' = Goto("requested", <<>>)
      BY <2>1 DEF Request
    <3>2. /\ Goto("requested", <<>>) \in Loops /\ Goto("requested", <<>>).pc = "requested"
          /\ Goto("requested", <<>>).runnable = loop.runnable
      <4>1. <<>> \in Seq(Events) /\ "requested" \in PCs
        BY <1>4, <1>6
      <4> QED BY <4>1, GotoTyped
    <3> HIDE DEF AgentInv, TypeOK
    <3> QED BY <3>1, <3>2
  <2>2. CASE StreamStart
    <3> DEFINE started == <<Event("message_start", p)>>
    <3>1. loop' = Goto("streaming", started)
      BY <2>2 DEF StreamStart
    <3>2. /\ Goto("streaming", started) \in Loops /\ Goto("streaming", started).pc = "streaming"
          /\ Goto("streaming", started).runnable = loop.runnable
      <4>1. started \in Seq(Events) /\ "streaming" \in PCs
        BY <1>4, <1>6
      <4> HIDE DEF started
      <4> QED BY <4>1, GotoTyped
    <3> HIDE DEF AgentInv, TypeOK, started
    <3> QED BY <3>1, <3>2
  <2>3. CASE StreamDone(n, stop)
    <3>1. PICK todo \in Seq(Events) :
             loop' = [Goto("responded", todo) EXCEPT !.context = Append(@, m), !.newMessages = Collect(<<m>>),
                                                     !.assistant = m]
      BY <1>4, <2>3 DEF StreamDone
    <3>2. /\ Goto("responded", todo) \in Loops /\ Goto("responded", todo).pc = "responded"
          /\ Goto("responded", todo).context = loop.context
          /\ Goto("responded", todo).runnable = loop.runnable
      BY <1>6, GotoTyped
    <3> QED BY <1>1, <1>3, <3>1, <3>2 DEF Loops
  <2>4. CASE Responded
    <3>1. loop.assistant.id \in CallIds
      BY <2>4 DEF Responded, Resume, ResponseHasId
    <3> DEFINE t == Goto("tool", <<>>)
               e == Goto("turnEnd", <<>>)
               f == Goto("finish", <<Event("turn_end", loop.assistant), Event("agent_end", NoMessage)>>)
    <3>2. t \in Loops /\ t.pc = "tool" /\ t.assistant = loop.assistant /\ t.runnable = loop.runnable
      <4>1. <<>> \in Seq(Events) /\ "tool" \in PCs
        BY <1>4, <1>6
      <4> QED BY <4>1, GotoTyped
    <3>3. e \in Loops /\ e.pc = "turnEnd" /\ e.runnable = loop.runnable
      <4>1. <<>> \in Seq(Events) /\ "turnEnd" \in PCs
        BY <1>4, <1>6
      <4> QED BY <4>1, GotoTyped
    <3>4. f \in Loops /\ f.pc = "finish" /\ f.runnable = loop.runnable
      <4>1. "finish" \in PCs
        BY <1>6
      <4> QED BY <1>5, <4>1, GotoTyped
    <3>6. loop' = f \/ loop' = e \/ loop' = [t EXCEPT !.next = 1]
      BY <2>4 DEF Responded, AfterFailedResponse
    <3> HIDE DEF t, e, f
    <3>5. /\ [t EXCEPT !.next = 1] \in Loops /\ [t EXCEPT !.next = 1].pc = "tool"
          /\ [t EXCEPT !.next = 1].assistant = loop.assistant
          /\ [t EXCEPT !.next = 1].runnable = loop.runnable
      BY <3>2 DEF Loops
    <3> QED BY <3>1, <3>3, <3>4, <3>5, <3>6
  <2> QED BY <2>1, <2>2, <2>3, <2>4
<1>8. UNCHANGED <<stateVars, runVars, running, rejected, orphans>> /\ InboxTypeOK'
  BY DEF Request, StreamStart, StreamDone, Responded, inboxVars, toolVars, InboxTypeOK
<1>9. HistoryTypeOK'
  <2>1. UNCHANGED <<sent, base, ended, late>> /\ turns' \in {turns, turns + 1}
    BY DEF Request, StreamStart, StreamDone, Responded, histVars
  <2> QED BY <1>0, <2>1 DEF HistoryTypeOK
<1>10. loop.pc # "idle" /\ loop.pc # "await"
  BY DEF Request, StreamStart, StreamDone, Responded, Resume
<1> QED BY <1>7, <1>8, <1>9, <1>10, LoopMoves

(* Starting a call or refusing it at once keeps the invariant.             *)
LEMMA CallInv ==
    ASSUME AgentInv, StartCall \/ ImmediateOutcome
    PROVE  AgentInv'
<1> USE DEF AgentInv, TypeOK
<1>1. loop.assistant.id \in CallIds
  BY DEF StartCall, ImmediateOutcome, Resume, ResponseHasId
<1>2. NextCall \in CallIds /\ ToolResult(NextCall) \in Messages
  BY <1>1, NextCallTyped, MessagesTyped
<1>3. <<Event("tool_execution_start", ToolResult(NextCall))>> \in Seq(Events) /\ Outcome(NextCall) \in Seq(Events)
  <2>1. ToolResult(NextCall).id \in CallIds
    BY <1>2, MessagesTyped
  <2>2. "tool_execution_start" \in EventTypes
    BY DEF EventTypes
  <2> QED BY <1>2, <2>1, <2>2, EventsTyped, OutcomeTyped
<1>4. loop.results \in Seq(Messages) /\ loop.next \in Nat
  BY DEF LoopTypeOK, Loops
<1>5. Append(loop.results, ToolResult(NextCall)) \in Seq(Messages) /\ loop.next + 1 \in Nat
  BY <1>2, <1>4
<1>6. "prepare" \in PCs /\ "tool" \in PCs
  BY DEF PCs
<1>7. loop' \in Loops /\ loop'.pc \in {"tool", "prepare"} /\ loop'.assistant = loop.assistant
      /\ loop'.runnable = loop.runnable
  <2>1. CASE StartCall
    BY <1>3, <1>6, <2>1, GotoTyped DEF StartCall
  <2>2. CASE ImmediateOutcome
    <3> DEFINE g == Goto("tool", Outcome(NextCall))
    <3>1. g \in Loops /\ g.pc = "tool" /\ g.assistant = loop.assistant /\ g.results = loop.results /\ g.next = loop.next
          /\ g.runnable = loop.runnable
      BY <1>3, <1>6, GotoTyped
    <3>2. loop' = [g EXCEPT !.results = Append(@, ToolResult(NextCall)), !.next = @ + 1]
      BY <2>2 DEF ImmediateOutcome
    <3> HIDE DEF g
    <3> QED BY <1>5, <3>1, <3>2 DEF Loops
  <2> QED BY <2>1, <2>2
<1>8. UNCHANGED <<stateVars, runVars, running, rejected, orphans>> /\ InboxTypeOK' /\ HistoryTypeOK'
  BY DEF StartCall, ImmediateOutcome, inboxVars, toolVars, histVars, InboxTypeOK, HistoryTypeOK
<1>9. loop.pc # "idle" /\ loop.pc # "await"
  BY DEF StartCall, ImmediateOutcome, Resume
<1> QED BY <1>1, <1>7, <1>8, <1>9, LoopMoves

(* The steps that start and await calls: running calls stay awaited.       *)
LEMMA AwaitMoves ==
    ASSUME AgentInv, UNCHANGED <<stateVars, inboxVars, runVars, rejected, orphans, histVars>>,
           loop.pc # "idle", loop' \in Loops, loop'.pc # "idle", running' \subseteq CallIds,
           RunningAwaited', AwaitsOne', ResponseHasId'
    PROVE  AgentInv'
<1> USE DEF AgentInv, TypeOK
<1>1. StateTypeOK' /\ InboxTypeOK' /\ RunTypeOK' /\ HistoryTypeOK'
  BY DEF StateTypeOK, InboxTypeOK, RunTypeOK, HistoryTypeOK, stateVars, inboxVars, runVars, histVars
<1>2. LoopTypeOK' /\ ToolTypeOK' /\ RunHasLoop' /\ IdleCleared'
  BY DEF LoopTypeOK, ToolTypeOK, RunHasLoop, IdleCleared, runVars
<1> QED BY <1>1, <1>2

(* Executing a prepared call keeps the invariant.                          *)
LEMMA PreparedInv ==
    ASSUME AgentInv, PreparedCall
    PROVE  AgentInv'
<1> USE DEF AgentInv, TypeOK
<1>1. loop.next \in Nat /\ loop.runnable \in Seq(CallIds) /\ <<>> \in Seq(Events)
  BY DEF LoopTypeOK, Loops
<1>2. loop.assistant.id \in CallIds /\ running = {} /\ loop.pc = "prepare"
  BY DEF PreparedCall, Resume, ResponseHasId, RunningAwaited
<1>3. NextCall \in CallIds
  BY <1>2, NextCallTyped
<1> DEFINE w == Goto("await", <<>>)
           t == Goto("tool", <<>>)
<1>4. /\ w \in Loops /\ w.pc = "await" /\ w.next = loop.next /\ w.assistant = loop.assistant
      /\ t \in Loops /\ t.pc = "tool" /\ t.next = loop.next /\ t.runnable = loop.runnable
      /\ t.assistant = loop.assistant
  <2>1. "await" \in PCs /\ "tool" \in PCs
    BY DEF PCs
  <2> QED BY <1>1, <2>1, GotoTyped
<1>5. \/ ToolExecution = "sequential" /\ loop' = [w EXCEPT !.runnable = <<NextCall>>, !.next = @ + 1]
         /\ running' = {NextCall}
      \/ ToolExecution # "sequential" /\ loop' = [t EXCEPT !.runnable = Append(@, NextCall), !.next = @ + 1]
         /\ running' = running
  BY DEF PreparedCall
<1>6. /\ <<NextCall>> \in Seq(CallIds) /\ Append(loop.runnable, NextCall) \in Seq(CallIds)
      /\ loop.next + 1 \in Nat
  BY <1>1, <1>3
<1>7. UNCHANGED <<stateVars, inboxVars, runVars, rejected, orphans, histVars>>
  BY DEF PreparedCall
<1> HIDE DEF w, t
<1>8. CASE ToolExecution = "sequential" /\ loop' = [w EXCEPT !.runnable = <<NextCall>>, !.next = @ + 1]
           /\ running' = {NextCall}
  <2>1. loop' \in Loops /\ loop'.pc = "await" /\ loop'.runnable = <<NextCall>>
        /\ loop'.assistant = loop.assistant
    BY <1>4, <1>6, <1>8 DEF Loops
  <2>2. RunningAwaited' /\ AwaitsOne' /\ ResponseHasId'
    BY <1>2, <1>8, <2>1 DEF RunningAwaited, AwaitsOne, ResponseHasId
  <2> QED BY <1>2, <1>3, <1>7, <1>8, <2>1, <2>2, AwaitMoves
<1>9. CASE ToolExecution # "sequential" /\ loop' = [t EXCEPT !.runnable = Append(@, NextCall), !.next = @ + 1]
           /\ running' = running
  <2>1. loop' \in Loops /\ loop'.pc = "tool" /\ loop'.assistant = loop.assistant
    BY <1>4, <1>6, <1>9 DEF Loops
  <2>2. RunningAwaited' /\ AwaitsOne' /\ ResponseHasId'
    BY <1>2, <1>9, <2>1 DEF RunningAwaited, AwaitsOne, ResponseHasId
  <2> QED BY <1>2, <1>7, <1>9, <2>1, <2>2, AwaitMoves
<1> QED BY <1>5, <1>8, <1>9

(* Launching the prepared calls in parallel keeps the invariant.           *)
LEMMA LaunchInv ==
    ASSUME AgentInv, LaunchPrepared \/ CallsExecuted
    PROVE  AgentInv'
<1> USE DEF AgentInv, TypeOK
<1>1. loop.runnable \in Seq(CallIds) /\ <<>> \in Seq(Events)
  BY DEF LoopTypeOK, Loops
<1>2. UNCHANGED <<stateVars, inboxVars, runVars, rejected, orphans, histVars>> /\ loop.pc # "idle"
  BY DEF LaunchPrepared, CallsExecuted, Resume, toolVars
<1>3. "await" \in PCs /\ "turnEnd" \in PCs
  BY DEF PCs
<1>4. CASE LaunchPrepared
  <2>1. loop' = Goto("await", <<>>) /\ running' = {loop.runnable[i] : i \in 1 .. Len(loop.runnable)}
        /\ loop.pc = "tool"
    BY <1>4 DEF LaunchPrepared, Resume
  <2>2. loop' \in Loops /\ loop'.pc = "await" /\ loop'.runnable = loop.runnable
        /\ loop'.assistant = loop.assistant
    BY <1>1, <1>3, <2>1, GotoTyped
  <2>3. running' \subseteq CallIds
    BY <1>1, <2>1
  <2>4. RunningAwaited' /\ AwaitsOne' /\ ResponseHasId'
    BY <2>1, <2>2 DEF RunningAwaited, AwaitsOne, ResponseHasId
  <2> QED BY <1>2, <2>2, <2>3, <2>4, AwaitMoves
<1>5. CASE CallsExecuted
  <2>1. loop' = Goto("turnEnd", <<>>) /\ running' = running /\ loop.runnable = <<>>
    BY <1>5 DEF CallsExecuted, toolVars
  <2>2. loop' \in Loops /\ loop'.pc = "turnEnd" /\ loop'.runnable = loop.runnable
    BY <1>1, <1>3, <2>1, GotoTyped
  <2>3. running = {}
    BY <2>1 DEF RunningAwaited
  <2>4. RunningAwaited' /\ AwaitsOne' /\ ResponseHasId'
    BY <2>1, <2>2, <2>3 DEF RunningAwaited, AwaitsOne, ResponseHasId
  <2> QED BY <1>2, <2>1, <2>2, <2>3, <2>4, AwaitMoves
<1> QED BY <1>4, <1>5

(* Awaiting the next call and finalizing it keeps the invariant.           *)
LEMMA FinalizeInv ==
    ASSUME AgentInv, FinalizeCall
    PROVE  AgentInv'
<1> USE DEF AgentInv, TypeOK
<1> DEFINE c  == Head(loop.runnable)
           at == IF ToolExecution = "sequential" THEN "tool" ELSE "await"
           g  == Goto(at, Outcome(c))
<1>1. loop.results \in Seq(Messages) /\ loop.runnable \in Seq(CallIds)
  BY DEF LoopTypeOK, Loops
<1>2. c \in CallIds /\ Tail(loop.runnable) \in Seq(CallIds) /\ c \notin running /\ loop.runnable # <<>>
  BY <1>1 DEF FinalizeCall
<1>3. ToolResult(c) \in Messages /\ Outcome(c) \in Seq(Events)
  BY <1>2, MessagesTyped, OutcomeTyped
<1>4. g \in Loops /\ g.pc = at /\ g.runnable = loop.runnable /\ g.results = loop.results
      /\ g.assistant = loop.assistant
  <2>1. at \in PCs
    BY DEF PCs
  <2> QED BY <1>3, <2>1, GotoTyped
<1>5. loop' = [g EXCEPT !.results = Append(@, ToolResult(c)), !.runnable = Tail(@)] /\ running' = running
  BY DEF FinalizeCall, toolVars
<1>6. Append(loop.results, ToolResult(c)) \in Seq(Messages)
  BY <1>1, <1>3
<1>7. UNCHANGED <<stateVars, inboxVars, runVars, rejected, orphans, histVars>> /\ loop.pc = "await"
  BY DEF FinalizeCall, Resume, toolVars
<1> HIDE DEF g
<1>8. loop' \in Loops /\ loop'.pc = at /\ loop'.runnable = Tail(loop.runnable)
      /\ loop'.assistant = loop.assistant
  BY <1>2, <1>4, <1>5, <1>6 DEF Loops
<1>9. \A d \in running : \E i \in 1 .. Len(Tail(loop.runnable)) : Tail(loop.runnable)[i] = d
  <2> TAKE d \in running
  <2>1. PICK i \in 1 .. Len(loop.runnable) : loop.runnable[i] = d
    BY DEF RunningAwaited
  <2>2. i # 1
    BY <1>1, <1>2, <2>1
  <2>3. i - 1 \in 1 .. Len(Tail(loop.runnable)) /\ Tail(loop.runnable)[i - 1] = d
    BY <1>1, <1>2, <2>1, <2>2
  <2> QED BY <2>3
<1>10. ToolExecution = "sequential" =>
         Tail(loop.runnable) = <<>> /\ Len(Tail(loop.runnable)) = 0 /\ running = {}
  <2> SUFFICES ASSUME ToolExecution = "sequential"
               PROVE  Tail(loop.runnable) = <<>> /\ Len(Tail(loop.runnable)) = 0 /\ running = {}
    OBVIOUS
  <2>1. Len(loop.runnable) <= 1
    BY DEF AwaitsOne
  <2>2. Tail(loop.runnable) = <<>>
    BY <1>1, <1>2, <2>1, TailOfOne
  <2>4. Len(Tail(loop.runnable)) = 0
    BY <1>1, <1>2, <2>1, TailOfOne
  <2>3. running = {}
    BY <1>9, <2>4
  <2> QED BY <2>2, <2>3, <2>4, Zenon
<1>11. RunningAwaited' /\ AwaitsOne' /\ ResponseHasId'
  <2> DEFINE tail == Tail(loop.runnable)
  <2>1. /\ running' = running /\ loop'.runnable = tail /\ loop'.assistant = loop.assistant
        /\ loop'.pc = (IF ToolExecution = "sequential" THEN "tool" ELSE "await")
        /\ \A d \in running : \E i \in 1 .. Len(tail) : tail[i] = d
        /\ ToolExecution = "sequential" => tail = <<>> /\ Len(tail) = 0 /\ running = {}
    BY <1>5, <1>8, <1>9, <1>10
  <2>2. loop.assistant.id \in CallIds
    BY <1>7 DEF ResponseHasId
  <2> HIDE DEF tail
  <2>3. RunningAwaited'
    BY <2>1 DEF RunningAwaited
  <2>4. AwaitsOne'
    BY <2>1 DEF AwaitsOne
  <2>5. ResponseHasId'
    BY <2>1, <2>2 DEF ResponseHasId
  <2> QED BY <2>3, <2>4, <2>5
<1>12. running' \subseteq CallIds
  BY <1>5 DEF ToolTypeOK
<1> QED BY <1>7, <1>8, <1>11, <1>12, AwaitMoves
----------------------------------------------------------------------------
(* Reducing an event into the state keeps the invariant.                   *)
LEMMA EmitInv ==
    ASSUME AgentInv, Emit
    PROVE  AgentInv'
<1> USE DEF AgentInv, TypeOK
<1> DEFINE e == Head(loop.todo)
<1>1. loop.todo \in Seq(Events) /\ loop.todo # <<>>
  BY DEF Emit, LoopTypeOK, Loops
<1>2. e \in Events /\ Tail(loop.todo) \in Seq(Events)
  BY <1>1
<1>3. e.message \in Messages /\ e.message.id \in UserMsgs \cup CallIds \cup {None}
      /\ (e.type = "tool_execution_start" => e.message.id \in CallIds)
  BY <1>2 DEF Events, Messages
<1>4. /\ loop' = [loop EXCEPT !.todo = Tail(@), !.emitting = TRUE]
      /\ UNCHANGED <<isStreaming, inboxVars, runVars, toolVars, turns, sent, base>>
  BY DEF Emit
<1>5. loop' \in Loops /\ loop'.pc = loop.pc /\ loop'.runnable = loop.runnable
      /\ loop'.assistant = loop.assistant
  BY <1>2, <1>4 DEF LoopTypeOK, Loops
<1>6. loop.pc # "idle"
  BY <1>1 DEF IdleCleared, IdleLoop
<1>7. StateTypeOK'
  <2>1. messages' \in Seq(Messages)
    <3>1. Append(messages, e.message) \in Seq(Messages)
      BY <1>3 DEF StateTypeOK
    <3> QED BY <3>1 DEF Emit, StateTypeOK
  <2>2. isStreaming' \in BOOLEAN /\ errorMessage' \in BOOLEAN
    BY DEF Emit, StateTypeOK
  <2>3. streamingMessage' \in UserMsgs \cup CallIds \cup {None}
    BY <1>3 DEF Emit, StateTypeOK
  <2>4. pendingToolCalls' \subseteq CallIds
    <3>1. pendingToolCalls \subseteq CallIds /\ pendingToolCalls' = PendingAfter(e)
      BY DEF Emit, StateTypeOK
    <3> HIDE DEF e
    <3> QED BY <1>3, <3>1 DEF PendingAfter
  <2> QED BY <2>1, <2>2, <2>3, <2>4 DEF StateTypeOK
<1>8. HistoryTypeOK'
  <2>1. ended' \in BOOLEAN /\ late' \in BOOLEAN
    BY DEF Emit, HistoryTypeOK
  <2> QED BY <1>4, <2>1 DEF HistoryTypeOK
<1>9. InboxTypeOK' /\ RunTypeOK' /\ LoopTypeOK' /\ ToolTypeOK'
  BY <1>4, <1>5 DEF InboxTypeOK, RunTypeOK, LoopTypeOK, ToolTypeOK, inboxVars, runVars, toolVars
<1>10. RunHasLoop' /\ IdleCleared' /\ RunningAwaited' /\ AwaitsOne' /\ ResponseHasId'
  <2>1. UNCHANGED <<activeRun, running>>
    BY <1>4 DEF runVars, toolVars
  <2>2. RunHasLoop' /\ IdleCleared' /\ ResponseHasId'
    BY <1>5, <1>6, <2>1 DEF RunHasLoop, IdleCleared, ResponseHasId
  <2>3. RunningAwaited' /\ AwaitsOne'
    BY <1>5, <2>1 DEF RunningAwaited, AwaitsOne
  <2> QED BY <2>2, <2>3
<1> QED BY <1>7, <1>8, <1>9, <1>10

(* finishRun leaves the idle loop, after the loop ended or failed.         *)
LEMMA SettleInv ==
    ASSUME AgentInv, Settle, loop.pc # "await",
           UNCHANGED <<messages, errorMessage, inboxVars, toolVars, histVars>>
    PROVE  AgentInv'
<1> USE DEF AgentInv, TypeOK
<1>1. StateTypeOK'
  <2>1. isStreaming' \in BOOLEAN /\ errorMessage' \in BOOLEAN
    BY DEF Settle, StateTypeOK
  <2> QED BY <2>1 DEF Settle, StateTypeOK
<1>2. InboxTypeOK' /\ ToolTypeOK' /\ HistoryTypeOK'
  BY DEF InboxTypeOK, ToolTypeOK, HistoryTypeOK, inboxVars, toolVars, histVars
<1>3. RunTypeOK'
  BY DEF Settle, RunTypeOK
<1>4. loop' = IdleLoop /\ loop' \in Loops /\ loop'.pc = "idle" /\ loop'.runnable = <<>>
  BY IdleLoopTyped DEF Settle
<1>5. running' = {}
  BY DEF toolVars, RunningAwaited
<1>6. RunHasLoop' /\ IdleCleared' /\ ResponseHasId'
  BY <1>4 DEF Settle, RunHasLoop, IdleCleared, IdleState, ResponseHasId
<1>7. RunningAwaited' /\ AwaitsOne'
  BY <1>4, <1>5 DEF RunningAwaited, AwaitsOne
<1> QED BY <1>1, <1>2, <1>3, <1>4, <1>6, <1>7 DEF LoopTypeOK

(* A run that fails, at whatever await, keeps the invariant.               *)
LEMMA FailInv ==
    ASSUME AgentInv, FailRun, loop.pc # "idle"
    PROVE  AgentInv'
<1> USE DEF AgentInv, TypeOK
<1> DEFINE f == [IdleLoop EXCEPT !.pc = "failing", !.todo = <<Event("agent_end", NoMessage)>>]
<1>1. <<Event("agent_end", NoMessage)>> \in Seq(Events)
  BY EventsTyped, MessagesTyped DEF EventTypes
<1>2. loop' = f
  BY DEF FailRun
<1>3. f \in Loops /\ f.pc = "failing" /\ f.runnable = IdleLoop.runnable
  BY <1>1, IdleLoopTyped DEF PCs, Loops
<1>4. StateTypeOK'
  <2>1. messages' \in Seq(Messages)
    <3>1. Append(messages, FailureMessage) \in Seq(Messages)
      BY MessagesTyped DEF StateTypeOK
    <3> QED BY <3>1 DEF FailRun
  <2>2. isStreaming' \in BOOLEAN /\ errorMessage' \in BOOLEAN
    BY DEF FailRun, StateTypeOK
  <2>3. streamingMessage' = streamingMessage /\ pendingToolCalls' = pendingToolCalls
    BY DEF FailRun
  <2> QED BY <2>1, <2>2, <2>3 DEF StateTypeOK
<1>5. InboxTypeOK' /\ RunTypeOK' /\ HistoryTypeOK'
  BY DEF FailRun, InboxTypeOK, RunTypeOK, HistoryTypeOK, inboxVars, runVars, histVars
<1>6. ToolTypeOK' /\ running' = {}
  BY DEF FailRun, ToolTypeOK
<1> HIDE DEF f
<1>7. LoopTypeOK' /\ loop'.pc = "failing" /\ loop'.runnable = <<>>
  BY <1>2, <1>3, IdleLoopTyped DEF LoopTypeOK
<1>8. activeRun' = activeRun
  BY DEF FailRun, runVars
<1>9. RunHasLoop' /\ IdleCleared' /\ ResponseHasId'
  BY <1>7, <1>8 DEF RunHasLoop, IdleCleared, ResponseHasId
<1>10. RunningAwaited' /\ AwaitsOne'
  BY <1>6, <1>7 DEF RunningAwaited, AwaitsOne
<1> QED BY <1>4, <1>5, <1>6, <1>7, <1>9, <1>10

(* Every step of the loop keeps the invariant.                             *)
LEMMA LoopStepInv ==
    ASSUME AgentInv, LoopStep
    PROVE  AgentInv'
<1>1. CASE Emit
  BY <1>1, EmitInv
<1>2. CASE InitialPoll \/ PollSteering \/ PollFollowUp
  BY <1>2, PollInv
<1>3. CASE InjectPending \/ TurnEnd
  BY <1>3, TurnInv
<1>4. CASE Request \/ StreamStart \/ Responded
  <2>1. 0 \in 0 .. MaxCalls /\ "stop" \in StopReasons
    BY ConstantsAssumption DEF StopReasons
  <2> QED BY <1>4, <2>1, ResponseInv
<1>5. ASSUME NEW n \in 0 .. MaxCalls, NEW stop \in StopReasons, StreamDone(n, stop)
      PROVE  AgentInv'
  BY <1>5, ResponseInv
<1>6. CASE StartCall \/ ImmediateOutcome
  BY <1>6, CallInv
<1>7. CASE PreparedCall
  BY <1>7, PreparedInv
<1>8. CASE LaunchPrepared \/ CallsExecuted
  BY <1>8, LaunchInv
<1>9. CASE FinalizeCall
  BY <1>9, FinalizeInv
<1>10. CASE FinishRun \/ FailureListenerThrows
  <2>1. /\ Settle /\ loop.pc # "await"
        /\ UNCHANGED <<messages, errorMessage, inboxVars, toolVars, histVars>>
    BY <1>10 DEF FinishRun, FailureListenerThrows, Resume
  <2> QED BY <2>1, SettleInv
<1>11. CASE StreamThrows \/ CallRejected \/ ListenerThrows
  <2>1. FailRun /\ loop.pc # "idle"
    BY <1>11 DEF StreamThrows, CallRejected, ListenerThrows, Resume, AgentInv, IdleCleared, IdleLoop
  <2> QED BY <2>1, FailInv
<1> QED BY <1>1, <1>2, <1>3, <1>4, <1>5, <1>6, <1>7, <1>8, <1>9, <1>10, <1>11 DEF LoopStep

(* A step that changes nothing keeps the invariant.                        *)
LEMMA StutterInv ==
    ASSUME AgentInv, UNCHANGED vars
    PROVE  AgentInv'
<1> USE DEF vars, stateVars, inboxVars, runVars, toolVars, histVars
<1>1. TypeOK'
  BY DEF AgentInv, TypeOK, StateTypeOK, InboxTypeOK, RunTypeOK, LoopTypeOK, ToolTypeOK, HistoryTypeOK
<1>2. RunHasLoop' /\ IdleCleared' /\ RunningAwaited' /\ AwaitsOne' /\ ResponseHasId'
  BY DEF AgentInv, RunHasLoop, IdleCleared, IdleState, RunningAwaited, AwaitsOne, ResponseHasId
<1> QED BY <1>1, <1>2 DEF AgentInv

(* The invariant holds in every state of every execution.                  *)
THEOREM AgentInvariant == Spec => []AgentInv
<1>1. AgentInv /\ [Next]_vars => AgentInv'
  BY LoopStepInv, InterfaceInv, ToolStepInv, StutterInv DEF Next
<1> QED BY <1>1, InitInv, PTL DEF Spec

(* Every component of the agent's state keeps its type, whatever the       *)
(* number of turns, calls and messages.                                    *)
THEOREM TypeCorrect == Spec => []TypeOK
<1>1. AgentInv => TypeOK
  BY DEF AgentInv
<1> QED BY <1>1, AgentInvariant, PTL

(* A settled run leaves nothing behind, however it ended: finishRun runs   *)
(* in the finally block of runWithLifecycle and a failed loop hands its    *)
(* running tools over, so an idle agent awaits no call, shows no partial   *)
(* message and is not marked as streaming.                                 *)
THEOREM IdleIsCleanHolds == Spec => []IdleIsClean
<1>1. AgentInv => IdleIsClean
  <2> SUFFICES ASSUME AgentInv, ~activeRun
               PROVE  /\ ~isStreaming /\ streamingMessage = None /\ pendingToolCalls = {}
                      /\ running = {} /\ loop = IdleLoop
    BY DEF IdleIsClean
  <2>1. loop.pc = "idle"
    BY DEF AgentInv, RunHasLoop
  <2>2. IdleState /\ loop = IdleLoop
    BY <2>1 DEF AgentInv, IdleCleared
  <2>3. running = {}
    BY <2>1 DEF AgentInv, RunningAwaited
  <2> QED BY <2>2, <2>3 DEF IdleState
<1> QED BY <1>1, AgentInvariant, PTL
=============================================================================
