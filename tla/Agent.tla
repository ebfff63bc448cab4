-------------------------------- MODULE Agent --------------------------------
(***************************************************************************)
(* The Agent class (packages/agent/src/agent.ts) and the loop it runs      *)
(* (packages/agent/src/agent-loop.ts).                                     *)
(*                                                                         *)
(* JavaScript runs one callback at a time, so what happens between two     *)
(* awaits is one action and the public interface may be called at every    *)
(* await.  loop.pc names the await at which the loop is suspended.  Events *)
(* the loop emits one after the other with nothing but appends to its own  *)
(* lists between them are put in loop.todo at once and emitted one by one  *)
(* by Emit, which is processEvents: it reduces the state and then awaits   *)
(* the listeners, so every event is a suspension point of its own.         *)
(*                                                                         *)
(* The language model, the tools and the listeners are the environment:    *)
(* what a response contains, when a tool settles and whether a listener    *)
(* throws is chosen here, within the constants below.  Message texts,      *)
(* partial messages and tool results carry no content: a message is its    *)
(* role, its identity, its number of tool calls and its stop reason.       *)
(***************************************************************************)
EXTENDS Naturals, Sequences, FiniteSets

CONSTANTS
    UserMsgs,       \* messages the user can send, each at most once
    ToolExecution,  \* "sequential" or "parallel"
    QueueMode,      \* "all" or "one-at-a-time", of both queues
    Api,            \* the calls of the public interface that are made
    MaxTurns,       \* the model stops calling tools after this many responses
    MaxCalls,       \* tool calls per response
    ListenersFail,  \* can a listener (or an afterToolCall hook) throw
    StreamFails,    \* can streamFn throw instead of returning a stream
    None            \* undefined

ASSUME ConstantsAssumption ==
    /\ ToolExecution \in {"sequential", "parallel"}
    /\ QueueMode \in {"all", "one-at-a-time"}
    /\ Api \subseteq {"steer", "followUp", "abort", "continue", "clear", "reset"}
    /\ MaxTurns \in Nat /\ MaxCalls \in Nat
    /\ ListenersFail \in BOOLEAN /\ StreamFails \in BOOLEAN
    /\ None \notin UserMsgs \cup (Nat \X Nat)

VARIABLES
    \* MutableAgentState
    messages, isStreaming, streamingMessage, pendingToolCalls, errorMessage,
    \* PendingMessageQueue.messages of the two queues
    steeringQueue, followUpQueue,
    \* activeRun and the state of its AbortController
    activeRun, aborted,
    \* the locals of the running loop
    loop,
    \* tool calls: whose execute is running, whose onUpdate promise was
    \* rejected, and those a failed run left behind
    running, rejected, orphans,
    \* history: responses requested, messages sent by each way in, length of
    \* the transcript when the run began, whether the run emitted agent_end,
    \* whether an event reached listeners after the agent_end of its run
    turns, sent, base, ended, late

stateVars == <<messages, isStreaming, streamingMessage, pendingToolCalls, errorMessage>>
inboxVars == <<steeringQueue, followUpQueue>>
runVars   == <<activeRun, aborted>>
toolVars  == <<running, rejected, orphans>>
histVars  == <<turns, sent, base, ended, late>>
vars == <<stateVars, inboxVars, runVars, loop, toolVars, histVars>>
-----------------------------------------------------------------------------
StopReasons == {"none", "stop", "toolUse", "error", "aborted"}
CallIds     == Nat \X Nat

Messages ==
    [role : {"user", "assistant", "toolResult"}, id : UserMsgs \cup CallIds \cup {None},
     calls : Nat, stop : StopReasons]

User(u)           == [role |-> "user", id |-> u, calls |-> 0, stop |-> "none"]
Assistant(t, n, s) == [role |-> "assistant", id |-> <<t, 0>>, calls |-> n, stop |-> s]
ToolResult(c)     == [role |-> "toolResult", id |-> c, calls |-> 0, stop |-> "none"]
MisspeltFailure   == [role |-> "assistant", id |-> None, calls |-> 0, stop |-> "failed"] \* mutant
FailureMessage    == [role |-> "assistant", id |-> None, calls |-> 0,
                      stop |-> IF aborted THEN "aborted" ELSE "error"]
NoMessage         == [role |-> "assistant", id |-> None, calls |-> 0, stop |-> "none"]

EventTypes ==
    {"agent_start", "agent_end", "turn_start", "turn_end", "message_start", "message_end",
     "tool_execution_start", "tool_execution_end"}

Events ==
    {e \in [type : EventTypes, message : Messages] :
        e.type = "tool_execution_start" => e.message.id \in CallIds}

Event(type, m) == [type |-> type, message |-> m]

Announce(m)  == <<Event("message_start", m), Event("message_end", m)>>

(* What emitToolCallOutcome emits for a call.                              *)
Outcome(c) == <<Event("tool_execution_end", ToolResult(c))>> \o Announce(ToolResult(c))

AnnounceAll(ms) ==
    [i \in 1 .. 2 * Len(ms) |->
        Event(IF i % 2 = 1 THEN "message_start" ELSE "message_end", ms[(i + 1) \div 2])]

(* PendingMessageQueue.drain: what it returns and what it leaves.          *)
KeptAfterSlip(q) == <<>>   \* mutant: the queue is emptied in either mode
Drained(q) == IF QueueMode = "all" \/ q = <<>> THEN q ELSE <<Head(q)>>
Kept(q)    == IF QueueMode = "all" \/ q = <<>> THEN <<>> ELSE Tail(q)

IdleLoop ==
    [pc |-> "idle", todo |-> <<>>, emitting |-> FALSE, context |-> <<>>, newMessages |-> <<>>,
     pendingMessages |-> <<>>, assistant |-> NoMessage, next |-> 1, runnable |-> <<>>, results |-> <<>>]

Init ==
    /\ messages = <<>> /\ isStreaming = FALSE /\ streamingMessage = None
    /\ pendingToolCalls = {} /\ errorMessage = FALSE
    /\ steeringQueue = <<>> /\ followUpQueue = <<>>
    /\ activeRun = FALSE /\ aborted = FALSE
    /\ loop = IdleLoop
    /\ running = {} /\ rejected = {} /\ orphans = {}
    /\ turns = 0 /\ sent = [prompt |-> <<>>, steer |-> <<>>, followUp |-> <<>>]
    /\ base = 0 /\ ended = FALSE /\ late = FALSE
-----------------------------------------------------------------------------
(* The public interface.                                                   *)

Unsent(u) == \A way \in DOMAIN sent : \A i \in 1 .. Len(sent[way]) : sent[way][i].id # u

(* runWithLifecycle up to the first await, with the loop's own prologue:   *)
(* the context is a copy of the transcript plus the prompts.               *)
StartRun(prompts, skipInitialSteeringPoll) ==
    /\ ~activeRun
    /\ activeRun' = TRUE /\ aborted' = FALSE
    /\ isStreaming' = TRUE /\ streamingMessage' = None /\ errorMessage' = FALSE
    /\ loop' = [IdleLoop EXCEPT
                  !.pc = IF skipInitialSteeringPoll THEN "firstTurn" ELSE "initialPoll",
                  !.todo = <<Event("agent_start", NoMessage), Event("turn_start", NoMessage)>>
                             \o AnnounceAll(prompts),
                  !.context = messages \o prompts,
                  !.newMessages = prompts]
    /\ base' = Len(messages) /\ ended' = FALSE
    /\ UNCHANGED <<messages, pendingToolCalls, toolVars, turns, late>>

Prompt(u) ==
    /\ Unsent(u)
    /\ StartRun(<<User(u)>>, FALSE)
    /\ sent' = [sent EXCEPT !.prompt = Append(@, User(u))]
    /\ UNCHANGED inboxVars

(* continue(): from an assistant message only with queued messages; its    *)
(* other early exits throw and change nothing.                             *)
Continue ==
    /\ "continue" \in Api
    /\ messages # <<>>
    /\ IF messages[Len(messages)].role # "assistant"
         THEN StartRun(<<>>, FALSE) /\ UNCHANGED inboxVars
         ELSE IF steeringQueue # <<>>
         THEN /\ StartRun(Drained(steeringQueue), TRUE)
              /\ steeringQueue' = Kept(steeringQueue)
              /\ UNCHANGED followUpQueue
         ELSE /\ followUpQueue # <<>>
              /\ StartRun(Drained(followUpQueue), FALSE)
              /\ followUpQueue' = Kept(followUpQueue)
              /\ UNCHANGED steeringQueue
    /\ UNCHANGED sent

Steer(u) ==
    /\ "steer" \in Api
    /\ Unsent(u)
    /\ steeringQueue' = Append(steeringQueue, User(u))
    /\ sent' = [sent EXCEPT !.steer = Append(@, User(u))]
    /\ UNCHANGED <<stateVars, followUpQueue, runVars, loop, toolVars, turns, base, ended, late>>

FollowUp(u) ==
    /\ "followUp" \in Api
    /\ Unsent(u)
    /\ followUpQueue' = Append(followUpQueue, User(u))
    /\ sent' = [sent EXCEPT !.followUp = Append(@, User(u))]
    /\ UNCHANGED <<stateVars, steeringQueue, runVars, loop, toolVars, turns, base, ended, late>>

Abort ==
    /\ "abort" \in Api
    /\ activeRun /\ ~aborted
    /\ aborted' = TRUE
    /\ UNCHANGED <<stateVars, inboxVars, activeRun, loop, toolVars, histVars>>

ClearAllQueues ==
    /\ "clear" \in Api
    /\ steeringQueue' = <<>> /\ followUpQueue' = <<>>
    /\ UNCHANGED <<stateVars, runVars, loop, toolVars, histVars>>

Reset ==
    /\ "reset" \in Api
    /\ messages' = <<>> /\ isStreaming' = FALSE /\ streamingMessage' = None
    /\ pendingToolCalls' = {} /\ errorMessage' = FALSE
    /\ steeringQueue' = <<>> /\ followUpQueue' = <<>>
    /\ UNCHANGED <<runVars, loop, toolVars, histVars>>
-----------------------------------------------------------------------------
(* processEvents: reduce the state, then await the listeners.              *)
NeverUnpended(e) ==        \* mutant: tool_execution_end is not reduced
    IF e.type = "tool_execution_start" THEN pendingToolCalls \cup {e.message.id} ELSE pendingToolCalls

PendingAfter(e) ==
    CASE e.type = "tool_execution_start" -> pendingToolCalls \cup {e.message.id}
      [] e.type = "tool_execution_end" -> pendingToolCalls \ {e.message.id}
      [] OTHER -> pendingToolCalls

Emit ==
    /\ loop.todo # <<>>
    /\ LET e == Head(loop.todo)
           m == e.message
       IN  /\ streamingMessage' =
                CASE e.type = "message_start" -> m.id
                  [] e.type \in {"message_end", "agent_end"} -> None
                  [] OTHER -> streamingMessage
           /\ messages' = IF e.type = "message_end" THEN Append(messages, m) ELSE messages
           /\ pendingToolCalls' = PendingAfter(e)
           /\ errorMessage' = (errorMessage \/ (e.type = "turn_end" /\ m.stop \in {"error", "aborted"}))
           /\ late' = (late \/ ended)
           /\ ended' = (ended \/ e.type = "agent_end")
    /\ loop' = [loop EXCEPT !.todo = Tail(@), !.emitting = TRUE]
    /\ UNCHANGED <<isStreaming, inboxVars, runVars, toolVars, turns, sent, base>>

(* The loop goes on from the await named by at: every event announced      *)
(* before it has been emitted and its listeners have settled.              *)
Resume(at) == loop.pc = at /\ loop.todo = <<>>

Goto(at, todo) == [loop EXCEPT !.pc = at, !.todo = todo, !.emitting = FALSE]

(* What the loop adds to the messages it reports with agent_end.            *)
Collect(ms) == loop.newMessages \o ms

InitialPoll ==
    /\ Resume("initialPoll")
    /\ loop' = [Goto("firstTurn", <<>>) EXCEPT !.pendingMessages = Drained(steeringQueue)]
    /\ steeringQueue' = Kept(steeringQueue)
    /\ UNCHANGED <<stateVars, followUpQueue, runVars, toolVars, histVars>>

(* The top of the inner loop: inject the pending messages.                 *)
InjectPending ==
    /\ \/ Resume("firstTurn")
       \/ Resume("turn")
    /\ loop' = [Goto("request",
                     (IF loop.pc = "turn" THEN <<Event("turn_start", NoMessage)>> ELSE <<>>)
                        \o AnnounceAll(loop.pendingMessages))
                EXCEPT !.context = @ \o loop.pendingMessages,
                       !.newMessages = Collect(loop.pendingMessages),
                       !.pendingMessages = <<>>]
    /\ UNCHANGED <<stateVars, inboxVars, runVars, toolVars, histVars>>

(* streamAssistantResponse: the context goes to the model.                 *)
Request ==
    /\ Resume("request")
    /\ turns' = turns + 1
    /\ loop' = Goto("requested", <<>>)
    /\ UNCHANGED <<stateVars, inboxVars, runVars, toolVars, sent, base, ended, late>>

(* The stream's start event; updates after it change nothing kept here.    *)
StreamStart ==
    /\ Resume("requested")
    /\ loop' = Goto("streaming", <<Event("message_start", Assistant(turns, 0, "none"))>>)
    /\ UNCHANGED <<stateVars, inboxVars, runVars, toolVars, histVars>>

(* The final message.  A failed response may still hold tool calls, and a  *)
(* response ends "aborted" only when the run was aborted.                  *)
StreamDone(n, stop) ==
    /\ Resume("requested") \/ Resume("streaming")
    /\ turns > MaxTurns => n = 0
    /\ \/ stop = "stop" /\ n = 0
       \/ stop = "toolUse" /\ n > 0
       \/ stop = "error"
       \/ stop = "aborted" /\ aborted
    /\ LET m == Assistant(turns, n, stop)
       IN  loop' = [Goto("responded",
                         IF loop.pc = "requested" THEN Announce(m) ELSE <<Event("message_end", m)>>)
                    EXCEPT !.context = Append(@, m),
                           !.newMessages = Collect(<<m>>),
                           !.assistant = m]
    /\ UNCHANGED <<stateVars, inboxVars, runVars, toolVars, histVars>>

FallThrough == "pollFollowUp"            \* mutant: the return is missing
AfterFailedResponse == "finish"

Responded ==
    /\ Resume("responded")
    /\ loop' =
         IF loop.assistant.stop \in {"error", "aborted"}
           THEN Goto(AfterFailedResponse,
                     <<Event("turn_end", loop.assistant), Event("agent_end", NoMessage)>>)
         ELSE IF loop.assistant.calls = 0
           THEN Goto("turnEnd", <<>>)
           ELSE [Goto("tool", <<>>) EXCEPT !.next = 1]
    /\ UNCHANGED <<stateVars, inboxVars, runVars, toolVars, histVars>>
-----------------------------------------------------------------------------
(* Tool execution: executeToolCallsSequential and executeToolCallsParallel *)
(* share the loop over the calls; they differ in when a call is awaited.   *)

LastCallFirst == <<loop.assistant.id[1], loop.assistant.calls + 1 - loop.next>>   \* mutant
NextCall == <<loop.assistant.id[1], loop.next>>

MoreCallsOffByOne == loop.next < loop.assistant.calls   \* mutant
MoreCalls == loop.next <= loop.assistant.calls

StartCall ==
    /\ Resume("tool") /\ MoreCalls
    /\ loop' = Goto("prepare", <<Event("tool_execution_start", ToolResult(NextCall))>>)
    /\ UNCHANGED <<stateVars, inboxVars, runVars, toolVars, histVars>>

(* prepareToolCall: unknown tool, invalid arguments, or blocked by the     *)
(* beforeToolCall hook.  The outcome is emitted at once, in either mode.   *)
ImmediateOutcome ==
    /\ Resume("prepare")
    /\ loop' = [Goto("tool", Outcome(NextCall)) EXCEPT !.results = Append(@, ToolResult(NextCall)),
                                                       !.next = @ + 1]
    /\ UNCHANGED <<stateVars, inboxVars, runVars, toolVars, histVars>>

PreparedCall ==
    /\ Resume("prepare")
    /\ IF ToolExecution = "sequential"
         THEN /\ loop' = [Goto("await", <<>>) EXCEPT !.runnable = <<NextCall>>, !.next = @ + 1]
              /\ running' = {NextCall}
         ELSE /\ loop' = [Goto("tool", <<>>) EXCEPT !.runnable = Append(@, NextCall), !.next = @ + 1]
              /\ UNCHANGED running
    /\ UNCHANGED <<stateVars, inboxVars, runVars, rejected, orphans, histVars>>

(* Every call has been started: launch the prepared ones (none are left in *)
(* sequential mode) and await them in order.                               *)
LaunchPrepared ==
    /\ Resume("tool") /\ ~MoreCalls
    /\ running' = {loop.runnable[i] : i \in 1 .. Len(loop.runnable)}
    /\ loop' = Goto("await", <<>>)
    /\ UNCHANGED <<stateVars, inboxVars, runVars, rejected, orphans, histVars>>

(* A tool's execute settles, with a result or an error.                    *)
ToolSettles(c) ==
    /\ c \in running
    /\ running' = running \ {c}
    /\ UNCHANGED <<stateVars, inboxVars, runVars, loop, rejected, orphans, histVars>>

(* A listener throws on a tool_execution_update: Promise.all(updateEvents) *)
(* rejects, and executePreparedToolCall with it.                           *)
UpdateRejected(c) ==
    /\ ListenersFail
    /\ c \in running
    /\ rejected' = rejected \cup {c}
    /\ UNCHANGED <<stateVars, inboxVars, runVars, loop, running, orphans, histVars>>

(* finalizeExecutedToolCall for the first call still awaited.              *)
FinalizeCall ==
    /\ Resume("await") /\ loop.runnable # <<>>
    /\ Head(loop.runnable) \notin running \cup rejected
    /\ LET c == Head(loop.runnable)
       IN  loop' = [Goto(IF ToolExecution = "sequential" THEN "tool" ELSE "await", Outcome(c))
                    EXCEPT !.results = Append(@, ToolResult(c)), !.runnable = Tail(@)]
    /\ UNCHANGED <<stateVars, inboxVars, runVars, toolVars, histVars>>

CallsExecuted ==
    /\ Resume("await") /\ loop.runnable = <<>>
    /\ loop' = Goto("turnEnd", <<>>)
    /\ UNCHANGED <<stateVars, inboxVars, runVars, toolVars, histVars>>
-----------------------------------------------------------------------------
ResultsForgotten == loop.context          \* mutant
ContextWithResults == loop.context \o loop.results

TurnEnd ==
    /\ Resume("turnEnd")
    /\ loop' = [Goto("pollSteering", <<Event("turn_end", loop.assistant)>>)
                EXCEPT !.context = ContextWithResults,
                       !.newMessages = Collect(loop.results),
                       !.results = <<>>]
    /\ UNCHANGED <<stateVars, inboxVars, runVars, toolVars, histVars>>

PollSteering ==
    /\ Resume("pollSteering")
    /\ loop' = [Goto(IF loop.assistant.calls > 0 \/ steeringQueue # <<>> THEN "turn" ELSE "pollFollowUp", <<>>)
                EXCEPT !.pendingMessages = Drained(steeringQueue)]
    /\ steeringQueue' = Kept(steeringQueue)
    /\ UNCHANGED <<stateVars, followUpQueue, runVars, toolVars, histVars>>

PollFollowUp ==
    /\ Resume("pollFollowUp")
    /\ loop' = IF followUpQueue # <<>>
                 THEN [Goto("turn", <<>>) EXCEPT !.pendingMessages = Drained(followUpQueue)]
                 ELSE Goto("finish", <<Event("agent_end", NoMessage)>>)
    /\ followUpQueue' = Kept(followUpQueue)
    /\ UNCHANGED <<stateVars, steeringQueue, runVars, toolVars, histVars>>

(* finishRun, in the finally block of runWithLifecycle.                    *)
FlagsKept ==              \* mutant: the calls of a failed run stay pending
    /\ isStreaming' = FALSE /\ streamingMessage' = None /\ UNCHANGED pendingToolCalls
    /\ activeRun' = FALSE /\ aborted' = FALSE
    /\ loop' = IdleLoop

NoFinally ==              \* mutant: a failed run skips finishRun
    /\ isStreaming' = FALSE /\ streamingMessage' = None /\ pendingToolCalls' = {}
    /\ activeRun' = (loop.pc = "failing") /\ aborted' = FALSE
    /\ loop' = IdleLoop

Settle ==
    /\ isStreaming' = FALSE /\ streamingMessage' = None /\ pendingToolCalls' = {}
    /\ activeRun' = FALSE /\ aborted' = FALSE
    /\ loop' = IdleLoop

FinishRun ==
    /\ Resume("finish") \/ Resume("failing")
    /\ Settle
    /\ UNCHANGED <<messages, errorMessage, inboxVars, toolVars, histVars>>

(* The executor rejects: handleRunFailure.  Tools that are still running   *)
(* are nobody's any more.                                                  *)
FailRun ==
    /\ messages' = Append(messages, FailureMessage)
    /\ errorMessage' = TRUE
    /\ loop' = [IdleLoop EXCEPT !.pc = "failing", !.todo = <<Event("agent_end", NoMessage)>>]
    /\ orphans' = orphans \cup running
    /\ running' = {} /\ rejected' = {}
    /\ UNCHANGED <<isStreaming, streamingMessage, pendingToolCalls, inboxVars, runVars, histVars>>

StreamThrows == StreamFails /\ Resume("request") /\ FailRun

CallRejected ==
    /\ Resume("await") /\ loop.runnable # <<>>
    /\ Head(loop.runnable) \in rejected \ running
    /\ FailRun

(* A listener of the last emitted event throws.                            *)
ListenerThrows == ListenersFail /\ loop.emitting /\ loop.pc # "failing" /\ FailRun

(* The same inside handleRunFailure: only the finally block is left.       *)
FailureListenerThrows ==
    /\ ListenersFail /\ loop.emitting /\ loop.pc = "failing"
    /\ Settle
    /\ UNCHANGED <<messages, errorMessage, inboxVars, toolVars, histVars>>

(* A tool left behind calls onUpdate.  With no active run processEvents    *)
(* throws before it reaches a listener; otherwise the listeners are given  *)
(* the event with the signal of the run that is active now.                *)
OrphanUpdate(c) ==
    /\ c \in orphans
    /\ activeRun
    /\ late' = (late \/ ended \/ loop.pc # "failing")
    /\ UNCHANGED <<stateVars, inboxVars, runVars, loop, toolVars, turns, sent, base, ended>>

OrphanSettles(c) ==
    /\ c \in orphans
    /\ orphans' = orphans \ {c}
    /\ UNCHANGED <<stateVars, inboxVars, runVars, loop, running, rejected, histVars>>
-----------------------------------------------------------------------------
LoopStep ==
    \/ Emit
    \/ InitialPoll \/ InjectPending \/ Request \/ StreamStart \/ Responded
    \/ \E n \in 0 .. MaxCalls, stop \in StopReasons : StreamDone(n, stop)
    \/ StartCall \/ ImmediateOutcome \/ PreparedCall \/ LaunchPrepared
    \/ FinalizeCall \/ CallsExecuted
    \/ TurnEnd \/ PollSteering \/ PollFollowUp \/ FinishRun
    \/ StreamThrows \/ CallRejected \/ ListenerThrows \/ FailureListenerThrows

Interface ==
    \/ \E u \in UserMsgs : Prompt(u) \/ Steer(u) \/ FollowUp(u)
    \/ Continue \/ Abort \/ ClearAllQueues \/ Reset

ToolStep ==
    \E c \in running \cup orphans :
        ToolSettles(c) \/ UpdateRejected(c) \/ OrphanUpdate(c) \/ OrphanSettles(c)

Next == LoopStep \/ Interface \/ ToolStep

(* The event loop runs every ready continuation, a requested response      *)
(* arrives and a running tool settles.                                     *)
Fairness ==
    /\ WF_vars(LoopStep)
    /\ WF_vars(\E c \in running : ToolSettles(c))

Spec == Init /\ [][Next]_vars /\ Fairness
-----------------------------------------------------------------------------
PCs ==
    {"idle", "initialPoll", "firstTurn", "turn", "request", "requested", "streaming", "responded",
     "tool", "prepare", "await", "turnEnd", "pollSteering", "pollFollowUp", "finish", "failing"}

Loops ==
    [pc : PCs, todo : Seq(Events), emitting : BOOLEAN,
     context : Seq(Messages), newMessages : Seq(Messages), pendingMessages : Seq(Messages),
     assistant : Messages, next : Nat, runnable : Seq(CallIds), results : Seq(Messages)]

StateTypeOK ==
    /\ messages \in Seq(Messages)
    /\ isStreaming \in BOOLEAN /\ errorMessage \in BOOLEAN
    /\ streamingMessage \in UserMsgs \cup CallIds \cup {None}
    /\ pendingToolCalls \subseteq CallIds

InboxTypeOK == steeringQueue \in Seq(Messages) /\ followUpQueue \in Seq(Messages)

RunTypeOK == activeRun \in BOOLEAN /\ aborted \in BOOLEAN

LoopTypeOK == loop \in Loops

ToolTypeOK == running \subseteq CallIds /\ rejected \subseteq CallIds /\ orphans \subseteq CallIds

HistoryTypeOK ==
    /\ turns \in Nat /\ base \in Nat /\ ended \in BOOLEAN /\ late \in BOOLEAN
    /\ sent \in [prompt : Seq(Messages), steer : Seq(Messages), followUp : Seq(Messages)]

(* Every variable keeps its type: messages, events and calls are well      *)
(* formed wherever they are kept, and the loop is at a known await.        *)
TypeOK ==
    StateTypeOK /\ InboxTypeOK /\ RunTypeOK /\ LoopTypeOK /\ ToolTypeOK /\ HistoryTypeOK

Failed(m) == m.stop \in {"error", "aborted"}

(* The transcript is kept twice: the loop appends to its context, the      *)
(* listeners' reducer to state.messages.  Whenever the model is asked, the *)
(* two agree: what the user is shown is what the model was given.          *)
ModelSeesTranscript ==
    loop.pc = "requested" => loop.context = messages

(* The n results that follow the response at position i.                   *)
ResultIds(i, n) == [k \in 1 .. n |-> messages[i + k].id]

CallsAt(i) == [k \in 1 .. messages[i].calls |-> <<messages[i].id[1], k>>]

RespondedWithCalls(i) ==
    messages[i].role = "assistant" /\ messages[i].calls > 0 /\ ~Failed(messages[i])

(* When the model is asked, every call of every earlier response has       *)
(* exactly one result, before any other message: a steering message is not *)
(* put between a call and its result ("Tool calls from the current         *)
(* assistant message are not skipped", types.ts:163).                      *)
EveryCallAnswered ==
    loop.pc = "requested" =>
        \A i \in 1 .. Len(messages) : RespondedWithCalls(i) =>
            LET n == messages[i].calls
            IN  /\ i + n <= Len(messages)
                /\ {ResultIds(i, n)[k] : k \in 1 .. n} = {CallsAt(i)[k] : k \in 1 .. n}

(* "Final tool results are still emitted in assistant source order"        *)
(* (types.ts:33).                                                          *)
ResultsInSourceOrder ==
    loop.pc = "requested" =>
        \A i \in 1 .. Len(messages) :
            RespondedWithCalls(i) => ResultIds(i, messages[i].calls) = CallsAt(i)

(* agent_end carries the messages of the run: what the loop collected is   *)
(* what the reducer appended since the run began.                          *)
AgentEndReportsRun ==
    Resume("finish") => messages = SubSeq(messages, 1, base) \o loop.newMessages

(* A run keeps three transcripts: what the model is given, what the user   *)
(* sees and what agent_end reports.  They agree whenever one is used.      *)
TranscriptsAgree == ModelSeesTranscript /\ AgentEndReportsRun

(* Where a message sent may be: in the transcript, announced, drained from *)
(* its queue, or still queued; and the order of these places.              *)
Ends(todo) == {i \in DOMAIN todo : todo[i].type = "message_end"}
Line(queue) ==
    <<messages, [i \in Ends(loop.todo) |-> loop.todo[i].message], loop.pendingMessages, queue>>
Places(queue) == UNION {{k} \X DOMAIN Line(queue)[k] : k \in 1 .. 4}
Before(p, q)  == p[1] < q[1] \/ (p[1] = q[1] /\ p[2] < q[2])

Accounted(way, queue) ==
    LET Holds(p, i) == Line(queue)[p[1]][p[2]] = sent[way][i]
    IN  /\ \A k \in DOMAIN queue : \E i \in DOMAIN sent[way] : queue[k] = sent[way][i]
        /\ \A i \in DOMAIN sent[way] : \E p \in Places(queue) : Holds(p, i)
        /\ \A i, j \in DOMAIN sent[way] : \A p, q \in Places(queue) :
             Holds(p, i) /\ Holds(q, j) => (i < j <=> Before(p, q))

(* A queued message is injected exactly once, and messages queued one way  *)
(* in the order they were queued: each that was sent is in one place, the  *)
(* places are in the order of sending, and a queue holds nothing else      *)
(* (PendingMessageQueue.drain, agent.ts:125).                              *)
QueuedOnceInOrder ==
    Accounted("steer", steeringQueue) /\ Accounted("followUp", followUpQueue)

(* The calls shown as pending are right: a running call is pending, and    *)
(* none is left pending when the model is asked again or the agent idles.  *)
PendingCallsAccurate ==
    /\ running \subseteq pendingToolCalls
    /\ loop.pc \in {"idle", "request", "requested"} => pendingToolCalls = {}

(* Nothing of a run is left when the agent is idle: neither a streaming    *)
(* message, nor the flag, nor a tool call the run still waits for.         *)
IdleIsClean ==
    ~activeRun =>
        /\ ~isStreaming /\ streamingMessage = None /\ pendingToolCalls = {}
        /\ running = {} /\ loop = IdleLoop

(* "agent.state.isStreaming remains true until the run fully settles"      *)
(* (README.md:222 of packages/agent).                                      *)
StreamingWhileActive == activeRun => isStreaming

(* "agent_end is the final emitted event for a run" (agent.ts:213).        *)
AgentEndIsFinal == ~late

(* "Queue a message to be injected after the current assistant turn        *)
(* finishes" (agent.ts:248): a run whose last response did not fail ends   *)
(* with both queues empty.                                                 *)
NothingStranded ==
    [][activeRun /\ ~activeRun' /\ loop.pc = "finish" /\ ~Failed(loop.assistant)
         => steeringQueue = <<>> /\ followUpQueue = <<>>]_vars

(* The run as AgentContract has it: what was announced, and the results    *)
(* the transcript still lacks for the calls of its last answer.            *)
LastAnswer ==
    {i \in 1 .. Len(messages) :
        RespondedWithCalls(i) /\ \A j \in i + 1 .. Len(messages) : messages[j].role # "assistant"}

ResultsAfter(i) ==
    {j \in i + 1 .. Len(messages) :
        messages[j].role = "toolResult" /\ messages[j].id[1] = messages[i].id[1]}

Owed ==
    IF LastAnswer = {}
      THEN 0
      ELSE LET i == CHOOSE i \in LastAnswer : TRUE
           IN  messages[i].calls - Cardinality(ResultsAfter(i))

Speaking == loop.pc \in {"initialPoll", "firstTurn", "turn", "request"}
Asked    == loop.pc \in {"requested", "streaming"} \/ (loop.pc = "responded" /\ loop.todo # <<>>)

Stage ==
    IF ~activeRun THEN "idle"
    ELSE IF ended THEN "ended"
    ELSE IF Speaking THEN "speaking"
    ELSE IF Asked THEN "asked"
    ELSE IF loop.pc = "failing" \/ Failed(loop.assistant) THEN "failed" ELSE "answered"

Contract == INSTANCE AgentContract WITH MaxOwed <- MaxCalls, stage <- Stage, owed <- Owed

(* When no listener throws, every run goes through the stages of the       *)
(* contract: nothing is asked or ended while a result is owed, and a       *)
(* failed response ends the run.                                           *)
FollowsContract == Contract!ContractSpec

(* Every run settles: prompt() and waitForIdle() return.                   *)
RunSettles == activeRun ~> ~activeRun
=============================================================================
