------------------------- MODULE AgentSession_proofs -------------------------
(***************************************************************************)
(* What AgentSession keeps for any numbers of texts, callers, responses.   *)
(*                                                                         *)
(* The run it subscribes to, awaits, aborts and starts again keeps the     *)
(* contract of AgentContract, whatever the handler, the callers and the    *)
(* timers do: with it, Agent and AgentSession meet in one specification.   *)
(* Then the line from the callers to the session file (Line): each text is *)
(* in one place at a time, and what ended is written once and in order.    *)
(* Then the display of the queues (Shown), which runs behind the queues by *)
(* the texts in flight.                                                    *)
(***************************************************************************)
EXTENDS AgentSession, TLAPS

Answers == [role : {"assistant"}, id : Nat, stop : Stops]
GoodAnswers == {m \in Answers : m.stop \notin Errors \cup {"aborted"}}

(* The position of the run, and what its last response may be there.       *)
Run ==
    /\ run = [pc |-> run.pc, todo |-> run.todo, last |-> run.last, aborted |-> run.aborted,
              owner |-> run.owner]
    /\ run.pc \in {"none", "poll", "request", "response", "tools", "end", "settling"}
    /\ run.last \in Answers \cup {None}
    /\ run.pc = "poll" => run.last \in GoodAnswers \cup {None}
    /\ run.pc = "tools" => run.last \in GoodAnswers \ {None}
    /\ run.pc = "end" => run.last \in Answers \ {None}
    /\ asked \in Nat

(* Answers are messages, not the absence of one.                           *)
LEMMA AnswerIsAnswer ==
    ASSUME NEW n \in Nat, NEW stop \in Stops
    PROVE  Assistant(n, stop) \in Answers /\ Assistant(n, stop) # None
<1>1. Assistant(n, stop) \in Answers
  BY DEF Assistant, Answers
<1>2. Answers \subseteq Messages
  BY DEF Answers, Messages, Roles
<1> QED BY <1>1, <1>2, NoneAssumption

(* An answer that is neither an error nor aborted has not failed.          *)
LEMMA GoodAnswer ==
    ASSUME NEW m \in Answers
    PROVE  ~Failed(m) <=> m \in GoodAnswers
BY DEF Answers, GoodAnswers, Failed, IsAssistant

(* The handler and the callers of the session change nothing of a run but  *)
(* whether it is aborted, and start one only when there is none.           *)
Starts == ~isStreaming /\ \E todo, owner : \E skip \in BOOLEAN : StartRun(todo, skip, owner)

(* Callers, handler and timers change of a run at most its abort flag.     *)
LEMMA OthersLeaveRun ==
    ASSUME HandlerStep \/ TimerFires \/ Interface \/ CallStep
    PROVE  UNCHANGED run \/ run' = [run EXCEPT !.aborted = isStreaming] \/ Starts
<1>1. CASE HandlerStep
  BY <1>1 DEF HandlerStep, TakeEvent, PersistMessage, ForwardEvent, HandleEnd, HandleRetry, WakeUp,
     RetryCancelled, AutoCompact, agentVars
<1>2. CASE TimerFires
  BY <1>2 DEF TimerFires, Starts, isStreaming
<1>3. CASE Interface
  BY <1>3 DEF Interface, Steer, FollowUp, Queue, Prompt, RecordBashResult, ClearQueue, Abort, ManualCompact, Aborted
<1>4. CASE CallStep
  <2>1. ASSUME NEW c \in Callers, PromptStarts(c)
        PROVE  UNCHANGED run \/ Starts
    BY <2>1 DEF PromptStarts, Starts
  <2> QED
    BY <1>4, <2>1 DEF CallStep, PromptCompacts, PromptRetried, ManualPrepares, ManualCompacted, agentVars
<1> QED BY <1>1, <1>2, <1>3, <1>4

(* Nor do they count as requests to the model.                             *)
LEMMA OthersLeaveAsked ==
    ASSUME HandlerStep \/ TimerFires \/ Interface \/ CallStep
    PROVE  UNCHANGED asked
<1>1. CASE HandlerStep
  BY <1>1 DEF HandlerStep, TakeEvent, PersistMessage, ForwardEvent, HandleEnd, HandleRetry, WakeUp,
     RetryCancelled, AutoCompact, historyVars
<1>2. CASE TimerFires
  BY <1>2 DEF TimerFires, historyVars
<1>3. CASE Interface
  BY <1>3 DEF Interface, Steer, FollowUp, Queue, Prompt, RecordBashResult, ClearQueue, Abort, ManualCompact, historyVars
<1>4. CASE CallStep
  BY <1>4 DEF CallStep, PromptCompacts, PromptStarts, PromptRetried, ManualPrepares, ManualCompacted, historyVars
<1> QED BY <1>1, <1>2, <1>3, <1>4

(* The steps of the run itself, and what each is in the contract.          *)
LEMMA RunInit == Init => Run /\ Contract!ContractInit
BY DEF Init, NoRun, Run, Stage, Owed, Contract!ContractInit

(* The steps of the run, one lemma each: the prompt is announced,          *)
LEMMA AnnounceStep ==
    ASSUME Run, Announce
    PROVE  Run' /\ UNCHANGED <<Stage, Owed>>
BY DEF Run, Announce, Stage, Owed, historyVars

(* the queues are polled,                                                  *)
LEMMA PollStep ==
    ASSUME Run, Poll
    PROVE  Run' /\ (UNCHANGED <<Stage, Owed>> \/ Contract!NextTurn)
BY DEF Run, Poll, At, WouldStop, Stage, Owed, GoodAnswers, Answers, historyVars, Contract!NextTurn, Contract!Moves

(* the model is asked,                                                     *)
LEMMA RequestStep ==
    ASSUME Run, Request
    PROVE  Run' /\ Contract!AskModel
BY DEF Run, Request, At, Stage, Owed, Contract!AskModel, Contract!Moves

(* it answers,                                                             *)
LEMMA RespondStep ==
    ASSUME Run, NEW stop \in Stops, Respond(stop)
    PROVE  Run' /\ (Contract!Answer \/ Contract!AnswerFails)
<1>1. PICK m \in Answers : m # None /\ m = Assistant(asked, stop)
  BY AnswerIsAnswer DEF Run
<1>2. Failed(m) <=> m \notin GoodAnswers
  BY GoodAnswer
<1>3. UNCHANGED asked /\ run.pc = "response"
  BY DEF Respond, At, historyVars
<1>4. CASE Failed(m)
  <2>0. stop # "toolUse"
    BY <1>1, <1>4 DEF Failed, Assistant, Errors
  <2>1. run' = [run EXCEPT !.pc = "end", !.last = m]
    BY <1>1, <1>4, <2>0 DEF Respond
  <2>2. Run' /\ run'.pc = "end" /\ run'.last = m
    BY <1>1, <1>3, <2>1 DEF Run
  <2>3. m.stop \in Errors \cup {"aborted"}
    BY <1>2, <1>4 DEF GoodAnswers
  <2> QED BY <1>3, <2>2, <2>3 DEF Stage, Owed, Contract!AnswerFails, Contract!Moves
<1>5. CASE ~Failed(m)
  <2>1. PICK pc \in {"tools", "poll"} : run' = [run EXCEPT !.pc = pc, !.last = m]
    BY <1>1, <1>5 DEF Respond
  <2>2. Run' /\ run'.pc = pc /\ run'.last = m
    BY <1>1, <1>2, <1>3, <1>5, <2>1 DEF Run
  <2>3. m.stop \notin Errors \cup {"aborted"} /\ m # None
    BY <1>1, <1>2, <1>5 DEF GoodAnswers
  <2> QED BY <1>3, <2>2, <2>3 DEF Stage, Owed, Contract!Answer, Contract!Moves
<1> QED BY <1>4, <1>5

(* the calls are answered,                                                 *)
LEMMA ToolsStep ==
    ASSUME Run, ToolsExecuted
    PROVE  Run' /\ Contract!Result
BY DEF Run, ToolsExecuted, At, Stage, Owed, GoodAnswers, historyVars, Contract!Result

(* the run ends,                                                           *)
LEMMA EndStep ==
    ASSUME Run, RunEnds
    PROVE  Run' /\ Contract!EndRun
BY DEF Run, RunEnds, At, Stage, Owed, historyVars, Contract!EndRun, Contract!Moves

(* or fails with an exception,                                             *)
LEMMA ThrowStep ==
    ASSUME Run, NEW stop \in Stops, RunThrows(stop)
    PROVE  Run' /\ Contract!ThrowInStream
BY DEF Run, RunThrows, At, Stage, Owed, historyVars, Contract!ThrowInStream, Contract!Moves

(* and the caller is told.                                                 *)
LEMMA SettleStep ==
    ASSUME Run, RunSettles
    PROVE  Run' /\ Contract!SettleRun
BY DEF Run, RunSettles, NoRun, Stage, Owed, Contract!SettleRun, Contract!Moves

(* Every other step stutters, begins a run or aborts it.                   *)
LEMMA OtherStep ==
    ASSUME Run, HandlerStep \/ TimerFires \/ Interface \/ CallStep
    PROVE  Run' /\ (UNCHANGED <<Stage, Owed>> \/ Contract!BeginRun)
<1>1. UNCHANGED asked
  BY OthersLeaveAsked
<1>2. CASE UNCHANGED run
  BY <1>1, <1>2 DEF Run, Stage, Owed
<1>3. CASE run' = [run EXCEPT !.aborted = isStreaming]
  BY <1>1, <1>3 DEF Run, Stage, Owed
<1>4. CASE Starts
  BY <1>1, <1>4 DEF Starts, StartRun, isStreaming, Run, Stage, Owed, Contract!BeginRun, Contract!Moves
<1> QED BY OthersLeaveRun, <1>2, <1>3, <1>4

(* Every step of the session is a step of the contract or a stutter.       *)
LEMMA StepFollowsContract ==
    ASSUME Run, [Next]_vars
    PROVE  Run' /\ [Contract!ContractNext]_(Contract!contractVars)
<1>1. CASE AgentStep
  BY <1>1, AnnounceStep, PollStep, RequestStep, RespondStep, ToolsStep, EndStep, ThrowStep, SettleStep
     DEF AgentStep, Contract!ContractNext, Contract!contractVars
<1>2. CASE HandlerStep \/ TimerFires \/ Interface \/ CallStep
  BY <1>2, OtherStep DEF Contract!ContractNext, Contract!contractVars
<1>3. CASE UNCHANGED vars
  BY <1>3 DEF vars, agentVars, historyVars, Run, Stage, Owed, Contract!contractVars
<1> QED BY <1>1, <1>2, <1>3 DEF Next

(* The session is built on the contract: whatever is prompted, aborted,    *)
(* compacted, retried or continued by a timer, the run it subscribes to    *)
(* goes through the stages of AgentContract and never begins beside        *)
(* another (agent-session.ts:1015-1065 and 2463-2472 over agent.ts).       *)
THEOREM SessionFollowsContract == Spec => FollowsContract
<1>1. Init => Run /\ Contract!ContractInit
  BY RunInit
<1>2. Run /\ [Next]_vars => Run' /\ [Contract!ContractNext]_(Contract!contractVars)
  BY StepFollowsContract
<1> QED BY <1>1, <1>2, PTL DEF Spec, FollowsContract, Contract!ContractSpec
-----------------------------------------------------------------------------
(***************************************************************************)
(* What is on its way: texts to the run, ended messages to the file.  The  *)
(* handler may be far behind the run, callers and timers come between; yet *)
(* each text has one place at a time and each message ends up in the file  *)
(* once and in order.                                                      *)
(***************************************************************************)
Places == {"recovering", "compacting", "starting"}
Ways   == {"steer", "followUp"}

Todo         == {run.todo[i].id : i \in DOMAIN run.todo}
InQueue(way) == {queued[way][i].id : i \in DOMAIN queued[way]}
Starting(c)  == IF prompts[c].pc \in Places THEN {prompts[c].text} ELSE {}

(* The messages of the file, and those on their way to it.                 *)
InFile    == {entries[i].message : i \in {j \in DOMAIN entries : entries[j].type = "message"}}
InHandler == IF handler.pc = "hooks" /\ handler.event.type = "message_end" THEN {handler.event.message} ELSE {}
InEvents  == {events[i].message : i \in {j \in DOMAIN events : events[j].type = "message_end"}}
Ended     == InFile \cup InHandler \cup InEvents
Sent      == {m.id : m \in {n \in Ended : n.role = "user"}}

UserMessages  == [role : {"user"}, id : Texts, stop : {"none"}]
ModelMessages == [role : {"assistant", "toolResult"}, id : Nat, stop : Stops]
BashMessages  == [role : {"bash"}, id : Bashes, stop : {"none"}]
Endable       == UserMessages \cup ModelMessages

(* Answers and tool results are numbered; the run says which comes next.   *)
Numbered(m)  == m.role \in {"assistant", "toolResult"}
Key(m)       == IF m.role = "assistant" THEN 2 * m.id ELSE 2 * m.id + 1
NextKey      == CASE run.pc = "response" -> 2 * asked
                  [] run.pc = "tools" -> 2 * asked + 1
                  [] OTHER -> 2 * asked + 2
Before(m, n) == m # n /\ (Numbered(m) /\ Numbered(n) => Key(m) < Key(n))

AllEvents == [type : {"message_start"}, message : UserMessages]
               \cup [type : {"message_end"}, message : Endable]
               \cup [type : {"agent_end"}, message : {None}]
Entries == [type : {"message"}, message : Endable \cup BashMessages, kept : Nat, at : Nat]
             \cup [type : {"compaction"}, message : [role : {"summary"}, id : Nat, stop : {"none"}], kept : Nat, at : Nat]
RunPoints  == {"none", "poll", "request", "response", "tools", "end", "settling"}
CallPoints == {"idle", "recovering", "compacting", "starting", "running", "waitRetry", "retried", "waitIdle"}

RunType ==
    /\ queued \in [steer : Seq(UserMessages), followUp : Seq(UserMessages)]
    /\ run = [pc |-> run.pc, todo |-> run.todo, last |-> run.last, aborted |-> run.aborted,
              owner |-> run.owner]
    /\ run.pc \in RunPoints /\ asked \in Nat
    /\ run.todo \in Seq(UserMessages) /\ Len(run.todo) <= 1

EventType ==
    /\ events \in Seq(AllEvents)
    /\ handler = [pc |-> handler.pc, event |-> handler.event, kept |-> handler.kept]
    /\ handler.kept \in Nat
    /\ handler.pc = "hooks" => handler.event \in AllEvents

FileType ==
    /\ pendingBash \in Seq(BashMessages)
    /\ entries \in Seq(Entries)
    /\ compacting = [pc |-> compacting.pc, kept |-> compacting.kept] /\ compacting.kept \in Nat

CallType ==
    /\ prompts \in [Callers -> [pc : CallPoints, text : Texts \cup {None}, kept : Nat]]
    /\ \A c \in Callers : prompts[c].pc \in Places => prompts[c].text \in Texts

LineType == RunType /\ EventType /\ FileType /\ CallType

(* A text is in one place at a time.                                       *)
QueuesApart ==
    \A way \in Ways : \A i, j \in DOMAIN queued[way] : i # j => queued[way][i].id # queued[way][j].id
PlacesApart ==
    /\ Todo \cup InQueue("steer") \cup InQueue("followUp") \cup Sent \subseteq used
    /\ Todo \cap (InQueue("steer") \cup InQueue("followUp") \cup Sent) = {}
    /\ InQueue("steer") \cap InQueue("followUp") = {}
    /\ Sent \cap (InQueue("steer") \cup InQueue("followUp")) = {}
CallsApart ==
    /\ \A c \in Callers : Starting(c) \subseteq used
    /\ \A c, d \in Callers : c # d => Starting(c) \cap Starting(d) = {}
    /\ \A c \in Callers : Starting(c) \cap (Todo \cup InQueue("steer") \cup InQueue("followUp") \cup Sent) = {}

(* What is written is written once and in order.                           *)
FileInOrder ==
    \A i, j \in DOMAIN entries :
        i < j /\ entries[i].type = "message" /\ entries[j].type = "message" =>
            Before(entries[i].message, entries[j].message)
EventsInOrder ==
    \A i, j \in DOMAIN events :
        i < j /\ events[i].type = "message_end" /\ events[j].type = "message_end" =>
            Before(events[i].message, events[j].message)
LineInOrder ==
    /\ \A m \in InFile, n \in InHandler : Before(m, n)
    /\ \A m \in InFile, n \in InEvents : Before(m, n)
    /\ \A m \in InHandler, n \in InEvents : Before(m, n)
KeysBelow == \A m \in Ended : Numbered(m) => Key(m) < NextKey

(* A bash result is written at once or later, and once.                    *)
BashOnce ==
    /\ \A i \in DOMAIN pendingBash : pendingBash[i].id \in used /\ pendingBash[i] \notin InFile
    /\ \A i, j \in DOMAIN pendingBash : i # j => pendingBash[i] # pendingBash[j]
    /\ \A m \in InFile : m.role = "bash" => m.id \in used

Line ==
    /\ LineType
    /\ QueuesApart /\ PlacesApart /\ CallsApart
    /\ FileInOrder /\ EventsInOrder /\ LineInOrder /\ KeysBelow
    /\ BashOnce
-----------------------------------------------------------------------------
(* What the run says is queued for the handler, if the session listens.    *)
LEMMA EventTyped ==
    ASSUME NEW m
    PROVE  /\ m \in UserMessages => Event("message_start", m) \in AllEvents
           /\ m \in Endable => Event("message_end", m) \in AllEvents
           /\ Event("agent_end", None) \in AllEvents
           /\ Event("message_start", m).type = "message_start" /\ Event("message_start", m).message = m
           /\ Event("message_end", m).type = "message_end" /\ Event("message_end", m).message = m
           /\ Event("agent_end", m).type = "agent_end"
BY DEF Event, AllEvents, Endable

(* Nothing but an ended message comes to the line.                         *)
LEMMA LineGrows ==
    ASSUME NEW es \in Seq(AllEvents), events \in Seq(AllEvents), events' = events \o es,
           NEW M, \A i \in DOMAIN es : es[i].type = "message_end" => es[i].message \in M
    PROVE  /\ events' \in Seq(AllEvents)
           /\ InEvents' \subseteq InEvents \cup M
<1>1. events' \in Seq(AllEvents) /\ Len(events') = Len(events) + Len(es)
  OBVIOUS
<1>2. ASSUME NEW j \in DOMAIN events', events'[j].type = "message_end"
      PROVE  events'[j].message \in InEvents \cup M
  <2>1. CASE j <= Len(events)
    <3>1. j \in DOMAIN events /\ events'[j] = events[j]
      BY <2>1
    <3> QED BY <1>2, <3>1 DEF InEvents
  <2>2. CASE ~(j <= Len(events))
    <3>1. j - Len(events) \in DOMAIN es /\ events'[j] = es[j - Len(events)]
      BY <1>1, <2>2
    <3> QED BY <1>2, <3>1
  <2> QED BY <2>1, <2>2
<1> QED BY <1>1, <1>2 DEF InEvents

(* One more ended message, after all those on their way.                   *)
LEMMA EventsStayInOrder ==
    ASSUME NEW es \in Seq(AllEvents), events \in Seq(AllEvents), events' = events \o es,
           EventsInOrder, NEW m,
           \A i \in DOMAIN es : es[i].type = "message_end" => i = Len(es) /\ es[i].message = m,
           \A n \in InEvents : Before(n, m)
    PROVE  EventsInOrder'
<1>1. Len(events') = Len(events) + Len(es) /\ Len(events) \in Nat /\ Len(es) \in Nat
  OBVIOUS
<1>2. ASSUME NEW i \in DOMAIN events', NEW j \in DOMAIN events', i < j,
             events'[i].type = "message_end", events'[j].type = "message_end"
      PROVE  Before(events'[i].message, events'[j].message)
  <2>1. CASE j <= Len(events)
    <3>1. i \in DOMAIN events /\ j \in DOMAIN events /\ events'[i] = events[i] /\ events'[j] = events[j]
      BY <1>2, <2>1
    <3> QED BY <1>2, <3>1 DEF EventsInOrder
  <2>2. CASE ~(j <= Len(events))
    <3>1. j - Len(events) \in DOMAIN es /\ events'[j] = es[j - Len(events)]
      BY <1>1, <2>2
    <3>2. j - Len(events) = Len(es) /\ events'[j].message = m
      BY <1>2, <3>1
    <3>3. i <= Len(events)
      <4>1. SUFFICES ASSUME ~(i <= Len(events)) PROVE FALSE
        BY <1>1, <1>2
      <4>2. i - Len(events) \in DOMAIN es /\ events'[i] = es[i - Len(events)]
        BY <1>1, <4>1
      <4>3. i - Len(events) = Len(es)
        BY <1>2, <4>2
      <4> QED BY <1>1, <1>2, <3>2, <4>3
    <3>4. i \in DOMAIN events /\ events'[i] = events[i]
      BY <1>1, <3>3
    <3>5. events[i].message \in InEvents
      BY <1>2, <3>4 DEF InEvents
    <3> QED BY <3>2, <3>4, <3>5
  <2> QED BY <2>1, <2>2
<1> QED BY <1>2 DEF EventsInOrder

(* A message ends.                                                         *)
LEMMA NotifyEnd ==
    ASSUME EventType, EventsInOrder, NEW m \in Endable, Notify(<<Event("message_end", m)>>),
           \A n \in InEvents : Before(n, m)
    PROVE  events' \in Seq(AllEvents) /\ InEvents' \subseteq InEvents \cup {m} /\ EventsInOrder'
<1> DEFINE es == <<Event("message_end", m)>>
<1>1. CASE events' = events
  BY <1>1 DEF EventType, InEvents, EventsInOrder
<1>2. CASE events' = events \o es
  <2>1. es \in Seq(AllEvents) /\ Len(es) = 1 /\ es[1] = Event("message_end", m)
    BY EventTyped
  <2>2. \A i \in DOMAIN es : es[i].type = "message_end" => es[i].message \in {m}
    BY <2>1, EventTyped
  <2>3. \A i \in DOMAIN es : es[i].type = "message_end" => i = Len(es) /\ es[i].message = m
    BY <2>1, EventTyped
  <2>4. events \in Seq(AllEvents)
    BY DEF EventType
  <2> HIDE DEF es
  <2>5. events' \in Seq(AllEvents) /\ InEvents' \subseteq InEvents \cup {m}
    BY <1>2, <2>1, <2>2, <2>4, LineGrows
  <2>6. EventsInOrder'
    BY <1>2, <2>1, <2>3, <2>4, EventsStayInOrder
  <2> QED BY <2>5, <2>6
<1> QED BY <1>1, <1>2 DEF Notify

(* A prompt is announced: it starts and ends.                              *)
LEMMA NotifyStartEnd ==
    ASSUME EventType, EventsInOrder, NEW m \in UserMessages,
           Notify(<<Event("message_start", m), Event("message_end", m)>>),
           \A n \in InEvents : Before(n, m)
    PROVE  events' \in Seq(AllEvents) /\ InEvents' \subseteq InEvents \cup {m} /\ EventsInOrder'
<1> DEFINE es == <<Event("message_start", m), Event("message_end", m)>>
<1>1. CASE events' = events
  BY <1>1 DEF EventType, InEvents, EventsInOrder
<1>2. CASE events' = events \o es
  <2>0. m \in Endable
    BY DEF Endable
  <2>1. es \in Seq(AllEvents) /\ Len(es) = 2
        /\ es[1] = Event("message_start", m) /\ es[2] = Event("message_end", m)
    BY <2>0, EventTyped
  <2>2. \A i \in DOMAIN es : es[i].type = "message_end" => i = Len(es) /\ es[i].message = m
    BY <2>1, EventTyped
  <2>3. \A i \in DOMAIN es : es[i].type = "message_end" => es[i].message \in {m}
    BY <2>2
  <2>4. events \in Seq(AllEvents)
    BY DEF EventType
  <2> HIDE DEF es
  <2>5. events' \in Seq(AllEvents) /\ InEvents' \subseteq InEvents \cup {m}
    BY <1>2, <2>1, <2>3, <2>4, LineGrows
  <2>6. EventsInOrder'
    BY <1>2, <2>1, <2>2, <2>4, EventsStayInOrder
  <2> QED BY <2>5, <2>6
<1> QED BY <1>1, <1>2 DEF Notify

(* A run ends.                                                             *)
LEMMA NotifyLast ==
    ASSUME EventType, EventsInOrder, Notify(<<Event("agent_end", None)>>)
    PROVE  events' \in Seq(AllEvents) /\ InEvents' \subseteq InEvents /\ EventsInOrder'
<1> DEFINE es == <<Event("agent_end", None)>>
<1>1. CASE events' = events
  BY <1>1 DEF EventType, InEvents, EventsInOrder
<1>2. CASE events' = events \o es
  <2>1. es \in Seq(AllEvents) /\ \A i \in DOMAIN es : es[i] = Event("agent_end", None)
    BY EventTyped
  <2>2. \A i \in DOMAIN es : es[i].type # "message_end"
    BY <2>1, EventTyped
  <2>3. events \in Seq(AllEvents)
    BY DEF EventType
  <2> HIDE DEF es
  <2>4. events' \in Seq(AllEvents) /\ InEvents' \subseteq InEvents \cup {}
    BY <1>2, <2>1, <2>2, <2>3, LineGrows
  <2>5. ASSUME NEW i \in DOMAIN events', NEW j \in DOMAIN events', i < j,
               events'[i].type = "message_end", events'[j].type = "message_end"
        PROVE  Before(events'[i].message, events'[j].message)
    <3>1. ASSUME NEW k \in DOMAIN events', events'[k].type = "message_end"
          PROVE  k \in DOMAIN events /\ events'[k] = events[k]
      <4>1. k <= Len(events)
        <5>1. SUFFICES ASSUME ~(k <= Len(events)) PROVE FALSE
          OBVIOUS
        <5>2. k - Len(events) \in DOMAIN es /\ events'[k] = es[k - Len(events)]
          BY <1>2, <2>1, <2>3, <5>1
        <5> QED BY <2>2, <3>1, <5>2
      <4> QED BY <1>2, <2>1, <2>3, <4>1
    <3> QED BY <2>5, <3>1 DEF EventsInOrder
  <2> QED BY <2>4, <2>5 DEF EventsInOrder
<1> QED BY <1>1, <1>2 DEF Notify
-----------------------------------------------------------------------------
(* What the handler takes is the oldest of what is on its way.             *)
LEMMA HeadTaken ==
    ASSUME EventType, EventsInOrder, events # <<>>, events' = Tail(events),
           handler' = [Ready EXCEPT !.pc = "hooks", !.event = Head(events)]
    PROVE  /\ EventType' /\ EventsInOrder'
           /\ InHandler' \subseteq InEvents /\ InEvents' \subseteq InEvents
           /\ \A m \in InHandler', n \in InEvents' : Before(m, n)
<1>1. events \in Seq(AllEvents) /\ Len(events) \in Nat /\ Len(events) > 0 /\ Head(events) = events[1]
      /\ Head(events) \in AllEvents /\ Tail(events) \in Seq(AllEvents)
  BY DEF EventType
<1>2. Len(events') = Len(events) - 1 /\ \A i \in DOMAIN events' : i + 1 \in DOMAIN events /\ events'[i] = events[i + 1]
  BY <1>1
<1>3. handler' = [pc |-> "hooks", event |-> events[1], kept |-> 0]
  BY <1>1 DEF Ready
<1>4. EventType'
  <2>1. handler'.pc = "hooks" /\ handler'.event = events[1] /\ handler'.kept = 0
    BY ONLY <1>3
  <2>2. handler' = [pc |-> handler'.pc, event |-> handler'.event, kept |-> handler'.kept]
    BY <1>3
  <2> QED BY <1>1, <2>1, <2>2 DEF EventType
<1>5. EventsInOrder'
  BY <1>1, <1>2 DEF EventsInOrder
<1>6. InEvents' \subseteq InEvents
  BY <1>2 DEF InEvents
<1>7. InHandler' \subseteq InEvents
  BY <1>1, <1>3 DEF InHandler, InEvents
<1>8. ASSUME NEW m \in InHandler', NEW n \in InEvents'
      PROVE  Before(m, n)
  <2>1. events[1].type = "message_end" /\ m = events[1].message
    BY <1>3, <1>8 DEF InHandler
  <2>2. PICK i \in DOMAIN events' : events'[i].type = "message_end" /\ n = events'[i].message
    BY <1>8 DEF InEvents
  <2>3. 1 \in DOMAIN events /\ i + 1 \in DOMAIN events /\ 1 < i + 1 /\ events'[i] = events[i + 1]
    BY <1>1, <1>2
  <2> QED BY <2>1, <2>2, <2>3 DEF EventsInOrder
<1> QED BY <1>4, <1>5, <1>6, <1>7, <1>8

(* The file grows by one entry,                                            *)
LEMMA FileGrows ==
    ASSUME entries \in Seq(Entries), FileInOrder, NEW e \in Entries, entries' = Append(entries, e),
           e.type = "message" => \A n \in InFile : Before(n, e.message)
    PROVE  /\ entries' \in Seq(Entries) /\ FileInOrder'
           /\ InFile' \subseteq InFile \cup {e.message}
           /\ e.type # "message" => InFile' \subseteq InFile
<1>1. entries' \in Seq(Entries) /\ Len(entries') = Len(entries) + 1 /\ Len(entries) \in Nat
  OBVIOUS
<1>2. \A i \in DOMAIN entries' : (i \in DOMAIN entries /\ entries'[i] = entries[i]) \/ (i = Len(entries) + 1 /\ entries'[i] = e)
  OBVIOUS
<1>3. InFile' \subseteq InFile \cup {e.message}
  BY <1>2 DEF InFile
<1>4. e.type # "message" => InFile' \subseteq InFile
  BY <1>2 DEF InFile
<1>5. ASSUME NEW i \in DOMAIN entries', NEW j \in DOMAIN entries', i < j,
             entries'[i].type = "message", entries'[j].type = "message"
      PROVE  Before(entries'[i].message, entries'[j].message)
  <2>1. i \in DOMAIN entries /\ entries'[i] = entries[i]
    BY <1>1, <1>2, <1>5
  <2>2. CASE j \in DOMAIN entries /\ entries'[j] = entries[j]
    BY <1>5, <2>1, <2>2 DEF FileInOrder
  <2>3. CASE entries'[j] = e
    BY <1>5, <2>1, <2>3 DEF InFile
  <2> QED BY <1>2, <2>2, <2>3
<1> QED BY <1>1, <1>3, <1>4, <1>5 DEF FileInOrder

(* or by the bash results that were deferred.                              *)
LEMMA Flushed ==
    ASSUME FileType, FileInOrder, BashOnce,
           entries' = entries \o [i \in DOMAIN pendingBash |-> MessageEntry(pendingBash[i])]
    PROVE  /\ entries' \in Seq(Entries) /\ FileInOrder'
           /\ InFile' \subseteq InFile \cup {pendingBash[i] : i \in DOMAIN pendingBash}
<1> DEFINE new == [i \in DOMAIN pendingBash |-> MessageEntry(pendingBash[i])]
<1>1. Len(pendingBash) \in Nat /\ DOMAIN pendingBash = 1 .. Len(pendingBash)
      /\ \A i \in DOMAIN pendingBash : pendingBash[i] \in BashMessages
  BY DEF FileType
<1>2. \A i \in DOMAIN pendingBash : new[i] \in Entries /\ new[i].type = "message" /\ new[i].message = pendingBash[i]
  BY <1>1 DEF MessageEntry, Entries
<1>3. new \in Seq(Entries) /\ Len(new) = Len(pendingBash)
  BY <1>1, <1>2
<1>4. \A i \in DOMAIN new : i \in DOMAIN pendingBash
  OBVIOUS
<1> HIDE DEF new
<1>5. entries \in Seq(Entries) /\ Len(entries) \in Nat /\ entries' = entries \o new
  BY DEF FileType, new
<1>6. entries' \in Seq(Entries) /\ Len(entries') = Len(entries) + Len(new)
  <2>1. new \in Seq(Entries) /\ entries \in Seq(Entries)
    BY <1>3, <1>5
  <2> QED BY ONLY <1>5, <2>1
<1>7. ASSUME NEW i \in DOMAIN entries'
      PROVE  \/ i \in DOMAIN entries /\ entries'[i] = entries[i]
             \/ i > Len(entries) /\ i - Len(entries) \in DOMAIN new /\ entries'[i] = new[i - Len(entries)]
  BY <1>3, <1>5
<1>8. InFile' \subseteq InFile \cup {pendingBash[i] : i \in DOMAIN pendingBash}
  <2>1. ASSUME NEW i \in DOMAIN entries', entries'[i].type = "message"
        PROVE  entries'[i].message \in InFile \cup {pendingBash[j] : j \in DOMAIN pendingBash}
    <3>1. CASE i \in DOMAIN entries /\ entries'[i] = entries[i]
      BY <2>1, <3>1 DEF InFile
    <3>2. CASE i - Len(entries) \in DOMAIN new /\ entries'[i] = new[i - Len(entries)]
      BY <1>2, <1>4, <3>2
    <3> QED BY <1>7, <3>1, <3>2
  <2> QED BY <2>1 DEF InFile
<1>9. ASSUME NEW i \in DOMAIN entries', NEW j \in DOMAIN entries', i < j,
             entries'[i].type = "message", entries'[j].type = "message"
      PROVE  Before(entries'[i].message, entries'[j].message)
  <2>1. CASE j \in DOMAIN entries /\ entries'[j] = entries[j]
    <3>1. i \in DOMAIN entries /\ entries'[i] = entries[i]
      BY <1>5, <1>7, <1>9, <2>1
    <3> QED BY <1>9, <2>1, <3>1 DEF FileInOrder
  <2>2. CASE j > Len(entries) /\ j - Len(entries) \in DOMAIN new /\ entries'[j] = new[j - Len(entries)]
    <3>1. PICK k \in DOMAIN pendingBash : k = j - Len(entries) /\ entries'[j].message = pendingBash[k]
      BY <1>2, <1>4, <2>2
    <3>2. entries'[i].message # pendingBash[k]
      <4>1. CASE i \in DOMAIN entries /\ entries'[i] = entries[i]
        <5>1. entries'[i].message \in InFile
          BY <1>9, <4>1 DEF InFile
        <5> QED BY <5>1 DEF BashOnce
      <4>2. CASE i > Len(entries) /\ i - Len(entries) \in DOMAIN new /\ entries'[i] = new[i - Len(entries)]
        <5>1. i - Len(entries) \in DOMAIN pendingBash /\ entries'[i].message = pendingBash[i - Len(entries)]
          BY <1>2, <1>4, <4>2
        <5>2. i - Len(entries) # k
          BY <1>5, <1>6, <1>9, <3>1
        <5> QED BY <5>1, <5>2 DEF BashOnce
      <4> QED BY <1>7, <4>1, <4>2
    <3>3. ~Numbered(pendingBash[k])
      BY <1>1 DEF BashMessages, Numbered
    <3> QED BY <3>1, <3>2, <3>3 DEF Before
  <2> QED BY <1>7, <2>1, <2>2
<1> QED BY <1>6, <1>8, <1>9 DEF FileInOrder

(* A text is taken from the head of a queue.                               *)
LEMMA QueueTaken ==
    ASSUME RunType, QueuesApart, NEW way \in Ways, queued[way] # <<>>,
           queued' = [queued EXCEPT ![way] = Tail(@)]
    PROVE  /\ Head(queued[way]) \in UserMessages
           /\ queued' \in [steer : Seq(UserMessages), followUp : Seq(UserMessages)]
           /\ QueuesApart'
           /\ Head(queued[way]).id \in InQueue(way)
           /\ InQueue(way)' \subseteq InQueue(way) \ {Head(queued[way]).id}
           /\ \A other \in Ways : InQueue(other)' \subseteq InQueue(other)
<1> DEFINE q == queued[way]
           h == Head(q)
<1>1. q \in Seq(UserMessages) /\ Len(q) \in Nat /\ Len(q) > 0 /\ h = q[1] /\ 1 \in DOMAIN q /\ h \in UserMessages
      /\ Tail(q) \in Seq(UserMessages)
  BY DEF RunType, Ways
<1>2. queued' \in [steer : Seq(UserMessages), followUp : Seq(UserMessages)]
      /\ queued'[way] = Tail(q) /\ \A other \in Ways : other # way => queued'[other] = queued[other]
  BY <1>1 DEF RunType, Ways
<1>3. \A i \in DOMAIN queued'[way] : i \in Nat /\ i >= 1 /\ i + 1 \in DOMAIN q /\ queued'[way][i] = q[i + 1]
  <2>1. DOMAIN Tail(q) = 1 .. Len(q) - 1 /\ \A i \in 1 .. Len(q) - 1 : Tail(q)[i] = q[i + 1]
    BY <1>1
  <2>2. DOMAIN q = 1 .. Len(q)
    BY <1>1
  <2>3. queued'[way] = Tail(q) /\ Len(q) \in Nat
    BY <1>1, <1>2
  <2>4. \A n \in Nat : \A i \in 1 .. n - 1 : i \in Nat /\ i >= 1 /\ i + 1 \in 1 .. n
    OBVIOUS
  <2> HIDE DEF q
  <2> QED BY ONLY <2>1, <2>2, <2>3, <2>4
<1>4. h.id \in InQueue(way)
  BY <1>1 DEF InQueue
<1>5. \A i \in DOMAIN q, j \in DOMAIN q : i # j => q[i].id # q[j].id
  BY DEF QueuesApart
<1>6. InQueue(way)' \subseteq InQueue(way) \ {h.id}
  <2>1. ASSUME NEW i \in DOMAIN queued'[way]
        PROVE  queued'[way][i].id \in InQueue(way) /\ queued'[way][i].id # h.id
    <3>1. i + 1 \in DOMAIN q /\ i + 1 # 1 /\ queued'[way][i] = q[i + 1]
      BY <1>3
    <3> QED BY <1>1, <1>5, <3>1 DEF InQueue
  <2> QED BY <2>1 DEF InQueue
<1>7. \A other \in Ways : InQueue(other)' \subseteq InQueue(other)
  <2>1. TAKE other \in Ways
  <2>2. CASE other = way
    BY <1>6, <2>2
  <2>3. CASE other # way
    <3>1. queued'[other] = queued[other]
      BY <1>2, <2>3
    <3> QED BY <3>1 DEF InQueue
  <2> QED BY <2>2, <2>3
<1>8. QueuesApart'
  <2>1. ASSUME NEW other \in Ways, NEW i \in DOMAIN queued'[other], NEW j \in DOMAIN queued'[other], i # j
        PROVE  queued'[other][i].id # queued'[other][j].id
    <3>1. CASE other = way
      <4>1. i \in Nat /\ j \in Nat /\ i + 1 \in DOMAIN q /\ j + 1 \in DOMAIN q /\ i + 1 # j + 1
            /\ queued'[other][i] = q[i + 1] /\ queued'[other][j] = q[j + 1]
        BY <1>3, <2>1, <3>1
      <4> QED BY <1>5, <4>1
    <3>2. CASE other # way
      BY <1>2, <2>1, <3>2 DEF QueuesApart
    <3> QED BY <3>1, <3>2
  <2> QED BY <2>1 DEF QueuesApart
<1> QED BY <1>1, <1>2, <1>4, <1>6, <1>7, <1>8

(* A text is queued.                                                       *)
LEMMA QueueGrows ==
    ASSUME RunType, QueuesApart, NEW way \in Ways, NEW t \in Texts, t \notin InQueue(way),
           queued' = [queued EXCEPT ![way] = Append(@, User(t))]
    PROVE  /\ queued' \in [steer : Seq(UserMessages), followUp : Seq(UserMessages)]
           /\ QueuesApart'
           /\ InQueue(way)' \subseteq InQueue(way) \cup {t}
           /\ \A other \in Ways : other # way => InQueue(other)' \subseteq InQueue(other)
<1> DEFINE q == queued[way]
<1>0. User(t) \in UserMessages /\ User(t).id = t
  BY DEF User, UserMessages
<1>1. q \in Seq(UserMessages) /\ Len(q) \in Nat
  BY DEF RunType, Ways
<1>2. queued' \in [steer : Seq(UserMessages), followUp : Seq(UserMessages)]
      /\ queued'[way] = Append(q, User(t)) /\ \A other \in Ways : other # way => queued'[other] = queued[other]
  <2>1. Append(q, User(t)) \in Seq(UserMessages)
    BY <1>0, <1>1
  <2>2. queued' = [queued EXCEPT ![way] = Append(q, User(t))]
    OBVIOUS
  <2> HIDE DEF q
  <2> QED BY <2>1, <2>2 DEF RunType, Ways
<1>3. \A i \in DOMAIN queued'[way] : (i \in DOMAIN q /\ queued'[way][i] = q[i]) \/ (i = Len(q) + 1 /\ queued'[way][i] = User(t))
  BY <1>0, <1>1, <1>2
<1>4. InQueue(way)' \subseteq InQueue(way) \cup {t}
  BY <1>0, <1>3 DEF InQueue
<1>5. \A other \in Ways : other # way => InQueue(other)' \subseteq InQueue(other)
  BY <1>2 DEF InQueue
<1>6. QueuesApart'
  <2>1. ASSUME NEW other \in Ways, NEW i \in DOMAIN queued'[other], NEW j \in DOMAIN queued'[other], i # j
        PROVE  queued'[other][i].id # queued'[other][j].id
    <3>1. CASE other = way
      <4>1. \A k \in DOMAIN q : q[k].id # t
        BY DEF InQueue
      <4> QED BY <1>0, <1>3, <2>1, <3>1, <4>1 DEF QueuesApart
    <3>2. CASE other # way
      BY <1>2, <2>1, <3>2 DEF QueuesApart
    <3> QED BY <3>1, <3>2
  <2> QED BY <2>1 DEF QueuesApart
<1> QED BY <1>2, <1>4, <1>5, <1>6
-----------------------------------------------------------------------------
(* What has been sent grows with what has ended.                           *)
LEMMA SentGrows ==
    ASSUME NEW M, Ended' \subseteq Ended \cup M
    PROVE  Sent' \subseteq Sent \cup {m.id : m \in {n \in M : n.role = "user"}}
BY DEF Sent

(* A text that has been sent is in no place any more.                      *)
LEMMA PlacesStay ==
    ASSUME PlacesApart, CallsApart, Todo' \subseteq Todo,
           InQueue("steer")' \subseteq InQueue("steer"), InQueue("followUp")' \subseteq InQueue("followUp"),
           Sent' \subseteq Sent, used \subseteq used',
           \A c \in Callers : Starting(c)' \subseteq Starting(c)
    PROVE  PlacesApart' /\ CallsApart'
<1>1. PlacesApart'
  BY DEF PlacesApart
<1>2. CallsApart'
  BY DEF CallsApart
<1> QED BY <1>1, <1>2

(* What is ahead of what stays ahead, if nothing ends,                     *)
LEMMA LineOrderStays ==
    ASSUME LineInOrder, InFile' \subseteq InFile, InHandler' \subseteq InHandler, InEvents' \subseteq InEvents
    PROVE  LineInOrder'
BY DEF LineInOrder

(* or if what ends comes after all that has ended before.                  *)
LEMMA LineOrderGrows ==
    ASSUME LineInOrder, InFile' \subseteq InFile, InHandler' \subseteq InHandler,
           NEW m, InEvents' \subseteq InEvents \cup {m}, \A n \in Ended : Before(n, m)
    PROVE  LineInOrder'
BY DEF LineInOrder, Ended

(* The numbers of what has ended are numbers.                              *)
LEMMA EndedTyped ==
    ASSUME LineType
    PROVE  /\ InFile \subseteq Endable \cup BashMessages
           /\ InHandler \subseteq Endable /\ InEvents \subseteq Endable
           /\ \A m \in Ended : Numbered(m) => Key(m) \in Nat
           /\ NextKey \in Nat
<1>1. InFile \subseteq Endable \cup BashMessages
  <2>1. \A i \in DOMAIN entries : entries[i] \in Entries
    BY DEF LineType, FileType
  <2> QED BY <2>1 DEF InFile, Entries
<1>2. InHandler \subseteq Endable
  BY DEF InHandler, LineType, EventType, AllEvents
<1>3. InEvents \subseteq Endable
  <2>1. \A i \in DOMAIN events : events[i] \in AllEvents
    BY DEF LineType, EventType
  <2> QED BY <2>1 DEF InEvents, AllEvents
<1>4. ASSUME NEW m \in Endable \cup BashMessages, Numbered(m)
      PROVE  Key(m) \in Nat
  <2>1. m \in ModelMessages
    BY <1>4 DEF Endable, BashMessages, UserMessages, ModelMessages, Numbered
  <2>2. m.id \in Nat
    BY <2>1 DEF ModelMessages
  <2> QED BY <2>2 DEF Key
<1>5. NextKey \in Nat
  BY DEF NextKey, LineType, RunType
<1> QED BY <1>1, <1>2, <1>3, <1>4, <1>5 DEF Ended

(* What has ended was numbered before what the run numbers next.           *)
LEMMA KeysStay ==
    ASSUME LineType, LineType', KeysBelow, NEW M, Ended' \subseteq Ended \cup M, NextKey <= NextKey',
           \A m \in M : Numbered(m) => Key(m) < NextKey'
    PROVE  KeysBelow'
<1>1. NextKey \in Nat /\ \A m \in Ended : Numbered(m) => Key(m) \in Nat
  BY EndedTyped
<1>2. NextKey' \in Nat
  BY DEF NextKey, LineType, RunType
<1>3. ASSUME NEW m \in Ended', Numbered(m)
      PROVE  Key(m) < NextKey'
  <2>1. CASE m \in Ended
    <3>1. Key(m) < NextKey /\ Key(m) \in Nat
      BY <1>1, <1>3, <2>1 DEF KeysBelow
    <3> QED BY <1>1, <1>2, <3>1
  <2>2. CASE m \in M
    BY <1>3, <2>2
  <2> QED BY <2>1, <2>2
<1> QED BY <1>3 DEF KeysBelow

(* Bash results are apart from what a run says.                            *)
LEMMA BashStays ==
    ASSUME BashOnce, pendingBash \in Seq(BashMessages), pendingBash' = pendingBash,
           InFile' \subseteq InFile \cup Endable, used \subseteq used'
    PROVE  BashOnce'
<1>1. \A m \in Endable : m.role # "bash"
  BY DEF Endable, UserMessages, ModelMessages
<1>2. \A i \in DOMAIN pendingBash : pendingBash[i].role = "bash"
  <2>1. \A i \in DOMAIN pendingBash : pendingBash[i] \in BashMessages
    OBVIOUS
  <2> QED BY <2>1 DEF BashMessages
<1> QED BY <1>1, <1>2 DEF BashOnce

(* A step that sends, queues and ends nothing new.                         *)
LEMMA LineStays ==
    ASSUME Line, LineType', QueuesApart', FileInOrder', EventsInOrder',
           Todo' \subseteq Todo,
           InQueue("steer")' \subseteq InQueue("steer"), InQueue("followUp")' \subseteq InQueue("followUp"),
           InFile' \subseteq InFile, InHandler' \subseteq InHandler, InEvents' \subseteq InEvents,
           \A c \in Callers : Starting(c)' \subseteq Starting(c),
           NextKey <= NextKey', pendingBash' = pendingBash, used \subseteq used'
    PROVE  Line'
<1>1. Ended' \subseteq Ended
  BY DEF Ended
<1>2. Sent' \subseteq Sent
  BY <1>1 DEF Sent
<1>3. PlacesApart' /\ CallsApart'
  BY <1>2, PlacesStay DEF Line
<1>4. LineInOrder'
  BY LineOrderStays DEF Line
<1>5. KeysBelow'
  <2>1. PICK none : none = {}
    OBVIOUS
  <2>2. Ended' \subseteq Ended \cup none /\ \A m \in none : Numbered(m) => Key(m) < NextKey'
    BY <1>1, <2>1
  <2>3. LineType /\ KeysBelow
    BY DEF Line
  <2> QED BY ONLY <2>2, <2>3, LineType', NextKey <= NextKey', KeysStay
<1>6. BashOnce'
  BY BashStays DEF Line, LineType, FileType
<1> QED BY <1>3, <1>4, <1>5, <1>6 DEF Line

(* A run starts with one text at most.                                     *)
LEMMA SingleText ==
    ASSUME NEW h \in UserMessages
    PROVE  \E todo \in Seq(UserMessages) : todo = <<h>> /\ Len(todo) <= 1
<1>1. PICK todo : todo = <<h>>
  OBVIOUS
<1>2. todo \in Seq(UserMessages)
  BY <1>1
<1>3. Len(todo) = 1
  BY <1>1
<1>4. Len(todo) <= 1
  BY <1>3
<1> WITNESS todo \in Seq(UserMessages)
<1> QED BY <1>1, <1>4

(* What only the run, only the handler, only the file or only the calls    *)
(* say, if they do not change.                                             *)
LEMMA RunUnchanged ==
    ASSUME RunType, QueuesApart, UNCHANGED <<queued, run, asked>>
    PROVE  RunType' /\ QueuesApart' /\ Todo' = Todo /\ InQueue("steer")' = InQueue("steer")
           /\ InQueue("followUp")' = InQueue("followUp") /\ NextKey' = NextKey
BY DEF RunType, QueuesApart, Todo, InQueue, NextKey

(* The events on their way, if they do not change.                         *)
LEMMA EventsUnchanged ==
    ASSUME EventType, EventsInOrder, UNCHANGED <<events, handler>>
    PROVE  EventType' /\ EventsInOrder' /\ InHandler' = InHandler /\ InEvents' = InEvents
BY DEF EventType, EventsInOrder, InHandler, InEvents

(* The file, if it does not change.                                        *)
LEMMA FileUnchanged ==
    ASSUME FileType, FileInOrder, UNCHANGED <<pendingBash, entries, compacting>>
    PROVE  FileType' /\ FileInOrder' /\ InFile' = InFile
BY DEF FileType, FileInOrder, InFile

(* The calls, if they do not change.                                       *)
LEMMA CallsUnchanged ==
    ASSUME CallType, UNCHANGED prompts
    PROVE  CallType' /\ \A c \in Callers : Starting(c)' = Starting(c)
BY DEF CallType, Starting

(* A compaction is no message.                                             *)
LEMMA CompactGrows ==
    ASSUME FileType, FileInOrder, asked \in Nat, NEW reason, NEW kept \in Nat, Compact(reason, kept)
    PROVE  entries' \in Seq(Entries) /\ FileInOrder' /\ InFile' \subseteq InFile
<1>1. CASE entries' = entries
  BY <1>1 DEF FileType, FileInOrder, InFile
<1>2. CASE entries' = Append(entries, Compaction(kept, asked))
  <2>1. Compaction(kept, asked) \in Entries /\ Compaction(kept, asked).type # "message"
    BY DEF Compaction, Entries, Summary
  <2> QED BY <1>2, <2>1, FileGrows DEF FileType
<1> QED BY <1>1, <1>2 DEF Compact, NotCompacted, Compacted
-----------------------------------------------------------------------------
(* A sequence of at most one element is its only element.                  *)
LEMMA OneLong ==
    ASSUME NEW S, NEW s \in Seq(S), s # <<>>, Len(s) <= 1
    PROVE  Len(s) = 1 /\ Head(s) = s[1] /\ s[1] \in S /\ Tail(s) = <<>>
<1>1. Len(s) \in Nat /\ DOMAIN s = 1 .. Len(s)
  OBVIOUS
<1>2. Len(s) # 0
  OBVIOUS
<1>3. Len(s) = 1
  BY <1>1, <1>2
<1>4. Head(s) = s[1] /\ s[1] \in S
  BY <1>3
<1>5. Tail(s) \in Seq(S) /\ Len(Tail(s)) = 0
  BY <1>3
<1>6. Tail(s) = <<>>
  BY <1>5
<1> QED BY <1>3, <1>4, <1>6

(* The steps of the run, and what each does to the line.                   *)
LEMMA Spoken ==
    ASSUME Line, RunType', events' \in Seq(AllEvents), EventsInOrder', NEW m \in Endable,
           InEvents' \subseteq InEvents \cup {m}, \A n \in Ended : Before(n, m),
           UNCHANGED <<handler, entries, pendingBash, compacting, prompts, used>>,
           NextKey <= NextKey', Numbered(m) => Key(m) < NextKey'
    PROVE  /\ LineType' /\ FileInOrder' /\ LineInOrder' /\ KeysBelow' /\ BashOnce'
           /\ Sent' \subseteq Sent \cup {n.id : n \in {k \in {m} : k.role = "user"}}
           /\ \A c \in Callers : Starting(c)' = Starting(c)
<1>1. EventType' /\ InHandler' = InHandler
  BY DEF Line, LineType, EventType, InHandler
<1>2. FileType' /\ FileInOrder' /\ InFile' = InFile
  BY FileUnchanged DEF Line, LineType
<1>3. CallType' /\ \A c \in Callers : Starting(c)' = Starting(c)
  BY CallsUnchanged DEF Line, LineType
<1>4. Ended' \subseteq Ended \cup {m}
  BY <1>1, <1>2 DEF Ended
<1>5. LineType'
  BY <1>1, <1>2, <1>3 DEF LineType
<1>6. LineInOrder'
  <2>1. LineInOrder /\ InFile' \subseteq InFile /\ InHandler' \subseteq InHandler
    BY <1>1, <1>2 DEF Line
  <2> QED BY <2>1, LineOrderGrows
<1>7. KeysBelow'
  <2>1. PICK M : M = {m}
    OBVIOUS
  <2>2. Ended' \subseteq Ended \cup M /\ \A n \in M : Numbered(n) => Key(n) < NextKey'
    BY <1>4, <2>1
  <2>3. LineType /\ KeysBelow
    BY DEF Line
  <2> QED BY ONLY <1>5, <2>2, <2>3, NextKey <= NextKey', KeysStay
<1>8. BashOnce'
  BY <1>2, BashStays DEF Line, LineType, FileType
<1>9. Sent' \subseteq Sent \cup {n.id : n \in {k \in {m} : k.role = "user"}}
  BY <1>4, SentGrows
<1> QED BY <1>2, <1>3, <1>5, <1>6, <1>7, <1>8, <1>9

(* An answer or a tool result has no text, and comes next.                 *)
LEMMA SpokenByModel ==
    ASSUME Line, RunType', events' \in Seq(AllEvents), EventsInOrder', NEW m \in ModelMessages,
           InEvents' \subseteq InEvents \cup {m}, \A n \in Ended : Before(n, m),
           UNCHANGED <<queued, handler, entries, pendingBash, compacting, prompts, used>>,
           run'.todo = run.todo, NextKey <= NextKey', Key(m) < NextKey'
    PROVE  Line'
<1>1. m \in Endable /\ m.role # "user"
  BY DEF Endable, ModelMessages
<1>2. /\ LineType' /\ FileInOrder' /\ LineInOrder' /\ KeysBelow' /\ BashOnce'
      /\ Sent' \subseteq Sent \cup {n.id : n \in {k \in {m} : k.role = "user"}}
      /\ \A c \in Callers : Starting(c)' = Starting(c)
  BY <1>1, Spoken
<1>3. Sent' \subseteq Sent
  BY <1>1, <1>2
<1>4. QueuesApart' /\ InQueue("steer")' = InQueue("steer") /\ InQueue("followUp")' = InQueue("followUp")
  BY DEF Line, QueuesApart, InQueue
<1>5. Todo' = Todo
  BY DEF Todo
<1>6. PlacesApart' /\ CallsApart'
  BY <1>2, <1>3, <1>4, <1>5, PlacesStay DEF Line
<1> QED BY <1>2, <1>4, <1>6 DEF Line

(* What has a higher number than all that has ended comes after it.        *)
LEMMA ModelBefore ==
    ASSUME Line, NEW m \in ModelMessages, Key(m) >= NextKey
    PROVE  \A n \in Ended : Before(n, m)
<1>1. NextKey \in Nat /\ \A n \in Ended : Numbered(n) => Key(n) \in Nat
  BY EndedTyped DEF Line
<1>2. Numbered(m) /\ Key(m) \in Nat
  BY DEF ModelMessages, Numbered, Key
<1>3. TAKE n \in Ended
<1>4. CASE Numbered(n)
  <2>1. Key(n) < NextKey
    BY <1>4 DEF Line, KeysBelow
  <2>2. Key(n) < Key(m)
    BY <1>1, <1>2, <1>4, <2>1
  <2>3. n # m
    BY <1>2, <2>2
  <2> QED BY <2>2, <2>3 DEF Before
<1>5. CASE ~Numbered(n)
  BY <1>2, <1>5 DEF Before
<1> QED BY <1>4, <1>5

(* A message of the user is announced,                                     *)
LEMMA LineAnnounce ==
    ASSUME Line, Announce
    PROVE  Line'
<1> DEFINE m == Head(run.todo)
<1>1. run.todo \in Seq(UserMessages) /\ Len(run.todo) = 1 /\ m = run.todo[1] /\ m \in UserMessages
  <2>1. run.todo \in Seq(UserMessages) /\ Len(run.todo) <= 1 /\ run.todo # <<>>
    BY DEF Line, LineType, RunType, Announce
  <2>2. PICK todo \in Seq(UserMessages) : todo = run.todo
    BY <2>1
  <2>3. Len(todo) = 1 /\ Head(todo) = todo[1] /\ todo[1] \in UserMessages
    BY <2>1, <2>2, OneLong
  <2> QED BY <2>2, <2>3
<1>2. m.id \in Todo /\ m.role = "user" /\ ~Numbered(m) /\ m \in Endable
  BY <1>1 DEF Todo, UserMessages, Numbered, Endable
<1>3. run' = [run EXCEPT !.todo = Tail(@)] /\ Tail(run.todo) = <<>>
  <2>1. PICK todo \in Seq(UserMessages) : todo = run.todo
    BY <1>1
  <2>2. todo # <<>> /\ Len(todo) <= 1
    BY <2>1 DEF Announce, Line, LineType, RunType
  <2>3. Tail(todo) = <<>>
    BY <2>2, OneLong
  <2> QED BY <2>1, <2>3 DEF Announce
<1>4. UNCHANGED <<queued, handler, entries, pendingBash, compacting, prompts, asked, used>>
      /\ Notify(<<Event("message_start", m), Event("message_end", m)>>)
  BY DEF Announce, storeVars, callVars, historyVars
<1>5. run'.todo = <<>> /\ run'.pc = run.pc /\ RunType'
  <2>1. <<>> \in Seq(UserMessages) /\ Len(<<>>) = 0
    OBVIOUS
  <2>2. run' = [pc |-> run.pc, todo |-> <<>>, last |-> run.last, aborted |-> run.aborted, owner |-> run.owner]
    BY <1>3 DEF Line, LineType, RunType
  <2> QED BY <1>4, <2>1, <2>2 DEF Line, LineType, RunType
<1>6. Todo' = {} /\ NextKey' = NextKey /\ NextKey \in Nat
  <2>1. NextKey \in Nat
    BY EndedTyped DEF Line
  <2> QED BY <1>4, <1>5, <2>1 DEF Todo, NextKey
<1>7. QueuesApart' /\ InQueue("steer")' = InQueue("steer") /\ InQueue("followUp")' = InQueue("followUp")
  BY <1>4 DEF Line, QueuesApart, InQueue
<1>8. m.id \notin Sent
  BY <1>2 DEF Line, PlacesApart
<1>9. \A n \in Ended : Before(n, m)
  BY <1>2, <1>8 DEF Before, Sent
<1> HIDE DEF m
<1>10. events' \in Seq(AllEvents) /\ InEvents' \subseteq InEvents \cup {m} /\ EventsInOrder'
  <2>1. \A n \in InEvents : Before(n, m)
    BY <1>9 DEF Ended
  <2> QED BY <1>1, <1>4, <2>1, NotifyStartEnd DEF Line, LineType
<1>11. /\ LineType' /\ FileInOrder' /\ LineInOrder' /\ KeysBelow' /\ BashOnce'
       /\ Sent' \subseteq Sent \cup {n.id : n \in {k \in {m} : k.role = "user"}}
       /\ \A c \in Callers : Starting(c)' = Starting(c)
  <2>1. NextKey <= NextKey' /\ (Numbered(m) => Key(m) < NextKey')
    BY <1>2, <1>6
  <2> QED BY <1>2, <1>4, <1>5, <1>9, <1>10, <2>1, Spoken
<1>12. Sent' \subseteq Sent \cup {m.id}
  BY <1>11
<1>13. PlacesApart'
  BY <1>2, <1>4, <1>6, <1>7, <1>12 DEF Line, PlacesApart
<1>14. CallsApart'
  BY <1>2, <1>4, <1>6, <1>7, <1>11, <1>12 DEF Line, CallsApart
<1> QED BY <1>7, <1>10, <1>11, <1>13, <1>14 DEF Line

(* the model is asked,                                                     *)
LEMMA LineRequest ==
    ASSUME Line, Request
    PROVE  Line'
<1>1. run' = [run EXCEPT !.pc = "response"] /\ asked' = asked + 1 /\ run.pc = "request"
      /\ UNCHANGED <<queued, handler, events, entries, pendingBash, compacting, prompts, used>>
  BY DEF Request, At, eventVars, storeVars, callVars
<1>2. RunType' /\ run'.todo = run.todo /\ NextKey <= NextKey'
  <2>1. run' = [pc |-> "response", todo |-> run.todo, last |-> run.last, aborted |-> run.aborted, owner |-> run.owner]
    BY <1>1 DEF Line, LineType, RunType
  <2>2. asked \in Nat /\ asked' \in Nat /\ NextKey = 2 * asked + 2 /\ NextKey' = 2 * asked'
    BY <1>1, <2>1 DEF Line, LineType, RunType, NextKey
  <2>3. NextKey <= NextKey'
    BY <1>1, <2>2
  <2>4. RunType'
    BY <1>1, <2>1, <2>2 DEF Line, LineType, RunType, RunPoints
  <2> QED BY <2>1, <2>3, <2>4
<1>3. QueuesApart' /\ InQueue("steer")' = InQueue("steer") /\ InQueue("followUp")' = InQueue("followUp") /\ Todo' = Todo
  BY <1>1, <1>2 DEF Line, QueuesApart, InQueue, Todo
<1>4. EventType' /\ EventsInOrder' /\ InHandler' = InHandler /\ InEvents' = InEvents
  BY <1>1, EventsUnchanged DEF Line, LineType
<1>5. FileType' /\ FileInOrder' /\ InFile' = InFile
  BY <1>1, FileUnchanged DEF Line, LineType
<1>6. CallType' /\ \A c \in Callers : Starting(c)' = Starting(c)
  BY <1>1, CallsUnchanged DEF Line, LineType
<1>7. LineType'
  BY <1>2, <1>4, <1>5, <1>6 DEF LineType
<1> QED BY <1>1, <1>2, <1>3, <1>4, <1>5, <1>6, <1>7, LineStays

(* it answers,                                                             *)
LEMMA LineRespond ==
    ASSUME Line, NEW stop \in Stops, Respond(stop)
    PROVE  Line'
<1> DEFINE m == Assistant(asked, stop)
<1>1. asked \in Nat /\ run.pc = "response" /\ NextKey = 2 * asked
  BY DEF Line, LineType, RunType, Respond, At, NextKey
<1>2. m \in ModelMessages /\ Key(m) = 2 * asked
  BY <1>1 DEF Assistant, ModelMessages, Key
<1>3. PICK pc \in {"end", "tools", "poll"} : run' = [run EXCEPT !.pc = pc, !.last = m]
  <2>1. run' = [run EXCEPT !.pc = CASE Failed(m) -> "end" [] stop = "toolUse" -> "tools" [] OTHER -> "poll", !.last = m]
    BY DEF Respond
  <2>2. stop = "toolUse" => ~Failed(m)
    BY DEF Failed, Assistant, Errors
  <2>3. CASE Failed(m)
    BY <2>1, <2>2, <2>3
  <2>4. CASE ~Failed(m)
    BY <2>1, <2>4
  <2> QED BY <2>3, <2>4
<1>4. UNCHANGED <<queued, handler, entries, pendingBash, compacting, prompts, asked, used>>
      /\ Notify(<<Event("message_end", m)>>)
  BY DEF Respond, storeVars, callVars, historyVars
<1> HIDE DEF m
<1>5. RunType' /\ run'.todo = run.todo /\ run'.pc = pc
  BY <1>3, <1>4 DEF Line, LineType, RunType, RunPoints
<1>6. NextKey <= NextKey' /\ Key(m) < NextKey'
  <2>1. NextKey' = IF pc = "tools" THEN 2 * asked + 1 ELSE 2 * asked + 2
    BY <1>3, <1>4, <1>5 DEF NextKey
  <2> QED BY <1>1, <1>2, <2>1
<1>7. \A n \in Ended : Before(n, m)
  <2>1. Key(m) >= NextKey
    BY <1>1, <1>2
  <2> QED BY <1>2, <2>1, ModelBefore
<1>8. events' \in Seq(AllEvents) /\ InEvents' \subseteq InEvents \cup {m} /\ EventsInOrder'
  <2>1. m \in Endable /\ \A n \in InEvents : Before(n, m)
    BY <1>2, <1>7 DEF Ended, Endable
  <2> QED BY <1>4, <2>1, NotifyEnd DEF Line, LineType
<1> QED BY <1>2, <1>4, <1>5, <1>6, <1>7, <1>8, SpokenByModel

(* the tools answer,                                                       *)
LEMMA LineTools ==
    ASSUME Line, ToolsExecuted
    PROVE  Line'
<1> DEFINE m == ToolResult(asked)
<1>1. asked \in Nat /\ run.pc = "tools" /\ NextKey = 2 * asked + 1
  BY DEF Line, LineType, RunType, ToolsExecuted, At, NextKey
<1>2. m \in ModelMessages /\ Key(m) = 2 * asked + 1
  BY <1>1 DEF ToolResult, ModelMessages, Key, Stops
<1>3. run' = [run EXCEPT !.pc = "poll"]
      /\ UNCHANGED <<queued, handler, entries, pendingBash, compacting, prompts, asked, used>>
      /\ Notify(<<Event("message_end", m)>>)
  BY DEF ToolsExecuted, storeVars, callVars, historyVars
<1> HIDE DEF m
<1>4. RunType' /\ run'.todo = run.todo /\ run'.pc = "poll"
  BY <1>3 DEF Line, LineType, RunType, RunPoints
<1>5. NextKey <= NextKey' /\ Key(m) < NextKey'
  <2>1. NextKey' = 2 * asked + 2
    BY <1>3, <1>4 DEF NextKey
  <2> QED BY <1>1, <1>2, <2>1
<1>6. \A n \in Ended : Before(n, m)
  <2>1. Key(m) >= NextKey
    BY <1>1, <1>2
  <2> QED BY <1>2, <2>1, ModelBefore
<1>7. events' \in Seq(AllEvents) /\ InEvents' \subseteq InEvents \cup {m} /\ EventsInOrder'
  <2>1. m \in Endable /\ \A n \in InEvents : Before(n, m)
    BY <1>2, <1>6 DEF Ended, Endable
  <2> QED BY <1>3, <2>1, NotifyEnd DEF Line, LineType
<1> QED BY <1>2, <1>3, <1>4, <1>5, <1>6, <1>7, SpokenByModel

(* the queues are polled,                                                  *)
LEMMA LineTakes ==
    ASSUME Line, NEW way \in Ways, queued[way] # <<>>, queued' = [queued EXCEPT ![way] = Tail(@)],
           run'.todo = <<Head(queued[way])>>, RunType', NextKey' = NextKey,
           UNCHANGED <<handler, events, entries, pendingBash, compacting, prompts, used>>
    PROVE  Line'
<1> DEFINE h == Head(queued[way])
<1>1. /\ h \in UserMessages /\ QueuesApart' /\ h.id \in InQueue(way)
      /\ InQueue(way)' \subseteq InQueue(way) \ {h.id}
      /\ \A other \in Ways : InQueue(other)' \subseteq InQueue(other)
  BY QueueTaken DEF Line, LineType
<1>2. Todo' = {h.id}
  BY DEF Todo
<1> HIDE DEF h
<1>3. EventType' /\ EventsInOrder' /\ InHandler' = InHandler /\ InEvents' = InEvents
  BY EventsUnchanged DEF Line, LineType
<1>4. FileType' /\ FileInOrder' /\ InFile' = InFile
  BY FileUnchanged DEF Line, LineType
<1>5. CallType' /\ \A c \in Callers : Starting(c)' = Starting(c)
  BY CallsUnchanged DEF Line, LineType
<1>6. LineType'
  BY <1>3, <1>4, <1>5 DEF LineType
<1>7. Ended' = Ended /\ Sent' = Sent
  BY <1>3, <1>4 DEF Ended, Sent
<1>8. LineInOrder'
  BY <1>3, <1>4, LineOrderStays DEF Line
<1>9. KeysBelow'
  BY <1>7 DEF Line, KeysBelow
<1>10. BashOnce'
  BY <1>4, BashStays DEF Line, LineType, FileType
<1>11. /\ InQueue("steer")' \subseteq InQueue("steer") /\ InQueue("followUp")' \subseteq InQueue("followUp")
       /\ h.id \in InQueue("steer") \cup InQueue("followUp")
       /\ h.id \notin InQueue("steer")' \cup InQueue("followUp")'
  <2>1. way = "steer" \/ way = "followUp"
    BY DEF Ways
  <2>2. InQueue("steer")' \subseteq InQueue("steer") /\ InQueue("followUp")' \subseteq InQueue("followUp")
    BY <1>1 DEF Ways
  <2>3. InQueue("steer") \cap InQueue("followUp") = {}
    BY DEF Line, PlacesApart
  <2>4. CASE way = "steer"
    BY <1>1, <2>2, <2>3, <2>4
  <2>5. CASE way = "followUp"
    BY <1>1, <2>2, <2>3, <2>5
  <2> QED BY <2>1, <2>4, <2>5
<1>12. PlacesApart'
  <2>1. PlacesApart
    BY DEF Line
  <2> QED BY <1>2, <1>7, <1>11, <2>1 DEF PlacesApart
<1>13. CallsApart'
  <2>1. CallsApart
    BY DEF Line
  <2> QED BY <1>2, <1>5, <1>7, <1>11, <2>1 DEF CallsApart
<1> QED BY <1>1, <1>3, <1>4, <1>6, <1>8, <1>9, <1>10, <1>12, <1>13 DEF Line

(* A step that only moves the run, to a point with the same number.        *)
LEMMA LineMoves ==
    ASSUME Line, RunType', Todo' \subseteq Todo, NextKey <= NextKey',
           EventType', EventsInOrder', InHandler' \subseteq InHandler, InEvents' \subseteq InEvents,
           UNCHANGED <<queued, pendingBash, entries, compacting, prompts>>, used \subseteq used'
    PROVE  Line'
<1>1. QueuesApart' /\ InQueue("steer")' = InQueue("steer") /\ InQueue("followUp")' = InQueue("followUp")
  BY DEF Line, QueuesApart, InQueue
<1>2. FileType' /\ FileInOrder' /\ InFile' = InFile
  BY FileUnchanged DEF Line, LineType
<1>3. CallType' /\ \A c \in Callers : Starting(c)' = Starting(c)
  BY CallsUnchanged DEF Line, LineType
<1>4. LineType'
  BY <1>2, <1>3 DEF LineType
<1> QED BY <1>1, <1>2, <1>3, <1>4, LineStays

(* The loop polls: nothing is queued, or some texts move to the run.       *)
LEMMA LinePoll ==
    ASSUME Line, Poll
    PROVE  Line'
<1>1. run.pc = "poll"
  BY DEF Poll, At
<1>2. UNCHANGED <<handler, events, entries, pendingBash, compacting, prompts, asked, used>>
  BY DEF Poll, eventVars, storeVars, callVars, historyVars
<1>3. CASE UNCHANGED queued /\ \E pc \in {"end", "request"} : run' = [run EXCEPT !.pc = pc]
  <2>1. PICK pc \in {"end", "request"} : run' = [run EXCEPT !.pc = pc]
    BY <1>3
  <2>2. run' = [pc |-> pc, todo |-> run.todo, last |-> run.last, aborted |-> run.aborted, owner |-> run.owner]
    BY <2>1 DEF Line, LineType, RunType
  <2>3. RunType'
    BY <1>2, <1>3, <2>2 DEF Line, LineType, RunType, RunPoints
  <2>4. Todo' = Todo /\ NextKey' = NextKey /\ NextKey \in Nat
    <3>1. NextKey \in Nat
      BY EndedTyped DEF Line
    <3>2. NextKey' = NextKey
      BY <1>1, <1>2, <2>2 DEF NextKey
    <3> QED BY <2>2, <3>1, <3>2 DEF Todo
  <2>5. EventType' /\ EventsInOrder' /\ InHandler' = InHandler /\ InEvents' = InEvents
    BY <1>2, EventsUnchanged DEF Line, LineType
  <2>6. NextKey <= NextKey'
    BY <2>4
  <2> QED BY <1>2, <1>3, <2>3, <2>4, <2>5, <2>6, LineMoves
<1>4. CASE \E way \in Ways : /\ queued[way] # <<>>
                             /\ run' = [run EXCEPT !.pc = "request", !.todo = <<Head(queued[way])>>]
                             /\ queued' = [queued EXCEPT ![way] = Tail(@)]
  <2>1. PICK way \in Ways : /\ queued[way] # <<>>
                            /\ run' = [run EXCEPT !.pc = "request", !.todo = <<Head(queued[way])>>]
                            /\ queued' = [queued EXCEPT ![way] = Tail(@)]
    BY <1>4
  <2>2. Head(queued[way]) \in UserMessages /\ queued' \in [steer : Seq(UserMessages), followUp : Seq(UserMessages)]
    BY <2>1, QueueTaken DEF Line, LineType
  <2>3. PICK todo \in Seq(UserMessages) : todo = <<Head(queued[way])>> /\ Len(todo) <= 1
    <3>1. PICK h \in UserMessages : h = Head(queued[way])
      BY <2>2
    <3> QED BY <3>1, SingleText
  <2>4. run' = [pc |-> "request", todo |-> todo, last |-> run.last, aborted |-> run.aborted, owner |-> run.owner]
    BY <2>1, <2>3 DEF Line, LineType, RunType
  <2>5. RunType'
    BY <1>2, <2>2, <2>3, <2>4 DEF Line, LineType, RunType, RunPoints
  <2>6. NextKey' = NextKey
    BY <1>1, <1>2, <2>4 DEF NextKey
  <2>7. run'.todo = <<Head(queued[way])>>
    BY <2>3, <2>4
  <2> QED BY <1>1, <1>2, <2>1, <2>5, <2>6, <2>7, LineTakes
<1> QED BY <1>3, <1>4 DEF Poll, Ways

(* the run ends,                                                           *)
LEMMA LineEnds ==
    ASSUME Line, Notify(<<Event("agent_end", None)>>), run' = [run EXCEPT !.pc = "settling"],
           run.pc \in {"end", "response"},
           UNCHANGED <<queued, handler, pendingBash, entries, compacting, prompts, asked, used>>
    PROVE  Line'
<1>1. run' = [pc |-> "settling", todo |-> run.todo, last |-> run.last, aborted |-> run.aborted, owner |-> run.owner]
  BY DEF Line, LineType, RunType
<1>2. RunType' /\ Todo' = Todo
  BY <1>1 DEF Line, LineType, RunType, RunPoints, Todo
<1>3. NextKey <= NextKey'
  BY <1>1 DEF Line, LineType, RunType, NextKey
<1>4. events' \in Seq(AllEvents) /\ InEvents' \subseteq InEvents /\ EventsInOrder'
  BY NotifyLast DEF Line, LineType
<1>5. EventType' /\ InHandler' = InHandler
  BY <1>4 DEF Line, LineType, EventType, InHandler
<1> QED BY <1>2, <1>3, <1>4, <1>5, LineMoves

(* and the callers are told.                                               *)
LEMMA LineSettles ==
    ASSUME Line, RunSettles
    PROVE  Line'
<1>1. run.pc = "settling" /\ run' = NoRun /\ prompts' = [c \in Callers |-> AfterRun(c)]
      /\ compacting' = [compacting EXCEPT !.pc = IF @ = "waitIdle" THEN "preparing" ELSE @]
      /\ UNCHANGED <<queued, handler, events, entries, pendingBash, asked, used>>
  BY DEF RunSettles, eventVars, storeVars
<1>2. RunType' /\ Todo' = {} /\ NextKey <= NextKey'
  <2>1. RunType'
    <3>1. <<>> \in Seq(UserMessages) /\ Len(<<>>) = 0
      OBVIOUS
    <3> QED BY <1>1, <3>1 DEF Line, LineType, RunType, RunPoints, NoRun
  <2>2. Todo' = {}
    BY <1>1 DEF Todo, NoRun
  <2>3. NextKey <= NextKey'
    BY <1>1 DEF Line, LineType, RunType, NextKey, NoRun
  <2> QED BY <2>1, <2>2, <2>3
<1>3. QueuesApart' /\ InQueue("steer")' = InQueue("steer") /\ InQueue("followUp")' = InQueue("followUp")
  BY <1>1 DEF Line, QueuesApart, InQueue
<1>4. EventType' /\ EventsInOrder' /\ InHandler' = InHandler /\ InEvents' = InEvents
  BY <1>1, EventsUnchanged DEF Line, LineType
<1>5. FileType'
  BY <1>1 DEF Line, LineType, FileType
<1>6. FileInOrder' /\ InFile' = InFile
  BY <1>1 DEF Line, FileInOrder, InFile
<1>7. ASSUME NEW c \in Callers
      PROVE  /\ prompts'[c] \in [pc : CallPoints, text : Texts \cup {None}, kept : Nat]
             /\ prompts'[c].pc \in Places => prompts'[c] = prompts[c]
  <2>1. prompts'[c] = AfterRun(c) /\ prompts[c] \in [pc : CallPoints, text : Texts \cup {None}, kept : Nat]
    BY <1>1 DEF Line, LineType, CallType
  <2>2. AfterRun(c) \in {[prompts[c] EXCEPT !.pc = "waitRetry"], NoCall, prompts[c]}
    BY DEF AfterRun
  <2> QED BY <2>1, <2>2 DEF NoCall, CallPoints, Places
<1>8. CallType' /\ \A c \in Callers : Starting(c)' \subseteq Starting(c)
  BY <1>1, <1>7 DEF Line, LineType, CallType, Starting
<1>9. LineType'
  BY <1>2, <1>4, <1>5, <1>8 DEF LineType
<1> QED BY <1>1, <1>2, <1>3, <1>4, <1>6, <1>8, <1>9, LineStays

(* Every step of the run keeps the line.                                   *)
LEMMA LineAgent ==
    ASSUME Line, AgentStep
    PROVE  Line'
<1>1. CASE RunEnds
  BY <1>1, LineEnds DEF RunEnds, At, storeVars, callVars, historyVars
<1>2. ASSUME NEW stop \in Stops, RunThrows(stop)
      PROVE  Line'
  BY <1>2, LineEnds DEF RunThrows, At, storeVars, callVars, historyVars
<1> QED BY <1>1, <1>2, LineAnnounce, LinePoll, LineRequest, LineRespond, LineTools, LineSettles DEF AgentStep
-----------------------------------------------------------------------------
(* The timer starts a run, with a queued text or with none.                *)
LEMMA StartedRun ==
    ASSUME RunType, run.pc = "none", UNCHANGED asked, NEW todo \in Seq(UserMessages), Len(todo) <= 1,
           NEW skip \in BOOLEAN, NEW owner, StartRun(todo, skip, owner),
           queued' \in [steer : Seq(UserMessages), followUp : Seq(UserMessages)]
    PROVE  RunType' /\ run'.todo = todo /\ NextKey' = NextKey /\ NextKey <= NextKey'
<1>1. PICK pc \in {"request", "poll"} :
        run' = [pc |-> pc, todo |-> todo, last |-> None, aborted |-> FALSE, owner |-> owner]
  BY DEF StartRun
<1>2. RunType' /\ run'.todo = todo
  BY <1>1 DEF RunType, RunPoints
<1>3. NextKey' = NextKey /\ NextKey \in Nat
  BY <1>1 DEF NextKey, RunType
<1> QED BY <1>2, <1>3

(* A timer does nothing, or starts a run with the texts it finds queued.   *)
LEMMA LineTimer ==
    ASSUME Line, TimerFires
    PROVE  Line'
<1>1. UNCHANGED <<events, handler, entries, pendingBash, compacting, prompts, asked, used>>
  BY DEF TimerFires, eventVars, storeVars, callVars, historyVars
<1>2. EventType' /\ EventsInOrder' /\ InHandler' = InHandler /\ InEvents' = InEvents
  BY <1>1, EventsUnchanged DEF Line, LineType
<1>3. CASE UNCHANGED <<run, queued>>
  <2>1. RunType' /\ Todo' = Todo /\ NextKey' = NextKey /\ NextKey \in Nat
    <3>1. NextKey \in Nat
      BY EndedTyped DEF Line
    <3> QED BY <1>1, <1>3, <3>1, RunUnchanged DEF Line, LineType
  <2>2. NextKey <= NextKey'
    BY <2>1
  <2> QED BY <1>1, <1>2, <1>3, <2>1, <2>2, LineMoves
<1>4. CASE run.pc = "none" /\ StartRun(<<>>, FALSE, None) /\ UNCHANGED queued
  <2>1. PICK todo \in Seq(UserMessages) : todo = <<>> /\ Len(todo) <= 1
    <3>1. PICK todo : todo = <<>>
      OBVIOUS
    <3>2. todo \in Seq(UserMessages)
      BY <3>1
    <3>3. Len(todo) = 0
      BY <3>1
    <3>4. Len(todo) <= 1
      BY <3>3
    <3> WITNESS todo \in Seq(UserMessages)
    <3> QED BY <3>1, <3>4
  <2>2. RunType' /\ run'.todo = todo /\ NextKey <= NextKey'
    <3>1. StartRun(todo, FALSE, None) /\ RunType
      BY <1>4, <2>1 DEF Line, LineType
    <3>2. queued' \in [steer : Seq(UserMessages), followUp : Seq(UserMessages)]
      BY <1>4 DEF Line, LineType, RunType
    <3> QED BY <1>1, <1>4, <2>1, <3>1, <3>2, StartedRun
  <2>3. Todo' \subseteq Todo
    BY <2>1, <2>2 DEF Todo
  <2> QED BY <1>1, <1>2, <1>4, <2>2, <2>3, LineMoves
<1>5. ASSUME NEW way \in Ways, run.pc = "none", queued[way] # <<>>,
             StartRun(<<Head(queued[way])>>, way = "steer", None), queued' = [queued EXCEPT ![way] = Tail(@)]
      PROVE  Line'
  <2>1. Head(queued[way]) \in UserMessages /\ queued' \in [steer : Seq(UserMessages), followUp : Seq(UserMessages)]
    BY <1>5, QueueTaken DEF Line, LineType
  <2>2. PICK todo \in Seq(UserMessages) : todo = <<Head(queued[way])>> /\ Len(todo) <= 1
    <3>1. PICK h \in UserMessages : h = Head(queued[way])
      BY <2>1
    <3> QED BY <3>1, SingleText
  <2>3. RunType' /\ run'.todo = todo /\ NextKey' = NextKey
    <3>1. StartRun(todo, way = "steer", None) /\ RunType /\ (way = "steer") \in BOOLEAN
      BY <1>5, <2>2 DEF Line, LineType
    <3> QED BY <1>1, <1>5, <2>1, <2>2, <3>1, StartedRun
  <2>4. run'.todo = <<Head(queued[way])>>
    BY <2>2, <2>3
  <2> QED BY <1>1, <1>5, <2>3, <2>4, LineTakes
<1>6. CASE run.pc # "none" \/ messages = <<>>
  BY <1>3, <1>6 DEF TimerFires
<1>7. CASE run.pc = "none" /\ messages # <<>> /\ ~IsAssistant(LastOf(messages))
  BY <1>4, <1>7 DEF TimerFires
<1>8. CASE run.pc = "none" /\ messages # <<>> /\ IsAssistant(LastOf(messages))
  <2>1. CASE queued.steer # <<>>
    BY <1>3, <1>5, <1>8, <2>1 DEF TimerFires, Ways
  <2>2. CASE queued.steer = <<>>
    BY <1>3, <1>5, <1>8, <2>2 DEF TimerFires, Ways
  <2> QED BY <2>1, <2>2
<1> QED BY <1>6, <1>7, <1>8
-----------------------------------------------------------------------------
-----------------------------------------------------------------------------
(* The handler takes an event,                                             *)
LEMMA LineTakeEvent ==
    ASSUME Line, TakeEvent
    PROVE  Line'
<1>1. /\ events # <<>> /\ events' = Tail(events)
      /\ handler' = [Ready EXCEPT !.pc = "hooks", !.event = Head(events)]
      /\ UNCHANGED <<queued, run, asked, pendingBash, entries, compacting, prompts, used>>
  BY DEF TakeEvent, NextEvent, agentVars, storeVars, callVars, historyVars
<1>2. /\ EventType' /\ EventsInOrder'
      /\ InHandler' \subseteq InEvents /\ InEvents' \subseteq InEvents
      /\ \A m \in InHandler', n \in InEvents' : Before(m, n)
  BY <1>1, HeadTaken DEF Line, LineType
<1>3. RunType' /\ QueuesApart' /\ Todo' = Todo /\ InQueue("steer")' = InQueue("steer")
      /\ InQueue("followUp")' = InQueue("followUp") /\ NextKey' = NextKey
  BY <1>1, RunUnchanged DEF Line, LineType
<1>4. FileType' /\ FileInOrder' /\ InFile' = InFile
  BY <1>1, FileUnchanged DEF Line, LineType
<1>5. CallType' /\ \A c \in Callers : Starting(c)' = Starting(c)
  BY <1>1, CallsUnchanged DEF Line, LineType
<1>6. LineType'
  BY <1>2, <1>3, <1>4, <1>5 DEF LineType
<1>7. Ended' \subseteq Ended
  BY <1>2, <1>4 DEF Ended
<1>8. Sent' \subseteq Sent
  BY <1>7 DEF Sent
<1>9. PlacesApart' /\ CallsApart'
  BY <1>1, <1>3, <1>5, <1>8, PlacesStay DEF Line
<1>10. LineInOrder'
  BY <1>2, <1>4 DEF Line, LineInOrder
<1>11. KeysBelow'
  BY <1>3, <1>7 DEF Line, KeysBelow
<1>12. BashOnce'
  BY <1>1, <1>4, BashStays DEF Line, LineType, FileType
<1> QED BY <1>2, <1>3, <1>4, <1>6, <1>9, <1>10, <1>11, <1>12 DEF Line

(* persists a message,                                                     *)
LEMMA LinePersist ==
    ASSUME Line, PersistMessage
    PROVE  Line'
<1> DEFINE m == handler.event.message
<1>1. /\ handler.pc = "hooks" /\ handler.event.type = "message_end"
      /\ entries' = Append(entries, MessageEntry(m)) /\ handler' = Ready
      /\ UNCHANGED <<queued, run, asked, events, pendingBash, compacting, prompts, used>>
  BY DEF PersistMessage, Persisted, agentVars, callVars, historyVars
<1>2. m \in InHandler /\ InHandler' = {}
  BY <1>1 DEF InHandler, Ready
<1>3. m \in Endable
  BY <1>2, EndedTyped DEF Line
<1> HIDE DEF m
<1>4. MessageEntry(m) \in Entries /\ MessageEntry(m).type = "message" /\ MessageEntry(m).message = m
  BY <1>3 DEF MessageEntry, Entries
<1>5. entries' \in Seq(Entries) /\ FileInOrder' /\ InFile' \subseteq InFile \cup {m}
  <2>1. \A n \in InFile : Before(n, m)
    BY <1>2 DEF Line, LineInOrder
  <2>2. entries \in Seq(Entries) /\ FileInOrder
    BY DEF Line, LineType, FileType
  <2> QED BY <1>1, <1>4, <2>1, <2>2, FileGrows
<1>6. FileType'
  BY <1>1, <1>5 DEF Line, LineType, FileType
<1>7. RunType' /\ QueuesApart' /\ Todo' = Todo /\ InQueue("steer")' = InQueue("steer")
      /\ InQueue("followUp")' = InQueue("followUp") /\ NextKey' = NextKey
  BY <1>1, RunUnchanged DEF Line, LineType
<1>8. EventType' /\ EventsInOrder' /\ InEvents' = InEvents
  BY <1>1 DEF Line, LineType, EventType, EventsInOrder, InEvents, Ready
<1>9. CallType' /\ \A c \in Callers : Starting(c)' = Starting(c)
  BY <1>1, CallsUnchanged DEF Line, LineType
<1>10. LineType'
  BY <1>6, <1>7, <1>8, <1>9 DEF LineType
<1>11. Ended' \subseteq Ended
  BY <1>2, <1>5, <1>8 DEF Ended
<1>12. Sent' \subseteq Sent
  BY <1>11 DEF Sent
<1>13. PlacesApart' /\ CallsApart'
  BY <1>1, <1>7, <1>9, <1>12, PlacesStay DEF Line
<1>14. LineInOrder'
  BY <1>2, <1>5, <1>8 DEF Line, LineInOrder
<1>15. KeysBelow'
  BY <1>7, <1>11 DEF Line, KeysBelow
<1>16. BashOnce'
  <2>1. InFile' \subseteq InFile \cup Endable
    BY <1>3, <1>5
  <2> QED BY <1>1, <2>1, BashStays DEF Line, LineType, FileType
<1> QED BY <1>5, <1>7, <1>8, <1>10, <1>13, <1>14, <1>15, <1>16 DEF Line

(* or does something that neither sends nor ends anything.                 *)
LEMMA ResolvedCalls ==
    ASSUME CallType, ResolvedRetry
    PROVE  CallType' /\ \A c \in Callers : Starting(c)' = Starting(c)
<1>1. ASSUME NEW c \in Callers
      PROVE  /\ prompts'[c] \in [pc : CallPoints, text : Texts \cup {None}, kept : Nat]
             /\ prompts'[c] = prompts[c] \/ (prompts[c].pc \notin Places /\ prompts'[c].pc \notin Places)
  BY DEF ResolvedRetry, CallType, CallPoints, Places
<1>2. DOMAIN prompts' = Callers /\ prompts' = [c \in Callers |-> prompts'[c]]
  BY DEF ResolvedRetry
<1>3. CallType'
  BY <1>1, <1>2 DEF CallType
<1>4. \A c \in Callers : Starting(c)' = Starting(c)
  BY <1>1 DEF Starting
<1> QED BY <1>3, <1>4

(* The handler, done with an event, awaits a retry or takes the next one.  *)
LEMMA HandlerMoves ==
    ASSUME Line, NEW pc, pc # "hooks", NEW event, NEW kept \in Nat,
           handler' = [pc |-> pc, event |-> event, kept |-> kept],
           UNCHANGED prompts \/ ResolvedRetry,
           entries' \in Seq(Entries), FileInOrder', InFile' \subseteq InFile,
           UNCHANGED <<queued, run, asked, events, pendingBash, compacting, used>>
    PROVE  Line'
<1>1. RunType' /\ QueuesApart' /\ Todo' = Todo /\ InQueue("steer")' = InQueue("steer")
      /\ InQueue("followUp")' = InQueue("followUp") /\ NextKey' = NextKey
  BY RunUnchanged DEF Line, LineType
<1>2. EventType' /\ EventsInOrder' /\ InEvents' = InEvents
  <2>1. handler'.pc = pc /\ handler'.event = event /\ handler'.kept = kept
    BY ONLY handler' = [pc |-> pc, event |-> event, kept |-> kept]
  <2>2. EventType'
    BY <2>1 DEF Line, LineType, EventType
  <2> QED BY <2>2 DEF Line, EventsInOrder, InEvents
<1>3. InHandler' = {}
  BY DEF InHandler
<1>4. FileType'
  BY DEF Line, LineType, FileType
<1>5. CallType' /\ \A c \in Callers : Starting(c)' = Starting(c)
  BY CallsUnchanged, ResolvedCalls DEF Line, LineType
<1>6. LineType'
  BY <1>1, <1>2, <1>4, <1>5 DEF LineType
<1>7. NextKey <= NextKey'
  <2>1. NextKey \in Nat
    BY EndedTyped DEF Line
  <2> QED BY <1>1, <2>1
<1> QED BY <1>1, <1>2, <1>3, <1>5, <1>6, <1>7, LineStays

(* If nothing is written, the file stays as it is.                         *)
LEMMA FileSame ==
    ASSUME Line, UNCHANGED entries
    PROVE  entries' \in Seq(Entries) /\ FileInOrder' /\ InFile' \subseteq InFile
BY DEF Line, LineType, FileType, FileInOrder, InFile

(* The end of a run is handled: a retry ends, a compaction may begin.      *)
LEMMA LineCheckedEnd ==
    ASSUME Line, NEW m, NEW go \in NextSteps, CheckedEnd(m, go),
           UNCHANGED <<queued, run, asked, events, entries, pendingBash, compacting, used>>
    PROVE  Line'
<1>1. entries' \in Seq(Entries) /\ FileInOrder' /\ InFile' \subseteq InFile
  BY FileSame
<1>2. ResolvedRetry
  BY DEF CheckedEnd
<1>3. CASE handler' = Ready
  BY <1>1, <1>2, <1>3, HandlerMoves DEF Ready
<1>4. ASSUME NEW kept \in 0 .. Len(entries), go # "done", handler' = [pc |-> go, event |-> None, kept |-> kept]
      PROVE  Line'
  <2>1. go # "hooks"
    BY DEF NextSteps
  <2>2. kept \in Nat
    BY DEF Line, LineType, FileType
  <2> QED BY <1>1, <1>2, <1>4, <2>1, <2>2, HandlerMoves
<1> QED BY <1>3, <1>4 DEF CheckedEnd

(* Each step of the handler writes at most what it has taken.              *)
LEMMA LineHandler ==
    ASSUME Line, HandlerStep
    PROVE  Line'
<1>1. CASE ForwardEvent
  <2>1. entries' \in Seq(Entries) /\ FileInOrder' /\ InFile' \subseteq InFile
    BY <1>1, FileSame DEF ForwardEvent, storeVars
  <2> QED BY <1>1, <2>1, HandlerMoves DEF ForwardEvent, Ready, agentVars, storeVars, callVars, historyVars
<1>2. CASE HandleEnd
  BY <1>2, LineCheckedEnd DEF HandleEnd, storeVars, historyVars
<1>3. CASE HandleRetry
  <2>1. entries' \in Seq(Entries) /\ FileInOrder' /\ InFile' \subseteq InFile
    BY <1>3, FileSame DEF HandleRetry, storeVars
  <2>2. handler' = [pc |-> "sleep", event |-> Event("agent_end", lastAssistant), kept |-> 0]
    BY <1>3 DEF HandleRetry, Ready
  <2> QED BY <1>3, <2>1, <2>2, HandlerMoves DEF HandleRetry, storeVars, callVars, historyVars
<1>4. CASE WakeUp
  <2>1. entries' \in Seq(Entries) /\ FileInOrder' /\ InFile' \subseteq InFile
    BY <1>4, FileSame DEF WakeUp, storeVars
  <2> QED BY <1>4, <2>1, HandlerMoves DEF WakeUp, Ready, agentVars, storeVars, callVars, historyVars
<1>5. CASE RetryCancelled
  BY <1>5, LineCheckedEnd DEF RetryCancelled, storeVars, historyVars
<1>6. CASE AutoCompact
  <2>1. Compact(handler.pc, handler.kept) /\ handler.kept \in Nat /\ asked \in Nat /\ FileType /\ FileInOrder
    BY <1>6 DEF AutoCompact, Line, LineType, EventType, RunType
  <2>2. entries' \in Seq(Entries) /\ FileInOrder' /\ InFile' \subseteq InFile
    BY <2>1, CompactGrows
  <2> QED BY <1>6, <2>2, HandlerMoves DEF AutoCompact, Ready, callVars, historyVars
<1> QED BY <1>1, <1>2, <1>3, <1>4, <1>5, <1>6, LineTakeEvent, LinePersist DEF HandlerStep
-----------------------------------------------------------------------------
(* The callers: a step that neither sends nor ends anything,               *)
LEMMA CallMoves ==
    ASSUME Line, CallType', \A c \in Callers : Starting(c)' \subseteq Starting(c),
           entries' \in Seq(Entries), FileInOrder', InFile' \subseteq InFile,
           NEW pc, NEW kept \in Nat, compacting' = [pc |-> pc, kept |-> kept],
           UNCHANGED run \/ run' = [run EXCEPT !.aborted = isStreaming],
           UNCHANGED handler \/ handler' = [handler EXCEPT !.pc = "cancelled"],
           UNCHANGED <<queued, asked, events, pendingBash>>, used \subseteq used'
    PROVE  Line'
<1>1. RunType' /\ run'.pc = run.pc /\ run'.todo = run.todo
  BY DEF Line, LineType, RunType
<1>2. QueuesApart' /\ Todo' = Todo /\ InQueue("steer")' = InQueue("steer") /\ InQueue("followUp")' = InQueue("followUp")
  BY <1>1 DEF Line, QueuesApart, Todo, InQueue
<1>3. NextKey <= NextKey'
  <2>1. NextKey \in Nat
    BY EndedTyped DEF Line
  <2>2. NextKey' = NextKey
    BY <1>1 DEF NextKey
  <2> QED BY <2>1, <2>2
<1>4. EventType' /\ InHandler' \subseteq InHandler
  BY DEF Line, LineType, EventType, InHandler
<1>5. EventsInOrder' /\ InEvents' = InEvents
  BY DEF Line, EventsInOrder, InEvents
<1>6. FileType'
  <2>1. compacting'.pc = pc /\ compacting'.kept = kept
    OBVIOUS
  <2> QED BY <2>1 DEF Line, LineType, FileType
<1>7. LineType'
  BY <1>1, <1>4, <1>6 DEF LineType
<1> QED BY <1>2, <1>3, <1>4, <1>5, <1>7, LineStays

(* What compacts stays as it is,                                           *)
LEMMA CompactingSame ==
    ASSUME Line, UNCHANGED compacting
    PROVE  compacting' = [pc |-> compacting.pc, kept |-> compacting.kept] /\ compacting.kept \in Nat
BY DEF Line, LineType, FileType

(* an abort,                                                               *)
LEMMA AbortedCalls ==
    ASSUME Line, Aborted
    PROVE  /\ CallType' /\ \A c \in Callers : Starting(c)' \subseteq Starting(c)
           /\ run' = [run EXCEPT !.aborted = isStreaming]
           /\ UNCHANGED handler \/ handler' = [handler EXCEPT !.pc = "cancelled"]
<1>1. CallType' /\ \A c \in Callers : Starting(c)' = Starting(c)
  BY ResolvedCalls DEF Aborted, Line, LineType
<1> QED BY <1>1 DEF Aborted

(* which sends and ends nothing,                                           *)
LEMMA LineAbort ==
    ASSUME Line, Abort
    PROVE  Line'
<1>1. Aborted /\ UNCHANGED <<queued, asked, events, entries, pendingBash, compacting, used>>
  BY DEF Abort, storeVars
<1>2. entries' \in Seq(Entries) /\ FileInOrder' /\ InFile' \subseteq InFile
  BY <1>1, FileSame
<1>3. compacting' = [pc |-> compacting.pc, kept |-> compacting.kept] /\ compacting.kept \in Nat
  BY <1>1, CompactingSame
<1> QED BY <1>1, <1>2, <1>3, AbortedCalls, CallMoves

(* the three steps of compact(),                                           *)
LEMMA LineManual ==
    ASSUME Line, ManualCompact \/ ManualPrepares \/ ManualCompacted
    PROVE  Line'
<1>1. CASE ManualCompact
  <2>1. Aborted /\ UNCHANGED <<queued, asked, events, entries, pendingBash, used>>
    BY <1>1 DEF ManualCompact, storeVars, historyVars
  <2>2. entries' \in Seq(Entries) /\ FileInOrder' /\ InFile' \subseteq InFile
    BY <2>1, FileSame
  <2>3. PICK pc : compacting' = [pc |-> pc, kept |-> compacting.kept]
    BY <1>1 DEF ManualCompact, Line, LineType, FileType
  <2>4. compacting.kept \in Nat
    BY DEF Line, LineType, FileType
  <2> QED BY <2>1, <2>2, <2>3, <2>4, AbortedCalls, CallMoves
<1>2. CASE ManualPrepares
  <2>1. UNCHANGED <<queued, run, asked, events, handler, entries, pendingBash, prompts, used>>
    BY <1>2 DEF ManualPrepares, agentVars, eventVars, storeVars, historyVars
  <2>2. entries' \in Seq(Entries) /\ FileInOrder' /\ InFile' \subseteq InFile
    BY <2>1, FileSame
  <2>3. PICK kept \in 0 .. Len(entries) : compacting' = [pc |-> "summarizing", kept |-> kept]
    BY <1>2 DEF ManualPrepares
  <2>4. kept \in Nat
    BY DEF Line, LineType, FileType
  <2>5. CallType' /\ \A c \in Callers : Starting(c)' = Starting(c)
    BY <2>1, CallsUnchanged DEF Line, LineType
  <2> QED BY <2>1, <2>2, <2>3, <2>4, <2>5, CallMoves
<1>3. CASE ManualCompacted
  <2>1. UNCHANGED <<queued, run, asked, events, handler, pendingBash, prompts, used>>
        /\ compacting' = [pc |-> "no", kept |-> 0] /\ Compact("manual", compacting.kept)
    BY <1>3 DEF ManualCompacted, NoCompact, historyVars
  <2>2. entries' \in Seq(Entries) /\ FileInOrder' /\ InFile' \subseteq InFile
    <3>1. FileType /\ FileInOrder /\ asked \in Nat /\ compacting.kept \in Nat
      BY DEF Line, LineType, FileType, RunType
    <3> QED BY <2>1, <3>1, CompactGrows
  <2>3. CallType' /\ \A c \in Callers : Starting(c)' = Starting(c)
    BY <2>1, CallsUnchanged DEF Line, LineType
  <2> QED BY <2>1, <2>2, <2>3, CallMoves
<1> QED BY <1>1, <1>2, <1>3

(* the steps of prompt() around the run,                                   *)
LEMMA CallChanged ==
    ASSUME CallType, NEW c \in Callers, NEW call \in [pc : CallPoints, text : Texts \cup {None}, kept : Nat],
           prompts' = [prompts EXCEPT ![c] = call],
           call.pc \in Places => prompts[c].pc \in Places /\ call.text = prompts[c].text
    PROVE  CallType' /\ \A d \in Callers : Starting(d)' \subseteq Starting(d)
<1>1. \A d \in Callers : prompts'[d] = IF d = c THEN call ELSE prompts[d]
  BY DEF CallType
<1>2. prompts' \in [Callers -> [pc : CallPoints, text : Texts \cup {None}, kept : Nat]]
  BY DEF CallType
<1>3. CallType'
  BY <1>1, <1>2 DEF CallType
<1>4. \A d \in Callers : Starting(d)' \subseteq Starting(d)
  BY <1>1 DEF Starting
<1> QED BY <1>3, <1>4

(* a caller that compacts or waits for its retry,                          *)
LEMMA LineCalls ==
    ASSUME Line, NEW c \in Callers, PromptCompacts(c) \/ PromptRetried(c)
    PROVE  Line'
<1>0. compacting.kept \in Nat /\ prompts[c] \in [pc : CallPoints, text : Texts \cup {None}, kept : Nat]
  BY DEF Line, LineType, FileType, CallType
<1>1. CASE PromptCompacts(c)
  <2>1. UNCHANGED <<queued, run, asked, events, handler, pendingBash, compacting, used>>
        /\ Compact(prompts[c].pc, prompts[c].kept) /\ prompts[c].pc \in {"recovering", "compacting"}
    BY <1>1 DEF PromptCompacts, eventVars, historyVars
  <2>2. entries' \in Seq(Entries) /\ FileInOrder' /\ InFile' \subseteq InFile
    <3>1. FileType /\ FileInOrder /\ asked \in Nat /\ prompts[c].kept \in Nat
      BY <1>0 DEF Line, LineType, RunType
    <3> QED BY <2>1, <3>1, CompactGrows
  <2>3. prompts' = [prompts EXCEPT ![c] = [pc |-> "starting", text |-> prompts[c].text, kept |-> 0]]
    <3>1. prompts' = [prompts EXCEPT ![c].pc = "starting", ![c].kept = 0]
      BY <1>1 DEF PromptCompacts
    <3>2. DOMAIN prompts = Callers /\ \A d \in Callers : prompts[d] \in [pc : CallPoints, text : Texts \cup {None}, kept : Nat]
      BY DEF Line, LineType, CallType
    <3>3. prompts'[c] = [[prompts[c] EXCEPT !.pc = "starting"] EXCEPT !.kept = 0]
          /\ DOMAIN prompts' = Callers /\ \A d \in Callers \ {c} : prompts'[d] = prompts[d]
      BY <3>1, <3>2
    <3>4. prompts'[c] = [pc |-> "starting", text |-> prompts[c].text, kept |-> 0]
      BY <1>0, <3>3
    <3> QED BY <3>1, <3>2, <3>3, <3>4
  <2>4. CallType' /\ \A d \in Callers : Starting(d)' \subseteq Starting(d)
    <3>1. PICK call : call = [pc |-> "starting", text |-> prompts[c].text, kept |-> 0]
      OBVIOUS
    <3>2. call \in [pc : CallPoints, text : Texts \cup {None}, kept : Nat] /\ call.text = prompts[c].text
          /\ prompts[c].pc \in Places
      BY <1>0, <2>1, <3>1 DEF CallPoints, Places
    <3> QED BY <2>3, <3>1, <3>2, CallChanged DEF Line, LineType
  <2>5. compacting' = [pc |-> compacting.pc, kept |-> compacting.kept]
    BY <2>1, CompactingSame
  <2> QED BY <1>0, <2>1, <2>2, <2>4, <2>5, CallMoves
<1>2. CASE PromptRetried(c)
  <2>1. UNCHANGED <<queued, run, asked, events, handler, entries, pendingBash, compacting, used>>
    BY <1>2 DEF PromptRetried, agentVars, eventVars, storeVars, historyVars
  <2>2. entries' \in Seq(Entries) /\ FileInOrder' /\ InFile' \subseteq InFile
    BY <2>1, FileSame
  <2>3. PICK call : call = (IF isStreaming THEN [prompts[c] EXCEPT !.pc = "waitIdle"] ELSE NoCall)
    OBVIOUS
  <2>4. prompts' = [prompts EXCEPT ![c] = call]
    BY <1>2, <2>3 DEF PromptRetried
  <2>5. call \in [pc : CallPoints, text : Texts \cup {None}, kept : Nat] /\ call.pc \notin Places
    BY <1>0, <2>3 DEF CallPoints, Places, NoCall
  <2>6. CallType' /\ \A d \in Callers : Starting(d)' \subseteq Starting(d)
    BY <2>4, <2>5, CallChanged DEF Line, LineType
  <2>7. compacting' = [pc |-> compacting.pc, kept |-> compacting.kept]
    BY <2>1, CompactingSame
  <2> QED BY <1>0, <2>1, <2>2, <2>6, <2>7, CallMoves
<1> QED BY <1>1, <1>2

(* agent.prompt(), which sends the text or throws,                         *)
LEMMA LinePromptStarts ==
    ASSUME Line, NEW c \in Callers, PromptStarts(c)
    PROVE  Line'
<1>1. prompts[c].pc = "starting" /\ prompts[c] \in [pc : CallPoints, text : Texts \cup {None}, kept : Nat]
      /\ UNCHANGED <<queued, asked, events, handler, entries, pendingBash, compacting, used>>
  BY DEF PromptStarts, Line, LineType, CallType, eventVars, storeVars
<1>2. entries' \in Seq(Entries) /\ FileInOrder' /\ InFile' = InFile
  BY <1>1 DEF Line, LineType, FileType, FileInOrder, InFile
<1>3. CASE isStreaming
  <2>1. prompts' = [prompts EXCEPT ![c] = NoCall] /\ UNCHANGED run
    BY <1>3 DEF PromptStarts
  <2>2. NoCall \in [pc : CallPoints, text : Texts \cup {None}, kept : Nat] /\ NoCall.pc \notin Places
    BY DEF NoCall, CallPoints, Places
  <2>3. CallType' /\ \A d \in Callers : Starting(d)' \subseteq Starting(d)
    BY <2>1, <2>2, CallChanged DEF Line, LineType
  <2>4. compacting' = [pc |-> compacting.pc, kept |-> compacting.kept] /\ compacting.kept \in Nat
    BY <1>1, CompactingSame
  <2> QED BY <1>1, <1>2, <2>1, <2>3, <2>4, CallMoves
<1>4. CASE ~isStreaming
  <2> DEFINE t == prompts[c].text
  <2>1. /\ prompts' = [prompts EXCEPT ![c].pc = "running"]
        /\ StartRun(<<User(t)>>, FALSE, c) /\ run.pc = "none"
    BY <1>4 DEF PromptStarts, isStreaming
  <2>2. t \in Texts /\ Starting(c) = {t}
    BY <1>1 DEF Line, LineType, CallType, Starting, Places
  <2> HIDE DEF t
  <2>3. PICK m \in UserMessages : m = User(t) /\ m.id = t
    <3>1. User(t) \in UserMessages /\ User(t).id = t
      BY <2>2 DEF User, UserMessages
    <3> QED BY <3>1
  <2>4. PICK todo \in Seq(UserMessages) : todo = <<m>> /\ Len(todo) <= 1
    BY SingleText
  <2>5. RunType' /\ run'.todo = todo /\ NextKey' = NextKey
    <3>1. StartRun(todo, FALSE, c) /\ RunType
      BY <2>1, <2>3, <2>4 DEF Line, LineType
    <3>2. queued' \in [steer : Seq(UserMessages), followUp : Seq(UserMessages)]
      BY <1>1 DEF Line, LineType, RunType
    <3> QED BY <1>1, <2>1, <2>4, <3>1, <3>2, StartedRun
  <2>6. Todo' = {t}
    BY <2>3, <2>4, <2>5 DEF Todo
  <2>7. QueuesApart' /\ InQueue("steer")' = InQueue("steer") /\ InQueue("followUp")' = InQueue("followUp")
    BY <1>1 DEF Line, QueuesApart, InQueue
  <2>8. EventType' /\ EventsInOrder' /\ InHandler' = InHandler /\ InEvents' = InEvents
    BY <1>1, EventsUnchanged DEF Line, LineType
  <2>9. FileType'
    BY <1>1 DEF Line, LineType, FileType
  <2>10. CallType' /\ Starting(c)' = {} /\ \A d \in Callers \ {c} : Starting(d)' = Starting(d)
    <3>0. PICK call : call = [prompts[c] EXCEPT !.pc = "running"]
      OBVIOUS
    <3>1. call \in [pc : CallPoints, text : Texts \cup {None}, kept : Nat] /\ call.pc \notin Places
      BY <1>1, <3>0 DEF CallPoints, Places
    <3>2. prompts' = [prompts EXCEPT ![c] = call]
      BY <2>1, <3>0
    <3>3. CallType'
      BY <3>1, <3>2, CallChanged DEF Line, LineType
    <3>4. prompts'[c] = call /\ \A d \in Callers \ {c} : prompts'[d] = prompts[d]
      BY <3>2 DEF Line, LineType, CallType
    <3> QED BY <3>1, <3>3, <3>4 DEF Starting
  <2>11. LineType'
    BY <2>5, <2>8, <2>9, <2>10 DEF LineType
  <2>12. Ended' = Ended /\ Sent' = Sent
    BY <1>2, <2>8 DEF Ended, Sent
  <2>13. t \in used /\ t \notin InQueue("steer") \cup InQueue("followUp") \cup Sent
         /\ \A d \in Callers \ {c} : t \notin Starting(d)
    BY <2>2 DEF Line, CallsApart
  <2>14. PlacesApart'
    <3>1. PlacesApart
      BY DEF Line
    <3> QED BY <1>1, <2>6, <2>7, <2>12, <2>13, <3>1 DEF PlacesApart
  <2>15. CallsApart'
    <3>1. \A d \in Callers : Starting(d)' \subseteq Starting(d) /\ t \notin Starting(d)'
      BY <2>10, <2>13
    <3>2. CallsApart
      BY DEF Line
    <3> QED BY <1>1, <2>6, <2>7, <2>12, <3>1, <3>2 DEF CallsApart
  <2>16. LineInOrder'
    BY <1>2, <2>8, LineOrderStays DEF Line
  <2>17. KeysBelow'
    BY <2>5, <2>12 DEF Line, KeysBelow
  <2>18. BashOnce'
    BY <1>1, <1>2, BashStays DEF Line, LineType, FileType
  <2> QED BY <1>2, <2>7, <2>8, <2>11, <2>14, <2>15, <2>16, <2>17, <2>18 DEF Line
<1> QED BY <1>3, <1>4

(* a text that is queued,                                                  *)
LEMMA LineQueue ==
    ASSUME Line, NEW way \in Ways, NEW t \in Texts, Queue(way, t)
    PROVE  Line'
<1>1. t \notin used /\ queued' = [queued EXCEPT ![way] = Append(@, User(t))] /\ used' = used \cup {t}
      /\ UNCHANGED <<run, asked, events, handler, entries, pendingBash, compacting, prompts>>
  BY DEF Queue, eventVars, storeVars, callVars
<1>2. t \notin Todo \cup InQueue("steer") \cup InQueue("followUp") \cup Sent /\ \A c \in Callers : t \notin Starting(c)
  BY <1>1 DEF Line, PlacesApart, CallsApart
<1>3. /\ queued' \in [steer : Seq(UserMessages), followUp : Seq(UserMessages)] /\ QueuesApart'
      /\ InQueue(way)' \subseteq InQueue(way) \cup {t}
      /\ \A other \in Ways : other # way => InQueue(other)' \subseteq InQueue(other)
  <2>1. t \notin InQueue(way)
    BY <1>2 DEF Ways
  <2> QED BY <1>1, <2>1, QueueGrows DEF Line, LineType
<1>4. RunType' /\ Todo' = Todo /\ NextKey' = NextKey
  BY <1>1, <1>3 DEF Line, LineType, RunType, Todo, NextKey
<1>5. EventType' /\ EventsInOrder' /\ InHandler' = InHandler /\ InEvents' = InEvents
  BY <1>1, EventsUnchanged DEF Line, LineType
<1>6. FileType' /\ FileInOrder' /\ InFile' = InFile
  BY <1>1, FileUnchanged DEF Line, LineType
<1>7. CallType' /\ \A c \in Callers : Starting(c)' = Starting(c)
  BY <1>1, CallsUnchanged DEF Line, LineType
<1>8. LineType'
  BY <1>4, <1>5, <1>6, <1>7 DEF LineType
<1>9. Ended' = Ended /\ Sent' = Sent
  BY <1>5, <1>6 DEF Ended, Sent
<1>10. \/ InQueue("steer")' \subseteq InQueue("steer") \cup {t} /\ InQueue("followUp")' \subseteq InQueue("followUp")
       \/ InQueue("followUp")' \subseteq InQueue("followUp") \cup {t} /\ InQueue("steer")' \subseteq InQueue("steer")
  BY <1>3 DEF Ways
<1>11. PlacesApart'
  <2>1. PlacesApart
    BY DEF Line
  <2> QED BY <1>1, <1>2, <1>4, <1>9, <1>10, <2>1 DEF PlacesApart
<1>12. CallsApart'
  <2>1. CallsApart
    BY DEF Line
  <2> QED BY <1>1, <1>2, <1>4, <1>7, <1>9, <1>10, <2>1 DEF CallsApart
<1>13. LineInOrder'
  BY <1>5, <1>6, LineOrderStays DEF Line
<1>14. KeysBelow'
  BY <1>4, <1>9 DEF Line, KeysBelow
<1>15. BashOnce'
  BY <1>1, <1>6, BashStays DEF Line, LineType, FileType
<1> QED BY <1>3, <1>5, <1>6, <1>8, <1>11, <1>12, <1>13, <1>14, <1>15 DEF Line

(* the queues that are cleared,                                            *)
LEMMA LineClear ==
    ASSUME Line, ClearQueue
    PROVE  Line'
<1>1. queued' = [steer |-> <<>>, followUp |-> <<>>]
      /\ UNCHANGED <<run, asked, events, handler, entries, pendingBash, compacting, prompts, used>>
  BY DEF ClearQueue, eventVars, storeVars, callVars, historyVars
<1>2. queued' \in [steer : Seq(UserMessages), followUp : Seq(UserMessages)]
  <2>1. <<>> \in Seq(UserMessages)
    OBVIOUS
  <2> QED BY <1>1, <2>1
<1>3. QueuesApart' /\ InQueue("steer")' = {} /\ InQueue("followUp")' = {}
  <2>1. queued'.steer = <<>> /\ queued'.followUp = <<>>
    BY <1>1
  <2> QED BY <2>1 DEF QueuesApart, InQueue, Ways
<1>4. RunType' /\ Todo' = Todo
  BY <1>1, <1>2 DEF Line, LineType, RunType, Todo
<1>5. NextKey <= NextKey'
  <2>1. NextKey \in Nat
    BY EndedTyped DEF Line
  <2>2. NextKey' = NextKey
    BY <1>1 DEF NextKey
  <2> QED BY <2>1, <2>2
<1>6. EventType' /\ EventsInOrder' /\ InHandler' = InHandler /\ InEvents' = InEvents
  BY <1>1, EventsUnchanged DEF Line, LineType
<1>7. FileType' /\ FileInOrder' /\ InFile' = InFile
  BY <1>1, FileUnchanged DEF Line, LineType
<1>8. CallType' /\ \A c \in Callers : Starting(c)' = Starting(c)
  BY <1>1, CallsUnchanged DEF Line, LineType
<1>9. LineType'
  BY <1>4, <1>6, <1>7, <1>8 DEF LineType
<1> QED BY <1>1, <1>3, <1>4, <1>5, <1>6, <1>7, <1>8, <1>9, LineStays

(* a bash result, which is deferred while a run streams,                   *)
LEMMA LineRecords ==
    ASSUME Line, NEW b \in Bashes, RecordBashResult(b)
    PROVE  Line'
<1>1. b \notin used /\ used' = used \cup {b}
      /\ UNCHANGED <<queued, run, asked, events, handler, compacting, prompts>>
  BY DEF RecordBashResult, eventVars, callVars
<1>2. Bash(b) \in BashMessages /\ Bash(b).id = b /\ Bash(b).role = "bash" /\ ~Numbered(Bash(b))
  BY DEF Bash, BashMessages, Numbered
<1>3. RunType' /\ QueuesApart' /\ Todo' = Todo /\ InQueue("steer")' = InQueue("steer")
      /\ InQueue("followUp")' = InQueue("followUp") /\ NextKey' = NextKey
  BY <1>1, RunUnchanged DEF Line, LineType
<1>4. EventType' /\ EventsInOrder' /\ InHandler' = InHandler /\ InEvents' = InEvents
  BY <1>1, EventsUnchanged DEF Line, LineType
<1>5. CallType' /\ \A c \in Callers : Starting(c)' = Starting(c)
  BY <1>1, CallsUnchanged DEF Line, LineType
<1>6. Bash(b) \notin InFile /\ \A i \in DOMAIN pendingBash : pendingBash[i] # Bash(b)
  BY <1>1, <1>2 DEF Line, BashOnce
<1>7. FileType' /\ FileInOrder' /\ InFile' \subseteq InFile \cup {Bash(b)} /\ BashOnce'
  <2>1. CASE isStreaming
    <3>1. pendingBash' = Append(pendingBash, Bash(b)) /\ UNCHANGED entries
      BY <2>1 DEF RecordBashResult
    <3>2. pendingBash \in Seq(BashMessages) /\ pendingBash' \in Seq(BashMessages)
      BY <1>2, <3>1 DEF Line, LineType, FileType
    <3>3. FileType' /\ FileInOrder' /\ InFile' = InFile
      BY <1>1, <3>1, <3>2 DEF Line, LineType, FileType, FileInOrder, InFile
    <3>4. \A i \in DOMAIN pendingBash' : \/ i \in DOMAIN pendingBash /\ pendingBash'[i] = pendingBash[i]
                                         \/ i = Len(pendingBash) + 1 /\ pendingBash'[i] = Bash(b)
      BY <1>2, <3>1, <3>2
    <3>5. BashOnce'
      BY <1>1, <1>2, <1>6, <3>3, <3>4 DEF Line, BashOnce
    <3> QED BY <3>3, <3>5
  <2>2. CASE ~isStreaming
    <3>1. entries' = Append(entries, MessageEntry(Bash(b))) /\ UNCHANGED pendingBash
      BY <2>2 DEF RecordBashResult
    <3>2. MessageEntry(Bash(b)) \in Entries /\ MessageEntry(Bash(b)).message = Bash(b)
      BY <1>2 DEF MessageEntry, Entries
    <3>3. \A n \in InFile : Before(n, Bash(b))
      BY <1>2, <1>6 DEF Before
    <3>4. entries' \in Seq(Entries) /\ FileInOrder' /\ InFile' \subseteq InFile \cup {Bash(b)}
      BY <3>1, <3>2, <3>3, FileGrows DEF Line, LineType, FileType
    <3>5. FileType'
      BY <1>1, <3>1, <3>4 DEF Line, LineType, FileType
    <3>6. BashOnce'
      BY <1>1, <1>2, <1>6, <3>1, <3>4 DEF Line, BashOnce
    <3> QED BY <3>4, <3>5, <3>6
  <2> QED BY <2>1, <2>2
<1>8. LineType'
  BY <1>3, <1>4, <1>5, <1>7 DEF LineType
<1>9. Ended' \subseteq Ended \cup {Bash(b)}
  BY <1>4, <1>7 DEF Ended
<1>10. Sent' \subseteq Sent
  BY <1>2, <1>9 DEF Sent
<1>11. PlacesApart' /\ CallsApart'
  BY <1>1, <1>3, <1>5, <1>10, PlacesStay DEF Line
<1>12. LineInOrder'
  <2>1. \A n \in InHandler \cup InEvents : n.role # "bash"
    <3>1. InHandler \subseteq Endable /\ InEvents \subseteq Endable
      BY EndedTyped DEF Line
    <3> QED BY <3>1 DEF Endable, UserMessages, ModelMessages
  <2>2. \A n \in InHandler \cup InEvents : Before(Bash(b), n)
    BY <1>2, <2>1 DEF Before
  <2> QED BY <1>4, <1>7, <2>2 DEF Line, LineInOrder
<1>13. KeysBelow'
  BY <1>2, <1>3, <1>9 DEF Line, KeysBelow
<1> QED BY <1>3, <1>4, <1>7, <1>8, <1>11, <1>12, <1>13 DEF Line

(* and a prompt, before which the deferred bash results are written.       *)
LEMMA PromptEffect ==
    ASSUME Line, NEW c \in Callers, NEW t \in Texts, Prompt(c, t)
    PROVE  /\ prompts[c].pc = "idle" /\ t \notin used /\ used' = used \cup {t}
           /\ pendingBash' = <<>>
           /\ entries' = entries \o [i \in DOMAIN pendingBash |-> MessageEntry(pendingBash[i])]
           /\ UNCHANGED <<queued, run, asked, events, handler, compacting>>
           /\ \E pc \in Places : \E kept \in Nat : prompts' = [prompts EXCEPT ![c] = [pc |-> pc, text |-> t, kept |-> kept]]
<1>1. /\ prompts[c].pc = "idle" /\ t \notin used /\ used' = used \cup {t}
      /\ pendingBash' = <<>>
      /\ entries' = entries \o [i \in DOMAIN pendingBash |-> MessageEntry(pendingBash[i])]
      /\ UNCHANGED <<queued, run, asked, events, handler, compacting>>
  BY DEF Prompt, eventVars
<1>2. PICK go \in NextSteps :
        \/ prompts' = [prompts EXCEPT ![c] = [NoCall EXCEPT !.pc = "starting", !.text = t]]
        \/ /\ go # "done"
           /\ \E kept \in 0 .. Len(entries) : prompts' = [prompts EXCEPT ![c] = [pc |-> go, text |-> t, kept |-> kept]]
  BY DEF Prompt
<1>3. CASE prompts' = [prompts EXCEPT ![c] = [NoCall EXCEPT !.pc = "starting", !.text = t]]
  <2>1. [NoCall EXCEPT !.pc = "starting", !.text = t] = [pc |-> "starting", text |-> t, kept |-> 0]
    <3>1. PICK call : call = [NoCall EXCEPT !.pc = "starting", !.text = t]
      OBVIOUS
    <3>2. call = [pc |-> "starting", text |-> t, kept |-> 0]
      BY <3>1 DEF NoCall
    <3> QED BY <3>1, <3>2
  <2>2. prompts' = [prompts EXCEPT ![c] = [pc |-> "starting", text |-> t, kept |-> 0]]
    BY <1>3, <2>1
  <2>3. "starting" \in Places /\ 0 \in Nat
    BY DEF Places
  <2> QED BY <1>1, <2>2, <2>3
<1>4. ASSUME go # "done", NEW kept \in 0 .. Len(entries),
             prompts' = [prompts EXCEPT ![c] = [pc |-> go, text |-> t, kept |-> kept]]
      PROVE  \E pc \in Places : \E k \in Nat : prompts' = [prompts EXCEPT ![c] = [pc |-> pc, text |-> t, kept |-> k]]
  <2>1. go \in Places
    BY <1>4 DEF NextSteps, Places
  <2>2. kept \in Nat
    BY DEF Line, LineType, FileType
  <2> QED BY <1>4, <2>1, <2>2
<1> QED BY <1>1, <1>2, <1>3, <1>4

(* a prompt: deferred bash results are written, its text is on its way.    *)
LEMMA LinePrompt ==
    ASSUME Line, NEW c \in Callers, NEW t \in Texts, Prompt(c, t)
    PROVE  Line'
<1>1. /\ prompts[c].pc = "idle" /\ t \notin used /\ used' = used \cup {t}
      /\ pendingBash' = <<>>
      /\ entries' = entries \o [i \in DOMAIN pendingBash |-> MessageEntry(pendingBash[i])]
      /\ UNCHANGED <<queued, run, asked, events, handler, compacting>>
  BY PromptEffect
<1>2. PICK call : /\ prompts' = [prompts EXCEPT ![c] = call] /\ call.text = t
                  /\ call \in [pc : CallPoints, text : Texts \cup {None}, kept : Nat]
  <2>1. PICK pc \in Places : \E kept \in Nat : prompts' = [prompts EXCEPT ![c] = [pc |-> pc, text |-> t, kept |-> kept]]
    BY PromptEffect
  <2>2. PICK kept \in Nat : prompts' = [prompts EXCEPT ![c] = [pc |-> pc, text |-> t, kept |-> kept]]
    BY <2>1
  <2>3. PICK call : call = [pc |-> pc, text |-> t, kept |-> kept]
    OBVIOUS
  <2>4. call.text = t /\ call \in [pc : CallPoints, text : Texts \cup {None}, kept : Nat]
    BY <2>3 DEF CallPoints, Places
  <2> QED BY <2>2, <2>3, <2>4
<1>3. /\ \A d \in Callers : prompts'[d] = IF d = c THEN call ELSE prompts[d]
      /\ prompts' \in [Callers -> [pc : CallPoints, text : Texts \cup {None}, kept : Nat]]
  BY <1>2 DEF Line, LineType, CallType
<1>4. CallType' /\ Starting(c)' \subseteq {t} /\ \A d \in Callers \ {c} : Starting(d)' = Starting(d)
  <2>1. CallType'
    BY <1>2, <1>3 DEF Line, LineType, CallType
  <2> QED BY <1>2, <1>3, <2>1 DEF Starting
<1>5. RunType' /\ QueuesApart' /\ Todo' = Todo /\ InQueue("steer")' = InQueue("steer")
      /\ InQueue("followUp")' = InQueue("followUp") /\ NextKey' = NextKey
  BY <1>1, RunUnchanged DEF Line, LineType
<1>6. EventType' /\ EventsInOrder' /\ InHandler' = InHandler /\ InEvents' = InEvents
  BY <1>1, EventsUnchanged DEF Line, LineType
<1>7. /\ entries' \in Seq(Entries) /\ FileInOrder'
      /\ InFile' \subseteq InFile \cup {pendingBash[i] : i \in DOMAIN pendingBash}
  BY <1>1, Flushed DEF Line, LineType
<1>8. FileType'
  <2>1. <<>> \in Seq(BashMessages)
    OBVIOUS
  <2> QED BY <1>1, <1>7, <2>1 DEF Line, LineType, FileType
<1>9. LineType'
  BY <1>4, <1>5, <1>6, <1>8 DEF LineType
<1>10. \A i \in DOMAIN pendingBash : pendingBash[i] \in BashMessages /\ pendingBash[i].role = "bash" /\ pendingBash[i].id \in used
  <2>1. \A i \in DOMAIN pendingBash : pendingBash[i] \in BashMessages
    BY DEF Line, LineType, FileType
  <2> QED BY <2>1 DEF BashMessages, Line, BashOnce
<1>11. \A m \in InFile' : m \in InFile \/ (m.role = "bash" /\ m.id \in used)
  BY <1>7, <1>10
<1>12. \A m \in Ended' : m \in Ended \/ (m.role = "bash" /\ ~Numbered(m))
  BY <1>6, <1>11 DEF Ended, Numbered
<1>13. Sent' \subseteq Sent
  BY <1>12 DEF Sent
<1>14. PlacesApart'
  <2>1. PlacesApart
    BY DEF Line
  <2> QED BY <1>1, <1>5, <1>13, <2>1 DEF PlacesApart
<1>15. CallsApart'
  <2>1. CallsApart /\ PlacesApart
    BY DEF Line
  <2>2. t \notin Todo \cup InQueue("steer") \cup InQueue("followUp") \cup Sent
    BY <1>1, <2>1 DEF PlacesApart
  <2>3. \A d \in Callers : t \notin Starting(d)
    BY <1>1, <2>1 DEF CallsApart
  <2>4. \A d \in Callers \ {c} : Starting(d)' \subseteq Starting(d)
    BY <1>4
  <2> QED BY <1>1, <1>4, <1>5, <1>13, <2>1, <2>2, <2>3, <2>4 DEF CallsApart
<1>16. LineInOrder'
  <2>1. \A n \in InHandler \cup InEvents : n.role # "bash"
    <3>1. InHandler \subseteq Endable /\ InEvents \subseteq Endable
      BY EndedTyped DEF Line
    <3> QED BY <3>1 DEF Endable, UserMessages, ModelMessages
  <2>2. \A m \in InFile' : \A n \in InHandler \cup InEvents : Before(m, n)
    BY <1>11, <2>1 DEF Before, Numbered, Line, LineInOrder
  <2> QED BY <1>6, <2>2 DEF Line, LineInOrder
<1>17. KeysBelow'
  BY <1>5, <1>12 DEF Line, KeysBelow
<1>18. BashOnce'
  <2>1. DOMAIN pendingBash' = {}
    BY <1>1
  <2> QED BY <1>1, <1>11, <2>1 DEF BashOnce, Line
<1> QED BY <1>5, <1>6, <1>7, <1>9, <1>14, <1>15, <1>16, <1>17, <1>18 DEF Line

(* Nothing is on its way at first.                                         *)
LEMMA LineInit == Init => Line
<1> SUFFICES ASSUME Init PROVE Line
  OBVIOUS
<1>1. RunType /\ EventType
  BY DEF Init, RunType, EventType, NoRun, Ready, RunPoints
<1>2. FileType /\ CallType
  BY DEF Init, FileType, CallType, NoCompact, NoCall, CallPoints, Places
<1>3. Todo = {} /\ InQueue("steer") = {} /\ InQueue("followUp") = {} /\ InFile = {} /\ InHandler = {} /\ InEvents = {}
  BY DEF Init, Todo, InQueue, InFile, InHandler, InEvents, NoRun, Ready
<1>4. Ended = {} /\ Sent = {} /\ \A c \in Callers : Starting(c) = {}
  BY <1>3 DEF Init, Ended, Sent, Starting, NoCall, Places
<1>5. PlacesApart /\ CallsApart /\ LineInOrder /\ KeysBelow
  BY <1>3, <1>4 DEF PlacesApart, CallsApart, LineInOrder, KeysBelow
<1>6. QueuesApart /\ FileInOrder /\ EventsInOrder /\ BashOnce
  BY <1>3 DEF Init, QueuesApart, Ways, FileInOrder, EventsInOrder, BashOnce
<1> QED BY <1>1, <1>2, <1>5, <1>6 DEF Line, LineType

(* Every step keeps every text in one place and the file in order.         *)
LEMMA LineNext ==
    ASSUME Line, [Next]_vars
    PROVE  Line'
<1>1. CASE UNCHANGED vars
  <2>1. UNCHANGED <<queued, run, asked, events, handler, entries, pendingBash, compacting, prompts, used>>
    BY <1>1 DEF vars, agentVars, eventVars, storeVars, callVars, historyVars
  <2>2. entries' \in Seq(Entries) /\ FileInOrder' /\ InFile' \subseteq InFile
    BY <2>1, FileSame
  <2>3. compacting' = [pc |-> compacting.pc, kept |-> compacting.kept] /\ compacting.kept \in Nat
    BY <2>1, CompactingSame
  <2>4. CallType' /\ \A c \in Callers : Starting(c)' = Starting(c)
    BY <2>1, CallsUnchanged DEF Line, LineType
  <2> QED BY <2>1, <2>2, <2>3, <2>4, CallMoves
<1>2. CASE Interface
  <2>1. ASSUME NEW t \in Texts, Steer(t) \/ FollowUp(t)
        PROVE  Line'
    <3>1. "steer" \in Ways /\ "followUp" \in Ways
      BY DEF Ways
    <3> QED BY <2>1, <3>1, LineQueue DEF Steer, FollowUp
  <2> QED BY <1>2, <2>1, LinePrompt, LineRecords, LineClear, LineAbort, LineManual DEF Interface
<1>3. CASE CallStep
  BY <1>3, LineCalls, LinePromptStarts, LineManual DEF CallStep
<1> QED BY <1>1, <1>2, <1>3, LineAgent, LineHandler, LineTimer DEF Next

(* Whatever is called when, and however far the handler is behind: every   *)
(* message of the transcript is written to the session file at most once,  *)
(* and answers and tool results in the order of the requests               *)
(* (agent-session.ts:383-469, 2573-2610).                                  *)
THEOREM PersistedOnceInOrderHolds == Spec => []PersistedOnceInOrder
<1>1. Line => PersistedOnceInOrder
  <2>1. SUFFICES ASSUME Line, NEW i \in DOMAIN entries, NEW j \in DOMAIN entries, i < j,
                        entries[i].type = "message", entries[j].type = "message"
                 PROVE  /\ entries[i].message # entries[j].message
                        /\ {entries[i].message.role, entries[j].message.role} \subseteq {"assistant", "toolResult"} =>
                              entries[i].message.id <= entries[j].message.id
    BY DEF PersistedOnceInOrder
  <2> DEFINE m == entries[i].message
             n == entries[j].message
  <2>2. Before(m, n) /\ m \in InFile /\ n \in InFile
    BY <2>1 DEF Line, FileInOrder, InFile
  <2> HIDE DEF m, n
  <2>3. m \in Endable \cup BashMessages /\ n \in Endable \cup BashMessages
    <3>1. InFile \subseteq Endable \cup BashMessages
      BY <2>1, EndedTyped DEF Line
    <3> QED BY <2>2, <3>1
  <2>4. ASSUME m.role \in {"assistant", "toolResult"}, n.role \in {"assistant", "toolResult"}
        PROVE  m.id <= n.id
    <3>1. m \in ModelMessages /\ n \in ModelMessages
      BY <2>3, <2>4 DEF Endable, UserMessages, ModelMessages, BashMessages
    <3>2. m.id \in Nat /\ n.id \in Nat
      BY <3>1 DEF ModelMessages
    <3>3. Key(m) < Key(n)
      BY <2>2, <2>4 DEF Before, Numbered
    <3> QED BY <2>4, <3>2, <3>3 DEF Key
  <2>5. m # n
    BY <2>2 DEF Before
  <2> QED BY <2>4, <2>5 DEF m, n
<1>2. Line /\ [Next]_vars => Line'
  BY LineNext
<1> QED BY <1>1, <1>2, LineInit, PTL DEF Spec
-----------------------------------------------------------------------------
(***************************************************************************)
(* The mirror of the queues.  While the session listens to every event,    *)
(* what it shows are the texts in flight (with the run, or announced and   *)
(* not yet handled) and then the queue.                                    *)
(***************************************************************************)
Announced  == {events[i].message.id : i \in {j \in DOMAIN events : events[j].type = "message_start"}}
Delay(way) == Len(shown[way]) - Len(queued[way])

Paired ==
    \A i \in DOMAIN events : events[i].type = "message_start" =>
        i + 1 \in DOMAIN events /\ events[i + 1] = Event("message_end", events[i].message)

ShownFirst(way) ==
    /\ Delay(way) \in Nat
    /\ \A i \in DOMAIN queued[way] : shown[way][Delay(way) + i] = queued[way][i].id
    /\ \A i \in 1 .. Delay(way) : shown[way][i] \in Todo \cup Announced
    /\ \A i, j \in DOMAIN shown[way] : i # j => shown[way][i] # shown[way][j]

ShownApart ==
    \A i \in DOMAIN shown.steer, j \in DOMAIN shown.followUp : shown.steer[i] # shown.followUp[j]

Shown ==
    /\ connected
    /\ shown \in [steer : Seq(Texts), followUp : Seq(Texts)]
    /\ run.pc \in {"none", "settling"} => run.todo = <<>>
    /\ Paired
    /\ ShownFirst("steer") /\ ShownFirst("followUp")
    /\ ShownApart

(* A text is removed where it is shown.                                    *)
LEMMA WithoutNone ==
    ASSUME NEW s \in Seq(Texts), NEW t, \A i \in DOMAIN s : s[i] # t
    PROVE  Without(s, t) = s
BY DEF Without

(* A text that is shown once leaves the others in their order.             *)
LEMMA WithoutOne ==
    ASSUME NEW s \in Seq(Texts), NEW t, NEW j \in DOMAIN s, s[j] = t,
           \A i, k \in DOMAIN s : i # k => s[i] # s[k]
    PROVE  /\ Without(s, t) \in Seq(Texts) /\ Len(Without(s, t)) = Len(s) - 1
           /\ \A i \in 1 .. Len(s) - 1 : Without(s, t)[i] = IF i < j THEN s[i] ELSE s[i + 1]
<1> DEFINE is == {i \in DOMAIN s : s[i] = t}
<1>1. is = {j}
  OBVIOUS
<1>2. Len(s) \in Nat /\ j \in 1 .. Len(s)
  OBVIOUS
<1>3. Min({j}) = j
  BY <1>2 DEF Min
<1>4. Without(s, t) = SubSeq(s, 1, j - 1) \o SubSeq(s, j + 1, Len(s))
  BY <1>1, <1>3 DEF Without
<1> DEFINE a == SubSeq(s, 1, j - 1)
           b == SubSeq(s, j + 1, Len(s))
<1>5. a \in Seq(Texts) /\ Len(a) = j - 1 /\ \A i \in 1 .. j - 1 : a[i] = s[i]
  BY <1>2
<1>6. b \in Seq(Texts) /\ Len(b) = Len(s) - j /\ \A i \in 1 .. Len(s) - j : b[i] = s[j + i]
  BY <1>2
<1> HIDE DEF a, b
<1>7. a \o b \in Seq(Texts) /\ Len(a \o b) = Len(s) - 1
  BY <1>2, <1>5, <1>6
<1>8. \A i \in 1 .. Len(s) - 1 : (a \o b)[i] = IF i < j THEN s[i] ELSE s[i + 1]
  <2>1. TAKE i \in 1 .. Len(s) - 1
  <2>2. CASE i < j
    <3>1. i \in 1 .. j - 1
      BY <1>2, <2>2
    <3>2. (a \o b)[i] = a[i]
      BY <1>2, <1>5, <1>6, <3>1
    <3> QED BY <1>5, <2>2, <3>1, <3>2
  <2>3. CASE ~(i < j)
    <3>1. PICK k \in 1 .. Len(b) : i = Len(a) + k /\ j + k = i + 1
      <4>1. i - (j - 1) \in 1 .. Len(b) /\ i = Len(a) + (i - (j - 1)) /\ j + (i - (j - 1)) = i + 1
        BY <1>2, <1>5, <1>6, <2>3
      <4> QED BY <4>1
    <3>2. (a \o b)[Len(a) + k] = b[k]
      BY <1>5, <1>6
    <3>3. b[k] = s[j + k]
      BY <1>6, <3>1
    <3> QED BY <2>3, <3>1, <3>2, <3>3
  <2> QED BY <2>2, <2>3
<1> QED BY <1>4, <1>7, <1>8 DEF a, b

(* The queue that is shown, when a text in flight is delivered.            *)
LEMMA RemovedOnce ==
    ASSUME RunType, NEW way \in Ways, shown[way] \in Seq(Texts), ShownFirst(way), NEW t, t \notin InQueue(way),
           shown'[way] = Without(shown[way], t), UNCHANGED queued,
           (Todo \cup Announced) \ {t} \subseteq Todo' \cup Announced'
    PROVE  /\ shown'[way] \in Seq(Texts) /\ ShownFirst(way)'
           /\ \A i \in DOMAIN shown'[way] : \E k \in DOMAIN shown[way] : shown'[way][i] = shown[way][k]
<1> DEFINE s == shown[way]
           r == shown'[way]
           q == queued[way]
           d == Delay(way)
<1>1. /\ s \in Seq(Texts) /\ Len(s) \in Nat /\ DOMAIN s = 1 .. Len(s)
      /\ q \in Seq(UserMessages) /\ Len(q) \in Nat /\ DOMAIN q = 1 .. Len(q)
      /\ d \in Nat /\ Len(s) = d + Len(q)
  BY DEF RunType, Ways, ShownFirst, Delay
<1>2. \A i \in DOMAIN q : s[d + i] = q[i].id /\ q[i].id # t
  BY DEF ShownFirst, InQueue
<1>3. \A i \in 1 .. d : s[i] \in Todo \cup Announced
  BY DEF ShownFirst
<1>4. \A i, k \in DOMAIN s : i # k => s[i] # s[k]
  BY DEF ShownFirst
<1>5. CASE \A i \in DOMAIN s : s[i] # t
  <2>1. r = s
    BY <1>1, <1>5, WithoutNone
  <2>2. Delay(way)' = d
    BY <2>1 DEF Delay
  <2>3. \A i \in 1 .. d : s[i] \in Todo' \cup Announced'
    <3>1. TAKE i \in 1 .. d
    <3>2. i \in DOMAIN s
      <4> HIDE DEF s, q, d
      <4> QED BY <1>1
    <3> QED BY <1>3, <1>5, <3>2
  <2> QED BY <1>1, <1>2, <1>4, <2>1, <2>2, <2>3 DEF ShownFirst
<1>6. ASSUME NEW j \in DOMAIN s, s[j] = t
      PROVE  /\ shown'[way] \in Seq(Texts) /\ ShownFirst(way)'
             /\ \A i \in DOMAIN shown'[way] : \E k \in DOMAIN shown[way] : shown'[way][i] = shown[way][k]
  <2>1. /\ r \in Seq(Texts) /\ Len(r) = Len(s) - 1 /\ DOMAIN r = 1 .. Len(s) - 1
        /\ \A i \in 1 .. Len(s) - 1 : r[i] = IF i < j THEN s[i] ELSE s[i + 1]
    <3>0. r = Without(s, t)
      OBVIOUS
    <3> HIDE DEF s, r
    <3>1. /\ Without(s, t) \in Seq(Texts) /\ Len(Without(s, t)) = Len(s) - 1
          /\ \A i \in 1 .. Len(s) - 1 : Without(s, t)[i] = IF i < j THEN s[i] ELSE s[i + 1]
      BY <1>1, <1>4, <1>6, WithoutOne
    <3> QED BY <3>0, <3>1
  <2>2. Delay(way)' = Len(r) - Len(q)
    BY DEF Delay
  <2> HIDE DEF s, r, q, d
  <2>3. j \in Nat /\ j >= 1 /\ j <= d
    <3>1. SUFFICES ASSUME j > d PROVE FALSE
      BY <1>1, <1>6
    <3>2. j - d \in DOMAIN q /\ d + (j - d) = j
      BY <1>1, <1>6, <3>1
    <3> QED BY <1>2, <1>6, <3>2
  <2>4. Delay(way)' = d - 1 /\ d - 1 \in Nat
    BY <1>1, <2>1, <2>2, <2>3
  <2>5. \A i \in DOMAIN q : r[(d - 1) + i] = q[i].id
    <3>1. TAKE i \in DOMAIN q
    <3>2. (d - 1) + i \in 1 .. Len(s) - 1 /\ ~((d - 1) + i < j) /\ (d - 1) + i + 1 = d + i
      BY <1>1, <2>3
    <3> QED BY <1>2, <2>1, <3>2
  <2>6. \A i \in 1 .. Len(s) - 1 : \E k \in DOMAIN s : k # j /\ r[i] = s[k] /\ (i <= d - 1 => k <= d)
    <3>1. TAKE i \in 1 .. Len(s) - 1
    <3>2. CASE i < j
      <4>1. i \in DOMAIN s /\ i # j /\ r[i] = s[i] /\ (i <= d - 1 => i <= d)
        BY <1>1, <2>1, <2>3, <3>2
      <4> QED BY <4>1
    <3>3. CASE ~(i < j)
      <4>1. i + 1 \in DOMAIN s /\ i + 1 # j /\ r[i] = s[i + 1] /\ (i <= d - 1 => i + 1 <= d)
        BY <1>1, <2>1, <2>3, <3>3
      <4> QED BY <4>1
    <3> QED BY <3>2, <3>3
  <2>7. \A i \in 1 .. d - 1 : r[i] \in Todo' \cup Announced'
    <3>1. TAKE i \in 1 .. d - 1
    <3>2. i \in 1 .. Len(s) - 1 /\ i <= d - 1
      BY <1>1
    <3>3. PICK k \in DOMAIN s : k # j /\ r[i] = s[k] /\ k <= d
      BY <2>6, <3>2
    <3>4. k \in 1 .. d
      BY <1>1, <3>3
    <3> QED BY <1>3, <1>4, <1>6, <3>3, <3>4
  <2>8. \A i, k \in 1 .. Len(s) - 1 : i # k => r[i] # r[k]
    <3>1. ASSUME NEW i \in 1 .. Len(s) - 1, NEW k \in 1 .. Len(s) - 1, i # k
          PROVE  r[i] # r[k]
      <4>1. PICK u \in DOMAIN s : r[i] = s[u] /\ u = IF i < j THEN i ELSE i + 1
        BY <1>1, <2>1, <2>3
      <4>2. PICK v \in DOMAIN s : r[k] = s[v] /\ v = IF k < j THEN k ELSE k + 1
        BY <1>1, <2>1, <2>3
      <4>3. u # v
        BY <1>1, <2>3, <3>1, <4>1, <4>2
      <4> QED BY <1>4, <4>1, <4>2, <4>3
    <3> QED BY <3>1
  <2>9. ShownFirst(way)'
    BY <2>1, <2>4, <2>5, <2>7, <2>8 DEF ShownFirst, q, r
  <2>10. \A i \in DOMAIN r : \E k \in DOMAIN s : r[i] = s[k]
    BY <2>1, <2>6
  <2> QED BY <2>1, <2>9, <2>10 DEF r, s
<1> QED BY <1>5, <1>6

(* More events are heard: they come in pairs.                              *)
LEMMA HeardMore ==
    ASSUME events \in Seq(AllEvents), NEW es \in Seq(AllEvents), events' = events \o es, Paired,
           \A i \in DOMAIN es : es[i].type = "message_start" =>
               i + 1 \in DOMAIN es /\ es[i + 1] = Event("message_end", es[i].message)
    PROVE  /\ Paired' /\ Announced \subseteq Announced'
           /\ \A i \in DOMAIN es : es[i].type = "message_start" => es[i].message.id \in Announced'
<1>1. Len(events) \in Nat /\ Len(es) \in Nat /\ Len(events') = Len(events) + Len(es)
      /\ DOMAIN events = 1 .. Len(events) /\ DOMAIN es = 1 .. Len(es) /\ DOMAIN events' = 1 .. Len(events')
  OBVIOUS
<1>2. \A i \in 1 .. Len(events) : i \in DOMAIN events' /\ events'[i] = events[i]
  BY <1>1
<1>3. \A i \in 1 .. Len(es) : Len(events) + i \in DOMAIN events' /\ events'[Len(events) + i] = es[i]
  BY <1>1
<1>4. \A j \in DOMAIN events' : j \in 1 .. Len(events) \/ \E i \in 1 .. Len(es) : j = Len(events) + i
  <2>1. TAKE j \in DOMAIN events'
  <2>2. j \in 1 .. Len(events) \/ (j - Len(events) \in 1 .. Len(es) /\ j = Len(events) + (j - Len(events)))
    BY <1>1
  <2> QED BY <2>2
<1>5. Paired'
  <2>1. SUFFICES ASSUME NEW j \in DOMAIN events', events'[j].type = "message_start"
                 PROVE  j + 1 \in DOMAIN events' /\ events'[j + 1] = Event("message_end", events'[j].message)
    BY DEF Paired
  <2>2. CASE j \in 1 .. Len(events)
    <3>1. j + 1 \in 1 .. Len(events) /\ events[j + 1] = Event("message_end", events[j].message)
      BY <1>1, <1>2, <2>1, <2>2 DEF Paired
    <3> QED BY <1>2, <2>2, <3>1
  <2>3. ASSUME NEW i \in 1 .. Len(es), j = Len(events) + i
        PROVE  j + 1 \in DOMAIN events' /\ events'[j + 1] = Event("message_end", events'[j].message)
    <3>1. i + 1 \in 1 .. Len(es) /\ es[i + 1] = Event("message_end", es[i].message)
      BY <1>1, <1>3, <2>1, <2>3
    <3>2. j + 1 = Len(events) + (i + 1)
      BY <1>1, <2>3
    <3> QED BY <1>3, <2>3, <3>1, <3>2
  <2> QED BY <1>4, <2>2, <2>3
<1>6. Announced \subseteq Announced'
  BY <1>1, <1>2 DEF Announced
<1>7. \A i \in DOMAIN es : es[i].type = "message_start" => es[i].message.id \in Announced'
  BY <1>1, <1>3 DEF Announced
<1> QED BY <1>5, <1>6, <1>7

(* The end of a message or of a run announces no new text.                 *)
LEMMA HeardEnd ==
    ASSUME EventType, Shown, NEW type \in {"message_end", "agent_end"}, NEW m, Event(type, m) \in AllEvents,
           Notify(<<Event(type, m)>>)
    PROVE  Paired' /\ Announced \subseteq Announced'
<1> DEFINE es == <<Event(type, m)>>
<1>1. es \in Seq(AllEvents) /\ \A i \in DOMAIN es : es[i] = Event(type, m)
  OBVIOUS
<1>2. \A i \in DOMAIN es : es[i].type # "message_start"
  BY <1>1 DEF Event
<1>3. events' = events \o es /\ events \in Seq(AllEvents) /\ Paired
  BY DEF Notify, Shown, EventType
<1> HIDE DEF es
<1> QED BY <1>1, <1>2, <1>3, HeardMore

(* A text the run says is announced, and its end follows at once.          *)
LEMMA HeardStart ==
    ASSUME EventType, Shown, NEW m \in UserMessages,
           Notify(<<Event("message_start", m), Event("message_end", m)>>)
    PROVE  Paired' /\ Announced \cup {m.id} \subseteq Announced'
<1> DEFINE es == <<Event("message_start", m), Event("message_end", m)>>
<1>1. m \in Endable
  BY DEF Endable
<1>2. es \in Seq(AllEvents) /\ Len(es) = 2 /\ es[1] = Event("message_start", m) /\ es[2] = Event("message_end", m)
  BY <1>1, EventTyped
<1>3. events' = events \o es /\ events \in Seq(AllEvents) /\ Paired
  BY DEF Notify, Shown, EventType
<1> HIDE DEF es
<1>4. DOMAIN es = {1, 2}
  BY <1>2
<1>5. \A i \in DOMAIN es : es[i].type = "message_start" =>
          i + 1 \in DOMAIN es /\ es[i + 1] = Event("message_end", es[i].message)
  BY <1>2, <1>4, EventTyped
<1>6. /\ Paired' /\ Announced \subseteq Announced'
      /\ \A i \in DOMAIN es : es[i].type = "message_start" => es[i].message.id \in Announced'
  BY <1>2, <1>3, <1>5, HeardMore
<1>7. m.id \in Announced'
  BY <1>2, <1>4, <1>6, EventTyped
<1> QED BY <1>6, <1>7

(* A step that neither shows, queues nor delivers.                         *)
LEMMA ShownStays ==
    ASSUME Shown, UNCHANGED <<shown, queued>>, connected', Paired',
           run'.pc \in {"none", "settling"} => run'.todo = <<>>,
           Todo \cup Announced \subseteq Todo' \cup Announced'
    PROVE  Shown'
<1>1. ASSUME NEW way \in Ways
      PROVE  ShownFirst(way) => ShownFirst(way)'
  BY DEF ShownFirst, Delay
<1>2. ShownApart'
  BY DEF Shown, ShownApart
<1> QED BY <1>1, <1>2 DEF Shown, Ways

(* A text is taken from its queue.                                         *)
LEMMA ShownTakes ==
    ASSUME Line, Shown, NEW way \in Ways, queued[way] # <<>>, queued' = [queued EXCEPT ![way] = Tail(@)],
           run.todo = <<>>, run'.todo = <<Head(queued[way])>>, run'.pc \notin {"none", "settling"},
           UNCHANGED <<shown, events, connected>>
    PROVE  Shown'
<1> DEFINE q == queued[way]
           s == shown[way]
           h == Head(q)
<1>1. q \in Seq(UserMessages) /\ Len(q) \in Nat /\ Len(q) > 0 /\ h = q[1] /\ DOMAIN q = 1 .. Len(q)
  BY DEF Line, LineType, RunType, Ways
<1>2. queued'[way] = Tail(q) /\ \A other \in Ways : other # way => queued'[other] = queued[other]
  BY DEF Line, LineType, RunType, Ways
<1>3. Len(Tail(q)) = Len(q) - 1 /\ DOMAIN Tail(q) = 1 .. Len(q) - 1 /\ \A i \in 1 .. Len(q) - 1 : Tail(q)[i] = q[i + 1]
  BY <1>1
<1>4. Todo = {} /\ Todo' = {h.id} /\ Announced' = Announced
  BY DEF Todo, Announced
<1>5. s \in Seq(Texts) /\ Len(s) \in Nat /\ ShownFirst(way)
  BY DEF Shown, Ways
<1>6. Delay(way) \in Nat /\ Delay(way)' = Delay(way) + 1 /\ Delay(way) = Len(s) - Len(q)
  <2>1. Delay(way)' = Len(s) - (Len(q) - 1) /\ Delay(way) = Len(s) - Len(q)
    BY <1>2, <1>3 DEF Delay
  <2>2. Delay(way) \in Nat
    BY <1>5 DEF ShownFirst
  <2> HIDE DEF q, s
  <2> QED BY <1>1, <1>5, <2>1, <2>2
<1>7. ShownFirst(way)'
  <2> DEFINE d == Delay(way)
  <2>1. \A i \in DOMAIN q : s[d + i] = q[i].id
    BY <1>5 DEF ShownFirst
  <2>2. \A i \in 1 .. d : s[i] \in Todo \cup Announced
    BY <1>5 DEF ShownFirst
  <2> HIDE DEF q, s, h, d
  <2>3. d \in Nat
    BY <1>6 DEF d
  <2>4. \A i \in DOMAIN Tail(q) : s[(d + 1) + i] = Tail(q)[i].id
    <3>1. TAKE i \in DOMAIN Tail(q)
    <3>2. i + 1 \in DOMAIN q /\ (d + 1) + i = d + (i + 1) /\ Tail(q)[i] = q[i + 1]
      BY <1>1, <1>3, <2>3
    <3> QED BY <2>1, <3>2
  <2>5. \A i \in 1 .. d + 1 : s[i] \in Todo' \cup Announced'
    <3>1. TAKE i \in 1 .. d + 1
    <3>2. CASE i \in 1 .. d
      BY <1>4, <2>2, <3>2
    <3>3. CASE i = d + 1
      <4>1. 1 \in DOMAIN q
        BY <1>1
      <4> QED BY <1>1, <1>4, <2>1, <3>3, <4>1
    <3> QED BY <2>3, <3>2, <3>3
  <2>6. \A i, j \in DOMAIN s : i # j => s[i] # s[j]
    BY <1>5 DEF ShownFirst, s
  <2>7. Delay(way)' = d + 1 /\ d + 1 \in Nat
    BY <1>6, <2>3 DEF d
  <2> QED BY <1>2, <2>4, <2>5, <2>6, <2>7 DEF ShownFirst, q, s
<1>8. ASSUME NEW other \in Ways, other # way
      PROVE  ShownFirst(other)'
  <2>1. ShownFirst(other) /\ queued'[other] = queued[other]
    BY <1>2, <1>8 DEF Shown, Ways
  <2>2. Delay(other)' = Delay(other)
    BY <2>1 DEF Delay
  <2> QED BY <1>4, <2>1, <2>2 DEF ShownFirst
<1>9. ShownFirst("steer")' /\ ShownFirst("followUp")'
  BY <1>7, <1>8 DEF Ways
<1>10. Paired' /\ ShownApart' /\ connected' /\ shown' \in [steer : Seq(Texts), followUp : Seq(Texts)]
  BY DEF Shown, Paired, ShownApart
<1> QED BY <1>9, <1>10 DEF Shown

(* What is announced is about to be written.                               *)
LEMMA AnnouncedSent ==
    ASSUME Line, Shown
    PROVE  Announced \subseteq Sent
<1>1. SUFFICES ASSUME NEW i \in DOMAIN events, events[i].type = "message_start"
               PROVE  events[i].message.id \in Sent
  BY DEF Announced
<1>2. events[i] \in AllEvents
  BY DEF Line, LineType, EventType
<1>3. events[i].message \in UserMessages
  BY <1>1, <1>2 DEF AllEvents
<1>4. i + 1 \in DOMAIN events /\ events[i + 1] = Event("message_end", events[i].message)
  BY <1>1 DEF Shown, Paired
<1>5. events[i].message \in InEvents
  BY <1>4, EventTyped DEF InEvents
<1> QED BY <1>3, <1>5 DEF Sent, Ended, UserMessages

(* What is shown has been sent by a caller.                                *)
LEMMA ShownUsed ==
    ASSUME Line, Shown, NEW way \in Ways, NEW i \in DOMAIN shown[way]
    PROVE  shown[way][i] \in used
<1>1. ShownFirst(way) /\ shown[way] \in Seq(Texts) /\ queued[way] \in Seq(UserMessages)
  BY DEF Shown, Ways, Line, LineType, RunType
<1>2. /\ i \in Nat /\ Len(shown[way]) \in Nat /\ Len(queued[way]) \in Nat /\ i >= 1 /\ i <= Len(shown[way])
      /\ Delay(way) \in Nat /\ Delay(way) = Len(shown[way]) - Len(queued[way])
      /\ DOMAIN queued[way] = 1 .. Len(queued[way])
  BY <1>1 DEF ShownFirst, Delay
<1>3. CASE i <= Delay(way)
  <2>1. shown[way][i] \in Todo \cup Announced
    BY <1>1, <1>2, <1>3 DEF ShownFirst
  <2> QED BY <2>1, AnnouncedSent DEF Line, PlacesApart
<1>4. CASE ~(i <= Delay(way))
  <2>1. PICK k \in DOMAIN queued[way] : i = Delay(way) + k
    <3>1. \A d, n, l, j \in Nat : d = l - n /\ j <= l /\ ~(j <= d) => j - d \in 1 .. n /\ j = d + (j - d)
      OBVIOUS
    <3>2. i - Delay(way) \in 1 .. Len(queued[way]) /\ i = Delay(way) + (i - Delay(way))
      BY <1>2, <1>4, <3>1
    <3> QED BY <1>2, <3>2
  <2>2. shown[way][i] = queued[way][k].id
    BY <1>1, <2>1 DEF ShownFirst
  <2>3. queued[way][k].id \in InQueue(way)
    BY DEF InQueue
  <2> QED BY <2>2, <2>3 DEF Line, PlacesApart, Ways
<1> QED BY <1>3, <1>4

(* A text is queued and shown.                                             *)
LEMMA ShownQueue ==
    ASSUME Line, Shown, NEW way \in Ways, NEW t \in Texts, Queue(way, t)
    PROVE  Shown'
<1> DEFINE s == shown[way]
           q == queued[way]
<1>1. /\ t \notin used /\ shown' = [shown EXCEPT ![way] = Append(s, t)]
      /\ queued' = [queued EXCEPT ![way] = Append(q, User(t))]
      /\ UNCHANGED <<run, events, connected>>
  BY DEF Queue, eventVars
<1>2. /\ s \in Seq(Texts) /\ Len(s) \in Nat /\ DOMAIN s = 1 .. Len(s)
      /\ q \in Seq(UserMessages) /\ Len(q) \in Nat /\ DOMAIN q = 1 .. Len(q) /\ ShownFirst(way)
  BY DEF Line, LineType, RunType, Shown, Ways
<1>3. /\ shown'[way] = Append(s, t) /\ queued'[way] = Append(q, User(t))
      /\ \A other \in Ways : other # way => shown'[other] = shown[other] /\ queued'[other] = queued[other]
  BY <1>1 DEF Line, LineType, RunType, Shown, Ways
<1>4. Todo' = Todo /\ Announced' = Announced /\ connected' /\ Paired'
      /\ (run'.pc \in {"none", "settling"} => run'.todo = <<>>)
  BY <1>1 DEF Todo, Announced, Paired, Shown
<1>5. \A i \in DOMAIN s : s[i] # t
  BY <1>1, ShownUsed
<1>6. User(t).id = t /\ User(t) \in UserMessages
  BY DEF User, UserMessages
<1>7. /\ Append(s, t) \in Seq(Texts) /\ Len(Append(s, t)) = Len(s) + 1 /\ DOMAIN Append(s, t) = 1 .. Len(s) + 1
      /\ Append(s, t)[Len(s) + 1] = t /\ \A i \in 1 .. Len(s) : Append(s, t)[i] = s[i]
  BY <1>2
<1>8. /\ Len(Append(q, User(t))) = Len(q) + 1 /\ DOMAIN Append(q, User(t)) = 1 .. Len(q) + 1
      /\ Append(q, User(t))[Len(q) + 1] = User(t) /\ \A i \in 1 .. Len(q) : Append(q, User(t))[i] = q[i]
  BY <1>2, <1>6
<1>9. ShownFirst(way)'
  <2> DEFINE d == Delay(way)
             r == Append(s, t)
             p == Append(q, User(t))
  <2>1. d \in Nat /\ d = Len(s) - Len(q)
    BY <1>2 DEF ShownFirst, Delay
  <2>2. \A i \in DOMAIN q : s[d + i] = q[i].id
    BY <1>2 DEF ShownFirst
  <2>3. \A i \in 1 .. d : s[i] \in Todo \cup Announced
    BY <1>2 DEF ShownFirst
  <2>4. \A i, j \in DOMAIN s : i # j => s[i] # s[j]
    BY <1>2 DEF ShownFirst
  <2>5. Delay(way)' = Len(r) - Len(p)
    BY <1>3 DEF Delay
  <2> HIDE DEF s, q, d, r, p
  <2>6. Delay(way)' = d
    BY <1>2, <1>7, <1>8, <2>1, <2>5 DEF r, p
  <2>7. \A i \in DOMAIN p : r[d + i] = p[i].id
    <3>1. TAKE i \in DOMAIN p
    <3>2. CASE i \in 1 .. Len(q)
      <4>1. d + i \in 1 .. Len(s)
        BY <1>2, <2>1, <3>2
      <4> QED BY <1>2, <1>7, <1>8, <2>2, <3>2, <4>1 DEF r, p
    <3>3. CASE i = Len(q) + 1
      <4>1. d + i = Len(s) + 1
        BY <1>2, <2>1, <3>3
      <4> QED BY <1>6, <1>7, <1>8, <3>3, <4>1 DEF r, p
    <3> QED BY <1>2, <1>8, <3>2, <3>3 DEF p
  <2>8. \A i \in 1 .. d : r[i] \in Todo \cup Announced
    <3>1. TAKE i \in 1 .. d
    <3>2. i \in 1 .. Len(s)
      BY <1>2, <2>1
    <3> QED BY <1>7, <2>3, <3>2 DEF r
  <2>9. \A i, j \in DOMAIN r : i # j => r[i] # r[j]
    <3>1. \A i \in DOMAIN r : (i \in DOMAIN s /\ r[i] = s[i]) \/ (i = Len(s) + 1 /\ r[i] = t)
      BY <1>2, <1>7 DEF r
    <3> QED BY <1>5, <2>4, <3>1
  <2> QED BY <1>3, <1>4, <2>1, <2>6, <2>7, <2>8, <2>9 DEF ShownFirst, r, p
<1>10. ASSUME NEW other \in Ways, other # way
       PROVE  ShownFirst(other)'
  <2>1. ShownFirst(other) /\ shown'[other] = shown[other] /\ queued'[other] = queued[other]
    BY <1>3, <1>10 DEF Shown, Ways
  <2>2. Delay(other)' = Delay(other)
    BY <2>1 DEF Delay
  <2> QED BY <1>4, <2>1, <2>2 DEF ShownFirst
<1>11. ShownApart'
  <2>1. \A other \in Ways : other # way => \A i \in DOMAIN shown[other] : shown[other][i] # t
    BY <1>1, ShownUsed
  <2>2. \A i \in DOMAIN shown'[way] : (i \in DOMAIN s /\ shown'[way][i] = s[i]) \/ shown'[way][i] = t
    BY <1>2, <1>3, <1>7
  <2>3. CASE way = "steer"
    <3>1. shown'.followUp = shown.followUp /\ \A i \in DOMAIN shown.followUp : shown.followUp[i] # t
      BY <1>3, <2>1, <2>3 DEF Ways
    <3> QED BY <2>2, <2>3, <3>1 DEF ShownApart, Shown
  <2>4. CASE way = "followUp"
    <3>1. shown'.steer = shown.steer /\ \A i \in DOMAIN shown.steer : shown.steer[i] # t
      BY <1>3, <2>1, <2>4 DEF Ways
    <3> QED BY <2>2, <2>4, <3>1 DEF ShownApart, Shown
  <2> QED BY <2>3, <2>4 DEF Ways
<1>12. shown' \in [steer : Seq(Texts), followUp : Seq(Texts)]
  <2> HIDE DEF s
  <2>1. shown \in [steer : Seq(Texts), followUp : Seq(Texts)]
    BY DEF Shown
  <2> QED BY <1>1, <1>7, <2>1 DEF Ways
<1>13. ShownFirst("steer")' /\ ShownFirst("followUp")'
  BY <1>9, <1>10 DEF Ways
<1> QED BY <1>4, <1>11, <1>12, <1>13 DEF Shown

(* clearQueue() empties both.                                              *)
LEMMA ShownClear ==
    ASSUME Shown, ClearQueue
    PROVE  Shown'
<1>1. shown' = [steer |-> <<>>, followUp |-> <<>>] /\ queued' = [steer |-> <<>>, followUp |-> <<>>]
      /\ UNCHANGED <<run, events, connected>>
  BY DEF ClearQueue, eventVars
<1>2. connected' /\ Paired' /\ (run'.pc \in {"none", "settling"} => run'.todo = <<>>)
  BY <1>1 DEF Paired, Shown
<1>3. shown'.steer = <<>> /\ shown'.followUp = <<>> /\ queued'.steer = <<>> /\ queued'.followUp = <<>>
  BY <1>1
<1>4. Delay("steer")' = 0 /\ Delay("followUp")' = 0
  BY <1>3 DEF Delay
<1>5. ShownFirst("steer")' /\ ShownFirst("followUp")' /\ ShownApart'
  BY <1>3, <1>4 DEF ShownFirst, ShownApart
<1>6. shown' \in [steer : Seq(Texts), followUp : Seq(Texts)]
  <2>1. <<>> \in Seq(Texts)
    OBVIOUS
  <2> QED BY <1>1, <2>1
<1> QED BY <1>2, <1>5, <1>6 DEF Shown

(* The handler hears of a text: it is removed from what is shown.          *)
LEMMA ShownDelivered ==
    ASSUME Line, Shown, TakeEvent
    PROVE  Shown'
<1> DEFINE e == Head(events)
           m == e.message
           t == m.id
<1>1. /\ events # <<>> /\ events' = Tail(events)
      /\ (e.type = "message_start" => shown' = Delivered(t))
      /\ (e.type # "message_start" => UNCHANGED shown)
      /\ UNCHANGED <<queued, run, connected>>
  BY DEF TakeEvent, NextEvent, agentVars
<1>2. events \in Seq(AllEvents) /\ Len(events) \in Nat /\ Len(events) > 0 /\ e = events[1] /\ 1 \in DOMAIN events
      /\ DOMAIN events = 1 .. Len(events)
  BY <1>1 DEF Line, LineType, EventType
<1>3. /\ Len(events') = Len(events) - 1 /\ DOMAIN events' = 1 .. Len(events) - 1
      /\ \A i \in 1 .. Len(events) - 1 : events'[i] = events[i + 1]
  BY <1>1, <1>2
<1>4. Paired'
  <2>1. SUFFICES ASSUME NEW i \in DOMAIN events', events'[i].type = "message_start"
                 PROVE  i + 1 \in DOMAIN events' /\ events'[i + 1] = Event("message_end", events'[i].message)
    BY DEF Paired
  <2>2. i + 1 \in DOMAIN events /\ events'[i] = events[i + 1]
    BY <1>2, <1>3
  <2>3. (i + 1) + 1 \in DOMAIN events /\ events[(i + 1) + 1] = Event("message_end", events[i + 1].message)
    BY <2>1, <2>2 DEF Shown, Paired
  <2> QED BY <1>2, <1>3, <2>2, <2>3
<1>5. connected' /\ (run'.pc \in {"none", "settling"} => run'.todo = <<>>) /\ Todo' = Todo
  BY <1>1 DEF Shown, Todo
<1>6. \A x \in Announced : x \in Announced' \/ (e.type = "message_start" /\ x = t)
  <2>1. SUFFICES ASSUME NEW i \in DOMAIN events, events[i].type = "message_start"
                 PROVE  events[i].message.id \in Announced' \/ (e.type = "message_start" /\ events[i].message.id = t)
    BY DEF Announced
  <2>2. CASE i = 1
    BY <1>2, <2>1, <2>2
  <2>3. CASE i # 1
    <3>1. i - 1 \in DOMAIN events' /\ events'[i - 1] = events[i]
      BY <1>2, <1>3, <2>3
    <3> QED BY <2>1, <3>1 DEF Announced
  <2> QED BY <2>2, <2>3
<1> HIDE DEF e, m, t
<1>7. CASE e.type # "message_start"
  <2>1. Todo \cup Announced \subseteq Todo' \cup Announced'
    BY <1>5, <1>6, <1>7
  <2> QED BY <1>1, <1>4, <1>5, <1>7, <2>1, ShownStays
<1>8. CASE e.type = "message_start"
  <2>1. t \in Sent
    <3>1. t \in Announced
      BY <1>2, <1>8 DEF Announced, m, t
    <3> QED BY <3>1, AnnouncedSent
  <2>2. t \notin InQueue("steer") /\ t \notin InQueue("followUp")
    BY <2>1 DEF Line, PlacesApart
  <2>3. (Todo \cup Announced) \ {t} \subseteq Todo' \cup Announced'
    BY <1>5, <1>6
  <2>4. shown.steer \in Seq(Texts) /\ shown.followUp \in Seq(Texts) /\ shown \in [steer : Seq(Texts), followUp : Seq(Texts)]
        /\ ShownFirst("steer") /\ ShownFirst("followUp") /\ ShownApart
    BY DEF Shown
  <2>5. shown'.steer = Without(shown.steer, t) /\ shown'.followUp = Without(shown.followUp, t)
    <3>1. CASE Mentions(shown.steer, t)
      <4>1. shown' = [shown EXCEPT !.steer = Without(@, t)]
        BY <1>1, <1>8, <3>1 DEF Delivered
      <4>2. \A i \in DOMAIN shown.followUp : shown.followUp[i] # t
        BY <2>4, <3>1 DEF ShownApart, Mentions
      <4>3. Without(shown.followUp, t) = shown.followUp
        BY <2>4, <4>2, WithoutNone
      <4> QED BY <2>4, <4>1, <4>3
    <3>2. CASE ~Mentions(shown.steer, t)
      <4>1. shown' = [shown EXCEPT !.followUp = Without(@, t)]
        BY <1>1, <1>8, <3>2 DEF Delivered
      <4>2. Without(shown.steer, t) = shown.steer
        BY <2>4, <3>2, WithoutNone DEF Mentions
      <4> QED BY <2>4, <4>1, <4>2
    <3> QED BY <3>1, <3>2
  <2>6. ASSUME NEW way \in Ways
        PROVE  /\ shown'[way] \in Seq(Texts) /\ ShownFirst(way)'
               /\ \A i \in DOMAIN shown'[way] : \E k \in DOMAIN shown[way] : shown'[way][i] = shown[way][k]
    <3>1. shown[way] \in Seq(Texts) /\ ShownFirst(way) /\ t \notin InQueue(way)
          /\ shown'[way] = Without(shown[way], t) /\ RunType
      BY <2>2, <2>4, <2>5 DEF Ways, Line, LineType
    <3> QED BY <1>1, <2>3, <3>1, RemovedOnce
  <2>7. /\ shown'.steer \in Seq(Texts) /\ ShownFirst("steer")'
        /\ \A i \in DOMAIN shown'.steer : \E k \in DOMAIN shown.steer : shown'.steer[i] = shown.steer[k]
    BY <2>6 DEF Ways
  <2>8. /\ shown'.followUp \in Seq(Texts) /\ ShownFirst("followUp")'
        /\ \A i \in DOMAIN shown'.followUp : \E k \in DOMAIN shown.followUp : shown'.followUp[i] = shown.followUp[k]
    BY <2>6 DEF Ways
  <2>9. ShownApart'
    BY <2>4, <2>7, <2>8 DEF ShownApart
  <2>10. shown' \in [steer : Seq(Texts), followUp : Seq(Texts)]
    <3>1. shown' = [shown EXCEPT !.steer = Without(@, t)] \/ shown' = [shown EXCEPT !.followUp = Without(@, t)]
      BY <1>1, <1>8 DEF Delivered
    <3> QED BY <2>4, <2>5, <2>7, <2>8, <3>1
  <2> QED BY <1>4, <1>5, <2>7, <2>8, <2>9, <2>10 DEF Shown
<1> QED BY <1>7, <1>8

(* The steps of the run,                                                   *)
LEMMA ShownAgent ==
    ASSUME Line, Shown, AgentStep
    PROVE  Shown'
<1>1. EventType /\ RunType
  BY DEF Line, LineType
<1>2. CASE Announce
  <2> DEFINE m == Head(run.todo)
  <2>1. /\ run' = [run EXCEPT !.todo = Tail(@)] /\ run.todo # <<>> /\ UNCHANGED <<queued, shown, connected>>
        /\ Notify(<<Event("message_start", m), Event("message_end", m)>>)
    BY <1>2 DEF Announce
  <2>2. PICK todo \in Seq(UserMessages) : todo = run.todo /\ Len(todo) <= 1 /\ todo # <<>>
    BY <1>1, <2>1 DEF RunType
  <2>3. m = todo[1] /\ m \in UserMessages /\ Len(todo) = 1
    BY <2>2, OneLong
  <2>4. Todo = {m.id}
    <3>1. DOMAIN todo = {1}
      BY <2>2, <2>3
    <3> QED BY <2>2, <2>3, <3>1 DEF Todo
  <2>5. run'.pc = run.pc
    BY <1>1, <2>1 DEF RunType
  <2>6. run.pc \notin {"none", "settling"} /\ connected
    BY <2>1 DEF Shown
  <2> HIDE DEF m
  <2>7. Paired' /\ Announced \cup {m.id} \subseteq Announced'
    BY <1>1, <2>1, <2>3, HeardStart
  <2> QED BY <2>1, <2>4, <2>5, <2>6, <2>7, ShownStays
<1>3. CASE Poll
  <2>1. UNCHANGED <<shown, events, connected>> /\ run.todo = <<>> /\ connected /\ Paired
    BY <1>3 DEF Poll, At, eventVars, Shown
  <2>2. CASE UNCHANGED queued /\ \E pc \in {"end", "request"} : run' = [run EXCEPT !.pc = pc]
    <3>1. run'.todo = run.todo /\ run'.pc \in {"end", "request"}
      BY <1>1, <2>2 DEF RunType
    <3>2. Todo \cup Announced \subseteq Todo' \cup Announced' /\ Paired'
      BY <2>1, <3>1 DEF Todo, Announced, Paired
    <3> QED BY <2>1, <2>2, <3>1, <3>2, ShownStays
  <2>3. ASSUME NEW way \in Ways, queued[way] # <<>>,
               run' = [run EXCEPT !.pc = "request", !.todo = <<Head(queued[way])>>],
               queued' = [queued EXCEPT ![way] = Tail(@)]
        PROVE  Shown'
    <3>1. PICK todo : todo = <<Head(queued[way])>>
      OBVIOUS
    <3>2. run' = [pc |-> "request", todo |-> todo, last |-> run.last, aborted |-> run.aborted, owner |-> run.owner]
      BY <1>1, <2>3, <3>1 DEF RunType
    <3>3. run'.todo = <<Head(queued[way])>> /\ run'.pc \notin {"none", "settling"}
      BY <3>1, <3>2
    <3> QED BY <2>1, <2>3, <3>3, ShownTakes
  <2> QED BY <1>3, <2>2, <2>3 DEF Poll, Ways
<1>4. CASE Request
  <2>1. UNCHANGED <<queued, shown, events, connected>> /\ run' = [run EXCEPT !.pc = "response"] /\ connected /\ Paired
    BY <1>4 DEF Request, eventVars, Shown
  <2>2. run'.todo = run.todo /\ run'.pc = "response"
    BY <1>1, <2>1 DEF RunType
  <2>3. Todo \cup Announced \subseteq Todo' \cup Announced' /\ Paired'
    BY <2>1, <2>2 DEF Todo, Announced, Paired
  <2> QED BY <2>1, <2>2, <2>3, ShownStays
<1>5. ASSUME NEW type \in {"message_end", "agent_end"}, NEW m, Event(type, m) \in AllEvents,
             Notify(<<Event(type, m)>>), run'.todo = <<>>, run.todo = <<>>, UNCHANGED <<queued, shown, connected>>
      PROVE  Shown'
  <2>1. Paired' /\ Announced \subseteq Announced' /\ connected
    BY <1>1, <1>5, HeardEnd DEF Shown
  <2>2. Todo = {}
    BY <1>5 DEF Todo
  <2> QED BY <1>5, <2>1, <2>2, ShownStays
<1>6. ASSUME NEW stop \in Stops, Respond(stop)
      PROVE  Shown'
  <2> DEFINE m == Assistant(asked, stop)
  <2>1. Event("message_end", m) \in AllEvents
    <3>1. m \in Endable
      BY DEF Assistant, Endable, ModelMessages, Line, LineType, RunType
    <3> QED BY <3>1, EventTyped
  <2>2. PICK pc : run' = [run EXCEPT !.pc = pc, !.last = m]
    BY <1>6 DEF Respond
  <2>3. run.todo = <<>> /\ UNCHANGED <<queued, shown, connected>> /\ Notify(<<Event("message_end", m)>>)
    BY <1>6 DEF Respond, At
  <2> HIDE DEF m
  <2>4. run'.todo = <<>>
    BY <1>1, <2>2, <2>3 DEF RunType
  <2> QED BY <1>5, <2>1, <2>3, <2>4
<1>7. CASE ToolsExecuted
  <2> DEFINE m == ToolResult(asked)
  <2>1. Event("message_end", m) \in AllEvents
    <3>1. m \in Endable
      BY DEF ToolResult, Endable, ModelMessages, Stops, Line, LineType, RunType
    <3> QED BY <3>1, EventTyped
  <2>2. run.todo = <<>> /\ UNCHANGED <<queued, shown, connected>> /\ Notify(<<Event("message_end", m)>>)
        /\ run' = [run EXCEPT !.pc = "poll"]
    BY <1>7 DEF ToolsExecuted, At
  <2> HIDE DEF m
  <2>3. run'.todo = <<>>
    BY <1>1, <2>2 DEF RunType
  <2> QED BY <1>5, <2>1, <2>2, <2>3
<1>8. ASSUME RunEnds \/ \E stop \in Stops : RunThrows(stop)
      PROVE  Shown'
  <2>1. run.todo = <<>> /\ UNCHANGED <<queued, shown, connected>> /\ Notify(<<Event("agent_end", None)>>)
        /\ run' = [run EXCEPT !.pc = "settling"]
    BY <1>8 DEF RunEnds, RunThrows, At
  <2>2. run'.todo = <<>> /\ Event("agent_end", None) \in AllEvents
    BY <1>1, <2>1, EventTyped DEF RunType
  <2> QED BY <1>5, <2>1, <2>2
<1>9. CASE RunSettles
  <2>1. UNCHANGED <<queued, shown, events, connected>> /\ run' = NoRun /\ run.todo = <<>> /\ connected /\ Paired
    BY <1>9 DEF RunSettles, eventVars, Shown
  <2>2. run'.todo = <<>>
    BY <2>1 DEF NoRun
  <2>3. Todo \cup Announced \subseteq Todo' \cup Announced' /\ Paired'
    BY <2>1, <2>2 DEF Todo, Announced, Paired
  <2> QED BY <2>1, <2>2, <2>3, ShownStays
<1> QED BY <1>2, <1>3, <1>4, <1>6, <1>7, <1>8, <1>9 DEF AgentStep

(* the timer,                                                              *)
LEMMA ShownTimer ==
    ASSUME Line, Shown, TimerFires
    PROVE  Shown'
<1>1. UNCHANGED <<shown, events, connected>> /\ connected /\ Paired' /\ Announced' = Announced
  BY DEF TimerFires, eventVars, Shown, Paired, Announced
<1>2. run.pc = "none" => run.todo = <<>> /\ Todo = {}
  BY DEF Shown, Todo
<1>3. CASE UNCHANGED <<run, queued>>
  <2>1. Todo' = Todo /\ (run'.pc \in {"none", "settling"} => run'.todo = <<>>)
    BY <1>3 DEF Todo, Shown
  <2> QED BY <1>1, <1>3, <2>1, ShownStays
<1>4. CASE run.pc = "none" /\ StartRun(<<>>, FALSE, None) /\ UNCHANGED queued
  <2>1. run'.pc = "poll"
    BY <1>4 DEF StartRun
  <2> QED BY <1>1, <1>2, <1>4, <2>1, ShownStays
<1>5. ASSUME NEW way \in Ways, run.pc = "none", queued[way] # <<>>,
             StartRun(<<Head(queued[way])>>, way = "steer", None), queued' = [queued EXCEPT ![way] = Tail(@)]
      PROVE  Shown'
  <2>1. PICK todo : todo = <<Head(queued[way])>>
    OBVIOUS
  <2>2. PICK pc \in {"request", "poll"} : run' = [pc |-> pc, todo |-> todo, last |-> None, aborted |-> FALSE, owner |-> None]
    BY <1>5, <2>1 DEF StartRun
  <2>3. run'.todo = <<Head(queued[way])>> /\ run'.pc \notin {"none", "settling"}
    BY <2>1, <2>2
  <2> QED BY <1>1, <1>2, <1>5, <2>3, ShownTakes
<1>6. CASE run.pc # "none" \/ messages = <<>>
  BY <1>3, <1>6 DEF TimerFires
<1>7. CASE run.pc = "none" /\ messages # <<>> /\ ~IsAssistant(LastOf(messages))
  BY <1>4, <1>7 DEF TimerFires
<1>8. CASE run.pc = "none" /\ messages # <<>> /\ IsAssistant(LastOf(messages))
  <2>1. CASE queued.steer # <<>>
    BY <1>3, <1>5, <1>8, <2>1 DEF TimerFires, Ways
  <2>2. CASE queued.steer = <<>>
    BY <1>3, <1>5, <1>8, <2>2 DEF TimerFires, Ways
  <2> QED BY <2>1, <2>2
<1> QED BY <1>6, <1>7, <1>8

(* and all others.                                                         *)
LEMMA ShownOthers ==
    ASSUME Line, Shown, UNCHANGED <<queued, shown, events>>, connected',
           UNCHANGED run \/ run' = [run EXCEPT !.aborted = isStreaming]
    PROVE  Shown'
<1>1. run'.pc = run.pc /\ run'.todo = run.todo
  BY DEF Line, LineType, RunType
<1>2. Paired' /\ Announced' = Announced /\ Todo' = Todo /\ (run'.pc \in {"none", "settling"} => run'.todo = <<>>)
  BY <1>1 DEF Shown, Paired, Announced, Todo
<1> QED BY <1>2, ShownStays

(* Every step keeps the display the texts in flight and then the queue.    *)
LEMMA ShownNext ==
    ASSUME Line, Shown, "compact" \notin Api, [Next]_vars
    PROVE  Shown'
<1>1. CASE UNCHANGED vars
  <2>1. UNCHANGED <<queued, shown, events, run, connected>> /\ connected
    BY <1>1 DEF vars, agentVars, eventVars, Shown
  <2> QED BY <2>1, ShownOthers
<1>2. CASE HandlerStep
  <2>1. ASSUME ~TakeEvent
        PROVE  UNCHANGED <<queued, shown, events, run, connected>> /\ connected
    BY <1>2, <2>1 DEF HandlerStep, PersistMessage, ForwardEvent, HandleEnd, HandleRetry, WakeUp,
       RetryCancelled, AutoCompact, agentVars, Shown
  <2> QED BY <2>1, ShownDelivered, ShownOthers
<1>3. CASE Interface
  <2>1. ASSUME NEW t \in Texts, Steer(t) \/ FollowUp(t)
        PROVE  Shown'
    <3>1. "steer" \in Ways /\ "followUp" \in Ways
      BY DEF Ways
    <3> QED BY <2>1, <3>1, ShownQueue DEF Steer, FollowUp
  <2>2. ASSUME NEW t \in Texts, NEW c \in Callers, Prompt(c, t)
        PROVE  Shown'
    <3>1. UNCHANGED <<queued, shown, events, run, connected>> /\ connected
      BY <2>2 DEF Prompt, eventVars, Shown
    <3> QED BY <3>1, ShownOthers
  <2>3. ASSUME NEW b \in Bashes, RecordBashResult(b)
        PROVE  Shown'
    <3>1. UNCHANGED <<queued, shown, events, run, connected>> /\ connected
      BY <2>3 DEF RecordBashResult, eventVars, Shown
    <3> QED BY <3>1, ShownOthers
  <2>4. CASE Abort
    <3>1. UNCHANGED <<queued, shown, events, connected>> /\ connected /\ run' = [run EXCEPT !.aborted = isStreaming]
      BY <2>4 DEF Abort, Aborted, Shown
    <3> QED BY <3>1, ShownOthers
  <2>5. ~ManualCompact
    BY DEF ManualCompact
  <2> QED BY <1>3, <2>1, <2>2, <2>3, <2>4, <2>5, ShownClear DEF Interface
<1>4. CASE CallStep
  <2>1. ASSUME NEW c \in Callers, PromptCompacts(c) \/ PromptRetried(c)
        PROVE  Shown'
    <3>1. UNCHANGED <<queued, shown, events, run, connected>> /\ connected
      BY <2>1 DEF PromptCompacts, PromptRetried, agentVars, eventVars, Shown
    <3> QED BY <3>1, ShownOthers
  <2>2. ASSUME NEW c \in Callers, PromptStarts(c)
        PROVE  Shown'
    <3>1. UNCHANGED <<queued, shown, events, connected>> /\ connected
      BY <2>2 DEF PromptStarts, eventVars, Shown
    <3>2. CASE isStreaming
      BY <2>2, <3>1, <3>2, ShownOthers DEF PromptStarts
    <3>3. CASE ~isStreaming
      <4>1. Todo = {} /\ Announced' = Announced /\ Paired'
        BY <3>1, <3>3 DEF isStreaming, Shown, Todo, Announced, Paired
      <4>2. run'.pc = "poll"
        BY <2>2, <3>3 DEF PromptStarts, StartRun
      <4> QED BY <3>1, <4>1, <4>2, ShownStays
    <3> QED BY <3>2, <3>3
  <2>3. CASE ManualPrepares \/ ManualCompacted
    <3>1. UNCHANGED <<queued, shown, events, run>> /\ connected'
      BY <2>3 DEF ManualPrepares, ManualCompacted, agentVars, eventVars, Shown
    <3> QED BY <3>1, ShownOthers
  <2> QED BY <1>4, <2>1, <2>2, <2>3 DEF CallStep
<1> QED BY <1>1, <1>2, <1>3, <1>4, ShownAgent, ShownTimer DEF Next

(* Nothing is shown at first.                                              *)
LEMMA ShownInit == Init => Shown
<1> SUFFICES ASSUME Init PROVE Shown
  OBVIOUS
<1>1. shown \in [steer : Seq(Texts), followUp : Seq(Texts)]
  <2>1. <<>> \in Seq(Texts)
    OBVIOUS
  <2> QED BY <2>1 DEF Init
<1>2. shown.steer = <<>> /\ shown.followUp = <<>> /\ queued.steer = <<>> /\ queued.followUp = <<>>
  BY DEF Init
<1>3. Delay("steer") = 0 /\ Delay("followUp") = 0
  BY <1>2 DEF Delay
<1>4. ShownFirst("steer") /\ ShownFirst("followUp") /\ ShownApart
  BY <1>2, <1>3 DEF ShownFirst, ShownApart
<1>5. connected /\ Paired /\ (run.pc \in {"none", "settling"} => run.todo = <<>>)
  BY DEF Init, NoRun, Paired
<1> QED BY <1>1, <1>4, <1>5 DEF Shown

(* The queues the user sees are the queues of the agent whenever the       *)
(* handler has caught up and no message is with the run, however steer(),  *)
(* followUp(), clearQueue(), prompt() and abort() come between             *)
(* (agent-session.ts:244-246, 397-414).  Without compact(), which stops    *)
(* listening: what the run takes meanwhile stays on display.               *)
THEOREM MirrorAgreementHolds ==
    ASSUME "compact" \notin Api
    PROVE  Spec => []MirrorAgreement
<1>1. Line /\ Shown => MirrorAgreement
  <2>1. SUFFICES ASSUME Line, Shown, events = <<>>, run.todo = <<>>, NEW way \in Ways
                 PROVE  shown[way] = [i \in DOMAIN queued[way] |-> queued[way][i].id]
    BY DEF MirrorAgreement, Ways
  <2>2. Todo = {} /\ Announced = {}
    BY <2>1 DEF Todo, Announced
  <2>3. /\ shown[way] \in Seq(Texts) /\ queued[way] \in Seq(UserMessages) /\ ShownFirst(way)
    BY <2>1 DEF Shown, Line, LineType, RunType, Ways
  <2>4. Delay(way) = 0
    <3>1. SUFFICES ASSUME Delay(way) # 0 PROVE FALSE
      OBVIOUS
    <3>2. Delay(way) \in Nat
      BY <2>3 DEF ShownFirst
    <3>3. 1 \in 1 .. Delay(way)
      BY <3>1, <3>2
    <3> QED BY <2>2, <2>3, <3>3 DEF ShownFirst
  <2>5. Len(shown[way]) = Len(queued[way]) /\ DOMAIN shown[way] = DOMAIN queued[way]
    BY <2>3, <2>4 DEF Delay
  <2>6. \A i \in DOMAIN queued[way] : shown[way][i] = queued[way][i].id
    <3>1. TAKE i \in DOMAIN queued[way]
    <3>2. shown[way][Delay(way) + i] = queued[way][i].id
      BY <2>3 DEF ShownFirst
    <3>3. Delay(way) + i = i
      BY <2>3, <2>4
    <3> QED BY <3>2, <3>3
  <2> QED BY <2>3, <2>5, <2>6
<1>2. Line /\ Shown /\ [Next]_vars => Line' /\ Shown'
  BY LineNext, ShownNext
<1> QED BY <1>1, <1>2, LineInit, ShownInit, PTL DEF Spec
=============================================================================
