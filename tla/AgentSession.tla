---------------------------- MODULE AgentSession ----------------------------
(***************************************************************************)
(* AgentSession (packages/coding-agent/src/core/agent-session.ts): what    *)
(* surrounds one Agent in every mode of the coding agent.  It subscribes   *)
(* to the agent's events, which it handles one after the other in a        *)
(* promise chain of its own (_agentEventQueue), so the agent can be far    *)
(* ahead of the handler.  The handler persists messages, mirrors the two   *)
(* queues for the user interface, retries failed responses and compacts    *)
(* the context; prompt(), abort(), compact(), steer(), followUp(),         *)
(* clearQueue() and recordBashResult() are called between its steps.       *)
(*                                                                         *)
(* The Agent appears here as its callers see it (module Agent has its      *)
(* loop): a run announces messages, asks the model, executes tools, polls  *)
(* its queues and ends.  The tool results of a turn are one message.  The  *)
(* queues are drained one message at a time, which is the default mode.    *)
(***************************************************************************)
EXTENDS Naturals, Sequences, FiniteSets, FiniteSetsExt

CONSTANTS
    Texts,             \* what the user can steer or follow up with, or prompt
    Prompted,          \* the texts that can be prompted
    Bashes,            \* bash commands whose result is recorded
    Callers,           \* concurrent callers of prompt()
    Api,               \* what the front end calls besides prompt()
    Outcomes,          \* how responses can end
    MaxResponses,      \* every response after this many ends with "stop"
    MaxCompactions,    \* bound: compact() is called while the file has fewer compactions
    MaxRetries,        \* settings.retry.maxRetries
    RetryEnabled,      \* settings.retry.enabled
    CompactionEnabled, \* settings.compaction.enabled
    StreamFails,       \* can streamFn throw
    None               \* undefined

ASSUME SessionAssumption ==
    /\ Prompted \subseteq Texts
    /\ Api \subseteq {"steer", "followUp", "clear", "abort", "compact", "promptWhileCompacting"}
    /\ Outcomes \subseteq {"stop", "silent", "toolUse", "retryable", "overflow", "fatal"}
    /\ MaxResponses \in Nat /\ MaxCompactions \in Nat /\ MaxRetries \in Nat
    /\ RetryEnabled \in BOOLEAN /\ CompactionEnabled \in BOOLEAN /\ StreamFails \in BOOLEAN

VARIABLES
    \* the agent: its transcript, its two queues, its run
    messages, queued, run,
    \* agent events: is the session subscribed, _agentEventQueue, its handler
    connected, events, handler, lastAssistant,
    \* the mirror of the queues that is shown: _steeringMessages, _followUpMessages
    shown,
    \* retry and overflow recovery, scheduled continue() calls
    attempt, retryPromise, overflowTried, timers,
    \* _pendingBashMessages and the branch of the session file
    pendingBash, entries,
    \* calls of prompt(), of compact() and of abort()
    prompts, compacting, aborting,
    \* history: responses asked, texts used, has abort() returned with no
    \* prompt() since
    asked, used, stopped

agentVars   == <<messages, queued, run>>
eventVars   == <<connected, events, handler, lastAssistant>>
retryVars   == <<attempt, retryPromise, overflowTried, timers>>
storeVars   == <<pendingBash, entries>>
callVars    == <<prompts, compacting, aborting>>
historyVars == <<asked, used, stopped>>
vars == <<agentVars, eventVars, shown, retryVars, storeVars, callVars, historyVars>>
-----------------------------------------------------------------------------
Errors    == {"retryable", "overflow", "fatal"}
Stops     == Outcomes \cup {"none", "stop", "aborted"} \cup Errors
Roles     == {"user", "assistant", "toolResult", "bash", "summary"}
Messages  == [role : Roles, id : Texts \cup Bashes \cup Nat, stop : Stops]

ASSUME NoneAssumption == None \notin Messages

User(t)         == [role |-> "user", id |-> t, stop |-> "none"]
Assistant(n, s) == [role |-> "assistant", id |-> n, stop |-> s]
ToolResult(n)   == [role |-> "toolResult", id |-> n, stop |-> "none"]
Bash(b)         == [role |-> "bash", id |-> b, stop |-> "none"]
Summary(n)      == [role |-> "summary", id |-> n, stop |-> "none"]

IsAssistant(m) == m.role = "assistant"
IsError(m)     == IsAssistant(m) /\ m.stop \in Errors
OnlyAborted(m) == m.stop = "aborted"   \* mutant: an error does not end the run
Failed(m)      == IsAssistant(m) /\ m.stop \in Errors \cup {"aborted"}
(* _isRetryableError and isContextOverflow: "silent" is a response that    *)
(* ends with "stop" but used more than the context window.                 *)
IsRetryableText(m) == m.stop \in {"retryable", "stop"}   \* mutant: stopReason is not looked at
IsRetryable(m) == m.stop = "retryable"
IsOverflow(m)  == m.stop \in {"overflow", "silent"}

LastOf(s) == s[Len(s)]
MostOf(s) == SubSeq(s, 1, Len(s) - 1)
EndsWithAssistant(s) == s # <<>> /\ IsAssistant(LastOf(s))
DropAssistant(s) == IF EndsWithAssistant(s) THEN MostOf(s) ELSE s

NoRun  == [pc |-> "none", todo |-> <<>>, last |-> None, aborted |-> FALSE, owner |-> None]
NoCall == [pc |-> "idle", text |-> None, kept |-> 0]
Ready  == [pc |-> "ready", event |-> None, kept |-> 0]
NoCompact == [pc |-> "no", kept |-> 0]

isStreaming == run.pc # "none"

(* The branch of the session: messages and compactions.  A compaction has  *)
(* the index of the first entry it keeps and the time it was made, as the  *)
(* number of responses asked before it.                                    *)
MessageEntry(m)     == [type |-> "message", message |-> m, kept |-> 0, at |-> 0]
Compaction(kept, n) == [type |-> "compaction", message |-> Summary(n), kept |-> kept, at |-> n]

MessagesOf(es) ==
    LET IsMessage(e) == e.type = "message"
        ms == SelectSeq(es, IsMessage)
    IN  [i \in DOMAIN ms |-> ms[i].message]

Compactions(es)      == {i \in DOMAIN es : es[i].type = "compaction"}
LatestCompaction(es) == IF Compactions(es) = {} THEN 0 ELSE Max(Compactions(es))

(* buildSessionContext along the branch.                                   *)
Context(es) ==
    LET c == LatestCompaction(es)
    IN  IF c = 0
          THEN MessagesOf(es)
          ELSE <<es[c].message>> \o MessagesOf(SubSeq(es, es[c].kept, c - 1))
                 \o MessagesOf(SubSeq(es, c + 1, Len(es)))

(* The first entries prepareCompaction may keep: what fits is a matter of  *)
(* tokens, but never a tool result, nor what was compacted before.         *)
CutPoints(es) ==
    LET c     == LatestCompaction(es)
        start == IF c = 0 THEN 1 ELSE es[c].kept
        valid == {i \in start .. Len(es) : es[i].type = "message" /\ es[i].message.role # "toolResult"}
    IN  IF es = <<>> \/ c = Len(es) THEN {} ELSE IF valid = {} THEN {start} ELSE valid

FromBeforeCompaction(m) ==
    LET c == LatestCompaction(entries) IN c # 0 /\ m.id <= entries[c].at

Init ==
    /\ messages = <<>> /\ queued = [steer |-> <<>>, followUp |-> <<>>] /\ run = NoRun
    /\ connected = TRUE /\ events = <<>> /\ handler = Ready /\ lastAssistant = None
    /\ shown = [steer |-> <<>>, followUp |-> <<>>]
    /\ attempt = 0 /\ retryPromise = FALSE /\ overflowTried = FALSE /\ timers = 0
    /\ pendingBash = <<>> /\ entries = <<>>
    /\ prompts = [c \in Callers |-> NoCall] /\ compacting = NoCompact /\ aborting = FALSE
    /\ asked = 0 /\ used = {} /\ stopped = FALSE
-----------------------------------------------------------------------------
(* The agent's run, as its subscribers and callers see it.                 *)

Notify(es) == events' = IF connected THEN events \o es ELSE events

Event(type, m) == [type |-> type, message |-> m]

StartRun(todo, skipInitialSteeringPoll, owner) ==
    run' = [pc |-> IF skipInitialSteeringPoll THEN "request" ELSE "poll", todo |-> todo,
            last |-> None, aborted |-> FALSE, owner |-> owner]

(* A prompt or a queued message: message_start and message_end.            *)
Announce ==
    /\ run.todo # <<>>
    /\ LET m == Head(run.todo)
       IN  messages' = Append(messages, m)
           /\ Notify(<<Event("message_start", m), Event("message_end", m)>>)
    /\ run' = [run EXCEPT !.todo = Tail(@)]
    /\ UNCHANGED <<queued, connected, handler, lastAssistant, shown, retryVars, storeVars, callVars,
                   historyVars>>

At(pc) == run.pc = pc /\ run.todo = <<>>

(* The last response did not call tools: the loop would stop here.         *)
WouldStop == run.last # None /\ run.last.stop # "toolUse"

Poll ==
    /\ At("poll")
    /\ LET way == CASE queued.steer # <<>> -> "steer"
                    [] queued.steer = <<>> /\ WouldStop /\ queued.followUp # <<>> -> "followUp"
                    [] OTHER -> "none"
       IN  IF way = "none"
             THEN /\ run' = [run EXCEPT !.pc = IF WouldStop THEN "end" ELSE "request"]
                  /\ UNCHANGED queued
             ELSE /\ run' = [run EXCEPT !.pc = "request", !.todo = <<Head(queued[way])>>]
                  /\ queued' = [queued EXCEPT ![way] = Tail(@)]
    /\ UNCHANGED <<messages, eventVars, shown, retryVars, storeVars, callVars, historyVars>>

Request ==
    /\ At("request")
    /\ asked' = asked + 1
    /\ run' = [run EXCEPT !.pc = "response"]
    /\ UNCHANGED <<messages, queued, eventVars, shown, retryVars, storeVars, callVars,
                   used, stopped>>

Respond(stop) ==
    /\ At("response")
    /\ \/ stop = "stop" /\ asked > MaxResponses
       \/ stop \in Outcomes /\ asked <= MaxResponses
       \/ stop = "aborted" /\ run.aborted
    /\ LET m == Assistant(asked, stop)
       IN  /\ messages' = Append(messages, m)
           /\ Notify(<<Event("message_end", m)>>)
           /\ run' = [run EXCEPT !.pc = CASE Failed(m) -> "end"
                                          [] stop = "toolUse" -> "tools"
                                          [] OTHER -> "poll",
                                 !.last = m]
    /\ UNCHANGED <<queued, connected, handler, lastAssistant, shown, retryVars, storeVars, callVars,
                   historyVars>>

ToolsExecuted ==
    /\ At("tools")
    /\ messages' = Append(messages, ToolResult(asked))
    /\ Notify(<<Event("message_end", ToolResult(asked))>>)
    /\ run' = [run EXCEPT !.pc = "poll"]
    /\ UNCHANGED <<queued, connected, handler, lastAssistant, shown, retryVars, storeVars, callVars,
                   historyVars>>

(* _createRetryPromiseForAgentEnd runs when the event is emitted, not when *)
(* it is handled.                                                          *)
CreatedByHandler(last) == UNCHANGED retryPromise   \* mutant
CreateRetryPromise(last) ==
    retryPromise' = (retryPromise \/ (connected /\ RetryEnabled /\ IsRetryable(last)))

RunEnds ==
    /\ At("end")
    /\ CreateRetryPromise(run.last)
    /\ Notify(<<Event("agent_end", None)>>)
    /\ run' = [run EXCEPT !.pc = "settling"]
    /\ UNCHANGED <<messages, queued, connected, handler, lastAssistant, shown, attempt, overflowTried,
                   timers, storeVars, callVars, historyVars>>

(* streamFn throws: handleRunFailure emits agent_end but no message_end    *)
(* for the failure it appends.                                             *)
RunThrows(stop) ==
    /\ StreamFails
    /\ At("response")
    /\ stop \in (IF run.aborted THEN {"aborted"} ELSE Outcomes \cap Errors)
    /\ LET m == Assistant(asked, stop)
       IN  messages' = Append(messages, m) /\ CreateRetryPromise(m)
    /\ Notify(<<Event("agent_end", None)>>)
    /\ run' = [run EXCEPT !.pc = "settling"]
    /\ UNCHANGED <<queued, connected, handler, lastAssistant, shown, attempt, overflowTried, timers,
                   storeVars, callVars, historyVars>>

(* finishRun resolves the promises of prompt(), continue() and             *)
(* waitForIdle().  prompt() goes on with waitForRetry().                   *)
AfterRun(c) ==
    CASE run.owner = c /\ retryPromise -> [prompts[c] EXCEPT !.pc = "waitRetry"]
      [] run.owner = c /\ ~retryPromise -> NoCall
      [] run.owner # c /\ prompts[c].pc = "waitIdle" -> NoCall
      [] OTHER -> prompts[c]

RunSettles ==
    /\ run.pc = "settling"
    /\ run' = NoRun
    /\ prompts' = [c \in Callers |-> AfterRun(c)]
    /\ compacting' = [compacting EXCEPT !.pc = IF @ = "waitIdle" THEN "preparing" ELSE @]
    /\ aborting' = FALSE
    /\ stopped' = (stopped \/ aborting)
    /\ UNCHANGED <<messages, queued, eventVars, shown, retryVars, storeVars, asked, used>>

AgentStep ==
    \/ Announce \/ Poll \/ Request \/ ToolsExecuted \/ RunEnds \/ RunSettles
    \/ \E stop \in Stops : Respond(stop) \/ RunThrows(stop)
-----------------------------------------------------------------------------
(* A promise that has been resolved runs its continuation before any timer *)
(* fires: the end of a run, and a prompt() whose retry is over.            *)
ContinuationsPending ==
    run.pc = "settling" \/ \E c \in Callers : prompts[c].pc = "retried"

(* continue(), called by a timer that swallows what it throws: while a run *)
(* is active, without messages, or from an answer with nothing queued.     *)
TimerFires ==
    /\ timers > 0 /\ ~ContinuationsPending
    /\ timers' = timers - 1
    /\ CASE run.pc # "none" \/ messages = <<>> -> UNCHANGED <<run, queued>>
         [] run.pc = "none" /\ messages # <<>> /\ ~IsAssistant(LastOf(messages)) ->
              StartRun(<<>>, FALSE, None) /\ UNCHANGED queued
         [] OTHER ->
              LET way == IF queued.steer # <<>> THEN "steer" ELSE "followUp"
              IN  IF queued[way] = <<>>
                    THEN UNCHANGED <<run, queued>>
                    ELSE /\ StartRun(<<Head(queued[way])>>, way = "steer", None)
                         /\ queued' = [queued EXCEPT ![way] = Tail(@)]
    /\ UNCHANGED <<messages, eventVars, shown, attempt, retryPromise, overflowTried, storeVars,
                   callVars, historyVars>>
-----------------------------------------------------------------------------
(* Compaction.  ThresholdPossible(m): some usage newer than the latest     *)
(* compaction is known; whether it is over the threshold is left open.     *)

ThresholdPossible(m) ==
    LET answers == {i \in DOMAIN messages : IsAssistant(messages[i]) /\ ~Failed(messages[i])}
    IN  IF IsError(m)
          THEN answers # {} /\ ~FromBeforeCompaction(messages[Max(answers)])
          ELSE TRUE

NeverTried(overflow) == overflowTried   \* mutant: the flag is not set
Tried(overflow) == overflowTried \/ overflow

(* _checkCompaction(m): go is what the caller does next, "recovering" and  *)
(* "compacting" being the compactions for an overflow and for a threshold. *)
CheckCompaction(m, skipAborted, go) ==
    LET skip == \/ ~CompactionEnabled
                \/ skipAborted /\ m.stop = "aborted"
                \/ FromBeforeCompaction(m)
        overflow == ~skip /\ IsOverflow(m)
    IN  /\ overflowTried' = Tried(overflow)
        /\ \/ overflow /\ ~overflowTried /\ go = "recovering"
           \/ ~skip /\ ~overflow /\ ThresholdPossible(m) /\ go = "compacting"
           \/ (overflow => overflowTried) /\ go = "done"

(* What _checkCompaction removes before it recovers from an overflow.      *)
AfterCheck(ms, go) == IF go = "recovering" THEN DropAssistant(ms) ELSE ms

NotRebuilt(reason, es) == messages   \* mutant: the agent keeps its transcript
Rebuilt(reason, es) ==
    LET ctx == Context(es)
    IN  IF reason = "recovering" /\ ctx # <<>> /\ IsError(LastOf(ctx)) THEN MostOf(ctx) ELSE ctx

(* The summary is there: append the compaction and rebuild the context.    *)
(* reason is "recovering", "compacting" or "manual".                       *)
Compacted(reason, kept) ==
    LET es == Append(entries, Compaction(kept, asked))
    IN  /\ entries' = es
        /\ messages' = Rebuilt(reason, es)
        /\ timers' = IF \/ reason = "recovering"
                        \/ reason = "compacting" /\ (queued.steer # <<>> \/ queued.followUp # <<>>)
                       THEN timers + 1 ELSE timers

(* No model, no key, nothing to compact, cancelled, or the request failed. *)
NotCompacted == UNCHANGED <<entries, messages, timers>>

Compact(reason, kept) == NotCompacted \/ (kept # 0 /\ Compacted(reason, kept))

(* prepareCompaction; 0 when there is nothing to compact.                  *)
Prepared(kept) == IF CutPoints(entries) = {} THEN kept = 0 ELSE kept \in CutPoints(entries)
-----------------------------------------------------------------------------
(* The event handler.                                                      *)

PromiseDropped == retryPromise' = FALSE /\ UNCHANGED prompts   \* mutant: never resolved
ResolvedRetry ==
    /\ retryPromise' = FALSE
    /\ prompts' = [c \in Callers |->
                     IF prompts[c].pc = "waitRetry" THEN [prompts[c] EXCEPT !.pc = "retried"] ELSE prompts[c]]

Without(s, t) ==
    LET is == {i \in DOMAIN s : s[i] = t}
    IN  IF is = {} THEN s ELSE SubSeq(s, 1, Min(is) - 1) \o SubSeq(s, Min(is) + 1, Len(s))

Mentions(s, t) == \E i \in DOMAIN s : s[i] = t

DeliveredSteer(t) == [shown EXCEPT !.steer = Without(@, t)]   \* mutant: follow-ups stay
Delivered(t) ==
    IF Mentions(shown.steer, t) THEN [shown EXCEPT !.steer = Without(@, t)]
                                ELSE [shown EXCEPT !.followUp = Without(@, t)]

NewestEvent == LastOf(events)   \* mutant: the handlers are not chained
NextEvent == Head(events)

(* Up to the extension hooks: the mirror of the queues is updated.         *)
TakeEvent ==
    /\ handler.pc = "ready" /\ events # <<>>
    /\ LET e == NextEvent
       IN  /\ handler' = [Ready EXCEPT !.pc = "hooks", !.event = e]
           /\ IF e.type = "message_start"
                THEN /\ overflowTried' = FALSE
                     /\ shown' = Delivered(e.message.id)
                ELSE UNCHANGED <<overflowTried, shown>>
    /\ events' = Tail(events)
    /\ UNCHANGED <<agentVars, connected, lastAssistant, attempt, retryPromise, timers, storeVars,
                   callVars, historyVars>>

Persisted(m) == Append(entries, MessageEntry(m))

(* After the hooks, an event that changes nothing more, or a message:      *)
(* persist it, and an answer that did not fail ends a series of retries.   *)
PersistMessage ==
    /\ handler.pc = "hooks" /\ handler.event.type = "message_end"
    /\ LET m == handler.event.message
           answered == IsAssistant(m) /\ ~IsError(m)
       IN  /\ entries' = Persisted(m)
           /\ lastAssistant' = IF IsAssistant(m) THEN m ELSE lastAssistant
           /\ overflowTried' = (overflowTried /\ ~answered)
           /\ attempt' = IF answered THEN 0 ELSE attempt
    /\ handler' = Ready
    /\ UNCHANGED <<agentVars, connected, events, shown, retryPromise, timers, pendingBash, callVars,
                   historyVars>>

EndsRun == handler.pc = "hooks" /\ handler.event.type = "agent_end" /\ lastAssistant # None

ForwardEvent ==
    /\ handler.pc = "hooks" /\ handler.event.type # "message_end" /\ ~EndsRun
    /\ handler' = Ready
    /\ UNCHANGED <<agentVars, connected, events, lastAssistant, shown, retryVars, storeVars, callVars,
                   historyVars>>

(* _resolveRetry and _checkCompaction.                                     *)
CheckedEnd(m, go) ==
    /\ ResolvedRetry
    /\ CheckCompaction(m, TRUE, go)
    /\ messages' = AfterCheck(messages, go)
    /\ \/ go = "done" /\ handler' = Ready
       \/ /\ go # "done"
          /\ \E kept \in 0 .. Len(entries) :
                Prepared(kept) /\ handler' = [pc |-> go, event |-> None, kept |-> kept]

NextSteps == {"done", "recovering", "compacting"}

Retries == RetryEnabled /\ attempt < MaxRetries

(* agent_end after an answer, or after the last retry.                     *)
HandleEnd ==
    /\ EndsRun
    /\ ~(IsRetryable(lastAssistant) /\ Retries)
    /\ \E go \in NextSteps : CheckedEnd(lastAssistant, go)
    /\ attempt' = IF IsRetryable(lastAssistant) /\ RetryEnabled THEN 0 ELSE attempt
    /\ lastAssistant' = None
    /\ UNCHANGED <<queued, run, connected, events, shown, timers, storeVars, compacting, aborting,
                   historyVars>>

(* _handleRetryableError up to the sleep.                                  *)
HandleRetry ==
    /\ EndsRun
    /\ IsRetryable(lastAssistant) /\ Retries
    /\ attempt' = attempt + 1 /\ retryPromise' = TRUE
    /\ messages' = DropAssistant(messages)
    /\ handler' = [Ready EXCEPT !.pc = "sleep", !.event = Event("agent_end", lastAssistant)]
    /\ lastAssistant' = None
    /\ UNCHANGED <<queued, run, connected, events, shown, overflowTried, timers, storeVars, callVars,
                   historyVars>>

WakeUp ==
    /\ handler.pc = "sleep" /\ ~ContinuationsPending
    /\ handler' = Ready
    /\ timers' = timers + 1
    /\ UNCHANGED <<agentVars, connected, events, lastAssistant, shown, attempt, retryPromise,
                   overflowTried, storeVars, callVars, historyVars>>

(* The sleep was aborted.                                                  *)
RetryCancelled ==
    /\ handler.pc = "cancelled"
    /\ attempt' = 0
    /\ \E go \in NextSteps : CheckedEnd(handler.event.message, go)
    /\ UNCHANGED <<queued, run, connected, events, lastAssistant, shown, timers, storeVars,
                   compacting, aborting, historyVars>>

AutoCompact ==
    /\ handler.pc \in {"recovering", "compacting"}
    /\ Compact(handler.pc, handler.kept)
    /\ handler' = Ready
    /\ UNCHANGED <<queued, run, connected, events, lastAssistant, shown, attempt, retryPromise,
                   overflowTried, pendingBash, callVars, historyVars>>

HandlerStep ==
    \/ TakeEvent \/ PersistMessage \/ ForwardEvent
    \/ HandleEnd \/ HandleRetry \/ WakeUp \/ RetryCancelled \/ AutoCompact
-----------------------------------------------------------------------------
(* The public interface.                                                   *)

Summarizing ==
    \/ handler.pc \in {"recovering", "compacting"}
    \/ \E c \in Callers : prompts[c].pc \in {"recovering", "compacting"}
    \/ compacting.pc # "no"

(* prompt() while nothing streams: flush the bash results, then check the  *)
(* last answer, aborted ones included, before the message is sent.         *)
Prompt(c, t) ==
    /\ prompts[c].pc = "idle" /\ t \notin used /\ ~isStreaming
    /\ Summarizing => "promptWhileCompacting" \in Api
    /\ LET flushed == messages \o pendingBash
           answers == {i \in DOMAIN flushed : IsAssistant(flushed[i])}
       IN  /\ entries' = entries \o [i \in DOMAIN pendingBash |-> MessageEntry(pendingBash[i])]
           /\ \E go \in NextSteps :
                /\ IF answers = {}
                     THEN go = "done" /\ UNCHANGED overflowTried
                     ELSE CheckCompaction(flushed[Max(answers)], FALSE, go)
                /\ messages' = AfterCheck(flushed, go)
                /\ \/ go = "done" /\ prompts' = [prompts EXCEPT ![c] = [NoCall EXCEPT !.pc = "starting", !.text = t]]
                   \/ /\ go # "done"
                      /\ \E kept \in 0 .. Len(entries) :
                            /\ Prepared(kept)
                            /\ prompts' = [prompts EXCEPT ![c] = [pc |-> go, text |-> t, kept |-> kept]]
    /\ pendingBash' = <<>>
    /\ used' = used \cup {t} /\ stopped' = FALSE
    /\ UNCHANGED <<queued, run, eventVars, shown, attempt, retryPromise, timers, compacting, aborting,
                   asked>>

PromptCompacts(c) ==
    /\ prompts[c].pc \in {"recovering", "compacting"}
    /\ Compact(prompts[c].pc, prompts[c].kept)
    /\ prompts' = [prompts EXCEPT ![c].pc = "starting", ![c].kept = 0]
    /\ UNCHANGED <<queued, run, eventVars, shown, attempt, retryPromise, overflowTried, pendingBash,
                   compacting, aborting, historyVars>>

(* agent.prompt(), which throws while a run is active.                     *)
PromptStarts(c) ==
    /\ prompts[c].pc = "starting"
    /\ IF isStreaming
         THEN prompts' = [prompts EXCEPT ![c] = NoCall] /\ UNCHANGED run
         ELSE /\ prompts' = [prompts EXCEPT ![c].pc = "running"]
              /\ StartRun(<<User(prompts[c].text)>>, FALSE, c)
    /\ stopped' = FALSE
    /\ UNCHANGED <<messages, queued, eventVars, shown, retryVars, storeVars, compacting, aborting,
                   asked, used>>

(* waitForRetry goes on with waitForIdle.                                  *)
PromptRetried(c) ==
    /\ prompts[c].pc = "retried"
    /\ prompts' = [prompts EXCEPT ![c] = IF isStreaming THEN [@ EXCEPT !.pc = "waitIdle"] ELSE NoCall]
    /\ UNCHANGED <<agentVars, eventVars, shown, retryVars, storeVars, compacting, aborting, historyVars>>

Queue(way, t) ==
    /\ way \in Api /\ t \notin used
    /\ shown' = [shown EXCEPT ![way] = Append(@, t)]
    /\ queued' = [queued EXCEPT ![way] = Append(@, User(t))]
    /\ used' = used \cup {t}
    /\ UNCHANGED <<messages, run, eventVars, retryVars, storeVars, callVars, asked, stopped>>

Steer(t)    == Queue("steer", t)
FollowUp(t) == Queue("followUp", t)

ClearQueue ==
    /\ "clear" \in Api
    /\ shown' = [steer |-> <<>>, followUp |-> <<>>]
    /\ queued' = [steer |-> <<>>, followUp |-> <<>>]
    /\ UNCHANGED <<messages, run, eventVars, retryVars, storeVars, callVars, historyVars>>

(* abortRetry() and agent.abort().                                         *)
Aborted ==
    /\ handler' = IF handler.pc = "sleep" THEN [handler EXCEPT !.pc = "cancelled"] ELSE handler
    /\ ResolvedRetry
    /\ run' = [run EXCEPT !.aborted = isStreaming]

Abort ==
    /\ "abort" \in Api
    /\ Aborted
    /\ aborting' = isStreaming
    /\ stopped' = (stopped \/ ~isStreaming)
    /\ UNCHANGED <<messages, queued, connected, events, lastAssistant, shown, attempt, overflowTried,
                   timers, storeVars, compacting, asked, used>>

(* compact(): the handler does not hear of the run it aborts.              *)
ManualCompact ==
    /\ "compact" \in Api /\ Cardinality(Compactions(entries)) < MaxCompactions
    /\ compacting.pc = "no"
    /\ connected' = FALSE
    /\ Aborted
    /\ compacting' = [compacting EXCEPT !.pc = IF isStreaming THEN "waitIdle" ELSE "preparing"]
    /\ UNCHANGED <<messages, queued, events, lastAssistant, shown, attempt, overflowTried, timers,
                   storeVars, aborting, historyVars>>

ManualPrepares ==
    /\ compacting.pc = "preparing"
    /\ \E kept \in 0 .. Len(entries) : Prepared(kept) /\ compacting' = [pc |-> "summarizing", kept |-> kept]
    /\ UNCHANGED <<agentVars, eventVars, shown, retryVars, storeVars, prompts, aborting, historyVars>>

ManualCompacted ==
    /\ compacting.pc = "summarizing"
    /\ Compact("manual", compacting.kept)
    /\ compacting' = NoCompact
    /\ connected' = TRUE
    /\ UNCHANGED <<queued, run, events, handler, lastAssistant, shown, attempt, retryPromise,
                   overflowTried, pendingBash, prompts, aborting, historyVars>>

RecordBashResult(b) ==
    /\ b \notin used
    /\ IF isStreaming
         THEN pendingBash' = Append(pendingBash, Bash(b)) /\ UNCHANGED <<messages, entries>>
         ELSE /\ messages' = Append(messages, Bash(b))
              /\ entries' = Append(entries, MessageEntry(Bash(b)))
              /\ UNCHANGED pendingBash
    /\ used' = used \cup {b}
    /\ UNCHANGED <<queued, run, eventVars, shown, retryVars, callVars, asked, stopped>>

Interface ==
    \/ \E t \in Texts : Steer(t) \/ FollowUp(t) \/ \E c \in Callers : t \in Prompted /\ Prompt(c, t)
    \/ \E b \in Bashes : RecordBashResult(b)
    \/ ClearQueue \/ Abort \/ ManualCompact

CallStep ==
    \/ \E c \in Callers : PromptCompacts(c) \/ PromptStarts(c) \/ PromptRetried(c)
    \/ ManualPrepares \/ ManualCompacted

Next == AgentStep \/ HandlerStep \/ TimerFires \/ Interface \/ CallStep

(* The event loop runs every ready continuation and timer; the model, the  *)
(* tools, the hooks and the summaries answer.                              *)
Fairness ==
    /\ WF_vars(AgentStep) /\ WF_vars(HandlerStep) /\ WF_vars(TimerFires)
    /\ \A c \in Callers : WF_vars(PromptCompacts(c) \/ PromptStarts(c) \/ PromptRetried(c))
    /\ WF_vars(ManualPrepares \/ ManualCompacted)

Spec == Init /\ [][Next]_vars /\ Fairness
-----------------------------------------------------------------------------
EventRecords ==
    [type : {"message_start", "message_end"}, message : Messages]
      \cup [type : {"agent_end"}, message : Messages \cup {None}]

(* Every variable keeps its type; in particular no more retries are made   *)
(* than the settings allow (line 2416).                                    *)
SessionTypeOK ==
    /\ messages \in Seq(Messages)
    /\ queued \in [steer : Seq(Messages), followUp : Seq(Messages)]
    /\ run \in [pc : {"none", "poll", "request", "response", "tools", "end", "settling"},
                todo : Seq(Messages), last : Messages \cup {None}, aborted : BOOLEAN,
                owner : Callers \cup {None}]
    /\ connected \in BOOLEAN /\ events \in Seq(EventRecords)
    /\ handler \in [pc : {"ready", "hooks", "sleep", "cancelled", "recovering", "compacting"},
                    event : EventRecords \cup {None}, kept : Nat]
    /\ lastAssistant \in Messages \cup {None}
    /\ shown \in [steer : Seq(Texts), followUp : Seq(Texts)]
    /\ attempt \in 0 .. MaxRetries /\ retryPromise \in BOOLEAN /\ overflowTried \in BOOLEAN
    /\ timers \in Nat
    /\ pendingBash \in Seq(Messages)
    /\ entries \in Seq([type : {"message", "compaction"}, message : Messages, kept : Nat, at : Nat])
    /\ prompts \in [Callers ->
                     [pc : {"idle", "recovering", "compacting", "starting", "running", "waitRetry",
                            "retried", "waitIdle"},
                      text : Texts \cup {None}, kept : Nat]]
    /\ compacting \in [pc : {"no", "waitIdle", "preparing", "summarizing"}, kept : Nat]
    /\ aborting \in BOOLEAN /\ stopped \in BOOLEAN
    /\ asked \in Nat /\ used \subseteq Texts \cup Bashes

(* Nothing is under way: no run, no event, no timer, no call.              *)
Quiet ==
    /\ ~isStreaming /\ events = <<>> /\ handler.pc = "ready" /\ timers = 0
    /\ \A c \in Callers : prompts[c].pc = "idle"
    /\ compacting.pc = "no"

Conversation(ms) == LET Answered(m) == ~Failed(m) IN SelectSeq(ms, Answered)

(* What the agent remembers is what the session file tells: once all is    *)
(* quiet, resuming the session from its file gives the same conversation,  *)
(* but for failed answers, which no model is shown (lines 513-532, 1937).  *)
QuietAgreement == Quiet => Conversation(messages) = Conversation(Context(entries))

(* The queues shown to the user are the queues of the agent as soon as the *)
(* handler has caught up ("Removed when delivered", lines 244 and 246).    *)
MirrorAgreement ==
    (events = <<>> /\ run.todo = <<>>) =>
        \A way \in {"steer", "followUp"} :
            shown[way] = [i \in DOMAIN queued[way] |-> queued[way][i].id]

(* "prompt() calls waitForRetry()": when prompt() returns, its response is *)
(* not going to be retried (lines 438-442).                                *)
RetryAwaited ==
    [][\A c \in Callers :
         prompts[c].pc # "idle" /\ prompts'[c].pc = "idle" =>
            /\ handler.pc # "sleep" /\ timers = 0
            /\ ~(EndsRun /\ IsRetryable(lastAssistant) /\ Retries)]_vars

(* What the handler takes out of the transcript, it takes out because it   *)
(* failed ("Remove error message from agent state", line 2439).            *)
OnlyFailuresDropped ==
    [][Len(messages') < Len(messages) /\ entries' = entries => Failed(LastOf(messages))]_vars

(* Whatever is called when, each message is persisted at most once, and    *)
(* answers and tool results in the order of the requests.                  *)
PersistedOnceInOrder ==
    \A i, j \in DOMAIN entries :
        i < j /\ entries[i].type = "message" /\ entries[j].type = "message" =>
            /\ entries[i].message # entries[j].message
            /\ {entries[i].message.role, entries[j].message.role} \subseteq {"assistant", "toolResult"} =>
                  entries[i].message.id <= entries[j].message.id

(* A model that always fails is not asked forever: for a message of the    *)
(* user it is asked once, once more after a compaction, and MaxRetries     *)
(* times more after other failures.                                        *)
RequestsBounded == asked <= Cardinality(used \cap Texts) * (MaxRetries + 2)

(* Every prompt() returns: neither agent.prompt() nor waitForRetry() waits *)
(* forever (lines 1064-1065, 2488-2495).                                   *)
PromptReturns == \A c \in Callers : prompts[c].pc # "idle" ~> prompts[c].pc = "idle"

(* "Abort current operation and wait for agent to become idle" (line 1344): *)
(* after abort() the agent does not start again on its own.                *)
AbortStops == stopped => ~isStreaming

(* "Queue for later - will be flushed on agent_end" (line 2574).           *)
BashFlushed == Quiet => pendingBash = <<>>

(* "defer adding to avoid breaking tool_use/tool_result ordering" (2572):  *)
(* in the session, a tool call is followed by its results.                 *)
BashAfterResults ==
    \A i \in 1 .. Len(entries) - 1 :
        entries[i].message.stop = "toolUse" => entries[i + 1].message.role # "bash"

(* The run of the agent that the session subscribes to, awaits and aborts  *)
(* is one of AgentContract, which Agent keeps.                             *)
Stage ==
    CASE run.pc = "none" -> "idle"
      [] run.pc = "settling" -> "ended"
      [] run.pc = "response" -> "asked"
      [] run.pc = "request" \/ (run.pc = "poll" /\ run.last = None) -> "speaking"
      [] OTHER -> IF run.last.stop \in Errors \cup {"aborted"} THEN "failed" ELSE "answered"

Owed == IF run.pc = "tools" THEN 1 ELSE 0

Contract == INSTANCE AgentContract WITH MaxOwed <- 1, stage <- Stage, owed <- Owed

FollowsContract == Contract!ContractSpec

(* "Current retry attempt (0 if not retrying)" (line 751).                 *)
AttemptReset == Quiet => attempt = 0
=============================================================================
