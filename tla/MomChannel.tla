------------------------------ MODULE MomChannel ------------------------------
(***************************************************************************)
(* One channel of the Slack bot (packages/mom): the queue of work and the  *)
(* event handlers of slack.ts, the handler of main.ts that runs the agent, *)
(* run() of agent.ts, the backfill of log.jsonl and its synchronisation    *)
(* into the context (context.ts).                                          *)
(*                                                                         *)
(* Slack numbers the messages of the channel in the order they are posted: *)
(* a user's "text" asks for an answer, "stop" ends a run, "chatter" is not *)
(* addressed to the bot, and "bot" is the message a run shows its answers  *)
(* in.  Everything that happens between two awaits of the run is one       *)
(* action.  The agent itself is Agent and AgentSession; here it is a prompt*)
(* that is refused, or adds the message to the context, answers and ends.  *)
(***************************************************************************)
EXTENDS Naturals, Sequences, FiniteSets, SequencesExt

CONSTANTS MaxPosts,     \* bound on the messages users post
          MaxQueue,     \* the limit of the queue (5)
          MaxRestarts,  \* bound on how often the bot ends and starts again
          MaxHistory    \* how many messages a backfill can fetch (3 pages of 1000)

ASSUME ChannelAssumption == {MaxPosts, MaxQueue, MaxRestarts, MaxHistory} \subseteq Nat

VARIABLES
    posted,     \* Slack's history: message -> "text", "stop", "chatter" or "bot"
    unheard,    \* the messages that were posted while the bot was not connected
    redelivered,\* those of them that Slack delivered later
    bot,        \* "down", "starting", "filling", "filled", "connected" or "up"
    startup,    \* startupTs: the messages posted before the bot was up, 0 for none
    restarts,
    log,        \* log.jsonl: the numbers of the messages logged
    oldest,     \* latestTs: what is newer than this is fetched by the backfill
    context,    \* context.jsonl: the user messages of the session
    flushed,    \* has the session been written to its file
    queue, processing,         \* ChannelQueue
    phase, current,            \* the run: the await it is at, and its message or event
    reply,      \* messageTs: the bot's message of the run, 0 for none
    stopRequested,
    underway,   \* history: how much work was started and has not ended
    joined,     \* history: what had been posted when the log was begun
    mishaps     \* history: what happened that the bot does not recover from

slackVars == <<posted, unheard, redelivered>>
botVars   == <<bot, startup, restarts, oldest>>
logVars   == <<log, joined>>
files     == <<context, flushed>>
queueVars == <<queue, processing, phase, current, stopRequested, reply, underway>>
momVars   == <<slackVars, botVars, logVars, files, queueVars, mishaps>>

Post(n)  == [type |-> "message", id |-> n]
NoWork   == [type |-> "none", id |-> 0]
UserKinds == {"text", "stop", "chatter"}
UserPosts == {n \in DOMAIN posted : posted[n] # "bot"}

MomInit ==
    /\ posted = <<>> /\ unheard = {} /\ redelivered = {}
    /\ bot = "up" /\ startup = 0 /\ restarts = 0 /\ oldest = 0
    /\ log = <<>> /\ joined = 0 /\ context = <<>> /\ flushed = FALSE
    /\ queue = <<>> /\ processing = FALSE /\ phase = "idle" /\ current = NoWork
    /\ reply = 0 /\ stopRequested = FALSE /\ underway = 0 /\ mishaps = {}

isRunning == phase # "idle"
Connected == bot \in {"connected", "up"}
Mishap(m, happened) == mishaps' = IF happened THEN mishaps \cup {m} ELSE mishaps

(* processNext: the first work of the queue is started unless other work   *)
(* is being processed; handleEvent marks the channel as running at once.   *)
AlwaysReady == TRUE              \* mutant: the flag is not looked at
Ready == ~processing

BeginWork(works) ==
    /\ processing' = TRUE /\ queue' = Tail(works)
    /\ phase' = "opening" /\ current' = Head(works)
    /\ stopRequested' = FALSE /\ reply' = 0

Enqueue(work) ==
    IF Ready
      THEN BeginWork(Append(queue, work)) /\ underway' = underway + 1
      ELSE /\ queue' = Append(queue, work)
           /\ UNCHANGED <<processing, phase, current, stopRequested, reply, underway>>

QueueFull == Len(queue) >= MaxQueue

EnqueueEvent(event) == IF QueueFull THEN UNCHANGED queueVars ELSE Enqueue(event)

(* A user's message is logged, heard before or not.  One from before the   *)
(* bot was up is not acted upon; "stop" aborts what the session is doing;  *)
(* a text is work unless the channel is running.                           *)
LogLine(n) ==
    /\ log' = Append(log, n)
    /\ joined' = IF log = <<>> THEN Len(posted') ELSE joined

HandleStop ==
    /\ stopRequested' = (isRunning \/ stopRequested)
    /\ phase' = IF phase = "prompting" THEN "aborting" ELSE phase
    /\ UNCHANGED <<queue, processing, current, reply, underway>>

Hears(n, kind) ==
    /\ LogLine(n)
    /\ \/ (n <= startup \/ kind = "chatter" \/ (kind = "text" /\ isRunning)) /\ UNCHANGED queueVars
       \/ n > startup /\ kind = "stop" /\ HandleStop
       \/ n > startup /\ kind = "text" /\ ~isRunning /\ Enqueue(Post(n))

(* Users post.  Slack delivers what is posted to a bot that is connected,  *)
(* and some of the rest when it is connected again.                        *)
Posts(kind) == Cardinality(UserPosts) < MaxPosts /\ posted' = Append(posted, kind)

Say(kind) ==
    /\ Connected /\ Posts(kind)
    /\ Hears(Len(posted) + 1, kind)
    /\ UNCHANGED <<unheard, redelivered, botVars, files, mishaps>>

SayUnheard(kind) ==
    /\ ~Connected /\ Posts(kind)
    /\ unheard' = unheard \cup {Len(posted) + 1}
    /\ Mishap("gap", bot = "filled")
    /\ UNCHANGED <<redelivered, botVars, logVars, files, queueVars>>

Redeliver(n) ==
    /\ Connected /\ n \in unheard \ redelivered
    /\ redelivered' = redelivered \cup {n}
    /\ UNCHANGED posted
    /\ Hears(n, posted[n])
    /\ Mishap("unstamped", n > startup /\ n \in ToSet(log))
    /\ UNCHANGED <<unheard, botVars, files>>
---------------------------------------------------------------------------
(* The run.  Messages in the order of their timestamps.                    *)
Chronological(S) == {s \in [1 .. Cardinality(S) -> S] : \A i, j \in DOMAIN s : i < j => s[i] < s[j]}

Logged == {n \in ToSet(log) : posted[n] # "bot"}

(* What the log has and the context has not is added, except for the       *)
(* message the run is about and the bot's own.                             *)
AllUnknown == Logged \ ToSet(context)   \* mutant: the current message, too
Unknown == {n \in Logged \ ToSet(context) : Post(n) # current}

At(from, to) == phase = from /\ phase' = to
RunVars == <<unheard, redelivered, botVars, queue, processing, current, stopRequested, underway>>

(* setTyping: "_Thinking_", which Slack may refuse.                        *)
Announce ==
    /\ At("opening", "announced")
    /\ \/ posted' = Append(posted, "bot") /\ reply' = Len(posted) + 1
       \/ UNCHANGED <<posted, reply>>
    /\ UNCHANGED <<RunVars, logVars, files, mishaps>>

SyncLog ==
    /\ At("announced", "synced")
    /\ \E new \in Chronological(Unknown) : context' = context \o new
    /\ UNCHANGED <<RunVars, posted, reply, logVars, flushed, mishaps>>

PromptStarts ==
    /\ At("synced", "prompting")
    /\ context' = IF current.type = "message" THEN Append(context, current.id) ELSE context
    /\ UNCHANGED <<RunVars, posted, reply, logVars, flushed, mishaps>>

RunThrows ==
    /\ At("announced", "closing") \/ At("synced", "closing")
    /\ UNCHANGED <<RunVars, posted, reply, logVars, files, mishaps>>

Prompting == phase \in {"prompting", "aborting"}

AnswerPersisted ==
    /\ Prompting /\ ~flushed /\ flushed' = TRUE
    /\ UNCHANGED <<RunVars, posted, reply, logVars, context, phase, mishaps>>

(* respond: the answer is shown in the run's message, and logged under its *)
(* number (again for each further answer, which says nothing new).         *)
Respond ==
    /\ Prompting /\ flushed /\ reply \notin ToSet(log)
    /\ IF reply = 0
         THEN posted' = Append(posted, "bot") /\ reply' = Len(posted) + 1
         ELSE UNCHANGED <<posted, reply>>
    /\ LogLine(reply')
    /\ Mishap("answered", bot \in {"starting", "filling"})
    /\ UNCHANGED <<RunVars, files, phase>>

PromptEnds ==
    /\ Prompting /\ phase' = "closing"
    /\ UNCHANGED <<RunVars, posted, reply, logVars, files, mishaps>>

(* The work is done: the next one is started.                              *)
CloseRun ==
    /\ phase = "closing"
    /\ IF queue # <<>>
         THEN BeginWork(queue) /\ UNCHANGED underway
         ELSE /\ processing' = FALSE /\ phase' = "idle" /\ current' = NoWork /\ underway' = underway - 1
              /\ UNCHANGED <<queue, stopRequested, reply>>
    /\ UNCHANGED <<slackVars, botVars, logVars, files, mishaps>>
---------------------------------------------------------------------------
(* The bot ends; the queue was in memory, and so was a session without an  *)
(* answer.                                                                 *)
MomDies ==
    /\ bot # "down" /\ restarts < MaxRestarts
    /\ bot' = "down" /\ startup' = 0 /\ restarts' = restarts + 1
    /\ context' = IF flushed THEN context ELSE <<>>
    /\ queue' = <<>> /\ processing' = FALSE /\ phase' = "idle" /\ current' = NoWork
    /\ reply' = 0 /\ stopRequested' = FALSE /\ underway' = 0
    /\ UNCHANGED <<slackVars, oldest, logVars, flushed, mishaps>>

(* The events watcher runs from now on, and so may the agent.              *)
MomStarts ==
    /\ bot = "down" /\ bot' = "starting"
    /\ UNCHANGED <<slackVars, startup, restarts, oldest, logVars, files, queueVars, mishaps>>

(* backfillChannel, for a channel with a log: what is newer than any line, *)
(* the bot's included, is asked for.                                       *)
Latest == {n \in ToSet(log) : \A m \in ToSet(log) : m <= n}

BackfillBegins ==
    /\ bot = "starting"
    /\ IF log = <<>> THEN bot' = "filled" /\ UNCHANGED oldest ELSE bot' = "filling" /\ oldest' \in Latest
    /\ UNCHANGED <<slackVars, startup, restarts, logVars, files, queueVars, mishaps>>

Newer == {n \in DOMAIN posted : n > oldest}
Fetched == {n \in Newer : Cardinality({m \in Newer : m > n}) < MaxHistory}

BackfillEnds ==
    /\ bot = "filling" /\ bot' = "filled"
    /\ \E new \in Chronological(Fetched) : log' = log \o new
    /\ Mishap("cut", Fetched # Newer)
    /\ UNCHANGED <<slackVars, startup, restarts, oldest, joined, files, queueVars>>

(* A failed backfill is only reported.                                     *)
BackfillFails ==
    /\ bot = "filling" /\ bot' = "filled"
    /\ Mishap("failed", TRUE)
    /\ UNCHANGED <<slackVars, startup, restarts, oldest, logVars, files, queueVars>>

Connect ==
    /\ bot = "filled" /\ bot' = "connected"
    /\ UNCHANGED <<slackVars, startup, restarts, oldest, logVars, files, queueVars, mishaps>>

Started ==
    /\ bot = "connected" /\ bot' = "up" /\ startup' = Len(posted)
    /\ UNCHANGED <<slackVars, restarts, oldest, logVars, files, queueVars, mishaps>>

RunStep == Announce \/ SyncLog \/ PromptStarts \/ PromptEnds \/ CloseRun
StartStep == BackfillBegins \/ BackfillEnds \/ Connect \/ Started
MomStep ==
    \/ \E kind \in UserKinds : Say(kind) \/ SayUnheard(kind)
    \/ \E n \in unheard : Redeliver(n)
    \/ RunStep \/ RunThrows \/ AnswerPersisted \/ Respond
    \/ StartStep \/ BackfillFails
---------------------------------------------------------------------------
(* One work after the other: the one running is the only one under way,    *)
(* and the queue is not longer than its limit.                             *)
OneAtATime ==
    /\ underway = IF isRunning THEN 1 ELSE 0
    /\ processing <=> isRunning
    /\ Len(queue) <= MaxQueue /\ (queue # <<>> => isRunning)

(* Every message users post since the log was begun is in it.              *)
LogComplete == \A n \in UserPosts : n > joined => n \in ToSet(log)

(* What the bot keeps of a channel, whatever fails and whenever it ends.   *)
(* A user's message is logged twice only if Slack delivered it again, and  *)
(* is in the context once, unless it was delivered again before startupTs  *)
(* was set.  No message is missing in the log of a bot that is up, unless a*)
(* backfill failed, was too long, or ran after the bot had answered, or    *)
(* the message came between backfill and connection.  All that was logged  *)
(* before the message the model is asked about is in the context.          *)
Twice(s) == \E i, j \in DOMAIN s : i # j /\ s[i] = s[j]
LoggedTwice(n) == \E i, j \in DOMAIN log : i # j /\ log[i] = n /\ log[j] = n

LoggedOnce   == \A n \in UserPosts : LoggedTwice(n) => n \in redelivered
NothingMissed == bot = "up" /\ log # <<>> /\ mishaps \subseteq {"unstamped"} => LogComplete
ContextSound == ToSet(context) \subseteq Logged /\ (Twice(context) => "unstamped" \in mishaps)
ModelKnows ==
    phase = "synced" /\ current.type = "message" =>
      \A i \in DOMAIN log : log[i] \in UserPosts /\ (\A j \in 1 .. i : log[j] # current.id) => log[i] \in ToSet(context)

MessagesKept == LoggedOnce /\ NothingMissed /\ ContextSound /\ ModelKnows

(* No message is logged twice, whatever Slack delivers again.              *)
LoggedExactlyOnce == \A n \in UserPosts : ~LoggedTwice(n)

(* A run that was told to stop does not go on to ask the model.            *)
StopHeeded == [][stopRequested => ~(phase = "synced" /\ phase' = "prompting")]_momVars
=============================================================================
