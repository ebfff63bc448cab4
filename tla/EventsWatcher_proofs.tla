------------------------- MODULE EventsWatcher_proofs -------------------------
(***************************************************************************)
(* Proofs about a channel of the Slack bot and its events watcher, for any *)
(* posts, event files, restarts and any limit of the queue.                *)
(***************************************************************************)
EXTENDS EventsWatcher, SequenceTheorems, FiniteSetTheorems, TLAPS

IsSequence(s) == \E S : s \in Seq(S)

(* Sequences of any elements: one more at the end,.                        *)
LEMMA AppendToSequence ==
    ASSUME NEW s, IsSequence(s), NEW e
    PROVE  /\ IsSequence(Append(s, e)) /\ Len(s) \in Nat
           /\ Len(Append(s, e)) = Len(s) + 1 /\ Append(s, e) # <<>>
<1>1. PICK S : s \in Seq(S)
  BY DEF IsSequence
<1>2. s \in Seq(S \cup {e})
  <2>1. Len(s) \in Nat /\ s \in [1 .. Len(s) -> S \cup {e}]
    BY <1>1
  <2> QED BY <1>1, <2>1
<1>3. Append(s, e) \in Seq(S \cup {e}) /\ Len(s) \in Nat /\ Len(Append(s, e)) = Len(s) + 1
  BY <1>2
<1>4. Append(s, e) # <<>>
  BY <1>3
<1> QED BY <1>3, <1>4 DEF IsSequence

(* one less at the beginning,                                              *)
LEMMA TailOfSequence ==
    ASSUME NEW s, IsSequence(s), s # <<>>
    PROVE  IsSequence(Tail(s)) /\ Len(Tail(s)) = Len(s) - 1 /\ Len(s) \in Nat
<1>1. PICK S : s \in Seq(S)
  BY DEF IsSequence
<1>2. Tail(s) \in Seq(S) /\ Len(Tail(s)) = Len(s) - 1 /\ Len(s) \in Nat
  BY <1>1
<1> QED BY <1>2 DEF IsSequence

(* none.                                                                   *)
LEMMA EmptySequence == IsSequence(<<>>) /\ Len(<<>>) = 0
<1>1. <<>> \in Seq({})
  OBVIOUS
<1> QED BY <1>1 DEF IsSequence

(* One work after the other, with the types that the steps need.           *)
ChannelInv ==
    /\ IsSequence(queue) /\ processing \in BOOLEAN
    /\ OneAtATime

(* The limit of the queue is a number.                                     *)
LEMMA LimitIsNat == MaxQueue \in Nat
BY ChannelAssumption

(* A channel starts with nothing queued and nothing running.               *)
LEMMA ChannelInit == MomInit => ChannelInv
<1>1. SUFFICES ASSUME MomInit PROVE ChannelInv
  OBVIOUS
<1>2. IsSequence(queue) /\ Len(queue) = 0
  BY <1>1, EmptySequence DEF MomInit
<1>3. /\ underway = 0 /\ ~isRunning /\ processing = FALSE
      /\ ~(queue # <<>>)
  BY <1>1 DEF MomInit, isRunning
<1>4. OneAtATime
  BY <1>2, <1>3, LimitIsNat DEF OneAtATime
<1> QED BY <1>2, <1>3, <1>4 DEF ChannelInv

(* Work is added: it is started when nothing is processed, else it waits.  *)
LEMMA WorkEnqueued ==
    ASSUME ChannelInv, NEW work, Enqueue(work), isRunning => ~QueueFull
    PROVE  ChannelInv'
<1>1. /\ IsSequence(queue) /\ IsSequence(Append(queue, work)) /\ Len(queue) \in Nat
      /\ Len(Append(queue, work)) = Len(queue) + 1 /\ Append(queue, work) # <<>>
  BY AppendToSequence DEF ChannelInv
<1>2. MaxQueue \in Nat
  BY LimitIsNat
<1>3. CASE Ready
  <2>1. ~isRunning /\ queue = <<>> /\ underway = 0
    BY <1>3 DEF Ready, ChannelInv, OneAtATime
  <2>2. /\ processing' = TRUE /\ queue' = Tail(Append(queue, work)) /\ phase' = "opening"
        /\ underway' = underway + 1
    BY <1>3 DEF Enqueue, BeginWork
  <2>3. Len(queue) = 0
    BY <2>1, EmptySequence
  <2>4. IsSequence(queue') /\ Len(queue') = 0
    BY <1>1, <2>2, <2>3, TailOfSequence
  <2> QED BY <1>2, <2>1, <2>2, <2>4 DEF ChannelInv, OneAtATime, isRunning
<1>4. CASE ~Ready
  <2>1. isRunning /\ Len(queue) < MaxQueue
    BY <1>1, <1>2, <1>4 DEF Ready, ChannelInv, OneAtATime, QueueFull
  <2>2. queue' = Append(queue, work) /\ UNCHANGED <<processing, phase, underway>>
    BY <1>4 DEF Enqueue
  <2> QED BY <1>1, <1>2, <2>1, <2>2 DEF ChannelInv, OneAtATime, isRunning
<1> QED BY <1>3, <1>4

(* An event is refused when the queue is full.                             *)
LEMMA EventEnqueued ==
    ASSUME ChannelInv, NEW event, EnqueueEvent(event)
    PROVE  ChannelInv'
<1>1. CASE QueueFull
  BY <1>1 DEF EnqueueEvent, queueVars, ChannelInv, OneAtATime, isRunning
<1>2. CASE ~QueueFull
  <2>1. Enqueue(event)
    BY <1>2 DEF EnqueueEvent
  <2> QED BY <1>2, <2>1, WorkEnqueued
<1> QED BY <1>1, <1>2

(* What leaves the queue and its run alone.                                *)
LEMMA ChannelUnchanged ==
    ASSUME ChannelInv, UNCHANGED <<queue, processing, underway>>, isRunning' = isRunning
    PROVE  ChannelInv'
BY DEF ChannelInv, OneAtATime

(* A message of a user is heard.                                           *)
LEMMA HeardKeeps ==
    ASSUME ChannelInv, NEW n, NEW kind, Hears(n, kind)
    PROVE  ChannelInv'
<1>1. CASE UNCHANGED queueVars
  BY <1>1, ChannelUnchanged DEF queueVars, isRunning
<1>2. CASE ~isRunning /\ Enqueue(Post(n))
  BY <1>2, WorkEnqueued
<1>3. CASE HandleStop
  <2>1. UNCHANGED <<queue, processing, underway>> /\ phase' = IF phase = "prompting" THEN "aborting" ELSE phase
    BY <1>3 DEF HandleStop
  <2>2. isRunning' = isRunning
    BY <2>1 DEF isRunning
  <2> QED BY <2>1, <2>2, ChannelUnchanged
<1> QED BY <1>1, <1>2, <1>3 DEF Hears

(* The end of a run starts the next work.                                  *)
LEMMA CloseKeeps ==
    ASSUME ChannelInv, CloseRun
    PROVE  ChannelInv'
<1>1. isRunning /\ underway = 1 /\ processing
  BY DEF CloseRun, isRunning, ChannelInv, OneAtATime
<1>2. CASE queue # <<>>
  <2>1. processing' = TRUE /\ queue' = Tail(queue) /\ phase' = "opening" /\ UNCHANGED underway
    BY <1>2 DEF CloseRun, BeginWork
  <2>2. IsSequence(queue') /\ Len(queue') = Len(queue) - 1 /\ Len(queue) \in Nat
    BY <1>2, <2>1, TailOfSequence DEF ChannelInv
  <2> QED BY <1>1, <2>1, <2>2, LimitIsNat DEF ChannelInv, OneAtATime, isRunning
<1>3. CASE queue = <<>>
  <2>1. processing' = FALSE /\ phase' = "idle" /\ underway' = underway - 1 /\ UNCHANGED queue
    BY <1>3 DEF CloseRun
  <2>2. underway' = 0 /\ ~isRunning'
    BY <1>1, <2>1 DEF isRunning
  <2>3. ~(queue' # <<>>)
    BY <1>3, <2>1
  <2>4. Len(queue') <= MaxQueue' /\ IsSequence(queue')
    BY <2>1 DEF ChannelInv, OneAtATime
  <2>5. OneAtATime'
    BY <2>1, <2>2, <2>3, <2>4 DEF OneAtATime
  <2> QED BY <2>1, <2>4, <2>5 DEF ChannelInv
<1> QED BY <1>2, <1>3

(* A step of the channel.                                                  *)
LEMMA MomStepKeeps ==
    ASSUME ChannelInv, MomStep
    PROVE  ChannelInv'
<1>1. CASE (\E kind \in UserKinds : Say(kind)) \/ (\E n \in unheard : Redeliver(n))
  <2>1. \E n, kind : Hears(n, kind)
    BY <1>1 DEF Say, Redeliver
  <2> QED BY <2>1, HeardKeeps
<1>2. CASE StartStep \/ BackfillFails \/ \E kind \in UserKinds : SayUnheard(kind)
  <2>1. UNCHANGED queueVars
    BY <1>2 DEF StartStep, BackfillBegins, BackfillEnds, Connect, Started, BackfillFails, SayUnheard
  <2> QED BY <2>1, ChannelUnchanged DEF isRunning, queueVars
<1>3. CASE Announce \/ SyncLog \/ PromptStarts \/ PromptEnds \/ RunThrows \/ AnswerPersisted \/ Respond
  <2>1. UNCHANGED RunVars /\ phase # "idle" /\ phase' # "idle"
    BY <1>3 DEF Announce, SyncLog, PromptStarts, PromptEnds, RunThrows, AnswerPersisted, Respond, At, Prompting
  <2> QED BY <2>1, ChannelUnchanged DEF isRunning, RunVars
<1>4. CASE CloseRun
  BY <1>4, CloseKeeps
<1> QED BY <1>1, <1>2, <1>3, <1>4 DEF MomStep, RunStep

(* The process ends: nothing is queued, processed or run.                  *)
LEMMA DeathKeeps ==
    ASSUME MomDies
    PROVE  ChannelInv'
<1>1. IsSequence(queue') /\ Len(queue') = 0
  BY EmptySequence DEF MomDies
<1>2. /\ underway' = 0 /\ ~isRunning' /\ processing' = FALSE
      /\ ~(queue' # <<>>)
  BY DEF MomDies, isRunning
<1>3. OneAtATime'
  BY <1>1, <1>2, LimitIsNat DEF OneAtATime
<1> QED BY <1>1, <1>2, <1>3 DEF ChannelInv

(* A step of the watcher adds an event or leaves the queue alone.          *)
LEMMA WatcherQueues ==
    ASSUME ChannelInv,
           \/ \E f \in Files : (\E kind \in Kinds : WriteEvent(f, kind)) \/ RemoveEvent(f) \/ NoticedAgain(f)
                                 \/ HandleFileChange(f)
           \/ \E r \in reading : ReadFile(r)
           \/ \E a \in armed : TimerFires(a) \/ CronFires(a)
           \/ TimePasses \/ BotStarts
    PROVE  ChannelInv'
<1>1. UNCHANGED queueVars \/ \E event : EnqueueEvent(event)
  <2>1. ASSUME NEW r \in reading, ReadFile(r)
        PROVE  UNCHANGED queueVars \/ \E event : EnqueueEvent(event)
    BY <2>1 DEF ReadFile, ReadFails, ReadsImmediate, ReadsOneShot, ReadsPeriodic, NotExecuted, Execute
  <2>2. ASSUME NEW a \in armed, TimerFires(a) \/ CronFires(a)
        PROVE  \E event : EnqueueEvent(event)
    BY <2>2 DEF TimerFires, CronFires, Execute
  <2>3. ASSUME UNCHANGED momVars PROVE UNCHANGED queueVars
    BY <2>3 DEF momVars, queueVars
  <2>4. CASE TimePasses \/ \E f \in Files : (\E kind \in Kinds : WriteEvent(f, kind)) \/ RemoveEvent(f)
                                              \/ NoticedAgain(f) \/ HandleFileChange(f)
    BY <2>3, <2>4 DEF TimePasses, WriteEvent, RemoveEvent, NoticedAgain, HandleFileChange
  <2>5. CASE BotStarts
    BY <2>5 DEF BotStarts, MomStarts
  <2> QED BY <2>1, <2>2, <2>4, <2>5
<1>2. CASE UNCHANGED queueVars
  BY <1>2, ChannelUnchanged DEF queueVars, isRunning
<1> QED BY <1>1, <1>2, EventEnqueued

(* One work of a channel is done after the other, and no more wait than    *)
(* the limit allows, whatever users say, events do and the process does:   *)
(* ChannelQueue and SlackBot of slack.ts, handleEvent of main.ts.          *)
THEOREM OneAtATimeHolds == WatcherSpec => []OneAtATime
<1>1. WatcherInit => ChannelInv
  BY ChannelInit DEF WatcherInit
<1>2. ChannelInv /\ [WatcherNext]_<<momVars, watcherVars>> => ChannelInv'
  <2>1. SUFFICES ASSUME ChannelInv, [WatcherNext]_<<momVars, watcherVars>> PROVE ChannelInv'
    OBVIOUS
  <2>2. CASE MomStep
    BY <2>1, <2>2, MomStepKeeps
  <2>3. CASE BotDies
    BY <2>3, DeathKeeps DEF BotDies
  <2>4. CASE UNCHANGED <<momVars, watcherVars>>
    BY <2>1, <2>4, ChannelUnchanged DEF momVars, queueVars, isRunning
  <2> QED BY <2>1, <2>2, <2>3, <2>4, WatcherQueues DEF WatcherNext
<1>3. ChannelInv => OneAtATime
  BY DEF ChannelInv
<1> QED BY <1>1, <1>2, <1>3, PTL DEF WatcherSpec
---------------------------------------------------------------------------
(* The watcher.  The events there were before the n-th write.              *)
EventsUpTo(n) == [id : 1 .. n, kind : Kinds] \ {NoEvent}
Events == EventsUpTo(written)

WatcherTypeOK ==
    /\ written \in Nat /\ startTime \in Nat /\ reads \in Nat
    /\ disk \in [Files -> Events \cup {NoEvent}]
    /\ changed \subseteq Files
    /\ reading \subseteq [n : Nat, file : Files, tries : Nat]
    /\ timers \in [Files -> Nat] /\ crons \in [Files -> Nat]
    /\ armed \subseteq [n : Nat, file : Files, event : Events]
    /\ executed \in Seq(Events)

(* The calls and timers are those of the process.                          *)
DownIsQuiet == bot = "down" => changed = {} /\ reading = {} /\ armed = {}

(* A file is read by one call, and has a timer only when it is not read.   *)
OneReader ==
    /\ \A r, s \in reading : r.file = s.file => r = s
    /\ \A r \in reading, a \in armed : r.file # a.file

(* A file has one timer, which the next change will find and cancel.       *)
OneTimer ==
    /\ \A a, b \in armed : a.file = b.file => a = b
    /\ \A a \in armed : a.file \in known /\ Slot(a) = a.n
    /\ \A a \in armed : a.file \in changed \/ disk[a.file] = a.event

(* An event belongs to one file.                                           *)
OneFile ==
    /\ \A f, g \in Files : disk[f] # NoEvent /\ disk[f] = disk[g] => f = g
    /\ \A a \in armed, f \in Files : disk[f] = a.event => f = a.file
    /\ \A a, b \in armed : a.event = b.event => a = b

(* What has been executed is gone, unless it is periodic.                  *)
ExecutedIsGone ==
    \A i \in DOMAIN executed : executed[i].kind # "periodic" =>
        /\ \A f \in Files : disk[f] # executed[i]
        /\ \A a \in armed : a.event # executed[i]

WatcherBase == WatcherTypeOK /\ DownIsQuiet
WatcherInv ==
    /\ WatcherTypeOK /\ DownIsQuiet /\ OneReader /\ OneTimer /\ OneFile /\ ExecutedIsGone /\ ExecutedOnce

(* Before the bot starts there are no files, timers or reads.              *)
LEMMA WatcherInitInv == WatcherInit => WatcherInv
<1>1. SUFFICES ASSUME WatcherInit PROVE WatcherInv
  OBVIOUS
<1>2. /\ \A f \in Files : disk[f] = NoEvent
      /\ reading = {} /\ armed = {} /\ DOMAIN executed = {}
  BY <1>1 DEF WatcherInit
<1>3. executed \in Seq(Events)
  <2>1. executed = <<>>
    BY <1>1 DEF WatcherInit
  <2> QED BY <2>1
<1>4. WatcherTypeOK
  BY <1>1, <1>3 DEF WatcherInit, WatcherTypeOK
<1>5. DownIsQuiet
  BY <1>1 DEF WatcherInit, MomInit, DownIsQuiet
<1> QED BY <1>2, <1>4, <1>5 DEF WatcherInv, OneReader, OneTimer, OneFile, ExecutedIsGone, ExecutedOnce

(* Later there may be more events, never fewer.                            *)
LEMMA EventsGrow ==
    ASSUME NEW m \in Nat, NEW n \in Nat, m <= n
    PROVE  EventsUpTo(m) \subseteq EventsUpTo(n)
BY DEF EventsUpTo

(* A step that is none of the watcher's and does not end the bot.          *)
LEMMA WatcherUnchanged ==
    ASSUME WatcherInv, UNCHANGED watcherVars, bot' = "down" => bot = "down"
    PROVE  WatcherInv'
BY DEF WatcherInv, watcherVars, worldVars, callVars, scheduleVars, historyVars, WatcherTypeOK, DownIsQuiet, OneReader,
       OneTimer, Slot, OneFile, ExecutedIsGone, ExecutedOnce, Events, EventsUpTo

(* A program writes an event file: a new event, noticed while the bot runs.*)
LEMMA WriteKeeps ==
    ASSUME WatcherInv, NEW f \in Files, NEW kind \in Kinds, WriteEvent(f, kind)
    PROVE  WatcherInv'
<1> DEFINE new == [id |-> written + 1, kind |-> kind]
<1>1. /\ written' = written + 1 /\ disk' = [disk EXCEPT ![f] = new]
      /\ changed' = IF bot # "down" THEN changed \cup {f} ELSE changed
      /\ UNCHANGED <<startTime, reading, reads, known, timers, crons, armed, executed, bot>>
  BY DEF WriteEvent, Noticed, Running, momVars, botVars, callVars, scheduleVars
<1>2. written \in Nat /\ written' \in Nat /\ Events \subseteq Events'
  BY <1>1, EventsGrow DEF WatcherInv, WatcherTypeOK, Events
<1>3. new \notin Events /\ new \in Events' \cup {NoEvent}
  BY <1>1, <1>2 DEF Events, EventsUpTo
<1>4. /\ \A a \in armed : a.event \in Events /\ a.file \in Files
      /\ \A i \in DOMAIN executed : executed[i] \in Events
      /\ \A g \in Files : disk[g] \in Events \cup {NoEvent}
      /\ NoEvent \notin Events
  BY DEF WatcherInv, WatcherTypeOK, Events, EventsUpTo
<1>5. disk'[f] = new /\ \A g \in Files : g # f => disk'[g] = disk[g]
  BY <1>1 DEF WatcherInv, WatcherTypeOK
<1> HIDE DEF new
<1>6. WatcherTypeOK'
  BY <1>1, <1>2, <1>3, <1>4 DEF WatcherInv, WatcherTypeOK
<1>7. DownIsQuiet'
  BY <1>1 DEF WatcherInv, DownIsQuiet
<1>8. OneReader'
  BY <1>1 DEF WatcherInv, OneReader
<1>9. OneTimer'
  BY <1>1, <1>4, <1>5 DEF WatcherInv, OneTimer, DownIsQuiet, Slot
<1>10. OneFile'
  <2>1. \A g, h \in Files : disk'[g] # NoEvent /\ disk'[g] = disk'[h] => g = h
    BY <1>3, <1>4, <1>5 DEF WatcherInv, OneFile
  <2>2. \A a \in armed, g \in Files : disk'[g] = a.event => g = a.file
    BY <1>3, <1>4, <1>5 DEF WatcherInv, OneFile
  <2> QED BY <1>1, <2>1, <2>2 DEF WatcherInv, OneFile
<1>11. ExecutedIsGone'
  BY <1>1, <1>3, <1>4, <1>5 DEF WatcherInv, ExecutedIsGone
<1>12. ExecutedOnce'
  BY <1>1 DEF WatcherInv, ExecutedOnce
<1> QED BY <1>6, <1>7, <1>8, <1>9, <1>10, <1>11, <1>12 DEF WatcherInv

(* A program removes a file, or the file system reports a change again.    *)
LEMMA RemoveKeeps ==
    ASSUME WatcherInv, NEW f \in Files, RemoveEvent(f) \/ NoticedAgain(f)
    PROVE  WatcherInv'
<1>1. /\ written' \in {written, written + 1}
      /\ changed' = IF bot # "down" THEN changed \cup {f} ELSE changed
      /\ UNCHANGED <<startTime, reading, reads, known, timers, crons, armed, executed, bot>>
  BY DEF RemoveEvent, NoticedAgain, Noticed, Running, worldVars, momVars, botVars, callVars, scheduleVars
<1>2. /\ disk' \in [Files -> Events \cup {NoEvent}]
      /\ \A g \in Files : disk'[g] = disk[g] \/ (g = f /\ disk'[g] = NoEvent)
  BY DEF WatcherInv, WatcherTypeOK, RemoveEvent, NoticedAgain
<1>3. written \in Nat /\ written' \in Nat /\ Events \subseteq Events'
  BY <1>1, EventsGrow DEF WatcherInv, WatcherTypeOK, Events
<1>4. /\ \A a \in armed : a.event \in Events /\ a.file \in Files
      /\ \A i \in DOMAIN executed : executed[i] \in Events
      /\ NoEvent \notin Events
  BY DEF WatcherInv, WatcherTypeOK, Events, EventsUpTo
<1>5. WatcherTypeOK'
  BY <1>1, <1>2, <1>3 DEF WatcherInv, WatcherTypeOK
<1>6. DownIsQuiet'
  BY <1>1 DEF WatcherInv, DownIsQuiet
<1>7. OneReader'
  BY <1>1 DEF WatcherInv, OneReader
<1>8. OneTimer'
  BY <1>1, <1>2, <1>4 DEF WatcherInv, OneTimer, DownIsQuiet, Slot
<1>9. OneFile'
  <2>1. \A g, h \in Files : disk'[g] # NoEvent /\ disk'[g] = disk'[h] => g = h
    BY <1>2 DEF WatcherInv, OneFile
  <2>2. \A a \in armed, g \in Files : disk'[g] = a.event => g = a.file
    BY <1>2, <1>4 DEF WatcherInv, OneFile
  <2> QED BY <1>1, <2>1, <2>2 DEF WatcherInv, OneFile
<1>10. ExecutedIsGone'
  BY <1>1, <1>2, <1>4 DEF WatcherInv, ExecutedIsGone
<1>11. ExecutedOnce'
  BY <1>1 DEF WatcherInv, ExecutedOnce
<1> QED BY <1>5, <1>6, <1>7, <1>8, <1>9, <1>10, <1>11 DEF WatcherInv

(* A change is handled: the timer of the file is cancelled, and the file   *)
(* is read if it is there and no call reads it.                            *)
LEMMA HandleKeeps ==
    ASSUME WatcherInv, ~overlapped', NEW f \in Files, HandleFileChange(f)
    PROVE  WatcherInv'
<1>1. /\ f \in changed /\ changed' = changed \ {f}
      /\ UNCHANGED <<disk, written, startTime, executed, bot>>
  BY DEF HandleFileChange, worldVars, momVars, botVars
<1>2. /\ armed' \subseteq armed /\ (\A a \in armed' : a.file # f)
      /\ timers' \in [Files -> Nat] /\ crons' \in [Files -> Nat]
      /\ \A g \in Files : g # f => timers'[g] = timers[g] /\ crons'[g] = crons[g]
  <2>1. CASE f \in known
    <3>1. /\ armed' = {a \in armed : a.n \notin {timers[f], crons[f]}}
          /\ timers' = [timers EXCEPT ![f] = 0] /\ crons' = [crons EXCEPT ![f] = 0]
      BY <2>1 DEF HandleFileChange, CancelScheduled, StillArmed
    <3>2. \A a \in armed' : a.file # f
      BY <3>1 DEF WatcherInv, OneTimer, Slot
    <3> QED BY <3>1, <3>2 DEF WatcherInv, WatcherTypeOK
  <2>2. CASE f \notin known
    BY <2>2 DEF HandleFileChange, scheduleVars, WatcherInv, WatcherTypeOK, OneTimer
  <2> QED BY <2>1, <2>2
<1>3. \A g \in Files : g # f => (g \in known' <=> g \in known)
  BY DEF HandleFileChange
<1>4. /\ reading' \subseteq [n : Nat, file : Files, tries : Nat] /\ reads' \in Nat
      /\ \A r \in reading' :
           r \in reading \/ (r = [n |-> reads + 1, file |-> f, tries |-> 1] /\ \A s \in reading : s.file # f)
  <2>1. reading \subseteq [n : Nat, file : Files, tries : Nat] /\ reads \in Nat
    BY DEF WatcherInv, WatcherTypeOK
  <2>2. CASE UNCHANGED <<reading, reads>>
    BY <2>1, <2>2
  <2>3. CASE StartReading(f)
    <3>1. ~BeingRead(f)
      BY <2>3, Zenon DEF StartReading
    <3>2. reads' = reads + 1 /\ reading' = reading \cup {[n |-> reads + 1, file |-> f, tries |-> 1]}
      BY <2>3 DEF StartReading
    <3> QED BY <2>1, <3>1, <3>2 DEF BeingRead
  <2> QED BY <2>2, <2>3 DEF HandleFileChange
<1>5. \A a \in armed : a.file \in Files
  BY DEF WatcherInv, WatcherTypeOK
<1>6. WatcherTypeOK'
  <2>1. armed' \subseteq [n : Nat, file : Files, event : Events']
    BY <1>1, <1>2 DEF WatcherInv, WatcherTypeOK, Events, EventsUpTo
  <2> QED BY <1>1, <1>2, <1>4, <2>1 DEF WatcherInv, WatcherTypeOK, Events, EventsUpTo
<1>7. DownIsQuiet'
  BY <1>1 DEF WatcherInv, DownIsQuiet
<1>8. OneReader'
  <2>1. \A r, s \in reading' : r.file = s.file => r = s
    BY <1>1, <1>4 DEF WatcherInv, OneReader
  <2>2. \A r \in reading', a \in armed' : r.file # a.file
    BY <1>2, <1>4 DEF WatcherInv, OneReader
  <2> QED BY <2>1, <2>2 DEF OneReader
<1>9. OneTimer'
  BY <1>1, <1>2, <1>3, <1>5 DEF WatcherInv, OneTimer, Slot
<1>10. OneFile' /\ ExecutedIsGone' /\ ExecutedOnce'
  BY <1>1, <1>2 DEF WatcherInv, OneFile, ExecutedIsGone, ExecutedOnce
<1> QED BY <1>6, <1>7, <1>8, <1>9, <1>10 DEF WatcherInv

(* An event is executed for the last time: it is on no disk and in no      *)
(* timer any more.                                                         *)
LEMMA OnceMore ==
    ASSUME WatcherInv, NEW event \in Events, executed' = Append(executed, event),
           \A i \in DOMAIN executed : executed[i] = event => event.kind = "periodic",
           armed' \subseteq armed, \A f \in Files : disk'[f] \in {disk[f], NoEvent},
           event.kind # "periodic" =>
             (\A f \in Files : disk'[f] # event) /\ (\A a \in armed' : a.event # event)
    PROVE  executed' \in Seq(Events) /\ ExecutedIsGone' /\ ExecutedOnce'
<1>1. /\ executed \in Seq(Events)
      /\ executed' \in Seq(Events) /\ Len(executed') = Len(executed) + 1 /\ Len(executed) \in Nat
      /\ executed'[Len(executed) + 1] = event
      /\ \A i \in DOMAIN executed : executed'[i] = executed[i]
      /\ DOMAIN executed' = DOMAIN executed \cup {Len(executed) + 1}
  BY DEF WatcherInv, WatcherTypeOK
<1>2. NoEvent \notin Events /\ (\A i \in DOMAIN executed : executed[i] \in Events)
  BY <1>1 DEF Events, EventsUpTo
<1>3. ExecutedIsGone'
  BY <1>1, <1>2 DEF WatcherInv, ExecutedIsGone
<1>4. ExecutedOnce'
  BY <1>1 DEF WatcherInv, ExecutedOnce
<1> QED BY <1>1, <1>3, <1>4

(* What a call of handleFile may do to its file: retry, delete it, or set  *)
(* its timer.                                                              *)
LEMMA ReadEffect ==
    ASSUME WatcherTypeOK, NEW r \in reading, ReadFile(r)
    PROVE  /\ UNCHANGED <<written, startTime, reads, bot>>
           /\ \A f \in Files : f # r.file => disk'[f] = disk[f] /\ (f \in known' <=> f \in known)
           /\ disk'[r.file] \in {disk[r.file], NoEvent} /\ disk' \in [Files -> Events \cup {NoEvent}]
           /\ changed \subseteq changed' /\ changed' \subseteq changed \cup {r.file}
           /\ \/ /\ reading' = (reading \ {r}) \cup {[r EXCEPT !.tries = @ + 1]}
                 /\ UNCHANGED <<disk, known, changed, armed, timers, crons, executed>>
              \/ /\ reading' = reading \ {r}
                 /\ UNCHANGED <<armed, timers, crons>>
                 /\ disk'[r.file] = NoEvent
                 /\ \/ UNCHANGED executed
                    \/ disk[r.file] \in Events /\ Execute(disk[r.file])
              \/ /\ reading' = reading \ {r} /\ UNCHANGED <<disk, changed, executed>>
                 /\ disk[r.file] \in Events /\ r.file \in known'
                 /\ Armed(r, disk[r.file])
                 /\ \/ disk[r.file].kind # "periodic" /\ timers' = [timers EXCEPT ![r.file] = r.n] /\ UNCHANGED crons
                    \/ disk[r.file].kind = "periodic" /\ crons' = [crons EXCEPT ![r.file] = r.n] /\ UNCHANGED timers
<1>1. r.file \in Files /\ disk \in [Files -> Events \cup {NoEvent}] /\ changed \subseteq Files
  BY DEF WatcherTypeOK
<1>2. UNCHANGED <<written, startTime, reads, bot>>
  BY DEF ReadFile, worldVars, botVars
<1>3. CASE ReadFails(r)
  <2>1. CASE r.tries < Retries
    BY <1>1, <1>2, <1>3, <2>1 DEF ReadFails, scheduleVars, NotExecuted
  <2>2. CASE ~(r.tries < Retries)
    BY <1>1, <1>2, <1>3, <2>2 DEF ReadFails, scheduleVars, NotExecuted, DeleteFile
  <2> QED BY <2>1, <2>2
<1>4. CASE disk[r.file] # NoEvent /\ ReadsImmediate(r, disk[r.file])
  <2>1. disk[r.file] \in Events
    BY <1>1, <1>4
  <2>2. /\ reading' = reading \ {r} /\ UNCHANGED <<armed, timers, crons>>
        /\ DeleteFile(r.file)
        /\ UNCHANGED executed \/ Execute(disk[r.file])
    BY <1>4 DEF ReadsImmediate, scheduleVars, NotExecuted
  <2> QED BY <1>1, <1>2, <2>1, <2>2 DEF DeleteFile
<1>5. CASE disk[r.file] # NoEvent /\ (ReadsOneShot(r, disk[r.file]) \/ ReadsPeriodic(r, disk[r.file]))
  <2>1. disk[r.file] \in Events
    BY <1>1, <1>5
  <2>2. reading' = reading \ {r} /\ UNCHANGED executed
    BY <1>5 DEF ReadsOneShot, ReadsPeriodic, NotExecuted
  <2>3. CASE DeleteFile(r.file) /\ UNCHANGED scheduleVars
    BY <1>1, <1>2, <2>1, <2>2, <2>3 DEF DeleteFile, scheduleVars
  <2>4. CASE /\ Keep(r.file) /\ Armed(r, disk[r.file]) /\ disk[r.file].kind # "periodic"
             /\ timers' = [timers EXCEPT ![r.file] = r.n] /\ UNCHANGED crons
    BY <1>1, <1>2, <2>1, <2>2, <2>4 DEF Keep
  <2>5. CASE /\ Keep(r.file) /\ Armed(r, disk[r.file]) /\ disk[r.file].kind = "periodic"
             /\ crons' = [crons EXCEPT ![r.file] = r.n] /\ UNCHANGED timers
    BY <1>1, <1>2, <2>1, <2>2, <2>5 DEF Keep
  <2> QED BY <1>5, <2>3, <2>4, <2>5 DEF ReadsOneShot, ReadsPeriodic
<1> QED BY <1>3, <1>4, <1>5 DEF ReadFile

(* A call of handleFile goes on.                                           *)
LEMMA ReadKeeps ==
    ASSUME WatcherInv, NEW r \in reading, ReadFile(r)
    PROVE  WatcherInv'
<1> DEFINE f == r.file
<1>1. /\ f \in Files /\ r \in [n : Nat, file : Files, tries : Nat]
      /\ \A a \in armed : a.file \in Files /\ a.event \in Events /\ a.file # f
      /\ \A s \in reading : s.file = f => s = r
      /\ NoEvent \notin Events /\ disk \in [Files -> Events \cup {NoEvent}]
  BY DEF WatcherInv, WatcherTypeOK, Events, EventsUpTo, OneReader
<1>2. /\ UNCHANGED <<written, startTime, reads, bot>>
      /\ \A g \in Files : g # f => disk'[g] = disk[g] /\ (g \in known' <=> g \in known)
      /\ disk'[f] \in {disk[f], NoEvent} /\ disk' \in [Files -> Events \cup {NoEvent}]
      /\ changed \subseteq changed' /\ changed' \subseteq changed \cup {f}
  BY ReadEffect DEF WatcherInv
<1>3. Events' = Events
  BY <1>2 DEF Events
<1>4. bot # "down"
  BY DEF WatcherInv, DownIsQuiet
<1>5. DownIsQuiet'
  BY <1>2, <1>4 DEF DownIsQuiet
<1>6. \A g, h \in Files : disk'[g] # NoEvent /\ disk'[g] = disk'[h] => g = h
  BY <1>2 DEF WatcherInv, OneFile
<1>7. changed' \subseteq Files /\ written' \in Nat /\ startTime' \in Nat /\ reads' \in Nat
  BY <1>1, <1>2 DEF WatcherInv, WatcherTypeOK
<1>8. CASE /\ reading' = (reading \ {r}) \cup {[r EXCEPT !.tries = @ + 1]}
           /\ UNCHANGED <<disk, known, changed, armed, timers, crons, executed>>
  <2> DEFINE again == [r EXCEPT !.tries = @ + 1]
  <2>1. again \in [n : Nat, file : Files, tries : Nat] /\ again.file = f
    BY <1>1
  <2> HIDE DEF again
  <2>2. WatcherTypeOK'
    BY <1>2, <1>3, <1>7, <1>8, <2>1 DEF WatcherInv, WatcherTypeOK, again
  <2>3. \A s \in reading' : s = again \/ (s \in reading /\ s.file # f)
    BY <1>1, <1>8 DEF again
  <2>4. OneReader'
    <3>1. \A s, t \in reading' : s.file = t.file => s = t
      BY <2>1, <2>3 DEF WatcherInv, OneReader
    <3>2. \A s \in reading', a \in armed' : s.file # a.file
      BY <1>1, <1>8, <2>1, <2>3 DEF WatcherInv, OneReader
    <3> QED BY <3>1, <3>2 DEF OneReader
  <2>5. OneTimer' /\ OneFile' /\ ExecutedIsGone' /\ ExecutedOnce'
    BY <1>8 DEF WatcherInv, OneTimer, Slot, OneFile, ExecutedIsGone, ExecutedOnce
  <2> QED BY <1>5, <2>2, <2>4, <2>5 DEF WatcherInv
<1>9. CASE /\ reading' = reading \ {r} /\ UNCHANGED <<armed, timers, crons>>
           /\ disk'[f] = NoEvent
           /\ \/ UNCHANGED executed
              \/ disk[f] \in Events /\ Execute(disk[f])
  <2>1. OneReader'
    BY <1>9 DEF WatcherInv, OneReader
  <2>2. OneTimer'
    BY <1>1, <1>2, <1>9 DEF WatcherInv, OneTimer, Slot
  <2>3. OneFile'
    <3>1. \A a \in armed, g \in Files : disk'[g] = a.event => g = a.file
      BY <1>1, <1>2, <1>9 DEF WatcherInv, OneFile
    <3> QED BY <1>6, <1>9, <3>1 DEF WatcherInv, OneFile
  <2>4. executed' \in Seq(Events) /\ ExecutedIsGone' /\ ExecutedOnce'
    <3>1. CASE UNCHANGED executed
      <4>1. executed \in Seq(Events) /\ \A i \in DOMAIN executed : executed[i] \in Events
        BY DEF WatcherInv, WatcherTypeOK
      <4> QED BY <1>1, <1>2, <1>9, <3>1, <4>1 DEF WatcherInv, ExecutedIsGone, ExecutedOnce
    <3>2. CASE disk[f] \in Events /\ executed' = Append(executed, disk[f])
      <4>1. \A i \in DOMAIN executed : executed[i] = disk[f] => disk[f].kind = "periodic"
        BY <1>1 DEF WatcherInv, ExecutedIsGone
      <4>2. (\A g \in Files : disk'[g] # disk[f]) /\ (\A a \in armed' : a.event # disk[f])
        BY <1>1, <1>2, <1>9, <3>2 DEF WatcherInv, OneFile
      <4>3. \A g \in Files : disk'[g] \in {disk[g], NoEvent}
        BY <1>2
      <4> QED BY <1>9, <3>2, <4>1, <4>2, <4>3, OnceMore
    <3> QED BY <1>9, <3>1, <3>2 DEF Execute
  <2>5. WatcherTypeOK'
    BY <1>2, <1>3, <1>7, <1>9, <2>4 DEF WatcherInv, WatcherTypeOK
  <2> QED BY <1>5, <2>1, <2>2, <2>3, <2>4, <2>5 DEF WatcherInv
<1>10. CASE /\ reading' = reading \ {r} /\ UNCHANGED <<disk, changed, executed>>
            /\ disk[f] \in Events /\ f \in known'
            /\ Armed(r, disk[f])
            /\ \/ disk[f].kind # "periodic" /\ timers' = [timers EXCEPT ![f] = r.n] /\ UNCHANGED crons
               \/ disk[f].kind = "periodic" /\ crons' = [crons EXCEPT ![f] = r.n] /\ UNCHANGED timers
  <2> DEFINE new == [n |-> r.n, file |-> f, event |-> disk[f]]
  <2>1. armed' = armed \cup {new}
    BY <1>10 DEF Armed
  <2>2. new \in [n : Nat, file : Files, event : Events] /\ new.file = f /\ new.event = disk[f] /\ new.n = r.n
    BY <1>1, <1>10
  <2> HIDE DEF new
  <2>3. /\ timers' \in [Files -> Nat] /\ crons' \in [Files -> Nat]
        /\ (IF new.event.kind = "periodic" THEN crons'[f] ELSE timers'[f]) = r.n
        /\ \A g \in Files : g # f => timers'[g] = timers[g] /\ crons'[g] = crons[g]
    BY <1>1, <1>10, <2>2 DEF WatcherInv, WatcherTypeOK
  <2>4. WatcherTypeOK'
    BY <1>2, <1>3, <1>7, <1>10, <2>1, <2>2, <2>3 DEF WatcherInv, WatcherTypeOK
  <2>5. OneReader'
    <3>1. \A s \in reading' : s \in reading /\ s.file # f
      BY <1>1, <1>10
    <3> QED BY <2>1, <2>2, <3>1 DEF WatcherInv, OneReader
  <2>6. OneTimer'
    <3>1. \A a, b \in armed' : a.file = b.file => a = b
      BY <1>1, <2>1, <2>2 DEF WatcherInv, OneTimer
    <3>2. \A a \in armed' : a.file \in known' /\ Slot(a)' = a.n
      BY <1>1, <1>2, <1>10, <2>1, <2>2, <2>3 DEF WatcherInv, OneTimer, Slot
    <3>3. \A a \in armed' : a.file \in changed' \/ disk'[a.file] = a.event
      BY <1>10, <2>1, <2>2 DEF WatcherInv, OneTimer
    <3> QED BY <3>1, <3>2, <3>3 DEF OneTimer
  <2>7. OneFile'
    <3>1. \A a \in armed', g \in Files : disk'[g] = a.event => g = a.file
      BY <1>1, <1>10, <2>1, <2>2 DEF WatcherInv, OneFile
    <3>2. \A a \in armed : a.event # disk[f]
      BY <1>1 DEF WatcherInv, OneFile
    <3>3. \A a, b \in armed' : a.event = b.event => a = b
      BY <2>1, <2>2, <3>2 DEF WatcherInv, OneFile
    <3> QED BY <1>6, <3>1, <3>3 DEF OneFile
  <2>8. ExecutedIsGone' /\ ExecutedOnce'
    BY <1>1, <1>10, <2>1, <2>2 DEF WatcherInv, ExecutedIsGone, ExecutedOnce
  <2> QED BY <1>5, <2>4, <2>5, <2>6, <2>7, <2>8 DEF WatcherInv
<1> QED BY ReadEffect, <1>8, <1>9, <1>10 DEF WatcherInv

(* A timer executes its event and deletes the file.                        *)
LEMMA TimerKeeps ==
    ASSUME WatcherInv, NEW a \in armed, TimerFires(a)
    PROVE  WatcherInv'
<1> DEFINE f == a.file
<1>1. /\ f \in Files /\ a.event \in Events /\ NoEvent \notin Events
      /\ \A b \in armed : b.file \in Files /\ b.event \in Events
      /\ \A b \in armed : b # a => b.file # f /\ b.event # a.event
      /\ disk \in [Files -> Events \cup {NoEvent}] /\ changed \subseteq Files
  BY DEF WatcherInv, WatcherTypeOK, Events, EventsUpTo, OneTimer, OneFile
<1>2. /\ armed' = armed \ {a} /\ timers' = [timers EXCEPT ![f] = 0] /\ UNCHANGED crons
      /\ executed' = Append(executed, a.event)
      /\ disk' = [disk EXCEPT ![f] = NoEvent] /\ known' = known \ {f} /\ changed' \in {changed, changed \cup {f}}
      /\ UNCHANGED <<written, startTime, reading, reads, bot>>
  BY DEF TimerFires, Execute, DeleteFile, worldVars, botVars
<1>3. /\ disk' \in [Files -> Events \cup {NoEvent}] /\ disk'[f] = NoEvent
      /\ \A g \in Files : g # f => disk'[g] = disk[g]
      /\ timers' \in [Files -> Nat] /\ \A g \in Files : g # f => timers'[g] = timers[g]
  BY <1>1, <1>2 DEF WatcherInv, WatcherTypeOK
<1>4. Events' = Events
  BY <1>2 DEF Events
<1>5. executed' \in Seq(Events) /\ ExecutedIsGone' /\ ExecutedOnce'
  <2>1. \A i \in DOMAIN executed : executed[i] = a.event => a.event.kind = "periodic"
    BY DEF WatcherInv, ExecutedIsGone
  <2>2. \A g \in Files : disk'[g] # a.event
    BY <1>1, <1>3 DEF WatcherInv, OneFile
  <2>3. armed' \subseteq armed /\ \A b \in armed' : b.event # a.event
    BY <1>1, <1>2
  <2>4. \A g \in Files : disk'[g] \in {disk[g], NoEvent}
    BY <1>3
  <2> QED BY <1>1, <1>2, <2>1, <2>2, <2>3, <2>4, OnceMore
<1>6. WatcherTypeOK'
  <2>1. armed' \subseteq [n : Nat, file : Files, event : Events'] /\ changed' \subseteq Files
    BY <1>1, <1>2, <1>4 DEF WatcherInv, WatcherTypeOK
  <2> QED BY <1>2, <1>3, <1>4, <1>5, <2>1 DEF WatcherInv, WatcherTypeOK
<1>7. DownIsQuiet'
  BY <1>2 DEF WatcherInv, DownIsQuiet
<1>8. OneReader'
  BY <1>2 DEF WatcherInv, OneReader
<1>9. OneTimer'
  BY <1>1, <1>2, <1>3 DEF WatcherInv, OneTimer, Slot
<1>10. OneFile'
  BY <1>1, <1>2, <1>3 DEF WatcherInv, OneFile
<1> QED BY <1>5, <1>6, <1>7, <1>8, <1>9, <1>10 DEF WatcherInv

(* A cron job executes its event, which stays.                             *)
LEMMA CronKeeps ==
    ASSUME WatcherInv, NEW a \in armed, CronFires(a)
    PROVE  WatcherInv'
<1>1. /\ a.event \in Events /\ a.event.kind = "periodic"
      /\ executed' = Append(executed, a.event)
      /\ UNCHANGED <<written, startTime, bot, disk, changed, reading, reads, known, timers, crons, armed>>
  BY DEF CronFires, Execute, worldVars, botVars, callVars, scheduleVars, WatcherInv, WatcherTypeOK
<1>2. executed' \in Seq(Events) /\ ExecutedIsGone' /\ ExecutedOnce'
  BY <1>1, OnceMore
<1>3. Events' = Events
  BY <1>1 DEF Events
<1>4. WatcherTypeOK' /\ DownIsQuiet' /\ OneReader' /\ OneTimer' /\ OneFile'
  BY <1>1, <1>2, <1>3 DEF WatcherInv, WatcherTypeOK, DownIsQuiet, OneReader, OneTimer, Slot, OneFile
<1> QED BY <1>2, <1>4 DEF WatcherInv

(* The process ends.                                                       *)
LEMMA BotDiesKeeps ==
    ASSUME WatcherInv, BotDies
    PROVE  WatcherInv'
<1>1. /\ changed' = {} /\ reading' = {} /\ armed' = {}
      /\ timers' = [f \in Files |-> 0] /\ crons' = [f \in Files |-> 0]
      /\ UNCHANGED <<disk, written, startTime, reads, executed>>
  BY DEF BotDies, worldVars, historyVars
<1>2. Events' = Events
  BY <1>1 DEF Events
<1>3. WatcherTypeOK'
  BY <1>1, <1>2 DEF WatcherInv, WatcherTypeOK
<1>4. DownIsQuiet' /\ OneReader' /\ OneTimer'
  BY <1>1 DEF DownIsQuiet, OneReader, OneTimer
<1>5. OneFile' /\ ExecutedIsGone' /\ ExecutedOnce'
  BY <1>1 DEF WatcherInv, OneFile, ExecutedIsGone, ExecutedOnce
<1> QED BY <1>3, <1>4, <1>5 DEF WatcherInv

(* The process starts: each file that is there is read by one call.        *)
LEMMA BotStartsKeeps ==
    ASSUME WatcherInv, BotStarts
    PROVE  WatcherInv'
<1>1. /\ bot = "down" /\ bot' = "starting" /\ armed = {} /\ startTime' = written
      /\ reads' = reads + Cardinality(Existing)
      /\ UNCHANGED <<disk, written, changed, known, timers, crons, armed, executed>>
  BY DEF BotStarts, MomStarts, WatcherInv, DownIsQuiet, scheduleVars, historyVars
<1>2. PICK order \in SetToSeqs(Existing) :
        reading' = {[n |-> reads + i, file |-> order[i], tries |-> 1] : i \in DOMAIN order}
  BY DEF BotStarts
<1>3. Cardinality(Existing) \in Nat
  <2>1. Existing \subseteq Files
    BY DEF Existing
  <2> QED BY <2>1, WatcherAssumption, FS_Subset, FS_CardinalityType
<1>4. /\ order \in [1 .. Cardinality(Existing) -> Existing]
      /\ \A i, j \in 1 .. Cardinality(Existing) : i # j => order[i] # order[j]
  BY DEF SetToSeqs
<1>5. reads \in Nat /\ reads' \in Nat /\ Events' = Events
  BY <1>1, <1>3 DEF WatcherInv, WatcherTypeOK, Events
<1>6. reading' \subseteq [n : Nat, file : Files, tries : Nat]
  BY <1>2, <1>3, <1>4, <1>5 DEF Existing
<1>7. \A r, s \in reading' : r.file = s.file => r = s
  BY <1>2, <1>4
<1>8. WatcherTypeOK'
  BY <1>1, <1>5, <1>6 DEF WatcherInv, WatcherTypeOK
<1>9. DownIsQuiet' /\ OneReader' /\ OneTimer'
  BY <1>1, <1>7 DEF DownIsQuiet, OneReader, OneTimer
<1>10. OneFile' /\ ExecutedIsGone' /\ ExecutedOnce'
  BY <1>1 DEF WatcherInv, OneFile, ExecutedIsGone, ExecutedOnce
<1> QED BY <1>8, <1>9, <1>10 DEF WatcherInv

(* A step of the channel is none of the watcher's, and does not end it.    *)
LEMMA MomStepWatched ==
    ASSUME MomStep
    PROVE  bot' = "down" => bot = "down"
BY DEF MomStep, RunStep, StartStep, Say, SayUnheard, Redeliver, Announce, SyncLog, PromptStarts, PromptEnds, RunThrows,
       AnswerPersisted, Respond, CloseRun, BackfillBegins, BackfillEnds, BackfillFails, Connect, Started, RunVars, botVars

(* Whatever calls do to each other, the watcher's state has its types, and *)
(* nothing of it survives the process.                                     *)
LEMMA WatcherBaseKeeps ==
    ASSUME WatcherBase, [WatcherNext]_<<momVars, watcherVars>>
    PROVE  WatcherBase'
<1> USE DEF WatcherBase
<1>1. /\ WatcherTypeOK /\ written \in Nat /\ Events \subseteq EventsUpTo(written + 1) /\ NoEvent \notin Events
      /\ disk \in [Files -> Events \cup {NoEvent}] /\ executed \in Seq(Events)
      /\ armed \subseteq [n : Nat, file : Files, event : Events]
  BY EventsGrow DEF WatcherTypeOK, Events, EventsUpTo
<1>2. CASE (MomStep /\ UNCHANGED watcherVars) \/ TimePasses \/ UNCHANGED <<momVars, watcherVars>>
  <2>1. /\ UNCHANGED <<disk, written, startTime, changed, reading, reads, known, timers, crons, armed, executed>>
        /\ bot' = "down" => bot = "down"
    BY <1>2, MomStepWatched DEF TimePasses, watcherVars, worldVars, callVars, scheduleVars, historyVars, momVars, botVars
  <2> QED BY <2>1 DEF WatcherTypeOK, DownIsQuiet, Events, EventsUpTo
<1>3. ASSUME NEW f \in Files, NEW kind \in Kinds, WriteEvent(f, kind)
      PROVE  WatcherBase'
  <2>1. /\ written' = written + 1 /\ disk' = [disk EXCEPT ![f] = [id |-> written + 1, kind |-> kind]]
        /\ changed' = IF bot # "down" THEN changed \cup {f} ELSE changed
        /\ UNCHANGED <<startTime, reading, reads, timers, crons, armed, executed, bot>>
    BY <1>3 DEF WriteEvent, Noticed, Running, momVars, botVars, callVars, scheduleVars
  <2>2. Events' = EventsUpTo(written + 1)
    BY <2>1 DEF Events
  <2>3. disk' \in [Files -> Events' \cup {NoEvent}]
    BY <1>1, <2>1, <2>2 DEF EventsUpTo
  <2> QED BY <1>1, <2>1, <2>2, <2>3 DEF WatcherTypeOK, DownIsQuiet
<1>4. ASSUME NEW f \in Files, RemoveEvent(f) \/ NoticedAgain(f)
      PROVE  WatcherBase'
  <2>1. /\ written' \in {written, written + 1} /\ disk' \in [Files -> Events \cup {NoEvent}]
        /\ changed' = IF bot # "down" THEN changed \cup {f} ELSE changed
        /\ UNCHANGED <<startTime, reading, reads, timers, crons, armed, executed, bot>>
    BY <1>1, <1>4 DEF RemoveEvent, NoticedAgain, Noticed, Running, worldVars, momVars, botVars, callVars, scheduleVars
  <2>2. Events \subseteq Events'
    BY <1>1, <2>1 DEF Events
  <2> QED BY <1>1, <2>1, <2>2 DEF WatcherTypeOK, DownIsQuiet
<1>5. ASSUME NEW f \in Files, HandleFileChange(f)
      PROVE  WatcherBase'
  <2>1. /\ f \in changed /\ changed' = changed \ {f} /\ armed' \subseteq armed
        /\ timers' \in [Files -> Nat] /\ crons' \in [Files -> Nat]
        /\ UNCHANGED <<disk, written, startTime, executed, bot>>
    <3>1. /\ f \in changed /\ changed' = changed \ {f}
          /\ UNCHANGED <<disk, written, startTime, executed, bot>>
      BY <1>5 DEF HandleFileChange, worldVars, momVars, botVars
    <3>2. CASE f \in known
      <4>1. /\ armed' = StillArmed(f)
            /\ timers' = [timers EXCEPT ![f] = 0] /\ crons' = [crons EXCEPT ![f] = 0]
        BY <1>5, <3>2 DEF HandleFileChange, CancelScheduled
      <4>2. timers \in [Files -> Nat] /\ crons \in [Files -> Nat] /\ StillArmed(f) \subseteq armed
        BY <1>1 DEF WatcherTypeOK, StillArmed
      <4> QED BY <3>1, <4>1, <4>2
    <3>3. CASE f \notin known
      BY <1>1, <1>5, <3>1, <3>3 DEF HandleFileChange, scheduleVars, WatcherTypeOK
    <3> QED BY <3>2, <3>3
  <2>2. reads' \in Nat /\ reading' \subseteq [n : Nat, file : Files, tries : Nat]
    <3>1. reading \subseteq [n : Nat, file : Files, tries : Nat] /\ reads \in Nat
      BY <1>1 DEF WatcherTypeOK
    <3>2. \/ UNCHANGED <<reading, reads>>
          \/ reads' = reads + 1 /\ reading' = reading \cup {[n |-> reads + 1, file |-> f, tries |-> 1]}
      BY <1>5 DEF HandleFileChange, StartReading
    <3> QED BY <3>1, <3>2
  <2>3. Events' = Events
    BY <2>1 DEF Events
  <2> QED BY <1>1, <2>1, <2>2, <2>3 DEF WatcherTypeOK, DownIsQuiet
<1>6. ASSUME NEW r \in reading, ReadFile(r)
      PROVE  WatcherBase'
  <2>1. r \in [n : Nat, file : Files, tries : Nat] /\ bot # "down" /\ timers \in [Files -> Nat] /\ crons \in [Files -> Nat]
    BY <1>1 DEF WatcherTypeOK, DownIsQuiet
  <2>2. /\ UNCHANGED <<written, startTime, reads, bot>> /\ disk' \in [Files -> Events \cup {NoEvent}]
        /\ changed' \subseteq changed \cup {r.file}
    BY <1>1, <1>6, ReadEffect
  <2>3. reading' \subseteq [n : Nat, file : Files, tries : Nat]
    <3>1. \/ reading' = (reading \ {r}) \cup {[r EXCEPT !.tries = @ + 1]}
          \/ reading' = reading \ {r}
      BY <1>1, <1>6, ReadEffect
    <3>2. [r EXCEPT !.tries = @ + 1] \in [n : Nat, file : Files, tries : Nat]
      BY <2>1
    <3> QED BY <1>1, <3>1, <3>2 DEF WatcherTypeOK
  <2>4. executed' \in Seq(Events)
    <3>1. UNCHANGED executed \/ (disk[r.file] \in Events /\ executed' = Append(executed, disk[r.file]))
      BY <1>1, <1>6, ReadEffect DEF Execute
    <3> QED BY <1>1, <3>1
  <2>5. timers' \in [Files -> Nat] /\ crons' \in [Files -> Nat]
    <3>1. /\ timers' = timers \/ timers' = [timers EXCEPT ![r.file] = r.n]
          /\ crons' = crons \/ crons' = [crons EXCEPT ![r.file] = r.n]
      BY <1>1, <1>6, ReadEffect
    <3> QED BY <2>1, <3>1
  <2>6. armed' \subseteq [n : Nat, file : Files, event : Events]
    <3>1. \/ UNCHANGED armed
          \/ disk[r.file] \in Events /\ armed' = armed \cup {[n |-> r.n, file |-> r.file, event |-> disk[r.file]]}
      BY <1>1, <1>6, ReadEffect DEF Armed
    <3> QED BY <1>1, <2>1, <3>1
  <2>7. Events' = Events
    BY <2>2 DEF Events
  <2> QED BY <1>1, <2>1, <2>2, <2>3, <2>4, <2>5, <2>6, <2>7 DEF WatcherTypeOK, DownIsQuiet
<1>7. ASSUME NEW a \in armed, TimerFires(a) \/ CronFires(a)
      PROVE  WatcherBase'
  <2>1. /\ UNCHANGED <<written, startTime, reading, reads, crons, bot>> /\ executed' = Append(executed, a.event)
        /\ armed' \subseteq armed /\ changed' \subseteq changed \cup {a.file}
        /\ disk' \in {disk, [disk EXCEPT ![a.file] = NoEvent]} /\ timers' \in {timers, [timers EXCEPT ![a.file] = 0]}
    BY <1>7 DEF TimerFires, CronFires, Execute, DeleteFile, worldVars, botVars, callVars, scheduleVars
  <2>2. a.file \in Files /\ a.event \in Events
    BY <1>1
  <2>3. Events' = Events /\ executed' \in Seq(Events) /\ disk' \in [Files -> Events \cup {NoEvent}]
    BY <1>1, <2>1, <2>2 DEF Events
  <2>4. timers' \in [Files -> Nat] /\ changed' \subseteq Files
    BY <1>1, <2>1, <2>2 DEF WatcherTypeOK
  <2>5. WatcherTypeOK'
    BY <1>1, <2>1, <2>3, <2>4 DEF WatcherTypeOK
  <2>6. bot' # "down"
    BY <2>1 DEF DownIsQuiet
  <2> QED BY <2>5, <2>6 DEF DownIsQuiet
<1>8. CASE BotDies
  <2>1. /\ changed' = {} /\ reading' = {} /\ armed' = {}
        /\ timers' = [f \in Files |-> 0] /\ crons' = [f \in Files |-> 0]
        /\ UNCHANGED <<disk, written, startTime, reads, executed>>
    BY <1>8 DEF BotDies, worldVars, historyVars
  <2> QED BY <1>1, <2>1 DEF WatcherTypeOK, DownIsQuiet, Events
<1>9. CASE BotStarts
  <2>1. /\ bot' = "starting" /\ startTime' = written /\ reads' = reads + Cardinality(Existing)
        /\ UNCHANGED <<disk, written, changed, timers, crons, armed, executed>>
    BY <1>9 DEF BotStarts, MomStarts, scheduleVars, historyVars
  <2>2. PICK order \in SetToSeqs(Existing) :
          reading' = {[n |-> reads + i, file |-> order[i], tries |-> 1] : i \in DOMAIN order}
    BY <1>9 DEF BotStarts
  <2>3. Existing \subseteq Files /\ Cardinality(Existing) \in Nat
    <3>1. Existing \subseteq Files
      BY DEF Existing
    <3> QED BY <3>1, WatcherAssumption, FS_Subset, FS_CardinalityType
  <2>4. order \in [1 .. Cardinality(Existing) -> Existing]
    BY DEF SetToSeqs
  <2>5. reads' \in Nat /\ reading' \subseteq [n : Nat, file : Files, tries : Nat]
    BY <2>1, <2>2, <2>3, <2>4 DEF WatcherTypeOK
  <2> QED BY <1>1, <2>1, <2>5 DEF WatcherTypeOK, DownIsQuiet, Events
<1> QED BY <1>2, <1>3, <1>4, <1>5, <1>6, <1>7, <1>8, <1>9 DEF WatcherNext

(* That a file has been read by two calls is not forgotten.                *)
LEMMA OverlapRemembered ==
    ASSUME WatcherBase, [WatcherNext]_<<momVars, watcherVars>>, overlapped
    PROVE  overlapped'
BY DEF WatcherNext, WriteEvent, RemoveEvent, NoticedAgain, HandleFileChange, StartReading, ReadFile, TimerFires, CronFires,
       TimePasses, BotDies, BotStarts, watcherVars, historyVars

(* As long as no file has been read by two calls at a time, the watcher's  *)
(* invariant holds for any files, kinds of events and restarts.            *)
WatcherSound == WatcherBase /\ (~overlapped => WatcherInv)

THEOREM WatcherInvariant == WatcherSpec => []WatcherSound
<1>1. WatcherInit => WatcherSound
  BY WatcherInitInv DEF WatcherSound, WatcherInv, WatcherBase
<1>2. WatcherSound /\ [WatcherNext]_<<momVars, watcherVars>> => WatcherSound'
  <2>1. SUFFICES ASSUME WatcherBase, WatcherInv, [WatcherNext]_<<momVars, watcherVars>>, ~overlapped'
                 PROVE  WatcherInv'
    BY WatcherBaseKeeps, OverlapRemembered DEF WatcherSound
  <2>2. CASE MomStep /\ UNCHANGED watcherVars
    BY <2>1, <2>2, MomStepWatched, WatcherUnchanged
  <2>3. CASE \E f \in Files : (\E kind \in Kinds : WriteEvent(f, kind)) \/ RemoveEvent(f) \/ NoticedAgain(f)
    BY <2>1, <2>3, WriteKeeps, RemoveKeeps
  <2>4. CASE \E f \in Files : HandleFileChange(f)
    BY <2>1, <2>4, HandleKeeps
  <2>5. CASE \E r \in reading : ReadFile(r)
    BY <2>1, <2>5, ReadKeeps
  <2>6. CASE \E a \in armed : TimerFires(a) \/ CronFires(a)
    BY <2>1, <2>6, TimerKeeps, CronKeeps
  <2>7. CASE TimePasses
    <3>1. UNCHANGED <<disk, written, startTime, changed, reading, reads, known, timers, crons, armed, executed, bot>>
      BY <2>7 DEF TimePasses, momVars, botVars, callVars, scheduleVars, historyVars
    <3> QED BY <2>1, <3>1 DEF WatcherInv, WatcherTypeOK, DownIsQuiet, OneReader, OneTimer, Slot, OneFile, ExecutedIsGone,
              ExecutedOnce, Events, EventsUpTo
  <2>8. CASE BotDies
    BY <2>1, <2>8, BotDiesKeeps
  <2>9. CASE BotStarts
    BY <2>1, <2>9, BotStartsKeeps
  <2>10. CASE UNCHANGED <<momVars, watcherVars>>
    BY <2>1, <2>10, WatcherUnchanged DEF momVars, botVars
  <2> QED BY <2>1, <2>2, <2>3, <2>4, <2>5, <2>6, <2>7, <2>8, <2>9, <2>10 DEF WatcherNext
<1> QED BY <1>1, <1>2, PTL DEF WatcherSpec

(* As long as no file has been read by two calls at a time, no immediate or*)
(* one-shot event is executed twice, and no timer is left that the next    *)
(* change of its file would not cancel (events.ts).                        *)
THEOREM EventsOnScheduleHolds == WatcherSpec => []EventsOnSchedule
<1>1. WatcherSound => EventsOnSchedule
  BY DEF WatcherSound, WatcherInv, OneTimer, EventsOnSchedule, ScheduleAgrees
<1> QED BY <1>1, WatcherInvariant, PTL

(* A timer fires when the time of its event has come, unless the delay is  *)
(* more than setTimeout takes (events.ts:298).                             *)
THEOREM NotEarlyHolds ==
    ASSUME "far one-shot" \notin Kinds
    PROVE  WatcherSpec => NotEarly
<1>1. ASSUME WatcherSound, [WatcherNext]_<<momVars, watcherVars>>
      PROVE  [\A a \in armed \ armed' : executed' # executed => a.event.id \in due]_watcherVars
  <2>1. SUFFICES ASSUME NEW a \in armed \ armed', executed' # executed PROVE a.event.id \in due
    OBVIOUS
  <2>2. ASSUME NEW b \in armed, TimerFires(b) PROVE a.event.id \in due
    <3>1. armed' = armed \ {b} /\ (b.event.id \in due \/ b.event.kind = "far one-shot")
      BY <2>2 DEF TimerFires
    <3>2. b.event.kind \in Kinds
      BY <1>1 DEF WatcherSound, WatcherBase, WatcherTypeOK, Events, EventsUpTo
    <3> QED BY <2>1, <3>1, <3>2
  <2>3. ASSUME NEW b \in armed, CronFires(b) PROVE FALSE
    BY <2>1, <2>3 DEF CronFires, scheduleVars
  <2>4. ASSUME NEW r \in reading, ReadFile(r) PROVE FALSE
    BY <1>1, <2>1, <2>4, ReadEffect DEF WatcherSound, WatcherBase, Armed
  <2>5. CASE \/ \E f \in Files : (\E kind \in Kinds : WriteEvent(f, kind)) \/ RemoveEvent(f) \/ NoticedAgain(f)
                                   \/ HandleFileChange(f)
             \/ TimePasses \/ BotDies \/ BotStarts \/ (MomStep /\ UNCHANGED watcherVars)
             \/ UNCHANGED <<momVars, watcherVars>>
    BY <2>1, <2>5 DEF WriteEvent, RemoveEvent, NoticedAgain, HandleFileChange, TimePasses, BotDies, BotStarts, watcherVars,
                      historyVars
  <2> QED BY <1>1, <2>2, <2>3, <2>4, <2>5 DEF WatcherNext
<1> QED BY <1>1, WatcherInvariant, PTL DEF WatcherSpec, NotEarly
---------------------------------------------------------------------------
(* Where a message is: posted, heard or not, logged, and from the log in   *)
(* the context.  What is posted and what is logged stays in its place.     *)
PostKinds == UserKinds \cup {"bot"}
Stays(s, t) == \A k \in DOMAIN s : k \in DOMAIN t /\ t[k] = s[k]

LogTypes ==
    /\ posted \in Seq(PostKinds) /\ log \in Seq(Nat) /\ ToSet(log) \subseteq DOMAIN posted
    /\ unheard \subseteq UserPosts /\ redelivered \subseteq unheard
    /\ bot \in {"down", "starting", "filling", "filled", "connected", "up"}
    /\ oldest \in 0 .. Len(posted) /\ joined \in Nat

(* Users' messages that the log should have and has not.                   *)
Missing == {n \in UserPosts : n > joined /\ n \notin ToSet(log)}

(* The backfill asks for nothing that users said and that is logged.       *)
FillInv == bot = "filling" => log # <<>> /\ \A n \in UserPosts : n \in ToSet(log) => n <= oldest

(* Nothing is missing once the log is filled; before, what is missing is   *)
(* newer than all that is logged, and will be asked for.                   *)
GapInv ==
    log # <<>> /\ mishaps \subseteq {"unstamped"} =>
      /\ bot \in {"filled", "connected", "up"} => Missing = {}
      /\ bot \in {"down", "starting"} => \A n \in Missing, m \in ToSet(log) : m < n
      /\ bot = "filling" => (\A n \in Missing : oldest < n) /\ (\A m \in ToSet(log) : m <= oldest)

LogInv == LogTypes /\ LoggedOnce /\ FillInv /\ GapInv

(* The run's message is the bot's, and nothing runs while the bot is down. *)
RunInv ==
    /\ reply # 0 => reply \in DOMAIN posted /\ posted[reply] = "bot"
    /\ bot = "down" => phase = "idle"

(* A message that is worked on is in the log, and not yet in the context   *)
(* until the model is asked, unless it was worked on before.               *)
Works == current.type = "message" /\ phase \in {"opening", "announced", "synced"}

ContextInv ==
    /\ context \in Seq(Nat) /\ ToSet(context) \subseteq Logged
    /\ current.type = "message" => current = Post(current.id) /\ current.id \in Logged
    /\ \A i \in DOMAIN queue : queue[i].type # "message"
    /\ "unstamped" \notin mishaps => ~Twice(context) /\ (Works => current.id \notin ToSet(context))
    /\ ModelKnows

(* A place in a sequence is a number.                                      *)
LEMMA PlaceInSequence ==
    ASSUME NEW S, NEW s \in Seq(S), NEW k \in DOMAIN s
    PROVE  k \in Nat /\ k <= Len(s)
OBVIOUS

(* One more message is posted.                                             *)
LEMMA PostedGrows ==
    ASSUME LogTypes, NEW kind \in PostKinds, posted' = Append(posted, kind)
    PROVE  /\ posted' \in Seq(PostKinds) /\ Len(posted) \in Nat /\ Len(posted') = Len(posted) + 1
           /\ DOMAIN posted = 1 .. Len(posted) /\ DOMAIN posted' = 1 .. Len(posted) + 1
           /\ posted'[Len(posted) + 1] = kind /\ Stays(posted, posted')
           /\ UserPosts' = UserPosts \cup (IF kind = "bot" THEN {} ELSE {Len(posted) + 1})
           /\ \A m \in ToSet(log) : m \in Nat /\ m < Len(posted) + 1
<1> DEFINE n == Len(posted) + 1
<1>1. /\ posted' \in Seq(PostKinds) /\ Len(posted) \in Nat /\ Len(posted') = n
      /\ DOMAIN posted = 1 .. Len(posted) /\ DOMAIN posted' = 1 .. n
      /\ posted'[n] = kind /\ \A k \in DOMAIN posted : posted'[k] = posted[k]
  BY DEF LogTypes
<1>2. n \in Nat /\ DOMAIN posted' = DOMAIN posted \cup {n} /\ n \notin DOMAIN posted
  BY <1>1
<1> HIDE DEF n
<1>3. UserPosts' = UserPosts \cup (IF kind = "bot" THEN {} ELSE {n})
  BY <1>1, <1>2 DEF UserPosts
<1>4. \A m \in ToSet(log) : m \in Nat /\ m < n
  BY <1>1 DEF LogTypes, n
<1> QED BY <1>1, <1>2, <1>3, <1>4 DEF n, Stays

(* What is logged or a user's stays so.                                    *)
LEMMA LoggedStays ==
    ASSUME LogTypes, posted' \in Seq(PostKinds), log' \in Seq(Nat), Stays(posted, posted'), Stays(log, log')
    PROVE  /\ ToSet(log) \subseteq ToSet(log)' /\ Logged \subseteq Logged' /\ UserPosts \subseteq UserPosts'
           /\ \A n \in ToSet(log) : n \in UserPosts' <=> n \in UserPosts
<1>1. ToSet(log) \subseteq ToSet(log)'
  BY DEF ToSet, Stays
<1>2. \A n \in DOMAIN posted : n \in DOMAIN posted' /\ posted'[n] = posted[n]
  BY DEF Stays
<1> QED BY <1>1, <1>2 DEF LogTypes, Logged, UserPosts

(* Users post what the bot does not hear, or the bot posts.                *)
LEMMA MorePosted ==
    ASSUME LogInv, NEW kind \in PostKinds, posted' = Append(posted, kind),
           UNCHANGED <<log, joined, oldest, redelivered, bot>>, mishaps \subseteq mishaps',
           kind = "bot" => UNCHANGED unheard,
           kind # "bot" => /\ unheard' = unheard \cup {Len(posted) + 1}
                           /\ ~Connected /\ (bot = "filled" => "gap" \in mishaps')
    PROVE  LogInv'
<1> DEFINE m == Len(posted) + 1
<1>1. /\ posted' \in Seq(PostKinds) /\ Len(posted) \in Nat /\ Len(posted') = m /\ m \in Nat
      /\ DOMAIN posted = 1 .. Len(posted) /\ DOMAIN posted' = 1 .. m
      /\ UserPosts' = UserPosts \cup (IF kind = "bot" THEN {} ELSE {m})
      /\ \A l \in ToSet(log) : l \in Nat /\ l < m
  BY PostedGrows DEF LogInv
<1>2. oldest \in Nat /\ oldest < m /\ oldest \in 0 .. m /\ ToSet(log)' = ToSet(log) /\ joined \in Nat
  BY <1>1 DEF LogInv, LogTypes
<1>3. m \notin ToSet(log)
  BY <1>1
<1>4. unheard' = unheard \cup (IF kind = "bot" THEN {} ELSE {m})
  OBVIOUS
<1> HIDE DEF m
<1>5. LogTypes'
  <2>1. ToSet(log)' \subseteq DOMAIN posted'
    BY <1>1, <1>2 DEF LogInv, LogTypes, m
  <2>2. unheard' \subseteq UserPosts' /\ redelivered' \subseteq unheard'
    BY <1>1, <1>4 DEF LogInv, LogTypes
  <2> QED BY <1>1, <1>2, <2>1, <2>2 DEF LogInv, LogTypes
<1>6. LoggedOnce'
  <2>1. \A i \in DOMAIN log : log[i] # m
    BY <1>3 DEF ToSet
  <2> QED BY <1>1, <2>1 DEF LogInv, LoggedOnce, LoggedTwice
<1>7. FillInv'
  BY <1>1, <1>2, <1>3 DEF LogInv, FillInv
<1>8. Missing' \subseteq Missing \cup {m} /\ (kind = "bot" => Missing' = Missing)
  BY <1>1, <1>2 DEF Missing
<1>9. GapInv'
  <2>1. SUFFICES ASSUME log # <<>>, mishaps' \subseteq {"unstamped"}
                 PROVE  /\ bot \in {"filled", "connected", "up"} => Missing' = {}
                        /\ bot \in {"down", "starting"} => \A n \in Missing', l \in ToSet(log) : l < n
                        /\ bot = "filling" => (\A n \in Missing' : oldest < n) /\ (\A l \in ToSet(log) : l <= oldest)
    BY <1>2 DEF GapInv
  <2>2. bot \in {"filled", "connected", "up"} => kind = "bot"
    BY <2>1 DEF Connected
  <2>3. mishaps \subseteq {"unstamped"}
    BY <2>1
  <2> QED BY <1>1, <1>2, <1>8, <2>1, <2>2, <2>3 DEF LogInv, GapInv
<1> QED BY <1>5, <1>6, <1>7, <1>9 DEF LogInv

(* A line is added to the log: what a user said and nobody heard yet, or is*)
(* known to have been delivered again, or an answer of the bot.            *)
LEMMA LineAdded ==
    ASSUME LogInv, NEW n \in DOMAIN posted', log' = Append(log, n),
           \/ UNCHANGED posted
           \/ \E kind \in PostKinds : posted' = Append(posted, kind) /\ n = Len(posted) + 1,
           joined' = IF log = <<>> THEN Len(posted') ELSE joined,
           UNCHANGED <<unheard, bot, oldest>>, redelivered \subseteq redelivered', redelivered' \subseteq unheard,
           mishaps \subseteq mishaps',
           posted'[n] = "bot" \/ n \in redelivered' \/ n \notin ToSet(log),
           bot \in {"filled", "connected", "up"} \/ ("answered" \in mishaps' /\ posted'[n] = "bot")
    PROVE  LogInv'
<1>1. /\ posted' \in Seq(PostKinds) /\ DOMAIN posted \subseteq DOMAIN posted' /\ Len(posted') \in Nat
      /\ DOMAIN posted' = 1 .. Len(posted') /\ oldest' \in 0 .. Len(posted') /\ n \in Nat
      /\ UserPosts \subseteq UserPosts' /\ UserPosts' \subseteq UserPosts \cup {n}
  <2>1. CASE UNCHANGED posted
    <3>1. UserPosts' = UserPosts
      BY <2>1 DEF UserPosts
    <3> QED BY <2>1, <3>1 DEF LogInv, LogTypes
  <2>2. CASE \E kind \in PostKinds : posted' = Append(posted, kind) /\ n = Len(posted) + 1
    <3>1. PICK kind \in PostKinds : posted' = Append(posted, kind) /\ n = Len(posted) + 1
      BY <2>2
    <3>2. /\ posted' \in Seq(PostKinds) /\ Len(posted) \in Nat /\ Len(posted') = Len(posted) + 1
          /\ DOMAIN posted = 1 .. Len(posted) /\ DOMAIN posted' = 1 .. Len(posted) + 1
      BY <3>1, PostedGrows DEF LogInv
    <3>3. UserPosts' = UserPosts \cup (IF kind = "bot" THEN {} ELSE {n})
      BY <3>1, PostedGrows DEF LogInv
    <3>4. oldest' \in 0 .. Len(posted')
      BY <3>2 DEF LogInv, LogTypes
    <3> QED BY <3>2, <3>3, <3>4
  <2> QED BY <2>1, <2>2
<1>2. /\ log' \in Seq(Nat) /\ Len(log) \in Nat /\ DOMAIN log = 1 .. Len(log) /\ DOMAIN log' = 1 .. Len(log) + 1
      /\ log'[Len(log) + 1] = n /\ (\A i \in DOMAIN log : log'[i] = log[i])
  <2>1. log \in Seq(Nat) /\ n \in Nat
    BY <1>1 DEF LogInv, LogTypes
  <2> QED BY <2>1
<1>3. ToSet(log)' = ToSet(log) \cup {n}
  <2>1. \A i \in DOMAIN log' : i \in DOMAIN log \/ i = Len(log) + 1
    BY <1>2
  <2>2. DOMAIN log \subseteq DOMAIN log' /\ Len(log) + 1 \in DOMAIN log'
    BY <1>2
  <2> QED BY <1>2, <2>1, <2>2 DEF ToSet
<1>4. LogTypes'
  <2>1. joined' \in Nat
    BY <1>1 DEF LogInv, LogTypes
  <2>2. unheard' \subseteq UserPosts' /\ redelivered' \subseteq unheard' /\ ToSet(log)' \subseteq DOMAIN posted'
    BY <1>1, <1>3 DEF LogInv, LogTypes
  <2> QED BY <1>1, <1>2, <2>1, <2>2 DEF LogInv, LogTypes
<1>5. LoggedOnce'
  <2>1. SUFFICES ASSUME NEW l \in UserPosts', l \notin redelivered',
                        NEW i \in DOMAIN log', NEW j \in DOMAIN log', i # j, log'[i] = l, log'[j] = l
                 PROVE  FALSE
    BY DEF LoggedOnce, LoggedTwice
  <2>2. CASE l = n
    <3>1. posted'[n] # "bot"
      BY <2>1, <2>2 DEF UserPosts
    <3>2. n \notin ToSet(log)
      BY <2>1, <2>2, <3>1
    <3>3. i \notin DOMAIN log /\ j \notin DOMAIN log
      BY <1>2, <2>1, <2>2, <3>2 DEF ToSet
    <3> QED BY <1>2, <2>1, <3>3
  <2>3. CASE l # n
    <3>1. i \in DOMAIN log /\ j \in DOMAIN log /\ l \in UserPosts
      <4>1. l \in UserPosts
        BY <1>1, <2>1, <2>3
      <4>2. \A k \in DOMAIN log' : k \in DOMAIN log \/ log'[k] = n
        BY <1>2
      <4> QED BY <2>1, <2>3, <4>1, <4>2
    <3>2. LoggedTwice(l)
      BY <1>2, <2>1, <3>1 DEF LoggedTwice
    <3>3. l \in redelivered
      BY <3>1, <3>2 DEF LogInv, LoggedOnce
    <3> QED BY <2>1, <3>3
  <2> QED BY <2>2, <2>3
<1>6. FillInv'
  <2>1. SUFFICES ASSUME bot = "filling", NEW l \in UserPosts', l \in ToSet(log)' PROVE l <= oldest
    <3>1. log' # <<>>
      BY <1>2
    <3> QED BY <3>1 DEF FillInv
  <2>2. n \notin UserPosts'
    BY <2>1 DEF UserPosts
  <2>3. l \in UserPosts /\ l \in ToSet(log)
    BY <1>1, <1>3, <2>1, <2>2
  <2> QED BY <2>1, <2>3 DEF LogInv, FillInv
<1>7. GapInv'
  <2>1. SUFFICES ASSUME mishaps' \subseteq {"unstamped"} PROVE bot \in {"filled", "connected", "up"} /\ Missing' = {}
    BY DEF GapInv
  <2>2. bot \in {"filled", "connected", "up"} /\ mishaps \subseteq {"unstamped"}
    BY <2>1
  <2>3. ASSUME NEW l \in Missing' PROVE FALSE
    <3>1. l \in UserPosts' /\ l \in Nat /\ l > joined' /\ l # n /\ l \notin ToSet(log) /\ l <= Len(posted')
      <4>1. l \in UserPosts' /\ l > joined' /\ l \notin ToSet(log)'
        BY <2>3 DEF Missing
      <4>2. l \in DOMAIN posted'
        BY <4>1 DEF UserPosts
      <4>3. l \in Nat /\ l <= Len(posted')
        <5>1. posted' \in Seq(PostKinds)
          BY <1>1
        <5> QED BY <4>2, <5>1, PlaceInSequence, Zenon
      <4>4. l # n /\ l \notin ToSet(log)
        BY <1>3, <4>1
      <4> QED BY <4>1, <4>3, <4>4
    <3>2. l \in UserPosts
      BY <1>1, <3>1
    <3>3. CASE log = <<>>
      BY <1>1, <3>1, <3>3
    <3>4. CASE log # <<>>
      BY <2>2, <3>1, <3>2, <3>4 DEF LogInv, GapInv, Missing
    <3> QED BY <3>3, <3>4
  <2> QED BY <2>2, <2>3
<1> QED BY <1>4, <1>5, <1>6, <1>7 DEF LogInv

(* Messages in the order of their timestamps are all of them, once.        *)
LEMMA ChronologyComplete ==
    ASSUME NEW S \in SUBSET Nat, IsFiniteSet(S), NEW s \in Chronological(S)
    PROVE  /\ s \in Seq(Nat) /\ ToSet(s) = S
           /\ \A i, j \in DOMAIN s : i < j => s[i] < s[j]
<1> DEFINE n == Cardinality(S)
<1>1. n \in Nat
  BY FS_CardinalityType
<1>2. s \in [1 .. n -> S] /\ \A i, j \in 1 .. n : i < j => s[i] < s[j]
  BY DEF Chronological
<1> HIDE DEF n
<1>3. \A i, j \in 1 .. n : s[i] = s[j] => i = j
  <2>1. SUFFICES ASSUME NEW i \in 1 .. n, NEW j \in 1 .. n, s[i] = s[j], i # j PROVE FALSE
    OBVIOUS
  <2>2. s[i] \in Nat /\ s[j] \in Nat
    BY <1>2
  <2>3. CASE i < j
    BY <1>2, <2>1, <2>2, <2>3
  <2>4. CASE j < i
    BY <1>2, <2>1, <2>2, <2>4
  <2> QED BY <1>1, <2>1, <2>3, <2>4
<1>4. s \in Injection(1 .. n, S)
  BY <1>2, <1>3 DEF Injection, IsInjective
<1>5. Cardinality(1 .. n) = n
  BY <1>1, FS_Interval
<1>6. s \in Surjection(1 .. n, S)
  BY <1>4, <1>5, FS_Injection DEF n
<1>7. ToSet(s) = S
  BY <1>2, <1>6 DEF ToSet, Surjection
<1>8. s \in Seq(Nat)
  <2>1. s \in [1 .. n -> Nat]
    BY <1>2
  <2> QED BY <1>1, <2>1
<1> QED BY <1>2, <1>7, <1>8

(* What a sequence says with more at its end.                              *)
LEMMA ElementsAdded ==
    ASSUME NEW s \in Seq(Nat), NEW t \in Seq(Nat)
    PROVE  /\ s \o t \in Seq(Nat) /\ ToSet(s \o t) = ToSet(s) \cup ToSet(t)
           /\ \A k \in DOMAIN (s \o t) :
                \/ k \in DOMAIN s /\ (s \o t)[k] = s[k]
                \/ k > Len(s) /\ k - Len(s) \in DOMAIN t /\ (s \o t)[k] = t[k - Len(s)]
<1>1. s \o t \in Seq(Nat) /\ Len(s \o t) = Len(s) + Len(t) /\ Len(s) \in Nat /\ Len(t) \in Nat
      /\ DOMAIN s = 1 .. Len(s) /\ DOMAIN t = 1 .. Len(t) /\ DOMAIN (s \o t) = 1 .. Len(s) + Len(t)
  OBVIOUS
<1>2. \A k \in DOMAIN (s \o t) :
         \/ k \in DOMAIN s /\ (s \o t)[k] = s[k]
         \/ k > Len(s) /\ k - Len(s) \in DOMAIN t /\ (s \o t)[k] = t[k - Len(s)]
  OBVIOUS
<1>3. \A k \in DOMAIN s : k \in DOMAIN (s \o t) /\ (s \o t)[k] = s[k]
  OBVIOUS
<1>4. \A k \in DOMAIN t : Len(s) + k \in DOMAIN (s \o t) /\ (s \o t)[Len(s) + k] = t[k]
  OBVIOUS
<1> DEFINE u == s \o t
<1>5. u \in Seq(Nat) /\ \A k \in DOMAIN u :
         \/ k \in DOMAIN s /\ u[k] = s[k]
         \/ k > Len(s) /\ k - Len(s) \in DOMAIN t /\ u[k] = t[k - Len(s)]
  BY <1>1, <1>2
<1>6. /\ \A k \in DOMAIN s : k \in DOMAIN u /\ u[k] = s[k]
      /\ \A k \in DOMAIN t : Len(s) + k \in DOMAIN u /\ u[Len(s) + k] = t[k]
  BY <1>3, <1>4
<1> HIDE DEF u
<1>7. ToSet(u) \subseteq ToSet(s) \cup ToSet(t)
  BY <1>5 DEF ToSet
<1>8. ToSet(s) \cup ToSet(t) \subseteq ToSet(u)
  BY <1>6 DEF ToSet
<1> QED BY <1>5, <1>7, <1>8 DEF u

(* One more number at the end.                                             *)
LEMMA ElementAdded ==
    ASSUME NEW s \in Seq(Nat), NEW n \in Nat
    PROVE  /\ Append(s, n) = s \o <<n>> /\ <<n>> \in Seq(Nat) /\ ToSet(<<n>>) = {n}
           /\ DOMAIN <<n>> = {1} /\ <<n>>[1] = n
<1>1. PICK t : t = <<n>>
  OBVIOUS
<1>2. t \in Seq(Nat) /\ Len(t) = 1 /\ t[1] = n /\ DOMAIN t = {1}
  BY <1>1
<1>3. ToSet(t) = {n}
  BY <1>2 DEF ToSet
<1>4. Append(s, n) = s \o <<n>>
  OBVIOUS
<1> QED BY <1>1, <1>2, <1>3, <1>4

(* The log stays as it is, and the bot goes on as far as the log allows.   *)
LEMMA LogUnchanged ==
    ASSUME LogInv, UNCHANGED <<slackVars, logVars>>, mishaps \subseteq mishaps',
           \/ UNCHANGED <<bot, oldest>>
           \/ bot' = "down" /\ UNCHANGED oldest
           \/ bot = "down" /\ bot' = "starting" /\ UNCHANGED oldest
           \/ bot \in {"filled", "connected"} /\ bot' \in {"connected", "up"} /\ UNCHANGED oldest
           \/ BackfillBegins
           \/ bot = "filling" /\ bot' = "filled" /\ "failed" \in mishaps' /\ UNCHANGED oldest
    PROVE  LogInv'
<1>1. UNCHANGED <<posted, unheard, redelivered, log, joined>>
  BY DEF slackVars, logVars
<1>2. UNCHANGED <<UserPosts, Missing>> /\ ToSet(log)' = ToSet(log)
  BY <1>1 DEF UserPosts, Missing
<1>3. LoggedOnce'
  BY <1>1, <1>2 DEF LogInv, LoggedOnce, LoggedTwice
<1>4. Missing \subseteq Nat /\ ToSet(log) \subseteq Nat /\ oldest \in Nat /\ ToSet(log) \subseteq 1 .. Len(posted)
      /\ Len(posted) \in Nat
  BY DEF LogInv, LogTypes, Missing, UserPosts
<1>5. CASE UNCHANGED oldest /\ ~BackfillBegins
  <2>1. LogTypes'
    BY <1>1, <1>2, <1>5 DEF LogInv, LogTypes
  <2>2. FillInv'
    BY <1>1, <1>2, <1>5 DEF LogInv, FillInv
  <2>3. SUFFICES ASSUME log # <<>>, mishaps' \subseteq {"unstamped"}
                 PROVE  /\ bot' \in {"filled", "connected", "up"} => Missing = {}
                        /\ bot' \in {"down", "starting"} => \A n \in Missing, m \in ToSet(log) : m < n
                        /\ bot' = "filling" => (\A n \in Missing : oldest < n) /\ (\A m \in ToSet(log) : m <= oldest)
    BY <1>1, <1>2, <1>3, <1>5, <2>1, <2>2 DEF LogInv, GapInv
  <2>4. /\ bot \in {"filled", "connected", "up"} => Missing = {}
        /\ bot \in {"down", "starting"} => \A n \in Missing, m \in ToSet(log) : m < n
        /\ bot = "filling" => (\A n \in Missing : oldest < n) /\ (\A m \in ToSet(log) : m <= oldest)
    BY <2>3 DEF LogInv, GapInv
  <2>5. bot \in {"down", "starting", "filling", "filled", "connected", "up"}
    BY DEF LogInv, LogTypes
  <2>6. bot \in {"filling", "filled", "connected", "up"} => \A n \in Missing, m \in ToSet(log) : m < n
    BY <1>4, <2>4
  <2>7. "failed" \notin mishaps'
    BY <2>3
  <2> QED BY <1>5, <2>4, <2>5, <2>6, <2>7
<1>6. CASE BackfillBegins
  <2>1. bot = "starting" /\ bot' \in {"filled", "filling"}
        /\ IF log = <<>> THEN bot' = "filled" /\ UNCHANGED oldest ELSE bot' = "filling" /\ oldest' \in Latest
    BY <1>6 DEF BackfillBegins
  <2>2. log # <<>> => oldest' \in ToSet(log) /\ \A m \in ToSet(log) : m <= oldest'
    BY <2>1 DEF Latest
  <2>3. oldest' \in 0 .. Len(posted)
    BY <1>4, <2>1, <2>2 DEF LogInv, LogTypes
  <2>4. LogTypes'
    BY <1>1, <1>2, <2>1, <2>3 DEF LogInv, LogTypes
  <2>5. FillInv'
    BY <1>1, <1>2, <2>1, <2>2 DEF FillInv
  <2>6. GapInv'
    <3>1. SUFFICES ASSUME log # <<>>, mishaps \subseteq {"unstamped"}
                   PROVE  bot' = "filling" /\ (\A n \in Missing : oldest' < n) /\ (\A m \in ToSet(log) : m <= oldest')
      BY <1>1, <1>2 DEF GapInv
    <3>2. \A n \in Missing, m \in ToSet(log) : m < n
      BY <2>1, <3>1 DEF LogInv, GapInv
    <3> QED BY <2>1, <2>2, <3>1, <3>2
  <2> QED BY <1>3, <2>4, <2>5, <2>6 DEF LogInv
<1> QED BY <1>5, <1>6

(* What was posted meanwhile is found and logged.                          *)
LEMMA MissedAreLogged ==
    ASSUME LogInv, BackfillEnds
    PROVE  LogInv' /\ Stays(log, log')
<1>1. /\ UNCHANGED <<posted, unheard, redelivered, joined, oldest>> /\ bot = "filling" /\ bot' = "filled"
      /\ DOMAIN posted = 1 .. Len(posted) /\ Len(posted) \in Nat /\ oldest \in Nat /\ log \in Seq(Nat)
      /\ log # <<>>
  BY DEF BackfillEnds, slackVars, LogInv, LogTypes, FillInv
<1>2. PICK new \in Chronological(Fetched) : log' = log \o new
  BY DEF BackfillEnds
<1>3. mishaps \subseteq mishaps' /\ (Fetched # Newer => "cut" \in mishaps')
  BY DEF BackfillEnds, Mishap
<1>4. Fetched \subseteq Newer /\ Newer \subseteq DOMAIN posted /\ \A n \in Newer : n \in Nat /\ n > oldest
  BY <1>1 DEF Newer, Fetched
<1>5. /\ new \in Seq(Nat) /\ ToSet(new) = Fetched
      /\ \A i, j \in DOMAIN new : i < j => new[i] < new[j]
  <2>1. IsFiniteSet(DOMAIN posted)
    BY <1>1, FS_Interval
  <2>2. IsFiniteSet(Fetched) /\ Fetched \in SUBSET Nat
    BY <1>4, <2>1, FS_Subset
  <2> QED BY <1>2, <2>2, ChronologyComplete
<1>6. /\ log' \in Seq(Nat) /\ ToSet(log)' = ToSet(log) \cup Fetched
      /\ \A k \in DOMAIN log' :
           \/ k \in DOMAIN log /\ log'[k] = log[k]
           \/ k > Len(log) /\ k - Len(log) \in DOMAIN new /\ log'[k] = new[k - Len(log)]
  BY <1>1, <1>2, <1>5, ElementsAdded
<1>7. Stays(log, log') /\ log' # <<>>
  <2>1. Len(log) \in Nat /\ 1 \in DOMAIN log
    BY <1>1
  <2>2. Stays(log, log')
    BY <1>1, <1>2, <1>5 DEF Stays
  <2>3. 1 \in DOMAIN log'
    BY <2>1, <2>2 DEF Stays
  <2> QED BY <2>2, <2>3
<1>8. UNCHANGED UserPosts /\ UserPosts \subseteq DOMAIN posted
  BY <1>1 DEF UserPosts
<1>9. LogTypes'
  BY <1>1, <1>4, <1>6, <1>8 DEF LogInv, LogTypes
<1>10. LoggedOnce'
  <2>1. SUFFICES ASSUME NEW l \in UserPosts, NEW i \in DOMAIN log', NEW j \in DOMAIN log', i # j,
                        log'[i] = l, log'[j] = l
                 PROVE  l \in redelivered
    BY <1>1, <1>8 DEF LoggedOnce, LoggedTwice
  <2>2. i \in Nat /\ j \in Nat /\ Len(log) \in Nat
    BY <1>1, <1>6
  <2>3. \A k \in DOMAIN log : log[k] = l => l <= oldest
    BY <1>1 DEF LogInv, FillInv, ToSet
  <2>4. \A k \in DOMAIN new : new[k] = l => l > oldest /\ l \in Nat
    BY <1>4, <1>5 DEF ToSet
  <2>5. CASE i \in DOMAIN log /\ j \in DOMAIN log /\ log'[i] = log[i] /\ log'[j] = log[j]
    <3>1. LoggedTwice(l)
      BY <2>1, <2>5 DEF LoggedTwice
    <3> QED BY <3>1 DEF LogInv, LoggedOnce
  <2>6. CASE i - Len(log) \in DOMAIN new /\ log'[i] = new[i - Len(log)]
    <3>1. l > oldest /\ l \in Nat
      BY <2>1, <2>4, <2>6
    <3>2. j - Len(log) \in DOMAIN new /\ log'[j] = new[j - Len(log)]
      BY <1>1, <1>6, <2>1, <2>3, <3>1
    <3> QED BY <1>5, <2>1, <2>2, <2>6, <3>1, <3>2
  <2>7. CASE j - Len(log) \in DOMAIN new /\ log'[j] = new[j - Len(log)]
    <3>1. l > oldest /\ l \in Nat
      BY <2>1, <2>4, <2>7
    <3>2. i - Len(log) \in DOMAIN new /\ log'[i] = new[i - Len(log)]
      BY <1>1, <1>6, <2>1, <2>3, <3>1
    <3> QED BY <1>5, <2>1, <2>2, <2>7, <3>1, <3>2
  <2> QED BY <1>6, <2>5, <2>6, <2>7
<1>11. FillInv'
  BY <1>1 DEF FillInv
<1>12. GapInv'
  <2>1. SUFFICES ASSUME mishaps' \subseteq {"unstamped"} PROVE Missing' = {}
    BY <1>1 DEF GapInv
  <2>2. Fetched = Newer /\ mishaps \subseteq {"unstamped"}
    BY <1>3, <2>1
  <2>3. \A n \in Missing : oldest < n
    BY <1>1, <2>2 DEF LogInv, GapInv
  <2>4. \A n \in Missing : n \in Newer
    BY <1>1, <1>8, <2>3 DEF Missing, Newer
  <2>5. Missing' \subseteq Missing /\ \A n \in Missing' : n \notin Newer
    BY <1>1, <1>6, <1>8, <2>2 DEF Missing
  <2> QED BY <2>4, <2>5
<1> QED BY <1>7, <1>9, <1>10, <1>11, <1>12 DEF LogInv

(* No element twice, if none was and what is added is new and once.        *)
LEMMA AddedOnce ==
    ASSUME NEW s \in Seq(Nat), ~Twice(s), NEW t \in Seq(Nat), ~Twice(t), ToSet(s) \cap ToSet(t) = {}
    PROVE  ~Twice(s \o t)
<1> DEFINE u == s \o t
<1>1. \A k \in DOMAIN u :
         \/ k \in DOMAIN s /\ u[k] = s[k]
         \/ k > Len(s) /\ k - Len(s) \in DOMAIN t /\ u[k] = t[k - Len(s)]
  BY ElementsAdded
<1>2. DOMAIN u \subseteq Nat /\ Len(s) \in Nat
  OBVIOUS
<1> HIDE DEF u
<1>3. ASSUME NEW k \in DOMAIN u, NEW l \in DOMAIN u, k # l, u[k] = u[l]
      PROVE  FALSE
  <2>1. CASE k \in DOMAIN s /\ u[k] = s[k]
    <3>1. u[k] \in ToSet(s)
      BY <2>1 DEF ToSet
    <3>2. CASE l \in DOMAIN s /\ u[l] = s[l]
      BY <1>3, <2>1, <3>2 DEF Twice
    <3>3. CASE l - Len(s) \in DOMAIN t /\ u[l] = t[l - Len(s)]
      BY <1>3, <3>1, <3>3 DEF ToSet
    <3> QED BY <1>1, <3>2, <3>3
  <2>2. CASE k - Len(s) \in DOMAIN t /\ u[k] = t[k - Len(s)]
    <3>1. u[k] \in ToSet(t)
      BY <2>2 DEF ToSet
    <3>2. CASE l \in DOMAIN s /\ u[l] = s[l]
      BY <1>3, <3>1, <3>2 DEF ToSet
    <3>3. CASE l - Len(s) \in DOMAIN t /\ u[l] = t[l - Len(s)]
      <4>1. k - Len(s) # l - Len(s)
        BY <1>2, <1>3
      <4> QED BY <1>3, <2>2, <3>3, <4>1 DEF Twice
    <3> QED BY <1>1, <3>2, <3>3
  <2> QED BY <1>1, <2>1, <2>2
<1> QED BY <1>3 DEF Twice, u

(* The work stays the same: what is logged meanwhile comes after it.       *)
LEMMA ContextStays ==
    ASSUME LogTypes, ContextInv, posted' \in Seq(PostKinds), log' \in Seq(Nat), Stays(posted, posted'), Stays(log, log'),
           mishaps \subseteq mishaps', UNCHANGED <<context, current, queue>>,
           phase' \in {phase, "prompting", "aborting", "closing"} \/ (phase = "opening" /\ phase' = "announced")
    PROVE  ContextInv'
<1>1. Logged \subseteq Logged' /\ \A n \in ToSet(log) : n \in UserPosts' <=> n \in UserPosts
  BY LoggedStays
<1>2. ToSet(context)' = ToSet(context) /\ Twice(context)' = Twice(context) /\ (Works' => Works)
  BY DEF Works, Twice
<1>3. ModelKnows'
  <2>1. SUFFICES ASSUME phase' = "synced", current.type = "message", NEW i \in DOMAIN log',
                        log'[i] \in UserPosts', \A j \in 1 .. i : log'[j] # current.id
                 PROVE  log'[i] \in ToSet(context)
    BY <1>2 DEF ModelKnows
  <2>2. phase = "synced" /\ current.id \in ToSet(log)
    BY <2>1 DEF ContextInv, Logged
  <2>3. PICK p \in DOMAIN log : log[p] = current.id
    BY <2>2 DEF ToSet
  <2>4. p \notin 1 .. i
    BY <2>1, <2>3 DEF Stays
  <2>5. log \in Seq(Nat) /\ DOMAIN log = 1 .. Len(log) /\ Len(log) \in Nat /\ DOMAIN log' = 1 .. Len(log')
        /\ Len(log') \in Nat
    BY DEF LogTypes
  <2>6. i \in DOMAIN log /\ 1 .. i \subseteq DOMAIN log
    BY <2>3, <2>4, <2>5
  <2>7. log'[i] = log[i] /\ \A j \in 1 .. i : log[j] # current.id
    BY <2>1, <2>6 DEF Stays
  <2>8. log[i] \in UserPosts
    BY <1>1, <2>1, <2>6, <2>7 DEF ToSet
  <2> QED BY <2>1, <2>2, <2>6, <2>7, <2>8 DEF ContextInv, ModelKnows
<1> QED BY <1>1, <1>2, <1>3 DEF ContextInv

(* A message is work only while none is done, and starts it at once.       *)
LEMMA MessageBegins ==
    ASSUME ChannelInv, ContextInv, Logged \subseteq Logged', mishaps \subseteq mishaps', UNCHANGED context,
           NEW n \in Logged', ~isRunning, Enqueue(Post(n)), n \in ToSet(context) => "unstamped" \in mishaps'
    PROVE  ContextInv'
<1>1. queue = <<>> /\ Ready
  BY DEF ChannelInv, OneAtATime, Ready
<1>2. PICK e : e = Post(n)
  OBVIOUS
<1>3. e.type = "message" /\ e.id = n
  BY <1>2 DEF Post
<1>4. PICK one : one = <<e>>
  OBVIOUS
<1>5. Append(queue, e) = one /\ Head(one) = e /\ Tail(one) = <<>>
  BY <1>1, <1>4
<1>6. current' = e /\ queue' = <<>> /\ phase' = "opening"
  BY <1>1, <1>2, <1>5 DEF Enqueue, BeginWork
<1>7. ToSet(context)' = ToSet(context) /\ Twice(context)' = Twice(context)
  BY DEF Twice
<1>8. ModelKnows'
  BY <1>6 DEF ModelKnows
<1>9. \A i \in DOMAIN queue' : queue'[i].type # "message"
  BY <1>6
<1>10. current' = Post(current'.id) /\ current'.id \in Logged'
  BY <1>2, <1>3, <1>6
<1>11. "unstamped" \notin mishaps' => ~Twice(context)' /\ current'.id \notin ToSet(context)'
  BY <1>3, <1>6, <1>7 DEF ContextInv
<1> QED BY <1>7, <1>8, <1>9, <1>10, <1>11 DEF ContextInv

(* A message is heard: it becomes work, stops a run, or is only logged.    *)
LEMMA HeardContext ==
    ASSUME ChannelInv, LogTypes, ContextInv, posted' \in Seq(PostKinds), log' \in Seq(Nat),
           Stays(posted, posted'), Stays(log, log'), mishaps \subseteq mishaps', UNCHANGED context,
           NEW n \in Logged', NEW kind, Hears(n, kind),
           n > startup /\ n \in ToSet(context) => "unstamped" \in mishaps'
    PROVE  ContextInv'
<1>1. CASE UNCHANGED queueVars
  <2>1. UNCHANGED <<queue, current, phase>>
    BY <1>1 DEF queueVars
  <2> QED BY <2>1, ContextStays
<1>2. CASE HandleStop
  <2>1. UNCHANGED <<queue, current>> /\ phase' \in {phase, "aborting"}
    BY <1>2 DEF HandleStop
  <2> QED BY <2>1, ContextStays
<1>3. CASE n > startup /\ ~isRunning /\ Enqueue(Post(n))
  BY <1>3, MessageBegins, LoggedStays
<1> QED BY <1>1, <1>2, <1>3 DEF Hears

(* An event takes its turn: what is queued are no messages.                *)
LEMMA EventTakesTurn ==
    ASSUME ChannelInv, ContextInv, NEW event, event.type = "event", EnqueueEvent(event),
           UNCHANGED <<context, log, posted, mishaps>>
    PROVE  ContextInv'
<1>1. Logged' = Logged /\ ToSet(context)' = ToSet(context) /\ Twice(context)' = Twice(context)
  BY DEF Logged, Twice
<1>2. CASE UNCHANGED <<phase, current>>
  <2>1. ModelKnows'
    BY <1>2 DEF ContextInv, ModelKnows, UserPosts
  <2>2. \A i \in DOMAIN queue' : queue'[i].type # "message"
    <3>1. CASE UNCHANGED queue
      BY <3>1 DEF ContextInv
    <3>2. CASE queue' = Append(queue, event)
      <4>1. PICK S : queue \in Seq(S)
        BY DEF ChannelInv, IsSequence
      <4>2. \A i \in DOMAIN Append(queue, event) :
               \/ i \in DOMAIN queue /\ Append(queue, event)[i] = queue[i]
               \/ Append(queue, event)[i] = event
        BY <4>1
      <4> QED BY <3>2, <4>2 DEF ContextInv
    <3>3. CASE Enqueue(event) /\ Ready
      <4>1. queue = <<>> /\ queue' = Tail(Append(queue, event))
        BY <3>3 DEF Ready, ChannelInv, OneAtATime, Enqueue, BeginWork
      <4>2. PICK one : one = <<event>>
        OBVIOUS
      <4>3. Append(queue, event) = one /\ Tail(one) = <<>>
        BY <4>1, <4>2
      <4> QED BY <4>1, <4>3
    <3> QED BY <3>1, <3>2, <3>3 DEF EnqueueEvent, Enqueue, queueVars
  <2> QED BY <1>1, <1>2, <2>1, <2>2 DEF ContextInv, Works
<1>3. CASE Enqueue(event) /\ Ready
  <2>1. queue = <<>>
    BY <1>3 DEF Ready, ChannelInv, OneAtATime
  <2>2. /\ current' = Head(Append(queue, event)) /\ queue' = Tail(Append(queue, event)) /\ phase' = "opening"
    BY <1>3 DEF Enqueue, BeginWork
  <2>3. PICK one : one = <<event>>
    OBVIOUS
  <2>4. Append(queue, event) = one /\ Head(one) = event /\ Tail(one) = <<>>
    BY <2>1, <2>3
  <2>5. current'.type = "event" /\ queue' = <<>>
    BY <2>2, <2>4
  <2>6. ~Works' /\ ModelKnows' /\ current'.type # "message" /\ \A i \in DOMAIN queue' : queue'[i].type # "message"
    BY <2>2, <2>5 DEF Works, ModelKnows
  <2> QED BY <1>1, <2>6 DEF ContextInv
<1> QED BY <1>2, <1>3 DEF EnqueueEvent, Enqueue, queueVars

(* The context gets what it lacks of the log, but for the message at work. *)
LEMMA SyncedContext ==
    ASSUME LogTypes, ContextInv, SyncLog
    PROVE  ContextInv'
<1>1. PICK new \in Chronological(Unknown) : context' = context \o new
  BY DEF SyncLog
<1>2. /\ UNCHANGED <<posted, log, current, queue, mishaps>> /\ phase = "announced" /\ phase' = "synced"
      /\ context \in Seq(Nat)
  BY DEF SyncLog, At, RunVars, logVars, ContextInv
<1>3. new \in Seq(Nat) /\ ToSet(new) = Unknown /\ ~Twice(new)
  <2>1. DOMAIN posted = 1 .. Len(posted) /\ Len(posted) \in Nat /\ Unknown \subseteq DOMAIN posted
    BY DEF LogTypes, Unknown, Logged
  <2>2. IsFiniteSet(DOMAIN posted)
    BY <2>1, FS_Interval
  <2>3. IsFiniteSet(Unknown) /\ Unknown \in SUBSET Nat
    BY <2>1, <2>2, FS_Subset
  <2>4. new \in Seq(Nat) /\ ToSet(new) = Unknown /\ \A i, j \in DOMAIN new : i < j => new[i] < new[j]
    BY <1>1, <2>3, ChronologyComplete
  <2>5. \A i, j \in DOMAIN new : i # j => new[i] # new[j]
    <3>1. TAKE i, j \in DOMAIN new
    <3>2. i \in Nat /\ j \in Nat /\ new[i] \in Nat /\ new[j] \in Nat
      BY <2>4
    <3>3. i < j => new[i] < new[j]
      BY <2>4
    <3>4. j < i => new[j] < new[i]
      BY <2>4
    <3> QED BY <3>2, <3>3, <3>4
  <2> QED BY <2>4, <2>5 DEF Twice
<1>4. context' \in Seq(Nat) /\ ToSet(context)' = ToSet(context) \cup Unknown
  BY <1>1, <1>2, <1>3, ElementsAdded
<1>5. ~Twice(context) => ~Twice(context')
  BY <1>1, <1>2, <1>3, AddedOnce DEF Unknown
<1>6. Logged' = Logged /\ UserPosts' = UserPosts /\ ToSet(context)' \subseteq Logged
  BY <1>2, <1>4 DEF ContextInv, Unknown, Logged, UserPosts
<1>7. ASSUME current.type = "message"
      PROVE  /\ current.id \notin ToSet(context) => current.id \notin ToSet(context)'
             /\ \A n \in Logged : n # current.id => n \in ToSet(context)'
  <2>1. current = Post(current.id)
    BY <1>7 DEF ContextInv
  <2>2. \A n : Post(n) = current <=> n = current.id
    BY <2>1 DEF Post
  <2> QED BY <1>4, <2>2 DEF Unknown
<1>8. ModelKnows'
  <2>1. SUFFICES ASSUME current.type = "message", NEW i \in DOMAIN log, log[i] \in UserPosts,
                        \A j \in 1 .. i : log[j] # current.id
                 PROVE  log[i] \in ToSet(context)'
    BY <1>2, <1>6 DEF ModelKnows
  <2>2. log[i] \in Logged
    BY <2>1 DEF Logged, ToSet, UserPosts
  <2>3. i \in 1 .. i
    BY DEF LogTypes
  <2> QED BY <1>7, <2>1, <2>2, <2>3
<1>9. Twice(context)' = Twice(context')
  BY DEF Twice
<1>10. "unstamped" \notin mishaps => ~Twice(context') /\ (Works' => current.id \notin ToSet(context)')
  BY <1>2, <1>5, <1>7 DEF ContextInv, Works
<1> QED BY <1>2, <1>4, <1>6, <1>8, <1>9, <1>10 DEF ContextInv

(* The message at work is added by its prompt.                             *)
LEMMA PromptedContext ==
    ASSUME LogTypes, ContextInv, PromptStarts
    PROVE  ContextInv'
<1>1. /\ UNCHANGED <<posted, log, current, queue, mishaps>> /\ phase = "synced" /\ phase' = "prompting"
      /\ ~Works' /\ ModelKnows' /\ Logged' = Logged
  BY DEF PromptStarts, At, RunVars, logVars, Works, ModelKnows, Logged
<1>2. CASE current.type = "message"
  <2>1. context' = Append(context, current.id) /\ current.id \in Logged
    BY <1>1, <1>2 DEF PromptStarts, ContextInv
  <2>2. context \in Seq(Nat) /\ current.id \in Nat
    BY <2>1 DEF ContextInv, LogTypes, Logged
  <2>3. PICK one \in Seq(Nat) : one = <<current.id>> /\ context' = context \o one /\ ToSet(one) = {current.id}
                                /\ DOMAIN one = {1}
    BY <2>1, <2>2, ElementAdded
  <2>4. ~Twice(one)
    BY <2>3 DEF Twice
  <2>5. context' \in Seq(Nat) /\ ToSet(context)' = ToSet(context) \cup {current.id}
    BY <2>2, <2>3, ElementsAdded
  <2>6. "unstamped" \notin mishaps => ~Twice(context')
    <3>1. SUFFICES ASSUME "unstamped" \notin mishaps PROVE ~Twice(context')
      OBVIOUS
    <3>2. ~Twice(context) /\ ToSet(context) \cap ToSet(one) = {}
      BY <1>1, <1>2, <2>3, <3>1 DEF ContextInv, Works
    <3> QED BY <2>2, <2>3, <2>4, <3>2, AddedOnce
  <2>7. Twice(context)' = Twice(context')
    BY DEF Twice
  <2> QED BY <1>1, <2>1, <2>5, <2>6, <2>7 DEF ContextInv
<1>3. CASE current.type # "message"
  <2>1. UNCHANGED context
    BY <1>3 DEF PromptStarts
  <2>2. ToSet(context)' = ToSet(context) /\ Twice(context)' = Twice(context)
    BY <2>1 DEF Twice
  <2> QED BY <1>1, <2>1, <2>2 DEF ContextInv
<1> QED BY <1>2, <1>3

(* The work is done, and the next one is no message.                       *)
LEMMA NextWorkBegins ==
    ASSUME ChannelInv, ContextInv, CloseRun
    PROVE  ContextInv'
<1>1. UNCHANGED <<posted, log, context, mishaps>>
  BY DEF CloseRun, files, slackVars, logVars
<1>2. Logged' = Logged /\ ToSet(context)' = ToSet(context) /\ Twice(context)' = Twice(context)
  BY <1>1 DEF Logged, Twice
<1>3. current'.type # "message" /\ \A i \in DOMAIN queue' : queue'[i].type # "message"
  <2>1. CASE queue # <<>>
    <3>1. current' = Head(queue) /\ queue' = Tail(queue)
      BY <2>1 DEF CloseRun, BeginWork
    <3>2. PICK S : queue \in Seq(S)
      BY DEF ChannelInv, IsSequence
    <3>3. 1 \in DOMAIN queue /\ Head(queue) = queue[1]
      BY <2>1, <3>2
    <3>4. \A i \in DOMAIN Tail(queue) : i + 1 \in DOMAIN queue /\ Tail(queue)[i] = queue[i + 1]
      BY <2>1, <3>2
    <3> QED BY <3>1, <3>3, <3>4 DEF ContextInv
  <2>2. CASE queue = <<>>
    <3>1. current' = NoWork /\ UNCHANGED queue
      BY <2>2 DEF CloseRun
    <3>2. current'.type # "message"
      BY <3>1 DEF NoWork
    <3> QED BY <3>1, <3>2 DEF ContextInv
  <2> QED BY <2>1, <2>2
<1>4. ~Works' /\ ModelKnows'
  BY <1>3 DEF Works, ModelKnows
<1> QED BY <1>1, <1>2, <1>3, <1>4 DEF ContextInv

KeptInv == LogInv /\ RunInv /\ ContextInv

(* A channel starts without messages.                                      *)
LEMMA KeptInit == MomInit => KeptInv
<1>1. SUFFICES ASSUME MomInit PROVE KeptInv
  OBVIOUS
<1>2. /\ posted = <<>> /\ log = <<>> /\ context = <<>> /\ queue = <<>> /\ current = NoWork /\ bot = "up"
      /\ unheard = {} /\ redelivered = {} /\ oldest = 0 /\ joined = 0 /\ reply = 0
  BY <1>1 DEF MomInit
<1>3. <<>> \in Seq(PostKinds) /\ <<>> \in Seq(Nat) /\ DOMAIN <<>> = {} /\ Len(<<>>) = 0
  <2>1. <<>> \in Seq(PostKinds) /\ <<>> \in Seq(Nat)
    OBVIOUS
  <2> QED BY <2>1
<1>4. ToSet(log) = {} /\ ToSet(context) = {} /\ DOMAIN log = {} /\ DOMAIN queue = {}
  BY <1>2, <1>3 DEF ToSet
<1>5. LogTypes
  BY <1>2, <1>3, <1>4 DEF LogTypes
<1>6. LoggedOnce /\ FillInv /\ GapInv
  BY <1>2, <1>4 DEF LoggedOnce, LoggedTwice, FillInv, GapInv
<1>7. RunInv
  BY <1>2 DEF RunInv
<1>8. current.type # "message" /\ ~Twice(context) /\ context \in Seq(Nat)
  BY <1>2, <1>3 DEF NoWork, Twice
<1>9. ContextInv
  BY <1>4, <1>8 DEF ContextInv, Works, ModelKnows
<1> QED BY <1>5, <1>6, <1>7, <1>9 DEF KeptInv, LogInv

(* The run keeps its message or has none.                                  *)
LEMMA RunStays ==
    ASSUME RunInv, Stays(posted, posted'), reply' \in {reply, 0}, bot' # "down" \/ phase' = "idle"
    PROVE  RunInv'
BY DEF RunInv, Stays

LEMMA HeardRun ==
    ASSUME NEW n, NEW kind, Hears(n, kind)
    PROVE  reply' \in {reply, 0}
BY DEF Hears, HandleStop, Enqueue, BeginWork, queueVars

(* What is there stays when something comes after it.                      *)
LEMMA AppendStays ==
    ASSUME NEW s \in Seq(Nat), NEW n \in Nat
    PROVE  Append(s, n) \in Seq(Nat) /\ Stays(s, Append(s, n)) /\ ToSet(Append(s, n)) = ToSet(s) \cup {n}
<1>1. PICK t \in Seq(Nat) : t = <<n>> /\ Append(s, n) = s \o t /\ ToSet(t) = {n}
  BY ElementAdded
<1>2. Append(s, n) \in Seq(Nat) /\ ToSet(Append(s, n)) = ToSet(s) \cup {n}
  BY <1>1, ElementsAdded
<1>3. Stays(s, Append(s, n))
  BY DEF Stays
<1> QED BY <1>2, <1>3

LEMMA SameStays ==
    ASSUME NEW s
    PROVE  Stays(s, s)
BY DEF Stays

(* A user says something to a bot that hears it.                           *)
LEMMA SaidKept ==
    ASSUME ChannelInv, KeptInv, NEW kind \in UserKinds, Say(kind)
    PROVE  KeptInv'
<1> DEFINE n == Len(posted) + 1
<1>1. /\ posted' = Append(posted, kind) /\ kind \in PostKinds /\ kind # "bot" /\ Connected
      /\ Hears(n, kind) /\ log' = Append(log, n) /\ joined' = IF log = <<>> THEN Len(posted') ELSE joined
      /\ UNCHANGED <<unheard, redelivered, bot, oldest, context, mishaps>>
  BY DEF Say, Posts, Hears, LogLine, botVars, files, PostKinds, UserKinds
<1>2. LogTypes /\ log \in Seq(Nat)
  BY DEF KeptInv, LogInv, LogTypes
<1>3. /\ posted' \in Seq(PostKinds) /\ Len(posted) \in Nat /\ DOMAIN posted' = 1 .. n /\ posted'[n] = kind
      /\ Stays(posted, posted') /\ \A m \in ToSet(log) : m \in Nat /\ m < n
  BY <1>1, <1>2, PostedGrows
<1>4. n \in Nat /\ n \in DOMAIN posted' /\ n \notin ToSet(log)
  BY <1>3
<1>5. log' \in Seq(Nat) /\ Stays(log, log') /\ ToSet(log)' = ToSet(log) \cup {n}
  BY <1>1, <1>2, <1>4, AppendStays
<1>6. \E k \in PostKinds : posted' = Append(posted, k) /\ n = Len(posted) + 1
  BY <1>1
<1> HIDE DEF n
<1>7. LogInv'
  <2>1. bot \in {"filled", "connected", "up"}
    BY <1>1 DEF Connected
  <2>2. redelivered \subseteq redelivered' /\ redelivered' \subseteq unheard /\ mishaps \subseteq mishaps'
    BY <1>1, <1>2 DEF LogTypes
  <2> QED BY <1>1, <1>4, <1>6, <2>1, <2>2, LineAdded DEF KeptInv
<1>8. RunInv'
  <2>1. bot' # "down" /\ reply' \in {reply, 0}
    BY <1>1, HeardRun DEF Connected
  <2> QED BY <1>3, <2>1, RunStays DEF KeptInv
<1>9. ContextInv'
  <2>1. n \in Logged'
    BY <1>1, <1>3, <1>5 DEF Logged
  <2>2. n \notin ToSet(context)
    BY <1>4 DEF KeptInv, ContextInv, Logged
  <2>3. mishaps \subseteq mishaps'
    BY <1>1
  <2> QED BY <1>1, <1>2, <1>3, <1>5, <2>1, <2>2, <2>3, HeardContext DEF KeptInv
<1> QED BY <1>7, <1>8, <1>9 DEF KeptInv

(* Slack delivers again what was posted while the bot was away.            *)
LEMMA RedeliveredKept ==
    ASSUME ChannelInv, KeptInv, NEW n \in unheard, Redeliver(n)
    PROVE  KeptInv'
<1>1. /\ UNCHANGED posted /\ Connected /\ redelivered' = redelivered \cup {n}
      /\ Hears(n, posted[n]) /\ log' = Append(log, n) /\ joined' = IF log = <<>> THEN Len(posted') ELSE joined
      /\ UNCHANGED <<unheard, bot, oldest, context>>
      /\ mishaps \subseteq mishaps' /\ (n > startup /\ n \in ToSet(log) => "unstamped" \in mishaps')
  BY DEF Redeliver, Hears, LogLine, botVars, files, Mishap
<1>2. LogTypes /\ log \in Seq(Nat) /\ posted \in Seq(PostKinds)
  BY DEF KeptInv, LogInv, LogTypes
<1>3. n \in UserPosts /\ n \in DOMAIN posted /\ posted[n] # "bot" /\ n \in Nat
  BY <1>2 DEF LogTypes, UserPosts
<1>4. log' \in Seq(Nat) /\ Stays(log, log') /\ ToSet(log)' = ToSet(log) \cup {n} /\ Stays(posted, posted')
  BY <1>1, <1>2, <1>3, AppendStays, SameStays
<1>5. LogInv'
  <2>1. bot \in {"filled", "connected", "up"}
    BY <1>1 DEF Connected
  <2>2. redelivered \subseteq redelivered' /\ redelivered' \subseteq unheard /\ n \in redelivered' /\ n \in DOMAIN posted'
    BY <1>1, <1>2, <1>3 DEF LogTypes
  <2> QED BY <1>1, <2>1, <2>2, LineAdded DEF KeptInv
<1>6. RunInv'
  <2>1. bot' # "down" /\ reply' \in {reply, 0}
    BY <1>1, HeardRun DEF Connected
  <2> QED BY <1>4, <2>1, RunStays DEF KeptInv
<1>7. ContextInv'
  <2>1. n \in Logged'
    BY <1>1, <1>3, <1>4 DEF Logged
  <2>2. n > startup /\ n \in ToSet(context) => "unstamped" \in mishaps'
    BY <1>1 DEF KeptInv, ContextInv, Logged
  <2>3. posted' \in Seq(PostKinds)
    BY <1>1, <1>2
  <2> QED BY <1>1, <1>2, <1>4, <2>1, <2>2, <2>3, HeardContext DEF KeptInv
<1> QED BY <1>5, <1>6, <1>7 DEF KeptInv

(* A user says something that the bot does not hear.                       *)
LEMMA UnheardKept ==
    ASSUME KeptInv, NEW kind \in UserKinds, SayUnheard(kind)
    PROVE  KeptInv'
<1>1. /\ posted' = Append(posted, kind) /\ kind \in PostKinds /\ kind # "bot" /\ ~Connected
      /\ unheard' = unheard \cup {Len(posted) + 1} /\ mishaps \subseteq mishaps' /\ (bot = "filled" => "gap" \in mishaps')
      /\ UNCHANGED <<redelivered, bot, oldest, log, joined, context, current, queue, phase, reply>>
  BY DEF SayUnheard, Posts, Mishap, botVars, logVars, files, queueVars, PostKinds, UserKinds
<1>2. LogTypes /\ log \in Seq(Nat)
  BY DEF KeptInv, LogInv, LogTypes
<1>3. posted' \in Seq(PostKinds) /\ Stays(posted, posted') /\ Stays(log, log')
  BY <1>1, <1>2, PostedGrows, SameStays
<1>4. LogInv'
  BY <1>1, MorePosted DEF KeptInv
<1>5. RunInv'
  <2>1. bot' # "down" \/ phase' = "idle"
    BY <1>1 DEF KeptInv, RunInv
  <2> QED BY <1>1, <1>3, <2>1, RunStays DEF KeptInv
<1>6. ContextInv'
  <2>1. log' \in Seq(Nat)
    BY <1>1, <1>2
  <2> QED BY <1>1, <1>2, <1>3, <2>1, ContextStays DEF KeptInv
<1> QED BY <1>4, <1>5, <1>6 DEF KeptInv

(* The bot posts that it is thinking, unless that fails.                   *)
LEMMA AnnouncedKept ==
    ASSUME KeptInv, Announce
    PROVE  KeptInv'
<1>1. /\ UNCHANGED <<unheard, redelivered, bot, oldest, log, joined, context, current, queue, mishaps>>
      /\ phase = "opening" /\ phase' = "announced"
      /\ \/ posted' = Append(posted, "bot") /\ reply' = Len(posted) + 1
         \/ UNCHANGED <<posted, reply>>
  BY DEF Announce, At, RunVars, botVars, logVars, files
<1>2. LogTypes /\ log \in Seq(Nat) /\ posted \in Seq(PostKinds) /\ bot # "down" /\ "bot" \in PostKinds
  BY <1>1 DEF KeptInv, LogInv, LogTypes, RunInv, PostKinds
<1>3. log' \in Seq(Nat) /\ Stays(log, log') /\ mishaps \subseteq mishaps' /\ bot' # "down"
  BY <1>1, <1>2, SameStays
<1>4. CASE posted' = Append(posted, "bot") /\ reply' = Len(posted) + 1
  <2>1. /\ posted' \in Seq(PostKinds) /\ Len(posted) \in Nat /\ DOMAIN posted' = 1 .. Len(posted) + 1
        /\ posted'[Len(posted) + 1] = "bot" /\ Stays(posted, posted')
    BY <1>2, <1>4, PostedGrows
  <2>2. LogInv'
    BY <1>1, <1>2, <1>3, <1>4, MorePosted DEF KeptInv
  <2>3. RunInv'
    BY <1>3, <1>4, <2>1 DEF RunInv
  <2>4. ContextInv'
    BY <1>1, <1>2, <1>3, <2>1, ContextStays DEF KeptInv
  <2> QED BY <2>2, <2>3, <2>4 DEF KeptInv
<1>5. CASE UNCHANGED <<posted, reply>>
  <2>1. posted' \in Seq(PostKinds) /\ Stays(posted, posted')
    BY <1>2, <1>5, SameStays
  <2>2. LogInv'
    BY <1>1, <1>3, <1>5, LogUnchanged DEF KeptInv, slackVars, logVars
  <2>3. RunInv'
    BY <1>3, <1>5, <2>1, RunStays DEF KeptInv
  <2>4. ContextInv'
    BY <1>1, <1>2, <1>3, <2>1, ContextStays DEF KeptInv
  <2> QED BY <2>2, <2>3, <2>4 DEF KeptInv
<1> QED BY <1>1, <1>4, <1>5

(* The bot answers, in the message it has posted or in a new one.          *)
LEMMA RespondKept ==
    ASSUME KeptInv, Respond
    PROVE  KeptInv'
<1>1. /\ UNCHANGED <<unheard, redelivered, bot, oldest, context, current, queue, phase>> /\ phase # "idle"
      /\ \/ posted' = Append(posted, "bot") /\ reply' = Len(posted) + 1
         \/ UNCHANGED <<posted, reply>> /\ reply # 0
      /\ log' = Append(log, reply') /\ joined' = IF log = <<>> THEN Len(posted') ELSE joined
      /\ mishaps \subseteq mishaps' /\ (bot \in {"starting", "filling"} => "answered" \in mishaps')
  BY DEF Respond, Prompting, RunVars, botVars, files, LogLine, Mishap
<1>2. LogTypes /\ log \in Seq(Nat) /\ posted \in Seq(PostKinds) /\ bot # "down" /\ "bot" \in PostKinds
  BY <1>1 DEF KeptInv, LogInv, LogTypes, RunInv, PostKinds
<1>3. /\ posted' \in Seq(PostKinds) /\ Stays(posted, posted')
      /\ reply' \in Nat /\ reply' \in DOMAIN posted' /\ posted'[reply'] = "bot"
  <2>1. CASE posted' = Append(posted, "bot") /\ reply' = Len(posted) + 1
    <3>1. /\ posted' \in Seq(PostKinds) /\ Len(posted) \in Nat /\ DOMAIN posted' = 1 .. Len(posted) + 1
          /\ posted'[Len(posted) + 1] = "bot" /\ Stays(posted, posted')
      BY <1>2, <2>1, PostedGrows
    <3> QED BY <2>1, <3>1
  <2>2. CASE UNCHANGED <<posted, reply>> /\ reply # 0
    <3>1. reply \in DOMAIN posted /\ posted[reply] = "bot"
      BY <2>2 DEF KeptInv, RunInv
    <3> QED BY <1>2, <2>2, <3>1, SameStays
  <2> QED BY <1>1, <2>1, <2>2
<1>4. log' \in Seq(Nat) /\ Stays(log, log')
  BY <1>1, <1>2, <1>3, AppendStays
<1>5. LogInv'
  <2>1. PICK n \in DOMAIN posted' : n = reply'
    BY <1>3
  <2>2. log' = Append(log, n) /\ posted'[n] = "bot"
    BY <1>1, <1>3, <2>1
  <2>3. UNCHANGED posted \/ \E kind \in PostKinds : posted' = Append(posted, kind) /\ n = Len(posted) + 1
    BY <1>1, <1>2, <2>1
  <2>4. bot \in {"filled", "connected", "up"} \/ "answered" \in mishaps'
    BY <1>1, <1>2 DEF LogTypes
  <2>5. redelivered \subseteq redelivered' /\ redelivered' \subseteq unheard
    BY <1>1, <1>2 DEF LogTypes
  <2> QED BY <1>1, <2>2, <2>3, <2>4, <2>5, LineAdded DEF KeptInv
<1>6. RunInv'
  BY <1>1, <1>2, <1>3 DEF RunInv
<1>7. ContextInv'
  BY <1>1, <1>2, <1>3, <1>4, ContextStays DEF KeptInv
<1> QED BY <1>5, <1>6, <1>7 DEF KeptInv

(* The backfill has found what it can.                                     *)
LEMMA BackfillKept ==
    ASSUME KeptInv, BackfillEnds
    PROVE  KeptInv'
<1>1. /\ UNCHANGED <<posted, context, current, queue, phase, reply>> /\ bot' = "filled" /\ mishaps \subseteq mishaps'
  BY DEF BackfillEnds, slackVars, files, queueVars, Mishap
<1>2. LogInv' /\ Stays(log, log') /\ LogTypes /\ posted \in Seq(PostKinds)
  BY MissedAreLogged DEF KeptInv, LogInv, LogTypes
<1>3. log' \in Seq(Nat) /\ posted' \in Seq(PostKinds) /\ Stays(posted, posted')
  BY <1>1, <1>2, SameStays DEF LogInv, LogTypes
<1>4. RunInv'
  BY <1>1, <1>3, RunStays DEF KeptInv
<1>5. ContextInv'
  BY <1>1, <1>2, <1>3, ContextStays DEF KeptInv
<1> QED BY <1>2, <1>4, <1>5 DEF KeptInv

(* Other steps of the start.                                               *)
LEMMA StartKept ==
    ASSUME KeptInv, BackfillBegins \/ BackfillFails \/ Connect \/ Started
    PROVE  KeptInv'
<1>1. /\ UNCHANGED <<slackVars, logVars, context, current, queue, phase, reply>> /\ mishaps \subseteq mishaps'
      /\ bot' # "down"
  BY DEF BackfillBegins, BackfillFails, Connect, Started, files, queueVars, Mishap
<1>2. UNCHANGED <<posted, log>> /\ posted \in Seq(PostKinds) /\ log \in Seq(Nat) /\ LogTypes
  BY <1>1 DEF slackVars, logVars, KeptInv, LogInv, LogTypes
<1>3. \/ bot \in {"filled", "connected"} /\ bot' \in {"connected", "up"} /\ UNCHANGED oldest
      \/ BackfillBegins
      \/ bot = "filling" /\ bot' = "filled" /\ "failed" \in mishaps' /\ UNCHANGED oldest
  BY DEF BackfillFails, Connect, Started, Mishap
<1>4. LogInv'
  BY <1>1, <1>3, LogUnchanged DEF KeptInv
<1>5. posted' \in Seq(PostKinds) /\ log' \in Seq(Nat) /\ Stays(posted, posted') /\ Stays(log, log')
  BY <1>2, SameStays
<1>6. RunInv'
  BY <1>1, <1>5, RunStays DEF KeptInv
<1>7. ContextInv'
  BY <1>1, <1>2, <1>5, ContextStays DEF KeptInv
<1> QED BY <1>4, <1>6, <1>7 DEF KeptInv

(* Other steps of the run.                                                 *)
LEMMA RunKept ==
    ASSUME ChannelInv, KeptInv, SyncLog \/ PromptStarts \/ PromptEnds \/ CloseRun \/ RunThrows \/ AnswerPersisted
    PROVE  KeptInv'
<1>1. /\ UNCHANGED <<slackVars, logVars, bot, oldest, mishaps>> /\ phase # "idle" /\ reply' \in {reply, 0}
  BY DEF SyncLog, PromptStarts, PromptEnds, CloseRun, RunThrows, AnswerPersisted, BeginWork, At, Prompting, RunVars,
         slackVars, logVars, botVars
<1>2. UNCHANGED <<posted, log>> /\ posted \in Seq(PostKinds) /\ log \in Seq(Nat) /\ LogTypes
  BY <1>1 DEF slackVars, logVars, KeptInv, LogInv, LogTypes
<1>3. posted' \in Seq(PostKinds) /\ log' \in Seq(Nat) /\ Stays(posted, posted') /\ Stays(log, log')
      /\ mishaps \subseteq mishaps'
  BY <1>1, <1>2, SameStays
<1>4. LogInv'
  BY <1>1, <1>3, LogUnchanged DEF KeptInv
<1>5. RunInv'
  <2>1. bot' # "down"
    BY <1>1 DEF KeptInv, RunInv
  <2> QED BY <1>1, <1>3, <2>1, RunStays DEF KeptInv
<1>6. ContextInv'
  <2>1. CASE PromptEnds \/ RunThrows \/ AnswerPersisted
    <3>1. UNCHANGED <<context, current, queue>> /\ phase' \in {phase, "closing"}
      BY <2>1 DEF PromptEnds, RunThrows, AnswerPersisted, RunVars, files, At
    <3> QED BY <1>2, <1>3, <3>1, ContextStays DEF KeptInv
  <2> QED BY <1>2, <2>1, SyncedContext, PromptedContext, NextWorkBegins DEF KeptInv
<1> QED BY <1>4, <1>5, <1>6 DEF KeptInv

(* A step of the channel.                                                  *)
LEMMA MomStepKept ==
    ASSUME ChannelInv, KeptInv, MomStep
    PROVE  KeptInv'
BY SaidKept, RedeliveredKept, UnheardKept, AnnouncedKept, RespondKept, BackfillKept, StartKept, RunKept
   DEF MomStep, RunStep, StartStep

(* The process ends, and with it what was only in memory.                  *)
LEMMA DeathKept ==
    ASSUME KeptInv, MomDies
    PROVE  KeptInv'
<1>1. /\ UNCHANGED <<slackVars, logVars, oldest, mishaps>> /\ bot' = "down" /\ queue' = <<>> /\ current' = NoWork
      /\ (context' = context \/ context' = <<>>) /\ reply' = 0 /\ phase' = "idle"
  BY DEF MomDies
<1>2. LogInv'
  BY <1>1, LogUnchanged DEF KeptInv
<1>3. RunInv'
  BY <1>1 DEF RunInv
<1>4. context' \in Seq(Nat) /\ (Twice(context') => Twice(context)) /\ ToSet(context') \subseteq Logged
  <2>1. CASE context' = context
    BY <2>1 DEF KeptInv, ContextInv
  <2>2. CASE context' = <<>>
    <3>1. DOMAIN context' = {}
      BY <2>2
    <3>2. context' \in Seq(Nat)
      BY <2>2
    <3> QED BY <3>1, <3>2 DEF Twice, ToSet
  <2> QED BY <1>1, <2>1, <2>2
<1>5. Twice(context)' = Twice(context') /\ ToSet(context)' = ToSet(context') /\ Logged' = Logged
  BY <1>1 DEF Twice, Logged, slackVars, logVars
<1>6. current'.type # "message" /\ \A i \in DOMAIN queue' : queue'[i].type # "message"
  <2>1. current'.type # "message"
    BY <1>1 DEF NoWork
  <2>2. \A i \in DOMAIN queue' : queue'[i].type # "message"
    BY <1>1
  <2> QED BY <2>1, <2>2
<1>7. ContextInv'
  BY <1>1, <1>4, <1>5, <1>6 DEF KeptInv, ContextInv, Works, ModelKnows
<1> QED BY <1>2, <1>3, <1>7 DEF KeptInv

(* A step of the watcher: at most an event takes its turn.                 *)
LEMMA WatcherKept ==
    ASSUME WatcherBase, ChannelInv, KeptInv,
           \/ \E f \in Files : (\E kind \in Kinds : WriteEvent(f, kind)) \/ RemoveEvent(f) \/ NoticedAgain(f)
                                 \/ HandleFileChange(f)
           \/ \E r \in reading : ReadFile(r)
           \/ \E a \in armed : TimerFires(a) \/ CronFires(a)
           \/ TimePasses \/ BotStarts \/ UNCHANGED momVars
    PROVE  KeptInv'
<1>1. /\ UNCHANGED <<slackVars, logVars, oldest, files, mishaps>>
      /\ UNCHANGED bot \/ (bot = "down" /\ bot' = "starting")
      /\ UNCHANGED queueVars \/ (bot # "down" /\ \E id : EnqueueEvent([type |-> "event", id |-> id]))
  <2>1. ASSUME NEW r \in reading, ReadFile(r)
        PROVE  /\ UNCHANGED <<slackVars, logVars, oldest, files, mishaps, bot>> /\ bot # "down"
               /\ UNCHANGED queueVars \/ \E id : EnqueueEvent([type |-> "event", id |-> id])
    <3>1. bot # "down"
      BY DEF WatcherBase, DownIsQuiet
    <3>2. UNCHANGED queueVars \/ \E id : EnqueueEvent([type |-> "event", id |-> id])
      BY <2>1 DEF ReadFile, ReadFails, ReadsImmediate, ReadsOneShot, ReadsPeriodic, NotExecuted, Execute
    <3> QED BY <2>1, <3>1, <3>2 DEF ReadFile, botVars
  <2>2. ASSUME NEW a \in armed, TimerFires(a) \/ CronFires(a)
        PROVE  /\ UNCHANGED <<slackVars, logVars, oldest, files, mishaps, bot>> /\ bot # "down"
               /\ \E id : EnqueueEvent([type |-> "event", id |-> id])
    <3>1. bot # "down"
      BY DEF WatcherBase, DownIsQuiet
    <3>2. \E id : EnqueueEvent([type |-> "event", id |-> id])
      BY <2>2 DEF TimerFires, CronFires, Execute
    <3> QED BY <2>2, <3>1, <3>2 DEF TimerFires, CronFires, botVars
  <2>3. ASSUME UNCHANGED momVars PROVE UNCHANGED <<slackVars, logVars, oldest, files, mishaps, bot, queueVars>>
    BY <2>3 DEF momVars, botVars
  <2>4. CASE TimePasses \/ UNCHANGED momVars
             \/ \E f \in Files : (\E kind \in Kinds : WriteEvent(f, kind)) \/ RemoveEvent(f)
                                  \/ NoticedAgain(f) \/ HandleFileChange(f)
    <3>1. UNCHANGED momVars
      BY <2>4 DEF TimePasses, WriteEvent, RemoveEvent, NoticedAgain, HandleFileChange
    <3> QED BY <2>3, <3>1
  <2>5. CASE BotStarts
    BY <2>5 DEF BotStarts, MomStarts
  <2> QED BY <2>1, <2>2, <2>4, <2>5
<1>2. LogInv'
  <2>1. mishaps \subseteq mishaps'
    BY <1>1
  <2> QED BY <1>1, <2>1, LogUnchanged DEF KeptInv
<1>3. UNCHANGED <<posted, log, context, mishaps>> /\ posted \in Seq(PostKinds) /\ log \in Seq(Nat) /\ LogTypes
  BY <1>1 DEF slackVars, logVars, files, KeptInv, LogInv, LogTypes
<1>4. posted' \in Seq(PostKinds) /\ log' \in Seq(Nat) /\ Stays(posted, posted') /\ Stays(log, log')
      /\ mishaps \subseteq mishaps'
  BY <1>1, <1>3, SameStays
<1>5. CASE UNCHANGED queueVars
  <2>1. UNCHANGED <<current, queue, phase, reply>>
    BY <1>5 DEF queueVars
  <2>2. bot' # "down" \/ phase' = "idle"
    BY <1>1, <2>1 DEF KeptInv, RunInv
  <2>3. RunInv'
    BY <1>4, <2>1, <2>2, RunStays DEF KeptInv
  <2>4. ContextInv'
    BY <1>3, <1>4, <2>1, ContextStays DEF KeptInv
  <2> QED BY <1>2, <2>3, <2>4 DEF KeptInv
<1>6. ASSUME NEW id, EnqueueEvent([type |-> "event", id |-> id]), bot # "down"
      PROVE  KeptInv'
  <2>1. PICK event : event = [type |-> "event", id |-> id]
    OBVIOUS
  <2>2. event.type = "event" /\ EnqueueEvent(event)
    BY <1>6, <2>1
  <2>3. ContextInv'
    BY <1>3, <2>2, EventTakesTurn DEF KeptInv
  <2>4. reply' \in {reply, 0} /\ bot' # "down"
    BY <1>1, <1>6 DEF EnqueueEvent, Enqueue, BeginWork, queueVars
  <2> QED BY <1>2, <1>4, <2>3, <2>4, RunStays DEF KeptInv
<1> QED BY <1>1, <1>5, <1>6

(* Where the messages are says that they are kept.                         *)
LEMMA KeptMessages ==
    ASSUME KeptInv
    PROVE  MessagesKept
<1>1. LoggedOnce
  BY DEF KeptInv, LogInv
<1>2. NothingMissed
  <2>1. SUFFICES ASSUME bot = "up", log # <<>>, mishaps \subseteq {"unstamped"} PROVE LogComplete
    BY DEF NothingMissed
  <2>2. Missing = {}
    BY <2>1 DEF KeptInv, LogInv, GapInv
  <2> QED BY <2>2 DEF Missing, LogComplete
<1>3. ContextSound /\ ModelKnows
  BY DEF KeptInv, ContextInv, ContextSound
<1> QED BY <1>1, <1>2, <1>3 DEF MessagesKept

(* What the bot keeps of a channel, for any posts, events, restarts and    *)
(* failures: what it logs twice was delivered twice, what is missing in its*)
(* log came with one of the mishaps that MomChannel names, the context is  *)
(* part of the log, and has what was logged before the message the model is*)
(* asked about (slack.ts, main.ts, context.ts).                            *)
THEOREM MessagesKeptHolds == WatcherSpec => []MessagesKept
<1> DEFINE Inv == WatcherBase /\ ChannelInv /\ KeptInv
<1>1. WatcherInit => Inv
  BY ChannelInit, KeptInit, WatcherInitInv DEF WatcherInit, WatcherInv, WatcherBase
<1>2. Inv /\ [WatcherNext]_<<momVars, watcherVars>> => Inv'
  <2>1. SUFFICES ASSUME WatcherBase, ChannelInv, KeptInv, [WatcherNext]_<<momVars, watcherVars>>
                 PROVE  ChannelInv' /\ KeptInv'
    BY WatcherBaseKeeps
  <2>2. CASE MomStep
    BY <2>1, <2>2, MomStepKeeps, MomStepKept
  <2>3. CASE BotDies
    BY <2>1, <2>3, DeathKeeps, DeathKept DEF BotDies
  <2>4. CASE UNCHANGED <<momVars, watcherVars>>
    <3>1. UNCHANGED momVars
      BY <2>4
    <3>2. ChannelInv'
      BY <2>1, <3>1, ChannelUnchanged DEF momVars, queueVars, isRunning
    <3> QED BY <2>1, <3>1, <3>2, WatcherKept
  <2>5. CASE \/ \E f \in Files : (\E kind \in Kinds : WriteEvent(f, kind)) \/ RemoveEvent(f) \/ NoticedAgain(f)
                                   \/ HandleFileChange(f)
             \/ \E r \in reading : ReadFile(r)
             \/ \E a \in armed : TimerFires(a) \/ CronFires(a)
             \/ TimePasses \/ BotStarts
    BY <2>1, <2>5, WatcherQueues, WatcherKept
  <2> QED BY <2>1, <2>2, <2>3, <2>4, <2>5 DEF WatcherNext
<1>3. Inv => MessagesKept
  BY KeptMessages
<1> HIDE DEF Inv
<1> QED BY <1>1, <1>2, <1>3, PTL DEF WatcherSpec
=============================================================================
