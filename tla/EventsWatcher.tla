----------------------------- MODULE EventsWatcher -----------------------------
(***************************************************************************)
(* The events watcher of the Slack bot (packages/mom/src/events.ts) over   *)
(* the queue of one channel.  Programs write, replace and remove event     *)
(* files; the watcher reads them some time after they changed and executes *)
(* them at once, at a time, or periodically.                               *)
(*                                                                         *)
(* An event is its kind and the number of the write that made its file; a  *)
(* "bad" file does not parse, and a "bad periodic" one has no valid        *)
(* schedule.  Time is only whether the time of an event has come (due).  A *)
(* call of handleFile is numbered, and so is the timer or the cron job it  *)
(* starts.  What a call does between reading a file and its next await is  *)
(* one action.                                                             *)
(***************************************************************************)
EXTENDS MomChannel

CONSTANTS Files,
          Kinds,        \* subset of {"immediate", "one-shot", "far one-shot", "periodic", "bad", "bad periodic"}
          MaxWrites,    \* bound on the event files written and on repeated reports
          MaxInputs,    \* bound on them and the messages of users together
          MaxFirings,   \* bound on the executions of periodic events
          NoEvent       \* there is no file

ASSUME WatcherAssumption == IsFiniteSet(Files) /\ {MaxWrites, MaxInputs, MaxFirings} \subseteq Nat

VARIABLES
    disk,       \* file -> the event in it
    written,    \* how many events were written
    startTime,  \* how many of them before the watcher started
    due,        \* the events whose time has come
    changed,    \* debounceTimers: the files with a change to be handled
    reading,    \* the calls of handleFile that await the file or their next try
    reads,      \* how many calls there were
    known,      \* knownFiles
    timers, crons, \* file -> the last timer or cron job set for it, 0 for none
    armed,      \* the timers and cron jobs that are running
    executed,   \* history: the events executed, in order
    fate,       \* history: what became of each event written
    overlapped  \* history: has a file been read by two calls at a time

scheduleVars == <<timers, crons, armed>>
callVars     == <<reading, reads, known>>
historyVars  == <<executed, fate, overlapped>>
worldVars    == <<written, startTime, due>>
watcherVars  == <<disk, worldVars, changed, callVars, scheduleVars, historyVars>>
Retries == 3

WatcherInit ==
    /\ MomInit
    /\ disk = [f \in Files |-> NoEvent] /\ written = 0 /\ startTime = 0 /\ due = {}
    /\ changed = {} /\ reading = {} /\ reads = 0 /\ known = {}
    /\ timers = [f \in Files |-> 0] /\ crons = [f \in Files |-> 0] /\ armed = {}
    /\ executed = <<>> /\ fate = <<>> /\ overlapped = FALSE

Running == bot # "down"
Within == Cardinality(UserPosts) + written <= MaxInputs

(* An event is open until it is executed, scheduled as a cron job, refused *)
(* (it cannot be parsed, is too late or has no valid schedule), withdrawn  *)
(* (a program removes or replaces its file) or overtaken (its file is      *)
(* deleted in the name of the event it replaced).                          *)
Open(n) == n \in DOMAIN fate /\ fate[n] = "open"
OpenIn(f) == disk[f] # NoEvent /\ Open(disk[f].id)
Ends(event, end) == [fate EXCEPT ![event.id] = end]
Withdrawn(f) == IF OpenIn(f) THEN Ends(disk[f], "withdrawn") ELSE fate

(* Programs: every change of the directory is noticed while the bot runs.  *)
Noticed(f) == changed' = IF Running THEN changed \cup {f} ELSE changed

WriteEvent(f, kind) ==
    /\ written < MaxWrites /\ written' = written + 1
    /\ disk' = [disk EXCEPT ![f] = [id |-> written + 1, kind |-> kind]]
    /\ Noticed(f) /\ fate' = Append(Withdrawn(f), "open")
    /\ UNCHANGED momVars /\ Within'
    /\ UNCHANGED <<startTime, due, callVars, scheduleVars, executed, overlapped>>

RemoveEvent(f) ==
    /\ disk[f] # NoEvent /\ disk' = [disk EXCEPT ![f] = NoEvent]
    /\ Noticed(f) /\ fate' = Withdrawn(f)
    /\ UNCHANGED <<momVars, worldVars, callVars, scheduleVars, executed, overlapped>>

(* The file system may report one change several times.                    *)
NoticedAgain(f) ==
    /\ Running /\ disk[f] # NoEvent /\ written < MaxWrites
    /\ written' = written + 1 /\ changed' = changed \cup {f} /\ fate' = Append(fate, "no event")
    /\ UNCHANGED momVars /\ Within'
    /\ UNCHANGED <<disk, startTime, due, callVars, scheduleVars, executed, overlapped>>

TimePasses ==
    /\ \E event \in {disk[f] : f \in Files} \cup {a.event : a \in armed} :
         event # NoEvent /\ event.kind = "one-shot" /\ event.id \notin due /\ due' = due \cup {event.id}
    /\ UNCHANGED <<momVars, disk, written, startTime, changed, callVars, scheduleVars, historyVars>>

(* handleFileChange, when the debounce timer fires.  Nothing waits for an  *)
(* earlier call that still reads the file.                                 *)
NothingCancelled(f) == armed         \* mutant: a changed file is only read again
StillArmed(f) == {a \in armed : a.n \notin {timers[f], crons[f]}}

Slot(a) == IF a.event.kind = "periodic" THEN crons[a.file] ELSE timers[a.file]

CancelScheduled(f) ==
    /\ armed' = StillArmed(f)
    /\ timers' = [timers EXCEPT ![f] = 0] /\ crons' = [crons EXCEPT ![f] = 0]

BeingRead(f) == \E r \in reading : r.file = f
StartReading(f) ==
    /\ reads' = reads + 1
    /\ reading' = reading \cup {[n |-> reads + 1, file |-> f, tries |-> 1]}
    /\ overlapped' = (overlapped \/ BeingRead(f))

HandleFileChange(f) ==
    /\ f \in changed /\ changed' = changed \ {f}
    /\ IF f \in known THEN CancelScheduled(f) ELSE UNCHANGED scheduleVars
    /\ IF disk[f] = NoEvent
         THEN known' = known \ {f} /\ UNCHANGED <<reading, reads, overlapped>>
         ELSE StartReading(f) /\ UNCHANGED known
    /\ UNCHANGED <<momVars, disk, worldVars, executed, fate>>

(* deleteFile: what it deletes is noticed as any other change.             *)
DeleteFile(f) ==
    /\ disk' = [disk EXCEPT ![f] = NoEvent] /\ known' = known \ {f}
    /\ changed' = IF disk[f] = NoEvent THEN changed ELSE changed \cup {f}

Keep(f) == known' = known \cup {f} /\ UNCHANGED <<disk, changed>>

Execute(event) == EnqueueEvent([type |-> "event", id |-> event.id]) /\ executed' = Append(executed, event)
NotExecuted == UNCHANGED queueVars /\ UNCHANGED executed

Armed(r, event) == armed' = armed \cup {[n |-> r.n, file |-> r.file, event |-> event]}
Stale(event) == event.id <= startTime

ReadFails(r) ==
    /\ disk[r.file] # NoEvent => disk[r.file].kind = "bad"
    /\ IF r.tries < Retries
         THEN /\ reading' = (reading \ {r}) \cup {[r EXCEPT !.tries = @ + 1]}
              /\ UNCHANGED <<disk, known, changed, fate>>
         ELSE /\ reading' = reading \ {r} /\ DeleteFile(r.file)
              /\ fate' = IF OpenIn(r.file) THEN Ends(disk[r.file], "refused") ELSE fate
    /\ UNCHANGED scheduleVars /\ NotExecuted

ReadsImmediate(r, event) ==
    /\ event.kind = "immediate" /\ reading' = reading \ {r}
    /\ DeleteFile(r.file) /\ UNCHANGED scheduleVars
    /\ IF Stale(event)
         THEN NotExecuted /\ fate' = Ends(event, "refused")
         ELSE Execute(event) /\ fate' = Ends(event, "executed")

ReadsOneShot(r, event) ==
    /\ event.kind \in {"one-shot", "far one-shot"} /\ reading' = reading \ {r}
    /\ NotExecuted
    /\ IF event.id \in due
         THEN DeleteFile(r.file) /\ UNCHANGED scheduleVars /\ fate' = Ends(event, "refused")
         ELSE /\ Keep(r.file) /\ Armed(r, event) /\ timers' = [timers EXCEPT ![r.file] = r.n]
              /\ UNCHANGED <<crons, fate>>

(* A schedule that croner does not accept is deleted as well.              *)
ReadsPeriodic(r, event) ==
    /\ event.kind \in {"periodic", "bad periodic"} /\ reading' = reading \ {r}
    /\ NotExecuted
    /\ IF event.kind = "bad periodic"
         THEN DeleteFile(r.file) /\ UNCHANGED scheduleVars /\ fate' = Ends(event, "refused")
         ELSE /\ Keep(r.file) /\ Armed(r, event) /\ crons' = [crons EXCEPT ![r.file] = r.n]
              /\ fate' = Ends(event, "scheduled") /\ UNCHANGED timers

ReadFile(r) ==
    /\ r \in reading
    /\ LET event == disk[r.file] IN
       ReadFails(r) \/ (event # NoEvent /\ (ReadsImmediate(r, event) \/ ReadsOneShot(r, event) \/ ReadsPeriodic(r, event)))
    /\ UNCHANGED <<slackVars, botVars, logVars, files, mishaps, worldVars, reads, overlapped>>

(* setTimeout takes 31 bits of milliseconds: a longer delay is none.  The  *)
(* file that is deleted may be one that replaced the event's a moment ago. *)
TimerFires(a) ==
    /\ a \in armed /\ a.event.kind \in {"one-shot", "far one-shot"}
    /\ a.event.id \in due \/ a.event.kind = "far one-shot"
    /\ armed' = armed \ {a} /\ timers' = [timers EXCEPT ![a.file] = 0]
    /\ Execute(a.event) /\ DeleteFile(a.file)
    /\ LET executedNow == Ends(a.event, "executed") IN
       fate' = IF OpenIn(a.file) /\ disk[a.file] # a.event /\ a.file \in changed
                 THEN [executedNow EXCEPT ![disk[a.file].id] = "overtaken"]
                 ELSE executedNow
    /\ UNCHANGED <<slackVars, botVars, logVars, files, mishaps, worldVars, reading, reads, crons, overlapped>>

CronFires(a) ==
    /\ a \in armed /\ a.event.kind = "periodic"
    /\ Cardinality({i \in DOMAIN executed : executed[i].kind = "periodic"}) < MaxFirings
    /\ Execute(a.event)
    /\ UNCHANGED <<slackVars, botVars, logVars, files, mishaps, worldVars, disk, changed, callVars, scheduleVars, fate, overlapped>>

(* The process ends: timers, jobs and calls are gone.  When it starts the  *)
(* files that are there are read.                                          *)
BotDies ==
    /\ MomDies
    /\ changed' = {} /\ reading' = {} /\ known' = {} /\ armed' = {}
    /\ timers' = [f \in Files |-> 0] /\ crons' = [f \in Files |-> 0]
    /\ UNCHANGED <<disk, worldVars, reads, historyVars>>

Existing == {f \in Files : disk[f] # NoEvent}

BotStarts ==
    /\ MomStarts
    /\ startTime' = written
    /\ \E order \in SetToSeqs(Existing) :
         reading' = {[n |-> reads + i, file |-> order[i], tries |-> 1] : i \in DOMAIN order}
    /\ reads' = reads + Cardinality(Existing)
    /\ UNCHANGED <<disk, written, due, changed, known, scheduleVars, historyVars>>

WatcherStep ==
    \/ \E f \in Files : HandleFileChange(f)
    \/ \E r \in reading : ReadFile(r)
    \/ \E a \in armed : TimerFires(a)
    \/ TimePasses \/ BotStarts

WatcherNext ==
    \/ MomStep /\ UNCHANGED watcherVars /\ Within'
    \/ \E f \in Files : (\E kind \in Kinds : WriteEvent(f, kind)) \/ RemoveEvent(f) \/ NoticedAgain(f) \/ HandleFileChange(f)
    \/ \E r \in reading : ReadFile(r)
    \/ \E a \in armed : TimerFires(a) \/ CronFires(a)
    \/ TimePasses \/ BotDies \/ BotStarts

WatcherSpec ==
    /\ WatcherInit /\ [][WatcherNext]_<<momVars, watcherVars>>
    /\ WF_<<momVars, watcherVars>>(WatcherStep)
    /\ WF_<<momVars, watcherVars>>((RunStep \/ StartStep) /\ UNCHANGED watcherVars)
---------------------------------------------------------------------------
(* "Executes once": no immediate or one-shot event is executed twice,      *)
(* neither by two timers nor by two processes one after the other.         *)
ExecutedOnce ==
    \A i, j \in DOMAIN executed : i # j /\ executed[i] = executed[j] => executed[i].kind = "periodic"

(* A file that was removed or replaced is not executed any more once the   *)
(* change has been handled, and no timer is out of the watcher's reach.    *)
ScheduleAgrees ==
    \A a \in armed :
        /\ a.file \in changed \/ disk[a.file] = a.event
        /\ Slot(a) = a.n

(* The two together, as long as no file has been read by two calls at a    *)
(* time: an event is executed as often as its file says.                   *)
EventsOnSchedule == ~overlapped => ExecutedOnce /\ ScheduleAgrees

(* A one-shot event is not executed before its time.                       *)
NotEarly ==
    [][\A a \in armed \ armed' : executed' # executed => a.event.id \in due]_watcherVars


(* An event that replaces another is executed in its stead.                *)
NoneOvertaken == \A n \in DOMAIN fate : fate[n] # "overtaken"
=============================================================================
