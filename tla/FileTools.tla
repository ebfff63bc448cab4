------------------------------ MODULE FileTools ------------------------------
(***************************************************************************)
(* The write and edit tools (core/tools/write.ts, core/tools/edit.ts) in   *)
(* the callbacks of withFileMutationQueue, over one file that has several  *)
(* names (itself, and paths through symbolic links).                       *)
(*                                                                         *)
(* The file's text is the set of calls whose text it has: {} when it was   *)
(* truncated and not yet filled, Missing before it is created.             *)
(***************************************************************************)
EXTENDS FileMutationQueue, FiniteSets

CONSTANTS Writes,     \* the calls of write; the others are calls of edit
          RealName,   \* the member of Keys that is the file's real path
          Original,   \* stands for the text the file has at the start
          Missing,    \* the file does not exist
          StartsMissing

ASSUME FileAssumption ==
    /\ Writes \subseteq Ops /\ RealName \in Keys /\ StartsMissing \in BOOLEAN
    /\ \A T \in SUBSET (Ops \cup {Original}) : T # Missing

VARIABLES
    text,       \* what the file holds
    step,       \* where the inner function of each call is
    buffer,     \* the text each call will write
    outcome,    \* how the promise given to the queue was settled
    signalled,  \* the calls whose AbortSignal is aborted
    broken      \* history: the calls whose write was left unfinished by an abort or an error

toolVars == <<text, step, buffer, outcome, signalled, broken>>
fileVars == <<queueVars, toolVars>>

FileInit ==
    /\ QueueInit
    /\ text = IF StartsMissing THEN Missing ELSE {Original}
    /\ step = [o \in Ops |-> "idle"]
    /\ buffer = [o \in Ops |-> {}]
    /\ outcome = [o \in Ops |-> "none"]
    /\ signalled = {}
    /\ broken = {}

(* getMutationQueueKey: links are followed only if the file exists.        *)
KeyAsGiven(name) == name     \* mutant: links are not followed
KeyOf(name) == IF text = Missing THEN name ELSE RealName

ToolCall(o, name) == Call(o, KeyOf(name)) /\ UNCHANGED toolVars

(* The first reject or resolve settles the promise.                        *)
Settled(o, how) == outcome' = [outcome EXCEPT ![o] = IF @ = "none" THEN how ELSE @]
Goto(o, to)     == step' = [step EXCEPT ![o] = to]
Aborted(o)      == outcome[o] = "aborted"

EnterCallback(o) ==
    /\ Start(o)
    /\ IF o \in signalled
         THEN Goto(o, "over") /\ Settled(o, "aborted")
         ELSE Goto(o, IF o \in Writes THEN "mkdir" ELSE "access") /\ UNCHANGED outcome
    /\ UNCHANGED <<text, buffer, signalled, broken>>

(* onAbort; the listener is removed when the inner function has ended.     *)
Abort(o) ==
    /\ o \notin signalled
    /\ signalled' = signalled \cup {o}
    /\ IF step[o] \in {"idle", "over"}
         THEN UNCHANGED <<outcome, broken>>
         ELSE Settled(o, "aborted")
              /\ broken' = IF step[o] \in {"writing", "filling"} THEN broken \cup {o} ELSE broken
    /\ UNCHANGED <<queueVars, text, step, buffer>>

MkdirDone(o) ==
    /\ step[o] = "mkdir"
    /\ \/ Goto(o, "over") /\ Settled(o, "failed") /\ UNCHANGED buffer
       \/ Aborted(o) /\ Goto(o, "over") /\ UNCHANGED <<buffer, outcome>>
       \/ /\ ~Aborted(o) /\ Goto(o, "writing") /\ buffer' = [buffer EXCEPT ![o] = {o}]
          /\ UNCHANGED outcome
    /\ UNCHANGED <<queueVars, text, signalled, broken>>

(* A file that is missing cannot be accessed; others may not be, either.   *)
AccessDone(o) ==
    /\ step[o] = "access"
    /\ \/ Goto(o, "over") /\ Settled(o, "failed")
       \/ text # Missing /\ Goto(o, IF Aborted(o) THEN "over" ELSE "reading") /\ UNCHANGED outcome
    /\ UNCHANGED <<queueVars, text, buffer, signalled, broken>>

(* The edits are applied to what was read, if their oldText is found in it. *)
ReadDone(o) ==
    /\ step[o] = "reading"
    /\ \/ Aborted(o) /\ Goto(o, "over") /\ UNCHANGED <<buffer, outcome>>
       \/ ~Aborted(o) /\ Goto(o, "over") /\ Settled(o, "failed") /\ UNCHANGED buffer
       \/ /\ ~Aborted(o) /\ text # {}
          /\ Goto(o, "writing") /\ buffer' = [buffer EXCEPT ![o] = text \cup {o}]
          /\ UNCHANGED outcome
    /\ UNCHANGED <<queueVars, text, signalled, broken>>

(* writeFile truncates the file, then fills it.                            *)
Truncate(o) ==
    /\ step[o] = "writing" /\ Goto(o, "filling")
    /\ text' = {}
    /\ UNCHANGED <<queueVars, buffer, outcome, signalled, broken>>

Fill(o) ==
    /\ step[o] = "filling" /\ Goto(o, "over")
    /\ text' = buffer[o]
    /\ Settled(o, "ok")
    /\ UNCHANGED <<queueVars, buffer, signalled, broken>>

WriteFails(o) ==
    /\ step[o] \in {"writing", "filling"} /\ Goto(o, "over")
    /\ Settled(o, "failed")
    /\ broken' = broken \cup {o}
    /\ UNCHANGED <<queueVars, text, buffer, signalled>>

(* The queue goes on when the promise is settled, whatever the inner       *)
(* function is still doing.                                                *)
FinishUnsettled(o) == Finish(o) /\ UNCHANGED toolVars    \* mutant: fn() is not awaited
FinishCallback(o) == outcome[o] # "none" /\ Finish(o) /\ UNCHANGED toolVars

Inner(o) == MkdirDone(o) \/ AccessDone(o) \/ ReadDone(o) \/ Truncate(o) \/ Fill(o)

FileNext ==
    \E o \in Ops :
        \/ \E name \in Keys : ToolCall(o, name)
        \/ EnterCallback(o)
        \/ MkdirDone(o) \/ AccessDone(o) \/ ReadDone(o)
        \/ Truncate(o) \/ Fill(o) \/ WriteFails(o)
        \/ FinishCallback(o)
        \/ Settle(o) /\ UNCHANGED toolVars
        \/ Abort(o)

(* The event loop runs every ready continuation, and the operating system  *)
(* completes every request.                                                *)
FileFairness ==
    \A o \in Ops :
        /\ WF_fileVars(EnterCallback(o)) /\ WF_fileVars(Inner(o))
        /\ WF_fileVars(FinishCallback(o)) /\ WF_fileVars(Settle(o) /\ UNCHANGED toolVars)

FileSpec == FileInit /\ [][FileNext]_fileVars /\ FileFairness
---------------------------------------------------------------------------
(* "Serialize file mutation operations targeting the same file": by        *)
(* whatever names they were called, two calls are never both inside their  *)
(* callbacks (there is one file).                                          *)
FileExclusion ==
    \A o, p \in Ops : phase[o] = "running" /\ phase[p] = "running" => o = p

(* A call that reported success has its text in the file, unless a write   *)
(* was made after it; nobody's edit is based on a text that lacks it.  So  *)
(* it is as long as no write was cut short by an abort or an error.        *)
Overwritten(o) == \E p \in Writes \ {o} : arrival[p] > arrival[o] /\ phase[p] \in {"running", "done"}

NoLostEdit ==
    broken = {} => \A o \in Ops :
        outcome[o] = "ok" /\ ~Overwritten(o)
            => \/ text # Missing /\ o \in text
               \/ \E p \in Ops : step[p] = "filling" /\ o \in buffer[p]

(* The stronger reading of the same sentence: no two writes of the file    *)
(* are under way at once.  It fails: an abort releases the queue while the *)
(* aborted call's write goes on.                                           *)
SerializedWrites ==
    \A o, p \in Ops : {step[o], step[p]} \subseteq {"writing", "filling"} => o = p

(* A call that was aborted before it began to write never does.            *)
AbortedNeverWrites ==
    [][\A o \in Ops : Aborted(o) /\ step[o] \notin {"writing", "filling"}
            => step'[o] \notin {"writing", "filling"}]_fileVars
=============================================================================
