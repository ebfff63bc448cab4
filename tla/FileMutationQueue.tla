------------------------- MODULE FileMutationQueue -------------------------
(***************************************************************************)
(* withFileMutationQueue of                                                *)
(* packages/coding-agent/src/core/tools/file-mutation-queue.ts: a module-  *)
(* level map from a file's key to a promise chain, which every caller      *)
(* extends with a promise of its own and awaits before it runs its         *)
(* callback.                                                               *)
(*                                                                         *)
(* A call is a member of Ops.  The promise a call creates (nextQueue, and  *)
(* chainedQueue = currentQueue.then(() => nextQueue)) is named by the call *)
(* itself, so queues[k] is the call whose chainedQueue the map holds, or   *)
(* None when the map has no entry.  JavaScript runs one callback at a      *)
(* time: everything between two awaits is one action, and the settling of  *)
(* a promise chain, which takes microtasks of its own, is an action        *)
(* (Settle) that other callbacks may precede.                              *)
(***************************************************************************)
EXTENDS Naturals

CONSTANTS Ops,    \* calls of withFileMutationQueue
          Keys,   \* what getMutationQueueKey can return
          None    \* no promise: no map entry, or the resolved promise

ASSUME NoneAssumption == None \notin Ops \cup Keys

VARIABLES
    queues,   \* fileMutationQueues: key -> tail of the promise chain, or None
    phase,    \* where each call is: "idle", "waiting", "running" or "done"
    key,      \* the key each call computed, None before
    prev,     \* currentQueue of each call: the chain it awaits, or None
    settled,  \* the calls whose chainedQueue promise has been resolved
    arrival,  \* history: the place of each call in the order of the calls
    clock     \* history: how many calls were made

queueVars == <<queues, phase, key, prev, settled, arrival, clock>>

(* Every variable keeps its type: the map holds calls or nothing, a call   *)
(* is in one of four phases.                                               *)
QueueTypeOK ==
    /\ queues \in [Keys -> Ops \cup {None}]
    /\ phase \in [Ops -> {"idle", "waiting", "running", "done"}]
    /\ key \in [Ops -> Keys \cup {None}]
    /\ prev \in [Ops -> Ops \cup {None}]
    /\ settled \in SUBSET Ops
    /\ arrival \in [Ops -> Nat]
    /\ clock \in Nat

QueueInit ==
    /\ queues = [k \in Keys |-> None]
    /\ phase = [o \in Ops |-> "idle"]
    /\ key = [o \in Ops |-> None]
    /\ prev = [o \in Ops |-> None]
    /\ settled = {}
    /\ arrival = [o \in Ops |-> 0]
    /\ clock = 0

(* Lines 20-30: the synchronous prefix of a call, up to await currentQueue. *)
Call(o, k) ==
    /\ phase[o] = "idle"
    /\ key' = [key EXCEPT ![o] = k]
    /\ prev' = [prev EXCEPT ![o] = queues[k]]
    /\ queues' = [queues EXCEPT ![k] = o]
    /\ phase' = [phase EXCEPT ![o] = "waiting"]
    /\ arrival' = [arrival EXCEPT ![o] = clock + 1]
    /\ clock' = clock + 1
    /\ UNCHANGED settled

(* The awaited chain is resolved: the callback fn is entered (line 32).    *)
PrevResolved(o) == prev[o] = None \/ prev[o] \in settled

Start(o) ==
    /\ phase[o] = "waiting"
    /\ PrevResolved(o)
    /\ phase' = [phase EXCEPT ![o] = "running"]
    /\ UNCHANGED <<queues, key, prev, settled, arrival, clock>>

(* fn's promise settles, either way: the finally block (lines 33-38).      *)
KeepEntry(o) ==     \* mutant: the entry is never deleted
    UNCHANGED queues
DropIfTail(o) ==
    queues' = [queues EXCEPT ![key[o]] = IF @ = o THEN None ELSE @]

Finish(o) ==
    /\ phase[o] = "running"
    /\ phase' = [phase EXCEPT ![o] = "done"]
    /\ DropIfTail(o)
    /\ UNCHANGED <<key, prev, settled, arrival, clock>>

(* chainedQueue resolves once currentQueue and nextQueue are (line 27).    *)
SettleOnlyIfTail(o) ==   \* mutant: releaseNext is called inside the if
    /\ phase[o] = "done" /\ o \notin settled
    /\ PrevResolved(o)
    /\ queues[key[o]] = None
    /\ settled' = settled \cup {o}
    /\ UNCHANGED <<queues, phase, key, prev, arrival, clock>>
Settle(o) ==
    /\ phase[o] = "done"
    /\ o \notin settled
    /\ PrevResolved(o)
    /\ settled' = settled \cup {o}
    /\ UNCHANGED <<queues, phase, key, prev, arrival, clock>>

QueueNext ==
    \E o \in Ops :
        \/ \E k \in Keys : Call(o, k)
        \/ Start(o)
        \/ Finish(o)
        \/ Settle(o)

(* The event loop runs every ready continuation; a callback is assumed to   *)
(* settle, which is what the tools promise of theirs.                       *)
QueueFairness ==
    \A o \in Ops : WF_queueVars(Start(o)) /\ WF_queueVars(Finish(o)) /\ WF_queueVars(Settle(o))

QueueSpec == QueueInit /\ [][QueueNext]_queueVars /\ QueueFairness
----------------------------------------------------------------------------
SameKey(o, p) == o # p /\ key[o] # None /\ key[o] = key[p]

(* "Serialize file mutation operations targeting the same file" (line 16): *)
(* two calls that computed the same key are never both inside their        *)
(* callbacks.                                                              *)
MutualExclusion ==
    \A o, p \in Ops :
        SameKey(o, p) => ~(phase[o] = "running" /\ phase[p] = "running")

(* Calls with one key enter their callbacks in the order they were made:   *)
(* when a call has entered, every earlier call with its key has finished.  *)
FirstComeFirstServed ==
    \A o, p \in Ops :
        SameKey(o, p) /\ arrival[o] < arrival[p] /\ phase[p] \in {"running", "done"}
            => phase[o] = "done"

(* The map does not leak: once no call with key k is waiting or running,   *)
(* the map holds no entry for k (lines 35-37).                             *)
NoStaleEntry ==
    \A k \in Keys :
        queues[k] # None => \E o \in Ops : key[o] = k /\ phase[o] \in {"waiting", "running"}

(* The promise chain implements the mutex the callers are promised,        *)
(* fairness included: no call begins before its predecessors with the key  *)
(* returned, and every call begins and returns.                            *)
Mutex == INSTANCE KeyedMutex
ImplementsMutex == Mutex!MutexSpec
=============================================================================
