----------------------------- MODULE EventStream -----------------------------
(***************************************************************************)
(* EventStream (packages/ai/src/utils/event-stream.ts): events pushed by   *)
(* one producer are taken by async iterators, and result() is a promise    *)
(* for what the final event carries.  The producer is agentLoop() of       *)
(* packages/agent/src/agent-loop.ts, or the provider of a model.           *)
(*                                                                         *)
(* Events are numbered in the order they are pushed.  Between two pushes,  *)
(* and between resolving a waiter and the iterator that awaits it going    *)
(* on, anything may happen.                                                *)
(***************************************************************************)
EXTENDS Naturals, Sequences

CONSTANTS Consumers,    \* the iterators
          MaxEvents     \* bound on the events pushed, the final one included

ASSUME StreamAssumption == MaxEvents \in Nat \ {0}

VARIABLES
    buffer,    \* queue: events nobody waited for
    waiting,   \* the iterators that await the next event
    done,
    result,    \* has the result promise been resolved
    pushed,    \* how many events were pushed
    producer,  \* "running", "final" (end() is still to be called), "ended" or "threw"
    at,        \* where each iterator is
    handed,    \* what the promise an iterator awaits was resolved with
    received   \* history: the events each iterator yielded

streamVars == <<buffer, waiting, done, result, pushed, producer, at, handed, received>>
Undelivered == 0
EndOfStream == MaxEvents + 1

StreamInit ==
    /\ buffer = <<>> /\ waiting = <<>>
    /\ done = FALSE /\ result = FALSE
    /\ pushed = 0 /\ producer = "running"
    /\ at = [c \in Consumers |-> "new"]
    /\ handed = [c \in Consumers |-> Undelivered]
    /\ received = [c \in Consumers |-> <<>>]

(* The final event ends the stream before it is delivered.                 *)
Push(final) ==
    /\ producer = "running" /\ ~done
    /\ pushed + 1 < MaxEvents \/ final
    /\ pushed' = pushed + 1
    /\ done' = final /\ result' = final
    /\ producer' = IF final THEN "final" ELSE "running"
    /\ IF waiting # <<>>
         THEN /\ handed' = [handed EXCEPT ![Head(waiting)] = pushed + 1]
              /\ waiting' = Tail(waiting)
              /\ UNCHANGED buffer
         ELSE buffer' = Append(buffer, pushed + 1) /\ UNCHANGED <<waiting, handed>>
    /\ UNCHANGED <<at, received>>

(* end(): everybody who waits is told, the first of them first.            *)
FirstWaiter == IF waiting = <<>> THEN 0 ELSE 1 \* mutant: if instead of while
WokenByEnd == Len(waiting)

End ==
    /\ producer = "final"
    /\ done' = TRUE /\ producer' = "ended"
    /\ handed' = [c \in Consumers |-> IF \E i \in 1 .. WokenByEnd : waiting[i] = c THEN EndOfStream ELSE handed[c]]
    /\ waiting' = SubSeq(waiting, WokenByEnd + 1, Len(waiting))
    /\ UNCHANGED <<buffer, result, pushed, at, received>>

(* runAgentLoop throws: nothing handles the rejection, end() is not called.*)
Throw ==
    /\ producer = "running"
    /\ producer' = "threw"
    /\ UNCHANGED <<buffer, waiting, done, result, pushed, at, handed, received>>

(* A for-await loop over the stream begins, at any time.                   *)
Open(c) ==
    /\ at[c] = "new"
    /\ at' = [at EXCEPT ![c] = "ready"]
    /\ UNCHANGED <<buffer, waiting, done, result, pushed, producer, handed, received>>

(* One round of the iterator: what is queued comes before the end.         *)
DoneFirst == done                      \* mutant: the end is looked at first
Drained == buffer = <<>> /\ done

Yields(c, e) == at' = [at EXCEPT ![c] = "ready"] /\ received' = [received EXCEPT ![c] = Append(@, e)]

Take(c) ==
    /\ at[c] = "ready" /\ buffer # <<>>
    /\ Yields(c, Head(buffer)) /\ buffer' = Tail(buffer)
    /\ UNCHANGED <<waiting, done, result, pushed, producer, handed>>

Return(c) ==
    /\ at[c] = "ready" /\ Drained
    /\ at' = [at EXCEPT ![c] = "returned"]
    /\ UNCHANGED <<buffer, waiting, done, result, pushed, producer, handed, received>>

Wait(c) ==
    /\ at[c] = "ready" /\ buffer = <<>> /\ ~done
    /\ at' = [at EXCEPT ![c] = "waiting"]
    /\ waiting' = Append(waiting, c)
    /\ UNCHANGED <<buffer, done, result, pushed, producer, handed, received>>

Wake(c) ==
    /\ at[c] = "waiting" /\ handed[c] # Undelivered
    /\ handed' = [handed EXCEPT ![c] = Undelivered]
    /\ IF handed[c] = EndOfStream
         THEN at' = [at EXCEPT ![c] = "returned"] /\ UNCHANGED received
         ELSE Yields(c, handed[c])
    /\ UNCHANGED <<buffer, waiting, done, result, pushed, producer>>

(* The body of the for-await loop returns, as streamAssistantResponse does *)
(* at the final event.                                                     *)
Leave(c) ==
    /\ at[c] = "ready" /\ received[c] # <<>>
    /\ at' = [at EXCEPT ![c] = "left"]
    /\ UNCHANGED <<buffer, waiting, done, result, pushed, producer, handed, received>>

Produce == (\E final \in BOOLEAN : Push(final)) \/ End
Iterate(c) == Take(c) \/ Return(c) \/ Wait(c) \/ Wake(c)

StreamNext == Produce \/ Throw \/ \E c \in Consumers : Open(c) \/ Iterate(c) \/ Leave(c)

StreamSpec ==
    /\ StreamInit /\ [][StreamNext]_streamVars
    /\ WF_streamVars(Produce) /\ \A c \in Consumers : WF_streamVars(Iterate(c))
---------------------------------------------------------------------------
InBuffer(e) == \E i \in DOMAIN buffer : buffer[i] = e
Increasing(s) == \A i, j \in DOMAIN s : i < j => s[i] < s[j]
YieldedBy(c, e) == \E i \in DOMAIN received[c] : received[c][i] = e

(* Every event that was pushed is still on its way or was yielded, by one  *)
(* iterator and in the order pushed, and an iterator does not return       *)
(* before the queue is empty.                                              *)
EventsDelivered ==
    /\ \A e \in 1 .. pushed :
         \/ InBuffer(e)
         \/ \E c \in Consumers : handed[c] = e \/ YieldedBy(c, e)
    /\ \A c, d \in Consumers, e \in 1 .. pushed : YieldedBy(c, e) /\ YieldedBy(d, e) => c = d
    /\ \A c \in Consumers :
         /\ Increasing(received[c] \o (IF handed[c] = Undelivered THEN <<>> ELSE <<handed[c]>>) \o buffer)
         /\ at[c] = "returned" => done /\ buffer = <<>>

Threw == producer = "threw"
Over(c) == at[c] \in {"returned", "left"}

(* Unless the loop throws, every iteration that begins ends, and once      *)
(* there are events there will be a result.                                *)
IterationEnds ==
    /\ pushed > 0 ~> result \/ Threw
    /\ \A c \in Consumers : at[c] = "ready" ~> Over(c) \/ Threw

(* The same of a loop that throws.                                         *)
EveryIterationEnds == \A c \in Consumers : at[c] = "ready" ~> Over(c)
=============================================================================
