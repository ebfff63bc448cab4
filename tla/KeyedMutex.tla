---------------------------- MODULE KeyedMutex ----------------------------
(***************************************************************************)
(* What withFileMutationQueue promises its callers, without its promise    *)
(* chain: calls with one key run one at a time, in the order they were     *)
(* made, and calls with different keys do not wait for one another         *)
(* ("Serialize file mutation operations targeting the same file.           *)
(* Operations for different files still run in parallel.",                 *)
(* file-mutation-queue.ts:16-17).                                          *)
(***************************************************************************)
EXTENDS Naturals

CONSTANTS Ops, Keys, None

VARIABLES phase, key, arrival, clock

mutexVars == <<phase, key, arrival, clock>>

MutexInit ==
    /\ phase = [o \in Ops |-> "idle"]
    /\ key = [o \in Ops |-> None]
    /\ arrival = [o \in Ops |-> 0]
    /\ clock = 0

Enter(o, k) ==
    /\ phase[o] = "idle"
    /\ phase' = [phase EXCEPT ![o] = "waiting"]
    /\ key' = [key EXCEPT ![o] = k]
    /\ arrival' = [arrival EXCEPT ![o] = clock + 1]
    /\ clock' = clock + 1

(* Only calls with the same key that came first are waited for.            *)
Begin(o) ==
    /\ phase[o] = "waiting"
    /\ \A p \in Ops : p # o /\ key[p] = key[o] /\ arrival[p] < arrival[o] => phase[p] = "done"
    /\ phase' = [phase EXCEPT ![o] = "running"]
    /\ UNCHANGED <<key, arrival, clock>>

End(o) ==
    /\ phase[o] = "running"
    /\ phase' = [phase EXCEPT ![o] = "done"]
    /\ UNCHANGED <<key, arrival, clock>>

MutexNext ==
    \E o \in Ops :
        \/ \E k \in Keys : Enter(o, k)
        \/ Begin(o)
        \/ End(o)

MutexSpec ==
    /\ MutexInit /\ [][MutexNext]_mutexVars
    /\ \A o \in Ops : WF_mutexVars(Begin(o)) /\ WF_mutexVars(End(o))
=============================================================================
