-------------------------- MODULE FileTools_proofs --------------------------
(***************************************************************************)
(* Proofs about the file mutation queue, for any number of calls and keys, *)
(* and about the write and edit tools over one file that exists, for any   *)
(* calls, names and aborts.                                                *)
(*                                                                         *)
(* Mutual exclusion is not inductive: what makes it so is that the map     *)
(* holds the last call made with each key, that a call awaits the call     *)
(* made just before it, and that a promise chain settles only when every   *)
(* call up to it has returned (Chain below).                               *)
(*                                                                         *)
(* That nobody's text is lost rests on the queue: a call that writes is    *)
(* inside its callback, nobody else is, and what it will write has the     *)
(* text of every call that returned before.                                *)
(***************************************************************************)
EXTENDS FileTools, TLAPS


Entered(o) == phase[o] # "idle"

Before(p, o) == SameKey(p, o) /\ arrival[p] < arrival[o]

AllBeforeDone(o) == \A p \in Ops : Before(p, o) => phase[p] = "done"

KeysMatchPhases == \A o \in Ops : Entered(o) <=> key[o] # None

Arrivals ==
    /\ \A o \in Ops : Entered(o) => arrival[o] <= clock
    /\ \A o, p \in Ops : o # p /\ Entered(o) /\ Entered(p) => arrival[o] # arrival[p]

(* queues[k] is the last call with key k, or every such call has returned. *)
MapHoldsTail ==
    \A k \in Keys :
        /\ queues[k] = None => \A o \in Ops : key[o] = k => phase[o] = "done"
        /\ queues[k] # None =>
            /\ key[queues[k]] = k
            /\ phase[queues[k]] \in {"waiting", "running"}
            /\ \A o \in Ops : key[o] = k /\ o # queues[k] => arrival[o] < arrival[queues[k]]

(* prev[o] is the call with o's key made just before o.                    *)
PrevIsPredecessor ==
    \A o \in Ops : Entered(o) =>
        /\ prev[o] = None => AllBeforeDone(o)
        /\ prev[o] # None =>
            /\ Before(prev[o], o)
            /\ \A q \in Ops : Before(q, o) /\ q # prev[o] => arrival[q] < arrival[prev[o]]

SettledMeansDone ==
    \A o \in settled : phase[o] = "done" /\ AllBeforeDone(o)

RunInOrder ==
    \A o \in Ops : phase[o] \in {"running", "done"} => AllBeforeDone(o)

Chain ==
    /\ QueueTypeOK
    /\ KeysMatchPhases
    /\ Arrivals
    /\ MapHoldsTail
    /\ PrevIsPredecessor
    /\ SettledMeansDone
    /\ RunInOrder
----------------------------------------------------------------------------
(* A call whose awaited promise has resolved has no unfinished predecessor. *)
LEMMA ResolvedMeansFree ==
    ASSUME Chain, NEW o \in Ops, Entered(o), PrevResolved(o)
    PROVE  AllBeforeDone(o)
<1>1. CASE prev[o] = None
  BY <1>1 DEF Chain, PrevIsPredecessor
<1>2. CASE prev[o] \in settled
  <2>1. prev[o] # None /\ prev[o] \in Ops
    BY <1>2, NoneAssumption DEF Chain, QueueTypeOK
  <2>2. phase[prev[o]] = "done" /\ AllBeforeDone(prev[o])
    BY <1>2 DEF Chain, SettledMeansDone
  <2>3. Before(prev[o], o)
    BY <2>1 DEF Chain, PrevIsPredecessor
  <2>4. SUFFICES ASSUME NEW q \in Ops, Before(q, o)
                 PROVE  phase[q] = "done"
    BY DEF AllBeforeDone
  <2>5. CASE q = prev[o]
    BY <2>2, <2>5
  <2>6. CASE q # prev[o]
    <3>1. arrival[q] < arrival[prev[o]]
      BY <2>1, <2>4, <2>6 DEF Chain, PrevIsPredecessor
    <3>2. Before(q, prev[o])
      BY <2>3, <2>4, <2>6, <3>1 DEF Before, SameKey
    <3> QED BY <2>1, <2>2, <3>2 DEF AllBeforeDone
  <2> QED BY <2>5, <2>6
<1> QED BY <1>1, <1>2 DEF PrevResolved

(* The chain has its shape initially.                                      *)
LEMMA ChainInit == QueueInit => Chain
BY NoneAssumption DEF QueueInit, Chain, QueueTypeOK, KeysMatchPhases, Arrivals, MapHoldsTail,
   PrevIsPredecessor, SettledMeansDone, RunInOrder, Entered, Before, AllBeforeDone, SameKey

(* A new call joins its chain at the end.                                  *)
LEMMA CallKeepsChain ==
    ASSUME Chain, NEW o \in Ops, NEW k \in Keys, Call(o, k)
    PROVE  Chain'
<1>0. /\ QueueTypeOK /\ KeysMatchPhases /\ Arrivals /\ MapHoldsTail
      /\ PrevIsPredecessor /\ SettledMeansDone /\ RunInOrder
  BY DEF Chain
<1>1. QueueTypeOK'
  BY <1>0 DEF QueueTypeOK, Call
<1>2. KeysMatchPhases'
  BY <1>0, NoneAssumption DEF QueueTypeOK, KeysMatchPhases, Entered, Call
<1>3. Arrivals'
  BY <1>0 DEF QueueTypeOK, Arrivals, Entered, Call
<1>4. \A p, q \in Ops : q # o => (Before(p, q)' <=> Before(p, q))
  BY <1>0, NoneAssumption DEF QueueTypeOK, Before, SameKey, Call, KeysMatchPhases, Entered, Arrivals
<1>5. \A p \in Ops : Before(p, o)' <=> p # o /\ key[p] = k
  BY <1>0, NoneAssumption DEF QueueTypeOK, Before, SameKey, Call, KeysMatchPhases, Entered, Arrivals
<1>6. MapHoldsTail'
  BY <1>0, NoneAssumption DEF QueueTypeOK, MapHoldsTail, Call, KeysMatchPhases, Entered, Arrivals
<1>7. \A q \in Ops : q # o /\ AllBeforeDone(q) => AllBeforeDone(q)'
  BY <1>0, <1>4 DEF QueueTypeOK, AllBeforeDone, Call, Before, SameKey, KeysMatchPhases, Entered
<1>8. PrevIsPredecessor'
  <2>1. SUFFICES ASSUME NEW q \in Ops, Entered(q)'
                 PROVE  /\ prev'[q] = None => AllBeforeDone(q)'
                        /\ prev'[q] # None =>
                            /\ Before(prev[q], q)'
                            /\ \A r \in Ops : Before(r, q)' /\ r # prev'[q] => arrival'[r] < arrival'[prev'[q]]
    BY DEF PrevIsPredecessor
  <2>2. CASE q # o
    <3>1. Entered(q) /\ prev'[q] = prev[q]
      BY <1>0, <2>1, <2>2 DEF Call, Entered, QueueTypeOK
    <3>2. CASE prev[q] = None
      BY <1>0, <1>7, <2>2, <3>1, <3>2 DEF PrevIsPredecessor
    <3>3. CASE prev[q] # None
      <4>1. prev[q] \in Ops /\ Before(prev[q], q)
        BY <1>0, <3>1, <3>3 DEF PrevIsPredecessor, QueueTypeOK
      <4>2. prev[q] # o
        BY <1>0, <4>1 DEF Before, SameKey, Call, KeysMatchPhases, Entered
      <4>3. \A r \in Ops : Before(r, q)' /\ r # prev[q] => arrival'[r] < arrival'[prev[q]]
        BY <1>0, <1>4, <2>2, <3>1, <3>3, <4>1, <4>2
           DEF PrevIsPredecessor, Call, QueueTypeOK, Before, SameKey, KeysMatchPhases, Entered
      <4> QED BY <1>4, <2>2, <3>1, <3>3, <4>1, <4>3
    <3> QED BY <3>2, <3>3
  <2>3. CASE q = o
    <3>1. prev'[o] = queues[k]
      BY <1>0 DEF Call, QueueTypeOK
    <3>2. CASE queues[k] = None
      BY <1>0, <1>5, <2>3, <3>1, <3>2 DEF AllBeforeDone, MapHoldsTail, Call, QueueTypeOK
    <3>3. CASE queues[k] # None
      <4>1. PICK t \in Ops : t = queues[k] /\ t # o /\ key[t] = k
        BY <1>0, <3>3 DEF MapHoldsTail, QueueTypeOK, Call
      <4>2. Before(t, o)'
        BY <1>5, <4>1
      <4>3. \A r \in Ops : Before(r, o)' /\ r # t => arrival'[r] < arrival'[t]
        BY <1>0, <1>5, <3>3, <4>1 DEF MapHoldsTail, Call, QueueTypeOK
      <4> QED BY <2>3, <3>1, <3>3, <4>1, <4>2, <4>3
    <3> QED BY <3>2, <3>3
  <2> QED BY <2>2, <2>3
<1>9. SettledMeansDone'
  BY <1>0, <1>7 DEF SettledMeansDone, Call, QueueTypeOK
<1>10. RunInOrder'
  BY <1>0, <1>7 DEF RunInOrder, Call, QueueTypeOK
<1> QED BY <1>1, <1>2, <1>3, <1>6, <1>8, <1>9, <1>10 DEF Chain

(* A call begins only when those before it are done.                       *)
LEMMA StartKeepsChain ==
    ASSUME Chain, NEW o \in Ops, Start(o)
    PROVE  Chain'
<1>0. /\ QueueTypeOK /\ KeysMatchPhases /\ Arrivals /\ MapHoldsTail
      /\ PrevIsPredecessor /\ SettledMeansDone /\ RunInOrder
  BY DEF Chain
<1>1. AllBeforeDone(o)
  BY ResolvedMeansFree DEF Start, Entered
<1>2. \A p, q \in Ops : Before(p, q)' <=> Before(p, q)
  BY DEF Before, SameKey, Start
<1>3. \A q \in Ops : AllBeforeDone(q) => AllBeforeDone(q)'
  BY <1>0, <1>2 DEF AllBeforeDone, Start, QueueTypeOK
<1>4. \A q \in Ops : Entered(q)' <=> Entered(q)
  BY <1>0 DEF Entered, Start, QueueTypeOK
<1>5. QueueTypeOK'
  BY <1>0 DEF QueueTypeOK, Start
<1>6. KeysMatchPhases' /\ Arrivals'
  BY <1>0, <1>4 DEF KeysMatchPhases, Arrivals, Start
<1>7. MapHoldsTail'
  BY <1>0 DEF MapHoldsTail, Start, QueueTypeOK
<1>8. PrevIsPredecessor'
  BY <1>0, <1>2, <1>3, <1>4 DEF PrevIsPredecessor, Start, QueueTypeOK
<1>9. SettledMeansDone'
  BY <1>0, <1>3 DEF SettledMeansDone, Start, QueueTypeOK
<1>10. RunInOrder'
  BY <1>0, <1>1, <1>3 DEF RunInOrder, Start, QueueTypeOK
<1> QED BY <1>5, <1>6, <1>7, <1>8, <1>9, <1>10 DEF Chain

(* A call that returns drops the entry of the map only if it is the last.  *)
LEMMA FinishKeepsChain ==
    ASSUME Chain, NEW o \in Ops, Finish(o)
    PROVE  Chain'
<1>0. /\ QueueTypeOK /\ KeysMatchPhases /\ Arrivals /\ MapHoldsTail
      /\ PrevIsPredecessor /\ SettledMeansDone /\ RunInOrder
  BY DEF Chain
<1>1. key[o] \in Keys
  BY <1>0 DEF Finish, KeysMatchPhases, Entered, QueueTypeOK
<1>2. \A p, q \in Ops : Before(p, q)' <=> Before(p, q)
  BY DEF Before, SameKey, Finish
<1>3. \A q \in Ops : AllBeforeDone(q) => AllBeforeDone(q)'
  BY <1>0, <1>2 DEF AllBeforeDone, Finish, QueueTypeOK
<1>4. \A q \in Ops : Entered(q)' <=> Entered(q)
  BY <1>0 DEF Entered, Finish, QueueTypeOK
<1>5. QueueTypeOK'
  BY <1>0 DEF QueueTypeOK, Finish, DropIfTail
<1>6. KeysMatchPhases' /\ Arrivals'
  BY <1>0, <1>4 DEF KeysMatchPhases, Arrivals, Finish
<1>7. MapHoldsTail'
  <2>1. SUFFICES ASSUME NEW k \in Keys
                 PROVE  /\ queues'[k] = None => \A p \in Ops : key[p] = k => phase'[p] = "done"
                        /\ queues'[k] # None =>
                            /\ key[queues'[k]] = k
                            /\ phase'[queues'[k]] \in {"waiting", "running"}
                            /\ \A p \in Ops : key[p] = k /\ p # queues'[k] => arrival[p] < arrival[queues'[k]]
    BY DEF MapHoldsTail, Finish
  <2>2. CASE queues[k] = o
    <3>1. key[o] = k /\ queues'[k] = None
      BY <1>0, <1>1, <2>2, NoneAssumption DEF MapHoldsTail, QueueTypeOK, Finish, DropIfTail
    <3>2. \A p \in Ops : key[p] = k /\ p # o => Before(p, o)
      BY <1>0, <2>2, <3>1, NoneAssumption DEF MapHoldsTail, QueueTypeOK, Before, SameKey
    <3>3. AllBeforeDone(o)
      BY <1>0 DEF RunInOrder, Finish
    <3> QED BY <1>0, <3>1, <3>2, <3>3 DEF AllBeforeDone, Finish, QueueTypeOK
  <2>3. CASE queues[k] # o
    <3>1. queues'[k] = queues[k]
      BY <1>0, <2>3 DEF Finish, DropIfTail, QueueTypeOK
    <3> QED BY <1>0, <2>3, <3>1 DEF MapHoldsTail, Finish, QueueTypeOK
  <2> QED BY <2>2, <2>3
<1>8. PrevIsPredecessor'
  BY <1>0, <1>2, <1>3, <1>4 DEF PrevIsPredecessor, Finish, QueueTypeOK
<1>9. SettledMeansDone'
  BY <1>0, <1>3 DEF SettledMeansDone, Finish, QueueTypeOK
<1>10. RunInOrder'
  BY <1>0, <1>3 DEF RunInOrder, Finish, QueueTypeOK
<1> QED BY <1>5, <1>6, <1>7, <1>8, <1>9, <1>10 DEF Chain

(* Resolving the promise of a call that is done keeps the shape.           *)
LEMMA SettleKeepsChain ==
    ASSUME Chain, NEW o \in Ops, Settle(o)
    PROVE  Chain'
<1>1. AllBeforeDone(o)
  BY ResolvedMeansFree DEF Settle, Entered
<1> QED
  BY <1>1 DEF Chain, Settle, QueueTypeOK, KeysMatchPhases, Arrivals, MapHoldsTail, PrevIsPredecessor,
     SettledMeansDone, RunInOrder, Entered, Before, AllBeforeDone, SameKey

(* A step that changes nothing keeps the shape.                            *)
LEMMA StutterKeepsChain == Chain /\ UNCHANGED queueVars => Chain'
BY DEF queueVars, Chain, QueueTypeOK, KeysMatchPhases, Arrivals, MapHoldsTail, PrevIsPredecessor,
   SettledMeansDone, RunInOrder, Entered, Before, AllBeforeDone, SameKey

(* Every step of the queue keeps the shape.                                *)
LEMMA ChainKept == Chain /\ [QueueNext]_queueVars => Chain'
BY CallKeepsChain, StartKeepsChain, FinishKeepsChain, SettleKeepsChain, StutterKeepsChain
   DEF QueueNext

(* The promise chain keeps its shape in every reachable state.             *)
THEOREM ChainInvariant == QueueSpec => []Chain
BY ChainInit, ChainKept, PTL DEF QueueSpec

(* The variables keep their types: the map holds calls or nothing, every   *)
(* call has one of the four phases.                                        *)
THEOREM QueueTypeCorrect == QueueSpec => []QueueTypeOK
<1>1. Chain => QueueTypeOK
  BY DEF Chain
<1> QED BY ChainInvariant, <1>1, PTL

(* Two calls with one key are never both inside their callbacks            *)
(* (file-mutation-queue.ts:16), whatever the number of calls and keys.     *)
THEOREM MutualExclusionHolds == QueueSpec => []MutualExclusion
<1>1. Chain => MutualExclusion
  <2> SUFFICES ASSUME Chain, NEW o \in Ops, NEW p \in Ops, SameKey(o, p),
                      phase[o] = "running", phase[p] = "running"
               PROVE  FALSE
    BY DEF MutualExclusion
  <2>1. arrival[o] # arrival[p] /\ arrival[o] \in Nat /\ arrival[p] \in Nat
    BY DEF Chain, Arrivals, QueueTypeOK, Entered, SameKey
  <2>2. Before(o, p) \/ Before(p, o)
    BY <2>1 DEF Before, SameKey
  <2> QED BY <2>2 DEF Chain, RunInOrder, AllBeforeDone
<1> QED BY ChainInvariant, <1>1, PTL

(* The map never keeps an entry for a key nobody uses (lines 35-37).       *)
THEOREM NoStaleEntryHolds == QueueSpec => []NoStaleEntry
<1>1. Chain => NoStaleEntry
  BY DEF Chain, NoStaleEntry, MapHoldsTail, QueueTypeOK
<1> QED BY ChainInvariant, <1>1, PTL

(* Every step of the promise chain is a step of the first-come-first-      *)
(* served mutex of KeyedMutex, or changes nothing the callers see.         *)
THEOREM StepsImplementMutex == QueueSpec => Mutex!MutexInit /\ [][Mutex!MutexNext]_(Mutex!mutexVars)
<1>1. QueueInit => Mutex!MutexInit
  BY DEF QueueInit, Mutex!MutexInit
<1>2. Chain /\ [QueueNext]_queueVars => [Mutex!MutexNext]_(Mutex!mutexVars)
  <2> SUFFICES ASSUME Chain, [QueueNext]_queueVars
               PROVE  [Mutex!MutexNext]_(Mutex!mutexVars)
    OBVIOUS
  <2>1. ASSUME NEW o \in Ops, NEW k \in Keys, Call(o, k)
        PROVE  Mutex!MutexNext
    BY <2>1 DEF Call, Mutex!MutexNext, Mutex!Enter
  <2>2. ASSUME NEW o \in Ops, Start(o)
        PROVE  Mutex!MutexNext
    <3>1. AllBeforeDone(o) /\ Entered(o)
      BY <2>2, ResolvedMeansFree DEF Start, Entered
    <3>2. \A p \in Ops : p # o /\ key[p] = key[o] /\ arrival[p] < arrival[o] => phase[p] = "done"
      BY <3>1 DEF AllBeforeDone, Before, SameKey, Chain, KeysMatchPhases
    <3> QED BY <2>2, <3>2 DEF Start, Mutex!MutexNext, Mutex!Begin
  <2>3. ASSUME NEW o \in Ops, Finish(o)
        PROVE  Mutex!MutexNext
    BY <2>3 DEF Finish, Mutex!MutexNext, Mutex!End
  <2>4. ASSUME NEW o \in Ops, Settle(o)
        PROVE  UNCHANGED Mutex!mutexVars
    BY <2>4 DEF Settle, Mutex!mutexVars
  <2>5. CASE UNCHANGED queueVars
    BY <2>5 DEF queueVars, Mutex!mutexVars
  <2> QED BY <2>1, <2>2, <2>3, <2>4, <2>5 DEF QueueNext
<1> QED BY ChainInvariant, <1>1, <1>2, PTL DEF QueueSpec

---------------------------------------------------------------------------
(* The tools.                                                              *)
Texts == SUBSET (Ops \cup {Original})

Steps == {"idle", "mkdir", "access", "reading", "writing", "filling", "over"}

ToolTypeOK ==
    /\ text \in Texts
    /\ step \in [Ops -> Steps]
    /\ buffer \in [Ops -> Texts]
    /\ outcome \in [Ops -> {"none", "ok", "failed", "aborted"}]

(* The file exists: whatever the name, the key is its real path.           *)
RealKeys == \A o \in Ops : key[o] # None => key[o] = RealName

(* A call returns when its promise is settled, and its inner function has  *)
(* then ended unless it was aborted before it began to write, or its write *)
(* was cut short.                                                          *)
StepsMatch ==
    \A o \in Ops :
        /\ step[o] = "idle" <=> phase[o] \in {"idle", "waiting"}
        /\ phase[o] = "done" => outcome[o] # "none"
        /\ step[o] = "idle" => outcome[o] = "none"
        /\ step[o] = "over" => outcome[o] # "none"
        /\ step[o] \in {"mkdir", "access", "reading"} => outcome[o] \in {"none", "aborted"}
        /\ step[o] = "mkdir" => o \in Writes
        /\ step[o] \in {"writing", "filling"} => o \in buffer[o] /\ (broken = {} => outcome[o] = "none")

(* What a call is about to write, and what the file holds meanwhile, has   *)
(* the text of every call that succeeded and was not overwritten.          *)
Saved(o) == outcome[o] = "ok" /\ ~Overwritten(o)

TextsKept ==
    broken = {} => \A o \in Ops : Saved(o) =>
        /\ (\A p \in Ops : step[p] # "filling") => o \in text
        /\ \A p \in Ops : step[p] \in {"writing", "filling"} => o \in buffer[p]

FileInv == Chain /\ ToolTypeOK /\ RealKeys /\ StepsMatch /\ TextsKept
----------------------------------------------------------------------------
(* With one key for every name, calls enter one at a time and in order.    *)
LEMMA OneRunning ==
    ASSUME Chain, RealKeys, NEW o \in Ops, NEW p \in Ops, phase[p] = "running"
    PROVE  /\ phase[o] = "running" => o = p
           /\ phase[o] = "done" => arrival[o] < arrival[p]
<1> SUFFICES ASSUME phase[o] \in {"running", "done"}, o # p
             PROVE  phase[o] = "done" /\ arrival[o] < arrival[p]
  OBVIOUS
<1>1. SameKey(o, p) /\ SameKey(p, o)
  BY DEF Chain, KeysMatchPhases, RealKeys, Entered, SameKey
<1>2. arrival[o] \in Nat /\ arrival[p] \in Nat /\ arrival[o] # arrival[p]
  BY DEF Chain, QueueTypeOK, Arrivals, Entered
<1>3. ~(arrival[p] < arrival[o])
  BY <1>1 DEF Chain, RunInOrder, AllBeforeDone, Before
<1>4. arrival[o] < arrival[p]
  BY <1>2, <1>3
<1> QED BY <1>1, <1>4 DEF Chain, RunInOrder, AllBeforeDone, Before

(* As long as no write was cut short, who writes is alone in its callback. *)
LEMMA OneWriter ==
    ASSUME FileInv, broken = {}, NEW p \in Ops, step[p] \in {"writing", "filling"}
    PROVE  /\ phase[p] = "running" /\ outcome[p] = "none"
           /\ \A q \in Ops : step[q] \in {"writing", "filling"} => q = p
<1>1. \A q \in Ops : step[q] \in {"writing", "filling"} => phase[q] = "running" /\ outcome[q] = "none"
  <2> TAKE q \in Ops
  <2>1. phase[q] \in {"idle", "waiting", "running", "done"}
    BY DEF FileInv, Chain, QueueTypeOK
  <2> QED BY <2>1 DEF FileInv, StepsMatch
<1> QED BY <1>1, OneRunning DEF FileInv

(* What has overwritten a call's text stays after it.                      *)
LEMMA OverwrittenStays ==
    ASSUME Chain, [QueueNext]_queueVars, NEW o \in Ops, phase[o] # "idle", Overwritten(o)
    PROVE  Overwritten(o)'
<1>1. PICK p \in Writes \ {o} : arrival[p] > arrival[o] /\ phase[p] \in {"running", "done"}
  BY DEF Overwritten
<1>2. p \in Ops /\ QueueTypeOK
  BY FileAssumption DEF Chain
<1>3. arrival'[p] = arrival[p] /\ arrival'[o] = arrival[o] /\ phase'[p] \in {"running", "done"}
  <2>1. ASSUME NEW c \in Ops, NEW k \in Keys, Call(c, k)
        PROVE  arrival'[p] = arrival[p] /\ arrival'[o] = arrival[o] /\ phase'[p] \in {"running", "done"}
    <3>1. c # p /\ c # o
      BY <1>1, <2>1 DEF Call
    <3> QED BY <1>1, <1>2, <2>1, <3>1 DEF Call, QueueTypeOK
  <2>2. ASSUME NEW c \in Ops, Start(c) \/ Finish(c) \/ Settle(c)
        PROVE  arrival'[p] = arrival[p] /\ arrival'[o] = arrival[o] /\ phase'[p] \in {"running", "done"}
    BY <1>1, <1>2, <2>2 DEF Start, Finish, Settle, QueueTypeOK
  <2>3. CASE UNCHANGED queueVars
    BY <1>1, <2>3 DEF queueVars
  <2> QED BY <2>1, <2>2, <2>3 DEF QueueNext
<1> QED BY <1>1, <1>3 DEF Overwritten

(* A call that has succeeded had, and has, entered.                        *)
LEMMA SavedBefore ==
    ASSUME FileInv, [QueueNext]_queueVars, NEW o \in Ops, Saved(o)', outcome[o] = "ok"
    PROVE  Saved(o)
<1>1. phase[o] # "idle"
  BY DEF FileInv, StepsMatch
<1> QED BY <1>1, OverwrittenStays DEF Saved, FileInv

(* The calls are idle and the file has its original text at first.         *)
LEMMA FileInitInv ==
    ASSUME ~StartsMissing, FileInit
    PROVE  FileInv
<1>1. Chain
  BY ChainInit DEF FileInit
<1>2. ToolTypeOK /\ RealKeys
  BY DEF FileInit, QueueInit, ToolTypeOK, RealKeys, Texts, Steps
<1>3. StepsMatch /\ TextsKept
  BY DEF FileInit, QueueInit, StepsMatch, TextsKept, Saved
<1> QED BY <1>1, <1>2, <1>3 DEF FileInv

(* A call is made, returns, or settles its promise chain.                  *)
LEMMA QueueStepKeeps ==
    ASSUME FileInv, UNCHANGED toolVars, [QueueNext]_queueVars,
           NEW c \in Ops, Call(c, RealName) \/ (Finish(c) /\ outcome[c] # "none") \/ Settle(c) \/ UNCHANGED queueVars
    PROVE  FileInv'
<1>1. QueueTypeOK /\ Chain' /\ UNCHANGED <<text, step, buffer, outcome, broken>>
  BY ChainKept DEF FileInv, Chain, toolVars
<1>2. ToolTypeOK'
  BY <1>1 DEF FileInv, ToolTypeOK
<1>3. RealKeys'
  BY <1>1 DEF FileInv, RealKeys, Call, Finish, Settle, queueVars, QueueTypeOK
<1>4. StepsMatch'
  <2> SUFFICES ASSUME NEW o \in Ops
               PROVE  /\ phase'[o] \in {"idle", "waiting"} <=> phase[o] \in {"idle", "waiting"}
                      /\ phase'[o] = "done" => outcome[o] # "none"
    BY <1>1 DEF FileInv, StepsMatch
  <2>1. phase[o] = "done" => outcome[o] # "none"
    BY DEF FileInv, StepsMatch
  <2> QED BY <1>1, <2>1 DEF Call, Finish, Settle, queueVars, QueueTypeOK
<1>5. TextsKept'
  <2> SUFFICES ASSUME broken = {}, NEW o \in Ops, Saved(o)'
               PROVE  /\ (\A p \in Ops : step[p] # "filling") => o \in text
                      /\ \A p \in Ops : step[p] \in {"writing", "filling"} => o \in buffer[p]
    BY <1>1 DEF TextsKept
  <2>1. Saved(o)
    BY <1>1, SavedBefore DEF Saved
  <2> QED BY <2>1 DEF FileInv, TextsKept
<1> QED BY <1>1, <1>2, <1>3, <1>4, <1>5 DEF FileInv

(* A call enters its callback, and returns at once if it was aborted.      *)
LEMMA EnterKeeps ==
    ASSUME FileInv, NEW c \in Ops, EnterCallback(c)
    PROVE  FileInv'
<1>1. /\ QueueTypeOK /\ Start(c) /\ [QueueNext]_queueVars
      /\ UNCHANGED <<text, buffer, broken>>
      /\ \/ Goto(c, "over") /\ Settled(c, "aborted")
         \/ c \in Writes /\ Goto(c, "mkdir") /\ outcome' = outcome
         \/ Goto(c, "access") /\ outcome' = outcome
  BY DEF EnterCallback, QueueNext, FileInv, Chain
<1>2. Chain'
  BY <1>1, ChainKept DEF FileInv
<1>3. phase[c] = "waiting" /\ phase'[c] = "running" /\ \A o \in Ops : o # c => phase'[o] = phase[o]
  BY <1>1 DEF Start, QueueTypeOK
<1>4. /\ step' \in [Ops -> Steps] /\ outcome' \in [Ops -> {"none", "ok", "failed", "aborted"}]
      /\ step'[c] \in {"over", "mkdir", "access"} /\ (step'[c] = "mkdir" => c \in Writes)
      /\ \A o \in Ops : o # c => step'[o] = step[o] /\ outcome'[o] = outcome[o]
      /\ step'[c] = "over" => outcome'[c] = "aborted"
      /\ step'[c] # "over" => outcome'[c] = "none"
  <2>1. outcome[c] = "none" /\ step \in [Ops -> Steps] /\ outcome \in [Ops -> {"none", "ok", "failed", "aborted"}]
    BY <1>3 DEF FileInv, StepsMatch, ToolTypeOK
  <2> QED BY <1>1, <2>1 DEF Goto, Settled, Steps
<1>5. ToolTypeOK' /\ RealKeys'
  BY <1>1, <1>4 DEF FileInv, ToolTypeOK, RealKeys, Start
<1>6. StepsMatch'
  <2> SUFFICES ASSUME NEW o \in Ops
               PROVE  /\ step'[o] = "idle" <=> phase'[o] \in {"idle", "waiting"}
                      /\ phase'[o] = "done" => outcome'[o] # "none"
                      /\ step'[o] = "idle" => outcome'[o] = "none"
                      /\ step'[o] = "over" => outcome'[o] # "none"
                      /\ step'[o] \in {"mkdir", "access", "reading"} => outcome'[o] \in {"none", "aborted"}
                      /\ step'[o] = "mkdir" => o \in Writes
                      /\ step'[o] \in {"writing", "filling"} => o \in buffer[o] /\ (broken = {} => outcome'[o] = "none")
    BY <1>1 DEF StepsMatch
  <2>1. CASE o = c
    BY <1>3, <1>4, <2>1
  <2>2. CASE o # c
    BY <1>3, <1>4, <2>2 DEF FileInv, StepsMatch
  <2> QED BY <2>1, <2>2
<1>7. TextsKept'
  <2> SUFFICES ASSUME broken = {}, NEW o \in Ops, Saved(o)'
               PROVE  /\ (\A p \in Ops : step'[p] # "filling") => o \in text
                      /\ \A p \in Ops : step'[p] \in {"writing", "filling"} => o \in buffer[p]
    BY <1>1 DEF TextsKept
  <2>1. o # c /\ outcome[o] = "ok"
    BY <1>4 DEF Saved
  <2>2. Saved(o)
    BY <1>1, <2>1, SavedBefore
  <2>3. \A p \in Ops : step'[p] \in {"writing", "filling"} <=> step[p] \in {"writing", "filling"}
    BY <1>3, <1>4 DEF FileInv, StepsMatch
  <2>4. \A p \in Ops : step'[p] = "filling" <=> step[p] = "filling"
    BY <1>3, <1>4 DEF FileInv, StepsMatch
  <2> QED BY <2>2, <2>3, <2>4 DEF FileInv, TextsKept
<1> QED BY <1>2, <1>5, <1>6, <1>7 DEF FileInv

(* A step of one call's inner function or signal keeps the invariant if it *)
(* keeps what the invariant says of that call and of the text.             *)
LEMMA ToolStepKeeps ==
    ASSUME FileInv, UNCHANGED queueVars, broken \subseteq broken', ToolTypeOK', NEW c \in Ops,
           \A o \in Ops : o # c => step'[o] = step[o] /\ outcome'[o] = outcome[o] /\ buffer'[o] = buffer[o],
           step[c] # "idle", step'[c] # "idle", outcome[c] # "none" => outcome'[c] # "none",
           step'[c] = "over" => outcome'[c] # "none",
           step'[c] \in {"mkdir", "access", "reading"} => outcome'[c] \in {"none", "aborted"},
           step'[c] = "mkdir" => c \in Writes,
           step'[c] \in {"writing", "filling"} => c \in buffer'[c] /\ (broken' = {} => outcome'[c] = "none"),
           TextsKept'
    PROVE  FileInv'
<1>1. Chain' /\ phase' = phase /\ key' = key
  BY ChainKept DEF FileInv, queueVars
<1>2. RealKeys'
  BY <1>1 DEF FileInv, RealKeys
<1>3. StepsMatch'
  <2> SUFFICES ASSUME NEW o \in Ops
               PROVE  /\ step'[o] = "idle" <=> phase[o] \in {"idle", "waiting"}
                      /\ phase[o] = "done" => outcome'[o] # "none"
                      /\ step'[o] = "idle" => outcome'[o] = "none"
                      /\ step'[o] = "over" => outcome'[o] # "none"
                      /\ step'[o] \in {"mkdir", "access", "reading"} => outcome'[o] \in {"none", "aborted"}
                      /\ step'[o] = "mkdir" => o \in Writes
                      /\ step'[o] \in {"writing", "filling"} => o \in buffer'[o] /\ (broken' = {} => outcome'[o] = "none")
    BY <1>1 DEF StepsMatch
  <2>1. /\ step[o] = "idle" <=> phase[o] \in {"idle", "waiting"}
        /\ phase[o] = "done" => outcome[o] # "none"
        /\ step[o] = "idle" => outcome[o] = "none"
        /\ step[o] = "over" => outcome[o] # "none"
        /\ step[o] \in {"mkdir", "access", "reading"} => outcome[o] \in {"none", "aborted"}
        /\ step[o] = "mkdir" => o \in Writes
        /\ step[o] \in {"writing", "filling"} => o \in buffer[o] /\ (broken = {} => outcome[o] = "none")
    BY DEF FileInv, StepsMatch
  <2>2. CASE o = c
    BY <2>1, <2>2
  <2>3. CASE o # c
    BY <2>1, <2>3
  <2> QED BY <2>2, <2>3
<1> QED BY <1>1, <1>2, <1>3 DEF FileInv

(* A call whose promise is open and which has entered is in its callback.  *)
LEMMA OpenMeansRunning ==
    ASSUME FileInv, NEW c \in Ops, step[c] # "idle", outcome[c] = "none"
    PROVE  phase[c] = "running"
BY DEF FileInv, Chain, QueueTypeOK, StepsMatch

(* An abort settles the promise, and cuts a write short.                   *)
LEMMA AbortKeeps ==
    ASSUME FileInv, NEW c \in Ops, Abort(c)
    PROVE  FileInv'
<1>1. UNCHANGED <<queueVars, text, step, buffer>>
  BY DEF Abort
<1>2. CASE step[c] \in {"idle", "over"}
  <2>1. UNCHANGED <<outcome, broken>>
    BY <1>2 DEF Abort
  <2>2. Chain'
    BY <1>1, ChainKept DEF FileInv
  <2> QED BY <1>1, <2>1, <2>2 DEF FileInv, ToolTypeOK, RealKeys, StepsMatch, TextsKept, Saved, Overwritten, queueVars
<1>3. CASE step[c] \notin {"idle", "over"}
  <2>1. /\ outcome' = [outcome EXCEPT ![c] = IF @ = "none" THEN "aborted" ELSE @]
        /\ broken' = IF step[c] \in {"writing", "filling"} THEN broken \cup {c} ELSE broken
    BY <1>3 DEF Abort, Settled
  <2>2. ToolTypeOK' /\ \A o \in Ops : o # c => outcome'[o] = outcome[o]
    BY <1>1, <2>1 DEF FileInv, ToolTypeOK
  <2>3. outcome'[c] = IF outcome[c] = "none" THEN "aborted" ELSE outcome[c]
    BY <2>1 DEF FileInv, ToolTypeOK
  <2>4. broken \subseteq broken' /\ (step[c] \in {"writing", "filling"} => broken' # {}) /\ (broken' = {} => broken = {})
    BY <2>1
  <2>5. TextsKept'
    <3> SUFFICES ASSUME broken' = {}, NEW o \in Ops, Saved(o)'
                 PROVE  /\ (\A p \in Ops : step[p] # "filling") => o \in text
                        /\ \A p \in Ops : step[p] \in {"writing", "filling"} => o \in buffer[p]
      BY <1>1 DEF TextsKept
    <3>1. Saved(o)
      BY <1>1, <2>2, <2>3 DEF Saved, Overwritten, queueVars
    <3> QED BY <2>4, <3>1 DEF FileInv, TextsKept
  <2>6. /\ step[c] = "mkdir" => c \in Writes
        /\ step[c] \in {"mkdir", "access", "reading"} => outcome[c] \in {"none", "aborted"}
        /\ step[c] \in {"writing", "filling"} => c \in buffer[c]
    BY DEF FileInv, StepsMatch
  <2> QED BY <1>1, <1>3, <2>2, <2>3, <2>4, <2>5, <2>6, ToolStepKeeps
<1> QED BY <1>2, <1>3

(* Steps that write nothing and settle nothing as a success: the calls     *)
(* that were saved are, and nobody is about to write but those who were.   *)
LEMMA NothingWritten ==
    ASSUME FileInv, UNCHANGED <<queueVars, text, broken>>, NEW c \in Ops,
           \A o \in Ops : o # c => step'[o] = step[o] /\ outcome'[o] = outcome[o] /\ buffer'[o] = buffer[o],
           outcome'[c] = "ok" => outcome[c] = "ok",
           step[c] # "filling", step'[c] \notin {"writing", "filling"}
    PROVE  TextsKept'
<1> SUFFICES ASSUME broken = {}, NEW o \in Ops, Saved(o)'
             PROVE  /\ (\A p \in Ops : step'[p] # "filling") => o \in text
                    /\ \A p \in Ops : step'[p] \in {"writing", "filling"} => o \in buffer'[p]
  BY DEF TextsKept
<1>1. Saved(o)
  BY DEF Saved, Overwritten, queueVars
<1>2. \A p \in Ops : step'[p] # "filling" => step[p] # "filling"
  OBVIOUS
<1>3. \A p \in Ops : step'[p] \in {"writing", "filling"} => step[p] \in {"writing", "filling"} /\ buffer'[p] = buffer[p]
  OBVIOUS
<1> QED BY <1>1, <1>2, <1>3 DEF FileInv, TextsKept

(* A call ends without having written.                                     *)
LEMMA EndsEarly ==
    ASSUME FileInv, NEW c \in Ops, step[c] \in {"mkdir", "access", "reading"}, Goto(c, "over"),
           (Aborted(c) /\ outcome' = outcome) \/ Settled(c, "failed"),
           UNCHANGED <<queueVars, text, buffer, broken>>
    PROVE  FileInv'
<1>1. outcome[c] \in {"none", "aborted"}
  BY DEF FileInv, StepsMatch
<1>2. step'[c] = "over" /\ (\A o \in Ops : o # c => step'[o] = step[o]) /\ step' \in [Ops -> Steps]
  BY DEF FileInv, ToolTypeOK, Steps, Goto
<1>3. outcome' \in [Ops -> {"none", "ok", "failed", "aborted"}] /\ outcome'[c] \in {"aborted", "failed"}
      /\ \A o \in Ops : o # c => outcome'[o] = outcome[o]
  BY <1>1 DEF FileInv, ToolTypeOK, Settled, Aborted
<1>4. ToolTypeOK'
  BY <1>2, <1>3 DEF FileInv, ToolTypeOK
<1>5. TextsKept'
  BY <1>1, <1>2, <1>3, NothingWritten
<1> QED BY <1>1, <1>2, <1>3, <1>4, <1>5, ToolStepKeeps

(* mkdir() returns: a write takes nothing over from the file.              *)
LEMMA MkdirKeeps ==
    ASSUME FileInv, NEW c \in Ops, MkdirDone(c)
    PROVE  FileInv'
<1>1. step[c] = "mkdir" /\ c \in Writes /\ outcome[c] \in {"none", "aborted"} /\ UNCHANGED <<queueVars, text, broken>>
  BY DEF MkdirDone, FileInv, StepsMatch
<1>2. CASE Goto(c, "over") /\ UNCHANGED buffer /\ ((Aborted(c) /\ outcome' = outcome) \/ Settled(c, "failed"))
  BY <1>1, <1>2, EndsEarly
<1>3. CASE ~Aborted(c) /\ Goto(c, "writing") /\ buffer' = [buffer EXCEPT ![c] = {c}] /\ outcome' = outcome
  <2>1. step' = [step EXCEPT ![c] = "writing"] /\ outcome[c] = "none" /\ outcome' = outcome
    BY <1>1, <1>3 DEF Goto, Aborted
  <2>2. ToolTypeOK' /\ step'[c] = "writing" /\ buffer'[c] = {c}
        /\ \A o \in Ops : o # c => step'[o] = step[o] /\ buffer'[o] = buffer[o]
    BY <1>1, <1>3, <2>1 DEF FileInv, ToolTypeOK, Steps, Texts
  <2>3. phase[c] = "running"
    BY <1>1, <2>1, OpenMeansRunning
  <2>4. TextsKept'
    <3> SUFFICES ASSUME broken = {}, NEW o \in Ops, Saved(o)'
                 PROVE  /\ (\A p \in Ops : step'[p] # "filling") => o \in text
                        /\ \A p \in Ops : step'[p] \in {"writing", "filling"} => o \in buffer'[p]
      BY <1>1 DEF TextsKept
    <3>1. Saved(o)
      BY <1>1, <2>1 DEF Saved, Overwritten, queueVars
    <3>2. FALSE
      <4>1. o # c /\ phase[o] \in {"running", "done"}
        BY <2>1, <3>1 DEF Saved, FileInv, StepsMatch, Chain, QueueTypeOK
      <4>2. phase[o] = "done" /\ arrival[o] < arrival[c]
        BY <2>3, <4>1, OneRunning DEF FileInv
      <4>3. arrival[c] > arrival[o]
        BY <4>2 DEF FileInv, Chain, QueueTypeOK
      <4> QED BY <1>1, <2>3, <3>1, <4>1, <4>3 DEF Saved, Overwritten
    <3> QED BY <3>2
  <2> QED BY <1>1, <2>1, <2>2, <2>4, ToolStepKeeps
<1> QED BY <1>2, <1>3 DEF MkdirDone

(* access() answers.                                                       *)
LEMMA AccessKeeps ==
    ASSUME FileInv, NEW c \in Ops, AccessDone(c)
    PROVE  FileInv'
<1>1. step[c] = "access" /\ outcome[c] \in {"none", "aborted"} /\ UNCHANGED <<queueVars, text, buffer, broken>>
  BY DEF AccessDone, FileInv, StepsMatch
<1>2. CASE Goto(c, "over") /\ ((Aborted(c) /\ outcome' = outcome) \/ Settled(c, "failed"))
  BY <1>1, <1>2, EndsEarly
<1>3. CASE ~Aborted(c) /\ Goto(c, "reading") /\ outcome' = outcome
  <2>1. step' = [step EXCEPT ![c] = "reading"] /\ outcome[c] = "none"
    BY <1>1, <1>3 DEF Goto, Aborted
  <2>2. ToolTypeOK' /\ step'[c] = "reading" /\ \A o \in Ops : o # c => step'[o] = step[o]
    BY <1>1, <1>3, <2>1 DEF FileInv, ToolTypeOK, Steps
  <2>3. TextsKept'
    BY <1>1, <1>3, <2>2, NothingWritten
  <2> QED BY <1>1, <1>3, <2>1, <2>2, <2>3, ToolStepKeeps
<1> QED BY <1>2, <1>3 DEF AccessDone

(* An edit is based on what the file holds: nobody writes meanwhile.       *)
LEMMA ReadKeeps ==
    ASSUME FileInv, NEW c \in Ops, ReadDone(c)
    PROVE  FileInv'
<1>1. step[c] = "reading" /\ outcome[c] \in {"none", "aborted"} /\ UNCHANGED <<queueVars, text, broken>>
  BY DEF ReadDone, FileInv, StepsMatch
<1>2. CASE Goto(c, "over") /\ buffer' = buffer /\ ((Aborted(c) /\ outcome' = outcome) \/ (~Aborted(c) /\ Settled(c, "failed")))
  BY <1>1, <1>2, EndsEarly
<1>3. CASE ~Aborted(c) /\ Goto(c, "writing") /\ buffer' = [buffer EXCEPT ![c] = text \cup {c}] /\ outcome' = outcome
  <2>1. step' = [step EXCEPT ![c] = "writing"] /\ outcome[c] = "none"
    BY <1>1, <1>3 DEF Goto, Aborted
  <2>2. ToolTypeOK' /\ step'[c] = "writing" /\ buffer'[c] = text \cup {c}
        /\ \A o \in Ops : o # c => step'[o] = step[o] /\ buffer'[o] = buffer[o]
    BY <1>1, <1>3, <2>1 DEF FileInv, ToolTypeOK, Steps, Texts
  <2>3. phase[c] = "running"
    BY <1>1, <2>1, OpenMeansRunning
  <2>4. TextsKept'
    <3> SUFFICES ASSUME broken = {}, NEW o \in Ops, Saved(o)'
                 PROVE  /\ (\A p \in Ops : step'[p] # "filling") => o \in text
                        /\ \A p \in Ops : step'[p] \in {"writing", "filling"} => o \in buffer'[p]
      BY <1>1 DEF TextsKept
    <3>1. Saved(o)
      BY <1>1, <1>3 DEF Saved, Overwritten, queueVars
    <3>2. \A p \in Ops : step[p] \notin {"writing", "filling"}
      <4> SUFFICES ASSUME NEW p \in Ops, step[p] \in {"writing", "filling"}
                   PROVE  FALSE
        OBVIOUS
      <4>1. phase[p] = "running"
        BY OneWriter
      <4> QED BY <1>1, <2>3, <4>1, OneRunning DEF FileInv
    <3>3. o \in text
      BY <3>1, <3>2 DEF FileInv, TextsKept
    <3> QED BY <2>2, <3>2, <3>3
  <2> QED BY <1>1, <1>3, <2>1, <2>2, <2>4, ToolStepKeeps
<1> QED BY <1>2, <1>3 DEF ReadDone

(* The file is truncated: what it will hold is in the writer's hands.      *)
LEMMA TruncateKeeps ==
    ASSUME FileInv, NEW c \in Ops, Truncate(c)
    PROVE  FileInv'
<1>1. step[c] = "writing" /\ step' = [step EXCEPT ![c] = "filling"] /\ text' = {}
      /\ UNCHANGED <<queueVars, buffer, outcome, broken>>
  BY DEF Truncate, Goto
<1>2. ToolTypeOK' /\ step'[c] = "filling" /\ \A o \in Ops : o # c => step'[o] = step[o]
  BY <1>1 DEF FileInv, ToolTypeOK, Steps, Texts
<1>3. c \in buffer[c] /\ (broken = {} => outcome[c] = "none")
  BY <1>1 DEF FileInv, StepsMatch
<1>4. TextsKept'
  <2> SUFFICES ASSUME broken = {}, NEW o \in Ops, Saved(o)'
               PROVE  \A p \in Ops : step'[p] \in {"writing", "filling"} => o \in buffer[p]
    BY <1>1, <1>2 DEF TextsKept
  <2>1. Saved(o)
    BY <1>1 DEF Saved, Overwritten, queueVars
  <2> QED BY <1>1, <1>2, <2>1 DEF FileInv, TextsKept
<1> QED BY <1>1, <1>2, <1>3, <1>4, ToolStepKeeps

(* The file is filled, and the call has succeeded.                         *)
LEMMA FillKeeps ==
    ASSUME FileInv, NEW c \in Ops, Fill(c)
    PROVE  FileInv'
<1>1. step[c] = "filling" /\ step' = [step EXCEPT ![c] = "over"] /\ text' = buffer[c] /\ Settled(c, "ok")
      /\ UNCHANGED <<queueVars, buffer, broken>>
  BY DEF Fill, Goto
<1>2. step' \in [Ops -> Steps] /\ step'[c] = "over" /\ \A o \in Ops : o # c => step'[o] = step[o]
  BY <1>1 DEF FileInv, ToolTypeOK, Steps
<1>3. outcome' \in [Ops -> {"none", "ok", "failed", "aborted"}] /\ outcome'[c] # "none"
      /\ \A o \in Ops : o # c => outcome'[o] = outcome[o]
  BY <1>1 DEF FileInv, ToolTypeOK, Settled
<1>4. ToolTypeOK'
  BY <1>1, <1>2, <1>3 DEF FileInv, ToolTypeOK
<1>5. TextsKept'
  <2> SUFFICES ASSUME broken = {}, NEW o \in Ops, Saved(o)'
               PROVE  /\ o \in buffer[c]
                      /\ \A p \in Ops : step'[p] \in {"writing", "filling"} => o \in buffer[p]
    BY <1>1 DEF TextsKept
  <2>1. o \in buffer[c]
    <3>1. CASE o = c
      BY <1>1, <3>1 DEF FileInv, StepsMatch
    <3>2. CASE o # c
      <4>1. Saved(o)
        BY <1>1, <1>3, <3>2 DEF Saved, Overwritten, queueVars
      <4> QED BY <1>1, <4>1 DEF FileInv, TextsKept
    <3> QED BY <3>1, <3>2
  <2>2. \A p \in Ops : step'[p] \notin {"writing", "filling"}
    <3> SUFFICES ASSUME NEW p \in Ops, p # c, step[p] \in {"writing", "filling"}
                 PROVE  FALSE
      BY <1>2
    <3> QED BY <1>1, OneWriter
  <2> QED BY <2>1, <2>2
<1> QED BY <1>1, <1>2, <1>3, <1>4, <1>5, ToolStepKeeps

(* A write fails on the way.                                               *)
LEMMA FailKeeps ==
    ASSUME FileInv, NEW c \in Ops, WriteFails(c)
    PROVE  FileInv'
<1>1. step[c] \in {"writing", "filling"} /\ step' = [step EXCEPT ![c] = "over"] /\ Settled(c, "failed")
      /\ broken' = broken \cup {c} /\ UNCHANGED <<queueVars, text, buffer>>
  BY DEF WriteFails, Goto
<1>2. step' \in [Ops -> Steps] /\ step'[c] = "over" /\ \A o \in Ops : o # c => step'[o] = step[o]
  BY <1>1 DEF FileInv, ToolTypeOK, Steps
<1>3. outcome' \in [Ops -> {"none", "ok", "failed", "aborted"}] /\ outcome'[c] # "none"
      /\ \A o \in Ops : o # c => outcome'[o] = outcome[o]
  BY <1>1 DEF FileInv, ToolTypeOK, Settled
<1>4. ToolTypeOK'
  BY <1>1, <1>2, <1>3 DEF FileInv, ToolTypeOK
<1>5. TextsKept' /\ broken \subseteq broken'
  BY <1>1 DEF TextsKept
<1> QED BY <1>1, <1>2, <1>3, <1>4, <1>5, ToolStepKeeps

(* Every step keeps the invariant.                                         *)
LEMMA FileInvKept ==
    ASSUME FileInv, [FileNext]_fileVars
    PROVE  FileInv'
<1>1. ASSUME NEW o \in Ops, NEW name \in Keys, ToolCall(o, name)
      PROVE  FileInv'
  <2>1. KeyOf(name) = RealName
    BY FileAssumption DEF KeyOf, FileInv, ToolTypeOK, Texts
  <2>2. Call(o, RealName) /\ UNCHANGED toolVars /\ [QueueNext]_queueVars
    BY <1>1, <2>1, FileAssumption DEF ToolCall, QueueNext
  <2> QED BY <2>2, QueueStepKeeps
<1>2. ASSUME NEW o \in Ops, FinishCallback(o) \/ (Settle(o) /\ UNCHANGED toolVars)
      PROVE  FileInv'
  <2>1. ((Finish(o) /\ outcome[o] # "none") \/ Settle(o)) /\ UNCHANGED toolVars /\ [QueueNext]_queueVars
    BY <1>2 DEF FinishCallback, QueueNext
  <2> QED BY <2>1, QueueStepKeeps
<1>3. ASSUME NEW o \in Ops, MkdirDone(o) \/ AccessDone(o) \/ ReadDone(o) \/ Truncate(o) \/ Fill(o) \/ WriteFails(o)
      PROVE  FileInv'
  BY <1>3, MkdirKeeps, AccessKeeps, ReadKeeps, TruncateKeeps, FillKeeps, FailKeeps
<1>4. ASSUME NEW o \in Ops, EnterCallback(o) \/ Abort(o)
      PROVE  FileInv'
  BY <1>4, EnterKeeps, AbortKeeps
<1>5. CASE UNCHANGED fileVars
  <2>1. UNCHANGED queueVars /\ UNCHANGED toolVars /\ Chain'
    BY <1>5, ChainKept DEF fileVars, FileInv
  <2> QED BY <2>1 DEF FileInv, ToolTypeOK, RealKeys, StepsMatch, TextsKept, Saved, Overwritten, queueVars, toolVars
<1> QED BY <1>1, <1>2, <1>3, <1>4, <1>5 DEF FileNext

(* The invariant in every reachable state, if the file exists.             *)
THEOREM FileInvariant ==
    ASSUME ~StartsMissing
    PROVE  FileSpec => []FileInv
<1>1. FileInit => FileInv
  BY FileInitInv
<1>2. FileInv /\ [FileNext]_fileVars => FileInv'
  BY FileInvKept
<1> QED BY <1>1, <1>2, PTL DEF FileSpec

(* Two calls are never both inside their callbacks, by whatever names they *)
(* call the one file (file-mutation-queue.ts:16), if it exists when the    *)
(* first is made.                                                          *)
THEOREM FileExclusionHolds ==
    ASSUME ~StartsMissing
    PROVE  FileSpec => []FileExclusion
<1>1. FileInv => FileExclusion
  BY OneRunning DEF FileInv, FileExclusion
<1> QED BY FileInvariant, <1>1, PTL

(* A call that reported success has its text in the file, or in what is    *)
(* being written to it, unless a later write replaced it all or some write *)
(* was cut short by an abort or an error (write.ts, edit.ts).              *)
THEOREM NoLostEditHolds ==
    ASSUME ~StartsMissing
    PROVE  FileSpec => []NoLostEdit
<1>1. FileInv => NoLostEdit
  <2> SUFFICES ASSUME FileInv, broken = {}, NEW o \in Ops, Saved(o)
               PROVE  \/ text # Missing /\ o \in text
                      \/ \E p \in Ops : step[p] = "filling" /\ o \in buffer[p]
    BY DEF NoLostEdit, Saved
  <2>1. text # Missing
    BY FileAssumption DEF FileInv, ToolTypeOK, Texts
  <2> QED BY <2>1 DEF FileInv, TextsKept
<1> QED BY FileInvariant, <1>1, PTL

(* Over the file, too, the queue keeps no entry for a call that is over.   *)
THEOREM FileNoStaleEntry ==
    ASSUME ~StartsMissing
    PROVE  FileSpec => []NoStaleEntry
<1>1. FileInv => NoStaleEntry
  BY DEF FileInv, Chain, NoStaleEntry, MapHoldsTail, QueueTypeOK
<1> QED BY FileInvariant, <1>1, PTL
=============================================================================
