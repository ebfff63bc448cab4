------------------------ MODULE AgentTranscript_proofs ------------------------
(***************************************************************************)
(* Proofs about the three transcripts of a run (the loop's context, the    *)
(* state the listeners see and the messages of agent_end), about the calls *)
(* shown as pending, about the results every call gets, about the contract *)
(* of a run (AgentContract) and about the messages queued, for every       *)
(* number of messages, turns and tool calls.                               *)
(*                                                                         *)
(* The loop appends to its context when it announces a message and the     *)
(* state follows when the event is emitted, so the transcripts differ at   *)
(* most awaits.  The invariants say by how much: by the messages whose     *)
(* message_end is still to be emitted, and by the results the turn has     *)
(* collected.                                                              *)
(***************************************************************************)
EXTENDS Agent_proofs, FiniteSetTheorems

Busy == loop.pc \notin {"idle", "failing"}

(* ms are the messages whose message_end is in todo, in order: at numbers  *)
(* these events.                                                           *)
Announces(todo, ms) ==
    \E at \in [1 .. Len(ms) -> 1 .. Len(todo)] :
        /\ \A i, j \in 1 .. Len(ms) : i < j => at[i] < at[j]
        /\ \A i \in 1 .. Len(ms) : todo[at[i]] = Event("message_end", ms[i])
        /\ \A k \in 1 .. Len(todo) : todo[k].type = "message_end" => \E i \in 1 .. Len(ms) : at[i] = k

Silent(todo) == \A i \in 1 .. Len(todo) : todo[i].type # "message_end"

(* The state lacks the announced messages, the context the results.        *)
StateFollows ==
    Busy => \E ms \in Seq(Messages) :
                Announces(loop.todo, ms) /\ messages \o ms = loop.context \o loop.results

(* The context is the transcript the run began with and what it collected. *)
RunCollected ==
    Busy => \E start \in Seq(Messages) :
                Len(start) = base /\ loop.context = start \o loop.newMessages

ResultPhases == {"tool", "prepare", "await", "turnEnd"}

ResultsOfTurn == loop.pc \notin ResultPhases => loop.results = <<>>

AskedQuietly == loop.pc = "requested" => loop.todo = <<>>

MirrorInv == StateFollows /\ RunCollected /\ ResultsOfTurn /\ AskedQuietly
----------------------------------------------------------------------------
(* Sequences of events and the messages they announce.                     *)

(* Joining sequences of messages is associative and typed.                 *)
LEMMA MessagesConcat ==
    ASSUME NEW s \in Seq(Messages), NEW t \in Seq(Messages), NEW u \in Seq(Messages)
    PROVE  (s \o t) \o u = s \o (t \o u) /\ s \o t \in Seq(Messages)
BY ConcatAssociative

(* Appending a message is joining the sequence of it alone.                *)
LEMMA MessageAppended ==
    ASSUME NEW s \in Seq(Messages), NEW m \in Messages
    PROVE  Append(s, m) = s \o <<m>> /\ <<m>> \in Seq(Messages)
OBVIOUS

(* Events without a message_end announce no message.                       *)
LEMMA SilentAnnounces ==
    ASSUME NEW todo \in Seq(Events), Silent(todo)
    PROVE  Announces(todo, <<>>)
<1> DEFINE at == [i \in 1 .. Len(<<>>) |-> 1]
<1>1. 1 .. Len(<<>>) = {}
  OBVIOUS
<1>2. at \in [1 .. Len(<<>>) -> 1 .. Len(todo)]
  BY <1>1
<1> HIDE DEF at
<1> QED BY <1>1, <1>2, Zenon DEF Announces, Silent

(* With nothing left to emit, nothing is announced.                        *)
LEMMA NothingAnnounced ==
    ASSUME NEW ms \in Seq(Messages), Announces(<<>>, ms)
    PROVE  ms = <<>>
<1>1. PICK at \in [1 .. Len(ms) -> 1 .. Len(<<>>)] : TRUE
  BY DEF Announces
<1>2. 1 .. Len(<<>>) = {}
  OBVIOUS
<1>3. Len(ms) \in Nat
  OBVIOUS
<1>4. 1 \notin 1 .. Len(ms)
  BY <1>1, <1>2
<1>5. Len(ms) = 0
  BY <1>3, <1>4
<1> QED BY <1>5, EmptySeq

(* A message and its two events announce it alone.                         *)
LEMMA OneAnnounced ==
    ASSUME NEW todo \in Seq(Events), NEW m \in Messages, NEW k \in 1 .. Len(todo),
           todo[k] = Event("message_end", m),
           \A i \in 1 .. Len(todo) : i # k => todo[i].type # "message_end"
    PROVE  Announces(todo, <<m>>)
<1> DEFINE at == [i \in 1 .. Len(<<m>>) |-> k]
<1>1. 1 .. Len(<<m>>) = {1} /\ <<m>>[1] = m
  OBVIOUS
<1>2. at \in [1 .. Len(<<m>>) -> 1 .. Len(todo)] /\ at[1] = k
  BY <1>1
<1> HIDE DEF at
<1>3. \A i, j \in 1 .. Len(<<m>>) : i < j => at[i] < at[j]
  BY <1>1
<1>4. \A i \in 1 .. Len(<<m>>) : todo[at[i]] = Event("message_end", <<m>>[i])
  BY <1>1, <1>2
<1>5. \A j \in 1 .. Len(todo) : todo[j].type = "message_end" => \E i \in 1 .. Len(<<m>>) : at[i] = j
  BY <1>1, <1>2
<1> QED BY <1>2, <1>3, <1>4, <1>5 DEF Announces

(* AnnounceAll announces its messages in their order.                      *)
LEMMA AllAnnounced ==
    ASSUME NEW ms \in Seq(Messages), NEW prologue \in Seq(Events), Silent(prologue)
    PROVE  Announces(prologue \o AnnounceAll(ms), ms)
<1> DEFINE todo == prologue \o AnnounceAll(ms)
           p == Len(prologue)
           n == Len(ms)
           at == [i \in 1 .. n |-> p + 2 * i]
<1>1. AnnounceAll(ms) \in Seq(Events) /\ Len(AnnounceAll(ms)) = 2 * n
  BY AnnounceAllTyped DEF AnnounceAll
<1>2. p \in Nat /\ n \in Nat
  OBVIOUS
<1>3. /\ Len(todo) = p + 2 * n
      /\ \A i \in 1 .. p : todo[i] = prologue[i]
      /\ \A i \in 1 .. 2 * n : todo[p + i] = AnnounceAll(ms)[i]
  <2> DEFINE a == AnnounceAll(ms)
  <2>1. a \in Seq(Events) /\ Len(a) = 2 * n
    BY <1>1
  <2> HIDE DEF a
  <2>2. /\ Len(prologue \o a) = p + 2 * n
        /\ \A i \in 1 .. p : (prologue \o a)[i] = prologue[i]
        /\ \A i \in 1 .. 2 * n : (prologue \o a)[p + i] = a[i]
    BY SMTT(30), <1>2, <2>1
  <2> QED BY <2>2 DEF a
<1>4. \A i \in 1 .. n : AnnounceAll(ms)[2 * i] = Event("message_end", ms[i])
  BY <1>2 DEF AnnounceAll
<1>5. \A i \in 1 .. n : AnnounceAll(ms)[2 * i - 1].type = "message_start"
  BY <1>2 DEF AnnounceAll, Event
<1> HIDE DEF todo
<1>6. at \in [1 .. n -> 1 .. Len(todo)]
  BY <1>2, <1>3
<1>7. \A i, j \in 1 .. n : i < j => at[i] < at[j]
  BY <1>2
<1>8. \A i \in 1 .. n : todo[at[i]] = Event("message_end", ms[i])
  BY <1>2, <1>3, <1>4
<1>9. ASSUME NEW k \in 1 .. Len(todo), todo[k].type = "message_end"
      PROVE  \E i \in 1 .. n : at[i] = k
  <2>1. k > p
    BY <1>2, <1>3, <1>9 DEF Silent
  <2> DEFINE j == k - p
  <2>2. j \in 1 .. 2 * n /\ k = p + j
    BY <1>2, <1>3, <2>1
  <2> HIDE DEF j
  <2>3. ~ \E i \in 1 .. n : j = 2 * i - 1
    BY <1>2, <1>3, <1>5, <1>9, <2>2
  <2> DEFINE i == j \div 2
  <2>4. i \in 1 .. n /\ j = 2 * i
    <3>1. i \in Nat /\ (j = 2 * i \/ j = 2 * i + 1)
      BY <1>2, <2>2
    <3> HIDE DEF i
    <3>2. j = 2 * i + 1 => i + 1 \in 1 .. n /\ j = 2 * (i + 1) - 1
      BY <1>2, <2>2, <3>1
    <3> QED BY <1>2, <2>2, <2>3, <3>1, <3>2
  <2> QED BY <1>2, <2>2, <2>4
<1> HIDE DEF at
<1>10. Announces(todo, ms)
  BY <1>6, <1>7, <1>8, <1>9 DEF Announces
<1> QED BY <1>10 DEF todo

(* Emitting the first event leaves the others to be announced.             *)
LEMMA RestAnnounced ==
    ASSUME NEW todo \in Seq(Events), NEW ms \in Seq(Messages), todo # <<>>, Announces(todo, ms)
    PROVE  IF Head(todo).type = "message_end"
             THEN ms # <<>> /\ Head(todo).message = Head(ms) /\ Announces(Tail(todo), Tail(ms))
             ELSE Announces(Tail(todo), ms)
<1> DEFINE rest == Tail(todo)
           t == Len(todo)
           n == Len(ms)
<1>1. PICK at \in [1 .. n -> 1 .. t] :
        /\ \A i, j \in 1 .. n : i < j => at[i] < at[j]
        /\ \A i \in 1 .. n : todo[at[i]] = Event("message_end", ms[i])
        /\ \A k \in 1 .. t : todo[k].type = "message_end" => \E i \in 1 .. n : at[i] = k
  BY DEF Announces
<1>2. n \in Nat /\ t \in Nat \ {0} /\ Head(todo) = todo[1]
  OBVIOUS
<1>3. rest \in Seq(Events) /\ Len(rest) = t - 1 /\ \A i \in 1 .. t - 1 : rest[i] = todo[i + 1]
  BY HeadTailProperties
<1> HIDE DEF rest
<1>4. \A i \in 1 .. n : todo[at[i]].type = "message_end" /\ todo[at[i]].message = ms[i]
  <2>1. \A m : Event("message_end", m).type = "message_end" /\ Event("message_end", m).message = m
    BY DEF Event
  <2> QED BY <1>1, <2>1
<1>5. CASE todo[1].type = "message_end"
  <2>1. PICK i1 \in 1 .. n : at[i1] = 1
    BY <1>1, <1>2, <1>5
  <2>2. i1 = 1
    <3> SUFFICES ASSUME i1 # 1 PROVE FALSE
      OBVIOUS
    <3>1. 1 \in 1 .. n /\ 1 < i1
      BY <1>2
    <3>2. at[1] < at[i1] /\ at[1] \in 1 .. t
      BY <1>1, <3>1
    <3> QED BY <1>2, <2>1, <3>2
  <2> DEFINE ms2 == Tail(ms)
             at2 == [i \in 1 .. n - 1 |-> at[i + 1] - 1]
  <2>3. ms # <<>> /\ Head(ms) = ms[1] /\ Head(todo).message = Head(ms)
    BY <1>2, <1>4, <2>1, <2>2
  <2>4. ms2 \in Seq(Messages) /\ Len(ms2) = n - 1 /\ \A i \in 1 .. n - 1 : ms2[i] = ms[i + 1]
    BY <2>3, HeadTailProperties
  <2>5. at2 \in [1 .. n - 1 -> 1 .. t - 1]
    <3> SUFFICES ASSUME NEW i \in 1 .. n - 1 PROVE at[i + 1] - 1 \in 1 .. t - 1
      OBVIOUS
    <3>1. i + 1 \in 1 .. n /\ 1 \in 1 .. n /\ 1 < i + 1
      BY <1>2
    <3>2. at[1] < at[i + 1] /\ at[i + 1] \in 1 .. t /\ at[1] = 1
      BY <1>1, <2>1, <2>2, <3>1
    <3> QED BY <1>2, <3>2
  <2>6. \A i, j \in 1 .. n - 1 : i < j => at2[i] < at2[j]
    <3> SUFFICES ASSUME NEW i \in 1 .. n - 1, NEW j \in 1 .. n - 1, i < j PROVE at2[i] < at2[j]
      OBVIOUS
    <3>1. i + 1 \in 1 .. n /\ j + 1 \in 1 .. n /\ i + 1 < j + 1
      BY <1>2
    <3>2. at[i + 1] < at[j + 1] /\ at[i + 1] \in 1 .. t /\ at[j + 1] \in 1 .. t
      BY <1>1, <3>1
    <3> QED BY <1>2, <3>2
  <2>7. \A i \in 1 .. n - 1 : rest[at2[i]] = Event("message_end", ms2[i])
    <3> SUFFICES ASSUME NEW i \in 1 .. n - 1 PROVE rest[at2[i]] = Event("message_end", ms2[i])
      OBVIOUS
    <3>1. i + 1 \in 1 .. n /\ at2[i] = at[i + 1] - 1
      BY <1>2
    <3>4. at[i + 1] \in 1 .. t
      BY <1>1, <3>1
    <3>5. at2[i] \in 1 .. t - 1
      BY <2>5
    <3>2. at2[i] + 1 = at[i + 1]
      BY <1>2, <3>1, <3>4
    <3>3. rest[at2[i]] = todo[at[i + 1]]
      BY <1>3, <3>5, <3>2
    <3> QED BY <1>1, <2>4, <3>1, <3>3
  <2>8. \A k \in 1 .. t - 1 : rest[k].type = "message_end" => \E i \in 1 .. n - 1 : at2[i] = k
    <3> SUFFICES ASSUME NEW k \in 1 .. t - 1, rest[k].type = "message_end"
                 PROVE  \E i \in 1 .. n - 1 : at2[i] = k
      OBVIOUS
    <3>1. k + 1 \in 1 .. t /\ k + 1 # 1 /\ todo[k + 1].type = "message_end"
      BY <1>2, <1>3
    <3>2. PICK i \in 1 .. n : at[i] = k + 1
      BY <1>1, <3>1
    <3>3. i # 1
      BY <2>1, <2>2, <3>1, <3>2
    <3>4. i - 1 \in 1 .. n - 1 /\ (i - 1) + 1 = i
      BY <1>2, <3>3
    <3>5. at2[i - 1] = k
      BY <1>2, <3>2, <3>4
    <3> QED BY <3>4, <3>5
  <2> HIDE DEF at2, ms2
  <2>9. Announces(rest, ms2)
    <3>1. 1 .. Len(rest) = 1 .. t - 1 /\ 1 .. Len(ms2) = 1 .. n - 1
      BY <1>3, <2>4
    <3>2. at2 \in [1 .. Len(ms2) -> 1 .. Len(rest)]
      BY <2>5, <3>1
    <3>3. \A i, j \in 1 .. Len(ms2) : i < j => at2[i] < at2[j]
      BY <2>6, <3>1
    <3>4. \A i \in 1 .. Len(ms2) : rest[at2[i]] = Event("message_end", ms2[i])
      BY <2>7, <3>1
    <3>5. \A k \in 1 .. Len(rest) : rest[k].type = "message_end" => \E i \in 1 .. Len(ms2) : at2[i] = k
      BY <2>8, <3>1
    <3> QED BY <3>2, <3>3, <3>4, <3>5 DEF Announces
  <2> QED BY <1>2, <1>5, <2>3, <2>9 DEF rest, ms2
<1>6. CASE todo[1].type # "message_end"
  <2> DEFINE at2 == [i \in 1 .. n |-> at[i] - 1]
  <2>1. \A i \in 1 .. n : at[i] \in 1 .. t /\ at[i] # 1
    BY <1>1, <1>4, <1>6
  <2>2. at2 \in [1 .. n -> 1 .. t - 1]
    BY <1>2, <2>1
  <2>3. \A i, j \in 1 .. n : i < j => at2[i] < at2[j]
    BY <1>1, <1>2, <2>1
  <2>4. \A i \in 1 .. n : rest[at2[i]] = Event("message_end", ms[i])
    <3> SUFFICES ASSUME NEW i \in 1 .. n PROVE rest[at2[i]] = Event("message_end", ms[i])
      OBVIOUS
    <3>1. at2[i] \in 1 .. t - 1 /\ at2[i] + 1 = at[i]
      BY <1>2, <2>1
    <3>2. rest[at2[i]] = todo[at[i]]
      BY <1>3, <3>1
    <3> QED BY <1>1, <3>2
  <2>5. \A k \in 1 .. t - 1 : rest[k].type = "message_end" => \E i \in 1 .. n : at2[i] = k
    <3> SUFFICES ASSUME NEW k \in 1 .. t - 1, rest[k].type = "message_end"
                 PROVE  \E i \in 1 .. n : at2[i] = k
      OBVIOUS
    <3>1. k + 1 \in 1 .. t /\ todo[k + 1].type = "message_end"
      BY <1>2, <1>3
    <3>2. PICK i \in 1 .. n : at[i] = k + 1
      BY <1>1, <3>1
    <3>3. at2[i] = k
      BY <3>2
    <3> QED BY <3>3
  <2> HIDE DEF at2
  <2>6. Announces(rest, ms)
    <3>1. 1 .. Len(rest) = 1 .. t - 1
      BY <1>3
    <3> QED BY <2>2, <2>3, <2>4, <2>5, <3>1, Zenon DEF Announces
  <2> QED BY <1>2, <1>6, <2>6 DEF rest
<1> QED BY <1>5, <1>6
----------------------------------------------------------------------------
(* What each step does to the fields of the loop.                          *)

(* The fields of a typed loop are typed.                                   *)
LEMMA FieldsTyped ==
    ASSUME LoopTypeOK
    PROVE  /\ loop.pc \in PCs /\ loop.todo \in Seq(Events) /\ loop.assistant \in Messages
           /\ loop.context \in Seq(Messages) /\ loop.newMessages \in Seq(Messages)
           /\ loop.pendingMessages \in Seq(Messages) /\ loop.results \in Seq(Messages)
           /\ loop.next \in Nat /\ loop.runnable \in Seq(CallIds)
BY DEF LoopTypeOK, Loops

(* A run starts with its prompts in the context (StartRun).                *)
LEMMA StartEffect ==
    ASSUME NEW prompts \in Seq(Messages), NEW skip \in BOOLEAN, StartRun(prompts, skip)
    PROVE  /\ loop'.pc \in {"initialPoll", "firstTurn"}
           /\ loop'.todo = <<Event("agent_start", NoMessage), Event("turn_start", NoMessage)>>
                             \o AnnounceAll(prompts)
           /\ loop'.context = messages \o prompts /\ loop'.newMessages = prompts
           /\ loop'.pendingMessages = <<>> /\ loop'.next = 1 /\ loop'.runnable = <<>> /\ loop'.results = <<>>
           /\ messages' = messages /\ base' = Len(messages) /\ ~activeRun /\ running' = running
           /\ pendingToolCalls' = pendingToolCalls
BY DEF StartRun, IdleLoop, toolVars

(* Emitting an event takes it from the events to emit (Emit).              *)
LEMMA EmitEffect ==
    ASSUME LoopTypeOK, Emit
    PROVE  /\ loop.todo # <<>> /\ loop'.todo = Tail(loop.todo)
           /\ loop'.pc = loop.pc /\ loop'.context = loop.context /\ loop'.newMessages = loop.newMessages
           /\ loop'.pendingMessages = loop.pendingMessages /\ loop'.assistant = loop.assistant
           /\ loop'.next = loop.next /\ loop'.runnable = loop.runnable /\ loop'.results = loop.results
           /\ messages' = (IF Head(loop.todo).type = "message_end"
                             THEN Append(messages, Head(loop.todo).message) ELSE messages)
           /\ pendingToolCalls' = PendingAfter(Head(loop.todo))
           /\ UNCHANGED <<base, running, steeringQueue, followUpQueue>>
BY DEF Emit, LoopTypeOK, Loops, inboxVars, toolVars

(* A poll drains one queue (InitialPoll, PollSteering, PollFollowUp).      *)
LEMMA PollEffect ==
    ASSUME LoopTypeOK, InitialPoll \/ PollSteering \/ PollFollowUp
    PROVE  /\ loop.todo = <<>> /\ loop.pc \in {"initialPoll", "pollSteering", "pollFollowUp"}
           /\ loop'.pc \in {"firstTurn", "turn", "pollFollowUp", "finish"}
           /\ loop'.todo \in {<<>>, <<Event("agent_end", NoMessage)>>}
           /\ loop'.context = loop.context /\ loop'.newMessages = loop.newMessages
           /\ loop'.pendingMessages \in {loop.pendingMessages, Drained(steeringQueue), Drained(followUpQueue)}
           /\ steeringQueue' \in {steeringQueue, Kept(steeringQueue)}
           /\ followUpQueue' \in {followUpQueue, Kept(followUpQueue)}
           /\ loop'.assistant = loop.assistant
           /\ loop'.next = loop.next /\ loop'.runnable = loop.runnable /\ loop'.results = loop.results
           /\ UNCHANGED <<messages, base, running, pendingToolCalls>>
<1>1. CASE InitialPoll
  BY <1>1 DEF InitialPoll, Resume, Goto, LoopTypeOK, Loops, stateVars, histVars, toolVars
<1>2. CASE PollSteering
  BY <1>2 DEF PollSteering, Resume, Goto, LoopTypeOK, Loops, stateVars, histVars, toolVars
<1>3. CASE PollFollowUp
  BY <1>3 DEF PollFollowUp, Resume, Goto, LoopTypeOK, Loops, stateVars, histVars, toolVars
<1> QED BY <1>1, <1>2, <1>3

(* The pending messages join the context (InjectPending).                  *)
LEMMA InjectEffect ==
    ASSUME LoopTypeOK, InjectPending
    PROVE  /\ loop.pc \in {"firstTurn", "turn"} /\ loop.todo = <<>> /\ loop'.pc = "request"
           /\ loop'.todo = (IF loop.pc = "turn" THEN <<Event("turn_start", NoMessage)>> ELSE <<>>)
                             \o AnnounceAll(loop.pendingMessages)
           /\ loop'.context = loop.context \o loop.pendingMessages
           /\ loop'.newMessages = loop.newMessages \o loop.pendingMessages
           /\ loop'.pendingMessages = <<>> /\ loop'.assistant = loop.assistant
           /\ loop'.next = loop.next /\ loop'.runnable = loop.runnable /\ loop'.results = loop.results
           /\ UNCHANGED <<messages, base, running, pendingToolCalls, steeringQueue, followUpQueue>>
BY DEF InjectPending, Resume, Goto, Collect, LoopTypeOK, Loops, stateVars, histVars, toolVars, inboxVars

(* Asking the model changes no transcript (Request, StreamStart).          *)
LEMMA AskEffect ==
    ASSUME LoopTypeOK, Request \/ StreamStart
    PROVE  /\ loop.todo = <<>>
           /\ \/ loop.pc = "request" /\ loop'.pc = "requested" /\ loop'.todo = <<>>
              \/ /\ loop.pc = "requested" /\ loop'.pc = "streaming"
                 /\ loop'.todo = <<Event("message_start", Assistant(turns, 0, "none"))>>
           /\ loop'.context = loop.context /\ loop'.newMessages = loop.newMessages
           /\ loop'.pendingMessages = loop.pendingMessages /\ loop'.assistant = loop.assistant
           /\ loop'.next = loop.next /\ loop'.runnable = loop.runnable /\ loop'.results = loop.results
           /\ UNCHANGED <<messages, base, running, pendingToolCalls, steeringQueue, followUpQueue>>
<1>1. CASE Request
  BY <1>1 DEF Request, Resume, Goto, LoopTypeOK, Loops, stateVars, histVars, toolVars, inboxVars
<1>2. CASE StreamStart
  BY <1>2 DEF StreamStart, Resume, Goto, LoopTypeOK, Loops, stateVars, histVars, toolVars, inboxVars
<1> QED BY <1>1, <1>2

(* The response joins the context (StreamDone).                            *)
LEMMA DoneEffect ==
    ASSUME LoopTypeOK, NEW n \in 0 .. MaxCalls, NEW stop \in StopReasons, StreamDone(n, stop)
    PROVE  /\ loop.todo = <<>> /\ loop.pc \in {"requested", "streaming"} /\ loop'.pc = "responded"
           /\ loop'.todo \in {Announce(Assistant(turns, n, stop)),
                              <<Event("message_end", Assistant(turns, n, stop))>>}
           /\ loop'.context = Append(loop.context, Assistant(turns, n, stop))
           /\ loop'.newMessages = loop.newMessages \o <<Assistant(turns, n, stop)>>
           /\ loop'.assistant = Assistant(turns, n, stop)
           /\ loop'.pendingMessages = loop.pendingMessages
           /\ loop'.next = loop.next /\ loop'.runnable = loop.runnable /\ loop'.results = loop.results
           /\ UNCHANGED <<messages, base, running, pendingToolCalls, steeringQueue, followUpQueue>>
BY DEF StreamDone, Resume, Goto, Collect, LoopTypeOK, Loops, stateVars, histVars, toolVars, inboxVars

(* What follows depends on the response (Responded).                       *)
LEMMA RespondedEffect ==
    ASSUME LoopTypeOK, Responded
    PROVE  /\ loop.todo = <<>> /\ loop.pc = "responded"
           /\ \/ /\ Failed(loop.assistant) /\ loop'.pc = "finish"
                 /\ loop'.todo = <<Event("turn_end", loop.assistant), Event("agent_end", NoMessage)>>
                 /\ loop'.next = loop.next
              \/ /\ ~Failed(loop.assistant) /\ loop.assistant.calls = 0 /\ loop'.pc = "turnEnd"
                 /\ loop'.todo = <<>> /\ loop'.next = loop.next
              \/ /\ ~Failed(loop.assistant) /\ loop.assistant.calls # 0 /\ loop'.pc = "tool"
                 /\ loop'.todo = <<>> /\ loop'.next = 1
           /\ loop'.context = loop.context /\ loop'.newMessages = loop.newMessages
           /\ loop'.pendingMessages = loop.pendingMessages /\ loop'.assistant = loop.assistant
           /\ loop'.runnable = loop.runnable /\ loop'.results = loop.results
           /\ UNCHANGED <<messages, base, running, pendingToolCalls, steeringQueue, followUpQueue>>
<1>1. UNCHANGED <<messages, base, running, pendingToolCalls, steeringQueue, followUpQueue>>
  BY DEF Responded, stateVars, histVars, toolVars, inboxVars
<1>2. CASE Failed(loop.assistant)
  <2>1. loop' = Goto("finish", <<Event("turn_end", loop.assistant), Event("agent_end", NoMessage)>>)
    BY <1>2 DEF Responded, Failed, AfterFailedResponse
  <2> QED BY <1>1, <1>2, <2>1 DEF Responded, Resume, Goto, LoopTypeOK, Loops
<1>3. CASE ~Failed(loop.assistant) /\ loop.assistant.calls = 0
  <2>1. loop' = Goto("turnEnd", <<>>)
    BY <1>3 DEF Responded, Failed
  <2> QED BY <1>1, <1>3, <2>1 DEF Responded, Resume, Goto, LoopTypeOK, Loops
<1>4. CASE ~Failed(loop.assistant) /\ loop.assistant.calls # 0
  <2>1. loop' = [Goto("tool", <<>>) EXCEPT !.next = 1]
    BY <1>4 DEF Responded, Failed
  <2> QED BY <1>1, <1>4, <2>1 DEF Responded, Resume, Goto, LoopTypeOK, Loops
<1> QED BY <1>2, <1>3, <1>4

(* The next call is announced (StartCall).                                 *)
LEMMA StartCallEffect ==
    ASSUME LoopTypeOK, StartCall
    PROVE  /\ loop.todo = <<>> /\ loop.pc = "tool" /\ loop.next <= loop.assistant.calls
           /\ loop'.pc = "prepare" /\ loop'.todo = <<Event("tool_execution_start", ToolResult(NextCall))>>
           /\ loop'.context = loop.context /\ loop'.newMessages = loop.newMessages
           /\ loop'.pendingMessages = loop.pendingMessages /\ loop'.assistant = loop.assistant
           /\ loop'.next = loop.next /\ loop'.runnable = loop.runnable /\ loop'.results = loop.results
           /\ UNCHANGED <<messages, base, running, pendingToolCalls, steeringQueue, followUpQueue>>
BY DEF StartCall, Resume, MoreCalls, Goto, LoopTypeOK, Loops, stateVars, histVars, toolVars, inboxVars

(* A call that cannot be prepared is over (ImmediateOutcome).              *)
LEMMA ImmediateEffect ==
    ASSUME LoopTypeOK, ImmediateOutcome
    PROVE  /\ loop.todo = <<>> /\ loop.pc = "prepare"
           /\ loop'.pc = "tool" /\ loop'.todo = Outcome(NextCall)
           /\ loop'.context = loop.context /\ loop'.newMessages = loop.newMessages
           /\ loop'.pendingMessages = loop.pendingMessages /\ loop'.assistant = loop.assistant
           /\ loop'.next = loop.next + 1 /\ loop'.runnable = loop.runnable
           /\ loop'.results = Append(loop.results, ToolResult(NextCall))
           /\ UNCHANGED <<messages, base, running, pendingToolCalls, steeringQueue, followUpQueue>>
BY DEF ImmediateOutcome, Resume, Goto, LoopTypeOK, Loops, stateVars, histVars, toolVars, inboxVars

(* A prepared call waits (PreparedCall).                                   *)
LEMMA PreparedEffect ==
    ASSUME LoopTypeOK, PreparedCall
    PROVE  /\ loop.todo = <<>> /\ loop.pc = "prepare" /\ loop'.todo = <<>>
           /\ \/ ToolExecution = "sequential" /\ loop'.pc = "await" /\ loop'.runnable = <<NextCall>>
              \/ /\ ToolExecution # "sequential" /\ loop'.pc = "tool"
                 /\ loop'.runnable = Append(loop.runnable, NextCall)
           /\ loop'.context = loop.context /\ loop'.newMessages = loop.newMessages
           /\ loop'.pendingMessages = loop.pendingMessages /\ loop'.assistant = loop.assistant
           /\ loop'.next = loop.next + 1 /\ loop'.results = loop.results
           /\ UNCHANGED <<messages, base, pendingToolCalls, steeringQueue, followUpQueue>>
<1>1. /\ loop.todo = <<>> /\ loop.pc = "prepare"
      /\ UNCHANGED <<messages, base, pendingToolCalls, steeringQueue, followUpQueue>>
  BY DEF PreparedCall, Resume, stateVars, histVars, inboxVars
<1>2. CASE ToolExecution = "sequential"
  <2>1. loop' = [Goto("await", <<>>) EXCEPT !.runnable = <<NextCall>>, !.next = @ + 1]
    BY <1>2 DEF PreparedCall
  <2>2. /\ loop'.pc = "await" /\ loop'.todo = <<>> /\ loop'.runnable = <<NextCall>>
        /\ loop'.context = loop.context /\ loop'.newMessages = loop.newMessages
        /\ loop'.pendingMessages = loop.pendingMessages /\ loop'.assistant = loop.assistant
        /\ loop'.next = loop.next + 1 /\ loop'.results = loop.results
    BY SMTT(30), <2>1 DEF Goto, LoopTypeOK, Loops
  <2> QED BY <1>1, <1>2, <2>2
<1>3. CASE ToolExecution # "sequential"
  <2>1. loop' = [Goto("tool", <<>>) EXCEPT !.runnable = Append(@, NextCall), !.next = @ + 1]
    BY <1>3 DEF PreparedCall
  <2>2. /\ loop'.pc = "tool" /\ loop'.todo = <<>> /\ loop'.runnable = Append(loop.runnable, NextCall)
        /\ loop'.context = loop.context /\ loop'.newMessages = loop.newMessages
        /\ loop'.pendingMessages = loop.pendingMessages /\ loop'.assistant = loop.assistant
        /\ loop'.next = loop.next + 1 /\ loop'.results = loop.results
    BY SMTT(30), <2>1 DEF Goto, LoopTypeOK, Loops
  <2> QED BY <1>1, <1>3, <2>2
<1> QED BY <1>2, <1>3

(* The tool phase goes on or ends (LaunchPrepared, CallsExecuted).         *)
LEMMA LaunchEffect ==
    ASSUME LoopTypeOK, LaunchPrepared \/ CallsExecuted
    PROVE  /\ loop.todo = <<>> /\ loop'.todo = <<>>
           /\ \/ loop.pc = "tool" /\ loop'.pc = "await" /\ ~(loop.next <= loop.assistant.calls)
              \/ loop.pc = "await" /\ loop'.pc = "turnEnd" /\ loop.runnable = <<>>
           /\ loop'.context = loop.context /\ loop'.newMessages = loop.newMessages
           /\ loop'.pendingMessages = loop.pendingMessages /\ loop'.assistant = loop.assistant
           /\ loop'.next = loop.next /\ loop'.runnable = loop.runnable /\ loop'.results = loop.results
           /\ UNCHANGED <<messages, base, pendingToolCalls, steeringQueue, followUpQueue>>
<1>1. CASE LaunchPrepared
  BY <1>1 DEF LaunchPrepared, MoreCalls, Resume, Goto, LoopTypeOK, Loops, stateVars, histVars, inboxVars
<1>2. CASE CallsExecuted
  BY <1>2 DEF CallsExecuted, Resume, Goto, LoopTypeOK, Loops, stateVars, histVars, inboxVars
<1> QED BY <1>1, <1>2

(* The first call that waits is over (FinalizeCall).                       *)
LEMMA FinalizeEffect ==
    ASSUME LoopTypeOK, FinalizeCall
    PROVE  /\ loop.pc = "await" /\ loop.todo = <<>> /\ loop.runnable # <<>>
           /\ Head(loop.runnable) \notin running
           /\ loop'.pc = (IF ToolExecution = "sequential" THEN "tool" ELSE "await")
           /\ loop'.todo = Outcome(Head(loop.runnable))
           /\ loop'.context = loop.context /\ loop'.newMessages = loop.newMessages
           /\ loop'.pendingMessages = loop.pendingMessages /\ loop'.assistant = loop.assistant
           /\ loop'.next = loop.next /\ loop'.runnable = Tail(loop.runnable)
           /\ loop'.results = Append(loop.results, ToolResult(Head(loop.runnable)))
           /\ UNCHANGED <<messages, base, running, pendingToolCalls, steeringQueue, followUpQueue>>
BY DEF FinalizeCall, Resume, Goto, Collect, LoopTypeOK, Loops, stateVars, histVars, toolVars, inboxVars

(* The results join the context (TurnEnd).                                 *)
LEMMA TurnEndEffect ==
    ASSUME LoopTypeOK, TurnEnd
    PROVE  /\ loop.pc = "turnEnd" /\ loop.todo = <<>> /\ loop'.pc = "pollSteering"
           /\ loop'.todo = <<Event("turn_end", loop.assistant)>>
           /\ loop'.context = loop.context \o loop.results
           /\ loop'.newMessages = loop.newMessages \o loop.results
           /\ loop'.pendingMessages = loop.pendingMessages /\ loop'.assistant = loop.assistant
           /\ loop'.next = loop.next /\ loop'.runnable = loop.runnable /\ loop'.results = <<>>
           /\ UNCHANGED <<messages, base, running, pendingToolCalls, steeringQueue, followUpQueue>>
BY DEF TurnEnd, ContextWithResults, Resume, Goto, Collect, LoopTypeOK, Loops, stateVars, histVars, toolVars, inboxVars

(* A run that ends or fails leaves the loop, and nothing else in its log.  *)
LEMMA EndEffect ==
    ASSUME FinishRun \/ FailureListenerThrows
    PROVE  /\ loop'.pc = "idle" /\ pendingToolCalls' = {} /\ loop.pc \in {"finish", "failing"}
           /\ loop'.todo = <<>> /\ loop'.runnable = <<>> /\ loop'.results = <<>>
           /\ loop'.pendingMessages = <<>> /\ loop'.next = 1
           /\ UNCHANGED <<messages, base, running, steeringQueue, followUpQueue>>
BY DEF FinishRun, FailureListenerThrows, Settle, Resume, IdleLoop, histVars, toolVars, inboxVars

(* A failed run adds its failure message (FailRun).                        *)
LEMMA FailEffect ==
    ASSUME StreamThrows \/ CallRejected \/ ListenerThrows
    PROVE  /\ loop'.pc = "failing" /\ messages' = Append(messages, FailureMessage)
           /\ loop'.todo = <<Event("agent_end", NoMessage)>> /\ loop'.runnable = <<>> /\ loop'.results = <<>>
           /\ loop'.pendingMessages = <<>> /\ loop'.next = 1 /\ running' = {}
           /\ UNCHANGED <<base, pendingToolCalls, steeringQueue, followUpQueue>>
           /\ ListenersFail = FALSE => loop.pc \in {"request", "await"}
BY DEF StreamThrows, CallRejected, ListenerThrows, FailRun, Resume, IdleLoop, histVars, inboxVars
----------------------------------------------------------------------------
(* The transcripts.                                                        *)

(* A step taken with nothing left to emit that announces what it adds.     *)
LEMMA MirrorMoves ==
    ASSUME AgentInv, MirrorInv, Busy, loop.todo = <<>>, UNCHANGED <<messages, base>>,
           NEW ms \in Seq(Messages), NEW added \in Seq(Messages),
           Announces(loop'.todo, ms),
           loop'.context \o loop'.results = (loop.context \o loop.results) \o ms,
           loop'.context = loop.context \o added, loop'.newMessages = loop.newMessages \o added,
           loop'.pc \notin ResultPhases => loop'.results = <<>>,
           loop'.pc = "requested" => loop'.todo = <<>>
    PROVE  MirrorInv'
<1>1. /\ loop.context \in Seq(Messages) /\ loop.results \in Seq(Messages)
      /\ loop.newMessages \in Seq(Messages) /\ messages \in Seq(Messages)
  BY FieldsTyped DEF AgentInv, TypeOK, StateTypeOK
<1>2. StateFollows'
  <2>1. PICK before \in Seq(Messages) :
          Announces(loop.todo, before) /\ messages \o before = loop.context \o loop.results
    BY DEF MirrorInv, StateFollows
  <2>2. before = <<>>
    BY <2>1, NothingAnnounced
  <2>3. messages \o before = messages
    BY <1>1, <2>2, ConcatEmptySeq
  <2>4. messages' \o ms = loop'.context \o loop'.results
    BY <2>1, <2>3
  <2> QED BY <2>4 DEF StateFollows
<1>3. RunCollected'
  <2>1. PICK start \in Seq(Messages) : Len(start) = base /\ loop.context = start \o loop.newMessages
    BY DEF MirrorInv, RunCollected
  <2>2. (start \o loop.newMessages) \o added = start \o (loop.newMessages \o added)
    BY <1>1, <2>1, MessagesConcat
  <2>4. loop'.context = start \o loop'.newMessages
    BY <2>1, <2>2
  <2>3. Len(start) = base'
    BY <2>1
  <2> QED BY <2>3, <2>4 DEF RunCollected
<1> QED BY <1>2, <1>3 DEF MirrorInv, ResultsOfTurn, AskedQuietly

(* A step that adds nothing to the transcript.                             *)
LEMMA MirrorRests ==
    ASSUME AgentInv, MirrorInv, Busy, loop.todo = <<>>, UNCHANGED <<messages, base>>,
           loop'.todo \in Seq(Events), Silent(loop'.todo),
           loop'.context = loop.context, loop'.newMessages = loop.newMessages,
           loop'.results = loop.results,
           loop'.pc \in ResultPhases \/ loop.pc \notin ResultPhases,
           loop'.pc = "requested" => loop'.todo = <<>>
    PROVE  MirrorInv'
<1>1. /\ loop.context \in Seq(Messages) /\ loop.results \in Seq(Messages)
      /\ loop.newMessages \in Seq(Messages) /\ loop.context \o loop.results \in Seq(Messages)
  BY FieldsTyped, ConcatProperties DEF AgentInv, TypeOK
<1>2. Announces(loop'.todo, <<>>)
  BY SilentAnnounces
<1>3. <<>> \in Seq(Messages)
  OBVIOUS
<1>4. loop'.context \o loop'.results = (loop.context \o loop.results) \o <<>>
  BY <1>1, ConcatEmptySeq
<1>5. loop'.context = loop.context \o <<>> /\ loop'.newMessages = loop.newMessages \o <<>>
  BY <1>1, ConcatEmptySeq
<1>6. loop'.pc \notin ResultPhases => loop'.results = <<>>
  BY DEF MirrorInv, ResultsOfTurn
<1> QED BY <1>2, <1>3, <1>4, <1>5, <1>6, MirrorMoves

(* Starting a run: the context is the transcript and the prompts, which    *)
(* are announced.                                                          *)
LEMMA MirrorStarts ==
    ASSUME AgentInv, NEW prompts \in Seq(Messages), NEW skip \in BOOLEAN, StartRun(prompts, skip)
    PROVE  MirrorInv'
<1> DEFINE prologue == <<Event("agent_start", NoMessage), Event("turn_start", NoMessage)>>
<1>1. messages \in Seq(Messages) /\ messages \o prompts \in Seq(Messages)
  BY ConcatProperties DEF AgentInv, TypeOK, StateTypeOK
<1>2. prologue \in Seq(Events) /\ Silent(prologue)
  <2>1. Event("agent_start", NoMessage) \in Events /\ Event("turn_start", NoMessage) \in Events
    BY EventTyped, MessagesTyped DEF EventTypes
  <2>2. \A i \in 1 .. Len(prologue) : prologue[i].type # "message_end"
    BY DEF Event
  <2> QED BY <2>1, <2>2 DEF Silent
<1> HIDE DEF prologue
<1>3. Announces(prologue \o AnnounceAll(prompts), prompts)
  BY <1>2, AllAnnounced
<1>4. /\ loop'.pc \in {"initialPoll", "firstTurn"} /\ loop'.todo = prologue \o AnnounceAll(prompts)
      /\ loop'.context = messages \o prompts /\ loop'.newMessages = prompts /\ loop'.results = <<>>
      /\ messages' = messages /\ base' = Len(messages)
  BY StartEffect DEF prologue
<1>5. loop'.context \o loop'.results = messages \o prompts
  BY <1>1, <1>4, ConcatEmptySeq
<1>6. StateFollows'
  <2>1. Announces(loop'.todo, prompts) /\ messages' \o prompts = loop'.context \o loop'.results
    BY <1>3, <1>4, <1>5
  <2> QED BY <2>1 DEF StateFollows
<1>7. RunCollected'
  <2>1. messages \in Seq(Messages) /\ Len(messages) = base' /\ loop'.context = messages \o loop'.newMessages
    BY <1>1, <1>4
  <2> QED BY <2>1 DEF RunCollected
<1>8. ResultsOfTurn' /\ AskedQuietly'
  BY <1>4 DEF ResultsOfTurn, AskedQuietly
<1> QED BY <1>6, <1>7, <1>8 DEF MirrorInv

(* Emitting an event: the message it announced reaches the state.          *)
LEMMA MirrorEmits ==
    ASSUME AgentInv, MirrorInv, Emit
    PROVE  MirrorInv'
<1> DEFINE m == Head(loop.todo).message
<1>1. LoopTypeOK /\ messages \in Seq(Messages)
  BY DEF AgentInv, TypeOK, StateTypeOK
<1>2. loop.todo \in Seq(Events) /\ loop.todo # <<>>
  BY <1>1, FieldsTyped, EmitEffect
<1>3. /\ loop'.todo = Tail(loop.todo) /\ loop'.pc = loop.pc /\ loop'.context = loop.context
      /\ loop'.newMessages = loop.newMessages /\ loop'.results = loop.results /\ base' = base
      /\ messages' = (IF Head(loop.todo).type = "message_end" THEN Append(messages, m) ELSE messages)
  BY <1>1, EmitEffect
<1>4. m \in Messages
  BY <1>2 DEF Events
<1> HIDE DEF m
<1>5. StateFollows'
  <2> SUFFICES ASSUME Busy
               PROVE  \E ms \in Seq(Messages) :
                        Announces(loop'.todo, ms) /\ messages' \o ms = loop.context \o loop.results
    BY <1>3 DEF StateFollows, Busy
  <2>1. PICK ms \in Seq(Messages) :
          Announces(loop.todo, ms) /\ messages \o ms = loop.context \o loop.results
    BY DEF MirrorInv, StateFollows
  <2>2. CASE Head(loop.todo).type = "message_end"
    <3>1. ms # <<>> /\ m = Head(ms) /\ Announces(loop'.todo, Tail(ms))
      BY <1>2, <1>3, <2>1, <2>2, RestAnnounced DEF m
    <3>2. Append(messages, m) \o Tail(ms) = messages \o ms /\ Tail(ms) \in Seq(Messages)
      BY <1>1, <1>4, <3>1
    <3> QED BY <1>3, <2>1, <2>2, <3>1, <3>2
  <2>3. CASE Head(loop.todo).type # "message_end"
    <3>1. Announces(loop'.todo, ms)
      BY <1>2, <1>3, <2>1, <2>3, RestAnnounced
    <3> QED BY <1>3, <2>1, <2>3, <3>1
  <2> QED BY <2>2, <2>3
<1>6. RunCollected' /\ ResultsOfTurn'
  BY <1>3 DEF MirrorInv, RunCollected, ResultsOfTurn, Busy
<1>7. AskedQuietly'
  BY <1>2, <1>3 DEF MirrorInv, AskedQuietly
<1> QED BY <1>5, <1>6, <1>7 DEF MirrorInv

(* The steps that only poll, ask or start.                                 *)
LEMMA MirrorQuietSteps ==
    ASSUME AgentInv, MirrorInv,
           \/ InitialPoll \/ PollSteering \/ PollFollowUp \/ Request \/ StreamStart \/ Responded
           \/ StartCall \/ PreparedCall \/ LaunchPrepared \/ CallsExecuted
    PROVE  MirrorInv'
<1>0. LoopTypeOK
  BY DEF AgentInv, TypeOK
<1> DEFINE S == {"initialPoll", "pollSteering", "pollFollowUp", "request", "requested", "responded"}
<1>1. /\ loop.todo = <<>> /\ loop'.context = loop.context /\ loop'.newMessages = loop.newMessages
      /\ loop'.results = loop.results /\ UNCHANGED <<messages, base>>
      /\ Busy /\ (loop'.pc \in ResultPhases \/ loop.pc \notin ResultPhases)
      /\ loop'.pc = "requested" => loop'.todo = <<>>
      /\ \/ loop'.todo \in {<<>>, <<Event("agent_end", NoMessage)>>}
         \/ loop'.todo = <<Event("message_start", Assistant(turns, 0, "none"))>>
         \/ loop'.todo = <<Event("turn_end", loop.assistant), Event("agent_end", NoMessage)>>
         \/ loop'.todo = <<Event("tool_execution_start", ToolResult(NextCall))>>
  <2>1. CASE InitialPoll \/ PollSteering \/ PollFollowUp
    BY <1>0, <2>1, PollEffect DEF ResultPhases, Busy
  <2>2. CASE Request \/ StreamStart
    BY <1>0, <2>2, AskEffect DEF ResultPhases, Busy
  <2>3. CASE Responded
    BY <1>0, <2>3, RespondedEffect DEF ResultPhases, Busy
  <2>4. CASE StartCall
    BY <1>0, <2>4, StartCallEffect DEF ResultPhases, Busy
  <2>5. CASE PreparedCall
    BY <1>0, <2>5, PreparedEffect DEF ResultPhases, Busy
  <2>6. CASE LaunchPrepared \/ CallsExecuted
    BY <1>0, <2>6, LaunchEffect DEF ResultPhases, Busy
  <2> QED BY <2>1, <2>2, <2>3, <2>4, <2>5, <2>6
<1>2. Silent(loop'.todo)
  BY <1>1 DEF Silent, Event
<1>3. loop'.todo \in Seq(Events)
  <2>1. AgentInv'
    BY LoopStepInv DEF LoopStep
  <2> QED BY <2>1 DEF AgentInv, TypeOK, LoopTypeOK, Loops
<1> QED BY <1>1, <1>2, <1>3, MirrorRests

(* The messages injected at the top of a turn are announced.               *)
LEMMA MirrorInjects ==
    ASSUME AgentInv, MirrorInv, InjectPending
    PROVE  MirrorInv'
<1> DEFINE prologue == IF loop.pc = "turn" THEN <<Event("turn_start", NoMessage)>> ELSE <<>>
           ms == loop.pendingMessages
<1>0. LoopTypeOK
  BY DEF AgentInv, TypeOK
<1>1. ms \in Seq(Messages) /\ loop.context \in Seq(Messages)
  BY <1>0, FieldsTyped
<1>2. prologue \in Seq(Events) /\ Silent(prologue)
  <2>1. Event("turn_start", NoMessage) \in Events
    BY EventTyped, MessagesTyped DEF EventTypes
  <2>2. \A i \in 1 .. Len(prologue) : prologue[i].type # "message_end"
    BY DEF Event
  <2> QED BY <2>1, <2>2 DEF Silent
<1>3. /\ loop.pc \in {"firstTurn", "turn"} /\ loop.todo = <<>> /\ loop'.pc = "request"
      /\ loop'.todo = prologue \o AnnounceAll(ms)
      /\ loop'.context = loop.context \o ms /\ loop'.newMessages = loop.newMessages \o ms
      /\ loop'.results = loop.results /\ UNCHANGED <<messages, base>>
  BY <1>0, InjectEffect
<1> HIDE DEF prologue
<1>4. Announces(loop'.todo, ms)
  BY <1>1, <1>2, <1>3, AllAnnounced
<1>5. Busy /\ loop.results = <<>>
  BY <1>3 DEF MirrorInv, ResultsOfTurn, ResultPhases, Busy
<1> HIDE DEF ms
<1>6. loop'.context \o loop'.results = (loop.context \o loop.results) \o ms
  <2>1. loop.context \o ms \in Seq(Messages)
    BY <1>1
  <2>2. (loop.context \o ms) \o <<>> = loop.context \o ms /\ loop.context \o <<>> = loop.context
    BY <1>1, <2>1, ConcatEmptySeq
  <2> QED BY <1>3, <1>5, <2>2
<1>7. loop'.results = <<>> /\ loop'.pc # "requested"
  BY <1>3, <1>5
<1> QED BY <1>1, <1>3, <1>4, <1>5, <1>6, <1>7, MirrorMoves

(* The final message of a response is announced.                           *)
LEMMA MirrorResponds ==
    ASSUME AgentInv, MirrorInv, NEW n \in 0 .. MaxCalls, NEW stop \in StopReasons, StreamDone(n, stop)
    PROVE  MirrorInv'
<1> DEFINE m == Assistant(turns, n, stop)
<1>0. LoopTypeOK /\ turns \in Nat /\ n \in Nat
  BY ConstantsAssumption DEF AgentInv, TypeOK, HistoryTypeOK
<1>1. m \in Messages /\ <<m>> \in Seq(Messages)
  BY <1>0, MessagesTyped
<1>2. /\ loop.context \in Seq(Messages) /\ loop.newMessages \in Seq(Messages)
  BY <1>0, FieldsTyped
<1>3. /\ loop.todo = <<>> /\ loop.pc \in {"requested", "streaming"} /\ loop'.pc = "responded"
      /\ loop'.todo \in {Announce(m), <<Event("message_end", m)>>}
      /\ loop'.context = Append(loop.context, m) /\ loop'.newMessages = loop.newMessages \o <<m>>
      /\ loop'.results = loop.results /\ UNCHANGED <<messages, base>>
  BY <1>0, DoneEffect
<1> HIDE DEF m
<1>4. Announces(loop'.todo, <<m>>)
  <2>1. Event("message_start", m) \in Events /\ Event("message_end", m) \in Events
    BY <1>1, EventTyped DEF EventTypes
  <2>2. CASE loop'.todo = Announce(m)
    <3>1. /\ loop'.todo \in Seq(Events) /\ Len(loop'.todo) = 2
          /\ loop'.todo[1] = Event("message_start", m) /\ loop'.todo[2] = Event("message_end", m)
      BY <2>1, <2>2 DEF Announce
    <3>2. 2 \in 1 .. Len(loop'.todo)
      BY <3>1
    <3>3. \A i \in 1 .. Len(loop'.todo) : i # 2 => loop'.todo[i].type # "message_end"
      BY <3>1 DEF Event
    <3> QED BY <1>1, <3>1, <3>2, <3>3, OneAnnounced
  <2>3. CASE loop'.todo = <<Event("message_end", m)>>
    <3>1. loop'.todo \in Seq(Events) /\ Len(loop'.todo) = 1 /\ loop'.todo[1] = Event("message_end", m)
      BY <2>1, <2>3
    <3>2. 1 \in 1 .. Len(loop'.todo) /\ \A i \in 1 .. Len(loop'.todo) : i = 1
      BY <3>1
    <3> QED BY <1>1, <3>1, <3>2, OneAnnounced
  <2> QED BY <1>3, <2>2, <2>3
<1>5. Busy /\ loop.results = <<>>
  BY <1>3 DEF MirrorInv, ResultsOfTurn, ResultPhases, Busy
<1>6. loop'.context = loop.context \o <<m>>
  BY SMTT(30), <1>1, <1>2, <1>3
<1>7. loop'.context \o loop'.results = (loop.context \o loop.results) \o <<m>>
  <2>1. loop.context \o <<m>> \in Seq(Messages)
    BY <1>1, <1>2
  <2>2. (loop.context \o <<m>>) \o <<>> = loop.context \o <<m>> /\ loop.context \o <<>> = loop.context
    BY <1>2, <2>1, ConcatEmptySeq
  <2> QED BY <1>3, <1>5, <1>6, <2>2
<1>8. loop'.results = <<>> /\ loop'.pc # "requested"
  BY <1>3, <1>5
<1> QED BY <1>1, <1>3, <1>4, <1>5, <1>6, <1>7, <1>8, MirrorMoves

(* The outcome of a call announces its result.                             *)
LEMMA OutcomeAnnounced ==
    ASSUME NEW c \in CallIds
    PROVE  Announces(Outcome(c), <<ToolResult(c)>>)
<1> DEFINE m == ToolResult(c)
           todo == Outcome(c)
<1>1. m \in Messages /\ todo \in Seq(Events)
  BY MessagesTyped, OutcomeTyped
<1>2. /\ Len(todo) = 3 /\ todo[1] = Event("tool_execution_end", m)
      /\ todo[2] = Event("message_start", m) /\ todo[3] = Event("message_end", m)
  BY DEF Outcome, Announce
<1> HIDE DEF m, todo
<1>3. 3 \in 1 .. Len(todo) /\ \A i \in 1 .. Len(todo) : i # 3 => todo[i].type # "message_end"
  BY <1>2 DEF Event
<1>4. Announces(todo, <<m>>)
  BY <1>1, <1>2, <1>3, OneAnnounced
<1> QED BY <1>4 DEF m, todo

(* A call that is over adds its result to those of the turn.               *)
LEMMA MirrorAnswers ==
    ASSUME AgentInv, MirrorInv, ImmediateOutcome \/ FinalizeCall
    PROVE  MirrorInv'
<1>0. LoopTypeOK
  BY DEF AgentInv, TypeOK
<1>1. PICK c \in CallIds :
        /\ loop.todo = <<>> /\ loop.pc \in {"prepare", "await"} /\ loop'.pc \in {"tool", "await"}
        /\ loop'.todo = Outcome(c) /\ loop'.results = Append(loop.results, ToolResult(c))
        /\ loop'.context = loop.context /\ loop'.newMessages = loop.newMessages
        /\ UNCHANGED <<messages, base>>
  <2>1. CASE ImmediateOutcome
    <3>1. loop.pc = "prepare"
      BY <1>0, <2>1, ImmediateEffect
    <3>2. NextCall \in CallIds
      BY <1>0, <3>1, NextCallTyped DEF AgentInv, ResponseHasId
    <3> QED BY <1>0, <2>1, <3>2, ImmediateEffect
  <2>2. CASE FinalizeCall
    <3>1. loop.runnable \in Seq(CallIds) /\ loop.runnable # <<>>
      BY <1>0, <2>2, FieldsTyped, FinalizeEffect
    <3>2. Head(loop.runnable) \in CallIds
      BY <3>1
    <3> QED BY <1>0, <2>2, <3>2, FinalizeEffect
  <2> QED BY <2>1, <2>2
<1> DEFINE m == ToolResult(c)
<1>2. m \in Messages /\ <<m>> \in Seq(Messages)
  BY MessagesTyped
<1>9. <<>> \in Seq(Messages)
  OBVIOUS
<1>3. /\ loop.context \in Seq(Messages) /\ loop.newMessages \in Seq(Messages) /\ loop.results \in Seq(Messages)
  BY <1>0, FieldsTyped
<1>4. Announces(loop'.todo, <<m>>)
  BY <1>1, OutcomeAnnounced
<1>5. loop'.results = Append(loop.results, m)
  BY <1>1
<1> HIDE DEF m
<1>6. loop'.context \o loop'.results = (loop.context \o loop.results) \o <<m>>
  <2>1. Append(loop.results, m) = loop.results \o <<m>>
    BY <1>2, <1>3, MessageAppended
  <2>2. loop.context \o (loop.results \o <<m>>) = (loop.context \o loop.results) \o <<m>>
    <3>1. \A s, t, u \in Seq(Messages) : (s \o t) \o u = s \o (t \o u)
      BY MessagesConcat
    <3> QED BY <1>2, <1>3, <3>1
  <2> QED BY <1>1, <1>5, <2>1, <2>2
<1>7. loop'.context = loop.context \o <<>> /\ loop'.newMessages = loop.newMessages \o <<>>
  BY <1>1, <1>3, ConcatEmptySeq
<1>8. Busy /\ loop'.pc \in ResultPhases /\ loop'.pc # "requested"
  BY <1>1 DEF Busy, ResultPhases
<1> QED BY <1>1, <1>2, <1>4, <1>6, <1>7, <1>8, <1>9, MirrorMoves

(* At the end of a turn its results become part of the context.            *)
LEMMA MirrorTurnEnds ==
    ASSUME AgentInv, MirrorInv, TurnEnd
    PROVE  MirrorInv'
<1>0. LoopTypeOK
  BY DEF AgentInv, TypeOK
<1>1. /\ loop.pc = "turnEnd" /\ loop.todo = <<>> /\ loop'.pc = "pollSteering"
      /\ loop'.todo = <<Event("turn_end", loop.assistant)>>
      /\ loop'.context = loop.context \o loop.results
      /\ loop'.newMessages = loop.newMessages \o loop.results /\ loop'.results = <<>>
      /\ UNCHANGED <<messages, base>>
  BY <1>0, TurnEndEffect
<1>2. /\ loop.context \in Seq(Messages) /\ loop.newMessages \in Seq(Messages)
      /\ loop.results \in Seq(Messages) /\ loop.assistant \in Messages
  BY <1>0, FieldsTyped
<1>3. Announces(loop'.todo, <<>>)
  <2>1. Event("turn_end", loop.assistant) \in Events
    BY <1>2, EventTyped DEF EventTypes
  <2>2. loop'.todo \in Seq(Events) /\ Silent(loop'.todo)
    BY <1>1, <2>1 DEF Silent, Event
  <2> QED BY <2>2, SilentAnnounces
<1>4. loop'.context \o loop'.results = (loop.context \o loop.results) \o <<>>
  BY <1>1
<1>5. Busy /\ loop'.pc # "requested" /\ <<>> \in Seq(Messages)
  BY <1>1 DEF Busy
<1> QED BY <1>1, <1>2, <1>3, <1>4, <1>5, MirrorMoves

(* The public interface: only reset() during a run would touch the         *)
(* transcript of a loop that goes on.                                      *)
LEMMA MirrorInterface ==
    ASSUME AgentInv, MirrorInv, Interface, Reset => ~activeRun
    PROVE  MirrorInv'
<1>1. ASSUME NEW u \in UserMsgs, Prompt(u)
      PROVE  MirrorInv'
  <2>1. <<User(u)>> \in Seq(Messages)
    BY MessagesTyped
  <2> QED BY <1>1, <2>1, MirrorStarts DEF Prompt
<1>2. CASE Continue
  <2>1. /\ Drained(steeringQueue) \in Seq(Messages) /\ Drained(followUpQueue) \in Seq(Messages)
        /\ <<>> \in Seq(Messages)
    BY QueueTyped DEF AgentInv, TypeOK, InboxTypeOK
  <2>2. \/ StartRun(<<>>, FALSE)
        \/ StartRun(Drained(steeringQueue), TRUE)
        \/ StartRun(Drained(followUpQueue), FALSE)
    BY <1>2 DEF Continue
  <2> QED BY <2>1, <2>2, MirrorStarts
<1>3. ASSUME UNCHANGED <<loop, messages, base>>
      PROVE  MirrorInv'
  BY <1>3 DEF MirrorInv, StateFollows, RunCollected, ResultsOfTurn, AskedQuietly, Busy
<1>4. ASSUME NEW u \in UserMsgs, Steer(u) \/ FollowUp(u)
      PROVE  MirrorInv'
  BY <1>3, <1>4 DEF Steer, FollowUp, stateVars
<1>5. CASE Abort \/ ClearAllQueues
  BY <1>3, <1>5 DEF Abort, ClearAllQueues, stateVars, histVars
<1>6. CASE Reset
  <2>1. loop' = loop /\ loop.pc = "idle"
    BY <1>6 DEF Reset, AgentInv, RunHasLoop
  <2> QED BY <2>1 DEF MirrorInv, StateFollows, RunCollected, ResultsOfTurn, AskedQuietly, Busy
<1> QED BY <1>1, <1>2, <1>4, <1>5, <1>6 DEF Interface

(* Every step keeps the transcripts together.                              *)
LEMMA MirrorStep ==
    ASSUME AgentInv, MirrorInv, [Next]_vars, [Reset => ~activeRun]_vars
    PROVE  MirrorInv'
<1>1. CASE Interface /\ (Reset => ~activeRun)
  BY <1>1, MirrorInterface
<1>2. CASE Emit
  BY <1>2, MirrorEmits
<1>3. CASE \/ InitialPoll \/ PollSteering \/ PollFollowUp \/ Request \/ StreamStart \/ Responded
           \/ StartCall \/ PreparedCall \/ LaunchPrepared \/ CallsExecuted
  BY <1>3, MirrorQuietSteps
<1>4. CASE InjectPending
  BY <1>4, MirrorInjects
<1>5. ASSUME NEW n \in 0 .. MaxCalls, NEW stop \in StopReasons, StreamDone(n, stop)
      PROVE  MirrorInv'
  BY <1>5, MirrorResponds
<1>6. CASE ImmediateOutcome \/ FinalizeCall
  BY <1>6, MirrorAnswers
<1>7. CASE TurnEnd
  BY <1>7, MirrorTurnEnds
<1>8. CASE \/ FinishRun \/ FailureListenerThrows \/ StreamThrows \/ CallRejected \/ ListenerThrows
  <2>1. loop'.pc \in {"idle", "failing"} /\ loop'.results = <<>>
    BY <1>8, EndEffect, FailEffect
  <2> QED BY <2>1 DEF MirrorInv, StateFollows, RunCollected, ResultsOfTurn, AskedQuietly, Busy
<1>9. CASE ToolStep \/ UNCHANGED vars
  <2>1. UNCHANGED <<loop, messages, base>>
    BY <1>9 DEF ToolStep, ToolSettles, UpdateRejected, OrphanUpdate, OrphanSettles, vars, stateVars, histVars
  <2> QED BY <2>1 DEF MirrorInv, StateFollows, RunCollected, ResultsOfTurn, AskedQuietly, Busy
<1>10. UNCHANGED vars \/ (Next /\ (Reset => ~activeRun))
  OBVIOUS
<1> QED BY <1>1, <1>2, <1>3, <1>4, <1>5, <1>6, <1>7, <1>8, <1>9, <1>10 DEF Next, LoopStep

(* At rest and outside a turn the transcript of the state is the context.  *)
LEMMA AtRest ==
    ASSUME AgentInv, MirrorInv, Busy, loop.todo = <<>>, loop.pc \notin ResultPhases
    PROVE  loop.context = messages /\ loop.results = <<>> /\ loop.context \o loop.results = loop.context
<1>0. loop.context \in Seq(Messages) /\ messages \in Seq(Messages)
  BY FieldsTyped DEF AgentInv, TypeOK, StateTypeOK
<1>1. PICK ms \in Seq(Messages) :
        Announces(loop.todo, ms) /\ messages \o ms = loop.context \o loop.results
  BY DEF MirrorInv, StateFollows
<1>2. ms = <<>> /\ loop.results = <<>>
  BY <1>1, NothingAnnounced DEF MirrorInv, ResultsOfTurn
<1>3. messages \o <<>> = messages /\ loop.context \o <<>> = loop.context
  BY <1>0, ConcatEmptySeq
<1> QED BY <1>1, <1>2, <1>3

(* Before the first run every transcript is empty.                         *)
LEMMA MirrorInit == Init => MirrorInv
BY DEF Init, IdleLoop, MirrorInv, StateFollows, RunCollected, ResultsOfTurn, AskedQuietly, Busy

(* reset() is called only between runs.                                    *)
ResetsBetweenRuns == [][Reset => ~activeRun]_vars

(* The transcripts agree in every execution in which reset() is not called *)
(* during a run: whatever is steered, aborted, or fails, the model is      *)
(* asked with what the user sees, and agent_end reports what was added.    *)
THEOREM TranscriptsAgreeHolds == Spec /\ ResetsBetweenRuns => []TranscriptsAgree
<1>1. AgentInv /\ MirrorInv => TranscriptsAgree
  <2> SUFFICES ASSUME AgentInv, MirrorInv PROVE TranscriptsAgree
    OBVIOUS
  <2>0. /\ loop.context \in Seq(Messages) /\ loop.newMessages \in Seq(Messages)
        /\ messages \in Seq(Messages)
    BY FieldsTyped DEF AgentInv, TypeOK, StateTypeOK
  <2>1. ASSUME Busy, loop.todo = <<>>, loop.pc \notin ResultPhases
        PROVE  loop.context = messages
    BY <2>1, AtRest
  <2>2. ModelSeesTranscript
    BY <2>1 DEF ModelSeesTranscript, MirrorInv, AskedQuietly, Busy, ResultPhases
  <2>3. AgentEndReportsRun
    <3> SUFFICES ASSUME loop.pc = "finish", loop.todo = <<>>
                 PROVE  messages = SubSeq(messages, 1, base) \o loop.newMessages
      BY DEF AgentEndReportsRun, Resume
    <3>1. Busy /\ loop.context = messages
      BY <2>1 DEF Busy, ResultPhases
    <3>2. PICK start \in Seq(Messages) : Len(start) = base /\ loop.context = start \o loop.newMessages
      BY <3>1 DEF MirrorInv, RunCollected
    <3>3. messages = start \o loop.newMessages
      BY <3>1, <3>2
    <3>4. SubSeq(messages, 1, base) = start
      <4>1. SubSeq(messages, 1, base) \in Seq(Messages) /\ Len(SubSeq(messages, 1, base)) = base
        BY <2>0, <3>2, <3>3
      <4>2. \A i \in 1 .. base : SubSeq(messages, 1, base)[i] = start[i]
        BY <2>0, <3>2, <3>3
      <4> QED BY <3>2, <4>1, <4>2, SeqEqual
    <3> QED BY <3>3, <3>4
  <2> QED BY <2>2, <2>3 DEF TranscriptsAgree
<1>2. AgentInv /\ MirrorInv /\ [Next]_vars /\ [Reset => ~activeRun]_vars => MirrorInv'
  BY MirrorStep
<1> QED BY <1>1, <1>2, MirrorInit, AgentInvariant, PTL DEF Spec, ResetsBetweenRuns
----------------------------------------------------------------------------
(* The calls shown as pending: those prepared and not yet over.            *)

ToolPhase == loop.pc \in {"tool", "prepare", "await"}

Call(k) == <<loop.assistant.id[1], k>>

Runnable  == {loop.runnable[i] : i \in 1 .. Len(loop.runnable)}
Preparing == IF loop.pc = "prepare" THEN {NextCall} ELSE {}
Announced(type) == {c \in CallIds : \E i \in 1 .. Len(loop.todo) :
                                      loop.todo[i].type = type /\ loop.todo[i].message.id = c}
Starting  == Announced("tool_execution_start")
Ending    == Announced("tool_execution_end")

(* Calls are started one after the other, so those that wait are distinct  *)
(* and before the next one.                                                *)
RunnableStarted ==
    /\ loop.next >= 1
    /\ ~ToolPhase => loop.runnable = <<>>
    /\ \A i \in 1 .. Len(loop.runnable) : \E k \in 1 .. loop.next - 1 : loop.runnable[i] = Call(k)
    /\ \A i, j \in 1 .. Len(loop.runnable) : i # j => loop.runnable[i] # loop.runnable[j]

(* Only the next event can be about a call: the one being prepared, or one *)
(* that no longer waits.                                                   *)
OneToolEvent ==
    \A i \in 1 .. Len(loop.todo) :
        /\ loop.todo[i].type \in {"tool_execution_start", "tool_execution_end"} => i = 1
        /\ loop.todo[i].type = "tool_execution_start" =>
             loop.pc = "prepare" /\ loop.todo[i].message.id = NextCall
        /\ loop.todo[i].type = "tool_execution_end" =>
             loop.pc \in {"tool", "await"} /\ loop.todo[i].message.id \notin Runnable

(* A call is pending from the emission of its start to that of its end.    *)
PendingIs ==
    loop.pc # "failing" => pendingToolCalls = (Runnable \cup Preparing \cup Ending) \ Starting

PendingInv == RunnableStarted /\ OneToolEvent /\ PendingIs

ToolFree(todo) ==
    \A i \in 1 .. Len(todo) : todo[i].type \notin {"tool_execution_start", "tool_execution_end"}

(* What is announced of messages alone is not about calls.                 *)
LEMMA AnnouncementsToolFree ==
    ASSUME NEW ms \in Seq(Messages), NEW prologue \in Seq(Events), ToolFree(prologue)
    PROVE  ToolFree(prologue \o AnnounceAll(ms))
<1> DEFINE a == AnnounceAll(ms)
           p == Len(prologue)
<1>1. a \in Seq(Events) /\ Len(a) = 2 * Len(ms)
  BY AnnounceAllTyped DEF AnnounceAll
<1>2. \A i \in 1 .. Len(a) : a[i].type \in {"message_start", "message_end"}
  BY <1>1 DEF AnnounceAll, Event
<1> HIDE DEF a
<1>3. ASSUME NEW i \in 1 .. Len(prologue \o a)
      PROVE  (prologue \o a)[i].type \notin {"tool_execution_start", "tool_execution_end"}
  <2>1. p \in Nat /\ Len(a) \in Nat /\ Len(prologue \o a) = p + Len(a)
    BY <1>1
  <2>2. CASE i <= p
    <3>1. i \in 1 .. p /\ (prologue \o a)[i] = prologue[i]
      BY <1>1, <2>1, <2>2
    <3> QED BY <3>1 DEF ToolFree
  <2>3. CASE ~(i <= p)
    <3>1. i - p \in 1 .. Len(a) /\ (prologue \o a)[i] = a[i - p]
      BY <1>1, <2>1, <2>3
    <3> QED BY <1>2, <3>1
  <2> QED BY <2>2, <2>3
<1> QED BY <1>3 DEF ToolFree, a

(* With nothing left to emit, the pending calls are those that wait and    *)
(* the one being prepared.                                                 *)
LEMMA PendingAtRest ==
    ASSUME PendingInv, loop.todo = <<>>, loop.pc # "failing"
    PROVE  pendingToolCalls = Runnable \cup Preparing
<1>1. \A i : i \notin 1 .. Len(loop.todo)
  OBVIOUS
<1>2. Ending = {} /\ Starting = {}
  BY <1>1 DEF Ending, Starting, Announced
<1> QED BY <1>2 DEF PendingInv, PendingIs

(* With nothing runnable no call waits.                                    *)
LEMMA NoRunnable ==
    ASSUME loop.runnable = <<>>
    PROVE  Runnable = {}
<1>1. \A i : i \notin 1 .. Len(loop.runnable)
  OBVIOUS
<1> QED BY <1>1 DEF Runnable

(* Outside the tool phase no call is pending.                              *)
LEMMA NonePending ==
    ASSUME PendingInv, ~ToolPhase, loop.pc # "failing"
    PROVE  pendingToolCalls = {}
<1>1. Runnable = {} /\ Preparing = {}
  BY NoRunnable DEF PendingInv, RunnableStarted, ToolPhase, Preparing
<1>2. Ending = {}
  BY DEF Ending, Announced, PendingInv, OneToolEvent, ToolPhase
<1> QED BY <1>1, <1>2 DEF PendingInv, PendingIs

(* A step after which no call waits or is announced.                       *)
LEMMA PendingNone ==
    ASSUME loop'.runnable = <<>>, loop'.next >= 1, loop'.pc # "prepare", ToolFree(loop'.todo),
           loop'.pc # "failing" => pendingToolCalls' = {}
    PROVE  PendingInv'
<1>1. \A i : i \notin 1 .. Len(loop'.runnable)
  OBVIOUS
<1>2. RunnableStarted'
  BY <1>1 DEF RunnableStarted
<1>3. OneToolEvent'
  BY DEF OneToolEvent, ToolFree
<1>4. Runnable' = {} /\ Preparing' = {}
  BY <1>1 DEF Runnable, Preparing
<1>5. Ending' = {} /\ Starting' = {}
  BY DEF Ending, Starting, Announced, ToolFree
<1>6. PendingIs'
  BY <1>4, <1>5 DEF PendingIs
<1> QED BY <1>2, <1>3, <1>6 DEF PendingInv

(* The state's set of pending calls follows the events about calls.        *)
LEMMA PendingEmits ==
    ASSUME AgentInv, PendingInv, Emit
    PROVE  PendingInv'
<1> DEFINE e == Head(loop.todo)
           rest == Tail(loop.todo)
<1>0. LoopTypeOK
  BY DEF AgentInv, TypeOK
<1>1. loop.todo \in Seq(Events) /\ loop.todo # <<>>
  BY <1>0, FieldsTyped, EmitEffect
<1>2. /\ loop'.todo = rest /\ loop'.pc = loop.pc /\ loop'.assistant = loop.assistant
      /\ loop'.next = loop.next /\ loop'.runnable = loop.runnable
      /\ pendingToolCalls' = PendingAfter(e)
  BY <1>0, EmitEffect
<1>3. /\ e = loop.todo[1] /\ 1 \in 1 .. Len(loop.todo) /\ e \in Events
      /\ Len(rest) = Len(loop.todo) - 1 /\ \A i \in 1 .. Len(rest) : rest[i] = loop.todo[i + 1]
  BY <1>1, HeadTailProperties
<1> HIDE DEF e, rest
<1>4. RunnableStarted' /\ Runnable' = Runnable /\ Preparing' = Preparing
  BY <1>2 DEF PendingInv, RunnableStarted, ToolPhase, Call, Runnable, Preparing, NextCall
<1>5. ToolFree(rest)
  <2> SUFFICES ASSUME NEW i \in 1 .. Len(rest)
               PROVE  rest[i].type \notin {"tool_execution_start", "tool_execution_end"}
    BY DEF ToolFree
  <2>1. i + 1 \in 1 .. Len(loop.todo) /\ i + 1 # 1 /\ rest[i] = loop.todo[i + 1]
    BY <1>1, <1>3
  <2> QED BY <2>1 DEF PendingInv, OneToolEvent
<1>6. OneToolEvent' /\ Ending' = {} /\ Starting' = {}
  BY <1>2, <1>5 DEF OneToolEvent, ToolFree, Ending, Starting, Announced
<1>7. \A i \in 1 .. Len(loop.todo) :
        i # 1 => loop.todo[i].type \notin {"tool_execution_start", "tool_execution_end"}
  BY DEF PendingInv, OneToolEvent
<1>8. PendingIs'
  <2> SUFFICES ASSUME loop.pc # "failing"
               PROVE  PendingAfter(e) = Runnable \cup Preparing
    BY <1>2, <1>4, <1>6 DEF PendingIs
  <2>0. pendingToolCalls = (Runnable \cup Preparing \cup Ending) \ Starting
    BY DEF PendingInv, PendingIs
  <2>1. CASE e.type = "tool_execution_start"
    <3>1. e.message.id = NextCall /\ loop.pc = "prepare" /\ e.message.id \in CallIds
      BY <1>3, <2>1 DEF PendingInv, OneToolEvent, Events
    <3>2. Starting = {NextCall} /\ Ending = {}
      BY <1>3, <1>7, <2>1, <3>1 DEF Starting, Ending, Announced
    <3>3. PendingAfter(e) = pendingToolCalls \cup {NextCall} /\ Preparing = {NextCall}
      BY <2>1, <3>1 DEF PendingAfter, Preparing
    <3> QED BY <2>0, <3>2, <3>3
  <2>2. CASE e.type = "tool_execution_end"
    <3>1. e.message.id \notin Runnable /\ Preparing = {}
      BY <1>3, <2>2 DEF PendingInv, OneToolEvent, Preparing
    <3>2. Starting = {} /\ Ending \subseteq {e.message.id}
      BY <1>3, <1>7, <2>2 DEF Starting, Ending, Announced
    <3>3. PendingAfter(e) = pendingToolCalls \ {e.message.id}
      BY <2>2 DEF PendingAfter
    <3> QED BY <2>0, <3>1, <3>2, <3>3
  <2>3. CASE e.type \notin {"tool_execution_start", "tool_execution_end"}
    <3>1. Starting = {} /\ Ending = {}
      BY <1>3, <1>7, <2>3 DEF Starting, Ending, Announced
    <3>2. PendingAfter(e) = pendingToolCalls
      BY <2>3 DEF PendingAfter
    <3> QED BY <2>0, <3>1, <3>2
  <2> QED BY <2>1, <2>2, <2>3
<1> QED BY <1>4, <1>6, <1>8 DEF PendingInv

(* The steps outside the tool phase, and those that enter or leave it.     *)
LEMMA PendingOutside ==
    ASSUME AgentInv, PendingInv,
           \/ InitialPoll \/ PollSteering \/ PollFollowUp \/ InjectPending \/ Request \/ StreamStart
           \/ Responded \/ TurnEnd
           \/ \E n \in 0 .. MaxCalls, stop \in StopReasons : StreamDone(n, stop)
    PROVE  PendingInv'
<1>0. LoopTypeOK
  BY DEF AgentInv, TypeOK
<1>1. /\ ~ToolPhase /\ loop.pc # "failing" /\ loop'.runnable = loop.runnable /\ loop'.pc # "prepare"
      /\ pendingToolCalls' = pendingToolCalls /\ ToolFree(loop'.todo) /\ loop'.next \in {1, loop.next}
  <2>1. CASE InitialPoll \/ PollSteering \/ PollFollowUp
    BY <1>0, <2>1, PollEffect DEF ToolPhase, ToolFree, Event
  <2>2. CASE Request \/ StreamStart
    BY <1>0, <2>2, AskEffect DEF ToolPhase, ToolFree, Event
  <2>3. CASE Responded
    BY <1>0, <2>3, RespondedEffect DEF ToolPhase, ToolFree, Event
  <2>4. CASE TurnEnd
    BY <1>0, <2>4, TurnEndEffect DEF ToolPhase, ToolFree, Event
  <2>5. ASSUME NEW n \in 0 .. MaxCalls, NEW stop \in StopReasons, StreamDone(n, stop)
        PROVE  /\ ~ToolPhase /\ loop.pc # "failing" /\ loop'.runnable = loop.runnable
               /\ loop'.pc # "prepare" /\ pendingToolCalls' = pendingToolCalls /\ ToolFree(loop'.todo)
               /\ loop'.next \in {1, loop.next}
    <3> DEFINE m == Assistant(turns, n, stop)
    <3>1. /\ loop.pc \in {"requested", "streaming"} /\ loop'.pc = "responded"
          /\ loop'.todo \in {Announce(m), <<Event("message_end", m)>>}
          /\ loop'.runnable = loop.runnable /\ pendingToolCalls' = pendingToolCalls
          /\ loop'.next = loop.next
      BY <1>0, <2>5, DoneEffect
    <3> HIDE DEF m
    <3>2. ToolFree(Announce(m)) /\ ToolFree(<<Event("message_end", m)>>)
      BY DEF ToolFree, Event, Announce
    <3> QED BY <3>1, <3>2 DEF ToolPhase
  <2>6. CASE InjectPending
    <3> DEFINE prologue == IF loop.pc = "turn" THEN <<Event("turn_start", NoMessage)>> ELSE <<>>
    <3>1. Event("turn_start", NoMessage) \in Events
      BY EventTyped, MessagesTyped DEF EventTypes
    <3>2. prologue \in Seq(Events) /\ ToolFree(prologue)
      BY <3>1 DEF ToolFree, Event
    <3>3. /\ loop.pc \in {"firstTurn", "turn"} /\ loop'.pc = "request"
          /\ loop'.todo = prologue \o AnnounceAll(loop.pendingMessages)
          /\ loop'.runnable = loop.runnable /\ pendingToolCalls' = pendingToolCalls
          /\ loop'.next = loop.next
      BY <1>0, <2>6, InjectEffect
    <3> HIDE DEF prologue
    <3>4. ToolFree(loop'.todo)
      BY <1>0, <3>2, <3>3, FieldsTyped, AnnouncementsToolFree
    <3> QED BY <3>3, <3>4 DEF ToolPhase
  <2> QED BY <2>1, <2>2, <2>3, <2>4, <2>5, <2>6
<1>2. pendingToolCalls' = {} /\ loop'.runnable = <<>> /\ loop'.next >= 1
  BY <1>1, NonePending DEF PendingInv, RunnableStarted
<1> QED BY <1>1, <1>2, PendingNone

(* Starting a run.                                                         *)
LEMMA PendingStarts ==
    ASSUME AgentInv, NEW prompts \in Seq(Messages), NEW skip \in BOOLEAN, StartRun(prompts, skip)
    PROVE  PendingInv'
<1> DEFINE prologue == <<Event("agent_start", NoMessage), Event("turn_start", NoMessage)>>
<1>1. Event("agent_start", NoMessage) \in Events /\ Event("turn_start", NoMessage) \in Events
  BY EventTyped, MessagesTyped DEF EventTypes
<1>2. prologue \in Seq(Events) /\ ToolFree(prologue)
  BY <1>1 DEF ToolFree, Event
<1>3. /\ loop'.pc \in {"initialPoll", "firstTurn"} /\ loop'.todo = prologue \o AnnounceAll(prompts)
      /\ loop'.runnable = <<>> /\ loop'.next = 1 /\ pendingToolCalls' = pendingToolCalls /\ ~activeRun
  BY StartEffect DEF prologue
<1> HIDE DEF prologue
<1>4. ToolFree(loop'.todo)
  BY <1>2, <1>3, AnnouncementsToolFree
<1>5. pendingToolCalls' = {}
  BY <1>3 DEF AgentInv, RunHasLoop, IdleCleared, IdleState
<1> QED BY <1>3, <1>4, <1>5, PendingNone

(* What is emitted for a call that is over.                                *)
LEMMA OutcomeEvents ==
    ASSUME NEW c \in CallIds
    PROVE  /\ Len(Outcome(c)) = 3
           /\ Outcome(c)[1].type = "tool_execution_end" /\ Outcome(c)[1].message.id = c
           /\ Outcome(c)[2].type = "message_start" /\ Outcome(c)[3].type = "message_end"
BY DEF Outcome, Announce, Event, ToolResult

(* A call that is over no longer waits, and its end is announced.          *)
LEMMA PendingOver ==
    ASSUME PendingInv, NEW c \in CallIds, loop.todo = <<>>, loop.pc # "failing",
           loop'.todo = Outcome(c), loop'.pc \in {"tool", "await"},
           pendingToolCalls' = pendingToolCalls,
           c \notin Runnable', RunnableStarted', Runnable \cup Preparing = Runnable' \cup {c}
    PROVE  PendingInv'
<1>1. pendingToolCalls' = Runnable' \cup {c}
  BY PendingAtRest
<1>2. /\ Len(loop'.todo) = 3
      /\ loop'.todo[1].type = "tool_execution_end" /\ loop'.todo[1].message.id = c
      /\ loop'.todo[2].type = "message_start" /\ loop'.todo[3].type = "message_end"
  BY OutcomeEvents
<1>3. OneToolEvent'
  BY <1>2 DEF OneToolEvent
<1>4. 1 \in 1 .. Len(loop'.todo)
  BY <1>2
<1>5. Ending' = {c} /\ Starting' = {} /\ Preparing' = {}
  BY <1>2, <1>4 DEF Ending, Starting, Announced, Preparing
<1>6. PendingIs'
  BY <1>1, <1>5 DEF PendingIs
<1> QED BY <1>3, <1>6 DEF PendingInv

(* The next call is none of those that wait.                               *)
LEMMA NextCallNew ==
    ASSUME AgentInv, RunnableStarted
    PROVE  NextCall \notin Runnable
<1>1. loop.next \in Nat
  BY FieldsTyped DEF AgentInv, TypeOK
<1>2. ASSUME NEW i \in 1 .. Len(loop.runnable), loop.runnable[i] = NextCall
      PROVE  FALSE
  <2>1. PICK k \in 1 .. loop.next - 1 : loop.runnable[i] = Call(k)
    BY DEF RunnableStarted
  <2>2. k = loop.next
    BY <1>2, <2>1 DEF Call, NextCall
  <2> QED BY <1>1, <2>1, <2>2
<1> QED BY <1>2 DEF Runnable

(* The start of a call is announced before it is prepared.                 *)
LEMMA PendingCallStarts ==
    ASSUME AgentInv, PendingInv, StartCall
    PROVE  PendingInv'
<1>0. LoopTypeOK
  BY DEF AgentInv, TypeOK
<1>1. /\ loop.todo = <<>> /\ loop.pc = "tool" /\ loop'.pc = "prepare"
      /\ loop'.todo = <<Event("tool_execution_start", ToolResult(NextCall))>>
      /\ loop'.assistant = loop.assistant /\ loop'.next = loop.next /\ loop'.runnable = loop.runnable
      /\ pendingToolCalls' = pendingToolCalls
  BY <1>0, StartCallEffect
<1>2. NextCall \in CallIds
  BY <1>0, <1>1, NextCallTyped DEF AgentInv, ResponseHasId
<1>3. RunnableStarted' /\ Runnable' = Runnable /\ NextCall' = NextCall
  BY <1>1 DEF PendingInv, RunnableStarted, ToolPhase, Call, Runnable, NextCall
<1>4. /\ Len(loop'.todo) = 1 /\ loop'.todo[1].type = "tool_execution_start"
      /\ loop'.todo[1].message.id = NextCall /\ 1 \in 1 .. Len(loop'.todo)
  BY <1>1 DEF Event, ToolResult
<1>5. OneToolEvent'
  BY <1>1, <1>3, <1>4 DEF OneToolEvent
<1>6. Starting' = {NextCall} /\ Ending' = {} /\ Preparing' = {NextCall}
  BY <1>1, <1>2, <1>3, <1>4 DEF Starting, Ending, Announced, Preparing
<1>7. pendingToolCalls = Runnable
  BY <1>1, PendingAtRest DEF Preparing
<1>8. NextCall \notin Runnable
  BY NextCallNew DEF PendingInv
<1>9. PendingIs'
  BY <1>1, <1>3, <1>6, <1>7, <1>8 DEF PendingIs
<1> QED BY <1>3, <1>5, <1>9 DEF PendingInv

(* A call that is answered at once is over.                                *)
LEMMA PendingImmediate ==
    ASSUME AgentInv, PendingInv, ImmediateOutcome
    PROVE  PendingInv'
<1>0. LoopTypeOK
  BY DEF AgentInv, TypeOK
<1>1. /\ loop.todo = <<>> /\ loop.pc = "prepare" /\ loop'.pc = "tool" /\ loop'.todo = Outcome(NextCall)
      /\ loop'.assistant = loop.assistant /\ loop'.next = loop.next + 1 /\ loop'.runnable = loop.runnable
      /\ pendingToolCalls' = pendingToolCalls
  BY <1>0, ImmediateEffect
<1>2. NextCall \in CallIds /\ loop.next \in Nat
  BY <1>0, <1>1, NextCallTyped, FieldsTyped DEF AgentInv, ResponseHasId
<1>3. Runnable' = Runnable /\ Preparing = {NextCall}
  BY <1>1 DEF Runnable, Preparing
<1>4. RunnableStarted'
  <2>1. \A k \in 1 .. loop.next - 1 : k \in 1 .. loop'.next - 1 /\ Call(k)' = Call(k)
    BY <1>1, <1>2 DEF Call
  <2> QED BY <1>1, <1>2, <2>1 DEF PendingInv, RunnableStarted, ToolPhase
<1>5. NextCall \notin Runnable
  BY NextCallNew DEF PendingInv
<1>6. PICK c \in CallIds : c = NextCall
  BY <1>2
<1> QED BY <1>1, <1>3, <1>4, <1>5, <1>6, PendingOver

(* A prepared call joins those that wait.                                  *)
LEMMA RunnableGrows ==
    ASSUME AgentInv, PendingInv, PreparedCall
    PROVE  /\ Len(loop'.runnable) = Len(loop.runnable) + 1
           /\ loop'.runnable[Len(loop.runnable) + 1] = NextCall
           /\ \A i \in 1 .. Len(loop.runnable) : loop'.runnable[i] = loop.runnable[i]
           /\ Len(loop.runnable) \in Nat /\ NextCall \notin Runnable
           /\ Runnable' = Runnable \cup {NextCall}
<1>0. LoopTypeOK
  BY DEF AgentInv, TypeOK
<1>1. loop.pc = "prepare"
  BY <1>0, PreparedEffect
<1>2. loop.runnable \in Seq(CallIds) /\ loop.next \in Nat /\ NextCall \in CallIds
  BY <1>0, <1>1, FieldsTyped, NextCallTyped DEF AgentInv, ResponseHasId
<1> DEFINE n == Len(loop.runnable)
<1>3. /\ n \in Nat /\ Len(loop'.runnable) = n + 1 /\ loop'.runnable[n + 1] = NextCall
      /\ \A i \in 1 .. n : loop'.runnable[i] = loop.runnable[i]
  <2>1. CASE loop'.runnable = Append(loop.runnable, NextCall)
    BY <1>2, <2>1
  <2>2. CASE ToolExecution = "sequential" /\ loop'.runnable = <<NextCall>>
    <3>1. loop.runnable = <<>>
      BY <1>1, <2>2 DEF AgentInv, AwaitsOne
    <3>2. n = 0
      BY <3>1
    <3> QED BY <2>2, <3>2
  <2> QED BY <1>0, <2>1, <2>2, PreparedEffect
<1> HIDE DEF n
<1>4. n = Len(loop.runnable) /\ NextCall \notin Runnable
  BY NextCallNew DEF PendingInv, n
<1>5. Runnable' = Runnable \cup {NextCall}
  <2>1. \A i \in 1 .. n + 1 : i = n + 1 \/ i \in 1 .. n
    BY <1>3
  <2>2. n + 1 \in 1 .. n + 1 /\ \A i \in 1 .. n : i \in 1 .. n + 1
    BY <1>3
  <2> QED BY <1>3, <1>4, <2>1, <2>2 DEF Runnable
<1> QED BY <1>3, <1>4, <1>5

(* A prepared call waits.                                                  *)
LEMMA PendingPrepared ==
    ASSUME AgentInv, PendingInv, PreparedCall
    PROVE  PendingInv'
<1>0. LoopTypeOK
  BY DEF AgentInv, TypeOK
<1>1. /\ loop.todo = <<>> /\ loop.pc = "prepare" /\ loop'.todo = <<>> /\ loop'.pc \in {"tool", "await"}
      /\ loop'.assistant = loop.assistant /\ loop'.next = loop.next + 1
      /\ pendingToolCalls' = pendingToolCalls
  BY <1>0, PreparedEffect
<1>2. loop.next \in Nat
  BY <1>0, FieldsTyped
<1> DEFINE n == Len(loop.runnable)
<1>3. /\ n \in Nat /\ Len(loop'.runnable) = n + 1 /\ loop'.runnable[n + 1] = NextCall
      /\ \A i \in 1 .. n : loop'.runnable[i] = loop.runnable[i]
  BY RunnableGrows
<1>4. n = Len(loop.runnable) /\ NextCall \notin Runnable
  BY RunnableGrows
<1> HIDE DEF n
<1>5. Runnable' = Runnable \cup {NextCall}
  BY RunnableGrows
<1>6. RunnableStarted'
  <2>1. ~ToolPhase' => loop'.runnable = <<>>
    BY <1>1 DEF ToolPhase
  <2>2. \A i \in 1 .. n + 1 : i = n + 1 \/ i \in 1 .. n
    BY <1>3
  <2>3. ASSUME NEW i \in 1 .. n + 1
        PROVE  \E k \in 1 .. loop'.next - 1 : loop'.runnable[i] = Call(k)'
    <3>1. CASE i = n + 1
      <4>1. loop.next \in 1 .. loop'.next - 1
        BY <1>1, <1>2 DEF PendingInv, RunnableStarted
      <4>2. loop'.runnable[i] = <<loop'.assistant.id[1], loop.next>>
        BY <1>1, <1>3, <3>1 DEF NextCall
      <4> QED BY <4>1, <4>2 DEF Call
    <3>2. CASE i \in 1 .. n
      <4>1. PICK k \in 1 .. loop.next - 1 : loop.runnable[i] = Call(k)
        BY <1>4, <3>2 DEF PendingInv, RunnableStarted
      <4>2. k \in 1 .. loop'.next - 1 /\ loop'.runnable[i] = <<loop'.assistant.id[1], k>>
        BY <1>1, <1>2, <1>3, <3>2, <4>1 DEF Call
      <4> QED BY <4>2 DEF Call
    <3> QED BY <2>2, <3>1, <3>2
  <2>4. ASSUME NEW i \in 1 .. n + 1, NEW j \in 1 .. n + 1, i # j
        PROVE  loop'.runnable[i] # loop'.runnable[j]
    <3>1. \A k \in 1 .. n : loop.runnable[k] # NextCall
      BY <1>4 DEF Runnable
    <3> QED BY SMTT(30), <1>3, <1>4, <2>2, <2>4, <3>1 DEF PendingInv, RunnableStarted
  <2>5. loop'.next >= 1
    BY <1>1, <1>2
  <2> QED BY <1>3, <2>1, <2>3, <2>4, <2>5 DEF RunnableStarted
<1>7. pendingToolCalls' = Runnable'
  BY <1>1, <1>5, PendingAtRest DEF Preparing
<1>8. OneToolEvent' /\ Ending' = {} /\ Starting' = {} /\ Preparing' = {}
  <2>1. \A i : i \notin 1 .. Len(loop'.todo)
    BY <1>1
  <2> QED BY <1>1, <2>1 DEF OneToolEvent, Ending, Starting, Announced, Preparing
<1>9. PendingIs'
  BY <1>7, <1>8 DEF PendingIs
<1> QED BY <1>6, <1>8, <1>9 DEF PendingInv

(* Launching the prepared calls, and the end of the tool phase.            *)
LEMMA PendingLaunched ==
    ASSUME AgentInv, PendingInv, LaunchPrepared \/ CallsExecuted
    PROVE  PendingInv'
<1>0. LoopTypeOK
  BY DEF AgentInv, TypeOK
<1>1. /\ loop.todo = <<>> /\ loop'.todo = <<>> /\ pendingToolCalls' = pendingToolCalls
      /\ loop'.assistant = loop.assistant /\ loop'.next = loop.next /\ loop'.runnable = loop.runnable
      /\ \/ loop.pc = "tool" /\ loop'.pc = "await"
         \/ loop.pc = "await" /\ loop'.pc = "turnEnd" /\ loop.runnable = <<>>
  BY <1>0, LaunchEffect
<1>2. pendingToolCalls = Runnable
  BY <1>1, PendingAtRest DEF Preparing
<1>3. \A i : i \notin 1 .. Len(loop'.todo)
  BY <1>1
<1>4. OneToolEvent' /\ Ending' = {} /\ Starting' = {} /\ Preparing' = {}
  BY <1>1, <1>3 DEF OneToolEvent, Ending, Starting, Announced, Preparing
<1>5. Runnable' = Runnable
  BY <1>1 DEF Runnable
<1>6. RunnableStarted'
  BY <1>1 DEF PendingInv, RunnableStarted, ToolPhase, Call
<1>7. PendingIs'
  BY <1>1, <1>2, <1>4, <1>5 DEF PendingIs
<1> QED BY <1>4, <1>6, <1>7 DEF PendingInv

(* A call that is over no longer waits.                                    *)
LEMMA RunnableShrinks ==
    ASSUME AgentInv, PendingInv, FinalizeCall
    PROVE  /\ Head(loop.runnable) \in CallIds /\ Head(loop.runnable) = loop.runnable[1]
           /\ Len(loop.runnable) \in Nat /\ Len(loop.runnable) >= 1
           /\ Len(loop'.runnable) = Len(loop.runnable) - 1
           /\ \A i \in 1 .. Len(loop.runnable) - 1 : loop'.runnable[i] = loop.runnable[i + 1]
           /\ Head(loop.runnable) \notin Runnable' /\ Runnable = Runnable' \cup {Head(loop.runnable)}
<1> DEFINE c == Head(loop.runnable)
           tail == Tail(loop.runnable)
           n == Len(loop.runnable)
<1>1. loop.runnable # <<>> /\ loop'.runnable = tail /\ loop.runnable \in Seq(CallIds)
  BY FinalizeEffect, FieldsTyped DEF AgentInv, TypeOK
<1>3. /\ c \in CallIds /\ c = loop.runnable[1] /\ n \in Nat /\ n >= 1 /\ Len(tail) = n - 1
      /\ \A i \in 1 .. n - 1 : tail[i] = loop.runnable[i + 1]
  BY <1>1, HeadTailProperties
<1> HIDE DEF c, tail
<1>4. \A i \in 1 .. n - 1 : i + 1 \in 1 .. n /\ i + 1 # 1 /\ 1 \in 1 .. n
  BY <1>3
<1>5. c \notin Runnable' /\ Runnable = Runnable' \cup {c}
  <2>1. c \notin Runnable'
    BY <1>1, <1>3, <1>4 DEF Runnable, PendingInv, RunnableStarted
  <2>2. \A i \in 1 .. n : i = 1 \/ (i - 1 \in 1 .. n - 1 /\ (i - 1) + 1 = i)
    BY <1>3
  <2>3. 1 \in 1 .. n
    BY <1>3
  <2>4. ASSUME NEW x \in Runnable PROVE x \in Runnable' \cup {c}
    <3>1. PICK i \in 1 .. n : x = loop.runnable[i]
      BY DEF Runnable
    <3>2. CASE i = 1
      BY <1>3, <3>1, <3>2
    <3>3. CASE i - 1 \in 1 .. n - 1 /\ (i - 1) + 1 = i
      <4>1. x = tail[i - 1] /\ i - 1 \in 1 .. Len(loop'.runnable)
        BY <1>1, <1>3, <3>1, <3>3
      <4> QED BY <1>1, <4>1 DEF Runnable
    <3> QED BY <2>2, <3>2, <3>3
  <2>5. ASSUME NEW x \in Runnable' \cup {c} PROVE x \in Runnable
    BY <1>1, <1>3, <1>4, <2>3 DEF Runnable
  <2> QED BY <2>1, <2>4, <2>5
<1> QED BY <1>1, <1>3, <1>5 DEF c

(* The first call awaited is over.                                         *)
LEMMA PendingFinalized ==
    ASSUME AgentInv, PendingInv, FinalizeCall
    PROVE  PendingInv'
<1> DEFINE c == Head(loop.runnable)
           tail == Tail(loop.runnable)
           n == Len(loop.runnable)
<1>0. LoopTypeOK
  BY DEF AgentInv, TypeOK
<1>1. /\ loop.todo = <<>> /\ loop.pc = "await" /\ loop'.pc \in {"tool", "await"} /\ loop'.todo = Outcome(c)
      /\ loop'.assistant = loop.assistant /\ loop'.next = loop.next /\ loop'.runnable = tail
      /\ loop.runnable # <<>> /\ pendingToolCalls' = pendingToolCalls
  BY <1>0, FinalizeEffect
<1>2. loop.runnable \in Seq(CallIds) /\ loop.next \in Nat
  BY <1>0, FieldsTyped
<1>3. /\ c \in CallIds /\ c = loop.runnable[1] /\ n \in Nat /\ n >= 1 /\ Len(tail) = n - 1
      /\ \A i \in 1 .. n - 1 : tail[i] = loop.runnable[i + 1]
  BY <1>1, <1>2, HeadTailProperties
<1> HIDE DEF c, tail
<1>4. \A i \in 1 .. n - 1 : i + 1 \in 1 .. n /\ i + 1 # 1 /\ 1 \in 1 .. n
  BY <1>3
<1>5. c \notin Runnable' /\ Runnable = Runnable' \cup {c}
  BY RunnableShrinks DEF c
<1>6. RunnableStarted'
  <2>1. ToolPhase'
    BY <1>1 DEF ToolPhase
  <2>2. \A i \in 1 .. n - 1 : \E k \in 1 .. loop'.next - 1 : tail[i] = Call(k)'
    BY <1>1, <1>3, <1>4 DEF PendingInv, RunnableStarted, Call
  <2>4. loop'.next >= 1
    BY <1>1 DEF PendingInv, RunnableStarted
  <2>3. \A i, j \in 1 .. n - 1 : i # j => tail[i] # tail[j]
    <3> SUFFICES ASSUME NEW i \in 1 .. n - 1, NEW j \in 1 .. n - 1, i # j PROVE tail[i] # tail[j]
      OBVIOUS
    <3>1. i + 1 \in 1 .. n /\ j + 1 \in 1 .. n /\ i + 1 # j + 1
      BY <1>3
    <3> QED BY <1>3, <3>1 DEF PendingInv, RunnableStarted
  <2> QED BY <1>1, <1>3, <2>1, <2>2, <2>3, <2>4 DEF RunnableStarted
<1>7. Preparing = {}
  BY <1>1 DEF Preparing
<1>8. PICK d \in CallIds : d = c
  BY <1>3
<1> QED BY <1>1, <1>5, <1>6, <1>7, <1>8, PendingOver

(* Every step keeps the calls shown as pending right.                      *)
LEMMA PendingStep ==
    ASSUME AgentInv, PendingInv, [Next]_vars, [Reset => ~activeRun]_vars
    PROVE  PendingInv'
<1>1. ASSUME UNCHANGED <<loop, pendingToolCalls>>
      PROVE  PendingInv'
  BY <1>1 DEF PendingInv, RunnableStarted, OneToolEvent, PendingIs, ToolPhase, Call, Runnable, Preparing,
              Starting, Ending, Announced, NextCall
<1>2. ASSUME NEW u \in UserMsgs, Prompt(u)
      PROVE  PendingInv'
  <2>1. <<User(u)>> \in Seq(Messages)
    BY MessagesTyped
  <2> QED BY <1>2, <2>1, PendingStarts DEF Prompt
<1>3. CASE Continue
  <2>1. /\ Drained(steeringQueue) \in Seq(Messages) /\ Drained(followUpQueue) \in Seq(Messages)
        /\ <<>> \in Seq(Messages)
    BY QueueTyped DEF AgentInv, TypeOK, InboxTypeOK
  <2>2. \/ StartRun(<<>>, FALSE)
        \/ StartRun(Drained(steeringQueue), TRUE)
        \/ StartRun(Drained(followUpQueue), FALSE)
    BY <1>3 DEF Continue
  <2> QED BY <2>1, <2>2, PendingStarts
<1>4. ASSUME NEW u \in UserMsgs, Steer(u) \/ FollowUp(u)
      PROVE  PendingInv'
  BY <1>1, <1>4 DEF Steer, FollowUp, stateVars
<1>5. CASE Abort \/ ClearAllQueues
  BY <1>1, <1>5 DEF Abort, ClearAllQueues, stateVars
<1>6. CASE Reset /\ ~activeRun
  <2>1. loop' = loop /\ pendingToolCalls' = {} /\ pendingToolCalls = {}
    BY <1>6 DEF Reset, AgentInv, RunHasLoop, IdleCleared, IdleState
  <2> QED BY <1>1, <2>1
<1>7. CASE Emit
  BY <1>7, PendingEmits
<1>8. CASE \/ InitialPoll \/ PollSteering \/ PollFollowUp \/ InjectPending \/ Request \/ StreamStart
           \/ Responded \/ TurnEnd
           \/ \E n \in 0 .. MaxCalls, stop \in StopReasons : StreamDone(n, stop)
  BY <1>8, PendingOutside
<1>9. CASE StartCall
  BY <1>9, PendingCallStarts
<1>10. CASE ImmediateOutcome
  BY <1>10, PendingImmediate
<1>11. CASE PreparedCall
  BY <1>11, PendingPrepared
<1>12. CASE LaunchPrepared \/ CallsExecuted
  BY <1>12, PendingLaunched
<1>13. CASE FinalizeCall
  BY <1>13, PendingFinalized
<1>14. CASE FinishRun \/ FailureListenerThrows
  <2>1. loop'.pc = "idle" /\ pendingToolCalls' = {} /\ loop'.todo = <<>> /\ loop'.runnable = <<>>
        /\ loop'.next = 1
    BY <1>14, EndEffect
  <2>2. ToolFree(loop'.todo)
    BY <2>1 DEF ToolFree
  <2> QED BY <2>1, <2>2, PendingNone
<1>15. CASE StreamThrows \/ CallRejected \/ ListenerThrows
  <2>1. /\ loop'.pc = "failing" /\ loop'.todo = <<Event("agent_end", NoMessage)>>
        /\ loop'.runnable = <<>> /\ loop'.next = 1
    BY <1>15, FailEffect
  <2>2. ToolFree(loop'.todo)
    BY <2>1 DEF ToolFree, Event
  <2> QED BY <2>1, <2>2, PendingNone
<1>16. CASE ToolStep \/ UNCHANGED vars
  <2>1. UNCHANGED <<loop, pendingToolCalls>>
    BY <1>16 DEF ToolStep, ToolSettles, UpdateRejected, OrphanUpdate, OrphanSettles, vars, stateVars
  <2> QED BY <1>1, <2>1
<1>17. UNCHANGED vars \/ (Next /\ (Reset => ~activeRun))
  OBVIOUS
<1> QED BY <1>2, <1>3, <1>4, <1>5, <1>6, <1>7, <1>8, <1>9, <1>10, <1>11, <1>12, <1>13, <1>14, <1>15,
           <1>16, <1>17 DEF Next, LoopStep, Interface

(* Before the first run no call is pending.                                *)
LEMMA PendingInit == Init => PendingInv
<1> SUFFICES ASSUME Init PROVE PendingInv
  OBVIOUS
<1>1. loop.runnable = <<>> /\ loop.next = 1 /\ loop.todo = <<>> /\ loop.pc = "idle" /\ pendingToolCalls = {}
  BY DEF Init, IdleLoop
<1>2. (\A i : i \notin 1 .. Len(loop.runnable)) /\ (\A i : i \notin 1 .. Len(loop.todo))
  BY <1>1
<1> QED BY <1>1, <1>2 DEF PendingInv, RunnableStarted, OneToolEvent, PendingIs, Runnable, Preparing, Ending,
                          Starting, Announced

(* A running call is always shown as pending, and none stays pending when  *)
(* the agent idles or asks again, whatever fails in between: the events    *)
(* about calls reach the state one await after the other.                  *)
THEOREM PendingCallsAccurateHolds == Spec /\ ResetsBetweenRuns => []PendingCallsAccurate
<1>1. AgentInv /\ PendingInv => PendingCallsAccurate
  <2> SUFFICES ASSUME AgentInv, PendingInv PROVE PendingCallsAccurate
    OBVIOUS
  <2>1. loop.pc \in {"idle", "request", "requested"} => pendingToolCalls = {}
    BY NonePending DEF ToolPhase
  <2>2. loop.pc # "await" => running = {}
    BY DEF AgentInv, RunningAwaited
  <2>3. CASE loop.pc = "await"
    <3>1. running \subseteq Runnable
      BY DEF AgentInv, RunningAwaited, Runnable
    <3>2. Preparing = {} /\ Starting = {}
      BY <2>3 DEF Preparing, Starting, Announced, PendingInv, OneToolEvent
    <3> QED BY <2>1, <2>3, <3>1, <3>2 DEF PendingInv, PendingIs, PendingCallsAccurate
  <2> QED BY <2>1, <2>2, <2>3 DEF PendingCallsAccurate
<1>2. AgentInv /\ PendingInv /\ [Next]_vars /\ [Reset => ~activeRun]_vars => PendingInv'
  BY PendingStep
<1> QED BY <1>1, <1>2, PendingInit, AgentInvariant, PTL DEF Spec, ResetsBetweenRuns
----------------------------------------------------------------------------
(* The results of the calls.                                               *)

UserOnly(s) == \A i \in 1 .. Len(s) : s[i].role = "user"

HasCalls(m) == m.role = "assistant" /\ m.calls > 0 /\ ~Failed(m)

CallOf(m, k) == <<m.id[1], k>>

(* The calls of the response at i are answered by as many messages right   *)
(* after it, in sequential mode in the order of the calls.                 *)
AnsweredAt(s, i) ==
    /\ i + s[i].calls <= Len(s)
    /\ \A k \in 1 .. s[i].calls : \E j \in 1 .. s[i].calls : s[i + j].id = CallOf(s[i], k)
    /\ \A j \in 1 .. s[i].calls : \E k \in 1 .. s[i].calls : s[i + j].id = CallOf(s[i], k)
    /\ ToolExecution = "sequential" => \A k \in 1 .. s[i].calls : s[i + k].id = CallOf(s[i], k)

Answered(s) == \A i \in 1 .. Len(s) : HasCalls(s[i]) => AnsweredAt(s, i)

(* Only messages of the user are queued.                                   *)
QueuesHoldPrompts ==
    UserOnly(steeringQueue) /\ UserOnly(followUpQueue) /\ UserOnly(loop.pendingMessages)

IdleAnswered == ~Busy => Silent(loop.todo) /\ Answered(messages)

TurnAnswered ==
    Busy /\ ~ToolPhase /\ loop.pc # "responded" => Answered(loop.context \o loop.results)

(* In the tool phase all but the last response are answered ...            *)
AnswerLast ==
    ToolPhase \/ loop.pc = "responded" =>
        /\ loop.assistant.role = "assistant"
        /\ \E s \in Seq(Messages) : loop.context = Append(s, loop.assistant) /\ Answered(s)

(* ... and each call that was started has its result or waits.             *)
CallsOfAnswer ==
    ToolPhase =>
        /\ HasCalls(loop.assistant)
        /\ loop.next <= loop.assistant.calls + 1
        /\ loop.pc = "prepare" => loop.next <= loop.assistant.calls
        /\ loop.pc = "await" /\ (ToolExecution # "sequential" \/ loop.runnable = <<>>) =>
             loop.next = loop.assistant.calls + 1
        /\ Len(loop.results) + Len(loop.runnable) = loop.next - 1
        /\ \A i \in 1 .. Len(loop.results) :
             /\ loop.results[i].role = "toolResult"
             /\ \E k \in 1 .. loop.next - 1 : loop.results[i].id = Call(k)
        /\ \A k \in 1 .. loop.next - 1 :
             Call(k) \in Runnable \/ \E i \in 1 .. Len(loop.results) : loop.results[i].id = Call(k)
        /\ ToolExecution = "sequential" =>
             /\ \A i \in 1 .. Len(loop.results) : loop.results[i].id = Call(i)
             /\ \A i \in 1 .. Len(loop.runnable) : loop.runnable[i] = Call(Len(loop.results) + i)

AnswersInv ==
    /\ QueuesHoldPrompts /\ rejected = {}
    /\ IdleAnswered /\ TurnAnswered /\ AnswerLast /\ CallsOfAnswer

(* What a transcript answers stays answered when it grows.                 *)
LEMMA AnsweredPrefix ==
    ASSUME NEW s \in Seq(Messages), NEW u \in Seq(Messages), Len(s) <= Len(u),
           \A j \in 1 .. Len(s) : u[j] = s[j],
           NEW i \in 1 .. Len(s), AnsweredAt(s, i)
    PROVE  AnsweredAt(u, i)
<1> DEFINE n == s[i].calls
<1>1. s[i] \in Messages /\ u[i] = s[i]
  OBVIOUS
<1>2. n \in Nat
  BY <1>1 DEF Messages
<1>3. /\ i + n <= Len(s)
      /\ \A k \in 1 .. n : \E j \in 1 .. n : s[i + j].id = CallOf(s[i], k)
      /\ \A j \in 1 .. n : \E k \in 1 .. n : s[i + j].id = CallOf(s[i], k)
      /\ ToolExecution = "sequential" => \A k \in 1 .. n : s[i + k].id = CallOf(s[i], k)
  BY DEF AnsweredAt
<1>4. u[i].calls = n
  BY <1>1
<1> HIDE DEF n
<1>8. Len(s) \in Nat /\ Len(u) \in Nat
  OBVIOUS
<1>12. i \in Nat /\ i >= 1 /\ i + n <= Len(s)
  BY <1>3, <1>8
<1>5. \A k \in 1 .. n : i + k \in 1 .. Len(s)
  BY <1>2, <1>8, <1>12
<1>6. \A k \in 1 .. n : u[i + k] = s[i + k]
  BY <1>5
<1>7. i + n <= Len(u)
  BY <1>2, <1>3, <1>8
<1>9. \A k \in 1 .. n : \E j \in 1 .. n : u[i + j].id = CallOf(u[i], k)
  BY <1>1, <1>3, <1>6
<1>10. \A j \in 1 .. n : \E k \in 1 .. n : u[i + j].id = CallOf(u[i], k)
  BY <1>1, <1>3, <1>6
<1>11. ToolExecution = "sequential" => \A k \in 1 .. n : u[i + k].id = CallOf(u[i], k)
  BY <1>1, <1>3, <1>6
<1> QED BY <1>4, <1>7, <1>9, <1>10, <1>11, Zenon DEF AnsweredAt

(* Messages that call nothing may follow a transcript that is answered.    *)
LEMMA AnsweredMore ==
    ASSUME NEW s \in Seq(Messages), NEW t \in Seq(Messages), Answered(s),
           \A i \in 1 .. Len(t) : ~HasCalls(t[i])
    PROVE  Answered(s \o t)
<1> DEFINE u == s \o t
           a == Len(s)
           b == Len(t)
<1>1. /\ u \in Seq(Messages) /\ a \in Nat /\ b \in Nat /\ Len(u) = a + b
      /\ \A i \in 1 .. a : u[i] = s[i]
      /\ \A i \in 1 .. a + b : i > a => u[i] = t[i - a] /\ i - a \in 1 .. b
  OBVIOUS
<1> HIDE DEF u
<1>2. ASSUME NEW i \in 1 .. Len(u), HasCalls(u[i])
      PROVE  AnsweredAt(u, i)
  <2>1. i \in 1 .. a /\ u[i] = s[i]
    BY SMTT(30), <1>1, <1>2
  <2>2. AnsweredAt(s, i)
    BY <1>2, <2>1 DEF Answered
  <2>3. a <= Len(u)
    BY <1>1
  <2> QED BY <1>1, <2>1, <2>2, <2>3, AnsweredPrefix
<1>3. Answered(u)
  BY <1>2 DEF Answered
<1> QED BY <1>3 DEF u

(* A response followed by a result for each of its calls is answered.      *)
LEMMA AnsweredTurn ==
    ASSUME NEW s \in Seq(Messages), NEW m \in Messages, NEW rs \in Seq(Messages), Answered(s),
           HasCalls(m), Len(rs) = m.calls,
           \A i \in 1 .. Len(rs) : ~HasCalls(rs[i]),
           \A k \in 1 .. m.calls : \E j \in 1 .. m.calls : rs[j].id = CallOf(m, k),
           \A j \in 1 .. m.calls : \E k \in 1 .. m.calls : rs[j].id = CallOf(m, k),
           ToolExecution = "sequential" => \A k \in 1 .. m.calls : rs[k].id = CallOf(m, k)
    PROVE  Answered(Append(s, m) \o rs)
<1> DEFINE v == Append(s, m)
           u == v \o rs
           a == Len(s)
           n == m.calls
<1>0. n \in Nat /\ a \in Nat /\ Len(rs) = n
  BY DEF Messages
<1>6. /\ \A k \in 1 .. n : \E j \in 1 .. n : rs[j].id = CallOf(m, k)
      /\ \A j \in 1 .. n : \E k \in 1 .. n : rs[j].id = CallOf(m, k)
      /\ ToolExecution = "sequential" => \A k \in 1 .. n : rs[k].id = CallOf(m, k)
  OBVIOUS
<1>7. n = m.calls
  OBVIOUS
<1> HIDE DEF n
<1>1. /\ v \in Seq(Messages) /\ Len(v) = a + 1 /\ v[a + 1] = m
      /\ \A i \in 1 .. a : v[i] = s[i]
  OBVIOUS
<1> HIDE DEF v
<1>2. /\ u \in Seq(Messages) /\ Len(u) = a + 1 + n
      /\ \A i \in 1 .. a + 1 : u[i] = v[i]
      /\ \A i \in 1 .. a + 1 + n : i > a + 1 => u[i] = rs[i - (a + 1)]
  <2>1. /\ v \o rs \in Seq(Messages) /\ Len(v \o rs) = Len(v) + Len(rs)
        /\ \A i \in 1 .. Len(v) + Len(rs) : (v \o rs)[i] = IF i <= Len(v) THEN v[i] ELSE rs[i - Len(v)]
    <3>1. v \in Seq(Messages) /\ rs \in Seq(Messages)
      BY <1>1
    <3> QED BY ONLY <3>1, ConcatProperties
  <2> HIDE DEF u
  <2>2. u = v \o rs
    BY DEF u
  <2>3. /\ u \in Seq(Messages) /\ Len(u) = a + 1 + n
        /\ \A i \in 1 .. a + 1 + n : u[i] = IF i <= a + 1 THEN v[i] ELSE rs[i - (a + 1)]
    BY <1>0, <1>1, <2>1, <2>2
  <2>4. ASSUME NEW i \in 1 .. a + 1 PROVE u[i] = v[i]
    <3>1. i \in 1 .. a + 1 + n /\ i <= a + 1
      BY <1>0
    <3> QED BY <2>3, <3>1
  <2>5. ASSUME NEW i \in 1 .. a + 1 + n, i > a + 1 PROVE u[i] = rs[i - (a + 1)]
    <3>1. ~(i <= a + 1)
      BY <1>0, <2>5
    <3> QED BY <2>3, <3>1
  <2> QED BY <2>3, <2>4, <2>5
<1> HIDE DEF u
<1>3. \A i \in 1 .. a : u[i] = s[i]
  BY <1>0, <1>1, <1>2
<1>4. ASSUME NEW i \in 1 .. Len(u), HasCalls(u[i])
      PROVE  AnsweredAt(u, i)
  <2>1. CASE i <= a
    <3>1. i \in 1 .. a /\ u[i] = s[i] /\ a <= Len(u)
      BY <1>0, <1>2, <1>3, <2>1
    <3>2. AnsweredAt(s, i)
      BY <1>4, <3>1 DEF Answered
    <3> QED BY <1>2, <1>3, <3>1, <3>2, AnsweredPrefix
  <2>2. CASE i = a + 1
    <3>1. u[i] = m
      BY <1>0, <1>1, <1>2, <2>2
    <3>2. \A j \in 1 .. n : u[i + j] = rs[j]
      <4> TAKE j \in 1 .. n
      <4>1. i + j \in 1 .. a + 1 + n /\ i + j > a + 1 /\ (i + j) - (a + 1) = j
        BY SMTT(30), <1>0, <2>2
      <4> QED BY <1>2, <4>1
    <3>3. i + n <= Len(u)
      BY <1>0, <1>2, <2>2
    <3>4. \A k \in 1 .. n : \E j \in 1 .. n : u[i + j].id = CallOf(u[i], k)
      <4> TAKE k \in 1 .. n
      <4>1. PICK j \in 1 .. n : rs[j].id = CallOf(m, k)
        BY <1>6
      <4>2. u[i + j].id = CallOf(u[i], k)
        BY <3>1, <3>2, <4>1
      <4> QED BY <4>2
    <3>5. \A j \in 1 .. n : \E k \in 1 .. n : u[i + j].id = CallOf(u[i], k)
      <4> TAKE j \in 1 .. n
      <4>1. PICK k \in 1 .. n : rs[j].id = CallOf(m, k)
        BY <1>6
      <4>2. u[i + j].id = CallOf(u[i], k)
        BY <3>1, <3>2, <4>1
      <4> QED BY <4>2
    <3>6. ToolExecution = "sequential" => \A k \in 1 .. n : u[i + k].id = CallOf(u[i], k)
      BY <1>6, <3>1, <3>2
    <3>7. u[i].calls = n
      BY <1>7, <3>1
    <3> QED BY <3>3, <3>4, <3>5, <3>6, <3>7, Zenon DEF AnsweredAt
  <2>3. CASE i > a + 1
    <3> DEFINE j == i - (a + 1)
    <3>1. i \in 1 .. a + 1 + n
      BY <1>2
    <3>2. u[i] = rs[j] /\ j \in 1 .. n
      BY SMTT(30), <1>0, <1>2, <2>3, <3>1
    <3> HIDE DEF j
    <3>3. j \in 1 .. Len(rs)
      BY <1>0, <3>2
    <3>4. ~HasCalls(rs[j])
      BY <3>3
    <3> QED BY <1>4, <3>2, <3>4
  <2>4. i <= a \/ i = a + 1 \/ i > a + 1
    <3>1. i \in Nat
      BY <1>2
    <3> HIDE DEF a
    <3> QED BY <1>0, <3>1
  <2> QED BY <2>1, <2>2, <2>3, <2>4
<1>5. Answered(u)
  BY <1>4 DEF Answered
<1> QED BY <1>5 DEF u, v

(* Draining a queue of the user's messages.                                *)
LEMMA DrainedUserOnly ==
    ASSUME NEW q \in Seq(Messages), UserOnly(q)
    PROVE  UserOnly(Drained(q)) /\ UserOnly(Kept(q))
<1>1. CASE QueueMode = "all" \/ q = <<>>
  BY <1>1 DEF Drained, Kept, UserOnly
<1>2. CASE ~(QueueMode = "all" \/ q = <<>>)
  <2>1. Drained(q) = <<Head(q)>> /\ Kept(q) = Tail(q)
    BY <1>2 DEF Drained, Kept
  <2>2. Head(q).role = "user" /\ \A i \in 1 .. Len(Tail(q)) : Tail(q)[i].role = "user"
    BY <1>2 DEF UserOnly
  <2> QED BY <2>1, <2>2 DEF UserOnly
<1> QED BY <1>1, <1>2

(* A message of the user has no tool calls.                                *)
LEMMA UsersCallNothing ==
    ASSUME NEW s, UserOnly(s)
    PROVE  \A i \in 1 .. Len(s) : ~HasCalls(s[i])
BY DEF UserOnly, HasCalls

(* A step within the phases of a turn that touches neither the context nor *)
(* the results.                                                            *)
LEMMA AnswersRest ==
    ASSUME AnswersInv, Busy, Busy', ~ToolPhase, ~ToolPhase', loop.pc # "responded", loop'.pc # "responded",
           loop'.context = loop.context, loop'.results = loop.results,
           QueuesHoldPrompts', rejected' = rejected
    PROVE  AnswersInv'
BY DEF AnswersInv, IdleAnswered, TurnAnswered, AnswerLast, CallsOfAnswer

(* Draining a queue leaves the transcript as answered as it was.           *)
LEMMA AnswersQueues ==
    ASSUME AgentInv, AnswersInv, InitialPoll \/ PollSteering \/ PollFollowUp
    PROVE  AnswersInv'
<1>0. LoopTypeOK /\ steeringQueue \in Seq(Messages) /\ followUpQueue \in Seq(Messages)
  BY DEF AgentInv, TypeOK, InboxTypeOK
<1>1. /\ loop.pc \in {"initialPoll", "pollSteering", "pollFollowUp"}
      /\ loop'.pc \in {"firstTurn", "turn", "pollFollowUp", "finish"}
      /\ loop'.context = loop.context /\ loop'.results = loop.results
      /\ loop'.pendingMessages \in {loop.pendingMessages, Drained(steeringQueue), Drained(followUpQueue)}
      /\ steeringQueue' \in {steeringQueue, Kept(steeringQueue)}
      /\ followUpQueue' \in {followUpQueue, Kept(followUpQueue)}
  BY <1>0, PollEffect
<1>2. QueuesHoldPrompts'
  <2>1. /\ UserOnly(steeringQueue) /\ UserOnly(followUpQueue) /\ UserOnly(loop.pendingMessages)
        /\ UserOnly(Drained(steeringQueue)) /\ UserOnly(Kept(steeringQueue))
        /\ UserOnly(Drained(followUpQueue)) /\ UserOnly(Kept(followUpQueue))
    BY <1>0, DrainedUserOnly DEF AnswersInv, QueuesHoldPrompts
  <2> QED BY <1>1, <2>1 DEF QueuesHoldPrompts
<1>3. rejected' = rejected
  BY DEF InitialPoll, PollSteering, PollFollowUp, toolVars
<1>4. Busy /\ Busy' /\ ~ToolPhase /\ ~ToolPhase' /\ loop.pc # "responded" /\ loop'.pc # "responded"
  BY <1>1 DEF Busy, ToolPhase
<1> QED BY <1>1, <1>2, <1>3, <1>4, AnswersRest

(* Asking the model adds nothing to the transcript.                        *)
LEMMA AnswersAsked ==
    ASSUME AgentInv, AnswersInv, Request \/ StreamStart
    PROVE  AnswersInv'
<1>1. /\ loop.pc \in {"request", "requested"} /\ loop'.pc \in {"requested", "streaming"}
      /\ loop'.context = loop.context /\ loop'.results = loop.results
      /\ loop'.pendingMessages = loop.pendingMessages
      /\ UNCHANGED <<steeringQueue, followUpQueue>>
  BY AskEffect DEF AgentInv, TypeOK
<1>2. QueuesHoldPrompts'
  BY <1>1 DEF AnswersInv, QueuesHoldPrompts
<1>3. rejected' = rejected
  BY DEF Request, StreamStart, toolVars
<1>4. Busy /\ Busy' /\ ~ToolPhase /\ ~ToolPhase' /\ loop.pc # "responded" /\ loop'.pc # "responded"
  BY <1>1 DEF Busy, ToolPhase
<1> QED BY <1>1, <1>2, <1>3, <1>4, AnswersRest

(* Messages of the user are injected only after every result.              *)
LEMMA AnswersInjected ==
    ASSUME AgentInv, MirrorInv, AnswersInv, InjectPending
    PROVE  AnswersInv'
<1>0. LoopTypeOK
  BY DEF AgentInv, TypeOK
<1>1. /\ loop.pc \in {"firstTurn", "turn"} /\ loop.todo = <<>> /\ loop'.pc = "request"
      /\ loop'.context = loop.context \o loop.pendingMessages
      /\ loop'.pendingMessages = <<>> /\ loop'.results = loop.results
      /\ UNCHANGED <<steeringQueue, followUpQueue>>
  BY <1>0, InjectEffect
<1>2. Busy /\ ~ToolPhase /\ loop.pc \notin ResultPhases
  BY <1>1 DEF Busy, ToolPhase, ResultPhases
<1>3. Answered(loop.context) /\ loop.results = <<>>
  BY <1>1, <1>2, AtRest DEF AnswersInv, TurnAnswered
<1>4. loop.context \in Seq(Messages) /\ loop.pendingMessages \in Seq(Messages)
  BY <1>0, FieldsTyped
<1>5. \A i \in 1 .. Len(loop.pendingMessages) : ~HasCalls(loop.pendingMessages[i])
  BY UsersCallNothing DEF AnswersInv, QueuesHoldPrompts
<1>6. Answered(loop.context \o loop.pendingMessages)
  BY <1>3, <1>4, <1>5, AnsweredMore
<1>7. loop'.context \o loop'.results = loop'.context
  BY <1>1, <1>3, <1>4, ConcatEmptySeq
<1>8. TurnAnswered'
  BY <1>1, <1>6, <1>7 DEF TurnAnswered
<1>9. QueuesHoldPrompts'
  <2>1. UserOnly(<<>>)
    BY DEF UserOnly
  <2> QED BY <1>1, <2>1 DEF AnswersInv, QueuesHoldPrompts
<1>10. rejected' = rejected
  BY DEF InjectPending, toolVars
<1> QED BY <1>1, <1>8, <1>9, <1>10
        DEF AnswersInv, IdleAnswered, AnswerLast, CallsOfAnswer, Busy, ToolPhase

(* A response follows a transcript that is answered.                       *)
LEMMA AnswersResponse ==
    ASSUME AgentInv, MirrorInv, AnswersInv, NEW n \in 0 .. MaxCalls, NEW stop \in StopReasons,
           StreamDone(n, stop)
    PROVE  AnswersInv'
<1>0. LoopTypeOK
  BY DEF AgentInv, TypeOK
<1>1. /\ loop.pc \in {"requested", "streaming"} /\ loop.todo = <<>> /\ loop'.pc = "responded"
      /\ loop'.context = Append(loop.context, loop'.assistant)
      /\ loop'.assistant = Assistant(turns, n, stop) /\ loop'.pendingMessages = loop.pendingMessages
      /\ UNCHANGED <<steeringQueue, followUpQueue>>
  BY <1>0, DoneEffect
<1>2. Busy /\ ~ToolPhase /\ loop.pc \notin ResultPhases
  BY <1>1 DEF Busy, ToolPhase, ResultPhases
<1>3. Answered(loop.context) /\ loop.context \in Seq(Messages)
  BY <1>0, <1>1, <1>2, AtRest, FieldsTyped DEF AnswersInv, TurnAnswered
<1>4. AnswerLast'
  <2>1. loop'.assistant.role = "assistant"
    BY <1>1 DEF Assistant
  <2> QED BY <1>1, <1>3, <2>1 DEF AnswerLast
<1>5. QueuesHoldPrompts'
  BY <1>1 DEF AnswersInv, QueuesHoldPrompts
<1>6. rejected' = rejected
  BY DEF StreamDone, toolVars
<1> QED BY <1>1, <1>4, <1>5, <1>6
        DEF AnswersInv, IdleAnswered, TurnAnswered, CallsOfAnswer, Busy, ToolPhase

(* A response without calls, or a failed one, is answered as it is; the    *)
(* tool phase begins with every call still to be started.                  *)
LEMMA AnswersResponded ==
    ASSUME AgentInv, MirrorInv, PendingInv, AnswersInv, Responded
    PROVE  AnswersInv'
<1>0. LoopTypeOK
  BY DEF AgentInv, TypeOK
<1>1. /\ loop.pc = "responded" /\ loop.todo = <<>>
      /\ loop'.context = loop.context /\ loop'.pendingMessages = loop.pendingMessages
      /\ loop'.assistant = loop.assistant /\ loop'.runnable = loop.runnable /\ loop'.results = loop.results
      /\ UNCHANGED <<steeringQueue, followUpQueue>>
  BY <1>0, RespondedEffect
<1>2. Busy /\ ~ToolPhase /\ loop.pc \notin ResultPhases
  BY <1>1 DEF Busy, ToolPhase, ResultPhases
<1>3. loop.results = <<>> /\ loop.runnable = <<>>
  BY <1>1, <1>2, AtRest DEF PendingInv, RunnableStarted
<1>4. QueuesHoldPrompts' /\ rejected' = rejected
  <2>1. rejected' = rejected
    BY DEF Responded, toolVars
  <2> QED BY <1>1, <2>1 DEF AnswersInv, QueuesHoldPrompts
<1>5. PICK s \in Seq(Messages) : loop.context = Append(s, loop.assistant) /\ Answered(s)
  BY <1>1 DEF AnswersInv, AnswerLast
<1>6. loop.assistant \in Messages /\ loop.assistant.calls \in Nat
  <2>1. loop.assistant \in Messages
    BY <1>0, FieldsTyped
  <2> QED BY <2>1 DEF Messages
<1>7. CASE loop'.pc \in {"finish", "turnEnd"} /\ ~HasCalls(loop.assistant)
  <2> DEFINE a == loop.assistant
  <2>1. a \in Messages /\ <<a>> \in Seq(Messages)
    BY <1>6, MessageAppended
  <2>2. \A i \in 1 .. Len(<<a>>) : ~HasCalls(<<a>>[i])
    BY <1>7
  <2>3. loop.context = s \o <<a>>
    BY <1>5, <1>6, MessageAppended
  <2> HIDE DEF a
  <2>4. Answered(loop.context)
    BY <1>5, <2>1, <2>2, <2>3, AnsweredMore
  <2>5. loop.context \in Seq(Messages)
    BY <1>0, FieldsTyped
  <2>6. loop'.context \o loop'.results = loop.context
    BY <1>1, <1>3, <2>5, ConcatEmptySeq
  <2>7. TurnAnswered'
    BY <2>4, <2>6 DEF TurnAnswered
  <2> QED BY <1>4, <1>7, <2>7
          DEF AnswersInv, IdleAnswered, AnswerLast, CallsOfAnswer, Busy, ToolPhase
<1>8. CASE loop'.pc = "tool" /\ loop'.next = 1 /\ ~Failed(loop.assistant) /\ loop.assistant.calls # 0
  <2>1. HasCalls(loop.assistant)
    <3>1. loop.assistant.role = "assistant"
      BY <1>1 DEF AnswersInv, AnswerLast
    <3> QED BY <1>6, <1>8, <3>1 DEF HasCalls
  <2>2. AnswerLast'
    BY <1>1, <1>5 DEF AnswersInv, AnswerLast
  <2>3. CallsOfAnswer'
    <3>1. Len(loop'.results) = 0 /\ Len(loop'.runnable) = 0
      BY <1>1, <1>3
    <3> QED BY <1>1, <1>6, <1>8, <2>1, <3>1 DEF CallsOfAnswer
  <2> QED BY <1>4, <1>8, <2>2, <2>3 DEF AnswersInv, IdleAnswered, TurnAnswered, Busy, ToolPhase
<1>9. \/ loop'.pc \in {"finish", "turnEnd"} /\ ~HasCalls(loop.assistant)
      \/ loop'.pc = "tool" /\ loop'.next = 1 /\ ~Failed(loop.assistant) /\ loop.assistant.calls # 0
  BY <1>0, RespondedEffect DEF HasCalls
<1> QED BY <1>7, <1>8, <1>9

(* The steps of the tool phase that answer nothing.                        *)
LEMMA AnswersStarted ==
    ASSUME AgentInv, PendingInv, AnswersInv, StartCall \/ LaunchPrepared
    PROVE  AnswersInv'
<1>0. LoopTypeOK
  BY DEF AgentInv, TypeOK
<1>1. /\ loop.pc = "tool"
      /\ \/ loop'.pc = "prepare" /\ loop.next <= loop.assistant.calls
         \/ loop'.pc = "await" /\ ~(loop.next <= loop.assistant.calls)
      /\ loop'.context = loop.context /\ loop'.pendingMessages = loop.pendingMessages
      /\ loop'.assistant = loop.assistant /\ loop'.runnable = loop.runnable /\ loop'.results = loop.results
      /\ loop'.next = loop.next /\ UNCHANGED <<steeringQueue, followUpQueue>>
  <2>1. CASE StartCall
    BY <1>0, <2>1, StartCallEffect
  <2>2. CASE LaunchPrepared
    BY <1>0, <2>2, LaunchEffect DEF LaunchPrepared, Resume
  <2> QED BY <2>1, <2>2
<1>2. QueuesHoldPrompts' /\ rejected' = rejected
  <2>1. rejected' = rejected
    BY DEF StartCall, LaunchPrepared, toolVars
  <2> QED BY <1>1, <2>1 DEF AnswersInv, QueuesHoldPrompts
<1>3. loop.next \in Nat /\ loop.assistant.calls \in Nat
  <2>1. loop.next \in Nat /\ loop.assistant \in Messages
    BY <1>0, FieldsTyped
  <2> QED BY <2>1 DEF Messages
<1>4. AnswerLast'
  BY <1>1 DEF AnswersInv, AnswerLast, ToolPhase
<1>5. CallsOfAnswer'
  <2>1. ToolPhase /\ Runnable' = Runnable /\ \A k : Call(k)' = Call(k)
    BY <1>1 DEF ToolPhase, Runnable, Call
  <2>2. loop.next <= loop.assistant.calls + 1
    BY <2>1 DEF AnswersInv, CallsOfAnswer
  <2>3. loop'.pc = "await" => loop.next = loop.assistant.calls + 1
    BY <1>1, <1>3, <2>2
  <2>4. /\ HasCalls(loop.assistant)
        /\ Len(loop.results) + Len(loop.runnable) = loop.next - 1
        /\ \A i \in 1 .. Len(loop.results) :
             /\ loop.results[i].role = "toolResult"
             /\ \E k \in 1 .. loop.next - 1 : loop.results[i].id = Call(k)
        /\ \A k \in 1 .. loop.next - 1 :
             Call(k) \in Runnable \/ \E i \in 1 .. Len(loop.results) : loop.results[i].id = Call(k)
        /\ ToolExecution = "sequential" =>
             /\ \A i \in 1 .. Len(loop.results) : loop.results[i].id = Call(i)
             /\ \A i \in 1 .. Len(loop.runnable) : loop.runnable[i] = Call(Len(loop.results) + i)
    BY <2>1 DEF AnswersInv, CallsOfAnswer
  <2>5. /\ HasCalls(loop'.assistant)
        /\ loop'.next <= loop'.assistant.calls + 1
        /\ loop'.pc = "prepare" => loop'.next <= loop'.assistant.calls
        /\ loop'.pc = "await" => loop'.next = loop'.assistant.calls + 1
        /\ Len(loop'.results) + Len(loop'.runnable) = loop'.next - 1
    BY <1>1, <2>2, <2>3, <2>4
  <2>6. \A i \in 1 .. Len(loop'.results) :
             /\ loop'.results[i].role = "toolResult"
             /\ \E k \in 1 .. loop'.next - 1 : loop'.results[i].id = Call(k)'
    BY <1>1, <2>4 DEF Call
  <2>7. \A k \in 1 .. loop'.next - 1 :
             Call(k)' \in Runnable' \/ \E i \in 1 .. Len(loop'.results) : loop'.results[i].id = Call(k)'
    BY <1>1, <2>1, <2>4
  <2>8. ToolExecution = "sequential" =>
             /\ \A i \in 1 .. Len(loop'.results) : loop'.results[i].id = Call(i)'
             /\ \A i \in 1 .. Len(loop'.runnable) : loop'.runnable[i] = Call(Len(loop.results) + i)'
    BY <1>1, <2>4 DEF Call
  <2>9. CallsOfAnswer'
    BY <2>5, <2>6, <2>7, <2>8 DEF CallsOfAnswer
  <2> QED BY <2>9
<1> QED BY <1>1, <1>2, <1>4, <1>5 DEF AnswersInv, IdleAnswered, TurnAnswered, Busy, ToolPhase

(* A call that could not be prepared has its result at once.               *)
LEMMA AnswersImmediate ==
    ASSUME AgentInv, PendingInv, AnswersInv, ImmediateOutcome
    PROVE  AnswersInv'
<1> DEFINE r == Len(loop.results)
           c == NextCall
<1>0. LoopTypeOK
  BY DEF AgentInv, TypeOK
<1>1. /\ loop.pc = "prepare" /\ loop'.pc = "tool"
      /\ loop'.context = loop.context /\ loop'.pendingMessages = loop.pendingMessages
      /\ loop'.assistant = loop.assistant /\ loop'.runnable = loop.runnable
      /\ loop'.results = Append(loop.results, ToolResult(c)) /\ loop'.next = loop.next + 1
      /\ UNCHANGED <<steeringQueue, followUpQueue>>
  BY <1>0, ImmediateEffect
<1>2. QueuesHoldPrompts' /\ rejected' = rejected
  <2>1. rejected' = rejected
    BY DEF ImmediateOutcome, toolVars
  <2> QED BY <1>1, <2>1 DEF AnswersInv, QueuesHoldPrompts
<1>3. loop.next \in Nat /\ loop.next >= 1 /\ loop.assistant.calls \in Nat /\ c \in CallIds
  <2>1. loop.next \in Nat /\ loop.assistant \in Messages
    BY <1>0, FieldsTyped
  <2>2. c \in CallIds
    BY <1>0, <1>1, NextCallTyped DEF AgentInv, ResponseHasId
  <2> QED BY <2>1, <2>2 DEF Messages, PendingInv, RunnableStarted
<1>4. /\ Len(loop'.results) = r + 1 /\ r \in Nat /\ loop'.results[r + 1] = ToolResult(c)
      /\ \A i \in 1 .. r : loop'.results[i] = loop.results[i]
  <2>1. loop.results \in Seq(Messages) /\ ToolResult(c) \in Messages
    BY <1>0, <1>3, FieldsTyped, MessagesTyped
  <2> QED BY <1>1, <2>1
<1>5. ToolResult(c).role = "toolResult" /\ ToolResult(c).id = c
  BY DEF ToolResult
<1>6. /\ HasCalls(loop.assistant) /\ loop.next <= loop.assistant.calls
      /\ r + Len(loop.runnable) = loop.next - 1
      /\ \A i \in 1 .. r :
           /\ loop.results[i].role = "toolResult"
           /\ \E k \in 1 .. loop.next - 1 : loop.results[i].id = Call(k)
      /\ \A k \in 1 .. loop.next - 1 :
           Call(k) \in Runnable \/ \E i \in 1 .. r : loop.results[i].id = Call(k)
      /\ ToolExecution = "sequential" => \A i \in 1 .. r : loop.results[i].id = Call(i)
  BY <1>1 DEF AnswersInv, CallsOfAnswer, ToolPhase
<1>7. Runnable' = Runnable /\ (\A k : Call(k)' = Call(k)) /\ c = Call(loop.next)
  BY <1>1 DEF Runnable, Call, NextCall
<1>8. Len(loop.runnable) \in Nat
  BY <1>0, FieldsTyped
<1> HIDE DEF r, c
<1>9. \A i \in 1 .. r + 1 : i \in 1 .. r \/ i = r + 1
  BY <1>4
<1>10. \A k \in 1 .. loop.next : k \in 1 .. loop.next - 1 \/ k = loop.next
  BY <1>3
<1>11. /\ loop.next \in 1 .. loop.next /\ loop'.next - 1 = loop.next
       /\ \A k \in 1 .. loop.next - 1 : k \in 1 .. loop.next
  BY <1>1, <1>3
<1>12. \A i \in 1 .. r + 1 :
          /\ loop'.results[i].role = "toolResult"
          /\ \E k \in 1 .. loop.next : loop'.results[i].id = Call(k)
  <2> TAKE i \in 1 .. r + 1
  <2>1. CASE i = r + 1
    BY <1>4, <1>5, <1>7, <1>11, <2>1
  <2>2. CASE i \in 1 .. r
    <3>1. loop'.results[i] = loop.results[i]
      BY <1>4, <2>2
    <3>2. loop.results[i].role = "toolResult"
      BY <1>6, <2>2
    <3>3. PICK k \in 1 .. loop.next - 1 : loop.results[i].id = Call(k)
      BY <1>6, <2>2
    <3>4. k \in 1 .. loop.next
      BY <1>11
    <3> QED BY <3>1, <3>2, <3>3, <3>4
  <2> QED BY <1>9, <2>1, <2>2
<1>13. \A k \in 1 .. loop.next :
          Call(k) \in Runnable \/ \E i \in 1 .. r + 1 : loop'.results[i].id = Call(k)
  <2> TAKE k \in 1 .. loop.next
  <2>1. r + 1 \in 1 .. r + 1 /\ \A i \in 1 .. r : i \in 1 .. r + 1
    BY <1>4
  <2>2. CASE k = loop.next
    BY <1>4, <1>5, <1>7, <2>1, <2>2
  <2>3. CASE k \in 1 .. loop.next - 1
    BY <1>4, <1>6, <2>1, <2>3
  <2> QED BY <1>10, <2>2, <2>3
<1>14. ASSUME ToolExecution = "sequential"
       PROVE  /\ loop.runnable = <<>>
              /\ \A i \in 1 .. r + 1 : loop'.results[i].id = Call(i)
  <2>1. loop.runnable = <<>>
    BY <1>1, <1>14 DEF AgentInv, AwaitsOne
  <2>2. r = loop.next - 1
    <3>1. Len(loop.runnable) = 0
      BY <2>1
    <3> QED BY <1>3, <1>4, <1>6, <3>1
  <2>3. r + 1 = loop.next
    BY <1>3, <1>4, <2>2
  <2> QED BY <1>4, <1>5, <1>6, <1>7, <1>9, <1>14, <2>1, <2>3
<1>15. AnswerLast'
  BY <1>1 DEF AnswersInv, AnswerLast, ToolPhase
<1>16. CallsOfAnswer'
  <2>1. loop'.next <= loop'.assistant.calls + 1 /\ Len(loop'.results) + Len(loop'.runnable) = loop'.next - 1
    <3> DEFINE n == Len(loop.runnable)
               p == loop.next
    <3>1. n \in Nat /\ p \in Nat /\ r \in Nat /\ r + n = p - 1 /\ p <= loop.assistant.calls
      BY <1>3, <1>4, <1>6, <1>8
    <3>2. Len(loop'.runnable) = n /\ loop'.next = p + 1 /\ Len(loop'.results) = r + 1
      BY <1>1, <1>4
    <3>3. loop'.assistant.calls = loop.assistant.calls
      BY <1>1
    <3> HIDE DEF n, p
    <3>4. p + 1 <= loop.assistant.calls + 1 /\ r + 1 + n = p + 1 - 1
      BY <3>1, <1>3
    <3> QED BY <3>1, <3>2, <3>3, <3>4, <1>3
  <2>2. HasCalls(loop'.assistant) /\ loop'.pc # "prepare" /\ loop'.pc # "await"
    BY <1>1, <1>6
  <2>3. \A i \in 1 .. Len(loop'.results) :
          /\ loop'.results[i].role = "toolResult"
          /\ \E k \in 1 .. loop'.next - 1 : loop'.results[i].id = Call(k)'
    BY <1>4, <1>7, <1>11, <1>12
  <2>4. \A k \in 1 .. loop'.next - 1 :
          Call(k)' \in Runnable' \/ \E i \in 1 .. Len(loop'.results) : loop'.results[i].id = Call(k)'
    BY <1>4, <1>7, <1>11, <1>13
  <2>5. ToolExecution = "sequential" =>
          /\ \A i \in 1 .. Len(loop'.results) : loop'.results[i].id = Call(i)'
          /\ \A i \in 1 .. Len(loop'.runnable) : loop'.runnable[i] = Call(Len(loop.results) + i)'
    <3> SUFFICES ASSUME ToolExecution = "sequential"
                 PROVE  /\ \A i \in 1 .. r + 1 : loop'.results[i].id = Call(i)'
                        /\ \A i : i \notin 1 .. Len(loop'.runnable)
      BY <1>4
    <3>1. loop'.runnable = <<>>
      BY <1>1, <1>14
    <3>2. \A i : i \notin 1 .. Len(loop'.runnable)
      BY <3>1
    <3> QED BY <1>7, <1>14, <3>2
  <2> QED BY <2>1, <2>2, <2>3, <2>4, <2>5 DEF CallsOfAnswer
<1> QED BY <1>1, <1>2, <1>15, <1>16 DEF AnswersInv, IdleAnswered, TurnAnswered, Busy, ToolPhase

(* A call that was prepared waits for its result.                          *)
LEMMA AnswersPrepared ==
    ASSUME AgentInv, PendingInv, AnswersInv, PreparedCall
    PROVE  AnswersInv'
<1> DEFINE r == Len(loop.results)
           n == Len(loop.runnable)
           p == loop.next
           c == NextCall
<1>0. LoopTypeOK
  BY DEF AgentInv, TypeOK
<1>1. /\ loop.pc = "prepare" /\ loop'.pc \in {"tool", "await"}
      /\ loop'.context = loop.context /\ loop'.pendingMessages = loop.pendingMessages
      /\ loop'.assistant = loop.assistant /\ loop'.results = loop.results /\ loop'.next = p + 1
      /\ UNCHANGED <<steeringQueue, followUpQueue>>
      /\ loop'.pc = "await" => ToolExecution = "sequential"
  BY <1>0, PreparedEffect
<1>2. QueuesHoldPrompts' /\ rejected' = rejected
  <2>1. rejected' = rejected
    BY DEF PreparedCall
  <2> QED BY <1>1, <2>1 DEF AnswersInv, QueuesHoldPrompts
<1>3. p \in Nat /\ p >= 1 /\ loop.assistant.calls \in Nat /\ r \in Nat
  <2>1. loop.next \in Nat /\ loop.assistant \in Messages /\ loop.results \in Seq(Messages)
    BY <1>0, FieldsTyped
  <2> QED BY <2>1 DEF Messages, PendingInv, RunnableStarted
<1>4. /\ n \in Nat /\ Len(loop'.runnable) = n + 1 /\ loop'.runnable[n + 1] = c
      /\ Runnable' = Runnable \cup {c}
  BY RunnableGrows
<1>5. /\ HasCalls(loop.assistant) /\ p <= loop.assistant.calls /\ r + n = p - 1
      /\ \A i \in 1 .. r :
           /\ loop.results[i].role = "toolResult"
           /\ \E k \in 1 .. p - 1 : loop.results[i].id = Call(k)
      /\ \A k \in 1 .. p - 1 : Call(k) \in Runnable \/ \E i \in 1 .. r : loop.results[i].id = Call(k)
      /\ ToolExecution = "sequential" => \A i \in 1 .. r : loop.results[i].id = Call(i)
  BY <1>1 DEF AnswersInv, CallsOfAnswer, ToolPhase
<1>6. (\A k : Call(k)' = Call(k)) /\ c = Call(p)
  BY <1>1 DEF Call, NextCall
<1>7. ToolExecution = "sequential" => n = 0
  <2>1. ToolExecution = "sequential" => loop.runnable = <<>>
    BY <1>1 DEF AgentInv, AwaitsOne
  <2> QED BY <2>1
<1>8. Len(loop'.results) = r
  BY <1>1
<1> HIDE DEF r, n, p, c
<1>9. \A k \in 1 .. p : k \in 1 .. p - 1 \/ k = p
  BY <1>3
<1>10. loop'.next - 1 = p /\ \A k \in 1 .. p - 1 : k \in 1 .. p
  BY <1>1, <1>3
<1>11. \A i \in 1 .. r :
          /\ loop'.results[i].role = "toolResult"
          /\ \E k \in 1 .. p : loop'.results[i].id = Call(k)
  BY <1>1, <1>5, <1>10
<1>12. \A k \in 1 .. p : Call(k) \in Runnable' \/ \E i \in 1 .. r : loop'.results[i].id = Call(k)
  <2> TAKE k \in 1 .. p
  <2>1. CASE k = p
    BY <1>4, <1>6, <2>1
  <2>2. CASE k \in 1 .. p - 1
    BY <1>1, <1>4, <1>5, <2>2
  <2> QED BY <1>9, <2>1, <2>2
<1>13. ASSUME ToolExecution = "sequential"
       PROVE  \A i \in 1 .. n + 1 : loop'.runnable[i] = Call(r + i)
  <2>1. r + 1 = p /\ n + 1 = 1
    BY <1>3, <1>4, <1>5, <1>7, <1>13
  <2>2. \A i \in 1 .. n + 1 : i = 1
    BY <2>1
  <2> QED BY <1>4, <1>6, <2>1, <2>2
<1>14. AnswerLast'
  BY <1>1 DEF AnswersInv, AnswerLast, ToolPhase
<1>15. CallsOfAnswer'
  <2>1. loop'.next <= loop'.assistant.calls + 1 /\ Len(loop'.results) + Len(loop'.runnable) = loop'.next - 1
    <3>1. p + 1 <= loop.assistant.calls + 1 /\ r + (n + 1) = p
      BY <1>3, <1>4, <1>5
    <3> QED BY <1>1, <1>3, <1>4, <1>8, <1>10, <3>1
  <2>2. HasCalls(loop'.assistant) /\ loop'.pc # "prepare"
    BY <1>1, <1>5
  <2>3. ~(loop'.pc = "await" /\ (ToolExecution # "sequential" \/ loop'.runnable = <<>>))
    <3>1. loop'.runnable # <<>>
      BY <1>4
    <3> QED BY <1>1, <3>1
  <2>4. \A i \in 1 .. Len(loop'.results) :
          /\ loop'.results[i].role = "toolResult"
          /\ \E k \in 1 .. loop'.next - 1 : loop'.results[i].id = Call(k)'
    BY <1>6, <1>8, <1>10, <1>11
  <2>5. \A k \in 1 .. loop'.next - 1 :
          Call(k)' \in Runnable' \/ \E i \in 1 .. Len(loop'.results) : loop'.results[i].id = Call(k)'
    BY <1>6, <1>8, <1>10, <1>12
  <2>6. ToolExecution = "sequential" =>
          /\ \A i \in 1 .. Len(loop'.results) : loop'.results[i].id = Call(i)'
          /\ \A i \in 1 .. Len(loop'.runnable) : loop'.runnable[i] = Call(Len(loop.results) + i)'
    BY <1>1, <1>4, <1>5, <1>6, <1>8, <1>13
  <2> QED BY <2>1, <2>2, <2>3, <2>4, <2>5, <2>6 DEF CallsOfAnswer
<1> QED BY <1>1, <1>2, <1>14, <1>15 DEF AnswersInv, IdleAnswered, TurnAnswered, Busy, ToolPhase

(* The first call that waits has its result.                               *)
LEMMA AnswersFinalized ==
    ASSUME AgentInv, PendingInv, AnswersInv, FinalizeCall
    PROVE  AnswersInv'
<1> DEFINE r == Len(loop.results)
           n == Len(loop.runnable)
           p == loop.next
           c == Head(loop.runnable)
<1>0. LoopTypeOK
  BY DEF AgentInv, TypeOK
<1>1. /\ loop.pc = "await" /\ loop'.pc = (IF ToolExecution = "sequential" THEN "tool" ELSE "await")
      /\ loop'.context = loop.context /\ loop'.pendingMessages = loop.pendingMessages
      /\ loop'.assistant = loop.assistant /\ loop'.next = p
      /\ loop'.results = Append(loop.results, ToolResult(c))
      /\ UNCHANGED <<steeringQueue, followUpQueue>>
  BY <1>0, FinalizeEffect
<1>2. QueuesHoldPrompts' /\ rejected' = rejected
  <2>1. rejected' = rejected
    BY DEF FinalizeCall, toolVars
  <2> QED BY <1>1, <2>1 DEF AnswersInv, QueuesHoldPrompts
<1>3. p \in Nat /\ loop.assistant.calls \in Nat
  <2>1. loop.next \in Nat /\ loop.assistant \in Messages
    BY <1>0, FieldsTyped
  <2> QED BY <2>1 DEF Messages
<1>4. /\ c \in CallIds /\ c = loop.runnable[1] /\ n \in Nat /\ n >= 1 /\ Len(loop'.runnable) = n - 1
      /\ Runnable = Runnable' \cup {c}
  BY RunnableShrinks
<1>5. /\ Len(loop'.results) = r + 1 /\ r \in Nat /\ loop'.results[r + 1] = ToolResult(c)
      /\ \A i \in 1 .. r : loop'.results[i] = loop.results[i]
  <2>1. loop.results \in Seq(Messages) /\ ToolResult(c) \in Messages
    BY <1>0, <1>4, FieldsTyped, MessagesTyped
  <2> QED BY <1>1, <2>1
<1>6. ToolResult(c).role = "toolResult" /\ ToolResult(c).id = c
  BY DEF ToolResult
<1>7. /\ HasCalls(loop.assistant) /\ p <= loop.assistant.calls + 1 /\ r + n = p - 1
      /\ ToolExecution # "sequential" => p = loop.assistant.calls + 1
      /\ \A i \in 1 .. r :
           /\ loop.results[i].role = "toolResult"
           /\ \E k \in 1 .. p - 1 : loop.results[i].id = Call(k)
      /\ \A k \in 1 .. p - 1 : Call(k) \in Runnable \/ \E i \in 1 .. r : loop.results[i].id = Call(k)
      /\ ToolExecution = "sequential" =>
           /\ \A i \in 1 .. r : loop.results[i].id = Call(i)
           /\ \A i \in 1 .. n : loop.runnable[i] = Call(r + i)
  BY <1>1 DEF AnswersInv, CallsOfAnswer, ToolPhase
<1>8. \A k : Call(k)' = Call(k)
  BY <1>1 DEF Call
<1>9. \E k \in 1 .. p - 1 : c = Call(k)
  BY <1>4 DEF PendingInv, RunnableStarted
<1>10. ToolExecution = "sequential" => n <= 1
  BY DEF AgentInv, AwaitsOne
<1> HIDE DEF r, n, p, c
<1>17. ToolExecution = "sequential" => n = 1
  BY <1>4, <1>10
<1>11. \A i \in 1 .. r + 1 : i \in 1 .. r \/ i = r + 1
  BY <1>5
<1>12. \A i \in 1 .. r + 1 :
          /\ loop'.results[i].role = "toolResult"
          /\ \E k \in 1 .. p - 1 : loop'.results[i].id = Call(k)
  <2> TAKE i \in 1 .. r + 1
  <2>1. CASE i = r + 1
    BY <1>5, <1>6, <1>9, <2>1
  <2>2. CASE i \in 1 .. r
    BY SMTT(30), <1>5, <1>7, <2>2
  <2> QED BY <1>11, <2>1, <2>2
<1>13. \A k \in 1 .. p - 1 :
          Call(k) \in Runnable' \/ \E i \in 1 .. r + 1 : loop'.results[i].id = Call(k)
  <2> TAKE k \in 1 .. p - 1
  <2>1. r + 1 \in 1 .. r + 1 /\ \A i \in 1 .. r : i \in 1 .. r + 1
    BY <1>5
  <2>2. CASE Call(k) = c
    BY <1>5, <1>6, <2>1, <2>2
  <2>3. CASE Call(k) \in Runnable'
    BY <2>3
  <2>4. CASE \E i \in 1 .. r : loop.results[i].id = Call(k)
    BY <1>5, <2>1, <2>4
  <2> QED BY <1>4, <1>7, <2>2, <2>3, <2>4
<1>14. ASSUME ToolExecution = "sequential"
       PROVE  /\ \A i : i \notin 1 .. Len(loop'.runnable)
              /\ \A i \in 1 .. r + 1 : loop'.results[i].id = Call(i)
  <2>1. 1 \in 1 .. n /\ c = Call(r + 1)
    BY <1>4, <1>7, <1>17, <1>14
  <2>2. Len(loop'.runnable) = 0
    BY <1>4, <1>17, <1>14
  <2>3. \A i \in 1 .. r + 1 : loop'.results[i].id = Call(i)
    BY <1>5, <1>6, <1>7, <1>11, <1>14, <2>1
  <2> QED BY <2>2, <2>3
<1>15. AnswerLast'
  BY <1>1 DEF AnswersInv, AnswerLast, ToolPhase
<1>16. CallsOfAnswer'
  <2>1. loop'.next <= loop'.assistant.calls + 1 /\ Len(loop'.results) + Len(loop'.runnable) = loop'.next - 1
    <3>1. (r + 1) + (n - 1) = p - 1
      BY <1>3, <1>4, <1>5, <1>7
    <3> QED BY <1>1, <1>3, <1>4, <1>5, <1>7, <3>1
  <2>2. HasCalls(loop'.assistant) /\ loop'.pc # "prepare"
    BY <1>1, <1>7
  <2>3. loop'.pc = "await" => loop'.next = loop'.assistant.calls + 1
    BY <1>1, <1>7
  <2>4. \A i \in 1 .. Len(loop'.results) :
          /\ loop'.results[i].role = "toolResult"
          /\ \E k \in 1 .. loop'.next - 1 : loop'.results[i].id = Call(k)'
    BY <1>1, <1>5, <1>8, <1>12
  <2>5. \A k \in 1 .. loop'.next - 1 :
          Call(k)' \in Runnable' \/ \E i \in 1 .. Len(loop'.results) : loop'.results[i].id = Call(k)'
    BY <1>1, <1>5, <1>8, <1>13
  <2>6. ToolExecution = "sequential" =>
          /\ \A i \in 1 .. Len(loop'.results) : loop'.results[i].id = Call(i)'
          /\ \A i \in 1 .. Len(loop'.runnable) : loop'.runnable[i] = Call(Len(loop.results) + i)'
    BY <1>5, <1>8, <1>14
  <2> QED BY <2>1, <2>2, <2>3, <2>4, <2>5, <2>6 DEF CallsOfAnswer
<1> QED BY <1>1, <1>2, <1>15, <1>16 DEF AnswersInv, IdleAnswered, TurnAnswered, Busy, ToolPhase

(* The tool phase ends with a result for every call of the response.       *)
LEMMA AnswersExecuted ==
    ASSUME AgentInv, PendingInv, AnswersInv, CallsExecuted
    PROVE  AnswersInv'
<1> DEFINE m == loop.assistant
           rs == loop.results
           n == loop.assistant.calls
<1>0. LoopTypeOK
  BY DEF AgentInv, TypeOK
<1>1. /\ loop.pc = "await" /\ loop'.pc = "turnEnd" /\ loop.runnable = <<>>
      /\ loop'.context = loop.context /\ loop'.pendingMessages = loop.pendingMessages
      /\ loop'.results = loop.results /\ UNCHANGED <<steeringQueue, followUpQueue>>
  BY <1>0, LaunchEffect DEF CallsExecuted, Resume
<1>2. QueuesHoldPrompts' /\ rejected' = rejected
  <2>1. rejected' = rejected
    BY DEF CallsExecuted, toolVars
  <2> QED BY <1>1, <2>1 DEF AnswersInv, QueuesHoldPrompts
<1>3. m \in Messages /\ n \in Nat /\ rs \in Seq(Messages) /\ loop.next \in Nat
  <2>1. m \in Messages /\ rs \in Seq(Messages) /\ loop.next \in Nat
    BY <1>0, FieldsTyped
  <2> QED BY <2>1 DEF Messages
<1>4. PICK s \in Seq(Messages) : loop.context = Append(s, m) /\ Answered(s)
  BY <1>1 DEF AnswersInv, AnswerLast, ToolPhase
<1>5. /\ HasCalls(m) /\ loop.next = n + 1
      /\ Len(rs) + Len(loop.runnable) = loop.next - 1
      /\ \A i \in 1 .. Len(rs) :
           rs[i].role = "toolResult" /\ \E k \in 1 .. loop.next - 1 : rs[i].id = Call(k)
      /\ \A k \in 1 .. loop.next - 1 :
           Call(k) \in Runnable \/ \E i \in 1 .. Len(rs) : rs[i].id = Call(k)
      /\ ToolExecution = "sequential" => \A i \in 1 .. Len(rs) : rs[i].id = Call(i)
  BY <1>1 DEF AnswersInv, CallsOfAnswer, ToolPhase
<1>6. Runnable = {} /\ Len(loop.runnable) = 0
  BY <1>1, NoRunnable
<1>7. \A k : Call(k) = CallOf(m, k)
  BY DEF Call, CallOf
<1> HIDE DEF m, rs, n
<1>8. loop.next - 1 = n /\ Len(rs) = n
  <2>1. Len(rs) \in Nat
    BY <1>3
  <2> QED BY <1>3, <1>5, <1>6, <2>1
<1>9. \A i \in 1 .. Len(rs) : ~HasCalls(rs[i])
  BY <1>5 DEF HasCalls
<1>10. /\ \A k \in 1 .. n : \E j \in 1 .. n : rs[j].id = CallOf(m, k)
       /\ \A j \in 1 .. n : \E k \in 1 .. n : rs[j].id = CallOf(m, k)
       /\ ToolExecution = "sequential" => \A k \in 1 .. n : rs[k].id = CallOf(m, k)
  <2>1. \A i \in 1 .. n : \E k \in 1 .. n : rs[i].id = Call(k)
    BY <1>5, <1>8
  <2>2. \A k \in 1 .. n : \E i \in 1 .. n : rs[i].id = Call(k)
    <3>1. \A k \in 1 .. n : Call(k) \in Runnable \/ \E i \in 1 .. n : rs[i].id = Call(k)
      BY <1>5, <1>8
    <3> QED BY <1>6, <3>1
  <2>3. ToolExecution = "sequential" => \A k \in 1 .. n : rs[k].id = Call(k)
    BY <1>5, <1>8
  <2> QED BY <1>7, <2>1, <2>2, <2>3
<1>11. n = m.calls
  BY DEF n, m
<1>12. Answered(Append(s, m) \o rs)
  <2>1. /\ \A k \in 1 .. m.calls : \E j \in 1 .. m.calls : rs[j].id = CallOf(m, k)
        /\ \A j \in 1 .. m.calls : \E k \in 1 .. m.calls : rs[j].id = CallOf(m, k)
        /\ ToolExecution = "sequential" => \A k \in 1 .. m.calls : rs[k].id = CallOf(m, k)
    BY <1>10, <1>11
  <2>2. Len(rs) = m.calls
    BY <1>8, <1>11
  <2>3. HasCalls(m)
    BY <1>5
  <2> HIDE DEF HasCalls
  <2> QED BY <1>3, <1>4, <1>9, <2>1, <2>2, <2>3, AnsweredTurn
<1>13. TurnAnswered'
  BY <1>1, <1>4, <1>12 DEF TurnAnswered, rs
<1> QED BY <1>1, <1>2, <1>13 DEF AnswersInv, IdleAnswered, AnswerLast, CallsOfAnswer, Busy, ToolPhase

(* At the end of the turn the results join the context.                    *)
LEMMA AnswersTurnEnd ==
    ASSUME AgentInv, AnswersInv, TurnEnd
    PROVE  AnswersInv'
<1>0. LoopTypeOK
  BY DEF AgentInv, TypeOK
<1>1. /\ loop.pc = "turnEnd" /\ loop'.pc = "pollSteering"
      /\ loop'.context = loop.context \o loop.results /\ loop'.results = <<>>
      /\ loop'.pendingMessages = loop.pendingMessages
      /\ UNCHANGED <<steeringQueue, followUpQueue>>
  BY <1>0, TurnEndEffect
<1>2. QueuesHoldPrompts' /\ rejected' = rejected
  <2>1. rejected' = rejected
    BY DEF TurnEnd, toolVars
  <2> QED BY <1>1, <2>1 DEF AnswersInv, QueuesHoldPrompts
<1>3. Answered(loop.context \o loop.results)
  BY <1>1 DEF AnswersInv, TurnAnswered, Busy, ToolPhase
<1>4. loop.context \o loop.results \in Seq(Messages)
  BY <1>0, FieldsTyped
<1>5. loop'.context \o loop'.results = loop.context \o loop.results
  BY <1>1, <1>4, ConcatEmptySeq
<1>6. TurnAnswered'
  BY <1>3, <1>5 DEF TurnAnswered
<1> QED BY <1>1, <1>2, <1>6 DEF AnswersInv, IdleAnswered, AnswerLast, CallsOfAnswer, Busy, ToolPhase

(* What is known of the calls depends on the loop alone.                   *)
LEMMA CallsOfAnswerKept ==
    ASSUME CallsOfAnswer, loop'.pc = loop.pc, loop'.assistant = loop.assistant, loop'.next = loop.next,
           loop'.runnable = loop.runnable, loop'.results = loop.results
    PROVE  CallsOfAnswer'
<1> SUFFICES ASSUME ToolPhase' PROVE CallsOfAnswer'
  BY DEF CallsOfAnswer
<1>1. ToolPhase /\ Runnable' = Runnable /\ \A k : Call(k)' = Call(k)
  BY DEF ToolPhase, Runnable, Call
<1>2. /\ HasCalls(loop.assistant)
      /\ loop.next <= loop.assistant.calls + 1
      /\ loop.pc = "prepare" => loop.next <= loop.assistant.calls
      /\ loop.pc = "await" /\ (ToolExecution # "sequential" \/ loop.runnable = <<>>) =>
           loop.next = loop.assistant.calls + 1
      /\ Len(loop.results) + Len(loop.runnable) = loop.next - 1
  BY <1>1 DEF CallsOfAnswer
<1>3. /\ \A i \in 1 .. Len(loop.results) :
           /\ loop.results[i].role = "toolResult"
           /\ \E k \in 1 .. loop.next - 1 : loop.results[i].id = Call(k)
      /\ \A k \in 1 .. loop.next - 1 :
           Call(k) \in Runnable \/ \E i \in 1 .. Len(loop.results) : loop.results[i].id = Call(k)
      /\ ToolExecution = "sequential" =>
           /\ \A i \in 1 .. Len(loop.results) : loop.results[i].id = Call(i)
           /\ \A i \in 1 .. Len(loop.runnable) : loop.runnable[i] = Call(Len(loop.results) + i)
  BY <1>1 DEF CallsOfAnswer
<1>4. /\ HasCalls(loop'.assistant)
      /\ loop'.next <= loop'.assistant.calls + 1
      /\ loop'.pc = "prepare" => loop'.next <= loop'.assistant.calls
      /\ loop'.pc = "await" /\ (ToolExecution # "sequential" \/ loop'.runnable = <<>>) =>
           loop'.next = loop'.assistant.calls + 1
      /\ Len(loop'.results) + Len(loop'.runnable) = loop'.next - 1
  BY <1>2
<1>5. \A i \in 1 .. Len(loop'.results) :
           /\ loop'.results[i].role = "toolResult"
           /\ \E k \in 1 .. loop'.next - 1 : loop'.results[i].id = Call(k)'
  BY <1>3 DEF Call
<1>6. \A k \in 1 .. loop'.next - 1 :
         Call(k)' \in Runnable' \/ \E i \in 1 .. Len(loop'.results) : loop'.results[i].id = Call(k)'
  BY <1>1, <1>3
<1>7. ToolExecution = "sequential" =>
           /\ \A i \in 1 .. Len(loop'.results) : loop'.results[i].id = Call(i)'
           /\ \A i \in 1 .. Len(loop'.runnable) : loop'.runnable[i] = Call(Len(loop.results) + i)'
  BY <1>3 DEF Call
<1> QED BY <1>4, <1>5, <1>6, <1>7 DEF CallsOfAnswer

(* Emitting changes the transcript of the state only during a run.         *)
LEMMA AnswersEmitted ==
    ASSUME AgentInv, AnswersInv, Emit
    PROVE  AnswersInv'
<1>0. LoopTypeOK
  BY DEF AgentInv, TypeOK
<1>1. /\ loop.todo # <<>> /\ loop'.todo = Tail(loop.todo)
      /\ loop'.pc = loop.pc /\ loop'.context = loop.context
      /\ loop'.pendingMessages = loop.pendingMessages /\ loop'.assistant = loop.assistant
      /\ loop'.next = loop.next /\ loop'.runnable = loop.runnable /\ loop'.results = loop.results
      /\ messages' = (IF Head(loop.todo).type = "message_end"
                        THEN Append(messages, Head(loop.todo).message) ELSE messages)
      /\ UNCHANGED <<steeringQueue, followUpQueue>>
  BY <1>0, EmitEffect
<1>2. QueuesHoldPrompts' /\ rejected' = rejected
  <2>1. rejected' = rejected
    BY DEF Emit, toolVars
  <2> QED BY <1>1, <2>1 DEF AnswersInv, QueuesHoldPrompts
<1>3. ASSUME ~Busy PROVE Silent(loop'.todo) /\ Answered(messages')
  <2>1. Silent(loop.todo) /\ Answered(messages) /\ loop.todo \in Seq(Events)
    BY <1>0, <1>3, FieldsTyped DEF AnswersInv, IdleAnswered
  <2>2. /\ 1 \in 1 .. Len(loop.todo) /\ Head(loop.todo) = loop.todo[1]
        /\ \A i \in 1 .. Len(Tail(loop.todo)) :
              Tail(loop.todo)[i] = loop.todo[i + 1] /\ i + 1 \in 1 .. Len(loop.todo)
    BY <1>1, <2>1, HeadTailProperties
  <2>3. messages' = messages
    BY <1>1, <2>1, <2>2 DEF Silent
  <2>4. Silent(loop'.todo)
    BY <1>1, <2>1, <2>2 DEF Silent
  <2> QED BY <2>1, <2>3, <2>4
<1>4. IdleAnswered'
  BY <1>1, <1>3 DEF IdleAnswered, Busy
<1>5. TurnAnswered' /\ AnswerLast'
  BY <1>1 DEF AnswersInv, TurnAnswered, AnswerLast, Busy, ToolPhase
<1>6. CallsOfAnswer'
  BY <1>1, CallsOfAnswerKept DEF AnswersInv
<1> QED BY <1>2, <1>4, <1>5, <1>6 DEF AnswersInv

(* A run that ends leaves its transcript answered.                         *)
LEMMA AnswersEnd ==
    ASSUME AgentInv, MirrorInv, AnswersInv, FinishRun
    PROVE  AnswersInv'
<1>1. /\ loop'.pc = "idle" /\ loop.pc \in {"finish", "failing"} /\ loop'.todo = <<>>
      /\ loop'.pendingMessages = <<>> /\ UNCHANGED <<messages, steeringQueue, followUpQueue>>
  BY EndEffect
<1>2. loop.todo = <<>> /\ rejected' = rejected
  BY DEF FinishRun, Resume, toolVars
<1>3. Answered(messages)
  <2>1. CASE loop.pc = "failing"
    BY <2>1 DEF AnswersInv, IdleAnswered, Busy
  <2>2. CASE loop.pc = "finish"
    <3>1. Busy /\ ~ToolPhase /\ loop.pc \notin ResultPhases
      BY <2>2 DEF Busy, ToolPhase, ResultPhases
    <3> QED BY <1>2, <2>2, <3>1, AtRest DEF AnswersInv, TurnAnswered
  <2> QED BY <1>1, <2>1, <2>2
<1>4. QueuesHoldPrompts'
  <2>1. UserOnly(<<>>)
    BY DEF UserOnly
  <2> QED BY <1>1, <2>1 DEF AnswersInv, QueuesHoldPrompts
<1>5. Silent(loop'.todo)
  BY <1>1 DEF Silent
<1> QED BY <1>1, <1>2, <1>3, <1>4, <1>5
        DEF AnswersInv, IdleAnswered, TurnAnswered, AnswerLast, CallsOfAnswer, Busy, ToolPhase

(* When no listener throws, a run fails only before the model is asked,    *)
(* when every call has its result.                                         *)
LEMMA AnswersFailed ==
    ASSUME AgentInv, MirrorInv, AnswersInv, ListenersFail = FALSE,
           StreamThrows \/ CallRejected \/ ListenerThrows
    PROVE  AnswersInv'
<1>1. StreamThrows
  BY DEF CallRejected, ListenerThrows, AnswersInv
<1>2. /\ loop'.pc = "failing" /\ messages' = Append(messages, FailureMessage)
      /\ loop'.todo = <<Event("agent_end", NoMessage)>> /\ loop'.pendingMessages = <<>>
      /\ UNCHANGED <<steeringQueue, followUpQueue>>
  BY <1>1, FailEffect
<1>3. loop.pc = "request" /\ loop.todo = <<>> /\ rejected' = {}
  BY <1>1 DEF StreamThrows, Resume, FailRun
<1>4. Busy /\ ~ToolPhase /\ loop.pc \notin ResultPhases
  BY <1>3 DEF Busy, ToolPhase, ResultPhases
<1>5. Answered(messages) /\ messages \in Seq(Messages) /\ FailureMessage \in Messages
  <2>1. Answered(messages)
    BY <1>3, <1>4, AtRest DEF AnswersInv, TurnAnswered
  <2> QED BY <2>1, MessagesTyped DEF AgentInv, TypeOK, StateTypeOK
<1>6. Answered(messages \o <<FailureMessage>>)
  <2> DEFINE m == FailureMessage
  <2>1. m \in Messages /\ ~HasCalls(m)
    BY <1>5 DEF HasCalls, FailureMessage
  <2> HIDE DEF m
  <2>2. <<m>> \in Seq(Messages) /\ \A i \in 1 .. Len(<<m>>) : ~HasCalls(<<m>>[i])
    BY <2>1
  <2>3. Answered(messages \o <<m>>)
    BY <1>5, <2>2, AnsweredMore
  <2> QED BY <2>3 DEF m
<1>7. Answered(messages')
  BY <1>2, <1>5, <1>6, MessageAppended
<1>8. QueuesHoldPrompts'
  <2>1. UserOnly(<<>>)
    BY DEF UserOnly
  <2> QED BY <1>2, <2>1 DEF AnswersInv, QueuesHoldPrompts
<1>9. Silent(loop'.todo)
  BY <1>2 DEF Silent, Event
<1> QED BY <1>2, <1>3, <1>7, <1>8, <1>9
        DEF AnswersInv, IdleAnswered, TurnAnswered, AnswerLast, CallsOfAnswer, Busy, ToolPhase

(* A run starts from an answered transcript, with prompts of the user.     *)
LEMMA AnswersStarts ==
    ASSUME AgentInv, AnswersInv, NEW prompts \in Seq(Messages), UserOnly(prompts), NEW skip \in BOOLEAN,
           StartRun(prompts, skip), UserOnly(steeringQueue'), UserOnly(followUpQueue')
    PROVE  AnswersInv'
<1>1. /\ loop'.pc \in {"initialPoll", "firstTurn"} /\ loop'.context = messages \o prompts
      /\ loop'.results = <<>> /\ loop'.pendingMessages = <<>> /\ ~activeRun
  BY StartEffect
<1>2. rejected' = rejected
  BY DEF StartRun, toolVars
<1>3. Answered(messages) /\ messages \in Seq(Messages)
  BY <1>1 DEF AgentInv, RunHasLoop, TypeOK, StateTypeOK, AnswersInv, IdleAnswered, Busy
<1>4. Answered(messages \o prompts) /\ messages \o prompts \in Seq(Messages)
  BY <1>3, UsersCallNothing, AnsweredMore
<1>5. loop'.context \o loop'.results = messages \o prompts
  BY <1>1, <1>4, ConcatEmptySeq
<1>6. TurnAnswered'
  BY <1>4, <1>5 DEF TurnAnswered
<1>7. QueuesHoldPrompts'
  <2>1. UserOnly(<<>>)
    BY DEF UserOnly
  <2> QED BY <1>1, <2>1 DEF QueuesHoldPrompts
<1> QED BY <1>1, <1>2, <1>6, <1>7
        DEF AnswersInv, IdleAnswered, AnswerLast, CallsOfAnswer, Busy, ToolPhase

(* A message of the user joins a queue.                                    *)
LEMMA UserQueued ==
    ASSUME NEW u \in UserMsgs, NEW q \in Seq(Messages), UserOnly(q)
    PROVE  UserOnly(Append(q, User(u))) /\ UserOnly(<<User(u)>>) /\ <<User(u)>> \in Seq(Messages)
<1> DEFINE m == User(u)
<1>1. m \in Messages /\ m.role = "user"
  BY MessagesTyped DEF User
<1> HIDE DEF m
<1>2. UserOnly(<<m>>) /\ <<m>> \in Seq(Messages)
  BY <1>1 DEF UserOnly
<1>3. \A i \in 1 .. Len(Append(q, m)) : Append(q, m)[i].role = "user"
  BY <1>1 DEF UserOnly
<1> QED BY <1>2, <1>3 DEF UserOnly, m

(* Calls of the public interface and steps of the tools that start no run. *)
LEMMA AnswersQuiet ==
    ASSUME AnswersInv, UNCHANGED <<loop, messages, rejected>>,
           UserOnly(steeringQueue'), UserOnly(followUpQueue')
    PROVE  AnswersInv'
<1>1. CallsOfAnswer'
  BY CallsOfAnswerKept DEF AnswersInv
<1> QED BY <1>1 DEF AnswersInv, QueuesHoldPrompts, IdleAnswered, TurnAnswered, AnswerLast, Busy, ToolPhase

(* No call of the public interface unanswers a call.                       *)
LEMMA AnswersInterface ==
    ASSUME AgentInv, AnswersInv, Interface, Reset => ~activeRun
    PROVE  AnswersInv'
<1>0. /\ steeringQueue \in Seq(Messages) /\ followUpQueue \in Seq(Messages)
      /\ UserOnly(steeringQueue) /\ UserOnly(followUpQueue)
  BY DEF AgentInv, TypeOK, InboxTypeOK, AnswersInv, QueuesHoldPrompts
<1>1. UserOnly(<<>>)
  BY DEF UserOnly
<1>2. ASSUME NEW u \in UserMsgs, Prompt(u)
      PROVE  AnswersInv'
  <2>1. <<User(u)>> \in Seq(Messages) /\ UserOnly(<<User(u)>>)
    BY <1>0, UserQueued
  <2>2. StartRun(<<User(u)>>, FALSE) /\ UNCHANGED <<steeringQueue, followUpQueue>>
    BY <1>2 DEF Prompt, inboxVars
  <2> QED BY <1>0, <2>1, <2>2, AnswersStarts
<1>3. CASE Continue
  <2>1. /\ Drained(steeringQueue) \in Seq(Messages) /\ Drained(followUpQueue) \in Seq(Messages)
        /\ <<>> \in Seq(Messages)
    BY <1>0, QueueTyped
  <2>2. /\ UserOnly(Drained(steeringQueue)) /\ UserOnly(Kept(steeringQueue))
        /\ UserOnly(Drained(followUpQueue)) /\ UserOnly(Kept(followUpQueue))
    BY <1>0, DrainedUserOnly
  <2>3. /\ \/ StartRun(<<>>, FALSE)
           \/ StartRun(Drained(steeringQueue), TRUE)
           \/ StartRun(Drained(followUpQueue), FALSE)
        /\ steeringQueue' \in {steeringQueue, Kept(steeringQueue)}
        /\ followUpQueue' \in {followUpQueue, Kept(followUpQueue)}
    BY <1>3 DEF Continue, inboxVars
  <2>4. UserOnly(steeringQueue') /\ UserOnly(followUpQueue')
    BY <1>0, <2>2, <2>3
  <2> QED BY <1>1, <2>1, <2>2, <2>3, <2>4, AnswersStarts
<1>4. ASSUME NEW u \in UserMsgs, Steer(u) \/ FollowUp(u)
      PROVE  AnswersInv'
  <2>1. UNCHANGED <<loop, messages, rejected>>
    BY <1>4 DEF Steer, FollowUp, stateVars, toolVars
  <2>2. /\ steeringQueue' \in {steeringQueue, Append(steeringQueue, User(u))}
        /\ followUpQueue' \in {followUpQueue, Append(followUpQueue, User(u))}
    BY <1>4 DEF Steer, FollowUp
  <2>3. UserOnly(Append(steeringQueue, User(u))) /\ UserOnly(Append(followUpQueue, User(u)))
    BY <1>0, UserQueued
  <2> QED BY <1>0, <2>1, <2>2, <2>3, AnswersQuiet
<1>5. CASE Abort \/ ClearAllQueues
  <2>1. UNCHANGED <<loop, messages, rejected>>
    BY <1>5 DEF Abort, ClearAllQueues, stateVars, toolVars
  <2>2. steeringQueue' \in {steeringQueue, <<>>} /\ followUpQueue' \in {followUpQueue, <<>>}
    BY <1>5 DEF Abort, ClearAllQueues, inboxVars
  <2> QED BY <1>0, <1>1, <2>1, <2>2, AnswersQuiet
<1>6. CASE Reset
  <2>1. /\ loop' = loop /\ rejected' = rejected /\ messages' = <<>> /\ steeringQueue' = <<>>
        /\ followUpQueue' = <<>> /\ loop.pc = "idle"
    BY <1>6 DEF Reset, toolVars, AgentInv, RunHasLoop
  <2>2. Answered(<<>>)
    BY DEF Answered
  <2>3. QueuesHoldPrompts'
    BY <1>1, <2>1 DEF AnswersInv, QueuesHoldPrompts
  <2> QED BY <2>1, <2>2, <2>3
          DEF AnswersInv, IdleAnswered, TurnAnswered, AnswerLast, CallsOfAnswer, Busy, ToolPhase
<1> QED BY <1>2, <1>3, <1>4, <1>5, <1>6 DEF Interface

(* Every step keeps the calls answered when no listener throws.            *)
LEMMA AnswersStep ==
    ASSUME ListenersFail = FALSE, AgentInv, MirrorInv, PendingInv, AnswersInv, [Next]_vars,
           [Reset => ~activeRun]_vars
    PROVE  AnswersInv'
<1>1. CASE Interface /\ (Reset => ~activeRun)
  BY <1>1, AnswersInterface
<1>2. CASE Emit
  BY <1>2, AnswersEmitted
<1>3. CASE InitialPoll \/ PollSteering \/ PollFollowUp
  BY <1>3, AnswersQueues
<1>4. CASE InjectPending
  BY <1>4, AnswersInjected
<1>5. CASE Request \/ StreamStart
  BY <1>5, AnswersAsked
<1>6. ASSUME NEW n \in 0 .. MaxCalls, NEW stop \in StopReasons, StreamDone(n, stop)
      PROVE  AnswersInv'
  BY <1>6, AnswersResponse
<1>7. CASE Responded
  BY <1>7, AnswersResponded
<1>8. CASE StartCall \/ LaunchPrepared
  BY <1>8, AnswersStarted
<1>9. CASE ImmediateOutcome
  BY <1>9, AnswersImmediate
<1>10. CASE PreparedCall
  BY <1>10, AnswersPrepared
<1>11. CASE FinalizeCall
  BY <1>11, AnswersFinalized
<1>12. CASE CallsExecuted
  BY <1>12, AnswersExecuted
<1>13. CASE TurnEnd
  BY <1>13, AnswersTurnEnd
<1>14. CASE FinishRun
  BY <1>14, AnswersEnd
<1>15. CASE StreamThrows \/ CallRejected \/ ListenerThrows
  BY <1>15, AnswersFailed
<1>16. CASE FailureListenerThrows
  BY <1>16 DEF FailureListenerThrows
<1>17. CASE ToolStep \/ UNCHANGED vars
  <2>1. UNCHANGED <<loop, messages, rejected, steeringQueue, followUpQueue>>
    BY <1>17 DEF ToolStep, ToolSettles, UpdateRejected, OrphanUpdate, OrphanSettles, vars, stateVars,
                 inboxVars, toolVars
  <2> QED BY <2>1, AnswersQuiet DEF AnswersInv, QueuesHoldPrompts
<1>18. UNCHANGED vars \/ (Next /\ (Reset => ~activeRun))
  OBVIOUS
<1> QED BY <1>1, <1>2, <1>3, <1>4, <1>5, <1>6, <1>7, <1>8, <1>9, <1>10, <1>11, <1>12, <1>13, <1>14,
           <1>15, <1>16, <1>17, <1>18 DEF Next, LoopStep

(* Before the first run there is nothing to answer.                        *)
LEMMA AnswersInit == Init => AnswersInv
<1> SUFFICES ASSUME Init PROVE AnswersInv
  OBVIOUS
<1>1. /\ messages = <<>> /\ steeringQueue = <<>> /\ followUpQueue = <<>> /\ rejected = {}
      /\ loop.pc = "idle" /\ loop.todo = <<>> /\ loop.pendingMessages = <<>>
  BY DEF Init, IdleLoop
<1>2. UserOnly(<<>>) /\ Answered(<<>>) /\ Silent(<<>>)
  BY DEF UserOnly, Answered, Silent
<1> QED BY <1>1, <1>2 DEF AnswersInv, QueuesHoldPrompts, IdleAnswered, TurnAnswered, AnswerLast,
                          CallsOfAnswer, Busy, ToolPhase

(* When the model is asked, the transcript is answered.                    *)
LEMMA AskedAnswered ==
    ASSUME AgentInv, MirrorInv, AnswersInv, loop.pc = "requested",
           NEW i \in 1 .. Len(messages), RespondedWithCalls(i)
    PROVE  AnsweredAt(messages, i) /\ messages[i].calls \in Nat /\ messages \in Seq(Messages)
<1>1. Busy /\ ~ToolPhase /\ loop.pc \notin ResultPhases /\ loop.todo = <<>>
  BY DEF Busy, ToolPhase, ResultPhases, MirrorInv, AskedQuietly
<1>2. Answered(messages)
  BY <1>1, AtRest DEF AnswersInv, TurnAnswered
<1>3. messages \in Seq(Messages)
  BY DEF AgentInv, TypeOK, StateTypeOK
<1>4. messages[i] \in Messages
  BY <1>3
<1>5. messages[i].calls \in Nat
  BY <1>4 DEF Messages
<1> QED BY <1>2, <1>3, <1>5 DEF Answered, HasCalls, RespondedWithCalls

(* When no listener throws and reset() is not called during a run, the     *)
(* model is never asked while a call lacks its result: each call of each   *)
(* earlier response has one, and they follow the response directly,        *)
(* however calls fail, overlap, are steered in between or aborted.         *)
THEOREM EveryCallAnsweredHolds ==
    ASSUME ListenersFail = FALSE
    PROVE  Spec /\ ResetsBetweenRuns => []EveryCallAnswered
<1>1. AgentInv /\ MirrorInv /\ AnswersInv => EveryCallAnswered
  <2> SUFFICES ASSUME AgentInv, MirrorInv, AnswersInv, loop.pc = "requested",
                      NEW i \in 1 .. Len(messages), RespondedWithCalls(i)
               PROVE  LET n == messages[i].calls
                      IN  /\ i + n <= Len(messages)
                          /\ {ResultIds(i, n)[k] : k \in 1 .. n} = {CallsAt(i)[k] : k \in 1 .. n}
    BY DEF EveryCallAnswered
  <2> DEFINE n == messages[i].calls
  <2>1. /\ i + n <= Len(messages)
        /\ \A k \in 1 .. n : \E j \in 1 .. n : messages[i + j].id = CallOf(messages[i], k)
        /\ \A j \in 1 .. n : \E k \in 1 .. n : messages[i + j].id = CallOf(messages[i], k)
    BY AskedAnswered DEF AnsweredAt
  <2>2. /\ \A k \in 1 .. n : ResultIds(i, n)[k] = messages[i + k].id
        /\ \A k \in 1 .. n : CallsAt(i)[k] = CallOf(messages[i], k)
    BY DEF ResultIds, CallsAt, CallOf
  <2> HIDE DEF n
  <2>3. {ResultIds(i, n)[k] : k \in 1 .. n} = {CallsAt(i)[k] : k \in 1 .. n}
    <3> DEFINE R(k) == ResultIds(i, n)[k]
               C(k) == CallsAt(i)[k]
    <3>1. /\ \A k \in 1 .. n : \E j \in 1 .. n : R(j) = C(k)
          /\ \A j \in 1 .. n : \E k \in 1 .. n : R(j) = C(k)
      <4>1. ASSUME NEW k \in 1 .. n PROVE \E j \in 1 .. n : R(j) = C(k)
        <5>1. PICK j \in 1 .. n : messages[i + j].id = CallOf(messages[i], k)
          BY <2>1
        <5>2. R(j) = C(k)
          BY <2>2, <5>1
        <5> QED BY <5>2
      <4>2. ASSUME NEW j \in 1 .. n PROVE \E k \in 1 .. n : R(j) = C(k)
        <5>1. PICK k \in 1 .. n : messages[i + j].id = CallOf(messages[i], k)
          BY <2>1
        <5>2. R(j) = C(k)
          BY <2>2, <5>1
        <5> QED BY <5>2
      <4> QED BY <4>1, <4>2
    <3> HIDE DEF R, C
    <3>2. {R(k) : k \in 1 .. n} = {C(k) : k \in 1 .. n}
      BY <3>1
    <3> QED BY <3>2 DEF R, C
  <2> QED BY <2>1, <2>3 DEF n
<1>2. AgentInv /\ MirrorInv /\ [Next]_vars /\ [Reset => ~activeRun]_vars => MirrorInv'
  BY MirrorStep
<1>3. AgentInv /\ PendingInv /\ [Next]_vars /\ [Reset => ~activeRun]_vars => PendingInv'
  BY PendingStep
<1>4. AgentInv /\ MirrorInv /\ PendingInv /\ AnswersInv /\ [Next]_vars /\ [Reset => ~activeRun]_vars
        => AnswersInv'
  BY AnswersStep
<1> QED BY <1>1, <1>2, <1>3, <1>4, MirrorInit, PendingInit, AnswersInit, AgentInvariant, PTL
        DEF Spec, ResetsBetweenRuns

(* In sequential mode the results also come in the order of the calls.     *)
THEOREM ResultsInSourceOrderHolds ==
    ASSUME ListenersFail = FALSE, ToolExecution = "sequential"
    PROVE  Spec /\ ResetsBetweenRuns => []ResultsInSourceOrder
<1>1. AgentInv /\ MirrorInv /\ AnswersInv => ResultsInSourceOrder
  <2> SUFFICES ASSUME AgentInv, MirrorInv, AnswersInv, loop.pc = "requested",
                      NEW i \in 1 .. Len(messages), RespondedWithCalls(i)
               PROVE  ResultIds(i, messages[i].calls) = CallsAt(i)
    BY DEF ResultsInSourceOrder
  <2>1. \A k \in 1 .. messages[i].calls : messages[i + k].id = CallOf(messages[i], k)
    BY AskedAnswered DEF AnsweredAt
  <2> QED BY <2>1 DEF ResultIds, CallsAt, CallOf
<1>2. AgentInv /\ MirrorInv /\ [Next]_vars /\ [Reset => ~activeRun]_vars => MirrorInv'
  BY MirrorStep
<1>3. AgentInv /\ PendingInv /\ [Next]_vars /\ [Reset => ~activeRun]_vars => PendingInv'
  BY PendingStep
<1>4. AgentInv /\ MirrorInv /\ PendingInv /\ AnswersInv /\ [Next]_vars /\ [Reset => ~activeRun]_vars
        => AnswersInv'
  BY AnswersStep
<1> QED BY <1>1, <1>2, <1>3, <1>4, MirrorInit, PendingInit, AnswersInit, AgentInvariant, PTL
        DEF Spec, ResetsBetweenRuns
----------------------------------------------------------------------------
(* The contract of a run.  The last event of a response or of a call       *)
(* announces its message; agent_end is the last event of a run; a turn     *)
(* that is asked for or polled announces messages of the user only.        *)
AnswerPhases == ResultPhases \cup {"responded"}
EndPhases    == {"finish", "failing"}

EventsOfPhase ==
    \A i \in 1 .. Len(loop.todo) :
        /\ loop.todo[i].type = "agent_end" <=> loop.pc \in EndPhases /\ i = Len(loop.todo)
        /\ loop.todo[i].type = "message_end" =>
             \/ Speaking /\ loop.todo[i].message.role = "user"
             \/ loop.pc = "responded" /\ loop.todo[i].message = loop.assistant
             \/ /\ ToolPhase
                /\ loop.todo[i].message.role = "toolResult"
                /\ loop.todo[i].message.id[1] = loop.assistant.id[1]
        /\ loop.pc \in AnswerPhases /\ loop.todo[i].type = "message_end" => i = Len(loop.todo)
        /\ loop.pc = "responded" /\ i = Len(loop.todo) => loop.todo[i].type = "message_end"

EndIsLast == activeRun => (ended <=> loop.pc \in EndPhases /\ loop.todo = <<>>)

(* A turn that goes on does so after an answer that did not fail.          *)
AnswerGood ==
    /\ loop.pc \in ResultPhases \cup {"pollSteering", "pollFollowUp"} => ~Failed(loop.assistant)
    /\ loop.pc = "responded" => loop.assistant.calls <= MaxCalls
    /\ loop.pc = "turnEnd" => Len(loop.results) = loop.assistant.calls

(* The results still to be announced: at most one.                         *)
Unannounced == IF \E i \in 1 .. Len(loop.todo) : loop.todo[i].type = "message_end" THEN 1 ELSE 0

Answering == HasCalls(loop.assistant) /\ (loop.pc \in ResultPhases \/ (loop.pc = "responded" /\ loop.todo = <<>>))

(* What the transcript lacks is what the loop has yet to collect and what  *)
(* it has yet to announce.                                                 *)
AnswerAnnounced ==
    \E i \in 1 .. Len(messages) :
        /\ LastAnswer = {i} /\ messages[i] = loop.assistant
        /\ Cardinality(ResultsAfter(i)) = Len(loop.results) - Unannounced

OwedIs == IF Answering THEN AnswerAnnounced ELSE Owed = 0

OwedInv == EventsOfPhase /\ EndIsLast /\ AnswerGood /\ OwedIs

(* What a longer transcript has is what the shorter one had, and one more. *)
LEMMA TranscriptGrows ==
    ASSUME messages \in Seq(Messages), NEW m \in Messages, messages' = Append(messages, m)
    PROVE  /\ Len(messages) \in Nat /\ Len(messages') = Len(messages) + 1
           /\ \A i \in 1 .. Len(messages) : messages'[i] = messages[i]
           /\ messages'[Len(messages) + 1] = m
OBVIOUS

(* What the last answer lacks, when there is one.                          *)
LEMMA OwedOf ==
    /\ LastAnswer = {} => Owed = 0
    /\ \A i : LastAnswer = {i} => Owed = messages[i].calls - Cardinality(ResultsAfter(i))
<1>1. ASSUME NEW i, LastAnswer = {i}
      PROVE  Owed = messages[i].calls - Cardinality(ResultsAfter(i))
  <2>1. LastAnswer # {} /\ (CHOOSE j \in LastAnswer : TRUE) = i
    BY <1>1
  <2> QED BY <2>1 DEF Owed
<1> QED BY <1>1 DEF Owed

(* A message of the user changes nothing of it.                            *)
LEMMA UserAppended ==
    ASSUME messages \in Seq(Messages), NEW m \in Messages, messages' = Append(messages, m), m.role = "user"
    PROVE  LastAnswer' = LastAnswer /\ Owed' = Owed
<1>0. PICK n \in Nat : n = Len(messages)
  BY TranscriptGrows
<1>1. /\ n \in Nat /\ Len(messages') = n + 1
      /\ \A i \in 1 .. n : messages'[i] = messages[i]
      /\ messages'[n + 1] = m
  BY <1>0, TranscriptGrows
<1>2. LastAnswer = {i \in 1 .. n : RespondedWithCalls(i) /\ \A j \in i + 1 .. n : messages[j].role # "assistant"}
  BY <1>0 DEF LastAnswer
<1>3. LastAnswer' = {i \in 1 .. n + 1 : RespondedWithCalls(i)' /\ \A j \in i + 1 .. n + 1 : messages'[j].role # "assistant"}
  BY <1>1 DEF LastAnswer
<1>4. \A i \in 1 .. n : RespondedWithCalls(i)' <=> RespondedWithCalls(i)
  BY <1>1 DEF RespondedWithCalls
<1>5. ~RespondedWithCalls(n + 1)'
  BY <1>1 DEF RespondedWithCalls
<1>6. \A i \in LastAnswer' : i \in LastAnswer
  <2> TAKE i \in LastAnswer'
  <2>1. /\ i \in 1 .. n + 1 /\ RespondedWithCalls(i)'
        /\ \A j \in i + 1 .. n + 1 : messages'[j].role # "assistant"
    BY <1>3
  <2>2. i \in 1 .. n
    BY <1>1, <1>5, <2>1
  <2>3. \A j \in i + 1 .. n : messages[j].role # "assistant"
    BY <1>1, <2>1, <2>2
  <2> QED BY <1>2, <1>4, <2>1, <2>2, <2>3
<1>7. \A i \in LastAnswer : i \in LastAnswer'
  <2> TAKE i \in LastAnswer
  <2>1. /\ i \in 1 .. n /\ RespondedWithCalls(i)
        /\ \A j \in i + 1 .. n : messages[j].role # "assistant"
    BY <1>2
  <2>2. \A j \in i + 1 .. n + 1 : messages'[j].role # "assistant"
    <3> TAKE j \in i + 1 .. n + 1
    <3>1. CASE j = n + 1
      BY <1>1, <3>1
    <3>2. CASE j # n + 1
      <4>1. j \in i + 1 .. n /\ j \in 1 .. n
        BY <1>1, <2>1, <3>2
      <4> QED BY <1>1, <2>1, <4>1
    <3> QED BY <3>1, <3>2
  <2> QED BY <1>1, <1>3, <1>4, <2>1, <2>2
<1>8. LastAnswer' = LastAnswer
  BY <1>6, <1>7
<1>9. \A i \in 1 .. n : ResultsAfter(i)' = ResultsAfter(i)
  <2> TAKE i \in 1 .. n
  <2>1. ResultsAfter(i) = {j \in i + 1 .. n : messages[j].role = "toolResult" /\ messages[j].id[1] = messages[i].id[1]}
    BY <1>0 DEF ResultsAfter
  <2>2. ResultsAfter(i)' = {j \in i + 1 .. n + 1 : messages'[j].role = "toolResult" /\ messages'[j].id[1] = messages[i].id[1]}
    BY <1>1 DEF ResultsAfter
  <2>3. \A j \in i + 1 .. n : messages'[j] = messages[j] /\ j \in i + 1 .. n + 1
    BY <1>1
  <2>4. \A j \in i + 1 .. n + 1 : j \in i + 1 .. n \/ j = n + 1
    BY <1>1
  <2> QED BY <1>1, <2>1, <2>2, <2>3, <2>4
<1>10. CASE LastAnswer = {}
  BY <1>8, <1>10 DEF Owed
<1>11. CASE LastAnswer # {}
  <2>1. PICK i \in LastAnswer : i = CHOOSE k \in LastAnswer : TRUE
    BY <1>11
  <2>2. i \in 1 .. n
    BY <1>2, <2>1
  <2>3. Owed = messages[i].calls - Cardinality(ResultsAfter(i))
    BY <1>11, <2>1 DEF Owed
  <2>4. LastAnswer' # {} /\ (CHOOSE k \in LastAnswer' : TRUE) = i
    BY <1>8, <1>11, <2>1, Zenon
  <2>5. Owed' = messages'[i].calls - Cardinality(ResultsAfter(i)')
    BY <2>4 DEF Owed
  <2> QED BY <1>1, <1>8, <1>9, <2>2, <2>3, <2>5
<1> QED BY <1>8, <1>10, <1>11

(* An assistant message is the last answer if it has calls and has not     *)
(* failed; otherwise there is none.                                        *)
LEMMA AssistantAppended ==
    ASSUME messages \in Seq(Messages), NEW m \in Messages, messages' = Append(messages, m),
           m.role = "assistant"
    PROVE  /\ ~HasCalls(m) => Owed' = 0
           /\ HasCalls(m) => /\ Owed' = m.calls
                             /\ \E i \in 1 .. Len(messages') :
                                  /\ LastAnswer' = {i} /\ messages'[i] = m
                                  /\ Cardinality(ResultsAfter(i)') = 0
<1>0. PICK n \in Nat : n = Len(messages)
  BY TranscriptGrows
<1>1. /\ n \in Nat /\ Len(messages') = n + 1
      /\ messages'[n + 1] = m
  BY <1>0, TranscriptGrows
<1>2. LastAnswer' = {i \in 1 .. n + 1 : RespondedWithCalls(i)' /\ \A j \in i + 1 .. n + 1 : messages'[j].role # "assistant"}
  BY <1>1 DEF LastAnswer
<1>3. RespondedWithCalls(n + 1)' <=> HasCalls(m)
  BY <1>1 DEF RespondedWithCalls, HasCalls
<1>4. \A i \in 1 .. n : n + 1 \in i + 1 .. n + 1
  BY <1>1
<1>5. \A i \in LastAnswer' : i = n + 1
  BY <1>1, <1>2, <1>4
<1>6. \A j : j \notin (n + 1) + 1 .. n + 1
  BY <1>1
<1>7. n + 1 \in LastAnswer' <=> HasCalls(m)
  BY <1>1, <1>2, <1>3, <1>6
<1>8. ASSUME ~HasCalls(m)
      PROVE  Owed' = 0
  <2>1. LastAnswer' = {}
    BY <1>5, <1>7, <1>8
  <2> QED BY <2>1 DEF Owed
<1>9. ASSUME HasCalls(m)
      PROVE  /\ LastAnswer' = {n + 1} /\ messages'[n + 1] = m /\ n + 1 \in 1 .. n + 1
             /\ Cardinality(ResultsAfter(n + 1)') = 0 /\ Owed' = m.calls
  <2>1. LastAnswer' = {n + 1}
    BY <1>5, <1>7, <1>9
  <2>2. ResultsAfter(n + 1)' = {j \in (n + 1) + 1 .. n + 1 : messages'[j].role = "toolResult" /\ messages'[j].id[1] = m.id[1]}
    BY <1>1 DEF ResultsAfter
  <2>3. ResultsAfter(n + 1)' = {}
    BY <1>6, <2>2
  <2>4. Cardinality(ResultsAfter(n + 1)') = 0
    BY <2>3, FS_EmptySet
  <2>5. LastAnswer' # {} /\ (CHOOSE j \in LastAnswer' : TRUE) = n + 1
    BY <2>1
  <2>6. Owed' = messages'[n + 1].calls - Cardinality(ResultsAfter(n + 1)')
    BY <2>5 DEF Owed
  <2>7. m.calls \in Nat
    BY DEF Messages
  <2> QED BY <1>1, <2>1, <2>4, <2>6, <2>7
<1> QED BY <1>0, <1>1, <1>8, <1>9

(* A result of the last answer is one more of them.                        *)
LEMMA ResultAppended ==
    ASSUME messages \in Seq(Messages), NEW m \in Messages, messages' = Append(messages, m),
           m.role = "toolResult", NEW i \in 1 .. Len(messages), LastAnswer = {i},
           m.id[1] = messages[i].id[1]
    PROVE  /\ LastAnswer' = {i} /\ messages'[i] = messages[i] /\ i \in 1 .. Len(messages')
           /\ Cardinality(ResultsAfter(i)') = Cardinality(ResultsAfter(i)) + 1
           /\ Cardinality(ResultsAfter(i)) \in Nat
           /\ Owed' = messages[i].calls - (Cardinality(ResultsAfter(i)) + 1)
<1>0. PICK n \in Nat : n = Len(messages)
  BY TranscriptGrows
<1>1. /\ n \in Nat /\ Len(messages') = n + 1 /\ i \in 1 .. n
      /\ \A k \in 1 .. n : messages'[k] = messages[k]
      /\ messages'[n + 1] = m
  BY <1>0, TranscriptGrows
<1>2. LastAnswer = {k \in 1 .. n : RespondedWithCalls(k) /\ \A j \in k + 1 .. n : messages[j].role # "assistant"}
  BY <1>0 DEF LastAnswer
<1>3. LastAnswer' = {k \in 1 .. n + 1 : RespondedWithCalls(k)' /\ \A j \in k + 1 .. n + 1 : messages'[j].role # "assistant"}
  BY <1>1 DEF LastAnswer
<1>4. \A k \in 1 .. n : RespondedWithCalls(k)' <=> RespondedWithCalls(k)
  BY <1>1 DEF RespondedWithCalls
<1>5. ~RespondedWithCalls(n + 1)'
  BY <1>1 DEF RespondedWithCalls
<1>6. \A k \in LastAnswer' : k \in LastAnswer
  <2> TAKE k \in LastAnswer'
  <2>1. /\ k \in 1 .. n + 1 /\ RespondedWithCalls(k)'
        /\ \A j \in k + 1 .. n + 1 : messages'[j].role # "assistant"
    BY <1>3
  <2>2. k \in 1 .. n
    BY <1>1, <1>5, <2>1
  <2>3. \A j \in k + 1 .. n : messages[j].role # "assistant"
    BY <1>1, <2>1, <2>2
  <2> QED BY <1>2, <1>4, <2>1, <2>2, <2>3
<1>7. i \in LastAnswer'
  <2>1. RespondedWithCalls(i) /\ \A j \in i + 1 .. n : messages[j].role # "assistant"
    BY <1>2
  <2>2. \A j \in i + 1 .. n + 1 : messages'[j].role # "assistant"
    <3> TAKE j \in i + 1 .. n + 1
    <3>1. CASE j = n + 1
      BY <1>1, <3>1
    <3>2. CASE j # n + 1
      <4>1. j \in i + 1 .. n /\ j \in 1 .. n
        BY <1>1, <3>2
      <4> QED BY <1>1, <2>1, <4>1
    <3> QED BY <3>1, <3>2
  <2> QED BY <1>1, <1>3, <1>4, <2>1, <2>2
<1>8. LastAnswer' = {i}
  BY <1>6, <1>7
<1>9. ResultsAfter(i) = {j \in i + 1 .. n : messages[j].role = "toolResult" /\ messages[j].id[1] = messages[i].id[1]}
  BY <1>0 DEF ResultsAfter
<1>10. ResultsAfter(i)' = {j \in i + 1 .. n + 1 : messages'[j].role = "toolResult" /\ messages'[j].id[1] = messages[i].id[1]}
  BY <1>1 DEF ResultsAfter
<1>11. ResultsAfter(i)' = ResultsAfter(i) \cup {n + 1} /\ n + 1 \notin ResultsAfter(i)
  <2>1. \A j \in i + 1 .. n : messages'[j] = messages[j] /\ j \in i + 1 .. n + 1
    BY <1>1
  <2>2. \A j \in i + 1 .. n + 1 : j \in i + 1 .. n \/ j = n + 1
    BY <1>1
  <2>3. n + 1 \in i + 1 .. n + 1 /\ n + 1 \notin i + 1 .. n
    BY <1>1
  <2> QED BY <1>1, <1>9, <1>10, <2>1, <2>2, <2>3
<1>12. IsFiniteSet(ResultsAfter(i))
  <2>1. i + 1 \in Int /\ n \in Int
    BY <1>1
  <2>2. IsFiniteSet(i + 1 .. n)
    BY <2>1, FS_Interval
  <2>3. ResultsAfter(i) \subseteq i + 1 .. n
    BY <1>9
  <2> QED BY <2>2, <2>3, FS_Subset
<1>13. Cardinality(ResultsAfter(i)') = Cardinality(ResultsAfter(i)) + 1 /\ Cardinality(ResultsAfter(i)) \in Nat
  BY <1>11, <1>12, FS_AddElement, FS_CardinalityType
<1>14. LastAnswer' # {} /\ (CHOOSE j \in LastAnswer' : TRUE) = i
  BY <1>8
<1>15. Owed' = messages'[i].calls - Cardinality(ResultsAfter(i)')
  BY <1>14 DEF Owed
<1> QED BY <1>1, <1>8, <1>13, <1>15

(* The same transcript lacks the same results.                             *)
LEMMA TranscriptSame ==
    ASSUME messages' = messages
    PROVE  /\ LastAnswer' = LastAnswer /\ Owed' = Owed
           /\ \A i : ResultsAfter(i)' = ResultsAfter(i)
<1>1. \A i : RespondedWithCalls(i)' <=> RespondedWithCalls(i)
  BY DEF RespondedWithCalls
<1>2. LastAnswer' = LastAnswer
  BY <1>1 DEF LastAnswer
<1>3. \A i : ResultsAfter(i)' = ResultsAfter(i)
  BY DEF ResultsAfter
<1>4. CASE LastAnswer = {}
  BY <1>2, <1>3, <1>4 DEF Owed
<1>5. CASE LastAnswer # {}
  <2>1. PICK i \in LastAnswer : i = CHOOSE k \in LastAnswer : TRUE
    BY <1>5
  <2>2. LastAnswer' # {} /\ (CHOOSE k \in LastAnswer' : TRUE) = i
    BY <1>2, <1>5, <2>1, Zenon
  <2>3. Owed = messages[i].calls - Cardinality(ResultsAfter(i))
    BY <1>5, <2>1 DEF Owed
  <2>4. Owed' = messages'[i].calls - Cardinality(ResultsAfter(i)')
    BY <2>2 DEF Owed
  <2>5. Owed' = Owed
    BY <1>3, <2>3, <2>4
  <2> QED BY <1>2, <1>3, <2>5
<1> QED BY <1>4, <1>5

(* Before the first message nothing is owed.                               *)
LEMMA NothingOwed ==
    /\ messages = <<>> => Owed = 0
    /\ messages' = <<>> => Owed' = 0
<1>1. ASSUME messages = <<>> PROVE Owed = 0
  <2>1. \A i : i \notin 1 .. Len(messages)
    BY <1>1
  <2>2. LastAnswer = {}
    BY <2>1 DEF LastAnswer
  <2> QED BY <2>2 DEF Owed
<1>2. ASSUME messages' = <<>> PROVE Owed' = 0
  <2>1. \A i : i \notin 1 .. Len(messages')
    BY <1>2
  <2>2. LastAnswer' = {}
    BY <2>1 DEF LastAnswer
  <2> QED BY <2>2 DEF Owed
<1> QED BY <1>1, <1>2

(* Events that announce messages of the user.                              *)
UserEvents(todo) ==
    \A i \in 1 .. Len(todo) :
        todo[i].type # "agent_end" /\ (todo[i].type = "message_end" => todo[i].message.role = "user")

LEMMA UsersAnnounced ==
    ASSUME NEW ms \in Seq(Messages), UserOnly(ms), NEW prologue \in Seq(Events), UserEvents(prologue)
    PROVE  UserEvents(prologue \o AnnounceAll(ms))
<1> DEFINE a == AnnounceAll(ms)
           p == Len(prologue)
<1>1. a \in Seq(Events) /\ Len(a) = 2 * Len(ms) /\ Len(ms) \in Nat
  BY AnnounceAllTyped DEF AnnounceAll
<1>2. \A i \in 1 .. Len(a) : a[i].type # "agent_end" /\ a[i].message.role = "user"
  <2> TAKE i \in 1 .. Len(a)
  <2>1. (i + 1) \div 2 \in 1 .. Len(ms)
    BY <1>1
  <2>2. a[i] = Event(IF i % 2 = 1 THEN "message_start" ELSE "message_end", ms[(i + 1) \div 2])
    BY <1>1 DEF AnnounceAll
  <2>3. ms[(i + 1) \div 2].role = "user"
    BY <2>1 DEF UserOnly
  <2> HIDE DEF a
  <2> QED BY <2>2, <2>3 DEF Event
<1> HIDE DEF a
<1>3. ASSUME NEW i \in 1 .. Len(prologue \o a)
      PROVE  /\ (prologue \o a)[i].type # "agent_end"
             /\ (prologue \o a)[i].type = "message_end" => (prologue \o a)[i].message.role = "user"
  <2>1. p \in Nat /\ Len(a) \in Nat /\ Len(prologue \o a) = p + Len(a)
    BY <1>1
  <2>2. CASE i <= p
    <3>1. i \in 1 .. p /\ (prologue \o a)[i] = prologue[i]
      BY <1>1, <2>1, <2>2
    <3> QED BY <3>1 DEF UserEvents
  <2>3. CASE ~(i <= p)
    <3>1. i - p \in 1 .. Len(a) /\ (prologue \o a)[i] = a[i - p]
      BY <1>1, <2>1, <2>3
    <3> QED BY <1>2, <3>1
  <2> QED BY <2>2, <2>3
<1> QED BY <1>3 DEF UserEvents, a

(* A turn announces its prompts.                                           *)
LEMMA SpeakingEvents ==
    ASSUME Speaking', UserEvents(loop'.todo)
    PROVE  EventsOfPhase'
BY DEF EventsOfPhase, UserEvents, Speaking, EndPhases, AnswerPhases, ResultPhases

(* Without events every phase is in order.                                 *)
LEMMA NoEvents ==
    ASSUME loop'.todo = <<>>
    PROVE  EventsOfPhase' /\ Unannounced' = 0
<1>1. \A i : i \notin 1 .. Len(loop'.todo)
  OBVIOUS
<1> QED BY <1>1 DEF EventsOfPhase, Unannounced

(* A step that leaves the transcript alone while nothing is owed.          *)
LEMMA OwedNothing ==
    ASSUME Owed = 0, messages' = messages, EventsOfPhase', EndIsLast', AnswerGood',
           loop'.pc \notin ResultPhases, loop'.pc = "responded" => loop'.todo # <<>>
    PROVE  OwedInv' /\ Owed' = 0
<1>1. Owed' = 0
  BY TranscriptSame
<1>2. ~Answering'
  BY DEF Answering
<1> QED BY <1>1, <1>2 DEF OwedInv, OwedIs

(* A step that leaves the transcript alone while an answer is answered.    *)
LEMMA OwedSame ==
    ASSUME AgentInv, OwedInv, messages' = messages, UNCHANGED <<activeRun, ended>>, EventsOfPhase',
           \/ loop.pc \in ResultPhases
           \/ loop.pc = "responded" /\ loop.todo = <<>> /\ ~Failed(loop.assistant),
           loop'.pc \in ResultPhases, loop'.assistant = loop.assistant,
           Len(loop'.results) - Unannounced' = Len(loop.results) - Unannounced,
           loop'.pc = "turnEnd" => Len(loop'.results) = loop.assistant.calls
    PROVE  OwedInv' /\ UNCHANGED <<Stage, Owed>>
<1>1. ~Failed(loop.assistant)
  BY DEF OwedInv, AnswerGood
<1>2. loop.pc # "idle" /\ loop'.pc # "idle" /\ activeRun
  BY DEF AgentInv, RunHasLoop, ResultPhases
<1>3. ~ended
  BY <1>2 DEF OwedInv, EndIsLast, EndPhases, ResultPhases
<1>4. EndIsLast' /\ AnswerGood'
  BY <1>1, <1>2, <1>3 DEF EndIsLast, AnswerGood, EndPhases, ResultPhases, Failed
<1>5. /\ LastAnswer' = LastAnswer /\ Owed' = Owed
      /\ \A i : ResultsAfter(i)' = ResultsAfter(i)
  BY TranscriptSame
<1>6. Answering' <=> Answering
  BY DEF Answering, HasCalls, Failed
<1>7. OwedIs'
  <2>1. CASE Answering
    <3>1. PICK i \in 1 .. Len(messages) :
             /\ LastAnswer = {i} /\ messages[i] = loop.assistant
             /\ Cardinality(ResultsAfter(i)) = Len(loop.results) - Unannounced
      BY <2>1 DEF OwedInv, OwedIs, AnswerAnnounced
    <3>2. Cardinality(ResultsAfter(i)') = Len(loop'.results) - Unannounced'
      BY <1>5, <3>1
    <3>3. AnswerAnnounced'
      BY <1>5, <3>1, <3>2 DEF AnswerAnnounced
    <3> QED BY <1>6, <2>1, <3>3 DEF OwedIs
  <2>2. CASE ~Answering
    BY <1>5, <1>6, <2>2 DEF OwedInv, OwedIs
  <2> QED BY <2>1, <2>2
<1>8. Stage = "answered" /\ Stage' = "answered"
  BY <1>1, <1>2, <1>3 DEF Stage, Speaking, Asked, ResultPhases, Failed
<1> QED BY <1>4, <1>5, <1>7, <1>8 DEF OwedInv

(* Outside the two last phases a run has not announced its end.            *)
LEMMA RunGoesOn ==
    ASSUME AgentInv, OwedInv, loop.pc # "idle", loop.pc \notin EndPhases \/ loop.todo # <<>>
    PROVE  activeRun /\ ~ended
BY DEF AgentInv, RunHasLoop, OwedInv, EndIsLast

(* Outside the answer to a response nothing is owed.                       *)
LEMMA NoneOwed ==
    ASSUME OwedInv, loop.pc \notin ResultPhases, loop.pc = "responded" => loop.todo # <<>>
    PROVE  Owed = 0
BY DEF OwedInv, OwedIs, Answering

(* Steps that touch neither the loop nor the transcript nor the run.       *)
LEMMA OwedQuiet ==
    ASSUME OwedInv, UNCHANGED <<loop, messages, activeRun, ended>>
    PROVE  OwedInv' /\ UNCHANGED <<Stage, Owed>>
<1>1. /\ LastAnswer' = LastAnswer /\ Owed' = Owed
      /\ \A i : ResultsAfter(i)' = ResultsAfter(i)
  BY TranscriptSame
<1>2. Stage' = Stage
  BY DEF Stage, Speaking, Asked
<1>3. EventsOfPhase' /\ EndIsLast' /\ AnswerGood'
  BY DEF OwedInv, EventsOfPhase, EndIsLast, AnswerGood, Speaking, ToolPhase
<1>4. (Answering' <=> Answering) /\ Unannounced' = Unannounced
  BY DEF Answering, Unannounced
<1>5. CASE Answering
  <2>1. PICK i \in 1 .. Len(messages) :
           /\ LastAnswer = {i} /\ messages[i] = loop.assistant
           /\ Cardinality(ResultsAfter(i)) = Len(loop.results) - Unannounced
    BY <1>5 DEF OwedInv, OwedIs, AnswerAnnounced
  <2>2. Cardinality(ResultsAfter(i)') = Len(loop'.results) - Unannounced'
    BY <1>1, <1>4, <2>1
  <2>3. AnswerAnnounced'
    BY <1>1, <2>1, <2>2 DEF AnswerAnnounced
  <2> QED BY <1>1, <1>2, <1>3, <1>4, <1>5, <2>3 DEF OwedInv, OwedIs
<1>6. CASE ~Answering
  BY <1>1, <1>2, <1>3, <1>4, <1>6 DEF OwedInv, OwedIs
<1> QED BY <1>5, <1>6

(* A run begins (prompt, continue).                                        *)
LEMMA OwedStarts ==
    ASSUME AgentInv, OwedInv, NEW prompts \in Seq(Messages), UserOnly(prompts), NEW skip \in BOOLEAN,
           StartRun(prompts, skip)
    PROVE  OwedInv' /\ Contract!BeginRun
<1> DEFINE prologue == <<Event("agent_start", NoMessage), Event("turn_start", NoMessage)>>
<1>1. prologue \in Seq(Events) /\ UserEvents(prologue)
  <2>1. Event("agent_start", NoMessage) \in Events /\ Event("turn_start", NoMessage) \in Events
    BY EventTyped, MessagesTyped DEF EventTypes
  <2>2. \A i \in 1 .. Len(prologue) : prologue[i].type \in {"agent_start", "turn_start"}
    BY DEF Event
  <2> QED BY <2>1, <2>2 DEF UserEvents
<1>2. /\ loop'.pc \in {"initialPoll", "firstTurn"} /\ loop'.todo = prologue \o AnnounceAll(prompts)
      /\ messages' = messages /\ ~activeRun
  BY StartEffect
<1> HIDE DEF prologue
<1>3. ended' = FALSE /\ activeRun'
  BY DEF StartRun
<1>4. loop.pc = "idle"
  BY <1>2 DEF AgentInv, RunHasLoop
<1>5. Owed = 0
  BY <1>4, NoneOwed DEF ResultPhases
<1>6. Speaking'
  BY <1>2 DEF Speaking
<1>7. EventsOfPhase'
  BY <1>1, <1>2, <1>6, UsersAnnounced, SpeakingEvents
<1>8. EndIsLast' /\ AnswerGood'
  BY <1>2, <1>3 DEF EndIsLast, AnswerGood, EndPhases, ResultPhases
<1>9. OwedInv' /\ Owed' = 0
  BY <1>2, <1>5, <1>7, <1>8, OwedNothing DEF ResultPhases
<1>10. Stage = "idle" /\ Stage' = "speaking"
  BY <1>2, <1>3, <1>6 DEF Stage
<1> QED BY <1>9, <1>10 DEF Contract!BeginRun, Contract!Moves

(* Where a poll leads (InitialPoll, PollSteering, PollFollowUp).           *)
LEMMA PollTargets ==
    ASSUME LoopTypeOK, InitialPoll \/ PollSteering \/ PollFollowUp
    PROVE  \/ loop.pc = "initialPoll" /\ loop'.pc = "firstTurn" /\ loop'.todo = <<>>
           \/ loop.pc = "pollSteering" /\ loop'.pc \in {"turn", "pollFollowUp"} /\ loop'.todo = <<>>
           \/ loop.pc = "pollFollowUp" /\ loop'.pc = "turn" /\ loop'.todo = <<>>
           \/ /\ loop.pc = "pollFollowUp" /\ loop'.pc = "finish"
              /\ loop'.todo = <<Event("agent_end", NoMessage)>>
<1>1. CASE InitialPoll
  BY <1>1 DEF InitialPoll, Resume, Goto, LoopTypeOK, Loops
<1>2. CASE PollSteering
  BY <1>2 DEF PollSteering, Resume, Goto, LoopTypeOK, Loops
<1>3. CASE PollFollowUp /\ followUpQueue # <<>>
  BY <1>3 DEF PollFollowUp, Resume, Goto, LoopTypeOK, Loops
<1>4. CASE PollFollowUp /\ followUpQueue = <<>>
  <2>1. loop' = Goto("finish", <<Event("agent_end", NoMessage)>>) /\ loop.pc = "pollFollowUp"
    BY <1>4 DEF PollFollowUp, Resume
  <2> QED BY <2>1 DEF Goto, LoopTypeOK, Loops
<1> QED BY <1>1, <1>2, <1>3, <1>4

(* A poll goes on with the turn, begins the next one or ends the run.      *)
LEMMA OwedPolled ==
    ASSUME AgentInv, OwedInv, InitialPoll \/ PollSteering \/ PollFollowUp
    PROVE  OwedInv' /\ (UNCHANGED <<Stage, Owed>> \/ Contract!NextTurn)
<1>0. LoopTypeOK
  BY DEF AgentInv, TypeOK
<1>1. /\ loop.todo = <<>> /\ loop.pc \in {"initialPoll", "pollSteering", "pollFollowUp"}
      /\ loop'.pc \in {"firstTurn", "turn", "pollFollowUp", "finish"}
      /\ loop'.assistant = loop.assistant /\ messages' = messages
  BY <1>0, PollEffect
<1>2. activeRun' = activeRun /\ ended' = ended
  BY DEF InitialPoll, PollSteering, PollFollowUp, runVars, histVars
<1>3. activeRun /\ ~ended /\ Owed = 0
  BY <1>1, RunGoesOn, NoneOwed DEF EndPhases, ResultPhases
<1>4. loop.pc # "initialPoll" => ~Failed(loop.assistant)
  BY <1>1 DEF OwedInv, AnswerGood
<1>5. AnswerGood'
  <2>1. loop'.pc = "pollFollowUp" => ~Failed(loop'.assistant)
    BY <1>0, <1>1, <1>4, PollTargets
  <2>2. Failed(loop'.assistant) <=> Failed(loop.assistant)
    BY <1>1 DEF Failed
  <2> QED BY <1>1, <2>1 DEF AnswerGood, ResultPhases, Failed
<1>6. CASE loop'.todo = <<>> /\ loop'.pc # "finish"
  <2>1. EventsOfPhase'
    BY <1>6, NoEvents
  <2>2. EndIsLast'
    BY <1>1, <1>2, <1>3, <1>6 DEF EndIsLast, EndPhases
  <2>3. OwedInv' /\ Owed' = 0
    BY <1>1, <1>3, <1>5, <2>1, <2>2, OwedNothing DEF ResultPhases
  <2>4. CASE loop.pc = "initialPoll" /\ loop'.pc = "firstTurn"
    BY <1>2, <1>3, <2>3, <2>4 DEF Stage, Speaking
  <2>5. CASE loop.pc = "pollSteering" /\ loop'.pc = "pollFollowUp"
    BY <1>1, <1>2, <1>3, <1>4, <2>3, <2>5 DEF Stage, Speaking, Asked, Failed
  <2>6. CASE loop.pc \in {"pollSteering", "pollFollowUp"} /\ loop'.pc = "turn"
    <3>1. Stage = "answered" /\ Stage' = "speaking"
      BY <1>1, <1>2, <1>3, <1>4, <2>6 DEF Stage, Speaking, Asked
    <3> QED BY <1>3, <2>3, <3>1 DEF Contract!NextTurn, Contract!Moves
  <2> QED BY <1>0, <1>6, <2>4, <2>5, <2>6, PollTargets
<1>7. CASE loop'.pc = "finish" /\ loop.pc = "pollFollowUp" /\ loop'.todo = <<Event("agent_end", NoMessage)>>
  <2>1. /\ Len(loop'.todo) = 1 /\ loop'.todo # <<>>
        /\ \A i \in 1 .. Len(loop'.todo) : i = 1 /\ loop'.todo[i].type = "agent_end"
    BY <1>7 DEF Event
  <2>2. EventsOfPhase'
    BY <1>7, <2>1 DEF EventsOfPhase, EndPhases, AnswerPhases, ResultPhases
  <2>3. EndIsLast'
    BY <1>2, <1>3, <2>1 DEF EndIsLast
  <2>4. OwedInv' /\ Owed' = 0
    BY <1>1, <1>3, <1>5, <1>7, <2>2, <2>3, OwedNothing DEF ResultPhases
  <2>5. Stage = "answered" /\ Stage' = "answered"
    BY <1>1, <1>2, <1>3, <1>4, <1>7 DEF Stage, Speaking, Asked, Failed
  <2> QED BY <1>3, <2>4, <2>5
<1> QED BY <1>0, <1>6, <1>7, PollTargets

(* The pending messages are announced before the model is asked.           *)
LEMMA OwedInjected ==
    ASSUME AgentInv, AnswersInv, OwedInv, InjectPending
    PROVE  OwedInv' /\ UNCHANGED <<Stage, Owed>>
<1> DEFINE prologue == IF loop.pc = "turn" THEN <<Event("turn_start", NoMessage)>> ELSE <<>>
<1>0. LoopTypeOK
  BY DEF AgentInv, TypeOK
<1>1. /\ loop.pc \in {"firstTurn", "turn"} /\ loop.todo = <<>> /\ loop'.pc = "request"
      /\ loop'.todo = prologue \o AnnounceAll(loop.pendingMessages)
      /\ messages' = messages
  BY <1>0, InjectEffect
<1>2. prologue \in Seq(Events) /\ UserEvents(prologue)
  <2>1. <<Event("turn_start", NoMessage)>> \in Seq(Events)
    BY EventTyped, MessagesTyped DEF EventTypes
  <2>2. UserEvents(<<Event("turn_start", NoMessage)>>)
    BY DEF UserEvents, Event
  <2>3. UserEvents(<<>>)
    BY DEF UserEvents
  <2>4. <<>> \in Seq(Events)
    OBVIOUS
  <2>5. CASE loop.pc = "turn"
    BY <2>1, <2>2, <2>5
  <2>6. CASE loop.pc # "turn"
    BY <2>3, <2>4, <2>6
  <2> QED BY <2>5, <2>6
<1> HIDE DEF prologue
<1>3. loop.pendingMessages \in Seq(Messages) /\ UserOnly(loop.pendingMessages)
  BY <1>0, FieldsTyped DEF AnswersInv, QueuesHoldPrompts
<1>4. activeRun' = activeRun /\ ended' = ended
  BY DEF InjectPending, runVars, histVars
<1>5. activeRun /\ ~ended /\ Owed = 0
  BY <1>1, RunGoesOn, NoneOwed DEF EndPhases, ResultPhases
<1>6. EventsOfPhase'
  <2>1. Speaking'
    BY <1>1 DEF Speaking
  <2>2. UserEvents(loop'.todo)
    BY <1>1, <1>2, <1>3, UsersAnnounced
  <2> QED BY <2>1, <2>2, SpeakingEvents
<1>7. EndIsLast' /\ AnswerGood'
  BY <1>1, <1>4, <1>5 DEF EndIsLast, AnswerGood, EndPhases, ResultPhases
<1>8. OwedInv' /\ Owed' = 0
  BY <1>1, <1>5, <1>6, <1>7, OwedNothing DEF ResultPhases
<1>9. Stage' = Stage
  BY <1>1, <1>4, <1>5 DEF Stage, Speaking
<1> QED BY <1>5, <1>8, <1>9

(* The model is asked (Request, StreamStart).                              *)
LEMMA OwedAsked ==
    ASSUME AgentInv, OwedInv, Request \/ StreamStart
    PROVE  OwedInv' /\ (UNCHANGED <<Stage, Owed>> \/ Contract!AskModel)
<1>1. /\ \/ loop.pc = "request" /\ loop'.pc = "requested" /\ loop'.todo = <<>>
         \/ /\ loop.pc = "requested" /\ loop'.pc = "streaming"
            /\ loop'.todo = <<Event("message_start", Assistant(turns, 0, "none"))>>
      /\ messages' = messages
  BY AskEffect DEF AgentInv, TypeOK
<1>2. activeRun' = activeRun /\ ended' = ended
  BY DEF Request, StreamStart, runVars, histVars
<1>3. activeRun /\ ~ended /\ Owed = 0
  BY <1>1, RunGoesOn, NoneOwed DEF EndPhases, ResultPhases
<1>4. EndIsLast' /\ AnswerGood'
  BY <1>1, <1>2, <1>3 DEF EndIsLast, AnswerGood, EndPhases, ResultPhases
<1>5. EventsOfPhase'
  <2>1. CASE loop'.todo = <<>>
    BY <2>1, NoEvents
  <2>2. CASE loop'.pc = "streaming" /\ loop'.todo = <<Event("message_start", Assistant(turns, 0, "none"))>>
    <3>1. \A i \in 1 .. Len(loop'.todo) : loop'.todo[i].type = "message_start"
      BY <2>2 DEF Event
    <3> QED BY <2>2, <3>1 DEF EventsOfPhase, EndPhases, AnswerPhases, ResultPhases
  <2> QED BY <1>1, <2>1, <2>2
<1>6. OwedInv' /\ Owed' = 0
  BY <1>1, <1>3, <1>4, <1>5, OwedNothing DEF ResultPhases
<1>7. Stage' = "asked" /\ Stage \in {"speaking", "asked"}
  BY <1>1, <1>2, <1>3 DEF Stage, Speaking, Asked
<1> QED BY <1>3, <1>6, <1>7 DEF Contract!AskModel, Contract!Moves

(* The response is announced, and owes nothing before that.                *)
LEMMA OwedResponse ==
    ASSUME AgentInv, OwedInv, NEW n \in 0 .. MaxCalls, NEW stop \in StopReasons, StreamDone(n, stop)
    PROVE  OwedInv' /\ UNCHANGED <<Stage, Owed>>
<1> DEFINE m == Assistant(turns, n, stop)
<1>1. /\ loop.todo = <<>> /\ loop.pc \in {"requested", "streaming"} /\ loop'.pc = "responded"
      /\ loop'.todo \in {Announce(m), <<Event("message_end", m)>>}
      /\ loop'.assistant = m /\ messages' = messages
  BY DoneEffect DEF AgentInv, TypeOK
<1>2. activeRun' = activeRun /\ ended' = ended
  BY DEF StreamDone, runVars, histVars
<1>3. activeRun /\ ~ended /\ Owed = 0
  BY <1>1, RunGoesOn, NoneOwed DEF EndPhases, ResultPhases
<1>4. m.calls = n /\ n \in Nat /\ MaxCalls \in Nat /\ n <= MaxCalls
  BY ConstantsAssumption DEF Assistant
<1> HIDE DEF m
<1>5. EndIsLast' /\ AnswerGood'
  BY <1>1, <1>2, <1>3, <1>4 DEF EndIsLast, AnswerGood, EndPhases, ResultPhases
<1>6. /\ loop'.todo # <<>>
      /\ \A i \in 1 .. Len(loop'.todo) :
            /\ loop'.todo[i].type # "agent_end"
            /\ loop'.todo[i].type = "message_end" <=> i = Len(loop'.todo)
            /\ loop'.todo[i].type = "message_end" => loop'.todo[i].message = m
  <2>1. CASE loop'.todo = Announce(m)
    <3>1. /\ Len(Announce(m)) = 2 /\ Announce(m) # <<>>
          /\ Announce(m)[1].type = "message_start" /\ Announce(m)[2].type = "message_end"
          /\ Announce(m)[2].message = m
      BY DEF Announce, Event
    <3> QED BY <2>1, <3>1
  <2>2. CASE loop'.todo = <<Event("message_end", m)>>
    <3>1. Event("message_end", m).type = "message_end" /\ Event("message_end", m).message = m
      BY DEF Event
    <3> QED BY <2>2, <3>1
  <2> QED BY <1>1, <2>1, <2>2
<1>7. EventsOfPhase'
  BY <1>1, <1>6 DEF EventsOfPhase, EndPhases
<1>8. OwedInv' /\ Owed' = 0
  BY <1>1, <1>3, <1>5, <1>6, <1>7, OwedNothing DEF ResultPhases
<1>9. Stage' = "asked" /\ Stage = "asked"
  BY <1>1, <1>2, <1>3, <1>6 DEF Stage, Speaking, Asked
<1> QED BY <1>3, <1>8, <1>9

(* Without events nothing is announced.                                    *)
LEMMA NoneUnannounced ==
    ASSUME loop.todo = <<>>
    PROVE  Unannounced = 0
<1>1. \A i : i \notin 1 .. Len(loop.todo)
  OBVIOUS
<1> QED BY <1>1 DEF Unannounced

(* The calls of a response are executed, or the run ends after a failure.  *)
LEMMA OwedResponded ==
    ASSUME AgentInv, MirrorInv, OwedInv, Responded
    PROVE  OwedInv' /\ UNCHANGED <<Stage, Owed>>
<1>1. /\ loop.todo = <<>> /\ loop.pc = "responded"
      /\ \/ /\ Failed(loop.assistant) /\ loop'.pc = "finish"
            /\ loop'.todo = <<Event("turn_end", loop.assistant), Event("agent_end", NoMessage)>>
         \/ /\ ~Failed(loop.assistant) /\ loop.assistant.calls = 0 /\ loop'.pc = "turnEnd"
            /\ loop'.todo = <<>>
         \/ /\ ~Failed(loop.assistant) /\ loop.assistant.calls # 0 /\ loop'.pc = "tool"
            /\ loop'.todo = <<>>
      /\ loop'.assistant = loop.assistant /\ loop'.results = loop.results /\ messages' = messages
  BY RespondedEffect DEF AgentInv, TypeOK
<1>2. UNCHANGED <<activeRun, ended>>
  BY DEF Responded, runVars, histVars
<1>3. activeRun /\ ~ended
  BY <1>1, RunGoesOn DEF EndPhases
<1>4. CASE /\ Failed(loop.assistant) /\ loop'.pc = "finish"
           /\ loop'.todo = <<Event("turn_end", loop.assistant), Event("agent_end", NoMessage)>>
  <2>1. Owed = 0
    BY <1>1, <1>4 DEF OwedInv, OwedIs, Answering, HasCalls, ResultPhases
  <2>2. /\ Len(loop'.todo) = 2 /\ loop'.todo # <<>>
        /\ loop'.todo[1].type = "turn_end" /\ loop'.todo[2].type = "agent_end"
    BY <1>4 DEF Event
  <2>3. \A i \in 1 .. Len(loop'.todo) :
          /\ loop'.todo[i].type = "agent_end" <=> i = Len(loop'.todo)
          /\ loop'.todo[i].type # "message_end"
    BY <2>2
  <2>4. EventsOfPhase'
    BY <1>4, <2>3 DEF EventsOfPhase, EndPhases, AnswerPhases, ResultPhases
  <2>5. EndIsLast' /\ AnswerGood'
    BY <1>2, <1>3, <1>4, <2>2 DEF EndIsLast, AnswerGood, ResultPhases
  <2>6. OwedInv' /\ Owed' = 0
    BY <1>1, <1>4, <2>1, <2>4, <2>5, OwedNothing DEF ResultPhases
  <2>7. Failed(loop'.assistant)
    BY <1>1, <1>4
  <2>8. Stage = "failed" /\ Stage' = "failed"
    BY <1>1, <1>2, <1>3, <1>4, <2>7 DEF Stage, Speaking, Asked
  <2> QED BY <2>1, <2>6, <2>8
<1>5. CASE ~Failed(loop.assistant) /\ loop'.pc \in {"tool", "turnEnd"} /\ loop'.todo = <<>>
  <2>1. EventsOfPhase' /\ Unannounced' = 0 /\ Unannounced = 0
    BY <1>1, <1>5, NoEvents, NoneUnannounced
  <2>2. Len(loop'.results) = 0 /\ loop'.results = loop.results
    <3>1. loop.results = <<>>
      BY <1>1 DEF MirrorInv, ResultsOfTurn, ResultPhases
    <3> QED BY <1>1, <3>1
  <2>3. Len(loop'.results) - Unannounced' = Len(loop.results) - Unannounced
    BY <2>1, <2>2
  <2>4. loop'.pc = "turnEnd" => Len(loop'.results) = loop.assistant.calls
    BY <1>1, <1>5, <2>2
  <2>5. loop'.pc \in ResultPhases
    BY <1>5 DEF ResultPhases
  <2> QED BY <1>1, <1>2, <1>5, <2>1, <2>3, <2>4, <2>5, OwedSame
<1> QED BY <1>1, <1>4, <1>5

(* Calls are started and awaited; when all are over the turn ends.         *)
LEMMA OwedCalls ==
    ASSUME AgentInv, PendingInv, AnswersInv, OwedInv,
           StartCall \/ PreparedCall \/ LaunchPrepared \/ CallsExecuted
    PROVE  OwedInv' /\ UNCHANGED <<Stage, Owed>>
<1>0. LoopTypeOK
  BY DEF AgentInv, TypeOK
<1>1. /\ loop.todo = <<>> /\ loop.pc \in ResultPhases /\ loop'.pc \in ResultPhases
      /\ loop'.assistant = loop.assistant /\ loop'.results = loop.results /\ messages' = messages
      /\ \/ loop'.todo = <<>>
         \/ loop'.pc = "prepare" /\ loop'.todo = <<Event("tool_execution_start", ToolResult(NextCall))>>
      /\ loop'.pc = "turnEnd" => loop.pc = "await" /\ loop.runnable = <<>>
  <2>1. CASE StartCall
    BY <1>0, <2>1, StartCallEffect DEF ResultPhases
  <2>2. CASE PreparedCall
    BY <1>0, <2>2, PreparedEffect DEF ResultPhases
  <2>3. CASE LaunchPrepared \/ CallsExecuted
    BY <1>0, <2>3, LaunchEffect DEF ResultPhases
  <2> QED BY <2>1, <2>2, <2>3
<1>2. UNCHANGED <<activeRun, ended>>
  BY DEF StartCall, PreparedCall, LaunchPrepared, CallsExecuted, runVars, histVars
<1>3. EventsOfPhase' /\ Unannounced' = 0 /\ Unannounced = 0
  <2>1. Unannounced = 0
    BY <1>1, NoneUnannounced
  <2>2. CASE loop'.todo = <<>>
    BY <2>1, <2>2, NoEvents
  <2>3. CASE loop'.pc = "prepare" /\ loop'.todo = <<Event("tool_execution_start", ToolResult(NextCall))>>
    <3>1. \A i \in 1 .. Len(loop'.todo) : loop'.todo[i].type = "tool_execution_start"
      BY <2>3 DEF Event
    <3>2. EventsOfPhase'
      BY <2>3, <3>1 DEF EventsOfPhase, EndPhases
    <3> QED BY <2>1, <3>1, <3>2 DEF Unannounced
  <2> QED BY <1>1, <2>2, <2>3
<1>4. loop'.pc = "turnEnd" => Len(loop'.results) = loop.assistant.calls
  <2> SUFFICES ASSUME loop'.pc = "turnEnd" PROVE Len(loop.results) = loop.assistant.calls
    BY <1>1
  <2>1. /\ loop.next = loop.assistant.calls + 1
        /\ Len(loop.results) + Len(loop.runnable) = loop.next - 1
    BY <1>1 DEF AnswersInv, CallsOfAnswer, ToolPhase
  <2>2. Len(loop.runnable) = 0
    BY <1>1
  <2>3. loop.assistant.calls \in Nat /\ Len(loop.results) \in Nat
    <3>1. loop.assistant \in Messages /\ loop.results \in Seq(Messages)
      BY <1>0, FieldsTyped
    <3> QED BY <3>1 DEF Messages
  <2> QED BY <2>1, <2>2, <2>3
<1>5. Len(loop'.results) - Unannounced' = Len(loop.results) - Unannounced
  BY <1>1, <1>3
<1> QED BY <1>1, <1>2, <1>3, <1>4, <1>5, OwedSame

(* A call is over: its result is collected and yet to be announced.        *)
LEMMA OwedOver ==
    ASSUME AgentInv, PendingInv, AnswersInv, OwedInv, ImmediateOutcome \/ FinalizeCall
    PROVE  OwedInv' /\ UNCHANGED <<Stage, Owed>>
<1>0. LoopTypeOK
  BY DEF AgentInv, TypeOK
<1>1. PICK c \in CallIds :
        /\ c[1] = loop.assistant.id[1]
        /\ loop'.todo = Outcome(c) /\ loop'.results = Append(loop.results, ToolResult(c))
  <2>1. loop.assistant.id \in CallIds \/ ~ImmediateOutcome
    BY DEF ImmediateOutcome, Resume, AgentInv, ResponseHasId
  <2>2. CASE ImmediateOutcome
    <3>1. NextCall \in CallIds /\ NextCall[1] = loop.assistant.id[1]
      <4>1. NextCall \in CallIds
        BY <1>0, <2>1, <2>2, NextCallTyped
      <4> QED BY <4>1 DEF NextCall
    <3>2. loop'.todo = Outcome(NextCall) /\ loop'.results = Append(loop.results, ToolResult(NextCall))
      BY <1>0, <2>2, ImmediateEffect
    <3> QED BY <3>1, <3>2
  <2>3. CASE FinalizeCall
    <3> DEFINE c == Head(loop.runnable)
    <3>1. /\ loop'.todo = Outcome(c) /\ loop'.results = Append(loop.results, ToolResult(c))
          /\ loop.runnable # <<>>
      BY <1>0, <2>3, FinalizeEffect
    <3>2. 1 \in 1 .. Len(loop.runnable) /\ c = loop.runnable[1] /\ c \in CallIds
      BY <1>0, <3>1, FieldsTyped
    <3> HIDE DEF c
    <3>3. PICK k \in 1 .. loop.next - 1 : c = Call(k)
      BY <3>2 DEF PendingInv, RunnableStarted
    <3>4. c[1] = loop.assistant.id[1]
      BY <3>3 DEF Call
    <3> QED BY <3>1, <3>2, <3>4
  <2> QED BY <2>2, <2>3
<1>2. /\ loop.todo = <<>> /\ loop.pc \in ResultPhases /\ loop'.pc \in {"tool", "await"}
      /\ loop'.assistant = loop.assistant /\ messages' = messages
  BY <1>0, ImmediateEffect, FinalizeEffect DEF ResultPhases
<1>3. UNCHANGED <<activeRun, ended>>
  BY DEF ImmediateOutcome, FinalizeCall, runVars, histVars
<1> DEFINE o == Outcome(c)
<1>4. /\ Len(o) = 3 /\ o[1].type = "tool_execution_end" /\ o[2].type = "message_start"
      /\ o[3].type = "message_end" /\ o[3].message = ToolResult(c)
  BY OutcomeEvents DEF Outcome, Announce, Event
<1>5. ToolResult(c).role = "toolResult" /\ ToolResult(c).id = c
  BY DEF ToolResult
<1> HIDE DEF o
<1>6. loop'.todo = o
  BY <1>1 DEF o
<1>7. \A i \in 1 .. Len(o) :
        /\ o[i].type # "agent_end"
        /\ o[i].type = "message_end" <=> i = Len(o)
        /\ o[i].type = "message_end" =>
             o[i].message.role = "toolResult" /\ o[i].message.id[1] = loop.assistant.id[1]
  <2> TAKE i \in 1 .. Len(o)
  <2>1. i = 1 \/ i = 2 \/ i = 3
    BY <1>4
  <2> QED BY <1>1, <1>4, <1>5, <2>1
<1>8. EventsOfPhase'
  BY <1>2, <1>6, <1>7 DEF EventsOfPhase, EndPhases, ToolPhase
<1>9. Unannounced' = 1 /\ Unannounced = 0
  <2>1. 3 \in 1 .. Len(o)
    BY <1>4
  <2> QED BY <1>2, <1>4, <1>6, <2>1, NoneUnannounced DEF Unannounced
<1>10. Len(loop'.results) = Len(loop.results) + 1 /\ Len(loop.results) \in Nat
  <2>1. loop.results \in Seq(Messages) /\ ToolResult(c) \in Messages
    BY <1>0, FieldsTyped, MessagesTyped
  <2> QED BY <1>1, <2>1
<1>11. Len(loop'.results) - Unannounced' = Len(loop.results) - Unannounced
  BY <1>9, <1>10
<1>12. loop'.pc \in ResultPhases /\ loop'.pc # "turnEnd"
  BY <1>2 DEF ResultPhases
<1> QED BY <1>2, <1>3, <1>8, <1>11, <1>12, OwedSame

(* When the turn ends every result has been announced.                     *)
LEMMA OwedTurnEnds ==
    ASSUME AgentInv, OwedInv, TurnEnd
    PROVE  OwedInv' /\ UNCHANGED <<Stage, Owed>>
<1>0. LoopTypeOK
  BY DEF AgentInv, TypeOK
<1>1. /\ loop.pc = "turnEnd" /\ loop.todo = <<>> /\ loop'.pc = "pollSteering"
      /\ loop'.todo = <<Event("turn_end", loop.assistant)>>
      /\ loop'.assistant = loop.assistant /\ messages' = messages
  BY <1>0, TurnEndEffect
<1>2. UNCHANGED <<activeRun, ended>>
  BY DEF TurnEnd, runVars, histVars
<1>3. activeRun /\ ~ended
  BY <1>1, RunGoesOn DEF EndPhases
<1>4. ~Failed(loop.assistant) /\ Len(loop.results) = loop.assistant.calls
  BY <1>1 DEF OwedInv, AnswerGood, ResultPhases
<1>5. loop.assistant.calls \in Nat
  <2>1. loop.assistant \in Messages
    BY <1>0, FieldsTyped
  <2> QED BY <2>1 DEF Messages
<1>6. Owed = 0
  <2>1. CASE Answering
    <3>1. PICK i \in 1 .. Len(messages) :
             /\ LastAnswer = {i} /\ messages[i] = loop.assistant
             /\ Cardinality(ResultsAfter(i)) = Len(loop.results) - Unannounced
      BY <2>1 DEF OwedInv, OwedIs, AnswerAnnounced
    <3>2. Unannounced = 0
      BY <1>1, NoneUnannounced
    <3>3. Owed = messages[i].calls - Cardinality(ResultsAfter(i))
      BY <3>1, OwedOf
    <3> QED BY <1>4, <1>5, <3>1, <3>2, <3>3
  <2>2. CASE ~Answering
    BY <2>2 DEF OwedInv, OwedIs
  <2> QED BY <2>1, <2>2
<1>7. \A i \in 1 .. Len(loop'.todo) : loop'.todo[i].type = "turn_end"
  BY <1>1 DEF Event
<1>8. EventsOfPhase'
  BY <1>1, <1>7 DEF EventsOfPhase, EndPhases, AnswerPhases, ResultPhases
<1>9. ~Failed(loop'.assistant)
  BY <1>1, <1>4
<1>10. EndIsLast' /\ AnswerGood'
  BY <1>1, <1>2, <1>3, <1>9 DEF EndIsLast, AnswerGood, EndPhases
<1>11. OwedInv' /\ Owed' = 0
  BY <1>1, <1>6, <1>8, <1>10, OwedNothing DEF ResultPhases
<1>12. Stage = "answered" /\ Stage' = "answered"
  BY <1>1, <1>2, <1>3, <1>4, <1>9 DEF Stage, Speaking, Asked
<1> QED BY <1>6, <1>11, <1>12

(* A run that has announced its end settles.                               *)
LEMMA OwedSettles ==
    ASSUME AgentInv, OwedInv, FinishRun
    PROVE  OwedInv' /\ Contract!SettleRun
<1>1. /\ loop'.pc = "idle" /\ loop.pc \in {"finish", "failing"} /\ loop'.todo = <<>>
      /\ messages' = messages
  BY EndEffect
<1>2. loop.todo = <<>> /\ ended' = ended /\ activeRun' = FALSE
  BY DEF FinishRun, Resume, Settle, histVars
<1>3. activeRun /\ ended /\ Owed = 0
  BY <1>1, <1>2, NoneOwed DEF AgentInv, RunHasLoop, OwedInv, EndIsLast, EndPhases, ResultPhases
<1>4. EventsOfPhase'
  BY <1>1, NoEvents
<1>5. EndIsLast' /\ AnswerGood'
  BY <1>1, <1>2 DEF EndIsLast, AnswerGood, ResultPhases
<1>6. OwedInv' /\ Owed' = 0
  BY <1>1, <1>3, <1>4, <1>5, OwedNothing DEF ResultPhases
<1>7. Stage = "ended" /\ Stage' = "idle"
  BY <1>2, <1>3 DEF Stage
<1> QED BY <1>3, <1>6, <1>7 DEF Contract!SettleRun, Contract!Moves

(* When streamFn throws the run fails before the model has answered.       *)
LEMMA OwedThrows ==
    ASSUME AgentInv, OwedInv, StreamThrows
    PROVE  OwedInv' /\ Contract!ThrowInStream
<1>1. /\ loop'.pc = "failing" /\ messages' = Append(messages, FailureMessage)
      /\ loop'.todo = <<Event("agent_end", NoMessage)>>
  BY FailEffect
<1>2. UNCHANGED <<activeRun, ended>> /\ loop.pc = "request"
  BY DEF StreamThrows, FailRun, Resume, runVars, histVars
<1>3. activeRun /\ ~ended /\ Owed = 0
  BY <1>2, RunGoesOn, NoneOwed DEF EndPhases, ResultPhases
<1>4. Owed' = 0
  <2> DEFINE m == FailureMessage
  <2>1. m \in Messages /\ m.role = "assistant" /\ ~HasCalls(m)
    BY MessagesTyped DEF FailureMessage, HasCalls
  <2>2. messages \in Seq(Messages) /\ messages' = Append(messages, m)
    BY <1>1 DEF AgentInv, TypeOK, StateTypeOK
  <2> HIDE DEF m
  <2> QED BY <2>1, <2>2, AssistantAppended
<1>5. /\ Len(loop'.todo) = 1 /\ loop'.todo # <<>>
      /\ \A i \in 1 .. Len(loop'.todo) : i = 1 /\ loop'.todo[i].type = "agent_end"
  BY <1>1 DEF Event
<1>6. EventsOfPhase'
  BY <1>1, <1>5 DEF EventsOfPhase, EndPhases, AnswerPhases, ResultPhases
<1>7. EndIsLast' /\ AnswerGood'
  BY <1>1, <1>2, <1>3, <1>5 DEF EndIsLast, AnswerGood, ResultPhases
<1>8. OwedInv'
  <2>1. ~Answering'
    BY <1>1 DEF Answering, ResultPhases
  <2> QED BY <1>4, <1>6, <1>7, <2>1 DEF OwedInv, OwedIs
<1>9. Stage = "speaking" /\ Stage' = "failed"
  BY <1>1, <1>2, <1>3 DEF Stage, Speaking, Asked
<1> QED BY <1>3, <1>4, <1>8, <1>9 DEF Contract!ThrowInStream, Contract!Moves

(* Emitting leaves the events that were announced behind it.               *)
LEMMA RestOfEvents ==
    ASSUME LoopTypeOK, Emit
    PROVE  /\ 1 \in 1 .. Len(loop.todo) /\ Head(loop.todo) = loop.todo[1] /\ loop.todo[1] \in Events
           /\ Len(loop.todo) \in Nat /\ Len(loop'.todo) = Len(loop.todo) - 1
           /\ \A i \in 1 .. Len(loop'.todo) :
                i + 1 \in 1 .. Len(loop.todo) /\ loop'.todo[i] = loop.todo[i + 1]
           /\ loop'.todo = <<>> <=> Len(loop.todo) = 1
<1>1. loop.todo # <<>> /\ loop.todo \in Seq(Events) /\ loop'.todo = Tail(loop.todo)
  BY EmitEffect, FieldsTyped
<1>2. Len(loop.todo) \in Nat \ {0} /\ Head(loop.todo) = loop.todo[1] /\ 1 \in 1 .. Len(loop.todo)
  BY <1>1
<1>3. /\ Tail(loop.todo) \in Seq(Events) /\ Len(Tail(loop.todo)) = Len(loop.todo) - 1
      /\ \A i \in 1 .. Len(Tail(loop.todo)) : Tail(loop.todo)[i] = loop.todo[i + 1]
  BY <1>1, HeadTailProperties
<1>4. \A i \in 1 .. Len(loop'.todo) : i + 1 \in 1 .. Len(loop.todo)
  BY <1>1, <1>2, <1>3
<1>5. loop'.todo = <<>> <=> Len(loop'.todo) = 0
  BY <1>1, <1>3, EmptySeq
<1>6. loop.todo[1] \in Events
  BY <1>1, <1>2
<1> QED BY <1>1, <1>2, <1>3, <1>4, <1>5, <1>6

(* Emitting keeps what does not depend on the transcript.                  *)
LEMMA EmitKeeps ==
    ASSUME AgentInv, OwedInv, Emit
    PROVE  EventsOfPhase' /\ EndIsLast' /\ AnswerGood'
<1>0. LoopTypeOK
  BY DEF AgentInv, TypeOK
<1>1. /\ loop'.pc = loop.pc /\ loop'.assistant = loop.assistant /\ loop'.results = loop.results
      /\ loop.todo # <<>>
  BY <1>0, EmitEffect
<1>2. /\ 1 \in 1 .. Len(loop.todo) /\ Head(loop.todo) = loop.todo[1]
      /\ Len(loop.todo) \in Nat /\ Len(loop'.todo) = Len(loop.todo) - 1
      /\ \A i \in 1 .. Len(loop'.todo) :
           i + 1 \in 1 .. Len(loop.todo) /\ loop'.todo[i] = loop.todo[i + 1]
      /\ loop'.todo = <<>> <=> Len(loop.todo) = 1
  BY <1>0, RestOfEvents
<1>3. ended' = (ended \/ Head(loop.todo).type = "agent_end") /\ activeRun' = activeRun
  BY DEF Emit, runVars
<1>4. EventsOfPhase /\ EndIsLast /\ AnswerGood
  BY DEF OwedInv
<1>5. EventsOfPhase'
  <2>1. Speaking' <=> Speaking
    BY <1>1 DEF Speaking
  <2>2. ToolPhase' <=> ToolPhase
    BY <1>1 DEF ToolPhase
  <2> SUFFICES ASSUME NEW i \in 1 .. Len(loop'.todo)
      PROVE  /\ loop'.todo[i].type = "agent_end" <=> loop.pc \in EndPhases /\ i = Len(loop'.todo)
             /\ loop'.todo[i].type = "message_end" =>
                  \/ Speaking /\ loop'.todo[i].message.role = "user"
                  \/ loop.pc = "responded" /\ loop'.todo[i].message = loop.assistant
                  \/ /\ ToolPhase
                     /\ loop'.todo[i].message.role = "toolResult"
                     /\ loop'.todo[i].message.id[1] = loop.assistant.id[1]
             /\ loop.pc \in AnswerPhases /\ loop'.todo[i].type = "message_end" => i = Len(loop'.todo)
             /\ loop.pc = "responded" /\ i = Len(loop'.todo) => loop'.todo[i].type = "message_end"
    BY <1>1, <2>1, <2>2, Zenon DEF EventsOfPhase
  <2> DEFINE j == i + 1
  <2>3. j \in 1 .. Len(loop.todo) /\ loop'.todo[i] = loop.todo[j]
    BY <1>2
  <2>4. i = Len(loop'.todo) <=> j = Len(loop.todo)
    BY <1>2
  <2> HIDE DEF j
  <2> QED BY <1>4, <2>3, <2>4, Zenon DEF EventsOfPhase
<1>6. EndIsLast'
  <2> SUFFICES ASSUME activeRun
      PROVE  ended' <=> loop.pc \in EndPhases /\ loop'.todo = <<>>
    BY <1>1, <1>3 DEF EndIsLast
  <2>1. ~ended
    BY <1>1, <1>4 DEF EndIsLast
  <2>2. loop.todo[1].type = "agent_end" <=> loop.pc \in EndPhases /\ 1 = Len(loop.todo)
    BY <1>2, <1>4 DEF EventsOfPhase
  <2> QED BY <1>2, <1>3, <2>1, <2>2
<1>7. AnswerGood'
  BY <1>1, <1>4 DEF AnswerGood, Failed
<1> QED BY <1>5, <1>6, <1>7

(* An event that announces no message and no end.                          *)
LEMMA OwedEmitsOther ==
    ASSUME AgentInv, OwedInv, Emit, Head(loop.todo).type \notin {"message_end", "agent_end"}
    PROVE  OwedInv' /\ UNCHANGED <<Stage, Owed>>
<1>0. LoopTypeOK
  BY DEF AgentInv, TypeOK
<1>1. /\ loop'.pc = loop.pc /\ loop'.assistant = loop.assistant /\ loop'.results = loop.results
      /\ loop.todo # <<>> /\ messages' = messages
  BY <1>0, EmitEffect
<1>2. /\ 1 \in 1 .. Len(loop.todo) /\ Head(loop.todo) = loop.todo[1]
      /\ Len(loop.todo) \in Nat /\ Len(loop'.todo) = Len(loop.todo) - 1
      /\ \A i \in 1 .. Len(loop'.todo) :
           i + 1 \in 1 .. Len(loop.todo) /\ loop'.todo[i] = loop.todo[i + 1]
      /\ loop'.todo = <<>> <=> Len(loop.todo) = 1
  BY <1>0, RestOfEvents
<1>3. (ended' <=> ended) /\ activeRun' = activeRun
  BY DEF Emit, runVars
<1>4. EventsOfPhase' /\ EndIsLast' /\ AnswerGood'
  BY EmitKeeps
<1>5. loop.pc = "responded" => loop'.todo # <<>>
  BY <1>2 DEF OwedInv, EventsOfPhase
<1>6. Stage' = Stage
  BY <1>1, <1>3, <1>5 DEF Stage, Speaking, Asked, Failed
<1>7. Answering' <=> Answering
  BY <1>1, <1>5 DEF Answering, HasCalls, Failed
<1>8. /\ LastAnswer' = LastAnswer /\ Owed' = Owed
      /\ \A i : ResultsAfter(i)' = ResultsAfter(i)
  BY <1>1, TranscriptSame
<1>9. Unannounced' = Unannounced
  <2>1. ASSUME NEW i \in 1 .. Len(loop.todo), loop.todo[i].type = "message_end"
        PROVE  \E k \in 1 .. Len(loop'.todo) : loop'.todo[k].type = "message_end"
    <3>1. i # 1
      BY <1>2, <2>1
    <3>2. i - 1 \in 1 .. Len(loop'.todo) /\ (i - 1) + 1 = i
      BY <1>2, <3>1
    <3> QED BY <1>2, <2>1, <3>2
  <2>2. ASSUME NEW k \in 1 .. Len(loop'.todo), loop'.todo[k].type = "message_end"
        PROVE  \E i \in 1 .. Len(loop.todo) : loop.todo[i].type = "message_end"
    BY <1>2, <2>2
  <2> QED BY <2>1, <2>2 DEF Unannounced
<1>10. CASE Answering
  <2>1. PICK i \in 1 .. Len(messages) :
           /\ LastAnswer = {i} /\ messages[i] = loop.assistant
           /\ Cardinality(ResultsAfter(i)) = Len(loop.results) - Unannounced
    BY <1>10 DEF OwedInv, OwedIs, AnswerAnnounced
  <2>2. Cardinality(ResultsAfter(i)') = Len(loop'.results) - Unannounced'
    BY <1>1, <1>8, <1>9, <2>1
  <2>3. AnswerAnnounced'
    BY <1>1, <1>8, <2>1, <2>2 DEF AnswerAnnounced
  <2> QED BY <1>4, <1>6, <1>7, <1>8, <1>10, <2>3 DEF OwedInv, OwedIs
<1>11. CASE ~Answering
  BY <1>4, <1>6, <1>7, <1>8, <1>11 DEF OwedInv, OwedIs
<1> QED BY <1>10, <1>11

(* agent_end.                                                              *)
LEMMA OwedEmitsEnd ==
    ASSUME AgentInv, OwedInv, Emit, Head(loop.todo).type = "agent_end"
    PROVE  OwedInv' /\ Contract!EndRun
<1>0. LoopTypeOK
  BY DEF AgentInv, TypeOK
<1>1. /\ loop'.pc = loop.pc /\ loop.todo # <<>> /\ messages' = messages
  BY <1>0, EmitEffect
<1>2. 1 \in 1 .. Len(loop.todo) /\ Head(loop.todo) = loop.todo[1]
  BY <1>0, RestOfEvents
<1>3. loop.pc \in EndPhases
  BY <1>2 DEF OwedInv, EventsOfPhase
<1>4. activeRun' = activeRun /\ ended'
  BY DEF Emit, runVars
<1>5. activeRun /\ ~ended /\ Owed = 0
  BY <1>1, <1>3, RunGoesOn, NoneOwed DEF EndPhases, ResultPhases
<1>6. OwedInv' /\ Owed' = 0
  BY <1>1, <1>3, <1>5, EmitKeeps, OwedNothing DEF EndPhases, ResultPhases
<1>7. Stage \in {"failed", "answered"} /\ Stage' = "ended"
  BY <1>3, <1>4, <1>5 DEF Stage, Speaking, Asked, EndPhases
<1> QED BY <1>5, <1>6, <1>7 DEF Contract!EndRun, Contract!Moves

(* A message of the user is announced.                                     *)
LEMMA OwedEmitsUser ==
    ASSUME AgentInv, OwedInv, Emit, Head(loop.todo).type = "message_end",
           Speaking, Head(loop.todo).message.role = "user"
    PROVE  OwedInv' /\ UNCHANGED <<Stage, Owed>>
<1>0. LoopTypeOK
  BY DEF AgentInv, TypeOK
<1> DEFINE m == Head(loop.todo).message
<1>1. loop'.pc = loop.pc /\ loop.todo # <<>> /\ messages' = Append(messages, m)
  BY <1>0, EmitEffect
<1>2. m \in Messages /\ messages \in Seq(Messages)
  BY <1>0, RestOfEvents DEF Events, AgentInv, TypeOK, StateTypeOK
<1> HIDE DEF m
<1>3. m.role = "user"
  BY DEF m
<1>4. activeRun' = activeRun /\ (ended' <=> ended)
  BY DEF Emit, runVars
<1>5. activeRun /\ ~ended /\ Owed = 0
  BY <1>1, RunGoesOn, NoneOwed DEF Speaking, ResultPhases
<1>6. Owed' = Owed
  BY <1>1, <1>2, <1>3, UserAppended
<1>7. ~Answering'
  BY <1>1 DEF Answering, Speaking, ResultPhases
<1>8. OwedInv'
  BY <1>5, <1>6, <1>7, EmitKeeps DEF OwedInv, OwedIs
<1>9. Stage' = Stage
  BY <1>1, <1>4, <1>5 DEF Stage, Speaking
<1> QED BY <1>6, <1>8, <1>9

(* The response is announced: it owes the results of its calls.            *)
LEMMA OwedEmitsAnswer ==
    ASSUME AgentInv, MirrorInv, AnswersInv, OwedInv, Emit, Head(loop.todo).type = "message_end",
           loop.pc = "responded", Head(loop.todo).message = loop.assistant
    PROVE  OwedInv' /\ (Contract!Answer \/ Contract!AnswerFails)
<1>0. LoopTypeOK
  BY DEF AgentInv, TypeOK
<1> DEFINE m == loop.assistant
<1>1. /\ loop'.pc = "responded" /\ loop.todo # <<>> /\ messages' = Append(messages, m)
      /\ loop'.assistant = m /\ loop'.results = loop.results
  BY <1>0, EmitEffect
<1>2. /\ m \in Messages /\ m.role = "assistant" /\ m.calls \in Nat /\ m.calls <= MaxCalls
      /\ messages \in Seq(Messages)
  <2>1. m \in Messages
    BY <1>0, FieldsTyped
  <2>2. m.calls \in Nat
    BY <2>1 DEF Messages
  <2>3. m.role = "assistant" /\ m.calls <= MaxCalls
    BY DEF AnswersInv, AnswerLast, OwedInv, AnswerGood
  <2> QED BY <2>1, <2>2, <2>3 DEF AgentInv, TypeOK, StateTypeOK
<1>3. loop'.todo = <<>>
  <2>1. /\ 1 \in 1 .. Len(loop.todo) /\ Head(loop.todo) = loop.todo[1]
        /\ loop'.todo = <<>> <=> Len(loop.todo) = 1
    BY <1>0, RestOfEvents
  <2> QED BY <2>1 DEF OwedInv, EventsOfPhase, AnswerPhases
<1>4. Len(loop'.results) = 0 /\ Unannounced' = 0
  <2>1. loop.results = <<>>
    BY DEF MirrorInv, ResultsOfTurn, ResultPhases
  <2> QED BY <1>1, <1>3, <2>1, NoEvents
<1>5. activeRun' = activeRun /\ (ended' <=> ended)
  BY DEF Emit, runVars
<1>6. activeRun /\ ~ended
  BY <1>1, RunGoesOn DEF EndPhases
<1>7. Stage = "asked"
  BY <1>1, <1>6 DEF Stage, Speaking, Asked
<1>8. Failed(loop'.assistant) <=> Failed(m)
  BY <1>1
<1>9. Stage' = (IF Failed(m) THEN "failed" ELSE "answered")
  BY <1>1, <1>3, <1>5, <1>6, <1>8 DEF Stage, Speaking, Asked
<1>10. Answering' <=> HasCalls(m)
  BY <1>1, <1>3 DEF Answering, HasCalls, Failed
<1> HIDE DEF m
<1>11. CASE HasCalls(m)
  <2>1. /\ Owed' = m.calls
        /\ \E i \in 1 .. Len(messages') :
             /\ LastAnswer' = {i} /\ messages'[i] = m
             /\ Cardinality(ResultsAfter(i)') = 0
    BY <1>1, <1>2, <1>11, AssistantAppended
  <2>2. AnswerAnnounced'
    BY <1>1, <1>4, <2>1 DEF AnswerAnnounced
  <2>3. OwedInv'
    BY <1>10, <1>11, <2>2, EmitKeeps DEF OwedInv, OwedIs
  <2>4. Owed' \in 0 .. MaxCalls
    BY <1>2, <2>1, ConstantsAssumption
  <2>5. Stage' = "answered"
    BY <1>9, <1>11 DEF HasCalls
  <2> QED BY <1>7, <2>3, <2>4, <2>5 DEF Contract!Answer, Contract!Moves
<1>12. CASE ~HasCalls(m)
  <2>1. Owed' = 0
    BY <1>1, <1>2, <1>12, AssistantAppended
  <2>2. OwedInv'
    BY <1>10, <1>12, <2>1, EmitKeeps DEF OwedInv, OwedIs
  <2>3. Owed' \in 0 .. MaxCalls
    BY <2>1, ConstantsAssumption
  <2> QED BY <1>7, <1>9, <2>1, <2>2, <2>3 DEF Contract!Answer, Contract!AnswerFails, Contract!Moves
<1> QED BY <1>11, <1>12

(* A result is announced: one less is owed.                                *)
LEMMA OwedEmitsResult ==
    ASSUME AgentInv, AnswersInv, PendingInv, OwedInv, Emit, Head(loop.todo).type = "message_end",
           ToolPhase, Head(loop.todo).message.role = "toolResult",
           Head(loop.todo).message.id[1] = loop.assistant.id[1]
    PROVE  OwedInv' /\ Contract!Result
<1>0. LoopTypeOK
  BY DEF AgentInv, TypeOK
<1> DEFINE m == Head(loop.todo).message
           r == Len(loop.results)
<1>1. /\ loop'.pc = loop.pc /\ loop.todo # <<>> /\ messages' = Append(messages, m)
      /\ loop'.assistant = loop.assistant /\ loop'.results = loop.results
  BY <1>0, EmitEffect
<1>2. m \in Messages /\ messages \in Seq(Messages)
  BY <1>0, RestOfEvents DEF Events, AgentInv, TypeOK, StateTypeOK
<1>3. m.role = "toolResult" /\ m.id[1] = loop.assistant.id[1]
  OBVIOUS
<1>4. loop'.todo = <<>> /\ Unannounced = 1
  <2>1. /\ 1 \in 1 .. Len(loop.todo) /\ Head(loop.todo) = loop.todo[1]
        /\ loop'.todo = <<>> <=> Len(loop.todo) = 1
    BY <1>0, RestOfEvents
  <2>2. loop.pc \in AnswerPhases
    BY DEF ToolPhase, AnswerPhases, ResultPhases
  <2>3. Len(loop.todo) = 1
    BY <2>1, <2>2 DEF OwedInv, EventsOfPhase
  <2> QED BY <2>1, <2>3 DEF Unannounced
<1> HIDE DEF m
<1>5. Unannounced' = 0
  BY <1>4, NoEvents
<1>6. loop.pc \in ResultPhases /\ HasCalls(loop.assistant) /\ Answering
  BY DEF ToolPhase, ResultPhases, AnswersInv, CallsOfAnswer, Answering
<1>7. Answering'
  BY <1>1, <1>6 DEF Answering, HasCalls, Failed
<1>8. PICK i \in 1 .. Len(messages) :
         /\ LastAnswer = {i} /\ messages[i] = loop.assistant
         /\ Cardinality(ResultsAfter(i)) = r - 1
  BY <1>4, <1>6 DEF OwedInv, OwedIs, AnswerAnnounced
<1>9. /\ LastAnswer' = {i} /\ messages'[i] = messages[i] /\ i \in 1 .. Len(messages')
      /\ Cardinality(ResultsAfter(i)') = Cardinality(ResultsAfter(i)) + 1
      /\ Cardinality(ResultsAfter(i)) \in Nat
      /\ Owed' = messages[i].calls - (Cardinality(ResultsAfter(i)) + 1)
  BY <1>1, <1>2, <1>3, <1>8, ResultAppended
<1>10. Owed = messages[i].calls - Cardinality(ResultsAfter(i))
  BY <1>8, OwedOf
<1>11. r \in Nat /\ r <= loop.assistant.calls /\ loop.assistant.calls \in Nat
  <2>1. /\ loop.results \in Seq(Messages) /\ loop.runnable \in Seq(CallIds)
        /\ loop.assistant \in Messages /\ loop.next \in Nat
    BY <1>0, FieldsTyped
  <2>2. /\ loop.next <= loop.assistant.calls + 1
        /\ Len(loop.results) + Len(loop.runnable) = loop.next - 1
    BY DEF AnswersInv, CallsOfAnswer
  <2>3. loop.assistant.calls \in Nat
    BY <2>1 DEF Messages
  <2> DEFINE n == Len(loop.runnable)
             p == loop.next
             k == loop.assistant.calls
  <2>4. n \in Nat /\ r \in Nat /\ p \in Nat /\ k \in Nat /\ p <= k + 1 /\ r + n = p - 1
    <3>1. n \in Nat /\ r \in Nat
      BY <2>1
    <3>2. p \in Nat /\ k \in Nat
      BY <2>1, <2>3
    <3>3. p <= k + 1 /\ r + n = p - 1
      BY <2>2
    <3> QED BY <3>1, <3>2, <3>3
  <2> HIDE DEF n, p, k, r
  <2>5. r \in Nat /\ r <= k /\ k \in Nat
    BY ONLY <2>4
  <2> QED BY <2>5 DEF k
<1>12. Len(loop'.results) = r
  BY <1>1
<1> HIDE DEF r
<1>13. Owed > 0 /\ Owed' = Owed - 1 /\ Cardinality(ResultsAfter(i)') = r
  BY <1>8, <1>9, <1>10, <1>11
<1>14. AnswerAnnounced'
  <2>1. Cardinality(ResultsAfter(i)') = Len(loop'.results) - Unannounced'
    BY <1>5, <1>11, <1>12, <1>13
  <2> QED BY <1>1, <1>8, <1>9, <2>1 DEF AnswerAnnounced
<1>15. OwedInv'
  BY <1>7, <1>14, EmitKeeps DEF OwedInv, OwedIs
<1>16. activeRun' = activeRun /\ (ended' <=> ended)
  BY DEF Emit, runVars
<1>17. activeRun /\ ~ended /\ ~Failed(loop.assistant)
  BY <1>1, <1>6, RunGoesOn DEF EndPhases, ResultPhases, HasCalls
<1>18. Stage = "answered" /\ Stage' = "answered"
  BY <1>1, <1>6, <1>16, <1>17 DEF Stage, Speaking, Asked, Failed, ResultPhases
<1> QED BY <1>13, <1>15, <1>18 DEF Contract!Result

(* Emitting announces a message, the end of the run or neither.            *)
LEMMA OwedEmits ==
    ASSUME AgentInv, MirrorInv, PendingInv, AnswersInv, OwedInv, Emit
    PROVE  OwedInv' /\ [Contract!ContractNext]_(Contract!contractVars)
<1>0. LoopTypeOK
  BY DEF AgentInv, TypeOK
<1>1. 1 \in 1 .. Len(loop.todo) /\ Head(loop.todo) = loop.todo[1]
  BY <1>0, RestOfEvents
<1>2. CASE Head(loop.todo).type \notin {"message_end", "agent_end"}
  BY <1>2, OwedEmitsOther DEF Contract!contractVars
<1>3. CASE Head(loop.todo).type = "agent_end"
  BY <1>3, OwedEmitsEnd DEF Contract!ContractNext
<1>4. CASE Head(loop.todo).type = "message_end"
  <2>1. \/ Speaking /\ Head(loop.todo).message.role = "user"
        \/ loop.pc = "responded" /\ Head(loop.todo).message = loop.assistant
        \/ /\ ToolPhase
           /\ Head(loop.todo).message.role = "toolResult"
           /\ Head(loop.todo).message.id[1] = loop.assistant.id[1]
    BY <1>1, <1>4 DEF OwedInv, EventsOfPhase
  <2>2. CASE Speaking /\ Head(loop.todo).message.role = "user"
    BY <1>4, <2>2, OwedEmitsUser DEF Contract!contractVars
  <2>3. CASE loop.pc = "responded" /\ Head(loop.todo).message = loop.assistant
    BY <1>4, <2>3, OwedEmitsAnswer DEF Contract!ContractNext
  <2>4. CASE /\ ToolPhase
             /\ Head(loop.todo).message.role = "toolResult"
             /\ Head(loop.todo).message.id[1] = loop.assistant.id[1]
    BY <1>4, <2>4, OwedEmitsResult DEF Contract!ContractNext
  <2> QED BY <2>1, <2>2, <2>3, <2>4
<1> QED BY <1>2, <1>3, <1>4

(* The public interface begins a run or leaves it as it is.                *)
LEMMA OwedInterface ==
    ASSUME AgentInv, AnswersInv, OwedInv, Interface, Reset => ~activeRun
    PROVE  OwedInv' /\ (UNCHANGED <<Stage, Owed>> \/ Contract!BeginRun)
<1>1. ASSUME NEW u \in UserMsgs, Prompt(u)
      PROVE  OwedInv' /\ Contract!BeginRun
  <2>1. <<User(u)>> \in Seq(Messages) /\ UserOnly(<<User(u)>>)
    BY UserQueued DEF AgentInv, TypeOK, InboxTypeOK, AnswersInv, QueuesHoldPrompts
  <2>2. StartRun(<<User(u)>>, FALSE)
    BY <1>1 DEF Prompt
  <2> QED BY <2>1, <2>2, OwedStarts
<1>2. CASE Continue
  <2>1. /\ Drained(steeringQueue) \in Seq(Messages) /\ Drained(followUpQueue) \in Seq(Messages)
        /\ <<>> \in Seq(Messages)
    BY QueueTyped DEF AgentInv, TypeOK, InboxTypeOK
  <2>2. UserOnly(Drained(steeringQueue)) /\ UserOnly(Drained(followUpQueue))
    BY DrainedUserOnly DEF AgentInv, TypeOK, InboxTypeOK, AnswersInv, QueuesHoldPrompts
  <2>3. UserOnly(<<>>)
    BY DEF UserOnly
  <2>4. \/ StartRun(<<>>, FALSE)
        \/ StartRun(Drained(steeringQueue), TRUE)
        \/ StartRun(Drained(followUpQueue), FALSE)
    BY <1>2 DEF Continue
  <2> QED BY <2>1, <2>2, <2>3, <2>4, OwedStarts
<1>3. ASSUME NEW u \in UserMsgs, Steer(u) \/ FollowUp(u)
      PROVE  OwedInv' /\ UNCHANGED <<Stage, Owed>>
  BY <1>3, OwedQuiet DEF Steer, FollowUp, stateVars, runVars
<1>4. CASE Abort \/ ClearAllQueues
  BY <1>4, OwedQuiet DEF Abort, ClearAllQueues, stateVars, runVars, histVars
<1>5. CASE Reset
  <2>1. /\ loop' = loop /\ messages' = <<>> /\ activeRun' = activeRun /\ ended' = ended
        /\ ~activeRun /\ loop.pc = "idle"
    BY <1>5 DEF Reset, runVars, histVars, AgentInv, RunHasLoop
  <2>2. Owed = 0 /\ Owed' = 0
    BY <2>1, NoneOwed, NothingOwed DEF ResultPhases
  <2>3. EventsOfPhase' /\ EndIsLast' /\ AnswerGood'
    BY <2>1 DEF OwedInv, EventsOfPhase, EndIsLast, AnswerGood, Speaking, ToolPhase
  <2>4. ~Answering'
    BY <2>1 DEF Answering, ResultPhases
  <2>5. OwedInv'
    BY <2>2, <2>3, <2>4 DEF OwedInv, OwedIs
  <2>6. Stage = "idle" /\ Stage' = "idle"
    BY <2>1 DEF Stage
  <2> QED BY <2>2, <2>5, <2>6
<1> QED BY <1>1, <1>2, <1>3, <1>4, <1>5 DEF Interface

(* Every step of the agent is a step of the contract or a stutter.         *)
LEMMA AgentStepFollows ==
    ASSUME ListenersFail = FALSE, AgentInv, MirrorInv, PendingInv, AnswersInv, OwedInv, [Next]_vars,
           [Reset => ~activeRun]_vars
    PROVE  OwedInv' /\ [Contract!ContractNext]_(Contract!contractVars)
<1> DEFINE Goal == OwedInv' /\ [Contract!ContractNext]_(Contract!contractVars)
<1>0. (OwedInv' /\ UNCHANGED <<Stage, Owed>>) => Goal
  BY DEF Contract!contractVars
<1>1. CASE Interface /\ (Reset => ~activeRun)
  BY <1>0, <1>1, OwedInterface DEF Contract!ContractNext
<1>2. CASE Emit
  BY <1>2, OwedEmits
<1>3. CASE InitialPoll \/ PollSteering \/ PollFollowUp
  BY <1>0, <1>3, OwedPolled DEF Contract!ContractNext
<1>4. CASE InjectPending
  BY <1>0, <1>4, OwedInjected
<1>5. CASE Request \/ StreamStart
  BY <1>0, <1>5, OwedAsked DEF Contract!ContractNext
<1>6. ASSUME NEW n \in 0 .. MaxCalls, NEW stop \in StopReasons, StreamDone(n, stop)
      PROVE  Goal
  BY <1>0, <1>6, OwedResponse
<1>7. CASE Responded
  BY <1>0, <1>7, OwedResponded
<1>8. CASE StartCall \/ PreparedCall \/ LaunchPrepared \/ CallsExecuted
  BY <1>0, <1>8, OwedCalls
<1>9. CASE ImmediateOutcome \/ FinalizeCall
  BY <1>0, <1>9, OwedOver
<1>10. CASE TurnEnd
  BY <1>0, <1>10, OwedTurnEnds
<1>11. CASE FinishRun
  BY <1>11, OwedSettles DEF Contract!ContractNext
<1>12. CASE StreamThrows
  BY <1>12, OwedThrows DEF Contract!ContractNext
<1>13. ~CallRejected /\ ~ListenerThrows /\ ~FailureListenerThrows
  BY DEF CallRejected, ListenerThrows, FailureListenerThrows, AnswersInv
<1>14. CASE ToolStep \/ UNCHANGED vars
  <2>1. UNCHANGED <<loop, messages, activeRun, ended>>
    BY <1>14 DEF ToolStep, ToolSettles, UpdateRejected, OrphanUpdate, OrphanSettles, vars, stateVars,
                 runVars, histVars
  <2> QED BY <1>0, <2>1, OwedQuiet
<1>15. UNCHANGED vars \/ (Next /\ (Reset => ~activeRun))
  OBVIOUS
<1> QED BY <1>1, <1>2, <1>3, <1>4, <1>5, <1>6, <1>7, <1>8, <1>9, <1>10, <1>11, <1>12, <1>13, <1>14,
           <1>15 DEF Next, LoopStep

(* Before the first run nothing is owed.                                   *)
LEMMA OwedInit == Init => OwedInv /\ Contract!ContractInit
<1> SUFFICES ASSUME Init PROVE OwedInv /\ Contract!ContractInit
  OBVIOUS
<1>1. messages = <<>> /\ loop.pc = "idle" /\ loop.todo = <<>> /\ activeRun = FALSE
  BY DEF Init, IdleLoop
<1>2. Owed = 0
  BY <1>1, NothingOwed
<1>3. \A i : i \notin 1 .. Len(loop.todo)
  BY <1>1
<1>4. EventsOfPhase /\ EndIsLast /\ AnswerGood /\ ~Answering
  BY <1>1, <1>3 DEF EventsOfPhase, EndIsLast, AnswerGood, Answering, ResultPhases
<1>5. Stage = "idle"
  BY <1>1 DEF Stage
<1> QED BY <1>2, <1>4, <1>5 DEF OwedInv, OwedIs, Contract!ContractInit

(* When no listener throws and reset() is not called during a run, every   *)
(* run goes through the stages of AgentContract: the model is not asked    *)
(* again, and the run does not end, while a result of its last answer is   *)
(* missing from the transcript; a failed response ends the run; and no run *)
(* begins beside another.                                                  *)
THEOREM AgentFollowsContract ==
    ASSUME ListenersFail = FALSE
    PROVE  Spec /\ ResetsBetweenRuns => FollowsContract
<1>1. AgentInv /\ MirrorInv /\ [Next]_vars /\ [Reset => ~activeRun]_vars => MirrorInv'
  BY MirrorStep
<1>2. AgentInv /\ PendingInv /\ [Next]_vars /\ [Reset => ~activeRun]_vars => PendingInv'
  BY PendingStep
<1>3. AgentInv /\ MirrorInv /\ PendingInv /\ AnswersInv /\ [Next]_vars /\ [Reset => ~activeRun]_vars
        => AnswersInv'
  BY AnswersStep
<1>4. AgentInv /\ MirrorInv /\ PendingInv /\ AnswersInv /\ OwedInv /\ [Next]_vars
        /\ [Reset => ~activeRun]_vars
        => OwedInv' /\ [Contract!ContractNext]_(Contract!contractVars)
  BY AgentStepFollows
<1> QED BY <1>1, <1>2, <1>3, <1>4, MirrorInit, PendingInit, AnswersInit, OwedInit, AgentInvariant, PTL
        DEF Spec, ResetsBetweenRuns, FollowsContract, Contract!ContractSpec
----------------------------------------------------------------------------
(* The messages sent.  What was drawn from a queue has come from its front *)
(* and stands in the order of sending; the queue holds the rest.           *)
Distinct(s) == \A i, j \in 1 .. Len(s) : s[i] = s[j] => i = j

HoldsRest(queue, s) ==
    /\ Len(queue) <= Len(s)
    /\ \A k \in 1 .. Len(queue) : queue[k] = s[Len(s) - Len(queue) + k]

DrawnInOrder(drawn, queue, s) ==
    /\ \A i \in 1 .. Len(s) - Len(queue) : \E k \in 1 .. Len(drawn) : drawn[k] = s[i]
    /\ \A k \in 1 .. Len(drawn), i \in 1 .. Len(s) : drawn[k] = s[i] => i <= Len(s) - Len(queue)
    /\ \A k, l \in 1 .. Len(drawn), i, j \in 1 .. Len(s) :
         drawn[k] = s[i] /\ drawn[l] = s[j] => (i < j <=> k < l)

InOrder(drawn, queue, s) == Distinct(s) /\ HoldsRest(queue, s) /\ DrawnInOrder(drawn, queue, s)

(* The elements of a sequence of messages with others at its end.          *)
LEMMA JoinedElements ==
    ASSUME NEW s \in Seq(Messages), NEW t \in Seq(Messages)
    PROVE  /\ s \o t \in Seq(Messages) /\ Len(s \o t) = Len(s) + Len(t) /\ Len(s) \in Nat /\ Len(t) \in Nat
           /\ \A k \in 1 .. Len(s \o t) :
                \/ k \in 1 .. Len(s) /\ (s \o t)[k] = s[k]
                \/ k \notin 1 .. Len(s) /\ k - Len(s) \in 1 .. Len(t) /\ (s \o t)[k] = t[k - Len(s)]
           /\ \A k \in 1 .. Len(s) : k \in 1 .. Len(s \o t) /\ (s \o t)[k] = s[k]
           /\ \A k \in 1 .. Len(t) : Len(s) + k \in 1 .. Len(s \o t) /\ (s \o t)[Len(s) + k] = t[k]
<1>1. s \o t \in Seq(Messages) /\ Len(s \o t) = Len(s) + Len(t) /\ Len(s) \in Nat /\ Len(t) \in Nat
  OBVIOUS
<1>2. \A k \in 1 .. Len(s \o t) :
         \/ k \in 1 .. Len(s) /\ (s \o t)[k] = s[k]
         \/ k \notin 1 .. Len(s) /\ k - Len(s) \in 1 .. Len(t) /\ (s \o t)[k] = t[k - Len(s)]
  OBVIOUS
<1>3. \A k \in 1 .. Len(s) : k \in 1 .. Len(s \o t) /\ (s \o t)[k] = s[k]
  OBVIOUS
<1>4. \A k \in 1 .. Len(t) : Len(s) + k \in 1 .. Len(s \o t) /\ (s \o t)[Len(s) + k] = t[k]
  OBVIOUS
<1> QED BY <1>1, <1>2, <1>3, <1>4

(* Other messages may come after what was drawn.                           *)
LEMMA OrderAdds ==
    ASSUME NEW drawn \in Seq(Messages), NEW queue \in Seq(Messages), NEW s \in Seq(Messages),
           InOrder(drawn, queue, s), NEW more \in Seq(Messages),
           \A k \in 1 .. Len(more), i \in 1 .. Len(s) : more[k] # s[i]
    PROVE  InOrder(drawn \o more, queue, s)
<1>0. PICK d : d = drawn \o more
  OBVIOUS
<1>1. /\ \A k \in 1 .. Len(d) :
           \/ k \in 1 .. Len(drawn) /\ d[k] = drawn[k]
           \/ k - Len(drawn) \in 1 .. Len(more) /\ d[k] = more[k - Len(drawn)]
      /\ \A k \in 1 .. Len(drawn) : k \in 1 .. Len(d) /\ d[k] = drawn[k]
  <2>1. /\ \A k \in 1 .. Len(drawn \o more) :
             \/ k \in 1 .. Len(drawn) /\ (drawn \o more)[k] = drawn[k]
             \/ k - Len(drawn) \in 1 .. Len(more) /\ (drawn \o more)[k] = more[k - Len(drawn)]
        /\ \A k \in 1 .. Len(drawn) : k \in 1 .. Len(drawn \o more) /\ (drawn \o more)[k] = drawn[k]
    BY JoinedElements
  <2> QED BY <1>0, <2>1
<1>2. \A k \in 1 .. Len(d), i \in 1 .. Len(s) : d[k] = s[i] => k \in 1 .. Len(drawn) /\ drawn[k] = s[i]
  BY <1>1
<1>3. DrawnInOrder(d, queue, s)
  BY <1>1, <1>2 DEF DrawnInOrder, InOrder
<1> QED BY <1>0, <1>3 DEF InOrder

(* A message is sent: it goes to the end of the queue.                     *)
LEMMA OrderSends ==
    ASSUME NEW drawn \in Seq(Messages), NEW queue \in Seq(Messages), NEW s \in Seq(Messages),
           InOrder(drawn, queue, s), NEW m \in Messages,
           \A i \in 1 .. Len(s) : s[i] # m, \A k \in 1 .. Len(drawn) : drawn[k] # m
    PROVE  InOrder(drawn, Append(queue, m), Append(s, m))
<1> DEFINE t == Append(s, m)
           q == Append(queue, m)
<1>1. /\ Len(t) = Len(s) + 1 /\ Len(s) \in Nat /\ t[Len(s) + 1] = m /\ \A i \in 1 .. Len(s) : t[i] = s[i]
      /\ Len(q) = Len(queue) + 1 /\ Len(queue) \in Nat /\ q[Len(queue) + 1] = m
      /\ \A i \in 1 .. Len(queue) : q[i] = queue[i]
  OBVIOUS
<1>2. Len(t) - Len(q) = Len(s) - Len(queue)
  BY <1>1
<1> HIDE DEF t, q
<1>3. \A i \in 1 .. Len(t) : (i \in 1 .. Len(s) /\ t[i] = s[i]) \/ (i = Len(s) + 1 /\ t[i] = m)
  <2>1. \A n \in Nat : \A i \in 1 .. n + 1 : i \in 1 .. n \/ i = n + 1
    OBVIOUS
  <2>2. \A i \in 1 .. Len(t) : i \in 1 .. Len(s) \/ i = Len(s) + 1
    BY <1>1, <2>1
  <2> QED BY <1>1, <2>2
<1>4. Distinct(t)
  BY <1>3 DEF InOrder, Distinct
<1>5. HoldsRest(q, t)
  <2>1. ASSUME NEW k \in 1 .. Len(q) PROVE q[k] = t[Len(t) - Len(q) + k]
    <3>1. CASE k \in 1 .. Len(queue)
      <4>1. Len(s) - Len(queue) + k \in 1 .. Len(s) /\ queue[k] = s[Len(s) - Len(queue) + k]
        BY <1>1, <3>1 DEF InOrder, HoldsRest
      <4> QED BY <1>1, <1>2, <3>1, <4>1
    <3>2. CASE k = Len(queue) + 1
      BY <1>1, <3>2
    <3> QED BY <1>1, <3>1, <3>2
  <2> QED BY <1>1, <2>1 DEF InOrder, HoldsRest
<1>6. \A k \in 1 .. Len(drawn), i \in 1 .. Len(t) : drawn[k] = t[i] => i \in 1 .. Len(s) /\ drawn[k] = s[i]
  BY <1>3
<1>7. \A i \in 1 .. Len(s) - Len(queue) : i \in 1 .. Len(s) /\ t[i] = s[i]
  BY <1>1 DEF InOrder, HoldsRest
<1>8. DrawnInOrder(drawn, q, t)
  BY <1>2, <1>6, <1>7 DEF DrawnInOrder, InOrder
<1> QED BY <1>4, <1>5, <1>8 DEF InOrder, t, q

(* A queue is drained from its front.                                      *)
LEMMA DrainedAndKept ==
    ASSUME NEW queue \in Seq(Messages)
    PROVE  /\ Drained(queue) \in Seq(Messages) /\ Kept(queue) \in Seq(Messages)
           /\ Len(queue) \in Nat /\ Len(Drained(queue)) \in Nat /\ Len(Kept(queue)) \in Nat
           /\ Len(queue) = Len(Drained(queue)) + Len(Kept(queue))
           /\ \A k \in 1 .. Len(Drained(queue)) : k \in 1 .. Len(queue) /\ Drained(queue)[k] = queue[k]
           /\ \A k \in 1 .. Len(Kept(queue)) :
                Len(Drained(queue)) + k \in 1 .. Len(queue) /\ Kept(queue)[k] = queue[Len(Drained(queue)) + k]
<1>1. CASE QueueMode = "all" \/ queue = <<>>
  <2>0. <<>> \in Seq(Messages)
    OBVIOUS
  <2>1. PICK none \in Seq(Messages) : none = <<>> /\ Len(none) = 0
    BY <2>0
  <2>2. Drained(queue) = queue /\ Kept(queue) = none
    BY <1>1, <2>1 DEF Drained, Kept
  <2> QED BY <2>1, <2>2
<1>2. CASE ~(QueueMode = "all" \/ queue = <<>>)
  <2>0. PICK m \in Messages : m = Head(queue) /\ m = queue[1]
    BY <1>2
  <2>4. <<m>> \in Seq(Messages)
    OBVIOUS
  <2>1. PICK one \in Seq(Messages) : one = <<Head(queue)>> /\ Len(one) = 1 /\ one[1] = queue[1]
    BY <2>0, <2>4
  <2>2. Drained(queue) = one /\ Kept(queue) = Tail(queue)
    BY <1>2, <2>1 DEF Drained, Kept
  <2>3. /\ Tail(queue) \in Seq(Messages) /\ Len(queue) = 1 + Len(Tail(queue)) /\ Len(queue) \in Nat
        /\ \A k \in 1 .. Len(Tail(queue)) : 1 + k \in 1 .. Len(queue) /\ Tail(queue)[k] = queue[1 + k]
    BY <1>2
  <2> QED BY <2>1, <2>2, <2>3
<1> QED BY <1>1, <1>2

(* What is drained comes after what was drawn.                             *)
LEMMA OrderDrains ==
    ASSUME NEW drawn \in Seq(Messages), NEW queue \in Seq(Messages), NEW s \in Seq(Messages),
           InOrder(drawn, queue, s)
    PROVE  InOrder(drawn \o Drained(queue), Kept(queue), s)
<1>1. PICK x \in Seq(Messages) : x = Drained(queue)
  BY DrainedAndKept
<1>2. PICK rest \in Seq(Messages) : rest = Kept(queue)
  BY DrainedAndKept
<1>3. PICK d \in Seq(Messages) : d = drawn \o x
  BY JoinedElements
<1>4. PICK c \in Nat : c = Len(s) - Len(queue) /\ Len(s) \in Nat
  <2>1. Len(s) \in Nat /\ Len(queue) \in Nat /\ Len(queue) <= Len(s)
    BY DEF InOrder, HoldsRest
  <2>2. Len(s) - Len(queue) \in Nat
    BY <2>1
  <2> QED BY <2>1, <2>2
<1>5. /\ Len(queue) \in Nat /\ Len(x) \in Nat /\ Len(rest) \in Nat /\ Len(drawn) \in Nat
      /\ Len(queue) = Len(x) + Len(rest) /\ Len(s) - Len(rest) = c + Len(x)
      /\ \A k \in 1 .. Len(x) : k \in 1 .. Len(queue) /\ x[k] = queue[k]
      /\ \A k \in 1 .. Len(rest) : Len(x) + k \in 1 .. Len(queue) /\ rest[k] = queue[Len(x) + k]
  <2>1. /\ Len(queue) \in Nat /\ Len(x) \in Nat /\ Len(rest) \in Nat /\ Len(drawn) \in Nat
        /\ Len(queue) = Len(x) + Len(rest)
    BY <1>1, <1>2, DrainedAndKept
  <2>2. Len(s) - Len(rest) = c + Len(x)
    BY <1>4, <2>1
  <2>3. /\ \A k \in 1 .. Len(x) : k \in 1 .. Len(queue) /\ x[k] = queue[k]
        /\ \A k \in 1 .. Len(rest) : Len(x) + k \in 1 .. Len(queue) /\ rest[k] = queue[Len(x) + k]
    BY <1>1, <1>2, DrainedAndKept
  <2> QED BY <2>1, <2>2, <2>3
<1>6. \A k \in 1 .. Len(queue) : queue[k] = s[c + k] /\ c + k \in 1 .. Len(s)
  BY <1>4, <1>5 DEF InOrder, HoldsRest
<1>7. HoldsRest(rest, s)
  <2>1. ASSUME NEW k \in 1 .. Len(rest) PROVE rest[k] = s[Len(s) - Len(rest) + k]
    <3>1. rest[k] = s[c + (Len(x) + k)]
      BY <1>5, <1>6
    <3>2. c + (Len(x) + k) = Len(s) - Len(rest) + k
      <4>1. \A a, b, e, f, n \in Nat : a - b = e + f => e + (f + n) = a - b + n
        OBVIOUS
      <4> QED BY <1>4, <1>5, <4>1
    <3> QED BY <3>1, <3>2
  <2> QED BY <1>4, <1>5, <2>1 DEF HoldsRest
<1>8. /\ \A k \in 1 .. Len(d) :
           \/ k \in 1 .. Len(drawn) /\ d[k] = drawn[k]
           \/ k \notin 1 .. Len(drawn) /\ k - Len(drawn) \in 1 .. Len(x) /\ d[k] = x[k - Len(drawn)]
      /\ \A k \in 1 .. Len(drawn) : k \in 1 .. Len(d) /\ d[k] = drawn[k]
      /\ \A k \in 1 .. Len(x) : Len(drawn) + k \in 1 .. Len(d) /\ d[Len(drawn) + k] = x[k]
  BY <1>3, JoinedElements
<1>9. ASSUME NEW k \in 1 .. Len(d), NEW i \in 1 .. Len(s), d[k] = s[i]
      PROVE  \/ k \in 1 .. Len(drawn) /\ drawn[k] = s[i] /\ i <= c
             \/ k > Len(drawn) /\ i = c + (k - Len(drawn)) /\ i <= c + Len(x)
  <2>1. CASE k \in 1 .. Len(drawn) /\ d[k] = drawn[k]
    BY <1>4, <1>9, <2>1 DEF InOrder, DrawnInOrder
  <2>2. CASE k \notin 1 .. Len(drawn) /\ k - Len(drawn) \in 1 .. Len(x) /\ d[k] = x[k - Len(drawn)]
    <3>1. d[k] = s[c + (k - Len(drawn))] /\ c + (k - Len(drawn)) \in 1 .. Len(s)
      BY <1>5, <1>6, <2>2
    <3>2. i = c + (k - Len(drawn))
      BY <1>9, <3>1 DEF InOrder, Distinct
    <3>3. k > Len(drawn) /\ c + (k - Len(drawn)) <= c + Len(x)
      BY <1>5, <2>2
    <3> QED BY <3>2, <3>3
  <2> QED BY <1>8, <2>1, <2>2
<1>10. ASSUME NEW i \in 1 .. Len(s) - Len(rest) PROVE \E k \in 1 .. Len(d) : d[k] = s[i]
  <2>1. CASE i <= c
    <3>1. i \in 1 .. Len(s) - Len(queue)
      BY <1>4, <1>5, <2>1
    <3>2. PICK k \in 1 .. Len(drawn) : drawn[k] = s[i]
      BY <3>1 DEF InOrder, DrawnInOrder
    <3> QED BY <1>8, <3>2
  <2>2. CASE i > c
    <3>1. PICK k \in 1 .. Len(x) : c + k = i
      <4>1. i - c \in 1 .. Len(x) /\ c + (i - c) = i
        BY <1>5, <2>2
      <4> QED BY <4>1
    <3>2. d[Len(drawn) + k] = s[i] /\ Len(drawn) + k \in 1 .. Len(d)
      BY <1>5, <1>6, <1>8, <3>1
    <3> QED BY <3>2
  <2> QED BY <1>4, <1>5, <2>1, <2>2
<1>11. ASSUME NEW k \in 1 .. Len(d), NEW l \in 1 .. Len(d), NEW i \in 1 .. Len(s), NEW j \in 1 .. Len(s),
              d[k] = s[i], d[l] = s[j]
       PROVE  i < j <=> k < l
  <2>1. \/ k \in 1 .. Len(drawn) /\ drawn[k] = s[i] /\ i <= c
        \/ k > Len(drawn) /\ i = c + (k - Len(drawn))
    BY <1>9, <1>11
  <2>2. \/ l \in 1 .. Len(drawn) /\ drawn[l] = s[j] /\ j <= c
        \/ l > Len(drawn) /\ j = c + (l - Len(drawn))
    BY <1>9, <1>11
  <2>3. CASE k \in 1 .. Len(drawn) /\ drawn[k] = s[i] /\ l \in 1 .. Len(drawn) /\ drawn[l] = s[j]
    BY <2>3 DEF InOrder, DrawnInOrder
  <2>4. k \in Nat /\ l \in Nat /\ i \in Nat /\ j \in Nat
    OBVIOUS
  <2>5. CASE k \in 1 .. Len(drawn) /\ i <= c /\ l > Len(drawn) /\ j = c + (l - Len(drawn))
    <3>1. k < l /\ i < j
      BY <1>4, <1>5, <2>4, <2>5
    <3> QED BY <3>1
  <2>6. CASE k > Len(drawn) /\ i = c + (k - Len(drawn)) /\ l \in 1 .. Len(drawn) /\ j <= c
    <3>1. ~(k < l) /\ ~(i < j)
      BY <1>4, <1>5, <2>4, <2>6
    <3> QED BY <3>1
  <2>7. CASE k > Len(drawn) /\ i = c + (k - Len(drawn)) /\ l > Len(drawn) /\ j = c + (l - Len(drawn))
    <3>1. \A n, a, b, z \in Nat : n + (a - z) < n + (b - z) <=> a < b
      OBVIOUS
    <3>2. c \in Nat /\ Len(drawn) \in Nat
      BY <1>4, <1>5
    <3> QED BY <2>4, <2>7, <3>1, <3>2
  <2> QED BY <2>1, <2>2, <2>3, <2>5, <2>6, <2>7
<1>12. DrawnInOrder(d, rest, s)
  <2>1. ASSUME NEW k \in 1 .. Len(d), NEW i \in 1 .. Len(s), d[k] = s[i]
        PROVE  i <= Len(s) - Len(rest)
    <3>1. i <= c \/ i <= c + Len(x)
      BY <1>9, <2>1
    <3> QED BY <1>4, <1>5, <3>1
  <2>2. \A k \in 1 .. Len(d), i \in 1 .. Len(s) : d[k] = s[i] => i <= Len(s) - Len(rest)
    BY <2>1
  <2>3. \A i \in 1 .. Len(s) - Len(rest) : \E k \in 1 .. Len(d) : d[k] = s[i]
    BY <1>10
  <2>4. \A k, l \in 1 .. Len(d), i, j \in 1 .. Len(s) : d[k] = s[i] /\ d[l] = s[j] => (i < j <=> k < l)
    BY <1>11
  <2> QED BY <2>2, <2>3, <2>4 DEF DrawnInOrder
<1> QED BY <1>1, <1>2, <1>3, <1>7, <1>12 DEF InOrder

Settled == IF Busy THEN loop.context \o loop.results ELSE messages
Drawn   == Settled \o loop.pendingMessages

Ways == {"prompt", "steer", "followUp"}

(* A user's message was sent one way, and only what was sent is drawn.     *)
SentApart ==
    \A v, w \in Ways : \A i \in 1 .. Len(sent[v]), j \in 1 .. Len(sent[w]) : sent[v][i] = sent[w][j] => v = w

SentByUser == \A w \in Ways : \A i \in 1 .. Len(sent[w]) : \E u \in UserMsgs : sent[w][i] = User(u)

DrawnWasSent ==
    \A k \in 1 .. Len(Drawn) : Drawn[k].role = "user" =>
        \E w \in Ways : \E i \in 1 .. Len(sent[w]) : sent[w][i] = Drawn[k]

InjectedAtOnce == loop.pc \notin {"firstTurn", "turn"} => loop.pendingMessages = <<>>

SentInv ==
    /\ InOrder(Drawn, steeringQueue, sent.steer) /\ InOrder(Drawn, followUpQueue, sent.followUp)
    /\ SentApart /\ SentByUser /\ DrawnWasSent /\ InjectedAtOnce

(* What was settled, drawn and sent are messages.                          *)
LEMMA DrawnTyped ==
    ASSUME AgentInv
    PROVE  /\ Settled \in Seq(Messages) /\ Drawn \in Seq(Messages)
           /\ steeringQueue \in Seq(Messages) /\ followUpQueue \in Seq(Messages)
           /\ \A w \in Ways : sent[w] \in Seq(Messages)
           /\ loop.pendingMessages = <<>> => Drawn = Settled
<1>1. /\ loop.context \in Seq(Messages) /\ loop.results \in Seq(Messages)
      /\ loop.pendingMessages \in Seq(Messages) /\ messages \in Seq(Messages)
  BY FieldsTyped DEF AgentInv, TypeOK, StateTypeOK
<1>2. Settled \in Seq(Messages)
  BY <1>1, MessagesConcat DEF Settled
<1>3. Drawn \in Seq(Messages) /\ (loop.pendingMessages = <<>> => Drawn = Settled)
  BY <1>1, <1>2, MessagesConcat, ConcatEmptySeq DEF Drawn
<1>4. /\ steeringQueue \in Seq(Messages) /\ followUpQueue \in Seq(Messages)
      /\ \A w \in Ways : sent[w] \in Seq(Messages)
  BY DEF AgentInv, TypeOK, InboxTypeOK, HistoryTypeOK, Ways
<1> QED BY <1>2, <1>3, <1>4

(* What there is in two sequences joined.                                  *)
LEMMA JoinedFrom ==
    ASSUME NEW s \in Seq(Messages), NEW t \in Seq(Messages), NEW k \in 1 .. Len(s \o t)
    PROVE  (\E l \in 1 .. Len(s) : (s \o t)[k] = s[l]) \/ (\E l \in 1 .. Len(t) : (s \o t)[k] = t[l])
<1>1. \/ k \in 1 .. Len(s) /\ (s \o t)[k] = s[k]
      \/ k - Len(s) \in 1 .. Len(t) /\ (s \o t)[k] = t[k - Len(s)]
  BY JoinedElements
<1> QED BY <1>1

(* The parts of the invariant after a step.                                *)
LEMMA SentNext ==
    ASSUME NEW e, Drawn' = e, SentApart', SentByUser', InjectedAtOnce',
           InOrder(e, steeringQueue', sent'.steer), InOrder(e, followUpQueue', sent'.followUp),
           \A k \in 1 .. Len(e) : e[k].role = "user" =>
              \E w \in Ways : \E i \in 1 .. Len(sent'[w]) : sent'[w][i] = e[k]
    PROVE  SentInv'
<1>1. InOrder(Drawn, steeringQueue, sent.steer)'
  <2>1. Distinct(sent.steer)' = Distinct(sent'.steer)
    BY DEF Distinct
  <2>2. HoldsRest(steeringQueue, sent.steer)' = HoldsRest(steeringQueue', sent'.steer)
    BY DEF HoldsRest
  <2>3. DrawnInOrder(Drawn, steeringQueue, sent.steer)' = DrawnInOrder(Drawn', steeringQueue', sent'.steer)
    BY DEF DrawnInOrder
  <2> QED BY <2>1, <2>2, <2>3 DEF InOrder
<1>3. InOrder(Drawn, followUpQueue, sent.followUp)'
  <2>1. Distinct(sent.followUp)' = Distinct(sent'.followUp)
    BY DEF Distinct
  <2>2. HoldsRest(followUpQueue, sent.followUp)' = HoldsRest(followUpQueue', sent'.followUp)
    BY DEF HoldsRest
  <2>3. DrawnInOrder(Drawn, followUpQueue, sent.followUp)' = DrawnInOrder(Drawn', followUpQueue', sent'.followUp)
    BY DEF DrawnInOrder
  <2> QED BY <2>1, <2>2, <2>3 DEF InOrder
<1>2. DrawnWasSent'
  BY DEF DrawnWasSent
<1> QED BY <1>1, <1>2, <1>3 DEF SentInv

(* Messages of the model, of tools and of failures come after what was     *)
(* drawn.                                                                  *)
LEMMA OthersAdded ==
    ASSUME AgentInv, SentInv, UNCHANGED <<sent, steeringQueue, followUpQueue>>,
           NEW more \in Seq(Messages), \A k \in 1 .. Len(more) : more[k].role # "user",
           Drawn' = Drawn \o more, InjectedAtOnce'
    PROVE  SentInv'
<1>1. PICK d \in Seq(Messages) : d = Drawn
  BY DrawnTyped
<1>2. /\ sent.steer \in Seq(Messages) /\ sent.followUp \in Seq(Messages)
      /\ steeringQueue \in Seq(Messages) /\ followUpQueue \in Seq(Messages)
  BY DrawnTyped DEF Ways
<1>3. \A w \in Ways : \A k \in 1 .. Len(more), i \in 1 .. Len(sent[w]) : more[k] # sent[w][i]
  <2>1. \A u : User(u).role = "user"
    BY DEF User
  <2>2. \A w \in Ways : \A i \in 1 .. Len(sent[w]) : sent[w][i].role = "user"
    BY <2>1 DEF SentInv, SentByUser
  <2> QED BY <2>2
<1>4. InOrder(d \o more, steeringQueue, sent.steer) /\ InOrder(d \o more, followUpQueue, sent.followUp)
  BY <1>1, <1>2, <1>3, OrderAdds DEF SentInv, Ways
<1>5. \A k \in 1 .. Len(d \o more) :
         (\E l \in 1 .. Len(d) : (d \o more)[k] = d[l]) \/ (\E l \in 1 .. Len(more) : (d \o more)[k] = more[l])
  BY JoinedFrom
<1>6. PICK e : e = d \o more
  OBVIOUS
<1>7. \A k \in 1 .. Len(e) : e[k].role = "user" => \E l \in 1 .. Len(d) : e[k] = d[l]
  BY <1>5, <1>6
<1>8. \A k \in 1 .. Len(e) : e[k].role = "user" => \E w \in Ways : \E i \in 1 .. Len(sent[w]) : sent[w][i] = e[k]
  BY <1>1, <1>7 DEF SentInv, DrawnWasSent
<1>9. Drawn' = e
  BY <1>1, <1>6
<1>10. SentApart' /\ SentByUser'
  BY DEF SentInv, SentApart, SentByUser
<1> QED BY <1>4, <1>6, <1>8, <1>9, <1>10, SentNext

(* Nothing is drawn or sent.                                               *)
LEMMA DrawnSame ==
    ASSUME SentInv, UNCHANGED <<sent, steeringQueue, followUpQueue>>, Drawn' = Drawn, InjectedAtOnce'
    PROVE  SentInv'
BY DEF SentInv, SentApart, SentByUser, DrawnWasSent

(* The elements of a queue were sent its way.                              *)
LEMMA DrainedWasSent ==
    ASSUME NEW queue \in Seq(Messages), NEW s \in Seq(Messages), HoldsRest(queue, s),
           NEW k \in 1 .. Len(Drained(queue))
    PROVE  \E i \in 1 .. Len(s) : Drained(queue)[k] = s[i]
<1>1. Drained(queue)[k] = queue[k] /\ k \in 1 .. Len(queue) /\ Len(queue) \in Nat /\ Len(s) \in Nat
  BY DrainedAndKept
<1>2. queue[k] = s[Len(s) - Len(queue) + k] /\ Len(queue) <= Len(s)
  BY <1>1 DEF HoldsRest
<1>3. Len(s) - Len(queue) + k \in 1 .. Len(s)
  BY <1>1, <1>2
<1> QED BY <1>1, <1>2, <1>3

WasSent(d) ==
    \A k \in 1 .. Len(d) : d[k].role = "user" => \E x \in Ways : \E i \in 1 .. Len(sent[x]) : sent[x][i] = d[k]

(* What is drained is in order with its way, and strange to the other.     *)
LEMMA DrainedInOrder ==
    ASSUME NEW d \in Seq(Messages), NEW v \in Ways, NEW w \in Ways, v # w, SentApart,
           NEW queue \in Seq(Messages), NEW other \in Seq(Messages),
           sent[v] \in Seq(Messages), sent[w] \in Seq(Messages),
           InOrder(d, queue, sent[v]), InOrder(d, other, sent[w]), WasSent(d)
    PROVE  /\ InOrder(d \o Drained(queue), Kept(queue), sent[v]) /\ InOrder(d \o Drained(queue), other, sent[w])
           /\ WasSent(d \o Drained(queue))
<1>1. InOrder(d \o Drained(queue), Kept(queue), sent[v])
  BY OrderDrains
<1>2. PICK more \in Seq(Messages) : more = Drained(queue)
  BY DrainedAndKept
<1>3. \A k \in 1 .. Len(more) : \E i \in 1 .. Len(sent[v]) : more[k] = sent[v][i]
  BY <1>2, DrainedWasSent DEF InOrder
<1>4. \A k \in 1 .. Len(more), i \in 1 .. Len(sent[w]) : more[k] # sent[w][i]
  BY <1>3 DEF SentApart
<1>5. InOrder(d \o more, other, sent[w])
  BY <1>4, OrderAdds
<1>6. \A k \in 1 .. Len(d \o more) :
         (\E l \in 1 .. Len(d) : (d \o more)[k] = d[l]) \/ (\E l \in 1 .. Len(more) : (d \o more)[k] = more[l])
  BY JoinedFrom
<1>7. PICK e : e = d \o more
  OBVIOUS
<1>8. \A k \in 1 .. Len(e) : e[k].role = "user" => \E x \in Ways : \E i \in 1 .. Len(sent[x]) : sent[x][i] = e[k]
  <2>1. ASSUME NEW k \in 1 .. Len(e), e[k].role = "user"
        PROVE  \E x \in Ways : \E i \in 1 .. Len(sent[x]) : sent[x][i] = e[k]
    <3>1. CASE \E l \in 1 .. Len(d) : e[k] = d[l]
      BY <2>1, <3>1 DEF WasSent
    <3>2. CASE \E l \in 1 .. Len(more) : e[k] = more[l]
      BY <1>3, <3>2
    <3> QED BY <1>6, <1>7, <3>1, <3>2
  <2> QED BY <2>1
<1> QED BY <1>1, <1>2, <1>5, <1>7, <1>8 DEF WasSent

(* A queue is drained.                                                     *)
LEMMA QueueDrawn ==
    ASSUME AgentInv, SentInv, UNCHANGED sent, InjectedAtOnce',
           \/ /\ Drawn' = Drawn \o Drained(steeringQueue) /\ steeringQueue' = Kept(steeringQueue)
              /\ UNCHANGED followUpQueue
           \/ /\ Drawn' = Drawn \o Drained(followUpQueue) /\ followUpQueue' = Kept(followUpQueue)
              /\ UNCHANGED steeringQueue
    PROVE  SentInv'
<1>1. PICK d \in Seq(Messages) : d = Drawn
  BY DrawnTyped
<1>2. /\ sent["steer"] \in Seq(Messages) /\ sent["followUp"] \in Seq(Messages)
      /\ steeringQueue \in Seq(Messages) /\ followUpQueue \in Seq(Messages)
      /\ sent.steer = sent["steer"] /\ sent.followUp = sent["followUp"]
      /\ "steer" \in Ways /\ "followUp" \in Ways
  BY DrawnTyped DEF Ways
<1>3. /\ InOrder(d, steeringQueue, sent["steer"]) /\ InOrder(d, followUpQueue, sent["followUp"])
      /\ SentApart /\ WasSent(d)
  BY <1>1, <1>2 DEF SentInv, DrawnWasSent, WasSent
<1>4. CASE Drawn' = Drawn \o Drained(steeringQueue) /\ steeringQueue' = Kept(steeringQueue) /\ UNCHANGED followUpQueue
  <2>1. PICK e : e = d \o Drained(steeringQueue)
    OBVIOUS
  <2>2. /\ InOrder(d \o Drained(steeringQueue), Kept(steeringQueue), sent["steer"])
        /\ InOrder(d \o Drained(steeringQueue), followUpQueue, sent["followUp"])
        /\ WasSent(d \o Drained(steeringQueue))
    <3>1. PICK v \in Ways : v = "steer"
      BY <1>2
    <3>2. PICK w \in Ways : w = "followUp"
      BY <1>2
    <3>3. v # w /\ sent[v] \in Seq(Messages) /\ sent[w] \in Seq(Messages)
      BY <1>2, <3>1, <3>2
    <3>4. InOrder(d, steeringQueue, sent[v]) /\ InOrder(d, followUpQueue, sent[w]) /\ SentApart
      BY <1>3, <3>1, <3>2
    <3>5. /\ InOrder(d \o Drained(steeringQueue), Kept(steeringQueue), sent[v])
          /\ InOrder(d \o Drained(steeringQueue), followUpQueue, sent[w])
          /\ WasSent(d \o Drained(steeringQueue))
      BY ONLY <1>2, <1>3, <3>3, <3>4, DrainedInOrder, d \in Seq(Messages), v \in Ways, w \in Ways
    <3> QED BY <3>1, <3>2, <3>5
  <2>3. /\ InOrder(e, Kept(steeringQueue), sent["steer"]) /\ InOrder(e, followUpQueue, sent["followUp"])
        /\ \A k \in 1 .. Len(e) : e[k].role = "user" =>
              \E x \in Ways : \E i \in 1 .. Len(sent[x]) : sent[x][i] = e[k]
    BY <2>1, <2>2 DEF WasSent
  <2>4. Drawn' = e
    BY <1>1, <1>4, <2>1
  <2>5. SentApart' /\ SentByUser'
    BY DEF SentInv, SentApart, SentByUser
  <2> QED BY <1>2, <1>4, <2>3, <2>4, <2>5, SentNext
<1>5. CASE Drawn' = Drawn \o Drained(followUpQueue) /\ followUpQueue' = Kept(followUpQueue) /\ UNCHANGED steeringQueue
  <2>1. PICK e : e = d \o Drained(followUpQueue)
    OBVIOUS
  <2>2. /\ InOrder(d \o Drained(followUpQueue), Kept(followUpQueue), sent["followUp"])
        /\ InOrder(d \o Drained(followUpQueue), steeringQueue, sent["steer"])
        /\ WasSent(d \o Drained(followUpQueue))
    <3>1. PICK v \in Ways : v = "followUp"
      BY <1>2
    <3>2. PICK w \in Ways : w = "steer"
      BY <1>2
    <3>3. v # w /\ sent[v] \in Seq(Messages) /\ sent[w] \in Seq(Messages)
      BY <1>2, <3>1, <3>2
    <3>4. InOrder(d, followUpQueue, sent[v]) /\ InOrder(d, steeringQueue, sent[w]) /\ SentApart
      BY <1>3, <3>1, <3>2
    <3>5. /\ InOrder(d \o Drained(followUpQueue), Kept(followUpQueue), sent[v])
          /\ InOrder(d \o Drained(followUpQueue), steeringQueue, sent[w])
          /\ WasSent(d \o Drained(followUpQueue))
      BY ONLY <1>2, <1>3, <3>3, <3>4, DrainedInOrder, d \in Seq(Messages), v \in Ways, w \in Ways
    <3> QED BY <3>1, <3>2, <3>5
  <2>3. /\ InOrder(e, Kept(followUpQueue), sent["followUp"]) /\ InOrder(e, steeringQueue, sent["steer"])
        /\ \A k \in 1 .. Len(e) : e[k].role = "user" =>
              \E x \in Ways : \E i \in 1 .. Len(sent[x]) : sent[x][i] = e[k]
    BY <2>1, <2>2 DEF WasSent
  <2>4. Drawn' = e
    BY <1>1, <1>5, <2>1
  <2>5. SentApart' /\ SentByUser'
    BY DEF SentInv, SentApart, SentByUser
  <2> QED BY <1>2, <1>5, <2>3, <2>4, <2>5, SentNext
<1> QED BY <1>4, <1>5

(* What has not been sent is nowhere.                                      *)
LEMMA NotYetDrawn ==
    ASSUME AgentInv, SentInv, NEW u \in UserMsgs, Unsent(u)
    PROVE  /\ \A w \in Ways : \A i \in 1 .. Len(sent[w]) : sent[w][i] # User(u)
           /\ \A k \in 1 .. Len(Drawn) : Drawn[k] # User(u)
<1>1. DOMAIN sent = Ways
  BY DEF AgentInv, TypeOK, HistoryTypeOK, Ways
<1>2. \A w \in Ways : \A i \in 1 .. Len(sent[w]) : sent[w][i] # User(u)
  BY <1>1 DEF Unsent, User
<1>3. User(u).role = "user"
  BY DEF User
<1>4. ASSUME NEW k \in 1 .. Len(Drawn), Drawn[k] = User(u) PROVE FALSE
  BY <1>2, <1>3, <1>4 DEF SentInv, DrawnWasSent
<1> QED BY <1>2, <1>4

(* A message is sent one way more.                                         *)
LEMMA OneSent ==
    ASSUME AgentInv, SentInv, NEW u \in UserMsgs, Unsent(u), NEW v \in Ways,
           sent' = [sent EXCEPT ![v] = Append(@, User(u))]
    PROVE  /\ SentApart' /\ SentByUser'
           /\ sent'[v] = Append(sent[v], User(u)) /\ \A w \in Ways : w # v => sent'[w] = sent[w]
           /\ \A w \in Ways : \A i \in 1 .. Len(sent[w]) : i \in 1 .. Len(sent'[w]) /\ sent'[w][i] = sent[w][i]
           /\ \E i \in 1 .. Len(sent'[v]) : sent'[v][i] = User(u)
<1>1. DOMAIN sent = Ways /\ \A w \in Ways : sent[w] \in Seq(Messages)
  BY DrawnTyped DEF AgentInv, TypeOK, HistoryTypeOK, Ways
<1>2. sent'[v] = Append(sent[v], User(u)) /\ \A w \in Ways : w # v => sent'[w] = sent[w]
  BY <1>1
<1>3. User(u) \in Messages
  BY MessagesTyped
<1>4. /\ Len(sent[v]) \in Nat /\ Len(sent'[v]) = Len(sent[v]) + 1 /\ sent'[v][Len(sent[v]) + 1] = User(u)
      /\ \A i \in 1 .. Len(sent[v]) : sent'[v][i] = sent[v][i]
  BY <1>1, <1>2, <1>3
<1>5. \A w \in Ways : \A i \in 1 .. Len(sent[w]) : i \in 1 .. Len(sent'[w]) /\ sent'[w][i] = sent[w][i]
  BY <1>2, <1>4
<1>6. \A w \in Ways : \A i \in 1 .. Len(sent'[w]) :
         (i \in 1 .. Len(sent[w]) /\ sent'[w][i] = sent[w][i]) \/ (w = v /\ sent'[w][i] = User(u))
  <2>1. \A n \in Nat : \A i \in 1 .. n + 1 : i \in 1 .. n \/ i = n + 1
    OBVIOUS
  <2> QED BY <1>2, <1>4, <2>1
<1>7. \A w \in Ways : \A i \in 1 .. Len(sent[w]) : sent[w][i] # User(u)
  BY NotYetDrawn
<1>8. SentApart'
  <2>1. ASSUME NEW x \in Ways, NEW w \in Ways, NEW i \in 1 .. Len(sent'[x]), NEW j \in 1 .. Len(sent'[w]),
               sent'[x][i] = sent'[w][j]
        PROVE  x = w
    <3>1. CASE i \in 1 .. Len(sent[x]) /\ sent'[x][i] = sent[x][i]
      <4>1. sent[x][i] # User(u)
        BY <1>7, <3>1
      <4>2. j \in 1 .. Len(sent[w]) /\ sent[w][j] = sent[x][i]
        BY <1>6, <2>1, <3>1, <4>1
      <4> QED BY <3>1, <4>2 DEF SentInv, SentApart
    <3>2. CASE x = v /\ sent'[x][i] = User(u)
      <4>1. ~(j \in 1 .. Len(sent[w]) /\ sent'[w][j] = sent[w][j])
        BY <1>7, <2>1, <3>2
      <4> QED BY <1>6, <3>2, <4>1
    <3> QED BY <1>6, <3>1, <3>2
  <2> QED BY <2>1 DEF SentApart
<1>9. SentByUser'
  BY <1>6 DEF SentInv, SentByUser
<1>10. \E i \in 1 .. Len(sent'[v]) : sent'[v][i] = User(u)
  BY <1>4
<1> QED BY <1>2, <1>5, <1>8, <1>9, <1>10

(* A prompt is drawn at once.                                              *)
LEMMA PromptDrawn ==
    ASSUME AgentInv, SentInv, NEW u \in UserMsgs, Unsent(u),
           sent' = [sent EXCEPT !.prompt = Append(@, User(u))],
           UNCHANGED <<steeringQueue, followUpQueue>>, Drawn' = Drawn \o <<User(u)>>, InjectedAtOnce'
    PROVE  SentInv'
<1>1. PICK d \in Seq(Messages) : d = Drawn
  BY DrawnTyped
<1>2. /\ sent.steer \in Seq(Messages) /\ sent.followUp \in Seq(Messages)
      /\ steeringQueue \in Seq(Messages) /\ followUpQueue \in Seq(Messages)
      /\ "steer" \in Ways /\ "followUp" \in Ways /\ "prompt" \in Ways
  BY DrawnTyped DEF Ways
<1>3. /\ SentApart' /\ SentByUser' /\ sent'.steer = sent.steer /\ sent'.followUp = sent.followUp
      /\ \A w \in Ways : \A i \in 1 .. Len(sent[w]) : i \in 1 .. Len(sent'[w]) /\ sent'[w][i] = sent[w][i]
      /\ \E i \in 1 .. Len(sent'["prompt"]) : sent'["prompt"][i] = User(u)
  BY <1>2, OneSent
<1>4. PICK more \in Seq(Messages) : more = <<User(u)>> /\ \A k \in 1 .. Len(more) : more[k] = User(u)
  <2>1. PICK m \in Messages : m = User(u)
    BY MessagesTyped
  <2>2. <<m>> \in Seq(Messages) /\ \A k \in 1 .. Len(<<m>>) : <<m>>[k] = m
    OBVIOUS
  <2> QED BY <2>1, <2>2
<1>5. \A w \in Ways : \A k \in 1 .. Len(more), i \in 1 .. Len(sent[w]) : more[k] # sent[w][i]
  BY <1>4, NotYetDrawn
<1>6. InOrder(d \o more, steeringQueue, sent.steer) /\ InOrder(d \o more, followUpQueue, sent.followUp)
  BY <1>1, <1>2, <1>5, OrderAdds DEF SentInv
<1>7. \A k \in 1 .. Len(d \o more) :
         (\E l \in 1 .. Len(d) : (d \o more)[k] = d[l]) \/ (\E l \in 1 .. Len(more) : (d \o more)[k] = more[l])
  BY JoinedFrom
<1>8. PICK e : e = d \o more
  OBVIOUS
<1>9. \A k \in 1 .. Len(e) : e[k].role = "user" => \E w \in Ways : \E i \in 1 .. Len(sent'[w]) : sent'[w][i] = e[k]
  <2>1. ASSUME NEW k \in 1 .. Len(e), e[k].role = "user"
        PROVE  \E w \in Ways : \E i \in 1 .. Len(sent'[w]) : sent'[w][i] = e[k]
    <3>1. CASE \E l \in 1 .. Len(d) : e[k] = d[l]
      <4>1. PICK l \in 1 .. Len(d) : e[k] = d[l] /\ d[l].role = "user"
        BY <2>1, <3>1
      <4>2. PICK w \in Ways : \E i \in 1 .. Len(sent[w]) : sent[w][i] = d[l]
        BY <1>1, <4>1 DEF SentInv, DrawnWasSent
      <4>3. PICK i \in 1 .. Len(sent[w]) : sent[w][i] = e[k]
        BY <4>1, <4>2
      <4>4. i \in 1 .. Len(sent'[w]) /\ sent'[w][i] = e[k]
        BY <1>3, <4>3
      <4> QED BY <4>4
    <3>2. CASE \E l \in 1 .. Len(more) : e[k] = more[l]
      <4>1. e[k] = User(u)
        BY <1>4, <3>2
      <4>2. "prompt" \in Ways /\ \E i \in 1 .. Len(sent'["prompt"]) : sent'["prompt"][i] = e[k]
        BY <1>2, <1>3, <4>1
      <4> QED BY <4>2
    <3> QED BY <1>7, <1>8, <3>1, <3>2
  <2> QED BY <2>1
<1>10. Drawn' = e
  BY <1>1, <1>4, <1>8
<1>11. InOrder(e, steeringQueue', sent'.steer) /\ InOrder(e, followUpQueue', sent'.followUp)
  BY <1>3, <1>6, <1>8
<1> QED BY <1>3, <1>9, <1>10, <1>11, SentNext

(* A message is queued one way.                                            *)
LEMMA MessageQueued ==
    ASSUME AgentInv, SentInv, NEW u \in UserMsgs, Unsent(u), Drawn' = Drawn, InjectedAtOnce',
           \/ /\ sent' = [sent EXCEPT !.steer = Append(@, User(u))]
              /\ steeringQueue' = Append(steeringQueue, User(u)) /\ UNCHANGED followUpQueue
           \/ /\ sent' = [sent EXCEPT !.followUp = Append(@, User(u))]
              /\ followUpQueue' = Append(followUpQueue, User(u)) /\ UNCHANGED steeringQueue
    PROVE  SentInv'
<1>1. PICK d \in Seq(Messages) : d = Drawn
  BY DrawnTyped
<1>2. /\ sent.steer \in Seq(Messages) /\ sent.followUp \in Seq(Messages)
      /\ steeringQueue \in Seq(Messages) /\ followUpQueue \in Seq(Messages)
      /\ "steer" \in Ways /\ "followUp" \in Ways /\ User(u) \in Messages
  BY DrawnTyped, MessagesTyped DEF Ways
<1>3. /\ \A w \in Ways : \A i \in 1 .. Len(sent[w]) : sent[w][i] # User(u)
      /\ \A k \in 1 .. Len(d) : d[k] # User(u)
  BY <1>1, NotYetDrawn
<1>4. /\ InOrder(d, Append(steeringQueue, User(u)), Append(sent.steer, User(u)))
      /\ InOrder(d, Append(followUpQueue, User(u)), Append(sent.followUp, User(u)))
  BY <1>1, <1>2, <1>3, OrderSends DEF SentInv
<1>5. ASSUME NEW v \in {"steer", "followUp"}, sent' = [sent EXCEPT ![v] = Append(@, User(u))]
      PROVE  /\ SentApart' /\ SentByUser'
             /\ \A k \in 1 .. Len(d) : d[k].role = "user" =>
                  \E w \in Ways : \E i \in 1 .. Len(sent'[w]) : sent'[w][i] = d[k]
             /\ sent'[v] = Append(sent[v], User(u)) /\ \A w \in Ways : w # v => sent'[w] = sent[w]
  <2>1. v \in Ways
    BY DEF Ways
  <2>2. /\ SentApart' /\ SentByUser'
        /\ sent'[v] = Append(sent[v], User(u)) /\ \A w \in Ways : w # v => sent'[w] = sent[w]
        /\ \A w \in Ways : \A i \in 1 .. Len(sent[w]) : i \in 1 .. Len(sent'[w]) /\ sent'[w][i] = sent[w][i]
    BY <1>5, <2>1, OneSent
  <2>3. \A k \in 1 .. Len(d) : d[k].role = "user" =>
           \E w \in Ways : \E i \in 1 .. Len(sent'[w]) : sent'[w][i] = d[k]
    BY <1>1, <2>2 DEF SentInv, DrawnWasSent
  <2> QED BY <2>2, <2>3
<1>6. CASE sent' = [sent EXCEPT !.steer = Append(@, User(u))]
           /\ steeringQueue' = Append(steeringQueue, User(u)) /\ UNCHANGED followUpQueue
  <2>1. "steer" \in {"steer", "followUp"} /\ "steer" # "followUp"
    OBVIOUS
  <2>2. /\ SentApart' /\ SentByUser' /\ sent'.steer = Append(sent.steer, User(u)) /\ sent'.followUp = sent.followUp
        /\ \A k \in 1 .. Len(d) : d[k].role = "user" =>
             \E w \in Ways : \E i \in 1 .. Len(sent'[w]) : sent'[w][i] = d[k]
    BY <1>2, <1>5, <1>6, <2>1
  <2>3. InOrder(d, steeringQueue', sent'.steer) /\ InOrder(d, followUpQueue', sent'.followUp)
    BY <1>1, <1>4, <1>6, <2>2 DEF SentInv
  <2>4. Drawn' = d
    BY <1>1
  <2> QED BY <2>2, <2>3, <2>4, SentNext
<1>7. CASE sent' = [sent EXCEPT !.followUp = Append(@, User(u))]
           /\ followUpQueue' = Append(followUpQueue, User(u)) /\ UNCHANGED steeringQueue
  <2>1. "followUp" \in {"steer", "followUp"} /\ "followUp" # "steer"
    OBVIOUS
  <2>2. /\ SentApart' /\ SentByUser' /\ sent'.followUp = Append(sent.followUp, User(u)) /\ sent'.steer = sent.steer
        /\ \A k \in 1 .. Len(d) : d[k].role = "user" =>
             \E w \in Ways : \E i \in 1 .. Len(sent'[w]) : sent'[w][i] = d[k]
    BY <1>2, <1>5, <1>7, <2>1
  <2>3. InOrder(d, followUpQueue', sent'.followUp) /\ InOrder(d, steeringQueue', sent'.steer)
    BY <1>1, <1>4, <1>7, <2>2 DEF SentInv
  <2>4. Drawn' = d
    BY <1>1
  <2> QED BY <2>2, <2>3, <2>4, SentNext
<1> QED BY <1>6, <1>7

(* The loop sends nothing itself.                                          *)
LEMMA LoopSendsNothing ==
    ASSUME LoopStep
    PROVE  UNCHANGED sent
<1>1. CASE Emit \/ InitialPoll \/ InjectPending \/ Request \/ StreamStart \/ Responded
  BY <1>1 DEF Emit, InitialPoll, InjectPending, Request, StreamStart, Responded, histVars
<1>2. CASE \E n \in 0 .. MaxCalls, stop \in StopReasons : StreamDone(n, stop)
  BY <1>2 DEF StreamDone, histVars
<1>3. CASE StartCall \/ ImmediateOutcome \/ PreparedCall \/ LaunchPrepared \/ FinalizeCall \/ CallsExecuted
  BY <1>3 DEF StartCall, ImmediateOutcome, PreparedCall, LaunchPrepared, FinalizeCall, CallsExecuted, histVars
<1>4. CASE TurnEnd \/ PollSteering \/ PollFollowUp \/ FinishRun
  BY <1>4 DEF TurnEnd, PollSteering, PollFollowUp, FinishRun, histVars
<1>5. CASE StreamThrows \/ CallRejected \/ ListenerThrows \/ FailureListenerThrows
  BY <1>5 DEF StreamThrows, CallRejected, ListenerThrows, FailureListenerThrows, FailRun, histVars
<1> QED BY <1>1, <1>2, <1>3, <1>4, <1>5 DEF LoopStep

(* Appending one message that is not the user's.                           *)
LEMMA OneMore ==
    ASSUME NEW s \in Seq(Messages), NEW m \in Messages, m.role # "user"
    PROVE  \E more \in Seq(Messages) :
              Append(s, m) = s \o more /\ \A k \in 1 .. Len(more) : more[k].role # "user"
<1>1. <<m>> \in Seq(Messages) /\ Append(s, m) = s \o <<m>> /\ \A k \in 1 .. Len(<<m>>) : <<m>>[k] = m
  OBVIOUS
<1>2. PICK one \in Seq(Messages) : one = <<m>> /\ Append(s, m) = s \o one /\ \A k \in 1 .. Len(one) : one[k] = m
  BY <1>1
<1> QED BY <1>2

(* A step of the loop that touches none of it.                             *)
LEMMA SentRests ==
    ASSUME AgentInv, SentInv, Busy, loop'.pc \notin {"idle", "failing"},
           loop'.context = loop.context, loop'.results = loop.results,
           loop'.pendingMessages = loop.pendingMessages,
           UNCHANGED <<sent, steeringQueue, followUpQueue>>,
           loop'.pc \in {"firstTurn", "turn"} \/ loop.pc \notin {"firstTurn", "turn"}
    PROVE  SentInv'
<1>1. Drawn' = Drawn
  BY DEF Drawn, Settled, Busy
<1>2. InjectedAtOnce'
  BY DEF SentInv, InjectedAtOnce
<1> QED BY <1>1, <1>2, DrawnSame

(* A run starts with messages that are settled and drawn at once.          *)
LEMMA StartDraws ==
    ASSUME AgentInv, SentInv, NEW prompts \in Seq(Messages), NEW skip \in BOOLEAN, StartRun(prompts, skip)
    PROVE  Drawn' = Drawn \o prompts /\ InjectedAtOnce'
<1>1. /\ loop'.pc \in {"initialPoll", "firstTurn"} /\ loop'.context = messages \o prompts
      /\ loop'.pendingMessages = <<>> /\ loop'.results = <<>> /\ ~activeRun
  BY StartEffect
<1>2. loop.pc = "idle" /\ loop.pendingMessages = <<>> /\ Settled = messages /\ Drawn = messages
  BY <1>1, DrawnTyped DEF AgentInv, RunHasLoop, SentInv, InjectedAtOnce, Settled, Busy
<1>3. messages \o prompts \in Seq(Messages)
  BY <1>2, DrawnTyped, MessagesConcat
<1>4. ((messages \o prompts) \o <<>>) \o <<>> = messages \o prompts
  BY <1>3, ConcatEmptySeq
<1>5. Drawn' = (loop'.context \o loop'.results) \o loop'.pendingMessages
  BY <1>1 DEF Drawn, Settled, Busy
<1>6. Drawn' = messages \o prompts
  BY <1>1, <1>4, <1>5
<1> QED BY <1>1, <1>2, <1>6 DEF InjectedAtOnce

(* The public interface, without clearing.                                 *)
LEMMA SentInterface ==
    ASSUME AgentInv, SentInv, Interface, ~ClearAllQueues, ~Reset
    PROVE  SentInv'
<1>1. ASSUME NEW u \in UserMsgs, Prompt(u)
      PROVE  SentInv'
  <2>1. <<User(u)>> \in Seq(Messages)
    BY MessagesTyped
  <2>2. /\ StartRun(<<User(u)>>, FALSE) /\ Unsent(u) /\ UNCHANGED <<steeringQueue, followUpQueue>>
        /\ sent' = [sent EXCEPT !.prompt = Append(@, User(u))]
    BY <1>1 DEF Prompt, inboxVars
  <2>3. Drawn' = Drawn \o <<User(u)>> /\ InjectedAtOnce'
    BY <2>1, <2>2, StartDraws
  <2> QED BY <2>2, <2>3, PromptDrawn
<1>2. CASE Continue
  <2>1. UNCHANGED sent /\ steeringQueue \in Seq(Messages) /\ followUpQueue \in Seq(Messages)
    BY <1>2, DrawnTyped DEF Continue
  <2>2. CASE StartRun(<<>>, FALSE) /\ UNCHANGED <<steeringQueue, followUpQueue>>
    <3>1. <<>> \in Seq(Messages) /\ Drawn \in Seq(Messages)
      BY DrawnTyped
    <3>2. Drawn' = Drawn \o <<>> /\ InjectedAtOnce'
      BY <2>2, <3>1, StartDraws
    <3>3. Drawn' = Drawn
      BY <3>1, <3>2, ConcatEmptySeq
    <3> QED BY <2>1, <2>2, <3>2, <3>3, DrawnSame
  <2>3. CASE StartRun(Drained(steeringQueue), TRUE) /\ steeringQueue' = Kept(steeringQueue) /\ UNCHANGED followUpQueue
    <3>1. Drawn' = Drawn \o Drained(steeringQueue) /\ InjectedAtOnce'
      BY <2>1, <2>3, DrainedAndKept, StartDraws
    <3> QED BY <2>1, <2>3, <3>1, QueueDrawn
  <2>4. CASE StartRun(Drained(followUpQueue), FALSE) /\ followUpQueue' = Kept(followUpQueue) /\ UNCHANGED steeringQueue
    <3>1. Drawn' = Drawn \o Drained(followUpQueue) /\ InjectedAtOnce'
      BY <2>1, <2>4, DrainedAndKept, StartDraws
    <3> QED BY <2>1, <2>4, <3>1, QueueDrawn
  <2> QED BY <1>2, <2>2, <2>3, <2>4 DEF Continue, inboxVars
<1>3. ASSUME UNCHANGED <<loop, messages>> PROVE Drawn' = Drawn /\ InjectedAtOnce'
  BY <1>3 DEF Drawn, Settled, Busy, SentInv, InjectedAtOnce
<1>4. ASSUME NEW u \in UserMsgs, Steer(u) \/ FollowUp(u)
      PROVE  SentInv'
  <2>1. UNCHANGED <<loop, messages>> /\ Unsent(u)
    BY <1>4 DEF Steer, FollowUp, stateVars
  <2>2. \/ /\ sent' = [sent EXCEPT !.steer = Append(@, User(u))]
           /\ steeringQueue' = Append(steeringQueue, User(u)) /\ UNCHANGED followUpQueue
        \/ /\ sent' = [sent EXCEPT !.followUp = Append(@, User(u))]
           /\ followUpQueue' = Append(followUpQueue, User(u)) /\ UNCHANGED steeringQueue
    BY <1>4 DEF Steer, FollowUp
  <2> QED BY <1>3, <2>1, <2>2, MessageQueued
<1>5. CASE Abort
  BY <1>3, <1>5, DrawnSame DEF Abort, stateVars, inboxVars, histVars
<1> QED BY <1>1, <1>2, <1>4, <1>5 DEF Interface

(* A poll draws from one queue, if it finds something.                     *)
LEMMA SentPolls ==
    ASSUME AgentInv, AgentInv', SentInv, InitialPoll \/ PollSteering \/ PollFollowUp
    PROVE  SentInv'
<1>1. /\ loop.todo = <<>> /\ loop.pc \in {"initialPoll", "pollSteering", "pollFollowUp"}
      /\ loop'.pc \in {"firstTurn", "turn", "pollFollowUp", "finish"}
      /\ loop'.context = loop.context /\ loop'.results = loop.results
  BY PollEffect DEF AgentInv, TypeOK
<1>2. UNCHANGED sent
  BY LoopSendsNothing DEF LoopStep
<1>3. loop.pendingMessages = <<>> /\ Settled' = Settled /\ Drawn = Settled /\ Settled \in Seq(Messages)
  BY <1>1, DrawnTyped DEF Settled, Busy, SentInv, InjectedAtOnce
<1>4. Drawn' = Drawn \o loop'.pendingMessages
  BY <1>3 DEF Drawn
<1>5. loop \in Loops
  BY DEF AgentInv, TypeOK, LoopTypeOK
<1>6. CASE InitialPoll \/ PollSteering
  <2>1. loop'.pendingMessages = Drained(steeringQueue) /\ steeringQueue' = Kept(steeringQueue) /\ UNCHANGED followUpQueue
    BY <1>5, <1>6 DEF InitialPoll, PollSteering, Goto, Loops
  <2>2. loop'.pc \in {"firstTurn", "turn"} \/ steeringQueue = <<>>
    BY <1>5, <1>6 DEF InitialPoll, PollSteering, Goto, Loops
  <2>3. InjectedAtOnce'
    BY <2>1, <2>2 DEF InjectedAtOnce, Drained
  <2> QED BY <1>2, <1>4, <2>1, <2>3, QueueDrawn
<1>7. CASE PollFollowUp
  <2>1. followUpQueue' = Kept(followUpQueue) /\ UNCHANGED steeringQueue
    BY <1>7 DEF PollFollowUp
  <2>2. CASE followUpQueue # <<>>
    <3>1. loop'.pendingMessages = Drained(followUpQueue) /\ loop'.pc = "turn"
      BY <1>5, <1>7, <2>2 DEF PollFollowUp, Goto, Loops
    <3>2. InjectedAtOnce'
      BY <3>1 DEF InjectedAtOnce
    <3> QED BY <1>2, <1>4, <2>1, <3>1, <3>2, QueueDrawn
  <2>3. CASE followUpQueue = <<>>
    <3>1. loop'.pendingMessages = loop.pendingMessages
      BY <1>5, <1>7, <2>3 DEF PollFollowUp, Goto, Loops
    <3>2. UNCHANGED followUpQueue
      BY <2>1, <2>3 DEF Kept
    <3>3. Drawn' = Drawn /\ InjectedAtOnce'
      BY <1>3, <1>4, <3>1, ConcatEmptySeq DEF InjectedAtOnce
    <3> QED BY <1>2, <2>1, <3>2, <3>3, DrawnSame
  <2> QED BY <2>2, <2>3
<1> QED BY <1>6, <1>7

(* What was drawn is injected.                                             *)
LEMMA SentInjects ==
    ASSUME AgentInv, MirrorInv, SentInv, InjectPending
    PROVE  SentInv'
<1>1. /\ loop.pc \in {"firstTurn", "turn"} /\ loop'.pc = "request" /\ loop'.pendingMessages = <<>>
      /\ loop'.context = loop.context \o loop.pendingMessages /\ loop'.results = loop.results
      /\ UNCHANGED <<steeringQueue, followUpQueue>>
  BY InjectEffect DEF AgentInv, TypeOK
<1>2. UNCHANGED sent
  BY LoopSendsNothing DEF LoopStep
<1>3. loop.results = <<>>
  BY <1>1 DEF MirrorInv, ResultsOfTurn, ResultPhases
<1>4. loop.context \in Seq(Messages) /\ loop.pendingMessages \in Seq(Messages)
  BY FieldsTyped DEF AgentInv, TypeOK
<1>5. PICK c \in Seq(Messages) : c = loop.context \o loop.pendingMessages
  BY <1>4, MessagesConcat
<1>6. Drawn = (loop.context \o loop.results) \o loop.pendingMessages
      /\ Drawn' = (loop'.context \o loop'.results) \o loop'.pendingMessages
  BY <1>1 DEF Drawn, Settled, Busy
<1>7. Drawn = c
  BY <1>3, <1>4, <1>5, <1>6, ConcatEmptySeq
<1>8. Drawn' = (c \o <<>>) \o <<>>
  BY <1>1, <1>3, <1>5, <1>6
<1>9. Drawn' = Drawn
  BY <1>7, <1>8, ConcatEmptySeq
<1>10. InjectedAtOnce'
  BY <1>1 DEF InjectedAtOnce
<1> QED BY <1>1, <1>2, <1>9, <1>10, DrawnSame

(* A response, or a result, joins what was settled.                        *)
LEMMA SentAnswered ==
    ASSUME AgentInv, MirrorInv, SentInv,
           \/ \E n \in 0 .. MaxCalls, stop \in StopReasons : StreamDone(n, stop)
           \/ ImmediateOutcome \/ FinalizeCall \/ TurnEnd
    PROVE  SentInv'
<1>1. UNCHANGED sent
  BY LoopSendsNothing DEF LoopStep
<1>2. LoopTypeOK /\ loop.context \in Seq(Messages) /\ loop.results \in Seq(Messages)
  BY FieldsTyped DEF AgentInv, TypeOK
<1>3. ASSUME NEW m \in Messages, m.role # "user", UNCHANGED <<steeringQueue, followUpQueue>>,
             loop.pc \notin {"firstTurn", "turn", "idle", "failing"},
             loop'.pc \notin {"firstTurn", "turn", "idle", "failing"},
             loop'.pendingMessages = loop.pendingMessages,
             loop'.context \o loop'.results = Append(loop.context \o loop.results, m)
      PROVE  SentInv'
  <2>1. /\ loop.pendingMessages = <<>> /\ Settled = loop.context \o loop.results
        /\ Settled' = loop'.context \o loop'.results /\ Settled \in Seq(Messages) /\ Drawn = Settled
    BY <1>3, DrawnTyped DEF Settled, Busy, SentInv, InjectedAtOnce
  <2>2. PICK more \in Seq(Messages) :
          Append(Settled, m) = Settled \o more /\ \A k \in 1 .. Len(more) : more[k].role # "user"
    BY <1>3, <2>1, OneMore
  <2>3. Settled' = Drawn \o more /\ Drawn \o more \in Seq(Messages)
    BY <1>3, <2>1, <2>2, MessagesConcat
  <2>4. Drawn' = Drawn \o more /\ InjectedAtOnce'
    BY <1>3, <2>1, <2>3, ConcatEmptySeq DEF Drawn, InjectedAtOnce
  <2> QED BY <1>1, <1>3, <2>2, <2>4, OthersAdded
<1>4. ASSUME NEW n \in 0 .. MaxCalls, NEW stop \in StopReasons, StreamDone(n, stop)
      PROVE  SentInv'
  <2>1. PICK m \in Messages : m = Assistant(turns, n, stop) /\ m.role # "user"
    <3>1. turns \in Nat /\ n \in Nat
      BY ConstantsAssumption DEF AgentInv, TypeOK, HistoryTypeOK
    <3>2. Assistant(turns, n, stop) \in Messages
      BY <3>1, MessagesTyped
    <3> QED BY <3>2 DEF Assistant
  <2>2. /\ loop.pc \in {"requested", "streaming"} /\ loop'.pc = "responded"
        /\ loop'.context = Append(loop.context, m) /\ loop'.results = loop.results
        /\ loop'.pendingMessages = loop.pendingMessages /\ UNCHANGED <<steeringQueue, followUpQueue>>
    BY <1>2, <1>4, <2>1, DoneEffect
  <2>3. loop.results = <<>> /\ Append(loop.context, m) \in Seq(Messages)
    BY <1>2, <2>2 DEF MirrorInv, ResultsOfTurn, ResultPhases
  <2>4. loop'.context \o loop'.results = Append(loop.context \o loop.results, m)
    BY <1>2, <2>2, <2>3, ConcatEmptySeq
  <2> QED BY <1>3, <2>1, <2>2, <2>4
<1>5. ASSUME NEW c \in CallIds, loop'.results = Append(loop.results, ToolResult(c)), loop'.context = loop.context,
             loop.pc \in {"prepare", "await"}, loop'.pc \in {"tool", "await"},
             loop'.pendingMessages = loop.pendingMessages, UNCHANGED <<steeringQueue, followUpQueue>>
      PROVE  SentInv'
  <2>1. PICK m \in Messages : m = ToolResult(c) /\ m.role # "user"
    BY MessagesTyped DEF ToolResult
  <2>2. loop.context \o Append(loop.results, m) = Append(loop.context \o loop.results, m)
    <3>0. <<m>> \in Seq(Messages)
      OBVIOUS
    <3>1. PICK one \in Seq(Messages) : one = <<m>>
      BY <3>0
    <3>2. PICK x \in Seq(Messages) : x = loop.context
      BY <1>2
    <3>3. PICK y \in Seq(Messages) : y = loop.results
      BY <1>2
    <3>4. PICK z \in Seq(Messages) : z = x \o y
      BY MessagesConcat
    <3>5. Append(y, m) = y \o one /\ Append(z, m) = z \o one
      BY <3>1, MessageAppended
    <3>6. (x \o y) \o one = x \o (y \o one)
      BY MessagesConcat
    <3> QED BY <3>2, <3>3, <3>4, <3>5, <3>6
  <2> QED BY <1>3, <1>5, <2>1, <2>2
<1>6. CASE ImmediateOutcome
  <2>1. /\ loop.pc = "prepare" /\ loop'.pc = "tool" /\ loop'.context = loop.context
        /\ loop'.pendingMessages = loop.pendingMessages
        /\ loop'.results = Append(loop.results, ToolResult(NextCall)) /\ UNCHANGED <<steeringQueue, followUpQueue>>
    BY <1>2, <1>6, ImmediateEffect
  <2>2. NextCall \in CallIds
    BY <2>1, NextCallTyped DEF AgentInv, ResponseHasId, TypeOK
  <2> QED BY <1>5, <2>1, <2>2
<1>7. CASE FinalizeCall
  <2>1. /\ loop.pc = "await" /\ loop'.pc \in {"tool", "await"} /\ loop'.context = loop.context
        /\ loop'.pendingMessages = loop.pendingMessages /\ loop.runnable # <<>>
        /\ loop'.results = Append(loop.results, ToolResult(Head(loop.runnable)))
        /\ UNCHANGED <<steeringQueue, followUpQueue>>
    BY <1>2, <1>7, FinalizeEffect
  <2>2. Head(loop.runnable) \in CallIds
    BY <1>2, <2>1, FieldsTyped
  <2> QED BY <1>5, <2>1, <2>2
<1>8. CASE TurnEnd
  <2>1. /\ loop.pc = "turnEnd" /\ loop'.pc = "pollSteering"
        /\ loop'.context = loop.context \o loop.results /\ loop'.results = <<>>
        /\ loop'.pendingMessages = loop.pendingMessages /\ UNCHANGED <<steeringQueue, followUpQueue>>
    BY <1>2, <1>8, TurnEndEffect
  <2>2. loop.context \o loop.results \in Seq(Messages)
    BY <1>2, MessagesConcat
  <2>3. loop'.context \o loop'.results = loop.context \o loop.results
    BY <2>1, <2>2, ConcatEmptySeq
  <2>4. Drawn' = Drawn /\ InjectedAtOnce'
    BY <2>1, <2>3 DEF Drawn, Settled, Busy, SentInv, InjectedAtOnce
  <2> QED BY <1>1, <2>1, <2>4, DrawnSame
<1> QED BY <1>4, <1>6, <1>7, <1>8

(* A run that ends leaves its transcript behind, one that fails adds its   *)
(* failure.                                                                *)
LEMMA SentEnds ==
    ASSUME AgentInv, MirrorInv, SentInv, FinishRun \/ StreamThrows
    PROVE  SentInv'
<1>1. UNCHANGED sent
  BY LoopSendsNothing DEF LoopStep
<1>2. messages \in Seq(Messages) /\ messages \o <<>> = messages
  <2>1. messages \in Seq(Messages)
    BY DEF AgentInv, TypeOK, StateTypeOK
  <2> QED BY <2>1, ConcatEmptySeq
<1>3. Drawn = messages
  <2>1. loop.pc \in {"finish", "failing", "request"} /\ loop.todo = <<>>
    BY DEF FinishRun, StreamThrows, Resume
  <2>2. loop.pendingMessages = <<>> /\ Drawn = Settled
    BY <2>1, DrawnTyped DEF SentInv, InjectedAtOnce
  <2>3. CASE loop.pc = "failing"
    BY <2>2, <2>3 DEF Settled, Busy
  <2>4. CASE loop.pc # "failing"
    <3>1. Busy /\ loop.pc \notin ResultPhases
      BY <2>1, <2>4 DEF Busy, ResultPhases
    <3> QED BY <2>1, <2>2, <3>1, AtRest DEF Settled
  <2> QED BY <2>3, <2>4
<1>4. CASE FinishRun
  <2>1. loop'.pc = "idle" /\ loop'.pendingMessages = <<>> /\ UNCHANGED <<messages, steeringQueue, followUpQueue>>
    BY <1>4, EndEffect
  <2>2. Drawn' = messages' \o <<>> /\ InjectedAtOnce'
    BY <2>1 DEF Drawn, Settled, Busy, InjectedAtOnce
  <2>3. Drawn' = Drawn
    BY <1>2, <1>3, <2>1, <2>2
  <2> QED BY <1>1, <2>1, <2>2, <2>3, DrawnSame
<1>5. CASE StreamThrows
  <2>1. /\ loop'.pc = "failing" /\ loop'.pendingMessages = <<>> /\ UNCHANGED <<steeringQueue, followUpQueue>>
        /\ messages' = Append(messages, FailureMessage)
    BY <1>5, FailEffect
  <2>2. FailureMessage \in Messages /\ FailureMessage.role # "user"
    BY MessagesTyped DEF FailureMessage
  <2>3. PICK more \in Seq(Messages) :
          Append(messages, FailureMessage) = messages \o more /\ \A k \in 1 .. Len(more) : more[k].role # "user"
    BY <1>2, <2>2, OneMore
  <2>4. Drawn' = messages' \o <<>> /\ InjectedAtOnce'
    BY <2>1 DEF Drawn, Settled, Busy, InjectedAtOnce
  <2>5. messages \o more \in Seq(Messages)
    BY <1>2, <2>3, MessagesConcat
  <2>6. Drawn' = Drawn \o more
    BY <1>3, <2>1, <2>3, <2>4, <2>5, ConcatEmptySeq
  <2> QED BY <1>1, <2>1, <2>3, <2>4, <2>6, OthersAdded
<1> QED BY <1>4, <1>5

(* Every step keeps the messages sent in order.                            *)
LEMMA SentStep ==
    ASSUME ListenersFail = FALSE, {"clear", "reset"} \cap Api = {},
           AgentInv, AgentInv', MirrorInv, AnswersInv, SentInv, [Next]_vars
    PROVE  SentInv'
<1>0. LoopTypeOK
  BY DEF AgentInv, TypeOK
<1>1. CASE Interface
  BY <1>1, SentInterface DEF ClearAllQueues, Reset
<1>2. CASE Emit
  <2>1. UNCHANGED sent
    BY <1>2, LoopSendsNothing DEF LoopStep
  <2>2. /\ loop.todo # <<>> /\ loop'.pc = loop.pc /\ loop'.context = loop.context
        /\ loop'.pendingMessages = loop.pendingMessages /\ loop'.results = loop.results
        /\ messages' = (IF Head(loop.todo).type = "message_end"
                          THEN Append(messages, Head(loop.todo).message) ELSE messages)
        /\ UNCHANGED <<steeringQueue, followUpQueue>>
    BY <1>0, <1>2, EmitEffect
  <2>3. CASE Busy
    BY <2>1, <2>2, <2>3, SentRests DEF Busy
  <2>4. CASE ~Busy
    <3>1. loop.todo \in Seq(Events) /\ 1 \in 1 .. Len(loop.todo) /\ Head(loop.todo) = loop.todo[1]
      BY <1>0, <2>2, FieldsTyped
    <3>2. UNCHANGED messages
      BY <2>2, <2>4, <3>1 DEF AnswersInv, IdleAnswered, Silent
    <3>3. Drawn' = Drawn /\ InjectedAtOnce'
      BY <2>2, <2>4, <3>2 DEF Drawn, Settled, Busy, SentInv, InjectedAtOnce
    <3> QED BY <2>1, <2>2, <3>3, DrawnSame
  <2> QED BY <2>3, <2>4
<1>3. CASE InitialPoll \/ PollSteering \/ PollFollowUp
  BY <1>3, SentPolls
<1>4. CASE InjectPending
  BY <1>4, SentInjects
<1>5. CASE (\E n \in 0 .. MaxCalls, stop \in StopReasons : StreamDone(n, stop))
           \/ ImmediateOutcome \/ FinalizeCall \/ TurnEnd
  BY <1>5, SentAnswered
<1>6. CASE Request \/ StreamStart \/ Responded \/ StartCall \/ PreparedCall \/ LaunchPrepared \/ CallsExecuted
  <2>1. UNCHANGED sent
    BY <1>6, LoopSendsNothing DEF LoopStep
  <2>2. /\ loop.pc \notin {"firstTurn", "turn", "idle", "failing"}
        /\ loop'.pc \notin {"idle", "failing"}
        /\ loop'.context = loop.context /\ loop'.results = loop.results
        /\ loop'.pendingMessages = loop.pendingMessages /\ UNCHANGED <<steeringQueue, followUpQueue>>
    BY <1>0, <1>6, AskEffect, RespondedEffect, StartCallEffect, PreparedEffect, LaunchEffect
  <2> QED BY <2>1, <2>2, SentRests DEF Busy
<1>7. CASE FinishRun \/ StreamThrows
  BY <1>7, SentEnds
<1>8. ~CallRejected /\ ~ListenerThrows /\ ~FailureListenerThrows
  BY DEF CallRejected, ListenerThrows, FailureListenerThrows, AnswersInv
<1>9. CASE ToolStep \/ UNCHANGED vars
  <2>1. UNCHANGED <<loop, messages, steeringQueue, followUpQueue, sent>>
    BY <1>9 DEF ToolStep, ToolSettles, UpdateRejected, OrphanUpdate, OrphanSettles, vars, stateVars,
                inboxVars, histVars
  <2>2. Drawn' = Drawn /\ InjectedAtOnce'
    BY <2>1 DEF Drawn, Settled, Busy, SentInv, InjectedAtOnce
  <2> QED BY <2>1, <2>2, DrawnSame
<1> QED BY <1>1, <1>2, <1>3, <1>4, <1>5, <1>6, <1>7, <1>8, <1>9 DEF Next, LoopStep

(* e holds every message of s once, in the order of s.                     *)
OrderOf(e, s) ==
    /\ \A i \in 1 .. Len(s) : \E n \in 1 .. Len(e) : e[n] = s[i]
    /\ \A i, j \in 1 .. Len(s), n, m \in 1 .. Len(e) :
         e[n] = s[i] /\ e[m] = s[j] => (i < j <=> n < m)

(* What was drawn and the queue together stand in the order of sending.    *)
LEMMA LineInOrder ==
    ASSUME NEW d \in Seq(Messages), NEW queue \in Seq(Messages), NEW s \in Seq(Messages),
           InOrder(d, queue, s), NEW e \in Seq(Messages), e = d \o queue
    PROVE  OrderOf(e, s)
<1>1. PICK c \in Nat : c = Len(s) - Len(queue) /\ Len(s) \in Nat /\ Len(queue) \in Nat /\ Len(d) \in Nat
  <2>1. Len(s) \in Nat /\ Len(queue) \in Nat /\ Len(queue) <= Len(s) /\ Len(d) \in Nat
    BY DEF InOrder, HoldsRest
  <2>2. Len(s) - Len(queue) \in Nat
    BY <2>1
  <2> QED BY <2>1, <2>2
<1>2. \A k \in 1 .. Len(queue) : queue[k] = s[c + k] /\ c + k \in 1 .. Len(s)
  BY <1>1 DEF InOrder, HoldsRest
<1>3. /\ \A k \in 1 .. Len(e) :
           \/ k \in 1 .. Len(d) /\ e[k] = d[k]
           \/ k \notin 1 .. Len(d) /\ k - Len(d) \in 1 .. Len(queue) /\ e[k] = queue[k - Len(d)]
      /\ \A k \in 1 .. Len(d) : k \in 1 .. Len(e) /\ e[k] = d[k]
      /\ \A k \in 1 .. Len(queue) : Len(d) + k \in 1 .. Len(e) /\ e[Len(d) + k] = queue[k]
  BY JoinedElements
<1>4. ASSUME NEW k \in 1 .. Len(e), NEW i \in 1 .. Len(s), e[k] = s[i]
      PROVE  \/ k \in 1 .. Len(d) /\ d[k] = s[i] /\ i <= c
             \/ k > Len(d) /\ i = c + (k - Len(d))
  <2>1. CASE k \in 1 .. Len(d) /\ e[k] = d[k]
    BY <1>1, <1>4, <2>1 DEF InOrder, DrawnInOrder
  <2>2. CASE k \notin 1 .. Len(d) /\ k - Len(d) \in 1 .. Len(queue) /\ e[k] = queue[k - Len(d)]
    <3>1. e[k] = s[c + (k - Len(d))] /\ c + (k - Len(d)) \in 1 .. Len(s)
      BY <1>2, <2>2
    <3>2. i = c + (k - Len(d))
      BY <1>4, <3>1 DEF InOrder, Distinct
    <3>3. k > Len(d)
      BY <1>1, <2>2
    <3> QED BY <3>2, <3>3
  <2> QED BY <1>3, <2>1, <2>2
<1>5. ASSUME NEW i \in 1 .. Len(s) PROVE \E n \in 1 .. Len(e) : e[n] = s[i]
  <2>1. CASE i <= c
    <3>1. i \in 1 .. Len(s) - Len(queue)
      BY <1>1, <2>1
    <3>2. PICK k \in 1 .. Len(d) : d[k] = s[i]
      BY <3>1 DEF InOrder, DrawnInOrder
    <3> QED BY <1>3, <3>2
  <2>2. CASE i > c
    <3>1. PICK k \in 1 .. Len(queue) : c + k = i
      <4>1. i - c \in 1 .. Len(queue) /\ c + (i - c) = i
        BY <1>1, <2>2
      <4> QED BY <4>1
    <3>2. e[Len(d) + k] = s[i] /\ Len(d) + k \in 1 .. Len(e)
      BY <1>2, <1>3, <3>1
    <3> QED BY <3>2
  <2> QED BY <1>1, <2>1, <2>2
<1>6. ASSUME NEW i \in 1 .. Len(s), NEW j \in 1 .. Len(s), NEW k \in 1 .. Len(e), NEW l \in 1 .. Len(e),
             e[k] = s[i], e[l] = s[j]
      PROVE  i < j <=> k < l
  <2>1. \/ k \in 1 .. Len(d) /\ d[k] = s[i] /\ i <= c
        \/ k > Len(d) /\ i = c + (k - Len(d))
    BY <1>4, <1>6
  <2>2. \/ l \in 1 .. Len(d) /\ d[l] = s[j] /\ j <= c
        \/ l > Len(d) /\ j = c + (l - Len(d))
    BY <1>4, <1>6
  <2>3. CASE k \in 1 .. Len(d) /\ d[k] = s[i] /\ l \in 1 .. Len(d) /\ d[l] = s[j]
    BY <2>3 DEF InOrder, DrawnInOrder
  <2>4. k \in Nat /\ l \in Nat /\ i \in Nat /\ j \in Nat
    OBVIOUS
  <2>5. CASE k \in 1 .. Len(d) /\ i <= c /\ l > Len(d) /\ j = c + (l - Len(d))
    <3>1. k < l /\ i < j
      BY <1>1, <2>4, <2>5
    <3> QED BY <3>1
  <2>6. CASE k > Len(d) /\ i = c + (k - Len(d)) /\ l \in 1 .. Len(d) /\ j <= c
    <3>1. ~(k < l) /\ ~(i < j)
      BY <1>1, <2>4, <2>6
    <3> QED BY <3>1
  <2>7. CASE k > Len(d) /\ i = c + (k - Len(d)) /\ l > Len(d) /\ j = c + (l - Len(d))
    <3>1. \A n, a, b, z \in Nat : n + (a - z) < n + (b - z) <=> a < b
      OBVIOUS
    <3>2. c \in Nat /\ Len(d) \in Nat
      BY <1>1
    <3> QED BY <2>4, <2>7, <3>1, <3>2
  <2> QED BY <2>1, <2>2, <2>3, <2>5, <2>6, <2>7
<1>7. \A i, j \in 1 .. Len(s), n, m \in 1 .. Len(e) : e[n] = s[i] /\ e[m] = s[j] => (i < j <=> n < m)
  BY <1>6
<1> QED BY <1>5, <1>7 DEF OrderOf

(* The events that announce messages are numbered by them.                 *)
LEMMA EndsNumbered ==
    ASSUME NEW todo \in Seq(Events), NEW ms \in Seq(Messages), Announces(todo, ms)
    PROVE  \E nr \in [Ends(todo) -> 1 .. Len(ms)] :
              /\ \A k \in Ends(todo) : k \in Nat /\ todo[k].message = ms[nr[k]]
              /\ \A k, l \in Ends(todo) : k < l <=> nr[k] < nr[l]
              /\ \A i \in 1 .. Len(ms) : \E k \in Ends(todo) : nr[k] = i
<1>0. DOMAIN todo = 1 .. Len(todo) /\ Len(todo) \in Nat /\ Len(ms) \in Nat
  OBVIOUS
<1>1. PICK at \in [1 .. Len(ms) -> 1 .. Len(todo)] :
        /\ \A i, j \in 1 .. Len(ms) : i < j => at[i] < at[j]
        /\ \A i \in 1 .. Len(ms) : todo[at[i]] = Event("message_end", ms[i])
        /\ \A k \in 1 .. Len(todo) : todo[k].type = "message_end" => \E i \in 1 .. Len(ms) : at[i] = k
  BY DEF Announces
<1>2. \A m : Event("message_end", m).type = "message_end" /\ Event("message_end", m).message = m
  BY DEF Event
<1>3. \A i \in 1 .. Len(ms) : at[i] \in Ends(todo) /\ todo[at[i]].message = ms[i]
  BY <1>0, <1>1, <1>2 DEF Ends
<1>4. \A k \in Ends(todo) : k \in 1 .. Len(todo) /\ \E i \in 1 .. Len(ms) : at[i] = k
  BY <1>0, <1>1 DEF Ends
<1>5. \A i, j \in 1 .. Len(ms) : i < j <=> at[i] < at[j]
  <2>1. ASSUME NEW i \in 1 .. Len(ms), NEW j \in 1 .. Len(ms) PROVE i < j <=> at[i] < at[j]
    <3>1. i < j => at[i] < at[j]
      BY <1>1
    <3>2. j < i => at[j] < at[i]
      BY <1>1
    <3>3. at[i] \in Nat /\ at[j] \in Nat /\ i \in Nat /\ j \in Nat
      BY <1>1
    <3>4. i < j \/ i = j \/ j < i
      BY <3>3
    <3> QED BY <3>1, <3>2, <3>3, <3>4
  <2> QED BY <2>1
<1> DEFINE nr == [k \in Ends(todo) |-> CHOOSE i \in 1 .. Len(ms) : at[i] = k]
<1>6. nr \in [Ends(todo) -> 1 .. Len(ms)] /\ \A k \in Ends(todo) : at[nr[k]] = k
  BY <1>4
<1> HIDE DEF nr
<1>7. \A k, l \in Ends(todo) : k < l <=> nr[k] < nr[l]
  BY <1>5, <1>6
<1>8. \A k \in Ends(todo) : k \in Nat /\ todo[k].message = ms[nr[k]]
  BY <1>3, <1>4, <1>6
<1>9. ASSUME NEW i \in 1 .. Len(ms) PROVE \E k \in Ends(todo) : nr[k] = i
  <2>1. at[i] \in Ends(todo) /\ nr[at[i]] \in 1 .. Len(ms) /\ at[nr[at[i]]] = at[i]
    BY <1>3, <1>6
  <2>2. ~(nr[at[i]] < i) /\ ~(i < nr[at[i]])
    <3>1. at[i] \in Nat
      BY <1>1
    <3> QED BY <1>5, <2>1, <3>1
  <2>3. nr[at[i]] = i
    BY <2>1, <2>2
  <2> QED BY <2>1, <2>3
<1> QED BY <1>6, <1>7, <1>8, <1>9

(* pos gives every place its position in e.                                *)
Numbers(pos, e, queue) ==
    /\ pos \in [Places(queue) -> 1 .. Len(e)]
    /\ \A p \in Places(queue) : e[pos[p]] = Line(queue)[p[1]][p[2]]
    /\ \A p, q \in Places(queue) : Before(p, q) <=> pos[p] < pos[q]
    /\ \A n \in 1 .. Len(e) : \E p \in Places(queue) : pos[p] = n

(* Every place of a message is its position in one sequence: what is       *)
(* settled, drawn and queued.                                              *)
LEMMA PlacesNumbered ==
    ASSUME AgentInv, NEW queue \in Seq(Messages), NEW ms \in Seq(Messages), Announces(loop.todo, ms),
           NEW e \in Seq(Messages), e = ((messages \o ms) \o loop.pendingMessages) \o queue
    PROVE  \E pos : Numbers(pos, e, queue)
<1>1. PICK M \in Seq(Messages) : M = messages
  BY DEF AgentInv, TypeOK, StateTypeOK
<1>2. PICK P \in Seq(Messages) : P = loop.pendingMessages
  BY FieldsTyped DEF AgentInv, TypeOK
<1>3. PICK todo \in Seq(Events) : todo = loop.todo /\ Announces(todo, ms)
  BY FieldsTyped DEF AgentInv, TypeOK
<1>31. PICK E : E = Ends(todo)
  OBVIOUS
<1>4. PICK nr \in [E -> 1 .. Len(ms)] :
        /\ \A k \in E : k \in Nat /\ todo[k].message = ms[nr[k]]
        /\ \A k, l \in E : k < l <=> nr[k] < nr[l]
        /\ \A i \in 1 .. Len(ms) : \E k \in E : nr[k] = i
  <2>1. PICK f \in [Ends(todo) -> 1 .. Len(ms)] :
          /\ \A k \in Ends(todo) : k \in Nat /\ todo[k].message = ms[f[k]]
          /\ \A k, l \in Ends(todo) : k < l <=> f[k] < f[l]
          /\ \A i \in 1 .. Len(ms) : \E k \in Ends(todo) : f[k] = i
    BY <1>3, EndsNumbered
  <2> QED BY <1>31, <2>1
<1>5. PICK ln : ln = Line(queue)
  OBVIOUS
<1>6. /\ ln[1] = M /\ ln[2] = [k \in E |-> todo[k].message] /\ ln[3] = P /\ ln[4] = queue
  BY <1>1, <1>2, <1>3, <1>31, <1>5 DEF Line
<1>7. /\ DOMAIN ln[1] = 1 .. Len(M) /\ DOMAIN ln[2] = E /\ DOMAIN ln[3] = 1 .. Len(P)
      /\ DOMAIN ln[4] = 1 .. Len(queue)
  BY <1>6
<1> DEFINE size == [k \in 1 .. 4 |-> IF k = 1 THEN Len(M) ELSE IF k = 2 THEN Len(ms)
                                     ELSE IF k = 3 THEN Len(P) ELSE Len(queue)]
           off  == [k \in 1 .. 4 |-> IF k = 1 THEN 0 ELSE IF k = 2 THEN Len(M)
                                     ELSE IF k = 3 THEN Len(M) + Len(ms) ELSE (Len(M) + Len(ms)) + Len(P)]
           ix(k, i) == IF k = 2 THEN nr[i] ELSE i
<1>8. Len(M) \in Nat /\ Len(ms) \in Nat /\ Len(P) \in Nat /\ Len(queue) \in Nat
  OBVIOUS
<1>9. /\ size[1] = Len(M) /\ size[2] = Len(ms) /\ size[3] = Len(P) /\ size[4] = Len(queue)
      /\ off[1] = 0 /\ off[2] = Len(M) /\ off[3] = Len(M) + Len(ms) /\ off[4] = (Len(M) + Len(ms)) + Len(P)
  OBVIOUS
<1>10. \A k \in 1 .. 4 : k \in {1, 2, 3, 4}
  OBVIOUS
<1>11. /\ \A k \in 1 .. 4 : off[k] \in Nat /\ size[k] \in Nat
       /\ \A k, l \in 1 .. 4 : k < l => off[k] + size[k] <= off[l]
  <2>1. ASSUME NEW k \in 1 .. 4, NEW l \in 1 .. 4, k < l PROVE off[k] + size[k] <= off[l]
    <3>1. CASE k = 1
      <4>1. l \in {2, 3, 4}
        BY <2>1, <3>1
      <4> QED BY <1>8, <1>9, <3>1, <4>1
    <3>2. CASE k = 2
      <4>1. l \in {3, 4}
        BY <2>1, <3>2
      <4> QED BY <1>8, <1>9, <3>2, <4>1
    <3>3. CASE k = 3
      <4>1. l = 4
        BY <2>1, <3>3
      <4> QED BY <1>8, <1>9, <3>3, <4>1
    <3>4. CASE k = 4
      BY <2>1, <3>4
    <3>5. k \in {1, 2, 3, 4}
      BY <1>10
    <3> QED BY <3>1, <3>2, <3>3, <3>4, <3>5
  <2> QED BY <1>8, <1>9, <1>10, <2>1
<1> HIDE DEF size, off
<1>12. /\ Len(e) = off[4] + size[4]
       /\ \A i \in 1 .. Len(M) : i \in 1 .. Len(e) /\ e[i] = M[i]
       /\ \A i \in 1 .. Len(ms) : off[2] + i \in 1 .. Len(e) /\ e[off[2] + i] = ms[i]
       /\ \A i \in 1 .. Len(P) : off[3] + i \in 1 .. Len(e) /\ e[off[3] + i] = P[i]
       /\ \A i \in 1 .. Len(queue) : off[4] + i \in 1 .. Len(e) /\ e[off[4] + i] = queue[i]
  <2>1. PICK a \in Seq(Messages) : a = M \o ms
    BY MessagesConcat
  <2>2. PICK b \in Seq(Messages) : b = a \o P
    BY MessagesConcat
  <2>3. e = b \o queue
    BY <1>1, <1>2, <2>1, <2>2
  <2>4. /\ Len(a) = Len(M) + Len(ms) /\ \A k \in 1 .. Len(M) : k \in 1 .. Len(a) /\ a[k] = M[k]
        /\ \A k \in 1 .. Len(ms) : Len(M) + k \in 1 .. Len(a) /\ a[Len(M) + k] = ms[k]
    BY <2>1, JoinedElements
  <2>5. /\ Len(b) = Len(a) + Len(P) /\ \A k \in 1 .. Len(a) : k \in 1 .. Len(b) /\ b[k] = a[k]
        /\ \A k \in 1 .. Len(P) : Len(a) + k \in 1 .. Len(b) /\ b[Len(a) + k] = P[k]
    BY <2>2, JoinedElements
  <2>6. /\ Len(e) = Len(b) + Len(queue) /\ \A k \in 1 .. Len(b) : k \in 1 .. Len(e) /\ e[k] = b[k]
        /\ \A k \in 1 .. Len(queue) : Len(b) + k \in 1 .. Len(e) /\ e[Len(b) + k] = queue[k]
    BY <2>3, JoinedElements
  <2>7. Len(a) = off[3] /\ Len(b) = off[4] /\ Len(e) = off[4] + size[4] /\ Len(M) = off[2]
    BY <1>9, <2>4, <2>5, <2>6
  <2>8. \A k \in 1 .. Len(a) : k \in 1 .. Len(e) /\ e[k] = a[k]
    BY <2>5, <2>6
  <2>81. \A i \in 1 .. Len(M) : i \in 1 .. Len(e) /\ e[i] = M[i]
    BY <2>4, <2>8
  <2>82. \A i \in 1 .. Len(ms) : Len(M) + i \in 1 .. Len(e) /\ e[Len(M) + i] = ms[i]
    BY <2>4, <2>8
  <2>83. \A i \in 1 .. Len(ms) : off[2] + i \in 1 .. Len(e) /\ e[off[2] + i] = ms[i]
    BY <2>7, <2>82
  <2>84. \A i \in 1 .. Len(P) : Len(a) + i \in 1 .. Len(e) /\ e[Len(a) + i] = P[i]
    BY <2>5, <2>6
  <2>9. \A i \in 1 .. Len(P) : off[3] + i \in 1 .. Len(e) /\ e[off[3] + i] = P[i]
    BY <2>7, <2>84
  <2>10. \A i \in 1 .. Len(queue) : off[4] + i \in 1 .. Len(e) /\ e[off[4] + i] = queue[i]
    BY <2>6, <2>7
  <2> QED BY <2>7, <2>81, <2>83, <2>9, <2>10
<1>13. ASSUME NEW k \in 1 .. 4, NEW i \in DOMAIN ln[k]
       PROVE  /\ ix(k, i) \in 1 .. size[k] /\ off[k] + ix(k, i) \in 1 .. Len(e)
              /\ e[off[k] + ix(k, i)] = ln[k][i]
  <2>1. CASE k = 1
    <3>1. i \in 1 .. Len(M) /\ ix(k, i) = i /\ i \in Nat
      BY <1>7, <1>13, <2>1
    <3>2. off[k] + ix(k, i) = i
      BY <1>9, <2>1, <3>1
    <3>3. ln[k][i] = M[i] /\ size[k] = Len(M)
      BY <1>6, <1>9, <2>1
    <3>4. i \in 1 .. Len(e) /\ e[i] = M[i]
      BY <1>12, <3>1
    <3> QED BY <3>1, <3>2, <3>3, <3>4
  <2>2. CASE k = 2
    <3>1. i \in E /\ ix(k, i) = nr[i]
      BY <1>7, <1>13, <2>2
    <3>2. ln[k][i] = ms[nr[i]] /\ nr[i] \in 1 .. Len(ms)
      BY <1>4, <1>6, <2>2, <3>1
    <3> QED BY <1>9, <1>12, <2>2, <3>1, <3>2
  <2>3. CASE k = 3
    <3>1. i \in 1 .. Len(P) /\ ix(k, i) = i
      BY <1>7, <1>13, <2>3
    <3> QED BY <1>6, <1>9, <1>12, <2>3, <3>1
  <2>4. CASE k = 4
    <3>1. i \in 1 .. Len(queue) /\ ix(k, i) = i
      BY <1>7, <1>13, <2>4
    <3> QED BY <1>6, <1>9, <1>12, <2>4, <3>1
  <2> QED BY <1>10, <1>13, <2>1, <2>2, <2>3, <2>4
<1>14. \A k \in 1 .. 4 : \A i, j \in DOMAIN ln[k] : i < j <=> ix(k, i) < ix(k, j)
  BY <1>4, <1>7
<1>15. \A k \in 1 .. 4 : \A x \in 1 .. size[k] : \E i \in DOMAIN ln[k] : ix(k, i) = x
  <2>1. ASSUME NEW k \in 1 .. 4, NEW x \in 1 .. size[k] PROVE \E i \in DOMAIN ln[k] : ix(k, i) = x
    <3>1. CASE k = 2
      <4>1. x \in 1 .. Len(ms)
        BY <1>9, <3>1
      <4>2. PICK i \in E : nr[i] = x
        BY <1>4, <4>1
      <4> QED BY <1>7, <3>1, <4>2
    <3>2. CASE k # 2
      <4>1. DOMAIN ln[k] = 1 .. size[k]
        BY <1>7, <1>9, <1>10, <3>2
      <4> QED BY <3>2, <4>1
    <3> QED BY <3>1, <3>2
  <2> QED BY <2>1
<1> HIDE DEF ix
<1> DEFINE pos == [p \in Places(queue) |-> off[p[1]] + ix(p[1], p[2])]
<1>16. /\ \A p \in Places(queue) : p[1] \in 1 .. 4 /\ p[2] \in DOMAIN ln[p[1]]
       /\ \A k \in 1 .. 4 : \A i \in DOMAIN ln[k] : <<k, i>> \in Places(queue) /\ <<k, i>>[1] = k /\ <<k, i>>[2] = i
  BY <1>5 DEF Places
<1>17. pos \in [Places(queue) -> 1 .. Len(e)] /\ \A p \in Places(queue) : e[pos[p]] = ln[p[1]][p[2]]
  BY <1>13, <1>16
<1>18. ASSUME NEW p \in Places(queue), NEW q \in Places(queue) PROVE Before(p, q) <=> pos[p] < pos[q]
  <2>1. PICK k \in 1 .. 4 : k = p[1]
    BY <1>16
  <2>2. PICK l \in 1 .. 4 : l = q[1]
    BY <1>16
  <2>3. PICK x \in 1 .. size[k] : x = ix(p[1], p[2])
    BY <1>13, <1>16, <2>1
  <2>4. PICK y \in 1 .. size[l] : y = ix(q[1], q[2])
    BY <1>13, <1>16, <2>2
  <2>5. pos[p] = off[k] + x /\ pos[q] = off[l] + y
    BY <2>1, <2>2, <2>3, <2>4
  <2>6. k = l => (p[2] < q[2] <=> x < y)
    BY <1>14, <1>16, <2>1, <2>2, <2>3, <2>4
  <2>7. off[k] \in Nat /\ off[l] \in Nat /\ size[k] \in Nat /\ size[l] \in Nat /\ x \in Nat /\ y \in Nat
        /\ x <= size[k] /\ y <= size[l] /\ x >= 1 /\ y >= 1
    <3>1. off[k] \in Nat /\ off[l] \in Nat /\ size[k] \in Nat /\ size[l] \in Nat
      BY <1>11
    <3> QED BY <3>1
  <2> HIDE DEF pos
  <2>71. \A o, z, f, v, g \in Nat : o + z <= f /\ v <= z /\ g >= 1 => o + v < f + g
    OBVIOUS
  <2>8. CASE k < l
    <3>1. off[k] + size[k] <= off[l]
      BY <1>11, <2>8
    <3>2. pos[p] < pos[q]
      BY <2>5, <2>7, <2>71, <3>1
    <3> QED BY <2>1, <2>2, <2>8, <3>2 DEF Before
  <2>9. CASE l < k
    <3>1. off[l] + size[l] <= off[k]
      BY <1>11, <2>9
    <3>20. pos[q] < pos[p]
      BY <2>5, <2>7, <2>71, <3>1
    <3>21. pos[p] \in Nat /\ pos[q] \in Nat
      <4>1. \A o, v \in Nat : o + v \in Nat
        OBVIOUS
      <4> QED BY <2>5, <2>7, <4>1
    <3>2. ~(pos[p] < pos[q])
      BY <3>20, <3>21
    <3>3. ~(k < l) /\ k # l
      BY <2>9
    <3> QED BY <2>1, <2>2, <3>2, <3>3 DEF Before
  <2>10. CASE k = l
    <3>1. pos[p] < pos[q] <=> x < y
      BY <2>5, <2>7, <2>10
    <3>2. ~(k < l)
      BY <2>10
    <3> QED BY <2>1, <2>2, <2>6, <2>10, <3>1, <3>2 DEF Before
  <2>11. k < l \/ l < k \/ k = l
    OBVIOUS
  <2> QED BY <2>8, <2>9, <2>10, <2>11
<1>19. ASSUME NEW n \in 1 .. Len(e) PROVE \E p \in Places(queue) : pos[p] = n
  <2>1. \E k \in 1 .. 4 : n - off[k] \in 1 .. size[k] /\ off[k] + (n - off[k]) = n
    <3>1. n \in Nat /\ n >= 1 /\ n <= off[4] + size[4]
      <4>1. off[4] \in Nat /\ size[4] \in Nat
        BY <1>8, <1>9
      <4> QED BY <1>12, <4>1
    <3>2. n <= off[2] \/ (n > off[2] /\ n <= off[3]) \/ (n > off[3] /\ n <= off[4]) \/ n > off[4]
      <4>1. \A a, b, c, m \in Nat : m <= a \/ (m > a /\ m <= b) \/ (m > b /\ m <= c) \/ m > c
        OBVIOUS
      <4>2. off[2] \in Nat /\ off[3] \in Nat /\ off[4] \in Nat
        BY <1>8, <1>9
      <4> QED BY <3>1, <4>1, <4>2
    <3>3. CASE n <= off[2]
      <4>1. n - off[1] \in 1 .. size[1] /\ off[1] + (n - off[1]) = n
        BY <1>8, <1>9, <3>1, <3>3
      <4>2. 1 \in 1 .. 4
        OBVIOUS
      <4> QED BY <4>1, <4>2
    <3>4. CASE n > off[2] /\ n <= off[3]
      <4>1. n - off[2] \in 1 .. size[2] /\ off[2] + (n - off[2]) = n
        BY <1>8, <1>9, <3>1, <3>4
      <4>2. 2 \in 1 .. 4
        OBVIOUS
      <4> QED BY <4>1, <4>2
    <3>5. CASE n > off[3] /\ n <= off[4]
      <4>1. n - off[3] \in 1 .. size[3] /\ off[3] + (n - off[3]) = n
        BY <1>8, <1>9, <3>1, <3>5
      <4>2. 3 \in 1 .. 4
        OBVIOUS
      <4> QED BY <4>1, <4>2
    <3>6. CASE n > off[4]
      <4>1. n - off[4] \in 1 .. size[4] /\ off[4] + (n - off[4]) = n
        BY <1>8, <1>9, <3>1, <3>6
      <4>2. 4 \in 1 .. 4
        OBVIOUS
      <4> QED BY <4>1, <4>2
    <3> QED BY <3>2, <3>3, <3>4, <3>5, <3>6
  <2>2. PICK k \in 1 .. 4 : n - off[k] \in 1 .. size[k] /\ off[k] + (n - off[k]) = n
    BY <2>1
  <2>3. PICK i \in DOMAIN ln[k] : ix(k, i) = n - off[k]
    BY <1>15, <2>2
  <2>4. <<k, i>> \in Places(queue) /\ pos[<<k, i>>] = off[k] + ix(k, i)
    BY <1>16
  <2> QED BY <2>2, <2>3, <2>4
<1> HIDE DEF pos
<1> QED BY <1>5, <1>17, <1>18, <1>19 DEF Numbers

(* What a queue was sent is in one place each, in the order of sending.    *)
LEMMA AccountedFor ==
    ASSUME AgentInv, NEW w \in Ways, NEW queue \in Seq(Messages), NEW ms \in Seq(Messages),
           Announces(loop.todo, ms), Drawn = (messages \o ms) \o loop.pendingMessages,
           InOrder(Drawn, queue, sent[w])
    PROVE  Accounted(w, queue)
<1>1. PICK d \in Seq(Messages) : d = Drawn
  BY DrawnTyped
<1>2. PICK s \in Seq(Messages) : s = sent[w]
  BY DrawnTyped
<1>3. PICK e \in Seq(Messages) : e = d \o queue
  BY MessagesConcat
<1>4. e = ((messages \o ms) \o loop.pendingMessages) \o queue
  BY <1>1, <1>3
<1>5. PICK pos : Numbers(pos, e, queue)
  BY <1>4, PlacesNumbered
<1>6. InOrder(d, queue, s)
  BY <1>1, <1>2
<1>7. OrderOf(e, s)
  BY <1>3, <1>6, LineInOrder
<1>8. DOMAIN s = 1 .. Len(s)
  OBVIOUS
<1>9. ASSUME NEW i \in DOMAIN s PROVE \E p \in Places(queue) : Line(queue)[p[1]][p[2]] = s[i]
  <2>1. PICK n \in 1 .. Len(e) : e[n] = s[i]
    BY <1>7, <1>8 DEF OrderOf
  <2>2. PICK p \in Places(queue) : pos[p] = n
    BY <1>5 DEF Numbers
  <2>3. e[pos[p]] = Line(queue)[p[1]][p[2]]
    BY <1>5 DEF Numbers
  <2> QED BY <2>1, <2>2, <2>3
<1>10. ASSUME NEW i \in DOMAIN s, NEW j \in DOMAIN s, NEW p \in Places(queue), NEW q \in Places(queue),
              Line(queue)[p[1]][p[2]] = s[i], Line(queue)[q[1]][q[2]] = s[j]
       PROVE  i < j <=> Before(p, q)
  <2>1. e[pos[p]] = s[i] /\ e[pos[q]] = s[j]
    BY <1>5, <1>10 DEF Numbers
  <2>2. pos[p] \in 1 .. Len(e) /\ pos[q] \in 1 .. Len(e)
    BY <1>5 DEF Numbers
  <2>3. i < j <=> pos[p] < pos[q]
    BY <1>7, <1>8, <2>1, <2>2 DEF OrderOf
  <2>4. Before(p, q) <=> pos[p] < pos[q]
    BY <1>5 DEF Numbers
  <2> QED BY <2>3, <2>4
<1>11. ASSUME NEW k \in DOMAIN queue PROVE \E i \in DOMAIN s : queue[k] = s[i]
  <2>1. k \in 1 .. Len(queue) /\ Len(queue) \in Nat /\ Len(s) \in Nat /\ Len(queue) <= Len(s)
    BY <1>6 DEF InOrder, HoldsRest
  <2>2. Len(s) - Len(queue) + k \in 1 .. Len(s)
    BY <2>1
  <2>3. queue[k] = s[Len(s) - Len(queue) + k]
    BY <1>6, <2>1 DEF InOrder, HoldsRest
  <2> QED BY <1>8, <2>2, <2>3
<1> QED BY <1>2, <1>9, <1>10, <1>11 DEF Accounted

(* The invariant gives the property.                                       *)
LEMMA SentInOrder ==
    ASSUME AgentInv, MirrorInv, AnswersInv, SentInv
    PROVE  QueuedOnceInOrder
<1>1. \E ms \in Seq(Messages) : Announces(loop.todo, ms) /\ Settled = messages \o ms
  <2>1. CASE Busy
    BY <2>1 DEF MirrorInv, StateFollows, Settled
  <2>2. CASE ~Busy
    <3>1. loop.todo \in Seq(Events) /\ <<>> \in Seq(Messages) /\ messages \in Seq(Messages)
      BY FieldsTyped DEF AgentInv, TypeOK, StateTypeOK
    <3>2. Announces(loop.todo, <<>>)
      BY <2>2, <3>1, SilentAnnounces DEF AnswersInv, IdleAnswered
    <3>3. Settled = messages \o <<>>
      BY <2>2, <3>1, ConcatEmptySeq DEF Settled
    <3> QED BY <3>1, <3>2, <3>3
  <2> QED BY <2>1, <2>2
<1>2. PICK ms \in Seq(Messages) : Announces(loop.todo, ms) /\ Settled = messages \o ms
  BY <1>1
<1>3. Drawn = (messages \o ms) \o loop.pendingMessages
  BY <1>2 DEF Drawn
<1>4. /\ steeringQueue \in Seq(Messages) /\ followUpQueue \in Seq(Messages)
      /\ "steer" \in Ways /\ "followUp" \in Ways
      /\ InOrder(Drawn, steeringQueue, sent["steer"]) /\ InOrder(Drawn, followUpQueue, sent["followUp"])
  BY DrawnTyped DEF Ways, SentInv
<1>5. Accounted("steer", steeringQueue)
  BY <1>2, <1>3, <1>4, AccountedFor
<1>6. Accounted("followUp", followUpQueue)
  BY <1>2, <1>3, <1>4, AccountedFor
<1> QED BY <1>5, <1>6 DEF QueuedOnceInOrder

(* Nothing was sent at the start.                                          *)
LEMMA SentInit == Init => SentInv
<1> SUFFICES ASSUME Init PROVE SentInv
  OBVIOUS
<1>1. /\ \A w \in Ways : sent[w] = <<>>
      /\ loop.pendingMessages = <<>> /\ ~Busy /\ messages = <<>> /\ steeringQueue = <<>> /\ followUpQueue = <<>>
      /\ sent.steer = <<>> /\ sent.followUp = <<>>
  BY DEF Init, Ways, Busy, IdleLoop
<1>2. Drawn = <<>>
  <2>1. <<>> \in Seq(Messages)
    OBVIOUS
  <2> QED BY <1>1, <2>1, ConcatEmptySeq DEF Drawn, Settled
<1>3. PICK none \in Seq(Messages) : none = <<>> /\ Len(none) = 0 /\ 1 .. Len(none) = {}
  <2>1. <<>> \in Seq(Messages) /\ Len(<<>>) = 0 /\ 1 .. 0 = {}
    OBVIOUS
  <2> QED BY <2>1
<1>4. InOrder(none, none, none)
  BY <1>3 DEF InOrder, Distinct, HoldsRest, DrawnInOrder
<1>5. \A w \in Ways : 1 .. Len(sent[w]) = {}
  BY <1>1, <1>3
<1>6. 1 .. Len(Drawn) = {}
  BY <1>2, <1>3
<1>7. SentApart /\ SentByUser /\ DrawnWasSent /\ InjectedAtOnce
  BY <1>1, <1>5, <1>6 DEF SentApart, SentByUser, DrawnWasSent, InjectedAtOnce
<1> QED BY <1>1, <1>2, <1>3, <1>4, <1>7 DEF SentInv

(* Messages queued one way are injected once and in order, while no        *)
(* listener throws and the queues are not cleared: what is drawn goes from *)
(* the front of its queue to what the run settles (drain, injected before  *)
(* the next request), and no other message is the user's.                  *)
THEOREM QueuedOnceInOrderHolds ==
    ASSUME ListenersFail = FALSE, {"clear", "reset"} \cap Api = {}
    PROVE  Spec => []QueuedOnceInOrder
<1>1. [Next]_vars => [Reset => ~activeRun]_vars
  BY DEF Reset
<1>2. AgentInv /\ MirrorInv /\ [Next]_vars /\ [Reset => ~activeRun]_vars => MirrorInv'
  BY MirrorStep
<1>3. AgentInv /\ PendingInv /\ [Next]_vars /\ [Reset => ~activeRun]_vars => PendingInv'
  BY PendingStep
<1>4. AgentInv /\ MirrorInv /\ PendingInv /\ AnswersInv /\ [Next]_vars /\ [Reset => ~activeRun]_vars
        => AnswersInv'
  BY AnswersStep
<1>5. AgentInv /\ AgentInv' /\ MirrorInv /\ AnswersInv /\ SentInv /\ [Next]_vars => SentInv'
  BY SentStep
<1>6. AgentInv /\ MirrorInv /\ AnswersInv /\ SentInv => QueuedOnceInOrder
  BY SentInOrder
<1> QED BY <1>1, <1>2, <1>3, <1>4, <1>5, <1>6, MirrorInit, PendingInit, AnswersInit, SentInit,
           AgentInvariant, PTL DEF Spec
===============================================================================
