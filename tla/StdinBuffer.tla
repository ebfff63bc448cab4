---------------------------- MODULE StdinBuffer ----------------------------
(***************************************************************************)
(* StdinBuffer (packages/tui/src/stdin-buffer.ts): the bytes of the        *)
(* terminal, arriving in chunks of any size, become key sequences and      *)
(* pastes.                                                                 *)
(*                                                                         *)
(* Input is a sequence of tokens: "esc", "[", the parameters "200" and     *)
(* "201", the final byte "~" and the letter "a".  Control sequences        *)
(* ("esc" "[" ... final), escaped letters and single characters are        *)
(* modelled; strings and mouse reports end in other ways, but are put      *)
(* together alike.                                                         *)
(***************************************************************************)
EXTENDS Naturals, Sequences, SequencesExt

CONSTANTS Units,     \* what a terminal sends for a key or a paste: sequences of tokens
          MaxUnits,  \* bound on them
          Hasty      \* can other input follow the escape key within 10 ms

ASSUME StdinAssumption == MaxUnits \in Nat /\ Hasty \in BOOLEAN

VARIABLES
    typed,       \* the units sent
    arriving,    \* tokens sent that have not arrived
    inputBuffer, \* buffer
    pasteMode,
    pasteBuffer,
    flushTimer,  \* is the timeout armed
    emitted      \* the events, in order

stdinVars == <<typed, arriving, inputBuffer, pasteMode, pasteBuffer, flushTimer, emitted>>

Tokens == {"esc", "[", "200", "201", "~", "a"}
ESC   == <<"esc">>
START == <<"esc", "[", "200", "~">>
END   == <<"esc", "[", "201", "~">>
FinalBytes == {"~", "a", "["}

Data(s)  == [type |-> "data", tokens |-> s]
Paste(s) == [type |-> "paste", tokens |-> s]

StdinInit ==
    /\ typed = <<>> /\ arriving = <<>> /\ inputBuffer = <<>>
    /\ pasteMode = FALSE /\ pasteBuffer = <<>> /\ flushTimer = FALSE
    /\ emitted = <<>>

(* isCompleteSequence, for a sequence that begins with "esc".              *)
BracketFinal(s) ==                   \* mutant: "esc" "[" is complete
    Len(s) >= 2 /\ (s[2] = "[" => Last(s) \in FinalBytes)
isComplete(s) ==
    /\ Len(s) >= 2
    /\ s[2] = "[" => Len(s) >= 3 /\ Last(s) \in FinalBytes

(* extractCompleteSequences: where the sequence at i ends, 0 if it does    *)
(* not.                                                                    *)
SequenceEnd(s, i) ==
    LET ends == {e \in i .. Len(s) : isComplete(SubSeq(s, i, e))} IN
    IF s[i] # "esc" THEN i
    ELSE IF ends = {} THEN 0
    ELSE CHOOSE e \in ends : \A d \in ends : e <= d

(* The sequences from i on, and the position of what remains.              *)
Extracted(s) ==
    LET from[i \in 1 .. Len(s) + 1] ==
            IF i > Len(s) \/ SequenceEnd(s, i) = 0
              THEN [events |-> <<>>, rest |-> i]
              ELSE LET later == from[SequenceEnd(s, i) + 1] IN
                   [later EXCEPT !.events = <<Data(SubSeq(s, i, SequenceEnd(s, i)))>> \o @]
    IN  [events |-> from[1].events, remainder |-> SubSeq(s, from[1].rest, Len(s))]

(* indexOf: the first position of a marker, 0 if there is none.            *)
IndexOf(s, marker) ==
    LET at == {i \in 1 .. Len(s) - 3 : SubSeq(s, i, i + 3) = marker} IN
    IF at = {} THEN 0 ELSE CHOOSE i \in at : \A j \in at : i <= j
---------------------------------------------------------------------------
(* process(): a paste begins and ends where its markers are, wherever the  *)
(* chunks begin; what an incomplete sequence before it began is dropped,   *)
(* and what comes after it is processed anew.                              *)
After(s, marker)  == SubSeq(s, IndexOf(s, marker) + 4, Len(s))
Before(s, marker) == SubSeq(s, 1, IndexOf(s, marker) - 1)

Processing ==
    LET process[s \in Seq(Tokens), pasting \in BOOLEAN] ==
        CASE pasting /\ IndexOf(s, END) = 0 ->
               [buffer |-> <<>>, pasting |-> TRUE, pasted |-> s, events |-> <<>>]
          [] pasting /\ IndexOf(s, END) # 0 ->
               LET later == process[After(s, END), FALSE] IN
               [later EXCEPT !.events = <<Paste(Before(s, END))>> \o @]
          [] ~pasting /\ IndexOf(s, START) # 0 ->
               LET later == process[After(s, START), TRUE] IN
               [later EXCEPT !.events = Extracted(Before(s, START)).events \o @]
          [] OTHER ->
               [buffer |-> Extracted(s).remainder, pasting |-> FALSE, pasted |-> <<>>,
                events |-> Extracted(s).events]
    IN  process
---------------------------------------------------------------------------
(* A key or a paste is sent; the escape key is told from the beginning of  *)
(* a sequence by the time that passes after it.                            *)
Type ==
    /\ Len(typed) < MaxUnits
    /\ typed # <<>> /\ Last(typed) = ESC => Hasty \/ (arriving = <<>> /\ inputBuffer = <<>>)
    /\ \E u \in Units : typed' = Append(typed, u) /\ arriving' = arriving \o u
    /\ UNCHANGED <<inputBuffer, pasteMode, pasteBuffer, flushTimer, emitted>>

Chunk ==
    /\ \E n \in 1 .. Len(arriving) :
        LET after == Processing[pasteBuffer \o inputBuffer \o SubSeq(arriving, 1, n), pasteMode] IN
        /\ arriving' = SubSeq(arriving, n + 1, Len(arriving))
        /\ inputBuffer' = after.buffer /\ flushTimer' = (after.buffer # <<>>)
        /\ pasteMode' = after.pasting /\ pasteBuffer' = after.pasted
        /\ emitted' = emitted \o after.events
    /\ UNCHANGED typed

(* The timeout, when the rest of a sequence has not come: flush().         *)
FlushTimeout ==
    /\ flushTimer /\ arriving = <<>>
    /\ emitted' = Append(emitted, Data(inputBuffer))
    /\ inputBuffer' = <<>> /\ flushTimer' = FALSE
    /\ UNCHANGED <<typed, arriving, pasteMode, pasteBuffer>>

StdinNext == Type \/ Chunk \/ FlushTimeout

StdinSpec == StdinInit /\ [][StdinNext]_stdinVars
---------------------------------------------------------------------------
(* "Buffers input and emits complete sequences": however the input is cut  *)
(* into chunks, the events are the keys and the pastes that were sent, and *)
(* when all has arrived and nothing is buffered, all of them.              *)
EventOf(u) ==
    IF IndexOf(u, START) = 1 THEN Paste(SubSeq(u, 5, Len(u) - 4)) ELSE Data(u)
EventsSent == [i \in DOMAIN typed |-> EventOf(typed[i])]

SequencesWhole ==
    /\ IsPrefix(emitted, EventsSent)
    /\ arriving \o inputBuffer = <<>> => ~pasteMode /\ emitted = EventsSent
    /\ inputBuffer # <<>> => flushTimer
=============================================================================
