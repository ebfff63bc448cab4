-------------------------- MODULE TransformMessages --------------------------
(***************************************************************************)
(* transformMessages (packages/ai/src/providers/transform-messages.ts),    *)
(* which every provider applies to the conversation of a request, and the  *)
(* conversations there are: answered, failed and broken off tool calls,    *)
(* and answers of another model, whose call ids have another form.         *)
(*                                                                         *)
(* A call is <<answer, number, form of its id>>.  The forms of two ids are *)
(* different if the ids are: how a provider shortens an id is not          *)
(* modelled.                                                               *)
(***************************************************************************)
EXTENDS Naturals, Sequences, SequencesExt

CONSTANTS MaxMessages,   \* bound on the conversation
          MaxAnswerCalls,\* calls of one answer
          Resumed        \* can the model be asked again when a result is missing

ASSUME TransformAssumption == {MaxMessages, MaxAnswerCalls} \subseteq Nat /\ Resumed \in BOOLEAN

VARIABLES
    conversation,  \* messages
    unanswered     \* the calls of the last answer that may still get a result

transformVars == <<conversation, unanswered>>

Message(role, calls, call, foreign, stop) ==
    [role |-> role, calls |-> calls, call |-> call, foreign |-> foreign, stop |-> stop]
NoTool          == <<>>
UserMessage     == Message("user", <<>>, NoTool, FALSE, "none")
ToolResult(c)   == Message("toolResult", <<>>, c, FALSE, "none")

IsAnswer(m)     == m.role = "assistant"
Incomplete(m)   == m.stop \in {"error", "aborted"}
---------------------------------------------------------------------------
(* The first pass: the call ids of another model are replaced, in its      *)
(* answers and in the results of their calls.                              *)
Shortened(c) == <<c[1], c[2], "short">>

NotReplaced(s, i) == {}              \* mutant: results keep their ids
Replaced(s, i) ==
    UNION {ToSet(s[j].calls) : j \in {k \in 1 .. i - 1 : IsAnswer(s[k]) /\ s[k].foreign}}

Normalized(s) ==
    [i \in DOMAIN s |->
        CASE IsAnswer(s[i]) /\ s[i].foreign ->
               [s[i] EXCEPT !.calls = [k \in DOMAIN @ |-> Shortened(@[k])]]
          [] s[i].role = "toolResult" /\ s[i].call \in Replaced(s, i) ->
               [s[i] EXCEPT !.call = Shortened(@)]
          [] OTHER -> s[i]]

(* The second pass: an answer or a message of the user is preceded by      *)
(* results for the calls that are pending and have none; failed answers    *)
(* are left out.                                                           *)
PendingAnswer(s, i) ==
    {j \in 1 .. i - 1 : /\ IsAnswer(s[j]) /\ ~Incomplete(s[j])
                        /\ \A k \in j + 1 .. i - 1 : s[k].role = "toolResult"}

Synthetic(s, i) ==
    IF s[i].role = "toolResult" \/ PendingAnswer(s, i) = {}
      THEN <<>>
      ELSE LET j == CHOOSE j \in PendingAnswer(s, i) : TRUE
               HasNone(c) == \A k \in j + 1 .. i - 1 : s[k].call # c
               Inserted(c) == IF HasNone(c) THEN <<ToolResult(c)>> ELSE <<>>
           IN  FlattenSeq([k \in DOMAIN s[j].calls |-> Inserted(s[j].calls[k])])

Replayed(m) == IF IsAnswer(m) /\ Incomplete(m) THEN <<>> ELSE <<m>>

transformMessages(messages) ==
    LET s == Normalized(messages) IN
    FlattenSeq([i \in DOMAIN s |-> Synthetic(s, i) \o Replayed(s[i])])
---------------------------------------------------------------------------
(* How a conversation comes about.                                         *)
Says(m) == Len(conversation) < MaxMessages /\ conversation' = Append(conversation, m)
EndsWith(role) == conversation # <<>> /\ Last(conversation).role = role

TransformInit == conversation = <<>> /\ unanswered = {}

(* After a crash or a failure the user goes on whatever is missing.        *)
UserSays == Says(UserMessage) /\ unanswered' = {}

(* The model is asked after a message of the user, or after the results.   *)
Askable == (EndsWith("user") \/ EndsWith("toolResult")) /\ (unanswered = {} \/ Resumed)

ModelAnswers ==
    /\ Askable
    /\ \E n \in 0 .. MaxAnswerCalls, foreign \in BOOLEAN, stop \in {"stop", "error", "aborted"} :
        LET calls == [k \in 1 .. n |-> <<Len(conversation) + 1, k, "long">>] IN
        /\ Says(Message("assistant", calls, NoTool, foreign, stop))
        /\ unanswered' = IF stop = "stop" THEN ToSet(calls) ELSE {}

ToolReturns ==
    \E c \in unanswered : Says(ToolResult(c)) /\ unanswered' = unanswered \ {c}

(* handleRunFailure of Agent: the run ends in the middle of its calls.     *)
RunFails ==
    /\ unanswered # {} /\ unanswered' = {}
    /\ Says(Message("assistant", <<>>, NoTool, FALSE, "error"))

(* A shell command's output, a message of the user to the model, comes     *)
(* between a call and its result.                                          *)
BashInterrupts == unanswered # {} /\ Says(UserMessage) /\ UNCHANGED unanswered

TransformNext == UserSays \/ ModelAnswers \/ ToolReturns \/ RunFails \/ BashInterrupts

TransformSpec == TransformInit /\ [][TransformNext]_transformVars
---------------------------------------------------------------------------
(* "Insert synthetic empty tool results for orphaned tool calls": whenever *)
(* the model is asked, the results of an answer's calls, one for each,     *)
(* follow it at once.                                                      *)
AnsweredInPlace(s) ==
    \A i \in DOMAIN s : IsAnswer(s[i]) =>
        LET n == Len(s[i].calls) IN
        i + n <= Len(s) /\ {s[k].call : k \in i + 1 .. i + n} = ToSet(s[i].calls)

(* There are no others, unless something came between a call and a result: *)
(* then the call is answered twice.                                        *)
NoOthers(s) ==
    \A i \in DOMAIN s : s[i].role = "toolResult" =>
        \E j \in 1 .. i - 1 : IsAnswer(s[j]) /\ i <= j + Len(s[j].calls)

InPlace(s) ==
    \A i \in DOMAIN s : s[i].role = "toolResult" =>
        \A k \in s[i].call[1] + 1 .. i - 1 : s[k].role = "toolResult"

RequestsComplete ==
    Askable =>
        /\ AnsweredInPlace(transformMessages(conversation))
        /\ InPlace(conversation) => NoOthers(transformMessages(conversation))
=============================================================================
