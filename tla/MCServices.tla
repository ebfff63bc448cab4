----------------------------- MODULE MCServices -----------------------------
(***************************************************************************)
(* Seven components that share no state, in one instance.  A step of one    *)
(* neither enables nor disables a step of another, so interleaving them    *)
(* shows nothing that each alone does not: part says which one moves.      *)
(***************************************************************************)
EXTENDS AuthStorage, SettingsManager, EventStream, WorkflowExecutor, RpcClient,
        TransformMessages, StdinBuffer

CONSTANTS u1, u2, theme, retry, model,
          TogetherAtFirst  \* do both processes start when there is no settings file yet

VARIABLE part

Parts == {"auth", "settings", "stream", "workflow", "rpc", "transform", "stdin"}
vars == <<part, authVars, settingsVars, streamVars, workflowVars, rpcVars,
          transformVars, stdinVars>>

(* A process with two settings and one with a third.                       *)
TwoAndOne == [f \in {theme, retry, model} |-> IF f = model THEN u2 ELSE u1]

(* Every graph of three tasks in which none names itself.                  *)
Definitions == {d \in [1 .. 3 -> SUBSET (1 .. 3)] : \A t \in 1 .. 3 : t \notin d[t]}

PasteOf(s) == START \o s \o END
Keys == {<<"a">>, ESC, <<"esc", "a">>, <<"esc", "[", "200", "a">>, PasteOf(<<>>), PasteOf(<<"a", "esc", "[">>)}

SecondWaits == UNCHANGED <<settings[u2], queue[u2], reloading[u2]>>

Moving(p) ==
    /\ part = p /\ UNCHANGED part
    /\ p # "auth"     => UNCHANGED authVars
    /\ p # "settings" => UNCHANGED settingsVars
    /\ p # "stream"   => UNCHANGED streamVars
    /\ p # "workflow" => UNCHANGED workflowVars
    /\ p # "rpc"      => UNCHANGED rpcVars
    /\ p # "transform" => UNCHANGED transformVars
    /\ p # "stdin"    => UNCHANGED stdinVars

Init ==
    /\ part \in Parts
    /\ AuthInit /\ SettingsInit /\ StreamInit /\ WorkflowInit /\ RpcInit /\ TransformInit /\ StdinInit
    /\ part # "settings" => saved = Default
    /\ part # "workflow" => policy = "stop" /\ \A t \in TaskIds : dependencies[t] = {}

Next ==
    \/ AuthNext /\ Moving("auth")
    \/ SettingsNext /\ Moving("settings") /\ (saved = NoFile /\ ~TogetherAtFirst => SecondWaits)
    \/ StreamNext /\ Moving("stream")
    \/ WorkflowNext /\ Moving("workflow")
    \/ RpcNext /\ Moving("rpc")
    \/ TransformNext /\ Moving("transform")
    \/ StdinNext /\ Moving("stdin")

Fairness ==
    /\ \A p \in Processes : WF_vars(GetStep(p) /\ Moving("auth"))
    /\ WF_vars(Produce /\ Moving("stream"))
    /\ \A c \in Consumers : WF_vars(Iterate(c) /\ Moving("stream"))
    /\ WF_vars(Execute /\ Moving("workflow"))
    /\ \A x \in RpcCalls \cup Listening : WF_vars(Expiry(x) /\ Moving("rpc"))

Spec == Init /\ [][Next]_vars /\ Fairness
=============================================================================
