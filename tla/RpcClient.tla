------------------------------ MODULE RpcClient ------------------------------
(***************************************************************************)
(* The client of RPC mode (packages/coding-agent/src/modes/rpc/            *)
(* rpc-client.ts) and what it meets: rpc-mode.ts at the other end of two   *)
(* pipes.  A call is a prompt, made by promptAndWait(), or any other       *)
(* command; waitForIdle() is a listener without a call.  The number of a   *)
(* request is never used again, so it is the call itself.                  *)
(*                                                                         *)
(* Time is not modelled: a timer that is armed may fire whenever its       *)
(* callback can run.                                                       *)
(***************************************************************************)
EXTENDS Naturals, Sequences, FiniteSets

CONSTANTS Prompts, Queries,  \* the calls, each made once
          IdleWaiters,       \* the calls of waitForIdle()
          NoPrompt,
          ServerFaults       \* subset of {"crash", "retry"}

RpcCalls  == Prompts \cup Queries
Listening == Prompts \cup IdleWaiters

(* The timer of a listener is not the timer of a call.                     *)
ListenerTimer(l) == <<"listener", l>>
ASSUME TimersDistinct == \A l \in Listening : ListenerTimer(l) \notin RpcCalls

VARIABLES
    client,     \* this.process: "up", "stopping" or "none"
    server,     \* is the child alive
    call,       \* call -> "new", "pending", "resolved" or "rejected"
    requests,   \* pendingRequests
    timers,     \* the calls and listeners whose timer is armed
    listeners,  \* eventListeners, in order
    waiter,     \* listener -> "new", "listening", "resolved" or "rejected"
    toServer, toClient,  \* the pipes
    handling,   \* the commands whose handler is running
    run,        \* the prompt the server's agent is running
    runsOver,   \* history: the prompts whose run has ended
    misled      \* history: the listeners that were given a response for an event

rpcVars == <<client, server, call, requests, timers, listeners, waiter,
             toServer, toClient, handling, run, runsOver, misled>>
callVars   == <<call, requests>>
waiterVars == <<listeners, waiter>>
serverVars == <<server, handling, run, runsOver>>
pipes      == <<toServer, toClient>>

Line(type, of) == [type |-> type, of |-> of]

RpcInit ==
    /\ client = "up" /\ server = TRUE
    /\ call = [c \in RpcCalls |-> "new"] /\ requests = {} /\ timers = {}
    /\ waiter = [l \in Listening |-> "new"] /\ listeners = <<>>
    /\ toServer = <<>> /\ toClient = <<>> /\ handling = {}
    /\ run = NoPrompt /\ runsOver = {} /\ misled = {}

(* Without a process send() throws: "Client not started".                  *)
Request(c, armed) ==
    /\ call[c] = "new"
    /\ IF client = "none"
         THEN /\ call' = [call EXCEPT ![c] = "rejected"]
              /\ timers' = timers \cup armed
              /\ UNCHANGED <<requests, toServer>>
         ELSE /\ call' = [call EXCEPT ![c] = "pending"]
              /\ requests' = requests \cup {c}
              /\ timers' = timers \cup armed \cup {c}
              /\ toServer' = IF server THEN Append(toServer, c) ELSE toServer
    /\ UNCHANGED <<client, toClient, serverVars, misled>>

Listen(l) ==
    /\ waiter[l] = "new"
    /\ waiter' = [waiter EXCEPT ![l] = "listening"]
    /\ listeners' = Append(listeners, l)

Send(c) == c \in Queries /\ Request(c, {}) /\ UNCHANGED waiterVars

(* The listener is there before the prompt is sent; the two timers are one *)
(* for the call and one for the listener.                                  *)
PromptAndWait(p) == Request(p, {ListenerTimer(p)}) /\ Listen(p)

WaitForIdle(w) ==
    /\ w \in IdleWaiters /\ Listen(w) /\ timers' = timers \cup {ListenerTimer(w)}
    /\ UNCHANGED <<client, callVars, serverVars, pipes, misled>>

(* handleLine: a response to a pending request settles it; any other line  *)
(* goes to the listeners.  A listener that has seen agent_end removes      *)
(* itself from the list that is being iterated, which skips the next one:  *)
(* every other listener stays.                                             *)
Answers(line) == line.type = "response" /\ line.of \in requests

Notified == {i \in DOMAIN listeners : i % 2 = 1}
Skipped  == [i \in 1 .. Len(listeners) \div 2 |-> listeners[2 * i]]

HandleResponse(line) ==
    /\ Answers(line)
    /\ call' = [call EXCEPT ![line.of] = "resolved"]
    /\ requests' = requests \ {line.of} /\ timers' = timers \ {line.of}
    /\ UNCHANGED <<waiterVars, misled>>

HandleAgentEnd(line) ==
    /\ line.type = "agent_end"
    /\ LET woken == {listeners[i] : i \in Notified} IN
       /\ waiter' = [l \in Listening |-> IF l \in woken THEN "resolved" ELSE waiter[l]]
       /\ listeners' = Skipped
       /\ timers' = timers \ {ListenerTimer(l) : l \in woken}
    /\ UNCHANGED <<callVars, misled>>

HandleOther(line) ==
    /\ line.type = "response" /\ ~Answers(line)
    /\ misled' = misled \cup {listeners[i] : i \in DOMAIN listeners}
    /\ UNCHANGED <<callVars, waiterVars, timers>>

HandleLine ==
    /\ client = "up" /\ toClient # <<>>
    /\ LET line == Head(toClient) IN HandleResponse(line) \/ HandleAgentEnd(line) \/ HandleOther(line)
    /\ toClient' = Tail(toClient)
    /\ UNCHANGED <<client, serverVars, toServer>>

RequestKept(c) == requests          \* mutant: the timeout leaves the request in the map
RequestDropped(c) == requests \ {c}

Timeout(c) ==
    /\ c \in timers
    /\ call' = [call EXCEPT ![c] = "rejected"]
    /\ requests' = RequestDropped(c) /\ timers' = timers \ {c}
    /\ UNCHANGED <<client, waiterVars, serverVars, pipes, misled>>

(* unsubscribe(): a listener is in the list at most once.                  *)
Without(l) ==
    IF \A i \in DOMAIN listeners : listeners[i] # l THEN listeners
    ELSE [i \in 1 .. Len(listeners) - 1 |-> listeners[IF \E j \in 1 .. i : listeners[j] = l THEN i + 1 ELSE i]]

ListenerTimeout(l) ==
    /\ ListenerTimer(l) \in timers
    /\ waiter' = [waiter EXCEPT ![l] = "rejected"]
    /\ listeners' = Without(l)
    /\ timers' = timers \ {ListenerTimer(l)}
    /\ UNCHANGED <<client, callVars, serverVars, pipes, misled>>

(* stop() stops reading and kills the child, waits, and forgets what was   *)
(* pending; only the timers remember.                                      *)
ChildGone == server' = FALSE /\ handling' = {} /\ run' = NoPrompt /\ UNCHANGED runsOver

Stop ==
    /\ client = "up" /\ client' = "stopping"
    /\ toServer' = <<>> /\ toClient' = <<>> /\ ChildGone
    /\ UNCHANGED <<callVars, timers, waiterVars, misled>>

TimersCleared == timers \ RpcCalls  \* mutant: the timers of the forgotten requests are cleared
TimersKept == timers

Stopped ==
    /\ client = "stopping" /\ client' = "none"
    /\ requests' = {} /\ timers' = TimersKept
    /\ UNCHANGED <<call, waiterVars, serverVars, pipes, misled>>

ClientStart ==
    /\ client = "none" /\ client' = "up" /\ server' = TRUE
    /\ UNCHANGED <<callVars, timers, waiterVars, pipes, handling, run, runsOver, misled>>

(* The server: each line starts a handler, handlers end in any order.  A   *)
(* prompt is answered before it has begun; if the agent is busy a second   *)
(* response with the same id says so.                                      *)
ReadCommand ==
    /\ server /\ toServer # <<>>
    /\ LET c == Head(toServer) IN
       IF c \in Prompts
         THEN /\ toClient' = toClient \o <<Line("response", c)>>
                               \o (IF run = NoPrompt THEN <<>> ELSE <<Line("response", c)>>)
              /\ run' = IF run = NoPrompt THEN c ELSE run
              /\ UNCHANGED handling
         ELSE handling' = handling \cup {c} /\ UNCHANGED <<toClient, run>>
    /\ toServer' = Tail(toServer)
    /\ UNCHANGED <<client, server, runsOver, callVars, timers, waiterVars, misled>>

Respond(c) ==
    /\ server /\ c \in handling
    /\ handling' = handling \ {c}
    /\ toClient' = Append(toClient, Line("response", c))
    /\ UNCHANGED <<client, server, run, runsOver, callVars, timers, waiterVars, toServer, misled>>

(* agent_end; the session may go on with a retry of the same prompt.       *)
AgentEnd ==
    /\ server /\ run # NoPrompt
    /\ toClient' = Append(toClient, Line("agent_end", run))
    /\ \/ run' = NoPrompt /\ runsOver' = runsOver \cup {run}
       \/ "retry" \in ServerFaults /\ Len(toClient) < 2 /\ UNCHANGED <<run, runsOver>>
    /\ UNCHANGED <<client, server, handling, callVars, timers, waiterVars, toServer, misled>>

ServerCrash ==
    /\ "crash" \in ServerFaults /\ server
    /\ toServer' = <<>> /\ ChildGone
    /\ UNCHANGED <<client, callVars, timers, waiterVars, toClient, misled>>

Expiry(x) == (x \in RpcCalls /\ Timeout(x)) \/ (x \in Listening /\ ListenerTimeout(x))

RpcNext ==
    \/ \E c \in RpcCalls : Send(c) \/ Timeout(c) \/ Respond(c)
    \/ \E p \in Prompts : PromptAndWait(p)
    \/ \E l \in Listening : WaitForIdle(l) \/ ListenerTimeout(l)
    \/ HandleLine \/ Stop \/ Stopped \/ ClientStart
    \/ ReadCommand \/ AgentEnd \/ ServerCrash

RpcSpec ==
    /\ RpcInit /\ [][RpcNext]_rpcVars
    /\ \A x \in RpcCalls \cup Listening : WF_rpcVars(Expiry(x))
---------------------------------------------------------------------------
(* What is pending can be answered or times out, what is settled leaves    *)
(* nothing behind: no timer, no entry in the map, no listener.             *)
NothingLeaks ==
    /\ requests \subseteq {c \in RpcCalls : call[c] = "pending"}
    /\ timers = {c \in RpcCalls : call[c] = "pending"}
                  \cup {ListenerTimer(l) : l \in {l \in Listening : waiter[l] = "listening"}}
    /\ \A l \in Listening : waiter[l] = "listening" <=> \E i \in DOMAIN listeners : listeners[i] = l
    /\ Cardinality({l \in Listening : waiter[l] = "listening"}) = Len(listeners)

(* Every call and every wait is settled in the end, whether the server     *)
(* answers, crashes, or the client is stopped meanwhile.                   *)
EverythingSettles ==
    /\ \A c \in RpcCalls : call[c] = "pending" ~> call[c] # "pending"
    /\ \A l \in Listening : waiter[l] = "listening" ~> waiter[l] # "listening"

(* "Resolves when agent_end event is received": all who listen.            *)
IdleSeen ==
    [][client = "up" /\ toClient # <<>> /\ Head(toClient).type = "agent_end" /\ toClient' = Tail(toClient)
         => listeners' = <<>>]_rpcVars

(* "Send prompt and wait for completion": of its own run.                  *)
OwnRunOver == \A p \in Prompts : call[p] = "resolved" /\ waiter[p] = "resolved" => p \in runsOver

(* Listeners are given events, never responses.                            *)
OnlyEvents == misled = {}
=============================================================================
