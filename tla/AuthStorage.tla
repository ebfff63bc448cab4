----------------------------- MODULE AuthStorage -----------------------------
(***************************************************************************)
(* Credentials shared by several processes                                 *)
(* (packages/coding-agent/src/core/auth-storage.ts): each has the contents *)
(* of auth.json in memory, and reads and writes the file under a lock.     *)
(*                                                                         *)
(* There is one OAuth provider.  It issues credentials numbered 1, 2, ...; *)
(* a login starts with a new one, a refresh replaces the one it is made    *)
(* with, whose refresh token the server does not accept again.  0 is no    *)
(* credential.  The credentials of other providers are copied along; API   *)
(* keys and overrides are never refreshed.                                 *)
(***************************************************************************)
EXTENDS Naturals, FiniteSets

CONSTANTS Processes,
          MaxCredentials,   \* bound on the credentials ever issued
          LockFaults        \* subset of {"interrupted", "crash", "compromised"}

ASSUME AuthAssumption == MaxCredentials \in Nat \ {0}

VARIABLES
    stored,     \* the credential in auth.json
    issued,     \* how many credentials the server has issued
    accepted,   \* those whose refresh token it accepts
    expired,    \* those whose access token has expired
    lock,       \* the processes that believe to hold the lock
    known,      \* data: process -> the credential in its memory
    loadError,  \* the processes whose last reload() failed
    asking,     \* where each process's getApiKey is
    using,      \* the credential each refresh is made with, then the one it returned
    loggedOut   \* history: the processes that logged out after their last login or reload

authVars == <<stored, issued, accepted, expired, lock, known, loadError, asking, using, loggedOut>>
issuer   == <<issued, accepted, expired>>

AuthInit ==
    /\ stored = 1 /\ issued = 1 /\ accepted = {1} /\ expired = {}
    /\ lock = {} /\ loadError = {} /\ loggedOut = {}
    /\ known = [p \in Processes |-> 1]
    /\ asking = [p \in Processes |-> "idle"]
    /\ using = [p \in Processes |-> 0]

Fresh(c)     == c # 0 /\ c \notin expired
Asks(p, at)  == asking' = [asking EXCEPT ![p] = at]
Uses(p, c)   == using' = [using EXCEPT ![p] = c]
Knows(p, c)  == known' = [known EXCEPT ![p] = c] /\ loadError' = loadError \ {p}
InRefresh(p) == asking[p] \in {"refreshing", "rotated"}

(* getApiKey: an expired credential is refreshed under the lock.           *)
GetApiKey(p) ==
    /\ asking[p] = "idle" /\ known[p] # 0 /\ ~Fresh(known[p])
    /\ Asks(p, "locking")
    /\ UNCHANGED <<stored, issuer, lock, known, loadError, using, loggedOut>>

(* The lock is acquired and the file read again: another process may have  *)
(* refreshed the credential.                                               *)
AlwaysFree(p) == TRUE              \* mutant: the lock is not exclusive
LockFree(p) == lock = {}
NeedsRefresh(c) == c # 0 /\ ~Fresh(c)

Locked(p) ==
    /\ asking[p] = "locking" /\ LockFree(p)
    /\ Knows(p, stored) /\ loggedOut' = loggedOut \ {p}
    /\ IF NeedsRefresh(stored)
         THEN Asks(p, "refreshing") /\ Uses(p, stored) /\ lock' = lock \cup {p}
         ELSE Asks(p, "idle") /\ UNCHANGED <<using, lock>>
    /\ UNCHANGED <<stored, issuer>>

(* The server answers the refresh request.                                 *)
Rotate(p) ==
    /\ asking[p] = "refreshing" /\ using[p] \in accepted /\ issued < MaxCredentials
    /\ issued' = issued + 1
    /\ accepted' = (accepted \ {using[p]}) \cup {issued + 1}
    /\ Uses(p, issued + 1) /\ Asks(p, "rotated")
    /\ UNCHANGED <<stored, expired, lock, known, loadError, loggedOut>>

(* The response has arrived: memory and file are written.                  *)
WriteRefreshed(p) ==
    /\ asking[p] = "rotated" /\ p \in lock
    /\ stored' = using[p] /\ Knows(p, using[p])
    /\ lock' = lock \ {p}
    /\ Asks(p, "idle") /\ Uses(p, 0)
    /\ UNCHANGED <<issuer, loggedOut>>

(* reload() tries the lock for 200 ms; if it stays taken, memory is left   *)
(* as it is.                                                               *)
Reload(p, holders, before) ==
    IF holders = {}
      THEN Knows(p, stored)
      ELSE known' = [known EXCEPT ![p] = before] /\ loadError' = loadError \cup {p}

GiveUp(p) == asking[p] = "locking" /\ lock # {}

(* The refresh is refused or fails, or the lock was compromised or is not  *)
(* to be had; the file is read again.  Memory has had a refreshed          *)
(* credential since the response arrived.                                  *)
RefreshFails(p) ==
    /\ InRefresh(p) \/ GiveUp(p)
    /\ asking[p] = "rotated" => p \notin lock
    /\ LET others == IF InRefresh(p) THEN lock \ {p} ELSE lock IN
       /\ lock' = others
       /\ Reload(p, others, IF asking[p] = "rotated" THEN using[p] ELSE known[p])
    /\ loggedOut' = loggedOut \ {p}
    /\ Asks(p, "idle") /\ Uses(p, 0)
    /\ UNCHANGED <<stored, issuer>>

(* persistProviderChange tries the lock for 200 ms and gives up; after a   *)
(* failed reload it does nothing.                                          *)
PersistProviderChange(p, c) ==
    stored' = IF p \in loadError \/ lock # {} THEN stored ELSE c

Login(p) ==
    /\ issued < MaxCredentials
    /\ issued' = issued + 1 /\ accepted' = accepted \cup {issued + 1}
    /\ known' = [known EXCEPT ![p] = issued + 1]
    /\ PersistProviderChange(p, issued + 1)
    /\ loggedOut' = loggedOut \ {p}
    /\ UNCHANGED <<expired, lock, loadError, asking, using>>

Logout(p) ==
    /\ known[p] # 0
    /\ known' = [known EXCEPT ![p] = 0]
    /\ PersistProviderChange(p, 0)
    /\ loggedOut' = loggedOut \cup {p}
    /\ UNCHANGED <<issuer, lock, loadError, asking, using>>

Expire ==
    /\ \E c \in (1 .. issued) \ expired : expired' = expired \cup {c}
    /\ UNCHANGED <<stored, issued, accepted, lock, known, loadError, asking, using, loggedOut>>

(* A process ends, before or after the server has answered it, and is      *)
(* started again; the lock it held remains until it is stale.              *)
Restart(p) ==
    /\ asking[p] = "refreshing" => "interrupted" \in LockFaults
    /\ asking[p] = "rotated" => "crash" \in LockFaults
    /\ Reload(p, lock, 0)
    /\ loggedOut' = loggedOut \ {p}
    /\ Asks(p, "idle") /\ Uses(p, 0)
    /\ UNCHANGED <<stored, issuer, lock>>

(* A suspended process's lock is stale, too.                               *)
LockStale(p) ==
    /\ p \in lock
    /\ InRefresh(p) => "compromised" \in LockFaults
    /\ lock' = lock \ {p}
    /\ UNCHANGED <<stored, issuer, known, loadError, asking, using, loggedOut>>

GetStep(p) == Locked(p) \/ Rotate(p) \/ WriteRefreshed(p) \/ RefreshFails(p)

AuthNext ==
    \/ \E p \in Processes :
        \/ GetApiKey(p)
        \/ Locked(p) \/ Rotate(p) \/ WriteRefreshed(p) \/ RefreshFails(p)
        \/ Login(p) \/ Logout(p) \/ Restart(p) \/ LockStale(p)
    \/ Expire

AuthSpec == AuthInit /\ [][AuthNext]_authVars /\ \A p \in Processes : WF_authVars(GetStep(p))
---------------------------------------------------------------------------
(* "Refresh OAuth token with backend locking to prevent race conditions":  *)
(* no refresh token is sent to the server that has been used already, and  *)
(* while nobody is refreshing the server accepts the one in the file.      *)
TokenUsable ==
    /\ \A p \in Processes : asking[p] = "refreshing" => using[p] \in accepted
    /\ lock = {} /\ stored # 0 => stored \in accepted

(* A process that waited for another's refresh uses its result.            *)
NoNeedlessRefresh == \A p \in Processes : asking[p] = "refreshing" => using[p] \in expired

(* A refresh is made with a token that works, and only if one is needed.   *)
RefreshesSound == TokenUsable /\ NoNeedlessRefresh

(* Every call of getApiKey returns, whoever holds the lock or fails.       *)
KeyAnswered == \A p \in Processes : asking[p] # "idle" ~> asking[p] = "idle"

(* A process that logged out does not have the credential again before its *)
(* next login or reload.                                                   *)
LogoutLasts == \A p \in loggedOut : known[p] = 0

(* A login that met no lock is in the file.                                *)
LoginSaved ==
    [][\A p \in Processes :
         lock = {} /\ issued' > issued /\ known'[p] = issued' => stored' = issued']_authVars
=============================================================================
