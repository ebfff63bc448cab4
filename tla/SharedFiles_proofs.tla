--------------------------- MODULE SharedFiles_proofs ---------------------------
(***************************************************************************)
(* Proofs about the two files that several processes share: the            *)
(* credentials (AuthStorage) and the settings (SettingsManager), for any   *)
(* number of processes, credentials, fields and set operations.            *)
(***************************************************************************)
EXTENDS AuthStorage, SettingsManager, SequenceTheorems, TLAPS

(* A lock is lost when its holder crashes between the server's answer and  *)
(* the write, or is taken for dead; nothing protects a refresh from that.  *)
LocksAreKept == LockFaults \subseteq {"interrupted"}

AuthTypeOK ==
    /\ stored \in Nat /\ issued \in Nat
    /\ accepted \in SUBSET Nat /\ expired \in SUBSET Nat
    /\ lock \in SUBSET Processes
    /\ known \in [Processes -> Nat]
    /\ asking \in [Processes -> {"idle", "locking", "refreshing", "rotated"}]
    /\ using \in [Processes -> Nat]

OneHolder == \A p, q \in lock : p = q

RefreshersHold == \A p \in Processes : InRefresh(p) => p \in lock

(* The token sent is the one in the file.                                  *)
SendsStored == \A p \in Processes : asking[p] = "refreshing" => using[p] = stored /\ stored # 0

(* While the server's answer is not written the file has the old token.    *)
RotatedUsable == \A p \in Processes : asking[p] = "rotated" => using[p] \in accepted
StoredUsable  == (\A p \in Processes : asking[p] # "rotated") /\ stored # 0 => stored \in accepted

RefreshState ==
    OneHolder /\ RefreshersHold /\ SendsStored /\ RotatedUsable /\ StoredUsable /\ NoNeedlessRefresh

AuthInv == AuthTypeOK /\ RefreshState
----------------------------------------------------------------------------
(* The first credential is usable and nobody refreshes it.                 *)
LEMMA AuthInitInv == AuthInit => AuthInv
BY DEF AuthInit, AuthInv, RefreshState, AuthTypeOK, OneHolder, RefreshersHold, InRefresh, SendsStored, RotatedUsable,
       StoredUsable, NoNeedlessRefresh

(* After reload() memory holds a credential, that of the file or the old.  *)
LEMMA ReloadTyped ==
    ASSUME AuthTypeOK, NEW p \in Processes, NEW holders, NEW before \in Nat, Reload(p, holders, before)
    PROVE  known' \in [Processes -> Nat]
BY DEF AuthTypeOK, Reload, Knows

(* The variables keep their types in every step.                           *)
LEMMA AuthTypeKept ==
    ASSUME AuthTypeOK, [AuthNext]_authVars
    PROVE  AuthTypeOK'
<1> USE DEF AuthTypeOK, issuer, Asks, Uses
<1>1. ASSUME NEW p \in Processes, GetApiKey(p)
      PROVE  AuthTypeOK'
  BY <1>1 DEF GetApiKey
<1>2. ASSUME NEW p \in Processes, Locked(p)
      PROVE  AuthTypeOK'
  BY <1>2 DEF Locked, Knows
<1>3. ASSUME NEW p \in Processes, Rotate(p)
      PROVE  AuthTypeOK'
  <2>1. issued' \in Nat /\ issued + 1 \in Nat
    BY <1>3 DEF Rotate
  <2>2. \A c \in accepted' : c \in Nat
    BY <1>3, <2>1 DEF Rotate
  <2>3. using' \in [Processes -> Nat]
    BY <1>3, <2>1 DEF Rotate
  <2> QED BY <1>3, <2>1, <2>2, <2>3 DEF Rotate
<1>4. ASSUME NEW p \in Processes, WriteRefreshed(p)
      PROVE  AuthTypeOK'
  BY <1>4 DEF WriteRefreshed, Knows
<1>5. ASSUME NEW p \in Processes, RefreshFails(p)
      PROVE  AuthTypeOK'
  <2>1. known' \in [Processes -> Nat]
    BY <1>5, ReloadTyped DEF RefreshFails
  <2>2. lock' \in SUBSET Processes
    BY <1>5 DEF RefreshFails
  <2> QED BY <1>5, <2>1, <2>2 DEF RefreshFails
<1>6. ASSUME NEW p \in Processes, Restart(p)
      PROVE  AuthTypeOK'
  <2>1. known' \in [Processes -> Nat]
    BY <1>6, ReloadTyped DEF Restart
  <2> QED BY <1>6, <2>1 DEF Restart
<1>7. ASSUME NEW p \in Processes, Login(p)
      PROVE  AuthTypeOK'
  <2>1. stored' \in Nat /\ issued' \in Nat /\ issued + 1 \in Nat
    BY <1>7 DEF Login, PersistProviderChange
  <2>2. \A c \in accepted' : c \in Nat
    BY <1>7, <2>1 DEF Login
  <2>3. known' \in [Processes -> Nat]
    BY <1>7 DEF Login
  <2> QED BY <1>7, <2>1, <2>2, <2>3 DEF Login
<1>11. ASSUME NEW p \in Processes, Logout(p)
      PROVE  AuthTypeOK'
  BY <1>11 DEF Logout, PersistProviderChange
<1>8. ASSUME NEW p \in Processes, LockStale(p)
      PROVE  AuthTypeOK'
  BY <1>8 DEF LockStale
<1>9. CASE Expire
  BY <1>9 DEF Expire
<1>10. CASE UNCHANGED authVars
  BY <1>10 DEF authVars
<1> QED BY <1>1, <1>2, <1>3, <1>4, <1>5, <1>6, <1>7, <1>8, <1>9, <1>10, <1>11 DEF AuthNext

(* One process at a time refreshes, with the token of the file, and the    *)
(* file changes only when the server's answer is written or nobody asks.   *)
LEMMA RefreshInv ==
    ASSUME LocksAreKept, AuthInv, [AuthNext]_authVars
    PROVE  AuthInv'
<1>0. AuthTypeOK /\ AuthTypeOK' /\ RefreshState
  BY AuthTypeKept DEF AuthInv
<1>1. ASSUME NEW p \in Processes, GetApiKey(p)
      PROVE  RefreshState'
  BY <1>0, <1>1 DEF GetApiKey, RefreshState, OneHolder, RefreshersHold, InRefresh,
     SendsStored, RotatedUsable, StoredUsable, NoNeedlessRefresh, AuthTypeOK, issuer, Asks, Uses
<1>2. ASSUME NEW p \in Processes, Locked(p)
      PROVE  RefreshState'
  BY <1>0, <1>2 DEF Locked, LockFree, NeedsRefresh, Fresh, RefreshState, OneHolder, RefreshersHold, InRefresh,
     SendsStored, RotatedUsable, StoredUsable, NoNeedlessRefresh, AuthTypeOK, issuer, Asks, Uses
<1>3. ASSUME NEW p \in Processes, Rotate(p)
      PROVE  RefreshState'
  BY <1>0, <1>3 DEF Rotate, RefreshState, OneHolder, RefreshersHold, InRefresh,
     SendsStored, RotatedUsable, StoredUsable, NoNeedlessRefresh, AuthTypeOK, issuer, Asks, Uses
<1>4. ASSUME NEW p \in Processes, WriteRefreshed(p)
      PROVE  RefreshState'
  BY <1>0, <1>4 DEF WriteRefreshed, RefreshState, OneHolder, RefreshersHold, InRefresh,
     SendsStored, RotatedUsable, StoredUsable, NoNeedlessRefresh, AuthTypeOK, issuer, Asks, Uses
<1>5. ASSUME NEW p \in Processes, RefreshFails(p)
      PROVE  RefreshState'
  BY <1>0, <1>5 DEF RefreshFails, GiveUp, RefreshState, OneHolder, RefreshersHold, InRefresh,
     SendsStored, RotatedUsable, StoredUsable, NoNeedlessRefresh, AuthTypeOK, issuer, Asks, Uses
<1>6. ASSUME NEW p \in Processes, Restart(p)
      PROVE  RefreshState'
  BY <1>0, <1>6 DEF Restart, LocksAreKept, RefreshState, OneHolder, RefreshersHold, InRefresh,
     SendsStored, RotatedUsable, StoredUsable, NoNeedlessRefresh, AuthTypeOK, issuer, Asks, Uses
<1>7. ASSUME NEW p \in Processes, Login(p)
      PROVE  RefreshState'
  BY <1>0, <1>7 DEF Login, PersistProviderChange, RefreshState, OneHolder, RefreshersHold, InRefresh,
     SendsStored, RotatedUsable, StoredUsable, NoNeedlessRefresh, AuthTypeOK, issuer, Asks, Uses
<1>8. ASSUME NEW p \in Processes, Logout(p)
      PROVE  RefreshState'
  BY <1>0, <1>8 DEF Logout, PersistProviderChange, RefreshState, OneHolder, RefreshersHold, InRefresh,
     SendsStored, RotatedUsable, StoredUsable, NoNeedlessRefresh, AuthTypeOK, issuer, Asks, Uses
<1>9. ASSUME NEW p \in Processes, LockStale(p)
      PROVE  RefreshState'
  BY <1>0, <1>9 DEF LockStale, LocksAreKept, RefreshState, OneHolder, RefreshersHold, InRefresh,
     SendsStored, RotatedUsable, StoredUsable, NoNeedlessRefresh, AuthTypeOK, issuer, Asks, Uses
<1>10. CASE Expire
  <2>1. UNCHANGED <<stored, accepted, lock, asking, using>> /\ expired \subseteq expired'
    BY <1>10 DEF Expire
  <2>2. OneHolder' /\ RefreshersHold'
    BY <1>0, <2>1 DEF RefreshState, OneHolder, RefreshersHold, InRefresh
  <2>3. SendsStored' /\ RotatedUsable' /\ StoredUsable'
    BY <1>0, <2>1 DEF RefreshState, SendsStored, RotatedUsable, StoredUsable
  <2>4. NoNeedlessRefresh'
    BY <1>0, <2>1 DEF RefreshState, NoNeedlessRefresh
  <2> QED BY <1>0, <2>2, <2>3, <2>4 DEF AuthInv, RefreshState
<1>11. CASE UNCHANGED authVars
  <2>1. UNCHANGED <<stored, accepted, lock, asking, using, expired>>
    BY <1>11 DEF authVars
  <2>2. OneHolder' /\ RefreshersHold'
    BY <1>0, <2>1 DEF RefreshState, OneHolder, RefreshersHold, InRefresh
  <2>3. SendsStored' /\ RotatedUsable' /\ StoredUsable'
    BY <1>0, <2>1 DEF RefreshState, SendsStored, RotatedUsable, StoredUsable
  <2>4. NoNeedlessRefresh'
    BY <1>0, <2>1 DEF RefreshState, NoNeedlessRefresh
  <2> QED BY <1>0, <2>2, <2>3, <2>4 DEF AuthInv, RefreshState
<1> QED
  <2>1. CASE AuthNext
    <3>1. CASE \E p \in Processes : GetApiKey(p) \/ Locked(p) \/ Rotate(p) \/ WriteRefreshed(p) \/ RefreshFails(p)
      BY <3>1, <1>0, <1>1, <1>2, <1>3, <1>4, <1>5 DEF AuthInv
    <3>2. CASE \E p \in Processes : Login(p) \/ Logout(p) \/ Restart(p) \/ LockStale(p)
      BY <3>2, <1>0, <1>6, <1>7, <1>8, <1>9 DEF AuthInv
    <3> QED BY <2>1, <1>10, <3>1, <3>2 DEF AuthNext
  <2> QED BY <2>1, <1>11

(* A refresh is made with a token the server accepts, and only if one is   *)
(* needed, whatever processes restart, log in, log out or time out         *)
(* meanwhile ("backend locking to prevent race conditions",                *)
(* auth-storage.ts:366).                                                   *)
THEOREM RefreshesSoundHolds ==
    ASSUME LocksAreKept
    PROVE  AuthSpec => []RefreshesSound
<1>1. AuthInv => RefreshesSound
  BY DEF AuthInv, RefreshState, RefreshersHold, InRefresh, SendsStored, StoredUsable, NoNeedlessRefresh,
     RefreshesSound, TokenUsable, OneHolder, AuthTypeOK
<1>2. AuthInv /\ [AuthNext]_authVars => AuthInv'
  BY RefreshInv
<1> QED BY AuthInitInv, <1>1, <1>2, PTL DEF AuthSpec
----------------------------------------------------------------------------
(* No two processes at once have found that there is no settings file.     *)
OneLate == \A u, v \in late : u = v

Task == [values : [Fields -> Nat], fields : SUBSET Fields]

SettingsTypeOK ==
    /\ saved \in [Fields -> Nat] \cup {NoFile}
    /\ sets \in Nat
    /\ settings \in [Users -> [Fields -> Nat]]
    /\ modified \in [Users -> SUBSET Fields]
    /\ queue \in [Users -> Seq(Task)]
    /\ late \in SUBSET Users
    /\ latest \in [Fields -> Nat]

(* A process marks and queues only fields that it sets.                    *)
OwnFields ==
    \A u \in Users :
        /\ \A f \in modified[u] : Owner[f] = u
        /\ \A i \in DOMAIN queue[u] : \A f \in queue[u][i].fields : Owner[f] = u

(* What a process has modified is in its memory.                           *)
ModifiedKnown == \A f \in Fields : f \in modified[Owner[f]] => settings[Owner[f]][f] = latest[f]

(* The values of a field that are queued, from the file's to the last set, *)
(* are in the order of the set operations.                                 *)
ValuesGrow ==
    \A f \in Fields :
        /\ latest[f] <= sets /\ Current[f] <= latest[f]
        /\ \A i \in DOMAIN queue[Owner[f]] :
             f \in queue[Owner[f]][i].fields =>
                /\ Current[f] <= queue[Owner[f]][i].values[f]
                /\ queue[Owner[f]][i].values[f] <= latest[f]
                /\ \A j \in DOMAIN queue[Owner[f]] :
                     i <= j /\ f \in queue[Owner[f]][j].fields =>
                        queue[Owner[f]][i].values[f] <= queue[Owner[f]][j].values[f]

(* The last set of a field that is not lost is in the file or queued.      *)
LatestKept ==
    \A f \in Fields :
        f \notin lost =>
            \/ Current[f] = latest[f]
            \/ \E i \in DOMAIN queue[Owner[f]] :
                 f \in queue[Owner[f]][i].fields /\ queue[Owner[f]][i].values[f] = latest[f]

FileMissing == late # {} => saved = NoFile

SettingsInv == SettingsTypeOK /\ OwnFields /\ ModifiedKnown /\ ValuesGrow /\ LatestKept /\ FileMissing
----------------------------------------------------------------------------
(* What the file holds, or the defaults, is a value for every field.       *)
LEMMA CurrentTyped == SettingsTypeOK => Current \in [Fields -> Nat]
BY DEF SettingsTypeOK, Current, Default

(* A written file exists.                                                  *)
LEMMA MergeTyped ==
    ASSUME NEW base \in [Fields -> Nat], NEW task \in Task
    PROVE  Merge(base, task) \in [Fields -> Nat] /\ Merge(base, task) # NoFile
BY SettingsAssumption DEF Merge, Task

(* No field is set, marked, queued or lost at first.                       *)
LEMMA SettingsInitInv == SettingsInit => SettingsInv
<1> SUFFICES ASSUME SettingsInit
             PROVE  SettingsInv
  OBVIOUS
<1>1. Default \in [Fields -> Nat] /\ Current = Default /\ Owner \in [Fields -> Users]
  BY SettingsAssumption DEF SettingsInit, Current, Default
<1>2. \A u \in Users : queue[u] = <<>> /\ DOMAIN queue[u] = {}
  BY DEF SettingsInit
<1>3. queue \in [Users -> Seq(Task)]
  BY EmptySeq DEF SettingsInit
<1>4. SettingsTypeOK
  BY <1>1, <1>3 DEF SettingsInit, SettingsTypeOK
<1>5. OwnFields /\ ModifiedKnown /\ FileMissing
  BY <1>1, <1>2 DEF SettingsInit, OwnFields, ModifiedKnown, FileMissing
<1>6. \A f \in Fields : latest[f] = 0 /\ Current[f] = 0 /\ DOMAIN queue[Owner[f]] = {}
  BY <1>1, <1>2 DEF SettingsInit, Default
<1>7. ValuesGrow /\ LatestKept
  BY <1>6 DEF SettingsInit, ValuesGrow, LatestKept
<1> QED BY <1>4, <1>5, <1>7 DEF SettingsInv

(* A setter queues a value larger than every earlier one of its field.     *)
LEMMA SetFieldKeeps ==
    ASSUME SettingsInv, NEW g \in Fields, SetField(g)
    PROVE  SettingsInv'
<1> DEFINE w == Owner[g]
           changed == [settings[w] EXCEPT ![g] = sets + 1]
           task == [values |-> changed, fields |-> modified[w] \cup {g}]
<1>0. /\ SettingsTypeOK /\ OwnFields /\ ModifiedKnown /\ ValuesGrow /\ LatestKept /\ FileMissing
      /\ Owner \in [Fields -> Users] /\ w \in Users /\ Current \in [Fields -> Nat]
  BY SettingsAssumption, CurrentTyped DEF SettingsInv
<1>1. /\ sets' = sets + 1 /\ latest' = [latest EXCEPT ![g] = sets + 1]
      /\ settings' = [settings EXCEPT ![w] = changed]
      /\ modified' = [modified EXCEPT ![w] = modified[w] \cup {g}]
      /\ saved' = saved /\ late' = late /\ Current' = Current
      /\ \/ queue' = queue /\ lost' = lost \cup {g}
         \/ queue' = [queue EXCEPT ![w] = Append(queue[w], task)] /\ lost' = lost
  BY DEF SetField, Current
<1>2. /\ sets + 1 \in Nat /\ changed \in [Fields -> Nat] /\ task \in Task /\ queue[w] \in Seq(Task)
      /\ task.values = changed /\ task.fields = modified[w] \cup {g}
      /\ changed[g] = sets + 1 /\ \A f \in Fields : f # g => changed[f] = settings[w][f]
  <2>1. sets + 1 \in Nat /\ settings[w] \in [Fields -> Nat] /\ modified[w] \in SUBSET Fields /\ queue[w] \in Seq(Task)
    BY <1>0 DEF SettingsTypeOK
  <2>2. changed \in [Fields -> Nat] /\ changed[g] = sets + 1 /\ \A f \in Fields : f # g => changed[f] = settings[w][f]
    BY <2>1
  <2>3. modified[w] \cup {g} \in SUBSET Fields
    BY <2>1
  <2> HIDE DEF changed
  <2>4. task \in Task /\ task.values = changed /\ task.fields = modified[w] \cup {g}
    BY <2>2, <2>3 DEF Task
  <2> QED BY <2>1, <2>2, <2>4
<1>3. /\ Append(queue[w], task) \in Seq(Task) /\ Len(queue[w]) \in Nat
      /\ DOMAIN Append(queue[w], task) = 1 .. Len(queue[w]) + 1
      /\ DOMAIN queue[w] = 1 .. Len(queue[w])
      /\ \A i \in 1 .. Len(queue[w]) : Append(queue[w], task)[i] = queue[w][i]
      /\ Append(queue[w], task)[Len(queue[w]) + 1] = task
  <2> HIDE DEF task
  <2>1. queue[w] \in Seq(Task) /\ task \in Task
    BY <1>2
  <2> QED BY <2>1, AppendProperties
<1> HIDE DEF changed, task
<1>4. SettingsTypeOK'
  <2>1. settings' \in [Users -> [Fields -> Nat]] /\ latest' \in [Fields -> Nat]
    BY <1>0, <1>1, <1>2 DEF SettingsTypeOK
  <2>2. modified[w] \cup {g} \in SUBSET Fields
    BY <1>0 DEF SettingsTypeOK
  <2>3. modified' \in [Users -> SUBSET Fields]
    BY <1>0, <1>1, <2>2 DEF SettingsTypeOK
  <2>4. queue' \in [Users -> Seq(Task)]
    BY <1>0, <1>1, <1>3 DEF SettingsTypeOK
  <2> QED BY <1>0, <1>1, <1>2, <2>1, <2>3, <2>4 DEF SettingsTypeOK
<1>a. DOMAIN settings = Users /\ DOMAIN modified = Users /\ DOMAIN queue = Users /\ DOMAIN latest = Fields
  BY <1>0 DEF SettingsTypeOK
<1> HIDE DEF w
<1>5. ASSUME NEW u \in Users, u # w
      PROVE  queue'[u] = queue[u] /\ modified'[u] = modified[u] /\ settings'[u] = settings[u]
  BY <1>a, <1>1, <1>5
<1>6. /\ modified'[w] = modified[w] \cup {g} /\ settings'[w] = changed
      /\ \/ queue'[w] = queue[w] /\ lost' = lost \cup {g}
         \/ queue'[w] = Append(queue[w], task) /\ lost' = lost
  BY <1>0, <1>a, <1>1
<1>7. latest'[g] = sets + 1 /\ \A f \in Fields : f # g => latest'[f] = latest[f]
  BY <1>a, <1>1
<1>8. OwnFields'
  <2> SUFFICES ASSUME NEW u \in Users
               PROVE  /\ \A f \in modified'[u] : Owner[f] = u
                      /\ \A i \in DOMAIN queue'[u] : \A f \in queue'[u][i].fields : Owner[f] = u
    BY DEF OwnFields
  <2>1. CASE u # w
    BY <1>0, <1>5, <2>1 DEF OwnFields
  <2>2. CASE u = w
    <3>1. \A f \in modified[w] \cup {g} : Owner[f] = w
      BY <1>0 DEF OwnFields, w
    <3>2. \A i \in DOMAIN queue[w] : \A f \in queue[w][i].fields : Owner[f] = w
      BY <1>0 DEF OwnFields
    <3>3. CASE queue'[w] = queue[w]
      BY <1>6, <2>2, <3>1, <3>2, <3>3
    <3>4. CASE queue'[w] = Append(queue[w], task)
      <4>1. ASSUME NEW i \in 1 .. Len(queue[w]) + 1, NEW f \in Append(queue[w], task)[i].fields
            PROVE  Owner[f] = w
        <5>1. CASE i \in 1 .. Len(queue[w])
          BY <1>3, <3>2, <4>1, <5>1
        <5>2. CASE i = Len(queue[w]) + 1
          BY <1>2, <1>3, <3>1, <4>1, <5>2
        <5> QED BY <1>3, <5>1, <5>2
      <4> QED BY <1>3, <1>6, <2>2, <3>1, <3>4, <4>1
    <3> QED BY <1>6, <3>3, <3>4
  <2> QED BY <2>1, <2>2
<1>9. ModifiedKnown'
  <2> SUFFICES ASSUME NEW f \in Fields, f \in modified'[Owner[f]]
               PROVE  settings'[Owner[f]][f] = latest'[f]
    BY DEF ModifiedKnown
  <2>1. CASE f = g
    BY <1>2, <1>6, <1>7, <2>1 DEF w
  <2>2. CASE f # g /\ Owner[f] = w
    BY <1>0, <1>2, <1>6, <1>7, <2>2 DEF ModifiedKnown
  <2>3. CASE f # g /\ Owner[f] # w
    <3>1. Owner[f] \in Users
      BY <1>0
    <3> QED BY <1>0, <1>5, <1>7, <2>3, <3>1 DEF ModifiedKnown
  <2> QED BY <2>1, <2>2, <2>3
<1>10. ASSUME NEW f \in Fields, Owner[f] = w, f \in modified[w] \cup {g}
       PROVE  task.values[f] = latest'[f]
  BY <1>0, <1>2, <1>7, <1>10 DEF ModifiedKnown
<1>11. \A f \in Fields : latest'[f] \in Nat /\ latest[f] \in Nat /\ Current[f] \in Nat /\ latest[f] <= latest'[f] /\ latest'[f] <= sets + 1
  <2> TAKE f \in Fields
  <2>1. latest[f] \in Nat /\ Current[f] \in Nat /\ sets \in Nat /\ latest[f] <= sets /\ latest[g] \in Nat /\ latest[g] <= sets
    BY <1>0 DEF ValuesGrow, SettingsTypeOK
  <2> QED BY <1>7, <2>1
<1>12. ValuesGrow'
  <2> SUFFICES ASSUME NEW f \in Fields
               PROVE  /\ latest'[f] <= sets' /\ Current'[f] <= latest'[f]
                      /\ \A i \in DOMAIN queue'[Owner[f]] :
                           f \in queue'[Owner[f]][i].fields =>
                              /\ Current'[f] <= queue'[Owner[f]][i].values[f]
                              /\ queue'[Owner[f]][i].values[f] <= latest'[f]
                              /\ \A j \in DOMAIN queue'[Owner[f]] :
                                   i <= j /\ f \in queue'[Owner[f]][j].fields =>
                                      queue'[Owner[f]][i].values[f] <= queue'[Owner[f]][j].values[f]
    BY DEF ValuesGrow
  <2> DEFINE q == queue[Owner[f]]
  <2>1. latest'[f] <= sets' /\ Current'[f] <= latest'[f]
    BY <1>0, <1>1, <1>11 DEF ValuesGrow
  <2>2. \A i \in DOMAIN q : f \in q[i].fields =>
            /\ Current[f] <= q[i].values[f] /\ q[i].values[f] <= latest[f]
            /\ \A j \in DOMAIN q : i <= j /\ f \in q[j].fields => q[i].values[f] <= q[j].values[f]
    BY <1>0 DEF ValuesGrow
  <2>3. Owner[f] \in Users /\ q \in Seq(Task)
    BY <1>0 DEF SettingsTypeOK
  <2> HIDE DEF q
  <2>4. \A i \in DOMAIN q : q[i].values[f] \in Nat
    <3>1. \A i \in DOMAIN q : q[i] \in Task
      BY <2>3
    <3> QED BY <3>1 DEF Task
  <2>5. \A i \in DOMAIN q : f \in q[i].fields => q[i].values[f] <= latest'[f]
    BY <1>11, <2>2, <2>4
  <2>6. CASE queue'[Owner[f]] = q
    BY <1>1, <2>1, <2>2, <2>5, <2>6
  <2>7. CASE Owner[f] = w /\ queue'[w] = Append(queue[w], task)
    <3>1. q = queue[w]
      BY <2>7 DEF q
    <3>2. f \in task.fields => task.values[f] = latest'[f]
      BY <1>2, <1>10, <2>7
    <3>3. ASSUME NEW i \in 1 .. Len(q) + 1, f \in Append(q, task)[i].fields
          PROVE  /\ Current[f] <= Append(q, task)[i].values[f]
                 /\ Append(q, task)[i].values[f] <= latest'[f]
      <4>1. CASE i \in 1 .. Len(q)
        BY <1>3, <2>2, <2>5, <3>1, <3>3, <4>1
      <4>2. CASE i = Len(q) + 1
        BY <1>1, <1>3, <1>11, <2>1, <3>1, <3>2, <3>3, <4>2
      <4> QED BY <1>3, <3>1, <4>1, <4>2
    <3>4. ASSUME NEW i \in 1 .. Len(q) + 1, NEW j \in 1 .. Len(q) + 1, i <= j,
                 f \in Append(q, task)[i].fields, f \in Append(q, task)[j].fields
          PROVE  Append(q, task)[i].values[f] <= Append(q, task)[j].values[f]
      <4>1. CASE j \in 1 .. Len(q)
        <5>1. i \in 1 .. Len(q)
          BY <1>3, <3>1, <3>4, <4>1
        <5> QED BY <1>3, <2>2, <3>1, <3>4, <4>1, <5>1
      <4>2. CASE j = Len(q) + 1
        <5>1. Append(q, task)[j].values[f] = latest'[f]
          BY <1>3, <3>1, <3>2, <3>4, <4>2
        <5> QED BY <3>3, <3>4, <5>1
      <4> QED BY <1>3, <3>1, <4>1, <4>2
    <3> QED BY <1>1, <1>3, <2>1, <2>7, <3>1, <3>3, <3>4
  <2> QED BY <1>5, <1>6, <2>3, <2>6, <2>7 DEF q
<1>13. LatestKept'
  <2> SUFFICES ASSUME NEW f \in Fields, f \notin lost'
               PROVE  \/ Current'[f] = latest'[f]
                      \/ \E i \in DOMAIN queue'[Owner[f]] :
                           f \in queue'[Owner[f]][i].fields /\ queue'[Owner[f]][i].values[f] = latest'[f]
    BY DEF LatestKept
  <2>1. f \notin lost /\ Owner[f] \in Users
    BY <1>0, <1>6
  <2>2. CASE f = g
    <3>1. queue'[w] = Append(queue[w], task) /\ Owner[f] = w
      BY <1>6, <2>2 DEF w
    <3>2. f \in task.fields /\ task.values[f] = latest'[f]
      BY <1>2, <1>10, <2>2, <3>1
    <3> QED BY <1>3, <3>1, <3>2
  <2>3. CASE f # g
    <3>1. latest'[f] = latest[f]
      BY <1>7, <2>3
    <3>2. CASE Current[f] = latest[f]
      BY <1>1, <3>1, <3>2
    <3>3. ASSUME NEW i \in DOMAIN queue[Owner[f]], f \in queue[Owner[f]][i].fields,
                 queue[Owner[f]][i].values[f] = latest[f]
          PROVE  i \in DOMAIN queue'[Owner[f]] /\ queue'[Owner[f]][i] = queue[Owner[f]][i]
      BY <1>3, <1>5, <1>6, <2>1, <3>3
    <3> QED BY <1>0, <2>1, <3>1, <3>2, <3>3 DEF LatestKept
  <2> QED BY <2>2, <2>3
<1>14. FileMissing'
  BY <1>0, <1>1 DEF FileMissing
<1> QED BY <1>4, <1>8, <1>9, <1>12, <1>13, <1>14 DEF SettingsInv

(* The write of the oldest snapshot, over what the file holds, brings the  *)
(* process's own fields forward and leaves the others alone.               *)
LEMMA WrittenKeeps ==
    ASSUME SettingsInv, NEW u \in Users, Written(u, Current), late' = {}
    PROVE  SettingsInv'
<1> DEFINE q == queue[u]
<1>0. /\ SettingsTypeOK /\ OwnFields /\ ModifiedKnown /\ ValuesGrow /\ LatestKept
      /\ Owner \in [Fields -> Users] /\ Current \in [Fields -> Nat]
  BY SettingsAssumption, CurrentTyped DEF SettingsInv
<1>1. /\ q # <<>> /\ saved' = Merge(Current, Head(q)) /\ lost' = {f \in lost : saved'[f] # latest[f]}
      /\ modified' = [modified EXCEPT ![u] = {}] /\ queue' = [queue EXCEPT ![u] = Tail(q)]
      /\ sets' = sets /\ settings' = settings /\ latest' = latest
  BY DEF Written, TaskDone
<1>2. q \in Seq(Task) /\ DOMAIN queue = Users /\ DOMAIN modified = Users
  BY <1>0 DEF SettingsTypeOK
<1>3. /\ Head(q) \in Task /\ Head(q) = q[1] /\ Tail(q) \in Seq(Task) /\ Len(q) \in Nat \ {0}
      /\ DOMAIN q = 1 .. Len(q) /\ DOMAIN Tail(q) = 1 .. Len(q) - 1
      /\ \A i \in 1 .. Len(q) - 1 : Tail(q)[i] = q[i + 1]
  <2> HIDE DEF q
  <2> QED BY <1>1, <1>2, HeadTailProperties, LenProperties
<1>4. saved' \in [Fields -> Nat] /\ saved' # NoFile /\ Current' = saved'
  BY <1>0, <1>1, <1>3, MergeTyped DEF Current
<1>5. \A f \in Fields : Current'[f] = IF f \in q[1].fields THEN q[1].values[f] ELSE Current[f]
  BY <1>1, <1>3, <1>4 DEF Merge
<1>6. /\ queue'[u] = Tail(q) /\ modified'[u] = {}
      /\ \A v \in Users : v # u => queue'[v] = queue[v] /\ modified'[v] = modified[v]
  BY <1>1, <1>2
<1> HIDE DEF q
<1>7. SettingsTypeOK'
  <2>1. queue' \in [Users -> Seq(Task)]
    BY <1>0, <1>1, <1>3 DEF SettingsTypeOK
  <2>2. modified' \in [Users -> SUBSET Fields]
    BY <1>0, <1>1 DEF SettingsTypeOK
  <2> QED BY <1>0, <1>1, <1>4, <2>1, <2>2 DEF SettingsTypeOK
<1>8. \A i \in 1 .. Len(q) - 1 : i + 1 \in DOMAIN q /\ Tail(q)[i] = q[i + 1]
  BY <1>3
<1>9. OwnFields'
  <2> SUFFICES ASSUME NEW v \in Users
               PROVE  /\ \A f \in modified'[v] : Owner[f] = v
                      /\ \A i \in DOMAIN queue'[v] : \A f \in queue'[v][i].fields : Owner[f] = v
    BY DEF OwnFields
  <2>1. CASE v # u
    BY <1>0, <1>6, <2>1 DEF OwnFields
  <2>2. CASE v = u
    <3>1. \A i \in DOMAIN q : \A f \in q[i].fields : Owner[f] = u
      BY <1>0 DEF OwnFields, q
    <3> QED BY <1>3, <1>6, <1>8, <2>2, <3>1
  <2> QED BY <2>1, <2>2
<1>10. ModifiedKnown'
  <2> SUFFICES ASSUME NEW f \in Fields, f \in modified'[Owner[f]]
               PROVE  settings'[Owner[f]][f] = latest'[f]
    BY DEF ModifiedKnown
  <2>1. Owner[f] \in Users /\ Owner[f] # u
    BY <1>0, <1>6
  <2> QED BY <1>0, <1>1, <1>6, <2>1 DEF ModifiedKnown
<1>11. ASSUME NEW f \in Fields, Owner[f] # u
       PROVE  Current'[f] = Current[f] /\ queue'[Owner[f]] = queue[Owner[f]]
  <2>1. f \notin q[1].fields
    BY <1>0, <1>3, <1>11 DEF OwnFields, q
  <2> QED BY <1>0, <1>5, <1>6, <1>11, <2>1
<1>12. ASSUME NEW f \in Fields, Owner[f] = u
       PROVE  /\ latest[f] \in Nat /\ Current[f] \in Nat /\ latest[f] <= sets /\ Current[f] <= latest[f]
              /\ \A i \in DOMAIN q : f \in q[i].fields =>
                   /\ Current[f] <= q[i].values[f] /\ q[i].values[f] <= latest[f]
                   /\ \A j \in DOMAIN q : i <= j /\ f \in q[j].fields => q[i].values[f] <= q[j].values[f]
  BY <1>0, <1>12 DEF ValuesGrow, SettingsTypeOK, q
<1>13. ValuesGrow'
  <2> SUFFICES ASSUME NEW f \in Fields
               PROVE  /\ latest'[f] <= sets' /\ Current'[f] <= latest'[f]
                      /\ \A i \in DOMAIN queue'[Owner[f]] :
                           f \in queue'[Owner[f]][i].fields =>
                              /\ Current'[f] <= queue'[Owner[f]][i].values[f]
                              /\ queue'[Owner[f]][i].values[f] <= latest'[f]
                              /\ \A j \in DOMAIN queue'[Owner[f]] :
                                   i <= j /\ f \in queue'[Owner[f]][j].fields =>
                                      queue'[Owner[f]][i].values[f] <= queue'[Owner[f]][j].values[f]
    BY DEF ValuesGrow
  <2>1. CASE Owner[f] # u
    BY <1>0, <1>1, <1>11, <2>1 DEF ValuesGrow
  <2>2. CASE Owner[f] = u
    <3>1. Current'[f] <= latest'[f]
      BY <1>1, <1>3, <1>5, <1>12, <2>2
    <3>2. \A i \in 1 .. Len(q) - 1 : f \in q[i + 1].fields => Current'[f] <= q[i + 1].values[f]
      BY <1>3, <1>5, <1>8, <1>12, <2>2
    <3>3. \A i, j \in 1 .. Len(q) - 1 : i <= j /\ f \in q[i + 1].fields /\ f \in q[j + 1].fields
                                          => q[i + 1].values[f] <= q[j + 1].values[f]
      <4> TAKE i, j \in 1 .. Len(q) - 1
      <4>1. i + 1 \in DOMAIN q /\ j + 1 \in DOMAIN q /\ (i <= j => i + 1 <= j + 1)
        BY <1>3
      <4> QED BY <1>12, <2>2, <4>1
    <3>4. \A i \in 1 .. Len(q) - 1 : f \in q[i + 1].fields => q[i + 1].values[f] <= latest[f]
      BY <1>8, <1>12, <2>2
    <3>5. queue'[Owner[f]] = Tail(q) /\ latest' = latest /\ sets' = sets /\ latest[f] <= sets
      BY <1>1, <1>6, <1>12, <2>2
    <3>6. ASSUME NEW i \in DOMAIN Tail(q), f \in Tail(q)[i].fields
          PROVE  /\ Current'[f] <= Tail(q)[i].values[f] /\ Tail(q)[i].values[f] <= latest[f]
                 /\ \A j \in DOMAIN Tail(q) : i <= j /\ f \in Tail(q)[j].fields => Tail(q)[i].values[f] <= Tail(q)[j].values[f]
      BY <1>3, <3>2, <3>3, <3>4, <3>6
    <3> QED BY <3>1, <3>5, <3>6
  <2> QED BY <2>1, <2>2
<1>14. LatestKept'
  <2> SUFFICES ASSUME NEW f \in Fields, f \notin lost'
               PROVE  \/ Current'[f] = latest'[f]
                      \/ \E i \in DOMAIN queue'[Owner[f]] :
                           f \in queue'[Owner[f]][i].fields /\ queue'[Owner[f]][i].values[f] = latest'[f]
    BY DEF LatestKept
  <2>1. CASE f \in lost
    BY <1>1, <1>4, <2>1
  <2>2. CASE f \notin lost /\ Owner[f] # u
    BY <1>0, <1>1, <1>11, <2>2 DEF LatestKept
  <2>3. CASE f \notin lost /\ Owner[f] = u
    <3>1. CASE Current[f] = latest[f] /\ f \notin q[1].fields
      BY <1>1, <1>5, <3>1
    <3>2. CASE Current[f] = latest[f] /\ f \in q[1].fields
      <4>1. q[1].values[f] \in Nat
        <5>1. q[1] \in Task
          BY <1>3
        <5> QED BY <5>1 DEF Task
      <4>2. q[1].values[f] = latest[f]
        BY <1>3, <1>12, <2>3, <3>2, <4>1
      <4> QED BY <1>1, <1>5, <3>2, <4>2
    <3>3. CASE \E i \in DOMAIN q : f \in q[i].fields /\ q[i].values[f] = latest[f]
      <4>1. PICK i \in 1 .. Len(q) : f \in q[i].fields /\ q[i].values[f] = latest[f]
        BY <1>3, <3>3
      <4>2. CASE i = 1
        BY <1>1, <1>5, <4>1, <4>2
      <4>3. CASE i # 1
        <5>1. i - 1 \in DOMAIN Tail(q) /\ Tail(q)[i - 1] = q[i]
          BY <1>3, <4>3
        <5>2. queue'[Owner[f]] = Tail(q) /\ latest' = latest
          BY <1>1, <1>6, <2>3
        <5> QED BY <4>1, <5>1, <5>2
      <4> QED BY <4>2, <4>3
    <3> QED BY <1>0, <2>3, <3>1, <3>2, <3>3 DEF LatestKept, q
  <2> QED BY <2>1, <2>2, <2>3
<1>15. FileMissing'
  BY DEF FileMissing
<1> QED BY <1>7, <1>9, <1>10, <1>13, <1>14, <1>15 DEF SettingsInv

(* A write that is refused loses the fields of its snapshot.               *)
LEMMA WriteFailsKeeps ==
    ASSUME SettingsInv, NEW u \in Users, WriteFails(u)
    PROVE  SettingsInv'
<1> DEFINE q == queue[u]
<1>0. /\ SettingsTypeOK /\ OwnFields /\ ModifiedKnown /\ ValuesGrow /\ LatestKept /\ FileMissing
      /\ Owner \in [Fields -> Users]
  BY SettingsAssumption DEF SettingsInv
<1>1. /\ q # <<>> /\ lost' = lost \cup Head(q).fields /\ late' = late \ {u}
      /\ queue' = [queue EXCEPT ![u] = Tail(q)]
      /\ saved' = saved /\ sets' = sets /\ settings' = settings /\ latest' = latest /\ modified' = modified
      /\ Current' = Current
  BY DEF WriteFails, TaskDone, Current
<1>2. q \in Seq(Task) /\ DOMAIN queue = Users
  BY <1>0 DEF SettingsTypeOK
<1>3. /\ Head(q) = q[1] /\ Tail(q) \in Seq(Task) /\ Len(q) \in Nat \ {0}
      /\ DOMAIN q = 1 .. Len(q) /\ DOMAIN Tail(q) = 1 .. Len(q) - 1
      /\ \A i \in 1 .. Len(q) - 1 : Tail(q)[i] = q[i + 1]
  <2> HIDE DEF q
  <2> QED BY <1>1, <1>2, HeadTailProperties, LenProperties
<1>4. queue'[u] = Tail(q) /\ \A v \in Users : v # u => queue'[v] = queue[v]
  BY <1>1, <1>2
<1> HIDE DEF q
<1>5. SettingsTypeOK'
  <2>1. queue' \in [Users -> Seq(Task)]
    BY <1>0, <1>1, <1>3 DEF SettingsTypeOK
  <2> QED BY <1>0, <1>1, <2>1 DEF SettingsTypeOK
<1>6. \A i \in 1 .. Len(q) - 1 : i + 1 \in DOMAIN q /\ Tail(q)[i] = q[i + 1]
  BY <1>3
<1>7. OwnFields'
  <2> SUFFICES ASSUME NEW v \in Users
               PROVE  /\ \A f \in modified'[v] : Owner[f] = v
                      /\ \A i \in DOMAIN queue'[v] : \A f \in queue'[v][i].fields : Owner[f] = v
    BY DEF OwnFields
  <2>1. \A i \in DOMAIN q : \A f \in q[i].fields : Owner[f] = u
    BY <1>0 DEF OwnFields, q
  <2>2. CASE v # u
    BY <1>0, <1>1, <1>4, <2>2 DEF OwnFields
  <2>3. CASE v = u
    BY <1>0, <1>1, <1>3, <1>4, <1>6, <2>1, <2>3 DEF OwnFields
  <2> QED BY <2>2, <2>3
<1>8. ModifiedKnown'
  BY <1>0, <1>1 DEF ModifiedKnown
<1>9. ValuesGrow'
  <2> SUFFICES ASSUME NEW f \in Fields
               PROVE  /\ latest[f] <= sets /\ Current[f] <= latest[f]
                      /\ \A i \in DOMAIN queue'[Owner[f]] :
                           f \in queue'[Owner[f]][i].fields =>
                              /\ Current[f] <= queue'[Owner[f]][i].values[f]
                              /\ queue'[Owner[f]][i].values[f] <= latest[f]
                              /\ \A j \in DOMAIN queue'[Owner[f]] :
                                   i <= j /\ f \in queue'[Owner[f]][j].fields =>
                                      queue'[Owner[f]][i].values[f] <= queue'[Owner[f]][j].values[f]
    BY <1>1 DEF ValuesGrow
  <2>1. CASE Owner[f] # u
    BY <1>0, <1>4, <2>1 DEF ValuesGrow
  <2>2. CASE Owner[f] = u
    <3>1. /\ latest[f] <= sets /\ Current[f] <= latest[f]
          /\ \A i \in DOMAIN q : f \in q[i].fields =>
               /\ Current[f] <= q[i].values[f] /\ q[i].values[f] <= latest[f]
               /\ \A j \in DOMAIN q : i <= j /\ f \in q[j].fields => q[i].values[f] <= q[j].values[f]
      BY <1>0, <2>2 DEF ValuesGrow, q
    <3>2. \A i, j \in 1 .. Len(q) - 1 : i <= j /\ f \in q[i + 1].fields /\ f \in q[j + 1].fields
                                          => q[i + 1].values[f] <= q[j + 1].values[f]
      <4> TAKE i, j \in 1 .. Len(q) - 1
      <4>1. i + 1 \in DOMAIN q /\ j + 1 \in DOMAIN q /\ (i <= j => i + 1 <= j + 1)
        BY <1>3
      <4> QED BY <3>1, <4>1
    <3> QED BY SMTT(30), <1>3, <1>4, <1>6, <2>2, <3>1, <3>2
  <2> QED BY <2>1, <2>2
<1>10. LatestKept'
  <2> SUFFICES ASSUME NEW f \in Fields, f \notin lost'
               PROVE  \/ Current[f] = latest[f]
                      \/ \E i \in DOMAIN queue'[Owner[f]] :
                           f \in queue'[Owner[f]][i].fields /\ queue'[Owner[f]][i].values[f] = latest[f]
    BY <1>1 DEF LatestKept
  <2>1. f \notin lost /\ f \notin q[1].fields
    BY <1>1, <1>3
  <2>2. CASE Current[f] = latest[f]
    BY <2>2
  <2>3. ASSUME NEW i \in DOMAIN queue[Owner[f]], f \in queue[Owner[f]][i].fields,
               queue[Owner[f]][i].values[f] = latest[f]
        PROVE  \E j \in DOMAIN queue'[Owner[f]] :
                 f \in queue'[Owner[f]][j].fields /\ queue'[Owner[f]][j].values[f] = latest[f]
    <3>1. CASE Owner[f] # u
      BY <1>0, <1>4, <2>3, <3>1
    <3>2. CASE Owner[f] = u
      <4>1. i \in 1 .. Len(q) /\ i # 1 /\ f \in q[i].fields /\ q[i].values[f] = latest[f]
        BY <1>3, <2>1, <2>3, <3>2 DEF q
      <4>2. i - 1 \in DOMAIN Tail(q) /\ Tail(q)[i - 1] = q[i]
        BY <1>3, <4>1
      <4> QED BY <1>4, <3>2, <4>1, <4>2
    <3> QED BY <3>1, <3>2
  <2> QED BY <1>0, <2>1, <2>2, <2>3 DEF LatestKept
<1>11. FileMissing'
  BY <1>0, <1>1 DEF FileMissing
<1> QED BY <1>5, <1>7, <1>8, <1>9, <1>10, <1>11 DEF SettingsInv

(* reload() takes what the file has, and forgets what was modified.        *)
LEMMA ReloadKeeps ==
    ASSUME SettingsInv, NEW u \in Users, FinishReload(u)
    PROVE  SettingsInv'
<1>0. /\ SettingsTypeOK /\ OwnFields /\ ModifiedKnown /\ ValuesGrow /\ LatestKept /\ FileMissing
      /\ Owner \in [Fields -> Users] /\ Current \in [Fields -> Nat]
  BY SettingsAssumption, CurrentTyped DEF SettingsInv
<1>1. /\ saved' = saved /\ sets' = sets /\ queue' = queue /\ late' = late /\ latest' = latest /\ lost' = lost
      /\ modified' = [modified EXCEPT ![u] = {}] /\ Current' = Current
      /\ settings' = [settings EXCEPT ![u] = Current] \/ settings' = settings
  BY DEF FinishReload, Current
<1>2. SettingsTypeOK'
  <2>1. settings' \in [Users -> [Fields -> Nat]]
    BY <1>0, <1>1 DEF SettingsTypeOK
  <2>2. modified' \in [Users -> SUBSET Fields]
    BY <1>0, <1>1 DEF SettingsTypeOK
  <2> QED BY <1>0, <1>1, <2>1, <2>2 DEF SettingsTypeOK
<1>3. /\ modified'[u] = {}
      /\ \A v \in Users : v # u => modified'[v] = modified[v] /\ settings'[v] = settings[v]
  BY <1>0, <1>1 DEF SettingsTypeOK
<1>4. OwnFields' /\ ModifiedKnown'
  <2>1. OwnFields'
    BY <1>0, <1>1, <1>3 DEF OwnFields
  <2>2. ASSUME NEW f \in Fields, f \in modified'[Owner[f]]
        PROVE  settings'[Owner[f]][f] = latest'[f]
    <3>1. Owner[f] \in Users /\ Owner[f] # u
      BY <1>0, <1>3, <2>2
    <3> QED BY <1>0, <1>1, <1>3, <2>2, <3>1 DEF ModifiedKnown
  <2> QED BY <2>1, <2>2 DEF ModifiedKnown
<1>5. ValuesGrow' /\ LatestKept' /\ FileMissing'
  BY <1>0, <1>1 DEF ValuesGrow, LatestKept, FileMissing
<1> QED BY <1>2, <1>4, <1>5 DEF SettingsInv

(* The other steps change nothing the invariant is about but late, which   *)
(* only a process that finds no file joins.                                *)
LEMMA FileUntouchedKeeps ==
    ASSUME SettingsInv,
           UNCHANGED <<saved, sets, settings, modified, queue, latest, lost>>,
           late' \in SUBSET Users, late' # {} => saved = NoFile
    PROVE  SettingsInv'
<1>1. Current' = Current
  BY DEF Current
<1>2. SettingsTypeOK' /\ OwnFields' /\ ModifiedKnown' /\ FileMissing'
  BY DEF SettingsInv, SettingsTypeOK, OwnFields, ModifiedKnown, FileMissing
<1>3. ValuesGrow' /\ LatestKept'
  BY <1>1 DEF SettingsInv, ValuesGrow, LatestKept
<1> QED BY <1>2, <1>3 DEF SettingsInv

(* Every step of every process keeps the invariant, as long as no two have *)
(* found the file missing at once.                                         *)
LEMMA SettingsKeptInv ==
    ASSUME SettingsInv, OneLate, [SettingsNext]_settingsVars
    PROVE  SettingsInv'
<1>0. SettingsTypeOK /\ FileMissing
  BY DEF SettingsInv
<1>1. ASSUME NEW f \in Fields, SetField(f)
      PROVE  SettingsInv'
  BY <1>1, SetFieldKeeps
<1>2. ASSUME NEW u \in Users, WriteLocked(u)
      PROVE  SettingsInv'
  <2>1. Written(u, Current) /\ late' = {}
    BY <1>0, <1>2 DEF WriteLocked, Current, FileMissing
  <2> QED BY <2>1, WrittenKeeps
<1>3. ASSUME NEW u \in Users, ReadMissing(u)
      PROVE  SettingsInv'
  <2>1. late' \in SUBSET Users /\ saved = NoFile /\ UNCHANGED <<saved, sets, settings, modified, queue, latest, lost>>
    BY <1>0, <1>3 DEF ReadMissing, SettingsTypeOK
  <2> QED BY <2>1, FileUntouchedKeeps
<1>4. ASSUME NEW u \in Users, WriteLate(u)
      PROVE  SettingsInv'
  <2>1. late' = {}
    BY <1>4 DEF WriteLate, OneLate
  <2>2. saved = NoFile /\ Written(u, Default)
    BY <1>0, <1>4 DEF WriteLate, FileMissing
  <2>3. Written(u, Current)
    BY <2>2 DEF Current
  <2> QED BY <2>1, <2>3, WrittenKeeps
<1>5. ASSUME NEW u \in Users, WriteFails(u)
      PROVE  SettingsInv'
  BY <1>5, WriteFailsKeeps
<1>6. ASSUME NEW u \in Users, StartReload(u)
      PROVE  SettingsInv'
  <2>1. late' \in SUBSET Users /\ (late' # {} => saved = NoFile)
        /\ UNCHANGED <<saved, sets, settings, modified, queue, latest, lost>>
    BY <1>0, <1>6 DEF StartReload, SettingsTypeOK, FileMissing
  <2> QED BY <2>1, FileUntouchedKeeps
<1>7. ASSUME NEW u \in Users, FinishReload(u)
      PROVE  SettingsInv'
  BY <1>7, ReloadKeeps
<1>8. CASE UNCHANGED settingsVars
  <2>1. late' \in SUBSET Users /\ (late' # {} => saved = NoFile)
        /\ UNCHANGED <<saved, sets, settings, modified, queue, latest, lost>>
    BY <1>0, <1>8 DEF settingsVars, SettingsTypeOK, FileMissing
  <2> QED BY <2>1, FileUntouchedKeeps
<1> QED BY <1>1, <1>2, <1>3, <1>4, <1>5, <1>6, <1>7, <1>8 DEF SettingsNext

(* No process's write undoes another's setting or an earlier one of its    *)
(* own, whichever writes fail and whoever reloads, unless two processes at *)
(* once find that there is no settings file: only then is a file written   *)
(* that was not read under the lock (settings-manager.ts:190).             *)
THEOREM SettingsKeptHolds == SettingsSpec /\ []OneLate => []SettingsKept
<1>1. SettingsInv => SettingsKept
  BY DEF SettingsInv, LatestKept, SettingsKept, Pending
<1>2. SettingsInv /\ OneLate /\ [SettingsNext]_settingsVars => SettingsInv'
  BY SettingsKeptInv
<1> QED BY SettingsInitInv, <1>1, <1>2, PTL DEF SettingsSpec

(* Between any number of processes this holds if the file exists from the  *)
(* start: then nobody is ever late.                                        *)
THEOREM SettingsKeptWithFile == SettingsSpec /\ saved # NoFile => []SettingsKept
<1> DEFINE Exists == saved \in [Fields -> Nat] /\ saved # NoFile /\ late = {} /\ SettingsInv
<1>1. SettingsInit /\ saved # NoFile => Exists
  BY SettingsInitInv DEF SettingsInit, SettingsInv, SettingsTypeOK
<1>2. Exists => OneLate /\ SettingsKept
  BY DEF OneLate, SettingsInv, LatestKept, SettingsKept, Pending
<1>3. Exists /\ [SettingsNext]_settingsVars => Exists'
  <2> SUFFICES ASSUME Exists, [SettingsNext]_settingsVars
               PROVE  Exists'
    OBVIOUS
  <2>1. SettingsInv' /\ SettingsTypeOK'
    BY <1>2, SettingsKeptInv DEF SettingsInv
  <2>2. late' = {}
    BY DEF SettingsNext, settingsVars, SetField, WriteLocked, ReadMissing, WriteLate, WriteFails, StartReload, FinishReload
  <2>3. saved' # NoFile
    <3>1. ASSUME NEW u \in Users, WriteLocked(u)
          PROVE  saved' # NoFile
      <4>1. queue[u] \in Seq(Task) /\ queue[u] # <<>> /\ saved' = Merge(saved, Head(queue[u]))
        BY <3>1 DEF SettingsInv, SettingsTypeOK, WriteLocked, Written
      <4> QED BY <4>1, HeadTailProperties, MergeTyped
    <3> QED BY <3>1 DEF SettingsNext, settingsVars, SetField, ReadMissing, WriteLate, WriteFails, StartReload, FinishReload
  <2> QED BY <2>1, <2>2, <2>3 DEF SettingsTypeOK
<1> HIDE DEF Exists
<1> QED BY <1>1, <1>2, <1>3, PTL DEF SettingsSpec
=============================================================================
