--------------------------- MODULE SettingsManager ---------------------------
(***************************************************************************)
(* A settings file shared by several processes                             *)
(* (packages/coding-agent/src/core/settings-manager.ts, one scope).        *)
(*                                                                         *)
(* A field is a top-level or a nested key; its value is the number of the  *)
(* set operation it comes from, 0 for the default.  Each field is set by   *)
(* one process only (Owner), so that any set value that is not in the file *)
(* was lost and not overruled.                                             *)
(***************************************************************************)
EXTENDS Naturals, Sequences

CONSTANTS Fields,
          Users,          \* the processes
          Owner,          \* field -> the process that sets it
          MaxSets,        \* bound on the set operations
          LockFails,      \* the lock may stay taken for 200 ms
          NoFile          \* the file does not exist

ASSUME SettingsAssumption ==
    /\ Owner \in [Fields -> Users] /\ LockFails \in BOOLEAN /\ MaxSets \in Nat
    /\ NoFile \notin [Fields -> Nat]

VARIABLES
    saved,     \* the settings file
    sets,      \* how many set operations there were
    settings,  \* globalSettings of each process
    modified,  \* modifiedFields of each process
    queue,     \* writeQueue: process -> the snapshots to be written
    late,      \* the processes that found no file and have not locked it yet
    reloading, \* process -> how many writes its reload() still waits for, 0 for none
    loadFailed,\* globalSettingsLoadError: the processes whose reload() failed
    latest,    \* history: field -> its last set operation
    lost       \* history: the fields whose last write failed or was not made

settingsVars == <<saved, sets, settings, modified, queue, late, reloading, loadFailed, latest, lost>>

Default == [f \in Fields |-> 0]

SettingsInit ==
    /\ saved \in {NoFile, Default}
    /\ sets = 0 /\ late = {} /\ lost = {} /\ loadFailed = {} /\ latest = Default
    /\ settings = [u \in Users |-> Default]
    /\ modified = [u \in Users |-> {}]
    /\ queue = [u \in Users |-> <<>>]
    /\ reloading = [u \in Users |-> 0]

Current == IF saved = NoFile THEN Default ELSE saved

(* A setter: memory is changed, and a copy of it queued with the fields    *)
(* modified so far; after a failed reload nothing is queued.               *)
SetField(f) ==
    LET u == Owner[f]
        changed == [settings[u] EXCEPT ![f] = sets + 1]
        fields == modified[u] \cup {f}
    IN  /\ sets < MaxSets /\ u \notin late
        /\ sets' = sets + 1 /\ latest' = [latest EXCEPT ![f] = sets + 1]
        /\ settings' = [settings EXCEPT ![u] = changed]
        /\ modified' = [modified EXCEPT ![u] = fields]
        /\ IF u \in loadFailed
             THEN lost' = lost \cup {f} /\ UNCHANGED queue
             ELSE /\ queue' = [queue EXCEPT ![u] = Append(@, [values |-> changed, fields |-> fields])]
                  /\ UNCHANGED lost
        /\ UNCHANGED <<saved, late, reloading, loadFailed>>

(* persistScopedSettings: the modified fields over what the file holds.    *)
MergeWholesale(base, task) ==      \* mutant: all of memory is written
    task.values
Merge(base, task) ==
    [f \in Fields |-> IF f \in task.fields THEN task.values[f] ELSE base[f]]

TaskDone(u) ==
    /\ queue' = [queue EXCEPT ![u] = Tail(@)]
    /\ reloading' = [reloading EXCEPT ![u] = IF @ > 1 THEN @ - 1 ELSE @]

Written(u, base) ==
    /\ queue[u] # <<>>
    /\ saved' = Merge(base, Head(queue[u]))
    /\ lost' = {f \in lost : saved'[f] # latest[f]}
    /\ modified' = [modified EXCEPT ![u] = {}]
    /\ TaskDone(u)
    /\ UNCHANGED <<sets, settings, loadFailed, latest>>

(* The file exists: it is locked, read and written.                        *)
WriteLocked(u) == u \notin late /\ saved # NoFile /\ Written(u, saved) /\ UNCHANGED late

(* No file: nothing is read, and the lock is taken before the write only.  *)
ReadMissing(u) ==
    /\ queue[u] # <<>> /\ u \notin late /\ saved = NoFile
    /\ late' = late \cup {u}
    /\ UNCHANGED <<saved, sets, settings, modified, queue, reloading, loadFailed, latest, lost>>

WriteLate(u) == u \in late /\ Written(u, Default) /\ late' = late \ {u}

(* The lock is not to be had: the error is recorded, and the fields stay   *)
(* modified for the next setter's write.                                   *)
WriteFails(u) ==
    /\ LockFails /\ queue[u] # <<>>
    /\ lost' = lost \cup Head(queue[u]).fields
    /\ late' = late \ {u}
    /\ TaskDone(u)
    /\ UNCHANGED <<saved, sets, settings, modified, loadFailed, latest>>

(* reload() awaits the writes queued so far, then takes what the file has. *)
StartReload(u) ==
    /\ reloading[u] = 0 /\ u \notin late
    /\ reloading' = [reloading EXCEPT ![u] = Len(queue[u]) + 1]
    /\ UNCHANGED <<saved, sets, settings, modified, queue, late, loadFailed, latest, lost>>

FinishReload(u) ==
    /\ reloading[u] = 1 /\ u \notin late
    /\ reloading' = [reloading EXCEPT ![u] = 0]
    /\ modified' = [modified EXCEPT ![u] = {}]
    /\ \/ /\ settings' = [settings EXCEPT ![u] = Current]
          /\ loadFailed' = loadFailed \ {u}
       \/ /\ LockFails /\ saved # NoFile
          /\ loadFailed' = loadFailed \cup {u}
          /\ UNCHANGED settings
    /\ UNCHANGED <<saved, sets, queue, late, latest, lost>>

SettingsNext ==
    \/ \E f \in Fields : SetField(f)
    \/ \E u \in Users :
        \/ WriteLocked(u) \/ ReadMissing(u) \/ WriteLate(u) \/ WriteFails(u)
        \/ StartReload(u) \/ FinishReload(u)

SettingsSpec == SettingsInit /\ [][SettingsNext]_settingsVars
---------------------------------------------------------------------------
Pending(f) == \E i \in DOMAIN queue[Owner[f]] : f \in queue[Owner[f]][i].fields

(* A field that was set, and whose write was neither refused nor is still  *)
(* queued, is in the file: no other process's write undoes it.             *)
SettingsKept == \A f \in Fields : f \notin lost /\ ~Pending(f) => Current[f] = latest[f]

(* A write that failed is made up for by the next one: its fields remain   *)
(* marked as modified.                                                     *)
FailedWriteRetried == \A f \in lost : Pending(f) \/ f \in modified[Owner[f]]

(* A process sees what it set.                                             *)
SetIsSeen == \A f \in Fields : settings[Owner[f]][f] = latest[f]
=============================================================================
