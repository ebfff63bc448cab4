--------------------------- MODULE SessionManager ---------------------------
(***************************************************************************)
(* The session tree and its JSONL file                                     *)
(* (packages/coding-agent/src/core/session-manager.ts).                    *)
(*                                                                         *)
(* One process has at most one session open.  Memory holds the lines of    *)
(* the file it was loaded from or is to become; the disk holds what was    *)
(* written.  The file system may fail a write, or the process may die in   *)
(* one, after any number of lines, the last of them possibly torn.  An     *)
(* id is the number of appends before it; null is 0.  A label entry sets   *)
(* the label of its target when told is {target} and clears it when told   *)
(* is empty.                                                               *)
(***************************************************************************)
EXTENDS Compaction, SequencesExt

CONSTANTS Files,          \* numbers of session files
          MaxEntries,     \* bound on the entries ever appended
          Api,            \* the operations that are used
          KeepSizes,      \* numbers of messages a compaction may keep
          Faults,         \* subset of {"fail", "crash", "torn", "crashRewrite"}
          MaxFaults,      \* bound on them
          OldFile,        \* the lines of a version-1 session, without ids
          StartContents,  \* what the first file may hold at the start
          Absent          \* the file does not exist

ASSUME BoundsAssumption ==
    MaxEntries \in Nat /\ MaxFaults \in Nat /\ Files \subseteq Nat \ {0} /\ Files # {}

VARIABLES
    disk,         \* file number -> its lines, or Absent
    file,         \* sessionFile, 0 when no session is open
    fileEntries,  \* fileEntries
    leafId,       \* leafId
    flushed,      \* flushed
    labelsById,   \* the ids that have a label
    origin,       \* history: id -> the path to it, without labels, when it was appended
    faults        \* how many faults there were

vars == <<disk, file, fileEntries, leafId, flushed, labelsById, origin, faults>>

Line(type, id, parent, target, told) ==
    [type |-> type, id |-> id, parent |-> parent, target |-> target, told |-> told]
Mark(type) == Line(type, 0, 0, 0, {})

Header  == Mark("session")
Garbage == Mark("garbage")   \* a line that is not JSON
Torn    == Mark("torn")      \* the beginning of a line, without its newline

SessionTypes == {"session", "oldSession"}
EntryTypes   == MessageTypes \cup {"branchSummary", "compaction", "info", "label"}
Unlabelled   == EntryTypes \ {"label"}

IsEntry(e)       == e.type \in EntryTypes
Entries(ls)      == Only(ls, EntryTypes)
Ids(ls)          == {e.id : e \in {line \in Range(ls) : IsEntry(line)}}
HasAssistant(ls) == \E e \in Range(ls) : e.type = "assistant"
IdSeq(p)         == [i \in DOMAIN p |-> p[i].id]

(* getBranch: from an entry to the root, following the parents.            *)
Entry(ls, id) == CHOOSE e \in Range(ls) : IsEntry(e) /\ e.id = id
Branch(ls, id) ==
    LET known == Ids(ls)
        path[i \in 0 .. MaxEntries] ==
            IF i = 0 \/ i \notin known THEN <<>>
            ELSE Append(path[Entry(ls, i).parent], Entry(ls, i))
    IN  path[id]

PathIds(ls, id) == IdSeq(Only(Branch(ls, id), Unlabelled))

(* loadEntriesFromFile: lines that do not parse are skipped.               *)
Loaded(content) ==
    LET ls == Only(content, EntryTypes \cup SessionTypes)
    IN  IF ls # <<>> /\ ls[1].type \in SessionTypes THEN ls ELSE <<>>

(* What may be in the directory before: nothing, something that is no      *)
(* session, or a session of version 1, which had no labels.                *)
Lines == [type : EntryTypes \cup SessionTypes \cup {"garbage", "torn"},
          id : Nat, parent : Nat, target : Nat, told : SUBSET Nat]

ASSUME OldFileAssumption ==
    /\ OldFile \in Seq(Lines) /\ OldFile # <<>> /\ OldFile[1].type = "oldSession"
    /\ \A i \in 2 .. Len(OldFile) : OldFile[i].type \in Unlabelled
    /\ Len(OldFile) <= MaxEntries + 1

ASSUME StartAssumption ==
    /\ Absent \notin Seq(Lines)
    /\ \A content \in StartContents \ {Absent, OldFile} :
        /\ content \in Seq(Lines) /\ Loaded(content) = <<>>
        /\ \A i \in DOMAIN content : content[i].type # "torn"

(* Its chain of entries is a conversation, as the older version wrote it.  *)
OldPath(n) == [i \in 1 .. n |-> [OldFile[i + 1] EXCEPT !.id = i, !.parent = i - 1]]

ASSUME OldConversationAssumption == \A n \in 1 .. Len(OldFile) - 1 : Conversation(OldPath(n))

(* migrateV1ToV2: the entries form a chain, indices become ids.            *)
MigratedUnchained(ls) ==             \* mutant: prevId is not advanced
    [i \in DOMAIN ls |-> IF i = 1 THEN Header ELSE [ls[i] EXCEPT !.id = i - 1]]
Migrated(ls) ==
    [i \in DOMAIN ls |-> IF i = 1 THEN Header ELSE [ls[i] EXCEPT !.id = i - 1, !.parent = i - 2]]

(* _buildIndex: the labels in force; the leaf is the last line.            *)
LabelsOf(ls) ==
    {t \in Ids(ls) : \E i \in DOMAIN ls :
        /\ ls[i].type = "label" /\ ls[i].target = t /\ ls[i].told # {}
        /\ \A j \in i + 1 .. Len(ls) : ~(ls[j].type = "label" /\ ls[j].target = t)}
LastLine(ls) ==
    LET at == LatestOf({i \in DOMAIN ls : IsEntry(ls[i])}) IN IF at = 0 THEN 0 ELSE ls[at].id
LeafAfterLoad(ls) == LastLine(ls)
---------------------------------------------------------------------------
(* Writing: lines are appended one by one; a fault leaves the first k.     *)
Content(f) == IF disk[f] = Absent THEN <<>> ELSE disk[f]

Appended(content, ls) ==
    IF ls # <<>> /\ content # <<>> /\ Last(content) = Torn
      THEN Front(content) \o <<IF ls[1] = Torn THEN Torn ELSE Garbage>> \o Tail(ls)
      ELSE content \o ls

Outcome(f, content, fate) == [disk |-> [disk EXCEPT ![f] = content], fate |-> fate]

CutShort(f, ls) ==
    {Outcome(f, IF k = 0 /\ tail = <<>> THEN disk[f] ELSE Appended(Content(f), SubSeq(ls, 1, k) \o tail), fate) :
        k \in 0 .. Len(ls) - 1,
        tail \in {<<>>} \cup (IF "torn" \in Faults THEN {<<Torn>>} ELSE {}),
        fate \in Faults \cap {"fail", "crash"}}

AppendLines(f, ls) ==
    {Outcome(f, Appended(Content(f), ls), "ok")}
        \cup (IF faults < MaxFaults THEN CutShort(f, ls) ELSE {})

(* _rewriteFile: the file is truncated first.                              *)
Rewrite(f, ls) ==
    {Outcome(f, ls, "ok")}
        \cup (IF faults = MaxFaults THEN {} ELSE
                {Outcome(f, disk[f], fate) : fate \in Faults \cap {"fail"}}
                \cup {Outcome(f, SubSeq(ls, 1, k), "crash") :
                        k \in IF "crashRewrite" \in Faults THEN 0 .. Len(ls) - 1 ELSE {}})

(* The memory after an operation; a process that died has none.            *)
Memory(f, ls, leaf, isFlushed, labels) ==
    file' = f /\ fileEntries' = ls /\ leafId' = leaf /\ flushed' = isFlushed /\ labelsById' = labels
Forgotten == Memory(0, <<>>, 0, FALSE, {})

Written(w) == disk' = w.disk /\ faults' = faults + (IF w.fate = "ok" THEN 0 ELSE 1)

NoWrite == [disk |-> disk, fate |-> "ok"]

(* _persist: nothing is written before there is an answer.                 *)
PersistWhenFlushed(ls, e) ==         \* mutant: only the new entry is ever written
    IF HasAssistant(ls) THEN AppendLines(file, <<e>>) ELSE {NoWrite}
Persist(ls, e) ==
    CASE ~HasAssistant(ls) -> {NoWrite}
      [] HasAssistant(ls) /\ ~flushed -> AppendLines(file, ls)
      [] OTHER -> AppendLines(file, <<e>>)

NewEntry(type, parent, target, told) == Line(type, Len(origin) + 1, parent, target, told)

AppendEntry(e, labels) ==
    LET ls == Append(fileEntries, e) IN
    /\ file # 0 /\ Len(origin) < MaxEntries
    /\ origin' = Append(origin, PathIds(ls, e.id))
    /\ \E w \in Persist(ls, e) :
        /\ Written(w)
        /\ IF w.fate = "crash"
             THEN Forgotten
             ELSE Memory(file, ls, e.id, HasAssistant(ls) /\ (flushed \/ w.fate = "ok"),
                         IF w.fate = "ok" THEN labels ELSE labelsById)
---------------------------------------------------------------------------
(* What callers do with an open session.                                   *)
Current == Branch(fileEntries, leafId)

(* Tool results are appended behind the answer that called the tools.      *)
Fits(type) ==
    LET says == Positions(Current, 1, Len(Current), MessageTypes \cup {"branchSummary", "compaction"}) IN
    type = "toolResult" => says # {} /\ Current[Max(says)].type \in {"assistant", "toolResult"}

AppendMessage ==
    \E type \in MessageTypes \cap Api :
        Fits(type) /\ AppendEntry(NewEntry(type, leafId, 0, {}), labelsById)

(* Model and thinking-level changes, custom entries, session names.        *)
AppendInfo ==
    "info" \in Api /\ AppendEntry(NewEntry("info", leafId, 0, {}), labelsById)

AppendLabelChange ==
    \E t \in Ids(Only(fileEntries, Unlabelled)) :
        \/ "label" \in Api /\ AppendEntry(NewEntry("label", leafId, t, {t}), labelsById \cup {t})
        \/ "unlabel" \in Api /\ AppendEntry(NewEntry("label", leafId, t, {}), labelsById \ {t})

(* branch and resetLeaf.                                                   *)
MoveLeaf ==
    /\ "branch" \in Api /\ file # 0
    /\ \E id \in (Ids(fileEntries) \cup {0}) \ {leafId} : leafId' = id
    /\ UNCHANGED <<disk, file, fileEntries, flushed, labelsById, origin, faults>>

BranchWithSummary ==
    /\ "summary" \in Api
    /\ \E id \in Ids(fileEntries) \cup {0} :
        AppendEntry(NewEntry("branchSummary", id, id, {}), labelsById)

(* compact() and _runAutoCompaction, without the awaits in between.        *)
Compact ==
    /\ "compact" \in Api /\ ~NothingToCompact(Current)
    /\ \E keep \in KeepSizes :
        LET cut == FindCutPoint(Current, BoundaryStart(Current), keep) IN
        AppendEntry(NewEntry("compaction", leafId, Current[cut].id, Told(Current, cut)), labelsById)
---------------------------------------------------------------------------
(* Opening, replacing and leaving sessions.                                *)
AnyOtherFile == Files \ {file}       \* mutant: the new file's name may be taken
FreshFiles == {f \in Files : disk[f] = Absent /\ f # file}

New ==
    /\ FreshFiles # {}
    /\ Memory(Min(FreshFiles), <<Header>>, 0, FALSE, {})
    /\ UNCHANGED <<disk, origin, faults>>

(* setSessionFile, for a file that exists: what is not a session becomes a *)
(* new one, a session of an older version is rewritten.                    *)
Repaired(content) ==
    LET ls == Loaded(content) IN
    CASE ls = <<>> -> <<Header>>
      [] ls # <<>> /\ ls[1].type = "oldSession" -> Migrated(ls)
      [] OTHER -> ls

SetSessionFile(f, content) ==
    LET ls == Repaired(content) IN
    \E w \in IF ls = Loaded(content) THEN {NoWrite} ELSE Rewrite(f, ls) :
        /\ Written(w)
        /\ IF w.fate = "ok" THEN Memory(f, ls, LeafAfterLoad(ls), TRUE, LabelsOf(ls)) ELSE Forgotten

Open ==
    /\ \E f \in Files \ {file} : disk[f] # Absent /\ SetSessionFile(f, disk[f])
    /\ UNCHANGED origin

(* The process ends, or is killed between two operations.                  *)
Exit ==
    /\ file # 0
    /\ Forgotten
    /\ UNCHANGED <<disk, origin, faults>>

(* createBranchedSession: labels leave their places on the path and are    *)
(* set again at its end.                                                   *)
LabelAgain(ids, after) ==
    [i \in DOMAIN ids |->
        LET id == Len(origin) + i IN Line("label", id, IF i = 1 THEN after ELSE id - 1, ids[i], {ids[i]})]

InnerLabel(path) ==
    \E i \in DOMAIN path : path[i].type = "label" /\ \E j \in i + 1 .. Len(path) : path[j].type # "label"

(* A set of ids in their order.                                            *)
InOrder(S) == {s \in [1 .. Cardinality(S) -> S] : \A i, j \in DOMAIN s : i < j => s[i] < s[j]}

CreateBranchedSession ==
    /\ "fork" \in Api /\ FreshFiles # {}
    /\ \E id \in Ids(fileEntries) :
        LET path == Branch(fileEntries, id)
            kept == Only(path, Unlabelled)
            f    == Min(FreshFiles)
        IN
        \E ids \in InOrder(labelsById \cap Range(IdSeq(kept))) :
        LET ls == <<Header>> \o kept \o LabelAgain(ids, LastLine(kept)) IN
            /\ InnerLabel(path) => "forkLabelled" \in Api
            /\ Len(origin) + Len(ids) <= MaxEntries
            /\ origin' = origin \o [i \in DOMAIN ids |-> IdSeq(kept)]
            /\ \E w \in IF HasAssistant(ls) THEN Rewrite(f, ls) ELSE {NoWrite} :
                /\ Written(w)
                /\ IF w.fate = "crash"
                     THEN Forgotten
                     ELSE Memory(f, ls, LeafAfterLoad(ls),
                                 HasAssistant(ls) /\ (flushed \/ w.fate = "ok"), LabelsOf(ls))

(* forkFrom: another process copies a session, line by line, and opens it. *)
ForkFrom ==
    /\ "forkFrom" \in Api /\ file = 0 /\ FreshFiles # {}
    /\ \E source \in Files :
        LET ls == Loaded(Content(source))
            f  == Min(FreshFiles)
        IN  /\ ls # <<>> /\ (ls[1].type = "oldSession" => "forkOld" \in Api)
            /\ \E w \in AppendLines(f, <<Header>> \o Entries(ls)) :
                /\ Written(w)
                /\ IF w.fate = "ok"
                     THEN LET copy == Loaded(w.disk[f]) IN
                          Memory(f, copy, LeafAfterLoad(copy), TRUE, LabelsOf(copy))
                     ELSE Forgotten
    /\ UNCHANGED origin
---------------------------------------------------------------------------
Init ==
    /\ \E content \in StartContents : disk = [f \in Files |-> IF f = Min(Files) THEN content ELSE Absent]
    /\ origin = [i \in 1 .. (IF disk[Min(Files)] = OldFile THEN Len(OldFile) - 1 ELSE 0) |-> [j \in 1 .. i |-> j]]
    /\ file = 0 /\ fileEntries = <<>> /\ leafId = 0 /\ flushed = FALSE
    /\ labelsById = {} /\ faults = 0

Next ==
    \/ AppendMessage \/ AppendInfo \/ AppendLabelChange
    \/ MoveLeaf \/ BranchWithSummary \/ Compact
    \/ New \/ Open \/ Exit \/ CreateBranchedSession \/ ForkFrom

Spec == Init /\ [][Next]_vars
---------------------------------------------------------------------------
OnDisk(f) == Loaded(Content(f))

(* The lines in memory begin with the header, the leaf is one of them, and *)
(* only entries that exist have labels.                                    *)
SessionTypeOK ==
    /\ file \in Files \cup {0}
    /\ (file = 0) <=> (fileEntries = <<>>)
    /\ file # 0 => fileEntries[1] = Header
    /\ leafId \in Ids(fileEntries) \cup {0}
    /\ flushed \in BOOLEAN
    /\ labelsById \subseteq Ids(fileEntries)
    /\ Len(origin) <= MaxEntries /\ faults \in 0 .. MaxFaults

(* "Entries cannot be modified or deleted" (getEntries): the conversation  *)
(* that leads to an entry is, in memory and in every file and whatever was *)
(* forked or reopened, the one it was appended to.                         *)
KeepsHistory(ls) ==
    \A e \in Range(ls) :
        e.type \in Unlabelled => e.id \in DOMAIN origin /\ PathIds(ls, e.id) = origin[e.id]

HistoryKept ==
    /\ KeepsHistory(fileEntries)
    /\ \A f \in Files : KeepsHistory(Repaired(Content(f)))

(* Once the model has answered, the file of the open session has all of    *)
(* it: a crash loses nothing that was appended.                            *)
DiskHoldsSession ==
    file # 0 /\ HasAssistant(fileEntries) => Ids(OnDisk(file)) = Ids(fileEntries)

(* What was ever written can be read back, after every crash, fork and     *)
(* migration.                                                              *)
PersistedStays ==
    [][\A f \in Files : Ids(Repaired(Content(f))) \subseteq Ids(Repaired(Content(f)'))]_vars

(* "Never cut at tool results (they must stay with their tool call)"       *)
(* (docs/compaction.md): what the model is given, on any branch, has a     *)
(* tool result only behind the answer that called the tool.                *)
ResultsKeepCalls ==
    LET c == Context(Current) IN
    \A i \in DOMAIN c :
        c[i].type = "toolResult" => i > 1 /\ c[i - 1].type \in {"assistant", "toolResult"}

(* Every message of the branch is given to the model, or a summary of the  *)
(* branch was told it.                                                     *)
Compactions == {e \in Range(Current) : e.type = "compaction"}
Spoken      == {e.id : e \in {m \in Range(Current) : IsMessageOrSummary(m)}}
Given       == Range(IdSeq(Context(Current)))

OnlySummarisedDropped == Spoken \subseteq Given \cup UNION {e.told : e \in Compactions}

(* The same of the summary the model is given: what an earlier summary was *)
(* told is passed on to it.                                                *)
NothingForgotten ==
    Spoken \subseteq Given \cup UNION {e.told : e \in Compactions \cap Range(Context(Current))}

(* A file has each entry, and its header, once.                            *)
WrittenOnce ==
    \A f \in Files :
        LET ls == Content(f) IN
        \A i, j \in DOMAIN ls : ls[i] = ls[j] /\ ls[i] \notin {Garbage, Torn} => i = j
=============================================================================
