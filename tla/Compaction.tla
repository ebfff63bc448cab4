----------------------------- MODULE Compaction -----------------------------
(***************************************************************************)
(* Where a conversation is cut when it is compacted, and what the summary  *)
(* is told (packages/coding-agent/src/core/compaction/compaction.ts).      *)
(*                                                                         *)
(* A path is the sequence of entries from the root of the session tree to  *)
(* its leaf; an entry has an id, a type, the id its compaction keeps from  *)
(* (target) and the ids of the messages its summary was told (told).  The  *)
(* size of a message is one: with every number of messages to keep, every  *)
(* cut that sizes could bring about is reached.                            *)
(***************************************************************************)
EXTENDS Naturals, Sequences, FiniteSets, FiniteSetsExt

(* User messages, bash results and extension messages are of type "user".  *)
MessageTypes == {"user", "assistant", "toolResult"}

CutTypes  == {"user", "assistant", "branchSummary"}   \* never a tool result
TurnTypes == {"user", "branchSummary"}

IsMessage(e)  == e.type \in MessageTypes
IsMessageOrSummary(e) == IsMessage(e) \/ e.type = "branchSummary"

(* The entries of these types, in their order.                             *)
Only(p, types) ==
    LET only[i \in 0 .. Len(p)] ==
            IF i = 0 THEN <<>>
            ELSE IF p[i].type \in types THEN Append(only[i - 1], p[i]) ELSE only[i - 1]
    IN  only[Len(p)]

Positions(p, from, to, types) == {i \in from .. to : p[i].type \in types}
LatestOf(S) == IF S = {} THEN 0 ELSE Max(S)

(* The newest messages that fill the budget begin at this position.        *)
BudgetStart(p, start, keep) ==
    LatestOf({i \in start .. Len(p) :
                /\ IsMessage(p[i])
                /\ Cardinality(Positions(p, i, Len(p), MessageTypes)) >= keep})

(* Entries that are no messages go with the message after them.            *)
WithSettings(p, start, cut) ==
    Min({i \in start .. cut : \A j \in i .. cut - 1 : ~IsMessage(p[j]) /\ p[j].type # "compaction"})

CutAtBudget(p, start, keep) ==       \* mutant: a tool result may come first
    LET i == BudgetStart(p, start, keep) IN IF i = 0 THEN start ELSE i
FindCutPoint(p, start, keep) ==
    LET cuts  == Positions(p, start, Len(p), CutTypes)
        later == {c \in cuts : c >= BudgetStart(p, start, keep)}
    IN  IF cuts = {}
          THEN start
          ELSE WithSettings(p, start, Min(IF BudgetStart(p, start, keep) = 0 \/ later = {}
                                            THEN cuts ELSE later))

(* The message that begins the turn a cut splits, 0 if it splits none.     *)
TurnStart(p, start, cut) ==
    IF cut > Len(p) \/ p[cut].type = "user" \/ Positions(p, start, Len(p), CutTypes) = {}
      THEN 0
      ELSE LatestOf(Positions(p, start, cut, TurnTypes))

LatestCompaction(p) == LatestOf(Positions(p, 1, Len(p), {"compaction"}))

PositionOf(p, id) == LatestOf({i \in DOMAIN p : p[i].id = id})

(* What was compacted before is not looked at again.                       *)
BoundaryStart(p) ==
    LET c == LatestCompaction(p)
        k == IF c = 0 THEN 1 ELSE PositionOf(p, p[c].target)
    IN  IF k = 0 THEN c + 1 ELSE k

(* What every branch is (only assumed of a session of version 1): ids      *)
(* rise, a compaction keeps from an older entry, a tool result has nothing *)
(* said between it and the answer or result before it, what is kept does   *)
(* not begin with a result, and what is not kept was told to a summary.    *)
SaidTypes == MessageTypes \cup {"branchSummary", "compaction"}
AnswerTypes == {"assistant", "toolResult"}

Rising(p) == \A i, j \in 1 .. Len(p) : i < j => p[i].id < p[j].id
KeepsOlder(p) == \A i \in 1 .. Len(p) : p[i].type = "compaction" => p[i].target < p[i].id

Behind(p, i, j) == p[j].type \in AnswerTypes /\ \A m \in j + 1 .. i - 1 : p[m].type \notin SaidTypes
ResultsFollow(p) ==
    \A i \in 1 .. Len(p) : p[i].type = "toolResult" => \E j \in 1 .. i - 1 : Behind(p, i, j)

CleanFrom(p, from) ==
    \A i \in from .. Len(p) : p[i].type = "toolResult" => \E j \in from .. i - 1 : p[j].type \in SaidTypes

TellsOf(p, id) == \E m \in 1 .. Len(p) : p[m].type = "compaction" /\ id \in p[m].told
ToldBefore(p, to) == \A i \in 1 .. to - 1 : IsMessageOrSummary(p[i]) => TellsOf(p, p[i].id)

Conversation(p) ==
    /\ Rising(p) /\ KeepsOlder(p) /\ ResultsFollow(p)
    /\ CleanFrom(p, BoundaryStart(p)) /\ ToldBefore(p, BoundaryStart(p))

HistoryEnd(p, cut) ==
    LET turn == TurnStart(p, BoundaryStart(p), cut) IN (IF turn = 0 THEN cut ELSE turn) - 1

MessageIds(p, from, to) == {p[i].id : i \in {j \in from .. to : IsMessageOrSummary(p[j])}}

(* What the summary is told: the history, with the previous summary, and   *)
(* the beginning of a split turn.  Without history there is no summary of  *)
(* it ("No prior history."), and the previous one is not passed on.        *)
HistoryOffByOne(p, cut) ==           \* mutant: the last message of the history is left out
    MessageIds(p, BoundaryStart(p), HistoryEnd(p, cut) - 1)
History(p, cut) == MessageIds(p, BoundaryStart(p), HistoryEnd(p, cut))

Told(p, cut) ==
    LET c        == LatestCompaction(p)
        previous == IF c = 0 THEN {} ELSE p[c].told
        prefix   == MessageIds(p, HistoryEnd(p, cut) + 1, cut - 1)
    IN  IF prefix # {} /\ History(p, cut) = {} THEN prefix ELSE History(p, cut) \cup previous \cup prefix

(* prepareCompaction has nothing to do.                                    *)
NothingToCompact(p) ==
    p = <<>> \/ p[Len(p)].type = "compaction" \/ BoundaryStart(p) > Len(p)

(* The messages the model is given for a path: buildSessionContext.  The   *)
(* summary stands for itself by the id of its compaction.                  *)
Context(p) ==
    LET c    == LatestCompaction(p)
        k    == PositionOf(p, p[c].target)
        Said(from, to) == Only(SubSeq(p, from, to), MessageTypes \cup {"branchSummary"})
    IN  IF c = 0
          THEN Said(1, Len(p))
          ELSE <<p[c]>> \o (IF k = 0 THEN <<>> ELSE Said(k, c - 1)) \o Said(c + 1, Len(p))
=============================================================================
