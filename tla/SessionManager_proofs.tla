----------------------- MODULE SessionManager_proofs -----------------------
(***************************************************************************)
(* Proofs about the session tree and its file, for any bound on entries    *)
(* and files and any start contents: every entry keeps the history it was  *)
(* appended with, the file of a session that is flushed holds the session, *)
(* and what was persisted stays.  The argument: the lines of a session are *)
(* a header and entries whose ids rise and whose parents are earlier       *)
(* entries of the same lines (Sound), so a branch is determined by the     *)
(* lines before its leaf and by any lines that hold the same entries, and  *)
(* appending, cutting short, migrating, repairing and forking preserve it. *)
(* Every branch is a conversation (Compaction): each entry that is         *)
(* appended continues the one it is appended to, so that what the model is *)
(* given has its results behind their answers, and what it is not given    *)
(* was told to a summary.                                                  *)
(* Only and Branch are recursive functions: what they compute is proved by *)
(* the least counterexample.                                               *)
(***************************************************************************)
EXTENDS SessionManager, FiniteSetTheorems, SequenceTheorems, WellFoundedInduction, TLAPS

(* A set of numbers that is not empty has a least one: what the inductions *)
(* below rest on.                                                          *)
LEMMA Least ==
    ASSUME NEW T \in SUBSET Nat, T # {}
    PROVE  \E x \in T : \A y \in T : x <= y
<1>1. IsWellFoundedOn(OpToRel(<, Nat), Nat)
  BY NatLessThanWellFounded
<1>2. PICK x \in T : \A y \in T : ~(<<y, x>> \in OpToRel(<, Nat))
  BY <1>1, WFMin
<1>3. \A y \in T : ~(y < x)
  BY <1>2 DEF OpToRel
<1> QED BY <1>3

---------------------------------------------------------------------------
(* What Only computes, up to position n.                                   *)
Selects(p, types, n, only) ==
    only = [i \in 0 .. n |->
                IF i = 0 THEN <<>>
                ELSE IF p[i].type \in types THEN Append(only[i - 1], p[i]) ELSE only[i - 1]]

(* The same, position by position.                                         *)
SelectsAt(p, types, i, only) ==
    only[i] = IF i = 0 THEN <<>>
              ELSE IF p[i].type \in types THEN Append(only[i - 1], p[i]) ELSE only[i - 1]

LEMMA SelectsEverywhere ==
    ASSUME NEW p, NEW types, NEW n \in Nat, NEW only
    PROVE  /\ Selects(p, types, n, only) => \A i \in 0 .. n : SelectsAt(p, types, i, only)
           /\ (only = [i \in 0 .. n |-> only[i]] /\ \A i \in 0 .. n : SelectsAt(p, types, i, only))
              => Selects(p, types, n, only)
<1>1. ASSUME Selects(p, types, n, only), NEW i \in 0 .. n PROVE SelectsAt(p, types, i, only)
  BY <1>1 DEF Selects, SelectsAt
<1>2. ASSUME only = [i \in 0 .. n |-> only[i]], \A i \in 0 .. n : SelectsAt(p, types, i, only)
      PROVE  Selects(p, types, n, only)
  <2>1. PICK f : f = [i \in 0 .. n |-> IF i = 0 THEN <<>>
                ELSE IF p[i].type \in types THEN Append(only[i - 1], p[i]) ELSE only[i - 1]]
    OBVIOUS
  <2>2. \A i \in 0 .. n : f[i] = only[i]
    BY <1>2, <2>1 DEF SelectsAt
  <2>3. f = [i \in 0 .. n |-> f[i]]
    BY <2>1
  <2>4. f = only
    BY <1>2, <2>2, <2>3
  <2> QED BY <2>1, <2>4 DEF Selects
<1> QED BY <1>1, <1>2

LEMMA OnlyChosen ==
    ASSUME NEW p, NEW types
    PROVE  Only(p, types) = (CHOOSE only : Selects(p, types, Len(p), only))[Len(p)]
BY DEF Only, Selects

LEMMA SelectsTyped ==
    ASSUME NEW S, NEW p \in Seq(S), NEW types, NEW n \in 0 .. Len(p), NEW only, Selects(p, types, n, only)
    PROVE  only \in [0 .. n -> Seq(S)]
<1> DEFINE Bad == {i \in 0 .. n : only[i] \notin Seq(S)}
<1>1. ASSUME Bad # {} PROVE FALSE
  <2>1. Bad \in SUBSET Nat
    OBVIOUS
  <2>2. PICK i \in Bad : \A j \in Bad : i <= j
    BY <2>1, <1>1, Least
  <2>3. i # 0
    <3>1. <<>> \in Seq(S)
      OBVIOUS
    <3>2. only[0] = <<>>
      BY DEF Selects
    <3> QED BY <3>1, <3>2
  <2>4. only[i - 1] \in Seq(S)
    BY <2>2, <2>3
  <2>5. only[i] = IF p[i].type \in types THEN Append(only[i - 1], p[i]) ELSE only[i - 1]
    BY <2>3 DEF Selects
  <2>6. p[i] \in S
    BY <2>3
  <2>7. Append(only[i - 1], p[i]) \in Seq(S)
    BY <2>4, <2>6
  <2> QED BY <2>4, <2>5, <2>7
<1>2. \A i \in 0 .. n : only[i] \in Seq(S)
  BY <1>1
<1>3. only = [i \in 0 .. n |-> only[i]]
  BY DEF Selects
<1> QED BY <1>2, <1>3

LEMMA SelectsSome ==
    ASSUME NEW S, NEW p \in Seq(S), NEW types
    PROVE  \A n \in 0 .. Len(p) : \E only : Selects(p, types, n, only)
<1> DEFINE Bad == {n \in 0 .. Len(p) : ~\E only : Selects(p, types, n, only)}
<1>1. ASSUME Bad # {} PROVE FALSE
  <2>1. Bad \in SUBSET Nat
    OBVIOUS
  <2>2. PICK n \in Bad : \A m \in Bad : n <= m
    BY <2>1, <1>1, Least
  <2>3. n # 0
    <3>1. Selects(p, types, 0, [i \in 0 .. 0 |-> <<>>])
      BY DEF Selects
    <3> QED BY <3>1
  <2>4. PICK only : Selects(p, types, n - 1, only)
    BY <2>2, <2>3
  <2> DEFINE next == [i \in 0 .. n |-> IF i < n THEN only[i]
                        ELSE IF p[n].type \in types THEN Append(only[n - 1], p[n]) ELSE only[n - 1]]
  <2>5. Selects(p, types, n, next)
    <3>1. ASSUME NEW i \in 0 .. n, i < n PROVE SelectsAt(p, types, i, next)
      <4>1. SelectsAt(p, types, i, only)
        BY <2>3, <2>4, <3>1, SelectsEverywhere
      <4>2. next[i] = only[i] /\ (i # 0 => next[i - 1] = only[i - 1])
        BY <3>1
      <4> HIDE DEF next
      <4> QED BY <4>1, <4>2 DEF SelectsAt
    <3>2. SelectsAt(p, types, n, next)
      <4>1. next[n - 1] = only[n - 1]
        BY <2>3
      <4>2. next[n] = IF p[n].type \in types THEN Append(only[n - 1], p[n]) ELSE only[n - 1]
        OBVIOUS
      <4> HIDE DEF next
      <4> QED BY <4>1, <4>2, <2>3 DEF SelectsAt
    <3>3. next = [i \in 0 .. n |-> next[i]]
      OBVIOUS
    <3> HIDE DEF next
    <3>4. \A i \in 0 .. n : SelectsAt(p, types, i, next)
      BY <3>1, <3>2
    <3> QED BY <3>3, <3>4, SelectsEverywhere
  <2> QED BY <2>5
<1> QED BY <1>1

LEMMA SelectsAgree ==
    ASSUME NEW S, NEW p \in Seq(S), NEW q \in Seq(S), NEW types, NEW only, NEW more,
           NEW n \in 0 .. Len(p), NEW m \in 0 .. Len(q), n <= m, \A i \in 1 .. n : p[i] = q[i],
           Selects(p, types, n, only), Selects(q, types, m, more)
    PROVE  \A i \in 0 .. n : only[i] = more[i]
<1> DEFINE Bad == {i \in 0 .. n : only[i] # more[i]}
<1>1. ASSUME Bad # {} PROVE FALSE
  <2>1. Bad \in SUBSET Nat
    OBVIOUS
  <2>2. PICK i \in Bad : \A j \in Bad : i <= j
    BY <2>1, <1>1, Least
  <2>3. SelectsAt(p, types, i, only) /\ SelectsAt(q, types, i, more)
    BY SelectsEverywhere
  <2>4. i # 0
    BY <2>2, <2>3 DEF SelectsAt
  <2>5. only[i - 1] = more[i - 1]
    BY <2>2, <2>4
  <2>6. p[i] = q[i]
    BY <2>4
  <2> QED BY <2>2, <2>3, <2>4, <2>5, <2>6 DEF SelectsAt
<1> QED BY <1>1

(* The recursion of Only: its value for no entries and for one more.       *)
LEMMA OnlyEmpty ==
    ASSUME NEW types
    PROVE  Only(<<>>, types) = <<>>
<1>1. <<>> \in Seq({}) /\ Len(<<>>) = 0
  OBVIOUS
<1>2. \E only : Selects(<<>>, types, 0, only)
  <2>1. 0 \in 0 .. Len(<<>>)
    BY <1>1
  <2> QED BY <1>1, <2>1, SelectsSome
<1>3. Selects(<<>>, types, 0, CHOOSE only : Selects(<<>>, types, 0, only))
  BY <1>2
<1>4. (CHOOSE only : Selects(<<>>, types, 0, only))[0] = <<>>
  BY <1>3 DEF Selects
<1> QED BY <1>1, <1>4, OnlyChosen

LEMMA OnlyTyped ==
    ASSUME NEW S, NEW p \in Seq(S), NEW types
    PROVE  Only(p, types) \in Seq(S)
<1>0. Len(p) \in 0 .. Len(p)
  OBVIOUS
<1>1. Selects(p, types, Len(p), CHOOSE only : Selects(p, types, Len(p), only))
  <2>1. \E only : Selects(p, types, Len(p), only)
    BY <1>0, SelectsSome
  <2> QED BY <2>1
<1>2. PICK only : only = CHOOSE f : Selects(p, types, Len(p), f)
  OBVIOUS
<1>3. only \in [0 .. Len(p) -> Seq(S)]
  BY <1>0, <1>1, <1>2, SelectsTyped
<1>4. only[Len(p)] \in Seq(S)
  BY <1>0, <1>3
<1> QED BY <1>2, <1>4, OnlyChosen

LEMMA OnlyAppend ==
    ASSUME NEW S, NEW p \in Seq(S), NEW e \in S, NEW types
    PROVE  Only(Append(p, e), types) =
               IF e.type \in types THEN Append(Only(p, types), e) ELSE Only(p, types)
<1> DEFINE q == Append(p, e)
<1>1. q \in Seq(S) /\ Len(q) = Len(p) + 1 /\ q[Len(q)] = e /\ \A i \in 1 .. Len(p) : p[i] = q[i]
  OBVIOUS
<1> HIDE DEF q
<1>2. Len(p) \in 0 .. Len(p) /\ Len(q) \in 0 .. Len(q) /\ Len(p) <= Len(q) /\ Len(p) \in 0 .. Len(q) /\ Len(q) # 0
  BY <1>1
<1>3. PICK only : only = CHOOSE f : Selects(p, types, Len(p), f)
  OBVIOUS
<1>4. PICK more : more = CHOOSE f : Selects(q, types, Len(q), f)
  OBVIOUS
<1>5. Selects(p, types, Len(p), only) /\ Selects(q, types, Len(q), more)
  BY <1>1, <1>2, <1>3, <1>4, SelectsSome
<1>6. only[Len(p)] = more[Len(p)]
  BY <1>1, <1>2, <1>5, SelectsAgree
<1>7. more[Len(q)] = IF q[Len(q)].type \in types THEN Append(more[Len(q) - 1], q[Len(q)]) ELSE more[Len(q) - 1]
  BY <1>2, <1>5 DEF Selects
<1>8. Only(p, types) = only[Len(p)] /\ Only(q, types) = more[Len(q)]
  BY <1>3, <1>4, OnlyChosen
<1>9. Len(q) - 1 = Len(p)
  BY <1>1
<1> QED BY <1>1, <1>6, <1>7, <1>8, <1>9 DEF q

LEMMA AllButLast ==
    ASSUME NEW S, NEW p \in Seq(S), p # <<>>
    PROVE  \E q \in Seq(S), e \in S :
               /\ p = Append(q, e) /\ Len(p) = Len(q) + 1 /\ p[Len(p)] = e
               /\ \A i \in 1 .. Len(q) : p[i] = q[i]
<1>1. Len(p) \in Nat /\ Len(p) # 0
  OBVIOUS
<1>2. PICK q : q = [i \in 1 .. Len(p) - 1 |-> p[i]]
  OBVIOUS
<1>3. q \in Seq(S) /\ Len(q) = Len(p) - 1
  BY <1>1, <1>2
<1>4. p[Len(p)] \in S
  BY <1>1
<1>5. Append(q, p[Len(p)]) \in Seq(S) /\ Len(Append(q, p[Len(p)])) = Len(p)
  BY <1>1, <1>3, <1>4
<1>6. \A i \in 1 .. Len(p) : Append(q, p[Len(p)])[i] = p[i]
  BY <1>1, <1>2, <1>3, <1>4
<1>7. p = Append(q, p[Len(p)])
  BY <1>5, <1>6, SeqEqual
<1> QED BY <1>1, <1>2, <1>3, <1>4, <1>7

(* Where the selected entries were.                                        *)
PlacedBy(p, types, r, at) ==
    /\ at \in [1 .. Len(r) -> 1 .. Len(p)]
    /\ \A k \in 1 .. Len(r) : r[k] = p[at[k]] /\ p[at[k]].type \in types
    /\ \A k, l \in 1 .. Len(r) : k < l => at[k] < at[l]
    /\ \A i \in 1 .. Len(p) : p[i].type \in types => \E k \in 1 .. Len(r) : at[k] = i

LEMMA OnlyPlaces ==
    ASSUME NEW S, NEW types
    PROVE  \A p \in Seq(S) : \E at : PlacedBy(p, types, Only(p, types), at)
<1> DEFINE Bad == {n \in Nat : \E p \in Seq(S) : Len(p) = n /\ ~\E at : PlacedBy(p, types, Only(p, types), at)}
<1>1. ASSUME Bad # {} PROVE FALSE
  <2>1. Bad \in SUBSET Nat
    OBVIOUS
  <2>2. PICK n \in Bad : \A m \in Bad : n <= m
    BY <2>1, <1>1, Least
  <2>3. PICK p \in Seq(S) : Len(p) = n /\ ~\E at : PlacedBy(p, types, Only(p, types), at)
    BY <2>2
  <2>4. CASE n = 0
    <3>1. p = <<>>
      BY <2>3, <2>4
    <3>2. Only(p, types) = <<>>
      BY <3>1, OnlyEmpty
    <3>3. PlacedBy(p, types, <<>>, <<>>)
      BY <3>1 DEF PlacedBy
    <3> QED BY <2>3, <3>2, <3>3
  <2>5. CASE n # 0
    <3>0. p # <<>>
      BY <2>3, <2>5
    <3>1. PICK q \in Seq(S), e \in S :
              /\ p = Append(q, e) /\ Len(p) = Len(q) + 1 /\ p[Len(p)] = e
              /\ \A i \in 1 .. Len(q) : p[i] = q[i]
      BY <3>0, AllButLast
    <3>2. /\ Len(q) = n - 1 /\ Len(q) \in Nat /\ Len(p) = Len(q) + 1
          /\ p[Len(p)] = e /\ \A i \in 1 .. Len(q) : p[i] = q[i]
      BY <2>3, <3>1
    <3>3. PICK at : PlacedBy(q, types, Only(q, types), at)
      BY <2>2, <2>5, <3>2
    <3>4. PICK r \in Seq(S) : r = Only(q, types)
      BY OnlyTyped
    <3>5. Only(p, types) = IF e.type \in types THEN Append(r, e) ELSE r
      BY <3>1, <3>4, OnlyAppend
    <3>6. PlacedBy(q, types, r, at)
      BY <3>3, <3>4
    <3>7. CASE e.type \notin types
      <4>1. PlacedBy(p, types, r, at)
        <5>1. at \in [1 .. Len(r) -> 1 .. Len(p)]
          BY <3>2, <3>6 DEF PlacedBy
        <5>2. \A k \in 1 .. Len(r) : at[k] \in 1 .. Len(q)
          BY <3>6 DEF PlacedBy
        <5>3. \A k \in 1 .. Len(r) : r[k] = p[at[k]] /\ p[at[k]].type \in types
          BY <3>2, <3>6, <5>2 DEF PlacedBy
        <5>4. ASSUME NEW i \in 1 .. Len(p), p[i].type \in types PROVE \E k \in 1 .. Len(r) : at[k] = i
          <6>1. i # Len(p)
            BY <3>2, <3>7, <5>4
          <6>2. i \in 1 .. Len(q)
            BY <3>2, <6>1
          <6>3. q[i].type \in types
            BY <3>2, <5>4, <6>2
          <6> QED BY <3>6, <6>2, <6>3 DEF PlacedBy
        <5>5. \A k, l \in 1 .. Len(r) : k < l => at[k] < at[l]
          BY <3>6 DEF PlacedBy
        <5> QED BY <5>1, <5>3, <5>4, <5>5 DEF PlacedBy
      <4> QED BY <2>3, <3>5, <3>7, <4>1
    <3>8. CASE e.type \in types
      <4>0. Append(r, e) \in Seq(S)
        OBVIOUS
      <4>1. PICK s \in Seq(S) : s = Append(r, e)
        BY <4>0
      <4>2. Len(s) = Len(r) + 1 /\ s[Len(s)] = e /\ \A i \in 1 .. Len(r) : s[i] = r[i]
        BY <3>4, <4>1
      <4>3. PICK more : more = [k \in 1 .. Len(s) |-> IF k <= Len(r) THEN at[k] ELSE Len(p)]
        OBVIOUS
      <4>4. PlacedBy(p, types, s, more)
        <5>1. more \in [1 .. Len(s) -> 1 .. Len(p)]
          BY <3>2, <3>6, <4>2, <4>3 DEF PlacedBy
        <5>2. \A k \in 1 .. Len(s) : s[k] = p[more[k]] /\ p[more[k]].type \in types
          <6>1. ASSUME NEW k \in 1 .. Len(s), k <= Len(r) PROVE s[k] = p[more[k]] /\ p[more[k]].type \in types
            <7>1. k \in 1 .. Len(r)
              BY <6>1, <3>4
            <7>2. r[k] = q[at[k]] /\ q[at[k]].type \in types /\ at[k] \in 1 .. Len(q)
              BY <3>6, <7>1 DEF PlacedBy
            <7> QED BY <3>2, <4>2, <4>3, <6>1, <7>1, <7>2
          <6>2. ASSUME NEW k \in 1 .. Len(s), ~(k <= Len(r)) PROVE s[k] = p[more[k]] /\ p[more[k]].type \in types
            <7>1. k = Len(s)
              BY <3>4, <4>2, <6>2
            <7>2. more[k] = Len(p)
              BY <4>3, <6>2
            <7> QED BY <3>2, <3>8, <4>2, <7>1, <7>2
          <6> QED BY <6>1, <6>2
        <5>3. \A k, l \in 1 .. Len(s) : k < l => more[k] < more[l]
          <6>1. ASSUME NEW k \in 1 .. Len(s), NEW l \in 1 .. Len(s), k < l, l <= Len(r)
                PROVE  more[k] < more[l]
            <7>1. k \in 1 .. Len(r) /\ l \in 1 .. Len(r) /\ k <= Len(r)
              BY <3>4, <6>1
            <7>2. at[k] < at[l]
              BY <3>6, <6>1, <7>1 DEF PlacedBy
            <7> QED BY <4>3, <6>1, <7>1, <7>2
          <6>2. ASSUME NEW k \in 1 .. Len(s), NEW l \in 1 .. Len(s), k < l, ~(l <= Len(r))
                PROVE  more[k] < more[l]
            <7>1. k \in 1 .. Len(r) /\ k <= Len(r)
              BY <3>4, <4>2, <6>2
            <7>2. at[k] \in 1 .. Len(q)
              BY <3>6, <7>1 DEF PlacedBy
            <7>3. more[k] = at[k] /\ more[l] = Len(p)
              BY <4>3, <6>2, <7>1
            <7> QED BY <3>2, <7>2, <7>3
          <6> QED BY <6>1, <6>2
        <5>4. ASSUME NEW i \in 1 .. Len(p), p[i].type \in types PROVE \E k \in 1 .. Len(s) : more[k] = i
          <6>1. CASE i = Len(p)
            BY <4>2, <4>3, <6>1
          <6>2. CASE i # Len(p)
            <7>1. PICK k \in 1 .. Len(r) : at[k] = i
              <8>1. i \in 1 .. Len(q)
                BY <3>2, <6>2
              <8>2. q[i].type \in types
                BY <3>2, <5>4, <8>1
              <8> QED BY <3>6, <8>1, <8>2 DEF PlacedBy
            <7> QED BY <4>2, <4>3, <7>1
          <6> QED BY <6>1, <6>2
        <5> QED BY <5>1, <5>2, <5>3, <5>4 DEF PlacedBy
      <4> QED BY <2>3, <3>5, <3>8, <4>1, <4>4
    <3> QED BY <3>7, <3>8
  <2> QED BY <2>4, <2>5
<1>2. \A p \in Seq(S) : Len(p) \in Nat
  OBVIOUS
<1> QED BY <1>1, <1>2

(* Nothing is lost when every entry is of the types.                       *)
LEMMA OnlyAll ==
    ASSUME NEW S, NEW types
    PROVE  \A p \in Seq(S) : (\A i \in 1 .. Len(p) : p[i].type \in types) => Only(p, types) = p
<1> DEFINE Bad == {n \in Nat : \E p \in Seq(S) :
                      Len(p) = n /\ (\A i \in 1 .. Len(p) : p[i].type \in types) /\ Only(p, types) # p}
<1>1. ASSUME Bad # {} PROVE FALSE
  <2>1. Bad \in SUBSET Nat
    OBVIOUS
  <2>2. PICK n \in Bad : \A m \in Bad : n <= m
    BY <2>1, <1>1, Least
  <2>3. PICK p \in Seq(S) : Len(p) = n /\ (\A i \in 1 .. Len(p) : p[i].type \in types) /\ Only(p, types) # p
    BY <2>2
  <2>4. n # 0
    BY <2>3, OnlyEmpty
  <2>50. p # <<>>
    BY <2>3, <2>4
  <2>5. PICK q \in Seq(S), e \in S :
            /\ p = Append(q, e) /\ Len(p) = Len(q) + 1 /\ p[Len(p)] = e
            /\ \A i \in 1 .. Len(q) : p[i] = q[i]
    BY <2>50, AllButLast
  <2>6. Len(q) = n - 1 /\ p[n] = e /\ \A i \in 1 .. Len(q) : p[i] = q[i]
    BY <2>3, <2>5
  <2>7. (n - 1) \notin Bad /\ n - 1 \in Nat
    BY <2>2, <2>4
  <2>8. \A i \in 1 .. Len(q) : q[i].type \in types
    BY <2>3, <2>6
  <2>9. Only(q, types) = q
    BY <2>6, <2>7, <2>8
  <2>10. e.type \in types
    BY <2>3, <2>4, <2>6
  <2> QED BY <2>3, <2>5, <2>9, <2>10, OnlyAppend
<1>2. \A p \in Seq(S) : Len(p) \in Nat
  OBVIOUS
<1> QED BY <1>1, <1>2
---------------------------------------------------------------------------
(* The entries of a session form a tree: an id belongs to one entry, and   *)
(* parents are older.                                                      *)
Entered(ls) == {e \in Range(ls) : IsEntry(e)}

Tree(ls) ==
    \A e \in Entered(ls) :
        /\ e \in Lines /\ e.id \in 1 .. MaxEntries
        /\ e.parent = 0 \/ (e.parent \in Ids(ls) /\ e.parent < e.id)
        /\ \A d \in Entered(ls) : d.id = e.id => d = e

LEMMA IdsEntered ==
    ASSUME NEW ls
    PROVE  Ids(ls) = {e.id : e \in Entered(ls)}
BY DEF Ids, Entered

LEMMA EntryIs ==
    ASSUME NEW ls, Tree(ls), NEW e \in Entered(ls)
    PROVE  Entry(ls, e.id) = e /\ e.id \in Ids(ls) /\ e.id \in 1 .. MaxEntries
<1>1. \A d \in Range(ls) : IsEntry(d) /\ d.id = e.id => d = e
  BY DEF Tree, Entered
<1>2. e \in Range(ls) /\ IsEntry(e)
  BY DEF Entered
<1>3. Entry(ls, e.id) = e
  BY <1>1, <1>2 DEF Entry
<1> QED BY <1>3, IdsEntered DEF Tree

LEMMA EntryOf ==
    ASSUME NEW ls, Tree(ls), NEW i \in Ids(ls)
    PROVE  Entry(ls, i) \in Entered(ls) /\ Entry(ls, i).id = i /\ i \in 1 .. MaxEntries
<1>1. PICK e \in Entered(ls) : e.id = i
  BY IdsEntered
<1> QED BY <1>1, EntryIs

(* What Branch computes, up to the id n.                                   *)
ClimbsAt(ls, i, path) ==
    path[i] = IF i = 0 \/ i \notin Ids(ls) THEN <<>> ELSE Append(path[Entry(ls, i).parent], Entry(ls, i))

Climbs(ls, n, path) ==
    path = [i \in 0 .. n |-> IF i = 0 \/ i \notin Ids(ls) THEN <<>>
                             ELSE Append(path[Entry(ls, i).parent], Entry(ls, i))]

LEMMA ClimbsEverywhere ==
    ASSUME NEW ls, NEW n \in Nat, NEW path
    PROVE  /\ Climbs(ls, n, path) => \A i \in 0 .. n : ClimbsAt(ls, i, path)
           /\ (path = [i \in 0 .. n |-> path[i]] /\ \A i \in 0 .. n : ClimbsAt(ls, i, path))
              => Climbs(ls, n, path)
<1>1. ASSUME Climbs(ls, n, path), NEW i \in 0 .. n PROVE ClimbsAt(ls, i, path)
  BY <1>1 DEF Climbs, ClimbsAt
<1>2. ASSUME path = [i \in 0 .. n |-> path[i]], \A i \in 0 .. n : ClimbsAt(ls, i, path)
      PROVE  Climbs(ls, n, path)
  <2>1. PICK f : f = [i \in 0 .. n |-> IF i = 0 \/ i \notin Ids(ls) THEN <<>>
                                       ELSE Append(path[Entry(ls, i).parent], Entry(ls, i))]
    OBVIOUS
  <2>2. \A i \in 0 .. n : f[i] = path[i]
    BY <1>2, <2>1 DEF ClimbsAt
  <2>3. f = [i \in 0 .. n |-> f[i]]
    BY <2>1
  <2>4. f = path
    BY <1>2, <2>2, <2>3
  <2> QED BY <2>1, <2>4 DEF Climbs
<1> QED BY <1>1, <1>2

LEMMA BranchChosen ==
    ASSUME NEW ls, NEW id
    PROVE  Branch(ls, id) = (CHOOSE path : Climbs(ls, MaxEntries, path))[id]
BY DEF Branch, Climbs

LEMMA ParentOlder ==
    ASSUME NEW ls, Tree(ls), NEW i \in Ids(ls)
    PROVE  Entry(ls, i).parent \in 0 .. i - 1 /\ Entry(ls, i).parent \in Ids(ls) \cup {0}
<1>1. Entry(ls, i) \in Entered(ls) /\ Entry(ls, i).id = i /\ i \in 1 .. MaxEntries
  BY EntryOf
<1>2. PICK e \in Entered(ls) : e = Entry(ls, i)
  BY <1>1
<1>3. e.parent = 0 \/ (e.parent \in Ids(ls) /\ e.parent < e.id)
  BY DEF Tree
<1>4. e \in Lines
  BY DEF Tree
<1>5. e.parent \in Nat
  BY <1>4 DEF Lines
<1> QED BY <1>1, <1>2, <1>3, <1>5

LEMMA ClimbsSome ==
    ASSUME NEW ls, Tree(ls)
    PROVE  \A n \in Nat : \E path : Climbs(ls, n, path)
<1> DEFINE Bad == {n \in Nat : ~\E path : Climbs(ls, n, path)}
<1>1. ASSUME Bad # {} PROVE FALSE
  <2>1. Bad \in SUBSET Nat
    OBVIOUS
  <2>2. PICK n \in Bad : \A m \in Bad : n <= m
    BY <2>1, <1>1, Least
  <2>3. n # 0
    <3>1. Climbs(ls, 0, [i \in 0 .. 0 |-> <<>>])
      BY DEF Climbs
    <3> QED BY <3>1
  <2>4. PICK path : Climbs(ls, n - 1, path)
    BY <2>2, <2>3
  <2>5. PICK step : step = IF n \notin Ids(ls) THEN <<>> ELSE Append(path[Entry(ls, n).parent], Entry(ls, n))
    OBVIOUS
  <2> DEFINE next == [i \in 0 .. n |-> IF i < n THEN path[i] ELSE step]
  <2>6. Climbs(ls, n, next)
    <3>1. ASSUME NEW i \in 0 .. n, i < n PROVE ClimbsAt(ls, i, next)
      <4>1. ClimbsAt(ls, i, path)
        BY <2>3, <2>4, <3>1, ClimbsEverywhere
      <4>2. next[i] = path[i]
        BY <3>1
      <4>3. ASSUME i \in Ids(ls) PROVE next[Entry(ls, i).parent] = path[Entry(ls, i).parent]
        <5>1. Entry(ls, i).parent \in 0 .. i - 1
          BY <4>3, ParentOlder
        <5> QED BY <3>1, <5>1
      <4> HIDE DEF next
      <4> QED BY <4>1, <4>2, <4>3 DEF ClimbsAt
    <3>2. ClimbsAt(ls, n, next)
      <4>1. ASSUME n \in Ids(ls) PROVE next[Entry(ls, n).parent] = path[Entry(ls, n).parent]
        <5>1. Entry(ls, n).parent \in 0 .. n - 1
          BY <4>1, ParentOlder
        <5> QED BY <5>1
      <4>2. next[n] = step
        OBVIOUS
      <4> HIDE DEF next
      <4> QED BY <2>3, <2>5, <4>1, <4>2 DEF ClimbsAt
    <3>3. next = [i \in 0 .. n |-> next[i]]
      OBVIOUS
    <3> HIDE DEF next
    <3>4. \A i \in 0 .. n : ClimbsAt(ls, i, next)
      BY <3>1, <3>2
    <3> QED BY <3>3, <3>4, ClimbsEverywhere
  <2> QED BY <2>6
<1> QED BY <1>1

(* The recursion of Branch: the root, and one entry more.                  *)
LEMMA BranchAt ==
    ASSUME NEW ls, Tree(ls), NEW i \in 0 .. MaxEntries
    PROVE  Branch(ls, i) = IF i = 0 \/ i \notin Ids(ls) THEN <<>>
                           ELSE Append(Branch(ls, Entry(ls, i).parent), Entry(ls, i))
<1>1. MaxEntries \in Nat
  BY BoundsAssumption
<1>2. PICK path : path = CHOOSE f : Climbs(ls, MaxEntries, f)
  OBVIOUS
<1>3. Climbs(ls, MaxEntries, path)
  BY <1>1, <1>2, ClimbsSome
<1>4. ClimbsAt(ls, i, path)
  BY <1>1, <1>3, ClimbsEverywhere
<1>5. \A id : Branch(ls, id) = path[id]
  BY <1>2, BranchChosen
<1> QED BY <1>4, <1>5 DEF ClimbsAt

LEMMA BranchStep ==
    ASSUME NEW ls, Tree(ls)
    PROVE  /\ Branch(ls, 0) = <<>>
           /\ \A e \in Entered(ls) : Branch(ls, e.id) = Append(Branch(ls, e.parent), e)
<1>1. 0 \in 0 .. MaxEntries
  BY BoundsAssumption
<1>2. ASSUME NEW e \in Entered(ls) PROVE Branch(ls, e.id) = Append(Branch(ls, e.parent), e)
  <2>1. Entry(ls, e.id) = e /\ e.id \in Ids(ls) /\ e.id \in 1 .. MaxEntries
    BY EntryIs
  <2>2. PICK i \in 0 .. MaxEntries : i = e.id /\ i # 0
    BY <2>1
  <2>3. Branch(ls, i) = Append(Branch(ls, Entry(ls, i).parent), Entry(ls, i))
    BY <2>1, <2>2, BranchAt
  <2> QED BY <2>1, <2>2, <2>3
<1> QED BY <1>1, <1>2, BranchAt

LEMMA BranchTyped ==
    ASSUME NEW ls, Tree(ls), NEW id \in Ids(ls) \cup {0}
    PROVE  Branch(ls, id) \in Seq(Entered(ls)) /\ Branch(ls, id) \in Seq(Lines)
<1> DEFINE Bad == {i \in Ids(ls) \cup {0} : Branch(ls, i) \notin Seq(Entered(ls)) \/ Branch(ls, i) \notin Seq(Lines)}
<1>1. ASSUME Bad # {} PROVE FALSE
  <2>1. Bad \in SUBSET Nat
    <3>1. \A i \in Ids(ls) : i \in Nat
      BY EntryOf
    <3> QED BY <3>1
  <2>2. PICK i \in Bad : \A j \in Bad : i <= j
    BY <2>1, <1>1, Least
  <2>3. i # 0
    <3>1. <<>> \in Seq(Entered(ls)) /\ <<>> \in Seq(Lines)
      OBVIOUS
    <3> QED BY <2>2, <3>1, BranchStep
  <2>4. PICK e \in Entered(ls) : e = Entry(ls, i) /\ e.id = i /\ e \in Lines
    BY <2>2, <2>3, EntryOf DEF Tree
  <2>5. e.parent \in 0 .. i - 1 /\ e.parent \in Ids(ls) \cup {0}
    BY <2>2, <2>3, <2>4, ParentOlder
  <2>6. e.parent \notin Bad
    BY <2>1, <2>2, <2>5
  <2>7. Branch(ls, e.parent) \in Seq(Entered(ls)) /\ Branch(ls, e.parent) \in Seq(Lines)
    BY <2>5, <2>6
  <2>8. Branch(ls, i) = Append(Branch(ls, e.parent), e)
    BY <2>4, BranchStep
  <2>9. Append(Branch(ls, e.parent), e) \in Seq(Entered(ls))
    BY <2>7
  <2>10. Append(Branch(ls, e.parent), e) \in Seq(Lines)
    BY <2>4, <2>7
  <2> QED BY <2>2, <2>8, <2>9, <2>10
<1> QED BY <1>1

(* A branch is the same in every session that has its entries.             *)
LEMMA BranchKept ==
    ASSUME NEW ls, NEW more, Tree(ls), Tree(more), Entered(ls) \subseteq Entered(more)
    PROVE  \A id \in Ids(ls) \cup {0} : Branch(more, id) = Branch(ls, id)
<1> DEFINE Bad == {i \in Ids(ls) \cup {0} : Branch(more, i) # Branch(ls, i)}
<1>1. ASSUME Bad # {} PROVE FALSE
  <2>1. Bad \in SUBSET Nat
    <3>1. \A i \in Ids(ls) : i \in Nat
      BY EntryOf
    <3> QED BY <3>1
  <2>2. PICK i \in Bad : \A j \in Bad : i <= j
    BY <2>1, <1>1, Least
  <2>3. i # 0
    BY <2>2, BranchStep
  <2>4. PICK e \in Entered(ls) : e = Entry(ls, i) /\ e.id = i
    BY <2>2, <2>3, EntryOf
  <2>5. e.parent \in 0 .. i - 1 /\ e.parent \in Ids(ls) \cup {0}
    BY <2>2, <2>3, <2>4, ParentOlder
  <2>6. e.parent \notin Bad
    BY <2>1, <2>2, <2>5
  <2>7. Branch(more, e.parent) = Branch(ls, e.parent)
    BY <2>5, <2>6
  <2>8. Branch(ls, i) = Append(Branch(ls, e.parent), e) /\ Branch(more, i) = Append(Branch(more, e.parent), e)
    BY <2>4, BranchStep
  <2> QED BY <2>2, <2>7, <2>8
<1> QED BY <1>1
---------------------------------------------------------------------------
(* Sequences and what is selected of them.                                 *)
LEMMA RangeOf ==
    ASSUME NEW S, NEW s \in Seq(S)
    PROVE  Range(s) = {s[i] : i \in 1 .. Len(s)} /\ Range(s) \in SUBSET S
<1>1. DOMAIN s = 1 .. Len(s)
  OBVIOUS
<1> QED BY <1>1 DEF Range

(* What is selected was there.                                             *)
LEMMA OnlyWithin ==
    ASSUME NEW S, NEW p \in Seq(S), NEW types
    PROVE  /\ Only(p, types) \in Seq(S)
           /\ Range(Only(p, types)) = {e \in Range(p) : e.type \in types}
<1>1. PICK r \in Seq(S) : r = Only(p, types)
  BY OnlyTyped
<1>2. PICK at : PlacedBy(p, types, r, at)
  BY <1>1, OnlyPlaces
<1>3. Range(r) = {r[k] : k \in 1 .. Len(r)} /\ Range(p) = {p[i] : i \in 1 .. Len(p)}
  BY RangeOf
<1>4. ASSUME NEW k \in 1 .. Len(r) PROVE r[k] \in Range(p) /\ r[k].type \in types
  <2>1. at[k] \in 1 .. Len(p) /\ r[k] = p[at[k]] /\ p[at[k]].type \in types
    BY <1>2 DEF PlacedBy
  <2> QED BY <1>3, <2>1
<1>5. ASSUME NEW i \in 1 .. Len(p), p[i].type \in types PROVE p[i] \in Range(r)
  <2>1. PICK k \in 1 .. Len(r) : at[k] = i
    BY <1>2, <1>5 DEF PlacedBy
  <2>2. r[k] = p[i]
    BY <1>2, <2>1 DEF PlacedBy
  <2> QED BY <1>3, <2>2
<1> QED BY <1>1, <1>3, <1>4, <1>5

LEMMA ConcatIs ==
    ASSUME NEW S, NEW a \in Seq(S), NEW b \in Seq(S)
    PROVE  a \o b \in Seq(S) /\ Len(a \o b) = Len(a) + Len(b) /\ \A i \in 1 .. Len(a) : (a \o b)[i] = a[i]
OBVIOUS
---------------------------------------------------------------------------
(* Positions on a path.                                                    *)
LEMMA MinIn ==
    ASSUME NEW T \in SUBSET Nat, T # {}
    PROVE  Min(T) \in T /\ \A y \in T : Min(T) <= y
<1>1. \E x \in T : \A y \in T : x <= y
  BY Least
<1> QED BY <1>1 DEF Min

LEMMA MaxIn ==
    ASSUME NEW n \in Nat, NEW T \in SUBSET (0 .. n), T # {}
    PROVE  Max(T) \in T /\ \A y \in T : Max(T) >= y
<1>1. PICK U : U = {n - x : x \in T}
  OBVIOUS
<1>2. U \in SUBSET Nat /\ U # {}
  <2>1. \A x \in T : n - x \in Nat
    OBVIOUS
  <2>2. PICK x \in T : TRUE
    OBVIOUS
  <2>3. n - x \in U
    BY <1>1
  <2> QED BY <1>1, <2>1, <2>3
<1>3. PICK m \in U : \A y \in U : m <= y
  BY <1>2, Least
<1>4. PICK x \in T : m = n - x
  BY <1>1, <1>3
<1>5. ASSUME NEW y \in T PROVE x >= y
  <2>1. n - y \in U
    BY <1>1
  <2>2. n - x <= n - y
    BY <1>3, <1>4, <2>1
  <2>3. x \in 0 .. n /\ y \in 0 .. n
    OBVIOUS
  <2> QED BY <2>2, <2>3
<1> QED BY <1>5 DEF Max

LEMMA LatestIs ==
    ASSUME NEW n \in Nat, NEW T \in SUBSET (1 .. n)
    PROVE  /\ LatestOf(T) \in 0 .. n
           /\ T = {} => LatestOf(T) = 0
           /\ T # {} => LatestOf(T) \in T /\ \A y \in T : LatestOf(T) >= y
<1>1. T \in SUBSET (0 .. n)
  OBVIOUS
<1>2. CASE T = {}
  BY <1>2 DEF LatestOf
<1>3. CASE T # {}
  <2>1. Max(T) \in T /\ \A y \in T : Max(T) >= y
    BY <1>1, <1>3, MaxIn
  <2>2. LatestOf(T) = Max(T)
    BY <1>3 DEF LatestOf
  <2>3. LatestOf(T) \in T
    BY <2>1, <2>2
  <2>4. LatestOf(T) \in 0 .. n
    BY <1>1, <2>3
  <2> QED BY <1>3, <2>1, <2>2, <2>3, <2>4
<1> QED BY <1>2, <1>3

LEMMA BoundaryIn ==
    ASSUME NEW p \in Seq(Lines)
    PROVE  LatestCompaction(p) \in 0 .. Len(p) /\ BoundaryStart(p) \in 1 .. Len(p) + 1
<1>1. Len(p) \in Nat /\ DOMAIN p = 1 .. Len(p)
  OBVIOUS
<1>2. Positions(p, 1, Len(p), {"compaction"}) \in SUBSET (1 .. Len(p))
  BY DEF Positions
<1>3. LatestCompaction(p) \in 0 .. Len(p)
  BY <1>1, <1>2, LatestIs DEF LatestCompaction
<1>4. \A id : PositionOf(p, id) \in 0 .. Len(p)
  <2> TAKE id
  <2>1. {i \in DOMAIN p : p[i].id = id} \in SUBSET (1 .. Len(p))
    BY <1>1
  <2> QED BY <1>1, <2>1, LatestIs DEF PositionOf
<1>5. PICK c \in 0 .. Len(p) : c = LatestCompaction(p)
  BY <1>3
<1>6. PICK k \in 0 .. Len(p) : k = PositionOf(p, p[c].target)
  BY <1>4
<1>7. BoundaryStart(p) = IF c = 0 THEN 1 ELSE IF k = 0 THEN c + 1 ELSE k
  BY <1>5, <1>6 DEF BoundaryStart
<1> QED BY <1>1, <1>3, <1>7

LEMMA CutIn ==
    ASSUME NEW p \in Seq(Lines), NEW start \in 1 .. Len(p), NEW keep
    PROVE  FindCutPoint(p, start, keep) \in start .. Len(p)
<1>1. Len(p) \in Nat /\ start \in Nat /\ start >= 1
  OBVIOUS
<1>2. PICK cuts : cuts = Positions(p, start, Len(p), CutTypes)
  OBVIOUS
<1>3. PICK b : b = BudgetStart(p, start, keep)
  OBVIOUS
<1>4. PICK later : later = {c \in cuts : c >= b}
  OBVIOUS
<1>5. cuts \in SUBSET (start .. Len(p)) /\ later \in SUBSET cuts
  BY <1>2, <1>4 DEF Positions
<1>6. FindCutPoint(p, start, keep) =
        IF cuts = {} THEN start ELSE WithSettings(p, start, Min(IF b = 0 \/ later = {} THEN cuts ELSE later))
  BY <1>2, <1>3, <1>4 DEF FindCutPoint
<1>7. CASE cuts # {}
  <2>1. PICK T \in SUBSET cuts : T # {} /\ T = IF b = 0 \/ later = {} THEN cuts ELSE later
    BY <1>5, <1>7
  <2>2. T \in SUBSET Nat /\ T \in SUBSET (start .. Len(p))
    BY <1>1, <1>5
  <2>3. PICK m \in start .. Len(p) : m = Min(T)
    BY <2>1, <2>2, MinIn
  <2>4. PICK U : U = {i \in start .. m : \A j \in i .. m - 1 : ~IsMessage(p[j]) /\ p[j].type # "compaction"}
    OBVIOUS
  <2>5. m \in U
    <3>1. \A j \in m .. m - 1 : FALSE
      BY <2>3
    <3>2. m \in start .. m
      BY <2>3
    <3> QED BY <2>4, <3>1, <3>2
  <2>6. U \in SUBSET (start .. m)
    BY <2>4
  <2>60. U \in SUBSET Nat /\ U # {}
    BY <1>1, <2>5, <2>6
  <2>7. Min(U) \in start .. m
    BY <2>6, <2>60, MinIn
  <2>8. FindCutPoint(p, start, keep) = Min(U)
    BY <1>6, <1>7, <2>1, <2>3, <2>4 DEF WithSettings
  <2> QED BY <2>3, <2>7, <2>8
<1> QED BY <1>6, <1>7

(* Where the history that is summarised ends.                              *)
LEMMA HistoryEndIn ==
    ASSUME NEW p \in Seq(Lines), NEW cut \in BoundaryStart(p) .. Len(p)
    PROVE  HistoryEnd(p, cut) \in BoundaryStart(p) - 1 .. cut - 1
<1>1. PICK s \in 1 .. Len(p) + 1 : s = BoundaryStart(p)
  BY BoundaryIn
<1>2. Len(p) \in Nat /\ cut \in s .. Len(p)
  BY <1>1
<1>3. Positions(p, s, cut, TurnTypes) \in SUBSET (1 .. cut) /\ Positions(p, s, cut, TurnTypes) \in SUBSET (s .. cut)
  BY <1>1, <1>2 DEF Positions
<1>4. cut \in Nat
  BY <1>1, <1>2
<1>5. TurnStart(p, s, cut) \in {0} \cup (s .. cut)
  BY <1>3, <1>4, LatestIs DEF TurnStart
<1>6. HistoryEnd(p, cut) = (IF TurnStart(p, s, cut) = 0 THEN cut ELSE TurnStart(p, s, cut)) - 1
  BY <1>1 DEF HistoryEnd
<1>7. PICK t \in {0} \cup (s .. cut) : t = TurnStart(p, s, cut)
  BY <1>5
<1>8. HistoryEnd(p, cut) = (IF t = 0 THEN cut ELSE t) - 1
  BY <1>6, <1>7
<1> QED BY <1>1, <1>2, <1>8

LEMMA MessageIdsTyped ==
    ASSUME NEW p \in Seq(Lines), NEW from \in Nat, NEW to \in Int, from >= 1, to <= Len(p)
    PROVE  MessageIds(p, from, to) \in SUBSET Nat
<1>1. \A i \in from .. to : i \in 1 .. Len(p)
  OBVIOUS
<1>2. \A i \in 1 .. Len(p) : p[i].id \in Nat
  <2>1. \A i \in 1 .. Len(p) : p[i] \in Lines
    OBVIOUS
  <2> QED BY <2>1 DEF Lines
<1> QED BY <1>1, <1>2 DEF MessageIds

LEMMA ToldTyped ==
    ASSUME NEW p \in Seq(Lines), NEW cut \in BoundaryStart(p) .. Len(p)
    PROVE  Told(p, cut) \in SUBSET Nat /\ p[cut].id \in Nat
<1>1. PICK s \in 1 .. Len(p) + 1 : s = BoundaryStart(p)
  BY BoundaryIn
<1>2. PICK h : h = HistoryEnd(p, cut)
  OBVIOUS
<1>3. h \in s - 1 .. cut - 1
  BY <1>1, <1>2, HistoryEndIn
<1>4. Len(p) \in Nat /\ cut \in 1 .. Len(p)
  BY <1>1
<1>5. h \in Nat /\ h <= Len(p) /\ h + 1 \in Nat /\ h + 1 >= 1 /\ cut - 1 \in Int /\ cut - 1 <= Len(p) /\ s \in Nat /\ s >= 1
  BY <1>1, <1>3, <1>4
<1>6. History(p, cut) \in SUBSET Nat
  BY <1>1, <1>2, <1>5, MessageIdsTyped DEF History
<1>7. MessageIds(p, h + 1, cut - 1) \in SUBSET Nat
  BY <1>5, MessageIdsTyped
<1>8. PICK c \in 0 .. Len(p) : c = LatestCompaction(p)
  BY BoundaryIn
<1>9. \A i \in 1 .. Len(p) : p[i].told \in SUBSET Nat /\ p[i].id \in Nat
  <2>1. \A i \in 1 .. Len(p) : p[i] \in Lines
    OBVIOUS
  <2> QED BY <2>1 DEF Lines
<1>10. PICK previous : previous = IF c = 0 THEN {} ELSE p[c].told
  OBVIOUS
<1>11. previous \in SUBSET Nat
  <2>1. CASE c = 0
    BY <1>10, <2>1
  <2>2. CASE c # 0
    <3>1. c \in 1 .. Len(p)
      BY <1>4, <2>2
    <3> QED BY <1>9, <1>10, <2>2, <3>1
  <2> QED BY <2>1, <2>2
<1>12. PICK prefix : prefix = MessageIds(p, h + 1, cut - 1)
  OBVIOUS
<1>13. Told(p, cut) = IF prefix # {} /\ History(p, cut) = {} THEN prefix ELSE History(p, cut) \cup previous \cup prefix
  BY <1>2, <1>8, <1>10, <1>12 DEF Told
<1> QED BY <1>4, <1>6, <1>7, <1>9, <1>11, <1>12, <1>13
---------------------------------------------------------------------------
(* One more entry at the end.                                              *)
OneMore(p, e, q) ==
    /\ q \in Seq(Lines) /\ Len(p) \in Nat /\ Len(q) = Len(p) + 1 /\ q[Len(p) + 1] = e
    /\ \A i \in 1 .. Len(p) : q[i] = p[i]
Above(p, e) == \A i \in 1 .. Len(p) : p[i].id < e.id

LEMMA AppendGrown ==
    ASSUME NEW p \in Seq(Lines), NEW e \in Lines
    PROVE  OneMore(p, e, Append(p, e))
<1>1. PICK q : q = Append(p, e)
  OBVIOUS
<1>2. q \in Seq(Lines) /\ Len(p) \in Nat /\ Len(q) = Len(p) + 1 /\ q[Len(p) + 1] = e /\ \A i \in 1 .. Len(p) : q[i] = p[i]
  BY <1>1
<1> QED BY <1>1, <1>2 DEF OneMore

LEMMA GrownAt ==
    ASSUME NEW p, NEW e, NEW q, OneMore(p, e, q)
    PROVE  \A i \in 1 .. Len(q) : (i \in 1 .. Len(p) /\ q[i] = p[i]) \/ (i = Len(p) + 1 /\ q[i] = e)
BY DEF OneMore

LEMMA LineTyped ==
    ASSUME NEW p \in Seq(Lines), NEW i \in 1 .. Len(p)
    PROVE  p[i].id \in Nat /\ p[i].target \in Nat /\ p[i].told \in SUBSET Nat /\ p[i] \in Lines
<1>1. p[i] \in Lines
  OBVIOUS
<1> QED BY <1>1 DEF Lines

LEMMA GrownRising ==
    ASSUME NEW p \in Seq(Lines), NEW e \in Lines, NEW q, OneMore(p, e, q), Above(p, e),
           Rising(p), KeepsOlder(p), e.type = "compaction" => e.target < e.id
    PROVE  Rising(q) /\ KeepsOlder(q)
<1>1. Len(p) \in Nat /\ Len(q) = Len(p) + 1
  BY DEF OneMore
<1>2. KeepsOlder(q)
  BY GrownAt DEF KeepsOlder
<1>3. ASSUME NEW i \in 1 .. Len(q), NEW j \in 1 .. Len(q), i < j PROVE q[i].id < q[j].id
  <2>1. i \in 1 .. Len(p) /\ q[i] = p[i]
    BY <1>1, <1>3, GrownAt
  <2>2. CASE j \in 1 .. Len(p) /\ q[j] = p[j]
    BY <1>3, <2>1, <2>2 DEF Rising
  <2>3. CASE j = Len(p) + 1 /\ q[j] = e
    BY <2>1, <2>3 DEF Above
  <2> QED BY <2>2, <2>3, GrownAt
<1> QED BY <1>2, <1>3 DEF Rising

(* The results before stay where they are.                                 *)
LEMMA GrownFollow ==
    ASSUME NEW p \in Seq(Lines), NEW e \in Lines, NEW q, OneMore(p, e, q), ResultsFollow(p),
           e.type = "toolResult" => \E j \in 1 .. Len(p) : Behind(q, Len(p) + 1, j)
    PROVE  ResultsFollow(q)
<1>1. Len(p) \in Nat /\ Len(q) = Len(p) + 1 /\ \A i \in 1 .. Len(p) : q[i] = p[i]
  BY DEF OneMore
<1> SUFFICES ASSUME NEW i \in 1 .. Len(q), q[i].type = "toolResult" PROVE \E j \in 1 .. i - 1 : Behind(q, i, j)
  BY DEF ResultsFollow
<1>2. CASE i \in 1 .. Len(p) /\ q[i] = p[i]
  <2>1. PICK j \in 1 .. i - 1 : Behind(p, i, j)
    BY <1>2 DEF ResultsFollow
  <2>2. \A m \in j .. i - 1 : q[m] = p[m]
    BY <1>1, <1>2
  <2>3. Behind(q, i, j)
    BY <2>1, <2>2 DEF Behind
  <2> QED BY <2>3
<1>3. CASE i = Len(p) + 1 /\ q[i] = e
  <2>1. PICK j \in 1 .. Len(p) : Behind(q, Len(p) + 1, j)
    BY <1>3
  <2> QED BY <1>1, <1>3, <2>1
<1> QED BY <1>2, <1>3, GrownAt
---------------------------------------------------------------------------
(* Where what a compaction keeps begins.                                   *)
LEMMA LatestCompactionIs ==
    ASSUME NEW p \in Seq(Lines)
    PROVE  /\ LatestCompaction(p) \in 0 .. Len(p)
           /\ LatestCompaction(p) = 0 => \A i \in 1 .. Len(p) : p[i].type # "compaction"
           /\ LatestCompaction(p) # 0 => /\ p[LatestCompaction(p)].type = "compaction"
                                         /\ \A i \in LatestCompaction(p) + 1 .. Len(p) : p[i].type # "compaction"
<1>1. Len(p) \in Nat
  OBVIOUS
<1>2. PICK T \in SUBSET (1 .. Len(p)) : T = Positions(p, 1, Len(p), {"compaction"})
  BY DEF Positions
<1>3. \A i \in 1 .. Len(p) : i \in T <=> p[i].type = "compaction"
  BY <1>2 DEF Positions
<1>4. PICK c : c = LatestOf(T)
  OBVIOUS
<1>5. c \in 0 .. Len(p) /\ (T = {} => c = 0) /\ (T # {} => c \in T /\ \A y \in T : c >= y)
  BY <1>1, <1>4, LatestIs
<1>6. c = LatestCompaction(p)
  BY <1>2, <1>4 DEF LatestCompaction
<1>7. c = 0 => T = {}
  BY <1>5
<1>8. c # 0 => c \in T /\ \A i \in c + 1 .. Len(p) : i \notin T
  BY <1>1, <1>5
<1> QED BY <1>1, <1>3, <1>5, <1>6, <1>7, <1>8

LEMMA PositionIs ==
    ASSUME NEW p \in Seq(Lines), NEW id
    PROVE  /\ PositionOf(p, id) \in 0 .. Len(p)
           /\ PositionOf(p, id) # 0 => p[PositionOf(p, id)].id = id
<1>1. Len(p) \in Nat /\ DOMAIN p = 1 .. Len(p)
  OBVIOUS
<1>2. PICK T \in SUBSET (1 .. Len(p)) : T = {i \in DOMAIN p : p[i].id = id}
  BY <1>1
<1>3. PICK k : k = LatestOf(T)
  OBVIOUS
<1>4. k \in 0 .. Len(p) /\ (T = {} => k = 0) /\ (T # {} => k \in T)
  BY <1>1, <1>3, LatestIs
<1>5. k = PositionOf(p, id)
  BY <1>2, <1>3 DEF PositionOf
<1> QED BY <1>2, <1>4, <1>5

(* What is kept begins before the compaction, or behind it.                *)
LEMMA BoundaryIs ==
    ASSUME NEW p \in Seq(Lines), Rising(p), KeepsOlder(p), NEW c, c = LatestCompaction(p),
           NEW k, k = PositionOf(p, p[c].target)
    PROVE  /\ c = 0 => BoundaryStart(p) = 1
           /\ c # 0 /\ k = 0 => BoundaryStart(p) = c + 1
           /\ c # 0 /\ k # 0 => BoundaryStart(p) = k /\ k \in 1 .. c - 1
<1>1. c \in 0 .. Len(p) /\ (c # 0 => p[c].type = "compaction") /\ Len(p) \in Nat
  BY LatestCompactionIs
<1>2. k \in 0 .. Len(p) /\ (k # 0 => p[k].id = p[c].target)
  BY PositionIs
<1>3. BoundaryStart(p) = IF c = 0 THEN 1 ELSE IF k = 0 THEN c + 1 ELSE k
  BY DEF BoundaryStart
<1>4. ASSUME c # 0, k # 0 PROVE k \in 1 .. c - 1
  <2>1. c \in 1 .. Len(p) /\ k \in 1 .. Len(p)
    BY <1>1, <1>2, <1>4
  <2>2. p[k].id < p[c].id
    BY <1>1, <1>2, <1>4, <2>1 DEF KeepsOlder
  <2>3. p[k].id \in Nat /\ p[c].id \in Nat
    BY <2>1, LineTyped
  <2>4. ~(c < k) /\ c # k
    BY <2>1, <2>2, <2>3 DEF Rising
  <2> QED BY <2>1, <2>4
<1> QED BY <1>3, <1>4

(* An entry that is no compaction leaves the boundary where it is.         *)
LEMMA GrownBoundary ==
    ASSUME NEW p \in Seq(Lines), NEW e \in Lines, NEW q, OneMore(p, e, q), Above(p, e),
           Rising(p), KeepsOlder(p), e.type # "compaction"
    PROVE  BoundaryStart(q) = BoundaryStart(p)
<1>1. /\ q \in Seq(Lines) /\ Len(p) \in Nat /\ Len(q) = Len(p) + 1 /\ q[Len(p) + 1] = e
      /\ \A i \in 1 .. Len(p) : q[i] = p[i]
  BY DEF OneMore
<1>2. DOMAIN p = 1 .. Len(p) /\ DOMAIN q = 1 .. Len(q)
  BY <1>1
<1>3. Positions(q, 1, Len(q), {"compaction"}) = Positions(p, 1, Len(p), {"compaction"})
  BY <1>1 DEF Positions
<1>4. LatestCompaction(q) = LatestCompaction(p)
  BY <1>3 DEF LatestCompaction
<1>5. PICK c \in 0 .. Len(p) : c = LatestCompaction(p) /\ (c # 0 => p[c].type = "compaction")
  BY LatestCompactionIs
<1>6. CASE c = 0
  BY <1>4, <1>5, <1>6 DEF BoundaryStart
<1>7. CASE c # 0
  <2>1. c \in 1 .. Len(p) /\ q[c] = p[c]
    BY <1>1, <1>5, <1>7
  <2>2. PICK t : t = p[c].target
    OBVIOUS
  <2>3. t < p[c].id /\ p[c].id < e.id
    BY <1>5, <1>7, <2>1, <2>2 DEF KeepsOlder, Above
  <2>4. t \in Nat /\ p[c].id \in Nat /\ e.id \in Nat
    <3>1. e.id \in Nat
      BY DEF Lines
    <3> QED BY <2>1, <2>2, <3>1, LineTyped
  <2>5. e.id # t
    BY <2>3, <2>4
  <2>6. {i \in DOMAIN q : q[i].id = t} = {i \in DOMAIN p : p[i].id = t}
    BY <1>1, <1>2, <2>5
  <2>7. PositionOf(q, t) = PositionOf(p, t)
    BY <2>6 DEF PositionOf
  <2> QED BY <1>4, <1>5, <1>7, <2>1, <2>2, <2>7 DEF BoundaryStart
<1> QED BY <1>6, <1>7

LEMMA GrownTold ==
    ASSUME NEW p, NEW e, NEW q, OneMore(p, e, q), NEW to \in 1 .. Len(p) + 1, ToldBefore(p, to)
    PROVE  ToldBefore(q, to)
<1>1. Len(p) \in Nat /\ Len(q) = Len(p) + 1 /\ \A i \in 1 .. Len(p) : q[i] = p[i]
  BY DEF OneMore
<1>2. ASSUME NEW i \in 1 .. to - 1, IsMessageOrSummary(q[i]) PROVE TellsOf(q, q[i].id)
  <2>1. i \in 1 .. Len(p) /\ q[i] = p[i]
    BY <1>1
  <2>2. TellsOf(p, p[i].id)
    BY <1>2, <2>1 DEF ToldBefore
  <2>3. PICK m \in 1 .. Len(p) : p[m].type = "compaction" /\ p[i].id \in p[m].told
    BY <2>2 DEF TellsOf
  <2>4. m \in 1 .. Len(q) /\ q[m] = p[m]
    BY <1>1
  <2> QED BY <2>1, <2>3, <2>4 DEF TellsOf
<1> QED BY <1>2 DEF ToldBefore

(* Anything but a result or a compaction may follow.                       *)
LEMMA OtherFollows ==
    ASSUME NEW p \in Seq(Lines), NEW e \in Lines, NEW q, OneMore(p, e, q), Above(p, e), Conversation(p),
           e.type \notin {"compaction", "toolResult"}
    PROVE  Conversation(q)
<1>1. Rising(p) /\ KeepsOlder(p) /\ ResultsFollow(p) /\ CleanFrom(p, BoundaryStart(p)) /\ ToldBefore(p, BoundaryStart(p))
  BY DEF Conversation
<1>2. Rising(q) /\ KeepsOlder(q)
  BY <1>1, GrownRising
<1>3. ResultsFollow(q)
  BY <1>1, GrownFollow
<1>4. PICK b \in 1 .. Len(p) + 1 : b = BoundaryStart(p)
  BY BoundaryIn
<1>5. BoundaryStart(q) = b
  BY <1>1, <1>4, GrownBoundary
<1>6. ToldBefore(q, b)
  BY <1>1, <1>4, GrownTold
<1>7. CleanFrom(q, b)
  <2> SUFFICES ASSUME NEW i \in b .. Len(q), q[i].type = "toolResult"
               PROVE  \E j \in b .. i - 1 : q[j].type \in SaidTypes
    BY DEF CleanFrom
  <2>1. /\ Len(p) \in Nat /\ Len(q) = Len(p) + 1 /\ q[Len(p) + 1] = e
        /\ \A m \in 1 .. Len(p) : q[m] = p[m]
    BY DEF OneMore
  <2>2. i # Len(p) + 1
    BY <2>1
  <2>3. i \in b .. Len(p) /\ q[i] = p[i]
    BY <2>1, <2>2
  <2>4. PICK j \in b .. i - 1 : p[j].type \in SaidTypes
    BY <1>1, <1>4, <2>3 DEF CleanFrom
  <2>5. q[j] = p[j]
    BY <2>1, <2>3
  <2> QED BY <2>4, <2>5
<1> QED BY <1>2, <1>3, <1>5, <1>6, <1>7 DEF Conversation

(* A result follows when the last thing said is an answer or a result.     *)
LastSaid(p, j) ==
    j \in 1 .. Len(p) /\ p[j].type \in AnswerTypes /\ \A m \in j + 1 .. Len(p) : p[m].type \notin SaidTypes

LEMMA ResultFollows ==
    ASSUME NEW p \in Seq(Lines), NEW e \in Lines, NEW q, OneMore(p, e, q), Above(p, e), Conversation(p),
           e.type = "toolResult", NEW j, LastSaid(p, j)
    PROVE  Conversation(q)
<1>1. Rising(p) /\ KeepsOlder(p) /\ ResultsFollow(p) /\ CleanFrom(p, BoundaryStart(p)) /\ ToldBefore(p, BoundaryStart(p))
  BY DEF Conversation
<1>2. /\ Len(p) \in Nat /\ Len(q) = Len(p) + 1 /\ q[Len(p) + 1] = e
      /\ \A m \in 1 .. Len(p) : q[m] = p[m]
  BY DEF OneMore
<1>3. j \in 1 .. Len(p) /\ p[j].type \in AnswerTypes /\ \A m \in j + 1 .. Len(p) : p[m].type \notin SaidTypes
  BY DEF LastSaid
<1>4. Rising(q) /\ KeepsOlder(q)
  BY <1>1, GrownRising
<1>5. Behind(q, Len(p) + 1, j)
  <2>1. \A m \in j .. Len(p) : q[m] = p[m]
    BY <1>2, <1>3
  <2>2. (Len(p) + 1) - 1 = Len(p)
    BY <1>2
  <2> QED BY <1>3, <2>1, <2>2 DEF Behind
<1>6. ResultsFollow(q)
  BY <1>1, <1>3, <1>5, GrownFollow
<1>7. PICK b \in 1 .. Len(p) + 1 : b = BoundaryStart(p)
  BY BoundaryIn
<1>8. BoundaryStart(q) = b
  BY <1>1, <1>7, GrownBoundary
<1>9. ToldBefore(q, b)
  BY <1>1, <1>7, GrownTold
<1>10. b <= j
  <2>1. PICK c \in 0 .. Len(p) : c = LatestCompaction(p) /\ (c # 0 => p[c].type = "compaction")
    BY LatestCompactionIs
  <2>2. PICK k : k = PositionOf(p, p[c].target)
    OBVIOUS
  <2>3. CASE c = 0
    <3>1. b = 1
      BY <1>1, <1>7, <2>1, <2>2, <2>3, BoundaryIs
    <3> QED BY <1>2, <1>3, <3>1
  <2>4. CASE c # 0
    <3>1. c \in 1 .. Len(p) /\ p[c].type \in SaidTypes /\ p[c].type \notin AnswerTypes
      BY <2>1, <2>4 DEF SaidTypes, AnswerTypes
    <3>2. ~(c \in j + 1 .. Len(p)) /\ c # j
      BY <1>3, <3>1
    <3>3. c < j
      BY <1>3, <3>1, <3>2
    <3>4. b = c + 1 \/ b \in 1 .. c - 1
      BY <1>1, <1>7, <2>1, <2>2, <2>4, BoundaryIs
    <3> QED BY <1>3, <3>1, <3>3, <3>4
  <2> QED BY <2>3, <2>4
<1>11. CleanFrom(q, b)
  <2> SUFFICES ASSUME NEW i \in b .. Len(q), q[i].type = "toolResult"
               PROVE  \E l \in b .. i - 1 : q[l].type \in SaidTypes
    BY DEF CleanFrom
  <2>1. CASE i = Len(p) + 1
    <3>1. j \in b .. i - 1 /\ q[j] = p[j] /\ p[j].type \in SaidTypes
      BY <1>2, <1>3, <1>10, <2>1 DEF AnswerTypes, SaidTypes, MessageTypes
    <3> QED BY <3>1
  <2>2. CASE i # Len(p) + 1
    <3>1. i \in b .. Len(p) /\ q[i] = p[i]
      BY <1>2, <2>2
    <3>2. PICK l \in b .. i - 1 : p[l].type \in SaidTypes
      BY <1>1, <1>7, <3>1 DEF CleanFrom
    <3>3. q[l] = p[l]
      BY <1>2, <3>1
    <3> QED BY <3>2, <3>3
  <2> QED BY <2>1, <2>2
<1> QED BY <1>4, <1>6, <1>8, <1>9, <1>11 DEF Conversation

---------------------------------------------------------------------------
(* A cut leaves no result at the beginning of what is kept.                *)
LEMMA CutIsClean ==
    ASSUME NEW p \in Seq(Lines), NEW start \in 1 .. Len(p), NEW keep, CleanFrom(p, start)
    PROVE  CleanFrom(p, FindCutPoint(p, start, keep))
<1>1. Len(p) \in Nat /\ start \in Nat /\ start >= 1
  OBVIOUS
<1>2. PICK cuts : cuts = Positions(p, start, Len(p), CutTypes)
  OBVIOUS
<1>3. PICK b : b = BudgetStart(p, start, keep)
  OBVIOUS
<1>4. PICK later : later = {c \in cuts : c >= b}
  OBVIOUS
<1>5. cuts \in SUBSET (start .. Len(p)) /\ later \in SUBSET cuts /\ \A c \in cuts : p[c].type \in CutTypes
  BY <1>2, <1>4 DEF Positions
<1>6. FindCutPoint(p, start, keep) =
        IF cuts = {} THEN start ELSE WithSettings(p, start, Min(IF b = 0 \/ later = {} THEN cuts ELSE later))
  BY <1>2, <1>3, <1>4 DEF FindCutPoint
<1>7. CASE cuts # {}
  <2>1. PICK T \in SUBSET cuts : T # {} /\ T = IF b = 0 \/ later = {} THEN cuts ELSE later
    BY <1>5, <1>7
  <2>2. T \in SUBSET Nat /\ T \in SUBSET (start .. Len(p))
    BY <1>1, <1>5
  <2>3. PICK m \in start .. Len(p) : m = Min(T) /\ m \in cuts
    BY <1>5, <2>1, <2>2, MinIn
  <2>4. PICK U : U = {i \in start .. m : \A j \in i .. m - 1 : ~IsMessage(p[j]) /\ p[j].type # "compaction"}
    OBVIOUS
  <2>5. m \in U
    <3>1. \A j \in m .. m - 1 : FALSE
      BY <2>3
    <3>2. m \in start .. m
      BY <2>3
    <3> QED BY <2>4, <3>1, <3>2
  <2>6. U \in SUBSET Nat /\ U # {}
    BY <1>1, <2>4, <2>5
  <2>7. PICK cut : cut = Min(U)
    OBVIOUS
  <2>8. cut \in U
    BY <2>6, <2>7, MinIn
  <2>9. cut \in start .. m /\ \A j \in cut .. m - 1 : ~IsMessage(p[j])
    BY <2>4, <2>8
  <2>10. FindCutPoint(p, start, keep) = cut
    BY <1>6, <1>7, <2>1, <2>3, <2>4, <2>7 DEF WithSettings
  <2>11. p[m].type \in SaidTypes /\ p[m].type # "toolResult"
    BY <1>5, <2>3 DEF CutTypes, SaidTypes, MessageTypes
  <2>12. ASSUME NEW i \in cut .. Len(p), p[i].type = "toolResult" PROVE \E j \in cut .. i - 1 : p[j].type \in SaidTypes
    <3>1. IsMessage(p[i])
      BY <2>12 DEF IsMessage, MessageTypes
    <3>2. i # m /\ ~(i \in cut .. m - 1)
      BY <2>9, <2>11, <2>12, <3>1
    <3>3. m \in cut .. i - 1
      BY <1>1, <2>3, <2>9, <3>2
    <3> QED BY <2>11, <3>3
  <2>13. CleanFrom(p, cut)
    BY <2>12 DEF CleanFrom
  <2> QED BY <2>10, <2>13
<1> QED BY <1>6, <1>7

(* The summary is told all between the last cut and this one.              *)
LEMMA ToldBetween ==
    ASSUME NEW p \in Seq(Lines), NEW cut \in BoundaryStart(p) .. Len(p),
           NEW i \in BoundaryStart(p) .. cut - 1, IsMessageOrSummary(p[i])
    PROVE  p[i].id \in Told(p, cut)
<1>1. PICK s \in 1 .. Len(p) + 1 : s = BoundaryStart(p)
  BY BoundaryIn
<1>2. PICK h : h = HistoryEnd(p, cut)
  OBVIOUS
<1>3. h \in s - 1 .. cut - 1
  BY <1>1, <1>2, HistoryEndIn
<1>4. PICK early : early = MessageIds(p, s, h)
  OBVIOUS
<1>5. PICK prefix : prefix = MessageIds(p, h + 1, cut - 1)
  OBVIOUS
<1>6. PICK previous : previous = IF LatestCompaction(p) = 0 THEN {} ELSE p[LatestCompaction(p)].told
  OBVIOUS
<1>7. History(p, cut) = early
  BY <1>1, <1>2, <1>4 DEF History
<1>8. Told(p, cut) = IF prefix # {} /\ early = {} THEN prefix ELSE early \cup previous \cup prefix
  BY <1>2, <1>5, <1>6, <1>7 DEF Told
<1>9. p[i].id \in early \/ p[i].id \in prefix
  <2>1. i \in s .. h \/ i \in h + 1 .. cut - 1
    BY <1>1, <1>3
  <2> QED BY <1>4, <1>5, <2>1 DEF MessageIds
<1> QED BY <1>8, <1>9

(* A compaction of a conversation continues it.                            *)
LEMMA CompactionBoundary ==
    ASSUME NEW p \in Seq(Lines), NEW e \in Lines, NEW q, OneMore(p, e, q), Rising(q),
           e.type = "compaction", NEW cut \in 1 .. Len(p), e.target = p[cut].id
    PROVE  BoundaryStart(q) = cut
<1>1. /\ q \in Seq(Lines) /\ Len(p) \in Nat /\ Len(q) = Len(p) + 1 /\ q[Len(p) + 1] = e
      /\ \A i \in 1 .. Len(p) : q[i] = p[i]
  BY DEF OneMore
<1>2. LatestCompaction(q) = Len(q)
  <2>1. PICK c \in 0 .. Len(q) :
          /\ c = LatestCompaction(q)
          /\ c = 0 => \A i \in 1 .. Len(q) : q[i].type # "compaction"
          /\ c # 0 => \A i \in c + 1 .. Len(q) : q[i].type # "compaction"
    BY <1>1, LatestCompactionIs
  <2>2. q[Len(q)].type = "compaction" /\ Len(q) \in 1 .. Len(q)
    BY <1>1
  <2>3. c # 0
    BY <2>1, <2>2
  <2>4. ~(Len(q) \in c + 1 .. Len(q))
    BY <2>1, <2>2, <2>3
  <2> QED BY <1>1, <2>1, <2>4
<1>3. PICK k : k = PositionOf(q, p[cut].id)
  OBVIOUS
<1>4. q[cut].id = p[cut].id /\ cut \in 1 .. Len(q)
  BY <1>1
<1>5. k = cut
  <2>1. DOMAIN q = 1 .. Len(q)
    BY <1>1
  <2>2. PICK T \in SUBSET (1 .. Len(q)) : T = {i \in DOMAIN q : q[i].id = p[cut].id}
    BY <2>1
  <2>3. cut \in T
    BY <1>4, <2>1, <2>2
  <2>4. k = LatestOf(T)
    BY <1>3, <2>2 DEF PositionOf
  <2>5. k \in T
    BY <1>1, <2>3, <2>4, LatestIs
  <2>6. k \in 1 .. Len(q) /\ q[k].id = q[cut].id
    BY <1>4, <2>2, <2>5
  <2>7. q[k].id \in Nat /\ q[cut].id \in Nat
    BY <1>1, <1>4, <2>6, LineTyped
  <2>8. ~(k < cut) /\ ~(cut < k)
    BY <1>4, <2>6, <2>7 DEF Rising
  <2> QED BY <1>4, <2>6, <2>8
<1>6. q[Len(q)].target = p[cut].id
  BY <1>1
<1>7. Len(q) # 0 /\ k # 0
  BY <1>1, <1>5
<1> QED BY <1>2, <1>3, <1>5, <1>6, <1>7 DEF BoundaryStart

LEMMA CompactionFollows ==
    ASSUME NEW p \in Seq(Lines), NEW e \in Lines, NEW q, OneMore(p, e, q), Above(p, e), Conversation(p),
           BoundaryStart(p) \in 1 .. Len(p), NEW keep,
           NEW cut, cut = FindCutPoint(p, BoundaryStart(p), keep),
           e.type = "compaction", e.target = p[cut].id, e.told = Told(p, cut)
    PROVE  Conversation(q)
<1>1. Rising(p) /\ KeepsOlder(p) /\ ResultsFollow(p) /\ CleanFrom(p, BoundaryStart(p)) /\ ToldBefore(p, BoundaryStart(p))
  BY DEF Conversation
<1>2. /\ q \in Seq(Lines) /\ Len(p) \in Nat /\ Len(q) = Len(p) + 1 /\ q[Len(p) + 1] = e
      /\ \A m \in 1 .. Len(p) : q[m] = p[m]
  BY DEF OneMore
<1>3. PICK b \in 1 .. Len(p) : b = BoundaryStart(p)
  OBVIOUS
<1>4. cut \in b .. Len(p)
  BY <1>3, CutIn
<1>5. cut \in 1 .. Len(p)
  BY <1>2, <1>3, <1>4
<1>6. e.target < e.id
  BY <1>5 DEF Above
<1>7. Rising(q) /\ KeepsOlder(q)
  BY <1>1, <1>6, GrownRising
<1>8. ResultsFollow(q)
  BY <1>1, GrownFollow
<1>9. BoundaryStart(q) = cut
  BY <1>5, <1>7, CompactionBoundary
<1>10. CleanFrom(p, cut)
  BY <1>1, <1>3, CutIsClean
<1>11. CleanFrom(q, cut)
  <2> SUFFICES ASSUME NEW i \in cut .. Len(q), q[i].type = "toolResult"
               PROVE  \E j \in cut .. i - 1 : q[j].type \in SaidTypes
    BY DEF CleanFrom
  <2>1. i # Len(p) + 1
    BY <1>2
  <2>2. i \in cut .. Len(p) /\ q[i] = p[i]
    BY <1>2, <1>5, <2>1
  <2>3. PICK j \in cut .. i - 1 : p[j].type \in SaidTypes
    BY <1>10, <2>2 DEF CleanFrom
  <2>4. q[j] = p[j]
    BY <1>2, <1>5, <2>2
  <2> QED BY <2>3, <2>4
<1>12. ToldBefore(q, cut)
  <2> SUFFICES ASSUME NEW i \in 1 .. cut - 1, IsMessageOrSummary(q[i]) PROVE TellsOf(q, q[i].id)
    BY DEF ToldBefore
  <2>1. i \in 1 .. Len(p) /\ q[i] = p[i]
    BY <1>2, <1>5
  <2>2. CASE i < b
    <3>1. ToldBefore(q, b)
      BY <1>1, <1>3, GrownTold
    <3>2. i \in 1 .. b - 1
      BY <1>3, <2>1, <2>2
    <3> QED BY <3>1, <3>2 DEF ToldBefore
  <2>3. CASE ~(i < b)
    <3>1. i \in b .. cut - 1
      BY <1>3, <2>1, <2>3
    <3>2. p[i].id \in Told(p, cut)
      BY <1>3, <1>4, <2>1, <3>1, ToldBetween
    <3>3. Len(p) + 1 \in 1 .. Len(q)
      BY <1>2
    <3> QED BY <1>2, <2>1, <3>2, <3>3 DEF TellsOf
  <2> QED BY <2>2, <2>3
<1> QED BY <1>7, <1>8, <1>9, <1>11, <1>12 DEF Conversation

---------------------------------------------------------------------------
(* What the model is given.                                                *)
SpokenTypes == MessageTypes \cup {"branchSummary"}
Spoke(p, from, to) == Only(SubSeq(p, from, to), SpokenTypes)

InPlace(s) ==
    \A i \in 1 .. Len(s) : s[i].type = "toolResult" => i > 1 /\ s[i - 1].type \in AnswerTypes

LEMMA OnlyInPlace ==
    ASSUME NEW s \in Seq(Lines), ResultsFollow(s)
    PROVE  Only(s, SpokenTypes) \in Seq(Lines) /\ InPlace(Only(s, SpokenTypes))
<1>1. PICK r \in Seq(Lines) : r = Only(s, SpokenTypes)
  BY OnlyTyped
<1>2. PICK at : PlacedBy(s, SpokenTypes, r, at)
  BY <1>1, OnlyPlaces
<1>3. Len(r) \in Nat /\ Len(s) \in Nat
  OBVIOUS
<1>4. at \in [1 .. Len(r) -> 1 .. Len(s)]
  BY <1>2 DEF PlacedBy
<1>5. \A k \in 1 .. Len(r) : r[k] = s[at[k]] /\ s[at[k]].type \in SpokenTypes
  BY <1>2 DEF PlacedBy
<1>6. \A k, l \in 1 .. Len(r) : k < l => at[k] < at[l]
  BY <1>2 DEF PlacedBy
<1>7. \A i \in 1 .. Len(s) : s[i].type \in SpokenTypes => \E k \in 1 .. Len(r) : at[k] = i
  BY <1>2 DEF PlacedBy
<1>8. ASSUME NEW m \in 1 .. Len(r), r[m].type = "toolResult"
      PROVE  m > 1 /\ r[m - 1].type \in AnswerTypes
  <2>1. PICK i \in 1 .. Len(s) : i = at[m] /\ s[i] = r[m]
    BY <1>4, <1>5
  <2>2. PICK j \in 1 .. i - 1 : Behind(s, i, j)
    BY <1>8, <2>1 DEF ResultsFollow
  <2>3. s[j].type \in AnswerTypes /\ \A x \in j + 1 .. i - 1 : s[x].type \notin SaidTypes
    BY <2>2 DEF Behind
  <2>4. j \in 1 .. Len(s) /\ s[j].type \in SpokenTypes
    BY <2>1, <2>3 DEF AnswerTypes, SpokenTypes, MessageTypes
  <2>5. PICK l \in 1 .. Len(r) : at[l] = j
    BY <1>7, <2>4
  <2>6. l < m
    <3>1. ~(m < l) /\ m # l
      <4>1. at[l] < at[m] /\ at[l] \in Nat /\ at[m] \in Nat
        BY <2>1, <2>5
      <4> QED BY <1>6, <4>1
    <3> QED BY <3>1
  <2>7. l = m - 1
    <3>1. ASSUME l < m - 1 PROVE FALSE
      <4>1. PICK k \in 1 .. Len(r) : k = m - 1
        BY <3>1
      <4>2. l < k /\ k < m
        BY <3>1, <4>1
      <4>3. at[l] < at[k] /\ at[k] < at[m]
        BY <1>6, <4>2
      <4>4. at[k] \in 1 .. Len(s)
        BY <1>4
      <4>5. at[k] \in j + 1 .. i - 1
        BY <2>1, <2>5, <4>3, <4>4
      <4>6. s[at[k]].type \in SaidTypes
        BY <1>5 DEF SaidTypes, SpokenTypes
      <4> QED BY <2>3, <4>5, <4>6
    <3> QED BY <2>6, <3>1
  <2>8. r[l] = s[j]
    BY <1>5, <2>5
  <2> QED BY <2>3, <2>6, <2>7, <2>8
<1> QED BY <1>1, <1>8 DEF InPlace

LEMMA Segment ==
    ASSUME NEW p \in Seq(Lines), NEW from \in 1 .. Len(p) + 1, NEW to \in from - 1 .. Len(p)
    PROVE  /\ SubSeq(p, from, to) \in Seq(Lines) /\ Len(SubSeq(p, from, to)) = to - from + 1
           /\ \A i \in 1 .. to - from + 1 : SubSeq(p, from, to)[i] = p[from + i - 1]
<1>1. Len(p) \in Nat
  OBVIOUS
<1>2. PICK s : s = SubSeq(p, from, to)
  OBVIOUS
<1>3. s = [i \in 1 .. (1 + to - from) |-> p[i + from - 1]]
  BY <1>1, <1>2
<1>4. 1 + to - from = to - from + 1 /\ to - from + 1 \in Nat
  BY <1>1
<1>5. PICK n \in Nat : n = to - from + 1
  BY <1>4
<1>6. \A i \in 1 .. n : i + from - 1 \in 1 .. Len(p) /\ i + from - 1 = from + i - 1
  BY <1>1, <1>5
<1>7. s = [i \in 1 .. n |-> p[from + i - 1]]
  BY <1>3, <1>4, <1>5, <1>6
<1>8. \A i \in 1 .. n : p[from + i - 1] \in Lines
  BY <1>6
<1>9. s \in Seq(Lines) /\ Len(s) = n
  BY <1>7, <1>8
<1> QED BY <1>2, <1>5, <1>7, <1>9

LEMMA SegmentFollows ==
    ASSUME NEW p \in Seq(Lines), NEW from \in 1 .. Len(p) + 1, NEW to \in from - 1 .. Len(p), ResultsFollow(p),
           \A i \in from .. to : p[i].type = "toolResult" => \E j \in from .. i - 1 : p[j].type \in SaidTypes
    PROVE  ResultsFollow(SubSeq(p, from, to))
<1>1. Len(p) \in Nat
  OBVIOUS
<1>2. PICK s \in Seq(Lines) : s = SubSeq(p, from, to)
  BY Segment
<1>3. Len(s) = to - from + 1 /\ \A i \in 1 .. to - from + 1 : s[i] = p[from + i - 1]
  BY <1>2, Segment
<1>4. ASSUME NEW i \in 1 .. Len(s), s[i].type = "toolResult" PROVE \E j \in 1 .. i - 1 : Behind(s, i, j)
  <2>1. PICK x \in from .. to : x = from + i - 1
    <3>1. from + i - 1 \in from .. to
      BY <1>1, <1>3
    <3> QED BY <3>1
  <2>2. x \in 1 .. Len(p) /\ s[i] = p[x]
    BY <1>1, <1>3, <2>1
  <2>3. PICK y \in 1 .. x - 1 : Behind(p, x, y)
    BY <1>4, <2>2 DEF ResultsFollow
  <2>4. PICK z \in from .. x - 1 : p[z].type \in SaidTypes
    BY <1>4, <2>1, <2>2
  <2>5. ~(z \in y + 1 .. x - 1)
    BY <2>3, <2>4 DEF Behind
  <2>6. y >= from
    BY <2>4, <2>5
  <2>7. PICK j \in 1 .. i - 1 : j = y - from + 1
    <3>1. y - from + 1 \in 1 .. i - 1
      BY <2>1, <2>3, <2>6
    <3> QED BY <3>1
  <2>8. \A m \in j .. i - 1 : s[m] = p[from + m - 1] /\ from + m - 1 \in y .. x - 1
    BY <1>1, <1>3, <2>1, <2>6, <2>7
  <2>9. s[j] = p[y]
    <3>1. from + j - 1 = y
      BY <2>7
    <3>2. j \in j .. i - 1
      BY <2>7
    <3> QED BY <2>8, <3>1, <3>2
  <2>10. \A m \in j + 1 .. i - 1 : from + m - 1 \in y + 1 .. x - 1
    BY <1>1, <1>3, <2>1, <2>6, <2>7
  <2>11. \A m \in j + 1 .. i - 1 : s[m].type \notin SaidTypes
    <3>1. \A m \in j + 1 .. i - 1 : m \in j .. i - 1
      BY <2>7
    <3> QED BY <2>3, <2>8, <2>10, <3>1 DEF Behind
  <2>12. Behind(s, i, j)
    BY <2>3, <2>9, <2>11 DEF Behind
  <2> QED BY <2>12
<1> QED BY <1>2, <1>4 DEF ResultsFollow

LEMMA InPlaceConcat ==
    ASSUME NEW a \in Seq(Lines), NEW b \in Seq(Lines), InPlace(a), InPlace(b)
    PROVE  a \o b \in Seq(Lines) /\ InPlace(a \o b) /\ Range(a) \subseteq Range(a \o b) /\ Range(b) \subseteq Range(a \o b)
<1>1. PICK q : q = a \o b
  OBVIOUS
<1>2. Len(a) \in Nat /\ Len(b) \in Nat
  OBVIOUS
<1>3. /\ q \in Seq(Lines) /\ Len(q) = Len(a) + Len(b)
      /\ \A i \in 1 .. Len(a) : q[i] = a[i]
      /\ \A j \in 1 .. Len(b) : q[Len(a) + j] = b[j]
  BY <1>1, <1>2
<1>4. ASSUME NEW i \in 1 .. Len(q), q[i].type = "toolResult" PROVE i > 1 /\ q[i - 1].type \in AnswerTypes
  <2>1. CASE i \in 1 .. Len(a)
    <3>1. a[i].type = "toolResult"
      BY <1>3, <1>4, <2>1
    <3>2. i > 1 /\ a[i - 1].type \in AnswerTypes
      BY <2>1, <3>1 DEF InPlace
    <3>3. i - 1 \in 1 .. Len(a)
      BY <1>2, <2>1, <3>2
    <3> QED BY <1>3, <3>2, <3>3
  <2>2. CASE i \notin 1 .. Len(a)
    <3>1. PICK j \in 1 .. Len(b) : j = i - Len(a)
      <4>1. i - Len(a) \in 1 .. Len(b)
        BY <1>2, <1>3, <2>2
      <4> QED BY <4>1
    <3>2. i = Len(a) + j
      BY <1>2, <3>1
    <3>3. b[j].type = "toolResult"
      BY <1>3, <1>4, <3>2
    <3>4. j > 1 /\ b[j - 1].type \in AnswerTypes
      BY <3>3 DEF InPlace
    <3>5. PICK k \in 1 .. Len(b) : k = j - 1
      BY <1>2, <3>4
    <3>6. i - 1 = Len(a) + k /\ i > 1
      BY <1>2, <3>2, <3>4, <3>5
    <3> QED BY <1>3, <3>4, <3>5, <3>6
  <2> QED BY <2>1, <2>2
<1>5. Range(a) \subseteq Range(q)
  <2>1. \A i \in 1 .. Len(a) : i \in 1 .. Len(q)
    BY <1>2, <1>3
  <2> QED BY <1>3, <2>1, RangeOf
<1>6. Range(b) \subseteq Range(q)
  <2>1. \A j \in 1 .. Len(b) : Len(a) + j \in 1 .. Len(q)
    BY <1>2, <1>3
  <2>2. \A j \in 1 .. Len(b) : b[j] \in Range(q)
    <3>1. \A k \in 1 .. Len(q) : q[k] \in Range(q)
      BY <1>3, RangeOf
    <3> QED BY <1>3, <2>1, <3>1
  <2> QED BY <2>2, RangeOf
<1> QED BY <1>1, <1>3, <1>4, <1>5, <1>6 DEF InPlace

(* The part of a conversation that is given: what is said in it is there,  *)
(* and no result without its answer.                                       *)
LEMMA SpokeIs ==
    ASSUME NEW p \in Seq(Lines), NEW from \in 1 .. Len(p) + 1, NEW to \in from - 1 .. Len(p), ResultsFollow(p),
           \A i \in from .. to : p[i].type = "toolResult" => \E j \in from .. i - 1 : p[j].type \in SaidTypes
    PROVE  /\ Spoke(p, from, to) \in Seq(Lines) /\ InPlace(Spoke(p, from, to))
           /\ \A i \in from .. to : IsMessageOrSummary(p[i]) => p[i] \in Range(Spoke(p, from, to))
<1>1. Len(p) \in Nat
  OBVIOUS
<1>2. PICK s \in Seq(Lines) : s = SubSeq(p, from, to)
  BY Segment
<1>3. Len(s) = to - from + 1 /\ \A i \in 1 .. to - from + 1 : s[i] = p[from + i - 1]
  BY <1>2, Segment
<1>4. ResultsFollow(s)
  BY <1>2, SegmentFollows
<1>5. PICK r : r = Only(s, SpokenTypes)
  OBVIOUS
<1>6. r \in Seq(Lines) /\ InPlace(r)
  BY <1>4, <1>5, OnlyInPlace
<1>7. Range(r) = {e \in Range(s) : e.type \in SpokenTypes}
  BY <1>5, OnlyWithin
<1>8. ASSUME NEW i \in from .. to, IsMessageOrSummary(p[i]) PROVE p[i] \in Range(r)
  <2>1. PICK j \in 1 .. Len(s) : j = i - from + 1
    <3>1. i - from + 1 \in 1 .. Len(s)
      BY <1>1, <1>3
    <3> QED BY <3>1
  <2>2. from + j - 1 = i
    BY <2>1
  <2>3. s[j] = p[i]
    BY <1>3, <2>2
  <2>4. s[j] \in Range(s)
    BY RangeOf
  <2>5. p[i].type \in SpokenTypes
    BY <1>8 DEF IsMessageOrSummary, IsMessage, SpokenTypes
  <2> QED BY <1>7, <2>3, <2>4, <2>5
<1> QED BY <1>2, <1>5, <1>6, <1>8 DEF Spoke

LEMMA ContextIs ==
    ASSUME NEW p, NEW c, c = LatestCompaction(p), NEW k, k = PositionOf(p, p[c].target)
    PROVE  Context(p) = IF c = 0 THEN Spoke(p, 1, Len(p))
                        ELSE <<p[c]>> \o (IF k = 0 THEN <<>> ELSE Spoke(p, k, c - 1)) \o Spoke(p, c + 1, Len(p))
BY DEF Context, Spoke, SpokenTypes

(* All that is said from the boundary on is given, results in place.       *)
GivenFrom(p, from, q) ==
    /\ q \in Seq(Lines) /\ InPlace(q)
    /\ \A i \in from .. Len(p) : IsMessageOrSummary(p[i]) => p[i] \in Range(q)

LEMMA ContextGives ==
    ASSUME NEW p \in Seq(Lines), Conversation(p)
    PROVE  GivenFrom(p, BoundaryStart(p), Context(p))
<1>1. Rising(p) /\ KeepsOlder(p) /\ ResultsFollow(p) /\ CleanFrom(p, BoundaryStart(p))
  BY DEF Conversation
<1>2. Len(p) \in Nat
  OBVIOUS
<1>3. PICK c \in 0 .. Len(p) : c = LatestCompaction(p) /\ (c # 0 => p[c].type = "compaction")
  BY LatestCompactionIs
<1>4. PICK k : k = PositionOf(p, p[c].target)
  OBVIOUS
<1>5. CASE c = 0
  <2>1. BoundaryStart(p) = 1
    BY <1>1, <1>3, <1>4, <1>5, BoundaryIs
  <2>2. 1 \in 1 .. Len(p) + 1 /\ Len(p) \in 1 - 1 .. Len(p)
    BY <1>2
  <2>3. \A i \in 1 .. Len(p) : p[i].type = "toolResult" => \E j \in 1 .. i - 1 : p[j].type \in SaidTypes
    BY <1>1, <2>1 DEF CleanFrom
  <2>4. PICK r : r = Spoke(p, 1, Len(p))
    OBVIOUS
  <2>5. r \in Seq(Lines) /\ InPlace(r) /\ \A i \in 1 .. Len(p) : IsMessageOrSummary(p[i]) => p[i] \in Range(r)
    BY <1>1, <2>2, <2>3, <2>4, SpokeIs
  <2>6. Context(p) = r
    BY <1>3, <1>5, <2>4, ContextIs
  <2> QED BY <2>1, <2>5, <2>6 DEF GivenFrom
<1>6. CASE c # 0
  <2>1. c \in 1 .. Len(p) /\ p[c].type = "compaction"
    BY <1>3, <1>6
  <2>2. PICK b : b = BoundaryStart(p)
    OBVIOUS
  <2>3. (k = 0 => b = c + 1) /\ (k # 0 => b = k /\ k \in 1 .. c - 1)
    BY <1>1, <1>3, <1>4, <1>6, <2>2, BoundaryIs
  <2>4. PICK kept : kept = IF k = 0 THEN <<>> ELSE Spoke(p, k, c - 1)
    OBVIOUS
  <2>5. kept \in Seq(Lines) /\ InPlace(kept) /\ (k # 0 => \A i \in k .. c - 1 : IsMessageOrSummary(p[i]) => p[i] \in Range(kept))
    <3>1. CASE k = 0
      <4>1. kept = <<>> /\ <<>> \in Seq(Lines) /\ Len(<<>>) = 0
        BY <2>4, <3>1
      <4> QED BY <3>1, <4>1 DEF InPlace
    <3>2. CASE k # 0
      <4>1. k \in 1 .. Len(p) + 1 /\ c - 1 \in k - 1 .. Len(p)
        BY <1>2, <2>1, <2>3, <3>2
      <4>2. \A i \in k .. c - 1 : i \in b .. Len(p)
        BY <1>2, <2>1, <2>3, <3>2
      <4>3. \A i \in k .. c - 1 : p[i].type = "toolResult" => \E j \in k .. i - 1 : p[j].type \in SaidTypes
        BY <1>1, <2>2, <2>3, <3>2, <4>2 DEF CleanFrom
      <4>4. PICK r : r = Spoke(p, k, c - 1)
        OBVIOUS
      <4>5. r \in Seq(Lines) /\ InPlace(r) /\ \A i \in k .. c - 1 : IsMessageOrSummary(p[i]) => p[i] \in Range(r)
        BY <1>1, <4>1, <4>3, <4>4, SpokeIs
      <4> QED BY <2>4, <3>2, <4>4, <4>5
    <3> QED BY <3>1, <3>2
  <2>6. PICK later : later = Spoke(p, c + 1, Len(p))
    OBVIOUS
  <2>7. later \in Seq(Lines) /\ InPlace(later) /\ \A i \in c + 1 .. Len(p) : IsMessageOrSummary(p[i]) => p[i] \in Range(later)
    <3>1. c + 1 \in 1 .. Len(p) + 1 /\ Len(p) \in (c + 1) - 1 .. Len(p)
      BY <1>2, <2>1
    <3>2. ASSUME NEW i \in c + 1 .. Len(p), p[i].type = "toolResult"
          PROVE  \E j \in c + 1 .. i - 1 : p[j].type \in SaidTypes
      <4>1. i \in 1 .. Len(p)
        BY <1>2, <2>1
      <4>2. PICK j \in 1 .. i - 1 : Behind(p, i, j)
        BY <1>1, <3>2, <4>1 DEF ResultsFollow
      <4>3. p[j].type \in AnswerTypes /\ \A m \in j + 1 .. i - 1 : p[m].type \notin SaidTypes
        BY <4>2 DEF Behind
      <4>4. p[c].type \in SaidTypes /\ p[c].type \notin AnswerTypes
        BY <2>1 DEF SaidTypes, AnswerTypes
      <4>5. ~(c \in j + 1 .. i - 1) /\ c # j
        BY <4>3, <4>4
      <4>6. j \in c + 1 .. i - 1
        BY <2>1, <4>1, <4>5
      <4>7. p[j].type \in SaidTypes
        BY <4>3 DEF AnswerTypes, SaidTypes, MessageTypes
      <4> QED BY <4>6, <4>7
    <3>3. \A i \in c + 1 .. Len(p) : p[i].type = "toolResult" => \E j \in c + 1 .. i - 1 : p[j].type \in SaidTypes
      BY <3>2
    <3> QED BY <1>1, <2>6, <3>1, <3>3, SpokeIs
  <2>8. PICK first : first = <<p[c]>>
    OBVIOUS
  <2>9. first \in Seq(Lines) /\ InPlace(first)
    <3>1. p[c] \in Lines
      BY <2>1, LineTyped
    <3>2. <<p[c]>> \in Seq(Lines) /\ Len(<<p[c]>>) = 1 /\ <<p[c]>>[1] = p[c]
      BY <3>1
    <3>3. \A i \in 1 .. Len(first) : first[i].type # "toolResult"
      BY <2>1, <2>8, <3>2
    <3> QED BY <2>8, <3>2, <3>3 DEF InPlace
  <2>10. PICK head : head = first \o kept
    OBVIOUS
  <2>11. head \in Seq(Lines) /\ InPlace(head) /\ Range(kept) \subseteq Range(head)
    BY <2>5, <2>9, <2>10, InPlaceConcat
  <2>12. PICK q : q = head \o later
    OBVIOUS
  <2>13. q \in Seq(Lines) /\ InPlace(q) /\ Range(head) \subseteq Range(q) /\ Range(later) \subseteq Range(q)
    BY <2>7, <2>11, <2>12, InPlaceConcat
  <2>14. Context(p) = q
    BY <1>3, <1>4, <1>6, <2>4, <2>6, <2>8, <2>10, <2>12, ContextIs
  <2>15. ASSUME NEW i \in b .. Len(p), IsMessageOrSummary(p[i]) PROVE p[i] \in Range(q)
    <3>1. ~IsMessageOrSummary(p[c])
      BY <2>1 DEF IsMessageOrSummary, IsMessage, MessageTypes
    <3>2. i # c
      BY <2>15, <3>1
    <3>3. i \in c + 1 .. Len(p) \/ (k # 0 /\ i \in k .. c - 1)
      BY <1>2, <2>1, <2>3, <3>2
    <3> QED BY <2>5, <2>7, <2>11, <2>13, <2>15, <3>3
  <2> QED BY <2>2, <2>13, <2>14, <2>15 DEF GivenFrom
<1> QED BY <1>5, <1>6
---------------------------------------------------------------------------
(* In a session every branch is a conversation.                            *)
Converses(ls) == \A e \in Entered(ls) : Conversation(Branch(ls, e.id))

(* So it is in the session of version 1 that there may be, which is a      *)
(* condition only of what is proved of conversations.                      *)
OldConverses == Converses(Migrated(OldFile))

LEMMA EmptyConversation == <<>> \in Seq(Lines) /\ Conversation(<<>>)
<1>1. PICK p : p = <<>>
  OBVIOUS
<1>2. p \in Seq(Lines) /\ Len(p) = 0 /\ \A i \in 1 .. Len(p) : FALSE
  BY <1>1
<1>3. Rising(p) /\ KeepsOlder(p) /\ ResultsFollow(p)
  BY <1>2 DEF Rising, KeepsOlder, ResultsFollow
<1>4. PICK b \in 1 .. 1 : b = BoundaryStart(p)
  <2>1. BoundaryStart(p) \in 1 .. Len(p) + 1
    BY <1>2, BoundaryIn
  <2> QED BY <1>2, <2>1
<1>5. \A i \in b .. Len(p) : FALSE
  BY <1>2
<1>6. \A i \in 1 .. b - 1 : FALSE
  OBVIOUS
<1>7. CleanFrom(p, b) /\ ToldBefore(p, b)
  BY <1>5, <1>6 DEF CleanFrom, ToldBefore
<1> QED BY <1>1, <1>2, <1>3, <1>4, <1>7 DEF Conversation

(* An entry is younger than the branch it is appended to.                  *)
LEMMA BranchBelow ==
    ASSUME NEW ls, Tree(ls), NEW id \in Ids(ls) \cup {0}
    PROVE  \A k \in 1 .. Len(Branch(ls, id)) : Branch(ls, id)[k].id <= id
<1> DEFINE Below(i) == \A k \in 1 .. Len(Branch(ls, i)) : Branch(ls, i)[k].id <= i
<1>1. PICK Bad : Bad = {i \in Ids(ls) \cup {0} : ~Below(i)}
  OBVIOUS
<1>2. ASSUME Bad # {} PROVE FALSE
  <2>1. Bad \in SUBSET Nat
    <3>1. \A i \in Ids(ls) : i \in Nat
      BY EntryOf
    <3> QED BY <1>1, <3>1
  <2>2. PICK i \in Bad : \A j \in Bad : i <= j
    BY <1>2, <2>1, Least
  <2>3. i \in Ids(ls) \cup {0} /\ ~Below(i) /\ i \in Nat
    BY <1>1, <2>1
  <2>4. i # 0
    <3>1. ASSUME i = 0 PROVE FALSE
      <4>1. Branch(ls, i) = <<>> /\ Len(<<>>) = 0
        BY <3>1, BranchStep
      <4>2. \A k \in 1 .. Len(Branch(ls, i)) : FALSE
        BY <4>1
      <4> QED BY <2>3, <4>2
    <3> QED BY <3>1
  <2>5. PICK e \in Entered(ls) : e = Entry(ls, i) /\ e.id = i /\ e \in Lines
    BY <2>3, <2>4, EntryOf DEF Tree
  <2>6. e.parent \in 0 .. i - 1 /\ e.parent \in Ids(ls) \cup {0}
    BY <2>3, <2>4, <2>5, ParentOlder
  <2>7. Below(e.parent)
    <3>1. e.parent \notin Bad
      BY <2>1, <2>2, <2>6
    <3> QED BY <1>1, <2>6, <3>1
  <2>8. PICK q \in Seq(Lines) : q = Branch(ls, e.parent)
    BY <2>6, BranchTyped
  <2>9. PICK p : p = Append(q, e)
    OBVIOUS
  <2>10. Branch(ls, i) = p
    BY <2>5, <2>8, <2>9, BranchStep
  <2>11. OneMore(q, e, p)
    BY <2>5, <2>8, <2>9, AppendGrown
  <2>12. ASSUME NEW k \in 1 .. Len(p) PROVE p[k].id <= i
    <3>1. CASE k \in 1 .. Len(q) /\ p[k] = q[k]
      <4>1. q[k].id <= e.parent
        BY <2>7, <2>8, <3>1
      <4>2. q[k].id \in Nat
        BY <2>8, <3>1, LineTyped
      <4> QED BY <2>3, <2>6, <3>1, <4>1, <4>2
    <3>2. CASE k = Len(q) + 1 /\ p[k] = e
      BY <2>3, <2>5, <3>2
    <3> QED BY <2>11, <3>1, <3>2, GrownAt
  <2> QED BY <2>3, <2>10, <2>12
<1> QED BY <1>1, <1>2

LEMMA BranchAbove ==
    ASSUME NEW ls, Tree(ls), NEW e \in Lines, e.parent \in Ids(ls) \cup {0}, e.parent < e.id
    PROVE  Above(Branch(ls, e.parent), e)
<1>1. PICK q \in Seq(Lines) : q = Branch(ls, e.parent)
  BY BranchTyped
<1>2. \A k \in 1 .. Len(q) : q[k].id <= e.parent /\ q[k].id \in Nat
  BY <1>1, BranchBelow, LineTyped
<1>3. e.id \in Nat /\ e.parent \in Nat
  BY DEF Lines
<1>4. \A k \in 1 .. Len(q) : q[k].id < e.id
  BY <1>2, <1>3
<1> QED BY <1>1, <1>4 DEF Above

LEMMA ConversesSub ==
    ASSUME NEW ls, NEW more, Tree(ls), Tree(more), Entered(ls) \subseteq Entered(more), Converses(more)
    PROVE  Converses(ls)
<1> SUFFICES ASSUME NEW e \in Entered(ls) PROVE Conversation(Branch(ls, e.id))
  BY DEF Converses
<1>1. e.id \in Ids(ls) /\ e \in Entered(more)
  BY IdsEntered
<1>2. Branch(more, e.id) = Branch(ls, e.id)
  BY <1>1, BranchKept
<1> QED BY <1>1, <1>2 DEF Converses

(* An entry continues the conversation it is appended to.                  *)
Continues(e, ls) == Conversation(Branch(ls, e.parent)) => Conversation(Append(Branch(ls, e.parent), e))

LEMMA ConversesMore ==
    ASSUME NEW ls, NEW more, Tree(ls), Tree(more), Entered(ls) \subseteq Entered(more), Converses(ls),
           \A e \in Entered(more) : e \in Entered(ls) \/ Continues(e, more)
    PROVE  Converses(more)
<1>1. PICK Bad : Bad = {i \in Ids(more) : ~Conversation(Branch(more, i))}
  OBVIOUS
<1>2. ASSUME Bad # {} PROVE FALSE
  <2>1. Bad \in SUBSET Nat
    BY <1>1, EntryOf
  <2>2. PICK i \in Bad : \A j \in Bad : i <= j
    BY <1>2, <2>1, Least
  <2>3. i \in Ids(more) /\ ~Conversation(Branch(more, i)) /\ i \in Nat
    BY <1>1, <2>1
  <2>4. PICK e \in Entered(more) : e = Entry(more, i) /\ e.id = i /\ i # 0
    BY <2>3, EntryOf
  <2>5. CASE e \in Entered(ls)
    <3>1. e.id \in Ids(ls)
      BY <2>5, IdsEntered
    <3>2. Branch(more, i) = Branch(ls, i)
      BY <2>4, <3>1, BranchKept
    <3> QED BY <2>3, <2>4, <2>5, <3>2 DEF Converses
  <2>6. CASE Continues(e, more)
    <3>1. e.parent \in 0 .. i - 1 /\ e.parent \in Ids(more) \cup {0}
      BY <2>3, <2>4, ParentOlder
    <3>2. Conversation(Branch(more, e.parent))
      <4>1. CASE e.parent = 0
        BY <4>1, EmptyConversation, BranchStep
      <4>2. CASE e.parent # 0
        <5>1. e.parent \notin Bad
          BY <2>1, <2>2, <3>1
        <5> QED BY <1>1, <3>1, <4>2, <5>1
      <4> QED BY <4>1, <4>2
    <3>3. Branch(more, i) = Append(Branch(more, e.parent), e)
      BY <2>4, BranchStep
    <3> QED BY <2>3, <2>6, <3>2, <3>3 DEF Continues
  <2> QED BY <2>5, <2>6
<1>3. ASSUME NEW e \in Entered(more) PROVE Conversation(Branch(more, e.id))
  BY <1>1, <1>2, IdsEntered
<1> QED BY <1>3 DEF Converses

(* Anything but a result or a compaction continues a conversation.         *)
LEMMA OtherContinues ==
    ASSUME NEW ls, Tree(ls), NEW e \in Lines, e.parent \in Ids(ls) \cup {0}, e.parent < e.id,
           e.type \notin {"compaction", "toolResult"}
    PROVE  Continues(e, ls)
<1>1. PICK p \in Seq(Lines) : p = Branch(ls, e.parent)
  BY BranchTyped
<1>2. Above(p, e)
  BY <1>1, BranchAbove
<1>3. PICK q : q = Append(p, e)
  OBVIOUS
<1>4. OneMore(p, e, q)
  BY <1>3, AppendGrown
<1>5. Conversation(p) => Conversation(q)
  BY <1>2, <1>4, OtherFollows
<1> QED BY <1>1, <1>3, <1>5 DEF Continues
---------------------------------------------------------------------------
(* What a list of lines must be like to be a session when origin is o:     *)
(* every beginning of one is one, too, since a parent has its line before. *)
OlderLine(ls, i) ==
    ls[i].parent = 0 \/ (ls[i].parent < ls[i].id /\ \E j \in 1 .. i - 1 : IsEntry(ls[j]) /\ ls[j].id = ls[i].parent)

SoundLine(ls, i, n) == IsEntry(ls[i]) /\ ls[i].id \in 1 .. n /\ OlderLine(ls, i)

OneEntryPerId(E) == \A d, e \in E : d.id = e.id => d = e

Sound(ls, n) ==
    /\ \A i \in 1 .. Len(ls) : ls[i] = Header \/ SoundLine(ls, i, n)
    /\ OneEntryPerId(Entered(ls))

Remembers(ls, o) ==
    \A e \in Range(ls) : e.type \in Unlabelled => e.id \in DOMAIN o /\ PathIds(ls, e.id) = o[e.id]

(* The history of its entries, and that its branches are conversations.    *)
Keeps(ls, o) == Remembers(ls, o) /\ (OldConverses => Converses(ls))

LEMMA HeaderLine == Header \in Lines /\ ~IsEntry(Header) /\ Header.type \in SessionTypes
BY DEF Header, Mark, Line, Lines, IsEntry, EntryTypes, MessageTypes, SessionTypes

LEMMA SoundTree ==
    ASSUME NEW ls \in Seq(Lines), NEW n \in Nat, n <= MaxEntries, Sound(ls, n)
    PROVE  Tree(ls)
<1> SUFFICES ASSUME NEW e \in Entered(ls)
             PROVE  /\ e \in Lines /\ e.id \in 1 .. MaxEntries
                    /\ e.parent = 0 \/ (e.parent \in Ids(ls) /\ e.parent < e.id)
                    /\ \A d \in Entered(ls) : d.id = e.id => d = e
  BY DEF Tree
<1>1. MaxEntries \in Nat
  BY BoundsAssumption
<1>2. PICK i \in 1 .. Len(ls) : ls[i] = e
  BY RangeOf DEF Entered
<1>3. IsEntry(e) /\ e \in Lines
  BY <1>2 DEF Entered
<1>4. SoundLine(ls, i, n)
  BY <1>2, <1>3, HeaderLine DEF Sound
<1>5. e.id \in 1 .. MaxEntries
  BY <1>1, <1>2, <1>4 DEF SoundLine
<1>6. ASSUME e.parent # 0 PROVE e.parent \in Ids(ls) /\ e.parent < e.id
  <2>1. PICK j \in 1 .. i - 1 : IsEntry(ls[j]) /\ ls[j].id = ls[i].parent
    BY <1>2, <1>4, <1>6 DEF SoundLine, OlderLine
  <2>2. j \in 1 .. Len(ls)
    OBVIOUS
  <2>3. ls[j] \in Entered(ls)
    BY <2>1, <2>2, RangeOf DEF Entered
  <2> QED BY <1>2, <1>4, <1>6, <2>1, <2>3, IdsEntered DEF SoundLine, OlderLine
<1> QED BY <1>3, <1>5, <1>6 DEF Sound, OneEntryPerId

LEMMA SoundMore ==
    ASSUME NEW ls \in Seq(Lines), NEW n \in Nat, NEW m \in Nat, n <= m, Sound(ls, n)
    PROVE  Sound(ls, m)
<1>1. \A i \in 1 .. Len(ls) : ls[i] = Header \/ SoundLine(ls, i, n)
  BY DEF Sound
<1>2. \A i \in 1 .. Len(ls) : ls[i] = Header \/ SoundLine(ls, i, m)
  BY <1>1 DEF SoundLine
<1> QED BY <1>2 DEF Sound

LEMMA SoundPrefix ==
    ASSUME NEW ls \in Seq(Lines), NEW n \in Nat, Sound(ls, n), NEW k \in 0 .. Len(ls)
    PROVE  /\ SubSeq(ls, 1, k) \in Seq(Lines) /\ Len(SubSeq(ls, 1, k)) = k
           /\ Sound(SubSeq(ls, 1, k), n) /\ Range(SubSeq(ls, 1, k)) \subseteq Range(ls)
<1>1. PICK p : p = SubSeq(ls, 1, k)
  OBVIOUS
<1>2. p \in Seq(Lines) /\ Len(p) = k /\ \A i \in 1 .. k : p[i] = ls[i]
  BY <1>1
<1>3. Range(p) \subseteq Range(ls)
  BY <1>2, RangeOf
<1>4. OneEntryPerId(Entered(p))
  BY <1>3 DEF OneEntryPerId, Entered, Sound
<1>5. ASSUME NEW i \in 1 .. Len(p) PROVE p[i] = Header \/ SoundLine(p, i, n)
  <2>1. i \in 1 .. Len(ls) /\ p[i] = ls[i] /\ \A j \in 1 .. i - 1 : p[j] = ls[j]
    BY <1>2
  <2>2. ls[i] = Header \/ SoundLine(ls, i, n)
    BY <2>1 DEF Sound
  <2> QED BY <2>1, <2>2 DEF SoundLine, OlderLine
<1>6. Sound(p, n)
  BY <1>4, <1>5 DEF Sound
<1> QED BY <1>1, <1>2, <1>3, <1>6

LEMMA SoundConcat ==
    ASSUME NEW ls \in Seq(Lines), NEW more \in Seq(Lines), NEW n \in Nat, Sound(ls, n), Sound(more, n),
           OneEntryPerId(Entered(ls) \cup Entered(more))
    PROVE  ls \o more \in Seq(Lines) /\ Sound(ls \o more, n) /\ Range(ls \o more) = Range(ls) \cup Range(more)
<1>1. PICK p : p = ls \o more
  OBVIOUS
<1>2. /\ p \in Seq(Lines) /\ Len(p) = Len(ls) + Len(more) /\ Len(ls) \in Nat /\ Len(more) \in Nat
      /\ \A i \in 1 .. Len(ls) : p[i] = ls[i]
      /\ \A i \in 1 .. Len(more) : p[Len(ls) + i] = more[i]
  BY <1>1
<1>3. Range(p) = Range(ls) \cup Range(more)
  <2>1. Range(p) \subseteq Range(ls) \cup Range(more)
    <3>1. SUFFICES ASSUME NEW i \in 1 .. Len(p) PROVE p[i] \in Range(ls) \cup Range(more)
      BY <1>2, RangeOf
    <3>2. CASE i <= Len(ls)
      BY <1>2, <3>2, RangeOf
    <3>3. CASE ~(i <= Len(ls))
      <4>1. PICK j \in 1 .. Len(more) : i = Len(ls) + j
        <5>1. i - Len(ls) \in 1 .. Len(more) /\ i = Len(ls) + (i - Len(ls))
          BY <1>2, <3>3
        <5> QED BY <5>1
      <4> QED BY <1>2, <4>1, RangeOf
    <3> QED BY <3>2, <3>3
  <2>2. Range(ls) \subseteq Range(p)
    <3>1. \A i \in 1 .. Len(ls) : i \in 1 .. Len(p)
      BY <1>2
    <3> QED BY <1>2, <3>1, RangeOf
  <2>3. Range(more) \subseteq Range(p)
    <3>1. SUFFICES ASSUME NEW i \in 1 .. Len(more) PROVE more[i] \in Range(p)
      BY RangeOf
    <3>2. Len(ls) + i \in 1 .. Len(p) /\ p[Len(ls) + i] = more[i]
      BY <1>2
    <3>3. PICK k \in 1 .. Len(p) : k = Len(ls) + i
      BY <3>2
    <3>4. Range(p) = {p[j] : j \in 1 .. Len(p)}
      BY <1>2, RangeOf
    <3>5. p[k] \in Range(p)
      BY <3>4
    <3> QED BY <3>2, <3>3, <3>5
  <2> QED BY <2>1, <2>2, <2>3
<1>4. OneEntryPerId(Entered(p))
  BY <1>3 DEF OneEntryPerId, Entered
<1>5. ASSUME NEW i \in 1 .. Len(p) PROVE p[i] = Header \/ SoundLine(p, i, n)
  <2>1. CASE i <= Len(ls)
    <3>1. i \in 1 .. Len(ls) /\ p[i] = ls[i] /\ \A j \in 1 .. i - 1 : p[j] = ls[j]
      <4>1. i \in 1 .. Len(ls) /\ \A j \in 1 .. i - 1 : j \in 1 .. Len(ls)
        BY <1>2, <2>1
      <4> QED BY <1>2, <4>1
    <3>2. ls[i] = Header \/ SoundLine(ls, i, n)
      BY <3>1 DEF Sound
    <3> QED BY <3>1, <3>2 DEF SoundLine, OlderLine
  <2>2. CASE ~(i <= Len(ls))
    <3>1. PICK j \in 1 .. Len(more) : i = Len(ls) + j
      <4>1. i - Len(ls) \in 1 .. Len(more) /\ i = Len(ls) + (i - Len(ls))
        BY <1>2, <2>2
      <4> QED BY <4>1
    <3>2. more[j] = Header \/ SoundLine(more, j, n)
      BY DEF Sound
    <3>3. p[i] = more[j]
      BY <1>2, <3>1
    <3>4. ASSUME SoundLine(more, j, n) PROVE SoundLine(p, i, n)
      <4>1. CASE more[j].parent = 0
        BY <3>3, <3>4, <4>1 DEF SoundLine, OlderLine
      <4>2. CASE more[j].parent # 0
        <5>1. PICK h \in 1 .. j - 1 : IsEntry(more[h]) /\ more[h].id = more[j].parent
          BY <3>4, <4>2 DEF SoundLine, OlderLine
        <5>2. Len(ls) + h \in 1 .. i - 1 /\ p[Len(ls) + h] = more[h]
          BY <1>2, <3>1
        <5>3. more[j].parent < more[j].id
          BY <3>4, <4>2 DEF SoundLine, OlderLine
        <5> QED BY <3>3, <3>4, <5>1, <5>2, <5>3 DEF SoundLine, OlderLine
      <4> QED BY <4>1, <4>2
    <3> QED BY <3>2, <3>3, <3>4
  <2> QED BY <2>1, <2>2
<1>6. Sound(p, n)
  BY <1>4, <1>5 DEF Sound
<1> QED BY <1>1, <1>2, <1>3, <1>6

LEMMA SoundAppend ==
    ASSUME NEW ls \in Seq(Lines), NEW n \in Nat, Sound(ls, n), NEW e \in Lines, IsEntry(e), e.id = n + 1,
           e.parent \in Ids(ls) \cup {0}
    PROVE  /\ Append(ls, e) \in Seq(Lines) /\ Sound(Append(ls, e), n + 1)
           /\ Range(Append(ls, e)) = Range(ls) \cup {e}
<1>1. PICK p : p = Append(ls, e)
  OBVIOUS
<1>2. /\ p \in Seq(Lines) /\ Len(p) = Len(ls) + 1 /\ Len(ls) \in Nat /\ p[Len(p)] = e
      /\ \A i \in 1 .. Len(ls) : p[i] = ls[i]
  BY <1>1
<1>3. Range(p) = Range(ls) \cup {e}
  <2>1. Range(p) \subseteq Range(ls) \cup {e}
    BY <1>2, RangeOf
  <2>2. Range(ls) \subseteq Range(p)
    <3>1. \A i \in 1 .. Len(ls) : i \in 1 .. Len(p)
      BY <1>2
    <3> QED BY <1>2, <3>1, RangeOf
  <2>3. e \in Range(p)
    <3>1. Len(p) \in 1 .. Len(p)
      BY <1>2
    <3> QED BY <1>2, <3>1, RangeOf
  <2> QED BY <2>1, <2>2, <2>3
<1>4. \A d \in Entered(ls) : d.id \in 1 .. n
  <2> SUFFICES ASSUME NEW d \in Entered(ls) PROVE d.id \in 1 .. n
    OBVIOUS
  <2>1. PICK i \in 1 .. Len(ls) : ls[i] = d
    BY RangeOf DEF Entered
  <2>2. IsEntry(d)
    BY DEF Entered
  <2> QED BY <2>1, <2>2, HeaderLine DEF Sound, SoundLine
<1>5. OneEntryPerId(Entered(p))
  <2>1. Entered(p) \subseteq Entered(ls) \cup {e}
    BY <1>3 DEF Entered
  <2>2. OneEntryPerId(Entered(ls)) /\ \A d \in Entered(ls) : d.id # e.id
    BY <1>4 DEF Sound
  <2> QED BY <2>1, <2>2 DEF OneEntryPerId
<1>6. ASSUME NEW i \in 1 .. Len(p) PROVE p[i] = Header \/ SoundLine(p, i, n + 1)
  <2>1. CASE i <= Len(ls)
    <3>1. i \in 1 .. Len(ls) /\ p[i] = ls[i] /\ \A j \in 1 .. i - 1 : p[j] = ls[j]
      BY <1>2, <2>1
    <3>2. ls[i] = Header \/ SoundLine(ls, i, n)
      BY <3>1 DEF Sound
    <3> QED BY <3>1, <3>2 DEF SoundLine, OlderLine
  <2>2. CASE ~(i <= Len(ls))
    <3>1. i = Len(p) /\ p[i] = e
      BY <1>2, <2>2
    <3>2. ASSUME e.parent # 0 PROVE e.parent < e.id /\ \E j \in 1 .. i - 1 : IsEntry(p[j]) /\ p[j].id = e.parent
      <4>1. PICK d \in Entered(ls) : d.id = e.parent
        BY <3>2, IdsEntered
      <4>2. PICK j \in 1 .. Len(ls) : ls[j] = d
        BY RangeOf DEF Entered
      <4>3. IsEntry(d)
        BY DEF Entered
      <4>4. e.parent \in 1 .. n
        BY <1>4, <4>1
      <4>5. j \in 1 .. i - 1 /\ p[j] = d
        BY <1>2, <3>1, <4>2
      <4> QED BY <4>1, <4>3, <4>4, <4>5
    <3>3. e.id \in 1 .. n + 1
      OBVIOUS
    <3> QED BY <3>1, <3>2, <3>3 DEF SoundLine, OlderLine
  <2> QED BY <2>1, <2>2
<1>7. Sound(p, n + 1)
  BY <1>5, <1>6 DEF Sound
<1> QED BY <1>1, <1>2, <1>3, <1>7

(* The history of an entry is the same in every session that has it.       *)
LEMMA KeepsSub ==
    ASSUME NEW ls, NEW more, NEW o, Tree(ls), Tree(more), Entered(ls) \subseteq Entered(more), Keeps(more, o)
    PROVE  Keeps(ls, o)
<1>0. OldConverses => Converses(ls)
  BY ConversesSub DEF Keeps
<1> SUFFICES ASSUME NEW e \in Range(ls), e.type \in Unlabelled
             PROVE  e.id \in DOMAIN o /\ PathIds(ls, e.id) = o[e.id]
  BY <1>0 DEF Keeps, Remembers
<1>1. e \in Entered(ls)
  BY DEF Entered, IsEntry, Unlabelled
<1>2. e \in Range(more)
  BY <1>1 DEF Entered
<1>3. e.id \in DOMAIN o /\ PathIds(more, e.id) = o[e.id]
  BY <1>2 DEF Keeps, Remembers
<1>4. e.id \in Ids(ls)
  BY <1>1, IdsEntered
<1>5. Branch(more, e.id) = Branch(ls, e.id)
  BY <1>4, BranchKept
<1> QED BY <1>3, <1>5 DEF PathIds

LEMMA KeepsLonger ==
    ASSUME NEW ls, NEW o, NEW more, DOMAIN o \subseteq DOMAIN more, \A i \in DOMAIN o : more[i] = o[i], Keeps(ls, o)
    PROVE  Keeps(ls, more)
BY DEF Keeps, Remembers
---------------------------------------------------------------------------
(* Processes may die while they write; writes do not fail, and no line is  *)
(* torn.                                                                   *)
OnlyCrashes == Faults \subseteq {"crash", "crashRewrite"}

(* The invariant, as a predicate of the values of the variables.           *)
Session(ls, o) == ls \in Seq(Lines) /\ Sound(ls, Len(o)) /\ Keeps(ls, o)

Readable(c, o) == Session(c, o) /\ c # <<>> /\ c[1] = Header

NoSession(c) ==
    c \in Seq(Lines) /\ Loaded(c) = <<>> /\ \A i \in 1 .. Len(c) : c[i].type # "torn"

MayHold(c, o) == c = Absent \/ c = OldFile \/ NoSession(c) \/ Readable(c, o)

DiskInv(d, o) ==
    /\ d \in [Files -> Seq(Lines) \cup {Absent}]
    /\ \A f \in Files : MayHold(d[f], o)

(* The history of a version-1 session is a chain.                          *)
Chained(o) ==
    Len(OldFile) - 1 <= Len(o) /\ \A i \in 1 .. Len(OldFile) - 1 : o[i] = [j \in 1 .. i |-> j]

HistoryInv(d, o) ==
    /\ o \in Seq(Seq(Nat)) /\ Len(o) <= MaxEntries
    /\ (\E f \in Files : d[f] = OldFile) => Chained(o)

MemoryInv(f, ls, leaf, isFlushed, labels, o) ==
    /\ f \in Files \cup {0} /\ isFlushed \in BOOLEAN
    /\ Session(ls, o) /\ leaf \in Ids(ls) \cup {0} /\ labels \subseteq Ids(ls)
    /\ f = 0 => ls = <<>>
    /\ f # 0 => ls # <<>> /\ ls[1] = Header

(* What the file of the open session has, memory has; once the model has   *)
(* answered, the file has all of it.                                       *)
OpenInv(d, f, ls, isFlushed, o) ==
    f # 0 => /\ d[f] # Absent => Readable(d[f], o) /\ Entered(d[f]) \subseteq Entered(ls)
             /\ isFlushed => d[f] # Absent /\ Entered(d[f]) = Entered(ls)
             /\ HasAssistant(ls) => isFlushed

SessionInv ==
    /\ DiskInv(disk, origin) /\ HistoryInv(disk, origin)
    /\ MemoryInv(file, fileEntries, leafId, flushed, labelsById, origin)
    /\ OpenInv(disk, file, fileEntries, flushed, origin)

LEMMA SessionTree ==
    ASSUME NEW ls, NEW o, Session(ls, o), NEW S, o \in Seq(S), Len(o) <= MaxEntries
    PROVE  Tree(ls)
<1>1. Len(o) \in Nat
  OBVIOUS
<1> QED BY <1>1, SoundTree DEF Session

(* Every line of a session is the header or an entry: it is read as it is. *)
LEMMA SessionLineTypes ==
    ASSUME NEW ls, NEW n, Sound(ls, n), NEW i \in 1 .. Len(ls)
    PROVE  ls[i].type \in EntryTypes \cup SessionTypes /\ (ls[i] = Header \/ IsEntry(ls[i]))
<1>1. ls[i] = Header \/ SoundLine(ls, i, n)
  BY DEF Sound
<1> QED BY <1>1, HeaderLine DEF SoundLine, IsEntry

LEMMA ReadableLoaded ==
    ASSUME NEW c, NEW o, Readable(c, o)
    PROVE  Loaded(c) = c /\ Repaired(c) = c
<1>1. c \in Seq(Lines) /\ \A i \in 1 .. Len(c) : c[i].type \in EntryTypes \cup SessionTypes
  BY SessionLineTypes DEF Readable, Session
<1>2. Only(c, EntryTypes \cup SessionTypes) = c
  BY <1>1, OnlyAll
<1>3. c # <<>> /\ c[1] = Header
  BY DEF Readable
<1>4. Loaded(c) = c
  BY <1>2, <1>3, HeaderLine DEF Loaded
<1>5. Header.type # "oldSession"
  BY DEF Header, Mark, Line
<1> QED BY <1>3, <1>4, <1>5 DEF Repaired

LEMMA NoSessionRepaired ==
    ASSUME NEW c, Loaded(c) = <<>>
    PROVE  Repaired(c) = <<Header>>
BY DEF Repaired

LEMMA NothingLoaded == Loaded(<<>>) = <<>>
BY OnlyEmpty DEF Loaded

LEMMA HeaderSession ==
    ASSUME NEW o, NEW S, o \in Seq(S)
    PROVE  /\ Session(<<>>, o) /\ Readable(<<Header>>, o)
           /\ Ids(<<>>) = {} /\ Ids(<<Header>>) = {} /\ Entered(<<>>) = {} /\ Entered(<<Header>>) = {}
<1>1. <<>> \in Seq(Lines) /\ <<Header>> \in Seq(Lines)
  BY HeaderLine
<1>2. Range(<<>>) = {} /\ Range(<<Header>>) = {Header}
  <2>1. DOMAIN <<>> = {} /\ DOMAIN <<Header>> = {1} /\ <<Header>>[1] = Header
    OBVIOUS
  <2> QED BY <2>1 DEF Range
<1>3. Entered(<<>>) = {} /\ Entered(<<Header>>) = {}
  BY <1>2, HeaderLine DEF Entered
<1>4. Ids(<<>>) = {} /\ Ids(<<Header>>) = {}
  BY <1>3, IdsEntered
<1>5. Sound(<<>>, Len(o)) /\ Sound(<<Header>>, Len(o))
  <2>1. OneEntryPerId({})
    BY DEF OneEntryPerId
  <2>2. Len(<<>>) = 0 /\ Len(<<Header>>) = 1 /\ <<Header>>[1] = Header
    OBVIOUS
  <2>3. \A i \in 1 .. Len(<<>>) : FALSE
    BY <2>2
  <2>4. \A i \in 1 .. Len(<<Header>>) : <<Header>>[i] = Header
    BY <2>2
  <2>5. Sound(<<>>, Len(o))
    BY <1>3, <2>1, <2>3 DEF Sound
  <2> QED BY <1>3, <2>1, <2>4, <2>5 DEF Sound
<1>6. Keeps(<<>>, o) /\ Keeps(<<Header>>, o)
  <2>1. Header.type \notin Unlabelled
    BY HeaderLine DEF IsEntry, Unlabelled
  <2>2. Converses(<<>>) /\ Converses(<<Header>>)
    BY <1>3 DEF Converses
  <2> QED BY <1>2, <2>1, <2>2 DEF Keeps, Remembers
<1> QED BY <1>1, <1>3, <1>4, <1>5, <1>6 DEF Session, Readable

(* A beginning of a session, with its header, is one.                      *)
LEMMA SessionPrefix ==
    ASSUME NEW ls, NEW o, NEW S, o \in Seq(S), Len(o) <= MaxEntries, Session(ls, o),
           NEW k \in 0 .. Len(ls)
    PROVE  /\ Session(SubSeq(ls, 1, k), o) /\ Len(SubSeq(ls, 1, k)) = k
           /\ Entered(SubSeq(ls, 1, k)) \subseteq Entered(ls)
           /\ k # 0 => SubSeq(ls, 1, k)[1] = ls[1]
<1>1. PICK p : p = SubSeq(ls, 1, k)
  OBVIOUS
<1>2. Len(o) \in Nat /\ ls \in Seq(Lines) /\ Sound(ls, Len(o)) /\ Keeps(ls, o)
  BY DEF Session
<1>3. p \in Seq(Lines) /\ Len(p) = k /\ Sound(p, Len(o)) /\ Range(p) \subseteq Range(ls)
  BY <1>1, <1>2, SoundPrefix
<1>4. Entered(p) \subseteq Entered(ls)
  BY <1>3 DEF Entered
<1>5. Tree(ls) /\ Tree(p)
  BY <1>2, <1>3, SoundTree
<1>6. Keeps(p, o)
  BY <1>2, <1>4, <1>5, KeepsSub
<1>7. k # 0 => p[1] = ls[1]
  BY <1>1, <1>2
<1> QED BY <1>1, <1>3, <1>4, <1>6, <1>7 DEF Session

(* Two parts of one session after one another are a session.               *)
LEMMA SessionConcat ==
    ASSUME NEW ls, NEW more, NEW all, NEW o, NEW S, o \in Seq(S), Len(o) <= MaxEntries,
           Session(ls, o), Session(more, o), Session(all, o),
           Entered(ls) \subseteq Entered(all), Entered(more) \subseteq Entered(all)
    PROVE  /\ Session(ls \o more, o) /\ Entered(ls \o more) = Entered(ls) \cup Entered(more)
<1>1. PICK p : p = ls \o more
  OBVIOUS
<1>2. /\ Len(o) \in Nat /\ ls \in Seq(Lines) /\ Sound(ls, Len(o)) /\ more \in Seq(Lines) /\ Sound(more, Len(o))
      /\ all \in Seq(Lines) /\ Sound(all, Len(o)) /\ Keeps(all, o)
  BY DEF Session
<1>3. OneEntryPerId(Entered(ls) \cup Entered(more))
  BY <1>2 DEF OneEntryPerId, Sound
<1>4. p \in Seq(Lines) /\ Sound(p, Len(o)) /\ Range(p) = Range(ls) \cup Range(more)
  BY <1>1, <1>2, <1>3, SoundConcat
<1>5. Entered(p) = Entered(ls) \cup Entered(more)
  BY <1>4 DEF Entered
<1>6. Tree(p) /\ Tree(all)
  BY <1>2, <1>4, SoundTree
<1>7. Keeps(p, o)
  BY <1>2, <1>5, <1>6, KeepsSub
<1> QED BY <1>1, <1>4, <1>5, <1>7 DEF Session

(* What is said of a session stays true when there are more appends.       *)
Extends(o, more) ==
    /\ o \in Seq(Seq(Nat)) /\ more \in Seq(Seq(Nat)) /\ Len(o) <= Len(more) /\ Len(more) <= MaxEntries
    /\ \A i \in 1 .. Len(o) : more[i] = o[i]

LEMMA SessionLater ==
    ASSUME NEW ls, NEW o, NEW more, Extends(o, more), Session(ls, o)
    PROVE  Session(ls, more)
<1>1. Len(o) \in Nat /\ Len(more) \in Nat /\ Len(o) <= Len(more) /\ DOMAIN o = 1 .. Len(o) /\ DOMAIN more = 1 .. Len(more)
  BY DEF Extends
<1>2. DOMAIN o \subseteq DOMAIN more /\ \A i \in DOMAIN o : more[i] = o[i]
  BY <1>1 DEF Extends
<1> QED BY <1>1, <1>2, SoundMore, KeepsLonger DEF Session

LEMMA DiskLater ==
    ASSUME NEW d, NEW o, NEW more, Extends(o, more), DiskInv(d, o), HistoryInv(d, o)
    PROVE  DiskInv(d, more) /\ HistoryInv(d, more)
<1>1. ASSUME NEW c, MayHold(c, o) PROVE MayHold(c, more)
  BY <1>1, SessionLater DEF MayHold, Readable
<1>2. Chained(o) => Chained(more)
  <2> SUFFICES ASSUME Chained(o) PROVE Chained(more)
    OBVIOUS
  <2>1. Len(OldFile) - 1 <= Len(o) /\ Len(OldFile) \in Nat
    BY OldFileAssumption DEF Chained
  <2>2. Len(o) \in Nat /\ Len(more) \in Nat /\ Len(o) <= Len(more)
    BY DEF Extends
  <2>3. \A i \in 1 .. Len(OldFile) - 1 : i \in 1 .. Len(o)
    BY <2>1, <2>2
  <2>4. \A i \in 1 .. Len(OldFile) - 1 : more[i] = o[i]
    BY <2>3 DEF Extends
  <2>5. \A i \in 1 .. Len(OldFile) - 1 : o[i] = [j \in 1 .. i |-> j]
    BY DEF Chained
  <2>6. Len(OldFile) - 1 <= Len(more)
    BY <2>1, <2>2
  <2> QED BY <2>4, <2>5, <2>6 DEF Chained
<1>3. DiskInv(d, more)
  BY <1>1 DEF DiskInv
<1>4. HistoryInv(d, more)
  BY <1>2 DEF HistoryInv, Extends
<1> QED BY <1>3, <1>4

LEMMA OpenLater ==
    ASSUME NEW d, NEW f, NEW ls, NEW isFlushed, NEW o, NEW more, Extends(o, more), OpenInv(d, f, ls, isFlushed, o)
    PROVE  OpenInv(d, f, ls, isFlushed, more)
BY SessionLater DEF OpenInv, Readable

(* A version-1 session is read whole; migrated, its entries form a chain.  *)
LEMMA OldLoaded == Loaded(OldFile) = OldFile /\ OldFile # <<>>
<1>1. OldFile \in Seq(Lines) /\ OldFile # <<>> /\ OldFile[1].type = "oldSession"
  BY OldFileAssumption
<1>2. \A i \in 1 .. Len(OldFile) : OldFile[i].type \in EntryTypes \cup SessionTypes
  <2>1. SUFFICES ASSUME NEW i \in 1 .. Len(OldFile), i # 1 PROVE OldFile[i].type \in EntryTypes
    BY <1>1 DEF SessionTypes
  <2>2. i \in 2 .. Len(OldFile)
    BY <1>1, <2>1
  <2> QED BY <2>2, OldFileAssumption DEF Unlabelled
<1>3. Only(OldFile, EntryTypes \cup SessionTypes) = OldFile
  BY <1>1, <1>2, OnlyAll
<1> QED BY <1>1, <1>3 DEF Loaded, SessionTypes
---------------------------------------------------------------------------
(* What a write leaves on the disk.                                        *)
LEMMA LastNotTorn ==
    ASSUME NEW c \in Seq(Lines), c # <<>>, \A i \in 1 .. Len(c) : c[i].type # "torn"
    PROVE  Last(c) # Torn
<1>1. Len(c) \in 1 .. Len(c)
  OBVIOUS
<1>2. Last(c).type # "torn"
  BY <1>1 DEF Last
<1> QED BY <1>2 DEF Torn, Mark, Line

Clean(c) == c \in Seq(Lines) /\ \A i \in 1 .. Len(c) : c[i].type # "torn"

LEMMA ContentClean ==
    ASSUME NEW f \in Files, DiskInv(disk, origin), disk[f] = Absent \/ NoSession(disk[f]) \/ Readable(disk[f], origin)
    PROVE  Clean(Content(f))
<1>1. CASE disk[f] = Absent
  <2>1. Content(f) = <<>> /\ <<>> \in Seq(Lines) /\ Len(<<>>) = 0
    BY <1>1 DEF Content
  <2> QED BY <2>1 DEF Clean
<1>2. CASE disk[f] # Absent /\ NoSession(disk[f])
  BY <1>2 DEF Content, NoSession, Clean
<1>3. CASE disk[f] # Absent /\ Readable(disk[f], origin)
  <2>1. Content(f) = disk[f] /\ disk[f] \in Seq(Lines)
    BY <1>3 DEF Content, Readable, Session
  <2>2. \A i \in 1 .. Len(disk[f]) : disk[f][i].type \in EntryTypes \cup SessionTypes
    BY <1>3, SessionLineTypes DEF Readable, Session
  <2>3. "torn" \notin EntryTypes \cup SessionTypes
    BY DEF EntryTypes, SessionTypes, MessageTypes
  <2> QED BY <2>1, <2>2, <2>3 DEF Clean
<1> QED BY <1>1, <1>2, <1>3

LEMMA AppendedClean ==
    ASSUME NEW c, Clean(c), NEW ls
    PROVE  Appended(c, ls) = c \o ls
BY LastNotTorn DEF Appended, Clean

LEMMA NoTail == OnlyCrashes => "torn" \notin Faults /\ Faults \cap {"fail", "crash"} \subseteq {"crash"}
BY DEF OnlyCrashes

(* All of the lines, none of them or the first k.                          *)
WrittenAs(w, f, ls) ==
    \/ w.fate = "ok" /\ w.disk = [disk EXCEPT ![f] = Content(f) \o ls]
    \/ w.fate = "crash" /\ w.disk = disk
    \/ w.fate = "crash" /\ \E k \in 1 .. Len(ls) : w.disk = [disk EXCEPT ![f] = Content(f) \o SubSeq(ls, 1, k)]

LEMMA AppendOutcome ==
    ASSUME OnlyCrashes, disk \in [Files -> Seq(Lines) \cup {Absent}], NEW f \in Files, NEW ls \in Seq(Lines),
           Clean(Content(f)), NEW w \in AppendLines(f, ls)
    PROVE  WrittenAs(w, f, ls)
<1> SUFFICES \/ w.fate = "ok" /\ w.disk = [disk EXCEPT ![f] = Content(f) \o ls]
             \/ w.fate = "crash" /\ w.disk = disk
             \/ w.fate = "crash" /\ \E k \in 1 .. Len(ls) : w.disk = [disk EXCEPT ![f] = Content(f) \o SubSeq(ls, 1, k)]
  BY DEF WrittenAs
<1>1. CASE w = Outcome(f, Appended(Content(f), ls), "ok")
  BY <1>1, AppendedClean DEF Outcome
<1>2. CASE w \in CutShort(f, ls)
  <2>1. PICK k \in 0 .. Len(ls) - 1, tail \in {<<>>}, fate \in {"crash"} :
            w = Outcome(f, IF k = 0 /\ tail = <<>> THEN disk[f] ELSE Appended(Content(f), SubSeq(ls, 1, k) \o tail), fate)
    <3>1. PICK k \in 0 .. Len(ls) - 1, tail \in {<<>>} \cup (IF "torn" \in Faults THEN {<<Torn>>} ELSE {}),
               fate \in Faults \cap {"fail", "crash"} :
            w = Outcome(f, IF k = 0 /\ tail = <<>> THEN disk[f] ELSE Appended(Content(f), SubSeq(ls, 1, k) \o tail), fate)
      BY <1>2 DEF CutShort
    <3>2. tail \in {<<>>} /\ fate \in {"crash"}
      BY NoTail
    <3> QED BY <3>1, <3>2
  <2>2. CASE k = 0
    <3>1. w = Outcome(f, disk[f], "crash")
      BY <2>1, <2>2
    <3>2. [disk EXCEPT ![f] = disk[f]] = disk
      OBVIOUS
    <3> QED BY <3>1, <3>2 DEF Outcome
  <2>3. CASE k # 0
    <3>1. Len(ls) \in Nat /\ k \in 1 .. Len(ls)
      BY <2>3
    <3>2. SubSeq(ls, 1, k) \in Seq(Lines)
      BY <3>1
    <3>3. SubSeq(ls, 1, k) \o tail = SubSeq(ls, 1, k)
      BY <3>2
    <3>4. w = Outcome(f, Appended(Content(f), SubSeq(ls, 1, k)), "crash")
      BY <2>1, <2>3, <3>3
    <3>5. w = Outcome(f, Content(f) \o SubSeq(ls, 1, k), "crash")
      BY <3>4, AppendedClean
    <3> QED BY <3>1, <3>5 DEF Outcome
  <2> QED BY <2>2, <2>3
<1> QED BY <1>1, <1>2 DEF AppendLines

(* All of the lines or the first k, and nothing that was there before.     *)
RewrittenAs(w, f, ls) ==
    \/ w.fate = "ok" /\ w.disk = [disk EXCEPT ![f] = ls]
    \/ w.fate = "crash" /\ \E k \in 0 .. Len(ls) : w.disk = [disk EXCEPT ![f] = SubSeq(ls, 1, k)]

LEMMA RewriteOutcome ==
    ASSUME OnlyCrashes, NEW f \in Files, NEW ls \in Seq(Lines), NEW w \in Rewrite(f, ls)
    PROVE  RewrittenAs(w, f, ls)
<1> SUFFICES \/ w.fate = "ok" /\ w.disk = [disk EXCEPT ![f] = ls]
             \/ w.fate = "crash" /\ \E k \in 0 .. Len(ls) : w.disk = [disk EXCEPT ![f] = SubSeq(ls, 1, k)]
  BY DEF RewrittenAs
<1>1. Len(ls) \in Nat
  OBVIOUS
<1>2. CASE w = Outcome(f, ls, "ok")
  BY <1>2 DEF Outcome
<1>3. CASE w \in {Outcome(f, SubSeq(ls, 1, k), "crash") : k \in IF "crashRewrite" \in Faults THEN 0 .. Len(ls) - 1 ELSE {}}
  <2>1. PICK k \in 0 .. Len(ls) - 1 : w = Outcome(f, SubSeq(ls, 1, k), "crash")
    BY <1>3
  <2>2. k \in 0 .. Len(ls)
    BY <1>1
  <2> QED BY <2>1, <2>2 DEF Outcome
<1>4. Faults \cap {"fail"} = {}
  BY DEF OnlyCrashes
<1> QED BY <1>2, <1>3, <1>4 DEF Rewrite

(* A write to one file, of what a file may hold.                           *)
LEMMA DiskWritten ==
    ASSUME NEW d, NEW o, DiskInv(d, o), HistoryInv(d, o), NEW f \in Files, NEW c \in Seq(Lines),
           NoSession(c) \/ Readable(c, o)
    PROVE  DiskInv([d EXCEPT ![f] = c], o) /\ HistoryInv([d EXCEPT ![f] = c], o)
<1>1. PICK e : e = [d EXCEPT ![f] = c]
  OBVIOUS
<1>2. e \in [Files -> Seq(Lines) \cup {Absent}] /\ e[f] = c /\ \A g \in Files \ {f} : e[g] = d[g]
  BY <1>1 DEF DiskInv
<1>3. MayHold(c, o)
  BY DEF MayHold
<1>4. DiskInv(e, o)
  BY <1>2, <1>3 DEF DiskInv
<1>5. c # OldFile
  <2>1. ASSUME c = OldFile PROVE FALSE
    <3>1. CASE Readable(c, o)
      BY <2>1, <3>1, OldFileAssumption DEF Readable, Header, Mark, Line
    <3>2. CASE NoSession(c)
      BY <2>1, <3>2, OldLoaded DEF NoSession
    <3> QED BY <3>1, <3>2
  <2> QED BY <2>1
<1>6. (\E g \in Files : e[g] = OldFile) => \E g \in Files : d[g] = OldFile
  BY <1>2, <1>5
<1> QED BY <1>1, <1>4, <1>6 DEF HistoryInv

LEMMA EmptyIsNoSession == NoSession(<<>>)
<1>1. <<>> \in Seq(Lines) /\ Len(<<>>) = 0
  OBVIOUS
<1> QED BY <1>1, NothingLoaded DEF NoSession
---------------------------------------------------------------------------
LEMMA ForgottenKeeps ==
    ASSUME DiskInv(disk', origin'), HistoryInv(disk', origin'), Forgotten
    PROVE  SessionInv'
<1>1. file' = 0 /\ fileEntries' = <<>> /\ leafId' = 0 /\ flushed' = FALSE /\ labelsById' = {}
  BY DEF Forgotten, Memory
<1>2. PICK o : o = origin'
  OBVIOUS
<1>3. Session(<<>>, o)
  BY <1>2, HeaderSession DEF HistoryInv
<1>4. MemoryInv(0, <<>>, 0, FALSE, {}, o)
  BY <1>3 DEF MemoryInv
<1>5. OpenInv(disk', 0, <<>>, FALSE, o)
  BY DEF OpenInv
<1>6. MemoryInv(file', fileEntries', leafId', flushed', labelsById', origin')
  BY <1>1, <1>2, <1>4
<1>7. OpenInv(disk', file', fileEntries', flushed', origin')
  BY <1>1, <1>2, <1>5
<1> QED BY <1>6, <1>7 DEF SessionInv

LEMMA PathIdsTyped ==
    ASSUME NEW ls, Tree(ls), NEW id \in Ids(ls) \cup {0}
    PROVE  PathIds(ls, id) \in Seq(Nat)
<1>1. Branch(ls, id) \in Seq(Lines)
  BY BranchTyped
<1>2. PICK p \in Seq(Lines) : p = Only(Branch(ls, id), Unlabelled)
  BY <1>1, OnlyTyped
<1>3. \A i \in 1 .. Len(p) : p[i] \in Lines
  OBVIOUS
<1>4. \A i \in 1 .. Len(p) : p[i].id \in Nat
  BY <1>3 DEF Lines
<1>5. [i \in 1 .. Len(p) |-> p[i].id] \in Seq(Nat)
  BY <1>4
<1>6. DOMAIN p = 1 .. Len(p)
  OBVIOUS
<1> QED BY <1>2, <1>5, <1>6 DEF PathIds, IdSeq

(* An entry appended to a session.                                         *)
Joins(e, ls, o) ==
    /\ o \in Seq(Seq(Nat)) /\ Len(o) < MaxEntries /\ Session(ls, o)
    /\ e \in Lines /\ IsEntry(e) /\ e.id = Len(o) + 1 /\ e.parent \in Ids(ls) \cup {0}
    /\ Continues(e, ls)

Joined(e, ls, o) ==
    LET p    == Append(ls, e)
        more == Append(o, PathIds(p, e.id))
    IN  /\ Session(p, more) /\ Extends(o, more) /\ Len(more) = Len(o) + 1
        /\ Entered(p) = Entered(ls) \cup {e} /\ p # <<>>
        /\ ls # <<>> => p[1] = ls[1]

LEMMA EntryAppended ==
    ASSUME NEW ls, NEW o, NEW e, Joins(e, ls, o)
    PROVE  Joined(e, ls, o)
<1> DEFINE more == Append(o, PathIds(Append(ls, e), e.id))
<1>0. /\ o \in Seq(Seq(Nat)) /\ Len(o) < MaxEntries /\ Session(ls, o)
      /\ e \in Lines /\ IsEntry(e) /\ e.id = Len(o) + 1 /\ e.parent \in Ids(ls) \cup {0}
      /\ Continues(e, ls)
  BY DEF Joins
<1>1. PICK n \in Nat : n = Len(o)
  BY <1>0
<1>2. PICK p : p = Append(ls, e)
  OBVIOUS
<1>3. MaxEntries \in Nat /\ n + 1 <= MaxEntries
  BY <1>0, <1>1, BoundsAssumption
<1>4. ls \in Seq(Lines) /\ Sound(ls, n) /\ Keeps(ls, o)
  BY <1>0, <1>1 DEF Session
<1>5. p \in Seq(Lines) /\ Sound(p, n + 1) /\ Range(p) = Range(ls) \cup {e}
  BY <1>0, <1>1, <1>2, <1>4, SoundAppend
<1>6. Entered(p) = Entered(ls) \cup {e}
  BY <1>0, <1>5 DEF Entered
<1>7. Tree(ls) /\ Tree(p)
  BY <1>0, <1>3, <1>4, <1>5, SoundTree
<1>8. e.id \in Ids(p)
  BY <1>0, <1>6, IdsEntered
<1>9. PathIds(p, e.id) \in Seq(Nat)
  BY <1>0, <1>7, <1>8, PathIdsTyped
<1>10. more \in Seq(Seq(Nat)) /\ Len(more) = n + 1 /\ more[n + 1] = PathIds(p, e.id) /\ \A i \in 1 .. n : more[i] = o[i]
  BY <1>0, <1>1, <1>2, <1>9
<1>11. Extends(o, more)
  BY <1>0, <1>1, <1>3, <1>10 DEF Extends
<1>120. OldConverses => Converses(p)
  <2> SUFFICES ASSUME OldConverses PROVE Converses(p)
    OBVIOUS
  <2>1. Converses(ls)
    BY <1>4 DEF Keeps
  <2>2. Branch(p, e.parent) = Branch(ls, e.parent)
    BY <1>0, <1>6, <1>7, BranchKept
  <2>3. Continues(e, p)
    BY <1>0, <2>2 DEF Continues
  <2>4. \A d \in Entered(p) : d \in Entered(ls) \/ Continues(d, p)
    BY <1>6, <2>3
  <2> QED BY <1>6, <1>7, <2>1, <2>4, ConversesMore
<1>12. Keeps(p, more)
  <2> SUFFICES ASSUME NEW d \in Range(p), d.type \in Unlabelled
               PROVE  d.id \in DOMAIN more /\ PathIds(p, d.id) = more[d.id]
    BY <1>120 DEF Keeps, Remembers
  <2>1. DOMAIN more = 1 .. n + 1
    BY <1>0, <1>10
  <2>2. CASE d = e
    BY <1>0, <1>1, <1>10, <2>1, <2>2
  <2>3. CASE d # e
    <3>1. d \in Range(ls)
      BY <1>0, <1>5, <2>3
    <3>2. d.id \in DOMAIN o /\ PathIds(ls, d.id) = o[d.id]
      BY <1>0, <1>4, <3>1 DEF Keeps, Remembers
    <3>3. d \in Entered(ls)
      BY <3>1 DEF Entered, IsEntry, Unlabelled
    <3>4. d.id \in Ids(ls)
      BY <3>3, IdsEntered
    <3>5. Branch(p, d.id) = Branch(ls, d.id)
      BY <1>0, <1>6, <1>7, <3>4, BranchKept
    <3>6. DOMAIN o = 1 .. n
      BY <1>0, <1>1
    <3> QED BY <1>0, <1>10, <2>1, <3>2, <3>5, <3>6 DEF PathIds
  <2> QED BY <2>2, <2>3
<1>13. Session(p, more)
  BY <1>0, <1>5, <1>10, <1>12 DEF Session
<1>14. p # <<>> /\ (ls # <<>> => p[1] = ls[1])
  BY <1>0, <1>2, <1>4
<1>15. Len(more) = Len(o) + 1
  BY <1>1, <1>10
<1> QED BY <1>2, <1>6, <1>11, <1>13, <1>14, <1>15 DEF Joined

(* What memory and disk are when lines are added to the open file.         *)
Grows(c, p, ls, o) ==
    /\ Session(ls, o) /\ Session(p, o) /\ p # <<>> /\ Entered(p) \subseteq Entered(ls)
    /\ c = <<>> \/ (Readable(c, o) /\ Entered(c) \subseteq Entered(ls))
    /\ c = <<>> => p[1] = Header

Grown(d, f, c, p, o) ==
    LET new == [d EXCEPT ![f] = c \o p] IN
    /\ DiskInv(new, o) /\ HistoryInv(new, o)
    /\ Readable(c \o p, o) /\ Entered(c \o p) = Entered(c) \cup Entered(p)
    /\ new[f] = c \o p /\ c \o p # Absent

LEMMA FileGrows ==
    ASSUME NEW d, NEW o, DiskInv(d, o), HistoryInv(d, o), NEW f \in Files, NEW ls, NEW c, NEW p, Grows(c, p, ls, o)
    PROVE  Grown(d, f, c, p, o)
<1>0. /\ Session(ls, o) /\ Session(p, o) /\ p # <<>> /\ Entered(p) \subseteq Entered(ls)
      /\ c = <<>> \/ (Readable(c, o) /\ Entered(c) \subseteq Entered(ls))
      /\ c = <<>> => p[1] = Header
  BY DEF Grows
<1>1. o \in Seq(Seq(Nat)) /\ Len(o) <= MaxEntries
  BY DEF HistoryInv
<1>2. Session(c, o) /\ Entered(c) \subseteq Entered(ls)
  <2>1. Session(<<>>, o) /\ Entered(<<>>) = {}
    BY <1>1, HeaderSession
  <2> QED BY <1>0, <2>1 DEF Readable
<1>3. Session(c \o p, o) /\ Entered(c \o p) = Entered(c) \cup Entered(p)
  BY <1>0, <1>1, <1>2, SessionConcat
<1>4. c \in Seq(Lines) /\ p \in Seq(Lines)
  BY <1>0, <1>2 DEF Session
<1>5. c \o p # <<>> /\ (c \o p)[1] = IF c = <<>> THEN p[1] ELSE c[1]
  BY <1>0, <1>4
<1>6. Readable(c \o p, o)
  BY <1>0, <1>3, <1>5 DEF Readable
<1>7. c \o p \in Seq(Lines)
  BY <1>4
<1>8. c \o p # Absent
  BY <1>7, StartAssumption
<1>9. [d EXCEPT ![f] = c \o p][f] = c \o p
  BY DEF DiskInv
<1>10. DiskInv([d EXCEPT ![f] = c \o p], o) /\ HistoryInv([d EXCEPT ![f] = c \o p], o)
  BY <1>6, <1>7, DiskWritten
<1> QED BY <1>3, <1>6, <1>8, <1>9, <1>10 DEF Grown

(* The open file, before an append: nothing, or a session of its own.      *)
OpenContent ==
    /\ file \in Files /\ Clean(Content(file))
    /\ Content(file) = <<>> \/ (Readable(Content(file), origin) /\ Entered(Content(file)) \subseteq Entered(fileEntries))
    /\ disk[file] = Absent <=> Content(file) = <<>>
    /\ disk[file] # Absent => disk[file] = Content(file)

LEMMA OpenHas ==
    ASSUME SessionInv, file # 0
    PROVE  OpenContent
<1>1. file \in Files
  BY DEF SessionInv, MemoryInv
<1>2. disk[file] # Absent => Readable(disk[file], origin) /\ Entered(disk[file]) \subseteq Entered(fileEntries)
  BY DEF SessionInv, OpenInv
<1>3. DiskInv(disk, origin)
  BY DEF SessionInv
<1>4. Clean(Content(file))
  BY <1>1, <1>2, <1>3, ContentClean
<1>5. disk[file] # Absent => disk[file] = Content(file) /\ disk[file] # <<>>
  BY <1>2 DEF Content, Readable
<1>6. disk[file] = Absent => Content(file) = <<>>
  BY DEF Content
<1> QED BY <1>1, <1>2, <1>4, <1>5, <1>6 DEF OpenContent

LEMMA HasAssistantEntered ==
    ASSUME NEW ls, NEW more, Entered(ls) \subseteq Entered(more), HasAssistant(ls)
    PROVE  HasAssistant(more)
<1>1. PICK e \in Range(ls) : e.type = "assistant"
  BY DEF HasAssistant
<1>2. IsEntry(e)
  BY <1>1 DEF IsEntry, EntryTypes, MessageTypes
<1>3. e \in Range(more)
  BY <1>2 DEF Entered
<1> QED BY <1>1, <1>3 DEF HasAssistant

(* _persist and what follows it, for a new entry e.                        *)
AppendedWith(e, labels, ls, o, w) ==
    /\ disk' = w.disk /\ origin' = o
    /\ IF w.fate = "crash"
         THEN Forgotten
         ELSE Memory(file, ls, e.id, HasAssistant(ls) /\ (flushed \/ w.fate = "ok"),
                     IF w.fate = "ok" THEN labels ELSE labelsById)

LEMMA AppendKeeps ==
    ASSUME OnlyCrashes, SessionInv, NEW type \in EntryTypes, NEW parent \in Ids(fileEntries) \cup {0},
           NEW target \in Nat, NEW told \in SUBSET Nat, NEW labels \in SUBSET Ids(fileEntries),
           Continues(NewEntry(type, parent, target, told), fileEntries),
           AppendEntry(NewEntry(type, parent, target, told), labels)
    PROVE  SessionInv'
<1>1. PICK e : e = NewEntry(type, parent, target, told)
  OBVIOUS
<1>2. PICK ls : ls = Append(fileEntries, e)
  OBVIOUS
<1>3. PICK o : o = Append(origin, PathIds(ls, e.id))
  OBVIOUS
<1>4. PICK w \in Persist(ls, e) : AppendedWith(e, labels, ls, o, w)
  BY <1>1, <1>2, <1>3 DEF AppendEntry, AppendedWith, Written
<1>5. file # 0 /\ Len(origin) < MaxEntries
  BY DEF AppendEntry
<1>6. /\ DiskInv(disk, origin) /\ HistoryInv(disk, origin) /\ Session(fileEntries, origin)
      /\ origin \in Seq(Seq(Nat)) /\ fileEntries # <<>> /\ fileEntries[1] = Header
      /\ labelsById \subseteq Ids(fileEntries)
  BY <1>5 DEF SessionInv, MemoryInv, HistoryInv
<1>7. e \in Lines /\ IsEntry(e) /\ e.id = Len(origin) + 1 /\ e.parent = parent
  <2>1. parent \in Nat
    <3>1. Tree(fileEntries)
      BY <1>6, SessionTree DEF HistoryInv
    <3> QED BY <3>1, EntryOf
  <2>2. Len(origin) + 1 \in Nat
    BY <1>6
  <2>3. e = [type |-> type, id |-> Len(origin) + 1, parent |-> parent, target |-> target, told |-> told]
    BY <1>1 DEF NewEntry, Line
  <2>4. type \in EntryTypes \cup SessionTypes \cup {"garbage", "torn"}
    OBVIOUS
  <2>5. e \in Lines
    BY <2>1, <2>2, <2>3, <2>4 DEF Lines
  <2> QED BY <2>3, <2>5 DEF IsEntry
<1>8. /\ Session(ls, o) /\ Extends(origin, o) /\ Len(o) = Len(origin) + 1
      /\ Entered(ls) = Entered(fileEntries) \cup {e} /\ ls # <<>> /\ ls[1] = Header
  <2>1. e.parent \in Ids(fileEntries) \cup {0}
    BY <1>7
  <2>2. Joins(e, fileEntries, origin)
    BY <1>1, <1>5, <1>6, <1>7, <2>1 DEF Joins
  <2>3. Joined(e, fileEntries, origin)
    BY <2>2, EntryAppended
  <2> QED BY <1>2, <1>3, <1>6, <2>3 DEF Joined
<1>9. DiskInv(disk, o) /\ HistoryInv(disk, o)
  BY <1>6, <1>8, DiskLater
<1>10. OpenContent
  BY <1>5, OpenHas
<1>11. PICK c : c = Content(file)
  OBVIOUS
<1>12. c = <<>> \/ (Readable(c, o) /\ Entered(c) \subseteq Entered(fileEntries))
  BY <1>8, <1>10, <1>11, SessionLater DEF OpenContent, Readable
<1>13. c = <<>> \/ (Readable(c, o) /\ Entered(c) \subseteq Entered(ls))
  BY <1>8, <1>12
<1>14. ls \in Seq(Lines) /\ ls # <<>> /\ Len(o) <= MaxEntries /\ o \in Seq(Seq(Nat))
  BY <1>8 DEF Session, Extends
<1>15. file \in Files /\ disk \in [Files -> Seq(Lines) \cup {Absent}]
  BY <1>6, <1>10 DEF OpenContent, DiskInv
(* The process lives and has ls in memory.                                 *)
<1>16. ASSUME w.fate = "ok",
              DiskInv(w.disk, o), HistoryInv(w.disk, o), OpenInv(w.disk, file, ls, HasAssistant(ls), o)
       PROVE  SessionInv'
  <2>1. /\ disk' = w.disk /\ origin' = o /\ file' = file /\ fileEntries' = ls /\ leafId' = e.id
        /\ flushed' = (HasAssistant(ls) /\ (flushed \/ TRUE)) /\ labelsById' = labels
    BY <1>4, <1>16 DEF AppendedWith, Memory
  <2>20. HasAssistant(ls) \in BOOLEAN
    BY DEF HasAssistant
  <2>2. flushed' = HasAssistant(ls)
    BY <2>1, <2>20
  <2>3. e.id \in Ids(ls) /\ Ids(fileEntries) \subseteq Ids(ls)
    BY <1>8, IdsEntered
  <2>4. HasAssistant(ls) \in BOOLEAN
    BY DEF HasAssistant
  <2>5. MemoryInv(file, ls, e.id, HasAssistant(ls), labels, o)
    BY <1>5, <1>8, <1>14, <1>15, <2>3, <2>4 DEF MemoryInv
  <2>6. MemoryInv(file', fileEntries', leafId', flushed', labelsById', origin')
    BY <2>1, <2>2, <2>5
  <2>7. OpenInv(disk', file', fileEntries', flushed', origin')
    BY <1>16, <2>1, <2>2
  <2> QED BY <1>16, <2>1, <2>6, <2>7 DEF SessionInv
(* The process dies.                                                       *)
<1>17. ASSUME w.fate = "crash", DiskInv(w.disk, o), HistoryInv(w.disk, o) PROVE SessionInv'
  <2>1. disk' = w.disk /\ origin' = o /\ Forgotten
    BY <1>4, <1>17 DEF AppendedWith
  <2>2. DiskInv(disk', origin') /\ HistoryInv(disk', origin')
    BY <1>17, <2>1
  <2> QED BY <2>1, <2>2, ForgottenKeeps
<1>18. CASE ~HasAssistant(ls)
  <2>1. w = NoWrite
    BY <1>4, <1>18 DEF Persist
  <2>2. w.fate = "ok" /\ w.disk = disk
    BY <2>1 DEF NoWrite
  <2>3. OpenInv(disk, file, ls, HasAssistant(ls), o)
    <3>1. disk[file] # Absent => Readable(disk[file], o) /\ Entered(disk[file]) \subseteq Entered(ls)
      BY <1>10, <1>11, <1>13 DEF OpenContent
    <3> QED BY <1>18, <3>1 DEF OpenInv
  <2> QED BY <1>9, <1>16, <2>2, <2>3
(* All of memory is written, behind what is there.                         *)
<1>19. CASE HasAssistant(ls) /\ ~flushed
  <2>1. w \in AppendLines(file, ls)
    BY <1>4, <1>19 DEF Persist
  <2>2. \/ w.fate = "ok" /\ w.disk = [disk EXCEPT ![file] = c \o ls]
        \/ w.fate = "crash" /\ w.disk = disk
        \/ w.fate = "crash" /\ \E k \in 1 .. Len(ls) : w.disk = [disk EXCEPT ![file] = c \o SubSeq(ls, 1, k)]
    <3>1. Clean(Content(file))
      BY <1>10 DEF OpenContent
    <3>2. \/ w.fate = "ok" /\ w.disk = [disk EXCEPT ![file] = Content(file) \o ls]
          \/ w.fate = "crash" /\ w.disk = disk
          \/ w.fate = "crash" /\ \E k \in 1 .. Len(ls) : w.disk = [disk EXCEPT ![file] = Content(file) \o SubSeq(ls, 1, k)]
      <4>1. WrittenAs(w, file, ls)
        BY <1>14, <1>15, <2>1, <3>1, AppendOutcome
      <4> QED BY <4>1 DEF WrittenAs
    <3> QED BY <1>11, <3>2
  <2>3. CASE w.fate = "ok" /\ w.disk = [disk EXCEPT ![file] = c \o ls]
    <3>1. PICK d : d = [disk EXCEPT ![file] = c \o ls]
      OBVIOUS
    <3>2. /\ DiskInv(d, o) /\ HistoryInv(d, o) /\ Readable(c \o ls, o) /\ Entered(c \o ls) = Entered(c) \cup Entered(ls)
          /\ d[file] = c \o ls /\ c \o ls # Absent
      <4>1. Grows(c, ls, ls, o)
        BY <1>8, <1>13, <1>14 DEF Grows
      <4>2. /\ DiskInv([disk EXCEPT ![file] = c \o ls], o) /\ HistoryInv([disk EXCEPT ![file] = c \o ls], o)
            /\ Readable(c \o ls, o) /\ Entered(c \o ls) = Entered(c) \cup Entered(ls)
            /\ [disk EXCEPT ![file] = c \o ls][file] = c \o ls /\ c \o ls # Absent
        <5>1. Grown(disk, file, c, ls, o)
          BY <1>9, <1>15, <4>1, FileGrows
        <5> QED BY <5>1 DEF Grown
      <4> QED BY <3>1, <4>2
    <3>3. Entered(c) \subseteq Entered(ls)
      <4>1. Entered(<<>>) = {}
        BY <1>14, HeaderSession
      <4> QED BY <1>13, <4>1
    <3>4. OpenInv(d, file, ls, HasAssistant(ls), o)
      BY <3>2, <3>3 DEF OpenInv
    <3> QED BY <1>16, <2>3, <3>1, <3>2, <3>4
  <2>4. CASE w.fate = "crash" /\ w.disk = disk
    BY <1>9, <1>17, <2>4
  <2>5. CASE w.fate = "crash" /\ \E k \in 1 .. Len(ls) : w.disk = [disk EXCEPT ![file] = c \o SubSeq(ls, 1, k)]
    <3>1. PICK k \in 1 .. Len(ls) : w.disk = [disk EXCEPT ![file] = c \o SubSeq(ls, 1, k)]
      BY <2>5
    <3>2. PICK p : p = SubSeq(ls, 1, k)
      OBVIOUS
    <3>3. k \in 0 .. Len(ls) /\ k # 0
      BY <1>14
    <3>4. Session(p, o) /\ Len(p) = k /\ Entered(p) \subseteq Entered(ls) /\ p[1] = Header
      BY <1>8, <1>14, <3>2, <3>3, SessionPrefix
    <3>5. p # <<>>
      BY <3>3, <3>4
    <3>50. Grows(c, p, ls, o)
      BY <1>8, <1>13, <3>4, <3>5 DEF Grows
    <3>6. DiskInv([disk EXCEPT ![file] = c \o p], o) /\ HistoryInv([disk EXCEPT ![file] = c \o p], o)
      <4>1. Grown(disk, file, c, p, o)
        BY <1>9, <1>15, <3>50, FileGrows
      <4> QED BY <4>1 DEF Grown
    <3> QED BY <1>17, <2>5, <3>1, <3>2, <3>6
  <2> QED BY <2>2, <2>3, <2>4, <2>5
(* Only the new entry is written: the file has the rest.                   *)
<1>20. CASE HasAssistant(ls) /\ flushed
  <2>1. w \in AppendLines(file, <<e>>)
    BY <1>4, <1>20 DEF Persist
  <2>2. <<e>> \in Seq(Lines) /\ Len(<<e>>) = 1
    BY <1>7
  <2>3. disk[file] # Absent /\ Entered(disk[file]) = Entered(fileEntries)
    BY <1>5, <1>20 DEF SessionInv, OpenInv
  <2>4. c # <<>> /\ Readable(c, origin) /\ Entered(c) = Entered(fileEntries)
    BY <1>10, <1>11, <2>3 DEF OpenContent
  <2>5. PICK q : q = Append(c, e)
    OBVIOUS
  <2>6. c \in Seq(Lines) /\ Session(c, origin)
    BY <2>4 DEF Readable, Session
  <2>7. q = c \o <<e>>
    BY <1>7, <2>5, <2>6, AppendIsConcat
  <2>8. Sound(q, Len(o)) /\ q \in Seq(Lines) /\ Range(q) = Range(c) \cup {e}
    <3>1. e.parent \in Ids(c) \cup {0}
      BY <1>7, <2>4, IdsEntered
    <3>2. Len(o) = Len(origin) + 1
      BY <1>8
    <3>3. Sound(c, Len(origin)) /\ Len(origin) \in Nat
      BY <1>6, <2>6 DEF Session
    <3> QED BY <1>7, <2>5, <2>6, <3>1, <3>2, <3>3, SoundAppend
  <2>9. Entered(q) = Entered(ls)
    BY <1>7, <1>8, <2>4, <2>8 DEF Entered
  <2>10. Readable(q, o)
    <3>1. Len(o) \in Nat /\ ls \in Seq(Lines) /\ Sound(ls, Len(o)) /\ Keeps(ls, o)
      BY <1>8, <1>14 DEF Session
    <3>2. Tree(q) /\ Tree(ls)
      BY <1>14, <2>8, <3>1, SoundTree
    <3>3. Keeps(q, o)
      BY <2>9, <3>1, <3>2, KeepsSub
    <3>4. q # <<>> /\ q[1] = c[1]
      BY <1>7, <2>4, <2>5, <2>6
    <3> QED BY <2>4, <2>8, <3>3, <3>4 DEF Readable, Session
  <2>11. CASE w.fate = "ok" /\ w.disk = [disk EXCEPT ![file] = c \o <<e>>]
    <3>1. PICK d : d = [disk EXCEPT ![file] = q]
      OBVIOUS
    <3>2. DiskInv(d, o) /\ HistoryInv(d, o)
      BY <1>9, <1>15, <2>8, <2>10, <3>1, DiskWritten
    <3>3. d[file] = q /\ q # Absent
      BY <1>15, <2>8, <3>1, StartAssumption
    <3>4. OpenInv(d, file, ls, HasAssistant(ls), o)
      BY <2>9, <2>10, <3>3 DEF OpenInv
    <3> QED BY <1>16, <2>7, <2>11, <3>1, <3>2, <3>4
  <2>12. CASE w.fate = "crash" /\ w.disk = disk
    BY <1>9, <1>17, <2>12
  <2>13. CASE w.fate = "crash" /\ \E k \in 1 .. Len(<<e>>) : w.disk = [disk EXCEPT ![file] = c \o SubSeq(<<e>>, 1, k)]
    <3>0. PICK k \in 1 .. Len(<<e>>) : w.disk = [disk EXCEPT ![file] = c \o SubSeq(<<e>>, 1, k)]
      BY <2>13
    <3>1. k = 1 /\ SubSeq(<<e>>, 1, 1) = <<e>>
      <4>1. SubSeq(<<e>>, 1, Len(<<e>>)) = <<e>>
        BY <2>2, SubSeqFull
      <4> QED BY <2>2, <4>1
    <3>2. w.disk = [disk EXCEPT ![file] = q]
      BY <2>7, <3>0, <3>1
    <3>3. DiskInv([disk EXCEPT ![file] = q], o) /\ HistoryInv([disk EXCEPT ![file] = q], o)
      BY <1>9, <1>15, <2>8, <2>10, DiskWritten
    <3> QED BY <1>17, <2>13, <3>2, <3>3
  <2>14. \/ w.fate = "ok" /\ w.disk = [disk EXCEPT ![file] = c \o <<e>>]
         \/ w.fate = "crash" /\ w.disk = disk
         \/ w.fate = "crash" /\ \E k \in 1 .. Len(<<e>>) : w.disk = [disk EXCEPT ![file] = c \o SubSeq(<<e>>, 1, k)]
    <3>1. Clean(Content(file))
      BY <1>10 DEF OpenContent
    <3>2. \/ w.fate = "ok" /\ w.disk = [disk EXCEPT ![file] = Content(file) \o <<e>>]
          \/ w.fate = "crash" /\ w.disk = disk
          \/ w.fate = "crash" /\ \E k \in 1 .. Len(<<e>>) :
                w.disk = [disk EXCEPT ![file] = Content(file) \o SubSeq(<<e>>, 1, k)]
      <4>1. WrittenAs(w, file, <<e>>)
        BY <1>15, <2>1, <2>2, <3>1, AppendOutcome
      <4> QED BY <4>1 DEF WrittenAs
    <3> QED BY <1>11, <3>2
  <2> QED BY <2>11, <2>12, <2>13, <2>14
<1> QED BY <1>18, <1>19, <1>20
---------------------------------------------------------------------------
(* What an open session's memory is.                                       *)
OpenMemory ==
    /\ fileEntries \in Seq(Lines) /\ Tree(fileEntries) /\ Session(fileEntries, origin)
    /\ leafId \in Ids(fileEntries) \cup {0} /\ labelsById \in SUBSET Ids(fileEntries)
    /\ Ids(fileEntries) \in SUBSET Nat

LEMMA SessionMemory ==
    ASSUME SessionInv
    PROVE  OpenMemory
<1>1. Session(fileEntries, origin) /\ leafId \in Ids(fileEntries) \cup {0} /\ labelsById \in SUBSET Ids(fileEntries)
  BY DEF SessionInv, MemoryInv
<1>2. Tree(fileEntries)
  BY <1>1, SessionTree DEF SessionInv, HistoryInv
<1>3. Ids(fileEntries) \in SUBSET Nat
  BY <1>2, EntryOf
<1> QED BY <1>1, <1>2, <1>3 DEF OpenMemory, Session

(* _persist appends to the file of the session, or does not write.         *)
OpenGrows == disk' = disk \/ \E p \in Seq(Lines) : disk' = [disk EXCEPT ![file] = Content(file) \o p]

LEMMA AppendGrows ==
    ASSUME OnlyCrashes, SessionInv, NEW type \in EntryTypes, NEW parent \in Nat,
           NEW target \in Nat, NEW told \in SUBSET Nat, NEW labels,
           AppendEntry(NewEntry(type, parent, target, told), labels)
    PROVE  OpenGrows
<1>1. PICK e : e = NewEntry(type, parent, target, told)
  OBVIOUS
<1>2. PICK ls : ls = Append(fileEntries, e)
  OBVIOUS
<1>3. PICK w \in Persist(ls, e) : disk' = w.disk
  BY <1>1, <1>2 DEF AppendEntry, Written
<1>4. e \in Lines
  <2>1. Len(origin) + 1 \in Nat
    BY DEF SessionInv, HistoryInv
  <2>2. e = [type |-> type, id |-> Len(origin) + 1, parent |-> parent, target |-> target, told |-> told]
    BY <1>1 DEF NewEntry, Line
  <2>3. type \in EntryTypes \cup SessionTypes \cup {"garbage", "torn"}
    OBVIOUS
  <2> QED BY <2>1, <2>2, <2>3 DEF Lines
<1>5. ls \in Seq(Lines)
  <2>1. fileEntries \in Seq(Lines)
    BY SessionMemory DEF OpenMemory
  <2> QED BY <1>2, <1>4, <2>1
<1>6. <<e>> \in Seq(Lines)
  BY <1>4
<1>7. file \in Files /\ Clean(Content(file)) /\ disk \in [Files -> Seq(Lines) \cup {Absent}]
  <2>1. file # 0
    BY DEF AppendEntry
  <2> QED BY <2>1, OpenHas DEF OpenContent, SessionInv, DiskInv
<1>8. ASSUME NEW q \in Seq(Lines), w \in AppendLines(file, q) PROVE OpenGrows
  <2>1. WrittenAs(w, file, q)
    BY <1>7, <1>8, AppendOutcome
  <2>2. CASE w.disk = [disk EXCEPT ![file] = Content(file) \o q]
    BY <1>3, <2>2 DEF OpenGrows
  <2>3. CASE w.disk = disk
    BY <1>3, <2>3 DEF OpenGrows
  <2>4. CASE \E k \in 1 .. Len(q) : w.disk = [disk EXCEPT ![file] = Content(file) \o SubSeq(q, 1, k)]
    <3>1. PICK k \in 1 .. Len(q) : w.disk = [disk EXCEPT ![file] = Content(file) \o SubSeq(q, 1, k)]
      BY <2>4
    <3>2. SubSeq(q, 1, k) \in Seq(Lines)
      OBVIOUS
    <3> QED BY <1>3, <3>1, <3>2 DEF OpenGrows
  <2> QED BY <2>1, <2>2, <2>3, <2>4 DEF WrittenAs
<1>9. CASE w = NoWrite
  BY <1>3, <1>9 DEF NoWrite, OpenGrows
<1>10. w = NoWrite \/ w \in AppendLines(file, ls) \/ w \in AppendLines(file, <<e>>)
  BY <1>3 DEF Persist
<1> QED BY <1>5, <1>6, <1>8, <1>9, <1>10

LEMMA AppendSteps ==
    ASSUME OnlyCrashes, SessionInv, NEW type \in EntryTypes, NEW parent \in Ids(fileEntries) \cup {0},
           NEW target \in Nat, NEW told \in SUBSET Nat, NEW labels \in SUBSET Ids(fileEntries),
           Continues(NewEntry(type, parent, target, told), fileEntries),
           AppendEntry(NewEntry(type, parent, target, told), labels)
    PROVE  SessionInv' /\ OpenGrows
<1>1. SessionInv'
  BY AppendKeeps
<1>2. parent \in Nat
  BY SessionMemory DEF OpenMemory
<1>3. OpenGrows
  BY <1>2, AppendGrows
<1> QED BY <1>1, <1>3

(* What is appended continues the branch of the leaf.                      *)
LEMMA EntryIdsBelow ==
    ASSUME NEW ls, NEW o, o \in Seq(Seq(Nat)), Session(ls, o)
    PROVE  \A id \in Ids(ls) : id \in 1 .. Len(o)
<1> SUFFICES ASSUME NEW d \in Entered(ls) PROVE d.id \in 1 .. Len(o)
  BY IdsEntered
<1>1. ls \in Seq(Lines) /\ Sound(ls, Len(o))
  BY DEF Session
<1>2. PICK i \in 1 .. Len(ls) : ls[i] = d
  BY <1>1, RangeOf DEF Entered
<1>3. IsEntry(d)
  BY DEF Entered
<1> QED BY <1>1, <1>2, <1>3, HeaderLine DEF Sound, SoundLine

LEMMA NewEntryIs ==
    ASSUME SessionInv, NEW type \in EntryTypes, NEW parent \in Ids(fileEntries) \cup {0},
           NEW target \in Nat, NEW told \in SUBSET Nat, NEW e, e = NewEntry(type, parent, target, told)
    PROVE  /\ e \in Lines /\ e.type = type /\ e.parent = parent /\ e.target = target /\ e.told = told
           /\ e.parent < e.id
<1>1. Session(fileEntries, origin) /\ origin \in Seq(Seq(Nat))
  BY DEF SessionInv, MemoryInv, HistoryInv
<1>2. PICK n \in Nat : n = Len(origin)
  BY <1>1
<1>3. parent \in 0 .. n
  BY <1>1, <1>2, EntryIdsBelow
<1>4. e = [type |-> type, id |-> n + 1, parent |-> parent, target |-> target, told |-> told]
  BY <1>2 DEF NewEntry, Line
<1>5. type \in EntryTypes \cup SessionTypes \cup {"garbage", "torn"} /\ n + 1 \in Nat /\ parent \in Nat /\ parent < n + 1
  BY <1>3
<1>6. e \in Lines
  BY <1>4, <1>5 DEF Lines
<1> QED BY <1>4, <1>5, <1>6

LEMMA NewEntryContinues ==
    ASSUME SessionInv, NEW type \in EntryTypes \ {"compaction", "toolResult"}, NEW parent \in Ids(fileEntries) \cup {0},
           NEW target \in Nat, NEW told \in SUBSET Nat
    PROVE  Continues(NewEntry(type, parent, target, told), fileEntries)
<1>1. PICK e : e = NewEntry(type, parent, target, told)
  OBVIOUS
<1>2. e \in Lines /\ e.type = type /\ e.parent = parent /\ e.parent < e.id
  BY <1>1, NewEntryIs
<1>3. Tree(fileEntries)
  BY SessionMemory DEF OpenMemory
<1> QED BY <1>1, <1>2, <1>3, OtherContinues

(* A result fits when the last thing said is an answer or a result.        *)
LEMMA FitsIs ==
    ASSUME NEW p \in Seq(Lines), p = Current, Fits("toolResult")
    PROVE  \E j \in 1 .. Len(p) : LastSaid(p, j)
<1>1. PICK says : says = Positions(p, 1, Len(p), SaidTypes)
  OBVIOUS
<1>2. Len(p) \in Nat
  OBVIOUS
<1>3. says # {} /\ p[Max(says)].type \in AnswerTypes
  BY <1>1 DEF Fits, SaidTypes, AnswerTypes
<1>4. says \in SUBSET (1 .. Len(p)) /\ \A i \in 1 .. Len(p) : p[i].type \in SaidTypes => i \in says
  BY <1>1 DEF Positions
<1>5. PICK j : j = Max(says)
  OBVIOUS
<1>6. j \in says /\ \A y \in says : j >= y
  <2>1. says \in SUBSET (0 .. Len(p))
    BY <1>2, <1>4
  <2> QED BY <1>2, <1>3, <1>5, <2>1, MaxIn
<1>7. j \in 1 .. Len(p) /\ \A m \in j + 1 .. Len(p) : m \in 1 .. Len(p) /\ m \notin says
  BY <1>2, <1>4, <1>6
<1> QED BY <1>3, <1>4, <1>5, <1>7 DEF LastSaid

LEMMA ResultContinues ==
    ASSUME SessionInv, Fits("toolResult")
    PROVE  Continues(NewEntry("toolResult", leafId, 0, {}), fileEntries)
<1>1. PICK e : e = NewEntry("toolResult", leafId, 0, {})
  OBVIOUS
<1>2. OpenMemory
  BY SessionMemory
<1>3. "toolResult" \in EntryTypes /\ 0 \in Nat /\ {} \in SUBSET Nat /\ leafId \in Ids(fileEntries) \cup {0}
  BY <1>2 DEF EntryTypes, MessageTypes, OpenMemory
<1>4. e \in Lines /\ e.type = "toolResult" /\ e.parent = leafId /\ e.parent < e.id
  BY <1>1, <1>3, NewEntryIs
<1>5. PICK p \in Seq(Lines) : p = Current
  BY <1>2, BranchTyped DEF OpenMemory, Current
<1>6. p = Branch(fileEntries, e.parent)
  BY <1>4, <1>5 DEF Current
<1>7. PICK j \in 1 .. Len(p) : LastSaid(p, j)
  BY <1>5, FitsIs
<1>8. Above(p, e)
  BY <1>2, <1>3, <1>4, <1>6, BranchAbove DEF OpenMemory
<1>9. PICK q : q = Append(p, e)
  OBVIOUS
<1>10. OneMore(p, e, q)
  BY <1>4, <1>9, AppendGrown
<1>11. Conversation(p) => Conversation(q)
  BY <1>4, <1>7, <1>8, <1>10, ResultFollows
<1> QED BY <1>1, <1>6, <1>9, <1>11 DEF Continues

LEMMA CompactionContinues ==
    ASSUME SessionInv, NEW p \in Seq(Lines), p = Current, BoundaryStart(p) \in 1 .. Len(p), NEW keep,
           NEW cut, cut = FindCutPoint(p, BoundaryStart(p), keep)
    PROVE  Continues(NewEntry("compaction", leafId, p[cut].id, Told(p, cut)), fileEntries)
<1>1. PICK e : e = NewEntry("compaction", leafId, p[cut].id, Told(p, cut))
  OBVIOUS
<1>2. OpenMemory
  BY SessionMemory
<1>3. cut \in BoundaryStart(p) .. Len(p)
  BY CutIn
<1>4. Told(p, cut) \in SUBSET Nat /\ p[cut].id \in Nat
  BY <1>3, ToldTyped
<1>5. "compaction" \in EntryTypes /\ leafId \in Ids(fileEntries) \cup {0}
  BY <1>2 DEF EntryTypes, OpenMemory
<1>6. /\ e \in Lines /\ e.type = "compaction" /\ e.parent = leafId /\ e.parent < e.id
      /\ e.target = p[cut].id /\ e.told = Told(p, cut)
  BY <1>1, <1>4, <1>5, NewEntryIs
<1>7. p = Branch(fileEntries, e.parent)
  BY <1>6 DEF Current
<1>8. Above(p, e)
  BY <1>2, <1>5, <1>6, <1>7, BranchAbove DEF OpenMemory
<1>9. PICK q : q = Append(p, e)
  OBVIOUS
<1>10. OneMore(p, e, q)
  BY <1>6, <1>9, AppendGrown
<1>11. Conversation(p) => Conversation(q)
  BY <1>6, <1>8, <1>10, CompactionFollows
<1> QED BY <1>1, <1>7, <1>9, <1>11 DEF Continues

LEMMA AppendMessageKeeps ==
    ASSUME OnlyCrashes, SessionInv, AppendMessage
    PROVE  SessionInv' /\ OpenGrows
<1>1. PICK type \in MessageTypes \cap Api : Fits(type) /\ AppendEntry(NewEntry(type, leafId, 0, {}), labelsById)
  BY DEF AppendMessage
<1>2. type \in EntryTypes
  BY DEF EntryTypes
<1>3. OpenMemory
  BY SessionMemory
<1>4. 0 \in Nat /\ {} \in SUBSET Nat
  OBVIOUS
<1>5. leafId \in Ids(fileEntries) \cup {0} /\ labelsById \in SUBSET Ids(fileEntries)
  BY <1>3 DEF OpenMemory
<1>6. Continues(NewEntry(type, leafId, 0, {}), fileEntries)
  <2>1. CASE type = "toolResult"
    BY <1>1, <2>1, ResultContinues
  <2>2. CASE type # "toolResult"
    <3>1. type \in EntryTypes \ {"compaction", "toolResult"}
      BY <1>2, <2>2 DEF MessageTypes
    <3> QED BY <1>4, <1>5, <3>1, NewEntryContinues
  <2> QED BY <2>1, <2>2
<1> QED BY <1>1, <1>2, <1>4, <1>5, <1>6, AppendSteps

LEMMA AppendInfoKeeps ==
    ASSUME OnlyCrashes, SessionInv, AppendInfo
    PROVE  SessionInv' /\ OpenGrows
<1>1. AppendEntry(NewEntry("info", leafId, 0, {}), labelsById)
  BY DEF AppendInfo
<1>2. "info" \in EntryTypes
  BY DEF EntryTypes
<1>3. OpenMemory
  BY SessionMemory
<1>4. 0 \in Nat /\ {} \in SUBSET Nat
  OBVIOUS
<1>5. leafId \in Ids(fileEntries) \cup {0} /\ labelsById \in SUBSET Ids(fileEntries)
  BY <1>3 DEF OpenMemory
<1>6. Continues(NewEntry("info", leafId, 0, {}), fileEntries)
  BY <1>2, <1>4, <1>5, NewEntryContinues
<1> QED BY <1>1, <1>2, <1>4, <1>5, <1>6, AppendSteps

LEMMA AppendLabelChangeKeeps ==
    ASSUME OnlyCrashes, SessionInv, AppendLabelChange
    PROVE  SessionInv' /\ OpenGrows
<1>1. PICK t \in Ids(Only(fileEntries, Unlabelled)) :
        \/ AppendEntry(NewEntry("label", leafId, t, {t}), labelsById \cup {t})
        \/ AppendEntry(NewEntry("label", leafId, t, {}), labelsById \ {t})
  BY DEF AppendLabelChange
<1>2. "label" \in EntryTypes
  BY DEF EntryTypes
<1>3. OpenMemory
  BY SessionMemory
<1>4. t \in Ids(fileEntries)
  <2>1. Range(Only(fileEntries, Unlabelled)) \subseteq Range(fileEntries)
    BY <1>3, OnlyWithin DEF OpenMemory
  <2> QED BY <2>1 DEF Ids
<1>5. t \in Nat /\ {t} \in SUBSET Nat /\ {} \in SUBSET Nat
  BY <1>3, <1>4 DEF OpenMemory
<1>6. leafId \in Ids(fileEntries) \cup {0} /\ labelsById \cup {t} \in SUBSET Ids(fileEntries)
      /\ labelsById \ {t} \in SUBSET Ids(fileEntries)
  BY <1>3, <1>4 DEF OpenMemory
<1>7. CASE AppendEntry(NewEntry("label", leafId, t, {t}), labelsById \cup {t})
  <2>1. Continues(NewEntry("label", leafId, t, {t}), fileEntries)
    BY <1>2, <1>5, <1>6, NewEntryContinues
  <2> QED BY <1>2, <1>5, <1>6, <1>7, <2>1, AppendSteps
<1>8. CASE AppendEntry(NewEntry("label", leafId, t, {}), labelsById \ {t})
  <2>1. Continues(NewEntry("label", leafId, t, {}), fileEntries)
    BY <1>2, <1>5, <1>6, NewEntryContinues
  <2> QED BY <1>2, <1>5, <1>6, <1>8, <2>1, AppendSteps
<1> QED BY <1>1, <1>7, <1>8

LEMMA BranchWithSummaryKeeps ==
    ASSUME OnlyCrashes, SessionInv, BranchWithSummary
    PROVE  SessionInv' /\ OpenGrows
<1>1. PICK id \in Ids(fileEntries) \cup {0} : AppendEntry(NewEntry("branchSummary", id, id, {}), labelsById)
  BY DEF BranchWithSummary
<1>2. "branchSummary" \in EntryTypes
  BY DEF EntryTypes
<1>3. OpenMemory
  BY SessionMemory
<1>4. id \in Nat /\ {} \in SUBSET Nat
  BY <1>3 DEF OpenMemory
<1>5. Continues(NewEntry("branchSummary", id, id, {}), fileEntries)
  BY <1>2, <1>4, NewEntryContinues
<1> QED BY <1>1, <1>2, <1>3, <1>4, <1>5, AppendSteps DEF OpenMemory

LEMMA CompactKeeps ==
    ASSUME OnlyCrashes, SessionInv, Compact
    PROVE  SessionInv' /\ OpenGrows
<1>1. PICK keep \in KeepSizes :
        AppendEntry(NewEntry("compaction", leafId, Current[FindCutPoint(Current, BoundaryStart(Current), keep)].id,
                             Told(Current, FindCutPoint(Current, BoundaryStart(Current), keep))), labelsById)
  BY DEF Compact
<1>2. "compaction" \in EntryTypes
  BY DEF EntryTypes
<1>3. OpenMemory
  BY SessionMemory
<1>4. PICK p \in Seq(Lines) : p = Current
  BY <1>3, BranchTyped DEF OpenMemory, Current
<1>5. PICK cut : cut = FindCutPoint(p, BoundaryStart(p), keep)
  OBVIOUS
<1>6. BoundaryStart(p) \in 1 .. Len(p)
  <2>1. ~NothingToCompact(p)
    BY <1>4 DEF Compact
  <2>2. BoundaryStart(p) \in 1 .. Len(p) + 1
    BY BoundaryIn
  <2> QED BY <2>1, <2>2 DEF NothingToCompact
<1>7. cut \in BoundaryStart(p) .. Len(p)
  BY <1>5, <1>6, CutIn
<1>8. Told(p, cut) \in SUBSET Nat /\ p[cut].id \in Nat
  BY <1>7, ToldTyped
<1>9. AppendEntry(NewEntry("compaction", leafId, p[cut].id, Told(p, cut)), labelsById)
  BY <1>1, <1>4, <1>5
<1>10. Continues(NewEntry("compaction", leafId, p[cut].id, Told(p, cut)), fileEntries)
  BY <1>4, <1>5, <1>6, CompactionContinues
<1> QED BY <1>2, <1>3, <1>8, <1>9, <1>10, AppendSteps DEF OpenMemory
---------------------------------------------------------------------------
(* Opening and leaving sessions.                                           *)
LEMMA MoveLeafKeeps ==
    ASSUME SessionInv, MoveLeaf
    PROVE  SessionInv'
<1>1. leafId' \in Ids(fileEntries) \cup {0}
  BY DEF MoveLeaf
<1>2. /\ disk' = disk /\ file' = file /\ fileEntries' = fileEntries /\ flushed' = flushed
      /\ labelsById' = labelsById /\ origin' = origin
  BY DEF MoveLeaf
<1>3. MemoryInv(file, fileEntries, leafId', flushed, labelsById, origin)
  BY <1>1 DEF SessionInv, MemoryInv
<1>4. MemoryInv(file', fileEntries', leafId', flushed', labelsById', origin')
  BY <1>2, <1>3
<1>5. DiskInv(disk', origin') /\ HistoryInv(disk', origin')
  BY <1>2 DEF SessionInv
<1>6. OpenInv(disk', file', fileEntries', flushed', origin')
  BY <1>2 DEF SessionInv
<1> QED BY <1>4, <1>5, <1>6 DEF SessionInv

LEMMA ExitKeeps ==
    ASSUME SessionInv, Exit
    PROVE  SessionInv'
<1>1. disk' = disk /\ origin' = origin /\ Forgotten
  BY DEF Exit
<1>2. DiskInv(disk', origin') /\ HistoryInv(disk', origin')
  BY <1>1 DEF SessionInv
<1> QED BY <1>1, <1>2, ForgottenKeeps

LEMMA FreshFile ==
    ASSUME FreshFiles # {}
    PROVE  Min(FreshFiles) \in Files \ {file} /\ disk[Min(FreshFiles)] = Absent
<1>1. FreshFiles \in SUBSET Nat
  BY BoundsAssumption DEF FreshFiles
<1>2. Min(FreshFiles) \in FreshFiles
  BY <1>1, MinIn
<1> QED BY <1>2 DEF FreshFiles

LEMMA NewKeeps ==
    ASSUME SessionInv, New
    PROVE  SessionInv'
<1>1. PICK f \in Files : f = Min(FreshFiles) /\ disk[f] = Absent
  BY FreshFile DEF New
<1>2. /\ disk' = disk /\ file' = f /\ fileEntries' = <<Header>> /\ leafId' = 0 /\ flushed' = FALSE
      /\ labelsById' = {} /\ origin' = origin
  BY <1>1 DEF New, Memory
<1>3. DiskInv(disk, origin) /\ HistoryInv(disk, origin)
  BY DEF SessionInv
<1>4. Readable(<<Header>>, origin)
  BY <1>3, HeaderSession DEF HistoryInv
<1>5. MemoryInv(f, <<Header>>, 0, FALSE, {}, origin)
  BY <1>4, BoundsAssumption DEF MemoryInv, Readable
<1>6. OpenInv(disk, f, <<Header>>, FALSE, origin)
  <2>1. ~HasAssistant(<<Header>>)
    <3>1. Range(<<Header>>) = {Header}
      <4>1. DOMAIN <<Header>> = {1} /\ <<Header>>[1] = Header
        OBVIOUS
      <4> QED BY <4>1 DEF Range
    <3>2. Header.type # "assistant"
      BY DEF Header, Mark, Line
    <3> QED BY <3>1, <3>2 DEF HasAssistant
  <2> QED BY <1>1, <2>1 DEF OpenInv
<1>7. DiskInv(disk', origin') /\ HistoryInv(disk', origin')
  BY <1>2, <1>3
<1>8. MemoryInv(file', fileEntries', leafId', flushed', labelsById', origin')
  BY <1>2, <1>5
<1>9. OpenInv(disk', file', fileEntries', flushed', origin')
  BY <1>2, <1>6
<1> QED BY <1>7, <1>8, <1>9 DEF SessionInv

LEMMA LeafIn ==
    ASSUME NEW ls \in Seq(Lines)
    PROVE  LastLine(ls) \in Ids(ls) \cup {0} /\ LeafAfterLoad(ls) \in Ids(ls) \cup {0} /\ LabelsOf(ls) \in SUBSET Ids(ls)
<1>1. Len(ls) \in Nat /\ DOMAIN ls = 1 .. Len(ls)
  OBVIOUS
<1>2. PICK T \in SUBSET (1 .. Len(ls)) : T = {i \in DOMAIN ls : IsEntry(ls[i])}
  BY <1>1
<1>3. PICK at : at = LatestOf(T)
  OBVIOUS
<1>4. LastLine(ls) = IF at = 0 THEN 0 ELSE ls[at].id
  BY <1>2, <1>3 DEF LastLine
<1>5. at = 0 \/ at \in T
  BY <1>1, <1>3, LatestIs
<1>6. LastLine(ls) \in Ids(ls) \cup {0}
  <2>1. CASE at \in T
    <3>1. ls[at] \in Range(ls) /\ IsEntry(ls[at])
      BY <1>2, <2>1 DEF Range
    <3>2. ls[at].id \in Ids(ls)
      BY <3>1 DEF Ids
    <3> QED BY <1>4, <3>2
  <2> QED BY <1>4, <1>5, <2>1
<1>7. LabelsOf(ls) \in SUBSET Ids(ls)
  BY DEF LabelsOf
<1> QED BY <1>6, <1>7 DEF LeafAfterLoad

(* A session is written into a file, whole or not.                         *)
LEMMA RewriteKeeps ==
    ASSUME OnlyCrashes, NEW o, DiskInv(disk, o), HistoryInv(disk, o), NEW f \in Files, NEW ls, Readable(ls, o),
           NEW w \in Rewrite(f, ls)
    PROVE  /\ DiskInv(w.disk, o) /\ HistoryInv(w.disk, o)
           /\ (w.fate = "ok" /\ w.disk[f] = ls) \/ w.fate = "crash"
<1>1. ls \in Seq(Lines) /\ ls # <<>> /\ Session(ls, o) /\ ls[1] = Header
  BY DEF Readable, Session
<1>2. RewrittenAs(w, f, ls)
  BY <1>1, RewriteOutcome
<1>3. o \in Seq(Seq(Nat)) /\ Len(o) <= MaxEntries
  BY DEF HistoryInv
<1>4. CASE w.fate = "ok" /\ w.disk = [disk EXCEPT ![f] = ls]
  <2>1. w.disk[f] = ls
    BY <1>4 DEF DiskInv
  <2>2. DiskInv([disk EXCEPT ![f] = ls], o) /\ HistoryInv([disk EXCEPT ![f] = ls], o)
    BY <1>1, DiskWritten
  <2> QED BY <1>4, <2>1, <2>2
<1>5. CASE w.fate = "crash" /\ \E k \in 0 .. Len(ls) : w.disk = [disk EXCEPT ![f] = SubSeq(ls, 1, k)]
  <2>1. PICK k \in 0 .. Len(ls) : w.disk = [disk EXCEPT ![f] = SubSeq(ls, 1, k)]
    BY <1>5
  <2>2. PICK p : p = SubSeq(ls, 1, k)
    OBVIOUS
  <2>3. Session(p, o) /\ Len(p) = k /\ (k # 0 => p[1] = Header)
    BY <1>1, <1>3, <2>2, SessionPrefix
  <2>4. NoSession(p) \/ Readable(p, o)
    <3>1. CASE k = 0
      <4>1. p \in Seq(Lines)
        BY <2>3 DEF Session
      <4>2. p = <<>>
        BY <2>3, <3>1, <4>1
      <4> QED BY <4>2, EmptyIsNoSession
    <3>2. CASE k # 0
      <4>1. p # <<>>
        BY <2>3, <3>2
      <4> QED BY <2>3, <3>2, <4>1 DEF Readable
    <3> QED BY <3>1, <3>2
  <2>5. p \in Seq(Lines)
    BY <2>3 DEF Session
  <2>6. DiskInv([disk EXCEPT ![f] = p], o) /\ HistoryInv([disk EXCEPT ![f] = p], o)
    BY <2>4, <2>5, DiskWritten
  <2> QED BY <1>5, <2>1, <2>2, <2>6
<1> QED BY <1>2, <1>4, <1>5 DEF RewrittenAs

(* The session of a file that was just read or written is opened.          *)
LEMMA OpenedKeeps ==
    ASSUME NEW f \in Files, NEW ls, DiskInv(disk', origin'), HistoryInv(disk', origin'), Readable(ls, origin'),
           disk'[f] = ls, Memory(f, ls, LeafAfterLoad(ls), TRUE, LabelsOf(ls))
    PROVE  SessionInv'
<1>1. file' = f /\ fileEntries' = ls /\ leafId' = LeafAfterLoad(ls) /\ flushed' = TRUE /\ labelsById' = LabelsOf(ls)
  BY DEF Memory
<1>2. PICK o : o = origin'
  OBVIOUS
<1>3. PICK d : d = disk'
  OBVIOUS
<1>4. Readable(ls, o) /\ d[f] = ls
  BY <1>2, <1>3
<1>5. ls \in Seq(Lines)
  BY <1>4 DEF Readable, Session
<1>6. MemoryInv(f, ls, LeafAfterLoad(ls), TRUE, LabelsOf(ls), o)
  BY <1>4, <1>5, LeafIn, BoundsAssumption DEF MemoryInv, Readable
<1>7. OpenInv(d, f, ls, TRUE, o)
  BY <1>4, <1>5, StartAssumption DEF OpenInv
<1>8. MemoryInv(file', fileEntries', leafId', flushed', labelsById', origin')
  BY <1>1, <1>2, <1>6
<1>9. OpenInv(disk', file', fileEntries', flushed', origin')
  BY <1>1, <1>2, <1>3, <1>7
<1> QED BY <1>8, <1>9 DEF SessionInv
---------------------------------------------------------------------------
(* A migrated session: a chain, in the order of the old file.              *)
MigratedLine(i) == [OldFile[i] EXCEPT !.id = i - 1, !.parent = i - 2]

LEMMA MigratedLines ==
    /\ Migrated(OldFile) \in Seq(Lines) /\ Len(Migrated(OldFile)) = Len(OldFile) /\ Migrated(OldFile)[1] = Header
    /\ \A i \in 2 .. Len(OldFile) :
        /\ Migrated(OldFile)[i] \in Lines /\ Migrated(OldFile)[i].type \in Unlabelled
        /\ Migrated(OldFile)[i].id = i - 1 /\ Migrated(OldFile)[i].parent = i - 2
        /\ Migrated(OldFile)[i] = MigratedLine(i)
<1>1. OldFile \in Seq(Lines) /\ OldFile # <<>>
  BY OldFileAssumption
<1>2. Len(OldFile) \in Nat /\ DOMAIN OldFile = 1 .. Len(OldFile) /\ Len(OldFile) >= 1
  BY <1>1
<1>3. PICK m : m = Migrated(OldFile)
  OBVIOUS
<1>4. m = [i \in 1 .. Len(OldFile) |-> IF i = 1 THEN Header ELSE MigratedLine(i)]
  BY <1>2, <1>3 DEF Migrated, MigratedLine
<1>5. \A i \in 2 .. Len(OldFile) :
        /\ MigratedLine(i) \in Lines /\ MigratedLine(i).type \in Unlabelled
        /\ MigratedLine(i).id = i - 1 /\ MigratedLine(i).parent = i - 2
  <2> SUFFICES ASSUME NEW i \in 2 .. Len(OldFile)
               PROVE  /\ MigratedLine(i) \in Lines /\ MigratedLine(i).type \in Unlabelled
                      /\ MigratedLine(i).id = i - 1 /\ MigratedLine(i).parent = i - 2
    OBVIOUS
  <2>1. i \in 1 .. Len(OldFile)
    BY <1>2
  <2>2. OldFile[i] \in Lines
    BY <1>1, <2>1
  <2>3. PICK l \in Lines : l = OldFile[i]
    BY <2>2
  <2>4. l.type \in Unlabelled
    BY <2>3, OldFileAssumption
  <2>5. PICK e : e = [l EXCEPT !.id = i - 1, !.parent = i - 2]
    OBVIOUS
  <2>6. i - 1 \in Nat /\ i - 2 \in Nat
    OBVIOUS
  <2>7. e \in Lines /\ e.type = l.type /\ e.id = i - 1 /\ e.parent = i - 2
    BY <2>3, <2>5, <2>6 DEF Lines
  <2> QED BY <2>3, <2>4, <2>5, <2>7 DEF MigratedLine
<1>6. m \in Seq(Lines)
  <2>1. \A i \in 1 .. Len(OldFile) : i # 1 => i \in 2 .. Len(OldFile)
    OBVIOUS
  <2>2. \A i \in 1 .. Len(OldFile) : m[i] \in Lines
    BY <1>4, <1>5, <2>1, HeaderLine
  <2> QED BY <1>2, <1>4, <2>2
<1>7. Len(m) = Len(OldFile)
  BY <1>2, <1>4, <1>6
<1>8. m[1] = Header
  BY <1>2, <1>4
<1>9. \A i \in 2 .. Len(OldFile) : m[i] = MigratedLine(i)
  BY <1>4
<1> QED BY <1>3, <1>5, <1>6, <1>7, <1>8, <1>9

LEMMA MigratedSound ==
    ASSUME NEW n \in Nat, Len(OldFile) - 1 <= n
    PROVE  Sound(Migrated(OldFile), n)
<1>1. PICK m \in Seq(Lines) : m = Migrated(OldFile)
  BY MigratedLines
<1>2. /\ Len(m) = Len(OldFile) /\ m[1] = Header
      /\ \A i \in 2 .. Len(m) : m[i].type \in Unlabelled /\ m[i].id = i - 1 /\ m[i].parent = i - 2
  BY <1>1, MigratedLines
<1>3. \A i \in 2 .. Len(m) : IsEntry(m[i])
  BY <1>2 DEF IsEntry, Unlabelled
<1>4. OneEntryPerId(Entered(m))
  <2> SUFFICES ASSUME NEW d \in Entered(m), NEW e \in Entered(m), d.id = e.id PROVE d = e
    BY DEF OneEntryPerId
  <2>1. PICK i \in 1 .. Len(m), j \in 1 .. Len(m) : m[i] = d /\ m[j] = e
    BY RangeOf DEF Entered
  <2>2. i # 1 /\ j # 1
    BY <1>2, <2>1, HeaderLine DEF Entered
  <2>3. i \in 2 .. Len(m) /\ j \in 2 .. Len(m)
    BY <2>2
  <2>4. i - 1 = j - 1
    BY <1>2, <2>1, <2>3
  <2> QED BY <2>1, <2>4
<1>5. ASSUME NEW i \in 1 .. Len(m) PROVE m[i] = Header \/ SoundLine(m, i, n)
  <2>1. CASE i # 1
    <3>1. i \in 2 .. Len(m)
      BY <2>1
    <3>2. IsEntry(m[i]) /\ m[i].id = i - 1 /\ m[i].parent = i - 2
      BY <1>2, <1>3, <3>1
    <3>3. m[i].id \in 1 .. n
      BY <1>2, <3>1, <3>2
    <3>4. OlderLine(m, i)
      <4>1. CASE i = 2
        BY <3>2, <4>1 DEF OlderLine
      <4>2. CASE i # 2
        <5>1. i - 1 \in 2 .. Len(m) /\ i - 1 \in 1 .. i - 1
          BY <3>1, <4>2
        <5>2. PICK j \in 2 .. Len(m) : j = i - 1 /\ j \in 1 .. i - 1
          BY <5>1
        <5>3. IsEntry(m[j]) /\ m[j].id = j - 1
          BY <1>2, <1>3
        <5>4. m[j].id = m[i].parent /\ m[i].parent < m[i].id
          BY <3>1, <3>2, <5>2, <5>3
        <5> QED BY <5>2, <5>3, <5>4 DEF OlderLine
      <4> QED BY <4>1, <4>2
    <3> QED BY <3>2, <3>3, <3>4 DEF SoundLine
  <2> QED BY <1>2, <2>1
<1> QED BY <1>1, <1>4, <1>5 DEF Sound

LEMMA MigratedBranch ==
    \A k \in 0 .. Len(OldFile) - 1 : Branch(Migrated(OldFile), k) = [j \in 1 .. k |-> Migrated(OldFile)[j + 1]]
<1>1. PICK m \in Seq(Lines) : m = Migrated(OldFile)
  BY MigratedLines
<1>2. /\ Len(m) = Len(OldFile) /\ m[1] = Header /\ Len(m) \in Nat /\ Len(m) >= 1
      /\ \A i \in 2 .. Len(m) : m[i].type \in Unlabelled /\ m[i].id = i - 1 /\ m[i].parent = i - 2 /\ m[i] \in Lines
  BY <1>1, MigratedLines, OldFileAssumption
<1>3. Tree(m)
  <2>1. Len(m) - 1 \in Nat /\ Len(m) - 1 <= MaxEntries
    BY <1>2, OldFileAssumption, BoundsAssumption
  <2>2. Sound(m, Len(m) - 1)
    BY <1>1, <1>2, <2>1, MigratedSound
  <2> QED BY <2>1, <2>2, SoundTree
<1>4. PICK Bad : Bad = {k \in 0 .. Len(m) - 1 : Branch(m, k) # [j \in 1 .. k |-> m[j + 1]]}
  OBVIOUS
<1>5. ASSUME Bad # {} PROVE FALSE
  <2>1. Bad \in SUBSET Nat
    BY <1>4
  <2>2. PICK k \in Bad : \A y \in Bad : k <= y
    BY <1>5, <2>1, Least
  <2>3. k \in 0 .. Len(m) - 1 /\ Branch(m, k) # [j \in 1 .. k |-> m[j + 1]]
    BY <1>4
  <2>4. CASE k = 0
    <3>1. [j \in 1 .. 0 |-> m[j + 1]] = <<>>
      OBVIOUS
    <3> QED BY <1>3, <2>3, <2>4, <3>1, BranchStep
  <2>5. CASE k # 0
    <3>1. PICK i \in 2 .. Len(m) : i = k + 1
      BY <1>2, <2>3, <2>5
    <3>2. PICK q \in Nat : k = q + 1 /\ q \in 0 .. Len(m) - 1
      <4>1. k - 1 \in Nat /\ k = (k - 1) + 1 /\ k - 1 \in 0 .. Len(m) - 1
        BY <1>2, <2>3, <2>5
      <4> QED BY <4>1
    <3>3. m[i].id = k /\ m[i].parent = q
      BY <1>2, <3>1, <3>2
    <3>4. m[i] \in Entered(m)
      <4>1. IsEntry(m[i])
        BY <1>2 DEF IsEntry, Unlabelled
      <4>2. i \in 1 .. Len(m)
        OBVIOUS
      <4> QED BY <4>1, <4>2, RangeOf DEF Entered
    <3>5. Branch(m, k) = Append(Branch(m, q), m[i])
      BY <1>3, <3>3, <3>4, BranchStep
    <3>6. q \notin Bad
      BY <2>2, <3>2
    <3>7. Branch(m, q) = [j \in 1 .. q |-> m[j + 1]]
      BY <1>4, <3>2, <3>6
    <3>8. \A j \in 1 .. Len(m) - 1 : m[j + 1] \in Lines
      <4>1. \A j \in 1 .. Len(m) - 1 : j + 1 \in 1 .. Len(m)
        BY <1>2
      <4> QED BY <4>1
    <3>9. [j \in 1 .. q |-> m[j + 1]] \in Seq(Lines) /\ [j \in 1 .. k |-> m[j + 1]] \in Seq(Lines)
      <4>1. \A j \in 1 .. k : j \in 1 .. Len(m) - 1
        BY <2>3
      <4>2. \A j \in 1 .. q : j \in 1 .. k
        BY <3>2
      <4>3. k \in Nat
        BY <2>3
      <4>4. [j \in 1 .. q |-> m[j + 1]] \in [1 .. q -> Lines] /\ [j \in 1 .. k |-> m[j + 1]] \in [1 .. k -> Lines]
        BY <3>8, <4>1, <4>2
      <4> QED BY <3>2, <4>3, <4>4
    <3>10. PICK a \in Seq(Lines) : a = [j \in 1 .. q |-> m[j + 1]]
      BY <3>9
    <3>11. PICK b \in Seq(Lines) : b = [j \in 1 .. k |-> m[j + 1]]
      BY <3>9
    <3>12. Len(a) = q /\ Len(b) = k /\ (\A j \in 1 .. q : a[j] = m[j + 1]) /\ \A j \in 1 .. k : b[j] = m[j + 1]
      BY <3>2, <3>10, <3>11, <2>3
    <3>13. PICK c : c = Append(a, m[i])
      OBVIOUS
    <3>14. m[i] \in Lines
      BY <1>2
    <3>15. c \in Seq(Lines) /\ Len(c) = k /\ c[k] = m[i] /\ \A j \in 1 .. q : c[j] = m[j + 1]
      BY <3>2, <3>12, <3>13, <3>14
    <3>16. \A j \in 1 .. k : c[j] = b[j]
      <4> TAKE j \in 1 .. k
      <4>1. j = k \/ j \in 1 .. q
        BY <3>2
      <4> QED BY <3>1, <3>12, <3>15, <4>1
    <3>17. c = b
      BY <3>12, <3>15, <3>16, SeqEqual
    <3> QED BY <2>3, <3>5, <3>7, <3>10, <3>11, <3>13, <3>17
  <2> QED BY <2>4, <2>5
<1>6. \A k \in 0 .. Len(m) - 1 : Branch(m, k) = [j \in 1 .. k |-> m[j + 1]]
  <2> TAKE k \in 0 .. Len(m) - 1
  <2>1. k \notin Bad
    BY <1>5
  <2> QED BY <1>4, <2>1
<1> QED BY <1>1, <1>2, <1>6

(* A session of version 1 is a conversation as soon as it is migrated.     *)
LEMMA OldSessionConverses == OldConverses
<1>1. PICK m \in Seq(Lines) : m = Migrated(OldFile)
  BY MigratedLines
<1>2. /\ Len(m) = Len(OldFile) /\ m[1] = Header /\ Len(m) \in Nat
      /\ \A i \in 2 .. Len(m) : m[i] = MigratedLine(i) /\ m[i].id = i - 1
  BY <1>1, MigratedLines, OldFileAssumption
<1>3. ASSUME NEW e \in Entered(m) PROVE Conversation(Branch(m, e.id))
  <2>1. PICK i \in 1 .. Len(m) : m[i] = e
    BY RangeOf DEF Entered
  <2>2. i # 1
    BY <1>2, <2>1, HeaderLine DEF Entered
  <2>3. PICK k \in 1 .. Len(m) - 1 : i = k + 1
    <3>1. i - 1 \in 1 .. Len(m) - 1 /\ i = (i - 1) + 1
      BY <1>2, <2>2
    <3> QED BY <3>1
  <2>4. e.id = k
    BY <1>2, <2>1, <2>3
  <2>5. Branch(m, k) = [j \in 1 .. k |-> m[j + 1]]
    <3>1. k \in 0 .. Len(OldFile) - 1
      BY <1>2, <2>3
    <3> QED BY <1>1, <3>1, MigratedBranch
  <2>6. \A j \in 1 .. k : m[j + 1] = [OldFile[j + 1] EXCEPT !.id = j, !.parent = j - 1]
    <3> SUFFICES ASSUME NEW j \in 1 .. k PROVE m[j + 1] = [OldFile[j + 1] EXCEPT !.id = j, !.parent = j - 1]
      OBVIOUS
    <3>1. j + 1 \in 2 .. Len(m) /\ (j + 1) - 1 = j /\ (j + 1) - 2 = j - 1
      BY <1>2
    <3>2. m[j + 1] = MigratedLine(j + 1)
      BY <1>2, <3>1
    <3> QED BY <3>1, <3>2 DEF MigratedLine
  <2>7. Branch(m, k) = OldPath(k)
    BY <2>5, <2>6 DEF OldPath
  <2>8. k \in 1 .. Len(OldFile) - 1
    BY <1>2
  <2> QED BY <2>4, <2>7, <2>8, OldConversationAssumption
<1> QED BY <1>1, <1>3 DEF Converses, OldConverses

LEMMA MigratedSession ==
    ASSUME NEW o, o \in Seq(Seq(Nat)), Len(o) <= MaxEntries, Chained(o)
    PROVE  Readable(Migrated(OldFile), o)
<1>1. PICK m \in Seq(Lines) : m = Migrated(OldFile)
  BY MigratedLines
<1>2. /\ Len(m) = Len(OldFile) /\ m[1] = Header /\ Len(m) \in Nat /\ Len(m) >= 1
      /\ \A i \in 2 .. Len(m) : m[i].type \in Unlabelled /\ m[i].id = i - 1 /\ m[i] \in Lines
  BY <1>1, MigratedLines, OldFileAssumption
<1>3. Len(o) \in Nat /\ DOMAIN o = 1 .. Len(o) /\ Len(m) - 1 <= Len(o) /\ \A i \in 1 .. Len(m) - 1 : o[i] = [j \in 1 .. i |-> j]
  BY <1>2 DEF Chained
<1>4. Sound(m, Len(o))
  BY <1>1, <1>2, <1>3, MigratedSound
<1>5. Keeps(m, o)
  <2> SUFFICES ASSUME NEW e \in Range(m), e.type \in Unlabelled
               PROVE  e.id \in DOMAIN o /\ PathIds(m, e.id) = o[e.id]
    BY <1>1 DEF Keeps, Remembers, OldConverses
  <2>1. PICK i \in 1 .. Len(m) : m[i] = e
    BY RangeOf
  <2>2. i # 1
    BY <1>2, <2>1, HeaderLine DEF IsEntry, Unlabelled
  <2>3. PICK k \in 1 .. Len(m) - 1 : i = k + 1
    <3>1. i - 1 \in 1 .. Len(m) - 1 /\ i = (i - 1) + 1
      BY <1>2, <2>2
    <3> QED BY <3>1
  <2>4. e.id = k
    BY <1>2, <2>1, <2>3
  <2>5. Branch(m, k) = [j \in 1 .. k |-> m[j + 1]]
    <3>1. k \in 0 .. Len(OldFile) - 1
      BY <1>2, <2>3
    <3> QED BY <1>1, <3>1, MigratedBranch
  <2>6. PICK b : b = [j \in 1 .. k |-> m[j + 1]]
    OBVIOUS
  <2>7. \A j \in 1 .. k : m[j + 1] \in Lines /\ m[j + 1].type \in Unlabelled /\ m[j + 1].id = j
    <3>1. \A j \in 1 .. k : j + 1 \in 2 .. Len(m) /\ (j + 1) - 1 = j
      BY <1>2
    <3> QED BY <1>2, <3>1
  <2>8. b \in Seq(Lines) /\ Len(b) = k /\ \A j \in 1 .. k : b[j].type \in Unlabelled /\ b[j].id = j
    <3>1. k \in Nat
      OBVIOUS
    <3>2. b \in [1 .. k -> Lines]
      BY <2>6, <2>7
    <3>3. b \in Seq(Lines) /\ Len(b) = k
      BY <3>1, <3>2
    <3> QED BY <2>6, <2>7, <3>3
  <2>9. Only(b, Unlabelled) = b
    BY <2>8, OnlyAll
  <2>10. IdSeq(b) = [j \in 1 .. k |-> j]
    <3>1. DOMAIN b = 1 .. k
      BY <2>8
    <3> QED BY <2>8, <3>1 DEF IdSeq
  <2>11. PathIds(m, k) = o[k]
    BY <1>3, <2>5, <2>6, <2>9, <2>10 DEF PathIds
  <2>12. k \in DOMAIN o
    BY <1>2, <1>3
  <2> QED BY <2>4, <2>11, <2>12
<1> QED BY <1>1, <1>2, <1>4, <1>5 DEF Readable, Session

(* Whatever a file has that setSessionFile opens, a session is opened.     *)
LEMMA RepairedReadable ==
    ASSUME NEW d, NEW o, DiskInv(d, o), HistoryInv(d, o), NEW f \in Files, d[f] # Absent
    PROVE  Readable(Repaired(d[f]), o) /\ (Repaired(d[f]) = Loaded(d[f]) => Repaired(d[f]) = d[f])
<1>1. o \in Seq(Seq(Nat)) /\ Len(o) <= MaxEntries
  BY DEF HistoryInv
<1>2. d[f] = OldFile \/ NoSession(d[f]) \/ Readable(d[f], o)
  BY DEF DiskInv, MayHold
<1>3. CASE Readable(d[f], o)
  BY <1>3, ReadableLoaded
<1>4. CASE NoSession(d[f])
  <2>1. Loaded(d[f]) = <<>> /\ Repaired(d[f]) = <<Header>>
    BY <1>4, NoSessionRepaired DEF NoSession
  <2>2. Readable(<<Header>>, o)
    BY <1>1, HeaderSession
  <2>3. <<Header>> # <<>>
    OBVIOUS
  <2> QED BY <2>1, <2>2, <2>3
<1>5. CASE d[f] = OldFile
  <2>1. Chained(o)
    BY <1>5 DEF HistoryInv
  <2>2. Repaired(OldFile) = Migrated(OldFile)
    BY OldLoaded, OldFileAssumption DEF Repaired
  <2>3. Readable(Migrated(OldFile), o)
    BY <1>1, <2>1, MigratedSession
  <2>4. Migrated(OldFile) # OldFile
    BY MigratedLines, OldFileAssumption DEF Header, Mark, Line
  <2> QED BY <1>5, <2>2, <2>3, <2>4, OldLoaded
<1> QED BY <1>2, <1>3, <1>4, <1>5

LEMMA OpenKeeps ==
    ASSUME OnlyCrashes, SessionInv, Open
    PROVE  SessionInv'
<1>1. PICK f \in Files : disk[f] # Absent /\ SetSessionFile(f, disk[f])
  BY DEF Open
<1>2. PICK o : o = origin
  OBVIOUS
<1>3. origin' = o
  BY <1>2 DEF Open
<1>4. DiskInv(disk, o) /\ HistoryInv(disk, o)
  BY <1>2 DEF SessionInv
<1>5. PICK ls : ls = Repaired(disk[f])
  OBVIOUS
<1>6. Readable(ls, o) /\ (ls = Loaded(disk[f]) => ls = disk[f])
  BY <1>1, <1>4, <1>5, RepairedReadable
<1>7. PICK w \in (IF ls = Loaded(disk[f]) THEN {NoWrite} ELSE Rewrite(f, ls)) :
        disk' = w.disk /\ IF w.fate = "ok" THEN Memory(f, ls, LeafAfterLoad(ls), TRUE, LabelsOf(ls)) ELSE Forgotten
  BY <1>1, <1>5 DEF SetSessionFile, Written
<1>8. DiskInv(w.disk, o) /\ HistoryInv(w.disk, o) /\ ((w.fate = "ok" /\ w.disk[f] = ls) \/ w.fate = "crash")
  <2>1. CASE ls = Loaded(disk[f])
    <3>1. w = NoWrite
      BY <1>7, <2>1
    <3>2. w.fate = "ok" /\ w.disk = disk
      BY <3>1 DEF NoWrite
    <3> QED BY <1>4, <1>6, <2>1, <3>2
  <2>2. CASE ls # Loaded(disk[f])
    <3>1. w \in Rewrite(f, ls)
      BY <1>7, <2>2
    <3> QED BY <1>4, <1>6, <3>1, RewriteKeeps
  <2> QED BY <2>1, <2>2
<1>9. DiskInv(disk', origin') /\ HistoryInv(disk', origin')
  BY <1>3, <1>7, <1>8
<1>10. CASE w.fate = "ok" /\ w.disk[f] = ls
  <2>1. Readable(ls, origin') /\ disk'[f] = ls
    BY <1>3, <1>6, <1>7, <1>10
  <2>2. Memory(f, ls, LeafAfterLoad(ls), TRUE, LabelsOf(ls))
    BY <1>7, <1>10
  <2> QED BY <1>9, <2>1, <2>2, OpenedKeeps
<1>11. CASE w.fate = "crash"
  <2>1. Forgotten
    BY <1>7, <1>11
  <2> QED BY <1>9, <2>1, ForgottenKeeps
<1> QED BY <1>8, <1>10, <1>11
---------------------------------------------------------------------------
(* A path goes from the root to its entry, and every beginning of it is    *)
(* the path to the entry where it ends.                                    *)
Path(ls, id, p) ==
    /\ p \in Seq(Lines) /\ Len(p) >= 1 /\ p[Len(p)].id = id
    /\ \A k \in 1 .. Len(p) : p[k] \in Entered(ls)
    /\ p[1].parent = 0
    /\ \A k \in 1 .. Len(p) - 1 : p[k + 1].parent = p[k].id

LEMMA BranchPath ==
    ASSUME NEW ls, Tree(ls), NEW id \in Ids(ls)
    PROVE  Path(ls, id, Branch(ls, id))
<1>1. PICK Bad : Bad = {i \in Ids(ls) : ~Path(ls, i, Branch(ls, i))}
  OBVIOUS
<1>2. ASSUME Bad # {} PROVE FALSE
  <2>1. Bad \in SUBSET Nat
    BY <1>1, EntryOf
  <2>2. PICK i \in Bad : \A y \in Bad : i <= y
    BY <1>2, <2>1, Least
  <2>3. i \in Ids(ls) /\ ~Path(ls, i, Branch(ls, i)) /\ i \in Nat
    BY <1>1, <2>1
  <2>4. PICK e \in Entered(ls) : e.id = i
    BY <2>3, IdsEntered
  <2>5. e \in Lines /\ (e.parent = 0 \/ (e.parent \in Ids(ls) /\ e.parent < e.id))
    BY DEF Tree
  <2>6. Branch(ls, i) = Append(Branch(ls, e.parent), e)
    BY <2>4, BranchStep
  <2>7. CASE e.parent = 0
    <3>1. Branch(ls, i) = Append(<<>>, e)
      BY <2>6, <2>7, BranchStep
    <3>2. PICK p : p = Append(<<>>, e)
      OBVIOUS
    <3>3. p \in Seq(Lines) /\ Len(p) = 1 /\ p[1] = e
      BY <2>5, <3>2
    <3>4. Path(ls, i, p)
      BY <2>4, <2>7, <3>3 DEF Path
    <3> QED BY <2>3, <3>1, <3>2, <3>4
  <2>8. CASE e.parent # 0
    <3>1. e.parent \in Ids(ls) /\ e.parent < e.id
      BY <2>5, <2>8
    <3>2. e.parent \notin Bad
      <4>1. e.parent \in Nat
        BY <2>5 DEF Lines
      <4> QED BY <2>2, <2>3, <2>4, <3>1, <4>1
    <3>3. PICK q : q = Branch(ls, e.parent)
      OBVIOUS
    <3>4. Path(ls, e.parent, q)
      BY <1>1, <3>1, <3>2, <3>3
    <3>5. q \in Seq(Lines) /\ Len(q) \in Nat /\ Len(q) >= 1
      BY <3>4 DEF Path
    <3>6. PICK p : p = Append(q, e)
      OBVIOUS
    <3>7. p \in Seq(Lines) /\ Len(p) = Len(q) + 1 /\ p[Len(p)] = e /\ \A k \in 1 .. Len(q) : p[k] = q[k]
      BY <2>5, <3>5, <3>6
    <3>8. p[1] = q[1] /\ p[Len(q)] = q[Len(q)]
      BY <3>5, <3>7
    <3>9. ASSUME NEW k \in 1 .. Len(p) PROVE p[k] \in Entered(ls)
      <4>1. k \in 1 .. Len(q) \/ k = Len(p)
        BY <3>5, <3>7
      <4> QED BY <3>4, <3>7, <4>1 DEF Path
    <3>10. ASSUME NEW k \in 1 .. Len(p) - 1 PROVE p[k + 1].parent = p[k].id
      <4>1. CASE k = Len(q)
        <5>1. p[k + 1] = e /\ p[k] = q[Len(q)]
          BY <3>7, <3>8, <4>1
        <5> QED BY <3>4, <5>1 DEF Path
      <4>2. CASE k # Len(q)
        <5>1. k \in 1 .. Len(q) - 1 /\ k \in 1 .. Len(q) /\ k + 1 \in 1 .. Len(q)
          BY <3>5, <3>7, <4>2
        <5>2. p[k + 1] = q[k + 1] /\ p[k] = q[k]
          BY <3>7, <5>1
        <5> QED BY <3>4, <5>1, <5>2 DEF Path
      <4> QED BY <4>1, <4>2
    <3>11. p[1].parent = 0
      BY <3>4, <3>8 DEF Path
    <3>12. Len(p) >= 1 /\ p[Len(p)].id = i
      BY <2>4, <3>5, <3>7
    <3>13. Path(ls, i, p)
      BY <3>7, <3>9, <3>10, <3>11, <3>12 DEF Path
    <3> QED BY <2>3, <2>6, <3>3, <3>6, <3>13
  <2> QED BY <2>7, <2>8
<1> QED BY <1>1, <1>2

(* When no label is between them, the other entries begin the path.        *)
LEMMA KeptBegins ==
    ASSUME NEW p \in Seq(Lines), ~InnerLabel(p), \A i \in 1 .. Len(p) : IsEntry(p[i])
    PROVE  /\ Only(p, Unlabelled) \in Seq(Lines) /\ Len(Only(p, Unlabelled)) <= Len(p)
           /\ \A k \in 1 .. Len(Only(p, Unlabelled)) : Only(p, Unlabelled)[k] = p[k]
<1>1. PICK r \in Seq(Lines) : r = Only(p, Unlabelled)
  BY OnlyTyped
<1>2. PICK at : PlacedBy(p, Unlabelled, r, at)
  BY <1>1, OnlyPlaces
<1>3. Len(r) \in Nat /\ Len(p) \in Nat /\ DOMAIN p = 1 .. Len(p)
  OBVIOUS
<1>4. at \in [1 .. Len(r) -> 1 .. Len(p)]
  BY <1>2 DEF PlacedBy
<1>5. \A k \in 1 .. Len(r) : r[k] = p[at[k]] /\ p[at[k]].type \in Unlabelled
  BY <1>2 DEF PlacedBy
<1>6. \A k, l \in 1 .. Len(r) : k < l => at[k] < at[l]
  BY <1>2 DEF PlacedBy
<1>7. \A i \in 1 .. Len(p) : p[i].type \in Unlabelled => \E k \in 1 .. Len(r) : at[k] = i
  BY <1>2 DEF PlacedBy
<1>8. ASSUME NEW k \in 1 .. Len(r), NEW i \in 1 .. Len(p), i < at[k] PROVE p[i].type \in Unlabelled
  <2>1. p[at[k]].type # "label" /\ at[k] \in 1 .. Len(p)
    BY <1>4, <1>5 DEF Unlabelled
  <2>2. at[k] \in i + 1 .. Len(p)
    BY <1>8, <2>1
  <2>3. p[i].type # "label"
    BY <1>3, <2>1, <2>2 DEF InnerLabel
  <2> QED BY <2>3 DEF IsEntry, Unlabelled
<1>9. PICK Bad : Bad = {k \in 1 .. Len(r) : at[k] # k}
  OBVIOUS
<1>10. ASSUME Bad # {} PROVE FALSE
  <2>1. Bad \in SUBSET Nat
    BY <1>3, <1>9
  <2>2. PICK k \in Bad : \A y \in Bad : k <= y
    BY <1>10, <2>1, Least
  <2>3. k \in 1 .. Len(r) /\ at[k] # k /\ at[k] \in 1 .. Len(p)
    BY <1>4, <1>9
  <2>4. \A l \in 1 .. Len(r) : l < k => at[l] = l
    <3> TAKE l \in 1 .. Len(r)
    <3> HAVE l < k
    <3>1. l \notin Bad
      BY <2>2, <2>3
    <3> QED BY <1>9, <3>1
  <2>5. at[k] > k
    <3>1. CASE k = 1
      BY <2>3, <3>1
    <3>2. CASE k # 1
      <4>1. PICK l \in 1 .. Len(r) : l = k - 1
        BY <1>3, <2>3, <3>2
      <4>2. at[l] = l /\ at[l] < at[k]
        BY <1>6, <2>3, <2>4, <4>1
      <4> QED BY <2>3, <4>1, <4>2
    <3> QED BY <3>1, <3>2
  <2>6. k \in 1 .. Len(p)
    BY <2>3, <2>5
  <2>7. p[k].type \in Unlabelled
    BY <1>8, <2>3, <2>5, <2>6
  <2>8. PICK l \in 1 .. Len(r) : at[l] = k
    BY <1>7, <2>6, <2>7
  <2>9. CASE l < k
    BY <2>3, <2>4, <2>8, <2>9
  <2>10. CASE l = k
    BY <2>3, <2>8, <2>10
  <2>11. CASE l > k
    <3>1. at[k] < at[l]
      BY <1>6, <2>3, <2>11
    <3> QED BY <2>3, <2>5, <2>8, <3>1
  <2> QED BY <2>3, <2>9, <2>10, <2>11
<1>11. \A k \in 1 .. Len(r) : at[k] = k
  BY <1>9, <1>10
<1>12. \A k \in 1 .. Len(r) : r[k] = p[k] /\ k \in 1 .. Len(p)
  BY <1>4, <1>5, <1>11
<1>13. Len(r) <= Len(p)
  <2>1. CASE Len(r) = 0
    BY <1>3, <2>1
  <2>2. CASE Len(r) # 0
    <3>1. Len(r) \in 1 .. Len(r)
      BY <1>3, <2>2
    <3>2. Len(r) \in 1 .. Len(p)
      BY <1>12, <3>1
    <3> QED BY <1>3, <3>2
  <2> QED BY <2>1, <2>2
<1> QED BY <1>1, <1>12, <1>13

(* The part of a session that is one path is a session of its own.         *)
LEMMA KeptSession ==
    ASSUME NEW ls, NEW o, o \in Seq(Seq(Nat)), Len(o) <= MaxEntries, Session(ls, o), NEW id \in Ids(ls),
           ~InnerLabel(Branch(ls, id))
    PROVE  LET kept == Only(Branch(ls, id), Unlabelled) IN
           /\ Readable(<<Header>> \o kept, o) /\ kept \in Seq(Lines)
           /\ Entered(<<Header>> \o kept) = Range(kept) /\ Range(kept) \subseteq Entered(ls)
<1>1. PICK p : p = Branch(ls, id)
  OBVIOUS
<1>2. PICK r : r = Only(p, Unlabelled)
  OBVIOUS
<1>3. Tree(ls) /\ Len(o) \in Nat /\ ls \in Seq(Lines) /\ Sound(ls, Len(o)) /\ Keeps(ls, o)
  BY SessionTree DEF Session
<1>4. Path(ls, id, p)
  BY <1>1, <1>3, BranchPath
<1>5. p \in Seq(Lines) /\ Len(p) >= 1 /\ \A k \in 1 .. Len(p) : p[k] \in Entered(ls)
  BY <1>4 DEF Path
<1>6. \A k \in 1 .. Len(p) : IsEntry(p[k])
  BY <1>5 DEF Entered
<1>7. r \in Seq(Lines) /\ Len(r) <= Len(p) /\ \A k \in 1 .. Len(r) : r[k] = p[k]
  BY <1>1, <1>2, <1>5, <1>6, KeptBegins
<1>8. Len(r) \in Nat /\ Len(p) \in Nat /\ \A k \in 1 .. Len(r) : k \in 1 .. Len(p)
  BY <1>5, <1>7
<1>9. \A k \in 1 .. Len(r) : r[k] \in Entered(ls)
  BY <1>5, <1>7, <1>8
<1>10. Range(r) \subseteq Entered(ls)
  BY <1>7, <1>9, RangeOf
<1>11. Entered(r) = Range(r)
  BY <1>10 DEF Entered
<1>12. OneEntryPerId(Entered(r))
  BY <1>3, <1>10, <1>11 DEF Sound, OneEntryPerId
<1>13. ASSUME NEW k \in 1 .. Len(r) PROVE SoundLine(r, k, Len(o))
  <2>1. PICK e \in Entered(ls) : e = r[k]
    BY <1>9
  <2>2. PICK i \in 1 .. Len(ls) : ls[i] = e
    BY <1>3, RangeOf DEF Entered
  <2>3. IsEntry(e) /\ e.id \in 1 .. Len(o)
    <3>1. IsEntry(e)
      BY DEF Entered
    <3> QED BY <1>3, <2>2, <3>1, HeaderLine DEF Sound, SoundLine
  <2>4. OlderLine(r, k)
    <3>1. CASE k = 1
      BY <1>4, <1>7, <3>1 DEF Path, OlderLine
    <3>2. CASE k # 1
      <4>1. PICK j \in 1 .. Len(r) : k = j + 1 /\ j \in 1 .. k - 1
        <5>1. k - 1 \in 1 .. Len(r) /\ k = (k - 1) + 1 /\ k - 1 \in 1 .. k - 1
          BY <1>8, <3>2
        <5> QED BY <5>1
      <4>2. j \in 1 .. Len(p) - 1
        BY <1>7, <1>8, <4>1
      <4>3. p[j + 1].parent = p[j].id
        BY <1>4, <4>2 DEF Path
      <4>4. r[k].parent = r[j].id
        BY <1>7, <4>1, <4>3
      <4>5. IsEntry(r[j]) /\ r[j].id # 0
        <5>1. r[j] \in Entered(ls)
          BY <1>9
        <5>2. r[j].id \in 1 .. MaxEntries
          BY <1>3, <5>1, EntryIs
        <5> QED BY <5>1, <5>2 DEF Entered
      <4>6. r[k].parent < r[k].id
        BY <1>3, <2>1, <4>4, <4>5 DEF Tree
      <4> QED BY <4>1, <4>4, <4>5, <4>6 DEF OlderLine
    <3> QED BY <3>1, <3>2
  <2> QED BY <2>1, <2>3, <2>4 DEF SoundLine
<1>14. Sound(r, Len(o))
  BY <1>12, <1>13 DEF Sound
<1>15. Tree(r)
  BY <1>3, <1>7, <1>14, SoundTree
<1>16. Keeps(r, o)
  BY <1>3, <1>10, <1>11, <1>15, KeepsSub
<1>17. Session(r, o)
  BY <1>7, <1>14, <1>16 DEF Session
<1>18. Readable(<<Header>>, o) /\ Entered(<<Header>>) = {}
  BY HeaderSession
<1>19. PICK h : h = <<Header>>
  OBVIOUS
<1>20. Session(h, o) /\ Entered(h) = {}
  BY <1>18, <1>19 DEF Readable
<1>21. Session(h \o r, o) /\ Entered(h \o r) = Entered(h) \cup Entered(r)
  BY <1>10, <1>11, <1>17, <1>20, SessionConcat
<1>22. h \o r # <<>> /\ (h \o r)[1] = Header
  <2>1. h \in Seq(Lines) /\ Len(h) = 1 /\ h[1] = Header
    BY <1>19, HeaderLine
  <2>2. PICK q : q = h \o r
    OBVIOUS
  <2>3. Len(q) = Len(h) + Len(r) /\ q \in Seq(Lines) /\ \A i \in 1 .. Len(h) : q[i] = h[i]
    <3>1. r \in Seq(Lines)
      BY <1>7
    <3> QED BY <2>1, <2>2, <3>1, ConcatIs
  <2>4. q # <<>>
    BY <1>8, <2>1, <2>3
  <2> QED BY <2>1, <2>2, <2>3, <2>4
<1>23. Readable(h \o r, o)
  BY <1>21, <1>22 DEF Readable
<1> QED BY <1>1, <1>2, <1>7, <1>10, <1>11, <1>19, <1>20, <1>21, <1>23

(* Labels that are set again behind a session, as a chain.                 *)
Relabels(base, o, again, after) ==
    /\ again \in Seq(Lines) /\ after \in Ids(base) \cup {0}
    /\ \A j \in 1 .. Len(again) :
        /\ again[j].type = "label" /\ again[j].id = Len(o) + j
        /\ again[j].parent = IF j = 1 THEN after ELSE Len(o) + (j - 1)

LEMMA LabelsAppended ==
    ASSUME NEW base, NEW o, Readable(base, o), NEW again, NEW after, Relabels(base, o, again, after),
           NEW more, Extends(o, more), Len(more) = Len(o) + Len(again)
    PROVE  Readable(base \o again, more)
<1>1. base \in Seq(Lines) /\ Sound(base, Len(o)) /\ Keeps(base, o) /\ base # <<>> /\ base[1] = Header /\ Session(base, o)
  BY DEF Readable, Session
<1>2. again \in Seq(Lines) /\ Len(again) \in Nat /\ Len(base) \in Nat /\ Len(base) >= 1
  BY <1>1 DEF Relabels
<1>3. PICK n \in Nat : n = Len(o)
  BY DEF Extends
<1>4. o \in Seq(Seq(Nat)) /\ more \in Seq(Seq(Nat)) /\ n <= MaxEntries /\ Len(more) <= MaxEntries /\ Len(more) = n + Len(again)
      /\ Len(more) \in Nat
  BY <1>3, BoundsAssumption DEF Extends
<1>5. \A j \in 1 .. Len(again) :
        again[j].type = "label" /\ again[j].id = n + j /\ again[j].parent = IF j = 1 THEN after ELSE n + (j - 1)
  BY <1>3 DEF Relabels
<1>6. \A j \in 1 .. Len(again) : IsEntry(again[j]) /\ again[j].type \notin Unlabelled
  BY <1>5 DEF IsEntry, EntryTypes, Unlabelled
<1>7. PICK p : p = base \o again
  OBVIOUS
<1>8. /\ p \in Seq(Lines) /\ Len(p) = Len(base) + Len(again)
      /\ \A i \in 1 .. Len(base) : p[i] = base[i]
      /\ \A j \in 1 .. Len(again) : p[Len(base) + j] = again[j]
  BY <1>1, <1>2, <1>7
<1>9. \A i \in 1 .. Len(p) : i \in 1 .. Len(base) \/ \E j \in 1 .. Len(again) : i = Len(base) + j
  <2> SUFFICES ASSUME NEW i \in 1 .. Len(p), i \notin 1 .. Len(base) PROVE \E j \in 1 .. Len(again) : i = Len(base) + j
    OBVIOUS
  <2>1. i - Len(base) \in 1 .. Len(again) /\ i = Len(base) + (i - Len(base))
    BY <1>2, <1>8
  <2> QED BY <2>1
<1>10. \A d \in Entered(base) : d.id \in 1 .. n
  <2> SUFFICES ASSUME NEW d \in Entered(base) PROVE d.id \in 1 .. n
    OBVIOUS
  <2>1. PICK i \in 1 .. Len(base) : base[i] = d
    BY <1>1, RangeOf DEF Entered
  <2>2. IsEntry(d)
    BY DEF Entered
  <2> QED BY <1>1, <1>3, <2>1, <2>2, HeaderLine DEF Sound, SoundLine
<1>11. \A d \in Entered(p) : d \in Entered(base) \/ \E j \in 1 .. Len(again) : d = again[j]
  <2> SUFFICES ASSUME NEW d \in Entered(p), d \notin Entered(base) PROVE \E j \in 1 .. Len(again) : d = again[j]
    OBVIOUS
  <2>1. PICK i \in 1 .. Len(p) : p[i] = d
    BY <1>8, RangeOf DEF Entered
  <2>2. i \notin 1 .. Len(base)
    <3>1. ASSUME i \in 1 .. Len(base) PROVE FALSE
      <4>1. d = base[i]
        BY <1>8, <2>1, <3>1
      <4>2. d \in Range(base) /\ IsEntry(d)
        BY <1>1, <3>1, <4>1, RangeOf DEF Entered
      <4> QED BY <4>2 DEF Entered
    <3> QED BY <3>1
  <2> QED BY <1>8, <1>9, <2>1, <2>2
<1>12. OneEntryPerId(Entered(p))
  <2> SUFFICES ASSUME NEW d \in Entered(p), NEW e \in Entered(p), d.id = e.id PROVE d = e
    BY DEF OneEntryPerId
  <2>1. CASE d \in Entered(base) /\ e \in Entered(base)
    BY <1>1, <2>1 DEF Sound, OneEntryPerId
  <2>2. ASSUME NEW j \in 1 .. Len(again) PROVE again[j].id > n
    BY <1>5
  <2>3. CASE d \in Entered(base) /\ e \notin Entered(base)
    BY <1>10, <1>11, <2>2, <2>3
  <2>4. CASE d \notin Entered(base) /\ e \in Entered(base)
    BY <1>10, <1>11, <2>2, <2>4
  <2>5. CASE d \notin Entered(base) /\ e \notin Entered(base)
    <3>1. PICK j \in 1 .. Len(again), k \in 1 .. Len(again) : d = again[j] /\ e = again[k]
      BY <1>11, <2>5
    <3>2. n + j = n + k
      BY <1>5, <3>1
    <3> QED BY <3>1, <3>2
  <2> QED BY <2>1, <2>3, <2>4, <2>5
<1>13. ASSUME NEW i \in 1 .. Len(p) PROVE p[i] = Header \/ SoundLine(p, i, Len(more))
  <2>1. CASE i \in 1 .. Len(base)
    <3>1. p[i] = base[i] /\ \A j \in 1 .. i - 1 : p[j] = base[j]
      <4>1. \A j \in 1 .. i - 1 : j \in 1 .. Len(base)
        BY <1>2, <2>1
      <4> QED BY <1>8, <2>1, <4>1
    <3>2. base[i] = Header \/ SoundLine(base, i, n)
      BY <1>1, <1>3, <2>1 DEF Sound
    <3>3. \A x \in 1 .. n : x \in 1 .. Len(more)
      BY <1>2, <1>4
    <3> QED BY <3>1, <3>2, <3>3 DEF SoundLine, OlderLine
  <2>2. CASE i \notin 1 .. Len(base)
    <3>1. PICK j \in 1 .. Len(again) : i = Len(base) + j
      BY <1>9, <2>2
    <3>2. p[i] = again[j] /\ IsEntry(again[j]) /\ again[j].id = n + j
      BY <1>5, <1>6, <1>8, <3>1
    <3>3. n + j \in 1 .. Len(more)
      BY <1>2, <1>4
    <3>4. OlderLine(p, i)
      <4>1. CASE j = 1
        <5>1. p[i].parent = after
          BY <1>5, <3>2, <4>1
        <5>2. CASE after = 0
          BY <5>1, <5>2 DEF OlderLine
        <5>3. CASE after # 0
          <6>1. PICK d \in Entered(base) : d.id = after
            BY <5>3, IdsEntered DEF Relabels
          <6>2. PICK h \in 1 .. Len(base) : base[h] = d
            BY <1>1, RangeOf DEF Entered
          <6>3. h \in 1 .. i - 1 /\ p[h] = d /\ IsEntry(d)
            BY <1>2, <1>8, <3>1, <4>1, <6>2 DEF Entered
          <6>4. p[i].parent < p[i].id
            BY <1>10, <3>2, <4>1, <5>1, <6>1
          <6> QED BY <5>1, <6>1, <6>3, <6>4 DEF OlderLine
        <5> QED BY <5>2, <5>3
      <4>2. CASE j # 1
        <5>1. PICK k \in 1 .. Len(again) : k = j - 1
          BY <1>2, <4>2
        <5>2. PICK h \in 1 .. i - 1 : h = Len(base) + k
          <6>1. Len(base) + k \in 1 .. i - 1
            BY <1>2, <3>1, <5>1
          <6> QED BY <6>1
        <5>3. p[h] = again[k] /\ IsEntry(again[k]) /\ again[k].id = n + k
          BY <1>5, <1>6, <1>8, <5>2
        <5>4. p[i].parent = n + k
          BY <1>5, <3>2, <4>2, <5>1
        <5>5. n + k < n + j
          BY <5>1
        <5> QED BY <3>2, <5>3, <5>4, <5>5 DEF OlderLine
      <4> QED BY <4>1, <4>2
    <3> QED BY <3>2, <3>3, <3>4 DEF SoundLine
  <2> QED BY <2>1, <2>2
<1>14. Sound(p, Len(more))
  BY <1>12, <1>13 DEF Sound
<1>15. Session(base, more)
  BY <1>1, SessionLater
<1>16. Tree(base) /\ Tree(p)
  BY <1>1, <1>3, <1>4, <1>8, <1>14, SoundTree
<1>17. Entered(base) \subseteq Entered(p)
  <2>1. Range(base) \subseteq Range(p)
    <3>1. \A i \in 1 .. Len(base) : i \in 1 .. Len(p)
      BY <1>2, <1>8
    <3> QED BY <1>1, <1>8, <3>1, RangeOf
  <2> QED BY <2>1 DEF Entered
<1>180. OldConverses => Converses(p)
  <2> SUFFICES ASSUME OldConverses PROVE Converses(p)
    OBVIOUS
  <2>1. Converses(base)
    BY <1>1 DEF Keeps
  <2>2. ASSUME NEW e \in Entered(p), e \notin Entered(base) PROVE Continues(e, p)
    <3>1. PICK j \in 1 .. Len(again) : e = again[j]
      BY <1>11, <2>2
    <3>2. e.type \notin {"compaction", "toolResult"} /\ e.id # 0
      BY <1>5, <3>1
    <3>3. e \in Lines /\ (e.parent = 0 \/ (e.parent \in Ids(p) /\ e.parent < e.id)) /\ e.id \in Nat
      BY <1>16 DEF Tree, Lines
    <3>4. e.parent \in Ids(p) \cup {0} /\ e.parent < e.id
      BY <3>2, <3>3
    <3> QED BY <1>16, <3>2, <3>3, <3>4, OtherContinues
  <2> QED BY <1>16, <1>17, <2>1, <2>2, ConversesMore
<1>18. Keeps(p, more)
  <2> SUFFICES ASSUME NEW e \in Range(p), e.type \in Unlabelled
               PROVE  e.id \in DOMAIN more /\ PathIds(p, e.id) = more[e.id]
    BY <1>180 DEF Keeps, Remembers
  <2>1. e \in Entered(p)
    BY DEF Entered, IsEntry, Unlabelled
  <2>2. e \in Entered(base)
    BY <1>6, <1>11, <2>1
  <2>3. e.id \in DOMAIN more /\ PathIds(base, e.id) = more[e.id]
    BY <1>15, <2>2 DEF Session, Keeps, Remembers, Entered
  <2>4. e.id \in Ids(base)
    BY <2>2, IdsEntered
  <2>5. Branch(p, e.id) = Branch(base, e.id)
    BY <1>16, <1>17, <2>4, BranchKept
  <2> QED BY <2>3, <2>5 DEF PathIds
<1>19. p # <<>> /\ p[1] = Header
  <2>1. 1 \in 1 .. Len(base)
    BY <1>2
  <2> QED BY <1>1, <1>2, <1>8, <2>1
<1> QED BY <1>7, <1>8, <1>14, <1>18, <1>19 DEF Readable, Session
---------------------------------------------------------------------------
(* createBranchedSession, when no label is between the entries of the path.*)
LEMMA IdsInOrder ==
    ASSUME NEW T \in SUBSET (1 .. MaxEntries), NEW ids \in InOrder(T)
    PROVE  ids \in Seq(Nat) /\ \A i \in 1 .. Len(ids) : ids[i] \in T
<1>1. MaxEntries \in Nat
  BY BoundsAssumption
<1>2. IsFiniteSet(1 .. MaxEntries)
  BY <1>1, FS_Interval
<1>3. IsFiniteSet(T)
  BY <1>2, FS_Subset
<1>4. Cardinality(T) \in Nat
  BY <1>3, FS_CardinalityType
<1>5. PICK n \in Nat : n = Cardinality(T)
  BY <1>4
<1>6. ids \in [1 .. n -> T]
  BY <1>5 DEF InOrder
<1>7. T \in SUBSET Nat
  BY <1>1
<1>8. ids \in [1 .. n -> Nat]
  BY <1>6, <1>7
<1>9. ids \in Seq(Nat) /\ Len(ids) = n
  BY <1>8
<1> QED BY <1>6, <1>9

LEMMA IdSeqTyped ==
    ASSUME NEW p \in Seq(Lines)
    PROVE  IdSeq(p) \in Seq(Nat)
<1>1. \A i \in 1 .. Len(p) : p[i].id \in Nat
  <2>1. \A i \in 1 .. Len(p) : p[i] \in Lines
    OBVIOUS
  <2> QED BY <2>1 DEF Lines
<1>2. DOMAIN p = 1 .. Len(p) /\ Len(p) \in Nat
  OBVIOUS
<1>3. IdSeq(p) \in [1 .. Len(p) -> Nat]
  BY <1>1, <1>2 DEF IdSeq
<1> QED BY <1>2, <1>3

LEMMA OriginExtended ==
    ASSUME NEW o, o \in Seq(Seq(Nat)), NEW ids \in Seq(Nat), Len(o) + Len(ids) <= MaxEntries, NEW s \in Seq(Nat)
    PROVE  Extends(o, o \o [i \in DOMAIN ids |-> s]) /\ Len(o \o [i \in DOMAIN ids |-> s]) = Len(o) + Len(ids)
<1>1. PICK m : m = [i \in DOMAIN ids |-> s]
  OBVIOUS
<1>2. DOMAIN ids = 1 .. Len(ids) /\ Len(ids) \in Nat
  OBVIOUS
<1>3. m \in [1 .. Len(ids) -> Seq(Nat)]
  BY <1>1, <1>2
<1>4. m \in Seq(Seq(Nat)) /\ Len(m) = Len(ids)
  BY <1>2, <1>3
<1>5. PICK more : more = o \o m
  OBVIOUS
<1>6. more \in Seq(Seq(Nat)) /\ Len(more) = Len(o) + Len(m) /\ \A i \in 1 .. Len(o) : more[i] = o[i]
  BY <1>4, <1>5, ConcatIs
<1>7. Len(o) \in Nat
  OBVIOUS
<1> QED BY <1>1, <1>2, <1>4, <1>5, <1>6, <1>7 DEF Extends

LEMMA LabelAgainRelabels ==
    ASSUME NEW base, NEW o, o \in Seq(Seq(Nat)), o = origin, NEW ids \in Seq(Nat), NEW after \in Nat, after \in Ids(base) \cup {0}
    PROVE  Relabels(base, o, LabelAgain(ids, after), after) /\ Len(LabelAgain(ids, after)) = Len(ids)
<1>1. PICK n \in Nat : n = Len(o)
  OBVIOUS
<1>2. DOMAIN ids = 1 .. Len(ids) /\ Len(ids) \in Nat
  OBVIOUS
<1>3. PICK m : m = LabelAgain(ids, after)
  OBVIOUS
<1>4. m = [i \in 1 .. Len(ids) |-> Line("label", n + i, IF i = 1 THEN after ELSE (n + i) - 1, ids[i], {ids[i]})]
  BY <1>1, <1>2, <1>3 DEF LabelAgain
<1>5. \A i \in 1 .. Len(ids) :
        /\ m[i] \in Lines /\ m[i].type = "label" /\ m[i].id = n + i
        /\ m[i].parent = IF i = 1 THEN after ELSE n + (i - 1)
  <2> SUFFICES ASSUME NEW i \in 1 .. Len(ids)
               PROVE  /\ m[i] \in Lines /\ m[i].type = "label" /\ m[i].id = n + i
                      /\ m[i].parent = IF i = 1 THEN after ELSE n + (i - 1)
    OBVIOUS
  <2>1. n + i \in Nat /\ (n + i) - 1 = n + (i - 1) /\ (n + i) - 1 \in Nat /\ ids[i] \in Nat
    OBVIOUS
  <2>2. PICK q \in Nat : q = IF i = 1 THEN after ELSE (n + i) - 1
    BY <2>1
  <2>3. m[i] = [type |-> "label", id |-> n + i, parent |-> q, target |-> ids[i], told |-> {ids[i]}]
    BY <1>4, <2>2 DEF Line
  <2>4. "label" \in EntryTypes
    BY DEF EntryTypes
  <2>5. m[i] \in Lines
    BY <2>1, <2>3, <2>4 DEF Lines
  <2> QED BY <2>1, <2>2, <2>3, <2>5
<1>6. m \in [1 .. Len(ids) -> Lines]
  BY <1>4, <1>5
<1>7. m \in Seq(Lines) /\ Len(m) = Len(ids)
  BY <1>2, <1>6
<1> QED BY <1>1, <1>3, <1>5, <1>7 DEF Relabels

(* What createBranchedSession makes of a path, and of the history.         *)
Forked(ids, kept) == <<Header>> \o kept \o LabelAgain(ids, LastLine(kept))

ForkedOrigin(ids, kept) == origin \o [i \in DOMAIN ids |-> IdSeq(kept)]

LEMMA ForkedSession ==
    ASSUME SessionInv, NEW id \in Ids(fileEntries), ~InnerLabel(Branch(fileEntries, id)),
           NEW kept, kept = Only(Branch(fileEntries, id), Unlabelled), NEW ids \in Seq(Nat),
           Len(origin) + Len(ids) <= MaxEntries
    PROVE  Readable(Forked(ids, kept), ForkedOrigin(ids, kept)) /\ Extends(origin, ForkedOrigin(ids, kept))
<1>1. PICK o : o = origin
  OBVIOUS
<1>2. o \in Seq(Seq(Nat)) /\ Len(o) <= MaxEntries /\ Session(fileEntries, o)
  BY <1>1 DEF SessionInv, HistoryInv, MemoryInv
<1>3. PICK base : base = <<Header>> \o kept
  OBVIOUS
<1>4. Readable(base, o) /\ kept \in Seq(Lines) /\ Entered(base) = Range(kept) /\ Range(kept) \subseteq Entered(fileEntries)
  BY <1>2, <1>3, KeptSession
<1>5. PICK after : after = LastLine(kept)
  OBVIOUS
<1>6. after \in Ids(kept) \cup {0}
  BY <1>4, <1>5, LeafIn
<1>7. Ids(kept) = Ids(base)
  <2>1. Entered(kept) = Entered(base)
    BY <1>4 DEF Entered
  <2> QED BY <2>1, IdsEntered
<1>8. after \in Nat /\ after \in Ids(base) \cup {0}
  <2>1. Tree(base)
    BY <1>2, <1>4, SessionTree DEF Readable
  <2>2. \A i \in Ids(base) : i \in Nat
    BY <2>1, EntryOf
  <2> QED BY <1>6, <1>7, <2>2
<1>9. PICK again : again = LabelAgain(ids, after)
  OBVIOUS
<1>10. Relabels(base, o, again, after) /\ Len(again) = Len(ids)
  BY <1>1, <1>2, <1>8, <1>9, LabelAgainRelabels
<1>11. PICK s \in Seq(Nat) : s = IdSeq(kept)
  BY <1>4, IdSeqTyped
<1>12. PICK more : more = ForkedOrigin(ids, kept)
  OBVIOUS
<1>13. Extends(o, more) /\ Len(more) = Len(o) + Len(ids)
  BY <1>1, <1>2, <1>11, <1>12, OriginExtended DEF ForkedOrigin
<1>14. Readable(base \o again, more)
  BY <1>4, <1>10, <1>13, LabelsAppended
<1>15. base \o again = Forked(ids, kept)
  BY <1>3, <1>5, <1>9 DEF Forked
<1> QED BY <1>1, <1>12, <1>13, <1>14, <1>15

(* A session without an answer is opened in a file that is not there yet.  *)
LEMMA UnwrittenKeeps ==
    ASSUME NEW f \in Files, NEW ls, DiskInv(disk', origin'), HistoryInv(disk', origin'), Readable(ls, origin'),
           disk'[f] = Absent, ~HasAssistant(ls), Memory(f, ls, LeafAfterLoad(ls), FALSE, LabelsOf(ls))
    PROVE  SessionInv'
<1>1. file' = f /\ fileEntries' = ls /\ leafId' = LeafAfterLoad(ls) /\ flushed' = FALSE /\ labelsById' = LabelsOf(ls)
  BY DEF Memory
<1>2. PICK o : o = origin'
  OBVIOUS
<1>3. PICK d : d = disk'
  OBVIOUS
<1>4. Readable(ls, o) /\ d[f] = Absent
  BY <1>2, <1>3
<1>5. ls \in Seq(Lines)
  BY <1>4 DEF Readable, Session
<1>6. MemoryInv(f, ls, LeafAfterLoad(ls), FALSE, LabelsOf(ls), o)
  BY <1>4, <1>5, LeafIn, BoundsAssumption DEF MemoryInv, Readable
<1>7. OpenInv(d, f, ls, FALSE, o)
  BY <1>4 DEF OpenInv
<1>8. MemoryInv(file', fileEntries', leafId', flushed', labelsById', origin')
  BY <1>1, <1>2, <1>6
<1>9. OpenInv(disk', file', fileEntries', flushed', origin')
  BY <1>1, <1>2, <1>3, <1>7
<1> QED BY <1>8, <1>9 DEF SessionInv

ForkWritten(f, ls, more, w) ==
    /\ disk' = w.disk /\ origin' = more
    /\ IF w.fate = "crash"
         THEN Forgotten
         ELSE Memory(f, ls, LeafAfterLoad(ls), HasAssistant(ls) /\ (flushed \/ w.fate = "ok"), LabelsOf(ls))

LEMMA CreateBranchedSessionKeeps ==
    ASSUME OnlyCrashes, "forkLabelled" \notin Api, SessionInv, CreateBranchedSession
    PROVE  SessionInv'
<1>1. PICK f \in Files : f = Min(FreshFiles) /\ disk[f] = Absent
  BY FreshFile DEF CreateBranchedSession
<1>2. PICK id \in Ids(fileEntries) :
        \E ids \in InOrder(labelsById \cap Range(IdSeq(Only(Branch(fileEntries, id), Unlabelled)))) :
          LET kept == Only(Branch(fileEntries, id), Unlabelled)
              ls   == Forked(ids, kept)
          IN  /\ InnerLabel(Branch(fileEntries, id)) => "forkLabelled" \in Api
              /\ Len(origin) + Len(ids) <= MaxEntries
              /\ \E w \in IF HasAssistant(ls) THEN Rewrite(f, ls) ELSE {NoWrite} :
                    ForkWritten(f, ls, ForkedOrigin(ids, kept), w)
  BY <1>1 DEF CreateBranchedSession, Forked, ForkedOrigin, ForkWritten, Written
<1>3. PICK kept : kept = Only(Branch(fileEntries, id), Unlabelled)
  OBVIOUS
<1>4. PICK ids \in InOrder(labelsById \cap Range(IdSeq(kept))) :
        /\ InnerLabel(Branch(fileEntries, id)) => "forkLabelled" \in Api
        /\ Len(origin) + Len(ids) <= MaxEntries
        /\ \E w \in IF HasAssistant(Forked(ids, kept)) THEN Rewrite(f, Forked(ids, kept)) ELSE {NoWrite} :
              ForkWritten(f, Forked(ids, kept), ForkedOrigin(ids, kept), w)
  BY <1>2, <1>3
<1>5. PICK ls : ls = Forked(ids, kept)
  OBVIOUS
<1>6. PICK more : more = ForkedOrigin(ids, kept)
  OBVIOUS
<1>7. PICK w \in (IF HasAssistant(ls) THEN Rewrite(f, ls) ELSE {NoWrite}) : ForkWritten(f, ls, more, w)
  BY <1>4, <1>5, <1>6
<1>8. ids \in Seq(Nat)
  <2>1. OpenMemory
    BY SessionMemory
  <2>2. \A i \in Ids(fileEntries) : i \in 1 .. MaxEntries
    BY <2>1, EntryOf DEF OpenMemory
  <2>3. labelsById \cap Range(IdSeq(kept)) \in SUBSET (1 .. MaxEntries)
    BY <2>1, <2>2 DEF OpenMemory
  <2> QED BY <2>3, IdsInOrder
<1>9. Readable(ls, more) /\ Extends(origin, more)
  BY <1>3, <1>4, <1>5, <1>6, <1>8, ForkedSession
<1>10. DiskInv(disk, more) /\ HistoryInv(disk, more)
  BY <1>9, DiskLater DEF SessionInv
<1>11. disk' = w.disk /\ origin' = more
  BY <1>7 DEF ForkWritten
<1>12. CASE HasAssistant(ls)
  <2>1. w \in Rewrite(f, ls)
    BY <1>7, <1>12
  <2>2. DiskInv(w.disk, more) /\ HistoryInv(w.disk, more) /\ ((w.fate = "ok" /\ w.disk[f] = ls) \/ w.fate = "crash")
    BY <1>9, <1>10, <2>1, RewriteKeeps
  <2>3. DiskInv(disk', origin') /\ HistoryInv(disk', origin')
    BY <1>11, <2>2
  <2>4. CASE w.fate = "ok" /\ w.disk[f] = ls
    <3>1. Memory(f, ls, LeafAfterLoad(ls), HasAssistant(ls) /\ (flushed \/ w.fate = "ok"), LabelsOf(ls))
      BY <1>7, <2>4 DEF ForkWritten
    <3>2. (HasAssistant(ls) /\ (flushed \/ w.fate = "ok")) = TRUE
      BY <1>12, <2>4
    <3>3. Memory(f, ls, LeafAfterLoad(ls), TRUE, LabelsOf(ls))
      BY <3>1, <3>2
    <3>4. Readable(ls, origin') /\ disk'[f] = ls
      BY <1>9, <1>11, <2>4
    <3> QED BY <2>3, <3>3, <3>4, OpenedKeeps
  <2>5. CASE w.fate = "crash"
    <3>1. Forgotten
      BY <1>7, <2>5 DEF ForkWritten
    <3> QED BY <2>3, <3>1, ForgottenKeeps
  <2> QED BY <2>2, <2>4, <2>5
<1>13. CASE ~HasAssistant(ls)
  <2>1. w = NoWrite
    BY <1>7, <1>13
  <2>2. w.fate = "ok" /\ w.disk = disk
    BY <2>1 DEF NoWrite
  <2>3. DiskInv(disk', origin') /\ HistoryInv(disk', origin')
    BY <1>10, <1>11, <2>2
  <2>4. Memory(f, ls, LeafAfterLoad(ls), HasAssistant(ls) /\ (flushed \/ w.fate = "ok"), LabelsOf(ls))
    BY <1>7, <2>2 DEF ForkWritten
  <2>5. (HasAssistant(ls) /\ (flushed \/ w.fate = "ok")) = FALSE
    BY <1>13
  <2>6. Memory(f, ls, LeafAfterLoad(ls), FALSE, LabelsOf(ls))
    BY <2>4, <2>5
  <2>7. Readable(ls, origin') /\ disk'[f] = Absent
    BY <1>1, <1>9, <1>11, <2>2
  <2> QED BY <1>13, <2>3, <2>6, <2>7, UnwrittenKeeps
<1> QED BY <1>12, <1>13
---------------------------------------------------------------------------
(* forkFrom: the entries of a session are one without its header, too.     *)
LEMMA EntriesSession ==
    ASSUME NEW ls, NEW o, o \in Seq(Seq(Nat)), Len(o) <= MaxEntries, Session(ls, o)
    PROVE  Readable(<<Header>> \o Entries(ls), o) /\ Entries(ls) \in Seq(Lines)
<1>1. PICK r : r = Entries(ls)
  OBVIOUS
<1>2. Tree(ls) /\ Len(o) \in Nat /\ ls \in Seq(Lines) /\ Sound(ls, Len(o)) /\ Keeps(ls, o)
  BY SessionTree DEF Session
<1>3. r \in Seq(Lines) /\ Range(r) = {e \in Range(ls) : e.type \in EntryTypes}
  BY <1>1, <1>2, OnlyWithin DEF Entries
<1>4. Range(r) = Entered(ls) /\ Entered(r) = Entered(ls)
  BY <1>3 DEF Entered, IsEntry
<1>5. OneEntryPerId(Entered(r))
  BY <1>2, <1>4 DEF Sound
<1>6. PICK at : PlacedBy(ls, EntryTypes, r, at)
  BY <1>1, <1>2, OnlyPlaces DEF Entries
<1>7. Len(r) \in Nat /\ Len(ls) \in Nat /\ at \in [1 .. Len(r) -> 1 .. Len(ls)]
  BY <1>2, <1>3, <1>6 DEF PlacedBy
<1>8. ASSUME NEW k \in 1 .. Len(r) PROVE SoundLine(r, k, Len(o))
  <2>1. PICK i \in 1 .. Len(ls) : i = at[k]
    BY <1>7
  <2>2. r[k] = ls[i] /\ ls[i].type \in EntryTypes
    BY <1>6, <2>1 DEF PlacedBy
  <2>3. IsEntry(ls[i])
    BY <2>2 DEF IsEntry
  <2>4. SoundLine(ls, i, Len(o))
    BY <1>2, <2>3, HeaderLine DEF Sound
  <2>5. OlderLine(r, k)
    <3>1. CASE ls[i].parent = 0
      BY <2>2, <3>1 DEF OlderLine
    <3>2. CASE ls[i].parent # 0
      <4>1. ls[i].parent < ls[i].id
        BY <2>4, <3>2 DEF SoundLine, OlderLine
      <4>2. PICK j \in 1 .. i - 1 : IsEntry(ls[j]) /\ ls[j].id = ls[i].parent
        BY <2>4, <3>2 DEF SoundLine, OlderLine
      <4>3. j \in 1 .. Len(ls) /\ ls[j].type \in EntryTypes /\ j < i
        BY <1>7, <4>2 DEF IsEntry
      <4>4. PICK l \in 1 .. Len(r) : at[l] = j
        BY <1>6, <4>3 DEF PlacedBy
      <4>5. r[l] = ls[j]
        BY <1>6, <4>4 DEF PlacedBy
      <4>6. l < k
        <5>1. CASE l = k
          BY <2>1, <4>3, <4>4, <5>1
        <5>2. CASE k < l
          <6>1. at[k] < at[l]
            BY <1>6, <5>2 DEF PlacedBy
          <6> QED BY <2>1, <4>3, <4>4, <6>1
        <5> QED BY <1>7, <5>1, <5>2
      <4>7. l \in 1 .. k - 1
        BY <1>7, <4>6
      <4> QED BY <2>2, <4>1, <4>2, <4>5, <4>7 DEF OlderLine
    <3> QED BY <3>1, <3>2
  <2> QED BY <2>2, <2>3, <2>4, <2>5 DEF SoundLine
<1>9. Sound(r, Len(o))
  BY <1>5, <1>8 DEF Sound
<1>10. Tree(r)
  BY <1>2, <1>3, <1>9, SoundTree
<1>11. Keeps(r, o)
  BY <1>2, <1>4, <1>10, KeepsSub
<1>12. Session(r, o)
  BY <1>3, <1>9, <1>11 DEF Session
<1>13. PICK h : h = <<Header>>
  OBVIOUS
<1>14. Session(h, o) /\ Entered(h) = {}
  BY <1>13, HeaderSession DEF Readable
<1>15. Session(h \o r, o)
  BY <1>4, <1>12, <1>14, SessionConcat
<1>16. h \o r # <<>> /\ (h \o r)[1] = Header
  <2>1. h \in Seq(Lines) /\ Len(h) = 1 /\ h[1] = Header
    BY <1>13, HeaderLine
  <2>2. PICK q : q = h \o r
    OBVIOUS
  <2>3. Len(q) = Len(h) + Len(r) /\ q \in Seq(Lines) /\ \A i \in 1 .. Len(h) : q[i] = h[i]
    BY <1>3, <2>1, <2>2, ConcatIs
  <2>4. q # <<>>
    BY <1>7, <2>1, <2>3
  <2> QED BY <2>1, <2>2, <2>3, <2>4
<1> QED BY <1>1, <1>3, <1>13, <1>15, <1>16 DEF Readable

(* What is read is a session, when it is not of version 1.                 *)
LEMMA LoadedReadable ==
    ASSUME NEW f \in Files, DiskInv(disk, origin), Loaded(Content(f)) # <<>>, Loaded(Content(f))[1].type # "oldSession"
    PROVE  Readable(Loaded(Content(f)), origin)
<1>1. disk[f] # Absent
  BY NothingLoaded DEF Content
<1>2. Content(f) = disk[f]
  BY <1>1 DEF Content
<1>3. disk[f] # OldFile
  BY <1>2, OldLoaded, OldFileAssumption
<1>4. ~NoSession(disk[f])
  BY <1>2 DEF NoSession
<1>5. Readable(disk[f], origin)
  BY <1>1, <1>3, <1>4 DEF DiskInv, MayHold
<1> QED BY <1>2, <1>5, ReadableLoaded

LEMMA ForkFromKeeps ==
    ASSUME OnlyCrashes, "forkOld" \notin Api, SessionInv, ForkFrom
    PROVE  SessionInv'
<1>1. PICK f \in Files : f = Min(FreshFiles) /\ disk[f] = Absent
  BY FreshFile DEF ForkFrom
<1>2. PICK source \in Files :
        /\ Loaded(Content(source)) # <<>>
        /\ Loaded(Content(source))[1].type = "oldSession" => "forkOld" \in Api
        /\ \E w \in AppendLines(f, <<Header>> \o Entries(Loaded(Content(source)))) :
              /\ disk' = w.disk
              /\ IF w.fate = "ok"
                   THEN Memory(f, Loaded(w.disk[f]), LeafAfterLoad(Loaded(w.disk[f])), TRUE, LabelsOf(Loaded(w.disk[f])))
                   ELSE Forgotten
  BY <1>1 DEF ForkFrom, Written
<1>3. PICK ls : ls = <<Header>> \o Entries(Loaded(Content(source)))
  OBVIOUS
<1>4. PICK w \in AppendLines(f, ls) :
        /\ disk' = w.disk
        /\ IF w.fate = "ok"
             THEN Memory(f, Loaded(w.disk[f]), LeafAfterLoad(Loaded(w.disk[f])), TRUE, LabelsOf(Loaded(w.disk[f])))
             ELSE Forgotten
  BY <1>2, <1>3
<1>5. PICK o : o = origin
  OBVIOUS
<1>6. origin' = o
  BY <1>5 DEF ForkFrom
<1>7. DiskInv(disk, o) /\ HistoryInv(disk, o) /\ o \in Seq(Seq(Nat)) /\ Len(o) <= MaxEntries
  BY <1>5 DEF SessionInv, HistoryInv
<1>8. Readable(Loaded(Content(source)), o)
  BY <1>2, <1>5, <1>7, LoadedReadable
<1>9. Readable(ls, o)
  BY <1>3, <1>7, <1>8, EntriesSession DEF Readable
<1>10. ls \in Seq(Lines) /\ ls # <<>> /\ ls[1] = Header /\ Session(ls, o)
  BY <1>9 DEF Readable, Session
<1>11. Content(f) = <<>>
  BY <1>1 DEF Content
<1>12. Clean(Content(f))
  <2>1. <<>> \in Seq(Lines) /\ Len(<<>>) = 0
    OBVIOUS
  <2> QED BY <1>11, <2>1 DEF Clean
<1>13. WrittenAs(w, f, ls)
  <2>1. disk \in [Files -> Seq(Lines) \cup {Absent}]
    BY <1>7 DEF DiskInv
  <2> QED BY <1>10, <1>12, <2>1, AppendOutcome
<1>14. \A s \in Seq(Lines) : <<>> \o s = s
  OBVIOUS
<1>15. CASE w.fate = "ok" /\ w.disk = [disk EXCEPT ![f] = Content(f) \o ls]
  <2>1. w.disk = [disk EXCEPT ![f] = ls]
    BY <1>10, <1>11, <1>14, <1>15
  <2>2. DiskInv([disk EXCEPT ![f] = ls], o) /\ HistoryInv([disk EXCEPT ![f] = ls], o)
    BY <1>7, <1>9, <1>10, DiskWritten
  <2>3. w.disk[f] = ls
    BY <1>7, <2>1 DEF DiskInv
  <2>4. Loaded(w.disk[f]) = ls
    BY <1>9, <2>3, ReadableLoaded
  <2>5. Memory(f, ls, LeafAfterLoad(ls), TRUE, LabelsOf(ls))
    BY <1>4, <1>15, <2>4
  <2>6. DiskInv(disk', origin') /\ HistoryInv(disk', origin')
    BY <1>4, <1>6, <2>1, <2>2
  <2>7. Readable(ls, origin') /\ disk'[f] = ls
    BY <1>4, <1>6, <1>9, <2>3
  <2> QED BY <2>5, <2>6, <2>7, OpenedKeeps
<1>16. CASE w.fate = "crash" /\ w.disk = disk
  <2>1. Forgotten
    BY <1>4, <1>16
  <2>2. DiskInv(disk', origin') /\ HistoryInv(disk', origin')
    BY <1>4, <1>6, <1>7, <1>16
  <2> QED BY <2>1, <2>2, ForgottenKeeps
<1>17. CASE w.fate = "crash" /\ \E k \in 1 .. Len(ls) : w.disk = [disk EXCEPT ![f] = Content(f) \o SubSeq(ls, 1, k)]
  <2>1. PICK k \in 1 .. Len(ls) : w.disk = [disk EXCEPT ![f] = Content(f) \o SubSeq(ls, 1, k)]
    BY <1>17
  <2>2. PICK p : p = SubSeq(ls, 1, k)
    OBVIOUS
  <2>3. k \in 0 .. Len(ls) /\ k # 0
    OBVIOUS
  <2>4. Session(p, o) /\ Len(p) = k /\ p[1] = Header
    BY <1>7, <1>10, <2>2, <2>3, SessionPrefix
  <2>5. p \in Seq(Lines) /\ p # <<>>
    BY <2>3, <2>4 DEF Session
  <2>6. Readable(p, o)
    BY <2>4, <2>5 DEF Readable
  <2>7. w.disk = [disk EXCEPT ![f] = p]
    BY <1>11, <1>14, <2>1, <2>2, <2>5
  <2>8. DiskInv([disk EXCEPT ![f] = p], o) /\ HistoryInv([disk EXCEPT ![f] = p], o)
    BY <1>7, <2>5, <2>6, DiskWritten
  <2>9. DiskInv(disk', origin') /\ HistoryInv(disk', origin')
    BY <1>4, <1>6, <2>7, <2>8
  <2>10. Forgotten
    BY <1>4, <1>17
  <2> QED BY <2>9, <2>10, ForgottenKeeps
<1> QED BY <1>13, <1>15, <1>16, <1>17 DEF WrittenAs
---------------------------------------------------------------------------
LEMMA SessionInit ==
    ASSUME Init
    PROVE  SessionInv
<1>1. PICK content \in StartContents : disk = [f \in Files |-> IF f = Min(Files) THEN content ELSE Absent]
  BY DEF Init
<1>2. PICK n : n = IF disk[Min(Files)] = OldFile THEN Len(OldFile) - 1 ELSE 0
  OBVIOUS
<1>3. origin = [i \in 1 .. n |-> [j \in 1 .. i |-> j]]
  BY <1>2 DEF Init
<1>4. Min(Files) \in Files
  <2>1. Files \in SUBSET Nat /\ Files # {}
    BY BoundsAssumption
  <2> QED BY <2>1, MinIn
<1>5. OldFile \in Seq(Lines) /\ Len(OldFile) \in Nat /\ Len(OldFile) >= 1 /\ OldFile # Absent /\ Len(OldFile) <= MaxEntries + 1
  BY OldFileAssumption, StartAssumption
<1>6. n \in Nat /\ n <= MaxEntries
  BY <1>2, <1>5, BoundsAssumption
<1>7. origin \in Seq(Seq(Nat)) /\ Len(origin) = n
  <2>1. \A i \in 1 .. n : [j \in 1 .. i |-> j] \in Seq(Nat)
    <3> TAKE i \in 1 .. n
    <3>1. i \in Nat /\ [j \in 1 .. i |-> j] \in [1 .. i -> Nat]
      OBVIOUS
    <3> QED BY <3>1
  <2>2. origin \in [1 .. n -> Seq(Nat)]
    BY <1>3, <2>1
  <2> QED BY <1>6, <2>2
<1>8. disk[Min(Files)] = content /\ \A f \in Files : f # Min(Files) => disk[f] = Absent
  BY <1>1, <1>4
<1>9. content = Absent \/ content = OldFile \/ NoSession(content)
  <2>1. ASSUME content # Absent, content # OldFile PROVE NoSession(content)
    <3>1. content \in Seq(Lines) /\ Loaded(content) = <<>> /\ \A i \in DOMAIN content : content[i].type # "torn"
      BY <2>1, StartAssumption
    <3>2. DOMAIN content = 1 .. Len(content)
      BY <3>1
    <3> QED BY <3>1, <3>2 DEF NoSession
  <2> QED BY <2>1
<1>10. \A f \in Files : disk[f] = Absent \/ disk[f] = OldFile \/ NoSession(disk[f])
  BY <1>8, <1>9
<1>11. DiskInv(disk, origin)
  <2>1. \A f \in Files : disk[f] \in Seq(Lines) \cup {Absent}
    BY <1>5, <1>10 DEF NoSession
  <2>2. disk \in [Files -> Seq(Lines) \cup {Absent}]
    BY <1>1, <2>1
  <2> QED BY <1>10, <2>2 DEF DiskInv, MayHold
<1>12. HistoryInv(disk, origin)
  <2>1. ASSUME NEW f \in Files, disk[f] = OldFile PROVE Chained(origin)
    <3>1. f = Min(Files)
      BY <1>5, <1>8, <2>1
    <3>2. n = Len(OldFile) - 1
      BY <1>2, <2>1, <3>1
    <3>3. \A i \in 1 .. n : origin[i] = [j \in 1 .. i |-> j]
      BY <1>3
    <3> QED BY <1>6, <1>7, <3>2, <3>3 DEF Chained
  <2> QED BY <1>6, <1>7, <2>1 DEF HistoryInv
<1>13. file = 0 /\ fileEntries = <<>> /\ leafId = 0 /\ flushed = FALSE /\ labelsById = {}
  BY DEF Init
<1>14. Session(<<>>, origin)
  BY <1>7, HeaderSession
<1>15. MemoryInv(0, <<>>, 0, FALSE, {}, origin)
  BY <1>14 DEF MemoryInv
<1>16. MemoryInv(file, fileEntries, leafId, flushed, labelsById, origin)
  BY <1>13, <1>15
<1>17. OpenInv(disk, file, fileEntries, flushed, origin)
  BY <1>13 DEF OpenInv
<1> QED BY <1>11, <1>12, <1>16, <1>17 DEF SessionInv

LEMMA SessionNext ==
    ASSUME OnlyCrashes, "forkLabelled" \notin Api, "forkOld" \notin Api, SessionInv, [Next]_vars
    PROVE  SessionInv'
<1>1. CASE AppendMessage
  BY <1>1, AppendMessageKeeps
<1>2. CASE AppendInfo
  BY <1>2, AppendInfoKeeps
<1>3. CASE AppendLabelChange
  BY <1>3, AppendLabelChangeKeeps
<1>4. CASE MoveLeaf
  BY <1>4, MoveLeafKeeps
<1>5. CASE BranchWithSummary
  BY <1>5, BranchWithSummaryKeeps
<1>6. CASE Compact
  BY <1>6, CompactKeeps
<1>7. CASE New
  BY <1>7, NewKeeps
<1>8. CASE Open
  BY <1>8, OpenKeeps
<1>9. CASE Exit
  BY <1>9, ExitKeeps
<1>10. CASE CreateBranchedSession
  BY <1>10, CreateBranchedSessionKeeps
<1>11. CASE ForkFrom
  BY <1>11, ForkFromKeeps
<1>12. CASE UNCHANGED vars
  <2>1. /\ disk' = disk /\ file' = file /\ fileEntries' = fileEntries /\ leafId' = leafId /\ flushed' = flushed
        /\ labelsById' = labelsById /\ origin' = origin
    BY <1>12 DEF vars
  <2> QED BY <2>1 DEF SessionInv
<1> QED BY <1>1, <1>2, <1>3, <1>4, <1>5, <1>6, <1>7, <1>8, <1>9, <1>10, <1>11, <1>12 DEF Next

(* Whatever is appended, forked, opened, compacted and interrupted, memory *)
(* and every file hold sessions: trees whose entries have their histories, *)
(* parents before children, one entry per id (session-manager.ts:683-1043, *)
(* 1168-1312).                                                             *)
THEOREM SessionInvariant ==
    ASSUME OnlyCrashes, "forkLabelled" \notin Api, "forkOld" \notin Api
    PROVE  Spec => []SessionInv
<1>1. Init => SessionInv
  BY SessionInit
<1>2. SessionInv /\ [Next]_vars => SessionInv'
  BY SessionNext
<1> QED BY <1>1, <1>2, PTL DEF Spec
---------------------------------------------------------------------------
(* Every file that is read, whatever it holds, is a session.               *)
LEMMA ContentRepaired ==
    ASSUME NEW f \in Files, DiskInv(disk, origin), HistoryInv(disk, origin)
    PROVE  Readable(Repaired(Content(f)), origin)
<1>1. CASE disk[f] = Absent
  <2>1. Repaired(Content(f)) = <<Header>>
    BY <1>1, NothingLoaded, NoSessionRepaired DEF Content
  <2> QED BY <2>1, HeaderSession DEF HistoryInv
<1>2. CASE disk[f] # Absent
  <2>1. Content(f) = disk[f]
    BY <1>2 DEF Content
  <2> QED BY <1>2, <2>1, RepairedReadable
<1> QED BY <1>1, <1>2

LEMMA SessionKeepsHistory ==
    ASSUME SessionInv
    PROVE  HistoryKept
<1>1. Keeps(fileEntries, origin)
  BY DEF SessionInv, MemoryInv, Session
<1>2. ASSUME NEW f \in Files PROVE Keeps(Repaired(Content(f)), origin)
  BY ContentRepaired DEF SessionInv, Readable, Session
<1>3. \A ls : Keeps(ls, origin) => KeepsHistory(ls)
  BY DEF Keeps, Remembers, KeepsHistory
<1> QED BY <1>1, <1>2, <1>3 DEF HistoryKept

(* The conversation that leads to an entry is the one it was appended to,  *)
(* in memory and in every file, for any tree, any old session and any      *)
(* crashes (getEntries and getBranch, session-manager.ts:1026-1076).       *)
THEOREM HistoryKeptHolds ==
    ASSUME OnlyCrashes, "forkLabelled" \notin Api, "forkOld" \notin Api
    PROVE  Spec => []HistoryKept
<1>1. SessionInv => HistoryKept
  BY SessionKeepsHistory
<1> QED BY <1>1, SessionInvariant, PTL

LEMMA SessionOnDisk ==
    ASSUME SessionInv
    PROVE  DiskHoldsSession
<1> SUFFICES ASSUME file # 0, HasAssistant(fileEntries)
             PROVE  Ids(OnDisk(file)) = Ids(fileEntries)
  BY DEF DiskHoldsSession
<1>1. disk[file] # Absent /\ Entered(disk[file]) = Entered(fileEntries) /\ Readable(disk[file], origin)
  BY DEF SessionInv, OpenInv
<1>2. OnDisk(file) = disk[file]
  BY <1>1, ReadableLoaded DEF OnDisk, Content
<1> QED BY <1>1, <1>2, IdsEntered

(* Once the model has answered, the file of the open session has all of it *)
(* (_persist, session-manager.ts:791-818).                                 *)
THEOREM DiskHoldsSessionHolds ==
    ASSUME OnlyCrashes, "forkLabelled" \notin Api, "forkOld" \notin Api
    PROVE  Spec => []DiskHoldsSession
<1>1. SessionInv => DiskHoldsSession
  BY SessionOnDisk
<1> QED BY <1>1, SessionInvariant, PTL
---------------------------------------------------------------------------
(* What the model is given, on the branch of the leaf.                     *)
LEMMA CurrentConverses ==
    ASSUME SessionInv, OldConverses
    PROVE  Current \in Seq(Lines) /\ Conversation(Current)
<1>1. OpenMemory
  BY SessionMemory
<1>2. Current \in Seq(Lines)
  BY <1>1, BranchTyped DEF OpenMemory, Current
<1>3. Converses(fileEntries) /\ leafId \in Ids(fileEntries) \cup {0}
  BY <1>1 DEF OpenMemory, Session, Keeps
<1>4. CASE leafId = 0
  <2>1. Current = <<>>
    BY <1>1, <1>4, BranchStep DEF OpenMemory, Current
  <2> QED BY <1>2, <2>1, EmptyConversation
<1>5. CASE leafId # 0
  <2>1. PICK e \in Entered(fileEntries) : e.id = leafId
    BY <1>3, <1>5, IdsEntered
  <2> QED BY <1>2, <1>3, <2>1 DEF Converses, Current
<1> QED BY <1>4, <1>5

LEMMA ResultsInPlace ==
    ASSUME SessionInv, OldConverses
    PROVE  ResultsKeepCalls
<1>1. PICK p \in Seq(Lines) : p = Current /\ Conversation(p)
  BY CurrentConverses
<1>2. PICK c : c = Context(p)
  OBVIOUS
<1>3. c \in Seq(Lines) /\ InPlace(c)
  BY <1>1, <1>2, ContextGives DEF GivenFrom
<1>4. DOMAIN c = 1 .. Len(c)
  BY <1>3
<1>5. \A i \in DOMAIN c : c[i].type = "toolResult" => i > 1 /\ c[i - 1].type \in {"assistant", "toolResult"}
  BY <1>3, <1>4 DEF InPlace, AnswerTypes
<1> QED BY <1>1, <1>2, <1>5 DEF ResultsKeepCalls

(* A tool result is given to the model only behind the answer that called  *)
(* the tool, for any tree, any sizes kept and any crashes (findCutPoint,   *)
(* compaction.ts:386-448; buildSessionContext, session-manager.ts:315-422).*)
THEOREM ResultsKeepCallsHolds ==
    ASSUME OnlyCrashes, "forkLabelled" \notin Api, "forkOld" \notin Api
    PROVE  Spec => []ResultsKeepCalls
<1>1. SessionInv => ResultsKeepCalls
  BY ResultsInPlace, OldSessionConverses
<1> QED BY <1>1, SessionInvariant, PTL

LEMMA SaidIsGivenOrTold ==
    ASSUME SessionInv, OldConverses
    PROVE  OnlySummarisedDropped
<1>1. PICK p \in Seq(Lines) : p = Current /\ Conversation(p)
  BY CurrentConverses
<1>2. PICK c : c = Context(p)
  OBVIOUS
<1>3. PICK b \in 1 .. Len(p) + 1 : b = BoundaryStart(p)
  BY BoundaryIn
<1>4. c \in Seq(Lines) /\ \A i \in b .. Len(p) : IsMessageOrSummary(p[i]) => p[i] \in Range(c)
  BY <1>1, <1>2, <1>3, ContextGives DEF GivenFrom
<1>5. ToldBefore(p, b)
  BY <1>1, <1>3 DEF Conversation
<1>6. Given = {x.id : x \in Range(c)}
  <2>1. DOMAIN IdSeq(c) = DOMAIN c /\ \A k \in DOMAIN c : IdSeq(c)[k] = c[k].id
    BY DEF IdSeq
  <2>2. Range(IdSeq(c)) = {c[k].id : k \in DOMAIN c}
    BY <2>1 DEF Range
  <2>3. Range(c) = {c[k] : k \in DOMAIN c}
    BY DEF Range
  <2> QED BY <1>1, <1>2, <2>2, <2>3 DEF Given
<1>7. ASSUME NEW m \in Range(p), IsMessageOrSummary(m)
      PROVE  m.id \in Given \/ \E e \in Compactions : m.id \in e.told
  <2>1. PICK i \in 1 .. Len(p) : p[i] = m
    BY RangeOf
  <2>2. CASE i \in b .. Len(p)
    BY <1>4, <1>6, <1>7, <2>1, <2>2
  <2>3. CASE i \notin b .. Len(p)
    <3>1. i \in 1 .. b - 1
      BY <2>3
    <3>2. TellsOf(p, m.id)
      BY <1>5, <1>7, <2>1, <3>1 DEF ToldBefore
    <3>3. PICK k \in 1 .. Len(p) : p[k].type = "compaction" /\ m.id \in p[k].told
      BY <3>2 DEF TellsOf
    <3>4. p[k] \in Range(p)
      BY RangeOf
    <3>5. p[k] \in Compactions
      BY <1>1, <3>3, <3>4 DEF Compactions
    <3> QED BY <3>3, <3>5
  <2> QED BY <2>2, <2>3
<1>8. \A id \in Spoken : id \in Given \/ \E e \in Compactions : id \in e.told
  BY <1>1, <1>7 DEF Spoken
<1> QED BY <1>8 DEF OnlySummarisedDropped

(* What is not given to the model was told to a summary of the branch, for *)
(* any tree, any sizes kept and any crashes (prepareCompaction,            *)
(* compaction.ts:612-687).                                                 *)
THEOREM OnlySummarisedDroppedHolds ==
    ASSUME OnlyCrashes, "forkLabelled" \notin Api, "forkOld" \notin Api
    PROVE  Spec => []OnlySummarisedDropped
<1>1. SessionInv => OnlySummarisedDropped
  BY SaidIsGivenOrTold, OldSessionConverses
<1> QED BY <1>1, SessionInvariant, PTL
---------------------------------------------------------------------------
(* What can be read of a file is not lost by a step.                       *)
Held(d, f) == Ids(Repaired(IF d[f] = Absent THEN <<>> ELSE d[f]))

NothingLost == \A f \in Files : Held(disk, f) \subseteq Held(disk', f)

LEMMA HeldNothing ==
    ASSUME NEW d, NEW f, d[f] = Absent \/ NoSession(d[f])
    PROVE  Held(d, f) = {}
<1>1. Loaded(IF d[f] = Absent THEN <<>> ELSE d[f]) = <<>>
  BY NothingLoaded DEF NoSession
<1>2. Held(d, f) = Ids(<<Header>>)
  BY <1>1, NoSessionRepaired DEF Held
<1>3. <<>> \in Seq(Nat)
  OBVIOUS
<1> QED BY <1>2, <1>3, HeaderSession

LEMMA HeldReadable ==
    ASSUME NEW d, NEW f, NEW o, Readable(d[f], o)
    PROVE  Held(d, f) = Ids(d[f])
<1>1. d[f] # Absent
  BY StartAssumption DEF Readable, Session
<1> QED BY <1>1, ReadableLoaded DEF Held

(* One file is written.                                                    *)
LEMMA WriteLosesNothing ==
    ASSUME NEW f \in Files, disk \in [Files -> Seq(Lines) \cup {Absent}], NEW c, disk' = [disk EXCEPT ![f] = c],
           Held(disk, f) \subseteq Held(disk', f)
    PROVE  NothingLost
<1>1. ASSUME NEW g \in Files, g # f PROVE disk'[g] = disk[g]
  BY <1>1
<1>2. ASSUME NEW g \in Files, g # f PROVE Held(disk, g) = Held(disk', g)
  BY <1>1, <1>2 DEF Held
<1> QED BY <1>2 DEF NothingLost

LEMMA SameLosesNothing ==
    ASSUME disk' = disk
    PROVE  NothingLost
BY DEF NothingLost, Held

(* Lines behind a session leave it readable.                               *)
LEMMA HeaderRead ==
    ASSUME NEW c \in Seq(Lines), c # <<>>, c[1] = Header
    PROVE  Loaded(c) # <<>> /\ c # OldFile
<1>1. PICK r \in Seq(Lines) : r = Only(c, EntryTypes \cup SessionTypes)
  BY OnlyTyped
<1>2. PICK at : PlacedBy(c, EntryTypes \cup SessionTypes, r, at)
  BY <1>1, OnlyPlaces
<1>3. 1 \in 1 .. Len(c) /\ c[1].type \in SessionTypes
  BY HeaderLine
<1>4. PICK k \in 1 .. Len(r) : at[k] = 1
  BY <1>2, <1>3 DEF PlacedBy
<1>5. k = 1
  <2>1. 1 \in 1 .. Len(r) /\ at[1] \in 1 .. Len(c)
    BY <1>2, <1>4 DEF PlacedBy
  <2>2. 1 < k => at[1] < at[k]
    BY <1>2, <2>1 DEF PlacedBy
  <2> QED BY <1>4, <2>1, <2>2
<1>6. r[1] = Header /\ r # <<>>
  BY <1>2, <1>4, <1>5 DEF PlacedBy
<1>7. Loaded(c) = r
  BY <1>1, <1>3, <1>6 DEF Loaded
<1>8. c # OldFile
  BY OldFileAssumption DEF Header, Mark, Line
<1> QED BY <1>6, <1>7, <1>8

(* What is appended takes nothing away.                                    *)
LEMMA GrowthLosesNothing ==
    ASSUME SessionInv, SessionInv', file # 0, OpenGrows
    PROVE  NothingLost
<1>1. CASE disk' = disk
  BY <1>1, SameLosesNothing
<1>2. CASE \E p \in Seq(Lines) : disk' = [disk EXCEPT ![file] = Content(file) \o p]
  <2>1. PICK p \in Seq(Lines) : disk' = [disk EXCEPT ![file] = Content(file) \o p]
    BY <1>2
  <2>2. PICK f \in Files : f = file
    BY DEF SessionInv, MemoryInv
  <2>3. PICK c : c = Content(f)
    OBVIOUS
  <2>4. OpenContent
    BY OpenHas
  <2>5. c = <<>> \/ Readable(c, origin)
    BY <2>2, <2>3, <2>4 DEF OpenContent
  <2>6. disk \in [Files -> Seq(Lines) \cup {Absent}] /\ disk'[f] = c \o p
    BY <2>1, <2>2, <2>3 DEF SessionInv, DiskInv
  <2>7. Held(disk, f) \subseteq Held(disk', f)
    <3>1. CASE c = <<>>
      <4>1. disk[f] = Absent
        BY <2>2, <2>3, <2>4, <3>1 DEF OpenContent
      <4> QED BY <4>1, HeldNothing
    <3>2. CASE c # <<>> /\ Readable(c, origin)
      <4>1. disk[f] = c
        BY <2>2, <2>3, <2>4, <3>2 DEF OpenContent
      <4>2. c \in Seq(Lines) /\ c[1] = Header
        BY <3>2 DEF Readable, Session
      <4>3. PICK q : q = c \o p
        OBVIOUS
      <4>4. Len(c) \in Nat /\ Len(p) \in Nat /\ Len(c) >= 1
        BY <3>2, <4>2
      <4>5. q \in Seq(Lines) /\ Len(q) = Len(c) + Len(p) /\ \A i \in 1 .. Len(c) : q[i] = c[i]
        BY <4>2, <4>3, ConcatIs
      <4>6. q # <<>> /\ q[1] = Header
        BY <4>2, <4>4, <4>5
      <4>7. Loaded(q) # <<>> /\ q # OldFile
        BY <4>5, <4>6, HeaderRead
      <4>8. PICK d : d = disk'
        OBVIOUS
      <4>9. PICK o : o = origin'
        OBVIOUS
      <4>10. DiskInv(d, o)
        <5>1. DiskInv(disk', origin')
          BY DEF SessionInv
        <5> QED BY <4>8, <4>9, <5>1
      <4>11. d[f] = q
        BY <2>6, <4>3, <4>8
      <4>12. Readable(q, o)
        <5>1. q # Absent
          BY <4>5, StartAssumption
        <5> QED BY <4>7, <4>10, <4>11, <5>1 DEF DiskInv, MayHold, NoSession
      <4>13. Held(d, f) = Ids(q) /\ Held(disk, f) = Ids(c)
        BY <3>2, <4>1, <4>11, <4>12, HeldReadable
      <4>14. Ids(c) \subseteq Ids(q)
        <5>1. Range(c) \subseteq Range(q)
          <6>1. \A i \in 1 .. Len(c) : i \in 1 .. Len(q)
            BY <4>4, <4>5
          <6> QED BY <4>2, <4>5, <6>1, RangeOf
        <5> QED BY <5>1 DEF Ids
      <4> QED BY <4>8, <4>13, <4>14
    <3> QED BY <2>5, <3>1, <3>2
  <2>8. disk' = [disk EXCEPT ![f] = Content(f) \o p]
    BY <2>1, <2>2
  <2> QED BY <2>6, <2>7, <2>8, WriteLosesNothing
<1> QED BY <1>1, <1>2 DEF OpenGrows

(* A file that was not there yet is written.                               *)
LEMMA FreshLosesNothing ==
    ASSUME SessionInv, NEW f \in Files, disk[f] = Absent, NEW c, disk' = [disk EXCEPT ![f] = c]
    PROVE  NothingLost
<1>1. Held(disk, f) = {}
  BY HeldNothing
<1>2. disk \in [Files -> Seq(Lines) \cup {Absent}]
  BY DEF SessionInv, DiskInv
<1> QED BY <1>1, <1>2, WriteLosesNothing

LEMMA AppendIsOneFile ==
    ASSUME NEW f, NEW ls, NEW w \in AppendLines(f, ls)
    PROVE  \E c : w.disk = [disk EXCEPT ![f] = c]
<1>1. PICK c, fate : w = Outcome(f, c, fate)
  BY DEF AppendLines, CutShort
<1>2. w.disk = [disk EXCEPT ![f] = c]
  BY <1>1 DEF Outcome
<1> QED BY <1>2

LEMMA RewriteWhole ==
    ASSUME Faults \subseteq {"crash"}, NEW f, NEW ls, NEW w \in Rewrite(f, ls)
    PROVE  w.disk = [disk EXCEPT ![f] = ls]
<1>1. w = Outcome(f, ls, "ok")
  BY DEF Rewrite
<1> QED BY <1>1 DEF Outcome

LEMMA OpenLosesNothing ==
    ASSUME Faults \subseteq {"crash"}, SessionInv, Open
    PROVE  NothingLost
<1>1. PICK f \in Files : disk[f] # Absent /\ SetSessionFile(f, disk[f])
  BY DEF Open
<1>2. PICK ls : ls = Repaired(disk[f])
  OBVIOUS
<1>3. Readable(ls, origin)
  BY <1>1, <1>2, RepairedReadable DEF SessionInv
<1>4. PICK w \in (IF ls = Loaded(disk[f]) THEN {NoWrite} ELSE Rewrite(f, ls)) : disk' = w.disk
  BY <1>1, <1>2 DEF SetSessionFile, Written
<1>5. CASE w = NoWrite
  <2>1. disk' = disk
    BY <1>4, <1>5 DEF NoWrite
  <2> QED BY <2>1, SameLosesNothing
<1>6. CASE w \in Rewrite(f, ls)
  <2>1. disk' = [disk EXCEPT ![f] = ls]
    BY <1>4, <1>6, RewriteWhole
  <2>2. disk \in [Files -> Seq(Lines) \cup {Absent}]
    BY DEF SessionInv, DiskInv
  <2>3. PICK d : d = disk'
    OBVIOUS
  <2>4. d[f] = ls
    BY <2>1, <2>2, <2>3
  <2>5. Held(d, f) = Ids(ls)
    BY <1>3, <2>4, HeldReadable
  <2>6. Held(disk, f) = Ids(ls)
    BY <1>1, <1>2 DEF Held
  <2> QED BY <2>1, <2>2, <2>3, <2>5, <2>6, WriteLosesNothing
<1> QED BY <1>4, <1>5, <1>6

LEMMA CreateBranchedSessionLosesNothing ==
    ASSUME Faults \subseteq {"crash"}, SessionInv, CreateBranchedSession
    PROVE  NothingLost
<1>1. PICK f \in Files : f = Min(FreshFiles) /\ disk[f] = Absent
  BY FreshFile DEF CreateBranchedSession
<1>2. PICK ls, w : w \in (IF HasAssistant(ls) THEN Rewrite(f, ls) ELSE {NoWrite}) /\ disk' = w.disk
  BY <1>1 DEF CreateBranchedSession, Written
<1>3. CASE w = NoWrite
  <2>1. disk' = disk
    BY <1>2, <1>3 DEF NoWrite
  <2> QED BY <2>1, SameLosesNothing
<1>4. CASE w \in Rewrite(f, ls)
  <2>1. disk' = [disk EXCEPT ![f] = ls]
    BY <1>2, <1>4, RewriteWhole
  <2> QED BY <1>1, <2>1, FreshLosesNothing
<1> QED BY <1>2, <1>3, <1>4

LEMMA ForkFromLosesNothing ==
    ASSUME SessionInv, ForkFrom
    PROVE  NothingLost
<1>1. PICK f \in Files : f = Min(FreshFiles) /\ disk[f] = Absent
  BY FreshFile DEF ForkFrom
<1>2. PICK ls, w : w \in AppendLines(f, ls) /\ disk' = w.disk
  BY <1>1 DEF ForkFrom, Written
<1>3. PICK c : w.disk = [disk EXCEPT ![f] = c]
  BY <1>2, AppendIsOneFile
<1> QED BY <1>1, <1>2, <1>3, FreshLosesNothing

LEMMA StepLosesNothing ==
    ASSUME Faults \subseteq {"crash"}, SessionInv, SessionInv', Next
    PROVE  NothingLost
<1>0. OnlyCrashes
  BY DEF OnlyCrashes
<1>1. CASE AppendMessage \/ AppendInfo \/ AppendLabelChange \/ BranchWithSummary \/ Compact
  <2>1. OpenGrows
    BY <1>0, <1>1, AppendMessageKeeps, AppendInfoKeeps, AppendLabelChangeKeeps, BranchWithSummaryKeeps, CompactKeeps
  <2>2. file # 0
    BY <1>1 DEF AppendMessage, AppendInfo, AppendLabelChange, BranchWithSummary, Compact, AppendEntry
  <2> QED BY <2>1, <2>2, GrowthLosesNothing
<1>2. CASE MoveLeaf \/ New \/ Exit
  <2>1. disk' = disk
    BY <1>2 DEF MoveLeaf, New, Exit
  <2> QED BY <2>1, SameLosesNothing
<1>3. CASE Open
  BY <1>3, OpenLosesNothing
<1>4. CASE CreateBranchedSession
  BY <1>4, CreateBranchedSessionLosesNothing
<1>5. CASE ForkFrom
  BY <1>5, ForkFromLosesNothing
<1> QED BY <1>1, <1>2, <1>3, <1>4, <1>5 DEF Next

(* What a file was ever read to hold, it holds after every later step: no  *)
(* append, fork, migration or crash while appending takes an entry away    *)
(* (_persist and setSessionFile, session-manager.ts:683-725, 791-818).     *)
THEOREM PersistedStaysHolds ==
    ASSUME Faults \subseteq {"crash"}, "forkLabelled" \notin Api, "forkOld" \notin Api
    PROVE  Spec => PersistedStays
<1>1. ASSUME SessionInv, SessionInv', [Next]_vars
      PROVE  [\A f \in Files : Ids(Repaired(Content(f))) \subseteq Ids(Repaired(Content(f)'))]_vars
  <2>1. CASE Next
    <3>1. NothingLost
      BY <1>1, <2>1, StepLosesNothing
    <3>2. ASSUME NEW f \in Files PROVE Ids(Repaired(Content(f))) = Held(disk, f) /\ Ids(Repaired(Content(f)')) = Held(disk', f)
      BY DEF Held, Content
    <3> QED BY <3>1, <3>2 DEF NothingLost
  <2>2. CASE UNCHANGED vars
    BY <2>2
  <2> QED BY <1>1, <2>1, <2>2
<1>2. OnlyCrashes
  BY DEF OnlyCrashes
<1>3. Spec => []SessionInv
  BY <1>2, SessionInvariant
<1> QED BY <1>1, <1>3, PTL DEF Spec, PersistedStays
=============================================================================
