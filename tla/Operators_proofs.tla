-------------------------- MODULE Operators_proofs --------------------------
(***************************************************************************)
(* Lemmas on the operators the modules share.                              *)
(*                                                                         *)
(* What a filtered list is (Selections).  The provers have no induction    *)
(* rule they can use, the library's taking the statement as a parameter;   *)
(* but that a set of natural numbers has a least element (WFMin, for the   *)
(* order of Nat) is first-order, and an induction is the remark that the   *)
(* set of the numbers a statement fails for has none.                      *)
(*                                                                         *)
(* What the operations of TaskLifecycle preserve, for every task, and with *)
(* them those of the KV store (KvOperations).                              *)
(***************************************************************************)
EXTENDS KvOperations, Selections, WellFoundedInduction, TLAPS

LessThan == {p \in Nat \X Nat : p[1] < p[2]}

(* The order of the natural numbers, as a set of pairs, is well-founded.   *)
LEMMA LessThanIsWellFounded == IsWellFoundedOn(LessThan, Nat)
<1>1. LessThan = OpToRel(<, Nat)
  BY Zenon DEF LessThan, OpToRel
<1>2. QED
  BY <1>1, NatLessThanWellFounded, Zenon

(* A set of natural numbers that is not empty has a least element.         *)
LEMMA LeastElement ==
  ASSUME NEW T \in SUBSET Nat, T # {}
  PROVE  \E x \in T : \A y \in T : x <= y
<1>1. \E x \in T : \A y \in T : <<y, x>> \notin LessThan
  BY LessThanIsWellFounded, WFMin, Zenon
<1>2. PICK x \in T : \A y \in T : <<y, x>> \notin LessThan
  BY <1>1
<1>3. ASSUME NEW y \in T
      PROVE  x <= y
  <2>1. <<y, x>> \notin LessThan
    BY <1>2
  <2>2. QED
    BY <2>1 DEF LessThan
<1>4. QED
  BY <1>3

(* A table of the selections from the beginnings of a sequence.            *)
SelectionTable(f, seq, positions, n) ==
    f = [i \in 0..n |->
           IF i = 0 THEN << >>
           ELSE IF i \in positions THEN Append(f[i - 1], seq[i])
           ELSE f[i - 1]]

(* The entries of such a table, and what makes one. *)
LEMMA TableEntries ==
  ASSUME NEW f, NEW seq, NEW positions, NEW n \in Nat
  PROVE  /\ SelectionTable(f, seq, positions, n) =>
              /\ f[0] = << >>
              /\ \A i \in 1..n :
                    f[i] = IF i \in positions THEN Append(f[i - 1], seq[i]) ELSE f[i - 1]
         /\ /\ f = [i \in 0..n |-> f[i]]
            /\ f[0] = << >>
            /\ \A i \in 1..n :
                  f[i] = IF i \in positions THEN Append(f[i - 1], seq[i]) ELSE f[i - 1]
            => SelectionTable(f, seq, positions, n)
<1>1. ASSUME SelectionTable(f, seq, positions, n)
      PROVE  /\ f[0] = << >>
             /\ \A i \in 1..n :
                   f[i] = IF i \in positions THEN Append(f[i - 1], seq[i]) ELSE f[i - 1]
  <2> DEFINE Entry(i) == IF i = 0 THEN << >>
                         ELSE IF i \in positions THEN Append(f[i - 1], seq[i])
                         ELSE f[i - 1]
  <2>1. f = [i \in 0..n |-> Entry(i)]
    BY <1>1 DEF SelectionTable
  <2> HIDE DEF Entry
  <2>2. \A i \in 0..n : f[i] = Entry(i)
    BY <2>1
  <2> USE DEF Entry
  <2>3. QED
    BY <2>2
<1>2. ASSUME f = [i \in 0..n |-> f[i]], f[0] = << >>,
             \A i \in 1..n :
                f[i] = IF i \in positions THEN Append(f[i - 1], seq[i]) ELSE f[i - 1]
      PROVE  SelectionTable(f, seq, positions, n)
  <2>1. ASSUME NEW i \in 0..n
        PROVE  f[i] = IF i = 0 THEN << >>
                      ELSE IF i \in positions THEN Append(f[i - 1], seq[i])
                      ELSE f[i - 1]
    <3>1. CASE i = 0
      BY <3>1, <1>2
    <3>2. CASE i # 0
      <4>1. i \in 1..n
        BY <3>2
      <4>2. f[i] = IF i \in positions THEN Append(f[i - 1], seq[i]) ELSE f[i - 1]
        BY <1>2, <4>1, Zenon
      <4>3. QED
        BY <3>2, <4>2
    <3>3. QED
      BY <3>1, <3>2
  <2>2. QED
    BY <1>2, <2>1 DEF SelectionTable
<1>3. QED
  BY <1>1, <1>2

(* The recursive function of SelectAt exists.                              *)
LEMMA TableExists ==
  ASSUME NEW S, NEW seq \in Seq(S), NEW positions
  PROVE  \E f : SelectionTable(f, seq, positions, Len(seq))
<1> DEFINE Bad == {n \in 0..Len(seq) :
                     ~ \E f : SelectionTable(f, seq, positions, n)}
<1>1. Bad = {}
  <2> SUFFICES ASSUME Bad # {}
               PROVE  FALSE
    OBVIOUS
  <2>1. PICK n \in Bad : \A m \in Bad : n <= m
    <3>1. Bad \in SUBSET Nat
      OBVIOUS
    <3> HIDE DEF Bad
    <3>2. QED
      BY <3>1, LeastElement
  <2>2. n # 0
    <3> DEFINE empty == [i \in 0..0 |-> << >>]
    <3>1. /\ 0 \in Nat /\ empty = [i \in 0..0 |-> empty[i]] /\ empty[0] = << >>
          /\ \A i \in 1..0 :
                empty[i] = IF i \in positions THEN Append(empty[i - 1], seq[i]) ELSE empty[i - 1]
      OBVIOUS
    <3> HIDE DEF empty
    <3>2. SelectionTable(empty, seq, positions, 0)
      BY <3>1, TableEntries
    <3>3. QED
      BY <3>2
  <2>3. PICK f : SelectionTable(f, seq, positions, n - 1)
    BY <2>1, <2>2
  <2> DEFINE g == [i \in 0..n |->
                     IF i = n THEN IF n \in positions THEN Append(f[n - 1], seq[n])
                                   ELSE f[n - 1]
                     ELSE f[i]]
  <2>4. /\ g[0] = << >>
        /\ \A i \in 1..n :
              g[i] = IF i \in positions THEN Append(g[i - 1], seq[i]) ELSE g[i - 1]
    <3>1. /\ f[0] = << >>
          /\ \A i \in 1..(n - 1) :
                f[i] = IF i \in positions THEN Append(f[i - 1], seq[i]) ELSE f[i - 1]
      BY <2>2, <2>3, TableEntries
    <3>2. g[0] = << >>
      BY <2>2, <3>1
    <3>3. ASSUME NEW i \in 1..n
          PROVE  g[i] = IF i \in positions THEN Append(g[i - 1], seq[i]) ELSE g[i - 1]
      <4>1. g[i - 1] = f[i - 1]
        BY <2>2
      <4>2. CASE i = n
        BY <4>1, <4>2
      <4>3. CASE i # n
        BY <4>1, <4>3, <3>1
      <4>4. QED
        BY <4>2, <4>3
    <3>4. QED
      BY <3>2, <3>3
  <2>5. g = [i \in 0..n |-> g[i]] /\ n \in Nat
    OBVIOUS
  <2> HIDE DEF g
  <2>6. SelectionTable(g, seq, positions, n)
    BY <2>4, <2>5, TableEntries
  <2>7. QED
    BY <2>6
<1>2. Len(seq) \in 0..Len(seq)
  OBVIOUS
<1>3. QED
  BY <1>1, <1>2

(* SelectAt is the last entry of such a table.                             *)
LEMMA SelectAtTable ==
  ASSUME NEW S, NEW seq \in Seq(S), NEW positions
  PROVE  \E f : /\ SelectionTable(f, seq, positions, Len(seq))
                /\ SelectAt(seq, positions) = f[Len(seq)]
<1> DEFINE F == CHOOSE f : SelectionTable(f, seq, positions, Len(seq))
<1>1. SelectionTable(F, seq, positions, Len(seq))
  BY TableExists
<1>2. SelectAt(seq, positions) = F[Len(seq)]
  BY DEF SelectAt, SelectionTable
<1> HIDE DEF F
<1>3. QED
  BY <1>1, <1>2

(* How a selection lies in the sequence it was made from: from[k] is the   *)
(* position its element k comes from.                                      *)
Embedding(from, selection, seq, positions, n) ==
    /\ from \in [1..Len(selection) -> positions \cap 1..n]
    /\ \A k \in 1..Len(selection) : selection[k] = seq[from[k]]
    /\ \A j, k \in 1..Len(selection) : j < k => from[j] < from[k]
    /\ \A i \in positions \cap 1..n : \E k \in 1..Len(selection) : from[k] = i

(* A selection holds the elements at the positions that were asked for,    *)
(* all of them, and in their order.                                        *)
THEOREM SelectAtEmbeds ==
  ASSUME NEW S, NEW seq \in Seq(S), NEW positions
  PROVE  /\ SelectAt(seq, positions) \in Seq(S)
         /\ \E from : Embedding(from, SelectAt(seq, positions), seq, positions, Len(seq))
<1>1. PICK f : /\ SelectionTable(f, seq, positions, Len(seq))
               /\ SelectAt(seq, positions) = f[Len(seq)]
  BY SelectAtTable
<1> DEFINE Good(n) == /\ f[n] \in Seq(S)
                      /\ \E from : Embedding(from, f[n], seq, positions, n)
           Bad == {n \in 0..Len(seq) : ~Good(n)}
<1>2. Bad = {}
  <2> SUFFICES ASSUME Bad # {}
               PROVE  FALSE
    OBVIOUS
  <2>1. PICK n \in Bad : \A m \in Bad : n <= m
    <3>1. Bad \in SUBSET Nat
      OBVIOUS
    <3> HIDE DEF Bad
    <3>2. QED
      BY <3>1, LeastElement
  <2>0. /\ Len(seq) \in Nat /\ n \in 0..Len(seq) /\ ~Good(n)
        /\ \A m \in 0..Len(seq) : m < n => Good(m)
    <3> HIDE DEF Good
    <3>1. QED
      BY <2>1
  <2>2. n # 0
    <3>1. f[0] = << >>
      BY <1>1, <2>0, TableEntries
    <3>2. Embedding([k \in 1..0 |-> 1], << >>, seq, positions, 0)
      BY DEF Embedding
    <3>3. Good(0)
      BY <3>1, <3>2
    <3>4. QED
      BY <2>0, <3>3
  <2>3. /\ n \in 1..Len(seq)
        /\ Good(n - 1)
    <3> HIDE DEF Good
    <3>1. QED
      BY <2>0, <2>2
  <2>4. PICK from : Embedding(from, f[n - 1], seq, positions, n - 1)
    BY <2>3
  <2>5. CASE n \in positions
    <3> DEFINE old == f[n - 1]
               new == Append(old, seq[n])
               there == [k \in 1..Len(new) |-> IF k = Len(new) THEN n ELSE from[k]]
    <3>1. f[n] = new
      BY <1>1, <2>0, <2>3, <2>5, TableEntries
    <3>2. old \in Seq(S) /\ seq[n] \in S
      BY <2>3
    <3>3. Embedding(from, old, seq, positions, n - 1)
      BY <2>4
    <3> HIDE DEF old
    <3>4. /\ new \in Seq(S)
          /\ Len(new) = Len(old) + 1 /\ Len(old) \in Nat
          /\ new[Len(new)] = seq[n]
          /\ \A k \in 1..Len(old) : new[k] = old[k]
      BY <3>2
    <3> HIDE DEF new
    <3>5. Embedding(there, new, seq, positions, n)
      <4>1. there \in [1..Len(new) -> positions \cap 1..n]
        BY <2>3, <2>5, <3>3, <3>4 DEF Embedding
      <4>2. \A k \in 1..Len(new) : new[k] = seq[there[k]]
        BY <3>3, <3>4 DEF Embedding
      <4>3. ASSUME NEW j \in 1..Len(new), NEW k \in 1..Len(new), j < k
            PROVE  there[j] < there[k]
        <5>0. j \in 1..Len(old) /\ j # Len(new)
          BY <4>3, <3>4
        <5>1. there[j] = from[j] /\ from[j] \in 1..(n - 1) /\ j \in 1..Len(old)
          <6>1. from[j] \in 1..(n - 1)
            BY <5>0, <3>3 DEF Embedding
          <6>2. QED
            BY <5>0, <6>1
        <5>2. CASE k = Len(new)
          BY <5>1, <5>2, <2>3
        <5>3. CASE k # Len(new)
          <6>1. k \in 1..Len(old) /\ there[k] = from[k]
            BY <5>3, <3>4
          <6>2. from[j] < from[k]
            BY <6>1, <5>0, <4>3, <3>3 DEF Embedding
          <6>3. QED
            BY <5>1, <6>1, <6>2
        <5>4. QED
          BY <5>2, <5>3
      <4>4. ASSUME NEW i \in positions \cap 1..n
            PROVE  \E k \in 1..Len(new) : there[k] = i
        <5>1. CASE i = n
          BY <5>1, <3>4
        <5>2. CASE i # n
          <6>1. PICK k \in 1..Len(old) : from[k] = i
            BY <5>2, <2>3, <3>3 DEF Embedding
          <6>2. there[k] = i /\ k \in 1..Len(new)
            BY <6>1, <3>4
          <6>3. QED
            BY <6>2
        <5>3. QED
          BY <5>1, <5>2
      <4>5. QED
        BY <4>1, <4>2, <4>3, <4>4 DEF Embedding
    <3>6. QED
      BY <3>1, <3>4, <3>5
  <2>6. CASE n \notin positions
    <3>1. f[n] = f[n - 1]
      BY <1>1, <2>0, <2>3, <2>6, TableEntries
    <3>2. positions \cap 1..n = positions \cap 1..(n - 1)
      BY <2>3, <2>6
    <3>3. Embedding(from, f[n], seq, positions, n)
      BY <2>4, <3>1, <3>2 DEF Embedding
    <3>4. QED
      BY <3>1, <3>3, <2>3
  <2>7. QED
    BY <2>0, <2>5, <2>6
<1>3. QED
  BY <1>1, <1>2

Begins(first, whole) ==
    Len(first) <= Len(whole) /\ \A k \in 1..Len(first) : whole[k] = first[k]

(* Entries of a table continue the ones before them.                       *)
LEMMA TableGrows ==
  ASSUME NEW S, NEW seq \in Seq(S), NEW positions, NEW f, NEW m \in 0..Len(seq),
         NEW last \in m..Len(seq), SelectionTable(f, seq, positions, Len(seq))
  PROVE  f[last] \in Seq(S) /\ Begins(f[m], f[last])
<1>0. Len(seq) \in Nat /\ m \in Nat /\ m <= Len(seq)
  OBVIOUS
<1> DEFINE len == Len(seq)
<1>1. /\ f[0] = << >>
      /\ \A i \in 1..len : f[i] = IF i \in positions THEN Append(f[i - 1], seq[i]) ELSE f[i - 1]
  BY <1>0, TableEntries
<1>2. \A i \in 1..len : seq[i] \in S
  OBVIOUS
<1>3. \A n \in 0..len : f[n] \in Seq(S)
  <2> DEFINE Bad == {n \in 0..len : f[n] \notin Seq(S)}
  <2> SUFFICES ASSUME Bad # {} PROVE FALSE
    OBVIOUS
  <2>1. PICK n \in Bad : \A k \in Bad : n <= k
    <3>1. Bad \in SUBSET Nat
      BY <1>0
    <3> HIDE DEF Bad
    <3>2. QED
      BY <3>1, LeastElement
  <2>2. n \in 0..len /\ f[n] \notin Seq(S) /\ \A k \in 0..len : k < n => f[k] \in Seq(S)
    <3>1. \A k \in 0..len : f[k] \notin Seq(S) => n <= k
      BY <2>1
    <3>2. QED
      BY <2>1, <3>1, <1>0
  <2>3. n # 0
    <3>1. f[0] \in Seq(S)
      BY <1>1
    <3>2. QED
      BY <2>2, <3>1
  <2>4. PICK k : k = n - 1
    OBVIOUS
  <2>5. n \in 1..len /\ k \in 0..len /\ k < n
    BY <2>2, <2>3, <2>4, <1>0
  <2>6. /\ f[k] \in Seq(S) /\ seq[n] \in S
        /\ f[n] = IF n \in positions THEN Append(f[k], seq[n]) ELSE f[k]
    BY <2>2, <2>4, <2>5, <1>1, <1>2
  <2>7. QED
    BY <2>2, <2>6
<1> DEFINE Good(n) == /\ Len(f[m]) <= Len(f[n])
                      /\ \A k \in 1..Len(f[m]) : f[n][k] = f[m][k]
           Worse == {n \in m..len : ~Good(n)}
<1>4. Worse = {}
  <2> SUFFICES ASSUME Worse # {} PROVE FALSE
    OBVIOUS
  <2>1. PICK n \in Worse : \A k \in Worse : n <= k
    <3>1. Worse \in SUBSET Nat
      BY <1>0
    <3> HIDE DEF Worse
    <3>2. QED
      BY <3>1, LeastElement
  <2>2. Good(m) /\ Len(f[m]) \in Nat
    BY <1>0, <1>3
  <2>3. n \in (m + 1)..len /\ Good(n - 1) /\ ~Good(n)
    <3> HIDE DEF Good
    <3>1. QED
      BY <2>1, <2>2, <1>0
  <2>4. /\ f[n] = IF n \in positions THEN Append(f[n - 1], seq[n]) ELSE f[n - 1]
        /\ f[n - 1] \in Seq(S) /\ seq[n] \in S
    BY <2>3, <1>0, <1>1, <1>2, <1>3
  <2>5. /\ Len(f[n - 1]) \in Nat /\ Len(f[n - 1]) <= Len(f[n])
        /\ \A k \in 1..Len(f[n - 1]) : f[n][k] = f[n - 1][k]
    BY <2>4
  <2>6. Good(n)
    <3>1. /\ Len(f[m]) \in Nat /\ Len(f[m]) <= Len(f[n - 1])
          /\ \A k \in 1..Len(f[m]) : f[n - 1][k] = f[m][k]
      BY <2>2, <2>3
    <3>2. ASSUME NEW k \in 1..Len(f[m]) PROVE f[n][k] = f[m][k]
      <4>1. k \in 1..Len(f[n - 1])
        BY <2>5, <3>1
      <4>2. QED
        BY <2>5, <3>1, <4>1
    <3>3. Len(f[n]) \in Nat
      BY <2>4
    <3>4. Len(f[m]) <= Len(f[n])
      BY <2>5, <3>1, <3>3
    <3>5. QED
      BY <3>2, <3>4
  <2>7. QED
    BY <2>3, <2>6
<1>5. f[last] \in Seq(S)
  BY <1>0, <1>3
<1>6. Good(last)
  <2> HIDE DEF Good
  <2>1. QED
    BY <1>4
<1>7. QED
  BY <1>5, <1>6 DEF Begins

(* What a beginning of a list selects, the list selects first.             *)
THEOREM SelectAtOfBeginning ==
  ASSUME NEW S, NEW seq \in Seq(S), NEW head \in Seq(S), NEW m \in 0..Len(seq),
         Len(head) = m, \A i \in 1..m : head[i] = seq[i],
         NEW positions, NEW others, others \cap 1..m = positions \cap 1..m
  PROVE  /\ SelectAt(head, others) \in Seq(S) /\ SelectAt(seq, positions) \in Seq(S)
         /\ Begins(SelectAt(head, others), SelectAt(seq, positions))
<1>1. PICK f : /\ SelectionTable(f, seq, positions, Len(seq))
               /\ SelectAt(seq, positions) = f[Len(seq)]
  BY SelectAtTable
<1> HIDE DEF SelectionTable
<1>2. SelectAt(head, others) = f[m]
  <2>1. Len(head) = m /\ m \in Nat /\ \A i \in 1..m : head[i] = seq[i]
    OBVIOUS
  <2>2. PICK g : SelectionTable(g, head, others, m) /\ SelectAt(head, others) = g[m]
    BY <2>1, SelectAtTable
  <2>3. /\ g[0] = << >>
        /\ \A i \in 1..m : g[i] = IF i \in others THEN Append(g[i - 1], head[i]) ELSE g[i - 1]
    BY <2>1, <2>2, TableEntries
  <2>4. /\ f[0] = << >>
        /\ \A i \in 1..m : f[i] = IF i \in positions THEN Append(f[i - 1], seq[i]) ELSE f[i - 1]
    <3>1. Len(seq) \in Nat /\ \A i \in 1..m : i \in 1..Len(seq)
      OBVIOUS
    <3>2. QED
      BY <1>1, <3>1, TableEntries
  <2> DEFINE Bad == {i \in 0..m : g[i] # f[i]}
  <2>5. Bad = {}
    <3> SUFFICES ASSUME Bad # {} PROVE FALSE
      OBVIOUS
    <3>1. PICK n \in Bad : \A k \in Bad : n <= k
      <4>1. Bad \in SUBSET Nat
        OBVIOUS
      <4> HIDE DEF Bad
      <4>2. QED
        BY <4>1, LeastElement
    <3>2. n \in 1..m /\ g[n - 1] = f[n - 1]
      BY <3>1, <2>1, <2>3, <2>4
    <3>3. n \in others <=> n \in positions
      BY <3>2
    <3>4. g[n] = f[n]
      BY <3>2, <3>3, <2>1, <2>3, <2>4
    <3>5. QED
      BY <3>1, <3>4
  <2>6. m \in 0..m
    BY <2>1
  <2>7. QED
    BY <2>2, <2>5, <2>6
<1>3. f[Len(seq)] \in Seq(S) /\ Begins(f[m], f[Len(seq)])
  <2>1. Len(seq) \in m..Len(seq)
    OBVIOUS
  <2>2. QED
    BY <1>1, <2>1, TableGrows
<1>4. f[m] \in Seq(S)
  <2>1. SelectAt(head, others) \in Seq(S)
    BY <1>2, SelectAtEmbeds
  <2>2. QED
    BY <1>2, <2>1
<1>5. QED
  BY <1>1, <1>2, <1>3, <1>4

(* A selection that leaves out one position, or none.                      *)
THEOREM SelectAtLeavesOne ==
  ASSUME NEW S, NEW seq \in Seq(S), NEW p, NEW positions,
         positions \cap 1..Len(seq) = (1..Len(seq)) \ {p}
  PROVE  Len(SelectAt(seq, positions)) = IF p \in 1..Len(seq) THEN Len(seq) - 1 ELSE Len(seq)
<1>1. PICK f : /\ SelectionTable(f, seq, positions, Len(seq))
               /\ SelectAt(seq, positions) = f[Len(seq)]
  BY SelectAtTable
<1> DEFINE len == Len(seq)
<1>2. len \in Nat /\ \A i \in 1..len : seq[i] \in S
  OBVIOUS
<1>3. /\ f[0] = << >>
      /\ \A i \in 1..len : f[i] = IF i \in positions THEN Append(f[i - 1], seq[i]) ELSE f[i - 1]
  BY <1>1, <1>2, TableEntries
<1>4. \A n \in 0..len : f[n] \in Seq(S)
  <2>1. ASSUME NEW n \in 0..len PROVE f[n] \in Seq(S)
    <3>1. 0 \in 0..Len(seq) /\ n \in 0..Len(seq)
      BY <1>2
    <3>2. QED
      BY <1>1, <3>1, TableGrows
  <2>2. QED
    BY <2>1
<1> DEFINE Good(n) == Len(f[n]) = IF p \in 1..n THEN n - 1 ELSE n
           Bad == {n \in 0..len : ~Good(n)}
<1>5. Bad = {}
  <2> SUFFICES ASSUME Bad # {} PROVE FALSE
    OBVIOUS
  <2>1. PICK n \in Bad : \A k \in Bad : n <= k
    <3>1. Bad \in SUBSET Nat
      BY <1>2
    <3> HIDE DEF Bad
    <3>2. QED
      BY <3>1, LeastElement
  <2>2. Good(0)
    BY <1>3
  <2>3. n \in 1..len /\ Good(n - 1) /\ ~Good(n)
    <3> HIDE DEF Good
    <3>1. QED
      BY <2>1, <2>2, <1>2
  <2>4. /\ f[n] = IF n \in positions THEN Append(f[n - 1], seq[n]) ELSE f[n - 1]
        /\ f[n - 1] \in Seq(S) /\ seq[n] \in S
    BY <2>3, <1>2, <1>3, <1>4
  <2>5. CASE n = p
    <3>1. n \notin positions
      BY <2>3, <2>5
    <3>2. Len(f[n]) = Len(f[n - 1]) /\ p \in 1..n /\ p \notin 1..(n - 1)
      BY <2>3, <2>4, <2>5, <3>1
    <3>3. QED
      BY <2>3, <3>2
  <2>6. CASE n # p
    <3>1. n \in positions
      BY <2>3, <2>6
    <3>2. Len(f[n]) = Len(f[n - 1]) + 1
      BY <2>4, <3>1
    <3>3. p \in 1..n <=> p \in 1..(n - 1)
      BY <2>3, <2>6, <1>2
    <3>4. QED
      BY <2>3, <3>2, <3>3, <1>2
  <2>7. QED
    BY <2>5, <2>6
<1>6. QED
  BY <1>1, <1>2, <1>5

(* The elements of a selection are those at the positions.                 *)
Selects(selection, seq, positions) ==
    /\ \A k \in 1..Len(selection) :
          \E i \in positions \cap 1..Len(seq) : selection[k] = seq[i]
    /\ \A i \in positions \cap 1..Len(seq) :
          \E k \in 1..Len(selection) : selection[k] = seq[i]
    /\ (\A i, j \in 1..Len(seq) : seq[i] = seq[j] => i = j) =>
          \A i, j \in 1..Len(selection) : selection[i] = selection[j] => i = j

THEOREM SelectAtElements ==
  ASSUME NEW S, NEW seq \in Seq(S), NEW positions
  PROVE  /\ SelectAt(seq, positions) \in Seq(S)
         /\ Selects(SelectAt(seq, positions), seq, positions)
<1> DEFINE selection == SelectAt(seq, positions)
<1>1. selection \in Seq(S)
  BY SelectAtEmbeds
<1>2. PICK from : Embedding(from, selection, seq, positions, Len(seq))
  BY SelectAtEmbeds
<1> HIDE DEF selection
<1>3. /\ \A k \in 1..Len(selection) : from[k] \in positions \cap 1..Len(seq)
      /\ \A k \in 1..Len(selection) : selection[k] = seq[from[k]]
      /\ \A j, k \in 1..Len(selection) : j < k => from[j] < from[k]
      /\ \A i \in positions \cap 1..Len(seq) : \E k \in 1..Len(selection) : from[k] = i
  BY <1>2 DEF Embedding
<1>4. ASSUME NEW i \in 1..Len(selection), NEW j \in 1..Len(selection),
             from[i] = from[j]
      PROVE  i = j
  <2>1. Len(selection) \in Nat
    BY <1>1
  <2>2. from[i] \in Int /\ from[j] \in Int
    BY <1>3
  <2>3. ~(i < j) /\ ~(j < i)
    BY <1>3, <1>4, <2>2
  <2>4. QED
    BY <2>1, <2>3
<1>5. \A k \in 1..Len(selection) :
         \E i \in positions \cap 1..Len(seq) : selection[k] = seq[i]
  BY <1>3
<1>6. \A i \in positions \cap 1..Len(seq) :
         \E k \in 1..Len(selection) : selection[k] = seq[i]
  BY <1>3
<1>7. ASSUME \A i, j \in 1..Len(seq) : seq[i] = seq[j] => i = j,
             NEW i \in 1..Len(selection), NEW j \in 1..Len(selection),
             selection[i] = selection[j]
      PROVE  i = j
  <2>1. from[i] \in 1..Len(seq) /\ from[j] \in 1..Len(seq) /\ seq[from[i]] = seq[from[j]]
    BY <1>3, <1>7
  <2>2. QED
    BY <1>4, <1>7, <2>1
<1>8. Selects(selection, seq, positions)
  BY <1>5, <1>6, <1>7 DEF Selects
<1>9. QED
  BY <1>1, <1>8 DEF selection

(* Sequences with the same elements are the same.                          *)
LEMMA SameSequence ==
  ASSUME NEW S, NEW s \in Seq(S), NEW t \in Seq(S), Len(s) = Len(t),
         \A k \in 1..Len(s) : s[k] = t[k]
  PROVE  s = t
OBVIOUS

----------------------------------------------------------------------------
(* The operations on a task. *)

(* A created task is a well-formed task at version 1 that has left no      *)
(* trace yet (createPortableTask).                                         *)
LEMMA CreatePortableTaskType ==
    ASSUME NEW route \in Routes, NEW action \in NextActions, NEW total \in Nat
    PROVE  CreatePortableTask(route, action, total) \in Tasks
BY DEF CreatePortableTask, Tasks, TaskStates, Progress, FindingEntries, Clocks

(* An update with EXCEPT keeps the fields of the record; it is a task when *)
(* every field has its type.                                               *)
LEMMA TaskFields ==
    ASSUME NEW task \in Tasks, NEW next,
           DOMAIN next = DOMAIN task, next = [f \in DOMAIN next |-> next[f]],
           next.version \in Nat \cup {NoVersion}, next.state \in TaskStates,
           next.action \in NextActions, next.progress \in Progress,
           next.route \in Routes, next.routes \in Seq(Routes),
           next.findings \in Seq(FindingEntries), next.updated_at \in Clocks
    PROVE  next \in Tasks
BY DEF Tasks

(* The stores' operations keep the record well formed and raise its        *)
(* version by one (appendRouteSelection, transitionPortableTaskState,      *)
(* appendFindingToTask).                                                   *)
LEMMA AppendRouteSelectionType ==
    ASSUME NEW task \in Tasks, task.version \in Nat, NEW route \in Routes
    PROVE  /\ AppendRouteSelection(task, route) \in Tasks
           /\ AppendRouteSelection(task, route).version = task.version + 1
<1>. DEFINE next == AppendRouteSelection(task, route)
<1>1. DOMAIN next = DOMAIN task /\ next = [f \in DOMAIN next |-> next[f]]
    BY DEF AppendRouteSelection
<1>2. /\ next.version = task.version + 1 /\ next.state = task.state
      /\ next.action = task.action /\ next.progress = task.progress
      /\ next.route = route
      /\ next.findings = task.findings
      /\ next.updated_at = "request"
    BY DEF AppendRouteSelection, Tasks
<1>. HIDE DEF next
<1>3. /\ task.version \in Nat \cup {NoVersion} /\ task.state \in TaskStates
      /\ task.action \in NextActions /\ task.progress \in Progress
      /\ task.route \in Routes /\ task.routes \in Seq(Routes)
      /\ task.findings \in Seq(FindingEntries)
    BY DEF Tasks
<1>4. next.routes = Append(task.routes, route)
    BY DEF next, AppendRouteSelection, Tasks
<1>5. next.routes \in Seq(Routes)
    BY <1>3, <1>4
<1>6. next \in Tasks
    BY <1>1, <1>2, <1>3, <1>5, TaskFields DEF Clocks
<1>. QED
    BY <1>2, <1>6 DEF next

LEMMA TransitionPortableTaskStateType ==
    ASSUME NEW task \in Tasks, task.version \in Nat,
           NEW state \in TaskStates, NEW action \in NextActions,
           NEW progress \in Progress
    PROVE  /\ TransitionPortableTaskState(task, state, action, progress) \in Tasks
           /\ TransitionPortableTaskState(task, state, action, progress).version
                = task.version + 1
<1>. DEFINE next == TransitionPortableTaskState(task, state, action, progress)
<1>1. DOMAIN next = DOMAIN task /\ next = [f \in DOMAIN next |-> next[f]]
    BY DEF TransitionPortableTaskState
<1>2. /\ next.version = task.version + 1 /\ next.state = state
      /\ next.action = action /\ next.progress = progress
      /\ next.route = task.route /\ next.routes = task.routes
      /\ next.findings = task.findings
      /\ next.updated_at = "request"
    BY DEF TransitionPortableTaskState, Tasks
<1>. HIDE DEF next
<1>3. next \in Tasks
    BY <1>1, <1>2, TaskFields DEF Tasks, Clocks
<1>. QED
    BY <1>2, <1>3 DEF next

LEMMA LedgerEntryType ==
    ASSUME NEW finding \in Findings
    PROVE  /\ LedgerEntry(finding) \in FindingEntries
           /\ RawEntry(finding) \in FindingEntries
BY DEF LedgerEntry, RawEntry, Findings, FindingEntries

LEMMA AppendFindingToTaskType ==
    ASSUME NEW task \in Tasks, task.version \in Nat, NEW finding \in Findings
    PROVE  /\ AppendFindingToTask(task, finding) \in Tasks
           /\ AppendFindingToTask(task, finding).version = task.version + 1
<1>. DEFINE next == AppendFindingToTask(task, finding)
<1>1. DOMAIN next = DOMAIN task /\ next = [f \in DOMAIN next |-> next[f]]
    BY DEF AppendFindingToTask
<1>2. /\ next.version = task.version + 1 /\ next.state = task.state
      /\ next.action = task.action /\ next.progress = task.progress
      /\ next.route = task.route /\ next.routes = task.routes
      /\ next.updated_at = "request"
    BY DEF AppendFindingToTask, Tasks
<1>. HIDE DEF next
<1>3. /\ task.version \in Nat \cup {NoVersion} /\ task.state \in TaskStates
      /\ task.action \in NextActions /\ task.progress \in Progress
      /\ task.route \in Routes /\ task.routes \in Seq(Routes)
      /\ task.findings \in Seq(FindingEntries)
    BY DEF Tasks
<1>4. next.findings = Append(task.findings, LedgerEntry(finding))
    BY DEF next, AppendFindingToTask, Tasks
<1>5. next.findings \in Seq(FindingEntries)
    BY <1>3, <1>4, LedgerEntryType
<1>6. next \in Tasks
    BY <1>1, <1>2, <1>3, <1>5, TaskFields DEF Clocks
<1>. QED
    BY <1>2, <1>6 DEF next

(* A route upgrade keeps the number, the order and the shape of the        *)
(* findings, and it never makes a finding verified that was not            *)
(* (transitionFindingsForRouteUpgrade).                                    *)
LEMMA TransitionFindingsType ==
    ASSUME NEW findings \in Seq(FindingEntries), NEW route \in Routes,
           NEW level
    PROVE  LET after == TransitionFindings(findings, route, level) IN
           /\ after \in Seq(FindingEntries)
           /\ Len(after) = Len(findings)
           /\ \A i \in 1..Len(findings) :
                 /\ after[i].id = findings[i].id
                 /\ after[i].shape = findings[i].shape
                 /\ after[i].status = "verified" => after[i] = findings[i]
<1>. DEFINE after == TransitionFindings(findings, route, level)
<1>1. ASSUME NEW i \in 1..Len(findings)
      PROVE  LET e == TransitionEntry(findings[i], route) IN
             /\ e \in FindingEntries
             /\ e.id = findings[i].id
             /\ e.shape = findings[i].shape
             /\ e.status = "verified" => e = findings[i]
    <2>1. findings[i] \in FindingEntries
        OBVIOUS
    <2>. QED
        BY <2>1 DEF TransitionEntry, FindingEntries, ProvenanceStatuses
<1>2. CASE level = "equal"
    <2>1. after = [i \in 1..Len(findings) |-> TransitionEntry(findings[i], route)]
        BY <1>2 DEF TransitionFindings
    <2>2. \A i \in 1..Len(findings) : after[i] = TransitionEntry(findings[i], route)
        BY <2>1
    <2>3. after \in Seq(FindingEntries) /\ Len(after) = Len(findings)
        BY <1>1, <2>1
    <2>. QED
        BY <1>1, <2>2, <2>3
<1>3. CASE level # "equal"
    BY <1>3 DEF TransitionFindings
<1>. QED
    BY <1>2, <1>3

(* The Durable Object's own operations keep the record well formed and     *)
(* leave it at the version after the expected one.                         *)
LEMMA AppendRouteSelectionLocalType ==
    ASSUME NEW task \in Tasks, NEW expected \in Nat,
           NEW route \in Routes
    PROVE  /\ AppendRouteSelectionLocal(task, route, expected) \in Tasks
           /\ AppendRouteSelectionLocal(task, route, expected).version = expected + 1
<1>. DEFINE next == AppendRouteSelectionLocal(task, route, expected)
<1>1. DOMAIN next = DOMAIN task /\ next = [f \in DOMAIN next |-> next[f]]
    BY DEF AppendRouteSelectionLocal
<1>2. /\ next.version = expected + 1 /\ next.state = task.state
      /\ next.action = task.action /\ next.progress = task.progress
      /\ next.route = route
      /\ next.findings = task.findings
      /\ next.updated_at = "request"
    BY DEF AppendRouteSelectionLocal, Tasks
<1>. HIDE DEF next
<1>3. /\ task.version \in Nat \cup {NoVersion} /\ task.state \in TaskStates
      /\ task.action \in NextActions /\ task.progress \in Progress
      /\ task.route \in Routes /\ task.routes \in Seq(Routes)
      /\ task.findings \in Seq(FindingEntries)
    BY DEF Tasks
<1>4. next.routes = Append(task.routes, route)
    BY DEF next, AppendRouteSelectionLocal, Tasks
<1>5. next.routes \in Seq(Routes)
    BY <1>3, <1>4
<1>6. next \in Tasks
    BY <1>1, <1>2, <1>3, <1>5, TaskFields DEF Clocks
<1>. QED
    BY <1>2, <1>6 DEF next

LEMMA TransitionStateLocalType ==
    ASSUME NEW task \in Tasks, NEW expected \in Nat,
           NEW state \in TaskStates, NEW action \in NextActions
    PROVE  /\ TransitionStateLocal(task, state, action, expected) \in Tasks
           /\ TransitionStateLocal(task, state, action, expected).version = expected + 1
<1>. DEFINE next == TransitionStateLocal(task, state, action, expected)
<1>1. DOMAIN next = DOMAIN task /\ next = [f \in DOMAIN next |-> next[f]]
    BY DEF TransitionStateLocal
<1>2. /\ next.version = expected + 1 /\ next.state = state
      /\ next.action = action /\ next.progress = task.progress
      /\ next.route = task.route /\ next.routes = task.routes
      /\ next.findings = task.findings
      /\ next.updated_at = "object"
    BY DEF TransitionStateLocal, Tasks
<1>. HIDE DEF next
<1>3. next \in Tasks
    BY <1>1, <1>2, TaskFields DEF Tasks, Clocks
<1>. QED
    BY <1>2, <1>3 DEF next

LEMMA AppendFindingLocalType ==
    ASSUME NEW task \in Tasks, NEW expected \in Nat,
           NEW finding \in Findings
    PROVE  /\ AppendFindingLocal(task, finding, expected) \in Tasks
           /\ AppendFindingLocal(task, finding, expected).version = expected + 1
<1>. DEFINE next == AppendFindingLocal(task, finding, expected)
<1>1. DOMAIN next = DOMAIN task /\ next = [f \in DOMAIN next |-> next[f]]
    BY DEF AppendFindingLocal
<1>2. /\ next.version = expected + 1 /\ next.state = task.state
      /\ next.action = task.action /\ next.progress = task.progress
      /\ next.route = task.route /\ next.routes = task.routes
      /\ next.updated_at = "object"
    BY DEF AppendFindingLocal, Tasks
<1>. HIDE DEF next
<1>3. /\ task.version \in Nat \cup {NoVersion} /\ task.state \in TaskStates
      /\ task.action \in NextActions /\ task.progress \in Progress
      /\ task.route \in Routes /\ task.routes \in Seq(Routes)
      /\ task.findings \in Seq(FindingEntries)
    BY DEF Tasks
<1>4. next.findings = Append(task.findings, RawEntry(finding))
    BY DEF next, AppendFindingLocal, Tasks
<1>5. next.findings \in Seq(FindingEntries)
    BY <1>3, <1>4, LedgerEntryType
<1>6. next \in Tasks
    BY <1>1, <1>2, <1>3, <1>5, TaskFields DEF Clocks
<1>. QED
    BY <1>2, <1>6 DEF next
----------------------------------------------------------------------------
(* The KV store. *)

(* The repair of a projection copies fields of a commit (kvStore.update).  *)
LEMMA KvUpdateType ==
    ASSUME NEW task \in Tasks, task.version \in Nat,
           NEW state \in TaskStates, NEW route \in Routes
    PROVE  LET next == [task EXCEPT !.state = state, !.route = route,
                                    !.version = @ + 1,
                                    !.updated_at = "object"]
           IN  next \in Tasks /\ next.version = task.version + 1
<1>. DEFINE next == [task EXCEPT !.state = state, !.route = route,
                                 !.version = @ + 1, !.updated_at = "object"]
<1>1. DOMAIN next = DOMAIN task /\ next = [f \in DOMAIN next |-> next[f]]
    OBVIOUS
<1>2. /\ next.version = task.version + 1 /\ next.state = state
      /\ next.action = task.action /\ next.progress = task.progress
      /\ next.route = route /\ next.routes = task.routes
      /\ next.findings = task.findings
      /\ next.updated_at = "object"
    BY DEF Tasks
<1>. HIDE DEF next
<1>3. next \in Tasks
    BY <1>1, <1>2, TaskFields DEF Tasks, Clocks
<1>. QED
    BY <1>2, <1>3 DEF next

LEMMA KvUpgradeType ==
    ASSUME NEW task \in Tasks, task.version \in Nat, NEW route \in Routes
    PROVE  LET next == [task EXCEPT
                           !.findings = TransitionFindings(@, route, "equal"),
                           !.version = @ + 1, !.updated_at = "request"]
           IN  next \in Tasks /\ next.version = task.version + 1
<1>. DEFINE next == [task EXCEPT !.findings = TransitionFindings(@, route, "equal"),
                                 !.version = @ + 1, !.updated_at = "request"]
<1>1. DOMAIN next = DOMAIN task /\ next = [f \in DOMAIN next |-> next[f]]
    OBVIOUS
<1>2. /\ next.version = task.version + 1 /\ next.state = task.state
      /\ next.action = task.action /\ next.progress = task.progress
      /\ next.route = task.route /\ next.routes = task.routes
      /\ next.findings = TransitionFindings(task.findings, route, "equal")
      /\ next.updated_at = "request"
    BY DEF Tasks
<1>. HIDE DEF next
<1>3. task.findings \in Seq(FindingEntries)
    BY DEF Tasks
<1>4. next.findings \in Seq(FindingEntries)
    BY <1>2, <1>3, TransitionFindingsType
<1>5. next \in Tasks
    BY <1>1, <1>2, <1>4, TaskFields DEF Tasks, Clocks
<1>. QED
    BY <1>2, <1>5 DEF next

(* A record the store holds: a task that was put has a version of its own. *)
StoredTasks == {t \in Tasks : t.version \in Nat \ {0}}

(* An accepted operation yields a well-formed record: the first version of *)
(* a new one, the same one, or the next version.                           *)
LEMMA KvResultType ==
    ASSUME NEW request, request.op \in Operations, request.payload \in Payloads,
           request.progress \in Progress,
           NEW record \in StoredTasks \cup {NoTask}, KvAccepts(request, record)
    PROVE  /\ KvResult(request, record) \in StoredTasks
           /\ request.op = "create" =>
                 record = NoTask /\ KvResult(request, record).version = 1
           /\ request.op # "create" => record # NoTask /\ record \in StoredTasks
           /\ request.op = "continue" => KvResult(request, record) = record
           /\ request.op \notin {"create", "continue"} =>
                 KvResult(request, record).version = record.version + 1
<1>. DEFINE next == KvResult(request, record)
<1>1. /\ request.payload.route \in Routes /\ request.payload.state \in TaskStates
      /\ request.payload.action \in NextActions
      /\ request.payload.finding \in Findings
    BY DEF Payloads
<1>2. /\ request.op = "create" => record = NoTask
      /\ request.op # "create" => record # NoTask /\ record \in StoredTasks
    BY DEF KvAccepts, Operations
<1>3. CASE request.op = "create"
    <2>1. request.progress.total \in Nat
        BY DEF Progress
    <2>2. next = CreatePortableTask(request.payload.route, request.payload.action,
                                    request.progress.total)
        BY <1>3 DEF KvResult
    <2>3. next.version = 1
        BY <2>2 DEF CreatePortableTask
    <2>4. next \in Tasks
        BY <1>1, <2>1, <2>2, CreatePortableTaskType
    <2>. QED
        BY <1>2, <1>3, <2>3, <2>4 DEF StoredTasks
<1>4. CASE request.op = "continue"
    BY <1>2, <1>4 DEF KvResult
<1>5. CASE request.op \notin {"create", "continue"}
    <2>1. record \in Tasks /\ record.version \in Nat
        BY <1>2, <1>5 DEF StoredTasks
    <2>. SUFFICES next \in Tasks /\ next.version = record.version + 1
        BY <1>2, <1>5, <2>1 DEF StoredTasks
    <2>2. CASE request.op = "update"
        BY <1>1, <2>1, <2>2, KvUpdateType DEF KvResult
    <2>3. CASE request.op = "task.select_route"
        BY <1>1, <2>1, <2>3, AppendRouteSelectionType DEF KvResult
    <2>4. CASE request.op = "task.transition_state"
        BY <1>1, <2>1, <2>4, TransitionPortableTaskStateType DEF KvResult
    <2>5. CASE request.op = "upgrade"
        BY <1>1, <2>1, <2>5, KvUpgradeType DEF KvResult
    <2>6. CASE request.op \in {"task.append_finding", "answer"}
        BY <1>1, <2>1, <2>6, AppendFindingToTaskType DEF KvResult
    <2>. QED
        BY <1>5, <2>2, <2>3, <2>4, <2>5, <2>6 DEF Operations
<1>. QED
    BY <1>3, <1>4, <1>5
=============================================================================
