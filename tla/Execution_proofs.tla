-------------------------- MODULE Execution_proofs --------------------------
(***************************************************************************)
(* Theorems about ExecutionSelection and ExecutionPolicy.                  *)
(*                                                                         *)
(* The record of selections: RecordInv says that the snapshot of a version *)
(* lists the selections recorded for the versions up to it and no other.   *)
(*                                                                         *)
(* The selection: SelectionInv says that what is answered was resolved     *)
(* from what was asked, so the rest is about the operators: the models     *)
(* evaluated represent the admissible ones (each of which has one among    *)
(* them that costs no more), the pairs are all pairs of a route and a      *)
(* model, the selected one is the cheapest, and the fallbacks follow it in *)
(* order.  Their loops are recursive functions, of which LoopHasATable     *)
(* says, for every length, that they take the steps they are defined by.   *)
(*                                                                         *)
(* The policy: PolicyInv says that the latest plan is one of the policy    *)
(* that was resolved, that the pack was built for it, that the meter read  *)
(* that pack, and that what a retry carries over tightens that plan.  The  *)
(* rest is about the operators: layers merge to a layer and a route only   *)
(* narrows it, a percentage of a limit is no larger, and a compaction      *)
(* drops things until the pack fits or is bare, when two cuts make it fit. *)
(***************************************************************************)
EXTENDS ExecutionPolicy, ExecutionSelection, Operators_proofs, FiniteSetTheorems

(***************************************************************************)
(* Lists.                                                                  *)
(***************************************************************************)

IsASequence(seq) == seq \in Seq({seq[i] : i \in 1 .. Len(seq)})

LEMMA SequencesAreSequences ==
  ASSUME NEW S, NEW seq \in Seq(S)
  PROVE  IsASequence(seq)
<1>1. Len(seq) \in Nat /\ seq = [i \in 1 .. Len(seq) |-> seq[i]]
  OBVIOUS
<1>2. QED
  BY <1>1 DEF IsASequence

(* What is appended comes last and disturbs nothing.                       *)
LEMMA AppendToAny ==
  ASSUME NEW seq, IsASequence(seq), NEW e
  PROVE  /\ IsASequence(Append(seq, e))
         /\ Len(seq) \in Nat /\ Len(Append(seq, e)) = Len(seq) + 1
         /\ \A i \in 1 .. Len(seq) : Append(seq, e)[i] = seq[i]
         /\ Append(seq, e)[Len(seq) + 1] = e
<1>1. PICK S : seq \in Seq(S)
  BY DEF IsASequence
<1>2. seq \in Seq(S \cup {e}) /\ e \in S \cup {e}
  BY <1>1
<1>3. Append(seq, e) \in Seq(S \cup {e})
  BY <1>2
<1>4. IsASequence(Append(seq, e))
  BY <1>3, SequencesAreSequences
<1>5. QED
  BY <1>2, <1>4

NoneTwice(seq) == \A i, j \in 1 .. Len(seq) : seq[i] = seq[j] => i = j

Filtered(chosen, seq, positions) ==
  /\ Len(chosen) \in Nat
  /\ \A l \in 1 .. Len(chosen) : \E k \in positions : chosen[l] = seq[k]
  /\ \A k \in positions : \E l \in 1 .. Len(chosen) : chosen[l] = seq[k]
  /\ NoneTwice(seq) => NoneTwice(chosen)

(* A filter returns the elements it lets pass, no more and none twice that *)
(* was there once.                                                         *)
LEMMA FilterKeeps ==
  ASSUME NEW S, NEW seq \in Seq(S), NEW positions \in SUBSET (1 .. Len(seq))
  PROVE  /\ SelectAt(seq, positions) \in Seq(S)
         /\ Filtered(SelectAt(seq, positions), seq, positions)
<1> DEFINE chosen == SelectAt(seq, positions)
<1>1. chosen \in Seq(S)
  BY SelectAtEmbeds, Zenon
<1>2. PICK from : Embedding(from, chosen, seq, positions, Len(seq))
  BY SelectAtEmbeds, Zenon
<1> HIDE DEF chosen
<1>3. Len(chosen) \in Nat
  BY <1>1
<1>4. /\ \A l \in 1 .. Len(chosen) : from[l] \in positions /\ chosen[l] = seq[from[l]]
      /\ \A l, m \in 1 .. Len(chosen) : l < m => from[l] < from[m]
      /\ \A k \in positions : \E l \in 1 .. Len(chosen) : from[l] = k
  BY <1>2, <1>3 DEF Embedding
<1>5. ASSUME NoneTwice(seq), NEW l \in 1 .. Len(chosen), NEW m \in 1 .. Len(chosen),
             chosen[l] = chosen[m]
      PROVE  l = m
  <2>1. /\ from[l] \in positions /\ chosen[l] = seq[from[l]]
        /\ from[m] \in positions /\ chosen[m] = seq[from[m]]
    BY <1>4, Zenon
  <2>2. from[l] \in 1 .. Len(seq) /\ from[m] \in 1 .. Len(seq)
    BY <2>1
  <2>3. from[l] = from[m]
    BY <1>5, <2>1, <2>2, Zenon DEF NoneTwice
  <2>4. from[l] \in Int
    BY <2>2
  <2>5. ~(l < m) /\ ~(m < l)
    BY <1>4, <2>3, <2>4
  <2>6. QED
    BY <2>5, <1>3
<1>6. \A l \in 1 .. Len(chosen) : \E k \in positions : chosen[l] = seq[k]
  BY <1>4, Zenon
<1>7. \A k \in positions : \E l \in 1 .. Len(chosen) : chosen[l] = seq[k]
  BY <1>4, Zenon
<1>8. NoneTwice(seq) => NoneTwice(chosen)
  BY <1>5 DEF NoneTwice
<1>9. QED
  BY <1>1, <1>3, <1>6, <1>7, <1>8 DEF chosen, Filtered

(* A filter that lets the first n elements pass returns those n.           *)
LEMMA SelectAtBeginning ==
  ASSUME NEW S, NEW seq \in Seq(S), NEW positions, NEW n \in 0 .. Len(seq),
         positions \cap 1 .. Len(seq) = 1 .. n
  PROVE  LET chosen == SelectAt(seq, positions) IN
         IF n = 0 THEN chosen = <<>>
         ELSE chosen # <<>> /\ chosen[Len(chosen)] = seq[n]
<1> DEFINE chosen == SelectAt(seq, positions)
<1>1. chosen \in Seq(S)
  BY SelectAtEmbeds, Zenon
<1>2. PICK from : Embedding(from, chosen, seq, positions, Len(seq))
  BY SelectAtEmbeds, Zenon
<1> HIDE DEF chosen
<1>3. /\ Len(chosen) \in Nat /\ n \in Nat
      /\ from \in [1 .. Len(chosen) -> 1 .. n]
      /\ \A k \in 1 .. Len(chosen) : chosen[k] = seq[from[k]]
      /\ \A j, k \in 1 .. Len(chosen) : j < k => from[j] < from[k]
      /\ \A i \in 1 .. n : \E k \in 1 .. Len(chosen) : from[k] = i
  <2>1. Len(chosen) \in Nat /\ n \in Nat
    BY <1>1
  <2>2. positions \cap 1 .. Len(seq) = 1 .. n
    OBVIOUS
  <2>3. QED
    BY <1>2, <2>1, <2>2 DEF Embedding
<1>4. CASE n = 0
  <2>1. Len(chosen) = 0
    BY <1>3, <1>4
  <2>2. QED
    BY <2>1, <1>1, <1>4 DEF chosen
<1>5. CASE n # 0
  <2>1. PICK k \in 1 .. Len(chosen) : from[k] = n
    BY <1>3, <1>5
  <2>2. k = Len(chosen)
    <3>1. Len(chosen) \in 1 .. Len(chosen) /\ from[Len(chosen)] \in 1 .. n
      BY <1>3
    <3>2. k < Len(chosen) => from[k] < from[Len(chosen)]
      BY <1>3, <3>1
    <3>3. QED
      BY <2>1, <3>1, <3>2, <1>3
  <2>3. chosen[Len(chosen)] = seq[n] /\ chosen # <<>>
    BY <2>1, <2>2, <1>1, <1>3
  <2>4. QED
    BY <2>3, <1>5 DEF chosen
<1>6. QED
  BY <1>4, <1>5

(***************************************************************************)
(* The record.                                                             *)
(***************************************************************************)

(* Every event is of a version the task has reached, and its selection is  *)
(* the entry made with it.                                                 *)
EventsOK ==
  /\ taskVersion \in Nat \ {0}
  /\ IsASequence(recorded) /\ IsASequence(entries)
  /\ Len(entries) = Len(recorded)
  /\ \A i \in 1 .. Len(recorded) :
       /\ recorded[i].version \in 1 .. taskVersion
       /\ recorded[i].selection # Unresolved
       /\ entries[i] = CanonicalIdentityProjection(recorded[i].selection)

(* The snapshot of a version lists the selections of the versions up to it. *)
ListedOK ==
  /\ listed \in Seq(Nat)
  /\ Len(listed) = taskVersion
  /\ \A v \in 1 .. taskVersion :
       /\ listed[v] \in 0 .. Len(recorded)
       /\ \A i \in 1 .. Len(recorded) : recorded[i].version <= v <=> i <= listed[v]

RecordInv == EventsOK /\ ListedOK

LEMMA RecordInvInitially ==
  SelectionInit => RecordInv
<1> SUFFICES ASSUME SelectionInit PROVE RecordInv
  OBVIOUS
<1>1. /\ taskVersion = 1 /\ entries = <<>> /\ recorded = <<>> /\ listed = <<0>>
      /\ <<>> \in Seq({}) /\ <<0>> \in Seq(Nat)
  BY DEF SelectionInit
<1>2. IsASequence(<<>>)
  BY SequencesAreSequences, <1>1, Zenon
<1>3. QED
  BY <1>1, <1>2 DEF RecordInv, EventsOK, ListedOK

(* An integration adds the event and the entry of a version yet to come.   *)
LEMMA IntegrationKeepsTheEvents ==
  ASSUME EventsOK, NEW later \in Nat, later > taskVersion, taskVersion' = later,
         IntegratedAt(later, resolution), resolution # Unresolved
  PROVE  /\ EventsOK'
         /\ Len(recorded) \in Nat /\ Len(recorded') = Len(recorded) + 1
         /\ \A i \in 1 .. Len(recorded) : recorded'[i] = recorded[i]
         /\ recorded'[Len(recorded) + 1].version = later
<1> DEFINE event == [version |-> later, selection |-> resolution]
           entry == CanonicalIdentityProjection(resolution)
<1>1. recorded' = Append(recorded, event) /\ entries' = Append(entries, entry)
  BY DEF IntegratedAt
<1>2. event.version = later /\ event.selection = resolution
  OBVIOUS
<1> HIDE DEF event, entry
<1>3. /\ IsASequence(recorded') /\ Len(recorded) \in Nat
      /\ Len(recorded') = Len(recorded) + 1
      /\ \A i \in 1 .. Len(recorded) : recorded'[i] = recorded[i]
      /\ recorded'[Len(recorded) + 1] = event
  BY <1>1, AppendToAny DEF EventsOK
<1>4. /\ IsASequence(entries') /\ Len(entries') = Len(entries) + 1
      /\ \A i \in 1 .. Len(entries) : entries'[i] = entries[i]
      /\ entries'[Len(entries) + 1] = entry
  BY <1>1, AppendToAny DEF EventsOK
<1>5. ASSUME NEW i \in 1 .. Len(recorded')
      PROVE  /\ recorded'[i].version \in 1 .. taskVersion'
             /\ recorded'[i].selection # Unresolved
             /\ entries'[i] = CanonicalIdentityProjection(recorded'[i].selection)
  <2>1. CASE i = Len(recorded) + 1
    <3>1. recorded'[i] = event /\ entries'[i] = entry
      BY <1>3, <1>4, <2>1 DEF EventsOK
    <3>2. later \in 1 .. taskVersion'
      BY DEF EventsOK
    <3>3. QED
      BY <3>1, <3>2, <1>2 DEF entry
  <2>2. CASE i # Len(recorded) + 1
    <3>1. i \in 1 .. Len(recorded) /\ recorded'[i] = recorded[i] /\ entries'[i] = entries[i]
      BY <1>3, <1>4, <2>2 DEF EventsOK
    <3>2. /\ recorded[i].version \in 1 .. taskVersion
          /\ recorded[i].selection # Unresolved
          /\ entries[i] = CanonicalIdentityProjection(recorded[i].selection)
          /\ taskVersion \in Nat
      BY <3>1 DEF EventsOK
    <3>3. recorded[i].version \in 1 .. taskVersion'
      BY <3>2
    <3>4. QED
      BY <3>1, <3>2, <3>3
  <2>3. QED
    BY <2>1, <2>2
<1>6. EventsOK'
  <2>1. taskVersion' \in Nat \ {0}
    BY DEF EventsOK
  <2>2. Len(entries') = Len(recorded')
    BY <1>3, <1>4 DEF EventsOK
  <2>3. QED
    BY <2>1, <2>2, <1>3, <1>4, <1>5 DEF EventsOK
<1>7. QED
  BY <1>2, <1>3, <1>6

LEMMA RecordInvStep ==
  RecordInv /\ [SelectionNext]_selectionVars => RecordInv'
<1> SUFFICES ASSUME RecordInv, [SelectionNext]_selectionVars
             PROVE  RecordInv'
  OBVIOUS
<1>0. /\ taskVersion \in Nat \ {0} /\ Len(recorded) \in Nat /\ Len(entries) = Len(recorded)
      /\ listed \in Seq(Nat) /\ Len(listed) = taskVersion
      /\ \A v \in 1 .. taskVersion : listed[v] \in 0 .. Len(recorded)
      /\ \A i \in 1 .. Len(recorded) : recorded[i].version \in 1 .. taskVersion
      /\ \A v \in 1 .. taskVersion : \A i \in 1 .. Len(recorded) :
            recorded[i].version <= v <=> i <= listed[v]
  <2>1. Len(recorded) \in Nat
    BY AppendToAny DEF RecordInv, EventsOK
  <2>2. QED
    BY <2>1 DEF RecordInv, EventsOK, ListedOK
<1>1. CASE ResolveSelection \/ UNCHANGED selectionVars
  <2>1. UNCHANGED <<taskVersion, entries, listed, recorded>>
    BY <1>1 DEF ResolveSelection, selectionVars
  <2>2. QED
    BY <2>1 DEF RecordInv, EventsOK, ListedOK
<1>2. CASE Integrate
  <2>1. EventsOK' /\ Len(recorded') = Len(recorded) + 1
        /\ (\A i \in 1 .. Len(recorded) : recorded'[i] = recorded[i])
        /\ recorded'[Len(recorded) + 1].version = taskVersion + 1
    <3>1. /\ IntegratedAt(taskVersion + 1, resolution) /\ taskVersion' = taskVersion + 1
          /\ resolution # Unresolved
      BY <1>2 DEF Integrate, Resolved
    <3>2. taskVersion + 1 \in Nat /\ taskVersion + 1 > taskVersion
      BY <1>0
    <3>3. QED
      BY <3>1, <3>2, IntegrationKeepsTheEvents DEF RecordInv
  <2>2. taskVersion' = taskVersion + 1 /\ listed' = Append(listed, Len(recorded) + 1)
    BY <1>0, <1>2 DEF Integrate
  <2>3. /\ listed' \in Seq(Nat) /\ Len(listed') = taskVersion'
        /\ \A v \in 1 .. taskVersion : listed'[v] = listed[v]
        /\ listed'[taskVersion + 1] = Len(recorded) + 1
    BY <1>0, <2>2
  <2>4. ASSUME NEW v \in 1 .. taskVersion', NEW i \in 1 .. Len(recorded')
        PROVE  recorded'[i].version <= v <=> i <= listed'[v]
    <3>1. CASE v = taskVersion + 1
      <4>1. recorded'[i].version <= v
        BY <3>1, <2>1, <2>2, <1>0 DEF EventsOK
      <4>2. i <= listed'[v]
        BY <3>1, <2>1, <2>3, <1>0
      <4>3. QED
        BY <4>1, <4>2
    <3>2. CASE v # taskVersion + 1
      <4>1. v \in 1 .. taskVersion /\ listed'[v] = listed[v]
        BY <3>2, <2>2, <2>3, <1>0
      <4>2. CASE i = Len(recorded) + 1
        BY <4>1, <4>2, <2>1, <1>0
      <4>3. CASE i # Len(recorded) + 1
        BY <4>1, <4>3, <2>1, <1>0
      <4>4. QED
        BY <4>2, <4>3
    <3>3. QED
      BY <3>1, <3>2
  <2>5. ASSUME NEW v \in 1 .. taskVersion'
        PROVE  listed'[v] \in 0 .. Len(recorded')
    <3>1. v \in 1 .. taskVersion \/ v = taskVersion + 1
      BY <2>2, <1>0
    <3>2. QED
      BY <3>1, <2>1, <2>3, <1>0
  <2>6. QED
    BY <2>1, <2>3, <2>4, <2>5 DEF RecordInv, ListedOK
<1>3. CASE RouteWithSelection
  <2>1. EventsOK' /\ Len(recorded') = Len(recorded) + 1
        /\ (\A i \in 1 .. Len(recorded) : recorded'[i] = recorded[i])
        /\ recorded'[Len(recorded) + 1].version = taskVersion + 2
    <3>1. /\ IntegratedAt(taskVersion + 2, resolution) /\ taskVersion' = taskVersion + 2
          /\ resolution # Unresolved
      BY <1>3 DEF RouteWithSelection, Resolved
    <3>2. taskVersion + 2 \in Nat /\ taskVersion + 2 > taskVersion
      BY <1>0
    <3>3. QED
      BY <3>1, <3>2, IntegrationKeepsTheEvents DEF RecordInv
  <2>2. /\ taskVersion' = taskVersion + 2
        /\ listed' = listed \o <<Len(recorded), Len(recorded) + 1>>
    BY <1>0, <1>3 DEF RouteWithSelection
  <2>3. /\ listed' \in Seq(Nat) /\ Len(listed') = taskVersion'
        /\ \A v \in 1 .. taskVersion : listed'[v] = listed[v]
        /\ listed'[taskVersion + 1] = Len(recorded)
        /\ listed'[taskVersion + 2] = Len(recorded) + 1
    BY <1>0, <2>2
  <2>4. ASSUME NEW v \in 1 .. taskVersion', NEW i \in 1 .. Len(recorded')
        PROVE  recorded'[i].version <= v <=> i <= listed'[v]
    <3>1. CASE v = taskVersion + 2
      <4>1. recorded'[i].version <= v
        BY <3>1, <2>1, <2>2, <1>0 DEF EventsOK
      <4>2. i <= listed'[v]
        BY <3>1, <2>1, <2>3, <1>0
      <4>3. QED
        BY <4>1, <4>2
    <3>2. CASE v # taskVersion + 2
      <4>1. \/ v \in 1 .. taskVersion /\ listed'[v] = listed[v]
            \/ v = taskVersion + 1 /\ listed'[v] = Len(recorded)
        BY <3>2, <2>2, <2>3, <1>0
      <4>2. CASE i = Len(recorded) + 1
        BY <4>1, <4>2, <2>1, <1>0
      <4>3. CASE i # Len(recorded) + 1
        BY <4>1, <4>3, <2>1, <1>0
      <4>4. QED
        BY <4>2, <4>3
    <3>3. QED
      BY <3>1, <3>2
  <2>5. ASSUME NEW v \in 1 .. taskVersion'
        PROVE  listed'[v] \in 0 .. Len(recorded')
    <3>1. v \in 1 .. taskVersion \/ v = taskVersion + 1 \/ v = taskVersion + 2
      BY <2>2, <1>0
    <3>2. QED
      BY <3>1, <2>1, <2>3, <1>0
  <2>6. QED
    BY <2>1, <2>3, <2>4, <2>5 DEF RecordInv, ListedOK
<1>4. CASE OtherMutation
  <2>1. /\ taskVersion' = taskVersion + 1 /\ listed' = Append(listed, Len(recorded))
        /\ UNCHANGED <<entries, recorded>>
    BY <1>0, <1>4 DEF OtherMutation
  <2>2. /\ listed' \in Seq(Nat) /\ Len(listed') = taskVersion'
        /\ \A v \in 1 .. taskVersion : listed'[v] = listed[v]
        /\ listed'[taskVersion + 1] = Len(recorded)
    BY <1>0, <2>1
  <2>3. ASSUME NEW v \in 1 .. taskVersion', NEW i \in 1 .. Len(recorded')
        PROVE  recorded'[i].version <= v <=> i <= listed'[v]
    BY <2>1, <2>2, <1>0
  <2>4. ASSUME NEW v \in 1 .. taskVersion'
        PROVE  listed'[v] \in 0 .. Len(recorded')
    BY <2>1, <2>2, <1>0
  <2>5. EventsOK'
    <3>1. ASSUME NEW i \in 1 .. Len(recorded)
          PROVE  recorded[i].version \in 1 .. taskVersion'
      BY <2>1, <1>0
    <3>2. taskVersion' \in Nat \ {0}
      BY <2>1, <1>0
    <3>3. QED
      BY <2>1, <3>1, <3>2 DEF RecordInv, EventsOK
  <2>6. QED
    BY <2>2, <2>3, <2>4, <2>5 DEF RecordInv, ListedOK
<1>5. QED
  BY <1>1, <1>2, <1>3, <1>4 DEF SelectionNext, SelectTaskRoute

(* What extractExecutionSelectionFromTaskSnapshot finds is the last entry  *)
(* of the snapshot.                                                        *)
LEMMA ExtractFindsTheListed ==
  RecordInv => RecordTellsTheTruth
<1> SUFFICES ASSUME RecordInv, NEW v \in 1 .. taskVersion
             PROVE  IF listed[v] = 0 THEN Extract(v) = Unresolved
                    ELSE /\ Extract(v) # Unresolved
                         /\ CanonicalIdentityProjection(Extract(v)) = entries[listed[v]]
  BY DEF RecordTellsTheTruth
<1> DEFINE positions == {i \in DOMAIN recorded : recorded[i].version <= v}
           n == listed[v]
           upTo == SelectAt(recorded, positions)
<1>1. n \in 0 .. Len(recorded) /\ Len(recorded) \in Nat /\ DOMAIN recorded = 1 .. Len(recorded)
  BY AppendToAny DEF RecordInv, EventsOK, ListedOK, IsASequence
<1>2. positions \cap 1 .. Len(recorded) = 1 .. n
  <2>1. \A i \in 1 .. Len(recorded) : recorded[i].version <= v <=> i <= n
    BY DEF RecordInv, ListedOK
  <2>2. QED
    BY <1>1, <2>1
<1>3. Extract(v) = IF upTo = <<>> THEN Unresolved ELSE upTo[Len(upTo)].selection
  BY DEF Extract
<1> HIDE DEF positions, n
<1>4. IF n = 0 THEN upTo = <<>> ELSE upTo # <<>> /\ upTo[Len(upTo)] = recorded[n]
  <2>1. PICK S : recorded \in Seq(S)
    BY DEF RecordInv, EventsOK, IsASequence
  <2>2. QED
    BY <1>1, <1>2, <2>1, SelectAtBeginning
<1> HIDE DEF upTo
<1>5. CASE n = 0
  BY <1>3, <1>4, <1>5 DEF n
<1>6. CASE n # 0
  <2>1. Extract(v) = recorded[n].selection /\ n \in 1 .. Len(recorded)
    BY <1>1, <1>3, <1>4, <1>6
  <2>2. /\ recorded[n].selection # Unresolved
        /\ entries[n] = CanonicalIdentityProjection(recorded[n].selection)
    BY <2>1 DEF RecordInv, EventsOK
  <2>3. QED
    BY <2>1, <2>2, <1>6 DEF n
<1>7. QED
  BY <1>5, <1>6

(* However selections and other changes follow one another, what is read   *)
(* back for a version is the selection its snapshot refers to.             *)
THEOREM TheRecordTellsTheTruth == SelectionSpec => []RecordTellsTheTruth
<1>1. SelectionInit => RecordInv
  BY RecordInvInitially
<1>2. RecordInv /\ [SelectionNext]_selectionVars => RecordInv'
  BY RecordInvStep
<1>3. RecordInv => RecordTellsTheTruth
  BY ExtractFindsTheListed
<1>4. QED
  BY <1>1, <1>2, <1>3, PTL DEF SelectionSpec

(***************************************************************************)
(* Loops.                                                                  *)
(***************************************************************************)

Loop(S, base, n, step) ==
  base \in S /\ n \in Nat /\ step \in [1 .. n -> [S -> S]]

(* A loop over n elements has a table of what it has after each of them.   *)
LEMMA LoopHasATable ==
  ASSUME NEW S, NEW base, NEW n, NEW step, Loop(S, base, n, step)
  PROVE  \E f \in [0 .. n -> S] :
           f[0] = base /\ \A i \in 1 .. n : f[i] = step[i][f[i - 1]]
<1>0. base \in S /\ n \in Nat /\ step \in [1 .. n -> [S -> S]]
  BY DEF Loop
<1> USE <1>0
<1> DEFINE Table(f, m) == /\ f \in [0 .. m -> S]
                          /\ f[0] = base
                          /\ \A i \in 1 .. m : f[i] = step[i][f[i - 1]]
           Bad == {m \in 0 .. n : ~ \E f : Table(f, m)}
<1>1. Bad = {}
  <2> SUFFICES ASSUME Bad # {} PROVE FALSE
    OBVIOUS
  <2>1. PICK m \in Bad : \A k \in Bad : m <= k
    <3>1. Bad \in SUBSET Nat
      OBVIOUS
    <3> HIDE DEF Bad
    <3>2. QED
      BY <3>1, LeastElement
  <2>2. m # 0
    <3>1. Table([i \in 0 .. 0 |-> base], 0)
      OBVIOUS
    <3> HIDE DEF Table
    <3>2. QED
      BY <2>1, <3>1
  <2>3. m \in 1 .. n /\ \E f : Table(f, m - 1)
    <3> HIDE DEF Table
    <3>1. QED
      BY <2>1, <2>2
  <2>4. PICK f : Table(f, m - 1)
    BY <2>3
  <2> DEFINE g == [i \in 0 .. m |-> IF i = m THEN step[m][f[m - 1]] ELSE f[i]]
  <2>5. f[m - 1] \in S /\ step[m][f[m - 1]] \in S
    BY <2>3, <2>4
  <2>6. g \in [0 .. m -> S] /\ g[0] = base
    BY <2>3, <2>4, <2>5
  <2>7. ASSUME NEW i \in 1 .. m
        PROVE  g[i] = step[i][g[i - 1]]
    <3>1. g[i - 1] = f[i - 1]
      BY <2>3
    <3>2. CASE i = m
      BY <3>1, <3>2, <2>3
    <3>3. CASE i # m
      BY <3>1, <3>3, <2>3, <2>4
    <3>4. QED
      BY <3>2, <3>3
  <2>8. Table(g, m)
    BY <2>6, <2>7
  <2> HIDE DEF g, Table
  <2>9. QED
    BY <2>1, <2>8
<1>2. \E f : Table(f, n)
  <2>1. n \in 0 .. n
    OBVIOUS
  <2> HIDE DEF Table
  <2>2. QED
    BY <1>1, <2>1
<1>3. QED
  BY <1>2

(***************************************************************************)
(* The models worth considering.                                           *)
(***************************************************************************)

Graded(m) == /\ m.tier \in Grades /\ m.cost \in Grades
             /\ m.reliability \in Grades /\ m.latency \in Grades

(* part has some of the first n models, none twice, and for each of them   *)
(* one that costs no more.                                                 *)
Represents(part, models, n) ==
  /\ NoneTwice(part)
  /\ \A j \in 1 .. Len(part) : \E k \in 1 .. n : part[j] = models[k]
  /\ \A k \in 1 .. n : \E j \in 1 .. Len(part) : part[j].cost <= models[k].cost

(* One more candidate, dominated or dominating, leaves it so.              *)
LEMMA WithCandidateRepresents ==
  ASSUME NEW S, \A m \in S : Graded(m), NEW c \in Seq(S), NoneTwice(c),
         NEW i \in 1 .. Len(c), NEW front \in Seq(S), Represents(front, c, i - 1)
  PROVE  /\ WithCandidate(front, c[i]) \in Seq(S)
         /\ Represents(WithCandidate(front, c[i]), c, i)
<1>0. /\ \A m \in S : m.cost \in Int
      /\ i \in Nat /\ Len(c) \in Nat /\ Len(front) \in Nat /\ c[i] \in S
      /\ i \in 1 .. Len(c) /\ i - 1 \in Nat
      /\ \A k \in 1 .. Len(c) : c[k] \in S
      /\ \A j \in 1 .. Len(front) : front[j] \in S
  BY DEF Graded, Grades
<1>1. CASE \E j \in DOMAIN front : Dominates(front[j], c[i])
  <2>1. WithCandidate(front, c[i]) = front
    BY <1>1 DEF WithCandidate
  <2>2. PICK j \in 1 .. Len(front) : front[j].cost <= c[i].cost
    BY <1>1 DEF Dominates
  <2>3. Represents(front, c, i)
    <3>1. \A l \in 1 .. Len(front) : \E k \in 1 .. i : front[l] = c[k]
      BY <1>0 DEF Represents
    <3>2. ASSUME NEW k \in 1 .. i
          PROVE  \E l \in 1 .. Len(front) : front[l].cost <= c[k].cost
      <4>1. k = i \/ k \in 1 .. i - 1
        BY <1>0
      <4>2. QED
        BY <4>1, <2>2 DEF Represents
    <3>3. QED
      BY <3>1, <3>2 DEF Represents
  <2>4. QED
    BY <2>1, <2>3
<1>2. CASE ~ \E j \in DOMAIN front : Dominates(front[j], c[i])
  <2> DEFINE positions == {j \in DOMAIN front : ~Dominates(c[i], front[j])}
             kept == SelectAt(front, positions)
  <2>1. WithCandidate(front, c[i]) = Append(kept, c[i])
    BY <1>2 DEF WithCandidate
  <2>2. /\ kept \in Seq(S) /\ Len(kept) \in Nat
        /\ \A l \in 1 .. Len(kept) : \E j \in positions : kept[l] = front[j]
        /\ \A j \in positions : \E l \in 1 .. Len(kept) : kept[l] = front[j]
        /\ NoneTwice(front) => NoneTwice(kept)
    <3>1. positions \in SUBSET (1 .. Len(front))
      BY <1>0
    <3> HIDE DEF positions
    <3>2. kept \in Seq(S) /\ Filtered(kept, front, positions)
      BY <3>1, FilterKeeps
    <3>3. QED
      BY <3>2 DEF Filtered
  <2>4. \A j \in 1 .. Len(front) : j \in positions \/ c[i].cost <= front[j].cost
    BY <1>0 DEF Dominates
  <2>5. positions \subseteq 1 .. Len(front)
    BY <1>0
  <2> HIDE DEF positions, kept
  <2> DEFINE new == Append(kept, c[i])
  <2>6. /\ new \in Seq(S) /\ Len(new) = Len(kept) + 1
        /\ new[Len(kept) + 1] = c[i]
        /\ \A l \in 1 .. Len(kept) : new[l] = kept[l]
    BY <2>2, <1>0
  <2> HIDE DEF new
  <2>7. \A l \in 1 .. Len(kept) : \E k \in 1 .. i - 1 : kept[l] = c[k]
    BY <2>2, <2>5 DEF Represents
  <2>8. \A l \in 1 .. Len(new) : \E k \in 1 .. i : new[l] = c[k]
    <3> SUFFICES ASSUME NEW l \in 1 .. Len(new)
                 PROVE  \E k \in 1 .. i : new[l] = c[k]
      OBVIOUS
    <3>1. CASE l = Len(kept) + 1
      BY <3>1, <2>6, <1>0
    <3>2. CASE l # Len(kept) + 1
      <4>1. l \in 1 .. Len(kept) /\ new[l] = kept[l]
        BY <3>2, <2>2, <2>6
      <4>2. PICK k \in 1 .. i - 1 : kept[l] = c[k]
        BY <4>1, <2>7
      <4>3. k \in 1 .. i
        BY <1>0
      <4>4. QED
        BY <4>1, <4>2, <4>3
    <3>3. QED
      BY <3>1, <3>2
  <2>9. NoneTwice(kept)
    BY <2>2 DEF Represents
  <2>10. NoneTwice(new)
    <3> SUFFICES ASSUME NEW l \in 1 .. Len(new), NEW m \in 1 .. Len(new), new[l] = new[m]
                 PROVE  l = m
      BY DEF NoneTwice
    <3>1. ASSUME NEW x \in 1 .. Len(kept) PROVE kept[x] # c[i]
      <4>1. PICK k \in 1 .. i - 1 : kept[x] = c[k]
        BY <2>7
      <4>2. k \in 1 .. Len(c) /\ k # i
        BY <1>0
      <4>3. QED
        BY <4>1, <4>2, <1>0 DEF NoneTwice
    <3>2. l \in 1 .. Len(kept) \/ l = Len(kept) + 1
      BY <2>2, <2>6
    <3>3. m \in 1 .. Len(kept) \/ m = Len(kept) + 1
      BY <2>2, <2>6
    <3>4. QED
      BY <3>1, <3>2, <3>3, <2>6, <2>9 DEF NoneTwice
  <2>11. ASSUME NEW k \in 1 .. i
         PROVE  \E l \in 1 .. Len(new) : new[l].cost <= c[k].cost
    <3>1. CASE k = i
      <4>1. Len(new) \in 1 .. Len(new) /\ new[Len(new)].cost <= c[k].cost
        BY <3>1, <2>2, <2>6, <1>0
      <4>2. QED
        BY <4>1
    <3>2. CASE k # i
      <4>1. k \in 1 .. i - 1 /\ c[k] \in S
        BY <3>2, <1>0
      <4>2. PICK j \in 1 .. Len(front) : front[j].cost <= c[k].cost
        BY <4>1 DEF Represents
      <4>3. CASE j \in positions
        <5>1. PICK l \in 1 .. Len(kept) : kept[l] = front[j]
          BY <4>3, <2>2
        <5>2. l \in 1 .. Len(new) /\ new[l] = front[j]
          BY <5>1, <2>2, <2>6
        <5>3. QED
          BY <5>2, <4>2
      <4>4. CASE j \notin positions
        <5>1. Len(new) \in 1 .. Len(new) /\ new[Len(new)] = c[i]
          BY <2>2, <2>6
        <5>2. c[i].cost <= front[j].cost /\ c[i].cost \in Int /\ front[j].cost \in Int
              /\ c[k].cost \in Int
          BY <4>4, <4>1, <2>4, <1>0
        <5>3. c[i].cost <= c[k].cost
          BY <5>2, <4>2
        <5>4. QED
          BY <5>1, <5>3
      <4>5. QED
        BY <4>3, <4>4
    <3>3. QED
      BY <3>1, <3>2
  <2>12. QED
    BY <2>1, <2>6, <2>8, <2>10, <2>11 DEF Represents, new
<1>3. QED
  BY <1>1, <1>2

(* The frontier of the candidates represents them.                         *)
LEMMA FrontierRepresents ==
  ASSUME NEW S, \A m \in S : Graded(m), NEW c \in Seq(S), NoneTwice(c)
  PROVE  /\ ComputeNonDominatedFrontier(c) \in Seq(S)
         /\ Represents(ComputeNonDominatedFrontier(c), c, Len(c))
<1> DEFINE n == Len(c)
           Good(front, i) == front \in Seq(S) /\ Represents(front, c, i)
           (* The loop, stopped where it would leave what it builds.       *)
           Step(front, i) == IF WithCandidate(front, c[i]) \in Seq(S)
                             THEN WithCandidate(front, c[i]) ELSE <<>>
           step == [i \in 1 .. n |-> [front \in Seq(S) |-> Step(front, i)]]
           IsTable(f) == f = [i \in 0 .. n |-> IF i = 0 THEN <<>>
                                               ELSE WithCandidate(f[i - 1], c[i])]
           F == CHOOSE f : IsTable(f)
<1>1. n \in Nat /\ <<>> \in Seq(S)
  OBVIOUS
<1>2. step \in [1 .. n -> [Seq(S) -> Seq(S)]]
  BY <1>1
<1>3. \A i \in 1 .. n : \A front \in Seq(S) : step[i][front] = Step(front, i)
  OBVIOUS
<1> HIDE DEF n, step
<1>4. PICK f \in [0 .. n -> Seq(S)] : f[0] = <<>> /\ \A i \in 1 .. n : f[i] = step[i][f[i - 1]]
  <2> DEFINE T == Seq(S)
  <2>1. Loop(T, <<>>, n, step)
    BY <1>1, <1>2 DEF Loop
  <2> HIDE DEF T
  <2>2. \E f \in [0 .. n -> T] : f[0] = <<>> /\ \A i \in 1 .. n : f[i] = step[i][f[i - 1]]
    BY <2>1, LoopHasATable
  <2>3. QED
    BY <2>2 DEF T
<1>5. \A i \in 1 .. n : f[i - 1] \in Seq(S) /\ f[i] = Step(f[i - 1], i)
  <2> HIDE DEF Step
  <2>1. \A i \in 1 .. n : f[i - 1] \in Seq(S)
    BY <1>1
  <2>2. QED
    BY <2>1, <1>3, <1>4
<1>6. ASSUME NEW i \in 1 .. n, Good(f[i - 1], i - 1)
      PROVE  f[i] = WithCandidate(f[i - 1], c[i]) /\ Good(f[i], i)
  <2>1. i \in 1 .. Len(c)
    BY DEF n
  <2>2. /\ WithCandidate(f[i - 1], c[i]) \in Seq(S)
        /\ Represents(WithCandidate(f[i - 1], c[i]), c, i)
    BY <1>6, <2>1, WithCandidateRepresents
  <2>3. f[i] = Step(f[i - 1], i)
    BY <1>5
  <2>4. QED
    BY <2>2, <2>3
<1> HIDE DEF Step
<1>7. Good(f[0], 0)
  BY <1>1, <1>4 DEF Represents, NoneTwice
<1> DEFINE Bad == {i \in 0 .. n : ~Good(f[i], i)}
<1> HIDE DEF Good
<1>8. Bad = {}
  <2> SUFFICES ASSUME Bad # {} PROVE FALSE
    OBVIOUS
  <2>1. PICK i \in Bad : \A k \in Bad : i <= k
    <3>1. Bad \in SUBSET Nat
      BY <1>1
    <3> HIDE DEF Bad
    <3>2. QED
      BY <3>1, LeastElement
  <2>2. i # 0
    BY <2>1, <1>7
  <2>3. i \in 1 .. n /\ Good(f[i - 1], i - 1)
    BY <2>1, <2>2, <1>1
  <2>4. QED
    BY <2>1, <2>3, <1>6
<1>9. \A i \in 1 .. n : f[i] = WithCandidate(f[i - 1], c[i]) /\ Good(f[i - 1], i - 1)
  <2> SUFFICES ASSUME NEW i \in 1 .. n
               PROVE  f[i] = WithCandidate(f[i - 1], c[i]) /\ Good(f[i - 1], i - 1)
    OBVIOUS
  <2>1. i - 1 \in 0 .. n
    BY <1>1
  <2>2. Good(f[i - 1], i - 1)
    BY <1>8, <2>1
  <2>3. QED
    BY <2>2, <1>6
<1>10. IsTable(f)
  <2>1. ASSUME NEW i \in 0 .. n
        PROVE  f[i] = IF i = 0 THEN <<>> ELSE WithCandidate(f[i - 1], c[i])
    <3>1. CASE i = 0
      BY <3>1, <1>4
    <3>2. CASE i # 0
      <4>1. i \in 1 .. n
        BY <3>2, <1>1
      <4>2. QED
        BY <3>2, <4>1, <1>9
    <3>3. QED
      BY <3>1, <3>2
  <2>2. QED
    BY <2>1
<1>11. IsTable(F)
  <2> HIDE DEF IsTable
  <2>1. QED
    BY <1>10
<1>12. F[0] = <<>> /\ \A i \in 1 .. n : F[i] = WithCandidate(F[i - 1], c[i])
  <2> DEFINE Entry(i) == IF i = 0 THEN <<>> ELSE WithCandidate(F[i - 1], c[i])
  <2>1. F = [i \in 0 .. n |-> Entry(i)]
    BY <1>11, Zenon
  <2> HIDE DEF F, Entry
  <2>2. \A i \in 0 .. n : F[i] = Entry(i)
    BY <2>1
  <2>3. 0 \in 0 .. n /\ \A i \in 1 .. n : i \in 0 .. n /\ i # 0
    BY <1>1
  <2>4. QED
    BY <2>2, <2>3 DEF Entry
<1>13. ComputeNonDominatedFrontier(c) = F[n]
  BY DEF ComputeNonDominatedFrontier, n
<1> HIDE DEF F, IsTable
<1> DEFINE Apart == {i \in 0 .. n : F[i] # f[i]}
<1>14. Apart = {}
  <2> SUFFICES ASSUME Apart # {} PROVE FALSE
    OBVIOUS
  <2>1. PICK i \in Apart : \A k \in Apart : i <= k
    <3>1. Apart \in SUBSET Nat
      BY <1>1
    <3> HIDE DEF Apart
    <3>2. QED
      BY <3>1, LeastElement
  <2>2. i # 0
    BY <2>1, <1>4, <1>12
  <2>3. i \in 1 .. n /\ F[i - 1] = f[i - 1]
    BY <2>1, <2>2, <1>1
  <2>4. QED
    BY <2>1, <2>3, <1>9, <1>12
<1>15. n \in 0 .. n
  BY <1>1
<1>16. Good(ComputeNonDominatedFrontier(c), n)
  BY <1>8, <1>13, <1>14, <1>15
<1>17. QED
  BY <1>16 DEF Good, n

(* The lowest of some grades is one of them, and none is lower.            *)
LEMMA LowestIsLeast ==
  ASSUME NEW among \in SUBSET Nat, among # {}, NEW grade, \A i \in among : grade[i] \in -2 .. 2
  PROVE  /\ Lowest(among, grade) \in among
         /\ \A i \in among : grade[Lowest(among, grade)] <= grade[i]
<1> DEFINE Grown == {grade[i] + 2 : i \in among}
<1>1. PICK g \in Grown : \A h \in Grown : g <= h
  <2>1. Grown \in SUBSET Nat
    <3>1. \A i \in among : grade[i] + 2 \in Nat
      OBVIOUS
    <3>2. QED
      BY <3>1
  <2>2. Grown # {}
    OBVIOUS
  <2> HIDE DEF Grown
  <2>3. QED
    BY <2>1, <2>2, LeastElement
<1> DEFINE First == {i \in among : grade[i] + 2 = g}
<1>2. PICK i \in First : \A j \in First : i <= j
  <2>1. First \in SUBSET Nat /\ First # {}
    BY <1>1
  <2> HIDE DEF First
  <2>2. QED
    BY <2>1, LeastElement
<1> DEFINE Least(x) == \A j \in among \ {x} :
                          grade[x] < grade[j] \/ (grade[x] = grade[j] /\ x < j)
<1>3. i \in among /\ Least(i)
  <2>1. i \in among /\ i \in Nat /\ grade[i] + 2 = g
    BY <1>2
  <2>2. ASSUME NEW j \in among, j # i
        PROVE  grade[i] < grade[j] \/ (grade[i] = grade[j] /\ i < j)
    <3>1. g <= grade[j] + 2 /\ grade[j] \in -2 .. 2 /\ grade[i] \in -2 .. 2 /\ j \in Nat
      BY <1>1, <2>1
    <3>2. CASE grade[j] = grade[i]
      <4>1. i <= j
        BY <1>2, <2>1, <3>2
      <4>2. QED
        BY <4>1, <2>1, <2>2, <3>1, <3>2
    <3>3. CASE grade[j] # grade[i]
      BY <3>1, <3>3, <2>1
    <3>4. QED
      BY <3>2, <3>3
  <2>3. QED
    BY <2>1, <2>2
<1> DEFINE low == CHOOSE x \in among : Least(x)
<1>4. Lowest(among, grade) = low
  BY DEF Lowest
<1>5. low \in among /\ Least(low)
  <2> HIDE DEF Least
  <2>1. QED
    BY <1>3
<1> HIDE DEF low
<1>6. ASSUME NEW j \in among PROVE grade[low] <= grade[j]
  BY <1>5
<1>7. QED
  BY <1>4, <1>5, <1>6

(* Whoever represents representatives represents those they stand for.     *)
LEMMA RepresentsTransitively ==
  ASSUME NEW S, \A m \in S : Graded(m), NEW a \in Seq(S), NEW b \in Seq(S), NEW c \in Seq(S),
         Represents(a, b, Len(b)), Represents(b, c, Len(c))
  PROVE  Represents(a, c, Len(c))
<1>1. /\ \A j \in 1 .. Len(a) : a[j].cost \in Int
      /\ \A j \in 1 .. Len(b) : b[j].cost \in Int
      /\ \A j \in 1 .. Len(c) : c[j].cost \in Int
  BY DEF Graded, Grades
<1>2. \A j \in 1 .. Len(a) : \E k \in 1 .. Len(c) : a[j] = c[k]
  BY DEF Represents
<1>3. ASSUME NEW k \in 1 .. Len(c)
      PROVE  \E j \in 1 .. Len(a) : a[j].cost <= c[k].cost
  <2>1. PICK l \in 1 .. Len(b) : b[l].cost <= c[k].cost
    BY DEF Represents
  <2>2. PICK j \in 1 .. Len(a) : a[j].cost <= b[l].cost
    BY DEF Represents
  <2>3. QED
    BY <1>1, <2>1, <2>2
<1>4. QED
  BY <1>2, <1>3 DEF Represents

(* The cheapest of the frontier is a representative: whatever the tie      *)
(* breaks, the three represent the frontier.                               *)
LEMMA RepresentativesRepresent ==
  ASSUME NEW S, \A m \in S : Graded(m), NEW front \in Seq(S), NoneTwice(front)
  PROVE  /\ SelectRepresentatives(front) \in Seq(S)
         /\ Represents(SelectRepresentatives(front), front, Len(front))
<1> DEFINE all == DOMAIN front
           costs == [i \in all |-> front[i].cost]
           strengths == [i \in all |-> -front[i].reliability]
           cheapest == Lowest(all, costs)
           rest == all \ {cheapest}
           strongest == Lowest(rest, [i \in rest |-> -front[i].reliability])
           left == rest \ {strongest}
           quickest == Lowest(left, [i \in left |-> front[i].latency])
           reps == SelectRepresentatives(front)
<1>1. /\ Len(front) \in Nat /\ all = 1 .. Len(front)
      /\ \A i \in all : /\ front[i] \in S /\ front[i].cost \in 0 .. 2
                        /\ front[i].reliability \in 0 .. 2 /\ front[i].latency \in 0 .. 2
  BY DEF Graded, Grades
<1>2. reps = CASE Len(front) = 0 -> <<>>
               [] Len(front) = 1 -> <<front[cheapest]>>
               [] Len(front) = 2 -> <<front[cheapest], front[strongest]>>
               [] OTHER -> <<front[cheapest], front[strongest], front[quickest]>>
  BY DEF SelectRepresentatives
<1>3. Len(front) # 0 =>
        /\ cheapest \in all
        /\ \A i \in all : front[cheapest].cost <= front[i].cost
  <2> SUFFICES ASSUME Len(front) # 0
               PROVE  /\ cheapest \in all
                      /\ \A i \in all : front[cheapest].cost <= front[i].cost
    OBVIOUS
  <2>1. all \in SUBSET Nat /\ all # {} /\ \A i \in all : costs[i] \in -2 .. 2
    BY <1>1
  <2>2. \A i \in all : costs[i] = front[i].cost
    OBVIOUS
  <2> HIDE DEF all, costs
  <2>3. cheapest \in all /\ \A i \in all : costs[cheapest] <= costs[i]
    BY <2>1, LowestIsLeast
  <2>4. QED
    BY <2>2, <2>3
<1> HIDE DEF costs, cheapest
<1>4. Len(front) > 1 => strongest \in all /\ strongest # cheapest
  <2> SUFFICES ASSUME Len(front) > 1 PROVE strongest \in rest
    OBVIOUS
  <2> DEFINE grade == [i \in rest |-> -front[i].reliability]
  <2>1. rest \in SUBSET Nat /\ \A i \in rest : grade[i] \in -2 .. 2
    BY <1>1
  <2>2. rest # {}
    <3>1. 1 \in all /\ 2 \in all
      BY <1>1
    <3>2. QED
      BY <3>1
  <2> HIDE DEF rest, grade
  <2>3. Lowest(rest, grade) \in rest
    BY <2>1, <2>2, LowestIsLeast
  <2>4. QED
    BY <2>3 DEF grade
<1> HIDE DEF strongest
<1>5. Len(front) > 2 => quickest \in all /\ quickest # cheapest /\ quickest # strongest
  <2> SUFFICES ASSUME Len(front) > 2 PROVE quickest \in left
    OBVIOUS
  <2> DEFINE grade == [i \in left |-> front[i].latency]
  <2>1. left \in SUBSET Nat /\ \A i \in left : grade[i] \in -2 .. 2
    BY <1>1
  <2>2. left # {}
    <3>1. 1 \in all /\ 2 \in all /\ 3 \in all
      BY <1>1
    <3>2. QED
      BY <3>1
  <2> HIDE DEF left, grade
  <2>3. Lowest(left, grade) \in left
    BY <2>1, <2>2, LowestIsLeast
  <2>4. QED
    BY <2>3 DEF grade
<1> HIDE DEF quickest, rest, left
<1>6. /\ reps \in Seq(S) /\ NoneTwice(reps)
      /\ \A j \in 1 .. Len(reps) : \E k \in 1 .. Len(front) : reps[j] = front[k]
      /\ Len(front) # 0 => Len(reps) \in Nat \ {0} /\ reps[1] = front[cheapest]
  <2>1. CASE Len(front) = 0
    <3>1. reps = <<>>
      BY <1>2, <2>1
    <3>2. QED
      BY <3>1, <2>1 DEF NoneTwice
  <2>2. CASE Len(front) = 1
    <3>1. reps = <<front[cheapest]>>
      BY <1>2, <2>2
    <3>2. front[cheapest] \in S
      BY <1>1, <1>3, <2>2
    <3>3. QED
      BY <3>1, <3>2, <1>1, <1>3, <2>2 DEF NoneTwice
  <2>3. CASE Len(front) = 2
    <3>1. reps = <<front[cheapest], front[strongest]>>
      BY <1>2, <2>3
    <3>2. /\ front[cheapest] \in S /\ front[strongest] \in S
          /\ front[cheapest] # front[strongest]
      BY <1>1, <1>3, <1>4, <2>3 DEF NoneTwice
    <3>3. QED
      BY <3>1, <3>2, <1>1, <1>3, <1>4, <2>3 DEF NoneTwice
  <2>4. CASE Len(front) > 2
    <3>1. reps = <<front[cheapest], front[strongest], front[quickest]>>
      BY <1>1, <1>2, <2>4
    <3>2. /\ front[cheapest] \in S /\ front[strongest] \in S /\ front[quickest] \in S
          /\ front[cheapest] # front[strongest] /\ front[quickest] # front[cheapest]
          /\ front[quickest] # front[strongest]
      BY <1>1, <1>3, <1>4, <1>5, <2>4 DEF NoneTwice
    <3>3. QED
      BY <3>1, <3>2, <1>1, <1>3, <1>4, <1>5, <2>4 DEF NoneTwice
  <2>5. QED
    BY <1>1, <2>1, <2>2, <2>3, <2>4
<1> HIDE DEF reps
<1>7. ASSUME NEW k \in 1 .. Len(front)
      PROVE  \E j \in 1 .. Len(reps) : reps[j].cost <= front[k].cost
  <2>1. 1 \in 1 .. Len(reps) /\ reps[1].cost <= front[k].cost
    BY <1>1, <1>3, <1>6
  <2>2. QED
    BY <2>1
<1>8. QED
  BY <1>6, <1>7 DEF Represents, reps

(* The models a request is resolved with: admissible ones, none twice, and *)
(* for each admissible one of them one that costs no more.                 *)
LEMMA EvaluationRepresents ==
  ASSUME NEW S, \A m \in S : Graded(m), NEW registry \in Seq(S), NoneTwice(registry),
         NEW allowed, NEW floor, NEW available
  PROVE  LET admissible == Admissible(registry, allowed, floor, available)
             models == EvaluateModelPaths(registry, allowed, floor, available)
         IN /\ admissible \in Seq(S) /\ models \in Seq(S)
            /\ \A i \in 1 .. Len(admissible) : Meets(admissible[i], floor)
            /\ Represents(models, admissible, Len(admissible))
<1> DEFINE positions == {i \in DOMAIN registry : /\ FitsMode(registry[i], allowed)
                                                 /\ Meets(registry[i], floor)
                                                 /\ registry[i].id \in available}
           admissible == Admissible(registry, allowed, floor, available)
           front == ComputeNonDominatedFrontier(admissible)
           models == SelectRepresentatives(front)
<1>1. admissible = SelectAt(registry, positions)
  BY DEF Admissible
<1>2. positions \in SUBSET (1 .. Len(registry))
  OBVIOUS
<1>3. \A i \in positions : Meets(registry[i], floor)
  OBVIOUS
<1> HIDE DEF positions, admissible
<1>4. /\ admissible \in Seq(S) /\ NoneTwice(admissible)
      /\ \A l \in 1 .. Len(admissible) : \E i \in positions : admissible[l] = registry[i]
  <2>1. admissible \in Seq(S) /\ Filtered(admissible, registry, positions)
    BY <1>1, <1>2, FilterKeeps
  <2>2. QED
    BY <2>1 DEF Filtered
<1>6. \A i \in 1 .. Len(admissible) : Meets(admissible[i], floor)
  BY <1>3, <1>4, Zenon
<1>8. front \in Seq(S) /\ Represents(front, admissible, Len(admissible))
  BY <1>4, FrontierRepresents
<1> HIDE DEF front
<1>9. models \in Seq(S) /\ Represents(models, front, Len(front))
  BY <1>8, RepresentativesRepresent DEF Represents
<1> HIDE DEF models
<1>10. Represents(models, admissible, Len(admissible))
  BY <1>4, <1>8, <1>9, RepresentsTransitively
<1>11. models = EvaluateModelPaths(registry, allowed, floor, available)
  BY DEF models, front, admissible, EvaluateModelPaths
<1>12. QED
  BY <1>4, <1>6, <1>9, <1>10, <1>11 DEF admissible

(***************************************************************************)
(* Pairs.                                                                  *)
(***************************************************************************)

LEMMA QuotientAndRemainder ==
  ASSUME NEW x \in Nat, NEW n \in Nat \ {0}
  PROVE  /\ x \div n \in Nat /\ x % n \in 0 .. n - 1
         /\ x = n * (x \div n) + (x % n)
OBVIOUS

LEMMA ProductsGrow ==
  ASSUME NEW n \in Nat, NEW a \in Nat, NEW b \in Nat, a < b
  PROVE  n * a + n <= n * b
<1>1. PICK d \in Nat : b = a + 1 + d
  <2>1. b - a - 1 \in Nat /\ b = a + 1 + (b - a - 1)
    OBVIOUS
  <2>2. QED
    BY <2>1
<1>2. n * b = n * a + n + n * d /\ n * d \in Nat
  BY <1>1
<1>3. n * a \in Nat
  OBVIOUS
<1>4. QED
  BY <1>2, <1>3

LEMMA QuotientIsUnique ==
  ASSUME NEW n \in Nat \ {0}, NEW a \in Nat, NEW b \in Nat, NEW r \in 0 .. n - 1,
         NEW s \in 0 .. n - 1, n * a + r = n * b + s
  PROVE  a = b /\ r = s
<1>1. n * a \in Nat /\ n * b \in Nat
  OBVIOUS
<1>2. ~(a < b)
  <2>1. a < b => n * a + n <= n * b
    BY ProductsGrow
  <2>2. QED
    BY <1>1, <2>1
<1>3. ~(b < a)
  <2>1. b < a => n * b + n <= n * a
    BY ProductsGrow
  <2>2. QED
    BY <1>1, <2>1
<1>4. a = b
  BY <1>2, <1>3
<1>5. QED
  BY <1>1, <1>4

Pair(route, model) == [route |-> route, model |-> model]

AllPairs(pairs, routes, models) ==
  /\ \A k \in 1 .. Len(pairs) : \E i \in 1 .. Len(routes), j \in 1 .. Len(models) :
        pairs[k] = Pair(routes[i], models[j])
  /\ \A i \in 1 .. Len(routes), j \in 1 .. Len(models) :
        \E k \in 1 .. Len(pairs) : pairs[k] = Pair(routes[i], models[j])
  /\ NoneTwice(routes) /\ NoneTwice(models) => NoneTwice(pairs)
  /\ pairs = <<>> <=> routes = <<>> \/ models = <<>>

(* The pairs are those of every route with every model, and none twice.    *)
LEMMA PairsAreAll ==
  ASSUME NEW R, NEW S, NEW routes \in Seq(R), NEW models \in Seq(S)
  PROVE  /\ Pairs(routes, models) \in Seq([route : R, model : S])
         /\ AllPairs(Pairs(routes, models), routes, models)
<1> DEFINE n == Len(models)
           size == Len(routes) * n
           quotient(k) == (k - 1) \div n
           remainder(k) == (k - 1) % n
           pairs == Pairs(routes, models)
<1>1. /\ n \in Nat /\ Len(routes) \in Nat /\ size \in Nat
      /\ size = 0 <=> Len(routes) = 0 \/ n = 0
  OBVIOUS
<1>2. pairs = [k \in 1 .. size |-> Pair(routes[quotient(k) + 1], models[remainder(k) + 1])]
  BY DEF Pairs, Pair
<1>3. \A k \in 1 .. size :
        /\ quotient(k) \in Nat /\ remainder(k) \in 0 .. n - 1
        /\ k - 1 = n * quotient(k) + remainder(k)
  <2> SUFFICES ASSUME NEW k \in 1 .. size
               PROVE  /\ quotient(k) \in Nat /\ remainder(k) \in 0 .. n - 1
                      /\ k - 1 = n * quotient(k) + remainder(k)
    OBVIOUS
  <2>1. n \in Nat \ {0} /\ k - 1 \in Nat
    BY <1>1
  <2> HIDE DEF n
  <2>2. QED
    BY <2>1, QuotientAndRemainder
<1>0. n * Len(routes) = size
  OBVIOUS
<1> HIDE DEF n, size
<1>4. \A k \in 1 .. size : quotient(k) < Len(routes)
  <2> SUFFICES ASSUME NEW k \in 1 .. size, ~(quotient(k) < Len(routes)) PROVE FALSE
    OBVIOUS
  <2> DEFINE q == quotient(k)
             m == Len(routes)
  <2>1. q \in Nat /\ m \in Nat /\ m <= q /\ remainder(k) \in Nat /\ k - 1 = n * q + remainder(k)
    BY <1>1, <1>3
  <2> HIDE DEF q, m
  <2>2. n * m <= n * q
    <3>1. CASE m = q
      BY <3>1, <2>1, <1>1
    <3>2. CASE m < q
      <4>1. n * m + n <= n * q
        BY <3>2, <2>1, <1>1, ProductsGrow
      <4>2. n * m \in Nat /\ n * q \in Nat
        BY <2>1, <1>1
      <4>3. QED
        BY <4>1, <4>2, <1>1
    <3>3. QED
      BY <3>1, <3>2, <2>1
  <2>3. n * m = size /\ n * q \in Nat
    BY <1>0, <1>1, <2>1 DEF m
  <2>4. QED
    BY <2>1, <2>2, <2>3, <1>1
<1>5. \A k \in 1 .. size : /\ quotient(k) + 1 \in 1 .. Len(routes)
                           /\ remainder(k) + 1 \in 1 .. n
  BY <1>1, <1>3, <1>4
<1>6. ASSUME NEW i \in 1 .. Len(routes), NEW j \in 1 .. n
      PROVE  \E k \in 1 .. size : quotient(k) + 1 = i /\ remainder(k) + 1 = j
  <2> DEFINE a == i - 1
             r == j - 1
             k == n * a + r + 1
  <2>1. a \in Nat /\ r \in 0 .. n - 1 /\ n \in Nat \ {0} /\ a < Len(routes)
    BY <1>1
  <2>2. n * a \in Nat /\ n * a + n <= size
    <3> HIDE DEF a
    <3>1. n * a \in Nat
      BY <2>1
    <3>2. n * a + n <= n * Len(routes)
      BY <2>1, <1>1, ProductsGrow
    <3>3. QED
      BY <3>1, <3>2, <1>0
  <2>3. k \in 1 .. size /\ k - 1 = n * a + r
    <3> DEFINE p == n * a
    <3>1. p \in Nat /\ p + n <= size /\ k = p + r + 1
      BY <2>2
    <3> HIDE DEF p, k, r
    <3>2. k \in 1 .. size /\ k - 1 = p + r
      BY <3>1, <2>1, <1>1
    <3>3. QED
      BY <3>2 DEF p
  <2> HIDE DEF k
  <2>4. /\ quotient(k) \in Nat /\ remainder(k) \in 0 .. n - 1
        /\ n * quotient(k) + remainder(k) = n * a + r
    BY <2>3, <1>3
  <2> HIDE DEF a, r
  <2>5. quotient(k) = a /\ remainder(k) = r
    <3> HIDE DEF quotient, remainder
    <3>1. QED
      BY <2>1, <2>4, QuotientIsUnique
  <2>6. quotient(k) + 1 = i /\ remainder(k) + 1 = j
    BY <2>5 DEF a, r
  <2>7. QED
    BY <2>3, <2>6
<1> HIDE DEF quotient, remainder, pairs
<1>7. /\ pairs \in Seq([route : R, model : S]) /\ Len(pairs) = size
      /\ \A k \in 1 .. size :
            pairs[k] = Pair(routes[quotient(k) + 1], models[remainder(k) + 1])
  <2>1. \A k \in 1 .. size :
           Pair(routes[quotient(k) + 1], models[remainder(k) + 1]) \in [route : R, model : S]
    BY <1>5 DEF Pair, n
  <2> HIDE DEF Pair
  <2>2. QED
    BY <1>1, <1>2, <2>1
<1>8. NoneTwice(routes) /\ NoneTwice(models) => NoneTwice(pairs)
  <2> SUFFICES ASSUME NoneTwice(routes), NoneTwice(models), NEW k \in 1 .. size,
                      NEW l \in 1 .. size, pairs[k] = pairs[l]
               PROVE  k = l
    BY <1>7 DEF NoneTwice
  <2>1. /\ routes[quotient(k) + 1] = routes[quotient(l) + 1]
        /\ models[remainder(k) + 1] = models[remainder(l) + 1]
    BY <1>7 DEF Pair
  <2>2. /\ quotient(k) + 1 = quotient(l) + 1
        /\ remainder(k) + 1 = remainder(l) + 1
    BY <2>1, <1>5 DEF NoneTwice, n
  <2>3. /\ quotient(k) \in Nat /\ quotient(l) \in Nat
        /\ remainder(k) \in Nat /\ remainder(l) \in Nat
    BY <1>3, <1>1
  <2>4. quotient(k) = quotient(l) /\ remainder(k) = remainder(l)
    BY <2>2, <2>3
  <2>5. k - 1 = l - 1
    BY <2>4, <1>3
  <2>6. QED
    BY <2>5
<1>9. \A k \in 1 .. Len(pairs) : \E i \in 1 .. Len(routes), j \in 1 .. n :
         pairs[k] = Pair(routes[i], models[j])
  BY <1>5, <1>7
<1>10. \A i \in 1 .. Len(routes), j \in 1 .. n :
          \E k \in 1 .. Len(pairs) : pairs[k] = Pair(routes[i], models[j])
  BY <1>6, <1>7
<1>11. pairs = <<>> <=> routes = <<>> \/ models = <<>>
  <2>1. pairs = <<>> <=> size = 0
    BY <1>7
  <2>2. routes = <<>> <=> Len(routes) = 0
    OBVIOUS
  <2>3. models = <<>> <=> n = 0
    BY DEF n
  <2>4. QED
    BY <2>1, <2>2, <2>3, <1>1
<1>12. QED
  <2>1. pairs \in Seq([route : R, model : S]) /\ AllPairs(pairs, routes, models)
    BY <1>7, <1>8, <1>9, <1>10, <1>11 DEF AllPairs, n
  <2>2. QED
    BY <2>1 DEF pairs

(* What beats a pair costs no more; what does not, no less.                *)
LEMMA BeatsByCost ==
  ASSUME NEW p, NEW q, DerivePairCost(p) \in Int, DerivePairCost(q) \in Int
  PROVE  /\ Beats(p, q) => DerivePairCost(p) <= DerivePairCost(q)
         /\ ~Beats(p, q) => DerivePairCost(q) <= DerivePairCost(p)
BY DEF Beats

(* The pair selected is one of the pairs, and none of them costs less.     *)
LEMMA CheapestIsSelected ==
  ASSUME NEW S, \A p \in S : DerivePairCost(p) \in Int, NEW pairs \in Seq(S), pairs # <<>>
  PROVE  /\ \E k \in 1 .. Len(pairs) : SelectCheapestPair(pairs) = pairs[k]
         /\ \A k \in 1 .. Len(pairs) :
               DerivePairCost(SelectCheapestPair(pairs)) <= DerivePairCost(pairs[k])
<1> DEFINE n == Len(pairs)
           Entry(f, i) == IF i = 0 THEN pairs[1] ELSE Better(f[i - 1], pairs[i])
           IsTable(f) == f = [i \in 0 .. n |-> Entry(f, i)]
           F == CHOOSE f : IsTable(f)
<1> DEFINE base == pairs[1]
           step == [i \in 1 .. n |-> [best \in S |-> Better(best, pairs[i])]]
<1>1. n \in Nat \ {0} /\ base \in S /\ \A i \in 1 .. n : pairs[i] \in S
  OBVIOUS
<1>2. \A i \in 1 .. n : \A best \in S : Better(best, pairs[i]) \in S
  BY <1>1 DEF Better
<1>3. Loop(S, base, n, step)
  BY <1>1, <1>2 DEF Loop
<1>4. \A i \in 1 .. n : \A best \in S : step[i][best] = Better(best, pairs[i])
  OBVIOUS
<1>5. SelectCheapestPair(pairs) = F[n]
  BY DEF SelectCheapestPair
<1> HIDE DEF n, base, step
<1>6. PICK f \in [0 .. n -> S] :
        f[0] = pairs[1] /\ \A i \in 1 .. n : f[i] = Better(f[i - 1], pairs[i])
  <2>1. PICK f \in [0 .. n -> S] :
          f[0] = base /\ \A i \in 1 .. n : f[i] = step[i][f[i - 1]]
    BY <1>3, LoopHasATable
  <2>2. \A i \in 1 .. n : f[i - 1] \in S
    BY <1>1
  <2>3. QED
    BY <1>4, <2>1, <2>2 DEF base
<1>7. IsTable(f)
  <2>1. ASSUME NEW i \in 0 .. n
        PROVE  f[i] = Entry(f, i)
    <3>1. i = 0 \/ (i \in 1 .. n /\ i # 0)
      BY <1>1
    <3>2. QED
      BY <3>1, <1>6
  <2> HIDE DEF Entry
  <2>2. QED
    BY <2>1
<1>8. IsTable(F)
  <2> HIDE DEF IsTable
  <2>1. QED
    BY <1>7
<1>9. F[0] = pairs[1] /\ \A i \in 1 .. n : F[i] = Better(F[i - 1], pairs[i])
  <2> HIDE DEF F, Entry
  <2>1. \A i \in 0 .. n : F[i] = Entry(F, i)
    BY <1>8
  <2>2. 0 \in 0 .. n /\ \A i \in 1 .. n : i \in 0 .. n /\ i # 0
    BY <1>1
  <2>3. QED
    BY <2>1, <2>2 DEF Entry
<1> HIDE DEF F, IsTable, Entry
<1> DEFINE Good(best, i) == /\ \E k \in 1 .. n : best = pairs[k]
                            /\ \A k \in 1 .. i : DerivePairCost(best) <= DerivePairCost(pairs[k])
           Bad == {i \in 0 .. n : ~Good(F[i], i)}
<1>10. Bad = {}
  <2> SUFFICES ASSUME Bad # {} PROVE FALSE
    OBVIOUS
  <2>1. PICK i \in Bad : \A k \in Bad : i <= k
    <3>1. Bad \in SUBSET Nat
      BY <1>1
    <3> HIDE DEF Bad
    <3>2. QED
      BY <3>1, LeastElement
  <2>2. i # 0
    <3>1. Good(F[0], 0)
      <4>1. 1 \in 1 .. n
        BY <1>1
      <4>2. QED
        BY <4>1, <1>9
    <3> HIDE DEF Good
    <3>2. QED
      BY <2>1, <3>1
  <2>3. i \in 1 .. n /\ Good(F[i - 1], i - 1) /\ ~Good(F[i], i)
    <3> HIDE DEF Good
    <3>1. QED
      BY <2>1, <2>2, <1>1
  <2> DEFINE old == F[i - 1]
             new == F[i]
             one == pairs[i]
  <2>4. new = IF Beats(one, old) THEN one ELSE old
    BY <2>3, <1>9 DEF Better
  <2>5. (\E k \in 1 .. n : old = pairs[k]) /\ one \in S /\ \A k \in 1 .. n : pairs[k] \in S
    BY <2>3, <1>1
  <2>6. \A k \in 1 .. i - 1 : DerivePairCost(old) <= DerivePairCost(pairs[k])
    BY <2>3
  <2> HIDE DEF old, new, one
  <2>7. DerivePairCost(old) \in Int /\ DerivePairCost(one) \in Int
        /\ \A k \in 1 .. n : DerivePairCost(pairs[k]) \in Int
    BY <2>5
  <2>8. DerivePairCost(new) <= DerivePairCost(one) /\ DerivePairCost(new) <= DerivePairCost(old)
        /\ DerivePairCost(new) \in Int
    BY <2>4, <2>7, BeatsByCost
  <2>9. ASSUME NEW k \in 1 .. i
        PROVE  DerivePairCost(new) <= DerivePairCost(pairs[k])
    <3>1. CASE k = i
      BY <3>1, <2>8 DEF one
    <3>2. CASE k # i
      <4>1. k \in 1 .. i - 1 /\ k \in 1 .. n
        BY <3>2, <2>3, <1>1
      <4>2. QED
        BY <4>1, <2>6, <2>7, <2>8
    <3>3. QED
      BY <3>1, <3>2
  <2>10. \E k \in 1 .. n : new = pairs[k]
    BY <2>3, <2>4, <2>5 DEF one
  <2>11. QED
    BY <2>3, <2>9, <2>10 DEF new
<1>11. n \in 0 .. n
  BY <1>1
<1> HIDE DEF Good
<1>12. Good(SelectCheapestPair(pairs), n)
  BY <1>5, <1>10, <1>11
<1>13. QED
  BY <1>12 DEF Good, n

(* The chain holds other pairs than the selected one, none of them twice:  *)
(* first those on its route, then, where that is allowed, those on others. *)
LEMMA FallbackChainIsOrdered ==
  ASSUME NEW S, NEW pairs \in Seq(S), NoneTwice(pairs), NEW selected, NEW crossRoute \in BOOLEAN
  PROVE  LET chain == GenerateFallbackChain(selected, pairs, crossRoute)
             away(i) == chain[i].route.route_id # selected.route.route_id
         IN /\ DOMAIN chain = 1 .. Len(chain)
            /\ \A i \in 1 .. Len(chain) :
                 /\ \E k \in 1 .. Len(pairs) : chain[i] = pairs[k]
                 /\ chain[i] # selected
                 /\ away(i) => crossRoute
                 /\ \A j \in 1 .. Len(chain) :
                      i < j => (chain[i] # chain[j] /\ (away(i) => away(j)))
<1> DEFINE onRoute == {k \in DOMAIN pairs : pairs[k].route.route_id = selected.route.route_id}
           remaining == {k \in onRoute : pairs[k] # selected}
           others == DOMAIN pairs \ onRoute
           same == SelectAt(pairs, remaining)
           other == SelectAt(pairs, others)
           added == IF crossRoute THEN other ELSE <<>>
           chain == GenerateFallbackChain(selected, pairs, crossRoute)
           Away(p) == p.route.route_id # selected.route.route_id
<1>1. chain = same \o added
  BY DEF GenerateFallbackChain
<1>2. /\ remaining \in SUBSET (1 .. Len(pairs))
      /\ \A k \in remaining : ~Away(pairs[k]) /\ pairs[k] # selected
  OBVIOUS
<1>3. /\ others \in SUBSET (1 .. Len(pairs))
      /\ \A k \in others : Away(pairs[k]) /\ pairs[k] # selected
  OBVIOUS
<1> HIDE DEF remaining, others, onRoute, chain, Away
<1>4. /\ same \in Seq(S) /\ Len(same) \in Nat /\ NoneTwice(same)
      /\ \A l \in 1 .. Len(same) : \E k \in remaining : same[l] = pairs[k]
  <2>1. same \in Seq(S) /\ Filtered(same, pairs, remaining)
    BY <1>2, FilterKeeps
  <2>2. QED
    BY <2>1 DEF Filtered
<1>5. /\ other \in Seq(S) /\ Len(other) \in Nat /\ NoneTwice(other)
      /\ \A l \in 1 .. Len(other) : \E k \in others : other[l] = pairs[k]
  <2>1. other \in Seq(S) /\ Filtered(other, pairs, others)
    BY <1>3, FilterKeeps
  <2>2. QED
    BY <2>1 DEF Filtered
<1> HIDE DEF same, other
<1>6. \A l \in 1 .. Len(same) : /\ ~Away(same[l]) /\ same[l] # selected
                                /\ \E k \in 1 .. Len(pairs) : same[l] = pairs[k]
  <2> SUFFICES ASSUME NEW l \in 1 .. Len(same)
               PROVE  /\ ~Away(same[l]) /\ same[l] # selected
                      /\ \E k \in 1 .. Len(pairs) : same[l] = pairs[k]
    OBVIOUS
  <2>1. PICK k \in remaining : same[l] = pairs[k]
    BY <1>4
  <2>2. QED
    BY <2>1, <1>2
<1>7. \A l \in 1 .. Len(other) : /\ Away(other[l]) /\ other[l] # selected
                                 /\ \E k \in 1 .. Len(pairs) : other[l] = pairs[k]
  <2> SUFFICES ASSUME NEW l \in 1 .. Len(other)
               PROVE  /\ Away(other[l]) /\ other[l] # selected
                      /\ \E k \in 1 .. Len(pairs) : other[l] = pairs[k]
    OBVIOUS
  <2>1. PICK k \in others : other[l] = pairs[k]
    BY <1>5
  <2>2. QED
    BY <2>1, <1>3
<1>8. /\ added \in Seq(S) /\ Len(added) \in Nat /\ NoneTwice(added)
      /\ \A l \in 1 .. Len(added) : /\ crossRoute /\ Away(added[l]) /\ added[l] # selected
                                    /\ \E k \in 1 .. Len(pairs) : added[l] = pairs[k]
  <2>1. CASE crossRoute
    BY <2>1, <1>5, <1>7
  <2>2. CASE ~crossRoute
    BY <2>2 DEF NoneTwice
  <2>3. QED
    BY <2>1, <2>2
<1> HIDE DEF added
<1>9. /\ chain \in Seq(S) /\ Len(chain) = Len(same) + Len(added)
      /\ \A l \in 1 .. Len(same) : chain[l] = same[l]
      /\ \A l \in 1 .. Len(chain) : l > Len(same) =>
            l - Len(same) \in 1 .. Len(added) /\ chain[l] = added[l - Len(same)]
  BY <1>1, <1>4, <1>8
<1>10. ASSUME NEW i \in 1 .. Len(chain)
       PROVE  /\ \E k \in 1 .. Len(pairs) : chain[i] = pairs[k]
              /\ chain[i] # selected
              /\ Away(chain[i]) => crossRoute /\ i > Len(same)
              /\ i > Len(same) => Away(chain[i])
  <2>1. CASE i > Len(same)
    <3>1. PICK l \in 1 .. Len(added) : chain[i] = added[l]
      BY <2>1, <1>9
    <3>2. QED
      BY <3>1, <2>1, <1>8
  <2>2. CASE ~(i > Len(same))
    <3>1. i \in 1 .. Len(same)
      BY <2>2, <1>4
    <3>2. chain[i] = same[i]
      BY <3>1, <1>9
    <3>3. QED
      BY <3>1, <3>2, <2>2, <1>6
  <2>3. QED
    BY <2>1, <2>2
<1>11. ASSUME NEW i \in 1 .. Len(chain), NEW j \in 1 .. Len(chain), i < j
       PROVE  chain[i] # chain[j] /\ (Away(chain[i]) => Away(chain[j]))
  <2>1. CASE i > Len(same)
    <3>1. j > Len(same)
      BY <1>4, <1>11, <2>1
    <3> DEFINE a == i - Len(same)
               b == j - Len(same)
    <3>2. /\ a \in 1 .. Len(added) /\ b \in 1 .. Len(added)
          /\ chain[i] = added[a] /\ chain[j] = added[b]
      BY <2>1, <3>1, <1>9
    <3>3. a # b
      BY <1>4, <1>11
    <3> HIDE DEF a, b
    <3>4. added[a] # added[b]
      BY <3>2, <3>3, <1>8 DEF NoneTwice
    <3>5. QED
      BY <3>1, <3>2, <3>4, <1>10
  <2>2. CASE ~(i > Len(same)) /\ j > Len(same)
    <3>1. ~Away(chain[i])
      BY <2>2, <1>10
    <3>2. Away(chain[j])
      BY <2>2, <1>10
    <3>3. QED
      BY <3>1, <3>2
  <2>3. CASE ~(i > Len(same)) /\ ~(j > Len(same))
    <3>1. i \in 1 .. Len(same) /\ j \in 1 .. Len(same) /\ i # j
      BY <2>3, <1>4, <1>11
    <3>2. chain[i] = same[i] /\ chain[j] = same[j]
      BY <3>1, <1>9
    <3>3. same[i] # same[j]
      BY <3>1, <1>4 DEF NoneTwice
    <3>4. ~Away(chain[i])
      BY <2>3, <1>10
    <3>5. QED
      BY <3>2, <3>3, <3>4
  <2>4. QED
    BY <2>1, <2>2, <2>3
<1>12. DOMAIN chain = 1 .. Len(chain)
  BY <1>9
<1>13. QED
  BY <1>10, <1>11, <1>12 DEF chain, Away

(***************************************************************************)
(* The resolver.                                                           *)
(***************************************************************************)

Chained(chain, selected, crossRoute) ==
  LET away(i) == chain[i].route.route_id # selected.route.route_id
  IN \A i \in DOMAIN chain :
       /\ chain[i] # selected
       /\ away(i) => crossRoute
       /\ \A j \in DOMAIN chain : i < j => (chain[i] # chain[j] /\ (away(i) => away(j)))

ResolvedFrom(R, S, routes, models) ==
  /\ \A r \in R : r.completeness \in Nat /\ r.history \in Nat
  /\ \A m \in S : Graded(m)
  /\ routes \in Seq(R) /\ NoneTwice(routes)
  /\ models \in Seq(S) /\ NoneTwice(models)

(* What the resolver answers: where every model meets the floor, a pair    *)
(* that no other undercuts; and fallbacks that meet it in any case.        *)
LEMMA ResolverIsSound ==
  ASSUME NEW R, NEW S, NEW routes, NEW models, ResolvedFrom(R, S, routes, models),
         NEW floor, NEW crossRoute \in BOOLEAN
  PROVE  LET answer == ResolveExecutionSelection(routes, models, floor, crossRoute)
         IN /\ answer # Unresolved
            /\ answer # Failure =>
                 /\ Chained(answer.fallbacks, answer.selected, crossRoute)
                 /\ \A i \in DOMAIN answer.fallbacks : Meets(answer.fallbacks[i].model, floor)
            /\ routes = <<>> \/ models = <<>> => answer = Failure
            /\ (/\ routes # <<>> /\ models # <<>>
                /\ \A j \in 1 .. Len(models) : Meets(models[j], floor))
                 => /\ answer # Failure /\ DerivePairCost(answer.selected) \in Int
                    /\ \A i \in 1 .. Len(routes), j \in 1 .. Len(models) :
                         DerivePairCost(answer.selected)
                           <= DerivePairCost(Pair(routes[i], models[j]))
<1> DEFINE pairs == Pairs(routes, models)
           valid == ValidPairs(pairs, floor)
           meeting == {k \in DOMAIN pairs : Meets(pairs[k].model, floor)}
           selected == SelectCheapestPair(valid)
           chain == GenerateFallbackChain(selected, valid, crossRoute)
           answer == ResolveExecutionSelection(routes, models, floor, crossRoute)
           T == [route : R, model : S]
<1>1. answer = IF routes = <<>> \/ models = <<>> \/ valid = <<>> THEN Failure
               ELSE [selected |-> selected, fallbacks |-> chain]
  BY DEF ResolveExecutionSelection
<1>2. /\ pairs \in Seq(T) /\ NoneTwice(pairs)
      /\ \A k \in 1 .. Len(pairs) : \E i \in 1 .. Len(routes), j \in 1 .. Len(models) :
            pairs[k] = Pair(routes[i], models[j])
      /\ \A i \in 1 .. Len(routes), j \in 1 .. Len(models) :
            \E k \in 1 .. Len(pairs) : pairs[k] = Pair(routes[i], models[j])
      /\ pairs = <<>> <=> routes = <<>> \/ models = <<>>
  <2>1. routes \in Seq(R) /\ NoneTwice(routes) /\ models \in Seq(S) /\ NoneTwice(models)
    BY DEF ResolvedFrom
  <2> HIDE DEF valid, meeting, selected, chain, answer
  <2>2. pairs \in Seq(T) /\ AllPairs(pairs, routes, models)
    BY <2>1, PairsAreAll
  <2> HIDE DEF pairs, T
  <2>3. QED
    BY <2>1, <2>2 DEF AllPairs
<1>3. ASSUME NEW p \in T PROVE DerivePairCost(p) \in Int
  <2>1. /\ p.route.completeness \in Nat /\ p.route.history \in Nat
        /\ p.model.cost \in Int
    BY DEF Graded, Grades, ResolvedFrom
  <2>2. QED
    BY <2>1 DEF DerivePairCost
<1>4. valid = SelectAt(pairs, meeting)
  BY DEF ValidPairs
<1> HIDE DEF pairs, T, selected, chain, answer, valid
<1>5. /\ meeting \in SUBSET (1 .. Len(pairs))
      /\ \A k \in meeting : Meets(pairs[k].model, floor)
      /\ \A k \in 1 .. Len(pairs) : Meets(pairs[k].model, floor) => k \in meeting
  BY <1>2
<1> HIDE DEF meeting
<1>6. /\ valid \in Seq(T) /\ Len(valid) \in Nat /\ NoneTwice(valid)
      /\ \A l \in 1 .. Len(valid) : \E k \in meeting : valid[l] = pairs[k]
      /\ \A k \in meeting : \E l \in 1 .. Len(valid) : valid[l] = pairs[k]
  <2>1. valid \in Seq(T) /\ Filtered(valid, pairs, meeting)
    BY <1>2, <1>4, <1>5, FilterKeeps
  <2>2. QED
    BY <2>1, <1>2 DEF Filtered
<1>7. \A l \in 1 .. Len(valid) : Meets(valid[l].model, floor)
  BY <1>5, <1>6, Zenon
<1>8. answer # Unresolved
  BY <1>1 DEF Unresolved, Failure
<1>9. ASSUME answer # Failure
      PROVE  /\ answer.fallbacks = chain /\ answer.selected = selected
             /\ Chained(answer.fallbacks, answer.selected, crossRoute)
             /\ \A i \in DOMAIN answer.fallbacks : Meets(answer.fallbacks[i].model, floor)
  <2>1. answer.fallbacks = chain /\ answer.selected = selected
    BY <1>1, <1>9
  <2> DEFINE away(i) == chain[i].route.route_id # selected.route.route_id
  <2>2. /\ DOMAIN chain = 1 .. Len(chain)
        /\ \A i \in 1 .. Len(chain) :
             /\ \E k \in 1 .. Len(valid) : chain[i] = valid[k]
             /\ chain[i] # selected
             /\ away(i) => crossRoute
             /\ \A j \in 1 .. Len(chain) :
                  i < j => (chain[i] # chain[j] /\ (away(i) => away(j)))
    BY <1>6, FallbackChainIsOrdered DEF chain
  <2>3. Chained(chain, selected, crossRoute)
    BY <2>2, Zenon DEF Chained
  <2>4. \A i \in DOMAIN chain : Meets(chain[i].model, floor)
    BY <2>2, <1>7, Zenon
  <2>5. QED
    BY <2>1, <2>3, <2>4
<1>10. ASSUME routes # <<>>, models # <<>>, \A j \in 1 .. Len(models) : Meets(models[j], floor)
       PROVE  /\ answer # Failure /\ DerivePairCost(answer.selected) \in Int
              /\ \A i \in 1 .. Len(routes), j \in 1 .. Len(models) :
                   DerivePairCost(answer.selected) <= DerivePairCost(Pair(routes[i], models[j]))
  <2>1. \A k \in 1 .. Len(pairs) : k \in meeting
    <3> SUFFICES ASSUME NEW k \in 1 .. Len(pairs) PROVE k \in meeting
      OBVIOUS
    <3>1. PICK i \in 1 .. Len(routes), j \in 1 .. Len(models) :
             pairs[k] = Pair(routes[i], models[j])
      BY <1>2
    <3>2. pairs[k].model = models[j]
      BY <3>1 DEF Pair
    <3>3. QED
      BY <3>2, <1>5, <1>10
  <2>2. valid # <<>>
    <3>1. 1 \in 1 .. Len(pairs)
      BY <1>2, <1>10
    <3>2. PICK l \in 1 .. Len(valid) : valid[l] = pairs[1]
      BY <3>1, <2>1, <1>6
    <3>3. QED
      BY <3>2, <1>6
  <2>3. answer # Failure
    BY <1>1, <1>10, <2>2 DEF Failure
  <2>4. \A l \in 1 .. Len(valid) : DerivePairCost(selected) <= DerivePairCost(valid[l])
    BY <1>3, <1>6, <2>2, CheapestIsSelected DEF selected
  <2>5. ASSUME NEW i \in 1 .. Len(routes), NEW j \in 1 .. Len(models)
        PROVE  DerivePairCost(answer.selected) <= DerivePairCost(Pair(routes[i], models[j]))
    <3>1. PICK k \in 1 .. Len(pairs) : pairs[k] = Pair(routes[i], models[j])
      BY <1>2
    <3>2. PICK l \in 1 .. Len(valid) : valid[l] = pairs[k]
      BY <2>1, <1>6
    <3>3. QED
      BY <3>1, <3>2, <2>3, <2>4, <1>9
  <2>6. DerivePairCost(selected) \in Int
    <3>1. PICK l \in 1 .. Len(valid) : selected = valid[l]
      BY <1>3, <1>6, <2>2, CheapestIsSelected DEF selected
    <3>2. valid[l] \in T
      BY <1>6
    <3>3. QED
      BY <3>1, <3>2, <1>3
  <2>7. QED
    BY <2>3, <2>5, <2>6, <1>9
<1>11. QED
  BY <1>1, <1>8, <1>9, <1>10 DEF answer

(***************************************************************************)
(* The selection of a request.                                             *)
(***************************************************************************)

(* What is asked for does not change; what is answered was resolved from   *)
(* it with some of its models, the first time with all of them.            *)
SelectionInv ==
  /\ asked \in [registry : Registries, routes : RouteChoices, evaluated : Floors,
                required : Floors, crossRoute : BOOLEAN]
  /\ ValidRegistry(asked.registry) /\ Offerable(asked.routes)
  /\ taskVersion \in Nat \ {0}
  /\ \/ resolution = Unresolved
     \/ \E available \in SUBSET Ids(asked.registry) :
          /\ resolution = Resolution(available)
          /\ taskVersion = 1 => available = Ids(asked.registry)

LEMMA SelectionInvInitially ==
  SelectionInit => SelectionInv
BY DEF SelectionInit, SelectionInv

LEMMA SelectionInvStep ==
  SelectionInv /\ [SelectionNext]_selectionVars => SelectionInv'
<1> SUFFICES ASSUME SelectionInv, [SelectionNext]_selectionVars
             PROVE  SelectionInv'
  OBVIOUS
<1>1. UNCHANGED asked
  BY DEF SelectionNext, ResolveSelection, Integrate, SelectTaskRoute, RouteWithSelection, OtherMutation,
     selectionVars
<1>2. CASE ResolveSelection
  <2>1. PICK gone \in IF taskVersion = 1 THEN {{}} ELSE {{}, {asked.registry[1].id}} :
           resolution' = Resolution(Ids(asked.registry) \ gone)
    BY <1>2 DEF ResolveSelection
  <2>2. PICK available \in SUBSET Ids(asked.registry) :
           /\ resolution' = Resolution(available)
           /\ taskVersion = 1 => available = Ids(asked.registry)
    BY <2>1
  <2>3. resolution' = Resolution(available)' /\ UNCHANGED taskVersion
    BY <2>2, <1>1, <1>2 DEF Resolution, ResolveSelection
  <2>4. QED
    BY <2>2, <2>3, <1>1 DEF SelectionInv, Ids
<1>3. CASE Integrate \/ SelectTaskRoute \/ OtherMutation
  <2>1. UNCHANGED resolution /\ taskVersion' \in Nat \ {0, 1} /\ resolution # Unresolved
    BY <1>3 DEF Integrate, SelectTaskRoute, RouteWithSelection, OtherMutation, SelectionInv, Resolved
  <2>2. PICK available \in SUBSET Ids(asked.registry) : resolution = Resolution(available)
    BY <2>1 DEF SelectionInv
  <2>3. resolution' = Resolution(available)'
    BY <2>1, <2>2, <1>1 DEF Resolution
  <2>4. QED
    BY <2>1, <2>2, <2>3, <1>1 DEF SelectionInv, Ids
<1>4. CASE UNCHANGED selectionVars
  <2>1. UNCHANGED <<asked, resolution, taskVersion>>
    BY <1>4 DEF selectionVars
  <2>2. ASSUME NEW available PROVE Resolution(available)' = Resolution(available)
    BY <2>1 DEF Resolution
  <2>3. QED
    BY <2>1, <2>2 DEF SelectionInv, Ids
<1>5. QED
  BY <1>2, <1>3, <1>4 DEF SelectionNext

(* Facts that do not contradict a profile narrow it, in every dimension.   *)
LEMMA NarrowingIsWarranted ==
  ASSUME NEW id \in DOMAIN RouteProfiles, NEW facts \in Facts,
         ~Contradicts(RouteProfiles[id], facts)
  PROVE  LET p == RouteProfiles[id]
             r == DeriveEffectiveRouteCapabilities(id, facts)
             warranted == CASE facts.surface = 0 -> 0
                            [] facts.surface = DiffOnly -> 2
                            [] OTHER -> 1
         IN /\ r.route_id = id
            /\ r.completeness \in Nat /\ r.history \in Nat
            /\ r.completeness >= facts.surface /\ r.completeness >= p.kind
            /\ r.history >= facts.history /\ r.locality >= facts.binding
            /\ r.ceiling >= p.ceiling /\ r.ceiling >= warranted
            /\ "repository_review" \in r.classes => r.completeness = 0
<1> DEFINE p == RouteProfiles[id]
           r == DeriveEffectiveRouteCapabilities(id, facts)
<1>1. facts.surface \in 0 .. 3 /\ facts.history \in 0 .. 3 /\ facts.binding \in 0 .. 3
  BY DEF Facts, DiffOnly
<1>2. /\ p.kind \in 0 .. 3 /\ p.history \in 0 .. 3 /\ p.locality \in 0 .. 3
      /\ p.ceiling \in 0 .. 2
      /\ "repository_review" \in p.classes => p.kind = 0
  BY DEF RouteProfiles, Profile
<1>3. /\ r.route_id = id
      /\ r.completeness = NarrowTo(p.kind, facts.surface)
      /\ r.history = NarrowTo(p.history, facts.history)
      /\ r.locality = NarrowTo(p.locality, facts.binding)
      /\ r.ceiling = NarrowVerificationCeiling(p.ceiling, facts.surface)
      /\ r.classes = NarrowAllowedTaskClasses(p.classes, facts.surface)
  BY DEF DeriveEffectiveRouteCapabilities
<1> HIDE DEF p, r
<1>4. /\ r.completeness \in Nat /\ r.history \in Nat
      /\ r.completeness >= facts.surface /\ r.completeness >= p.kind
      /\ r.history >= facts.history /\ r.locality >= facts.binding
  BY <1>1, <1>2, <1>3 DEF NarrowTo
<1>5. /\ r.ceiling >= p.ceiling
      /\ r.ceiling >= CASE facts.surface = 0 -> 0
                        [] facts.surface = DiffOnly -> 2
                        [] OTHER -> 1
  <2>1. r.ceiling = CASE facts.surface = 3 -> 2
                      [] facts.surface \in {1, 2} -> IF p.ceiling = 0 THEN 1 ELSE p.ceiling
                      [] OTHER -> p.ceiling
    BY <1>3 DEF NarrowVerificationCeiling, DiffOnly
  <2>2. CASE facts.surface = 0
    BY <2>1, <2>2, <1>2 DEF DiffOnly
  <2>3. CASE facts.surface = 3
    BY <2>1, <2>3, <1>2 DEF DiffOnly
  <2>4. CASE facts.surface \in {1, 2}
    BY <2>1, <2>4, <1>2 DEF DiffOnly
  <2>5. QED
    BY <1>1, <2>2, <2>3, <2>4
<1>6. "repository_review" \in r.classes => r.completeness = 0
  BY <1>1, <1>2, <1>3 DEF NarrowTo, NarrowAllowedTaskClasses
<1>7. QED
  BY <1>3, <1>4, <1>5, <1>6 DEF p, r

(* The routes offered have graded capabilities, and none is offered twice. *)
LEMMA RoutesAreOfferedOnce ==
  ASSUME NEW choices \in RouteChoices, Offerable(choices)
  PROVE  \E R : /\ \A r \in R : r.completeness \in Nat /\ r.history \in Nat
                /\ OfferedRoutes(choices) \in Seq(R) /\ NoneTwice(OfferedRoutes(choices))
<1> DEFINE Effective(i) == DeriveEffectiveRouteCapabilities(choices[i].id, choices[i].facts)
           offered == OfferedRoutes(choices)
           n == Len(choices)
           R == {Effective(i) : i \in 1 .. n}
<1>1. /\ n \in Nat /\ DOMAIN choices = 1 .. n
      /\ \A i \in 1 .. n : choices[i].id \in DOMAIN RouteProfiles /\ choices[i].facts \in Facts
      /\ \A i, j \in 1 .. n : choices[i].id = choices[j].id => i = j
  <2>1. /\ choices \in Seq([id : DOMAIN RouteProfiles, facts : Facts])
        /\ \A i, j \in DOMAIN choices : choices[i].id = choices[j].id => i = j
    BY RouteChoicesAssumption
  <2>2. n \in Nat /\ DOMAIN choices = 1 .. n
    BY <2>1
  <2>3. ASSUME NEW i \in 1 .. n
        PROVE  choices[i].id \in DOMAIN RouteProfiles /\ choices[i].facts \in Facts
    <3> DEFINE T == [id : DOMAIN RouteProfiles, facts : Facts]
    <3>1. choices \in Seq(T)
      BY <2>1
    <3>2. choices[i] \in T
      <4> HIDE DEF T
      <4>1. QED
        BY <3>1
    <3>3. QED
      BY <3>2
  <2> HIDE DEF n
  <2>4. QED
    BY <2>1, <2>2, <2>3
<1>2. offered = [i \in 1 .. n |-> Effective(i)]
  BY <1>1 DEF OfferedRoutes
<1>3. \A i \in 1 .. n : /\ Effective(i).route_id = choices[i].id
                        /\ Effective(i).completeness \in Nat /\ Effective(i).history \in Nat
  <2> SUFFICES ASSUME NEW i \in 1 .. n
               PROVE  /\ Effective(i).route_id = choices[i].id
                      /\ Effective(i).completeness \in Nat /\ Effective(i).history \in Nat
    OBVIOUS
  <2>1. ~Contradicts(RouteProfiles[choices[i].id], choices[i].facts)
    BY <1>1 DEF Offerable
  <2>2. QED
    BY <1>1, <2>1, NarrowingIsWarranted
<1> HIDE DEF Effective, offered, n
<1>4. offered \in Seq(R) /\ Len(offered) = n /\ \A i \in 1 .. n : offered[i] = Effective(i)
  BY <1>1, <1>2
<1>5. NoneTwice(offered)
  BY <1>1, <1>3, <1>4 DEF NoneTwice
<1>6. QED
  BY <1>3, <1>4, <1>5 DEF offered

LEMMA RegistriesAreGraded ==
  ASSUME NEW registry, ValidRegistry(registry)
  PROVE  registry \in Seq(ModelPaths) /\ NoneTwice(registry) /\ \A m \in ModelPaths : Graded(m)
<1>1. /\ registry \in Seq(ModelPaths)
      /\ \A i, j \in DOMAIN registry : registry[i].id = registry[j].id => i = j
  BY DEF ValidRegistry
<1>2. NoneTwice(registry)
  <2>1. DOMAIN registry = 1 .. Len(registry)
    BY <1>1
  <2>2. QED
    BY <1>1, <2>1, Zenon DEF NoneTwice
<1>3. ASSUME NEW m \in ModelPaths PROVE Graded(m)
  BY DEF ModelPaths, Graded
<1>4. QED
  BY <1>1, <1>2, <1>3

(* On one route, the pair of the cheaper model is the cheaper one.         *)
LEMMA CheaperModelsMakeCheaperPairs ==
  ASSUME NEW r, NEW a, NEW b, r.completeness \in Int, r.history \in Int,
         a.cost \in Int, b.cost \in Int, a.cost <= b.cost
  PROVE  /\ DerivePairCost(Pair(r, a)) <= DerivePairCost(Pair(r, b))
         /\ DerivePairCost(Pair(r, a)) \in Int /\ DerivePairCost(Pair(r, b)) \in Int
<1> DEFINE extra == r.completeness * 100 + r.history * 10
                      + (IF r.completeness = DiffOnly THEN 0 ELSE 1)
<1>1. extra \in Int
  OBVIOUS
<1>2. /\ Pair(r, a).route = r /\ Pair(r, a).model = a
      /\ Pair(r, b).route = r /\ Pair(r, b).model = b
  BY DEF Pair
<1>3. DerivePairCost(Pair(r, a)) = a.cost * 1000 + extra
  BY <1>2 DEF DerivePairCost
<1>4. DerivePairCost(Pair(r, b)) = b.cost * 1000 + extra
  BY <1>2 DEF DerivePairCost
<1> HIDE DEF extra
<1>5. QED
  BY <1>1, <1>3, <1>4

(* Whatever models are available, the fallbacks fit the selection; with    *)
(* the floor of the evaluator no lower than the resolver's, no pair of an  *)
(* available admissible model undercuts it.                                *)
LEMMA ResolutionIsSound ==
  ASSUME SelectionInv, NEW available
  PROVE  LET answer == Resolution(available)
             admissible == Admissible(asked.registry, AllowedModes, asked.evaluated, available)
             pairs == Pairs(OfferedRoutes(asked.routes), admissible)
         IN /\ answer # Unresolved
            /\ answer # Failure =>
                 /\ Chained(answer.fallbacks, answer.selected, asked.crossRoute)
                 /\ \A i \in DOMAIN answer.fallbacks :
                       Meets(answer.fallbacks[i].model, asked.required)
            /\ (/\ asked.evaluated.tier >= asked.required.tier
                /\ asked.evaluated.reliability >= asked.required.reliability)
                 => IF pairs = <<>> THEN answer = Failure
                    ELSE /\ answer # Failure
                         /\ \A i \in DOMAIN pairs :
                              DerivePairCost(answer.selected) <= DerivePairCost(pairs[i])
<1> DEFINE routes == OfferedRoutes(asked.routes)
           S == ModelPaths
           registry == asked.registry
           floor == asked.evaluated
           admissible == Admissible(registry, AllowedModes, floor, available)
           models == EvaluateModelPaths(registry, AllowedModes, floor, available)
           pairs == Pairs(routes, admissible)
           answer == Resolution(available)
<1>1. PICK R : /\ \A r \in R : r.completeness \in Nat /\ r.history \in Nat
               /\ routes \in Seq(R) /\ NoneTwice(routes)
  <2>1. asked.routes \in RouteChoices /\ Offerable(asked.routes)
    BY DEF SelectionInv
  <2>2. QED
    BY <2>1, RoutesAreOfferedOnce
<1>2. registry \in Seq(S) /\ NoneTwice(registry) /\ \A m \in S : Graded(m)
  BY RegistriesAreGraded DEF SelectionInv
<1>3. /\ asked.crossRoute \in BOOLEAN
      /\ floor \in [tier : Grades, reliability : Grades]
      /\ asked.required \in [tier : Grades, reliability : Grades]
  BY FloorsAssumption DEF SelectionInv
<1>4. answer = ResolveExecutionSelection(routes, models, asked.required, asked.crossRoute)
  BY DEF Resolution
<1> HIDE DEF routes, S, registry, floor, admissible, models, pairs, answer
<1>5. /\ admissible \in Seq(S) /\ models \in Seq(S)
      /\ \A i \in 1 .. Len(admissible) : Meets(admissible[i], floor)
      /\ Represents(models, admissible, Len(admissible))
  BY <1>2, EvaluationRepresents DEF admissible, models
<1>6. ResolvedFrom(R, S, routes, models)
  BY <1>1, <1>2, <1>5 DEF ResolvedFrom, Represents
<1>7. /\ answer # Unresolved
      /\ answer # Failure =>
           /\ Chained(answer.fallbacks, answer.selected, asked.crossRoute)
           /\ \A i \in DOMAIN answer.fallbacks : Meets(answer.fallbacks[i].model, asked.required)
      /\ routes = <<>> \/ models = <<>> => answer = Failure
      /\ (/\ routes # <<>> /\ models # <<>>
          /\ \A j \in 1 .. Len(models) : Meets(models[j], asked.required))
           => /\ answer # Failure /\ DerivePairCost(answer.selected) \in Int
              /\ \A i \in 1 .. Len(routes), j \in 1 .. Len(models) :
                   DerivePairCost(answer.selected) <= DerivePairCost(Pair(routes[i], models[j]))
  BY <1>3, <1>4, <1>6, ResolverIsSound
<1>8. ASSUME floor.tier >= asked.required.tier, floor.reliability >= asked.required.reliability
      PROVE  IF pairs = <<>> THEN answer = Failure
             ELSE /\ answer # Failure
                  /\ \A i \in DOMAIN pairs :
                       DerivePairCost(answer.selected) <= DerivePairCost(pairs[i])
  <2>1. AllPairs(pairs, routes, admissible) /\ DOMAIN pairs = 1 .. Len(pairs)
    <3>1. pairs \in Seq([route : R, model : S]) /\ AllPairs(pairs, routes, admissible)
      BY <1>1, <1>5, PairsAreAll DEF pairs
    <3>2. QED
      BY <3>1
  <2>2. \A j \in 1 .. Len(models) : \E k \in 1 .. Len(admissible) : models[j] = admissible[k]
    BY <1>5 DEF Represents
  <2>3. \A k \in 1 .. Len(admissible) : \E j \in 1 .. Len(models) :
           models[j].cost <= admissible[k].cost
    BY <1>5 DEF Represents
  <2>4. admissible = <<>> => models = <<>>
    BY <2>2, <1>5
  <2>5. admissible # <<>> => models # <<>>
    BY <2>3, <1>5
  <2>6. \A j \in 1 .. Len(models) : Meets(models[j], asked.required)
    <3> SUFFICES ASSUME NEW j \in 1 .. Len(models) PROVE Meets(models[j], asked.required)
      OBVIOUS
    <3>1. Meets(models[j], floor)
      BY <1>5, <2>2
    <3>2. Graded(models[j])
      BY <1>2, <1>5
    <3>3. QED
      BY <3>1, <3>2, <1>3, <1>8 DEF Meets, Graded, Grades
  <2>7. CASE pairs = <<>>
    <3>1. routes = <<>> \/ admissible = <<>>
      BY <2>1, <2>7 DEF AllPairs
    <3>2. QED
      BY <3>1, <2>4, <2>7, <1>7
  <2>8. CASE pairs # <<>>
    <3>1. routes # <<>> /\ models # <<>>
      BY <2>1, <2>5, <2>8 DEF AllPairs
    <3>2. /\ answer # Failure /\ DerivePairCost(answer.selected) \in Int
          /\ \A i \in 1 .. Len(routes), j \in 1 .. Len(models) :
                DerivePairCost(answer.selected) <= DerivePairCost(Pair(routes[i], models[j]))
      BY <3>1, <2>6, <1>7
    <3>3. ASSUME NEW k \in 1 .. Len(pairs)
          PROVE  DerivePairCost(answer.selected) <= DerivePairCost(pairs[k])
      <4>1. PICK i \in 1 .. Len(routes), l \in 1 .. Len(admissible) :
               pairs[k] = Pair(routes[i], admissible[l])
        BY <2>1 DEF AllPairs
      <4>2. PICK j \in 1 .. Len(models) : models[j].cost <= admissible[l].cost
        BY <2>3
      <4>3. DerivePairCost(answer.selected) <= DerivePairCost(Pair(routes[i], models[j]))
        BY <3>2
      <4>4. /\ DerivePairCost(Pair(routes[i], models[j]))
                 <= DerivePairCost(Pair(routes[i], admissible[l]))
            /\ DerivePairCost(Pair(routes[i], models[j])) \in Int
            /\ DerivePairCost(Pair(routes[i], admissible[l])) \in Int
        <5>1. /\ models[j].cost \in Int /\ admissible[l].cost \in Int
              /\ routes[i].completeness \in Int /\ routes[i].history \in Int
          BY <1>1, <1>2, <1>5 DEF Graded, Grades
        <5>2. QED
          BY <5>1, <4>2, CheaperModelsMakeCheaperPairs
      <4>5. DerivePairCost(answer.selected) <= DerivePairCost(Pair(routes[i], admissible[l]))
        BY <3>2, <4>3, <4>4
      <4>6. QED
        BY <4>1, <4>5
    <3>4. QED
      BY <3>2, <3>3, <2>1, <2>8
  <2>9. QED
    BY <2>7, <2>8
<1>9. QED
  BY <1>7, <1>8 DEF answer, pairs, admissible, routes, registry, floor

(* What was resolved with all the models is the cheapest of them.          *)
LEMMA InvSelectsTheCheapest ==
  ASSUME SelectionInv
  PROVE  SelectionIsTheCheapest
<1>1. CASE resolution # Unresolved /\ taskVersion = 1
  <2>1. resolution = Resolution(Ids(asked.registry))
    BY <1>1 DEF SelectionInv
  <2> DEFINE admissible == Admissible(asked.registry, AllowedModes, asked.evaluated,
                                      Ids(asked.registry))
             pairs == Pairs(OfferedRoutes(asked.routes), admissible)
  <2>2. (/\ asked.evaluated.tier >= asked.required.tier
         /\ asked.evaluated.reliability >= asked.required.reliability)
          => IF pairs = <<>> THEN resolution = Failure
             ELSE /\ resolution # Failure
                  /\ \A i \in DOMAIN pairs :
                       DerivePairCost(resolution.selected) <= DerivePairCost(pairs[i])
    BY <2>1, ResolutionIsSound, Zenon
  <2> HIDE DEF pairs, admissible
  <2>3. QED
    BY <2>2, Zenon DEF SelectionIsTheCheapest, pairs, admissible
<1>2. CASE ~(resolution # Unresolved /\ taskVersion = 1)
  BY <1>2 DEF SelectionIsTheCheapest
<1>3. QED
  BY <1>1, <1>2

(* Whatever was resolved, each fallback meets the floor and has its place. *)
LEMMA InvFallbacksServe ==
  ASSUME SelectionInv
  PROVE  FallbacksCanServe
<1> SUFFICES ASSUME Resolved PROVE FallbacksCanServe
  BY DEF FallbacksCanServe
<1>1. PICK available : resolution = Resolution(available)
  BY DEF SelectionInv, Resolved
<1>2. resolution # Failure
  BY DEF Resolved
<1>3. /\ Chained(resolution.fallbacks, resolution.selected, asked.crossRoute)
      /\ \A i \in DOMAIN resolution.fallbacks :
            Meets(resolution.fallbacks[i].model, asked.required)
  BY <1>1, <1>2, ResolutionIsSound, Zenon
<1>4. QED
  BY <1>3 DEF FallbacksCanServe, Chained

(* The routes offered are narrowed from their profiles.                    *)
LEMMA InvOffersTheWarranted ==
  ASSUME SelectionInv
  PROVE  NoCapabilityBeyondTheEvidence
<1>1. asked.routes \in RouteChoices /\ Offerable(asked.routes)
  BY DEF SelectionInv
<1>2. ASSUME NEW i \in DOMAIN asked.routes
      PROVE  /\ asked.routes[i].id \in DOMAIN RouteProfiles
             /\ asked.routes[i].facts \in Facts
             /\ ~Contradicts(RouteProfiles[asked.routes[i].id], asked.routes[i].facts)
             /\ OfferedRoutes(asked.routes)[i]
                  = DeriveEffectiveRouteCapabilities(asked.routes[i].id, asked.routes[i].facts)
  <2> DEFINE T == [id : DOMAIN RouteProfiles, facts : Facts]
  <2>1. asked.routes \in Seq(T)
    BY <1>1, RouteChoicesAssumption
  <2>2. asked.routes[i] \in T
    <3> HIDE DEF T
    <3>1. QED
      BY <2>1
  <2>3. ~Contradicts(RouteProfiles[asked.routes[i].id], asked.routes[i].facts)
    BY <1>1 DEF Offerable
  <2>4. OfferedRoutes(asked.routes)[i]
          = DeriveEffectiveRouteCapabilities(asked.routes[i].id, asked.routes[i].facts)
    BY DEF OfferedRoutes
  <2>5. QED
    BY <2>2, <2>3, <2>4
<1>3. QED
  BY <1>2, NarrowingIsWarranted DEF NoCapabilityBeyondTheEvidence

(* No model of the registry undercuts what is selected, though the         *)
(* evaluator shows the resolver three models at most; each fallback meets  *)
(* the floor and has its place; no route claims more than was observed.    *)
THEOREM TheSelectionIsSound == SelectionSpec => []SelectionIsSound
<1>1. SelectionInv => SelectionIsSound
  BY InvSelectsTheCheapest, InvFallbacksServe, InvOffersTheWarranted DEF SelectionIsSound
<1>2. QED
  BY <1>1, SelectionInvInitially, SelectionInvStep, PTL DEF SelectionSpec

(***************************************************************************)
(* Policies.                                                               *)
(***************************************************************************)

IsPolicy(pol) ==
  /\ pol.mode \in Modes
  /\ IsLayer(pol.budget)
  /\ IsLayer([planner_rules |-> pol.planner_rules])

LEMMA LayersMerge ==
  ASSUME NEW upper, NEW lower, IsLayer(upper), IsLayer(lower)
  PROVE  IsLayer(Over(upper, lower))
<1> DEFINE both == Over(upper, lower)
<1>1. /\ DOMAIN both = DOMAIN upper \cup DOMAIN lower
      /\ \A k \in DOMAIN both : both[k] = IF k \in DOMAIN upper THEN upper[k] ELSE lower[k]
  BY DEF Over
<1> HIDE DEF both
<1>2. \A k \in DOMAIN both \cap CAP_KEYS : both[k] \in Nat
  BY <1>1 DEF IsLayer
<1>3. \A k \in DOMAIN both \cap {"preferred_model_tier", "minimum_model_tier"} : both[k] \in Tiers
  BY <1>1 DEF IsLayer
<1>4. "mode" \in DOMAIN both => both.mode \in Modes
  BY <1>1 DEF IsLayer
<1>5. "planner_rules" \in DOMAIN both =>
        \/ "planner_rules" \in DOMAIN upper /\ both.planner_rules = upper.planner_rules
        \/ "planner_rules" \in DOMAIN lower /\ both.planner_rules = lower.planner_rules
  BY <1>1
<1>6. "planner_rules" \in DOMAIN both =>
        \A class \in DOMAIN both.planner_rules :
          LET rule == both.planner_rules[class]
          IN /\ "ceiling_ratio" \in DOMAIN rule => rule.ceiling_ratio \in 1 .. 100
             /\ "rule_tier" \in DOMAIN rule => rule.rule_tier \in Tiers
  BY <1>5 DEF IsLayer
<1>7. IsLayer(both)
  BY <1>2, <1>3, <1>4, <1>6 DEF IsLayer
<1>8. QED
  BY <1>7 DEF both

(* What the route narrows is no more than what the merged layers say.      *)
LEMMA NarrowedCapsFit ==
  ASSUME NEW key \in CAP_KEYS, NEW current \in Nat, NEW said \in Nat
  PROVE  Narrow(key, current, said) \in Nat /\ Narrow(key, current, said) <= current
         /\ Narrow(key, current, said) <= said
<1>1. Narrow(key, current, said) = Lesser(current, said)
  BY DEF Narrow, CAP_KEYS
<1>2. QED
  BY <1>1 DEF Lesser

LEMMA NarrowedBudgetsAreLayers ==
  ASSUME NEW base, NEW route, IsLayer(base), IsLayer(route), NEW own \in SUBSET DOMAIN base,
         "planner_rules" \notin own
  PROVE  IsLayer([k \in own |-> IF k \in DOMAIN route THEN Narrow(k, base[k], route[k])
                                ELSE base[k]])
<1> DEFINE budget == [k \in own |-> IF k \in DOMAIN route THEN Narrow(k, base[k], route[k])
                                    ELSE base[k]]
<1>1. /\ DOMAIN budget = own
      /\ \A k \in own : budget[k] = IF k \in DOMAIN route THEN Narrow(k, base[k], route[k])
                                    ELSE base[k]
  OBVIOUS
<1> HIDE DEF budget
<1>2. ASSUME NEW k \in own \cap CAP_KEYS
      PROVE  budget[k] \in Nat
  <2>1. base[k] \in Nat /\ (k \in DOMAIN route => route[k] \in Nat)
    BY DEF IsLayer
  <2>2. QED
    BY <1>1, <2>1, NarrowedCapsFit
<1>3. ASSUME NEW k \in own \cap {"preferred_model_tier", "minimum_model_tier"}
      PROVE  budget[k] \in Tiers
  <2>1. base[k] \in Tiers /\ (k \in DOMAIN route => route[k] \in Tiers)
    BY DEF IsLayer
  <2>2. k \notin CAP_KEYS
    BY DEF CAP_KEYS
  <2>3. QED
    BY <1>1, <2>1, <2>2 DEF Narrow, Lesser, Greater, Tiers
<1>4. "mode" \in own => budget["mode"] \in Modes
  <2>1. "mode" \in own => base["mode"] \in Modes
    BY DEF IsLayer
  <2>2. "mode" \notin CAP_KEYS
    BY DEF CAP_KEYS
  <2>3. \A said : Narrow("mode", base["mode"], said) = base["mode"]
    BY <2>2 DEF Narrow
  <2>4. QED
    BY <1>1, <2>1, <2>3
<1>5. IsLayer(budget)
  BY <1>1, <1>2, <1>3, <1>4 DEF IsLayer
<1>6. QED
  BY <1>5 DEF budget

LEMMA ResolvedPolicyIsOne ==
  ASSUME NEW machine, NEW skill, NEW project, NEW route,
         IsLayer(machine), IsLayer(skill), IsLayer(project), IsLayer(route)
  PROVE  IsPolicy(ResolveExecutionPolicy(machine, skill, project, route))
<1> DEFINE base == Merged(machine, skill, project)
           all == Over(route, base)
           own == DOMAIN base \ {"planner_rules", "fallback_ladder"}
           budget == [k \in own |-> IF k \in DOMAIN route THEN Narrow(k, base[k], route[k])
                                    ELSE base[k]]
           pol == ResolveExecutionPolicy(machine, skill, project, route)
<1>1. IsLayer(base)
  BY LayersMerge DEF Merged
<1>2. pol = [mode |-> Get(route, "mode", Get(base, "mode", "subscription")),
                budget |-> budget,
                planner_rules |-> Get(all, "planner_rules", <<>>),
                fallback_ladder |-> Get(all, "fallback_ladder", "default")]
  BY DEF ResolveExecutionPolicy
<1> HIDE DEF base, pol
<1>3. IsLayer(all)
  BY <1>1, LayersMerge
<1>4. IsLayer(budget)
  BY <1>1, NarrowedBudgetsAreLayers
<1> HIDE DEF budget, all
<1>5. Get(route, "mode", Get(base, "mode", "subscription")) \in Modes
  BY <1>1 DEF Get, IsLayer, Modes
<1>6. IsLayer([planner_rules |-> Get(all, "planner_rules", <<>>)])
  <2> DEFINE rules == Get(all, "planner_rules", <<>>)
  <2>1. \/ rules = all.planner_rules /\ "planner_rules" \in DOMAIN all
        \/ DOMAIN rules = {}
    BY DEF Get
  <2>2. \A class \in DOMAIN rules :
          LET rule == rules[class]
          IN /\ "ceiling_ratio" \in DOMAIN rule => rule.ceiling_ratio \in 1 .. 100
             /\ "rule_tier" \in DOMAIN rule => rule.rule_tier \in Tiers
    BY <1>3, <2>1 DEF IsLayer
  <2> DEFINE layer == [planner_rules |-> rules]
  <2> HIDE DEF rules
  <2>3. DOMAIN layer = {"planner_rules"} /\ layer.planner_rules = rules
    OBVIOUS
  <2>4. IsLayer(layer)
    <3> HIDE DEF layer
    <3>1. QED
      BY <2>2, <2>3 DEF IsLayer, CAP_KEYS
  <2>5. QED
    BY <2>4 DEF rules
<1>7. QED
  BY <1>2, <1>4, <1>5, <1>6 DEF IsPolicy, pol

LEMMA PercentsShrink ==
  ASSUME NEW n \in Nat, NEW p \in 0 .. 100
  PROVE  Percent(n, p) \in Nat /\ Percent(n, p) <= n
<1> DEFINE x == n * p
           q == x \div 100
<1>1. x \in Nat
  OBVIOUS
<1>2. x <= n * 100
  <2>1. CASE p = 100
    BY <2>1
  <2>2. CASE p < 100
    <3>1. n * p + n <= n * 100
      BY <2>2, ProductsGrow
    <3>2. QED
      BY <1>1, <3>1
  <2>3. QED
    BY <2>1, <2>2
<1>3. Percent(n, p) = q
  BY DEF Percent
<1> HIDE DEF x
<1>4. q \in Nat /\ x % 100 \in 0 .. 99 /\ x = 100 * q + (x % 100)
  BY <1>1, QuotientAndRemainder
<1> HIDE DEF q
<1>5. QED
  BY <1>1, <1>2, <1>3, <1>4

(***************************************************************************)
(* Plans.                                                                  *)
(***************************************************************************)

PlanKeys == {"context_ceiling_tokens", "optional_passes_included", "model_tier"}

IsPlan(plan, budget) ==
  /\ DOMAIN plan = PlanKeys
  /\ plan.context_ceiling_tokens \in Nat \ {0}
  /\ plan.model_tier \in Tiers /\ plan.model_tier >= MinTier(budget)

(* What the enforcer carries over to the attempt after one so planned.     *)
Tightens(overrides, plan) ==
  /\ DOMAIN overrides = PlanKeys
  /\ overrides.context_ceiling_tokens \in Nat \ {0}
  /\ overrides.context_ceiling_tokens <= plan.context_ceiling_tokens
  /\ overrides.optional_passes_included => plan.optional_passes_included
  /\ overrides.model_tier \in Tiers /\ overrides.model_tier <= plan.model_tier

LEMMA TiersAreClamped ==
  ASSUME NEW tier \in Tiers, NEW lo \in Tiers, NEW hi \in Tiers
  PROVE  /\ ClampTierToBudget(tier, lo, hi) \in Tiers /\ ClampTierToBudget(tier, lo, hi) >= lo
         /\ lo <= tier => ClampTierToBudget(tier, lo, hi) <= tier
BY DEF ClampTierToBudget, Greater, Lesser, Tiers

LEMMA BudgetTiersAreTiers ==
  ASSUME NEW pol, IsPolicy(pol)
  PROVE  /\ MinTier(pol.budget) \in Tiers /\ MaxTier(pol.budget) \in Tiers
         /\ TierCeiling(pol) \in Tiers
<1>1. /\ "minimum_model_tier" \in DOMAIN pol.budget =>
           pol.budget["minimum_model_tier"] \in Tiers
      /\ "preferred_model_tier" \in DOMAIN pol.budget =>
           pol.budget["preferred_model_tier"] \in Tiers
  BY DEF IsPolicy, IsLayer
<1>2. MinTier(pol.budget) \in Tiers /\ MaxTier(pol.budget) \in Tiers
  BY <1>1 DEF MinTier, MaxTier, Get, Tiers
<1>3. TierCeiling(pol) \in {MaxTier(pol.budget), Lesser(MaxTier(pol.budget), Sonnet)}
  BY DEF TierCeiling
<1>4. Lesser(MaxTier(pol.budget), Sonnet) \in Tiers
  BY <1>2 DEF Lesser, Sonnet, Tiers
<1>5. QED
  BY <1>2, <1>3, <1>4

LEMMA LimitsArePositive ==
  ASSUME NEW pol, IsPolicy(pol)
  PROVE  EffectiveMax(pol) \in Nat \ {0}
<1> DEFINE said == Get(pol.budget, "max_input_tokens", 100)
           limit == IF said > 0 THEN said ELSE 100
           kept == Get(pol.budget, "reserve_headroom", 20)
           reserve == IF kept \in 0 .. 99 THEN kept ELSE 0
<1>1. said \in Nat
  BY DEF IsPolicy, IsLayer, Get, CAP_KEYS
<1>2. limit \in Nat \ {0}
  BY <1>1
<1>3. reserve \in 0 .. 99
  OBVIOUS
<1>4. EffectiveMax(pol) = IF pol.mode = "subscription"
                             THEN AtLeastOne(Percent(limit, 100 - reserve)) ELSE limit
  BY DEF EffectiveMax
<1> HIDE DEF said, limit, kept, reserve
<1>5. Percent(limit, 100 - reserve) \in Nat
  <2>1. 100 - reserve \in 0 .. 100
    BY <1>3
  <2>2. QED
    BY <1>2, <2>1, PercentsShrink
<1>6. QED
  BY <1>2, <1>4, <1>5 DEF AtLeastOne, Greater

LEMMA RulesApply ==
  ASSUME NEW pol, IsPolicy(pol), NEW class
  PROVE  RuleOf(pol, class).ceiling_ratio \in 1 .. 100 /\ RuleOf(pol, class).rule_tier \in Tiers
<1> DEFINE patch(c) == Get(pol.planner_rules, c, <<>>)
           default(c) == Get(PlannerRules, c, [ceiling_ratio |-> 55, rule_tier |-> Sonnet])
           classes == DOMAIN PlannerRules \cup DOMAIN pol.planner_rules
           rules == [c \in classes |-> Over(patch(c), default(c))]
           one == IF class \in DOMAIN rules THEN class ELSE "balanced"
<1>1. RuleOf(pol, class) = rules[one]
  BY DEF RuleOf
<1>2. DOMAIN rules = classes /\ "balanced" \in classes
  BY DEF PlannerRules
<1>3. one \in classes
  BY <1>2
<1>4. rules[one] = Over(patch(one), default(one))
  BY <1>3
<1> HIDE DEF one, rules, classes
<1>5. /\ DOMAIN default(one) = {"ceiling_ratio", "rule_tier"}
      /\ default(one)["ceiling_ratio"] \in 1 .. 100 /\ default(one)["rule_tier"] \in Tiers
  BY DEF Get, PlannerRules, Sonnet, Tiers
<1>6. /\ "ceiling_ratio" \in DOMAIN patch(one) => patch(one)["ceiling_ratio"] \in 1 .. 100
      /\ "rule_tier" \in DOMAIN patch(one) => patch(one)["rule_tier"] \in Tiers
  <2> DEFINE layer == [planner_rules |-> pol.planner_rules]
  <2>1. IsLayer(layer) /\ "planner_rules" \in DOMAIN layer
        /\ layer.planner_rules = pol.planner_rules
    BY DEF IsPolicy
  <2> HIDE DEF layer
  <2>2. ASSUME one \in DOMAIN pol.planner_rules
        PROVE  LET rule == pol.planner_rules[one]
               IN /\ "ceiling_ratio" \in DOMAIN rule => rule.ceiling_ratio \in 1 .. 100
                  /\ "rule_tier" \in DOMAIN rule => rule.rule_tier \in Tiers
    BY <2>1, <2>2 DEF IsLayer
  <2>3. CASE one \in DOMAIN pol.planner_rules
    <3>1. patch(one) = pol.planner_rules[one]
      BY <2>3 DEF Get
    <3>2. QED
      BY <2>2, <2>3, <3>1
  <2>4. CASE one \notin DOMAIN pol.planner_rules
    <3>1. patch(one) = <<>>
      BY <2>4 DEF Get
    <3> HIDE DEF patch
    <3>2. DOMAIN patch(one) = {}
      BY <3>1
    <3>3. QED
      BY <3>2
  <2>5. QED
    BY <2>3, <2>4
<1> HIDE DEF patch, default
<1>7. QED
  BY <1>1, <1>4, <1>5, <1>6 DEF Over

(* The plan before what a retry carries over is applied to it.             *)
LEMMA PlansStartTyped ==
  ASSUME NEW pol, IsPolicy(pol), NEW class, NEW signals, NEW overrides
  PROVE  \E plan : /\ IsPlan(plan, pol.budget)
                   /\ PlanExecution(pol, class, signals, overrides)
                        = Overridden(plan, overrides, MinTier(pol.budget), TierCeiling(pol))
<1> DEFINE b == pol.budget
           lo == MinTier(b)
           hi == TierCeiling(pol)
           rule == RuleOf(pol, class)
           tier == ClampTierToBudget(rule.rule_tier, lo, hi)
           lowest == ClampTierToBudget(0, lo, hi)
           ceiling == AtLeastOne(Percent(EffectiveMax(pol), rule.ceiling_ratio))
           premium == pol.mode = "subscription" /\ tier > Sonnet
           overspent == /\ pol.mode = "api_key"
                        /\ "max_estimated_cost_minor" \in DOMAIN b
                        /\ signals.cost > b.max_estimated_cost_minor
           context == CASE premium -> AtLeastOne(Percent(ceiling, 88))
                        [] overspent -> AtLeastOne(Percent(ceiling, 75))
                        [] OTHER -> ceiling
           chosen == IF overspent \/ signals.throttle THEN lowest ELSE tier
           passes == OptionalPasses(pol, tier, signals)
           plan == [context_ceiling_tokens |-> context, optional_passes_included |-> passes,
                    model_tier |-> chosen]
<1>1. PlanExecution(pol, class, signals, overrides) = Overridden(plan, overrides, lo, hi)
  BY DEF PlanExecution
<1>2. lo \in Tiers /\ hi \in Tiers /\ 0 \in Tiers
  BY BudgetTiersAreTiers DEF Tiers
<1>3. rule.ceiling_ratio \in 1 .. 100 /\ rule.rule_tier \in Tiers
  BY RulesApply
<1>4. tier \in Tiers /\ tier >= lo /\ lowest \in Tiers /\ lowest >= lo
  BY <1>2, <1>3, TiersAreClamped
<1>5. ceiling \in Nat \ {0}
  <2>1. Percent(EffectiveMax(pol), rule.ceiling_ratio) \in Nat
    <3>1. EffectiveMax(pol) \in Nat /\ rule.ceiling_ratio \in 0 .. 100
      BY <1>3, LimitsArePositive
    <3> HIDE DEF rule
    <3>2. QED
      BY <3>1, PercentsShrink
  <2>2. QED
    BY <2>1 DEF AtLeastOne, Greater
<1> HIDE DEF premium, overspent, ceiling, tier, lowest, lo, hi, passes
<1>6. context \in Nat \ {0}
  <2>1. /\ AtLeastOne(Percent(ceiling, 88)) \in Nat \ {0}
        /\ AtLeastOne(Percent(ceiling, 75)) \in Nat \ {0}
    <3>1. Percent(ceiling, 88) \in Nat /\ Percent(ceiling, 75) \in Nat
      BY <1>5, PercentsShrink
    <3>2. QED
      BY <3>1 DEF AtLeastOne, Greater
  <2>2. QED
    BY <1>5, <2>1
<1>7. chosen \in Tiers /\ chosen >= lo
  BY <1>4
<1> HIDE DEF context, chosen
<1>8. IsPlan(plan, b)
  BY <1>6, <1>7 DEF IsPlan, PlanKeys, lo
<1>9. QED
  BY <1>1, <1>8 DEF lo, hi

LEMMA FirstPlansAreTyped ==
  ASSUME NEW pol, IsPolicy(pol), NEW class, NEW signals
  PROVE  IsPlan(PlanExecution(pol, class, signals, Unset), pol.budget)
<1>1. PICK plan : /\ IsPlan(plan, pol.budget)
                  /\ PlanExecution(pol, class, signals, Unset)
                       = Overridden(plan, Unset, MinTier(pol.budget), TierCeiling(pol))
  BY PlansStartTyped
<1> DEFINE o == Over(Unset, plan)
           new == PlanExecution(pol, class, signals, Unset)
<1>2. DOMAIN Unset = {}
  BY DEF Unset
<1>3. /\ o.context_ceiling_tokens = plan.context_ceiling_tokens
      /\ o.optional_passes_included = plan.optional_passes_included
  BY <1>1, <1>2 DEF Over, IsPlan, PlanKeys
<1>4. new = [context_ceiling_tokens |-> AtLeastOne(o.context_ceiling_tokens),
             optional_passes_included |-> o.optional_passes_included,
             model_tier |-> plan.model_tier]
  BY <1>1, <1>2 DEF Overridden
<1> HIDE DEF o, new
<1>5. AtLeastOne(o.context_ceiling_tokens) \in Nat \ {0}
  BY <1>1, <1>3 DEF IsPlan, AtLeastOne, Greater
<1>6. QED
  BY <1>1, <1>4, <1>5 DEF IsPlan, PlanKeys, new

(* The planner starts every attempt from the policy; with what is carried  *)
(* over from the one before, no attempt is more generous than that.        *)
LEMMA RetriesAreTighter ==
  ASSUME NEW pol, IsPolicy(pol), NEW class, NEW signals,
         NEW last, IsPlan(last, pol.budget), NEW overrides, Tightens(overrides, last)
  PROVE  LET new == PlanExecution(pol, class, signals, overrides)
         IN /\ IsPlan(new, pol.budget)
            /\ new.context_ceiling_tokens <= last.context_ceiling_tokens
            /\ new.optional_passes_included => last.optional_passes_included
            /\ new.model_tier <= last.model_tier
<1> DEFINE lo == MinTier(pol.budget)
           hi == TierCeiling(pol)
           new == PlanExecution(pol, class, signals, overrides)
<1>1. PICK plan : IsPlan(plan, pol.budget) /\ new = Overridden(plan, overrides, lo, hi)
  BY PlansStartTyped
<1> DEFINE o == Over(overrides, plan)
           tier == ClampTierToBudget(overrides.model_tier, lo, hi)
<1>2. lo \in Tiers /\ hi \in Tiers
  BY BudgetTiersAreTiers
<1>3. /\ "model_tier" \in DOMAIN overrides
      /\ o.context_ceiling_tokens = overrides.context_ceiling_tokens
      /\ o.optional_passes_included = overrides.optional_passes_included
      /\ o.model_tier = overrides.model_tier
  BY <1>1 DEF Over, IsPlan, Tightens, PlanKeys
<1>4. new = [context_ceiling_tokens |-> AtLeastOne(overrides.context_ceiling_tokens),
             optional_passes_included |-> overrides.optional_passes_included,
             model_tier |-> tier]
  BY <1>1, <1>3 DEF Overridden
<1>5. /\ AtLeastOne(overrides.context_ceiling_tokens) \in Nat \ {0}
      /\ AtLeastOne(overrides.context_ceiling_tokens) <= last.context_ceiling_tokens
  BY DEF Tightens, IsPlan, AtLeastOne, Greater
<1>6. tier \in Tiers /\ tier >= lo /\ tier <= last.model_tier
  <2>1. last.model_tier \in Tiers /\ last.model_tier >= lo
    BY DEF IsPlan
  <2>2. overrides.model_tier \in Tiers /\ overrides.model_tier <= last.model_tier
    BY DEF Tightens
  <2> HIDE DEF lo, hi
  <2>3. QED
    BY <1>2, <2>1, <2>2 DEF ClampTierToBudget, Greater, Lesser, Tiers
<1> HIDE DEF tier, new
<1>7. IsPlan(new, pol.budget)
  BY <1>4, <1>5, <1>6 DEF IsPlan, PlanKeys
<1>8. QED
  BY <1>4, <1>5, <1>6, <1>7 DEF Tightens, new

(***************************************************************************)
(* The enforcer.                                                           *)
(***************************************************************************)

LEMMA StepsOfTheLadder ==
  ASSUME NEW mode \in Modes, NEW i \in 1 .. Len(Ladder[mode])
  PROVE  /\ Ladder[mode][i].kind \in {"compact", "passes_off", "downshift", "output", "terminal"}
         /\ Ladder[mode][i].by \in 0 .. 100
<1>1. CASE mode = "subscription"
  BY <1>1 DEF Ladder
<1>2. CASE mode = "api_key"
  BY <1>2 DEF Ladder
<1>3. CASE mode = "hybrid"
  BY <1>3 DEF Ladder
<1>4. QED
  BY <1>1, <1>2, <1>3 DEF Modes

LEMMA DeltasTighten ==
  ASSUME NEW c, NEW plan, NEW budget, IsPlan(plan, budget),
         MinTier(budget) \in Tiers, MaxTier(budget) \in Tiers,
         DOMAIN c \in {PlanKeys, PlanKeys \cup {"max_output_tokens"}},
         \A k \in PlanKeys : c[k] = plan[k],
         NEW step, step.kind \in {"compact", "passes_off", "downshift", "output"},
         step.by \in 0 .. 100
  PROVE  Tightens(EnforcementConstraintsToPlannerOverrides(ApplyConstraintDelta(c, step, budget)),
                  plan)
<1> DEFINE d == ApplyConstraintDelta(c, step, budget)
           o == EnforcementConstraintsToPlannerOverrides(d)
<1>1. /\ PlanKeys \subseteq DOMAIN c /\ "max_output_tokens" \notin PlanKeys
      /\ DOMAIN c \ {"max_output_tokens"} = PlanKeys
  BY DEF PlanKeys
<1>2. /\ c.context_ceiling_tokens = plan.context_ceiling_tokens
      /\ c.optional_passes_included = plan.optional_passes_included
      /\ c.model_tier = plan.model_tier
  BY DEF PlanKeys
<1>3. /\ plan.context_ceiling_tokens \in Nat \ {0} /\ plan.model_tier \in Tiers
      /\ plan.model_tier >= MinTier(budget)
  BY DEF IsPlan
<1>4. /\ DOMAIN d = DOMAIN c
      /\ d.context_ceiling_tokens \in Nat \ {0}
      /\ d.context_ceiling_tokens <= plan.context_ceiling_tokens
      /\ d.optional_passes_included => plan.optional_passes_included
      /\ d.model_tier \in Tiers /\ d.model_tier <= plan.model_tier
  <2>1. CASE step.kind = "compact"
    <3> DEFINE less == AtLeastOne(Percent(c.context_ceiling_tokens, step.by))
    <3>1. d = [c EXCEPT !.context_ceiling_tokens = less]
      BY <2>1 DEF ApplyConstraintDelta
    <3>2. less \in Nat \ {0} /\ less <= plan.context_ceiling_tokens
      <4>1. /\ Percent(c.context_ceiling_tokens, step.by) \in Nat
            /\ Percent(c.context_ceiling_tokens, step.by) <= c.context_ceiling_tokens
        BY <1>2, <1>3, PercentsShrink
      <4>2. QED
        BY <4>1, <1>2, <1>3 DEF AtLeastOne, Greater
    <3> HIDE DEF d, less
    <3>3. QED
      BY <3>1, <3>2, <1>1, <1>2, <1>3 DEF PlanKeys, Tiers
  <2>2. CASE step.kind = "passes_off"
    <3>1. d = [c EXCEPT !.optional_passes_included = FALSE]
      BY <2>2 DEF ApplyConstraintDelta
    <3> HIDE DEF d
    <3>2. QED
      BY <3>1, <1>1, <1>2, <1>3 DEF PlanKeys, Tiers
  <2>3. CASE step.kind = "downshift"
    <3> DEFINE less == Lesser(Greater(MinTier(budget), c.model_tier - step.by), MaxTier(budget))
    <3>1. d = [c EXCEPT !.model_tier = less]
      BY <2>3 DEF ApplyConstraintDelta
    <3>2. less \in Tiers /\ less <= plan.model_tier
      BY <1>2, <1>3 DEF Lesser, Greater, Tiers
    <3> HIDE DEF d, less
    <3>3. QED
      BY <3>1, <3>2, <1>1, <1>2, <1>3 DEF PlanKeys, Tiers
  <2>4. CASE step.kind = "output"
    <3>1. d = [k \in DOMAIN c |-> IF k = "max_output_tokens"
                                  THEN AtLeastOne(Percent(c[k], step.by)) ELSE c[k]]
      BY <2>4 DEF ApplyConstraintDelta
    <3> HIDE DEF d
    <3>2. DOMAIN d = DOMAIN c /\ \A k \in PlanKeys : d[k] = c[k]
      BY <3>1, <1>1
    <3>3. QED
      BY <3>2, <1>1, <1>2, <1>3 DEF PlanKeys, Tiers
  <2>5. QED
    BY <2>1, <2>2, <2>3, <2>4
<1> HIDE DEF d
<1>5. DOMAIN o = PlanKeys /\ \A k \in PlanKeys : o[k] = d[k]
  BY <1>1, <1>4 DEF EnforcementConstraintsToPlannerOverrides
<1> HIDE DEF o
<1>6. Tightens(o, plan)
  BY <1>4, <1>5 DEF Tightens, PlanKeys
<1>7. QED
  BY <1>6 DEF o, d

(* A retry carries over a tightening of the plan it follows.               *)
LEMMA RetriesCarryTightening ==
  ASSUME IsPolicy(policy), IsPlan(planner, policy.budget), ladderStepIndex \in Nat,
         Enforcement.outcome = "retry"
  PROVE  Tightens(EnforcementConstraintsToPlannerOverrides(Enforcement.applied), planner)
<1> DEFINE c == PlannerOutputToEnforcementConstraints
           steps == IF policy.fallback_ladder = "default" THEN Ladder[policy.mode] ELSE <<>>
           step == steps[ladderStepIndex + 1]
           e == Enforcement
<1>1. e = CASE ~DetectPolicyViolation(policy, meter) -> [outcome |-> "ok"]
            [] DetectPolicyViolation(policy, meter) /\ steps = <<>> ->
                 [outcome |-> "terminal", reason_code |-> "missing_ladder"]
            [] OTHER ->
                 IF ladderStepIndex >= Len(steps)
                 THEN [outcome |-> "terminal", reason_code |-> "policy_exhausted"]
                 ELSE IF step.kind = "terminal"
                      THEN [outcome |-> "terminal", reason_code |-> "ladder_end"]
                      ELSE [outcome |-> "retry",
                            applied |-> ApplyConstraintDelta(c, step, policy.budget)]
  BY DEF Enforcement, EvaluateBudgetEnforcement
<1>2. e.outcome = "retry"
  OBVIOUS
<1> HIDE DEF e, c, steps, step
<1>3. /\ steps # <<>> /\ ~(ladderStepIndex >= Len(steps)) /\ step.kind # "terminal"
      /\ e = [outcome |-> "retry", applied |-> ApplyConstraintDelta(c, step, policy.budget)]
  BY <1>1, <1>2
<1>4. steps = Ladder[policy.mode] /\ policy.mode \in Modes /\ Len(steps) \in Nat
  <2>1. steps = Ladder[policy.mode] /\ policy.mode \in Modes
    BY <1>3 DEF steps, IsPolicy
  <2>2. Len(Ladder[policy.mode]) \in Nat
    BY <2>1 DEF Ladder, Modes
  <2>3. QED
    BY <2>1, <2>2
<1>5. ladderStepIndex + 1 \in 1 .. Len(Ladder[policy.mode])
  BY <1>3, <1>4
<1>6. step.kind \in {"compact", "passes_off", "downshift", "output"} /\ step.by \in 0 .. 100
  BY <1>3, <1>4, <1>5, StepsOfTheLadder DEF step
<1>7. /\ DOMAIN c \in {PlanKeys, PlanKeys \cup {"max_output_tokens"}}
      /\ \A k \in PlanKeys : c[k] = planner[k]
  <2>1. DOMAIN planner = PlanKeys
    BY DEF IsPlan
  <2>2. CASE c = planner
    BY <2>1, <2>2
  <2>3. CASE c = Over(planner, [max_output_tokens |-> policy.budget.max_output_tokens])
    <3> DEFINE output == [max_output_tokens |-> policy.budget.max_output_tokens]
    <3>1. DOMAIN output = {"max_output_tokens"}
      OBVIOUS
    <3> HIDE DEF output
    <3>2. c = [k \in DOMAIN planner \cup DOMAIN output |->
                 IF k \in DOMAIN planner THEN planner[k] ELSE output[k]]
      BY <2>3 DEF Over, output
    <3>3. DOMAIN c = DOMAIN planner \cup DOMAIN output
          /\ \A k \in DOMAIN planner : c[k] = planner[k]
      BY <3>2
    <3>4. QED
      BY <2>1, <3>1, <3>3
  <2>4. QED
    BY <2>2, <2>3 DEF c, PlannerOutputToEnforcementConstraints
<1>8. MinTier(policy.budget) \in Tiers /\ MaxTier(policy.budget) \in Tiers
  BY BudgetTiersAreTiers
<1>9. Tightens(EnforcementConstraintsToPlannerOverrides(ApplyConstraintDelta(c, step, policy.budget)),
               planner)
  BY <1>6, <1>7, <1>8, DeltasTighten
<1>10. QED
  BY <1>3, <1>9 DEF e

(***************************************************************************)
(* The pipeline.                                                           *)
(***************************************************************************)

(* A plan is one of its policy and the pack is made for it; between two    *)
(* attempts, what the next one carries over tightens the latest plan.      *)
AttemptsOK ==
  \/ /\ planner = Unset /\ pack = Unset /\ plannerOverrides = Unset
     /\ status \in {"planning", "replan_exhausted"}
  \/ /\ planner # Unset /\ IsPlan(planner, policy.budget)
     /\ pack = BuildContextPack(policy.mode, planner, opts.task)
     /\ status = "planning" => Tightens(plannerOverrides, planner)

(* What was measured of an attempt is what a meter of the mode reads of its *)
(* pack, and a success violates nothing.                                    *)
MeasuredOK ==
  /\ status \in {"measured", "success"} =>
       /\ planner # Unset
       /\ \E output \in Nat : \E answer :
            meter = Observe(policy.mode, planner.model_tier, pack.after, output, answer)
  /\ status = "success" => ~DetectPolicyViolation(policy, meter)

PolicyInv ==
  /\ opts.machine \in Machines /\ opts.skill \in SkillPolicies /\ opts.project \in Projects
  /\ opts.route \in RouteLayers /\ opts.task \in TaskInputs
  /\ policy = ResolveExecutionPolicy(opts.machine, opts.skill, opts.project, opts.route)
  /\ ladderStepIndex \in Nat
  /\ AttemptsOK
  /\ MeasuredOK

LEMMA ThePolicyIsOne ==
  ASSUME PolicyInv
  PROVE  IsPolicy(policy)
<1>1. IsLayer(opts.machine) /\ IsLayer(opts.skill) /\ IsLayer(opts.project) /\ IsLayer(opts.route)
  BY LayersAssumption DEF PolicyInv
<1>2. QED
  BY <1>1, ResolvedPolicyIsOne DEF PolicyInv

LEMMA PolicyInvInitially ==
  PolicyInit => PolicyInv
<1> SUFFICES ASSUME PolicyInit PROVE PolicyInv
  OBVIOUS
<1>1. opts \in [machine : Machines, skill : SkillPolicies, project : Projects, route : RouteLayers,
                class : TaskClasses, signals : Signals, task : TaskInputs,
                maxAttempts : Attempts]
  BY DEF PolicyInit
<1>2. AttemptsOK /\ MeasuredOK
  BY DEF PolicyInit, AttemptsOK, MeasuredOK
<1>3. QED
  BY <1>1, <1>2 DEF PolicyInit, PolicyInv

LEMMA PolicyInvStep ==
  PolicyInv /\ [PolicyNext]_policyVars => PolicyInv'
<1> SUFFICES ASSUME PolicyInv, [PolicyNext]_policyVars
             PROVE  PolicyInv'
  OBVIOUS
<1>1. UNCHANGED <<opts, policy>> /\ ladderStepIndex' \in Nat
  BY DEF PolicyInv, PolicyNext, Plan, RunAttempt, Succeed, GiveUp, Retry, Exhausted, policyVars
<1>2. AttemptsOK /\ MeasuredOK
  BY DEF PolicyInv
<1>3. AttemptsOK' /\ MeasuredOK'
  <2>1. CASE Plan
    <3>1. /\ planner' = PlanExecution(policy, opts.class, opts.signals, plannerOverrides)
          /\ pack' = BuildContextPack(policy.mode, planner', opts.task)
          /\ status = "planning" /\ status' = "executing"
      BY <2>1 DEF Plan
    <3>2. IsPlan(planner', policy.budget)
      <4>1. CASE planner = Unset
        <5>1. plannerOverrides = Unset
          BY <1>2, <4>1 DEF AttemptsOK
        <5>2. QED
          BY <3>1, <5>1, ThePolicyIsOne, FirstPlansAreTyped
      <4>2. CASE planner # Unset
        <5>1. IsPlan(planner, policy.budget) /\ Tightens(plannerOverrides, planner)
          BY <1>2, <3>1, <4>2 DEF AttemptsOK
        <5>2. QED
          BY <3>1, <5>1, ThePolicyIsOne, RetriesAreTighter
      <4>3. QED
        BY <4>1, <4>2
    <3>3. planner' # Unset
      <4>1. DOMAIN Unset = {}
        BY DEF Unset
      <4>2. "model_tier" \in DOMAIN planner'
        BY <3>2 DEF IsPlan, PlanKeys
      <4>3. QED
        BY <4>1, <4>2
    <3>4. AttemptsOK'
      BY <1>1, <3>1, <3>2, <3>3 DEF AttemptsOK, IsPlan, MinTier, Get
    <3>5. MeasuredOK'
      BY <3>1 DEF MeasuredOK
    <3>6. QED
      BY <3>4, <3>5
  <2>2. CASE RunAttempt
    <3>1. UNCHANGED <<planner, pack, plannerOverrides>> /\ status = "executing"
          /\ status' = "measured"
      BY <2>2 DEF RunAttempt
    <3>2. PICK output \in Outputs, answer \in ProviderAnswers :
            meter' = Observe(policy.mode, planner.model_tier, pack.after, output, answer)
      BY <2>2 DEF RunAttempt
    <3>3. output \in Nat
      BY OutputsAssumption
    <3>4. planner # Unset
      BY <1>2, <3>1 DEF AttemptsOK
    <3>5. AttemptsOK'
      BY <1>1, <1>2, <3>1 DEF AttemptsOK, IsPlan, MinTier, Get
    <3>6. meter' = Observe(policy.mode, planner.model_tier, pack.after, output, answer)'
      BY <1>1, <3>1, <3>2
    <3>7. MeasuredOK'
      BY <3>1, <3>3, <3>4, <3>6 DEF MeasuredOK
    <3>8. QED
      BY <3>5, <3>7
  <2>3. CASE Succeed
    <3>1. UNCHANGED <<planner, pack, plannerOverrides, meter>> /\ status = "measured"
          /\ status' = "success"
      BY <2>3 DEF Succeed
    <3>2. ~DetectPolicyViolation(policy, meter)
      BY <2>3 DEF Succeed, Enforcement, EvaluateBudgetEnforcement
    <3>3. AttemptsOK'
      BY <1>1, <1>2, <3>1 DEF AttemptsOK, IsPlan, MinTier, Get
    <3>4. MeasuredOK'
      <4>1. PICK output \in Nat : \E answer :
              meter = Observe(policy.mode, planner.model_tier, pack.after, output, answer)
        BY <1>2, <3>1 DEF MeasuredOK
      <4>2. QED
        BY <1>1, <1>2, <3>1, <3>2, <4>1 DEF MeasuredOK
    <3>5. QED
      BY <3>3, <3>4
  <2>4. CASE GiveUp
    <3>1. UNCHANGED <<planner, pack, plannerOverrides>> /\ status = "measured"
          /\ status' = "terminal"
      BY <2>4 DEF GiveUp
    <3>2. QED
      BY <1>1, <1>2, <3>1 DEF AttemptsOK, MeasuredOK, IsPlan, MinTier, Get
  <2>5. CASE Retry
    <3>1. UNCHANGED <<planner, pack>> /\ status = "measured" /\ status' = "planning"
          /\ Enforcement.outcome = "retry"
          /\ plannerOverrides' = EnforcementConstraintsToPlannerOverrides(Enforcement.applied)
      BY <2>5 DEF Retry
    <3>2. planner # Unset /\ IsPlan(planner, policy.budget)
          /\ pack = BuildContextPack(policy.mode, planner, opts.task)
      BY <1>2, <3>1 DEF AttemptsOK
    <3>3. Tightens(plannerOverrides', planner)
      BY <3>1, <3>2, ThePolicyIsOne, RetriesCarryTightening DEF PolicyInv
    <3>4. AttemptsOK'
      BY <1>1, <3>1, <3>2, <3>3 DEF AttemptsOK, IsPlan, MinTier, Get, Tightens
    <3>5. MeasuredOK'
      BY <3>1 DEF MeasuredOK
    <3>6. QED
      BY <3>4, <3>5
  <2>6. CASE Exhausted
    <3>1. UNCHANGED <<planner, pack, plannerOverrides>> /\ status' = "replan_exhausted"
      BY <2>6 DEF Exhausted
    <3>2. QED
      BY <1>1, <1>2, <3>1 DEF AttemptsOK, MeasuredOK, IsPlan, MinTier, Get
  <2>7. CASE UNCHANGED policyVars
    BY <1>1, <1>2, <2>7 DEF AttemptsOK, MeasuredOK, IsPlan, MinTier, Get, Tightens, policyVars
  <2>8. QED
    BY <2>1, <2>2, <2>3, <2>4, <2>5, <2>6, <2>7 DEF PolicyNext
<1>4. QED
  BY <1>1, <1>3 DEF PolicyInv

(* However an execution goes on, no attempt after the first is planned     *)
(* more generously than the one before.                                    *)
THEOREM RetriesTighten == PolicySpec => RetriesOnlyTighten
<1>1. PolicyInv /\ [PolicyNext]_policyVars =>
        [planner # Unset =>
           /\ planner'.context_ceiling_tokens <= planner.context_ceiling_tokens
           /\ planner'.optional_passes_included => planner.optional_passes_included
           /\ planner'.model_tier <= planner.model_tier]_planner
  <2> SUFFICES ASSUME PolicyInv, [PolicyNext]_policyVars, planner # Unset, planner' # planner
               PROVE  /\ planner'.context_ceiling_tokens <= planner.context_ceiling_tokens
                      /\ planner'.optional_passes_included => planner.optional_passes_included
                      /\ planner'.model_tier <= planner.model_tier
    OBVIOUS
  <2>1. Plan
    BY DEF PolicyNext, RunAttempt, Succeed, GiveUp, Retry, Exhausted, policyVars
  <2>2. /\ planner' = PlanExecution(policy, opts.class, opts.signals, plannerOverrides)
        /\ status = "planning"
    BY <2>1 DEF Plan
  <2>3. IsPlan(planner, policy.budget) /\ Tightens(plannerOverrides, planner)
    BY <2>2 DEF PolicyInv, AttemptsOK
  <2>4. QED
    BY <2>2, <2>3, ThePolicyIsOne, RetriesAreTighter
<1>2. QED
  BY <1>1, PolicyInvInitially, PolicyInvStep, PTL DEF PolicySpec, RetriesOnlyTighten

(***************************************************************************)
(* What a success cost.                                                    *)
(***************************************************************************)

LEMMA CostsAreCounted ==
  ASSUME NEW mode \in Modes \ {"subscription"}, NEW tier \in Tiers, NEW in \in Nat,
         NEW out \in Nat, NEW answer
  PROVE  Observe(mode, tier, in, out, answer).actual_cost_minor \in Nat
<1> DEFINE cost == ComputeCostMinorFromTokens(tier, in, out)
           spent == [actual_cost_minor |-> cost]
           pressed == [pressure_score |-> ComputeSubscriptionPressure(in + out, tier,
                                            ExtractProviderSignals(answer)),
                       throttle_detected |-> ExtractProviderSignals(answer)]
<1>1. cost \in Nat
  <2>1. CASE tier = 0
    BY <2>1 DEF ComputeCostMinorFromTokens, InputRate, OutputRate, Tiers
  <2>2. CASE tier = 1
    BY <2>2 DEF ComputeCostMinorFromTokens, InputRate, OutputRate, Tiers
  <2>3. CASE tier = 2
    BY <2>3 DEF ComputeCostMinorFromTokens, InputRate, OutputRate, Tiers
  <2>4. QED
    BY <2>1, <2>2, <2>3 DEF Tiers
<1>2. Observe(mode, tier, in, out, answer) \in {spent, Over(pressed, spent)}
  BY DEF Observe, Modes
<1> HIDE DEF cost
<1>3. spent.actual_cost_minor = cost
  OBVIOUS
<1>4. Over(pressed, spent).actual_cost_minor = cost
  <2>1. DOMAIN pressed = {"pressure_score", "throttle_detected"}
        /\ DOMAIN spent = {"actual_cost_minor"}
    OBVIOUS
  <2> HIDE DEF pressed, spent
  <2>2. Over(pressed, spent)["actual_cost_minor"] = spent["actual_cost_minor"]
    BY <2>1 DEF Over
  <2>3. QED
    BY <2>2, <1>3
<1>5. QED
  BY <1>1, <1>2, <1>3, <1>4

(* The cap a route and the merged layers both name is the lower one.       *)
LEMMA CapsAreNarrowed ==
  ASSUME PolicyInv, NEW key \in CAP_KEYS,
         key \in DOMAIN Merged(opts.machine, opts.skill, opts.project)
  PROVE  LET base == Merged(opts.machine, opts.skill, opts.project)
         IN /\ key \in DOMAIN policy.budget /\ policy.budget[key] \in Nat
            /\ base[key] \in Nat /\ policy.budget[key] <= base[key]
            /\ Get(opts.route, key, base[key]) \in Nat
            /\ policy.budget[key] <= Get(opts.route, key, base[key])
<1> DEFINE base == Merged(opts.machine, opts.skill, opts.project)
           route == opts.route
<1>1. IsLayer(opts.machine) /\ IsLayer(opts.skill) /\ IsLayer(opts.project) /\ IsLayer(route)
  BY LayersAssumption DEF PolicyInv
<1>2. IsLayer(base)
  BY <1>1, LayersMerge DEF Merged
<1>3. key \in DOMAIN base \ {"planner_rules", "fallback_ladder"}
  BY DEF CAP_KEYS
<1>4. policy.budget = [k \in DOMAIN base \ {"planner_rules", "fallback_ladder"} |->
                         IF k \in DOMAIN route THEN Narrow(k, base[k], route[k]) ELSE base[k]]
  BY DEF PolicyInv, ResolveExecutionPolicy
<1> HIDE DEF base, route
<1>5. /\ key \in DOMAIN policy.budget
      /\ policy.budget[key] = IF key \in DOMAIN route THEN Narrow(key, base[key], route[key])
                              ELSE base[key]
  BY <1>3, <1>4
<1>6. base[key] \in Nat /\ (key \in DOMAIN route => route[key] \in Nat)
  BY <1>1, <1>2, <1>3 DEF IsLayer
<1>7. CASE key \in DOMAIN route
  <2>1. /\ Narrow(key, base[key], route[key]) \in Nat
        /\ Narrow(key, base[key], route[key]) <= base[key]
        /\ Narrow(key, base[key], route[key]) <= route[key]
    BY <1>6, <1>7, NarrowedCapsFit
  <2>2. Get(route, key, base[key]) = route[key]
    BY <1>7 DEF Get
  <2>3. QED
    BY <1>5, <1>6, <1>7, <2>1, <2>2 DEF base, route
<1>8. CASE key \notin DOMAIN route
  <2>1. Get(route, key, base[key]) = base[key]
    BY <1>8 DEF Get
  <2>2. QED
    BY <1>5, <1>6, <1>8, <2>1 DEF base, route
<1>9. QED
  BY <1>7, <1>8

(***************************************************************************)
(* Packs.                                                                  *)
(***************************************************************************)

LEMMA TotalsAreSummed ==
  ASSUME NEW seq \in Seq(Nat)
  PROVE  \E f \in [0 .. Len(seq) -> Nat] :
           /\ f[0] = 0 /\ \A i \in 1 .. Len(seq) : f[i] = f[i - 1] + seq[i]
           /\ Total(seq) = f[Len(seq)]
<1> DEFINE n == Len(seq)
           Entry(f, i) == IF i = 0 THEN 0 ELSE f[i - 1] + seq[i]
           IsTable(f) == f = [i \in 0 .. n |-> Entry(f, i)]
           F == CHOOSE f : IsTable(f)
           step == [i \in 1 .. n |-> [sum \in Nat |-> sum + seq[i]]]
<1>1. n \in Nat /\ \A i \in 1 .. n : seq[i] \in Nat
  OBVIOUS
<1>2. Loop(Nat, 0, n, step)
  BY <1>1 DEF Loop
<1>3. \A i \in 1 .. n : \A sum \in Nat : step[i][sum] = sum + seq[i]
  OBVIOUS
<1>4. Total(seq) = F[n]
  BY DEF Total
<1> HIDE DEF n, step
<1>5. PICK f \in [0 .. n -> Nat] : f[0] = 0 /\ \A i \in 1 .. n : f[i] = f[i - 1] + seq[i]
  <2>1. PICK f \in [0 .. n -> Nat] : f[0] = 0 /\ \A i \in 1 .. n : f[i] = step[i][f[i - 1]]
    BY <1>2, LoopHasATable
  <2>2. \A i \in 1 .. n : f[i - 1] \in Nat
    BY <1>1
  <2>3. QED
    BY <1>3, <2>1, <2>2
<1>6. IsTable(f)
  <2>1. ASSUME NEW i \in 0 .. n
        PROVE  f[i] = Entry(f, i)
    <3>1. i = 0 \/ (i \in 1 .. n /\ i # 0)
      BY <1>1
    <3>2. QED
      BY <3>1, <1>5
  <2> HIDE DEF Entry
  <2>2. QED
    BY <2>1
<1>7. IsTable(F)
  <2> HIDE DEF IsTable
  <2>1. QED
    BY <1>6
<1>8. DOMAIN F = 0 .. n /\ F[0] = 0 /\ \A i \in 1 .. n : F[i] = F[i - 1] + seq[i]
  <2> HIDE DEF F, Entry
  <2>1. DOMAIN F = 0 .. n /\ \A i \in 0 .. n : F[i] = Entry(F, i)
    BY <1>7
  <2>2. 0 \in 0 .. n /\ \A i \in 1 .. n : i \in 0 .. n /\ i # 0
    BY <1>1
  <2>3. QED
    BY <2>1, <2>2 DEF Entry
<1> HIDE DEF F, IsTable, Entry
<1> DEFINE Bad == {i \in 0 .. n : F[i] # f[i]}
<1>9. Bad = {}
  <2> SUFFICES ASSUME Bad # {} PROVE FALSE
    OBVIOUS
  <2>1. PICK i \in Bad : \A k \in Bad : i <= k
    <3>1. Bad \in SUBSET Nat
      BY <1>1
    <3> HIDE DEF Bad
    <3>2. QED
      BY <3>1, LeastElement
  <2>2. i \in 1 .. n
    BY <1>1, <1>5, <1>8, <2>1
  <2>3. i - 1 \in 0 .. n /\ i - 1 \notin Bad
    BY <1>1, <2>1, <2>2
  <2>4. F[i - 1] = f[i - 1]
    BY <2>3
  <2>5. F[i] = f[i]
    BY <1>5, <1>8, <2>2, <2>4
  <2>6. QED
    BY <2>1, <2>5
<1>10. Total(seq) = f[n]
  <2>1. n \in 0 .. n
    BY <1>1
  <2>2. QED
    BY <2>1, <1>4, <1>9
<1>11. QED
  BY <1>5, <1>10 DEF n

LEMMA TotalsOfFew ==
  /\ Total(<<>>) = 0
  /\ \A x \in Nat : Total(<<x>>) = x
<1>1. Total(<<>>) = 0
  <2>1. <<>> \in Seq(Nat) /\ Len(<<>>) = 0
    OBVIOUS
  <2>2. QED
    BY <2>1, TotalsAreSummed
<1>2. ASSUME NEW x \in Nat PROVE Total(<<x>>) = x
  <2> DEFINE one == <<x>>
  <2>1. one \in Seq(Nat) /\ Len(one) = 1 /\ one[1] = x
    OBVIOUS
  <2> HIDE DEF one
  <2>2. PICK f \in [0 .. Len(one) -> Nat] :
          /\ f[0] = 0 /\ \A i \in 1 .. Len(one) : f[i] = f[i - 1] + one[i]
          /\ Total(one) = f[Len(one)]
    BY <2>1, TotalsAreSummed
  <2>3. f[1] = f[0] + one[1]
    <3>1. 1 \in 1 .. Len(one) /\ 1 - 1 = 0
      BY <2>1
    <3>2. QED
      BY <2>2, <3>1
  <2>4. Total(one) = x
    BY <2>1, <2>2, <2>3
  <2>5. QED
    BY <2>4 DEF one
<1>3. QED
  BY <1>1, <1>2

(* What is left when the oldest of a list are dropped.                     *)
Newer(seq, k) == SubSeq(seq, k + 1, Len(seq))

LEMMA NewerOnesSumToLess ==
  ASSUME NEW seq \in Seq(Nat), NEW k \in 0 .. Len(seq)
  PROVE  /\ Newer(seq, k) \in Seq(Nat) /\ Len(Newer(seq, k)) = Len(seq) - k
         /\ Total(Newer(seq, k)) \in Nat /\ Total(seq) \in Nat
         /\ Total(Newer(seq, k)) <= Total(seq)
<1> DEFINE n == Len(seq)
           t == Newer(seq, k)
           l == n - k
<1>1. n \in Nat /\ k \in Nat /\ k <= n /\ l \in Nat
  OBVIOUS
<1>2. t \in Seq(Nat) /\ Len(t) = l /\ \A i \in 1 .. l : t[i] = seq[k + i]
  <2>1. t \in Seq(Nat) /\ Len(t) = l
    BY <1>1 DEF Newer
  <2>2. ASSUME NEW i \in 1 .. l PROVE t[i] = seq[k + i]
    BY <1>1 DEF Newer
  <2>3. QED
    BY <2>1, <2>2
<1>3. PICK f \in [0 .. n -> Nat] :
        /\ f[0] = 0 /\ \A i \in 1 .. n : f[i] = f[i - 1] + seq[i]
        /\ Total(seq) = f[n]
  BY TotalsAreSummed
<1> HIDE DEF t, l
<1>4. PICK g \in [0 .. l -> Nat] :
        /\ g[0] = 0 /\ \A i \in 1 .. l : g[i] = g[i - 1] + t[i]
        /\ Total(t) = g[l]
  <2>1. \E g \in [0 .. Len(t) -> Nat] :
           /\ g[0] = 0 /\ \A i \in 1 .. Len(t) : g[i] = g[i - 1] + t[i]
           /\ Total(t) = g[Len(t)]
    BY <1>2, TotalsAreSummed
  <2>2. QED
    BY <2>1, <1>2
<1> HIDE DEF n
<1> DEFINE Bad == {i \in 0 .. l : f[k] + g[i] # f[k + i]}
<1>5. Bad = {}
  <2> SUFFICES ASSUME Bad # {} PROVE FALSE
    OBVIOUS
  <2>1. PICK i \in Bad : \A j \in Bad : i <= j
    <3>1. Bad \in SUBSET Nat
      BY <1>1
    <3> HIDE DEF Bad
    <3>2. QED
      BY <3>1, LeastElement
  <2>2. f[k] \in Nat
    BY <1>1
  <2>3. i \in 1 .. l
    <3>1. f[k] + g[0] = f[k + 0]
      BY <1>1, <1>4, <2>2
    <3>2. QED
      BY <1>1, <2>1, <3>1
  <2>4. i - 1 \in 0 .. l /\ i - 1 \notin Bad
    BY <1>1, <2>1, <2>3
  <2>5. f[k] + g[i - 1] = f[k + (i - 1)]
    BY <2>4
  <2>6. g[i] = g[i - 1] + seq[k + i]
    BY <1>2, <1>4, <2>3
  <2>7. f[k + i] = f[k + (i - 1)] + seq[k + i]
    <3>1. k + i \in 1 .. n /\ (k + i) - 1 = k + (i - 1)
      BY <1>1, <2>3 DEF l
    <3>2. QED
      BY <1>3, <3>1
  <2>8. g[i - 1] \in Nat /\ seq[k + i] \in Nat
    <3>1. k + i \in 1 .. Len(seq)
      BY <1>1, <2>3 DEF l, n
    <3>2. seq[k + i] \in Nat
      BY <3>1
    <3>3. g[i - 1] \in Nat
      BY <2>4
    <3>4. QED
      BY <3>2, <3>3
  <2>9. f[k] + g[i] = f[k + i]
    BY <2>2, <2>5, <2>6, <2>7, <2>8
  <2>10. QED
    BY <2>1, <2>9
<1>6. f[k] + g[l] = f[n]
  <2>1. l \in 0 .. l /\ k + l = n
    BY <1>1 DEF l
  <2>2. QED
    BY <1>5, <2>1
<1>7. f[k] \in Nat /\ g[l] \in Nat /\ f[n] \in Nat
  BY <1>1
<1>8. QED
  BY <1>2, <1>3, <1>4, <1>6, <1>7 DEF t, l, n

(* An order lists one kind of thing in one stretch.                        *)
Stretch(order, kind, count) ==
  \E before \in 0 .. Len(order) - count : \A i \in 1 .. Len(order) :
    order[i] = kind <=> before < i /\ i <= before + count

Dropped(order, n, kind) == Cardinality({i \in 1 .. n : order[i] = kind})

LEMMA StretchesAreCounted ==
  ASSUME NEW order, NEW kind, NEW count \in Nat, Len(order) \in Nat,
         Stretch(order, kind, count), NEW n \in 0 .. Len(order)
  PROVE  Dropped(order, n, kind) \in 0 .. count
         /\ (n = Len(order) => Dropped(order, n, kind) = count)
<1> DEFINE total == Len(order)
<1>1. PICK before \in 0 .. total - count : \A i \in 1 .. total :
        order[i] = kind <=> before < i /\ i <= before + count
  BY DEF Stretch
<1> DEFINE last == IF n < before + count THEN n ELSE before + count
           these == {i \in 1 .. n : order[i] = kind}
<1> HIDE DEF total
<1>2. total \in Nat /\ n \in 0 .. total /\ before \in Nat /\ before + count <= total
  BY <1>1 DEF total
<1>3. these = (before + 1) .. last
  <2>1. ASSUME NEW i \in these PROVE i \in (before + 1) .. last
    BY <1>1, <1>2
  <2>2. ASSUME NEW i \in (before + 1) .. last PROVE i \in these
    BY <1>1, <1>2
  <2> HIDE DEF these, last
  <2>3. QED
    BY <2>1, <2>2
<1>4. before + 1 \in Int /\ last \in Int
  BY <1>2
<1> HIDE DEF these, last
<1>5. Cardinality(these) = IF before + 1 > last THEN 0 ELSE last - (before + 1) + 1
  BY <1>3, <1>4, FS_Interval
<1>6. /\ Cardinality(these) \in 0 .. count
      /\ n = total => Cardinality(these) = count
  BY <1>2, <1>5 DEF last
<1>7. QED
  BY <1>6 DEF Dropped, these, total

(* The numbers of messages, retrievals and artifacts that may be dropped.  *)
Droppable(p) ==
  [message |-> IF Len(p.messages) = 0 THEN 0 ELSE Len(p.messages) - 1,
   retrieval |-> IF p.retrieval > 0 THEN 1 ELSE 0,
   artifact |-> Len(p.artifacts)]

Lists(order, p) ==
  /\ Len(order) = Droppable(p).message + Droppable(p).retrieval + Droppable(p).artifact
  /\ \A kind \in {"message", "retrieval", "artifact"} :
       Stretch(order, kind, Droppable(p)[kind])

Repeats(seq, count, kind) ==
  seq \in Seq({kind}) /\ Len(seq) = count /\ \A i \in 1 .. count : seq[i] = kind

LEMMA DroppableAreCounted ==
  ASSUME NEW p \in PackableStates
  PROVE  /\ p.system \in Nat /\ p.retrieval \in Nat
         /\ p.messages \in Seq(Nat) /\ p.artifacts \in Seq(Nat)
         /\ Len(p.messages) \in Nat /\ Len(p.artifacts) \in Nat
         /\ Droppable(p).message \in 0 .. Len(p.messages)
         /\ Droppable(p).retrieval \in 0 .. 1 /\ Droppable(p).artifact = Len(p.artifacts)
         /\ Repeats(DroppableMessages(p), Droppable(p).message, "message")
         /\ Repeats(DroppableRetrieval(p), Droppable(p).retrieval, "retrieval")
         /\ Repeats(DroppableArtifacts(p), Droppable(p).artifact, "artifact")
<1>1. /\ p.system \in Nat /\ p.retrieval \in Nat
      /\ p.messages \in Seq(Nat) /\ p.artifacts \in Seq(Nat)
  BY DEF PackableStates
<1>2. Len(p.messages) \in Nat /\ Len(p.artifacts) \in Nat
  BY <1>1
<1>3. /\ Droppable(p).message = IF Len(p.messages) = 0 THEN 0 ELSE Len(p.messages) - 1
      /\ Droppable(p).retrieval = IF p.retrieval > 0 THEN 1 ELSE 0
      /\ Droppable(p).artifact = Len(p.artifacts)
  BY DEF Droppable
<1>4. DroppableMessages(p) = [i \in 1 .. Droppable(p).message |-> "message"]
  <2>1. 1 .. Len(p.messages) - 1 = 1 .. Droppable(p).message
    BY <1>2, <1>3
  <2>2. QED
    BY <2>1 DEF DroppableMessages
<1>5. DroppableRetrieval(p) = [i \in 1 .. Droppable(p).retrieval |-> "retrieval"]
  <2>1. CASE p.retrieval > 0
    <3>1. <<"retrieval">> = [i \in 1 .. 1 |-> "retrieval"]
      OBVIOUS
    <3>2. QED
      BY <2>1, <3>1, <1>3 DEF DroppableRetrieval
  <2>2. CASE ~(p.retrieval > 0)
    <3>1. <<>> = [i \in 1 .. 0 |-> "retrieval"]
      OBVIOUS
    <3>2. QED
      BY <2>2, <3>1, <1>3 DEF DroppableRetrieval
  <2>3. QED
    BY <2>1, <2>2
<1>6. DroppableArtifacts(p) = [i \in 1 .. Droppable(p).artifact |-> "artifact"]
  BY <1>3 DEF DroppableArtifacts
<1>7. ASSUME NEW n \in Nat, NEW kind
      PROVE  Repeats([i \in 1 .. n |-> kind], n, kind)
  BY DEF Repeats
<1>8. Repeats(DroppableMessages(p), Droppable(p).message, "message")
  <2>1. Droppable(p).message \in Nat
    BY <1>2, <1>3
  <2>2. QED
    BY <2>1, <1>4, <1>7
<1>9. Repeats(DroppableRetrieval(p), Droppable(p).retrieval, "retrieval")
  <2>1. Droppable(p).retrieval \in Nat
    BY <1>3
  <2>2. QED
    BY <2>1, <1>5, <1>7
<1>10. Repeats(DroppableArtifacts(p), Droppable(p).artifact, "artifact")
  <2>1. Droppable(p).artifact \in Nat
    BY <1>2, <1>3
  <2>2. QED
    BY <2>1, <1>6, <1>7
<1>11. QED
  BY <1>1, <1>2, <1>3, <1>8, <1>9, <1>10

(* Three stretches of different kinds one after the other.                 *)
Stretches(order, a, A, b, B, c, C) ==
  /\ Len(order) = a + b + c
  /\ \A i \in 1 .. a + b + c :
       order[i] = IF i <= a THEN A ELSE IF i <= a + b THEN B ELSE C

LEMMA ListsFollow ==
  ASSUME NEW S, NEW s \in Seq(S), NEW t \in Seq(S), NEW m \in Nat, NEW n \in Nat,
         Len(s) = m, Len(t) = n
  PROVE  /\ Len(s \o t) = m + n
         /\ \A i \in 1 .. m : (s \o t)[i] = s[i]
         /\ \A i \in 1 .. n : (s \o t)[m + i] = t[i]
OBVIOUS

LEMMA TwoFollow ==
  ASSUME NEW S, NEW x \in Seq(S), NEW y \in Seq(S), NEW A, NEW B, NEW a \in Nat, NEW b \in Nat,
         Len(x) = a, \A i \in 1 .. a : x[i] = A, Len(y) = b, \A i \in 1 .. b : y[i] = B
  PROVE  /\ x \o y \in Seq(S) /\ Len(x \o y) = a + b
         /\ \A i \in 1 .. a + b : (x \o y)[i] = IF i <= a THEN A ELSE B
OBVIOUS

LEMMA ThreeFollow ==
  ASSUME NEW S, NEW xy \in Seq(S), NEW z \in Seq(S), NEW A, NEW B, NEW C,
         NEW a \in Nat, NEW b \in Nat, NEW c \in Nat,
         Len(xy) = a + b, \A i \in 1 .. a + b : xy[i] = IF i <= a THEN A ELSE B,
         Len(z) = c, \A i \in 1 .. c : z[i] = C
  PROVE  Stretches(xy \o z, a, A, b, B, c, C)
<1> DEFINE order == xy \o z
<1>2. /\ Len(order) = a + b + c
      /\ \A i \in 1 .. a + b : order[i] = xy[i]
      /\ \A i \in 1 .. c : order[a + b + i] = z[i]
  <2>1. a + b \in Nat
    OBVIOUS
  <2>2. QED
    BY <2>1, ListsFollow
<1> HIDE DEF order
<1>3. ASSUME NEW i \in 1 .. a + b + c
      PROVE  order[i] = IF i <= a THEN A ELSE IF i <= a + b THEN B ELSE C
  <2>1. CASE i <= a + b
    <3>1. i \in 1 .. a + b
      BY <2>1
    <3>2. QED
      BY <3>1, <1>2
  <2>2. CASE ~(i <= a + b)
    <3>1. i - (a + b) \in 1 .. c /\ a + b + (i - (a + b)) = i /\ ~(i <= a)
      BY <2>2
    <3>2. order[a + b + (i - (a + b))] = z[i - (a + b)]
      BY <3>1, <1>2
    <3>3. z[i - (a + b)] = C
      BY <3>1
    <3>4. QED
      BY <2>2, <3>1, <3>2, <3>3
  <2>3. QED
    BY <2>1, <2>2
<1>4. QED
  BY <1>2, <1>3 DEF Stretches, order

LEMMA RepeatsFollow ==
  ASSUME NEW a \in Nat, NEW b \in Nat, NEW c \in Nat, NEW A, NEW B, NEW C,
         NEW x, NEW y, NEW z, Repeats(x, a, A), Repeats(y, b, B), Repeats(z, c, C)
  PROVE  Stretches(x \o y \o z, a, A, b, B, c, C)
<1> DEFINE S == {A, B, C}
           xy == x \o y
<1>1. /\ x \in Seq(S) /\ Len(x) = a /\ \A i \in 1 .. a : x[i] = A
      /\ y \in Seq(S) /\ Len(y) = b /\ \A i \in 1 .. b : y[i] = B
      /\ z \in Seq(S) /\ Len(z) = c /\ \A i \in 1 .. c : z[i] = C
  BY DEF Repeats
<1> HIDE DEF S
<1>2. /\ xy \in Seq(S) /\ Len(xy) = a + b
      /\ \A i \in 1 .. a + b : xy[i] = IF i <= a THEN A ELSE B
  BY <1>1, TwoFollow
<1> HIDE DEF xy
<1>3. Stretches(xy \o z, a, A, b, B, c, C)
  BY <1>1, <1>2, ThreeFollow
<1>4. QED
  BY <1>3 DEF xy

LEMMA StretchesFollow ==
  ASSUME NEW a \in Nat, NEW b \in Nat, NEW c \in Nat, NEW A, NEW B, NEW C,
         NEW order, Stretches(order, a, A, b, B, c, C), A # B, A # C, B # C
  PROVE  /\ Len(order) = a + b + c
         /\ Stretch(order, A, a) /\ Stretch(order, B, b) /\ Stretch(order, C, c)
<1>4. /\ Len(order) = a + b + c
      /\ \A i \in 1 .. a + b + c : order[i] = IF i <= a THEN A ELSE IF i <= a + b THEN B ELSE C
  BY DEF Stretches
<1>5. Stretch(order, A, a)
  <2>1. 0 \in 0 .. Len(order) - a
    BY <1>4
  <2>2. \A i \in 1 .. Len(order) : order[i] = A <=> 0 < i /\ i <= 0 + a
    BY <1>4
  <2>3. QED
    BY <2>1, <2>2 DEF Stretch
<1>6. Stretch(order, B, b)
  <2>1. a \in 0 .. Len(order) - b
    BY <1>4
  <2>2. \A i \in 1 .. Len(order) : order[i] = B <=> a < i /\ i <= a + b
    BY <1>4
  <2>3. QED
    BY <2>1, <2>2 DEF Stretch
<1>7. Stretch(order, C, c)
  <2>1. a + b \in 0 .. Len(order) - c
    BY <1>4
  <2>2. \A i \in 1 .. Len(order) : order[i] = C <=> a + b < i /\ i <= (a + b) + c
    BY <1>4
  <2>3. QED
    BY <2>1, <2>2 DEF Stretch
<1>8. QED
  BY <1>4, <1>5, <1>6, <1>7

LEMMA OrdersListAll ==
  ASSUME NEW p \in PackableStates
  PROVE  /\ Lists(SubscriptionOrder(p), p) /\ Lists(ApiKeyOrder(p), p)
         /\ Len(ApiKeyOrder(p)) \in Nat /\ Len(SubscriptionOrder(p)) = Len(ApiKeyOrder(p))
<1> DEFINE m == Droppable(p).message
           r == Droppable(p).retrieval
           a == Droppable(p).artifact
<1>1. /\ Repeats(DroppableMessages(p), m, "message")
      /\ Repeats(DroppableRetrieval(p), r, "retrieval")
      /\ Repeats(DroppableArtifacts(p), a, "artifact")
  BY DroppableAreCounted
<1>2. m \in Nat /\ r \in Nat /\ a \in Nat
  BY DroppableAreCounted
<1>3. Droppable(p)["message"] = m /\ Droppable(p)["retrieval"] = r /\ Droppable(p)["artifact"] = a
  OBVIOUS
<1>4. SubscriptionOrder(p) = DroppableRetrieval(p) \o DroppableArtifacts(p) \o DroppableMessages(p)
  BY DEF SubscriptionOrder
<1>5. ApiKeyOrder(p) = DroppableMessages(p) \o DroppableRetrieval(p) \o DroppableArtifacts(p)
  BY DEF ApiKeyOrder
<1> HIDE DEF m, r, a
<1>6. /\ Len(SubscriptionOrder(p)) = r + a + m
      /\ Stretch(SubscriptionOrder(p), "retrieval", r)
      /\ Stretch(SubscriptionOrder(p), "artifact", a)
      /\ Stretch(SubscriptionOrder(p), "message", m)
  <2>1. "retrieval" # "artifact" /\ "retrieval" # "message" /\ "artifact" # "message"
    OBVIOUS
  <2>2. Stretches(SubscriptionOrder(p), r, "retrieval", a, "artifact", m, "message")
    BY <1>1, <1>2, <1>4, RepeatsFollow
  <2>3. QED
    BY <1>2, <2>1, <2>2, StretchesFollow
<1>7. /\ Len(ApiKeyOrder(p)) = m + r + a
      /\ Stretch(ApiKeyOrder(p), "message", m)
      /\ Stretch(ApiKeyOrder(p), "retrieval", r)
      /\ Stretch(ApiKeyOrder(p), "artifact", a)
  <2>1. "message" # "retrieval" /\ "message" # "artifact" /\ "retrieval" # "artifact"
    OBVIOUS
  <2>2. Stretches(ApiKeyOrder(p), m, "message", r, "retrieval", a, "artifact")
    BY <1>1, <1>2, <1>5, RepeatsFollow
  <2>3. QED
    BY <1>2, <2>1, <2>2, StretchesFollow
<1>8. Lists(SubscriptionOrder(p), p)
  BY <1>2, <1>3, <1>6 DEF Lists, m, r, a
<1>9. Lists(ApiKeyOrder(p), p)
  BY <1>2, <1>3, <1>7 DEF Lists, m, r, a
<1>10. QED
  BY <1>2, <1>6, <1>7, <1>8, <1>9

(***************************************************************************)
(* What a compaction makes of a pack.                                      *)
(***************************************************************************)

(* A pack estimated at no more, which keeps its newest message.            *)
Leaner(q, p) ==
  /\ q \in PackableStates
  /\ EstimateTokens(q) <= EstimateTokens(p)
  /\ (p.messages # <<>>) => (q.messages # <<>>)

(* Nothing is left to drop.                                                *)
Bare(p) == p.retrieval = 0 /\ Len(p.artifacts) = 0 /\ Len(p.messages) <= 1

OnlyMessage(p) == IF Len(p.messages) = 1 THEN p.messages[1] ELSE 0

LEMMA EstimatesAreCounted ==
  ASSUME NEW p \in PackableStates
  PROVE  /\ p.system \in Nat /\ p.retrieval \in Nat
         /\ Total(p.messages) \in Nat /\ Total(p.artifacts) \in Nat
         /\ EstimateTokens(p) \in Nat
         /\ EstimateTokens(p) = p.system + p.retrieval + Total(p.messages) + Total(p.artifacts)
<1>1. p.system \in Nat /\ p.retrieval \in Nat
  BY DEF PackableStates
<1>2. \A seq \in Seq(Nat) : Total(seq) \in Nat
  <2>1. TAKE seq \in Seq(Nat)
  <2>2. 0 \in 0 .. Len(seq)
    OBVIOUS
  <2>3. QED
    BY <2>2, NewerOnesSumToLess
<1>3. p.messages \in Seq(Nat) /\ p.artifacts \in Seq(Nat)
  BY DEF PackableStates
<1>4. Total(p.messages) \in Nat /\ Total(p.artifacts) \in Nat
  BY <1>2, <1>3
<1>5. EstimateTokens(p) = p.system + p.retrieval + Total(p.messages) + Total(p.artifacts)
  BY DEF EstimateTokens
<1>6. QED
  BY <1>1, <1>4, <1>5

LEMMA LeanerStillIsLeaner ==
  ASSUME NEW p \in PackableStates, NEW q, NEW r, Leaner(q, p), Leaner(r, q)
  PROVE  Leaner(r, p)
<1>1. q \in PackableStates /\ r \in PackableStates
  BY DEF Leaner
<1>2. EstimateTokens(p) \in Nat /\ EstimateTokens(q) \in Nat /\ EstimateTokens(r) \in Nat
  BY <1>1, EstimatesAreCounted
<1>3. QED
  BY <1>1, <1>2 DEF Leaner

LEMMA PacksAreLeanerThanThemselves ==
  ASSUME NEW p \in PackableStates
  PROVE  Leaner(p, p)
<1>1. EstimateTokens(p) \in Nat
  BY EstimatesAreCounted
<1>2. QED
  BY <1>1 DEF Leaner

LEMMA AfterIsWhatIsLeft ==
  ASSUME NEW p \in PackableStates, NEW order, NEW n
  PROVE  LET q == After(p, order, n)
         IN /\ q = [system |-> p.system,
                    retrieval |-> IF Dropped(order, n, "retrieval") > 0 THEN 0 ELSE p.retrieval,
                    messages |-> Newer(p.messages, Dropped(order, n, "message")),
                    artifacts |-> Newer(p.artifacts, Dropped(order, n, "artifact"))]
            /\ q.system = p.system
            /\ q.retrieval = IF Dropped(order, n, "retrieval") > 0 THEN 0 ELSE p.retrieval
            /\ q.messages = Newer(p.messages, Dropped(order, n, "message"))
            /\ q.artifacts = Newer(p.artifacts, Dropped(order, n, "artifact"))
<1> DEFINE dropped(kind) == Cardinality({i \in 1 .. n : order[i] = kind})
           newer(seq, k) == SubSeq(seq, k + 1, Len(seq))
<1>1. After(p, order, n) =
        [p EXCEPT !.retrieval = IF dropped("retrieval") > 0 THEN 0 ELSE @,
                  !.messages = newer(@, dropped("message")),
                  !.artifacts = newer(@, dropped("artifact"))]
  BY DEF After
<1>2. \A kind : dropped(kind) = Dropped(order, n, kind)
  BY DEF Dropped
<1>3. \A seq, k : newer(seq, k) = Newer(seq, k)
  BY DEF Newer
<1> HIDE DEF dropped, newer
<1>4. QED
  BY <1>1, <1>2, <1>3 DEF PackableStates

(* However much is dropped, the pack is leaner; all of it leaves it bare.  *)
LEMMA DropsMakeItLeaner ==
  ASSUME NEW p \in PackableStates, NEW order, Len(order) \in Nat, Lists(order, p),
         NEW n \in 0 .. Len(order)
  PROVE  /\ Leaner(After(p, order, n), p)
         /\ n = Len(order) => Bare(After(p, order, n))
<1> DEFINE q == After(p, order, n)
           m == Dropped(order, n, "message")
           r == Dropped(order, n, "retrieval")
           a == Dropped(order, n, "artifact")
           M == Droppable(p).message
           R == Droppable(p).retrieval
           A == Droppable(p).artifact
<1>1. /\ p.system \in Nat /\ p.retrieval \in Nat
      /\ p.messages \in Seq(Nat) /\ p.artifacts \in Seq(Nat)
      /\ Len(p.messages) \in Nat /\ Len(p.artifacts) \in Nat
  BY DroppableAreCounted
<1>2. /\ M = IF Len(p.messages) = 0 THEN 0 ELSE Len(p.messages) - 1
      /\ R = IF p.retrieval > 0 THEN 1 ELSE 0
      /\ A = Len(p.artifacts)
  BY DEF Droppable
<1>3. M \in Nat /\ R \in Nat /\ A \in Nat
  BY <1>1, <1>2
<1>4. Stretch(order, "message", M) /\ Stretch(order, "retrieval", R) /\ Stretch(order, "artifact", A)
  BY DEF Lists, Droppable
<1> HIDE DEF m, r, a, M, R, A
<1>5. /\ m \in 0 .. M /\ r \in 0 .. R /\ a \in 0 .. A
      /\ n = Len(order) => m = M /\ r = R /\ a = A
  BY <1>3, <1>4, StretchesAreCounted DEF m, r, a
<1>6. /\ q = [system |-> p.system, retrieval |-> IF r > 0 THEN 0 ELSE p.retrieval,
              messages |-> Newer(p.messages, m), artifacts |-> Newer(p.artifacts, a)]
      /\ q.system = p.system /\ q.retrieval = IF r > 0 THEN 0 ELSE p.retrieval
      /\ q.messages = Newer(p.messages, m) /\ q.artifacts = Newer(p.artifacts, a)
  BY AfterIsWhatIsLeft DEF m, r, a
<1> HIDE DEF q
<1>7. m \in 0 .. Len(p.messages) /\ a \in 0 .. Len(p.artifacts)
  BY <1>1, <1>2, <1>3, <1>5
<1>8. /\ q.messages \in Seq(Nat) /\ Len(q.messages) = Len(p.messages) - m
      /\ Total(q.messages) <= Total(p.messages)
  BY <1>1, <1>6, <1>7, NewerOnesSumToLess
<1>9. /\ q.artifacts \in Seq(Nat) /\ Len(q.artifacts) = Len(p.artifacts) - a
      /\ Total(q.artifacts) <= Total(p.artifacts)
  BY <1>1, <1>6, <1>7, NewerOnesSumToLess
<1>10. q.retrieval \in Nat /\ q.retrieval <= p.retrieval
  BY <1>1, <1>6
<1>11. q \in PackableStates
  <2>1. Newer(p.messages, m) \in Seq(Nat) /\ Newer(p.artifacts, a) \in Seq(Nat)
    BY <1>6, <1>8, <1>9
  <2>2. (IF r > 0 THEN 0 ELSE p.retrieval) \in Nat
    BY <1>1
  <2>3. QED
    BY <1>1, <1>6, <2>1, <2>2 DEF PackableStates
<1>12. EstimateTokens(q) <= EstimateTokens(p)
  <2>1. /\ p.system \in Nat /\ p.retrieval \in Nat
        /\ Total(p.messages) \in Nat /\ Total(p.artifacts) \in Nat
        /\ EstimateTokens(p) = p.system + p.retrieval + Total(p.messages) + Total(p.artifacts)
    BY EstimatesAreCounted
  <2>2. /\ q.system \in Nat /\ q.retrieval \in Nat
        /\ Total(q.messages) \in Nat /\ Total(q.artifacts) \in Nat
        /\ EstimateTokens(q) = q.system + q.retrieval + Total(q.messages) + Total(q.artifacts)
    BY <1>11, EstimatesAreCounted
  <2>3. QED
    BY <2>1, <2>2, <1>6, <1>8, <1>9, <1>10
<1>13. (p.messages # <<>>) => (q.messages # <<>>)
  <2>1. HAVE p.messages # <<>>
  <2>2. Len(p.messages) # 0
    BY <1>1, <2>1
  <2>3. Len(q.messages) # 0
    BY <1>1, <1>2, <1>3, <1>5, <1>8, <2>2
  <2>4. QED
    BY <2>3
<1>14. n = Len(order) => Bare(q)
  <2>1. HAVE n = Len(order)
  <2>2. m = M /\ r = R /\ a = A
    BY <1>5, <2>1
  <2>3. q.retrieval = 0
    BY <1>1, <1>2, <1>6, <2>2
  <2>4. Len(q.artifacts) = 0 /\ Len(q.messages) <= 1
    BY <1>1, <1>2, <1>8, <1>9, <2>2
  <2>5. QED
    BY <2>3, <2>4 DEF Bare
<1>15. QED
  BY <1>11, <1>12, <1>13, <1>14 DEF Leaner, q

LEMMA BareEstimates ==
  ASSUME NEW p \in PackableStates, Bare(p)
  PROVE  /\ p.system \in Nat /\ OnlyMessage(p) \in Nat
         /\ EstimateTokens(p) = p.system + OnlyMessage(p)
<1>1. /\ p.system \in Nat /\ p.messages \in Seq(Nat) /\ p.artifacts \in Seq(Nat)
      /\ p.retrieval = 0 /\ Len(p.artifacts) = 0 /\ Len(p.messages) <= 1
  BY DEF PackableStates, Bare
<1>2. EstimateTokens(p) = p.system + 0 + Total(p.messages) + Total(p.artifacts)
  BY <1>1, EstimatesAreCounted
<1>3. Total(p.artifacts) = 0
  <2>1. p.artifacts = <<>>
    BY <1>1
  <2>2. QED
    BY <2>1, TotalsOfFew
<1>4. OnlyMessage(p) \in Nat /\ Total(p.messages) = OnlyMessage(p)
  <2>1. CASE Len(p.messages) = 1
    <3>1. p.messages[1] \in Nat /\ p.messages = <<p.messages[1]>>
      BY <1>1, <2>1
    <3>2. Total(<<p.messages[1]>>) = p.messages[1]
      BY <3>1, TotalsOfFew
    <3>3. QED
      BY <2>1, <3>1, <3>2 DEF OnlyMessage
  <2>2. CASE Len(p.messages) # 1
    <3>1. p.messages = <<>>
      <4>1. p.messages \in Seq(Nat) /\ Len(p.messages) \in Nat /\ Len(p.messages) <= 1
        BY <1>1
      <4>2. \A n \in Nat : n <= 1 => n = 0 \/ n = 1
        OBVIOUS
      <4>3. Len(p.messages) = 0
        BY <2>2, <4>1, <4>2
      <4>4. QED
        BY <4>1, <4>3
    <3>2. QED
      BY <2>2, <3>1, TotalsOfFew DEF OnlyMessage
  <2>3. QED
    BY <2>1, <2>2
<1>5. QED
  BY <1>1, <1>2, <1>3, <1>4

LEMMA FittingPacksAreNotCut ==
  ASSUME NEW p \in PackableStates, NEW ceiling \in Nat, EstimateTokens(p) <= ceiling
  PROVE  ShrinkLargestTextField(p, ceiling) = p
<1>1. EstimateTokens(p) \in Nat
  BY EstimatesAreCounted
<1>2. QED
  BY <1>1 DEF ShrinkLargestTextField

(* A cut leaves to its field what the other leaves of the ceiling.         *)
Left(ceiling, others) == IF ceiling > others THEN ceiling - others ELSE 0

LEMMA CutsLeaveTheRest ==
  ASSUME NEW p \in PackableStates, Bare(p), NEW ceiling \in Nat, EstimateTokens(p) > ceiling
  PROVE  LET s == ShrinkLargestTextField(p, ceiling)
         IN /\ Leaner(s, p) /\ Bare(s)
            /\ IF OnlyMessage(p) > p.system
               THEN s.system = p.system /\ OnlyMessage(s) = Left(ceiling, p.system)
               ELSE s.system = Left(ceiling, OnlyMessage(p)) /\ OnlyMessage(s) = OnlyMessage(p)
<1> DEFINE s == ShrinkLargestTextField(p, ceiling)
           m == OnlyMessage(p)
           total == EstimateTokens(p)
           left(others) == IF ceiling > others THEN ceiling - others ELSE 0
<1>1. p.system \in Nat /\ m \in Nat /\ total = p.system + m
  BY BareEstimates
<1>2. s = CASE total <= ceiling -> p
            [] total > ceiling /\ m > p.system -> [p EXCEPT !.messages = <<left(total - m)>>]
            [] OTHER -> [p EXCEPT !.system = left(total - p.system)]
  BY DEF ShrinkLargestTextField, OnlyMessage
<1>3. \A others : left(others) = Left(ceiling, others)
  BY DEF Left
<1>4. p.messages \in Seq(Nat) /\ p.artifacts \in Seq(Nat) /\ p.retrieval \in Nat
  BY DEF PackableStates
<1> HIDE DEF s, left
<1>5. CASE m > p.system
  <2>1. s = [p EXCEPT !.messages = <<Left(ceiling, p.system)>>]
    <3>1. total - m = p.system /\ ~(total <= ceiling) /\ total > ceiling
      BY <1>1
    <3> HIDE DEF m, total
    <3>2. QED
      BY <1>2, <1>3, <1>5, <3>1
  <2>2. Left(ceiling, p.system) \in Nat /\ Left(ceiling, p.system) <= m
    BY <1>1 DEF Left
  <2>3. /\ s = [system |-> p.system, retrieval |-> p.retrieval,
                messages |-> <<Left(ceiling, p.system)>>, artifacts |-> p.artifacts]
        /\ s.system = p.system /\ s.retrieval = p.retrieval
        /\ s.messages = <<Left(ceiling, p.system)>> /\ s.artifacts = p.artifacts
    BY <2>1 DEF PackableStates
  <2>4. s \in PackableStates
    <3>1. <<Left(ceiling, p.system)>> \in Seq(Nat)
      BY <2>2
    <3>2. QED
      BY <1>1, <1>4, <2>3, <3>1 DEF PackableStates
  <2>5. Bare(s) /\ OnlyMessage(s) = Left(ceiling, p.system)
    BY <2>3 DEF Bare, OnlyMessage
  <2>6. EstimateTokens(s) = p.system + Left(ceiling, p.system)
    BY <2>3, <2>4, <2>5, BareEstimates
  <2>7. EstimateTokens(s) <= EstimateTokens(p)
    BY <1>1, <2>2, <2>6
  <2>8. s.messages # <<>>
    BY <2>3
  <2>9. Leaner(s, p)
    BY <2>4, <2>7, <2>8 DEF Leaner
  <2>10. QED
    BY <1>5, <2>3, <2>5, <2>9 DEF s, m
<1>6. CASE ~(m > p.system)
  <2>1. s = [p EXCEPT !.system = Left(ceiling, m)]
    <3>1. total - p.system = m /\ ~(total <= ceiling)
      BY <1>1
    <3> HIDE DEF m, total
    <3>2. QED
      BY <1>2, <1>3, <1>6, <3>1
  <2>2. Left(ceiling, m) \in Nat /\ Left(ceiling, m) <= p.system
    BY <1>1 DEF Left
  <2>3. /\ s = [system |-> Left(ceiling, m), retrieval |-> p.retrieval,
                messages |-> p.messages, artifacts |-> p.artifacts]
        /\ s.system = Left(ceiling, m) /\ s.retrieval = p.retrieval
        /\ s.messages = p.messages /\ s.artifacts = p.artifacts
    BY <2>1 DEF PackableStates
  <2>4. s \in PackableStates
    BY <1>4, <2>2, <2>3 DEF PackableStates
  <2>5. Bare(s) /\ OnlyMessage(s) = m
    BY <2>3 DEF Bare, OnlyMessage
  <2>6. EstimateTokens(s) = Left(ceiling, m) + m
    BY <2>3, <2>4, <2>5, BareEstimates
  <2>7. EstimateTokens(s) <= EstimateTokens(p)
    BY <1>1, <2>2, <2>6
  <2>9. Leaner(s, p)
    BY <2>3, <2>4, <2>7 DEF Leaner
  <2>10. QED
    BY <1>6, <2>3, <2>5, <2>9 DEF s, m
<1>7. QED
  BY <1>5, <1>6

LEMMA TwoCutsFit ==
  ASSUME NEW p \in PackableStates, Bare(p), NEW ceiling \in Nat
  PROVE  LET once == ShrinkLargestTextField(p, ceiling)
             twice == ShrinkLargestTextField(once, ceiling)
         IN /\ Leaner(once, p) /\ Leaner(twice, p)
            /\ EstimateTokens(twice) <= ceiling
<1> DEFINE once == ShrinkLargestTextField(p, ceiling)
           twice == ShrinkLargestTextField(once, ceiling)
           Fits(q) == EstimateTokens(q) <= ceiling
<1>1. Leaner(p, p) /\ EstimateTokens(p) \in Nat
  BY PacksAreLeanerThanThemselves, EstimatesAreCounted
<1>2. CASE Fits(p)
  <2>1. once = p /\ twice = p
    BY <1>2, FittingPacksAreNotCut
  <2>2. QED
    BY <1>1, <1>2, <2>1
<1>3. CASE ~Fits(p)
  <2>1. EstimateTokens(p) > ceiling
    BY <1>1, <1>3
  <2> HIDE DEF once, twice, Fits
  <2>2. /\ Leaner(once, p) /\ Bare(once)
        /\ IF OnlyMessage(p) > p.system
           THEN once.system = p.system /\ OnlyMessage(once) = Left(ceiling, p.system)
           ELSE once.system = Left(ceiling, OnlyMessage(p)) /\ OnlyMessage(once) = OnlyMessage(p)
    BY <2>1, CutsLeaveTheRest DEF once
  <2>3. once \in PackableStates
    BY <2>2 DEF Leaner
  <2>4. Leaner(once, once) /\ EstimateTokens(once) \in Nat
    BY <2>3, PacksAreLeanerThanThemselves, EstimatesAreCounted
  <2>5. CASE Fits(once)
    <3>1. twice = once
      BY <2>3, <2>5, FittingPacksAreNotCut DEF twice, Fits
    <3>2. QED
      BY <2>2, <2>5, <3>1 DEF once, twice, Fits
  <2>6. CASE ~Fits(once)
    <3>1. EstimateTokens(once) > ceiling
      BY <2>4, <2>6 DEF Fits
    <3>2. /\ Leaner(twice, once) /\ Bare(twice)
          /\ IF OnlyMessage(once) > once.system
             THEN twice.system = once.system /\ OnlyMessage(twice) = Left(ceiling, once.system)
             ELSE /\ twice.system = Left(ceiling, OnlyMessage(once))
                  /\ OnlyMessage(twice) = OnlyMessage(once)
      BY <2>2, <2>3, <3>1, CutsLeaveTheRest DEF twice
    <3>3. twice \in PackableStates
      BY <3>2 DEF Leaner
    <3>4. /\ p.system \in Nat /\ OnlyMessage(p) \in Nat
          /\ once.system \in Nat /\ OnlyMessage(once) \in Nat
          /\ EstimateTokens(p) = p.system + OnlyMessage(p)
          /\ EstimateTokens(once) = once.system + OnlyMessage(once)
          /\ EstimateTokens(twice) = twice.system + OnlyMessage(twice)
      BY <2>2, <2>3, <3>2, <3>3, BareEstimates
    <3>5. EstimateTokens(twice) <= ceiling
      BY <2>1, <2>2, <3>1, <3>2, <3>4 DEF Left
    <3>6. Leaner(twice, p)
      BY <2>2, <3>2, LeanerStillIsLeaner
    <3>7. QED
      BY <2>2, <3>5, <3>6 DEF once, twice
  <2>7. QED
    BY <2>5, <2>6
<1>4. QED
  BY <1>2, <1>3

LEMMA LeastOfMany ==
  ASSUME NEW S \in SUBSET Nat, S # {}
  PROVE  Min(S) \in S /\ \A y \in S : Min(S) <= y
BY LeastElement DEF Min

(* A compaction makes the pack leaner, and it fits unless the rounds run   *)
(* out first.                                                              *)
LEMMA CompactedPacksFit ==
  ASSUME NEW p \in PackableStates, NEW order, Len(order) \in Nat, Lists(order, p),
         NEW ceiling \in Nat
  PROVE  LET q == Compacted(p, order, ceiling)
         IN /\ Leaner(q, p)
            /\ EstimateTokens(q) <= ceiling \/ Len(order) + 2 > CompactionGuard
<1> DEFINE L == Len(order)
           G == CompactionGuard
           allowed == Min({L, G})
           fits(n) == EstimateTokens(After(p, order, n)) <= ceiling
           enough == {n \in 0 .. allowed : fits(n)}
           drops == IF enough = {} THEN allowed ELSE Min(enough)
           dropped == After(p, order, drops)
           once == IF drops < G /\ drops = L
                   THEN ShrinkLargestTextField(dropped, ceiling) ELSE dropped
           q == IF drops + 1 < G /\ drops = L
                THEN ShrinkLargestTextField(once, ceiling) ELSE once
<1>1. Compacted(p, order, ceiling) = q
  BY DEF Compacted
<1>2. L \in Nat /\ G \in Nat
  BY CompactionGuardAssumption
<1>3. allowed \in {L, G} /\ allowed <= L /\ allowed <= G
  <2>1. {L, G} \in SUBSET Nat /\ {L, G} # {} /\ L \in {L, G} /\ G \in {L, G}
    BY <1>2
  <2>2. QED
    BY <2>1, LeastOfMany
<1> HIDE DEF L, G, allowed, fits
<1>4. allowed \in Nat
  BY <1>2, <1>3
<1>5. drops \in 0 .. allowed /\ (enough # {} => fits(drops)) /\ (enough = {} => drops = allowed)
  <2>1. CASE enough = {}
    BY <1>4, <2>1
  <2>2. CASE enough # {}
    <3>1. enough \in SUBSET Nat
      BY <1>4
    <3>2. Min(enough) \in enough
      <4> HIDE DEF enough
      <4>1. QED
        BY <2>2, <3>1, LeastOfMany
    <3>3. QED
      BY <2>2, <3>2
  <2>3. QED
    BY <2>1, <2>2
<1> HIDE DEF drops, enough
<1>6. drops \in 0 .. L
  BY <1>2, <1>3, <1>4, <1>5
<1>7. Leaner(dropped, p) /\ (drops = L => Bare(dropped))
  BY <1>6, DropsMakeItLeaner DEF L
<1>8. dropped \in PackableStates
  BY <1>7 DEF Leaner
<1>9. (enough # {}) => EstimateTokens(dropped) <= ceiling
  BY <1>5 DEF fits
<1> HIDE DEF dropped
<1> DEFINE cut(x) == ShrinkLargestTextField(x, ceiling)
<1>10. drops = L => Leaner(cut(dropped), dropped) /\ Leaner(cut(cut(dropped)), dropped)
                    /\ EstimateTokens(cut(cut(dropped))) <= ceiling
  BY <1>7, <1>8, TwoCutsFit
<1>11. EstimateTokens(dropped) <= ceiling => cut(dropped) = dropped
  BY <1>8, FittingPacksAreNotCut
<1>12. once = (IF drops < G /\ drops = L THEN cut(dropped) ELSE dropped)
       /\ q = IF drops + 1 < G /\ drops = L THEN cut(once) ELSE once
  OBVIOUS
<1> HIDE DEF cut, once, q
<1>13. q = dropped \/ (drops = L /\ (q = cut(dropped) \/ q = cut(cut(dropped))))
  BY <1>2, <1>6, <1>12
<1>14. Leaner(q, dropped)
  BY <1>8, <1>10, <1>13, PacksAreLeanerThanThemselves
<1>15. Leaner(q, p)
  BY <1>7, <1>14, LeanerStillIsLeaner
<1>16. EstimateTokens(q) <= ceiling \/ L + 2 > G
  <2>1. CASE enough # {}
    <3>1. EstimateTokens(dropped) <= ceiling /\ cut(dropped) = dropped
      BY <1>9, <1>11, <2>1
    <3>2. q = dropped
      BY <1>13, <3>1
    <3>3. QED
      BY <3>1, <3>2
  <2>2. CASE enough = {} /\ L + 2 <= G
    <3>1. drops = L
      BY <1>2, <1>3, <1>5, <2>2
    <3>2. q = cut(cut(dropped))
      BY <1>2, <1>12, <2>2, <3>1
    <3>3. QED
      BY <1>10, <3>1, <3>2
  <2>3. QED
    BY <1>2, <2>1, <2>2
<1>17. QED
  BY <1>1, <1>15, <1>16 DEF L, G

LEMMA LeanerPacksDropNoMore ==
  ASSUME NEW p \in PackableStates
  PROVE  LET q == [p EXCEPT !.retrieval = 0]
         IN /\ q \in PackableStates /\ q.messages = p.messages
            /\ Len(ApiKeyOrder(q)) <= Len(ApiKeyOrder(p))
<1> DEFINE q == [p EXCEPT !.retrieval = 0]
<1>1. /\ q = [system |-> p.system, retrieval |-> 0, messages |-> p.messages,
              artifacts |-> p.artifacts]
      /\ q.messages = p.messages /\ q.artifacts = p.artifacts /\ q.retrieval = 0
  <2>1. q = [system |-> p.system, retrieval |-> 0, messages |-> p.messages,
             artifacts |-> p.artifacts]
    <3>1. p = [system |-> p.system, retrieval |-> p.retrieval, messages |-> p.messages,
               artifacts |-> p.artifacts]
      BY DEF PackableStates
    <3>2. DOMAIN q = DOMAIN p /\ q.system = p.system /\ q.retrieval = 0
          /\ q.messages = p.messages /\ q.artifacts = p.artifacts
      BY <3>1
    <3>3. q = [k \in DOMAIN p |-> q[k]] /\ DOMAIN p = {"system", "retrieval", "messages", "artifacts"}
      BY <3>1
    <3> HIDE DEF q
    <3>4. QED
      BY <3>2, <3>3
  <2> HIDE DEF q
  <2>2. QED
    BY <2>1
<1>2. q \in PackableStates
  BY <1>1 DEF PackableStates
<1> HIDE DEF q
<1>3. /\ Len(ApiKeyOrder(q)) = Droppable(q).message + Droppable(q).retrieval + Droppable(q).artifact
      /\ Len(ApiKeyOrder(p)) = Droppable(p).message + Droppable(p).retrieval + Droppable(p).artifact
  BY <1>2, OrdersListAll DEF Lists
<1>4. /\ Droppable(q).message = Droppable(p).message
      /\ Droppable(q).artifact = Droppable(p).artifact
      /\ Droppable(q).retrieval = 0
  BY <1>1 DEF Droppable
<1>5. /\ Droppable(p).message \in Nat /\ Droppable(p).artifact \in Nat
      /\ Droppable(p).retrieval \in Nat
  BY DroppableAreCounted
<1>6. Len(ApiKeyOrder(q)) <= Len(ApiKeyOrder(p))
  BY <1>3, <1>4, <1>5
<1>7. QED
  BY <1>1, <1>2, <1>6 DEF q

LEMMA StylesPackToFit ==
  ASSUME NEW p \in PackableStates, NEW ceiling \in Nat
  PROVE  /\ Leaner(CompactSubscriptionStyle(p, ceiling), p)
         /\ Leaner(CompactApiKeyStyle(p, ceiling), p)
         /\ \/ EstimateTokens(CompactSubscriptionStyle(p, ceiling)) <= ceiling
            \/ Len(ApiKeyOrder(p)) + 2 > CompactionGuard
         /\ \/ EstimateTokens(CompactApiKeyStyle(p, ceiling)) <= ceiling
            \/ Len(ApiKeyOrder(p)) + 2 > CompactionGuard
<1>1. /\ Lists(SubscriptionOrder(p), p) /\ Lists(ApiKeyOrder(p), p)
      /\ Len(ApiKeyOrder(p)) \in Nat /\ Len(SubscriptionOrder(p)) = Len(ApiKeyOrder(p))
  BY OrdersListAll
<1>2. /\ Leaner(Compacted(p, SubscriptionOrder(p), ceiling), p)
      /\ \/ EstimateTokens(Compacted(p, SubscriptionOrder(p), ceiling)) <= ceiling
         \/ Len(SubscriptionOrder(p)) + 2 > CompactionGuard
  BY <1>1, CompactedPacksFit
<1>3. /\ Leaner(Compacted(p, ApiKeyOrder(p), ceiling), p)
      /\ \/ EstimateTokens(Compacted(p, ApiKeyOrder(p), ceiling)) <= ceiling
         \/ Len(ApiKeyOrder(p)) + 2 > CompactionGuard
  BY <1>1, CompactedPacksFit
<1>4. QED
  BY <1>1, <1>2, <1>3 DEF CompactSubscriptionStyle, CompactApiKeyStyle

(* Whatever the mode, the pack fits the plan's ceiling or has too many     *)
(* sections, keeps a message, and is estimated at no more than it began.   *)
LEMMA BuiltPacksFit ==
  ASSUME NEW mode \in Modes, NEW plan, plan.context_ceiling_tokens \in Nat,
         NEW task \in PackableStates
  PROVE  LET built == BuildContextPack(mode, plan, task)
         IN /\ \/ built.after <= plan.context_ceiling_tokens
               \/ Len(ApiKeyOrder(task)) + 2 > CompactionGuard
            /\ (task.messages # <<>>) => (built.packed.messages # <<>>)
            /\ built.after \in Nat /\ built.after <= built.before
<1> DEFINE ceiling == plan.context_ceiling_tokens
           start == IF plan.optional_passes_included THEN task ELSE [task EXCEPT !.retrieval = 0]
           sub == CompactSubscriptionStyle(start, ceiling)
           packed == CASE mode = "subscription" -> sub
                       [] mode = "api_key" -> CompactApiKeyStyle(start, ceiling)
                       [] mode = "hybrid" -> IF EstimateTokens(sub) > ceiling
                                             THEN CompactApiKeyStyle(sub, ceiling) ELSE sub
           built == BuildContextPack(mode, plan, task)
           many == Len(ApiKeyOrder(task)) + 2 > CompactionGuard
<1>1. built = [packed |-> packed, before |-> EstimateTokens(start), after |-> EstimateTokens(packed)]
  BY DEF BuildContextPack
<1>2. /\ start \in PackableStates /\ start.messages = task.messages
      /\ Len(ApiKeyOrder(start)) <= Len(ApiKeyOrder(task))
      /\ Len(ApiKeyOrder(start)) \in Nat /\ Len(ApiKeyOrder(task)) \in Nat
  <2>1. Len(ApiKeyOrder(task)) \in Nat
    BY OrdersListAll
  <2>2. CASE plan.optional_passes_included
    BY <2>1, <2>2
  <2>3. CASE ~plan.optional_passes_included
    <3>1. start = [task EXCEPT !.retrieval = 0]
      BY <2>3
    <3> HIDE DEF start
    <3>2. /\ start \in PackableStates /\ start.messages = task.messages
          /\ Len(ApiKeyOrder(start)) <= Len(ApiKeyOrder(task))
      BY <3>1, LeanerPacksDropNoMore
    <3>3. QED
      BY <2>1, <3>2, OrdersListAll
  <2>4. QED
    BY <2>2, <2>3
<1>3. ceiling \in Nat
  OBVIOUS
<1> HIDE DEF start, ceiling, built
<1>4. CompactionGuard \in Nat
  BY CompactionGuardAssumption
<1>5. /\ Leaner(sub, start) /\ (EstimateTokens(sub) <= ceiling \/ many)
      /\ Leaner(CompactApiKeyStyle(start, ceiling), start)
      /\ EstimateTokens(CompactApiKeyStyle(start, ceiling)) <= ceiling \/ many
  <2>1. /\ Leaner(sub, start) /\ Leaner(CompactApiKeyStyle(start, ceiling), start)
        /\ \/ EstimateTokens(sub) <= ceiling
           \/ Len(ApiKeyOrder(start)) + 2 > CompactionGuard
        /\ \/ EstimateTokens(CompactApiKeyStyle(start, ceiling)) <= ceiling
           \/ Len(ApiKeyOrder(start)) + 2 > CompactionGuard
    BY <1>2, <1>3, StylesPackToFit
  <2>2. Len(ApiKeyOrder(start)) + 2 > CompactionGuard => many
    BY <1>2, <1>4
  <2> HIDE DEF sub, many
  <2>3. QED
    BY <2>1, <2>2
<1> HIDE DEF sub, many
<1>6. sub \in PackableStates
  BY <1>5 DEF Leaner
<1>7. Leaner(CompactApiKeyStyle(sub, ceiling), start)
  <2>1. Leaner(CompactApiKeyStyle(sub, ceiling), sub)
    BY <1>3, <1>6, StylesPackToFit
  <2>2. QED
    BY <2>1, <1>2, <1>5, LeanerStillIsLeaner
<1>8. EstimateTokens(sub) > ceiling => many
  <2>1. EstimateTokens(sub) \in Nat
    BY <1>6, EstimatesAreCounted
  <2>2. QED
    BY <2>1, <1>3, <1>5
<1>9. Leaner(packed, start) /\ (EstimateTokens(packed) <= ceiling \/ many)
  <2>1. CASE mode = "subscription"
    BY <2>1, <1>5
  <2>2. CASE mode = "api_key"
    BY <2>2, <1>5
  <2>3. CASE mode = "hybrid"
    <3>1. packed = IF EstimateTokens(sub) > ceiling
                   THEN CompactApiKeyStyle(sub, ceiling) ELSE sub
      BY <2>3
    <3> HIDE DEF packed
    <3>2. CASE EstimateTokens(sub) > ceiling
      BY <3>1, <3>2, <1>7, <1>8
    <3>3. CASE ~(EstimateTokens(sub) > ceiling)
      BY <3>1, <3>3, <1>5
    <3>4. QED
      BY <3>2, <3>3
  <2>4. QED
    BY <2>1, <2>2, <2>3 DEF Modes
<1> HIDE DEF packed
<1>10. packed \in PackableStates /\ EstimateTokens(packed) \in Nat
  <2>1. packed \in PackableStates
    BY <1>9 DEF Leaner
  <2>2. QED
    BY <2>1, EstimatesAreCounted
<1>11. built.packed = packed /\ built.before = EstimateTokens(start)
       /\ built.after = EstimateTokens(packed)
  BY <1>1
<1>12. QED
  BY <1>2, <1>9, <1>10, <1>11 DEF Leaner, built, ceiling, many

(***************************************************************************)
(* What a policy limits.                                                   *)
(***************************************************************************)

LEMMA LatestPacksFit ==
  ASSUME PolicyInv, pack # Unset
  PROVE  /\ policy.mode \in Modes /\ IsPlan(planner, policy.budget)
         /\ \/ pack.after <= planner.context_ceiling_tokens
            \/ Len(ApiKeyOrder(opts.task)) + 2 > CompactionGuard
         /\ (opts.task.messages # <<>>) => (pack.packed.messages # <<>>)
         /\ pack.after \in Nat /\ pack.after <= pack.before
<1>1. IsPlan(planner, policy.budget) /\ pack = BuildContextPack(policy.mode, planner, opts.task)
  BY DEF PolicyInv, AttemptsOK
<1>2. policy.mode \in Modes
  BY ThePolicyIsOne DEF IsPolicy
<1>3. planner.context_ceiling_tokens \in Nat
  BY <1>1 DEF IsPlan
<1>4. opts.task \in PackableStates
  BY TaskInputsAssumption DEF PolicyInv
<1>5. LET built == BuildContextPack(policy.mode, planner, opts.task)
      IN /\ \/ built.after <= planner.context_ceiling_tokens
            \/ Len(ApiKeyOrder(opts.task)) + 2 > CompactionGuard
         /\ (opts.task.messages # <<>>) => (built.packed.messages # <<>>)
         /\ built.after \in Nat /\ built.after <= built.before
  BY <1>2, <1>3, <1>4, BuiltPacksFit
<1>6. QED
  BY <1>1, <1>2, <1>5

LEMMA InvPackFits ==
  PolicyInv => PackFits
BY LatestPacksFit DEF PackFits

LEMMA InvSuccessIsWithinEveryCap ==
  PolicyInv => SuccessIsWithinEveryCap
<1> DEFINE base == Merged(opts.machine, opts.skill, opts.project)
           key == "max_estimated_cost_minor"
           cap == policy.budget[key]
<1> SUFFICES ASSUME PolicyInv, status = "success", policy.mode # "subscription",
                    key \in DOMAIN base
             PROVE  /\ meter.actual_cost_minor <= base[key]
                    /\ meter.actual_cost_minor <= Get(opts.route, key, base[key])
  BY DEF SuccessIsWithinEveryCap
<1>1. /\ key \in DOMAIN policy.budget /\ cap \in Nat
      /\ base[key] \in Nat /\ cap <= base[key]
      /\ Get(opts.route, key, base[key]) \in Nat
      /\ cap <= Get(opts.route, key, base[key])
  <2>1. key \in CAP_KEYS
    BY DEF CAP_KEYS
  <2>2. QED
    BY <2>1, CapsAreNarrowed
<1>2. planner # Unset /\ ~DetectPolicyViolation(policy, meter)
  BY DEF PolicyInv, MeasuredOK
<1>3. PICK output \in Nat : \E answer :
        meter = Observe(policy.mode, planner.model_tier, pack.after, output, answer)
  BY DEF PolicyInv, MeasuredOK
<1>4. PICK answer :
        meter = Observe(policy.mode, planner.model_tier, pack.after, output, answer)
  BY <1>3
<1>5. pack = BuildContextPack(policy.mode, planner, opts.task)
  BY <1>2 DEF PolicyInv, AttemptsOK
<1>6. pack # Unset
  <2>1. "after" \in DOMAIN pack
    BY <1>5 DEF BuildContextPack
  <2>2. DOMAIN Unset = {}
    BY DEF Unset
  <2>3. QED
    BY <2>1, <2>2
<1>7. /\ policy.mode \in Modes \ {"subscription"} /\ planner.model_tier \in Tiers
      /\ pack.after \in Nat
  BY <1>6, LatestPacksFit DEF IsPlan
<1>8. meter.actual_cost_minor \in Nat
  BY <1>4, <1>7, CostsAreCounted
<1>9. SpendCapped(policy.budget)
  BY <1>1 DEF SpendCapped, Get
<1>10. ~(meter.actual_cost_minor > cap)
  BY <1>2, <1>9 DEF DetectPolicyViolation
<1> HIDE DEF base, key, cap
<1>11. QED
  BY <1>1, <1>8, <1>10

(* However an execution goes on, every pack fits its ceiling and a success *)
(* stays under every cap on its cost.                                      *)
THEOREM ThePolicyIsKept == PolicySpec => []PolicyIsKept
<1>1. PolicyInv => PolicyIsKept
  BY InvPackFits, InvSuccessIsWithinEveryCap DEF PolicyIsKept
<1>2. QED
  BY <1>1, PolicyInvInitially, PolicyInvStep, PTL DEF PolicySpec
=============================================================================
