------------------------- MODULE WorkerStores_proofs -------------------------
(***************************************************************************)
(* What the Worker keeps beside the tasks: theorems about the              *)
(* retrospectives, the task index and the snapshots of the dashboard, each *)
(* from an invariant of its own.                                           *)
(***************************************************************************)
EXTENDS TaskIndex, Retrospectives, DashboardSnapshots, Operators_proofs,
        FiniteSetTheorems

OccursIn(e, list) == \E k \in 1..Len(list) : list[k] = e

(* An element of a list is one of its set. *)
LEMMA InToSet ==
  ASSUME NEW S, NEW list \in Seq(S), NEW e
  PROVE  e \in ToSet(list) <=> OccursIn(e, list)
BY DEF ToSet, OccursIn

----------------------------------------------------------------------------
(* Retrospectives *)

Jobs == [stage : {"idle", "write", "getIndex", "putIndex", "walk", "delete"},
         id : Ids \cup {NoId}, revision : Nat, seen : Seq(Ids),
         todo : Seq(Ids) \cup {WriteOrder, <<"meta">>, << >>},
         stale : SUBSET Ids, left : SUBSET {"artifact", "meta"}]

RetrospectiveTypes ==
    /\ artifact \in [Ids -> Nat] /\ meta \in [Ids -> Nat] /\ told \in [Ids -> Nat]
    /\ index \in Seq(Ids)
    /\ old \in [Ids -> BOOLEAN]
    /\ jobs \in [Slots -> Jobs]
    /\ posted \in Nat /\ overlapped \in BOOLEAN

(* Within the retention a listed id has its summary. *)
Readable(list) == \A k \in 1..Len(list) : ~old[list[k]] => meta[list[k]] # 0

(* What a job has yet to do it may do, whatever others did meanwhile: a    *)
(* writer has written what it has written, and a walker deletes only what  *)
(* is old.                                                                 *)
JobFits(j) ==
    /\ j.stage \in {"write", "getIndex", "putIndex"} => j.id \in Ids /\ j.revision > 0
    /\ j.stage = "write" =>
          \/ j.todo = WriteOrder
          \/ j.todo = <<"meta">> /\ (~old[j.id] => artifact[j.id] # 0)
    /\ j.stage \in {"getIndex", "putIndex"} => (~old[j.id] => meta[j.id] # 0)
    /\ Readable(j.seen)
    /\ j.stage \in {"walk", "delete"} =>
          /\ j.todo \in Seq(Ids) /\ Readable(j.todo)
          /\ \A i \in j.stale : old[i]
    /\ j.stage = "delete" => j.todo # << >> /\ old[Head(j.todo)]

YoungInv ==
    /\ RetrospectiveTypes
    /\ \A i \in Ids : ~old[i] /\ meta[i] # 0 => artifact[i] # 0
    /\ Readable(index)
    /\ \A s \in Slots : JobFits(jobs[s])

(* While jobs take turns, one writes the newest revision, and has seen the *)
(* index as it is.                                                         *)
JobIsCurrent(j) ==
    /\ j.stage \in {"write", "getIndex", "putIndex"} => j.revision = posted
    /\ j.stage = "write" /\ j.todo = <<"meta">> /\ ~old[j.id] => artifact[j.id] = posted
    /\ j.stage \in {"getIndex", "putIndex"} /\ ~old[j.id] =>
          artifact[j.id] = posted /\ meta[j.id] = posted
    /\ j.stage \in {"putIndex", "walk", "delete"} => j.seen = index

Kept(i) ==
    /\ told[i] <= posted
    /\ told[i] # 0 /\ ~old[i] =>
          OccursIn(i, index) /\ meta[i] >= told[i] /\ artifact[i] >= told[i]

StoredInv ==
    ~overlapped =>
        /\ \A s, x \in Slots : jobs[s] # Idle /\ jobs[x] # Idle => s = x
        /\ \A s \in Slots : JobIsCurrent(jobs[s])
        /\ \A i \in Ids : Kept(i)

(* The lists. *)
LEMMA PrependedFacts ==
  ASSUME NEW S, NEW list \in Seq(S), NEW id \in S
  PROVE  /\ Prepended(list, id) \in Seq(S) /\ OccursIn(id, Prepended(list, id))
         /\ \A k \in 1..Len(Prepended(list, id)) :
               Prepended(list, id)[k] = id \/ OccursIn(Prepended(list, id)[k], list)
         /\ \A i : OccursIn(i, list) /\ i # id /\ i \notin Displaced(list, id) =>
               OccursIn(i, Prepended(list, id))
<1>1. DOMAIN list = 1..Len(list) /\ Len(list) \in Nat
  OBVIOUS
<1>2. PICK positions : positions = {n \in DOMAIN list : list[n] # id}
  OBVIOUS
<1>3. PICK others : others = SelectAt(list, positions)
  OBVIOUS
<1>4. others \in Seq(S) /\ Selects(others, list, positions)
  BY <1>3, SelectAtElements
<1>5. Others(list, id) = others
  BY <1>2, <1>3 DEF Others
<1>6. PICK whole : whole = <<id>> \o others
  OBVIOUS
<1>7. /\ whole \in Seq(S) /\ Len(whole) = Len(others) + 1 /\ Len(others) \in Nat
      /\ \A k \in 1..Len(whole) : whole[k] = IF k = 1 THEN id ELSE others[k - 1]
  BY <1>4, <1>6
<1>8. PICK len : len = IF Len(whole) < MaxIndex THEN Len(whole) ELSE MaxIndex
  OBVIOUS
<1>9. len \in 1..Len(whole)
  BY <1>7, <1>8, RetrospectivesAssumption
<1>10. PICK cut : cut = SubSeq(whole, 1, len)
  OBVIOUS
<1>11. cut \in Seq(S) /\ Len(cut) = len /\ \A k \in 1..len : cut[k] = whole[k]
  BY <1>7, <1>9, <1>10
<1>12. Prepended(list, id) = cut
  BY <1>5, <1>6, <1>8, <1>10 DEF Prepended
<1>13. OccursIn(id, cut)
  BY <1>7, <1>9, <1>11 DEF OccursIn
<1>14. ASSUME NEW k \in 1..Len(cut) PROVE cut[k] = id \/ OccursIn(cut[k], list)
  <2>1. CASE k = 1
    BY <1>7, <1>9, <1>11, <2>1
  <2>2. CASE k # 1
    <3>1. k - 1 \in 1..Len(others) /\ cut[k] = others[k - 1]
      BY <1>7, <1>9, <1>11, <2>2
    <3>2. PICK i \in positions \cap 1..Len(list) : others[k - 1] = list[i]
      BY <1>4, <3>1 DEF Selects
    <3>3. list[i] = cut[k] /\ i \in 1..Len(list)
      BY <3>1, <3>2
    <3>4. QED
      BY <3>3, Zenon DEF OccursIn
  <2>3. QED
    BY <2>1, <2>2
<1>15. ASSUME NEW i, OccursIn(i, list), i # id, i \notin Displaced(list, id)
       PROVE  OccursIn(i, cut)
  <2>1. PICK n \in 1..Len(list) : list[n] = i
    BY <1>15 DEF OccursIn
  <2>2. n \in positions \cap 1..Len(list)
    BY <1>1, <1>2, <1>15, <2>1
  <2>3. OccursIn(i, others)
    BY <1>4, <2>1, <2>2 DEF Selects, OccursIn
  <2>4. i \in ToSet(others) /\ (i \in ToSet(cut) => OccursIn(i, cut))
    BY <1>4, <1>11, <2>3, InToSet
  <2>5. QED
    BY <1>5, <1>12, <1>15, <2>4 DEF Displaced
<1>16. QED
  BY <1>11, <1>12, <1>13, <1>14, <1>15

LEMMA PrunedFacts ==
  ASSUME NEW S, NEW list \in Seq(S), NEW stale
  PROVE  /\ Pruned(list, stale) \in Seq(S)
         /\ \A k \in 1..Len(Pruned(list, stale)) : OccursIn(Pruned(list, stale)[k], list)
         /\ \A i : OccursIn(i, list) /\ i \notin stale => OccursIn(i, Pruned(list, stale))
<1>1. DOMAIN list = 1..Len(list)
  OBVIOUS
<1>2. PICK positions : positions = {n \in DOMAIN list : list[n] \notin stale}
  OBVIOUS
<1>3. PICK rest : rest = SelectAt(list, positions)
  OBVIOUS
<1>4. rest \in Seq(S) /\ Selects(rest, list, positions)
  BY <1>3, SelectAtElements
<1>5. Pruned(list, stale) = rest
  BY <1>2, <1>3 DEF Pruned
<1>6. ASSUME NEW i, OccursIn(i, list), i \notin stale PROVE OccursIn(i, rest)
  <2>1. PICK n \in 1..Len(list) : list[n] = i
    BY <1>6 DEF OccursIn
  <2>2. n \in positions \cap 1..Len(list)
    BY <1>1, <1>2, <1>6, <2>1
  <2>3. QED
    BY <1>4, <2>1, <2>2 DEF Selects, OccursIn
<1>7. QED
  BY <1>4, <1>5, <1>6 DEF Selects, OccursIn

LEMMA ReadableElements ==
  ASSUME NEW list \in Seq(Ids)
  PROVE  Readable(list) <=> \A i : OccursIn(i, list) => (~old[i] => meta[i] # 0)
BY DEF Readable, OccursIn

(* A job moves on, alone. *)
JobMoves(s, x) ==
    /\ x \in Jobs /\ jobs' \in [Slots -> Jobs] /\ jobs'[s] = x
    /\ \A r \in Slots : r # s => jobs'[r] = jobs[r]

LEMMA JobChanges ==
  ASSUME RetrospectiveTypes, NEW s \in Slots, NEW x \in Jobs, jobs' = [jobs EXCEPT ![s] = x]
  PROVE  JobMoves(s, x)
BY DEF JobMoves, RetrospectiveTypes

LEMMA IdleIsAJob ==
  /\ Idle \in Jobs /\ Idle.stage = "idle" /\ Idle.seen = << >> /\ Idle.id = NoId
  /\ Idle.stale = {} /\ Idle.todo = << >>
BY DEF Idle, Jobs

LEMMA PostFacts ==
  ASSUME RetrospectiveTypes, NEW s \in Slots, NEW id \in Ids, Post(s, id)
  PROVE  \E x \in Jobs :
             /\ JobMoves(s, x) /\ jobs[s] = Idle /\ posted' = posted + 1
             /\ x.stage = "write" /\ x.id = id /\ x.revision = posted + 1
             /\ x.todo = WriteOrder /\ x.seen = << >> /\ x.stale = {}
             /\ overlapped' = (overlapped \/ \E r \in Slots : jobs[r] # Idle)
             /\ UNCHANGED <<stores, old, told>>
<1>1. PICK idle \in Jobs : idle = Idle
  BY IdleIsAJob
<1>2. PICK x : x = [idle EXCEPT !.stage = "write", !.id = id,
                                !.revision = posted + 1, !.todo = WriteOrder]
  OBVIOUS
<1>3. posted + 1 \in Nat
  BY DEF RetrospectiveTypes
<1>4. /\ x \in Jobs /\ x.stage = "write" /\ x.id = id /\ x.revision = posted + 1
      /\ x.todo = WriteOrder /\ x.seen = idle.seen /\ x.stale = idle.stale
  BY <1>2, <1>3 DEF Jobs
<1>5. x.seen = << >> /\ x.stale = {}
  BY <1>1, <1>4, IdleIsAJob
<1>6. jobs' = [jobs EXCEPT ![s] = x]
  BY <1>1, <1>2 DEF Post, Starts
<1>7. JobMoves(s, x)
  BY <1>4, <1>6, JobChanges
<1>8. QED
  BY <1>4, <1>5, <1>7 DEF Post, Starts

(* A put of a writer, of which the first is the artifact. *)
LEMMA WrittenFacts ==
  ASSUME RetrospectiveTypes, NEW s \in Slots, jobs[s].stage = "write",
         jobs[s].todo = WriteOrder \/ jobs[s].todo = <<"meta">>, Written(s)
  PROVE  \E x \in Jobs :
             /\ JobMoves(s, x)
             /\ x.id = jobs[s].id /\ x.revision = jobs[s].revision /\ x.seen = jobs[s].seen
             /\ IF jobs[s].todo = WriteOrder
                THEN x.stage = "write" /\ x.todo = <<"meta">> /\ Head(jobs[s].todo) = "artifact"
                ELSE x.stage = "getIndex" /\ Head(jobs[s].todo) = "meta"
<1>1. PICK j \in Jobs : j = jobs[s]
  BY DEF RetrospectiveTypes
<1>2. PICK t : t = j.todo
  OBVIOUS
<1>3. \/ t = <<"artifact", "meta">>
      \/ t = <<"meta">>
  BY <1>1, <1>2 DEF WriteOrder
<1>4. t = <<"artifact", "meta">> => Tail(t) = <<"meta">> /\ Len(t) = 2 /\ Head(t) = "artifact"
  OBVIOUS
<1>5. t = <<"meta">> => Tail(t) = << >> /\ Len(t) = 1 /\ Head(t) = "meta"
  OBVIOUS
<1>6. <<"artifact", "meta">> # <<"meta">>
  <2>1. Len(<<"artifact", "meta">>) = 2 /\ Len(<<"meta">>) = 1
    OBVIOUS
  <2>2. QED
    BY <2>1
<1>7. PICK stage : stage = IF Len(t) = 1 THEN "getIndex" ELSE "write"
  OBVIOUS
<1>8. PICK rest : rest = Tail(t)
  OBVIOUS
<1>9. rest \in {<<"meta">>, << >>} /\ stage \in {"getIndex", "write"}
  BY <1>3, <1>4, <1>5, <1>7, <1>8
<1>10. PICK x : x = [j EXCEPT !.todo = rest, !.stage = stage]
  OBVIOUS
<1>11. jobs' = [jobs EXCEPT ![s] = x]
  BY <1>1, <1>2, <1>7, <1>8, <1>10 DEF Written, RetrospectiveTypes
<1>12. /\ x \in Jobs /\ x.id = j.id /\ x.revision = j.revision /\ x.seen = j.seen
       /\ x.stage = stage /\ x.todo = rest
  BY <1>9, <1>10 DEF Jobs
<1>13. JobMoves(s, x)
  BY <1>11, <1>12, JobChanges
<1>14. IF t = <<"artifact", "meta">>
       THEN x.stage = "write" /\ x.todo = <<"meta">> /\ Head(t) = "artifact"
       ELSE x.stage = "getIndex" /\ Head(t) = "meta"
  <2>1. CASE t = <<"artifact", "meta">>
    <3>1. stage = "write" /\ rest = <<"meta">> /\ Head(t) = "artifact"
      <4>1. Len(t) = 2 /\ Tail(t) = <<"meta">> /\ Head(t) = "artifact"
        BY <1>4, <2>1
      <4>2. QED
        BY <1>7, <1>8, <4>1
    <3>2. QED
      BY <1>12, <2>1, <3>1
  <2>2. CASE t = <<"meta">>
    BY <1>5, <1>6, <1>7, <1>12, <2>2
  <2>3. QED
    BY <1>3, <2>1, <2>2
<1>15. QED
  BY <1>1, <1>2, <1>12, <1>13, <1>14 DEF WriteOrder

LEMMA GetIndexFacts ==
  ASSUME RetrospectiveTypes, NEW s \in Slots, GetIndex(s)
  PROVE  \E x \in Jobs :
             /\ JobMoves(s, x) /\ jobs[s].stage = "getIndex"
             /\ x.stage = "putIndex" /\ x.seen = index
             /\ x.id = jobs[s].id /\ x.revision = jobs[s].revision
<1>1. PICK j \in Jobs : j = jobs[s]
  BY DEF RetrospectiveTypes
<1> DEFINE x == [j EXCEPT !.stage = "putIndex", !.seen = index]
<1>2. jobs' = [jobs EXCEPT ![s] = x]
  BY <1>1 DEF GetIndex, RetrospectiveTypes
<1>3. x \in Jobs
  BY DEF Jobs, RetrospectiveTypes
<1>4. JobMoves(s, x)
  BY <1>2, <1>3, JobChanges
<1>5. x.stage = "putIndex" /\ x.seen = index /\ x.id = j.id /\ x.revision = j.revision
  BY DEF Jobs
<1> HIDE DEF x
<1>6. QED
  BY <1>1, <1>3, <1>4, <1>5 DEF GetIndex

(* Jobs that are over, or stopped. *)
LEMMA EndFacts ==
  ASSUME RetrospectiveTypes, NEW s \in Slots, jobs' = [jobs EXCEPT ![s] = Idle]
  PROVE  JobMoves(s, Idle)
BY IdleIsAJob, JobChanges

LEMMA BeginWalkFacts ==
  ASSUME RetrospectiveTypes, NEW s \in Slots, BeginWalk(s)
  PROVE  \E x \in Jobs :
             /\ JobMoves(s, x) /\ jobs[s] = Idle
             /\ x.stage = "walk" /\ x.seen = index /\ x.todo = index /\ x.stale = {}
             /\ overlapped' = (overlapped \/ \E r \in Slots : jobs[r] # Idle)
             /\ UNCHANGED <<stores, old, told, posted>>
<1>1. PICK idle \in Jobs : idle = Idle
  BY IdleIsAJob
<1>2. PICK x : x = [idle EXCEPT !.stage = "walk", !.seen = index, !.todo = index]
  OBVIOUS
<1>3. index \in Seq(Ids)
  BY DEF RetrospectiveTypes
<1>4. /\ x \in Jobs /\ x.stage = "walk" /\ x.seen = index /\ x.todo = index
      /\ x.stale = idle.stale
  BY <1>2, <1>3 DEF Jobs
<1>5. x.stale = {}
  BY <1>1, <1>4, IdleIsAJob
<1>6. jobs' = [jobs EXCEPT ![s] = x]
  BY <1>1, <1>2 DEF BeginWalk, Starts
<1>7. JobMoves(s, x)
  BY <1>4, <1>6, JobChanges
<1>8. QED
  BY <1>4, <1>5, <1>7 DEF BeginWalk, Starts

LEMMA WalkedFacts ==
  ASSUME NEW j \in Jobs, j.todo \in Seq(Ids), j.todo # << >>, NEW stale \in SUBSET Ids
  PROVE  LET x == Walked(j, stale)
         IN  /\ x \in Jobs /\ x.stage = "walk" /\ x.seen = j.seen /\ x.stale = stale
             /\ x.id = j.id /\ x.revision = j.revision
             /\ x.todo = Tail(j.todo) /\ Tail(j.todo) \in Seq(Ids)
<1>1. Tail(j.todo) \in Seq(Ids)
  OBVIOUS
<1>2. PICK rest \in Seq(Ids) : rest = Tail(j.todo)
  BY <1>1
<1>3. PICK x : x = [j EXCEPT !.stage = "walk", !.todo = rest, !.stale = stale, !.left = {}]
  OBVIOUS
<1>4. /\ x \in Jobs /\ x.stage = "walk" /\ x.seen = j.seen /\ x.stale = stale
      /\ x.id = j.id /\ x.revision = j.revision /\ x.todo = rest
  BY <1>3 DEF Jobs
<1>5. Walked(j, stale) = x
  BY <1>2, <1>3 DEF Walked
<1>6. QED
  BY <1>1, <1>2, <1>4, <1>5

(* A walker goes on to the next id, or to deleting what this one names.    *)
Goes(j, x) ==
    /\ x \in Jobs /\ x.seen = j.seen /\ x.id = j.id /\ x.revision = j.revision
    /\ \/ x.stage = "walk" /\ x.todo = Tail(j.todo) /\ x.todo \in Seq(Ids)
       \/ x.stage = "delete" /\ x.todo = j.todo

LEMMA GetMetaFacts ==
  ASSUME RetrospectiveTypes, NEW s \in Slots, GetMeta(s), jobs[s].todo \in Seq(Ids)
  PROVE  \E x \in Jobs :
             /\ JobMoves(s, x) /\ Goes(jobs[s], x) /\ x.stale = jobs[s].stale
             /\ x.stage = "delete" => LET i == Head(jobs[s].todo) IN meta[i] = 0 \/ old[i]
<1>1. PICK j \in Jobs : j = jobs[s]
  BY DEF RetrospectiveTypes
<1>2. j.stage = "walk" /\ j.todo # << >> /\ j.todo \in Seq(Ids) /\ j.stale \in SUBSET Ids
  BY <1>1 DEF GetMeta, Jobs
<1>3. ASSUME NEW left \in SUBSET {"artifact", "meta"},
             jobs' = [jobs EXCEPT ![s] = [j EXCEPT !.stage = "delete", !.left = left]],
             LET i == Head(j.todo) IN meta[i] = 0 \/ old[i]
      PROVE  \E x \in Jobs :
             /\ JobMoves(s, x) /\ Goes(j, x) /\ x.stale = j.stale
             /\ x.stage = "delete" => LET i == Head(j.todo) IN meta[i] = 0 \/ old[i]
  <2>1. PICK x : x = [j EXCEPT !.stage = "delete", !.left = left]
    OBVIOUS
  <2>2. /\ x \in Jobs /\ x.seen = j.seen /\ x.stage = "delete" /\ x.todo = j.todo
        /\ x.stale = j.stale /\ x.id = j.id /\ x.revision = j.revision
    BY <2>1 DEF Jobs
  <2>3. jobs' = [jobs EXCEPT ![s] = x]
    BY <1>3, <2>1
  <2>4. QED
    BY <1>3, <2>2, <2>3, JobChanges DEF Goes
<1>4. ASSUME jobs' = [jobs EXCEPT ![s] = Walked(j, j.stale)]
      PROVE  \E x \in Jobs :
             /\ JobMoves(s, x) /\ Goes(j, x) /\ x.stale = j.stale
             /\ x.stage = "delete" => LET i == Head(j.todo) IN meta[i] = 0 \/ old[i]
  <2>1. PICK x : x = Walked(j, j.stale)
    OBVIOUS
  <2>2. /\ x \in Jobs /\ x.stage = "walk" /\ x.seen = j.seen /\ x.stale = j.stale
        /\ x.id = j.id /\ x.revision = j.revision
        /\ x.todo = Tail(j.todo) /\ x.todo \in Seq(Ids)
    BY <1>2, <2>1, WalkedFacts
  <2>3. jobs' = [jobs EXCEPT ![s] = x]
    BY <1>4, <2>1
  <2>4. QED
    BY <2>2, <2>3, JobChanges DEF Goes
<1>5. \/ /\ jobs' = [jobs EXCEPT ![s] = [j EXCEPT !.stage = "delete", !.left = {"artifact"}]]
         /\ meta[Head(j.todo)] = 0
      \/ /\ jobs' = [jobs EXCEPT ![s] = [j EXCEPT !.stage = "delete",
                                                  !.left = {"artifact", "meta"}]]
         /\ old[Head(j.todo)]
      \/ jobs' = [jobs EXCEPT ![s] = Walked(j, j.stale)]
  BY <1>1 DEF GetMeta
<1>6. \E x \in Jobs :
         /\ JobMoves(s, x) /\ Goes(j, x) /\ x.stale = j.stale
         /\ x.stage = "delete" => LET i == Head(j.todo) IN meta[i] = 0 \/ old[i]
  BY <1>3, <1>4, <1>5
<1>7. QED
  BY <1>1, <1>6

LEMMA DeleteFacts ==
  ASSUME RetrospectiveTypes, NEW s \in Slots, NEW store, Delete(s, store),
         jobs[s].todo \in Seq(Ids), jobs[s].todo # << >>
  PROVE  \E x \in Jobs :
             /\ JobMoves(s, x) /\ Goes(jobs[s], x)
             /\ x.stale \subseteq jobs[s].stale \cup {Head(jobs[s].todo)}
<1>1. PICK j \in Jobs : j = jobs[s]
  BY DEF RetrospectiveTypes
<1>2. /\ j.stage = "delete" /\ j.todo # << >> /\ j.todo \in Seq(Ids)
      /\ j.stale \cup {Head(j.todo)} \in SUBSET Ids
  BY <1>1 DEF Delete, Jobs
<1>3. CASE jobs' = [jobs EXCEPT ![s] = Walked(j, j.stale \cup {Head(j.todo)})]
  <2>1. PICK x : x = Walked(j, j.stale \cup {Head(j.todo)})
    OBVIOUS
  <2>2. /\ x \in Jobs /\ x.stage = "walk" /\ x.seen = j.seen
        /\ x.id = j.id /\ x.revision = j.revision
        /\ x.stale = j.stale \cup {Head(j.todo)}
        /\ x.todo = Tail(j.todo) /\ x.todo \in Seq(Ids)
    BY <1>2, <2>1, WalkedFacts
  <2>3. jobs' = [jobs EXCEPT ![s] = x]
    BY <1>3, <2>1
  <2>4. QED
    BY <1>1, <2>2, <2>3, JobChanges DEF Goes
<1>4. CASE jobs' = [jobs EXCEPT ![s] = [j EXCEPT !.left = @ \ {store}]]
  <2>1. PICK x : x = [j EXCEPT !.left = j.left \ {store}]
    OBVIOUS
  <2>2. /\ x \in Jobs /\ x.seen = j.seen /\ x.stage = "delete" /\ x.todo = j.todo
        /\ x.stale = j.stale /\ x.id = j.id /\ x.revision = j.revision
    BY <1>2, <2>1 DEF Jobs
  <2>3. jobs' = [jobs EXCEPT ![s] = x]
    BY <1>4, <2>1
  <2>4. QED
    BY <1>1, <2>2, <2>3, JobChanges DEF Goes
<1>5. QED
  BY <1>1, <1>3, <1>4 DEF Delete

LEMMA ReadableRest ==
  ASSUME NEW list \in Seq(Ids), Readable(list), list # << >>
  PROVE  /\ Readable(Tail(list)) /\ Head(list) \in Ids
         /\ ~old[Head(list)] => meta[Head(list)] # 0
<1>1. Len(list) \in Nat /\ Len(list) > 0 /\ Head(list) = list[1] /\ list[1] \in Ids
  OBVIOUS
<1>2. PICK rest \in Seq(Ids) : rest = Tail(list)
  <2>1. Tail(list) \in Seq(Ids)
    OBVIOUS
  <2>2. QED
    BY <2>1
<1>3. Len(rest) = Len(list) - 1 /\ \A k \in 1..Len(rest) : rest[k] = list[k + 1]
  BY <1>2
<1>4. Readable(rest)
  <2>1. SUFFICES ASSUME NEW k \in 1..Len(rest), ~old[rest[k]] PROVE meta[rest[k]] # 0
    BY DEF Readable
  <2>2. k + 1 \in 1..Len(list) /\ rest[k] = list[k + 1]
    BY <1>1, <1>3
  <2>3. QED
    BY <2>1, <2>2 DEF Readable
<1>5. QED
  BY <1>1, <1>2, <1>4 DEF Readable

(* What no step of the code does to an artifact that is young.             *)
NothingYoungIsLost ==
    \A i \in Ids : ~old'[i] =>
        /\ ~old[i]
        /\ meta[i] # 0 => meta'[i] # 0
        /\ artifact[i] # 0 => artifact'[i] # 0

LEMMA ReadableStays ==
  ASSUME NothingYoungIsLost, NEW list \in Seq(Ids), Readable(list)
  PROVE  Readable(list)'
<1>1. \A k \in 1..Len(list) : list[k] \in Ids
  OBVIOUS
<1>2. QED
  BY <1>1 DEF Readable, NothingYoungIsLost

LEMMA JobStays ==
  ASSUME NothingYoungIsLost, RetrospectiveTypes, RetrospectiveTypes', NEW j \in Jobs, JobFits(j)
  PROVE  JobFits(j)'
<1>1. j.seen \in Seq(Ids) /\ j.stale \subseteq Ids
  BY DEF Jobs
<1>2. Readable(j.seen)'
  BY <1>1, ReadableStays DEF JobFits
<1>3. ASSUME j.stage \in {"walk", "delete"}
      PROVE  /\ j.todo \in Seq(Ids) /\ Readable(j.todo)'
             /\ \A i \in j.stale : old'[i]
  <2>1. j.todo \in Seq(Ids) /\ Readable(j.todo) /\ \A i \in j.stale : old[i]
    BY <1>3 DEF JobFits
  <2>2. Readable(j.todo)'
    BY <2>1, ReadableStays
  <2>3. QED
    BY <1>1, <2>1, <2>2 DEF NothingYoungIsLost, RetrospectiveTypes
<1>4. ASSUME j.stage = "delete" PROVE j.todo # << >> /\ old'[Head(j.todo)]
  <2>1. j.todo # << >> /\ old[Head(j.todo)] /\ j.todo \in Seq(Ids)
    BY <1>4 DEF JobFits
  <2>2. Head(j.todo) \in Ids
    BY <2>1
  <2>3. QED
    BY <2>1, <2>2 DEF NothingYoungIsLost, RetrospectiveTypes
<1>5. ASSUME j.stage \in {"write", "getIndex", "putIndex"}
      PROVE  /\ j.id \in Ids /\ j.revision > 0
             /\ j.stage = "write" =>
                   \/ j.todo = WriteOrder
                   \/ j.todo = <<"meta">> /\ (~old'[j.id] => artifact'[j.id] # 0)
             /\ j.stage \in {"getIndex", "putIndex"} => (~old'[j.id] => meta'[j.id] # 0)
  BY <1>5 DEF JobFits, NothingYoungIsLost
<1>6. QED
  BY <1>2, <1>3, <1>4, <1>5 DEF JobFits

(* What remains to be shown of a step of one job.                          *)
LEMMA YoungMoves ==
  ASSUME YoungInv, RetrospectiveTypes', NothingYoungIsLost,
         NEW s \in Slots, NEW x, JobMoves(s, x), JobFits(x) \/ JobFits(x)',
         \A i \in Ids : ~old'[i] /\ meta'[i] # 0 => artifact'[i] # 0,
         Readable(index)'
  PROVE  YoungInv'
<1>1. JobFits(x)'
  BY JobStays DEF JobMoves, YoungInv
<1>2. ASSUME NEW r \in Slots PROVE JobFits(jobs[r])'
  <2>1. PICK j \in Jobs : j = jobs'[r]
    BY DEF JobMoves
  <2>2. JobFits(j)'
    <3>1. CASE r = s
      BY <1>1, <2>1, <3>1 DEF JobMoves
    <3>2. CASE r # s
      BY <2>1, <3>2, JobStays DEF JobMoves, YoungInv
    <3>3. QED
      BY <3>1, <3>2
  <2>3. QED
    BY <2>1, <2>2 DEF JobFits, Readable
<1>3. QED
  BY <1>2, Zenon DEF YoungInv

LEMMA IdleFits ==
  /\ JobFits(Idle)
  /\ JobIsCurrent(Idle)
BY IdleIsAJob DEF JobFits, JobIsCurrent, Readable

LEMMA NothingChanges ==
  ASSUME RetrospectiveTypes, UNCHANGED <<stores, old>>
  PROVE  NothingYoungIsLost
BY DEF NothingYoungIsLost, stores

LEMMA PostKeepsYoung ==
  ASSUME YoungInv, NEW s \in Slots, NEW id \in Ids, Post(s, id)
  PROVE  YoungInv'
<1>1. PICK x \in Jobs :
         /\ JobMoves(s, x) /\ jobs[s] = Idle /\ posted' = posted + 1
         /\ x.stage = "write" /\ x.id = id /\ x.revision = posted + 1
         /\ x.todo = WriteOrder /\ x.seen = << >> /\ x.stale = {}
         /\ overlapped' = (overlapped \/ \E r \in Slots : jobs[r] # Idle)
         /\ UNCHANGED <<stores, old, told>>
  BY PostFacts DEF YoungInv
<1>2. RetrospectiveTypes'
  BY <1>1 DEF YoungInv, RetrospectiveTypes, JobMoves, stores
<1>3. NothingYoungIsLost
  BY <1>1, NothingChanges DEF YoungInv
<1>4. JobFits(x)
  <2>1. x.revision > 0
    BY <1>1 DEF YoungInv, RetrospectiveTypes
  <2>2. QED
    BY <1>1, <2>1 DEF JobFits, Readable
<1>5. /\ Readable(index)'
      /\ \A i \in Ids : ~old'[i] /\ meta'[i] # 0 => artifact'[i] # 0
  BY <1>1 DEF YoungInv, Readable, stores
<1>6. QED
  BY <1>1, <1>2, <1>3, <1>4, <1>5, YoungMoves

LEMMA PutArtifactKeepsYoung ==
  ASSUME YoungInv, NEW s \in Slots, PutArtifact(s)
  PROVE  YoungInv'
<1>1. PICK j \in Jobs : j = jobs[s]
  BY DEF YoungInv, RetrospectiveTypes
<1>2. /\ j.stage = "write" /\ JobFits(j) /\ j.id \in Ids /\ j.revision \in Nat \ {0}
      /\ j.todo = WriteOrder \/ j.todo = <<"meta">>
  BY <1>1 DEF YoungInv, PutArtifact, JobFits, Jobs
<1>3. PICK x \in Jobs :
         /\ JobMoves(s, x) /\ x.id = j.id /\ x.revision = j.revision /\ x.seen = j.seen
         /\ IF j.todo = WriteOrder
            THEN x.stage = "write" /\ x.todo = <<"meta">> /\ Head(j.todo) = "artifact"
            ELSE x.stage = "getIndex" /\ Head(j.todo) = "meta"
  BY <1>1, <1>2, WrittenFacts DEF YoungInv, PutArtifact
<1>4. x.stage = "write" /\ x.todo = <<"meta">>
  BY <1>1, <1>3 DEF PutArtifact
<1>5. /\ artifact' = [artifact EXCEPT ![j.id] = j.revision]
      /\ UNCHANGED <<meta, index, old, posted, told, overlapped>>
  BY <1>1 DEF PutArtifact, Written, history
<1>6. RetrospectiveTypes'
  BY <1>2, <1>3, <1>5 DEF YoungInv, RetrospectiveTypes, JobMoves
<1>7. NothingYoungIsLost /\ artifact'[j.id] # 0
  BY <1>2, <1>5 DEF YoungInv, RetrospectiveTypes, NothingYoungIsLost
<1>8. JobFits(x)'
  <2>1. Readable(j.seen)'
    <3>1. j.seen \in Seq(Ids)
      BY DEF Jobs
    <3>2. QED
      BY <1>2, <1>7, <3>1, ReadableStays DEF JobFits
  <2>2. QED
    BY <1>2, <1>3, <1>4, <1>7, <2>1 DEF JobFits
<1>9. Readable(index)'
  BY <1>5 DEF YoungInv, Readable
<1>10. \A i \in Ids : ~old'[i] /\ meta'[i] # 0 => artifact'[i] # 0
  BY <1>5, <1>7 DEF YoungInv, NothingYoungIsLost
<1>11. QED
  BY <1>3, <1>6, <1>7, <1>8, <1>9, <1>10, YoungMoves

LEMMA PutMetaKeepsYoung ==
  ASSUME YoungInv, NEW s \in Slots, PutMeta(s)
  PROVE  YoungInv'
<1>1. PICK j \in Jobs : j = jobs[s]
  BY DEF YoungInv, RetrospectiveTypes
<1>2. /\ j.stage = "write" /\ JobFits(j) /\ j.id \in Ids /\ j.revision \in Nat \ {0}
      /\ j.todo = WriteOrder \/ j.todo = <<"meta">>
  BY <1>1 DEF YoungInv, PutMeta, JobFits, Jobs
<1>3. PICK x \in Jobs :
         /\ JobMoves(s, x) /\ x.id = j.id /\ x.revision = j.revision /\ x.seen = j.seen
         /\ IF j.todo = WriteOrder
            THEN x.stage = "write" /\ x.todo = <<"meta">> /\ Head(j.todo) = "artifact"
            ELSE x.stage = "getIndex" /\ Head(j.todo) = "meta"
  BY <1>1, <1>2, WrittenFacts DEF YoungInv, PutMeta
<1>4. x.stage = "getIndex" /\ (~old[j.id] => artifact[j.id] # 0)
  <2>1. j.todo # WriteOrder
    BY <1>1, <1>3 DEF PutMeta
  <2>2. QED
    BY <1>2, <1>3, <2>1 DEF JobFits
<1>5. /\ meta' = [meta EXCEPT ![j.id] = j.revision]
      /\ UNCHANGED <<artifact, index, old, posted, told, overlapped>>
  BY <1>1 DEF PutMeta, Written, history
<1>6. RetrospectiveTypes'
  BY <1>2, <1>3, <1>5 DEF YoungInv, RetrospectiveTypes, JobMoves
<1>7. NothingYoungIsLost /\ meta'[j.id] # 0
  BY <1>2, <1>5 DEF YoungInv, RetrospectiveTypes, NothingYoungIsLost
<1>8. JobFits(x)'
  <2>1. Readable(j.seen)'
    <3>1. j.seen \in Seq(Ids)
      BY DEF Jobs
    <3>2. QED
      BY <1>2, <1>7, <3>1, ReadableStays DEF JobFits
  <2>2. QED
    BY <1>2, <1>3, <1>4, <1>7, <2>1 DEF JobFits
<1>9. Readable(index)'
  <2>1. index \in Seq(Ids) /\ Readable(index)
    BY DEF YoungInv, RetrospectiveTypes
  <2>2. PICK list : list = index
    OBVIOUS
  <2>3. Readable(list)'
    BY <1>7, <2>1, <2>2, ReadableStays
  <2>4. QED
    BY <1>5, <2>2, <2>3 DEF Readable
<1>10. \A i \in Ids : ~old'[i] /\ meta'[i] # 0 => artifact'[i] # 0
  BY <1>2, <1>4, <1>5 DEF YoungInv, RetrospectiveTypes
<1>11. QED
  BY <1>3, <1>6, <1>7, <1>8, <1>9, <1>10, YoungMoves

LEMMA GetIndexKeepsYoung ==
  ASSUME YoungInv, NEW s \in Slots, GetIndex(s)
  PROVE  YoungInv'
<1>1. PICK j \in Jobs : j = jobs[s]
  BY DEF YoungInv, RetrospectiveTypes
<1>2. PICK x \in Jobs :
         /\ JobMoves(s, x) /\ j.stage = "getIndex"
         /\ x.stage = "putIndex" /\ x.seen = index
         /\ x.id = j.id /\ x.revision = j.revision
  BY <1>1, GetIndexFacts DEF YoungInv
<1>3. UNCHANGED <<stores, old, posted, told, overlapped>>
  BY DEF GetIndex, history
<1>4. RetrospectiveTypes'
  BY <1>2, <1>3 DEF YoungInv, RetrospectiveTypes, JobMoves, stores
<1>5. NothingYoungIsLost
  BY <1>3, NothingChanges DEF YoungInv
<1>6. JobFits(x)
  BY <1>1, <1>2 DEF YoungInv, JobFits
<1>7. /\ Readable(index)'
      /\ \A i \in Ids : ~old'[i] /\ meta'[i] # 0 => artifact'[i] # 0
  BY <1>3 DEF YoungInv, Readable, stores
<1>8. QED
  BY <1>2, <1>4, <1>5, <1>6, <1>7, YoungMoves

LEMMA PutIndexKeepsYoung ==
  ASSUME YoungInv, NEW s \in Slots, PutIndex(s)
  PROVE  YoungInv'
<1>1. PICK j \in Jobs : j = jobs[s]
  BY DEF YoungInv, RetrospectiveTypes
<1>2. /\ j.stage = "putIndex" /\ JobFits(j) /\ j.id \in Ids /\ j.revision \in Nat
      /\ j.seen \in Seq(Ids)
  BY <1>1 DEF YoungInv, PutIndex, JobFits, Jobs
<1>3. PICK list : list = Prepended(j.seen, j.id)
  OBVIOUS
<1>4. PICK displaced : displaced = Displaced(j.seen, j.id)
  OBVIOUS
<1>5. /\ index' = list
      /\ told' = [i \in Ids |-> IF i = j.id THEN j.revision
                                ELSE IF i \in displaced THEN 0 ELSE told[i]]
      /\ jobs' = [jobs EXCEPT ![s] = Idle]
      /\ UNCHANGED <<artifact, meta, old, posted, overlapped>>
  BY <1>1, <1>3, <1>4 DEF PutIndex
<1>6. JobMoves(s, Idle)
  BY <1>5, EndFacts DEF YoungInv
<1>7. list \in Seq(Ids) /\ \A k \in 1..Len(list) : list[k] = j.id \/ OccursIn(list[k], j.seen)
  BY <1>2, <1>3, PrependedFacts
<1>8. RetrospectiveTypes'
  BY <1>2, <1>5, <1>6, <1>7 DEF YoungInv, RetrospectiveTypes, JobMoves
<1>9. NothingYoungIsLost
  BY <1>5 DEF NothingYoungIsLost
<1>10. Readable(index)'
  <2>1. Readable(j.seen) /\ (~old[j.id] => meta[j.id] # 0)
    BY <1>2 DEF JobFits
  <2>2. Readable(list)
    BY <1>2, <1>7, <2>1, ReadableElements DEF Readable
  <2>3. QED
    BY <1>5, <2>2 DEF Readable
<1>11. \A i \in Ids : ~old'[i] /\ meta'[i] # 0 => artifact'[i] # 0
  BY <1>5 DEF YoungInv
<1>12. QED
  BY <1>6, <1>8, <1>9, <1>10, <1>11, IdleFits, YoungMoves

LEMMA BeginWalkKeepsYoung ==
  ASSUME YoungInv, NEW s \in Slots, BeginWalk(s)
  PROVE  YoungInv'
<1>1. PICK x \in Jobs :
         /\ JobMoves(s, x) /\ jobs[s] = Idle
         /\ x.stage = "walk" /\ x.seen = index /\ x.todo = index /\ x.stale = {}
         /\ overlapped' = (overlapped \/ \E r \in Slots : jobs[r] # Idle)
         /\ UNCHANGED <<stores, old, told, posted>>
  BY BeginWalkFacts DEF YoungInv
<1>2. RetrospectiveTypes'
  BY <1>1 DEF YoungInv, RetrospectiveTypes, JobMoves, stores
<1>3. NothingYoungIsLost
  BY <1>1, NothingChanges DEF YoungInv
<1>4. JobFits(x)
  BY <1>1 DEF JobFits, YoungInv, RetrospectiveTypes
<1>5. /\ Readable(index)'
      /\ \A i \in Ids : ~old'[i] /\ meta'[i] # 0 => artifact'[i] # 0
  BY <1>1 DEF YoungInv, Readable, stores
<1>6. QED
  BY <1>1, <1>2, <1>3, <1>4, <1>5, YoungMoves

(* A walker that may walk on, may walk on from where it goes.              *)
LEMMA WalkerFits ==
  ASSUME NEW j \in Jobs, JobFits(j), j.stage \in {"walk", "delete"}, j.todo # << >>,
         NEW x, Goes(j, x), \A i \in x.stale : old[i],
         x.stage = "delete" => old[Head(j.todo)]
  PROVE  JobFits(x)
<1>1. j.todo \in Seq(Ids) /\ Readable(j.todo) /\ Readable(j.seen)
  BY DEF JobFits
<1>2. Readable(Tail(j.todo))
  BY <1>1, ReadableRest
<1>3. x.todo \in Seq(Ids) /\ Readable(x.todo)
  BY <1>1, <1>2 DEF Goes
<1>4. x.seen = j.seen /\ x.stage \in {"walk", "delete"}
  BY DEF Goes
<1>5. x.stage = "delete" => x.todo # << >> /\ old[Head(x.todo)]
  BY DEF Goes
<1>6. QED
  BY <1>1, <1>3, <1>4, <1>5 DEF JobFits

LEMMA GetMetaKeepsYoung ==
  ASSUME YoungInv, NEW s \in Slots, GetMeta(s)
  PROVE  YoungInv'
<1>1. PICK j \in Jobs : j = jobs[s]
  BY DEF YoungInv, RetrospectiveTypes
<1>2. /\ j.stage = "walk" /\ j.todo # << >> /\ JobFits(j)
      /\ j.todo \in Seq(Ids) /\ Readable(j.todo) /\ \A i \in j.stale : old[i]
  BY <1>1 DEF YoungInv, GetMeta, JobFits
<1>3. PICK x \in Jobs :
         /\ JobMoves(s, x) /\ Goes(j, x) /\ x.stale = j.stale
         /\ x.stage = "delete" => meta[Head(j.todo)] = 0 \/ old[Head(j.todo)]
  BY <1>1, <1>2, GetMetaFacts DEF YoungInv
<1>4. UNCHANGED <<stores, old, posted, told, overlapped>>
  BY DEF GetMeta, history
<1>5. RetrospectiveTypes'
  BY <1>3, <1>4 DEF YoungInv, RetrospectiveTypes, JobMoves, stores
<1>6. NothingYoungIsLost
  BY <1>4, NothingChanges DEF YoungInv
<1>7. x.stage = "delete" => old[Head(j.todo)]
  BY <1>2, <1>3, ReadableRest
<1>8. JobFits(x)
  BY <1>2, <1>3, <1>7, WalkerFits
<1>9. /\ Readable(index)'
      /\ \A i \in Ids : ~old'[i] /\ meta'[i] # 0 => artifact'[i] # 0
  BY <1>4 DEF YoungInv, Readable, stores
<1>10. QED
  BY <1>3, <1>5, <1>6, <1>8, <1>9, YoungMoves

(* What a delete can touch.                                                *)
LEMMA DeleteTouches ==
  ASSUME RetrospectiveTypes, NEW s \in Slots, NEW store, Delete(s, store),
         NEW id \in Ids, id = Head(jobs[s].todo)
  PROVE  /\ artifact' \in [Ids -> Nat] /\ meta' \in [Ids -> Nat]
         /\ \A i \in Ids : i # id => artifact'[i] = artifact[i] /\ meta'[i] = meta[i]
         /\ UNCHANGED <<index, old, posted, told, overlapped>>
<1>1. UNCHANGED <<index, old, posted, told, overlapped>>
  BY DEF Delete, history
<1>2. /\ artifact' = artifact \/ artifact' = [artifact EXCEPT ![id] = 0]
      /\ meta' = meta \/ meta' = [meta EXCEPT ![id] = 0]
  <2> DEFINE del(map) == [map EXCEPT ![Head(jobs[s].todo)] = 0]
  <2>1. \/ /\ artifact' = IF store = "artifact" THEN del(artifact) ELSE artifact
           /\ meta' = IF store = "meta" THEN del(meta) ELSE meta
        \/ UNCHANGED <<artifact, meta>>
    BY Zenon DEF Delete
  <2> HIDE DEF del
  <2>2. \/ artifact' = artifact \/ artifact' = del(artifact)
    BY <2>1
  <2>3. \/ meta' = meta \/ meta' = del(meta)
    BY <2>1
  <2>4. QED
    BY <2>2, <2>3 DEF del
<1>3. artifact \in [Ids -> Nat] /\ meta \in [Ids -> Nat]
  BY DEF RetrospectiveTypes
<1>4. QED
  BY <1>1, <1>2, <1>3

LEMMA DeleteKeepsYoung ==
  ASSUME YoungInv, NEW s \in Slots, NEW store, Delete(s, store)
  PROVE  YoungInv'
<1>1. PICK j \in Jobs : j = jobs[s]
  BY DEF YoungInv, RetrospectiveTypes
<1>2. /\ j.stage = "delete" /\ j.todo # << >> /\ JobFits(j)
      /\ j.todo \in Seq(Ids) /\ old[Head(j.todo)] /\ \A i \in j.stale : old[i]
  BY <1>1 DEF YoungInv, Delete, JobFits
<1>3. PICK id \in Ids : id = Head(j.todo)
  <2>1. Head(j.todo) \in Ids
    BY <1>2
  <2>2. QED
    BY <2>1
<1>4. PICK x \in Jobs : JobMoves(s, x) /\ Goes(j, x) /\ x.stale \subseteq j.stale \cup {id}
  BY <1>1, <1>2, <1>3, DeleteFacts DEF YoungInv
<1>5. /\ artifact' \in [Ids -> Nat] /\ meta' \in [Ids -> Nat]
      /\ \A i \in Ids : i # id => artifact'[i] = artifact[i] /\ meta'[i] = meta[i]
      /\ UNCHANGED <<index, old, posted, told, overlapped>>
  BY <1>1, <1>3, DeleteTouches DEF YoungInv
<1>6. RetrospectiveTypes'
  BY <1>4, <1>5 DEF YoungInv, RetrospectiveTypes, JobMoves
<1>7. NothingYoungIsLost
  BY <1>2, <1>3, <1>5 DEF NothingYoungIsLost
<1>8. JobFits(x)
  BY <1>2, <1>3, <1>4, WalkerFits
<1>9. Readable(index)'
  <2>1. PICK list \in Seq(Ids) : list = index
    BY DEF YoungInv, RetrospectiveTypes
  <2>2. Readable(list)'
    BY <1>7, <2>1, ReadableStays DEF YoungInv
  <2>3. QED
    BY <1>5, <2>1, <2>2 DEF Readable
<1>10. \A i \in Ids : ~old'[i] /\ meta'[i] # 0 => artifact'[i] # 0
  BY <1>2, <1>3, <1>5 DEF YoungInv
<1>11. QED
  BY <1>4, <1>6, <1>7, <1>8, <1>9, <1>10, YoungMoves

LEMMA EndWalkKeepsYoung ==
  ASSUME YoungInv, NEW s \in Slots, EndWalk(s)
  PROVE  YoungInv'
<1>1. PICK j \in Jobs : j = jobs[s]
  BY DEF YoungInv, RetrospectiveTypes
<1>2. j.stage = "walk" /\ JobFits(j) /\ j.seen \in Seq(Ids) /\ Readable(j.seen)
  BY <1>1 DEF YoungInv, EndWalk, JobFits, Jobs
<1>3. PICK rest : rest = Pruned(j.seen, j.stale)
  OBVIOUS
<1>4. rest \in Seq(Ids) /\ \A k \in 1..Len(rest) : OccursIn(rest[k], j.seen)
  BY <1>2, <1>3, PrunedFacts
<1>5. Readable(rest)
  BY <1>2, <1>4, ReadableElements DEF Readable
<1>6. /\ index' \in {index, rest}
      /\ jobs' = [jobs EXCEPT ![s] = Idle]
      /\ UNCHANGED <<artifact, meta, old, posted, told, overlapped>>
  BY <1>1, <1>3 DEF EndWalk, history
<1>7. JobMoves(s, Idle)
  BY <1>6, EndFacts DEF YoungInv
<1>8. RetrospectiveTypes'
  BY <1>4, <1>6, <1>7 DEF YoungInv, RetrospectiveTypes, JobMoves
<1>9. NothingYoungIsLost
  BY <1>6 DEF NothingYoungIsLost
<1>10. /\ Readable(index)'
       /\ \A i \in Ids : ~old'[i] /\ meta'[i] # 0 => artifact'[i] # 0
  BY <1>5, <1>6 DEF YoungInv, Readable
<1>11. QED
  BY <1>7, <1>8, <1>9, <1>10, IdleFits, YoungMoves

LEMMA FailKeepsYoung ==
  ASSUME YoungInv, NEW s \in Slots, Fail(s)
  PROVE  YoungInv'
<1>1. UNCHANGED <<stores, old, posted, told, overlapped>> /\ JobMoves(s, Idle)
  BY EndFacts DEF Fail, history, YoungInv
<1>2. RetrospectiveTypes' /\ NothingYoungIsLost
  BY <1>1, NothingChanges DEF YoungInv, RetrospectiveTypes, JobMoves, stores
<1>3. /\ Readable(index)'
      /\ \A i \in Ids : ~old'[i] /\ meta'[i] # 0 => artifact'[i] # 0
  BY <1>1 DEF YoungInv, Readable, stores
<1>4. QED
  BY <1>1, <1>2, <1>3, IdleFits, YoungMoves

(* Time passes over all jobs alike.                                        *)
LEMMA TimeKeepsYoung ==
  ASSUME YoungInv, NEW id \in Ids, Age(id) \/ TtlExpires(id), NEW s \in Slots
  PROVE  YoungInv'
<1>1. /\ UNCHANGED <<artifact, index, jobs, posted, told, overlapped>>
      /\ old' \in [Ids -> BOOLEAN] /\ meta' \in [Ids -> Nat]
      /\ \A i \in Ids : ~old'[i] => ~old[i] /\ meta'[i] = meta[i]
  <2>1. old \in [Ids -> BOOLEAN] /\ meta \in [Ids -> Nat]
    BY DEF YoungInv, RetrospectiveTypes
  <2>2. CASE Age(id)
    BY <2>1, <2>2 DEF Age, history, stores
  <2>3. CASE TtlExpires(id)
    BY <2>1, <2>3 DEF TtlExpires, history
  <2>4. QED
    BY <2>2, <2>3
<1>2. RetrospectiveTypes'
  BY <1>1 DEF YoungInv, RetrospectiveTypes
<1>3. NothingYoungIsLost
  BY <1>1 DEF NothingYoungIsLost
<1>4. PICK j \in Jobs : j = jobs[s]
  BY DEF YoungInv, RetrospectiveTypes
<1>5. JobMoves(s, j) /\ JobFits(j)
  BY <1>1, <1>4 DEF JobMoves, YoungInv, RetrospectiveTypes
<1>6. Readable(index)'
  <2>1. PICK list \in Seq(Ids) : list = index
    BY DEF YoungInv, RetrospectiveTypes
  <2>2. Readable(list)'
    BY <1>3, <2>1, ReadableStays DEF YoungInv
  <2>3. QED
    BY <1>1, <2>1, <2>2 DEF Readable
<1>7. \A i \in Ids : ~old'[i] /\ meta'[i] # 0 => artifact'[i] # 0
  BY <1>1 DEF YoungInv
<1>8. QED
  BY <1>2, <1>3, <1>5, <1>6, <1>7, YoungMoves

(* Nothing that is young is ever deleted, whatever overlaps and fails: the *)
(* invariant says of every job under way that what it is about to delete   *)
(* is old, and of every list somebody holds that its young ids have their  *)
(* summaries, so that a list may be put back at any time.                  *)
THEOREM YoungInvariant == Spec => []YoungInv
<1>1. Init => YoungInv
  <2> SUFFICES ASSUME Init PROVE YoungInv
    OBVIOUS
  <2>1. RetrospectiveTypes
    <3>1. jobs \in [Slots -> Jobs]
      BY IdleIsAJob DEF Init
    <3>2. artifact \in [Ids -> Nat] /\ meta \in [Ids -> Nat] /\ told \in [Ids -> Nat]
      BY DEF Init
    <3>3. index \in Seq(Ids) /\ posted \in Nat
      BY DEF Init
    <3>4. old \in [Ids -> BOOLEAN] /\ overlapped \in BOOLEAN
      BY Zenon DEF Init
    <3>5. QED
      BY <3>1, <3>2, <3>3, <3>4 DEF RetrospectiveTypes
  <2>2. ASSUME NEW s \in Slots PROVE JobFits(jobs[s])
    BY IdleFits DEF Init
  <2>3. QED
    BY <2>1, <2>2 DEF Init, YoungInv, Readable
<1>2. YoungInv /\ [Next]_vars => YoungInv'
  <2> SUFFICES ASSUME YoungInv, [Next]_vars PROVE YoungInv'
    OBVIOUS
  <2>1. ASSUME NEW s \in Requesters, NEW id \in Ids, Post(s, id) PROVE YoungInv'
    BY <2>1, PostKeepsYoung DEF Slots
  <2>2. ASSUME NEW s \in Slots, BeginWalk(s) \/ Step(s) \/ Fail(s) PROVE YoungInv'
    BY <2>2, BeginWalkKeepsYoung, PutArtifactKeepsYoung, PutMetaKeepsYoung, GetIndexKeepsYoung,
       PutIndexKeepsYoung, GetMetaKeepsYoung, EndWalkKeepsYoung, DeleteKeepsYoung,
       FailKeepsYoung, Zenon DEF Step
  <2>3. ASSUME NEW id \in Ids, Age(id) \/ TtlExpires(id) PROVE YoungInv'
    <3>1. Cron \in Slots
      BY DEF Slots
    <3>2. QED
      BY <2>3, <3>1, TimeKeepsYoung
  <2>4. ASSUME UNCHANGED vars PROVE YoungInv'
    BY <2>4 DEF vars, stores, history, YoungInv, RetrospectiveTypes, Readable, JobFits
  <2>5. QED
    BY <2>1, <2>2, <2>3, <2>4 DEF Next
<1>3. QED
  BY <1>1, <1>2, PTL DEF Spec

(* Within the retention what is listed can be read: the id of the index    *)
(* has its summary and the summary its artifact (storage.ts, cleanup.ts).  *)
THEOREM YoungReadable == Spec => []YoungAreReadable
<1>1. YoungInv => YoungAreReadable
  <2> SUFFICES ASSUME YoungInv, NEW i \in Ids, ~old[i]
               PROVE  /\ i \in ToSet(index) => meta[i] # 0
                      /\ meta[i] # 0 => artifact[i] # 0
    BY DEF YoungAreReadable
  <2>1. index \in Seq(Ids) /\ Readable(index)
    BY DEF YoungInv, RetrospectiveTypes
  <2>2. QED
    BY <2>1, InToSet, ReadableElements DEF YoungInv
<1>2. QED
  BY <1>1, YoungInvariant, PTL

(* What remains to be shown of a step of the one job there is.             *)
LEMMA StoredMoves ==
  ASSUME NEW s \in Slots, NEW x, JobMoves(s, x), JobIsCurrent(x)',
         \A r \in Slots : r # s => jobs[r] = Idle, \A i \in Ids : Kept(i)'
  PROVE  StoredInv'
<1>1. ASSUME NEW r \in Slots PROVE jobs'[r] = IF r = s THEN x ELSE Idle
  BY DEF JobMoves
<1>2. \A r, y \in Slots : jobs'[r] # Idle /\ jobs'[y] # Idle => r = y
  BY <1>1
<1>3. ASSUME NEW r \in Slots PROVE JobIsCurrent(jobs[r])'
  <2>1. PICK j : j = jobs'[r]
    OBVIOUS
  <2>2. JobIsCurrent(j)'
    BY <1>1, <2>1, IdleIsAJob DEF JobIsCurrent
  <2>3. QED
    BY <2>1, <2>2 DEF JobIsCurrent
<1>4. QED
  BY <1>2, <1>3, Zenon DEF StoredInv

LEMMA OneJob ==
  ASSUME StoredInv, YoungInv, ~overlapped, NEW s \in Slots, jobs[s] # Idle
  PROVE  /\ \A r \in Slots : r # s => jobs[r] = Idle
         /\ JobIsCurrent(jobs[s]) /\ \A i \in Ids : Kept(i)
BY DEF StoredInv

LEMMA StartKeepsStored ==
  ASSUME YoungInv, StoredInv, ~overlapped', NEW s \in Slots, NEW x, JobMoves(s, x),
         overlapped' = (overlapped \/ \E r \in Slots : jobs[r] # Idle),
         UNCHANGED <<stores, old, told>>, posted' >= posted, posted' \in Nat, JobIsCurrent(x)'
  PROVE  StoredInv'
<1>1. ~overlapped /\ \A r \in Slots : jobs[r] = Idle
  OBVIOUS
<1>2. ASSUME NEW i \in Ids PROVE Kept(i)'
  BY <1>1 DEF StoredInv, Kept, stores, YoungInv, RetrospectiveTypes
<1>3. QED
  BY <1>1, <1>2, StoredMoves

LEMMA PostKeepsStored ==
  ASSUME YoungInv, StoredInv, ~overlapped', NEW s \in Slots, NEW id \in Ids, Post(s, id)
  PROVE  StoredInv'
<1>1. PICK x \in Jobs :
         /\ JobMoves(s, x) /\ jobs[s] = Idle /\ posted' = posted + 1
         /\ x.stage = "write" /\ x.id = id /\ x.revision = posted + 1
         /\ x.todo = WriteOrder /\ x.seen = << >> /\ x.stale = {}
         /\ overlapped' = (overlapped \/ \E r \in Slots : jobs[r] # Idle)
         /\ UNCHANGED <<stores, old, told>>
  BY PostFacts DEF YoungInv
<1>2. WriteOrder # <<"meta">>
  <2>1. Len(<<"artifact", "meta">>) = 2 /\ Len(<<"meta">>) = 1
    OBVIOUS
  <2>2. QED
    BY <2>1 DEF WriteOrder
<1>3. JobIsCurrent(x)' /\ posted' >= posted /\ posted' \in Nat
  BY <1>1, <1>2 DEF JobIsCurrent, YoungInv, RetrospectiveTypes
<1>4. QED
  BY <1>1, <1>3, StartKeepsStored

LEMMA BeginWalkKeepsStored ==
  ASSUME YoungInv, StoredInv, ~overlapped', NEW s \in Slots, BeginWalk(s)
  PROVE  StoredInv'
<1>1. PICK x \in Jobs :
         /\ JobMoves(s, x) /\ jobs[s] = Idle
         /\ x.stage = "walk" /\ x.seen = index /\ x.todo = index /\ x.stale = {}
         /\ overlapped' = (overlapped \/ \E r \in Slots : jobs[r] # Idle)
         /\ UNCHANGED <<stores, old, told, posted>>
  BY BeginWalkFacts DEF YoungInv
<1>2. JobIsCurrent(x)' /\ posted' >= posted /\ posted' \in Nat
  BY <1>1 DEF JobIsCurrent, YoungInv, RetrospectiveTypes, stores
<1>3. QED
  BY <1>1, <1>2, StartKeepsStored

LEMMA PutArtifactKeepsStored ==
  ASSUME YoungInv, StoredInv, ~overlapped', NEW s \in Slots, PutArtifact(s)
  PROVE  StoredInv'
<1>1. PICK j \in Jobs : j = jobs[s]
  BY DEF YoungInv, RetrospectiveTypes
<1>2. /\ j.stage = "write" /\ j.id \in Ids
      /\ j.todo = WriteOrder \/ j.todo = <<"meta">>
  BY <1>1 DEF YoungInv, PutArtifact, JobFits, Jobs
<1>3. PICK x \in Jobs :
         /\ JobMoves(s, x) /\ x.id = j.id /\ x.revision = j.revision /\ x.seen = j.seen
         /\ IF j.todo = WriteOrder
            THEN x.stage = "write" /\ x.todo = <<"meta">> /\ Head(j.todo) = "artifact"
            ELSE x.stage = "getIndex" /\ Head(j.todo) = "meta"
  BY <1>1, <1>2, WrittenFacts DEF YoungInv, PutArtifact
<1>4. x.stage = "write" /\ x.todo = <<"meta">>
  BY <1>1, <1>3 DEF PutArtifact
<1>5. /\ artifact' = [artifact EXCEPT ![j.id] = j.revision]
      /\ UNCHANGED <<meta, index, old, posted, told, overlapped>>
  BY <1>1 DEF PutArtifact, Written, history
<1>6. /\ \A r \in Slots : r # s => jobs[r] = Idle
      /\ JobIsCurrent(j) /\ \A i \in Ids : Kept(i)
  BY <1>1, <1>2, <1>5, OneJob, IdleIsAJob
<1>7. artifact'[j.id] = posted
  BY <1>2, <1>5, <1>6 DEF JobIsCurrent, YoungInv, RetrospectiveTypes
<1>8. JobIsCurrent(x)'
  BY <1>2, <1>3, <1>4, <1>5, <1>6, <1>7 DEF JobIsCurrent
<1>9. ASSUME NEW i \in Ids PROVE Kept(i)'
  <2>1. artifact'[i] = IF i = j.id THEN posted ELSE artifact[i]
    BY <1>5, <1>7 DEF YoungInv, RetrospectiveTypes
  <2>2. QED
    BY <1>5, <1>6, <2>1 DEF Kept
<1>10. QED
  BY <1>3, <1>6, <1>8, <1>9, StoredMoves

LEMMA PutMetaKeepsStored ==
  ASSUME YoungInv, StoredInv, ~overlapped', NEW s \in Slots, PutMeta(s)
  PROVE  StoredInv'
<1>1. PICK j \in Jobs : j = jobs[s]
  BY DEF YoungInv, RetrospectiveTypes
<1>2. /\ j.stage = "write" /\ j.id \in Ids
      /\ j.todo = WriteOrder \/ j.todo = <<"meta">>
  BY <1>1 DEF YoungInv, PutMeta, JobFits, Jobs
<1>3. PICK x \in Jobs :
         /\ JobMoves(s, x) /\ x.id = j.id /\ x.revision = j.revision /\ x.seen = j.seen
         /\ IF j.todo = WriteOrder
            THEN x.stage = "write" /\ x.todo = <<"meta">> /\ Head(j.todo) = "artifact"
            ELSE x.stage = "getIndex" /\ Head(j.todo) = "meta"
  BY <1>1, <1>2, WrittenFacts DEF YoungInv, PutMeta
<1>4. x.stage = "getIndex" /\ j.todo = <<"meta">>
  BY <1>1, <1>2, <1>3 DEF PutMeta
<1>5. /\ meta' = [meta EXCEPT ![j.id] = j.revision]
      /\ UNCHANGED <<artifact, index, old, posted, told, overlapped>>
  BY <1>1 DEF PutMeta, Written, history
<1>6. /\ \A r \in Slots : r # s => jobs[r] = Idle
      /\ JobIsCurrent(j) /\ \A i \in Ids : Kept(i)
  BY <1>1, <1>2, <1>5, OneJob, IdleIsAJob
<1>7. meta'[j.id] = posted
  BY <1>2, <1>5, <1>6 DEF JobIsCurrent, YoungInv, RetrospectiveTypes
<1>8. JobIsCurrent(x)'
  BY <1>2, <1>3, <1>4, <1>5, <1>6, <1>7 DEF JobIsCurrent
<1>9. ASSUME NEW i \in Ids PROVE Kept(i)'
  <2>1. meta'[i] = IF i = j.id THEN posted ELSE meta[i]
    BY <1>5, <1>7 DEF YoungInv, RetrospectiveTypes
  <2>2. QED
    BY <1>5, <1>6, <2>1 DEF Kept
<1>10. QED
  BY <1>3, <1>6, <1>8, <1>9, StoredMoves

LEMMA GetIndexKeepsStored ==
  ASSUME YoungInv, StoredInv, ~overlapped', NEW s \in Slots, GetIndex(s)
  PROVE  StoredInv'
<1>1. PICK j \in Jobs : j = jobs[s]
  BY DEF YoungInv, RetrospectiveTypes
<1>2. PICK x \in Jobs :
         /\ JobMoves(s, x) /\ j.stage = "getIndex"
         /\ x.stage = "putIndex" /\ x.seen = index
         /\ x.id = j.id /\ x.revision = j.revision
  BY <1>1, GetIndexFacts DEF YoungInv
<1>3. UNCHANGED <<stores, old, posted, told, overlapped>>
  BY DEF GetIndex, history
<1>4. /\ \A r \in Slots : r # s => jobs[r] = Idle
      /\ JobIsCurrent(j) /\ \A i \in Ids : Kept(i)
  BY <1>1, <1>2, <1>3, OneJob, IdleIsAJob
<1>5. JobIsCurrent(x)'
  BY <1>2, <1>3, <1>4 DEF JobIsCurrent, stores
<1>6. ASSUME NEW i \in Ids PROVE Kept(i)'
  BY <1>3, <1>4 DEF Kept, stores
<1>7. QED
  BY <1>2, <1>4, <1>5, <1>6, StoredMoves

(* The index that is put back is that which is there, with the new id.     *)
LEMMA PutIndexKeepsStored ==
  ASSUME YoungInv, StoredInv, ~overlapped', NEW s \in Slots, PutIndex(s)
  PROVE  StoredInv'
<1>1. PICK j \in Jobs : j = jobs[s]
  BY DEF YoungInv, RetrospectiveTypes
<1>2. j.stage = "putIndex" /\ j.id \in Ids /\ j.seen \in Seq(Ids) /\ JobFits(j)
  BY <1>1 DEF YoungInv, PutIndex, JobFits, Jobs
<1>3. PICK list : list = Prepended(j.seen, j.id)
  OBVIOUS
<1>4. PICK displaced : displaced = Displaced(j.seen, j.id)
  OBVIOUS
<1>5. /\ index' = list
      /\ told' = [i \in Ids |-> IF i = j.id THEN j.revision
                                ELSE IF i \in displaced THEN 0 ELSE told[i]]
      /\ jobs' = [jobs EXCEPT ![s] = Idle]
      /\ UNCHANGED <<artifact, meta, old, posted, overlapped>>
  BY <1>1, <1>3, <1>4 DEF PutIndex
<1>6. JobMoves(s, Idle)
  BY <1>5, EndFacts DEF YoungInv
<1>7. /\ OccursIn(j.id, list)
      /\ \A i : OccursIn(i, j.seen) /\ i # j.id /\ i \notin displaced => OccursIn(i, list)
  BY <1>2, <1>3, <1>4, PrependedFacts
<1>8. /\ \A r \in Slots : r # s => jobs[r] = Idle
      /\ JobIsCurrent(j) /\ \A i \in Ids : Kept(i)
  BY <1>1, <1>2, <1>5, OneJob, IdleIsAJob
<1>9. ASSUME NEW i \in Ids PROVE Kept(i)'
  <2>1. CASE i = j.id
    <3>1. told'[i] = posted /\ posted \in Nat
      BY <1>2, <1>5, <1>8, <2>1 DEF JobIsCurrent, YoungInv, RetrospectiveTypes
    <3>2. ~old[i] => artifact[i] = posted /\ meta[i] = posted
      BY <1>2, <1>8, <2>1 DEF JobIsCurrent
    <3>3. QED
      BY <1>5, <1>7, <2>1, <3>1, <3>2 DEF Kept
  <2>2. CASE i # j.id /\ i \in displaced
    <3>1. told'[i] = 0
      BY <1>5, <2>2
    <3>2. QED
      BY <1>5, <3>1 DEF Kept, YoungInv, RetrospectiveTypes
  <2>3. CASE i # j.id /\ i \notin displaced
    <3>1. told'[i] = told[i] /\ j.seen = index
      BY <1>2, <1>5, <1>8, <2>3 DEF JobIsCurrent
    <3>2. Kept(i)
      BY <1>8
    <3>3. QED
      BY <1>5, <1>7, <2>3, <3>1, <3>2 DEF Kept
  <2>4. QED
    BY <2>1, <2>2, <2>3
<1>10. JobIsCurrent(Idle)'
  BY IdleIsAJob DEF JobIsCurrent
<1>11. QED
  BY <1>6, <1>8, <1>9, <1>10, StoredMoves

LEMMA GetMetaKeepsStored ==
  ASSUME YoungInv, StoredInv, ~overlapped', NEW s \in Slots, GetMeta(s)
  PROVE  StoredInv'
<1>1. PICK j \in Jobs : j = jobs[s]
  BY DEF YoungInv, RetrospectiveTypes
<1>2. j.stage = "walk" /\ j.todo \in Seq(Ids)
  BY <1>1 DEF YoungInv, GetMeta, JobFits
<1>3. PICK x \in Jobs : JobMoves(s, x) /\ Goes(j, x)
  BY <1>1, <1>2, GetMetaFacts DEF YoungInv
<1>4. UNCHANGED <<stores, old, posted, told, overlapped>>
  BY DEF GetMeta, history
<1>5. /\ \A r \in Slots : r # s => jobs[r] = Idle
      /\ JobIsCurrent(j) /\ \A i \in Ids : Kept(i)
  BY <1>1, <1>2, <1>4, OneJob, IdleIsAJob
<1>6. JobIsCurrent(x)'
  BY <1>2, <1>3, <1>4, <1>5 DEF JobIsCurrent, Goes, stores
<1>7. ASSUME NEW i \in Ids PROVE Kept(i)'
  BY <1>4, <1>5 DEF Kept, stores
<1>8. QED
  BY <1>3, <1>5, <1>6, <1>7, StoredMoves

LEMMA DeleteKeepsStored ==
  ASSUME YoungInv, StoredInv, ~overlapped', NEW s \in Slots, NEW store, Delete(s, store)
  PROVE  StoredInv'
<1>1. PICK j \in Jobs : j = jobs[s]
  BY DEF YoungInv, RetrospectiveTypes
<1>2. j.stage = "delete" /\ j.todo # << >> /\ j.todo \in Seq(Ids) /\ old[Head(j.todo)]
  BY <1>1 DEF YoungInv, Delete, JobFits
<1>3. PICK id \in Ids : id = Head(j.todo)
  <2>1. Head(j.todo) \in Ids
    BY <1>2
  <2>2. QED
    BY <2>1
<1>4. PICK x \in Jobs : JobMoves(s, x) /\ Goes(j, x)
  BY <1>1, <1>2, <1>3, DeleteFacts DEF YoungInv
<1>5. /\ \A i \in Ids : i # id => artifact'[i] = artifact[i] /\ meta'[i] = meta[i]
      /\ UNCHANGED <<index, old, posted, told, overlapped>>
  BY <1>1, <1>3, DeleteTouches DEF YoungInv
<1>6. /\ \A r \in Slots : r # s => jobs[r] = Idle
      /\ JobIsCurrent(j) /\ \A i \in Ids : Kept(i)
  BY <1>1, <1>2, <1>5, OneJob, IdleIsAJob
<1>7. JobIsCurrent(x)'
  BY <1>2, <1>4, <1>5, <1>6 DEF JobIsCurrent, Goes
<1>8. ASSUME NEW i \in Ids PROVE Kept(i)'
  BY <1>2, <1>3, <1>5, <1>6 DEF Kept
<1>9. QED
  BY <1>4, <1>6, <1>7, <1>8, StoredMoves

(* The list that is put back is that which is there, without what is old.  *)
LEMMA EndWalkKeepsStored ==
  ASSUME YoungInv, StoredInv, ~overlapped', NEW s \in Slots, EndWalk(s)
  PROVE  StoredInv'
<1>1. PICK j \in Jobs : j = jobs[s]
  BY DEF YoungInv, RetrospectiveTypes
<1>2. j.stage = "walk" /\ j.seen \in Seq(Ids) /\ \A i \in j.stale : old[i]
  BY <1>1 DEF YoungInv, EndWalk, JobFits, Jobs
<1>3. PICK rest : rest = Pruned(j.seen, j.stale)
  OBVIOUS
<1>4. \A i : OccursIn(i, j.seen) /\ i \notin j.stale => OccursIn(i, rest)
  BY <1>2, <1>3, PrunedFacts
<1>5. /\ index' \in {index, rest}
      /\ jobs' = [jobs EXCEPT ![s] = Idle]
      /\ UNCHANGED <<artifact, meta, old, posted, told, overlapped>>
  BY <1>1, <1>3 DEF EndWalk, history
<1>6. JobMoves(s, Idle)
  BY <1>5, EndFacts DEF YoungInv
<1>7. /\ \A r \in Slots : r # s => jobs[r] = Idle
      /\ JobIsCurrent(j) /\ \A i \in Ids : Kept(i)
  BY <1>1, <1>2, <1>5, OneJob, IdleIsAJob
<1>8. j.seen = index
  BY <1>2, <1>7 DEF JobIsCurrent
<1>9. ASSUME NEW i \in Ids PROVE Kept(i)'
  <2>1. ~old[i] /\ OccursIn(i, index) => OccursIn(i, index)'
    <3>1. SUFFICES ASSUME ~old[i], OccursIn(i, index) PROVE OccursIn(i, index)'
      OBVIOUS
    <3>2. OccursIn(i, rest)
      BY <1>2, <1>4, <1>8, <3>1
    <3>3. QED
      BY <1>5, <3>1, <3>2 DEF OccursIn
  <2>2. QED
    BY <1>5, <1>7, <2>1 DEF Kept
<1>10. JobIsCurrent(Idle)'
  BY IdleIsAJob DEF JobIsCurrent
<1>11. QED
  BY <1>6, <1>7, <1>9, <1>10, StoredMoves

LEMMA FailKeepsStored ==
  ASSUME YoungInv, StoredInv, ~overlapped', NEW s \in Slots, Fail(s)
  PROVE  StoredInv'
<1>1. /\ UNCHANGED <<stores, old, posted, told, overlapped>> /\ JobMoves(s, Idle)
      /\ jobs[s] # Idle
  BY EndFacts DEF Fail, history, YoungInv
<1>2. /\ \A r \in Slots : r # s => jobs[r] = Idle
      /\ \A i \in Ids : Kept(i)
  BY <1>1, OneJob
<1>3. ASSUME NEW i \in Ids PROVE Kept(i)'
  BY <1>1, <1>2 DEF Kept, stores
<1>4. JobIsCurrent(Idle)'
  BY IdleIsAJob DEF JobIsCurrent
<1>5. QED
  BY <1>1, <1>2, <1>3, <1>4, StoredMoves

LEMMA TimeKeepsStored ==
  ASSUME YoungInv, StoredInv, NEW id \in Ids, Age(id) \/ TtlExpires(id)
  PROVE  StoredInv'
<1>1. /\ UNCHANGED <<artifact, index, jobs, posted, told, overlapped>>
      /\ \A i \in Ids : ~old'[i] => ~old[i] /\ meta'[i] = meta[i]
  <2>1. old \in [Ids -> BOOLEAN] /\ meta \in [Ids -> Nat]
    BY DEF YoungInv, RetrospectiveTypes
  <2>2. CASE Age(id)
    BY <2>1, <2>2 DEF Age, history, stores
  <2>3. CASE TtlExpires(id)
    BY <2>1, <2>3 DEF TtlExpires, history
  <2>4. QED
    BY <2>2, <2>3
<1>2. SUFFICES ASSUME ~overlapped
               PROVE  /\ \A s, x \in Slots : jobs'[s] # Idle /\ jobs'[x] # Idle => s = x
                      /\ \A s \in Slots : JobIsCurrent(jobs[s])'
                      /\ \A i \in Ids : Kept(i)'
  BY <1>1, Zenon DEF StoredInv
<1>3. ASSUME NEW s \in Slots PROVE JobIsCurrent(jobs[s])'
  <2>1. PICK j \in Jobs : j = jobs[s]
    BY DEF YoungInv, RetrospectiveTypes
  <2>2. JobIsCurrent(j) /\ JobFits(j)
    BY <1>2, <2>1 DEF StoredInv, YoungInv
  <2>3. JobIsCurrent(j)'
    BY <1>1, <2>2 DEF JobIsCurrent, JobFits
  <2>4. QED
    BY <1>1, <2>1, <2>3 DEF JobIsCurrent
<1>4. ASSUME NEW i \in Ids PROVE Kept(i)'
  BY <1>1, <1>2 DEF Kept, StoredInv
<1>5. QED
  BY <1>1, <1>2, <1>3, <1>4 DEF StoredInv

(* While jobs take turns, what a client was told was stored stays in all   *)
(* three places until it is old or displaced, whatever fails later on      *)
(* (storage.ts, writeRetrospectiveArtifact and its index; cleanup.ts).     *)
THEOREM StoredStays == Spec => []StoredStaysStored
<1>1. Init => StoredInv
  <2> SUFFICES ASSUME Init PROVE StoredInv
    OBVIOUS
  <2>1. ASSUME NEW s \in Slots PROVE jobs[s] = Idle
    BY DEF Init
  <2>2. ASSUME NEW s \in Slots PROVE JobIsCurrent(jobs[s])
    BY <2>1, IdleFits
  <2>3. ASSUME NEW i \in Ids PROVE Kept(i)
    BY DEF Init, Kept
  <2>4. QED
    BY <2>1, <2>2, <2>3 DEF StoredInv
<1>2. YoungInv /\ StoredInv /\ [Next]_vars => StoredInv'
  <2> SUFFICES ASSUME YoungInv, StoredInv, [Next]_vars PROVE StoredInv'
    OBVIOUS
  <2>1. SUFFICES ASSUME ~overlapped' PROVE StoredInv'
    BY DEF StoredInv
  <2>2. ASSUME NEW s \in Requesters, NEW id \in Ids, Post(s, id) PROVE StoredInv'
    BY <2>1, <2>2, PostKeepsStored DEF Slots
  <2>3. ASSUME NEW s \in Slots, BeginWalk(s) \/ Step(s) \/ Fail(s) PROVE StoredInv'
    BY <2>1, <2>3, BeginWalkKeepsStored, PutArtifactKeepsStored, PutMetaKeepsStored,
       GetIndexKeepsStored, PutIndexKeepsStored, GetMetaKeepsStored, EndWalkKeepsStored,
       DeleteKeepsStored, FailKeepsStored, Zenon DEF Step
  <2>4. ASSUME NEW id \in Ids, Age(id) \/ TtlExpires(id) PROVE StoredInv'
    BY <2>4, TimeKeepsStored
  <2>5. ASSUME UNCHANGED vars PROVE StoredInv'
    BY <2>5 DEF vars, stores, history, StoredInv, JobIsCurrent, Kept, OccursIn
  <2>6. QED
    BY <2>2, <2>3, <2>4, <2>5 DEF Next
<1>3. YoungInv /\ StoredInv => StoredStaysStored
  <2> SUFFICES ASSUME YoungInv, StoredInv, ~overlapped, NEW i \in Ids, told[i] # 0, ~old[i]
               PROVE  i \in ToSet(index) /\ meta[i] >= told[i] /\ artifact[i] >= told[i]
    BY DEF StoredStaysStored
  <2>1. index \in Seq(Ids) /\ Kept(i)
    BY DEF YoungInv, RetrospectiveTypes, StoredInv
  <2>2. QED
    BY <2>1, InToSet DEF Kept
<1>4. QED
  BY <1>1, <1>2, <1>3, YoungInvariant, PTL DEF Spec

----------------------------------------------------------------------------
(* The task index *)

Entries == [id : TaskIds, version : Nat]

Requests == [stage : {"idle", "load", "assign", "code", "short", "update", "flush"},
             id : TaskIds \cup {NoTaskId}, value : Seq(Entries), code : Nat]

IndexTypes ==
    /\ tasks \in [TaskIds -> Nat] /\ codeOf \in [TaskIds -> Nat]
    /\ answered \in [TaskIds -> Nat]
    /\ codes \in [CodeNumbers -> TaskIds \cup {NoTaskId}]
    /\ stored \in Seq(Entries)
    /\ cache \in [Isolates -> Seq(Entries) \cup {NoIndex}]
    /\ requests \in [RequestSlots -> Requests]
    /\ lastTold \in TaskIds \cup {NoTaskId}

(* A request creates what is not there yet, and puts the code that the     *)
(* record holds by then.                                                   *)
RequestFits(x) ==
    /\ x.stage # "idle" => x.id \in TaskIds
    /\ x.stage = "code" => tasks[x.id] = 0
    /\ x.stage = "short" => tasks[x.id] > 0 /\ codeOf[x.id] = x.code

CodesInv ==
    /\ IndexTypes
    /\ \A s, x \in RequestSlots : requests[s] # NoRequest /\ requests[x] # NoRequest => s = x
    /\ \A s \in RequestSlots : RequestFits(requests[s])
    /\ \A n \in CodeNumbers : codes[n] # NoTaskId =>
          tasks[codes[n]] > 0 /\ codeOf[codes[n]] = n

(* What is true of the index that readers get is true of each copy of it,  *)
(* the one that a request is about to store included.                      *)
Faithful(list) ==
    /\ Len(list) <= MaxIndexed
    /\ \A n \in 1..Len(list) :
          answered[list[n].id] <= list[n].version /\ list[n].version <= tasks[list[n].id]
    /\ \A m, n \in 1..Len(list) : list[m].id = list[n].id => m = n
    /\ \A t \in TaskIds : answered[t] > 0 =>
          (\E n \in 1..Len(list) : list[n].id = t) \/ Len(list) = MaxIndexed

(* The copy a request works on is that of its isolate.                     *)
CopyFits(i, x) ==
    /\ x.stage = "assign" => x.value = stored
    /\ x.stage \in {"code", "short", "update", "flush"} => cache[i] # NoIndex
    /\ x.stage = "flush" =>
          /\ x.value = cache[i] /\ Len(x.value) > 0
          /\ x.value[1] = Entry(x.id, tasks[x.id])

IndexInv ==
    /\ \A s \in RequestSlots : CopyFits(IsolateOf[s], requests[s])
    /\ Faithful(stored)
    /\ \A i \in Isolates : cache[i] # NoIndex => Faithful(cache[i])
    /\ \A t \in TaskIds : answered[t] <= tasks[t]
    /\ lastTold # NoTaskId => Len(stored) > 0 /\ stored[1].id = lastTold

(* A request moves on, alone. *)
RequestMoves(s, x) ==
    /\ x \in Requests /\ requests' \in [RequestSlots -> Requests] /\ requests'[s] = x
    /\ \A r \in RequestSlots : r # s => requests'[r] = requests[r]

LEMMA RequestChanges ==
  ASSUME IndexTypes, NEW s \in RequestSlots, NEW x \in Requests,
         requests' = [requests EXCEPT ![s] = x]
  PROVE  RequestMoves(s, x)
BY DEF RequestMoves, IndexTypes

LEMMA NoRequestIsOne ==
  /\ NoRequest \in Requests /\ NoRequest.stage = "idle" /\ NoRequest.id = NoTaskId
  /\ NoRequest.value = << >> /\ NoRequest.code = 0
<1>1. << >> \in Seq(Entries) /\ 0 \in Nat
  OBVIOUS
<1>2. QED
  BY <1>1 DEF NoRequest, Requests

(* _updateIndex: the list keeps its bound and its distinct tasks, begins   *)
(* with the new entry, and loses a task only when it is full.              *)
NewestFirst(new, list, entry) ==
    /\ Len(new) > 0 /\ new[1] = entry /\ Len(new) <= MaxIndexed
    /\ \A k \in 2..Len(new) : \E n \in 1..Len(list) : new[k] = list[n]
    /\ (\A m, n \in 1..Len(list) : list[m].id = list[n].id => m = n) =>
          /\ \A m, n \in 1..Len(new) : new[m].id = new[n].id => m = n
          /\ \A t : (\E n \in 1..Len(list) : list[n].id = t) \/ Len(list) >= MaxIndexed
                => (\E n \in 1..Len(new) : new[n].id = t) \/ Len(new) = MaxIndexed

LEMMA UpdatedFacts ==
  ASSUME NEW list \in Seq(Entries), NEW entry \in Entries
  PROVE  /\ Updated(list, entry) \in Seq(Entries)
         /\ NewestFirst(Updated(list, entry), list, entry)
<1>1. DOMAIN list = 1..Len(list) /\ Len(list) \in Nat
  OBVIOUS
<1>2. PICK positions : positions = {n \in DOMAIN list : list[n].id # entry.id}
  OBVIOUS
<1>3. PICK others : others = SelectAt(list, positions)
  OBVIOUS
<1>4. others \in Seq(Entries) /\ Selects(others, list, positions)
  BY <1>3, SelectAtElements
<1>5. PICK whole : whole = <<entry>> \o others
  OBVIOUS
<1>6. /\ whole \in Seq(Entries) /\ Len(whole) = Len(others) + 1 /\ Len(others) \in Nat
      /\ \A k \in 1..Len(whole) : whole[k] = IF k = 1 THEN entry ELSE others[k - 1]
  BY <1>4, <1>5
<1>7. PICK len : len = IF Len(whole) > MaxIndexed THEN MaxIndexed ELSE Len(whole)
  OBVIOUS
<1>8. len \in 1..Len(whole) /\ len <= MaxIndexed /\ MaxIndexed \in Nat
  BY <1>6, <1>7, TaskIndexAssumption
<1>9. PICK cut : cut = SubSeq(whole, 1, len)
  OBVIOUS
<1>10. cut \in Seq(Entries) /\ Len(cut) = len /\ \A k \in 1..len : cut[k] = whole[k]
  BY <1>6, <1>8, <1>9
<1>11. Updated(list, entry) = cut
  BY <1>2, <1>3, <1>5, <1>7, <1>9 DEF Updated
<1>12. ASSUME NEW k \in 2..Len(cut)
       PROVE  /\ cut[k].id # entry.id /\ k - 1 \in 1..Len(others) /\ cut[k] = others[k - 1]
              /\ \E n \in 1..Len(list) : cut[k] = list[n]
  <2>1. k - 1 \in 1..Len(others) /\ cut[k] = others[k - 1]
    BY <1>6, <1>8, <1>10
  <2>2. PICK n \in positions \cap 1..Len(list) : others[k - 1] = list[n]
    BY <1>4, <2>1 DEF Selects
  <2>3. QED
    BY <1>2, <2>1, <2>2
<1>13. ASSUME \A m, n \in 1..Len(list) : list[m].id = list[n].id => m = n,
              NEW m \in 1..Len(cut), NEW n \in 1..Len(cut), cut[m].id = cut[n].id
       PROVE  m = n
  <2>1. cut[1] = entry
    BY <1>6, <1>8, <1>10
  <2>2. CASE m = 1 \/ n = 1
    <3>1. m \in 2..Len(cut) \/ m = 1
      OBVIOUS
    <3>2. n \in 2..Len(cut) \/ n = 1
      OBVIOUS
    <3>3. QED
      BY <1>12, <1>13, <2>1, <2>2, <3>1, <3>2
  <2>3. CASE m # 1 /\ n # 1
    <3>1. m \in 2..Len(cut) /\ n \in 2..Len(cut)
      BY <2>3
    <3>2. /\ m - 1 \in 1..Len(others) /\ n - 1 \in 1..Len(others)
          /\ others[m - 1].id = others[n - 1].id
      BY <1>12, <1>13, <3>1
    <3>3. \A i, j \in 1..Len(list) : list[i] = list[j] => i = j
      BY <1>13
    <3>4. \A i, j \in 1..Len(others) : others[i] = others[j] => i = j
      BY <1>4, <3>3 DEF Selects
    <3>5. PICK i \in 1..Len(list) : others[m - 1] = list[i]
      BY <1>4, <3>2 DEF Selects
    <3>6. PICK j \in 1..Len(list) : others[n - 1] = list[j]
      BY <1>4, <3>2 DEF Selects
    <3>7. others[m - 1] = others[n - 1]
      BY <1>13, <3>2, <3>5, <3>6
    <3>8. m - 1 = n - 1
      BY <3>2, <3>4, <3>7
    <3>9. QED
      BY <1>10, <3>1, <3>8
  <2>4. QED
    BY <2>2, <2>3
<1>14. ASSUME \A m, n \in 1..Len(list) : list[m].id = list[n].id => m = n,
              NEW t, (\E n \in 1..Len(list) : list[n].id = t) \/ Len(list) >= MaxIndexed,
              Len(cut) # MaxIndexed
       PROVE  \E n \in 1..Len(cut) : cut[n].id = t
  <2>1. len = Len(whole) /\ Len(others) < MaxIndexed - 1
    BY <1>6, <1>7, <1>8, <1>10, <1>14
  <2>2. PICK p \in 0..Len(list) :
           positions \cap 1..Len(list) = (1..Len(list)) \ {p}
    <3>1. CASE \E p \in 1..Len(list) : list[p].id = entry.id
      <4>1. PICK p \in 1..Len(list) : list[p].id = entry.id
        BY <3>1
      <4>2. positions \cap 1..Len(list) = (1..Len(list)) \ {p}
        BY <1>1, <1>2, <1>14, <4>1
      <4>3. QED
        BY <4>2
    <3>2. CASE ~ \E p \in 1..Len(list) : list[p].id = entry.id
      <4>1. positions \cap 1..Len(list) = (1..Len(list)) \ {0}
        BY <1>1, <1>2, <3>2
      <4>2. QED
        BY <1>1, <4>1
    <3>3. QED
      BY <3>1, <3>2
  <2>3. Len(others) >= Len(list) - 1
    <3>1. Len(others) = IF p \in 1..Len(list) THEN Len(list) - 1 ELSE Len(list)
      BY <1>3, <2>2, SelectAtLeavesOne
    <3>2. PICK size \in Nat : size = Len(list)
      BY <1>1
    <3>3. Len(others) = size - 1 \/ Len(others) = size
      BY <3>1, <3>2
    <3>4. QED
      BY <3>2, <3>3
  <2>4. PICK n \in 1..Len(list) : list[n].id = t
    BY <1>1, <1>8, <1>14, <2>1, <2>3
  <2>5. CASE t = entry.id
    BY <1>6, <1>8, <1>10, <2>5
  <2>6. CASE t # entry.id
    <3>1. n \in positions \cap 1..Len(list)
      BY <1>1, <1>2, <2>4, <2>6
    <3>2. PICK k \in 1..Len(others) : others[k] = list[n]
      BY <1>4, <3>1 DEF Selects
    <3>3. k + 1 \in 1..Len(cut) /\ cut[k + 1] = others[k]
      BY <1>6, <1>8, <1>10, <2>1, <3>2
    <3>4. QED
      BY <2>4, <3>2, <3>3
  <2>7. QED
    BY <2>5, <2>6
<1>15. /\ Len(cut) > 0 /\ cut[1] = entry /\ Len(cut) <= MaxIndexed
  BY <1>6, <1>8, <1>10
<1>16. NewestFirst(cut, list, entry)
  BY <1>12, <1>13, <1>14, <1>15 DEF NewestFirst
<1>17. QED
  BY <1>10, <1>11, <1>16

(* The steps of a request. *)
Alone(s) == \A r \in RequestSlots : r # s => requests[r] = NoRequest

LEMMA BeginCreateFacts ==
  ASSUME OneAtATime, IndexTypes, NEW s \in RequestSlots, NEW id \in TaskIds, BeginCreate(s, id)
  PROVE  \E x \in Requests :
             /\ Alone(s) /\ RequestMoves(s, x) /\ x.id = id /\ tasks[id] = 0
             /\ \/ x.stage = "load"
                \/ x.stage = "code" /\ cache[IsolateOf[s]] # NoIndex
             /\ UNCHANGED <<tasks, codeOf, codes, stored, cache, answered, lastTold>>
<1>1. PICK stage : stage = IF cache[IsolateOf[s]] = NoIndex THEN "load" ELSE "code"
  OBVIOUS
<1>2. stage \in {"load", "code", "update"}
  BY <1>1
<1>3. PICK none \in Requests : none = NoRequest
  BY NoRequestIsOne
<1>4. \E x \in Requests : RequestMoves(s, x) /\ x.stage = stage /\ x.id = id
  <2>1. PICK x : x = [none EXCEPT !.stage = stage, !.id = id]
    OBVIOUS
  <2>2. x \in Requests /\ x.stage = stage /\ x.id = id
    BY <1>2, <2>1 DEF Requests
  <2>3. requests' = [requests EXCEPT ![s] = x]
    BY <1>1, <1>3, <2>1 DEF BeginCreate
  <2>4. QED
    BY <2>2, <2>3, RequestChanges
<1>5. Alone(s)
  BY DEF BeginCreate, MayStart, Alone
<1>6. QED
  BY <1>1, <1>4, <1>5 DEF BeginCreate

LEMMA PutTaskFacts ==
  ASSUME OneAtATime, IndexTypes, NEW s \in RequestSlots, NEW id \in TaskIds, PutTask(s, id)
  PROVE  \E x \in Requests :
             /\ Alone(s) /\ RequestMoves(s, x) /\ x.id = id
             /\ tasks[id] > 0 /\ tasks' = [tasks EXCEPT ![id] = tasks[id] + 1]
             /\ \/ x.stage = "load"
                \/ x.stage = "update" /\ cache[IsolateOf[s]] # NoIndex
             /\ UNCHANGED <<codeOf, codes, stored, cache, answered, lastTold>>
<1>1. PICK stage : stage = IF cache[IsolateOf[s]] = NoIndex THEN "load" ELSE "update"
  OBVIOUS
<1>2. stage \in {"load", "code", "update"}
  BY <1>1
<1>3. PICK none \in Requests : none = NoRequest
  BY NoRequestIsOne
<1>4. \E x \in Requests : RequestMoves(s, x) /\ x.stage = stage /\ x.id = id
  <2>1. PICK x : x = [none EXCEPT !.stage = stage, !.id = id]
    OBVIOUS
  <2>2. x \in Requests /\ x.stage = stage /\ x.id = id
    BY <1>2, <2>1 DEF Requests
  <2>3. requests' = [requests EXCEPT ![s] = x]
    BY <1>1, <1>3, <2>1 DEF PutTask
  <2>4. QED
    BY <2>2, <2>3, RequestChanges
<1>5. Alone(s)
  BY DEF PutTask, MayStart, Alone
<1>6. tasks[id] > 0 /\ tasks' = [tasks EXCEPT ![id] = tasks[id] + 1]
  BY TaskIndexAssumption DEF PutTask
<1>7. QED
  BY <1>1, <1>4, <1>5, <1>6 DEF PutTask

LEMMA LoadIndexFacts ==
  ASSUME IndexTypes, NEW s \in RequestSlots, LoadIndex(s)
  PROVE  \E x \in Requests :
             /\ RequestMoves(s, x) /\ requests[s].stage = "load"
             /\ x.stage = "assign" /\ x.id = requests[s].id /\ x.value = stored
             /\ UNCHANGED <<tasks, codeOf, codes, stored, cache, answered, lastTold>>
<1>1. PICK j \in Requests : j = requests[s]
  BY DEF IndexTypes
<1>2. PICK x : x = [j EXCEPT !.stage = "assign", !.value = stored]
  OBVIOUS
<1>3. stored \in Seq(Entries)
  BY DEF IndexTypes
<1>4. x \in Requests /\ x.stage = "assign" /\ x.id = j.id /\ x.value = stored
  BY <1>2, <1>3 DEF Requests
<1>5. requests' = [requests EXCEPT ![s] = x]
  BY <1>1, <1>2 DEF LoadIndex, IndexTypes
<1>6. QED
  BY <1>1, <1>4, <1>5, RequestChanges DEF LoadIndex

LEMMA AssignIndexFacts ==
  ASSUME IndexTypes, NEW s \in RequestSlots, AssignIndex(s)
  PROVE  \E x \in Requests :
             /\ RequestMoves(s, x) /\ requests[s].stage = "assign" /\ x.id = requests[s].id
             /\ x.stage = IF tasks[x.id] = 0 THEN "code" ELSE "update"
             /\ cache' = [cache EXCEPT ![IsolateOf[s]] = requests[s].value]
             /\ UNCHANGED <<tasks, codeOf, codes, stored, answered, lastTold>>
<1>1. PICK j \in Requests : j = requests[s]
  BY DEF IndexTypes
<1>2. PICK stage : stage = IF tasks[j.id] = 0 THEN "code" ELSE "update"
  OBVIOUS
<1>3. PICK x : x = [j EXCEPT !.value = << >>, !.stage = stage]
  OBVIOUS
<1>4. stage \in {"code", "update"} /\ << >> \in Seq(Entries)
  BY <1>2
<1>5. x \in Requests /\ x.stage = stage /\ x.id = j.id
  BY <1>3, <1>4 DEF Requests
<1>6. requests' = [requests EXCEPT ![s] = x]
  BY <1>1, <1>2, <1>3 DEF AssignIndex, IndexTypes
<1>7. QED
  BY <1>1, <1>2, <1>5, <1>6, RequestChanges DEF AssignIndex

LEMMA PutNewTaskFacts ==
  ASSUME IndexTypes, NEW s \in RequestSlots, PutNewTask(s)
  PROVE  \E x \in Requests :
             /\ RequestMoves(s, x) /\ requests[s].stage = "code"
             /\ x.stage = "short" /\ x.id = requests[s].id
             /\ tasks' = [tasks EXCEPT ![x.id] = 1]
             /\ codeOf' = [codeOf EXCEPT ![x.id] = x.code]
             /\ UNCHANGED <<codes, stored, cache, answered, lastTold>>
<1>1. PICK j \in Requests : j = requests[s]
  BY DEF IndexTypes
<1>2. PICK code : code = Len(IndexCopy(IsolateOf[s])) + 1
  OBVIOUS
<1>3. code \in Nat
  <2>1. IsolateOf[s] \in Isolates
    BY TaskIndexAssumption
  <2>2. IndexCopy(IsolateOf[s]) \in Seq(Entries)
    BY <2>1 DEF IndexCopy, IndexTypes
  <2>3. QED
    BY <1>2, <2>2
<1>4. PICK x : x = [j EXCEPT !.stage = "short", !.code = code]
  OBVIOUS
<1>5. x \in Requests /\ x.stage = "short" /\ x.id = j.id /\ x.code = code
  BY <1>3, <1>4 DEF Requests
<1>6. requests' = [requests EXCEPT ![s] = x]
  BY <1>1, <1>2, <1>4 DEF PutNewTask, IndexTypes
<1>7. QED
  BY <1>1, <1>2, <1>5, <1>6, RequestChanges DEF PutNewTask

LEMMA PutShortCodeFacts ==
  ASSUME IndexTypes, NEW s \in RequestSlots, PutShortCode(s)
  PROVE  \E x \in Requests :
             /\ RequestMoves(s, x) /\ requests[s].stage = "short"
             /\ x.stage = "update" /\ x.id = requests[s].id
             /\ codes' = [codes EXCEPT ![requests[s].code] = x.id]
             /\ UNCHANGED <<tasks, codeOf, stored, cache, answered, lastTold>>
<1>1. PICK j \in Requests : j = requests[s]
  BY DEF IndexTypes
<1>2. PICK x : x = [j EXCEPT !.stage = "update"]
  OBVIOUS
<1>3. x \in Requests /\ x.stage = "update" /\ x.id = j.id
  BY <1>2 DEF Requests
<1>4. requests' = [requests EXCEPT ![s] = x]
  BY <1>1, <1>2 DEF PutShortCode, IndexTypes
<1>5. QED
  BY <1>1, <1>3, <1>4, RequestChanges DEF PutShortCode

LEMMA UpdateIndexFacts ==
  ASSUME IndexTypes, NEW s \in RequestSlots, UpdateIndex(s), requests[s].id \in TaskIds
  PROVE  \E x \in Requests :
             /\ RequestMoves(s, x) /\ requests[s].stage = "update"
             /\ x.stage = "flush" /\ x.id = requests[s].id
             /\ IndexCopy(IsolateOf[s]) \in Seq(Entries)
             /\ Entry(x.id, tasks[x.id]) \in Entries
             /\ x.value = Updated(IndexCopy(IsolateOf[s]), Entry(x.id, tasks[x.id]))
             /\ x.value \in Seq(Entries)
             /\ cache' = [cache EXCEPT ![IsolateOf[s]] = x.value]
             /\ UNCHANGED <<tasks, codeOf, codes, stored, answered, lastTold>>
<1>1. PICK j \in Requests : j = requests[s]
  BY DEF IndexTypes
<1>2. PICK copy : copy = IndexCopy(IsolateOf[s])
  OBVIOUS
<1>3. copy \in Seq(Entries)
  <2>1. IsolateOf[s] \in Isolates
    BY TaskIndexAssumption
  <2>2. QED
    BY <1>2, <2>1 DEF IndexCopy, IndexTypes
<1>4. PICK entry : entry = Entry(j.id, tasks[j.id])
  OBVIOUS
<1>5. entry \in Entries
  BY <1>1, <1>4 DEF Entry, Entries, IndexTypes
<1>6. PICK list : list = Updated(copy, entry)
  OBVIOUS
<1>7. list \in Seq(Entries)
  BY <1>3, <1>5, <1>6, UpdatedFacts
<1>8. PICK x : x = [j EXCEPT !.stage = "flush", !.value = list]
  OBVIOUS
<1>9. x \in Requests /\ x.stage = "flush" /\ x.id = j.id /\ x.value = list
  BY <1>7, <1>8 DEF Requests
<1>10. requests' = [requests EXCEPT ![s] = x]
  BY <1>1, <1>2, <1>4, <1>6, <1>8 DEF UpdateIndex, IndexTypes
<1>11. cache' = [cache EXCEPT ![IsolateOf[s]] = list]
  BY <1>1, <1>2, <1>4, <1>6 DEF UpdateIndex
<1>12. QED
  BY <1>1, <1>2, <1>3, <1>4, <1>5, <1>6, <1>7, <1>9, <1>10, <1>11, RequestChanges
  DEF UpdateIndex

LEMMA RequestEnds ==
  ASSUME IndexTypes, NEW s \in RequestSlots, requests' = [requests EXCEPT ![s] = NoRequest]
  PROVE  RequestMoves(s, NoRequest)
BY NoRequestIsOne, RequestChanges

----------------------------------------------------------------------------
(* Short codes *)

(* What remains to be shown of a step of the one request there is.         *)
LEMMA CodesMoves ==
  ASSUME NEW s \in RequestSlots, NEW x, Alone(s), RequestMoves(s, x), IndexTypes',
         RequestFits(x)',
         \A n \in CodeNumbers : codes'[n] # NoTaskId =>
             tasks'[codes'[n]] > 0 /\ codeOf'[codes'[n]] = n
  PROVE  CodesInv'
<1>1. ASSUME NEW r \in RequestSlots PROVE requests'[r] = IF r = s THEN x ELSE NoRequest
  BY DEF RequestMoves, Alone
<1>2. \A r, y \in RequestSlots : requests'[r] # NoRequest /\ requests'[y] # NoRequest => r = y
  BY <1>1
<1>3. ASSUME NEW r \in RequestSlots PROVE RequestFits(requests[r])'
  <2>1. PICK j : j = requests'[r]
    OBVIOUS
  <2>2. RequestFits(j)'
    BY <1>1, <2>1, NoRequestIsOne DEF RequestFits
  <2>3. QED
    BY <2>1, <2>2 DEF RequestFits
<1>4. QED
  BY <1>2, <1>3, Zenon DEF CodesInv

LEMMA OneRequest ==
  ASSUME CodesInv, NEW s \in RequestSlots, requests[s].stage # "idle"
  PROVE  Alone(s) /\ RequestFits(requests[s]) /\ requests[s].id \in TaskIds
BY NoRequestIsOne DEF CodesInv, Alone, RequestFits

LEMMA BeginsKeepCodes ==
  ASSUME OneAtATime, CodesInv, NEW s \in RequestSlots, NEW id \in TaskIds,
         BeginCreate(s, id) \/ PutTask(s, id)
  PROVE  CodesInv'
<1>1. CASE BeginCreate(s, id)
  <2>1. PICK x \in Requests :
             /\ Alone(s) /\ RequestMoves(s, x) /\ x.id = id /\ tasks[id] = 0
             /\ \/ x.stage = "load"
                \/ x.stage = "code" /\ cache[IsolateOf[s]] # NoIndex
             /\ UNCHANGED <<tasks, codeOf, codes, stored, cache, answered, lastTold>>
    BY <1>1, BeginCreateFacts DEF CodesInv
  <2>2. IndexTypes' /\ RequestFits(x)'
    BY <2>1 DEF CodesInv, IndexTypes, RequestMoves, RequestFits
  <2>3. QED
    BY <2>1, <2>2, CodesMoves DEF CodesInv
<1>2. CASE PutTask(s, id)
  <2>1. PICK x \in Requests :
             /\ Alone(s) /\ RequestMoves(s, x) /\ x.id = id
             /\ tasks[id] > 0 /\ tasks' = [tasks EXCEPT ![id] = tasks[id] + 1]
             /\ \/ x.stage = "load"
                \/ x.stage = "update" /\ cache[IsolateOf[s]] # NoIndex
             /\ UNCHANGED <<codeOf, codes, stored, cache, answered, lastTold>>
    BY <1>2, PutTaskFacts DEF CodesInv
  <2>2. /\ tasks' \in [TaskIds -> Nat]
        /\ \A t \in TaskIds : tasks[t] > 0 => tasks'[t] > 0
    BY <2>1 DEF CodesInv, IndexTypes
  <2>3. IndexTypes' /\ RequestFits(x)'
    BY <2>1, <2>2 DEF CodesInv, IndexTypes, RequestMoves, RequestFits
  <2>4. \A n \in CodeNumbers : codes'[n] # NoTaskId =>
             tasks'[codes'[n]] > 0 /\ codeOf'[codes'[n]] = n
    BY <2>1, <2>2 DEF CodesInv, IndexTypes
  <2>5. QED
    BY <2>1, <2>3, <2>4, CodesMoves
<1>3. QED
  BY <1>1, <1>2

LEMMA IndexStepsKeepCodes ==
  ASSUME CodesInv, NEW s \in RequestSlots,
         LoadIndex(s) \/ AssignIndex(s) \/ UpdateIndex(s) \/ FlushIndex(s) \/ RequestFails(s)
  PROVE  CodesInv'
<1>1. PICK j \in Requests : j = requests[s]
  BY DEF CodesInv, IndexTypes
<1>2. IsolateOf[s] \in Isolates
  BY TaskIndexAssumption
<1>3. Alone(s) /\ (j.stage # "idle" => RequestFits(j) /\ j.id \in TaskIds)
  BY <1>1, OneRequest DEF LoadIndex, AssignIndex, UpdateIndex, FlushIndex, RequestFails,
     CodesInv, Alone
<1>4. \E x \in Requests :
         /\ RequestMoves(s, x)
         /\ x.stage # "idle" => j.stage # "idle" /\ x.id = j.id
         /\ x.stage = "code" => tasks[x.id] = 0
         /\ x.stage # "short"
         /\ stored' \in Seq(Entries) /\ cache' \in [Isolates -> Seq(Entries) \cup {NoIndex}]
         /\ answered' \in [TaskIds -> Nat] /\ lastTold' \in TaskIds \cup {NoTaskId}
         /\ UNCHANGED <<tasks, codeOf, codes>>
  <2>1. CASE LoadIndex(s)
    BY <1>1, <2>1, LoadIndexFacts DEF CodesInv, IndexTypes
  <2>2. CASE AssignIndex(s)
    <3>1. PICK x \in Requests :
             /\ RequestMoves(s, x) /\ j.stage = "assign" /\ x.id = j.id
             /\ x.stage = IF tasks[x.id] = 0 THEN "code" ELSE "update"
             /\ cache' = [cache EXCEPT ![IsolateOf[s]] = j.value]
             /\ UNCHANGED <<tasks, codeOf, codes, stored, answered, lastTold>>
      BY <1>1, <2>2, AssignIndexFacts DEF CodesInv
    <3>2. j.value \in Seq(Entries)
      BY DEF Requests
    <3>3. cache' \in [Isolates -> Seq(Entries) \cup {NoIndex}]
      BY <3>1, <3>2 DEF CodesInv, IndexTypes
    <3>4. QED
      BY <3>1, <3>3 DEF CodesInv, IndexTypes
  <2>3. CASE UpdateIndex(s)
    <3>1. j.stage = "update" /\ j.id \in TaskIds
      BY <1>1, <1>3, <2>3 DEF UpdateIndex
    <3>2. PICK x \in Requests :
             /\ RequestMoves(s, x) /\ x.stage = "flush" /\ x.id = j.id
             /\ x.value \in Seq(Entries)
             /\ cache' = [cache EXCEPT ![IsolateOf[s]] = x.value]
             /\ UNCHANGED <<tasks, codeOf, codes, stored, answered, lastTold>>
      BY <1>1, <2>3, <3>1, UpdateIndexFacts DEF CodesInv
    <3>3. cache' \in [Isolates -> Seq(Entries) \cup {NoIndex}]
      BY <3>2 DEF CodesInv, IndexTypes
    <3>4. QED
      BY <3>1, <3>2, <3>3 DEF CodesInv, IndexTypes
  <2>4. CASE FlushIndex(s)
    <3>1. j.stage = "flush" /\ j.id \in TaskIds
      BY <1>1, <1>3, <2>4 DEF FlushIndex
    <3>2. /\ stored' = j.value
          /\ answered' = [answered EXCEPT ![j.id] = tasks[j.id]]
          /\ lastTold' = j.id
          /\ requests' = [requests EXCEPT ![s] = NoRequest]
          /\ UNCHANGED <<tasks, codeOf, codes, cache>>
      BY <1>1, <2>4 DEF FlushIndex
    <3>3. RequestMoves(s, NoRequest)
      BY <3>2, RequestEnds DEF CodesInv
    <3>4. stored' \in Seq(Entries)
      BY <3>2 DEF Requests
    <3>5. answered' \in [TaskIds -> Nat]
      BY <3>1, <3>2 DEF CodesInv, IndexTypes
    <3>6. QED
      BY <3>1, <3>2, <3>3, <3>4, <3>5, NoRequestIsOne DEF CodesInv, IndexTypes
  <2>5. CASE RequestFails(s)
    <3>1. RequestMoves(s, NoRequest)
      BY <2>5, RequestEnds DEF CodesInv, RequestFails
    <3>2. QED
      BY <2>5, <3>1, NoRequestIsOne DEF CodesInv, IndexTypes, RequestFails
  <2>6. QED
    BY <2>1, <2>2, <2>3, <2>4, <2>5
<1>5. PICK x \in Requests :
         /\ RequestMoves(s, x)
         /\ x.stage # "idle" => j.stage # "idle" /\ x.id = j.id
         /\ x.stage = "code" => tasks[x.id] = 0
         /\ x.stage # "short"
         /\ stored' \in Seq(Entries) /\ cache' \in [Isolates -> Seq(Entries) \cup {NoIndex}]
         /\ answered' \in [TaskIds -> Nat] /\ lastTold' \in TaskIds \cup {NoTaskId}
         /\ UNCHANGED <<tasks, codeOf, codes>>
  BY <1>4
<1>6. IndexTypes'
  BY <1>5 DEF CodesInv, IndexTypes, RequestMoves
<1>7. RequestFits(x)'
  BY <1>3, <1>5 DEF RequestFits
<1>8. QED
  BY <1>3, <1>5, <1>6, <1>7, CodesMoves DEF CodesInv

(* The record of the new task carries the code, and nothing led to it.     *)
LEMMA PutNewTaskKeepsCodes ==
  ASSUME CodesInv, NEW s \in RequestSlots, PutNewTask(s)
  PROVE  CodesInv'
<1>1. PICK j \in Requests : j = requests[s]
  BY DEF CodesInv, IndexTypes
<1>2. PICK x \in Requests :
             /\ RequestMoves(s, x) /\ j.stage = "code"
             /\ x.stage = "short" /\ x.id = j.id
             /\ tasks' = [tasks EXCEPT ![x.id] = 1]
             /\ codeOf' = [codeOf EXCEPT ![x.id] = x.code]
             /\ UNCHANGED <<codes, stored, cache, answered, lastTold>>
  BY <1>1, PutNewTaskFacts DEF CodesInv
<1>3. Alone(s) /\ j.id \in TaskIds /\ tasks[j.id] = 0
  BY <1>1, <1>2, OneRequest DEF RequestFits
<1>4. x.code \in Nat
  BY DEF Requests
<1>5. /\ tasks' \in [TaskIds -> Nat] /\ codeOf' \in [TaskIds -> Nat]
      /\ tasks'[x.id] = 1 /\ codeOf'[x.id] = x.code
      /\ \A t \in TaskIds : t # x.id => tasks'[t] = tasks[t] /\ codeOf'[t] = codeOf[t]
  BY <1>2, <1>3, <1>4 DEF CodesInv, IndexTypes
<1>6. IndexTypes'
  BY <1>2, <1>5 DEF CodesInv, IndexTypes, RequestMoves
<1>7. RequestFits(x)'
  BY <1>2, <1>3, <1>5 DEF RequestFits
<1>8. ASSUME NEW n \in CodeNumbers, codes'[n] # NoTaskId
      PROVE  tasks'[codes'[n]] > 0 /\ codeOf'[codes'[n]] = n
  <2>1. codes'[n] = codes[n] /\ codes[n] \in TaskIds
    BY <1>2, <1>8 DEF CodesInv, IndexTypes
  <2>2. tasks[codes[n]] > 0 /\ codeOf[codes[n]] = n
    BY <1>8, <2>1 DEF CodesInv
  <2>3. codes[n] # x.id
    BY <1>2, <1>3, <2>2
  <2>4. QED
    BY <1>5, <2>1, <2>2, <2>3
<1>9. QED
  BY <1>2, <1>3, <1>6, <1>7, <1>8, CodesMoves

LEMMA PutShortCodeKeepsCodes ==
  ASSUME CodesInv, NEW s \in RequestSlots, PutShortCode(s)
  PROVE  CodesInv'
<1>1. PICK j \in Requests : j = requests[s]
  BY DEF CodesInv, IndexTypes
<1>2. PICK x \in Requests :
             /\ RequestMoves(s, x) /\ j.stage = "short"
             /\ x.stage = "update" /\ x.id = j.id
             /\ codes' = [codes EXCEPT ![j.code] = x.id]
             /\ UNCHANGED <<tasks, codeOf, stored, cache, answered, lastTold>>
  BY <1>1, PutShortCodeFacts DEF CodesInv
<1>3. Alone(s) /\ j.id \in TaskIds /\ tasks[j.id] > 0 /\ codeOf[j.id] = j.code
  BY <1>1, <1>2, OneRequest DEF RequestFits
<1>4. /\ codes' \in [CodeNumbers -> TaskIds \cup {NoTaskId}]
      /\ \A n \in CodeNumbers : codes'[n] = IF n = j.code THEN x.id ELSE codes[n]
  BY <1>2, <1>3 DEF CodesInv, IndexTypes
<1>5. IndexTypes' /\ RequestFits(x)'
  BY <1>2, <1>3, <1>4 DEF CodesInv, IndexTypes, RequestMoves, RequestFits
<1>6. \A n \in CodeNumbers : codes'[n] # NoTaskId =>
             tasks'[codes'[n]] > 0 /\ codeOf'[codes'[n]] = n
  BY <1>2, <1>3, <1>4 DEF CodesInv
<1>7. QED
  BY <1>2, <1>3, <1>5, <1>6, CodesMoves

LEMMA RestartKeepsCodes ==
  ASSUME CodesInv, NEW i \in Isolates, IsolateRestarts(i)
  PROVE  CodesInv'
<1>1. /\ cache' = [cache EXCEPT ![i] = NoIndex]
      /\ requests' = [s \in RequestSlots |-> IF IsolateOf[s] = i THEN NoRequest ELSE requests[s]]
      /\ UNCHANGED <<tasks, codeOf, codes, stored, answered, lastTold>>
  BY DEF IsolateRestarts
<1>2. ASSUME NEW s \in RequestSlots
      PROVE  requests'[s] \in Requests /\ requests'[s] \in {NoRequest, requests[s]}
  BY <1>1, NoRequestIsOne DEF CodesInv, IndexTypes
<1>3. IndexTypes'
  <2>1. requests' \in [RequestSlots -> Requests]
    BY <1>1, NoRequestIsOne DEF CodesInv, IndexTypes
  <2>2. cache' \in [Isolates -> Seq(Entries) \cup {NoIndex}]
    BY <1>1 DEF CodesInv, IndexTypes
  <2>3. QED
    BY <1>1, <2>1, <2>2 DEF CodesInv, IndexTypes
<1>4. ASSUME NEW s \in RequestSlots PROVE RequestFits(requests[s])'
  <2>1. PICK j \in Requests : j = requests'[s]
    BY <1>2
  <2>2. RequestFits(j)
    BY <1>2, <2>1, NoRequestIsOne DEF CodesInv, RequestFits
  <2>3. QED
    BY <1>1, <2>1, <2>2 DEF RequestFits
<1>5. \A s, x \in RequestSlots : requests'[s] # NoRequest /\ requests'[x] # NoRequest => s = x
  BY <1>2 DEF CodesInv
<1>6. \A n \in CodeNumbers : codes'[n] # NoTaskId =>
             tasks'[codes'[n]] > 0 /\ codeOf'[codes'[n]] = n
  BY <1>1 DEF CodesInv
<1>7. QED
  BY <1>3, <1>4, <1>5, <1>6, Zenon DEF CodesInv

LEMMA CodesStep ==
  ASSUME OneAtATime, CodesInv, [IndexNext]_ixVars
  PROVE  CodesInv'
<1>1. ASSUME NEW s \in RequestSlots, NEW t \in TaskIds, BeginCreate(s, t) \/ PutTask(s, t)
      PROVE  CodesInv'
  BY <1>1, BeginsKeepCodes
<1>2. ASSUME NEW s \in RequestSlots,
             \/ LoadIndex(s) \/ AssignIndex(s) \/ PutNewTask(s) \/ PutShortCode(s)
             \/ UpdateIndex(s) \/ FlushIndex(s) \/ RequestFails(s)
      PROVE  CodesInv'
  BY <1>2, IndexStepsKeepCodes, PutNewTaskKeepsCodes, PutShortCodeKeepsCodes, Zenon
<1>3. ASSUME NEW i \in Isolates, IsolateRestarts(i) PROVE CodesInv'
  BY <1>3, RestartKeepsCodes
<1>4. ASSUME UNCHANGED ixVars PROVE CodesInv'
  BY <1>4 DEF ixVars, CodesInv, IndexTypes, RequestFits
<1>5. QED
  BY <1>1, <1>2, <1>3, <1>4, Zenon DEF IndexNext

LEMMA IndexInitTypes == IndexInit => CodesInv
<1> SUFFICES ASSUME IndexInit PROVE CodesInv
  OBVIOUS
<1>1. /\ tasks \in [TaskIds -> Nat] /\ codeOf \in [TaskIds -> Nat] /\ answered \in [TaskIds -> Nat]
      /\ codes \in [CodeNumbers -> TaskIds \cup {NoTaskId}] /\ lastTold = NoTaskId
  BY DEF IndexInit
<1>2. stored \in Seq(Entries) /\ cache \in [Isolates -> Seq(Entries) \cup {NoIndex}]
  BY DEF IndexInit
<1>3. requests \in [RequestSlots -> Requests]
  BY NoRequestIsOne DEF IndexInit
<1>4. ASSUME NEW s \in RequestSlots PROVE requests[s] = NoRequest
  BY DEF IndexInit
<1>5. ASSUME NEW s \in RequestSlots PROVE RequestFits(requests[s])
  BY <1>4, NoRequestIsOne DEF RequestFits
<1>6. \A n \in CodeNumbers : codes[n] = NoTaskId
  BY DEF IndexInit
<1>7. IndexTypes
  BY <1>1, <1>2, <1>3 DEF IndexTypes
<1>8. QED
  BY <1>4, <1>5, <1>6, <1>7 DEF CodesInv

(* While requests do not overlap, in however many isolates, the code that  *)
(* leads to a task is the one in its record, whatever failed between the   *)
(* puts of create (kv-persistence.mjs, 99-121): the invariant says that a  *)
(* task is put with its code before its code is, and only when there was   *)
(* no such task, so that no code could lead to it.                         *)
THEOREM CodesName == OneAtATime => (IndexSpec => []CodeNamesItsTask)
<1>1. ASSUME OneAtATime PROVE IndexSpec => []CodeNamesItsTask
  <2>1. CodesInv /\ [IndexNext]_ixVars => CodesInv'
    BY <1>1, CodesStep
  <2>2. CodesInv => CodeNamesItsTask
    BY DEF CodesInv, CodeNamesItsTask
  <2>3. QED
    BY <2>1, <2>2, IndexInitTypes, PTL DEF IndexSpec
<1>2. QED
  BY <1>1

----------------------------------------------------------------------------
(* The index of one isolate *)

LEMMA ElementTypes ==
  ASSUME NEW list \in Seq(Entries), NEW n \in 1..Len(list)
  PROVE  list[n] \in Entries /\ list[n].id \in TaskIds /\ list[n].version \in Nat
<1>1. PICK e \in Entries : e = list[n]
  OBVIOUS
<1>2. QED
  BY <1>1 DEF Entries

LEMMA FaithfulStays ==
  ASSUME IndexTypes, IndexTypes', NEW list \in Seq(Entries), Faithful(list),
         \A t \in TaskIds : tasks[t] <= tasks'[t], answered' = answered
  PROVE  Faithful(list)'
<1>1. ASSUME NEW n \in 1..Len(list)
      PROVE  list[n].id \in TaskIds /\ list[n].version \in Nat
  BY ElementTypes
<1>2. ASSUME NEW n \in 1..Len(list)
      PROVE  /\ answered'[list[n].id] <= list[n].version
             /\ list[n].version <= tasks'[list[n].id]
  <2>1. PICK t \in TaskIds : t = list[n].id
    BY <1>1
  <2>2. PICK v \in Nat : v = list[n].version
    BY <1>1
  <2>3. /\ answered[t] <= v /\ v <= tasks[t] /\ tasks[t] <= tasks'[t]
        /\ tasks[t] \in Nat /\ tasks'[t] \in Nat
    BY <2>1, <2>2 DEF Faithful, IndexTypes
  <2>4. QED
    BY <2>1, <2>2, <2>3
<1>3. QED
  BY <1>2 DEF Faithful

LEMMA IndexMoves ==
  ASSUME NEW s \in RequestSlots, NEW x, Alone(s), RequestMoves(s, x),
         CopyFits(IsolateOf[s], x)', Faithful(stored)',
         \A i \in Isolates : cache'[i] # NoIndex => Faithful(cache[i])',
         \A t \in TaskIds : answered'[t] <= tasks'[t],
         lastTold' # NoTaskId => Len(stored') > 0 /\ stored'[1].id = lastTold'
  PROVE  IndexInv'
<1>1. ASSUME NEW r \in RequestSlots PROVE CopyFits(IsolateOf[r], requests[r])'
  <2>1. PICK j : j = requests'[r]
    OBVIOUS
  <2>2. j = IF r = s THEN x ELSE NoRequest
    BY <2>1 DEF RequestMoves, Alone
  <2>3. CopyFits(IsolateOf[r], j)'
    BY <2>2, NoRequestIsOne DEF CopyFits
  <2>4. QED
    BY <2>1, <2>3 DEF CopyFits
<1>2. QED
  BY <1>1, Zenon DEF IndexInv

(* Steps that touch neither the stored index nor the copy.                 *)
LEMMA OtherStepsKeepIndex ==
  ASSUME CodesInv, IndexInv, IndexTypes', NEW s \in RequestSlots, NEW x, Alone(s),
         RequestMoves(s, x), x.stage \notin {"assign", "flush"},
         x.stage \in {"code", "short", "update"} => cache[IsolateOf[s]] # NoIndex,
         \A t \in TaskIds : tasks[t] <= tasks'[t],
         UNCHANGED <<stored, cache, answered, lastTold>>
  PROVE  IndexInv'
<1>1. CopyFits(IsolateOf[s], x)'
  BY DEF CopyFits
<1>2. Faithful(stored)'
  <2>1. PICK list \in Seq(Entries) : list = stored
    BY DEF CodesInv, IndexTypes
  <2>2. Faithful(list)'
    BY <2>1, FaithfulStays DEF IndexInv, CodesInv
  <2>3. QED
    BY <2>1, <2>2 DEF Faithful
<1>3. ASSUME NEW i \in Isolates, cache'[i] # NoIndex PROVE Faithful(cache[i])'
  <2>1. PICK list \in Seq(Entries) : list = cache[i]
    BY <1>3 DEF CodesInv, IndexTypes
  <2>2. Faithful(list)'
    BY <1>3, <2>1, FaithfulStays DEF IndexInv, CodesInv
  <2>3. QED
    BY <2>1, <2>2 DEF Faithful
<1>4. \A t \in TaskIds : answered'[t] <= tasks'[t]
  BY DEF IndexInv, CodesInv, IndexTypes
<1>5. lastTold' # NoTaskId => Len(stored') > 0 /\ stored'[1].id = lastTold'
  BY DEF IndexInv
<1>6. QED
  BY <1>1, <1>2, <1>3, <1>4, <1>5, IndexMoves

LEMMA BeginsKeepIndex ==
  ASSUME OneAtATime, CodesInv, CodesInv', IndexInv, NEW s \in RequestSlots, NEW id \in TaskIds,
         BeginCreate(s, id) \/ PutTask(s, id)
  PROVE  IndexInv'
<1>1. CASE BeginCreate(s, id)
  <2>1. PICK x \in Requests :
             /\ Alone(s) /\ RequestMoves(s, x) /\ x.id = id /\ tasks[id] = 0
             /\ \/ x.stage = "load"
                \/ x.stage = "code" /\ cache[IsolateOf[s]] # NoIndex
             /\ UNCHANGED <<tasks, codeOf, codes, stored, cache, answered, lastTold>>
    BY <1>1, BeginCreateFacts DEF CodesInv
  <2>2. \A t \in TaskIds : tasks[t] <= tasks'[t]
    BY <2>1 DEF CodesInv, IndexTypes
  <2>3. QED
    BY <2>1, <2>2, OtherStepsKeepIndex DEF CodesInv
<1>2. CASE PutTask(s, id)
  <2>1. PICK x \in Requests :
             /\ Alone(s) /\ RequestMoves(s, x) /\ x.id = id
             /\ tasks[id] > 0 /\ tasks' = [tasks EXCEPT ![id] = tasks[id] + 1]
             /\ \/ x.stage = "load"
                \/ x.stage = "update" /\ cache[IsolateOf[s]] # NoIndex
             /\ UNCHANGED <<codeOf, codes, stored, cache, answered, lastTold>>
    BY <1>2, PutTaskFacts DEF CodesInv
  <2>2. \A t \in TaskIds : tasks[t] <= tasks'[t]
    BY <2>1 DEF CodesInv, IndexTypes
  <2>3. QED
    BY <2>1, <2>2, OtherStepsKeepIndex DEF CodesInv
<1>3. QED
  BY <1>1, <1>2

LEMMA CreatesKeepIndex ==
  ASSUME CodesInv, CodesInv', IndexInv, NEW s \in RequestSlots,
         PutNewTask(s) \/ PutShortCode(s) \/ RequestFails(s)
  PROVE  IndexInv'
<1>1. PICK j \in Requests : j = requests[s]
  BY DEF CodesInv, IndexTypes
<1>2. CopyFits(IsolateOf[s], j)
  BY <1>1 DEF IndexInv
<1>3. CASE PutNewTask(s)
  <2>1. PICK x \in Requests :
             /\ RequestMoves(s, x) /\ j.stage = "code"
             /\ x.stage = "short" /\ x.id = j.id
             /\ tasks' = [tasks EXCEPT ![x.id] = 1]
             /\ UNCHANGED <<codes, stored, cache, answered, lastTold>>
    BY <1>1, <1>3, PutNewTaskFacts DEF CodesInv
  <2>2. Alone(s) /\ j.id \in TaskIds /\ tasks[j.id] = 0
    BY <1>1, <2>1, OneRequest DEF RequestFits
  <2>3. \A t \in TaskIds : tasks[t] <= tasks'[t]
    BY <2>1, <2>2 DEF CodesInv, IndexTypes
  <2>4. cache[IsolateOf[s]] # NoIndex
    BY <1>2, <2>1 DEF CopyFits
  <2>5. QED
    BY <2>1, <2>2, <2>3, <2>4, OtherStepsKeepIndex DEF CodesInv
<1>4. CASE PutShortCode(s)
  <2>1. PICK x \in Requests :
             /\ RequestMoves(s, x) /\ j.stage = "short" /\ x.stage = "update"
             /\ UNCHANGED <<tasks, codeOf, stored, cache, answered, lastTold>>
    BY <1>1, <1>4, PutShortCodeFacts DEF CodesInv
  <2>2. Alone(s)
    BY <1>1, <2>1, OneRequest
  <2>3. \A t \in TaskIds : tasks[t] <= tasks'[t]
    BY <2>1 DEF CodesInv, IndexTypes
  <2>4. cache[IsolateOf[s]] # NoIndex
    BY <1>2, <2>1 DEF CopyFits
  <2>5. QED
    BY <2>1, <2>2, <2>3, <2>4, OtherStepsKeepIndex DEF CodesInv
<1>5. CASE RequestFails(s)
  <2>1. /\ RequestMoves(s, NoRequest) /\ Alone(s)
        /\ UNCHANGED <<tasks, codeOf, codes, stored, cache, answered, lastTold>>
    BY <1>5, RequestEnds DEF CodesInv, RequestFails, Alone
  <2>2. \A t \in TaskIds : tasks[t] <= tasks'[t]
    BY <2>1 DEF CodesInv, IndexTypes
  <2>3. QED
    BY <2>1, <2>2, NoRequestIsOne, OtherStepsKeepIndex DEF CodesInv
<1>6. QED
  BY <1>3, <1>4, <1>5

(* The copy is made of the stored index ... *)
LEMMA LoadsKeepIndex ==
  ASSUME CodesInv, CodesInv', IndexInv, NEW s \in RequestSlots,
         LoadIndex(s) \/ AssignIndex(s)
  PROVE  IndexInv'
<1>1. PICK j \in Requests : j = requests[s]
  BY DEF CodesInv, IndexTypes
<1>2. CopyFits(IsolateOf[s], j)
  BY <1>1 DEF IndexInv
<1>3. PICK x \in Requests :
         /\ RequestMoves(s, x) /\ j.stage \in {"load", "assign"}
         /\ \/ x.stage = "assign" /\ x.value = stored /\ cache' = cache
            \/ /\ x.stage \in {"code", "update"} /\ j.stage = "assign"
               /\ cache' = [cache EXCEPT ![IsolateOf[s]] = j.value]
         /\ UNCHANGED <<tasks, codeOf, codes, stored, answered, lastTold>>
  <2>1. CASE LoadIndex(s)
    BY <1>1, <2>1, LoadIndexFacts DEF CodesInv
  <2>2. CASE AssignIndex(s)
    BY <1>1, <2>2, AssignIndexFacts DEF CodesInv
  <2>3. QED
    BY <2>1, <2>2
<1>4. Alone(s)
  BY <1>1, <1>3, OneRequest
<1>5. PICK list \in Seq(Entries) : list = stored
  BY DEF CodesInv, IndexTypes
<1>6. Faithful(list) /\ list # NoIndex
  BY <1>5, TaskIndexAssumption DEF IndexInv, Entries
<1>7. cache' = cache \/ cache' = [cache EXCEPT ![IsolateOf[s]] = list]
  BY <1>2, <1>3, <1>5 DEF CopyFits
<1>8. \A t \in TaskIds : tasks[t] <= tasks'[t]
  BY <1>3 DEF CodesInv, IndexTypes
<1>9. Faithful(list)'
  BY <1>3, <1>5, <1>6, <1>8, FaithfulStays DEF CodesInv
<1>10. Faithful(stored)'
  BY <1>3, <1>5, <1>9 DEF Faithful
<1>11. ASSUME NEW i \in Isolates, cache'[i] # NoIndex PROVE Faithful(cache[i])'
  <2>1. PICK copy \in Seq(Entries) : copy = cache'[i]
    BY <1>11 DEF CodesInv, IndexTypes
  <2>2. Faithful(copy)
    BY <1>6, <1>7, <1>11, <2>1 DEF IndexInv, CodesInv, IndexTypes
  <2>3. Faithful(copy)'
    BY <1>3, <1>8, <2>2, FaithfulStays DEF CodesInv
  <2>4. QED
    BY <2>1, <2>3 DEF Faithful
<1>12. CopyFits(IsolateOf[s], x)'
  <2>1. CASE x.stage = "assign"
    BY <1>3, <2>1 DEF CopyFits
  <2>2. CASE x.stage \in {"code", "update"}
    <3>1. cache' = [cache EXCEPT ![IsolateOf[s]] = list]
      BY <1>2, <1>3, <1>5, <2>2 DEF CopyFits
    <3>2. cache'[IsolateOf[s]] = list
      BY <3>1, TaskIndexAssumption DEF CodesInv, IndexTypes
    <3>3. QED
      BY <1>6, <2>2, <3>2 DEF CopyFits
  <2>3. QED
    BY <1>3, <2>1, <2>2
<1>13. /\ \A t \in TaskIds : answered'[t] <= tasks'[t]
       /\ lastTold' # NoTaskId => Len(stored') > 0 /\ stored'[1].id = lastTold'
  BY <1>3 DEF IndexInv
<1>14. QED
  BY <1>3, <1>4, <1>10, <1>11, <1>12, <1>13, IndexMoves

(* ... and changed like it: what is said of a list is true of the list     *)
(* with the newest version of a task in front.                             *)
LEMMA UpdatedIsFaithful ==
  ASSUME IndexTypes, NEW list \in Seq(Entries), Faithful(list), NEW id \in TaskIds,
         answered[id] <= tasks[id]
  PROVE  Faithful(Updated(list, Entry(id, tasks[id])))
<1>1. PICK entry \in Entries : entry = Entry(id, tasks[id])
  BY DEF Entry, Entries, IndexTypes
<1>2. entry.id = id /\ entry.version = tasks[id]
  BY <1>1 DEF Entry
<1>3. PICK new : new = Updated(list, entry)
  OBVIOUS
<1>4. \A m, n \in 1..Len(list) : list[m].id = list[n].id => m = n
  BY DEF Faithful
<1>5. /\ new \in Seq(Entries)
      /\ Len(new) > 0 /\ new[1] = entry
      /\ Len(new) <= MaxIndexed
      /\ \A k \in 2..Len(new) : \E n \in 1..Len(list) : new[k] = list[n]
      /\ \A m, n \in 1..Len(new) : new[m].id = new[n].id => m = n
      /\ \A t : (\E n \in 1..Len(list) : list[n].id = t) \/ Len(list) >= MaxIndexed
                  => \/ \E n \in 1..Len(new) : new[n].id = t
                     \/ Len(new) = MaxIndexed
  <2>1. new \in Seq(Entries) /\ NewestFirst(new, list, entry)
    BY <1>3, UpdatedFacts
  <2>2. QED
    BY <1>4, <2>1 DEF NewestFirst
<1>6. ASSUME NEW n \in 1..Len(new)
      PROVE  answered[new[n].id] <= new[n].version /\ new[n].version <= tasks[new[n].id]
  <2>1. CASE n = 1
    <3>1. new[n].id = id /\ new[n].version = tasks[id]
      BY <1>2, <1>5, <2>1
    <3>2. tasks[id] \in Nat
      BY DEF IndexTypes
    <3>3. QED
      BY <3>1, <3>2
  <2>2. CASE n # 1
    <3>1. n \in 2..Len(new)
      BY <2>2
    <3>2. PICK k \in 1..Len(list) : new[n] = list[k]
      BY <1>5, <3>1
    <3>3. QED
      BY <3>2 DEF Faithful
  <2>3. QED
    BY <2>1, <2>2
<1>7. ASSUME NEW t \in TaskIds, answered[t] > 0
      PROVE  (\E n \in 1..Len(new) : new[n].id = t) \/ Len(new) = MaxIndexed
  <2>1. Len(list) \in Nat /\ MaxIndexed \in Nat
    BY TaskIndexAssumption
  <2>2. (\E n \in 1..Len(list) : list[n].id = t) \/ Len(list) >= MaxIndexed
    BY <1>7, <2>1 DEF Faithful
  <2>3. QED
    BY <1>5, <2>2
<1>8. Faithful(new)
  BY <1>5, <1>6, <1>7 DEF Faithful
<1>9. QED
  BY <1>1, <1>3, <1>8

LEMMA UpdateKeepsIndex ==
  ASSUME CodesInv, CodesInv', IndexInv, NEW s \in RequestSlots, UpdateIndex(s)
  PROVE  IndexInv'
<1>1. PICK j \in Requests : j = requests[s]
  BY DEF CodesInv, IndexTypes
<1>2. j.stage = "update" /\ Alone(s) /\ j.id \in TaskIds
  BY <1>1, OneRequest DEF UpdateIndex
<1>3. PICK x \in Requests :
             /\ RequestMoves(s, x) /\ x.stage = "flush" /\ x.id = j.id
             /\ IndexCopy(IsolateOf[s]) \in Seq(Entries)
             /\ Entry(x.id, tasks[x.id]) \in Entries
             /\ x.value = Updated(IndexCopy(IsolateOf[s]), Entry(x.id, tasks[x.id]))
             /\ x.value \in Seq(Entries)
             /\ cache' = [cache EXCEPT ![IsolateOf[s]] = x.value]
             /\ UNCHANGED <<tasks, codeOf, codes, stored, answered, lastTold>>
  BY <1>1, <1>2, UpdateIndexFacts DEF CodesInv
<1>4. IsolateOf[s] \in Isolates /\ cache[IsolateOf[s]] # NoIndex
  BY <1>1, <1>2, TaskIndexAssumption DEF IndexInv, CopyFits
<1>5. PICK copy \in Seq(Entries) : copy = cache[IsolateOf[s]] /\ copy = IndexCopy(IsolateOf[s])
  BY <1>3, <1>4 DEF IndexCopy
<1>6. PICK list \in Seq(Entries) : list = x.value
  BY <1>3
<1>7. Faithful(copy)
  BY <1>4, <1>5 DEF IndexInv
<1>8. Faithful(list) /\ Len(list) > 0 /\ list[1] = Entry(j.id, tasks[j.id])
  <2>1. list = Updated(copy, Entry(j.id, tasks[j.id])) /\ Entry(j.id, tasks[j.id]) \in Entries
    BY <1>3, <1>5, <1>6
  <2>2. answered[j.id] <= tasks[j.id]
    BY <1>2 DEF IndexInv
  <2>3. Faithful(list)
    BY <1>2, <1>7, <2>1, <2>2, UpdatedIsFaithful DEF CodesInv
  <2>4. NewestFirst(list, copy, Entry(j.id, tasks[j.id]))
    BY <2>1, UpdatedFacts
  <2>5. QED
    BY <2>3, <2>4 DEF NewestFirst
<1>9. Faithful(stored)'
  BY <1>3 DEF IndexInv, Faithful
<1>10. ASSUME NEW i \in Isolates, cache'[i] # NoIndex PROVE Faithful(cache[i])'
  <2>1. PICK new : new = cache'[i]
    OBVIOUS
  <2>2. Faithful(new)
    BY <1>3, <1>6, <1>8, <1>10, <2>1 DEF IndexInv, CodesInv, IndexTypes
  <2>3. QED
    BY <1>3, <2>1, <2>2 DEF Faithful
<1>11. CopyFits(IsolateOf[s], x)'
  <2>1. cache'[IsolateOf[s]] = list
    BY <1>3, <1>4, <1>6 DEF CodesInv, IndexTypes
  <2>2. list # NoIndex
    BY TaskIndexAssumption DEF Entries
  <2>3. QED
    BY <1>3, <1>6, <1>8, <2>1, <2>2 DEF CopyFits, Entry
<1>12. /\ \A t \in TaskIds : answered'[t] <= tasks'[t]
       /\ lastTold' # NoTaskId => Len(stored') > 0 /\ stored'[1].id = lastTold'
  BY <1>3 DEF IndexInv
<1>13. QED
  BY <1>2, <1>3, <1>9, <1>10, <1>11, <1>12, IndexMoves

(* The copy is what is stored, and its first entry what a client is told.  *)
LEMMA FlushKeepsIndex ==
  ASSUME \A i, k \in Isolates : i = k,
         CodesInv, CodesInv', IndexInv, NEW s \in RequestSlots, FlushIndex(s)
  PROVE  IndexInv'
<1>1. PICK j \in Requests : j = requests[s]
  BY DEF CodesInv, IndexTypes
<1>2. j.stage = "flush" /\ Alone(s) /\ j.id \in TaskIds
  BY <1>1, OneRequest DEF FlushIndex
<1>3. PICK id \in TaskIds : id = j.id
  BY <1>2
<1>4. PICK list \in Seq(Entries) : list = j.value
  BY DEF Requests
<1>5. /\ stored' = list
      /\ answered' = [answered EXCEPT ![id] = tasks[id]]
      /\ lastTold' = id
      /\ requests' = [requests EXCEPT ![s] = NoRequest]
      /\ UNCHANGED <<tasks, codeOf, codes, cache>>
  BY <1>1, <1>3, <1>4 DEF FlushIndex
<1>6. RequestMoves(s, NoRequest)
  BY <1>5, RequestEnds DEF CodesInv
<1>7. /\ list = cache[IsolateOf[s]] /\ list # NoIndex /\ Len(list) > 0
      /\ list[1].id = id /\ list[1].version = tasks[id]
  <2>1. CopyFits(IsolateOf[s], j)
    BY <1>1 DEF IndexInv
  <2>2. QED
    BY <1>2, <1>3, <1>4, <2>1 DEF CopyFits, Entry
<1>8. Faithful(list)
  BY <1>7, TaskIndexAssumption DEF IndexInv
<1>9. Faithful(list)'
  <2>1. ASSUME NEW n \in 1..Len(list)
        PROVE  /\ answered'[list[n].id] <= list[n].version
               /\ list[n].version <= tasks'[list[n].id]
    <3>1. list[n].id \in TaskIds /\ list[n].version \in Nat
      BY ElementTypes
    <3>2. CASE list[n].id = id
      <4>1. Len(list) \in Nat /\ 1 \in 1..Len(list)
        BY <1>7
      <4>2. n = 1
        BY <1>7, <1>8, <3>2, <4>1 DEF Faithful
      <4>3. answered'[id] = tasks[id] /\ tasks[id] \in Nat
        BY <1>5 DEF CodesInv, IndexTypes
      <4>4. QED
        BY <1>5, <1>7, <3>2, <4>2, <4>3
    <3>3. CASE list[n].id # id
      <4>1. answered'[list[n].id] = answered[list[n].id]
        BY <1>5, <3>1, <3>3 DEF CodesInv, IndexTypes
      <4>2. QED
        BY <1>5, <1>8, <4>1 DEF Faithful
    <3>4. QED
      BY <3>2, <3>3
  <2>2. ASSUME NEW t \in TaskIds, answered'[t] > 0
        PROVE  (\E n \in 1..Len(list) : list[n].id = t) \/ Len(list) = MaxIndexed
    <3>1. CASE t = id
      BY <1>7, <3>1
    <3>2. CASE t # id
      BY <1>5, <1>8, <2>2, <3>2 DEF Faithful, CodesInv, IndexTypes
    <3>3. QED
      BY <3>1, <3>2
  <2>3. QED
    BY <1>8, <2>1, <2>2 DEF Faithful
<1>10. Faithful(stored)'
  BY <1>5, <1>9 DEF Faithful
<1>11. ASSUME NEW i \in Isolates, cache'[i] # NoIndex PROVE Faithful(cache[i])'
  <2>1. cache'[i] = list
    BY <1>5, <1>7, TaskIndexAssumption
  <2>2. QED
    BY <1>9, <2>1 DEF Faithful
<1>12. CopyFits(IsolateOf[s], NoRequest)'
  BY NoRequestIsOne DEF CopyFits
<1>13. \A t \in TaskIds : answered'[t] <= tasks'[t]
  BY <1>5 DEF IndexInv, CodesInv, IndexTypes
<1>14. Len(stored') > 0 /\ stored'[1].id = lastTold'
  BY <1>5, <1>7
<1>15. QED
  BY <1>2, <1>6, <1>10, <1>11, <1>12, <1>13, <1>14, IndexMoves

LEMMA RestartKeepsIndex ==
  ASSUME CodesInv, CodesInv', IndexInv, NEW i \in Isolates, IsolateRestarts(i)
  PROVE  IndexInv'
<1>1. /\ cache' = [cache EXCEPT ![i] = NoIndex]
      /\ requests' = [s \in RequestSlots |-> IF IsolateOf[s] = i THEN NoRequest ELSE requests[s]]
      /\ UNCHANGED <<tasks, codeOf, codes, stored, answered, lastTold>>
  BY DEF IsolateRestarts
<1>2. ASSUME NEW s \in RequestSlots PROVE CopyFits(IsolateOf[s], requests[s])'
  <2>1. PICK j : j = requests'[s]
    OBVIOUS
  <2>2. CASE IsolateOf[s] = i
    <3>1. j = NoRequest
      BY <1>1, <2>1, <2>2
    <3>2. QED
      BY <2>1, <3>1, NoRequestIsOne DEF CopyFits
  <2>3. CASE IsolateOf[s] # i
    <3>1. /\ j = requests[s] /\ cache'[IsolateOf[s]] = cache[IsolateOf[s]]
      BY <1>1, <2>1, <2>3, TaskIndexAssumption DEF CodesInv, IndexTypes
    <3>2. CopyFits(IsolateOf[s], j)
      BY <3>1 DEF IndexInv
    <3>3. QED
      BY <1>1, <2>1, <3>1, <3>2 DEF CopyFits
  <2>4. QED
    BY <2>2, <2>3
<1>3. ASSUME NEW k \in Isolates, cache'[k] # NoIndex PROVE Faithful(cache[k])'
  <2>1. cache'[k] = cache[k]
    BY <1>1, <1>3 DEF CodesInv, IndexTypes
  <2>2. PICK list : list = cache[k]
    OBVIOUS
  <2>3. Faithful(list)
    BY <1>3, <2>1, <2>2 DEF IndexInv
  <2>4. QED
    BY <1>1, <2>1, <2>2, <2>3 DEF Faithful
<1>4. Faithful(stored)'
  BY <1>1 DEF IndexInv, Faithful
<1>5. /\ \A t \in TaskIds : answered'[t] <= tasks'[t]
      /\ lastTold' # NoTaskId => Len(stored') > 0 /\ stored'[1].id = lastTold'
  BY <1>1 DEF IndexInv
<1>6. QED
  BY <1>2, <1>3, <1>4, <1>5, Zenon DEF IndexInv

(* What IndexInv claims, readers of the index can rely on.                 *)
LEMMA FaithfulIsTrue ==
  ASSUME CodesInv, IndexInv
  PROVE  IndexIsTrue
<1>1. DOMAIN stored = 1..Len(stored)
  BY DEF CodesInv, IndexTypes
<1>2. Faithful(stored)
  BY DEF IndexInv
<1>3. IndexIsCurrent
  BY <1>1, <1>2 DEF IndexIsCurrent, Faithful
<1>4. AnsweredIsListed
  BY <1>1, <1>2 DEF AnsweredIsListed, Listed, Faithful, IndexInv
<1>5. QED
  BY <1>3, <1>4 DEF IndexIsTrue

(* One isolate, requests that do not overlap, failures and restarts        *)
(* anywhere: recent-task lists and the latest active task are true to what *)
(* clients were told (kv-persistence.mjs, 66-94).  What is said of the     *)
(* stored index is an invariant of the copy in the isolate, which may be   *)
(* ahead of it, and of the list a request is about to put.                 *)
THEOREM IndexTrue ==
  OneAtATime /\ (\A i, k \in Isolates : i = k) => (IndexSpec => []IndexIsTrue)
<1>1. ASSUME OneAtATime, \A i, k \in Isolates : i = k PROVE IndexSpec => []IndexIsTrue
  <2>1. IndexInit => IndexInv
    <3> SUFFICES ASSUME IndexInit PROVE IndexInv
      OBVIOUS
    <3>1. ASSUME NEW s \in RequestSlots PROVE CopyFits(IsolateOf[s], requests[s])
      BY NoRequestIsOne DEF IndexInit, CopyFits
    <3>2. /\ Faithful(stored) /\ \A i \in Isolates : cache[i] = NoIndex
          /\ \A t \in TaskIds : answered[t] <= tasks[t]
          /\ lastTold = NoTaskId
      BY TaskIndexAssumption DEF IndexInit, Faithful
    <3>3. QED
      BY <3>1, <3>2 DEF IndexInv
  <2>2. CodesInv /\ [IndexNext]_ixVars => CodesInv'
    BY <1>1, CodesStep
  <2>3. CodesInv /\ CodesInv' /\ IndexInv /\ [IndexNext]_ixVars => IndexInv'
    <3> SUFFICES ASSUME CodesInv, CodesInv', IndexInv, [IndexNext]_ixVars PROVE IndexInv'
      OBVIOUS
    <3>1. ASSUME NEW s \in RequestSlots, NEW t \in TaskIds, BeginCreate(s, t) \/ PutTask(s, t)
          PROVE  IndexInv'
      BY <1>1, <3>1, BeginsKeepIndex
    <3>2. ASSUME NEW s \in RequestSlots,
                 \/ LoadIndex(s) \/ AssignIndex(s) \/ PutNewTask(s) \/ PutShortCode(s)
                 \/ UpdateIndex(s) \/ FlushIndex(s) \/ RequestFails(s)
          PROVE  IndexInv'
      BY <1>1, <3>2, LoadsKeepIndex, CreatesKeepIndex, UpdateKeepsIndex, FlushKeepsIndex, Zenon
    <3>3. ASSUME NEW i \in Isolates, IsolateRestarts(i) PROVE IndexInv'
      BY <3>3, RestartKeepsIndex
    <3>4. ASSUME UNCHANGED ixVars PROVE IndexInv'
      BY <3>4 DEF ixVars, IndexInv, Faithful, CopyFits
    <3>5. QED
      BY <3>1, <3>2, <3>3, <3>4, Zenon DEF IndexNext
  <2>4. CodesInv /\ IndexInv => IndexIsTrue
    BY FaithfulIsTrue
  <2>5. QED
    BY <2>1, <2>2, <2>3, <2>4, IndexInitTypes, PTL DEF IndexSpec
<1>2. QED
  BY <1>1

----------------------------------------------------------------------------
(* The dashboard *)

DashboardSpec == DashboardInit /\ [][DashboardNext]_dashboardVars

PublisherStates ==
    [stage : {"idle", "compute", "await", "done"}, left : Seq(ToSet(Resources)),
     stamps : Seq(Nat), failures : Nat]

(* The resources whose post has been answered, or given up.                *)
Settled(x) == IF x.stage = "await" THEN Len(x.stamps) - 1 ELSE Len(x.stamps)

(* A publisher goes through the resources in their order, and each of its  *)
(* stamps is that of a snapshot it computed of the resource.               *)
PublisherFits(p, x) ==
    /\ x \in PublisherStates
    /\ x.stage \in {"compute", "await"} =>
          /\ Len(x.left) > 0 /\ Settled(x) + Len(x.left) = Len(Resources)
          /\ \A k \in 1..Len(x.left) : x.left[k] = Resources[Settled(x) + k]
    /\ x.stage = "await" => Len(x.stamps) > 0
    /\ x.stage = "done" => Len(x.stamps) = Len(Resources)
    /\ \A i \in 1..Len(x.stamps) :
          /\ i <= Len(Resources)
          /\ \E c \in computed :
                c.stamp = x.stamps[i] /\ c.resource = Resources[i] /\ c.scope = ScopeOf[p]

(* While no post of its scope came out of turn and none failed, what it    *)
(* has settled is stored, or something newer is.                           *)
PublisherIsShown(p, x) ==
    x.failures = 0 /\ ScopeOf[p] \notin stray =>
        \A i \in 1..Settled(x) :
            snapshotOf[<<Resources[i], ScopeOf[p]>>].stamp >= x.stamps[i]

(* The snapshots are numbered in the order of their computation.           *)
ComputedInv ==
    /\ IsFiniteSet(computed)
    /\ \A c \in computed :
          /\ c.stamp \in 1..Cardinality(computed)
          /\ c.resource \in ToSet(Resources) /\ c.scope \in Scopes
    /\ \A c, d \in computed : c.stamp = d.stamp => c = d

StoredFits(r, s, x) ==
    x # NoSnapshot => x \in computed /\ x.resource = r /\ x.scope = s

SnapshotsInv ==
    /\ ComputedInv
    /\ snapshotOf \in [ToSet(Resources) \X Scopes -> computed \cup {NoSnapshot}]
    /\ \A r \in ToSet(Resources), s \in Scopes : StoredFits(r, s, snapshotOf[<<r, s>>])
    /\ \A post \in posts :
          /\ post.publisher \in Publishers /\ post.snapshot \in computed
          /\ post.snapshot.scope = ScopeOf[post.publisher]

Busy(x) == x.stage \in {"compute", "await"}

PublishersInv ==
    /\ publishers \in [Publishers -> PublisherStates]
    /\ \A p \in Publishers :
          PublisherFits(p, publishers[p]) /\ PublisherIsShown(p, publishers[p])

(* In a scope whose posts come in turn one publisher publishes at a time,  *)
(* and what it waits for is the newest there is.                           *)
TurnsInv ==
    /\ \A p, q \in Publishers :
          ScopeOf[p] = ScopeOf[q] /\ ScopeOf[p] \notin stray
          /\ Busy(publishers[p]) /\ Busy(publishers[q]) => p = q
    /\ \A p \in Publishers, c \in computed :
          publishers[p].stage = "await" /\ ScopeOf[p] \notin stray /\ c.scope = ScopeOf[p] =>
              c.stamp <= Last(publishers[p].stamps)

ScreenInv ==
    screen.kind = "shown" =>
        /\ screen.snapshot \in computed
        /\ screen.snapshot.resource = screen.resource
        /\ screen.snapshot.scope = screen.scope

DashboardInv == SnapshotsInv /\ PublishersInv /\ TurnsInv /\ ScreenInv

LEMMA TheResources ==
  /\ Resources \in Seq(ToSet(Resources)) /\ Len(Resources) \in Nat
  /\ DOMAIN Resources = 1..Len(Resources)
  /\ \A i \in 1..Len(Resources) : Resources[i] \in ToSet(Resources)
  /\ \A p \in Publishers : ScopeOf[p] \in Scopes
<1>1. Resources \in Seq(ToSet(Resources))
  BY DashboardAssumption
<1>2. PICK S : S = ToSet(Resources)
  OBVIOUS
<1>3. Resources \in Seq(S)
  BY <1>1, <1>2
<1>4. /\ Len(Resources) \in Nat /\ DOMAIN Resources = 1..Len(Resources)
      /\ \A i \in 1..Len(Resources) : Resources[i] \in S
  BY <1>3
<1>5. \A p \in Publishers : ScopeOf[p] \in Scopes
  BY DEF Scopes
<1>6. QED
  BY <1>1, <1>2, <1>4, <1>5

(* What may change without harm to the publishers it does not concern.     *)
ScopesStay ==
    /\ computed \subseteq computed' /\ stray \subseteq stray'
    /\ \A r \in ToSet(Resources), s \in Scopes : s \notin stray' =>
          /\ snapshotOf[<<r, s>>].stamp \in Nat /\ snapshotOf'[<<r, s>>].stamp \in Nat
          /\ snapshotOf'[<<r, s>>].stamp >= snapshotOf[<<r, s>>].stamp

LEMMA PublisherFitsOn ==
  ASSUME NEW p, NEW x, PublisherFits(p, x), computed \subseteq computed'
  PROVE  PublisherFits(p, x)'
BY DEF PublisherFits

LEMMA PublisherIsShownOn ==
  ASSUME ScopesStay, NEW p \in Publishers, NEW x, PublisherFits(p, x), PublisherIsShown(p, x)
  PROVE  PublisherIsShown(p, x)'
<1>1. SUFFICES ASSUME x.failures = 0, ScopeOf[p] \notin stray', NEW i \in 1..Settled(x)
               PROVE  snapshotOf'[<<Resources[i], ScopeOf[p]>>].stamp >= x.stamps[i]
  BY DEF PublisherIsShown
<1>2. i \in 1..Len(x.stamps) /\ x.stamps[i] \in Nat
  <2>1. x.stamps \in Seq(Nat)
    BY DEF PublisherFits, PublisherStates
  <2>2. Len(x.stamps) \in Nat
    BY <2>1
  <2>3. QED
    BY <1>1, <2>1, <2>2 DEF Settled
<1>3. i \in 1..Len(Resources)
  BY <1>2, TheResources DEF PublisherFits
<1>4. PICK r \in ToSet(Resources), s \in Scopes : r = Resources[i] /\ s = ScopeOf[p]
  BY <1>3, TheResources
<1>5. snapshotOf[<<r, s>>].stamp >= x.stamps[i]
  BY <1>1, <1>4 DEF PublisherIsShown, ScopesStay
<1>6. /\ snapshotOf[<<r, s>>].stamp \in Nat /\ snapshotOf'[<<r, s>>].stamp \in Nat
      /\ snapshotOf'[<<r, s>>].stamp >= snapshotOf[<<r, s>>].stamp
  BY <1>1, <1>4 DEF ScopesStay
<1>7. snapshotOf'[<<r, s>>].stamp >= x.stamps[i]
  BY <1>2, <1>5, <1>6
<1>8. QED
  BY <1>4, <1>7

(* A publisher moves on, alone. *)
PublisherMoves(p, x) ==
    /\ x \in PublisherStates /\ publishers' \in [Publishers -> PublisherStates]
    /\ publishers'[p] = x
    /\ \A q \in Publishers : q # p => publishers'[q] = publishers[q]

LEMMA PublisherChanges ==
  ASSUME PublishersInv, NEW p \in Publishers, NEW x \in PublisherStates,
         publishers' = [publishers EXCEPT ![p] = x]
  PROVE  PublisherMoves(p, x)
BY DEF PublisherMoves, PublishersInv

LEMMA PublishersMove ==
  ASSUME PublishersInv, ScopesStay, NEW p \in Publishers, NEW x, PublisherMoves(p, x),
         PublisherFits(p, x)', PublisherIsShown(p, x)'
  PROVE  PublishersInv'
<1>1. ASSUME NEW q \in Publishers
      PROVE  PublisherFits(q, publishers[q])' /\ PublisherIsShown(q, publishers[q])'
  <2>1. PICK y : y = publishers'[q]
    OBVIOUS
  <2>2. PublisherFits(q, y)' /\ PublisherIsShown(q, y)'
    <3>1. CASE q = p
      BY <2>1, <3>1 DEF PublisherMoves
    <3>2. CASE q # p
      <4>1. PublisherFits(q, y) /\ PublisherIsShown(q, y)
        BY <2>1, <3>2 DEF PublisherMoves, PublishersInv
      <4>2. computed \subseteq computed'
        BY DEF ScopesStay
      <4>3. QED
        BY <4>1, <4>2, PublisherFitsOn, PublisherIsShownOn
    <3>3. QED
      BY <3>1, <3>2
  <2>3. QED
    BY <2>1, <2>2 DEF PublisherFits, PublisherIsShown, Settled
<1>2. QED
  BY <1>1, Zenon DEF PublishersInv, PublisherMoves

LEMMA TurnsMove ==
  ASSUME TurnsInv, stray \subseteq stray', NEW p \in Publishers, NEW x, PublisherMoves(p, x),
         Busy(x) /\ ScopeOf[p] \notin stray' =>
             \A q \in Publishers : q # p /\ ScopeOf[q] = ScopeOf[p] => ~Busy(publishers[q]),
         x.stage = "await" /\ ScopeOf[p] \notin stray' =>
             \A c \in computed' : c.scope = ScopeOf[p] => c.stamp <= Last(x.stamps),
         \A c \in computed' : c \in computed \/ (c.scope = ScopeOf[p] /\ Busy(x))
  PROVE  TurnsInv'
<1>1. ASSUME NEW q \in Publishers PROVE publishers'[q] = IF q = p THEN x ELSE publishers[q]
  BY DEF PublisherMoves
<1>2. ASSUME NEW q \in Publishers, NEW r \in Publishers,
             ScopeOf[q] = ScopeOf[r], ScopeOf[q] \notin stray',
             Busy(publishers'[q]), Busy(publishers'[r])
      PROVE  q = r
  BY <1>1, <1>2 DEF TurnsInv
<1>3. ASSUME NEW q \in Publishers, NEW c \in computed',
             publishers'[q].stage = "await", ScopeOf[q] \notin stray', c.scope = ScopeOf[q]
      PROVE  c.stamp <= Last(publishers'[q].stamps)
  <2>1. CASE q = p
    BY <1>1, <1>3, <2>1
  <2>2. CASE q # p
    <3>1. publishers'[q] = publishers[q] /\ Busy(publishers[q])
      BY <1>1, <1>3, <2>2 DEF Busy
    <3>2. c \in computed
      BY <1>3, <2>2, <3>1
    <3>3. QED
      BY <1>3, <3>1, <3>2 DEF TurnsInv
  <2>3. QED
    BY <2>1, <2>2
<1>4. QED
  BY <1>2, <1>3 DEF TurnsInv, Busy

(* What is stored has a number. *)
LEMMA StoredStamps ==
  ASSUME SnapshotsInv, NEW r \in ToSet(Resources), NEW s \in Scopes
  PROVE  snapshotOf[<<r, s>>].stamp \in Nat
<1>1. PICK y : y = snapshotOf[<<r, s>>]
  OBVIOUS
<1>2. y \in computed \/ y = NoSnapshot
  BY <1>1 DEF SnapshotsInv
<1>3. y.stamp \in Nat
  <2>1. CASE y \in computed
    BY <2>1, FS_CardinalityType DEF SnapshotsInv, ComputedInv
  <2>2. CASE y = NoSnapshot
    BY <2>2 DEF NoSnapshot
  <2>3. QED
    BY <1>2, <2>1, <2>2
<1>4. QED
  BY <1>1, <1>3

(* Steps that store nothing. *)
LEMMA NothingStored ==
  ASSUME SnapshotsInv, snapshotOf' = snapshotOf, computed \subseteq computed',
         stray \subseteq stray'
  PROVE  ScopesStay
<1>1. ASSUME NEW r \in ToSet(Resources), NEW s \in Scopes
      PROVE  snapshotOf[<<r, s>>].stamp \in Nat
  BY StoredStamps
<1>2. QED
  BY <1>1 DEF ScopesStay

LEMMA SnapshotsStay ==
  ASSUME SnapshotsInv, UNCHANGED <<snapshotOf, computed>>, posts' \subseteq posts
  PROVE  SnapshotsInv'
BY DEF SnapshotsInv, ComputedInv, StoredFits

LEMMA IdlePublisher ==
  /\ NotPublishing \in PublisherStates /\ NotPublishing.stage = "idle"
  /\ NotPublishing.stamps = << >> /\ NotPublishing.failures = 0
  /\ \A p : PublisherFits(p, NotPublishing) /\ PublisherIsShown(p, NotPublishing)
<1>1. PICK x : x = NotPublishing
  OBVIOUS
<1>2. << >> \in Seq(ToSet(Resources)) /\ << >> \in Seq(Nat)
  OBVIOUS
<1>3. /\ x \in PublisherStates /\ x.stage = "idle" /\ x.stamps = << >> /\ x.failures = 0
  BY <1>1, <1>2 DEF NotPublishing, PublisherStates
<1>4. Len(x.stamps) = 0
  BY <1>3
<1>5. Settled(x) = 0
  BY <1>3, <1>4 DEF Settled
<1>6. \A p : PublisherFits(p, x) /\ PublisherIsShown(p, x)
  BY <1>3, <1>4, <1>5 DEF PublisherFits, PublisherIsShown
<1>7. QED
  BY <1>1, <1>3, <1>6

LEMMA BeginPublishStep ==
  ASSUME DashboardInv, NEW p \in Publishers, BeginPublish(p), screen' = NoScreen
  PROVE  DashboardInv'
<1>1. PICK none \in PublisherStates : none = NotPublishing
  BY IdlePublisher
<1>2. PICK x : x = [none EXCEPT !.stage = "compute", !.left = Resources]
  OBVIOUS
<1>3. /\ x \in PublisherStates /\ x.stage = "compute" /\ x.left = Resources
      /\ x.stamps = none.stamps /\ x.failures = none.failures
  BY <1>2, TheResources DEF PublisherStates
<1>4. x.stamps = << >> /\ Len(x.stamps) = 0 /\ Settled(x) = 0
  <2>1. x.stamps = << >>
    BY <1>1, <1>3, IdlePublisher
  <2>2. QED
    BY <1>3, <2>1 DEF Settled
<1>5. publishers' = [publishers EXCEPT ![p] = x]
  BY <1>1, <1>2 DEF BeginPublish
<1>6. PublisherMoves(p, x)
  BY <1>3, <1>5, PublisherChanges DEF DashboardInv
<1>7. /\ UNCHANGED <<snapshotOf, posts, computed>>
      /\ stray' = stray \/ stray' = stray \cup {ScopeOf[p]}
      /\ ScopeOf[p] \notin stray' => ~ \E q \in Sharing(p) : Publishing(q)
  BY DEF BeginPublish
<1>8. SnapshotsInv'
  BY <1>7, SnapshotsStay DEF DashboardInv
<1>9. ScopesStay
  BY <1>7, NothingStored DEF DashboardInv
<1>10. PublisherFits(p, x)' /\ PublisherIsShown(p, x)'
  <2>1. Len(Resources) > 0
    BY TheResources DEF BeginPublish
  <2>2. QED
    BY <1>3, <1>4, <2>1, TheResources DEF PublisherFits, PublisherIsShown
<1>11. PublishersInv'
  BY <1>6, <1>9, <1>10, PublishersMove DEF DashboardInv
<1>12. TurnsInv'
  <2>1. Busy(x) /\ ScopeOf[p] \notin stray' =>
             \A q \in Publishers : q # p /\ ScopeOf[q] = ScopeOf[p] => ~Busy(publishers[q])
    BY <1>7 DEF Sharing, Publishing, Busy
  <2>2. stray \subseteq stray' /\ x.stage # "await"
    BY <1>3, <1>7
  <2>3. QED
    BY <1>6, <1>7, <2>1, <2>2, TurnsMove DEF DashboardInv
<1>13. ScreenInv'
  BY DEF ScreenInv, NoScreen
<1>14. QED
  BY <1>8, <1>11, <1>12, <1>13 DEF DashboardInv

(* An answer settles the first of the resources that are left.             *)
Settles(x, j, status) ==
    /\ x \in PublisherStates /\ x.left = Tail(j.left) /\ x.stamps = j.stamps
    /\ x.stage = (IF Len(j.left) = 1 THEN "done" ELSE "compute")
    /\ x.failures = IF status = 201 THEN j.failures ELSE j.failures + 1

LEMMA ReceiptFacts ==
  ASSUME PublishersInv, NEW p \in Publishers, publishers[p].stage = "await", NEW status
  PROVE  /\ Settles(Receipt(p, status), publishers[p], status)
         /\ PublisherFits(p, Receipt(p, status))
         /\ Settled(Receipt(p, status)) = Len(publishers[p].stamps)
<1>1. PICK j \in PublisherStates : j = publishers[p]
  BY DEF PublishersInv
<1>2. PublisherFits(p, j) /\ j.stage = "await"
  BY <1>1 DEF PublishersInv
<1>3. PICK left : left = j.left
  OBVIOUS
<1>4. PICK rest : rest = Tail(left)
  OBVIOUS
<1>5. PICK m \in Nat : m = Len(j.stamps)
  <2>1. j.stamps \in Seq(Nat)
    BY DEF PublisherStates
  <2>2. QED
    BY <2>1
<1>6. /\ left \in Seq(ToSet(Resources)) /\ Len(left) > 0 /\ m > 0
      /\ m - 1 + Len(left) = Len(Resources)
      /\ \A k \in 1..Len(left) : left[k] = Resources[m - 1 + k]
  BY <1>2, <1>3, <1>5 DEF PublisherFits, PublisherStates, Settled
<1>7. /\ rest \in Seq(ToSet(Resources)) /\ Len(rest) = Len(left) - 1 /\ Len(left) \in Nat
      /\ \A k \in 1..Len(rest) : rest[k] = left[k + 1]
  <2>1. PICK S : S = ToSet(Resources)
    OBVIOUS
  <2>2. left \in Seq(S) /\ Len(left) > 0
    BY <1>6, <2>1
  <2>3. /\ rest \in Seq(S) /\ Len(rest) = Len(left) - 1 /\ Len(left) \in Nat
        /\ \A k \in 1..Len(rest) : rest[k] = left[k + 1]
    BY <1>4, <2>2
  <2>4. QED
    BY <2>1, <2>3
<1>8. PICK stage \in {"done", "compute"} : stage = IF Len(left) = 1 THEN "done" ELSE "compute"
  OBVIOUS
<1>9. PICK failed \in Nat : failed = IF status = 201 THEN j.failures ELSE j.failures + 1
  BY DEF PublisherStates
<1>10. PICK x : x = [j EXCEPT !.left = rest, !.failures = failed, !.stage = stage]
  OBVIOUS
<1>11. /\ x \in PublisherStates /\ x.left = rest /\ x.stamps = j.stamps
       /\ x.stage = stage /\ x.failures = failed
  BY <1>7, <1>10 DEF PublisherStates
<1>12. Receipt(p, status) = x
  BY <1>1, <1>3, <1>4, <1>8, <1>9, <1>10 DEF Receipt
<1>13. Settles(x, j, status)
  BY <1>3, <1>4, <1>8, <1>9, <1>11 DEF Settles
<1>14. Settled(x) = m
  BY <1>5, <1>8, <1>11 DEF Settled
<1>15. PublisherFits(p, x)
  <2>1. Len(Resources) \in Nat
    BY TheResources
  <2>2. x.stage = "compute" =>
          /\ Len(x.left) > 0 /\ Settled(x) + Len(x.left) = Len(Resources)
          /\ \A k \in 1..Len(x.left) : x.left[k] = Resources[Settled(x) + k]
    <3>1. SUFFICES ASSUME x.stage = "compute"
                   PROVE  /\ Len(rest) > 0 /\ m + Len(rest) = Len(Resources)
                          /\ \A k \in 1..Len(rest) : rest[k] = Resources[m + k]
      BY <1>11, <1>14
    <3>2. Len(left) # 1
      BY <1>8, <1>11, <3>1
    <3>3. Len(rest) > 0 /\ m + Len(rest) = Len(Resources)
      BY <1>6, <1>7, <2>1, <3>2
    <3>4. ASSUME NEW k \in 1..Len(rest) PROVE rest[k] = Resources[m + k]
      <4>1. k + 1 \in 1..Len(left) /\ m - 1 + (k + 1) = m + k
        BY <1>7
      <4>2. QED
        BY <1>6, <1>7, <4>1
    <3>5. QED
      BY <3>3, <3>4
  <2>3. x.stage = "done" => Len(x.stamps) = Len(Resources)
    BY <1>5, <1>6, <1>8, <1>11, <2>1
  <2>4. \A i \in 1..Len(x.stamps) :
          /\ i <= Len(Resources)
          /\ \E c \in computed :
                c.stamp = x.stamps[i] /\ c.resource = Resources[i] /\ c.scope = ScopeOf[p]
    BY <1>2, <1>11 DEF PublisherFits
  <2>5. QED
    BY <1>8, <1>11, <2>2, <2>3, <2>4 DEF PublisherFits
<1>16. QED
  BY <1>1, <1>5, <1>12, <1>13, <1>14, <1>15

LEMMA NewestSnapshot ==
  ASSUME SnapshotsInv, NEW c, c.stamp = Cardinality(computed) + 1,
         c.resource \in ToSet(Resources), c.scope \in Scopes,
         computed' = computed \cup {c}
  PROVE  ComputedInv' /\ \A d \in computed' : d.stamp <= c.stamp
<1>1. PICK n \in Nat : n = Cardinality(computed)
  BY FS_CardinalityType DEF SnapshotsInv, ComputedInv
<1>2. \A d \in computed : d.stamp \in 1..n
  BY <1>1 DEF SnapshotsInv, ComputedInv
<1>3. c \notin computed
  BY <1>1, <1>2
<1>4. IsFiniteSet(computed') /\ Cardinality(computed') = n + 1
  BY <1>1, <1>3, FS_AddElement DEF SnapshotsInv, ComputedInv
<1>5. ASSUME NEW d \in computed'
      PROVE  /\ d.stamp \in 1..(n + 1) /\ d.stamp <= c.stamp
             /\ d.resource \in ToSet(Resources) /\ d.scope \in Scopes
  BY <1>1, <1>2 DEF SnapshotsInv, ComputedInv
<1>6. ASSUME NEW d \in computed', NEW e \in computed', d.stamp = e.stamp PROVE d = e
  BY <1>1, <1>2, <1>6 DEF SnapshotsInv, ComputedInv
<1>7. QED
  BY <1>4, <1>5, <1>6 DEF ComputedInv

LEMMA ComputeAndPostStep ==
  ASSUME DashboardInv, NEW p \in Publishers, ComputeAndPost(p), screen' = NoScreen
  PROVE  DashboardInv'
<1>1. PICK j \in PublisherStates : j = publishers[p]
  BY DEF DashboardInv, PublishersInv
<1>2. j.stage = "compute" /\ PublisherFits(p, j) /\ PublisherIsShown(p, j)
  BY <1>1 DEF ComputeAndPost, DashboardInv, PublishersInv
<1>3. PICK success : LET snapshot == Snapshot(p, Head(j.left), success) IN
          /\ computed' = computed \cup {snapshot}
          /\ posts' = posts \cup {[publisher |-> p, snapshot |-> snapshot]}
          /\ publishers' = [publishers EXCEPT ![p].stage = "await",
                               ![p].stamps = Append(@, snapshot.stamp)]
  BY <1>1 DEF ComputeAndPost
<1>4. PICK c : c = Snapshot(p, Head(j.left), success)
  OBVIOUS
<1>5. PICK m \in Nat : m = Len(j.stamps)
  <2>1. j.stamps \in Seq(Nat)
    BY DEF PublisherStates
  <2>2. QED
    BY <2>1
<1>6. /\ Len(j.left) > 0 /\ m + Len(j.left) = Len(Resources) /\ j.left \in Seq(ToSet(Resources))
      /\ \A k \in 1..Len(j.left) : j.left[k] = Resources[m + k]
  BY <1>2, <1>5 DEF PublisherFits, PublisherStates, Settled
<1>7. Head(j.left) = Resources[m + 1] /\ m + 1 \in 1..Len(Resources)
  <2>1. PICK left : left = j.left
    OBVIOUS
  <2>2. PICK S : S = ToSet(Resources)
    OBVIOUS
  <2>3. left \in Seq(S) /\ Len(left) > 0
    BY <1>6, <2>1, <2>2
  <2>4. Head(left) = left[1] /\ 1 \in 1..Len(left) /\ Len(left) \in Nat
    BY <2>3
  <2>5. QED
    BY <1>6, <2>1, <2>4
<1>8. PICK stamp \in Nat : stamp = Cardinality(computed) + 1
  BY FS_CardinalityType DEF DashboardInv, SnapshotsInv, ComputedInv
<1>9. c.stamp = stamp /\ c.resource = Resources[m + 1] /\ c.scope = ScopeOf[p]
  BY <1>4, <1>7, <1>8 DEF Snapshot
<1>10. c.resource \in ToSet(Resources) /\ c.scope \in Scopes
  BY <1>7, <1>9, TheResources
<1>11. computed' = computed \cup {c}
  BY <1>3, <1>4
<1>12. ComputedInv' /\ \A d \in computed' : d.stamp <= c.stamp
  BY <1>8, <1>9, <1>10, <1>11, NewestSnapshot DEF DashboardInv
<1>13. UNCHANGED <<snapshotOf, stray>>
  BY DEF ComputeAndPost
<1>14. SnapshotsInv'
  <2>1. PICK post : post = [publisher |-> p, snapshot |-> c]
    OBVIOUS
  <2>2. posts' = posts \cup {post} /\ post.publisher = p /\ post.snapshot = c
    BY <1>3, <1>4, <2>1
  <2>3. \A q \in posts' :
          /\ q.publisher \in Publishers /\ q.snapshot \in computed'
          /\ q.snapshot.scope = ScopeOf[q.publisher]
    BY <1>9, <1>11, <2>2 DEF DashboardInv, SnapshotsInv
  <2>4. /\ snapshotOf' \in [ToSet(Resources) \X Scopes -> computed' \cup {NoSnapshot}]
    <3>1. PICK before : before = computed \cup {NoSnapshot}
      OBVIOUS
    <3>2. PICK new : new = computed' \cup {NoSnapshot}
      OBVIOUS
    <3>3. PICK keys : keys = ToSet(Resources) \X Scopes
      OBVIOUS
    <3>4. snapshotOf \in [keys -> before] /\ before \subseteq new
      BY <1>11, <3>1, <3>2, <3>3 DEF DashboardInv, SnapshotsInv
    <3>5. snapshotOf' \in [keys -> new]
      BY <1>13, <3>4
    <3>6. QED
      BY <3>2, <3>3, <3>5
  <2>5. \A r \in ToSet(Resources), s \in Scopes : StoredFits(r, s, snapshotOf[<<r, s>>])'
    BY <1>11, <1>13 DEF DashboardInv, SnapshotsInv, StoredFits
  <2>6. QED
    BY <1>12, <2>3, <2>4, <2>5 DEF SnapshotsInv
<1>15. ScopesStay
  BY <1>11, <1>13, NothingStored DEF DashboardInv
<1>16. PICK stamps \in Seq(Nat) : stamps = Append(j.stamps, stamp)
  <2>1. j.stamps \in Seq(Nat)
    BY DEF PublisherStates
  <2>2. Append(j.stamps, stamp) \in Seq(Nat)
    BY <2>1
  <2>3. QED
    BY <2>2
<1>17. /\ Len(stamps) = m + 1 /\ stamps[m + 1] = stamp
       /\ \A i \in 1..m : stamps[i] = j.stamps[i]
  <2>1. j.stamps \in Seq(Nat)
    BY DEF PublisherStates
  <2>2. QED
    BY <1>5, <1>16, <2>1
<1>18. PICK x : x = [j EXCEPT !.stage = "await", !.stamps = stamps]
  OBVIOUS
<1>19. /\ x \in PublisherStates /\ x.stage = "await" /\ x.stamps = stamps
       /\ x.left = j.left /\ x.failures = j.failures
  BY <1>18 DEF PublisherStates
<1>20. publishers' = [publishers EXCEPT ![p] = x]
  BY <1>1, <1>3, <1>4, <1>9, <1>16, <1>18 DEF DashboardInv, PublishersInv
<1>21. PublisherMoves(p, x)
  BY <1>19, <1>20, PublisherChanges DEF DashboardInv
<1>22. Settled(x) = m
  BY <1>17, <1>19 DEF Settled
<1>23. PublisherFits(p, x)'
  <2>1. ASSUME NEW i \in 1..Len(x.stamps)
        PROVE  /\ i <= Len(Resources)
               /\ \E d \in computed' : d.stamp = x.stamps[i] /\ d.resource = Resources[i]
                                       /\ d.scope = ScopeOf[p]
    <3>1. CASE i = m + 1
      BY <1>7, <1>9, <1>11, <1>17, <1>19, <3>1
    <3>2. CASE i # m + 1
      <4>1. i \in 1..m
        BY <1>17, <1>19, <3>2
      <4>2. PublisherFits(p, j)'
        BY <1>2, <1>15, PublisherFitsOn DEF ScopesStay
      <4>3. QED
        BY <1>5, <1>17, <1>19, <4>1, <4>2 DEF PublisherFits
    <3>3. QED
      BY <3>1, <3>2
  <2>2. QED
    BY <1>6, <1>17, <1>19, <1>22, <2>1 DEF PublisherFits
<1>24. PublisherIsShown(p, x)'
  <2>1. PublisherIsShown(p, j)'
    BY <1>2, <1>15, PublisherIsShownOn
  <2>2. Settled(j) = m
    BY <1>2, <1>5 DEF Settled
  <2>3. QED
    BY <1>17, <1>19, <1>22, <2>1, <2>2 DEF PublisherIsShown
<1>25. PublishersInv'
  BY <1>15, <1>21, <1>23, <1>24, PublishersMove DEF DashboardInv
<1>26. TurnsInv'
  <2>1. Busy(publishers[p]) /\ Busy(x)
    BY <1>1, <1>2, <1>19 DEF Busy
  <2>2. ScopeOf[p] \notin stray' =>
             \A q \in Publishers : q # p /\ ScopeOf[q] = ScopeOf[p] => ~Busy(publishers[q])
    BY <1>13, <2>1 DEF DashboardInv, TurnsInv
  <2>3. Last(x.stamps) = stamp
    BY <1>17, <1>19 DEF Last
  <2>4. \A d \in computed' : d \in computed \/ d.scope = ScopeOf[p]
    BY <1>9, <1>11
  <2>5. QED
    BY <1>9, <1>12, <1>13, <1>21, <2>1, <2>2, <2>3, <2>4, TurnsMove DEF DashboardInv
<1>27. ScreenInv'
  BY DEF ScreenInv, NoScreen
<1>28. QED
  BY <1>14, <1>25, <1>26, <1>27 DEF DashboardInv

LEMMA BreaksStep ==
  ASSUME DashboardInv, NEW p \in Publishers, ConnectionBreaks(p), screen' = NoScreen
  PROVE  DashboardInv'
<1>1. PICK j : j = publishers[p]
  OBVIOUS
<1>2. PICK x : x = Receipt(p, 0)
  OBVIOUS
<1>3. /\ j.stage = "await" /\ publishers' = [publishers EXCEPT ![p] = x]
      /\ UNCHANGED <<snapshotOf, posts, computed, stray>>
  BY <1>1, <1>2 DEF ConnectionBreaks
<1>4. Settles(x, j, 0) /\ PublisherFits(p, x)
  BY <1>1, <1>2, <1>3, ReceiptFacts DEF DashboardInv
<1>5. PublisherMoves(p, x)
  BY <1>3, <1>4, PublisherChanges DEF DashboardInv, Settles
<1>6. x.failures # 0
  <2>1. j.failures \in Nat
    BY <1>1 DEF DashboardInv, PublishersInv, PublisherStates
  <2>2. QED
    BY <1>4, <2>1 DEF Settles
<1>7. SnapshotsInv' /\ ScopesStay
  BY <1>3, SnapshotsStay, NothingStored DEF DashboardInv
<1>8. PublisherFits(p, x)' /\ PublisherIsShown(p, x)'
  BY <1>3, <1>4, <1>6, PublisherFitsOn DEF PublisherIsShown
<1>9. PublishersInv'
  BY <1>5, <1>7, <1>8, PublishersMove DEF DashboardInv
<1>10. TurnsInv'
  <2>1. Busy(j) /\ x.stage # "await"
    BY <1>3, <1>4 DEF Busy, Settles
  <2>2. ScopeOf[p] \notin stray' =>
             \A q \in Publishers : q # p /\ ScopeOf[q] = ScopeOf[p] => ~Busy(publishers[q])
    BY <1>1, <1>3, <2>1 DEF DashboardInv, TurnsInv
  <2>3. QED
    BY <1>3, <1>5, <2>1, <2>2, TurnsMove DEF DashboardInv
<1>11. QED
  BY <1>7, <1>9, <1>10 DEF DashboardInv, ScreenInv, NoScreen

LEMMA DiesStep ==
  ASSUME DashboardInv, NEW p \in Publishers, PublisherDies(p), screen' = NoScreen
  PROVE  DashboardInv'
<1>1. PICK x \in PublisherStates : x = NotPublishing
  BY IdlePublisher
<1>2. /\ publishers' = [publishers EXCEPT ![p] = x]
      /\ UNCHANGED <<snapshotOf, posts, computed, stray>>
  BY <1>1 DEF PublisherDies
<1>3. PublisherMoves(p, x)
  BY <1>2, PublisherChanges DEF DashboardInv
<1>4. SnapshotsInv' /\ ScopesStay
  BY <1>2, SnapshotsStay, NothingStored DEF DashboardInv
<1>5. PublisherFits(p, x) /\ PublisherIsShown(p, x)
  BY <1>1, IdlePublisher
<1>6. PublisherFits(p, x)' /\ PublisherIsShown(p, x)'
  BY <1>2, <1>4, <1>5, PublisherFitsOn, PublisherIsShownOn
<1>7. PublishersInv'
  BY <1>3, <1>4, <1>6, PublishersMove DEF DashboardInv
<1>8. TurnsInv'
  <2>1. x.stage = "idle" /\ ~Busy(x)
    BY <1>1, IdlePublisher DEF Busy
  <2>2. QED
    BY <1>2, <1>3, <2>1, TurnsMove DEF DashboardInv
<1>9. QED
  BY <1>4, <1>7, <1>8 DEF DashboardInv, ScreenInv, NoScreen

LEMMA LostStep ==
  ASSUME DashboardInv, NEW post \in posts, PostIsLost(post), screen' = NoScreen
  PROVE  DashboardInv'
<1>1. /\ UNCHANGED <<snapshotOf, publishers, computed, stray>> /\ posts' \subseteq posts
  BY DEF PostIsLost
<1>2. SnapshotsInv'
  BY <1>1, SnapshotsStay DEF DashboardInv
<1>3. PublishersInv' /\ TurnsInv'
  BY <1>1 DEF DashboardInv, PublishersInv, PublisherFits, PublisherIsShown, TurnsInv
<1>4. QED
  BY <1>2, <1>3 DEF DashboardInv, ScreenInv, NoScreen

(* A post that is handled: what is stored is the snapshot it carries, or   *)
(* what was.                                                               *)
LEMMA StoresSnapshot ==
  ASSUME SnapshotsInv, NEW c \in computed, UNCHANGED computed, posts' \subseteq posts,
         \/ snapshotOf' = snapshotOf
         \/ snapshotOf' = [snapshotOf EXCEPT ![<<c.resource, c.scope>>] = c]
  PROVE  /\ SnapshotsInv'
         /\ \A r \in ToSet(Resources), s \in Scopes :
               \/ snapshotOf'[<<r, s>>] = snapshotOf[<<r, s>>]
               \/ r = c.resource /\ s = c.scope /\ snapshotOf'[<<r, s>>] = c
         /\ snapshotOf' = [snapshotOf EXCEPT ![<<c.resource, c.scope>>] = c] =>
               snapshotOf'[<<c.resource, c.scope>>] = c
<1>1. PICK keys : keys = ToSet(Resources) \X Scopes
  OBVIOUS
<1>2. PICK values : values = computed \cup {NoSnapshot}
  OBVIOUS
<1>3. PICK r0 \in ToSet(Resources), s0 \in Scopes : r0 = c.resource /\ s0 = c.scope
  BY DEF SnapshotsInv, ComputedInv
<1>4. PICK key : key = <<r0, s0>>
  OBVIOUS
<1>5. key \in keys /\ \A r \in ToSet(Resources), s \in Scopes : <<r, s>> \in keys
  BY <1>1, <1>4
<1>6. snapshotOf \in [keys -> values] /\ c \in values
  BY <1>1, <1>2 DEF SnapshotsInv
<1>7. snapshotOf' = snapshotOf \/ snapshotOf' = [snapshotOf EXCEPT ![key] = c]
  BY <1>3, <1>4
<1>8. /\ snapshotOf' \in [keys -> values]
      /\ \A k \in keys : snapshotOf'[k] = snapshotOf[k] \/ (k = key /\ snapshotOf'[k] = c)
  BY <1>6, <1>7
<1>9. ASSUME NEW r \in ToSet(Resources), NEW s \in Scopes
      PROVE  \/ snapshotOf'[<<r, s>>] = snapshotOf[<<r, s>>]
             \/ r = c.resource /\ s = c.scope /\ snapshotOf'[<<r, s>>] = c
  <2>1. PICK k : k = <<r, s>>
    OBVIOUS
  <2>2. snapshotOf'[k] = snapshotOf[k] \/ (k = key /\ snapshotOf'[k] = c)
    BY <1>5, <1>8, <2>1
  <2>3. k = key => r = r0 /\ s = s0
    BY <1>4, <2>1
  <2>4. QED
    BY <1>3, <2>1, <2>2, <2>3
<1>10. ASSUME NEW r \in ToSet(Resources), NEW s \in Scopes
       PROVE  StoredFits(r, s, snapshotOf[<<r, s>>])'
  BY <1>9 DEF StoredFits, SnapshotsInv
<1>11. SnapshotsInv'
  BY <1>1, <1>2, <1>8, <1>10 DEF SnapshotsInv, ComputedInv
<1>12. ASSUME snapshotOf' = [snapshotOf EXCEPT ![<<c.resource, c.scope>>] = c]
       PROVE  snapshotOf'[<<c.resource, c.scope>>] = c
  <2>1. snapshotOf'[key] = c
    BY <1>3, <1>4, <1>5, <1>6, <1>12
  <2>2. QED
    BY <1>3, <1>4, <2>1
<1>13. QED
  BY <1>9, <1>11, <1>12

LEMMA HandlePublishCases ==
  ASSUME NEW post, HandlePublish(post)
  PROVE  /\ posts' = posts \ {post} /\ UNCHANGED computed
         /\ \/ /\ Awaits(post.publisher, post) /\ UNCHANGED stray
               /\ \E status :
                     /\ publishers' = [publishers EXCEPT ![post.publisher] =
                                          Receipt(post.publisher, status)]
                     /\ \/ WriteSnapshot(post.snapshot)
                        \/ status # 201 /\ UNCHANGED snapshotOf
            \/ /\ stray' = stray \cup {post.snapshot.scope} /\ UNCHANGED publishers
               /\ WriteSnapshot(post.snapshot) \/ UNCHANGED snapshotOf
<1>1. PICK put \in {FALSE, kvBound} : \E said \in {FALSE, put} :
        /\ IF put THEN WriteSnapshot(post.snapshot) ELSE UNCHANGED snapshotOf
        /\ posts' = posts \ {post}
        /\ IF Awaits(post.publisher, post)
           THEN /\ publishers' = [publishers EXCEPT ![post.publisher] =
                      Receipt(post.publisher, IF said THEN 201
                                              ELSE IF kvBound THEN 500 ELSE 503)]
                /\ UNCHANGED stray
           ELSE /\ stray' = stray \cup {post.snapshot.scope}
                /\ UNCHANGED publishers
        /\ UNCHANGED <<kvBound, computed>>
  BY Zenon DEF HandlePublish
<1>2. PICK said \in {FALSE, put} :
        /\ IF put THEN WriteSnapshot(post.snapshot) ELSE UNCHANGED snapshotOf
        /\ posts' = posts \ {post}
        /\ IF Awaits(post.publisher, post)
           THEN /\ publishers' = [publishers EXCEPT ![post.publisher] =
                      Receipt(post.publisher, IF said THEN 201
                                              ELSE IF kvBound THEN 500 ELSE 503)]
                /\ UNCHANGED stray
           ELSE /\ stray' = stray \cup {post.snapshot.scope}
                /\ UNCHANGED publishers
        /\ UNCHANGED <<kvBound, computed>>
  BY <1>1, Zenon
<1>3. PICK status : status = IF said THEN 201 ELSE IF kvBound THEN 500 ELSE 503
  OBVIOUS
<1>4. ~put => ~said
  BY <1>2, Zenon
<1>5. ~said => status # 201
  BY <1>3
<1>6. WriteSnapshot(post.snapshot) \/ (status # 201 /\ UNCHANGED snapshotOf)
  BY <1>2, <1>4, <1>5, Zenon
<1>7. posts' = posts \ {post} /\ UNCHANGED computed
  BY <1>2, Zenon
<1>8. CASE Awaits(post.publisher, post)
  <2>1. publishers' = [publishers EXCEPT ![post.publisher] = Receipt(post.publisher, status)]
        /\ UNCHANGED stray
    BY <1>2, <1>3, <1>8
  <2>2. QED
    BY <1>6, <1>7, <1>8, <2>1
<1>9. CASE ~Awaits(post.publisher, post)
  BY <1>2, <1>6, <1>7, <1>9
<1>10. QED
  BY <1>8, <1>9

(* A post whose publisher waits for it: it is the newest of its scope, and *)
(* what is stored now is what the publisher counts as done.                *)
LEMMA AwaitedStep ==
  ASSUME DashboardInv, NEW post \in posts, screen' = NoScreen,
         posts' = posts \ {post}, UNCHANGED <<computed, stray>>,
         Awaits(post.publisher, post), NEW status,
         publishers' = [publishers EXCEPT ![post.publisher] = Receipt(post.publisher, status)],
         WriteSnapshot(post.snapshot) \/ (status # 201 /\ UNCHANGED snapshotOf)
  PROVE  DashboardInv'
<1>1. PICK p \in Publishers, c \in computed :
        p = post.publisher /\ c = post.snapshot /\ c.scope = ScopeOf[p]
  BY DEF DashboardInv, SnapshotsInv
<1>2. PICK j \in PublisherStates : j = publishers[p]
  BY DEF DashboardInv, PublishersInv
<1>3. PICK x : x = Receipt(p, status)
  OBVIOUS
<1>4. j.stage = "await" /\ c.stamp = Last(j.stamps)
  BY <1>1, <1>2 DEF Awaits
<1>5. Settles(x, j, status) /\ PublisherFits(p, x) /\ Settled(x) = Len(j.stamps)
  BY <1>2, <1>3, <1>4, ReceiptFacts DEF DashboardInv
<1>6. PublisherFits(p, j) /\ PublisherIsShown(p, j)
  BY <1>2 DEF DashboardInv, PublishersInv
<1>7. PICK m \in Nat : m = Len(j.stamps)
  <2>1. j.stamps \in Seq(Nat)
    BY DEF PublisherStates
  <2>2. QED
    BY <2>1
<1>8. m > 0 /\ j.stamps[m] = c.stamp /\ m \in 1..Len(Resources)
  <2>1. m > 0
    BY <1>4, <1>6, <1>7 DEF PublisherFits
  <2>2. m <= Len(Resources)
    BY <1>6, <1>7, <2>1 DEF PublisherFits
  <2>3. QED
    BY <1>4, <1>7, <2>1, <2>2, TheResources DEF Last
<1>9. c.resource = Resources[m]
  <2>1. PICK d \in computed : d.stamp = j.stamps[m] /\ d.resource = Resources[m]
    BY <1>6, <1>7, <1>8 DEF PublisherFits
  <2>2. d = c
    BY <1>8, <2>1 DEF DashboardInv, SnapshotsInv, ComputedInv
  <2>3. QED
    BY <2>1, <2>2
<1>10. \/ snapshotOf' = [snapshotOf EXCEPT ![<<c.resource, c.scope>>] = c]
       \/ status # 201 /\ snapshotOf' = snapshotOf
  BY <1>1 DEF WriteSnapshot, SnapshotKey
<1>11. /\ SnapshotsInv'
       /\ \A r \in ToSet(Resources), s \in Scopes :
             \/ snapshotOf'[<<r, s>>] = snapshotOf[<<r, s>>]
             \/ r = c.resource /\ s = c.scope /\ snapshotOf'[<<r, s>>] = c
       /\ snapshotOf' = [snapshotOf EXCEPT ![<<c.resource, c.scope>>] = c] =>
             snapshotOf'[<<c.resource, c.scope>>] = c
  BY <1>10, StoresSnapshot DEF DashboardInv
<1>12. ScopesStay
  <2>1. ASSUME NEW r \in ToSet(Resources), NEW s \in Scopes, s \notin stray'
        PROVE  /\ snapshotOf[<<r, s>>].stamp \in Nat /\ snapshotOf'[<<r, s>>].stamp \in Nat
               /\ snapshotOf'[<<r, s>>].stamp >= snapshotOf[<<r, s>>].stamp
    <3>1. PICK before : before = snapshotOf[<<r, s>>]
      OBVIOUS
    <3>2. before.stamp \in Nat
      BY <3>1, StoredStamps DEF DashboardInv
    <3>3. CASE snapshotOf'[<<r, s>>] = before
      BY <3>1, <3>2, <3>3
    <3>4. CASE r = c.resource /\ s = c.scope /\ snapshotOf'[<<r, s>>] = c
      <4>1. c.stamp \in Nat
        BY FS_CardinalityType DEF DashboardInv, SnapshotsInv, ComputedInv
      <4>2. before.stamp <= c.stamp
        <5>1. CASE before = NoSnapshot
          BY <4>1, <5>1 DEF NoSnapshot
        <5>2. CASE before # NoSnapshot
          <6>1. before \in computed /\ before.scope = ScopeOf[p]
            BY <1>1, <3>1, <3>4, <5>2 DEF DashboardInv, SnapshotsInv, StoredFits
          <6>2. ScopeOf[p] \notin stray
            BY <1>1, <2>1, <3>4
          <6>3. QED
            BY <1>2, <1>4, <6>1, <6>2 DEF DashboardInv, TurnsInv
        <5>3. QED
          BY <5>1, <5>2
      <4>3. QED
        BY <3>1, <3>2, <3>4, <4>1, <4>2
    <3>5. QED
      BY <1>11, <3>1, <3>3, <3>4
  <2>2. QED
    BY <2>1 DEF ScopesStay
<1>13. PublisherMoves(p, x)
  BY <1>1, <1>3, <1>5, PublisherChanges DEF DashboardInv, Settles
<1>14. PublisherFits(p, x)'
  BY <1>5, PublisherFitsOn
<1>15. PublisherIsShown(p, x)'
  <2>1. SUFFICES ASSUME x.failures = 0, ScopeOf[p] \notin stray', NEW i \in 1..m
                 PROVE  snapshotOf'[<<Resources[i], ScopeOf[p]>>].stamp >= j.stamps[i]
    BY <1>5, <1>7 DEF PublisherIsShown, Settles
  <2>2. status = 201 /\ j.failures = 0
    <3>1. j.failures \in Nat
      BY DEF PublisherStates
    <3>2. QED
      BY <1>5, <2>1, <3>1 DEF Settles
  <2>3. CASE i = m
    <3>1. snapshotOf'[<<c.resource, c.scope>>] = c
      BY <1>10, <1>11, <2>2
    <3>2. c.stamp \in Nat
      BY FS_CardinalityType DEF DashboardInv, SnapshotsInv, ComputedInv
    <3>3. QED
      BY <1>1, <1>8, <1>9, <2>3, <3>1, <3>2
  <2>4. CASE i # m
    <3>1. i \in 1..Settled(j)
      BY <1>4, <1>7, <2>4 DEF Settled
    <3>2. PublisherIsShown(p, j)'
      BY <1>6, <1>12, PublisherIsShownOn
    <3>3. QED
      BY <2>1, <2>2, <3>1, <3>2 DEF PublisherIsShown
  <2>5. QED
    BY <2>3, <2>4
<1>16. PublishersInv'
  BY <1>12, <1>13, <1>14, <1>15, PublishersMove DEF DashboardInv
<1>17. TurnsInv'
  <2>1. Busy(j) /\ x.stage # "await"
    BY <1>4, <1>5 DEF Busy, Settles
  <2>2. ScopeOf[p] \notin stray' =>
             \A q \in Publishers : q # p /\ ScopeOf[q] = ScopeOf[p] => ~Busy(publishers[q])
    BY <1>2, <2>1 DEF DashboardInv, TurnsInv
  <2>3. QED
    BY <1>13, <2>1, <2>2, TurnsMove DEF DashboardInv
<1>18. QED
  BY <1>11, <1>16, <1>17 DEF DashboardInv, ScreenInv, NoScreen

(* A post nobody waits for any more: from then on its scope is strayed.    *)
LEMMA StrayStep ==
  ASSUME DashboardInv, NEW post \in posts, screen' = NoScreen,
         posts' = posts \ {post}, UNCHANGED <<computed, publishers>>,
         stray' = stray \cup {post.snapshot.scope},
         WriteSnapshot(post.snapshot) \/ UNCHANGED snapshotOf
  PROVE  DashboardInv'
<1>1. PICK c \in computed : c = post.snapshot
  BY DEF DashboardInv, SnapshotsInv
<1>2. \/ snapshotOf' = [snapshotOf EXCEPT ![<<c.resource, c.scope>>] = c]
      \/ snapshotOf' = snapshotOf
  BY <1>1 DEF WriteSnapshot, SnapshotKey
<1>3. /\ SnapshotsInv'
      /\ \A r \in ToSet(Resources), s \in Scopes :
            \/ snapshotOf'[<<r, s>>] = snapshotOf[<<r, s>>]
            \/ r = c.resource /\ s = c.scope /\ snapshotOf'[<<r, s>>] = c
  BY <1>2, StoresSnapshot DEF DashboardInv
<1>4. ScopesStay
  <2>1. ASSUME NEW r \in ToSet(Resources), NEW s \in Scopes, s \notin stray'
        PROVE  /\ snapshotOf[<<r, s>>].stamp \in Nat
               /\ snapshotOf'[<<r, s>>] = snapshotOf[<<r, s>>]
    BY <1>1, <1>3, <2>1, StoredStamps DEF DashboardInv
  <2>2. QED
    BY <2>1 DEF ScopesStay
<1>5. ASSUME NEW q \in Publishers
      PROVE  PublisherFits(q, publishers[q])' /\ PublisherIsShown(q, publishers[q])'
  <2>1. PICK y : y = publishers[q]
    OBVIOUS
  <2>2. PublisherFits(q, y) /\ PublisherIsShown(q, y)
    BY <2>1 DEF DashboardInv, PublishersInv
  <2>3. PublisherFits(q, y)' /\ PublisherIsShown(q, y)'
    BY <1>4, <2>2, PublisherFitsOn, PublisherIsShownOn
  <2>4. QED
    BY <2>1, <2>3 DEF PublisherFits, PublisherIsShown, Settled
<1>6. PublishersInv'
  BY <1>5 DEF DashboardInv, PublishersInv
<1>7. TurnsInv'
  BY DEF DashboardInv, TurnsInv, Busy
<1>8. QED
  BY <1>3, <1>6, <1>7 DEF DashboardInv, ScreenInv, NoScreen

LEMMA HandlePublishStep ==
  ASSUME DashboardInv, NEW post \in posts, HandlePublish(post), screen' = NoScreen
  PROVE  DashboardInv'
BY HandlePublishCases, AwaitedStep, StrayStep

LEMMA HandleReadStep ==
  ASSUME DashboardInv, NEW r \in ToSet(Resources), NEW s \in ReadScopes, HandleRead(r, s)
  PROVE  DashboardInv'
<1>1. UNCHANGED <<snapshotOf, posts, publishers, computed, stray>>
  BY DEF HandleRead
<1>2. SnapshotsInv'
  BY <1>1, SnapshotsStay DEF DashboardInv
<1>3. PublishersInv' /\ TurnsInv'
  BY <1>1 DEF DashboardInv, PublishersInv, PublisherFits, PublisherIsShown, TurnsInv
<1>4. ScreenInv'
  <2>1. PICK y : y = snapshotOf[<<r, s>>]
    OBVIOUS
  <2>2. screen'.kind = "shown" =>
          y # NoSnapshot /\ screen'.resource = r /\ screen'.scope = s /\ screen'.snapshot = y
    BY <2>1 DEF HandleRead, SnapshotKey
  <2>3. StoredFits(r, s, y)
    BY <2>1 DEF DashboardInv, SnapshotsInv, Scopes
  <2>4. QED
    BY <1>1, <2>2, <2>3 DEF StoredFits, ScreenInv
<1>5. QED
  BY <1>2, <1>3, <1>4 DEF DashboardInv

LEMMA DashboardBegins == DashboardInit => DashboardInv
<1>1. SUFFICES ASSUME DashboardInit PROVE DashboardInv
  OBVIOUS
<1>2. ComputedInv
  BY <1>1, FS_EmptySet DEF DashboardInit, ComputedInv
<1>3. SnapshotsInv
  <2>1. PICK none : none = NoSnapshot
    OBVIOUS
  <2>2. PICK keys : keys = ToSet(Resources) \X Scopes
    OBVIOUS
  <2>3. snapshotOf = [k \in keys |-> none]
    BY <1>1, <2>1, <2>2 DEF DashboardInit
  <2>4. snapshotOf \in [keys -> computed \cup {none}]
    BY <2>3
  <2>5. ASSUME NEW r \in ToSet(Resources), NEW s \in Scopes
        PROVE  snapshotOf[<<r, s>>] = NoSnapshot
    BY <2>1, <2>2, <2>3
  <2>6. QED
    BY <1>1, <1>2, <2>1, <2>2, <2>4, <2>5 DEF SnapshotsInv, StoredFits, DashboardInit
<1>4. PublishersInv
  BY <1>1, IdlePublisher DEF PublishersInv, DashboardInit
<1>5. TurnsInv
  BY <1>1, IdlePublisher DEF TurnsInv, DashboardInit, Busy
<1>6. QED
  BY <1>1, <1>3, <1>4, <1>5 DEF DashboardInv, ScreenInv, DashboardInit, NoScreen

LEMMA DashboardStep == DashboardInv /\ [DashboardNext]_dashboardVars => DashboardInv'
<1>1. SUFFICES ASSUME DashboardInv, [DashboardNext]_dashboardVars PROVE DashboardInv'
  OBVIOUS
<1>2. CASE UNCHANGED dashboardVars
  BY <1>1, <1>2 DEF dashboardVars, DashboardInv, SnapshotsInv, ComputedInv, StoredFits,
       PublishersInv, PublisherFits, PublisherIsShown, TurnsInv, ScreenInv
<1>3. ASSUME NEW p \in Publishers, screen' = NoScreen,
             BeginPublish(p) \/ ComputeAndPost(p) \/ ConnectionBreaks(p) \/ PublisherDies(p)
      PROVE  DashboardInv'
  BY <1>1, <1>3, BeginPublishStep, ComputeAndPostStep, BreaksStep, DiesStep
<1>4. ASSUME NEW post \in posts, screen' = NoScreen, HandlePublish(post) \/ PostIsLost(post)
      PROVE  DashboardInv'
  BY <1>1, <1>4, HandlePublishStep, LostStep
<1>5. ASSUME NEW r \in ToSet(Resources), NEW s \in ReadScopes, HandleRead(r, s)
      PROVE  DashboardInv'
  BY <1>1, <1>5, HandleReadStep
<1>6. QED
  BY <1>1, <1>2, <1>3, <1>4, <1>5 DEF DashboardNext

LEMMA DashboardTells == DashboardInv => PublishedStaysShown
<1>1. SUFFICES ASSUME DashboardInv PROVE PublishedStaysShown
  OBVIOUS
<1>2. ASSUME NEW p \in Publishers, ExitsWithSuccess(p), ScopeOf[p] \notin stray,
             NEW i \in DOMAIN Resources
      PROVE  snapshotOf[SnapshotKey(Resources[i], ScopeOf[p])].stamp >= publishers[p].stamps[i]
  <2>1. PICK x : x = publishers[p]
    OBVIOUS
  <2>2. x.stage = "done" /\ x.failures = 0 /\ PublisherFits(p, x) /\ PublisherIsShown(p, x)
    BY <1>1, <1>2, <2>1 DEF ExitsWithSuccess, DashboardInv, PublishersInv
  <2>3. i \in 1..Settled(x)
    BY <2>2, TheResources DEF PublisherFits, Settled
  <2>4. snapshotOf[<<Resources[i], ScopeOf[p]>>].stamp >= x.stamps[i]
    BY <1>2, <2>2, <2>3 DEF PublisherIsShown
  <2>5. QED
    BY <2>1, <2>4 DEF SnapshotKey
<1>3. QED
  BY <1>1, <1>2 DEF PublishedStaysShown, DashboardInv, ScreenInv

(* Whatever publishers die, posts are lost, break or come late: in a scope *)
(* whose posts were handled in turn, what publishAll reports as published  *)
(* is in KV, or something newer is, and a reader is shown a snapshot that  *)
(* was computed, of the resource and the scope it asked for                *)
(* (PublishedStaysShown).                                                  *)
THEOREM SnapshotsStayShown == DashboardSpec => []PublishedStaysShown
<1>1. DashboardInit => DashboardInv
  BY DashboardBegins
<1>2. DashboardInv /\ [DashboardNext]_dashboardVars => DashboardInv'
  BY DashboardStep
<1>3. DashboardInv => PublishedStaysShown
  BY DashboardTells
<1>4. QED
  BY <1>1, <1>2, <1>3, PTL DEF DashboardSpec
=============================================================================
