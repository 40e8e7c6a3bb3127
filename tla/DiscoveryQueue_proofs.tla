------------------------ MODULE DiscoveryQueue_proofs ------------------------
(***************************************************************************)
(* Proofs about DiscoveryQueue, for any items, candidates, official        *)
(* tenders, matching rule, number of passes and bounds.                    *)
(*                                                                         *)
(* With types, each of QueueBounded, MatchSound and AttemptsOwned is       *)
(* inductive; what they need of the code is stated in two lemmas: a victim *)
(* is settled, and making room makes enough.                               *)
(***************************************************************************)
EXTENDS DiscoveryQueue, FiniteSetTheorems, SequenceTheorems, TLAPS

----------------------------------------------------------------------------
(* Lemmas about the operators of the model.                                *)

\* The rows are finitely many.
LEMMA StoredFinite == IsFiniteSet(Stored) /\ Cardinality(Stored) \in Nat
BY QueueAssumption, FS_Subset, FS_CardinalityType DEF Stored

\* The excess is a number.
LEMMA ExcessIsInt == Excess \in Int
BY StoredFinite, QueueAssumption DEF Excess

\* A set of victims is part of the evictable rows, and as large as the excess.
LEMMA VictimsAreSettled ==
  ASSUME NEW gone \in Victims
  PROVE  /\ gone \subseteq Evictable
         /\ Excess > 0 => Cardinality(gone) = Excess
<1>1. CASE Excess <= 0
  BY <1>1, ExcessIsInt DEF Victims
<1>2. CASE ~(Excess <= 0)
  BY <1>2 DEF Victims
<1> QED BY <1>1, <1>2

\* A settled row is not protected.
LEMMA SettledIsNotProtected ==
  ASSUME NEW i \in Items, i \in Evictable
  PROVE  i \in Stored /\ i \notin InState(Protected)
BY DEF Evictable, InState, Terminal, Protected

\* When the victims are gone and one row comes, the table is within its bound.
LEMMA RoomIsMade ==
  ASSUME QueueBounded, NEW i \in Items, NEW gone \in Victims
  PROVE  Cardinality((Stored \ gone) \union {i}) <= MaxRecords
<1> DEFINE rest == Stored \ gone
<1>1. gone \subseteq Stored
  BY VictimsAreSettled DEF Evictable, InState
<1>2. /\ IsFiniteSet(rest) /\ Cardinality(rest) \in Nat
      /\ Cardinality(rest) = Cardinality(Stored) - Cardinality(gone)
  <2>1. Stored \intersect gone = gone
    BY <1>1
  <2> QED BY <2>1, StoredFinite, FS_Difference, FS_CardinalityType
<1>3. Cardinality(rest \union {i}) <= Cardinality(rest) + 1
  <2> HIDE DEF rest
  <2>1. Cardinality(rest \union {i}) =
          IF i \in rest THEN Cardinality(rest) ELSE Cardinality(rest) + 1
    BY <1>2, FS_AddElement
  <2> QED BY <1>2, <2>1
<1>4. /\ IsFiniteSet(rest \union {i})
      /\ Cardinality(rest \union {i}) \in Nat
  BY <1>2, FS_AddElement, FS_CardinalityType
<1>5. Cardinality(rest) + 1 <= MaxRecords
  <2>1. MaxRecords \in Nat /\ Cardinality(Stored) \in Nat
    BY QueueAssumption, StoredFinite
  <2>2. CASE Excess > 0
    BY <1>2, <2>1, <2>2, VictimsAreSettled DEF Excess
  <2>3. CASE ~(Excess > 0)
    <3>1. Cardinality(gone) = 0
      <4>1. gone = {}
        BY <2>1, <2>3 DEF Victims, Excess
      <4> QED BY <4>1, FS_EmptySet
    <3> QED BY <1>2, <2>1, <2>3, <3>1 DEF Excess
  <2> QED BY <2>2, <2>3
<1> QED BY <1>2, <1>3, <1>4, <1>5, QueueAssumption

\* A list of pending rows is a sequence of items with their identities.
LEMMA ListIsSeq ==
  ASSUME NEW list \in Lists
  PROVE  list \in Seq(Items \X (1 .. MaxEnqueues))
<1>1. PICK n \in 1 .. Limit : list \in [1 .. n -> Items \X (1 .. MaxEnqueues)]
  BY DEF Lists
<1> QED BY <1>1, QueueAssumption, IsASeq

\* The row a pass works on is there and well typed.
LEMMA CurrentRow ==
  ASSUME TypeOK, NEW v \in Verifiers, todo[v] # << >>, Current(v)
  PROVE  Item(v) \in Items /\ row[Item(v)] \in Row
<1>1. Head(todo[v]) \in Items \X (1 .. MaxEnqueues)
  BY HeadTailProperties DEF TypeOK
<1> QED BY <1>1 DEF TypeOK, Item, Current

\* A verdict is one of three, and a match is one the rule calls a match.
LEMMA VerdictSound ==
  ASSUME NEW c \in Candidates, NEW o \in Officials \union {None}
  PROVE  /\ Verdict(c, o) \in {"match", "manual", "reject"}
         /\ Verdict(c, o) = "match" => o # None /\ Decide(c, o) = "match"
BY QueueAssumption DEF Verdict

----------------------------------------------------------------------------
(* The invariant.                                                          *)

QueueInv == TypeOK /\ QueueBounded /\ MatchSound /\ AttemptsOwned

\* What a row becomes when its verdict is known.
LEMMA ResolvedRow ==
  ASSUME NEW r \in Row, NEW o \in Officials \union {None}
  PROVE  LET new == Resolved(r, Verdict(r.candidate, o), o) IN
         /\ new \in Row
         /\ new.id = r.id /\ new.candidate = r.candidate
         /\ new.status = "match" =>
              new.key # None /\ Decide(new.candidate, new.key) = "match"
<1>1. r.candidate \in Candidates
  BY DEF Row
<1>2. /\ Verdict(r.candidate, o) \in {"match", "manual", "reject"}
      /\ Verdict(r.candidate, o) = "match" => o # None /\ Decide(r.candidate, o) = "match"
  BY <1>1, VerdictSound
<1>3. CASE Verdict(r.candidate, o) = "match"
  BY <1>2, <1>3 DEF Resolved, Row, Terminal, Protected
<1>4. CASE Verdict(r.candidate, o) = "manual"
  BY <1>2, <1>4 DEF Resolved, Row, Terminal, Protected
<1>5. CASE Verdict(r.candidate, o) = "reject"
  BY <1>2, <1>5 DEF Resolved, Row, Terminal, Protected
<1> QED BY <1>2, <1>3, <1>4, <1>5

LEMMA InitHolds == Init => QueueInv
<1> SUFFICES ASSUME Init PROVE QueueInv
  OBVIOUS
<1>1. Stored = {}
  BY DEF Init, Stored
<1>2. TypeOK
  BY QueueAssumption, EmptySeq DEF Init, TypeOK
<1>3. QueueBounded
  BY <1>1, FS_EmptySet, QueueAssumption DEF QueueBounded
<1>4. MatchSound /\ AttemptsOwned
  BY <1>1, QueueAssumption DEF Init, MatchSound, AttemptsOwned, InState
<1> QED BY <1>2, <1>3, <1>4 DEF QueueInv

\* A record discovered for the first time: the victims go, the row comes.
LEMMA EnqueueNewKeeps ==
  ASSUME QueueInv, NEW i \in Items, NEW c \in Candidates, EnqueueNew(i, c)
  PROVE  QueueInv'
<1>1. PICK gone \in Victims :
        /\ row' = [j \in Items |->
             IF j = i THEN [id |-> clock + 1, seen |-> clock + 1, status |-> "pending",
                            candidate |-> c, key |-> None]
             ELSE IF j \in gone THEN None ELSE row[j]]
        /\ attempts' = [j \in Items |-> IF j \in gone THEN 0 ELSE attempts[j]]
  BY DEF EnqueueNew
<1>2. clock + 1 \in 1 .. MaxEnqueues /\ clock' = clock + 1 /\ UNCHANGED <<todo, judged>>
  BY QueueAssumption DEF QueueInv, TypeOK, EnqueueNew
<1>3. [id |-> clock + 1, seen |-> clock + 1, status |-> "pending",
       candidate |-> c, key |-> None] \in Row
  BY <1>2 DEF Row, Protected
<1>4. TypeOK'
  <2>1. row' \in [Items -> Row \union {None}]
    BY <1>1, <1>3 DEF QueueInv, TypeOK
  <2>2. attempts' \in [Items -> 0 .. MaxAttempts]
    BY <1>1, QueueAssumption DEF QueueInv, TypeOK
  <2> QED BY <1>2, <2>1, <2>2 DEF QueueInv, TypeOK
<1>5. QueueBounded'
  <2>1. Stored' \subseteq (Stored \ gone) \union {i}
    BY <1>1 DEF Stored
  <2>2. /\ IsFiniteSet((Stored \ gone) \union {i})
        /\ Cardinality((Stored \ gone) \union {i}) \in Nat
    BY StoredFinite, FS_Difference, FS_AddElement, FS_CardinalityType
  <2>3. /\ Cardinality(Stored') <= Cardinality((Stored \ gone) \union {i})
        /\ Cardinality(Stored') \in Nat
    BY <2>1, <2>2, FS_Subset, FS_CardinalityType
  <2>4. Cardinality((Stored \ gone) \union {i}) <= MaxRecords
    BY RoomIsMade DEF QueueInv
  <2> QED BY <2>2, <2>3, <2>4, QueueAssumption DEF QueueBounded
<1>6. MatchSound'
  BY <1>1 DEF QueueInv, MatchSound, InState, Stored
<1>7. AttemptsOwned'
  BY <1>1, <1>3, NoRowAssumption, QueueAssumption DEF QueueInv, TypeOK, AttemptsOwned, Stored
<1> QED BY <1>4, <1>5, <1>6, <1>7 DEF QueueInv

\* A step that gives a stored row another well-typed value with the same rows
\* stored keeps the invariant.
LEMMA RowStepKeeps ==
  ASSUME QueueInv, NEW i \in Stored, NEW new \in Row,
         row' = [row EXCEPT ![i] = new],
         new.status = "match" =>
           new.key # None /\ Decide(new.candidate, new.key) = "match",
         attempts' \in [Items -> 0 .. MaxAttempts],
         \A j \in Items : j # i => attempts'[j] = attempts[j],
         clock' \in 0 .. MaxEnqueues,
         todo' = todo, judged' \subseteq Verifiers
  PROVE  QueueInv'
<1>1. new # None
  BY NoRowAssumption
<1>2. Stored' = Stored
  BY <1>1 DEF Stored, QueueInv, TypeOK
<1>3. TypeOK'
  BY DEF QueueInv, TypeOK, Stored
<1>4. QueueBounded'
  BY <1>2 DEF QueueInv, QueueBounded
<1>5. MatchSound'
  BY <1>2 DEF QueueInv, TypeOK, MatchSound, InState, Stored
<1>6. AttemptsOwned'
  BY <1>2 DEF QueueInv, AttemptsOwned, Stored
<1> QED BY <1>3, <1>4, <1>5, <1>6 DEF QueueInv

LEMMA EnqueueAgainKeeps ==
  ASSUME QueueInv, NEW i \in Items, NEW c \in Candidates, EnqueueAgain(i, c)
  PROVE  QueueInv'
<1> DEFINE new == [row[i] EXCEPT !.seen = clock + 1, !.status = "pending",
                                 !.candidate = c, !.key = None]
<1>1. i \in Stored /\ row[i] \in Row
  BY DEF EnqueueAgain, Stored, QueueInv, TypeOK
<1>2. clock' \in 0 .. MaxEnqueues /\ clock + 1 \in 1 .. MaxEnqueues
  BY QueueAssumption DEF EnqueueAgain, QueueInv, TypeOK
<1>3. new \in Row /\ new.status = "pending"
  BY <1>1, <1>2 DEF Row, Protected
<1>4. row' = [row EXCEPT ![i] = new]
  BY DEF EnqueueAgain, QueueInv, TypeOK
<1>5. /\ attempts' = attempts /\ todo' = todo /\ judged' \subseteq Verifiers
      /\ attempts \in [Items -> 0 .. MaxAttempts]
  BY DEF EnqueueAgain, QueueInv, TypeOK
<1> QED
  <2> HIDE DEF new
  <2> QED BY <1>1, <1>2, <1>3, <1>4, <1>5, RowStepKeeps

\* What resolve and mark_failed change beside the row.
LEMMA AttemptTyped ==
  ASSUME TypeOK, NEW v \in Verifiers, todo[v] # << >>, Current(v), Judged(v)
  PROVE  /\ attempts' \in [Items -> 0 .. MaxAttempts]
         /\ \A j \in Items : j # Item(v) => attempts'[j] = attempts[j]
         /\ clock' \in 0 .. MaxEnqueues
         /\ todo' = todo /\ judged' \subseteq Verifiers
<1>1. clock' \in 0 .. MaxEnqueues /\ todo' = todo /\ judged' \subseteq Verifiers
  BY DEF Judged, TypeOK
<1>2. \A n \in 0 .. MaxAttempts :
        (IF n < MaxAttempts THEN n + 1 ELSE n) \in 0 .. MaxAttempts
  BY QueueAssumption
<1>3. /\ attempts' \in [Items -> 0 .. MaxAttempts]
      /\ \A j \in Items : j # Item(v) => attempts'[j] = attempts[j]
  BY <1>2, CurrentRow DEF TypeOK, Judged, Attempted
<1> QED BY <1>1, <1>3

LEMMA ResolveKeeps ==
  ASSUME QueueInv, NEW v \in Verifiers, Resolve(v)
  PROVE  QueueInv'
<1>1. todo[v] # << >> /\ Current(v) /\ Judged(v)
  BY DEF Resolve, Open
<1>2. Item(v) \in Items /\ row[Item(v)] \in Row /\ Item(v) \in Stored
  BY <1>1, CurrentRow DEF QueueInv, Current, Stored
<1>3. PICK o \in Officials \union {None} :
        row' = [row EXCEPT ![Item(v)] =
                  Resolved(row[Item(v)], Verdict(row[Item(v)].candidate, o), o)]
  BY DEF Resolve
<1> DEFINE new == Resolved(row[Item(v)], Verdict(row[Item(v)].candidate, o), o)
<1>4. /\ new \in Row
      /\ new.status = "match" =>
           new.key # None /\ Decide(new.candidate, new.key) = "match"
  BY <1>2, ResolvedRow
<1>5. /\ attempts' \in [Items -> 0 .. MaxAttempts]
      /\ \A j \in Items : j # Item(v) => attempts'[j] = attempts[j]
      /\ clock' \in 0 .. MaxEnqueues
      /\ todo' = todo /\ judged' \subseteq Verifiers
  BY <1>1, AttemptTyped DEF QueueInv
<1> QED
  <2> HIDE DEF new
  <2> QED BY <1>2, <1>3, <1>4, <1>5, RowStepKeeps DEF new

LEMMA FailKeeps ==
  ASSUME QueueInv, NEW v \in Verifiers, Fail(v)
  PROVE  QueueInv'
<1> DEFINE new == [row[Item(v)] EXCEPT !.status = "failed"]
<1>1. todo[v] # << >> /\ Current(v) /\ Judged(v)
  BY DEF Fail, Open
<1>2. Item(v) \in Items /\ row[Item(v)] \in Row /\ Item(v) \in Stored
  BY <1>1, CurrentRow DEF QueueInv, Current, Stored
<1>3. row' = [row EXCEPT ![Item(v)] = new]
  BY <1>2 DEF Fail, QueueInv, TypeOK
<1>4. new \in Row /\ new.status = "failed"
  BY <1>2 DEF Row, Terminal
<1>5. /\ attempts' \in [Items -> 0 .. MaxAttempts]
      /\ \A j \in Items : j # Item(v) => attempts'[j] = attempts[j]
      /\ clock' \in 0 .. MaxEnqueues
      /\ todo' = todo /\ judged' \subseteq Verifiers
  BY <1>1, AttemptTyped DEF QueueInv
<1> QED
  <2> HIDE DEF new
  <2> QED BY <1>2, <1>3, <1>4, <1>5, RowStepKeeps

\* A step that only changes what a pass has left.
LEMMA PassKeeps ==
  ASSUME QueueInv, UNCHANGED <<row, attempts, clock>>,
         todo' \in [Verifiers -> Seq(Items \X (1 .. MaxEnqueues))],
         judged' \subseteq Verifiers
  PROVE  QueueInv'
BY DEF QueueInv, TypeOK, QueueBounded, MatchSound, AttemptsOwned, InState, Stored

LEMMA NextKeeps == QueueInv /\ [Next]_vars => QueueInv'
<1> SUFFICES ASSUME QueueInv, [Next]_vars PROVE QueueInv'
  OBVIOUS
<1>1. ASSUME NEW i \in Items, NEW c \in Candidates, EnqueueNew(i, c) PROVE QueueInv'
  BY <1>1, EnqueueNewKeeps
<1>2. ASSUME NEW i \in Items, NEW c \in Candidates, EnqueueAgain(i, c) PROVE QueueInv'
  BY <1>2, EnqueueAgainKeeps
<1>3. ASSUME NEW v \in Verifiers, StartPass(v) PROVE QueueInv'
  <2>1. PICK list \in Lists : todo' = [todo EXCEPT ![v] = list]
    BY <1>3 DEF StartPass
  <2>2. list \in Seq(Items \X (1 .. MaxEnqueues))
    BY ListIsSeq
  <2>3. todo' \in [Verifiers -> Seq(Items \X (1 .. MaxEnqueues))]
    BY <2>1, <2>2 DEF QueueInv, TypeOK
  <2> QED BY <1>3, <2>3, PassKeeps DEF StartPass, QueueInv, TypeOK
<1>4. ASSUME NEW v \in Verifiers, Resolve(v) PROVE QueueInv'
  BY <1>4, ResolveKeeps
<1>5. ASSUME NEW v \in Verifiers, Fail(v) PROVE QueueInv'
  BY <1>5, FailKeeps
<1>6. ASSUME NEW v \in Verifiers, Abort(v) PROVE QueueInv'
  <2>1. todo' \in [Verifiers -> Seq(Items \X (1 .. MaxEnqueues))]
    BY <1>6, EmptySeq DEF Abort, QueueInv, TypeOK
  <2> QED BY <1>6, <2>1, PassKeeps DEF Abort, QueueInv, TypeOK
<1>8. ASSUME NEW v \in Verifiers, ReadBack(v) PROVE QueueInv'
  <2>0. todo[v] # << >>
    BY <1>8 DEF ReadBack
  <2>1. Tail(todo[v]) \in Seq(Items \X (1 .. MaxEnqueues))
    BY <2>0, HeadTailProperties DEF QueueInv, TypeOK
  <2>2. todo' \in [Verifiers -> Seq(Items \X (1 .. MaxEnqueues))]
    BY <1>8, <2>1 DEF ReadBack, QueueInv, TypeOK
  <2> QED BY <1>8, <2>2, PassKeeps DEF ReadBack, QueueInv, TypeOK
<1>7. CASE UNCHANGED vars
  <2>1. todo' \in [Verifiers -> Seq(Items \X (1 .. MaxEnqueues))]
    BY <1>7 DEF vars, QueueInv, TypeOK
  <2> QED BY <1>7, <2>1, PassKeeps DEF vars, QueueInv, TypeOK
<1> QED BY <1>1, <1>2, <1>3, <1>4, <1>5, <1>6, <1>7, <1>8 DEF Next

LEMMA InvariantHolds == Spec => []QueueInv
BY InitHolds, NextKeeps, PTL DEF Spec

----------------------------------------------------------------------------
(* Theorems.                                                               *)

\* Rows, attempts and lists keep their types, for any number of passes and
\* any bounds; no row keeps more attempts than max_attempts_per_discovery.
THEOREM TypeCorrect == Spec => []TypeOK
<1>1. QueueInv => TypeOK
  BY DEF QueueInv
<1> QED BY <1>1, InvariantHolds, PTL

\* The table stays within max_records, whatever is discovered and verified.
THEOREM TableIsBounded == Spec => []QueueBounded
<1>1. QueueInv => QueueBounded
  BY DEF QueueInv
<1> QED BY <1>1, InvariantHolds, PTL

\* Whatever the rule and however stale the lookup, a record on which a match is
\* recorded matches that tender with the candidate it has now.
THEOREM MatchesAreSound == Spec => []MatchSound
<1>1. QueueInv => MatchSound
  BY DEF QueueInv
<1> QED BY <1>1, InvariantHolds, PTL

\* No attempt outlives its row.
THEOREM AttemptsGoWithTheirRow == Spec => []AttemptsOwned
<1>1. QueueInv => AttemptsOwned
  BY DEF QueueInv
<1> QED BY <1>1, InvariantHolds, PTL

\* A record that waits for verification or for a person keeps its row and its
\* identity in every step.
THEOREM ProtectedRowsStay == Spec => ProtectedKept
<1>1. ASSUME QueueInv, [Next]_vars, NEW i \in InState(Protected)
      PROVE  row'[i] # None /\ row'[i].id = row[i].id
  <2>1. i \in Items /\ row[i] \in Row /\ row[i] # None
    BY <1>1 DEF InState, Stored, QueueInv, TypeOK
  <2>2. ASSUME NEW j \in Items, NEW c \in Candidates, EnqueueNew(j, c)
        PROVE  row'[i] = row[i]
    <3>1. PICK gone \in Victims :
            i # j => row'[i] = IF i \in gone THEN None ELSE row[i]
      BY <2>1, <2>2 DEF EnqueueNew
    <3>2. i \notin gone
      BY <1>1, <2>1, VictimsAreSettled, SettledIsNotProtected
    <3>3. i # j
      BY <2>1, <2>2 DEF EnqueueNew
    <3> QED BY <3>1, <3>2, <3>3
  <2>3. ASSUME NEW j \in Items, NEW new \in Row, new.id = row[j].id,
               row' = [row EXCEPT ![j] = new]
        PROVE  row'[i] # None /\ row'[i].id = row[i].id
    BY <1>1, <2>1, <2>3, NoRowAssumption DEF QueueInv, TypeOK
  <2>4. ASSUME NEW j \in Items, NEW c \in Candidates, EnqueueAgain(j, c)
        PROVE  row'[i] # None /\ row'[i].id = row[i].id
    <3> DEFINE new == [row[j] EXCEPT !.seen = clock + 1, !.status = "pending",
                                     !.candidate = c, !.key = None]
    <3>1. row[j] \in Row /\ clock + 1 \in 1 .. MaxEnqueues
      BY <1>1, <2>4, QueueAssumption DEF EnqueueAgain, QueueInv, TypeOK
    <3>2. new \in Row /\ new.id = row[j].id
      BY <3>1 DEF Row, Protected
    <3>3. row' = [row EXCEPT ![j] = new]
      BY <1>1, <2>4 DEF EnqueueAgain, QueueInv, TypeOK
    <3> HIDE DEF new
    <3> QED BY <2>3, <3>2, <3>3
  <2>5. ASSUME NEW v \in Verifiers, Resolve(v)
        PROVE  row'[i] # None /\ row'[i].id = row[i].id
    <3>1. Item(v) \in Items /\ row[Item(v)] \in Row
      BY <1>1, <2>5, CurrentRow DEF Resolve, Open, QueueInv
    <3>2. PICK o \in Officials \union {None} :
            row' = [row EXCEPT ![Item(v)] =
                      Resolved(row[Item(v)], Verdict(row[Item(v)].candidate, o), o)]
      BY <2>5 DEF Resolve
    <3> QED BY <2>3, <3>1, <3>2, ResolvedRow
  <2>6. ASSUME NEW v \in Verifiers, Fail(v)
        PROVE  row'[i] # None /\ row'[i].id = row[i].id
    <3> DEFINE new == [row[Item(v)] EXCEPT !.status = "failed"]
    <3>1. Item(v) \in Items /\ row[Item(v)] \in Row
      BY <1>1, <2>6, CurrentRow DEF Fail, Open, QueueInv
    <3>2. new \in Row /\ new.id = row[Item(v)].id
      BY <3>1 DEF Row, Terminal
    <3>3. row' = [row EXCEPT ![Item(v)] = new]
      BY <1>1, <2>6, <3>1 DEF Fail, QueueInv, TypeOK
    <3> HIDE DEF new
    <3> QED BY <2>3, <3>1, <3>2, <3>3
  <2>7. CASE UNCHANGED row
    BY <2>1, <2>7
  <2> QED BY <1>1, <2>1, <2>2, <2>4, <2>5, <2>6, <2>7 DEF Next, vars, StartPass, ReadBack, Abort
<1>2. QueueInv /\ [Next]_vars =>
        [\A i \in InState(Protected) : row'[i] # None /\ row'[i].id = row[i].id]_vars
  BY <1>1
<1> QED BY <1>2, InvariantHolds, PTL DEF Spec, ProtectedKept
=============================================================================
