--------------------------- MODULE DiscoveryQueue ---------------------------
(***************************************************************************)
(* The discovery queue of aggregators: AggregatorDiscoveryRepository, a    *)
(* bounded table, filled by the collector and emptied by passes of         *)
(* AggregatorOfficialVerificationService.verify_pending.                   *)
(*                                                                         *)
(* A pass lists pending records once and looks each of them up at an       *)
(* official source; meanwhile records are discovered again, verified by    *)
(* another pass, evicted.  All actors share one repository, so each of its *)
(* transactions is one step.                                               *)
(***************************************************************************)
EXTENDS Integers, FiniteSets, Sequences

CONSTANTS
  Items,        \* identities at the aggregator: (source, external id)
  Candidates,   \* versions of what the aggregator says of an item
  Officials,    \* tenders an official source may return
  Decide(_, _), \* match_official_identity: "match", "manual" or "reject"
  Verifiers,    \* passes of verify_pending
  MaxRecords,   \* max_records
  MaxAttempts,  \* max_attempts_per_discovery
  Limit,        \* limit of verify_pending
  MaxEnqueues,  \* bound: records discovered
  None          \* no row, no official tender

ASSUME QueueAssumption ==
  /\ IsFiniteSet(Items)
  /\ \A c \in Candidates, o \in Officials : Decide(c, o) \in {"match", "manual", "reject"}
  /\ MaxRecords \in Nat \ {0} /\ MaxAttempts \in Nat \ {0} /\ Limit \in Nat \ {0}
  /\ MaxEnqueues \in Nat
  /\ None \notin Officials

Terminal  == {"match", "nomatch", "failed"}
Protected == {"pending", "manual"}

Row == [id : 1 .. MaxEnqueues, seen : 1 .. MaxEnqueues,
        status : Terminal \union Protected,
        candidate : Candidates, key : Officials \union {None}]

ASSUME NoRowAssumption == None \notin Row

VARIABLES
  row,      \* collector_aggregator_discoveries, None where there is no row
  attempts, \* rows of collector_aggregator_verification_attempts per item
  clock,    \* records discovered so far: orders rows, names discovery_ids
  todo,     \* what is left of each pass: (item, discovery_id), in order
  judged    \* passes that wrote a verdict on their first record and have not
            \* read the row back

vars == <<row, attempts, clock, todo, judged>>

TypeOK ==
  /\ row \in [Items -> Row \union {None}]
  /\ attempts \in [Items -> 0 .. MaxAttempts]
  /\ clock \in 0 .. MaxEnqueues
  /\ todo \in [Verifiers -> Seq(Items \X (1 .. MaxEnqueues))]
  /\ judged \subseteq Verifiers

Init ==
  /\ row = [i \in Items |-> None]
  /\ attempts = [i \in Items |-> 0]
  /\ clock = 0
  /\ todo = [v \in Verifiers |-> << >>]
  /\ judged = {}

Stored == {i \in Items : row[i] # None}
InState(states) == {i \in Stored : row[i].status \in states}

----------------------------------------------------------------------------
(* enqueue.                                                                *)

\* Mutant: the oldest rows go, whatever their status.
Evictable_Any == Stored

\* Rows a full queue may evict.
Evictable == InState(Terminal)

\* Mutant: a queue that is full by one makes no room.
Excess_OffByOne == Cardinality(Stored) - MaxRecords

\* Rows that must go before one more fits.
Excess == Cardinality(Stored) - MaxRecords + 1

\* _ensure_capacity: as many of the oldest evictable rows as needed; when there
\* are not enough, no set qualifies and the record is refused.
Victims ==
  IF Excess <= 0 THEN {{}}
  ELSE {old \in SUBSET Evictable :
          /\ Cardinality(old) = Excess
          /\ \A i \in old, j \in Evictable \ old : row[i].seen <= row[j].seen}

\* Discovered for the first time, or again after its row was evicted.
EnqueueNew(i, c) ==
  /\ clock < MaxEnqueues /\ row[i] = None
  /\ \E gone \in Victims :
       /\ row' = [j \in Items |->
            IF j = i THEN [id |-> clock + 1, seen |-> clock + 1, status |-> "pending",
                           candidate |-> c, key |-> None]
            ELSE IF j \in gone THEN None ELSE row[j]]
       /\ attempts' = [j \in Items |-> IF j \in gone THEN 0 ELSE attempts[j]]
  /\ clock' = clock + 1
  /\ UNCHANGED <<todo, judged>>

\* Mutant: a record discovered again keeps its verdict.
EnqueueAgain_KeepVerdict(i, c) ==
  /\ clock < MaxEnqueues /\ row[i] # None
  /\ row' = [row EXCEPT ![i].seen = clock + 1, ![i].candidate = c]
  /\ clock' = clock + 1
  /\ UNCHANGED <<attempts, todo, judged>>

\* Discovered again: the row is pending once more, with the new candidate.
EnqueueAgain(i, c) ==
  /\ clock < MaxEnqueues /\ row[i] # None
  /\ row' = [row EXCEPT ![i].seen = clock + 1, ![i].status = "pending",
                        ![i].candidate = c, ![i].key = None]
  /\ clock' = clock + 1
  /\ UNCHANGED <<attempts, todo, judged>>

----------------------------------------------------------------------------
(* verify_pending.                                                         *)

\* list_pending: the oldest Limit pending rows, in order.
Listed(list) ==
  LET pending == InState({"pending"})
      chosen  == {list[n] : n \in DOMAIN list}
  IN  /\ Len(list) = (IF Cardinality(pending) < Limit THEN Cardinality(pending)
                      ELSE Limit)
      /\ chosen \subseteq {<<i, row[i].id>> : i \in pending}
      /\ \A m, n \in DOMAIN list :
           m < n => row[list[m][1]].seen < row[list[n][1]].seen
      /\ \A i \in pending, n \in DOMAIN list :
           <<i, row[i].id>> \notin chosen => row[list[n][1]].seen < row[i].seen

Lists == UNION {[1 .. n -> Items \X (1 .. MaxEnqueues)] : n \in 1 .. Limit}

StartPass(v) ==
  /\ todo[v] = << >>
  /\ \E list \in Lists : Listed(list) /\ todo' = [todo EXCEPT ![v] = list]
  /\ UNCHANGED <<row, attempts, clock, judged>>

\* The record the pass is at, and whether its row still exists.
Item(v)    == Head(todo[v])[1]
Current(v) == row[Item(v)] # None /\ row[Item(v)].id = Head(todo[v])[2]

\* The record at which the pass still has to look.
Open(v) == todo[v] # << >> /\ v \notin judged

\* One more attempt on record, the oldest beyond the limit pruned.
Attempted(i) ==
  attempts' = [attempts EXCEPT ![i] = IF @ < MaxAttempts THEN @ + 1 ELSE @]

\* resolve: the verdict on the candidate the row has now.
Verdict(candidate, official) ==
  IF official = None THEN "reject" ELSE Decide(candidate, official)

Resolved(r, verdict, official) ==
  CASE verdict = "match"  -> [r EXCEPT !.status = "match", !.key = official]
    [] verdict = "manual" -> [r EXCEPT !.status = "manual", !.key = None]
    [] OTHER              -> [r EXCEPT !.status = "nomatch", !.key = None]

\* A verdict is on record: its transaction is over, the read of it is another.
Judged(v) ==
  /\ Attempted(Item(v))
  /\ judged' = judged \union {v}
  /\ UNCHANGED <<clock, todo>>

\* The lookup returned a tender or nothing, for the record as it was listed.
Resolve(v) ==
  /\ Open(v) /\ Current(v)
  /\ \E official \in Officials \union {None} :
       row' = [row EXCEPT ![Item(v)] =
                 Resolved(@, Verdict(@.candidate, official), official)]
  /\ Judged(v)

\* Mutant: a failed lookup leaves its attempt on record for an evicted row too.
Fail_Late(v) ==
  /\ Open(v)
  /\ row' = [row EXCEPT ![Item(v)] =
               IF Current(v) THEN [@ EXCEPT !.status = "failed"] ELSE @]
  /\ Judged(v)

\* The lookup raised: mark_failed (the registry key of an earlier match stays).
Fail(v) ==
  /\ Open(v) /\ Current(v)
  /\ row' = [row EXCEPT ![Item(v)].status = "failed"]
  /\ Judged(v)

\* get, the end of resolve and of mark_failed, finds the row: on to the next.
ReadBack(v) ==
  /\ todo[v] # << >> /\ v \in judged /\ Current(v)
  /\ todo' = [todo EXCEPT ![v] = Tail(@)]
  /\ judged' = judged \ {v}
  /\ UNCHANGED <<row, attempts, clock>>

\* The row is gone, before the verdict or before get: KeyError, and mark_failed
\* raises it again inside the except clause; the rest of the pass is not verified.
Abort(v) ==
  /\ todo[v] # << >> /\ ~Current(v)
  /\ todo' = [todo EXCEPT ![v] = << >>]
  /\ judged' = judged \ {v}
  /\ UNCHANGED <<row, attempts, clock>>

Next ==
  \/ \E i \in Items, c \in Candidates : EnqueueNew(i, c) \/ EnqueueAgain(i, c)
  \/ \E v \in Verifiers : StartPass(v) \/ Resolve(v) \/ Fail(v) \/ ReadBack(v) \/ Abort(v)

Spec == Init /\ [][Next]_vars

----------------------------------------------------------------------------
(* Properties.                                                             *)

\* The table never exceeds max_records, however discoveries and verdicts mix.
QueueBounded == Cardinality(Stored) <= MaxRecords

\* A record that waits for verification or for a person is never evicted, also
\* when it turned pending again while a pass held it.
ProtectedKept ==
  [][\A i \in InState(Protected) : row'[i] # None /\ row'[i].id = row[i].id]_vars

\* A confirmed record names an official tender that matches the candidate it
\* has now, although the lookup was made for an earlier one.
MatchSound ==
  \A i \in InState({"match"}) :
    row[i].key # None /\ Decide(row[i].candidate, row[i].key) = "match"

\* Attempts go with their row: a record discovered anew starts without history.
AttemptsOwned == \A i \in Items : attempts[i] > 0 => i \in Stored
=============================================================================
