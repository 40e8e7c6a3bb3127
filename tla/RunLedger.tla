------------------------------ MODULE RunLedger ------------------------------
(***************************************************************************)
(* What the tables of the collector tell a reader, whatever the processes  *)
(* that write them do: overlap, crash, hang, lose their lease or complete  *)
(* a run twice.  A run is admitted when nobody is inside a lease, accepts  *)
(* pages in order, saves items of pages it accepted itself and is closed   *)
(* with one outcome per provider that the rows bear out - or it never is.  *)
(* Processes, tasks, memory and phases do not occur here.                  *)
(***************************************************************************)
EXTENDS Integers

CONSTANTS Runs, Providers, NoRun, LastPage, Unmergeable

VARIABLES
  status,    \* "none", "running" or what the run was closed with
  holder,    \* the run that holds the lease row, or NoRun
  inTime,    \* the runs whose lease has not expired
  pages,     \* <<run, provider, page>>: who accepted what
  position,  \* per provider: the page a next run resumes behind
  registry,  \* saved items <<provider, page>>
  outcomes   \* per run and provider: the recorded outcome, or "none"

ledger == <<status, holder, inTime, pages, position, registry, outcomes>>

Closing == {"completed", "partial", "failed", "timed_out", "cancelled"}
Recorded == {"success", "failed", "timed_out", "cancelled", "circuit_open"}

Init ==
  /\ status = [r \in Runs |-> "none"]
  /\ holder = NoRun
  /\ inTime = {}
  /\ pages = {}
  /\ position = [p \in Providers |-> 0]
  /\ registry = {}
  /\ outcomes = [r \in Runs |-> [p \in Providers |-> "none"]]

Admit(r) ==
  /\ status[r] = "none"
  /\ holder \notin inTime
  /\ status' = [status EXCEPT ![r] = "running"]
  /\ holder' = r
  /\ inTime' = inTime \union {r}
  /\ UNCHANGED <<pages, position, registry, outcomes>>

Expire ==
  /\ inTime' \subseteq inTime
  /\ UNCHANGED <<status, holder, pages, position, registry, outcomes>>

\* A page comes with the position, and behind pages that somebody accepted.
AcceptPage(r, p, n) ==
  /\ status[r] = "running"
  /\ \A m \in 1 .. n - 1 : \E q \in Runs : <<q, p, m>> \in pages
  /\ pages' = pages \union {<<r, p, n>>}
  /\ position' = [position EXCEPT ![p] = n]
  /\ UNCHANGED <<status, holder, inTime, registry, outcomes>>

\* Items are saved, of pages the run itself accepted.
Save(r) ==
  /\ status[r] = "running"
  /\ registry \subseteq registry'
  /\ \A x \in registry' \ registry : <<r, x[1], x[2]>> \in pages
  /\ UNCHANGED <<status, holder, inTime, pages, position, outcomes>>

\* No items of the run's pages contradict each other.
Mergeable(r) == \A u \in Unmergeable : \E x \in u : <<r, x[1], x[2]>> \notin pages

\* The outcomes agree with the rows of the run, and its status with them.
BorneOut(r, out) ==
  \A p \in Providers :
    /\ out[p] = "success" => <<r, p, LastPage>> \in pages
    /\ out[p] \in {"success", "failed"} /\ Mergeable(r) =>
         \A n \in 1 .. LastPage : <<r, p, n>> \in pages => <<p, n>> \in registry

Agrees(verdict, out) ==
  /\ verdict = "completed" => \A p \in Providers : out[p] = "success"
  /\ verdict = "failed" => \A p \in Providers : out[p] # "success"
  /\ verdict = "partial" => \E p, q \in Providers : out[p] = "success" /\ out[q] # "success"

Release(r) == holder' = IF holder = r THEN NoRun ELSE holder

Close(r) ==
  /\ status[r] = "running" /\ status'[r] \in Closing
  /\ outcomes'[r] \in [Providers -> Recorded]
  /\ BorneOut(r, outcomes'[r]) /\ Agrees(status'[r], outcomes'[r])
  /\ status' = [status EXCEPT ![r] = status'[r]]
  /\ outcomes' = [outcomes EXCEPT ![r] = outcomes'[r]]
  /\ Release(r)
  /\ UNCHANGED <<inTime, pages, position, registry>>

\* The run could not be closed: it fails, and no outcome is recorded.
Abandon(r) ==
  /\ status[r] = "running"
  /\ status' = [status EXCEPT ![r] = "failed"]
  /\ Release(r)
  /\ UNCHANGED <<inTime, pages, position, registry, outcomes>>

\* A run that was closed is failed afterwards; nothing else about it changes,
\* and whoever holds the lease by now keeps it.
Amend(r) ==
  /\ status[r] \in Closing
  /\ status' = [status EXCEPT ![r] = "failed"]
  /\ UNCHANGED <<holder, inTime, pages, position, registry, outcomes>>

Next ==
  \/ \E r \in Runs : Admit(r) \/ Save(r) \/ Close(r) \/ Abandon(r) \/ Amend(r)
  \/ \E r \in Runs, p \in Providers, n \in 1 .. LastPage : AcceptPage(r, p, n)
  \/ Expire

Spec == Init /\ [][Next]_ledger
=============================================================================
