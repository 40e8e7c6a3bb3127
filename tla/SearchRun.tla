------------------------------ MODULE SearchRun ------------------------------
(***************************************************************************)
(* What one parallel search promises its caller (RM-138, "Run lifecycle"   *)
(* and "Provider lifecycle"): every selected provider gets one outcome     *)
(* that never changes; the run ends exactly once; what it ends with agrees *)
(* with the outcomes; a provider that had no outcome when the run was      *)
(* cut short is recorded with the reason of the cut and without items.     *)
(***************************************************************************)
CONSTANTS
  Providers,   \* the selected providers
  Outcomes,    \* terminal provider states
  Successful   \* those that count as success: success and empty

VARIABLES
  state,       \* "running" or the terminal state of the run
  outcome,     \* per provider: "pending" or an element of Outcomes
  usable       \* the providers whose items the caller is given

abstractVars == <<state, outcome, usable>>

Init ==
  /\ state = "running"
  /\ outcome = [p \in Providers |-> "pending"]
  /\ usable = {}

Done == {p \in Providers : outcome[p] # "pending"}

\* With an outcome more items may become usable, also of providers that were
\* done before; none is lost.
Complete(p, o) ==
  /\ state = "running" /\ p \notin Done
  /\ outcome' = [outcome EXCEPT ![p] = o]
  /\ usable \subseteq usable' /\ usable' \in SUBSET (Done \union {p})
  /\ state' = state

Verdict ==
  CASE \A p \in Providers : outcome[p] \in Successful -> "completed"
    [] (\E p \in Providers : outcome[p] \notin Successful) /\ usable # {} -> "partial"
    [] OTHER -> "failed"

End ==
  /\ state = "running"
  /\ Done = Providers
  /\ state' = Verdict
  /\ UNCHANGED <<outcome, usable>>

CutShort(reason) ==
  /\ state = "running"
  /\ state' = reason
  /\ outcome' = [p \in Providers |->
                   IF outcome[p] = "pending" THEN reason ELSE outcome[p]]
  /\ usable' = usable

Next ==
  \/ \E p \in Providers, o \in Outcomes : Complete(p, o)
  \/ End
  \/ \E reason \in {"cancelled", "timed_out"} : CutShort(reason)

Spec == Init /\ [][Next]_abstractVars
=============================================================================
