--------------------------- MODULE MCCollectorRun ---------------------------
(* Instances of CollectorRun for TLC. *)
EXTENDS CollectorRun, TLC

\* Run identities are interchangeable in every safety property.
RunSymmetry == Permutations(Runs)

\* Unmergeable: nothing; the first two pages of one provider and nothing else;
\* the first pages of all providers.
NoConflict == {}
PagesConflict == {{<<p, 1>>, <<p, 2>>} : p \in Providers}
ListingsConflict == {{<<p, 1>> : p \in Providers}}
=============================================================================
