-------------------------- MODULE MCDiscoveryQueue --------------------------
(* An instance of DiscoveryQueue for TLC. *)
EXTENDS DiscoveryQueue

\* Each candidate matches one official tender; one pair needs a person.
Identity(candidate, official) ==
  CASE candidate = official                -> "match"
    [] candidate = "c1" /\ official = "c2" -> "manual"
    [] OTHER                               -> "reject"
=============================================================================
