--------------------------- MODULE MCDocumentStore ---------------------------
(* Instances of DocumentStore for TLC. *)
EXTENDS DocumentStore, TLC

CONSTANTS w1, w2, a1, a2, b1

\* Each worker has a tender of its own; one tender has two documents.
OwnTender == w1 :> {a1, a2} @@ w2 :> {b1}

\* Both workers download the documents of the same tender.
SameTender == w1 :> {a1, a2} @@ w2 :> {a1, a2}

TenderFolder == a1 :> "A" @@ a2 :> "A" @@ b1 :> "B"
OneFolder    == a1 :> "A" @@ a2 :> "A"
=============================================================================
