---------------------------- MODULE MCIngestStore ----------------------------
(* Instances of IngestStore for TLC. *)
EXTENDS IngestStore, TLC

\* Connections are alike, and so are DELETE requests.
Symmetry == Permutations(Conns) \cup Permutations(Deleters)
=============================================================================
