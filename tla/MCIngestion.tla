---------------------------- MODULE MCIngestion ----------------------------
(* Small instances of Ingestion for TLC. *)
EXTENDS Ingestion, TLC

CONSTANTS k1, k2

\* k1 uploads and reindexes, k2 deletes.
EditorAndDeleter == (k1 :> {"upload", "reindex"}) @@ (k2 :> {"delete"})
\* One client that never deletes.
EditorOnly == k1 :> {"upload", "reindex"}

Symmetry == Permutations(Chunk) \cup Permutations(Worker) \cup Permutations(Job)
=============================================================================
