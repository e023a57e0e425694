------------------------------ MODULE MCChunkRows ------------------------------
(* Threads, processes, ids and keys are each alike.                        *)
EXTENDS ChunkRows, TLC

Alike == Permutations(Threads) \cup Permutations(Processes)
           \cup Permutations(Ids) \cup Permutations(Keys)
===============================================================================
