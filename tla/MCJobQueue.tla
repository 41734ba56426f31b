---------------------------- MODULE MCJobQueue ----------------------------
(* Small instances of JobQueue for TLC.                                     *)
EXTENDS JobQueue, TLC

(* Ids, threads, processes and keys are interchangeable.  Used only where   *)
(* no temporal property with liveness is checked.                           *)
Symmetry ==
  Permutations(Job) \union Permutations(Client) \union Permutations(Worker)
    \union Permutations(Key)
=============================================================================
