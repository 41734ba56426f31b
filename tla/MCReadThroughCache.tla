------------------------- MODULE MCReadThroughCache -------------------------
(* Instances of ReadThroughCache for TLC.  A behaviour is calm - one request *)
(* at a time, nothing fails, and all who write invalidate - or anything goes *)
(* in it; which, is chosen at the start.  Readers and writers are            *)
(* interchangeable, versions and time are numbers.                           *)
EXTENDS ReadThroughCache, TLC

VARIABLE calm

MCInit == Init /\ calm \in BOOLEAN

MCNext ==
  /\ \/ /\ calm
        /\ NextSerial
        /\ \A w \in Scheduled : wpc'[w] = "idle"
     \/ ~calm /\ NextF
  /\ UNCHANGED calm

MCSpec == MCInit /\ [][MCNext]_<<vars, calm>>

(* ReadsSeeFinishedWrites ("invalidated the moment a sync could have changed *)
(* one", app/api/main.py:412) holds of calm behaviours.                      *)
CalmReadsSeeFinishedWrites == calm => ReadsSeeFinishedWrites

Symmetry == Permutations(Reader) \union Permutations(Writer)
=============================================================================
