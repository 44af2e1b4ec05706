----------------------------- MODULE MCRingBuFi -----------------------------
(* Instances of RingBuFi for TLC: records of one length, and of several.   *)
EXTENDS RingBuFi, TLC

CONSTANTS r1, r2, r3, r4

UniformRecords == {r1, r2, r3, r4}

UniformLen == [r \in UniformRecords |-> 1]

(* Three lengths are enough to take every branch of putRingBuFiRecord.     *)
MixedRecords == {r1, r2, r3}

MixedLen == (r1 :> 1) @@ (r2 :> 2) @@ (r3 :> 4)

Misread == {0, 1, 3}

(* OldestGoFirst says nothing of what follows a mismatch.                  *)
Matched == view # Broken
=============================================================================
