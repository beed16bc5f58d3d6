-------------------------- MODULE MCProcessingLease --------------------------
(***************************************************************************)
(* Small instances of ProcessingLease: which process each worker lives in  *)
(* and which machine each daemon runs on.                                  *)
(***************************************************************************)
EXTENDS ProcessingLease, TLC

CONSTANTS r1, r2, slot1, slot2, web, cli, d1, d2, hostA, hostB

\* Worker slots of one daemon.
MCOwnerSlots == [w \in Workers |-> d1]
\* A Web thread of the first of two daemons, and a CLI process.
MCOwnerFailover == [w \in {web, cli} |-> IF w = cli THEN NoDaemon ELSE d1]

MCHostOne == [d \in Daemons |-> hostA]
MCHostApart == [d \in {d1, d2} |-> IF d = d1 THEN hostA ELSE hostB]

Symmetry == Permutations({r1, r2})
=============================================================================
