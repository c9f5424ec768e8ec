---------------------------- MODULE MCPostmaster ----------------------------
(* Model-checking instance of Postmaster.  The connection slots are model *)
(* values given in each .cfg; they are interchangeable.                   *)
EXTENDS Postmaster

CONSTANTS c1, c2

MCSymmetry == Permutations(ChildSlots)

(* The failures the outside may cause: any child with FATAL (1) or a     *)
(* crash (2), or only a FATAL exit of the archiver.                       *)
MCAllFaults == Procs \X {1, 2}
MCArchiverFatal == {<<"archiver", 1>>}
=============================================================================
