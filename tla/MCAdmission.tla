---------------------------- MODULE MCAdmission ----------------------------
(***************************************************************************)
(* One version, a revision of it and a rival revision: both wait for a     *)
(* reviewer, or the rival is committed by the pipeline.                    *)
(***************************************************************************)
EXTENDS Admission, TLC

CONSTANTS A, B, Rival

MCRecord == {A, B, Rival}
MCRevises == [r \in MCRecord |-> IF r = A THEN NoRecord ELSE A]
AnyCall == Permutations(Call)
=============================================================================
