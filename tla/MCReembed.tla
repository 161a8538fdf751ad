----------------------------- MODULE MCReembed -----------------------------
(***************************************************************************)
(* Models a and b of one dimension, c of another, and a with a prefix for  *)
(* the passages it is given.                                               *)
(***************************************************************************)
EXTENDS Reembed, TLC

MCIdentity == {"a", "b", "c", "a prefixed"}
MCNameOf == [i \in MCIdentity |-> IF i = "a prefixed" THEN "a" ELSE i]
MCDimOf == [i \in MCIdentity |-> IF i = "c" THEN 4 ELSE 8]
Interchangeable == Permutations(Run) \cup Permutations(Process)
=============================================================================
