------------------------------ MODULE MCPolicy ------------------------------
(***************************************************************************)
(* One process whose operations share its cache, and a governance under    *)
(* which every version compiles beside a strict one under which none does. *)
(***************************************************************************)
EXTENDS Policy, TLC

MCEngine == {"e1"}
MCEngineOf == [t \in Task |-> "e1"]
MCGovernance == {"loose", "strict"}
MCCompiles == [g \in MCGovernance |-> IF g = "loose" THEN 1..Versions ELSE {}]
Interchangeable == Permutations(Task) \cup Permutations(Admin)
=============================================================================
