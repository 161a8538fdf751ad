----------------------------- MODULE MCRequests -----------------------------
(***************************************************************************)
(* A statement and a structured record, each sent twice under one key.     *)
(***************************************************************************)
EXTENDS Requests, TLC

CONSTANTS c1, c2, s1, s2

MCCall == {c1, c2, s1, s2}
MCKeyOf == [c \in MCCall |-> "key"]
MCBodyOf == [c \in MCCall |-> IF c \in {s1, s2} THEN "record" ELSE "text"]
Interchangeable == Permutations({c1, c2}) \cup Permutations({s1, s2})
=============================================================================
