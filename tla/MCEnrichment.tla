---------------------------- MODULE MCEnrichment ----------------------------
(***************************************************************************)
(* Sessions of one subject: a first of two rounds and a second of one.     *)
(***************************************************************************)
EXTENDS Enrichment

MCRound == {"hello", "moved", "later"}
MCRoundsOf == [j \in Job |-> IF j = 1 THEN {"hello", "moved"} ELSE {"later"}]
MCTellable == {{"hello", "moved"}}
=============================================================================
