----------------------------- MODULE MCSchema -----------------------------
(***************************************************************************)
(* Three builds: one of version 1, one of today's model with a prefix, one *)
(* with another model.  The other database imports with a version 2 build. *)
(***************************************************************************)
EXTENDS Archive

MCBuild == [p \in Process |-> CASE p = "old" -> 1 [] p = "new" -> 2 [] OTHER -> 3]

MCConfig == [p \in Process |->
    [dim |-> 384, embedder |-> IF p = "other" THEN "bge" ELSE "e5",
     prefix |-> IF p = "new" THEN "passage" ELSE "none"]]
===========================================================================
