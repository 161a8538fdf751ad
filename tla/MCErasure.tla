----------------------------- MODULE MCErasure ------------------------------
(***************************************************************************)
(* A round of one subject and a statement of another one that is scoped to *)
(* the round's author, with one text between them.                         *)
(***************************************************************************)
EXTENDS Erasure

MCAttr ==
    [w \in Write |->
        IF w = "round"
        THEN [subject |-> "s", user |-> "ana", agent |-> "bot", source |-> "chat",
              scopeUser |-> None, scopeAgent |-> None, text |-> "hello", fact |-> "fact",
              round |-> TRUE]
        ELSE [subject |-> "t", user |-> "bob", agent |-> "crm", source |-> "chat",
              scopeUser |-> "ana", scopeAgent |-> "bot", text |-> "hello", fact |-> None,
              round |-> FALSE]]

MCRecallOf == [q \in {"recall"} |-> [subject |-> "s", user |-> "ana"]]
MCLinkOf == [l \in {"link"} |-> [subject |-> "t", linked |-> "s"]]

MCTargets ==
    {[scope |-> "record", value |-> Stated("round")],
     [scope |-> "record", value |-> FactOf("round")], [scope |-> "agent", value |-> "enrich"],
     [scope |-> "subject", value |-> "s"], [scope |-> "user", value |-> "ana"],
     [scope |-> "agent", value |-> "bot"], [scope |-> "source", value |-> "chat"],
     [scope |-> "tenant", value |-> None]}
=============================================================================
