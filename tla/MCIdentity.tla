----------------------------- MODULE MCIdentity -----------------------------
(***************************************************************************)
(* A user with a key, and the agent it issues a token to.                  *)
(***************************************************************************)
EXTENDS Identity

Profile(id, kind, actAs) ==
    [id |-> id, tenant |-> "t", kind |-> kind, subjects |-> {"s"}, kinds |-> {}, denied |-> {},
     org |-> None, team |-> None, canCommit |-> FALSE, actAs |-> actAs, disabled |-> None]

MCBoot == Profile("admin", "admin", FALSE)
MCProfiles == {Profile("bot", "agent", FALSE)}
\* The agent is in use, or was disabled some time ago.
MCPrincipals ==
    {[id \in {"ana", "bot"} |->
        IF id = "ana" THEN Profile("ana", "user", FALSE)
        ELSE [Profile("bot", "agent", TRUE) EXCEPT !.disabled = disabled]] : disabled \in {None, 0}}
Stored(id, scopes, by) ==
    [principal |-> id, scopes |-> scopes, created |-> 0, expires |-> None, revoked |-> None, by |-> by]
MCKeys == [k \in {"k1", "k2", "k3"} |->
             CASE k = "k1" -> Stored("ana", {"READ", "TOKEN"}, "cli")
               [] k = "k2" -> Stored("bot", ConnectScopes, "connect")
               [] OTHER -> None]
MCRoles == [kind \in PrincipalKinds |-> {}]
MCTokenScopes == {{"READ"}, {"READ", "WRITE"}}
Shows(cred, genuine, user) == [cred |-> cred, genuine |-> genuine, user |-> user]
MCPresented == {Shows("k1", TRUE, None), Shows("boot", TRUE, None), Shows("t1", TRUE, None)}
=============================================================================
