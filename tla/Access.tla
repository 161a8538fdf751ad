------------------------------- MODULE Access -------------------------------
(***************************************************************************)
(* The authorization seam (crates/memhouse-core/src/access.rs): what a     *)
(* verified caller may do, and the constraints a decision carries into the *)
(* statements that run under it.  There is no state here: an identity, a   *)
(* request and a record are records, and a decision is a function of them. *)
(*                                                                         *)
(* A scope gives each of its fields a value or None.  The subjects of a    *)
(* principal are the set its patterns match.  A record is a record of      *)
(* Memory in the source, of which only what decisions and filters look at  *)
(* is kept.                                                                *)
(***************************************************************************)
EXTENDS Integers, FiniteSets, Sequences

CONSTANTS
    None,           \* the field is not set
    Nobody,         \* access.rs NOBODY: the value no record has
    TenantLabels,   \* [governance] denied_labels
    RoleLabels      \* [access.denied_labels], by the kind of principal

Fields == {"org", "team", "agent", "user", "session"}
NoScope == [f \in Fields |-> None]

(* Permissions, and the most a credential of each kind of principal may    *)
(* carry (identity.rs, perm and PrincipalKind::permissions).               *)
PrincipalKinds == {"agent", "user", "admin"}
Permissions == {"READ", "WRITE", "FORGET", "ERASE", "LABEL", "REVIEW", "TOKEN",
                "OPS", "AUDIT", "POLICY_READ", "POLICY_PROPOSE", "POLICY_APPROVE"}
RolePermissions == [agent |-> {"READ", "WRITE", "FORGET", "TOKEN"},
                    user |-> {"READ", "WRITE", "FORGET", "LABEL", "TOKEN"},
                    admin |-> Permissions]

IsAdmin(who) == who.principal.kind = "admin"
Has(who, permission) == permission \in who.scopes

Reads == {"recall", "get", "list"}
Operations == Reads \cup
    {"explain", "remember", "revise", "ingest", "forget.record", "forget.subject",
     "forget.user", "forget.agent", "forget.source", "forget.tenant", "relabel", "review",
     "issue_token", "stats", "subjects", "enrich_status", "metrics", "audit", "policy_read",
     "policy_propose", "policy_approve", "whoami"}

(***************************************************************************)
(* ScopeAuthorizer::permission: forgetting one's own user or agent takes   *)
(* the right to forget, any wider scope the right to erase.  None: any     *)
(* credential will do.                                                     *)
(***************************************************************************)
ForgetsOwn(who, req) ==
    \/ req.op = "forget.user" /\ who.user # None /\ who.user = req.target
    \/ req.op = "forget.agent" /\ who.principal.kind = "agent" /\ who.principal.id = req.target

Permission(who, req) ==
    CASE req.op \in Reads \cup {"explain"} -> "READ"
      [] req.op \in {"remember", "revise", "ingest"} -> "WRITE"
      [] req.op = "forget.record" \/ ForgetsOwn(who, req) -> "FORGET"
      [] req.op \in {"forget.subject", "forget.user", "forget.agent", "forget.source",
                     "forget.tenant"} /\ ~ForgetsOwn(who, req) -> "ERASE"
      [] req.op = "relabel" -> "LABEL"
      [] req.op = "review" -> "REVIEW"
      [] req.op = "issue_token" -> "TOKEN"
      [] req.op \in {"stats", "subjects", "enrich_status", "metrics"} -> "OPS"
      [] req.op = "audit" -> "AUDIT"
      [] req.op = "policy_read" -> "POLICY_READ"
      [] req.op = "policy_propose" -> "POLICY_PROPOSE"
      [] req.op = "policy_approve" -> "POLICY_APPROVE"
      [] OTHER -> None

MayUseSubject(principal, subject) == subject \in principal.subjects

DeniedLabels(who) ==
    TenantLabels \cup RoleLabels[who.principal.kind] \cup who.principal.denied

(***************************************************************************)
(* The caller's own scope.  A caller without one of the fields has Nobody  *)
(* there; an administrator has no scope, and nobody's session is its own.  *)
(***************************************************************************)
Mine(who, value) ==
    IF IsAdmin(who) THEN None ELSE IF value = None THEN Nobody ELSE value

OwnScope(who) ==
    [f \in Fields |->
        CASE f = "org" -> Mine(who, who.principal.org)
          [] f = "team" -> Mine(who, who.principal.team)
          [] f = "agent" -> Mine(who, IF who.principal.kind = "agent"
                                        THEN who.principal.id ELSE None)
          [] f = "user" -> Mine(who, who.user)
          [] OTHER -> None]

(* A request without a scope asks for none of the fields.                  *)
Asked(req) == IF req.scope = None THEN NoScope ELSE req.scope

FieldFits(asked, mine) == asked = None \/ mine = None \/ (mine # Nobody /\ asked = mine)

(***************************************************************************)
(* The rules, in the order authorize tries them; the first that refuses    *)
(* decides.                                                                *)
(***************************************************************************)
RuleOrder == <<"permission", "tenant", "subject", "kind", "label", "user", "scope">>

Refuses(rule, who, req) ==
    \/ rule = "permission" /\ Permission(who, req) # None /\ ~Has(who, Permission(who, req))
    \/ rule = "tenant" /\ req.tenant # None /\ req.tenant # who.principal.tenant
    \/ rule = "subject" /\ req.subject # None /\ ~MayUseSubject(who.principal, req.subject)
    \/ rule = "kind" /\ who.principal.kinds # {} /\ ~(req.kinds \subseteq who.principal.kinds)
    \/ rule = "label" /\ req.labels \cap DeniedLabels(who) # {}
    \/ rule = "user" /\ req.user # None /\ ~IsAdmin(who) /\ req.user # who.user
    \/ rule = "scope" /\ \E f \in Fields : ~FieldFits(Asked(req)[f], OwnScope(who)[f])

FirstOf(order, which, otherwise) ==
    IF which = {} THEN otherwise ELSE order[CHOOSE i \in which : \A j \in which : i <= j]

Rule(who, req) ==
    FirstOf(RuleOrder, {i \in 1 .. 7 : Refuses(RuleOrder[i], who, req)}, "allow")

(* A read may narrow the caller's scope by fields it leaves open.          *)
Narrowed(asked, mine) == [f \in Fields |-> IF asked[f] # None THEN asked[f] ELSE mine[f]]

Authorize(who, req) ==
    LET rule == Rule(who, req)
    IN  [allowed |-> rule = "allow",
         rule |-> rule,
         tenant |-> who.principal.tenant,
         denied |-> DeniedLabels(who),
         scope |-> IF rule = "allow" /\ req.scope # None /\ req.op \in Reads
                     THEN Narrowed(req.scope, OwnScope(who)) ELSE OwnScope(who),
         kinds |-> who.principal.kinds,
         proposeOnly |-> who.principal.kind = "agent" /\ ~who.principal.canCommit]

(* What is asked of a record that exists (AccessRequest::record).          *)
Request(op) ==
    [op |-> op, tenant |-> None, subject |-> None, kinds |-> {}, labels |-> {},
     scope |-> None, user |-> None, target |-> None]

OfRecord(req, m) ==
    [req EXCEPT !.subject = m.subject, !.kinds = {m.kind}, !.labels = m.labels,
                !.scope = IF m.scope = NoScope THEN None ELSE m.scope]

(* A wanted value admits the records that have it or leave it open.        *)
FieldMatches(want, have) == want = None \/ have = None \/ want = have
ScopeMatches(want, have) == \A f \in Fields : FieldMatches(want[f], have[f])

Visible(d, m) ==
    /\ m.tenant = d.tenant
    /\ m.labels \cap d.denied = {}
    /\ d.kinds = {} \/ m.kind \in d.kinds
    /\ ScopeMatches(d.scope, m.scope)

(***************************************************************************)
(* The tenant's policy narrows a decision further (caller.rs with_policy): *)
(* labels it denies are neither asked for nor read.                        *)
(***************************************************************************)
PolicyRefuses(policy, req) == req.labels \cap policy.denied # {}
WithPolicy(d, policy) == [d EXCEPT !.denied = @ \cup policy.denied]
=============================================================================
