------------------------------ MODULE Callers ------------------------------
(***************************************************************************)
(* A verified caller's view of the engine                                  *)
(* (crates/memhouse-core/src/caller.rs), the only way the transports reach *)
(* it.  Each operation asks the authorizer, then calls the engine with the *)
(* constraints of the decision in the place of what the caller said.       *)
(*                                                                         *)
(* An operation is a function from the caller, its request and what the    *)
(* call reads (the tenant's policy, the records, the other principals) to  *)
(* an outcome: the code of an error, with the rule whose refusal is        *)
(* audited as access.denied, or what is handed to the engine.              *)
(***************************************************************************)
EXTENDS Recall

CONSTANTS DefaultSubject,   \* [memory] default_subject
          MaxTokenTtl       \* [access] token_ttl_secs

Failed(code) == [code |-> code, audited |-> None, value |-> None]
DeniedBy(code, rule) == [code |-> code, audited |-> rule, value |-> None]
Done(value) == [code |-> "ok", audited |-> None, value |-> value]

Subject(given) == IF given = None THEN DefaultSubject ELSE given

(***************************************************************************)
(* decide and with_policy.                                                 *)
(***************************************************************************)
Decide(who, policy, req) ==
    LET d == Authorize(who, req)
    IN  CASE ~d.allowed -> DeniedBy("forbidden", d.rule)
          [] d.allowed /\ PolicyRefuses(policy, req) -> DeniedBy("forbidden", "policy")
          [] OTHER -> Done(WithPolicy(d, policy))

(***************************************************************************)
(* visible: a record the caller may see.  records holds the stored and the *)
(* queued records of every tenant, by id; a lookup is under the caller's   *)
(* own.                                                                    *)
(***************************************************************************)
Lookup(who, records, id) ==
    IF id \in DOMAIN records /\ records[id].tenant = who.principal.tenant
    THEN records[id] ELSE None

ShowRecord(who, policy, op, m) ==
    LET d == Authorize(who, OfRecord(Request(op), m))
    IN  CASE ~d.allowed ->
               DeniedBy(IF d.rule = "permission" THEN "forbidden" ELSE "not_found", d.rule)
          [] d.allowed /\ ~Visible(WithPolicy(d, policy), m) -> Failed("not_found")
          [] OTHER -> Done([memory |-> m, decision |-> WithPolicy(d, policy)])

Show(who, policy, records, op, id) ==
    LET may == Decide(who, policy, Request(op))
        m == Lookup(who, records, id)
    IN  CASE may.code # "ok" -> may
          [] may.code = "ok" /\ m = None -> Failed("not_found")
          [] OTHER -> ShowRecord(who, policy, op, m)

(***************************************************************************)
(* Writes.  What reaches the engine is under the tenant of the decision    *)
(* and names the caller as the actor and its verified user; a principal    *)
(* that may only propose has its proposals committed by a reviewer, or,    *)
(* where the policy admits them by itself, after the queue's checks.       *)
(***************************************************************************)
Entry(d, policy) ==
    CASE ~d.proposeOnly -> "commit"
      [] d.proposeOnly /\ policy.admission = "auto" -> "propose_admit"
      [] OTHER -> "propose"

Owned(who, d, req) ==
    [req EXCEPT !.tenant = d.tenant, !.actor = who.principal.id, !.user = who.user]

AsksToWrite(op, req, subject) ==
    [Request(op) EXCEPT !.subject = subject, !.tenant = req.tenant, !.labels = req.labels,
                        !.scope = req.scope, !.user = req.user]

Remember(who, policy, records, req) ==
    LET subject == Subject(req.subject)
        kind == IF req.kind = None THEN "semantic" ELSE req.kind
        d == Decide(who, policy,
                    [AsksToWrite("remember", req, subject) EXCEPT !.kinds = {kind}])
        old == Show(who, policy, records, "revise", req.supersedes)
    IN  CASE d.code # "ok" -> d
          [] d.code = "ok" /\ req.supersedes # None /\ old.code # "ok" -> old
          [] d.code = "ok" /\ req.supersedes # None /\ old.code = "ok"
                /\ old.value.memory.subject # subject -> Failed("invalid")
          [] OTHER -> Done([call |-> "remember_with", entry |-> Entry(d.value, policy),
                            req |-> [Owned(who, d.value, req) EXCEPT !.subject = subject]])

(* What a revision does not name it takes from the record it revises.      *)
RevisedKind(req, old) == IF req.kind = None THEN old.kind ELSE req.kind
RevisedLabels(req, old) == IF req.labels = None THEN old.labels ELSE req.labels

Revise(who, policy, records, req) ==
    LET old == Show(who, policy, records, "revise", req.id)
        m == old.value.memory
        asked == OfRecord(Request("revise"), m)
        d == Decide(who, policy,
               [asked EXCEPT !.tenant = req.tenant, !.user = req.user,
                             !.kinds = {RevisedKind(req, m)},
                             !.labels = RevisedLabels(req, m),
                             !.scope = IF req.scope = None THEN @ ELSE req.scope])
    IN  CASE old.code # "ok" -> old
          [] old.code = "ok" /\ d.code # "ok" -> d
          [] OTHER -> Done([call |-> "revise_with", entry |-> Entry(d.value, policy),
                            req |-> Owned(who, d.value, req)])

(* A round is proposed or committed: no policy admits it.                  *)
Ingest(who, policy, req) ==
    LET subject == Subject(req.subject)
        d == Decide(who, policy,
                    [AsksToWrite("ingest", req, subject) EXCEPT !.kinds = {"episodic"}])
    IN  IF d.code # "ok" THEN d
        ELSE Done([call |-> "ingest_with",
                   entry |-> IF d.value.proposeOnly THEN "propose" ELSE "commit",
                   req |-> [Owned(who, d.value, req) EXCEPT !.subject = subject]])

(***************************************************************************)
(* Reads.                                                                  *)
(***************************************************************************)
KindsAsked(kinds) == IF kinds = None THEN {} ELSE kinds

RecallBy(who, policy, req) ==
    LET subject == Subject(req.subject)
        d == Decide(who, policy,
               [Request("recall") EXCEPT !.subject = subject, !.tenant = req.tenant,
                                         !.kinds = KindsAsked(req.kinds), !.scope = req.scope])
    IN  IF d.code # "ok" THEN d
        ELSE Done([call |-> "recall_with",
                   principal |-> who.principal.id,
                   user |-> who.user,
                   req |-> Constrained([req EXCEPT !.subject = subject], d.value)])

(* A recall's explanation is for the principal that recalled, or auditors. *)
Explain(who, policy, recalls, id) ==
    LET d == Decide(who, policy, Request("explain"))
        r == IF id \in DOMAIN recalls /\ recalls[id].tenant = who.principal.tenant
             THEN recalls[id] ELSE None
        auditor == Has(who, "AUDIT")
    IN  CASE d.code # "ok" -> d
          [] d.code = "ok" /\ r = None -> Failed("not_found")
          [] d.code = "ok" /\ r # None /\ r.principal # who.principal.id /\ ~auditor ->
               Failed("not_found")
          [] OTHER -> Done([call |-> "explain", record |-> r, auditor |-> auditor])

Get(who, policy, records, id) == Show(who, policy, records, "get", id)

(* list asks for a subject; the older list_offset, without one, for every  *)
(* subject, which takes the pattern "*".                                   *)
ListBy(who, policy, call, req) ==
    LET subject == IF call = "list_offset" /\ req.subject = None THEN "*" ELSE req.subject
        d == Decide(who, policy, [Request("list") EXCEPT !.subject = subject,
                                                        !.kinds = KindsAsked(req.kinds)])
    IN  IF d.code # "ok" THEN d
        ELSE Done([call |-> call,
                   query |-> [tenant |-> d.value.tenant,
                              subject |-> req.subject,
                              kinds |-> IF req.kinds = None /\ d.value.kinds # {}
                                        THEN d.value.kinds ELSE req.kinds,
                              inactive |-> req.inactive,
                              limit |-> Limit(req.limit, 1, 1000),
                              denied |-> d.value.denied,
                              scope |-> d.value.scope]])

Subjects(who, policy, all) ==
    LET d == Decide(who, policy, Request("subjects"))
    IN  IF d.code # "ok" THEN d
        ELSE Done(SelectSeq(all, LAMBDA s : MayUseSubject(who.principal, s)))

(* Operations that only need a permission and act on the caller's tenant.  *)
Plain == {"stats", "audit", "enrich_status", "whoami", "policy_read", "policy_propose",
          "policy_approve"}

PlainCall(who, policy, op) ==
    LET d == Decide(who, policy, Request(op))
    IN  IF d.code # "ok" THEN d
        ELSE Done([call |-> op, tenant |-> who.principal.tenant, by |-> who.principal.id])

(***************************************************************************)
(* forget: exactly one of what it may name.  A repeated forget with a      *)
(* request key finds the record gone and is left to the engine's answers.  *)
(***************************************************************************)
ForgetScopes == {"record", "subject", "user", "agent", "source", "tenant"}
ForgetOp == [record |-> "forget.record", subject |-> "forget.subject", user |-> "forget.user",
             agent |-> "forget.agent", source |-> "forget.source", tenant |-> "forget.tenant"]

ForgetOf(who, policy, records, req, scope) ==
    LET target == IF scope = "tenant" THEN None ELSE req.named[scope]
        op == ForgetOp[scope]
        asked == [Request(op) EXCEPT !.tenant = req.tenant, !.target = target]
        shown == Show(who, policy, records, op, target)
        gone == req.key # None /\ shown.code = "not_found"
        d == Decide(who, policy,
               CASE scope = "record" /\ shown.code = "ok" -> OfRecord(asked, shown.value.memory)
                 [] scope = "subject" -> [asked EXCEPT !.subject = target]
                 [] OTHER -> asked)
    IN  CASE scope = "record" /\ shown.code # "ok" /\ ~gone -> shown
          [] ~(scope = "record" /\ shown.code # "ok" /\ ~gone) /\ d.code # "ok" -> d
          [] OTHER -> Done([call |-> "forget_by", scope |-> scope, target |-> target,
                            tenant |-> d.value.tenant, actor |-> who.principal.id])

Forget(who, policy, records, req) ==
    LET named == {s \in ForgetScopes : req.named[s] # None}
    IN  IF Cardinality(named) # 1 THEN Failed("invalid")
        ELSE ForgetOf(who, policy, records, req, CHOOSE s \in named : TRUE)

(***************************************************************************)
(* relabel asks for the labels the record has and for those it gets.       *)
(***************************************************************************)
Relabel(who, policy, records, req) ==
    LET shown == Show(who, policy, records, "relabel", req.id)
        m == shown.value.memory
        d == Decide(who, policy, [OfRecord(Request("relabel"), m) EXCEPT
                                    !.labels = m.labels \cup req.labels])
    IN  CASE shown.code # "ok" -> shown
          [] shown.code = "ok" /\ d.code # "ok" -> d
          [] shown.code = "ok" /\ d.code = "ok" /\ ~req.wellFormed -> Failed("invalid")
          [] OTHER -> Done([call |-> "set_labels", tenant |-> who.principal.tenant,
                            id |-> req.id, labels |-> req.labels,
                            audit |-> "memory.relabel"])

Review(who, policy, records, req) ==
    LET shown == Show(who, policy, records, "review", req.id)
        d == Decide(who, policy, OfRecord(Request("review"), shown.value.memory))
    IN  CASE shown.code # "ok" -> shown
          [] shown.code = "ok" /\ d.code # "ok" -> d
          [] OTHER -> Done([call |-> IF req.action = "commit" THEN "admit" ELSE "reject",
                            tenant |-> who.principal.tenant, id |-> req.id,
                            by |-> who.principal.id])

(***************************************************************************)
(* issue_token: for which agent, for which user, with which permissions.   *)
(***************************************************************************)
ActiveAgent(p, a) == a # None /\ a.kind = "agent" /\ a.tenant = p.tenant /\ a.disabled = None

TokenAgent(p, asked, principals) ==
    CASE p.kind = "agent" /\ asked \in {None, p.id} -> Done(p)
      [] p.kind = "agent" /\ asked \notin {None, p.id} -> Failed("forbidden")
      [] p.kind # "agent" /\ asked = None -> Failed("invalid")
      [] OTHER -> IF ActiveAgent(p, principals[asked]) THEN Done(principals[asked])
                  ELSE Failed("not_found")

TokenUser(who, asked) ==
    LET kind == who.principal.kind
    IN  CASE kind = "user" /\ asked \notin {None, who.user} -> Failed("forbidden")
          [] kind = "agent" /\ asked \notin {None, who.user} /\ ~who.principal.actAs ->
               Failed("forbidden")
          [] kind = "user" /\ asked \in {None, who.user} -> Done(who.user)
          [] OTHER -> Done(IF asked = None THEN who.user ELSE asked)

Passable(who, agent) == (who.scopes \cap RolePermissions[agent.kind]) \ {"TOKEN"}

IssueToken(who, policy, principals, req) ==
    LET d == Decide(who, policy, Request("issue_token"))
        agent == TokenAgent(who.principal, req.agent, principals)
        user == TokenUser(who, req.user)
        passable == Passable(who, agent.value)
    IN  CASE d.code # "ok" -> d
          [] d.code = "ok" /\ agent.code # "ok" -> agent
          [] d.code = "ok" /\ agent.code = "ok" /\ user.code # "ok" -> user
          [] d.code = "ok" /\ agent.code = "ok" /\ user.code = "ok"
                /\ (who.key = None \/ (req.scopes # None /\ ~(req.scopes \subseteq passable))) ->
               Failed("forbidden")
          [] OTHER -> Done([agent |-> agent.value.id, tenant |-> agent.value.tenant,
                            user |-> user.value,
                            scopes |-> IF req.scopes = None THEN passable ELSE req.scopes,
                            key |-> who.key,
                            audit |-> "token.issue",
                            ttl |-> Limit(IF req.ttl = None THEN MaxTokenTtl ELSE req.ttl, 1,
                                          IF MaxTokenTtl < 3600 THEN MaxTokenTtl ELSE 3600)])
=============================================================================
