------------------------------- MODULE Server -------------------------------
(***************************************************************************)
(* The REST API (crates/memhouse-server/src/lib.rs, with the codes of      *)
(* crates/memhouse-core/src/error.rs): how a request becomes an operation  *)
(* of its caller, and how the operation's outcome becomes a response.      *)
(*                                                                         *)
(* A body is a function from the fields the client sent; an error of the   *)
(* engine is what code_of looks at: the code it carries, whether it comes  *)
(* from decoding JSON, and which phrases its message has (says).           *)
(***************************************************************************)
EXTENDS Callers, Contract

(***************************************************************************)
(* error.rs.                                                               *)
(***************************************************************************)
HttpStatus == [ok |-> 200, invalid |-> 400, unauthorized |-> 401, forbidden |-> 403,
               not_found |-> 404, conflict |-> 409, internal |-> 500, unavailable |-> 503]

CodeOf(e) ==
    CASE e.coded # None -> e.coded
      [] e.coded = None /\ e.json -> "invalid"
      [] e.coded = None /\ ~e.json /\ "not found" \in e.says -> "not_found"
      [] e.coded = None /\ ~e.json /\ "not found" \notin e.says
            /\ e.says \cap {"required", "limit is", "empty", "expected"} # {} -> "invalid"
      [] OTHER -> "internal"

(* ApiError into_response: only a refusal for now says when to come back.  *)
Reply(code) == [status |-> HttpStatus[code], retryAfter |-> code = "unavailable"]

(***************************************************************************)
(* What every request passes before its handler: the router, the           *)
(* credential, the decoding of path, query and body, the idempotency key.  *)
(* A header that is not there is None.                                     *)
(***************************************************************************)
Route(method, path) == {op \in Ops : op.method = method /\ op.path = path}

Credential(headers) ==
    LET stated == IF headers.bearer # None THEN headers.bearer ELSE headers.apiKey
    IN  IF stated = "" THEN None ELSE stated

(* auth: identity is what authenticate answers to the credential.          *)
Authenticated(headers, identity) ==
    IF Credential(headers) # None /\ identity.code = "ok" THEN identity
    ELSE DeniedBy("unauthorized", "auth.failed")

RequestKey(header, key) ==
    CASE header = None -> Done(key)
      [] header # None /\ ~header.ascii -> Failed("invalid")
      [] header # None /\ header.ascii /\ key \notin {None, header.value} -> Failed("invalid")
      [] OTHER -> Done(header.value)

(* req: method, path, headers, whether it decodes, and the body's key.     *)
Admit(req, identity) ==
    LET who == Authenticated(req.headers, identity)
        key == RequestKey(req.headers.key, req.key)
        ops == Route(req.method, req.path)
        Is(trait) == \E op \in ops : trait \in op.traits
    IN  IF ops = {} THEN Failed("not_found")
        ELSE IF Is("open") THEN Done(None)
        ELSE CASE who.code # "ok" -> who
               [] who.code = "ok" /\ ~req.decodes -> Failed("invalid")
               [] who.code = "ok" /\ req.decodes /\ Is("idempotent") /\ key.code # "ok" -> key
               [] OTHER -> who

(* deprecation: the headers of the routes from before v1.                  *)
Announces(op) ==
    IF Successor(op.method, op.path) = Nothing THEN {} ELSE {"deprecation", "sunset", "link"}

(***************************************************************************)
(* Decoding: a body as the request type of an operation.                   *)
(***************************************************************************)
Given(body, field) == IF field \in DOMAIN body THEN body[field] ELSE None
GivenOr(body, field, default) == IF field \in DOMAIN body THEN body[field] ELSE default

RememberRequest(body) ==
    [tenant |-> Given(body, "tenant"), subject |-> Given(body, "subject"),
     kind |-> Given(body, "kind"), labels |-> GivenOr(body, "labels", {}),
     scope |-> Given(body, "scope"), user |-> Given(body, "user"),
     supersedes |-> Given(body, "supersedes"), source |-> Given(body, "source"),
     actor |-> Given(body, "actor"), wait |-> GivenOr(body, "wait", FALSE)]

ReviseRequest(body) ==
    [id |-> body.id, tenant |-> Given(body, "tenant"), kind |-> Given(body, "kind"),
     labels |-> Given(body, "labels"), scope |-> Given(body, "scope"),
     user |-> Given(body, "user"), actor |-> Given(body, "actor"),
     wait |-> GivenOr(body, "wait", FALSE)]

IngestRequest(body) ==
    [tenant |-> Given(body, "tenant"), subject |-> Given(body, "subject"),
     labels |-> GivenOr(body, "labels", {}), scope |-> Given(body, "scope"),
     user |-> Given(body, "user"), source |-> Given(body, "source"),
     actor |-> Given(body, "actor"), wait |-> GivenOr(body, "wait", FALSE)]

ForgetRequest(body) ==
    [tenant |-> Given(body, "tenant"), key |-> Given(body, "request_key"),
     named |-> [record |-> Given(body, "id"), subject |-> Given(body, "subject"),
                user |-> Given(body, "user"), agent |-> Given(body, "agent"),
                source |-> Given(body, "source"),
                tenant |-> IF GivenOr(body, "all", FALSE) THEN "all" ELSE None]]

RecallRequest(body) ==
    [tenant |-> Given(body, "tenant"), subject |-> Given(body, "subject"),
     kinds |-> Given(body, "kinds"), tags |-> Given(body, "tags"),
     denied |-> {}, scope |-> Given(body, "scope"), asOf |-> Given(body, "as_of"),
     candidates |-> GivenOr(body, "include_candidates", FALSE), k |-> Given(body, "k"),
     budget |-> Given(body, "token_budget")]

(***************************************************************************)
(* The handlers that do more than hand the request on.  The older writes   *)
(* wait for the gate; an unknown kind fails the list and is no kind in the *)
(* older one.                                                              *)
(***************************************************************************)
RememberLegacy(who, policy, records, body) ==
    Remember(who, policy, records, [RememberRequest(body) EXCEPT !.wait = TRUE])

Update(who, policy, records, id) ==
    Revise(who, policy, records, [ReviseRequest([id |-> id]) EXCEPT !.wait = TRUE])

ForgetLegacy(who, policy, records, id) ==
    Forget(who, policy, records, ForgetRequest([id |-> id]))

EraseSubject(who, policy, records, subject) ==
    Forget(who, policy, records, ForgetRequest([subject |-> subject]))

Kinds == {"working", "episodic", "semantic", "preference", "procedural", "commitment", "document"}

ListPage(who, policy, subject, params) ==
    LET kinds == Given(params, "kinds")
    IN  IF kinds # None /\ ~(kinds \subseteq Kinds) THEN Failed("invalid")
        ELSE ListBy(who, policy, "list",
                    [subject |-> subject, kinds |-> kinds,
                     inactive |-> GivenOr(params, "include_inactive", FALSE),
                     limit |-> GivenOr(params, "limit", 50)])

ListLegacy(who, policy, params) ==
    LET kind == Given(params, "kind")
    IN  ListBy(who, policy, "list_offset",
               [subject |-> Given(params, "subject"),
                kinds |-> IF kind \in Kinds THEN {kind} ELSE None,
                inactive |-> GivenOr(params, "all", FALSE),
                limit |-> GivenOr(params, "limit", 50)])

AuditPage(who, policy, params) ==
    LET called == PlainCall(who, policy, "audit")
    IN  IF called.code # "ok" THEN called
        ELSE Done([call |-> "audit_log", limit |-> Limit(GivenOr(params, "limit", 100), 1, 1000)])

(***************************************************************************)
(* build_engine and serve: what has to succeed, in order, before a process *)
(* serves, and which workers it then runs.  The start of a re-embedding    *)
(* does not ask which model the stored vectors are of.                     *)
(***************************************************************************)
ServeSteps == <<"floor", "embedder", "dimension", "reranker", "connect", "migrate", "chat",
                "classifier", "policy">>
ReembedSteps == <<"embedder", "dimension", "connect">>

FailsAt(steps, failing) ==
    IF \A i \in DOMAIN steps : steps[i] \notin failing THEN None
    ELSE steps[CHOOSE i \in DOMAIN steps :
                 steps[i] \in failing /\ \A j \in 1 .. i - 1 : steps[j] \notin failing]

Workers(cfg) ==
    [intake |-> cfg.intakeWorkers,
     enrich |-> IF cfg.enrichEnabled /\ cfg.chat THEN cfg.enrichWorkers ELSE 0]
=============================================================================
