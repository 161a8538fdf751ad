------------------------------- MODULE Tools -------------------------------
(***************************************************************************)
(* The MCP server (crates/memhouse-server/src/mcp.rs, with mcp_http of     *)
(* lib.rs): JSON-RPC messages that list and call the tools, over stdio or  *)
(* HTTP, by a caller that is verified once.                                *)
(*                                                                         *)
(* The arguments of a call are a function from the names the model sent;   *)
(* an argument that is null is not in its domain.                          *)
(***************************************************************************)
EXTENDS Server

(***************************************************************************)
(* build_tools: the arguments of each tool, and those it cannot do without.*)
(***************************************************************************)
V1Tools == {"recall", "remember", "revise", "forget", "ingest", "list_memories"}

Arguments ==
    [recall |-> {"query", "subject", "k", "kinds", "tags", "scope", "as_of", "token_budget",
                 "include_candidates", "exact"},
     remember |-> {"content", "kind", "subject", "tags", "occurred_at", "valid_to", "expires_at",
                   "labels", "scope", "request_key", "wait"},
     revise |-> {"id", "content", "kind", "tags", "valid_to", "request_key", "wait"},
     forget |-> {"id", "subject", "user", "agent", "source", "dry_run", "request_key"},
     ingest |-> {"messages", "session_id", "session_time", "subject", "request_key", "wait"},
     list_memories |-> {"subject", "kinds", "limit", "cursor"}]

Needed ==
    [recall |-> {"query"}, remember |-> {"content"}, revise |-> {"id", "content"}, forget |-> {},
     ingest |-> {"messages"}, list_memories |-> {}]

(* request: only the tool's own arguments are read.  wellTyped tells       *)
(* whether those decode as the fields of the request.                      *)
Picked(name, args) == [a \in DOMAIN args \cap Arguments[name] |-> args[a]]

Read(name, args, wellTyped) ==
    IF Needed[name] \subseteq DOMAIN args /\ wellTyped THEN Done(Picked(name, args))
    ELSE Failed("invalid")

From(body, field, value) ==
    [f \in DOMAIN body \cup {field} |-> IF f = field THEN value ELSE body[f]]

(***************************************************************************)
(* call_v1: each tool is the REST operation on what was read; what it      *)
(* writes comes from "mcp".  list_memories decodes by hand: an unknown     *)
(* kind is an uncoded error whose message none of code_of's phrases is in. *)
(***************************************************************************)
ListTool(who, policy, args) ==
    LET kinds == Given(args, "kinds")
        limit == Limit(GivenOr(args, "limit", 20), 1, 100)
    IN  IF kinds # None /\ ~(kinds \subseteq Kinds) THEN Failed("internal")
        ELSE ListBy(who, policy, "list",
                    [subject |-> Subject(Given(args, "subject")), kinds |-> kinds,
                     inactive |-> FALSE, limit |-> limit])

CallV1(who, policy, records, name, args, wellTyped) ==
    LET body == Read(name, args, wellTyped)
    IN  CASE name = "list_memories" -> ListTool(who, policy, args)
          [] name # "list_memories" /\ body.code # "ok" -> body
          [] name = "recall" /\ body.code = "ok" ->
               RecallBy(who, policy, RecallRequest(body.value))
          [] name = "remember" /\ body.code = "ok" ->
               Remember(who, policy, records, RememberRequest(From(body.value, "source", "mcp")))
          [] name = "revise" /\ body.code = "ok" ->
               Revise(who, policy, records, ReviseRequest(body.value))
          [] name = "forget" /\ body.code = "ok" ->
               Forget(who, policy, records, ForgetRequest(body.value))
          [] name = "ingest" /\ body.code = "ok" ->
               Ingest(who, policy, IngestRequest(From(body.value, "source", "mcp")))

(***************************************************************************)
(* legacy_tools and call_legacy: callable under their names whether listed *)
(* or not.  Their writes wait; a forget of what is not there is no error.  *)
(***************************************************************************)
Replaces ==
    [memory_recall |-> "recall", memory_remember |-> "remember", memory_update |-> "revise",
     memory_forget |-> "forget", memory_log_conversation |-> "ingest",
     memory_list |-> "list_memories"]

LegacyArguments ==
    [memory_recall |-> {"query", "subject", "k", "kinds", "tags", "as_of"},
     memory_remember |-> {"content", "kind", "subject", "tags", "occurred_at", "valid_to"},
     memory_update |-> {"id", "content"},
     memory_forget |-> {"id"},
     memory_log_conversation |-> {"messages", "session_id", "subject"},
     memory_list |-> {"subject", "kinds", "limit"}]

(* wrong is the argument that does not decode, or None.  The messages for  *)
(* ids and kinds have no phrase that code_of knows; those for times do,    *)
(* and the messages of a conversation are decoded as JSON.                 *)
LegacyRead(name, args, wrong) ==
    LET missing == (Needed[Replaces[name]] \ {"messages"}) \ DOMAIN args
    IN  CASE "id" \in missing -> Failed("invalid")
          [] "id" \notin missing /\ wrong = "id" -> Failed("internal")
          [] "id" \notin missing /\ wrong # "id" /\ missing # {} -> Failed("invalid")
          [] missing = {} /\ wrong \in {"kind", "kinds"} -> Failed("internal")
          [] missing = {} /\ wrong \notin {"id", "kind", "kinds", None} -> Failed("invalid")
          [] OTHER -> Done([a \in DOMAIN args \cap LegacyArguments[name] |-> args[a]])

Waits(body) == From(body, "wait", TRUE)

CallLegacy(who, policy, records, name, args, wrong) ==
    LET body == LegacyRead(name, args, wrong)
        gone == Forget(who, policy, records, ForgetRequest(body.value))
    IN  CASE body.code # "ok" -> body
          [] name = "memory_recall" /\ body.code = "ok" ->
               RecallBy(who, policy, RecallRequest(body.value))
          [] name = "memory_remember" /\ body.code = "ok" ->
               Remember(who, policy, records,
                        RememberRequest(From(Waits(body.value), "source", "mcp")))
          [] name = "memory_update" /\ body.code = "ok" ->
               Revise(who, policy, records, ReviseRequest(Waits(body.value)))
          [] name = "memory_forget" /\ body.code = "ok" ->
               IF gone.code = "not_found" THEN Done([deleted |-> FALSE]) ELSE gone
          [] name = "memory_log_conversation" /\ body.code = "ok" ->
               Ingest(who, policy, IngestRequest(From(Waits(body.value), "source", "mcp")))
          [] name = "memory_list" /\ body.code = "ok" ->
               ListBy(who, policy, "list_offset",
                      [subject |-> Subject(Given(body.value, "subject")),
                       kinds |-> Given(body.value, "kinds"), inactive |-> FALSE,
                       limit |-> Limit(GivenOr(body.value, "limit", 20), 1, 100)])

CallTool(who, policy, records, name, args, wrong) ==
    IF name \in V1Tools THEN CallV1(who, policy, records, name, args, wrong = None)
    ELSE IF name \in DOMAIN Replaces THEN CallLegacy(who, policy, records, name, args, wrong)
    ELSE Failed("internal")

(***************************************************************************)
(* handle: a message without an id is not answered, nor carried out.  A    *)
(* failed tool is a result that says so; only an unknown method is an      *)
(* error of the protocol.                                                  *)
(***************************************************************************)
Methods == {"initialize", "ping", "tools/list", "resources/list", "resources/templates/list",
            "prompts/list", "tools/call"}

Listing(legacyListed) == V1Tools \cup (IF legacyListed THEN DOMAIN Replaces ELSE {})

Handle(msg, outcome) ==
    CASE msg.id = None -> None
      [] msg.id # None /\ msg.method \notin Methods -> [id |-> msg.id, error |-> "unknown method"]
      [] msg.id # None /\ msg.method = "tools/call" ->
           [id |-> msg.id, isError |-> outcome.code # "ok", result |-> outcome]
      [] OTHER -> [id |-> msg.id, isError |-> FALSE, result |-> msg.method]

(* mcp_http and serve_stdio: the answers to a batch, in its order.         *)
Batch(msgs, outcomes) ==
    SelectSeq([i \in DOMAIN msgs |-> Handle(msgs[i], outcomes[i])], LAMBDA r : r # None)

(* An unparsable line is answered on stdio and refused by HTTP, where a    *)
(* batch with nothing to answer is only acknowledged (202).                *)
HttpStatusOf(parses, answers) ==
    CASE ~parses -> HttpStatus["invalid"]
      [] parses /\ answers = <<>> -> 202
      [] OTHER -> 200

StdioLines(parses, answers) ==
    IF parses THEN answers ELSE <<[id |-> None, error |-> "parse error"]>>
=============================================================================
