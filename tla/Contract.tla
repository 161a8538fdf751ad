------------------------------ MODULE Contract ------------------------------
(***************************************************************************)
(* The contract of API v1 (crates/memhouse-server/src/openapi.rs): which   *)
(* operations there are, what each may answer, and the check that a later  *)
(* document breaks no client of an earlier one.                            *)
(*                                                                         *)
(* Schemas are modelled as the generator makes them: a component is an     *)
(* object with properties, and a property is a leaf, which names what is   *)
(* deeper by reference; type, enum (with the constants of a oneOf) and     *)
(* alternatives (anyOf) are empty where the leaf has none.  A value is a   *)
(* record of what the check asks of it: the types and formats it has, its  *)
(* number and itself (value).                                              *)
(***************************************************************************)
EXTENDS Naturals, Sequences

Nothing == "nothing"            \* a key that a JSON object does not have

(***************************************************************************)
(* ops: the operations.  Every one that is not open also documents 403.    *)
(***************************************************************************)
Stable(id, method, path, traits, errors) ==
    [id |-> id, method |-> method, path |-> path, stability |-> "stable", traits |-> traits,
     errors |-> errors]

(* The errors that operations list, by what the operations do.             *)
Always == {401, 500}
Reading == {400, 401, 500}
Finding == {400, 401, 404, 500}
Storing == {400, 401, 409, 500, 503}
Replacing == {400, 401, 404, 409, 500, 503}
Changing == {400, 401, 404, 409, 500}
Keyed == {"idempotent"}

MemoryOps ==
    {Stable("remember", "post", "/v1/remember", Keyed, Storing),
     Stable("recall", "post", "/v1/recall", {}, Reading),
     Stable("revise", "post", "/v1/revise", Keyed, Replacing),
     Stable("forget", "post", "/v1/forget", Keyed, Changing),
     Stable("ingest", "post", "/v1/ingest", Keyed, Storing),
     Stable("getMemory", "get", "/v1/memories/:id", {}, Finding),
     Stable("listMemories", "get", "/v1/subjects/:subject/memories", {}, Reading),
     Stable("relabel", "post", "/v1/labels", {}, Finding)}

OtherStableOps ==
    {Stable("review", "post", "/v1/review", {}, Changing),
     Stable("issueToken", "post", "/v1/tokens", {}, Finding),
     Stable("whoami", "get", "/v1/whoami", {}, Always),
     Stable("explainRecall", "get", "/v1/recalls/:id/explanation", {}, Finding)}

PolicyOps ==
    {Stable("policies", "get", "/v1/policies", {}, Always),
     Stable("proposePolicy", "post", "/v1/policies", {}, Reading),
     Stable("validatePolicy", "post", "/v1/policies/validate", {}, Reading),
     Stable("diffPolicies", "post", "/v1/policies/diff", {}, Finding),
     Stable("approvePolicy", "post", "/v1/policies/:version/approve", {},
            Changing),
     Stable("rollbackPolicy", "post", "/v1/policies/rollback", {}, Finding)}

Preview(op) == [op EXCEPT !.stability = "preview"]

PreviewOps ==
    {Preview(Stable("metrics", "get", "/metrics", {}, Always)),
     Preview(Stable("listSubjects", "get", "/v1/subjects", {}, Always)),
     Preview(Stable("stats", "get", "/v1/stats", {}, Always)),
     Preview(Stable("audit", "get", "/v1/audit", {}, Always)),
     Preview(Stable("enrichStatus", "get", "/v1/enrich/status", {}, Always))}

Opened(op) == [op EXCEPT !.traits = {"open"}]

OpenOps ==
    {Opened(Stable("health", "get", "/health", {}, {})),
     Opened(Stable("openapi", "get", "/v1/openapi.json", {}, {}))}

Old(op) == [op EXCEPT !.stability = "deprecated"]

DeprecatedOps ==
    {Old(Stable("rememberLegacy", "post", "/v1/memories", Keyed, Storing)),
     Old(Stable("listMemoriesLegacy", "get", "/v1/memories", {}, Reading)),
     Old(Stable("reviseLegacy", "patch", "/v1/memories/:id", Keyed,
                Replacing)),
     Old(Stable("forgetLegacy", "delete", "/v1/memories/:id", {}, Finding)),
     Old(Stable("eraseSubjectLegacy", "delete", "/v1/subjects/:subject", {}, Always))}

Ops == MemoryOps \cup OtherStableOps \cup PolicyOps \cup PreviewOps \cup OpenOps \cup DeprecatedOps

(* DEPRECATED: the route that replaces each of the older ones.             *)
Successor(method, path) ==
    CASE method = "post" /\ path = "/v1/memories" -> "/v1/remember"
      [] method = "get" /\ path = "/v1/memories" -> "/v1/subjects/:subject/memories"
      [] method = "patch" /\ path = "/v1/memories/:id" -> "/v1/revise"
      [] method = "delete" /\ path = "/v1/memories/:id" -> "/v1/forget"
      [] method = "delete" /\ path = "/v1/subjects/:subject" -> "/v1/forget"
      [] OTHER -> Nothing

(* spec: the statuses and the headers an operation is published with.      *)
Documented(op) == {200} \cup op.errors \cup (IF "open" \in op.traits THEN {} ELSE {403})

Headers(op) ==
    (IF "open" \in op.traits THEN {} ELSE {"x-memhouse-user"})
      \cup (IF "idempotent" \in op.traits THEN {"Idempotency-Key"} ELSE {})
      \cup (IF "open" \notin op.traits /\ op.method # "get" THEN {"x-memhouse-actor"} ELSE {})

(***************************************************************************)
(* check: does a value fit a schema.  fits holds the pairs of a component  *)
(* and a value that fits it.                                               *)
(***************************************************************************)
FitsPlain(leaf, v, fits) ==
    /\ leaf.ref = Nothing \/ <<leaf.ref, v.value>> \in fits
    /\ leaf.type = {} \/ v.types \cap leaf.type # {}
    /\ leaf.enum = {} \/ v.value \in leaf.enum
    /\ leaf.format = Nothing \/ leaf.format \in v.formats
    /\ v.number = Nothing \/ (/\ leaf.minimum = Nothing \/ v.number >= leaf.minimum
                              /\ leaf.maximum = Nothing \/ v.number <= leaf.maximum)

FitsLeaf(leaf, v, fits) ==
    /\ FitsPlain(leaf, v, fits)
    /\ \/ leaf.alternatives = <<>>
       \/ \E i \in DOMAIN leaf.alternatives : FitsPlain(leaf.alternatives[i], v, fits)

(* An object: v is a function from the keys it has.  A key that the schema *)
(* does not name may have any value.                                       *)
FitsObject(schema, v, fits) ==
    /\ schema.required \subseteq DOMAIN v
    /\ \A k \in DOMAIN v \cap DOMAIN schema.properties :
         FitsLeaf(schema.properties[k], v[k], fits)

(***************************************************************************)
(* compare: what breaks between two versions of a schema.  Bounds are not  *)
(* compared, nor an enum or alternatives where there were none before.     *)
(***************************************************************************)
SamePlain(a, b) ==
    /\ a.ref = b.ref /\ a.type = b.type /\ a.format = b.format
    /\ a.enum \subseteq b.enum

SameLeaf(a, b) ==
    /\ SamePlain(a, b)
    /\ a.alternatives # <<>> =>
         /\ Len(a.alternatives) = Len(b.alternatives)
         /\ \A i \in DOMAIN a.alternatives : SamePlain(a.alternatives[i], b.alternatives[i])

SameObject(a, b) ==
    /\ a.required = b.required
    /\ DOMAIN a.properties \subseteq DOMAIN b.properties
    /\ \A k \in DOMAIN a.properties : SameLeaf(a.properties[k], b.properties[k])

(***************************************************************************)
(* breaking_changes: a document has operations (params, body, ok), by      *)
(* route, and components, by name.                                         *)
(***************************************************************************)
Required(op) == {p.name : p \in {q \in op.params : q.required}}
Named(op) == {p.name : p \in op.params}

SameOperation(a, b) ==
    /\ Named(a) \subseteq Named(b)
    /\ Required(b) \subseteq Required(a)
    /\ (a.body = Nothing) = (b.body = Nothing)
    /\ a.body # Nothing => SamePlain(a.body, b.body)
    /\ a.ok # Nothing /\ b.ok # Nothing => SamePlain(a.ok, b.ok)

BreaksNothing(old, new) ==
    /\ DOMAIN old.operations \subseteq DOMAIN new.operations
    /\ \A r \in DOMAIN old.operations : SameOperation(old.operations[r], new.operations[r])
    /\ DOMAIN old.components \subseteq DOMAIN new.components
    /\ \A c \in DOMAIN old.components : SameObject(old.components[c], new.components[c])
=============================================================================
