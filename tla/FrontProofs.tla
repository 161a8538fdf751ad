---------------------------- MODULE FrontProofs -----------------------------
(***************************************************************************)
(* What the front ends promise their clients, what the authorization seam  *)
(* behind them guarantees for every caller, request, policy and record,    *)
(* and who it takes a caller for: theorems about Contract, Server, Tools,  *)
(* Access, Recall and Callers, and in the second half about Identity beside *)
(* an operator's commands.                                                 *)
(***************************************************************************)
EXTENDS Tools, Callers, Identity, FiniteSetTheorems, TLAPS

LEMMA DecideCodes ==
    ASSUME NEW who, NEW policy, NEW req
    PROVE  Decide(who, policy, req).code \in {"ok", "forbidden"}
  BY DEF Decide, DeniedBy, Done

LEMMA ShowCodes ==
    ASSUME NEW who, NEW policy, NEW records, NEW op, NEW id
    PROVE  Show(who, policy, records, op, id).code \in {"ok", "forbidden", "not_found"}
<1> DEFINE m == Lookup(who, records, id)
           d == Authorize(who, OfRecord(Request(op), m))
<1>1. ShowRecord(who, policy, op, m).code \in {"ok", "forbidden", "not_found"}
  <2>1. CASE ~d.allowed
    <3>1. ShowRecord(who, policy, op, m) =
            DeniedBy(IF d.rule = "permission" THEN "forbidden" ELSE "not_found", d.rule)
      BY <2>1 DEF ShowRecord
    <3> QED
      BY <3>1 DEF DeniedBy
  <2>2. CASE d.allowed
    BY <2>2 DEF ShowRecord, Failed, Done
  <2> QED
    BY <2>1, <2>2
<1>2. Decide(who, policy, Request(op)).code \in {"ok", "forbidden"}
  BY DecideCodes
<1> HIDE DEF m, d
<1>3. CASE Decide(who, policy, Request(op)).code # "ok"
  BY <1>2, <1>3 DEF Show, m
<1>4. CASE Decide(who, policy, Request(op)).code = "ok"
  BY <1>1, <1>4 DEF Show, m, Failed
<1> QED
  BY <1>3, <1>4

LEMMA ForgetCodes ==
    ASSUME NEW who, NEW policy, NEW records, NEW req
    PROVE  Forget(who, policy, records, req).code \in {"ok", "forbidden", "not_found", "invalid"}
<1>1. ASSUME NEW scope
      PROVE  ForgetOf(who, policy, records, req, scope).code \in {"ok", "forbidden", "not_found"}
  BY DecideCodes, ShowCodes DEF ForgetOf, Done
<1> QED
  BY <1>1 DEF Forget, Failed

(* The operations that may be refused, refused as invalid, and answered    *)
(* that there is no such thing.                                            *)
Declined(op) ==
    op.id \in {"remember", "rememberLegacy", "revise", "reviseLegacy", "ingest", "recall",
               "explainRecall", "getMemory", "listMemories", "listMemoriesLegacy", "forget",
               "forgetLegacy", "relabel", "review", "issueToken"}
Invalid(op) ==
    op.id \in {"remember", "rememberLegacy", "forget", "forgetLegacy", "relabel", "issueToken"}
Missing(op) ==
    op.id \in {"revise", "reviseLegacy", "explainRecall", "getMemory", "forget", "forgetLegacy",
               "relabel", "review", "issueToken"}

LEMMA StableShape ==
    ASSUME NEW id, NEW method, NEW path, NEW traits, NEW errors
    PROVE  /\ Stable(id, method, path, traits, errors).id = id
           /\ Stable(id, method, path, traits, errors).errors = errors
           /\ Stable(id, method, path, traits, errors).traits = traits
  BY DEF Stable

LEMMA PreviewShape ==
    ASSUME NEW id, NEW method, NEW path, NEW traits, NEW errors
    PROVE  /\ Preview(Stable(id, method, path, traits, errors)).id = id
           /\ Preview(Stable(id, method, path, traits, errors)).errors = errors
           /\ Preview(Stable(id, method, path, traits, errors)).traits = traits
  BY DEF Stable, Preview

LEMMA OldShape ==
    ASSUME NEW id, NEW method, NEW path, NEW traits, NEW errors
    PROVE  /\ Old(Stable(id, method, path, traits, errors)).id = id
           /\ Old(Stable(id, method, path, traits, errors)).errors = errors
           /\ Old(Stable(id, method, path, traits, errors)).traits = traits
  BY DEF Stable, Old

LEMMA OpenedShape ==
    ASSUME NEW id, NEW method, NEW path, NEW traits, NEW errors
    PROVE  /\ Opened(Stable(id, method, path, traits, errors)).id = id
           /\ Opened(Stable(id, method, path, traits, errors)).errors = errors
  BY DEF Stable, Opened

LEMMA ErrorsListed ==
    ASSUME NEW op \in Ops
    PROVE  /\ Declined(op) => "open" \notin op.traits
           /\ Invalid(op) => 400 \in op.errors
           /\ Missing(op) => 404 \in op.errors
<1>0. /\ "open" \notin Keyed
      /\ 400 \in Reading /\ 400 \in Finding /\ 400 \in Storing
      /\ 400 \in Replacing /\ 400 \in Changing
      /\ 404 \in Finding /\ 404 \in Replacing /\ 404 \in Changing
  BY DEF Keyed, Reading, Finding, Storing, Replacing, Changing
<1>1. CASE op \in MemoryOps
  BY <1>0, <1>1, StableShape DEF MemoryOps, Declined, Invalid, Missing
<1>2. CASE op \in OtherStableOps
  BY <1>0, <1>2, StableShape DEF OtherStableOps, Declined, Invalid, Missing
<1>3. CASE op \in PolicyOps
  BY <1>0, <1>3, StableShape DEF PolicyOps, Declined, Invalid, Missing
<1>4. CASE op \in PreviewOps
  BY <1>0, <1>4, PreviewShape DEF PreviewOps, Declined, Invalid, Missing
<1>5. CASE op \in OpenOps
  BY <1>0, <1>5, OpenedShape DEF OpenOps, Declined, Invalid, Missing
<1>6. CASE op \in DeprecatedOps
  BY <1>0, <1>6, OldShape DEF DeprecatedOps, Declined, Invalid, Missing
<1> QED
  BY <1>1, <1>2, <1>3, <1>4, <1>5, <1>6 DEF Ops

(***************************************************************************)
(* server lib.rs and caller.rs against openapi.rs: whatever a request      *)
(* states, its refusal by the access layer has a status that the published *)
(* document lists for the operation.  Only a write that names a memory it  *)
(* supersedes can be answered 404 without a word of it in the document.    *)
(***************************************************************************)
THEOREM RefusalsDocumented ==
    ASSUME NEW who, NEW policy, NEW records, NEW recalls, NEW everyone, NEW req, NEW id,
           NEW op \in Ops, NEW out,
           \/ op.id \in {"remember", "rememberLegacy"} /\ out = Remember(who, policy, records, req)
                /\ req.supersedes = None
           \/ op.id \in {"revise", "reviseLegacy"} /\ out = Revise(who, policy, records, req)
           \/ op.id = "ingest" /\ out = Ingest(who, policy, req)
           \/ op.id = "recall" /\ out = RecallBy(who, policy, req)
           \/ op.id = "explainRecall" /\ out = Explain(who, policy, recalls, id)
           \/ op.id = "getMemory" /\ out = Get(who, policy, records, id)
           \/ op.id \in {"listMemories", "listMemoriesLegacy"}
                /\ \E call \in {"list", "list_offset"} : out = ListBy(who, policy, call, req)
           \/ op.id \in {"forget", "forgetLegacy"} /\ out = Forget(who, policy, records, req)
           \/ op.id = "relabel" /\ out = Relabel(who, policy, records, req)
           \/ op.id = "review" /\ out = Review(who, policy, records, req)
           \/ op.id = "issueToken" /\ out = IssueToken(who, policy, everyone, req)
    PROVE  HttpStatus[out.code] \in Documented(op)
<1>1. /\ Declined(op) => "open" \notin op.traits
      /\ Invalid(op) => 400 \in op.errors
      /\ Missing(op) => 404 \in op.errors
  BY ErrorsListed
<1>2. ASSUME "open" \notin op.traits, out.code \in {"ok", "forbidden"}
      PROVE  HttpStatus[out.code] \in Documented(op)
  BY <1>2 DEF HttpStatus, Documented
<1>3. ASSUME 400 \in op.errors, out.code = "invalid"
      PROVE  HttpStatus[out.code] \in Documented(op)
  BY <1>3 DEF HttpStatus, Documented
<1>4. ASSUME 404 \in op.errors, out.code = "not_found"
      PROVE  HttpStatus[out.code] \in Documented(op)
  BY <1>4 DEF HttpStatus, Documented
<1>5. CASE op.id \in {"remember", "rememberLegacy"} /\ out = Remember(who, policy, records, req)
             /\ req.supersedes = None
  <2>1. out.code \in {"ok", "forbidden", "invalid"}
    BY <1>5, DecideCodes DEF Remember, Done, Failed
  <2> QED
    BY <1>1, <1>2, <1>3, <1>5, <2>1 DEF Declined, Invalid
<1>6. CASE op.id \in {"revise", "reviseLegacy"} /\ out = Revise(who, policy, records, req)
  <2>1. out.code \in {"ok", "forbidden", "not_found"}
    <3> DEFINE old == Show(who, policy, records, "revise", req.id)
    <3>1. old.code \in {"ok", "forbidden", "not_found"}
      BY ShowCodes
    <3>2. CASE old.code # "ok"
      BY <1>6, <3>1, <3>2, Zenon DEF Revise
    <3>3. CASE old.code = "ok"
      BY <1>6, <3>3, DecideCodes, Zenon DEF Revise, Done
    <3> QED
      BY <3>2, <3>3
  <2> QED
    BY <1>1, <1>2, <1>4, <1>6, <2>1 DEF Declined, Invalid, Missing
<1>7. CASE op.id = "ingest" /\ out = Ingest(who, policy, req)
  <2>1. out.code \in {"ok", "forbidden"}
    BY <1>7, DecideCodes DEF Ingest, Done
  <2> QED
    BY <1>1, <1>2, <1>7, <2>1 DEF Declined, Invalid, Missing
<1>8. CASE op.id = "recall" /\ out = RecallBy(who, policy, req)
  <2>1. out.code \in {"ok", "forbidden"}
    BY <1>8, DecideCodes DEF RecallBy, Done
  <2> QED
    BY <1>1, <1>2, <1>8, <2>1 DEF Declined, Invalid, Missing
<1>9. CASE op.id = "explainRecall" /\ out = Explain(who, policy, recalls, id)
  <2>1. out.code \in {"ok", "forbidden", "not_found"}
    BY <1>9, DecideCodes DEF Explain, Done, Failed
  <2> QED
    BY <1>1, <1>2, <1>4, <1>9, <2>1 DEF Declined, Invalid, Missing
<1>10. CASE op.id = "getMemory" /\ out = Get(who, policy, records, id)
  <2>1. out.code \in {"ok", "forbidden", "not_found"}
    BY <1>10, ShowCodes DEF Get
  <2> QED
    BY <1>1, <1>2, <1>4, <1>10, <2>1 DEF Declined, Invalid, Missing
<1>11. CASE op.id \in {"listMemories", "listMemoriesLegacy"}
              /\ \E call \in {"list", "list_offset"} : out = ListBy(who, policy, call, req)
  <2>1. out.code \in {"ok", "forbidden"}
    <3>1. PICK call \in {"list", "list_offset"} : out = ListBy(who, policy, call, req)
      BY <1>11
    <3> QED
      BY <3>1, DecideCodes, Zenon DEF ListBy, Done
  <2> QED
    BY <1>1, <1>2, <1>11, <2>1 DEF Declined, Invalid, Missing
<1>12. CASE op.id \in {"forget", "forgetLegacy"} /\ out = Forget(who, policy, records, req)
  <2>1. out.code \in {"ok", "forbidden", "not_found", "invalid"}
    BY <1>12, ForgetCodes
  <2> QED
    BY <1>1, <1>2, <1>3, <1>4, <1>12, <2>1 DEF Declined, Invalid, Missing
<1>13. CASE op.id = "relabel" /\ out = Relabel(who, policy, records, req)
  <2>1. out.code \in {"ok", "forbidden", "not_found", "invalid"}
    BY <1>13, DecideCodes, ShowCodes DEF Relabel, Done, Failed
  <2> QED
    BY <1>1, <1>2, <1>3, <1>4, <1>13, <2>1 DEF Declined, Invalid, Missing
<1>14. CASE op.id = "review" /\ out = Review(who, policy, records, req)
  <2>1. out.code \in {"ok", "forbidden", "not_found"}
    BY <1>14, DecideCodes, ShowCodes DEF Review, Done
  <2> QED
    BY <1>1, <1>2, <1>4, <1>14, <2>1 DEF Declined, Invalid, Missing
<1>15. CASE op.id = "issueToken" /\ out = IssueToken(who, policy, everyone, req)
  <2>1. TokenAgent(who.principal, req.agent, everyone).code
          \in {"ok", "forbidden", "invalid", "not_found"}
    BY DEF TokenAgent, Done, Failed
  <2>2. TokenUser(who, req.user).code \in {"ok", "forbidden"}
    BY DEF TokenUser, Done, Failed
  <2>3. out.code \in {"ok", "forbidden", "not_found", "invalid"}
    BY <1>15, <2>1, <2>2, DecideCodes DEF IssueToken, Done, Failed
  <2> QED
    BY <1>1, <1>2, <1>3, <1>4, <1>15, <2>3 DEF Declined, Invalid, Missing
<1> QED
  BY <1>5, <1>6, <1>7, <1>8, <1>9, <1>10, <1>11, <1>12, <1>13, <1>14, <1>15

(***************************************************************************)
(* mcp.rs request and build_tools: no tool call, of either generation and  *)
(* with whatever arguments, forgets a whole tenant.  That takes the field  *)
(* "all", which no tool reads.                                             *)
(***************************************************************************)
THEOREM NoToolForgetsATenant ==
    ASSUME NEW who, NEW policy, NEW records, NEW args, NEW wrong,
           NEW name \in {"forget", "memory_forget"},
           NEW out, out = CallTool(who, policy, records, name, args, wrong),
           out.code = "ok"
    PROVE  out.value = [deleted |-> FALSE] \/ out.value.scope # "tenant"
<1>1. ASSUME NEW body, "all" \notin DOMAIN body,
             Forget(who, policy, records, ForgetRequest(body)).code = "ok"
      PROVE  Forget(who, policy, records, ForgetRequest(body)).value.scope # "tenant"
  <2> DEFINE req == ForgetRequest(body)
             named == {s \in ForgetScopes : req.named[s] # None}
             scope == CHOOSE s \in named : TRUE
  <2>1. req.named["tenant"] = None
    BY <1>1 DEF ForgetRequest, GivenOr
  <2>2. Cardinality(named) = 1
    BY <1>1 DEF Forget, Failed
  <2>3. named # {}
    BY <2>2, FS_EmptySet
  <2>4. scope \in named /\ scope # "tenant"
    BY <2>1, <2>3
  <2>5. Forget(who, policy, records, req) = ForgetOf(who, policy, records, req, scope)
    BY <2>2 DEF Forget
  <2> HIDE DEF req, named, scope
  <2>6. ForgetOf(who, policy, records, req, scope).code = "ok"
    BY <1>1, <2>5 DEF req
  <2>7. ForgetOf(who, policy, records, req, scope).value.scope = scope
    BY <2>6 DEF ForgetOf, Done
  <2> QED
    BY <2>4, <2>5, <2>7 DEF req
<1>2. CASE name = "forget"
  <2> DEFINE body == Read(name, args, wrong = None)
  <2>1. out = CallV1(who, policy, records, name, args, wrong = None)
    <3>1. name \in V1Tools
      BY <1>2 DEF V1Tools
    <3> QED
      BY <3>1 DEF CallTool
  <2>2. CASE body.code # "ok"
    <3>1. out = body
      BY <1>2, <2>1, <2>2 DEF CallV1
    <3> QED
      BY <2>2, <3>1
  <2>3. CASE body.code = "ok"
    <3>1. out = Forget(who, policy, records, ForgetRequest(body.value))
      BY <1>2, <2>1, <2>3 DEF CallV1
    <3>2. "all" \notin DOMAIN body.value
      BY <1>2, <2>3 DEF Read, Picked, Arguments, Done, Failed
    <3> QED
      BY <1>1, <3>1, <3>2
  <2> QED
    BY <2>2, <2>3
<1>3. CASE name = "memory_forget"
  <2> DEFINE body == LegacyRead(name, args, wrong)
             forgotten == Forget(who, policy, records, ForgetRequest(body.value))
  <2>1. out = CallLegacy(who, policy, records, name, args, wrong)
    BY <1>3 DEF CallTool, V1Tools, Replaces
  <2>2. CASE body.code # "ok"
    <3>1. out = body
      BY <1>3, <2>1, <2>2 DEF CallLegacy
    <3> QED
      BY <2>2, <3>1
  <2>3. CASE body.code = "ok" /\ forgotten.code = "not_found"
    <3>1. out = Done([deleted |-> FALSE])
      BY <1>3, <2>1, <2>3 DEF CallLegacy
    <3> QED
      BY <3>1 DEF Done
  <2>4. CASE body.code = "ok" /\ forgotten.code # "not_found"
    <3>1. out = forgotten
      BY <1>3, <2>1, <2>4 DEF CallLegacy
    <3>2. "all" \notin DOMAIN body.value
      <4>1. body.value = [a \in DOMAIN args \cap LegacyArguments[name] |-> args[a]]
        BY <1>3, <2>4 DEF LegacyRead, Done, Failed
      <4> QED
        BY <1>3, <4>1 DEF LegacyArguments
    <3> QED
      BY <1>1, <3>1, <3>2
  <2> QED
    BY <2>2, <2>3, <2>4
<1> QED
  BY <1>2, <1>3

IsASeq(s) == DOMAIN s = 1 .. Len(s)

(***************************************************************************)
(* What compare does not look at.                                          *)
(***************************************************************************)
PlainKept(a, b) ==
    /\ a.minimum = b.minimum /\ a.maximum = b.maximum
    /\ a.enum = {} => b.enum = {}

LeafKept(a, b) ==
    /\ PlainKept(a, b)
    /\ a.alternatives = <<>> => b.alternatives = <<>>
    /\ \A i \in DOMAIN a.alternatives : PlainKept(a.alternatives[i], b.alternatives[i])

LEMMA PlainStillFits ==
    ASSUME NEW a, NEW b, NEW v, NEW old, NEW new, old \subseteq new,
           SamePlain(a, b), PlainKept(a, b), FitsPlain(a, v, old)
    PROVE  FitsPlain(b, v, new)
  BY DEF SamePlain, PlainKept, FitsPlain

LEMMA LeafStillFits ==
    ASSUME NEW a, NEW b, NEW v, NEW old, NEW new, old \subseteq new,
           SameLeaf(a, b), LeafKept(a, b), FitsLeaf(a, v, old),
           IsASeq(a.alternatives), IsASeq(b.alternatives)
    PROVE  FitsLeaf(b, v, new)
<1>1. FitsPlain(b, v, new)
  BY PlainStillFits DEF SameLeaf, LeafKept, FitsLeaf
<1>2. CASE a.alternatives = <<>>
  BY <1>1, <1>2 DEF LeafKept, FitsLeaf
<1>3. CASE a.alternatives # <<>>
  <2>1. PICK i \in DOMAIN a.alternatives : FitsPlain(a.alternatives[i], v, old)
    BY <1>3 DEF FitsLeaf
  <2>2. SamePlain(a.alternatives[i], b.alternatives[i])
    BY <1>3 DEF SameLeaf
  <2>3. PlainKept(a.alternatives[i], b.alternatives[i])
    BY DEF LeafKept
  <2>4. FitsPlain(b.alternatives[i], v, new)
    BY <2>1, <2>2, <2>3, PlainStillFits
  <2>5. i \in DOMAIN b.alternatives
    BY <1>3 DEF SameLeaf, IsASeq
  <2> QED
    BY <1>1, <2>4, <2>5 DEF FitsLeaf
<1> QED
  BY <1>2, <1>3

(***************************************************************************)
(* openapi.rs breaking_changes: where it finds nothing, a body that fitted *)
(* a component of the older document fits that of the newer one, so what   *)
(* older clients send is still accepted.  Three things it does not look at *)
(* have to be granted: bounds that stay, no enum and no alternatives where *)
(* there were none, and bodies with no field that the older document does  *)
(* not name, for which the newer one may have found a use.                 *)
(***************************************************************************)
THEOREM OldBodiesFit ==
    ASSUME NEW old, NEW new, BreaksNothing(old, new),
           NEW c \in DOMAIN old.components,
           NEW fitsOld, NEW fitsNew, fitsOld \subseteq fitsNew,
           \A k \in DOMAIN old.components[c].properties :
             LET a == old.components[c].properties[k]
                 b == new.components[c].properties[k]
             IN  LeafKept(a, b) /\ IsASeq(a.alternatives) /\ IsASeq(b.alternatives),
           NEW v, DOMAIN v \subseteq DOMAIN old.components[c].properties,
           FitsObject(old.components[c], v, fitsOld)
    PROVE  c \in DOMAIN new.components /\ FitsObject(new.components[c], v, fitsNew)
<1> DEFINE A == old.components[c]
           B == new.components[c]
<1>1. c \in DOMAIN new.components /\ SameObject(A, B)
  BY DEF BreaksNothing
<1>2. B.required \subseteq DOMAIN v
  BY <1>1 DEF SameObject, FitsObject
<1>3. ASSUME NEW k \in DOMAIN v \cap DOMAIN B.properties
      PROVE  FitsLeaf(B.properties[k], v[k], fitsNew)
  <2>1. k \in DOMAIN A.properties
    OBVIOUS
  <2>2. SameLeaf(A.properties[k], B.properties[k])
    BY <1>1, <2>1 DEF SameObject
  <2>3. FitsLeaf(A.properties[k], v[k], fitsOld)
    BY <2>1 DEF FitsObject
  <2> QED
    BY <2>1, <2>2, <2>3, LeafStillFits
<1> QED
  BY <1>1, <1>2, <1>3 DEF FitsObject

(***************************************************************************)
(* openapi.rs compare_operation: where it finds nothing, a call with every *)
(* parameter the older document requires has every one the newer document  *)
(* requires, and every parameter the older one names is still named.       *)
(***************************************************************************)
THEOREM OldCallsAccepted ==
    ASSUME NEW old, NEW new, BreaksNothing(old, new),
           NEW r \in DOMAIN old.operations,
           NEW sent, Required(old.operations[r]) \subseteq sent,
           sent \subseteq Named(old.operations[r])
    PROVE  /\ r \in DOMAIN new.operations
           /\ Required(new.operations[r]) \subseteq sent
           /\ sent \subseteq Named(new.operations[r])
<1>1. r \in DOMAIN new.operations /\ SameOperation(old.operations[r], new.operations[r])
  BY DEF BreaksNothing
<1> QED
  BY <1>1 DEF SameOperation

-----------------------------------------------------------------------------
(***************************************************************************)
(* Access, Recall and Callers.                                             *)
(***************************************************************************)
(***************************************************************************)
(* The first rule that refuses is a rule that refuses, and there is none   *)
(* only when no rule refuses.                                              *)
(***************************************************************************)
LEMMA LeastIndex ==
    ASSUME NEW n \in {5, 7}, NEW S \in SUBSET (1 .. n), S # {}
    PROVE  \E i \in S : \A j \in S : i <= j
<1>1. \A j \in S : j \in {1, 2, 3, 4, 5, 6, 7}
  OBVIOUS
<1>2. CASE 1 \in S
  BY <1>1, <1>2
<1>3. CASE 1 \notin S /\ 2 \in S
  BY <1>1, <1>3
<1>4. CASE {1, 2} \cap S = {} /\ 3 \in S
  BY <1>1, <1>4
<1>5. CASE {1, 2, 3} \cap S = {} /\ 4 \in S
  BY <1>1, <1>5
<1>6. CASE {1, 2, 3, 4} \cap S = {} /\ 5 \in S
  BY <1>1, <1>6
<1>7. CASE {1, 2, 3, 4, 5} \cap S = {} /\ 6 \in S
  BY <1>1, <1>7
<1>8. CASE {1, 2, 3, 4, 5, 6} \cap S = {} /\ 7 \in S
  BY <1>1, <1>8
<1> QED
  BY <1>1, <1>2, <1>3, <1>4, <1>5, <1>6, <1>7, <1>8

LEMMA RuleRefuses ==
    ASSUME NEW who, NEW req
    PROVE  /\ Rule(who, req) = "allow" =>
                \A i \in 1 .. 7 : ~Refuses(RuleOrder[i], who, req)
           /\ Rule(who, req) # "allow" => Refuses(Rule(who, req), who, req)
           /\ (\A i \in 1 .. 7 : ~Refuses(RuleOrder[i], who, req)) =>
                Rule(who, req) = "allow"
<1> DEFINE S == {i \in 1 .. 7 : Refuses(RuleOrder[i], who, req)}
<1>1. Rule(who, req) = FirstOf(RuleOrder, S, "allow")
  BY DEF Rule
<1>2. CASE S = {}
  BY <1>1, <1>2 DEF FirstOf
<1>3. CASE S # {}
  <2> DEFINE first == CHOOSE i \in S : \A j \in S : i <= j
  <2>1. \E i \in S : \A j \in S : i <= j
    <3> HIDE DEF S
    <3>1. S \in SUBSET (1 .. 7)
      BY DEF S
    <3> QED
      BY <3>1, <1>3, LeastIndex
  <2>2. first \in S
    BY <2>1
  <2>3. Rule(who, req) = RuleOrder[first]
    BY <1>1, <1>3 DEF FirstOf
  <2>4. Rule(who, req) # "allow"
    <3>1. first \in 1 .. 7
      BY <2>2
    <3> HIDE DEF first
    <3>2. RuleOrder[first] # "allow"
      BY <3>1 DEF RuleOrder
    <3> QED
      BY <2>3, <3>2
  <2> QED
    BY <2>2, <2>3, <2>4
<1> QED
  BY <1>2, <1>3

LEMMA SamePermission ==
    ASSUME NEW who, NEW op, NEW m
    PROVE  Refuses("permission", who, OfRecord(Request(op), m)) <=>
                Refuses("permission", who, Request(op))
<1>1. Permission(who, OfRecord(Request(op), m)) = Permission(who, Request(op))
  BY DEF Permission, ForgetsOwn, OfRecord, Request
<1> QED
  BY <1>1 DEF Refuses

LEMMA OnePolicyAnswer ==
    ASSUME NEW who, NEW policy, NEW req, Decide(who, policy, req).code = "ok"
    PROVE  /\ Rule(who, req) = "allow"
           /\ ~PolicyRefuses(policy, req)
           /\ Decide(who, policy, req).value = WithPolicy(Authorize(who, req), policy)
  BY DEF Decide, DeniedBy, Done, Authorize

LEMMA PermittedFirst ==
    ASSUME NEW who, NEW policy, NEW op, NEW m,
           Decide(who, policy, Request(op)).code = "ok"
    PROVE  Rule(who, OfRecord(Request(op), m)) # "permission"
<1>1. Rule(who, Request(op)) = "allow"
  BY OnePolicyAnswer
<1>2. RuleOrder[1] = "permission" /\ 1 \in 1 .. 7
  BY DEF RuleOrder
<1>3. ~Refuses("permission", who, Request(op))
  BY <1>1, <1>2, RuleRefuses
<1> QED
  BY <1>3, SamePermission, RuleRefuses

(***************************************************************************)
(* caller.rs visible: a hidden record is never confirmed to exist.  Every  *)
(* id that is refused is answered as an id that has no record at all.      *)
(***************************************************************************)
THEOREM HiddenIsMissing ==
    ASSUME NEW who, NEW policy, NEW records, NEW others, NEW op, NEW id,
           Show(who, policy, records, op, id).code # "ok",
           Lookup(who, others, id) = None
    PROVE  Show(who, policy, records, op, id).code = Show(who, policy, others, op, id).code
<1> DEFINE may == Decide(who, policy, Request(op))
           m == Lookup(who, records, id)
<1>1. CASE may.code # "ok"
  BY <1>1 DEF Show
<1>2. CASE may.code = "ok" /\ m = None
  BY <1>2 DEF Show
<1>3. CASE may.code = "ok" /\ m # None
  <2>1. Show(who, policy, others, op, id).code = "not_found"
    BY <1>3 DEF Show, Failed
  <2>2. Show(who, policy, records, op, id) = ShowRecord(who, policy, op, m)
    BY <1>3 DEF Show
  <2>3. Rule(who, OfRecord(Request(op), m)) # "permission"
    BY <1>3, PermittedFirst
  <2>4. ShowRecord(who, policy, op, m).code \in {"ok", "not_found"}
    BY <2>3 DEF ShowRecord, Authorize, DeniedBy, Failed, Done
  <2> QED
    BY <2>1, <2>2, <2>4
<1> QED
  BY <1>1, <1>2, <1>3

(***************************************************************************)
(* A field that fits a request narrows the caller's scope, and a record    *)
(* inside the narrower scope is one the caller may ask for by itself.      *)
(***************************************************************************)
LEMMA NarrowerFits ==
    ASSUME NEW asked, NEW mine, NEW have, have # Nobody,
           FieldFits(asked, mine),
           FieldMatches(IF asked # None THEN asked ELSE mine, have)
    PROVE  FieldFits(have, mine) /\ FieldMatches(mine, have)
  BY DEF FieldFits, FieldMatches

LEMMA AllowedScope ==
    ASSUME NEW who, NEW req, Rule(who, req) = "allow"
    PROVE  \A f \in Fields : FieldFits(Asked(req)[f], OwnScope(who)[f])
<1>1. RuleOrder[7] = "scope" /\ 7 \in 1 .. 7
  BY DEF RuleOrder
<1>2. ~Refuses("scope", who, req)
  BY <1>1, RuleRefuses
<1> QED
  BY <1>2 DEF Refuses

LEMMA Allowed ==
    ASSUME NEW who, NEW req, Rule(who, req) = "allow"
    PROVE  /\ ~Refuses("permission", who, req)
           /\ ~Refuses("tenant", who, req)
           /\ ~Refuses("subject", who, req)
           /\ ~Refuses("kind", who, req)
           /\ ~Refuses("label", who, req)
           /\ ~Refuses("user", who, req)
<1>1. \A i \in 1 .. 7 : ~Refuses(RuleOrder[i], who, req)
  BY RuleRefuses
<1>2. {1, 2, 3, 4, 5, 6} \subseteq 1 .. 7
  OBVIOUS
<1> QED
  BY <1>1, <1>2 DEF RuleOrder

LEMMA ReadPermission ==
    ASSUME NEW who, NEW req, req.op \in Reads
    PROVE  Permission(who, req) = "READ"
<1>1. CASE req.op = "recall"
  BY <1>1 DEF Permission, Reads, ForgetsOwn
<1>2. CASE req.op = "get"
  BY <1>2 DEF Permission, Reads, ForgetsOwn
<1>3. CASE req.op = "list"
  BY <1>3 DEF Permission, Reads, ForgetsOwn
<1> QED
  BY <1>1, <1>2, <1>3 DEF Reads

(* A bare request is allowed to whoever has its permission.                *)
LEMMA PlainAllowed ==
    ASSUME NEW who, NEW op, ~Refuses("permission", who, Request(op))
    PROVE  Rule(who, Request(op)) = "allow"
<1>1. \A f \in Fields : FieldFits(Asked(Request(op))[f], OwnScope(who)[f])
  BY DEF Asked, Request, NoScope, FieldFits
<1>2. /\ ~Refuses("tenant", who, Request(op)) /\ ~Refuses("subject", who, Request(op))
      /\ ~Refuses("kind", who, Request(op)) /\ ~Refuses("label", who, Request(op))
      /\ ~Refuses("user", who, Request(op)) /\ ~Refuses("scope", who, Request(op))
  BY <1>1 DEF Refuses, Request
<1> QED
  BY <1>2, RuleRefuses DEF RuleOrder

LEMMA PlainDecided ==
    ASSUME NEW who, NEW policy, NEW op, Rule(who, Request(op)) = "allow"
    PROVE  Decide(who, policy, Request(op)).code = "ok"
  BY DEF Decide, Authorize, PolicyRefuses, Request, Done, DeniedBy

(***************************************************************************)
(* A record that a decision shows by itself: what get asks, part by part.  *)
(***************************************************************************)
LEMMA ShownByParts ==
    ASSUME NEW who, NEW policy, NEW m,
           Decide(who, policy, Request("get")).code = "ok",
           m.tenant = who.principal.tenant,
           MayUseSubject(who.principal, m.subject),
           who.principal.kinds = {} \/ m.kind \in who.principal.kinds,
           m.labels \cap (DeniedLabels(who) \cup policy.denied) = {},
           \A f \in Fields : FieldFits(m.scope[f], OwnScope(who)[f])
    PROVE  ShowRecord(who, policy, "get", m).code = "ok"
<1> DEFINE req == OfRecord(Request("get"), m)
           d == Authorize(who, req)
<1>1. /\ req.subject = m.subject /\ req.kinds = {m.kind} /\ req.labels = m.labels
      /\ req.user = None /\ req.tenant = None /\ req.op = "get"
      /\ req.scope = IF m.scope = NoScope THEN None ELSE m.scope
  BY DEF OfRecord, Request
<1>2. ~Refuses("permission", who, req)
  <2>1. Rule(who, Request("get")) = "allow"
    BY OnePolicyAnswer
  <2>2. ~Refuses("permission", who, Request("get"))
    BY <2>1, Allowed
  <2> QED
    BY <2>2, SamePermission
<1>3. ~Refuses("tenant", who, req) /\ ~Refuses("user", who, req)
  BY <1>1 DEF Refuses
<1>4. ~Refuses("subject", who, req)
  BY <1>1 DEF Refuses
<1>5. ~Refuses("kind", who, req)
  BY <1>1 DEF Refuses
<1>6. ~Refuses("label", who, req)
  BY <1>1 DEF Refuses
<1>7. ~Refuses("scope", who, req)
  <2>1. \A f \in Fields : FieldFits(Asked(req)[f], OwnScope(who)[f])
    <3>1. CASE req.scope = None
      BY <3>1 DEF Asked, NoScope, FieldFits
    <3>2. CASE req.scope # None
      BY <1>1, <3>2 DEF Asked
    <3> QED
      BY <3>1, <3>2
  <2> QED
    BY <2>1 DEF Refuses
<1>8. \A i \in 1 .. 7 : ~Refuses(RuleOrder[i], who, req)
  <2> HIDE DEF req
  <2> QED
    BY <1>2, <1>3, <1>4, <1>5, <1>6, <1>7 DEF RuleOrder
<1>9. Rule(who, req) = "allow"
  <2> HIDE DEF req
  <2> QED
    BY <1>8, RuleRefuses
<1>10. /\ d.allowed /\ d.tenant = who.principal.tenant /\ d.kinds = who.principal.kinds
       /\ d.denied = DeniedLabels(who)
  BY <1>9 DEF Authorize
<1>11. ScopeMatches(d.scope, m.scope)
  <2>1. CASE req.scope = None
    <3>1. d.scope = OwnScope(who)
      BY <2>1 DEF Authorize
    <3> QED
      BY <3>1 DEF ScopeMatches, FieldFits, FieldMatches
  <2>2. CASE req.scope # None
    <3>1. d.scope = Narrowed(m.scope, OwnScope(who))
      BY <1>1, <1>9, <2>2 DEF Authorize, Reads
    <3>2. ASSUME NEW f \in Fields PROVE FieldMatches(d.scope[f], m.scope[f])
      BY <3>1 DEF Narrowed, FieldMatches, FieldFits
    <3> QED
      BY <3>2 DEF ScopeMatches
  <2> QED
    BY <2>1, <2>2
<1>12. Visible(WithPolicy(d, policy), m)
  <2>1. /\ WithPolicy(d, policy).denied = DeniedLabels(who) \cup policy.denied
        /\ WithPolicy(d, policy).tenant = who.principal.tenant
        /\ WithPolicy(d, policy).kinds = who.principal.kinds
        /\ WithPolicy(d, policy).scope = d.scope
    BY <1>10 DEF WithPolicy, Authorize
  <2> QED
    BY <1>11, <2>1 DEF Visible
<1> QED
  BY <1>10, <1>12 DEF ShowRecord, Done

(***************************************************************************)
(* caller.rs recall against visible: a recall's search, whatever scope and *)
(* kinds the caller asks for, finds nothing that it could not get by id.   *)
(* The two are different code: constraints of a statement on one side, a   *)
(* second decision about the record on the other.                          *)
(***************************************************************************)
THEOREM FoundIsGettable ==
    ASSUME NEW who, NEW policy, NEW req, NEW moment, NEW m,
           DefaultSubject # None, who.principal.kinds # None,
           RecallFields \subseteq DOMAIN req,
           RecallBy(who, policy, req).code = "ok",
           Found(Query(RecallBy(who, policy, req).value.req, moment), m),
           \A f \in Fields : m.scope[f] # Nobody
    PROVE  ShowRecord(who, policy, "get", m).code = "ok"
<1> DEFINE subject == Subject(req.subject)
           asks == [Request("recall") EXCEPT !.subject = subject, !.tenant = req.tenant,
                                             !.kinds = KindsAsked(req.kinds), !.scope = req.scope]
           d == Decide(who, policy, asks)
           q == RecallBy(who, policy, req).value.req
<1>1. d.code = "ok" /\ q = Constrained([req EXCEPT !.subject = subject], d.value)
  BY DEF RecallBy, Done
<1>2. Rule(who, asks) = "allow" /\ d.value = WithPolicy(Authorize(who, asks), policy)
  <2> HIDE DEF asks
  <2> QED
    BY <1>1, OnePolicyAnswer
<1>3. /\ d.value.tenant = who.principal.tenant /\ d.value.kinds = who.principal.kinds
      /\ d.value.denied = DeniedLabels(who) \cup policy.denied
      /\ d.value.scope = Authorize(who, asks).scope
  BY <1>2 DEF WithPolicy, Authorize
<1>q. /\ q.tenant = d.value.tenant /\ q.denied = d.value.denied /\ q.scope = d.value.scope
      /\ q.subject = subject
      /\ q.kinds = IF req.kinds = None /\ d.value.kinds # {} THEN d.value.kinds ELSE req.kinds
  BY <1>1 DEF Constrained
<1>4. /\ m.tenant = who.principal.tenant
      /\ m.labels \cap (DeniedLabels(who) \cup policy.denied) = {}
      /\ m.subject = subject
      /\ q.kinds = None \/ m.kind \in q.kinds
      /\ ScopeMatches(d.value.scope, m.scope)
  <2>1. Found(Query(q, moment), m)
    OBVIOUS
  <2> HIDE DEF q, d
  <2>2. /\ Query(q, moment).tenant = q.tenant /\ Query(q, moment).subject = q.subject
        /\ Query(q, moment).kinds = q.kinds /\ Query(q, moment).denied = q.denied
        /\ Query(q, moment).scope = q.scope
    BY DEF Query
  <2>3. /\ m.tenant = q.tenant /\ m.subject = q.subject
        /\ q.kinds = None \/ m.kind \in q.kinds
        /\ m.labels \cap q.denied = {} /\ ScopeMatches(q.scope, m.scope)
    BY <2>1, <2>2 DEF Found
  <2> QED
    BY <1>3, <1>q, <2>3
<1>5. MayUseSubject(who.principal, m.subject)
  <2>1. Refuses("subject", who, asks) <=>
            (subject # None /\ ~MayUseSubject(who.principal, subject))
    BY DEF Refuses, Request
  <2>2. subject # None
    BY DEF Subject
  <2> HIDE DEF asks
  <2> QED
    BY <1>2, <1>4, <2>1, <2>2, Allowed
<1>6. who.principal.kinds = {} \/ m.kind \in who.principal.kinds
  <2>1. Refuses("kind", who, asks) <=>
            (who.principal.kinds # {} /\ ~(KindsAsked(req.kinds) \subseteq who.principal.kinds))
    BY DEF Refuses, Request
  <2>2. who.principal.kinds = {} \/ KindsAsked(req.kinds) \subseteq who.principal.kinds
    <3> HIDE DEF asks
    <3> QED
      BY <1>2, <2>1, Allowed
  <2>3. q.kinds = IF req.kinds = None /\ who.principal.kinds # {}
                   THEN who.principal.kinds ELSE req.kinds
    BY <1>3, <1>q
  <2> HIDE DEF q
  <2>4. CASE req.kinds = None
    BY <1>4, <2>3, <2>4, who.principal.kinds # None
  <2>5. CASE req.kinds # None
    BY <1>4, <2>2, <2>3, <2>5 DEF KindsAsked
  <2> QED
    BY <2>4, <2>5
<1>7. \A f \in Fields : FieldFits(m.scope[f], OwnScope(who)[f])
  <2>1. /\ asks.scope = req.scope /\ asks.op = "recall"
        /\ Asked(asks) = IF req.scope = None THEN NoScope ELSE req.scope
    BY DEF Request, Asked
  <2>2. \A f \in Fields : FieldFits(Asked(asks)[f], OwnScope(who)[f])
    <3> HIDE DEF asks
    <3> QED
      BY <1>2, AllowedScope
  <2>3. \A f \in Fields : d.value.scope[f] =
            IF Asked(asks)[f] # None THEN Asked(asks)[f] ELSE OwnScope(who)[f]
    <3> HIDE DEF asks, d
    <3>1. d.value.scope = IF req.scope # None THEN Narrowed(req.scope, OwnScope(who))
                                              ELSE OwnScope(who)
      BY <1>2, <1>3, <2>1 DEF Authorize, Reads
    <3> QED
      BY <2>1, <3>1 DEF Narrowed, NoScope
  <2>4. ASSUME NEW f \in Fields PROVE FieldFits(m.scope[f], OwnScope(who)[f])
    <3>1. FieldMatches(d.value.scope[f], m.scope[f])
      BY <1>4 DEF ScopeMatches
    <3> HIDE DEF asks, d
    <3> QED
      BY <2>2, <2>3, <3>1, NarrowerFits
  <2> QED
    BY <2>4
<1>8. Decide(who, policy, Request("get")).code = "ok"
  <2>1. Permission(who, asks) = Permission(who, Request("get"))
    <3>1. asks.op \in Reads /\ Request("get").op \in Reads
      BY DEF Reads, Request
    <3> HIDE DEF asks
    <3> QED
      BY <3>1, ReadPermission
  <2>2. ~Refuses("permission", who, Request("get"))
    <3>1. ~Refuses("permission", who, asks)
      <4> HIDE DEF asks
      <4> QED
        BY <1>2, Allowed
    <3> HIDE DEF asks
    <3> QED
      BY <2>1, <3>1 DEF Refuses
  <2>3. Rule(who, Request("get")) = "allow"
    BY <2>2, PlainAllowed
  <2> QED
    BY <2>3, PlainDecided
<1> HIDE DEF subject, asks, d, q
<1> QED
  BY <1>4, <1>5, <1>6, <1>7, <1>8, ShownByParts

(***************************************************************************)
(* caller.rs list and list_offset against visible: nor does a list.  A     *)
(* list over every subject takes a caller whose patterns match them all.   *)
(***************************************************************************)
THEOREM ListedIsGettable ==
    ASSUME NEW who, NEW policy, NEW call, NEW req, NEW m,
           who.principal.kinds # None,
           IF req.subject = None
             THEN call = "list_offset" /\ (MayUseSubject(who.principal, "*") =>
                                              MayUseSubject(who.principal, m.subject))
             ELSE TRUE,
           "*" # None,
           ListBy(who, policy, call, req).code = "ok",
           Listed(ListBy(who, policy, call, req).value.query, m),
           \A f \in Fields : m.scope[f] # Nobody
    PROVE  ShowRecord(who, policy, "get", m).code = "ok"
<1> DEFINE subject == IF call = "list_offset" /\ req.subject = None THEN "*" ELSE req.subject
           asks == [Request("list") EXCEPT !.subject = subject, !.kinds = KindsAsked(req.kinds)]
           d == Decide(who, policy, asks)
           q == ListBy(who, policy, call, req).value.query
<1>0. /\ asks.subject = subject /\ asks.kinds = KindsAsked(req.kinds)
      /\ asks.op = "list" /\ asks.scope = None
  BY DEF Request
<1>1. d.code = "ok"
  BY DEF ListBy, Done
<1>2. Rule(who, asks) = "allow" /\ d.value = WithPolicy(Authorize(who, asks), policy)
  <2> HIDE DEF asks
  <2> QED
    BY <1>1, OnePolicyAnswer
<1>3. /\ d.value.tenant = who.principal.tenant /\ d.value.kinds = who.principal.kinds
      /\ d.value.denied = DeniedLabels(who) \cup policy.denied
      /\ d.value.scope = OwnScope(who)
  <2> HIDE DEF asks
  <2> QED
    BY <1>0, <1>2 DEF WithPolicy, Authorize
<1>q. /\ q.tenant = d.value.tenant /\ q.denied = d.value.denied /\ q.scope = d.value.scope
      /\ q.subject = req.subject
      /\ q.kinds = IF req.kinds = None /\ d.value.kinds # {} THEN d.value.kinds ELSE req.kinds
  BY <1>1 DEF ListBy, Done
<1>4. /\ m.tenant = who.principal.tenant
      /\ m.labels \cap (DeniedLabels(who) \cup policy.denied) = {}
      /\ req.subject = None \/ m.subject = req.subject
      /\ q.kinds = None \/ m.kind \in q.kinds
      /\ ScopeMatches(OwnScope(who), m.scope)
  <2>1. Listed(q, m)
    OBVIOUS
  <2> HIDE DEF q, d, asks
  <2> QED
    BY <1>3, <1>q, <2>1 DEF Listed
<1>5. MayUseSubject(who.principal, m.subject)
  <2>1. subject # None
    OBVIOUS
  <2>2. MayUseSubject(who.principal, subject)
    <3> HIDE DEF asks, subject
    <3> QED
      BY <1>0, <1>2, <2>1, Allowed DEF Refuses
  <2> QED
    BY <1>4, <2>2
<1>6. who.principal.kinds = {} \/ m.kind \in who.principal.kinds
  <2>1. who.principal.kinds = {} \/ KindsAsked(req.kinds) \subseteq who.principal.kinds
    <3> HIDE DEF asks
    <3> QED
      BY <1>0, <1>2, Allowed DEF Refuses
  <2>2. q.kinds = IF req.kinds = None /\ who.principal.kinds # {}
                   THEN who.principal.kinds ELSE req.kinds
    BY <1>3, <1>q
  <2> HIDE DEF q
  <2>3. CASE req.kinds = None
    BY <1>4, <2>2, <2>3, who.principal.kinds # None
  <2>4. CASE req.kinds # None
    BY <1>4, <2>1, <2>2, <2>4 DEF KindsAsked
  <2> QED
    BY <2>3, <2>4
<1>7. \A f \in Fields : FieldFits(m.scope[f], OwnScope(who)[f])
  <2>1. ASSUME NEW f \in Fields PROVE FieldFits(m.scope[f], OwnScope(who)[f])
    BY <1>4 DEF ScopeMatches, FieldMatches, FieldFits
  <2> QED
    BY <2>1
<1>8. Decide(who, policy, Request("get")).code = "ok"
  <2>1. Permission(who, asks) = Permission(who, Request("get"))
    <3>1. asks.op \in Reads /\ Request("get").op \in Reads
      BY DEF Reads, Request
    <3> HIDE DEF asks
    <3> QED
      BY <3>1, ReadPermission
  <2>2. ~Refuses("permission", who, Request("get"))
    <3>1. ~Refuses("permission", who, asks)
      <4> HIDE DEF asks
      <4> QED
        BY <1>2, Allowed
    <3> HIDE DEF asks
    <3> QED
      BY <2>1, <3>1 DEF Refuses
  <2> QED
    BY <2>2, PlainAllowed, PlainDecided
<1> HIDE DEF subject, asks, d, q
<1> QED
  BY <1>4, <1>5, <1>6, <1>7, <1>8, ShownByParts

(***************************************************************************)
(* explain.rs classify against SEARCH_FILTERS: a record of the subject is  *)
(* said to have lost on rank exactly when the search statement would have  *)
(* found it, the two being written apart, one in SQL and one in Rust.      *)
(* Recalls that ask for candidates, or inside time windows, are the cases  *)
(* classify does not know of.                                              *)
(***************************************************************************)
LEMMA ClassifyExcludes ==
    ASSUME NEW m, NEW r
    PROVE  Classify(m, r) = "rank" <=>
                \A i \in 1 .. 5 : ~Excludes(ExclusionOrder[i], m, r)
<1> DEFINE S == {i \in 1 .. 5 : Excludes(ExclusionOrder[i], m, r)}
<1>1. Classify(m, r) = FirstOf(ExclusionOrder, S, "rank")
  BY DEF Classify
<1>2. CASE S = {}
  BY <1>1, <1>2 DEF FirstOf
<1>3. CASE S # {}
  <2> DEFINE first == CHOOSE i \in S : \A j \in S : i <= j
  <2>1. \E i \in S : \A j \in S : i <= j
    <3> HIDE DEF S
    <3>1. S \in SUBSET (1 .. 5)
      BY DEF S
    <3> QED
      BY <3>1, <1>3, LeastIndex
  <2>2. first \in 1 .. 5
    BY <2>1
  <2>3. Classify(m, r) = ExclusionOrder[first]
    BY <1>1, <1>3 DEF FirstOf
  <2>4. Classify(m, r) # "rank"
    <3> HIDE DEF first
    <3> QED
      BY <2>2, <2>3 DEF ExclusionOrder
  <2> QED
    BY <1>3, <2>4
<1> QED
  BY <1>2, <1>3

(***************************************************************************)
(* explain.rs classify against the filters of the search: of a record of   *)
(* the recall's subject, the explanation says that only its rank kept it   *)
(* out exactly where the search could have found it.                       *)
(***************************************************************************)
THEOREM ExplanationAgrees ==
    ASSUME NEW q, NEW m,
           m.tenant = q.tenant, m.subject = q.subject, q.candidates = FALSE, q.windows = {}
    PROVE  Classify(m, q) = "rank" <=> Found(q, m)
<1>1. Recallable([q EXCEPT !.candidates = FALSE], m) <=> Recallable(q, m)
  BY DEF Recallable
<1>2. InAWindow(m, q.windows)
  BY DEF InAWindow
<1>3. ExclusionOrder[1] = "status" /\ ExclusionOrder[2] = "access"
      /\ ExclusionOrder[3] = "label" /\ ExclusionOrder[4] = "validity"
      /\ ExclusionOrder[5] = "filter"
  BY DEF ExclusionOrder
<1>4. (\A i \in 1 .. 5 : ~Excludes(ExclusionOrder[i], m, q)) <=>
        /\ ~Excludes("status", m, q) /\ ~Excludes("access", m, q) /\ ~Excludes("label", m, q)
        /\ ~Excludes("validity", m, q) /\ ~Excludes("filter", m, q)
  <2>1. \A i \in 1 .. 5 : i \in {1, 2, 3, 4, 5}
    OBVIOUS
  <2> QED
    BY <1>3, <2>1
<1>5. /\ ~Excludes("status", m, q) <=> Recallable(q, m)
      /\ ~Excludes("access", m, q) <=> ScopeMatches(q.scope, m.scope)
      /\ ~Excludes("label", m, q) <=> m.labels \cap q.denied = {}
  BY <1>1 DEF Excludes
<1>6. /\ ~Excludes("validity", m, q) <=> ValidAt(m, q.validAt) /\ HappenedBy(m, q.asOf)
      /\ ~Excludes("filter", m, q) <=> /\ q.kinds = None \/ m.kind \in q.kinds
                                       /\ q.tags = None \/ m.tags \cap q.tags # {}
  BY DEF Excludes
<1> QED
  BY <1>2, <1>4, <1>5, <1>6, ClassifyExcludes DEF Found

LEMMA LimitWithin ==
    ASSUME NEW n \in Nat, NEW longest \in Nat \ {0}, NEW ttl,
           ttl = Limit(n, 1, IF longest < 3600 THEN longest ELSE 3600)
    PROVE  ttl \in 1 .. 3600 /\ ttl <= longest
<1>1. CASE longest < 3600
  <2>1. ttl = IF n < 1 THEN 1 ELSE IF n > longest THEN longest ELSE n
    BY <1>1 DEF Limit
  <2>2. longest \in Nat /\ longest >= 1 /\ longest <= 3600
    BY <1>1
  <2> QED
    BY ONLY n \in Nat, <2>1, <2>2
<1>2. CASE ~(longest < 3600)
  <2>1. ttl = IF n < 1 THEN 1 ELSE IF n > 3600 THEN 3600 ELSE n
    BY <1>2 DEF Limit
  <2>2. longest \in Nat /\ longest >= 3600
    BY <1>2
  <2> QED
    BY ONLY n \in Nat, <2>1, <2>2
<1> QED
  BY ONLY <1>1, <1>2

(***************************************************************************)
(* caller.rs issue_token: no token can do more than the credential that    *)
(* issued it or than its agent's role, none can issue another, none lives  *)
(* longer than an hour or the configured lifetime, and none acts for a     *)
(* user that its issuer could not act for.                                 *)
(***************************************************************************)
THEOREM TokenNeverWider ==
    ASSUME NEW who, NEW policy, NEW everyone, NEW req,
           MaxTokenTtl \in Nat \ {0}, req.ttl \in Nat \cup {None}, None \notin Int,
           IssueToken(who, policy, everyone, req).code = "ok",
           NEW t, t = IssueToken(who, policy, everyone, req).value
    PROVE  /\ t.scopes \subseteq who.scopes /\ "TOKEN" \notin t.scopes
           /\ t.key # None /\ t.key = who.key
           /\ t.ttl \in 1 .. 3600 /\ t.ttl <= MaxTokenTtl
           /\ \/ t.user = who.user
              \/ who.principal.kind = "agent" /\ who.principal.actAs
              \/ who.principal.kind \notin {"agent", "user"}
<1> DEFINE agent == TokenAgent(who.principal, req.agent, everyone)
           user == TokenUser(who, req.user)
           passable == Passable(who, agent.value)
<1>1. /\ user.code = "ok"
      /\ who.key # None
      /\ req.scopes = None \/ req.scopes \subseteq passable
      /\ t.user = user.value /\ t.key = who.key
      /\ t.scopes = IF req.scopes = None THEN passable ELSE req.scopes
      /\ t.ttl = Limit(IF req.ttl = None THEN MaxTokenTtl ELSE req.ttl, 1,
                       IF MaxTokenTtl < 3600 THEN MaxTokenTtl ELSE 3600)
  BY DEF IssueToken, Failed, Done
<1>2. passable \subseteq who.scopes /\ "TOKEN" \notin passable
  BY DEF Passable
<1>3. t.scopes \subseteq who.scopes /\ "TOKEN" \notin t.scopes
  BY <1>1, <1>2
<1>4. t.ttl \in 1 .. 3600 /\ t.ttl <= MaxTokenTtl
  <2> DEFINE n == IF req.ttl = None THEN MaxTokenTtl ELSE req.ttl
  <2>1. n \in Nat
    OBVIOUS
  <2>2. t.ttl = Limit(n, 1, IF MaxTokenTtl < 3600 THEN MaxTokenTtl ELSE 3600)
    BY <1>1
  <2> HIDE DEF n
  <2> QED
    BY ONLY <2>1, <2>2, MaxTokenTtl \in Nat \ {0}, LimitWithin
<1>5. \/ t.user = who.user
      \/ who.principal.kind = "agent" /\ who.principal.actAs
      \/ who.principal.kind \notin {"agent", "user"}
  BY <1>1 DEF TokenUser, Failed, Done
<1>6. t.key # None /\ t.key = who.key
  BY <1>1
<1> QED
  BY <1>3, <1>4, <1>5, <1>6, Zenon

-----------------------------------------------------------------------------
(***************************************************************************)
(* Identity.  What was read of a row stays true of it: an id keeps its     *)
(* kind and tenant, a key its principal and permissions, a token all it    *)
(* says, and an end is never put into the past (Grows).  So an answer      *)
(* that was right when it was made, from reads at several moments, is      *)
(* right about the moment it was made at for good (Result), wherever it    *)
(* is kept: in the cache, by a call, or in the claims of a token.          *)
(***************************************************************************)
There(id) == id \in Principal /\ principals[id] # None
Made(k) == k \in Key /\ keys[k] # None

EndsFrom(k, t) ==
    /\ keys[k].revoked = None \/ keys[k].revoked >= t
    /\ keys[k].expires = None \/ keys[k].expires >= t

LivedTo(id, t) == id \in Principal /\ lived[id] # None /\ lived[id] >= t

SoundFrom(who, t) ==
    /\ who.key # Bootstrap => EndsFrom(who.key, t - Lag)
    /\ who.via # "bootstrap" => LivedTo(who.principal.id, t)

ReadOf(r) == There(r.id) /\ principals[r.id].kind = r.kind /\ principals[r.id].tenant = r.tenant

OfHolder(k, user) ==
    /\ Made(k) /\ There(keys[k].principal)
    /\ principals[keys[k].principal].kind = "user" => user = keys[k].principal

Granted(g) ==
    /\ g.scopes \subseteq RolePermissions["agent"] \ {"TOKEN"}
    /\ g.key # Bootstrap => OfHolder(g.key, g.user) /\ g.scopes \subseteq keys[g.key].scopes

Claims(cl) ==
    /\ There(cl.agent) /\ principals[cl.agent].kind = "agent"
    /\ principals[cl.agent].tenant = cl.tenant
    /\ Granted(cl)

OfKey(who) ==
    /\ who.via = "key" /\ who.key # Bootstrap
    /\ OfHolder(who.key, who.user) /\ ReadOf(who.principal)
    /\ keys[who.key].principal = who.principal.id
    /\ who.scopes \subseteq keys[who.key].scopes

OfToken(who) == who.via = "token" /\ who.principal.kind = "agent" /\ Granted(who)

OfBoot(who) == who.via = "bootstrap" /\ who.key = Bootstrap /\ who.principal = BootPrincipal

Result(res, t) ==
    /\ res.ok \in BOOLEAN
    /\ res.ok => (OfKey(res.who) \/ OfToken(res.who) \/ OfBoot(res.who)) /\ SoundFrom(res.who, t)

(***************************************************************************)
(* A call: at its reads, with an answer, or with the claims of a token.    *)
(***************************************************************************)
ReadToken(r) ==
    /\ tokens[r.asks.cred] # None
    /\ r = [pc |-> r.pc, asks |-> r.asks, started |-> r.started]
    /\ r.pc = "key" => tokens[r.asks.cred].key # Bootstrap
    /\ r.pc = "principal" /\ tokens[r.asks.cred].key # Bootstrap =>
         EndsFrom(tokens[r.asks.cred].key, r.started)

ReadTheKey(r) ==
    /\ r.pc # "signer"
    /\ r.pc = "key" => r = [pc |-> r.pc, asks |-> r.asks, started |-> r.started]
    /\ r.pc = "principal" =>
         /\ r = [pc |-> r.pc, asks |-> r.asks, started |-> r.started, key |-> r.key]
         /\ Made(r.asks.cred) /\ EndsFrom(r.asks.cred, r.started)
         /\ r.key.principal = keys[r.asks.cred].principal
         /\ r.key.scopes = keys[r.asks.cred].scopes

AtReads(r) ==
    /\ r.pc \in {"signer", "key", "principal"}
    /\ r.asks \in Presented /\ r.asks.cred # Bootstrap
    /\ r.started \in Int /\ r.started <= now
    /\ IF IsToken(r.asks) THEN ReadToken(r) ELSE ReadTheKey(r)

Answered(r) ==
    /\ r.pc \in {"served", "refused"}
    /\ r.at \in Int /\ r.at <= now
    /\ r.pc = "served" => r.result.ok /\ Result(r.result, r.at - CacheTtl + 1)

Issuing(r) ==
    /\ r.pc \in {"issue", "newsigner"}
    /\ r = [pc |-> r.pc, started |-> r.started, result |-> r.result, claims |-> r.claims]
    /\ Claims(r.claims)

CallOK(r) == r = Idle \/ AtReads(r) \/ Answered(r) \/ Issuing(r)

(* A refusal that is kept had a cause when it was made.                    *)
CacheOK(p) ==
    cache[p] # None =>
      /\ cache[p].at \in Int /\ cache[p].at <= now
      /\ Result(cache[p].result, cache[p].at)
      /\ cache[p].result.ok \/ since[p] = None \/ since[p] >= cache[p].at
         \/ cache[p].at \in ToSet(failed)

HandOver(k) ==
    /\ Made(k)
    /\ \E new \in Key \ {k} : /\ Made(new) /\ keys[new].principal = keys[k].principal
                              /\ keys[new].scopes = keys[k].scopes

CommandOK(r) ==
    \/ r.pc = "idle"
    \/ r.pc = "put" /\ r.record \in PrincipalRecords /\ r.record.id = r.id /\ r.id \in Principal
    \/ r.pc = "end" /\ HandOver(r.old)
    \/ /\ r.pc = "connect" /\ r.id \in Principal
       /\ r = [pc |-> r.pc, started |-> r.started, id |-> r.id, left |-> r.left]
       /\ \A k \in r.left : Made(k)

StoreTypes ==
    /\ now \in 0 .. MaxTime
    /\ principals \in [Principal -> PrincipalRecords \cup {None}]
    /\ keys \in [Key -> KeyRecords \cup {None}]
    /\ signers \in Seq(SigningKey) /\ failed \in Seq(Int)
    /\ tokens = [t \in Token |-> tokens[t]]
    /\ lived \in [Principal -> Int \cup {None}]
    /\ since \in [Presented -> Int \cup {None}]
    /\ cache = [p \in Presented |-> cache[p]]
    /\ calls = [c \in Call |-> calls[c]]
    /\ commands = [o \in Operator |-> commands[o]]

StoreOK ==
    /\ \A id \in Principal : principals[id] # None => principals[id].id = id
    /\ \A k \in Key : keys[k] # None => There(keys[k].principal)
    /\ \A t \in Token : tokens[t] # None =>
         Claims(tokens[t]) /\ tokens[t].signer \in ToSet(signers) /\ tokens[t].expires \in Int

HistoryOK ==
    /\ \A id \in Principal : /\ lived[id] # None => lived[id] <= now
                             /\ Live(id) => lived[id] = now
    /\ \A p \in Presented : since[p] # None => InOrder(p)

OnTime ==
    \A c \in Call : calls[c].pc \in {"signer", "key", "principal"} => now - calls[c].started <= Lag

IdentityInv ==
    /\ StoreTypes /\ StoreOK /\ HistoryOK /\ OnTime
    /\ \A c \in Call : CallOK(calls[c])
    /\ \A p \in Presented : CacheOK(p)
    /\ \A o \in Operator : CommandOK(commands[o])

(***************************************************************************)
(* What no step undoes.                                                    *)
(***************************************************************************)
NotBefore(at, t) == at \in Int /\ at >= t

RowGrows(k) ==
    /\ keys'[k] # None
    /\ keys'[k].principal = keys[k].principal /\ keys'[k].scopes = keys[k].scopes
    /\ keys'[k].revoked = keys[k].revoked \/ NotBefore(keys'[k].revoked, now)
    /\ keys'[k].expires = keys[k].expires \/ NotBefore(keys'[k].expires, now)

StoreGrows ==
    /\ \A id \in Principal : principals[id] # None =>
         /\ principals'[id] # None
         /\ principals'[id].kind = principals[id].kind
         /\ principals'[id].tenant = principals[id].tenant
    /\ \A k \in Key : keys[k] # None => RowGrows(k)
    /\ \A t \in Token : tokens[t] # None => tokens'[t] = tokens[t]
    /\ ToSet(signers) \subseteq ToSet(signers')

HistoryGrows ==
    /\ now' \in Int /\ now' >= now
    /\ \A id \in Principal : lived[id] # None =>
         lived'[id] # None /\ NotBefore(lived'[id], lived[id])
    /\ \A p \in Presented : since'[p] \in {None, since[p], now'}
    /\ ToSet(failed) \subseteq ToSet(failed')

Grows == StoreGrows /\ HistoryGrows

LEMMA ConstantFacts ==
    /\ Lag \in Nat /\ MaxTime \in Nat /\ CacheTtl \in Nat /\ CacheTtl > 0 /\ TokenTtl \in Nat
    /\ None \notin Int /\ None \notin Key
    /\ \A p \in Presented : p.cred \in Key \cup Token \cup {Bootstrap}
    /\ \A t \in Token : t # Bootstrap /\ t \notin Key
    /\ Bootstrap \notin Key
  BY IdentityAssumption

LEMMA EndsLater ==
    ASSUME StoreTypes, StoreGrows, NEW k \in Key, keys[k] # None,
           NEW t \in Int, t <= now, EndsFrom(k, t)
    PROVE  EndsFrom(k, t)'
<1>1. RowGrows(k) /\ now \in Int /\ keys[k] \in KeyRecords
  BY ConstantFacts DEF StoreTypes, StoreGrows
<1>2. keys[k].revoked \in Int \cup {None} /\ keys[k].expires \in Int \cup {None}
  BY <1>1 DEF KeyRecords
<1>3. keys'[k].revoked = None \/ keys'[k].revoked >= t
  BY <1>1, <1>2 DEF EndsFrom, RowGrows, NotBefore
<1>4. keys'[k].expires = None \/ keys'[k].expires >= t
  BY <1>1, <1>2 DEF EndsFrom, RowGrows, NotBefore
<1> QED
  BY <1>3, <1>4 DEF EndsFrom

LEMMA HolderLater ==
    ASSUME StoreGrows, NEW k, NEW user, OfHolder(k, user) PROVE OfHolder(k, user)'
  BY DEF StoreGrows, RowGrows, OfHolder, Made, There

LEMMA GrantedLater ==
    ASSUME StoreGrows, NEW g, Granted(g) PROVE Granted(g)'
<1>1. CASE g.key = Bootstrap
  BY <1>1 DEF Granted
<1>2. CASE g.key # Bootstrap
  <2>1. OfHolder(g.key, g.user) /\ OfHolder(g.key, g.user)'
    BY <1>2, HolderLater DEF Granted
  <2> QED
    BY <1>2, <2>1 DEF Granted, OfHolder, Made, StoreGrows, RowGrows
<1> QED
  BY <1>1, <1>2

LEMMA ClaimsLater ==
    ASSUME StoreGrows, NEW cl, Claims(cl) PROVE Claims(cl)'
<1>1. Granted(cl)'
  BY GrantedLater DEF Claims
<1> QED
  BY <1>1 DEF Claims, StoreGrows, There

LEMMA SoundLater ==
    ASSUME StoreTypes, Grows, NEW who, NEW t \in Int, t <= now, SoundFrom(who, t),
           who.key # Bootstrap => Made(who.key)
    PROVE  SoundFrom(who, t)'
<1>1. t - Lag \in Int /\ t - Lag <= now
  BY ConstantFacts DEF StoreTypes
<1>2. who.key # Bootstrap => EndsFrom(who.key, t - Lag)'
  BY <1>1, EndsLater DEF SoundFrom, Grows, Made
<1>3. who.via # "bootstrap" => LivedTo(who.principal.id, t)'
  <2> SUFFICES ASSUME who.via # "bootstrap" PROVE LivedTo(who.principal.id, t)'
    OBVIOUS
  <2> DEFINE id == who.principal.id
  <2>1. id \in Principal /\ lived[id] # None /\ lived[id] >= t
    BY DEF SoundFrom, LivedTo
  <2>2. lived'[id] # None /\ NotBefore(lived'[id], lived[id]) /\ lived[id] \in Int
    BY <2>1 DEF Grows, HistoryGrows, StoreTypes
  <2>3. lived'[id] >= t
    BY <2>1, <2>2 DEF NotBefore
  <2> QED
    BY <2>1, <2>2, <2>3 DEF LivedTo
<1> QED
  BY <1>2, <1>3 DEF SoundFrom

LEMMA ResultLater ==
    ASSUME StoreTypes, Grows, NEW res, NEW t \in Int, t <= now, Result(res, t)
    PROVE  Result(res, t)'
<1>1. CASE ~res.ok
  BY <1>1 DEF Result
<1>2. CASE res.ok
  <2> DEFINE who == res.who
  <2>1. OfKey(who) => OfKey(who)'
    <3> SUFFICES ASSUME OfKey(who) PROVE OfKey(who)'
      OBVIOUS
    <3>1. OfHolder(who.key, who.user)'
      BY HolderLater DEF Grows, OfKey
    <3>2. ReadOf(who.principal)'
      BY DEF Grows, StoreGrows, OfKey, ReadOf, There
    <3> QED
      BY <3>1, <3>2 DEF OfKey, OfHolder, Made, Grows, StoreGrows, RowGrows
  <2>2. OfToken(who) => OfToken(who)'
    BY GrantedLater DEF OfToken, Grows
  <2>3. who.key # Bootstrap => Made(who.key)
    BY <1>2 DEF Result, OfKey, OfToken, OfBoot, Granted, OfHolder
  <2>4. SoundFrom(who, t)'
    BY <1>2, <2>3, SoundLater DEF Result
  <2> QED
    BY <1>2, <2>1, <2>2, <2>4 DEF Result, OfBoot
<1> QED
  BY <1>1, <1>2 DEF Result
LEMMA TokenIssuer ==
    ASSUME StoreOK, NEW t \in Token, tokens[t] # None, tokens[t].key # Bootstrap
    PROVE  Made(tokens[t].key)
  BY DEF StoreOK, Claims, Granted, OfHolder

LEMMA ReadingLater ==
    ASSUME StoreTypes, StoreOK, Grows, NEW r, AtReads(r) PROVE AtReads(r)'
<1>0. r.started \in Int /\ r.started <= now /\ now \in Int /\ now' \in Int /\ now' >= now
  BY ConstantFacts DEF AtReads, StoreTypes, Grows, HistoryGrows
<1>1. r.started <= now'
  BY <1>0
<1>2. CASE IsToken(r.asks)
  <2>1. r.asks.cred \in Token /\ tokens[r.asks.cred] # None
    BY <1>2 DEF AtReads, ReadToken, IsToken
  <2>2. tokens'[r.asks.cred] = tokens[r.asks.cred]
    BY <2>1 DEF Grows, StoreGrows
  <2>3. ASSUME r.pc = "principal", tokens[r.asks.cred].key # Bootstrap
        PROVE  EndsFrom(tokens[r.asks.cred].key, r.started)'
    <3> DEFINE k == tokens[r.asks.cred].key
    <3>1. k \in Key /\ keys[k] # None
      BY <2>1, <2>3, TokenIssuer DEF Made
    <3>2. EndsFrom(k, r.started)
      BY <1>2, <2>3 DEF AtReads, ReadToken
    <3>3. \A j \in Key : keys[j] # None /\ EndsFrom(j, r.started) => EndsFrom(j, r.started)'
      BY <1>0, EndsLater DEF Grows
    <3>4. keys'[k].revoked = None \/ keys'[k].revoked >= r.started
      BY <3>1, <3>2, <3>3 DEF EndsFrom
    <3>5. keys'[k].expires = None \/ keys'[k].expires >= r.started
      BY <3>1, <3>2, <3>3 DEF EndsFrom
    <3> QED
      BY <3>4, <3>5, <2>2 DEF EndsFrom
  <2>4. ReadToken(r)'
    BY <1>2, <2>2, <2>3 DEF AtReads, ReadToken
  <2> QED
    BY <1>0, <1>1, <1>2, <2>4 DEF AtReads, IsToken
<1>3. CASE ~IsToken(r.asks)
  <2>1. ASSUME r.pc = "principal"
        PROVE  /\ Made(r.asks.cred)' /\ EndsFrom(r.asks.cred, r.started)'
               /\ keys'[r.asks.cred].principal = keys[r.asks.cred].principal
               /\ keys'[r.asks.cred].scopes = keys[r.asks.cred].scopes
    BY <1>0, <1>3, <2>1, EndsLater
       DEF AtReads, ReadTheKey, Made, Grows, StoreGrows, RowGrows
  <2>2. ReadTheKey(r)'
    BY <1>3, <2>1 DEF AtReads, ReadTheKey
  <2> QED
    BY <1>0, <1>1, <1>3, <2>2 DEF AtReads, IsToken
<1> QED
  BY <1>2, <1>3

LEMMA CallLater ==
    ASSUME StoreTypes, StoreOK, Grows, NEW r, CallOK(r) PROVE CallOK(r)'
<1>0. now \in Int /\ now' \in Int /\ now' >= now /\ CacheTtl \in Nat /\ CacheTtl > 0
  BY ConstantFacts DEF StoreTypes, Grows, HistoryGrows
<1>1. Answered(r) => Answered(r)'
  <2> SUFFICES ASSUME Answered(r) PROVE Answered(r)'
    OBVIOUS
  <2>1. r.at \in Int /\ r.at <= now
    BY DEF Answered
  <2>2. r.at <= now' /\ r.at - CacheTtl + 1 \in Int /\ r.at - CacheTtl + 1 <= now
    BY <1>0, <2>1
  <2>3. r.pc = "served" => Result(r.result, r.at - CacheTtl + 1)'
    BY <2>2, ResultLater DEF Answered
  <2> QED
    BY <2>1, <2>2, <2>3 DEF Answered
<1>2. Issuing(r) => Issuing(r)'
  BY ClaimsLater DEF Issuing, Grows
<1> QED
  BY <1>1, <1>2, ReadingLater DEF CallOK

LEMMA HandOverLater ==
    ASSUME StoreGrows, NEW k, HandOver(k) PROVE HandOver(k)'
<1>1. PICK new \in Key \ {k} : /\ Made(new) /\ keys[new].principal = keys[k].principal
                               /\ keys[new].scopes = keys[k].scopes
  BY DEF HandOver
<1>2. /\ Made(k)' /\ Made(new)' /\ keys'[new].principal = keys'[k].principal
      /\ keys'[new].scopes = keys'[k].scopes
  BY <1>1 DEF HandOver, Made, StoreGrows, RowGrows
<1> QED
  BY <1>1, <1>2 DEF HandOver

LEMMA CommandLater ==
    ASSUME StoreGrows, NEW r, CommandOK(r) PROVE CommandOK(r)'
<1>1. \A k : Made(k) => Made(k)'
  BY DEF StoreGrows, RowGrows, Made
<1> QED
  BY <1>1, HandOverLater DEF CommandOK

LEMMA CacheLater ==
    ASSUME StoreTypes, Grows, NEW p \in Presented, CacheOK(p), cache'[p] = cache[p]
    PROVE  CacheOK(p)'
<1> SUFFICES ASSUME cache[p] # None PROVE CacheOK(p)'
  BY DEF CacheOK
<1>1. /\ cache[p].at \in Int /\ cache[p].at <= now /\ Result(cache[p].result, cache[p].at)
      /\ \/ cache[p].result.ok \/ since[p] = None \/ since[p] >= cache[p].at
         \/ cache[p].at \in ToSet(failed)
  BY DEF CacheOK
<1>2. now \in Int /\ now' \in Int /\ now' >= now
  BY ConstantFacts DEF StoreTypes, Grows, HistoryGrows
<1>3. cache[p].at <= now'
  BY <1>1, <1>2
<1>4. Result(cache[p].result, cache[p].at)'
  <2> DEFINE res == cache[p].result
             at == cache[p].at
  <2>1. ASSUME NEW s, NEW u \in Int, u <= now, Result(s, u) PROVE Result(s, u)'
    BY <2>1, ResultLater
  <2> QED
    BY <1>1, <2>1, cache'[p] = cache[p] DEF Result
<1>5. \/ cache[p].result.ok \/ since'[p] = None \/ since'[p] >= cache[p].at
      \/ cache[p].at \in ToSet(failed')
  BY <1>1, <1>3 DEF Grows, HistoryGrows
<1> QED
  BY <1>1, <1>3, <1>4, <1>5 DEF CacheOK
(***************************************************************************)
(* What a step of a call does: it leaves that call sound as the store is   *)
(* before the step, keeps answers that are right, and refuses for a cause. *)
(***************************************************************************)
Blamed(p) ==
    \/ since[p] = None
    \/ since[p] \in Int /\ now - since[p] < CacheTtl
    \/ \E t \in ToSet(failed') : t \in Int /\ now - t < CacheTtl

NewAnswer(p, entry) ==
    \E res : /\ entry = [at |-> now, result |-> res]
             /\ Result(res, now)
             /\ res.ok \/ since[p] = None \/ now \in ToSet(failed')

CacheDoes ==
    /\ cache' = [p \in Presented |-> cache'[p]]
    /\ \A p \in Presented : \/ cache'[p] = None \/ cache'[p] = cache[p]
                            \/ NewAnswer(p, cache'[p])

BecomesOf(c, new) ==
    /\ calls' = [calls EXCEPT ![c] = new] /\ CallOK(new)
    /\ new.pc = "refused" /\ calls[c].pc # "refused" => Blamed(new.asks)
    /\ new.pc \in {"signer", "key", "principal"} =>
         new.started = now \/ new.started = calls[c].started
    /\ new.pc \in {"signer", "key", "principal"} /\ new.started # now =>
         calls[c].pc \in {"signer", "key", "principal"}

Becomes(c) == \E new : BecomesOf(c, new)

LEMMA CacheSame == ASSUME StoreTypes, UNCHANGED cache PROVE CacheDoes
  BY DEF StoreTypes, CacheDoes

LEMMA ServeDoes ==
    ASSUME StoreTypes, NEW c \in Call, NEW p \in Presented, NEW res, NEW t \in Int,
           t <= now, now - t < CacheTtl, Result(res, t), Serve(c, p, res),
           ~res.ok => Blamed(p)
    PROVE  Becomes(c)
<1> DEFINE new == [pc |-> IF res.ok THEN "served" ELSE "refused", asks |-> p, at |-> now,
                   started |-> now, result |-> res]
<1>0. now \in Int /\ CacheTtl \in Nat /\ Lag \in Nat
  BY ConstantFacts DEF StoreTypes
<1>1. /\ new.pc = (IF res.ok THEN "served" ELSE "refused") /\ new.at = now
      /\ new.result = res /\ new.asks = p
  OBVIOUS
<1>2. calls' = [calls EXCEPT ![c] = new]
  BY DEF Serve
<1> HIDE DEF new
<1>3. /\ now - CacheTtl + 1 \in Int /\ now - CacheTtl + 1 <= t
      /\ now - CacheTtl + 1 - Lag <= t - Lag /\ t - Lag \in Int
  BY <1>0
<1>4. Result(res, now - CacheTtl + 1)
  <2>0. CASE ~res.ok
    BY <2>0 DEF Result
  <2>1. CASE res.ok
    <3> DEFINE who == res.who
               u == now - CacheTtl + 1
    <3>1. SoundFrom(who, t) /\ (who.key # Bootstrap => Made(who.key))
      BY <2>1 DEF Result, OfKey, OfToken, OfBoot, Granted, OfHolder
    <3>2. who.key # Bootstrap => EndsFrom(who.key, u - Lag)
      <4> SUFFICES ASSUME who.key # Bootstrap PROVE EndsFrom(who.key, u - Lag)
        OBVIOUS
      <4>1. keys[who.key] \in KeyRecords
        BY <3>1 DEF Made, StoreTypes
      <4>2. /\ keys[who.key].revoked \in Int \cup {None}
            /\ keys[who.key].expires \in Int \cup {None}
        BY <4>1 DEF KeyRecords
      <4>3. EndsFrom(who.key, t - Lag)
        BY <3>1 DEF SoundFrom
      <4> QED
        BY <1>3, <1>0, <4>2, <4>3 DEF EndsFrom
    <3>3. who.via # "bootstrap" => LivedTo(who.principal.id, u)
      <4> SUFFICES ASSUME who.via # "bootstrap" PROVE LivedTo(who.principal.id, u)
        OBVIOUS
      <4>1. LivedTo(who.principal.id, t) /\ lived \in [Principal -> Int \cup {None}]
        BY <3>1 DEF SoundFrom, StoreTypes
      <4>2. lived[who.principal.id] \in Int
        BY <4>1 DEF LivedTo
      <4> QED
        BY <1>3, <1>0, <4>1, <4>2 DEF LivedTo
    <3> QED
      BY <2>1, <3>2, <3>3 DEF Result, SoundFrom
  <2> QED
    BY <2>0, <2>1
<1>5. Answered(new)
  BY <1>0, <1>1, <1>4 DEF Answered, Result
<1>6. BecomesOf(c, new)
  BY <1>1, <1>2, <1>5 DEF BecomesOf, CallOK
<1> QED
  BY <1>6 DEF Becomes

LEMMA KeptDoes ==
    ASSUME StoreTypes, NEW p \in Presented, NEW res, Result(res, now), cache' = Kept(p, res),
           res.ok \/ since[p] = None \/ now \in ToSet(failed')
    PROVE  CacheDoes
<1>1. \A q \in Presented :
        \/ cache'[q] = None \/ cache'[q] = cache[q]
        \/ q = p /\ cache'[q] = [at |-> now, result |-> res]
  BY DEF Kept
<1>2. cache' = [q \in Presented |-> cache'[q]]
  BY DEF Kept
<1> QED
  BY <1>1, <1>2 DEF CacheDoes, NewAnswer

LEMMA AnswerDoes ==
    ASSUME StoreTypes, NEW c \in Call, calls[c].asks \in Presented, NEW res, Result(res, now),
           Answer(c, res), res.ok \/ since[calls[c].asks] = None \/ now \in ToSet(failed')
    PROVE  Becomes(c) /\ CacheDoes
<1>1. now \in Int /\ now - now < CacheTtl
  BY ConstantFacts DEF StoreTypes
<1>2. CacheDoes
  BY KeptDoes DEF Answer
<1>3. ~res.ok => Blamed(calls[c].asks)
  BY <1>1 DEF Blamed
<1>4. ASSUME NEW p \in Presented, Serve(c, p, res), ~res.ok => Blamed(p) PROVE Becomes(c)
  BY <1>1, <1>4, ServeDoes
<1>5. Becomes(c)
  BY <1>3, <1>4 DEF Answer
<1> QED
  BY <1>2, <1>5
StepDoes(c) == Becomes(c) /\ CacheDoes

LEMMA RefusedResult ==
    ASSUME NEW reason, NEW t PROVE Result(Refused(reason), t) /\ ~Refused(reason).ok
  BY DEF Result, Refused

LEMMA InOrderMeans ==
    ASSUME HistoryOK, NEW p \in Presented, since[p] # None, p.cred # Bootstrap
    PROVE  /\ p.genuine
           /\ IsToken(p) => TokenInOrder(p)
           /\ ~IsToken(p) => KeyInOrder(p)
  BY DEF HistoryOK, InOrder

LEMMA RefusalDoes ==
    ASSUME StoreTypes, NEW c \in Call, NEW p \in Presented, calls[c].asks = p, NEW reason,
           Answer(c, Refused(reason)), since[p] = None \/ now \in ToSet(failed')
    PROVE  StepDoes(c)
  BY RefusedResult, AnswerDoes DEF StepDoes

LEMMA FromCacheDoes ==
    ASSUME IdentityInv, NEW c \in Call, NEW p \in Presented, FromCache(c, p) PROVE StepDoes(c)
<1>1. CacheOK(p) /\ cache[p] # None /\ now - cache[p].at < CacheTtl
  BY DEF IdentityInv, FromCache, Fresh
<1>2. /\ cache[p].at \in Int /\ cache[p].at <= now /\ Result(cache[p].result, cache[p].at)
      /\ \/ cache[p].result.ok \/ since[p] = None \/ since[p] >= cache[p].at
         \/ cache[p].at \in ToSet(failed)
  BY <1>1 DEF CacheOK
<1>3. since[p] \in Int \cup {None} /\ now \in Int /\ CacheTtl \in Int
  BY ConstantFacts DEF IdentityInv, StoreTypes
<1>4. ~cache[p].result.ok => Blamed(p)
  <2>1. CASE since[p] # None /\ since[p] >= cache[p].at
    <3>1. since[p] \in Int /\ now - since[p] < CacheTtl
      BY <1>1, <1>2, <1>3, <2>1
    <3> QED
      BY <3>1 DEF Blamed
  <2>2. CASE cache[p].at \in ToSet(failed)
    BY <1>1, <1>2, <2>2 DEF Blamed, FromCache
  <2> QED
    BY <1>2, <2>1, <2>2 DEF Blamed
<1>5. Serve(c, p, cache[p].result)
  BY DEF FromCache
<1>6. Becomes(c)
  BY <1>1, <1>2, <1>4, <1>5, ServeDoes DEF IdentityInv
<1> QED
  BY <1>6, CacheSame DEF StepDoes, IdentityInv, FromCache

LEMMA VerifyDoes ==
    ASSUME IdentityInv, NEW c \in Call, NEW p \in Presented, Verify(c, p) PROVE StepDoes(c)
<1> DEFINE new == [pc |-> FirstStep(p), asks |-> p, started |-> now]
<1>1. calls' = [calls EXCEPT ![c] = new] /\ new.pc = FirstStep(p) /\ new.asks = p
      /\ new.started = now /\ new = [pc |-> new.pc, asks |-> new.asks, started |-> new.started]
  BY DEF Verify
<1> HIDE DEF new
<1>2. now \in Int /\ now <= now
  BY ConstantFacts DEF IdentityInv, StoreTypes
<1>3. AtReads(new)
  <2>1. CASE IsToken(p)
    BY <1>1, <1>2, <2>1 DEF Verify, Known, AtReads, ReadToken, FirstStep
  <2>2. CASE ~IsToken(p)
    BY <1>1, <1>2, <2>2 DEF Verify, AtReads, ReadTheKey, FirstStep
  <2> QED
    BY <2>1, <2>2
<1>4. new.pc # "refused"
  BY <1>1 DEF FirstStep
<1>5. BecomesOf(c, new)
  BY <1>1, <1>3, <1>4 DEF BecomesOf, CallOK
<1> QED
  BY <1>5, CacheSame DEF StepDoes, Becomes, IdentityInv, Verify

LEMMA VerifyBootstrapDoes ==
    ASSUME IdentityInv, NEW c \in Call, NEW p \in Presented, VerifyBootstrap(c, p)
    PROVE  StepDoes(c)
<1> DEFINE who == BootIdentity(p.user)
           res == Verified(who)
<1>1. now \in Int /\ now - now < CacheTtl
  BY ConstantFacts DEF IdentityInv, StoreTypes
<1>2. /\ who.via = "bootstrap" /\ who.key = Bootstrap /\ who.principal = BootPrincipal
      /\ res.ok = TRUE /\ res.who = who
  BY DEF BootIdentity, Verified
<1>3. Serve(c, p, res) /\ cache' = Kept(p, res)
  BY DEF VerifyBootstrap
<1> HIDE DEF who, res
<1>4. Result(res, now)
  BY <1>2 DEF Result, OfBoot, SoundFrom
<1>5. Becomes(c)
  BY <1>1, <1>2, <1>3, <1>4, ServeDoes DEF IdentityInv
<1>6. CacheDoes
  BY <1>2, <1>3, <1>4, KeptDoes DEF IdentityInv
<1> QED
  BY <1>5, <1>6 DEF StepDoes
LEMMA AtRead ==
    ASSUME IdentityInv, NEW c \in Call, calls[c].pc \in {"signer", "key", "principal"}
    PROVE  AtReads(calls[c])
<1>1. CallOK(calls[c])
  BY DEF IdentityInv
<1>2. calls[c] # Idle
  BY DEF Idle
<1> QED
  BY <1>1, <1>2 DEF CallOK, Answered, Issuing

LEMMA GoesDoes ==
    ASSUME IdentityInv, NEW c \in Call, NEW p \in Presented, calls[c].asks = p,
           AtReads(calls[c]), IsToken(p), calls[c].pc # "principal",
           NEW step \in {"key", "principal"}, Goes(c, step),
           step = "key" => tokens[p.cred].key # Bootstrap,
           step = "principal" /\ tokens[p.cred].key # Bootstrap => Usable(tokens[p.cred].key)
    PROVE  StepDoes(c)
<1> DEFINE new == [pc |-> step, asks |-> p, started |-> calls[c].started]
<1>1. ReadToken(calls[c]) /\ calls[c].started \in Int /\ calls[c].started <= now
  BY DEF AtReads
<1>2. calls[c] = [pc |-> calls[c].pc, asks |-> p, started |-> calls[c].started]
  BY <1>1 DEF ReadToken
<1>3. [calls EXCEPT ![c].pc = step] = [calls EXCEPT ![c] = new]
  <2>1. [calls[c] EXCEPT !.pc = step] = new
    BY <1>2
  <2> QED
    BY <2>1
<1>4. calls' = [calls EXCEPT ![c] = new]
  BY <1>3 DEF Goes
<1>5. new.pc = step /\ new.asks = p /\ new.started = calls[c].started
      /\ new = [pc |-> new.pc, asks |-> new.asks, started |-> new.started]
  OBVIOUS
<1> HIDE DEF new
<1>6. ASSUME step = "principal", tokens[p.cred].key # Bootstrap
      PROVE  EndsFrom(tokens[p.cred].key, calls[c].started)
  <2> DEFINE k == tokens[p.cred].key
  <2>1. p.cred \in Token /\ tokens[p.cred] # None
    BY <1>1 DEF ReadToken, IsToken
  <2>2. k \in Key /\ keys[k] # None
    BY <2>1, <1>6, TokenIssuer DEF IdentityInv, Made
  <2>3. keys[k] \in KeyRecords /\ now \in Int
    BY <2>2, ConstantFacts DEF IdentityInv, StoreTypes
  <2>4. keys[k].expires \in Int \cup {None}
    BY <2>3 DEF KeyRecords
  <2>5. keys[k].revoked = None /\ (keys[k].expires = None \/ keys[k].expires > now)
    BY <1>6 DEF Usable
  <2>6. keys[k].expires = None \/ keys[k].expires >= calls[c].started
    BY <1>1, <2>3, <2>4, <2>5
  <2> QED
    BY <2>5, <2>6 DEF EndsFrom
<1>7. AtReads(new)
  BY <1>1, <1>5, <1>6 DEF AtReads, ReadToken
<1>8. BecomesOf(c, new)
  BY <1>4, <1>5, <1>7 DEF BecomesOf, CallOK, AtReads
<1> QED
  BY <1>8, CacheSame DEF StepDoes, Becomes, IdentityInv, Goes

LEMMA ReadSignerDoes ==
    ASSUME IdentityInv, NEW c \in Call, ReadSigner(c) PROVE StepDoes(c)
<1> DEFINE p == calls[c].asks
           claims == tokens[p.cred]
<1>1. AtReads(calls[c]) /\ p \in Presented /\ calls[c].pc = "signer" /\ p.cred # Bootstrap
  BY AtRead DEF ReadSigner, AtReads
<1>2. IsToken(p) /\ claims # None /\ p.cred \in Token
  BY <1>1 DEF AtReads, ReadToken, ReadTheKey, IsToken
<1>3. claims.signer \in ToSet(signers)
  BY <1>2 DEF IdentityInv, StoreOK
<1>4. since[p] # None => p.genuine /\ TokenInOrder(p)
  BY <1>1, <1>2, InOrderMeans DEF IdentityInv
<1>5. now \in Int
  BY ConstantFacts DEF IdentityInv, StoreTypes
<1>6. CASE Answer(c, Refused("forged token")) /\ ~p.genuine
  BY <1>1, <1>4, <1>6, RefusalDoes DEF IdentityInv
<1>7. CASE Answer(c, Refused("expired token")) /\ claims.expires <= now
  <2>1. TokenInOrder(p) => claims.expires > now
    BY DEF TokenInOrder
  <2>2. claims.expires \in Int
    BY <1>2 DEF IdentityInv, StoreOK
  <2>3. ~(claims.expires > now)
    <3>1. claims.expires <= now
      BY <1>7
    <3>2. \A x, y \in Int : x <= y => ~(x > y)
      OBVIOUS
    <3> HIDE DEF claims
    <3> QED
      BY <1>5, <2>2, <3>1, <3>2
  <2>4. since[p] = None
    BY <1>4, <2>1, <2>3
  <2> QED
    BY <1>1, <1>7, <2>4, RefusalDoes DEF IdentityInv
<1>8. CASE Answer(c, Refused("token's user")) /\ p.user \notin {None, claims.user}
  BY <1>1, <1>4, <1>8, RefusalDoes DEF IdentityInv, TokenInOrder
<1>9. CASE Goes(c, IF claims.key = Bootstrap THEN "principal" ELSE "key")
  BY <1>1, <1>2, <1>9, GoesDoes
<1> QED
  BY <1>3, <1>6, <1>7, <1>8, <1>9 DEF ReadSigner
LEMMA ReadKeyDoes ==
    ASSUME IdentityInv, NEW c \in Call, ReadKey(c) PROVE StepDoes(c)
<1> DEFINE p == calls[c].asks
           k == Issuer(p)
<1>1. AtReads(calls[c]) /\ p \in Presented /\ calls[c].pc = "key" /\ p.cred # Bootstrap
  BY AtRead DEF ReadKey, AtReads
<1>2. CASE IsToken(p)
  <2>1. ReadToken(calls[c]) /\ tokens[p.cred].key # Bootstrap /\ k = tokens[p.cred].key
    BY <1>1, <1>2 DEF AtReads, ReadToken, Issuer
  <2>2. since[p] # None => Usable(k)
    BY <1>1, <1>2, <2>1, InOrderMeans DEF IdentityInv, TokenInOrder
  <2>3. CASE Usable(k) /\ Goes(c, "principal")
    BY <1>1, <1>2, <2>1, <2>3, GoesDoes
  <2>4. CASE ~Usable(k) /\ Answer(c, Refused("issuing key"))
    BY <1>1, <2>2, <2>4, RefusalDoes DEF IdentityInv
  <2> QED
    BY <1>2, <2>3, <2>4 DEF ReadKey
<1>3. CASE ~IsToken(p)
  <2>1. ReadTheKey(calls[c]) /\ k = p.cred /\ p.cred \in Key /\ calls[c].started \in Int
        /\ calls[c].started <= now
    BY <1>1, <1>3, ConstantFacts DEF AtReads, Issuer, IsToken
  <2>2. since[p] # None => p.genuine /\ Usable(k)
    BY <1>1, <1>3, <2>1, InOrderMeans DEF IdentityInv, KeyInOrder
  <2>3. CASE keys[k] = None /\ Answer(c, Refused("unknown key"))
    BY <1>1, <2>2, <2>3, RefusalDoes DEF IdentityInv, Usable
  <2>4. CASE ~p.genuine /\ Answer(c, Refused("wrong key secret"))
    BY <1>1, <2>2, <2>4, RefusalDoes DEF IdentityInv
  <2>5. CASE ~Usable(k) /\ Answer(c, Refused("ended key"))
    BY <1>1, <2>2, <2>5, RefusalDoes DEF IdentityInv
  <2>6. CASE /\ keys[k] # None /\ p.genuine /\ Usable(k) /\ UNCHANGED cache
             /\ calls' = [calls EXCEPT ![c] = [pc |-> "principal", asks |-> p,
                                               started |-> calls[c].started, key |-> keys[k]]]
    <3> DEFINE new == [pc |-> "principal", asks |-> p, started |-> calls[c].started,
                       key |-> keys[k]]
    <3>1. /\ new.pc = "principal" /\ new.asks = p /\ new.started = calls[c].started
          /\ new.key = keys[k]
          /\ new = [pc |-> new.pc, asks |-> new.asks, started |-> new.started, key |-> new.key]
      OBVIOUS
    <3>2. calls' = [calls EXCEPT ![c] = new]
      BY <2>6
    <3> HIDE DEF new
    <3>3. keys[k] \in KeyRecords /\ now \in Int
      BY <2>1, <2>6, ConstantFacts DEF IdentityInv, StoreTypes
    <3>4. keys[k].expires \in Int \cup {None}
      BY <3>3 DEF KeyRecords
    <3>5. keys[k].revoked = None /\ (keys[k].expires = None \/ keys[k].expires > now)
      BY <2>6 DEF Usable
    <3>6. keys[k].expires = None \/ keys[k].expires >= calls[c].started
      BY <2>1, <3>3, <3>4, <3>5
    <3>7. EndsFrom(k, calls[c].started)
      BY <3>5, <3>6 DEF EndsFrom
    <3>8. AtReads(new)
      BY <1>1, <1>3, <2>1, <2>6, <3>1, <3>7 DEF AtReads, ReadTheKey, Made
    <3>9. BecomesOf(c, new)
      BY <1>1, <3>1, <3>2, <3>8 DEF BecomesOf, CallOK
    <3> QED
      BY <2>6, <3>9, CacheSame DEF StepDoes, Becomes, IdentityInv
  <2>7. keys[k] # None /\ p.genuine /\ Usable(k) =>
          /\ calls' = [calls EXCEPT ![c] = [pc |-> "principal", asks |-> p,
                                            started |-> calls[c].started, key |-> keys[k]]]
          /\ UNCHANGED cache
    BY <1>3 DEF ReadKey
  <2> QED
    BY <1>3, <2>3, <2>4, <2>5, <2>6, <2>7 DEF ReadKey
<1> QED
  BY <1>2, <1>3

LEMMA LivesNow ==
    ASSUME IdentityInv, NEW id \in Principal, Live(id)
    PROVE  /\ principals[id].id = id /\ principals[id] \in PrincipalRecords /\ There(id)
           /\ LivedTo(id, now)
<1>1. lived[id] = now /\ now \in Int /\ None \notin Int
  BY ConstantFacts DEF IdentityInv, HistoryOK, StoreTypes
<1> QED
  BY <1>1 DEF IdentityInv, StoreOK, StoreTypes, Live, There, LivedTo

LEMMA KeyIdentityIs ==
    ASSUME IdentityInv, NEW p \in Presented, NEW r, AtReads(r), r.asks = p, ~IsToken(p),
           r.pc = "principal", Live(r.key.principal), now - r.started <= Lag
    PROVE  Result(Verified(KeyIdentity(principals[r.key.principal], p.cred, r.key.scopes, p.user)),
                  now)
<1> DEFINE id == r.key.principal
           k == p.cred
           who == KeyIdentity(principals[id], k, r.key.scopes, p.user)
<1>1. /\ Made(k) /\ EndsFrom(k, r.started) /\ id = keys[k].principal
      /\ r.key.scopes = keys[k].scopes /\ r.started \in Int /\ k # Bootstrap
  BY DEF AtReads, ReadTheKey
<1>2. There(id)
  BY <1>1 DEF IdentityInv, StoreOK, Made
<1>3. principals[id].id = id /\ LivedTo(id, now)
  BY <1>2, LivesNow DEF There
<1>4. /\ who.via = "key" /\ who.key = k /\ who.principal = principals[id]
      /\ who.user = (IF principals[id].kind = "user" THEN principals[id].id ELSE p.user)
      /\ who.scopes = r.key.scopes \cap RolePermissions[principals[id].kind]
  BY DEF KeyIdentity
<1> HIDE DEF who
<1>5. OfKey(who)
  BY <1>1, <1>2, <1>3, <1>4 DEF OfKey, OfHolder, ReadOf
<1>6. EndsFrom(k, now - Lag)
  <2>1. keys[k] \in KeyRecords /\ now \in Int /\ Lag \in Int
    BY <1>1, ConstantFacts DEF IdentityInv, StoreTypes, Made
  <2>2. keys[k].expires \in Int \cup {None} /\ keys[k].revoked \in Int \cup {None}
    BY <2>1 DEF KeyRecords
  <2>3. now - Lag <= r.started
    BY <1>1, <2>1
  <2> QED
    BY <1>1, <2>1, <2>2, <2>3 DEF EndsFrom
<1>7. SoundFrom(who, now)
  BY <1>3, <1>4, <1>6 DEF SoundFrom
<1>8. Verified(who).ok = TRUE /\ Verified(who).who = who
  BY DEF Verified
<1> QED
  BY <1>5, <1>7, <1>8 DEF Result, who
LEMMA TokenIdentityIs ==
    ASSUME IdentityInv, NEW p \in Presented, NEW r, AtReads(r), r.asks = p, IsToken(p),
           r.pc = "principal", Live(tokens[p.cred].agent), now - r.started <= Lag
    PROVE  Result(Verified(TokenIdentity(principals[tokens[p.cred].agent], tokens[p.cred])), now)
<1> DEFINE claims == tokens[p.cred]
           id == claims.agent
           who == TokenIdentity(principals[id], claims)
<1>1. p.cred \in Token /\ claims # None /\ ReadToken(r) /\ r.started \in Int
  BY DEF AtReads, ReadToken, IsToken
<1>2. Claims(claims)
  BY <1>1 DEF IdentityInv, StoreOK
<1>3. id \in Principal /\ principals[id].kind = "agent" /\ Granted(claims)
  BY <1>2 DEF Claims, There
<1>4. principals[id].id = id /\ LivedTo(id, now)
  BY <1>3, LivesNow
<1>5. /\ who.via = "token" /\ who.key = claims.key /\ who.principal = principals[id]
      /\ who.user = claims.user
      /\ who.scopes = (claims.scopes \cap RolePermissions[principals[id].kind]) \ {"TOKEN"}
  BY DEF TokenIdentity
<1> HIDE DEF who
<1>6. OfToken(who)
  BY <1>3, <1>5 DEF OfToken, Granted
<1>7. ASSUME claims.key # Bootstrap PROVE EndsFrom(claims.key, now - Lag)
  <2> DEFINE k == claims.key
  <2>1. k \in Key /\ keys[k] # None
    BY <1>1, <1>7, TokenIssuer DEF IdentityInv, Made
  <2>2. EndsFrom(k, r.started)
    BY <1>1, <1>7 DEF ReadToken
  <2>3. keys[k] \in KeyRecords /\ now \in Int /\ Lag \in Int
    BY <2>1, ConstantFacts DEF IdentityInv, StoreTypes
  <2>4. keys[k].expires \in Int \cup {None} /\ keys[k].revoked \in Int \cup {None}
    BY <2>3 DEF KeyRecords
  <2>5. now - Lag <= r.started
    BY <1>1, <2>3
  <2> QED
    BY <1>1, <2>2, <2>3, <2>4, <2>5 DEF EndsFrom
<1>8. SoundFrom(who, now)
  BY <1>4, <1>5, <1>7 DEF SoundFrom
<1>9. Verified(who).ok = TRUE /\ Verified(who).who = who
  BY DEF Verified
<1> QED
  BY <1>6, <1>8, <1>9 DEF Result, who

LEMMA IdentityDoes ==
    ASSUME StoreTypes, NEW c \in Call, calls[c].asks \in Presented, NEW who,
           Result(Verified(who), now), Answer(c, Verified(who))
    PROVE  StepDoes(c)
<1>1. Verified(who).ok = TRUE
  BY DEF Verified
<1> QED
  BY <1>1, AnswerDoes DEF StepDoes

LEMMA ReadPrincipalDoes ==
    ASSUME IdentityInv, NEW c \in Call, ReadPrincipal(c) PROVE StepDoes(c)
<1> DEFINE p == calls[c].asks
<1>1. AtReads(calls[c]) /\ p \in Presented /\ calls[c].pc = "principal" /\ p.cred # Bootstrap
      /\ now - calls[c].started <= Lag
  BY AtRead DEF ReadPrincipal, AtReads, IdentityInv, OnTime
<1>2. CASE IsToken(p)
  <2> DEFINE claims == tokens[p.cred]
             id == claims.agent
  <2>1. Claims(claims)
    BY <1>1, <1>2 DEF IdentityInv, StoreOK, AtReads, ReadToken, IsToken
  <2>2. principals[id].kind = "agent" /\ principals[id].tenant = claims.tenant
    BY <2>1 DEF Claims
  <2>3. since[p] # None => Live(id)
    BY <1>1, <1>2, InOrderMeans DEF IdentityInv, TokenInOrder
  <2>4. CASE ~Live(id) /\ Answer(c, Refused("no live principal"))
    BY <1>1, <2>3, <2>4, RefusalDoes DEF IdentityInv
  <2>5. CASE Live(id) /\ Answer(c, Verified(TokenIdentity(principals[id], claims)))
    <3>1. Result(Verified(TokenIdentity(principals[id], claims)), now)
      BY <1>1, <1>2, <2>5, TokenIdentityIs
    <3> QED
      BY <1>1, <2>5, <3>1, IdentityDoes DEF IdentityInv
  <2> QED
    BY <1>2, <2>2, <2>4, <2>5 DEF ReadPrincipal
<1>3. CASE ~IsToken(p)
  <2> DEFINE id == calls[c].key.principal
             who == KeyIdentity(principals[id], p.cred, calls[c].key.scopes, p.user)
  <2>1. id = keys[p.cred].principal
    BY <1>1, <1>3 DEF AtReads, ReadTheKey
  <2>2. since[p] # None => Live(id) /\ MayAssert(principals[id], p.user)
    BY <1>1, <1>3, <2>1, InOrderMeans DEF IdentityInv, KeyInOrder
  <2>3. CASE ~Live(id) /\ Answer(c, Refused("no live principal"))
    BY <1>1, <2>2, <2>3, RefusalDoes DEF IdentityInv
  <2>4. CASE ~MayAssert(principals[id], p.user) /\ Answer(c, Refused("user"))
    BY <1>1, <2>2, <2>4, RefusalDoes DEF IdentityInv
  <2>5. CASE Live(id) /\ Answer(c, Verified(who))
    <3>1. Result(Verified(who), now)
      BY <1>1, <1>3, <2>5, KeyIdentityIs
    <3> QED
      BY <1>1, <2>5, <3>1, IdentityDoes DEF IdentityInv
  <2> QED
    BY <1>3, <2>3, <2>4, <2>5 DEF ReadPrincipal
<1> QED
  BY <1>2, <1>3

LEMMA InAppended ==
    ASSUME NEW S, NEW s \in Seq(S), NEW x \in S
    PROVE  Append(s, x) \in Seq(S) /\ ToSet(Append(s, x)) = ToSet(s) \cup {x}
<1>1. DOMAIN Append(s, x) = 1 .. Len(s) + 1 /\ DOMAIN s = 1 .. Len(s) /\ Len(s) \in Nat
  OBVIOUS
<1>2. \A i \in 1 .. Len(s) : Append(s, x)[i] = s[i]
  OBVIOUS
<1>3. Append(s, x)[Len(s) + 1] = x
  OBVIOUS
<1> QED
  BY <1>1, <1>2, <1>3 DEF ToSet

LEMMA ReadFailsDoes ==
    ASSUME IdentityInv, NEW c \in Call, ReadFails(c) PROVE StepDoes(c)
<1>1. AtReads(calls[c]) /\ calls[c].asks \in Presented
  BY AtRead DEF ReadFails, AtReads
<1>2. failed \in Seq(Int) /\ now \in Int
  BY ConstantFacts DEF IdentityInv, StoreTypes
<1>3. now \in ToSet(failed')
  BY <1>2, InAppended DEF ReadFails
<1> QED
  BY <1>1, <1>3, RefusalDoes DEF IdentityInv, ReadFails
LEMMA IdleDoes ==
    ASSUME StoreTypes, NEW c \in Call, calls' = [calls EXCEPT ![c] = Idle], UNCHANGED cache
    PROVE  StepDoes(c)
<1>1. Idle.pc = "idle" /\ CallOK(Idle)
  BY DEF CallOK, Idle
<1>2. BecomesOf(c, Idle)
  BY <1>1 DEF BecomesOf
<1> QED
  BY <1>2, CacheSame DEF StepDoes, Becomes

LEMMA TokenPermission ==
    ASSUME NEW who, Authorize(who, Request("issue_token")).allowed PROVE "TOKEN" \in who.scopes
<1>1. ~Refuses("permission", who, Request("issue_token"))
  BY Allowed DEF Authorize
<1>2. Permission(who, Request("issue_token")) = "TOKEN" /\ None # "TOKEN"
  BY IdentityAssumption DEF Permission, Permissions, Request, ForgetsOwn, Reads
<1> QED
  BY <1>1, <1>2 DEF Refuses, Has

(* The claims of a token that is issued are granted by who issues it: no   *)
(* token is, having no permission to.                                      *)
LEMMA ClaimsGranted ==
    ASSUME IdentityInv, NEW who, OfKey(who) \/ OfToken(who) \/ OfBoot(who), "TOKEN" \in who.scopes,
           NEW agent \in Principal, MayIssueFor(who, agent),
           NEW user, MayActFor(who, user), NEW asked, asked \subseteq PassedOn(who), NEW cl,
           cl = [agent |-> agent, tenant |-> who.principal.tenant, user |-> ActsFor(who, user),
                 scopes |-> asked, key |-> who.key]
    PROVE  Claims(cl)
<1>1. /\ cl.agent = agent /\ cl.tenant = who.principal.tenant /\ cl.user = ActsFor(who, user)
      /\ cl.scopes = asked /\ cl.key = who.key
  OBVIOUS
<1>2. OfKey(who) \/ OfBoot(who)
  BY DEF OfToken, Granted
<1>3. /\ There(agent) /\ principals[agent].kind = "agent"
      /\ principals[agent].tenant = who.principal.tenant
  <2>1. CASE who.principal.kind = "agent"
    <3>1. OfKey(who)
      BY <1>2, <2>1, IdentityAssumption DEF OfBoot
    <3> QED
      BY <2>1, <3>1 DEF MayIssueFor, OfKey, ReadOf
  <2>2. CASE who.principal.kind # "agent"
    BY <2>2 DEF MayIssueFor, Live, There
  <2> QED
    BY <2>1, <2>2
<1>4. asked \subseteq RolePermissions["agent"] \ {"TOKEN"} /\ asked \subseteq who.scopes
  BY DEF PassedOn
<1>5. ASSUME who.key # Bootstrap
      PROVE  OfHolder(who.key, ActsFor(who, user)) /\ asked \subseteq keys[who.key].scopes
  <2>1. OfKey(who)
    BY <1>2, <1>5 DEF OfBoot
  <2>2. who.principal.kind = "user" => ActsFor(who, user) = who.user
    BY DEF MayActFor, ActsFor
  <2>3. /\ OfHolder(who.key, who.user) /\ who.principal.id = keys[who.key].principal
        /\ principals[who.principal.id].kind = who.principal.kind
    BY <2>1 DEF OfKey, ReadOf
  <2> QED
    BY <1>4, <2>1, <2>2, <2>3 DEF OfHolder, OfKey
<1> QED
  BY <1>1, <1>3, <1>4, <1>5 DEF Claims, Granted

LEMMA IssueDoes ==
    ASSUME IdentityInv, NEW c \in Call, NEW agent \in Principal, NEW user, NEW asked,
           Issue(c, agent, user, asked)
    PROVE  StepDoes(c)
<1> DEFINE who == Who(c)
           cl == [agent |-> agent, tenant |-> who.principal.tenant, user |-> ActsFor(who, user),
                  scopes |-> asked, key |-> who.key]
           new == [pc |-> "issue", started |-> now, result |-> calls[c].result, claims |-> cl]
<1>1. calls' = [calls EXCEPT ![c] = new]
  BY DEF Issue
<1>2. /\ new.pc = "issue" /\ new.claims = cl
      /\ new = [pc |-> new.pc, started |-> new.started, result |-> new.result,
                claims |-> new.claims]
  OBVIOUS
<1>3. CallOK(calls[c]) /\ calls[c].pc = "served"
  BY DEF Issue, IdentityInv
<1>4. calls[c] # Idle
  BY <1>3 DEF Idle
<1>5. Answered(calls[c])
  BY <1>3, <1>4 DEF CallOK, AtReads, Issuing
<1>6. OfKey(who) \/ OfToken(who) \/ OfBoot(who)
  BY <1>3, <1>5 DEF Answered, Result, Who
<1>7. "TOKEN" \in who.scopes
  BY TokenPermission DEF Issue
<1>8. Claims(cl)
  BY <1>6, <1>7, ClaimsGranted DEF Issue
<1> HIDE DEF new
<1>9. Issuing(new)
  BY <1>2, <1>8 DEF Issuing
<1>10. BecomesOf(c, new)
  BY <1>1, <1>2, <1>9 DEF BecomesOf, CallOK
<1> QED
  BY <1>10, CacheSame DEF StepDoes, Becomes, IdentityInv, Issue

LEMMA StillIssuing ==
    ASSUME IdentityInv, NEW c \in Call, calls[c].pc \in {"issue", "newsigner"},
           NEW step \in {"issue", "newsigner"}, calls' = [calls EXCEPT ![c].pc = step],
           UNCHANGED cache
    PROVE  StepDoes(c)
<1>1. CallOK(calls[c]) /\ calls[c] # Idle
  BY DEF IdentityInv, Idle
<1>2. Issuing(calls[c])
  BY <1>1 DEF CallOK, AtReads, Answered
<1> DEFINE new == [pc |-> step, started |-> calls[c].started, result |-> calls[c].result,
                   claims |-> calls[c].claims]
<1>3. [calls[c] EXCEPT !.pc = step] = new
  BY <1>2 DEF Issuing
<1>4. calls' = [calls EXCEPT ![c] = new]
  BY <1>3
<1>5. /\ new.pc = step /\ new.claims = calls[c].claims
      /\ new = [pc |-> new.pc, started |-> new.started, result |-> new.result,
                claims |-> new.claims]
  OBVIOUS
<1> HIDE DEF new
<1>6. Issuing(new)
  BY <1>2, <1>5 DEF Issuing
<1>7. BecomesOf(c, new)
  BY <1>4, <1>5, <1>6 DEF BecomesOf, CallOK
<1> QED
  BY <1>7, CacheSame DEF StepDoes, Becomes, IdentityInv

LEMMA CallStepDoes ==
    ASSUME IdentityInv, NEW c \in Call, CallStep(c) PROVE StepDoes(c)
<1>1. ASSUME NEW p \in Presented, FromCache(c, p) \/ Verify(c, p) \/ VerifyBootstrap(c, p)
      PROVE  StepDoes(c)
  BY <1>1, FromCacheDoes, VerifyDoes, VerifyBootstrapDoes
<1>2. ASSUME ReadSigner(c) \/ ReadKey(c) \/ ReadPrincipal(c) \/ ReadFails(c) PROVE StepDoes(c)
  BY <1>2, ReadSignerDoes, ReadKeyDoes, ReadPrincipalDoes, ReadFailsDoes
<1>3. ASSUME Finish(c) \/ IssueFails(c) PROVE StepDoes(c)
  BY <1>3, IdleDoes DEF Finish, IssueFails, IdentityInv
<1>4. ASSUME NEW agent \in Principal, NEW user, NEW asked, Issue(c, agent, user, asked)
      PROVE  StepDoes(c)
  BY <1>4, IssueDoes
<1>5. CASE MissSigner(c)
  BY <1>5, StillIssuing DEF MissSigner
<1>6. ASSUME NEW kid, InsertSigner(c, kid) PROVE StepDoes(c)
  BY <1>6, StillIssuing DEF InsertSigner
<1>7. ASSUME NEW t, NEW asked, Sign(c, t, asked) PROVE StepDoes(c)
  BY <1>7, IdleDoes DEF Sign, IdentityInv
<1> QED
  BY <1>1, <1>2, <1>3, <1>4, <1>5, <1>6, <1>7 DEF CallStep
(***************************************************************************)
(* What a step does to the store.                                          *)
(***************************************************************************)
KeysDo ==
    /\ keys' \in [Key -> KeyRecords \cup {None}]
    /\ \A k \in Key : keys'[k] # None => There(keys'[k].principal)
    /\ \A k \in Key : keys[k] # None => RowGrows(k)

PrincipalsDo ==
    /\ principals' \in [Principal -> PrincipalRecords \cup {None}]
    /\ \A id \in Principal : principals'[id] # None => principals'[id].id = id
    /\ \A id \in Principal : principals[id] # None =>
         /\ principals'[id] # None
         /\ principals'[id].kind = principals[id].kind
         /\ principals'[id].tenant = principals[id].tenant

TokensDo ==
    /\ tokens' = [t \in Token |-> tokens'[t]]
    /\ \A t \in Token : tokens[t] # None => tokens'[t] = tokens[t]
    /\ \A t \in Token : tokens'[t] # None =>
         \/ tokens'[t] = tokens[t]
         \/ \E new : /\ tokens'[t] = new /\ Claims(new) /\ new.signer \in ToSet(signers)
                     /\ new.expires \in Int

SignersDo == signers' \in Seq(SigningKey) /\ ToSet(signers) \subseteq ToSet(signers')

StoreDoes == KeysDo /\ PrincipalsDo /\ TokensDo /\ SignersDo

LEMMA KeysSame == ASSUME StoreTypes, StoreOK, UNCHANGED keys PROVE KeysDo
  BY DEF KeysDo, StoreTypes, StoreOK, RowGrows

LEMMA PrincipalsSame == ASSUME StoreTypes, StoreOK, UNCHANGED principals PROVE PrincipalsDo
  BY DEF PrincipalsDo, StoreTypes, StoreOK

LEMMA TokensSame == ASSUME StoreTypes, UNCHANGED tokens PROVE TokensDo
  BY DEF TokensDo, StoreTypes

LEMMA SignersSame == ASSUME StoreTypes, UNCHANGED signers PROVE SignersDo
  BY DEF SignersDo, StoreTypes

LEMMA StoreSame == ASSUME StoreTypes, StoreOK, UNCHANGED store PROVE StoreDoes
  BY KeysSame, PrincipalsSame, TokensSame, SignersSame DEF StoreDoes, store

LEMMA KeyAdded ==
    ASSUME IdentityInv, NEW k \in Key, NEW id \in Principal, NEW scopes,
           NEW life \in Int \cup {None}, NEW by \in {"cli", "connect"},
           NewKey(k, id, scopes, life, by)
    PROVE  KeysDo /\ keys'[k] # None /\ keys'[k].principal = id /\ keys'[k].scopes = scopes
<1> DEFINE new == [principal |-> id, scopes |-> scopes, created |-> now,
                   expires |-> IF life = None THEN None ELSE now + life,
                   revoked |-> None, by |-> by]
<1>0. now \in Int /\ keys \in [Key -> KeyRecords \cup {None}]
  BY ConstantFacts DEF IdentityInv, StoreTypes
<1>1. keys' = [keys EXCEPT ![k] = new] /\ keys[k] = None /\ There(id)
      /\ scopes \subseteq RolePermissions[principals[id].kind]
  BY DEF NewKey, There
<1>2. RolePermissions[principals[id].kind] \subseteq Permissions
  <2>1. principals[id].kind \in PrincipalKinds
    <3>1. principals[id] \in PrincipalRecords
      BY <1>1 DEF IdentityInv, StoreTypes, There
    <3>2. PICK r \in Profiles \cup AtStart, at \in (0 .. MaxTime) \cup {None} :
            principals[id] = [r EXCEPT !.disabled = at]
      BY <3>1 DEF PrincipalRecords
    <3>3. {"id", "tenant", "kind", "disabled"} \subseteq DOMAIN r /\ r.kind \in PrincipalKinds
      BY StartAssumption
    <3> QED
      BY <3>2, <3>3
  <2> QED
    BY <2>1 DEF PrincipalKinds, RolePermissions, Permissions
<1>3. scopes \in SUBSET Permissions
  BY <1>1, <1>2
<1>4. new \in KeyRecords /\ new.principal = id /\ new.scopes = scopes
  BY <1>0, <1>3 DEF KeyRecords
<1> HIDE DEF new
<1>5. new # None
  BY <1>4, StartAssumption
<1>6. \A j \in Key : keys'[j] = IF j = k THEN new ELSE keys[j]
  BY <1>0, <1>1
<1>7. keys' \in [Key -> KeyRecords \cup {None}]
  BY <1>0, <1>1, <1>4
<1>8. \A j \in Key : keys'[j] # None => There(keys'[j].principal)
  BY <1>1, <1>4, <1>6 DEF IdentityInv, StoreOK
<1>9. \A j \in Key : keys[j] # None => RowGrows(j)
  BY <1>1, <1>6 DEF RowGrows
<1> QED
  BY <1>4, <1>5, <1>6, <1>7, <1>8, <1>9 DEF KeysDo

LEMMA KeyChanged ==
    ASSUME IdentityInv, NEW k \in Key, keys[k] # None, NEW new \in KeyRecords,
           keys' = [keys EXCEPT ![k] = new], new.principal = keys[k].principal,
           new.scopes = keys[k].scopes,
           new.revoked = keys[k].revoked \/ NotBefore(new.revoked, now),
           new.expires = keys[k].expires \/ NotBefore(new.expires, now)
    PROVE  KeysDo
<1>0. keys \in [Key -> KeyRecords \cup {None}] /\ new # None
  BY StartAssumption DEF IdentityInv, StoreTypes
<1>1. \A j \in Key : keys'[j] = IF j = k THEN new ELSE keys[j]
  BY <1>0
<1>2. keys' \in [Key -> KeyRecords \cup {None}]
  BY <1>0
<1>3. \A j \in Key : keys'[j] # None => There(keys'[j].principal)
  BY <1>1 DEF IdentityInv, StoreOK
<1>4. \A j \in Key : keys[j] # None => RowGrows(j)
  BY <1>0, <1>1 DEF RowGrows
<1> QED
  BY <1>2, <1>3, <1>4 DEF KeysDo

LEMMA KeyRevoked ==
    ASSUME IdentityInv, NEW k \in Key, keys[k] # None, keys' = [keys EXCEPT ![k].revoked = now]
    PROVE  KeysDo /\ \A j \in Key : keys'[j].expires = keys[j].expires
<1> DEFINE new == [keys[k] EXCEPT !.revoked = now]
<1>0. now \in Int /\ keys[k] \in KeyRecords /\ keys \in [Key -> KeyRecords \cup {None}]
  BY ConstantFacts DEF IdentityInv, StoreTypes
<1>1. /\ new \in KeyRecords /\ new.principal = keys[k].principal /\ new.scopes = keys[k].scopes
      /\ new.revoked = now /\ new.expires = keys[k].expires
  BY <1>0 DEF KeyRecords
<1>2. keys' = [keys EXCEPT ![k] = new]
  OBVIOUS
<1> HIDE DEF new
<1>3. NotBefore(new.revoked, now)
  BY <1>0, <1>1 DEF NotBefore
<1>4. KeysDo
  BY <1>1, <1>2, <1>3, KeyChanged
<1>5. \A j \in Key : keys'[j].expires = keys[j].expires
  BY <1>0, <1>1, <1>2
<1> QED
  BY <1>4, <1>5
LEMMA KeyEnded ==
    ASSUME IdentityInv, NEW k \in Key, keys[k] # None, NEW grace \in Nat,
           keys' = [keys EXCEPT ![k].expires = Sooner(@, now + grace)]
    PROVE  KeysDo /\ \A j \in Key \ {k} : keys'[j].expires = keys[j].expires
<1> DEFINE end == Sooner(keys[k].expires, now + grace)
           new == [keys[k] EXCEPT !.expires = end]
<1>0. now \in Int /\ keys[k] \in KeyRecords /\ keys \in [Key -> KeyRecords \cup {None}]
  BY ConstantFacts DEF IdentityInv, StoreTypes
<1>1. keys[k].expires \in Int \cup {None} /\ now + grace \in Int /\ now + grace >= now
  BY <1>0 DEF KeyRecords
<1>2. end \in Int \cup {None} /\ (end = keys[k].expires \/ NotBefore(end, now))
  BY <1>1 DEF Sooner, NotBefore
<1>3. keys' = [keys EXCEPT ![k] = new]
  OBVIOUS
<1> HIDE DEF end
<1>4. /\ new \in KeyRecords /\ new.principal = keys[k].principal /\ new.scopes = keys[k].scopes
      /\ new.revoked = keys[k].revoked /\ new.expires = end
  BY <1>0, <1>2 DEF KeyRecords
<1> HIDE DEF new
<1>5. KeysDo
  BY <1>2, <1>3, <1>4, KeyChanged
<1>6. \A j \in Key \ {k} : keys'[j].expires = keys[j].expires
  BY <1>0, <1>3
<1> QED
  BY <1>5, <1>6

LEMMA PutDoes ==
    ASSUME IdentityInv, NEW o \in Operator, PutPrincipal(o) PROVE PrincipalsDo
<1> DEFINE id == commands[o].id
           record == commands[o].record
           new == IF /\ principals[id] # None
                     /\ principals[id].tenant # record.tenant \/ principals[id].kind # record.kind
                    THEN principals[id] ELSE record
<1>1. CommandOK(commands[o]) /\ commands[o].pc = "put"
  BY DEF IdentityInv, PutPrincipal
<1>2. record \in PrincipalRecords /\ record.id = id /\ id \in Principal
  BY <1>1 DEF CommandOK
<1>3. principals \in [Principal -> PrincipalRecords \cup {None}] /\ record # None
  BY <1>2, StartAssumption DEF IdentityInv, StoreTypes
<1>4. principals' = [principals EXCEPT ![id] = new]
  BY DEF PutPrincipal
<1>5. /\ new \in PrincipalRecords /\ new.id = id
      /\ principals[id] # None =>
           new.kind = principals[id].kind /\ new.tenant = principals[id].tenant
  BY <1>2, <1>3 DEF IdentityInv, StoreOK
<1> HIDE DEF new
<1>6. new # None
  BY <1>5, StartAssumption
<1>7. \A j \in Principal : principals'[j] = IF j = id THEN new ELSE principals[j]
  BY <1>2, <1>3, <1>4
<1>8. principals' \in [Principal -> PrincipalRecords \cup {None}]
  BY <1>2, <1>3, <1>4, <1>5
<1>9. \A j \in Principal : principals'[j] # None => principals'[j].id = j
  BY <1>5, <1>7 DEF IdentityInv, StoreOK
<1>10. \A j \in Principal : principals[j] # None =>
         /\ principals'[j] # None
         /\ principals'[j].kind = principals[j].kind
         /\ principals'[j].tenant = principals[j].tenant
  BY <1>5, <1>6, <1>7
<1> QED
  BY <1>8, <1>9, <1>10 DEF PrincipalsDo

LEMMA InsertDoes ==
    ASSUME IdentityInv, NEW c \in Call, NEW kid \in SigningKey, InsertSigner(c, kid)
    PROVE  SignersDo
<1>1. signers \in Seq(SigningKey)
  BY DEF IdentityInv, StoreTypes
<1>2. CASE signers' = Append(signers, kid)
  BY <1>1, <1>2, InAppended DEF SignersDo
<1>3. CASE signers' = <<kid>> \o signers
  <2>1. signers' \in Seq(SigningKey) /\ Len(signers) \in Nat /\ DOMAIN signers = 1 .. Len(signers)
    BY <1>1, <1>3
  <2>2. DOMAIN signers' = 1 .. Len(signers) + 1
    BY <1>1, <1>3
  <2>3. \A i \in 1 .. Len(signers) : signers'[i + 1] = signers[i] /\ i + 1 \in DOMAIN signers'
    BY <1>1, <1>3, <2>2
  <2>4. ToSet(signers) \subseteq ToSet(signers')
    BY <2>1, <2>3 DEF ToSet
  <2> QED
    BY <2>1, <2>4 DEF SignersDo
<1> QED
  BY <1>2, <1>3 DEF InsertSigner

LEMMA SignDoes ==
    ASSUME IdentityInv, NEW c \in Call, NEW t \in Token, NEW asked \in Int, Sign(c, t, asked)
    PROVE  TokensDo
<1> DEFINE cl == calls[c].claims
           life == IF asked < 1 THEN 1 ELSE IF asked > TokenTtl THEN TokenTtl ELSE asked
           new == [agent |-> cl.agent, tenant |-> cl.tenant, user |-> cl.user, scopes |-> cl.scopes,
                   key |-> cl.key, signer |-> Head(signers), expires |-> now + life]
<1>1. CallOK(calls[c]) /\ calls[c].pc = "issue"
  BY DEF IdentityInv, Sign
<1>2. calls[c] # Idle
  BY <1>1 DEF Idle
<1>3. Claims(cl)
  BY <1>1, <1>2 DEF CallOK, AtReads, Answered, Issuing
<1>4. Head(signers) \in ToSet(signers)
  <2>1. signers \in Seq(SigningKey) /\ signers # <<>>
    BY DEF IdentityInv, StoreTypes, Sign
  <2>2. 1 \in DOMAIN signers /\ Head(signers) = signers[1]
    BY <2>1
  <2> QED
    BY <2>2 DEF ToSet
<1>5. now + life \in Int
  BY ConstantFacts DEF IdentityInv, StoreTypes
<1>6. tokens' = [tokens EXCEPT ![t] = new] /\ tokens[t] = None
  BY DEF Sign
<1>7. /\ new.agent = cl.agent /\ new.tenant = cl.tenant /\ new.user = cl.user
      /\ new.scopes = cl.scopes /\ new.key = cl.key /\ new.signer = Head(signers)
      /\ new.expires \in Int
  BY <1>5
<1> HIDE DEF new, cl
<1>8. Claims(new) /\ new.signer \in ToSet(signers)
  BY <1>3, <1>4, <1>7 DEF Claims, Granted
<1>9. tokens = [u \in Token |-> tokens[u]]
  BY DEF IdentityInv, StoreTypes
<1>10. tokens' = [u \in Token |-> tokens'[u]]
       /\ \A u \in Token : tokens'[u] = IF u = t THEN new ELSE tokens[u]
  BY <1>6, <1>9
<1>11. \A u \in Token : tokens[u] # None => tokens'[u] = tokens[u]
  BY <1>6, <1>10
<1>12. \A u \in Token : tokens'[u] # None =>
         \/ tokens'[u] = tokens[u]
         \/ \E x : tokens'[u] = x /\ Claims(x) /\ x.signer \in ToSet(signers) /\ x.expires \in Int
  BY <1>7, <1>8, <1>10
<1> QED
  BY <1>10, <1>11, <1>12 DEF TokensDo
(***************************************************************************)
(* What a step of an operator's command does.                              *)
(***************************************************************************)
CommandsDo(o) ==
    \E new : /\ commands' = [commands EXCEPT ![o] = new]
             /\ CommandOK(new) \/ (new.pc = "end" /\ HandOver(new.old)')

ExpiresDo == \A k \in Key : keys[k] # None /\ keys'[k].expires # keys[k].expires => HandOver(k)

CommandDoes(o) == StoreDoes /\ ExpiresDo /\ (UNCHANGED commands \/ CommandsDo(o))

LEMMA ExpiresSame == ASSUME UNCHANGED keys PROVE ExpiresDo
  BY DEF ExpiresDo

LEMMA RecordIs ==
    ASSUME NEW x \in Profiles \cup AtStart, NEW at \in (0 .. MaxTime) \cup {None}
    PROVE  [x EXCEPT !.disabled = at] \in PrincipalRecords
<1> DEFINE e == [x EXCEPT !.disabled = at]
<1>1. \E r \in Profiles \cup AtStart, a \in (0 .. MaxTime) \cup {None} :
        e = [r EXCEPT !.disabled = a]
  OBVIOUS
<1> HIDE DEF e
<1>2. e \in PrincipalRecords
  BY <1>1 DEF PrincipalRecords
<1> QED
  BY <1>2 DEF e

LEMMA RecordWith ==
    ASSUME NEW r \in PrincipalRecords, NEW at \in (0 .. MaxTime) \cup {None}
    PROVE  /\ [r EXCEPT !.disabled = at] \in PrincipalRecords
           /\ [r EXCEPT !.disabled = at].id = r.id
           /\ r.disabled \in (0 .. MaxTime) \cup {None}
<1>1. PICK x \in Profiles \cup AtStart, y \in (0 .. MaxTime) \cup {None} :
        r = [x EXCEPT !.disabled = y]
  BY DEF PrincipalRecords
<1>2. {"id", "disabled"} \subseteq DOMAIN x
  BY StartAssumption
<1>3. r.disabled = y /\ r.id = x.id /\ DOMAIN r = DOMAIN x
  BY <1>1, <1>2
<1>4. [r EXCEPT !.disabled = at] = [x EXCEPT !.disabled = at]
  BY <1>1, <1>2
<1>5. [r EXCEPT !.disabled = at].id = r.id
  BY <1>2, <1>3
<1> QED
  BY <1>3, <1>4, <1>5, RecordIs

LEMMA ReadToPutDoes ==
    ASSUME IdentityInv, NEW o \in Operator, NEW id \in Principal, NEW record \in PrincipalRecords,
           record.id = id, ReadToPut(o, id, record)
    PROVE  CommandDoes(o)
<1> DEFINE new == [pc |-> "put", started |-> now, id |-> id, record |-> record]
<1>1. commands' = [commands EXCEPT ![o] = new] /\ CommandOK(new)
  BY DEF ReadToPut, CommandOK
<1>2. CommandsDo(o)
  BY <1>1 DEF CommandsDo
<1> QED
  BY <1>2, StoreSame, ExpiresSame DEF CommandDoes, IdentityInv, ReadToPut, store

LEMMA AddDoes ==
    ASSUME IdentityInv, NEW o \in Operator, NEW id \in Principal, NEW profile \in Profiles,
           profile.id = id, AddPrincipal(o, id, profile)
    PROVE  CommandDoes(o)
<1> DEFINE at == IF principals[id] = None THEN None ELSE principals[id].disabled
           record == [profile EXCEPT !.disabled = at]
<1>1. at \in (0 .. MaxTime) \cup {None}
  <2>1. principals[id] # None => principals[id] \in PrincipalRecords
    BY DEF IdentityInv, StoreTypes
  <2>2. principals[id] # None => principals[id].disabled \in (0 .. MaxTime) \cup {None}
    BY <2>1, RecordWith
  <2> QED
    BY <2>2
<1>2. record \in PrincipalRecords
  BY <1>1, RecordIs
<1>3. record.id = id
  <2>1. "id" \in DOMAIN profile
    BY StartAssumption
  <2> QED
    BY <2>1
<1>4. ReadToPut(o, id, record)
  BY DEF AddPrincipal
<1> QED
  BY <1>2, <1>3, <1>4, ReadToPutDoes

LEMMA SetDisabledDoes ==
    ASSUME IdentityInv, NEW o \in Operator, NEW id \in Principal, NEW disabled,
           SetDisabled(o, id, disabled)
    PROVE  CommandDoes(o)
<1> DEFINE at == IF disabled THEN now ELSE None
           record == [principals[id] EXCEPT !.disabled = at]
<1>1. principals[id] \in PrincipalRecords /\ principals[id].id = id /\ now \in 0 .. MaxTime
  BY DEF IdentityInv, StoreTypes, StoreOK, SetDisabled
<1>2. record \in PrincipalRecords /\ record.id = id
  BY <1>1, RecordWith
<1>3. ReadToPut(o, id, record)
  BY DEF SetDisabled
<1> QED
  BY <1>2, <1>3, ReadToPutDoes

LEMMA NewKeyDoes ==
    ASSUME IdentityInv, NEW k \in Key, NEW id \in Principal, NEW scopes,
           NEW life \in Int \cup {None}, NEW by \in {"cli", "connect"},
           NewKey(k, id, scopes, life, by), UNCHANGED <<principals, signers, tokens>>
    PROVE  StoreDoes /\ ExpiresDo
<1>1. KeysDo
  BY KeyAdded
<1>2. PrincipalsDo /\ TokensDo /\ SignersDo
  BY PrincipalsSame, TokensSame, SignersSame DEF IdentityInv
<1>3. \A j \in Key : keys[j] # None => keys'[j] = keys[j]
  BY DEF NewKey, IdentityInv, StoreTypes
<1> QED
  BY <1>1, <1>2, <1>3 DEF StoreDoes, ExpiresDo

LEMMA RotateDoes ==
    ASSUME IdentityInv, NEW o \in Operator, NEW k \in Key, NEW added \in Key, Rotate(o, k, added)
    PROVE  CommandDoes(o)
<1> DEFINE id == keys[k].principal
           scopes == keys[k].scopes
           life == Lifetime(keys[k])
<1>1. keys[k] \in KeyRecords /\ keys[k] # None /\ now \in Int
  BY ConstantFacts DEF Rotate, IdentityInv, StoreTypes
<1>2. id \in Principal /\ life \in Int \cup {None}
  BY <1>1 DEF KeyRecords, Lifetime
<1>3. NewKey(added, id, scopes, life, "cli") /\ keys[added] = None
  BY DEF Rotate, NewKey
<1>4. KeysDo /\ keys'[added] # None /\ keys'[added].principal = id /\ keys'[added].scopes = scopes
  BY <1>2, <1>3, KeyAdded
<1>5. StoreDoes /\ ExpiresDo
  BY <1>2, <1>3, NewKeyDoes DEF Rotate
<1>6. added # k
  BY <1>1, <1>3
<1>7. RowGrows(k)
  BY <1>1, <1>4 DEF KeysDo
<1>8. HandOver(k)'
  BY <1>4, <1>6, <1>7 DEF HandOver, Made, RowGrows
<1>9. CommandsDo(o)
  <2> DEFINE new == [pc |-> "end", started |-> now, old |-> k]
  <2>1. commands' = [commands EXCEPT ![o] = new] /\ new.pc = "end" /\ new.old = k
    BY DEF Rotate
  <2> HIDE DEF new
  <2> QED
    BY <1>8, <2>1 DEF CommandsDo
<1> QED
  BY <1>5, <1>9 DEF CommandDoes
LEMMA IdleCommand ==
    ASSUME NEW o, commands' = [commands EXCEPT ![o] = Idle] PROVE CommandsDo(o)
<1>1. CommandOK(Idle)
  BY DEF CommandOK, Idle
<1> QED
  BY <1>1 DEF CommandsDo

LEMMA KeysOnly ==
    ASSUME IdentityInv, KeysDo, UNCHANGED <<principals, signers, tokens>> PROVE StoreDoes
  BY PrincipalsSame, TokensSame, SignersSame DEF IdentityInv, StoreDoes

LEMMA EndOldDoes ==
    ASSUME IdentityInv, NEW o \in Operator, NEW grace \in Nat, EndOld(o, grace)
    PROVE  CommandDoes(o)
<1> DEFINE k == commands[o].old
<1>1. HandOver(k)
  BY DEF EndOld, IdentityInv, CommandOK
<1>2. k \in Key /\ keys[k] # None
  BY <1>1 DEF HandOver, Made
<1>3. CASE keys' = keys
  BY <1>3, KeysSame, KeysOnly, ExpiresSame, IdleCommand
     DEF EndOld, IdentityInv, CommandDoes
<1>4. CASE keys' = [keys EXCEPT ![k].expires = Sooner(@, now + grace)]
  <2>1. KeysDo /\ \A j \in Key \ {k} : keys'[j].expires = keys[j].expires
    BY <1>2, <1>4, KeyEnded
  <2>2. ExpiresDo
    BY <1>1, <2>1 DEF ExpiresDo
  <2> QED
    BY <2>1, <2>2, KeysOnly, IdleCommand DEF EndOld, CommandDoes
<1> QED
  BY <1>3, <1>4 DEF EndOld

LEMMA ConnectDoes ==
    ASSUME IdentityInv, NEW o \in Operator, NEW id \in Principal, Connect(o, id)
    PROVE  CommandDoes(o)
<1> DEFINE new == [pc |-> "connect", started |-> now, id |-> id,
                   left |-> {k \in Key : /\ keys[k] # None /\ keys[k].principal = id
                                         /\ keys[k].by = "connect" /\ keys[k].revoked = None}]
<1>1. commands' = [commands EXCEPT ![o] = new] /\ CommandOK(new)
  BY DEF Connect, CommandOK, Made
<1>2. CommandsDo(o)
  BY <1>1 DEF CommandsDo
<1> QED
  BY <1>2, StoreSame, ExpiresSame DEF CommandDoes, IdentityInv, Connect, store

LEMMA ConnectRevokesDoes ==
    ASSUME IdentityInv, NEW o \in Operator, NEW k \in Key, ConnectRevokes(o, k)
    PROVE  CommandDoes(o)
<1> DEFINE r == commands[o]
           new == [pc |-> r.pc, started |-> r.started, id |-> r.id, left |-> r.left \ {k}]
<1>1. CommandOK(r) /\ r.pc = "connect"
  BY DEF IdentityInv, ConnectRevokes
<1>2. /\ r.id \in Principal /\ \A j \in r.left : Made(j)
      /\ r = [pc |-> r.pc, started |-> r.started, id |-> r.id, left |-> r.left]
  BY <1>1 DEF CommandOK
<1>3. [r EXCEPT !.left = r.left \ {k}] = new
  BY <1>2
<1>4. commands' = [commands EXCEPT ![o] = new]
  BY <1>3 DEF ConnectRevokes
<1>5. new.pc = "connect" /\ new.id \in Principal /\ (\A j \in new.left : Made(j))
      /\ new = [pc |-> new.pc, started |-> new.started, id |-> new.id, left |-> new.left]
  BY <1>1, <1>2
<1> HIDE DEF new
<1>6. CommandsDo(o)
  BY <1>4, <1>5 DEF CommandsDo, CommandOK
<1>7. CASE keys' = keys
  BY <1>6, <1>7, KeysSame, KeysOnly, ExpiresSame DEF ConnectRevokes, IdentityInv, CommandDoes
<1>8. CASE keys' # keys
  <2>1. keys' = [keys EXCEPT ![k].revoked = now]
    BY <1>8 DEF ConnectRevokes
  <2>2. keys[k] # None
    BY <1>2 DEF ConnectRevokes, Made
  <2>3. KeysDo /\ ExpiresDo
    BY <2>1, <2>2, KeyRevoked DEF ExpiresDo
  <2> QED
    BY <1>6, <2>3, KeysOnly DEF ConnectRevokes, CommandDoes
<1> QED
  BY <1>7, <1>8

LEMMA CommandStepDoes ==
    ASSUME IdentityInv, NEW o \in Operator, Command(o) PROVE CommandDoes(o)
<1>1. ASSUME NEW id \in Principal, NEW profile \in Profiles, profile.id = id,
             AddPrincipal(o, id, profile)
      PROVE  CommandDoes(o)
  BY <1>1, AddDoes
<1>2. ASSUME NEW id \in Principal, NEW disabled, SetDisabled(o, id, disabled) PROVE CommandDoes(o)
  BY <1>2, SetDisabledDoes
<1>3. CASE PutPrincipal(o)
  <2>1. StoreDoes
    BY <1>3, PutDoes, KeysSame, TokensSame, SignersSame DEF PutPrincipal, StoreDoes, IdentityInv
  <2> QED
    BY <1>3, <2>1, ExpiresSame, IdleCommand DEF PutPrincipal, CommandDoes
<1>4. ASSUME NEW k \in Key, NEW id \in Principal, NEW life \in Lifetimes, NEW scopes,
             CreateKey(o, k, id, scopes, life)
      PROVE  CommandDoes(o)
  <2>1. life \in Int \cup {None}
    BY IdentityAssumption
  <2> QED
    BY <1>4, <2>1, NewKeyDoes DEF CreateKey, CommandDoes
<1>5. ASSUME NEW k \in Key, Revoke(o, k) PROVE CommandDoes(o)
  BY <1>5, KeyRevoked, KeysOnly DEF Revoke, CommandDoes, ExpiresDo
<1>6. ASSUME NEW k \in Key, NEW new \in Key, Rotate(o, k, new) PROVE CommandDoes(o)
  BY <1>6, RotateDoes
<1>7. ASSUME NEW grace \in 0 .. Lag, EndOld(o, grace) PROVE CommandDoes(o)
  BY <1>7, EndOldDoes, ConstantFacts
<1>8. ASSUME NEW id \in Principal, Connect(o, id) PROVE CommandDoes(o)
  BY <1>8, ConnectDoes
<1>9. ASSUME NEW k \in Key, ConnectRevokes(o, k) PROVE CommandDoes(o)
  BY <1>9, ConnectRevokesDoes
<1>10. ASSUME NEW k \in Key, ConnectCreates(o, k) PROVE CommandDoes(o)
  <2>1. commands[o].id \in Principal
    BY <1>10 DEF IdentityInv, CommandOK, ConnectCreates
  <2>2. StoreDoes /\ ExpiresDo
    BY <1>10, <2>1, NewKeyDoes DEF ConnectCreates
  <2> QED
    BY <1>10, <2>2, IdleCommand DEF ConnectCreates, CommandDoes
<1>11. CASE Stops(o)
  BY <1>11, StoreSame, ExpiresSame, IdleCommand DEF Stops, CommandDoes, IdentityInv, store
<1> QED
  BY <1>1, <1>2, <1>3, <1>4, <1>5, <1>6, <1>7, <1>8, <1>9, <1>10, <1>11 DEF Command
(***************************************************************************)
(* What any step does, and why the invariant survives it.                  *)
(***************************************************************************)
TimeDoes ==
    /\ now' \in 0 .. MaxTime /\ now' >= now
    /\ now' # now => UNCHANGED calls /\ OnTime'
    /\ failed' \in Seq(Int) /\ ToSet(failed) \subseteq ToSet(failed')

HistoryDoes ==
    /\ lived' \in [Principal -> Int \cup {None}] /\ since' \in [Presented -> Int \cup {None}]
    /\ \A id \in Principal : lived'[id] \in {lived[id], now'} /\ (Live(id)' => lived'[id] = now')
    /\ \A p \in Presented : /\ since'[p] \in {None, since[p], now'}
                            /\ since'[p] # None => InOrder(p)'

AnyStep ==
    /\ StoreDoes /\ ExpiresDo /\ CacheDoes /\ TimeDoes /\ HistoryDoes
    /\ UNCHANGED calls \/ \E c \in Call : Becomes(c)
    /\ UNCHANGED commands \/ \E o \in Operator : CommandsDo(o)

LEMMA TimeSame == ASSUME StoreTypes, UNCHANGED <<now, failed>> PROVE TimeDoes
<1>1. now \in Int
  BY ConstantFacts DEF StoreTypes
<1>2. now' = now /\ failed' = failed /\ now' >= now
  BY <1>1
<1>3. now' \in 0 .. MaxTime /\ failed' \in Seq(Int)
  BY <1>2 DEF StoreTypes
<1>4. ToSet(failed) \subseteq ToSet(failed')
  BY <1>2
<1> QED
  BY <1>2, <1>3, <1>4 DEF TimeDoes

LEMMA TimeFails ==
    ASSUME StoreTypes, UNCHANGED now, failed' = Append(failed, now) PROVE TimeDoes
<1>1. now \in Int /\ now' = now /\ now' >= now
  BY ConstantFacts DEF StoreTypes
<1>2. failed' \in Seq(Int) /\ ToSet(failed') = ToSet(failed) \cup {now}
  BY <1>1, InAppended DEF StoreTypes
<1>3. now' \in 0 .. MaxTime
  BY <1>1 DEF StoreTypes
<1> QED
  BY <1>1, <1>2, <1>3 DEF TimeDoes

LEMMA Tracked ==
    ASSUME StoreTypes, HistoryOK, now' \in Int, Track PROVE HistoryDoes
  BY DEF StoreTypes, Track, HistoryDoes

LEMMA CallSteps ==
    ASSUME IdentityInv, NEW c \in Call, CallStep(c), Track PROVE AnyStep
<1>1. StepDoes(c)
  BY CallStepDoes
<1>2. UNCHANGED now /\ (UNCHANGED failed \/ failed' = Append(failed, now))
  BY DEF CallStep, FromCache, Verify, VerifyBootstrap, ReadSigner, ReadKey, ReadPrincipal,
         ReadFails, Finish, Issue, MissSigner, InsertSigner, Sign, IssueFails
<1>3. UNCHANGED <<keys, principals, commands>>
  BY DEF CallStep, FromCache, Verify, VerifyBootstrap, ReadSigner, ReadKey, ReadPrincipal,
         ReadFails, Finish, Issue, MissSigner, InsertSigner, Sign, IssueFails, store
<1>4. \/ UNCHANGED <<signers, tokens>>
      \/ UNCHANGED tokens /\ \E kid \in SigningKey : InsertSigner(c, kid)
      \/ UNCHANGED signers /\ \E t \in Token, asked \in 0 .. TokenTtl + 1 : Sign(c, t, asked)
  BY DEF CallStep, FromCache, Verify, VerifyBootstrap, ReadSigner, ReadKey, ReadPrincipal,
         ReadFails, Finish, Issue, MissSigner, InsertSigner, Sign, IssueFails, store
<1>5. SignersDo
  BY <1>4, SignersSame, InsertDoes DEF IdentityInv
<1>6. TokensDo
  <2>1. \A asked \in 0 .. TokenTtl + 1 : asked \in Int
    BY ConstantFacts
  <2> QED
    BY <1>4, <2>1, TokensSame, SignDoes DEF IdentityInv
<1>7. TimeDoes
  BY <1>2, TimeSame, TimeFails DEF IdentityInv
<1>8. HistoryDoes
  BY <1>2, Tracked, ConstantFacts DEF IdentityInv, StoreTypes
<1> QED
  BY <1>1, <1>3, <1>5, <1>6, <1>7, <1>8, KeysSame, PrincipalsSame, ExpiresSame
     DEF AnyStep, StoreDoes, IdentityInv, StepDoes

LEMMA CommandSteps ==
    ASSUME IdentityInv, NEW o \in Operator, Command(o), Track PROVE AnyStep
<1>1. CommandDoes(o)
  BY CommandStepDoes
<1>2. UNCHANGED <<calls, cache, now, failed>>
  BY DEF Command, AddPrincipal, SetDisabled, ReadToPut, PutPrincipal, CreateKey, Revoke, Rotate,
         EndOld, Connect, ConnectRevokes, ConnectCreates, Stops
<1>3. TimeDoes
  BY <1>2, TimeSame DEF IdentityInv
<1>4. HistoryDoes
  BY <1>2, Tracked, ConstantFacts DEF IdentityInv, StoreTypes
<1> QED
  BY <1>1, <1>2, <1>3, <1>4, CacheSame DEF AnyStep, CommandDoes, IdentityInv

LEMMA TickSteps ==
    ASSUME IdentityInv, Tick, Track PROVE AnyStep
<1>1. now \in Int /\ MaxTime \in Int /\ Lag \in Int /\ now' = now + 1 /\ now < MaxTime
      /\ now \in 0 .. MaxTime
  BY ConstantFacts DEF IdentityInv, StoreTypes, Tick
<1>2. now' \in 0 .. MaxTime /\ now' >= now /\ now' \in Int
  BY <1>1
<1>3. UNCHANGED <<calls, cache, commands, failed>> /\ UNCHANGED store
  BY DEF Tick
<1>4. OnTime'
  <2> SUFFICES ASSUME NEW c \in Call, calls[c].pc \in {"signer", "key", "principal"}
               PROVE  now' - calls[c].started <= Lag
    BY <1>3 DEF OnTime
  <2>1. calls[c].started \in Busy
    BY DEF Busy
  <2>2. now - calls[c].started < Lag
    BY <2>1 DEF Tick
  <2>3. calls[c].started \in Int
    BY AtRead DEF AtReads
  <2> QED
    BY <1>1, <2>2, <2>3
<1>5. TimeDoes
  BY <1>2, <1>3, <1>4 DEF TimeDoes, IdentityInv, StoreTypes
<1>6. HistoryDoes
  BY <1>2, Tracked DEF IdentityInv
<1> QED
  BY <1>3, <1>5, <1>6, StoreSame, ExpiresSame, CacheSame DEF AnyStep, IdentityInv, store

LEMMA NoStep ==
    ASSUME IdentityInv, UNCHANGED vars PROVE AnyStep
<1>1. UNCHANGED <<now, principals, keys, signers, tokens, cache, calls, commands, since, lived,
                  failed>>
  BY DEF vars
<1>2. \A id \in Principal : Live(id)' <=> Live(id)
  BY <1>1 DEF Live
<1>3. \A p \in Presented : InOrder(p)' <=> InOrder(p)
  BY <1>1 DEF InOrder, KeyInOrder, TokenInOrder, Usable, Live, IsToken
<1>4. HistoryDoes
  BY <1>1, <1>2, <1>3 DEF HistoryDoes, IdentityInv, HistoryOK, StoreTypes
<1>5. TimeDoes
  BY <1>1, TimeSame DEF IdentityInv
<1> QED
  BY <1>1, <1>4, <1>5, StoreSame, ExpiresSame, CacheSame DEF AnyStep, IdentityInv, store

LEMMA NextDoes == ASSUME IdentityInv, [Next]_vars PROVE AnyStep
  BY CallSteps, CommandSteps, TickSteps, NoStep DEF Next
LEMMA StepGrows == ASSUME IdentityInv, AnyStep PROVE Grows
<1>1. StoreGrows
  BY DEF AnyStep, StoreDoes, KeysDo, PrincipalsDo, TokensDo, SignersDo, StoreGrows
<1>2. now \in Int /\ now' \in Int /\ now' >= now /\ None \notin Int
  BY ConstantFacts DEF IdentityInv, StoreTypes, AnyStep, TimeDoes
<1>3. ASSUME NEW id \in Principal, lived[id] # None
      PROVE  lived'[id] # None /\ NotBefore(lived'[id], lived[id])
  <2>1. lived[id] \in Int /\ lived[id] <= now /\ lived'[id] \in {lived[id], now'}
    BY <1>3 DEF IdentityInv, StoreTypes, HistoryOK, AnyStep, HistoryDoes
  <2> QED
    BY <1>2, <1>3, <2>1 DEF NotBefore
<1>4. HistoryGrows
  BY <1>2, <1>3 DEF HistoryGrows, AnyStep, HistoryDoes, TimeDoes
<1> QED
  BY <1>1, <1>4 DEF Grows

LEMMA TypesKept == ASSUME IdentityInv, AnyStep PROVE StoreTypes'
<1>1. calls' = [c \in Call |-> calls'[c]]
  <2>1. calls = [c \in Call |-> calls[c]]
    BY DEF IdentityInv, StoreTypes
  <2>2. ASSUME NEW c \in Call, NEW new, calls' = [calls EXCEPT ![c] = new]
        PROVE  calls' = [d \in Call |-> calls'[d]]
    BY <2>1, <2>2
  <2> QED
    BY <2>1, <2>2 DEF AnyStep, Becomes, BecomesOf
<1>2. commands' = [o \in Operator |-> commands'[o]]
  <2>1. commands = [o \in Operator |-> commands[o]]
    BY DEF IdentityInv, StoreTypes
  <2>2. ASSUME NEW o \in Operator, NEW new, commands' = [commands EXCEPT ![o] = new]
        PROVE  commands' = [d \in Operator |-> commands'[d]]
    BY <2>1, <2>2
  <2> QED
    BY <2>1, <2>2 DEF AnyStep, CommandsDo
<1> QED
  BY <1>1, <1>2
     DEF StoreTypes, AnyStep, StoreDoes, KeysDo, PrincipalsDo, TokensDo, SignersDo, CacheDoes,
         TimeDoes, HistoryDoes

LEMMA StoreKept == ASSUME IdentityInv, AnyStep, Grows PROVE StoreOK'
<1>1. \A id \in Principal : principals'[id] # None => principals'[id].id = id
  BY DEF AnyStep, StoreDoes, PrincipalsDo
<1>2. ASSUME NEW k \in Key, keys'[k] # None PROVE There(keys[k].principal)'
  <2>1. PICK id : keys'[k].principal = id /\ There(id)
    BY <1>2 DEF AnyStep, StoreDoes, KeysDo
  <2>2. id \in Principal /\ principals'[id] # None
    BY <2>1 DEF There, Grows, StoreGrows
  <2> QED
    BY <2>1, <2>2 DEF There
<1>3. ASSUME NEW t \in Token, tokens'[t] # None
      PROVE  /\ Claims(tokens[t])' /\ tokens'[t].signer \in ToSet(signers')
             /\ tokens'[t].expires \in Int
  <2>1. PICK new : /\ tokens'[t] = new /\ Claims(new) /\ new.signer \in ToSet(signers)
                   /\ new.expires \in Int
    <3>1. CASE tokens'[t] = tokens[t]
      BY <1>3, <3>1 DEF IdentityInv, StoreOK
    <3> QED
      BY <1>3, <3>1 DEF AnyStep, StoreDoes, TokensDo
  <2>2. Claims(new)'
    BY <2>1, ClaimsLater DEF Grows
  <2>3. Claims(tokens[t])'
    BY <2>1, <2>2 DEF Claims, Granted, OfHolder, There, Made
  <2>4. new.signer \in ToSet(signers')
    BY <2>1 DEF Grows, StoreGrows
  <2> QED
    BY <2>1, <2>3, <2>4
<1> QED
  BY <1>1, <1>2, <1>3 DEF StoreOK

LEMMA HistoryKept == ASSUME IdentityInv, AnyStep PROVE HistoryOK'
<1>1. now \in Int /\ now' \in Int /\ now' >= now
  BY ConstantFacts DEF IdentityInv, StoreTypes, AnyStep, TimeDoes
<1>2. ASSUME NEW id \in Principal, lived'[id] # None PROVE lived'[id] <= now'
  <2>1. lived'[id] = now' \/ (lived'[id] = lived[id] /\ lived[id] \in Int /\ lived[id] <= now)
    BY <1>2 DEF AnyStep, HistoryDoes, IdentityInv, HistoryOK, StoreTypes
  <2> QED
    BY <1>1, <2>1
<1> QED
  BY <1>2 DEF HistoryOK, AnyStep, HistoryDoes

LEMMA CallsKept ==
    ASSUME IdentityInv, AnyStep, Grows PROVE OnTime' /\ \A c \in Call : CallOK(calls[c])'
<1>1. \A r : CallOK(r) => CallOK(r)'
  BY CallLater DEF IdentityInv
<1>2. \A c \in Call : \E r : CallOK(r) /\ calls'[c] = r
  <2>1. CASE UNCHANGED calls
    BY <2>1 DEF IdentityInv
  <2>2. ASSUME NEW d \in Call, NEW new, BecomesOf(d, new)
        PROVE  \A c \in Call : \E r : CallOK(r) /\ calls'[c] = r
    <3>1. \A c \in Call : calls'[c] = IF c = d THEN new ELSE calls[c]
      BY <2>2 DEF BecomesOf, IdentityInv, StoreTypes
    <3> QED
      BY <2>2, <3>1 DEF BecomesOf, IdentityInv
  <2> QED
    BY <2>1, <2>2 DEF AnyStep, Becomes
<1>3. \A c \in Call : CallOK(calls[c])'
  <2> TAKE c \in Call
  <2>1. PICK r : CallOK(r) /\ calls'[c] = r
    BY <1>2
  <2>2. CallOK(r)'
    BY <1>1, <2>1
  <2> QED
    BY <2>1, <2>2 DEF CallOK, AtReads, ReadToken, ReadTheKey, Answered, Issuing, Claims, Granted,
                      OfHolder, EndsFrom, There, Made, Result, IsToken
<1>4. OnTime'
  <2>1. CASE now' # now
    BY <2>1 DEF AnyStep, TimeDoes
  <2>2. CASE now' = now /\ UNCHANGED calls
    BY <2>2 DEF OnTime, IdentityInv
  <2>3. ASSUME now' = now, NEW d \in Call, NEW new, BecomesOf(d, new) PROVE OnTime'
    <3>0. now \in Int /\ Lag \in Nat /\ now - now <= Lag
      BY ConstantFacts DEF IdentityInv, StoreTypes
    <3>1. \A c \in Call : calls'[c] = IF c = d THEN new ELSE calls[c]
      BY <2>3 DEF BecomesOf, IdentityInv, StoreTypes
    <3>2. new.pc \in {"signer", "key", "principal"} => now - new.started <= Lag
      <4>1. CASE new.started = now
        BY <3>0, <4>1
      <4>2. CASE new.started # now
        BY <2>3, <4>2 DEF BecomesOf, IdentityInv, OnTime
      <4> QED
        BY <4>1, <4>2
    <3> QED
      BY <2>3, <3>1, <3>2 DEF OnTime, IdentityInv
  <2> QED
    BY <2>1, <2>2, <2>3 DEF AnyStep, Becomes
<1> QED
  BY <1>3, <1>4
LEMMA CacheKept == ASSUME IdentityInv, AnyStep, Grows PROVE \A p \in Presented : CacheOK(p)'
<1> TAKE p \in Presented
<1>1. CASE cache'[p] = None
  BY <1>1 DEF CacheOK
<1>2. CASE cache'[p] = cache[p]
  BY <1>2, CacheLater DEF IdentityInv
<1>3. CASE NewAnswer(p, cache'[p])
  <2>1. PICK res, t : /\ t = now /\ cache'[p] = [at |-> t, result |-> res] /\ Result(res, t)
                      /\ res.ok \/ since[p] = None \/ t \in ToSet(failed')
    BY <1>3 DEF NewAnswer
  <2>2. t \in Int /\ t <= now /\ t <= now'
    BY <2>1, ConstantFacts DEF IdentityInv, StoreTypes, AnyStep, TimeDoes
  <2>3. Result(res, t)'
    BY <2>1, <2>2, ResultLater DEF IdentityInv
  <2>4. cache'[p].at = t /\ cache'[p].result = res
    BY <2>1
  <2>5. res.ok \/ since'[p] = None \/ since'[p] >= t \/ t \in ToSet(failed')
    BY <2>1, <2>2 DEF AnyStep, HistoryDoes
  <2>6. Result(cache[p].result, cache[p].at)'
    BY <2>3, <2>4 DEF Result, OfKey, OfToken, OfBoot, SoundFrom, EndsFrom, LivedTo, OfHolder,
                      ReadOf, Granted, There, Made
  <2> QED
    BY <2>2, <2>4, <2>5, <2>6 DEF CacheOK
<1> QED
  BY <1>1, <1>2, <1>3 DEF AnyStep, CacheDoes

LEMMA CommandsKept ==
    ASSUME IdentityInv, AnyStep, Grows PROVE \A o \in Operator : CommandOK(commands[o])'
<1> TAKE o \in Operator
<1>1. \A r : CommandOK(r) => CommandOK(r)'
  BY CommandLater DEF Grows
<1>2. \A r : r.pc = "end" /\ HandOver(r.old)' => CommandOK(r)'
  BY DEF CommandOK
<1>3. CommandOK(commands[o])
  BY DEF IdentityInv
<1>4. PICK r : CommandOK(r)' /\ commands'[o] = r
  <2>1. CASE UNCHANGED commands
    BY <1>1, <1>3, <2>1
  <2>2. ASSUME NEW d \in Operator, NEW new, commands' = [commands EXCEPT ![d] = new],
               CommandOK(new) \/ (new.pc = "end" /\ HandOver(new.old)')
        PROVE  \E r : CommandOK(r)' /\ commands'[o] = r
    <3>1. commands'[o] = IF o = d THEN new ELSE commands[o]
      BY <2>2 DEF IdentityInv, StoreTypes
    <3> QED
      BY <1>1, <1>2, <1>3, <2>2, <3>1
  <2> QED
    BY <2>1, <2>2 DEF AnyStep, CommandsDo
<1> QED
  BY <1>4 DEF CommandOK, HandOver, Made

LEMMA IdentityStep == IdentityInv /\ [Next]_vars => IdentityInv'
<1> SUFFICES ASSUME IdentityInv, [Next]_vars PROVE IdentityInv'
  OBVIOUS
<1>1. AnyStep /\ Grows
  BY NextDoes, StepGrows
<1> QED
  BY <1>1, TypesKept, StoreKept, HistoryKept, CallsKept, CacheKept, CommandsKept DEF IdentityInv

LEMMA IdentityInit == Init => IdentityInv
<1> SUFFICES ASSUME Init PROVE IdentityInv
  OBVIOUS
<1>1. /\ now = 0 /\ 0 \in 0 .. MaxTime /\ now \in Int
      /\ principals \in InitPrincipals /\ keys = InitKeys
      /\ principals \in [Principal -> PrincipalRecords \cup {None}]
      /\ keys \in [Key -> KeyRecords \cup {None}]
  BY ConstantFacts, StartAssumption DEF Init
<1>2. /\ signers \in Seq(SigningKey) /\ failed \in Seq(Int)
      /\ tokens = [t \in Token |-> tokens[t]] /\ cache = [p \in Presented |-> cache[p]]
      /\ calls = [c \in Call |-> calls[c]] /\ commands = [o \in Operator |-> commands[o]]
      /\ since \in [Presented -> Int \cup {None}]
  BY DEF Init
<1>3. lived \in [Principal -> Int \cup {None}]
  BY <1>1 DEF Init
<1>4. StoreTypes
  BY <1>1, <1>2, <1>3 DEF StoreTypes
<1>5. StoreOK
  <2>1. \A id \in Principal : principals[id] # None => principals[id].id = id
    BY <1>1, StartAssumption
  <2>2. ASSUME NEW k \in Key, keys[k] # None PROVE There(keys[k].principal)
    <3>1. keys[k] \in KeyRecords
      BY <1>1, <2>2
    <3>2. keys[k].principal \in Principal
      BY <3>1 DEF KeyRecords
    <3> QED
      BY <1>1, <2>2, <3>2, StartAssumption DEF There
  <2> QED
    BY <2>1, <2>2 DEF StoreOK, Init
<1>6. HistoryOK
  BY <1>1 DEF HistoryOK, Init
<1>7. OnTime /\ \A c \in Call : CallOK(calls[c])
  BY DEF OnTime, CallOK, Init, Idle
<1>8. \A p \in Presented : CacheOK(p)
  BY DEF CacheOK, Init
<1>9. \A o \in Operator : CommandOK(commands[o])
  BY DEF CommandOK, Init, Idle
<1> QED
  BY <1>4, <1>5, <1>6, <1>7, <1>8, <1>9 DEF IdentityInv

(* For any keys, tokens, callers and operators: what the cache and a call  *)
(* in progress hold of a caller is what the store held when it was read,   *)
(* and no reading is used longer than a cache entry lives.                 *)
THEOREM IdentityInvariant == Spec => []IdentityInv
  BY IdentityInit, IdentityStep, PTL DEF Spec

LEMMA ServedIs ==
    ASSUME IdentityInv, NEW c \in Call, calls[c].pc = "served"
    PROVE  /\ OfKey(Who(c)) \/ OfToken(Who(c)) \/ OfBoot(Who(c))
           /\ calls[c].at \in Int /\ SoundFrom(Who(c), calls[c].at - CacheTtl + 1)
<1>1. CallOK(calls[c]) /\ calls[c] # Idle
  BY DEF IdentityInv, Idle
<1>2. Answered(calls[c])
  BY <1>1 DEF CallOK, AtReads, Issuing
<1> QED
  BY <1>2 DEF Answered, Result, Who

(* No identity is served that has not been sound within the time answers   *)
(* are cached, whatever operators do meanwhile, and however many there are.*)
THEOREM ServedWasSoundHolds == Spec => []ServedWasSound
<1>1. IdentityInv => ServedWasSound
  <2> SUFFICES ASSUME IdentityInv, NEW c \in Call, calls[c].pc = "served"
               PROVE  /\ Who(c).key # Bootstrap =>
                           ~EndedBy(Who(c).key, calls[c].at - CacheTtl - Lag)
                      /\ Who(c).key # Bootstrap \/ Who(c).via = "token" =>
                           /\ lived[Who(c).principal.id] # None
                           /\ lived[Who(c).principal.id] > calls[c].at - CacheTtl
    BY DEF ServedWasSound
  <2> DEFINE who == Who(c)
             at == calls[c].at
  <2>0. at \in Int /\ CacheTtl \in Nat /\ Lag \in Nat
    BY ServedIs, ConstantFacts
  <2>1. OfKey(who) \/ OfToken(who) \/ OfBoot(who)
    BY ServedIs
  <2>2. SoundFrom(who, at - CacheTtl + 1)
    BY ServedIs
  <2>3. ASSUME who.key # Bootstrap PROVE ~EndedBy(who.key, at - CacheTtl - Lag)
    <3>1. who.key \in Key /\ keys[who.key] # None
      BY <2>1, <2>3 DEF OfKey, OfToken, OfBoot, Granted, OfHolder, Made
    <3>2. keys[who.key] \in KeyRecords
      BY <3>1 DEF IdentityInv, StoreTypes
    <3>3. /\ keys[who.key].revoked \in Int \cup {None}
          /\ keys[who.key].expires \in Int \cup {None}
      BY <3>2 DEF KeyRecords
    <3>4. PICK t \in Int : t = at - CacheTtl + 1
      BY <2>0
    <3>5. EndsFrom(who.key, t - Lag)
      BY <2>2, <2>3, <3>4 DEF SoundFrom
    <3> HIDE DEF who, at
    <3> QED
      BY <2>0, <3>3, <3>4, <3>5 DEF EndsFrom, EndedBy
  <2>4. ASSUME who.key # Bootstrap \/ who.via = "token"
        PROVE  lived[who.principal.id] # None /\ lived[who.principal.id] > at - CacheTtl
    <3>1. who.via # "bootstrap"
      BY <2>1, <2>4 DEF OfKey, OfToken, OfBoot
    <3>2. LivedTo(who.principal.id, at - CacheTtl + 1)
      BY <2>2, <3>1 DEF SoundFrom
    <3>3. lived[who.principal.id] \in Int /\ lived[who.principal.id] # None
          /\ lived[who.principal.id] >= at - CacheTtl + 1
      BY <3>2 DEF LivedTo, IdentityInv, StoreTypes
    <3> HIDE DEF who, at
    <3> QED
      BY <2>0, <3>3
  <2> QED
    BY <2>3, <2>4
<1> QED
  BY <1>1, IdentityInvariant, PTL

(* No token gives more than its issuer had, through any chain of issuing   *)
(* and presenting.                                                         *)
THEOREM TokensNarrowHolds == Spec => []TokensNarrow
<1>1. IdentityInv => TokensNarrow
  <2> SUFFICES ASSUME IdentityInv, NEW c \in Call, calls[c].pc = "served", Who(c).via = "token"
               PROVE  /\ Who(c).principal.kind = "agent"
                      /\ Who(c).scopes \subseteq RolePermissions["agent"] \ {"TOKEN"}
                      /\ Who(c).key # Bootstrap =>
                           /\ Who(c).scopes \subseteq keys[Who(c).key].scopes
                           /\ principals[keys[Who(c).key].principal].kind = "user" =>
                                Who(c).user = principals[keys[Who(c).key].principal].id
    BY DEF TokensNarrow
  <2>1. OfToken(Who(c))
    BY ServedIs DEF OfKey, OfBoot
  <2>2. ASSUME Who(c).key # Bootstrap
        PROVE  /\ OfHolder(Who(c).key, Who(c).user)
               /\ Who(c).scopes \subseteq keys[Who(c).key].scopes
    BY <2>1, <2>2 DEF OfToken, Granted
  <2> QED
    BY <2>1, <2>2 DEF OfToken, Granted, OfHolder, There, IdentityInv, StoreOK
<1> QED
  BY <1>1, IdentityInvariant, PTL

LEMMA StepRefuses ==
    ASSUME IdentityInv, AnyStep, NEW c \in Call, calls[c].pc # "refused", calls'[c].pc = "refused"
    PROVE  Blamed(calls'[c].asks)
<1>1. PICK d \in Call : Becomes(d)
  BY DEF AnyStep
<1>2. PICK new : BecomesOf(d, new)
  BY <1>1 DEF Becomes
<1>3. c = d /\ calls'[c] = new
  BY <1>2 DEF BecomesOf, IdentityInv, StoreTypes
<1> QED
  BY <1>2, <1>3 DEF BecomesOf

(* A credential that has been in order for as long as answers are cached   *)
(* is not refused while the store can be read.                             *)
THEOREM RefusedForCauseHolds == Spec => RefusedForCause
<1> DEFINE Step == \A c \in Call : calls[c].pc # "refused" /\ calls'[c].pc = "refused" =>
                     LET p == calls'[c].asks
                     IN  since[p] = None \/ now - since[p] < CacheTtl + Lag \/ RecentlyFailed
<1>1. IdentityInv /\ [Next]_vars => Step
  <2> SUFFICES ASSUME IdentityInv, [Next]_vars, NEW c \in Call, calls[c].pc # "refused",
                      calls'[c].pc = "refused"
               PROVE  \/ since[calls'[c].asks] = None
                      \/ now - since[calls'[c].asks] < CacheTtl + Lag
                      \/ RecentlyFailed
    OBVIOUS
  <2>1. Blamed(calls'[c].asks)
    BY NextDoes, StepRefuses
  <2>2. now \in Int /\ CacheTtl \in Nat /\ Lag \in Nat
    BY ConstantFacts DEF IdentityInv, StoreTypes
  <2>3. \A t \in Int : now - t < CacheTtl => now - t < CacheTtl + Lag
    BY <2>2
  <2> QED
    BY <2>1, <2>3 DEF Blamed, RecentlyFailed
<1> QED
  BY <1>1, IdentityInvariant, PTL DEF Spec, RefusedForCause

(* However a rotation and the commands beside it are cut short, a key only *)
(* runs out early once there is another in its place.                      *)
THEOREM HandedOverHolds == Spec => HandedOver
<1> DEFINE Step == \A k \in Key : keys[k] # None /\ keys'[k].expires # keys[k].expires =>
                     \E new \in Key \ {k} : /\ keys[new] # None
                                            /\ keys[new].principal = keys[k].principal
                                            /\ keys[new].scopes = keys[k].scopes
<1>1. IdentityInv /\ [Next]_vars => Step
  BY NextDoes DEF AnyStep, ExpiresDo, HandOver, Made
<1> QED
  BY <1>1, IdentityInvariant, PTL DEF Spec, HandedOver
=============================================================================
