---------------------------- MODULE RulesProofs -----------------------------
(***************************************************************************)
(* The rules the system computes by, for every input: what the write path  *)
(* makes of a record and what an export says of it (Statements, Pipeline,  *)
(* Format), how the pages of a listing meet (Listing), and what a compiled *)
(* policy owes to the governance it was compiled under (Governance).       *)
(***************************************************************************)
EXTENDS Format, Listing, Governance, FiniteSetTheorems, WellFoundedInduction, TLAPS

(***************************************************************************)
(* Statements, Pipeline and Format.                                        *)
(***************************************************************************)
LEMMA MarkHasNoHits ==
    ASSUME NEW category, NEW redact
    PROVE  Hits(Mark(category), redact) = {}
  BY DEF Hits, Mark, Matches

LEMMA RedactedHasNoHits ==
    ASSUME NEW piece, NEW redact
    PROVE  Hits(RedactPiece(piece, redact), redact) = {}
  BY MarkHasNoHits DEF RedactPiece

LEMMA StaysWithoutHits ==
    ASSUME NEW piece, NEW first, NEW later, Hits(piece, first) = {}
    PROVE  Hits(RedactPiece(piece, later), first) = {}
  BY MarkHasNoHits DEF RedactPiece

LEMMA PiecesOf ==
    ASSUME NEW text, "pieces" \in DOMAIN text, NEW redact, NEW i \in DOMAIN text.pieces
    PROVE  /\ DOMAIN RedactText(text, redact).pieces = DOMAIN text.pieces
           /\ RedactText(text, redact).pieces[i] = RedactPiece(text.pieces[i], redact)
           /\ "pieces" \in DOMAIN RedactText(text, redact)
  BY DEF RedactText

(***************************************************************************)
(* intake.rs reredact says redaction is idempotent, so that text already   *)
(* redacted is unchanged: a second redaction under the same categories     *)
(* finds nothing and changes nothing.                                      *)
(***************************************************************************)
THEOREM RedactionIdempotent ==
    ASSUME NEW text, "pieces" \in DOMAIN text, NEW redact
    PROVE  LET once == RedactText(text, redact)
           IN  RedactText(once, redact) = once /\ Redactions(once, redact) = {}
<1> DEFINE once == RedactText(text, redact)
<1>1. ASSUME NEW i \in DOMAIN text.pieces
      PROVE  Hits(once.pieces[i], redact) = {}
  BY PiecesOf, RedactedHasNoHits
<1>2. DOMAIN once.pieces = DOMAIN text.pieces
  BY DEF RedactText
<1>3. Redactions(once, redact) = {}
  BY <1>1, <1>2 DEF Redactions
<1>4. [i \in DOMAIN once.pieces |-> RedactPiece(once.pieces[i], redact)] = once.pieces
  <2>1. \A i \in DOMAIN once.pieces : RedactPiece(once.pieces[i], redact) = once.pieces[i]
    BY <1>1, <1>2 DEF RedactPiece
  <2>2. once.pieces = [i \in DOMAIN text.pieces |-> RedactPiece(text.pieces[i], redact)]
    BY DEF RedactText
  <2> QED
    BY <2>1, <2>2
<1>5. RedactText(once, redact) = [once EXCEPT !.pieces = once.pieces]
  BY <1>4 DEF RedactText
<1>6. once = [once EXCEPT !.pieces = once.pieces]
  BY DEF RedactText
<1> QED
  BY <1>3, <1>5, <1>6

(***************************************************************************)
(* intake.rs run_pipeline and reredact: whatever policy a write was queued *)
(* under, what goes on to the gate and the embedder has nothing left that  *)
(* the policy in force redacts, and nothing that the older one did.        *)
(***************************************************************************)
THEOREM PolicyInForceRedacts ==
    ASSUME NEW policy, NEW it, "pieces" \in DOMAIN it.text,
           "text" \in DOMAIN it, "status" \in DOMAIN it, NEW older,
           \A i \in DOMAIN it.text.pieces : Hits(it.text.pieces[i], older) = {},
           it.policy = policy.version => policy.categories \subseteq older
    PROVE  LET now == UnderPolicy(policy, it).text
           IN  \A i \in DOMAIN now.pieces :
                 Hits(now.pieces[i], policy.categories) = {} /\ Hits(now.pieces[i], older) = {}
<1> DEFINE now == UnderPolicy(policy, it).text
<1>1. CASE it.policy = policy.version
  <2>1. now = it.text
    BY <1>1 DEF UnderPolicy
  <2>2. \A piece : Hits(piece, older) = {} => Hits(piece, policy.categories) = {}
    BY <1>1 DEF Hits
  <2> QED
    BY <2>1, <2>2
<1>2. CASE it.policy # policy.version
  <2>1. now = RedactText(it.text, policy.categories)
    BY <1>2 DEF UnderPolicy, Reredact
  <2>2. ASSUME NEW i \in DOMAIN it.text.pieces
        PROVE  /\ Hits(now.pieces[i], policy.categories) = {}
               /\ Hits(now.pieces[i], older) = {}
    BY <2>1, PiecesOf, RedactedHasNoHits, StaysWithoutHits
  <2>3. DOMAIN now.pieces = DOMAIN it.text.pieces
    BY <2>1 DEF RedactText
  <2> QED
    BY <2>2, <2>3
<1> QED
  BY <1>1, <1>2

-----------------------------------------------------------------------------
(* What an item has that EXCEPT can change.                                *)
IsItem(it) ==
    DOMAIN NewItem("id", "semantic", Nothing, {}) \subseteq DOMAIN it

LEMMA ItemFields ==
    ASSUME NEW it, IsItem(it)
    PROVE  {"status", "text", "class", "meta", "expires", "embedded", "supersedes", "superseded",
            "actions", "confirms", "route", "kind", "duplicate", "tags"} \subseteq DOMAIN it
  BY DEF IsItem, NewItem

LEMMA FirstIsOne ==
    ASSUME NEW s, s \subseteq 1 .. 7, 1 \in s
    PROVE  First(s) = 1
<1>1. 1 \in s /\ \A j \in s : 1 <= j
  OBVIOUS
<1>2. \A i \in s : (\A j \in s : i <= j) => i = 1
  OBVIOUS
<1> QED
  BY <1>1, <1>2 DEF First

LEMMA HedgedReadsAsSpeculation ==
    ASSUME NEW text, NEW kind, "speculation" \in text.markers
    PROVE  ClassifyText(text, kind).statement = "speculation"
<1> DEFINE read == Rules(text, kind)
           hits == {i \in DOMAIN read : read[i] # Nothing}
<1>1. DOMAIN read = 1 .. 7 /\ read[1] = "speculation"
  BY DEF Rules
<1>2. 1 \in hits /\ hits \subseteq 1 .. 7
  BY <1>1 DEF Nothing
<1>3. First(hits) = 1
  BY <1>2, FirstIsOne
<1>4. hits # {}
  BY <1>2
<1> QED
  BY <1>1, <1>3, <1>4 DEF ClassifyText

(***************************************************************************)
(* classify.rs says of SPECULATION: checked first, a hedged correction     *)
(* must not supersede.  Read by the rules, whatever other markers it has   *)
(* and whatever the extractor took it for, a hedged statement is never     *)
(* committed by the gate: it is held, with an end, for a reviewer or in    *)
(* quarantine.  Only the open item of a caller is not.                     *)
(***************************************************************************)
THEOREM HedgedIsHeld ==
    ASSUME NEW cfg, NEW entry, NEW it, IsItem(it), it.kind # "episodic",
           it.kind # "commitment" \/ it.derived, it.status # "rejected",
           "speculation" \in it.text.markers
    PROVE  LET gated == GateItem(cfg, entry, it, Nothing)
           IN  /\ gated.status \in {"candidate", "quarantined"}
               /\ Held(gated.class.statement)
<1> DEFINE class == ReadAs(it, Nothing)
<1>1. ChatClassify(Nothing, it.text, it.kind).statement = "speculation"
  BY HedgedReadsAsSpeculation DEF ChatClassify
<1>2. Held(class.statement)
  <2>1. CASE HintWins(it.hint, "speculation")
    <3>1. it.hint = "plan"
      BY <2>1 DEF HintWins
    <3>2. class = [ChatClassify(Nothing, it.text, it.kind) EXCEPT !.statement = it.hint]
      BY <1>1, <2>1 DEF ReadAs
    <3>3. "statement" \in DOMAIN ChatClassify(Nothing, it.text, it.kind)
      BY DEF ChatClassify, ClassifyText
    <3> QED
      BY <3>1, <3>2, <3>3 DEF Held
  <2>2. CASE ~HintWins(it.hint, "speculation")
    BY <1>1, <2>2 DEF ReadAs, Held
  <2> QED
    BY <2>1, <2>2
<1>4. Holds(it, class)
  BY <1>2 DEF Holds
<1>5. GateStatus(entry, it, class) \in {"quarantined", "candidate", "held"}
  BY <1>4 DEF GateStatus
<1> HIDE DEF class
<1>6. GateItem(cfg, entry, it, Nothing).status \in {"candidate", "quarantined"}
  BY <1>5, ItemFields DEF GateItem, class
<1>7. GateItem(cfg, entry, it, Nothing).class = class
  BY ItemFields DEF GateItem, class
<1> QED
  BY <1>2, <1>6, <1>7

(***************************************************************************)
(* intake.rs run_pipeline: a kind that the policy in force no longer       *)
(* allows is rejected before any model sees the content.  Such a record is *)
(* not classified, not embedded, supersedes nothing and stays rejected,    *)
(* and its rejection is audited.                                           *)
(***************************************************************************)
THEOREM RefusedKindUnread ==
    ASSUME NEW policy, NEW cfg, NEW entry, NEW it, IsItem(it), it.kind \notin policy.allowed,
           it.kind # "episodic", it.embedded = FALSE, it.class = NoClass,
           it.superseded = Nothing,
           NEW answer, NEW near, NEW held, NEW stored, NEW taken, NEW now, NEW actor
    PROVE  LET gated == GateItem(cfg, entry, UnderPolicy(policy, it), answer)
               sent == EmbedItem(RouteItem(gated))
               out == Resolve(policy, cfg, entry, sent, near, held, stored, taken, now, actor)
           IN  /\ gated.class = NoClass /\ sent.embedded = FALSE
               /\ out.status = "rejected" /\ out.superseded = Nothing
               /\ out.actions = Actions(entry, out, actor)
<1> DEFINE u == UnderPolicy(policy, it)
           gated == GateItem(cfg, entry, u, answer)
           sent == EmbedItem(RouteItem(gated))
           settled == Settled(policy, cfg, sent, near, held, stored, taken, now)
           out == Resolve(policy, cfg, entry, sent, near, held, stored, taken, now, actor)
<1>1. /\ u.status = "rejected" /\ u.class = NoClass /\ u.kind = it.kind
      /\ u.embedded = FALSE /\ u.superseded = Nothing /\ DOMAIN u = DOMAIN it
  BY ItemFields DEF UnderPolicy, Reredact
<1>2. gated = u
  BY <1>1 DEF GateItem
<1> HIDE DEF u
<1>3. /\ sent.status = "rejected" /\ sent.class = NoClass /\ sent.kind = it.kind
      /\ sent.embedded = FALSE /\ sent.superseded = Nothing /\ DOMAIN sent = DOMAIN it
  BY <1>1, <1>2, ItemFields DEF EmbedItem, RouteItem
<1> HIDE DEF sent
<1>4. settled = sent
  <2>1. CASE sent.supersedes # Nothing
    BY <1>3, <2>1 DEF Settled, Revises
  <2>2. CASE sent.supersedes = Nothing
    BY <1>3, <2>2 DEF Settled
  <2> QED
    BY <2>1, <2>2
<1>5. out = [sent EXCEPT !.actions = Actions(entry, sent, actor)]
  BY <1>3, <1>4 DEF Resolve
<1>6. Actions(entry, out, actor) = Actions(entry, sent, actor)
  BY <1>3, <1>5, ItemFields DEF Actions
<1> QED
  BY <1>1, <1>2, <1>3, <1>5, <1>6, ItemFields DEF u, sent

-----------------------------------------------------------------------------
LEMMA FirstIn ==
    ASSUME NEW s, s \subseteq Nat, s # {}
    PROVE  First(s) \in s /\ \A j \in s : First(s) <= j
<1>1. PICK x \in s : \A y \in s : ~(<<y, x>> \in OpToRel(<, Nat))
  BY WFMin, NatLessThanWellFounded
<1>2. \A y \in s : ~(y < x)
  BY <1>1 DEF OpToRel
<1>3. x \in s /\ \A j \in s : x <= j
  BY <1>2
<1> QED
  BY <1>3 DEF First

(***************************************************************************)
(* engine.rs build_rounds: every message of a conversation is in exactly   *)
(* one round.                                                              *)
(***************************************************************************)
THEOREM RoundsPartition ==
    ASSUME NEW messages, NEW n \in Nat, DOMAIN messages = 1 .. n, NEW i \in DOMAIN messages
    PROVE  \E start \in Starts(messages) :
             /\ i \in Members(messages, start)
             /\ \A other \in Starts(messages) : i \in Members(messages, other) => other = start
<1> DEFINE before == {s \in Starts(messages) : s <= i}
           back == {i - s : s \in before}
<1>1. Starts(messages) \subseteq 1 .. n /\ 1 \in before
  BY DEF Starts
<1>2. back \subseteq Nat /\ back # {}
  BY <1>1
<1>3. PICK start \in before : First(back) = i - start
  BY <1>2, FirstIn
<1>4. \A s \in before : s <= start
  <2> SUFFICES ASSUME NEW s \in before PROVE s <= start
    OBVIOUS
  <2>1. First(back) <= i - s
    BY <1>2, FirstIn
  <2> QED
    BY <1>1, <1>3, <2>1
<1>5. i \in Members(messages, start)
  BY <1>1, <1>3, <1>4 DEF Members
<1>6. ASSUME NEW other \in Starts(messages), i \in Members(messages, other)
      PROVE  other = start
  BY <1>1, <1>3, <1>4, <1>6 DEF Members
<1> QED
  BY <1>3, <1>5, <1>6

(***************************************************************************)
(* intake.rs resolve_stage (QUAL-01): what a record supersedes without     *)
(* being a revision was current when it was looked up, was not newer, and  *)
(* was not already superseded by an earlier record of the proposal; and    *)
(* only a committed record supersedes.                                     *)
(***************************************************************************)
THEOREM SupersedesCurrent ==
    ASSUME NEW policy, NEW cfg, NEW entry, NEW it, IsItem(it), it.superseded = Nothing,
           it.supersedes = Nothing,
           NEW near, NEW n \in Nat, DOMAIN near = 1 .. n,
           NEW held, NEW stored, NEW taken, NEW now, NEW actor,
           LET out == Resolve(policy, cfg, entry, it, near, held, stored, taken, now, actor)
           IN  out.superseded # Nothing
    PROVE  LET out == Resolve(policy, cfg, entry, it, near, held, stored, taken, now, actor)
               old == out.superseded
           IN  /\ out.status = "committed" /\ out.supersedes = old
               /\ old \in DOMAIN stored /\ stored[old].status = "committed"
               /\ old \notin taken.superseded
               /\ Or(stored[old].occurred, stored[old].created) <= Or(it.occurred, it.created)
               /\ TakesOver(it, stored[old]) # Nothing
<1> DEFINE settled == Settled(policy, cfg, it, near, held, stored, taken, now)
           out == Resolve(policy, cfg, entry, it, near, held, stored, taken, now, actor)
           corrected == Corrects(cfg, it, near, stored, taken)
           found == {i \in DOMAIN near : MayTake(cfg, it, near[i], stored, taken)}
           old == near[First(found)].id
<1>1. out = [settled EXCEPT !.actions = Actions(entry, settled, actor)]
  BY DEF Resolve
<1>2. settled = Confirms(cfg, corrected, held, stored, taken, now)
  <2>1. CASE it.status = "quarantined" \/ ~it.embedded
    <3>1. settled = it
      BY <2>1 DEF Settled
    <3> QED
      BY <1>1, <3>1, ItemFields
  <2>2. CASE ~(it.status = "quarantined" \/ ~it.embedded) /\ Duplicates(policy, it, near)
    <3>1. settled = [it EXCEPT !.status = "rejected", !.duplicate = near[1].id,
                               !.meta = Set(it.meta, "duplicate_of", near[1].id)]
      BY <2>2 DEF Settled
    <3>2. settled.superseded = Nothing
      BY <3>1, ItemFields
    <3> QED
      BY <1>1, <3>2
  <2>3. CASE ~(it.status = "quarantined" \/ ~it.embedded) /\ ~Duplicates(policy, it, near)
    BY <2>3 DEF Settled
  <2> QED
    BY <2>1, <2>2, <2>3
<1> HIDE DEF settled
<1>3. /\ settled.superseded = corrected.superseded
      /\ settled.supersedes = corrected.supersedes
      /\ settled.status = corrected.status
  <2>1. {"superseded", "supersedes", "status"} \subseteq DOMAIN corrected
    BY ItemFields DEF Corrects
  <2> HIDE DEF corrected
  <2>2. CASE settled = corrected
    BY <2>2
  <2>3. CASE settled # corrected
    <3>1. settled = [corrected EXCEPT !.confirms =
                       Confirmed(cfg, corrected, held, stored, taken, now)]
      BY <1>2, <2>3 DEF Confirms
    <3> QED
      BY <2>1, <3>1
  <2> QED
    BY <2>2, <2>3
<1>4. /\ out.superseded = corrected.superseded
      /\ out.supersedes = corrected.supersedes
      /\ out.status = corrected.status
  BY <1>1, <1>3
<1>5. corrected # it
  BY <1>4
<1>6. it.status = "committed" /\ found # {}
  BY <1>5 DEF Corrects
<1>7. corrected = [it EXCEPT !.supersedes = old, !.superseded = old,
                     !.meta = Set(it.meta, "supersedes_because", TakesOver(it, stored[old]))]
  BY <1>5 DEF Corrects
<1>8. First(found) \in found
  <2>1. found \subseteq Nat /\ found # {}
    BY <1>6
  <2> HIDE DEF found
  <2> QED
    BY <2>1, FirstIn
<1>9. /\ corrected.superseded = old /\ corrected.supersedes = old
      /\ corrected.status = "committed"
  BY <1>6, <1>7, ItemFields
<1>10. /\ old \in DOMAIN stored /\ stored[old].status = "committed" /\ old \notin taken.superseded
       /\ Or(stored[old].occurred, stored[old].created) <= Or(it.occurred, it.created)
       /\ TakesOver(it, stored[old]) # Nothing
  BY <1>8 DEF MayTake
<1> QED
  BY <1>4, <1>9, <1>10

(***************************************************************************)
(* intake.rs resolve_stage: no record that is not a round gets its state   *)
(* without an audit event that says how it came in.                        *)
(***************************************************************************)
THEOREM EveryWriteAudited ==
    ASSUME NEW entry, NEW it, NEW actor,
           it.status \in {"candidate", "committed", "rejected", "quarantined"}
    PROVE  Len(Actions(entry, it, actor)) > 0
<1>1. CASE it.status = "candidate"
  BY <1>1 DEF Actions
<1>2. CASE it.status = "rejected"
  BY <1>2 DEF Actions
<1>3. CASE it.status = "quarantined"
  BY <1>3 DEF Actions
<1>4. CASE it.status = "committed"
  BY <1>4 DEF Actions
<1> QED
  BY <1>1, <1>2, <1>3, <1>4

(***************************************************************************)
(* classify.rs value_update: no statement updates itself, nor one with the *)
(* same quantities, however much the wording differs; and which of two     *)
(* statements is the older one does not matter to it.                      *)
(***************************************************************************)
THEOREM UpdatesChangeAValue ==
    ASSUME NEW a, NEW b, NEW minTenths, ValueUpdate(a, b, minTenths)
    PROVE  a.quantities # b.quantities /\ ValueUpdate(b, a, minTenths)
<1>1. a.words \cap b.words = b.words \cap a.words
  OBVIOUS
<1>2. {Cardinality(a.words), Cardinality(b.words)} = {Cardinality(b.words), Cardinality(a.words)}
  OBVIOUS
<1> QED
  BY <1>1, <1>2 DEF ValueUpdate

-----------------------------------------------------------------------------
(* What the stages keep of a record on its way.                            *)
Keeps(a, b) ==
    /\ DOMAIN b = DOMAIN a
    /\ b.kind = a.kind /\ b.created = a.created /\ b.validTo = a.validTo
    /\ a.expires # Nothing => b.expires # Nothing
    /\ a.status # "superseded" => b.status # "superseded"

LEMMA MoreFields ==
    ASSUME NEW it, IsItem(it)
    PROVE  {"created", "validTo", "focus", "data", "redactions", "policy"} \subseteq DOMAIN it
  BY DEF IsItem, NewItem

LEMMA UnderPolicyKeeps ==
    ASSUME NEW policy, NEW it, IsItem(it)
    PROVE  Keeps(it, UnderPolicy(policy, it))
  BY ItemFields, MoreFields DEF Keeps, UnderPolicy, Reredact

LEMMA GateKeeps ==
    ASSUME NEW cfg, NEW entry, NEW it, IsItem(it), NEW answer
    PROVE  Keeps(it, GateItem(cfg, entry, it, answer))
<1>1. \A class : GateStatus(entry, it, class) # "superseded"
  BY DEF GateStatus
<1>2. \A end : it.expires # Nothing => Or(it.expires, end) # Nothing
  BY DEF Or
<1> QED
  BY <1>1, <1>2, ItemFields, MoreFields DEF Keeps, GateItem

LEMMA RouteAndEmbedKeep ==
    ASSUME NEW it, IsItem(it)
    PROVE  Keeps(it, EmbedItem(RouteItem(it)))
  BY ItemFields, MoreFields DEF Keeps, EmbedItem, RouteItem

LEMMA ResolveKeeps ==
    ASSUME NEW policy, NEW cfg, NEW entry, NEW it, IsItem(it),
           NEW near, NEW held, NEW stored, NEW taken, NEW now, NEW actor
    PROVE  Keeps(it, Resolve(policy, cfg, entry, it, near, held, stored, taken, now, actor))
<1> DEFINE settled == Settled(policy, cfg, it, near, held, stored, taken, now)
           corrected == Corrects(cfg, it, near, stored, taken)
<1>1. Keeps(it, Revises(it, stored))
  BY ItemFields, MoreFields DEF Keeps, Revises
<1>2. Keeps(it, corrected)
  BY ItemFields, MoreFields DEF Keeps, Corrects
<1>3. Keeps(it, Confirms(cfg, corrected, held, stored, taken, now))
  <2> HIDE DEF corrected
  <2> QED
    BY <1>2, ItemFields, MoreFields DEF Keeps, Confirms
<1>4. Keeps(it, settled)
  BY <1>1, <1>3, ItemFields, MoreFields DEF Keeps, Settled
<1> HIDE DEF settled
<1> QED
  BY <1>4, ItemFields, MoreFields DEF Keeps, Resolve, settled

\* A record that remember accepts, as it is queued.
LEMMA PreparedItem ==
    ASSUME Nothing \notin Int, NEW policy, policy.workingTtl \in Int, NEW req, NEW now \in Int,
           Prepare(policy, req, now) # Nothing
    PROVE  LET it == Prepare(policy, req, now)
           IN  /\ IsItem(it) /\ it.created = now /\ it.validTo = req.validTo
               /\ it.status = "candidate"
               /\ it.kind = "working" => it.expires # Nothing
<1> DEFINE kind == Or(req.kind, "semantic")
           parsed == IF req.structured = Nothing THEN StructuredFrom(req.object) ELSE Nothing
           text == IF parsed = Nothing THEN req.text ELSE req.asText
           data == IF parsed = Nothing THEN req.data ELSE Both(parsed.attrs, req.data)
           redact == policy.categories
           base == NewItem(req.id, kind, RedactText(text, redact),
                           Redactions(text, redact) \cup FoundIn(data, redact))
           ends == IF req.expires = Nothing /\ kind = "working"
                   THEN now + policy.workingTtl ELSE req.expires
           made == [base EXCEPT !.data = RedactData(data, redact), !.meta = req.meta,
                       !.structured = req.structured # Nothing \/ parsed # Nothing,
                       !.codeRefs = req.codeRefs, !.supersedes = req.supersedes,
                       !.created = now, !.occurred = Or(req.occurred, now),
                       !.validTo = req.validTo, !.policy = policy.version,
                       !.expires = ends]
<1>1. Prepare(policy, req, now) = made
  BY DEF Prepare
<1>2. ends # Nothing \/ kind # "working"
  <2>1. now + policy.workingTtl \in Int
    OBVIOUS
  <2> QED
    BY <2>1
<1> HIDE DEF ends
<1>3. /\ DOMAIN base = DOMAIN NewItem("id", "semantic", Nothing, {})
      /\ base.kind = kind /\ base.status = "candidate"
      /\ {"created", "validTo", "expires", "kind", "status"} \subseteq DOMAIN base
  BY DEF NewItem
<1> HIDE DEF base
<1>4. /\ DOMAIN made = DOMAIN base /\ made.kind = base.kind /\ made.status = base.status
      /\ made.created = now /\ made.validTo = req.validTo /\ made.expires = ends
  BY <1>3
<1> HIDE DEF made
<1>5. /\ IsItem(made) /\ made.created = now /\ made.validTo = req.validTo
      /\ made.status = "candidate"
      /\ made.kind = "working" => made.expires # Nothing
  BY <1>2, <1>3, <1>4 DEF IsItem
<1> QED
  BY <1>1, <1>5

\* What is asked of the caller's end of validity, and of the rest of a line.
EndsAfter(end, now) == end = Nothing \/ (end \in Int /\ end >= now)

IsPlace(place) ==
    /\ place.tenant # "" /\ place.subject # "" /\ place.content # ""
    /\ \/ place.structured = Nothing
       \/ place.structured.type # "" /\ IsObject(place.structured.attrs)
    /\ place.codeRefs = Nothing \/ PathsOnce(place.codeRefs)

(***************************************************************************)
(* docs/memory-format.md: an export is read back.  The line of a remembered*)
(* record, whatever the pipeline makes of it, passes the check of the      *)
(* import, if its tenant and subject are not blank, its end is not before  *)
(* it is written and it names each path of code once: the write path does  *)
(* not ask for these last two.                                             *)
(***************************************************************************)
THEOREM WritesReadBack ==
    ASSUME Nothing \notin Int,
           NEW policy, policy.workingTtl \in Int, NEW req, NEW now \in Int, NEW cfg, NEW entry,
           Prepare(policy, req, now) # Nothing,
           EndsAfter(req.validTo, now),
           NEW answer, NEW near, NEW held, NEW stored, NEW taken, NEW later, NEW actor,
           NEW place, IsPlace(place)
    PROVE  LET it == Prepare(policy, req, now)
               gated == GateItem(cfg, entry, UnderPolicy(policy, it), answer)
               out == Resolve(policy, cfg, entry, EmbedItem(RouteItem(gated)), near, held, stored,
                              taken, later, actor)
           IN  Checked(LineOf(out, place, out.created), "named")
<1> DEFINE it == Prepare(policy, req, now)
           u == UnderPolicy(policy, it)
           gated == GateItem(cfg, entry, u, answer)
           sent == EmbedItem(RouteItem(gated))
           out == Resolve(policy, cfg, entry, sent, near, held, stored, taken, later, actor)
<1>1. /\ IsItem(it) /\ it.created = now /\ it.validTo = req.validTo
      /\ it.status = "candidate"
      /\ it.kind = "working" => it.expires # Nothing
  BY PreparedItem
<1> HIDE DEF it
<1>2. Keeps(it, u) /\ IsItem(u)
  <2>1. Keeps(it, u)
    BY <1>1, UnderPolicyKeeps
  <2> HIDE DEF u
  <2> QED
    BY <1>1, <2>1 DEF Keeps, IsItem
<1> HIDE DEF u
<1>3. Keeps(u, gated) /\ IsItem(gated)
  <2>1. Keeps(u, gated)
    BY <1>2, GateKeeps
  <2> HIDE DEF gated
  <2> QED
    BY <1>2, <2>1 DEF Keeps, IsItem
<1> HIDE DEF gated
<1>4. Keeps(gated, sent) /\ IsItem(sent)
  <2>1. Keeps(gated, sent)
    BY <1>3, RouteAndEmbedKeep
  <2> HIDE DEF sent
  <2> QED
    BY <1>3, <2>1 DEF Keeps, IsItem
<1> HIDE DEF sent
<1>5. Keeps(sent, out)
  BY <1>4, ResolveKeeps
<1> HIDE DEF out
<1>6. /\ out.kind = it.kind /\ out.created = now /\ out.validTo = req.validTo
      /\ out.status # "superseded"
      /\ out.kind = "working" => out.expires # Nothing
  BY <1>1, <1>2, <1>3, <1>4, <1>5 DEF Keeps
<1>7. Checked(LineOf(out, place, out.created), "named")
  <2> DEFINE line == LineOf(out, place, out.created)
  <2>1. /\ line.tenant # "" /\ line.subject # "" /\ line.content # ""
        /\ Hashed(line.content_hash) /\ line.confidence \in 0 .. 10
        /\ line.status # "superseded"
    <3>1. /\ line.tenant = place.tenant /\ line.subject = place.subject
          /\ line.content = place.content /\ line.status = out.status /\ line.confidence = 10
          /\ line.content_hash = [is |-> "sha256", of |-> place.hashed]
      BY DEF LineOf
    <3> HIDE DEF line
    <3>2. Hashed(line.content_hash)
      <4>1. [is |-> "sha256", of |-> place.hashed].is = "sha256"
        OBVIOUS
      <4> QED
        BY <3>1, <4>1 DEF Hashed
    <3>3. line.confidence \in 0 .. 10
      BY <3>1
    <3>4. line.tenant # "" /\ line.subject # "" /\ line.content # ""
      BY <3>1 DEF IsPlace
    <3>5. line.status # "superseded"
      BY <3>1, <1>6
    <3> QED
      BY <3>2, <3>3, <3>4, <3>5
  <2>2. At(line, "alt_hash") = Nothing \/ Hashed(line.alt_hash)
    BY DEF LineOf, Hashed, At
  <2>3. Timely(line)
    <3>1. /\ "valid_to" \in DOMAIN line /\ "expires_at" \in DOMAIN line
          /\ line.valid_to = out.validTo /\ line.expires_at = out.expires
          /\ line.kind = out.kind /\ line.created_at = out.created
          /\ line.updated_at = out.created /\ line.valid_from = out.created
      BY DEF LineOf
    <3> HIDE DEF line
    <3> QED
      BY <1>6, <3>1 DEF Timely, At, EndsAfter
  <2>4. IsObject(At(line, "metadata"))
    BY DEF LineOf, At, IsObject
  <2>5. \/ At(line, "structured") = Nothing
        \/ line.structured.type # "" /\ IsObject(line.structured.attrs)
    BY DEF LineOf, At, IsPlace
  <2>6. At(line, "code_refs") = Nothing \/ PathsOnce(line.code_refs)
    BY DEF LineOf, At, IsPlace
  <2> HIDE DEF line
  <2>7. Checked(line, "named")
    BY <2>1, <2>2, <2>3, <2>4, <2>5, <2>6 DEF Checked
  <2> QED
    BY <2>7 DEF line
<1> QED
  BY <1>7 DEF out, sent, gated, u, it

-----------------------------------------------------------------------------
\* A line with times.
IsLine(line) ==
    /\ Needed.record \cup {"valid_to", "superseded_by"} \subseteq DOMAIN line
    /\ line.valid_from \in Int /\ line.created_at \in Int /\ line.updated_at \in Int
    /\ line.valid_to = Nothing \/ line.valid_to \in Int

LEMMA LineFields ==
    ASSUME NEW line, IsLine(line)
    PROVE  {"id", "status", "valid_from", "valid_to", "superseded_by", "created_at",
            "updated_at"} \subseteq DOMAIN line
  BY DEF IsLine, Needed

(***************************************************************************)
(* The store's SUPERSEDE_SQL: at no time are a version and its successor   *)
(* both valid, not even when the successor's time began first.             *)
(***************************************************************************)
THEOREM OneVersionAtATime ==
    ASSUME Nothing \notin Int,
           NEW old, IsLine(old), old.status = "committed", NEW new, IsLine(new),
           NEW now \in Int, NEW t \in Int, ValidAt(new, t)
    PROVE  ~ValidAt(SupersededBy(old, new, now), t)
<1> DEFINE after == SupersededBy(old, new, now)
<1>1. after.valid_from = old.valid_from /\ after.valid_to = EndOf(old, new.valid_from)
  BY LineFields DEF SupersededBy
<1>2. /\ EndOf(old, new.valid_from) \in Int
      /\ EndOf(old, new.valid_from) <= Later(new.valid_from, old.valid_from)
  BY DEF IsLine, EndOf, Later, Sooner
<1>3. new.valid_from <= t
  BY DEF ValidAt
<1> HIDE DEF after
<1>4. ASSUME after.valid_from <= t, after.valid_to > t
      PROVE  FALSE
  BY <1>1, <1>2, <1>3, <1>4 DEF IsLine, Later
<1>5. after.valid_to # Nothing
  BY <1>1, <1>2
<1> QED
  BY <1>4, <1>5 DEF ValidAt, after

(***************************************************************************)
(* The same statement: a line that the import accepts is still accepted    *)
(* after its record was superseded.                                        *)
(***************************************************************************)
THEOREM SupersededReadsBack ==
    ASSUME NEW old, IsLine(old), Checked(old, "named"), NEW new, IsLine(new),
           new.id # Nothing, NEW now \in Int
    PROVE  Checked(SupersededBy(old, new, now), "named")
<1> DEFINE after == SupersededBy(old, new, now)
<1>1. CASE old.status # "committed"
  BY <1>1 DEF SupersededBy
<1>2. CASE old.status = "committed"
  <2>1. /\ DOMAIN after = DOMAIN old /\ after.superseded_by = new.id
        /\ after.valid_from = old.valid_from /\ after.created_at = old.created_at
        /\ after.valid_to = EndOf(old, new.valid_from)
        /\ after.updated_at = Later(now, old.created_at)
        /\ \A field \in DOMAIN old \ {"status", "superseded_by", "valid_to", "updated_at"} :
             after[field] = old[field]
    BY <1>2, LineFields DEF SupersededBy
  <2>2. EndOf(old, new.valid_from) >= old.valid_from
    <3>1. old.valid_to = Nothing \/ old.valid_to >= old.valid_from
      BY LineFields DEF Checked, Timely, At
    <3> QED
      BY <3>1 DEF IsLine, EndOf, Later, Sooner
  <2>3. Later(now, old.created_at) >= old.created_at
    BY DEF IsLine, Later
  <2> HIDE DEF after
  <2>4. At(after, "superseded_by") # Nothing
    BY <2>1, LineFields DEF At
  <2>5. Timely(after)
    BY <2>1, <2>2, <2>3 DEF Timely, At, Checked, IsLine, Needed
  <2>6. Checked(after, "named")
    BY <2>1, <2>4, <2>5 DEF Checked, At, IsLine, Needed
  <2> QED
    BY <2>6 DEF after
<1> QED
  BY <1>1, <1>2

(***************************************************************************)
(* The upgrade's last statement raises times "so every record satisfies    *)
(* the format's ordering rules", and it does.                              *)
(***************************************************************************)
THEOREM RepairedInOrder ==
    ASSUME NEW line, IsLine(line)
    PROVE  LET fixed == Repaired(line)
           IN  /\ fixed.updated_at >= fixed.created_at
               /\ fixed.valid_to = Nothing \/ fixed.valid_to >= fixed.valid_from
  BY LineFields DEF IsLine, Repaired, Later

(***************************************************************************)
(* But a record that had no end, and of which only the last change was     *)
(* stamped before its creation, is valid at no time afterwards.            *)
(***************************************************************************)
THEOREM RepairEndsOpenRecords ==
    ASSUME Nothing \notin Int,
           NEW line, IsLine(line), line.valid_to = Nothing, line.updated_at < line.created_at,
           NEW t \in Int
    PROVE  ValidAt(line, line.valid_from) /\ ~ValidAt(Repaired(line), t)
<1>1. /\ Repaired(line).valid_to = line.valid_from
      /\ Repaired(line).valid_from = line.valid_from
  BY LineFields DEF Repaired
<1> QED
  BY <1>1 DEF ValidAt, IsLine

(***************************************************************************)
(* format.rs upgrade_v1: the successor that an upgraded record is given is *)
(* a record of the file that says it supersedes it.                        *)
(***************************************************************************)
THEOREM UpgradeLinksBack ==
    ASSUME NEW file, NEW n \in Nat, DOMAIN file = 1 .. n, NEW i \in DOMAIN file,
           Upgraded(file, i).superseded_by # Nothing
    PROVE  \E j \in DOMAIN file : /\ file[j].id = Upgraded(file, i).superseded_by
                                  /\ file[j].supersedes = file[i].id
<1> DEFINE named == Naming(file, file[i].id)
           back == {n - j : j \in named}
<1>1. Upgraded(file, i).superseded_by = Successor(file, file[i].id)
  BY DEF Upgraded, FromV1
<1>2. named # {} /\ Successor(file, file[i].id) = file[LastOf(named)].id
  BY <1>1 DEF Successor
<1>3. named \subseteq 1 .. n
  BY DEF Naming
<1>4. LastOf(named) \in named
  <2>1. back \subseteq Nat /\ back # {}
    BY <1>2, <1>3
  <2>2. PICK last \in named : First(back) = n - last
    BY <2>1, FirstIn
  <2>3. \A j \in named : j <= last
    <3> SUFFICES ASSUME NEW j \in named PROVE j <= last
      OBVIOUS
    <3>1. First(back) <= n - j
      BY <2>1, FirstIn
    <3> QED
      BY <1>3, <2>2, <3>1
  <2> HIDE DEF named
  <2>4. \E m \in named : \A j \in named : j <= m
    BY <2>3
  <2> QED
    BY <2>4 DEF LastOf
<1> QED
  BY <1>1, <1>2, <1>4 DEF Naming

-----------------------------------------------------------------------------
(***************************************************************************)
(* Listing.                                                                *)
(***************************************************************************)
\* Records have times and ids that are numbers, and an id of their own.
Records(s) ==
    /\ IsFiniteSet(s)
    /\ \A m \in s : m.created \in Int /\ m.id \in Int
    /\ \A m, o \in s : m.id = o.id => m = o

Above(s, m) == {o \in s : Newer(o, m)}

LEMMA LeastIn ==
    ASSUME NEW s, s \subseteq Nat, s # {}
    PROVE  \E x \in s : \A y \in s : x <= y
<1>1. PICK x \in s : \A y \in s : ~(<<y, x>> \in OpToRel(<, Nat))
  BY WFMin, NatLessThanWellFounded
<1>2. \A y \in s : ~(y < x)
  BY <1>1 DEF OpToRel
<1> QED
  BY <1>2

LEMMA Ordered ==
    ASSUME NEW s, Records(s), NEW a \in s, NEW b \in s
    PROVE  /\ ~Newer(a, a)
           /\ a = b \/ Newer(a, b) \/ Newer(b, a)
           /\ Newer(a, b) => ~Newer(b, a)
           /\ \A c \in s : Newer(a, b) /\ Newer(b, c) => Newer(a, c)
  BY DEF Records, Newer

LEMMA AboveCounts ==
    ASSUME NEW s, Records(s), NEW a \in s, NEW b \in s
    PROVE  /\ Cardinality(Above(s, a)) \in Nat
           /\ Newer(a, b) => Cardinality(Above(s, a)) < Cardinality(Above(s, b))
<1>1. Above(s, a) \subseteq s /\ Above(s, b) \subseteq s
  BY DEF Above
<1>2. IsFiniteSet(Above(s, a)) /\ IsFiniteSet(Above(s, b))
  BY <1>1, FS_Subset DEF Records
<1>3. Cardinality(Above(s, a)) \in Nat /\ Cardinality(Above(s, b)) \in Nat
  BY <1>2, FS_CardinalityType
<1>4. ASSUME Newer(a, b)
      PROVE  Cardinality(Above(s, a)) < Cardinality(Above(s, b))
  <2>1. Above(s, a) \subseteq Above(s, b)
    BY <1>4, Ordered DEF Above
  <2>2. a \in Above(s, b) /\ a \notin Above(s, a)
    BY <1>4, Ordered DEF Above
  <2>3. Cardinality(Above(s, a)) <= Cardinality(Above(s, b))
    BY <1>2, <2>1, FS_Subset
  <2>4. Cardinality(Above(s, a)) # Cardinality(Above(s, b))
    BY <1>2, <2>1, <2>2, FS_Subset
  <2> QED
    BY <1>3, <2>3, <2>4
<1> QED
  BY <1>3, <1>4

LEMMA NewestAre ==
    ASSUME NEW s, NEW n, NEW m
    PROVE  m \in Newest(s, n) <=> m \in s /\ Cardinality(Above(s, m)) < n
  BY DEF Newest, Above

\* The newest record of a set is on its first page.
LEMMA PageHasOne ==
    ASSUME NEW s, Records(s), s # {}, NEW n \in Nat \ {0}
    PROVE  Newest(s, n) # {}
<1> DEFINE counts == {Cardinality(Above(s, m)) : m \in s}
<1>1. counts \subseteq Nat /\ counts # {}
  BY AboveCounts
<1>2. PICK x \in s : \A m \in s : Cardinality(Above(s, x)) <= Cardinality(Above(s, m))
  <2> HIDE DEF counts
  <2>1. \E c \in counts : \A d \in counts : c <= d
    BY <1>1, LeastIn
  <2> USE DEF counts
  <2> QED
    BY <2>1
<1>3. Above(s, x) = {}
  <2>1. ASSUME NEW o \in Above(s, x) PROVE FALSE
    <3>1. o \in s /\ Newer(o, x)
      BY DEF Above
    <3>2. /\ Cardinality(Above(s, o)) < Cardinality(Above(s, x))
          /\ Cardinality(Above(s, o)) \in Nat /\ Cardinality(Above(s, x)) \in Nat
      BY <3>1, AboveCounts
    <3> QED
      BY <1>2, <3>1, <3>2
  <2> QED
    BY <2>1
<1>4. Cardinality(Above(s, x)) = 0
  BY <1>3, FS_EmptySet
<1> QED
  BY <1>4, NewestAre

\* A page has a last record.
LEMMA LastIs ==
    ASSUME NEW s, Records(s), NEW n \in Nat \ {0}, s # {}
    PROVE  /\ Last(Newest(s, n)) \in Newest(s, n)
           /\ \A o \in Newest(s, n) : o = Last(Newest(s, n)) \/ Newer(o, Last(Newest(s, n)))
<1> DEFINE page == Newest(s, n)
           left == {n - Cardinality(Above(s, m)) : m \in page}
<1>1. page # {} /\ page \subseteq s
  BY PageHasOne, NewestAre
<1>2. \A m \in page : /\ Cardinality(Above(s, m)) \in Nat
                      /\ n - Cardinality(Above(s, m)) \in Nat
  <2> SUFFICES ASSUME NEW m \in page
               PROVE  /\ Cardinality(Above(s, m)) \in Nat
                      /\ n - Cardinality(Above(s, m)) \in Nat
    OBVIOUS
  <2>1. Cardinality(Above(s, m)) \in Nat
    BY <1>1, AboveCounts
  <2>2. Cardinality(Above(s, m)) < n
    BY NewestAre
  <2> QED
    BY <2>1, <2>2
<1> HIDE DEF page
<1>3. left \subseteq Nat /\ left # {}
  BY <1>1, <1>2
<1>4. PICK x \in page : \A m \in page : n - Cardinality(Above(s, x)) <= n - Cardinality(Above(s, m))
  <2> HIDE DEF left
  <2>1. \E c \in left : \A d \in left : c <= d
    BY <1>3, LeastIn
  <2> USE DEF left
  <2> QED
    BY <2>1
<1>5. ASSUME NEW o \in page
      PROVE  o = x \/ Newer(o, x)
  <2>1. CASE Newer(x, o)
    <3>1. Cardinality(Above(s, x)) < Cardinality(Above(s, o))
      BY <1>1, <2>1, AboveCounts
    <3> QED
      BY <1>2, <1>4, <3>1
  <2> QED
    BY <1>1, <2>1, Ordered
<1>6. \E m \in page : \A o \in page : o = m \/ Newer(o, m)
  BY <1>5
<1> QED
  BY <1>6 DEF Last, page

(***************************************************************************)
(* engine.rs list_page: a record that is there when a page is read and     *)
(* when the next one is, and that is behind the cursor of the first, is on *)
(* one of the two sides of the new cursor: on the page, or behind the      *)
(* cursor it ends with.  So what comes and goes between two pages neither  *)
(* hides a record that stays nor shows it twice.                           *)
(***************************************************************************)
THEOREM PagesMeet ==
    ASSUME NEW q, NEW table, NEW later, NEW cursor, NEW limit \in Int,
           Records(Rows(q, table)),
           NEW m \in Older(Rows(q, table), cursor), m \in Rows(q, later)
    PROVE  LET page == Page(q, table, limit, cursor)
           IN  /\ m \in page.items \/ page.next # {}
               /\ m \in page.items <=> ~(page.next # {} /\ m \in Older(Rows(q, later), page.next))
<1> DEFINE rows == Older(Rows(q, table), cursor)
           n == Limit(limit)
           items == Newest(rows, n)
           last == Last(items)
           next == Page(q, table, limit, cursor).next
<1>1. n \in Nat \ {0}
  BY DEF Limit
<1>2. Records(rows) /\ rows # {}
  <2>1. rows \subseteq Rows(q, table)
    BY DEF Older
  <2>2. IsFiniteSet(rows)
    BY <2>1, FS_Subset DEF Records
  <2> QED
    BY <2>1, <2>2 DEF Records
<1>3. Page(q, table, limit, cursor).items = items
  BY DEF Page
<1>4. next = IF items = rows THEN {} ELSE {[created |-> last.created, id |-> last.id]}
  BY DEF Page
<1>5. last \in items /\ \A o \in items : o = last \/ Newer(o, last)
  BY <1>1, <1>2, LastIs
<1>6. items \subseteq rows
  BY DEF Newest
<1> HIDE DEF rows, n, next
<1>7. next # {} => (m \in Older(Rows(q, later), next) <=> Newer(last, m))
  BY <1>4 DEF Older, Newer
<1>8. CASE m \in items
  <2>1. ~Newer(last, m)
    BY <1>2, <1>5, <1>6, <1>8, Ordered
  <2> QED
    BY <1>3, <1>7, <1>8, <2>1 DEF next
<1>9. CASE m \notin items
  <2>1. m \in rows
    BY DEF rows
  <2>2. next # {}
    BY <1>4, <1>9, <2>1
  <2>3. /\ Cardinality(Above(rows, last)) < n
        /\ ~(Cardinality(Above(rows, m)) < n)
    BY <1>5, <1>9, <2>1, NewestAre
  <2>4. ~Newer(m, last)
    <3>1. ASSUME Newer(m, last) PROVE FALSE
      <4>1. /\ Cardinality(Above(rows, m)) < Cardinality(Above(rows, last))
            /\ Cardinality(Above(rows, m)) \in Nat /\ Cardinality(Above(rows, last)) \in Nat
        BY <1>2, <1>5, <1>6, <2>1, <3>1, AboveCounts
      <4> QED
        BY <1>1, <2>3, <4>1
    <3> QED
      BY <3>1
  <2>5. Newer(last, m)
    BY <1>2, <1>5, <1>6, <1>9, <2>1, <2>4, Ordered
  <2> QED
    BY <1>3, <1>7, <1>9, <2>2, <2>5 DEF next
<1> QED
  BY <1>8, <1>9

-----------------------------------------------------------------------------
(***************************************************************************)
(* Governance.                                                             *)
(***************************************************************************)
(* A configuration compiles to a body with every setting set.              *)
LEMMA FloorType ==
  ASSUME NEW c \in Config
  PROVE  Floor(c) \in Body
BY GovernanceAssumption DEF Floor, Body, Config

(* So does a spec, whatever it leaves out.                                 *)
LEMMA CompileType ==
  ASSUME NEW s \in PolicySpec, NEW c \in Config
  PROVE  Compile(s, c) \in Body
<1>1. Given(s.allowed, Kind) \in SUBSET Kind
  BY DEF PolicySpec, Given
<1>2. /\ Given(s.admission, c.admission) \in Admission
      /\ Given(s.maxContentChars, c.maxContentChars) \in Setting
      /\ Given(s.episodicDays, c.episodicDays) \in Setting
      /\ Given(s.auditReads, c.auditReads) \in BOOLEAN
  BY DEF PolicySpec, Config, Given
<1>3. /\ Given(s.keyword, c.keyword) \in Weight
      /\ Given(s.vector, c.vector) \in Weight
  BY DEF PolicySpec, Config, Given
<1>4. c.redact \cup {Secret} \cup Given(s.redact, {}) \in SUBSET Category
  BY GovernanceAssumption DEF PolicySpec, Config, Given
<1>5. c.deniedLabels \cup Given(s.deniedLabels, {}) \in SUBSET Label
  BY DEF PolicySpec, Config, Given
<1> QED
  BY <1>1, <1>2, <1>3, <1>4, <1>5 DEF Compile, Body

(* No setting of a spec that compiles is looser than the governance's.     *)
LEMMA CompileTightens ==
  ASSUME NEW s \in PolicySpec, NEW c \in Config, Compiles(s, c)
  PROVE  AtLeastAsStrict(Compile(s, c), Floor(c))
<1> DEFINE b == Compile(s, c)
           f == Floor(c)
<1>1. b.allowed \subseteq f.allowed
  BY DEF Compile, Floor, PolicySpec, Given
<1>2. f.admission = "review" => b.admission = "review"
  BY DEF Compile, Floor, Compiles, AdmissionFits, PolicySpec, Config, Admission, Given
<1>3. b.maxContentChars <= f.maxContentChars
  BY DEF Compile, Floor, Compiles, CharsFit, PolicySpec, Config, Setting, Given
<1>4. Within(b.episodicDays, f.episodicDays)
  BY DEF Compile, Floor, Compiles, DaysFit, Within, PolicySpec, Config, Setting, Given
<1>5. f.redact \subseteq b.redact /\ f.deniedLabels \subseteq b.deniedLabels
  BY DEF Compile, Floor
<1>6. f.auditReads => b.auditReads
  BY DEF Compile, Floor, Compiles, RecallFits, PolicySpec, Config, Given
<1>7. f.injection => b.injection
  BY DEF Compile, Floor
<1> QED
  BY <1>1, <1>2, <1>3, <1>4, <1>5, <1>6, <1>7 DEF AtLeastAsStrict

(* The configuration is as strict as itself.                               *)
LEMMA FloorHolds ==
  ASSUME NEW c \in Config
  PROVE  AtLeastAsStrict(Floor(c), Floor(c))
BY DEF AtLeastAsStrict, Floor, Config, Setting, Within

(* One spec, compiled under a stricter configuration, is stricter.         *)
LEMMA CompileMonotone ==
  ASSUME NEW s \in PolicySpec, NEW c \in Config, NEW d \in Config,
         Compiles(s, d), AtLeastAsStrict(Floor(d), Floor(c))
  PROVE  AtLeastAsStrict(Compile(s, d), Compile(s, c))
<1> DEFINE b == Compile(s, d)
           f == Compile(s, c)
<1>1. b.allowed \subseteq f.allowed /\ (f.injection => b.injection)
  BY DEF Compile
<1>2. f.admission = "review" => b.admission = "review"
  BY DEF Compile, Floor, AtLeastAsStrict, Given
<1>3. b.maxContentChars <= f.maxContentChars
  BY DEF Compile, Floor, AtLeastAsStrict, PolicySpec, Config, Setting, Given
<1>4. Within(b.episodicDays, f.episodicDays)
  BY DEF Compile, Floor, AtLeastAsStrict, PolicySpec, Config, Setting, Within, Given
<1>5. f.redact \subseteq b.redact /\ f.deniedLabels \subseteq b.deniedLabels
  BY DEF Compile, Floor, AtLeastAsStrict
<1>6. f.auditReads => b.auditReads
  BY DEF Compile, Floor, AtLeastAsStrict, Given
<1> QED
  BY <1>1, <1>2, <1>3, <1>4, <1>5, <1>6 DEF AtLeastAsStrict

(* What a process runs, at every step: the policy its active spec and its  *)
(* configuration make.                                                     *)
Made ==
  /\ active \in Specs \cup {NoSpec}
  /\ config \in Configs
  /\ running = Runs(active, config)

LEMMA MadeAlways == Spec => []Made
<1>1. Init => Made
  BY DEF Init, Made, Runs
<1>2. Made /\ [Next]_vars => Made'
  <2> SUFFICES ASSUME Made, [Next]_vars PROVE Made'
    OBVIOUS
  <2>1. ASSUME NEW s \in Specs, Activate(s) PROVE Made'
    BY <2>1 DEF Activate, Made
  <2>2. CASE ActivateDefault
    BY <2>2 DEF ActivateDefault, Made
  <2>3. ASSUME NEW c \in Configs, Restart(c) PROVE Made'
    BY <2>3 DEF Restart, Made
  <2>4. CASE UNCHANGED vars
    BY <2>4 DEF vars, Made
  <2> QED
    BY <2>1, <2>2, <2>3, <2>4 DEF Next
<1> QED
  BY <1>1, <1>2, PTL DEF Spec

(* The policy that runs is a body with every setting set.                  *)
THEOREM TypeCorrect == Spec => []TypeOK
<1>1. Made => TypeOK
  <2> SUFFICES ASSUME Made PROVE TypeOK
    OBVIOUS
  <2>1. config \in Config
    BY GovernanceAssumption DEF Made
  <2>2. CASE active # NoSpec /\ Compiles(active, config)
    BY <2>1, <2>2, CompileType, GovernanceAssumption DEF Made, Runs, TypeOK
  <2>3. CASE ~(active # NoSpec /\ Compiles(active, config))
    BY <2>1, <2>3, FloorType DEF Made, Runs, TypeOK
  <2> QED
    BY <2>2, <2>3
<1> QED
  BY <1>1, MadeAlways, PTL

(* The policy that runs is at least as strict as the governance in force,  *)
(* whatever was approved under whatever configuration before (compile,     *)
(* policy_for).                                                            *)
THEOREM GovernanceAlwaysHolds == Spec => []GovernanceHolds
<1>1. Made => GovernanceHolds
  <2> SUFFICES ASSUME Made PROVE GovernanceHolds
    OBVIOUS
  <2>1. config \in Config
    BY GovernanceAssumption DEF Made
  <2>2. CASE active # NoSpec /\ Compiles(active, config)
    BY <2>1, <2>2, CompileTightens, GovernanceAssumption DEF Made, Runs, GovernanceHolds
  <2>3. CASE ~(active # NoSpec /\ Compiles(active, config))
    BY <2>1, <2>3, FloorHolds DEF Made, Runs, GovernanceHolds
  <2> QED
    BY <2>2, <2>3
<1> QED
  BY <1>1, MadeAlways, PTL

(* Recall ranks by something wherever the configuration does.              *)
THEOREM AlwaysRanks == Spec => []RanksSomething
<1>1. Made => RanksSomething
  <2> SUFFICES ASSUME Made PROVE RanksSomething
    OBVIOUS
  <2>1. config \in Config
    BY GovernanceAssumption DEF Made
  <2>2. CASE active # NoSpec /\ Compiles(active, config)
    <3>1. active.keyword # Unset \/ active.vector # Unset => active.ranking
      BY <2>2, GovernanceAssumption DEF Made
    <3> QED
      BY <2>1, <2>2, <3>1 DEF Made, Runs, RanksSomething, Compile, Compiles, RankingFits, Given
  <2>3. CASE ~(active # NoSpec /\ Compiles(active, config))
    BY <2>1, <2>3 DEF Made, Runs, RanksSomething, Floor
  <2> QED
    BY <2>2, <2>3
<1> QED
  BY <1>1, MadeAlways, PTL

(* A stricter configuration makes the policy that runs stricter, as long   *)
(* as the active spec compiles under it.                                   *)
THEOREM StricterAlwaysStricter == Spec => StricterStaysStricter
<1> DEFINE Step == active' = active /\ Compiling' /\ AtLeastAsStrict(Floor(config'), Floor(config))
                     => AtLeastAsStrict(running', running)
<1>1. Made /\ Made' /\ [Next]_vars => [Step]_vars
  <2> SUFFICES ASSUME Made, Made', active' = active, Compiling',
                      AtLeastAsStrict(Floor(config'), Floor(config))
               PROVE  AtLeastAsStrict(running', running)
    OBVIOUS
  <2>1. /\ config \in Config /\ config' \in Config
        /\ active \in PolicySpec
        /\ Compiles(active, config')
        /\ running' = Compile(active, config')
    BY GovernanceAssumption DEF Made, Runs, Compiling, Compiles
  <2>2. CASE Compiles(active, config)
    BY <2>1, <2>2, CompileMonotone DEF Made, Runs, Compiling
  <2>3. CASE ~Compiles(active, config)
    <3>1. running = Floor(config)
      BY <2>3 DEF Made, Runs
    <3>2. AtLeastAsStrict(running', Floor(config'))
      BY <2>1, CompileTightens
    <3>3. /\ running' \in Body /\ Floor(config') \in Body /\ Floor(config) \in Body
      BY <2>1, CompileType, FloorType
    <3> QED
      BY <3>1, <3>2, <3>3 DEF AtLeastAsStrict, Within, Body, Setting
  <2> QED
    BY <2>2, <2>3
<1> QED
  BY <1>1, MadeAlways, PTL DEF Spec, StricterStaysStricter

(* A spec that compiles under one configuration compiles under a looser    *)
(* one with the same ranking weights.                                      *)
LEMMA CompilesLooser ==
  ASSUME NEW s \in PolicySpec, NEW c \in Config, NEW d \in Config,
         Compiles(s, c), AtLeastAsStrict(Floor(c), Floor(d)),
         d.keyword = c.keyword, d.vector = c.vector
  PROVE  Compiles(s, d)
<1>1. AdmissionFits(s, d)
  BY DEF Compiles, AdmissionFits, AtLeastAsStrict, Floor
<1>2. CharsFit(s, d)
  BY DEF Compiles, CharsFit, AtLeastAsStrict, Floor, PolicySpec, Config, Setting
<1>3. DaysFit(s, d)
  BY DEF Compiles, DaysFit, AtLeastAsStrict, Within, Floor, PolicySpec, Config, Setting
<1>4. CategoriesFit(s, d)
  BY DEF Compiles, CategoriesFit, AtLeastAsStrict, Floor
<1>5. RecallFits(s, d)
  BY DEF Compiles, RecallFits, AtLeastAsStrict, Floor
<1>6. RankingFits(s, d)
  BY DEF Compiles, RankingFits
<1> QED
  BY <1>1, <1>2, <1>3, <1>4, <1>5, <1>6 DEF Compiles

(* No relaxation of the configuration sends a tenant back to the default.  *)
THEOREM LooserAlwaysCompiles == Spec => LooserKeepsCompiling
<1> DEFINE Step == /\ Compiling /\ active' = active
                   /\ AtLeastAsStrict(Floor(config), Floor(config'))
                   /\ config'.keyword = config.keyword /\ config'.vector = config.vector
                   => Compiling'
<1>1. Made /\ Made' /\ [Next]_vars => [Step]_vars
  <2> SUFFICES ASSUME Made, Made', Compiling, active' = active,
                      AtLeastAsStrict(Floor(config), Floor(config')),
                      config'.keyword = config.keyword, config'.vector = config.vector
               PROVE  Compiling'
    OBVIOUS
  <2>1. config \in Config /\ config' \in Config /\ active \in PolicySpec
    BY GovernanceAssumption DEF Made, Compiling
  <2>2. Compiles(active, config')
    BY <2>1, CompilesLooser DEF Compiling
  <2>3. Compiles(active', config')
    BY <2>2
  <2> QED
    BY <2>3 DEF Compiling, Compiles, AdmissionFits, CharsFit, DaysFit, CategoriesFit,
                RecallFits, RankingFits
<1> QED
  BY <1>1, MadeAlways, PTL DEF Spec, LooserKeepsCompiling
=============================================================================
