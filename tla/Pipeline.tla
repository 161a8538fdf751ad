------------------------------ MODULE Pipeline ------------------------------
(***************************************************************************)
(* What the write path makes of a record (crates/memhouse-core/src/        *)
(* intake.rs, with the first stages of remember and ingest in engine.rs).  *)
(* Intake models when the stages run; here is what each computes, from a   *)
(* text to the record, the supersessions and the audit events of the       *)
(* insert.                                                                 *)
(*                                                                         *)
(* An item is a record on its way: data holds the caller's other texts     *)
(* (metadata and structured attributes), meta the metadata keys that the   *)
(* pipeline itself reads or writes, which a caller may have set as well.   *)
(* A policy has allowed (kinds), categories, maxChars, dedup, workingTtl;  *)
(* cfg has correction, confirm and planTtl.  Similarities are in tenths.   *)
(***************************************************************************)
EXTENDS Statements

Set(f, key, value) == [k \in DOMAIN f \cup {key} |-> IF k = key THEN value ELSE f[k]]
Drop(f, key) == [k \in DOMAIN f \ {key} |-> f[k]]
Both(f, g) == [k \in DOMAIN f \cup DOMAIN g |-> IF k \in DOMAIN f THEN f[k] ELSE g[k]]
Or(value, default) == IF value = Nothing THEN default ELSE value
Later(s, t) == IF s > t THEN s ELSE t

(***************************************************************************)
(* Stage 2.  A text of no characters stands for a blank one.               *)
(***************************************************************************)
Accepts(policy, text) == text.chars \in 1 .. policy.maxChars

RedactData(data, redact) == [k \in DOMAIN data |-> RedactText(data[k], redact)]
FoundIn(data, redact) == UNION {Redactions(data[k], redact) : k \in DOMAIN data}

\* A round is not classified.
NoClass == [statement |-> Nothing, confidence |-> 0]

\* Item::new, of what remember or ingest was given.
NewItem(id, kind, text, redactions) ==
    [id |-> id, kind |-> kind, status |-> "candidate", text |-> text, focus |-> Nothing,
     data |-> <<>>, meta |-> <<>>, structured |-> FALSE, codeRefs |-> FALSE, tags |-> {},
     redactions |-> redactions, derived |-> FALSE, hint |-> Nothing, class |-> NoClass,
     route |-> "fact", embedded |-> FALSE, supersedes |-> Nothing, superseded |-> Nothing,
     duplicate |-> Nothing, confirms |-> {}, created |-> 0, occurred |-> Nothing,
     validTo |-> Nothing, expires |-> Nothing, scope |-> Nothing, policy |-> Nothing,
     actions |-> <<>>]

\* remember_once up to the queue: a content that is an object becomes the
\* attributes of a structured record.  (That the same content is stored
\* already is in Intake.)
Prepare(policy, req, now) ==
    LET kind == Or(req.kind, "semantic")
        parsed == IF req.structured = Nothing THEN StructuredFrom(req.object) ELSE Nothing
        text == IF parsed = Nothing THEN req.text ELSE req.asText
        data == IF parsed = Nothing THEN req.data ELSE Both(parsed.attrs, req.data)
        redact == policy.categories
    IN  IF \/ kind \notin policy.allowed
           \/ req.structured # Nothing /\ req.structured.type = ""
           \/ ~req.metadataIsObject \/ ~Accepts(policy, text)
        THEN Nothing
        ELSE [NewItem(req.id, kind, RedactText(text, redact),
                      Redactions(text, redact) \cup FoundIn(data, redact))
                EXCEPT !.data = RedactData(data, redact), !.meta = req.meta,
                       !.structured = req.structured # Nothing \/ parsed # Nothing,
                       !.codeRefs = req.codeRefs, !.supersedes = req.supersedes,
                       !.created = now, !.occurred = Or(req.occurred, now),
                       !.validTo = req.validTo, !.policy = policy.version,
                       !.expires = IF req.expires = Nothing /\ kind = "working"
                                   THEN now + policy.workingTtl ELSE req.expires]

(***************************************************************************)
(* build_rounds: a message of the user, and the first message, begin a     *)
(* round.  A round of the user's message alone has no focus.               *)
(***************************************************************************)
Starts(messages) == {i \in DOMAIN messages : i = 1 \/ messages[i].user}

Members(messages, start) ==
    {i \in DOMAIN messages : start <= i /\ \A s \in Starts(messages) : s <= start \/ s > i}

RoundAt(messages, start) ==
    LET dated == {i \in Members(messages, start) : messages[i].time # Nothing}
    IN  [messages |-> Members(messages, start),
         focus |-> IF /\ messages[start].user /\ messages[start].chars >= 20
                      /\ Members(messages, start) # {start}
                   THEN start ELSE Nothing,
         time |-> IF dated = {} THEN Nothing ELSE messages[First(dated)].time]

Rounds(perMessage, messages) ==
    IF perMessage
    THEN {[messages |-> {i}, focus |-> Nothing, time |-> messages[i].time] : i \in DOMAIN messages}
    ELSE {RoundAt(messages, start) : start \in Starts(messages)}

\* Of the rounds, those queued: not blank, and not stored already.
Queued(policy, rounds, stored) ==
    {r \in rounds : /\ "episodic" \in policy.allowed
                    /\ policy.maxChars > 0 /\ r.text.chars > 0 /\ r.hash \notin stored}

RoundItem(policy, round, sessionTime, now) ==
    LET redact == policy.categories
        found == Redactions(round.text, redact)
    IN  [NewItem(round.id, "episodic", RedactText(round.text, redact), found)
           EXCEPT !.meta = IF found = {} THEN <<>> ELSE Set(<<>>, "redactions", found),
                  !.focus = IF round.focus = Nothing \/ ~Accepts(policy, round.focus)
                            THEN Nothing ELSE RedactText(round.focus, redact),
                  !.created = now, !.occurred = Or(round.time, sessionTime),
                  !.policy = policy.version]

(***************************************************************************)
(* The policy in force when the proposal is tried.                         *)
(***************************************************************************)
Reredact(policy, it) ==
    LET redact == policy.categories
        focus == IF it.focus = Nothing THEN {} ELSE Redactions(it.focus, redact)
        found == it.redactions \cup Redactions(it.text, redact) \cup focus
                   \cup FoundIn(it.data, redact)
    IN  [it EXCEPT !.text = RedactText(it.text, redact),
                   !.focus = IF it.focus = Nothing THEN Nothing ELSE RedactText(it.focus, redact),
                   !.data = RedactData(it.data, redact),
                   !.meta = IF found # it.redactions /\ it.kind = "episodic"
                            THEN Set(it.meta, "redactions", found) ELSE it.meta,
                   !.redactions = found, !.policy = policy.version]

UnderPolicy(policy, it) ==
    LET now == IF it.policy = policy.version THEN it ELSE Reredact(policy, it)
    IN  IF it.kind \in policy.allowed THEN now ELSE [now EXCEPT !.status = "rejected"]

(***************************************************************************)
(* Stage 4, gate_stage.  answer: the classifier's model, if there is one.  *)
(***************************************************************************)
HintWins(hint, statement) ==
    /\ hint # Nothing /\ hint # statement
    /\ statement \in {"fact", "event"} \/ hint = "plan"

ReadAs(it, answer) ==
    LET c == ChatClassify(answer, it.text, it.kind)
    IN  IF it.kind = "episodic" THEN it.class
        ELSE IF HintWins(it.hint, c.statement) THEN [c EXCEPT !.statement = it.hint]
        ELSE c

\* An open item that a caller tracks is a commitment, not a claim about now.
Holds(it, class) ==
    Held(class.statement) /\ ~(it.kind = "commitment" /\ ~it.derived)

GateStatus(entry, it, class) ==
    CASE InjectionReasons(it.text) # {} -> "quarantined"
      [] InjectionReasons(it.text) = {} /\ entry = "propose" /\ it.kind # "episodic" -> "candidate"
      [] InjectionReasons(it.text) = {} /\ ~(entry = "propose" /\ it.kind # "episodic")
           /\ Holds(it, class) -> "held"
      [] OTHER -> "committed"

GateItem(cfg, entry, it, answer) ==
    LET class == ReadAs(it, answer)
        status == GateStatus(entry, it, class)
        end == Or(it.validTo, Later(Or(it.occurred, it.created), it.created) + cfg.planTtl)
        read == IF it.kind = "episodic" THEN Drop(it.meta, "held")
                ELSE Set(Drop(it.meta, "held"), "statement", class.statement)
    IN  IF it.status = "rejected" THEN it
        ELSE [it EXCEPT !.class = class,
                !.status = IF status = "held" THEN "candidate" ELSE status,
                !.expires = IF status = "held" THEN Or(it.expires, end) ELSE it.expires,
                !.meta = CASE status = "held" -> Set(read, "held", class.statement)
                           [] status = "quarantined" ->
                                Set(read, "quarantine_reasons", InjectionReasons(it.text))
                           [] OTHER -> read]

(***************************************************************************)
(* Stages 5 and 6.  A rejected record is not sent to the embedder.         *)
(***************************************************************************)
RouteItem(it) ==
    LET route == RouteOf(it.kind, it.text, it.structured, it.codeRefs)
    IN  [it EXCEPT !.route = route,
                   !.meta = IF it.kind = "episodic" THEN it.meta ELSE Set(it.meta, "route", route),
                   !.tags = IF route = "code" THEN it.tags \cup {"code"} ELSE it.tags]

EmbedItem(it) == [it EXCEPT !.embedded = it.status # "rejected"]

(***************************************************************************)
(* Stage 7, resolve_stage.  near: the nearest records of the kind, in      *)
(* order, and held: the nearest held plans, each [id, sim]; stored: what   *)
(* the table has; taken: what the proposal's earlier records supersede and *)
(* what they confirm.                                                      *)
(***************************************************************************)
Revises(it, stored) ==
    LET old == it.supersedes
    IN  CASE it.status # "committed" -> it
          [] /\ it.status = "committed"
             /\ old \in DOMAIN stored /\ stored[old].status = "committed" ->
               [it EXCEPT !.superseded = old]
          [] OTHER -> [it EXCEPT !.status = "rejected"]

Duplicates(policy, it, near) ==
    it.route # "structured" /\ near # <<>> /\ near[1].sim >= policy.dedup

\* Why it takes the place of an older record, or Nothing.
TakesOver(it, o) ==
    CASE it.class.statement = "correction" /\ SharesContentWord(o.text, it.text) -> "correction"
      [] ~(it.class.statement = "correction" /\ SharesContentWord(o.text, it.text))
           /\ ValueUpdate(o.text, it.text, IF it.class.statement = "event" THEN 9 ELSE 6) ->
               "value_update"
      [] OTHER -> Nothing

MayTake(cfg, it, hit, stored, taken) ==
    /\ hit.sim >= cfg.correction
    /\ hit.id \in DOMAIN stored /\ stored[hit.id].status = "committed"
    /\ Or(stored[hit.id].occurred, stored[hit.id].created) <= Or(it.occurred, it.created)
    /\ it.derived => stored[hit.id].derived
    /\ hit.id \notin taken.superseded
    /\ TakesOver(it, stored[hit.id]) # Nothing

Corrects(cfg, it, near, stored, taken) ==
    LET found == {i \in DOMAIN near : MayTake(cfg, it, near[i], stored, taken)}
        old == near[First(found)].id
    IN  IF \/ it.route = "structured" \/ it.status # "committed"
           \/ it.class.statement \in {Nothing, "instruction"} \/ found = {}
        THEN it
        ELSE [it EXCEPT !.supersedes = old, !.superseded = old,
                !.meta = Set(it.meta, "supersedes_because", TakesOver(it, stored[old]))]

\* An event is taken to carry out the held plans it is like.
Confirmed(cfg, it, held, stored, taken, now) ==
    {p \in {held[i].id : i \in DOMAIN held} \cap DOMAIN stored :
       /\ stored[p].expires = Nothing \/ stored[p].expires > now
       /\ stored[p].scope = it.scope
       /\ \E i \in DOMAIN held : held[i].id = p /\ held[i].sim >= cfg.confirm
       /\ SharesContentWord(stored[p].text, it.text)
       /\ p \notin taken.confirmed}

Confirms(cfg, it, held, stored, taken, now) ==
    IF it.class.statement # "event" \/ it.status # "committed" THEN it
    ELSE [it EXCEPT !.confirms = Confirmed(cfg, it, held, stored, taken, now)]

Settled(policy, cfg, it, near, held, stored, taken, now) ==
    CASE it.supersedes # Nothing -> Revises(it, stored)
      [] it.supersedes = Nothing /\ (it.status = "quarantined" \/ ~it.embedded) -> it
      [] it.supersedes = Nothing /\ it.status # "quarantined" /\ it.embedded
           /\ Duplicates(policy, it, near) ->
           [it EXCEPT !.status = "rejected", !.duplicate = near[1].id,
                      !.meta = Set(it.meta, "duplicate_of", near[1].id)]
      [] OTHER -> Confirms(cfg, Corrects(cfg, it, near, stored, taken), held, stored, taken, now)

\* The audit events of a record's way in, with the actor of each.
Actions(entry, it, actor) ==
    LET engine == "engine"
        proposed == IF entry # "commit" \/ it.status = "candidate"
                    THEN <<<<"memory.propose", actor>>>> ELSE <<>>
        admitted == IF entry # "commit" THEN <<<<"memory.admit", engine>>>> ELSE <<>>
    IN  proposed \o
        CASE it.status = "rejected" -> <<<<"memory.reject", engine>>>>
          [] it.status = "committed" /\ it.superseded # Nothing ->
               admitted \o <<<<"memory.supersede", actor>>>>
          [] it.status = "committed" /\ it.superseded = Nothing /\ entry # "commit" -> admitted
          [] \/ it.status = "committed" /\ it.superseded = Nothing /\ entry = "commit"
             \/ it.status = "quarantined" -> <<<<"memory.write", actor>>>>
          [] OTHER -> <<>>

Resolve(policy, cfg, entry, it, near, held, stored, taken, now, actor) ==
    LET settled == Settled(policy, cfg, it, near, held, stored, taken, now)
    IN  IF it.kind = "episodic" THEN it
        ELSE [settled EXCEPT !.actions = Actions(entry, settled, actor)]

(***************************************************************************)
(* record_audit, and the events of a conversation.                         *)
(***************************************************************************)
RecordAudit(it) ==
    {[action |-> it.actions[i][1], actor |-> it.actions[i][2], record |-> it.id] :
       i \in DOMAIN it.actions}
      \cup {[action |-> "memory.admit", actor |-> "engine", record |-> p] : p \in it.confirms}

IngestAudit(entry, items, actor) ==
    LET event(action, who) == [action |-> action, actor |-> who, record |-> Nothing]
        committed == \E i \in DOMAIN items : items[i].status = "committed"
    IN  (IF entry # "commit" /\ committed
         THEN <<event("memory.propose", actor), event("memory.admit", "engine")>> ELSE <<>>)
          \o <<event("memory.ingest", actor)>>

Enriches(enabled, items) ==
    IF enabled THEN {items[i].id : i \in {j \in DOMAIN items : items[j].status = "committed"}}
    ELSE {}

(***************************************************************************)
(* quarantine_poison, and what a write that waited is answered with.       *)
(***************************************************************************)
Poisoned(it) ==
    [it EXCEPT !.status = "quarantined", !.embedded = FALSE,
               !.meta = Set(it.meta, "quarantine_reasons", {"intake_failed"})]

OutcomeOf(it) ==
    [id |-> it.id, status |-> it.status, route |-> it.route, superseded |-> it.superseded,
     duplicate |-> it.duplicate,
     statement |-> it.class.statement]

\* A record that is not stored yet is answered as it was queued.
ResultOf(id, stored, queued) ==
    LET m == stored[id]
        dup == m.meta["duplicate_of"]
    IN  CASE id \notin DOMAIN stored ->
               [id |-> id, deduplicated |-> FALSE, superseded |-> Nothing,
                status |-> IF id \in DOMAIN queued THEN queued[id].status ELSE "candidate"]
          [] id \in DOMAIN stored /\ "duplicate_of" \in DOMAIN m.meta ->
               [id |-> dup, deduplicated |-> TRUE, superseded |-> Nothing,
                status |-> IF dup \in DOMAIN stored THEN stored[dup].status ELSE "committed"]
          [] OTHER ->
               [id |-> id, status |-> m.status, deduplicated |-> FALSE,
                superseded |-> IF m.status = "committed" THEN m.supersedes ELSE Nothing]

\* stored: the call's records as read after waiting, Nothing when it did not
\* wait or the waiting failed: the rounds accepted are then said to be stored.
IngestAnswer(ids, stored) ==
    LET quarantined == {id \in ids \cap DOMAIN stored : stored[id].status = "quarantined"}
    IN  IF stored = Nothing
        THEN [queued |-> TRUE, stored |-> Cardinality(ids), quarantined |-> 0]
        ELSE [queued |-> ~(ids \subseteq DOMAIN stored),
              stored |-> Cardinality((ids \cap DOMAIN stored) \ quarantined),
              quarantined |-> Cardinality(quarantined)]
=============================================================================
