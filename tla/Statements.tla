----------------------------- MODULE Statements -----------------------------
(***************************************************************************)
(* How the write gate reads a text (crates/memhouse-core/src/gate.rs and   *)
(* classify.rs): redaction, the injection check, the classification of the *)
(* statement, the representation it is routed to, and when a statement is  *)
(* the correction or the update of another.                                *)
(*                                                                         *)
(* A text is what the patterns and the word lists find in it:              *)
(*   pieces        its stretches, in order: the categories whose pattern   *)
(*                 matches the stretch (as), its digits, what it says      *)
(*   markers       the statements of which it has a marker                 *)
(*   reasons       the injection patterns it matches                       *)
(*   codeLines, fenced, relates, sentences, chars    for its route         *)
(*   topics        its content words, with their first five letters (stem) *)
(*   quantities, words, relations                    for changed values    *)
(* Redaction changes the pieces; the other fields are those of the text as *)
(* it is when they are read.  A stretch is replaced as a whole, so that a  *)
(* mark is never part of what another pattern matches.  Confidence and     *)
(* overlap are in tenths.                                                  *)
(***************************************************************************)
EXTENDS Integers, Sequences, FiniteSets

Nothing == "nothing"

First(s) == CHOOSE i \in s : \A j \in s : i <= j

(***************************************************************************)
(* gate.rs: the redaction rules, in order.  Each replaces what it matches  *)
(* by a mark that no later rule matches.                                   *)
(***************************************************************************)
Categories == <<"secret", "card", "ssn", "iban", "email", "phone", "ip">>

\* luhn_ok: every second digit from the right is doubled, its digits added.
Weigh(d, i) == IF i % 2 = 1 THEN d ELSE IF 2 * d > 9 THEN 2 * d - 9 ELSE 2 * d

LuhnOk(digits) ==
    LET n == Len(digits)
        sum[i \in 0 .. n] == IF i = 0 THEN 0 ELSE sum[i - 1] + Weigh(digits[n - i + 1], i)
    IN  n \in 13 .. 19 /\ sum[n] % 10 = 0

Matches(category, piece) ==
    category \in piece.as /\ (category = "card" => LuhnOk(piece.digits))

Mark(category) == [as |-> {}, digits |-> <<>>, says |-> category]

Hits(piece, redact) ==
    {i \in DOMAIN Categories : Categories[i] \in redact /\ Matches(Categories[i], piece)}

RedactPiece(piece, redact) ==
    IF Hits(piece, redact) = {} THEN piece ELSE Mark(Categories[First(Hits(piece, redact))])

RedactText(text, redact) ==
    [text EXCEPT !.pieces = [i \in DOMAIN text.pieces |-> RedactPiece(text.pieces[i], redact)]]

Redactions(text, redact) ==
    {Categories[First(Hits(text.pieces[i], redact))] :
       i \in {j \in DOMAIN text.pieces : Hits(text.pieces[j], redact) # {}}}

InjectionReasons(text) == text.reasons

(***************************************************************************)
(* classify.rs: the markers are looked for in order, with the kind between *)
(* them; a model may read the statement instead, and the rules answer when *)
(* it fails or answers with something else.                                *)
(***************************************************************************)
Statements ==
    {"fact", "event", "correction", "plan", "speculation", "preference", "instruction"}

Held(statement) == statement \in {"plan", "speculation"}

OfKind(kind) ==
    CASE kind = "preference" -> "preference"
      [] kind = "procedural" -> "instruction"
      [] OTHER -> Nothing

\* What each rule reads, or Nothing.
Rules(text, kind) ==
    LET hit(statement) == IF statement \in text.markers THEN statement ELSE Nothing
    IN  <<hit("speculation"), hit("correction"), hit("plan"), OfKind(kind), hit("preference"),
          hit("instruction"), hit("event")>>

ClassifyText(text, kind) ==
    LET read == Rules(text, kind)
        hits == {i \in DOMAIN read : read[i] # Nothing}
    IN  IF hits = {} THEN [statement |-> "fact", confidence |-> 6]
        ELSE [statement |-> read[First(hits)], confidence |-> 8]

Clamped(x, low, high) == IF x < low THEN low ELSE IF x > high THEN high ELSE x

\* answer: what the model said, Nothing if it failed or its answer is no JSON.
ChatClassify(answer, text, kind) ==
    IF answer = Nothing \/ answer.statement \notin Statements THEN ClassifyText(text, kind)
    ELSE [statement |-> answer.statement,
          confidence |-> IF answer.confidence = Nothing THEN 7
                         ELSE Clamped(answer.confidence, 0, 10)]

(***************************************************************************)
(* route and structured_from_content.  value: the object a content decodes *)
(* to, or Nothing; a record_type that is no text is blank.                 *)
(***************************************************************************)
RouteOf(kind, text, structured, codeRefs) ==
    LET code == codeRefs \/ text.codeLines >= 2 \/ text.fenced
        long == text.sentences > 3 \/ text.chars > 600 \/ kind = "document"
        plain == ~structured /\ ~code /\ ~text.relates
    IN  CASE kind = "episodic" -> "narrative"
          [] kind # "episodic" /\ structured -> "structured"
          [] kind # "episodic" /\ ~structured /\ code -> "code"
          [] kind # "episodic" /\ ~structured /\ ~code /\ text.relates -> "relationship"
          [] kind # "episodic" /\ plain /\ long -> "narrative"
          [] OTHER -> "fact"

StructuredFrom(value) ==
    IF /\ value # Nothing
       /\ "record_type" \in DOMAIN value /\ value["record_type"] # ""
       /\ DOMAIN value # {"record_type"}
    THEN [type |-> value["record_type"],
          attrs |-> [k \in DOMAIN value \ {"record_type"} |-> value[k]]]
    ELSE Nothing

(***************************************************************************)
(* shares_content_word and value_update.                                   *)
(***************************************************************************)
SharesContentWord(a, b) ==
    \E w \in a.topics, x \in b.topics :
      w.word = x.word \/ (w.stem # Nothing /\ w.stem = x.stem)

\* new restates old with another value: of the same relations, and otherwise
\* in the words of the shorter one, minTenths of them.
ValueUpdate(old, new, minTenths) ==
    LET shared == Cardinality(old.words \cap new.words)
        few == {Cardinality(old.words), Cardinality(new.words)}
    IN  /\ old.quantities # {} /\ new.quantities # {}
        /\ ~(old.quantities \subseteq new.quantities)
        /\ ~(new.quantities \subseteq old.quantities)
        /\ old.relations = new.relations
        /\ \A n \in few : n >= 2
        /\ \E n \in few : 10 * shared >= minTenths * n
=============================================================================
