------------------------------- MODULE Format -------------------------------
(***************************************************************************)
(* The lines of an export (crates/memhouse-core/src/format.rs): what a     *)
(* line may say, how a file of the first version is upgraded, and the      *)
(* times that the store writes when a record is superseded.  Archive       *)
(* models how a file is made and read; a record is its id there.           *)
(*                                                                         *)
(* A JSON value is a record [is, of]: what kind of value it is and what it *)
(* holds; a blank text is "".  Times are numbers, Nothing when not set,    *)
(* confidence is in tenths, and a hash is what was hashed.                 *)
(***************************************************************************)
EXTENDS Pipeline

\* What a line of each type must have, and what it may leave out.
Needed ==
    [policy |-> {"version", "body", "created_at"},
     record |-> {"id", "tenant", "subject", "kind", "status", "content", "content_hash",
                 "valid_from", "source", "confidence", "created_at", "updated_at"},
     link |-> {"tenant", "subject", "linked_subject", "link_type", "created_by", "created_at"}]

MayHave ==
    [policy |-> {},
     record |-> {"session_id", "turn_ref", "occurred_at", "valid_to", "expires_at", "supersedes",
                 "superseded_by", "labels", "tags", "scope", "provenance", "alt_hash",
                 "structured", "code_refs", "metadata"},
     link |-> {"memory_id"}]

\* A field that is left out reads as nothing.
At(line, field) == IF field \in DOMAIN line THEN line[field] ELSE Nothing

\* An object without fields is left out as well.
IsObject(value) == value = Nothing \/ value.is = "object"

(***************************************************************************)
(* RecordLine::check.  named: a superseded record must name its successor. *)
(***************************************************************************)
PathsOnce(refs) ==
    /\ \A i \in DOMAIN refs : refs[i].path # "" /\ refs[i].blob # ""
    /\ \A i, j \in DOMAIN refs : refs[i].path = refs[j].path => i = j

Timely(line) ==
    /\ At(line, "valid_to") = Nothing \/ line.valid_to >= line.valid_from
    /\ line.updated_at >= line.created_at
    /\ line.kind = "working" => At(line, "expires_at") # Nothing

Hashed(value) == value.is = "sha256"

Checked(line, named) ==
    /\ line.tenant # "" /\ line.subject # "" /\ line.content # ""
    /\ Hashed(line.content_hash)
    /\ At(line, "alt_hash") = Nothing \/ Hashed(line.alt_hash)
    /\ line.confidence \in 0 .. 10
    /\ Timely(line)
    /\ named = "named" /\ line.status = "superseded" => At(line, "superseded_by") # Nothing
    /\ IsObject(At(line, "metadata"))
    /\ \/ At(line, "structured") = Nothing
       \/ line.structured.type # "" /\ IsObject(line.structured.attrs)
    /\ At(line, "code_refs") = Nothing \/ PathsOnce(line.code_refs)

(***************************************************************************)
(* parse_line: a type or a field this build does not know is refused.      *)
(***************************************************************************)
Fits(type, line) ==
    /\ Needed[type] \subseteq DOMAIN line
    /\ DOMAIN line \subseteq Needed[type] \cup MayHave[type]

ParsesAs(type, line) ==
    /\ type \in DOMAIN Needed /\ Fits(type, line)
    /\ type = "policy" => line.version # "" /\ line.body.is = "object"
    /\ type = "record" => Checked(line, "named")
    /\ type = "link" =>
         /\ "" \notin {line.tenant, line.subject, line.linked_subject, line.link_type}
         /\ line.subject # line.linked_subject

\* parse_header: the version to read the file as, or what is wrong with it.
ReadsAs(header, schema) ==
    CASE At(header, "format") # "memhouse.memory" -> "no export"
      [] At(header, "format") = "memhouse.memory" /\ At(header, "version") = 1 -> "1"
      [] /\ At(header, "format") = "memhouse.memory" /\ At(header, "version") = 2
         /\ At(header, "schema_version") \in 0 .. schema -> "2"
      [] OTHER -> "newer or none"

(***************************************************************************)
(* A file of the first version: memories m with source, derived, round,    *)
(* session and the rest of a line.                                         *)
(***************************************************************************)
RecordHash(m) ==
    [is |-> "sha256",
     of |-> CASE m.derived = "yes" -> <<"fact", m.session, m.content>>
              [] m.derived # "yes" /\ m.kind = "episodic" /\ m.round # Nothing ->
                   <<"episodic", m.session, m.round, m.content>>
              [] OTHER -> <<m.kind, m.content>>]

LegacyProvenance(m) ==
    [agent |-> IF m.source.extractor THEN "enrich" ELSE m.source.name,
     policy |-> "legacy-v1",
     extractor |-> IF m.derived = "yes" THEN m.extractor ELSE Nothing]

FromV1(m) ==
    [id |-> m.id, tenant |-> m.tenant, subject |-> m.subject, kind |-> m.kind,
     status |-> m.status, content |-> m.content, content_hash |-> RecordHash(m),
     valid_from |-> m.validFrom, valid_to |-> m.validTo, expires_at |-> m.expires,
     supersedes |-> m.supersedes, superseded_by |-> Nothing, source |-> m.source.name,
     confidence |-> m.confidence, provenance |-> LegacyProvenance(m), metadata |-> m.metadata,
     created_at |-> m.created, updated_at |-> m.created]

\* The last record of the file that names id as its predecessor.
Naming(file, id) == {i \in DOMAIN file : file[i].supersedes = id}
LastOf(s) == CHOOSE i \in s : \A j \in s : j <= i
Successor(file, id) ==
    IF Naming(file, id) = {} THEN Nothing ELSE file[LastOf(Naming(file, id))].id

Upgraded(file, i) ==
    LET line == FromV1(file[i])
    IN  IF line.status = "superseded"
        THEN [line EXCEPT !.superseded_by = Successor(file, line.id)] ELSE line

\* One line that fails its check refuses the file.
UpgradeV1(file) ==
    LET lines == [i \in DOMAIN file |-> Upgraded(file, i)]
    IN  IF \A i \in DOMAIN lines : Checked(lines[i], "either") THEN lines ELSE Nothing

(***************************************************************************)
(* The line of a record as the pipeline inserts it (lines_of): place holds *)
(* what the item does not have, its tenant, its hashes, what it refers to, *)
(* and from is where its time begins: for a remembered record when it is   *)
(* written, for a round when it was said, if that is known.                *)
(***************************************************************************)
SaidAt(it) == Or(it.occurred, it.created)

LineOf(it, place, from) ==
    [id |-> it.id, tenant |-> place.tenant, subject |-> place.subject, kind |-> it.kind,
     status |-> it.status, content |-> place.content,
     content_hash |-> [is |-> "sha256", of |-> place.hashed],
     alt_hash |-> IF it.focus = Nothing \/ ~it.embedded THEN Nothing
                  ELSE [is |-> "sha256", of |-> it.focus],
     confidence |-> 10, valid_from |-> from, valid_to |-> it.validTo,
     expires_at |-> it.expires, supersedes |-> it.supersedes, superseded_by |-> Nothing,
     structured |-> place.structured, code_refs |-> place.codeRefs,
     metadata |-> [is |-> "object", of |-> it.meta], source |-> place.source,
     created_at |-> it.created, updated_at |-> it.created]

(***************************************************************************)
(* SUPERSEDE_SQL: the old version's time ends where its successor's        *)
(* begins, or earlier where it had an end, and not before it began.  now   *)
(* is the database's clock.                                                *)
(***************************************************************************)
Sooner(s, t) == IF s < t THEN s ELSE t

EndOf(old, from) ==
    LET end == Later(from, old.valid_from)
    IN  IF old.valid_to = Nothing THEN end ELSE Sooner(old.valid_to, end)

SupersededBy(old, new, now) ==
    IF old.status # "committed" THEN old
    ELSE [old EXCEPT !.status = "superseded", !.superseded_by = new.id,
                     !.valid_to = EndOf(old, new.valid_from),
                     !.updated_at = Later(now, old.created_at)]

\* When a store of version 1 is upgraded, the times its build stamped with the
\* database's clock are raised.  greatest() passes over NULL: a record that has
\* no end and a change stamped too early ends where it begins.
Repaired(line) ==
    IF \/ line.updated_at < line.created_at
       \/ line.valid_to # Nothing /\ line.valid_to < line.valid_from
    THEN [line EXCEPT !.updated_at = Later(line.updated_at, line.created_at),
                      !.valid_to = IF line.valid_to = Nothing THEN line.valid_from
                                   ELSE Later(line.valid_to, line.valid_from)]
    ELSE line

\* The records that a recall as of t may return.
ValidAt(line, t) ==
    line.valid_from <= t /\ (line.valid_to = Nothing \/ line.valid_to > t)
=============================================================================
