------------------------------- MODULE Schema -------------------------------
(***************************************************************************)
(* Starting a process: build_engine connects and PgStore::migrate brings   *)
(* the schema to the version of the build, one statement after another     *)
(* with no transaction around them.  Processes of several builds and       *)
(* configurations start, stop half way, start again and write, on one      *)
(* database, which is empty or of version 1 at first.                      *)
(*                                                                         *)
(* Other builds are modelled by the steps of this one up to their own      *)
(* version.  What the model keeps of a record is whether it has the        *)
(* columns version 2 added.                                                *)
(***************************************************************************)
EXTENDS Naturals, FiniteSets, FiniteSetsExt

CONSTANTS
    Process,
    Build,      \* [Process -> Nat]: the schema version of the process's binary
    Config,     \* [Process -> dim, embedder, prefix]: its [embedding] settings
    RowId,      \* ids of records, in their order; 0 is before all of them
    OldRows,    \* records a version 1 database starts with
    Batch,      \* rows of a backfill's statement: 5000
    None

ASSUME SchemaAssumption ==
    /\ Build \in [Process -> Nat \ {0}]
    /\ RowId \subseteq Nat \ {0} /\ IsFiniteSet(RowId) /\ OldRows \subseteq RowId
    /\ Batch \in Nat \ {0}
    /\ None \notin Nat

VARIABLES
    meta,       \* mh_meta: version and embedding identity, None when unset
    tables,     \* the versions whose tables and columns exist
    column,     \* the dimension the vector column was created with
    rows,       \* mh_memory: unused, old or bare (no version 2 columns: there at
                \* first, or inserted), filled, gone
    start,      \* where each process is in its start
    raced       \* history: processes that found some of the identity unrecorded

schema == <<meta, tables, column, rows, start, raced>>

Keys == <<"version", "dim", "embedder", "prefix">>
Steps == {"off", "identity", "version", "ddl", "meta", "backfill", "stamp2", "stamp", "ready",
          "refused"}

Off == [at |-> "off", read |-> None, next |-> 1]

SchemaTypeOK ==
    /\ DOMAIN meta = {Keys[i] : i \in 1 .. 4}
    /\ meta.version \in Nat \cup {None}
    /\ tables \subseteq Nat
    /\ rows \in [RowId -> {"unused", "old", "bare", "filled", "gone"}]
    /\ \A p \in Process : start[p].at \in Steps /\ start[p].read \in Nat \cup {None}
    /\ raced \subseteq Process

(* An empty database, or one of version 1 with the configuration of one of *)
(* the processes.                                                          *)
SchemaInit ==
    /\ start = [p \in Process |-> Off]
    /\ raced = {}
    /\ \/ /\ meta = [k \in {Keys[i] : i \in 1 .. 4} |-> None]
          /\ tables = {} /\ column = None
          /\ rows = [r \in RowId |-> "unused"]
       \/ \E p \in Process :
            /\ meta = [version |-> 1, dim |-> Config[p].dim, embedder |-> Config[p].embedder,
                       prefix |-> None]
            /\ tables = {1} /\ column = Config[p].dim
            /\ rows = [r \in RowId |-> IF r \in OldRows THEN "old" ELSE "unused"]

-----------------------------------------------------------------------------
Goto(p, step) == start' = [start EXCEPT ![p].at = step]

Connect(p) ==
    /\ start[p].at = "off"
    /\ start' = [start EXCEPT ![p] = [Off EXCEPT !.at = "identity"]]
    /\ UNCHANGED <<meta, tables, column, rows, raced>>

(* A database embedded with another model, or with another prefix if one   *)
(* is recorded, is refused.                                                *)
Recorded == meta.embedder # None /\ meta.dim # None

Same(p) ==
    /\ meta.embedder = Config[p].embedder
    /\ meta.dim = Config[p].dim
    /\ meta.prefix \in {None, Config[p].prefix}

CheckIdentity(p) ==
    /\ start[p].at = "identity"
    /\ Goto(p, IF Recorded /\ ~Same(p) THEN "refused" ELSE "version")
    /\ raced' = IF Recorded /\ meta.prefix # None THEN raced \ {p} ELSE raced \cup {p}
    /\ UNCHANGED <<meta, tables, column, rows>>

(* So is one of a newer build.  The version found decides on the backfill  *)
(* at the end.                                                             *)
ReadVersion(p) ==
    /\ start[p].at = "version"
    /\ IF meta.version # None /\ meta.version > Build[p]
         THEN Goto(p, "refused")
         ELSE start' = [start EXCEPT ![p].at = "ddl", ![p].read = meta.version]
    /\ UNCHANGED <<meta, tables, column, rows, raced>>

(* The tables of every version, IF NOT EXISTS; the first ones have the     *)
(* vector column.                                                          *)
Ddl(p) ==
    /\ start[p].at = "ddl"
    /\ tables' = tables \cup {start[p].next}
    /\ column' = IF start[p].next = 1 /\ column = None THEN Config[p].dim ELSE column
    /\ start' = [start EXCEPT ![p].at = IF start[p].next = Build[p] THEN "meta" ELSE @,
                              ![p].next = IF @ = Build[p] THEN 1 ELSE @ + 1]
    /\ UNCHANGED <<meta, rows, raced>>

(* What mh_meta does not say yet, key by key.                              *)
Value(p, key) == IF key = "version" THEN Build[p] ELSE Config[p][key]

\* Mutant: a database already stamped is not filled any more.
RecordMetaAndLook(p) ==
    /\ start[p].at = "meta"
    /\ meta' = [meta EXCEPT !.version = Build[p]]
    /\ start' = [start EXCEPT
         ![p].at = IF start[p].read # None /\ start[p].read < 2 /\ Build[p] >= 2
                     THEN "backfill" ELSE "stamp"]
    /\ UNCHANGED <<tables, column, rows, raced>>

RecordMeta(p) ==
    /\ start[p].at = "meta"
    /\ LET key == Keys[start[p].next]
       IN  meta' = [meta EXCEPT ![key] = IF @ = None THEN Value(p, key) ELSE @]
    /\ start' = [start EXCEPT
         ![p].at = IF start[p].next < 4 THEN @
                   ELSE IF start[p].read # None /\ start[p].read < 2 /\ Build[p] >= 2
                          THEN "backfill" ELSE "stamp",
         ![p].next = IF @ < 4 THEN @ + 1 ELSE 1]
    /\ UNCHANGED <<tables, column, rows, raced>>

(* backfill_v2: batch by batch until no record is without the columns.     *)
Bare == {r \in RowId : rows[r] \in {"old", "bare"}}

Backfill(p) ==
    /\ start[p].at = "backfill"
    /\ IF Bare = {}
         THEN Goto(p, "stamp2") /\ UNCHANGED rows
         ELSE /\ \E batch \in kSubset(IF Batch < Cardinality(Bare) THEN Batch ELSE Cardinality(Bare),
                                      Bare) :
                   rows' = [r \in RowId |-> IF r \in batch THEN "filled" ELSE rows[r]]
              /\ UNCHANGED start
    /\ UNCHANGED <<meta, tables, column, raced>>

(* The version is raised after the backfill and again at the end, never    *)
(* lowered.                                                                *)
\* Mutant: without the comparison.
StampAnyway(p) ==
    /\ start[p].at \in {"stamp2", "stamp"}
    /\ meta' = [meta EXCEPT !.version = Build[p]]
    /\ start' = [start EXCEPT ![p] = IF @.at = "stamp2" THEN [@ EXCEPT !.at = "stamp"]
                                     ELSE [Off EXCEPT !.at = "ready"]]
    /\ UNCHANGED <<tables, column, rows, raced>>

Stamp(p) ==
    /\ start[p].at \in {"stamp2", "stamp"}
    /\ meta' = [meta EXCEPT !.version = IF @ < Build[p] THEN Build[p] ELSE @]
    /\ start' = [start EXCEPT ![p] = IF @.at = "stamp2" THEN [@ EXCEPT !.at = "stamp"]
                                     ELSE [Off EXCEPT !.at = "ready"]]
    /\ UNCHANGED <<tables, column, rows, raced>>

(* A statement fails, the process is killed, or a refused start is over.   *)
Stop(p) ==
    /\ start[p].at # "off"
    /\ start' = [start EXCEPT ![p] = Off]
    /\ raced' = raced \ {p}
    /\ UNCHANGED <<meta, tables, column, rows>>

Ready(p) == start[p].at = "ready"

(* Inserting a vector takes the recorded model (the trigger) and the       *)
(* dimension of the column.  A version 1 binary fills version 1 columns.   *)
Insert(p, r) ==
    /\ Ready(p) /\ rows[r] = "unused"
    /\ Config[p].embedder = meta.embedder /\ Config[p].dim = column
    /\ rows' = [rows EXCEPT ![r] = IF Build[p] < 2 THEN "bare" ELSE "filled"]
    /\ UNCHANGED <<meta, tables, column, start, raced>>

Delete(p, r) ==
    /\ Ready(p) /\ rows[r] \in {"old", "bare", "filled"}
    /\ rows' = [rows EXCEPT ![r] = "gone"]
    /\ UNCHANGED <<meta, tables, column, start, raced>>

Starts(p) ==
    \/ Connect(p) \/ CheckIdentity(p) \/ ReadVersion(p) \/ Ddl(p) \/ RecordMeta(p)
    \/ Backfill(p) \/ Stamp(p) \/ Stop(p)

Serves(p) == \E r \in RowId : Insert(p, r) \/ Delete(p, r)

-----------------------------------------------------------------------------
(* Whatever stops half way and whichever builds start at once, a version   *)
(* that is recorded is a version whose tables are there, and a process     *)
(* that serves has all the tables it knows.                                *)
TablesBehindVersion ==
    /\ meta.version # None => 1 .. meta.version \subseteq tables
    /\ \A p \in Process : Ready(p) => 1 .. Build[p] \subseteq tables

(* The records of a version 1 database have the new columns before the     *)
(* database says it is of version 2 or later.                              *)
OldRowsFilled ==
    meta.version # None /\ meta.version >= 2 => \A r \in RowId : rows[r] # "old"

(* A process that serves runs the configuration that is recorded, unless   *)
(* some of it was not recorded yet when the process looked.                *)
RunsAsRecorded == \A p \in Process : Ready(p) => Same(p) \/ p \in raced

UpgradeIsSound == TablesBehindVersion /\ OldRowsFilled /\ RunsAsRecorded

(* The recorded version never falls, and what is recorded stays.           *)
VersionOnlyRises ==
    [][/\ meta.version # None => meta'.version # None /\ meta'.version >= meta.version
       /\ \A k \in {"dim", "embedder", "prefix"} : meta[k] # None => meta'[k] = meta[k]]_schema
=============================================================================
