---------------------------- MODULE ArchiveProofs ----------------------------
(***************************************************************************)
(* Proofs about the database: whichever builds start and stop on it, the   *)
(* schema is what its version says; and a file made while records come and *)
(* go is whole, and read whole.                                            *)
(***************************************************************************)
EXTENDS Archive, FiniteSetTheorems, SequenceTheorems, TLAPS

KeySet == {"version", "dim", "embedder", "prefix"}

Starting == [at : Steps, read : Nat \cup {None}, next : Nat \ {0}]

RowStates == {"unused", "old", "bare", "filled", "gone"}

SchemaTypes ==
  /\ meta = [k \in KeySet |-> meta[k]]
  /\ meta.version \in Nat \cup {None}
  /\ tables \subseteq Nat
  /\ rows \in [RowId -> RowStates]
  /\ start \in [Process -> Starting]
  /\ raced \subseteq Process

NoOldRows == \A r \in RowId : rows[r] # "old"

(* The steps after the statements that make the tables, and those that     *)
(* find a version recorded.                                                *)
Made(p) == start[p].at \in {"meta", "backfill", "stamp2", "stamp", "ready"}

Versioned(p) ==
  \/ start[p].at = "meta" /\ start[p].next > 1
  \/ start[p].at \in {"backfill", "stamp2", "stamp", "ready"}

Numbered(p) ==
  /\ start[p].at \in {"identity", "version"} => start[p].next = 1
  /\ start[p].at = "ddl" => start[p].next <= Build[p]
  /\ start[p].at = "meta" => start[p].next <= 4

Behind(p) ==
  /\ Numbered(p)
  /\ start[p].at = "ddl" => 1 .. (start[p].next - 1) \subseteq tables
  /\ Made(p) => 1 .. Build[p] \subseteq tables
  /\ Versioned(p) => meta.version # None

(* A process that will raise the version without a backfill has seen a     *)
(* database without old records: a new one, or one of version 2.           *)
Sees(p) ==
  /\ start[p].at \in {"ddl", "meta"} =>
       \/ start[p].read \in Nat /\ start[p].read < 2
       \/ NoOldRows
  /\ start[p].at = "stamp2" => NoOldRows
  /\ start[p].at = "stamp" => Build[p] < 2 \/ NoOldRows

(* Who found the whole identity recorded runs it.                          *)
Checked(p) ==
  start[p].at \in {"version", "ddl", "meta", "backfill", "stamp2", "stamp", "ready"}

Knows(p) ==
  Checked(p) /\ p \notin raced => Same(p) /\ Recorded /\ meta.prefix # None

Sound(p) == Behind(p) /\ Sees(p) /\ Knows(p)

VersionSound ==
  /\ meta.version # None => 1 .. meta.version \subseteq tables
  /\ OldRowsFilled
  /\ meta.version = None => NoOldRows

SchemaInv == SchemaTypes /\ VersionSound /\ \A p \in Process : Sound(p)

-----------------------------------------------------------------------------
(* What a step does to the process that takes it, and to no other.         *)

Alone(p) == \A q \in Process : q # p => start'[q] = start[q]

LEMMA Offs == Off \in Starting /\ Off.at = "off" /\ Off.next = 1
  BY DEF Off, Starting, Steps

LEMMA GoesTo ==
    ASSUME SchemaTypes, NEW p \in Process, NEW step \in Steps, Goto(p, step)
    PROVE  /\ start' \in [Process -> Starting] /\ Alone(p)
           /\ start'[p].at = step /\ start'[p].read = start[p].read
           /\ start'[p].next = start[p].next
<1>1. start[p] \in Starting /\ start \in [Process -> Starting]
  BY DEF SchemaTypes
<1> DEFINE new == [start[p] EXCEPT !.at = step]
<1>2. new \in Starting /\ new.at = step /\ new.read = start[p].read /\ new.next = start[p].next
  BY <1>1 DEF Starting
<1>3. start' = [start EXCEPT ![p] = new]
  BY <1>1 DEF Goto
<1> HIDE DEF new
<1> QED
  BY <1>1, <1>2, <1>3 DEF Alone

LEMMA Becomes ==
    ASSUME SchemaTypes, NEW p \in Process, NEW new \in Starting, start' = [start EXCEPT ![p] = new]
    PROVE  start' \in [Process -> Starting] /\ Alone(p) /\ start'[p] = new
  BY DEF SchemaTypes, Alone

LEMMA ConnectDoes ==
    ASSUME SchemaTypes, NEW p \in Process, Connect(p)
    PROVE  /\ start' \in [Process -> Starting] /\ Alone(p)
           /\ start'[p].at = "identity" /\ start'[p].next = 1
<1> DEFINE new == [Off EXCEPT !.at = "identity"]
<1>1. new \in Starting /\ new.at = "identity" /\ new.next = 1
  BY DEF Off, Starting, Steps
<1>2. start' = [start EXCEPT ![p] = new]
  BY DEF Connect
<1> HIDE DEF new
<1> QED
  BY <1>1, <1>2, Becomes

LEMMA ReadVersionDoes ==
    ASSUME SchemaTypes, NEW p \in Process, ReadVersion(p)
    PROVE  /\ start' \in [Process -> Starting] /\ Alone(p) /\ start[p].at = "version"
           /\ UNCHANGED <<meta, tables, column, rows, raced>>
           /\ start'[p].next = start[p].next
           /\ \/ start'[p].at = "refused"
              \/ start'[p].at = "ddl" /\ start'[p].read = meta.version
<1>1. start[p] \in Starting /\ start[p].at = "version" /\ meta.version \in Nat \cup {None}
      /\ UNCHANGED <<meta, tables, column, rows, raced>>
  BY DEF SchemaTypes, ReadVersion
<1>2. CASE Goto(p, "refused")
  BY <1>1, <1>2, GoesTo DEF Steps
<1>3. CASE start' = [start EXCEPT ![p].at = "ddl", ![p].read = meta.version]
  <2> DEFINE new == [start[p] EXCEPT !.at = "ddl", !.read = meta.version]
  <2>1. new \in Starting /\ new.at = "ddl" /\ new.read = meta.version /\ new.next = start[p].next
    BY <1>1 DEF Starting, Steps
  <2>2. start' = [start EXCEPT ![p] = new]
    BY <1>3 DEF SchemaTypes
  <2> HIDE DEF new
  <2> QED
    BY <1>1, <2>1, <2>2, Becomes
<1> QED
  BY <1>2, <1>3 DEF ReadVersion

LEMMA DdlDoes ==
    ASSUME SchemaTypes, NEW p \in Process, Ddl(p)
    PROVE  /\ start' \in [Process -> Starting] /\ Alone(p) /\ start[p].at = "ddl"
           /\ UNCHANGED <<meta, rows, raced>>
           /\ tables' = tables \cup {start[p].next}
           /\ start'[p].read = start[p].read
           /\ \/ /\ start[p].next = Build[p]
                 /\ start'[p].at = "meta" /\ start'[p].next = 1
              \/ /\ start[p].next # Build[p]
                 /\ start'[p].at = "ddl" /\ start'[p].next = start[p].next + 1
<1>1. /\ start[p] \in Starting /\ start[p].at = "ddl" /\ start[p].next \in Nat \ {0}
      /\ UNCHANGED <<meta, rows, raced>> /\ tables' = tables \cup {start[p].next}
  BY DEF SchemaTypes, Ddl, Starting
<1>a. PICK a \in Steps : a = IF start[p].next = Build[p] THEN "meta" ELSE "ddl"
  BY DEF Steps
<1>n. PICK n \in Nat \ {0} : n = IF start[p].next = Build[p] THEN 1 ELSE start[p].next + 1
  BY <1>1
<1> DEFINE new == [start[p] EXCEPT !.at = a, !.next = n]
<1>2. new \in Starting /\ new.read = start[p].read /\ new.at = a /\ new.next = n
  BY <1>1 DEF Starting
<1>3. start' = [start EXCEPT ![p] = new]
  BY <1>1, <1>a, <1>n DEF Ddl, SchemaTypes
<1> HIDE DEF new
<1> QED
  BY <1>1, <1>a, <1>n, <1>2, <1>3, Becomes

LEMMA RecordMetaDoes ==
    ASSUME SchemaTypes, NEW p \in Process, RecordMeta(p), start[p].next <= 4
    PROVE  /\ start' \in [Process -> Starting] /\ Alone(p) /\ start[p].at = "meta"
           /\ UNCHANGED <<tables, column, rows, raced>>
           /\ \A k \in KeySet : meta[k] # None => meta'[k] = meta[k]
           /\ meta' = [k \in KeySet |-> meta'[k]]
           /\ \/ meta'.version = meta.version
              \/ meta.version = None /\ meta'.version = Build[p]
           /\ start[p].next = 1 => meta'.version # None
           /\ start'[p].read = start[p].read
           /\ \/ start[p].next < 4 /\ start'[p].at = "meta" /\ start'[p].next = start[p].next + 1
              \/ start'[p].at = "backfill" /\ start[p].next = 4
              \/ /\ start'[p].at = "stamp" /\ start[p].next = 4
                 /\ ~(start[p].read # None /\ start[p].read < 2 /\ Build[p] >= 2)
<1>1. /\ start[p] \in Starting /\ start[p].at = "meta" /\ start[p].next \in Nat \ {0}
      /\ UNCHANGED <<tables, column, rows, raced>> /\ Build[p] \in Nat \ {0} /\ None \notin Nat
  BY SchemaAssumption DEF SchemaTypes, RecordMeta, Starting
<1> DEFINE key == Keys[start[p].next]
           val == IF meta[key] = None THEN Value(p, key) ELSE meta[key]
<1>2. key \in KeySet /\ (start[p].next = 1 => key = "version") /\ (key = "version" => start[p].next = 1)
  <2>1. start[p].next \in {1, 2, 3, 4}
    BY <1>1
  <2> QED
    BY <2>1 DEF Keys, KeySet
<1>3. meta' = [meta EXCEPT ![key] = val]
  BY DEF RecordMeta
<1>4. key = "version" => val = IF meta.version = None THEN Build[p] ELSE meta.version
  BY DEF Value
<1>5. meta[key] # None => val = meta[key]
  OBVIOUS
<1> HIDE DEF key, val
<1>6. meta = [k \in KeySet |-> meta[k]]
  BY DEF SchemaTypes
<1>7. /\ \A k \in KeySet : meta'[k] = IF k = key THEN val ELSE meta[k]
      /\ meta' = [k \in KeySet |-> meta'[k]]
  BY <1>3, <1>6
<1>8. meta'.version = IF key = "version" THEN val ELSE meta.version
  BY <1>7 DEF KeySet
<1>a. PICK a \in Steps :
        a = IF start[p].next < 4 THEN "meta"
            ELSE IF start[p].read # None /\ start[p].read < 2 /\ Build[p] >= 2
                   THEN "backfill" ELSE "stamp"
  BY DEF Steps
<1>n. PICK n \in Nat \ {0} : n = IF start[p].next < 4 THEN start[p].next + 1 ELSE 1
  BY <1>1
<1> DEFINE new == [start[p] EXCEPT !.at = a, !.next = n]
<1>9. new \in Starting /\ new.read = start[p].read /\ new.at = a /\ new.next = n
  BY <1>1 DEF Starting
<1>10. start' = [start EXCEPT ![p] = new]
  BY <1>1, <1>a, <1>n DEF RecordMeta, SchemaTypes
<1> HIDE DEF new
<1>11. start' \in [Process -> Starting] /\ Alone(p) /\ start'[p] = new
  BY <1>9, <1>10, Becomes
<1>12. /\ \/ meta'.version = meta.version
          \/ meta.version = None /\ meta'.version = Build[p]
       /\ start[p].next = 1 => meta'.version # None
  <2>1. CASE key = "version" /\ meta.version = None
    <3>1. meta'.version = Build[p] /\ Build[p] # None
      BY <1>1, <1>4, <1>8, <2>1
    <3> QED
      BY <2>1, <3>1
  <2>2. CASE key = "version" /\ meta.version # None
    BY <1>4, <1>8, <2>2
  <2>3. CASE key # "version"
    BY <1>2, <1>8, <2>3
  <2> QED
    BY <2>1, <2>2, <2>3
<1>13. \A k \in KeySet : meta[k] # None => meta'[k] = meta[k]
  BY <1>5, <1>7
<1> QED
  <2>1. \/ start[p].next < 4 /\ start'[p].at = "meta" /\ start'[p].next = start[p].next + 1
        \/ start'[p].at = "backfill" /\ start[p].next = 4
        \/ /\ start'[p].at = "stamp" /\ start[p].next = 4
           /\ ~(start[p].read # None /\ start[p].read < 2 /\ Build[p] >= 2)
    BY <1>1, <1>a, <1>n, <1>9, <1>11
  <2> QED
    BY <1>1, <1>7, <1>9, <1>11, <1>12, <1>13, <2>1

Fills(r) ==
  \/ rows'[r] = rows[r]
  \/ rows[r] \in {"old", "bare"} /\ rows'[r] = "filled"

LEMMA BackfillDoes ==
    ASSUME SchemaTypes, NEW p \in Process, Backfill(p)
    PROVE  /\ start' \in [Process -> Starting] /\ Alone(p) /\ start[p].at = "backfill"
           /\ UNCHANGED <<meta, tables, column, raced>>
           /\ \A r \in RowId : Fills(r)
           /\ rows' \in [RowId -> RowStates]
           /\ \/ start' = start
              \/ NoOldRows /\ rows' = rows /\ start'[p].at = "stamp2"
<1>1. start[p].at = "backfill" /\ UNCHANGED <<meta, tables, column, raced>>
      /\ start \in [Process -> Starting] /\ rows \in [RowId -> RowStates]
  BY DEF Backfill, SchemaTypes
<1>2. CASE Bare = {} /\ Goto(p, "stamp2") /\ UNCHANGED rows
  <2>1. NoOldRows
    BY <1>2 DEF Bare, NoOldRows
  <2>2. start' \in [Process -> Starting] /\ Alone(p) /\ start'[p].at = "stamp2"
    BY <1>2, GoesTo DEF Steps
  <2> QED
    BY <1>1, <1>2, <2>1, <2>2 DEF Fills
<1>3. ASSUME UNCHANGED start, NEW batch \in SUBSET Bare,
             rows' = [r \in RowId |-> IF r \in batch THEN "filled" ELSE rows[r]]
      PROVE  /\ Alone(p) /\ rows' \in [RowId -> RowStates]
             /\ \A r \in RowId : Fills(r)
  <2>1. \A r \in RowId : rows'[r] = IF r \in batch THEN "filled" ELSE rows[r]
    BY <1>3
  <2>2. \A r \in RowId : Fills(r)
    BY <1>3, <2>1 DEF Bare, Fills
  <2>3. \A r \in RowId : rows'[r] \in RowStates
    BY <1>1, <2>1 DEF RowStates
  <2> QED
    BY <1>3, <2>2, <2>3 DEF Alone
<1>4. \A n : kSubset(n, Bare) \subseteq SUBSET Bare
  BY DEF kSubset
<1>5. CASE Bare # {}
  <2>1. PICK batch \in kSubset(IF Batch < Cardinality(Bare) THEN Batch ELSE Cardinality(Bare), Bare) :
               rows' = [r \in RowId |-> IF r \in batch THEN "filled" ELSE rows[r]]
    BY <1>5 DEF Backfill
  <2>2. batch \in SUBSET Bare /\ UNCHANGED start
    BY <1>4, <1>5 DEF Backfill
  <2> QED
    BY <1>1, <1>3, <2>1, <2>2
<1> QED
  BY <1>2, <1>5 DEF Backfill

LEMMA StampDoes ==
    ASSUME SchemaTypes, NEW p \in Process, Stamp(p), meta.version # None
    PROVE  /\ start' \in [Process -> Starting] /\ Alone(p)
           /\ UNCHANGED <<tables, column, rows, raced>>
           /\ meta' = [k \in KeySet |-> meta'[k]]
           /\ \A k \in KeySet : k # "version" => meta'[k] = meta[k]
           /\ meta.version \in Nat /\ meta'.version \in Nat /\ meta'.version >= meta.version
           /\ meta'.version \in {meta.version, Build[p]}
           /\ \/ start[p].at = "stamp2" /\ start'[p].at = "stamp"
              \/ start[p].at = "stamp" /\ start'[p].at = "ready"
<1>1. /\ start[p] \in Starting /\ start[p].at \in {"stamp2", "stamp"}
      /\ UNCHANGED <<tables, column, rows, raced>> /\ Build[p] \in Nat /\ meta.version \in Nat
      /\ meta = [k \in KeySet |-> meta[k]]
  BY SchemaAssumption DEF SchemaTypes, Stamp
<1> DEFINE val == IF meta.version < Build[p] THEN Build[p] ELSE meta.version
<1>2. val \in Nat /\ val >= meta.version /\ val \in {meta.version, Build[p]}
  BY <1>1
<1>3. meta' = [meta EXCEPT !.version = val]
  BY DEF Stamp
<1> HIDE DEF val
<1>4. /\ \A k \in KeySet : meta'[k] = IF k = "version" THEN val ELSE meta[k]
      /\ meta' = [k \in KeySet |-> meta'[k]]
  BY <1>1, <1>3
<1>5. meta'.version = val /\ \A k \in KeySet : k # "version" => meta'[k] = meta[k]
  BY <1>4 DEF KeySet
<1>6. /\ start' \in [Process -> Starting] /\ Alone(p)
      /\ \/ start[p].at = "stamp2" /\ start'[p].at = "stamp"
         \/ start[p].at = "stamp" /\ start'[p].at = "ready"
  <2>1. CASE start[p].at = "stamp2"
    <3> DEFINE new == [start[p] EXCEPT !.at = "stamp"]
    <3>1. new \in Starting /\ new.at = "stamp"
      BY <1>1 DEF Starting, Steps
    <3>2. start' = [start EXCEPT ![p] = new]
      BY <2>1 DEF Stamp, SchemaTypes
    <3> HIDE DEF new
    <3> QED
      BY <2>1, <3>1, <3>2, Becomes
  <2>2. CASE start[p].at = "stamp"
    <3> DEFINE new == [Off EXCEPT !.at = "ready"]
    <3>1. new \in Starting /\ new.at = "ready"
      BY DEF Off, Starting, Steps
    <3>2. start' = [start EXCEPT ![p] = new]
      BY <2>2 DEF Stamp, SchemaTypes
    <3> HIDE DEF new
    <3> QED
      BY <2>2, <3>1, <3>2, Becomes
  <2> QED
    BY <1>1, <2>1, <2>2
<1> QED
  BY <1>1, <1>2, <1>4, <1>5, <1>6

LEMMA StopDoes ==
    ASSUME SchemaTypes, NEW p \in Process, Stop(p)
    PROVE  /\ start' \in [Process -> Starting] /\ Alone(p) /\ start'[p].at = "off"
           /\ UNCHANGED <<meta, tables, column, rows>> /\ raced' = raced \ {p}
<1>1. start' = [start EXCEPT ![p] = Off] /\ UNCHANGED <<meta, tables, column, rows>>
      /\ raced' = raced \ {p}
  BY DEF Stop
<1> QED
  BY <1>1, Offs, Becomes

LEMMA ServesDoes ==
    ASSUME SchemaTypes, NEW p \in Process, Serves(p)
    PROVE  /\ UNCHANGED <<meta, tables, column, start, raced>>
           /\ rows' \in [RowId -> RowStates]
           /\ \A r \in RowId : rows'[r] = "old" => rows[r] = "old"
           /\ \A r \in RowId : rows'[r] = "unused" => rows[r] = "unused"
           /\ \A r \in RowId : rows[r] = "gone" => rows'[r] = "gone"
           /\ \A r \in RowId : rows'[r] \notin {"unused", "gone"} => rows[r] # "gone"
<1>1. rows \in [RowId -> RowStates]
  BY DEF SchemaTypes
<1>2. ASSUME NEW r \in RowId, Insert(p, r)
      PROVE  /\ rows' \in [RowId -> RowStates] /\ rows[r] = "unused"
             /\ rows'[r] \in {"bare", "filled"} /\ \A s \in RowId : s # r => rows'[s] = rows[s]
             /\ UNCHANGED <<meta, tables, column, start, raced>>
  BY <1>1, <1>2 DEF Insert, RowStates
<1>3. ASSUME NEW r \in RowId, Delete(p, r)
      PROVE  /\ rows' \in [RowId -> RowStates]
             /\ rows'[r] = "gone" /\ \A s \in RowId : s # r => rows'[s] = rows[s]
             /\ rows[r] \notin {"unused", "gone"}
             /\ UNCHANGED <<meta, tables, column, start, raced>>
  BY <1>1, <1>3 DEF Delete, RowStates
<1> QED
  BY <1>2, <1>3 DEF Serves

-----------------------------------------------------------------------------
(* The schema only grows, and what it says of the others stays true.       *)

Grows ==
  /\ tables \subseteq tables'
  /\ \A k \in KeySet : k # "version" /\ meta[k] # None => meta'[k] = meta[k]
  /\ meta.version # None => meta'.version # None
  /\ NoOldRows => NoOldRows'

LEMMA OtherKept ==
    ASSUME NEW q \in Process, Sound(q), Grows, start'[q] = start[q], q \in raced' <=> q \in raced
    PROVE  Sound(q)'
<1>1. Behind(q)'
  BY DEF Sound, Behind, Numbered, Made, Versioned, Grows
<1>2. Sees(q)'
  BY DEF Sound, Sees, Grows
<1>3. Knows(q)'
  <2> SUFFICES ASSUME Checked(q), q \notin raced
               PROVE  (Same(q) /\ Recorded /\ meta.prefix # None)'
    BY DEF Knows, Checked
  <2>1. Same(q) /\ Recorded /\ meta.prefix # None
    BY DEF Sound, Knows
  <2>2. meta'.dim = meta.dim /\ meta'.embedder = meta.embedder /\ meta'.prefix = meta.prefix
    BY <2>1 DEF Grows, KeySet, Recorded
  <2> QED
    BY <2>1, <2>2 DEF Same, Recorded
<1> QED
  BY <1>1, <1>2, <1>3 DEF Sound

LEMMA OthersKept ==
    ASSUME SchemaInv, NEW p \in Process, Grows, Alone(p), raced' \ {p} = raced \ {p},
           SchemaTypes', VersionSound', Sound(p)'
    PROVE  SchemaInv'
<1>1. ASSUME NEW q \in Process PROVE Sound(q)'
  <2>1. CASE q # p
    BY <2>1, OtherKept DEF SchemaInv, Alone
  <2> QED
    BY <2>1
<1> QED
  BY <1>1 DEF SchemaInv

(* Steps that change nothing but the process's own start.                  *)
LEMMA OnlyStart ==
    ASSUME SchemaInv, UNCHANGED <<meta, tables, rows>>
    PROVE  Grows /\ VersionSound'
  BY DEF SchemaInv, Grows, VersionSound, OldRowsFilled, NoOldRows

LEMMA ConnectStep == ASSUME SchemaInv, NEW p \in Process, Connect(p) PROVE SchemaInv'
<1>1. /\ SchemaTypes /\ UNCHANGED <<meta, tables, column, rows, raced>>
      /\ start' \in [Process -> Starting] /\ Alone(p)
      /\ start'[p].at = "identity" /\ start'[p].next = 1
  BY ConnectDoes DEF SchemaInv, Connect
<1>2. SchemaTypes' /\ Grows /\ VersionSound'
  BY <1>1, OnlyStart DEF SchemaTypes
<1>3. Sound(p)'
  BY <1>1 DEF Sound, Behind, Sees, Knows, Numbered, Made, Versioned, Checked
<1> QED
  BY <1>1, <1>2, <1>3, OthersKept

LEMMA CheckIdentityStep == ASSUME SchemaInv, NEW p \in Process, CheckIdentity(p) PROVE SchemaInv'
<1>1. /\ SchemaTypes /\ UNCHANGED <<meta, tables, column, rows>> /\ start[p].at = "identity"
      /\ raced' = IF Recorded /\ meta.prefix # None THEN raced \ {p} ELSE raced \cup {p}
      /\ Goto(p, IF Recorded /\ ~Same(p) THEN "refused" ELSE "version")
  BY DEF SchemaInv, CheckIdentity
<1>2. /\ start' \in [Process -> Starting] /\ Alone(p)
      /\ start'[p].at = (IF Recorded /\ ~Same(p) THEN "refused" ELSE "version")
      /\ start'[p].next = start[p].next
  BY <1>1, GoesTo DEF Steps
<1>3. raced' \subseteq Process /\ raced' \ {p} = raced \ {p}
  BY <1>1 DEF SchemaTypes
<1>4. SchemaTypes' /\ Grows /\ VersionSound'
  BY <1>1, <1>2, <1>3, OnlyStart DEF SchemaTypes
<1>5. Knows(p)'
  <2>1. ASSUME Checked(p)', p \notin raced' PROVE Same(p) /\ Recorded /\ meta.prefix # None
    BY <1>1, <1>2, <2>1 DEF Checked
  <2> QED
    BY <1>1, <2>1 DEF Knows, Same, Recorded
<1>6. start[p].next = 1
  BY <1>1 DEF SchemaInv, Sound, Behind, Numbered
<1>7. Sound(p)'
  BY <1>2, <1>5, <1>6 DEF Sound, Behind, Sees, Numbered, Made, Versioned
<1> QED
  BY <1>2, <1>3, <1>4, <1>7, OthersKept

LEMMA ReadVersionStep == ASSUME SchemaInv, NEW p \in Process, ReadVersion(p) PROVE SchemaInv'
<1>1. /\ SchemaTypes /\ start' \in [Process -> Starting] /\ Alone(p) /\ start[p].at = "version"
      /\ UNCHANGED <<meta, tables, column, rows, raced>>
      /\ start'[p].next = start[p].next
      /\ \/ start'[p].at = "refused"
         \/ start'[p].at = "ddl" /\ start'[p].read = meta.version
  BY ReadVersionDoes DEF SchemaInv
<1>2. SchemaTypes' /\ Grows /\ VersionSound'
  BY <1>1, OnlyStart DEF SchemaTypes
<1>3. start[p].next = 1 /\ VersionSound /\ Sound(p)
  BY <1>1 DEF SchemaInv, Sound, Behind, Numbered
<1>4. Behind(p)'
  BY <1>1, <1>3, SchemaAssumption DEF Behind, Numbered, Made, Versioned
<1>5. Sees(p)'
  <2>1. \/ meta.version \in Nat /\ meta.version < 2
        \/ NoOldRows
    <3>1. CASE meta.version = None
      BY <1>3, <3>1 DEF VersionSound
    <3>2. CASE meta.version \in Nat /\ meta.version >= 2
      <4>1. meta.version # None
        BY <3>2, SchemaAssumption
      <4> QED
        BY <1>3, <3>2, <4>1 DEF VersionSound, OldRowsFilled, NoOldRows
    <3> QED
      BY <1>1, <3>1, <3>2 DEF SchemaTypes
  <2>2. NoOldRows' = NoOldRows
    BY <1>1 DEF NoOldRows
  <2> QED
    BY <1>1, <2>1, <2>2 DEF Sees
<1>6. Knows(p)'
  BY <1>1, <1>3 DEF Sound, Knows, Checked, Same, Recorded
<1> QED
  BY <1>1, <1>2, <1>4, <1>5, <1>6, OthersKept DEF Sound

LEMMA DdlStep == ASSUME SchemaInv, NEW p \in Process, Ddl(p) PROVE SchemaInv'
<1>1. /\ SchemaTypes /\ start' \in [Process -> Starting] /\ Alone(p) /\ start[p].at = "ddl"
      /\ UNCHANGED <<meta, rows, raced>>
      /\ tables' = tables \cup {start[p].next}
      /\ start'[p].read = start[p].read
      /\ \/ /\ start[p].next = Build[p]
            /\ start'[p].at = "meta" /\ start'[p].next = 1
         \/ /\ start[p].next # Build[p]
            /\ start'[p].at = "ddl" /\ start'[p].next = start[p].next + 1
  BY DdlDoes DEF SchemaInv
<1>2. /\ start[p].next \in Nat \ {0} /\ Build[p] \in Nat \ {0}
      /\ Sound(p) /\ VersionSound /\ start[p].next <= Build[p]
      /\ 1 .. (start[p].next - 1) \subseteq tables
  BY <1>1, SchemaAssumption DEF SchemaInv, SchemaTypes, Starting, Sound, Behind, Numbered
<1>3. SchemaTypes' /\ Grows
  BY <1>1, <1>2 DEF SchemaTypes, Grows, NoOldRows
<1>4. VersionSound'
  BY <1>1, <1>2 DEF VersionSound, OldRowsFilled, NoOldRows
<1>5. 1 .. start[p].next \subseteq tables'
  <2>1. ASSUME NEW i \in 1 .. start[p].next PROVE i \in tables'
    BY <1>1, <1>2, <2>1
  <2> QED
    BY <2>1
<1>6. Behind(p)'
  <2>1. CASE start[p].next = Build[p]
    BY <1>1, <1>5, <2>1 DEF Behind, Numbered, Made, Versioned
  <2>2. CASE start[p].next # Build[p]
    <3>1. start'[p].next - 1 = start[p].next /\ start'[p].next <= Build[p]
      BY <1>1, <1>2, <2>2
    <3> QED
      BY <1>1, <1>5, <2>2, <3>1 DEF Behind, Numbered, Made, Versioned
  <2> QED
    BY <2>1, <2>2
<1>7. Sees(p)'
  BY <1>1, <1>2 DEF Sound, Sees, NoOldRows
<1>8. Knows(p)'
  BY <1>1, <1>2 DEF Sound, Knows, Checked, Same, Recorded
<1> QED
  BY <1>1, <1>3, <1>4, <1>6, <1>7, <1>8, OthersKept DEF Sound

LEMMA RecordMetaStep == ASSUME SchemaInv, NEW p \in Process, RecordMeta(p) PROVE SchemaInv'
<1>0. /\ SchemaTypes /\ VersionSound /\ Sound(p) /\ start[p].at = "meta"
      /\ start[p].next <= 4 /\ start[p].next \in Nat \ {0}
  BY DEF SchemaInv, RecordMeta, SchemaTypes, Starting, Sound, Behind, Numbered
<1>1. /\ start' \in [Process -> Starting] /\ Alone(p)
      /\ UNCHANGED <<tables, column, rows, raced>>
      /\ \A k \in KeySet : meta[k] # None => meta'[k] = meta[k]
      /\ meta' = [k \in KeySet |-> meta'[k]]
      /\ \/ meta'.version = meta.version
         \/ meta.version = None /\ meta'.version = Build[p]
      /\ start[p].next = 1 => meta'.version # None
      /\ start'[p].read = start[p].read
      /\ \/ start[p].next < 4 /\ start'[p].at = "meta" /\ start'[p].next = start[p].next + 1
         \/ start'[p].at = "backfill" /\ start[p].next = 4
         \/ /\ start'[p].at = "stamp" /\ start[p].next = 4
            /\ ~(start[p].read # None /\ start[p].read < 2 /\ Build[p] >= 2)
  BY <1>0, RecordMetaDoes
<1>2. Build[p] \in Nat \ {0} /\ None \notin Nat
  BY SchemaAssumption
<1>3. meta'.version \in Nat \cup {None} /\ (meta.version # None => meta'.version # None)
  BY <1>0, <1>1, <1>2 DEF SchemaTypes
<1>4. SchemaTypes' /\ Grows
  BY <1>0, <1>1, <1>3 DEF SchemaTypes, Grows, NoOldRows
<1>5. 1 .. Build[p] \subseteq tables
  BY <1>0 DEF Sound, Behind, Made
<1>6. VersionSound'
  <2>1. CASE meta'.version = meta.version
    BY <1>0, <1>1, <2>1 DEF VersionSound, OldRowsFilled, NoOldRows
  <2>2. CASE meta.version = None /\ meta'.version = Build[p]
    BY <1>0, <1>1, <1>2, <1>5, <2>2 DEF VersionSound, OldRowsFilled, NoOldRows
  <2> QED
    BY <1>1, <2>1, <2>2
<1>7. meta'.version # None
  <2>1. CASE start[p].next = 1
    BY <1>1, <2>1
  <2>2. CASE start[p].next > 1
    BY <1>0, <1>3, <2>2 DEF Sound, Behind, Versioned
  <2> QED
    BY <1>0, <2>1, <2>2
<1>8. Behind(p)'
  <2>1. 1 .. Build[p] \subseteq tables'
    BY <1>1, <1>5
  <2>2. Numbered(p)'
    BY <1>0, <1>1 DEF Numbered
  <2> QED
    BY <1>1, <1>7, <2>1, <2>2 DEF Behind
<1>9. Sees(p)'
  <2>1. \/ start[p].read \in Nat /\ start[p].read < 2
        \/ NoOldRows
    BY <1>0 DEF Sound, Sees
  <2>2. NoOldRows' = NoOldRows
    BY <1>1 DEF NoOldRows
  <2>3. start'[p].at = "stamp" => Build[p] < 2 \/ NoOldRows
    BY <1>1, <1>2, <2>1
  <2> QED
    BY <1>1, <2>1, <2>2, <2>3 DEF Sees
<1>10. Knows(p)'
  <2> SUFFICES ASSUME p \notin raced PROVE (Same(p) /\ Recorded /\ meta.prefix # None)'
    BY <1>1 DEF Knows
  <2>1. Same(p) /\ Recorded /\ meta.prefix # None
    BY <1>0 DEF Sound, Knows, Checked
  <2>2. meta'.dim = meta.dim /\ meta'.embedder = meta.embedder /\ meta'.prefix = meta.prefix
    BY <1>1, <2>1 DEF KeySet, Recorded
  <2> QED
    BY <2>1, <2>2 DEF Same, Recorded
<1> QED
  BY <1>1, <1>4, <1>6, <1>8, <1>9, <1>10, OthersKept DEF Sound

LEMMA BackfillStep == ASSUME SchemaInv, NEW p \in Process, Backfill(p) PROVE SchemaInv'
<1>1. /\ SchemaTypes /\ VersionSound /\ Sound(p)
      /\ start' \in [Process -> Starting] /\ Alone(p) /\ start[p].at = "backfill"
      /\ UNCHANGED <<meta, tables, column, raced>>
      /\ \A r \in RowId : Fills(r)
      /\ rows' \in [RowId -> RowStates]
      /\ \/ start' = start
         \/ NoOldRows /\ rows' = rows /\ start'[p].at = "stamp2"
  BY BackfillDoes DEF SchemaInv
<1>2. NoOldRows => NoOldRows'
  BY <1>1 DEF NoOldRows, Fills
<1>3. SchemaTypes' /\ Grows
  BY <1>1, <1>2 DEF SchemaTypes, Grows
<1>4. VersionSound'
  <2>1. OldRowsFilled'
    BY <1>1, <1>2 DEF VersionSound, OldRowsFilled, NoOldRows
  <2> QED
    BY <1>1, <1>2, <2>1 DEF VersionSound
<1>5. Sound(p)'
  <2>1. CASE start' = start
    BY <1>1, <1>3, <2>1, OtherKept
  <2>2. CASE NoOldRows /\ start'[p].at = "stamp2"
    <3>1. Knows(p)'
      BY <1>1, <2>2 DEF Sound, Knows, Checked, Same, Recorded
    <3>2. Behind(p)'
      BY <1>1, <2>2 DEF Sound, Behind, Numbered, Made, Versioned
    <3>3. Sees(p)'
      BY <1>2, <2>2 DEF Sees
    <3> QED
      BY <3>1, <3>2, <3>3 DEF Sound
  <2> QED
    BY <1>1, <2>1, <2>2
<1> QED
  BY <1>1, <1>3, <1>4, <1>5, OthersKept

LEMMA StampStep == ASSUME SchemaInv, NEW p \in Process, Stamp(p) PROVE SchemaInv'
<1>0. /\ SchemaTypes /\ VersionSound /\ Sound(p) /\ meta.version # None
      /\ 1 .. Build[p] \subseteq tables
  BY DEF SchemaInv, Stamp, Sound, Behind, Versioned, Made
<1>1. /\ start' \in [Process -> Starting] /\ Alone(p)
      /\ UNCHANGED <<tables, column, rows, raced>>
      /\ meta' = [k \in KeySet |-> meta'[k]]
      /\ \A k \in KeySet : k # "version" => meta'[k] = meta[k]
      /\ meta.version \in Nat /\ meta'.version \in Nat /\ meta'.version >= meta.version
      /\ meta'.version \in {meta.version, Build[p]}
      /\ \/ start[p].at = "stamp2" /\ start'[p].at = "stamp"
         \/ start[p].at = "stamp" /\ start'[p].at = "ready"
  BY <1>0, StampDoes
<1>2. Build[p] \in Nat /\ None \notin Nat
  BY SchemaAssumption
<1>3. SchemaTypes' /\ Grows
  BY <1>0, <1>1, <1>2 DEF SchemaTypes, Grows, NoOldRows
<1>4. Build[p] < 2 \/ NoOldRows
  BY <1>0, <1>1 DEF Sound, Sees
<1>5. VersionSound'
  <2>1. CASE meta'.version = meta.version
    BY <1>0, <1>1, <2>1 DEF VersionSound, OldRowsFilled, NoOldRows
  <2>2. CASE meta'.version = Build[p]
    BY <1>0, <1>1, <1>2, <1>4, <2>2 DEF VersionSound, OldRowsFilled, NoOldRows
  <2> QED
    BY <1>1, <2>1, <2>2
<1>6. Behind(p)'
  BY <1>0, <1>1, <1>2 DEF Behind, Numbered, Made, Versioned
<1>7. Sees(p)'
  BY <1>1, <1>4 DEF Sees, NoOldRows
<1>8. Knows(p)'
  <2> SUFFICES ASSUME p \notin raced PROVE (Same(p) /\ Recorded /\ meta.prefix # None)'
    BY <1>1 DEF Knows
  <2>1. Same(p) /\ Recorded /\ meta.prefix # None
    BY <1>0, <1>1 DEF Sound, Knows, Checked
  <2>2. meta'.dim = meta.dim /\ meta'.embedder = meta.embedder /\ meta'.prefix = meta.prefix
    BY <1>1 DEF KeySet
  <2> QED
    BY <2>1, <2>2 DEF Same, Recorded
<1> QED
  BY <1>1, <1>3, <1>5, <1>6, <1>7, <1>8, OthersKept DEF Sound

LEMMA StopStep == ASSUME SchemaInv, NEW p \in Process, Stop(p) PROVE SchemaInv'
<1>1. /\ SchemaTypes /\ start' \in [Process -> Starting] /\ Alone(p) /\ start'[p].at = "off"
      /\ UNCHANGED <<meta, tables, column, rows>> /\ raced' = raced \ {p}
  BY StopDoes DEF SchemaInv
<1>2. SchemaTypes' /\ Grows /\ VersionSound'
  BY <1>1, OnlyStart DEF SchemaTypes
<1>3. Sound(p)'
  BY <1>1 DEF Sound, Behind, Sees, Knows, Numbered, Made, Versioned, Checked
<1> QED
  BY <1>1, <1>2, <1>3, OthersKept

LEMMA ServesStep == ASSUME SchemaInv, NEW p \in Process, Serves(p) PROVE SchemaInv'
<1>1. /\ SchemaTypes /\ VersionSound
      /\ UNCHANGED <<meta, tables, column, start, raced>>
      /\ rows' \in [RowId -> RowStates]
      /\ \A r \in RowId : rows'[r] = "old" => rows[r] = "old"
  BY ServesDoes DEF SchemaInv
<1>2. SchemaTypes' /\ Grows
  BY <1>1 DEF SchemaTypes, Grows, NoOldRows
<1>3. VersionSound'
  BY <1>1 DEF VersionSound, OldRowsFilled, NoOldRows
<1>4. Alone(p) /\ Sound(p)'
  BY <1>1, <1>2, OtherKept DEF SchemaInv, Alone
<1> QED
  BY <1>1, <1>2, <1>3, <1>4, OthersKept

LEMMA SameSchema == ASSUME SchemaInv, UNCHANGED schema PROVE SchemaInv'
<1>1. UNCHANGED <<meta, tables, column, rows, start, raced>>
  BY DEF schema
<1>2. SchemaTypes' /\ Grows /\ VersionSound'
  BY <1>1, OnlyStart DEF SchemaInv, SchemaTypes
<1>3. \A p \in Process : Sound(p)'
  BY <1>1, <1>2, OtherKept DEF SchemaInv
<1> QED
  BY <1>2, <1>3 DEF SchemaInv

LEMMA SchemaInitInv == ASSUME SchemaInit PROVE SchemaInv
<1>1. start = [p \in Process |-> Off] /\ raced = {} /\ None \notin Nat
  BY SchemaAssumption DEF SchemaInit
<1>2. start \in [Process -> Starting]
  BY <1>1, Offs
<1>3. \A p \in Process : Sound(p)
  BY <1>1, Offs DEF Sound, Behind, Numbered, Made, Versioned, Sees, Knows, Checked
<1>4. {Keys[i] : i \in 1 .. 4} = KeySet
  <2>1. 1 .. 4 = {1, 2, 3, 4}
    OBVIOUS
  <2> QED
    BY <2>1 DEF Keys, KeySet
<1>5. CASE /\ meta = [k \in {Keys[i] : i \in 1 .. 4} |-> None]
           /\ tables = {} /\ rows = [r \in RowId |-> "unused"]
  <2>1. meta = [k \in KeySet |-> None] /\ meta.version = None
    BY <1>4, <1>5 DEF KeySet
  <2>2. SchemaTypes
    BY <1>1, <1>2, <1>5, <2>1 DEF SchemaTypes, RowStates
  <2>3. VersionSound
    BY <1>5, <2>1 DEF VersionSound, OldRowsFilled, NoOldRows
  <2> QED
    BY <1>3, <2>2, <2>3 DEF SchemaInv
<1>6. ASSUME NEW p \in Process,
             meta = [version |-> 1, dim |-> Config[p].dim, embedder |-> Config[p].embedder,
                     prefix |-> None],
             tables = {1},
             rows = [r \in RowId |-> IF r \in OldRows THEN "old" ELSE "unused"]
      PROVE  SchemaInv
  <2>1. meta.version = 1 /\ meta = [k \in KeySet |-> meta[k]]
    BY <1>6 DEF KeySet
  <2>2. SchemaTypes
    BY <1>1, <1>2, <1>6, <2>1 DEF SchemaTypes, RowStates
  <2>3. VersionSound
    BY <1>1, <1>6, <2>1 DEF VersionSound, OldRowsFilled
  <2> QED
    BY <1>3, <2>2, <2>3 DEF SchemaInv
<1> QED
  BY <1>5, <1>6 DEF SchemaInit

LEMMA StartsStep == ASSUME SchemaInv, NEW p \in Process, Starts(p) PROVE SchemaInv'
  BY ConnectStep, CheckIdentityStep, ReadVersionStep, DdlStep, RecordMetaStep, BackfillStep,
     StampStep, StopStep DEF Starts

LEMMA SchemaStep == ASSUME SchemaInv, [Next]_<<schema, archive>> PROVE SchemaInv'
<1>1. CASE \E p \in Process : Serves(p) \/ Starts(p)
  BY <1>1, ServesStep, StartsStep
<1>2. CASE UNCHANGED schema
  BY <1>2, SameSchema
<1> QED
  BY <1>1, <1>2 DEF Next

(* The tables a version stands for, the columns of the old records and the *)
(* recorded identity: the invariant above says more of every process on    *)
(* its way (PgStore::migrate).                                             *)
THEOREM UpgradeIsSoundHolds == Spec => []UpgradeIsSound
<1>1. Init => SchemaInv
  BY SchemaInitInv DEF Init
<1>2. SchemaInv /\ [Next]_<<schema, archive>> => SchemaInv'
  BY SchemaStep
<1>3. SchemaInv => UpgradeIsSound
  <2> SUFFICES ASSUME SchemaInv PROVE UpgradeIsSound
    OBVIOUS
  <2>1. TablesBehindVersion
    BY DEF TablesBehindVersion, SchemaInv, VersionSound, Sound, Behind, Made, Ready
  <2>2. OldRowsFilled
    BY DEF SchemaInv, VersionSound
  <2>3. RunsAsRecorded
    BY DEF RunsAsRecorded, SchemaInv, Sound, Knows, Checked, Ready
  <2> QED
    BY <2>1, <2>2, <2>3 DEF UpgradeIsSound
<1> QED
  BY <1>1, <1>2, <1>3, PTL DEF Spec

RecordedStays ==
  /\ meta.version # None => meta'.version # None /\ meta'.version >= meta.version
  /\ \A k \in {"dim", "embedder", "prefix"} : meta[k] # None => meta'[k] = meta[k]

LEMMA StaysWhenSame == ASSUME SchemaTypes, meta' = meta PROVE RecordedStays
  BY DEF SchemaTypes, RecordedStays

LEMMA StartsStays == ASSUME SchemaInv, NEW p \in Process, Starts(p) PROVE RecordedStays
<1>1. SchemaTypes /\ Sound(p) /\ None \notin Nat
  BY SchemaAssumption DEF SchemaInv
<1>2. CASE RecordMeta(p)
  <2>1. start[p].next <= 4
    BY <1>1, <1>2 DEF Sound, Behind, Numbered, RecordMeta
  <2>2. \A k \in KeySet : meta[k] # None => meta'[k] = meta[k]
    BY <1>1, <1>2, <2>1, RecordMetaDoes
  <2> QED
    BY <1>1, <2>2 DEF RecordedStays, KeySet, SchemaTypes
<1>3. CASE Stamp(p)
  <2>1. meta.version # None
    BY <1>1, <1>3 DEF Stamp, Sound, Behind, Versioned
  <2>2. /\ \A k \in KeySet : k # "version" => meta'[k] = meta[k]
        /\ meta'.version \in Nat /\ meta'.version >= meta.version
    BY <1>1, <1>3, <2>1, StampDoes
  <2> QED
    BY <1>1, <2>2 DEF RecordedStays, KeySet
<1>4. CASE \/ Connect(p) \/ CheckIdentity(p) \/ ReadVersion(p) \/ Ddl(p)
           \/ Backfill(p) \/ Stop(p)
  BY <1>1, <1>4, StaysWhenSame DEF Connect, CheckIdentity, ReadVersion, Ddl, Backfill, Stop
<1> QED
  BY <1>2, <1>3, <1>4 DEF Starts

(* The version of the database never falls and what it was embedded with   *)
(* is never overwritten, whichever builds start on it (ensure_meta, stamp).*)
THEOREM VersionOnlyRisesHolds == Spec => VersionOnlyRises
<1>1. Init => SchemaInv
  BY SchemaInitInv DEF Init
<1>2. SchemaInv /\ [Next]_<<schema, archive>> => SchemaInv'
  BY SchemaStep
<1>3. ASSUME SchemaInv, [Next]_<<schema, archive>> PROVE [RecordedStays]_schema
  <2>1. CASE \E p \in Process : Starts(p)
    BY <1>3, <2>1, StartsStays
  <2>2. CASE \E p \in Process : Serves(p)
    BY <1>3, <2>2, ServesDoes, StaysWhenSame DEF SchemaInv
  <2>3. CASE UNCHANGED schema
    BY <2>3
  <2> QED
    BY <1>3, <2>1, <2>2, <2>3 DEF Next
<1> QED
  BY <1>1, <1>2, <1>3, PTL DEF Spec, VersionOnlyRises, RecordedStays

-----------------------------------------------------------------------------
(* The file and the other database.                                        *)

ArchiveTypes ==
  /\ export \in [by : Process \cup {None}, at : {"off", "pages", "links", "done"}, cursor : Nat]
  /\ file = [schema |-> file.schema, records |-> file.records, links |-> file.links]
  /\ file.records \in Seq(RowId)
  /\ import \in [at : {"off", "refused", "records", "links", "failed", "done"}, next : Nat]
  /\ copy \in [own : SUBSET RowId, imported : SUBSET RowId, links : SUBSET RowId]

(* Records come and go, and an id is not used again.                       *)
Since ==
  export.at # "off" =>
    /\ \A r \in RowId : rows[r] = "unused" => before[r] = "unused"
    /\ \A r \in RowId : before[r] = "gone" => rows[r] = "gone"

(* All that was there and is there, up to the cursor, is in the file.      *)
Taken == In(before) \cap Live

Whole ==
  /\ export.at # "off" =>
       /\ IsInjective(file.records)
       /\ \A r \in Range(file.records) : before[r] # "gone"
  /\ export.at = "pages" =>
       /\ \A r \in Range(file.records) : r <= export.cursor
       /\ \A r \in Taken : r <= export.cursor => r \in Range(file.records)
  /\ export.at \in {"links", "done"} => Taken \subseteq Range(file.records)

(* All that was read of the file is in the other database.                 *)
There == copy.own \cup copy.imported

Read ==
  /\ export.at # "done" => import.at = "off"
  /\ import.next \in 1 .. (Len(file.records) + 1)
  /\ import.at = "off" => import.next = 1
  /\ import.at = "records" => \A i \in 1 .. (import.next - 1) : file.records[i] \in There
  /\ import.at \in {"links", "done"} => Range(file.records) \subseteq There
  /\ import.at = "done" => file.links \subseteq copy.links
  /\ copy.own = Held /\ copy.imported \cap Held = {}
  /\ copy.links \subseteq There

ArchiveInv == ArchiveTypes /\ Since /\ Whole /\ Read

-----------------------------------------------------------------------------
(* What the queries of an export return.                                   *)

(* The ids of a set have an order: the place of each is the number of      *)
(* those before it.                                                        *)
LEMMA Enumerated ==
    ASSUME NEW ids, ids \subseteq Nat, IsFiniteSet(ids)
    PROVE  /\ InOrder(ids) \in [1 .. Cardinality(ids) -> ids]
           /\ \A i, j \in 1 .. Cardinality(ids) : i < j => InOrder(ids)[i] < InOrder(ids)[j]
<1> DEFINE n == Cardinality(ids)
           Earlier(r) == {x \in ids : x < r}
           Place == [r \in ids |-> Cardinality(Earlier(r)) + 1]
<1>1. n \in Nat
  BY FS_CardinalityType
<1>2. ASSUME NEW r \in ids
      PROVE  IsFiniteSet(Earlier(r)) /\ Cardinality(Earlier(r)) \in Nat /\ Place[r] \in 1 .. n
  <2>1. Earlier(r) \in SUBSET (ids \ {r})
    OBVIOUS
  <2>2. IsFiniteSet(ids \ {r}) /\ Cardinality(ids \ {r}) = n - 1
    BY FS_RemoveElement
  <2>3. IsFiniteSet(Earlier(r)) /\ Cardinality(Earlier(r)) <= n - 1
    BY <2>1, <2>2, FS_Subset
  <2>4. Cardinality(Earlier(r)) \in Nat
    BY <2>3, FS_CardinalityType
  <2>5. Place[r] = Cardinality(Earlier(r)) + 1
    OBVIOUS
  <2> HIDE DEF Place, Earlier, n
  <2> QED
    BY <1>1, <2>3, <2>4, <2>5
<1>3. ASSUME NEW r \in ids, NEW s \in ids, r < s PROVE Place[r] < Place[s]
  <2>0. \A x \in ids : x < r => x < s /\ x # r
    <3>1. \A x \in ids : x \in Nat
      OBVIOUS
    <3> QED
      BY <1>3, <3>1
  <2>1. Earlier(r) \in SUBSET (Earlier(s) \ {r}) /\ r \in Earlier(s)
    BY <1>3, <2>0
  <2>2. IsFiniteSet(Earlier(s) \ {r}) /\ Cardinality(Earlier(s) \ {r}) = Cardinality(Earlier(s)) - 1
    BY <1>2, <2>1, FS_RemoveElement
  <2>3. Cardinality(Earlier(r)) <= Cardinality(Earlier(s)) - 1
    BY <2>1, <2>2, FS_Subset
  <2>4. Place[r] = Cardinality(Earlier(r)) + 1 /\ Place[s] = Cardinality(Earlier(s)) + 1
    OBVIOUS
  <2>5. Cardinality(Earlier(r)) \in Nat /\ Cardinality(Earlier(s)) \in Nat
    BY <1>2
  <2> HIDE DEF Place, Earlier
  <2> QED
    BY <2>3, <2>4, <2>5
<1>4. Place \in [ids -> 1 .. n]
  <2>1. Place = [r \in ids |-> Place[r]]
    OBVIOUS
  <2> HIDE DEF Place
  <2> QED
    BY <1>2, <2>1
<1> HIDE DEF Place, Earlier
<1>5. Place \in Surjection(ids, 1 .. n)
  <2>1. Place \in Injection(ids, 1 .. n)
    BY <1>3, <1>4 DEF Injection, IsInjective
  <2>2. IsFiniteSet(1 .. n) /\ Cardinality(1 .. n) = n
    BY <1>1, FS_Interval
  <2> QED
    BY <2>1, <2>2, FS_Injection
<1> DEFINE order == [i \in 1 .. n |-> CHOOSE r \in ids : Place[r] = i]
<1>6. \A i \in 1 .. n : order[i] \in ids /\ Place[order[i]] = i
  BY <1>5 DEF Surjection
<1>7. order \in [1 .. n -> ids]
  BY <1>6
<1> HIDE DEF order
<1>8. ASSUME NEW i \in 1 .. n, NEW j \in 1 .. n, i < j PROVE order[i] < order[j]
  <2>1. CASE order[j] < order[i]
    <3>1. Place[order[j]] < Place[order[i]]
      BY <1>3, <1>6, <2>1
    <3>2. Place[order[j]] = j /\ Place[order[i]] = i /\ i \in Nat /\ j \in Nat
      BY <1>1, <1>6
    <3> QED
      BY <1>8, <3>1, <3>2
  <2>2. CASE order[j] = order[i]
    BY <1>1, <1>6, <1>8, <2>2
  <2>3. order[i] \in Nat /\ order[j] \in Nat
    BY <1>7
  <2> QED
    BY <2>1, <2>2, <2>3
<1> QED
  BY <1>7, <1>8 DEF InOrder

LEMMA AllInOrder ==
    ASSUME NEW ids, ids \subseteq Nat, IsFiniteSet(ids)
    PROVE  /\ InOrder(ids) \in Seq(ids) /\ Len(InOrder(ids)) = Cardinality(ids)
           /\ IsInjective(InOrder(ids)) /\ Range(InOrder(ids)) = ids
<1> DEFINE n == Cardinality(ids)
           order == InOrder(ids)
<1>1. n \in Nat
  BY FS_CardinalityType
<1>2. order \in [1 .. n -> ids] /\ \A i, j \in 1 .. n : i < j => order[i] < order[j]
  BY Enumerated
<1> HIDE DEF order
<1>3. order \in Injection(1 .. n, ids)
  <2>1. ASSUME NEW i \in 1 .. n, NEW j \in 1 .. n, order[i] = order[j] PROVE i = j
    <3>1. order[i] \in Nat
      BY <1>2
    <3>2. ~(i < j) /\ ~(j < i)
      BY <1>2, <2>1, <3>1
    <3> QED
      BY <1>1, <3>2
  <2> QED
    BY <1>2, <2>1 DEF Injection, IsInjective
<1>4. order \in Surjection(1 .. n, ids)
  <2>1. Cardinality(1 .. n) = n
    BY <1>1, FS_Interval
  <2> QED
    BY <1>3, <2>1, FS_Injection
<1>5. order \in Seq(ids) /\ Len(order) = n
  BY <1>1, <1>2
<1>6. Range(order) = ids
  BY <1>2, <1>4 DEF Surjection, Range
<1> QED
  BY <1>3, <1>5, <1>6 DEF order, Injection

LEMMA LastOne ==
    ASSUME NEW ids, ids \subseteq Nat, IsFiniteSet(ids), ids # {}
    PROVE  Max(ids) \in ids /\ \A r \in ids : r <= Max(ids)
<1> DEFINE n == Cardinality(ids)
<1>1. n \in Nat /\ n # 0
  BY FS_CardinalityType, FS_EmptySet
<1>2. /\ InOrder(ids) \in [1 .. n -> ids] /\ Range(InOrder(ids)) = ids
      /\ \A i, j \in 1 .. n : i < j => InOrder(ids)[i] < InOrder(ids)[j]
  BY Enumerated, AllInOrder
<1> HIDE DEF n
<1>3. InOrder(ids)[n] \in ids
  BY <1>1, <1>2
<1>4. ASSUME NEW r \in ids PROVE InOrder(ids)[n] >= r
  <2>1. PICK i \in 1 .. n : r = InOrder(ids)[i]
    BY <1>2 DEF Range
  <2>2. CASE i = n
    BY <1>3, <2>1, <2>2
  <2>3. CASE i < n
    <3>1. InOrder(ids)[i] < InOrder(ids)[n]
      BY <1>1, <1>2, <2>3
    <3>2. InOrder(ids)[n] \in Nat /\ r \in Nat
      BY <1>3
    <3> QED
      BY <2>1, <3>1, <3>2
  <2> QED
    BY <1>1, <2>2, <2>3
<1>5. Max(ids) \in ids /\ \A r \in ids : Max(ids) >= r
  BY <1>3, <1>4 DEF Max
<1> QED
  BY <1>5

LEMMA FirstOnes ==
    ASSUME NEW ids, ids \subseteq Nat, IsFiniteSet(ids), NEW n \in Nat \ {0}
    PROVE  /\ First(ids, n) \subseteq ids /\ IsFiniteSet(First(ids, n))
           /\ First(ids, n) = {} => ids = {}
           /\ \A r \in First(ids, n) : \A s \in ids : s < r => s \in First(ids, n)
<1>1. First(ids, n) \subseteq ids /\ IsFiniteSet(First(ids, n))
  BY FS_Subset DEF First
<1>2. ASSUME ids # {} PROVE First(ids, n) # {}
  <2> DEFINE least == InOrder(ids)[1]
  <2>1. Cardinality(ids) \in Nat /\ Cardinality(ids) # 0
    BY <1>2, FS_CardinalityType, FS_EmptySet
  <2>2. /\ InOrder(ids) \in [1 .. Cardinality(ids) -> ids] /\ Range(InOrder(ids)) = ids
        /\ \A i, j \in 1 .. Cardinality(ids) : i < j => InOrder(ids)[i] < InOrder(ids)[j]
    BY Enumerated, AllInOrder
  <2>3. least \in ids
    BY <2>1, <2>2
  <2>4. ASSUME NEW s \in ids, s < least PROVE FALSE
    <3>1. PICK i \in 1 .. Cardinality(ids) : s = InOrder(ids)[i]
      BY <2>2 DEF Range
    <3>2. i = 1 \/ least < s
      BY <2>1, <2>2, <3>1
    <3>3. s \in Nat /\ least \in Nat
      BY <2>3
    <3> HIDE DEF least
    <3>4. s = least \/ least < s
      BY <3>1, <3>2 DEF least
    <3> QED
      BY <2>4, <3>3, <3>4
  <2> HIDE DEF least
  <2>5. {s \in ids : s < least} = {}
    BY <2>4
  <2>6. Cardinality({s \in ids : s < least}) < n
    BY <2>5, FS_EmptySet
  <2> QED
    BY <2>3, <2>6 DEF First
<1>3. ASSUME NEW r \in First(ids, n), NEW s \in ids, s < r PROVE s \in First(ids, n)
  <2> DEFINE Earlier(x) == {y \in ids : y < x}
  <2>1. r \in ids /\ Cardinality(Earlier(r)) < n
    BY DEF First
  <2>0. \A x \in ids : x < s => x < r
    <3>1. \A x \in ids : x \in Nat
      OBVIOUS
    <3> QED
      BY <1>3, <2>1, <3>1
  <2>2. Earlier(s) \in SUBSET Earlier(r) /\ Earlier(r) \in SUBSET ids
    BY <2>0
  <2>3. IsFiniteSet(Earlier(r))
    BY <2>2, FS_Subset
  <2>4. IsFiniteSet(Earlier(s)) /\ Cardinality(Earlier(s)) <= Cardinality(Earlier(r))
    BY <2>2, <2>3, FS_Subset
  <2>5. Cardinality(Earlier(r)) \in Nat /\ Cardinality(Earlier(s)) \in Nat
    BY <2>3, <2>4, FS_CardinalityType
  <2>6. Cardinality(Earlier(s)) < n
    BY <2>1, <2>4, <2>5
  <2> QED
    BY <2>6 DEF First
<1> QED
  BY <1>1, <1>2, <1>3

-----------------------------------------------------------------------------
(* The steps of an export.                                                 *)

Exporting == [by : Process \cup {None}, at : {"off", "pages", "links", "done"}, cursor : Nat]
Importing ==
  [at : {"off", "refused", "records", "links", "failed", "done"}, next : Nat]

LEMMA ServedArchive ==
    ASSUME SchemaInv, ArchiveInv, NEW p \in Process, Serves(p), UNCHANGED archive
    PROVE  ArchiveInv'
<1>1. UNCHANGED <<export, file, before, import, copy>>
  BY DEF archive
<1>2. /\ \A r \in RowId : rows'[r] = "unused" => rows[r] = "unused"
      /\ \A r \in RowId : rows[r] = "gone" => rows'[r] = "gone"
      /\ \A r \in RowId : rows'[r] \notin {"unused", "gone"} => rows[r] # "gone"
  BY ServesDoes DEF SchemaInv
<1>3. ArchiveTypes' /\ Read'
  BY <1>1 DEF ArchiveInv, ArchiveTypes, Read, There
<1>4. Since'
  BY <1>1, <1>2 DEF ArchiveInv, Since
<1>5. export.at # "off" => Taken' \subseteq Taken
  BY <1>1, <1>2 DEF ArchiveInv, Since, Taken, In, Live
<1>6. Whole'
  BY <1>1, <1>5 DEF ArchiveInv, Whole
<1> QED
  BY <1>3, <1>4, <1>6 DEF ArchiveInv

LEMMA StartedArchive ==
    ASSUME ArchiveInv, export.at = "off", UNCHANGED archive
    PROVE  ArchiveInv'
<1>1. UNCHANGED <<export, file, before, import, copy>>
  BY DEF archive
<1> QED
  BY <1>1 DEF ArchiveInv, ArchiveTypes, Since, Whole, Read, There

(* As long as the file is not whole nothing reads it.                      *)
LEMMA NotRead ==
    ASSUME ArchiveInv, ArchiveTypes', UNCHANGED <<import, copy>>, export.at # "done"
    PROVE  Read'
<1>1. import.at = "off" /\ import.next = 1
  BY DEF ArchiveInv, Read
<1>2. Len(file'.records) \in Nat
  BY DEF ArchiveTypes
<1>3. 1 \in 1 .. (Len(file'.records) + 1)
  BY <1>2
<1> QED
  BY <1>1, <1>3 DEF ArchiveInv, Read, There

LEMMA BeginExportStep ==
    ASSUME SchemaInv, ArchiveInv, NEW p \in Process, BeginExport(p), UNCHANGED schema
    PROVE  ArchiveInv'
<1>1. /\ export' = [NoExport EXCEPT !.by = p, !.at = "pages"]
      /\ file' = [Empty EXCEPT !.schema = Build[p]]
      /\ before' = rows /\ rows' = rows /\ UNCHANGED <<import, copy>> /\ export.at = "off"
  BY DEF BeginExport, schema
<1>2. export' \in Exporting /\ export'.at = "pages" /\ export'.cursor = 0
  BY <1>1 DEF NoExport, Exporting
<1>3. file'.records = <<>> /\ file' = [schema |-> Build[p], records |-> <<>>, links |-> {}]
  BY <1>1 DEF Empty
<1>4. ArchiveTypes'
  <2>1. file'.records \in Seq(RowId)
    BY <1>3
  <2>2. file' = [schema |-> file'.schema, records |-> file'.records, links |-> file'.links]
    BY <1>3
  <2> QED
    BY <1>1, <1>2, <2>1, <2>2 DEF ArchiveInv, ArchiveTypes, Exporting
<1>5. Read'
  BY <1>1, <1>4, NotRead
<1>6. Since'
  BY <1>1 DEF Since
<1>7. Range(file'.records) = {} /\ IsInjective(file'.records)
  BY <1>3 DEF Range, IsInjective
<1>8. \A r \in RowId : r \in Nat /\ ~(r <= 0)
  BY SchemaAssumption
<1>9. Whole'
  BY <1>2, <1>7, <1>8 DEF Whole, Taken, In
<1> QED
  BY <1>4, <1>5, <1>6, <1>9 DEF ArchiveInv

LEMMA ExportBreaksStep ==
    ASSUME ArchiveInv, ExportBreaks, UNCHANGED schema PROVE ArchiveInv'
<1>1. /\ export' = NoExport /\ file' = Empty /\ UNCHANGED <<import, copy>>
      /\ export.at # "done"
  BY DEF ExportBreaks
<1>2. export' \in Exporting /\ export'.at = "off"
  BY <1>1 DEF NoExport, Exporting
<1>3. ArchiveTypes'
  BY <1>1, <1>2 DEF ArchiveInv, ArchiveTypes, Exporting, Empty
<1>4. Read'
  BY <1>1, <1>3, NotRead
<1> QED
  BY <1>2, <1>3, <1>4 DEF ArchiveInv, Since, Whole

LEMMA ExportLinksStep ==
    ASSUME ArchiveInv, ExportLinks, UNCHANGED schema PROVE ArchiveInv'
<1>1. /\ export \in Exporting /\ export' = [export EXCEPT !.at = "done"] /\ export.at = "links"
      /\ file' = [file EXCEPT !.links = Live \cap Joining]
      /\ file = [schema |-> file.schema, records |-> file.records, links |-> file.links]
      /\ UNCHANGED <<before, import, copy, rows>>
  BY DEF ExportLinks, schema, ArchiveInv, ArchiveTypes, Exporting
<1>2. export' \in Exporting /\ export'.at = "done"
  BY <1>1 DEF Exporting
<1>3. /\ file'.records = file.records
      /\ file' = [schema |-> file'.schema, records |-> file'.records, links |-> file'.links]
  BY <1>1
<1>4. ArchiveTypes'
  BY <1>1, <1>2, <1>3 DEF ArchiveInv, ArchiveTypes, Exporting
<1>5. Read'
  BY <1>1, <1>4, NotRead
<1>6. Since'
  BY <1>1 DEF ArchiveInv, Since
<1>7. Whole'
  BY <1>1, <1>2, <1>3 DEF ArchiveInv, Whole, Taken, Live
<1> QED
  BY <1>4, <1>5, <1>6, <1>7 DEF ArchiveInv

(* The rest of the records after the cursor.                               *)
Later == {r \in Live : r > export.cursor}

LEMMA LaterOnes == Later \subseteq RowId /\ Later \subseteq Nat /\ IsFiniteSet(Later)
<1>1. Later \in SUBSET RowId
  BY DEF Later, Live, In
<1> QED
  BY <1>1, SchemaAssumption, FS_Subset

LEMMA LastPageStep ==
    ASSUME ArchiveInv, export.at = "pages", Later = {},
           export' = [export EXCEPT !.at = "links"], UNCHANGED <<file, before, import, copy, rows>>
    PROVE  ArchiveInv'
<1>1. export \in Exporting
  BY DEF ArchiveInv, ArchiveTypes, Exporting
<1>2. export' \in Exporting /\ export'.at = "links"
  BY <1>1 DEF Exporting
<1>3. ArchiveTypes'
  BY <1>2 DEF ArchiveInv, ArchiveTypes, Exporting
<1>4. Read'
  BY <1>3, NotRead
<1>5. Since'
  BY DEF ArchiveInv, Since
<1>6. Taken \subseteq Range(file.records)
  <2>1. ASSUME NEW r \in Taken PROVE r <= export.cursor
    <3>1. r \in Live /\ r \in Nat /\ export.cursor \in Nat
      BY <1>1, SchemaAssumption DEF Taken, Live, In, Exporting
    <3>2. ~(r > export.cursor)
      BY <3>1 DEF Later
    <3> QED
      BY <3>1, <3>2
  <2> QED
    BY <2>1 DEF ArchiveInv, Whole
<1>7. Whole'
  BY <1>2, <1>6 DEF ArchiveInv, Whole, Taken, Live
<1> QED
  BY <1>3, <1>4, <1>5, <1>7 DEF ArchiveInv

(* Everything that is there between one cursor and the next is in a page.  *)
LEMMA PageStep ==
    ASSUME ArchiveInv, export.at = "pages", NEW page, page = First(Later, Page), page # {},
           export' = [export EXCEPT !.cursor = Max(page)],
           file' = [file EXCEPT !.records = @ \o InOrder(page)],
           UNCHANGED <<before, import, copy, rows>>
    PROVE  ArchiveInv'
<1>1. /\ export \in Exporting /\ file.records \in Seq(RowId)
      /\ file = [schema |-> file.schema, records |-> file.records, links |-> file.links]
      /\ IsInjective(file.records)
      /\ \A r \in Range(file.records) : before[r] # "gone" /\ r <= export.cursor
      /\ \A r \in Taken : r <= export.cursor => r \in Range(file.records)
  BY DEF ArchiveInv, ArchiveTypes, Exporting, Whole
<1>2. /\ page \subseteq Later /\ IsFiniteSet(page) /\ page \subseteq RowId /\ page \subseteq Nat
      /\ \A r \in page : \A s \in Later : s < r => s \in page
  BY LaterOnes, FirstOnes, ArchiveAssumption
<1>3. Max(page) \in page /\ \A r \in page : r <= Max(page)
  BY <1>2, LastOne
<1> DEFINE s == file.records
           t == InOrder(page)
           all == s \o t
<1>4. t \in Seq(page) /\ IsInjective(t) /\ Range(t) = page
  BY <1>2, AllInOrder
<1>5. t \in Seq(RowId)
  BY <1>2, <1>4
<1>6. /\ export.cursor \in Nat /\ Max(page) \in Nat /\ Max(page) > export.cursor
      /\ \A r \in page : r > export.cursor
  BY <1>1, <1>2, <1>3 DEF Later, Exporting
<1>7. export' \in Exporting /\ export'.at = "pages" /\ export'.cursor = Max(page)
  BY <1>1, <1>6 DEF Exporting
<1>8. /\ file'.records = all
      /\ file' = [schema |-> file'.schema, records |-> file'.records, links |-> file'.links]
  BY <1>1
<1> HIDE DEF t
<1>9. /\ all \in Seq(RowId) /\ Len(all) = Len(s) + Len(t)
      /\ \A i \in 1 .. Len(s) + Len(t) : all[i] = IF i <= Len(s) THEN s[i] ELSE t[i - Len(s)]
  BY <1>1, <1>5, ConcatProperties
<1>10. Len(s) \in Nat /\ Len(t) \in Nat /\ DOMAIN s = 1 .. Len(s) /\ DOMAIN t = 1 .. Len(t)
  BY <1>1, <1>5
<1> HIDE DEF s, all
<1>11. DOMAIN all = 1 .. Len(s) + Len(t)
  BY <1>9
<1>12. Range(all) = Range(s) \cup page
  <2>1. ASSUME NEW i \in DOMAIN all PROVE all[i] \in Range(s) \cup Range(t)
    <3>1. CASE i <= Len(s)
      <4>1. i \in DOMAIN s /\ all[i] = s[i]
        BY <1>9, <1>10, <1>11, <3>1
      <4> QED
        BY <4>1 DEF Range
    <3>2. CASE i > Len(s)
      <4>1. i - Len(s) \in DOMAIN t /\ all[i] = t[i - Len(s)]
        BY <1>9, <1>10, <1>11, <3>2
      <4> QED
        BY <4>1 DEF Range
    <3> QED
      BY <1>10, <1>11, <3>1, <3>2
  <2>2. ASSUME NEW i \in DOMAIN s PROVE s[i] \in Range(all)
    <3>1. i \in DOMAIN all /\ all[i] = s[i]
      BY <1>9, <1>10, <1>11
    <3> QED
      BY <3>1 DEF Range
  <2>3. ASSUME NEW i \in DOMAIN t PROVE t[i] \in Range(all)
    <3>1. /\ i + Len(s) \in DOMAIN all /\ all[i + Len(s)] = t[(i + Len(s)) - Len(s)]
          /\ (i + Len(s)) - Len(s) = i
      BY <1>9, <1>10, <1>11
    <3> QED
      BY <3>1 DEF Range
  <2>4. Range(all) \subseteq Range(s) \cup Range(t)
    BY <2>1 DEF Range
  <2>5. Range(s) \subseteq Range(all) /\ Range(t) \subseteq Range(all)
    BY <2>2, <2>3 DEF Range
  <2> QED
    BY <1>4, <2>4, <2>5
<1>13. \A r \in Range(s) : r \in Nat /\ r <= export.cursor /\ r \notin page
  <2>1. \A r \in Range(s) : r \in Nat
    BY <1>1, <1>10, SchemaAssumption DEF s, Range
  <2>2. \A r \in Range(s) : r <= export.cursor
    BY <1>1 DEF s
  <2> QED
    BY <1>6, <2>1, <2>2
<1>14. IsInjective(all)
  <2> SUFFICES ASSUME NEW i \in DOMAIN all, NEW j \in DOMAIN all, all[i] = all[j]
               PROVE  i = j
    BY DEF IsInjective
  <2>1. ASSUME NEW k \in DOMAIN all, k <= Len(s)
        PROVE  k \in DOMAIN s /\ all[k] = s[k] /\ all[k] \in Range(s)
    <3>1. k \in DOMAIN s /\ all[k] = s[k]
      BY <1>9, <1>10, <1>11, <2>1
    <3> QED
      BY <3>1 DEF Range
  <2>2. ASSUME NEW k \in DOMAIN all, k > Len(s)
        PROVE  k - Len(s) \in DOMAIN t /\ all[k] = t[k - Len(s)] /\ all[k] \in page
    <3>1. k - Len(s) \in DOMAIN t /\ all[k] = t[k - Len(s)]
      BY <1>9, <1>10, <1>11, <2>2
    <3> QED
      BY <1>4, <3>1 DEF Range
  <2>3. i \in Nat /\ j \in Nat
    BY <1>10, <1>11
  <2>4. CASE i <= Len(s) /\ j <= Len(s)
    BY <1>1, <2>1, <2>4 DEF IsInjective, s
  <2>5. CASE i > Len(s) /\ j > Len(s)
    <3>1. t[i - Len(s)] = t[j - Len(s)]
      BY <2>2, <2>5
    <3>2. i - Len(s) = j - Len(s)
      BY <1>4, <2>2, <2>5, <3>1 DEF IsInjective
    <3> QED
      BY <1>10, <2>3, <3>2
  <2>6. CASE i <= Len(s) /\ j > Len(s)
    BY <1>13, <2>1, <2>2, <2>6
  <2>7. CASE i > Len(s) /\ j <= Len(s)
    BY <1>13, <2>1, <2>2, <2>7
  <2> QED
    BY <1>10, <2>3, <2>4, <2>5, <2>6, <2>7
<1>15. \A r \in page : before[r] # "gone"
  BY <1>2 DEF ArchiveInv, Since, Later, Live, In
<1>16. ASSUME NEW r \in Taken, r <= Max(page) PROVE r \in Range(all)
  <2>1. r \in Live /\ r \in Nat
    BY SchemaAssumption DEF Taken, Live, In
  <2>2. CASE r <= export.cursor
    BY <1>1, <1>12, <2>2 DEF s
  <2>3. CASE r > export.cursor
    <3>1. r \in Later
      BY <2>1, <2>3 DEF Later
    <3>2. r = Max(page) \/ r < Max(page)
      BY <1>6, <1>16, <2>1
    <3> QED
      BY <1>2, <1>3, <1>12, <3>1, <3>2
  <2> QED
    BY <1>6, <2>1, <2>2, <2>3
<1>17. \A r \in Range(all) : before[r] # "gone" /\ r <= Max(page)
  <2>1. ASSUME NEW r \in Range(s) PROVE r <= Max(page)
    BY <1>6, <1>13
  <2> QED
    BY <1>1, <1>3, <1>12, <1>15, <2>1 DEF s
<1>18. Whole'
  <2>1. Taken' = Taken
    BY DEF Taken, Live, In
  <2> QED
    BY <1>7, <1>8, <1>14, <1>16, <1>17, <2>1 DEF Whole
<1>19. ArchiveTypes'
  BY <1>7, <1>8, <1>9 DEF ArchiveInv, ArchiveTypes, Exporting
<1>20. Read'
  BY <1>19, NotRead
<1>21. Since'
  BY <1>7 DEF ArchiveInv, Since
<1> QED
  BY <1>18, <1>19, <1>20, <1>21 DEF ArchiveInv

LEMMA ExportPageStep ==
    ASSUME ArchiveInv, ExportPage, UNCHANGED schema PROVE ArchiveInv'
<1>1. PICK page : page = First(Later, Page)
  OBVIOUS
<1>2. export.at = "pages" /\ Written(page) /\ UNCHANGED rows
  BY <1>1 DEF ExportPage, Later, schema
<1>3. CASE page = {}
  <2>1. Later = {}
    BY <1>1, <1>3, LaterOnes, FirstOnes, ArchiveAssumption
  <2> QED
    BY <1>2, <1>3, <2>1, LastPageStep DEF Written
<1>4. CASE page # {}
  BY <1>1, <1>2, <1>4, PageStep DEF Written
<1> QED
  BY <1>3, <1>4

-----------------------------------------------------------------------------
(* The steps of an import.                                                 *)

LEMMA SameFile ==
    ASSUME ArchiveInv, UNCHANGED <<export, file, before, rows>>
    PROVE  /\ Since' /\ Whole'
           /\ export' \in Exporting
           /\ file' = [schema |-> file'.schema, records |-> file'.records, links |-> file'.links]
           /\ file'.records \in Seq(RowId)
<1>1. Since' /\ Whole'
  BY DEF ArchiveInv, Since, Whole, Taken, Live, In
<1> QED
  BY <1>1 DEF ArchiveInv, ArchiveTypes, Exporting

LEMMA BeginImportStep ==
    ASSUME ArchiveInv, BeginImport, UNCHANGED schema PROVE ArchiveInv'
<1>1. /\ UNCHANGED <<export, file, before, copy, rows>> /\ export.at = "done"
      /\ import' = [NoImport EXCEPT
           !.at = IF file.schema > OtherBuild THEN "refused" ELSE "records"]
  BY DEF BeginImport, schema
<1>2. import' \in Importing /\ import'.next = 1 /\ import'.at \in {"refused", "records"}
  BY <1>1 DEF NoImport, Importing
<1>3. ArchiveTypes'
  BY <1>1, <1>2, SameFile DEF ArchiveInv, ArchiveTypes, Exporting, Importing
<1>4. 1 \in 1 .. (Len(file.records) + 1)
  BY DEF ArchiveInv, ArchiveTypes
<1>5. Read'
  BY <1>1, <1>2, <1>4 DEF ArchiveInv, Read, There
<1> QED
  BY <1>1, <1>3, <1>5, SameFile DEF ArchiveInv

LEMMA Piece ==
    ASSUME NEW S, NEW s \in Seq(S), NEW m \in 1 .. (Len(s) + 1), NEW n \in m - 1 .. Len(s)
    PROVE  /\ SubSeq(s, m, n) \in Seq(S) /\ Len(SubSeq(s, m, n)) = n - m + 1
           /\ \A i \in 1 .. n - m + 1 : SubSeq(s, m, n)[i] = s[m + i - 1]
<1>1. Len(s) \in Nat /\ m \in Int /\ n \in Int
  OBVIOUS
<1>2. \A i \in m .. n : s[i] \in S
  BY <1>1
<1>3. /\ SubSeq(s, m, n) \in Seq(S)
      /\ Len(SubSeq(s, m, n)) = IF m <= n THEN n - m + 1 ELSE 0
      /\ \A i \in 1 .. n - m + 1 : SubSeq(s, m, n)[i] = s[m + i - 1]
  BY <1>1, <1>2, SubSeqProperties
<1> QED
  BY <1>1, <1>3

(* What a chunk reads: the next n records of the file.                     *)
LEMMA RestOf ==
    ASSUME ArchiveInv
    PROVE  /\ Rest \in Seq(RowId)
           /\ Len(Rest) = Len(file.records) - import.next + 1 /\ Len(Rest) \in Nat
           /\ \A i \in 1 .. Len(Rest) : Rest[i] = file.records[import.next + i - 1]
<1>1. /\ file.records \in Seq(RowId) /\ import.next \in 1 .. (Len(file.records) + 1)
      /\ Len(file.records) \in Nat
  BY DEF ArchiveInv, ArchiveTypes, Read
<1>2. Len(file.records) \in import.next - 1 .. Len(file.records)
  BY <1>1
<1>3. /\ Rest \in Seq(RowId)
      /\ Len(Rest) = Len(file.records) - import.next + 1
      /\ \A i \in 1 .. Len(file.records) - import.next + 1 :
           Rest[i] = file.records[import.next + i - 1]
  BY <1>1, <1>2, Piece DEF Rest
<1> QED
  BY <1>1, <1>3

LEMMA ChunkOf ==
    ASSUME ArchiveInv, NEW n \in Nat, n <= Len(Rest), NEW ids, ids = Range(SubSeq(Rest, 1, n))
    PROVE  /\ ids \subseteq RowId
           /\ \A i \in import.next .. (import.next + n - 1) : file.records[i] \in ids
<1>1. /\ Rest \in Seq(RowId) /\ Len(Rest) \in Nat /\ import.next \in Nat
      /\ \A i \in 1 .. Len(Rest) : Rest[i] = file.records[import.next + i - 1]
  BY RestOf DEF ArchiveInv, ArchiveTypes
<1>2. PICK t : t = SubSeq(Rest, 1, n)
  OBVIOUS
<1>3. 1 \in 1 .. (Len(Rest) + 1) /\ n \in 1 - 1 .. Len(Rest)
  BY <1>1
<1>4. t \in Seq(RowId) /\ Len(t) = n - 1 + 1 /\ \A i \in 1 .. n - 1 + 1 : t[i] = Rest[1 + i - 1]
  BY <1>1, <1>2, <1>3, Piece
<1>5. DOMAIN t = 1 .. n /\ \A i \in 1 .. n : t[i] = Rest[i] /\ t[i] \in RowId
  BY <1>4
<1>6. ids = {t[i] : i \in 1 .. n}
  BY <1>2, <1>5 DEF Range
<1>7. ASSUME NEW i \in import.next .. (import.next + n - 1) PROVE file.records[i] \in ids
  <2>1. PICK j \in 1 .. n : j = i - import.next + 1
    BY <1>1
  <2>2. import.next + j - 1 = i /\ j \in 1 .. Len(Rest)
    BY <1>1, <2>1
  <2>3. t[j] = file.records[i]
    BY <1>1, <1>5, <2>2
  <2> QED
    BY <1>6, <2>3
<1> QED
  BY <1>5, <1>6, <1>7

LEMMA ImportChunkStep ==
    ASSUME ArchiveInv, ImportChunk, UNCHANGED schema PROVE ArchiveInv'
<1>1. /\ UNCHANGED <<export, file, before, rows>> /\ import.at = "records"
      /\ import \in Importing /\ copy \in [own : SUBSET RowId, imported : SUBSET RowId,
                                           links : SUBSET RowId]
      /\ file.records \in Seq(RowId) /\ Len(file.records) \in Nat
      /\ import.next \in 1 .. (Len(file.records) + 1) /\ Chunk \in Nat \ {0}
  BY ArchiveAssumption DEF ImportChunk, schema, ArchiveInv, ArchiveTypes, Read, Importing
<1>2. Len(Rest) \in Nat /\ Len(Rest) = Len(file.records) - import.next + 1
  BY RestOf
<1>3. PICK n \in Nat : n = IF Len(Rest) < Chunk THEN Len(Rest) ELSE Chunk
  BY <1>1, <1>2
<1>4. PICK ids : ids = Range(SubSeq(Rest, 1, n))
  OBVIOUS
<1>5. /\ copy' = [copy EXCEPT !.imported = @ \cup (ids \ Skips(ids))]
      /\ import' = IF n < Chunk THEN [import EXCEPT !.at = "links"]
                   ELSE [import EXCEPT !.next = @ + n]
  BY <1>3, <1>4 DEF ImportChunk
<1>6. n <= Len(Rest)
  BY <1>1, <1>2, <1>3
<1>7. /\ Len(Rest) = Len(file.records) - import.next + 1 /\ ids \subseteq RowId
      /\ \A i \in import.next .. (import.next + n - 1) : file.records[i] \in ids
  BY <1>2, <1>4, <1>6, ChunkOf
<1>8. /\ copy' \in [own : SUBSET RowId, imported : SUBSET RowId, links : SUBSET RowId]
      /\ copy'.own = copy.own /\ copy'.links = copy.links
      /\ copy'.imported = copy.imported \cup (ids \ (copy.own \cup copy.imported))
  BY <1>1, <1>5, <1>7 DEF Skips
<1>9. There' = There \cup ids /\ copy'.imported \cap Held = {} /\ copy'.own = Held
  BY <1>8 DEF There, ArchiveInv, Read
<1>10. \A i \in 1 .. (import.next + n - 1) : file.records[i] \in There'
  <2>1. ASSUME NEW i \in 1 .. (import.next + n - 1) PROVE file.records[i] \in There'
    <3>1. i \in 1 .. (import.next - 1) \/ i \in import.next .. (import.next + n - 1)
      BY <1>1, <2>1
    <3>2. \A j \in 1 .. (import.next - 1) : file.records[j] \in There
      BY <1>1 DEF ArchiveInv, Read
    <3> QED
      BY <1>7, <1>9, <3>1, <3>2
  <2> QED
    BY <2>1
<1>11. /\ import' \in Importing /\ import'.at \in {"links", "records"}
       /\ import'.next \in 1 .. (Len(file.records) + 1)
       /\ import'.at = "links" => n = Len(Rest)
       /\ import'.at = "records" => import'.next = import.next + n
  <2>1. CASE n < Chunk
    <3>1. import' = [import EXCEPT !.at = "links"] /\ n = Len(Rest)
      BY <1>1, <1>2, <1>3, <1>5, <2>1
    <3>2. import' \in Importing /\ import'.at = "links" /\ import'.next = import.next
      BY <1>1, <3>1 DEF Importing
    <3> QED
      BY <1>1, <3>1, <3>2
  <2>2. CASE ~(n < Chunk)
    <3>1. import' = [import EXCEPT !.next = import.next + n]
      BY <1>5, <2>2
    <3>2. import.next + n \in Nat /\ import.next + n \in 1 .. (Len(file.records) + 1)
      BY <1>1, <1>6, <1>7
    <3>3. import' \in Importing /\ import'.at = "records" /\ import'.next = import.next + n
      BY <1>1, <3>1, <3>2 DEF Importing
    <3> QED
      BY <3>2, <3>3
  <2> QED
    BY <2>1, <2>2
<1>12. ASSUME import'.at = "links" PROVE Range(file.records) \subseteq There'
  <2>1. import.next + n - 1 = Len(file.records)
    BY <1>1, <1>7, <1>11, <1>12
  <2>2. DOMAIN file.records = 1 .. Len(file.records)
    BY <1>1
  <2> QED
    BY <1>10, <2>1, <2>2 DEF Range
<1>13. ArchiveTypes'
  BY <1>1, <1>8, <1>11, SameFile DEF ArchiveTypes, Exporting, Importing
<1>14. Read'
  <2>1. export.at = "done"
    BY <1>1 DEF ArchiveInv, Read
  <2>2. copy'.links \subseteq There'
    BY <1>8, <1>9 DEF ArchiveInv, Read
  <2> QED
    BY <1>1, <1>9, <1>10, <1>11, <1>12, <2>1, <2>2 DEF Read
<1> QED
  BY <1>1, <1>13, <1>14, SameFile DEF ArchiveInv

LEMMA ImportLinkStep ==
    ASSUME ArchiveInv, ImportLink, UNCHANGED schema PROVE ArchiveInv'
<1>1. /\ UNCHANGED <<export, file, before, rows>> /\ import.at = "links"
      /\ import \in Importing /\ copy \in [own : SUBSET RowId, imported : SUBSET RowId,
                                           links : SUBSET RowId]
      /\ There \subseteq RowId
  BY DEF ImportLink, schema, ArchiveInv, ArchiveTypes, Importing, There
<1>2. CASE import' = [import EXCEPT !.at = "failed"] /\ UNCHANGED copy
  <2>1. import' \in Importing /\ import'.at = "failed" /\ import'.next = import.next
    BY <1>1, <1>2 DEF Importing
  <2>2. ArchiveTypes'
    BY <1>1, <1>2, <2>1, SameFile DEF ArchiveInv, ArchiveTypes, Exporting, Importing
  <2>3. Read'
    BY <1>1, <1>2, <2>1 DEF ArchiveInv, Read, There
  <2> QED
    BY <1>1, <2>2, <2>3, SameFile DEF ArchiveInv
<1>3. ASSUME NEW l \in There, copy' = [copy EXCEPT !.links = @ \cup {l}], UNCHANGED import
      PROVE  ArchiveInv'
  <2>1. /\ copy' \in [own : SUBSET RowId, imported : SUBSET RowId, links : SUBSET RowId]
        /\ copy'.own = copy.own /\ copy'.imported = copy.imported
        /\ copy'.links = copy.links \cup {l}
    BY <1>1, <1>3
  <2>2. ArchiveTypes'
    BY <1>1, <1>3, <2>1, SameFile DEF ArchiveInv, ArchiveTypes, Exporting, Importing
  <2>3. There' = There
    BY <2>1 DEF There
  <2>4. Read'
    BY <1>1, <1>3, <2>1, <2>3 DEF ArchiveInv, Read
  <2> QED
    BY <1>1, <2>2, <2>4, SameFile DEF ArchiveInv
<1> QED
  BY <1>2, <1>3 DEF ImportLink, There

LEMMA ImportDoneStep ==
    ASSUME ArchiveInv, ImportDone, UNCHANGED schema PROVE ArchiveInv'
<1>1. /\ UNCHANGED <<export, file, before, copy, rows>> /\ import.at = "links"
      /\ file.links \subseteq copy.links /\ import' = [import EXCEPT !.at = "done"]
      /\ import \in Importing
  BY DEF ImportDone, schema, ArchiveInv, ArchiveTypes, Importing
<1>2. import' \in Importing /\ import'.at = "done" /\ import'.next = import.next
  BY <1>1 DEF Importing
<1>3. ArchiveTypes'
  BY <1>1, <1>2, SameFile DEF ArchiveInv, ArchiveTypes, Exporting, Importing
<1>4. Read'
  BY <1>1, <1>2 DEF ArchiveInv, Read, There
<1> QED
  BY <1>1, <1>3, <1>4, SameFile DEF ArchiveInv

LEMMA ImportBreaksStep ==
    ASSUME ArchiveInv, ImportBreaks, UNCHANGED schema PROVE ArchiveInv'
<1>1. /\ UNCHANGED <<export, file, before, copy, rows>> /\ import' = NoImport
  BY DEF ImportBreaks, schema
<1>2. import' \in Importing /\ import'.at = "off" /\ import'.next = 1
  BY <1>1 DEF Importing, NoImport
<1>3. ArchiveTypes'
  BY <1>1, <1>2, SameFile DEF ArchiveInv, ArchiveTypes, Exporting, Importing
<1>4. 1 \in 1 .. (Len(file.records) + 1)
  BY DEF ArchiveInv, ArchiveTypes
<1>5. Read'
  BY <1>1, <1>2, <1>4 DEF ArchiveInv, Read, There
<1> QED
  BY <1>1, <1>3, <1>5, SameFile DEF ArchiveInv

LEMMA ArchivesStep ==
    ASSUME SchemaInv, ArchiveInv, Archives, UNCHANGED schema PROVE ArchiveInv'
  BY BeginExportStep, ExportPageStep, ExportLinksStep, ExportBreaksStep, BeginImportStep,
     ImportChunkStep, ImportLinkStep, ImportDoneStep, ImportBreaksStep DEF Archives

LEMMA SameArchive ==
    ASSUME ArchiveInv, UNCHANGED <<schema, archive>> PROVE ArchiveInv'
<1>1. UNCHANGED <<export, file, before, import, copy, rows>>
  BY DEF schema, archive
<1>2. ArchiveTypes' /\ Read'
  BY <1>1 DEF ArchiveInv, ArchiveTypes, Read, There
<1> QED
  BY <1>1, <1>2, SameFile DEF ArchiveInv

LEMMA ArchiveInit == ASSUME Init PROVE ArchiveInv
<1>1. /\ export = NoExport /\ file = Empty /\ import = NoImport
      /\ copy = [own |-> Held, imported |-> {}, links |-> {}]
  BY DEF Init
<1>2. export \in Exporting /\ export.at = "off"
  BY <1>1 DEF NoExport, Exporting
<1>3. import \in Importing /\ import.at = "off" /\ import.next = 1
  BY <1>1 DEF NoImport, Importing
<1>4. /\ file.records = <<>> /\ file.records \in Seq(RowId)
      /\ file = [schema |-> file.schema, records |-> file.records, links |-> file.links]
  BY <1>1 DEF Empty
<1>5. /\ copy \in [own : SUBSET RowId, imported : SUBSET RowId, links : SUBSET RowId]
      /\ copy.own = Held /\ copy.imported = {} /\ copy.links = {}
  BY <1>1, ArchiveAssumption
<1>6. ArchiveTypes
  BY <1>2, <1>3, <1>4, <1>5 DEF ArchiveTypes, Exporting, Importing
<1>7. Len(file.records) = 0
  BY <1>4
<1>8. Read
  BY <1>2, <1>3, <1>5, <1>7 DEF Read, There
<1> QED
  BY <1>2, <1>6, <1>8 DEF ArchiveInv, Since, Whole

LEMMA ArchiveStep ==
    ASSUME SchemaInv, ArchiveInv, [Next]_<<schema, archive>> PROVE ArchiveInv'
<1>1. CASE \E p \in Process : Serves(p) /\ UNCHANGED archive
  BY <1>1, ServedArchive
<1>2. CASE export.at = "off" /\ UNCHANGED archive
  BY <1>2, StartedArchive
<1>3. CASE Archives /\ UNCHANGED schema
  BY <1>3, ArchivesStep
<1>4. CASE UNCHANGED <<schema, archive>>
  BY <1>4, SameArchive
<1> QED
  BY <1>1, <1>2, <1>3, <1>4 DEF Next

(* Whoever starts, stops, writes, exports and imports, the schema and the  *)
(* file keep what the steps above keep.                                    *)
THEOREM ArchiveInvariant == Spec => [](SchemaInv /\ ArchiveInv)
<1>1. Init => SchemaInv /\ ArchiveInv
  BY SchemaInitInv, ArchiveInit DEF Init
<1>2. SchemaInv /\ ArchiveInv /\ [Next]_<<schema, archive>> => (SchemaInv /\ ArchiveInv)'
  BY SchemaStep, ArchiveStep
<1> QED
  BY <1>1, <1>2, PTL DEF Spec

(* A file has every record that was there the whole time, none twice,      *)
(* whatever the size of a page and whatever comes and goes (export).       *)
THEOREM ExportCompleteHolds == Spec => []ExportComplete
<1>1. ArchiveInv => ExportComplete
  BY DEF ArchiveInv, Whole, Taken, ExportComplete
<1> QED
  BY <1>1, ArchiveInvariant, PTL

(* An import that ends has read all of the file, whatever the size of a    *)
(* chunk and however often it began again (import).                        *)
THEOREM ImportRepeatableHolds == Spec => []ImportRepeatable
<1>1. ArchiveInv => ImportRepeatable
  BY DEF ArchiveInv, Read, There, ImportRepeatable
<1> QED
  BY <1>1, ArchiveInvariant, PTL
=============================================================================
