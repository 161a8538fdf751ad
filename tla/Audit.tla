------------------------------- MODULE Audit -------------------------------
(***************************************************************************)
(* The audit log (mh_audit): rows chained by hashes in the order of their  *)
(* numbers, although transactions begin, fail and commit in any order      *)
(* (PgStore::audit_in, audit, audit_verify in                              *)
(* crates/memhouse-store-postgres/src/lib.rs).                             *)
(*                                                                         *)
(* A writer begins a transaction, takes the chain's lock, appends one row  *)
(* (audit) or several (the events of one insert), and commits or fails;    *)
(* the end of the transaction, however it comes, frees the lock.  A number *)
(* drawn by a transaction that fails is not drawn again.  A hash is a      *)
(* record of what it is a digest of: no two inputs share one.              *)
(***************************************************************************)
EXTENDS Naturals

CONSTANTS
    Writer,         \* tasks of any process
    Event,          \* actor, action, tenant, subject, record and detail
    Genesis,        \* the hash before the first row
    Several         \* writers that append more than one event in a transaction

VARIABLES
    clock,
    rows,           \* the committed rows, by number
    next,           \* the sequence of the numbers
    tx              \* by writer: [pc, own], the rows it has yet to commit

auditVars == <<clock, rows, next, tx>>

NoRows == [i \in {} |-> Genesis]
Steps == {"idle", "waiting", "locked"}

Hash(prev, at, event) == [prev |-> prev, at |-> at, event |-> event]

Merge(f, g) == [i \in DOMAIN f \cup DOMAIN g |-> IF i \in DOMAIN g THEN g[i] ELSE f[i]]

(* The row before row i, in a table.                                       *)
Follows(table, j, i) ==
    /\ j \in DOMAIN table /\ j < i
    /\ \A k \in DOMAIN table : k <= j \/ i <= k

First(table, i) == \A k \in DOMAIN table : i <= k

(* What the statement `ORDER BY id DESC LIMIT 1` finds, or nothing.        *)
Newest(table) == {j \in DOMAIN table : \A k \in DOMAIN table : k <= j}

(***************************************************************************)
(* audit_verify: a row is broken if it does not continue the row before    *)
(* it, or is not what its own hash was made of.                            *)
(***************************************************************************)
Continues(table, i) ==
    \/ First(table, i) /\ table[i].prev = Genesis
    \/ \E j \in DOMAIN table : Follows(table, j, i) /\ table[i].prev = table[j].hash

Broken(table) ==
    {i \in DOMAIN table :
       \/ ~Continues(table, i)
       \/ table[i].hash # Hash(table[i].prev, table[i].at, table[i].event)}

(* audit_verify's answer: how many rows it read, and the one it stopped at.*)
Verified(table) == Broken(table) = {}

-----------------------------------------------------------------------------
AuditInit ==
    /\ clock = 0
    /\ rows = NoRows
    /\ next = 1
    /\ tx = [w \in Writer |-> [pc |-> "idle", own |-> NoRows]]

BeginTx(w) ==
    /\ tx[w].pc = "idle"
    /\ tx' = [tx EXCEPT ![w] = [pc |-> "waiting", own |-> NoRows]]
    /\ UNCHANGED <<clock, rows, next>>

(* pg_advisory_xact_lock.                                                  *)
Lock(w) ==
    /\ tx[w].pc = "waiting"
    /\ \A v \in Writer : tx[v].pc # "locked"
    /\ tx' = [tx EXCEPT ![w].pc = "locked"]
    /\ UNCHANGED <<clock, rows, next>>

(* The newest row it sees, committed or its own, and the insert.  The time *)
(* of the event was read before the lock was asked for.                    *)
AppendRow(w, event) ==
    /\ tx[w].pc = "locked"
    /\ tx[w].own = NoRows \/ w \in Several
    /\ \E at \in 0 .. clock :
       \E prev \in LET seen == Merge(rows, tx[w].own)
                   IN  IF Newest(seen) = {} THEN {Genesis}
                       ELSE {seen[j].hash : j \in Newest(seen)} :
         tx' = [tx EXCEPT ![w].own =
                  Merge(@, [i \in {next} |-> [at |-> at, event |-> event, prev |-> prev,
                                              hash |-> Hash(prev, at, event)]])]
    /\ next' = next + 1
    /\ UNCHANGED <<clock, rows>>

Commit(w) ==
    /\ tx[w].pc = "locked"
    /\ rows' = Merge(rows, tx[w].own)
    /\ tx' = [tx EXCEPT ![w] = [pc |-> "idle", own |-> NoRows]]
    /\ UNCHANGED <<clock, next>>

(* An error, a lost connection or a crash of the process.                  *)
Fail(w) ==
    /\ tx[w].pc # "idle"
    /\ tx' = [tx EXCEPT ![w] = [pc |-> "idle", own |-> NoRows]]
    /\ UNCHANGED <<clock, rows, next>>

Tick == clock' = clock + 1 /\ UNCHANGED <<rows, next, tx>>

AuditNext ==
    \/ \E w \in Writer :
         \/ BeginTx(w) \/ Lock(w) \/ Commit(w) \/ Fail(w)
         \/ \E event \in Event : AppendRow(w, event)
    \/ Tick

AuditSpec == AuditInit /\ [][AuditNext]_auditVars
-----------------------------------------------------------------------------
(* Whoever verifies the log at any moment finds every row sound and linked *)
(* to the one numbered before it.                                          *)
AlwaysVerifies == Verified(rows)

(* The log only grows, and above what it holds: a row that was read once   *)
(* is there for good, and nothing is put before it later.                  *)
OnlyAppended ==
    [][\A i \in DOMAIN rows :
         /\ i \in DOMAIN rows' /\ rows'[i] = rows[i]
         /\ \A k \in DOMAIN rows' \ DOMAIN rows : i < k]_rows
=============================================================================
