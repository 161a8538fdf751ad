------------------------------- MODULE Listing -------------------------------
(***************************************************************************)
(* Listing a subject's records (list and list_page of                      *)
(* crates/memhouse-core/src/engine.rs, PgStore::list): newest first, with  *)
(* a cursor that names the last record of the page before, not its place.  *)
(*                                                                         *)
(* A record has id, created, tenant, subject, kind, status, labels and     *)
(* scope; ids and times are numbers.  A query has tenant, subject, kinds,  *)
(* inactive ("yes" or "no"), denied and scope.                             *)
(***************************************************************************)
EXTENDS Integers, FiniteSets

Absent == "nothing"

Fields == {"org", "team", "agent", "user", "session"}

InScope(asked, scope) ==
    \A f \in Fields : asked[f] = Absent \/ scope[f] \in {Absent, asked[f]}

Listed(q, m) ==
    /\ m.tenant = q.tenant
    /\ q.subject \in {Absent, m.subject}
    /\ q.kinds = Absent \/ m.kind \in q.kinds
    /\ q.inactive = "yes" \/ m.status = "committed"
    /\ m.labels \cap q.denied = {}
    /\ InScope(q.scope, m.scope)

\* The order of a listing: by creation, then by id.
Newer(m, o) == m.created > o.created \/ (m.created = o.created /\ m.id > o.id)

Rows(q, table) == {m \in table : Listed(q, m)}

\* At most n, from the newest; skip of them passed over.
Newest(rows, n) == {m \in rows : Cardinality({o \in rows : Newer(o, m)}) < n}
Skip(rows, n) == rows \ Newest(rows, n)

Limit(n) == IF n < 1 THEN 1 ELSE IF n > 1000 THEN 1000 ELSE n

List(q, table, limit, offset) == Newest(Skip(Rows(q, table), offset), Limit(limit))

\* A cursor has the created and id of the record it was made from; there is
\* none, or one, in a set.
Older(rows, cursor) == {m \in rows : \A c \in cursor : Newer(c, m)}

Last(page) == CHOOSE m \in page : \A o \in page : o = m \/ Newer(o, m)

\* One record more than the page is asked for: it comes unless the page has all.
Page(q, table, limit, cursor) ==
    LET rows == Older(Rows(q, table), cursor)
        page == Newest(rows, Limit(limit))
    IN  [items |-> page,
         next |-> IF page = rows THEN {}
                  ELSE {[created |-> Last(page).created, id |-> Last(page).id]}]
=============================================================================
