------------------------------- MODULE Recall -------------------------------
(***************************************************************************)
(* What a recall looks for, keeps and cuts, and what its explanation says  *)
(* of the records left out: the filters of the search statement            *)
(* (crates/memhouse-store-postgres/src/lib.rs), the stages of              *)
(* Engine::recall_inner and classify in explain.rs.                        *)
(*                                                                         *)
(* A record has, beside what Access looks at, its status, its times (from, *)
(* to, expires, occurred: instants, or None) and its tags.  How well a     *)
(* record matches is left out: a probe may rank the records that pass its  *)
(* filters in any order, and a record is an element of Id with its fields  *)
(* in a function.                                                          *)
(***************************************************************************)
EXTENDS Access, SequencesExt

Statuses == {"candidate", "committed", "superseded", "rejected", "quarantined", "expired"}
Limit(n, low, high) == IF n < low THEN low ELSE IF n > high THEN high ELSE n

(***************************************************************************)
(* What a recall asks for; a field that was left out is None.              *)
(***************************************************************************)
RecallFields == {"tenant", "subject", "kinds", "tags", "denied", "scope", "asOf", "candidates",
                 "k", "budget", "deadline"}

(***************************************************************************)
(* caller.rs recall: the request under the constraints of its decision.    *)
(* A scope with no field set is no scope.                                  *)
(***************************************************************************)
Constrained(req, d) ==
    [req EXCEPT !.tenant = d.tenant,
                !.scope = d.scope,
                !.kinds = IF req.kinds = None /\ d.kinds # {} THEN d.kinds ELSE @,
                !.denied = d.denied]

(* recall_inner: the query every probe shares.                             *)
Query(req, now) ==
    [tenant |-> req.tenant, subject |-> req.subject, kinds |-> req.kinds, tags |-> req.tags,
     denied |-> req.denied, scope |-> req.scope, asOf |-> req.asOf,
     validAt |-> IF req.asOf # None THEN req.asOf ELSE now,
     candidates |-> req.candidates, windows |-> {}]

(* The probe inside the time windows a dated question names.               *)
InWindows(q, windows) == [q EXCEPT !.windows = windows]

(***************************************************************************)
(* SEARCH_FILTERS.                                                         *)
(***************************************************************************)
Recallable(q, m) ==
    \/ m.status = "committed"
    \/ q.asOf # None /\ m.status = "superseded"
    \/ q.candidates /\ m.status = "candidate"

ValidAt(m, t) ==
    /\ m.from <= t
    /\ m.to = None \/ m.to > t
    /\ m.expires = None \/ m.expires > t

HappenedBy(m, asOf) == asOf = None \/ m.occurred = None \/ m.occurred <= asOf

InAWindow(m, windows) ==
    windows = {} \/ (m.occurred # None
                     /\ \E w \in windows : w.start <= m.occurred /\ m.occurred < w.end)

Found(q, m) ==
    /\ m.tenant = q.tenant
    /\ m.subject = q.subject
    /\ Recallable(q, m)
    /\ q.kinds = None \/ m.kind \in q.kinds
    /\ q.tags = None \/ m.tags \cap q.tags # {}
    /\ m.labels \cap q.denied = {}
    /\ ValidAt(m, q.validAt)
    /\ ScopeMatches(q.scope, m.scope)
    /\ HappenedBy(m, q.asOf)
    /\ InAWindow(m, q.windows)

(***************************************************************************)
(* The list statement: the same constraints, no validity, and the records  *)
(* that are not current only when asked for.                               *)
(***************************************************************************)
Listed(q, m) ==
    /\ m.tenant = q.tenant
    /\ q.subject = None \/ m.subject = q.subject
    /\ q.kinds = None \/ m.kind \in q.kinds
    /\ q.inactive \/ m.status = "committed"
    /\ m.labels \cap q.denied = {}
    /\ ScopeMatches(q.scope, m.scope)

(***************************************************************************)
(* The stages after the search.  The hits are fused and perhaps reranked:  *)
(* in some order, the exact ones first.  What lies below k is cut; then a  *)
(* token budget keeps the first hit and whatever still fits.  kept is the  *)
(* positions that are kept.                                                *)
(***************************************************************************)
Orders(exact, found) ==
    LET hits == found \cup ToSet(exact)
        n == Cardinality(hits)
    IN  {all \in [1 .. n -> hits] :
           /\ \A i, j \in 1 .. n : all[i] = all[j] => i = j
           /\ \A h \in hits : \E i \in 1 .. n : all[i] = h
           /\ \A i \in 1 .. Len(exact) : all[i] = exact[i]}

Top(all, k) == {i \in DOMAIN all : i <= k}

Used(positions, all, tokens) ==
    MapThenSumSet(LAMBDA i : tokens[all[i]], positions)

Fits(kept, all, k, budget, tokens) ==
    IF budget = None THEN kept = Top(all, k)
    ELSE /\ kept \subseteq Top(all, k)
         /\ \A i \in Top(all, k) :
              i \in kept <=>
                LET used == Used({j \in kept : j < i}, all, tokens)
                IN  used = 0 \/ used + tokens[all[i]] <= budget

(***************************************************************************)
(* classify: the first rule that keeps a record out of the results, by the *)
(* record as it is when the explanation is read.  It knows neither the     *)
(* windows of a probe nor whether candidates were asked for.               *)
(***************************************************************************)
ExclusionOrder == <<"status", "access", "label", "validity", "filter">>

Excludes(reason, m, r) ==
    \/ reason = "status" /\ ~Recallable([r EXCEPT !.candidates = FALSE], m)
    \/ reason = "access" /\ ~ScopeMatches(r.scope, m.scope)
    \/ reason = "label" /\ m.labels \cap r.denied # {}
    \/ reason = "validity" /\ (~ValidAt(m, r.validAt) \/ ~HappenedBy(m, r.asOf))
    \/ reason = "filter" /\ r.kinds # None /\ m.kind \notin r.kinds
    \/ reason = "filter" /\ r.tags # None /\ m.tags \cap r.tags = {}

Classify(m, r) ==
    FirstOf(ExclusionOrder, {i \in 1 .. 5 : Excludes(ExclusionOrder[i], m, r)}, "rank")

(* Reasons that are told by id to auditors only.                           *)
Hidden == {"status", "access", "label"}
=============================================================================
