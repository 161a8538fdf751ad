------------------------------ MODULE Recalls ------------------------------
(***************************************************************************)
(* The recalls of one server process, stage by stage: Engine::recall_with  *)
(* and recall_inner in crates/memhouse-core/src/engine.rs, with the        *)
(* records, the policy and the clock changing between the stages.  Every   *)
(* stage that awaits may fail or overrun the recall's deadline; the answer *)
(* is then empty and flagged.  A recall that is answered leaves its        *)
(* explanation in a ring in memory and, later and off the request path, in *)
(* the store.                                                              *)
(***************************************************************************)
EXTENDS Recall

CONSTANTS
    Id,             \* of records
    Memories,       \* what a record may be, its size in tokens included
    Call,           \* recall ids, each used once
    Asks,           \* constrained requests, with how they look for exact records
    Policies,       \* [denied, auditReads]
    Recent,         \* explanations kept in memory (256)
    Explaining      \* Engine::explain_recalls

VARIABLES
    now, memories, policy,  \* what changes under a recall
    calls,
    audits,                 \* memory.recall events
    recent,                 \* Engine::recent, oldest first
    writing,                \* recall_put tasks under way
    stored                  \* mh_recall

vars == <<now, memories, policy, calls, audits, recent, writing, stored>>
world == <<now, memories, policy>>
explanations == <<recent, writing, stored>>

Waiting == {"policy", "embed", "search", "exact", "more", "rank", "audit"}
Stages == Waiting \cup {"new", "record", "done", "degraded", "lost"}

NewCall ==
    [pc |-> "new", ask |-> None, policy |-> None, at |-> 0, found |-> {}, exact |-> <<>>,
     copy |-> [i \in Id |-> None], returned |-> {}, rank |-> {}, budget |-> {}]

Init ==
    /\ now = 0
    /\ memories \in [Id -> Memories \cup {None}]
    /\ policy \in Policies
    /\ calls = [c \in Call |-> NewCall]
    /\ audits = {}
    /\ recent = <<>>
    /\ writing = {}
    /\ stored = {}

TypeOK ==
    /\ now \in Nat
    /\ memories \in [Id -> Memories \cup {None}]
    /\ policy \in Policies
    /\ calls \in [Call ->
         [pc : Stages, ask : Asks \cup {None}, policy : Policies \cup {None}, at : Nat,
          found : SUBSET Id, exact : Seq(Id), copy : [Id -> Memories \cup {None}],
          returned : SUBSET Id, rank : SUBSET Id, budget : SUBSET Id]]
    /\ recent \in Seq([call : Call, ask : Asks \cup {None}, policy : Policies \cup {None},
                       at : Nat, returned : SUBSET Id, rank : SUBSET Id, budget : SUBSET Id])

(* The query of a call: its request, with the labels of the policy it      *)
(* resolved, valid when its search was built.                              *)
QueryOf(call) ==
    Query([call.ask EXCEPT !.denied = @ \cup call.policy.denied], call.at)

Matching(call, mems) == {i \in Id : mems[i] # None /\ Found(QueryOf(call), mems[i])}

At(c, stage) == calls[c].pc = stage

(***************************************************************************)
(* The stages.                                                             *)
(***************************************************************************)
Begin(c, ask) ==
    /\ At(c, "new")
    /\ calls' = [calls EXCEPT ![c] = [@ EXCEPT !.pc = "policy", !.ask = ask]]
    /\ UNCHANGED <<world, audits, explanations>>

ResolvePolicy(c) ==
    /\ At(c, "policy")
    /\ calls' = [calls EXCEPT ![c] = [@ EXCEPT !.pc = "embed", !.policy = policy]]
    /\ UNCHANGED <<world, audits, explanations>>

(* The query is analyzed and embedded, then the search is built.           *)
Embed(c) ==
    /\ At(c, "embed")
    /\ calls' = [calls EXCEPT ![c] = [@ EXCEPT !.pc = "search", !.at = now]]
    /\ UNCHANGED <<world, audits, explanations>>

(* All probes are one statement; which of the records it keeps is up to    *)
(* its ranking and limits.                                                 *)
Search(c) ==
    /\ At(c, "search")
    /\ \E found \in SUBSET Matching(calls[c], memories) :
         calls' = [calls EXCEPT ![c] =
           [@ EXCEPT !.pc = IF calls[c].ask.exact = "none" THEN "rank" ELSE "exact",
                     !.found = found,
                     !.copy = [i \in Id |-> IF i \in found THEN memories[i] ELSE None]]]
    /\ UNCHANGED <<world, audits, explanations>>

(* The exact probe, under the same filters.  A type alone narrows the      *)
(* identifiers of the question; where those are too few the type's other   *)
(* records follow.                                                         *)
Distinct(s) == \A i, j \in DOMAIN s : s[i] = s[j] => i = j

Lookups(call, mems) ==
    {s \in SeqOf(Matching(call, mems), call.ask.k) : Distinct(s)}

Copied(call, s) ==
    [i \in Id |-> IF i \in ToSet(s) THEN memories[i] ELSE call.copy[i]]

LookupExact(c) ==
    /\ At(c, "exact")
    /\ \E s \in Lookups(calls[c], memories) :
         calls' = [calls EXCEPT ![c] =
           [@ EXCEPT !.pc = IF calls[c].ask.exact = "fallback" /\ Len(s) < calls[c].ask.k
                              THEN "more" ELSE "rank",
                     !.exact = s,
                     !.copy = Copied(calls[c], s)]]
    /\ UNCHANGED <<world, audits, explanations>>

LookupMore(c) ==
    /\ At(c, "more")
    /\ \E s \in Lookups(calls[c], memories) :
         /\ ToSet(s) \cap ToSet(calls[c].exact) = {}
         /\ Len(calls[c].exact) + Len(s) <= calls[c].ask.k
         /\ calls' = [calls EXCEPT ![c] =
              [@ EXCEPT !.pc = "rank",
                        !.exact = calls[c].exact \o s,
                        !.copy = Copied(calls[c], s)]]
    /\ UNCHANGED <<world, audits, explanations>>

(* Fusion, reranking, recency, the exact hits first, the cuts.             *)
Tokens(call) == [i \in Id |-> IF call.copy[i] = None THEN 0 ELSE call.copy[i].tokens]

HitsAt(all, positions) == {all[i] : i \in positions}

Rank(c) ==
    /\ At(c, "rank")
    /\ \E all \in Orders(calls[c].exact, calls[c].found) :
       \E kept \in SUBSET Top(all, calls[c].ask.k) :
         /\ Fits(kept, all, calls[c].ask.k, calls[c].ask.budget, Tokens(calls[c]))
         /\ calls' = [calls EXCEPT ![c] =
              [@ EXCEPT !.pc = IF calls[c].policy.auditReads THEN "audit" ELSE "record",
                        !.returned = HitsAt(all, kept),
                        !.budget = HitsAt(all, Top(all, calls[c].ask.k) \ kept),
                        !.rank = HitsAt(all, DOMAIN all \ Top(all, calls[c].ask.k))]]
    /\ UNCHANGED <<world, audits, explanations>>

ReadBy(c) == [call |-> c, returned |-> calls[c].returned]

Audit(c) ==
    /\ At(c, "audit")
    /\ audits' = audits \cup {ReadBy(c)}
    /\ calls' = [calls EXCEPT ![c] = [@ EXCEPT !.pc = "record"]]
    /\ UNCHANGED <<world, explanations>>

(* The explanation is kept, its write spawned, and the recall answered.    *)
Explanation(c) ==
    [call |-> c, ask |-> calls[c].ask, policy |-> calls[c].policy, at |-> calls[c].at,
     returned |-> calls[c].returned, rank |-> calls[c].rank, budget |-> calls[c].budget]

KeepRecent(r) == Append(IF Len(recent) >= Recent THEN Tail(recent) ELSE recent, r)

Record(c) ==
    /\ At(c, "record")
    /\ calls' = [calls EXCEPT ![c] = [@ EXCEPT !.pc = "done"]]
    /\ IF Explaining
         THEN /\ recent' = KeepRecent(Explanation(c))
              /\ writing' = writing \cup {Explanation(c)}
         ELSE UNCHANGED <<recent, writing>>
    /\ UNCHANGED <<world, audits, stored>>

(***************************************************************************)
(* A stage fails inside MemHouse or overruns the deadline.  An audit that  *)
(* is late may have been written.                                          *)
(***************************************************************************)
Degrade(c) ==
    /\ calls[c].pc \in Waiting
    /\ calls' = [calls EXCEPT ![c] =
         [@ EXCEPT !.pc = "degraded", !.returned = {}, !.rank = {}, !.budget = {}]]
    /\ \/ UNCHANGED audits
       \/ At(c, "audit") /\ audits' = audits \cup {ReadBy(c)}
    /\ UNCHANGED <<world, explanations>>

(***************************************************************************)
(* The tasks that store explanations, and what removes them: retention and *)
(* erasures.                                                               *)
(***************************************************************************)
Put(r) ==
    /\ r \in writing
    /\ writing' = writing \ {r}
    /\ stored' \in {stored, stored \cup {r}}
    /\ UNCHANGED <<world, calls, audits, recent>>

DropStored ==
    /\ \E gone \in SUBSET stored : gone # {} /\ stored' = stored \ gone
    /\ UNCHANGED <<world, calls, audits, recent, writing>>

(* The process is restarted.                                               *)
Crash ==
    /\ calls' = [c \in Call |->
         IF calls[c].pc \in Waiting \cup {"record"}
           THEN [calls[c] EXCEPT !.pc = "lost"] ELSE calls[c]]
    /\ recent' = <<>>
    /\ writing' = {}
    /\ UNCHANGED <<world, audits, stored>>

(***************************************************************************)
(* The world around the recalls.                                           *)
(***************************************************************************)
Change ==
    \/ /\ \E i \in Id, m \in Memories \cup {None} : memories' = [memories EXCEPT ![i] = m]
       /\ UNCHANGED <<now, policy, calls, audits, explanations>>
    \/ /\ policy' \in Policies
       /\ UNCHANGED <<now, memories, calls, audits, explanations>>
    \/ /\ now' = now + 1
       /\ UNCHANGED <<memories, policy, calls, audits, explanations>>

Next ==
    \/ \E c \in Call :
         \/ \E ask \in Asks : Begin(c, ask)
         \/ ResolvePolicy(c) \/ Embed(c) \/ Search(c) \/ LookupExact(c) \/ LookupMore(c)
         \/ Rank(c) \/ Audit(c) \/ Record(c) \/ Degrade(c)
    \/ \E r \in writing : Put(r)
    \/ DropStored \/ Crash \/ Change

Spec == Init /\ [][Next]_vars

(***************************************************************************)
(* recall_record, and Engine::explain of what it gives, where the replay   *)
(* reaches the records of reached.  A reason is told with the id, but for  *)
(* hidden reasons, which others than auditors only see counted.            *)
(***************************************************************************)
KnownOf(c) == IF \E r \in ToSet(recent) : r.call = c
                THEN {r \in ToSet(recent) : r.call = c}
                ELSE {r \in stored : r.call = c}

Reason(r, i) ==
    CASE i \in r.rank -> "rank"
      [] i \in r.budget -> "budget"
      [] OTHER -> Classify(memories[i], QueryOf(r))

Told(r, reached, auditor) ==
    {i \in reached \ r.returned : auditor \/ Reason(r, i) \notin Hidden} \cup r.rank \cup r.budget
-----------------------------------------------------------------------------
(* What is answered was let through by the search's filters, under the     *)
(* caller's constraints and the labels of the policy the call resolved, as *)
(* it was when it was read.                                                *)
AnsweredWasFound ==
    \A c \in Call : At(c, "done") =>
        \A i \in calls[c].returned :
            calls[c].copy[i] # None /\ Found(QueryOf(calls[c]), calls[c].copy[i])

(* Under a policy that audits reads, no recall is answered before its      *)
(* event, which names exactly what was returned, is written.               *)
ReadsAudited ==
    \A c \in Call : At(c, "done") /\ calls[c].policy.auditReads => ReadBy(c) \in audits

(* A degraded answer holds nothing and leaves no explanation.              *)
DegradedIsEmpty ==
    \A c \in Call : At(c, "degraded") =>
        calls[c].returned = {} /\ \A r \in ToSet(recent) \cup writing \cup stored : r.call # c

(* Whatever explanation is found for a recall, in memory or in the store,  *)
(* is of what it answered; every hit was returned or has a reason, and not *)
(* both.                                                                   *)
ExplainsTheAnswer ==
    \A r \in ToSet(recent) \cup writing \cup stored :
        /\ At(r.call, "done") /\ r = Explanation(r.call)
        /\ r.returned \cap (r.rank \cup r.budget) = {} /\ r.rank \cap r.budget = {}
        /\ r.returned \cup r.rank \cup r.budget =
             calls[r.call].found \cup ToSet(calls[r.call].exact)

(* The ring holds the latest Recent explanations, at most.                 *)
RecentBounded == Len(recent) <= Recent
=============================================================================
