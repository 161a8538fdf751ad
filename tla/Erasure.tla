------------------------------ MODULE Erasure -------------------------------
(***************************************************************************)
(* The six scopes of forget (Engine::forget_untraced, the queue's discard  *)
(* and the store's delete, delete_subject, delete_tenant), and retention,  *)
(* statement by statement, beside everything that writes meanwhile: the    *)
(* attempts of the pipeline with their cached vectors, the enrichment that *)
(* derives facts, and the traces other calls leave (request keys, recall   *)
(* records, links).  One tenant.                                           *)
(*                                                                         *)
(* A record is a write, or the fact that enrichment derives from a round.  *)
(* What an attempt computes is left out; what it stores, and when, is not. *)
(***************************************************************************)
EXTENDS Naturals, Sequences, FiniteSets, FiniteSetsExt

CONSTANTS
    Write,     \* writes clients send; finitely many, as a bound
    Attr,      \* [Write -> subject, user, agent, source, scopeUser, scopeAgent, text,
               \*           fact (the text of the fact derived from it), round (BOOLEAN)]
    RecallOf,  \* recalls: a function to the subject and the user each is made for
    LinkOf,    \* links: a function to the subject that holds each and the linked one
    Forgets,   \* calls of forget
    Targets,   \* the scopes and values asked for: records [scope, value]
    None,
    Batch,     \* forget_matches: 500 records, and as many subjects of a tenant
    Extra,     \* the loop's 10 rounds beyond those the first count calls for
    MaxTraces, \* bound: keyed writes, recalls and links
    MaxSlow    \* bound: attempts that outlive their lease at a time

Scopes == {"record", "subject", "user", "agent", "source", "tenant"}

ASSUME ErasureAssumption ==
    /\ IsFiniteSet(Write)
    /\ None \notin Scopes /\ \A target \in Targets : target.scope \in Scopes
    /\ Batch \in Nat \ {0} /\ Extra \in Nat /\ MaxTraces \in Nat /\ MaxSlow \in Nat

VARIABLES
    accepted,  \* history: writes acknowledged
    queue,     \* mh_intake: writes not yet applied
    attempt,   \* what the pipeline does with a write, in memory
    slow,      \* writes with an attempt embedding them that outlived its lease
    stored,    \* mh_memory
    vectors,   \* mh_embed_cache, by text
    jobs,      \* mh_enrich_job of each round: none, waiting or done
    deriving,  \* what enrichment does with a round, in memory
    keys,      \* mh_request_key, by the write it answers
    owed,      \* writes acknowledged whose key is still to be recorded
    recalls,   \* mh_recall
    spawned,   \* recall records still to be written
    links,     \* mh_link
    forget,    \* the calls of forget
    asked,     \* history: the keyed writes, recalls and links
    known,     \* history: what there was when a forget began
    erased,    \* history: records that were stored and deleted
    late       \* history: records an attempt was still at work on then

writes == <<accepted, queue>>
keyring == <<owed, keys>>
traces == <<recalls, spawned, links, asked>>
memory == <<stored, vectors, jobs, erased, late>>
workers == <<attempt, slow, deriving>>
calls == <<forget, known>>
erasureVars == <<writes, keyring, traces, memory, workers, calls>>

(* The rows of mh_memory: what a write states, and what was derived of it. *)
Stated(w) == [write |-> w, derived |-> FALSE]
FactOf(w) == [write |-> w, derived |-> TRUE]
Memory == [write : Write, derived : BOOLEAN]
Round == {w \in Write : Attr[w].round}
Recalls == DOMAIN RecallOf
Links == DOMAIN LinkOf

Text(r) == IF r.derived THEN Attr[r.write].fact ELSE Attr[r.write].text

(* store_facts: a fact has the scope and the user of the round it cites,   *)
(* and enrichment as its agent and source.                                 *)
Agent(r) == IF r.derived THEN "enrich" ELSE Attr[r.write].agent
Source(r) == IF r.derived THEN "enrich" ELSE Attr[r.write].source

Idle == [at |-> "idle", scope |-> None, value |-> None, before |-> 0, rounds |-> 0,
         batch |-> {}]

Nothing == [writes |-> {}, records |-> {}, keys |-> {}, recalls |-> {}, links |-> {}]

Texts == {Attr[w].text : w \in Write} \cup {Attr[w].fact : w \in Round}
Steps == {"idle", "discard", "count", "match", "delete", "recalls", "left", "subjects",
          "erase", "rows", "done", "failed"}

ErasureTypeOK ==
    /\ queue \subseteq accepted /\ accepted \subseteq Write
    /\ owed \subseteq accepted /\ keys \subseteq accepted \ owed
    /\ attempt \in [Write -> {"none", "embedding", "embedded"}]
    /\ deriving \in [Round -> {"none", "read", "embedded"}]
    /\ jobs \in [Round -> {"none", "waiting", "done"}]
    /\ stored \subseteq Memory /\ late \subseteq Memory
    /\ vectors \subseteq Texts
    /\ recalls \subseteq Recalls /\ spawned \subseteq Recalls \ recalls
    /\ links \subseteq Links
    /\ \A f \in Forgets : forget[f].at \in Steps /\ forget[f].before \in 0 .. Cardinality(Memory)
    /\ slow \subseteq accepted /\ erased \subseteq Memory
    /\ asked \subseteq Write \cup Recalls \cup Links

ErasureInit ==
    /\ accepted = {} /\ queue = {} /\ owed = {} /\ keys = {}
    /\ attempt = [w \in Write |-> "none"]
    /\ stored = {} /\ vectors = {}
    /\ jobs = [w \in Round |-> "none"]
    /\ deriving = [w \in Round |-> "none"]
    /\ recalls = {} /\ spawned = {} /\ links = {}
    /\ forget = [f \in Forgets |-> Idle]
    /\ slow = {} /\ asked = {} /\ erased = {}
    /\ known = [f \in Forgets |-> Nothing]
    /\ late = {}

-----------------------------------------------------------------------------
MayAsk(x) == x \notin asked /\ Cardinality(asked) < MaxTraces

(* A write is acknowledged once it is queued; its key, if it has one, is   *)
(* recorded after.                                                         *)
Enqueue(w) ==
    /\ w \notin accepted
    /\ accepted' = accepted \cup {w}
    /\ queue' = queue \cup {w}
    /\ \/ MayAsk(w) /\ owed' = owed \cup {w} /\ asked' = asked \cup {w}
       \/ UNCHANGED <<owed, asked>>
    /\ UNCHANGED <<keys, recalls, spawned, links, memory, workers, calls>>

AcceptedKey(w) ==
    /\ w \in owed
    /\ owed' = owed \ {w}
    /\ keys' = keys \cup {w}
    /\ UNCHANGED <<writes, traces, memory, workers, calls>>

(***************************************************************************)
(* The pipeline: claim, cache the vector without another look at the       *)
(* queue, and insert if the proposal is still there.  An attempt that      *)
(* outlives its lease while it embeds leaves the write to another one, and *)
(* goes on when the vector comes.                                          *)
(***************************************************************************)
Claim(w) ==
    /\ w \in queue /\ attempt[w] = "none"
    /\ attempt' = [attempt EXCEPT ![w] = "embedding"]
    /\ UNCHANGED <<writes, keyring, traces, memory, slow, deriving, calls>>

EmbedPassages(w) ==
    /\ attempt[w] = "embedding"
    /\ attempt' = [attempt EXCEPT ![w] = "embedded"]
    /\ vectors' = vectors \cup {Attr[w].text}
    /\ UNCHANGED <<writes, keyring, traces, stored, jobs, erased, late, slow, deriving, calls>>

ApplyIntake(w) ==
    /\ attempt[w] = "embedded"
    /\ attempt' = [attempt EXCEPT ![w] = "none"]
    /\ IF w \in queue
         THEN /\ stored' = stored \cup {Stated(w)}
              /\ jobs' = IF w \in Round THEN [jobs EXCEPT ![w] = "waiting"] ELSE jobs
              /\ queue' = queue \ {w}
         ELSE UNCHANGED <<stored, jobs, queue>>
    /\ UNCHANGED <<accepted, keyring, traces, vectors, erased, late, slow, deriving, calls>>

AttemptFails(w) ==
    /\ attempt[w] # "none"
    /\ attempt' = [attempt EXCEPT ![w] = "none"]
    /\ UNCHANGED <<writes, keyring, traces, memory, slow, deriving, calls>>

LeaseExpires(w) ==
    /\ attempt[w] = "embedding"
    /\ w \notin slow /\ Cardinality(slow) < MaxSlow
    /\ attempt' = [attempt EXCEPT ![w] = "none"]
    /\ slow' = slow \cup {w}
    /\ UNCHANGED <<writes, keyring, traces, memory, deriving, calls>>

EmbedPassagesLate(w) ==
    /\ w \in slow
    /\ slow' = slow \ {w}
    /\ vectors' = vectors \cup {Attr[w].text}
    /\ attempt' = [attempt EXCEPT ![w] = "embedded"]
    /\ UNCHANGED <<writes, keyring, traces, stored, jobs, erased, late, deriving, calls>>

(***************************************************************************)
(* Enrichment reads a stored round, caches the vector of the fact, and     *)
(* inserts it without another look at the round.                           *)
(***************************************************************************)
ReadRound(w) ==
    /\ deriving[w] = "none" /\ jobs[w] = "waiting" /\ Stated(w) \in stored
    /\ deriving' = [deriving EXCEPT ![w] = "read"]
    /\ UNCHANGED <<writes, keyring, traces, memory, attempt, slow, calls>>

EmbedFact(w) ==
    /\ deriving[w] = "read"
    /\ deriving' = [deriving EXCEPT ![w] = "embedded"]
    /\ vectors' = vectors \cup {Attr[w].fact}
    /\ UNCHANGED <<writes, keyring, traces, stored, jobs, erased, late, attempt, slow, calls>>

StoreFact(w) ==
    /\ deriving[w] = "embedded"
    /\ deriving' = [deriving EXCEPT ![w] = "none"]
    /\ stored' = stored \cup {FactOf(w)}
    /\ jobs' = [jobs EXCEPT ![w] = IF @ = "waiting" THEN "done" ELSE @]
    /\ UNCHANGED <<writes, keyring, traces, vectors, erased, late, attempt, slow, calls>>

(* A recall answers, and its record is written off the request path.       *)
Recall(q) ==
    /\ MayAsk(q)
    /\ asked' = asked \cup {q}
    /\ spawned' = spawned \cup {q}
    /\ UNCHANGED <<writes, keyring, recalls, links, memory, workers, calls>>

RecallPut(q) ==
    /\ q \in spawned
    /\ spawned' = spawned \ {q}
    /\ recalls' = recalls \cup {q}
    /\ UNCHANGED <<writes, keyring, links, asked, memory, workers, calls>>

Link(l) ==
    /\ MayAsk(l)
    /\ asked' = asked \cup {l}
    /\ links' = links \cup {l}
    /\ UNCHANGED <<writes, keyring, recalls, spawned, memory, workers, calls>>

-----------------------------------------------------------------------------
(* What a call matches in the queue (discard) and in the store             *)
(* (forget_condition).                                                     *)
\* Mutant: the queue is searched by the author alone.
QueuedByAuthor(scope, value) ==
    {w \in queue : CASE scope = "record" -> Stated(w) = value
                     [] scope = "user" -> Attr[w].user = value
                     [] scope = "agent" -> Attr[w].agent = value
                     [] scope = "source" -> Attr[w].source = value
                     [] scope = "tenant" -> TRUE}

Queued(scope, value) ==
    {w \in queue : CASE scope = "record" -> Stated(w) = value
                     [] scope = "user" -> value \in {Attr[w].user, Attr[w].scopeUser}
                     [] scope = "agent" -> value \in {Attr[w].agent, Attr[w].scopeAgent}
                     [] scope = "source" -> Attr[w].source = value
                     [] scope = "tenant" -> TRUE}

Fits(scope, value, r) ==
    CASE scope = "record" -> r = value
      [] scope = "subject" -> Attr[r.write].subject = value
      [] scope = "user" -> value \in {Attr[r.write].user, Attr[r.write].scopeUser}
      [] scope = "agent" -> value \in {Agent(r), Attr[r.write].scopeAgent}
      [] scope = "source" -> Source(r) = value
      [] scope = "tenant" -> TRUE

Matches(scope, value) == {r \in stored : Fits(scope, value, r)}

(* Records leave the store: enrichment that has read a round, and attempts *)
(* that outlived their lease, go on with what they hold.                   *)
AtWork == {FactOf(w) : w \in {w \in Round : deriving[w] # "none"}} \cup {Stated(w) : w \in slow}

Gone(rs) ==
    /\ stored' = stored \ rs
    /\ erased' = erased \cup rs
    /\ late' = late \cup {r \in AtWork : Stated(r.write) \in rs}

(* The cascade of a deletion: facts that cite a deleted record, the        *)
(* vectors of all of them, and the jobs that read them.                    *)
Cited(rs) == {r \in stored : r \in rs \/ Stated(r.write) \in rs}

\* Mutant: the vectors of facts stay.
CascadeKeepsVectors(rs) ==
    /\ Gone(Cited(rs))
    /\ vectors' = vectors \ {Text(r) : r \in rs}
    /\ jobs' = [w \in Round |-> IF Stated(w) \in rs THEN "none" ELSE jobs[w]]

Cascade(rs) ==
    /\ Gone(Cited(rs))
    /\ vectors' = vectors \ {Text(r) : r \in Cited(rs)}
    /\ jobs' = [w \in Round |-> IF Stated(w) \in rs THEN "none" ELSE jobs[w]]

(* delete_subject, one transaction.                                        *)
Of(s) == {w \in Write : Attr[w].subject = s}

\* Mutant: only the links the subject holds go.
DeleteSubjectOwnLinks(s) ==
    /\ queue' = queue \ Of(s)
    /\ Gone(Matches("subject", s))
    /\ vectors' = vectors \ {Text(r) : r \in Matches("subject", s)}
    /\ links' = {l \in links : LinkOf[l].subject # s}
    /\ keys' = keys \ Of(s)
    /\ recalls' = {q \in recalls : RecallOf[q].subject # s}
    /\ jobs' = [w \in Round |-> IF w \in Of(s) THEN "none" ELSE jobs[w]]

DeleteSubject(s) ==
    /\ queue' = queue \ Of(s)
    /\ Gone(Matches("subject", s))
    /\ vectors' = vectors \ {Text(r) : r \in Matches("subject", s)}
    /\ links' = {l \in links : s \notin {LinkOf[l].subject, LinkOf[l].linked}}
    /\ keys' = keys \ Of(s)
    /\ recalls' = {q \in recalls : RecallOf[q].subject # s}
    /\ jobs' = [w \in Round |-> IF w \in Of(s) THEN "none" ELSE jobs[w]]

-----------------------------------------------------------------------------
MovesOn(f, step) == forget' = [forget EXCEPT ![f].at = step]

(* forget_untraced: one scope is named.  A record that is neither stored   *)
(* nor queued is not found.                                                *)
Begin(f, target) ==
    /\ forget[f].at = "idle"
    /\ target.scope = "record" => target.value \in stored \cup {Stated(w) : w \in queue}
    /\ forget' = [forget EXCEPT
         ![f] = [Idle EXCEPT !.at = IF target.scope = "subject" THEN "erase" ELSE "discard",
                             !.scope = target.scope, !.value = target.value,
                             !.batch = IF target.scope \in {"record", "subject"}
                                         THEN {target.value} ELSE {}]]
    /\ known' = [known EXCEPT ![f] = [writes |-> accepted, records |-> stored, keys |-> keys,
                                      recalls |-> recalls, links |-> links]]
    /\ UNCHANGED <<writes, keyring, traces, memory, workers>>

(* Queued writes first, so that none lands after the erasure.              *)
Discard(f) ==
    /\ forget[f].at = "discard"
    /\ queue' = queue \ Queued(forget[f].scope, forget[f].value)
    /\ MovesOn(f, CASE forget[f].scope = "record" -> "delete"
                 [] forget[f].scope = "tenant" -> "subjects"
                 [] OTHER -> "count")
    /\ UNCHANGED <<accepted, keyring, traces, memory, workers, known>>

(* User, agent and source: count, then delete what matches batch by batch, *)
(* each record with its cascade, for a bounded number of rounds.           *)
Left(f) == Matches(forget[f].scope, forget[f].value)

Count(f) ==
    /\ forget[f].at = "count"
    /\ forget' = [forget EXCEPT ![f].at = "match", ![f].before = Cardinality(Left(f)),
                                ![f].rounds = Cardinality(Left(f)) \div Batch + Extra + 1]
    /\ UNCHANGED <<writes, keyring, traces, memory, workers, known>>

AtMost(n, S) == kSubset(IF n < Cardinality(S) THEN n ELSE Cardinality(S), S)

ForgetMatches(f) ==
    /\ forget[f].at = "match"
    /\ IF forget[f].rounds = 0 \/ Left(f) = {}
         THEN MovesOn(f, IF forget[f].scope = "user" THEN "recalls" ELSE "left")
         ELSE \E batch \in AtMost(Batch, Left(f)) :
                forget' = [forget EXCEPT ![f].at = "delete", ![f].batch = batch,
                                         ![f].rounds = @ - 1]
    /\ UNCHANGED <<writes, keyring, traces, memory, workers, known>>

(* What follows a batch of which only one element was left.                *)
After(f, x, loop) ==
    forget' = [forget EXCEPT
        ![f].batch = @ \ {x},
        ![f].at = IF forget[f].batch # {x} THEN @
                  ELSE IF forget[f].scope \in {"record", "subject"} THEN "done" ELSE loop]

Delete(f) ==
    /\ forget[f].at = "delete"
    /\ \E r \in forget[f].batch :
         /\ IF r \in stored THEN Cascade({r}) ELSE UNCHANGED memory
         /\ After(f, r, "match")
    /\ UNCHANGED <<writes, keyring, traces, workers, known>>

(* The explanations of a user's recalls go with the user.                  *)
RecallsDelete(f) ==
    /\ forget[f].at = "recalls"
    /\ recalls' = {q \in recalls : RecallOf[q].user # forget[f].value}
    /\ MovesOn(f, "left")
    /\ UNCHANGED <<writes, keyring, spawned, links, asked, memory, workers, known>>

ForgetCount(f) ==
    /\ forget[f].at = "left"
    /\ MovesOn(f, IF Left(f) = {} THEN "done" ELSE "failed")
    /\ UNCHANGED <<writes, keyring, traces, memory, workers, known>>

(* delete_tenant: every subject that has a record, until none has, then    *)
(* the rows without one, table by table.                                   *)
Subjects == {Attr[r.write].subject : r \in stored}

TenantSubjects(f) ==
    /\ forget[f].at = "subjects"
    /\ IF Subjects = {}
         THEN forget' = [forget EXCEPT ![f].at = "rows", ![f].rounds = 1]
         ELSE \E batch \in AtMost(Batch, Subjects) :
                forget' = [forget EXCEPT ![f].at = "erase", ![f].batch = batch]
    /\ UNCHANGED <<writes, keyring, traces, memory, workers, known>>

EraseSubject(f) ==
    /\ forget[f].at = "erase"
    /\ \E s \in forget[f].batch : DeleteSubject(s) /\ After(f, s, "subjects")
    /\ UNCHANGED <<accepted, owed, spawned, asked, workers, known>>

Tables == <<"intake", "link", "request_key", "recall", "enrich_job">>

TenantRows(f) ==
    /\ forget[f].at = "rows"
    /\ LET table == Tables[forget[f].rounds]
       IN  /\ queue' = IF table = "intake" THEN {} ELSE queue
           /\ links' = IF table = "link" THEN {} ELSE links
           /\ keys' = IF table = "request_key" THEN {} ELSE keys
           /\ recalls' = IF table = "recall" THEN {} ELSE recalls
           /\ jobs' = IF table = "enrich_job" THEN [w \in Round |-> "none"] ELSE jobs
    /\ forget' = [forget EXCEPT ![f].at = IF forget[f].rounds = Len(Tables) THEN "done" ELSE @,
                                ![f].rounds = IF @ = Len(Tables) THEN 0 ELSE @ + 1]
    /\ UNCHANGED <<accepted, owed, spawned, asked, stored, vectors, erased, late, workers, known>>

(* Retention: rounds old enough go with the same cascade, and recall       *)
(* records beyond an age of their own.                                     *)
PurgeEpisodic ==
    /\ \E old \in SUBSET (stored \cap {Stated(w) : w \in Round}) : old # {} /\ Cascade(old)
    /\ UNCHANGED <<writes, keyring, traces, workers, calls>>

PurgeRecalls ==
    /\ \E old \in SUBSET recalls : old # {} /\ recalls' = recalls \ old
    /\ UNCHANGED <<writes, keyring, spawned, links, asked, memory, workers, calls>>

ForgetStep(f) ==
    \/ \E target \in Targets : Begin(f, target)
    \/ Discard(f) \/ Count(f) \/ ForgetMatches(f) \/ Delete(f) \/ RecallsDelete(f)
    \/ ForgetCount(f) \/ TenantSubjects(f) \/ EraseSubject(f) \/ TenantRows(f)

ErasureNext ==
    \/ \E w \in Write : \/ Enqueue(w) \/ AcceptedKey(w)
                        \/ Claim(w) \/ EmbedPassages(w) \/ ApplyIntake(w) \/ AttemptFails(w)
                        \/ LeaseExpires(w) \/ EmbedPassagesLate(w)
    \/ \E w \in Round : ReadRound(w) \/ EmbedFact(w) \/ StoreFact(w)
    \/ \E q \in Recalls : Recall(q) \/ RecallPut(q)
    \/ \E l \in Links : Link(l)
    \/ \E f \in Forgets : ForgetStep(f)
    \/ PurgeEpisodic \/ PurgeRecalls

ErasureSpec == ErasureInit /\ [][ErasureNext]_erasureVars

-----------------------------------------------------------------------------
(* A call that has answered; or it gave up, because records went on coming *)
(* that fit, and says so.                                                  *)
Done(f) == forget[f].at = "done"
Ended(f) == forget[f].at \in {"done", "failed"}

(* What was there when the call began and fits it: writes acknowledged,    *)
(* with the facts derived from them whenever, and records stored.          *)
Asks(f, r) == Fits(forget[f].scope, forget[f].value, r)
Doomed(f, r) ==
    \/ r.write \in known[f].writes /\ Asks(f, Stated(r.write))
    \/ r \in known[f].records /\ Asks(f, r)

(* Once a forget of any scope has answered, nothing it was to erase is     *)
(* stored, whatever was in the pipeline, but a fact that was being derived *)
(* when its round went; and even one that gave up left nothing queued.     *)
ErasedForGood ==
    \A f \in Forgets :
        /\ Done(f) => \A r \in stored : Doomed(f, r) => r.derived /\ r \in late
        /\ Ended(f) => \A w \in queue : ~Doomed(f, Stated(w))

(* The traces kept before an erasure began are gone when it has ended:     *)
(* keys, recall records and links of the subject, recall records of the    *)
(* user, all of the tenant's.  Only what was still to be written may come. *)
Whose(f, s) == \/ forget[f].scope = "tenant"
               \/ forget[f].scope = "subject" /\ forget[f].value = s

TracesErased ==
    \A f \in Forgets : Ended(f) =>
        /\ \A w \in known[f].keys \cap keys : ~Whose(f, Attr[w].subject)
        /\ \A q \in known[f].recalls \cap recalls :
             /\ ~Whose(f, RecallOf[q].subject)
             /\ ~(forget[f].scope = "user" /\ RecallOf[q].user = forget[f].value)
        /\ \A l \in known[f].links \cap links :
             ~Whose(f, LinkOf[l].subject) /\ ~Whose(f, LinkOf[l].linked)

(* A cached vector that is there without a stored record of its text is of *)
(* a record that was never stored, or that an attempt was still at work on *)
(* when it was erased: no deletion, of any scope, leaves a vector behind.  *)
VectorsHaveCause ==
    \A t \in vectors :
        \E r \in Memory : /\ r.write \in accepted
                         /\ Text(r) = t
                         /\ r \notin erased \ (stored \cup late)
=============================================================================
