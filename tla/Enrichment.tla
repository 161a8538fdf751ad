----------------------------- MODULE Enrichment -----------------------------
(***************************************************************************)
(* Background enrichment (enrich.rs and the mh_enrich_job queue): a worker *)
(* reads the committed rounds of a session, asks a language model for the  *)
(* facts in them, and stores those.  Rounds are forgotten meanwhile, and   *)
(* with them what was derived from them: facts, jobs, cached answers.      *)
(*                                                                         *)
(* The jobs here are those of one subject; they are numbered in the order  *)
(* they were queued.  A fact is known by the rounds it cites, and the key  *)
(* of a cached answer by the rounds in its prompt.                         *)
(***************************************************************************)
EXTENDS Naturals, FiniteSets

CONSTANTS
  Jobs,        \* how many sessions are ingested
  Round,
  Worker,
  RoundsOf,    \* [1..Jobs -> SUBSET Round]: the committed rounds of a session
  Tellable,    \* facts the language model may find, by the rounds they cite
  Expiring,    \* rounds with an expiry
  Forgotten,   \* rounds clients ask to forget
  MaxAttempts, \* enrich.max_attempts
  MaxFaults,   \* bound: workers that die and leases outlived by an attempt
  MaxCopies    \* bound: copies of a fact are counted up to here

Job == 1..Jobs

ASSUME EnrichmentAssumption ==
  /\ Jobs \in Nat
  /\ RoundsOf \in [Job -> SUBSET Round]
  /\ \A i, j \in Job : i # j => RoundsOf[i] \cap RoundsOf[j] = {}
  /\ \A j \in Job : RoundsOf[j] # {}
  /\ Tellable \subseteq SUBSET Round /\ {} \notin Tellable
  /\ Expiring \subseteq Round /\ Forgotten \subseteq Round
  /\ MaxAttempts \in Nat /\ MaxFaults \in Nat
  /\ MaxCopies \in Nat
  /\ IsFiniteSet(Worker)

VARIABLES
  round,    \* mh_memory.status of the rounds
  facts,    \* copies stored of each fact
  job,      \* mh_enrich_job
  cache,    \* mh_llm_cache: <<key, answer>>
  attempt,  \* what each worker is doing
  crashes, slow,
  raced     \* history: rounds that went while an attempt had read them

vars == <<round, facts, job, cache, attempt, crashes, slow, raced>>

JobStatus == {"none", "pending", "running", "done", "failed"}

NoKey == {}

NoJob == [status |-> "none", attempts |-> 0, leased |-> FALSE, due |-> FALSE, key |-> NoKey]

Step == {"idle", "read", "lookup", "chat", "put", "dedupe", "insert", "finish", "fail"}

Idle == [step |-> "idle", job |-> 0, read |-> {}, answer |-> {}, key |-> NoKey]

TypeOK ==
  /\ round \in [Round -> {"none", "committed", "expired", "gone"}]
  /\ facts \in [Tellable -> 0..MaxCopies]
  /\ job \in [Job -> [status : JobStatus, attempts : Nat, leased : BOOLEAN,
                      due : BOOLEAN, key : SUBSET Round]]
  /\ cache \subseteq (SUBSET Round) \X (SUBSET Tellable)
  /\ attempt \in [Worker -> [step : Step, job : 0..Jobs, read : SUBSET Round,
                             answer : SUBSET Tellable, key : SUBSET Round]]
  /\ crashes \in 0..MaxFaults /\ slow \in 0..MaxFaults
  /\ raced \subseteq Round

Init ==
  /\ round = [r \in Round |-> "none"]
  /\ facts = [f \in Tellable |-> 0]
  /\ job = [j \in Job |-> NoJob]
  /\ cache = {}
  /\ attempt = [w \in Worker |-> Idle]
  /\ crashes = 0 /\ slow = 0
  /\ raced = {}

-----------------------------------------------------------------------------
Unfinished(j) == job[j].status \in {"pending", "running"}

(* The insert of an ingested session queues its job in the same            *)
(* transaction (apply_intake).                                             *)
Enqueue(j) ==
  /\ \A r \in RoundsOf[j] : round[r] = "none"
  /\ \A i \in Job : i < j => \A r \in RoundsOf[i] : round[r] # "none"
  /\ round' = [r \in Round |-> IF r \in RoundsOf[j] THEN "committed" ELSE round[r]]
  /\ job' = [job EXCEPT ![j] = [NoJob EXCEPT !.status = "pending", !.due = TRUE]]
  /\ UNCHANGED <<facts, cache, attempt, crashes, slow, raced>>

\* Mutant: a later session beside an earlier one.
ClaimableBeside(j) ==
  \/ job[j].status = "pending" /\ job[j].due
  \/ job[j].status = "running" /\ ~job[j].leased

Claimable(j) ==
  /\ \/ job[j].status = "pending" /\ job[j].due
     \/ job[j].status = "running" /\ ~job[j].leased
  /\ ~ \E i \in Job : i < j /\ Unfinished(i)

Claim(w, j) ==
  /\ attempt[w].step = "idle"
  /\ Claimable(j)
  /\ job' = [job EXCEPT ![j].status = "running", ![j].leased = TRUE, ![j].attempts = @ + 1]
  /\ attempt' = [attempt EXCEPT ![w] = [Idle EXCEPT !.step = "read", !.job = j]]
  /\ UNCHANGED <<round, facts, cache, crashes, slow, raced>>

-----------------------------------------------------------------------------
Goto(w, step) == attempt' = [attempt EXCEPT ![w].step = step]

Fails(w) == Goto(w, "fail")

Ends(w) == attempt' = [attempt EXCEPT ![w] = Idle]

Committed(R) == {r \in R : round[r] = "committed"}

(* The rounds that are still committed; none of them, or too little text,  *)
(* and the job is finished without a call.                                 *)
ReadRounds(w) ==
  LET read == Committed(RoundsOf[attempt[w].job]) IN
  /\ attempt[w].step = "read"
  /\ \/ Fails(w)
     \/ Goto(w, "finish")
     \/ /\ read # {}
        /\ attempt' = [attempt EXCEPT ![w].step = "lookup", ![w].read = read]
  /\ UNCHANGED <<round, facts, job, cache, crashes, slow, raced>>

Lookup(w) ==
  LET hits == {entry \in cache : entry[1] = attempt[w].read} IN
  /\ attempt[w].step = "lookup"
  /\ \/ Fails(w)
     \/ hits = {} /\ Goto(w, "chat")
     \/ \E entry \in hits :
          attempt' = [attempt EXCEPT ![w].step = "dedupe", ![w].answer = entry[2],
                                     ![w].key = attempt[w].read]
  /\ UNCHANGED <<round, facts, job, cache, crashes, slow, raced>>

(* The call to the language model: an answer that parses, or an error (the *)
(* spend limit, the network, an answer that does not parse).               *)
Chat(w) ==
  /\ attempt[w].step = "chat"
  /\ \/ Fails(w)
     \/ \E answer \in SUBSET {f \in Tellable : f \subseteq attempt[w].read} :
          attempt' = [attempt EXCEPT ![w].step = "put", ![w].answer = answer,
                                     ![w].key = attempt[w].read]
  /\ UNCHANGED <<round, facts, job, cache, crashes, slow, raced>>

(* ON CONFLICT DO NOTHING: the first answer stays; the attempt keeps its own. *)
CachePut(w) ==
  /\ attempt[w].step = "put"
  /\ \/ Fails(w) /\ UNCHANGED cache
     \/ /\ Goto(w, "dedupe")
        /\ cache' = IF \E entry \in cache : entry[1] = attempt[w].key THEN cache
                    ELSE cache \cup {<<attempt[w].key, attempt[w].answer>>}
  /\ UNCHANGED <<round, facts, job, crashes, slow, raced>>

\* Mutant: only the answer itself is free of duplicates.
DedupeWithinAnswer(w) ==
  /\ attempt[w].step = "dedupe"
  /\ Goto(w, IF attempt[w].answer = {} THEN "finish" ELSE "insert")
  /\ UNCHANGED <<round, facts, job, cache, crashes, slow, raced>>

(* store_facts up to its insert: facts already stored are left out.  Their *)
(* vectors and the plans they touch may fail too.                          *)
Dedupe(w) ==
  LET new == {f \in attempt[w].answer : facts[f] = 0} IN
  /\ attempt[w].step = "dedupe"
  /\ \/ Fails(w)
     \/ attempt' = [attempt EXCEPT ![w].step = IF new = {} THEN "finish" ELSE "insert",
                                   ![w].answer = new]
  /\ UNCHANGED <<round, facts, job, cache, crashes, slow, raced>>

More(n) == IF n < MaxCopies THEN n + 1 ELSE n

(* apply_intake without a proposal: no row is locked or looked at.  An     *)
(* error rolls it back, or only loses its answer.                          *)
Insert(w) ==
  /\ attempt[w].step = "insert"
  /\ \/ Fails(w) /\ UNCHANGED facts
     \/ /\ facts' = [f \in Tellable |-> IF f \in attempt[w].answer THEN More(facts[f]) ELSE facts[f]]
        /\ Goto(w, "finish") \/ Fails(w)
  /\ UNCHANGED <<round, job, cache, crashes, slow, raced>>

(* Both updates name the job and nothing else.                             *)
Finish(w) ==
  LET j == attempt[w].job IN
  /\ attempt[w].step = "finish"
  /\ job' = IF job[j].status = "none" THEN job
            ELSE [job EXCEPT ![j].status = "done", ![j].leased = FALSE, ![j].key = attempt[w].key]
  /\ Ends(w)
  /\ UNCHANGED <<round, facts, cache, crashes, slow, raced>>

\* Mutant: a job that is retried for ever.
FailRetries(w) ==
  LET j == attempt[w].job IN
  /\ attempt[w].step = "fail"
  /\ job' = IF job[j].status = "none" THEN job
            ELSE [job EXCEPT ![j].status = "pending", ![j].leased = FALSE, ![j].due = FALSE,
                             ![j].attempts = 0]
  /\ Ends(w)
  /\ UNCHANGED <<round, facts, cache, crashes, slow, raced>>

Fail(w) ==
  LET j == attempt[w].job IN
  /\ attempt[w].step = "fail"
  /\ job' = IF job[j].status = "none" THEN job
            ELSE [job EXCEPT ![j].status = IF job[j].attempts >= MaxAttempts THEN "failed" ELSE "pending",
                             ![j].leased = FALSE, ![j].due = FALSE]
  /\ Ends(w)
  /\ UNCHANGED <<round, facts, cache, crashes, slow, raced>>

-----------------------------------------------------------------------------
Crash(w) ==
  /\ attempt[w].step # "idle"
  /\ crashes + slow < MaxFaults
  /\ crashes' = crashes + 1
  /\ Ends(w)
  /\ UNCHANGED <<round, facts, job, cache, slow, raced>>

Attended(j) == \E w \in Worker : attempt[w].job = j

LeaseExpires(j) ==
  /\ job[j].status = "running" /\ job[j].leased
  /\ IF Attended(j) THEN crashes + slow < MaxFaults /\ slow' = slow + 1 ELSE UNCHANGED slow
  /\ job' = [job EXCEPT ![j].leased = FALSE]
  /\ UNCHANGED <<round, facts, cache, attempt, crashes, raced>>

BackoffEnds(j) ==
  /\ job[j].status = "pending" /\ ~job[j].due
  /\ job' = [job EXCEPT ![j].due = TRUE]
  /\ UNCHANGED <<round, facts, cache, attempt, crashes, slow, raced>>

(* The retention pass: a round that expired stays in the store, unread.    *)
ExpireDue(r) ==
  /\ r \in Expiring
  /\ round[r] = "committed"
  /\ round' = [round EXCEPT ![r] = "expired"]
  /\ UNCHANGED <<facts, job, cache, attempt, crashes, slow, raced>>

-----------------------------------------------------------------------------
(* Erasure.  What goes with the rounds of R: the facts that cite one, the  *)
(* jobs that read one, and the answers those jobs finished with.           *)
Touched(R) == {j \in Job : job[j].status # "none" /\ RoundsOf[j] \cap R # {}}

DropsJobs(J) ==
  /\ job' = [j \in Job |-> IF j \in J THEN NoJob ELSE job[j]]
  /\ cache' = {entry \in cache : \A j \in J : entry[1] # job[j].key}

Races(R) == raced' = raced \cup {r \in R : \E w \in Worker : r \in attempt[w].read}

\* Mutant: the facts stay.
ForgetRoundAlone(r) ==
  /\ round[r] \in {"committed", "expired"}
  /\ round' = [round EXCEPT ![r] = "gone"]
  /\ DropsJobs(Touched({r}))
  /\ Races({r})
  /\ UNCHANGED <<facts, attempt, crashes, slow>>

\* delete, in one transaction; the purge of old rounds does the same.
ForgetRound(r) ==
  /\ round[r] \in {"committed", "expired"}
  /\ round' = [round EXCEPT ![r] = "gone"]
  /\ facts' = [f \in Tellable |-> IF r \in f THEN 0 ELSE facts[f]]
  /\ DropsJobs(Touched({r}))
  /\ Races({r})
  /\ UNCHANGED <<attempt, crashes, slow>>

\* delete_subject.
Present == {r \in Round : round[r] \in {"committed", "expired"}}

EraseSubject ==
  /\ Present # {}
  /\ round' = [r \in Round |-> IF r \in Present THEN "gone" ELSE round[r]]
  /\ facts' = [f \in Tellable |-> 0]
  /\ DropsJobs({j \in Job : job[j].status # "none"})
  /\ Races(Present)
  /\ UNCHANGED <<attempt, crashes, slow>>

-----------------------------------------------------------------------------
Proceed(w) ==
  \/ ReadRounds(w) \/ Lookup(w) \/ Chat(w) \/ CachePut(w)
  \/ Dedupe(w) \/ Insert(w) \/ Finish(w) \/ Fail(w)

Next ==
  \/ \E j \in Job : Enqueue(j) \/ LeaseExpires(j) \/ BackoffEnds(j)
  \/ \E w \in Worker : \/ \E j \in Job : Claim(w, j)
                       \/ Proceed(w)
                       \/ Crash(w)
  \/ \E r \in Round : ExpireDue(r)
  \/ \E r \in Forgotten : ForgetRound(r)
  \/ Forgotten # {} /\ EraseSubject

Spec == Init /\ [][Next]_vars

(* The workers' loop claims and goes on, and clocks advance.               *)
Fairness ==
  /\ \A w \in Worker : WF_vars(Proceed(w))
  /\ \A j \in Job : /\ WF_vars(\E w \in Worker : Claim(w, j))
                    /\ WF_vars(LeaseExpires(j) /\ ~Attended(j))
                    /\ WF_vars(BackoffEnds(j))

FairSpec == Spec /\ Fairness

-----------------------------------------------------------------------------
(* A fact is stored once however often its job is tried again, but for a   *)
(* copy more for every attempt that outlived its lease: the insert has no  *)
(* key of its own and relies on the read before it (existing_hashes), and  *)
(* an attempt ends its job whoever runs it by then (enrich_fail).          *)
FactsOnce == \A f \in Tellable : facts[f] <= 1 + slow

Runs(w) == attempt[w].job # 0 /\ Unfinished(attempt[w].job)

(* "A subject's sessions are enriched one at a time, in order"             *)
(* (docs/configuration.md): as long as no attempt outlives its lease, none *)
(* runs beside another, but for a job that was erased under it, and no     *)
(* earlier job is waiting.                                                 *)
OneAtATime ==
  slow = 0 => \A w \in Worker : Runs(w) =>
    /\ \A v \in Worker : Runs(v) => v = w
    /\ \A i \in Job : i < attempt[w].job => ~Unfinished(i)

(* No later attempt, from the store or from the cache, brings back a fact  *)
(* of a round that was erased: only one that had read the round before it  *)
(* went can (delete, store_facts).                                         *)
OnlyRacedComeBack ==
  \A f \in Tellable : facts[f] > 0 =>
    \A r \in f : round[r] \in {"committed", "expired"} \/ r \in raced

(* Every job ends, done, failed or erased, though workers crash and the    *)
(* model may never answer (max_attempts).                                  *)
EveryJobEnds == \A j \in Job : Unfinished(j) ~> ~Unfinished(j)

=============================================================================
