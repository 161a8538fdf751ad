------------------------------- MODULE Intake -------------------------------
(***************************************************************************)
(* The write path of MemHouse: the intake queue (mh_intake), the attempts  *)
(* that take its proposals through the pipeline (process_job), and the     *)
(* insert transaction that makes their records visible (apply_intake).     *)
(*                                                                         *)
(* A proposal is one acknowledged write; its records get a status in the   *)
(* store when an attempt's insert commits.  Everything below that is one   *)
(* SQL statement or one transaction holding the proposal's row lock is one *)
(* action; everything the code awaits between two of them is an            *)
(* interleaving point.  Time is reduced to its two effects on the queue: a *)
(* lease runs out (leased) and a backoff ends (due).                       *)
(***************************************************************************)
EXTENDS Naturals, FiniteSets

CONSTANTS
  Proposal,    \* the writes clients may send
  Record,      \* the records of those writes, and the ones stored before
  Subject,
  Worker,      \* pipeline workers and request tasks: whoever may claim
  Stored,      \* records committed before the first write
  NoRecord,
  NoProposal,
  SubjectOf,   \* [Proposal -> Subject]
  HomeOf,      \* [Record -> Subject]
  RecordsOf,   \* [Proposal -> SUBSET Record]
  Revises,     \* [Proposal -> Record \cup {NoRecord}]: an explicit revision
  Rounds,      \* proposals of ingest: their records are conversation rounds
  Reviewed,    \* proposals of agents whose writes wait for a reviewer
  Expiring,    \* records with an expiry of their own; held ones always have one
  Verdict,     \* what the gate may make of a record
  Fatal,       \* proposals whose every attempt takes its worker down
  Forgotten,   \* records clients ask to forget
  Erasable,    \* subjects clients ask to erase
  MaxAttempts, \* intake.max_attempts
  MaxFaults,   \* bound: crashes and leases outlived by a slow attempt
  AttemptCap   \* bound: the attempts counter saturates here

ASSUME ConstantsAssumption ==
  /\ NoRecord \notin Record
  /\ NoProposal \notin Proposal
  /\ Stored \subseteq Record
  /\ SubjectOf \in [Proposal -> Subject]
  /\ HomeOf \in [Record -> Subject]
  /\ RecordsOf \in [Proposal -> SUBSET (Record \ Stored)]
  /\ Revises \in [Proposal -> Record \cup {NoRecord}]
  /\ Rounds \subseteq Proposal
  /\ Reviewed \subseteq Proposal
  /\ Expiring \subseteq Record
  /\ Verdict \subseteq {"committed", "held", "review", "quarantined", "rejected"}
  /\ "rejected" \in Verdict
  /\ Fatal \subseteq Proposal
  /\ Forgotten \subseteq Record
  /\ Erasable \subseteq Subject
  /\ MaxAttempts \in Nat
  /\ MaxFaults \in Nat
  /\ AttemptCap \in Nat

\* Record ids are fresh, belong to one proposal, and live in its subject.
ASSUME RecordsAssumption ==
  /\ \A p \in Proposal : RecordsOf[p] # {} /\ Revises[p] \notin RecordsOf[p]
  /\ \A p \in Proposal, r \in Record : r \in RecordsOf[p] => HomeOf[r] = SubjectOf[p]
  /\ \A p, q \in Proposal : p # q => RecordsOf[p] \cap RecordsOf[q] = {}
  /\ \A p \in Proposal : p \notin Rounds => \E r \in Record : RecordsOf[p] = {r}
  /\ \A p \in Rounds : Revises[p] = NoRecord

VARIABLES
  rows,     \* mh_intake, by proposal
  seq,      \* mh_intake.seq: the number each insert drew, 0 before it began
  nextSeq,  \* the sequence behind it
  mem,      \* mh_memory.status, by record
  by,       \* mh_memory.superseded_by
  confirmed,\* records carrying metadata.confirmed_by
  attempt,  \* what each worker is doing
  forget,   \* the forget calls in progress, by record
  faults,   \* faults so far (bound)
  \* History, read by the properties only.
  acked,    \* proposals whose insert committed: answered `candidate`
  before,   \* the proposals of its subject acknowledged before it was sent
  wrote,    \* records ever inserted
  erased,   \* acknowledged proposals an erasure of their subject removed
  gone      \* records whose forget or erasure was answered

store == <<mem, by, confirmed>>
history == <<acked, before, wrote, erased, gone>>
vars == <<rows, seq, nextSeq, mem, by, confirmed, attempt, forget, faults,
          acked, before, wrote, erased, gone>>

-----------------------------------------------------------------------------
(* The lifecycle states of a record.  `candidate` is two states here: held *)
(* by the gate until confirmed (metadata.held), or waiting for a reviewer. *)
Status == {"absent", "held", "review", "committed", "superseded",
           "quarantined", "rejected", "expired"}

RowStatus == {"none", "pending", "running", "done", "dead"}

Row == [status : RowStatus, attempts : 0..AttemptCap, leased : BOOLEAN,
        due : BOOLEAN, payload : BOOLEAN, records : SUBSET Record]

NoRow == [status |-> "none", attempts |-> 0, leased |-> FALSE, due |-> FALSE,
          payload |-> FALSE, records |-> {}]

Step == {"idle", "pipeline", "insert", "finish", "retry", "poison", "bury"}

Attempt == [step : Step, job : Proposal \cup {NoProposal},
            number : 0..AttemptCap, records : SUBSET Record,
            outcome : [Record -> Status], target : Record \cup {NoRecord},
            confirms : SUBSET Record]

NoOutcome == [r \in Record |-> "absent"]

Idle == [step |-> "idle", job |-> NoProposal, number |-> 0, records |-> {},
         outcome |-> NoOutcome, target |-> NoRecord, confirms |-> {}]

TypeOK ==
  /\ rows \in [Proposal -> Row]
  /\ seq \in [Proposal -> Nat]
  /\ nextSeq \in Nat
  /\ mem \in [Record -> Status]
  /\ by \in [Record -> Record \cup {NoRecord}]
  /\ confirmed \subseteq Record
  /\ attempt \in [Worker -> Attempt]
  /\ forget \in [Record -> {"idle", "queued", "unqueued"}]
  /\ faults \in 0..MaxFaults
  /\ acked \subseteq Proposal
  /\ before \in [Proposal -> SUBSET Proposal]
  /\ wrote \subseteq Record
  /\ erased \subseteq Proposal
  /\ gone \subseteq Record

Init ==
  /\ rows = [p \in Proposal |-> NoRow]
  /\ seq = [p \in Proposal |-> 0]
  /\ nextSeq = 1
  /\ mem = [r \in Record |-> IF r \in Stored THEN "committed" ELSE "absent"]
  /\ by = [r \in Record |-> NoRecord]
  /\ confirmed = {}
  /\ attempt = [w \in Worker |-> Idle]
  /\ forget = [r \in Record |-> "idle"]
  /\ faults = 0
  /\ acked = {}
  /\ before = [p \in Proposal |-> {}]
  /\ wrote = Stored
  /\ erased = {}
  /\ gone = {}

-----------------------------------------------------------------------------
Unfinished(p) == rows[p].status \in {"pending", "running"}

IsStored(r) == mem[r] # "absent"

In(s, status) == {r \in Record : HomeOf[r] = s /\ mem[r] = status}

(* A request reaches the queue: the INSERT draws its number from the       *)
(* sequence before it commits.  A revision is only sent for the version    *)
(* that is current when it is read (409 otherwise).                        *)
EnqueueBegin(p) ==
  /\ seq[p] = 0
  /\ Revises[p] # NoRecord => mem[Revises[p]] = "committed"
  /\ seq' = [seq EXCEPT ![p] = nextSeq]
  /\ nextSeq' = nextSeq + 1
  /\ before' = [before EXCEPT ![p] = {q \in acked : SubjectOf[q] = SubjectOf[p]}]
  /\ UNCHANGED <<rows, store, attempt, forget, faults, acked, wrote, erased, gone>>

(* The INSERT commits and the write is answered `candidate`.  An insert    *)
(* that fails leaves its number unused for ever: that is a proposal that   *)
(* never takes this step.                                                  *)
EnqueueCommit(p) ==
  /\ seq[p] # 0
  /\ p \notin acked
  /\ rows' = [rows EXCEPT ![p] =
       [status |-> "pending", attempts |-> 0, leased |-> FALSE, due |-> TRUE,
        payload |-> TRUE, records |-> RecordsOf[p]]]
  /\ acked' = acked \cup {p}
  /\ UNCHANGED <<seq, nextSeq, store, attempt, forget, faults, before, wrote, erased, gone>>

-----------------------------------------------------------------------------
\* Mutants: any proposal that is due, and none whose worker crashed.
ClaimableInAnyOrder(p) ==
  \/ rows[p].status = "pending" /\ rows[p].due
  \/ rows[p].status = "running" /\ ~rows[p].leased

ClaimableOncePending(p) ==
  /\ rows[p].status = "pending" /\ rows[p].due
  /\ ~ \E q \in Proposal :
         SubjectOf[q] = SubjectOf[p] /\ Unfinished(q) /\ seq[q] < seq[p]

(* Claiming: the oldest unfinished proposal of its subject, if it is due   *)
(* or its lease ran out.                                                   *)
Claimable(p) ==
  /\ \/ rows[p].status = "pending" /\ rows[p].due
     \/ rows[p].status = "running" /\ ~rows[p].leased
  /\ ~ \E q \in Proposal :
         SubjectOf[q] = SubjectOf[p] /\ Unfinished(q) /\ seq[q] < seq[p]

Bumped(n) == IF n < AttemptCap THEN n + 1 ELSE n

Claim(w, p) ==
  /\ attempt[w].step = "idle"
  /\ Claimable(p)
  /\ rows' = [rows EXCEPT ![p].status = "running", ![p].leased = TRUE,
                          ![p].attempts = Bumped(@)]
  /\ attempt' = [attempt EXCEPT ![w] =
       [Idle EXCEPT !.step = "pipeline", !.job = p,
                    !.number = Bumped(rows[p].attempts),
                    !.records = rows[p].records]]
  /\ UNCHANGED <<seq, nextSeq, store, forget, faults, history>>

(* A record is rejected or quarantined, or goes on as its writer may: a     *)
(* conversation round is committed, an agent's write under review waits,    *)
(* and the rest is committed, or held if it reads as a plan or a guess.     *)
Verdicts(p) ==
  Verdict \cap ({"quarantined", "rejected"} \cup
    (CASE p \in Rounds -> {"committed"}
       [] p \in Reviewed \ Rounds -> {"review"}
       [] OTHER -> {"committed", "held"}))

(* resolve_stage: a revision needs its predecessor still current; any      *)
(* other commit may correct one committed record of its subject and        *)
(* confirm plans held in it.  It reads the store now; the insert comes     *)
(* later.                                                                  *)
Resolved(p, v, target, confirms) ==
  CASE v # "committed" \/ p \in Rounds -> target = NoRecord /\ confirms = {}
    [] Revises[p] # NoRecord ->
         target = Revises[p] /\ mem[target] = "committed" /\ confirms = {}
    [] OTHER ->
         /\ target \in In(SubjectOf[p], "committed") \cup {NoRecord}
         /\ confirms \subseteq In(SubjectOf[p], "held")

(* An attempt that ends in an error goes on to retry, or, if it was the    *)
(* last one allowed, to quarantine the records of the payload it was given. *)
AfterError(w) ==
  LET a == attempt[w]  last == a.number >= MaxAttempts IN
  [a EXCEPT !.step = IF last THEN "poison" ELSE "retry",
            !.outcome = [r \in Record |-> IF last /\ r \in a.records
                                          THEN "quarantined" ELSE "absent"],
            !.target = NoRecord, !.confirms = {}]

Errs(w) == attempt' = [attempt EXCEPT ![w] = AfterError(w)]

Goto(w, step) == attempt' = [attempt EXCEPT ![w].step = step]

Ends(w) == attempt' = [attempt EXCEPT ![w] = Idle]

(* Stages 4 to 7 up to the insert: gate, route, embed, resolve.            *)
RunPipeline(w) ==
  LET a == attempt[w]  p == a.job IN
  /\ a.step = "pipeline"
  /\ p \notin Fatal
  /\ \E v \in [a.records -> Verdicts(p)], target \in Record \cup {NoRecord},
        confirms \in SUBSET In(SubjectOf[p], "held") :
       /\ \A r \in a.records : Resolved(p, v[r], target, confirms)
       /\ attempt' = [attempt EXCEPT
            ![w].step = "insert", ![w].target = target, ![w].confirms = confirms,
            ![w].outcome = [r \in Record |-> IF r \in a.records THEN v[r] ELSE "absent"]]
  /\ UNCHANGED <<rows, seq, nextSeq, store, forget, faults, history>>

(* A stage fails: the classifier, the embedder, a read of the store.       *)
PipelineFails(w) ==
  /\ attempt[w].step = "pipeline"
  /\ attempt[w].job \notin Fatal
  /\ Errs(w)
  /\ UNCHANGED <<rows, seq, nextSeq, store, forget, faults, history>>

-----------------------------------------------------------------------------
(* apply_intake, one transaction under the proposal's row lock.            *)
Seen(w) == {r \in attempt[w].records : IsStored(r)}

\* Mutant: only a proposal that is gone is skipped.
SkipsErased(w) == rows[attempt[w].job].status = "none"

Skips(w) == rows[attempt[w].job].status \in {"none", "done"}

\* Mutant: the version to supersede is not looked at again.
ConflictsIgnoringTarget(w) ==
  LET a == attempt[w] IN
  \/ ~ a.records \subseteq rows[a.job].records
  \/ Seen(w) \notin {{}, a.records}
  \/ Seen(w) = {} /\ \E r \in a.confirms : mem[r] # "held"

(* Errors that roll it back: a record left the proposal meanwhile, some    *)
(* records are stored and some are not, the version to supersede is no     *)
(* longer current, a plan to confirm is no longer held.                    *)
Conflicts(w) ==
  LET a == attempt[w] IN
  \/ ~ a.records \subseteq rows[a.job].records
  \/ Seen(w) \notin {{}, a.records}
  \/ /\ Seen(w) = {}
     /\ \/ a.target # NoRecord /\ mem[a.target] # "committed"
        \/ \E r \in a.confirms : mem[r] # "held"

Completed(p, status) ==
  rows' = [rows EXCEPT ![p].status = status, ![p].leased = FALSE, ![p].payload = FALSE]

(* The records are already stored: only the proposal is completed.         *)
Repeats(w) ==
  /\ ~ Skips(w) /\ ~ Conflicts(w) /\ Seen(w) # {}
  /\ Completed(attempt[w].job, "done")
  /\ UNCHANGED <<store, wrote>>

Writes(w, status) ==
  LET a == attempt[w] IN
  /\ ~ Skips(w) /\ ~ Conflicts(w) /\ Seen(w) = {}
  /\ mem' = [r \in Record |->
       IF r \in a.records THEN a.outcome[r]
       ELSE IF r = a.target THEN "superseded"
       ELSE IF r \in a.confirms THEN "committed" ELSE mem[r]]
  /\ \E new \in a.records : by' = [r \in Record |-> IF r = a.target THEN new ELSE by[r]]
  /\ confirmed' = confirmed \cup a.confirms
  /\ wrote' = wrote \cup a.records
  /\ Completed(a.job, status)

(* The attempt's own insert.  A commit whose answer is lost, and any other *)
(* database error, is an error to the attempt.                             *)
ApplyIntake(w) ==
  /\ attempt[w].step = "insert"
  /\ \/ /\ Skips(w)
        /\ Goto(w, "finish")
        /\ UNCHANGED <<rows, store, wrote>>
     \/ /\ Repeats(w) \/ Writes(w, "done")
        /\ Goto(w, "finish") \/ Errs(w)
     \/ /\ Errs(w)
        /\ UNCHANGED <<rows, store, wrote>>
  /\ UNCHANGED <<seq, nextSeq, forget, faults, acked, before, erased, gone>>

(* quarantine_poison: the records of the payload this attempt was given,   *)
(* through the same transaction.  Unless it answers that it wrote them,    *)
(* the row is set aside instead.                                           *)
QuarantinePoison(w) ==
  /\ attempt[w].step = "poison"
  /\ \/ /\ Writes(w, "dead")
        /\ Ends(w) \/ Goto(w, "bury")
     \/ /\ Repeats(w)
        /\ Goto(w, "bury")
     \/ /\ Goto(w, "bury")
        /\ UNCHANGED <<rows, store, wrote>>
  /\ UNCHANGED <<seq, nextSeq, forget, faults, acked, before, erased, gone>>

(* intake.finish, after a pipeline that answered Ok.                       *)
Finish(w) ==
  LET p == attempt[w].job IN
  /\ attempt[w].step = "finish"
  /\ IF Unfinished(p) THEN Completed(p, "done") ELSE UNCHANGED rows
  /\ Ends(w)
  /\ UNCHANGED <<seq, nextSeq, store, forget, faults, history>>

(* intake.fail: only the attempt that holds the claim moves the row.       *)
\* Mutant: any attempt of an unfinished proposal may.
HoldsClaimAnyAttempt(w) == Unfinished(attempt[w].job)

HoldsClaim(w) ==
  Unfinished(attempt[w].job) /\ rows[attempt[w].job].attempts = attempt[w].number

Fail(w, step, status) ==
  LET p == attempt[w].job IN
  /\ attempt[w].step = step
  /\ IF HoldsClaim(w)
     THEN rows' = [rows EXCEPT ![p].status = status, ![p].leased = FALSE, ![p].due = FALSE]
     ELSE UNCHANGED rows
  /\ Ends(w)
  /\ UNCHANGED <<seq, nextSeq, store, forget, faults, history>>

Retry(w) == Fail(w, "retry", "pending")
Bury(w) == Fail(w, "bury", "dead")

-----------------------------------------------------------------------------
(* Faults and time.                                                        *)

(* The worker dies, or its connection does: whatever it was about to do    *)
(* does not happen, and the row keeps its lease.                           *)
Crash(w) ==
  /\ attempt[w].step # "idle"
  /\ faults < MaxFaults
  /\ faults' = faults + 1
  /\ Ends(w)
  /\ UNCHANGED <<rows, seq, nextSeq, store, forget, history>>

(* A proposal that takes its worker down before any error is reported.     *)
Dies(w) ==
  /\ attempt[w].step = "pipeline"
  /\ attempt[w].job \in Fatal
  /\ Ends(w)
  /\ UNCHANGED <<rows, seq, nextSeq, store, forget, faults, history>>

Attended(p) ==
  \E w \in Worker : attempt[w].job = p /\ attempt[w].number = rows[p].attempts

(* locked_until passes.  Under a live attempt that is a fault: it was      *)
(* slower than lease_secs.                                                 *)
LeaseExpires(p) ==
  /\ rows[p].status = "running" /\ rows[p].leased
  /\ IF Attended(p) THEN faults < MaxFaults /\ faults' = faults + 1 ELSE UNCHANGED faults
  /\ rows' = [rows EXCEPT ![p].leased = FALSE]
  /\ UNCHANGED <<seq, nextSeq, store, attempt, forget, history>>

(* run_after passes.                                                       *)
BackoffEnds(p) ==
  /\ rows[p].status = "pending" /\ ~rows[p].due
  /\ rows' = [rows EXCEPT ![p].due = TRUE]
  /\ UNCHANGED <<seq, nextSeq, store, attempt, forget, faults, history>>

(* The retention pass: a record reaches its expiry.  A confirmed plan has  *)
(* lost its own.                                                           *)
ExpireDue(r) ==
  /\ mem[r] = "held" \/ r \in Expiring \ confirmed
  /\ mem[r] \in {"held", "review", "committed"}
  /\ mem' = [mem EXCEPT ![r] = "expired"]
  /\ UNCHANGED <<rows, seq, nextSeq, by, confirmed, attempt, forget, faults, history>>

-----------------------------------------------------------------------------
(* Erasure.                                                                *)

Known(r) == r \in Stored \/ \E p \in acked : r \in RecordsOf[p]

\* Mutant: what was set aside is not looked into.
QueuedUnfinished(p, r) == r \in rows[p].records /\ rows[p].payload /\ Unfinished(p)

Queued(p, r) == r \in rows[p].records /\ rows[p].payload

(* forget of one record, first the queue: the record leaves its proposal,  *)
(* and a proposal left empty goes.                                         *)
ForgetDiscard(r) ==
  /\ Known(r) /\ r \notin gone
  /\ forget[r] = "idle"
  /\ rows' = [p \in Proposal |->
       IF ~Queued(p, r) THEN rows[p]
       ELSE IF rows[p].records = {r} THEN NoRow
       ELSE [rows[p] EXCEPT !.records = @ \ {r}]]
  /\ forget' = [forget EXCEPT ![r] =
       IF \E p \in Proposal : Queued(p, r) THEN "queued" ELSE "unqueued"]
  /\ UNCHANGED <<seq, nextSeq, store, attempt, faults, history>>

Absent(R) ==
  /\ mem' = [r \in Record |-> IF r \in R THEN "absent" ELSE mem[r]]
  /\ by' = [r \in Record |-> IF r \in R THEN NoRecord ELSE by[r]]
  /\ confirmed' = confirmed \ R

(* Then the store.  Found in neither, the answer is not_found.             *)
ForgetDelete(r) ==
  /\ forget[r] # "idle"
  /\ Absent({r})
  /\ forget' = [forget EXCEPT ![r] = "idle"]
  /\ gone' = IF forget[r] = "queued" \/ IsStored(r) THEN gone \cup {r} ELSE gone
  /\ UNCHANGED <<rows, seq, nextSeq, attempt, faults, acked, before, wrote, erased>>

\* Mutant: an erasure that forgets the queue.
DeleteSubjectStoreOnly(s) ==
  /\ \E r \in Record : HomeOf[r] = s /\ Known(r) /\ r \notin gone
  /\ Absent({r \in Record : HomeOf[r] = s})
  /\ erased' = erased \cup {p \in acked : SubjectOf[p] = s}
  /\ gone' = gone \cup {r \in Record : HomeOf[r] = s /\ Known(r)}
  /\ UNCHANGED <<rows, seq, nextSeq, attempt, forget, faults, acked, before, wrote>>

(* delete_subject: queued writes and records in one transaction.           *)
DeleteSubject(s) ==
  /\ \E r \in Record : HomeOf[r] = s /\ Known(r) /\ r \notin gone
  /\ rows' = [p \in Proposal |-> IF SubjectOf[p] = s THEN NoRow ELSE rows[p]]
  /\ Absent({r \in Record : HomeOf[r] = s})
  /\ erased' = erased \cup {p \in acked : SubjectOf[p] = s}
  /\ gone' = gone \cup {r \in Record : HomeOf[r] = s /\ Known(r)}
  /\ UNCHANGED <<seq, nextSeq, attempt, forget, faults, acked, before, wrote>>

(* prune: a finished row goes after keep_done_secs.                        *)
Prune(p) ==
  /\ rows[p].status = "done"
  /\ rows' = [rows EXCEPT ![p] = NoRow]
  /\ UNCHANGED <<seq, nextSeq, store, attempt, forget, faults, history>>

-----------------------------------------------------------------------------
Proceed(w) ==
  \/ RunPipeline(w) \/ PipelineFails(w) \/ Dies(w)
  \/ ApplyIntake(w) \/ QuarantinePoison(w)
  \/ Finish(w) \/ Retry(w) \/ Bury(w)

Next ==
  \/ \E p \in Proposal : \/ EnqueueBegin(p) \/ EnqueueCommit(p)
                         \/ LeaseExpires(p) \/ BackoffEnds(p) \/ Prune(p)
  \/ \E w \in Worker : \/ \E p \in Proposal : Claim(w, p)
                       \/ Proceed(w)
                       \/ Crash(w)
  \/ \E r \in Record : ExpireDue(r)
  \/ \E r \in Forgotten : ForgetDiscard(r) \/ ForgetDelete(r)
  \/ \E s \in Erasable : DeleteSubject(s)

Spec == Init /\ [][Next]_vars

(* Attempts that do not crash go on; the workers' loop claims what it may; *)
(* clocks advance.  Clients, erasures, the retention pass and faults owe   *)
(* nothing.                                                                *)
Fairness ==
  /\ \A w \in Worker : WF_vars(Proceed(w))
  /\ \A p \in Proposal : /\ WF_vars(\E w \in Worker : Claim(w, p))
                         /\ WF_vars(LeaseExpires(p) /\ ~Attended(p))
                         /\ WF_vars(BackoffEnds(p))

FairSpec == Spec /\ Fairness

-----------------------------------------------------------------------------
(* What the write path promises.                                           *)

Landed(p) == RecordsOf[p] \cap wrote # {}

(* The records of one proposal are stored together or not at all, whoever  *)
(* runs it, however often; one that is being forgotten, or was, is not     *)
(* waited for (the all-or-none count in apply_intake).                     *)
AllOrNothing ==
  \A p \in Proposal : \A r, s \in RecordsOf[p] :
    IsStored(r) /\ ~IsStored(s) => s \in gone \/ forget[s] # "idle"

(* A write that was acknowledged is stored, or its content is still in the *)
(* queue, or someone asked for it to be forgotten: no crash, retry, poison *)
(* or prune loses it (docs/operations.md, "Restarts").                     *)
AckedNotLost ==
  \A p \in acked : \A r \in RecordsOf[p] :
    IsStored(r) \/ Queued(p, r) \/ r \in gone \/ forget[r] = "queued"

(* A proposal an attempt was made of, or that took effect.                 *)
Tried(p) ==
  rows[p].attempts > 0 \/ Landed(p) \/ \E w \in Worker : attempt[w].job = p

(* Once a proposal was tried, every write of its subject acknowledged      *)
(* before it was sent has been stored, set aside or erased (claim, NOT     *)
(* EXISTS an earlier unfinished one).                                      *)
SubjectOrder ==
  \A q \in Proposal : Tried(q) => \A p \in before[q] : ~Unfinished(p)

(* So a write takes effect after the ones acknowledged before it was sent, *)
(* unless those were set aside as poison.                                  *)
LandsInOrder ==
  [][\A p, q \in Proposal :
       p \in before[q] /\ Landed(q) /\ ~Landed(p) /\ Landed(p)'
         => rows[p].status = "dead"]_vars

(* No write acknowledged before its subject was erased lands after it,     *)
(* whatever attempts were running (delete_subject, apply_intake).          *)
ErasureIsFinal ==
  \A p \in erased :
    rows[p].status = "none" /\ \A r \in RecordsOf[p] : ~IsStored(r)

(* A record is inserted once, even when two workers hold its proposal and  *)
(* it was forgotten in between, unless the proposal was set aside.         *)
StoredOnce ==
  [][\A p \in Proposal : \A r \in RecordsOf[p] :
       ~IsStored(r) /\ IsStored(r)' => r \notin wrote \/ rows[p].status = "dead"]_vars

(* At most one attempt holds the claim of an unfinished proposal, and none *)
(* does while it waits to be retried: a worker whose lease expired never   *)
(* resets a proposal another worker now runs (fail).  Attempts are told    *)
(* apart below AttemptCap, where the model stops counting.                 *)
OneHolder ==
  \A v, w \in Worker :
    attempt[v].job # NoProposal /\ attempt[v].number < AttemptCap /\ HoldsClaim(v) =>
      /\ rows[attempt[v].job].status = "running"
      /\ attempt[w].job = attempt[v].job /\ HoldsClaim(w) => v = w

(* Through claims, crashes, retries, poison, prunes and forgets the queue  *)
(* keeps what was acknowledged, under one holder, and stores it whole.     *)
QueueSafe == AckedNotLost /\ OneHolder /\ AllOrNothing

(* A committed revision left its predecessor superseded, by itself, unless *)
(* the predecessor was erased since: two revisions of one version never    *)
(* both take effect (SUPERSEDE_SQL).  A plan committed by the event that   *)
(* fulfils it is left out: confirming it supersedes nothing, and it may    *)
(* end up current beside the version it revises.                           *)
RevisionLinked ==
  \A p \in Proposal : \A r \in RecordsOf[p] \ confirmed :
    LET old == Revises[p] IN
    old # NoRecord /\ mem[r] = "committed" =>
      \/ mem[old] = "superseded" /\ by[old] = r
      \/ mem[old] = "absent"

(* A forget that found nothing in the queue finds the record in the store: *)
(* an acknowledged record that nobody erased is never answered not_found,  *)
(* though it moves from one to the other between the two steps (forget).   *)
ForgetNeverMisses ==
  \A r \in Record : forget[r] = "unqueued" => IsStored(r) \/ r \in gone

(* Every acknowledged write is in the end stored, set aside or erased,     *)
(* though attempts crash and leases run out, if no write of its subject    *)
(* takes down every worker that tries it.                                  *)
EveryWriteEnds ==
  \A p \in Proposal : (\A f \in Fatal : SubjectOf[f] # SubjectOf[p]) =>
    (p \in acked ~> ~Unfinished(p))

(* The write path implements the log a client relies on.  An erased record *)
(* is one whose erasure was answered, or has taken it out of the queue.    *)
Fate(r) ==
  CASE IsStored(r) -> "stored"
    [] ~IsStored(r) /\ (r \in gone \/ forget[r] = "queued") -> "erased"
    [] OTHER -> IF \E p \in acked : r \in RecordsOf[p] THEN "accepted" ELSE "unsent"

Log == INSTANCE WriteLog WITH
  fate <- [r \in Record |-> Fate(r)], after <- before,
  aside <- {p \in Proposal : rows[p].status = "dead"}

ImplementsWriteLog == Log!LogSpec

-----------------------------------------------------------------------------
(* What the proofs of the above rest on.                                   *)

\* An attempt is of an acknowledged proposal, with records of it.
Working ==
  \A w \in Worker : \/ attempt[w] = Idle
                    \/ /\ attempt[w].job \in acked
                       /\ attempt[w].records \subseteq RecordsOf[attempt[w].job]

\* So is a row, and only such a proposal takes effect or is erased.
Grounded ==
  \A p \in Proposal :
    /\ rows[p].records \subseteq RecordsOf[p]
    /\ rows[p].status # "none" \/ Tried(p) \/ p \in erased => p \in acked

\* The numbers drawn from the sequence agree with what was sent after what.
Numbered ==
  \A p \in Proposal :
    /\ seq[p] < nextSeq
    /\ p \in acked => seq[p] # 0
    /\ \A q \in before[p] : q \in acked /\ SubjectOf[q] = SubjectOf[p] /\ seq[q] < seq[p]

(* What every acknowledged write goes through, at every step: the          *)
(* bookkeeping above, its order and its erasure.                           *)
IInv == Working /\ Grounded /\ Numbered /\ SubjectOrder /\ ErasureIsFinal

(* A row gives its content up with its completion, and what was forgotten  *)
(* is in none.                                                             *)
Content ==
  /\ \A p \in Proposal :
       /\ Landed(p) \/ rows[p].status \in {"none", "done"} => ~rows[p].payload
       /\ Unfinished(p) => rows[p].payload /\ rows[p].records # {}
  /\ \A r \in Record : r \in gone \/ forget[r] # "idle" =>
       Known(r) /\ \A p \in Proposal : ~Queued(p, r)

\* What is stored was written by someone, and leaves the store by an erasure only.
Stocked ==
  /\ \A r \in Record : IsStored(r) => r \in wrote
  /\ \A r \in wrote : Known(r)
  /\ \A r \in Stored : IsStored(r) \/ r \in gone

(* Under an attempt the row loses records and never gains any, and the     *)
(* insert it carries stores every one it was given.                        *)
Carried(a) ==
  /\ a.step # "idle"
  /\ rows[a.job].records \subseteq a.records
  /\ a.step = "finish" => ~Unfinished(a.job)
  /\ a.step = "poison" => \A r \in a.records : a.outcome[r] = "quarantined"
  /\ a.step = "insert" => \A r \in a.records :
       /\ a.outcome[r] # "absent"
       /\ a.outcome[r] = "committed" /\ Revises[a.job] # NoRecord =>
            a.target = Revises[a.job]

Carrying == \A w \in Worker : attempt[w] = Idle \/ Carried(attempt[w])

\* Attempts are numbered by the claim that began them.
Counted ==
  \A v \in Worker : attempt[v].step # "idle" =>
    LET a == attempt[v]  row == rows[a.job] IN
    /\ row.status # "none" => a.number <= row.attempts
    /\ a.number < AttemptCap =>
         /\ a.number > 0
         /\ row.status = "pending" => a.number < row.attempts
         /\ \A w \in Worker :
              attempt[w].job = a.job /\ attempt[w].number = a.number => v = w

\* No transaction will insert the record again.
Settled(r) ==
  r \in Stored \/ \E p \in acked : r \in RecordsOf[p] /\ rows[p].status \in {"none", "done"}

\* Whatever is, or may become, the current version is settled; so is what a revision revises.
Current ==
  /\ \A r \in Record : mem[r] \in {"committed", "held"} => Settled(r)
  /\ \A p \in Proposal : seq[p] # 0 /\ Revises[p] # NoRecord => Settled(Revises[p])

(* What becomes of every record on top of that, and of every attempt.      *)
QInv ==
  /\ AckedNotLost /\ AllOrNothing /\ ForgetNeverMisses
  /\ Content /\ Stocked /\ Current /\ RevisionLinked

AInv == Carrying /\ Counted
========================================
