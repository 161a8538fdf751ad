---------------------------- MODULE IntakeProofs ----------------------------
(***************************************************************************)
(* Theorems of the write path, for any proposals, records, workers,        *)
(* subjects and bounds.                                                    *)
(***************************************************************************)
EXTENDS Intake, TLAPS

-----------------------------------------------------------------------------
(* The parts of an attempt and of a row that an action changes keep their  *)
(* types.                                                                  *)

LEMMA AfterErrorType ==
  ASSUME TypeOK, NEW w \in Worker
  PROVE  AfterError(w) \in Attempt
<1> DEFINE a == attempt[w]
           last == a.number >= MaxAttempts
           o == [r \in Record |-> IF last /\ r \in a.records THEN "quarantined" ELSE "absent"]
           step == IF last THEN "poison" ELSE "retry"
<1>1. a \in Attempt
  BY DEF TypeOK
<1>2. o \in [Record -> Status]
  BY DEF Status
<1>3. step \in Step
  BY DEF Step
<1> HIDE DEF o, step
<1>4. [a EXCEPT !.step = step, !.outcome = o, !.target = NoRecord, !.confirms = {}] \in Attempt
  BY <1>1, <1>2, <1>3 DEF Attempt
<1> QED
  BY <1>4 DEF AfterError, o, step

LEMMA RowWithout ==
  ASSUME NEW row \in Row, NEW R
  PROVE  [row EXCEPT !.records = @ \ R] \in Row
  BY DEF Row

LEMMA IdleType == Idle \in Attempt
  BY ConstantsAssumption DEF Idle, Attempt, Step, NoOutcome, Status

LEMMA CompletedType ==
  ASSUME TypeOK, NEW p \in Proposal, NEW s \in RowStatus, Completed(p, s)
  PROVE  rows' \in [Proposal -> Row]
<1>1. rows[p] \in Row
  BY DEF TypeOK
<1>2. [rows[p] EXCEPT !.status = s, !.leased = FALSE, !.payload = FALSE] \in Row
  BY <1>1 DEF Row
<1> QED
  BY <1>2 DEF TypeOK, Completed

LEMMA ErrsType ==
  ASSUME TypeOK, NEW w \in Worker, Errs(w)
  PROVE  attempt' \in [Worker -> Attempt]
  BY AfterErrorType DEF TypeOK, Errs

LEMMA GotoType ==
  ASSUME TypeOK, NEW w \in Worker, NEW s \in Step, Goto(w, s)
  PROVE  attempt' \in [Worker -> Attempt]
<1>1. attempt[w] \in Attempt
  BY DEF TypeOK
<1>2. [attempt[w] EXCEPT !.step = s] \in Attempt
  BY <1>1 DEF Attempt
<1> QED
  BY <1>2 DEF TypeOK, Goto

LEMMA EndsType ==
  ASSUME TypeOK, NEW w \in Worker, Ends(w)
  PROVE  attempt' \in [Worker -> Attempt]
  BY IdleType DEF TypeOK, Ends

LEMMA InitType == Init => TypeOK
  BY ConstantsAssumption, IdleType DEF Init, TypeOK, NoRow, Row, RowStatus, Status

(* One lemma per action that touches a row, an attempt and the store.      *)
LEMMA WritesType ==
  ASSUME TypeOK, NEW w \in Worker, NEW s \in {"done", "dead"}, Writes(w, s),
         attempt[w].job \in Proposal
  PROVE  /\ rows' \in [Proposal -> Row]
         /\ mem' \in [Record -> Status]
         /\ by' \in [Record -> Record \cup {NoRecord}]
         /\ confirmed' \subseteq Record
         /\ wrote' \subseteq Record
<1>1. attempt[w] \in Attempt
  BY DEF TypeOK
<1>2. rows' \in [Proposal -> Row]
  BY CompletedType DEF Writes, RowStatus
<1>3. mem' \in [Record -> Status]
  BY <1>1 DEF Writes, TypeOK, Attempt, Status
<1>4. by' \in [Record -> Record \cup {NoRecord}]
  BY <1>1 DEF Writes, TypeOK, Attempt
<1>5. confirmed' \subseteq Record /\ wrote' \subseteq Record
  BY <1>1 DEF Writes, TypeOK, Attempt
<1> QED
  BY <1>2, <1>3, <1>4, <1>5

LEMMA ClaimType ==
  ASSUME TypeOK, NEW w \in Worker, NEW p \in Proposal, Claim(w, p)
  PROVE  TypeOK'
<1>1. rows[p] \in Row /\ attempt[w] \in Attempt
  BY DEF TypeOK
<1>2. Bumped(rows[p].attempts) \in 0..AttemptCap
  BY <1>1, ConstantsAssumption DEF Bumped, Row
<1>3. rows' \in [Proposal -> Row]
  <2>1. [rows[p] EXCEPT !.status = "running", !.leased = TRUE, !.attempts = Bumped(@)] \in Row
    BY <1>1, <1>2 DEF Row, RowStatus
  <2> QED
    BY <2>1 DEF Claim, TypeOK
<1>4. attempt' \in [Worker -> Attempt]
  <2>1. [Idle EXCEPT !.step = "pipeline", !.job = p, !.number = Bumped(rows[p].attempts),
                     !.records = rows[p].records] \in Attempt
    BY <1>1, <1>2, IdleType DEF Attempt, Row, Step
  <2> QED
    BY <2>1 DEF Claim, TypeOK
<1> QED
  BY <1>3, <1>4 DEF Claim, TypeOK, store, history

LEMMA RunPipelineType ==
  ASSUME TypeOK, NEW w \in Worker, RunPipeline(w)
  PROVE  TypeOK'
<1> DEFINE a == attempt[w]
<1>1. a \in Attempt
  BY DEF TypeOK
<1>2. PICK v \in [a.records -> Verdicts(a.job)], target \in Record \cup {NoRecord},
           confirms \in SUBSET In(SubjectOf[a.job], "held") :
        attempt' = [attempt EXCEPT
            ![w].step = "insert", ![w].target = target, ![w].confirms = confirms,
            ![w].outcome = [r \in Record |-> IF r \in a.records THEN v[r] ELSE "absent"]]
  BY DEF RunPipeline
<1> DEFINE o == [r \in Record |-> IF r \in a.records THEN v[r] ELSE "absent"]
<1>3. o \in [Record -> Status]
  <2>1. Verdicts(a.job) \subseteq Status
    BY ConstantsAssumption DEF Verdicts, Status
  <2> QED
    BY <2>1 DEF Status
<1>4. confirms \subseteq Record
  BY DEF In
<1> HIDE DEF o
<1>5. [a EXCEPT !.step = "insert", !.target = target, !.confirms = confirms, !.outcome = o]
        \in Attempt
  BY <1>1, <1>3, <1>4 DEF Attempt, Step
<1>6. attempt' \in [Worker -> Attempt]
  BY <1>2, <1>5 DEF TypeOK, o
<1> QED
  BY <1>6 DEF RunPipeline, TypeOK, store, history

LEMMA ApplyIntakeType ==
  ASSUME TypeOK, NEW w \in Worker, ApplyIntake(w), attempt[w].job \in Proposal
  PROVE  TypeOK'
<1>1. attempt' \in [Worker -> Attempt]
  BY ErrsType, GotoType DEF ApplyIntake, Step
<1>2. /\ rows' \in [Proposal -> Row]
      /\ mem' \in [Record -> Status]
      /\ by' \in [Record -> Record \cup {NoRecord}]
      /\ confirmed' \subseteq Record
      /\ wrote' \subseteq Record
  <2>1. CASE Writes(w, "done")
    BY <2>1, WritesType
  <2>2. CASE Repeats(w)
    BY <2>2, CompletedType DEF Repeats, RowStatus, TypeOK, store
  <2>3. CASE UNCHANGED <<rows, store, wrote>>
    BY <2>3 DEF TypeOK, store
  <2> QED
    BY <2>1, <2>2, <2>3 DEF ApplyIntake
<1> QED
  BY <1>1, <1>2 DEF ApplyIntake, TypeOK

LEMMA QuarantinePoisonType ==
  ASSUME TypeOK, NEW w \in Worker, QuarantinePoison(w), attempt[w].job \in Proposal
  PROVE  TypeOK'
<1>1. attempt' \in [Worker -> Attempt]
  BY EndsType, GotoType DEF QuarantinePoison, Step
<1>2. /\ rows' \in [Proposal -> Row]
      /\ mem' \in [Record -> Status]
      /\ by' \in [Record -> Record \cup {NoRecord}]
      /\ confirmed' \subseteq Record
      /\ wrote' \subseteq Record
  <2>1. CASE Writes(w, "dead")
    BY <2>1, WritesType
  <2>2. CASE Repeats(w)
    BY <2>2, CompletedType DEF Repeats, RowStatus, TypeOK, store
  <2>3. CASE UNCHANGED <<rows, store, wrote>>
    BY <2>3 DEF TypeOK, store
  <2> QED
    BY <2>1, <2>2, <2>3 DEF QuarantinePoison
<1> QED
  BY <1>1, <1>2 DEF QuarantinePoison, TypeOK

LEMMA FailType ==
  ASSUME TypeOK, NEW w \in Worker, NEW step, NEW s \in RowStatus, Fail(w, step, s)
  PROVE  TypeOK'
<1> DEFINE p == attempt[w].job
<1>1. attempt' \in [Worker -> Attempt]
  BY EndsType DEF Fail
<1>2. rows' \in [Proposal -> Row]
  <2>1. CASE p \in Proposal
    <3>1. rows[p] \in Row
      BY <2>1 DEF TypeOK
    <3>2. [rows[p] EXCEPT !.status = s, !.leased = FALSE, !.due = FALSE] \in Row
      BY <3>1 DEF Row
    <3> QED
      BY <3>2, <2>1 DEF Fail, TypeOK
  <2>2. CASE p \notin Proposal
    BY <2>2 DEF Fail, TypeOK
  <2> QED
    BY <2>1, <2>2
<1> QED
  BY <1>1, <1>2 DEF Fail, TypeOK, store, history

(* An attempt that is under way has a job.                                 *)
LEMMA HasJob ==
  ASSUME TypeOK, Working, NEW w \in Worker, attempt[w].step # "idle"
  PROVE  attempt[w].job \in acked /\ attempt[w].job \in Proposal
  BY DEF TypeOK, Working, Idle

LEMMA NextType == TypeOK /\ Working /\ [Next]_vars => TypeOK'
<1> SUFFICES ASSUME TypeOK, Working, [Next]_vars PROVE TypeOK'
  OBVIOUS
<1> USE ConstantsAssumption
<1>1. ASSUME NEW p \in Proposal, EnqueueBegin(p) PROVE TypeOK'
  BY <1>1 DEF EnqueueBegin, TypeOK, store
<1>2. ASSUME NEW p \in Proposal, EnqueueCommit(p) PROVE TypeOK'
  BY <1>2 DEF EnqueueCommit, TypeOK, store, Row, RowStatus
<1>3. ASSUME NEW p \in Proposal, LeaseExpires(p) PROVE TypeOK'
  <2>0. rows[p] \in Row
    BY DEF TypeOK
  <2>1. [rows[p] EXCEPT !.leased = FALSE] \in Row
    BY <2>0 DEF Row
  <2>2. faults' \in 0..MaxFaults
    BY <1>3 DEF LeaseExpires, TypeOK
  <2> QED
    BY <1>3, <2>1, <2>2 DEF LeaseExpires, TypeOK, store, history
<1>4. ASSUME NEW p \in Proposal, BackoffEnds(p) PROVE TypeOK'
  <2>0. rows[p] \in Row
    BY DEF TypeOK
  <2>1. [rows[p] EXCEPT !.due = TRUE] \in Row
    BY <2>0 DEF Row
  <2> QED
    BY <1>4, <2>1 DEF BackoffEnds, TypeOK, store, history
<1>5. ASSUME NEW p \in Proposal, Prune(p) PROVE TypeOK'
  BY <1>5 DEF Prune, TypeOK, store, history, NoRow, Row, RowStatus
<1>6. ASSUME NEW w \in Worker, NEW p \in Proposal, Claim(w, p) PROVE TypeOK'
  BY <1>6, ClaimType
<1>7. ASSUME NEW w \in Worker, RunPipeline(w) PROVE TypeOK'
  BY <1>7, RunPipelineType
<1>8. ASSUME NEW w \in Worker, PipelineFails(w) PROVE TypeOK'
  BY <1>8, ErrsType DEF PipelineFails, TypeOK, store, history
<1>9. ASSUME NEW w \in Worker, Dies(w) PROVE TypeOK'
  BY <1>9, EndsType DEF Dies, TypeOK, store, history
<1>10. ASSUME NEW w \in Worker, ApplyIntake(w) PROVE TypeOK'
  BY <1>10, HasJob, ApplyIntakeType DEF ApplyIntake
<1>11. ASSUME NEW w \in Worker, QuarantinePoison(w) PROVE TypeOK'
  BY <1>11, HasJob, QuarantinePoisonType DEF QuarantinePoison
<1>12. ASSUME NEW w \in Worker, Finish(w) PROVE TypeOK'
  <2>1. attempt[w].job \in Proposal
    BY <1>12, HasJob DEF Finish
  <2>2. rows' \in [Proposal -> Row]
    BY <1>12, <2>1, CompletedType DEF Finish, TypeOK, RowStatus
  <2> QED
    BY <1>12, <2>2, EndsType DEF Finish, TypeOK, store, history
<1>13. ASSUME NEW w \in Worker, Retry(w) PROVE TypeOK'
  BY <1>13, FailType DEF Retry, RowStatus
<1>14. ASSUME NEW w \in Worker, Bury(w) PROVE TypeOK'
  BY <1>14, FailType DEF Bury, RowStatus
<1>15. ASSUME NEW w \in Worker, Crash(w) PROVE TypeOK'
  BY <1>15, EndsType DEF Crash, TypeOK, store, history
<1>16. ASSUME NEW r \in Record, ExpireDue(r) PROVE TypeOK'
  BY <1>16 DEF ExpireDue, TypeOK, history, Status
<1>17. ASSUME NEW r \in Forgotten, ForgetDiscard(r) PROVE TypeOK'
  <2>1. \A p \in Proposal : [rows[p] EXCEPT !.records = @ \ {r}] \in Row
    BY RowWithout DEF TypeOK
  <2>2. NoRow \in Row
    BY DEF NoRow, Row, RowStatus
  <2> QED
    BY <1>17, <2>1, <2>2 DEF ForgetDiscard, TypeOK, store, history
<1>18. ASSUME NEW r \in Forgotten, ForgetDelete(r) PROVE TypeOK'
  BY <1>18 DEF ForgetDelete, TypeOK, Absent, Status
<1>19. ASSUME NEW s \in Erasable, DeleteSubject(s) PROVE TypeOK'
  BY <1>19 DEF DeleteSubject, TypeOK, Absent, Status, NoRow, Row, RowStatus
<1>20. CASE UNCHANGED vars
  BY <1>20 DEF TypeOK, vars
<1> QED
  BY <1>1, <1>2, <1>3, <1>4, <1>5, <1>6, <1>7, <1>8, <1>9, <1>10, <1>11, <1>12, <1>13,
     <1>14, <1>15, <1>16, <1>17, <1>18, <1>19, <1>20 DEF Next, Proceed

-----------------------------------------------------------------------------
(* What a step may do to one attempt, to one row, and to the store.        *)

Claimed(w, p) ==
  /\ Claimable(p)
  /\ attempt'[w].job = p
  /\ attempt'[w].records = rows[p].records
  /\ rows'[p].records = rows[p].records
  /\ rows'[p].status = "running"

AttemptEffect(w) ==
  \/ attempt'[w] = Idle
  \/ attempt'[w].job = attempt[w].job /\ attempt'[w].records = attempt[w].records
     /\ (attempt[w] = Idle => attempt'[w] = Idle)
  \/ \E p \in Proposal : Claimed(w, p)

RowEffect(p) ==
  \/ /\ rows'[p].records \subseteq rows[p].records
     /\ rows'[p].attempts \in {0, rows[p].attempts}
     /\ Unfinished(p)' => Unfinished(p)
     /\ rows'[p].status # "none" => rows[p].status # "none"
  \/ /\ p \notin acked /\ p \in acked' /\ seq[p] # 0
     /\ rows'[p].records = RecordsOf[p]
     /\ rows'[p].attempts = 0
  \/ \E w \in Worker : Claimed(w, p)

StoreEffect ==
  \/ /\ wrote' = wrote
     /\ \A r \in Record : IsStored(r)' => IsStored(r)
  \/ \E w \in Worker :
       /\ attempt[w].step # "idle"
       /\ rows[attempt[w].job].status \notin {"none", "done"}
       /\ wrote' = wrote \cup attempt[w].records
       /\ \A r \in Record : IsStored(r)' => IsStored(r) \/ r \in attempt[w].records

Sends ==
  \/ UNCHANGED <<seq, nextSeq, before, acked>>
  \/ \E p \in Proposal :
       /\ seq[p] = 0
       /\ seq' = [seq EXCEPT ![p] = nextSeq] /\ nextSeq' = nextSeq + 1
       /\ before' = [before EXCEPT ![p] = {q \in acked : SubjectOf[q] = SubjectOf[p]}]
       /\ acked' = acked
  \/ \E p \in Proposal :
       /\ seq[p] # 0 /\ acked' = acked \cup {p}
       /\ UNCHANGED <<seq, nextSeq, before>>

Erases ==
  \/ erased' = erased
  \/ \E s \in Erasable : DeleteSubject(s)

Effects ==
  /\ Sends
  /\ Erases
  /\ \A w \in Worker : AttemptEffect(w)
  /\ \A p \in Proposal : RowEffect(p)
  /\ StoreEffect

(* An attempt that goes on, ends or fails keeps its job and its records.   *)
LEMMA AttemptMoves ==
  ASSUME TypeOK, NEW w \in Worker, attempt[w].step # "idle",
         \/ Errs(w)
         \/ Ends(w)
         \/ \E s \in Step : Goto(w, s)
  PROVE  \A v \in Worker : AttemptEffect(v)
<1>1. attempt[w] # Idle /\ attempt[w] \in Attempt
  BY DEF Idle, TypeOK
<1>2. CASE Errs(w)
  <2>1. AfterError(w).job = attempt[w].job /\ AfterError(w).records = attempt[w].records
    BY <1>1 DEF AfterError, Attempt
  <2> QED
    BY <1>1, <1>2, <2>1 DEF Errs, TypeOK, AttemptEffect
<1>3. CASE Ends(w)
  BY <1>3 DEF Ends, TypeOK, AttemptEffect
<1>4. CASE \E s \in Step : Goto(w, s)
  <2>1. PICK s \in Step : Goto(w, s)
    BY <1>4
  <2>2. /\ [attempt[w] EXCEPT !.step = s].job = attempt[w].job
        /\ [attempt[w] EXCEPT !.step = s].records = attempt[w].records
    BY <1>1 DEF Attempt
  <2> QED
    BY <1>1, <2>1, <2>2 DEF Goto, TypeOK, AttemptEffect
<1> QED
  BY <1>2, <1>3, <1>4

LEMMA CompletedEffect ==
  ASSUME TypeOK, NEW p \in Proposal, NEW s \in {"done", "dead"}, Completed(p, s),
         rows[p].status # "none"
  PROVE  \A q \in Proposal : RowEffect(q)
<1>1. rows[p] \in Row
  BY DEF TypeOK
<1>2. LET new == [rows[p] EXCEPT !.status = s, !.leased = FALSE, !.payload = FALSE] IN
      new.status = s /\ new.records = rows[p].records /\ new.attempts = rows[p].attempts
  BY <1>1 DEF Row
<1>3. rows'[p].status = s /\ rows'[p].records = rows[p].records
      /\ rows'[p].attempts = rows[p].attempts
  BY <1>2 DEF Completed, TypeOK
<1>4. \A q \in Proposal \ {p} : rows'[q] = rows[q]
  BY DEF Completed, TypeOK
<1> QED
  BY <1>3, <1>4 DEF RowEffect, Unfinished

LEMMA WritesEffect ==
  ASSUME TypeOK, NEW w \in Worker, NEW s \in {"done", "dead"}, Writes(w, s),
         attempt[w].step # "idle", attempt[w].job \in Proposal
  PROVE  StoreEffect /\ \A q \in Proposal : RowEffect(q)
<1>1. rows[attempt[w].job].status \notin {"none", "done"}
  BY DEF Writes, Skips
<1>2. \A q \in Proposal : RowEffect(q)
  BY <1>1, CompletedEffect DEF Writes
<1>3. \A r \in Record : IsStored(r)' => IsStored(r) \/ r \in attempt[w].records
  BY ConstantsAssumption DEF Writes, Conflicts, IsStored, TypeOK
<1> QED
  BY <1>1, <1>2, <1>3 DEF Writes, StoreEffect

LEMMA Same ==
  ASSUME TypeOK
  PROVE  /\ (attempt' = attempt) => \A w \in Worker : AttemptEffect(w)
         /\ (rows' = rows) => \A p \in Proposal : RowEffect(p)
         /\ (UNCHANGED <<mem, wrote>>) => StoreEffect
         /\ (UNCHANGED <<seq, nextSeq, before, acked>>) => Sends
         /\ (erased' = erased) => Erases
<1>1. ASSUME attempt' = attempt PROVE \A w \in Worker : AttemptEffect(w)
  BY <1>1 DEF AttemptEffect
<1>2. ASSUME rows' = rows PROVE \A p \in Proposal : RowEffect(p)
  BY <1>2 DEF RowEffect, Unfinished, TypeOK, Row
<1>3. ASSUME UNCHANGED <<mem, wrote>> PROVE StoreEffect
  BY <1>3 DEF StoreEffect, IsStored
<1> QED
  BY <1>1, <1>2, <1>3 DEF Sends, Erases

LEMMA ClaimEffect ==
  ASSUME TypeOK, NEW w \in Worker, NEW p \in Proposal, Claim(w, p)
  PROVE  Effects
<1>1. rows[p] \in Row /\ Idle \in Attempt
  BY IdleType DEF TypeOK
<1>2. LET new == [rows[p] EXCEPT !.status = "running", !.leased = TRUE, !.attempts = Bumped(@)] IN
      new.status = "running" /\ new.records = rows[p].records
  BY <1>1 DEF Row
<1>3. LET new == [Idle EXCEPT !.step = "pipeline", !.job = p,
                      !.number = Bumped(rows[p].attempts), !.records = rows[p].records] IN
      new.job = p /\ new.records = rows[p].records
  BY <1>1 DEF Idle
<1>4. Claimed(w, p)
  BY <1>2, <1>3 DEF Claimed, Claim, TypeOK
<1>5. \A v \in Worker \ {w} : attempt'[v] = attempt[v]
  BY DEF Claim, TypeOK
<1>6. \A q \in Proposal \ {p} : rows'[q] = rows[q]
  BY DEF Claim, TypeOK
<1>7. \A v \in Worker : AttemptEffect(v)
  BY <1>4, <1>5 DEF AttemptEffect
<1>8. \A q \in Proposal : RowEffect(q)
  BY <1>4, <1>6 DEF RowEffect, Unfinished
<1> QED
  BY <1>7, <1>8, Same DEF Effects, Claim, store, history

LEMMA RunPipelineEffect ==
  ASSUME TypeOK, NEW w \in Worker, RunPipeline(w)
  PROVE  Effects
<1>1. attempt[w] \in Attempt /\ attempt[w] # Idle
  BY DEF TypeOK, RunPipeline, Idle
<1>2. PICK v \in [attempt[w].records -> Verdicts(attempt[w].job)],
           target \in Record \cup {NoRecord},
           confirms \in SUBSET In(SubjectOf[attempt[w].job], "held") :
        attempt' = [attempt EXCEPT
            ![w].step = "insert", ![w].target = target, ![w].confirms = confirms,
            ![w].outcome = [r \in Record |-> IF r \in attempt[w].records THEN v[r] ELSE "absent"]]
  BY DEF RunPipeline
<1> DEFINE o == [r \in Record |-> IF r \in attempt[w].records THEN v[r] ELSE "absent"]
<1> HIDE DEF o
<1>3. LET new == [attempt[w] EXCEPT !.step = "insert", !.target = target,
                      !.confirms = confirms, !.outcome = o] IN
      new.job = attempt[w].job /\ new.records = attempt[w].records
  BY <1>1 DEF Attempt
<1>4. \A x \in Worker : AttemptEffect(x)
  BY <1>1, <1>2, <1>3 DEF AttemptEffect, TypeOK, o
<1> QED
  BY <1>4, Same DEF Effects, RunPipeline, store, history

LEMMA FailEffect ==
  ASSUME TypeOK, NEW w \in Worker, NEW step \in Step \ {"idle"}, NEW s \in {"pending", "dead"},
         attempt[w].job \in Proposal, Fail(w, step, s)
  PROVE  Effects
<1> DEFINE p == attempt[w].job
           new == [rows[p] EXCEPT !.status = s, !.leased = FALSE, !.due = FALSE]
<1>1. rows[p] \in Row
  BY DEF TypeOK
<1>2. new.status = s /\ new.records = rows[p].records /\ new.attempts = rows[p].attempts
  BY <1>1 DEF Row
<1>3. CASE HoldsClaim(w)
  <2>1. Unfinished(p)
    BY <1>3 DEF HoldsClaim
  <2>2. rows'[p] = new /\ \A q \in Proposal \ {p} : rows'[q] = rows[q]
    BY <1>3 DEF Fail, TypeOK
  <2> QED
    BY <1>2, <2>1, <2>2, AttemptMoves, Same DEF Fail, Effects, RowEffect, Unfinished, store, history
<1>4. CASE ~HoldsClaim(w)
  BY <1>4, AttemptMoves, Same DEF Fail, Effects, store, history
<1> QED
  BY <1>3, <1>4

LEMMA NextEffects == TypeOK /\ Working /\ [Next]_vars => Effects
<1> SUFFICES ASSUME TypeOK, Working, [Next]_vars PROVE Effects
  OBVIOUS
<1> USE Same
<1>1. ASSUME NEW p \in Proposal, EnqueueBegin(p) PROVE Effects
  BY <1>1 DEF EnqueueBegin, Effects, Sends, store
<1>2. ASSUME NEW p \in Proposal, EnqueueCommit(p) PROVE Effects
  <2>1. \A q \in Proposal \ {p} : rows'[q] = rows[q]
    BY <1>2 DEF EnqueueCommit, TypeOK
  <2>2. rows'[p].records = RecordsOf[p] /\ rows'[p].attempts = 0
    BY <1>2 DEF EnqueueCommit, TypeOK
  <2>3. \A q \in Proposal : RowEffect(q)
    BY <1>2, <2>1, <2>2 DEF EnqueueCommit, RowEffect, Unfinished
  <2> QED
    BY <1>2, <2>3 DEF EnqueueCommit, Effects, Sends, store
<1>3. ASSUME NEW p \in Proposal, LeaseExpires(p) \/ BackoffEnds(p) PROVE Effects
  <2>1. rows[p] \in Row
    BY DEF TypeOK
  <2>2. \A new \in {[rows[p] EXCEPT !.leased = FALSE], [rows[p] EXCEPT !.due = TRUE]} :
          /\ new.status = rows[p].status /\ new.records = rows[p].records
          /\ new.attempts = rows[p].attempts
    BY <2>1 DEF Row
  <2>3. \E new \in {[rows[p] EXCEPT !.leased = FALSE], [rows[p] EXCEPT !.due = TRUE]} :
          rows' = [rows EXCEPT ![p] = new]
    BY <1>3 DEF LeaseExpires, BackoffEnds
  <2>4. \A q \in Proposal : RowEffect(q)
    BY <2>2, <2>3 DEF TypeOK, RowEffect, Unfinished
  <2> QED
    BY <1>3, <2>4 DEF LeaseExpires, BackoffEnds, Effects, store, history
<1>4. ASSUME NEW p \in Proposal, Prune(p) PROVE Effects
  <2>1. \A q \in Proposal : RowEffect(q)
    BY <1>4 DEF Prune, RowEffect, NoRow, Unfinished, TypeOK
  <2> QED
    BY <1>4, <2>1 DEF Prune, Effects, store, history
<1>5. ASSUME NEW w \in Worker, NEW p \in Proposal, Claim(w, p) PROVE Effects
  BY <1>5, ClaimEffect
<1>6. ASSUME NEW w \in Worker, RunPipeline(w) PROVE Effects
  BY <1>6, RunPipelineEffect
<1>7. ASSUME NEW w \in Worker, PipelineFails(w) \/ Dies(w) \/ Crash(w) PROVE Effects
  BY <1>7, AttemptMoves DEF PipelineFails, Dies, Crash, Effects, store, history
<1>8. ASSUME NEW w \in Worker, ApplyIntake(w) \/ QuarantinePoison(w) PROVE Effects
  <2>1. attempt[w].step # "idle" /\ attempt[w].job \in Proposal
    BY <1>8, HasJob DEF ApplyIntake, QuarantinePoison
  <2>2. \A v \in Worker : AttemptEffect(v)
    BY <1>8, <2>1, AttemptMoves DEF ApplyIntake, QuarantinePoison, Step
  <2>3. StoreEffect /\ \A q \in Proposal : RowEffect(q)
    <3>1. CASE \E s \in {"done", "dead"} : Writes(w, s)
      BY <3>1, <2>1, WritesEffect
    <3>2. CASE Repeats(w)
      BY <3>2, <2>1, CompletedEffect DEF Repeats, Skips, store
    <3>3. CASE UNCHANGED <<rows, store, wrote>>
      BY <3>3 DEF store
    <3> QED
      BY <1>8, <3>1, <3>2, <3>3 DEF ApplyIntake, QuarantinePoison
  <2> QED
    BY <1>8, <2>2, <2>3 DEF ApplyIntake, QuarantinePoison, Effects
<1>9. ASSUME NEW w \in Worker, Finish(w) PROVE Effects
  <2>1. attempt[w].step # "idle" /\ attempt[w].job \in Proposal
    BY <1>9, HasJob DEF Finish
  <2>2. \A q \in Proposal : RowEffect(q)
    BY <1>9, <2>1, CompletedEffect DEF Finish, Unfinished
  <2> QED
    BY <1>9, <2>1, <2>2, AttemptMoves DEF Finish, Effects, store, history
<1>10. ASSUME NEW w \in Worker, Retry(w) \/ Bury(w) PROVE Effects
  <2>1. attempt[w].job \in Proposal
    BY <1>10, HasJob DEF Retry, Bury, Fail
  <2> QED
    BY <1>10, <2>1, FailEffect DEF Retry, Bury, Step
<1>11. ASSUME NEW r \in Record, ExpireDue(r) PROVE Effects
  <2>1. StoreEffect
    BY <1>11 DEF ExpireDue, StoreEffect, IsStored, TypeOK, history
  <2> QED
    BY <1>11, <2>1 DEF ExpireDue, Effects, history
<1>12. ASSUME NEW r \in Forgotten, ForgetDiscard(r) PROVE Effects
  <2>1. \A p \in Proposal : RowEffect(p)
    <3> SUFFICES ASSUME NEW p \in Proposal PROVE RowEffect(p)
      OBVIOUS
    <3>1. rows[p] \in Row
      BY DEF TypeOK
    <3> DEFINE new == [rows[p] EXCEPT !.records = @ \ {r}]
    <3>2. /\ new.status = rows[p].status /\ new.records \subseteq rows[p].records
          /\ new.attempts = rows[p].attempts
      BY <3>1 DEF Row
    <3>3. rows'[p] = rows[p] \/ rows'[p] = NoRow \/ rows'[p] = new
      BY <1>12 DEF ForgetDiscard
    <3> HIDE DEF new
    <3>4. CASE rows'[p] = new
      BY <3>2, <3>4 DEF RowEffect, Unfinished
    <3>5. CASE rows'[p] = rows[p] \/ rows'[p] = NoRow
      BY <3>5 DEF RowEffect, NoRow, Unfinished
    <3> QED
      BY <3>3, <3>4, <3>5
  <2> QED
    BY <1>12, <2>1 DEF ForgetDiscard, Effects, store, history
<1>13. ASSUME NEW r \in Forgotten, ForgetDelete(r) PROVE Effects
  <2>1. StoreEffect
    BY <1>13 DEF ForgetDelete, Absent, StoreEffect, IsStored
  <2> QED
    BY <1>13, <2>1 DEF ForgetDelete, Effects
<1>14. ASSUME NEW s \in Erasable, DeleteSubject(s) PROVE Effects
  <2>1. StoreEffect
    BY <1>14 DEF DeleteSubject, Absent, StoreEffect, IsStored
  <2>2. \A p \in Proposal : RowEffect(p)
    BY <1>14 DEF DeleteSubject, RowEffect, NoRow, Unfinished
  <2>3. Erases /\ UNCHANGED <<seq, nextSeq, before, acked, attempt>>
    BY <1>14 DEF DeleteSubject, Erases
  <2> QED
    BY <2>1, <2>2, <2>3 DEF Effects
<1>15. CASE UNCHANGED vars
  BY <1>15 DEF vars, Effects
<1> QED
  BY <1>1, <1>2, <1>3, <1>4, <1>5, <1>6, <1>7, <1>8, <1>9, <1>10, <1>11, <1>12, <1>13,
     <1>14, <1>15 DEF Next, Proceed

-----------------------------------------------------------------------------
(* The invariant holds at first and every step keeps it, part by part.     *)

LEMMA InitIInv == Init => IInv
<1> SUFFICES ASSUME Init PROVE IInv
  OBVIOUS
<1>1. \A p \in Proposal : ~Tried(p)
  BY ConstantsAssumption DEF Init, Tried, NoRow, Idle, Landed
<1>2. Working /\ Grounded /\ Numbered
  BY <1>1 DEF Init, Working, Grounded, Numbered, NoRow
<1> QED
  BY <1>1, <1>2 DEF IInv, SubjectOrder, ErasureIsFinal, Init

\* Whoever may claim a proposal: it was acknowledged.
LEMMA ClaimableAcked ==
  ASSUME Grounded, NEW p \in Proposal, Claimable(p)
  PROVE  p \in acked /\ Unfinished(p)
  BY DEF Claimable, Grounded, Unfinished

\* A record of an attempt is a record of no other proposal.
LEMMA OwnRecords ==
  ASSUME Working, TypeOK, NEW w \in Worker, NEW p \in Proposal, NEW r \in RecordsOf[p],
         r \in attempt[w].records, attempt[w].step # "idle"
  PROVE  attempt[w].job = p
<1>1. attempt[w].job \in Proposal
  BY HasJob
<1>2. r \in RecordsOf[attempt[w].job]
  BY DEF Working, Idle
<1> QED
  BY <1>1, <1>2, RecordsAssumption

LEMMA WorkingStep == TypeOK /\ IInv /\ Effects => Working'
<1> SUFFICES ASSUME TypeOK, IInv, Effects, NEW w \in Worker
             PROVE  \/ attempt'[w] = Idle
                    \/ /\ attempt'[w].job \in acked'
                       /\ attempt'[w].records \subseteq RecordsOf[attempt'[w].job]
  BY DEF Working
<1>1. acked \subseteq acked'
  BY DEF Effects, Sends
<1>2. CASE \E p \in Proposal : Claimed(w, p)
  BY <1>1, <1>2, ClaimableAcked DEF Claimed, IInv, Grounded
<1>3. CASE ~ \E p \in Proposal : Claimed(w, p)
  BY <1>1, <1>3 DEF Effects, AttemptEffect, IInv, Working
<1> QED
  BY <1>2, <1>3

(* A step tries a proposal for the first time only by claiming it.         *)
LEMMA FirstTry ==
  ASSUME TypeOK, IInv, Effects, NEW p \in Proposal, Tried(p)'
  PROVE  Tried(p) \/ Claimable(p)
<1>1. CASE rows'[p].attempts > 0
  BY <1>1 DEF Effects, RowEffect, Claimed, Tried
<1>2. CASE Landed(p)'
  <2>1. CASE wrote' = wrote
    BY <1>2, <2>1 DEF Landed, Tried
  <2>2. CASE wrote' # wrote
    BY <1>2, <2>2, OwnRecords DEF Effects, StoreEffect, Landed, Tried, IInv
  <2> QED
    BY <2>1, <2>2
<1>3. CASE \E w \in Worker : attempt'[w].job = p
  <2>1. PICK w \in Worker : attempt'[w].job = p
    BY <1>3
  <2>2. Idle.job # p
    BY ConstantsAssumption DEF Idle
  <2> QED
    BY <2>1, <2>2 DEF Effects, AttemptEffect, Claimed, Tried
<1> QED
  BY <1>1, <1>2, <1>3 DEF Tried

LEMMA GroundedStep == TypeOK /\ IInv /\ Effects => Grounded'
<1> SUFFICES ASSUME TypeOK, IInv, Effects, NEW p \in Proposal
             PROVE  /\ rows'[p].records \subseteq RecordsOf[p]
                    /\ rows'[p].status # "none" \/ Tried(p)' \/ p \in erased' => p \in acked'
  BY DEF Grounded
<1>1. acked \subseteq acked'
  BY DEF Effects, Sends
<1>2. rows'[p].records \subseteq RecordsOf[p] /\ (rows'[p].status # "none" => p \in acked')
  BY <1>1, ClaimableAcked DEF Effects, RowEffect, Claimed, IInv, Grounded
<1>3. Tried(p)' => p \in acked'
  BY <1>1, FirstTry, ClaimableAcked DEF IInv, Grounded
<1>4. p \in erased' => p \in acked'
  BY <1>1 DEF Effects, Erases, DeleteSubject, IInv, Grounded
<1> QED
  BY <1>2, <1>3, <1>4

LEMMA NumberedStep == TypeOK /\ IInv /\ Effects => Numbered'
<1> SUFFICES ASSUME TypeOK, IInv, Effects PROVE Numbered'
  OBVIOUS
<1>1. CASE UNCHANGED <<seq, nextSeq, before, acked>>
  BY <1>1 DEF IInv, Numbered
<1>2. ASSUME NEW p \in Proposal, seq[p] = 0,
             seq' = [seq EXCEPT ![p] = nextSeq], nextSeq' = nextSeq + 1,
             before' = [before EXCEPT ![p] = {q \in acked : SubjectOf[q] = SubjectOf[p]}],
             acked' = acked
      PROVE  Numbered'
  <2>1. p \notin acked
    BY <1>2 DEF IInv, Numbered
  <2>2. \A q \in acked : q \in Proposal /\ q # p
    BY <2>1 DEF TypeOK
  <2> QED
    BY <1>2, <2>1, <2>2 DEF IInv, Numbered, TypeOK
<1>3. ASSUME NEW p \in Proposal, seq[p] # 0, acked' = acked \cup {p},
             UNCHANGED <<seq, nextSeq, before>>
      PROVE  Numbered'
  BY <1>3 DEF IInv, Numbered
<1> QED
  BY <1>1, <1>2, <1>3 DEF Effects, Sends

LEMMA SubjectOrderStep == TypeOK /\ IInv /\ Effects => SubjectOrder'
<1> SUFFICES ASSUME TypeOK, IInv, Effects, NEW q \in Proposal, Tried(q)',
                    NEW p \in before'[q], Unfinished(p)'
             PROVE  FALSE
  BY DEF SubjectOrder
<1>1. q \in acked
  BY FirstTry, ClaimableAcked DEF IInv, Grounded
<1>2. before'[q] = before[q]
  BY <1>1 DEF Effects, Sends, IInv, Numbered, TypeOK
<1>3. p \in Proposal /\ p \in acked /\ SubjectOf[p] = SubjectOf[q] /\ seq[p] < seq[q]
  BY <1>2 DEF IInv, Numbered, TypeOK
<1>4. Unfinished(p)
  BY <1>3, ClaimableAcked DEF Effects, RowEffect, Claimed, IInv
<1>5. ~Claimable(q)
  BY <1>3, <1>4 DEF Claimable
<1> QED
  BY <1>2, <1>4, <1>5, FirstTry DEF IInv, SubjectOrder

LEMMA ErasureIsFinalStep == TypeOK /\ IInv /\ Effects => ErasureIsFinal'
<1> SUFFICES ASSUME TypeOK, IInv, Effects, NEW p \in erased'
             PROVE  rows'[p].status = "none" /\ \A r \in RecordsOf[p] : ~IsStored(r)'
  BY DEF ErasureIsFinal
<1>1. CASE p \in erased
  <2>1. p \in Proposal /\ p \in acked /\ rows[p].status = "none"
    BY <1>1 DEF TypeOK, IInv, Grounded, ErasureIsFinal
  <2>2. rows'[p].status = "none"
    BY <2>1, ClaimableAcked DEF Effects, RowEffect, Claimed, IInv, Unfinished
  <2>3. ASSUME NEW r \in RecordsOf[p], IsStored(r)' PROVE FALSE
    <3>1. ~IsStored(r) /\ r \in Record
      BY <1>1, <2>1, ConstantsAssumption DEF IInv, ErasureIsFinal
    <3> QED
      BY <2>1, <2>3, <3>1, OwnRecords DEF Effects, StoreEffect, IInv
  <2> QED
    BY <2>2, <2>3
<1>2. CASE p \notin erased
  <2>1. PICK s \in Erasable : DeleteSubject(s)
    BY <1>2 DEF Effects, Erases
  <2>2. p \in acked /\ p \in Proposal /\ SubjectOf[p] = s
    BY <1>2, <2>1 DEF DeleteSubject, TypeOK
  <2>3. \A r \in RecordsOf[p] : r \in Record /\ HomeOf[r] = s
    BY <2>2, ConstantsAssumption, RecordsAssumption
  <2> QED
    BY <2>1, <2>2, <2>3 DEF DeleteSubject, Absent, IsStored, NoRow
<1> QED
  BY <1>1, <1>2

LEMMA IInvStep == TypeOK /\ IInv /\ [Next]_vars => IInv'
<1> SUFFICES ASSUME TypeOK, IInv, [Next]_vars PROVE IInv'
  OBVIOUS
<1>1. Effects
  BY NextEffects DEF IInv
<1> QED
  BY <1>1, WorkingStep, GroundedStep, NumberedStep, SubjectOrderStep, ErasureIsFinalStep
     DEF IInv

LEMMA SpecIInv == Spec => [](TypeOK /\ IInv)
<1>1. Init => TypeOK /\ IInv
  BY InitType, InitIInv
<1>2. TypeOK /\ IInv /\ [Next]_vars => (TypeOK /\ IInv)'
  BY NextType, IInvStep DEF IInv
<1> QED
  BY <1>1, <1>2, PTL DEF Spec

-----------------------------------------------------------------------------
(* The records between queue and store.                                    *)

(* A record known to anyone is stored from the start or of an acknowledged *)
(* proposal, which is the only one it is of.                               *)
LEMMA KnownAcked ==
  ASSUME TypeOK, NEW p \in Proposal, NEW r \in RecordsOf[p], Known(r)
  PROVE  p \in acked
  BY ConstantsAssumption, RecordsAssumption DEF Known, TypeOK

LEMMA RecordOfOne ==
  ASSUME NEW p \in Proposal, NEW q \in Proposal, NEW r \in RecordsOf[p], r \in RecordsOf[q]
  PROVE  p = q
  BY RecordsAssumption

LEMMA RecordsAreRecords ==
  ASSUME NEW p \in Proposal
  PROVE  RecordsOf[p] \subseteq Record \ Stored /\ RecordsOf[p] # {}
  BY ConstantsAssumption, RecordsAssumption

LEMMA StockedAcked ==
  ASSUME TypeOK, Stocked, NEW p \in Proposal, NEW r \in RecordsOf[p], IsStored(r)
  PROVE  p \in acked /\ Landed(p)
<1>1. r \in wrote /\ Known(r)
  BY RecordsAreRecords DEF Stocked
<1> QED
  BY <1>1, KnownAcked DEF Landed

-----------------------------------------------------------------------------
(* Steps that leave every record where it is: rows keep their content, and *)
(* none is given a status it did not have but for being claimed, failed or *)
(* set aside.                                                              *)
RowKept(p) ==
  /\ rows'[p].records = rows[p].records
  /\ rows'[p].payload = rows[p].payload
  /\ Unfinished(p)' => Unfinished(p)
  /\ (rows'[p].status \in {"none", "done"}) <=> (rows[p].status \in {"none", "done"})

LEMMA RowsKeptQInv ==
  ASSUME TypeOK, QInv, \A p \in Proposal : RowKept(p),
         UNCHANGED <<seq, mem, by, confirmed, forget, acked, wrote, gone>>
  PROVE  QInv'
<1>1. AckedNotLost'
  BY DEF QInv, AckedNotLost, RowKept, Queued, IsStored, TypeOK
<1>2. AllOrNothing' /\ ForgetNeverMisses'
  BY DEF QInv, AllOrNothing, ForgetNeverMisses, IsStored
<1>3. Content'
  BY DEF QInv, Content, RowKept, Queued, Landed, Known
<1>4. Stocked'
  BY DEF QInv, Stocked, IsStored, Known
<1>5. \A r : Settled(r) => Settled(r)'
  BY DEF Settled, RowKept, TypeOK
<1>6. Current'
  BY <1>5 DEF QInv, Current
<1>7. RevisionLinked'
  BY DEF QInv, RevisionLinked
<1> QED
  BY <1>1, <1>2, <1>3, <1>4, <1>6, <1>7 DEF QInv

LEMMA EnqueueBeginQInv ==
  ASSUME TypeOK, IInv, QInv, NEW p \in Proposal, EnqueueBegin(p)
  PROVE  QInv'
<1>1. UNCHANGED <<rows, mem, by, confirmed, forget, acked, wrote, gone>>
  BY DEF EnqueueBegin, store
<1>2. AckedNotLost' /\ AllOrNothing' /\ ForgetNeverMisses' /\ Content' /\ Stocked'
      /\ RevisionLinked'
  BY <1>1 DEF QInv, AckedNotLost, AllOrNothing, ForgetNeverMisses, Content, Stocked,
     RevisionLinked, Queued, IsStored, Landed, Unfinished, Known
<1>3. \A r : Settled(r)' = Settled(r)
  BY <1>1 DEF Settled
<1>4. Current'
  <2>1. Revises[p] # NoRecord => Settled(Revises[p])
    BY ConstantsAssumption DEF EnqueueBegin, QInv, Current
  <2>2. \A q \in Proposal : seq'[q] # 0 => seq[q] # 0 \/ q = p
    BY DEF EnqueueBegin, TypeOK
  <2> QED
    BY <1>1, <1>3, <2>1, <2>2 DEF QInv, Current
<1> QED
  BY <1>2, <1>4 DEF QInv

LEMMA EnqueueCommitQInv ==
  ASSUME TypeOK, IInv, QInv, NEW p \in Proposal, EnqueueCommit(p)
  PROVE  QInv'
<1>1. UNCHANGED <<seq, mem, by, confirmed, forget, wrote, gone>> /\ acked' = acked \cup {p}
  BY DEF EnqueueCommit, store
<1>2. /\ rows'[p].status = "pending" /\ rows'[p].payload = TRUE
      /\ rows'[p].records = RecordsOf[p]
      /\ \A q \in Proposal \ {p} : rows'[q] = rows[q]
  BY DEF EnqueueCommit, TypeOK
<1>3. p \notin acked /\ \A r \in RecordsOf[p] : ~Known(r)
  BY KnownAcked DEF EnqueueCommit
<1>4. \A r \in RecordsOf[p] : r \notin wrote /\ r \notin gone /\ forget[r] = "idle"
  BY <1>3, RecordsAreRecords DEF QInv, Stocked, Content
<1>5. AckedNotLost'
  BY <1>1, <1>2 DEF QInv, AckedNotLost, Queued, IsStored, TypeOK
<1>6. AllOrNothing' /\ ForgetNeverMisses'
  BY <1>1 DEF QInv, AllOrNothing, ForgetNeverMisses, IsStored
<1>7. \A r : Known(r) => Known(r)'
  BY <1>1 DEF Known
<1>8. Content'
  <2>1. ASSUME NEW q \in Proposal
        PROVE  /\ Landed(q)' \/ rows'[q].status \in {"none", "done"} => ~rows'[q].payload
               /\ Unfinished(q)' => rows'[q].payload /\ rows'[q].records # {}
    <3>1. CASE q = p
      BY <1>1, <1>2, <1>4, <3>1, RecordsAreRecords DEF Landed
    <3>2. CASE q # p
      BY <1>1, <1>2, <3>2 DEF QInv, Content, Landed, Unfinished
    <3> QED
      BY <3>1, <3>2
  <2>2. ASSUME NEW r \in Record, r \in gone' \/ forget'[r] # "idle"
        PROVE  Known(r)' /\ \A q \in Proposal : ~Queued(q, r)'
    <3>1. Known(r) /\ \A q \in Proposal : ~Queued(q, r)
      BY <1>1, <2>2 DEF QInv, Content
    <3>2. r \notin RecordsOf[p]
      BY <1>3, <3>1
    <3> QED
      BY <1>2, <1>7, <3>1, <3>2 DEF Queued
  <2> QED
    BY <2>1, <2>2 DEF Content
<1>9. Stocked'
  BY <1>1, <1>7 DEF QInv, Stocked, IsStored
<1>10. \A r : Settled(r) => Settled(r)'
  BY <1>1, <1>2, <1>3 DEF Settled, TypeOK
<1>11. Current'
  BY <1>1, <1>10 DEF QInv, Current
<1>12. RevisionLinked'
  BY <1>1 DEF QInv, RevisionLinked
<1> QED
  BY <1>5, <1>6, <1>8, <1>9, <1>11, <1>12 DEF QInv

LEMMA PruneQInv ==
  ASSUME TypeOK, QInv, NEW p \in Proposal, Prune(p)
  PROVE  QInv'
<1>1. UNCHANGED <<seq, mem, by, confirmed, forget, acked, wrote, gone>>
  BY DEF Prune, store, history
<1>2. /\ rows[p].status = "done" /\ rows'[p] = NoRow
      /\ \A q \in Proposal \ {p} : rows'[q] = rows[q]
  BY DEF Prune, TypeOK
<1>3. \A r : ~Queued(p, r) /\ ~Queued(p, r)'
  BY <1>2 DEF QInv, Content, Queued, NoRow
<1>4. AckedNotLost'
  BY <1>1, <1>2, <1>3 DEF QInv, AckedNotLost, Queued, IsStored, TypeOK
<1>5. AllOrNothing' /\ ForgetNeverMisses'
  BY <1>1 DEF QInv, AllOrNothing, ForgetNeverMisses, IsStored
<1>6. Content'
  BY <1>1, <1>2 DEF QInv, Content, Queued, Landed, Known, NoRow, Unfinished
<1>7. Stocked'
  BY <1>1 DEF QInv, Stocked, IsStored, Known
<1>8. \A r : Settled(r) => Settled(r)'
  BY <1>1, <1>2 DEF Settled, NoRow, TypeOK
<1>9. Current'
  BY <1>1, <1>8 DEF QInv, Current
<1>10. RevisionLinked'
  BY <1>1 DEF QInv, RevisionLinked
<1> QED
  BY <1>4, <1>5, <1>6, <1>7, <1>9, <1>10 DEF QInv

LEMMA ExpireDueQInv ==
  ASSUME TypeOK, QInv, NEW r \in Record, ExpireDue(r)
  PROVE  QInv'
<1>1. UNCHANGED <<rows, seq, by, confirmed, forget, acked, wrote, gone>>
  BY DEF ExpireDue, history
<1>2. mem'[r] = "expired" /\ \A q \in Record \ {r} : mem'[q] = mem[q]
  BY DEF ExpireDue, TypeOK
<1>3. mem[r] \in {"held", "review", "committed"}
  BY DEF ExpireDue
<1>4. \A q \in Record : IsStored(q)' = IsStored(q)
  BY <1>2, <1>3 DEF IsStored
<1>5. \A p \in Proposal : RecordsOf[p] \subseteq Record
  BY RecordsAreRecords
<1>6. AckedNotLost'
  BY <1>1, <1>4, <1>5 DEF QInv, AckedNotLost, Queued, TypeOK
<1>7. AllOrNothing' /\ ForgetNeverMisses'
  BY <1>1, <1>4, <1>5 DEF QInv, AllOrNothing, ForgetNeverMisses
<1>8. Content'
  BY <1>1 DEF QInv, Content, Queued, Landed, Known, Unfinished
<1>9. Stocked'
  BY <1>1, <1>4, ConstantsAssumption DEF QInv, Stocked, Known
<1>10. Current'
  BY <1>1, <1>2 DEF QInv, Current, Settled
<1>11. RevisionLinked'
  BY <1>1, <1>2, <1>3, <1>5, ConstantsAssumption DEF QInv, RevisionLinked
<1> QED
  BY <1>6, <1>7, <1>8, <1>9, <1>10, <1>11 DEF QInv
LEMMA ForgetDiscardQInv ==
  ASSUME TypeOK, IInv, QInv, NEW r \in Record, ForgetDiscard(r)
  PROVE  QInv'
<1>1. UNCHANGED <<seq, mem, by, confirmed, acked, wrote, gone>>
  BY DEF ForgetDiscard, store, history
<1>2. /\ forget'[r] = IF \E p \in Proposal : Queued(p, r) THEN "queued" ELSE "unqueued"
      /\ \A q \in Record \ {r} : forget'[q] = forget[q]
      /\ Known(r) /\ r \notin gone /\ forget[r] = "idle"
  BY DEF ForgetDiscard, TypeOK
<1>3. ASSUME NEW p \in Proposal
      PROVE  \/ ~Queued(p, r) /\ rows'[p] = rows[p]
             \/ Queued(p, r) /\ rows[p].records = {r} /\ rows'[p] = NoRow
             \/ /\ Queued(p, r) /\ rows[p].records # {r}
                /\ rows'[p].records = rows[p].records \ {r}
                /\ rows'[p].payload = rows[p].payload
                /\ rows'[p].status = rows[p].status
  <2>1. rows[p] \in Row
    BY DEF TypeOK
  <2> DEFINE new == [rows[p] EXCEPT !.records = @ \ {r}]
  <2>2. new.records = rows[p].records \ {r} /\ new.payload = rows[p].payload
        /\ new.status = rows[p].status
    BY <2>1 DEF Row
  <2>3. rows'[p] = IF ~Queued(p, r) THEN rows[p]
                   ELSE IF rows[p].records = {r} THEN NoRow ELSE new
    BY DEF ForgetDiscard
  <2> HIDE DEF new
  <2> QED
    BY <2>2, <2>3
<1>4. \A p \in Proposal, q \in Record : Queued(p, q)' <=> Queued(p, q) /\ q # r
  BY <1>3 DEF Queued, NoRow
<1>5. \A p \in Proposal : RecordsOf[p] \subseteq Record
  BY RecordsAreRecords
<1>6. AckedNotLost'
  BY <1>1, <1>2, <1>4, <1>5 DEF QInv, AckedNotLost, IsStored, TypeOK
<1>7. AllOrNothing'
  BY <1>1, <1>2, <1>5 DEF QInv, AllOrNothing, IsStored
<1>8. ForgetNeverMisses'
  <2>1. ASSUME forget'[r] = "unqueued" PROVE IsStored(r) \/ r \in gone
    <3>1. \A p \in Proposal : ~Queued(p, r)
      BY <1>2, <2>1
    <3>2. CASE r \in Stored
      BY <3>2 DEF QInv, Stocked
    <3>3. CASE \E p \in acked : r \in RecordsOf[p]
      BY <1>2, <3>1, <3>3 DEF QInv, AckedNotLost, TypeOK
    <3> QED
      BY <1>2, <3>2, <3>3 DEF Known
  <2> QED
    BY <1>1, <1>2, <2>1 DEF QInv, ForgetNeverMisses, IsStored
<1>9. Content'
  <2>1. ASSUME NEW p \in Proposal
        PROVE  /\ Landed(p)' \/ rows'[p].status \in {"none", "done"} => ~rows'[p].payload
               /\ Unfinished(p)' => rows'[p].payload /\ rows'[p].records # {}
    BY <1>1, <1>3 DEF QInv, Content, Landed, Unfinished, NoRow
  <2>2. ASSUME NEW q \in Record, q \in gone' \/ forget'[q] # "idle"
        PROVE  Known(q)' /\ \A p \in Proposal : ~Queued(p, q)'
    BY <1>1, <1>2, <1>4, <2>2 DEF QInv, Content, Known
  <2> QED
    BY <2>1, <2>2 DEF Content
<1>10. Stocked'
  BY <1>1 DEF QInv, Stocked, IsStored, Known
<1>11. \A q : Settled(q) => Settled(q)'
  BY <1>1, <1>3 DEF Settled, NoRow, TypeOK
<1>12. Current'
  BY <1>1, <1>11 DEF QInv, Current
<1>13. RevisionLinked'
  BY <1>1 DEF QInv, RevisionLinked
<1> QED
  BY <1>6, <1>7, <1>8, <1>9, <1>10, <1>12, <1>13 DEF QInv

(* What an erasure does to the records it takes out of the store.          *)
LEMMA AbsentEffect ==
  ASSUME TypeOK, NEW R, Absent(R)
  PROVE  /\ \A r \in Record : IsStored(r)' <=> IsStored(r) /\ r \notin R
         /\ \A r \in Record \ R : mem'[r] = mem[r] /\ by'[r] = by[r]
         /\ \A r \in Record : r \in R => mem'[r] = "absent"
         /\ confirmed' = confirmed \ R
  BY DEF Absent, IsStored, TypeOK

LEMMA AbsentRevisions ==
  ASSUME TypeOK, RevisionLinked, NEW R, Absent(R)
  PROVE  RevisionLinked'
<1> SUFFICES ASSUME NEW p \in Proposal, NEW r \in RecordsOf[p], r \notin confirmed',
                    Revises[p] # NoRecord, mem'[r] = "committed"
             PROVE  \/ mem'[Revises[p]] = "superseded" /\ by'[Revises[p]] = r
                    \/ mem'[Revises[p]] = "absent"
  BY DEF RevisionLinked
<1>1. r \in Record /\ Revises[p] \in Record
  BY ConstantsAssumption
<1> QED
  BY <1>1, AbsentEffect DEF RevisionLinked

LEMMA ForgetDeleteQInv ==
  ASSUME TypeOK, IInv, QInv, NEW r \in Record, ForgetDelete(r)
  PROVE  QInv'
<1>1. UNCHANGED <<rows, seq, acked, wrote>>
  BY DEF ForgetDelete
<1>2. /\ forget'[r] = "idle" /\ \A q \in Record \ {r} : forget'[q] = forget[q]
      /\ forget[r] \in {"queued", "unqueued"}
      /\ gone' = IF forget[r] = "queued" \/ IsStored(r) THEN gone \cup {r} ELSE gone
  BY DEF ForgetDelete, TypeOK
<1>3. r \in gone' /\ gone' = gone \cup {r}
  BY <1>2 DEF QInv, ForgetNeverMisses
<1>4. /\ \A q \in Record : IsStored(q)' <=> IsStored(q) /\ q # r
      /\ \A q \in Record \ {r} : mem'[q] = mem[q]
      /\ mem'[r] = "absent"
  BY AbsentEffect DEF ForgetDelete
<1>5. \A p \in Proposal : RecordsOf[p] \subseteq Record
  BY RecordsAreRecords
<1>6. AckedNotLost'
  BY <1>1, <1>2, <1>3, <1>4, <1>5 DEF QInv, AckedNotLost, Queued, TypeOK
<1>7. AllOrNothing'
  BY <1>2, <1>3, <1>4, <1>5 DEF QInv, AllOrNothing
<1>8. ForgetNeverMisses'
  BY <1>2, <1>3, <1>4 DEF QInv, ForgetNeverMisses
<1>9. Content'
  BY <1>1, <1>2, <1>3 DEF QInv, Content, Landed, Unfinished, Queued, Known
<1>10. Stocked'
  BY <1>1, <1>3, <1>4, ConstantsAssumption DEF QInv, Stocked, Known
<1>11. Current'
  BY <1>1, <1>4 DEF QInv, Current, Settled
<1>12. RevisionLinked'
  BY AbsentRevisions DEF QInv, ForgetDelete
<1> QED
  BY <1>6, <1>7, <1>8, <1>9, <1>10, <1>11, <1>12 DEF QInv

LEMMA DeleteSubjectQInv ==
  ASSUME TypeOK, IInv, QInv, NEW s \in Subject, DeleteSubject(s)
  PROVE  QInv'
<1> DEFINE R == {r \in Record : HomeOf[r] = s}
<1>1. UNCHANGED <<seq, acked, forget, wrote>> /\ gone' = gone \cup {r \in R : Known(r)}
  BY DEF DeleteSubject
<1>2. \A p \in Proposal : rows'[p] = IF SubjectOf[p] = s THEN NoRow ELSE rows[p]
  BY DEF DeleteSubject
<1>3. /\ \A q \in Record : IsStored(q)' <=> IsStored(q) /\ q \notin R
      /\ \A q \in Record \ R : mem'[q] = mem[q]
      /\ \A q \in R : mem'[q] = "absent"
  BY AbsentEffect DEF DeleteSubject
<1>4. \A p \in Proposal : \A r \in RecordsOf[p] :
        r \in Record /\ (r \in R <=> SubjectOf[p] = s) /\ (p \in acked => Known(r))
  BY RecordsAreRecords, RecordsAssumption DEF Known
<1> HIDE DEF R
<1>5. \A r \in Record : Known(r)' <=> Known(r)
  BY <1>1 DEF Known
<1>6. AckedNotLost'
  BY <1>1, <1>2, <1>3, <1>4 DEF QInv, AckedNotLost, Queued, TypeOK
<1>7. AllOrNothing'
  <2> SUFFICES ASSUME NEW p \in Proposal, NEW q \in RecordsOf[p], NEW r \in RecordsOf[p],
                      IsStored(q)', ~IsStored(r)'
               PROVE  r \in gone' \/ forget'[r] # "idle"
    BY DEF AllOrNothing
  <2>1. IsStored(q) /\ SubjectOf[p] # s /\ ~IsStored(r)
    BY <1>3, <1>4
  <2> QED
    BY <1>1, <2>1 DEF QInv, AllOrNothing
<1>8. ForgetNeverMisses'
  BY <1>1, <1>3 DEF QInv, ForgetNeverMisses, Content
<1>9. Content'
  <2>1. ASSUME NEW p \in Proposal
        PROVE  /\ Landed(p)' \/ rows'[p].status \in {"none", "done"} => ~rows'[p].payload
               /\ Unfinished(p)' => rows'[p].payload /\ rows'[p].records # {}
    BY <1>1, <1>2 DEF QInv, Content, Landed, Unfinished, NoRow
  <2>2. ASSUME NEW r \in Record, r \in gone' \/ forget'[r] # "idle" PROVE Known(r)'
    BY <1>1, <1>5, <2>2 DEF QInv, Content
  <2>3. ASSUME NEW r \in Record, r \in gone' \/ forget'[r] # "idle", NEW p \in Proposal
        PROVE  ~Queued(p, r)'
    <3>1. CASE r \in gone \/ forget[r] # "idle"
      BY <1>2, <3>1 DEF QInv, Content, Queued, NoRow
    <3>2. CASE r \in R /\ Known(r)
      <4>1. r \in rows[p].records => SubjectOf[p] = s
        BY <1>4, <3>2 DEF IInv, Grounded
      <4> QED
        BY <1>2, <4>1 DEF Queued, NoRow
    <3> QED
      BY <1>1, <2>3, <3>1, <3>2
  <2> QED
    BY <2>1, <2>2, <2>3 DEF Content
<1>10. Stocked'
  <2>1. \A r \in Stored : r \in Record /\ Known(r)
    BY ConstantsAssumption DEF Known
  <2>2. \A r \in wrote : r \in Record
    BY DEF TypeOK
  <2> QED
    BY <1>1, <1>3, <1>5, <2>1, <2>2 DEF QInv, Stocked
<1>11. \A q : Settled(q) => Settled(q)'
  BY <1>1, <1>2 DEF Settled, NoRow, TypeOK
<1>12. Current'
  BY <1>1, <1>3, <1>11 DEF QInv, Current
<1>13. RevisionLinked'
  BY AbsentRevisions DEF QInv, DeleteSubject
<1> QED
  BY <1>6, <1>7, <1>8, <1>9, <1>10, <1>12, <1>13 DEF QInv

-----------------------------------------------------------------------------
(* A transaction that completes a proposal: it finds every record of its   *)
(* attempt stored, or stores them all.                                     *)
LEMMA CompletedRow ==
  ASSUME TypeOK, NEW p \in Proposal, NEW s, Completed(p, s)
  PROVE  /\ rows'[p].status = s /\ rows'[p].payload = FALSE
         /\ rows'[p].records = rows[p].records /\ rows'[p].attempts = rows[p].attempts
         /\ \A q \in Proposal \ {p} : rows'[q] = rows[q]
<1>1. rows[p] \in Row
  BY DEF TypeOK
<1> DEFINE new == [rows[p] EXCEPT !.status = s, !.leased = FALSE, !.payload = FALSE]
<1>2. /\ new.status = s /\ new.payload = FALSE
      /\ new.records = rows[p].records /\ new.attempts = rows[p].attempts
  BY <1>1 DEF Row
<1>3. rows'[p] = new /\ \A q \in Proposal \ {p} : rows'[q] = rows[q]
  BY DEF Completed, TypeOK
<1> HIDE DEF new
<1> QED
  BY <1>2, <1>3

\* What a transaction that ran found, and what it did to the store.
Inserts(w, s) ==
  LET a == attempt[w] IN
  /\ a.step \in {"insert", "poison"}
  /\ Completed(a.job, s)
  /\ s \in {"done", "dead"} /\ (s = "dead" => a.step = "poison")
  /\ rows[a.job].status \notin {"none", "done"}
  /\ rows[a.job].records = a.records
  /\ \/ /\ \A r \in a.records : IsStored(r)
        /\ s = "done"
        /\ UNCHANGED <<mem, by, confirmed, wrote>>
     \/ /\ \A r \in a.records : ~IsStored(r)
        /\ a.records # {}
        /\ a.target # NoRecord => mem[a.target] = "committed"
        /\ \A r \in a.confirms : mem[r] = "held"
        /\ mem' = [r \in Record |->
             IF r \in a.records THEN a.outcome[r]
             ELSE IF r = a.target THEN "superseded"
             ELSE IF r \in a.confirms THEN "committed" ELSE mem[r]]
        /\ \E new \in a.records : by' = [r \in Record |-> IF r = a.target THEN new ELSE by[r]]
        /\ confirmed' = confirmed \cup a.confirms
        /\ wrote' = wrote \cup a.records

LEMMA InsertsWhole ==
  ASSUME TypeOK, Working, Carrying, NEW w \in Worker, NEW s \in {"done", "dead"},
         attempt[w].step \in {"insert", "poison"}, s = "dead" => attempt[w].step = "poison",
         (Repeats(w) /\ s = "done") \/ Writes(w, s)
  PROVE  Inserts(w, s)
<1>1. ~Skips(w) /\ ~Conflicts(w)
  BY DEF Repeats, Writes
<1>2. attempt[w].job \in Proposal /\ attempt[w].records \subseteq Record
      /\ rows[attempt[w].job].records \subseteq attempt[w].records
  BY HasJob DEF Carrying, Carried, Idle, TypeOK, Attempt
<1>3. rows[attempt[w].job].records = attempt[w].records
  BY <1>1, <1>2 DEF Conflicts
<1>4. CASE Repeats(w) /\ s = "done"
  <2>1. \A r \in attempt[w].records : IsStored(r)
    BY <1>1, <1>4 DEF Repeats, Conflicts, Seen
  <2>2. Completed(attempt[w].job, s) /\ UNCHANGED <<mem, by, confirmed, wrote>>
    BY <1>4 DEF Repeats, store
  <2> QED
    BY <1>1, <1>3, <1>4, <2>1, <2>2 DEF Inserts, Skips
<1>5. CASE Writes(w, s)
  <2>1. \A r \in attempt[w].records : ~IsStored(r)
    BY <1>5 DEF Writes, Seen
  <2>2. /\ attempt[w].target # NoRecord => mem[attempt[w].target] = "committed"
        /\ \A r \in attempt[w].confirms : mem[r] = "held"
    BY <1>1, <1>5 DEF Writes, Conflicts
  <2> QED
    BY <1>1, <1>3, <1>5, <2>1, <2>2 DEF Inserts, Writes, Skips
<1> QED
  BY <1>4, <1>5
(* Everything the proposal still carried is then stored, and nothing else  *)
(* comes or goes.                                                          *)
LEMMA InsertsStores ==
  ASSUME TypeOK, Working, Carrying, NEW w \in Worker, NEW s, Inserts(w, s)
  PROVE  /\ attempt[w].job \in acked /\ attempt[w].job \in Proposal
         /\ attempt[w].records \subseteq RecordsOf[attempt[w].job]
         /\ rows'[attempt[w].job].status = s /\ rows'[attempt[w].job].payload = FALSE
         /\ rows'[attempt[w].job].records = rows[attempt[w].job].records
         /\ rows'[attempt[w].job].attempts = rows[attempt[w].job].attempts
         /\ \A q \in Proposal \ {attempt[w].job} : rows'[q] = rows[q]
         /\ \A r \in Record : IsStored(r)' <=> IsStored(r) \/ r \in attempt[w].records
         /\ wrote' = wrote \/ wrote' = wrote \cup attempt[w].records
<1>0. attempt[w].step # "idle" /\ Completed(attempt[w].job, s)
  BY DEF Inserts
<1>1. attempt[w].job \in acked /\ attempt[w].job \in Proposal
      /\ attempt[w].records \subseteq RecordsOf[attempt[w].job]
  BY <1>0, HasJob DEF Working, Idle
<1>2. \A r \in attempt[w].records : attempt[w].outcome[r] # "absent"
  BY DEF Carrying, Carried, Idle, Inserts
<1>3. \A r \in Record : IsStored(r)' <=> IsStored(r) \/ r \in attempt[w].records
  BY <1>2, ConstantsAssumption DEF Inserts, IsStored
<1>4. wrote' = wrote \/ wrote' = wrote \cup attempt[w].records
  BY DEF Inserts
<1> QED
  BY <1>0, <1>1, <1>3, <1>4, CompletedRow

LEMMA InsertsSettled ==
  ASSUME TypeOK, NEW w \in Worker, NEW s, Inserts(w, s), attempt[w].job \in Proposal,
         acked' = acked
  PROVE  \A r : Settled(r) => Settled(r)'
<1>1. /\ rows[attempt[w].job].status \notin {"none", "done"}
      /\ \A q \in Proposal \ {attempt[w].job} : rows'[q] = rows[q]
  BY CompletedRow DEF Inserts
<1> QED
  BY <1>1 DEF Settled, TypeOK

LEMMA InsertsCurrent ==
  ASSUME TypeOK, IInv, QInv, Carrying, NEW w \in Worker, NEW s, Inserts(w, s),
         UNCHANGED <<seq, forget, acked, gone>>
  PROVE  Current'
<1> DEFINE a == attempt[w]
           p == a.job
<1>1. p \in Proposal /\ p \in acked /\ a.records \subseteq RecordsOf[p]
  BY InsertsStores DEF IInv
<1>2. \A r : Settled(r) => Settled(r)'
  BY <1>1, InsertsSettled
<1>3. ASSUME NEW r \in Record, mem'[r] \in {"committed", "held"} PROVE Settled(r)'
  <2>1. CASE mem[r] \in {"committed", "held"}
    BY <1>2, <2>1 DEF QInv, Current
  <2>2. CASE mem[r] \notin {"committed", "held"}
    <3>1. r \in a.records /\ a.outcome[r] \in {"committed", "held"}
      BY <1>3, <2>2 DEF Inserts
    <3>2. s = "done"
      BY <3>1 DEF Carrying, Carried, Idle, Inserts
    <3>3. rows'[p].status = "done"
      BY <3>2, InsertsStores DEF IInv
    <3> QED
      BY <1>1, <3>1, <3>3 DEF Settled
  <2> QED
    BY <2>1, <2>2
<1>4. \A q \in Proposal : seq'[q] # 0 /\ Revises[q] # NoRecord => Settled(Revises[q])'
  BY <1>2 DEF QInv, Current
<1> QED
  BY <1>3, <1>4 DEF Current

LEMMA InsertsRevisions ==
  ASSUME TypeOK, IInv, QInv, Carrying, NEW w \in Worker, NEW s, Inserts(w, s)
  PROVE  RevisionLinked'
<1> DEFINE a == attempt[w]
           p == a.job
<1>1. p \in Proposal /\ p \in acked /\ a.records \subseteq RecordsOf[p]
  BY InsertsStores DEF IInv
<1>2. CASE UNCHANGED <<mem, by, confirmed, wrote>>
  BY <1>2 DEF QInv, RevisionLinked
<1>3. CASE ~UNCHANGED <<mem, by, confirmed, wrote>>
  <2>1. /\ \A r \in a.records : mem[r] = "absent"
        /\ a.target # NoRecord => mem[a.target] = "committed"
        /\ \A r \in a.confirms : mem[r] = "held"
        /\ mem' = [r \in Record |->
             IF r \in a.records THEN a.outcome[r]
             ELSE IF r = a.target THEN "superseded"
             ELSE IF r \in a.confirms THEN "committed" ELSE mem[r]]
        /\ \E new \in a.records : by' = [r \in Record |-> IF r = a.target THEN new ELSE by[r]]
        /\ confirmed' = confirmed \cup a.confirms
    BY <1>3 DEF Inserts, IsStored
  <2> SUFFICES ASSUME NEW q \in Proposal, NEW r \in RecordsOf[q], r \notin confirmed',
                      Revises[q] # NoRecord, mem'[r] = "committed"
               PROVE  \/ mem'[Revises[q]] = "superseded" /\ by'[Revises[q]] = r
                      \/ mem'[Revises[q]] = "absent"
    BY DEF RevisionLinked
  <2> DEFINE old == Revises[q]
  <2>2. r \in Record /\ old \in Record
    BY ConstantsAssumption
  <2>3. CASE r \in a.records
    <3>1. q = p /\ RecordsOf[q] = {r} /\ old \notin RecordsOf[q]
      BY <1>1, <2>3, RecordsAssumption
    <3>2. a.records = {r}
      BY <1>1, <2>3, <3>1
    <3>3. a.target = old
      BY <2>1, <2>2, <2>3, <3>1 DEF Carrying, Carried, Idle, Inserts
    <3> QED
      BY <2>1, <2>2, <3>1, <3>2, <3>3
  <2>4. CASE r \notin a.records
    <3>1. mem[r] = "committed" /\ r \notin confirmed
      BY <2>1, <2>2, <2>4
    <3>2. \/ mem[old] = "superseded" /\ by[old] = r
          \/ mem[old] = "absent"
      BY <3>1 DEF QInv, RevisionLinked
    <3>3. old # a.target /\ old \notin a.confirms
      BY <2>1, <2>2, <3>2
    <3>4. old \notin a.records
      <4>1. q \in acked
        <5>1. IsStored(r)
          BY <3>1 DEF IsStored
        <5> QED
          BY <5>1, StockedAcked DEF QInv
      <4>2. Settled(old)
        BY <4>1 DEF QInv, Current, IInv, Numbered
      <4>3. rows[p].status \notin {"none", "done"}
        BY DEF Inserts
      <4> QED
        BY <1>1, <4>2, <4>3, RecordOfOne, RecordsAreRecords DEF Settled, TypeOK
    <3> QED
      BY <2>1, <2>2, <3>2, <3>3, <3>4
  <2> QED
    BY <2>3, <2>4
<1> QED
  BY <1>2, <1>3

LEMMA InsertsQInv ==
  ASSUME TypeOK, IInv, QInv, Carrying, NEW w \in Worker, NEW s, Inserts(w, s),
         UNCHANGED <<seq, forget, acked, gone>>
  PROVE  QInv'
<1> DEFINE a == attempt[w]
           p == a.job
<1>1. p \in Proposal /\ p \in acked /\ a.records \subseteq RecordsOf[p]
  BY InsertsStores DEF IInv
<1>2. /\ \A r \in Record : IsStored(r)' <=> IsStored(r) \/ r \in a.records
      /\ wrote' = wrote \/ wrote' = wrote \cup a.records
  BY InsertsStores DEF IInv
<1>3. /\ rows'[p].status = s /\ rows'[p].payload = FALSE
      /\ rows'[p].records = rows[p].records
      /\ \A q \in Proposal \ {p} : rows'[q] = rows[q]
  BY InsertsStores DEF IInv
<1>4. /\ rows[p].records = a.records /\ rows[p].status \notin {"none", "done"}
      /\ s \in {"done", "dead"}
  BY DEF Inserts
<1>5. \A q \in Proposal : RecordsOf[q] \subseteq Record
  BY RecordsAreRecords
<1>6. AckedNotLost'
  <2> SUFFICES ASSUME NEW q \in acked, NEW r \in RecordsOf[q]
               PROVE  IsStored(r)' \/ Queued(q, r)' \/ r \in gone' \/ forget'[r] = "queued"
    BY DEF AckedNotLost
  <2>1. q \in Proposal /\ r \in Record
    BY <1>5 DEF TypeOK
  <2>2. IsStored(r) \/ Queued(q, r) \/ r \in gone \/ forget[r] = "queued"
    BY DEF QInv, AckedNotLost
  <2>3. CASE Queued(q, r)
    BY <1>2, <1>3, <1>4, <2>1, <2>3 DEF Queued
  <2> QED
    BY <1>2, <2>1, <2>2, <2>3
<1>7. AllOrNothing'
  <2> SUFFICES ASSUME NEW q \in Proposal, NEW r \in RecordsOf[q], NEW t \in RecordsOf[q],
                      IsStored(r)', ~IsStored(t)'
               PROVE  t \in gone \/ forget[t] # "idle"
    BY DEF AllOrNothing
  <2>1. CASE IsStored(r)
    BY <1>2, <1>5, <2>1 DEF QInv, AllOrNothing
  <2>2. CASE r \in a.records
    <3>1. q = p
      BY <1>1, <2>2, RecordOfOne
    <3>2. ~IsStored(t) /\ ~Queued(p, t)
      BY <1>2, <1>4, <1>5 DEF Queued
    <3> QED
      BY <1>1, <3>1, <3>2 DEF QInv, AckedNotLost
  <2> QED
    BY <1>2, <1>5, <2>1, <2>2
<1>8. ForgetNeverMisses'
  BY <1>2 DEF QInv, ForgetNeverMisses
<1>9. \A r : Known(r)' <=> Known(r)
  BY DEF Known
<1>10. Content'
  <2>1. ASSUME NEW q \in Proposal
        PROVE  /\ Landed(q)' \/ rows'[q].status \in {"none", "done"} => ~rows'[q].payload
               /\ Unfinished(q)' => rows'[q].payload /\ rows'[q].records # {}
    <3>1. CASE q = p
      BY <1>3, <1>4, <3>1 DEF Unfinished
    <3>2. CASE q # p
      <4>1. Landed(q)' => Landed(q)
        BY <1>1, <1>2, <3>2, RecordOfOne DEF Landed
      <4> QED
        BY <1>3, <3>2, <4>1 DEF QInv, Content, Unfinished
    <3> QED
      BY <3>1, <3>2
  <2>2. \A q \in Proposal, r \in Record : Queued(q, r)' => Queued(q, r)
    BY <1>3 DEF Queued
  <2> QED
    BY <1>9, <2>1, <2>2 DEF QInv, Content
<1>11. Stocked'
  <2>1. \A r \in a.records : Known(r)
    BY <1>1 DEF Known
  <2>2. a.records \subseteq wrote'
    BY DEF QInv, Stocked, Inserts, TypeOK, Attempt
  <2> QED
    BY <1>2, <1>9, <2>1, <2>2, ConstantsAssumption DEF QInv, Stocked
<1> QED
  BY <1>6, <1>7, <1>8, <1>10, <1>11, InsertsCurrent, InsertsRevisions DEF QInv
-----------------------------------------------------------------------------
(* The attempts.                                                           *)

\* What a step of another worker, an erasure or the clock leaves of an attempt.
LEMMA CarriedKept ==
  ASSUME TypeOK, IInv, Carrying, Effects, NEW w \in Worker, attempt[w].step # "idle",
         attempt'[w] = attempt[w]
  PROVE  Carried(attempt[w])'
<1> DEFINE a == attempt[w]
           p == a.job
<1>1. p \in acked /\ p \in Proposal /\ Carried(a)
  BY HasJob DEF IInv, Carrying, Idle
<1>2. rows'[p].records \subseteq rows[p].records /\ (Unfinished(p)' => Unfinished(p))
  BY <1>1, ClaimableAcked DEF Effects, RowEffect, Claimed, IInv
<1> QED
  BY <1>1, <1>2 DEF Carried

LEMMA CarriedError ==
  ASSUME TypeOK, IInv, Carrying, Effects, NEW w \in Worker, attempt[w].step # "idle", Errs(w)
  PROVE  Carried(attempt[w])'
<1> DEFINE a == attempt[w]
           b == AfterError(w)
           p == a.job
<1>1. p \in acked /\ p \in Proposal /\ Carried(a) /\ a \in Attempt
  BY HasJob DEF IInv, Carrying, Idle, TypeOK
<1>2. rows'[p].records \subseteq rows[p].records
  BY <1>1, ClaimableAcked DEF Effects, RowEffect, Claimed, IInv
<1>3. /\ b.job = p /\ b.records = a.records /\ b.step \in {"retry", "poison"}
      /\ b.step = "poison" => \A r \in a.records : b.outcome[r] = "quarantined"
  BY <1>1 DEF AfterError, Attempt
<1>4. attempt'[w] = b
  BY DEF Errs, TypeOK
<1> HIDE DEF b
<1> QED
  BY <1>1, <1>2, <1>3, <1>4 DEF Carried

LEMMA CarriedOn ==
  ASSUME TypeOK, IInv, Carrying, Effects, NEW w \in Worker, attempt[w].step # "idle",
         \/ Goto(w, "bury")
         \/ /\ Goto(w, "finish")
            /\ rows'[attempt[w].job].status \notin {"pending", "running"}
  PROVE  Carried(attempt[w])'
<1> DEFINE a == attempt[w]
           p == a.job
<1>1. p \in acked /\ p \in Proposal /\ Carried(a) /\ a \in Attempt
  BY HasJob DEF IInv, Carrying, Idle, TypeOK
<1>2. rows'[p].records \subseteq rows[p].records
  BY <1>1, ClaimableAcked DEF Effects, RowEffect, Claimed, IInv
<1>3. PICK s \in {"bury", "finish"} :
        /\ attempt'[w] = [a EXCEPT !.step = s]
        /\ s = "finish" => rows'[p].status \notin {"pending", "running"}
  BY DEF Goto, TypeOK
<1> DEFINE b == [a EXCEPT !.step = s]
<1>4. b.job = p /\ b.records = a.records /\ b.step = s
  BY <1>1 DEF Attempt
<1> HIDE DEF b
<1> QED
  BY <1>1, <1>2, <1>3, <1>4 DEF Carried, Unfinished, b

LEMMA CarriedClaim ==
  ASSUME TypeOK, IInv, Carrying, NEW w \in Worker, NEW p \in Proposal, Claim(w, p)
  PROVE  Carried(attempt[w])'
<1> DEFINE b == [Idle EXCEPT !.step = "pipeline", !.job = p,
                             !.number = Bumped(rows[p].attempts), !.records = rows[p].records]
<1>1. attempt'[w] = b
  BY DEF Claim, TypeOK
<1>2. b.job = p /\ b.records = rows[p].records /\ b.step = "pipeline"
  BY DEF Idle
<1>3. rows'[p].records = rows[p].records
  <2>1. rows[p] \in Row
    BY DEF TypeOK
  <2> DEFINE new == [rows[p] EXCEPT !.status = "running", !.leased = TRUE, !.attempts = Bumped(@)]
  <2>2. new.records = rows[p].records
    BY <2>1 DEF Row
  <2>3. rows'[p] = new
    BY DEF Claim, TypeOK
  <2> HIDE DEF new
  <2> QED
    BY <2>2, <2>3
<1> HIDE DEF b
<1> QED
  BY <1>1, <1>2, <1>3 DEF Carried

LEMMA CarriedRun ==
  ASSUME TypeOK, IInv, Carrying, NEW w \in Worker, RunPipeline(w)
  PROVE  Carried(attempt[w])'
<1> DEFINE a == attempt[w]
           p == a.job
<1>1. p \in acked /\ p \in Proposal /\ Carried(a) /\ a \in Attempt
  BY HasJob DEF IInv, Carrying, Idle, TypeOK, RunPipeline
<1>2. PICK v \in [a.records -> Verdicts(p)], target \in Record \cup {NoRecord},
           confirms \in SUBSET In(SubjectOf[p], "held") :
        /\ \A r \in a.records : Resolved(p, v[r], target, confirms)
        /\ attempt' = [attempt EXCEPT
            ![w].step = "insert", ![w].target = target, ![w].confirms = confirms,
            ![w].outcome = [r \in Record |-> IF r \in a.records THEN v[r] ELSE "absent"]]
  BY DEF RunPipeline
<1> DEFINE o == [r \in Record |-> IF r \in a.records THEN v[r] ELSE "absent"]
           b == [a EXCEPT !.step = "insert", !.target = target, !.confirms = confirms,
                          !.outcome = o]
<1>3. attempt'[w] = b
  BY <1>2 DEF TypeOK
<1>4. \A r \in a.records : o[r] = v[r]
  BY <1>1 DEF Attempt
<1> HIDE DEF o
<1>5. b.job = p /\ b.records = a.records /\ b.step = "insert" /\ b.target = target /\ b.outcome = o
  BY <1>1 DEF Attempt
<1> HIDE DEF b
<1>6. \A r \in a.records : v[r] # "absent"
  <2>1. "absent" \notin Verdicts(p)
    BY ConstantsAssumption DEF Verdicts
  <2> QED
    BY <1>2, <2>1
<1>7. \A r \in a.records : v[r] = "committed" /\ Revises[p] # NoRecord => target = Revises[p]
  BY <1>1, <1>2, RecordsAssumption DEF Resolved
<1>8. rows' = rows
  BY DEF RunPipeline
<1> QED
  BY <1>1, <1>3, <1>4, <1>5, <1>6, <1>7, <1>8 DEF Carried
\* A row counts no claim, and waits for none it did not wait for.
RowCounted(p) ==
  \/ rows'[p].status = "none"
  \/ /\ rows'[p].attempts = rows[p].attempts
     /\ rows[p].status # "none"
     /\ rows'[p].status = "pending" => rows[p].status = "pending"
  \/ \A w \in Worker : attempt[w].job # p

AttemptCounted(w) ==
  \/ attempt'[w] = Idle
  \/ /\ attempt[w].step # "idle"
     /\ attempt'[w].job = attempt[w].job /\ attempt'[w].number = attempt[w].number

LEMMA CountedKept ==
  ASSUME TypeOK, IInv, Counted,
         \A p \in Proposal : RowCounted(p), \A w \in Worker : AttemptCounted(w)
  PROVE  Counted'
<1> SUFFICES ASSUME NEW v \in Worker, attempt'[v].step # "idle"
             PROVE  LET a == attempt'[v]  row == rows'[a.job] IN
                    /\ row.status # "none" => a.number <= row.attempts
                    /\ a.number < AttemptCap =>
                         /\ a.number > 0
                         /\ row.status = "pending" => a.number < row.attempts
                         /\ \A w \in Worker :
                              attempt'[w].job = a.job /\ attempt'[w].number = a.number => v = w
  BY DEF Counted
<1> DEFINE a == attempt[v]
           p == a.job
<1>1. a.step # "idle" /\ attempt'[v].job = p /\ attempt'[v].number = a.number
  BY DEF AttemptCounted, Idle
<1>2. p \in Proposal
  BY <1>1, HasJob DEF IInv
<1>3. /\ rows[p].status # "none" => a.number <= rows[p].attempts
      /\ a.number < AttemptCap =>
           /\ a.number > 0
           /\ rows[p].status = "pending" => a.number < rows[p].attempts
           /\ \A w \in Worker : attempt[w].job = p /\ attempt[w].number = a.number => v = w
  BY <1>1 DEF Counted
<1>4. RowCounted(p)
  BY <1>2
<1>5. rows'[p].status # "none" =>
        /\ rows'[p].attempts = rows[p].attempts
        /\ rows[p].status # "none"
        /\ rows'[p].status = "pending" => rows[p].status = "pending"
  BY <1>4 DEF RowCounted
<1>6. ASSUME NEW w \in Worker, attempt'[w].job = p, attempt'[w].number = a.number,
             a.number < AttemptCap
      PROVE  v = w
  <2>1. Idle.job # p
    BY <1>2, ConstantsAssumption DEF Idle
  <2>2. attempt[w].job = p /\ attempt[w].number = a.number
    BY <1>6, <2>1 DEF AttemptCounted
  <2> QED
    BY <1>3, <1>6, <2>2
<1> QED
  BY <1>1, <1>3, <1>5, <1>6

LEMMA CountedClaim ==
  ASSUME TypeOK, IInv, Carrying, Counted, NEW u \in Worker, NEW p \in Proposal, Claim(u, p)
  PROVE  Counted'
<1> DEFINE n == Bumped(rows[p].attempts)
           b == [Idle EXCEPT !.step = "pipeline", !.job = p, !.number = n,
                             !.records = rows[p].records]
<1>1. rows[p] \in Row /\ rows[p].attempts \in 0..AttemptCap /\ AttemptCap \in Nat
  BY ConstantsAssumption DEF TypeOK, Row
<1>2. n \in 0..AttemptCap /\ rows[p].attempts <= n
      /\ (n < AttemptCap => n = rows[p].attempts + 1)
  BY <1>1 DEF Bumped
<1> HIDE DEF n
<1>3. attempt'[u] = b /\ \A w \in Worker \ {u} : attempt'[w] = attempt[w]
  BY DEF Claim, TypeOK, n
<1>4. b.job = p /\ b.number = n /\ b.step = "pipeline"
  BY DEF Idle
<1> HIDE DEF b
<1>5. /\ rows'[p].status = "running" /\ rows'[p].attempts = n
      /\ \A q \in Proposal \ {p} : rows'[q] = rows[q]
  <2> DEFINE new == [rows[p] EXCEPT !.status = "running", !.leased = TRUE, !.attempts = Bumped(@)]
  <2>1. new.status = "running" /\ new.attempts = n
    BY <1>1 DEF Row, n
  <2>2. rows'[p] = new /\ \A q \in Proposal \ {p} : rows'[q] = rows[q]
    BY DEF Claim, TypeOK
  <2> HIDE DEF new
  <2> QED
    BY <2>1, <2>2
<1>6. attempt[u].step = "idle" /\ rows[p].status # "none"
  BY DEF Claim, Claimable
<1>7. ASSUME NEW w \in Worker, w # u, attempt[w].job = p
      PROVE  attempt[w].number <= rows[p].attempts /\ attempt[w].number \in 0..AttemptCap
  <2>1. attempt[w].step # "idle"
    BY <1>7, ConstantsAssumption DEF Carrying, Carried, Idle
  <2> QED
    BY <1>6, <1>7, <2>1 DEF Counted, TypeOK, Attempt
<1> SUFFICES ASSUME NEW v \in Worker, attempt'[v].step # "idle"
             PROVE  LET a == attempt'[v]  row == rows'[a.job] IN
                    /\ row.status # "none" => a.number <= row.attempts
                    /\ a.number < AttemptCap =>
                         /\ a.number > 0
                         /\ row.status = "pending" => a.number < row.attempts
                         /\ \A w \in Worker :
                              attempt'[w].job = a.job /\ attempt'[w].number = a.number => v = w
  BY DEF Counted
<1>8. CASE v = u
  <2>1. \A w \in Worker \ {u} : attempt'[w].job = p /\ attempt'[w].number = n => ~(n < AttemptCap)
    BY <1>1, <1>2, <1>3, <1>7
  <2> QED
    BY <1>1, <1>2, <1>3, <1>4, <1>5, <1>8, <2>1
<1>9. CASE v # u /\ attempt[v].job = p
  <2>1. attempt'[v] = attempt[v] /\ attempt[v].step # "idle"
    BY <1>3, <1>9
  <2>2. /\ attempt[v].number < AttemptCap =>
             /\ attempt[v].number > 0
             /\ \A w \in Worker :
                  attempt[w].job = p /\ attempt[w].number = attempt[v].number => v = w
    BY <1>9, <2>1 DEF Counted
  <2>3. attempt[v].number <= rows[p].attempts /\ attempt[v].number \in 0..AttemptCap
    BY <1>7, <1>9
  <2>4. attempt[v].number < AttemptCap => n # attempt[v].number
    BY <1>1, <1>2, <2>3
  <2> QED
    BY <1>1, <1>2, <1>3, <1>4, <1>5, <1>9, <2>1, <2>2, <2>3, <2>4
<1>10. CASE v # u /\ attempt[v].job # p
  <2>1. attempt'[v] = attempt[v] /\ attempt[v].step # "idle"
    BY <1>3, <1>10
  <2>2. attempt[v].job \in Proposal
    BY <2>1, HasJob DEF IInv
  <2> QED
    BY <1>3, <1>4, <1>5, <1>10, <2>1, <2>2 DEF Counted
<1> QED
  BY <1>8, <1>9, <1>10

(* A row is only given back by the one attempt that has its number.        *)
LEMMA CountedRetry ==
  ASSUME TypeOK, IInv, Carrying, Counted, NEW u \in Worker, Retry(u)
  PROVE  Counted'
<1> DEFINE p == attempt[u].job
           new == [rows[p] EXCEPT !.status = "pending", !.leased = FALSE, !.due = FALSE]
<1>1. p \in Proposal /\ attempt[u].step # "idle" /\ rows[p] \in Row
  BY HasJob DEF Retry, Fail, IInv, TypeOK
<1>2. attempt'[u] = Idle /\ \A w \in Worker \ {u} : attempt'[w] = attempt[w]
  BY DEF Retry, Fail, Ends, TypeOK
<1>4. \A w \in Worker : AttemptCounted(w)
  BY <1>2 DEF AttemptCounted, Carrying, Carried
<1>5. CASE ~HoldsClaim(u)
  <2>1. rows' = rows
    BY <1>5 DEF Retry, Fail
  <2>2. \A q \in Proposal : RowCounted(q)
    BY <2>1 DEF RowCounted
  <2> QED
    BY <1>4, <2>2, CountedKept
<1>6. CASE HoldsClaim(u)
  <2>1. new.status = "pending" /\ new.attempts = rows[p].attempts
    BY <1>1 DEF Row
  <2>2. rows'[p] = new /\ \A q \in Proposal \ {p} : rows'[q] = rows[q]
    BY <1>1, <1>6 DEF Retry, Fail, TypeOK
  <2> HIDE DEF new
  <2>3. rows[p].attempts = attempt[u].number /\ rows[p].status # "none"
    BY <1>6 DEF HoldsClaim, Unfinished
  <2> SUFFICES ASSUME NEW v \in Worker, attempt'[v].step # "idle"
               PROVE  LET a == attempt'[v]  row == rows'[a.job] IN
                      /\ row.status # "none" => a.number <= row.attempts
                      /\ a.number < AttemptCap =>
                           /\ a.number > 0
                           /\ row.status = "pending" => a.number < row.attempts
                           /\ \A w \in Worker :
                                attempt'[w].job = a.job /\ attempt'[w].number = a.number => v = w
    BY DEF Counted
  <2>4. v # u /\ attempt'[v] = attempt[v] /\ attempt[v].step # "idle"
    BY <1>2 DEF Idle
  <2>5. attempt[v].job \in Proposal /\ attempt[v].number \in Nat /\ attempt[u].number \in Nat
    BY <2>4, HasJob DEF IInv, TypeOK, Attempt
  <2>6. /\ rows[attempt[v].job].status # "none" =>
             attempt[v].number <= rows[attempt[v].job].attempts
        /\ attempt[v].number < AttemptCap =>
             /\ attempt[v].number > 0
             /\ rows[attempt[v].job].status = "pending" =>
                  attempt[v].number < rows[attempt[v].job].attempts
             /\ \A w \in Worker :
                  attempt[w].job = attempt[v].job /\ attempt[w].number = attempt[v].number => v = w
    BY <2>4 DEF Counted
  <2>7. \A w \in Worker : attempt'[w].job = attempt[v].job => attempt[w] = attempt'[w]
    BY <1>2, <2>5, ConstantsAssumption DEF Idle
  <2>8. CASE attempt[v].job = p
    <3>1. attempt[v].number < AttemptCap => attempt[v].number < rows[p].attempts
      BY <2>3, <2>4, <2>5, <2>6, <2>8
    <3> QED
      BY <2>1, <2>2, <2>3, <2>4, <2>6, <2>7, <2>8, <3>1
  <2>9. CASE attempt[v].job # p
    BY <2>2, <2>4, <2>5, <2>6, <2>7, <2>9
  <2> QED
    BY <2>8, <2>9
<1> QED
  BY <1>5, <1>6
-----------------------------------------------------------------------------
(* Every step keeps both.                                                  *)

\* Steps that change one attempt, and rows only in what is not counted.
LEMMA QuietStep ==
  ASSUME TypeOK, IInv, QInv, AInv, Effects,
         UNCHANGED <<seq, mem, by, confirmed, forget, acked, wrote, gone>>,
         \A p \in Proposal : RowKept(p) /\ RowCounted(p),
         NEW u \in Worker, \A w \in Worker \ {u} : attempt'[w] = attempt[w],
         attempt'[u] \in {attempt[u], Idle} \/ (Carried(attempt[u])' /\ AttemptCounted(u))
  PROVE  QInv' /\ AInv'
<1>1. QInv'
  BY RowsKeptQInv
<1>2. ASSUME NEW w \in Worker PROVE attempt'[w] = Idle \/ Carried(attempt[w])'
  BY CarriedKept DEF AInv, Carrying, Carried
<1>3. \A w \in Worker : AttemptCounted(w)
  BY DEF AInv, Carrying, Carried, AttemptCounted
<1> QED
  BY <1>1, <1>2, <1>3, CountedKept DEF AInv, Carrying

\* Steps of no attempt.
LEMMA AsideStep ==
  ASSUME TypeOK, IInv, AInv, Effects, attempt' = attempt, \A p \in Proposal : RowCounted(p)
  PROVE  AInv'
<1>1. ASSUME NEW w \in Worker PROVE attempt'[w] = Idle \/ Carried(attempt[w])'
  BY CarriedKept DEF AInv, Carrying, Carried
<1>2. \A w \in Worker : AttemptCounted(w)
  BY DEF AInv, Carrying, Carried, AttemptCounted
<1> QED
  BY <1>1, <1>2, CountedKept DEF AInv, Carrying

LEMMA SameRows ==
  ASSUME rows' = rows
  PROVE  \A p \in Proposal : RowKept(p) /\ RowCounted(p)
  BY DEF RowKept, RowCounted, Unfinished

LEMMA ErrsCounted ==
  ASSUME TypeOK, NEW w \in Worker, attempt[w].step # "idle",
         Errs(w) \/ \E s \in Step : Goto(w, s)
  PROVE  AttemptCounted(w) /\ \A v \in Worker \ {w} : attempt'[v] = attempt[v]
<1>1. attempt[w] \in Attempt
  BY DEF TypeOK
<1>2. CASE Errs(w)
  <2>1. AfterError(w).job = attempt[w].job /\ AfterError(w).number = attempt[w].number
    BY <1>1 DEF AfterError, Attempt
  <2> QED
    BY <1>2, <2>1 DEF Errs, TypeOK, AttemptCounted
<1>3. CASE \E s \in Step : Goto(w, s)
  <2>1. PICK s \in Step : Goto(w, s)
    BY <1>3
  <2>2. /\ [attempt[w] EXCEPT !.step = s].job = attempt[w].job
        /\ [attempt[w] EXCEPT !.step = s].number = attempt[w].number
    BY <1>1 DEF Attempt
  <2> QED
    BY <2>1, <2>2 DEF Goto, TypeOK, AttemptCounted
<1> QED
  BY <1>2, <1>3

LEMMA EndsCounted ==
  ASSUME TypeOK, NEW w \in Worker, Ends(w)
  PROVE  attempt'[w] = Idle /\ \A v \in Worker \ {w} : attempt'[v] = attempt[v]
  BY DEF Ends, TypeOK

LEMMA RunCounted ==
  ASSUME TypeOK, NEW w \in Worker, RunPipeline(w)
  PROVE  AttemptCounted(w) /\ \A v \in Worker \ {w} : attempt'[v] = attempt[v]
<1>1. attempt[w] \in Attempt /\ attempt[w].step # "idle"
  BY DEF TypeOK, RunPipeline
<1>2. PICK o, target, confirms :
        attempt' = [attempt EXCEPT ![w].step = "insert", ![w].target = target,
                                   ![w].confirms = confirms, ![w].outcome = o]
  BY DEF RunPipeline
<1>3. LET new == [attempt[w] EXCEPT !.step = "insert", !.target = target,
                                    !.confirms = confirms, !.outcome = o] IN
      new.job = attempt[w].job /\ new.number = attempt[w].number
  BY <1>1 DEF Attempt
<1> QED
  BY <1>1, <1>2, <1>3 DEF TypeOK, AttemptCounted

\* An attempt's transaction, whatever it goes on to.
LEMMA TransactionStep ==
  ASSUME TypeOK, IInv, QInv, AInv, Effects, NEW w \in Worker,
         ApplyIntake(w) \/ QuarantinePoison(w)
  PROVE  QInv' /\ AInv'
<1> DEFINE p == attempt[w].job
<1>1. p \in Proposal /\ p \in acked /\ attempt[w].step \in {"insert", "poison"}
  BY HasJob DEF ApplyIntake, QuarantinePoison, IInv
<1>2. UNCHANGED <<seq, forget, acked, gone>>
  BY DEF ApplyIntake, QuarantinePoison
<1>3. Errs(w) \/ Ends(w) \/ \E s \in Step : Goto(w, s)
  BY DEF ApplyIntake, QuarantinePoison, Step
<1>4. /\ attempt'[w] = Idle \/ AttemptCounted(w)
      /\ \A v \in Worker \ {w} : attempt'[v] = attempt[v]
  BY <1>1, <1>3, ErrsCounted, EndsCounted
<1>5. CASE \E s : Inserts(w, s)
  <2>1. PICK s : Inserts(w, s)
    BY <1>5
  <2>2. /\ rows'[p].status = s /\ s \in {"done", "dead"}
        /\ rows'[p].attempts = rows[p].attempts /\ rows[p].status # "none"
        /\ \A q \in Proposal \ {p} : rows'[q] = rows[q]
    <3>1. s \in {"done", "dead"} /\ rows[p].status # "none"
      BY <2>1 DEF Inserts
    <3> QED
      BY <2>1, <3>1, InsertsStores DEF IInv, AInv
  <2>3. \A q \in Proposal : RowCounted(q)
    BY <2>2 DEF RowCounted
  <2>4. \A v \in Worker : AttemptCounted(v)
    BY <1>4 DEF AInv, Carrying, Carried, AttemptCounted
  <2>5. Counted'
    BY <2>3, <2>4, CountedKept DEF AInv
  <2>6. rows'[p].status \notin {"pending", "running"}
    BY <2>2
  <2>7. attempt'[w] = Idle \/ Carried(attempt[w])'
    <3>1. CASE Errs(w)
      BY <1>1, <3>1, CarriedError DEF AInv
    <3>2. CASE Ends(w)
      BY <3>2, EndsCounted
    <3>3. CASE Goto(w, "finish") \/ Goto(w, "bury")
      BY <1>1, <2>6, <3>3, CarriedOn DEF AInv
    <3> QED
      BY <3>1, <3>2, <3>3 DEF ApplyIntake, QuarantinePoison
  <2>8. Carrying'
    BY <1>4, <2>7, CarriedKept DEF AInv, Carrying, Carried
  <2> QED
    BY <1>2, <2>1, <2>5, <2>8, InsertsQInv DEF AInv
<1>6. CASE UNCHANGED <<rows, store, wrote>>
  <2>1. attempt'[w] = Idle \/ Carried(attempt[w])'
    <3>1. CASE Errs(w)
      BY <1>1, <3>1, CarriedError DEF AInv
    <3>2. CASE Ends(w)
      BY <3>2, EndsCounted
    <3>3. CASE Goto(w, "bury")
      BY <1>1, <3>3, CarriedOn DEF AInv
    <3>4. CASE Goto(w, "finish") /\ Skips(w)
      <4>1. rows'[p].status \notin {"pending", "running"}
        BY <1>6, <3>4 DEF Skips
      <4> QED
        BY <1>1, <3>4, <4>1, CarriedOn DEF AInv
    <3>5. CASE \E s \in {"done", "dead"} : (Repeats(w) /\ s = "done") \/ Writes(w, s)
      <4>1. \E s \in {"done", "dead"} : Completed(p, s) /\ ~Skips(w)
        BY <3>5 DEF Repeats, Writes
      <4>2. \E s \in {"done", "dead"} : rows'[p].status = s
        BY <1>1, <4>1, CompletedRow
      <4>3. rows'[p].status \notin {"pending", "running"}
        BY <4>2
      <4>4. Goto(w, "finish") \/ Goto(w, "bury") \/ Errs(w) \/ Ends(w)
        BY DEF ApplyIntake, QuarantinePoison
      <4> QED
        BY <1>1, <3>1, <3>2, <4>3, <4>4, CarriedOn DEF AInv
    <3> QED
      BY <3>1, <3>2, <3>3, <3>4, <3>5 DEF ApplyIntake, QuarantinePoison
  <2>2. \A q \in Proposal : RowKept(q) /\ RowCounted(q)
    BY <1>6, SameRows
  <2>3. attempt'[w] \in {attempt[w], Idle} \/ (Carried(attempt[w])' /\ AttemptCounted(w))
    BY <1>4, <2>1
  <2>4. UNCHANGED <<seq, mem, by, confirmed, forget, acked, wrote, gone>>
    BY <1>2, <1>6 DEF store
  <2> QED
    BY <1>4, <2>2, <2>3, <2>4, QuietStep
<1>7. (\E s : Inserts(w, s)) \/ UNCHANGED <<rows, store, wrote>>
  <2>1. CASE ApplyIntake(w)
    BY <1>1, <2>1, InsertsWhole DEF ApplyIntake, IInv, AInv
  <2>2. CASE QuarantinePoison(w)
    BY <1>1, <2>2, InsertsWhole DEF QuarantinePoison, IInv, AInv
  <2> QED
    BY <2>1, <2>2
<1> QED
  BY <1>5, <1>6, <1>7
\* A row that is only given back, set aside, or looked at again.
LEMMA FailQuiet ==
  ASSUME TypeOK, NEW w \in Worker, attempt[w].job \in Proposal, Bury(w)
  PROVE  \A q \in Proposal : RowKept(q) /\ RowCounted(q)
<1> DEFINE p == attempt[w].job
           new == [rows[p] EXCEPT !.status = "dead", !.leased = FALSE, !.due = FALSE]
<1>1. rows[p] \in Row
  BY DEF TypeOK
<1>2. /\ new.status = "dead" /\ new.records = rows[p].records
      /\ new.payload = rows[p].payload /\ new.attempts = rows[p].attempts
  BY <1>1 DEF Row
<1>3. CASE HoldsClaim(w)
  <2>1. rows'[p] = new /\ \A q \in Proposal \ {p} : rows'[q] = rows[q]
    BY <1>3 DEF Bury, Fail, TypeOK
  <2>2. rows[p].status \in {"pending", "running"}
    BY <1>3 DEF HoldsClaim, Unfinished
  <2> HIDE DEF new
  <2> QED
    BY <1>2, <2>1, <2>2 DEF RowKept, RowCounted, Unfinished
<1>4. CASE ~HoldsClaim(w)
  BY <1>4, SameRows DEF Bury, Fail
<1> QED
  BY <1>3, <1>4

LEMMA RetryKept ==
  ASSUME TypeOK, NEW w \in Worker, attempt[w].job \in Proposal, Retry(w)
  PROVE  \A q \in Proposal : RowKept(q)
<1> DEFINE p == attempt[w].job
           new == [rows[p] EXCEPT !.status = "pending", !.leased = FALSE, !.due = FALSE]
<1>1. rows[p] \in Row
  BY DEF TypeOK
<1>2. /\ new.status = "pending" /\ new.records = rows[p].records
      /\ new.payload = rows[p].payload /\ new.attempts = rows[p].attempts
  BY <1>1 DEF Row
<1>3. CASE HoldsClaim(w)
  <2>1. rows'[p] = new /\ \A q \in Proposal \ {p} : rows'[q] = rows[q]
    BY <1>3 DEF Retry, Fail, TypeOK
  <2>2. rows[p].status \in {"pending", "running"}
    BY <1>3 DEF HoldsClaim, Unfinished
  <2> HIDE DEF new
  <2> QED
    BY <1>2, <2>1, <2>2 DEF RowKept, Unfinished
<1>4. CASE ~HoldsClaim(w)
  BY <1>4, SameRows DEF Retry, Fail
<1> QED
  BY <1>3, <1>4

LEMMA ClaimKept ==
  ASSUME TypeOK, NEW w \in Worker, NEW p \in Proposal, Claim(w, p)
  PROVE  \A q \in Proposal : RowKept(q)
<1> DEFINE new == [rows[p] EXCEPT !.status = "running", !.leased = TRUE, !.attempts = Bumped(@)]
<1>1. rows[p] \in Row
  BY DEF TypeOK
<1>2. new.status = "running" /\ new.records = rows[p].records /\ new.payload = rows[p].payload
  BY <1>1 DEF Row
<1>3. rows'[p] = new /\ \A q \in Proposal \ {p} : rows'[q] = rows[q]
  BY DEF Claim, TypeOK
<1>4. rows[p].status \in {"pending", "running"}
  BY DEF Claim, Claimable
<1> HIDE DEF new
<1> QED
  BY <1>2, <1>3, <1>4 DEF RowKept, Unfinished

LEMMA ClockKept ==
  ASSUME TypeOK, NEW p \in Proposal, LeaseExpires(p) \/ BackoffEnds(p)
  PROVE  \A q \in Proposal : RowKept(q) /\ RowCounted(q)
<1>1. rows[p] \in Row /\ rows[p].status # "none"
  BY DEF TypeOK, LeaseExpires, BackoffEnds
<1>2. \A new \in {[rows[p] EXCEPT !.leased = FALSE], [rows[p] EXCEPT !.due = TRUE]} :
        /\ new.status = rows[p].status /\ new.records = rows[p].records
        /\ new.attempts = rows[p].attempts /\ new.payload = rows[p].payload
  BY <1>1 DEF Row
<1>3. /\ rows'[p] \in {[rows[p] EXCEPT !.leased = FALSE], [rows[p] EXCEPT !.due = TRUE]}
      /\ \A q \in Proposal \ {p} : rows'[q] = rows[q]
  BY DEF LeaseExpires, BackoffEnds, TypeOK
<1>4. /\ rows'[p].status = rows[p].status /\ rows'[p].records = rows[p].records
      /\ rows'[p].attempts = rows[p].attempts /\ rows'[p].payload = rows[p].payload
  BY <1>2, <1>3
<1> QED
  BY <1>1, <1>3, <1>4 DEF RowKept, RowCounted, Unfinished

LEMMA DiscardCounted ==
  ASSUME TypeOK, NEW r \in Record, ForgetDiscard(r)
  PROVE  \A p \in Proposal : RowCounted(p)
<1> SUFFICES ASSUME NEW p \in Proposal PROVE RowCounted(p)
  OBVIOUS
<1> DEFINE new == [rows[p] EXCEPT !.records = @ \ {r}]
<1>1. rows[p] \in Row
  BY DEF TypeOK
<1>2. new.status = rows[p].status /\ new.attempts = rows[p].attempts
  BY <1>1 DEF Row
<1>3. rows'[p] = rows[p] \/ rows'[p] = NoRow \/ rows'[p] = new
  BY DEF ForgetDiscard
<1> HIDE DEF new
<1> QED
  BY <1>2, <1>3 DEF RowCounted, NoRow

LEMMA QInvStep == TypeOK /\ IInv /\ QInv /\ AInv /\ [Next]_vars => QInv' /\ AInv'
<1> SUFFICES ASSUME TypeOK, IInv, QInv, AInv, [Next]_vars PROVE QInv' /\ AInv'
  OBVIOUS
<1>0. Effects
  BY NextEffects DEF IInv
<1> USE <1>0
<1>1. ASSUME NEW p \in Proposal, EnqueueBegin(p) PROVE QInv' /\ AInv'
  BY <1>1, EnqueueBeginQInv, AsideStep, SameRows DEF EnqueueBegin
<1>2. ASSUME NEW p \in Proposal, EnqueueCommit(p) PROVE QInv' /\ AInv'
  <2>1. \A q \in Proposal \ {p} : rows'[q] = rows[q]
    BY <1>2 DEF EnqueueCommit, TypeOK
  <2>2. \A w \in Worker : attempt[w].job # p
    BY <1>2, ConstantsAssumption DEF EnqueueCommit, IInv, Working, Idle
  <2>3. \A q \in Proposal : RowCounted(q)
    BY <2>1, <2>2 DEF RowCounted
  <2> QED
    BY <1>2, <2>3, EnqueueCommitQInv, AsideStep DEF EnqueueCommit
<1>3. ASSUME NEW p \in Proposal, LeaseExpires(p) \/ BackoffEnds(p) PROVE QInv' /\ AInv'
  <2>1. UNCHANGED <<seq, mem, by, confirmed, forget, acked, wrote, gone, attempt>>
    BY <1>3 DEF LeaseExpires, BackoffEnds, store, history
  <2> QED
    BY <1>3, <2>1, ClockKept, RowsKeptQInv, AsideStep
<1>4. ASSUME NEW p \in Proposal, Prune(p) PROVE QInv' /\ AInv'
  <2>1. \A q \in Proposal : RowCounted(q)
    BY <1>4 DEF Prune, RowCounted, NoRow, TypeOK
  <2> QED
    BY <1>4, <2>1, PruneQInv, AsideStep DEF Prune
<1>5. ASSUME NEW w \in Worker, NEW p \in Proposal, Claim(w, p) PROVE QInv' /\ AInv'
  <2>1. UNCHANGED <<seq, mem, by, confirmed, forget, acked, wrote, gone>>
    BY <1>5 DEF Claim, store, history
  <2>2. QInv'
    BY <1>5, <2>1, ClaimKept, RowsKeptQInv
  <2>3. \A v \in Worker \ {w} : attempt'[v] = attempt[v]
    BY <1>5 DEF Claim, TypeOK
  <2>4. Carrying'
    BY <1>5, <2>3, CarriedKept, CarriedClaim DEF AInv, Carrying, Carried
  <2> QED
    BY <1>5, <2>2, <2>4, CountedClaim DEF AInv
<1>6. ASSUME NEW w \in Worker, RunPipeline(w) PROVE QInv' /\ AInv'
  <2>1. UNCHANGED <<rows, seq, mem, by, confirmed, forget, acked, wrote, gone>>
    BY <1>6 DEF RunPipeline, store, history
  <2>2. Carried(attempt[w])'
    BY <1>6, CarriedRun DEF AInv
  <2> QED
    BY <1>6, <2>1, <2>2, RunCounted, SameRows, QuietStep
<1>7. ASSUME NEW w \in Worker, PipelineFails(w) PROVE QInv' /\ AInv'
  <2>1. UNCHANGED <<rows, seq, mem, by, confirmed, forget, acked, wrote, gone>>
    BY <1>7 DEF PipelineFails, store, history
  <2>2. Errs(w) /\ attempt[w].step # "idle"
    BY <1>7 DEF PipelineFails
  <2>3. Carried(attempt[w])'
    BY <2>2, CarriedError DEF AInv
  <2> QED
    BY <2>1, <2>2, <2>3, ErrsCounted, SameRows, QuietStep
<1>8. ASSUME NEW w \in Worker, Dies(w) \/ Crash(w) \/ Finish(w) \/ Bury(w)
      PROVE  QInv' /\ AInv'
  <2>1. UNCHANGED <<seq, mem, by, confirmed, forget, acked, wrote, gone>> /\ Ends(w)
    BY <1>8 DEF Dies, Crash, Finish, Bury, Fail, store, history
  <2>2. attempt[w].step # "idle" /\ attempt[w].job \in Proposal
    BY <1>8, HasJob DEF Dies, Crash, Finish, Bury, Fail, IInv
  <2>3. Finish(w) => ~Unfinished(attempt[w].job)
    BY <2>2 DEF Finish, AInv, Carrying, Carried, Idle
  <2>4. \A q \in Proposal : RowKept(q) /\ RowCounted(q)
    <3>1. CASE Dies(w) \/ Crash(w) \/ Finish(w)
      BY <2>3, <3>1, SameRows DEF Dies, Crash, Finish
    <3>2. CASE Bury(w)
      BY <2>2, <3>2, FailQuiet
    <3> QED
      BY <1>8, <3>1, <3>2
  <2> QED
    BY <2>1, <2>4, EndsCounted, QuietStep
<1>9. ASSUME NEW w \in Worker, Retry(w) PROVE QInv' /\ AInv'
  <2>1. UNCHANGED <<seq, mem, by, confirmed, forget, acked, wrote, gone>> /\ Ends(w)
    BY <1>9 DEF Retry, Fail, store, history
  <2>2. attempt[w].job \in Proposal
    BY <1>9, HasJob DEF Retry, Fail, IInv
  <2>3. QInv'
    BY <1>9, <2>1, <2>2, RetryKept, RowsKeptQInv
  <2>4. Carrying'
    BY <2>1, EndsCounted, CarriedKept DEF AInv, Carrying, Carried
  <2> QED
    BY <1>9, <2>3, <2>4, CountedRetry DEF AInv
<1>10. ASSUME NEW w \in Worker, ApplyIntake(w) \/ QuarantinePoison(w) PROVE QInv' /\ AInv'
  BY <1>10, TransactionStep
<1>11. ASSUME NEW r \in Record, ExpireDue(r) PROVE QInv' /\ AInv'
  BY <1>11, ExpireDueQInv, AsideStep, SameRows DEF ExpireDue
<1>12. ASSUME NEW r \in Forgotten, ForgetDiscard(r) PROVE QInv' /\ AInv'
  BY <1>12, ForgetDiscardQInv, AsideStep, DiscardCounted, ConstantsAssumption DEF ForgetDiscard
<1>13. ASSUME NEW r \in Forgotten, ForgetDelete(r) PROVE QInv' /\ AInv'
  BY <1>13, ForgetDeleteQInv, AsideStep, SameRows, ConstantsAssumption DEF ForgetDelete
<1>14. ASSUME NEW s \in Erasable, DeleteSubject(s) PROVE QInv' /\ AInv'
  <2>1. \A q \in Proposal : RowCounted(q)
    BY <1>14 DEF DeleteSubject, RowCounted, NoRow
  <2> QED
    BY <1>14, <2>1, DeleteSubjectQInv, AsideStep, ConstantsAssumption DEF DeleteSubject
<1>15. CASE UNCHANGED vars
  <2>1. UNCHANGED <<rows, seq, mem, by, confirmed, forget, acked, wrote, gone, attempt>>
    BY <1>15 DEF vars
  <2> QED
    BY <2>1, SameRows, RowsKeptQInv, AsideStep
<1> QED
  BY <1>1, <1>2, <1>3, <1>4, <1>5, <1>6, <1>7, <1>8, <1>9, <1>10, <1>11, <1>12, <1>13,
     <1>14, <1>15 DEF Next, Proceed

LEMMA InitQInv == Init => QInv /\ AInv
<1> SUFFICES ASSUME Init PROVE QInv /\ AInv
  OBVIOUS
<1>1. \A r \in Record : IsStored(r) <=> r \in Stored
  BY DEF Init, IsStored
<1>2. AckedNotLost /\ ForgetNeverMisses
  BY DEF Init, AckedNotLost, ForgetNeverMisses
<1>3. AllOrNothing
  BY <1>1, RecordsAreRecords DEF AllOrNothing
<1>4. Content
  BY RecordsAreRecords DEF Init, Content, Landed, Unfinished, NoRow
<1>5. Stocked
  BY <1>1, ConstantsAssumption DEF Init, Stocked, Known
<1>6. Current
  BY DEF Init, Current, Settled
<1>7. RevisionLinked
  BY RecordsAreRecords DEF Init, RevisionLinked
<1>8. AInv
  BY DEF Init, AInv, Carrying, Counted, Idle
<1> QED
  BY <1>2, <1>3, <1>4, <1>5, <1>6, <1>7, <1>8 DEF QInv

LEMMA SpecQInv == Spec => [](TypeOK /\ IInv /\ QInv /\ AInv)
<1>1. Init => QInv /\ AInv
  BY InitQInv
<1> QED
  BY <1>1, SpecIInv, QInvStep, PTL DEF Spec

-----------------------------------------------------------------------------
(* The refinement: what the log shows of a state of the write path.        *)

LogView ==
  /\ \A r \in Record :
       /\ Fate(r) \in {"stored", "erased", "accepted", "unsent"}
       /\ Fate(r) = "stored" <=> IsStored(r)
       /\ Fate(r) = "erased" <=> ~IsStored(r) /\ (r \in gone \/ forget[r] = "queued")
       /\ Fate(r) = "unsent" <=> ~Known(r)
  /\ \A p \in Proposal :
       /\ Log!Unsent(p) <=> p \notin acked
       /\ Log!Waiting(p) <=> \E r \in RecordsOf[p] : Queued(p, r)

LEMMA LogViewed == TypeOK /\ IInv /\ QInv => LogView
<1> SUFFICES ASSUME TypeOK, IInv, QInv PROVE LogView
  OBVIOUS
<1>1. ASSUME NEW r \in Record
      PROVE  /\ Fate(r) \in {"stored", "erased", "accepted", "unsent"}
             /\ Fate(r) = "stored" <=> IsStored(r)
             /\ Fate(r) = "erased" <=> ~IsStored(r) /\ (r \in gone \/ forget[r] = "queued")
             /\ Fate(r) = "unsent" <=> ~Known(r)
  <2>1. IsStored(r) \/ r \in gone \/ forget[r] = "queued" => Known(r)
    BY DEF QInv, Stocked, Content
  <2>2. r \in Stored => IsStored(r) \/ r \in gone
    BY DEF QInv, Stocked
  <2> QED
    BY <2>1, <2>2 DEF Fate, Known
<1>2. \A p \in Proposal : \A r \in RecordsOf[p] :
        r \in Record /\ [s \in Record |-> Fate(s)][r] = Fate(r) /\ (Known(r) <=> p \in acked)
  BY RecordsAreRecords, KnownAcked DEF Known
<1>3. ASSUME NEW p \in Proposal PROVE Log!Unsent(p) <=> p \notin acked
  BY <1>1, <1>2, RecordsAreRecords DEF Log!Unsent
<1>4. ASSUME NEW p \in Proposal
      PROVE  Log!Waiting(p) <=> \E r \in RecordsOf[p] : Queued(p, r)
  <2>1. ASSUME NEW r \in RecordsOf[p], Queued(p, r) PROVE Fate(r) = "accepted"
    <3>1. p \in acked
      BY <2>1 DEF Queued, QInv, Content, IInv, Grounded
    <3>2. ~Landed(p) /\ r \notin gone /\ forget[r] = "idle"
      BY <1>2, <2>1 DEF Queued, QInv, Content
    <3>3. ~IsStored(r)
      BY <3>2, StockedAcked DEF QInv
    <3> QED
      BY <1>1, <1>2, <3>1, <3>2, <3>3
  <2>2. ASSUME NEW r \in RecordsOf[p], Fate(r) = "accepted" PROVE Queued(p, r)
    BY <1>1, <1>2, <2>2 DEF QInv, AckedNotLost
  <2> QED
    BY <1>2, <2>1, <2>2 DEF Log!Waiting
<1> QED
  BY <1>1, <1>3, <1>4 DEF LogView

LEMMA LogViewedNext == (TypeOK /\ IInv /\ QInv)' => LogView'
  BY LogViewed, PTL

\* A step that erases nothing, stores nothing and acknowledges nothing.
LEMMA SameFates ==
  ASSUME UNCHANGED <<mem, gone, acked>>,
         \A r \in Record : forget'[r] = "queued" <=> forget[r] = "queued"
  PROVE  [r \in Record |-> Fate(r)]' = [r \in Record |-> Fate(r)]
  BY DEF Fate, IsStored

LEMMA SameAside ==
  ASSUME \A p \in Proposal : rows'[p].status = "dead" <=> rows[p].status = "dead"
  PROVE  {p \in Proposal : rows[p].status = "dead"}' = {p \in Proposal : rows[p].status = "dead"}
  OBVIOUS

LEMMA LogStutters ==
  ASSUME UNCHANGED <<mem, gone, acked, before>>,
         \A r \in Record : forget'[r] = "queued" <=> forget[r] = "queued",
         \A p \in Proposal : rows'[p].status = "dead" <=> rows[p].status = "dead"
  PROVE  UNCHANGED Log!logVars
  BY SameFates, SameAside DEF Log!logVars

LEMMA LogSends ==
  ASSUME TypeOK, IInv, QInv, NEW p \in Proposal, EnqueueBegin(p)
  PROVE  Log!Send(p)
<1>1. LogView
  BY LogViewed
<1>2. p \notin acked
  BY DEF EnqueueBegin, IInv, Numbered
<1>3. {q \in acked : SubjectOf[q] = SubjectOf[p]}
      = {q \in Proposal : SubjectOf[q] = SubjectOf[p] /\ ~Log!Unsent(q)}
  BY <1>1 DEF LogView, TypeOK
<1>4. UNCHANGED <<mem, gone, acked, forget, rows>>
  BY DEF EnqueueBegin, store
<1>5. before' = [before EXCEPT ![p] =
        {q \in Proposal : SubjectOf[q] = SubjectOf[p] /\ ~Log!Unsent(q)}]
  BY <1>3 DEF EnqueueBegin
<1> QED
  BY <1>1, <1>2, <1>4, <1>5, SameFates, SameAside DEF Log!Send, LogView

LEMMA LogAccepts ==
  ASSUME TypeOK, IInv, QInv, (TypeOK /\ IInv /\ QInv)', NEW p \in Proposal, EnqueueCommit(p)
  PROVE  Log!Accept(p)
<1>1. LogView /\ LogView'
  BY LogViewed, LogViewedNext
<1>2. p \notin acked /\ acked' = acked \cup {p} /\ UNCHANGED <<mem, gone, forget, before>>
  BY DEF EnqueueCommit, store
<1>3. \A r \in Record : /\ IsStored(r)' <=> IsStored(r)
                        /\ Known(r)' <=> Known(r) \/ r \in RecordsOf[p]
  BY <1>2 DEF IsStored, Known
<1>4. \A r \in Record : Fate(r)' = IF r \in RecordsOf[p] THEN "accepted" ELSE Fate(r)
  <2> SUFFICES ASSUME NEW r \in Record
               PROVE  Fate(r)' = IF r \in RecordsOf[p] THEN "accepted" ELSE Fate(r)
    OBVIOUS
  <2>1. r \in RecordsOf[p] => ~Known(r)
    BY <1>2, KnownAcked
  <2>2. ~Known(r) => ~IsStored(r) /\ r \notin gone /\ forget[r] # "queued"
    BY DEF QInv, Stocked, Content
  <2> QED
    BY <1>1, <1>2, <1>3, <2>1, <2>2 DEF LogView
<1>5. rows[p].status # "dead" /\ rows'[p].status = "pending"
      /\ \A q \in Proposal \ {p} : rows'[q] = rows[q]
  BY <1>2 DEF EnqueueCommit, TypeOK, IInv, Grounded
<1>6. Log!Becomes(RecordsOf[p], "accepted")
  BY <1>4 DEF Log!Becomes
<1> QED
  BY <1>1, <1>2, <1>5, <1>6, SameAside DEF Log!Accept, LogView
\* The proposals set aside, after a step that moves one row.
LEMMA AsideMoves ==
  ASSUME NEW p \in Proposal, \A q \in Proposal \ {p} : rows'[q] = rows[q]
  PROVE  LET aside == {q \in Proposal : rows[q].status = "dead"} IN
         aside' = IF rows'[p].status = "dead" THEN aside \cup {p} ELSE aside \ {p}
  OBVIOUS

(* The insert of an attempt is the Store of the log; one that finds its    *)
(* records there settles the proposal.                                     *)
LEMMA LogStores ==
  ASSUME TypeOK, IInv, QInv, AInv, (TypeOK /\ IInv /\ QInv)',
         NEW w \in Worker, NEW s, Inserts(w, s), UNCHANGED <<forget, acked, gone, before>>
  PROVE  Log!LogNext
<1>p. PICK p \in Proposal : p = attempt[w].job
  BY InsertsStores DEF IInv, AInv
<1> DEFINE a == attempt[w]
           R == a.records
           aside == {q \in Proposal : rows[q].status = "dead"}
<1>0. LogView /\ LogView'
  BY LogViewed, LogViewedNext
<1>1. /\ p \in acked /\ p \in Proposal /\ R \subseteq RecordsOf[p]
      /\ rows'[p].status = s
      /\ \A q \in Proposal \ {p} : rows'[q] = rows[q]
      /\ \A r \in Record : IsStored(r)' <=> IsStored(r) \/ r \in R
  BY <1>p, InsertsStores DEF IInv, AInv
<1>2. /\ rows[p].records = R /\ rows[p].status \notin {"none", "done"}
      /\ s \in {"done", "dead"}
  BY <1>p DEF Inserts
<1>3. aside' = IF s = "dead" THEN aside \cup {p} ELSE aside \ {p}
  BY <1>1, AsideMoves
<1>4. \A r \in Record : Known(r)' <=> Known(r)
  BY DEF Known
<1>5. CASE \A r \in R : IsStored(r)
  <2>1. s = "done" \/ R = {}
    BY <1>5 DEF Inserts
  <2>2. ~Log!Waiting(p)
    <3>1. ASSUME NEW r \in RecordsOf[p], Queued(p, r) PROVE FALSE
      <4>1. IsStored(r)
        BY <1>2, <1>5, <3>1 DEF Queued
      <4>2. Landed(p)
        BY <3>1, <4>1, StockedAcked DEF QInv
      <4> QED
        BY <1>1, <3>1, <4>2 DEF Queued, QInv, Content
    <3> QED
      BY <1>0, <1>1, <3>1 DEF LogView
  <2>3. UNCHANGED <<mem, wrote>> /\ s = "done"
    BY <1>5 DEF Inserts
  <2>4. [r \in Record |-> Fate(r)]' = [r \in Record |-> Fate(r)]
    BY <2>3, SameFates
  <2>5. Log!Settle(p)
    BY <1>3, <2>2, <2>3, <2>4 DEF Log!Settle
  <2> QED
    BY <1>1, <2>5 DEF Log!LogNext
<1>6. CASE \E r \in R : ~IsStored(r)
  <2>1. R # {} /\ \A r \in R : ~IsStored(r)
    BY <1>6 DEF Inserts
  <2>2. ASSUME NEW q \in before[p], q \notin aside PROVE ~Log!Waiting(q)
    <3>1. q \in Proposal /\ q \in acked
      BY <1>1 DEF IInv, Numbered, TypeOK
    <3>2. ~Unfinished(q)
      BY <1>p, <1>1 DEF IInv, SubjectOrder, Tried
    <3>3. rows[q].status \in {"none", "done"}
      BY <2>2, <3>1, <3>2 DEF Unfinished, TypeOK, Row, RowStatus
    <3> QED
      BY <1>0, <3>1, <3>3 DEF LogView, Queued, QInv, Content
  <2>3. ASSUME NEW r \in RecordsOf[p], Fate(r) = "accepted" PROVE r \in R
    <3>1. ~IsStored(r) /\ r \notin gone /\ forget[r] # "queued"
      BY <1>0, <1>1, <2>3, RecordsAreRecords DEF LogView
    <3>2. Queued(p, r)
      BY <1>1, <3>1 DEF QInv, AckedNotLost
    <3> QED
      BY <1>2, <3>2 DEF Queued
  <2>4. ASSUME NEW r \in R PROVE Fate(r) = "accepted" \/ (Fate(r) = "erased" /\ p \in aside)
    <3>1. r \in Record /\ Known(r) /\ ~IsStored(r)
      BY <1>1, <2>1, RecordsAreRecords DEF Known
    <3>2. CASE p \in aside
      BY <1>0, <3>1, <3>2 DEF LogView
    <3>3. CASE p \notin aside
      <4>1. Unfinished(p)
        BY <1>1, <1>2, <3>3 DEF Unfinished, TypeOK, Row, RowStatus
      <4>2. Queued(p, r)
        BY <1>1, <1>2, <4>1 DEF QInv, Content, Queued
      <4>3. r \notin gone /\ forget[r] = "idle"
        BY <1>1, <3>1, <4>2 DEF QInv, Content
      <4> QED
        BY <1>0, <3>1, <4>3 DEF LogView
    <3> QED
      BY <3>2, <3>3
  <2>5. ASSUME NEW r \in Record PROVE Fate(r)' = IF r \in R THEN "stored" ELSE Fate(r)
    <3>1. r \in R => Fate(r)' = "stored"
      BY <1>0, <1>1 DEF LogView
    <3>2. r \notin R => Fate(r)' = Fate(r)
      BY <1>0, <1>1, <1>4 DEF LogView
    <3> QED
      BY <3>1, <3>2
  <2>6. Log!Becomes(R, "stored")
    BY <2>5 DEF Log!Becomes
  <2>7. \A r \in RecordsOf[p] : [x \in Record |-> Fate(x)][r] = Fate(r)
    BY <1>1, RecordsAreRecords
  <2>8. Log!Store(p)
    <3>1. \A q \in before[p] \ aside : ~Log!Waiting(q)
      BY <2>2
    <3>2. R \in (SUBSET RecordsOf[p]) \ {{}}
      BY <1>1, <2>1
    <3>3. aside' \in {aside \ {p}, aside \cup {p}}
      BY <1>3
    <3> QED
      BY <1>1, <2>3, <2>4, <2>6, <2>7, <3>1, <3>2, <3>3 DEF Log!Store
  <2> QED
    BY <1>1, <2>8 DEF Log!LogNext
<1> QED
  BY <1>5, <1>6

LEMMA LogSetsAside ==
  ASSUME TypeOK, IInv, QInv, AInv, NEW w \in Worker, Bury(w), HoldsClaim(w)
  PROVE  Log!LogNext
<1>1. PICK p \in Proposal : p = attempt[w].job
  BY HasJob DEF Bury, Fail, IInv
<1>2. Unfinished(p)
  BY <1>1 DEF HoldsClaim
<1>3. LogView
  BY LogViewed
<1>4. Log!Waiting(p)
  <2>1. rows[p].payload /\ rows[p].records # {} /\ rows[p].records \subseteq RecordsOf[p]
    BY <1>1, <1>2 DEF QInv, Content, IInv, Grounded
  <2> QED
    BY <1>1, <1>3, <2>1 DEF LogView, Queued
<1>5. rows'[p].status = "dead" /\ \A q \in Proposal \ {p} : rows'[q] = rows[q]
  <2> DEFINE new == [rows[p] EXCEPT !.status = "dead", !.leased = FALSE, !.due = FALSE]
  <2>1. new.status = "dead"
    BY <1>1 DEF TypeOK, Row
  <2>2. rows' = [rows EXCEPT ![p] = new]
    BY <1>1 DEF Bury, Fail
  <2> HIDE DEF new
  <2> QED
    BY <1>1, <2>1, <2>2 DEF TypeOK
<1>6. UNCHANGED <<mem, gone, acked, forget, before>>
  BY DEF Bury, Fail, store, history
<1>7. Log!SetAside(p)
  BY <1>1, <1>4, <1>5, <1>6, SameFates, AsideMoves DEF Log!SetAside
<1> QED
  BY <1>1, <1>7 DEF Log!LogNext

LEMMA LogForgets ==
  ASSUME TypeOK, IInv, QInv, (TypeOK /\ IInv /\ QInv)', NEW r \in Record,
         ForgetDiscard(r) \/ ForgetDelete(r)
  PROVE  Log!LogNext \/ UNCHANGED Log!logVars
<1> DEFINE aside == {q \in Proposal : rows[q].status = "dead"}
<1>0. LogView /\ LogView'
  BY LogViewed, LogViewedNext
<1>1. ASSUME ForgetDiscard(r), \A p \in Proposal : ~Queued(p, r)
      PROVE  UNCHANGED Log!logVars
  <2>1. \A p \in Proposal : rows'[p] = rows[p]
    BY <1>1 DEF ForgetDiscard
  <2>2. UNCHANGED <<mem, gone, acked, before>>
    BY <1>1 DEF ForgetDiscard, store, history
  <2>3. \A q \in Record : forget'[q] = "queued" <=> forget[q] = "queued"
    BY <1>1 DEF ForgetDiscard, TypeOK
  <2> QED
    BY <2>1, <2>2, <2>3, LogStutters
<1>2. ASSUME ForgetDiscard(r), NEW p \in Proposal, Queued(p, r)
      PROVE  Log!Forget(r)
  <2>1. UNCHANGED <<mem, gone, acked, before>>
    BY <1>2 DEF ForgetDiscard, store, history
  <2>2. forget'[r] = "queued" /\ Known(r) /\ \A q \in Record \ {r} : forget'[q] = forget[q]
    BY <1>2 DEF ForgetDiscard, TypeOK
  <2>3. r \in RecordsOf[p]
    BY <1>2 DEF Queued, IInv, Grounded
  <2>4. ~IsStored(r)
    BY <1>2, <2>3, StockedAcked DEF QInv, Content, Queued
  <2>5. \A q \in Record : Known(q)' = Known(q) /\ IsStored(q)' = IsStored(q)
    BY <2>1 DEF Known, IsStored
  <2>6. ASSUME NEW q \in Record PROVE Fate(q)' = IF q \in {r} THEN "erased" ELSE Fate(q)
    <3>1. CASE q = r
      BY <1>0, <2>2, <2>4, <2>5, <3>1 DEF LogView
    <3>2. CASE q # r
      BY <1>0, <2>1, <2>2, <2>5, <3>2 DEF LogView
    <3> QED
      BY <3>1, <3>2
  <2>7. Log!Becomes({r}, "erased")
    BY <2>6 DEF Log!Becomes
  <2>8. Fate(r) # "unsent"
    BY <1>0, <2>2 DEF LogView
  <2>9. \A q \in Proposal \ {p} : rows'[q] = rows[q]
    <3>1. \A q \in Proposal \ {p} : ~Queued(q, r)
      BY <2>3, RecordOfOne DEF Queued, IInv, Grounded
    <3> QED
      BY <1>2, <3>1 DEF ForgetDiscard
  <2>10. aside' = aside \/ (~Log!Waiting(p)' /\ aside' = aside \ {p})
    <3>1. CASE rows[p].records = {r}
      <4>1. rows'[p] = NoRow
        BY <1>2, <3>1 DEF ForgetDiscard
      <4>2. ~Log!Waiting(p)'
        BY <1>0, <4>1 DEF LogView, Queued, NoRow
      <4> QED
        BY <2>9, <4>1, <4>2, AsideMoves DEF NoRow
    <3>2. CASE rows[p].records # {r}
      <4> DEFINE new == [rows[p] EXCEPT !.records = @ \ {r}]
      <4>1. new.status = rows[p].status
        BY DEF TypeOK, Row
      <4>2. rows'[p] = new
        BY <1>2, <3>2 DEF ForgetDiscard
      <4> HIDE DEF new
      <4>3. \A q \in Proposal : rows'[q].status = "dead" <=> rows[q].status = "dead"
        BY <2>9, <4>1, <4>2
      <4> QED
        BY <4>3, SameAside
    <3> QED
      BY <3>1, <3>2
  <2> QED
    BY <2>1, <2>7, <2>8, <2>10 DEF Log!Forget
<1>3. ASSUME ForgetDelete(r) PROVE Log!Forget(r)
  <2>1. UNCHANGED <<rows, acked, before>>
    BY <1>3 DEF ForgetDelete
  <2>2. forget[r] # "idle" /\ forget'[r] = "idle"
        /\ \A q \in Record \ {r} : forget'[q] = forget[q]
    BY <1>3 DEF ForgetDelete, TypeOK
  <2>3. gone' = gone \cup {r}
    BY <1>3, <2>2 DEF ForgetDelete, QInv, ForgetNeverMisses, TypeOK
  <2>4. \A q \in Record : IsStored(q)' <=> IsStored(q) /\ q # r
    BY <1>3, AbsentEffect DEF ForgetDelete
  <2>5. \A q \in Record : Known(q)' <=> Known(q)
    BY <2>1 DEF Known
  <2>6. ASSUME NEW q \in Record PROVE Fate(q)' = IF q \in {r} THEN "erased" ELSE Fate(q)
    <3>1. CASE q = r
      BY <1>0, <2>3, <2>4, <3>1 DEF LogView
    <3>2. CASE q # r
      BY <1>0, <2>2, <2>3, <2>4, <2>5, <3>2 DEF LogView
    <3> QED
      BY <3>1, <3>2
  <2>7. Log!Becomes({r}, "erased")
    BY <2>6 DEF Log!Becomes
  <2>8. Fate(r) # "unsent"
    BY <1>0, <2>2 DEF LogView, QInv, Content
  <2> QED
    BY <2>1, <2>7, <2>8 DEF Log!Forget
<1> QED
  BY <1>1, <1>2, <1>3 DEF Log!LogNext

LEMMA LogErases ==
  ASSUME TypeOK, IInv, QInv, (TypeOK /\ IInv /\ QInv)', NEW s \in Subject, DeleteSubject(s)
  PROVE  Log!EraseSubject(s)
<1> DEFINE R == {r \in Record : HomeOf[r] = s}
<1>0. LogView /\ LogView'
  BY LogViewed, LogViewedNext
<1>1. UNCHANGED <<acked, forget, before>> /\ gone' = gone \cup {r \in R : Known(r)}
  BY DEF DeleteSubject
<1>2. \A p \in Proposal : rows'[p] = IF SubjectOf[p] = s THEN NoRow ELSE rows[p]
  BY DEF DeleteSubject
<1>3. \A q \in Record : IsStored(q)' <=> IsStored(q) /\ q \notin R
  BY AbsentEffect DEF DeleteSubject
<1>4. \A r \in Record : Known(r)' <=> Known(r)
  BY <1>1 DEF Known
<1>5. {r \in Record : HomeOf[r] = s /\ [x \in Record |-> Fate(x)][r] # "unsent"}
      = {r \in R : Known(r)}
  BY <1>0 DEF LogView
<1>6. ASSUME NEW r \in Record
      PROVE  Fate(r)' = IF r \in {x \in R : Known(x)} THEN "erased" ELSE Fate(r)
  <2>1. CASE r \in R /\ Known(r)
    BY <1>0, <1>1, <1>3, <2>1 DEF LogView
  <2>2. CASE r \notin R
    <3> HIDE DEF R
    <3> QED
      BY <1>0, <1>1, <1>3, <1>4, <2>2 DEF LogView
  <2>3. CASE ~Known(r)
    BY <1>0, <1>4, <2>3 DEF LogView
  <2> QED
    BY <2>1, <2>2, <2>3
<1>7. Log!Becomes({r \in R : Known(r)}, "erased")
  BY <1>6 DEF Log!Becomes
<1>8. {p \in Proposal : rows[p].status = "dead"}'
      = {p \in {p \in Proposal : rows[p].status = "dead"} : SubjectOf[p] # s}
  BY <1>2 DEF NoRow
<1> QED
  BY <1>1, <1>5, <1>7, <1>8 DEF Log!EraseSubject
\* Rows that keep their status of set aside.
DeadKept == \A p \in Proposal : rows'[p].status = "dead" <=> rows[p].status = "dead"

LEMMA LogStep ==
  TypeOK /\ IInv /\ QInv /\ AInv /\ (TypeOK /\ IInv /\ QInv)' /\ [Next]_vars
    => Log!LogNext \/ UNCHANGED Log!logVars
<1> SUFFICES ASSUME TypeOK, IInv, QInv, AInv, (TypeOK /\ IInv /\ QInv)', [Next]_vars
             PROVE  Log!LogNext \/ UNCHANGED Log!logVars
  OBVIOUS
<1>1. ASSUME NEW p \in Proposal, EnqueueBegin(p) PROVE Log!LogNext
  BY <1>1, LogSends DEF Log!LogNext
<1>2. ASSUME NEW p \in Proposal, EnqueueCommit(p) PROVE Log!LogNext
  BY <1>2, LogAccepts DEF Log!LogNext
<1>3. ASSUME DeadKept, UNCHANGED <<mem, gone, acked, before, forget>>
      PROVE  UNCHANGED Log!logVars
  BY <1>3, LogStutters DEF DeadKept
<1>4. ASSUME NEW p \in Proposal, LeaseExpires(p) \/ BackoffEnds(p) \/ Prune(p)
      PROVE  UNCHANGED Log!logVars
  <2>1. rows'[p].status # "dead" /\ rows[p].status # "dead"
        /\ \A q \in Proposal \ {p} : rows'[q] = rows[q]
    <3>1. rows[p] \in Row
      BY DEF TypeOK
    <3>2. /\ [rows[p] EXCEPT !.leased = FALSE].status = rows[p].status
          /\ [rows[p] EXCEPT !.due = TRUE].status = rows[p].status
      BY <3>1 DEF Row
    <3>3. rows'[p].status \in {rows[p].status, "none"}
      <4>1. CASE Prune(p)
        BY <4>1 DEF Prune, NoRow, TypeOK
      <4>2. CASE LeaseExpires(p)
        BY <3>2, <4>2 DEF LeaseExpires, TypeOK
      <4>3. CASE BackoffEnds(p)
        BY <3>2, <4>3 DEF BackoffEnds, TypeOK
      <4> QED
        BY <1>4, <4>1, <4>2, <4>3
    <3> QED
      BY <1>4, <3>3 DEF LeaseExpires, BackoffEnds, Prune, TypeOK
  <2>2. UNCHANGED <<mem, gone, acked, before, forget>>
    BY <1>4 DEF LeaseExpires, BackoffEnds, Prune, store, history
  <2> QED
    BY <1>3, <2>1, <2>2 DEF DeadKept
<1>5. ASSUME NEW w \in Worker, NEW p \in Proposal, Claim(w, p) PROVE UNCHANGED Log!logVars
  <2>1. rows'[p].status = "running" /\ rows[p].status # "dead"
        /\ \A q \in Proposal \ {p} : rows'[q] = rows[q]
    <3> DEFINE new == [rows[p] EXCEPT !.status = "running", !.leased = TRUE,
                                      !.attempts = Bumped(@)]
    <3>1. new.status = "running"
      BY DEF TypeOK, Row
    <3>2. rows'[p] = new /\ \A q \in Proposal \ {p} : rows'[q] = rows[q]
      BY <1>5 DEF Claim, TypeOK
    <3> HIDE DEF new
    <3> QED
      BY <1>5, <3>1, <3>2 DEF Claim, Claimable
  <2> QED
    BY <1>3, <1>5, <2>1 DEF DeadKept, Claim, store, history
<1>6. ASSUME NEW w \in Worker, rows' = rows,
             RunPipeline(w) \/ PipelineFails(w) \/ Dies(w) \/ Crash(w) \/ Finish(w)
             \/ Retry(w) \/ Bury(w)
      PROVE  UNCHANGED Log!logVars
  <2>1. UNCHANGED <<mem, gone, acked, before, forget>>
    BY <1>6 DEF RunPipeline, PipelineFails, Dies, Crash, Finish, Retry, Bury, Fail, store, history
  <2> QED
    BY <1>3, <1>6, <2>1 DEF DeadKept
<1>7. ASSUME NEW w \in Worker, Finish(w) PROVE rows' = rows
  <2>1. ~Unfinished(attempt[w].job)
    BY <1>7 DEF Finish, AInv, Carrying, Carried, Idle
  <2> QED
    BY <1>7, <2>1 DEF Finish
<1>8. ASSUME NEW w \in Worker, Retry(w), rows' # rows PROVE UNCHANGED Log!logVars
  <2>1. PICK p \in Proposal : p = attempt[w].job
    BY <1>8, HasJob DEF Retry, Fail, IInv
  <2>2. Unfinished(p) /\ rows' = [rows EXCEPT ![p].status = "pending", ![p].leased = FALSE,
                                              ![p].due = FALSE]
    BY <1>8, <2>1 DEF Retry, Fail, HoldsClaim
  <2> DEFINE new == [rows[p] EXCEPT !.status = "pending", !.leased = FALSE, !.due = FALSE]
  <2>3. new.status = "pending"
    BY DEF TypeOK, Row
  <2>4. rows'[p] = new /\ \A q \in Proposal \ {p} : rows'[q] = rows[q]
    BY <2>2 DEF TypeOK
  <2> HIDE DEF new
  <2>5. DeadKept
    BY <2>2, <2>3, <2>4 DEF DeadKept, Unfinished
  <2> QED
    BY <1>3, <1>8, <2>5 DEF Retry, Fail, store, history
<1>9. ASSUME NEW w \in Worker, Bury(w), rows' # rows PROVE Log!LogNext
  BY <1>9, LogSetsAside DEF Bury, Fail
<1>10. ASSUME NEW w \in Worker, ApplyIntake(w) \/ QuarantinePoison(w)
       PROVE  Log!LogNext \/ UNCHANGED Log!logVars
  <2>1. UNCHANGED <<forget, acked, gone, before>> /\ attempt[w].step \in {"insert", "poison"}
    BY <1>10 DEF ApplyIntake, QuarantinePoison
  <2>2. CASE \E s : Inserts(w, s)
    BY <2>1, <2>2, LogStores
  <2>3. CASE UNCHANGED <<rows, store, wrote>>
    BY <1>3, <2>1, <2>3 DEF DeadKept, store
  <2>4. (\E s : Inserts(w, s)) \/ UNCHANGED <<rows, store, wrote>>
    <3>1. CASE ApplyIntake(w)
      BY <2>1, <3>1, InsertsWhole DEF ApplyIntake, IInv, AInv
    <3>2. CASE QuarantinePoison(w)
      BY <2>1, <3>2, InsertsWhole DEF QuarantinePoison, IInv, AInv
    <3> QED
      BY <1>10, <3>1, <3>2
  <2> QED
    BY <2>2, <2>3, <2>4
<1>11. ASSUME NEW r \in Record, ExpireDue(r) PROVE UNCHANGED Log!logVars
  <2>1. \A q \in Record : IsStored(q)' <=> IsStored(q)
    BY <1>11 DEF ExpireDue, IsStored, TypeOK
  <2>2. UNCHANGED <<rows, forget, acked, gone, before>>
    BY <1>11 DEF ExpireDue, history
  <2>3. \A q \in Record : Fate(q)' = Fate(q)
    BY <2>1, <2>2 DEF Fate
  <2> QED
    BY <2>2, <2>3 DEF Log!logVars
<1>12. ASSUME NEW r \in Forgotten, ForgetDiscard(r) \/ ForgetDelete(r)
       PROVE  Log!LogNext \/ UNCHANGED Log!logVars
  BY <1>12, LogForgets, ConstantsAssumption
<1>13. ASSUME NEW s \in Erasable, DeleteSubject(s) PROVE Log!LogNext
  BY <1>13, LogErases, ConstantsAssumption DEF Log!LogNext
<1>14. CASE UNCHANGED vars
  BY <1>3, <1>14 DEF vars, DeadKept
<1> QED
  BY <1>1, <1>2, <1>4, <1>5, <1>6, <1>7, <1>8, <1>9, <1>10, <1>11, <1>12, <1>13, <1>14
     DEF Next, Proceed, RunPipeline, PipelineFails, Dies, Crash

LEMMA LogStarts == Init => Log!LogInit
<1> SUFFICES ASSUME Init PROVE Log!LogInit
  OBVIOUS
<1>1. \A r \in Record : Fate(r) = IF r \in Stored THEN "stored" ELSE "unsent"
  BY DEF Init, Fate, IsStored
<1>2. before = [p \in Proposal |-> {}] /\ {p \in Proposal : rows[p].status = "dead"} = {}
  BY DEF Init, NoRow
<1> QED
  BY <1>1, <1>2 DEF Log!LogInit

-----------------------------------------------------------------------------
(* Every state of the write path is well formed, for any constants.        *)
THEOREM TypeCorrect == Spec => []TypeOK
  BY SpecIInv, PTL

(* An attempt is only ever made of a write once every write of its subject *)
(* acknowledged before it was sent is stored, set aside or erased          *)
(* (IntakeQueue::claim), whatever fails, crashes or outlives its lease.    *)
THEOREM SubjectOrderHolds == Spec => []SubjectOrder
<1>1. IInv => SubjectOrder
  BY DEF IInv
<1> QED
  BY <1>1, SpecIInv, PTL

(* Nothing acknowledged before its subject was erased lands after it, and  *)
(* nothing of it is left in the queue (delete_subject, apply_intake).      *)
THEOREM ErasureHolds == Spec => []ErasureIsFinal
<1>1. IInv => ErasureIsFinal
  BY DEF IInv
<1> QED
  BY <1>1, SpecIInv, PTL

(* A write takes effect after the writes of its subject acknowledged       *)
(* before it was sent, unless those were set aside as poison.              *)
THEOREM LandsInOrderHolds == Spec => LandsInOrder
<1> DEFINE InOrder ==
      \A p, q \in Proposal :
        p \in before[q] /\ Landed(q) /\ ~Landed(p) /\ Landed(p)' => rows[p].status = "dead"
<1>1. TypeOK /\ IInv /\ [Next]_vars => InOrder
  <2> SUFFICES ASSUME TypeOK, IInv, [Next]_vars, NEW p \in Proposal, NEW q \in Proposal,
                      p \in before[q], Landed(q), ~Landed(p), Landed(p)'
               PROVE  rows[p].status = "dead"
    OBVIOUS
  <2>1. Effects
    BY NextEffects DEF IInv
  <2>2. PICK w \in Worker : /\ attempt[w].step # "idle"
                            /\ rows[attempt[w].job].status \notin {"none", "done"}
                            /\ wrote' = wrote \cup attempt[w].records
    BY <2>1 DEF Effects, StoreEffect, Landed
  <2>3. attempt[w].job = p
    BY <2>2, OwnRecords DEF IInv, Landed
  <2>4. ~Unfinished(p)
    BY DEF IInv, SubjectOrder, Tried
  <2>5. rows[p].status \in RowStatus
    BY DEF TypeOK, Row
  <2> QED
    BY <2>2, <2>3, <2>4, <2>5 DEF Unfinished, RowStatus
<1>2. TypeOK /\ IInv /\ [Next]_vars => [InOrder]_vars
  BY <1>1
<1> QED
  BY <1>2, SpecIInv, PTL DEF Spec, LandsInOrder

(* Through claims, crashes, retries, poison, prunes and forgets the queue  *)
(* keeps what was acknowledged, under one holder, and stores it whole      *)
(* (claim, apply_intake, fail, discard_queued).                            *)
THEOREM QueueSafeHolds == Spec => []QueueSafe
<1>1. TypeOK /\ IInv /\ AInv => OneHolder
  <2> SUFFICES ASSUME TypeOK, IInv, AInv, NEW v \in Worker, NEW w \in Worker,
                      attempt[v].job # NoProposal, attempt[v].number < AttemptCap, HoldsClaim(v)
               PROVE  /\ rows[attempt[v].job].status = "running"
                      /\ attempt[w].job = attempt[v].job /\ HoldsClaim(w) => v = w
    BY DEF OneHolder
  <2>1. attempt[v].step # "idle"
    BY DEF AInv, Carrying, Carried, Idle
  <2>2. attempt[v].number \in Nat /\ rows[attempt[v].job].attempts = attempt[v].number
        /\ rows[attempt[v].job].status \in {"pending", "running"}
    BY DEF TypeOK, Attempt, HoldsClaim, Unfinished
  <2> QED
    BY <2>1, <2>2 DEF AInv, Counted, HoldsClaim
<1>2. TypeOK /\ IInv /\ QInv /\ AInv => QueueSafe
  BY <1>1 DEF QInv, QueueSafe
<1> QED
  BY <1>2, SpecQInv, PTL

(* A forget never answers not_found for an acknowledged record that nobody *)
(* erased, wherever the record is when each of its two steps looks.        *)
THEOREM ForgetNeverMissesHolds == Spec => []ForgetNeverMisses
<1>1. QInv => ForgetNeverMisses
  BY DEF QInv
<1> QED
  BY <1>1, SpecQInv, PTL

(* Two revisions of one version never both take effect: the committed one  *)
(* is what its predecessor was superseded by (SUPERSEDE_SQL).              *)
THEOREM RevisionLinkedHolds == Spec => []RevisionLinked
<1>1. QInv => RevisionLinked
  BY DEF QInv
<1> QED
  BY <1>1, SpecQInv, PTL

(* A record is inserted once, whoever holds its proposal and whatever was  *)
(* forgotten in between, unless the proposal was set aside (apply_intake). *)
THEOREM StoredOnceHolds == Spec => StoredOnce
<1> DEFINE Once == \A p \in Proposal : \A r \in RecordsOf[p] :
       ~IsStored(r) /\ IsStored(r)' => r \notin wrote \/ rows[p].status = "dead"
<1>1. TypeOK /\ IInv /\ QInv /\ [Next]_vars => Once
  <2> SUFFICES ASSUME TypeOK, IInv, QInv, [Next]_vars, NEW p \in Proposal, NEW r \in RecordsOf[p],
                      ~IsStored(r), IsStored(r)', r \in wrote
               PROVE  rows[p].status = "dead"
    OBVIOUS
  <2>1. Effects /\ r \in Record
    BY NextEffects, RecordsAreRecords DEF IInv
  <2>2. PICK w \in Worker : /\ attempt[w].step # "idle"
                            /\ rows[attempt[w].job].status \notin {"none", "done"}
                            /\ r \in attempt[w].records
    BY <2>1 DEF Effects, StoreEffect
  <2>3. attempt[w].job = p
    BY <2>2, OwnRecords DEF IInv
  <2>4. ~Unfinished(p)
    BY DEF QInv, Content, Landed
  <2>5. rows[p].status \in RowStatus
    BY DEF TypeOK, Row
  <2> QED
    BY <2>2, <2>3, <2>4, <2>5 DEF Unfinished, RowStatus
<1>2. TypeOK /\ IInv /\ QInv /\ [Next]_vars => [Once]_vars
  BY <1>1
<1> QED
  BY <1>2, SpecQInv, PTL DEF Spec, StoredOnce

(* The write path implements the log its clients rely on: every step of it *)
(* is a step of the log or changes nothing a client can see.               *)
THEOREM WriteLogImplemented == Spec => ImplementsWriteLog
<1>1. TypeOK /\ IInv /\ QInv /\ AInv /\ (TypeOK /\ IInv /\ QInv)' /\ [Next]_vars
        => [Log!LogNext]_(Log!logVars)
  BY LogStep
<1> QED
  BY <1>1, LogStarts, SpecQInv, PTL DEF Spec, ImplementsWriteLog, Log!LogSpec
=============================================================================
