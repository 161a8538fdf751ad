--------------------------- MODULE AdmissionProofs ---------------------------
(***************************************************************************)
(* Proofs about the review of candidates: one revision of a version takes  *)
(* effect, what is final stays so, and every decision is in the trail,     *)
(* whatever calls, expiries and forgets run between their statements; and  *)
(* about the forgets of every scope: what one has answered for is gone,    *)
(* whatever the pipeline, enrichment and retention do between its          *)
(* statements.                                                             *)
(***************************************************************************)
EXTENDS Admission, Erasure, FiniteSetTheorems, TLAPS

Reviews == [step : Step, id : Record \cup {NoRecord}, answer : {"none", "admit", "reject"}]

(* The version r revises was superseded by it, or is gone since.           *)
Succeeds(r) ==
  \/ status[Revises[r]] = "superseded" /\ by[Revises[r]] = r
  \/ status[Revises[r]] = "absent"

(* A call under way has a record, and what it has read of it still holds:  *)
(* what it revises, and that it has superseded it.                         *)
CallSound(c) ==
  LET r == call[c].id IN
  call[c].step # "idle" =>
    /\ r \in Record
    /\ call[c].step = "supersede" => Revises[r] # NoRecord
    /\ (call[c].step = "commit" /\ Revises[r] # NoRecord) => Succeeds(r)
    /\ call[c].step = "log" => call[c].answer \in {"admit", "reject"}

(* A call is about to write this decision to the trail.                    *)
Writing(answer, r) ==
  \E c \in Call : call[c].step = "log" /\ call[c].id = r /\ call[c].answer = answer

Audited(answer, r) == (<<answer, r>> \in audit) \/ Writing(answer, r)

Trail ==
  crashes = 0 =>
    \A r \in Record :
      /\ Current(r) /\ r \notin Original \cup Direct => Audited("admit", r)
      /\ status[r] = "rejected" => Audited("reject", r)

ReviewInv == TypeOK /\ OneSuccessor /\ (\A c \in Call : CallSound(c)) /\ Trail

-----------------------------------------------------------------------------
(* Types.                                                                  *)

LEMMA ReviewTyped ==
    TypeOK => /\ status \in [Record -> Status] /\ by \in [Record -> Record \cup {NoRecord}]
              /\ call \in [Call -> Reviews] /\ audit \subseteq {"admit", "reject"} \X Record
              /\ crashes \in 0..MaxCrashes
  BY DEF TypeOK, Reviews

LEMMA FreshCall ==
    /\ Call0 \in Reviews /\ Call0.step = "idle" /\ Call0.id = NoRecord /\ NoRecord \notin Record
  BY AdmissionAssumption DEF Call0, Reviews, Step

(* What set_status does to the row, and that it leaves the others alone.   *)
LEMMA SetsStatus ==
    ASSUME TypeOK, NEW r \in Record, NEW to \in Status, SetStatus(r, to)
    PROVE  /\ status' \in [Record -> Status]
           /\ \A x \in Record : x # r => status'[x] = status[x]
           /\ \/ <<status[r], to>> \in Lifecycle /\ status'[r] = to
              \/ <<status[r], to>> \notin Lifecycle /\ status' = status
  BY ReviewTyped DEF SetStatus

LEMMA Supersedes ==
    ASSUME TypeOK, NEW old \in Record, NEW new \in Record, Supersede(old, new)
    PROVE  /\ status' \in [Record -> Status] /\ by' \in [Record -> Record \cup {NoRecord}]
           /\ status[old] = "committed" /\ status'[old] = "superseded" /\ by'[old] = new
           /\ \A x \in Record : x # old => status'[x] = status[x] /\ by'[x] = by[x]
  BY ReviewTyped DEF Supersede, Status

(* A statement of a call moves the call on, and no other.                  *)
LEMMA GoesTo ==
    ASSUME TypeOK, NEW c \in Call, NEW step \in Step, Goto(c, step)
    PROVE  /\ call' \in [Call -> Reviews]
           /\ \A d \in Call : d # c => call'[d] = call[d]
           /\ call'[c].step = step /\ call'[c].id = call[c].id
<1>1. call[c] \in Reviews /\ call \in [Call -> Reviews]
  BY ReviewTyped
<1> DEFINE new == [call[c] EXCEPT !.step = step]
<1>2. new \in Reviews /\ new.step = step /\ new.id = call[c].id
  BY <1>1 DEF Reviews
<1>3. call' = [call EXCEPT ![c] = new]
  BY <1>1 DEF Goto
<1> HIDE DEF new
<1> QED
  BY <1>1, <1>2, <1>3

LEMMA AnswersWith ==
    ASSUME TypeOK, NEW c \in Call, NEW answer \in {"admit", "reject"}, Answers(c, answer)
    PROVE  /\ call' \in [Call -> Reviews]
           /\ \A d \in Call : d # c => call'[d] = call[d]
           /\ call'[c].step = "log" /\ call'[c].id = call[c].id /\ call'[c].answer = answer
<1>1. call[c] \in Reviews /\ call \in [Call -> Reviews]
  BY ReviewTyped
<1> DEFINE new == [call[c] EXCEPT !.step = "log", !.answer = answer]
<1>2. new \in Reviews /\ new.step = "log" /\ new.id = call[c].id /\ new.answer = answer
  BY <1>1 DEF Reviews, Step
<1>3. call' = [call EXCEPT ![c] = new]
  BY <1>1 DEF Answers
<1> HIDE DEF new
<1> QED
  BY <1>1, <1>2, <1>3

LEMMA EndsCall ==
    ASSUME TypeOK, NEW c \in Call, call' = [call EXCEPT ![c] = Call0]
    PROVE  /\ call' \in [Call -> Reviews] /\ call'[c] = Call0
           /\ \A d \in Call : d # c => call'[d] = call[d]
  BY ReviewTyped, FreshCall

(* A call begins with the record it has read.                              *)
LEMMA AdmitDoes ==
    ASSUME TypeOK, NEW c \in Call, NEW r \in Record, Admit(c, r)
    PROVE  /\ call' \in [Call -> Reviews] /\ UNCHANGED <<status, by, audit, crashes>>
           /\ \A d \in Call : d # c => call'[d] = call[d]
           /\ call[c].step = "idle" /\ call'[c].id = r
           /\ call'[c].step = IF Revises[r] = NoRecord THEN "commit" ELSE "supersede"
<1> DEFINE new == [Call0 EXCEPT !.id = r,
                     !.step = IF Revises[r] = NoRecord THEN "commit" ELSE "supersede"]
<1>1. new \in Reviews /\ new.id = r
      /\ new.step = IF Revises[r] = NoRecord THEN "commit" ELSE "supersede"
  BY DEF Call0, Reviews, Step
<1>2. call' = [call EXCEPT ![c] = new] /\ call \in [Call -> Reviews]
      /\ UNCHANGED <<status, by, audit, crashes>> /\ call[c].step = "idle"
  BY ReviewTyped DEF Admit
<1> HIDE DEF new
<1> QED
  BY <1>1, <1>2

LEMMA RejectDoes ==
    ASSUME TypeOK, NEW c \in Call, NEW r \in Record, Reject(c, r)
    PROVE  /\ call' \in [Call -> Reviews] /\ UNCHANGED <<status, by, audit, crashes>>
           /\ \A d \in Call : d # c => call'[d] = call[d]
           /\ call[c].step = "idle" /\ call'[c].id = r /\ call'[c].step = "reject"
<1> DEFINE new == [Call0 EXCEPT !.id = r, !.step = "reject"]
<1>1. new \in Reviews /\ new.id = r /\ new.step = "reject"
  BY DEF Call0, Reviews, Step
<1>2. call' = [call EXCEPT ![c] = new] /\ call \in [Call -> Reviews]
      /\ UNCHANGED <<status, by, audit, crashes>> /\ call[c].step = "idle"
  BY ReviewTyped DEF Reject
<1> HIDE DEF new
<1> QED
  BY <1>1, <1>2

-----------------------------------------------------------------------------
(* What is superseded or gone stays so, and by the same version.           *)

Stays ==
  \A x \in Record : status[x] \in {"superseded", "absent"} =>
    \/ status'[x] = status[x] /\ by'[x] = by[x]
    \/ status'[x] = "absent"

LEMMA SucceedsStays ==
    ASSUME Stays, NEW r \in Record, Revises[r] # NoRecord, Succeeds(r) PROVE Succeeds(r)'
  BY AdmissionAssumption DEF Stays, Succeeds

(* Where nothing becomes current, and no call sets out to commit, what is  *)
(* current and what is about to be stay the successors they are.           *)
LEMMA SoundKept ==
    ASSUME TypeOK, OneSuccessor, Stays,
           \A r \in Record : Current(r)' => Current(r)
    PROVE  OneSuccessor'
  BY SucceedsStays DEF OneSuccessor, Succeeds

LEMMA CallKept ==
    ASSUME Stays, NEW c \in Call, CallSound(c), call'[c] = call[c] PROVE CallSound(c)'
  BY SucceedsStays DEF CallSound

LEMMA IdleSound == ASSUME NEW c \in Call, call'[c].step = "idle" PROVE CallSound(c)'
  BY DEF CallSound

(* The trail after a step that ends no call which has something to write,  *)
(* and decides nothing.                                                    *)
LEMMA TrailKept ==
    ASSUME Trail, crashes' = crashes, audit \subseteq audit',
           \A c \in Call : \/ call[c].step = "log" => call'[c] = call[c]
                           \/ <<call[c].answer, call[c].id>> \in audit',
           \A r \in Record : /\ Current(r)' => Current(r) \/ r \in Direct \/ Audited("admit", r)'
                             /\ status'[r] = "rejected" =>
                                  status[r] = "rejected" \/ Audited("reject", r)'
    PROVE  Trail'
<1>1. ASSUME NEW answer, NEW r, Audited(answer, r) PROVE Audited(answer, r)'
  BY <1>1 DEF Audited, Writing
<1> QED
  BY <1>1 DEF Trail

-----------------------------------------------------------------------------
(* One lemma for the steps of each operation.                              *)

Sounds == \A c \in Call : CallSound(c)

LEMMA ProposeStep == ASSUME ReviewInv, NEW r \in Record, Propose(r) PROVE ReviewInv'
<1>1. /\ TypeOK /\ OneSuccessor /\ Sounds /\ Trail /\ status[r] = "unsent"
      /\ status' = [status EXCEPT ![r] = "candidate"] /\ UNCHANGED <<by, call, audit, crashes>>
  BY DEF ReviewInv, Propose, Sounds
<1>2. /\ status' \in [Record -> Status] /\ status'[r] = "candidate"
      /\ \A x \in Record : x # r => status'[x] = status[x]
  BY <1>1, ReviewTyped DEF Status
<1>3. TypeOK' /\ Stays
  BY <1>1, <1>2, ReviewTyped DEF TypeOK, Stays
<1>4. \A x \in Record : Current(x)' => Current(x)
  BY <1>2 DEF Current
<1>5. OneSuccessor' /\ Sounds'
  BY <1>1, <1>3, <1>4, SoundKept, CallKept DEF Sounds
<1>6. Trail'
  BY <1>1, <1>2, <1>4, TrailKept
<1> QED
  BY <1>3, <1>5, <1>6 DEF ReviewInv, Sounds

LEMMA CommitStep == ASSUME ReviewInv, NEW r \in Record, Commit(r) PROVE ReviewInv'
<1>1. /\ TypeOK /\ OneSuccessor /\ Sounds /\ Trail /\ status[r] = "unsent" /\ r \in Direct
      /\ UNCHANGED <<call, audit, crashes>>
  BY DEF ReviewInv, Commit, Sounds
<1>2. /\ TypeOK' /\ Stays /\ Current(r)'
      /\ \A x \in Record : Current(x)' => Current(x) \/ x = r
      /\ \A x \in Record : status'[x] = "rejected" => status[x] = "rejected"
      /\ Revises[r] # NoRecord => Succeeds(r)'
  <2>1. CASE Revises[r] = NoRecord
    <3>1. status' = [status EXCEPT ![r] = "committed"] /\ by' = by
      BY <2>1 DEF Commit
    <3>2. /\ status' \in [Record -> Status] /\ status'[r] = "committed"
          /\ \A x \in Record : x # r => status'[x] = status[x]
      BY <1>1, <3>1, ReviewTyped DEF Status
    <3>3. TypeOK' /\ Stays
      BY <1>1, <3>1, <3>2, ReviewTyped DEF TypeOK, Stays
    <3> QED
      BY <2>1, <3>2, <3>3 DEF Current
  <2>2. CASE Revises[r] # NoRecord
    <3>1. PICK o \in Record : o = Revises[r] /\ o # r
      BY <2>2, AdmissionAssumption
    <3>2. /\ status[o] = "committed" /\ by' = [by EXCEPT ![o] = r]
          /\ status' = [status EXCEPT ![r] = "committed", ![o] = "superseded"]
      BY <2>2, <3>1 DEF Commit
    <3>3. /\ status' \in [Record -> Status] /\ status'[r] = "committed"
          /\ status'[o] = "superseded" /\ by'[o] = r
          /\ by' \in [Record -> Record \cup {NoRecord}]
          /\ \A x \in Record : x # r /\ x # o => status'[x] = status[x]
          /\ \A x \in Record : x # o => by'[x] = by[x]
      BY <1>1, <3>1, <3>2, ReviewTyped DEF Status
    <3>4. TypeOK' /\ Stays
      BY <1>1, <3>2, <3>3, ReviewTyped DEF TypeOK, Stays
    <3> QED
      BY <3>1, <3>2, <3>3, <3>4 DEF Current, Succeeds
  <2> QED
    BY <2>1, <2>2
<1>3. OneSuccessor'
  BY <1>1, <1>2, SucceedsStays DEF OneSuccessor, Succeeds
<1>4. Sounds'
  BY <1>1, <1>2, CallKept DEF Sounds
<1>5. Trail'
  BY <1>1, <1>2, TrailKept
<1> QED
  BY <1>2, <1>3, <1>4, <1>5 DEF ReviewInv, Sounds

LEMMA AdmitStep ==
    ASSUME ReviewInv, NEW c \in Call, NEW r \in Record, Admit(c, r) PROVE ReviewInv'
<1>1. /\ TypeOK /\ OneSuccessor /\ Sounds /\ Trail
      /\ call' \in [Call -> Reviews] /\ UNCHANGED <<status, by, audit, crashes>>
      /\ \A d \in Call : d # c => call'[d] = call[d]
      /\ call[c].step = "idle" /\ call'[c].id = r
      /\ call'[c].step = IF Revises[r] = NoRecord THEN "commit" ELSE "supersede"
  BY AdmitDoes DEF ReviewInv, Sounds
<1>2. TypeOK' /\ Stays /\ \A x \in Record : Current(x)' => Current(x)
  BY <1>1, ReviewTyped DEF TypeOK, Reviews, Stays, Current
<1>3. CallSound(c)'
  BY <1>1 DEF CallSound
<1>4. OneSuccessor' /\ Sounds'
  BY <1>1, <1>2, <1>3, SoundKept, CallKept DEF Sounds
<1>5. Trail'
  BY <1>1, <1>2, TrailKept
<1> QED
  BY <1>2, <1>4, <1>5 DEF ReviewInv, Sounds

LEMMA RejectStep ==
    ASSUME ReviewInv, NEW c \in Call, NEW r \in Record, Reject(c, r) PROVE ReviewInv'
<1>1. /\ TypeOK /\ OneSuccessor /\ Sounds /\ Trail
      /\ call' \in [Call -> Reviews] /\ UNCHANGED <<status, by, audit, crashes>>
      /\ \A d \in Call : d # c => call'[d] = call[d]
      /\ call[c].step = "idle" /\ call'[c].id = r /\ call'[c].step = "reject"
  BY RejectDoes DEF ReviewInv, Sounds
<1>2. TypeOK' /\ Stays /\ \A x \in Record : Current(x)' => Current(x)
  BY <1>1, ReviewTyped DEF TypeOK, Reviews, Stays, Current
<1>3. CallSound(c)'
  BY <1>1 DEF CallSound
<1>4. OneSuccessor' /\ Sounds'
  BY <1>1, <1>2, <1>3, SoundKept, CallKept DEF Sounds
<1>5. Trail'
  BY <1>1, <1>2, TrailKept
<1> QED
  BY <1>2, <1>4, <1>5 DEF ReviewInv, Sounds

LEMMA AdmitSupersedesStep ==
    ASSUME ReviewInv, NEW c \in Call, AdmitSupersedes(c) PROVE ReviewInv'
<1>1. /\ TypeOK /\ OneSuccessor /\ Sounds /\ Trail
      /\ call[c].step = "supersede" /\ UNCHANGED <<audit, crashes>>
  BY DEF ReviewInv, AdmitSupersedes, Sounds
<1>2. PICK r \in Record : r = call[c].id /\ Revises[r] # NoRecord
  BY <1>1 DEF Sounds, CallSound
<1>3. PICK o \in Record : o = Revises[r]
  BY <1>2, AdmissionAssumption
<1>4. /\ TypeOK' /\ Stays /\ \A x \in Record : Current(x)' => Current(x)
      /\ \A x \in Record : status'[x] = "rejected" => status[x] = "rejected"
      /\ \A d \in Call : d # c => call'[d] = call[d]
      /\ CallSound(c)'
  <2>1. CASE Supersede(o, r) /\ Goto(c, "commit")
    <3>1. /\ status' \in [Record -> Status] /\ by' \in [Record -> Record \cup {NoRecord}]
          /\ status[o] = "committed" /\ status'[o] = "superseded" /\ by'[o] = r
          /\ \A x \in Record : x # o => status'[x] = status[x] /\ by'[x] = by[x]
      BY <1>1, <2>1, Supersedes
    <3>2. /\ call' \in [Call -> Reviews]
          /\ \A d \in Call : d # c => call'[d] = call[d]
          /\ call'[c].step = "commit" /\ call'[c].id = call[c].id
      BY <1>1, <2>1, GoesTo DEF Step
    <3>3. TypeOK' /\ Stays
      BY <1>1, <3>1, <3>2, ReviewTyped DEF TypeOK, Reviews, Stays
    <3>4. CallSound(c)'
      BY <1>2, <1>3, <3>1, <3>2 DEF CallSound, Succeeds
    <3> QED
      BY <3>1, <3>2, <3>3, <3>4 DEF Current
  <2>2. CASE Goto(c, "refuse") /\ UNCHANGED <<status, by>>
    <3>1. /\ call' \in [Call -> Reviews]
          /\ \A d \in Call : d # c => call'[d] = call[d]
          /\ call'[c].step = "refuse" /\ call'[c].id = call[c].id
      BY <1>1, <2>2, GoesTo DEF Step
    <3>2. TypeOK' /\ Stays
      BY <1>1, <2>2, <3>1, ReviewTyped DEF TypeOK, Reviews, Stays
    <3>3. CallSound(c)'
      BY <1>2, <3>1 DEF CallSound
    <3> QED
      BY <2>2, <3>1, <3>2, <3>3 DEF Current
  <2> QED
    BY <1>2, <1>3, <2>1, <2>2 DEF AdmitSupersedes
<1>5. OneSuccessor' /\ Sounds'
  BY <1>1, <1>4, SoundKept, CallKept DEF Sounds
<1>6. Trail'
  BY <1>1, <1>4, TrailKept
<1> QED
  BY <1>4, <1>5, <1>6 DEF ReviewInv, Sounds

(* A call that has decided goes on to write it.                            *)
LEMMA Decides ==
    ASSUME ReviewInv, NEW c \in Call, call[c].step \in {"refuse", "commit", "reject"},
           NEW answer \in {"admit", "reject"}, Answers(c, answer), UNCHANGED <<by, audit, crashes>>,
           NEW to \in {"committed", "rejected"}, SetStatus(call[c].id, to),
           (to = "committed") <=> (answer = "admit"),
           to = "committed" => call[c].step = "commit"
    PROVE  ReviewInv'
<1>1. TypeOK /\ OneSuccessor /\ Sounds /\ Trail
  BY DEF ReviewInv, Sounds
<1>2. PICK r \in Record : r = call[c].id
  BY <1>1 DEF Sounds, CallSound
<1>3. /\ status' \in [Record -> Status]
      /\ \A x \in Record : x # r => status'[x] = status[x]
      /\ \/ <<status[r], to>> \in Lifecycle /\ status'[r] = to
         \/ <<status[r], to>> \notin Lifecycle /\ status' = status
  BY <1>1, <1>2, SetsStatus DEF Status
<1>4. <<status[r], to>> \in Lifecycle => status[r] \notin {"superseded", "absent"}
  BY DEF Lifecycle
<1>5. /\ call' \in [Call -> Reviews]
      /\ \A d \in Call : d # c => call'[d] = call[d]
      /\ call'[c].step = "log" /\ call'[c].id = r /\ call'[c].answer = answer
  BY <1>1, <1>2, AnswersWith
<1>6. TypeOK' /\ Stays
  BY <1>1, <1>3, <1>4, <1>5, ReviewTyped DEF TypeOK, Reviews, Stays
<1>7. CallSound(c)'
  BY <1>5 DEF CallSound
<1>8. Sounds'
  BY <1>1, <1>5, <1>6, <1>7, CallKept DEF Sounds
<1>9. OneSuccessor'
  <2>1. ASSUME NEW x \in Record, Revises[x] # NoRecord, Current(x)' PROVE Succeeds(x)
    <3>1. CASE Current(x)
      BY <1>1, <2>1, <3>1 DEF OneSuccessor, Succeeds
    <3>2. CASE ~Current(x)
      <4>1. x = r /\ call[c].step = "commit"
        BY <1>3, <2>1, <3>2 DEF Current
      <4> QED
        BY <1>1, <1>2, <2>1, <4>1 DEF Sounds, CallSound
    <3> QED
      BY <3>1, <3>2
  <2> QED
    BY <1>6, <2>1, SucceedsStays DEF OneSuccessor, Succeeds
<1>10. Trail'
  <2>1. Audited(answer, r)'
    BY <1>5 DEF Audited, Writing
  <2>2. \A x \in Record : /\ Current(x)' => Current(x) \/ Audited("admit", x)'
                          /\ status'[x] = "rejected" =>
                               status[x] = "rejected" \/ Audited("reject", x)'
    BY <1>3, <2>1 DEF Current
  <2> QED
    BY <1>1, <1>5, <2>2, TrailKept
<1> QED
  BY <1>6, <1>8, <1>9, <1>10 DEF ReviewInv, Sounds

(* A call that ends having decided nothing, or nothing that is unwritten.  *)
LEMMA EndStep ==
    ASSUME ReviewInv, NEW c \in Call, call' = [call EXCEPT ![c] = Call0], UNCHANGED <<status, by>>,
           audit \subseteq audit', audit' \subseteq {"admit", "reject"} \X Record,
           crashes' \in 0..MaxCrashes,
           \/ /\ crashes' = crashes
              /\ call[c].step = "log" => <<call[c].answer, call[c].id>> \in audit'
           \/ crashes' # 0
    PROVE  ReviewInv'
<1>1. TypeOK /\ OneSuccessor /\ Sounds /\ Trail
  BY DEF ReviewInv, Sounds
<1>2. /\ call' \in [Call -> Reviews] /\ call'[c].step = "idle"
      /\ \A d \in Call : d # c => call'[d] = call[d]
  BY <1>1, EndsCall, FreshCall
<1>3. TypeOK' /\ Stays /\ \A x \in Record : Current(x)' => Current(x)
  BY <1>1, <1>2, ReviewTyped DEF TypeOK, Reviews, Stays, Current
<1>4. OneSuccessor' /\ Sounds'
  BY <1>1, <1>2, <1>3, SoundKept, CallKept, IdleSound DEF Sounds
<1>5. CASE crashes' # 0
  BY <1>3, <1>4, <1>5 DEF ReviewInv, Sounds, Trail
<1>6. CASE crashes' = crashes /\ (call[c].step = "log" => <<call[c].answer, call[c].id>> \in audit')
  <2>1. Trail'
    BY <1>1, <1>2, <1>3, <1>6, TrailKept
  <2> QED
    BY <1>3, <1>4, <2>1 DEF ReviewInv, Sounds
<1> QED
  BY <1>5, <1>6

LEMMA RejectUpdatesStep ==
    ASSUME ReviewInv, NEW c \in Call, RejectUpdates(c) PROVE ReviewInv'
<1>1. CASE SetStatus(call[c].id, "rejected") /\ Answers(c, "reject")
  BY <1>1, Decides DEF RejectUpdates
<1>2. CASE call' = [call EXCEPT ![c] = Call0] /\ UNCHANGED status
  <2>1. audit \subseteq {"admit", "reject"} \X Record /\ crashes \in 0..MaxCrashes
    BY ReviewTyped DEF ReviewInv
  <2> QED
    BY <1>2, <2>1, EndStep DEF RejectUpdates
<1> QED
  BY <1>1, <1>2 DEF RejectUpdates

LEMMA LogStep == ASSUME ReviewInv, NEW c \in Call, Log(c) PROVE ReviewInv'
<1>1. /\ call[c].id \in Record /\ call[c].answer \in {"admit", "reject"}
      /\ audit \subseteq {"admit", "reject"} \X Record /\ crashes \in 0..MaxCrashes
  BY ReviewTyped DEF ReviewInv, Log, CallSound
<1>2. /\ audit' = audit \cup {<<call[c].answer, call[c].id>>}
      /\ call' = [call EXCEPT ![c] = Call0] /\ UNCHANGED <<status, by, crashes>>
  BY DEF Log
<1>3. <<call[c].answer, call[c].id>> \in {"admit", "reject"} \X Record
  BY <1>1
<1>4. /\ audit \subseteq audit' /\ audit' \subseteq {"admit", "reject"} \X Record
      /\ <<call[c].answer, call[c].id>> \in audit'
  BY <1>1, <1>2, <1>3
<1> QED
  BY <1>1, <1>2, <1>4, EndStep

LEMMA CrashStep == ASSUME ReviewInv, NEW c \in Call, Crash(c) PROVE ReviewInv'
<1>1. /\ audit \subseteq {"admit", "reject"} \X Record
      /\ crashes \in 0..MaxCrashes /\ MaxCrashes \in Nat
  BY ReviewTyped, AdmissionAssumption DEF ReviewInv
<1>2. /\ crashes' = crashes + 1 /\ crashes < MaxCrashes
      /\ call' = [call EXCEPT ![c] = Call0] /\ UNCHANGED <<status, by, audit>>
  BY DEF Crash
<1>3. crashes' \in 0..MaxCrashes /\ crashes' # 0
  BY <1>1, <1>2
<1> QED
  BY <1>1, <1>2, <1>3, EndStep

LEMMA ExpireStep == ASSUME ReviewInv, NEW r \in Record, Expire(r) PROVE ReviewInv'
<1>1. /\ TypeOK /\ OneSuccessor /\ Sounds /\ Trail
      /\ <<status[r], "expired">> \in Lifecycle /\ SetStatus(r, "expired")
      /\ UNCHANGED <<by, call, audit, crashes>>
  BY DEF ReviewInv, Expire, Sounds
<1>2. /\ status' \in [Record -> Status] /\ status'[r] = "expired"
      /\ \A x \in Record : x # r => status'[x] = status[x]
  BY <1>1, SetsStatus DEF Status
<1>3. status[r] \notin {"superseded", "absent"}
  BY <1>1 DEF Lifecycle
<1>4. TypeOK' /\ Stays /\ \A x \in Record : Current(x)' => Current(x)
  BY <1>1, <1>2, <1>3, ReviewTyped DEF TypeOK, Stays, Current
<1>5. OneSuccessor' /\ Sounds'
  BY <1>1, <1>4, SoundKept, CallKept DEF Sounds
<1>6. Trail'
  BY <1>1, <1>2, <1>4, TrailKept
<1> QED
  BY <1>4, <1>5, <1>6 DEF ReviewInv, Sounds

LEMMA ForgetKeeps == ASSUME ReviewInv, NEW r \in Record, Forget(r) PROVE ReviewInv'
<1>1. /\ TypeOK /\ OneSuccessor /\ Sounds /\ Trail
      /\ status' = [status EXCEPT ![r] = "absent"] /\ by' = [by EXCEPT ![r] = NoRecord]
      /\ UNCHANGED <<call, audit, crashes>>
  BY DEF ReviewInv, Forget, Sounds
<1>2. /\ status' \in [Record -> Status] /\ by' \in [Record -> Record \cup {NoRecord}]
      /\ status'[r] = "absent"
      /\ \A x \in Record : x # r => status'[x] = status[x] /\ by'[x] = by[x]
  BY <1>1, ReviewTyped DEF Status
<1>3. TypeOK' /\ Stays /\ \A x \in Record : Current(x)' => Current(x)
  BY <1>1, <1>2, ReviewTyped DEF TypeOK, Stays, Current
<1>4. OneSuccessor' /\ Sounds'
  BY <1>1, <1>3, SoundKept, CallKept DEF Sounds
<1>5. Trail'
  BY <1>1, <1>2, <1>3, TrailKept
<1> QED
  BY <1>3, <1>4, <1>5 DEF ReviewInv, Sounds

LEMMA ReviewStep == ReviewInv /\ [Next]_vars => ReviewInv'
<1> SUFFICES ASSUME ReviewInv, [Next]_vars PROVE ReviewInv'
  OBVIOUS
<1>1. ASSUME NEW c \in Call, AdmitRefuses(c) PROVE ReviewInv'
  BY <1>1, Decides DEF AdmitRefuses
<1>2. ASSUME NEW c \in Call, AdmitCommits(c) PROVE ReviewInv'
  BY <1>2, Decides DEF AdmitCommits
<1>3. CASE UNCHANGED vars
  BY <1>3 DEF vars, ReviewInv, TypeOK, OneSuccessor, Current, CallSound, Succeeds, Trail, Audited,
              Writing
<1> QED
  BY <1>1, <1>2, <1>3, ProposeStep, CommitStep, ExpireStep, ForgetKeeps, AdmitStep, RejectStep,
     AdmitSupersedesStep, RejectUpdatesStep, LogStep, CrashStep DEF Next, Review

LEMMA ReviewInit == Init => ReviewInv
<1> SUFFICES ASSUME Init PROVE ReviewInv
  OBVIOUS
<1>1. /\ \A r \in Record : status[r] = IF r \in Original THEN "committed" ELSE "unsent"
      /\ \A c \in Call : call[c].step = "idle"
      /\ call \in [Call -> Reviews]
  BY FreshCall DEF Init
<1>2. TypeOK
  BY <1>1, AdmissionAssumption DEF Init, TypeOK, Reviews, Status
<1>3. OneSuccessor
  BY <1>1, AdmissionAssumption DEF OneSuccessor, Current
<1>4. Trail /\ \A c \in Call : CallSound(c)
  BY <1>1 DEF Trail, CallSound, Current
<1> QED
  BY <1>2, <1>3, <1>4 DEF ReviewInv

-----------------------------------------------------------------------------
(* The theorems.                                                           *)

LEMMA ReviewAlways == Spec => []ReviewInv
  BY ReviewInit, ReviewStep, PTL DEF Spec

(* Records, reviews in flight and the trail keep the shape of the tables.  *)
THEOREM AdmissionTypeCorrect == Spec => []TypeOK
<1>1. ReviewInv => TypeOK
  BY DEF ReviewInv
<1> QED
  BY <1>1, ReviewAlways, PTL

(* Of any number of revisions of one version, under any number of          *)
(* reviewers and with the pipeline committing beside them, one at most is  *)
(* current: the version is superseded by a statement that tells the loser, *)
(* and only what it has superseded is committed.                           *)
THEOREM OneSuccessorHolds == Spec => []OneSuccessor
<1>1. ReviewInv => OneSuccessor
  BY DEF ReviewInv
<1> QED
  BY <1>1, ReviewAlways, PTL

(* Every admission and rejection is in the trail once its calls are over,  *)
(* if none died half way.                                                  *)
THEOREM DecisionsAuditedHolds == Spec => []DecisionsAudited
<1>1. ReviewInv => DecisionsAudited
  BY DEF ReviewInv, Trail, Audited, Writing, DecisionsAudited
<1> QED
  BY <1>1, ReviewAlways, PTL

LEMMA FinalStep ==
    ASSUME ReviewInv, [Next]_vars, NEW r \in Record,
           status[r] \in {"superseded", "rejected", "expired"}
    PROVE  status'[r] \in {status[r], "absent"}
<1>1. TypeOK /\ \A c \in Call : CallSound(c)
  BY DEF ReviewInv
<1>2. ASSUME NEW x \in Record, NEW to \in Status, SetStatus(x, to)
      PROVE  status'[r] = status[r]
  <2>1. <<status[r], to>> \notin Lifecycle
    BY DEF Lifecycle
  <2> QED
    BY <1>1, <1>2, <2>1, SetsStatus
<1>3. ASSUME NEW x \in Record, Propose(x) PROVE status'[r] = status[r]
  BY <1>1, <1>3, ReviewTyped DEF Propose
<1>4. ASSUME NEW x \in Record, Commit(x) PROVE status'[r] = status[r]
  <2>1. r # x /\ (Revises[x] # NoRecord => Revises[x] # r)
    BY <1>4 DEF Commit
  <2> QED
    BY <1>1, <1>4, <2>1, ReviewTyped DEF Commit
<1>5. ASSUME NEW x \in Record, Expire(x) PROVE status'[r] = status[r]
  BY <1>2, <1>5 DEF Expire, Status
<1>6. ASSUME NEW x \in Record, Forget(x) PROVE status'[r] \in {status[r], "absent"}
  BY <1>1, <1>6, ReviewTyped DEF Forget
<1>7. ASSUME NEW c \in Call, AdmitSupersedes(c) PROVE status'[r] = status[r]
  <2>1. CASE Supersede(Revises[call[c].id], call[c].id)
    BY <1>1, <2>1, ReviewTyped DEF Supersede
  <2> QED
    BY <1>7, <2>1 DEF AdmitSupersedes
<1>8. ASSUME NEW c \in Call, AdmitRefuses(c) \/ AdmitCommits(c) \/ RejectUpdates(c)
      PROVE  status'[r] = status[r]
  <2>1. call[c].id \in Record
    BY <1>1, <1>8 DEF CallSound, AdmitRefuses, AdmitCommits, RejectUpdates
  <2> QED
    BY <1>2, <1>8, <2>1 DEF AdmitRefuses, AdmitCommits, RejectUpdates, Status
<1>9. ASSUME NEW c \in Call, Log(c) \/ Crash(c) PROVE status'[r] = status[r]
  BY <1>9 DEF Log, Crash
<1>10. ASSUME NEW c \in Call, NEW x \in Record, Admit(c, x) \/ Reject(c, x)
       PROVE  status'[r] = status[r]
  BY <1>10 DEF Admit, Reject
<1>11. CASE UNCHANGED vars
  BY <1>11 DEF vars
<1> QED
  BY <1>3, <1>4, <1>5, <1>6, <1>7, <1>8, <1>9, <1>10, <1>11 DEF Next, Review

(* No statement, however late, moves a record out of a final state.        *)
THEOREM FinalStatesStayHolds == Spec => FinalStatesStay
<1>1. ReviewInv /\ [Next]_vars =>
        [\A r \in Record : status[r] \in {"superseded", "rejected", "expired"} =>
           status'[r] \in {status[r], "absent"}]_vars
  BY FinalStep
<1> QED
  BY <1>1, ReviewAlways, PTL DEF Spec, FinalStatesStay

-----------------------------------------------------------------------------
(* Forgets: what one has seen to by each of its steps.                     *)

(* What a call holds.  What a batch consists of does not matter, but for   *)
(* the one element that a forget of a record or a subject begins with.     *)
Things == Memory \cup {Attr[w].subject : w \in Write} \cup {target.value : target \in Targets}

Calls ==
  [at : Steps, scope : Scopes \cup {None}, value : {target.value : target \in Targets} \cup {None},
   before : Nat, rounds : Int, batch : SUBSET Things]

Knowledge ==
  [writes : SUBSET Write, records : SUBSET Memory, keys : SUBSET Write,
   recalls : SUBSET Recalls, links : SUBSET Links]

ErasureTypes ==
  /\ accepted \subseteq Write /\ queue \subseteq accepted
  /\ owed \subseteq accepted /\ keys \subseteq accepted \ owed
  /\ attempt \in [Write -> {"none", "embedding", "embedded"}]
  /\ deriving \in [Round -> {"none", "read", "embedded"}]
  /\ jobs \in [Round -> {"none", "waiting", "done"}]
  /\ slow \subseteq accepted
  /\ stored \subseteq Memory /\ erased \subseteq Memory /\ late \subseteq Memory
  /\ recalls \subseteq Recalls \cap asked /\ spawned \subseteq Recalls \cap asked
  /\ recalls \cap spawned = {} /\ links \subseteq Links \cap asked
  /\ forget \in [Forgets -> Calls] /\ known \in [Forgets -> Knowledge]

(* A record was once stored, and so its write is no longer queued and no   *)
(* attempt embeds it, but one that outlived its lease, which the erasure   *)
(* then noted.                                                             *)
Was(r) == r \in stored \cup erased

Landed ==
  \A w \in Write :
    /\ w \in queue => ~Was(Stated(w))
    /\ attempt[w] = "embedding" => w \in accepted /\ ~Was(Stated(w))
    /\ attempt[w] = "embedded" => w \in accepted
    /\ w \in slow /\ Stated(w) \in erased => Stated(w) \in late
    /\ Was(Stated(w)) => w \in accepted

(* A fact is derived once, from a round that is stored or was erased after *)
(* it had been read.                                                       *)
Derived ==
  \A w \in Round :
    /\ jobs[w] # "none" => Stated(w) \in stored
    /\ jobs[w] = "waiting" \/ deriving[w] # "none" => ~Was(FactOf(w))
    /\ deriving[w] # "none" => Was(Stated(w))
    /\ Was(FactOf(w)) => Was(Stated(w))
    /\ deriving[w] # "none" \/ FactOf(w) \in stored =>
         Stated(w) \in stored \/ FactOf(w) \in late

OnlyRounds == \A r \in stored \cup erased : r.derived => r.write \in Round

(* What a call knew was there when it began, and is not there anew.        *)
Knew ==
  \A f \in Forgets :
    /\ known[f].writes \subseteq accepted
    /\ \A r \in known[f].records : Was(r)
    /\ known[f].keys \subseteq accepted \ owed
    /\ known[f].recalls \subseteq asked \ spawned
    /\ known[f].links \subseteq asked

(* What a call has seen to at each of its steps.                           *)
Fitting(f) == {w \in known[f].writes : Asks(f, Stated(w))}

Unqueued(f) == Fitting(f) \cap queue = {}

Unstored(f) ==
  /\ \A w \in Fitting(f) : Stated(w) \notin stored
  /\ \A r \in known[f].records : Asks(f, r) => r \notin stored

KeysGone(f) == \A w \in known[f].keys \cap keys : ~Whose(f, Attr[w].subject)

RecallsGone(f) == \A q \in known[f].recalls \cap recalls : ~Whose(f, RecallOf[q].subject)

LinksGone(f) ==
  \A l \in known[f].links \cap links :
    ~Whose(f, LinkOf[l].subject) /\ ~Whose(f, LinkOf[l].linked)

UsersRecallsGone(f) ==
  \A q \in known[f].recalls \cap recalls : RecallOf[q].user # forget[f].value

Looped == {"user", "agent", "source"}

Progress(f) ==
  LET c == forget[f] IN
  /\ c.at = "discard" => c.scope # "subject"
  /\ c.at \in {"count", "match", "recalls", "left", "failed"} => c.scope \in Looped
  /\ c.at \in {"discard", "delete"} /\ c.scope = "record" => c.batch = {c.value}
  /\ c.at = "delete" => c.scope \in Looped \cup {"record"}
  /\ c.at = "erase" => c.scope = "tenant" \/ (c.scope = "subject" /\ c.batch = {c.value})
  /\ c.at \in {"subjects", "rows"} => c.scope = "tenant"
  /\ c.at = "rows" => c.rounds \in 1 .. 5
  /\ c.at # "idle" => c.scope \in Scopes
  /\ c.scope = "subject" => c.at \in {"erase", "done"}
  /\ c.at \notin {"idle", "discard"} /\ (c.scope = "subject" => c.at = "done") => Unqueued(f)
  /\ c.at \in {"rows", "done"} => Unstored(f)
  /\ (c.at = "rows" /\ c.rounds > 2) \/ c.at \in {"done", "failed"} => LinksGone(f)
  /\ (c.at = "rows" /\ c.rounds > 3) \/ c.at \in {"done", "failed"} => KeysGone(f)
  /\ (c.at = "rows" /\ c.rounds > 4) \/ c.at \in {"done", "failed"} => RecallsGone(f)
  /\ c.at \in {"left", "done", "failed"} /\ c.scope = "user" => UsersRecallsGone(f)

ErasureInv ==
  /\ ErasureTypes /\ Landed /\ Derived /\ OnlyRounds /\ Knew /\ VectorsHaveCause
  /\ \A f \in Forgets : Progress(f)

-----------------------------------------------------------------------------
(* What goes on beside a call, to what it has seen to and what it knew.    *)
Grows ==
  /\ accepted \subseteq accepted' /\ queue' \cap accepted \subseteq queue
  /\ stored \cup erased \subseteq stored' \cup erased'
  /\ \A r \in stored' \ stored : ~Was(r) /\ (r.derived \/ r.write \in queue)
  /\ owed' \cap accepted \subseteq owed /\ keys' \subseteq keys \cup owed
  /\ asked \subseteq asked' /\ links' \cap asked \subseteq links
  /\ spawned' \cap asked \subseteq spawned /\ recalls' \subseteq recalls \cup spawned

LEMMA Names ==
  /\ \A w \in Write : /\ Stated(w) \in Memory /\ FactOf(w) \in Memory
                      /\ Stated(w).write = w /\ FactOf(w).write = w
                      /\ Stated(w).derived = FALSE /\ FactOf(w).derived = TRUE
  /\ \A r \in Memory : /\ r.write \in Write
                       /\ r.derived => r = FactOf(r.write)
                       /\ ~r.derived => r = Stated(r.write)
  BY DEF Stated, FactOf, Memory

LEMMA Typed ==
  ASSUME ErasureTypes, NEW f \in Forgets
  PROVE  forget[f] \in Calls /\ known[f] \in Knowledge
  BY DEF ErasureTypes

LEMMA Knows ==
  ASSUME ErasureTypes, NEW f \in Forgets
  PROVE  /\ known[f].writes \subseteq Write /\ known[f].records \subseteq Memory
         /\ Fitting(f) \subseteq Write
  BY Typed DEF Knowledge, Fitting

LEMMA ProgressStays ==
  ASSUME ErasureInv, Grows, NEW f \in Forgets, forget'[f] = forget[f], known'[f] = known[f]
  PROVE  Progress(f)'
<1>1. Progress(f) /\ ErasureTypes /\ Knew
  BY DEF ErasureInv
<1>2. Fitting(f)' = Fitting(f) /\ Fitting(f) \subseteq accepted
  BY <1>1 DEF Fitting, Asks, Knew
<1>3. Unqueued(f) => Unqueued(f)'
  BY <1>2 DEF Unqueued, Grows
<1>4. Unqueued(f) /\ Unstored(f) => Unstored(f)'
  <2> SUFFICES ASSUME Unqueued(f), Unstored(f) PROVE Unstored(f)'
    OBVIOUS
  <2>1. ASSUME NEW w \in Fitting(f) PROVE Stated(w) \notin stored'
    <3>1. w \in Write /\ w \notin queue /\ Stated(w) \notin stored
      BY <1>1, <2>1, Knows DEF Unqueued, Unstored
    <3> QED
      BY <3>1, Names DEF Grows
  <2>2. ASSUME NEW r \in known[f].records, Asks(f, r) PROVE r \notin stored'
    BY <1>1, <2>2 DEF Knew, Grows, Unstored
  <2> QED
    BY <1>2, <2>1, <2>2 DEF Unstored, Asks
<1>5. KeysGone(f) => KeysGone(f)'
  BY <1>1 DEF KeysGone, Whose, Knew, Grows
<1>6. RecallsGone(f) => RecallsGone(f)'
  BY <1>1 DEF RecallsGone, Whose, Knew, Grows
<1>7. UsersRecallsGone(f) => UsersRecallsGone(f)'
  BY <1>1 DEF UsersRecallsGone, Knew, Grows
<1>8. LinksGone(f) => LinksGone(f)'
  BY <1>1 DEF LinksGone, Whose, Knew, Grows
<1>9. forget[f].at \in {"rows", "done"} => Unqueued(f)
  BY <1>1 DEF Progress
<1> QED
  BY <1>1, <1>3, <1>4, <1>5, <1>6, <1>7, <1>8, <1>9 DEF Progress

LEMMA KnewStays ==
  ASSUME ErasureInv, Grows, NEW f \in Forgets, known'[f] = known[f]
  PROVE  /\ known'[f].writes \subseteq accepted'
         /\ \A r \in known'[f].records : Was(r)'
         /\ known'[f].keys \subseteq accepted' \ owed'
         /\ known'[f].recalls \subseteq asked' \ spawned'
         /\ known'[f].links \subseteq asked'
<1>1. Knew
  BY DEF ErasureInv
<1>2. known[f].writes \subseteq accepted'
  BY <1>1 DEF Knew, Grows
<1>3. \A r \in known[f].records : Was(r)'
  BY <1>1 DEF Knew, Grows, Was
<1>4. known[f].keys \subseteq accepted' \ owed'
  BY <1>1 DEF Knew, Grows
<1>5. known[f].recalls \subseteq asked' \ spawned'
  BY <1>1 DEF Knew, Grows
<1>6. known[f].links \subseteq asked'
  BY <1>1 DEF Knew, Grows
<1> QED
  BY <1>2, <1>3, <1>4, <1>5, <1>6

(* A step that no call takes, and one that a call takes.                   *)
Sound == ErasureTypes /\ Landed /\ Derived /\ OnlyRounds /\ VectorsHaveCause

LEMMA Beside ==
  ASSUME ErasureInv, Grows, UNCHANGED calls, Sound'
  PROVE  ErasureInv'
<1>1. ASSUME NEW f \in Forgets PROVE Progress(f)'
  BY <1>1, ProgressStays DEF calls
<1>2. Knew'
  BY KnewStays DEF Knew, calls
<1> QED
  BY <1>1, <1>2 DEF ErasureInv, Sound

LEMMA Own ==
  ASSUME ErasureInv, Grows, NEW f \in Forgets, Sound', UNCHANGED known, Progress(f)',
         \A g \in Forgets : g # f => forget'[g] = forget[g]
  PROVE  ErasureInv'
<1>1. ASSUME NEW g \in Forgets PROVE Progress(g)'
  BY <1>1, ProgressStays
<1>2. Knew'
  BY KnewStays DEF Knew
<1> QED
  BY <1>1, <1>2 DEF ErasureInv, Sound

-----------------------------------------------------------------------------
(* Writes and the pipeline.                                                *)
LEMMA FactsSame ==
  ASSUME Derived, OnlyRounds, UNCHANGED <<stored, erased, late, jobs, deriving>>
  PROVE  Derived' /\ OnlyRounds'
  BY DEF Derived, OnlyRounds, Was

LEMMA VectorsSame ==
  ASSUME VectorsHaveCause, UNCHANGED <<stored, erased, late, vectors>>, accepted \subseteq accepted'
  PROVE  VectorsHaveCause'
  BY DEF VectorsHaveCause

LEMMA VectorComes ==
  ASSUME VectorsHaveCause, UNCHANGED <<stored, erased, late, accepted>>,
         NEW r \in Memory, r.write \in accepted, r \notin erased \ (stored \cup late),
         vectors' = vectors \cup {Text(r)}
  PROVE  VectorsHaveCause'
<1>1. ASSUME NEW t \in vectors'
      PROVE  \E x \in Memory : /\ x.write \in accepted' /\ Text(x) = t
                               /\ x \notin erased' \ (stored' \cup late')
  BY <1>1 DEF VectorsHaveCause
<1> QED
  BY <1>1 DEF VectorsHaveCause

LEMMA EnqueueKeeps == ASSUME ErasureInv, NEW w \in Write, Enqueue(w) PROVE ErasureInv'
<1>0. ErasureTypes /\ Landed /\ Derived /\ OnlyRounds /\ VectorsHaveCause
  BY DEF ErasureInv
<1>1. ErasureTypes'
  BY <1>0 DEF ErasureTypes, Enqueue, MayAsk, memory, workers, calls
<1>2. ~Was(Stated(w))
  BY <1>0 DEF Landed, Enqueue
<1>3. Landed'
  BY <1>0, <1>2 DEF Landed, Was, Enqueue, memory, workers
<1>4. Derived' /\ OnlyRounds' /\ VectorsHaveCause'
  BY <1>0, FactsSame, VectorsSame DEF Enqueue, memory, workers
<1>5. Grows
  BY <1>0 DEF ErasureTypes, Grows, Enqueue, MayAsk, memory
<1> QED
  BY <1>1, <1>3, <1>4, <1>5, Beside DEF Sound, Enqueue

LEMMA AcceptedKeyKeeps == ASSUME ErasureInv, NEW w \in Write, AcceptedKey(w) PROVE ErasureInv'
<1>0. ErasureTypes /\ Landed /\ Derived /\ OnlyRounds /\ VectorsHaveCause
  BY DEF ErasureInv
<1>1. ErasureTypes'
  BY <1>0 DEF ErasureTypes, AcceptedKey, writes, traces, memory, workers, calls
<1>2. Landed'
  BY <1>0 DEF Landed, Was, AcceptedKey, writes, memory, workers
<1>3. Derived' /\ OnlyRounds' /\ VectorsHaveCause'
  BY <1>0, FactsSame, VectorsSame DEF AcceptedKey, memory, workers, writes
<1>4. Grows
  BY <1>0 DEF ErasureTypes, Grows, AcceptedKey, writes, traces, memory
<1> QED
  BY <1>1, <1>2, <1>3, <1>4, Beside DEF Sound, AcceptedKey

LEMMA ClaimKeeps == ASSUME ErasureInv, NEW w \in Write, Claim(w) PROVE ErasureInv'
<1>0. ErasureTypes /\ Landed /\ Derived /\ OnlyRounds /\ VectorsHaveCause
  BY DEF ErasureInv
<1>1. ErasureTypes'
  BY <1>0 DEF ErasureTypes, Claim, writes, keyring, traces, memory, calls
<1>2. Landed'
  BY <1>0 DEF Landed, ErasureTypes, Was, Claim, writes, memory
<1>3. Derived' /\ OnlyRounds' /\ VectorsHaveCause'
  BY <1>0, FactsSame, VectorsSame DEF Claim, memory, writes
<1>4. Grows
  BY <1>0 DEF ErasureTypes, Grows, Claim, writes, keyring, traces, memory
<1> QED
  BY <1>1, <1>2, <1>3, <1>4, Beside DEF Sound, Claim

LEMMA EmbedPassagesKeeps == ASSUME ErasureInv, NEW w \in Write, EmbedPassages(w) PROVE ErasureInv'
<1>0. ErasureTypes /\ Landed /\ Derived /\ OnlyRounds /\ VectorsHaveCause
  BY DEF ErasureInv
<1>1. ErasureTypes'
  BY <1>0 DEF ErasureTypes, EmbedPassages, writes, keyring, traces, calls
<1>2. Landed'
  BY <1>0 DEF Landed, ErasureTypes, Was, EmbedPassages, writes
<1>3. Derived' /\ OnlyRounds'
  BY <1>0, FactsSame DEF EmbedPassages
<1>4. w \in accepted /\ Stated(w) \notin erased
  BY <1>0 DEF Landed, Was, EmbedPassages
<1>5. Stated(w) \in Memory /\ Stated(w).write = w /\ Text(Stated(w)) = Attr[w].text
  BY Names DEF Text
<1>6. VectorsHaveCause'
  BY <1>0, <1>4, <1>5, VectorComes DEF EmbedPassages, writes
<1>7. Grows
  BY <1>0 DEF ErasureTypes, Grows, EmbedPassages, writes, keyring, traces
<1> QED
  BY <1>1, <1>2, <1>3, <1>6, <1>7, Beside DEF Sound, EmbedPassages

LEMMA EmbedPassagesLateKeeps ==
  ASSUME ErasureInv, NEW w \in Write, EmbedPassagesLate(w) PROVE ErasureInv'
<1>0. ErasureTypes /\ Landed /\ Derived /\ OnlyRounds /\ VectorsHaveCause
  BY DEF ErasureInv
<1>1. ErasureTypes'
  BY <1>0 DEF ErasureTypes, EmbedPassagesLate, writes, keyring, traces, calls
<1>2. w \in accepted /\ Stated(w) \notin erased \ (stored \cup late)
  BY <1>0 DEF ErasureTypes, Landed, EmbedPassagesLate
<1>3. Landed'
  BY <1>0, <1>2 DEF Landed, ErasureTypes, Was, EmbedPassagesLate, writes
<1>4. Derived' /\ OnlyRounds'
  BY <1>0, FactsSame DEF EmbedPassagesLate
<1>5. Stated(w) \in Memory /\ Stated(w).write = w /\ Text(Stated(w)) = Attr[w].text
  BY Names DEF Text
<1>6. VectorsHaveCause'
  BY <1>0, <1>2, <1>5, VectorComes DEF EmbedPassagesLate, writes
<1>7. Grows
  BY <1>0 DEF ErasureTypes, Grows, EmbedPassagesLate, writes, keyring, traces
<1> QED
  BY <1>1, <1>3, <1>4, <1>6, <1>7, Beside DEF Sound, EmbedPassagesLate

LEMMA ApplyIntakeKeeps == ASSUME ErasureInv, NEW w \in Write, ApplyIntake(w) PROVE ErasureInv'
<1>0. ErasureTypes /\ Landed /\ Derived /\ OnlyRounds /\ VectorsHaveCause
  BY DEF ErasureInv
<1>a. /\ Stated(w) \in Memory /\ Stated(w).write = w /\ ~Stated(w).derived
      /\ \A v \in Write : Stated(v) = Stated(w) => v = w
      /\ \A v \in Write : FactOf(v) # Stated(w)
  BY Names
<1>1. ErasureTypes'
  BY <1>0, <1>a DEF ErasureTypes, ApplyIntake, keyring, traces, calls
<1>2. CASE w \in queue
  <2>1. /\ stored' = stored \cup {Stated(w)} /\ queue' = queue \ {w}
        /\ attempt' = [attempt EXCEPT ![w] = "none"]
        /\ UNCHANGED <<accepted, erased, late, slow, deriving, vectors, keyring, traces, calls>>
    BY <1>2 DEF ApplyIntake
  <2>2. ~Was(Stated(w)) /\ w \in accepted
    BY <1>0, <1>2 DEF Landed, ErasureTypes
  <2>3. Landed'
    BY <1>0, <1>a, <2>1, <2>2 DEF Landed, ErasureTypes, Was
  <2>4. \A v \in Round : v # w => jobs'[v] = jobs[v]
    BY <1>0, <1>2 DEF ApplyIntake, ErasureTypes
  <2>5. w \in Round => jobs'[w] = "waiting" /\ deriving[w] = "none" /\ ~Was(FactOf(w))
    BY <1>0, <1>2, <2>2 DEF ApplyIntake, ErasureTypes, Derived
  <2>6. Derived'
    <3> SUFFICES ASSUME NEW v \in Round
                 PROVE  /\ jobs'[v] # "none" => Stated(v) \in stored'
                        /\ jobs'[v] = "waiting" \/ deriving'[v] # "none" => ~Was(FactOf(v))'
                        /\ deriving'[v] # "none" => Was(Stated(v))'
                        /\ Was(FactOf(v))' => Was(Stated(v))'
                        /\ deriving'[v] # "none" \/ FactOf(v) \in stored' =>
                             Stated(v) \in stored' \/ FactOf(v) \in late'
      BY DEF Derived
    <3>1. v \in Write /\ FactOf(v) # Stated(w)
      BY <1>a DEF Round
    <3>2. (Was(FactOf(v))' <=> Was(FactOf(v))) /\ (FactOf(v) \in stored' <=> FactOf(v) \in stored)
      BY <2>1, <3>1 DEF Was
    <3> QED
      BY <1>0, <2>1, <2>4, <2>5, <3>2 DEF Derived, Was
  <2>7. OnlyRounds'
    BY <1>0, <1>a, <2>1 DEF OnlyRounds
  <2>8. VectorsHaveCause'
    BY <1>0, <2>1 DEF VectorsHaveCause
  <2>9. Grows
    BY <1>0, <1>2, <1>a, <2>1, <2>2 DEF ErasureTypes, Grows, keyring, traces
  <2> QED
    BY <1>1, <2>1, <2>3, <2>6, <2>7, <2>8, <2>9, Beside DEF Sound
<1>3. CASE w \notin queue
  <2>1. /\ attempt' = [attempt EXCEPT ![w] = "none"]
        /\ UNCHANGED <<writes, stored, jobs, erased, late, slow, deriving, vectors, keyring,
                       traces, calls>>
    BY <1>3 DEF ApplyIntake, writes
  <2>2. Landed'
    BY <1>0, <2>1 DEF Landed, ErasureTypes, Was, writes
  <2>3. Derived' /\ OnlyRounds' /\ VectorsHaveCause'
    BY <1>0, <2>1, FactsSame, VectorsSame DEF writes
  <2>4. Grows
    BY <1>0, <2>1 DEF ErasureTypes, Grows, writes, keyring, traces
  <2> QED
    BY <1>1, <2>1, <2>2, <2>3, <2>4, Beside DEF Sound
<1> QED
  BY <1>2, <1>3

LEMMA AttemptFailsKeeps == ASSUME ErasureInv, NEW w \in Write, AttemptFails(w) PROVE ErasureInv'
<1>0. ErasureTypes /\ Landed /\ Derived /\ OnlyRounds /\ VectorsHaveCause
  BY DEF ErasureInv
<1>1. ErasureTypes'
  BY <1>0 DEF ErasureTypes, AttemptFails, writes, keyring, traces, memory, calls
<1>2. Landed'
  BY <1>0 DEF Landed, ErasureTypes, Was, AttemptFails, writes, memory
<1>3. Derived' /\ OnlyRounds' /\ VectorsHaveCause'
  BY <1>0, FactsSame, VectorsSame DEF AttemptFails, memory, writes
<1>4. Grows
  BY <1>0 DEF ErasureTypes, Grows, AttemptFails, writes, keyring, traces, memory
<1> QED
  BY <1>1, <1>2, <1>3, <1>4, Beside DEF Sound, AttemptFails

LEMMA LeaseExpiresKeeps == ASSUME ErasureInv, NEW w \in Write, LeaseExpires(w) PROVE ErasureInv'
<1>0. ErasureTypes /\ Landed /\ Derived /\ OnlyRounds /\ VectorsHaveCause
  BY DEF ErasureInv
<1>1. ErasureTypes'
  BY <1>0 DEF ErasureTypes, Landed, LeaseExpires, writes, keyring, traces, memory, calls
<1>2. Landed'
  BY <1>0 DEF Landed, ErasureTypes, Was, LeaseExpires, writes, memory
<1>3. Derived' /\ OnlyRounds' /\ VectorsHaveCause'
  BY <1>0, FactsSame, VectorsSame DEF LeaseExpires, memory, writes
<1>4. Grows
  BY <1>0 DEF ErasureTypes, Grows, LeaseExpires, writes, keyring, traces, memory
<1> QED
  BY <1>1, <1>2, <1>3, <1>4, Beside DEF Sound, LeaseExpires

-----------------------------------------------------------------------------
(* Enrichment, and the traces of other calls.                              *)
LEMMA LandedSame ==
  ASSUME Landed, UNCHANGED <<accepted, queue, attempt, slow, stored, erased, late>>
  PROVE  Landed'
  BY DEF Landed, Was

LEMMA ReadRoundKeeps == ASSUME ErasureInv, NEW w \in Round, ReadRound(w) PROVE ErasureInv'
<1>0. ErasureTypes /\ Landed /\ Derived /\ OnlyRounds /\ VectorsHaveCause
  BY DEF ErasureInv
<1>1. ErasureTypes'
  BY <1>0 DEF ErasureTypes, ReadRound, writes, keyring, traces, memory, calls
<1>2. Derived' /\ OnlyRounds'
  BY <1>0 DEF Derived, OnlyRounds, ErasureTypes, Was, ReadRound, memory
<1>3. Landed' /\ VectorsHaveCause'
  BY <1>0, LandedSame, VectorsSame DEF ReadRound, memory, writes
<1>4. Grows
  BY <1>0 DEF ErasureTypes, Grows, ReadRound, writes, keyring, traces, memory
<1> QED
  BY <1>1, <1>2, <1>3, <1>4, Beside DEF Sound, ReadRound

LEMMA EmbedFactKeeps == ASSUME ErasureInv, NEW w \in Round, EmbedFact(w) PROVE ErasureInv'
<1>0. ErasureTypes /\ Landed /\ Derived /\ OnlyRounds /\ VectorsHaveCause
  BY DEF ErasureInv
<1>1. ErasureTypes'
  BY <1>0 DEF ErasureTypes, EmbedFact, writes, keyring, traces, calls
<1>2. Derived' /\ OnlyRounds'
  BY <1>0 DEF Derived, OnlyRounds, ErasureTypes, Was, EmbedFact
<1>3. Landed'
  BY <1>0, LandedSame DEF EmbedFact, writes
<1>4. w \in Write /\ w \in accepted /\ FactOf(w) \notin erased
  BY <1>0 DEF Round, Derived, Landed, Was, EmbedFact
<1>5. FactOf(w) \in Memory /\ FactOf(w).write = w /\ Text(FactOf(w)) = Attr[w].fact
  BY <1>4, Names DEF Text
<1>6. VectorsHaveCause'
  BY <1>0, <1>4, <1>5, VectorComes DEF EmbedFact, writes
<1>7. Grows
  BY <1>0 DEF ErasureTypes, Grows, EmbedFact, writes, keyring, traces
<1> QED
  BY <1>1, <1>2, <1>3, <1>6, <1>7, Beside DEF Sound, EmbedFact

LEMMA StoreFactKeeps == ASSUME ErasureInv, NEW w \in Round, StoreFact(w) PROVE ErasureInv'
<1>0. ErasureTypes /\ Landed /\ Derived /\ OnlyRounds /\ VectorsHaveCause
  BY DEF ErasureInv
<1>a. /\ w \in Write /\ FactOf(w) \in Memory /\ FactOf(w).write = w /\ FactOf(w).derived
      /\ \A v \in Write : FactOf(v) = FactOf(w) => v = w
      /\ \A v \in Write : Stated(v) # FactOf(w)
  BY Names DEF Round
<1>1. ErasureTypes'
  BY <1>0, <1>a DEF ErasureTypes, StoreFact, writes, keyring, traces, calls
<1>2. /\ stored' = stored \cup {FactOf(w)} /\ deriving' = [deriving EXCEPT ![w] = "none"]
      /\ jobs'[w] # "waiting" /\ (jobs'[w] # "none" => jobs[w] # "none")
      /\ \A v \in Round : v # w => jobs'[v] = jobs[v]
      /\ UNCHANGED <<writes, keyring, traces, vectors, erased, late, attempt, slow, calls>>
  BY <1>0 DEF StoreFact, ErasureTypes
<1>3. ~Was(FactOf(w)) /\ Was(Stated(w)) /\ (Stated(w) \in stored \/ FactOf(w) \in late)
  BY <1>0 DEF Derived, StoreFact
<1>4. \A v \in Round : Stated(v) \in stored' <=> Stated(v) \in stored
  BY <1>2, <1>a DEF Round
<1>5. Derived'
  <2> SUFFICES ASSUME NEW v \in Round
               PROVE  /\ jobs'[v] # "none" => Stated(v) \in stored'
                      /\ jobs'[v] = "waiting" \/ deriving'[v] # "none" => ~Was(FactOf(v))'
                      /\ deriving'[v] # "none" => Was(Stated(v))'
                      /\ Was(FactOf(v))' => Was(Stated(v))'
                      /\ deriving'[v] # "none" \/ FactOf(v) \in stored' =>
                           Stated(v) \in stored' \/ FactOf(v) \in late'
    BY DEF Derived
  <2>1. CASE v = w
    BY <1>0, <1>2, <1>3, <1>4, <2>1 DEF Derived, Was, ErasureTypes
  <2>2. CASE v # w
    <3>1. FactOf(v) # FactOf(w)
      BY <1>a, <2>2 DEF Round
    <3> QED
      BY <1>0, <1>2, <1>4, <2>2, <3>1 DEF Derived, Was, ErasureTypes
  <2> QED
    BY <2>1, <2>2
<1>6. Landed'
  <2>1. \A v \in Write : Was(Stated(v))' <=> Was(Stated(v))
    BY <1>2, <1>a DEF Was
  <2> QED
    BY <1>0, <1>2, <2>1 DEF Landed, writes
<1>7. OnlyRounds' /\ VectorsHaveCause'
  BY <1>0, <1>2, <1>a DEF OnlyRounds, VectorsHaveCause, writes
<1>8. Grows
  BY <1>0, <1>2, <1>3, <1>a DEF ErasureTypes, Grows, writes, keyring, traces
<1> QED
  BY <1>1, <1>2, <1>5, <1>6, <1>7, <1>8, Beside DEF Sound

TracesTyped ==
  /\ recalls' \subseteq Recalls \cap asked' /\ spawned' \subseteq Recalls \cap asked'
  /\ recalls' \cap spawned' = {} /\ links' \subseteq Links \cap asked'
  /\ asked \subseteq asked' /\ links' \cap asked \subseteq links
  /\ spawned' \cap asked \subseteq spawned /\ recalls' \subseteq recalls \cup spawned

LEMMA TracesKeep ==
  ASSUME ErasureInv, UNCHANGED <<writes, keyring, memory, workers, calls>>,
         \/ \E q \in Recalls : Recall(q) \/ RecallPut(q)
         \/ \E l \in Links : Link(l)
         \/ PurgeRecalls
  PROVE  ErasureInv'
<1>0. ErasureTypes /\ Landed /\ Derived /\ OnlyRounds /\ VectorsHaveCause
  BY DEF ErasureInv
<1>1. TracesTyped
  <2>1. ASSUME NEW q \in Recalls, Recall(q) PROVE TracesTyped
    BY <1>0, <2>1 DEF TracesTyped, ErasureTypes, Recall, MayAsk
  <2>2. ASSUME NEW q \in Recalls, RecallPut(q) PROVE TracesTyped
    BY <1>0, <2>2 DEF TracesTyped, ErasureTypes, RecallPut
  <2>3. ASSUME NEW l \in Links, Link(l) PROVE TracesTyped
    BY <1>0, <2>3 DEF TracesTyped, ErasureTypes, Link, MayAsk
  <2>4. ASSUME PurgeRecalls PROVE TracesTyped
    BY <1>0, <2>4 DEF TracesTyped, ErasureTypes, PurgeRecalls
  <2> QED
    BY <2>1, <2>2, <2>3, <2>4
<1>2. ErasureTypes'
  BY <1>0, <1>1 DEF TracesTyped, ErasureTypes, writes, keyring, memory, workers, calls
<1>3. Landed' /\ Derived' /\ OnlyRounds' /\ VectorsHaveCause'
  BY <1>0, LandedSame, FactsSame, VectorsSame DEF writes, memory, workers
<1>4. Grows
  BY <1>0, <1>1 DEF TracesTyped, ErasureTypes, Grows, writes, keyring, memory
<1> QED
  BY <1>2, <1>3, <1>4, Beside DEF Sound

-----------------------------------------------------------------------------
(* Records go: a set of them that holds the facts of its rounds, with the  *)
(* vectors of their texts and the jobs of their rounds.                    *)
Removes(rs) ==
  /\ rs \subseteq stored /\ \A r \in stored : Stated(r.write) \in rs => r \in rs
  /\ Gone(rs)
  /\ vectors' = vectors \ {Text(r) : r \in rs}
  /\ jobs' \in [Round -> {"none", "waiting", "done"}]
  /\ \A w \in Round : /\ jobs'[w] \in {jobs[w], "none"}
                      /\ Stated(w) \in rs => jobs'[w] = "none"

LEMMA RemovesSound ==
  ASSUME ErasureInv, NEW rs, Removes(rs), queue' \subseteq queue,
         UNCHANGED <<accepted, attempt, slow, deriving>>
  PROVE  /\ Landed' /\ Derived' /\ OnlyRounds' /\ VectorsHaveCause'
         /\ stored' \cup erased' = stored \cup erased /\ stored' \subseteq stored
         /\ stored' \subseteq Memory /\ erased' \subseteq Memory /\ late' \subseteq Memory
<1>0. ErasureTypes /\ Landed /\ Derived /\ OnlyRounds /\ VectorsHaveCause
  BY DEF ErasureInv
<1>1. /\ stored' = stored \ rs /\ erased' = erased \cup rs /\ late \subseteq late'
      /\ stored' \cup erased' = stored \cup erased /\ stored' \subseteq stored
  BY DEF Removes, Gone
<1>2. \A r \in Memory : Was(r)' <=> Was(r)
  BY <1>1 DEF Was
<1>3. AtWork \subseteq Memory
  <2>1. \A w \in Round : FactOf(w) \in Memory
    BY Names DEF Round
  <2>2. \A w \in slow : Stated(w) \in Memory
    BY <1>0, Names DEF ErasureTypes
  <2> QED
    BY <2>1, <2>2 DEF AtWork
<1>4. stored' \subseteq Memory /\ erased' \subseteq Memory /\ late' \subseteq Memory
  BY <1>0, <1>1, <1>3 DEF ErasureTypes, Removes, Gone
<1>5. \A w \in slow : Stated(w) \in rs => Stated(w) \in late'
  <2> SUFFICES ASSUME NEW w \in slow, Stated(w) \in rs PROVE Stated(w) \in late'
    OBVIOUS
  <2>1. w \in Write /\ Stated(w) \in AtWork
    BY <1>0 DEF ErasureTypes, AtWork
  <2>2. Stated(Stated(w).write) \in rs
    BY <2>1, Names
  <2> QED
    BY <2>1, <2>2 DEF Removes, Gone
<1>6. \A w \in Round : deriving[w] # "none" /\ Stated(w) \in rs => FactOf(w) \in late'
  <2> SUFFICES ASSUME NEW w \in Round, deriving[w] # "none", Stated(w) \in rs
               PROVE  FactOf(w) \in late'
    OBVIOUS
  <2>1. w \in Write /\ FactOf(w) \in AtWork
    BY DEF Round, AtWork
  <2>2. Stated(FactOf(w).write) \in rs
    BY <2>1, Names
  <2> QED
    BY <2>1, <2>2 DEF Removes, Gone
<1>7. Landed'
  <2>1. \A w \in Write : Was(Stated(w))' <=> Was(Stated(w))
    BY <1>2, Names
  <2> QED
    BY <1>0, <1>1, <1>5, <2>1 DEF Landed
<1>8. Derived'
  <2> SUFFICES ASSUME NEW w \in Round
               PROVE  /\ jobs'[w] # "none" => Stated(w) \in stored'
                      /\ jobs'[w] = "waiting" \/ deriving'[w] # "none" => ~Was(FactOf(w))'
                      /\ deriving'[w] # "none" => Was(Stated(w))'
                      /\ Was(FactOf(w))' => Was(Stated(w))'
                      /\ deriving'[w] # "none" \/ FactOf(w) \in stored' =>
                           Stated(w) \in stored' \/ FactOf(w) \in late'
    BY DEF Derived
  <2>1. /\ w \in Write /\ Stated(FactOf(w).write) = Stated(w)
        /\ (Was(Stated(w))' <=> Was(Stated(w))) /\ (Was(FactOf(w))' <=> Was(FactOf(w)))
    BY <1>2, Names DEF Round
  <2>2. jobs'[w] \in {jobs[w], "none"} /\ (Stated(w) \in rs => jobs'[w] = "none")
    BY DEF Removes
  <2>3. FactOf(w) \in stored' => FactOf(w) \in stored /\ Stated(w) \notin rs
    BY <1>1, <2>1 DEF Removes
  <2>4. /\ jobs[w] # "none" => Stated(w) \in stored
        /\ jobs[w] = "waiting" \/ deriving[w] # "none" => ~Was(FactOf(w))
        /\ deriving[w] # "none" => Was(Stated(w))
        /\ Was(FactOf(w)) => Was(Stated(w))
        /\ deriving[w] # "none" \/ FactOf(w) \in stored =>
             Stated(w) \in stored \/ FactOf(w) \in late
    BY <1>0 DEF Derived
  <2> QED
    BY <1>1, <1>6, <2>1, <2>2, <2>3, <2>4
<1>9. OnlyRounds'
  BY <1>0, <1>1 DEF OnlyRounds
<1>10. VectorsHaveCause'
  <2> SUFFICES ASSUME NEW t \in vectors'
               PROVE  \E r \in Memory : /\ r.write \in accepted' /\ Text(r) = t
                                        /\ r \notin erased' \ (stored' \cup late')
    BY DEF VectorsHaveCause
  <2>1. t \in vectors /\ \A r \in rs : Text(r) # t
    BY DEF Removes
  <2>2. PICK r \in Memory : /\ r.write \in accepted /\ Text(r) = t
                            /\ r \notin erased \ (stored \cup late)
    BY <1>0, <2>1 DEF VectorsHaveCause
  <2>3. r \notin rs
    BY <2>1, <2>2
  <2> QED
    BY <1>1, <2>2, <2>3
<1> QED
  BY <1>1, <1>4, <1>7, <1>8, <1>9, <1>10

LEMMA CascadeRemoves ==
  ASSUME ErasureInv, NEW rs \in SUBSET stored, Cascade(rs)
  PROVE  Removes(Cited(rs)) /\ rs \subseteq Cited(rs)
<1>0. stored \subseteq Memory /\ jobs \in [Round -> {"none", "waiting", "done"}]
  BY DEF ErasureInv, ErasureTypes
<1>1. Cited(rs) \subseteq stored /\ rs \subseteq Cited(rs)
  BY DEF Cited
<1>2. \A w \in Write : Stated(w) \in Cited(rs) => Stated(w) \in rs
  BY Names DEF Cited
<1>3. \A r \in stored : Stated(r.write) \in Cited(rs) => r \in Cited(rs)
  BY <1>0, <1>2, Names DEF Cited
<1>4. \A w \in Round : w \in Write
  BY DEF Round
<1>5. /\ jobs' \in [Round -> {"none", "waiting", "done"}]
      /\ \A w \in Round : /\ jobs'[w] \in {jobs[w], "none"}
                          /\ Stated(w) \in Cited(rs) => jobs'[w] = "none"
  BY <1>0, <1>2, <1>4 DEF Cascade
<1> QED
  BY <1>1, <1>3, <1>5 DEF Cascade, Removes

LEMMA SubjectRemoves ==
  ASSUME ErasureInv, NEW s, DeleteSubject(s)
  PROVE  Removes(Matches("subject", s))
<1>0. stored \subseteq Memory /\ jobs \in [Round -> {"none", "waiting", "done"}]
  BY DEF ErasureInv, ErasureTypes
<1>1. \A r \in stored : r \in Matches("subject", s) <=> Attr[r.write].subject = s
  BY DEF Matches, Fits
<1>2. Matches("subject", s) \subseteq stored
  BY DEF Matches
<1>3. \A r \in stored : Stated(r.write) \in Matches("subject", s) => r \in Matches("subject", s)
  BY <1>0, <1>1, <1>2, Names
<1>4. \A w \in Round : w \in Write /\ Stated(w).write = w
  BY Names DEF Round
<1>5. \A w \in Round : Stated(w) \in Matches("subject", s) => w \in Of(s)
  BY <1>1, <1>2, <1>4 DEF Of
<1>6. /\ jobs' \in [Round -> {"none", "waiting", "done"}]
      /\ \A w \in Round : /\ jobs'[w] \in {jobs[w], "none"}
                          /\ Stated(w) \in Matches("subject", s) => jobs'[w] = "none"
  BY <1>0, <1>5 DEF DeleteSubject
<1> QED
  BY <1>2, <1>3, <1>6 DEF DeleteSubject, Removes

LEMMA PurgeEpisodicKeeps == ASSUME ErasureInv, PurgeEpisodic PROVE ErasureInv'
<1>0. ErasureTypes
  BY DEF ErasureInv
<1>1. PICK rs \in SUBSET stored : Cascade(rs)
  BY DEF PurgeEpisodic
<1>2. Removes(Cited(rs)) /\ UNCHANGED <<writes, keyring, traces, workers, calls>>
  BY <1>1, CascadeRemoves DEF PurgeEpisodic
<1>3. queue' \subseteq queue /\ UNCHANGED <<accepted, attempt, slow, deriving>>
  BY <1>2 DEF writes, workers
<1>4. /\ Landed' /\ Derived' /\ OnlyRounds' /\ VectorsHaveCause'
      /\ stored' \cup erased' = stored \cup erased /\ stored' \subseteq stored
      /\ stored' \subseteq Memory /\ erased' \subseteq Memory /\ late' \subseteq Memory
  BY <1>2, <1>3, RemovesSound
<1>5. ErasureTypes'
  BY <1>0, <1>2, <1>4 DEF ErasureTypes, Removes, writes, keyring, traces, workers, calls
<1>6. Grows
  BY <1>0, <1>2, <1>4 DEF ErasureTypes, Grows, writes, keyring, traces
<1> QED
  BY <1>2, <1>4, <1>5, <1>6, Beside DEF Sound

-----------------------------------------------------------------------------
(* Calls of forget.                                                        *)
LEMMA SoundShrinks ==
  ASSUME ErasureInv, forget' \in [Forgets -> Calls], known' \in [Forgets -> Knowledge],
         UNCHANGED <<accepted, owed, spawned, asked, stored, vectors, erased, late, workers>>,
         queue' \subseteq queue, keys' \subseteq keys,
         recalls' \subseteq recalls, links' \subseteq links,
         jobs' = jobs \/ jobs' = [w \in Round |-> "none"]
  PROVE  Sound' /\ Grows
<1>0. ErasureTypes /\ Landed /\ Derived /\ OnlyRounds /\ VectorsHaveCause
  BY DEF ErasureInv
<1>1. ErasureTypes'
  BY <1>0 DEF ErasureTypes, workers
<1>2. Landed' /\ OnlyRounds' /\ VectorsHaveCause'
  BY <1>0 DEF Landed, Was, OnlyRounds, VectorsHaveCause, workers
<1>3. Derived'
  BY <1>0 DEF Derived, Was, workers
<1>4. Grows
  BY <1>0 DEF Grows, ErasureTypes
<1> QED
  BY <1>1, <1>2, <1>3, <1>4 DEF Sound

LEMMA SoundRemoves ==
  ASSUME ErasureInv, NEW rs, Removes(rs), forget' \in [Forgets -> Calls],
         UNCHANGED <<accepted, owed, spawned, asked, workers, known>>,
         queue' \subseteq queue, keys' \subseteq keys,
         recalls' \subseteq recalls, links' \subseteq links
  PROVE  Sound' /\ Grows /\ stored' = stored \ rs
<1>0. ErasureTypes
  BY DEF ErasureInv
<1>1. /\ Landed' /\ Derived' /\ OnlyRounds' /\ VectorsHaveCause'
      /\ stored' \cup erased' = stored \cup erased /\ stored' \subseteq stored
      /\ stored' \subseteq Memory /\ erased' \subseteq Memory /\ late' \subseteq Memory
  BY RemovesSound DEF workers
<1>2. ErasureTypes'
  BY <1>0, <1>1 DEF ErasureTypes, Removes, workers
<1>3. Grows
  BY <1>0, <1>1 DEF Grows, ErasureTypes
<1> QED
  BY <1>1, <1>2, <1>3 DEF Sound, Removes, Gone

(* What a call has seen to stays seen to while the stores shrink.          *)
LEMMA Shrinks ==
  ASSUME NEW f \in Forgets, known'[f] = known[f],
         forget'[f].scope = forget[f].scope, forget'[f].value = forget[f].value,
         queue' \subseteq queue, stored' \subseteq stored, keys' \subseteq keys,
         recalls' \subseteq recalls, links' \subseteq links
  PROVE  /\ Fitting(f)' = Fitting(f)
         /\ Unqueued(f) => Unqueued(f)'
         /\ Unstored(f) => Unstored(f)'
         /\ KeysGone(f) => KeysGone(f)'
         /\ RecallsGone(f) => RecallsGone(f)'
         /\ LinksGone(f) => LinksGone(f)'
         /\ UsersRecallsGone(f) => UsersRecallsGone(f)'
<1>1. Fitting(f)' = Fitting(f)
  BY DEF Fitting, Asks
<1>2. Unqueued(f) => Unqueued(f)'
  BY <1>1 DEF Unqueued
<1>3. Unstored(f) => Unstored(f)'
  BY <1>1 DEF Unstored, Asks
<1>4. KeysGone(f) => KeysGone(f)'
  BY DEF KeysGone, Whose
<1>5. RecallsGone(f) => RecallsGone(f)'
  BY DEF RecallsGone, Whose
<1>6. LinksGone(f) => LinksGone(f)'
  BY DEF LinksGone, Whose
<1>7. UsersRecallsGone(f) => UsersRecallsGone(f)'
  BY DEF UsersRecallsGone
<1> QED
  BY <1>1, <1>2, <1>3, <1>4, <1>5, <1>6, <1>7

LEMMA BatchMoves ==
  ASSUME NEW c \in Calls, NEW step \in Steps, NEW batch \in SUBSET Things
  PROVE  [c EXCEPT !.batch = batch, !.at = step] \in Calls
  BY DEF Calls

LEMMA CallMoves ==
  ASSUME NEW c \in Calls, NEW step \in Steps, NEW batch \in SUBSET Things, NEW rounds \in Int
  PROVE  /\ [c EXCEPT !.at = step, !.batch = batch, !.rounds = rounds] \in Calls
         /\ [c EXCEPT !.at = step, !.rounds = rounds] \in Calls
         /\ \A before \in Nat :
              [c EXCEPT !.at = step, !.before = before, !.rounds = rounds] \in Calls
<1>1. [c EXCEPT !.at = step, !.batch = batch, !.rounds = rounds] \in Calls
  BY DEF Calls
<1>2. [c EXCEPT !.at = step, !.rounds = rounds] \in Calls
  BY DEF Calls
<1>3. ASSUME NEW before \in Nat
      PROVE  [c EXCEPT !.at = step, !.before = before, !.rounds = rounds] \in Calls
  BY DEF Calls
<1> QED
  BY <1>1, <1>2, <1>3

(* A call's own step: where it goes, and that it is the same call.         *)
Goes(f, step) ==
  /\ forget' \in [Forgets -> Calls] /\ \A g \in Forgets : g # f => forget'[g] = forget[g]
  /\ forget'[f].at = step
  /\ forget'[f].scope = forget[f].scope /\ forget'[f].value = forget[f].value

LEMMA Changes ==
  ASSUME ErasureTypes, NEW f \in Forgets, NEW new \in Calls, forget' = [forget EXCEPT ![f] = new],
         new.scope = forget[f].scope, new.value = forget[f].value
  PROVE  Goes(f, new.at) /\ forget'[f] = new
<1>1. forget \in [Forgets -> Calls]
  BY DEF ErasureTypes
<1> QED
  BY <1>1 DEF Goes

LEMMA MovesOnGoes ==
  ASSUME ErasureTypes, NEW f \in Forgets, NEW step \in Steps, MovesOn(f, step)
  PROVE  Goes(f, step) /\ forget'[f].batch = forget[f].batch
<1> DEFINE new == [forget[f] EXCEPT !.at = step]
<1>1. forget[f] \in Calls /\ forget \in [Forgets -> Calls]
  BY Typed DEF ErasureTypes
<1>2. /\ new \in Calls /\ new.at = step /\ new.scope = forget[f].scope
      /\ new.value = forget[f].value /\ new.batch = forget[f].batch
  BY <1>1 DEF Calls
<1>3. forget' = [forget EXCEPT ![f] = new]
  BY <1>1 DEF MovesOn
<1> HIDE DEF new
<1> QED
  BY <1>2, <1>3, Changes

LEMMA Asked ==
  ASSUME NEW step \in Steps, NEW scope \in Scopes, NEW value \in {t.value : t \in Targets},
         NEW batch \in SUBSET Things
  PROVE  [Idle EXCEPT !.at = step, !.scope = scope, !.value = value, !.batch = batch] \in Calls
<1>1. Idle \in Calls
  BY DEF Idle, Calls, Steps
<1> QED
  BY <1>1 DEF Calls

LEMMA BeginKeeps ==
  ASSUME ErasureInv, NEW f \in Forgets, NEW target \in Targets, Begin(f, target)
  PROVE  ErasureInv'
<1> DEFINE new == [Idle EXCEPT !.at = IF target.scope = "subject" THEN "erase" ELSE "discard",
                               !.scope = target.scope, !.value = target.value,
                               !.batch = IF target.scope \in {"record", "subject"}
                                         THEN {target.value} ELSE {}]
           what == [writes |-> accepted, records |-> stored, keys |-> keys,
                    recalls |-> recalls, links |-> links]
<1>0. ErasureTypes /\ forget \in [Forgets -> Calls] /\ known \in [Forgets -> Knowledge]
  BY DEF ErasureInv, ErasureTypes
<1>1. target.scope \in Scopes
  BY ErasureAssumption
<1>2. /\ new.at = IF target.scope = "subject" THEN "erase" ELSE "discard"
      /\ new.scope = target.scope /\ new.value = target.value
      /\ target.scope \in {"record", "subject"} => new.batch = {new.value}
  BY DEF Idle
<1>3. new \in Calls
  <2>1. target.value \in Things /\ target.value \in {t.value : t \in Targets}
    BY DEF Things
  <2>2. PICK at \in Steps : at = IF target.scope = "subject" THEN "erase" ELSE "discard"
    BY DEF Steps
  <2>3. PICK batch \in SUBSET Things :
          batch = IF target.scope \in {"record", "subject"} THEN {target.value} ELSE {}
    BY <2>1
  <2>4. new = [Idle EXCEPT !.at = at, !.scope = target.scope, !.value = target.value,
                           !.batch = batch]
    BY <2>2, <2>3
  <2> HIDE DEF new
  <2> QED
    BY <1>1, <2>1, <2>4, Asked
<1>4. what \in Knowledge
  BY <1>0 DEF ErasureTypes, Knowledge
<1>5. /\ what.writes = accepted /\ what.records = stored /\ what.keys = keys
      /\ what.recalls = recalls /\ what.links = links
  OBVIOUS
<1>6. forget' = [forget EXCEPT ![f] = new] /\ known' = [known EXCEPT ![f] = what]
  BY DEF Begin
<1> HIDE DEF new, what
<1>7. /\ forget' \in [Forgets -> Calls] /\ forget'[f] = new
      /\ known' \in [Forgets -> Knowledge] /\ known'[f] = what
      /\ \A g \in Forgets : g # f => forget'[g] = forget[g] /\ known'[g] = known[g]
  BY <1>0, <1>3, <1>4, <1>6
<1>8. Sound' /\ Grows
  BY <1>7, SoundShrinks DEF Begin, writes, keyring, traces, memory, workers
<1>9. Progress(f)'
  BY <1>1, <1>2, <1>7 DEF Progress, Scopes
<1>10. Knew'
  <2>1. /\ known'[f].writes \subseteq accepted' /\ \A r \in known'[f].records : Was(r)'
        /\ known'[f].keys \subseteq accepted' \ owed'
        /\ known'[f].recalls \subseteq asked' \ spawned' /\ known'[f].links \subseteq asked'
    BY <1>0, <1>5, <1>7 DEF ErasureTypes, Was, Begin, writes, keyring, traces, memory
  <2>2. ASSUME NEW g \in Forgets, g # f
        PROVE  /\ known'[g].writes \subseteq accepted' /\ \A r \in known'[g].records : Was(r)'
               /\ known'[g].keys \subseteq accepted' \ owed'
               /\ known'[g].recalls \subseteq asked' \ spawned' /\ known'[g].links \subseteq asked'
    BY <1>7, <1>8, <2>2, KnewStays
  <2> QED
    BY <2>1, <2>2 DEF Knew
<1>11. ASSUME NEW g \in Forgets, g # f PROVE Progress(g)'
  BY <1>7, <1>8, <1>11, ProgressStays
<1> QED
  BY <1>8, <1>9, <1>10, <1>11 DEF ErasureInv, Sound

LEMMA QueuedFits ==
  ASSUME NEW scope \in Scopes \ {"subject"}, NEW value, NEW w \in queue, w \in Write,
         Fits(scope, value, Stated(w))
  PROVE  w \in Queued(scope, value)
<1>1. Stated(w).write = w /\ Stated(w).derived = FALSE
  BY Names
<1>2. Agent(Stated(w)) = Attr[w].agent /\ Source(Stated(w)) = Attr[w].source
  BY <1>1 DEF Agent, Source
<1> QED
  BY <1>1, <1>2 DEF Queued, Fits, Scopes

LEMMA DiscardKeeps == ASSUME ErasureInv, NEW f \in Forgets, Discard(f) PROVE ErasureInv'
<1>0. ErasureTypes /\ Progress(f) /\ forget[f].at = "discard"
  BY DEF ErasureInv, Discard
<1> DEFINE step == CASE forget[f].scope = "record" -> "delete"
                     [] forget[f].scope = "tenant" -> "subjects"
                     [] OTHER -> "count"
<1>1. forget[f].scope \in Scopes \ {"subject"}
  BY <1>0 DEF Progress
<1>2. /\ step \in Steps
      /\ \/ forget[f].scope = "record" /\ step = "delete"
         \/ forget[f].scope = "tenant" /\ step = "subjects"
         \/ forget[f].scope \in Looped /\ step = "count"
  BY <1>1 DEF Scopes, Looped, Steps
<1>3. MovesOn(f, step)
  BY DEF Discard
<1> HIDE DEF step
<1>4. Goes(f, step) /\ forget'[f].batch = forget[f].batch
  BY <1>0, <1>2, <1>3, MovesOnGoes
<1>5. queue' = queue \ Queued(forget[f].scope, forget[f].value) /\ UNCHANGED known
  BY DEF Discard
<1>6. Sound' /\ Grows
  BY <1>0, <1>4, <1>5, SoundShrinks
  DEF Goes, ErasureTypes, Discard, keyring, traces, memory, workers
<1>7. Unqueued(f)'
  <2>1. ASSUME NEW w \in Fitting(f), w \in queue PROVE w \notin queue'
    <3>1. w \in Write /\ Fits(forget[f].scope, forget[f].value, Stated(w))
      BY <1>0, <2>1, Knows DEF Fitting, Asks
    <3> QED
      BY <1>1, <1>5, <2>1, <3>1, QueuedFits
  <2>2. Fitting(f)' = Fitting(f) /\ queue' \subseteq queue
    BY <1>4, <1>5 DEF Fitting, Asks, Goes
  <2> QED
    BY <2>1, <2>2 DEF Unqueued
<1>8. Progress(f)'
  BY <1>0, <1>2, <1>4, <1>7 DEF Progress, Goes, Scopes, Looped
<1> QED
  BY <1>4, <1>5, <1>6, <1>8, Own DEF Goes

LEMMA StoredFinite == ASSUME ErasureTypes PROVE IsFiniteSet(stored)
<1> DEFINE Pairs == Write \X {0, 1}
           pair(r) == <<r.write, IF r.derived THEN 1 ELSE 0>>
           f == [r \in Memory |-> pair(r)]
<1>1. IsFiniteSet({0, 1})
  <2>1. IsFiniteSet({0} \cup {1})
    BY FS_Singleton, FS_AddElement
  <2>2. {0} \cup {1} = {0, 1}
    OBVIOUS
  <2> QED
    BY <2>1, <2>2
<1>2. IsFiniteSet(Pairs)
  <2>1. IsFiniteSet(Write)
    BY ErasureAssumption
  <2> QED
    BY <1>1, <2>1, FS_Product
<1>3. ASSUME NEW r \in Memory PROVE pair(r) \in Pairs
  <2>1. r.write \in Write
    BY <1>3, Names
  <2>2. PICK n \in {0, 1} : n = IF r.derived THEN 1 ELSE 0
    OBVIOUS
  <2> QED
    BY <2>1, <2>2
<1>4. ASSUME NEW r \in Memory, NEW s \in Memory, pair(r) = pair(s) PROVE r = s
  <2>1. r.write = s.write /\ (r.derived <=> s.derived)
    BY <1>4
  <2>2. CASE r.derived
    BY <2>1, <2>2, Names
  <2>3. CASE ~r.derived
    BY <2>1, <2>3, Names
  <2> QED
    BY <2>2, <2>3
<1> HIDE DEF Pairs, pair
<1>5. f \in [Memory -> Pairs] /\ \A r \in Memory : f[r] = pair(r)
  BY <1>3
<1>6. f \in Injection(Memory, Pairs)
  BY <1>4, <1>5 DEF Injection, IsInjective
<1>7. IsFiniteSet(Memory)
  BY <1>2, <1>6, FS_Injection
<1> QED
  BY <1>7, FS_Subset DEF ErasureTypes

LEMMA CountKeeps == ASSUME ErasureInv, NEW f \in Forgets, Count(f) PROVE ErasureInv'
<1> DEFINE n == Cardinality(Left(f))
           rounds == n \div Batch + Extra + 1
           new == [forget[f] EXCEPT !.at = "match", !.before = n, !.rounds = rounds]
<1>0. ErasureTypes /\ Progress(f) /\ forget[f].at = "count" /\ forget[f] \in Calls
  BY Typed DEF ErasureInv, Count
<1>1. n \in Nat
  <2>1. Left(f) \subseteq stored
    BY DEF Left, Matches
  <2> QED
    BY <1>0, <2>1, StoredFinite, FS_Subset, FS_CardinalityType
<1> HIDE DEF n
<1>2. rounds \in Int
  BY <1>1, ErasureAssumption
<1>3. forget' = [forget EXCEPT ![f] = new]
  BY <1>0 DEF Count, ErasureTypes, n
<1> HIDE DEF rounds
<1>4. new \in Calls /\ "match" \in Steps
  BY <1>0, <1>1, <1>2, CallMoves DEF Steps
<1>5. new.at = "match" /\ new.scope = forget[f].scope /\ new.value = forget[f].value
  BY <1>0 DEF Calls
<1> HIDE DEF new
<1>6. Goes(f, "match")
  BY <1>0, <1>3, <1>4, <1>5, Changes
<1>7. UNCHANGED <<writes, keyring, traces, memory, workers, known>>
  BY DEF Count
<1>8. Sound' /\ Grows
  BY <1>0, <1>6, <1>7, SoundShrinks
  DEF Goes, ErasureTypes, writes, keyring, traces, memory, workers
<1>9. Unqueued(f)'
  BY <1>0, <1>6, <1>7, Shrinks DEF Progress, Looped, Goes, writes, keyring, traces, memory
<1>10. Progress(f)'
  BY <1>0, <1>6, <1>9 DEF Progress, Goes, Looped, Scopes
<1> QED
  BY <1>6, <1>7, <1>8, <1>10, Own DEF Goes

LEMMA ForgetMatchesKeeps == ASSUME ErasureInv, NEW f \in Forgets, ForgetMatches(f) PROVE ErasureInv'
<1>0. ErasureTypes /\ Progress(f) /\ forget[f].at = "match" /\ forget[f] \in Calls
  BY Typed DEF ErasureInv, ForgetMatches
<1>1. forget[f].scope \in Looped
  BY <1>0 DEF Progress
<1>2. PICK step \in {"recalls", "left", "delete"} :
        Goes(f, step) /\ (step = "left" => forget[f].scope # "user")
  <2>1. CASE forget[f].rounds = 0 \/ Left(f) = {}
    <3>1. PICK step \in {"recalls", "left"} :
            step = IF forget[f].scope = "user" THEN "recalls" ELSE "left"
      OBVIOUS
    <3>2. MovesOn(f, step) /\ step \in Steps
      BY <2>1, <3>1 DEF ForgetMatches, Steps
    <3> QED
      BY <1>0, <3>1, <3>2, MovesOnGoes
  <2>2. CASE ~(forget[f].rounds = 0 \/ Left(f) = {})
    <3>1. PICK batch \in AtMost(Batch, Left(f)) :
            forget' = [forget EXCEPT ![f].at = "delete", ![f].batch = batch, ![f].rounds = @ - 1]
      BY <2>2 DEF ForgetMatches
    <3> DEFINE rounds == forget[f].rounds - 1
               new == [forget[f] EXCEPT !.at = "delete", !.batch = batch, !.rounds = rounds]
    <3>2. batch \subseteq Things
      BY <1>0 DEF AtMost, kSubset, Left, Matches, ErasureTypes, Things
    <3>3. rounds \in Int /\ "delete" \in Steps
      BY <1>0 DEF Calls, Steps
    <3>4. forget' = [forget EXCEPT ![f] = new]
      BY <1>0, <3>1 DEF ErasureTypes
    <3> HIDE DEF rounds
    <3>5. new \in Calls /\ new.at = "delete" /\ new.scope = forget[f].scope
      BY <1>0, <3>2, <3>3, CallMoves DEF Calls
    <3>6. new.value = forget[f].value
      BY <1>0 DEF Calls
    <3> HIDE DEF new
    <3> QED
      BY <1>0, <3>4, <3>5, <3>6, Changes
  <2> QED
    BY <2>1, <2>2
<1>3. UNCHANGED <<writes, keyring, traces, memory, workers, known>>
  BY DEF ForgetMatches
<1>4. Sound' /\ Grows
  BY <1>0, <1>2, <1>3, SoundShrinks
  DEF Goes, ErasureTypes, writes, keyring, traces, memory, workers
<1>5. Unqueued(f)'
  BY <1>0, <1>1, <1>2, <1>3, Shrinks
  DEF Progress, Looped, Goes, writes, keyring, traces, memory
<1>6. Progress(f)'
  BY <1>0, <1>1, <1>2, <1>5 DEF Progress, Goes, Looped, Scopes
<1> QED
  BY <1>2, <1>3, <1>4, <1>6, Own DEF Goes

(* After one of a batch: the batch goes on, or it was the last.            *)
LEMMA AfterGoes ==
  ASSUME ErasureTypes, NEW f \in Forgets, NEW x \in forget[f].batch, NEW loop \in Steps,
         After(f, x, loop)
  PROVE  \E step \in {forget[f].at, "done", loop} :
           /\ Goes(f, step)
           /\ IF forget[f].batch # {x} THEN step = forget[f].at
              ELSE IF forget[f].scope \in {"record", "subject"} THEN step = "done"
              ELSE step = loop
<1>0. forget[f] \in Calls
  BY Typed
<1>1. PICK step \in Steps :
        step = IF forget[f].batch # {x} THEN forget[f].at
               ELSE IF forget[f].scope \in {"record", "subject"} THEN "done" ELSE loop
  BY <1>0 DEF Calls, Steps
<1> DEFINE left == forget[f].batch \ {x}
           new == [forget[f] EXCEPT !.batch = left, !.at = step]
<1>2. left \subseteq Things
  BY <1>0 DEF Calls
<1>3. forget' = [forget EXCEPT ![f] = new]
  BY <1>0, <1>1 DEF After, ErasureTypes
<1> HIDE DEF left
<1>4. new \in Calls
  BY <1>0, <1>2, BatchMoves
<1>5. new.at = step /\ new.scope = forget[f].scope /\ new.value = forget[f].value
  BY <1>0 DEF Calls
<1> HIDE DEF new
<1>6. Goes(f, step)
  BY <1>3, <1>4, <1>5, Changes
<1> QED
  BY <1>1, <1>6

LEMMA DeleteKeeps == ASSUME ErasureInv, NEW f \in Forgets, Delete(f) PROVE ErasureInv'
<1>0. ErasureTypes /\ Progress(f) /\ forget[f].at = "delete" /\ forget[f] \in Calls
  BY Typed DEF ErasureInv, Delete
<1>1. forget[f].scope \in Looped \cup {"record"}
  BY <1>0 DEF Progress
<1>2. PICK r \in forget[f].batch :
        /\ IF r \in stored THEN Cascade({r}) ELSE UNCHANGED memory
        /\ After(f, r, "match")
  BY DEF Delete
<1>3. UNCHANGED <<writes, keyring, traces, workers, known>>
  BY DEF Delete
<1>4. PICK step \in {"delete", "done", "match"} :
        /\ Goes(f, step)
        /\ IF forget[f].batch # {r} THEN step = "delete"
           ELSE IF forget[f].scope \in {"record", "subject"} THEN step = "done"
           ELSE step = "match"
  BY <1>0, <1>2, AfterGoes DEF Steps
<1>5. Sound' /\ Grows /\ stored' \subseteq stored /\ r \notin stored'
  <2>1. CASE r \in stored
    <3>1. Cascade({r}) /\ {r} \in SUBSET stored
      BY <1>2, <2>1
    <3>2. Removes(Cited({r})) /\ {r} \subseteq Cited({r})
      BY <3>1, CascadeRemoves
    <3> QED
      BY <1>3, <1>4, <3>2, SoundRemoves DEF Goes, writes, keyring, traces
  <2>2. CASE r \notin stored
    BY <1>0, <1>2, <1>3, <1>4, <2>2, SoundShrinks
    DEF Goes, ErasureTypes, writes, keyring, traces, memory
  <2> QED
    BY <2>1, <2>2
<1>6. Unqueued(f)' /\ Fitting(f)' = Fitting(f)
  BY <1>0, <1>1, <1>3, <1>4, <1>5, Shrinks
  DEF Progress, Looped, Goes, writes, keyring, traces
<1>7. CASE forget[f].scope = "record"
  <2>1. forget[f].batch = {forget[f].value} /\ r = forget[f].value
    BY <1>0, <1>7 DEF Progress
  <2>2. step = "done"
    BY <1>4, <1>7, <2>1
  <2>3. \A m : Asks(f, m) => m = r
    BY <1>7, <2>1 DEF Asks, Fits
  <2>4. Unstored(f)'
    BY <1>3, <1>4, <1>5, <1>6, <2>3 DEF Unstored, Fitting, Asks, Goes
  <2>5. KeysGone(f)' /\ RecallsGone(f)' /\ LinksGone(f)'
    BY <1>4, <1>7 DEF KeysGone, RecallsGone, LinksGone, Whose, Goes
  <2> QED
    BY <1>3, <1>4, <1>5, <1>6, <1>7, <2>2, <2>4, <2>5, Own DEF Progress, Goes, Looped, Scopes
<1>8. CASE forget[f].scope \in Looped
  <2>1. step \in {"delete", "match"}
    BY <1>4, <1>8 DEF Looped
  <2>2. Progress(f)'
    BY <1>4, <1>6, <1>8, <2>1 DEF Progress, Goes, Looped, Scopes
  <2> QED
    BY <1>3, <1>4, <1>5, <2>2, Own DEF Goes
<1> QED
  BY <1>1, <1>7, <1>8

LEMMA RecallsDeleteKeeps == ASSUME ErasureInv, NEW f \in Forgets, RecallsDelete(f) PROVE ErasureInv'
<1>0. ErasureTypes /\ Progress(f) /\ forget[f].at = "recalls"
  BY DEF ErasureInv, RecallsDelete
<1>1. Goes(f, "left")
  BY <1>0, MovesOnGoes DEF RecallsDelete, Steps
<1>2. recalls' = {q \in recalls : RecallOf[q].user # forget[f].value}
  BY DEF RecallsDelete
<1>3. UNCHANGED <<writes, keyring, spawned, links, asked, memory, workers, known>>
  BY DEF RecallsDelete
<1>4. Sound' /\ Grows
  BY <1>0, <1>1, <1>2, <1>3, SoundShrinks
  DEF Goes, ErasureTypes, writes, keyring, memory, workers
<1>5. Unqueued(f)'
  BY <1>0, <1>1, <1>2, <1>3, Shrinks DEF Progress, Looped, Goes, writes, keyring, memory
<1>6. UsersRecallsGone(f)'
  BY <1>1, <1>2 DEF UsersRecallsGone, Goes
<1>7. Progress(f)'
  BY <1>0, <1>1, <1>5, <1>6 DEF Progress, Goes, Looped, Scopes
<1> QED
  BY <1>1, <1>3, <1>4, <1>7, Own DEF Goes

LEMMA ForgetCountKeeps == ASSUME ErasureInv, NEW f \in Forgets, ForgetCount(f) PROVE ErasureInv'
<1>0. ErasureTypes /\ Progress(f) /\ forget[f].at = "left"
  BY DEF ErasureInv, ForgetCount
<1>1. forget[f].scope \in Looped
  BY <1>0 DEF Progress
<1>2. PICK step \in {"done", "failed"} : step = IF Left(f) = {} THEN "done" ELSE "failed"
  OBVIOUS
<1>3. Goes(f, step)
  BY <1>0, <1>2, MovesOnGoes DEF ForgetCount, Steps
<1>4. UNCHANGED <<writes, keyring, traces, memory, workers, known>>
  BY DEF ForgetCount
<1>5. Sound' /\ Grows
  BY <1>0, <1>3, <1>4, SoundShrinks
  DEF Goes, ErasureTypes, writes, keyring, traces, memory, workers
<1>6. /\ Unqueued(f)' /\ (Unstored(f) => Unstored(f)')
      /\ forget[f].scope = "user" => UsersRecallsGone(f)'
  BY <1>0, <1>1, <1>3, <1>4, Shrinks
  DEF Progress, Looped, Goes, writes, keyring, traces, memory
<1>7. step = "done" => Unstored(f)
  <2> SUFFICES ASSUME Left(f) = {} PROVE Unstored(f)
    BY <1>2
  <2>1. \A r \in stored : ~Asks(f, r)
    BY DEF Left, Matches, Asks
  <2> QED
    BY <2>1 DEF Unstored, Fitting
<1>8. KeysGone(f)' /\ RecallsGone(f)' /\ LinksGone(f)'
  BY <1>1, <1>3 DEF KeysGone, RecallsGone, LinksGone, Whose, Goes, Looped
<1>9. Progress(f)'
  BY <1>1, <1>2, <1>3, <1>6, <1>7, <1>8 DEF Progress, Goes, Looped, Scopes
<1> QED
  BY <1>3, <1>4, <1>5, <1>9, Own DEF Goes

LEMMA TenantSubjectsKeeps ==
  ASSUME ErasureInv, NEW f \in Forgets, TenantSubjects(f) PROVE ErasureInv'
<1>0. ErasureTypes /\ Progress(f) /\ forget[f].at = "subjects" /\ forget[f] \in Calls
  BY Typed DEF ErasureInv, TenantSubjects
<1>1. forget[f].scope = "tenant" /\ Unqueued(f)
  BY <1>0 DEF Progress
<1>2. PICK step \in {"rows", "erase"} :
        /\ Goes(f, step)
        /\ step = "rows" => forget'[f].rounds = 1 /\ stored = {}
  <2>1. CASE Subjects = {}
    <3> DEFINE new == [forget[f] EXCEPT !.at = "rows", !.rounds = 1]
    <3>1. forget' = [forget EXCEPT ![f] = new]
      BY <1>0, <2>1 DEF TenantSubjects, ErasureTypes
    <3>2. new \in Calls
      <4>1. "rows" \in Steps /\ 1 \in Int /\ {} \in SUBSET Things
        BY DEF Steps
      <4> QED
        BY <1>0, <4>1, CallMoves
    <3>3. /\ new.at = "rows" /\ new.rounds = 1
          /\ new.scope = forget[f].scope /\ new.value = forget[f].value
      BY <1>0 DEF Calls
    <3> HIDE DEF new
    <3>4. Goes(f, "rows") /\ forget'[f] = new
      BY <1>0, <3>1, <3>2, <3>3, Changes
    <3>5. stored = {}
      BY <2>1 DEF Subjects
    <3> QED
      BY <3>3, <3>4, <3>5
  <2>2. CASE Subjects # {}
    <3>1. PICK batch \in AtMost(Batch, Subjects) :
            forget' = [forget EXCEPT ![f].at = "erase", ![f].batch = batch]
      BY <2>2 DEF TenantSubjects
    <3> DEFINE new == [forget[f] EXCEPT !.batch = batch, !.at = "erase"]
    <3>2. batch \subseteq Things
      <4>1. Subjects \subseteq Things
        BY <1>0, Names DEF Subjects, Things, ErasureTypes
      <4> QED
        BY <4>1 DEF AtMost, kSubset
    <3>3. forget' = [forget EXCEPT ![f] = new]
      BY <1>0, <3>1 DEF ErasureTypes
    <3>4. new \in Calls
      BY <1>0, <3>2, BatchMoves DEF Steps
    <3>5. new.at = "erase" /\ new.scope = forget[f].scope /\ new.value = forget[f].value
      BY <1>0 DEF Calls
    <3> HIDE DEF new
    <3> QED
      BY <1>0, <3>3, <3>4, <3>5, Changes
  <2> QED
    BY <2>1, <2>2
<1>3. UNCHANGED <<writes, keyring, traces, memory, workers, known>>
  BY DEF TenantSubjects
<1>4. Sound' /\ Grows
  BY <1>0, <1>2, <1>3, SoundShrinks
  DEF Goes, ErasureTypes, writes, keyring, traces, memory, workers
<1>5. Unqueued(f)'
  BY <1>0, <1>1, <1>2, <1>3, Shrinks DEF Goes, writes, keyring, traces, memory
<1>6. step = "rows" => Unstored(f)'
  BY <1>2, <1>3 DEF Unstored, memory
<1>7. Progress(f)'
  BY <1>1, <1>2, <1>5, <1>6 DEF Progress, Goes, Looped, Scopes
<1> QED
  BY <1>2, <1>3, <1>4, <1>7, Own DEF Goes

LEMMA EraseSubjectKeeps == ASSUME ErasureInv, NEW f \in Forgets, EraseSubject(f) PROVE ErasureInv'
<1>0. ErasureTypes /\ Progress(f) /\ forget[f].at = "erase" /\ Knew
  BY DEF ErasureInv, EraseSubject
<1>1. \/ forget[f].scope = "tenant"
      \/ forget[f].scope = "subject" /\ forget[f].batch = {forget[f].value}
  BY <1>0 DEF Progress
<1>2. PICK s \in forget[f].batch : DeleteSubject(s) /\ After(f, s, "subjects")
  BY DEF EraseSubject
<1>3. UNCHANGED <<accepted, owed, spawned, asked, workers, known>>
  BY DEF EraseSubject
<1>4. PICK step \in {"erase", "done", "subjects"} :
        /\ Goes(f, step)
        /\ IF forget[f].batch # {s} THEN step = "erase"
           ELSE IF forget[f].scope \in {"record", "subject"} THEN step = "done"
           ELSE step = "subjects"
  BY <1>0, <1>2, AfterGoes DEF Steps
<1>5. /\ queue' = queue \ Of(s) /\ keys' = keys \ Of(s)
      /\ links' = {l \in links : s \notin {LinkOf[l].subject, LinkOf[l].linked}}
      /\ recalls' = {q \in recalls : RecallOf[q].subject # s}
  BY <1>2 DEF DeleteSubject
<1>6. Removes(Matches("subject", s))
  BY <1>2, SubjectRemoves
<1>7. Sound' /\ Grows /\ stored' = stored \ Matches("subject", s)
  BY <1>3, <1>4, <1>5, <1>6, SoundRemoves DEF Goes
<1>8. CASE forget[f].scope = "tenant"
  <2>1. Unqueued(f)
    BY <1>0, <1>8 DEF Progress
  <2>2. Unqueued(f)'
    BY <1>3, <1>4, <1>5, <1>7, <2>1, Shrinks DEF Goes
  <2>3. step \in {"erase", "subjects"}
    BY <1>4, <1>8
  <2>4. Progress(f)'
    BY <1>4, <1>8, <2>2, <2>3 DEF Progress, Goes, Looped, Scopes
  <2> QED
    BY <1>3, <1>4, <1>7, <2>4, Own DEF Goes
<1>9. CASE forget[f].scope = "subject"
  <2>1. s = forget[f].value /\ step = "done"
    BY <1>1, <1>4, <1>9
  <2>2. \A r : Asks(f, r) <=> Attr[r.write].subject = s
    BY <1>9, <2>1 DEF Asks, Fits
  <2>3. known[f].keys \subseteq Write /\ known[f].records \subseteq Memory
    BY <1>0, Typed DEF Knowledge
  <2>4. Fitting(f)' = Fitting(f) /\ Fitting(f) \subseteq Of(s)
    <3>1. Fitting(f) \subseteq Write
      BY <1>0, Knows
    <3>2. \A w \in Fitting(f) : Attr[w].subject = s
      BY <2>2, <3>1, Names DEF Fitting
    <3> QED
      BY <1>3, <1>4, <3>1, <3>2 DEF Fitting, Asks, Goes, Of
  <2>5. Unqueued(f)'
    BY <1>5, <2>4 DEF Unqueued
  <2>6. \A r : r \in stored' => Attr[r.write].subject # s
    BY <1>7 DEF Matches, Fits
  <2>7. Unstored(f)'
    <3>1. ASSUME NEW w \in Fitting(f) PROVE Stated(w) \notin stored'
      <4>1. w \in Write /\ Attr[w].subject = s
        BY <2>4, <3>1 DEF Of
      <4> QED
        BY <2>6, <4>1, Names
    <3>2. ASSUME NEW r \in known[f].records, Asks(f, r) PROVE r \notin stored'
      BY <2>2, <2>6, <3>2
    <3> QED
      BY <1>3, <1>4, <2>4, <3>1, <3>2 DEF Unstored, Asks, Goes
  <2>8. KeysGone(f)'
    BY <1>3, <1>4, <1>5, <1>9, <2>1, <2>3 DEF KeysGone, Whose, Goes, Of
  <2>9. RecallsGone(f)'
    BY <1>3, <1>4, <1>5, <1>9, <2>1 DEF RecallsGone, Whose, Goes
  <2>10. LinksGone(f)'
    BY <1>3, <1>4, <1>5, <1>9, <2>1 DEF LinksGone, Whose, Goes
  <2>11. Progress(f)'
    BY <1>4, <1>9, <2>1, <2>5, <2>7, <2>8, <2>9, <2>10 DEF Progress, Goes, Looped, Scopes
  <2> QED
    BY <1>3, <1>4, <1>7, <2>11, Own DEF Goes
<1> QED
  BY <1>1, <1>8, <1>9

LEMMA TenantRowsKeeps == ASSUME ErasureInv, NEW f \in Forgets, TenantRows(f) PROVE ErasureInv'
<1>0. ErasureTypes /\ Progress(f) /\ forget[f].at = "rows" /\ forget[f] \in Calls
  BY Typed DEF ErasureInv, TenantRows
<1>1. /\ forget[f].scope = "tenant" /\ Unqueued(f) /\ Unstored(f)
      /\ forget[f].rounds \in 1 .. 5
      /\ forget[f].rounds > 2 => LinksGone(f)
      /\ forget[f].rounds > 3 => KeysGone(f)
      /\ forget[f].rounds > 4 => RecallsGone(f)
  BY <1>0 DEF Progress
<1> DEFINE n == forget[f].rounds
<1>2. PICK table : table = Tables[n]
  OBVIOUS
<1>3. /\ queue' = IF table = "intake" THEN {} ELSE queue
      /\ links' = IF table = "link" THEN {} ELSE links
      /\ keys' = IF table = "request_key" THEN {} ELSE keys
      /\ recalls' = IF table = "recall" THEN {} ELSE recalls
      /\ jobs' = IF table = "enrich_job" THEN [w \in Round |-> "none"] ELSE jobs
  BY <1>2 DEF TenantRows
<1>4. Len(Tables) = 5
  BY DEF Tables
<1>5. /\ table = "link" <=> n = 2
      /\ table = "request_key" <=> n = 3
      /\ table = "recall" <=> n = 4
  BY <1>1, <1>2 DEF Tables
<1>6. PICK step \in {"rows", "done"}, next \in 0 .. 5 :
        /\ Goes(f, step) /\ forget'[f].rounds = next
        /\ IF n = 5 THEN step = "done" ELSE step = "rows" /\ next = n + 1
  <2>1. PICK step \in {"rows", "done"} : step = IF n = 5 THEN "done" ELSE "rows"
    OBVIOUS
  <2>2. PICK next \in 0 .. 5 : next = IF n = 5 THEN 0 ELSE n + 1
    BY <1>1
  <2> DEFINE new == [forget[f] EXCEPT !.at = step, !.rounds = next]
  <2>3. forget' = [forget EXCEPT ![f] = new]
    BY <1>0, <1>4, <2>1, <2>2 DEF TenantRows, ErasureTypes
  <2>4. step \in Steps /\ next \in Int /\ {} \in SUBSET Things
    BY <2>1 DEF Steps
  <2>5. new \in Calls
    BY <1>0, <2>4, CallMoves
  <2>6. /\ new.at = step /\ new.rounds = next
        /\ new.scope = forget[f].scope /\ new.value = forget[f].value
    BY <1>0 DEF Calls
  <2> HIDE DEF new
  <2>7. Goes(f, step) /\ forget'[f] = new
    BY <1>0, <2>3, <2>5, <2>6, Changes
  <2> QED
    BY <2>1, <2>2, <2>6, <2>7
<1>7. UNCHANGED <<accepted, owed, spawned, asked, stored, vectors, erased, late, workers, known>>
  BY DEF TenantRows
<1>8. /\ queue' \subseteq queue /\ keys' \subseteq keys
      /\ recalls' \subseteq recalls /\ links' \subseteq links
  BY <1>3
<1>9. Sound' /\ Grows
  <2>1. jobs' = jobs \/ jobs' = [w \in Round |-> "none"]
    BY <1>3
  <2>2. forget' \in [Forgets -> Calls] /\ known' \in [Forgets -> Knowledge]
    BY <1>0, <1>6, <1>7 DEF Goes, ErasureTypes
  <2> QED
    BY <1>7, <1>8, <2>1, <2>2, SoundShrinks
<1>10. /\ Unqueued(f)' /\ Unstored(f)'
       /\ (LinksGone(f) => LinksGone(f)') /\ (KeysGone(f) => KeysGone(f)')
       /\ (RecallsGone(f) => RecallsGone(f)')
  BY <1>1, <1>6, <1>7, <1>8, Shrinks DEF Goes
<1>11. n >= 2 => LinksGone(f)'
  BY <1>1, <1>3, <1>5, <1>10 DEF LinksGone
<1>12. n >= 3 => KeysGone(f)'
  BY <1>1, <1>3, <1>5, <1>10 DEF KeysGone
<1>13. n >= 4 => RecallsGone(f)'
  BY <1>1, <1>3, <1>5, <1>10 DEF RecallsGone
<1>14. forget'[f].scope = "tenant"
  BY <1>1, <1>6 DEF Goes
<1>15. CASE n = 5
  <2>1. forget'[f].at = "done"
    BY <1>6, <1>15 DEF Goes
  <2> QED
    <3>1. Progress(f)'
      BY <1>10, <1>11, <1>12, <1>13, <1>14, <1>15, <2>1 DEF Progress, Looped, Scopes
    <3> QED
      BY <1>6, <1>7, <1>9, <3>1, Own DEF Goes
<1>16. CASE n # 5
  <2>1. forget'[f].at = "rows" /\ forget'[f].rounds = n + 1 /\ n \in 1 .. 4
    BY <1>1, <1>6, <1>16 DEF Goes
  <2>2. Progress(f)'
    BY <1>10, <1>11, <1>12, <1>13, <1>14, <2>1 DEF Progress, Looped, Scopes
  <2> QED
    BY <1>6, <1>7, <1>9, <2>2, Own DEF Goes
<1> QED
  BY <1>15, <1>16

-----------------------------------------------------------------------------
LEMMA ErasureStarts == ErasureInit => ErasureInv
<1> SUFFICES ASSUME ErasureInit PROVE ErasureInv
  OBVIOUS
<1>1. Idle \in Calls
  BY DEF Idle, Calls, Steps
<1>2. Nothing \in Knowledge
  BY DEF Nothing, Knowledge
<1>3. ErasureTypes
  BY <1>1, <1>2 DEF ErasureInit, ErasureTypes
<1>4. Landed /\ Derived /\ OnlyRounds /\ VectorsHaveCause
  BY DEF ErasureInit, Landed, Derived, OnlyRounds, VectorsHaveCause, Was
<1>5. Knew
  BY DEF ErasureInit, Knew, Nothing
<1>6. ASSUME NEW f \in Forgets PROVE Progress(f)
  <2>1. forget[f].at = "idle" /\ forget[f].scope = None
    BY DEF ErasureInit, Idle
  <2>2. forget[f].scope \notin Scopes
    BY <2>1, ErasureAssumption
  <2> QED
    BY <2>1, <2>2 DEF Progress, Looped, Scopes
<1> QED
  BY <1>3, <1>4, <1>5, <1>6 DEF ErasureInv

LEMMA ErasureStep == ErasureInv /\ [ErasureNext]_erasureVars => ErasureInv'
<1> SUFFICES ASSUME ErasureInv, [ErasureNext]_erasureVars PROVE ErasureInv'
  OBVIOUS
<1>1. ASSUME NEW w \in Write,
             \/ Enqueue(w) \/ AcceptedKey(w) \/ Claim(w) \/ EmbedPassages(w)
             \/ ApplyIntake(w) \/ AttemptFails(w) \/ LeaseExpires(w) \/ EmbedPassagesLate(w)
      PROVE  ErasureInv'
  BY <1>1, EnqueueKeeps, AcceptedKeyKeeps, ClaimKeeps, EmbedPassagesKeeps, ApplyIntakeKeeps,
     AttemptFailsKeeps, LeaseExpiresKeeps, EmbedPassagesLateKeeps
<1>2. ASSUME NEW w \in Round, ReadRound(w) \/ EmbedFact(w) \/ StoreFact(w) PROVE ErasureInv'
  BY <1>2, ReadRoundKeeps, EmbedFactKeeps, StoreFactKeeps
<1>3. ASSUME NEW q \in Recalls, Recall(q) \/ RecallPut(q) PROVE ErasureInv'
  BY <1>3, TracesKeep DEF Recall, RecallPut, writes, keyring
<1>4. ASSUME NEW l \in Links, Link(l) PROVE ErasureInv'
  BY <1>4, TracesKeep DEF Link
<1>5. ASSUME NEW f \in Forgets, ForgetStep(f) PROVE ErasureInv'
  BY <1>5, BeginKeeps, DiscardKeeps, CountKeeps, ForgetMatchesKeeps, DeleteKeeps,
     RecallsDeleteKeeps, ForgetCountKeeps, TenantSubjectsKeeps, EraseSubjectKeeps,
     TenantRowsKeeps DEF ForgetStep
<1>6. CASE PurgeEpisodic
  BY <1>6, PurgeEpisodicKeeps
<1>7. CASE PurgeRecalls
  BY <1>7, TracesKeep DEF PurgeRecalls
<1>8. CASE UNCHANGED erasureVars
  <2>1. UNCHANGED <<writes, keyring, traces, memory, workers, calls>>
    BY <1>8 DEF erasureVars
  <2>2. Sound'
    BY <2>1 DEF ErasureInv, Sound, ErasureTypes, Landed, Derived, OnlyRounds, VectorsHaveCause,
       Was, writes, keyring, traces, memory, workers, calls
  <2>3. Grows
    BY <2>1 DEF ErasureInv, ErasureTypes, Grows, writes, keyring, traces, memory
  <2> QED
    BY <2>1, <2>2, <2>3, Beside
<1> QED
  BY <1>1, <1>2, <1>3, <1>4, <1>5, <1>6, <1>7, <1>8 DEF ErasureNext

(* What each call of forget has seen to by the step it is at holds in every *)
(* state, whatever the pipeline, enrichment, retention and other calls do   *)
(* between its statements (Engine::forget_untraced, discard, delete,        *)
(* delete_subject, delete_tenant).                                          *)
THEOREM ErasureInvariant == ErasureSpec => []ErasureInv
  BY ErasureStarts, ErasureStep, PTL DEF ErasureSpec

(* A forget of any scope that has answered left nothing of what it was to   *)
(* erase stored, but a fact that was being derived; and even one that gave  *)
(* up left none of it queued (ErasedForGood).                               *)
THEOREM ErasedForGoodHolds == ErasureSpec => []ErasedForGood
<1>1. ErasureInv => ErasedForGood
  <2> SUFFICES ASSUME ErasureInv, NEW f \in Forgets
               PROVE  /\ Done(f) => \A r \in stored : Doomed(f, r) => r.derived /\ r \in late
                      /\ Ended(f) => \A w \in queue : ~Doomed(f, Stated(w))
    BY DEF ErasedForGood
  <2>0. ErasureTypes /\ Landed /\ Derived /\ OnlyRounds /\ Knew /\ Progress(f)
    BY DEF ErasureInv
  <2>1. ASSUME Done(f), NEW r \in stored, Doomed(f, r) PROVE r.derived /\ r \in late
    <3>1. r \in Memory /\ r.write \in Write
      BY <2>0, Names DEF ErasureTypes
    <3>2. Unstored(f)
      BY <2>0, <2>1 DEF Progress, Done
    <3>3. r.write \in Fitting(f)
      BY <2>1, <3>2 DEF Doomed, Unstored, Fitting
    <3>4. Stated(r.write) \notin stored
      BY <3>2, <3>3 DEF Unstored
    <3>5. r.derived /\ r = FactOf(r.write)
      BY <2>1, <3>1, <3>4, Names
    <3>6. r.write \in Round
      BY <2>0, <3>5 DEF OnlyRounds
    <3> QED
      BY <2>0, <3>4, <3>5, <3>6 DEF Derived
  <2>2. ASSUME Ended(f), NEW w \in queue PROVE ~Doomed(f, Stated(w))
    <3>1. w \in Write
      BY <2>0 DEF ErasureTypes
    <3>2. Unqueued(f)
      BY <2>0, <2>2 DEF Progress, Ended, Scopes, Looped
    <3>3. Stated(w) \notin known[f].records
      BY <2>0, <3>1 DEF Landed, Knew
    <3> QED
      BY <3>1, <3>2, <3>3, Names DEF Doomed, Unqueued, Fitting
  <2> QED
    BY <2>1, <2>2
<1> QED
  BY <1>1, ErasureInvariant, PTL

(* Once an erasure has ended, the keys, recall records and links that were  *)
(* there when it began are gone with their subject, user or tenant          *)
(* (TracesErased).                                                          *)
THEOREM TracesErasedHolds == ErasureSpec => []TracesErased
<1>1. ErasureInv => TracesErased
  <2> SUFFICES ASSUME ErasureInv, NEW f \in Forgets, Ended(f)
               PROVE  KeysGone(f) /\ RecallsGone(f) /\ LinksGone(f)
                      /\ (forget[f].scope = "user" => UsersRecallsGone(f))
    BY DEF TracesErased, KeysGone, RecallsGone, LinksGone, UsersRecallsGone
  <2> QED
    BY DEF ErasureInv, Progress, Ended
<1> QED
  BY <1>1, ErasureInvariant, PTL

(* No deletion of any scope, and no retention, leaves a cached vector that  *)
(* no record accounts for (VectorsHaveCause).                               *)
THEOREM VectorsHaveCauseHolds == ErasureSpec => []VectorsHaveCause
<1>1. ErasureInv => VectorsHaveCause
  BY DEF ErasureInv
<1> QED
  BY <1>1, ErasureInvariant, PTL
=============================================================================
