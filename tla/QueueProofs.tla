----------------------------- MODULE QueueProofs -----------------------------
(***************************************************************************)
(* Proofs about the two queues a process works behind a caller's back:     *)
(* requests that are repeated before their write has landed, and the jobs  *)
(* that enrich a session's rounds with facts.                              *)
(***************************************************************************)
EXTENDS Requests, Enrichment, FiniteSetTheorems, SequenceTheorems, TLAPS

-----------------------------------------------------------------------------
(* Requests and their keys.                                                *)

Entry == [by : Call \cup {NoCall}, id : Call \cup {NoCall}]
Calls == [step : Steps, answer : Call \cup {NoCall}]

RequestTypes ==
  /\ keys \in [Key -> Entry] /\ known \in [Call -> Entry]
  /\ mem \in [Call -> Statuses]
  /\ queue \in Seq(Call)
  /\ call \in [Call -> Calls]
  /\ faults \in 0 .. MaxLosses /\ erasures \in 0 .. MaxErasures

(* What is recorded under a key answers the request it was used for.       *)
SameBody(c, r) == r \in Call /\ BodyOf[r] = BodyOf[c]

KeysFit ==
  \A k \in Key : keys[k] # NoEntry => keys[k].by \in Call /\ SameBody(keys[k].by, keys[k].id)
AnswersFit ==
  \A c \in Call : call[c].step \in {"remember", "answered"} => SameBody(c, call[c].answer)

(* A key keeps its entry until the subject is erased; a call that has not  *)
(* looked its content up has queued nothing, and the queue holds only what *)
(* was queued; so a repeat, which never gets further, queues nothing.      *)
KnownKept == \A c \in Call : known[c] # NoEntry => keys[KeyOf[c]] = known[c]
QueuedOnly == \A i \in DOMAIN queue : mem[queue[i]] # "none"
NotYet ==
  \A c \in Call : /\ call[c].step \in {"new", "replay"} => mem[c] = "none"
                  /\ call[c].step = "new" => known[c] = NoEntry
Repeated(c) ==
  /\ mem[c] = "none"
  /\ call[c].step \in {"replay", "answered", "refused", "lost"}
  /\ call[c].step = "answered" => call[c].answer = known[c].id
RepeatsOnly == \A c \in Call : Repeats(c) => Repeated(c)

RequestInv ==
  /\ RequestTypes /\ KeysFit /\ AnswersFit /\ OneCopyTakesEffect
  /\ KnownKept /\ QueuedOnly /\ NotYet /\ RepeatsOnly

-----------------------------------------------------------------------------
(* What a step of a call does to it, and to no other.                      *)
Others(c) == \A d \in Call : d # c => call'[d] = call[d]

LEMMA GoesTo ==
    ASSUME RequestTypes, NEW c \in Call, NEW step \in Steps, MovesTo(c, step)
    PROVE  /\ call' \in [Call -> Calls] /\ Others(c)
           /\ call'[c].step = step /\ call'[c].answer = call[c].answer
<1> DEFINE new == [call[c] EXCEPT !.step = step]
<1>1. call[c] \in Calls /\ call \in [Call -> Calls]
  BY DEF RequestTypes
<1>2. new \in Calls /\ new.step = step /\ new.answer = call[c].answer
  BY <1>1 DEF Calls
<1>3. call' = [call EXCEPT ![c] = new]
  BY <1>1 DEF MovesTo
<1> HIDE DEF new
<1> QED
  BY <1>1, <1>2, <1>3 DEF Others

LEMMA Answers ==
    ASSUME RequestTypes, NEW c \in Call, NEW step \in Steps, NEW id \in Call \cup {NoCall},
           Answer(c, step, id)
    PROVE  /\ call' \in [Call -> Calls] /\ Others(c)
           /\ call'[c].step = step /\ call'[c].answer = id
<1> DEFINE new == [step |-> step, answer |-> id]
<1>1. new \in Calls /\ new.step = step /\ new.answer = id
  BY DEF Calls
<1>2. call \in [Call -> Calls] /\ call' = [call EXCEPT ![c] = new]
  BY DEF RequestTypes, Answer
<1> HIDE DEF new
<1> QED
  BY <1>1, <1>2 DEF Others

(* What a call that moves, while its records do not, has to show.          *)
Fits(c) ==
  /\ call'[c].step \in {"remember", "answered"} => SameBody(c, call'[c].answer)
  /\ call'[c].step = "new" => call[c].step = "new"
  /\ call'[c].step = "replay" => call[c].step \in {"new", "replay"}
  /\ Repeats(c) => Repeated(c)'

(* A call moves and no record does.                                        *)
LEMMA OnlyTheCall ==
    ASSUME RequestInv, NEW c \in Call, UNCHANGED <<keys, mem, queue, erasures, admitted, known>>,
           call' \in [Call -> Calls], Others(c), faults' \in 0 .. MaxLosses, Fits(c)
    PROVE  RequestInv'
<1>1. RequestTypes' /\ KeysFit' /\ OneCopyTakesEffect' /\ KnownKept' /\ QueuedOnly'
  BY DEF RequestInv, RequestTypes, KeysFit, SameBody, OneCopyTakesEffect, KnownKept, QueuedOnly
<1>2. AnswersFit'
  BY DEF RequestInv, AnswersFit, Others, SameBody, Fits
<1>3. NotYet'
  BY DEF RequestInv, NotYet, Others, Fits
<1>4. RepeatsOnly'
  BY DEF RequestInv, RepeatsOnly, Repeats, Repeated, Others, Fits
<1> QED
  BY <1>1, <1>2, <1>3, <1>4 DEF RequestInv

LEMMA Faults == ASSUME RequestTypes, Fault PROVE faults' \in 0 .. MaxLosses
  BY RequestsAssumption DEF RequestTypes, Fault

(* A repeat, once it has begun, knows the entry of its key.                *)
LEMMA RepeatKnows ==
    ASSUME RequestInv, NEW c \in Call, Repeats(c)
    PROVE  keys[KeyOf[c]] = known[c] /\ keys[KeyOf[c]] # NoEntry /\ Repeated(c)
  BY DEF RequestInv, KnownKept, RepeatsOnly, Repeats

(* A call ends without an answer, or a step it takes is not a repeat's.    *)
LEMMA MovesOn ==
    ASSUME RequestInv, NEW c \in Call, UNCHANGED <<keys, mem, queue, erasures, admitted, known>>,
           NEW step \in {"dedup", "enqueue", "conflict", "refused", "lost"}, MovesTo(c, step),
           UNCHANGED faults \/ Fault,
           step \in {"refused", "lost"} \/ ~Repeats(c)
    PROVE  RequestInv'
<1>1. step \in Steps
  BY DEF Steps
<1>2. call' \in [Call -> Calls] /\ Others(c) /\ call'[c].step = step
  BY <1>1, GoesTo DEF RequestInv
<1>3. faults' \in 0 .. MaxLosses
  BY Faults DEF RequestInv, RequestTypes
<1>4. Repeats(c) => Repeated(c)'
  BY <1>2, RepeatKnows DEF Repeated
<1>5. Fits(c)
  BY <1>2, <1>4 DEF Fits
<1> QED
  BY <1>2, <1>3, <1>5, OnlyTheCall

LEMMA BeginStep == ASSUME RequestInv, NEW c \in Call, Begin(c) PROVE RequestInv'
<1>1. /\ call[c].step = "new" /\ MovesTo(c, "replay") /\ RequestTypes
      /\ known' = [known EXCEPT ![c] = keys[KeyOf[c]]]
      /\ UNCHANGED <<keys, mem, queue, faults, erasures, admitted>>
  BY DEF Begin, RequestInv
<1>2. KeyOf[c] \in Key /\ mem[c] = "none"
  BY <1>1, RequestsAssumption DEF RequestInv, NotYet
<1>3. call' \in [Call -> Calls] /\ Others(c) /\ call'[c].step = "replay"
  BY <1>1, GoesTo DEF Steps
<1>4. /\ known' \in [Call -> Entry] /\ known'[c] = keys[KeyOf[c]]
      /\ \A d \in Call : d # c => known'[d] = known[d]
  BY <1>1, <1>2 DEF RequestTypes
<1>5. RequestTypes' /\ KeysFit' /\ OneCopyTakesEffect' /\ QueuedOnly'
  BY <1>1, <1>3, <1>4
  DEF RequestInv, RequestTypes, KeysFit, SameBody, OneCopyTakesEffect, QueuedOnly
<1>6. AnswersFit'
  BY <1>3 DEF RequestInv, AnswersFit, Others, SameBody
<1>7. KnownKept'
  BY <1>1, <1>4 DEF RequestInv, KnownKept
<1>8. NotYet'
  BY <1>1, <1>2, <1>3, <1>4 DEF RequestInv, NotYet, Others
<1>9. RepeatsOnly'
  BY <1>1, <1>2, <1>3, <1>4 DEF RequestInv, RepeatsOnly, Repeats, Repeated, Others
<1> QED
  BY <1>5, <1>6, <1>7, <1>8, <1>9 DEF RequestInv

LEMMA ReplayStep == ASSUME RequestInv, NEW c \in Call, Replay(c) PROVE RequestInv'
<1>1. call[c].step = "replay" /\ UNCHANGED <<keys, mem, queue, faults, erasures, admitted, known>>
  BY DEF Replay, history
<1> DEFINE entry == keys[KeyOf[c]]
<1>2. CASE entry = NoEntry /\ MovesTo(c, "dedup")
  BY <1>1, <1>2, MovesOn, RepeatKnows
<1>3. CASE entry # NoEntry /\ BodyOf[entry.by] = BodyOf[c] /\ Answer(c, "answered", entry.id)
  <2>1. KeyOf[c] \in Key
    BY RequestsAssumption
  <2>2. entry.id \in Call /\ SameBody(c, entry.id)
    BY <1>3, <2>1 DEF RequestInv, KeysFit, SameBody
  <2>3. call' \in [Call -> Calls] /\ Others(c) /\ call'[c].step = "answered"
        /\ call'[c].answer = entry.id
    BY <1>3, <2>2, Answers DEF RequestInv, Steps
  <2>4. faults' \in 0 .. MaxLosses
    BY <1>1 DEF RequestInv, RequestTypes
  <2>5. Repeats(c) => Repeated(c)'
    BY <1>1, <2>3, RepeatKnows DEF Repeated
  <2>6. Fits(c)
    BY <2>2, <2>3, <2>5 DEF Fits, SameBody
  <2> QED
    BY <1>1, <2>3, <2>4, <2>6, OnlyTheCall
<1>4. CASE ~(entry # NoEntry /\ BodyOf[entry.by] = BodyOf[c]) /\ MovesTo(c, "conflict")
  <2>1. ~Repeats(c)
    BY <1>4, RepeatKnows DEF Repeats
  <2> QED
    BY <1>1, <1>4, <2>1, MovesOn
<1> QED
  BY <1>2, <1>3, <1>4 DEF Replay

LEMMA DedupStep == ASSUME RequestInv, NEW c \in Call, Dedup(c) PROVE RequestInv'
<1>1. call[c].step = "dedup" /\ UNCHANGED <<keys, mem, queue, faults, erasures, admitted, known>>
  BY DEF Dedup, history
<1>2. ~Repeats(c)
  BY <1>1, RepeatKnows DEF Repeated
<1>3. CASE MovesTo(c, "enqueue")
  BY <1>1, <1>2, <1>3, MovesOn
<1>4. ASSUME NEW r \in Stored(BodyOf[c]), Answer(c, "remember", r) PROVE RequestInv'
  <2>1. r \in Call /\ SameBody(c, r)
    BY DEF Stored, SameBody
  <2>2. call' \in [Call -> Calls] /\ Others(c) /\ call'[c].step = "remember" /\ call'[c].answer = r
    BY <1>4, <2>1, Answers DEF RequestInv, Steps
  <2>3. faults' \in 0 .. MaxLosses
    BY <1>1 DEF RequestInv, RequestTypes
  <2>4. Fits(c)
    BY <1>2, <2>1, <2>2 DEF Fits, SameBody
  <2> QED
    BY <1>1, <2>2, <2>3, <2>4, OnlyTheCall
<1> QED
  BY <1>3, <1>4 DEF Dedup

(* Records change and none becomes committed beside another.               *)
LEMMA NoneCommitted ==
    ASSUME OneCopyTakesEffect, \A r \in Call : mem'[r] = "committed" => mem[r] = "committed",
           UNCHANGED admitted
    PROVE  OneCopyTakesEffect'
  BY DEF OneCopyTakesEffect

LEMMA EnqueueStep == ASSUME RequestInv, NEW c \in Call, EnqueueWrite(c) PROVE RequestInv'
<1>1. /\ RequestTypes /\ mem' = [mem EXCEPT ![c] = "queued"] /\ queue' = Append(queue, c)
      /\ call[c].step = "enqueue"
      /\ UNCHANGED <<keys, erasures, admitted, known>>
  BY DEF RequestInv, EnqueueWrite, history
<1>2. ~Repeats(c)
  BY <1>1, RepeatKnows DEF Repeated
<1>3. /\ mem' \in [Call -> Statuses] /\ mem'[c] = "queued"
      /\ \A r \in Call : r # c => mem'[r] = mem[r]
  BY <1>1 DEF RequestTypes, Statuses
<1>4. OneCopyTakesEffect' /\ KeysFit' /\ KnownKept'
  BY <1>1, <1>3, NoneCommitted DEF RequestInv, KeysFit, SameBody, KnownKept
<1>5. queue' \in Seq(Call) /\ QueuedOnly'
  BY <1>1, <1>3 DEF RequestInv, RequestTypes, QueuedOnly
<1>6. ASSUME call' \in [Call -> Calls], Others(c), faults' \in 0 .. MaxLosses,
             call'[c].step \in {"remember", "refused"},
             call'[c].step = "remember" => SameBody(c, call'[c].answer)
      PROVE  RequestInv'
  <2>1. AnswersFit'
    BY <1>6 DEF RequestInv, AnswersFit, Others, SameBody
  <2>2. RequestTypes'
    BY <1>1, <1>3, <1>5, <1>6 DEF RequestTypes
  <2>3. NotYet'
    BY <1>1, <1>3, <1>6 DEF RequestInv, NotYet, Others
  <2>4. RepeatsOnly'
    BY <1>1, <1>2, <1>3, <1>6 DEF RequestInv, RepeatsOnly, Repeats, Repeated, Others
  <2> QED
    BY <1>4, <1>5, <2>1, <2>2, <2>3, <2>4 DEF RequestInv
<1>7. CASE Answer(c, "remember", c) /\ UNCHANGED faults
  <2>1. call' \in [Call -> Calls] /\ Others(c) /\ call'[c].step = "remember" /\ call'[c].answer = c
    BY <1>1, <1>7, Answers DEF Steps
  <2>2. SameBody(c, c) /\ faults' \in 0 .. MaxLosses
    BY <1>1, <1>7 DEF SameBody, RequestTypes
  <2> QED
    BY <1>6, <2>1, <2>2 DEF SameBody
<1>8. CASE Fault /\ MovesTo(c, "refused")
  <2>1. call' \in [Call -> Calls] /\ Others(c) /\ call'[c].step = "refused"
    BY <1>1, <1>8, GoesTo DEF Steps
  <2> QED
    BY <1>1, <1>6, <1>8, <2>1, Faults
<1> QED
  BY <1>7, <1>8 DEF EnqueueWrite

LEMMA RememberKeyStep == ASSUME RequestInv, NEW c \in Call, RememberKey(c) PROVE RequestInv'
<1>1. /\ RequestTypes /\ call[c].step = "remember" /\ MovesTo(c, "answered")
      /\ UNCHANGED <<mem, queue, erasures, admitted, known>>
  BY DEF RequestInv, RememberKey, history
<1>2. SameBody(c, call[c].answer) /\ KeyOf[c] \in Key /\ ~Repeats(c)
  BY <1>1, RequestsAssumption, RepeatKnows DEF RequestInv, AnswersFit, Repeated
<1>3. /\ call' \in [Call -> Calls] /\ Others(c) /\ call'[c].step = "answered"
      /\ call'[c].answer = call[c].answer
  BY <1>1, GoesTo DEF Steps
<1>4. AnswersFit'
  BY <1>1, <1>2, <1>3 DEF RequestInv, AnswersFit, Others, SameBody
<1>5. faults' \in 0 .. MaxLosses
  BY <1>1, Faults DEF RememberKey, RequestTypes
<1>6. keys' \in [Key -> Entry] /\ KeysFit' /\ \A k \in Key : keys[k] # NoEntry => keys'[k] = keys[k]
  <2>1. CASE UNCHANGED keys
    BY <1>1, <2>1 DEF RequestInv, RequestTypes, KeysFit, SameBody
  <2>2. CASE /\ keys[KeyOf[c]] = NoEntry
             /\ keys' = [keys EXCEPT ![KeyOf[c]] = [by |-> c, id |-> call[c].answer]]
    <3> DEFINE new == [by |-> c, id |-> call[c].answer]
    <3>1. new \in Entry /\ new.by = c /\ new.id = call[c].answer
      BY <1>2 DEF Entry, SameBody
    <3>2. keys' = [keys EXCEPT ![KeyOf[c]] = new]
      BY <2>2
    <3> HIDE DEF new
    <3> QED
      BY <1>1, <1>2, <2>2, <3>1, <3>2 DEF RequestInv, RequestTypes, KeysFit, SameBody
  <2> QED
    BY <2>1, <2>2 DEF RememberKey
<1>7. RequestTypes' /\ OneCopyTakesEffect' /\ QueuedOnly'
  BY <1>1, <1>3, <1>5, <1>6 DEF RequestInv, RequestTypes, OneCopyTakesEffect, QueuedOnly
<1>8. KnownKept'
  BY <1>1, <1>6, RequestsAssumption DEF RequestInv, KnownKept
<1>9. NotYet'
  BY <1>1, <1>3 DEF RequestInv, NotYet, Others
<1>10. RepeatsOnly'
  BY <1>1, <1>2, <1>3 DEF RequestInv, RepeatsOnly, Repeats, Repeated, Others
<1> QED
  BY <1>4, <1>6, <1>7, <1>8, <1>9, <1>10 DEF RequestInv

(* Records change, none that is not queued yet among them.                 *)
LEMMA OnlyRecords ==
    ASSUME RequestInv, UNCHANGED <<keys, call, faults, known>>,
           mem' \in [Call -> Statuses], erasures' \in 0 .. MaxErasures,
           \A r \in Call : (mem[r] = "none") <=> (mem'[r] = "none"),
           queue' \in Seq(Call), QueuedOnly', OneCopyTakesEffect'
    PROVE  RequestInv'
<1>1. RequestTypes' /\ KeysFit' /\ AnswersFit' /\ KnownKept'
  BY DEF RequestInv, RequestTypes, KeysFit, AnswersFit, SameBody, KnownKept
<1>2. NotYet' /\ RepeatsOnly'
  BY DEF RequestInv, NotYet, RepeatsOnly, Repeats, Repeated
<1> QED
  BY <1>1, <1>2 DEF RequestInv

LEMMA LandStep == ASSUME RequestInv, Land PROVE RequestInv'
<1>1. /\ RequestTypes /\ UNCHANGED <<keys, call, faults, erasures, admitted, known>>
      /\ queue # <<>> /\ queue' = Tail(queue)
  BY DEF RequestInv, Land, history
<1>2. PICK c : c = Head(queue)
  OBVIOUS
<1>3. c \in Call /\ mem[c] # "none" /\ queue' \in Seq(Call)
  BY <1>1, <1>2 DEF RequestInv, RequestTypes, QueuedOnly
<1>4. \A i \in DOMAIN queue' : queue'[i] = queue[i + 1] /\ i + 1 \in DOMAIN queue
  BY <1>1 DEF RequestTypes
<1>5. ASSUME mem' \in [Call -> Statuses], OneCopyTakesEffect',
             \A r \in Call : (mem[r] = "none") <=> (mem'[r] = "none")
      PROVE  RequestInv'
  <2>1. QueuedOnly'
    BY <1>1, <1>4, <1>5 DEF RequestInv, RequestTypes, QueuedOnly
  <2>2. erasures' \in 0 .. MaxErasures
    BY <1>1 DEF RequestTypes
  <2> QED
    BY <1>1, <1>3, <1>5, <2>1, <2>2, OnlyRecords
<1> DEFINE copied == \E r \in Call : BodyOf[r] = BodyOf[c] /\ mem[r] = "committed"
<1>6. ASSUME NEW status \in {"quarantined", "closed", "candidate", "committed"},
             mem' = [mem EXCEPT ![c] = status],
             status = "committed" => ~(BodyOf[c] \notin Uncompared /\ copied)
      PROVE  RequestInv'
  <2>1. /\ mem' \in [Call -> Statuses]
        /\ \A r \in Call : mem'[r] = IF r = c THEN status ELSE mem[r]
    BY <1>1, <1>3, <1>6 DEF RequestTypes, Statuses
  <2>2. OneCopyTakesEffect'
    BY <1>1, <1>6, <2>1 DEF RequestInv, OneCopyTakesEffect
  <2> QED
    BY <1>3, <1>5, <2>1, <2>2
<1>7. ASSUME NEW old \in Call, mem[old] = "committed", ~copied,
             mem' = [mem EXCEPT ![c] = "committed", ![old] = "superseded"]
      PROVE  RequestInv'
  <2>1. mem' \in [Call -> Statuses]
    BY <1>1, <1>3, <1>7 DEF RequestTypes, Statuses
  <2>2. \A r \in Call :
          mem'[r] = IF r = old THEN "superseded" ELSE IF r = c THEN "committed" ELSE mem[r]
    BY <1>1, <1>3, <1>7 DEF RequestTypes
  <2>3. OneCopyTakesEffect'
    BY <1>1, <1>7, <2>2 DEF RequestInv, OneCopyTakesEffect
  <2> QED
    BY <1>3, <1>5, <1>7, <2>1, <2>2, <2>3
<1> QED
  BY <1>2, <1>6, <1>7 DEF Land

LEMMA AdmitStep == ASSUME RequestInv, NEW R \in SUBSET Call, Admit(R) PROVE RequestInv'
<1>1. /\ RequestTypes /\ UNCHANGED <<keys, queue, call, faults, erasures, known>>
      /\ \A r \in R : mem[r] = "candidate"
      /\ mem' = [c \in Call |-> IF c \in R THEN "committed" ELSE mem[c]]
      /\ admitted' = admitted \cup R
  BY DEF RequestInv, Admit
<1>2. /\ mem' \in [Call -> Statuses]
      /\ \A r \in Call : (mem[r] = "none") <=> (mem'[r] = "none")
      /\ \A r \in Call : r \in R \/ mem'[r] = mem[r]
  BY <1>1 DEF RequestTypes, Statuses
<1>3. OneCopyTakesEffect'
  BY <1>1, <1>2 DEF RequestInv, OneCopyTakesEffect
<1>4. QueuedOnly' /\ queue' \in Seq(Call) /\ erasures' \in 0 .. MaxErasures
  BY <1>1, <1>2 DEF RequestInv, RequestTypes, QueuedOnly
<1> QED
  BY <1>1, <1>2, <1>3, <1>4, OnlyRecords

LEMMA CloseStep == ASSUME RequestInv, NEW r \in Call, Close(r) PROVE RequestInv'
<1>1. /\ RequestTypes /\ UNCHANGED <<keys, queue, call, faults, erasures, admitted, known>>
      /\ mem[r] \in {"candidate", "committed"} /\ mem' = [mem EXCEPT ![r] = "closed"]
  BY DEF RequestInv, Close, history
<1>2. /\ mem' \in [Call -> Statuses]
      /\ \A s \in Call : (mem[s] = "none") <=> (mem'[s] = "none")
      /\ \A s \in Call : mem'[s] = "committed" => mem[s] = "committed"
  BY <1>1 DEF RequestTypes, Statuses
<1>3. OneCopyTakesEffect'
  BY <1>1, <1>2, NoneCommitted DEF RequestInv
<1>4. QueuedOnly' /\ queue' \in Seq(Call) /\ erasures' \in 0 .. MaxErasures
  BY <1>1, <1>2 DEF RequestInv, RequestTypes, QueuedOnly
<1> QED
  BY <1>1, <1>2, <1>3, <1>4, OnlyRecords

LEMMA ErasureCounts == ASSUME RequestTypes, Erasure PROVE erasures' \in 0 .. MaxErasures
  BY RequestsAssumption DEF RequestTypes, Erasure

(* A sequence without one of its elements holds nothing it did not hold.   *)
LEMMA LeftAfterRemoval ==
    ASSUME NEW s \in Seq(Call), NEW i \in DOMAIN s
    PROVE  /\ RemoveAt(s, i) \in Seq(Call)
           /\ \A k \in DOMAIN RemoveAt(s, i) : \E j \in DOMAIN s : RemoveAt(s, i)[k] = s[j]
<1> DEFINE front == SubSeq(s, 1, i - 1)
           back  == SubSeq(s, i + 1, Len(s))
<1>1. i \in 1 .. Len(s) /\ Len(s) \in Nat /\ DOMAIN s = 1 .. Len(s)
  OBVIOUS
<1>2. front \in Seq(Call) /\ Len(front) = i - 1 /\ \A k \in 1 .. i - 1 : front[k] = s[k]
  BY <1>1
<1>3. /\ back \in Seq(Call) /\ Len(back) = Len(s) - i
      /\ \A k \in 1 .. Len(s) - i : back[k] = s[i + k]
  BY <1>1
<1>4. RemoveAt(s, i) = front \o back
  BY DEF RemoveAt
<1> HIDE DEF front, back
<1>5. /\ front \o back \in Seq(Call) /\ Len(front \o back) = Len(front) + Len(back)
      /\ \A k \in 1 .. Len(front) + Len(back) :
           (front \o back)[k] = IF k <= Len(front) THEN front[k] ELSE back[k - Len(front)]
  BY <1>2, <1>3, ConcatProperties
<1>6. \A k \in 1 .. Len(s) - 1 : \E j \in DOMAIN s : (front \o back)[k] = s[j]
  <2> TAKE k \in 1 .. Len(s) - 1
  <2>1. CASE k < i
    BY <1>1, <1>2, <1>3, <1>5, <2>1
  <2>2. CASE k >= i
    <3>1. k - (i - 1) \in 1 .. Len(s) - i /\ i + (k - (i - 1)) = k + 1 /\ k + 1 \in DOMAIN s
      BY <1>1, <2>2
    <3>2. (front \o back)[k] = back[k - (i - 1)]
      BY <1>1, <1>2, <1>3, <1>5, <2>2
    <3> QED
      BY <1>3, <3>1, <3>2
  <2>3. k < i \/ k >= i
    BY <1>1
  <2> QED
    BY <2>1, <2>2, <2>3
<1>7. Len(front \o back) = Len(s) - 1
  BY <1>1, <1>2, <1>3, <1>5
<1>8. \A t \in Seq(Call) : DOMAIN t = 1 .. Len(t)
  OBVIOUS
<1> QED
  BY <1>4, <1>5, <1>6, <1>7, <1>8

LEMMA ForgetStep == ASSUME RequestInv, NEW r \in Call, Forget(r) PROVE RequestInv'
<1>1. /\ RequestTypes /\ UNCHANGED <<keys, call, faults, admitted, known>> /\ Erasure
      /\ mem[r] # "none" /\ mem' = [mem EXCEPT ![r] = "erased"]
  BY DEF Forget, RequestInv, history
<1>2. /\ mem' \in [Call -> Statuses]
      /\ \A s \in Call : (mem[s] = "none") <=> (mem'[s] = "none")
      /\ \A s \in Call : mem'[s] = "committed" => mem[s] = "committed"
  BY <1>1 DEF RequestTypes, Statuses
<1>3. OneCopyTakesEffect'
  BY <1>1, <1>2, NoneCommitted DEF RequestInv
<1>4. queue' \in Seq(Call) /\ \A i \in DOMAIN queue' : \E j \in DOMAIN queue : queue'[i] = queue[j]
  <2>1. CASE UNCHANGED queue
    BY <1>1, <2>1 DEF RequestTypes
  <2>2. ASSUME NEW i \in DOMAIN queue, queue' = RemoveAt(queue, i) PROVE <1>4!:
    BY <1>1, <2>2, LeftAfterRemoval DEF RequestTypes
  <2> QED
    BY <2>1, <2>2 DEF Forget
<1>5. QueuedOnly'
  BY <1>1, <1>2, <1>4 DEF RequestInv, RequestTypes, QueuedOnly
<1> QED
  BY <1>1, <1>2, <1>3, <1>4, <1>5, OnlyRecords, ErasureCounts

LEMMA EraseSubjectStep == ASSUME RequestInv, EraseWrites PROVE RequestInv'
<1>1. /\ RequestTypes /\ keys' = [k \in Key |-> NoEntry] /\ Erasure
      /\ mem' = [c \in Call |-> IF mem[c] = "none" THEN "none" ELSE "erased"]
      /\ queue' = <<>> /\ known' = [c \in Call |-> NoEntry]
      /\ UNCHANGED <<call, faults, admitted>>
  BY DEF EraseWrites, RequestInv
<1>2. /\ mem' \in [Call -> Statuses]
      /\ \A s \in Call : (mem[s] = "none") <=> (mem'[s] = "none")
      /\ \A s \in Call : mem'[s] = "committed" => mem[s] = "committed"
  BY <1>1 DEF RequestTypes, Statuses
<1>3. NoEntry \in Entry
  BY DEF NoEntry, Entry
<1>4. RequestTypes'
  BY <1>1, <1>2, <1>3, ErasureCounts DEF RequestTypes
<1>5. KeysFit' /\ AnswersFit' /\ KnownKept' /\ QueuedOnly'
  BY <1>1 DEF RequestInv, KeysFit, AnswersFit, SameBody, KnownKept, QueuedOnly
<1>6. NotYet' /\ RepeatsOnly'
  BY <1>1, <1>2 DEF RequestInv, NotYet, RepeatsOnly, Repeats
<1>7. OneCopyTakesEffect'
  BY <1>1, <1>2, NoneCommitted DEF RequestInv
<1> QED
  BY <1>4, <1>5, <1>6, <1>7 DEF RequestInv

LEMMA RequestStep == ASSUME RequestInv, [RequestNext]_requestVars PROVE RequestInv'
<1>1. ASSUME NEW c \in Call, Refuse(c) \/ Lose(c) PROVE RequestInv'
  BY <1>1, MovesOn DEF Refuse, Lose, history
<1>2. CASE UNCHANGED requestVars
  BY <1>2
  DEF requestVars, RequestInv, RequestTypes, KeysFit, AnswersFit, SameBody, OneCopyTakesEffect,
      KnownKept, QueuedOnly, NotYet, RepeatsOnly, Repeats, Repeated
<1> QED
  BY <1>1, <1>2, BeginStep, ReplayStep, DedupStep, EnqueueStep, RememberKeyStep, LandStep,
     AdmitStep, CloseStep, ForgetStep, EraseSubjectStep DEF RequestNext

LEMMA RequestStarts == ASSUME RequestInit PROVE RequestInv
<1>1. RequestTypes
  BY RequestsAssumption DEF RequestInit, RequestTypes, NoEntry, Entry, Calls, Steps, Statuses
<1>2. KeysFit /\ AnswersFit /\ OneCopyTakesEffect /\ KnownKept /\ QueuedOnly
  BY DEF RequestInit, KeysFit, AnswersFit, OneCopyTakesEffect, KnownKept, QueuedOnly
<1>3. NotYet /\ RepeatsOnly
  BY DEF RequestInit, NotYet, RepeatsOnly, Repeats
<1> QED
  BY <1>1, <1>2, <1>3 DEF RequestInv

(* For any calls, keys and bodies: what is recorded under a key answers the *)
(* call that recorded it and stays until the subject is erased, a call is  *)
(* about to be answered with its own content, a repeat queues nothing, and *)
(* one copy of what the gate compares is committed by the pipeline.        *)
THEOREM RequestInvariant == RequestSpec => []RequestInv
<1>1. RequestInit => RequestInv
  BY RequestStarts
<1>2. RequestInv /\ [RequestNext]_requestVars => RequestInv'
  BY RequestStep
<1> QED
  BY <1>1, <1>2, PTL DEF RequestSpec

(* However often a write is repeated, with its key or without, whatever is *)
(* lost and whatever is erased, superseded or closed in between, one copy  *)
(* of it at most is committed: of structured records and rounds, which the *)
(* gate compares with nothing, and of copies admitted after they were held *)
(* there may be more.                                                      *)
THEOREM OneCopyTakesEffectHolds == RequestSpec => []OneCopyTakesEffect
<1>1. RequestInv => OneCopyTakesEffect
  BY DEF RequestInv
<1> QED
  BY <1>1, RequestInvariant, PTL

(* A call is answered with a record of the content it sent, whoever else   *)
(* uses its key, and a repeat that began when its key was recorded gets    *)
(* the first answer and queues nothing: what is recorded under a key has   *)
(* the content of the call that recorded it and is never overwritten, and  *)
(* a repeat gets no further than looking it up.                            *)
THEOREM AnswerFitsHolds == RequestSpec => []AnswerFits
<1>1. RequestInv => AnswerFits
  BY DEF RequestInv, AnswersFit, SameBody, AnswerFits, Answered, RepeatsOnly, Repeated
<1> QED
  BY <1>1, RequestInvariant, PTL

-----------------------------------------------------------------------------
(* Enrichment jobs.                                                        *)

Attempts ==
  [step : Step, job : 0..Jobs, read : SUBSET Round, answer : SUBSET Tellable, key : SUBSET Round]

JobRecords ==
  [status : JobStatus, attempts : Nat, leased : BOOLEAN, due : BOOLEAN, key : SUBSET Round]

(* A session that has a job, or had one an attempt still works on, was     *)
(* ingested after every session before it.                                 *)
Ingested(j) == \A r \in RoundsOf[j] : round[r] # "none"

InTurn ==
  \A j \in Job : (job[j].status # "none" \/ Attended(j)) => \A i \in 1..j : Ingested(i)

(* What an attempt has read is of its session, and what it was told is     *)
(* about what it has read; so is what the cache keeps.                     *)
Sound(a) ==
  /\ a.job = 0 => a = Idle
  /\ a.job # 0 => a.read \subseteq RoundsOf[a.job]
  /\ \A f \in a.answer : f \subseteq a.read
  /\ a.step = "read" => a.answer = {}
  /\ a.step = "put" => a.key = a.read

AttemptsSound == \A w \in Worker : Sound(attempt[w])

CacheSound == \A entry \in cache : \A f \in entry[2] : f \subseteq entry[1]

(* A round that was read is there, or it went while it was read.           *)
Kept(r) == round[r] \in {"committed", "expired"} \/ r \in raced

ReadKept == \A w \in Worker : \A r \in attempt[w].read : Kept(r)

(* As long as no attempt outlives its lease, an attempt has its job to     *)
(* itself, unless it was erased.                                           *)
HasJob(w) ==
  LET j == attempt[w].job
  IN  /\ job[j].status = "none" \/ (job[j].status = "running" /\ job[j].leased)
      /\ \A v \in Worker : attempt[v].job = j => v = w

JobsHeld == slow = 0 => \A w \in Worker : attempt[w].job # 0 => HasJob(w)

(* At most one attempt is at a job or may claim it, but for one more for   *)
(* every attempt that outlived its lease.                                  *)
At(j) == {w \in Worker : attempt[w].job = j}

Open(j) == job[j].status = "pending" \/ (job[j].status = "running" /\ ~job[j].leased)

Tries(j) == Cardinality(At(j)) + (IF Open(j) THEN 1 ELSE 0)

TriesBounded == \A j \in Job : Tries(j) <= 1 + slow

(* So many copies of a fact there are, or are about to be: only attempts   *)
(* at one job can store it, and none sets out to while there is a copy.    *)
Storing(f) == {w \in Worker : attempt[w].step = "insert" /\ f \in attempt[w].answer}

Copies == \A f \in Tellable : facts[f] + Cardinality(Storing(f)) <= 1 + slow

EnrichInv ==
  /\ TypeOK /\ InTurn /\ AttemptsSound /\ CacheSound /\ ReadKept
  /\ JobsHeld /\ OneAtATime /\ TriesBounded /\ Copies /\ OnlyRacedComeBack

-----------------------------------------------------------------------------
LEMMA Updated ==
  ASSUME NEW a \in Attempts, NEW step \in Step, NEW read \in SUBSET Round,
         NEW answer \in SUBSET Tellable, NEW key \in SUBSET Round
  PROVE  /\ [a EXCEPT !.step = step] \in Attempts
         /\ [a EXCEPT !.step = step, !.read = read] \in Attempts
         /\ [a EXCEPT !.step = step, !.answer = answer] \in Attempts
         /\ [a EXCEPT !.step = step, !.answer = answer, !.key = key] \in Attempts
<1>1. [a EXCEPT !.step = step] \in Attempts
  BY DEF Attempts
<1>2. [a EXCEPT !.step = step, !.read = read] \in Attempts
  BY DEF Attempts
<1>3. [a EXCEPT !.step = step, !.answer = answer] \in Attempts
  BY DEF Attempts
<1>4. [a EXCEPT !.step = step, !.answer = answer, !.key = key] \in Attempts
  BY DEF Attempts
<1> QED
  BY <1>1, <1>2, <1>3, <1>4

LEMMA Subsets ==
  ASSUME NEW S \in SUBSET Worker, NEW T \in SUBSET S
  PROVE  /\ Cardinality(S) \in Nat /\ Cardinality(T) \in Nat
         /\ Cardinality(T) <= Cardinality(S)
<1>1. IsFiniteSet(S) /\ IsFiniteSet(T)
  BY FS_Subset, EnrichmentAssumption
<1> QED
  BY <1>1, FS_Subset, FS_CardinalityType

LEMMA OneLess ==
  ASSUME NEW S \in SUBSET Worker, NEW w \in S, NEW T \in SUBSET (S \ {w})
  PROVE  /\ Cardinality(S) \in Nat /\ Cardinality(T) \in Nat
         /\ Cardinality(T) + 1 <= Cardinality(S)
<1>1. IsFiniteSet(S)
  BY FS_Subset, EnrichmentAssumption
<1>2. IsFiniteSet(S \ {w}) /\ Cardinality(S \ {w}) = Cardinality(S) - 1
  BY <1>1, FS_RemoveElement
<1>3. Cardinality(T) <= Cardinality(S \ {w}) /\ Cardinality(T) \in Nat
  BY <1>2, FS_Subset, FS_CardinalityType
<1>4. Cardinality(S) \in Nat
  BY <1>1, FS_CardinalityType
<1> QED
  BY <1>2, <1>3, <1>4

LEMMA OneMore ==
  ASSUME NEW S \in SUBSET Worker, NEW w \in Worker
  PROVE  /\ Cardinality(S) \in Nat /\ Cardinality(S \cup {w}) \in Nat
         /\ Cardinality(S \cup {w}) <= Cardinality(S) + 1
<1>1. IsFiniteSet(S)
  BY FS_Subset, EnrichmentAssumption
<1>2. Cardinality(S) \in Nat /\ IsFiniteSet(S \cup {w})
  BY <1>1, FS_CardinalityType, FS_AddElement
<1> QED
  BY <1>1, <1>2, FS_AddElement, FS_CardinalityType

LEMMA IdleTyped ==
  /\ Idle \in Attempts
  /\ Idle.job = 0 /\ Idle.step = "idle" /\ Idle.read = {} /\ Sound(Idle)
  BY EnrichmentAssumption DEF Idle, Attempts, Step, NoKey, Sound

(* A step of an attempt that goes on.                                      *)
Works(w, a) ==
  /\ attempt' = [attempt EXCEPT ![w] = a]
  /\ a \in Attempts /\ Sound(a)
  /\ a.job = attempt[w].job /\ a.job # 0
  /\ \A r \in a.read : r \in attempt[w].read \/ round[r] = "committed"
  /\ a.step = "insert" => \A f \in a.answer : facts[f] = 0
  /\ \/ facts' = facts
     \/ /\ attempt[w].step = "insert" /\ a.step # "insert"
        /\ facts' = [f \in Tellable |->
             IF f \in attempt[w].answer THEN More(facts[f]) ELSE facts[f]]
  /\ CacheSound' /\ cache' \subseteq (SUBSET Round) \X (SUBSET Tellable)
  /\ UNCHANGED <<round, job, crashes, slow, raced>>

LEMMA AtWork ==
  ASSUME EnrichInv, NEW w \in Worker, attempt[w].step # "idle"
  PROVE  /\ attempt[w] \in Attempts /\ Sound(attempt[w])
         /\ attempt[w].job # 0 /\ attempt[w].job \in Job
  BY DEF EnrichInv, TypeOK, AttemptsSound, Sound, Idle, Attempts, Job

(* Going to another step, other than with an answer.                       *)
LEMMA GoesOn ==
  ASSUME EnrichInv, NEW w \in Worker, attempt[w].step # "idle",
         NEW step \in Step \ {"read", "put", "insert"}, Goto(w, step),
         UNCHANGED <<round, facts, job, crashes, slow, raced>>,
         CacheSound', cache' \subseteq (SUBSET Round) \X (SUBSET Tellable)
  PROVE  \E a : Works(w, a)
<1> DEFINE a == [attempt[w] EXCEPT !.step = step]
<1>1. attempt[w] \in Attempts /\ Sound(attempt[w]) /\ attempt[w].job # 0
  BY AtWork
<1>2. a \in Attempts
  BY <1>1, Updated
<1>3. /\ a.job = attempt[w].job /\ a.read = attempt[w].read
      /\ a.answer = attempt[w].answer /\ a.step = step
  BY <1>1 DEF Attempts
<1>4. attempt' = [attempt EXCEPT ![w] = a]
  BY DEF Goto
<1> HIDE DEF a
<1>5. Works(w, a)
  BY <1>1, <1>2, <1>3, <1>4 DEF Works, Sound
<1> QED
  BY <1>5

LEMMA ReadRoundsWorks ==
  ASSUME EnrichInv, NEW w \in Worker, ReadRounds(w) PROVE \E a : Works(w, a)
<1>1. attempt[w].step # "idle" /\ attempt[w] \in Attempts /\ Sound(attempt[w])
      /\ attempt[w].job # 0 /\ attempt[w].job \in Job
  BY AtWork DEF ReadRounds
<1>2. CacheSound' /\ cache' \subseteq (SUBSET Round) \X (SUBSET Tellable)
  BY DEF EnrichInv, TypeOK, CacheSound, ReadRounds
<1>3. CASE Fails(w)
  BY <1>1, <1>2, <1>3, GoesOn DEF Fails, Step, ReadRounds
<1>4. CASE Goto(w, "finish")
  BY <1>1, <1>2, <1>4, GoesOn DEF Step, ReadRounds
<1>5. CASE ~Fails(w) /\ ~Goto(w, "finish")
  <2> DEFINE read == Committed(RoundsOf[attempt[w].job])
             a == [attempt[w] EXCEPT !.step = "lookup", !.read = read]
  <2>1. read \subseteq RoundsOf[attempt[w].job] /\ \A r \in read : round[r] = "committed"
    BY DEF Committed
  <2>2. RoundsOf[attempt[w].job] \subseteq Round
    BY <1>1, EnrichmentAssumption
  <2>3. attempt' = [attempt EXCEPT ![w] = a]
    BY <1>5 DEF ReadRounds
  <2> HIDE DEF read
  <2>4. a \in Attempts
    BY <1>1, <2>1, <2>2, Updated DEF Step
  <2>5. a.job = attempt[w].job /\ a.read = read /\ a.answer = attempt[w].answer /\ a.step = "lookup"
    BY <1>1 DEF Attempts
  <2>6. \A f \in a.answer : f \subseteq a.read
    BY <1>1, <2>5 DEF ReadRounds, Sound
  <2> HIDE DEF a
  <2>7. Works(w, a)
    BY <1>1, <1>2, <2>1, <2>3, <2>4, <2>5, <2>6 DEF Works, Sound, ReadRounds
  <2> QED
    BY <2>7
<1> QED
  BY <1>3, <1>4, <1>5
LEMMA LookupWorks ==
  ASSUME EnrichInv, NEW w \in Worker, Lookup(w) PROVE \E a : Works(w, a)
<1>1. attempt[w].step # "idle" /\ attempt[w] \in Attempts /\ Sound(attempt[w])
      /\ attempt[w].job # 0 /\ attempt[w].job \in Job
  BY AtWork DEF Lookup
<1>2. CacheSound' /\ cache' \subseteq (SUBSET Round) \X (SUBSET Tellable)
  BY DEF EnrichInv, TypeOK, CacheSound, Lookup
<1>3. CASE Fails(w)
  BY <1>1, <1>2, <1>3, GoesOn DEF Fails, Step, Lookup
<1>4. CASE Goto(w, "chat")
  BY <1>1, <1>2, <1>4, GoesOn DEF Step, Lookup
<1>5. CASE ~Fails(w) /\ ~Goto(w, "chat")
  <2>1. PICK entry \in cache :
          /\ entry[1] = attempt[w].read
          /\ attempt' = [attempt EXCEPT ![w].step = "dedupe", ![w].answer = entry[2],
                                        ![w].key = attempt[w].read]
    BY <1>5 DEF Lookup
  <2> DEFINE a ==
        [attempt[w] EXCEPT !.step = "dedupe", !.answer = entry[2], !.key = attempt[w].read]
  <2>2. entry[2] \in SUBSET Tellable /\ \A f \in entry[2] : f \subseteq attempt[w].read
    BY <2>1 DEF EnrichInv, TypeOK, CacheSound
  <2>3. attempt' = [attempt EXCEPT ![w] = a]
    BY <2>1
  <2>4. attempt[w].read \in SUBSET Round
    BY <1>1 DEF Attempts
  <2>5. a \in Attempts
    BY <1>1, <2>2, <2>4, Updated DEF Step
  <2>6. /\ a.job = attempt[w].job /\ a.read = attempt[w].read
        /\ a.answer = entry[2] /\ a.step = "dedupe"
    BY <1>1 DEF Attempts
  <2> HIDE DEF a
  <2>7. Works(w, a)
    BY <1>1, <1>2, <2>2, <2>3, <2>5, <2>6 DEF Works, Sound, Lookup
  <2> QED
    BY <2>7
<1> QED
  BY <1>3, <1>4, <1>5

LEMMA ChatWorks ==
  ASSUME EnrichInv, NEW w \in Worker, Chat(w) PROVE \E a : Works(w, a)
<1>1. attempt[w].step # "idle" /\ attempt[w] \in Attempts /\ Sound(attempt[w])
      /\ attempt[w].job # 0 /\ attempt[w].job \in Job
  BY AtWork DEF Chat
<1>2. CacheSound' /\ cache' \subseteq (SUBSET Round) \X (SUBSET Tellable)
  BY DEF EnrichInv, TypeOK, CacheSound, Chat
<1>3. CASE Fails(w)
  BY <1>1, <1>2, <1>3, GoesOn DEF Fails, Step, Chat
<1>4. CASE ~Fails(w)
  <2>1. PICK answer \in SUBSET {f \in Tellable : f \subseteq attempt[w].read} :
          attempt' = [attempt EXCEPT ![w].step = "put", ![w].answer = answer,
                                     ![w].key = attempt[w].read]
    BY <1>4 DEF Chat
  <2> DEFINE a == [attempt[w] EXCEPT !.step = "put", !.answer = answer, !.key = attempt[w].read]
  <2>2. answer \in SUBSET Tellable /\ \A f \in answer : f \subseteq attempt[w].read
    BY <2>1
  <2>3. attempt' = [attempt EXCEPT ![w] = a]
    BY <2>1
  <2>4. attempt[w].read \in SUBSET Round
    BY <1>1 DEF Attempts
  <2>5. a \in Attempts
    BY <1>1, <2>2, <2>4, Updated DEF Step
  <2>6. /\ a.job = attempt[w].job /\ a.read = attempt[w].read /\ a.answer = answer
        /\ a.step = "put" /\ a.key = attempt[w].read
    BY <1>1 DEF Attempts
  <2> HIDE DEF a
  <2>7. Works(w, a)
    BY <1>1, <1>2, <2>2, <2>3, <2>5, <2>6 DEF Works, Sound, Chat
  <2> QED
    BY <2>7
<1> QED
  BY <1>3, <1>4

LEMMA CachePutWorks ==
  ASSUME EnrichInv, NEW w \in Worker, CachePut(w) PROVE \E a : Works(w, a)
<1>1. attempt[w].step # "idle" /\ attempt[w] \in Attempts /\ Sound(attempt[w])
  BY AtWork DEF CachePut
<1>2. attempt[w].key \in SUBSET Round /\ attempt[w].answer \in SUBSET Tellable
      /\ \A f \in attempt[w].answer : f \subseteq attempt[w].key
  BY <1>1 DEF CachePut, Sound, Attempts
<1>3. CacheSound' /\ cache' \subseteq (SUBSET Round) \X (SUBSET Tellable)
  <2>1. CASE cache' = cache
    BY <2>1 DEF EnrichInv, TypeOK, CacheSound
  <2>2. CASE cache' = cache \cup {<<attempt[w].key, attempt[w].answer>>}
    BY <1>2, <2>2 DEF EnrichInv, TypeOK, CacheSound
  <2> QED
    BY <2>1, <2>2 DEF CachePut
<1>4. Goto(w, "fail") \/ Goto(w, "dedupe")
  BY DEF CachePut, Fails
<1> QED
  BY <1>1, <1>3, <1>4, GoesOn DEF CachePut, Step

LEMMA DedupeWorks ==
  ASSUME EnrichInv, NEW w \in Worker, Dedupe(w) PROVE \E a : Works(w, a)
<1>1. attempt[w].step # "idle" /\ attempt[w] \in Attempts /\ Sound(attempt[w]) /\ attempt[w].job # 0
  BY AtWork DEF Dedupe
<1>2. CacheSound' /\ cache' \subseteq (SUBSET Round) \X (SUBSET Tellable)
  BY DEF EnrichInv, TypeOK, CacheSound, Dedupe
<1>3. CASE Fails(w)
  BY <1>1, <1>2, <1>3, GoesOn DEF Fails, Step, Dedupe
<1>4. CASE ~Fails(w)
  <2> DEFINE new == {f \in attempt[w].answer : facts[f] = 0}
             step == IF new = {} THEN "finish" ELSE "insert"
             a == [attempt[w] EXCEPT !.step = step, !.answer = new]
  <2>1. attempt' = [attempt EXCEPT ![w] = a]
    BY <1>4 DEF Dedupe
  <2>2. new \in SUBSET Tellable /\ \A f \in new : f \subseteq attempt[w].read /\ facts[f] = 0
    BY <1>1 DEF Sound, Attempts
  <2>3. step \in {"finish", "insert"}
    OBVIOUS
  <2> HIDE DEF new, step
  <2>4. a \in Attempts
    BY <1>1, <2>2, <2>3, Updated DEF Step
  <2>5. a.job = attempt[w].job /\ a.read = attempt[w].read /\ a.answer = new /\ a.step = step
    BY <1>1 DEF Attempts
  <2> HIDE DEF a
  <2>6. Works(w, a)
    BY <1>1, <1>2, <2>1, <2>2, <2>3, <2>4, <2>5 DEF Works, Sound, Dedupe
  <2> QED
    BY <2>6
<1> QED
  BY <1>3, <1>4

LEMMA InsertWorks ==
  ASSUME EnrichInv, NEW w \in Worker, Insert(w) PROVE \E a : Works(w, a)
<1>1. attempt[w].step # "idle" /\ attempt[w] \in Attempts /\ Sound(attempt[w]) /\ attempt[w].job # 0
  BY AtWork DEF Insert
<1>2. CacheSound' /\ cache' \subseteq (SUBSET Round) \X (SUBSET Tellable)
  BY DEF EnrichInv, TypeOK, CacheSound, Insert
<1>3. PICK step \in {"fail", "finish"} : Goto(w, step)
  BY DEF Insert, Fails
<1> DEFINE a == [attempt[w] EXCEPT !.step = step]
<1>4. a \in Attempts
  BY <1>1, Updated DEF Step
<1>5. /\ a.job = attempt[w].job /\ a.read = attempt[w].read
      /\ a.answer = attempt[w].answer /\ a.step = step
  BY <1>1 DEF Attempts
<1>6. attempt' = [attempt EXCEPT ![w] = a]
  BY <1>3 DEF Goto
<1> HIDE DEF a
<1>7. Works(w, a)
  BY <1>1, <1>2, <1>4, <1>5, <1>6 DEF Works, Sound, Insert
<1> QED
  BY <1>7

-----------------------------------------------------------------------------
LEMMA Parts ==
  ASSUME TypeOK
  PROVE  /\ attempt \in [Worker -> Attempts]
         /\ job \in [Job -> JobRecords]
         /\ \A w \in Worker : attempt[w].job # 0 => attempt[w].job \in Job
  BY DEF TypeOK, Attempts, JobRecords, Job

LEMMA WholeTypes ==
  ASSUME TypeOK, attempt' \in [Worker -> Attempts], job' \in [Job -> JobRecords],
         round' \in [Round -> {"none", "committed", "expired", "gone"}],
         facts' \in [Tellable -> 0..MaxCopies],
         cache' \subseteq (SUBSET Round) \X (SUBSET Tellable),
         crashes' \in 0..MaxFaults, slow' \in 0..MaxFaults, raced' \subseteq Round
  PROVE  TypeOK'
  BY DEF TypeOK, Attempts, JobRecords

LEMMA WorksKeeps ==
  ASSUME EnrichInv, NEW w \in Worker, NEW a, Works(w, a)
  PROVE  EnrichInv'
<1>1. TypeOK /\ attempt \in [Worker -> Attempts] /\ a \in Attempts
  BY Parts DEF EnrichInv, Works
<1>2. attempt'[w] = a /\ \A v \in Worker \ {w} : attempt'[v] = attempt[v]
  BY <1>1 DEF Works
<1>3. attempt' \in [Worker -> Attempts]
  BY <1>1 DEF Works
<1>4. facts' \in [Tellable -> 0..MaxCopies]
  <2>1. facts \in [Tellable -> 0..MaxCopies]
    BY <1>1 DEF TypeOK
  <2>2. \A n \in 0..MaxCopies : More(n) \in 0..MaxCopies
    BY EnrichmentAssumption DEF More
  <2> QED
    BY <2>1, <2>2 DEF Works
<1>5. TypeOK'
  BY <1>1, <1>3, <1>4, Parts, WholeTypes DEF Works, TypeOK
<1>6. \A v \in Worker : attempt'[v].job = attempt[v].job
  BY <1>2 DEF Works
<1>7. InTurn'
  BY <1>6 DEF EnrichInv, InTurn, Works, Attended, Ingested
<1>8. AttemptsSound'
  BY <1>2 DEF EnrichInv, AttemptsSound, Works, Sound
<1>9. ReadKept'
  BY <1>2 DEF EnrichInv, ReadKept, Works, Kept
<1>10. JobsHeld'
  BY <1>6 DEF EnrichInv, JobsHeld, HasJob, Works
<1>11. OneAtATime'
  BY <1>6 DEF EnrichInv, OneAtATime, Runs, Unfinished, Works
<1>12. TriesBounded'
  <2>1. \A j \in Job : At(j)' = At(j)
    BY <1>6 DEF At
  <2> QED
    BY <2>1 DEF EnrichInv, TriesBounded, Tries, Open, Works
<1>13. Copies'
  <2> SUFFICES ASSUME NEW f \in Tellable PROVE facts'[f] + Cardinality(Storing(f)') <= 1 + slow
    BY DEF Copies, Works
  <2>1. facts[f] \in Nat /\ facts'[f] \in Nat /\ slow \in Nat
    BY <1>1, <1>5, EnrichmentAssumption DEF TypeOK
  <2>2. facts[f] + Cardinality(Storing(f)) <= 1 + slow
    BY DEF EnrichInv, Copies
  <2>3. Storing(f) \in SUBSET Worker /\ Storing(f)' \in SUBSET Worker
    BY DEF Storing
  <2>4. CASE w \in Storing(f)'
    <3>1. a.step = "insert" /\ f \in a.answer
      BY <2>4, <1>2 DEF Storing
    <3>2. facts'[f] = 0
      BY <3>1 DEF Works
    <3>3. ASSUME NEW v \in Storing(f)'
          PROVE  attempt'[v].job \in Job /\ f \subseteq RoundsOf[attempt'[v].job]
      <4>1. v \in Worker /\ attempt'[v].step = "insert" /\ f \in attempt'[v].answer
        BY <3>3 DEF Storing
      <4>2. Sound(attempt'[v]) /\ attempt'[v] \in Attempts
        BY <4>1, <1>3, <1>8 DEF AttemptsSound, Sound
      <4>3. attempt'[v].job # 0
        BY <4>1, <4>2, IdleTyped DEF Sound
      <4> QED
        BY <4>1, <4>2, <4>3 DEF Sound, Attempts, Job
    <3>4. f # {}
      BY EnrichmentAssumption
    <3>5. \A v \in Storing(f)' : attempt'[v].job = a.job
      <4>1. attempt'[w] = a /\ a.job \in Job /\ f \subseteq RoundsOf[a.job]
        BY <2>4, <3>3, <1>2
      <4> QED
        BY <4>1, <3>3, <3>4, EnrichmentAssumption
    <3>6. a.job \in Job /\ Storing(f)' \in SUBSET At(a.job)
      BY <2>3, <2>4, <3>3, <3>5, <1>6 DEF At
    <3>7. At(a.job) \in SUBSET Worker /\ Tries(a.job) <= 1 + slow
      BY <3>6 DEF At, EnrichInv, TriesBounded
    <3>8. /\ Cardinality(Storing(f)') <= Cardinality(At(a.job))
          /\ Cardinality(At(a.job)) \in Nat /\ Cardinality(Storing(f)') \in Nat
      BY <3>6, <3>7, Subsets
    <3>9. Cardinality(At(a.job)) <= 1 + slow
      BY <3>7, <3>8, <2>1 DEF Tries
    <3> QED
      BY <3>2, <3>8, <3>9, <2>1
  <2>5. CASE w \notin Storing(f)'
    <3>1. Storing(f)' \in SUBSET (Storing(f) \ {w})
      BY <2>3, <2>5, <1>2 DEF Storing
    <3>2. CASE w \in Storing(f)
      <4>1. Cardinality(Storing(f)') + 1 <= Cardinality(Storing(f))
            /\ Cardinality(Storing(f)) \in Nat /\ Cardinality(Storing(f)') \in Nat
        BY <2>3, <3>1, <3>2, OneLess
      <4>2. facts'[f] <= facts[f] + 1
        BY <2>1 DEF Works, More
      <4> QED
        BY <2>1, <2>2, <4>1, <4>2
    <3>3. CASE w \notin Storing(f)
      <4>1. facts'[f] = facts[f]
        BY <3>3 DEF Storing, Works
      <4>2. Cardinality(Storing(f)') <= Cardinality(Storing(f))
            /\ Cardinality(Storing(f)) \in Nat /\ Cardinality(Storing(f)') \in Nat
        BY <2>3, <3>1, Subsets
      <4> QED
        BY <2>1, <2>2, <4>1, <4>2
    <3> QED
      BY <3>2, <3>3
  <2> QED
    BY <2>4, <2>5
<1>14. OnlyRacedComeBack'
  <2> SUFFICES ASSUME NEW f \in Tellable, facts'[f] > 0, NEW r \in f PROVE Kept(r)
    BY DEF OnlyRacedComeBack, Works, Kept
  <2>1. CASE facts'[f] = facts[f]
    BY <2>1 DEF EnrichInv, OnlyRacedComeBack, Kept
  <2>2. CASE facts'[f] # facts[f]
    <3>1. f \in attempt[w].answer
      BY <2>2 DEF Works
    <3> QED
      BY <3>1 DEF EnrichInv, AttemptsSound, Sound, ReadKept
  <2> QED
    BY <2>1, <2>2
<1> QED
  BY <1>5, <1>7, <1>8, <1>9, <1>10, <1>11, <1>12, <1>13, <1>14 DEF EnrichInv, Works

(* Nobody sets out to store, and no copy is stored.                        *)
LEMMA FewerStoring ==
  ASSUME EnrichInv, UNCHANGED facts, slow' = slow,
         \A f \in Tellable : Storing(f)' \in SUBSET Storing(f)
  PROVE  Copies'
<1> SUFFICES ASSUME NEW f \in Tellable PROVE facts[f] + Cardinality(Storing(f)') <= 1 + slow
  BY DEF Copies
<1>1. facts[f] + Cardinality(Storing(f)) <= 1 + slow /\ facts[f] \in Nat /\ slow \in Nat
  BY EnrichmentAssumption DEF EnrichInv, Copies, TypeOK
<1>2. Storing(f) \in SUBSET Worker
  BY DEF Storing
<1>3. Cardinality(Storing(f)') <= Cardinality(Storing(f))
      /\ Cardinality(Storing(f)) \in Nat /\ Cardinality(Storing(f)') \in Nat
  BY <1>2, Subsets
<1> QED
  BY <1>1, <1>3

(* An attempt is over, and with it its hold on the job.                    *)
Leaves(w) ==
  /\ attempt[w].step # "idle" /\ Ends(w)
  /\ job' \in [Job -> JobRecords]
  /\ \A j \in Job : /\ j # attempt[w].job => job'[j] = job[j]
                    /\ job'[j].status = "none" <=> job[j].status = "none"
                    /\ Unfinished(j)' => Unfinished(j) \/ j = attempt[w].job
  /\ crashes' \in 0..MaxFaults
  /\ UNCHANGED <<round, facts, cache, slow, raced>>

LEMMA LeavesKeeps ==
  ASSUME EnrichInv, NEW w \in Worker, Leaves(w)
  PROVE  EnrichInv'
<1>1. TypeOK /\ attempt \in [Worker -> Attempts] /\ job \in [Job -> JobRecords]
  BY Parts DEF EnrichInv
<1>2. attempt'[w] = Idle /\ \A v \in Worker \ {w} : attempt'[v] = attempt[v]
  BY <1>1 DEF Leaves, Ends
<1>3. attempt' \in [Worker -> Attempts]
  BY <1>1, IdleTyped DEF Leaves, Ends
<1>4. TypeOK'
  BY <1>1, <1>3, WholeTypes DEF Leaves, TypeOK
<1>5. \A v \in Worker : attempt'[v].job # 0 => v # w /\ attempt'[v] = attempt[v]
  BY <1>2, IdleTyped
<1>6. InTurn'
  BY <1>1, <1>5 DEF EnrichInv, InTurn, Leaves, Attended, Ingested, Job
<1>7. AttemptsSound'
  BY <1>2, IdleTyped DEF EnrichInv, AttemptsSound
<1>8. ReadKept'
  BY <1>2, IdleTyped DEF EnrichInv, ReadKept, Leaves, Kept
<1>9. JobsHeld'
  <2> SUFFICES ASSUME slow = 0, NEW v \in Worker, attempt'[v].job # 0 PROVE HasJob(v)'
    BY DEF JobsHeld, Leaves
  <2>1. v # w /\ attempt'[v] = attempt[v] /\ HasJob(v) /\ attempt[v].job \in Job
    BY <1>5, Parts DEF EnrichInv, JobsHeld
  <2>2. attempt[w].job # attempt[v].job /\ job'[attempt[v].job] = job[attempt[v].job]
    BY <2>1 DEF HasJob, Leaves
  <2> QED
    BY <2>1, <2>2, <1>2, IdleTyped DEF HasJob
<1>10. OneAtATime'
  <2> SUFFICES ASSUME slow = 0, NEW v \in Worker, Runs(v)'
               PROVE  /\ \A u \in Worker : Runs(u)' => u = v
                      /\ \A i \in Job : i < attempt'[v].job => ~Unfinished(i)'
    BY DEF OneAtATime, Leaves
  <2>1. ASSUME NEW u \in Worker, Runs(u)'
        PROVE  u # w /\ attempt'[u] = attempt[u] /\ Runs(u) /\ attempt[u].job # attempt[w].job
    <3>1. u # w /\ attempt'[u] = attempt[u] /\ HasJob(u) /\ attempt[u].job \in Job
      BY <1>5, <2>1, Parts DEF EnrichInv, JobsHeld, Runs
    <3> QED
      BY <2>1, <3>1 DEF HasJob, Leaves, Runs, Unfinished
  <2>2. \A u \in Worker : Runs(u)' => u = v
    BY <2>1 DEF EnrichInv, OneAtATime
  <2>3. ASSUME NEW i \in Job, i < attempt'[v].job PROVE ~Unfinished(i)'
    <3>1. Runs(v) /\ ~Unfinished(i) /\ attempt[v].job # attempt[w].job /\ attempt'[v] = attempt[v]
      BY <2>1, <2>3 DEF EnrichInv, OneAtATime
    <3>2. i = attempt[w].job => job[i].status # "running" /\ job[i].status # "pending"
      BY <3>1 DEF Unfinished
    <3>3. i = attempt[w].job => job[i].status = "none"
      BY <3>2, <2>3 DEF EnrichInv, JobsHeld, HasJob, Job
    <3> QED
      BY <3>1, <3>3 DEF Leaves, Unfinished
  <2> QED
    BY <2>2, <2>3
<1>11. TriesBounded'
  <2> SUFFICES ASSUME NEW j \in Job PROVE Tries(j)' <= 1 + slow
    BY DEF TriesBounded, Leaves
  <2>1. Tries(j) <= 1 + slow /\ slow \in Nat /\ At(j) \in SUBSET Worker
    BY <1>1 DEF EnrichInv, TriesBounded, TypeOK, At
  <2>2. j # 0
    BY EnrichmentAssumption DEF Job
  <2>3. CASE j = attempt[w].job
    <3>1. w \in At(j) /\ At(j)' \in SUBSET (At(j) \ {w})
      BY <2>2, <2>3, <1>2, IdleTyped DEF At
    <3>2. Cardinality(At(j)') + 1 <= Cardinality(At(j))
          /\ Cardinality(At(j)) \in Nat /\ Cardinality(At(j)') \in Nat
      BY <2>1, <3>1, OneLess
    <3> QED
      BY <2>1, <3>2 DEF Tries
  <2>4. CASE j # attempt[w].job
    <3>1. At(j)' = At(j)
      BY <2>2, <2>4, <1>2, IdleTyped DEF At
    <3>2. job'[j] = job[j]
      BY <2>4 DEF Leaves
    <3> QED
      BY <2>1, <3>1, <3>2 DEF Tries, Open
  <2> QED
    BY <2>3, <2>4
<1>12. \A f \in Tellable : Storing(f)' \in SUBSET Storing(f)
  BY <1>2, IdleTyped DEF Storing
<1>13. Copies'
  BY <1>1, <1>12, FewerStoring DEF Leaves
<1> QED
  BY <1>4, <1>6, <1>7, <1>8, <1>9, <1>10, <1>11, <1>13
  DEF EnrichInv, Leaves, CacheSound, OnlyRacedComeBack

(* What ends an attempt changes its job only, and only if it is there.      *)
LEMMA EndedKeeps ==
  ASSUME EnrichInv, NEW w \in Worker, attempt[w].step # "idle", NEW ended \in JobRecords,
         job[attempt[w].job].status # "none" => ended.status # "none",
         job' = IF job[attempt[w].job].status = "none" THEN job
                ELSE [job EXCEPT ![attempt[w].job] = ended],
         Ends(w), crashes' \in 0..MaxFaults, UNCHANGED <<round, facts, cache, slow, raced>>
  PROVE  EnrichInv'
<1> DEFINE j == attempt[w].job
<1>1. j \in Job /\ job \in [Job -> JobRecords]
  BY AtWork, Parts DEF EnrichInv
<1>2. job' \in [Job -> JobRecords]
  BY <1>1
<1>3. \A i \in Job : i # j => job'[i] = job[i]
  BY <1>1
<1>4. job'[j] = IF job[j].status = "none" THEN job[j] ELSE ended
  BY <1>1
<1> HIDE DEF j
<1>5. \A i \in Job : job'[i].status = "none" <=> job[i].status = "none"
  BY <1>3, <1>4
<1>6. \A i \in Job : Unfinished(i)' => Unfinished(i) \/ i = j
  BY <1>3 DEF Unfinished
<1>7. Leaves(w)
  BY <1>2, <1>3, <1>5, <1>6 DEF Leaves, j
<1> QED
  BY <1>7, LeavesKeeps

LEMMA JobEnds ==
  ASSUME NEW r \in JobRecords, NEW status \in JobStatus, NEW key \in SUBSET Round
  PROVE  /\ [r EXCEPT !.status = status, !.leased = FALSE, !.key = key] \in JobRecords
         /\ [r EXCEPT !.status = status, !.leased = FALSE, !.key = key].status = status
         /\ [r EXCEPT !.status = status, !.leased = FALSE, !.due = FALSE] \in JobRecords
         /\ [r EXCEPT !.status = status, !.leased = FALSE, !.due = FALSE].status = status
  BY DEF JobRecords

LEMMA FinishKeeps ==
  ASSUME EnrichInv, NEW w \in Worker, Finish(w) PROVE EnrichInv'
<1> DEFINE j == attempt[w].job
           ended == [job[j] EXCEPT !.status = "done", !.leased = FALSE, !.key = attempt[w].key]
<1>1. attempt[w].step # "idle" /\ j \in Job /\ attempt[w] \in Attempts
  BY AtWork DEF Finish
<1>2. job \in [Job -> JobRecords] /\ crashes \in 0..MaxFaults
  BY Parts DEF EnrichInv, TypeOK
<1>3. ended \in JobRecords /\ ended.status = "done"
  <2>1. job[j] \in JobRecords /\ "done" \in JobStatus /\ attempt[w].key \in SUBSET Round
    BY <1>1, <1>2 DEF JobStatus, Attempts
  <2> HIDE DEF j
  <2> QED
    BY <2>1, JobEnds
<1>4. job' = IF job[j].status = "none" THEN job ELSE [job EXCEPT ![j] = ended]
  BY DEF Finish
<1> HIDE DEF ended
<1> QED
  BY <1>1, <1>2, <1>3, <1>4, EndedKeeps DEF Finish

LEMMA FailKeeps ==
  ASSUME EnrichInv, NEW w \in Worker, Fail(w) PROVE EnrichInv'
<1> DEFINE j == attempt[w].job
           status == IF job[j].attempts >= MaxAttempts THEN "failed" ELSE "pending"
           ended == [job[j] EXCEPT !.status = status, !.leased = FALSE, !.due = FALSE]
<1>1. attempt[w].step # "idle" /\ j \in Job
  BY AtWork DEF Fail
<1>2. job \in [Job -> JobRecords] /\ crashes \in 0..MaxFaults
  BY Parts DEF EnrichInv, TypeOK
<1>3. status \in {"failed", "pending"}
  OBVIOUS
<1>4. job' = IF job[j].status = "none" THEN job ELSE [job EXCEPT ![j] = ended]
  BY DEF Fail
<1> HIDE DEF status
<1>5. ended \in JobRecords /\ ended.status # "none"
  <2>1. job[j] \in JobRecords /\ status \in JobStatus /\ status # "none"
    BY <1>1, <1>2, <1>3 DEF JobStatus
  <2> HIDE DEF j
  <2> QED
    BY <2>1, JobEnds
<1> HIDE DEF ended
<1> QED
  BY <1>1, <1>2, <1>4, <1>5, EndedKeeps DEF Fail

LEMMA CrashKeeps ==
  ASSUME EnrichInv, NEW w \in Worker, Crash(w) PROVE EnrichInv'
<1>1. crashes \in 0..MaxFaults /\ slow \in 0..MaxFaults
  BY DEF EnrichInv, TypeOK
<1>2. crashes' \in 0..MaxFaults
  BY <1>1, EnrichmentAssumption DEF Crash
<1>3. job \in [Job -> JobRecords] /\ job' = job
  BY Parts DEF EnrichInv, Crash
<1>4. \A j \in Job : Unfinished(j)' => Unfinished(j)
  BY <1>3 DEF Unfinished
<1>5. Leaves(w)
  BY <1>2, <1>3, <1>4 DEF Leaves, Crash
<1> QED
  BY <1>5, LeavesKeeps

(* A worker takes a job that nobody has.                                   *)
LEMMA ClaimKeeps ==
  ASSUME EnrichInv, NEW w \in Worker, NEW j \in Job, Claim(w, j) PROVE EnrichInv'
<1> DEFINE new == [Idle EXCEPT !.step = "read", !.job = j]
           taken == [job[j] EXCEPT !.status = "running", !.leased = TRUE, !.attempts = @ + 1]
<1>1. TypeOK /\ attempt \in [Worker -> Attempts] /\ job \in [Job -> JobRecords]
  BY Parts DEF EnrichInv
<1>2. new \in Attempts /\ Sound(new) /\ new.job = j /\ new.step = "read" /\ new.read = {}
  <2>1. j \in 0..Jobs /\ j # 0
    BY EnrichmentAssumption DEF Job
  <2>2. new.step = "read" /\ new.job = j /\ new.read = {} /\ new.answer = {}
    BY DEF Idle
  <2>3. \A a \in Attempts, step \in Step : [a EXCEPT !.step = step, !.job = j] \in Attempts
    BY <2>1 DEF Attempts
  <2>4. new \in Attempts
    BY <2>3, IdleTyped DEF Step
  <2> HIDE DEF new
  <2> QED
    BY <2>1, <2>2, <2>4 DEF Sound
<1>3. taken \in JobRecords /\ taken.status = "running" /\ taken.leased
  <2>1. job[j] \in JobRecords /\ job[j].attempts + 1 \in Nat
    BY <1>1 DEF JobRecords
  <2>2. taken.status = "running" /\ taken.leased
    BY <2>1 DEF JobRecords
  <2>3. taken \in JobRecords
    BY <2>1 DEF JobRecords, JobStatus
  <2> QED
    BY <2>2, <2>3
<1>4. attempt' = [attempt EXCEPT ![w] = new] /\ job' = [job EXCEPT ![j] = taken]
  BY DEF Claim
<1> HIDE DEF new, taken
<1>5. attempt'[w] = new /\ \A v \in Worker \ {w} : attempt'[v] = attempt[v]
  BY <1>1, <1>4
<1>6. job'[j] = taken /\ \A i \in Job \ {j} : job'[i] = job[i]
  BY <1>1, <1>4
<1>7. TypeOK'
  BY <1>1, <1>2, <1>3, <1>4, WholeTypes DEF Claim, TypeOK
<1>8. job[j].status \in {"pending", "running"} /\ (job[j].status = "running" => ~job[j].leased)
      /\ \A i \in Job : i < j => ~Unfinished(i)
  BY DEF Claim, Claimable
<1>9. attempt[w].job = 0
  BY DEF Claim, EnrichInv, AttemptsSound, Sound, Idle, TypeOK
<1>10. InTurn'
  <2> SUFFICES ASSUME NEW k \in Job, job'[k].status # "none" \/ Attended(k)'
               PROVE  \A i \in 1..k : Ingested(i)
    BY DEF InTurn, Ingested, Claim
  <2>1. CASE k = j
    BY <2>1, <1>8 DEF EnrichInv, InTurn
  <2>2. CASE k # j
    BY <2>2, <1>2, <1>5, <1>6 DEF EnrichInv, InTurn, Attended
  <2> QED
    BY <2>1, <2>2
<1>11. AttemptsSound' /\ ReadKept'
  BY <1>2, <1>5 DEF EnrichInv, AttemptsSound, ReadKept, Kept, Claim
<1>12. slow = 0 => \A v \in Worker : attempt[v].job # j
  BY <1>8 DEF EnrichInv, JobsHeld, HasJob, Job
<1>13. JobsHeld'
  <2> SUFFICES ASSUME slow = 0, NEW v \in Worker, attempt'[v].job # 0 PROVE HasJob(v)'
    BY DEF JobsHeld, Claim
  <2>1. CASE v = w
    BY <2>1, <1>2, <1>3, <1>5, <1>6, <1>12 DEF HasJob
  <2>2. CASE v # w
    <3>1. attempt'[v] = attempt[v] /\ HasJob(v) /\ attempt[v].job # j /\ attempt[v].job \in Job
      BY <2>2, <1>5, <1>12, Parts DEF EnrichInv, JobsHeld
    <3> QED
      BY <3>1, <1>2, <1>5, <1>6 DEF HasJob
  <2> QED
    BY <2>1, <2>2
<1>14. OneAtATime'
  <2> SUFFICES ASSUME slow = 0
               PROVE  \A v \in Worker : Runs(v)' =>
                        /\ \A u \in Worker : Runs(u)' => u = v
                        /\ \A i \in Job : i < attempt'[v].job => ~Unfinished(i)'
    BY DEF OneAtATime, Claim
  <2>1. ASSUME NEW v \in Worker, Runs(v)' PROVE v = w
    <3> SUFFICES ASSUME v # w PROVE FALSE
      OBVIOUS
    <3>1. /\ attempt'[v] = attempt[v] /\ attempt[v].job # 0
          /\ attempt[v].job \in Job /\ attempt[v].job # j
      BY <1>5, <1>12, <2>1, Parts DEF EnrichInv, Runs
    <3>2. Unfinished(attempt[v].job) /\ Runs(v)
      BY <1>6, <2>1, <3>1 DEF Runs, Unfinished
    <3>3. ~(attempt[v].job < j)
      BY <1>8, <3>1, <3>2
    <3>4. j < attempt[v].job
      BY <3>1, <3>3, EnrichmentAssumption DEF Job
    <3>5. ~Unfinished(j)
      BY <3>2, <3>4 DEF EnrichInv, OneAtATime
    <3> QED
      BY <3>5, <1>8 DEF Unfinished
  <2>2. ASSUME NEW i \in Job, i < j PROVE ~Unfinished(i)'
    BY <1>6, <1>8, <2>2, EnrichmentAssumption DEF Unfinished, Job
  <2> QED
    BY <2>1, <2>2, <1>2, <1>5
<1>15. TriesBounded'
  <2> SUFFICES ASSUME NEW k \in Job PROVE Tries(k)' <= 1 + slow
    BY DEF TriesBounded, Claim
  <2>1. Tries(k) <= 1 + slow /\ slow \in Nat /\ At(k) \in SUBSET Worker
    BY <1>1 DEF EnrichInv, TriesBounded, TypeOK, At
  <2>2. CASE k = j
    <3>1. Open(k) /\ ~Open(k)'
      BY <2>2, <1>3, <1>6, <1>8 DEF Open
    <3>2. At(k)' = At(k) \cup {w}
      BY <2>2, <1>2, <1>5 DEF At
    <3>3. Cardinality(At(k)') <= Cardinality(At(k)) + 1
          /\ Cardinality(At(k)) \in Nat /\ Cardinality(At(k)') \in Nat
      BY <2>1, <3>2, OneMore
    <3>4. Cardinality(At(k)) + 1 <= 1 + slow
      BY <2>1, <3>1 DEF Tries
    <3>5. Tries(k)' = Cardinality(At(k)') + 0
      BY <3>1 DEF Tries
    <3> QED
      BY <2>1, <3>3, <3>4, <3>5
  <2>3. CASE k # j
    <3>1. At(k)' = At(k)
      <4>1. k # 0
        BY EnrichmentAssumption DEF Job
      <4> QED
        BY <4>1, <2>3, <1>2, <1>5, <1>9 DEF At
    <3> QED
      BY <2>1, <2>3, <3>1, <1>6 DEF Tries, Open
  <2> QED
    BY <2>2, <2>3
<1>16. \A f \in Tellable : Storing(f)' \in SUBSET Storing(f)
  BY <1>2, <1>5 DEF Storing
<1>17. Copies'
  BY <1>16, FewerStoring DEF Claim
<1> QED
  BY <1>7, <1>10, <1>11, <1>13, <1>14, <1>15, <1>17
  DEF EnrichInv, Claim, CacheSound, OnlyRacedComeBack

LEMMA EnqueueKeeps ==
  ASSUME EnrichInv, NEW j \in Job, Enqueue(j) PROVE EnrichInv'
<1> DEFINE new == [NoJob EXCEPT !.status = "pending", !.due = TRUE]
<1>1. TypeOK /\ attempt \in [Worker -> Attempts] /\ job \in [Job -> JobRecords]
  BY Parts DEF EnrichInv
<1>2. new \in JobRecords /\ new.status = "pending"
  BY DEF NoJob, JobRecords, JobStatus, NoKey
<1>3. job' = [job EXCEPT ![j] = new]
  BY DEF Enqueue
<1> HIDE DEF new
<1>4. job'[j] = new /\ \A i \in Job \ {j} : job'[i] = job[i]
  BY <1>1, <1>3
<1>5. /\ round \in [Round -> {"none", "committed", "expired", "gone"}]
      /\ \A r \in Round : round'[r] = IF r \in RoundsOf[j] THEN "committed" ELSE round[r]
  BY <1>1 DEF TypeOK, Enqueue
<1>6. TypeOK'
  BY <1>1, <1>2, <1>3, WholeTypes DEF Enqueue, TypeOK
<1>7. RoundsOf[j] # {} /\ RoundsOf[j] \subseteq Round /\ \A i \in Job : RoundsOf[i] \subseteq Round
  BY EnrichmentAssumption
<1>8. \A i \in Job : Ingested(i) => Ingested(i)'
  BY <1>5, <1>7 DEF Ingested
<1>9. Ingested(j)'
  BY <1>5, <1>7 DEF Ingested
<1>10. \A i \in Job : i < j => Ingested(i)
  BY DEF Enqueue, Ingested
<1>11. \A k \in Job : j <= k => job[k].status = "none" /\ ~Attended(k)
  <2> SUFFICES ASSUME NEW k \in Job, j <= k, job[k].status # "none" \/ Attended(k) PROVE FALSE
    OBVIOUS
  <2>1. j \in 1..k
    BY EnrichmentAssumption DEF Job
  <2>2. Ingested(j)
    BY <2>1 DEF EnrichInv, InTurn
  <2> QED
    BY <2>2, <1>7 DEF Ingested, Enqueue
<1>12. InTurn'
  <2> SUFFICES ASSUME NEW k \in Job, job'[k].status # "none" \/ Attended(k)', NEW i \in 1..k
               PROVE  Ingested(i)'
    BY DEF InTurn
  <2>1. i \in Job
    BY EnrichmentAssumption DEF Job
  <2>2. CASE k = j
    <3>1. i < j \/ i = j
      BY <2>2, EnrichmentAssumption DEF Job
    <3> QED
      BY <3>1, <2>1, <1>8, <1>9, <1>10
  <2>3. CASE k # j
    BY <2>1, <2>3, <1>4, <1>8 DEF EnrichInv, InTurn, Attended, Enqueue
  <2> QED
    BY <2>2, <2>3
<1>13. AttemptsSound' /\ CacheSound' /\ Copies'
  BY DEF EnrichInv, AttemptsSound, CacheSound, Copies, Storing, Enqueue
<1>14. \A r \in Round : Kept(r) => Kept(r)'
  BY <1>5 DEF Kept, Enqueue
<1>15. \A w \in Worker : attempt[w].read \subseteq Round
  BY <1>1 DEF Attempts
<1>16. ReadKept'
  BY <1>14, <1>15 DEF EnrichInv, ReadKept, Enqueue
<1>17. OnlyRacedComeBack'
  <2>1. \A f \in Tellable : f \subseteq Round
    BY EnrichmentAssumption
  <2>2. \A f \in Tellable : facts[f] > 0 => \A r \in f : Kept(r)
    BY DEF EnrichInv, OnlyRacedComeBack, Kept
  <2> QED
    BY <2>1, <2>2, <1>14 DEF OnlyRacedComeBack, Kept, Enqueue
<1>18. \A w \in Worker : attempt[w].job # 0 => attempt[w].job \in Job \ {j}
  BY <1>11, Parts, <1>1, EnrichmentAssumption DEF Attended, Job
<1>19. JobsHeld'
  BY <1>4, <1>18 DEF EnrichInv, JobsHeld, HasJob, Enqueue
<1>20. OneAtATime'
  <2> SUFFICES ASSUME slow = 0, NEW w \in Worker, Runs(w)'
               PROVE  /\ \A v \in Worker : Runs(v)' => v = w
                      /\ \A i \in Job : i < attempt[w].job => ~Unfinished(i)'
    BY DEF OneAtATime, Enqueue
  <2>1. \A v \in Worker : Runs(v)' => Runs(v) /\ attempt[v].job \in Job /\ attempt[v].job # j
    BY <1>4, <1>18 DEF Runs, Unfinished, Enqueue
  <2>2. ~(j < attempt[w].job)
    BY <1>11, <2>1, EnrichmentAssumption DEF Attended, Job
  <2>3. \A i \in Job : i < attempt[w].job => i # j
    BY <2>2
  <2> QED
    BY <2>1, <2>3, <1>4 DEF EnrichInv, OneAtATime, Unfinished
<1>21. TriesBounded'
  <2> SUFFICES ASSUME NEW k \in Job PROVE Tries(k)' <= 1 + slow
    BY DEF TriesBounded, Enqueue
  <2>1. Tries(k) <= 1 + slow /\ slow \in Nat /\ At(k)' = At(k)
    BY <1>1 DEF EnrichInv, TriesBounded, TypeOK, At, Enqueue
  <2>2. CASE k = j
    <3>1. j <= j
      BY EnrichmentAssumption DEF Job
    <3>2. At(k) = {}
      BY <2>2, <3>1, <1>11 DEF At, Attended
    <3> QED
      BY <2>1, <3>2, FS_EmptySet DEF Tries
  <2>3. CASE k # j
    BY <2>1, <2>3, <1>4 DEF Tries, Open
  <2> QED
    BY <2>2, <2>3
<1> QED
  BY <1>6, <1>12, <1>13, <1>16, <1>17, <1>19, <1>20, <1>21 DEF EnrichInv

LEMMA LeaseExpiresKeeps ==
  ASSUME EnrichInv, NEW j \in Job, LeaseExpires(j) PROVE EnrichInv'
<1>1. TypeOK /\ job \in [Job -> JobRecords] /\ attempt \in [Worker -> Attempts]
  BY Parts DEF EnrichInv
<1>2. TypeOK'
  <2>1. job' \in [Job -> JobRecords]
    BY <1>1 DEF LeaseExpires, JobRecords
  <2>2. slow' \in 0..MaxFaults
    BY <1>1, EnrichmentAssumption DEF LeaseExpires, TypeOK
  <2> QED
    BY <1>1, <2>1, <2>2, WholeTypes DEF LeaseExpires, TypeOK
<1>3. /\ \A i \in Job : job'[i].status = job[i].status
      /\ \A i \in Job \ {j} : job'[i] = job[i]
  BY <1>1 DEF LeaseExpires, JobRecords
<1>4. slow' = 0 => slow = 0 /\ ~Attended(j)
  BY <1>1 DEF TypeOK, LeaseExpires
<1>5. JobsHeld'
  BY <1>3, <1>4, Parts DEF EnrichInv, JobsHeld, HasJob, Attended, LeaseExpires
<1>6. OneAtATime'
  BY <1>3, <1>4, Parts DEF EnrichInv, OneAtATime, Runs, Unfinished, LeaseExpires
<1>7. InTurn'
  BY <1>3 DEF EnrichInv, InTurn, Ingested, Attended, LeaseExpires
<1>8. slow \in Nat /\ slow' \in Nat /\ slow <= slow' /\ (Attended(j) => slow' = slow + 1)
  BY <1>1, EnrichmentAssumption DEF TypeOK, LeaseExpires
<1>9. TriesBounded'
  <2> SUFFICES ASSUME NEW k \in Job PROVE Tries(k)' <= 1 + slow'
    BY DEF TriesBounded
  <2>1. /\ Tries(k) <= 1 + slow /\ At(k)' = At(k)
        /\ At(k) \in SUBSET Worker /\ Cardinality(At(k)) \in Nat
    BY Subsets DEF EnrichInv, TriesBounded, At, LeaseExpires
  <2>2. CASE k = j /\ Attended(j)
    BY <1>8, <2>1, <2>2 DEF Tries
  <2>3. CASE k = j /\ ~Attended(j)
    <3>1. At(k) = {}
      BY <2>3 DEF At, Attended
    <3> QED
      BY <1>8, <2>1, <3>1, FS_EmptySet DEF Tries
  <2>4. CASE k # j
    BY <1>3, <1>8, <2>1, <2>4 DEF Tries, Open
  <2> QED
    BY <2>2, <2>3, <2>4
<1>10. Copies'
  <2> SUFFICES ASSUME NEW f \in Tellable PROVE facts[f] + Cardinality(Storing(f)) <= 1 + slow'
    BY DEF Copies, Storing, LeaseExpires
  <2>1. Storing(f) \in SUBSET Worker /\ facts[f] \in Nat
    BY EnrichmentAssumption DEF Storing, EnrichInv, TypeOK
  <2>2. Cardinality(Storing(f)) \in Nat
    BY <2>1, Subsets
  <2> QED
    BY <1>8, <2>1, <2>2 DEF EnrichInv, Copies
<1> QED
  BY <1>2, <1>5, <1>6, <1>7, <1>9, <1>10
  DEF EnrichInv, AttemptsSound, CacheSound, ReadKept, Kept, OnlyRacedComeBack, LeaseExpires

LEMMA BackoffEndsKeeps ==
  ASSUME EnrichInv, NEW j \in Job, BackoffEnds(j) PROVE EnrichInv'
<1>1. TypeOK /\ job \in [Job -> JobRecords] /\ attempt \in [Worker -> Attempts]
  BY Parts DEF EnrichInv
<1>2. TypeOK'
  <2>1. job' \in [Job -> JobRecords]
    BY <1>1 DEF BackoffEnds, JobRecords
  <2> QED
    BY <1>1, <2>1, WholeTypes DEF BackoffEnds, TypeOK
<1>3. \A i \in Job : job'[i].status = job[i].status /\ job'[i].leased = job[i].leased
  BY <1>1 DEF BackoffEnds, JobRecords
<1>4. JobsHeld'
  BY <1>3, <1>1, Parts DEF EnrichInv, JobsHeld, HasJob, BackoffEnds
<1>5. OneAtATime'
  BY <1>3, <1>1, Parts DEF EnrichInv, OneAtATime, Runs, Unfinished, BackoffEnds
<1>6. InTurn'
  BY <1>3 DEF EnrichInv, InTurn, Ingested, Attended, BackoffEnds
<1>7. TriesBounded' /\ Copies'
  BY <1>3 DEF EnrichInv, TriesBounded, Tries, At, Open, Copies, Storing, BackoffEnds
<1> QED
  BY <1>2, <1>4, <1>5, <1>6, <1>7
  DEF EnrichInv, AttemptsSound, CacheSound, ReadKept, Kept, OnlyRacedComeBack, BackoffEnds

LEMMA ExpireDueKeeps ==
  ASSUME EnrichInv, NEW r \in Round, ExpireDue(r) PROVE EnrichInv'
<1>1. TypeOK /\ job \in [Job -> JobRecords] /\ attempt \in [Worker -> Attempts]
  BY Parts DEF EnrichInv
<1>2. TypeOK'
  BY <1>1, WholeTypes DEF ExpireDue, TypeOK
<1>3. \A s : s \in Round => (Kept(s) => Kept(s)') /\ (round[s] # "none" => round'[s] # "none")
  BY <1>1 DEF ExpireDue, Kept, TypeOK
<1>4. \A w \in Worker : attempt[w].read \subseteq Round
  BY <1>1 DEF TypeOK
<1>5. \A f \in Tellable : f \subseteq Round
  BY EnrichmentAssumption
<1>6. ReadKept'
  BY <1>3, <1>4 DEF EnrichInv, ReadKept, ExpireDue
<1>7. OnlyRacedComeBack'
  <2>1. \A f \in Tellable : facts[f] > 0 => \A s \in f : Kept(s)
    BY DEF EnrichInv, OnlyRacedComeBack, Kept
  <2> QED
    BY <2>1, <1>3, <1>5 DEF OnlyRacedComeBack, Kept, ExpireDue
<1>8. \A i \in Job : Ingested(i) => Ingested(i)'
  BY <1>3, EnrichmentAssumption DEF Ingested
<1>9. \A j \in Job : 1..j \subseteq Job
  BY EnrichmentAssumption DEF Job
<1>10. InTurn'
  BY <1>8, <1>9 DEF EnrichInv, InTurn, Attended, ExpireDue
<1> QED
  BY <1>2, <1>6, <1>7, <1>10
  DEF EnrichInv, AttemptsSound, CacheSound, JobsHeld, HasJob, OneAtATime, Runs, Unfinished,
      TriesBounded, Tries, At, Open, Copies, Storing, ExpireDue

(* The rounds of R are erased: what was derived from them goes along.      *)
RoundsGo(R) ==
  /\ R \subseteq Round
  /\ \A r \in R : round[r] \in {"committed", "expired"} /\ round'[r] = "gone"
  /\ \A r \in Round \ R : round'[r] = round[r]
  /\ \A f \in Tellable : facts'[f] \in {0, facts[f]} /\ (f \cap R # {} => facts'[f] = 0)
  /\ \A j \in Job : job'[j] \in {NoJob, job[j]}
  /\ cache' \subseteq cache
  /\ Races(R)
  /\ UNCHANGED <<attempt, crashes, slow>>

LEMMA ErasesKeeps ==
  ASSUME EnrichInv, TypeOK', NEW R, RoundsGo(R) PROVE EnrichInv'
<1>1. TypeOK /\ attempt' = attempt /\ slow' = slow
  BY DEF EnrichInv, RoundsGo
<1>2. \A j \in Job : job'[j].status = "none" \/ job'[j] = job[j]
  BY DEF RoundsGo, NoJob
<1>3. \A r \in Round : round[r] # "none" => round'[r] # "none"
  BY <1>1 DEF RoundsGo
<1>4. \A i \in Job : Ingested(i) => Ingested(i)'
  BY <1>3, EnrichmentAssumption DEF Ingested
<1>5. \A j \in Job : 1..j \subseteq Job
  BY EnrichmentAssumption DEF Job
<1>6. InTurn'
  BY <1>1, <1>2, <1>4, <1>5 DEF EnrichInv, InTurn, Attended
<1>7. ReadKept'
  <2> SUFFICES ASSUME NEW w \in Worker, NEW r \in attempt[w].read PROVE Kept(r)'
    BY <1>1 DEF ReadKept
  <2>1. r \in Round /\ Kept(r)
    BY <1>1 DEF EnrichInv, ReadKept, TypeOK
  <2> QED
    BY <2>1 DEF RoundsGo, Races, Kept
<1>8. OnlyRacedComeBack'
  <2> SUFFICES ASSUME NEW f \in Tellable, facts'[f] > 0, NEW r \in f PROVE Kept(r)'
    BY DEF OnlyRacedComeBack, Kept
  <2>1. facts'[f] = facts[f] /\ r \notin R /\ r \in Round
    BY EnrichmentAssumption DEF RoundsGo
  <2>2. Kept(r)
    BY <2>1 DEF EnrichInv, OnlyRacedComeBack, Kept
  <2> QED
    BY <2>1, <2>2 DEF RoundsGo, Races, Kept
<1>9. JobsHeld'
  BY <1>1, <1>2, Parts DEF EnrichInv, JobsHeld, HasJob
<1>10. OneAtATime'
  BY <1>1, <1>2, Parts DEF EnrichInv, OneAtATime, Runs, Unfinished
<1>11. \A j \in Job : At(j)' = At(j) /\ (Open(j)' => Open(j))
  BY <1>1, <1>2 DEF At, Open
<1>12. TriesBounded'
  <2> SUFFICES ASSUME NEW j \in Job PROVE Tries(j)' <= 1 + slow
    BY <1>1 DEF TriesBounded
  <2>1. Tries(j) <= 1 + slow /\ slow \in Nat /\ At(j) \in SUBSET Worker
    BY <1>1 DEF EnrichInv, TriesBounded, TypeOK, At
  <2>2. Cardinality(At(j)) \in Nat
    BY <2>1, Subsets
  <2> QED
    BY <1>11, <2>1, <2>2 DEF Tries
<1>13. Copies'
  <2> SUFFICES ASSUME NEW f \in Tellable PROVE facts'[f] + Cardinality(Storing(f)) <= 1 + slow
    BY <1>1 DEF Copies, Storing
  <2>1. facts[f] \in Nat /\ slow \in Nat /\ facts'[f] \in Nat /\ facts'[f] <= facts[f]
    BY <1>1, EnrichmentAssumption DEF TypeOK, RoundsGo
  <2>2. facts[f] + Cardinality(Storing(f)) <= 1 + slow /\ Storing(f) \in SUBSET Worker
    BY DEF EnrichInv, Copies, Storing
  <2>3. Cardinality(Storing(f)) \in Nat
    BY <2>2, Subsets
  <2> QED
    BY <2>1, <2>2, <2>3
<1> QED
  BY <1>1, <1>6, <1>7, <1>8, <1>9, <1>10, <1>12, <1>13
  DEF EnrichInv, AttemptsSound, CacheSound, RoundsGo

(* Records, jobs and cached answers only leave.                            *)
LEMMA DropsTypes ==
  ASSUME TypeOK, NEW J \in SUBSET Job, DropsJobs(J), NEW R \in SUBSET Round, Races(R),
         round' \in [Round -> {"none", "committed", "expired", "gone"}],
         facts' \in [Tellable -> 0..MaxCopies], UNCHANGED <<attempt, crashes, slow>>
  PROVE  TypeOK'
<1>1. job \in [Job -> JobRecords] /\ attempt \in [Worker -> Attempts]
  BY Parts
<1>2. job' \in [Job -> JobRecords]
  <2>1. NoJob \in JobRecords
    BY DEF NoJob, JobRecords, JobStatus, NoKey
  <2> QED
    BY <1>1, <2>1 DEF DropsJobs
<1>3. cache' \subseteq cache /\ raced' \subseteq Round
  BY DEF DropsJobs, Races, TypeOK
<1> QED
  BY <1>1, <1>2, <1>3, WholeTypes DEF TypeOK

LEMMA ForgetRoundKeeps ==
  ASSUME EnrichInv, NEW r \in Forgotten, ForgetRound(r) PROVE EnrichInv'
<1>1. TypeOK /\ r \in Round
  BY EnrichmentAssumption DEF EnrichInv
<1>2. TypeOK'
  <2>1. round' \in [Round -> {"none", "committed", "expired", "gone"}]
    BY <1>1 DEF ForgetRound, TypeOK
  <2>2. facts' \in [Tellable -> 0..MaxCopies]
    BY <1>1, EnrichmentAssumption DEF ForgetRound, TypeOK
  <2>3. Touched({r}) \in SUBSET Job
    BY DEF Touched
  <2> QED
    BY <1>1, <2>1, <2>2, <2>3, DropsTypes DEF ForgetRound
<1>3. RoundsGo({r})
  BY <1>1 DEF RoundsGo, ForgetRound, DropsJobs, TypeOK
<1> QED
  BY <1>2, <1>3, ErasesKeeps

LEMMA EraseSubjectKeeps ==
  ASSUME EnrichInv, Forgotten # {}, EraseSubject PROVE EnrichInv'
<1>1. TypeOK
  BY DEF EnrichInv
<1>2. TypeOK'
  <2>1. round' \in [Round -> {"none", "committed", "expired", "gone"}]
    BY <1>1 DEF EraseSubject, TypeOK
  <2>2. facts' \in [Tellable -> 0..MaxCopies]
    BY <1>1, EnrichmentAssumption DEF EraseSubject, TypeOK
  <2>3. Present \in SUBSET Round /\ {j \in Job : job[j].status # "none"} \in SUBSET Job
    BY DEF Present
  <2> QED
    BY <1>1, <2>1, <2>2, <2>3, DropsTypes DEF EraseSubject
<1>3. RoundsGo(Present)
  BY <1>1 DEF RoundsGo, EraseSubject, DropsJobs, TypeOK, Present
<1> QED
  BY <1>2, <1>3, ErasesKeeps

-----------------------------------------------------------------------------
LEMMA EnrichInvInit == Init => EnrichInv
<1> SUFFICES ASSUME Init PROVE EnrichInv
  OBVIOUS
<1>1. /\ attempt \in [Worker -> Attempts] /\ job \in [Job -> JobRecords]
      /\ \A w \in Worker : attempt[w] = Idle
      /\ \A j \in Job : job[j].status = "none"
  BY IdleTyped DEF Init, NoJob, JobRecords, JobStatus, NoKey
<1>2. TypeOK
  BY <1>1, EnrichmentAssumption DEF TypeOK, Init, Attempts, JobRecords
<1>3. InTurn /\ AttemptsSound /\ CacheSound /\ ReadKept /\ JobsHeld /\ OneAtATime
  BY <1>1, IdleTyped
  DEF Init, InTurn, Attended, AttemptsSound, CacheSound, ReadKept, JobsHeld, OneAtATime, Runs, Job
<1>4. OnlyRacedComeBack
  BY DEF Init, OnlyRacedComeBack
<1>5. TriesBounded
  <2>1. \A j \in Job : At(j) = {} /\ ~Open(j)
    BY <1>1, IdleTyped DEF At, Open, Job
  <2> QED
    BY <2>1, FS_EmptySet DEF TriesBounded, Tries, Init
<1>6. Copies
  <2>1. \A f \in Tellable : Storing(f) = {}
    BY <1>1, IdleTyped DEF Storing
  <2> QED
    BY <2>1, FS_EmptySet DEF Copies, Init
<1> QED
  BY <1>2, <1>3, <1>4, <1>5, <1>6 DEF EnrichInv

LEMMA EnrichInvStep == EnrichInv /\ [Next]_vars => EnrichInv'
<1> SUFFICES ASSUME EnrichInv, [Next]_vars PROVE EnrichInv'
  OBVIOUS
<1>1. CASE UNCHANGED vars
  <2>1. TypeOK'
    BY <1>1 DEF EnrichInv, TypeOK, vars
  <2> QED
    BY <1>1, <2>1
    DEF vars, EnrichInv, InTurn, Ingested, Attended, AttemptsSound, CacheSound, ReadKept, Kept,
        JobsHeld, HasJob, OneAtATime, Runs, Unfinished, TriesBounded, Tries, At, Open,
        Copies, Storing, OnlyRacedComeBack
<1>2. ASSUME NEW w \in Worker, Proceed(w) PROVE EnrichInv'
  BY <1>2, ReadRoundsWorks, LookupWorks, ChatWorks, CachePutWorks, DedupeWorks, InsertWorks,
     WorksKeeps, FinishKeeps, FailKeeps DEF Proceed
<1> QED
  BY <1>1, <1>2, EnqueueKeeps, LeaseExpiresKeeps, BackoffEndsKeeps, ClaimKeeps, CrashKeeps,
     ExpireDueKeeps, ForgetRoundKeeps, EraseSubjectKeeps DEF Next

(* For any sessions, rounds and workers, and however many attempts crash:  *)
(* at most one attempt is at a job or may claim it, and one more for every *)
(* attempt that outlived its lease; so many copies of a fact are stored or *)
(* about to be; and a round that was read is there or was erased meanwhile *)
(* (enrich.rs, mh_enrich_job).                                             *)
THEOREM EnrichmentInvariant == Spec => []EnrichInv
  BY EnrichInvInit, EnrichInvStep, PTL DEF Spec

(* A fact is stored once however often its job is tried again, but for a   *)
(* copy more for every attempt that outlived its lease (existing_hashes in *)
(* store_facts, enrich_claim).                                             *)
THEOREM FactsOnceHolds == Spec => []FactsOnce
<1>1. EnrichInv => FactsOnce
  <2> SUFFICES ASSUME EnrichInv, NEW f \in Tellable PROVE facts[f] <= 1 + slow
    BY DEF FactsOnce
  <2>1. facts[f] + Cardinality(Storing(f)) <= 1 + slow /\ facts[f] \in Nat /\ slow \in Nat
    BY EnrichmentAssumption DEF EnrichInv, Copies, TypeOK
  <2>2. Storing(f) \in SUBSET Worker
    BY DEF Storing
  <2>3. Cardinality(Storing(f)) \in Nat
    BY <2>2, Subsets
  <2> QED
    BY <2>1, <2>3
<1> QED
  BY <1>1, EnrichmentInvariant, PTL

(* The sessions of a subject are enriched one at a time and in their order,*)
(* as long as no attempt outlives its lease (enrich_claim).                *)
THEOREM OneAtATimeHolds == Spec => []OneAtATime
<1>1. EnrichInv => OneAtATime
  BY DEF EnrichInv
<1> QED
  BY <1>1, EnrichmentInvariant, PTL

(* No attempt that had not read an erased round brings a fact of it back,  *)
(* with leases outlived or not (delete, delete_subject, store_facts).      *)
THEOREM OnlyRacedHolds == Spec => []OnlyRacedComeBack
<1>1. EnrichInv => OnlyRacedComeBack
  BY DEF EnrichInv
<1> QED
  BY <1>1, EnrichmentInvariant, PTL
=============================================================================
