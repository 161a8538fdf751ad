------------------------------ MODULE Requests ------------------------------
(***************************************************************************)
(* Idempotency keys (Engine::replay, remember_once, accepted_key): a write *)
(* is looked up by its key, then by its content, then queued, and its      *)
(* answer is recorded under the key last.  Each of these is a statement of *)
(* its own, and clients repeat calls whose answer did not reach them.      *)
(*                                                                         *)
(* All calls are about one subject, none names a record it revises, and    *)
(* none waits for the gate's decision before it is answered; a record is   *)
(* named by the call that queued it.                                       *)
(* The queue is the one of module Intake, taken at its word: one write of  *)
(* a subject at a time, in order.                                          *)
(***************************************************************************)
EXTENDS Naturals, Sequences, SequencesExt

CONSTANTS
  Call,
  Key,
  NoCall,
  KeyOf,      \* [Call -> Key]
  BodyOf,     \* [Call -> content of the request]
  Uncompared, \* contents the gate compares with nothing: structured records, rounds
  MaxLosses,  \* bound: statements that fail, answers that are lost
  MaxErasures \* bound: erasures of the subject or of one record

ASSUME RequestsAssumption ==
  /\ NoCall \notin Call
  /\ KeyOf \in [Call -> Key]
  /\ DOMAIN BodyOf = Call
  /\ MaxLosses \in Nat /\ MaxErasures \in Nat

VARIABLES
  keys,   \* mh_request_key: the first call answered under each key, by its answer
  mem,    \* mh_memory.status of the record each call queued
  queue,  \* mh_intake
  call,   \* the calls in progress, and their answers
  faults, erasures,
  admitted, \* history: records that a reviewer or a later event committed
  known     \* history: the entry of a call's key when it began, until the subject is erased

requestVars == <<keys, mem, queue, call, faults, erasures, admitted, known>>

history == <<admitted, known>>

Steps ==
  {"new", "replay", "dedup", "enqueue", "remember", "answered", "conflict", "refused", "lost"}

NoEntry == [by |-> NoCall, id |-> NoCall]

\* "closed" is rejected or expired: no record leaves it.
Statuses ==
  {"none", "queued", "candidate", "committed", "superseded", "quarantined", "closed", "erased"}

RequestTypeOK ==
  /\ keys \in [Key -> [by : Call \cup {NoCall}, id : Call \cup {NoCall}]]
  /\ mem \in [Call -> Statuses]
  /\ \A i \in DOMAIN queue : queue[i] \in Call
  /\ call \in [Call -> [step : Steps, answer : Call \cup {NoCall}]]
  /\ faults \in 0..MaxLosses /\ erasures \in 0..MaxErasures
  /\ admitted \subseteq Call
  /\ known \in [Call -> [by : Call \cup {NoCall}, id : Call \cup {NoCall}]]

RequestInit ==
  /\ keys = [k \in Key |-> NoEntry]
  /\ mem = [c \in Call |-> "none"]
  /\ queue = <<>>
  /\ call = [c \in Call |-> [step |-> "new", answer |-> NoCall]]
  /\ faults = 0 /\ erasures = 0
  /\ admitted = {}
  /\ known = [c \in Call |-> NoEntry]

-----------------------------------------------------------------------------
MovesTo(c, step) == call' = [call EXCEPT ![c].step = step]

Answer(c, step, id) == call' = [call EXCEPT ![c] = [step |-> step, answer |-> id]]

Fault == faults < MaxLosses /\ faults' = faults + 1

Begin(c) ==
  /\ call[c].step = "new"
  /\ MovesTo(c, "replay")
  /\ known' = [known EXCEPT ![c] = keys[KeyOf[c]]]
  /\ UNCHANGED <<keys, mem, queue, faults, erasures, admitted>>

(* A statement fails before the write is queued: 503, retry.               *)
Refuse(c) ==
  /\ call[c].step \in {"replay", "dedup", "enqueue"}
  /\ Fault
  /\ MovesTo(c, "refused")
  /\ UNCHANGED <<keys, mem, queue, erasures, history>>

\* Mutant: the request is not compared with the one the key was used for.
ReplayAnyBody(c) ==
  LET entry == keys[KeyOf[c]] IN
  /\ call[c].step = "replay"
  /\ IF entry = NoEntry THEN MovesTo(c, "dedup") ELSE Answer(c, "answered", entry.id)
  /\ UNCHANGED <<keys, mem, queue, faults, erasures, history>>

Replay(c) ==
  LET entry == keys[KeyOf[c]] IN
  /\ call[c].step = "replay"
  /\ CASE entry = NoEntry -> MovesTo(c, "dedup")
       [] entry # NoEntry /\ BodyOf[entry.by] = BodyOf[c] -> Answer(c, "answered", entry.id)
       [] OTHER -> MovesTo(c, "conflict")
  /\ UNCHANGED <<keys, mem, queue, faults, erasures, history>>

(* find_by_hash: the same content, stored in any state but superseded.     *)
Stored(body) ==
  {r \in Call : BodyOf[r] = body /\ mem[r] \in {"candidate", "committed", "quarantined", "closed"}}

Dedup(c) ==
  /\ call[c].step = "dedup"
  /\ \/ Stored(BodyOf[c]) = {} /\ MovesTo(c, "enqueue")
     \/ \E r \in Stored(BodyOf[c]) : Answer(c, "remember", r)
  /\ UNCHANGED <<keys, mem, queue, faults, erasures, history>>

EnqueueWrite(c) ==
  /\ call[c].step = "enqueue"
  /\ mem' = [mem EXCEPT ![c] = "queued"]
  /\ queue' = Append(queue, c)
  /\ \/ Answer(c, "remember", c) /\ UNCHANGED faults
     \/ Fault /\ MovesTo(c, "refused")  \* committed, but the answer is lost
  /\ UNCHANGED <<keys, erasures, history>>

(* accepted_key: ON CONFLICT DO NOTHING, and a failure is only logged.     *)
RememberKey(c) ==
  LET k == KeyOf[c] IN
  /\ call[c].step = "remember"
  /\ \/ /\ keys' = IF keys[k] = NoEntry
                   THEN [keys EXCEPT ![k] = [by |-> c, id |-> call[c].answer]] ELSE keys
        /\ UNCHANGED faults
     \/ Fault /\ UNCHANGED keys
  /\ MovesTo(c, "answered")
  /\ UNCHANGED <<mem, queue, erasures, history>>

(* The server dies, or its answer never arrives.                           *)
Lose(c) ==
  /\ call[c].step \in {"replay", "dedup", "enqueue", "remember"}
  /\ Fault
  /\ MovesTo(c, "lost")
  /\ UNCHANGED <<keys, mem, queue, erasures, history>>

-----------------------------------------------------------------------------
\* Mutant: a near-duplicate is stored beside the first.
LandBeside ==
  /\ queue # <<>>
  /\ queue' = Tail(queue)
  /\ mem' = [mem EXCEPT ![Head(queue)] = "committed"]
  /\ UNCHANGED <<keys, call, faults, erasures, history>>

(* The pipeline takes the oldest write.  Any may be quarantined, or        *)
(* rejected because its kind is no longer allowed.  A copy of a committed  *)
(* record is rejected as a near-duplicate, unless its content is compared  *)
(* with nothing; the rest is committed, or held or left to a reviewer as a *)
(* candidate, and may supersede a record whose value it updates.           *)
Land ==
  LET c == Head(queue)
      compared == BodyOf[c] \notin Uncompared
      copied == \E r \in Call : BodyOf[r] = BodyOf[c] /\ mem[r] = "committed"
  IN
  /\ queue # <<>>
  /\ queue' = Tail(queue)
  /\ \/ \E status \in {"quarantined", "closed"} : mem' = [mem EXCEPT ![c] = status]
     \/ /\ ~(compared /\ copied)
        /\ \E status \in {"candidate", "committed"} : mem' = [mem EXCEPT ![c] = status]
     \/ /\ compared /\ ~copied
        /\ \E old \in Call :
             /\ mem[old] = "committed"
             /\ mem' = [mem EXCEPT ![c] = "committed", ![old] = "superseded"]
  /\ UNCHANGED <<keys, call, faults, erasures, history>>

(* A reviewer admits a candidate, or an event confirms held plans: neither *)
(* compares it with what is committed.                                     *)
Admit(R) ==
  /\ R # {}
  /\ \A r \in R : mem[r] = "candidate"
  /\ mem' = [c \in Call |-> IF c \in R THEN "committed" ELSE mem[c]]
  /\ admitted' = admitted \cup R
  /\ UNCHANGED <<keys, queue, call, faults, erasures, known>>

\* A reviewer refuses a candidate, or a record expires.
Close(r) ==
  /\ mem[r] \in {"candidate", "committed"}
  /\ mem' = [mem EXCEPT ![r] = "closed"]
  /\ UNCHANGED <<keys, queue, call, faults, erasures, history>>

Erasure == erasures < MaxErasures /\ erasures' = erasures + 1

(* forget of one record keeps the keys; erasing the subject drops them.    *)
Forget(r) ==
  /\ mem[r] \notin {"none", "erased"}
  /\ Erasure
  /\ mem' = [mem EXCEPT ![r] = "erased"]
  /\ \/ mem[r] # "queued" /\ UNCHANGED queue
     \/ \E i \in DOMAIN queue : queue[i] = r /\ queue' = RemoveAt(queue, i)
  /\ UNCHANGED <<keys, call, faults, history>>

EraseWrites ==
  /\ \E c \in Call : mem[c] \notin {"none", "erased"}
  /\ Erasure
  /\ mem' = [c \in Call |-> IF mem[c] = "none" THEN "none" ELSE "erased"]
  /\ queue' = <<>>
  /\ keys' = [k \in Key |-> NoEntry]
  /\ known' = [c \in Call |-> NoEntry]
  /\ UNCHANGED <<call, faults, admitted>>

RequestNext ==
  \/ \E c \in Call : \/ Begin(c) \/ Refuse(c) \/ Replay(c) \/ Dedup(c)
                     \/ EnqueueWrite(c) \/ RememberKey(c) \/ Lose(c)
                     \/ Close(c) \/ Forget(c)
  \/ \E R \in SUBSET Call : Admit(R)
  \/ Land
  \/ EraseWrites

RequestSpec == RequestInit /\ [][RequestNext]_requestVars

-----------------------------------------------------------------------------
Answered(c) == call[c].step = "answered"

(* However often a write is repeated, with its key or without, and whatever *)
(* was lost, one copy of it at most is committed (find_by_hash, and the     *)
(* near-duplicate check behind it).  Two are where the gate compares        *)
(* nothing, or a reviewer or an event commits a copy that was held.         *)
OneCopyTakesEffect ==
  \A r, s \in Call :
    /\ mem[r] = "committed" /\ mem[s] = "committed" /\ BodyOf[r] = BodyOf[s]
    /\ BodyOf[r] \notin Uncompared /\ admitted \cap {r, s} = {}
    => r = s

\* A call that sends what its key is already recorded for.
Repeats(c) == known[c] # NoEntry /\ BodyOf[known[c].by] = BodyOf[c]

(* A call is answered with a record of the content it sent, even when its  *)
(* key is being used for another request at the same time (request_hash);  *)
(* and a repeat that began when its key was recorded "returns the first    *)
(* response and changes nothing" (docs/api.md), whatever its content,      *)
(* unless the subject is erased meanwhile.                                 *)
AnswerFits ==
  \A c \in Call :
    /\ Answered(c) => BodyOf[call[c].answer] = BodyOf[c]
    /\ Repeats(c) => /\ mem[c] = "none" /\ call[c].step # "conflict"
                     /\ Answered(c) => call[c].answer = known[c].id

=============================================================================
