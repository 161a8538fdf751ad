--------------------------- MODULE RecallsProofs ---------------------------
(***************************************************************************)
(* Every recall, whatever happens between its stages, and the audit log it *)
(* writes to: proofs about Recalls and Audit.  The invariant of a recall   *)
(* is of one call at a time (Sound); the other calls of a step are left as *)
(* they are.                                                               *)
(***************************************************************************)
EXTENDS Recalls, Audit, TLAPS

CallType ==
    [pc : Stages, ask : Asks \cup {None}, policy : Policies \cup {None}, at : Nat,
     found : SUBSET Id, exact : Seq(Id), copy : [Id -> Memories \cup {None}],
     returned : SUBSET Id, rank : SUBSET Id, budget : SUBSET Id]

ExplanationType ==
    [call : Call, ask : Asks \cup {None}, policy : Policies \cup {None},
     at : Nat, returned : SUBSET Id, rank : SUBSET Id, budget : SUBSET Id]

Early == {"new", "policy", "embed", "search", "exact"}
Searched == {"exact", "more", "rank", "audit", "record", "done"}
CutStages == {"audit", "record", "done"}

Hits(call) == call.found \cup ToSet(call.exact)

IsFound(call) ==
    \A i \in Hits(call) : call.copy[i] # None /\ Found(QueryOf(call), call.copy[i])

IsCut(call) ==
    /\ call.returned \cap (call.rank \cup call.budget) = {}
    /\ call.rank \cap call.budget = {}
    /\ call.returned \cup call.rank \cup call.budget = Hits(call)

Sound(call) ==
    /\ call.pc # "new" => call.ask \in Asks
    /\ call.pc \in Early => call.exact = <<>>
    /\ call.pc \in Searched => IsFound(call)
    /\ call.pc \in CutStages => IsCut(call)
    /\ call.pc = "degraded" => call.returned = {}

Kept == ToSet(recent) \cup writing \cup stored

KeptIsTrue == \A r \in Kept : r.call \in Call /\ At(r.call, "done") /\ r = Explanation(r.call)

EventWritten ==
    \A c \in Call : calls[c].pc \in {"record", "done"} /\ calls[c].policy.auditReads =>
        ReadBy(c) \in audits

CallsSound == \A c \in Call : Sound(calls[c])

RInv == TypeOK /\ CallsSound /\ KeptIsTrue /\ EventWritten /\ RecentBounded

(***************************************************************************)
(* The actions of calls, as steps of one record.                           *)
(***************************************************************************)
CallStep(c) ==
    \/ \E ask \in Asks : Begin(c, ask)
    \/ ResolvePolicy(c) \/ Embed(c) \/ Search(c) \/ LookupExact(c) \/ LookupMore(c)
    \/ Rank(c) \/ Audit(c) \/ Record(c) \/ Degrade(c)

LEMMA EmptySet == ToSet(<<>>) = {}
  BY DEF ToSet

LEMMA InitHolds == ASSUME Recent \in Nat \ {0} PROVE Init => RInv
<1> SUFFICES ASSUME Init PROVE RInv
  OBVIOUS
<1>1. TypeOK
  BY DEF Init, TypeOK, NewCall, Stages, Waiting
<1>2. CallsSound
  BY EmptySet DEF Init, CallsSound, Sound, NewCall, Early, Searched, CutStages
<1>3. KeptIsTrue
  BY EmptySet DEF Init, KeptIsTrue, Kept
<1>4. EventWritten
  BY DEF Init, EventWritten, NewCall
<1>5. RecentBounded
  BY DEF Init, RecentBounded
<1> QED
  BY <1>1, <1>2, <1>3, <1>4, <1>5 DEF RInv

(***************************************************************************)
(* Types.                                                                  *)
(***************************************************************************)
LEMMA OrdersType ==
    ASSUME NEW exact \in Seq(Id), NEW found \in SUBSET Id, NEW all \in Orders(exact, found)
    PROVE  /\ all \in [DOMAIN all -> found \cup ToSet(exact)]
           /\ \A i, j \in DOMAIN all : all[i] = all[j] => i = j
           /\ \A h \in found \cup ToSet(exact) : \E i \in DOMAIN all : all[i] = h
           /\ found \cup ToSet(exact) \subseteq Id
<1> DEFINE hits == found \cup ToSet(exact)
           n == Cardinality(hits)
<1>1. /\ all \in [1 .. n -> hits]
      /\ \A i, j \in 1 .. n : all[i] = all[j] => i = j
      /\ \A h \in hits : \E i \in 1 .. n : all[i] = h
  BY DEF Orders
<1>2. DOMAIN all = 1 .. n
  BY <1>1
<1>3. hits \subseteq Id
  BY DEF ToSet
<1> HIDE DEF n
<1> QED
  BY <1>1, <1>2, <1>3

LEMMA LookupType ==
    ASSUME NEW call, NEW mems, call.ask.k \in Nat, NEW s \in Lookups(call, mems)
    PROVE  s \in Seq(Matching(call, mems)) /\ s \in Seq(Id)
<1> DEFINE S == Matching(call, mems)
<1>1. PICK n \in 0 .. call.ask.k : s \in [1 .. n -> S]
  BY DEF Lookups, SeqOf
<1>2. n \in Nat
  BY <1>1
<1>3. S \subseteq Id
  BY DEF Matching
<1> HIDE DEF S
<1>4. s \in Seq(S)
  BY <1>1, <1>2
<1>5. s \in Seq(Id)
  BY <1>1, <1>2, <1>3
<1> QED
  BY <1>4, <1>5 DEF S

(***************************************************************************)
(* A step of one call that leaves the explanations alone.                  *)
(***************************************************************************)
LEMMA OneCall ==
    ASSUME RInv, NEW c \in Call, NEW call \in CallType,
           calls' = [calls EXCEPT ![c] = call],
           Sound(call), ~At(c, "done"),
           audits \subseteq audits',
           call.pc \in {"record", "done"} /\ call.policy.auditReads =>
                [call |-> c, returned |-> call.returned] \in audits',
           UNCHANGED <<world, explanations>>
    PROVE  RInv'
<1>0. calls \in [Call -> CallType]
  BY DEF RInv, TypeOK, CallType
<1>1. /\ calls' \in [Call -> CallType] /\ calls'[c] = call
      /\ \A d \in Call \ {c} : calls'[d] = calls[d]
  BY <1>0
<1>2. TypeOK'
  BY <1>1 DEF RInv, TypeOK, CallType, world, explanations
<1>3. CallsSound'
  BY <1>1 DEF RInv, CallsSound
<1>4. KeptIsTrue'
  <2> SUFFICES ASSUME NEW r \in Kept
               PROVE  r.call \in Call /\ At(r.call, "done")' /\ r = Explanation(r.call)'
    BY DEF KeptIsTrue, Kept, explanations
  <2>1. r.call \in Call /\ At(r.call, "done") /\ r = Explanation(r.call)
    BY DEF RInv, KeptIsTrue
  <2>2. r.call # c
    BY <2>1
  <2>3. calls'[r.call] = calls[r.call]
    BY <1>1, <2>1, <2>2
  <2>4. At(r.call, "done")'
    BY <2>1, <2>3 DEF At
  <2>5. Explanation(r.call)' = Explanation(r.call)
    BY <2>3 DEF Explanation
  <2> QED
    BY <2>1, <2>4, <2>5
<1>5. EventWritten'
  <2> SUFFICES ASSUME NEW d \in Call, calls'[d].pc \in {"record", "done"},
                      calls'[d].policy.auditReads
               PROVE  ReadBy(d)' \in audits'
    BY DEF EventWritten
  <2>1. CASE d = c
    BY <1>1, <2>1 DEF ReadBy
  <2>2. CASE d # c
    <3>1. calls'[d] = calls[d]
      BY <1>1, <2>2
    <3>2. ReadBy(d) \in audits
      BY <3>1 DEF RInv, EventWritten
    <3>3. ReadBy(d)' = ReadBy(d)
      BY <3>1 DEF ReadBy
    <3> QED
      BY <3>2, <3>3
  <2> QED
    BY <2>1, <2>2
<1>6. RecentBounded'
  BY DEF RInv, RecentBounded, explanations
<1> QED
  BY <1>2, <1>3, <1>4, <1>5, <1>6 DEF RInv

(***************************************************************************)
(* The stages before the answer.                                           *)
(***************************************************************************)
LEMMA Opening ==
    ASSUME RInv, NEW c \in Call,
           \/ \E ask \in Asks : Begin(c, ask)
           \/ ResolvePolicy(c) \/ Embed(c)
    PROVE  RInv'
<1>0. calls[c] \in CallType /\ now \in Nat /\ policy \in Policies
  BY DEF RInv, TypeOK, CallType
<1>s. Sound(calls[c])
  BY DEF RInv, CallsSound
<1>1. ASSUME NEW ask \in Asks, Begin(c, ask) PROVE RInv'
  <2> DEFINE call == [calls[c] EXCEPT !.pc = "policy", !.ask = ask]
  <2>1. call \in CallType
    BY <1>0 DEF CallType, Stages, Waiting
  <2>2. calls[c].exact = <<>>
    BY <1>1, <1>s DEF Begin, At, Sound, Early
  <2>3. Sound(call) /\ call.pc = "policy"
    BY <2>2, <1>0 DEF Sound, Early, Searched, CutStages, CallType
  <2>4. /\ calls' = [calls EXCEPT ![c] = call] /\ audits' = audits
        /\ UNCHANGED <<world, explanations>> /\ ~At(c, "done")
    BY <1>1 DEF Begin, At
  <2> HIDE DEF call
  <2> QED
    BY <2>1, <2>3, <2>4, OneCall
<1>2. CASE ResolvePolicy(c)
  <2> DEFINE call == [calls[c] EXCEPT !.pc = "embed", !.policy = policy]
  <2>1. call \in CallType
    BY <1>0 DEF CallType, Stages, Waiting
  <2>2. calls[c].exact = <<>>
    BY <1>2, <1>s DEF ResolvePolicy, At, Sound, Early
  <2>3. Sound(call) /\ call.pc = "embed"
    BY <2>2, <1>0, <1>2, <1>s DEF ResolvePolicy, At, Sound, Early, Searched, CutStages, CallType
  <2>4. /\ calls' = [calls EXCEPT ![c] = call] /\ audits' = audits
        /\ UNCHANGED <<world, explanations>> /\ ~At(c, "done")
    BY <1>2 DEF ResolvePolicy, At
  <2> HIDE DEF call
  <2> QED
    BY <2>1, <2>3, <2>4, OneCall
<1>3. CASE Embed(c)
  <2> DEFINE call == [calls[c] EXCEPT !.pc = "search", !.at = now]
  <2>1. call \in CallType
    BY <1>0 DEF CallType, Stages, Waiting
  <2>2. calls[c].exact = <<>>
    BY <1>3, <1>s DEF Embed, At, Sound, Early
  <2>3. Sound(call) /\ call.pc = "search"
    BY <2>2, <1>0, <1>3, <1>s DEF Embed, At, Sound, Early, Searched, CutStages, CallType
  <2>4. /\ calls' = [calls EXCEPT ![c] = call] /\ audits' = audits
        /\ UNCHANGED <<world, explanations>> /\ ~At(c, "done")
    BY <1>3 DEF Embed, At
  <2> HIDE DEF call
  <2> QED
    BY <2>1, <2>3, <2>4, OneCall
<1> QED
  BY <1>1, <1>2, <1>3

LEMMA Searching ==
    ASSUME RInv, NEW c \in Call, Search(c)
    PROVE  RInv'
<1>0. calls[c] \in CallType /\ memories \in [Id -> Memories \cup {None}]
  BY DEF RInv, TypeOK, CallType
<1>s. Sound(calls[c])
  BY DEF RInv, CallsSound
<1>1. PICK found \in SUBSET Matching(calls[c], memories) :
        calls' = [calls EXCEPT ![c] =
           [@ EXCEPT !.pc = IF calls[c].ask.exact = "none" THEN "rank" ELSE "exact",
                     !.found = found,
                     !.copy = [i \in Id |-> IF i \in found THEN memories[i] ELSE None]]]
  BY DEF Search
<1> DEFINE call == [calls[c] EXCEPT
                      !.pc = IF calls[c].ask.exact = "none" THEN "rank" ELSE "exact",
                      !.found = found,
                      !.copy = [i \in Id |-> IF i \in found THEN memories[i] ELSE None]]
<1>2. found \subseteq Id
  BY DEF Matching
<1>3. call \in CallType
  BY <1>0, <1>2 DEF CallType, Stages, Waiting
<1>4. calls[c].exact = <<>> /\ calls[c].ask \in Asks
  BY <1>s DEF Search, At, Sound, Early
<1>5. /\ call.ask = calls[c].ask /\ call.found = found /\ call.exact = <<>> /\ call.pc \in {"rank", "exact"}
      /\ call.copy = [i \in Id |-> IF i \in found THEN memories[i] ELSE None]
      /\ QueryOf(call) = QueryOf(calls[c])
  BY <1>0, <1>4 DEF CallType, QueryOf
<1>6. IsFound(call)
  <2> SUFFICES ASSUME NEW i \in found
               PROVE  call.copy[i] # None /\ Found(QueryOf(call), call.copy[i])
    BY <1>5, EmptySet DEF IsFound, Hits
  <2>1. call.copy[i] = memories[i]
    BY <1>2, <1>5
  <2> HIDE DEF call
  <2> QED
    BY <1>5, <2>1 DEF Matching
<1>7. Sound(call)
  <2> HIDE DEF call
  <2> QED
    BY <1>4, <1>5, <1>6 DEF Sound, Early, Searched, CutStages
<1>8. /\ calls' = [calls EXCEPT ![c] = call] /\ audits' = audits
      /\ UNCHANGED <<world, explanations>> /\ ~At(c, "done")
  BY <1>1 DEF Search, At
<1> HIDE DEF call
<1> QED
  BY <1>3, <1>5, <1>7, <1>8, OneCall

(***************************************************************************)
(* The exact probe: records it finds are copied over what the search       *)
(* found, and they too passed the filters.                                 *)
(***************************************************************************)
LEMMA CopiesAreFound ==
    ASSUME NEW old \in CallType, NEW call \in CallType, NEW s \in Seq(Id),
           memories \in [Id -> Memories \cup {None}],
           ToSet(s) \subseteq Matching(old, memories),
           \A i \in old.found \cup ToSet(old.exact) :
                old.copy[i] # None /\ Found(QueryOf(old), old.copy[i]),
           QueryOf(call) = QueryOf(old),
           call.found = old.found,
           ToSet(call.exact) \subseteq ToSet(old.exact) \cup ToSet(s),
           call.copy = Copied(old, s)
    PROVE  IsFound(call)
<1> SUFFICES ASSUME NEW i \in Hits(call)
             PROVE  call.copy[i] # None /\ Found(QueryOf(call), call.copy[i])
  BY DEF IsFound
<1>1. i \in Id
  BY DEF Hits, CallType, ToSet
<1>2. call.copy[i] = IF i \in ToSet(s) THEN memories[i] ELSE old.copy[i]
  BY <1>1 DEF Copied
<1>3. CASE i \in ToSet(s)
  BY <1>2, <1>3 DEF Matching
<1>4. CASE i \notin ToSet(s)
  BY <1>2, <1>4 DEF Hits
<1> QED
  BY <1>3, <1>4

LEMMA LookingUp ==
    ASSUME RInv, NEW c \in Call, LookupExact(c), \A ask \in Asks : ask.k \in Nat
    PROVE  RInv'
<1>0. calls[c] \in CallType /\ memories \in [Id -> Memories \cup {None}]
  BY DEF RInv, TypeOK, CallType
<1>s. Sound(calls[c])
  BY DEF RInv, CallsSound
<1>a. calls[c].ask \in Asks
  BY <1>s DEF LookupExact, At, Sound
<1>1. PICK s \in Lookups(calls[c], memories) :
        calls' = [calls EXCEPT ![c] =
           [@ EXCEPT !.pc = IF calls[c].ask.exact = "fallback" /\ Len(s) < calls[c].ask.k
                              THEN "more" ELSE "rank",
                     !.exact = s,
                     !.copy = Copied(calls[c], s)]]
  BY DEF LookupExact
<1> DEFINE call == [calls[c] EXCEPT
                      !.pc = IF calls[c].ask.exact = "fallback" /\ Len(s) < calls[c].ask.k
                               THEN "more" ELSE "rank",
                      !.exact = s,
                      !.copy = Copied(calls[c], s)]
<1>2. s \in Seq(Matching(calls[c], memories)) /\ s \in Seq(Id)
  BY <1>a, LookupType
<1>3. ToSet(s) \subseteq Matching(calls[c], memories)
  BY <1>2 DEF ToSet
<1>4. Copied(calls[c], s) \in [Id -> Memories \cup {None}]
  BY <1>0 DEF Copied, CallType
<1>5. call \in CallType
  BY <1>0, <1>2, <1>4 DEF CallType, Stages, Waiting
<1>6. calls[c].exact = <<>> /\ IsFound(calls[c])
  BY <1>s DEF LookupExact, At, Sound, Early, Searched
<1>7. /\ call.found = calls[c].found /\ call.exact = s /\ call.pc \in {"rank", "more"}
      /\ call.copy = Copied(calls[c], s) /\ call.ask = calls[c].ask
      /\ QueryOf(call) = QueryOf(calls[c])
  BY <1>0 DEF CallType, QueryOf
<1>8. IsFound(call)
  <2> HIDE DEF call
  <2> QED
    BY <1>0, <1>2, <1>3, <1>5, <1>6, <1>7, CopiesAreFound DEF IsFound, Hits
<1>9. Sound(call)
  <2> HIDE DEF call
  <2> QED
    BY <1>a, <1>7, <1>8 DEF Sound, Early, Searched, CutStages
<1>10. /\ calls' = [calls EXCEPT ![c] = call] /\ audits' = audits
       /\ UNCHANGED <<world, explanations>> /\ ~At(c, "done")
  BY <1>1 DEF LookupExact, At
<1> HIDE DEF call
<1> QED
  BY <1>5, <1>7, <1>9, <1>10, OneCall

LEMMA ConcatSet ==
    ASSUME NEW s \in Seq(Id), NEW t \in Seq(Id)
    PROVE  s \o t \in Seq(Id) /\ ToSet(s \o t) = ToSet(s) \cup ToSet(t)
<1>1. s \o t \in Seq(Id) /\ DOMAIN s = 1 .. Len(s) /\ DOMAIN t = 1 .. Len(t)
      /\ DOMAIN (s \o t) = 1 .. (Len(s) + Len(t)) /\ Len(s) \in Nat /\ Len(t) \in Nat
  OBVIOUS
<1>2. \A i \in 1 .. Len(s) : (s \o t)[i] = s[i] /\ i \in DOMAIN (s \o t)
  BY <1>1
<1>3. \A i \in 1 .. Len(t) : (s \o t)[i + Len(s)] = t[i] /\ i + Len(s) \in DOMAIN (s \o t)
  BY <1>1
<1>4. \A i \in DOMAIN (s \o t) : i \in 1 .. Len(s) \/ (i - Len(s) \in 1 .. Len(t)
                                    /\ (s \o t)[i] = t[i - Len(s)])
  BY <1>1
<1>5. ToSet(s \o t) \subseteq ToSet(s) \cup ToSet(t)
  <2> SUFFICES ASSUME NEW i \in DOMAIN (s \o t)
               PROVE  (s \o t)[i] \in ToSet(s) \cup ToSet(t)
    BY DEF ToSet
  <2>1. CASE i \in 1 .. Len(s)
    BY <1>1, <1>2, <2>1 DEF ToSet
  <2>2. CASE i - Len(s) \in 1 .. Len(t) /\ (s \o t)[i] = t[i - Len(s)]
    BY <1>1, <2>2 DEF ToSet
  <2> QED
    BY <1>4, <2>1, <2>2
<1>6. ToSet(s) \subseteq ToSet(s \o t)
  BY <1>1, <1>2 DEF ToSet
<1>7. ToSet(t) \subseteq ToSet(s \o t)
  <2> SUFFICES ASSUME NEW i \in 1 .. Len(t) PROVE t[i] \in ToSet(s \o t)
    BY <1>1 DEF ToSet
  <2> QED
    BY <1>3 DEF ToSet
<1> QED
  BY <1>1, <1>5, <1>6, <1>7

LEMMA LookingFurther ==
    ASSUME RInv, NEW c \in Call, LookupMore(c), \A ask \in Asks : ask.k \in Nat
    PROVE  RInv'
<1>0. calls[c] \in CallType /\ memories \in [Id -> Memories \cup {None}]
  BY DEF RInv, TypeOK, CallType
<1>s. Sound(calls[c])
  BY DEF RInv, CallsSound
<1>a. calls[c].ask \in Asks
  BY <1>s DEF LookupMore, At, Sound
<1>1. PICK s \in Lookups(calls[c], memories) :
        calls' = [calls EXCEPT ![c] = [@ EXCEPT !.pc = "rank",
                                                !.exact = calls[c].exact \o s,
                                                !.copy = Copied(calls[c], s)]]
  BY DEF LookupMore
<1> DEFINE call == [calls[c] EXCEPT !.pc = "rank",
                                    !.exact = calls[c].exact \o s,
                                    !.copy = Copied(calls[c], s)]
<1>2. s \in Seq(Matching(calls[c], memories)) /\ s \in Seq(Id)
  BY <1>a, LookupType
<1>3. ToSet(s) \subseteq Matching(calls[c], memories)
  BY <1>2 DEF ToSet
<1>4. Copied(calls[c], s) \in [Id -> Memories \cup {None}]
  BY <1>0 DEF Copied, CallType
<1>5. /\ calls[c].exact \o s \in Seq(Id)
      /\ ToSet(calls[c].exact \o s) = ToSet(calls[c].exact) \cup ToSet(s)
  <2>1. calls[c].exact \in Seq(Id)
    BY <1>0 DEF CallType
  <2> QED
    BY <1>2, <2>1, ConcatSet
<1>6. call \in CallType
  BY <1>0, <1>4, <1>5 DEF CallType, Stages, Waiting
<1>7. IsFound(calls[c])
  BY <1>s DEF LookupMore, At, Sound, Searched
<1>8. /\ call.found = calls[c].found /\ call.exact = calls[c].exact \o s /\ call.pc = "rank"
      /\ call.copy = Copied(calls[c], s) /\ call.ask = calls[c].ask
      /\ QueryOf(call) = QueryOf(calls[c])
  BY <1>0 DEF CallType, QueryOf
<1>9. IsFound(call)
  <2> HIDE DEF call
  <2> QED
    BY <1>0, <1>2, <1>3, <1>5, <1>6, <1>7, <1>8, CopiesAreFound DEF IsFound, Hits
<1>10. Sound(call)
  <2> HIDE DEF call
  <2> QED
    BY <1>a, <1>8, <1>9 DEF Sound, Early, Searched, CutStages
<1>11. /\ calls' = [calls EXCEPT ![c] = call] /\ audits' = audits
       /\ UNCHANGED <<world, explanations>> /\ ~At(c, "done")
  BY <1>1 DEF LookupMore, At
<1> HIDE DEF call
<1> QED
  BY <1>6, <1>8, <1>10, <1>11, OneCall

(***************************************************************************)
(* The cuts: positions are kept, over the budget, or below k.              *)
(***************************************************************************)
LEMMA CutsPart ==
    ASSUME NEW exact \in Seq(Id), NEW found \in SUBSET Id, NEW all \in Orders(exact, found),
           NEW k \in Nat, NEW kept \in SUBSET Top(all, k),
           NEW returned, returned = HitsAt(all, kept),
           NEW budget, budget = HitsAt(all, Top(all, k) \ kept),
           NEW rank, rank = HitsAt(all, DOMAIN all \ Top(all, k))
    PROVE  /\ returned \cap (rank \cup budget) = {} /\ rank \cap budget = {}
           /\ returned \cup rank \cup budget = found \cup ToSet(exact)
           /\ returned \in SUBSET Id /\ budget \in SUBSET Id /\ rank \in SUBSET Id
<1> DEFINE hits == found \cup ToSet(exact)
<1>1. /\ all \in [DOMAIN all -> hits]
      /\ \A i, j \in DOMAIN all : all[i] = all[j] => i = j
      /\ \A h \in hits : \E i \in DOMAIN all : all[i] = h
      /\ hits \subseteq Id
  BY OrdersType
<1>2. Top(all, k) \subseteq DOMAIN all
  BY DEF Top
<1>3. returned \cap (rank \cup budget) = {} /\ rank \cap budget = {}
  BY <1>1, <1>2 DEF HitsAt
<1>4. returned \cup rank \cup budget = hits
  BY <1>1, <1>2 DEF HitsAt
<1>5. returned \subseteq Id /\ budget \subseteq Id /\ rank \subseteq Id
  BY <1>1, <1>4
<1> QED
  BY <1>3, <1>4, <1>5

LEMMA Ranking ==
    ASSUME RInv, NEW c \in Call, Rank(c), \A ask \in Asks : ask.k \in Nat
    PROVE  RInv'
<1>0. calls[c] \in CallType
  BY DEF RInv, TypeOK, CallType
<1>s. Sound(calls[c])
  BY DEF RInv, CallsSound
<1>a. calls[c].ask \in Asks
  BY <1>s DEF Rank, At, Sound
<1> DEFINE k == calls[c].ask.k
<1>1. PICK all \in Orders(calls[c].exact, calls[c].found) :
      \E kept \in SUBSET Top(all, k) :
        calls' = [calls EXCEPT ![c] =
              [@ EXCEPT !.pc = IF calls[c].policy.auditReads THEN "audit" ELSE "record",
                        !.returned = HitsAt(all, kept),
                        !.budget = HitsAt(all, Top(all, k) \ kept),
                        !.rank = HitsAt(all, DOMAIN all \ Top(all, k))]]
  BY DEF Rank
<1>2. PICK kept \in SUBSET Top(all, k) :
        calls' = [calls EXCEPT ![c] =
              [@ EXCEPT !.pc = IF calls[c].policy.auditReads THEN "audit" ELSE "record",
                        !.returned = HitsAt(all, kept),
                        !.budget = HitsAt(all, Top(all, k) \ kept),
                        !.rank = HitsAt(all, DOMAIN all \ Top(all, k))]]
  BY <1>1
<1> DEFINE returned == HitsAt(all, kept)
           budget == HitsAt(all, Top(all, k) \ kept)
           rank == HitsAt(all, DOMAIN all \ Top(all, k))
           call == [calls[c] EXCEPT
                      !.pc = IF calls[c].policy.auditReads THEN "audit" ELSE "record",
                      !.returned = returned, !.budget = budget, !.rank = rank]
<1>3. /\ returned \cap (rank \cup budget) = {} /\ rank \cap budget = {}
      /\ returned \cup rank \cup budget = Hits(calls[c])
      /\ returned \in SUBSET Id /\ budget \in SUBSET Id /\ rank \in SUBSET Id
  <2>1. calls[c].exact \in Seq(Id) /\ calls[c].found \in SUBSET Id /\ k \in Nat
    BY <1>0, <1>a DEF CallType
  <2>2. /\ returned = HitsAt(all, kept) /\ budget = HitsAt(all, Top(all, k) \ kept)
        /\ rank = HitsAt(all, DOMAIN all \ Top(all, k))
    OBVIOUS
  <2> HIDE DEF k, returned, budget, rank
  <2> QED
    BY <2>1, <2>2, CutsPart DEF Hits
<1> HIDE DEF returned, budget, rank
<1>4. call \in CallType
  BY <1>0, <1>3 DEF CallType, Stages, Waiting
<1>5. /\ call.found = calls[c].found /\ call.exact = calls[c].exact /\ call.copy = calls[c].copy
      /\ call.pc = (IF calls[c].policy.auditReads THEN "audit" ELSE "record")
      /\ call.policy = calls[c].policy /\ call.ask = calls[c].ask
      /\ call.returned = returned /\ call.budget = budget /\ call.rank = rank
      /\ QueryOf(call) = QueryOf(calls[c])
  BY <1>0 DEF CallType, QueryOf
<1>6. IsFound(calls[c])
  BY <1>s DEF Rank, At, Sound, Searched
<1>7. IsFound(call) /\ IsCut(call)
  <2> HIDE DEF call
  <2> QED
    BY <1>3, <1>5, <1>6 DEF IsFound, IsCut, Hits
<1>8. call.pc \in {"audit", "record"} /\ (call.pc = "record" => ~call.policy.auditReads)
  <2> HIDE DEF call
  <2> QED
    BY <1>5
<1>9. Sound(call)
  <2> HIDE DEF call
  <2> QED
    BY <1>a, <1>5, <1>7, <1>8 DEF Sound, Early, Searched, CutStages
<1>10. /\ calls' = [calls EXCEPT ![c] = call] /\ audits' = audits
       /\ UNCHANGED <<world, explanations>> /\ ~At(c, "done")
  BY <1>2 DEF Rank, At, returned, budget, rank
<1> HIDE DEF call
<1> QED
  BY <1>4, <1>8, <1>9, <1>10, OneCall

(***************************************************************************)
(* The end of a call.                                                      *)
(***************************************************************************)
LEMMA Auditing ==
    ASSUME RInv, NEW c \in Call, Audit(c)
    PROVE  RInv'
<1>0. calls[c] \in CallType /\ Sound(calls[c])
  BY DEF RInv, TypeOK, CallType, CallsSound
<1> DEFINE call == [calls[c] EXCEPT !.pc = "record"]
<1>1. call \in CallType
  BY <1>0 DEF CallType, Stages, Waiting
<1>2. /\ call.ask = calls[c].ask /\ call.found = calls[c].found /\ call.exact = calls[c].exact
      /\ call.copy = calls[c].copy /\ call.returned = calls[c].returned
      /\ call.rank = calls[c].rank /\ call.budget = calls[c].budget /\ call.pc = "record"
      /\ QueryOf(call) = QueryOf(calls[c])
  BY <1>0 DEF CallType, QueryOf
<1>3. IsFound(calls[c]) /\ IsCut(calls[c]) /\ calls[c].ask \in Asks
  BY <1>0 DEF Audit, At, Sound, Searched, CutStages
<1>4. IsFound(call) /\ IsCut(call)
  <2> HIDE DEF call
  <2> QED
    BY <1>2, <1>3 DEF IsFound, IsCut, Hits
<1>5. Sound(call)
  <2> HIDE DEF call
  <2> QED
    BY <1>2, <1>3, <1>4 DEF Sound, Early, Searched, CutStages
<1>6. /\ calls' = [calls EXCEPT ![c] = call] /\ audits' = audits \cup {ReadBy(c)}
      /\ UNCHANGED <<world, explanations>> /\ ~At(c, "done")
  BY DEF Audit, At
<1>7. [call |-> c, returned |-> call.returned] \in audits' /\ audits \subseteq audits'
  <2> HIDE DEF call
  <2> QED
    BY <1>2, <1>6 DEF ReadBy
<1> HIDE DEF call
<1> QED
  BY <1>1, <1>5, <1>6, <1>7, OneCall

LEMMA Degrading ==
    ASSUME RInv, NEW c \in Call, Degrade(c)
    PROVE  RInv'
<1>0. calls[c] \in CallType /\ Sound(calls[c])
  BY DEF RInv, TypeOK, CallType, CallsSound
<1> DEFINE call == [calls[c] EXCEPT !.pc = "degraded", !.returned = {}, !.rank = {},
                                    !.budget = {}]
<1>1. call \in CallType
  BY <1>0 DEF CallType, Stages
<1>2. call.pc = "degraded" /\ call.returned = {} /\ call.ask = calls[c].ask
  BY <1>0 DEF CallType
<1>3. calls[c].ask \in Asks
  BY <1>0 DEF Degrade, Waiting, Sound
<1>4. Sound(call)
  <2> HIDE DEF call
  <2> QED
    BY <1>2, <1>3 DEF Sound, Early, Searched, CutStages
<1>5. /\ calls' = [calls EXCEPT ![c] = call] /\ audits \subseteq audits'
      /\ UNCHANGED <<world, explanations>> /\ ~At(c, "done")
  BY DEF Degrade, At, Waiting
<1> HIDE DEF call
<1> QED
  BY <1>1, <1>2, <1>4, <1>5, OneCall
(***************************************************************************)
(* The ring in memory.                                                     *)
(***************************************************************************)
LEMMA TailPart ==
    ASSUME NEW S, NEW s \in Seq(S), s # <<>>
    PROVE  Tail(s) \in Seq(S) /\ ToSet(Tail(s)) \subseteq ToSet(s) /\ Len(Tail(s)) = Len(s) - 1
<1>1. /\ Tail(s) \in Seq(S) /\ Len(Tail(s)) = Len(s) - 1
      /\ \A i \in 1 .. Len(Tail(s)) : Tail(s)[i] = s[i + 1] /\ i + 1 \in 1 .. Len(s)
  OBVIOUS
<1>2. DOMAIN Tail(s) = 1 .. Len(Tail(s)) /\ DOMAIN s = 1 .. Len(s)
  BY <1>1
<1> QED
  BY <1>1, <1>2 DEF ToSet

LEMMA AppendPart ==
    ASSUME NEW S, NEW s \in Seq(S), NEW x \in S
    PROVE  /\ Append(s, x) \in Seq(S) /\ Len(Append(s, x)) = Len(s) + 1
           /\ ToSet(Append(s, x)) = ToSet(s) \cup {x}
<1>1. /\ Append(s, x) \in Seq(S) /\ Len(Append(s, x)) = Len(s) + 1 /\ Len(s) \in Nat
      /\ \A i \in 1 .. Len(s) : Append(s, x)[i] = s[i]
      /\ Append(s, x)[Len(s) + 1] = x
  OBVIOUS
<1>2. DOMAIN Append(s, x) = 1 .. Len(s) + 1 /\ DOMAIN s = 1 .. Len(s)
  BY <1>1
<1>3. \A i \in 1 .. Len(s) + 1 : i \in 1 .. Len(s) \/ i = Len(s) + 1
  BY <1>1
<1>4. \A i \in 1 .. Len(s) : i \in 1 .. Len(s) + 1
  BY <1>1
<1>5. Len(s) + 1 \in 1 .. Len(s) + 1
  BY <1>1
<1>6. ToSet(Append(s, x)) \subseteq ToSet(s) \cup {x}
  BY <1>1, <1>2, <1>3 DEF ToSet
<1>7. ToSet(s) \subseteq ToSet(Append(s, x))
  BY <1>1, <1>2, <1>4 DEF ToSet
<1>8. x \in ToSet(Append(s, x))
  BY <1>1, <1>2, <1>5 DEF ToSet
<1> QED
  BY <1>1, <1>6, <1>7, <1>8

LEMMA KeepType ==
    ASSUME RInv, Recent \in Nat \ {0}, NEW r \in ExplanationType
    PROVE  /\ KeepRecent(r) \in Seq(ExplanationType) /\ Len(KeepRecent(r)) <= Recent
           /\ ToSet(KeepRecent(r)) \subseteq ToSet(recent) \cup {r}
<1>1. recent \in Seq(ExplanationType) /\ Len(recent) <= Recent /\ Len(recent) \in Nat
  BY DEF RInv, TypeOK, RecentBounded, ExplanationType
<1>2. CASE Len(recent) >= Recent
  <2>1. recent # <<>>
    BY <1>1, <1>2
  <2>2. /\ Tail(recent) \in Seq(ExplanationType) /\ ToSet(Tail(recent)) \subseteq ToSet(recent)
        /\ Len(Tail(recent)) = Len(recent) - 1
    BY <1>1, <2>1, TailPart
  <2>3. KeepRecent(r) = Append(Tail(recent), r)
    BY <1>2 DEF KeepRecent
  <2> DEFINE rest == Tail(recent)
  <2>4. rest \in Seq(ExplanationType) /\ ToSet(rest) \subseteq ToSet(recent)
        /\ Len(rest) = Len(recent) - 1 /\ KeepRecent(r) = Append(rest, r)
    BY <2>2, <2>3
  <2> HIDE DEF rest
  <2>5. /\ Append(rest, r) \in Seq(ExplanationType)
        /\ Len(Append(rest, r)) = Len(rest) + 1
        /\ ToSet(Append(rest, r)) = ToSet(rest) \cup {r}
    BY <2>4, AppendPart
  <2> QED
    BY <1>1, <2>4, <2>5
<1>3. CASE ~(Len(recent) >= Recent)
  <2>1. KeepRecent(r) = Append(recent, r)
    BY <1>3 DEF KeepRecent
  <2>2. /\ Append(recent, r) \in Seq(ExplanationType)
        /\ Len(Append(recent, r)) = Len(recent) + 1
        /\ ToSet(Append(recent, r)) = ToSet(recent) \cup {r}
    BY <1>1, AppendPart
  <2>3. Len(recent) + 1 <= Recent
    BY <1>1, <1>3
  <2> QED
    BY <2>1, <2>2, <2>3
<1> QED
  BY <1>2, <1>3

LEMMA Recording ==
    ASSUME RInv, NEW c \in Call, Record(c), Recent \in Nat \ {0}
    PROVE  RInv'
<1> DEFINE call == [calls[c] EXCEPT !.pc = "done"]
           r == Explanation(c)
<1>0. calls \in [Call -> CallType] /\ calls[c] \in CallType /\ Sound(calls[c]) /\ calls[c].pc = "record"
  BY DEF RInv, TypeOK, CallType, CallsSound, Record, At
<1>1. call \in CallType
  BY <1>0 DEF CallType, Stages
<1>2. /\ call.ask = calls[c].ask /\ call.found = calls[c].found /\ call.exact = calls[c].exact
      /\ call.copy = calls[c].copy /\ call.returned = calls[c].returned /\ call.at = calls[c].at
      /\ call.rank = calls[c].rank /\ call.budget = calls[c].budget /\ call.pc = "done"
      /\ call.policy = calls[c].policy /\ QueryOf(call) = QueryOf(calls[c])
  BY <1>0 DEF CallType, QueryOf
<1>3. /\ calls' \in [Call -> CallType] /\ calls'[c] = call
      /\ \A d \in Call \ {c} : calls'[d] = calls[d]
      /\ UNCHANGED <<world, audits, stored>>
  BY <1>0, <1>1 DEF Record
<1>4. r \in ExplanationType
  BY <1>0 DEF CallType, Explanation, ExplanationType
<1>5. At(c, "done")' /\ Explanation(c)' = r
  <2> HIDE DEF call
  <2> QED
    BY <1>2, <1>3 DEF At, Explanation
<1>6. Sound(call)
  <2>1. IsFound(calls[c]) /\ IsCut(calls[c]) /\ calls[c].ask \in Asks
    BY <1>0 DEF Sound, Searched, CutStages
  <2> HIDE DEF call
  <2>2. IsFound(call) /\ IsCut(call)
    BY <1>2, <2>1 DEF IsFound, IsCut, Hits
  <2> QED
    BY <1>2, <2>1, <2>2 DEF Sound, Early, Searched, CutStages
<1> HIDE DEF call, r
<1>7. /\ recent' \in Seq(ExplanationType) /\ Len(recent') <= Recent
      /\ Kept' \subseteq Kept \cup {r}
  <2>1. CASE Explaining
    <3>1. recent' = KeepRecent(r) /\ writing' = writing \cup {r}
      BY <2>1 DEF Record, r
    <3> QED
      BY <1>3, <1>4, <3>1, KeepType DEF Kept
  <2>2. CASE ~Explaining
    <3>1. recent' = recent /\ writing' = writing
      BY <2>2 DEF Record
    <3> QED
      BY <1>3, <3>1 DEF Kept, RInv, TypeOK, RecentBounded, ExplanationType
  <2> QED
    BY <2>1, <2>2
<1>8. TypeOK'
  BY <1>3, <1>7 DEF RInv, TypeOK, CallType, ExplanationType, world
<1>9. CallsSound'
  BY <1>3, <1>6 DEF RInv, CallsSound
<1>10. KeptIsTrue'
  <2> SUFFICES ASSUME NEW x \in Kept \cup {r}
               PROVE  x.call \in Call /\ At(x.call, "done")' /\ x = Explanation(x.call)'
    BY <1>7 DEF KeptIsTrue
  <2>1. CASE x = r
    BY <1>5, <2>1 DEF r, Explanation
  <2>2. CASE x \in Kept
    <3>1. x.call \in Call /\ At(x.call, "done") /\ x = Explanation(x.call)
      BY <2>2 DEF RInv, KeptIsTrue
    <3>2. x.call # c
      BY <1>0, <3>1 DEF At
    <3>3. calls'[x.call] = calls[x.call]
      BY <1>3, <3>1, <3>2
    <3>4. At(x.call, "done")' /\ Explanation(x.call)' = Explanation(x.call)
      BY <3>1, <3>3 DEF At, Explanation
    <3> QED
      BY <3>1, <3>4
  <2> QED
    BY <2>1, <2>2
<1>11. EventWritten'
  <2> SUFFICES ASSUME NEW d \in Call, calls'[d].pc \in {"record", "done"},
                      calls'[d].policy.auditReads
               PROVE  ReadBy(d)' \in audits'
    BY DEF EventWritten
  <2>1. CASE d = c
    <3>1. calls[c].policy.auditReads
      BY <1>2, <1>3, <2>1
    <3>2. ReadBy(c) \in audits
      BY <1>0, <3>1 DEF RInv, EventWritten
    <3>3. ReadBy(c)' = ReadBy(c)
      BY <1>2, <1>3 DEF ReadBy
    <3> QED
      BY <1>3, <2>1, <3>2, <3>3
  <2>2. CASE d # c
    <3>1. calls'[d] = calls[d]
      BY <1>3, <2>2
    <3>2. ReadBy(d) \in audits
      BY <3>1 DEF RInv, EventWritten
    <3>3. ReadBy(d)' = ReadBy(d)
      BY <3>1 DEF ReadBy
    <3> QED
      BY <1>3, <3>2, <3>3
  <2> QED
    BY <2>1, <2>2
<1>12. RecentBounded'
  BY <1>7 DEF RecentBounded
<1> QED
  BY <1>8, <1>9, <1>10, <1>11, <1>12 DEF RInv

(***************************************************************************)
(* What is no step of a call.  The calls are left alone, or some of those  *)
(* that are not over are lost; explanations only move or go.               *)
(***************************************************************************)
LEMMA Outside ==
    ASSUME RInv, UNCHANGED <<calls, audits>>,
           now' \in Nat, memories' \in [Id -> Memories \cup {None}], policy' \in Policies,
           recent' = recent, Kept' \subseteq Kept
    PROVE  RInv'
<1>1. TypeOK'
  BY DEF RInv, TypeOK
<1>2. CallsSound'
  BY DEF RInv, CallsSound
<1>3. KeptIsTrue'
  BY DEF RInv, KeptIsTrue, At, Explanation
<1>4. EventWritten'
  BY DEF RInv, EventWritten, ReadBy
<1> QED
  BY <1>1, <1>2, <1>3, <1>4 DEF RInv, RecentBounded

LEMMA Around ==
    ASSUME RInv, (\E r \in writing : Put(r)) \/ DropStored \/ Change \/ UNCHANGED vars
    PROVE  RInv'
<1>0. now \in Nat /\ memories \in [Id -> Memories \cup {None}] /\ policy \in Policies
  BY DEF RInv, TypeOK
<1>1. CASE \E r \in writing : Put(r)
  BY <1>0, <1>1, Outside DEF Put, Kept, world
<1>2. CASE DropStored
  BY <1>0, <1>2, Outside DEF DropStored, Kept, world
<1>3. CASE Change
  BY <1>0, <1>3, Outside DEF Change, Kept, explanations
<1>4. CASE UNCHANGED vars
  BY <1>0, <1>4, Outside DEF vars, Kept
<1> QED
  BY <1>1, <1>2, <1>3, <1>4

LEMMA Crashing ==
    ASSUME RInv, Crash, Recent \in Nat \ {0}
    PROVE  RInv'
<1>0. calls \in [Call -> CallType]
  BY DEF RInv, TypeOK, CallType
<1>1. /\ calls' \in [Call -> CallType]
      /\ \A c \in Call : \/ calls[c].pc \notin Waiting \cup {"record"} /\ calls'[c] = calls[c]
                         \/ /\ calls'[c] = [calls[c] EXCEPT !.pc = "lost"]
                            /\ calls[c].pc \in Waiting \cup {"record"}
  <2> SUFFICES ASSUME NEW c \in Call PROVE [calls[c] EXCEPT !.pc = "lost"] \in CallType
    BY <1>0 DEF Crash
  <2>1. calls[c] \in CallType /\ "lost" \in Stages
    BY <1>0 DEF Stages
  <2> QED
    BY ONLY <2>1 DEF CallType
<1>2. /\ recent' = <<>> /\ writing' = {} /\ stored' = stored /\ audits' = audits
      /\ UNCHANGED world /\ Kept' \subseteq Kept
  BY EmptySet DEF Crash, Kept
<1>3. TypeOK'
  BY <1>1, <1>2 DEF RInv, TypeOK, CallType, world
<1>4. ASSUME NEW c \in Call PROVE Sound(calls'[c])
  <2>1. CASE calls'[c] = calls[c]
    BY <2>1 DEF RInv, CallsSound
  <2>2. CASE calls'[c] = [calls[c] EXCEPT !.pc = "lost"] /\ calls[c].pc \in Waiting \cup {"record"}
    <3>1. calls[c].ask \in Asks /\ calls[c] \in CallType
      BY <1>0, <2>2 DEF RInv, CallsSound, Sound, Waiting
    <3>2. calls'[c].pc = "lost" /\ calls'[c].ask = calls[c].ask
      BY <2>2, <3>1 DEF CallType
    <3> QED
      BY <3>1, <3>2 DEF Sound, Early, Searched, CutStages
  <2> QED
    BY <1>1, <2>1, <2>2
<1>5. CallsSound'
  BY <1>4 DEF CallsSound
<1>6. KeptIsTrue'
  <2> SUFFICES ASSUME NEW r \in Kept
               PROVE  r.call \in Call /\ At(r.call, "done")' /\ r = Explanation(r.call)'
    BY <1>2 DEF KeptIsTrue
  <2>1. r.call \in Call /\ At(r.call, "done") /\ r = Explanation(r.call)
    BY DEF RInv, KeptIsTrue
  <2>2. calls'[r.call] = calls[r.call]
    BY <1>1, <2>1 DEF At, Waiting
  <2> QED
    BY <2>1, <2>2 DEF At, Explanation
<1>7. EventWritten'
  <2> SUFFICES ASSUME NEW d \in Call, calls'[d].pc \in {"record", "done"},
                      calls'[d].policy.auditReads
               PROVE  ReadBy(d)' \in audits'
    BY DEF EventWritten
  <2>1. calls'[d] = calls[d]
    <3> SUFFICES ASSUME calls'[d] = [calls[d] EXCEPT !.pc = "lost"] PROVE FALSE
      BY <1>1
    <3> QED
      BY <1>0 DEF CallType
  <2>2. ReadBy(d) \in audits
    BY <2>1 DEF RInv, EventWritten
  <2> QED
    BY <1>2, <2>1, <2>2 DEF ReadBy
<1>8. RecentBounded'
  BY <1>2 DEF RecentBounded
<1> QED
  BY <1>3, <1>5, <1>6, <1>7, <1>8 DEF RInv

(***************************************************************************)
(* The theorems.                                                           *)
(***************************************************************************)
LEMMA RInvHolds ==
    ASSUME Recent \in Nat \ {0}, \A ask \in Asks : ask.k \in Nat
    PROVE  Spec => []RInv
<1>1. Init => RInv
  BY InitHolds
<1>2. RInv /\ [Next]_vars => RInv'
  <2> SUFFICES ASSUME RInv, [Next]_vars PROVE RInv'
    OBVIOUS
  <2>1. ASSUME NEW c \in Call, CallStep(c) PROVE RInv'
    BY <2>1, Opening, Searching, LookingUp, LookingFurther, Ranking, Auditing, Recording,
       Degrading DEF CallStep
  <2>2. CASE (\E r \in writing : Put(r)) \/ DropStored \/ Change \/ UNCHANGED vars
    BY <2>2, Around
  <2>3. CASE Crash
    BY <2>3, Crashing
  <2> QED
    BY <2>1, <2>2, <2>3 DEF Next, CallStep
<1> QED
  BY <1>1, <1>2, PTL DEF Spec

(* Whatever the store, the policy and the clock do between the stages of a *)
(* recall (engine.rs recall_inner), every answer is of records that passed *)
(* its own filters when they were read, and no degraded call answers any.  *)
THEOREM AnswersPassFilters ==
    ASSUME Recent \in Nat \ {0}, \A ask \in Asks : ask.k \in Nat
    PROVE  Spec => []AnsweredWasFound
<1>1. RInv => AnsweredWasFound
  <2> SUFFICES ASSUME RInv, NEW c \in Call, At(c, "done"), NEW i \in calls[c].returned
               PROVE  calls[c].copy[i] # None /\ Found(QueryOf(calls[c]), calls[c].copy[i])
    BY DEF AnsweredWasFound
  <2>1. IsFound(calls[c]) /\ IsCut(calls[c])
    BY DEF RInv, CallsSound, Sound, At, Searched, CutStages
  <2> QED
    BY <2>1 DEF IsFound, IsCut
<1> QED
  BY <1>1, RInvHolds, PTL

(* Under a policy that audits reads, an answer has its event, whatever     *)
(* fails or is late (the audit of recall_inner precedes its return).       *)
THEOREM AnswersAreAudited ==
    ASSUME Recent \in Nat \ {0}, \A ask \in Asks : ask.k \in Nat
    PROVE  Spec => []ReadsAudited
<1>1. RInv => ReadsAudited
  BY DEF RInv, EventWritten, ReadsAudited, At
<1> QED
  BY <1>1, RInvHolds, PTL

(* Whatever explanation the ring or the store gives for a recall is of     *)
(* what it answered; a degraded recall has none; the ring stays bounded.   *)
THEOREM ExplanationsAreTrue ==
    ASSUME Recent \in Nat \ {0}, \A ask \in Asks : ask.k \in Nat
    PROVE  Spec => [](ExplainsTheAnswer /\ DegradedIsEmpty /\ RecentBounded)
<1>1. ASSUME RInv PROVE ExplainsTheAnswer
  <2> SUFFICES ASSUME NEW r \in Kept
               PROVE  /\ At(r.call, "done") /\ r = Explanation(r.call)
                      /\ r.returned \cap (r.rank \cup r.budget) = {} /\ r.rank \cap r.budget = {}
                      /\ r.returned \cup r.rank \cup r.budget =
                           calls[r.call].found \cup ToSet(calls[r.call].exact)
    BY DEF ExplainsTheAnswer, Kept
  <2>1. r.call \in Call /\ At(r.call, "done") /\ r = Explanation(r.call)
    BY <1>1 DEF RInv, KeptIsTrue
  <2>2. IsCut(calls[r.call])
    BY <1>1, <2>1 DEF RInv, CallsSound, Sound, At, CutStages
  <2>3. /\ r.returned = calls[r.call].returned /\ r.rank = calls[r.call].rank
        /\ r.budget = calls[r.call].budget
    BY <2>1 DEF Explanation
  <2> QED
    BY <2>1, <2>2, <2>3 DEF IsCut, Hits
<1>2. ASSUME RInv PROVE DegradedIsEmpty
  <2> SUFFICES ASSUME NEW c \in Call, At(c, "degraded")
               PROVE  calls[c].returned = {} /\ \A r \in Kept : r.call # c
    BY DEF DegradedIsEmpty, Kept
  <2>1. Sound(calls[c]) /\ \A r \in Kept : At(r.call, "done")
    BY <1>2 DEF RInv, CallsSound, KeptIsTrue
  <2> QED
    BY <2>1 DEF Sound, At
<1>3. RInv => ExplainsTheAnswer /\ DegradedIsEmpty /\ RecentBounded
  BY <1>1, <1>2 DEF RInv
<1> QED
  BY <1>3, RInvHolds, PTL

-----------------------------------------------------------------------------
(***************************************************************************)
(* Audit: the chain holds at every moment, and a row that is changed in    *)
(* the table afterwards does not pass unnoticed.                           *)
(***************************************************************************)
Table(t) == t = [i \in DOMAIN t |-> t[i]] /\ DOMAIN t \in SUBSET Nat
Above(n, t) == \A i \in DOMAIN t : i < n
HasNewest(t) == DOMAIN t = {} \/ Newest(t) # {}
Good(t) == Table(t) /\ Verified(t) /\ HasNewest(t)
One(n, row) == [i \in {n} |-> row]

TxType ==
    /\ tx = [w \in Writer |-> [pc |-> tx[w].pc, own |-> tx[w].own]]
    /\ \A w \in Writer : tx[w].pc \in Steps

OneHolder == \A v, w \in Writer : tx[v].pc = "locked" /\ tx[w].pc = "locked" => v = w

Pending(w) ==
    /\ Table(tx[w].own) /\ Above(next, tx[w].own)
    /\ tx[w].pc # "locked" => DOMAIN tx[w].own = {}
    /\ tx[w].pc = "locked" => Good(Merge(rows, tx[w].own))
    /\ \A i \in DOMAIN tx[w].own, k \in DOMAIN rows : k < i

ChainInv ==
    /\ next \in Nat /\ clock \in Nat
    /\ Good(rows) /\ Above(next, rows)
    /\ TxType /\ OneHolder
    /\ \A w \in Writer : Pending(w)

LEMMA EmptyTable == Good(NoRows) /\ DOMAIN NoRows = {}
  BY DEF NoRows, Good, Table, Verified, Broken, HasNewest

LEMMA MergeNothing ==
    ASSUME NEW t, Table(t), NEW o, Table(o), DOMAIN o = {} PROVE Merge(t, o) = t
  BY DEF Merge, Table

LEMMA MergeOne ==
    ASSUME NEW t, Table(t), NEW n \in Nat, NEW row, Above(n, t), NEW u, u = Merge(t, One(n, row))
    PROVE  /\ Table(u) /\ DOMAIN u = DOMAIN t \cup {n} /\ u[n] = row
           /\ \A i \in DOMAIN t : u[i] = t[i] /\ i \in Nat /\ i < n
BY DEF Table, Above, Merge, One

(* Appending to a sound log what continues its newest row.                 *)
LEMMA Appended ==
    ASSUME NEW t, Good(t), NEW n \in Nat, Above(n, t), NEW row,
           row.hash = Hash(row.prev, row.at, row.event),
           row.prev \in IF Newest(t) = {} THEN {Genesis} ELSE {t[j].hash : j \in Newest(t)},
           NEW u, u = Merge(t, One(n, row))
    PROVE  Good(u)
<1>1. /\ Table(u) /\ DOMAIN u = DOMAIN t \cup {n} /\ u[n] = row
      /\ \A i \in DOMAIN t : u[i] = t[i] /\ i \in Nat /\ i < n
  <2>1. Table(t)
    BY DEF Good
  <2> QED
    BY <2>1 DEF Table, Above, Merge, One
<1>2. ASSUME NEW i \in DOMAIN t PROVE i \notin Broken(u)
  <2>1. Continues(t, i) /\ t[i].hash = Hash(t[i].prev, t[i].at, t[i].event)
    BY DEF Good, Verified, Broken
  <2>2. CASE First(t, i) /\ t[i].prev = Genesis
    <3>1. First(u, i) /\ u[i].prev = Genesis
      BY <1>1, <2>2 DEF First
    <3> QED
      BY <1>1, <2>1, <3>1 DEF Broken, Continues
  <2>3. ASSUME NEW j \in DOMAIN t, Follows(t, j, i), t[i].prev = t[j].hash
        PROVE i \notin Broken(u)
    <3>1. Follows(u, j, i) /\ u[i].prev = u[j].hash /\ j \in DOMAIN u
      BY <1>1, <2>3 DEF Follows
    <3> QED
      BY <1>1, <2>1, <3>1 DEF Broken, Continues
  <2> QED
    BY <2>1, <2>2, <2>3 DEF Continues
<1>3. n \notin Broken(u)
  <2>1. CASE Newest(t) = {}
    <3>1. DOMAIN t = {} /\ row.prev = Genesis
      BY <2>1 DEF Good, HasNewest
    <3>2. First(u, n)
      BY <1>1, <3>1 DEF First
    <3> QED
      BY <1>1, <3>1, <3>2 DEF Broken, Continues
  <2>2. CASE Newest(t) # {}
    <3>1. PICK j \in Newest(t) : row.prev = t[j].hash
      BY <2>2
    <3>2. j \in DOMAIN t /\ \A k \in DOMAIN t : k <= j
      BY DEF Newest
    <3>3. Follows(u, j, n) /\ u[n].prev = u[j].hash /\ j \in DOMAIN u
      BY <1>1, <3>1, <3>2 DEF Follows
    <3> QED
      BY <1>1, <3>3 DEF Broken, Continues
  <2> QED
    BY <2>1, <2>2
<1>4. Verified(u)
  BY <1>1, <1>2, <1>3 DEF Verified, Broken
<1>5. n \in Newest(u)
  BY <1>1 DEF Newest
<1> QED
  BY <1>1, <1>4, <1>5 DEF Good, HasNewest

LEMMA MergeMerge ==
    ASSUME NEW t, NEW o, Table(t), Table(o), NEW n \in Nat, NEW row
    PROVE  Merge(t, Merge(o, One(n, row))) = Merge(Merge(t, o), One(n, row))
BY DEF Table, Merge, One

LEMMA MergeTable ==
    ASSUME NEW t, Table(t), NEW o, Table(o)
    PROVE  Table(Merge(t, o)) /\ DOMAIN Merge(t, o) = DOMAIN t \cup DOMAIN o
BY DEF Table, Merge

-----------------------------------------------------------------------------
LEMMA ChainInit == AuditInit => ChainInv
<1> SUFFICES ASSUME AuditInit PROVE ChainInv
  OBVIOUS
<1>1. TxType /\ OneHolder /\ \A w \in Writer : tx[w].pc = "idle" /\ tx[w].own = NoRows
  BY DEF AuditInit, TxType, OneHolder, Steps
<1>2. Good(rows) /\ DOMAIN rows = {} /\ next \in Nat /\ clock \in Nat
  BY EmptyTable DEF AuditInit
<1>3. Table(NoRows) /\ DOMAIN NoRows = {}
  BY EmptyTable DEF Good
<1>4. \A w \in Writer : Pending(w)
  BY <1>1, <1>3 DEF Pending, Above
<1> QED
  BY <1>1, <1>2, <1>4 DEF ChainInv, Above

(* A step that only moves one writer, with nothing pending afterwards.     *)
LEMMA Moving ==
    ASSUME ChainInv, NEW w \in Writer, NEW pc \in {"idle", "waiting"},
           tx' = [tx EXCEPT ![w] = [pc |-> pc, own |-> NoRows]],
           UNCHANGED <<clock, rows, next>>
    PROVE  ChainInv'
<1>1. /\ tx'[w].pc = pc /\ tx'[w].own = NoRows
      /\ \A v \in Writer \ {w} : tx'[v] = tx[v]
      /\ TxType'
  BY DEF ChainInv, TxType, Steps
<1>2. OneHolder'
  BY <1>1 DEF ChainInv, OneHolder
<1>3. Table(NoRows) /\ DOMAIN NoRows = {}
  BY EmptyTable DEF Good
<1>4. ASSUME NEW v \in Writer PROVE Pending(v)'
  <2>1. CASE v = w
    BY <1>1, <1>3, <2>1 DEF Pending, Above
  <2>2. CASE v # w
    BY <1>1, <2>2 DEF ChainInv, Pending
  <2> QED
    BY <2>1, <2>2
<1> QED
  BY <1>1, <1>2, <1>4 DEF ChainInv

LEMMA Locking ==
    ASSUME ChainInv, NEW w \in Writer, Lock(w)
    PROVE  ChainInv'
<1>0. tx = [v \in Writer |-> tx[v]] /\ tx[w] = [pc |-> tx[w].pc, own |-> tx[w].own]
  BY DEF ChainInv, TxType
<1>1. /\ tx'[w] = [pc |-> "locked", own |-> tx[w].own]
      /\ \A v \in Writer \ {w} : tx'[v] = tx[v]
      /\ tx' = [v \in Writer |-> tx'[v]] /\ UNCHANGED <<clock, rows, next>>
  BY <1>0 DEF Lock
<1>t. TxType'
  BY <1>0, <1>1 DEF ChainInv, TxType, Steps
<1>2. OneHolder'
  BY <1>1 DEF Lock, OneHolder
<1>3. ASSUME NEW v \in Writer PROVE Pending(v)'
  <2>1. CASE v = w
    <3>1. Table(tx[w].own) /\ DOMAIN tx[w].own = {} /\ Pending(w)
      BY DEF ChainInv, Pending, Lock
    <3>2. Good(Merge(rows, tx[w].own))
      BY <3>1, MergeNothing DEF ChainInv, Good
    <3> QED
      BY <1>1, <2>1, <3>1, <3>2 DEF Pending
  <2>2. CASE v # w
    BY <1>1, <2>2 DEF ChainInv, Pending
  <2> QED
    BY <2>1, <2>2
<1> QED
  BY <1>1, <1>t, <1>2, <1>3 DEF ChainInv

LEMMA Appending ==
    ASSUME ChainInv, NEW w \in Writer, NEW event \in Event, AppendRow(w, event)
    PROVE  ChainInv'
<1> DEFINE seen == Merge(rows, tx[w].own)
<1>1. tx[w].pc = "locked" /\ Pending(w) /\ next \in Nat
  BY DEF ChainInv, AppendRow
<1>2. PICK at \in 0 .. clock :
       \E prev \in IF Newest(seen) = {} THEN {Genesis} ELSE {seen[j].hash : j \in Newest(seen)} :
         tx' = [tx EXCEPT ![w].own =
                  Merge(@, [i \in {next} |-> [at |-> at, event |-> event, prev |-> prev,
                                              hash |-> Hash(prev, at, event)]])]
  BY DEF AppendRow
<1>3. PICK prev \in IF Newest(seen) = {} THEN {Genesis} ELSE {seen[j].hash : j \in Newest(seen)} :
         tx' = [tx EXCEPT ![w].own =
                  Merge(@, [i \in {next} |-> [at |-> at, event |-> event, prev |-> prev,
                                              hash |-> Hash(prev, at, event)]])]
  BY <1>2
<1> DEFINE row == [at |-> at, event |-> event, prev |-> prev, hash |-> Hash(prev, at, event)]
           own == Merge(tx[w].own, One(next, row))
<1>4. /\ tx'[w].pc = "locked" /\ tx'[w].own = own
      /\ \A v \in Writer \ {w} : tx'[v] = tx[v]
      /\ TxType' /\ UNCHANGED <<clock, rows>> /\ next' = next + 1
  BY <1>1, <1>3 DEF ChainInv, TxType, AppendRow, One
<1>5. /\ Table(rows) /\ Table(tx[w].own) /\ Above(next, rows) /\ Above(next, tx[w].own)
      /\ Good(seen)
  BY <1>1 DEF ChainInv, Good, Pending
<1>6. Table(seen) /\ Above(next, seen)
  BY <1>5, MergeTable DEF Above
<1>7. /\ row.hash = Hash(row.prev, row.at, row.event)
      /\ row.prev \in IF Newest(seen) = {} THEN {Genesis} ELSE {seen[j].hash : j \in Newest(seen)}
  BY <1>3
<1> HIDE DEF row
<1>8. Good(Merge(seen, One(next, row)))
  <2> HIDE DEF seen
  <2> QED
    BY <1>1, <1>5, <1>6, <1>7, Appended
<1>9. Good(Merge(rows, own))
  BY <1>1, <1>5, <1>8, MergeMerge
<1>10. Table(own) /\ DOMAIN own = DOMAIN tx[w].own \cup {next}
  <2>1. own = Merge(tx[w].own, One(next, row))
    OBVIOUS
  <2> HIDE DEF own
  <2> QED
    BY <1>1, <1>5, <2>1, MergeOne
<1> HIDE DEF own, seen
<1>11. ASSUME NEW v \in Writer PROVE Pending(v)'
  <2>1. CASE v = w
    <3>1. Above(next + 1, own)
      BY <1>1, <1>5, <1>10 DEF Above, Table
    <3>2. \A i \in DOMAIN own, k \in DOMAIN rows : k < i
      BY <1>1, <1>5, <1>10 DEF Pending, Above
    <3> QED
      BY <1>4, <1>9, <1>10, <2>1, <3>1, <3>2 DEF Pending
  <2>2. CASE v # w
    <3>1. Pending(v) /\ Above(next + 1, tx[v].own)
      BY <1>1 DEF ChainInv, Pending, Above, Table
    <3> QED
      BY <1>4, <2>2, <3>1 DEF Pending
  <2> QED
    BY <2>1, <2>2
<1>12. OneHolder'
  BY <1>1, <1>4 DEF ChainInv, OneHolder
<1>13. Above(next + 1, rows) /\ next + 1 \in Nat
  BY <1>1, <1>5 DEF Above, Table
<1> QED
  BY <1>4, <1>11, <1>12, <1>13 DEF ChainInv

LEMMA Committing ==
    ASSUME ChainInv, NEW w \in Writer, Commit(w)
    PROVE  ChainInv'
<1>1. tx[w].pc = "locked" /\ Pending(w) /\ next \in Nat /\ Good(rows)
  BY DEF ChainInv, Commit
<1>2. /\ tx'[w].pc = "idle" /\ tx'[w].own = NoRows
      /\ \A v \in Writer \ {w} : tx'[v] = tx[v]
      /\ TxType' /\ UNCHANGED <<clock, next>> /\ rows' = Merge(rows, tx[w].own)
  BY DEF ChainInv, TxType, Commit, Steps
<1>3. Table(NoRows) /\ DOMAIN NoRows = {}
  BY EmptyTable DEF Good
<1>4. Good(rows') /\ Above(next, rows')
  <2>1. Good(Merge(rows, tx[w].own)) /\ Table(rows) /\ Table(tx[w].own)
    BY <1>1 DEF Pending, Good
  <2>2. DOMAIN Merge(rows, tx[w].own) = DOMAIN rows \cup DOMAIN tx[w].own
    BY <2>1, MergeTable
  <2> QED
    BY <1>1, <1>2, <2>1, <2>2 DEF ChainInv, Pending, Above
<1>5. ASSUME NEW v \in Writer PROVE Pending(v)'
  <2>1. CASE v = w
    BY <1>2, <1>3, <2>1 DEF Pending, Above
  <2>2. CASE v # w
    <3>1. tx[v].pc # "locked" /\ DOMAIN tx[v].own = {} /\ Pending(v)
      BY <1>1, <2>2 DEF ChainInv, OneHolder, Pending
    <3> QED
      BY <1>2, <2>2, <3>1 DEF Pending, Above
  <2> QED
    BY <2>1, <2>2
<1>6. OneHolder'
  BY <1>2 DEF ChainInv, OneHolder
<1> QED
  BY <1>2, <1>4, <1>5, <1>6 DEF ChainInv

LEMMA ChainStep ==
    ASSUME ChainInv, [AuditNext]_auditVars
    PROVE  ChainInv'
<1>1. ASSUME NEW w \in Writer, BeginTx(w) \/ Fail(w) PROVE ChainInv'
  BY <1>1, Moving DEF BeginTx, Fail
<1>2. ASSUME NEW w \in Writer, Lock(w) PROVE ChainInv'
  BY <1>2, Locking
<1>3. ASSUME NEW w \in Writer, NEW event \in Event, AppendRow(w, event) PROVE ChainInv'
  BY <1>3, Appending
<1>4. ASSUME NEW w \in Writer, Commit(w) PROVE ChainInv'
  BY <1>4, Committing
<1>5. CASE Tick \/ UNCHANGED auditVars
  BY <1>5 DEF Tick, auditVars, ChainInv, TxType, OneHolder, Pending, Above
<1> QED
  BY <1>1, <1>2, <1>3, <1>4, <1>5 DEF AuditNext

LEMMA ChainHolds == AuditSpec => []ChainInv
<1>1. AuditInit => ChainInv
  BY ChainInit
<1>2. ChainInv /\ [AuditNext]_auditVars => ChainInv'
  BY ChainStep
<1> QED
  BY <1>1, <1>2, PTL DEF AuditSpec

(* audit_verify finds no broken row, whenever it runs: transactions that   *)
(* begin, fail and commit in any order leave the numbers and the hashes in *)
(* one order, because the chain's lock is held until the commit.           *)
THEOREM ChainVerifies == AuditSpec => []AlwaysVerifies
<1>1. ChainInv => AlwaysVerifies
  BY DEF ChainInv, Good, AlwaysVerifies
<1> QED
  BY <1>1, ChainHolds, PTL

(* No row of the log is changed, removed or preceded by a later one        *)
(* (audit_in and audit only insert, under the lock).                       *)
THEOREM LogOnlyGrows == AuditSpec => OnlyAppended
<1>1. ASSUME ChainInv, [AuditNext]_auditVars
      PROVE  [\A i \in DOMAIN rows :
                /\ i \in DOMAIN rows' /\ rows'[i] = rows[i]
                /\ \A k \in DOMAIN rows' \ DOMAIN rows : i < k]_rows
  <2>1. ASSUME NEW w \in Writer, Commit(w)
        PROVE  \A i \in DOMAIN rows :
                /\ i \in DOMAIN rows' /\ rows'[i] = rows[i]
                /\ \A k \in DOMAIN rows' \ DOMAIN rows : i < k
    <3>1. /\ rows' = Merge(rows, tx[w].own) /\ Table(rows) /\ Table(tx[w].own)
          /\ \A i \in DOMAIN tx[w].own, k \in DOMAIN rows : k < i
      BY <1>1, <2>1 DEF Commit, ChainInv, Pending, Good
    <3>2. \A k \in DOMAIN rows : k \notin DOMAIN tx[w].own
      BY <3>1 DEF Table
    <3> QED
      BY <3>1, <3>2 DEF Merge
  <2>2. ASSUME NEW w \in Writer, \/ BeginTx(w) \/ Lock(w) \/ Fail(w)
                                 \/ \E event \in Event : AppendRow(w, event)
        PROVE  rows' = rows
    BY <2>2 DEF BeginTx, Lock, Fail, AppendRow
  <2>3. CASE Tick \/ UNCHANGED auditVars
    BY <2>3 DEF Tick, auditVars
  <2> QED
    BY <1>1, <2>1, <2>2, <2>3 DEF AuditNext
<1> QED
  BY <1>1, ChainHolds, PTL DEF AuditSpec, OnlyAppended

(* A row that was changed in the table, in whatever way, its hash made to  *)
(* fit or not, breaks the chain, at itself or at the row that follows it.  *)
THEOREM ChangeIsFound ==
    ASSUME NEW t, Table(t), Verified(t),
           NEW k \in DOMAIN t, NEW i \in DOMAIN t, Follows(t, k, i),
           \A j \in DOMAIN t : DOMAIN t[j] = {"at", "event", "prev", "hash"}
                               /\ t[j] = [x \in DOMAIN t[j] |-> t[j][x]],
           NEW row, row = [x \in {"at", "event", "prev", "hash"} |-> row[x]], row # t[k],
           NEW u, u = [t EXCEPT ![k] = row]
    PROVE  ~Verified(u)
<1> SUFFICES ASSUME Verified(u) PROVE FALSE
  OBVIOUS
<1>1. /\ DOMAIN u = DOMAIN t /\ u[k] = row /\ \A j \in DOMAIN t \ {k} : u[j] = t[j]
      /\ DOMAIN t \in SUBSET Nat /\ k # i
  BY DEF Table, Follows
<1>2. \A j \in DOMAIN t : Continues(t, j) /\ t[j].hash = Hash(t[j].prev, t[j].at, t[j].event)
  BY DEF Verified, Broken
<1>3. \A j \in DOMAIN u : Continues(u, j) /\ u[j].hash = Hash(u[j].prev, u[j].at, u[j].event)
  BY DEF Verified, Broken
<1>4. ASSUME NEW j \in DOMAIN t, Follows(t, j, i) PROVE j = k
  BY <1>1, <1>4 DEF Follows
<1>5. ~First(t, i) /\ ~First(u, i)
  BY <1>1 DEF First, Follows
<1>6. t[i].prev = t[k].hash
  BY <1>2, <1>4, <1>5 DEF Continues
<1>7. u[i].prev = u[k].hash
  <2>1. PICK j \in DOMAIN u : Follows(u, j, i) /\ u[i].prev = u[j].hash
    BY <1>1, <1>3, <1>5 DEF Continues
  <2>2. Follows(t, j, i) /\ j \in DOMAIN t
    BY <1>1, <2>1 DEF Follows
  <2> QED
    BY <1>4, <2>1, <2>2
<1>8. row.hash = t[k].hash
  BY <1>1, <1>6, <1>7
<1>9. Hash(row.prev, row.at, row.event) = Hash(t[k].prev, t[k].at, t[k].event)
  BY <1>1, <1>2, <1>3, <1>8
<1>10. row.prev = t[k].prev /\ row.at = t[k].at /\ row.event = t[k].event
  BY <1>9 DEF Hash
<1> QED
  BY <1>8, <1>10
=============================================================================
