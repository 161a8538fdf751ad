---------------------------- MODULE PolicyProofs ----------------------------
(***************************************************************************)
(* Proofs about what operators change while the service runs.  Behaviour   *)
(* policies: what an operation runs under is kept, compiled under the      *)
(* governance of its process, and picked up in time; and a version is      *)
(* approved once.  The embedding model: the vectors recall compares are of *)
(* one model, and no record loses its vector in a switch.                  *)
(***************************************************************************)
EXTENDS Policy, Reembed, TLAPS

Entries == [policy : Compiled, active : Version \cup {Default},
            age : 0..Refresh, at : 0..MaxActivations]
Tasks == [step : {"idle", "ask", "confirm", "record", "put", "use"},
          active : Version \cup {Default}, at : 0..MaxActivations,
          stall : 0..MaxStall, policy : Compiled]
Calls == [step : {"idle", "record", "activate", "invalidate", "audit"},
          kind : {"none", "approve", "rollback"}, engine : Engine,
          to : Version \cup {Default}]
Activations == [version : Version \cup {Default}, kind : {"approve", "rollback"},
                when : 0..MaxClock]

Types ==
  /\ spec \in [Version -> {"none", "proposed", "approved"}]
  /\ log \in Seq(Activations) /\ Len(log) <= MaxActivations
  /\ recorded \subseteq Compiled
  /\ gov \in [Engine -> Governance]
  /\ cache \in [Engine -> Entries]
  /\ task \in [Task -> Tasks]
  /\ admin \in [Admin -> Calls]
  /\ clock \in 0..MaxClock /\ restarts \in 0..MaxRestarts

Entry(e) == cache[e].policy # NoPolicy

Holding(t) == task[t].step \in {"record", "put", "use"}

(* What is cached was kept, and what a task is about to cache or uses.     *)
Kept ==
  /\ \A e \in Engine : Entry(e) => cache[e].policy \in recorded
  /\ \A t \in Task : task[t].step \in {"put", "use"} => task[t].policy \in recorded

Fits(policy, g) == policy[1] = g /\ policy[2] \in Compiles[g] \cup {Default}

(* What is cached was compiled by the process that caches it, and what one *)
(* of its operations compiled or uses.                                     *)
Governed ==
  /\ \A e \in Engine : Entry(e) => Fits(cache[e].policy, gov[e])
  /\ \A t \in Task : Holding(t) => Fits(task[t].policy, gov[EngineOf[t]])

Approves(i, v) == log[i].version = v /\ log[i].kind = "approve"

(* The log and the statuses agree, and a version is rolled back to by      *)
(* administrators who saw it approved.                                     *)
Ordered ==
  /\ \A v \in Version, i \in 1..Len(log) : log[i].version = v =>
       \E j \in 1..i : Approves(j, v)
  /\ \A v \in Version, i, j \in 1..Len(log) : Approves(i, v) /\ Approves(j, v) => i = j
  /\ \A v \in Version, i \in 1..Len(log) : log[i].version = v => spec[v] = "approved"
  /\ \A v \in Version : spec[v] = "approved" => \E i \in 1..Len(log) : Approves(i, v)
  /\ \A a \in Admin : admin[a].step \in {"record", "activate"} =>
       \/ admin[a].kind = "approve" /\ admin[a].to \in Version
       \/ /\ admin[a].kind = "rollback"
          /\ admin[a].to # Default => spec[admin[a].to] = "approved"

(* A read that had seen `at` activations is at most `ticks` old: the next  *)
(* activation, if there is one, has come since.                            *)
SeenWithin(at, ticks) ==
  at <= Len(log) /\ (at < Len(log) => clock <= log[at + 1].when + ticks)

Recent ==
  /\ \A e \in Engine : Entry(e) /\ cache[e].age < Refresh =>
       SeenWithin(cache[e].at, cache[e].age + MaxStall)
  /\ \A t \in Task : Reading(t) => SeenWithin(task[t].at, task[t].stall)

PolicyInv == Types /\ Kept /\ Governed /\ Ordered /\ Recent

-----------------------------------------------------------------------------
LEMMA Basics ==
    /\ NoPolicy \in Compiled /\ Default \in Version \cup {Default}
    /\ Refresh \in Nat \ {0} /\ MaxStall \in Nat /\ MaxActivations \in Nat
    /\ NoEntry \in Entries /\ Idle \in Tasks /\ NoCall \in Calls
    /\ \A g \in Governance, v \in Version \cup {Default} :
         <<g, v>> \in Compiled /\ <<g, v>> # NoPolicy
<1>1. \A g \in Governance \cup {NoGovernance}, v \in Version \cup {Default} : <<g, v>> \in Compiled
  BY DEF Compiled
<1>2. NoPolicy \in Compiled
  BY <1>1 DEF NoPolicy
<1>3. Refresh \in Nat \ {0} /\ MaxStall \in Nat /\ MaxActivations \in Nat /\ Engine # {}
  BY PolicyAssumption
<1>4. NoEntry \in Entries /\ Idle \in Tasks
  BY <1>2, <1>3 DEF NoEntry, Idle, Entries, Tasks
<1>5. NoCall \in Calls
  <2>1. (CHOOSE e \in Engine : TRUE) \in Engine
    BY <1>3
  <2> QED
    BY <2>1 DEF NoCall, Calls
<1>6. \A g \in Governance, v \in Version \cup {Default} : <<g, v>> # NoPolicy
  BY PolicyAssumption DEF NoPolicy
<1> QED
  BY <1>1, <1>2, <1>3, <1>4, <1>5, <1>6

LEMMA ActiveType == Types => Active \in Version \cup {Default} /\ Len(log) \in Nat
<1> SUFFICES ASSUME Types PROVE Active \in Version \cup {Default} /\ Len(log) \in Nat
  OBVIOUS
<1>1. log \in Seq(Activations)
  BY DEF Types
<1>2. Len(log) \in Nat /\ (log # <<>> => log[Len(log)] \in Activations)
  BY <1>1
<1> QED
  BY <1>2 DEF Active, Activations

-----------------------------------------------------------------------------
(* Types.                                                                  *)

(* Appending an activation.                                                *)
LEMMA Appends ==
    ASSUME Types, NEW a \in Admin, admin[a].step = "activate", admin[a].kind # "none",
           Activates(a)
    PROVE  /\ Len(log) \in Nat /\ Len(log) < MaxActivations
           /\ log' \in Seq(Activations) /\ Len(log') = Len(log) + 1
           /\ \A i \in 1..Len(log) : log'[i] = log[i]
           /\ log'[Len(log) + 1] =
                [version |-> admin[a].to, kind |-> admin[a].kind, when |-> clock]
           /\ admin' \in [Admin -> Calls]
           /\ \A b \in Admin : b # a => admin'[b] = admin[b]
           /\ admin'[a].step \in {"invalidate", "idle"}
<1> DEFINE new == [version |-> admin[a].to, kind |-> admin[a].kind, when |-> clock]
<1>1. log \in Seq(Activations) /\ admin[a] \in Calls /\ admin \in [Admin -> Calls]
      /\ clock \in 0..MaxClock
  BY DEF Types
<1>2. new \in Activations
  BY <1>1 DEF Activations, Calls
<1>3. log' = Append(log, new) /\ Len(log) < MaxActivations
  BY DEF Activates
<1> HIDE DEF new
<1>4. /\ log' \in Seq(Activations) /\ Len(log') = Len(log) + 1 /\ Len(log) \in Nat
      /\ \A i \in 1..Len(log) : log'[i] = log[i]
      /\ log'[Len(log) + 1] = new
  BY <1>1, <1>2, <1>3
<1>5. /\ admin' \in [Admin -> Calls]
      /\ \A b \in Admin : b # a => admin'[b] = admin[b]
      /\ admin'[a].step \in {"invalidate", "idle"}
  <2>1. CASE admin' = [admin EXCEPT ![a].step = "invalidate"]
    BY <1>1, <2>1 DEF Calls
  <2>2. CASE Refused(a)
    <3>1. NoCall \in Calls /\ NoCall.step = "idle"
      BY Basics DEF NoCall
    <3> QED
      BY <1>1, <2>2, <3>1 DEF Refused
  <2> QED
    BY <2>1, <2>2 DEF Activates
<1> QED
  BY <1>3, <1>4, <1>5 DEF new

LEMMA TypeStep == ASSUME Types, Ordered, [Next]_vars PROVE Types'
<1>0. /\ spec \in [Version -> {"none", "proposed", "approved"}]
      /\ log \in Seq(Activations)
      /\ recorded \subseteq Compiled
      /\ gov \in [Engine -> Governance]
      /\ cache \in [Engine -> Entries]
      /\ task \in [Task -> Tasks]
      /\ admin \in [Admin -> Calls]
      /\ clock \in 0..MaxClock /\ restarts \in 0..MaxRestarts
      /\ EngineOf \in [Task -> Engine]
  BY PolicyAssumption DEF Types
<1>b. Len(log) \in Nat /\ Len(log) <= MaxActivations
  BY ActiveType DEF Types
<1>1. ASSUME NEW t \in Task, Begin(t) PROVE task' \in [Task -> Tasks]
  <2> DEFINE e == EngineOf[t]
  <2>1. task[t] \in Tasks /\ cache[e] \in Entries /\ Idle \in Tasks
    BY <1>0, Basics
  <2> DEFINE using == [Idle EXCEPT !.step = "use", !.policy = cache[e].policy, !.at = cache[e].at]
             asking == [Idle EXCEPT !.step = "ask"]
  <2>2. using \in Tasks /\ asking \in Tasks
    BY <2>1 DEF Tasks, Entries
  <2>3. task' = [task EXCEPT ![t] = IF Fresh(e) THEN using ELSE asking]
    BY <1>1 DEF Begin
  <2> HIDE DEF using, asking
  <2> QED
    BY <1>0, <2>2, <2>3
<1>2. ASSUME NEW t \in Task, Ask(t) PROVE task' \in [Task -> Tasks]
  <2>1. task[t] \in Tasks /\ Len(log) \in 0..MaxActivations /\ Active \in Version \cup {Default}
    BY <1>0, <1>b, ActiveType, Basics
  <2> DEFINE new == [task[t] EXCEPT !.step = "confirm", !.active = Active, !.at = Len(log)]
  <2>2. new \in Tasks
    BY <2>1 DEF Tasks
  <2>3. task' = [task EXCEPT ![t] = new]
    BY <1>2, <1>0 DEF Ask
  <2> HIDE DEF new
  <2> QED
    BY <1>0, <2>2, <2>3
<1>c. ASSUME NEW t \in Task, NEW p \in Compiled, NEW n \in 0..MaxActivations, Uses(t, p, n)
      PROVE  task' \in [Task -> Tasks]
  <2> DEFINE new == [Idle EXCEPT !.step = "use", !.policy = p, !.at = n]
  <2>1. new \in Tasks
    BY Basics DEF Tasks
  <2>2. task' = [task EXCEPT ![t] = new]
    BY <1>c DEF Uses
  <2> HIDE DEF new
  <2> QED
    BY <1>0, <2>1, <2>2
<1>3. ASSUME NEW t \in Task, Confirm(t)
      PROVE  task' \in [Task -> Tasks] /\ cache' \in [Engine -> Entries]
  <2> DEFINE e == EngineOf[t]
  <2>1. task[t] \in Tasks /\ cache[e] \in Entries /\ e \in Engine /\ gov[e] \in Governance
    BY <1>0
  <2>2. /\ task[t].at \in 0..MaxActivations /\ cache[e].policy \in Compiled
        /\ task[t].active \in Version \cup {Default}
    BY <2>1 DEF Tasks, Entries
  <2>3. CASE cache[e].policy # NoPolicy /\ cache[e].active = task[t].active
    <3>1. cache' = [cache EXCEPT ![e].age = 0, ![e].at = task[t].at]
          /\ Uses(t, cache[e].policy, task[t].at)
      BY <1>3, <2>3 DEF Confirm
    <3> DEFINE new == [cache[e] EXCEPT !.age = 0, !.at = task[t].at]
    <3>2. new \in Entries
      <4>1. 0 \in 0..Refresh
        BY Basics
      <4> QED
        BY <4>1, <2>1, <2>2 DEF Entries
    <3>3. cache' = [cache EXCEPT ![e] = new]
      BY <3>1, <1>0, <2>1
    <3> HIDE DEF new
    <3>4. cache' \in [Engine -> Entries]
      BY <1>0, <3>2, <3>3
    <3> QED
      BY <3>1, <3>4, <2>2, <1>c
  <2>4. CASE ~(cache[e].policy # NoPolicy /\ cache[e].active = task[t].active)
    <3> DEFINE p == CompiledFor(e, task[t].active)
    <3>1. p \in Compiled
      BY <2>1, <2>2, Basics DEF CompiledFor
    <3>2. task' = [task EXCEPT ![t].step = "record", ![t].policy = p] /\ cache' = cache
      BY <1>3, <2>4 DEF Confirm
    <3> HIDE DEF p
    <3> DEFINE new == [task[t] EXCEPT !.step = "record", !.policy = p]
    <3>3. new \in Tasks
      BY <3>1, <2>1 DEF Tasks
    <3>4. task' = [task EXCEPT ![t] = new]
      BY <3>2, <1>0
    <3> HIDE DEF new
    <3> QED
      BY <1>0, <3>2, <3>3, <3>4
  <2> QED
    BY <2>3, <2>4
<1>4. ASSUME NEW t \in Task, Record(t)
      PROVE  task' \in [Task -> Tasks] /\ recorded' \subseteq Compiled
  <2>1. task[t] \in Tasks
    BY <1>0
  <2> DEFINE new == [task[t] EXCEPT !.step = "put"]
  <2>2. new \in Tasks /\ task[t].policy \in Compiled
    BY <2>1 DEF Tasks
  <2>3. task' = [task EXCEPT ![t] = new] /\ recorded' = recorded \cup {task[t].policy}
    BY <1>4, <1>0 DEF Record
  <2> HIDE DEF new
  <2> QED
    BY <1>0, <2>2, <2>3
<1>5. ASSUME NEW t \in Task, Put(t)
      PROVE  task' \in [Task -> Tasks] /\ cache' \in [Engine -> Entries]
  <2>1. task[t] \in Tasks /\ EngineOf[t] \in Engine
    BY <1>0
  <2>2. /\ task[t].at \in 0..MaxActivations /\ task[t].policy \in Compiled
        /\ task[t].active \in Version \cup {Default}
    BY <2>1 DEF Tasks
  <2> DEFINE new == [policy |-> task[t].policy, active |-> task[t].active, age |-> 0,
                     at |-> task[t].at]
  <2>3. new \in Entries
    BY <2>2, Basics DEF Entries
  <2>4. cache' = [cache EXCEPT ![EngineOf[t]] = new] /\ Uses(t, task[t].policy, task[t].at)
    BY <1>5 DEF Put
  <2> HIDE DEF new
  <2> QED
    BY <1>0, <1>c, <2>1, <2>2, <2>3, <2>4
<1>6. ASSUME NEW t \in Task, End(t) PROVE task' \in [Task -> Tasks]
  BY <1>6, <1>0, Basics DEF End
<1>7. ASSUME NEW v \in Version, Propose(v)
      PROVE  spec' \in [Version -> {"none", "proposed", "approved"}]
  BY <1>7, <1>0 DEF Propose
<1>d. ASSUME NEW a \in Admin, NEW e \in Engine, NEW kind \in {"approve", "rollback"},
             NEW to \in Version \cup {Default}, Starts(a, e, kind, to)
      PROVE  admin' \in [Admin -> Calls]
  <2> DEFINE new == [step |-> "record", kind |-> kind, engine |-> e, to |-> to]
  <2>1. new \in Calls
    BY DEF Calls
  <2>2. admin' = [admin EXCEPT ![a] = new]
    BY <1>d DEF Starts
  <2> HIDE DEF new
  <2> QED
    BY <1>0, <2>1, <2>2
<1>8. ASSUME NEW a \in Admin, NEW e \in Engine, NEW v \in Version, Approve(a, e, v)
      PROVE  admin' \in [Admin -> Calls]
  BY <1>8, <1>d DEF Approve
<1>9. ASSUME NEW a \in Admin, NEW e \in Engine, NEW to \in Version \cup {Default},
             Rollback(a, e, to)
      PROVE  admin' \in [Admin -> Calls]
  BY <1>9, <1>d DEF Rollback
<1>10. ASSUME NEW a \in Admin, AdminRecords(a)
       PROVE  admin' \in [Admin -> Calls] /\ recorded' \subseteq Compiled
  <2>1. admin[a] \in Calls
    BY <1>0
  <2>2. <<gov[admin[a].engine], admin[a].to>> \in Compiled
    BY <2>1, <1>0, Basics DEF Calls
  <2> DEFINE new == [admin[a] EXCEPT !.step = "activate"]
  <2>3. new \in Calls
    BY <2>1 DEF Calls
  <2>4. admin' = [admin EXCEPT ![a] = new]
    BY <1>10, <1>0 DEF AdminRecords
  <2> HIDE DEF new
  <2>5. recorded' = recorded \cup {<<gov[admin[a].engine], admin[a].to>>}
    BY <1>10 DEF AdminRecords
  <2> QED
    BY <1>0, <2>2, <2>3, <2>4, <2>5
<1>e. ASSUME NEW a \in Admin, Refused(a) PROVE admin' \in [Admin -> Calls]
  BY <1>e, <1>0, Basics DEF Refused
<1>11. ASSUME NEW a \in Admin, Activate(a)
       PROVE  /\ admin' \in [Admin -> Calls] /\ log' \in Seq(Activations)
              /\ Len(log') <= MaxActivations
              /\ spec' \in [Version -> {"none", "proposed", "approved"}]
  <2>1. ASSUME admin[a].kind # "none", Activates(a)
        PROVE  admin' \in [Admin -> Calls] /\ log' \in Seq(Activations)
               /\ Len(log') <= MaxActivations
    <3>1. admin[a].step = "activate"
      BY <1>11 DEF Activate
    <3>2. /\ admin' \in [Admin -> Calls] /\ log' \in Seq(Activations)
          /\ Len(log) < MaxActivations /\ Len(log') = Len(log) + 1
      BY <2>1, <3>1, Appends
    <3>3. MaxActivations \in Nat
      BY PolicyAssumption
    <3> QED
      BY <1>b, <3>2, <3>3
  <2>2. CASE admin[a].kind = "rollback" /\ Activates(a) /\ UNCHANGED spec
    <3>1. spec' \in [Version -> {"none", "proposed", "approved"}]
      BY <2>2, <1>0
    <3> QED
      BY <3>1, <2>1, <2>2
  <2>3. CASE admin[a].kind = "approve" /\ Activates(a)
             /\ spec' = [spec EXCEPT ![admin[a].to] = "approved"]
    <3>1. spec' \in [Version -> {"none", "proposed", "approved"}]
      BY <2>3, <1>0
    <3> QED
      BY <3>1, <2>1, <2>3
  <2>4. CASE Refused(a) /\ UNCHANGED <<spec, log>>
    BY <2>4, <1>e, <1>0, <1>b
  <2> QED
    BY <1>11, <2>2, <2>3, <2>4 DEF Activate
<1>12. ASSUME NEW a \in Admin, Invalidate(a)
       PROVE  admin' \in [Admin -> Calls] /\ cache' \in [Engine -> Entries]
  <2>1. admin[a] \in Calls
    BY <1>0
  <2> DEFINE new == [admin[a] EXCEPT !.step = "audit"]
  <2>3. new \in Calls /\ admin[a].engine \in Engine
    BY <2>1 DEF Calls
  <2>4. admin' = [admin EXCEPT ![a] = new] /\ cache' = [cache EXCEPT ![admin[a].engine] = NoEntry]
    BY <1>12, <1>0 DEF Invalidate
  <2> HIDE DEF new
  <2> QED
    BY <1>0, <2>3, <2>4, Basics
<1>13. ASSUME NEW e \in Engine, NEW g \in Governance, Restart(e, g)
       PROVE  /\ restarts' \in 0..MaxRestarts /\ gov' \in [Engine -> Governance]
              /\ cache' \in [Engine -> Entries] /\ task' \in [Task -> Tasks]
              /\ admin' \in [Admin -> Calls]
  <2>1. restarts' \in 0..MaxRestarts /\ gov' \in [Engine -> Governance]
    BY <1>13, <1>0, PolicyAssumption DEF Restart
  <2>2. cache' \in [Engine -> Entries]
    BY <1>13, <1>0, Basics DEF Restart
  <2>3. task' \in [Task -> Tasks]
    BY <1>13, <1>0, Basics DEF Restart
  <2>4. admin' \in [Admin -> Calls]
    BY <1>13, <1>0, Basics DEF Restart
  <2> QED
    BY <2>1, <2>2, <2>3, <2>4
<1>14. ASSUME Tick
       PROVE  clock' \in 0..MaxClock /\ cache' \in [Engine -> Entries] /\ task' \in [Task -> Tasks]
  <2>1. clock' \in 0..MaxClock
    BY <1>14, <1>0, PolicyAssumption DEF Tick
  <2>2. cache' \in [Engine -> Entries]
    <3>1. ASSUME NEW e \in Engine
          PROVE  [cache[e] EXCEPT !.age = IF @ < Refresh THEN @ + 1 ELSE @] \in Entries
      <4>1. cache[e] \in Entries
        BY <1>0
      <4> QED
        BY <4>1, Basics DEF Entries
    <3> QED
      BY <1>14, <3>1 DEF Tick
  <2>3. task' \in [Task -> Tasks]
    <3>1. ASSUME NEW t \in Task, Reading(t)
          PROVE  [task[t] EXCEPT !.stall = @ + 1] \in Tasks
      <4>1. task[t] \in Tasks /\ task[t].stall < MaxStall
        BY <1>0, <1>14, <3>1 DEF Tick
      <4> QED
        BY <4>1, Basics DEF Tasks
    <3> QED
      BY <1>14, <1>0, <3>1 DEF Tick
  <2> QED
    BY <2>1, <2>2, <2>3
<1> QED
  <2>1. CASE UNCHANGED vars
    BY <2>1, <1>0, <1>b DEF vars, Types
  <2>2. ASSUME NEW t \in Task PROVE Begin(t) => Types'
    BY <1>0, <1>b, <1>1 DEF Begin, Types
  <2>3. ASSUME NEW t \in Task PROVE Ask(t) => Types'
    BY <1>0, <1>b, <1>2 DEF Ask, Types
  <2>4. ASSUME NEW t \in Task PROVE Confirm(t) => Types'
    BY <1>0, <1>b, <1>3 DEF Confirm, Types
  <2>5. ASSUME NEW t \in Task PROVE Record(t) => Types'
    BY <1>0, <1>b, <1>4 DEF Record, Types
  <2>6. ASSUME NEW t \in Task PROVE Put(t) => Types'
    BY <1>0, <1>b, <1>5 DEF Put, Types
  <2>7. ASSUME NEW t \in Task PROVE End(t) => Types'
    BY <1>0, <1>b, <1>6 DEF End, Types
  <2>8. ASSUME NEW v \in Version PROVE Propose(v) => Types'
    BY <1>0, <1>b, <1>7 DEF Propose, Types
  <2>9. ASSUME NEW a \in Admin, NEW e \in Engine, NEW v \in Version
        PROVE  Approve(a, e, v) => Types'
    BY <1>0, <1>b, <1>8 DEF Approve, Types
  <2>10. ASSUME NEW a \in Admin, NEW e \in Engine, NEW to \in Version \cup {Default}
         PROVE  Rollback(a, e, to) => Types'
    BY <1>0, <1>b, <1>9 DEF Rollback, Types
  <2>11. ASSUME NEW a \in Admin PROVE AdminRecords(a) => Types'
    BY <1>0, <1>b, <1>10 DEF AdminRecords, Types
  <2>12. ASSUME NEW a \in Admin PROVE Activate(a) => Types'
    BY <1>0, <1>b, <1>11 DEF Activate, Types
  <2>13. ASSUME NEW a \in Admin PROVE Invalidate(a) => Types'
    BY <1>0, <1>b, <1>12 DEF Invalidate, Types
  <2>14. ASSUME NEW a \in Admin PROVE Audit(a) => Types'
    BY <1>0, <1>b, <1>e DEF Audit, Types
  <2>15. ASSUME NEW a \in Admin PROVE AdminFails(a) => Types'
    BY <1>0, <1>b, <1>e DEF AdminFails, Types
  <2>16. ASSUME NEW e \in Engine, NEW g \in Governance PROVE Restart(e, g) => Types'
    BY <1>0, <1>b, <1>13 DEF Restart, Types
  <2>17. Tick => Types'
    BY <1>0, <1>b, <1>14 DEF Tick, Types
  <2> QED
    BY <2>1, <2>2, <2>3, <2>4, <2>5, <2>6, <2>7, <2>8, <2>9, <2>10, <2>11, <2>12, <2>13, <2>14,
       <2>15, <2>16, <2>17 DEF Next

-----------------------------------------------------------------------------
(* What the steps do to the tasks and to the cache.                        *)

Others(t) == \A u \in Task : u # t => task'[u] = task[u]

OtherEntries(e) == \A d \in Engine : d # e => cache'[d] = cache[d]

LEMMA UsesDoes ==
    ASSUME Types, NEW t \in Task, NEW p, NEW n, Uses(t, p, n)
    PROVE  Others(t) /\ task'[t].step = "use" /\ task'[t].policy = p /\ task'[t].at = n
<1> DEFINE new == [Idle EXCEPT !.step = "use", !.policy = p, !.at = n]
<1>1. new.step = "use" /\ new.policy = p /\ new.at = n
  BY DEF Idle
<1>2. task' = [task EXCEPT ![t] = new]
  BY DEF Uses
<1> HIDE DEF new
<1> QED
  BY <1>1, <1>2 DEF Types, Others

LEMMA BeginDoes ==
    ASSUME Types, NEW t \in Task, Begin(t)
    PROVE  /\ Others(t) /\ UNCHANGED <<spec, log, recorded, gov, cache, admin, clock>>
           /\ \/ task'[t].step = "ask"
              \/ /\ task'[t].step = "use" /\ Fresh(EngineOf[t])
                 /\ task'[t].policy = cache[EngineOf[t]].policy
                 /\ task'[t].at = cache[EngineOf[t]].at
<1> DEFINE e == EngineOf[t]
           using == [Idle EXCEPT !.step = "use", !.policy = cache[e].policy, !.at = cache[e].at]
           asking == [Idle EXCEPT !.step = "ask"]
<1>1. using.step = "use" /\ using.policy = cache[e].policy /\ using.at = cache[e].at
  BY DEF Idle
<1>2. asking.step = "ask"
  BY DEF Idle
<1>3. task' = [task EXCEPT ![t] = IF Fresh(e) THEN using ELSE asking]
  BY DEF Begin
<1> HIDE DEF using, asking
<1>4. task'[t] = IF Fresh(e) THEN using ELSE asking
  BY <1>3 DEF Types
<1>5. Others(t)
  BY <1>3 DEF Others, Types
<1>6. UNCHANGED <<spec, log, recorded, gov, cache, admin, clock>>
  BY DEF Begin
<1> QED
  BY <1>1, <1>2, <1>4, <1>5, <1>6

LEMMA AskDoes ==
    ASSUME Types, NEW t \in Task, Ask(t)
    PROVE  /\ Others(t) /\ UNCHANGED <<spec, log, recorded, gov, cache, admin, clock>>
           /\ task[t].step = "ask" /\ task'[t].step = "confirm" /\ task'[t].at = Len(log)
           /\ task'[t].stall = task[t].stall
  BY DEF Ask, Types, Others, Tasks

LEMMA RecordDoes ==
    ASSUME Types, NEW t \in Task, Record(t)
    PROVE  /\ Others(t) /\ UNCHANGED <<spec, log, gov, cache, admin, clock>>
           /\ recorded' = recorded \cup {task[t].policy}
           /\ task[t].step = "record" /\ task'[t].step = "put"
           /\ task'[t].at = task[t].at /\ task'[t].stall = task[t].stall
           /\ task'[t].policy = task[t].policy
  BY DEF Record, Types, Others, Tasks

LEMMA ConfirmDoes ==
    ASSUME Types, NEW t \in Task, Confirm(t), NEW e \in Engine, e = EngineOf[t]
    PROVE  /\ Others(t) /\ UNCHANGED <<spec, log, recorded, gov, admin, clock>>
           /\ task[t].step = "confirm"
           /\ \/ /\ Entry(e) /\ OtherEntries(e)
                 /\ cache'[e].policy = cache[e].policy
                 /\ cache'[e].age = 0 /\ cache'[e].at = task[t].at
                 /\ task'[t].step = "use" /\ task'[t].policy = cache[e].policy
                 /\ task'[t].at = task[t].at
              \/ /\ cache' = cache
                 /\ task'[t].step = "record" /\ task'[t].policy = CompiledFor(e, task[t].active)
                 /\ task'[t].at = task[t].at /\ task'[t].stall = task[t].stall
<1>1. CASE cache[e].policy # NoPolicy /\ cache[e].active = task[t].active
  <2>1. cache' = [cache EXCEPT ![e].age = 0, ![e].at = task[t].at]
        /\ Uses(t, cache[e].policy, task[t].at) /\ task[t].step = "confirm"
        /\ UNCHANGED <<spec, log, recorded, gov, admin, clock>>
    BY <1>1 DEF Confirm
  <2>2. /\ cache'[e].policy = cache[e].policy /\ cache'[e].age = 0
        /\ cache'[e].at = task[t].at /\ OtherEntries(e)
    BY <2>1 DEF Types, Entries, OtherEntries
  <2> QED
    BY <1>1, <2>1, <2>2, UsesDoes DEF Entry
<1>2. CASE ~(cache[e].policy # NoPolicy /\ cache[e].active = task[t].active)
  <2> DEFINE p == CompiledFor(e, task[t].active)
  <2>1. task' = [task EXCEPT ![t].step = "record", ![t].policy = p] /\ cache' = cache
        /\ task[t].step = "confirm" /\ UNCHANGED <<spec, log, recorded, gov, admin, clock>>
    BY <1>2 DEF Confirm
  <2> HIDE DEF p
  <2>2. /\ Others(t) /\ task'[t].step = "record" /\ task'[t].policy = p
        /\ task'[t].at = task[t].at /\ task'[t].stall = task[t].stall
    BY <2>1 DEF Types, Tasks, Others
  <2> QED
    BY <2>1, <2>2 DEF p
<1> QED
  BY <1>1, <1>2

LEMMA PutDoes ==
    ASSUME Types, NEW t \in Task, Put(t), NEW e \in Engine, e = EngineOf[t]
    PROVE  /\ Others(t) /\ OtherEntries(e) /\ task[t].step = "put"
           /\ UNCHANGED <<spec, log, recorded, gov, admin, clock>>
           /\ cache'[e].policy = task[t].policy
           /\ cache'[e].age = 0 /\ cache'[e].at = task[t].at
           /\ task'[t].step = "use" /\ task'[t].policy = task[t].policy
           /\ task'[t].at = task[t].at
<1> DEFINE new == [policy |-> task[t].policy, active |-> task[t].active, age |-> 0,
                   at |-> task[t].at]
<1>1. new.policy = task[t].policy /\ new.age = 0 /\ new.at = task[t].at
  OBVIOUS
<1>2. cache' = [cache EXCEPT ![e] = new] /\ Uses(t, task[t].policy, task[t].at)
      /\ task[t].step = "put" /\ UNCHANGED <<spec, log, recorded, gov, admin, clock>>
  BY DEF Put
<1> HIDE DEF new
<1>3. cache'[e] = new /\ OtherEntries(e)
  BY <1>2 DEF Types, OtherEntries
<1> QED
  BY <1>1, <1>2, <1>3, UsesDoes

LEMMA EndDoes ==
    ASSUME Types, NEW t \in Task, End(t)
    PROVE  /\ Others(t) /\ UNCHANGED <<spec, log, recorded, gov, cache, admin, clock>>
           /\ task'[t].step = "idle"
  BY DEF End, Types, Others, Idle

LEMMA InvalidateDoes ==
    ASSUME Types, NEW a \in Admin, Invalidate(a)
    PROVE  /\ UNCHANGED <<spec, log, recorded, gov, task, clock>>
           /\ \A e \in Engine : cache'[e] = cache[e] \/ cache'[e] = NoEntry
           /\ \A b \in Admin : admin'[b] = admin[b] \/ admin'[b].step = "audit"
  BY DEF Invalidate, Types, Calls

LEMMA RestartDoes ==
    ASSUME Types, NEW d \in Engine, NEW g \in Governance, Restart(d, g)
    PROVE  /\ UNCHANGED <<spec, log, recorded, clock>>
           /\ \A e \in Engine :
                \/ cache'[e] = NoEntry
                \/ cache'[e] = cache[e] /\ gov'[e] = gov[e]
           /\ \A t \in Task :
                \/ task'[t] = Idle
                \/ task'[t] = task[t] /\ gov'[EngineOf[t]] = gov[EngineOf[t]]
           /\ \A a \in Admin : admin'[a] = NoCall \/ admin'[a] = admin[a]
<1>1. EngineOf \in [Task -> Engine]
  BY PolicyAssumption
<1> QED
  BY <1>1 DEF Restart, Types

LEMMA TickDoes ==
    ASSUME Types, Tick
    PROVE  /\ UNCHANGED <<spec, log, recorded, gov, admin>>
           /\ clock \in Nat /\ clock' = clock + 1
           /\ \A e \in Engine :
                /\ cache'[e].policy = cache[e].policy /\ cache'[e].at = cache[e].at
                /\ cache'[e].age < Refresh =>
                     cache[e].age < Refresh /\ cache'[e].age = cache[e].age + 1
           /\ \A t \in Task :
                /\ task'[t].step = task[t].step /\ task'[t].policy = task[t].policy
                /\ task'[t].at = task[t].at
                /\ Reading(t) => task'[t].stall = task[t].stall + 1
<1>1. UNCHANGED <<spec, log, recorded, gov, admin>> /\ clock \in Nat /\ clock' = clock + 1
  BY PolicyAssumption DEF Tick, Types
<1>2. ASSUME NEW e \in Engine
      PROVE  /\ cache'[e].policy = cache[e].policy /\ cache'[e].at = cache[e].at
             /\ cache'[e].age < Refresh =>
                  cache[e].age < Refresh /\ cache'[e].age = cache[e].age + 1
  <2>1. cache[e] \in Entries
    BY DEF Types
  <2>2. cache'[e] = [cache[e] EXCEPT !.age = IF @ < Refresh THEN @ + 1 ELSE @]
    BY DEF Tick
  <2> QED
    BY <2>1, <2>2 DEF Entries
<1>3. ASSUME NEW t \in Task
      PROVE  /\ task'[t].step = task[t].step /\ task'[t].policy = task[t].policy
             /\ task'[t].at = task[t].at
             /\ Reading(t) => task'[t].stall = task[t].stall + 1
  <2>1. task[t] \in Tasks
    BY DEF Types
  <2>2. task'[t] = IF Reading(t) THEN [task[t] EXCEPT !.stall = @ + 1] ELSE task[t]
    BY DEF Tick
  <2> QED
    BY <2>1, <2>2 DEF Tasks
<1> QED
  BY <1>1, <1>2, <1>3

-----------------------------------------------------------------------------
(* What runs is kept.                                                      *)

LEMMA KeptStep == ASSUME Types, Kept, [Next]_vars PROVE Kept'
<1>0. /\ \A e \in Engine : Entry(e) => cache[e].policy \in recorded
      /\ \A t \in Task : task[t].step \in {"put", "use"} => task[t].policy \in recorded
      /\ EngineOf \in [Task -> Engine]
  BY PolicyAssumption DEF Kept
<1> USE DEF Entry
<1>a. ASSUME UNCHANGED <<cache, task>>, recorded \subseteq recorded' PROVE Kept'
  BY <1>a, <1>0 DEF Kept
<1>1. ASSUME NEW t \in Task, Begin(t) PROVE Kept'
  BY <1>0, <1>1, BeginDoes DEF Kept, Others, Fresh
<1>2. ASSUME NEW t \in Task, Ask(t) PROVE Kept'
  BY <1>0, <1>2, AskDoes DEF Kept, Others
<1>3. ASSUME NEW t \in Task, Confirm(t) PROVE Kept'
  BY <1>0, <1>3, ConfirmDoes DEF Kept, Others, OtherEntries
<1>4. ASSUME NEW t \in Task, Record(t) PROVE Kept'
  BY <1>0, <1>4, RecordDoes DEF Kept, Others
<1>5. ASSUME NEW t \in Task, Put(t) PROVE Kept'
  BY <1>0, <1>5, PutDoes DEF Kept, Others, OtherEntries
<1>6. ASSUME NEW t \in Task, End(t) PROVE Kept'
  BY <1>0, <1>6, EndDoes DEF Kept, Others
<1>7. ASSUME NEW v \in Version, Propose(v) PROVE Kept'
  BY <1>a, <1>7 DEF Propose
<1>8. ASSUME NEW a \in Admin, NEW e \in Engine, NEW v \in Version, Approve(a, e, v) PROVE Kept'
  BY <1>a, <1>8 DEF Approve
<1>9. ASSUME NEW a \in Admin, NEW e \in Engine, NEW to \in Version \cup {Default},
             Rollback(a, e, to)
      PROVE  Kept'
  BY <1>a, <1>9 DEF Rollback
<1>10. ASSUME NEW a \in Admin, AdminRecords(a) PROVE Kept'
  BY <1>a, <1>10 DEF AdminRecords
<1>11. ASSUME NEW a \in Admin, Activate(a) PROVE Kept'
  BY <1>a, <1>11 DEF Activate
<1>12. ASSUME NEW a \in Admin, Invalidate(a) PROVE Kept'
  BY <1>0, <1>12, InvalidateDoes DEF Kept, NoEntry
<1>13. ASSUME NEW a \in Admin, Audit(a) \/ AdminFails(a) PROVE Kept'
  BY <1>a, <1>13 DEF Audit, AdminFails
<1>14. ASSUME NEW e \in Engine, NEW g \in Governance, Restart(e, g) PROVE Kept'
  BY <1>0, <1>14, RestartDoes DEF Kept, NoEntry, Idle
<1>15. ASSUME Tick PROVE Kept'
  BY <1>0, <1>15, TickDoes DEF Kept
<1>16. ASSUME UNCHANGED vars PROVE Kept'
  BY <1>a, <1>16 DEF vars
<1> QED
  BY <1>1, <1>2, <1>3, <1>4, <1>5, <1>6, <1>7, <1>8, <1>9, <1>10, <1>11, <1>12, <1>13, <1>14,
     <1>15, <1>16 DEF Next

-----------------------------------------------------------------------------
(* What runs was compiled under the governance of its process.             *)

LEMMA CompiledFits ==
    ASSUME Types, NEW e \in Engine, NEW v PROVE Fits(CompiledFor(e, v), gov[e])
  BY DEF CompiledFor, Fits

LEMMA GovernedStep == ASSUME Types, Governed, [Next]_vars PROVE Governed'
<1>0. /\ \A e \in Engine : Entry(e) => Fits(cache[e].policy, gov[e])
      /\ \A t \in Task : Holding(t) => Fits(task[t].policy, gov[EngineOf[t]])
      /\ EngineOf \in [Task -> Engine]
  BY PolicyAssumption DEF Governed
<1> USE DEF Entry, Holding
<1>a. ASSUME UNCHANGED <<cache, task, gov>> PROVE Governed'
  BY <1>a, <1>0 DEF Governed
<1>1. ASSUME NEW t \in Task, Begin(t) PROVE Governed'
  BY <1>0, <1>1, BeginDoes DEF Governed, Others, Fresh
<1>2. ASSUME NEW t \in Task, Ask(t) PROVE Governed'
  BY <1>0, <1>2, AskDoes DEF Governed, Others
<1>3. ASSUME NEW t \in Task, Confirm(t) PROVE Governed'
  BY <1>0, <1>3, ConfirmDoes, CompiledFits DEF Governed, Others, OtherEntries
<1>4. ASSUME NEW t \in Task, Record(t) PROVE Governed'
  BY <1>0, <1>4, RecordDoes DEF Governed, Others
<1>5. ASSUME NEW t \in Task, Put(t) PROVE Governed'
  BY <1>0, <1>5, PutDoes DEF Governed, Others, OtherEntries
<1>6. ASSUME NEW t \in Task, End(t) PROVE Governed'
  BY <1>0, <1>6, EndDoes DEF Governed, Others
<1>7. ASSUME NEW v \in Version, Propose(v) PROVE Governed'
  BY <1>a, <1>7 DEF Propose
<1>8. ASSUME NEW a \in Admin, NEW e \in Engine, NEW v \in Version, Approve(a, e, v)
      PROVE  Governed'
  BY <1>a, <1>8 DEF Approve
<1>9. ASSUME NEW a \in Admin, NEW e \in Engine, NEW to \in Version \cup {Default},
             Rollback(a, e, to)
      PROVE  Governed'
  BY <1>a, <1>9 DEF Rollback
<1>10. ASSUME NEW a \in Admin, AdminRecords(a) PROVE Governed'
  BY <1>a, <1>10 DEF AdminRecords
<1>11. ASSUME NEW a \in Admin, Activate(a) PROVE Governed'
  BY <1>a, <1>11 DEF Activate
<1>12. ASSUME NEW a \in Admin, Invalidate(a) PROVE Governed'
  BY <1>0, <1>12, InvalidateDoes DEF Governed, NoEntry
<1>13. ASSUME NEW a \in Admin, Audit(a) \/ AdminFails(a) PROVE Governed'
  BY <1>a, <1>13 DEF Audit, AdminFails
<1>14. ASSUME NEW e \in Engine, NEW g \in Governance, Restart(e, g) PROVE Governed'
  BY <1>0, <1>14, RestartDoes DEF Governed, NoEntry, Idle
<1>15. ASSUME Tick PROVE Governed'
  BY <1>0, <1>15, TickDoes DEF Governed
<1>16. ASSUME UNCHANGED vars PROVE Governed'
  BY <1>a, <1>16 DEF vars
<1> QED
  BY <1>1, <1>2, <1>3, <1>4, <1>5, <1>6, <1>7, <1>8, <1>9, <1>10, <1>11, <1>12, <1>13, <1>14,
     <1>15, <1>16 DEF Next

-----------------------------------------------------------------------------
(* What was read is not older than its age and the slowest refresh.        *)

(* An activation that follows what was seen comes no sooner than now.      *)
LEMMA SeenOnAppend ==
    ASSUME Types, NEW a \in Admin, admin[a].step = "activate", admin[a].kind # "none",
           Activates(a), UNCHANGED clock,
           NEW at \in Nat, NEW ticks \in Nat, SeenWithin(at, ticks)
    PROVE  SeenWithin(at, ticks)'
<1>1. /\ Len(log) \in Nat /\ Len(log') = Len(log) + 1
      /\ \A i \in 1..Len(log) : log'[i] = log[i]
      /\ log'[Len(log) + 1] =
           [version |-> admin[a].to, kind |-> admin[a].kind, when |-> clock]
  BY Appends
<1>2. log'[Len(log) + 1].when = clock /\ clock \in Nat
  BY <1>1, PolicyAssumption DEF Types
<1>3. CASE at = Len(log)
  BY <1>1, <1>2, <1>3 DEF SeenWithin
<1>4. CASE at < Len(log)
  <2>1. log'[at + 1] = log[at + 1]
    BY <1>1, <1>4
  <2> QED
    BY <1>1, <1>4, <2>1 DEF SeenWithin
<1> QED
  BY <1>1, <1>3, <1>4 DEF SeenWithin

LEMMA SeenLonger ==
    ASSUME Types, NEW at \in Nat, NEW m \in Nat, NEW n \in Nat, m <= n, SeenWithin(at, m)
    PROVE  SeenWithin(at, n)
<1>1. at < Len(log) => log[at + 1].when \in Nat
  <2>1. log \in Seq(Activations) /\ Len(log) \in Nat
    BY ActiveType DEF Types
  <2>2. at < Len(log) => log[at + 1] \in Activations
    BY <2>1
  <2> QED
    BY <2>2, PolicyAssumption DEF Activations
<1> QED
  BY <1>1, PolicyAssumption DEF SeenWithin, Types

LEMMA SeenOnTick ==
    ASSUME Types, clock' = clock + 1, log' = log, NEW at \in Nat, NEW ticks \in Nat,
           SeenWithin(at, ticks)
    PROVE  SeenWithin(at, ticks + 1)'
<1>1. at < Len(log) => log[at + 1].when \in Nat
  <2>1. log \in Seq(Activations) /\ Len(log) \in Nat
    BY ActiveType DEF Types
  <2>2. at < Len(log) => log[at + 1] \in Activations
    BY <2>1
  <2> QED
    BY <2>2, PolicyAssumption DEF Activations
<1>2. clock \in Nat
  BY PolicyAssumption DEF Types
<1> QED
  BY <1>1, <1>2 DEF SeenWithin

LEMMA Numbers ==
    Types => /\ MaxStall \in Nat /\ Refresh \in Nat
             /\ \A e \in Engine : cache[e].at \in Nat /\ cache[e].age \in Nat
             /\ \A t \in Task : /\ task[t].at \in Nat /\ task[t].stall \in Nat
                                /\ task[t].stall <= MaxStall
<1> SUFFICES ASSUME Types PROVE /\ \A e \in Engine : cache[e].at \in Nat /\ cache[e].age \in Nat
                                /\ \A t \in Task : /\ task[t].at \in Nat /\ task[t].stall \in Nat
                                                   /\ task[t].stall <= MaxStall
  BY PolicyAssumption
<1>1. ASSUME NEW e \in Engine PROVE cache[e].at \in Nat /\ cache[e].age \in Nat
  <2>1. cache[e] \in Entries
    BY DEF Types
  <2> QED
    BY <2>1, PolicyAssumption DEF Entries
<1>2. ASSUME NEW t \in Task
      PROVE  task[t].at \in Nat /\ task[t].stall \in Nat /\ task[t].stall <= MaxStall
  <2>1. task[t] \in Tasks
    BY DEF Types
  <2> QED
    BY <2>1, PolicyAssumption DEF Tasks
<1> QED
  BY <1>1, <1>2

LEMMA RecentStep == ASSUME Types, Ordered, Recent, [Next]_vars PROVE Recent'
<1>0. /\ \A e \in Engine : Entry(e) /\ cache[e].age < Refresh =>
           SeenWithin(cache[e].at, cache[e].age + MaxStall)
      /\ \A t \in Task : Reading(t) => SeenWithin(task[t].at, task[t].stall)
      /\ EngineOf \in [Task -> Engine]
  BY PolicyAssumption DEF Recent
<1>n. /\ MaxStall \in Nat /\ Refresh \in Nat
      /\ \A e \in Engine : cache[e].at \in Nat /\ cache[e].age \in Nat
      /\ \A t \in Task : task[t].at \in Nat /\ task[t].stall \in Nat /\ task[t].stall <= MaxStall
  BY Numbers
<1>m. Len(log) \in Nat
  BY ActiveType
<1> USE DEF Entry, Reading
<1>a. ASSUME UNCHANGED <<cache, task, log, clock>> PROVE Recent'
  BY <1>a, <1>0 DEF Recent, SeenWithin
<1>1. ASSUME NEW t \in Task, Begin(t) PROVE Recent'
  BY <1>0, <1>1, BeginDoes DEF Recent, SeenWithin, Others
<1>2. ASSUME NEW t \in Task, Ask(t) PROVE Recent'
  BY <1>0, <1>m, <1>2, AskDoes DEF Recent, SeenWithin, Others
<1>f. ASSUME NEW t \in Task, Reading(t), NEW e \in Engine,
             UNCHANGED <<log, clock>>, OtherEntries(e), cache'[e].age = 0,
             cache'[e].at = task[t].at, Others(t), task'[t].step = "use"
      PROVE  Recent'
  <2>1. SeenWithin(task[t].at, 0 + MaxStall)
    BY <1>0, <1>n, <1>f, SeenLonger
  <2> QED
    BY <1>0, <1>f, <2>1 DEF Recent, SeenWithin, Others, OtherEntries
<1>3. ASSUME NEW t \in Task, Confirm(t) PROVE Recent'
  <2> DEFINE e == EngineOf[t]
  <2>1. /\ Others(t) /\ UNCHANGED <<log, clock>> /\ task[t].step = "confirm" /\ e \in Engine
        /\ \/ /\ OtherEntries(e) /\ cache'[e].age = 0 /\ cache'[e].at = task[t].at
              /\ task'[t].step = "use"
           \/ /\ cache' = cache /\ task'[t].at = task[t].at /\ task'[t].stall = task[t].stall
    BY <1>0, <1>3, ConfirmDoes
  <2>2. CASE cache' = cache /\ task'[t].at = task[t].at /\ task'[t].stall = task[t].stall
    BY <1>0, <2>1, <2>2 DEF Recent, SeenWithin, Others
  <2> QED
    BY <1>f, <2>1, <2>2
<1>4. ASSUME NEW t \in Task, Record(t) PROVE Recent'
  BY <1>0, <1>4, RecordDoes DEF Recent, SeenWithin, Others
<1>5. ASSUME NEW t \in Task, Put(t) PROVE Recent'
  BY <1>0, <1>f, <1>5, PutDoes
<1>6. ASSUME NEW t \in Task, End(t) PROVE Recent'
  BY <1>0, <1>6, EndDoes DEF Recent, SeenWithin, Others
<1>7. ASSUME NEW v \in Version, Propose(v) PROVE Recent'
  BY <1>a, <1>7 DEF Propose
<1>8. ASSUME NEW a \in Admin, NEW e \in Engine, NEW v \in Version, Approve(a, e, v)
      PROVE  Recent'
  BY <1>a, <1>8 DEF Approve
<1>9. ASSUME NEW a \in Admin, NEW e \in Engine, NEW to \in Version \cup {Default},
             Rollback(a, e, to)
      PROVE  Recent'
  BY <1>a, <1>9 DEF Rollback
<1>10. ASSUME NEW a \in Admin, AdminRecords(a) PROVE Recent'
  BY <1>a, <1>10 DEF AdminRecords
<1>11. ASSUME NEW a \in Admin, Activate(a) PROVE Recent'
  <2>1. admin[a].step = "activate" /\ UNCHANGED <<cache, task, clock>>
    BY <1>11 DEF Activate
  <2>2. CASE admin[a].kind # "none" /\ Activates(a)
    <3>1. ASSUME NEW at \in Nat, NEW ticks \in Nat, SeenWithin(at, ticks)
          PROVE  SeenWithin(at, ticks)'
      BY <2>1, <2>2, <3>1, SeenOnAppend
    <3>2. ASSUME NEW e \in Engine, Entry(e), cache[e].age < Refresh
          PROVE  SeenWithin(cache[e].at, cache[e].age + MaxStall)'
      <4>0. cache[e].at \in Nat /\ cache[e].age + MaxStall \in Nat
        BY <1>n
      <4>1. PICK at \in Nat, ticks \in Nat : at = cache[e].at /\ ticks = cache[e].age + MaxStall
        BY ONLY <4>0, Zenon
      <4>2. SeenWithin(at, ticks)'
        BY <1>0, <3>1, <3>2, <4>1
      <4> QED
        BY <2>1, <4>1, <4>2
    <3>3. ASSUME NEW t \in Task, Reading(t)
          PROVE  SeenWithin(task[t].at, task[t].stall)'
      <4>0. task[t].at \in Nat /\ task[t].stall \in Nat
        BY <1>n
      <4>1. PICK at \in Nat, ticks \in Nat : at = task[t].at /\ ticks = task[t].stall
        BY ONLY <4>0, Zenon
      <4>2. SeenWithin(at, ticks)'
        BY <1>0, <3>1, <3>3, <4>1
      <4> QED
        BY <2>1, <4>1, <4>2
    <3> QED
      BY <2>1, <3>2, <3>3 DEF Recent
  <2> QED
    BY <1>a, <1>11, <2>1, <2>2 DEF Activate
<1>12. ASSUME NEW a \in Admin, Invalidate(a) PROVE Recent'
  BY <1>0, <1>12, InvalidateDoes DEF Recent, SeenWithin, NoEntry
<1>13. ASSUME NEW a \in Admin, Audit(a) \/ AdminFails(a) PROVE Recent'
  BY <1>a, <1>13 DEF Audit, AdminFails
<1>14. ASSUME NEW e \in Engine, NEW g \in Governance, Restart(e, g) PROVE Recent'
  BY <1>0, <1>14, RestartDoes DEF Recent, SeenWithin, NoEntry, Idle
<1>15. ASSUME Tick PROVE Recent'
  <2>1. log' = log /\ clock' = clock + 1
    BY <1>15, TickDoes
  <2>2. ASSUME NEW e \in Engine, cache'[e].policy # NoPolicy, cache'[e].age < Refresh
        PROVE  SeenWithin(cache[e].at, cache[e].age + MaxStall)'
    <3>1. cache[e].policy # NoPolicy /\ cache[e].age < Refresh
          /\ cache'[e].age = cache[e].age + 1 /\ cache'[e].at = cache[e].at
      BY <1>15, <2>2, TickDoes
    <3>0. cache[e].at \in Nat /\ cache[e].age + MaxStall \in Nat
      BY <1>n
    <3>2. PICK at \in Nat, ticks \in Nat : at = cache[e].at /\ ticks = cache[e].age + MaxStall
      BY ONLY <3>0, Zenon
    <3>3. SeenWithin(at, ticks + 1)'
      BY <1>0, <2>1, <3>1, <3>2, SeenOnTick
    <3>4. cache'[e].at = at /\ cache'[e].age + MaxStall = ticks + 1
      BY <1>n, <3>1, <3>2
    <3> QED
      BY <3>3, <3>4
  <2>3. ASSUME NEW t \in Task, Reading(t)' PROVE SeenWithin(task[t].at, task[t].stall)'
    <3>1. Reading(t) /\ task'[t].at = task[t].at /\ task'[t].stall = task[t].stall + 1
      BY <1>15, <2>3, TickDoes
    <3>0. task[t].at \in Nat /\ task[t].stall \in Nat
      BY <1>n
    <3>2. PICK at \in Nat, ticks \in Nat : at = task[t].at /\ ticks = task[t].stall
      BY ONLY <3>0, Zenon
    <3>3. SeenWithin(at, ticks + 1)'
      BY <1>0, <2>1, <3>1, <3>2, SeenOnTick
    <3> QED
      BY <3>1, <3>2, <3>3
  <2> QED
    BY <2>2, <2>3 DEF Recent
<1>16. ASSUME UNCHANGED vars PROVE Recent'
  BY <1>a, <1>16 DEF vars
<1> QED
  BY <1>1, <1>2, <1>3, <1>4, <1>5, <1>6, <1>7, <1>8, <1>9, <1>10, <1>11, <1>12, <1>13, <1>14,
     <1>15, <1>16 DEF Next

-----------------------------------------------------------------------------
(* A version is approved once, and active only from then on.               *)

LEMMA OrderedStep == ASSUME Types, Ordered, [Next]_vars PROVE Ordered'
<1>0. /\ spec \in [Version -> {"none", "proposed", "approved"}]
      /\ admin \in [Admin -> Calls] /\ Len(log) \in Nat
  BY ActiveType DEF Types
<1>o. /\ \A v \in Version, i \in 1..Len(log) : log[i].version = v =>
           \E j \in 1..i : Approves(j, v)
      /\ \A v \in Version, i, j \in 1..Len(log) : Approves(i, v) /\ Approves(j, v) => i = j
      /\ \A v \in Version, i \in 1..Len(log) : log[i].version = v => spec[v] = "approved"
      /\ \A v \in Version : spec[v] = "approved" => \E i \in 1..Len(log) : Approves(i, v)
  BY DEF Ordered
<1> DEFINE Sound(a) ==
      admin[a].step \in {"record", "activate"} =>
        \/ admin[a].kind = "approve" /\ admin[a].to \in Version
        \/ /\ admin[a].kind = "rollback"
           /\ admin[a].to # Default => spec[admin[a].to] = "approved"
<1>s. \A a \in Admin : Sound(a)
  BY DEF Ordered
<1>t. \A a \in Admin : admin[a].to # Default => admin[a].to \in Version
  BY <1>0 DEF Calls
<1>a. ASSUME UNCHANGED log, \A v \in Version : spec'[v] = "approved" <=> spec[v] = "approved",
             \A a \in Admin : Sound(a)'
      PROVE  Ordered'
  BY <1>a, <1>o DEF Ordered, Approves
<1>b. ASSUME UNCHANGED <<log, spec>>,
             \A a \in Admin : \/ admin'[a] = admin[a]
                              \/ admin'[a].step \in {"idle", "invalidate", "audit"}
      PROVE  Ordered'
  <2>1. \A a \in Admin : Sound(a)'
    BY <1>b, <1>s
  <2> QED
    BY <1>a, <1>b, <2>1
<1>c. ASSUME NEW a \in Admin, Refused(a)
      PROVE  \A b \in Admin : \/ admin'[b] = admin[b]
                              \/ admin'[b].step \in {"idle", "invalidate", "audit"}
  BY <1>0, <1>c DEF Refused, NoCall
<1>1. ASSUME UNCHANGED <<log, spec, admin>> PROVE Ordered'
  BY <1>b, <1>1
<1>2. ASSUME NEW v \in Version, Propose(v) PROVE Ordered'
  <2>1. UNCHANGED <<log, admin>> /\ spec[v] = "none" /\ spec' = [spec EXCEPT ![v] = "proposed"]
    BY <1>2 DEF Propose
  <2>2. \A u \in Version : spec'[u] = "approved" <=> spec[u] = "approved"
    BY <1>0, <2>1
  <2>3. \A a \in Admin : Sound(a)'
    BY <1>s, <1>t, <2>1, <2>2
  <2> QED
    BY <1>a, <2>1, <2>2, <2>3
<1>3. ASSUME NEW a \in Admin, NEW e \in Engine, NEW v \in Version, Approve(a, e, v) PROVE Ordered'
  <2> DEFINE new == [step |-> "record", kind |-> "approve", engine |-> e, to |-> v]
  <2>1. new.kind = "approve" /\ new.to = v
    OBVIOUS
  <2>2. admin' = [admin EXCEPT ![a] = new] /\ UNCHANGED <<log, spec>>
    BY <1>3 DEF Approve, Starts
  <2> HIDE DEF new
  <2>3. \A b \in Admin : Sound(b)'
    BY <1>0, <1>s, <2>1, <2>2
  <2> QED
    BY <1>a, <2>2, <2>3
<1>4. ASSUME NEW a \in Admin, NEW e \in Engine, NEW to \in Version \cup {Default},
             Rollback(a, e, to)
      PROVE  Ordered'
  <2> DEFINE new == [step |-> "record", kind |-> "rollback", engine |-> e, to |-> to]
  <2>1. new.kind = "rollback" /\ new.to = to
    OBVIOUS
  <2>2. admin' = [admin EXCEPT ![a] = new] /\ UNCHANGED <<log, spec>>
        /\ (to # Default => spec[to] = "approved")
    BY <1>4 DEF Rollback, Starts
  <2> HIDE DEF new
  <2>3. \A b \in Admin : Sound(b)'
    BY <1>0, <1>s, <2>1, <2>2
  <2> QED
    BY <1>a, <2>2, <2>3
<1>5. ASSUME NEW a \in Admin, AdminRecords(a) PROVE Ordered'
  <2>1. /\ \A b \in Admin : b # a => admin'[b] = admin[b]
        /\ admin[a].step = "record" /\ admin'[a].kind = admin[a].kind /\ admin'[a].to = admin[a].to
        /\ UNCHANGED <<log, spec>>
    BY <1>0, <1>5 DEF AdminRecords, Calls
  <2>2. \A b \in Admin : Sound(b)'
    BY <1>s, <2>1
  <2> QED
    BY <1>a, <2>1, <2>2
<1>6. ASSUME NEW a \in Admin, Activate(a) PROVE Ordered'
  <2>1. admin[a].step = "activate"
    BY <1>6 DEF Activate
  <2>2. CASE admin[a].kind # "none" /\ Activates(a)
    <3>n. PICK n \in Nat : n = Len(log) + 1
      BY <1>0
    <3>a. log'[n] = [version |-> admin[a].to, kind |-> admin[a].kind, when |-> clock]
          /\ Len(log') = n
      BY <2>1, <2>2, <3>n, Appends
    <3>1. /\ Len(log') = n /\ \A i \in 1..Len(log) : log'[i] = log[i]
          /\ log'[n].version = admin[a].to /\ log'[n].kind = admin[a].kind
          /\ \A b \in Admin : b # a => admin'[b] = admin[b]
          /\ admin'[a].step \in {"invalidate", "idle"}
      BY <2>1, <2>2, <3>a, Appends
    <3>2. \A i \in 1..Len(log) : \A v \in Version : Approves(i, v)' <=> Approves(i, v)
      BY <3>1 DEF Approves
    <3>3. CASE admin[a].kind = "rollback" /\ UNCHANGED spec
      <4>1. admin[a].to # Default => spec[admin[a].to] = "approved"
        BY <1>s, <2>1, <3>3
      <4>2. \A v \in Version : ~Approves(n, v)'
        BY <3>1, <3>3 DEF Approves
      <4>3. \A b \in Admin : Sound(b)'
        BY <1>s, <3>1, <3>3, <2>1
      <4>4. \A i \in 1..n : i \in 1..Len(log) \/ i = n
        BY <1>0, <3>n
      <4>5. \A v \in Version, i \in 1..n : log'[i].version = v => spec'[v] = "approved"
        <5>1. ASSUME NEW v \in Version, log'[n].version = v PROVE spec'[v] = "approved"
          <6>1. v = admin[a].to /\ v # Default
            BY <3>1, <5>1 DEF Version, Default
          <6> QED
            BY <3>3, <4>1, <6>1
        <5>2. ASSUME NEW v \in Version, NEW i \in 1..Len(log), log'[i].version = v
              PROVE  spec'[v] = "approved"
          BY <1>o, <3>1, <3>3, <5>2
        <5> QED
          BY <4>4, <5>1, <5>2
      <4>6. \A v \in Version : spec'[v] = "approved" => \E i \in 1..Len(log') : Approves(i, v)'
        BY <1>0, <3>n, <1>o, <3>1, <3>2, <3>3
      <4>7. \A v \in Version, i, j \in 1..n : Approves(i, v)' /\ Approves(j, v)' => i = j
        BY <1>o, <3>2, <4>2, <4>4
      <4>8. ASSUME NEW v \in Version, NEW i \in 1..n, log'[i].version = v
            PROVE  \E j \in 1..i : Approves(j, v)'
        <5>1. CASE i \in 1..Len(log)
          <6>1. PICK j \in 1..i : Approves(j, v)
            BY <1>o, <3>1, <4>8, <5>1
          <6>2. j \in 1..Len(log)
            BY <1>0, <5>1
          <6> QED
            BY <3>2, <6>1, <6>2
        <5>2. CASE i = n
          <6>1. spec[v] = "approved"
            BY <3>1, <3>3, <4>5, <4>8
          <6>2. PICK j \in 1..Len(log) : Approves(j, v)
            BY <1>o, <6>1
          <6>3. j \in 1..i
            BY <1>0, <3>n, <5>2
          <6> QED
            BY <3>2, <6>2, <6>3
        <5> QED
          BY <4>4, <5>1, <5>2
      <4> QED
        BY <3>1, <4>3, <4>5, <4>6, <4>7, <4>8 DEF Ordered
    <3>4. CASE /\ admin[a].kind = "approve" /\ spec[admin[a].to] = "proposed"
               /\ spec' = [spec EXCEPT ![admin[a].to] = "approved"]
      <4> DEFINE w == admin[a].to
      <4>1. w \in Version /\ spec[w] # "approved" /\ spec'[w] = "approved"
            /\ \A v \in Version : v # w => spec'[v] = spec[v]
        BY <1>0, <1>s, <2>1, <3>4
      <4>2. \A v \in Version : Approves(n, v)' <=> v = w
        BY <3>1, <3>4 DEF Approves
      <4>3. \A b \in Admin : Sound(b)'
        BY <1>s, <1>t, <3>1, <4>1
      <4>4. \A i \in 1..n : i \in 1..Len(log) \/ i = n
        BY <1>0, <3>n
      <4>5. \A v \in Version, i \in 1..n : log'[i].version = v => spec'[v] = "approved"
        BY <1>o, <3>1, <4>1, <4>4
      <4>6. \A i \in 1..Len(log) : log[i].version # w
        BY <1>o, <4>1
      <4>7. \A v \in Version, i, j \in 1..n : Approves(i, v)' /\ Approves(j, v)' => i = j
        <5>1. \A i \in 1..Len(log) : ~Approves(i, w)
          BY <4>6 DEF Approves
        <5> QED
          BY <1>o, <3>2, <4>1, <4>2, <4>4, <5>1
      <4>8. \A v \in Version : spec'[v] = "approved" => \E i \in 1..n : Approves(i, v)'
        BY <1>0, <3>n, <1>o, <3>2, <4>1, <4>2
      <4>9. ASSUME NEW v \in Version, NEW i \in 1..n, log'[i].version = v
            PROVE  \E j \in 1..i : Approves(j, v)'
        <5>1. CASE i \in 1..Len(log)
          <6>1. PICK j \in 1..i : Approves(j, v)
            BY <1>o, <3>1, <4>9, <5>1
          <6>2. j \in 1..Len(log)
            BY <1>0, <5>1
          <6> QED
            BY <3>2, <6>1, <6>2
        <5>2. CASE i = n
          <6>1. n \in 1..i /\ Approves(n, v)'
            BY <3>1, <4>2, <4>9, <5>2
          <6> QED
            BY <6>1
        <5> QED
          BY <4>4, <5>1, <5>2
      <4> QED
        BY <3>1, <4>3, <4>5, <4>7, <4>8, <4>9 DEF Ordered
    <3> QED
      BY <1>6, <1>b, <1>c, <3>3, <3>4 DEF Activate
  <2> QED
    BY <1>6, <1>b, <1>c, <2>2 DEF Activate
<1>7. ASSUME NEW a \in Admin, Invalidate(a) PROVE Ordered'
  BY <1>b, <1>7, InvalidateDoes
<1>8. ASSUME NEW a \in Admin, Audit(a) \/ AdminFails(a) PROVE Ordered'
  BY <1>b, <1>c, <1>8 DEF Audit, AdminFails
<1>9. ASSUME NEW e \in Engine, NEW g \in Governance, Restart(e, g) PROVE Ordered'
  <2>1. UNCHANGED <<spec, log>> /\ \A a \in Admin : admin'[a] = NoCall \/ admin'[a] = admin[a]
    BY <1>9, RestartDoes
  <2>2. NoCall.step = "idle"
    BY DEF NoCall
  <2> QED
    BY <1>b, <2>1, <2>2
<1> QED
  <2>1. ASSUME NEW t \in Task,
               Begin(t) \/ Ask(t) \/ Confirm(t) \/ Record(t) \/ Put(t) \/ End(t)
        PROVE  Ordered'
    <3>1. UNCHANGED <<log, spec, admin>>
      BY <2>1 DEF Begin, Ask, Confirm, Record, Put, End
    <3> QED
      BY <1>1, <3>1
  <2>2. CASE Tick \/ UNCHANGED vars
    BY <1>1, <2>2 DEF Tick, vars
  <2> QED
    BY <1>2, <1>3, <1>4, <1>5, <1>6, <1>7, <1>8, <1>9, <2>1, <2>2 DEF Next

-----------------------------------------------------------------------------
(* The theorems.                                                           *)

LEMMA InitInv == Init => PolicyInv
<1> SUFFICES ASSUME Init PROVE PolicyInv
  OBVIOUS
<1>0. Idle.step = "idle" /\ NoCall.step = "idle"
  BY DEF Idle, NoCall
<1>1. /\ \A e \in Engine : cache[e] = NoEntry
      /\ \A t \in Task : task[t].step = "idle"
      /\ \A a \in Admin : admin[a].step = "idle"
      /\ log = <<>> /\ Len(log) = 0 /\ \A v \in Version : spec[v] = "none"
  BY <1>0 DEF Init
<1>2. Types
  <2>1. log \in Seq(Activations) /\ Len(log) <= MaxActivations
    BY <1>1, Basics
  <2>2. clock \in 0..MaxClock /\ restarts \in 0..MaxRestarts
    BY PolicyAssumption DEF Init
  <2>3. spec \in [Version -> {"none", "proposed", "approved"}] /\ recorded \subseteq Compiled
    BY DEF Init
  <2>4. cache \in [Engine -> Entries] /\ task \in [Task -> Tasks] /\ admin \in [Admin -> Calls]
    BY Basics DEF Init
  <2>5. gov \in [Engine -> Governance]
    BY DEF Init
  <2> QED
    BY <2>1, <2>2, <2>3, <2>4, <2>5 DEF Types
<1>3. \A e \in Engine : ~Entry(e)
  <2>1. NoEntry.policy = NoPolicy
    BY DEF NoEntry
  <2> QED
    BY <1>1, <2>1 DEF Entry
<1>4. Kept /\ Governed
  BY <1>1, <1>3 DEF Kept, Governed, Holding
<1>5. Recent
  BY <1>1, <1>3 DEF Recent, Reading
<1>6. Ordered
  BY <1>1 DEF Ordered
<1> QED
  BY <1>2, <1>4, <1>5, <1>6 DEF PolicyInv

LEMMA StepInv == PolicyInv /\ [Next]_vars => PolicyInv'
  BY TypeStep, KeptStep, GovernedStep, OrderedStep, RecentStep DEF PolicyInv

LEMMA SpecInv == Spec => []PolicyInv
  BY InitInv, StepInv, PTL DEF Spec

(* Statuses, activations, cache entries and calls in flight keep the shape *)
(* of the tables and structures they stand for.                            *)
THEOREM PolicyTypeCorrect == Spec => []TypeOK
<1>1. PolicyInv => TypeOK
  BY DEF PolicyInv, Types, TypeOK, Activations, Entries, Tasks, Calls
<1> QED
  BY <1>1, SpecInv, PTL

(* No operation runs a policy that is not kept: what the cache holds was   *)
(* recorded by the operation that cached it, and nothing is unrecorded.    *)
THEOREM KeptBeforeUsedHolds == Spec => []KeptBeforeUsed
<1>1. PolicyInv => KeptBeforeUsed
  BY DEF PolicyInv, Kept, KeptBeforeUsed, Using
<1> QED
  BY <1>1, SpecInv, PTL

(* An operation runs under the governance of its own process, and a        *)
(* version only where that governance compiles it: a restart under another *)
(* governance leaves no entry and no operation behind.                     *)
THEOREM GovernanceWinsHolds == Spec => []GovernanceWins
<1>1. PolicyInv => GovernanceWins
  BY DEF PolicyInv, Governed, Holding, Fits, GovernanceWins, Using
<1> QED
  BY <1>1, SpecInv, PTL

(* A version is approved by one activation, and no activation of it comes  *)
(* sooner: the status is read and written in the transaction that appends  *)
(* the activation, and whoever rolls back has read it approved.            *)
THEOREM ApprovedOnceFirstHolds == Spec => []ApprovedOnceFirst
<1>1. PolicyInv => ApprovedOnceFirst
  <2> SUFFICES ASSUME PolicyInv, NEW v \in Version, NEW i \in 1..Len(log), log[i].version = v
               PROVE  \E j \in 1..i : /\ log[j].version = v /\ log[j].kind = "approve"
                                      /\ \A k \in 1..Len(log) :
                                           log[k].version = v /\ log[k].kind = "approve" => k = j
    BY DEF ApprovedOnceFirst
  <2>1. PICK j \in 1..i : Approves(j, v)
    BY DEF PolicyInv, Ordered
  <2>2. j \in 1..Len(log)
    BY ActiveType DEF PolicyInv
  <2>3. \A k \in 1..Len(log) : Approves(k, v) => k = j
    BY <2>1, <2>2 DEF PolicyInv, Ordered
  <2> QED
    BY <2>1, <2>3 DEF Approves
<1> QED
  BY <1>1, SpecInv, PTL

(* A task takes a policy from a cache entry that is still trusted or from  *)
(* a read it has just confirmed.  Either had seen every activation older   *)
(* than the entry's age and the slowest refresh together.                  *)
LEMMA TakingStep ==
    ASSUME Types, Recent, [Next]_vars, NEW t \in Task, Taking(t)
    PROVE  Late(t) < Refresh + MaxStall
<1>0. /\ MaxStall \in Nat /\ Refresh \in Nat \ {0} /\ clock \in Nat /\ Len(log) \in Nat
      /\ \A e \in Engine : cache[e].at \in Nat /\ cache[e].age \in Nat
      /\ task[t].at \in Nat /\ task[t].stall \in Nat /\ task[t].stall <= MaxStall
      /\ \A i \in 1..Len(log) : log[i].when \in Nat
  <2>1. \A i \in 1..Len(log) : log[i].when \in Nat
    <3>1. log \in Seq(Activations)
      BY DEF Types
    <3>2. \A i \in 1..Len(log) : log[i] \in Activations
      BY <3>1
    <3> QED
      BY <3>2, PolicyAssumption DEF Activations
  <2> QED
    BY <2>1, Numbers, Basics, ActiveType, PolicyAssumption DEF Types
<1>1. ASSUME NEW at \in Nat, NEW ticks \in Nat, SeenWithin(at, ticks), ticks < Refresh + MaxStall,
             task'[t].at = at, UNCHANGED <<log, clock>>
      PROVE  Late(t) < Refresh + MaxStall
  <2>1. CASE at < Len(log)
    <3>1. log[at + 1].when \in Nat /\ clock <= log[at + 1].when + ticks
      BY <1>0, <1>1, <2>1 DEF SeenWithin
    <3> QED
      BY <1>0, <1>1, <2>1, <3>1 DEF Late
  <2>2. CASE at = Len(log)
    BY <1>0, <1>1, <2>2 DEF Late
  <2> QED
    BY <1>0, <1>1, <2>1, <2>2 DEF SeenWithin
<1>2. ASSUME Reading(t), task'[t].at = task[t].at, UNCHANGED <<log, clock>>
      PROVE  Late(t) < Refresh + MaxStall
  BY <1>0, <1>1, <1>2 DEF Recent
<1>3. ASSUME task'[t] = task[t] PROVE FALSE
  BY <1>3 DEF Taking, Using
<1>4. ASSUME task'[t].step # "use" PROVE FALSE
  BY <1>4 DEF Taking
<1>5. CASE Begin(t)
  <2> DEFINE e == EngineOf[t]
  <2>1. Fresh(e) /\ task'[t].at = cache[e].at /\ UNCHANGED <<log, clock>> /\ e \in Engine
    BY <1>5, <1>4, BeginDoes, PolicyAssumption
  <2>2. SeenWithin(cache[e].at, cache[e].age + MaxStall) /\ cache[e].age < Refresh
    BY <2>1 DEF Fresh, Entry, Recent
  <2>3. cache[e].at \in Nat /\ cache[e].age \in Nat /\ cache[e].age + MaxStall \in Nat
        /\ cache[e].age + MaxStall < Refresh + MaxStall
    BY <1>0, <2>1, <2>2
  <2> QED
    BY <1>1, <2>1, <2>2, <2>3
<1>6. CASE Confirm(t)
  <2>1. EngineOf[t] \in Engine
    BY PolicyAssumption
  <2>2. task[t].step = "confirm" /\ task'[t].at = task[t].at /\ UNCHANGED <<log, clock>>
    BY <1>6, <2>1, ConfirmDoes
  <2> QED
    BY <1>2, <2>2 DEF Reading
<1>7. CASE Put(t)
  <2>1. EngineOf[t] \in Engine
    BY PolicyAssumption
  <2>2. task[t].step = "put" /\ task'[t].at = task[t].at /\ UNCHANGED <<log, clock>>
    BY <1>7, <2>1, PutDoes
  <2> QED
    BY <1>2, <2>2 DEF Reading
<1>8. CASE Ask(t) \/ Record(t) \/ End(t)
  BY <1>4, <1>8, AskDoes, RecordDoes, EndDoes
<1>9. ASSUME NEW u \in Task, u # t,
             Begin(u) \/ Ask(u) \/ Confirm(u) \/ Record(u) \/ Put(u) \/ End(u)
      PROVE  FALSE
  <2>1. EngineOf[u] \in Engine
    BY PolicyAssumption
  <2>2. Others(u)
    BY <1>9, <2>1, BeginDoes, AskDoes, ConfirmDoes, RecordDoes, PutDoes, EndDoes
  <2> QED
    BY <1>3, <1>9, <2>2 DEF Others
<1>10. ASSUME NEW e \in Engine, NEW g \in Governance, Restart(e, g) PROVE FALSE
  <2>1. task'[t] = Idle \/ task'[t] = task[t]
    BY <1>10, RestartDoes
  <2> QED
    BY <1>3, <1>4, <2>1 DEF Idle
<1>11. CASE Tick
  <2>1. task'[t].step = task[t].step
    BY <1>11, TickDoes
  <2> QED
    BY <2>1 DEF Taking, Using
<1>12. ASSUME NEW a \in Admin, AdminRecords(a) \/ Activate(a) \/ Invalidate(a) \/ Audit(a)
                               \/ AdminFails(a)
       PROVE  FALSE
  BY <1>3, <1>12 DEF AdminRecords, Activate, Invalidate, Audit, AdminFails
<1>13. ASSUME NEW a \in Admin, NEW e \in Engine, NEW v \in Version \cup {Default},
              Approve(a, e, v) \/ Rollback(a, e, v)
       PROVE  FALSE
  BY <1>3, <1>13 DEF Approve, Rollback
<1>14. ASSUME NEW v \in Version, Propose(v) PROVE FALSE
  BY <1>3, <1>14 DEF Propose
<1>15. ASSUME UNCHANGED vars PROVE FALSE
  BY <1>3, <1>15 DEF vars
<1> QED
  BY <1>5, <1>6, <1>7, <1>8, <1>9, <1>10, <1>11, <1>12, <1>13, <1>14, <1>15 DEF Next

(* Every engine picks up an activation in less than Refresh and the        *)
(* slowest refresh together, however many tasks refresh one cache.         *)
THEOREM PickedUpHolds == Spec => PickedUp
<1>1. PolicyInv /\ [Next]_vars => [\A t \in Task : Taking(t) => Late(t) < Refresh + MaxStall]_vars
  BY TakingStep DEF PolicyInv
<1> QED
  BY <1>1, SpecInv, PTL DEF Spec, PickedUp

-----------------------------------------------------------------------------
(* Re-embedding.                                                           *)

(* What the operators of one database choose from.                         *)
Models == Target \cup {First}

LastOf(batch) == CHOOSE r \in batch : \A s \in batch : s <= r

Runs ==
  [step : Step, to : Identity \cup {NoIdentity}, from : Identity \cup {NoIdentity},
   after : 0..Records \cup {LastOf(batch) : batch \in SUBSET Row},
   batch : SUBSET Row, passes : 0..MaxPasses]

ReembedTypes ==
  /\ db \in Models /\ target \in Target \cup {NoIdentity}
  /\ row \in [Row -> {"new", "stored", "gone"}]
  /\ vec \in [Row -> Identity \cup {NoIdentity}]
  /\ next \in [Row -> Identity \cup {NoIdentity}]
  /\ up \in [Process -> Models \cup {NoIdentity}]
  /\ trusted \in [Process -> 0..Recheck]
  /\ run \in [Run -> Runs]
  /\ stale \in [Process -> 0..Recheck] /\ served \in [Process -> 0..Recheck]
  /\ overtaken \in BOOLEAN /\ mixed \in BOOLEAN

(* A run at work has a target; vectors in either column are of records     *)
(* that are there.                                                         *)
Aims == \A x \in Run : run[x].step # "idle" => run[x].to \in Target

OnlyStored == \A r \in Row : row[r] # "stored" => vec[r] = NoIdentity /\ next[r] = NoIdentity

(* A target recorded beside no rival: the staging column holds vectors of  *)
(* it alone, and a run that writes to another does not fit the column.     *)
Staged == \A r \in Row : next[r] # NoIdentity => next[r] = target

Fitting(x) ==
  run[x].step \in Writing /\ target # NoIdentity =>
    run[x].to = target \/ DimOf[run[x].to] # DimOf[target]

Undisturbed == overtaken \/ (Staged /\ \A x \in Run : Fitting(x))

(* A switch that mixed nothing: a process on another identity is on        *)
(* another model.                                                          *)
Current == mixed \/ \A p \in Process :
  up[p] = NoIdentity \/ up[p] = db \/ NameOf[up[p]] # NameOf[db]

(* A process has been stale no longer than it has not looked.              *)
Looked == \A p \in Process : stale[p] <= trusted[p]

ReembedInv ==
  /\ ReembedTypes /\ Aims /\ OnlyStored /\ Undisturbed /\ Current /\ OneModel
  /\ Looked /\ StaleRefused

LEMMA ModelsNamed ==
  /\ NoIdentity \notin Models /\ First \in Models
  /\ Target \subseteq Models /\ Models \subseteq Identity
  BY ReembedAssumption DEF Models

(* A run goes on, or is over.                                              *)
Beside(x) == \A y \in Run : y # x => run'[y] = run[y]

LEMMA Goes ==
  ASSUME ReembedTypes, Aims, NEW x \in Run, NEW step \in Step \ {"idle"},
         run[x].step # "idle", Goto(x, step)
  PROVE  /\ run' \in [Run -> Runs] /\ Aims' /\ Beside(x)
         /\ run'[x].step = step /\ run'[x].to = run[x].to
<1> DEFINE new == [run[x] EXCEPT !.step = step]
<1>1. run[x] \in Runs
  BY DEF ReembedTypes
<1>2. new \in Runs /\ new.to = run[x].to /\ new.step = step
  BY <1>1 DEF Runs
<1>3. run' = [run EXCEPT ![x] = new]
  BY DEF Goto
<1> HIDE DEF new
<1> QED
  BY <1>2, <1>3 DEF ReembedTypes, Aims, Beside

LEMMA GoesWith ==
  ASSUME ReembedTypes, Aims, NEW x \in Run, run[x].step # "idle",
         NEW new \in Runs, new.to = run[x].to, run' = [run EXCEPT ![x] = new]
  PROVE  /\ run' \in [Run -> Runs] /\ Aims' /\ Beside(x)
         /\ run'[x] = new
  BY DEF ReembedTypes, Aims, Beside

LEMMA Leaves ==
  ASSUME ReembedTypes, Aims, NEW x \in Run, Ends(x)
  PROVE  /\ run' \in [Run -> Runs] /\ Aims' /\ Beside(x)
         /\ run'[x].step = "idle"
<1>1. NoRun \in Runs /\ NoRun.step = "idle"
  BY ReembedAssumption DEF NoRun, Runs, Step
<1> QED
  BY <1>1 DEF Ends, ReembedTypes, Aims, Beside

LEMMA Passes ==
  ASSUME ReembedTypes, Aims, NEW x \in Run, run[x].step # "idle", NEW passes \in 0..MaxPasses,
         run' = [run EXCEPT ![x].step = "fetch", ![x].passes = passes, ![x].after = 0]
  PROVE  /\ run' \in [Run -> Runs] /\ Aims' /\ Beside(x)
         /\ run'[x].step = "fetch" /\ run'[x].to = run[x].to
<1> DEFINE new == [run[x] EXCEPT !.step = "fetch", !.passes = passes, !.after = 0]
<1>1. run[x] \in Runs
  BY DEF ReembedTypes
<1>2. 0 \in 0..Records
  BY ReembedAssumption
<1>3. new \in Runs /\ new.to = run[x].to /\ new.step = "fetch"
  BY <1>1, <1>2 DEF Runs, Step
<1>4. run' = [run EXCEPT ![x] = new] /\ run \in [Run -> Runs]
  BY DEF ReembedTypes
<1>5. run[x].to \in Target
  BY DEF Aims
<1> HIDE DEF new
<1>6. /\ run' \in [Run -> Runs]
      /\ \A y \in Run : run'[y] = IF y = x THEN new ELSE run[y]
  BY ONLY <1>3, <1>4
<1> QED
  BY <1>3, <1>5, <1>6 DEF Aims, Beside

-----------------------------------------------------------------------------
(* Processes.                                                              *)
LEMMA StartKeeps == ASSUME ReembedInv, NEW p \in Process, Start(p) PROVE ReembedInv'
  BY DEF ReembedInv, ReembedTypes, Aims, OnlyStored, Undisturbed, Staged, Fitting, Current,
         OneModel, Looked, StaleRefused, Start, database, mixing

LEMMA StopKeeps == ASSUME ReembedInv, NEW p \in Process, Stop(p) PROVE ReembedInv'
<1>1. Recheck \in Nat \ {0}
  BY ReembedAssumption
<1>2. ReembedTypes'
  BY <1>1 DEF ReembedInv, ReembedTypes, Stop, database, mixing
<1>3. Looked' /\ StaleRefused'
  BY <1>1 DEF ReembedInv, ReembedTypes, Looked, StaleRefused, Stop
<1> QED
  BY <1>2, <1>3
  DEF ReembedInv, ReembedTypes, Undisturbed, Aims, OnlyStored, Staged, Fitting, Current, OneModel,
      Stop, database, mixing

LEMMA InsertKeeps ==
  ASSUME ReembedInv, NEW p \in Process, NEW r \in Row,
         NEW v \in Identity \cup {NoIdentity}, Insert(p, r, v)
  PROVE  ReembedInv'
<1>1. mixed \/ v = NoIdentity \/ v = db
  BY DEF Insert, Agrees, ReembedInv, Current
<1>2. ReembedTypes' /\ OnlyStored'
  BY DEF ReembedInv, ReembedTypes, OnlyStored, Insert, processes, mixing
<1>3. OneModel'
  BY <1>1 DEF ReembedInv, ReembedTypes, OneModel, Insert, mixing
<1>4. Undisturbed' /\ Current'
  BY DEF ReembedInv, Undisturbed, Staged, Fitting, Current, Insert, processes, mixing
<1> QED
  BY <1>2, <1>3, <1>4 DEF ReembedInv, Aims, Looked, StaleRefused, Insert, processes

LEMMA ForgetKeeps ==
  ASSUME ReembedInv, NEW r \in Row, Forget(r) PROVE ReembedInv'
  BY DEF ReembedInv, ReembedTypes, Undisturbed, OnlyStored, Current, OneModel, Aims, Staged,
         Fitting, Looked, StaleRefused, Forget, processes, mixing

LEMMA RecallKeeps ==
  ASSUME ReembedInv, NEW p \in Process, Recall(p) PROVE ReembedInv'
<1>1. Recheck \in Nat \ {0}
  BY ReembedAssumption
<1>2. trusted' \in [Process -> 0..Recheck] /\ stale' \in [Process -> 0..Recheck]
  BY <1>1 DEF ReembedInv, ReembedTypes, Recall
<1>3. /\ served' \in [Process -> 0..Recheck]
      /\ \A q \in Process : \/ served'[q] \in {0, served[q]}
                            \/ q = p /\ Trusts(p) /\ served'[q] = stale[p]
  <2>1. served \in [Process -> 0..Recheck] /\ stale \in [Process -> 0..Recheck]
    BY DEF ReembedInv, ReembedTypes
  <2>2. CASE Agrees(p)
    <3>1. served' = [served EXCEPT ![p] = 0]
      BY <2>2 DEF Recall
    <3> QED
      BY <1>1, <2>1, <3>1
  <2>3. CASE ~Agrees(p) /\ Trusts(p)
    <3>1. served' = [served EXCEPT ![p] = stale[p]]
      BY <2>3 DEF Recall
    <3> QED
      BY <2>1, <2>3, <3>1
  <2>4. CASE ~Agrees(p) /\ ~Trusts(p)
    <3>1. served' = served
      BY <2>4 DEF Recall
    <3> QED
      BY <2>1, <3>1
  <2> QED
    BY <2>2, <2>3, <2>4
<1>4. Looked'
  BY <1>1 DEF ReembedInv, ReembedTypes, Looked, Recall
<1>5. Trusts(p) => stale[p] < Recheck
  BY <1>1 DEF ReembedInv, ReembedTypes, Looked, Trusts
<1>6. StaleRefused'
  BY <1>1, <1>3, <1>5 DEF ReembedInv, StaleRefused
<1> QED
  BY <1>2, <1>3, <1>4, <1>6
  DEF ReembedInv, ReembedTypes, Undisturbed, OnlyStored, Current, OneModel, Aims, Staged, Fitting,
      Recall, database, mixing

LEMMA TickKeeps == ASSUME ReembedInv, TimePasses PROVE ReembedInv'
<1>1. Recheck \in Nat \ {0}
  BY ReembedAssumption
<1>2. trusted' \in [Process -> 0..Recheck] /\ stale' \in [Process -> 0..Recheck]
  BY <1>1 DEF ReembedInv, ReembedTypes, TimePasses, More
<1>3. Looked'
  BY <1>1 DEF ReembedInv, ReembedTypes, Looked, TimePasses, More
<1> QED
  BY <1>2, <1>3
  DEF ReembedInv, ReembedTypes, Undisturbed, OnlyStored, Current, OneModel, Aims, Staged, Fitting,
      StaleRefused, TimePasses, database, mixing

-----------------------------------------------------------------------------
(* Runs that change nothing but themselves.                                *)
LEMMA RunOnly ==
  ASSUME ReembedInv, run' \in [Run -> Runs], Aims', UNCHANGED <<database, processes, mixing>>,
         NEW x \in Run, Beside(x), Fitting(x) => Fitting(x)'
  PROVE  ReembedInv'
<1>1. \A y \in Run : Fitting(y) => Fitting(y)'
  BY DEF Fitting, Beside, database
<1> QED
  BY <1>1
  DEF ReembedInv, ReembedTypes, Undisturbed, OnlyStored, Current, OneModel, Staged, Looked,
      StaleRefused, database, processes, mixing

LEMMA BeginKeeps ==
  ASSUME ReembedInv, NEW x \in Run, NEW to \in Target, BeginRun(x, to) PROVE ReembedInv'
<1> DEFINE new == [NoRun EXCEPT !.step = "pending", !.to = to, !.from = db]
<1>1. db \in Identity /\ to \in Identity
  BY ModelsNamed, ReembedAssumption DEF ReembedInv, ReembedTypes
<1>2. new \in Runs /\ new.to = to /\ new.step = "pending"
  <2>1. NoRun \in Runs
    BY ReembedAssumption DEF NoRun, Runs, Step
  <2>2. \A a \in Runs, step \in Step : [a EXCEPT !.step = step, !.to = to, !.from = db] \in Runs
    BY <1>1 DEF Runs
  <2>3. new.to = to /\ new.step = "pending"
    BY DEF NoRun
  <2> QED
    BY <2>1, <2>2, <2>3 DEF Step
<1>3. run' = [run EXCEPT ![x] = new]
  BY DEF BeginRun
<1> HIDE DEF new
<1>4. run' \in [Run -> Runs] /\ Aims' /\ Beside(x) /\ run'[x].step = "pending"
  BY <1>2, <1>3 DEF ReembedInv, ReembedTypes, Aims, Beside
<1>5. Fitting(x)'
  BY <1>4 DEF Fitting, Writing
<1> QED
  BY <1>4, <1>5, RunOnly DEF BeginRun

LEMMA PendingKeeps == ASSUME ReembedInv, NEW x \in Run, Pending(x) PROVE ReembedInv'
<1> DEFINE new == [run[x] EXCEPT !.step = "check", !.from = NoIdentity]
<1>1. Ends(x) \/ run' = [run EXCEPT ![x] = new]
  BY DEF Pending
<1>4. run[x] \in Runs /\ run[x].step # "idle"
  BY DEF ReembedInv, ReembedTypes, Pending
<1>5. new \in Runs /\ new.to = run[x].to /\ new.step = "check"
  BY <1>4 DEF Runs, Step
<1> HIDE DEF new
<1>2. /\ run' \in [Run -> Runs] /\ Aims' /\ Beside(x)
      /\ run'[x].step \in {"idle", "check"}
  BY <1>1, <1>4, <1>5, Leaves, GoesWith DEF ReembedInv
<1>3. Fitting(x)'
  BY <1>2 DEF Fitting, Writing
<1> QED
  BY <1>2, <1>3, RunOnly DEF Pending, Elsewhere, processes

LEMMA CheckKeeps == ASSUME ReembedInv, NEW x \in Run, Check(x) PROVE ReembedInv'
<1>1. (target = run[x].to /\ FirstPass(x)) \/ Goto(x, "create") \/ Ends(x)
  BY DEF Check
<1>2. 1 \in 0..MaxPasses
  BY ReembedAssumption
<1>3. /\ run' \in [Run -> Runs] /\ Aims' /\ Beside(x)
      /\ \/ run'[x].step \in {"idle", "create"}
         \/ target = run[x].to /\ run'[x].to = run[x].to
  BY <1>1, <1>2, Leaves, Goes, Passes DEF ReembedInv, Check, FirstPass, Step
<1>4. Fitting(x)'
  BY <1>3 DEF Fitting, Writing, Check, database
<1> QED
  BY <1>3, <1>4, RunOnly DEF Check, Elsewhere, processes

LEMMA CreateKeeps == ASSUME ReembedInv, NEW x \in Run, Create(x) PROVE ReembedInv'
<1>1. 1 \in 0..MaxPasses
  BY ReembedAssumption
<1>2. /\ run' \in [Run -> Runs] /\ Aims' /\ Beside(x)
      /\ run'[x].step = "fetch" /\ run'[x].to = run[x].to
  BY <1>1, Passes DEF ReembedInv, Create, FirstPass
<1>3. target' = run[x].to /\ target' \in Target
  BY DEF ReembedInv, Create, Aims
<1>4. overtaken' = (Rivals(x) # {})
  BY DEF Create
<1>5. ASSUME ~overtaken', NEW y \in Run PROVE Fitting(y)'
  <2>1. CASE y = x
    BY <1>2, <1>3, <2>1 DEF Fitting
  <2>2. CASE y # x
    BY <1>2, <1>3, <1>4, <1>5, <2>2 DEF Fitting, Beside, Rivals
  <2> QED
    BY <2>1, <2>2
<1>6. Staged'
  BY DEF Create, Staged
<1>7. Undisturbed' /\ overtaken' \in BOOLEAN
  BY <1>4, <1>5, <1>6 DEF Undisturbed
<1>8. Current' /\ OneModel'
  BY DEF ReembedInv, Current, OneModel, Create, Elsewhere, processes
<1> QED
  BY <1>2, <1>3, <1>7, <1>8
  DEF ReembedInv, ReembedTypes, OnlyStored, Looked, StaleRefused, Create, Elsewhere, processes

LEMMA FetchKeeps == ASSUME ReembedInv, NEW x \in Run, Fetch(x) PROVE ReembedInv'
<1> DEFINE rest == {r \in Left : r > run[x].after}
           batch == {r \in rest : Cardinality({s \in rest : s < r}) < Batch}
           new == [run[x] EXCEPT !.step = "write", !.batch = batch, !.after = LastOf(batch)]
           done == [run[x] EXCEPT !.step = "cutover", !.after = 0]
<1>1. Ends(x) \/ run' = [run EXCEPT ![x] = done] \/ run' = [run EXCEPT ![x] = new]
  BY DEF Fetch, LastOf
<1>2. batch \in SUBSET Row
  BY DEF Left
<1> HIDE DEF batch
<1>3. run[x] \in Runs
  BY DEF ReembedInv, ReembedTypes
<1>4. new \in Runs /\ new.to = run[x].to
  BY <1>2, <1>3 DEF Runs, Step
<1>5. done \in Runs /\ done.to = run[x].to
  <2>1. 0 \in 0..Records
    BY ReembedAssumption
  <2> QED
    BY <1>3, <2>1 DEF Runs, Step
<1> HIDE DEF new, done
<1>6. /\ run' \in [Run -> Runs] /\ Aims' /\ Beside(x)
      /\ run'[x].step = "idle" \/ run'[x].to = run[x].to
  BY <1>1, <1>4, <1>5, Leaves, GoesWith DEF ReembedInv, Fetch
<1>7. Fitting(x) => Fitting(x)'
  BY <1>6 DEF Fitting, Writing, Fetch, database
<1> QED
  BY <1>6, <1>7, RunOnly DEF Fetch, Elsewhere, processes

LEMMA WriteKeeps == ASSUME ReembedInv, NEW x \in Run, Write(x) PROVE ReembedInv'
<1> DEFINE there == {r \in run[x].batch : row[r] = "stored"}
           new == [run[x] EXCEPT !.step = "fetch", !.batch = {}]
<1>1. run[x] \in Runs /\ run[x].to \in Target /\ run[x].step \in Writing
  BY DEF ReembedInv, ReembedTypes, Aims, Write, Writing
<1>2. new \in Runs /\ new.to = run[x].to /\ new.step = "fetch"
  BY <1>1 DEF Runs, Step
<1>3. CASE Ends(x) /\ UNCHANGED next
  <2>1. /\ run' \in [Run -> Runs] /\ Aims' /\ Beside(x) /\ run'[x].step = "idle"
    BY <1>3, Leaves DEF ReembedInv
  <2>2. Fitting(x)'
    BY <2>1 DEF Fitting, Writing
  <2> QED
    BY <1>3, <2>1, <2>2, RunOnly DEF Write, Elsewhere, database, processes
<1>4. CASE /\ target # NoIdentity /\ (there = {} \/ DimOf[target] = DimOf[run[x].to])
           /\ next' = [r \in Row |-> IF r \in there THEN run[x].to ELSE next[r]]
           /\ run' = [run EXCEPT ![x] = new]
  <2> HIDE DEF new
  <2>1. /\ run' \in [Run -> Runs] /\ Aims' /\ Beside(x)
        /\ run'[x].to = run[x].to
    BY <1>1, <1>2, <1>4 DEF ReembedInv, ReembedTypes, Aims, Beside
  <2>2. overtaken \/ there = {} \/ run[x].to = target
    BY <1>1, <1>4 DEF ReembedInv, Undisturbed, Fitting
  <2>3. \A r \in there : row[r] = "stored"
    OBVIOUS
  <2> HIDE DEF there
  <2>4. next' \in [Row -> Identity \cup {NoIdentity}] /\ OnlyStored'
    BY <1>1, <1>4, <2>3, ReembedAssumption DEF ReembedInv, ReembedTypes, OnlyStored, Write
  <2>5. overtaken \/ Staged'
    BY <1>4, <2>2 DEF ReembedInv, Undisturbed, Staged, Write
  <2>6. \A y \in Run : Fitting(y) => Fitting(y)'
    BY <1>1, <2>1 DEF Fitting, Beside, Write
  <2>7. Undisturbed'
    BY <2>5, <2>6 DEF ReembedInv, Undisturbed, Write, mixing
  <2>8. Current' /\ OneModel'
    BY DEF ReembedInv, Current, OneModel, Write, Elsewhere, processes, mixing
  <2> QED
    BY <2>1, <2>4, <2>7, <2>8
    DEF ReembedInv, ReembedTypes, Looked, StaleRefused, Write, Elsewhere, processes, mixing
<1> QED
  BY <1>3, <1>4 DEF Write

LEMMA CutoverKeeps == ASSUME ReembedInv, NEW x \in Run, Cutover(x) PROVE ReembedInv'
<1>0. run[x].step = "cutover" /\ run[x].step \in Writing
  BY DEF Cutover, Writing
<1>1. CASE Ours(x) /\ Left = {} /\ Switches(x)
  <2>1. run[x].to \in Target /\ run[x].to \in Identity /\ target \in Identity
    BY <1>0, <1>1, ModelsNamed DEF ReembedInv, ReembedTypes, Aims, Ours
  <2>2. DimOf[target] = DimOf[run[x].to]
    BY <1>1, <2>1, ReembedAssumption DEF Ours
  <2>3. overtaken \/ target = run[x].to
    BY <1>0, <1>1, <2>2 DEF ReembedInv, Undisturbed, Fitting, Ours
  <2>4. run' \in [Run -> Runs] /\ Aims'
    BY <1>1, Leaves DEF ReembedInv, Switches
  <2>5. OnlyStored' /\ Staged'
    BY <1>1 DEF ReembedInv, OnlyStored, Staged, Switches
  <2>6. Undisturbed'
    BY <1>1, <2>5 DEF Undisturbed, Fitting, Switches
  <2>7. /\ mixed' = (overtaken \/ Passing(x) # {}) /\ mixed' \in BOOLEAN
        /\ db' = run[x].to /\ vec' = next
    BY <1>1 DEF Switches
  <2>8. Current'
    BY <2>7 DEF Current, Passing, Cutover, Elsewhere, processes
  <2>9. OneModel'
    BY <2>3, <2>7 DEF ReembedInv, Undisturbed, Staged, OneModel
  <2> QED
    BY <1>1, <2>1, <2>4, <2>5, <2>6, <2>7, <2>8, <2>9
    DEF ReembedInv, ReembedTypes, Looked, StaleRefused, Switches, Cutover, Elsewhere, processes,
        Models
<1>2. CASE /\ run[x].passes < MaxPasses
           /\ run' = [run EXCEPT ![x].step = "fetch", ![x].after = 0, ![x].passes = @ + 1]
           /\ UNCHANGED <<database, mixing>>
  <2> DEFINE passes == run[x].passes + 1
  <2>1. passes \in 0..MaxPasses
    BY <1>2, ReembedAssumption DEF ReembedInv, ReembedTypes, Runs
  <2>2. run' = [run EXCEPT ![x].step = "fetch", ![x].passes = passes, ![x].after = 0]
    BY <1>2 DEF ReembedInv, ReembedTypes, Runs
  <2> HIDE DEF passes
  <2>3. run' \in [Run -> Runs] /\ Aims' /\ Beside(x) /\ run'[x].to = run[x].to
    BY <1>0, <2>1, <2>2, Passes DEF ReembedInv
  <2>4. Fitting(x) => Fitting(x)'
    BY <1>0, <1>2, <2>3 DEF Fitting, database
  <2> QED
    BY <1>2, <2>3, <2>4, RunOnly DEF Cutover, Elsewhere, processes
<1>3. CASE Ends(x) /\ UNCHANGED <<database, mixing>>
  <2>1. /\ run' \in [Run -> Runs] /\ Aims' /\ Beside(x) /\ run'[x].step = "idle"
    BY <1>3, Leaves DEF ReembedInv
  <2>2. Fitting(x)'
    BY <2>1 DEF Fitting, Writing
  <2> QED
    BY <1>3, <2>1, <2>2, RunOnly DEF Cutover, Elsewhere, processes
<1> QED
  BY <1>1, <1>2, <1>3 DEF Cutover

LEMMA CrashKeeps == ASSUME ReembedInv, NEW x \in Run, Crash(x) PROVE ReembedInv'
<1>1. /\ run' \in [Run -> Runs] /\ Aims' /\ Beside(x) /\ run'[x].step = "idle"
  BY Leaves DEF Crash, ReembedInv
<1>2. Fitting(x)'
  BY <1>1 DEF Fitting, Writing
<1> QED
  BY <1>1, <1>2, RunOnly DEF Crash

LEMMA AbortKeeps == ASSUME ReembedInv, Abort PROVE ReembedInv'
<1>1. Staged' /\ \A x \in Run : Fitting(x)'
  BY DEF Abort, Staged, Fitting
<1> QED
  BY <1>1
  DEF ReembedInv, ReembedTypes, Aims, Undisturbed, OnlyStored, Current, OneModel, Looked,
      StaleRefused, Abort, processes, mixing

-----------------------------------------------------------------------------
LEMMA ReembedStarts == ASSUME ReembedInit PROVE ReembedInv
<1>1. NoRun \in Runs /\ NoRun.step = "idle"
  BY ReembedAssumption DEF NoRun, Runs, Step
<1>2. Recheck \in Nat \ {0}
  BY ReembedAssumption
<1>3. overtaken \in BOOLEAN /\ mixed \in BOOLEAN
  BY DEF ReembedInit
<1>4. ReembedTypes
  BY <1>1, <1>2, <1>3, ModelsNamed DEF ReembedInit, ReembedTypes
<1>5. Looked /\ StaleRefused
  BY <1>2 DEF ReembedInit, Looked, StaleRefused
<1> QED
  BY <1>1, <1>4, <1>5
  DEF ReembedInit, ReembedInv, Undisturbed, Aims, OnlyStored, Current, OneModel, Staged, Fitting

LEMMA ReembedStep == ASSUME ReembedInv, [ReembedNext]_reembedVars PROVE ReembedInv'
<1>1. CASE UNCHANGED reembedVars
  BY <1>1
  DEF ReembedInv, ReembedTypes, Aims, OnlyStored, Undisturbed, Staged, Fitting, Current, OneModel,
      Looked, StaleRefused, reembedVars
<1> QED
  BY <1>1, StartKeeps, StopKeeps, InsertKeeps, ForgetKeeps, RecallKeeps, TickKeeps, BeginKeeps,
     PendingKeeps, CheckKeeps, CreateKeeps, FetchKeeps, WriteKeeps, CutoverKeeps, CrashKeeps,
     AbortKeeps DEF ReembedNext

(***************************************************************************)
(* For any records, processes and runs to any targets, in any order of     *)
(* begins, aborts and interruptions (reembed.rs).                          *)
(***************************************************************************)
THEOREM ReembedInvariant == ReembedSpec => []ReembedInv
<1>1. ReembedInit => ReembedInv
  BY ReembedStarts
<1>2. ReembedInv /\ [ReembedNext]_reembedVars => ReembedInv'
  BY ReembedStep
<1> QED
  BY <1>1, <1>2, PTL DEF ReembedSpec

(* Every vector that recall compares was made with the identity the        *)
(* database names, for any models, dimensions and passage prefixes, unless *)
(* the last switch mixed two: by a run beside a rival whose vectors fit    *)
(* its column, or past a process on another prefix of its model            *)
(* (reembed_write, reembed_cutover, the trigger mh_memory_embedder_guard). *)
THEOREM OneModelHolds == ReembedSpec => []OneModel
<1>1. ReembedInv => OneModel
  BY DEF ReembedInv
<1> QED
  BY <1>1, ReembedInvariant, PTL

(* A process on the old model is answered no later than `recheck` after    *)
(* its last look (ensure_current).                                         *)
THEOREM StaleRefusedHolds == ReembedSpec => []StaleRefused
<1>1. ReembedInv => StaleRefused
  BY DEF ReembedInv
<1> QED
  BY <1>1, ReembedInvariant, PTL

(* A switch leaves no record without the vector it had (reembed_cutover).  *)
THEOREM NoVectorLostHolds == ReembedSpec => NoVectorLost
<1>1. ASSUME ReembedInv, [ReembedNext]_reembedVars, NEW r \in Row, vec[r] # NoIdentity,
             row'[r] = "stored"
      PROVE  vec'[r] # NoIdentity
  <2>1. vec \in [Row -> Identity \cup {NoIdentity}] /\ row[r] = "stored"
    BY <1>1 DEF ReembedInv, ReembedTypes, OnlyStored
  <2>2. CASE vec' = vec
    BY <1>1, <2>2
  <2>3. ASSUME NEW p \in Process, NEW s \in Row, NEW v \in Identity \cup {NoIdentity},
               Insert(p, s, v)
        PROVE  vec'[r] # NoIdentity
    BY <1>1, <2>1, <2>3 DEF Insert
  <2>4. ASSUME NEW s \in Row, Forget(s) PROVE vec'[r] # NoIdentity
    BY <1>1, <2>1, <2>4 DEF Forget, ReembedInv, ReembedTypes
  <2>5. ASSUME NEW x \in Run, Cutover(x) PROVE vec'[r] # NoIdentity
    BY <1>1, <2>2, <2>5 DEF Cutover, Switches, Left, database
  <2> QED
    BY <1>1, <2>2, <2>3, <2>4, <2>5
    DEF ReembedNext, reembedVars, Start, Stop, Recall, TimePasses, BeginRun,
        Pending, Check, Create, Fetch, Write, Crash,
        Abort, Elsewhere, database
<1>2. ReembedInv /\ [ReembedNext]_reembedVars =>
        [\A r \in Row :
           vec[r] # NoIdentity /\ row'[r] = "stored" => vec'[r] # NoIdentity]_reembedVars
  BY <1>1
<1> QED
  BY <1>2, ReembedInvariant, PTL DEF ReembedSpec, NoVectorLost
=============================================================================
