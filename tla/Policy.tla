------------------------------- MODULE Policy -------------------------------
(***************************************************************************)
(* Which behaviour policy an operation runs under (policy.rs): versions of *)
(* one tenant are proposed, approved and rolled back in the database, and  *)
(* every engine process serves its operations from a cache it refreshes    *)
(* (policy_for).                                                           *)
(*                                                                         *)
(* A compiled policy is the governance it was compiled under with a        *)
(* version, or with Default: what the governance compiles to by itself.    *)
(* One call of the store is one action.  An activation's id is drawn and   *)
(* committed in one step here: one that commits behind a later id is never *)
(* active, as if it had come before it.                                    *)
(***************************************************************************)
EXTENDS Naturals, Sequences

CONSTANTS
  Engine,
  Task,           \* operations in flight at once
  Admin,          \* policy changes in flight at once
  Governance,
  NoGovernance,
  EngineOf,       \* [Task -> Engine]
  Versions,       \* bound: specs proposed
  Compiles,       \* [Governance -> SUBSET (1..Versions)]
  Refresh,        \* REFRESH, in ticks
  MaxStall,       \* bound: ticks between a task's read and its put
  MaxClock,       \* bound
  MaxActivations, \* bound
  MaxRestarts     \* bound

Version == 1..Versions
Default == 0

ASSUME PolicyAssumption ==
  /\ Engine # {} /\ Governance # {} /\ NoGovernance \notin Governance
  /\ EngineOf \in [Task -> Engine]
  /\ Versions \in Nat
  /\ Compiles \in [Governance -> SUBSET Version]
  /\ Refresh \in Nat \ {0} /\ MaxStall \in Nat /\ MaxClock \in Nat
  /\ MaxActivations \in Nat /\ MaxRestarts \in Nat

VARIABLES
  spec,     \* mh_policy_spec.status, by version
  log,      \* mh_policy_activation, oldest first
  recorded, \* mh_policy: the compiled policies kept
  gov,      \* the governance each engine was started with
  cache,    \* PolicyCache
  task,     \* the policy_for of each operation
  admin,    \* the approve and rollback calls
  clock, restarts

vars == <<spec, log, recorded, gov, cache, task, admin, clock, restarts>>

Compiled == (Governance \cup {NoGovernance}) \X (Version \cup {Default})

NoPolicy == <<NoGovernance, Default>>

\* `at` is history: how many activations the read behind it had seen.
NoEntry == [policy |-> NoPolicy, active |-> Default, age |-> Refresh, at |-> 0]

Idle == [step |-> "idle", active |-> Default, at |-> 0, stall |-> 0,
         policy |-> NoPolicy]

NoCall == [step |-> "idle", kind |-> "none", engine |-> CHOOSE e \in Engine : TRUE,
           to |-> Default]

TypeOK ==
  /\ spec \in [Version -> {"none", "proposed", "approved"}]
  /\ log \in Seq([version : Version \cup {Default}, kind : {"approve", "rollback"},
                  when : 0..MaxClock])
  /\ recorded \subseteq Compiled
  /\ gov \in [Engine -> Governance]
  /\ cache \in [Engine -> [policy : Compiled, active : Version \cup {Default},
                           age : 0..Refresh, at : 0..MaxActivations]]
  /\ task \in [Task -> [step : {"idle", "ask", "confirm", "record", "put", "use"},
                        active : Version \cup {Default}, at : 0..MaxActivations,
                        stall : 0..MaxStall, policy : Compiled]]
  /\ admin \in [Admin -> [step : {"idle", "record", "activate", "invalidate", "audit"},
                          kind : {"none", "approve", "rollback"}, engine : Engine,
                          to : Version \cup {Default}]]
  /\ clock \in 0..MaxClock /\ restarts \in 0..MaxRestarts

Init ==
  /\ spec = [v \in Version |-> "none"]
  /\ log = <<>>
  /\ recorded = {}
  /\ gov \in [Engine -> Governance]
  /\ cache = [e \in Engine |-> NoEntry]
  /\ task = [t \in Task |-> Idle]
  /\ admin = [a \in Admin |-> NoCall]
  /\ clock = 0 /\ restarts = 0

-----------------------------------------------------------------------------
(* policy_for.                                                             *)

Active == IF log = <<>> THEN Default ELSE log[Len(log)].version

\* Mutant: the active version runs though it does not compile.
CompiledAnyway(e, v) == <<gov[e], v>>

\* The default runs in place of a version the governance refuses.
CompiledFor(e, v) == <<gov[e], IF v \in Compiles[gov[e]] THEN v ELSE Default>>

\* Mutant: an entry is trusted until it is invalidated.
FreshForever(e) == cache[e].policy # NoPolicy

Fresh(e) == cache[e].policy # NoPolicy /\ cache[e].age < Refresh

Uses(t, policy, at) ==
  task' = [task EXCEPT ![t] = [Idle EXCEPT !.step = "use", !.policy = policy, !.at = at]]

Begin(t) ==
  LET e == EngineOf[t] IN
  /\ task[t].step = "idle"
  /\ task' = [task EXCEPT ![t] =
       IF Fresh(e)
       THEN [Idle EXCEPT !.step = "use", !.policy = cache[e].policy, !.at = cache[e].at]
       ELSE [Idle EXCEPT !.step = "ask"]]
  /\ UNCHANGED <<spec, log, recorded, gov, cache, admin, clock, restarts>>

Ask(t) ==
  /\ task[t].step = "ask"
  /\ task' = [task EXCEPT ![t].step = "confirm", ![t].active = Active, ![t].at = Len(log)]
  /\ UNCHANGED <<spec, log, recorded, gov, cache, admin, clock, restarts>>

\* The entry is good for another Refresh if it was compiled from this version.
Confirm(t) ==
  LET e == EngineOf[t] IN
  /\ task[t].step = "confirm"
  /\ IF cache[e].policy # NoPolicy /\ cache[e].active = task[t].active
     THEN /\ cache' = [cache EXCEPT ![e].age = 0, ![e].at = task[t].at]
          /\ Uses(t, cache[e].policy, task[t].at)
     ELSE /\ task' = [task EXCEPT ![t].step = "record",
                                  ![t].policy = CompiledFor(e, task[t].active)]
          /\ UNCHANGED cache
  /\ UNCHANGED <<spec, log, recorded, gov, admin, clock, restarts>>

\* Mutant: whether the policy could be kept is not looked at.
RecordIfItCan(t) ==
  /\ task[t].step = "record"
  /\ recorded' = recorded \cup {task[t].policy} \/ recorded' = recorded
  /\ task' = [task EXCEPT ![t].step = "put"]
  /\ UNCHANGED <<spec, log, gov, cache, admin, clock, restarts>>

Record(t) ==
  /\ task[t].step = "record"
  /\ recorded' = recorded \cup {task[t].policy}
  /\ task' = [task EXCEPT ![t].step = "put"]
  /\ UNCHANGED <<spec, log, gov, cache, admin, clock, restarts>>

\* Whatever was activated or invalidated since the read.
Put(t) ==
  /\ task[t].step = "put"
  /\ cache' = [cache EXCEPT ![EngineOf[t]] =
       [policy |-> task[t].policy, active |-> task[t].active, age |-> 0, at |-> task[t].at]]
  /\ Uses(t, task[t].policy, task[t].at)
  /\ UNCHANGED <<spec, log, recorded, gov, admin, clock, restarts>>

\* The operation ends, or a call of the store failed and it was refused.
End(t) ==
  /\ task[t].step \in {"use", "ask", "record"}
  /\ task' = [task EXCEPT ![t] = Idle]
  /\ UNCHANGED <<spec, log, recorded, gov, cache, admin, clock, restarts>>

-----------------------------------------------------------------------------
(* Changing it.                                                            *)

\* The next number; of two proposals that draw the same, one is refused.
Propose(v) ==
  /\ spec[v] = "none"
  /\ \A u \in Version : u < v => spec[u] # "none"
  /\ \E e \in Engine : v \in Compiles[gov[e]]
  /\ spec' = [spec EXCEPT ![v] = "proposed"]
  /\ UNCHANGED <<log, recorded, gov, cache, task, admin, clock, restarts>>

Starts(a, e, kind, to) ==
  admin' = [admin EXCEPT ![a] =
    [step |-> "record", kind |-> kind, engine |-> e, to |-> to]]

Approve(a, e, v) ==
  /\ admin[a].step = "idle"
  /\ spec[v] = "proposed"
  /\ v \in Compiles[gov[e]]
  /\ Starts(a, e, "approve", v)
  /\ UNCHANGED <<spec, log, recorded, gov, cache, task, clock, restarts>>

\* The version named, or the one active before the current one: an approved
\* one that compiles, or the default.
Rollback(a, e, to) ==
  /\ admin[a].step = "idle"
  /\ to # Default => spec[to] = "approved" /\ to \in Compiles[gov[e]]
  /\ Starts(a, e, "rollback", to)
  /\ UNCHANGED <<spec, log, recorded, gov, cache, task, clock, restarts>>

AdminRecords(a) ==
  /\ admin[a].step = "record"
  /\ recorded' = recorded \cup {<<gov[admin[a].engine], admin[a].to>>}
  /\ admin' = [admin EXCEPT ![a].step = "activate"]
  /\ UNCHANGED <<spec, log, gov, cache, task, clock, restarts>>

Refused(a) == admin' = [admin EXCEPT ![a] = NoCall]

\* An activation is answered, or its answer is lost.
Activates(a) ==
  /\ Len(log) < MaxActivations
  /\ log' = Append(log, [version |-> admin[a].to, kind |-> admin[a].kind, when |-> clock])
  /\ \/ admin' = [admin EXCEPT ![a].step = "invalidate"]
     \/ Refused(a)

\* Mutant: a version that was approved meanwhile is approved again.
ActivateUnchecked(a) ==
  /\ admin[a].step = "activate"
  /\ Activates(a)
  /\ spec' = IF admin[a].kind = "approve" THEN [spec EXCEPT ![admin[a].to] = "approved"] ELSE spec
  /\ UNCHANGED <<recorded, gov, cache, task, clock, restarts>>

Activate(a) ==
  LET v == admin[a].to IN
  /\ admin[a].step = "activate"
  /\ \/ /\ admin[a].kind = "rollback"
        /\ Activates(a)
        /\ UNCHANGED spec
     \/ /\ admin[a].kind = "approve" /\ spec[v] = "proposed"
        /\ Activates(a)
        /\ spec' = [spec EXCEPT ![v] = "approved"]
     \/ /\ admin[a].kind = "approve" /\ spec[v] # "proposed"
        /\ Refused(a)
        /\ UNCHANGED <<spec, log>>
  /\ UNCHANGED <<recorded, gov, cache, task, clock, restarts>>

Invalidate(a) ==
  /\ admin[a].step = "invalidate"
  /\ cache' = [cache EXCEPT ![admin[a].engine] = NoEntry]
  /\ admin' = [admin EXCEPT ![a].step = "audit"]
  /\ UNCHANGED <<spec, log, recorded, gov, task, clock, restarts>>

\* The audit event of the change, and the answer.
Audit(a) ==
  /\ admin[a].step = "audit"
  /\ Refused(a)
  /\ UNCHANGED <<spec, log, recorded, gov, cache, task, clock, restarts>>

\* A call of the store fails, and the change is answered with an error.
AdminFails(a) ==
  /\ admin[a].step \in {"record", "activate", "audit"}
  /\ Refused(a)
  /\ UNCHANGED <<spec, log, recorded, gov, cache, task, clock, restarts>>

-----------------------------------------------------------------------------
\* A process starts again, maybe with another configuration.
Restart(e, g) ==
  /\ restarts < MaxRestarts
  /\ restarts' = restarts + 1
  /\ gov' = [gov EXCEPT ![e] = g]
  /\ cache' = [cache EXCEPT ![e] = NoEntry]
  /\ task' = [t \in Task |-> IF EngineOf[t] = e THEN Idle ELSE task[t]]
  /\ admin' = [a \in Admin |-> IF admin[a].engine = e THEN NoCall ELSE admin[a]]
  /\ UNCHANGED <<spec, log, recorded, clock>>

Reading(t) == task[t].step \in {"confirm", "record", "put"}

Tick ==
  /\ clock < MaxClock
  /\ \A t \in Task : Reading(t) => task[t].stall < MaxStall
  /\ clock' = clock + 1
  /\ cache' = [e \in Engine |->
       [cache[e] EXCEPT !.age = IF @ < Refresh THEN @ + 1 ELSE @]]
  /\ task' = [t \in Task |-> IF Reading(t) THEN [task[t] EXCEPT !.stall = @ + 1] ELSE task[t]]
  /\ UNCHANGED <<spec, log, recorded, gov, admin, restarts>>

Next ==
  \/ \E t \in Task : Begin(t) \/ Ask(t) \/ Confirm(t) \/ Record(t) \/ Put(t) \/ End(t)
  \/ \E v \in Version : Propose(v)
  \/ \E a \in Admin :
       \/ \E e \in Engine, v \in Version : Approve(a, e, v)
       \/ \E e \in Engine, to \in Version \cup {Default} : Rollback(a, e, to)
       \/ AdminRecords(a) \/ Activate(a) \/ Invalidate(a) \/ Audit(a) \/ AdminFails(a)
  \/ \E e \in Engine, g \in Governance : Restart(e, g)
  \/ Tick

Spec == Init /\ [][Next]_vars

-----------------------------------------------------------------------------
Using(t) == task[t].step = "use"

(* No operation, whatever was cached and whoever restarts, runs a policy   *)
(* that is not kept: every version a record can carry has a body in        *)
(* mh_policy ("recorded before any record can carry its version").         *)
KeptBeforeUsed == \A t \in Task : Using(t) => task[t].policy \in recorded

(* An operation runs under the governance of its own process: a version    *)
(* approved where it compiled never runs where it does not, not even from  *)
(* the cache (compile_record, policy_for).                                 *)
GovernanceWins ==
  \A t \in Task : Using(t) =>
    /\ task[t].policy[1] = gov[EngineOf[t]]
    /\ task[t].policy[2] \in Compiles[gov[EngineOf[t]]] \cup {Default}

(* A version is approved once, however many approvers press the button,    *)
(* and active only from then on: every rollback to it comes later.         *)
ApprovedOnceFirst ==
  \A v \in Version, i \in 1..Len(log) : log[i].version = v =>
    \E j \in 1..i : /\ log[j].version = v /\ log[j].kind = "approve"
                    /\ \A k \in 1..Len(log) :
                         log[k].version = v /\ log[k].kind = "approve" => k = j

\* For how long the policy a task uses has not been the active one.
Late(t) == IF task'[t].at < Len(log') THEN clock' - log'[task'[t].at + 1].when ELSE 0

Taking(t) == ~Using(t) /\ task'[t].step = "use"

(* Every engine picks up an activation in the time its cache trusts an     *)
(* entry, after the slowest refresh (fresh, confirm, put).                 *)
PickedUp == [][\A t \in Task : Taking(t) => Late(t) < Refresh + MaxStall]_vars

=============================================================================
