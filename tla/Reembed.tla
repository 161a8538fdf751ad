------------------------------ MODULE Reembed ------------------------------
(***************************************************************************)
(* Moving a database to another embedding model while it is in use         *)
(* (reembed.rs): runs of `memhouse reembed` write vectors of their target  *)
(* into staging columns, and one transaction swaps the columns when no     *)
(* record is left; an operator may abort, and processes that were started  *)
(* before the switch go on writing and recalling.                          *)
(*                                                                         *)
(* Records are numbered in the order of their ids.  One statement or       *)
(* transaction of the store is one action.  The second vector of a round   *)
(* moves with the first, and the audit event after the switch is left out. *)
(***************************************************************************)
EXTENDS Naturals, FiniteSets

CONSTANTS
  Records,     \* bound: records that are ever written
  Process,     \* servers and workers
  Run,         \* runs of `memhouse reembed`
  Identity,    \* EmbeddingIdentity: model, dimension and passage prefix
  NoIdentity,
  NameOf,      \* [Identity -> model]: what the guards compare
  DimOf,       \* [Identity -> dimension]
  First,       \* the identity of the database at first
  Target,      \* the identities operators re-embed to
  Batch,       \* --batch
  MaxPasses,   \* passes of a run before it gives up
  Recheck,     \* ticks for which a process trusts its last look (PgStore.recheck)
  MaxRuns,     \* bound: commands given
  MaxCrashes,  \* bound: runs that are interrupted
  MaxAborts    \* bound

Row == 1..Records

ASSUME ReembedAssumption ==
  /\ Records \in Nat
  /\ NoIdentity \notin Identity
  /\ First \in Identity
  /\ Target \subseteq Identity
  /\ \A i, j \in Identity : NameOf[i] = NameOf[j] => DimOf[i] = DimOf[j]
  /\ Batch \in Nat \ {0} /\ MaxPasses \in Nat \ {0} /\ Recheck \in Nat \ {0}
  /\ MaxRuns \in Nat /\ MaxCrashes \in Nat /\ MaxAborts \in Nat

VARIABLES
  db,       \* the identity in mh_meta
  target,   \* reembed_target_* in mh_meta; the staging columns exist with it
  row,      \* which records mh_memory holds
  vec,      \* the identity a record's vector was made with; some have none
  next,     \* the same of its vector in the staging columns
  up,       \* the identity each process was started with
  trusted,  \* ticks since a process last looked at the database's model
  run,      \* the runs
  begun, crashes, aborts,
  stale,    \* history: ticks a process has been stale since it last looked
  served,   \* history: `stale` when its last recall was answered, if it was stale
  overtaken, \* history: the target was recorded beside a run to another that fits its column
  mixed     \* history: so was that of the last switch, or a process passes for its model

database == <<db, target, row, vec, next>>
processes == <<up, trusted, stale, served>>
mixing == <<overtaken, mixed>>
reembedVars ==
  <<db, target, row, vec, next, up, trusted, run, begun, crashes, aborts, stale, served,
    overtaken, mixed>>

Step == {"idle", "pending", "check", "create", "fetch", "write", "cutover"}

NoRun == [step |-> "idle", to |-> NoIdentity, from |-> NoIdentity,
         after |-> 0, batch |-> {}, passes |-> 0]

ReembedTypeOK ==
  /\ db \in Identity
  /\ target \in Identity \cup {NoIdentity}
  /\ row \in [Row -> {"new", "stored", "gone"}]
  /\ vec \in [Row -> Identity \cup {NoIdentity}]
  /\ next \in [Row -> Identity \cup {NoIdentity}]
  /\ up \in [Process -> Identity \cup {NoIdentity}]
  /\ trusted \in [Process -> 0..Recheck]
  /\ run \in [Run -> [step : Step, to : Identity \cup {NoIdentity},
                      from : Identity \cup {NoIdentity}, after : 0..Records,
                      batch : SUBSET Row, passes : 0..MaxPasses]]
  /\ begun \in 0..MaxRuns /\ crashes \in 0..MaxCrashes /\ aborts \in 0..MaxAborts
  /\ stale \in [Process -> 0..Recheck] /\ served \in [Process -> 0..Recheck]
  /\ overtaken \in BOOLEAN /\ mixed \in BOOLEAN

ReembedInit ==
  /\ db = First
  /\ target = NoIdentity
  /\ row = [r \in Row |-> "new"]
  /\ vec = [r \in Row |-> NoIdentity]
  /\ next = [r \in Row |-> NoIdentity]
  /\ up = [p \in Process |-> NoIdentity]
  /\ trusted = [p \in Process |-> Recheck]
  /\ run = [x \in Run |-> NoRun]
  /\ begun = 0 /\ crashes = 0 /\ aborts = 0
  /\ stale = [p \in Process |-> 0]
  /\ served = [p \in Process |-> 0]
  /\ overtaken = FALSE /\ mixed = FALSE

-----------------------------------------------------------------------------
(* Processes.                                                              *)

(* A process starts only with the configuration the database was embedded  *)
(* with (migrate); it keeps it until it is stopped.                        *)
Start(p) ==
  /\ up[p] = NoIdentity
  /\ up' = [up EXCEPT ![p] = db]
  /\ UNCHANGED <<database, trusted, run, begun, crashes, aborts, stale, served, mixing>>

Stop(p) ==
  /\ up[p] # NoIdentity
  /\ up' = [up EXCEPT ![p] = NoIdentity]
  /\ trusted' = [trusted EXCEPT ![p] = Recheck]
  /\ stale' = [stale EXCEPT ![p] = 0]
  /\ served' = [served EXCEPT ![p] = 0]
  /\ UNCHANGED <<database, run, begun, crashes, aborts, mixing>>

Agrees(p) == NameOf[up[p]] = NameOf[db]

\* Mutant: the database takes a vector of any model.
InsertUnguarded(p, r, v) ==
  /\ up[p] # NoIdentity
  /\ row[r] = "new"
  /\ v \in {up[p], NoIdentity}
  /\ row' = [row EXCEPT ![r] = "stored"]
  /\ vec' = [vec EXCEPT ![r] = v]
  /\ UNCHANGED <<db, target, next, processes, run, begun, crashes, aborts, mixing>>

(* A record is stored with a vector of its process, which the trigger      *)
(* mh_memory_embedder_guard compares with the database's, or without one   *)
(* (rejected, poison).  A refused insert changes nothing.                  *)
Insert(p, r, v) ==
  /\ up[p] # NoIdentity
  /\ row[r] = "new"
  /\ v \in {up[p], NoIdentity}
  /\ v # NoIdentity => Agrees(p)
  /\ row' = [row EXCEPT ![r] = "stored"]
  /\ vec' = [vec EXCEPT ![r] = v]
  /\ UNCHANGED <<db, target, next, processes, run, begun, crashes, aborts, mixing>>

Forget(r) ==
  /\ row[r] = "stored"
  /\ row' = [row EXCEPT ![r] = "gone"]
  /\ vec' = [vec EXCEPT ![r] = NoIdentity]
  /\ next' = [next EXCEPT ![r] = NoIdentity]
  /\ UNCHANGED <<db, target, processes, run, begun, crashes, aborts, mixing>>

\* Mutant: a look that is old enough to be repeated is still trusted.
TrustsTooLong(p) == trusted[p] <= Recheck

\* ensure_current: a recall trusts a look made less than `recheck` ago.
Trusts(p) == trusted[p] < Recheck

(* Otherwise it looks again, and says so before it has the answer: the     *)
(* look counts even if it refuses this recall.                             *)
Recall(p) ==
  /\ up[p] # NoIdentity
  /\ trusted' = IF Trusts(p) THEN trusted ELSE [trusted EXCEPT ![p] = 0]
  /\ stale' = IF Trusts(p) THEN stale ELSE [stale EXCEPT ![p] = 0]
  /\ CASE Agrees(p)               -> served' = [served EXCEPT ![p] = 0]
       [] ~Agrees(p) /\ Trusts(p)  -> served' = [served EXCEPT ![p] = stale[p]]
       [] ~Agrees(p) /\ ~Trusts(p) -> UNCHANGED served  \* refused
  /\ UNCHANGED <<database, up, run, begun, crashes, aborts, mixing>>

More(n) == IF n < Recheck THEN n + 1 ELSE n

TimePasses ==
  /\ trusted' = [p \in Process |-> More(trusted[p])]
  /\ stale' = [p \in Process |->
       IF up[p] # NoIdentity /\ ~Agrees(p) THEN More(stale[p]) ELSE 0]
  /\ UNCHANGED <<database, up, run, begun, crashes, aborts, served, mixing>>

-----------------------------------------------------------------------------
(* Runs of `memhouse reembed`.  What a run will not look at again is put   *)
(* back to its first value.                                                *)

Goto(x, step) == run' = [run EXCEPT ![x].step = step]

Ends(x) == run' = [run EXCEPT ![x] = NoRun]

Elsewhere == UNCHANGED <<processes, begun, crashes, aborts>>

\* The identity the database has, and then the target of an unfinished run.
BeginRun(x, to) ==
  /\ run[x].step = "idle"
  /\ begun < MaxRuns
  /\ begun' = begun + 1
  /\ run' = [run EXCEPT ![x] = [NoRun EXCEPT !.step = "pending", !.to = to, !.from = db]]
  /\ UNCHANGED <<database, processes, crashes, aborts, mixing>>

\* To another target it is refused; with none it may have nothing to do.
Pending(x) ==
  LET a == run[x] IN
  /\ a.step = "pending"
  /\ IF target \notin {a.to, NoIdentity} \/ (target = NoIdentity /\ a.from = a.to)
     THEN Ends(x)
     ELSE run' = [run EXCEPT ![x].step = "check", ![x].from = NoIdentity]
  /\ UNCHANGED <<database, mixing>> /\ Elsewhere

FirstPass(x) ==
  run' = [run EXCEPT ![x].step = "fetch", ![x].passes = 1, ![x].after = 0]

(* reembed_begin looks at the target again: one that is being worked at is *)
(* resumed, another refused.                                               *)
Check(x) ==
  /\ run[x].step = "check"
  /\ CASE target = run[x].to   -> FirstPass(x)
       [] target = NoIdentity  -> Goto(x, "create")
       [] OTHER                -> Ends(x)
  /\ UNCHANGED <<database, mixing>> /\ Elsewhere

Writing == {"fetch", "write", "cutover"}

\* Runs at work to another target: one aborted, or begun at the same moment.
Rivals(x) ==
  {y \in Run : /\ run[y].step \in Writing
               /\ run[y].to # run[x].to /\ DimOf[run[y].to] = DimOf[run[x].to]}

\* One transaction: staging columns are made anew and the target recorded.
Create(x) ==
  /\ run[x].step = "create"
  /\ overtaken' = (Rivals(x) # {})
  /\ target' = run[x].to
  /\ next' = [r \in Row |-> NoIdentity]
  /\ FirstPass(x)
  /\ UNCHANGED <<db, row, vec, mixed>> /\ Elsewhere

Left == {r \in Row : vec[r] # NoIdentity /\ next[r] = NoIdentity}

\* The next records of this pass; without staging columns the query fails.
Fetch(x) ==
  LET rest == {r \in Left : r > run[x].after}
      batch == {r \in rest : Cardinality({s \in rest : s < r}) < Batch}
  IN
  /\ run[x].step = "fetch"
  /\ CASE target = NoIdentity -> Ends(x)
       [] target # NoIdentity /\ rest = {} ->
            run' = [run EXCEPT ![x].step = "cutover", ![x].after = 0]
       [] OTHER -> run' = [run EXCEPT ![x].step = "write", ![x].batch = batch,
                      ![x].after = CHOOSE r \in batch : \A s \in batch : s <= r]
  /\ UNCHANGED <<database, mixing>> /\ Elsewhere

(* The vectors of the batch, after the embedder made them: for the records *)
(* that are still there, and only if they fit the column.                  *)
Write(x) ==
  LET a == run[x]
      there == {r \in a.batch : row[r] = "stored"}
  IN
  /\ a.step = "write"
  /\ IF target # NoIdentity /\ (there = {} \/ DimOf[target] = DimOf[a.to])
     THEN /\ next' = [r \in Row |-> IF r \in there THEN a.to ELSE next[r]]
          /\ run' = [run EXCEPT ![x].step = "fetch", ![x].batch = {}]
     ELSE Ends(x) /\ UNCHANGED next
  /\ UNCHANGED <<db, target, row, vec, mixing>> /\ Elsewhere

Ours(x) == target # NoIdentity /\ NameOf[target] = NameOf[run[x].to]

\* Processes whose writes the trigger takes for the new identity's.
Passing(x) == {p \in Process : /\ up[p] \notin {NoIdentity, run[x].to}
                                /\ NameOf[up[p]] = NameOf[run[x].to]}

Switches(x) ==
  /\ db' = run[x].to
  /\ mixed' = (overtaken \/ Passing(x) # {})
  /\ vec' = next
  /\ next' = [r \in Row |-> NoIdentity]
  /\ target' = NoIdentity
  /\ Ends(x)
  /\ UNCHANGED <<row, overtaken>>

\* Mutant: whether records are left is not looked at.
CutoverUnchecked(x) ==
  /\ run[x].step = "cutover"
  /\ IF Ours(x) THEN Switches(x) ELSE Ends(x) /\ UNCHANGED <<database, mixing>>
  /\ Elsewhere

(* reembed_cutover, under a lock no insert can hold meanwhile: refused if  *)
(* the target is of another model, and put off while records are left.     *)
Cutover(x) ==
  /\ run[x].step = "cutover"
  /\ \/ Ours(x) /\ Left = {} /\ Switches(x)
     \/ /\ Ours(x) /\ Left # {} /\ run[x].passes < MaxPasses
        /\ run' = [run EXCEPT ![x].step = "fetch", ![x].after = 0, ![x].passes = @ + 1]
        /\ UNCHANGED <<database, mixing>>
     \/ /\ ~Ours(x) \/ (Left # {} /\ run[x].passes = MaxPasses)
        /\ Ends(x) /\ UNCHANGED <<database, mixing>>
  /\ Elsewhere

\* The process of a run dies, or its embedder or a statement fails.
Crash(x) ==
  /\ run[x].step # "idle"
  /\ crashes < MaxCrashes
  /\ crashes' = crashes + 1
  /\ Ends(x)
  /\ UNCHANGED <<database, processes, begun, aborts, mixing>>

\* `memhouse reembed --abort`, whether a run is at work or not.
Abort ==
  /\ target # NoIdentity
  /\ aborts < MaxAborts
  /\ aborts' = aborts + 1
  /\ target' = NoIdentity
  /\ next' = [r \in Row |-> NoIdentity]
  /\ UNCHANGED <<db, row, vec, processes, run, begun, crashes, mixing>>

ReembedNext ==
  \/ \E p \in Process : \/ Start(p) \/ Stop(p) \/ Recall(p)
                        \/ \E r \in Row, v \in Identity \cup {NoIdentity} : Insert(p, r, v)
  \/ \E r \in Row : Forget(r)
  \/ \E x \in Run : \/ \E to \in Target : BeginRun(x, to)
                    \/ Pending(x) \/ Check(x) \/ Create(x) \/ Fetch(x)
                    \/ Write(x) \/ Cutover(x) \/ Crash(x)
  \/ Abort
  \/ TimePasses

ReembedSpec == ReembedInit /\ [][ReembedNext]_reembedVars

-----------------------------------------------------------------------------
(* "A database holds one embedder at a time" (docs/operations.md): every   *)
(* vector recall compares was made with the identity the database names,   *)
(* whoever wrote during the runs, however they were interrupted, aborted,  *)
(* resumed or run beside each other.  Not so after a switch whose target   *)
(* was recorded while a run to another of the same dimension was still at  *)
(* work (reembed_write compares nothing but dimensions), or one that a     *)
(* process on another prefix of the same model outlives (the guard on      *)
(* inserts compares models): until the next switch free of both.           *)
OneModel == mixed \/ \A r \in Row : vec[r] # NoIdentity => vec[r] = db

(* No record that has a vector loses it in a switch: one written during    *)
(* the last pass is not left behind (the count in reembed_cutover).        *)
NoVectorLost ==
  [][\A r \in Row : vec[r] # NoIdentity /\ row'[r] = "stored" => vec'[r] # NoIdentity]_reembedVars

(* A process on the old model is refused a recall within `recheck` of the  *)
(* switch, and again within `recheck` of the last time (ensure_current).   *)
StaleRefused == \A p \in Process : served[p] < Recheck
=============================================================================
