----------------------------- MODULE Governance -----------------------------
(***************************************************************************)
(* What a policy spec compiles to (compile in policy.rs): governance, made *)
(* stricter where the spec says so.  A setting a spec leaves out is Unset; *)
(* a configuration and a compiled policy set every one.  The settings that *)
(* governance does not bound and that are only checked for their range     *)
(* are left to `valid`; the two ranking weights are kept, for they are     *)
(* checked against each other.                                             *)
(***************************************************************************)
EXTENDS Integers

CONSTANTS
  Unset,
  Kind,        \* MemoryKind::ALL
  Category,    \* gate::CATEGORIES, and what a configuration may misspell
  Known,       \* gate::CATEGORIES
  Secret,      \* the category of the security baseline
  Label,
  Specs,       \* the specs authors may propose
  Configs,     \* the configurations the process may be started with
  MaxSetting   \* bound: days and characters

Admission == {"auto", "review"}
Weight == {0, 1}
Setting == 0..MaxSetting

\* The part of the configuration a compiled policy starts from.
Config == [admission : Admission, maxContentChars : Setting, episodicDays : Setting,
           redact : SUBSET Category, deniedLabels : SUBSET Label, auditReads : BOOLEAN,
           keyword : Weight, vector : Weight]

PolicySpec ==
  [valid : BOOLEAN, allowed : (SUBSET Kind) \cup {Unset},
   admission : Admission \cup {Unset}, maxContentChars : Setting \cup {Unset},
   injection : BOOLEAN \cup {Unset}, episodicDays : Setting \cup {Unset},
   redact : (SUBSET Category) \cup {Unset}, deniedLabels : (SUBSET Label) \cup {Unset},
   auditReads : BOOLEAN \cup {Unset},
   ranking : BOOLEAN,  \* there is a ranking section, whatever it sets
   keyword : Weight \cup {Unset}, vector : Weight \cup {Unset}]

Body == [allowed : SUBSET Kind, admission : Admission, maxContentChars : Setting,
         injection : BOOLEAN, episodicDays : Setting, redact : SUBSET Category,
         deniedLabels : SUBSET Label, auditReads : BOOLEAN, keyword : Weight, vector : Weight]

ASSUME GovernanceAssumption ==
  /\ MaxSetting \in Nat
  /\ Known \subseteq Category /\ Secret \in Known
  /\ Unset \notin Admission /\ Unset \notin BOOLEAN /\ Unset \notin Setting
  /\ Specs \subseteq PolicySpec /\ Configs \subseteq Config
  /\ \A s \in Specs : s.keyword # Unset \/ s.vector # Unset => s.ranking

Given(setting, otherwise) == IF setting = Unset THEN otherwise ELSE setting

\* The configuration by itself: every kind, and the security floor.
Floor(c) ==
  [allowed |-> Kind, admission |-> c.admission, maxContentChars |-> c.maxContentChars,
   injection |-> TRUE, episodicDays |-> c.episodicDays, redact |-> c.redact \cup {Secret},
   deniedLabels |-> c.deniedLabels, auditReads |-> c.auditReads,
   keyword |-> c.keyword, vector |-> c.vector]

-----------------------------------------------------------------------------
(* The checks, by setting.                                                 *)

\* 0 days keep episodic memory for ever.
\* Mutant: 0 is taken for the shortest time.
DaysFitAsNumbers(s, c) ==
  s.episodicDays # Unset /\ c.episodicDays > 0 => s.episodicDays <= c.episodicDays

DaysFit(s, c) ==
  s.episodicDays # Unset /\ c.episodicDays > 0 =>
    s.episodicDays > 0 /\ s.episodicDays <= c.episodicDays

CharsFit(s, c) ==
  s.maxContentChars # Unset => s.maxContentChars > 0 /\ s.maxContentChars <= c.maxContentChars

AdmissionFits(s, c) == ~(s.admission = "auto" /\ c.admission = "review")

\* Mutant: a spec may drop what governance redacts, and add nothing.
CategoriesFitUpTo(s, c) ==
  s.redact # Unset =>
    /\ s.redact \subseteq Known
    /\ Secret \in s.redact
    /\ s.redact \subseteq c.redact \cup {Secret}

CategoriesFit(s, c) ==
  s.redact # Unset =>
    /\ s.redact \subseteq Known
    /\ Secret \in s.redact
    /\ c.redact \subseteq s.redact

RecallFits(s, c) ==
  /\ s.deniedLabels # Unset => c.deniedLabels \subseteq s.deniedLabels
  /\ ~(s.auditReads = FALSE /\ c.auditReads)

\* Mutant: the weights are checked as the spec states them.
RankingFitsAsStated(s, c) == ~(s.keyword = 0 /\ s.vector = 0)

\* A spec without a ranking section is not looked at; one that sets no
\* weight in it is, against the weights of the configuration.
RankingFits(s, c) ==
  s.ranking => ~(Given(s.keyword, c.keyword) = 0 /\ Given(s.vector, c.vector) = 0)

Compiles(s, c) ==
  /\ s.valid
  /\ s.allowed # {}
  /\ s.injection # FALSE
  /\ AdmissionFits(s, c) /\ CharsFit(s, c) /\ DaysFit(s, c)
  /\ CategoriesFit(s, c) /\ RecallFits(s, c) /\ RankingFits(s, c)

Compile(s, c) ==
  [allowed |-> Given(s.allowed, Kind),
   admission |-> Given(s.admission, c.admission),
   maxContentChars |-> Given(s.maxContentChars, c.maxContentChars),
   injection |-> TRUE,
   episodicDays |-> Given(s.episodicDays, c.episodicDays),
   redact |-> c.redact \cup {Secret} \cup Given(s.redact, {}),
   deniedLabels |-> c.deniedLabels \cup Given(s.deniedLabels, {}),
   auditReads |-> Given(s.auditReads, c.auditReads),
   keyword |-> Given(s.keyword, c.keyword),
   vector |-> Given(s.vector, c.vector)]

-----------------------------------------------------------------------------
(* One process: the active spec, the configuration it was started with and *)
(* the policy it runs (policy_for).                                        *)

VARIABLES active, config, running

vars == <<active, config, running>>

NoSpec == Unset

\* The active spec, or the default if it does not compile any more.
Runs(s, c) == IF s # NoSpec /\ Compiles(s, c) THEN Compile(s, c) ELSE Floor(c)

TypeOK ==
  /\ active \in Specs \cup {NoSpec}
  /\ config \in Configs
  /\ running \in Body

Init ==
  /\ active = NoSpec
  /\ config \in Configs
  /\ running = Floor(config)

Activate(s) ==
  /\ Compiles(s, config)
  /\ active' = s
  /\ running' = Runs(s, config)
  /\ UNCHANGED config

ActivateDefault ==
  /\ active' = NoSpec
  /\ running' = Runs(NoSpec, config)
  /\ UNCHANGED config

\* Mutant: after a restart the default runs until the next activation.
RestartFromDefault(c) ==
  /\ config' = c
  /\ running' = Floor(c)
  /\ UNCHANGED active

\* An active spec stays active under a configuration it does not compile under.
Restart(c) ==
  /\ config' = c
  /\ running' = Runs(active, c)
  /\ UNCHANGED active

Next ==
  \/ \E s \in Specs : Activate(s)
  \/ ActivateDefault
  \/ \E c \in Configs : Restart(c)

Spec == Init /\ [][Next]_vars

-----------------------------------------------------------------------------
\* For the days, 0 is no limit at all.
Within(days, limit) == limit > 0 => days > 0 /\ days <= limit

AtLeastAsStrict(b, f) ==
  /\ b.allowed \subseteq f.allowed
  /\ f.admission = "review" => b.admission = "review"
  /\ b.maxContentChars <= f.maxContentChars
  /\ f.injection => b.injection
  /\ Within(b.episodicDays, f.episodicDays)
  /\ f.redact \subseteq b.redact
  /\ f.deniedLabels \subseteq b.deniedLabels
  /\ f.auditReads => b.auditReads

(* "The compiler starts from governance and lets a spec only tighten it":  *)
(* whatever spec is active and whatever configuration the process was      *)
(* started with since, the policy that runs is at least as strict as the   *)
(* governance in force (compile, policy_for).                              *)
GovernanceHolds == AtLeastAsStrict(running, Floor(config))

(* Recall never ranks by nothing where the configuration ranks, although   *)
(* one weight may come from the spec and the other from the configuration  *)
(* (the check across keyword_weight and vector_weight).                    *)
RanksSomething ==
  config.keyword # 0 \/ config.vector # 0 => running.keyword # 0 \/ running.vector # 0

Compiling == active # NoSpec /\ Compiles(active, config)

(* A restart under a stricter governance makes the running policy stricter *)
(* as long as the active spec compiles; if it does not, the default takes  *)
(* its place, which may be looser than the spec was.                       *)
StricterStaysStricter ==
  [][active' = active /\ Compiling' /\ AtLeastAsStrict(Floor(config'), Floor(config))
       => AtLeastAsStrict(running', running)]_vars

(* A spec that compiles goes on compiling when governance is loosened: no  *)
(* relaxation of the configuration sends a tenant back to the default.     *)
LooserKeepsCompiling ==
  [][/\ Compiling /\ active' = active
     /\ AtLeastAsStrict(Floor(config), Floor(config'))
     /\ config'.keyword = config.keyword /\ config'.vector = config.vector
     => Compiling']_vars
=============================================================================
