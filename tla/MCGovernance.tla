---------------------------- MODULE MCGovernance ----------------------------
(***************************************************************************)
(* Specs that set at most two settings, and configurations that differ     *)
(* from a plain one or a strict one in at most one.                        *)
(***************************************************************************)
EXTENDS Governance, FiniteSets

MCKind == {"episodic"}
MCKnown == {"secret", "email"}
MCCategory == MCKnown \cup {"emial"}
MCLabel == {"legal"}

EmptySpec ==
  [valid |-> TRUE, allowed |-> Unset, admission |-> Unset, maxContentChars |-> Unset,
   injection |-> Unset, episodicDays |-> Unset, redact |-> Unset, deniedLabels |-> Unset,
   auditReads |-> Unset, ranking |-> FALSE, keyword |-> Unset, vector |-> Unset]

PlainConfig ==
  [admission |-> "auto", maxContentChars |-> MaxSetting, episodicDays |-> 0, redact |-> {},
   deniedLabels |-> {}, auditReads |-> FALSE, keyword |-> 1, vector |-> 1]

StrictConfig ==
  [admission |-> "review", maxContentChars |-> 1, episodicDays |-> 1, redact |-> {"email"},
   deniedLabels |-> MCLabel, auditReads |-> TRUE, keyword |-> 1, vector |-> 0]

\* The records one step away from those of S.
SpecsBy(S) ==
  UNION {{[s EXCEPT !.valid = x] : x \in BOOLEAN} : s \in S} \cup
  UNION {{[s EXCEPT !.allowed = x] : x \in SUBSET MCKind} : s \in S} \cup
  UNION {{[s EXCEPT !.admission = x] : x \in Admission} : s \in S} \cup
  UNION {{[s EXCEPT !.maxContentChars = x] : x \in Setting} : s \in S} \cup
  UNION {{[s EXCEPT !.injection = x] : x \in BOOLEAN} : s \in S} \cup
  UNION {{[s EXCEPT !.episodicDays = x] : x \in Setting} : s \in S} \cup
  UNION {{[s EXCEPT !.redact = x] : x \in SUBSET MCCategory} : s \in S} \cup
  UNION {{[s EXCEPT !.deniedLabels = x] : x \in SUBSET MCLabel} : s \in S} \cup
  UNION {{[s EXCEPT !.auditReads = x] : x \in BOOLEAN} : s \in S} \cup
  {[s EXCEPT !.ranking = TRUE] : s \in S} \cup
  UNION {{[s EXCEPT !.ranking = TRUE, !.keyword = x] : x \in Weight} : s \in S} \cup
  UNION {{[s EXCEPT !.ranking = TRUE, !.vector = x] : x \in Weight} : s \in S}

ConfigsBy(S) ==
  UNION {{[c EXCEPT !.admission = x] : x \in Admission} : c \in S} \cup
  UNION {{[c EXCEPT !.maxContentChars = x] : x \in Setting} : c \in S} \cup
  UNION {{[c EXCEPT !.episodicDays = x] : x \in Setting} : c \in S} \cup
  UNION {{[c EXCEPT !.redact = x] : x \in SUBSET MCCategory} : c \in S} \cup
  UNION {{[c EXCEPT !.deniedLabels = x] : x \in SUBSET MCLabel} : c \in S} \cup
  UNION {{[c EXCEPT !.auditReads = x] : x \in BOOLEAN} : c \in S} \cup
  UNION {{[c EXCEPT !.keyword = x] : x \in Weight} : c \in S} \cup
  UNION {{[c EXCEPT !.vector = x] : x \in Weight} : c \in S}

MCSpecs == SpecsBy(SpecsBy({EmptySpec}))
MCConfigs == ConfigsBy({PlainConfig, StrictConfig})
=============================================================================
