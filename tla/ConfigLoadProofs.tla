-------------------------- MODULE ConfigLoadProofs --------------------------
(***************************************************************************)
(* The configuration in force is whole, for every set of fields and values *)
(* and any number of edits.  A file that is complete holds a version that  *)
(* the operator completed; Load takes that version or none.                *)
(***************************************************************************)
EXTENDS ConfigLoad, TLAPS

WholeFile == /\ version \in Versions
             /\ file = "whole" => version \in edited

ConfigInv == WholeFile /\ ConfigIsWhole

\* What Parsed returns is the defaults or agrees with the version.
LEMMA ParsedIsWhole ==
  ASSUME NEW v \in Versions
  PROVE  \/ Parsed(v) = Defaults
         \/ \A f \in Fields : \/ Parsed(v)[f] = v[f]
                              \/ v[f] = Absent /\ Parsed(v)[f] = Default
BY DEF Parsed

\* A configuration stays whole when more versions are completed.
LEMMA WholeIsStable ==
  ASSUME ConfigIsWhole, edited \subseteq edited', config' = config
  PROVE  ConfigIsWhole'
BY DEF ConfigIsWhole, Defaults

LEMMA NextConfigInv == ConfigInv /\ [Next]_configVars => ConfigInv'
<1> SUFFICES ASSUME ConfigInv, [Next]_configVars PROVE ConfigInv'
  OBVIOUS
<1> USE DEF ConfigInv, WholeFile, operator
<1>1. CASE \E v \in Versions : BeginEdit(v)
  BY <1>1, WholeIsStable DEF BeginEdit
<1>2. CASE FinishEdit
  BY <1>2, WholeIsStable DEF FinishEdit
<1>3. CASE Remove
  BY <1>3, WholeIsStable DEF Remove
<1>4. CASE Start
  <2>1. ConfigIsWhole'
    BY <1>4 DEF Start, ConfigIsWhole, Defaults
  <2> QED BY <1>4, <2>1 DEF Start
<1>5. CASE Load
  <2>1. CASE file = "whole"
    <3>1. config' = Parsed(version) /\ edited' = edited /\ version \in edited
      BY <1>5, <2>1 DEF Load
    <3>2. ConfigIsWhole'
      BY <3>1, ParsedIsWhole DEF ConfigIsWhole, Defaults
    <3> QED BY <1>5, <3>2 DEF Load
  <2>2. CASE file # "whole"
    <3>1. ConfigIsWhole'
      BY <1>5, <2>2 DEF Load, ConfigIsWhole, Defaults
    <3> QED BY <1>5, <3>1 DEF Load
  <2> QED BY <2>1, <2>2
<1>6. CASE Exits
  BY <1>6, WholeIsStable DEF Exits
<1>7. CASE UNCHANGED configVars
  BY <1>7, WholeIsStable DEF configVars
<1> QED BY <1>1, <1>2, <1>3, <1>4, <1>5, <1>6, <1>7 DEF Next, Operator

\* The daemon never runs with part of a configuration.
THEOREM ConfigStaysWhole == Spec => []ConfigIsWhole
<1>1. Init => ConfigInv
  BY DEF Init, ConfigInv, WholeFile, ConfigIsWhole, Versions
<1>2. ConfigInv => ConfigIsWhole
  BY DEF ConfigInv
<1> QED BY <1>1, <1>2, NextConfigInv, PTL DEF Spec

\* A finished file without a misfit is obeyed in every value it sets.
THEOREM FilesAreObeyed == Spec => OverridesHold
<1> DEFINE Obeyed == at' = "up" /\ at # "up" /\ file = "whole"
                       /\ (\A f \in Fields : version[f] # Unfit)
                     => \A f \in Fields : version[f] \in Values => config'[f] = version[f]
<1>1. [Next]_configVars => [Obeyed]_configVars
  <2> SUFFICES ASSUME Next, at' = "up", at # "up", file = "whole",
                      \A f \in Fields : version[f] # Unfit,
                      NEW f \in Fields, version[f] \in Values
               PROVE  config'[f] = version[f]
    OBVIOUS
  <2>1. Load
    BY DEF Next, Operator, BeginEdit, FinishEdit, Remove, Start, Exits
  <2>2. config' = Parsed(version)
    BY <2>1 DEF Load
  <2>3. version[f] # Absent
    BY ValuesAssumption
  <2> QED BY <2>2, <2>3 DEF Parsed
<1> QED BY <1>1, PTL DEF Spec, OverridesHold
=============================================================================
