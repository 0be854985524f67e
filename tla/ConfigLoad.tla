----------------------------- MODULE ConfigLoad -----------------------------
(***************************************************************************)
(* Config::load_with_warnings (src/src/config.rs) against an operator who  *)
(* edits the file at any moment, and init, which starts the daemon again   *)
(* when it has gone.                                                       *)
(*                                                                         *)
(* The operator removes the file, writes it in place, which truncates it   *)
(* first, or makes it unreadable.  A complete version gives each field a   *)
(* value, no value, or one that does not fit its type.  What is not        *)
(* complete is not JSON.                                                   *)
(***************************************************************************)
EXTENDS Naturals, FiniteSets

CONSTANTS
  Fields,      \* fields of Config
  Values,      \* what a version may set a field to
  MaxEdits     \* bound: different versions that are completed

Default == "default"
Absent  == "absent"
Unfit   == "unfit"

ASSUME ValuesAssumption == Values \cap {Default, Absent, Unfit} = {}

VARIABLES
  file,        \* "missing", "partial", "unreadable", "whole"
  version,     \* the version that is being written, or in the file
  edited,      \* the versions that were ever completed
  at,          \* the daemon: "down", "found" (exists() was true), "up"
  config       \* the configuration in force

operator   == <<file, version, edited>>
configVars == <<file, version, edited, at, config>>

Versions == [Fields -> {Absent, Unfit} \cup Values]
Defaults == [f \in Fields |-> Default]

Init ==
  /\ file = "missing" /\ version = [f \in Fields |-> Absent] /\ edited = {}
  /\ at = "down" /\ config = Defaults

-----------------------------------------------------------------------------
(* The operator.                                                           *)

BeginEdit(v) ==
  /\ file' = "partial" /\ version' = v
  /\ UNCHANGED <<edited, at, config>>

FinishEdit ==
  /\ file = "partial"
  /\ file' = "whole" /\ edited' = edited \cup {version}
  /\ Cardinality(edited') <= MaxEdits
  /\ UNCHANGED <<version, at, config>>

Remove ==
  /\ file' \in {"missing", "unreadable"}
  /\ UNCHANGED <<version, edited, at, config>>

-----------------------------------------------------------------------------
(* The daemon.                                                             *)

\* path.exists().
Start ==
  /\ at = "down"
  /\ at' = IF file = "missing" THEN "up" ELSE "found"
  /\ config' = Defaults
  /\ UNCHANGED operator

\* Fault variant: a value that does not fit is replaced by its default.
Parsed_Fieldwise(v) ==
  [f \in Fields |-> IF v[f] \in {Absent, Unfit} THEN Default ELSE v[f]]

\* Fault variant: without #[serde(default)] a missing field is an error.
Parsed_AllRequired(v) ==
  IF \E f \in Fields : v[f] \in {Absent, Unfit} THEN Defaults ELSE v

\* serde_json::from_str, or the defaults: one field of a wrong type is an error.
Parsed(v) ==
  IF \E f \in Fields : v[f] = Unfit THEN Defaults
  ELSE [f \in Fields |-> IF v[f] = Absent THEN Default ELSE v[f]]

\* read_to_string and the rest; the file may have gone since exists().
Load ==
  /\ at = "found"
  /\ at' = "up"
  /\ config' = IF file = "whole" THEN Parsed(version) ELSE Defaults
  /\ UNCHANGED operator

Exits ==
  /\ at = "up"
  /\ at' = "down"
  /\ UNCHANGED <<operator, config>>

Operator == (\E v \in Versions : BeginEdit(v)) \/ FinishEdit \/ Remove

Next == Operator \/ Start \/ Load \/ Exits

Spec == Init /\ [][Next]_configVars

-----------------------------------------------------------------------------
(* Properties.                                                             *)

(***************************************************************************)
(* The daemon runs with the defaults or with one whole version of the      *)
(* operator's, never with part of one: not while the file is written, not  *)
(* if a field of it is wrong, not if it goes between exists() and read.    *)
(***************************************************************************)
ConfigIsWhole ==
  \/ config = Defaults
  \/ \E v \in edited : \A f \in Fields :
       config[f] = v[f] \/ (v[f] = Absent /\ config[f] = Default)

(***************************************************************************)
(* A daemon that comes up with a finished file, all of whose values fit,   *)
(* obeys every value in it, whatever the file leaves out and however it    *)
(* was edited before.                                                      *)
(***************************************************************************)
OverridesHold ==
  [][at' = "up" /\ at # "up" /\ file = "whole" /\ (\A f \in Fields : version[f] # Unfit)
       => \A f \in Fields : version[f] \in Values => config'[f] = version[f]]_configVars
=============================================================================
