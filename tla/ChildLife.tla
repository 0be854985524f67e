------------------------------ MODULE ChildLife ------------------------------
(***************************************************************************)
(* The life of one child as module Processes tells it: graceful_kill is    *)
(* one step to "dying", and a child that is dying exits in the end.        *)
(***************************************************************************)
VARIABLE life

LifeInit == life = "running"

Crashes == life = "running" /\ life' = "crashed"
Killed  == life = "running" /\ life' = "dying"
Exits   == life = "dying" /\ life' = "killed"
Reaped  == life = "crashed" /\ life' = "reaped"

LifeNext == Crashes \/ Killed \/ Exits \/ Reaped

LifeSafety == LifeInit /\ [][LifeNext]_life

LifeSpec == LifeSafety /\ WF_life(Exits)
=============================================================================
