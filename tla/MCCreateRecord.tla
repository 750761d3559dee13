---------------------------- MODULE MCCreateRecord ----------------------------
(***************************************************************************)
(* CreateRecord for TLC: a deal with a pipeline alone, one with an owner,  *)
(* a person, and whoami, rehearsed or not.                                 *)
(***************************************************************************)
EXTENDS CreateRecord, TLC

Ask(kind, given, dryRun) == [kind |-> kind, given |-> given, dryRun |-> dryRun]
Nothing == [f \in {} |-> Blank]
Placed == "pipeline_id" :> "p1"
Owned == "owner_id" :> "someone"

MCInputs ==
  {Ask("deal", Placed, TRUE), Ask("deal", Placed, FALSE),
   Ask("deal", Owned, TRUE), Ask("deal", Owned, FALSE),
   Ask("owned", Nothing, TRUE), Ask("whoami", Nothing, FALSE)}
=============================================================================
