----------------------------- MODULE MCFieldCache -----------------------------
(***************************************************************************)
(* FieldCache for TLC.  Calls are interchangeable and so are entries, and  *)
(* a symmetry set would not do for liveness: both are numbers instead, and *)
(* are taken in their order.  The one warm-up there is was started before  *)
(* any call could arrive (server.go, New), so only the first is one.       *)
(* Encode goes through the cache as Resolve does, so the last call alone   *)
(* chooses between the two.                                                *)
(***************************************************************************)
EXTENDS FieldCache

InOrder ==
  /\ \A o \in Ops : (pc[o] = "idle" /\ pc'[o] # "idle") => \A p \in 1 .. o - 1 : pc[p] # "idle"
  /\ \A o \in Ops \ {1} : kind'[o] # "warm"
  /\ \A o \in Ops \ {3} : kind'[o] # "encode"
  /\ \A e \in Unused : (cur' = e) => \A d \in Unused : e <= d
=============================================================================
