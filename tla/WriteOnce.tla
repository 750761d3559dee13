------------------------------ MODULE WriteOnce ------------------------------
(***************************************************************************)
(* What one create, update or delete promises its caller, whatever the     *)
(* network does: the record changes at most once, "ok" is said only of a   *)
(* change that was made, and a definite "no" only when none was made and   *)
(* none can still be made.  "maybe" promises nothing.                      *)
(*                                                                         *)
(* PipedriveCall is shown to implement this module.                        *)
(***************************************************************************)

CONSTANT Writes   \* the calls that are writes

VARIABLES
  effect,  \* effect[w]: "open" (may still happen), "made" or "void" (never)
  verdict  \* verdict[w]: what the caller was told, "none" until it is told

vars == <<effect, verdict>>

Init ==
  /\ effect = [w \in Writes |-> "open"]
  /\ verdict = [w \in Writes |-> "none"]

\* The record changes.  It may do so after the caller was told "maybe".
Make(w) ==
  /\ effect[w] = "open"
  /\ effect' = [effect EXCEPT ![w] = "made"]
  /\ UNCHANGED verdict

\* The last request that could have made the change is gone.
Expire(w) ==
  /\ effect[w] = "open"
  /\ verdict[w] = "maybe"
  /\ effect' = [effect EXCEPT ![w] = "void"]
  /\ UNCHANGED verdict

TellOk(w) ==
  /\ verdict[w] = "none"
  /\ effect[w] = "made"
  /\ verdict' = [verdict EXCEPT ![w] = "ok"]
  /\ UNCHANGED effect

TellNo(w) ==
  /\ verdict[w] = "none"
  /\ effect[w] = "open"
  /\ effect' = [effect EXCEPT ![w] = "void"]
  /\ verdict' = [verdict EXCEPT ![w] = "no"]

\* The answer is lost; the change was made, can still be made, or cannot.
TellMaybe(w) ==
  /\ verdict[w] = "none"
  /\ verdict' = [verdict EXCEPT ![w] = "maybe"]
  /\ \/ UNCHANGED effect
     \/ effect[w] = "open" /\ effect' = [effect EXCEPT ![w] = "void"]

Next == \E w \in Writes :
  Make(w) \/ Expire(w) \/ TellOk(w) \/ TellNo(w) \/ TellMaybe(w)

Spec == Init /\ [][Next]_vars
=============================================================================
