---------------------------- MODULE MCGuardedWrite ----------------------------
(***************************************************************************)
(* GuardedWrite for TLC: a typed field, a field Pipedrive derives, and a   *)
(* custom field the workspace called like the derived one.                 *)
(***************************************************************************)
EXTENDS GuardedWrite, TLC

CONSTANTS title, name, cf, a, b

MCNameOf == (title :> "title") @@ (name :> "name") @@ (cf :> "name")

Plain(req, overwrite) ==
  [req |-> req, overwrite |-> overwrite, all |-> FALSE, checks |-> FALSE, dryRun |-> FALSE]
Checked(i) == [i EXCEPT !.checks = TRUE]
Dry(i) == [i EXCEPT !.dryRun = TRUE]
Transition(req) == [Plain(req, {}) EXCEPT !.all = TRUE]

\* An edit with and without its permit, checked; a transition, real and rehearsed; a
\* custom field alone, and with the typed one.
MCInputs == {
  Plain(title :> a, {}),
  Checked(Plain(title :> a, {"title"})), Dry(Transition(title :> a)),
  Transition(title :> a),
  Plain(cf :> b, {"name"}), Plain((title :> a) @@ (cf :> b), {"title"})}
MCStarts == {
  [f \in Fields |-> IF f = cf THEN a ELSE b],
  [f \in Fields |-> IF f = cf THEN a ELSE Blank]}
Symmetry == Permutations(Sessions)
=============================================================================
