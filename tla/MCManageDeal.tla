----------------------------- MODULE MCManageDeal -----------------------------
(***************************************************************************)
(* ManageDeal for TLC: one input per action, with fields passed that the   *)
(* action does not take, and a lost and an open deal, one of them archived.*)
(***************************************************************************)
EXTENDS ManageDeal, TLC

Ask(action, given, overwrite) ==
  [action |-> action, given |-> given, overwrite |-> overwrite,
   checks |-> FALSE, dryRun |-> FALSE]
Checked(i) == [i EXCEPT !.checks = TRUE]
Dry(i) == [i EXCEPT !.dryRun = TRUE]
Nothing == [f \in {} |-> ""]

MCInputs == {
  Checked(Ask("update", "title" :> "b", {"title"})),
  Ask("move_stage", "stage_id" :> "s2", {}), Ask("move_stage", Nothing, {}),
  Ask("mark_won", "title" :> "b", {}),
  Ask("mark_lost", "lost_reason" :> "price", {}),
  Ask("reopen", "lost_reason" :> "price", {}),
  Ask("archive", Nothing, {}), Ask("unarchive", "title" :> "b", {}),
  Checked(Ask("delete", Nothing, {})), Dry(Ask("delete", Nothing, {}))}

Deal(status, archived, reason) ==
  [title |-> "a", status |-> status, stage_id |-> "s1",
   is_archived |-> archived, lost_reason |-> reason]
MCStarts == {Deal("open", "", ""), Deal("lost", "true", "old")}
Symmetry == Permutations(Sessions)
=============================================================================
