---------------------------- MODULE MCManageRecord ----------------------------
(***************************************************************************)
(* ManageRecord for TLC: of each resource a record with something in every *)
(* field but one, and inputs that fill, replace, restate and empty it.     *)
(***************************************************************************)
EXTENDS ManageRecord, TLC

Ask(action, given, overwrite) ==
  [action |-> action, given |-> given, overwrite |-> overwrite,
   checks |-> FALSE, dryRun |-> FALSE]
Checked(i) == [i EXCEPT !.checks = TRUE]
Dry(i) == [i EXCEPT !.dryRun = TRUE]

Mail(value, label, primary) == [value |-> value, label |-> label, primary |-> primary]
Home == Mail(<<"a">>, <<"h">>, TRUE)
Work == Mail(<<"b">>, <<"w">>, FALSE)
\* One address whose label reads like the two above, but for the escapes.
Both == Mail(<<"a">>, <<"h", "'", "*", ",", "'", "b", "'", "'", "w">>, FALSE)
Person(p, primary) == [person |-> p, primary |-> primary]

MCCharacters == {"a", "b", "h", "w", "x", "'", "*", ","}
MCPeople == {"p", "q"}

MCStarts == [
  person |-> {[name |-> "ann", first_name |-> "ann", emails |-> <<Home, Work>>,
               org_id |-> ""]},
  organization |-> {[name |-> "acme", address |-> ""]},
  activity |-> {[subject |-> "call", done |-> "", person_id |-> "p",
                 participants |-> <<Person("p", TRUE), Person("q", FALSE)>>]},
  note |-> {[content |-> "x", deal_id |-> "d1", org_id |-> ""]}]

MCInputs == [
  person |-> {
    Ask("create", "name" :> "bob", {}), Ask("create", "emails" :> <<Home>>, {}),
    Ask("create", "name" :> "bob" @@ "first_name" :> "bob", {}),
    Checked(Ask("update", "first_name" :> "bob", {"first_name"})),
    Ask("update", "name" :> "bob" @@ "first_name" :> "bob", {"name", "first_name"}),
    Ask("update", "org_id" :> "o1" @@ "emails" :> <<Home>>, {"emails"}),
    Ask("update", "emails" :> <<Home, [Work EXCEPT !.label = <<"x">>]>>, {}),
    Ask("update", "emails" :> <<Both>>, {"name"}),
    Dry(Ask("update", "emails" :> <<Home>>, {"emails"})),
    Checked(Ask("delete", Nothing, {})), Dry(Ask("delete", Nothing, {}))},
  organization |-> {
    Ask("create", Nothing, {}), Ask("create", "name" :> "new", {}),
    Ask("update", "name" :> "new" @@ "address" :> "oslo", {}),
    Ask("update", "address" :> "oslo", {}),
    Ask("update", "name" :> "new", {"name"}), Dry(Ask("delete", Nothing, {})),
    Checked(Ask("delete", Nothing, {}))},
  activity |-> {
    Ask("create", "person_id" :> "p", {}),
    Ask("create", "subject" :> "new" @@ "person_id" :> "p", {}),
    Checked(Ask("update", "person_id" :> "q", {"person_id"})),
    Ask("update", "person_id" :> "q", {"person_id", "participants"}),
    Ask("update", "person_id" :> "q" @@ "participants" :> <<Person("p", TRUE), Person("q", FALSE)>>,
        {"person_id", "participants"}),
    Ask("update", "done" :> "", {}),
    Ask("complete", "subject" :> "new", {}), Ask("reopen", "subject" :> "new", {}),
    Dry(Ask("delete", Nothing, {})), Ask("delete", Nothing, {})},
  note |-> {
    Ask("create", "content" :> "y", {}), Ask("create", "content" :> "y" @@ "org_id" :> "o1", {}),
    Ask("create", "content" :> "long" @@ "org_id" :> "o1", {}),
    Ask("update", "content" :> "" @@ "deal_id" :> "", {}),
    Checked(Ask("update", "content" :> "y" @@ "deal_id" :> "", {"content"})),
    Ask("update", "content" :> "" @@ "org_id" :> "o1", {"content"}),
    Dry(Ask("update", "org_id" :> "o1", {})),
    Checked(Ask("update", "deal_id" :> "d2", {"deal_id"})),
    Ask("update", "content" :> "long", {"content"}),
    Dry(Ask("delete", Nothing, {})), Checked(Ask("delete", Nothing, {}))}]

MCEdits == [
  person |-> {"emails" :> <<Work>>, "name" :> "cy"},
  organization |-> {"address" :> "rome"},
  activity |-> {"done" :> "true", "participants" :> <<>>},
  note |-> {"content" :> "z"}]

\* Inputs that pass an empty list for a collection that holds something, or 0
\* for a person.
ClearingInputs == [MCInputs EXCEPT
  !.person = {Dry(Ask("update", "emails" :> <<>>, {"emails"}))},
  !.activity = {Dry(Ask("update", "participants" :> <<>>, {"participants"})),
                Dry(Ask("update", "person_id" :> "", {"person_id"}))}]

Symmetry == Permutations(Sessions)
=============================================================================
