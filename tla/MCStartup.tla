------------------------------ MODULE MCStartup ------------------------------
(***************************************************************************)
(* Startup for TLC: two workspaces with a token each, and environments,    *)
(* command lines and stores of which every one stops a start at a stage of *)
(* its own, or lets it through in a way of its own.                        *)
(***************************************************************************)
EXTENDS Startup, TLC

MCAccepted == {<<"acme", "ta">>, <<"blue", "tb">>}

CONSTANTS asked, served

\* Somebody asks for the status, and somebody starts the server.
MCLines ==
  asked :> {<<"status">>, <<"status", "--no-probe">>, <<"statsu">>} @@
  served :> {<<>>, <<"--skip-probe", "status">>, <<"--version">>}

At(d, how) == [of |-> d, spelt |-> how]
Plain == [domain |-> At("", Unset), level |-> Unset, format |-> Unset, dryRun |-> Unset,
          timeout |-> Unset, token |-> Unset]

MCEnvironments == {
  Plain,
  [Plain EXCEPT !.domain = At("acme", "plain"), !.level = "good"],
  [Plain EXCEPT !.domain = At("acme", "capitals"), !.level = "good"],
  [Plain EXCEPT !.domain = At("acme", "blank"), !.level = "bad"],
  [Plain EXCEPT !.dryRun = "yes"],
  [Plain EXCEPT !.dryRun = "1", !.token = "tb"],
  [Plain EXCEPT !.dryRun = "blank", !.timeout = "0s"],
  [Plain EXCEPT !.domain = At("blue", "plain"), !.format = "bad", !.token = "blank"]}

Holding(a, b) == "acme" :> a @@ "blue" :> b
MCStores == {
  [pointer |-> At("", "unreadable"), keyring |-> Holding(Unset, Unset), pipedrive |-> "answers"],
  [pointer |-> At("blue", "garbled"), keyring |-> Holding(Unset, "tb"), pipedrive |-> "answers"],
  [pointer |-> At("acme", "plain"), keyring |-> Holding("ta", ""), pipedrive |-> "answers"],
  [pointer |-> At("blue", "capitals"), keyring |-> Holding("broken", "tb"), pipedrive |-> "hangs"],
  [pointer |-> At("blue", "spaced"), keyring |-> Holding("wrong", "tb"), pipedrive |-> "answers"]}
=============================================================================
