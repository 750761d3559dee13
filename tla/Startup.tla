------------------------------- MODULE Startup -------------------------------
(***************************************************************************)
(* From a command line to a serving process or an exit code                *)
(* (cmd/pipedrive-mcp, internal/app, config, credentials): the dispatch,   *)
(* the staged assembly of a server - workspace, configuration, token,      *)
(* probe - the same stages gone through by status, which is asked whether  *)
(* a server would start, and the server's end.                             *)
(*                                                                         *)
(* Every process has the environment it was started with.  The pointer     *)
(* file, the keyring and Pipedrive are shared, and may change between any  *)
(* two steps of it.                                                        *)
(***************************************************************************)
EXTENDS Integers, Sequences, SequencesExt

CONSTANTS
  Launches,
  Lines,         \* Lines[p]: the command lines p is given, each a sequence of words
  Environments,  \* the environments given, see EnvironmentsAssumption
  Stores,        \* what is outside the processes, see StoresAssumption
  Recognized,    \* the <<domain, token>> pairs Pipedrive accepts
  MaxChanges     \* how often the stores may change

Unset == "unset"
\* A domain as somebody wrote it: which one, and the spelling, of which
\* "garbled" is no host label and Unset says nothing.
Spellings == {Unset, "blank", "plain", "capitals", "spaced", "garbled"}
\* A setting as somebody wrote it: "blank" is spaces alone, "bad" is what
\* its parser refuses.
Written == {Unset, "blank", "good", "bad"}
\* What strconv.ParseBool reads as true and as false, and what it refuses.
Switches == {Unset, "blank", "1", "true", "0", "false", "yes"}
\* A duration: the empty string's default, a positive one, none, no duration.
Timeouts == {Unset, "blank", "5s", "0s", "soon"}

\* What is spelt is a domain's name, which no mark of a spelling is.
ASSUME EnvironmentsAssumption == \A e \in Environments :
  /\ e.domain.spelt \in Spellings /\ e.domain.of \notin Spellings
  /\ {e.level, e.format} \subseteq Written
  /\ e.dryRun \in Switches /\ e.timeout \in Timeouts
  /\ e.token = Unset \/ e.token \in {a[2] : a \in Recognized} \cup {"blank", "wrong"}

\* pointer is what the pointer file says, or that it is "unreadable";
\* keyring[d] the token under d, Unset for none, "" for an empty one and
\* "broken" for a keyring out of reach; pipedrive whether it answers, or swallows what it is sent.
ASSUME StoresAssumption == \A s \in Stores :
  /\ s.pointer.spelt \in Spellings \cup {"unreadable"} /\ s.pointer.of \notin Spellings
  /\ {a[1] : a \in Recognized} \subseteq DOMAIN s.keyring
  /\ s.pipedrive \in {"answers", "hangs"}

\* Login and logout are Workspace's.
ASSUME LinesAssumption == \A p \in Launches : \A words \in Lines[p] :
  words \in Seq(STRING) /\ (words # <<>> => words[1] \notin {"login", "logout"})

VARIABLES
  store,    \* what is outside, and outlives the processes
  stage,    \* stage[p]: the stage p is at; "up" serves, "done" has ended
  line,     \* line[p]: its words
  env,      \* env[p]: its environment
  domain,   \* domain[p]: the workspace it resolved
  config,   \* config[p]: the configuration it loaded
  secret,   \* secret[p]: the token it resolved
  report,   \* report[p]: what status has found out
  code,     \* code[p]: its exit code, -1 before
  \* history, for the properties
  changes,  \* how often the stores have changed
  span,     \* span[p]: changes when p was started, and when it came up or ended
  stop,     \* stop[p]: where a server's start ended, and "up" if it did not
  sent      \* sent[p]: it sent Pipedrive a write

launchVars == <<stage, line, env, code>>
partVars == <<domain, config, secret, report>>
historyVars == <<changes, span, stop, sent>>
bootVars == <<store, launchVars, partVars, historyVars>>

-----------------------------------------------------------------------------
\* The dispatch.
Subcommands == {"login", "logout", "status"}
IsFlag(word) == word \in {"--version", "--dump-schemas", "--skip-probe", "--no-probe", "--json"}
Flags(words, known) ==
  LET rest == SelectSeq(words, LAMBDA w : ~IsFlag(w))
      n == IF rest = <<>> THEN Len(words) ELSE SelectInSeq(words, LAMBDA w : w = rest[1]) - 1
      read == {words[i] : i \in 1..n}
  IN  [set |-> read, ok |-> read \subseteq known]

StatusFlags(words) == Flags(Tail(words), {"--no-probe", "--json"})
ServerFlags(words) == Flags(words, {"--version", "--dump-schemas", "--skip-probe"})

\* What a command line asks for.  A word that is no flag and no command is
\* refused; flag parsing stops at the first word, and leaves it unread.
Command(words) ==
  CASE words # <<>> /\ words[1] = "status" -> IF StatusFlags(words).ok THEN "status" ELSE "usage"
    [] words # <<>> /\ words[1] \notin Subcommands /\ ~IsFlag(words[1]) -> "unknown"
    [] OTHER -> LET f == ServerFlags(words)
                IN  IF ~f.ok THEN "usage"
                    ELSE IF f.set \cap {"--version", "--dump-schemas"} # {} THEN "print"
                    ELSE "serve"

SkipsProbe(words) ==
  IF Command(words) = "status" THEN "--no-probe" \in StatusFlags(words).set
  ELSE "--skip-probe" \in ServerFlags(words).set

-----------------------------------------------------------------------------
\* The stages, as functions of what they read.
Value(d) == [ok |-> TRUE, value |-> d]
Failure(what) == [ok |-> FALSE, value |-> what]

\* Lookup drops the spaces around a value, and spaces alone are unset.
Lookup(raw) == IF raw = "blank" THEN Unset ELSE raw

\* ValidateDomain, after the trim of its callers.  It lowers A to Z.
ValidateDomain(raw) ==
  IF raw.spelt = "garbled" THEN Failure("domain") ELSE Value(raw.of)

\* The variable, then the pointer file.
ResolveDomain(e, s) ==
  IF Lookup(e.domain.spelt) # Unset THEN ValidateDomain(e.domain)
  ELSE IF s.pointer.spelt \in {Unset, "blank", "unreadable"} THEN Failure("domain")
  ELSE ValidateDomain(s.pointer)

\* One of a few words, in any case.
ParseWord(name, v) == IF v = "bad" THEN Failure(name) ELSE Value(v)

\* Slip: what does not parse is off.
ParseBoolOrOff(v) == Value(v \in {"1", "true"})

ParseBool(v) ==
  CASE v \in {"1", "true"} -> Value(TRUE)
    [] v \in {Unset, "0", "false"} -> Value(FALSE)
    [] OTHER -> Failure("PIPEDRIVE_DRY_RUN")

\* Slip: a timeout of zero, which is no timeout, is taken.
ParseTimeoutOrNone(v) ==
  CASE v \in {Unset, "5s"} -> Value("bounded")
    [] v = "0s" -> Value("none")
    [] OTHER -> Failure("PIPEDRIVE_HTTP_TIMEOUT")

ParseTimeout(v) ==
  IF v \in {Unset, "5s"} THEN Value("bounded") ELSE Failure("PIPEDRIVE_HTTP_TIMEOUT")

\* Load: all the settings, or the first one refused.
LoadFor(e) ==
  LET level == ParseWord("LOG_LEVEL", e.level)
      format == ParseWord("LOG_FORMAT", e.format)
      dryRun == ParseBool(Lookup(e.dryRun))
      timeout == ParseTimeout(Lookup(e.timeout))
  IN  CASE ~level.ok -> level
        [] level.ok /\ ~format.ok -> format
        [] level.ok /\ format.ok /\ ~dryRun.ok -> dryRun
        [] level.ok /\ format.ok /\ dryRun.ok /\ ~timeout.ok -> timeout
        [] OTHER -> Value([floor |-> dryRun.value, timeout |-> timeout.value])

\* credentials.Resolve: the variable, then the keyring.
ResolveToken(e, s, d) ==
  LET held == IF d \in DOMAIN s.keyring THEN s.keyring[d] ELSE Unset
  IN  CASE Lookup(e.token) # Unset -> Value(e.token)
        [] Lookup(e.token) = Unset /\ held = "broken" -> Failure("keyring")
        [] Lookup(e.token) = Unset /\ held \in {Unset, ""} -> Failure("no_token")
        [] OTHER -> Value(held)

\* ProbeAuth, see PipedriveCall.  It takes as long as the timeout lets it.
ProbeEnds(c) == store.pipedrive = "answers" \/ c.timeout = "bounded"
ProbeAuth(d, t) == store.pipedrive = "answers" /\ <<d, t>> \in Recognized

-----------------------------------------------------------------------------
NoConfig == [floor |-> FALSE, timeout |-> "bounded"]
NoReport == [domain |-> Unset, reason |-> Unset, resolved |-> FALSE,
             ran |-> FALSE, ok |-> FALSE]

BootInit ==
  /\ store \in Stores
  /\ stage = [p \in Launches |-> "idle"]
  /\ line = [p \in Launches |-> <<>>]
  /\ env \in [Launches -> Environments]
  /\ domain = [p \in Launches |-> Unset]
  /\ config = [p \in Launches |-> NoConfig]
  /\ secret = [p \in Launches |-> Unset]
  /\ report = [p \in Launches |-> NoReport]
  /\ code = [p \in Launches |-> -1]
  /\ changes = 0
  /\ span = [p \in Launches |-> <<0, 0>>]
  /\ stop = [p \in Launches |-> Unset]
  /\ sent = [p \in Launches |-> FALSE]

Enter(p, next) == stage' = [stage EXCEPT ![p] = next] /\ UNCHANGED <<code, span>>

ExitWith(p, status) ==
  /\ stage' = [stage EXCEPT ![p] = "done"]
  /\ code' = [code EXCEPT ![p] = status]
  /\ span' = [span EXCEPT ![p] = <<@[1], changes>>]

\* fail, at the stage a server is at.
Fail(p, where) ==
  /\ ExitWith(p, 1)
  /\ stop' = [stop EXCEPT ![p] = where]

\* run: the dispatch, and the commands that end at once.
Run(p, words) ==
  /\ stage[p] = "idle"
  /\ line' = [line EXCEPT ![p] = words]
  /\ LET ends == Command(words) \in {"print", "unknown", "usage"}
     IN  /\ stage' = [stage EXCEPT ![p] = CASE ends -> "done"
                                      [] Command(words) = "status" -> "status_domain"
                                      [] OTHER -> "domain"]
         /\ code' = [code EXCEPT ![p] =
              CASE Command(words) = "print" -> 0
                [] Command(words) = "unknown" -> 1
                [] Command(words) = "usage" -> 2
                [] OTHER -> -1]
  /\ span' = [span EXCEPT ![p] = <<changes, changes>>]
  /\ UNCHANGED <<store, env, partVars, changes, stop, sent>>

-----------------------------------------------------------------------------
\* runServer: app.Resolve, Connect, the probe and the server.
ServerDomain(p) ==
  /\ stage[p] = "domain"
  /\ LET d == ResolveDomain(env[p], store)
     IN  IF d.ok
         THEN /\ domain' = [domain EXCEPT ![p] = d.value]
              /\ Enter(p, "config") /\ UNCHANGED stop
         ELSE Fail(p, d.value) /\ UNCHANGED domain
  /\ UNCHANGED <<store, line, env, config, secret, report, changes, sent>>

ServerConfig(p) ==
  /\ stage[p] = "config"
  /\ LET c == LoadFor(env[p])
     IN  IF c.ok
         THEN /\ config' = [config EXCEPT ![p] = c.value]
              /\ Enter(p, "token") /\ UNCHANGED stop
         ELSE Fail(p, c.value) /\ UNCHANGED config
  /\ UNCHANGED <<store, line, env, domain, secret, report, changes, sent>>

\* Up: NewServer with the floor of its configuration, and Run.
Serve(p) ==
  /\ stage' = [stage EXCEPT ![p] = "up"]
  /\ span' = [span EXCEPT ![p] = <<@[1], changes>>]
  /\ stop' = [stop EXCEPT ![p] = "up"]
  /\ UNCHANGED code

ServerToken(p) ==
  /\ stage[p] = "token"
  /\ LET t == ResolveToken(env[p], store, domain[p])
     IN  IF t.ok
         THEN /\ secret' = [secret EXCEPT ![p] = t.value]
              /\ IF SkipsProbe(line[p]) THEN Serve(p) ELSE Enter(p, "probe") /\ UNCHANGED stop
         ELSE Fail(p, t.value) /\ UNCHANGED secret
  /\ UNCHANGED <<store, line, env, domain, config, report, changes, sent>>

ServerProbe(p) ==
  /\ stage[p] = "probe"
  /\ ProbeEnds(config[p])
  /\ IF ProbeAuth(domain[p], secret[p]) THEN Serve(p) ELSE Fail(p, "probe")
  /\ UNCHANGED <<store, line, env, partVars, changes, sent>>

\* A manage tool called: the floor rehearses whatever the call asks for.
Write(p, dryRun) ==
  /\ stage[p] = "up"
  /\ sent' = [sent EXCEPT ![p] = @ \/ ~(dryRun \/ config[p].floor)]
  /\ UNCHANGED <<store, launchVars, partVars, changes, span, stop>>

\* The parent closes stdin, or the transport breaks: isCleanShutdown.
Hangup(p, clean) ==
  /\ stage[p] = "up"
  /\ stage' = [stage EXCEPT ![p] = "done"]
  /\ code' = [code EXCEPT ![p] = IF clean THEN 0 ELSE 1]
  /\ UNCHANGED <<store, line, env, partVars, historyVars>>

\* SIGINT or SIGTERM, from the probe on: the context cancelled by it fails a
\* probe and ends a Run cleanly.  Before that, and in the other commands, a
\* signal kills the process, which is then no more than one that stopped.
Signal(p) ==
  /\ \/ stage[p] = "probe" /\ Fail(p, "signal")
     \/ /\ stage[p] = "up"
        /\ stage' = [stage EXCEPT ![p] = "done"]
        /\ code' = [code EXCEPT ![p] = 0]
        /\ UNCHANGED <<span, stop>>
  /\ UNCHANGED <<store, line, env, partVars, changes, sent>>

-----------------------------------------------------------------------------
\* newStatusReport, stage by stage.
Stopped(p, what) ==
  /\ report' = [report EXCEPT ![p].reason = what]
  /\ ExitWith(p, 1)

StatusDomain(p) ==
  /\ stage[p] = "status_domain"
  /\ LET d == ResolveDomain(env[p], store)
     IN  IF d.ok
         THEN /\ domain' = [domain EXCEPT ![p] = d.value]
              /\ report' = [report EXCEPT ![p].domain = d.value]
              /\ Enter(p, "status_config")
         ELSE Stopped(p, d.value) /\ UNCHANGED domain
  /\ UNCHANGED <<store, line, env, config, secret, changes, stop, sent>>

\* Slip: status goes without the configuration.
StatusConfigTaken(p) ==
  /\ stage[p] = "status_config"
  /\ config' = [config EXCEPT ![p] = NoConfig]
  /\ Enter(p, "status_token")
  /\ UNCHANGED <<store, line, env, domain, secret, report, changes, stop, sent>>

StatusConfig(p) ==
  /\ stage[p] = "status_config"
  /\ LET c == LoadFor(env[p])
     IN  IF c.ok
         THEN /\ config' = [config EXCEPT ![p] = c.value]
              /\ Enter(p, "status_token") /\ UNCHANGED report
         ELSE Stopped(p, c.value) /\ UNCHANGED config
  /\ UNCHANGED <<store, line, env, domain, secret, changes, stop, sent>>

StatusToken(p) ==
  /\ stage[p] = "status_token"
  /\ LET t == ResolveToken(env[p], store, domain[p])
     IN  IF t.ok
         THEN /\ secret' = [secret EXCEPT ![p] = t.value]
              /\ report' = [report EXCEPT ![p].resolved = TRUE]
              /\ IF SkipsProbe(line[p]) THEN ExitWith(p, 0) ELSE Enter(p, "status_probe")
         ELSE Stopped(p, t.value) /\ UNCHANGED secret
  /\ UNCHANGED <<store, line, env, domain, config, changes, stop, sent>>

StatusProbe(p) ==
  /\ stage[p] = "status_probe"
  /\ ProbeEnds(config[p])
  /\ LET ok == ProbeAuth(domain[p], secret[p])
     IN  /\ report' = [report EXCEPT ![p].ran = TRUE, ![p].ok = ok]
         /\ ExitWith(p, IF ok THEN 0 ELSE 1)
  /\ UNCHANGED <<store, line, env, domain, config, secret, changes, stop, sent>>

\* writeText: the line its last word is on.  A reason of the configuration's
\* is known by its prefix.
Text(r) ==
  CASE r.domain = Unset -> "domain"
    [] r.domain # Unset /\ ~r.resolved ->
         IF r.reason \in {"no_token", "keyring"} THEN "token" ELSE "config"
    [] r.resolved /\ ~r.ran -> "skipped"
    [] r.resolved /\ r.ran -> IF r.ok THEN "ok" ELSE "probe"

-----------------------------------------------------------------------------
\* Somebody logs in or out, edits the file, or the network comes or goes, as
\* long as there is a process to see it.
Change ==
  /\ changes < MaxChanges
  /\ \E p \in Launches : stage[p] \notin {"up", "done"}
  /\ changes' = changes + 1
  /\ store' \in Stores \ {store}
  /\ UNCHANGED <<launchVars, partVars, span, stop, sent>>

Stage(p) ==
  \/ ServerDomain(p) \/ ServerConfig(p) \/ ServerToken(p) \/ ServerProbe(p)
  \/ StatusDomain(p) \/ StatusConfig(p) \/ StatusToken(p) \/ StatusProbe(p)

BootNext ==
  \/ \E p \in Launches :
       \/ \E words \in Lines[p] : Run(p, words)
       \/ Stage(p)
       \/ \E flag \in BOOLEAN : Write(p, flag) \/ Hangup(p, flag)
       \/ Signal(p)
  \/ Change

BootSpec == BootInit /\ [][BootNext]_bootVars

\* A process that can take its next stage takes it.
FairSpec == BootSpec /\ \A p \in Launches : WF_bootVars(Stage(p))

-----------------------------------------------------------------------------
\* Two environments that say the same, however they spell it.
Same(e, f) ==
  LET said(g) == [domain |-> IF Lookup(g.domain.spelt) \in {Unset, "garbled"}
                             THEN Lookup(g.domain.spelt) ELSE g.domain.of,
                  level |-> Lookup(g.level), format |-> Lookup(g.format),
                  dryRun |-> Lookup(g.dryRun), timeout |-> Lookup(g.timeout),
                  token |-> Lookup(g.token)]
  IN  said(e) = said(f)

\* Nothing changed while p and q were about it, one before the other or both
\* at once, and they were told to look at the same.
Alike(p, q) ==
  /\ {span[p][1], span[p][2]} = {span[q][1], span[q][2]}
  /\ span[p][1] = span[p][2]
  /\ Same(env[p], env[q])
  /\ SkipsProbe(line[p]) = SkipsProbe(line[q])

Asked(p) == Command(line[p]) = "status" /\ stage[p] = "done"
Answered(q) == Command(line[q]) = "serve" /\ stop[q] \notin {Unset, "signal"}

\* What status exits with is what becomes of a server started in an
\* environment that says the same, as long as nothing changes outside: green
\* where a server comes up, and only there (the comment on the configuration
\* in newStatusReport, against app.Resolve and runServer).
\* And the line status ends on is about what stops that server, by which its
\* reader goes (writeText's comment on the three ways to stop).
StatusForetells == \A p, q \in Launches :
  (Asked(p) /\ Answered(q) /\ Alike(p, q)) =>
    /\ code[p] = 0 <=> stop[q] = "up"
    /\ Text(report[p]) = CASE stop[q] = "up" -> IF SkipsProbe(line[p]) THEN "skipped" ELSE "ok"
                          [] stop[q] \in {"domain", "probe"} -> stop[q]
                          [] stop[q] \in {"no_token", "keyring"} -> "token"
                          [] OTHER -> "config"

\* A process whose PIPEDRIVE_DRY_RUN says anything but off sends Pipedrive no
\* write, whichever way it came to serve and whatever a call asks for (New's
\* and NewServer's comments on the floor).
NoWritePastTheFloor == \A p \in Launches :
  sent[p] => env[p].dryRun \in {Unset, "blank", "0", "false"}

\* A command ends, or serves, also on a network that swallows what it is sent
\* (HTTP_TIMEOUT's check in Load).
EveryStartEnds == \A p \in Launches :
  (stage[p] # "idle") ~> (stage[p] \in {"up", "done"})
=============================================================================
