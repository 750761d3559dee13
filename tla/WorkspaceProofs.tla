--------------------------- MODULE WorkspaceProofs ---------------------------
(***************************************************************************)
(* Proofs about what is kept of a workspace outside the processes, and     *)
(* about what starts from it: Workspace for any processes, workspaces,     *)
(* tokens, commands and pairs Pipedrive accepts, and Startup for any       *)
(* launches, command lines, environments and changes of the stores.        *)
(***************************************************************************)
EXTENDS Workspace, Startup, TLAPS

-----------------------------------------------------------------------------
\* Startup.

(***************************************************************************)
(* What a start in environment e comes to when it sees nothing but s: the  *)
(* stage it ends at, or "up".                                              *)
(***************************************************************************)
ComesTo(e, s, skip) ==
  LET d == ResolveDomain(e, s)
      t == ResolveToken(e, s, d.value)
  IN  CASE ~d.ok -> d.value
        [] d.ok /\ ~LoadFor(e).ok -> LoadFor(e).value
        [] d.ok /\ LoadFor(e).ok /\ ~t.ok -> t.value
        [] d.ok /\ LoadFor(e).ok /\ t.ok /\ ~skip
             /\ ~(s.pipedrive = "answers" /\ <<d.value, t.value>> \in Recognized) -> "probe"
        [] OTHER -> "up"

\* The line of a status report that goes with it.
Says(end, skip) ==
  CASE end = "up" -> IF skip THEN "skipped" ELSE "ok"
    [] end \in {"domain", "probe"} -> end
    [] end \in {"no_token", "keyring"} -> "token"
    [] OTHER -> "config"

ConfigFaults == {"LOG_LEVEL", "LOG_FORMAT", "PIPEDRIVE_DRY_RUN", "PIPEDRIVE_HTTP_TIMEOUT"}

LEMMA LoadEnds ==
  ASSUME NEW e
  PROVE  /\ LoadFor(e).ok \in BOOLEAN
         /\ ~LoadFor(e).ok => LoadFor(e).value \in ConfigFaults
         /\ LoadFor(e).ok =>
              /\ ParseBool(Lookup(e.dryRun)).ok
              /\ LoadFor(e).value.floor = ParseBool(Lookup(e.dryRun)).value
BY DEF LoadFor, ParseWord, ParseBool, ParseTimeout, Value, Failure, ConfigFaults

LEMMA DomainEnds ==
  ASSUME NEW e \in Environments, NEW s \in Stores
  PROVE  LET d == ResolveDomain(e, s)
         IN  /\ d.ok \in BOOLEAN 
             /\ ~d.ok => d.value = "domain"
             /\ d.ok => d.value # Unset
BY EnvironmentsAssumption, StoresAssumption
   DEF ResolveDomain, ValidateDomain, Value, Failure, Lookup, Spellings, Unset

LEMMA TokenEnds ==
  ASSUME NEW e, NEW s, NEW d
  PROVE  LET t == ResolveToken(e, s, d)
         IN  /\ t.ok \in BOOLEAN 
             /\ ~t.ok => t.value \in {"keyring", "no_token"}
BY DEF ResolveToken, Value, Failure, Unset

\* Environments that say the same come to the same.
LEMMA SameEnds ==
  ASSUME NEW e \in Environments, NEW f \in Environments, Same(e, f),
         NEW s \in Stores, NEW skip
  PROVE  ComesTo(e, s, skip) = ComesTo(f, s, skip)
<1>1. /\ Lookup(e.level) = Lookup(f.level) /\ Lookup(e.format) = Lookup(f.format)
      /\ Lookup(e.dryRun) = Lookup(f.dryRun) /\ Lookup(e.timeout) = Lookup(f.timeout)
      /\ Lookup(e.token) = Lookup(f.token)
  BY DEF Same
<1>2. ResolveDomain(e, s) = ResolveDomain(f, s)
  BY EnvironmentsAssumption DEF Same, ResolveDomain, ValidateDomain, Lookup, Value, Failure,
     Spellings, Unset
<1>3. LoadFor(e) = LoadFor(f)
  <2>1. (e.level = "bad") = (f.level = "bad") /\ (e.format = "bad") = (f.format = "bad")
    BY <1>1 DEF Lookup, Unset
  <2> QED
    BY <1>1, <2>1 DEF LoadFor, ParseWord, Value, Failure
<1>4. ASSUME NEW d PROVE ResolveToken(e, s, d) = ResolveToken(f, s, d)
  BY <1>1 DEF ResolveToken, Lookup, Value, Failure, Unset
<1> QED
  BY <1>2, <1>3, <1>4 DEF ComesTo

-----------------------------------------------------------------------------
Starting == {"domain", "config", "token", "probe"}
Reporting == {"status_domain", "status_config", "status_token", "status_probe"}

BootTyped ==
  /\ store \in Stores /\ changes \in Nat
  /\ env \in [Launches -> Environments]
  /\ span \in [Launches -> Nat \X Nat]
  /\ DOMAIN stage = Launches /\ DOMAIN line = Launches /\ DOMAIN domain = Launches
  /\ DOMAIN config = Launches /\ DOMAIN secret = Launches /\ DOMAIN report = Launches
  /\ DOMAIN code = Launches /\ DOMAIN stop = Launches /\ DOMAIN sent = Launches

\* Where a launch is fits its command line, and its report fits where it is.
Launched(p) ==
  /\ stage[p] \in {"idle", "up", "done"} \cup Starting \cup Reporting
  /\ stage[p] \in Starting \cup {"up"} => Command(line[p]) = "serve"
  /\ stage[p] \in Reporting => Command(line[p]) = "status"
  /\ stage[p] \in Starting \cup Reporting => stop[p] = Unset /\ span[p][1] = span[p][2]
  /\ stage[p] = "idle" => stop[p] = Unset
  /\ span[p][1] <= changes /\ span[p][2] <= changes
  /\ stage[p] \in {"idle", "status_domain"} => report[p] = NoReport
  /\ stage[p] \in {"status_config", "status_token"} =>
       report[p] = [NoReport EXCEPT !.domain = domain[p]]
  /\ stage[p] = "status_probe" =>
       report[p] = [NoReport EXCEPT !.domain = domain[p], !.resolved = TRUE]

\* What a launch has in hand, and what it ended with, is what s holds for it.
Saw(p, s) ==
  LET d == ResolveDomain(env[p], s)
      t == ResolveToken(env[p], s, d.value)
      end == ComesTo(env[p], s, SkipsProbe(line[p]))
  IN  /\ stage[p] \in (Starting \cup Reporting) \ {"domain", "status_domain"} =>
           d.ok /\ domain[p] = d.value
      /\ stage[p] \in {"token", "probe", "status_token", "status_probe"} => LoadFor(env[p]).ok
      /\ stage[p] \in {"probe", "status_probe"} =>
           t.ok /\ secret[p] = t.value /\ ~SkipsProbe(line[p])
      /\ Answered(p) => stop[p] = end
      /\ Asked(p) => /\ code[p] = 0 <=> end = "up"
                     /\ Text(report[p]) = Says(end, SkipsProbe(line[p]))

\* A launch the stores have not changed under, to this moment if it is under way.
Current(p) == span[p] = <<changes, changes>>

Inside == \A p \in Launches : Launched(p) /\ (Current(p) => Saw(p, store))

\* The server loaded the floor its environment sets.
Floored(p) ==
  stage[p] \in {"token", "probe", "up"} =>
    LoadFor(env[p]).ok /\ config[p] = LoadFor(env[p]).value

Moves(p) ==
  \/ \E words \in Lines[p] : Run(p, words)
  \/ Stage(p)
  \/ \E flag \in BOOLEAN : Write(p, flag) \/ Hangup(p, flag)
  \/ Signal(p)

LEMMA BootInitTyped == BootInit => BootTyped /\ Inside /\ \A p \in Launches : Floored(p)
<1> SUFFICES ASSUME BootInit
             PROVE  BootTyped /\ Inside /\ \A p \in Launches : Floored(p)
  OBVIOUS
<1>1. BootTyped
  BY DEF BootInit, BootTyped
<1>2. \A p \in Launches : Floored(p)
  BY DEF BootInit, Floored
<1>3. ASSUME NEW p \in Launches PROVE Launched(p) /\ Saw(p, store)
  BY DEF BootInit, Launched, NoReport, Saw, Answered, Asked, Starting, Reporting
<1> QED
  BY <1>1, <1>2, <1>3 DEF Inside

\* All but what is p's.
Rest(p) ==
  /\ UNCHANGED <<store, changes, env>>
  /\ \A q \in Launches \ {p} :
       /\ stage'[q] = stage[q] /\ line'[q] = line[q] /\ domain'[q] = domain[q]
       /\ config'[q] = config[q] /\ secret'[q] = secret[q] /\ report'[q] = report[q]
       /\ code'[q] = code[q] /\ span'[q] = span[q] /\ stop'[q] = stop[q]
       /\ sent'[q] = sent[q]

LEMMA Exits ==
  ASSUME BootTyped, NEW p \in Launches, NEW n, ExitWith(p, n)
  PROVE  /\ stage'[p] = "done" /\ code'[p] = n /\ span'[p] = <<span[p][1], changes>>
         /\ span' \in [Launches -> Nat \X Nat]
         /\ DOMAIN stage' = Launches /\ DOMAIN code' = Launches
         /\ \A q \in Launches \ {p} :
               stage'[q] = stage[q] /\ code'[q] = code[q] /\ span'[q] = span[q]
BY DEF ExitWith, BootTyped

LEMMA Stops ==
  ASSUME BootTyped, NEW p \in Launches, NEW what, Stopped(p, what)
  PROVE  /\ stage'[p] = "done" /\ code'[p] = 1 /\ span'[p] = <<span[p][1], changes>>
         /\ report'[p] = [report[p] EXCEPT !.reason = what]
         /\ span' \in [Launches -> Nat \X Nat]
         /\ DOMAIN stage' = Launches /\ DOMAIN report' = Launches /\ DOMAIN code' = Launches
         /\ \A q \in Launches \ {p} :
              /\ stage'[q] = stage[q] /\ report'[q] = report[q]
              /\ code'[q] = code[q] /\ span'[q] = span[q]
<1>1. ExitWith(p, 1)
  BY DEF Stopped
<1>2. /\ report'[p] = [report[p] EXCEPT !.reason = what]
      /\ DOMAIN report' = Launches
      /\ \A q \in Launches \ {p} : report'[q] = report[q]
  BY DEF Stopped, BootTyped
<1> QED
  BY <1>1, <1>2, Exits

\* A move of p disturbs neither the stores nor the other launches.
LEMMA OthersKeep ==
  ASSUME BootTyped, NEW p \in Launches, Moves(p)
  PROVE  BootTyped' /\ Rest(p)
<1> USE DEF BootTyped, Rest,  launchVars, partVars, historyVars, Enter, ExitWith, Fail, Serve
<1>1. ASSUME NEW words \in Lines[p], Run(p, words) PROVE BootTyped' /\ Rest(p)
  BY <1>1 DEF Run
<1>2. ASSUME ServerDomain(p) PROVE BootTyped' /\ Rest(p)
  BY <1>2 DEF ServerDomain
<1>3. ASSUME ServerConfig(p) PROVE BootTyped' /\ Rest(p)
  BY <1>3 DEF ServerConfig
<1>4. ASSUME ServerToken(p) PROVE BootTyped' /\ Rest(p)
  BY <1>4 DEF ServerToken
<1>5. ASSUME ServerProbe(p) PROVE BootTyped' /\ Rest(p)
  BY <1>5 DEF ServerProbe
<1>6. ASSUME StatusDomain(p) PROVE BootTyped' /\ Rest(p)
  <2>1. CASE ResolveDomain(env[p], store).ok
    BY <1>6, <2>1 DEF StatusDomain
  <2>2. CASE ~(ResolveDomain(env[p], store).ok)
    BY <1>6, <2>2, Stops DEF StatusDomain
  <2> QED
    BY <2>1, <2>2
<1>7. ASSUME StatusConfig(p) PROVE BootTyped' /\ Rest(p)
  <2>1. CASE LoadFor(env[p]).ok
    BY <1>7, <2>1 DEF StatusConfig
  <2>2. CASE ~(LoadFor(env[p]).ok)
    BY <1>7, <2>2, Stops DEF StatusConfig
  <2> QED
    BY <2>1, <2>2
<1>8. ASSUME StatusToken(p) PROVE BootTyped' /\ Rest(p)
  <2>1. CASE ResolveToken(env[p], store, domain[p]).ok
    <3>1. CASE SkipsProbe(line[p])
      <4>1. ExitWith(p, 0)
        BY <1>8, <2>1, <3>1 DEF StatusToken
      <4> HIDE DEF ExitWith
      <4> QED
        BY <1>8, <2>1, <3>1, <4>1, Exits DEF StatusToken
    <3>2. CASE ~SkipsProbe(line[p])
      BY <1>8, <2>1, <3>2 DEF StatusToken
    <3> QED
      BY <3>1, <3>2
  <2>2. CASE ~(ResolveToken(env[p], store, domain[p]).ok)
    BY <1>8, <2>2, Stops DEF StatusToken
  <2> QED
    BY <2>1, <2>2
<1>9. ASSUME StatusProbe(p) PROVE BootTyped' /\ Rest(p)
  BY <1>9 DEF StatusProbe
<1>10. ASSUME NEW flag \in BOOLEAN, Write(p, flag) PROVE BootTyped' /\ Rest(p)
  BY <1>10 DEF Write
<1>11. ASSUME NEW flag \in BOOLEAN, Hangup(p, flag) PROVE BootTyped' /\ Rest(p)
  BY <1>11 DEF Hangup
<1>12. ASSUME Signal(p) PROVE BootTyped' /\ Rest(p)
  <2>1. CASE stage[p] = "up"
    BY <1>12, <2>1 DEF Signal
  <2>2. CASE ~(stage[p] = "up")
    BY <1>12, <2>2 DEF Signal
  <2> QED
    BY <2>1, <2>2
<1> QED
  BY <1>1, <1>2, <1>3, <1>4, <1>5, <1>6, <1>7, <1>8, <1>9, <1>10, <1>11, <1>12
     DEF Moves, Stage

\* What p ended with before the stores last changed stands.
Stands(p) ==
  span'[p][1] = span'[p][2] /\ ~Current(p)' =>
    /\ Asked(p)' => /\ Asked(p) /\ code'[p] = code[p] /\ report'[p] = report[p]
                    /\ line'[p] = line[p] /\ span'[p] = span[p]
    /\ Answered(p)' => Answered(p) /\ stop'[p] = stop[p] /\ line'[p] = line[p] /\ span'[p] = span[p]

LEMMA OwnMove ==
  ASSUME BootTyped, NEW p \in Launches, Launched(p), Current(p) => Saw(p, store), Moves(p)
  PROVE  Launched(p)' /\ (Current(p)' => Saw(p, store)') /\ Stands(p)
<1> DEFINE Goal == Launched(p)' /\ (Current(p)' => Saw(p, store)') /\ Stands(p)
           d == ResolveDomain(env[p], store)
           c == LoadFor(env[p])
           t == ResolveToken(env[p], store, domain[p])
<1> SUFFICES Goal
  OBVIOUS
<1>0. /\ env' = env /\ store' = store /\ changes' = changes /\ changes \in Nat
      /\ env[p] \in Environments /\ store \in Stores
      /\ span[p] \in Nat \X Nat /\ span'[p] \in Nat \X Nat
  BY OthersKeep DEF Rest, BootTyped
<1>d. d.ok \in BOOLEAN /\ (~d.ok => d.value = "domain") /\ (d.ok => d.value # Unset)
  BY <1>0, DomainEnds
<1>c. c.ok \in BOOLEAN /\ (~c.ok => c.value \in ConfigFaults)
  BY LoadEnds
<1>t. t.ok \in BOOLEAN /\ (~t.ok => t.value \in {"keyring", "no_token"})
  BY TokenEnds
<1> DEFINE end == ComesTo(env[p], store, SkipsProbe(line[p]))
\* It suffices that a start, or a report, ends as ComesTo says.
<1>s. ASSUME stage[p] \in Starting, stage'[p] \in {"up", "done"}, line'[p] = line[p],
             span'[p] = <<span[p][1], changes>>, stage'[p] = "up" => stop'[p] = "up",
             stop'[p] = "signal" \/ (Current(p) => stop'[p] = end)
      PROVE  Goal
  <2>0. /\ span[p][1] = span[p][2] /\ span[p][1] <= changes
        /\ Command(line[p]) = "serve"
    BY <1>s DEF Launched, NoReport, Starting
  <2>1. Current(p)' => Current(p)
    BY <1>0, <1>s, <2>0 DEF Current
  <2>2. ~Asked(p)'
    BY <1>s, <2>0 DEF Asked
  <2>3. Launched(p)'
    BY <1>0, <1>s, <2>0 DEF Launched, NoReport, Starting, Reporting
  <2>4. Current(p)' => Saw(p, store)'
    BY <1>0, <1>s, <2>1, <2>2 DEF Saw, Answered, Starting, Reporting
  <2>5. Stands(p)
    BY <1>0, <1>s, <2>2 DEF Stands, Current
  <2> QED
    BY <2>3, <2>4, <2>5
<1>r. ASSUME stage[p] \in Reporting, stage'[p] = "done", line'[p] = line[p],
             span'[p] = <<span[p][1], changes>>,
             Current(p) => /\ code'[p] = 0 <=> end = "up"
                           /\ Text(report'[p]) = Says(end, SkipsProbe(line[p]))
      PROVE  Goal
  <2>0. /\ span[p][1] = span[p][2] /\ span[p][1] <= changes
        /\ Command(line[p]) = "status"
    BY <1>r DEF Launched, NoReport, Reporting
  <2>1. Current(p)' => Current(p)
    BY <1>0, <1>r, <2>0 DEF Current
  <2>2. ~Answered(p)'
    BY <1>r, <2>0 DEF Answered
  <2>3. Launched(p)'
    BY <1>0, <1>r, <2>0 DEF Launched, NoReport, Starting, Reporting
  <2>4. Current(p)' => Saw(p, store)'
    BY <1>0, <1>r, <2>1, <2>2 DEF Saw, Asked, Starting, Reporting, Text
  <2>5. Stands(p)
    BY <1>0, <1>r, <2>2 DEF Stands, Current
  <2> QED
    BY <2>3, <2>4, <2>5
<1>1. ASSUME NEW words \in Lines[p], Run(p, words) PROVE Goal
  <2>1. /\ stage[p] = "idle" /\ line'[p] = words
        /\ stage'[p] = CASE Command(words) \in {"print", "unknown", "usage"} -> "done"
                         [] Command(words) = "status" -> "status_domain"
                         [] OTHER -> "domain"
        /\ span'[p] = <<changes, changes>> /\ stop'[p] = stop[p] /\ report'[p] = report[p]
    BY <1>1 DEF Run, partVars, BootTyped
  <2>2. Command(words) \in {"print", "unknown", "usage", "status", "serve"}
    BY DEF Command
  <2>a. report[p] = NoReport /\ stop[p] = Unset
    BY <2>1 DEF Launched, NoReport
  <2>3. Launched(p)'
    BY <1>0, <2>1, <2>2, <2>a DEF Launched, NoReport, Starting, Reporting
  <2>4. Saw(p, store)'
    BY <1>0, <2>1, <2>2 DEF Launched, NoReport, Saw, Asked, Answered, Starting, Reporting
  <2>5. Stands(p)
    BY <1>0, <2>1, <2>2 DEF Stands, Current
  <2> QED
    BY <2>3, <2>4, <2>5
<1>2. ASSUME ServerDomain(p) PROVE Goal
  <2>0. /\ stage[p] = "domain" /\ line'[p] = line[p]
    BY <1>2 DEF ServerDomain, launchVars, partVars, BootTyped
  <2>1. CASE d.ok
    <3>1. /\ stage'[p] = "config" /\ span'[p] = span[p] /\ stop'[p] = stop[p]
          /\ domain'[p] = d.value
      BY <1>2, <2>1 DEF ServerDomain, Enter, BootTyped
    <3> QED
      BY <1>0, <1>d, <2>0, <2>1, <3>1
         DEF Launched, NoReport, Current, Saw, Stands, Asked, Answered, Starting, Reporting
  <2>2. CASE ~d.ok
    <3>1. /\ stage'[p] = "done" /\ stop'[p] = "domain"
          /\ span'[p] = <<span[p][1], changes>>
      BY <1>2, <2>2, <1>d DEF ServerDomain, Fail, ExitWith, BootTyped
    <3>2. Current(p) => stop'[p] = end
      BY <1>c, <1>d, <1>t, <2>0, <2>2, <3>1 DEF Saw, Starting, Reporting, ComesTo
    <3> QED
      BY <1>s, <2>0, <3>1, <3>2 DEF Starting
  <2> QED
    BY <1>d, <1>c, <1>t, <2>1, <2>2
<1>3. ASSUME ServerConfig(p) PROVE Goal
  <2>0. /\ stage[p] = "config" /\ line'[p] = line[p]
    BY <1>3 DEF ServerConfig, launchVars, partVars, BootTyped
  <2>1. CASE c.ok
    <3>1. /\ stage'[p] = "token" /\ span'[p] = span[p] /\ stop'[p] = stop[p]
          /\ domain'[p] = domain[p]
      BY <1>3, <2>1 DEF ServerConfig, Enter, BootTyped
    <3> QED
      BY <1>0, <1>d, <2>0, <2>1, <3>1
         DEF Launched, NoReport, Current, Saw, Stands, Asked, Answered, Starting, Reporting
  <2>2. CASE ~c.ok
    <3>1. /\ stage'[p] = "done" /\ stop'[p] = c.value
          /\ span'[p] = <<span[p][1], changes>>
      BY <1>3, <2>2 DEF ServerConfig, Fail, ExitWith, BootTyped
    <3>2. Current(p) => stop'[p] = end
      BY <1>c, <1>d, <1>t, <2>0, <2>2, <3>1 DEF Saw, Starting, Reporting, ComesTo
    <3> QED
      BY <1>s, <2>0, <3>1, <3>2 DEF Starting
  <2> QED
    BY <1>d, <1>c, <1>t, <2>1, <2>2
<1>4. ASSUME ServerToken(p) PROVE Goal
  <2>0. /\ stage[p] = "token" /\ line'[p] = line[p]
    BY <1>4 DEF ServerToken, launchVars, partVars, BootTyped
  <2>1. CASE t.ok /\ SkipsProbe(line[p])
    <3>1. /\ stage'[p] = "up" /\ stop'[p] = "up"
          /\ span'[p] = <<span[p][1], changes>>
      BY <1>4, <2>1 DEF ServerToken, Serve, BootTyped
    <3>2. Current(p) => stop'[p] = end
      BY <1>c, <1>d, <1>t, <2>0, <2>1, <3>1 DEF Saw, Starting, Reporting, ComesTo
    <3> QED
      BY <1>s, <2>0, <3>1, <3>2 DEF Starting
  <2>2. CASE t.ok /\ ~SkipsProbe(line[p])
    <3>1. /\ stage'[p] = "probe" /\ span'[p] = span[p] /\ stop'[p] = stop[p]
          /\ domain'[p] = domain[p] /\ secret'[p] = t.value
      BY <1>4, <2>2 DEF ServerToken, Enter, BootTyped
    <3> QED
      BY <1>0, <1>d, <2>0, <2>2, <3>1
         DEF Launched, NoReport, Current, Saw, Stands, Asked, Answered, Starting, Reporting
  <2>3. CASE ~t.ok
    <3>1. /\ stage'[p] = "done" /\ stop'[p] = t.value
          /\ span'[p] = <<span[p][1], changes>>
      BY <1>4, <2>3 DEF ServerToken, Fail, ExitWith, BootTyped
    <3>2. Current(p) => stop'[p] = end
      BY <1>c, <1>d, <1>t, <2>0, <2>3, <3>1 DEF Saw, Starting, Reporting, ComesTo
    <3> QED
      BY <1>s, <2>0, <3>1, <3>2 DEF Starting
  <2> QED
    BY <1>d, <1>c, <1>t, <2>1, <2>2, <2>3
<1>5. ASSUME ServerProbe(p) PROVE Goal
  <2>0. /\ stage[p] = "probe" /\ line'[p] = line[p]
    BY <1>5 DEF ServerProbe, launchVars, partVars, BootTyped
  <2>1. CASE ProbeAuth(domain[p], secret[p])
    <3>1. /\ stage'[p] = "up" /\ stop'[p] = "up"
          /\ span'[p] = <<span[p][1], changes>>
      BY <1>5, <2>1 DEF ServerProbe, Serve, BootTyped
    <3>2. Current(p) => stop'[p] = end
      BY <1>c, <1>d, <1>t, <2>0, <2>1, <3>1 DEF Saw, Starting, Reporting, ComesTo, ProbeAuth
    <3> QED
      BY <1>s, <2>0, <3>1, <3>2 DEF Starting
  <2>2. CASE ~ProbeAuth(domain[p], secret[p])
    <3>1. /\ stage'[p] = "done" /\ stop'[p] = "probe"
          /\ span'[p] = <<span[p][1], changes>>
      BY <1>5, <2>2 DEF ServerProbe, Fail, ExitWith, BootTyped
    <3>2. Current(p) => stop'[p] = end
      BY <1>c, <1>d, <1>t, <2>0, <2>2, <3>1 DEF Saw, Starting, Reporting, ComesTo, ProbeAuth
    <3> QED
      BY <1>s, <2>0, <3>1, <3>2 DEF Starting
  <2> QED
    BY <1>d, <1>c, <1>t, <2>1, <2>2
<1>6. ASSUME StatusDomain(p) PROVE Goal
  <2>0. /\ stage[p] = "status_domain" /\ line'[p] = line[p]
    BY <1>6 DEF StatusDomain, launchVars, partVars, BootTyped
  <2>1. CASE d.ok
    <3>1. /\ stage'[p] = "status_config" /\ span'[p] = span[p] /\ stop'[p] = stop[p]
          /\ domain'[p] = d.value /\ report'[p] = [report[p] EXCEPT !.domain = d.value]
      BY <1>6, <2>1 DEF StatusDomain, Enter, BootTyped
    <3> QED
      BY <1>0, <1>d, <2>0, <2>1, <3>1
         DEF Launched, NoReport, Current, Saw, Stands, Asked, Answered, Starting, Reporting
  <2>2. CASE ~d.ok
    <3>1. /\ stage'[p] = "done" /\ code'[p] = 1
          /\ span'[p] = <<span[p][1], changes>>
          /\ report'[p] = [report[p] EXCEPT !.reason = "domain"]
      BY <1>6, <2>2, <1>d, Stops DEF StatusDomain, BootTyped
    <3>2. Current(p) => end = "domain"
      BY <1>c, <1>d, <1>t, <2>0, <2>2 DEF Saw, Starting, Reporting, ComesTo
    <3>3. /\ report'[p].domain = Unset /\ report'[p].reason = "domain"
          /\ report'[p].resolved = FALSE /\ report'[p].ran = FALSE /\ report'[p].ok = FALSE
      BY <2>0, <3>1 DEF Launched, NoReport
    <3>5. Current(p) => Text(report'[p]) = Says(end, SkipsProbe(line[p]))
      BY <1>c, <1>t, <2>2, <2>0, <3>2, <3>3 DEF Text, Says, ConfigFaults, Unset
    <3> QED
      BY <1>r, <1>c, <1>d, <1>t, <2>0, <2>2, <3>1, <3>2, <3>5 DEF Reporting, ConfigFaults
  <2> QED
    BY <1>d, <1>c, <1>t, <2>1, <2>2
<1>7. ASSUME StatusConfig(p) PROVE Goal
  <2>0. /\ stage[p] = "status_config" /\ line'[p] = line[p]
    BY <1>7 DEF StatusConfig, launchVars, partVars, BootTyped
  <2>1. CASE c.ok
    <3>1. /\ stage'[p] = "status_token" /\ span'[p] = span[p] /\ stop'[p] = stop[p]
          /\ domain'[p] = domain[p] /\ report'[p] = report[p]
      BY <1>7, <2>1 DEF StatusConfig, Enter, BootTyped
    <3> QED
      BY <1>0, <1>d, <2>0, <2>1, <3>1
         DEF Launched, NoReport, Current, Saw, Stands, Asked, Answered, Starting, Reporting
  <2>2. CASE ~c.ok
    <3>1. /\ stage'[p] = "done" /\ code'[p] = 1
          /\ span'[p] = <<span[p][1], changes>>
          /\ report'[p] = [report[p] EXCEPT !.reason = c.value]
      BY <1>7, <2>2, Stops DEF StatusConfig, BootTyped
    <3>2. Current(p) => end = c.value
      BY <1>c, <1>d, <1>t, <2>0, <2>2 DEF Saw, Starting, Reporting, ComesTo
    <3>3. /\ report'[p].domain = domain[p] /\ report'[p].reason = c.value
          /\ report'[p].resolved = FALSE /\ report'[p].ran = FALSE /\ report'[p].ok = FALSE
      BY <2>0, <3>1 DEF Launched, NoReport
    <3>4. Current(p) => domain[p] # Unset
      BY <1>d, <2>0 DEF Saw, Starting, Reporting
    <3>5. Current(p) => Text(report'[p]) = Says(end, SkipsProbe(line[p]))
      BY <1>c, <1>t, <2>2, <2>0, <3>2, <3>3, <3>4 DEF Text, Says, ConfigFaults, Unset
    <3> QED
      BY <1>r, <1>c, <1>d, <1>t, <2>0, <2>2, <3>1, <3>2, <3>5 DEF Reporting, ConfigFaults
  <2> QED
    BY <1>d, <1>c, <1>t, <2>1, <2>2
<1>8. ASSUME StatusToken(p) PROVE Goal
  <2>0. /\ stage[p] = "status_token" /\ line'[p] = line[p]
    BY <1>8 DEF StatusToken, launchVars, partVars, BootTyped
  <2>1. CASE t.ok /\ SkipsProbe(line[p])
    <3>1. /\ stage'[p] = "done" /\ code'[p] = 0
          /\ span'[p] = <<span[p][1], changes>>
          /\ report'[p] = [report[p] EXCEPT !.resolved = TRUE]
      BY <1>8, <2>1, Exits DEF StatusToken, BootTyped
    <3>2. Current(p) => end = "up"
      BY <1>c, <1>d, <1>t, <2>0, <2>1 DEF Saw, Starting, Reporting, ComesTo
    <3>3. /\ report'[p].domain = domain[p] /\ report'[p].reason = Unset
          /\ report'[p].resolved = TRUE /\ report'[p].ran = FALSE /\ report'[p].ok = FALSE
      BY <2>0, <3>1 DEF Launched, NoReport
    <3>4. Current(p) => domain[p] # Unset
      BY <1>d, <2>0 DEF Saw, Starting, Reporting
    <3>5. Current(p) => Text(report'[p]) = Says(end, SkipsProbe(line[p]))
      BY <1>c, <1>t, <2>1, <2>0, <3>2, <3>3, <3>4 DEF Text, Says, ConfigFaults, Unset
    <3> QED
      BY <1>r, <1>c, <1>d, <1>t, <2>0, <2>1, <3>1, <3>2, <3>5 DEF Reporting, ConfigFaults
  <2>2. CASE t.ok /\ ~SkipsProbe(line[p])
    <3>1. /\ stage'[p] = "status_probe" /\ span'[p] = span[p] /\ stop'[p] = stop[p]
          /\ domain'[p] = domain[p] /\ secret'[p] = t.value
          /\ report'[p] = [report[p] EXCEPT !.resolved = TRUE]
      BY <1>8, <2>2 DEF StatusToken, Enter, BootTyped
    <3>2. report'[p] = [NoReport EXCEPT !.domain = domain'[p], !.resolved = TRUE]
      BY <2>0, <3>1 DEF Launched, NoReport
    <3> QED
      BY <1>0, <1>d, <2>0, <2>2, <3>1, <3>2
         DEF Launched, NoReport, Current, Saw, Stands, Asked, Answered, Starting, Reporting
  <2>3. CASE ~t.ok
    <3>1. /\ stage'[p] = "done" /\ code'[p] = 1
          /\ span'[p] = <<span[p][1], changes>>
          /\ report'[p] = [report[p] EXCEPT !.reason = t.value]
      BY <1>8, <2>3, Stops DEF StatusToken, BootTyped
    <3>2. Current(p) => end = t.value
      BY <1>c, <1>d, <1>t, <2>0, <2>3 DEF Saw, Starting, Reporting, ComesTo
    <3>3. /\ report'[p].domain = domain[p] /\ report'[p].reason = t.value
          /\ report'[p].resolved = FALSE /\ report'[p].ran = FALSE /\ report'[p].ok = FALSE
      BY <2>0, <3>1 DEF Launched, NoReport
    <3>4. Current(p) => domain[p] # Unset
      BY <1>d, <2>0 DEF Saw, Starting, Reporting
    <3>5. Current(p) => Text(report'[p]) = Says(end, SkipsProbe(line[p]))
      BY <1>c, <1>t, <2>3, <2>0, <3>2, <3>3, <3>4 DEF Text, Says, ConfigFaults, Unset
    <3> QED
      BY <1>r, <1>c, <1>d, <1>t, <2>0, <2>3, <3>1, <3>2, <3>5 DEF Reporting, ConfigFaults
  <2> QED
    BY <1>d, <1>c, <1>t, <2>1, <2>2, <2>3
<1>9. ASSUME StatusProbe(p) PROVE Goal
  <2>0. /\ stage[p] = "status_probe" /\ line'[p] = line[p]
    BY <1>9 DEF StatusProbe, launchVars, partVars, BootTyped
  <2>1. CASE ProbeAuth(domain[p], secret[p])
    <3>1. /\ stage'[p] = "done" /\ code'[p] = 0
          /\ span'[p] = <<span[p][1], changes>>
          /\ report'[p] = [report[p] EXCEPT !.ran = TRUE, !.ok = TRUE]
      BY <1>9, <2>1, Exits DEF StatusProbe, BootTyped
    <3>2. Current(p) => end = "up"
      BY <1>c, <1>d, <1>t, <2>0, <2>1 DEF Saw, Starting, Reporting, ComesTo, ProbeAuth
    <3>3. /\ report'[p].domain = domain[p] /\ report'[p].reason = Unset
          /\ report'[p].resolved = TRUE /\ report'[p].ran = TRUE /\ report'[p].ok = TRUE
      BY <2>0, <3>1 DEF Launched, NoReport
    <3>4. Current(p) => domain[p] # Unset
      BY <1>d, <2>0 DEF Saw, Starting, Reporting
    <3>5. Current(p) => Text(report'[p]) = Says(end, SkipsProbe(line[p]))
      BY <1>c, <1>t, <2>1, <2>0, <3>2, <3>3, <3>4 DEF Saw, Reporting, Starting, Text, Says, ConfigFaults, Unset
    <3> QED
      BY <1>r, <1>c, <1>d, <1>t, <2>0, <2>1, <3>1, <3>2, <3>5 DEF Reporting, ConfigFaults
  <2>2. CASE ~ProbeAuth(domain[p], secret[p])
    <3>1. /\ stage'[p] = "done" /\ code'[p] = 1
          /\ span'[p] = <<span[p][1], changes>>
          /\ report'[p] = [report[p] EXCEPT !.ran = TRUE, !.ok = FALSE]
      <4>1. ExitWith(p, 1) /\ report' = [report EXCEPT ![p].ran = TRUE, ![p].ok = FALSE]
        BY <1>9, <2>2 DEF StatusProbe, ProbeAuth
      <4> QED
        BY <4>1, Exits DEF BootTyped
    <3>2. Current(p) => end = "probe"
      BY <1>c, <1>d, <1>t, <2>0, <2>2 DEF Saw, Starting, Reporting, ComesTo, ProbeAuth
    <3>3. /\ report'[p].domain = domain[p] /\ report'[p].reason = Unset
          /\ report'[p].resolved = TRUE /\ report'[p].ran = TRUE /\ report'[p].ok = FALSE
      BY <2>0, <3>1 DEF Launched, NoReport
    <3>4. Current(p) => domain[p] # Unset
      BY <1>d, <2>0 DEF Saw, Starting, Reporting
    <3>5. Current(p) => Text(report'[p]) = Says(end, SkipsProbe(line[p]))
      BY <1>c, <1>t, <2>2, <2>0, <3>2, <3>3, <3>4 DEF Saw, Reporting, Starting, Text, Says, ConfigFaults, Unset
    <3> QED
      BY <1>r, <1>c, <1>d, <1>t, <2>0, <2>2, <3>1, <3>2, <3>5 DEF Reporting, ConfigFaults
  <2> QED
    BY <1>d, <1>c, <1>t, <2>1, <2>2
<1>10. ASSUME NEW flag \in BOOLEAN, Write(p, flag) \/ Hangup(p, flag) PROVE Goal
  <2>1. /\ stage[p] = "up" /\ stage'[p] \in {"up", "done"} /\ span'[p] = span[p]
        /\ stop'[p] = stop[p] /\ line'[p] = line[p]
    BY <1>10 DEF Write, Hangup, launchVars, partVars, historyVars, BootTyped
  <2> QED
    BY <1>0, <2>1
       DEF Launched, NoReport, Current, Saw, Stands, Asked, Answered, Starting, Reporting
<1>11. ASSUME Signal(p) PROVE Goal
  <2>1. line'[p] = line[p]
    BY <1>11 DEF Signal
  <2>2. CASE stage[p] = "up"
    <3>1. stage'[p] = "done" /\ span'[p] = span[p] /\ stop'[p] = stop[p]
      BY <1>11, <2>2 DEF Signal, Fail, ExitWith, BootTyped
    <3> QED
      BY <1>0, <2>1, <2>2, <3>1
         DEF Launched, NoReport, Current, Saw, Stands, Asked, Answered, Starting, Reporting
  <2>3. CASE stage[p] = "probe"
    <3>1. /\ stage'[p] = "done" /\ stop'[p] = "signal" /\ span'[p] = <<span[p][1], changes>>
      BY <1>11, <2>3 DEF Signal, Fail, ExitWith, BootTyped
    <3> QED
      BY <1>s, <2>1, <2>3, <3>1 DEF Starting
  <2> QED
    BY <1>11, <2>2, <2>3 DEF Signal
<1> HIDE DEF Goal
<1> QED
  BY <1>1, <1>2, <1>3, <1>4, <1>5, <1>6, <1>7, <1>8, <1>9, <1>10, <1>11 DEF Moves, Stage

Foretold(p, q) ==
  /\ code[p] = 0 <=> stop[q] = "up"
  /\ Text(report[p]) = CASE stop[q] = "up" -> IF SkipsProbe(line[p]) THEN "skipped" ELSE "ok"
                          [] stop[q] \in {"domain", "probe"} -> stop[q]
                          [] stop[q] \in {"no_token", "keyring"} -> "token"
                          [] OTHER -> "config"

\* Two launches whose last moment is this one end alike, as the stores are.
NowForetold == \A p, q \in Launches :
  (span[p][2] = changes /\ Asked(p) /\ Answered(q) /\ Alike(p, q)) => Foretold(p, q)

LEMMA PresentAgree == BootTyped /\ Inside => NowForetold
<1> SUFFICES ASSUME BootTyped, Inside, NEW p \in Launches, NEW q \in Launches,
                    span[p][2] = changes, Asked(p), Answered(q), Alike(p, q)
             PROVE  Foretold(p, q)
  BY DEF NowForetold
<1>1. env[p] \in Environments /\ env[q] \in Environments /\ store \in Stores
      /\ span[p] \in Nat \X Nat /\ span[q] \in Nat \X Nat
  BY DEF BootTyped
<1>2. Current(p) /\ Current(q)
  BY <1>1 DEF Alike, Current
<1> DEFINE end == ComesTo(env[p], store, SkipsProbe(line[p]))
<1>3. ComesTo(env[q], store, SkipsProbe(line[q])) = end
  BY <1>1, SameEnds DEF Alike
<1>4. stop[q] = end
  BY <1>2, <1>3 DEF Inside, Saw
<1>5. /\ code[p] = 0 <=> end = "up"
      /\ Text(report[p]) = Says(end, SkipsProbe(line[p]))
  BY <1>2 DEF Inside, Saw
<1> HIDE DEF end
<1>6. code[p] = 0 <=> stop[q] = "up"
  BY <1>4, <1>5
<1>7. Text(report[p]) = Says(stop[q], SkipsProbe(line[p]))
  BY <1>4, <1>5
<1> QED
  BY <1>6, <1>7 DEF Foretold, Says

\* What another launch has, and is foretold, a move leaves alone.
LEMMA OthersStand ==
  ASSUME BootTyped, Inside, NEW r \in Launches, Rest(r), NEW q \in Launches, q # r
  PROVE  Launched(q)' /\ (Current(q)' => Saw(q, store)') /\ Stands(q)
<1>1. /\ stage'[q] = stage[q] /\ line'[q] = line[q] /\ domain'[q] = domain[q]
      /\ secret'[q] = secret[q] /\ report'[q] = report[q] /\ code'[q] = code[q]
      /\ span'[q] = span[q] /\ stop'[q] = stop[q]
      /\ store' = store /\ changes' = changes /\ env' = env
  BY DEF Rest
<1>2. Launched(q) /\ (Current(q) => Saw(q, store))
  BY DEF Inside
<1>3. Launched(q)'
  BY <1>1, <1>2 DEF Launched, NoReport
<1>4. (Asked(q)' <=> Asked(q)) /\ (Answered(q)' <=> Answered(q)) /\ (Current(q)' <=> Current(q))
  BY <1>1 DEF Asked, Answered, Current
<1>5. Saw(q, store)' <=> Saw(q, store)
  BY <1>1, <1>4 DEF Saw
<1>6. Stands(q)
  BY <1>1, <1>4 DEF Stands
<1> QED
  BY <1>2, <1>3, <1>4, <1>5, <1>6

LEMMA MoveForetells ==
  ASSUME BootTyped, Inside, StatusForetells, NEW r \in Launches, Moves(r)
  PROVE  BootTyped' /\ Inside' /\ StatusForetells'
<1>1. BootTyped' /\ Rest(r)
  BY OthersKeep
<1>2. Launched(r)' /\ (Current(r)' => Saw(r, store)') /\ Stands(r)
  BY OwnMove DEF Inside
<1>3. ASSUME NEW q \in Launches, q # r
      PROVE  Launched(q)' /\ (Current(q)' => Saw(q, store)') /\ Stands(q)
  BY <1>1, <1>3, OthersStand
<1>4. Inside'
  BY <1>2, <1>3 DEF Inside
<1>p. NowForetold'
  BY <1>1, <1>4, PresentAgree, PTL
<1>5. ASSUME NEW p \in Launches, NEW q \in Launches, Asked(p)', Answered(q)', Alike(p, q)'
      PROVE  Foretold(p, q)'
  <2>1. CASE span'[p][2] = changes'
    BY <1>5, <1>p, <2>1 DEF NowForetold
  <2>2. CASE span'[p][2] # changes'
    <3>1. env' = env /\ Stands(p) /\ Stands(q)
      BY <1>1, <1>2, <1>3 DEF Rest
    <3>2. span'[p][1] = span'[p][2] /\ span'[q][1] = span'[q][2] /\ ~Current(p)' /\ ~Current(q)'
      BY <1>5, <2>2 DEF Alike, Current
    <3>3. /\ Asked(p) /\ code'[p] = code[p] /\ report'[p] = report[p]
          /\ line'[p] = line[p] /\ span'[p] = span[p]
          /\ Answered(q) /\ stop'[q] = stop[q] /\ line'[q] = line[q] /\ span'[q] = span[q]
      BY <1>5, <3>1, <3>2 DEF Stands
    <3>4. Alike(p, q)
      BY <1>5, <3>1, <3>3 DEF Alike
    <3>5. Foretold(p, q)
      BY <3>3, <3>4 DEF StatusForetells, Foretold
    <3> QED
      BY <3>3, <3>5 DEF Foretold
  <2> QED
    BY <2>1, <2>2
<1> QED
  BY <1>1, <1>4, <1>5 DEF StatusForetells, Foretold

\* No step but Change moves the clock, and what is past stands.
LEMMA ChangeForetells ==
  ASSUME BootTyped, Inside, StatusForetells, Change
  PROVE  BootTyped' /\ Inside' /\ StatusForetells'
<1>1. /\ store' \in Stores /\ changes' = changes + 1 /\ changes \in Nat
      /\ UNCHANGED <<stage, line, env, code, domain, config, secret, report, span, stop, sent>>
  BY DEF Change, launchVars, partVars, BootTyped
<1>2. BootTyped'
  BY <1>1 DEF BootTyped
<1>3. ASSUME NEW p \in Launches PROVE Launched(p)' /\ ~Current(p)'
  <2>1. span[p] \in Nat \X Nat /\ span[p][1] <= changes /\ span[p][2] <= changes /\ Launched(p)
    BY DEF BootTyped, Inside, Launched
  <2>2. span'[p][1] <= changes' /\ span'[p][2] <= changes' /\ span'[p][1] # changes'
    BY <1>1, <2>1
  <2>3. ~Current(p)'
    BY <2>2 DEF Current
  <2>4. Launched(p)'
    BY <1>1, <2>1, <2>2 DEF Launched, NoReport
  <2> QED
    BY <2>3, <2>4
<1>4. ASSUME NEW p \in Launches, NEW q \in Launches, Asked(p)', Answered(q)', Alike(p, q)'
      PROVE  Foretold(p, q)'
  <2>1. Asked(p) /\ Answered(q) /\ Alike(p, q)
    BY <1>1, <1>4 DEF Asked, Answered, Alike
  <2>2. Foretold(p, q)
    BY <2>1 DEF StatusForetells, Foretold
  <2> QED
    BY <1>1, <2>2 DEF Foretold
<1> QED
  BY <1>2, <1>3, <1>4 DEF Inside, StatusForetells, Foretold

BInv == BootTyped /\ Inside /\ StatusForetells

LEMMA BootSteps == BInv /\ [BootNext]_bootVars => BInv'
<1> SUFFICES ASSUME BInv, [BootNext]_bootVars PROVE BInv'
  OBVIOUS
<1>1. CASE \E p \in Launches : Moves(p)
  BY <1>1, MoveForetells DEF BInv
<1>2. CASE Change
  BY <1>2, ChangeForetells DEF BInv
<1>3. CASE UNCHANGED bootVars
  <2>1. UNCHANGED <<store, stage, line, env, code, domain, config, secret, report, changes,
                    span, stop, sent>>
    BY <1>3 DEF bootVars, launchVars, partVars, historyVars
  <2>2. BootTyped'
    BY <2>1 DEF BInv, BootTyped
  <2>3. ASSUME NEW p \in Launches PROVE Launched(p)' /\ (Current(p)' => Saw(p, store)')
    <3>1. Launched(p) /\ (Current(p) => Saw(p, store))
      BY DEF BInv, Inside
    <3>2. Launched(p)'
      BY <2>1, <3>1 DEF Launched, NoReport
    <3>3. Current(p)' => Saw(p, store)'
      BY <2>1, <3>1 DEF Current, Saw, Asked, Answered
    <3> QED
      BY <3>2, <3>3
  <2>4. StatusForetells'
    BY <2>1 DEF BInv, StatusForetells, Asked, Answered, Alike
  <2> QED
    BY <2>2, <2>3, <2>4 DEF BInv, Inside
<1> QED
  BY <1>1, <1>2, <1>3 DEF BootNext, Moves

\* What status exits with, and the line it ends on, is what becomes of a
\* server, for any launches, command lines, environments and stores, however
\* often the stores change.
THEOREM Foretelling == BootSpec => []StatusForetells
<1>1. BootInit => BInv
  <2>1. BootInit => StatusForetells
    BY DEF BootInit, StatusForetells, Asked
  <2> QED
    BY <2>1, BootInitTyped DEF BInv
<1> QED
  BY <1>1, BootSteps, PTL DEF BootSpec, BInv

-----------------------------------------------------------------------------
\* Every server past its configuration holds the floor its environment sets,
\* and a write is sent only from one whose floor is off.
FloorInv == /\ BootTyped
            /\ \A p \in Launches : Floored(p)
            /\ \A p \in Launches : sent[p] => ParseBool(Lookup(env[p].dryRun)) = Value(FALSE)

LEMMA OffIsSaid ==
  ASSUME NEW v, ParseBool(Lookup(v)) = Value(FALSE)
  PROVE  v \in {Unset, "blank", "0", "false"}
BY DEF ParseBool, Lookup, Value, Failure, Unset

LEMMA OffIsLoaded ==
  ASSUME NEW e, LoadFor(e).ok, ~LoadFor(e).value.floor
  PROVE  ParseBool(Lookup(e.dryRun)) = Value(FALSE)
<1>1. ParseBool(Lookup(e.dryRun)).ok /\ ~ParseBool(Lookup(e.dryRun)).value
  BY LoadEnds
<1> QED
  BY <1>1 DEF ParseBool, Value, Failure

LEMMA OwnFloor ==
  ASSUME FloorInv, NEW p \in Launches, Moves(p)
  PROVE  Floored(p)' /\ (sent'[p] => ParseBool(Lookup(env[p].dryRun)) = Value(FALSE))
<1> DEFINE Off == ParseBool(Lookup(env[p].dryRun)) = Value(FALSE)
           Goal == Floored(p)' /\ (sent'[p] => Off)
<1> SUFFICES Goal
  OBVIOUS
<1>0. env' = env /\ (sent[p] => Off) /\ Floored(p) /\ BootTyped
  BY OthersKeep DEF FloorInv, Rest
<1> HIDE DEF Off
\* A stage that leaves the configuration alone, and is not behind it.
<1>k. ASSUME config'[p] = config[p], sent'[p] = sent[p],
             stage[p] \in {"token", "probe", "up"} \/ stage'[p] \notin {"token", "probe", "up"}
      PROVE  Goal
  BY <1>0, <1>k DEF Floored
<1> USE DEF BootTyped, launchVars, partVars, historyVars, Enter, ExitWith, Fail, Serve
<1>1. ASSUME NEW words \in Lines[p], Run(p, words) PROVE Goal
  <2>1. stage'[p] \in {"done", "domain", "status_domain"}
    BY <1>0, <1>1 DEF Run
  <2>2. config' = config /\ sent' = sent
    BY <1>1 DEF Run
  <2> QED
    BY <1>k, <2>1, <2>2
<1>2. ASSUME ServerDomain(p) PROVE Goal
  <2>1. stage'[p] \in {"done", "config"} /\ config' = config /\ sent' = sent
    BY <1>0, <1>2 DEF ServerDomain
  <2> QED
    BY <1>k, <2>1
<1>3. ASSUME ServerConfig(p) PROVE Goal
  <2>1. CASE LoadFor(env[p]).ok
    <3>1. stage'[p] = "token" /\ config'[p] = LoadFor(env[p]).value /\ sent' = sent
      BY <1>0, <1>3, <2>1 DEF ServerConfig
    <3> QED
      BY <1>0, <2>1, <3>1 DEF Floored
  <2>2. CASE ~LoadFor(env[p]).ok
    <3>1. stage'[p] = "done" /\ config' = config /\ sent' = sent
      BY <1>0, <1>3, <2>2 DEF ServerConfig
    <3> QED
      BY <1>k, <3>1
  <2> QED
    BY <2>1, <2>2
<1>4. ASSUME ServerToken(p) PROVE Goal
  <2>1. stage[p] = "token" /\ config' = config /\ sent' = sent
    BY <1>4 DEF ServerToken
  <2> QED
    BY <1>k, <2>1
<1>5. ASSUME ServerProbe(p) PROVE Goal
  <2>1. stage[p] = "probe" /\ config' = config /\ sent' = sent
    BY <1>5 DEF ServerProbe
  <2> QED
    BY <1>k, <2>1
<1>6. ASSUME StatusDomain(p) \/ StatusConfig(p) \/ StatusToken(p) \/ StatusProbe(p) PROVE Goal
  <2>1. sent' = sent
    BY <1>6 DEF StatusDomain, StatusConfig, StatusToken, StatusProbe
  <2>2. stage'[p] \in {"done", "status_config", "status_token", "status_probe"}
    <3>1. CASE StatusDomain(p)
      BY <1>0, <3>1 DEF StatusDomain, Stopped
    <3>2. CASE StatusConfig(p)
      BY <1>0, <3>2 DEF StatusConfig, Stopped
    <3>3. CASE StatusToken(p)
      BY <1>0, <3>3 DEF StatusToken, Stopped
    <3>4. CASE StatusProbe(p)
      BY <1>0, <3>4 DEF StatusProbe
    <3> QED
      BY <1>6, <3>1, <3>2, <3>3, <3>4
  <2> QED
    BY <1>0, <2>1, <2>2 DEF Floored
<1>7. ASSUME NEW flag \in BOOLEAN, Write(p, flag) PROVE Goal
  <2>1. stage[p] = "up" /\ stage' = stage /\ config' = config
        /\ sent' = [sent EXCEPT ![p] = @ \/ ~(flag \/ config[p].floor)]
    BY <1>7 DEF Write
  <2>2. LoadFor(env[p]).ok /\ config[p] = LoadFor(env[p]).value
    BY <1>0, <2>1 DEF Floored
  <2>3. sent'[p] = (sent[p] \/ ~(flag \/ config[p].floor))
    BY <1>0, <2>1
  <2>4. ~config[p].floor => Off
    BY <2>2, OffIsLoaded DEF Off
  <2>5. sent'[p] => Off
    BY <1>0, <2>3, <2>4
  <2> QED
    BY <1>0, <2>1, <2>2, <2>5 DEF Floored
<1>8. ASSUME NEW flag \in BOOLEAN, Hangup(p, flag) PROVE Goal
  <2>1. stage'[p] = "done" /\ config' = config /\ sent' = sent
    BY <1>0, <1>8 DEF Hangup
  <2> QED
    BY <1>k, <2>1
<1>9. ASSUME Signal(p) PROVE Goal
  <2>1. stage'[p] = "done" /\ config' = config /\ sent' = sent
    BY <1>0, <1>9 DEF Signal
  <2> QED
    BY <1>k, <2>1
<1> HIDE DEF Goal
<1> QED
  BY <1>1, <1>2, <1>3, <1>4, <1>5, <1>6, <1>7, <1>8, <1>9 DEF Moves, Stage

LEMMA FloorSteps == FloorInv /\ [BootNext]_bootVars => FloorInv'
<1> SUFFICES ASSUME FloorInv, [BootNext]_bootVars PROVE FloorInv'
  OBVIOUS
<1>1. ASSUME NEW r \in Launches, Moves(r) PROVE FloorInv'
  <2>1. BootTyped' /\ Rest(r)
    BY <1>1, OthersKeep DEF FloorInv
  <2>2. Floored(r)' /\ (sent'[r] => ParseBool(Lookup(env[r].dryRun)) = Value(FALSE))
    BY <1>1, OwnFloor
  <2>3. ASSUME NEW q \in Launches, q # r
        PROVE  Floored(q)' /\ (sent'[q] => ParseBool(Lookup(env[q].dryRun)) = Value(FALSE))
    BY <2>1, <2>3 DEF FloorInv, Floored, Rest
  <2>4. env' = env
    BY <2>1 DEF Rest
  <2> QED
    BY <2>1, <2>2, <2>3, <2>4 DEF FloorInv
<1>2. CASE Change
  <2>1. UNCHANGED <<stage, line, env, code, domain, config, secret, report, span, stop, sent>>
        /\ store' \in Stores /\ changes' = changes + 1
    BY <1>2 DEF Change, launchVars, partVars
  <2>2. BootTyped'
    BY <2>1 DEF FloorInv, BootTyped
  <2>3. ASSUME NEW p \in Launches
        PROVE  Floored(p)' /\ (sent'[p] => ParseBool(Lookup(env'[p].dryRun)) = Value(FALSE))
    BY <2>1 DEF FloorInv, Floored
  <2> QED
    BY <2>2, <2>3 DEF FloorInv
<1>3. CASE UNCHANGED bootVars
  BY <1>3 DEF FloorInv, BootTyped, Floored, bootVars, launchVars, partVars, historyVars
<1> QED
  BY <1>1, <1>2, <1>3 DEF BootNext, Moves

\* A server sends Pipedrive no write under a floor, for any launches,
\* settings and calls.
THEOREM NoWritesUnderFloor == BootSpec => []NoWritePastTheFloor
<1>1. BootInit => FloorInv
  BY BootInitTyped DEF FloorInv, BootInit
<1>2. FloorInv => NoWritePastTheFloor
  BY OffIsSaid DEF FloorInv, NoWritePastTheFloor
<1> QED
  BY <1>1, <1>2, FloorSteps, PTL DEF BootSpec

-----------------------------------------------------------------------------
\* Workspace.

(***************************************************************************)
(* Where a process is fits its command, and what it has in hand fits where *)
(* it is.                                                                  *)
(***************************************************************************)
Shape(p) ==
  /\ pc[p] = "idle" => ~alone[p] /\ ~Login(p)
  /\ pc[p] \in {"idle", "resolve", "token"} => token[p] = None
  /\ pc[p] = "resolve" => ~Login(p)
  /\ pc[p] = "token" => order[p].cmd = "serve"
  /\ pc[p] = "store" => Login(p) /\ <<target[p], token[p]>> \in Accepted
  /\ pc[p] = "delete" => Logout(p)
  /\ pc[p] \in {"load", "save"} => order[p].cmd # "serve"
  /\ pc[p] \in {"token", "probe", "store", "delete", "load", "save"} =>
       target[p] \in Domains
  /\ Login(p) => token[p] \in Tokens
  /\ took[p] => Logout(p) /\ pc[p] \notin {"idle", "resolve", "delete"}
  /\ exit[p] # "none" => pc[p] = "done"
  /\ exit[p] = "ok" => order[p].cmd # "serve" /\ target[p] \in Domains

\* A login past its Store whose token is gone was crossed by a logout.
Crossing(p) ==
  (Login(p) /\ pc[p] \in {"load", "save"} /\ keyring[target[p]] = None) =>
    \E q \in Processes : took[q] /\ target[q] = target[p] /\ crossed[q]

\* While a process is alone nobody else writes, and its own writes stand.
Undisturbed(p) == alone[p] =>
  /\ \A q \in Processes \ {p} : Active(q) => order[q].cmd = "serve"
  /\ (Login(p) /\ pc[p] \in {"load", "save"}) => keyring[target[p]] = token[p]
  /\ (Logout(p) /\ pc[p] \in {"load", "save"}) => keyring[target[p]] = None

Local == \A p \in Processes : Shape(p)
Witnessed == PointerHasToken /\ \A p \in Processes : Crossing(p)
Settled == DoneMeansDone /\ \A p \in Processes : Undisturbed(p)

IInv == TypeOK /\ Local /\ TokensFitDomains /\ Witnessed /\ Settled

USE OrdersAssumption, AcceptedAssumption, NoneAssumption, GarbledAssumption

-----------------------------------------------------------------------------
LEMMA OrderTyped ==
  ASSUME NEW o \in Orders \cup {NoOrder}
  PROVE  /\ o.cmd \in {"login", "logout", "serve"}
         /\ o.domain \in Domains \cup {None} /\ o.token \in Tokens \cup {None}
         /\ o.cmd = "login" => o.domain \in Domains /\ o.token \in Tokens
BY DEF NoOrder

LEMMA InitTyped == Init => TypeOK
BY DEF Init, TypeOK

LEMMA StepTyped ==
  ASSUME TypeOK, NEW p \in Processes, Step(p)
  PROVE  TypeOK'
<1> USE DEF TypeOK, Goto, Exit, storeVars, procVars, pastVars
<1>1. ASSUME NEW o \in Orders, Start(p, o) PROVE TypeOK'
  <2>1. o.domain \in Domains \cup {None} /\ o.token \in Tokens \cup {None}
    OBVIOUS
  <2> QED
    BY <1>1, <2>1 DEF Start
<1>2. CASE Resolve(p)
  BY <1>2 DEF Resolve
<1>3. CASE GetToken(p)
  BY <1>3 DEF GetToken
<1>4. CASE Probe(p)
  BY <1>4 DEF Probe
<1>5. CASE Store(p)
  BY <1>5 DEF Store
<1>6. CASE Delete(p)
  BY <1>6 DEF Delete
<1>7. CASE Load(p)
  BY <1>7 DEF Load
<1>8. CASE Save(p)
  BY <1>8 DEF Save
<1>9. CASE Die(p)
  BY <1>9 DEF Die
<1> QED
  BY <1>1, <1>2, <1>3, <1>4, <1>5, <1>6, <1>7, <1>8, <1>9 DEF Step

\* A step of p leaves the others where they are; it can only end their
\* being alone.
LEMMA OthersStay ==
  ASSUME TypeOK, NEW p \in Processes, Step(p), NEW q \in Processes, q # p
  PROVE  /\ pc'[q] = pc[q] /\ order'[q] = order[q] /\ target'[q] = target[q]
         /\ token'[q] = token[q] /\ exit'[q] = exit[q]
         /\ took'[q] = took[q] /\ crossed'[q] = crossed[q]
         /\ alone'[q] => alone[q]
<1> USE DEF TypeOK, Goto, Exit, storeVars, procVars, pastVars
<1>1. CASE \E o \in Orders : Start(p, o)
  BY <1>1 DEF Start
<1>2. CASE Resolve(p) \/ GetToken(p)
  BY <1>2 DEF Resolve, GetToken
<1>3. CASE Probe(p) \/ Store(p) \/ Delete(p)
  BY <1>3 DEF Probe, Store, Delete
<1>4. CASE Load(p) \/ Save(p) \/ Die(p)
  BY <1>4 DEF Load, Save, Die
<1> QED
  BY <1>1, <1>2, <1>3, <1>4 DEF Step

LEMMA StepShaped ==
  ASSUME TypeOK, Local, NEW p \in Processes, Step(p)
  PROVE  Local'
<1>1. Shape(p)'
  <2> USE DEF TypeOK, Shape, Login, Logout, Goto, Exit, storeVars, procVars, pastVars
  <2>0. Shape(p)
    BY DEF Local
  <2>1. ASSUME NEW o \in Orders, Start(p, o) PROVE Shape(p)'
    <3>1. /\ o.cmd \in {"login", "logout", "serve"}
          /\ o.cmd = "login" => o.domain \in Domains /\ o.token \in Tokens
      OBVIOUS
    <3> QED
      BY <2>0, <2>1, <3>1 DEF Start
  <2>2. CASE Resolve(p)
    <3>1. order[p].cmd \in {"login", "logout", "serve"}
      BY OrderTyped
    <3> QED
      BY <2>0, <2>2, <3>1 DEF Resolve
  <2>3. CASE GetToken(p)
    BY <2>0, <2>3 DEF GetToken
  <2>4. CASE Probe(p)
    BY <2>0, <2>4 DEF Probe
  <2>5. CASE Store(p)
    BY <2>0, <2>5 DEF Store
  <2>6. CASE Delete(p)
    BY <2>0, <2>6 DEF Delete
  <2>7. CASE Load(p)
    BY <2>0, <2>7 DEF Load
  <2>8. CASE Save(p)
    BY <2>0, <2>8 DEF Save
  <2>9. CASE Die(p)
    BY <2>0, <2>9 DEF Die, Active
  <2> QED
    BY <2>1, <2>2, <2>3, <2>4, <2>5, <2>6, <2>7, <2>8, <2>9 DEF Step
<1>2. ASSUME NEW q \in Processes, q # p PROVE Shape(q)'
  BY <1>2, OthersStay DEF Local, Shape, Login, Logout
<1> QED
  BY <1>1, <1>2 DEF Local

-----------------------------------------------------------------------------
LEMMA StepFits ==
  ASSUME TypeOK, Local, TokensFitDomains, NEW p \in Processes, Step(p)
  PROVE  TokensFitDomains'
<1> DEFINE Has(q) == (token[q] # None /\ order[q].cmd = "serve" /\ order[q].token = None)
                       => <<target[q], token[q]>> \in Accepted
<1>0. /\ Shape(p) /\ Has(p)
      /\ \A d \in Domains : keyring[d] # None => <<d, keyring[d]>> \in Accepted
  BY DEF Local, TokensFitDomains
<1>1. \A d \in Domains : keyring'[d] # None => <<d, keyring'[d]>> \in Accepted
  <2>1. CASE Store(p)
    BY <1>0, <2>1 DEF Store, Goto, Exit, TypeOK, Shape
  <2>2. CASE Delete(p)
    BY <1>0, <2>2 DEF Delete, Goto, Exit, TypeOK, Shape
  <2>3. CASE keyring' = keyring
    BY <1>0, <2>3
  <2> QED
    BY <2>1, <2>2, <2>3
    DEF Step, Start, Resolve, GetToken, Probe, Load, Save, Die, storeVars
<1>2. Has(p)'
  <2>1. CASE \E o \in Orders : Start(p, o)
    BY <1>0, <2>1 DEF Start, TypeOK, Shape
  <2>2. CASE Resolve(p)
    BY <1>0, <2>2 DEF Resolve, TypeOK, Shape
  <2>3. CASE GetToken(p)
    BY <1>0, <2>3 DEF GetToken, TypeOK, Shape
  <2>4. CASE UNCHANGED procVars
    BY <1>0, <2>4 DEF procVars
  <2> QED
    BY <2>1, <2>2, <2>3, <2>4 DEF Step, Probe, Store, Delete, Load, Save, Die
<1>3. ASSUME NEW q \in Processes, q # p PROVE Has(q)'
  BY <1>3, OthersStay DEF TokensFitDomains
<1> QED
  BY <1>1, <1>2, <1>3 DEF TokensFitDomains

-----------------------------------------------------------------------------
\* Once a process has deleted, that it has and for what is never lost; nor is
\* that a login was crossed.
LEMMA DeletionsStay ==
  ASSUME TypeOK, Local, NEW p \in Processes, Step(p),
         NEW q \in Processes, took[q]
  PROVE  took'[q] /\ target'[q] = target[q] /\ crossed'[q] = crossed[q]
<1>1. CASE q # p
  BY <1>1, OthersStay
<1>2. CASE q = p
  BY <1>2 DEF Local, Shape, Step, Start, Resolve, GetToken, Probe, Store, Delete, Load,
       Save, Die, procVars, pastVars, TypeOK
<1> QED
  BY <1>1, <1>2

\* A login between its two writes whose token is gone has its crossing.
LEMMA StepCrossing ==
  ASSUME TypeOK, Local, Witnessed, NEW p \in Processes, Step(p), NEW r \in Processes
  PROVE  Crossing(r)'
<1> SUFFICES ASSUME (Login(r) /\ pc[r] \in {"load", "save"})', keyring'[target'[r]] = None
             PROVE  \E q \in Processes :
                      took'[q] /\ target'[q] = target'[r] /\ crossed'[q]
  BY DEF Crossing
<1>0. Shape(p) /\ Shape(r) /\ Crossing(r)
  BY DEF Local, Witnessed
<1>1. CASE Login(r) /\ pc[r] \in {"load", "save"} /\ target'[r] = target[r]
  <2>1. CASE keyring[target[r]] = None
    <3>1. PICK q \in Processes : took[q] /\ target[q] = target[r] /\ crossed[q]
      BY <1>0, <1>1, <2>1 DEF Crossing
    <3> QED
      BY <1>1, <3>1, DeletionsStay
  <2>2. CASE keyring[target[r]] # None
    <3>1. Delete(p) /\ keyring'[target[r]] # keyring[target[r]] /\ target[p] = target[r]
      <4>1. keyring'[target[r]] # keyring[target[r]]
        BY <1>1, <2>2
      <4>2. ~Store(p)
        BY <1>0, <1>1, <2>2, <4>1
        DEF Store, Goto, Exit, Shape, Login, TypeOK
      <4> QED
        BY <4>1, <4>2, <1>0, <1>1 DEF Step, Start, Resolve, GetToken, Probe, Delete, Load,
             Save, Die, storeVars, TypeOK, Shape
    <3>2. took'[p] /\ crossed'[p] /\ target'[p] = target[p]
      BY <1>1, <3>1 DEF Delete, Exit, Goto, TypeOK, procVars
    <3> QED
      BY <1>1, <3>1, <3>2
  <2> QED
    BY <2>1, <2>2
<1>2. CASE ~(Login(r) /\ pc[r] \in {"load", "save"} /\ target'[r] = target[r])
  <2>1. r = p
    BY <1>2, OthersStay DEF Login
  <2>2. Store(p) /\ pc'[p] = "load"
    <3> USE DEF TypeOK, Goto, Exit, Login, procVars
    <3>1. pc'[p] \in {"load", "save"} /\ order'[p].cmd = "login"
      BY <2>1
    <3>2. ASSUME NEW o \in Orders, Start(p, o) PROVE FALSE
      <4>1. pc'[p] \in {"probe", "resolve"}
        BY <3>2 DEF Start
      <4> QED
        BY <3>1, <4>1
    <3>3. ~Resolve(p) /\ ~GetToken(p) /\ ~Probe(p) /\ ~Save(p) /\ ~Die(p)
      BY <3>1 DEF Resolve, GetToken, Probe, Save, Die
    <3>4. ~Delete(p)
      BY <1>0, <3>1 DEF Delete, Shape, Logout
    <3>5. ~Load(p)
      BY <1>2, <2>1, <3>1 DEF Load
    <3> QED
      BY <3>1, <3>2, <3>3, <3>4, <3>5 DEF Step, Store
  <2>3. keyring'[target'[p]] = token[p] /\ token[p] \in Tokens
    BY <1>0, <2>2 DEF Store, Exit, Goto, Shape, TypeOK, procVars, Login
  <2> QED
    BY <2>1, <2>3
<1> QED
  BY <1>1, <1>2

\* A witness for a pointer without a token stays one, unless the step that
\* ends its logout clears the pointer.
LEMMA StepWitnessed ==
  ASSUME TypeOK, Local, Witnessed, NEW p \in Processes, Step(p)
  PROVE  Witnessed'
<1>1. ASSUME NEW r \in Processes PROVE Crossing(r)'
  BY StepCrossing
<1>2. PointerHasToken'
  <2> SUFFICES ASSUME NEW d \in Domains, pointer' = d, keyring'[d] = None
               PROVE  \E q \in Processes :
                        took'[q] /\ target'[q] = d /\ (exit'[q] # "ok" \/ crossed'[q])
    BY DEF PointerHasToken
  <2>0. Shape(p) /\ Crossing(p)
    BY DEF Local, Witnessed
  <2>1. CASE pointer # d
    <3>1. Save(p) /\ Login(p) /\ target[p] = d /\ keyring' = keyring
      BY <2>1 DEF Step, Start, Resolve, GetToken, Probe, Store, Delete, Load, Save, Die,
           storeVars, Exit
    <3>2. PICK q \in Processes : took[q] /\ target[q] = d /\ crossed[q]
      BY <2>0, <3>1 DEF Crossing, Save
    <3> QED
      BY <3>2, DeletionsStay
  <2>2. CASE pointer = d /\ keyring[d] = None
    <3>1. PICK q \in Processes : took[q] /\ target[q] = d /\ (exit[q] # "ok" \/ crossed[q])
      BY <2>2 DEF Witnessed, PointerHasToken
    <3>2. took'[q] /\ target'[q] = d /\ crossed'[q] = crossed[q]
      BY <3>1, DeletionsStay
    <3>3. exit[q] # "ok" => exit'[q] # "ok"
      <4>1. CASE q # p
        BY <4>1, OthersStay
      <4>2. CASE q = p
        BY <2>0, <2>2, <3>1, <4>2 DEF Step, Start, Resolve, GetToken, Probe, Store, Delete,
             Load, Save, Die, Goto, Exit, Shape, Login, Logout, TypeOK
      <4> QED
        BY <4>1, <4>2
    <3> QED
      BY <3>1, <3>2, <3>3
  <2>3. CASE pointer = d /\ keyring[d] # None
    <3>1. Delete(p) /\ target[p] = d /\ keyring' # keyring
      <4>1. ~Store(p)
        BY <2>0, <2>3 DEF Store, Goto, Exit, Shape, Login, TypeOK
      <4> QED
        BY <2>0, <2>3, <4>1 DEF Step, Start, Resolve, GetToken, Probe, Delete, Load,
             Save, Die, storeVars, TypeOK, Shape
    <3> QED
      BY <2>0, <3>1 DEF Delete, Exit, Goto, Shape, TypeOK, procVars
  <2> QED
    BY <2>1, <2>2, <2>3
<1> QED
  BY <1>1, <1>2 DEF Witnessed

-----------------------------------------------------------------------------
\* A process that stays alone is disturbed by no step, its own included.
LEMMA StepUndisturbed ==
  ASSUME TypeOK, Local, Settled, NEW p \in Processes, Step(p),
         NEW r \in Processes, alone'[r]
  PROVE  Undisturbed(r)'
<1> USE DEF Login, Logout
<1>0. Shape(p) /\ Shape(r) /\ Undisturbed(r)
  BY DEF Local, Settled
<1>1. CASE p = r
  <2> USE DEF TypeOK, Goto, Exit, procVars, storeVars, pastVars
  <2>1. \A q \in Processes \ {r} : Active(q)' = Active(q) /\ order'[q] = order[q]
    BY <1>1, OthersStay DEF Active
  <2>2. CASE \E o \in Orders : Start(p, o)
    BY <1>1, <2>1, <2>2 DEF Undisturbed, Start
  <2>3. CASE Resolve(p) \/ GetToken(p) \/ Probe(p)
    BY <1>0, <1>1, <2>1, <2>3 DEF Undisturbed, Resolve, GetToken, Probe
  <2>4. CASE Store(p)
    BY <1>0, <1>1, <2>1, <2>4 DEF Undisturbed, Store, Shape
  <2>5. CASE Delete(p)
    BY <1>0, <1>1, <2>1, <2>5 DEF Undisturbed, Delete, Shape
  <2>6. CASE Load(p)
    BY <1>0, <1>1, <2>1, <2>6 DEF Undisturbed, Load
  <2>7. CASE Save(p)
    BY <1>0, <1>1, <2>1, <2>7 DEF Undisturbed, Save
  <2>8. CASE Die(p)
    BY <1>0, <1>1, <2>1, <2>8 DEF Undisturbed, Die
  <2> QED
    BY <2>2, <2>3, <2>4, <2>5, <2>6, <2>7, <2>8 DEF Step
<1>2. CASE p # r
  <2>1. /\ alone[r] /\ pc'[r] = pc[r] /\ order'[r] = order[r]
        /\ target'[r] = target[r] /\ token'[r] = token[r]
    BY <1>2, OthersStay
  <2>2. \A q \in Processes \ {r} : Active(q)' => order'[q].cmd = "serve"
    <3>1. ASSUME NEW o \in Orders, Start(p, o), NEW q \in Processes \ {r}, Active(q)'
          PROVE  order'[q].cmd = "serve"
      <4>1. CASE q = p
        <5>1. alone'[r] => o.cmd = "serve"
          BY <1>2, <3>1 DEF Start
        <5>2. order'[p] = o
          BY <3>1 DEF Start, TypeOK
        <5> QED
          BY <4>1, <5>1, <5>2
      <4>2. CASE q # p
        <5>1. pc'[q] = pc[q] /\ order'[q] = order[q]
          BY <4>2, OthersStay
        <5> QED
          BY <1>0, <2>1, <3>1, <5>1 DEF Undisturbed, Active
      <4> QED
        BY <4>1, <4>2
    <3>2. CASE Active(p)
      <4>1. order'[p] = order[p]
        BY <3>2 DEF Step, Start, Resolve, GetToken, Probe, Store, Delete, Load, Save, Die,
             procVars, Active
      <4>2. order[p].cmd = "serve"
        BY <1>0, <1>2, <2>1, <3>2 DEF Undisturbed
      <4>3. ASSUME NEW q \in Processes \ {r}, q # p, Active(q)'
            PROVE  order'[q].cmd = "serve"
        <5>1. pc'[q] = pc[q] /\ order'[q] = order[q]
          BY <4>3, OthersStay
        <5> QED
          BY <1>0, <2>1, <4>3, <5>1 DEF Undisturbed, Active
      <4> QED
        BY <4>1, <4>2, <4>3
    <3> QED
      BY <3>1, <3>2 DEF Step, Resolve, GetToken, Probe, Store, Delete, Load, Save, Die,
         Active
  <2>3. keyring' = keyring
    <3>1. ~Store(p) /\ ~Delete(p)
      BY <1>0, <1>2, <2>1 DEF Store, Delete, Undisturbed, Active, Shape
    <3> QED
      BY <3>1 DEF Step, Start, Resolve, GetToken, Probe, Load, Save, Die, storeVars
  <2> QED
    BY <1>0, <2>1, <2>2, <2>3 DEF Undisturbed
<1> QED
  BY <1>1, <1>2

\* A process that reports ok alone has just left both stores as it should, and
\* later nobody touches them before it stops being alone.
LEMMA StepSettled ==
  ASSUME TypeOK, Local, Settled, NEW p \in Processes, Step(p)
  PROVE  Settled'
<1>1. ASSUME NEW r \in Processes PROVE Undisturbed(r)'
  BY StepUndisturbed DEF Undisturbed
<1>2. ASSUME NEW r \in Processes, exit'[r] = "ok", alone'[r]
      PROVE  /\ Login(r)' => keyring'[target'[r]] = token'[r] /\ pointer' = target'[r]
             /\ Logout(r)' => keyring'[target'[r]] = None /\ pointer' # target'[r]
  <2> USE DEF Login, Logout
  <2>0. Shape(p) /\ Shape(r) /\ Undisturbed(r)
    BY DEF Local, Settled
  <2>1. CASE p = r
    <3>1. pc[p] \notin {"idle"} /\ pc[p] # "done"
      BY <1>2, <2>0, <2>1 DEF Step, Start, Resolve, GetToken, Probe, Store, Delete, Load,
         Save, Die, Shape, Active, Goto, Exit, TypeOK
    <3>2. Load(p) \/ Save(p)
      BY <1>2, <2>0, <2>1, <3>1 DEF Step, Start, Resolve, GetToken, Probe, Store, Delete,
         Die, Shape, Goto, Exit, TypeOK
    <3>3. CASE Load(p)
      BY <1>2, <2>0, <2>1, <3>3 DEF Load, Goto, Exit, Shape, Undisturbed, TypeOK, procVars,
         storeVars, pastVars
    <3>4. CASE Save(p)
      BY <1>2, <2>0, <2>1, <3>4 DEF Save, Exit, Shape, Undisturbed, TypeOK, procVars,
         pastVars
    <3> QED
      BY <3>2, <3>3, <3>4
  <2>2. CASE p # r
    <3>1. /\ alone[r] /\ exit[r] = "ok" /\ order'[r] = order[r]
          /\ target'[r] = target[r] /\ token'[r] = token[r]
      BY <1>2, <2>2, OthersStay
    <3>2. UNCHANGED storeVars
      <4>1. ~Store(p) /\ ~Delete(p) /\ ~Save(p)
        BY <2>0, <2>2, <3>1 DEF Store, Delete, Save, Undisturbed, Active, Shape
      <4> QED
        BY <4>1 DEF Step, Start, Resolve, GetToken, Probe, Load, Die
    <3> QED
      BY <3>1, <3>2 DEF Settled, DoneMeansDone, storeVars
  <2> QED
    BY <2>1, <2>2
<1> QED
  BY <1>1, <1>2 DEF Settled, DoneMeansDone

-----------------------------------------------------------------------------
LEMMA InitHolds == Init => IInv
<1> SUFFICES ASSUME Init PROVE IInv
  OBVIOUS
<1>1. TypeOK
  BY InitTyped
<1>2. Local
  BY DEF Init, Local, Shape, NoOrder, Login
<1>3. TokensFitDomains
  BY DEF Init, TokensFitDomains
<1>4. Witnessed
  BY DEF Init, Witnessed, PointerHasToken, Crossing
<1>5. Settled
  BY DEF Init, Settled, DoneMeansDone, Undisturbed
<1> QED
  BY <1>1, <1>2, <1>3, <1>4, <1>5 DEF IInv

LEMMA StepHolds == IInv /\ [Next]_vars => IInv'
<1> SUFFICES ASSUME IInv, [Next]_vars PROVE IInv'
  OBVIOUS
<1> USE DEF IInv
<1>1. ASSUME NEW p \in Processes, Step(p) PROVE IInv'
  BY <1>1, StepTyped, StepShaped, StepFits, StepWitnessed, StepSettled
<1>2. CASE UNCHANGED vars
  <2> USE <1>2 DEF vars, storeVars, procVars, pastVars, Login, Logout
  <2>1. TypeOK' /\ TokensFitDomains'
    BY DEF TypeOK, TokensFitDomains
  <2>2. Local'
    BY DEF Local, Shape
  <2>3. Witnessed'
    BY DEF Witnessed, PointerHasToken, Crossing
  <2>4. Settled'
    BY DEF Settled, DoneMeansDone, Undisturbed, Active
  <2> QED
    BY <2>1, <2>2, <2>3, <2>4
<1> QED
  BY <1>1, <1>2 DEF Next

LEMMA Invariance == Spec => []IInv
BY InitHolds, StepHolds, PTL DEF Spec

\* Every variable holds a value of its kind: no command writes anything to the
\* file but a workspace (Resolve, Save).
THEOREM Typing == Spec => []TypeOK
<1>1. IInv => TypeOK
  BY DEF IInv
<1> QED
  BY Invariance, <1>1, PTL

\* The keyring holds accepted pairs alone, and what a server takes from it fits
\* the workspace it settled on before (cmdLogin, resolveWith).
THEOREM AcceptedTokens == Spec => []TokensFitDomains
<1>1. IInv => TokensFitDomains
  BY DEF IInv
<1> QED
  BY Invariance, <1>1, PTL

\* A pointer without a token has a logout to blame: one cut short, or one that
\* ran into a login (cmdLogin, cmdLogout).
THEOREM PointersExplained == Spec => []PointerHasToken
<1>1. IInv => PointerHasToken
  BY DEF IInv, Witnessed
<1> QED
  BY Invariance, <1>1, PTL

\* A login or logout that reports ok, and that no other crossed, did all of its
\* work, whatever earlier ones left half-done (cmdLogin, cmdLogout).
THEOREM OkIsDone == Spec => []DoneMeansDone
<1>1. IInv => DoneMeansDone
  BY DEF IInv, Settled
<1> QED
  BY Invariance, <1>1, PTL
=============================================================================
