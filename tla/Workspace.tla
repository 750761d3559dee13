------------------------------ MODULE Workspace ------------------------------
(***************************************************************************)
(* Which workspace the program works on and with what token: login and     *)
(* logout (cmd/pipedrive-mcp), which change the OS keyring and the pointer *)
(* file one after the other, and the start of a server or of status, which *)
(* read the two one after the other (internal/app, credentials,            *)
(* userconfig).                                                            *)
(*                                                                         *)
(* Every command is a process with its own environment.  The keyring may   *)
(* be out of reach, the file may fail to load or to be written, and a      *)
(* process may be killed between any two steps.                            *)
(***************************************************************************)

CONSTANTS
  Processes,
  Domains,
  Tokens,
  Accepted,  \* the <<domain, token>> pairs Pipedrive accepts
  None,      \* no domain, no token
  Garbled,   \* a pointer file that does not load
  Orders     \* the commands given, see OrdersAssumption

\* domain is what the flag, the environment or login's prompt says, token
\* what login is typed or the environment holds, None for neither.
ASSUME OrdersAssumption == \A o \in Orders :
  /\ o.cmd \in {"login", "logout", "serve"}
  /\ o.domain \in Domains \cup {None} /\ o.token \in Tokens \cup {None}
  /\ o.cmd = "login" => o.domain \in Domains /\ o.token \in Tokens
ASSUME AcceptedAssumption == Accepted \subseteq Domains \X Tokens
ASSUME NoneAssumption == None \notin Domains \cup Tokens
ASSUME GarbledAssumption == Garbled \notin Domains \cup {None}

VARIABLES
  keyring,  \* keyring[d]: the token stored for d
  pointer,  \* default_domain in the pointer file
  pc,       \* pc[p]: the step the process is at; "done", "up" and "dead" are ends
  order,    \* order[p]: the command it was given
  target,   \* target[p]: the domain it settled on
  token,    \* token[p]: the token it has in hand
  exit,     \* exit[p]: "none", "ok", "error" or "warned": the keyring is
            \* done and the file is not, which a warning says unless it is for
            \* want of a directory to look in
  \* history, for the properties
  alone,    \* alone[p]: no other login or logout was under way since p began
  took,     \* took[p]: p deleted the key of its domain
  crossed   \* crossed[p]: and a login of that domain had stored one, and not ended

storeVars == <<keyring, pointer>>
procVars == <<order, target, token>>
pastVars == <<alone, took, crossed>>
vars == <<storeVars, pc, procVars, exit, pastVars>>

NoOrder == [cmd |-> "serve", domain |-> None, token |-> None]

Init ==
  /\ keyring \in [Domains -> Tokens \cup {None}]
  /\ \A d \in Domains : keyring[d] # None => <<d, keyring[d]>> \in Accepted
  /\ pointer \in {None, Garbled} \cup {d \in Domains : keyring[d] # None}
  /\ pc = [p \in Processes |-> "idle"]
  /\ order = [p \in Processes |-> NoOrder]
  /\ target = [p \in Processes |-> None]
  /\ token = [p \in Processes |-> None]
  /\ exit = [p \in Processes |-> "none"]
  /\ alone = [p \in Processes |-> FALSE]
  /\ took = [p \in Processes |-> FALSE]
  /\ crossed = [p \in Processes |-> FALSE]

Goto(p, label) == pc' = [pc EXCEPT ![p] = label] /\ UNCHANGED exit

Exit(p, code) ==
  /\ pc' = [pc EXCEPT ![p] = "done"]
  /\ exit' = [exit EXCEPT ![p] = code]

Login(p) == order[p].cmd = "login"
Logout(p) == order[p].cmd = "logout"
Active(p) == pc[p] \notin {"idle", "done", "up", "dead"}

-----------------------------------------------------------------------------
Start(p, o) ==
  /\ pc[p] = "idle"
  /\ order' = [order EXCEPT ![p] = o]
  /\ IF o.cmd = "login"
     THEN /\ target' = [target EXCEPT ![p] = o.domain]
          /\ token' = [token EXCEPT ![p] = o.token]
          /\ Goto(p, "probe")
     ELSE /\ UNCHANGED <<target, token>>
          /\ Goto(p, "resolve")
  /\ alone' = [q \in Processes |->
       IF q = p
       THEN \A r \in Processes \ {p} : Active(r) => order[r].cmd = "serve"
       ELSE alone[q] /\ o.cmd = "serve"]
  /\ UNCHANGED <<storeVars, took, crossed>>

\* ResolveDomain, for all but login: the flag or the environment, then the
\* pointer file.  config.LoadFor follows for a server and may refuse the rest
\* of the environment.
Resolve(p) ==
  /\ pc[p] = "resolve"
  /\ \/ Exit(p, "error") /\ UNCHANGED target
     \/ \E d \in Domains :
          /\ d = IF order[p].domain # None THEN order[p].domain ELSE pointer
          /\ target' = [target EXCEPT ![p] = d]
          /\ Goto(p, IF Logout(p) THEN "delete" ELSE "token")
  /\ UNCHANGED <<storeVars, order, token, pastVars>>

\* credentials.Resolve: the environment, then the keyring.
GetToken(p) ==
  /\ pc[p] = "token"
  /\ \/ Exit(p, "error") /\ UNCHANGED token
     \/ \E t \in Tokens :
          /\ t = IF order[p].token # None THEN order[p].token ELSE keyring[target[p]]
          /\ token' = [token EXCEPT ![p] = t]
          /\ Goto(p, "probe")
  /\ UNCHANGED <<storeVars, order, target, pastVars>>

\* Slip: login stores what it was typed.
ProbeServersAlone(p) ==
  /\ pc[p] = "probe"
  /\ \/ Exit(p, "error")
     \/ Login(p) /\ Goto(p, "store")
     \/ ~Login(p) /\ Goto(p, "up")
  /\ UNCHANGED <<storeVars, procVars, pastVars>>

\* ProbeAuth, before a server serves and before login writes anything.  A
\* server, and status, may be told to skip it.
Probe(p) ==
  /\ pc[p] = "probe"
  /\ \/ Exit(p, "error")
     \/ /\ <<target[p], token[p]>> \in Accepted
        /\ Goto(p, IF Login(p) THEN "store" ELSE "up")
     \/ ~Login(p) /\ Goto(p, "up")
  /\ UNCHANGED <<storeVars, procVars, pastVars>>

\* credentials.Store.
Store(p) ==
  /\ pc[p] = "store"
  /\ \/ Exit(p, "error") /\ UNCHANGED keyring
     \/ /\ keyring' = [keyring EXCEPT ![target[p]] = token[p]]
        /\ Goto(p, "load")
  /\ UNCHANGED <<pointer, procVars, pastVars>>

\* credentials.Delete, which is content with nothing to delete.
Delete(p) ==
  /\ pc[p] = "delete"
  /\ \/ Exit(p, "error") /\ UNCHANGED <<keyring, took, crossed>>
     \/ /\ keyring' = [keyring EXCEPT ![target[p]] = None]
        /\ took' = [took EXCEPT ![p] = TRUE]
        /\ crossed' = [crossed EXCEPT ![p] = \E q \in Processes :
             Login(q) /\ target[q] = target[p] /\ pc[q] \in {"load", "save"}]
        /\ Goto(p, "load")
  /\ UNCHANGED <<pointer, procVars, alone>>

\* Slip: logout leaves the pointer to the next login.
LoadForLogin(p) ==
  /\ pc[p] = "load"
  /\ \/ Exit(p, "warned")
     \/ pointer # Garbled /\ IF Login(p) THEN Goto(p, "save") ELSE Exit(p, "ok")
  /\ UNCHANGED <<storeVars, procVars, pastVars>>

\* Slip: a pointer once recorded stays.
LoadKeeping(p) ==
  /\ pc[p] = "load"
  /\ \/ Exit(p, "warned")
     \/ /\ pointer # Garbled
        /\ IF (Logout(p) /\ pointer # target[p]) \/ (Login(p) /\ pointer # None)
           THEN Exit(p, "ok") ELSE Goto(p, "save")
  /\ UNCHANGED <<storeVars, procVars, pastVars>>

\* The Load of SetDefaultDomain and of ClearDefaultDomainIfMatches, with the
\* comparison of the latter.  A missing file loads as an empty one.
Load(p) ==
  /\ pc[p] = "load"
  /\ \/ Exit(p, "warned")
     \/ /\ pointer # Garbled
        /\ IF Logout(p) /\ pointer # target[p] THEN Exit(p, "ok") ELSE Goto(p, "save")
  /\ UNCHANGED <<storeVars, procVars, pastVars>>

\* Save: the rename puts the whole file in place, or the old one stays.
Save(p) ==
  /\ pc[p] = "save"
  /\ \/ Exit(p, "warned") /\ UNCHANGED pointer
     \/ /\ Exit(p, "ok")
        /\ pointer' = IF Login(p) THEN target[p] ELSE None
  /\ UNCHANGED <<keyring, procVars, pastVars>>

Die(p) ==
  /\ Active(p)
  /\ Goto(p, "dead")
  /\ UNCHANGED <<storeVars, procVars, pastVars>>

Step(p) ==
  \/ \E o \in Orders : Start(p, o)
  \/ Resolve(p) \/ GetToken(p) \/ Probe(p) \/ Store(p) \/ Delete(p)
  \/ Load(p) \/ Save(p) \/ Die(p)

Next == \E p \in Processes : Step(p)

Spec == Init /\ [][Next]_vars

-----------------------------------------------------------------------------
\* Every variable holds a value of its kind, and the file never names anything
\* but a domain login was given or what it held at first (userconfig.go, Save).
TypeOK ==
  /\ keyring \in [Domains -> Tokens \cup {None}]
  /\ pointer \in Domains \cup {None, Garbled}
  /\ pc \in [Processes -> {"idle", "resolve", "token", "probe", "store", "delete",
                           "load", "save", "done", "up", "dead"}]
  /\ order \in [Processes -> Orders \cup {NoOrder}]
  /\ target \in [Processes -> Domains \cup {None}]
  /\ token \in [Processes -> Tokens \cup {None}]
  /\ exit \in [Processes -> {"none", "ok", "warned", "error"}]
  /\ alone \in [Processes -> BOOLEAN]
  /\ took \in [Processes -> BOOLEAN]
  /\ crossed \in [Processes -> BOOLEAN]

\* The keyring holds no token Pipedrive did not accept for that domain, and no
\* process comes by a token of one workspace for another through it: the token
\* and the domain a server has are one login's, however many commands ran
\* between its two reads (D-63; Runtime's comment in app.go).
TokensFitDomains ==
  /\ \A d \in Domains : keyring[d] # None => <<d, keyring[d]>> \in Accepted
  /\ \A p \in Processes :
       (token[p] # None /\ order[p].cmd = "serve" /\ order[p].token = None)
         => <<target[p], token[p]>> \in Accepted

\* A pointer to a workspace without a token, on which every plain start fails,
\* is left only by a logout of that workspace that was killed, has not ended or
\* warned, or that ran into the middle of a login of the same workspace
\* (cmdLogin's and cmdLogout's order of keyring and file).
PointerHasToken == \A d \in Domains :
  (pointer = d /\ keyring[d] = None) =>
    \E p \in Processes :
      took[p] /\ target[p] = d /\ (exit[p] # "ok" \/ crossed[p])

\* A login that succeeded alone is all a plain start needs, and one that
\* logged out alone leaves no trace of its workspace, also when processes
\* before it were killed half-way (cmdLogin, cmdLogout).
DoneMeansDone == \A p \in Processes :
  (exit[p] = "ok" /\ alone[p]) =>
    /\ Login(p) => keyring[target[p]] = token[p] /\ pointer = target[p]
    /\ Logout(p) => keyring[target[p]] = None /\ pointer # target[p]
=============================================================================
