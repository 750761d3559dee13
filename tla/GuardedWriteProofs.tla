-------------------------- MODULE GuardedWriteProofs --------------------------
(***************************************************************************)
(* Proofs about GuardedWrite for any number of calls, any fields, values   *)
(* and inputs, and any bounds on the clock and on outside edits.           *)
(***************************************************************************)
EXTENDS GuardedWrite, TLAPS

Sent(s) == pc[s] = "put" \/ outcome[s] \in {"written", "failed"}

Checked(s) == Sent(s) \/ outcome[s] \in {"noop", "refused", "rehearsed"}

\* The write may still take effect on a record that was read.
Exposed(s) == effect[s] = "open" /\ (pc[s] \in {"guard", "put"} \/ verdict[s] = "maybe")

(***************************************************************************)
(* Where a call is, what it has been told and what it may have done agree, *)
(* and a call that sent its write had passed every guard.                  *)
(***************************************************************************)
Ctl(s) ==
  /\ pc[s] = "done" <=> outcome[s] # "none"
  /\ verdict[s] = "ok" <=> outcome[s] = "written"
  /\ verdict[s] \in {"no", "maybe"} <=> outcome[s] = "failed"
  /\ effect[s] # "open" => Sent(s)
  /\ verdict[s] = "ok" => effect[s] = "made"
  /\ Sent(s) => ~dry[s]
  /\ Sent(s) => Permitted(Table(input[s].req), before[s], Predicted(s),
                          input[s].overwrite, input[s].all)
  /\ (Sent(s) \/ outcome[s] \in {"refused", "rehearsed"}) => Predicted(s) # {}
  /\ Checked(s) => VersionMatches(expect[s], version[s])
  /\ (floor /\ pc[s] # "idle") => dry[s]

(***************************************************************************)
(* The update_time never runs back, so what a call missed before its read  *)
(* lies between the version it was given and the one it finds.             *)
(***************************************************************************)
Since(s) ==
  /\ pc[s] = "idle" => since[s] = {}
  /\ (expect[s] # NoVersion /\ pc[s] = "get") =>
       expect[s] <= stamp /\ \A u \in since[s] : expect[s] <= u /\ u <= stamp
  /\ (expect[s] # NoVersion /\ pc[s] \notin {"idle", "get"} /\ outcome[s] # "unread") =>
       \A u \in since[s] : expect[s] <= u /\ u <= version[s]

(***************************************************************************)
(* Outside the fields others changed, the record a write meets is the one  *)
(* its call had read.                                                      *)
(***************************************************************************)
Race(s) ==
  Exposed(s) => \A f \in Fields \ raced[s] : rec[f] = before[s][f]

(***************************************************************************)
(* What a write that took effect left behind.                              *)
(***************************************************************************)
Made(s) ==
  /\ effect[s] # "made" => replaced[s] = {} /\ altered[s] = {}
  /\ effect[s] = "made" =>
       /\ \A f \in DOMAIN input[s].req : echo[s][f] = input[s].req[f]
       /\ \A f \in Fields \ (raced[s] \cup DOMAIN input[s].req \cup Derived) :
            echo[s][f] = before[s][f]
       /\ \A f \in Fields \ raced[s] : f \in altered[s] <=> echo[s][f] # before[s][f]
       /\ \A f \in replaced[s] \ raced[s] :
            /\ f \in DOMAIN input[s].req
            /\ before[s][f] # Blank /\ before[s][f] # input[s].req[f]

(***************************************************************************)
(* What a call reports.                                                    *)
(***************************************************************************)
Reports(s) ==
  /\ outcome[s] = "rehearsed" => changed[s] = Predicted(s)
  /\ outcome[s] = "written" =>
       changed[s] = ChangedNames(Table(input[s].req), before[s], echo[s])

(***************************************************************************)
(* The record names its maker, and so does what a call read of it.         *)
(***************************************************************************)
MadeAs(s, r) ==
  effect[s] = "made" /\ \A f \in DOMAIN input[s].req : r[f] = input[s].req[f]

Makers ==
  /\ \A s \in Sessions : maker = {s} => MadeAs(s, rec)
  /\ \A s, t \in Sessions : found[t] = {s} => MadeAs(s, before[t])
  /\ \A t \in Sessions : (pc[t] \in {"idle", "get"} \/ outcome[t] = "unread") => found[t] = {}

IInv ==
  /\ TypeOK
  /\ \A s \in Sessions : Ctl(s) /\ Since(s) /\ Race(s) /\ Made(s) /\ Reports(s)
  /\ Makers

USE BlankAssumption, NameOfAssumption, InputsAssumption, StartsAssumption,
    DerivedAssumption, NoVersionAssumption, BoundsAssumption

-----------------------------------------------------------------------------
(***************************************************************************)
(* The operators.                                                          *)
(***************************************************************************)
LEMMA InputTyped ==
  ASSUME NEW i \in Inputs \cup {NoInput}
  PROVE  /\ DOMAIN i.req \subseteq Fields
         /\ \A f \in DOMAIN i.req : i.req[f] \in Values
         /\ Table(i.req) \subseteq Fields
BY DEF NoInput, Table, Fields

\* A report names fields by the names a caller sees (changedFields).
LEMMA ChangedNamesTyped ==
  ASSUME NEW i \in Inputs \cup {NoInput}, NEW x, NEW y
  PROVE  ChangedNames(Table(i.req), x, y) \in SUBSET Names
BY InputTyped DEF ChangedNames

LEMMA InitTypeOK == Init => TypeOK
BY DEF Init, TypeOK, NoInput, Write!Init

LEMMA NextTypeOK == TypeOK /\ [Next]_vars => TypeOK'
<1> SUFFICES ASSUME TypeOK, [Next]_vars PROVE TypeOK'
  OBVIOUS
<1> USE DEF TypeOK, recordVars, callVars, readVars, reportVars, writeVars,
            appliedVars, Goto
<1>1. ASSUME NEW s \in Sessions, NEW i \in Inputs, Call(s, i) PROVE TypeOK'
  BY <1>1 DEF Call, EffectiveDryRun
<1>2. ASSUME NEW s \in Sessions, Get(s) PROVE TypeOK'
  BY <1>2 DEF Get
<1>3. ASSUME NEW s \in Sessions, GetFails(s) PROVE TypeOK'
  BY <1>3 DEF GetFails, Finish
<1>4. ASSUME NEW s \in Sessions, Guard(s) PROVE TypeOK'
  <2>1. Predicted(s) \in SUBSET Names
    BY ChangedNamesTyped DEF Predicted
  <2> QED
    BY <1>4, <2>1 DEF Guard, Finish
<1>5. ASSUME NEW s \in Sessions, Written(s) PROVE TypeOK'
  BY <1>5, ChangedNamesTyped DEF Written, Finish, Write!TellOk
<1>6. ASSUME NEW s \in Sessions, NotWritten(s) PROVE TypeOK'
  BY <1>6, SMTT(30) DEF NotWritten, Finish, Write!TellNo, Write!TellMaybe
<1>7. ASSUME NEW s \in Sessions, Apply(s) PROVE TypeOK'
  BY <1>7, InputTyped DEF Apply, Stored, BecomeBy, Moved, Write!Make
<1>8. ASSUME NEW s \in Sessions, Lapse(s) PROVE TypeOK'
  BY <1>8 DEF Lapse, Write!Expire
<1>9. CASE Edit
  <2>1. PICK r \in Records : BecomeBy(r, {})
    BY <1>9 DEF Edit, Records
  <2>2. edits' \in 0 .. MaxEdits
    BY <1>9 DEF Edit
  <2> QED
    BY <2>1, <2>2, <1>9 DEF Edit, BecomeBy, Moved
<1>10. CASE Tick
  BY <1>10 DEF Tick
<1>11. CASE UNCHANGED vars
  BY <1>11 DEF vars
<1> QED
  BY <1>1, <1>2, <1>3, <1>4, <1>5, <1>6, <1>7, <1>8, <1>9, <1>10, <1>11
  DEF Next, Step

\* Every call ends in one of the ways run has of ending (guard.go, run).
THEOREM Typing == Spec => []TypeOK
BY InitTypeOK, NextTypeOK, PTL DEF Spec

-----------------------------------------------------------------------------
(***************************************************************************)
(* The parts of the invariant.                                             *)
(***************************************************************************)
LEMMA CtlStep == IInv /\ [Next]_vars => (\A t \in Sessions : Ctl(t))'
<1> SUFFICES ASSUME IInv, [Next]_vars PROVE (\A t \in Sessions : Ctl(t))'
  OBVIOUS
<1> USE DEF IInv, TypeOK, recordVars, callVars, readVars, reportVars,
            writeVars, appliedVars, Goto, Ctl, Sent, Checked, Predicted
<1>1. ASSUME NEW s \in Sessions, NEW i \in Inputs, Call(s, i)
      PROVE (\A t \in Sessions : Ctl(t))'
  BY <1>1 DEF Call, EffectiveDryRun
<1>2. ASSUME NEW s \in Sessions, Get(s) PROVE (\A t \in Sessions : Ctl(t))'
  <2> SUFFICES ASSUME NEW t \in Sessions PROVE Ctl(t)'
    OBVIOUS
  <2>1. CASE t = s
    BY <1>2, <2>1 DEF Get
  <2>2. CASE t # s
    BY <1>2, <2>2 DEF Get
  <2> QED
    BY <2>1, <2>2
<1>3. ASSUME NEW s \in Sessions, GetFails(s) PROVE (\A t \in Sessions : Ctl(t))'
  BY <1>3 DEF GetFails, Finish
<1>4. ASSUME NEW s \in Sessions, Guard(s) PROVE (\A t \in Sessions : Ctl(t))'
  <2> SUFFICES ASSUME NEW t \in Sessions PROVE Ctl(t)'
    OBVIOUS
  <2>1. CASE t = s
    BY <1>4, <2>1 DEF Guard, Finish, Predicted
  <2>2. CASE t # s
    BY <1>4, <2>2 DEF Guard, Finish, Predicted
  <2> QED
    BY <2>1, <2>2
<1>5. ASSUME NEW s \in Sessions, Written(s) PROVE (\A t \in Sessions : Ctl(t))'
  BY <1>5 DEF Written, Finish, Write!TellOk
<1>6. ASSUME NEW s \in Sessions, NotWritten(s)
      PROVE (\A t \in Sessions : Ctl(t))'
  BY <1>6 DEF NotWritten, Finish, Write!TellNo, Write!TellMaybe
<1>7. ASSUME NEW s \in Sessions, Apply(s) PROVE (\A t \in Sessions : Ctl(t))'
  BY <1>7 DEF Apply, Stored, BecomeBy, Moved, Write!Make
<1>8. ASSUME NEW s \in Sessions, Lapse(s) PROVE (\A t \in Sessions : Ctl(t))'
  BY <1>8 DEF Lapse, Write!Expire
<1>9. CASE Edit
  BY <1>9 DEF Edit, BecomeBy, Moved
<1>10. CASE Tick
  BY <1>10 DEF Tick
<1>11. CASE UNCHANGED vars
  BY <1>11 DEF vars
<1> QED
  BY <1>1, <1>2, <1>3, <1>4, <1>5, <1>6, <1>7, <1>8, <1>9, <1>10, <1>11
  DEF Next, Step

\* What Guard does to where calls are: it ends its own or lets it write.
LEMMA GuardMoves ==
  ASSUME IInv, NEW s \in Sessions, Guard(s)
  PROVE  /\ pc[s] = "guard" /\ pc'[s] \in {"put", "done"} /\ outcome'[s] # "unread"
         /\ \A t \in Sessions \ {s} : pc'[t] = pc[t] /\ outcome'[t] = outcome[t]
         /\ UNCHANGED <<floor, recordVars, callVars, readVars, writeVars,
                        appliedVars, since, raced>>
<1>1. pc \in [Sessions -> {"idle", "get", "guard", "put", "done"}] /\ DOMAIN outcome = Sessions
  BY DEF IInv, TypeOK
<1>2. pc[s] = "guard" /\ outcome[s] # "unread"
  BY DEF Guard, IInv, Ctl
<1>3. CASE Goto(s, "put") /\ UNCHANGED reportVars
  BY <1>1, <1>2, <1>3 DEF Goto, reportVars, Guard
<1>4. ASSUME NEW how \in {"stale", "noop", "refused", "rehearsed"}, NEW names,
             Finish(s, how, names)
      PROVE  /\ pc'[s] = "done" /\ outcome'[s] # "unread"
             /\ \A t \in Sessions \ {s} : pc'[t] = pc[t] /\ outcome'[t] = outcome[t]
  BY <1>1, <1>4 DEF Finish, Goto
<1>5. \/ Goto(s, "put") /\ UNCHANGED reportVars
      \/ Finish(s, "stale", {}) \/ Finish(s, "noop", {}) \/ Finish(s, "refused", {})
      \/ Finish(s, "rehearsed", Predicted(s))
  BY DEF Guard
<1>6. UNCHANGED <<floor, recordVars, callVars, readVars, writeVars, appliedVars, since, raced>>
  BY DEF Guard
<1> QED
  BY <1>2, <1>3, <1>4, <1>5, <1>6

LEMMA SinceStep == IInv /\ [Next]_vars => (\A t \in Sessions : Since(t))'
<1> SUFFICES ASSUME IInv, [Next]_vars PROVE (\A t \in Sessions : Since(t))'
  OBVIOUS
<1> USE DEF IInv, TypeOK, recordVars, callVars, readVars, reportVars,
            writeVars, appliedVars, Goto, Since, Ctl
<1>1. ASSUME NEW s \in Sessions, NEW i \in Inputs, Call(s, i)
      PROVE (\A t \in Sessions : Since(t))'
  BY <1>1 DEF Call
<1>2. ASSUME NEW s \in Sessions, Get(s) PROVE (\A t \in Sessions : Since(t))'
  BY <1>2 DEF Get
<1>3. ASSUME NEW s \in Sessions, GetFails(s)
      PROVE (\A t \in Sessions : Since(t))'
  BY <1>3 DEF GetFails, Finish
<1>4. ASSUME NEW s \in Sessions, Guard(s) PROVE (\A t \in Sessions : Since(t))'
  <2> SUFFICES ASSUME NEW t \in Sessions PROVE Since(t)'
    OBVIOUS
  <2> QED
    BY <1>4, GuardMoves
<1>5. ASSUME NEW s \in Sessions, Written(s)
      PROVE (\A t \in Sessions : Since(t))'
  <2> SUFFICES ASSUME NEW t \in Sessions PROVE Since(t)'
    OBVIOUS
  <2>1. CASE t = s
    BY <1>5, <2>1 DEF Written, Finish, Write!TellOk
  <2>2. CASE t # s
    BY <1>5, <2>2 DEF Written, Finish, Write!TellOk
  <2> QED
    BY <2>1, <2>2
<1>6. ASSUME NEW s \in Sessions, NotWritten(s)
      PROVE (\A t \in Sessions : Since(t))'
  <2> SUFFICES ASSUME NEW t \in Sessions PROVE Since(t)'
    OBVIOUS
  <2>1. CASE t = s
    BY <1>6, <2>1 DEF NotWritten, Finish, Write!TellNo, Write!TellMaybe
  <2>2. CASE t # s
    BY <1>6, <2>2 DEF NotWritten, Finish, Write!TellNo, Write!TellMaybe
  <2> QED
    BY <2>1, <2>2
<1>7. ASSUME NEW s \in Sessions, Apply(s) PROVE (\A t \in Sessions : Since(t))'
  BY <1>7 DEF Apply, Stored, BecomeBy, Moved, Write!Make
<1>8. ASSUME NEW s \in Sessions, Lapse(s) PROVE (\A t \in Sessions : Since(t))'
  BY <1>8 DEF Lapse, Write!Expire
<1>9. CASE Edit
  BY <1>9 DEF Edit, BecomeBy, Moved
<1>10. CASE Tick
  BY <1>10 DEF Tick
<1>11. CASE UNCHANGED vars
  BY <1>11 DEF vars
<1> QED
  BY <1>1, <1>2, <1>3, <1>4, <1>5, <1>6, <1>7, <1>8, <1>9, <1>10, <1>11
  DEF Next, Step

LEMMA RaceStep == IInv /\ [Next]_vars => (\A t \in Sessions : Race(t))'
<1> SUFFICES ASSUME IInv, [Next]_vars PROVE (\A t \in Sessions : Race(t))'
  OBVIOUS
<1> USE DEF IInv, TypeOK, recordVars, callVars, readVars, reportVars,
            writeVars, appliedVars, Goto, Race, Exposed, Ctl, Sent
<1>1. ASSUME NEW s \in Sessions, NEW i \in Inputs, Call(s, i)
      PROVE (\A t \in Sessions : Race(t))'
  BY <1>1 DEF Call
<1>2. ASSUME NEW s \in Sessions, Get(s) PROVE (\A t \in Sessions : Race(t))'
  BY <1>2 DEF Get
<1>3. ASSUME NEW s \in Sessions, GetFails(s)
      PROVE (\A t \in Sessions : Race(t))'
  BY <1>3 DEF GetFails, Finish
<1>4. ASSUME NEW s \in Sessions, Guard(s) PROVE (\A t \in Sessions : Race(t))'
  BY <1>4 DEF Guard, Finish
<1>5. ASSUME NEW s \in Sessions, Written(s) PROVE (\A t \in Sessions : Race(t))'
  BY <1>5 DEF Written, Finish, Write!TellOk
<1>6. ASSUME NEW s \in Sessions, NotWritten(s)
      PROVE (\A t \in Sessions : Race(t))'
  BY <1>6 DEF NotWritten, Finish, Write!TellNo, Write!TellMaybe
<1>7. ASSUME NEW s \in Sessions, Apply(s) PROVE (\A t \in Sessions : Race(t))'
  BY <1>7 DEF Apply, Stored, BecomeBy, Moved, Write!Make
<1>8. ASSUME NEW s \in Sessions, Lapse(s) PROVE (\A t \in Sessions : Race(t))'
  BY <1>8 DEF Lapse, Write!Expire
<1>9. CASE Edit
  BY <1>9 DEF Edit, BecomeBy, Moved
<1>10. CASE Tick
  BY <1>10 DEF Tick
<1>11. CASE UNCHANGED vars
  BY <1>11 DEF vars
<1> QED
  BY <1>1, <1>2, <1>3, <1>4, <1>5, <1>6, <1>7, <1>8, <1>9, <1>10, <1>11
  DEF Next, Step

LEMMA MadeStep == IInv /\ [Next]_vars => (\A t \in Sessions : Made(t))'
<1> SUFFICES ASSUME IInv, [Next]_vars PROVE (\A t \in Sessions : Made(t))'
  OBVIOUS
<1> USE DEF IInv, TypeOK, recordVars, callVars, readVars, reportVars,
            writeVars, appliedVars, Goto, Made, Race, Exposed, Ctl, Sent
<1>1. ASSUME NEW s \in Sessions, NEW i \in Inputs, Call(s, i)
      PROVE (\A t \in Sessions : Made(t))'
  BY <1>1 DEF Call
<1>2. ASSUME NEW s \in Sessions, Get(s) PROVE (\A t \in Sessions : Made(t))'
  BY <1>2 DEF Get
<1>3. ASSUME NEW s \in Sessions, GetFails(s)
      PROVE (\A t \in Sessions : Made(t))'
  BY <1>3 DEF GetFails, Finish
<1>4. ASSUME NEW s \in Sessions, Guard(s) PROVE (\A t \in Sessions : Made(t))'
  BY <1>4 DEF Guard, Finish
<1>5. ASSUME NEW s \in Sessions, Written(s) PROVE (\A t \in Sessions : Made(t))'
  BY <1>5 DEF Written, Finish, Write!TellOk
<1>6. ASSUME NEW s \in Sessions, NotWritten(s)
      PROVE (\A t \in Sessions : Made(t))'
  BY <1>6 DEF NotWritten, Finish, Write!TellNo, Write!TellMaybe
<1>7. ASSUME NEW s \in Sessions, Apply(s) PROVE (\A t \in Sessions : Made(t))'
  <2> SUFFICES ASSUME NEW t \in Sessions PROVE Made(t)'
    OBVIOUS
  <2>1. CASE t = s
    <3>1. PICK r \in Stored(input[s].req) :
            /\ BecomeBy(r, {s}) /\ echo' = [echo EXCEPT ![s] = r]
            /\ replaced' = [replaced EXCEPT ![s] =
                 {f \in DOMAIN input[s].req : rec[f] # Blank /\ r[f] # rec[f]}]
            /\ altered' = [altered EXCEPT ![s] = Moved(r)]
      BY <1>7 DEF Apply
    <3>2. effect' = [effect EXCEPT ![s] = "made"] /\ UNCHANGED <<input, before>>
          /\ raced'[s] = raced[s]
      BY <1>7, <3>1 DEF Apply, BecomeBy, Write!Make
    <3>3. \A f \in Fields \ raced[s] : rec[f] = before[s][f]
      BY <1>7 DEF Apply, Write!Make
    <3>4. DOMAIN input[s].req \subseteq Fields
      BY InputTyped
    <3>5. /\ \A f \in DOMAIN input[s].req : r[f] = input[s].req[f]
          /\ \A f \in Fields \ (DOMAIN input[s].req \cup Derived) : r[f] = rec[f]
      BY DEF Stored
    <3>6. /\ effect'[s] = "made" /\ echo'[s] = r /\ input'[s] = input[s]
          /\ before'[s] = before[s] /\ raced'[s] = raced[s]
          /\ replaced'[s] = {f \in DOMAIN input[s].req : rec[f] # Blank /\ r[f] # rec[f]}
          /\ altered'[s] = {f \in Fields : r[f] # rec[f]}
      BY <3>1, <3>2 DEF Moved
    <3> QED
      BY <2>1, <3>3, <3>4, <3>5, <3>6
  <2>2. CASE t # s
    BY <1>7, <2>2 DEF Apply, Stored, BecomeBy, Moved, Write!Make
  <2> QED
    BY <2>1, <2>2
<1>8. ASSUME NEW s \in Sessions, Lapse(s) PROVE (\A t \in Sessions : Made(t))'
  BY <1>8 DEF Lapse, Write!Expire
<1>9. CASE Edit
  BY <1>9 DEF Edit, BecomeBy, Moved
<1>10. CASE Tick
  BY <1>10 DEF Tick
<1>11. CASE UNCHANGED vars
  BY <1>11 DEF vars
<1> QED
  BY <1>1, <1>2, <1>3, <1>4, <1>5, <1>6, <1>7, <1>8, <1>9, <1>10, <1>11
  DEF Next, Step

LEMMA ReportsStep == IInv /\ [Next]_vars => (\A t \in Sessions : Reports(t))'
<1> SUFFICES ASSUME IInv, [Next]_vars PROVE (\A t \in Sessions : Reports(t))'
  OBVIOUS
<1> USE DEF IInv, TypeOK, recordVars, callVars, readVars, reportVars,
            writeVars, appliedVars, Goto, Reports, Ctl, Sent, Predicted
<1>1. ASSUME NEW s \in Sessions, NEW i \in Inputs, Call(s, i)
      PROVE (\A t \in Sessions : Reports(t))'
  BY <1>1 DEF Call
<1>2. ASSUME NEW s \in Sessions, Get(s) PROVE (\A t \in Sessions : Reports(t))'
  BY <1>2 DEF Get
<1>3. ASSUME NEW s \in Sessions, GetFails(s)
      PROVE (\A t \in Sessions : Reports(t))'
  BY <1>3 DEF GetFails, Finish
<1>4. ASSUME NEW s \in Sessions, Guard(s)
      PROVE (\A t \in Sessions : Reports(t))'
  BY <1>4 DEF Guard, Finish
<1>5. ASSUME NEW s \in Sessions, Written(s)
      PROVE (\A t \in Sessions : Reports(t))'
  BY <1>5 DEF Written, Finish, Write!TellOk
<1>6. ASSUME NEW s \in Sessions, NotWritten(s)
      PROVE (\A t \in Sessions : Reports(t))'
  BY <1>6 DEF NotWritten, Finish, Write!TellNo, Write!TellMaybe
<1>7. ASSUME NEW s \in Sessions, Apply(s)
      PROVE (\A t \in Sessions : Reports(t))'
  BY <1>7 DEF Apply, Stored, BecomeBy, Moved, Write!Make
<1>8. ASSUME NEW s \in Sessions, Lapse(s)
      PROVE (\A t \in Sessions : Reports(t))'
  BY <1>8 DEF Lapse, Write!Expire
<1>9. CASE Edit
  BY <1>9 DEF Edit, BecomeBy, Moved
<1>10. CASE Tick
  BY <1>10 DEF Tick
<1>11. CASE UNCHANGED vars
  BY <1>11 DEF vars
<1> QED
  BY <1>1, <1>2, <1>3, <1>4, <1>5, <1>6, <1>7, <1>8, <1>9, <1>10, <1>11
  DEF Next, Step

LEMMA MakersStep == IInv /\ [Next]_vars => Makers'
<1> SUFFICES ASSUME IInv, [Next]_vars PROVE Makers'
  OBVIOUS
<1> USE DEF IInv, Makers, MadeAs, Ctl, Sent, TypeOK, recordVars, callVars,
            readVars, reportVars, writeVars, appliedVars, Goto
<1>1. ASSUME NEW s \in Sessions, NEW i \in Inputs, Call(s, i) PROVE Makers'
  <2>1. ASSUME NEW u \in Sessions, maker' = {u} PROVE MadeAs(u, rec)'
    BY <1>1, <2>1, SMTT(30) DEF Call
  <2>2. ASSUME NEW u \in Sessions, NEW t \in Sessions, found'[t] = {u}
        PROVE  MadeAs(u, before[t])'
    <3>1. MadeAs(u, before[t])
      BY <1>1, <2>2 DEF Call
    <3>2. u # s
      BY <1>1, <3>1 DEF Call
    <3> QED
      BY <1>1, <3>1, <3>2 DEF Call
  <2>3. ASSUME NEW t \in Sessions, pc'[t] \in {"idle", "get"} \/ outcome'[t] = "unread"
        PROVE  found'[t] = {}
    BY <1>1, <2>3 DEF Call
  <2> QED
    BY <2>1, <2>2, <2>3
<1>2. ASSUME NEW s \in Sessions, Get(s) PROVE Makers'
  <2>1. ASSUME NEW u \in Sessions, maker' = {u} PROVE MadeAs(u, rec)'
    BY <1>2, <2>1 DEF Get
  <2>2. ASSUME NEW u \in Sessions, NEW t \in Sessions, found'[t] = {u}
        PROVE  MadeAs(u, before[t])'
    BY <1>2, <2>2, SMTT(30) DEF Get
  <2>3. ASSUME NEW t \in Sessions, pc'[t] \in {"idle", "get"} \/ outcome'[t] = "unread"
        PROVE  found'[t] = {}
    BY <1>2, <2>3 DEF Get
  <2> QED
    BY <2>1, <2>2, <2>3
<1>3. ASSUME NEW s \in Sessions, GetFails(s) PROVE Makers'
  BY <1>3 DEF GetFails, Finish
<1>4. ASSUME NEW s \in Sessions, Guard(s) PROVE Makers'
  <2>1. ASSUME NEW u \in Sessions, maker' = {u} PROVE MadeAs(u, rec)'
    BY <1>4, <2>1 DEF Guard, Finish
  <2>2. ASSUME NEW u \in Sessions, NEW t \in Sessions, found'[t] = {u}
        PROVE  MadeAs(u, before[t])'
    BY <1>4, <2>2 DEF Guard, Finish
  <2>3. ASSUME NEW t \in Sessions, pc'[t] \in {"idle", "get"} \/ outcome'[t] = "unread"
        PROVE  found'[t] = {}
    BY <1>4, <2>3, SMTT(30) DEF Guard, Finish
  <2> QED
    BY <2>1, <2>2, <2>3
<1>5. ASSUME NEW s \in Sessions, Written(s) PROVE Makers'
  BY <1>5 DEF Written, Finish, Write!TellOk
<1>6. ASSUME NEW s \in Sessions, NotWritten(s) PROVE Makers'
  <2>1. ASSUME NEW u \in Sessions, maker' = {u} PROVE MadeAs(u, rec)'
    BY <1>6, <2>1 DEF NotWritten, Finish, Write!TellNo, Write!TellMaybe
  <2>2. ASSUME NEW u \in Sessions, NEW t \in Sessions, found'[t] = {u}
        PROVE  MadeAs(u, before[t])'
    BY <1>6, <2>2 DEF NotWritten, Finish, Write!TellNo, Write!TellMaybe
  <2>3. ASSUME NEW t \in Sessions, pc'[t] \in {"idle", "get"} \/ outcome'[t] = "unread"
        PROVE  found'[t] = {}
    BY <1>6, <2>3 DEF NotWritten, Finish, Write!TellNo, Write!TellMaybe
  <2> QED
    BY <2>1, <2>2, <2>3
<1>7. ASSUME NEW s \in Sessions, Apply(s) PROVE Makers'
  <2>1. ASSUME NEW u \in Sessions, maker' = {u} PROVE MadeAs(u, rec)'
    <3>1. PICK r \in Stored(input[s].req) : BecomeBy(r, {s})
      BY <1>7 DEF Apply
    <3>2. u = s /\ rec' = r
      <4>1. maker' = {s} /\ rec' = r
        BY <3>1, Zenon DEF BecomeBy
      <4> QED
        BY <2>1, <4>1, Zenon
    <3>3. \A f \in DOMAIN input[s].req : r[f] = input[s].req[f]
      BY DEF Stored
    <3>4. effect'[s] = "made" /\ input' = input
      BY <1>7, <3>1 DEF Apply, BecomeBy, Write!Make
    <3> QED
      BY <3>2, <3>3, <3>4
  <2>2. ASSUME NEW u \in Sessions, NEW t \in Sessions, found'[t] = {u}
        PROVE  MadeAs(u, before[t])'
    BY <1>7, <2>2 DEF Apply, Stored, BecomeBy, Moved, Write!Make
  <2>3. ASSUME NEW t \in Sessions, pc'[t] \in {"idle", "get"} \/ outcome'[t] = "unread"
        PROVE  found'[t] = {}
    BY <1>7, <2>3 DEF Apply, Stored, BecomeBy, Moved, Write!Make
  <2> QED
    BY <2>1, <2>2, <2>3
<1>8. ASSUME NEW s \in Sessions, Lapse(s) PROVE Makers'
  BY <1>8 DEF Lapse, Write!Expire
<1>9. CASE Edit
  BY <1>9 DEF Edit, BecomeBy, Moved
<1>10. CASE Tick
  BY <1>10 DEF Tick
<1>11. CASE UNCHANGED vars
  BY <1>11 DEF vars
<1> QED
  BY <1>1, <1>2, <1>3, <1>4, <1>5, <1>6, <1>7, <1>8, <1>9, <1>10, <1>11
  DEF Next, Step

LEMMA InitIInv == Init => IInv
<1>1. Init => \A s \in Sessions : Ctl(s) /\ Since(s) /\ Race(s) /\ Made(s) /\ Reports(s)
  BY DEF Init, Ctl, Since, Race, Made, Reports, Sent, Checked, Exposed,
     Write!Init
<1>2. Init => Makers
  BY DEF Init, Makers, MadeAs
<1> QED
  BY <1>1, <1>2, InitTypeOK DEF IInv

LEMMA Invariance == Spec => []IInv
<1>1. IInv /\ [Next]_vars => IInv'
  <2> SUFFICES ASSUME IInv, [Next]_vars PROVE IInv'
    OBVIOUS
  <2>1. TypeOK'
    BY NextTypeOK DEF IInv
  <2>2. (\A s \in Sessions : Ctl(s) /\ Since(s) /\ Race(s) /\ Made(s) /\ Reports(s))'
    BY CtlStep, SinceStep, RaceStep, MadeStep, ReportsStep
  <2> QED
    BY <2>1, <2>2, MakersStep DEF IInv
<1> QED
  BY <1>1, InitIInv, PTL DEF Spec

-----------------------------------------------------------------------------
(***************************************************************************)
(* The properties.                                                         *)
(***************************************************************************)
\* Under the operator's flag or its own dry_run, or refused, no call changes
\* the record, not even late (D-33).
THEOREM OnlyWrites == Spec => []OnlyWritesWrite
<1>1. IInv => OnlyWritesWrite
  BY DEF IInv, TypeOK, Ctl, Sent, OnlyWritesWrite
<1> QED
  BY <1>1, Invariance, PTL

\* No value is replaced that the caller did not name, unless the field moved
\* between the read and the write (requireOverwrite, D-30).
THEOREM NamedOverwrites == Spec => []NoUnnamedOverwrite
<1>1. IInv => NoUnnamedOverwrite
  <2> SUFFICES ASSUME IInv, NEW s \in Sessions, ~input[s].all,
                      NEW f \in replaced[s] \ raced[s]
               PROVE  NameOf[f] \in input[s].overwrite
    BY DEF NoUnnamedOverwrite
  <2> DEFINE req == input[s].req
  <2>1. f \in DOMAIN req /\ before[s][f] # Blank /\ before[s][f] # req[f]
    BY DEF IInv, Made
  <2>2. f \in Fields /\ f \in Table(req)
    BY <2>1, InputTyped DEF IInv, TypeOK, Table
  <2>3. NameOf[f] \in Predicted(s)
    BY <2>1, <2>2 DEF Predicted, ChangedNames, Predict
  <2>4. NameOf[f] \in PopulatedNames(Table(req), before[s], Predicted(s))
    BY <2>1, <2>2, <2>3 DEF PopulatedNames
  <2>5. effect[s] # "open"
    BY DEF IInv, Made
  <2>6. Permitted(Table(req), before[s], Predicted(s), input[s].overwrite, input[s].all)
    BY <2>5 DEF IInv, Ctl
  <2> QED
    BY <2>4, <2>6 DEF Permitted
<1> QED
  BY <1>1, Invariance, PTL

\* expect_version lets no edit pass but one in the second of the caller's own
\* read (checkExpectVersion).
THEOREM VersionChecked == Spec => []VersionCatchesEdits
<1>1. IInv => VersionCatchesEdits
  <2> SUFFICES ASSUME IInv, NEW s \in Sessions, expect[s] # NoVersion, Checked(s),
                      NEW u \in since[s]
               PROVE  u = expect[s]
    BY DEF VersionCatchesEdits, Checked, Sent
  <2>1. expect[s] = version[s]
    BY DEF IInv, Ctl, VersionMatches
  <2>2. pc[s] \notin {"idle", "get"} /\ outcome[s] # "unread"
    BY DEF IInv, Ctl, Checked, Sent
  <2>3. expect[s] <= u /\ u <= version[s]
    BY <2>2 DEF IInv, Since
  <2>4. u \in Nat /\ version[s] \in Nat
    BY DEF IInv, TypeOK
  <2> QED
    BY <2>1, <2>3, <2>4
<1> QED
  BY <1>1, Invariance, PTL

\* Nobody interfering, the report is what the write altered, Pipedrive's own
\* fields included (run).
THEOREM ExactReport == Spec => []ReportIsExact
<1>1. IInv => ReportIsExact
  <2> SUFFICES ASSUME IInv, NEW s \in Sessions, outcome[s] = "written",
                      raced[s] \cap Table(input[s].req) = {}
               PROVE  changed[s] = NamesOf(altered[s] \cap Table(input[s].req))
    BY DEF ReportIsExact
  <2>1. changed[s] = ChangedNames(Table(input[s].req), before[s], echo[s])
    BY DEF IInv, Reports
  <2>2. effect[s] = "made"
    BY DEF IInv, Ctl
  <2>3. Table(input[s].req) \subseteq Fields
    BY InputTyped DEF IInv, TypeOK
  <2>4. \A f \in Table(input[s].req) : f \in altered[s] <=> before[s][f] # echo[s][f]
    BY <2>2, <2>3 DEF IInv, Made
  <2> QED
    BY <2>1, <2>4 DEF ChangedNames, NamesOf
<1> QED
  BY <1>1, Invariance, PTL

\* A call repeated after a lost answer finds its own write and sends nothing
\* (D-54).
THEOREM RetryIsNoop == Spec => []RetryFindsItDone
<1>1. IInv => RetryFindsItDone
  <2> SUFFICES ASSUME IInv, NEW s \in Sessions, NEW t \in Sessions,
                      found[t] = {s}, input[t].req = input[s].req
               PROVE  outcome[t] \in {"none", "stale", "noop"} /\ pc[t] # "put"
    BY DEF RetryFindsItDone
  <2>1. \A f \in DOMAIN input[t].req : before[t][f] = input[t].req[f]
    BY DEF IInv, Makers, MadeAs
  <2>2. Table(input[t].req) \subseteq Fields
    BY InputTyped DEF IInv, TypeOK
  <2>3. Predicted(t) = {}
    BY <2>1, <2>2 DEF Predicted, ChangedNames, Predict
  <2>4. outcome[t] # "unread"
    BY DEF IInv, Makers
  <2> QED
    BY <2>3, <2>4 DEF IInv, TypeOK, Ctl, Sent
<1> QED
  BY <1>1, Invariance, PTL

\* A rehearsal foretells the write that reads the same record, but for what
\* Pipedrive derives (guardedWrite.run, predict).
THEOREM FaithfulRehearsal == Spec => []RehearsalForetells
<1>1. IInv => RehearsalForetells
  <2> SUFFICES ASSUME IInv, NEW s \in Sessions, NEW t \in Sessions,
                      outcome[s] = "rehearsed", outcome[t] = "written",
                      input[s].req = input[t].req, before[s] = before[t], raced[t] = {}
               PROVE  /\ changed[s] \subseteq changed[t]
                      /\ changed[t] \subseteq changed[s] \cup NamesOf(Derived)
    BY DEF RehearsalForetells
  <2> DEFINE req == input[t].req
  <2>1. /\ changed[t] = ChangedNames(Table(req), before[t], echo[t])
        /\ changed[s] = Predicted(s)
    BY DEF IInv, Reports
  <2>2. changed[s] = ChangedNames(Table(req), before[t], Predict(before[t], req))
    BY <2>1 DEF Predicted
  <2>3. effect[t] = "made" /\ Table(req) \subseteq Fields
    BY InputTyped DEF IInv, Ctl, TypeOK
  <2>4. \A f \in Table(req) : Predict(before[t], req)[f] # before[t][f] => echo[t][f] # before[t][f]
    BY <2>3 DEF IInv, Made, Predict
  <2>5. \A f \in Table(req) \ Derived :
          echo[t][f] # before[t][f] => Predict(before[t], req)[f] # before[t][f]
    BY <2>3 DEF IInv, Made, Predict
  <2> QED
    BY <2>1, <2>2, <2>4, <2>5 DEF ChangedNames, NamesOf
<1> QED
  BY <1>1, Invariance, PTL
=============================================================================
