--------------------------- MODULE ManageDealProofs ---------------------------
(***************************************************************************)
(* Proofs about ManageDeal for any number of calls, any inputs, any values *)
(* of the fields and any number of edits made in Pipedrive.                *)
(***************************************************************************)
EXTENDS ManageDeal, TLAPS

Sent(s) == pc[s] = "send" \/ outcome[s] \in {"written", "failed", "rejected"}

Decided(s) == Sent(s) \/ outcome[s] \in {"noop", "refused", "rehearsed"}

\* The call has read the deal and was not refused over it.
Holds(s) == pc[s] = "decide" \/ Decided(s) \/ outcome[s] = "stale"

(***************************************************************************)
(* Where a call is, what it was told and what it may have done agree, and  *)
(* a call that sent its request had passed every check of its path.        *)
(***************************************************************************)
Ctl(s) ==
  /\ pc[s] = "done" <=> outcome[s] # "none"
  /\ verdict[s] = "ok" <=> outcome[s] = "written"
  /\ verdict[s] \in {"no", "maybe"} <=> outcome[s] \in {"failed", "rejected"}
  /\ effect[s] # "open" => Sent(s)
  /\ Sent(s) => ~dry[s]
  /\ Decided(s) => VersionMatches(s)
  /\ (floor /\ pc[s] # "idle") => dry[s]
  /\ (Holds(s) /\ before[s].is_archived = "true") => ~RefusesArchived(input[s].action)
  /\ (input[s].action = "delete" /\ (Sent(s) \/ outcome[s] = "rehearsed")) =>
       before[s].status # "deleted"

(***************************************************************************)
(* What others did since: nothing before the write of a call not raced, no *)
(* later version between the reads of a call not overtaken, no restoring   *)
(* of what is gone.                                                        *)
(***************************************************************************)
Past(s) ==
  /\ (effect[s] = "open" /\ (pc[s] \in {"decide", "send"} \/ verdict[s] = "maybe")
      /\ ~raced[s]) => rec = before[s]
  /\ expect[s] # NoVersion =>
       /\ pc[s] = "idle" => ~overtaken[s]
       /\ (pc[s] = "get" /\ overtaken[s]) => expect[s] < stamp
       /\ (Holds(s) /\ overtaken[s]) => expect[s] < version[s]
  /\ pc[s] = "idle" => ~gone[s] /\ ~overtaken[s]
  /\ gone[s] => rec.status = "deleted" /\ (Holds(s) => before[s].status = "deleted")

Rejections(s) == outcome[s] = "rejected" => raced[s]

IInv == TypeOK /\ \A s \in Sessions : Ctl(s) /\ Past(s) /\ Rejections(s)

USE InputsAssumption, StartsAssumption, NoVersionAssumption, MaxEditsAssumption

-----------------------------------------------------------------------------
(***************************************************************************)
(* Requests.                                                               *)
(***************************************************************************)
LEMMA OnlyTyped ==
  ASSUME NEW f \in DealFields, NEW v \in ValuesOf[f]
  PROVE  /\ DOMAIN Only(f, v) \subseteq DealFields
         /\ \A g \in DOMAIN Only(f, v) : Only(f, v)[g] \in ValuesOf[g]
BY DEF Only

\* What an action sends are fields of a deal with values those fields have.
LEMMA RequestTyped ==
  ASSUME NEW i \in Inputs \cup {NoInput}
  PROVE  /\ DOMAIN RequestFor(i) \subseteq DealFields
         /\ \A f \in DOMAIN RequestFor(i) : RequestFor(i)[f] \in ValuesOf[f]
<1>1. i.action \in DealActions /\ DOMAIN i.given \subseteq DealFields
      /\ \A f \in DOMAIN i.given : i.given[f] \in ValuesOf[f]
  BY DEF NoInput, DealActions, DealFields
<1>2. DOMAIN Sets(i.action) \subseteq DealFields
      /\ \A f \in DOMAIN Sets(i.action) : Sets(i.action)[f] \in ValuesOf[f]
  <2>0. /\ {"open", "won", "lost"} \subseteq ValuesOf["status"]
        /\ {"", "true"} \subseteq ValuesOf["is_archived"]
        /\ "status" \in DealFields /\ "is_archived" \in DealFields
    BY DEF ValuesOf, DealFields
  <2>1. CASE i.action = "mark_won"
    <3>1. Sets(i.action) = Only("status", "won")
      BY <2>1 DEF Sets
    <3> QED
      BY <2>0, <3>1, OnlyTyped
  <2>2. CASE i.action = "mark_lost"
    <3>1. Sets(i.action) = Only("status", "lost")
      BY <2>2 DEF Sets
    <3> QED
      BY <2>0, <3>1, OnlyTyped
  <2>3. CASE i.action = "reopen"
    <3>1. Sets(i.action) = Only("status", "open")
      BY <2>3 DEF Sets
    <3> QED
      BY <2>0, <3>1, OnlyTyped
  <2>4. CASE i.action = "archive"
    <3>1. Sets(i.action) = Only("is_archived", "true")
      BY <2>4 DEF Sets
    <3> QED
      BY <2>0, <3>1, OnlyTyped
  <2>5. CASE i.action = "unarchive"
    <3>1. Sets(i.action) = Only("is_archived", "")
      BY <2>5 DEF Sets
    <3> QED
      BY <2>0, <3>1, OnlyTyped
  <2>6. CASE i.action \in {"update", "move_stage", "delete"}
    <3>1. Sets(i.action) = [f \in {} |-> ""]
      BY <2>6 DEF Sets
    <3> QED
      BY <3>1
  <2> QED
    BY <1>1, <2>1, <2>2, <2>3, <2>4, <2>5, <2>6 DEF DealActions, Transitions
<1> QED
  BY <1>1, <1>2 DEF RequestFor

\* No request of an action names a field that is not the action's own.
LEMMA RequestNarrow ==
  ASSUME NEW i \in Inputs \cup {NoInput}, i.action # "delete"
  PROVE  DOMAIN RequestFor(i) \subseteq Owns(i.action)
<1>1. i.action \in DealActions
  BY DEF NoInput, DealActions
<1> QED
  BY <1>1 DEF RequestFor, Sets, Only, Takes, Owns, DealActions, Transitions

\* An unarchiving request can be sent to an archived deal, and the reason of a
\* loss goes with the loss alone.
LEMMA RequestFits ==
  ASSUME NEW i \in Inputs \cup {NoInput}
  PROVE  /\ i.action = "unarchive" => DOMAIN RequestFor(i) = {"is_archived"}
         /\ "lost_reason" \in DOMAIN RequestFor(i) =>
              /\ "status" \in DOMAIN RequestFor(i)
              /\ RequestFor(i)["status"] = "lost"
<1>1. i.action \in DealActions
  BY DEF NoInput, DealActions
<1> QED
  BY <1>1 DEF RequestFor, Sets, Only, Takes, DealActions, Transitions

LEMMA EditTyped ==
  ASSUME TypeOK, NEW f \in DealFields, NEW v \in ValuesOf[f]
  PROVE  [rec EXCEPT ![f] = v] \in Deals
<1>1. \A g \in DealFields : ValuesOf[g] \subseteq Values
  BY DEF Values
<1> QED
  BY <1>1 DEF TypeOK, Deals

\* What a write makes of a deal is a deal.
LEMMA AfterTyped ==
  ASSUME TypeOK, NEW s \in Sessions
  PROVE  After(s) \in Deals
<1>1. DOMAIN RequestFor(input[s]) \subseteq DealFields
      /\ \A f \in DOMAIN RequestFor(input[s]) : RequestFor(input[s])[f] \in ValuesOf[f]
  BY RequestTyped DEF TypeOK
<1>2. \A f \in DealFields : ValuesOf[f] \subseteq Values
  BY DEF Values
<1>3. CASE input[s].action = "delete"
  <2>1. After(s) = [rec EXCEPT !["status"] = "deleted"]
    BY <1>3 DEF After
  <2>2. "status" \in DealFields /\ "deleted" \in ValuesOf["status"]
    BY DEF DealFields, ValuesOf
  <2> QED
    BY <2>1, <2>2, EditTyped
<1>4. CASE input[s].action # "delete"
  <2>1. After(s) = [f \in DealFields |-> IF f \in DOMAIN RequestFor(input[s])
                                         THEN RequestFor(input[s])[f] ELSE rec[f]]
    BY <1>4 DEF After, Guard!Predict, Guard!Fields
  <2> QED
    BY <1>1, <1>2, <2>1 DEF TypeOK, Deals
<1> QED
  BY <1>3, <1>4

-----------------------------------------------------------------------------
LEMMA InitTypeOK == Init => TypeOK
<1> SUFFICES ASSUME Init PROVE TypeOK
  OBVIOUS
<1>1. rec \in Deals
  BY DEF Init
<1>2. "none" \in Outcomes
  BY DEF Outcomes
<1> QED
  BY <1>1, <1>2 DEF Init, TypeOK, Write!Init

LEMMA NextTypeOK == TypeOK /\ [Next]_vars => TypeOK'
<1> SUFFICES ASSUME TypeOK, [Next]_vars PROVE TypeOK'
  OBVIOUS
<1> USE DEF TypeOK, dealVars, callVars, readVars, writeVars, pastVars, Goto,
            Finish, Outcomes
<1>1. ASSUME NEW s \in Sessions, NEW i \in Inputs, Call(s, i) PROVE TypeOK'
  BY <1>1 DEF Call
<1>2. ASSUME NEW s \in Sessions, GetDeal(s) PROVE TypeOK'
  BY <1>2 DEF GetDeal
<1>3. ASSUME NEW s \in Sessions, GetFails(s) PROVE TypeOK'
  BY <1>3 DEF GetFails
<1>4. ASSUME NEW s \in Sessions, DecideWrite(s) PROVE TypeOK'
  BY <1>4 DEF DecideWrite
<1>5. ASSUME NEW s \in Sessions, DecideDelete(s) PROVE TypeOK'
  BY <1>5 DEF DecideDelete
<1>6. ASSUME NEW s \in Sessions, Written(s) PROVE TypeOK'
  BY <1>6 DEF Written, Write!TellOk
<1>7. ASSUME NEW s \in Sessions, NotWritten(s) PROVE TypeOK'
  BY <1>7 DEF NotWritten, Write!TellNo, Write!TellMaybe
<1>8. ASSUME NEW s \in Sessions, Rejected(s) PROVE TypeOK'
  BY <1>8 DEF Rejected, Write!TellNo
<1>9. ASSUME NEW r, NEW by, r \in Deals, Become(r, by), edits' \in 0 .. MaxEdits,
             effect' \in [Sessions -> {"open", "made", "void"}], UNCHANGED verdict
      PROVE TypeOK'
  BY <1>9 DEF Become
<1>10. ASSUME NEW s \in Sessions, Apply(s) PROVE TypeOK'
  BY <1>9, <1>10, AfterTyped DEF Apply, Write!Make
<1>11. ASSUME NEW s \in Sessions, Lapse(s) PROVE TypeOK'
  BY <1>11 DEF Lapse, Write!Expire
<1>12. CASE Edit
  <2>1. PICK f \in DealFields : \E v \in ValuesOf[f] \ {rec[f]} :
          Become([rec EXCEPT ![f] = v], {})
    BY <1>12 DEF Edit
  <2>2. PICK v \in ValuesOf[f] : Become([rec EXCEPT ![f] = v], {})
    BY <2>1
  <2>3. edits' \in 0 .. MaxEdits /\ UNCHANGED writeVars
    BY <1>12 DEF Edit
  <2>4. [rec EXCEPT ![f] = v] \in Deals
    BY EditTyped
  <2> QED
    BY <1>9, <2>2, <2>3, <2>4
<1>13. CASE UNCHANGED vars
  BY <1>13 DEF vars
<1> QED
  BY <1>1, <1>2, <1>3, <1>4, <1>5, <1>6, <1>7, <1>8, <1>10, <1>11, <1>12, <1>13
  DEF Next, Step

\* The deal stays one whatever the actions send (deals.go, dealRequestFor).
THEOREM Typing == Spec => []TypeOK
BY InitTypeOK, NextTypeOK, PTL DEF Spec
-----------------------------------------------------------------------------
(***************************************************************************)
(* The parts of the invariant.                                             *)
(***************************************************************************)
LEMMA CtlStep == IInv /\ [Next]_vars => (\A t \in Sessions : Ctl(t))'
<1> SUFFICES ASSUME IInv, [Next]_vars, NEW t \in Sessions PROVE Ctl(t)'
  OBVIOUS
<1> USE DEF IInv, TypeOK, dealVars, callVars, readVars, writeVars, pastVars, Goto,
            Finish, Ctl, Sent, Decided, Holds, VersionMatches
<1>1. ASSUME NEW s \in Sessions, NEW i \in Inputs, Call(s, i) PROVE Ctl(t)'
  BY <1>1 DEF Call
<1>2. ASSUME NEW s \in Sessions, GetDeal(s) PROVE Ctl(t)'
  <2>1. CASE t = s
    BY <1>2, <2>1 DEF GetDeal, RefusesArchived
  <2>2. CASE t # s
    BY <1>2, <2>2 DEF GetDeal
  <2> QED
    BY <2>1, <2>2
<1>3. ASSUME NEW s \in Sessions, GetFails(s) PROVE Ctl(t)'
  <2>1. CASE t = s
    BY <1>3, <2>1 DEF GetFails
  <2>2. CASE t # s
    BY <1>3, <2>2 DEF GetFails
  <2> QED
    BY <2>1, <2>2
<1>4. ASSUME NEW s \in Sessions, DecideWrite(s) PROVE Ctl(t)'
  <2>1. CASE t = s
    BY <1>4, <2>1 DEF DecideWrite
  <2>2. CASE t # s
    BY <1>4, <2>2 DEF DecideWrite
  <2> QED
    BY <2>1, <2>2
<1>5. ASSUME NEW s \in Sessions, DecideDelete(s) PROVE Ctl(t)'
  <2>1. CASE t = s
    BY <1>5, <2>1 DEF DecideDelete
  <2>2. CASE t # s
    BY <1>5, <2>2 DEF DecideDelete
  <2> QED
    BY <2>1, <2>2
<1>6. ASSUME NEW s \in Sessions, Written(s) PROVE Ctl(t)'
  <2>1. CASE t = s
    BY <1>6, <2>1 DEF Written, Write!TellOk
  <2>2. CASE t # s
    BY <1>6, <2>2 DEF Written, Write!TellOk
  <2> QED
    BY <2>1, <2>2
<1>7. ASSUME NEW s \in Sessions, NotWritten(s) PROVE Ctl(t)'
  <2>1. CASE t = s
    BY <1>7, <2>1 DEF NotWritten, Write!TellNo, Write!TellMaybe
  <2>2. CASE t # s
    BY <1>7, <2>2 DEF NotWritten, Write!TellNo, Write!TellMaybe
  <2> QED
    BY <2>1, <2>2
<1>8. ASSUME NEW s \in Sessions, Rejected(s) PROVE Ctl(t)'
  <2>1. CASE t = s
    BY <1>8, <2>1 DEF Rejected, Write!TellNo
  <2>2. CASE t # s
    BY <1>8, <2>2 DEF Rejected, Write!TellNo
  <2> QED
    BY <2>1, <2>2
<1>9. ASSUME NEW s \in Sessions, Apply(s) PROVE Ctl(t)'
  <2>1. CASE t = s
    BY <1>9, <2>1 DEF Apply, Become, Write!Make
  <2>2. CASE t # s
    BY <1>9, <2>2 DEF Apply, Become, Write!Make
  <2> QED
    BY <2>1, <2>2
<1>10. ASSUME NEW s \in Sessions, Lapse(s) PROVE Ctl(t)'
  <2>1. CASE t = s
    BY <1>10, <2>1 DEF Lapse, Write!Expire
  <2>2. CASE t # s
    BY <1>10, <2>2 DEF Lapse, Write!Expire
  <2> QED
    BY <2>1, <2>2
<1>11. CASE Edit
  BY <1>11 DEF Edit, Become
<1>12. CASE UNCHANGED vars
  BY <1>12 DEF vars
<1> QED
  BY <1>1, <1>2, <1>3, <1>4, <1>5, <1>6, <1>7, <1>8, <1>9, <1>10, <1>11, <1>12
  DEF Next, Step

\* What a change of the deal by others does to what is known of a call.
LEMMA PastOvertaken ==
  ASSUME IInv, NEW t \in Sessions, NEW r, NEW by, Become(r, by), t \notin by,
         effect'[t] = effect[t], verdict' = verdict
  PROVE  Past(t)'
<1> USE DEF IInv, TypeOK, callVars, readVars, Become
<1>1. rec' = r /\ UNCHANGED <<pc, expect, before, version, outcome>>
      /\ stamp \in Nat /\ stamp' \in {stamp, stamp + 1}
  OBVIOUS
<1>2. (effect[t] = "open" /\ (pc[t] \in {"decide", "send"} \/ verdict[t] = "maybe")
       /\ ~raced'[t]) => rec' = before[t]
  BY DEF Past, Ctl
<1>3. expect[t] # NoVersion =>
        /\ pc[t] = "idle" => ~overtaken'[t]
        /\ (pc[t] = "get" /\ overtaken'[t]) => expect[t] < stamp'
        /\ (Holds(t) /\ overtaken'[t]) => expect[t] < version[t]
  <2>1. CASE pc[t] = "get"
    <3>1. ~Holds(t)
      BY <2>1 DEF Holds, Decided, Sent, Ctl
    <3>2. CASE stamp' = stamp
      BY <2>1, <3>1, <3>2 DEF Past
    <3>3. CASE stamp' = stamp + 1
      BY <1>1, <2>1, <3>1, <3>3 DEF Past
    <3> QED
      BY <1>1, <3>2, <3>3
  <2>2. CASE pc[t] # "get"
    BY <2>2 DEF Past
  <2> QED
    BY <2>1, <2>2
<1>4. (pc[t] = "idle" => ~gone'[t] /\ ~overtaken'[t])
      /\ (gone'[t] => rec'.status = "deleted" /\ (Holds(t) => before[t].status = "deleted"))
  BY DEF Past
<1> QED
  BY <1>1, <1>2, <1>3, <1>4 DEF Past, Holds, Decided, Sent

LEMMA PastStep == IInv /\ [Next]_vars => (\A t \in Sessions : Past(t))'
<1> SUFFICES ASSUME IInv, [Next]_vars, NEW t \in Sessions PROVE Past(t)'
  OBVIOUS
<1> USE DEF IInv, TypeOK, dealVars, callVars, readVars, writeVars, pastVars, Goto,
            Finish, Past, Ctl, Sent, Decided, Holds
<1>1. ASSUME NEW s \in Sessions, NEW i \in Inputs, Call(s, i) PROVE Past(t)'
  BY <1>1 DEF Call
<1>2. ASSUME NEW s \in Sessions, GetDeal(s) PROVE Past(t)'
  <2>1. CASE t = s
    BY <1>2, <2>1 DEF GetDeal, RefusesArchived
  <2>2. CASE t # s
    BY <1>2, <2>2 DEF GetDeal
  <2> QED
    BY <2>1, <2>2
<1>3. ASSUME NEW s \in Sessions, GetFails(s) PROVE Past(t)'
  <2>1. CASE t = s
    BY <1>3, <2>1 DEF GetFails
  <2>2. CASE t # s
    BY <1>3, <2>2 DEF GetFails
  <2> QED
    BY <2>1, <2>2
<1>4. ASSUME NEW s \in Sessions, DecideWrite(s) PROVE Past(t)'
  <2>1. CASE t = s
    BY <1>4, <2>1 DEF DecideWrite
  <2>2. CASE t # s
    BY <1>4, <2>2 DEF DecideWrite
  <2> QED
    BY <2>1, <2>2
<1>5. ASSUME NEW s \in Sessions, DecideDelete(s) PROVE Past(t)'
  <2>1. CASE t = s
    BY <1>5, <2>1 DEF DecideDelete
  <2>2. CASE t # s
    BY <1>5, <2>2 DEF DecideDelete
  <2> QED
    BY <2>1, <2>2
<1>6. ASSUME NEW s \in Sessions, Written(s) PROVE Past(t)'
  <2>1. CASE t = s
    BY <1>6, <2>1 DEF Written, Write!TellOk
  <2>2. CASE t # s
    BY <1>6, <2>2 DEF Written, Write!TellOk
  <2> QED
    BY <2>1, <2>2
<1>7. ASSUME NEW s \in Sessions, NotWritten(s) PROVE Past(t)'
  <2>1. CASE t = s
    BY <1>7, <2>1 DEF NotWritten, Write!TellNo, Write!TellMaybe
  <2>2. CASE t # s
    BY <1>7, <2>2 DEF NotWritten, Write!TellNo, Write!TellMaybe
  <2> QED
    BY <2>1, <2>2
<1>8. ASSUME NEW s \in Sessions, Rejected(s) PROVE Past(t)'
  <2>1. CASE t = s
    BY <1>8, <2>1 DEF Rejected, Write!TellNo
  <2>2. CASE t # s
    BY <1>8, <2>2 DEF Rejected, Write!TellNo
  <2> QED
    BY <2>1, <2>2
<1>9. ASSUME NEW s \in Sessions, Apply(s) PROVE Past(t)'
  <2>1. CASE t = s
    BY <1>9, <2>1 DEF Apply, Become, Write!Make
  <2>2. CASE t # s
    BY <1>9, <2>2, PastOvertaken DEF Apply, Write!Make
  <2> QED
    BY <2>1, <2>2
<1>10. ASSUME NEW s \in Sessions, Lapse(s) PROVE Past(t)'
  <2>1. CASE t = s
    BY <1>10, <2>1 DEF Lapse, Write!Expire
  <2>2. CASE t # s
    BY <1>10, <2>2 DEF Lapse, Write!Expire
  <2> QED
    BY <2>1, <2>2
<1>11. CASE Edit
  BY <1>11, PastOvertaken DEF Edit
<1>12. CASE UNCHANGED vars
  BY <1>12 DEF vars
<1> QED
  BY <1>1, <1>2, <1>3, <1>4, <1>5, <1>6, <1>7, <1>8, <1>9, <1>10, <1>11, <1>12
  DEF Next, Step

LEMMA RejectionsStep == IInv /\ [Next]_vars => (\A t \in Sessions : Rejections(t))'
<1> SUFFICES ASSUME IInv, [Next]_vars, NEW t \in Sessions PROVE Rejections(t)'
  OBVIOUS
<1> USE DEF IInv, TypeOK, dealVars, callVars, readVars, writeVars, pastVars, Goto,
            Finish, Rejections
<1>1. ASSUME NEW s \in Sessions, Rejected(s) PROVE Rejections(t)'
  <2>1. CASE t = s
    <3>1. pc[s] = "send" /\ effect[s] = "open" /\ UNCHANGED raced /\ ~Accepts(s)
      BY <1>1 DEF Rejected, Write!TellNo
    <3>2. SUFFICES ASSUME ~raced[s] PROVE FALSE
      BY <2>1, <3>1
    <3>3. rec = before[s]
      BY <3>1, <3>2 DEF Past
    <3> DEFINE req == RequestFor(input[s])
    <3>4. /\ input[s].action # "delete"
          /\ \/ rec.is_archived = "true" /\ DOMAIN req # {"is_archived"}
             \/ "lost_reason" \in DOMAIN req /\ After(s).status # "lost"
      BY <3>1 DEF Accepts
    <3>5. CASE rec.is_archived = "true" /\ DOMAIN req # {"is_archived"}
      <4>1. ~RefusesArchived(input[s].action)
        BY <3>1, <3>3, <3>5 DEF Ctl, Holds, Decided, Sent
      <4>2. input[s].action = "unarchive"
        BY <3>4, <4>1 DEF RefusesArchived
      <4> QED
        BY <3>5, <4>2, RequestFits
    <3>6. CASE "lost_reason" \in DOMAIN req /\ After(s).status # "lost"
      <4>1. "status" \in DOMAIN req /\ req["status"] = "lost"
        BY <3>6, RequestFits
      <4>2. After(s) = [f \in DealFields |-> IF f \in DOMAIN req THEN req[f] ELSE rec[f]]
        BY <3>4 DEF After, Guard!Predict, Guard!Fields
      <4>3. After(s)["status"] = "lost"
        BY <4>1, <4>2 DEF DealFields
      <4> QED
        BY <3>6, <4>3
    <3> QED
      BY <3>4, <3>5, <3>6
  <2>2. CASE t # s
    BY <1>1, <2>2 DEF Rejected
  <2> QED
    BY <2>1, <2>2
<1>2. ASSUME NEW s \in Sessions, NEW i \in Inputs, Call(s, i) PROVE Rejections(t)'
  BY <1>2 DEF Call
<1>3. ASSUME NEW s \in Sessions, GetDeal(s) PROVE Rejections(t)'
  BY <1>3 DEF GetDeal
<1>4. ASSUME NEW s \in Sessions, GetFails(s) PROVE Rejections(t)'
  BY <1>4 DEF GetFails
<1>5. ASSUME NEW s \in Sessions, DecideWrite(s) PROVE Rejections(t)'
  BY <1>5 DEF DecideWrite
<1>6. ASSUME NEW s \in Sessions, DecideDelete(s) PROVE Rejections(t)'
  BY <1>6 DEF DecideDelete
<1>7. ASSUME NEW s \in Sessions, Written(s) \/ NotWritten(s) PROVE Rejections(t)'
  BY <1>7 DEF Written, NotWritten
<1>8. ASSUME NEW s \in Sessions, Apply(s) PROVE Rejections(t)'
  BY <1>8 DEF Apply, Become
<1>9. ASSUME NEW s \in Sessions, Lapse(s) PROVE Rejections(t)'
  BY <1>9 DEF Lapse
<1>10. CASE Edit
  BY <1>10 DEF Edit, Become
<1>11. CASE UNCHANGED vars
  BY <1>11 DEF vars
<1> QED
  BY <1>1, <1>2, <1>3, <1>4, <1>5, <1>6, <1>7, <1>8, <1>9, <1>10, <1>11
  DEF Next, Step

LEMMA InitIInv == Init => IInv
<1> SUFFICES ASSUME Init PROVE IInv
  OBVIOUS
<1>1. TypeOK
  BY InitTypeOK
<1>2. \A s \in Sessions : Ctl(s) /\ Past(s) /\ Rejections(s)
  BY DEF Init, Write!Init, Ctl, Past, Rejections, Sent, Decided, Holds
<1> QED
  BY <1>1, <1>2 DEF IInv

LEMMA NextIInv == IInv /\ [Next]_vars => IInv'
BY NextTypeOK, CtlStep, PastStep, RejectionsStep DEF IInv

LEMMA Invariance == Spec => []IInv
BY InitIInv, NextIInv, PTL DEF Spec

-----------------------------------------------------------------------------
(***************************************************************************)
(* The properties.                                                         *)
(***************************************************************************)
\* A rehearsal and a call stopped before its write never change the deal, and
\* a delete is one of the writes this holds for (manageDealHandler).
THEOREM Rehearsed == Spec => []RehearsalsWriteNothing
<1>1. IInv => RehearsalsWriteNothing
  BY DEF IInv, TypeOK, Ctl, Sent, RehearsalsWriteNothing
<1> QED
  BY <1>1, Invariance, PTL

\* What Pipedrive rejects by its own rules was changed under the call
\* (writeDealAction's Get, dealRequestFor).
THEOREM RejectedByRaceAlone == Spec => []RejectionsAreRaces
<1>1. IInv => RejectionsAreRaces
  BY DEF IInv, Rejections, RejectionsAreRaces
<1> QED
  BY <1>1, Invariance, PTL

\* What is deleted is not deleted again (deleteDealAction).
THEOREM NoSecondDelete == Spec => []DeletedOnce
<1>1. IInv => DeletedOnce
  BY DEF IInv, TypeOK, Ctl, Past, Sent, Decided, Holds, DeletedOnce
<1> QED
  BY <1>1, Invariance, PTL

\* A version that moved before the read stops the write, the DELETE as well
\* (checkExpectVersion).
THEOREM VersionHolds == Spec => []NothingOvertakenIsWritten
<1>1. IInv => NothingOvertakenIsWritten
  <2> SUFFICES ASSUME IInv, NEW s \in Sessions, expect[s] # NoVersion, overtaken[s],
                      effect[s] = "made"
               PROVE  FALSE
    BY DEF NothingOvertakenIsWritten
  <2>1. Sent(s) /\ expect[s] = version[s]
    BY DEF IInv, Ctl, Decided, VersionMatches
  <2>2. expect[s] < version[s]
    BY <2>1 DEF IInv, Past, Holds, Decided
  <2> QED
    BY <2>1, <2>2 DEF IInv, TypeOK
<1> QED
  BY <1>1, Invariance, PTL

\* The two together: what keeps a deal as it is holds on both of the paths
\* that write it (manageDealHandler, deleteDealAction).
THEOREM NeverUncalledFor == Spec => []NoUncalledForWrite
<1>1. RehearsalsWriteNothing /\ NothingOvertakenIsWritten => NoUncalledForWrite
  BY DEF NoUncalledForWrite
<1> QED
  BY <1>1, Rehearsed, VersionHolds, PTL

\* Whatever else the caller passes, a write moves its action's own fields
\* (dealRequestFor).
THEOREM Narrow == Spec => WritesStayNarrow
<1> DEFINE Moves == \A s \in Sessions :
      (effect[s] = "open" /\ effect'[s] = "made") =>
        \A f \in DealFields : rec'[f] # rec[f] => f \in Owns(input[s].action)
<1>1. TypeOK /\ [Next]_vars => [Moves]_vars
  <2> SUFFICES ASSUME TypeOK, Next, NEW s \in Sessions, effect[s] = "open",
                      effect'[s] = "made", NEW f \in DealFields, rec'[f] # rec[f]
               PROVE  f \in Owns(input[s].action)
    OBVIOUS
  <2>1. \A t \in Sessions : Apply(t) => t = s
    BY DEF TypeOK, Apply, Write!Make
  <2>2. Apply(s)
    <3> USE DEF TypeOK, writeVars, Goto, Finish
    <3>1. PICK t \in Sessions : Step(t)
      BY DEF Next, Edit
    <3>2. CASE UNCHANGED effect
      BY <3>2
    <3>3. CASE Written(t) \/ NotWritten(t) \/ Rejected(t) \/ Lapse(t)
      BY <3>3 DEF Written, NotWritten, Rejected, Lapse, Write!TellOk, Write!TellNo,
                  Write!TellMaybe, Write!Expire
    <3>4. CASE Apply(t)
      BY <2>1, <3>4
    <3> QED
      BY <3>1, <3>2, <3>3, <3>4
      DEF Step, Call, GetDeal, GetFails, DecideWrite, DecideDelete
  <2>3. rec' = After(s)
    BY <2>2 DEF Apply, Become
  <2>4. CASE input[s].action = "delete"
    BY <2>3, <2>4 DEF After, TypeOK, Deals, Owns
  <2>5. CASE input[s].action # "delete"
    <3>1. f \in DOMAIN RequestFor(input[s])
      BY <2>3, <2>5 DEF After, Guard!Predict, Guard!Fields
    <3> QED
      BY <2>5, <3>1, RequestNarrow DEF TypeOK
  <2> QED
    BY <2>4, <2>5
<1> QED
  BY <1>1, Typing, PTL DEF Spec, WritesStayNarrow
=============================================================================
