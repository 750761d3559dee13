-------------------------- MODULE CreateRecordProofs --------------------------
(***************************************************************************)
(* What CreateRecord says of WhoAmI and of dry runs, for any number of     *)
(* calls and changes: one answer for all, and previews that show what is   *)
(* made.  MemoInv ties the memo to those who asked and those who heard;    *)
(* Foresight ties each preview to what its call has read, and what was     *)
(* read to what was made between the same two changes of the defaults.     *)
(***************************************************************************)
EXTENDS CreateRecord, WellFoundedInduction, TLAPS

Labels == {"idle", "whoami", "asking", "stages", "create", "done"}

MemoTyped ==
  /\ currency \in Currencies
  /\ memo \in Heard
  /\ asked \subseteq Calls
  /\ pc \in [Calls -> Labels]
  /\ ctx \in [Calls -> {"live", "ended"}]
  /\ heard \in [Calls -> Heard]

\* Only the holder of the mutex asks, and only while there is no answer.
Held ==
  /\ \A c \in Calls : pc[c] = "asking" <=> lock = c
  /\ lock # Nobody => memo = "none"

\* What was heard was the memo, or a given-up call's own error.
HeardMemo ==
  /\ memo # "cancelled"
  /\ \A c \in Calls : HeardFully(c) => heard[c] = memo
  /\ \A c \in Calls : heard[c] = "cancelled" => ctx[c] = "ended"

\* Who asked and was not given up either still asks or set the memo.
AskedOnce ==
  /\ \A c \in asked : ctx[c] = "live" => memo # "none" \/ pc[c] = "asking"
  /\ \A c, d \in asked : c # d => "ended" \in {ctx[c], ctx[d]}

MemoInv == MemoTyped /\ Held /\ HeardMemo /\ AskedOnce

-----------------------------------------------------------------------------
\* No call has been made yet.
LEMMA MemoInit == Init => MemoInv
  BY NobodyAssumption DEF Init, MemoInv, MemoTyped, Held, HeardMemo, HeardFully, AskedOnce,
     Heard, Errors, Labels

\* Where a call is after WhoAmI, it is not asking.
LEMMA AfterUserLabel ==
  ASSUME NEW kind, NEW r
  PROVE  AfterUser(kind, r) \in {"stages", "done"}
  BY DEF AfterUser

\* A currency is neither an error nor the want of an answer.
LEMMA CurrencyHeard ==
  ASSUME NEW v \in Currencies
  PROVE  v \in Heard /\ v \notin Errors /\ v # "none"
  BY CurrenciesAssumption DEF Heard, Errors

\* Hearing moves the hearer alone.
LEMMA HearMoves ==
  ASSUME MemoTyped, NEW c \in Calls, NEW answer \in Heard, Hear(c, answer)
  PROVE  /\ heard' = [heard EXCEPT ![c] = answer] /\ heard' \in [Calls -> Heard]
         /\ pc' \in [Calls -> Labels]
         /\ pc'[c] \in {"stages", "done"}
         /\ \A d \in Calls : d # c => pc'[d] = pc[d] /\ heard'[d] = heard[d]
         /\ heard'[c] = answer
<1>1. AfterUser(input[c].kind, shown'[c]) \in {"stages", "done"}
  BY AfterUserLabel
<1>. QED  BY <1>1 DEF Hear, Goto, MemoTyped, Labels

\* A step of the rest of a call leaves the memo and its queue alone.
LEMMA OtherSteps ==
  ASSUME MemoInv, NEW c \in Calls, UNCHANGED <<memoVars, currency, ctx, heard>>,
         NEW label \in Labels \ {"asking"}, pc[c] # "asking", Goto(c, label)
  PROVE  MemoInv'
<1>. USE DEF MemoInv, Goto, memoVars
<1>1. /\ pc' \in [Calls -> Labels]
      /\ \A d \in Calls : pc'[d] = "asking" <=> pc[d] = "asking"
  BY DEF MemoTyped, Labels
<1>2. MemoTyped'  BY <1>1 DEF MemoTyped
<1>3. Held'  BY <1>1 DEF Held
<1>4. HeardMemo'  BY DEF HeardMemo, HeardFully
<1>5. AskedOnce'  BY <1>1 DEF AskedOnce, MemoTyped
<1>. QED  BY <1>2, <1>3, <1>4, <1>5

\* The same for a step that moves no call.
LEMMA StillSteps ==
  ASSUME MemoInv, UNCHANGED <<memoVars, pc, ctx, heard>>, currency' \in Currencies
  PROVE  MemoInv'
  BY DEF MemoInv, MemoTyped, Held, HeardMemo, HeardFully, AskedOnce, memoVars

\* Getting the mutex: the answer is there, or nobody who was not given up asked.
LEMMA LockKeeps ==
  ASSUME MemoInv, NEW c \in Calls, Lock(c)
  PROVE  MemoInv'
<1>. USE DEF MemoInv
<1>1. /\ pc[c] = "whoami" /\ lock = Nobody
      /\ UNCHANGED <<memo, ctx, currency>>
  BY DEF Lock, defaultVars
<1>2. CASE memo # "none"
  <2>1. Hear(c, memo) /\ UNCHANGED <<lock, asked>>
    BY <1>2 DEF Lock
  <2>2. memo \in Heard  BY DEF MemoTyped
  <2>3. /\ heard' \in [Calls -> Heard] /\ pc' \in [Calls -> Labels]
        /\ pc'[c] # "asking" /\ heard'[c] = memo
        /\ \A d \in Calls : d # c => pc'[d] = pc[d] /\ heard'[d] = heard[d]
    BY <2>1, <2>2, HearMoves
  <2>4. MemoTyped'  BY <1>1, <2>1, <2>3 DEF MemoTyped
  <2>5. Held'  BY <1>1, <2>1, <2>3 DEF Held
  <2>6. HeardMemo'  BY <1>1, <2>3 DEF HeardMemo, HeardFully
  <2>7. AskedOnce'  BY <1>1, <1>2, <2>1 DEF AskedOnce
  <2>. QED  BY <2>4, <2>5, <2>6, <2>7
<1>3. CASE memo = "none"
  <2>1. /\ lock' = c /\ asked' = asked \cup {c} /\ UNCHANGED <<heard, shown>>
        /\ pc' = [pc EXCEPT ![c] = "asking"]
    BY <1>3 DEF Lock, Goto
  <2>2. MemoTyped'  BY <1>1, <2>1 DEF MemoTyped, Labels
  <2>3. Held'
    BY <1>1, <1>3, <2>1, NobodyAssumption DEF Held, MemoTyped, Labels
  <2>4. HeardMemo'  BY <1>1, <2>1 DEF HeardMemo, HeardFully
  <2>5. \A d \in asked : d # c => ctx[d] = "ended"
    BY <1>1, <1>3, NobodyAssumption DEF AskedOnce, Held, MemoTyped
  <2>6. AskedOnce'
    BY <1>1, <2>1, <2>5 DEF AskedOnce, MemoTyped, Labels
  <2>. QED  BY <2>2, <2>3, <2>4, <2>6
<1>. QED  BY <1>2, <1>3

\* The answer, or an error that is kept, becomes the memo.
LEMMA SetKeeps ==
  ASSUME MemoInv, NEW c \in Calls, pc[c] = "asking",
         NEW answer \in Heard, answer # "none", answer # "cancelled",
         memo' = answer, lock' = Nobody, Hear(c, answer),
         UNCHANGED <<asked, ctx, currency>>
  PROVE  MemoInv'
<1>. USE DEF MemoInv
<1>1. /\ heard' \in [Calls -> Heard] /\ pc' \in [Calls -> Labels]
      /\ pc'[c] # "asking" /\ heard'[c] = answer
      /\ \A d \in Calls : d # c => pc'[d] = pc[d] /\ heard'[d] = heard[d]
  BY HearMoves
<1>2. lock = c /\ memo = "none"  BY NobodyAssumption DEF Held
<1>3. MemoTyped'  BY <1>1 DEF MemoTyped
<1>4. Held'  BY <1>1, <1>2, NobodyAssumption DEF Held
<1>5. \A d \in Calls : ~ (HeardFully(d) /\ heard[d] # "none")
  BY <1>2 DEF HeardMemo, HeardFully
<1>6. HeardMemo'  BY <1>1, <1>5 DEF HeardMemo, HeardFully, Errors
<1>7. AskedOnce'  BY DEF AskedOnce
<1>. QED  BY <1>3, <1>4, <1>6, <1>7

\* A given-up call fails and leaves no trace.
LEMMA DropKeeps ==
  ASSUME MemoInv, NEW c \in Calls, pc[c] = "asking", ctx[c] = "ended",
         NEW error \in Errors, lock' = Nobody, Hear(c, error),
         UNCHANGED <<memo, asked, ctx, currency>>
  PROVE  MemoInv'
<1>. USE DEF MemoInv
<1>1. /\ heard' \in [Calls -> Heard] /\ pc' \in [Calls -> Labels]
      /\ pc'[c] # "asking" /\ heard'[c] = error
      /\ \A d \in Calls : d # c => pc'[d] = pc[d] /\ heard'[d] = heard[d]
  BY HearMoves DEF Heard
<1>2. lock = c  BY DEF Held
<1>3. MemoTyped'  BY <1>1 DEF MemoTyped
<1>4. Held'  BY <1>1, <1>2, NobodyAssumption DEF Held
<1>5. HeardMemo'  BY <1>1 DEF HeardMemo, HeardFully, Errors
<1>6. AskedOnce'  BY <1>1 DEF AskedOnce, MemoTyped
<1>. QED  BY <1>3, <1>4, <1>5, <1>6

\* A caller gives up.
LEMMA GivingUpKeeps ==
  ASSUME MemoInv, NEW c \in Calls, ContextEnds(c)
  PROVE  MemoInv'
<1>. USE DEF MemoInv
<1>1. /\ ctx' = [ctx EXCEPT ![c] = "ended"]
      /\ UNCHANGED <<memo, lock, asked, pc, heard, currency>>
  BY DEF ContextEnds, memoVars, defaultVars
<1>2. \A d \in Calls : ctx'[d] = "live" => ctx[d] = "live"
  BY <1>1 DEF MemoTyped
<1>3. \A d \in Calls : ctx[d] = "ended" => ctx'[d] = "ended"
  BY <1>1 DEF MemoTyped
<1>4. MemoTyped'  BY <1>1 DEF MemoTyped
<1>5. Held'  BY <1>1 DEF Held
<1>6. HeardMemo'  BY <1>1, <1>3 DEF HeardMemo, HeardFully, MemoTyped
<1>7. AskedOnce'  BY <1>1, <1>2, <1>3 DEF AskedOnce, MemoTyped
<1>. QED  BY <1>4, <1>5, <1>6, <1>7

LEMMA MemoNext == MemoInv /\ [Next]_vars => MemoInv'
<1>. SUFFICES ASSUME MemoInv, [Next]_vars PROVE MemoInv'
  OBVIOUS
<1>1. ASSUME NEW c \in Calls, NEW i \in Inputs, Call(c, i) PROVE MemoInv'
  <2>1. /\ pc[c] # "asking" /\ UNCHANGED <<memoVars, currency, ctx, heard>>
    BY <1>1 DEF Call, defaultVars
  <2>2. \E label \in Labels \ {"asking"} : Goto(c, label)
    BY <1>1, AfterUserLabel DEF Call, Labels
  <2>. QED  BY <2>1, <2>2, OtherSteps
<1>2. ASSUME NEW c \in Calls, Lock(c) PROVE MemoInv'
  BY <1>2, LockKeeps
<1>3. ASSUME NEW c \in Calls, Answered(c) PROVE MemoInv'
  <2>1. currency \in Heard /\ currency # "none" /\ currency # "cancelled"
    BY CurrencyHeard DEF MemoInv, MemoTyped, Errors
  <2>2. /\ pc[c] = "asking" /\ memo' = currency /\ lock' = Nobody /\ Hear(c, currency)
        /\ UNCHANGED <<asked, ctx, currency>>
    BY <1>3 DEF Answered, defaultVars
  <2>. QED  BY <2>1, <2>2, SetKeeps
<1>4. ASSUME NEW c \in Calls, Failed(c) PROVE MemoInv'
  <2>1. /\ pc[c] = "asking" /\ lock' = Nobody /\ UNCHANGED <<asked, ctx, currency>>
    BY <1>4 DEF Failed, defaultVars
  <2>2. CASE ctx[c] = "ended"
    <3>1. \E error \in Errors : memo' = memo /\ Hear(c, error)
      BY <1>4, <2>2 DEF Failed, KeepsError
    <3>. QED  BY <2>1, <2>2, <3>1, DropKeeps
  <2>3. CASE ctx[c] # "ended"
    <3>1. ctx[c] = "live"  BY <2>3 DEF MemoInv, MemoTyped
    <3>2. memo' = "failed" /\ Hear(c, "failed")
      BY <1>4, <2>3, <3>1 DEF Failed, KeepsError
    <3>3. "failed" \in Heard  BY DEF Heard, Errors
    <3>. QED  BY <2>1, <3>2, <3>3, SetKeeps
  <2>. QED  BY <2>2, <2>3
<1>5. ASSUME NEW c \in Calls,
             StagesRead(c) \/ StagesUnread(c) \/ Created(c) \/ NotCreated(c)
      PROVE MemoInv'
  <2>1. /\ pc[c] # "asking" /\ Goto(c, "done")
        /\ UNCHANGED <<memoVars, currency, ctx, heard>>
    BY <1>5 DEF StagesRead, StagesUnread, Created, NotCreated, defaultVars
  <2>. QED  BY <2>1, OtherSteps DEF Labels
<1>6. ASSUME NEW c \in Calls, ContextEnds(c) PROVE MemoInv'
  BY <1>6, GivingUpKeeps
<1>7. ASSUME NEW c \in Calls, Make(c) \/ Lapse(c) PROVE MemoInv'
  BY <1>7, StillSteps DEF Make, Lapse, defaultVars, MemoInv, MemoTyped
<1>8. CASE Edit
  BY <1>8, StillSteps DEF Edit, MemoInv, MemoTyped
<1>9. CASE UNCHANGED vars
  BY <1>9, StillSteps DEF vars, defaultVars, MemoInv, MemoTyped
<1>. QED
  BY <1>1, <1>2, <1>3, <1>4, <1>5, <1>6, <1>7, <1>8, <1>9 DEF Next, Step, Proceed

\* WhoAmI gives one answer to all: to every call its caller did not give up the
\* same, to none another's cancellation, and it asks again only after such a call
\* (users.go, WhoAmI).
THEOREM OneAnswer == Spec => []OneIdentity
<1>1. MemoInv => OneIdentity
  BY DEF MemoInv, HeardMemo, AskedOnce, OneIdentity
<1>2. Spec => []MemoInv
  BY MemoInit, MemoNext, PTL DEF Spec
<1>. QED  BY <1>1, <1>2, PTL

-----------------------------------------------------------------------------
\* The first live stage of an ordering, by which both sides place a deal.
LEMMA FirstStageIs ==
  ASSUME NEW o \in Orderings
  PROVE  /\ FirstStage(o) \in Stages /\ o[FirstStage(o)].live
         /\ \A t \in Stages : o[t].live => o[FirstStage(o)].order <= o[t].order
<1> DEFINE live == {s \in Stages : o[s].live}
           orders == {o[s].order : s \in live}
<1>1. \A s \in Stages : o[s].order \in Nat /\ o[s].live \in BOOLEAN
  BY DefaultsAssumption DEF Orderings
<1>2. orders \in SUBSET Nat /\ orders # {}
  BY <1>1 DEF Orderings
<1> HIDE DEF orders
<1>3. PICK n \in orders : \A m \in orders : ~(<<m, n>> \in OpToRel(<, Nat))
  BY <1>2, NatLessThanWellFounded, WFMin
<1>4. \A m \in orders : n <= m
  <2> SUFFICES ASSUME NEW m \in orders PROVE n <= m
    OBVIOUS
  <2>1. m \in Nat /\ n \in Nat
    BY <1>2
  <2>2. m < n => <<m, n>> \in OpToRel(<, Nat)
    BY <2>1, Zenon DEF OpToRel
  <2>3. ~ (m < n)
    BY <1>3, <2>2
  <2> QED
    BY <2>1, <2>3
<1>5. \E s \in Stages : o[s].live /\ \A t \in Stages : o[t].live => o[s].order <= o[t].order
  BY <1>4 DEF orders
<1> QED
  BY <1>5 DEF FirstStage

LEMMA EntryIsFirst == ASSUME stages \in Orderings PROVE EntryStage = FirstStage(stages)
<1> DEFINE first == FirstStage(stages)
           NothingBefore(s) ==
             stages[s].live /\ ~ \E t \in Stages : stages[t].live /\ stages[t].order < stages[s].order
<1>1. \A s \in Stages : stages[s].order \in Nat
  BY DefaultsAssumption DEF Orderings
<1>2. /\ first \in Stages /\ stages[first].live
      /\ \A t \in Stages : stages[t].live => stages[first].order <= stages[t].order
  BY FirstStageIs
<1> HIDE DEF first
<1>3. NothingBefore(first)
  BY <1>1, <1>2
<1>4. \A s \in Stages : NothingBefore(s) => s = first
  <2> SUFFICES ASSUME NEW s \in Stages, NothingBefore(s) PROVE s = first
    OBVIOUS
  <2>1. stages[s].order = stages[first].order
    BY <1>1, <1>2
  <2> QED
    BY <1>2, <2>1 DEF Orderings
<1>5. EntryStage = CHOOSE s \in Stages : NothingBefore(s)
  BY DEF EntryStage
<1> HIDE DEF NothingBefore
<1> QED
  BY <1>2, <1>3, <1>4, <1>5 DEF first

-----------------------------------------------------------------------------
\* Every variable keeps its type.

\* What a preview is made of.
LEMMA PreviewTyped ==
  ASSUME NEW i \in Inputs
  PROVE  /\ Synthetic(i.given) \in [Fields -> Values \cup {Blank}]
         /\ \A f \in DOMAIN i.given : f \in Fields /\ i.given[f] \in Values
<1>1. /\ DOMAIN i.given \subseteq Fields
      /\ \A f \in DOMAIN i.given : i.given[f] \in ValuesOf[f]
  BY InputsAssumption DEF FieldsOf, Fields
<1>2. \A f \in Fields : ValuesOf[f] \subseteq Values
  BY DEF Values
<1>3. \A f \in DOMAIN i.given : f \in Fields /\ i.given[f] \in Values
  BY <1>1, <1>2
<1> QED
  BY <1>3 DEF Synthetic

LEMMA ValuesHold ==
  /\ Owners \subseteq Values /\ Currencies \subseteq Values
  /\ Pipelines \subseteq Values /\ Stages \subseteq Values
<1>1. /\ ValuesOf["owner_id"] = Owners /\ ValuesOf["currency"] = Currencies
      /\ ValuesOf["pipeline_id"] = Pipelines /\ ValuesOf["stage_id"] = Stages
  BY DEF ValuesOf
<1>2. \A f \in Fields : ValuesOf[f] \subseteq Values
  BY DEF Values
<1> QED
  BY <1>1, <1>2 DEF Fields

\* Hearing keeps a preview one.
LEMMA HearTyped ==
  ASSUME TypeOK, NEW c \in Calls, NEW answer \in Heard \ {"none"}, Hear(c, answer)
  PROVE  /\ shown' \in [Calls -> [Fields -> Values \cup {Blank}]]
         /\ heard' \in [Calls -> Heard]
<1>1. answer \in Errors \/ answer \in Currencies
  BY DEF Heard
<1>2. ASSUME answer \in Currencies, NEW k
      PROVE  FillUser(k, shown[c], answer) \in [Fields -> Values \cup {Blank}]
  <2>1. shown[c] \in [Fields -> Values \cup {Blank}]
    BY DEF TypeOK
  <2>2. Me \in Values /\ answer \in Values
    BY <1>2, ValuesHold, DefaultsAssumption
  <2> QED
    BY <2>1, <2>2 DEF FillUser, Fields
<1>3. shown' \in [Calls -> [Fields -> Values \cup {Blank}]]
  <2>1. CASE answer \in Errors \/ input[c].kind = "whoami"
    BY <2>1 DEF Hear, TypeOK
  <2>2. CASE ~(answer \in Errors \/ input[c].kind = "whoami")
    <3>1. shown' = [shown EXCEPT ![c] = FillUser(input[c].kind, shown[c], answer)]
      BY <2>2 DEF Hear
    <3>2. FillUser(input[c].kind, shown[c], answer) \in [Fields -> Values \cup {Blank}]
      BY <1>1, <1>2, <2>2
    <3> QED
      BY <3>1, <3>2 DEF TypeOK
  <2> QED
    BY <2>1, <2>2
<1> QED
  BY <1>3 DEF Hear, TypeOK

LEMMA TypedInit == Init => TypeOK
<1> SUFFICES ASSUME Init PROVE TypeOK
  OBVIOUS
<1>1. Empty \in [Fields -> Values \cup {Blank}]
  BY DEF Empty
<1>2. 0 \in 0 .. MaxEdits /\ 0 \in 0 .. 0
  BY MaxEditsAssumption
<1>3. \A c \in Calls : pc[c] = "asking" <=> lock = c
  BY NobodyAssumption DEF Init
<1> QED
  BY <1>1, <1>2, <1>3 DEF Init, TypeOK, Write!Init, Heard

LEMMA TypedNext == TypeOK /\ MemoInv' /\ [Next]_vars => TypeOK'
<1> SUFFICES ASSUME TypeOK, MemoInv', [Next]_vars PROVE TypeOK'
  OBVIOUS
<1> DEFINE Shape == [Fields -> Values \cup {Blank}]
<1>1. /\ memo' \in Heard /\ asked' \subseteq Calls /\ pc' \in [Calls -> Labels]
      /\ ctx' \in [Calls -> {"live", "ended"}] /\ heard' \in [Calls -> Heard]
      /\ \A c \in Calls : pc'[c] = "asking" <=> lock' = c
  BY DEF MemoInv, MemoTyped, Held
<1> DEFINE Rest ==
  /\ floor' \in BOOLEAN /\ currency' \in Currencies /\ stages' \in Orderings
  /\ edits' \in 0 .. MaxEdits /\ lock' \in Calls \cup {Nobody}
  /\ input' \in [Calls -> Inputs \cup {NoInput}] /\ dry' \in [Calls -> BOOLEAN]
  /\ shown' \in [Calls -> Shape]
  /\ effect' \in [Calls -> {"open", "made", "void"}]
  /\ verdict' \in [Calls -> {"none", "ok", "no", "maybe"}]
  /\ stored' \in [Calls -> Shape] /\ memoAt' \in 0 .. edits'
  /\ stagesAt' \in [Calls -> SUBSET (0 .. edits')] /\ unread' \subseteq Calls
  /\ madeAt' \in [Calls -> 0 .. edits']
<1>2. edits \in Nat /\ edits \in 0 .. edits
  BY MaxEditsAssumption DEF TypeOK
<1>3. ASSUME NEW c \in Calls, NEW i \in Inputs, Call(c, i) PROVE Rest
  <2>1. /\ input' = [input EXCEPT ![c] = i] /\ dry' = [dry EXCEPT ![c] = EffectiveDryRun(i)]
        /\ shown' = shown \/ shown' = [shown EXCEPT ![c] = Synthetic(i.given)]
        /\ UNCHANGED <<defaultVars, memoVars, floor, writeVars, stagesVars>>
    BY <1>3 DEF Call
  <2>2. EffectiveDryRun(i) \in BOOLEAN
    BY InputsAssumption DEF EffectiveDryRun, TypeOK
  <2>3. Synthetic(i.given) \in Shape
    BY PreviewTyped
  <2> QED
    BY <2>1, <2>2, <2>3 DEF TypeOK, defaultVars, memoVars, writeVars, stagesVars
<1>4. ASSUME NEW c \in Calls, Lock(c) PROVE Rest
  <2>1. /\ lock' \in Calls \cup {Nobody}
        /\ UNCHANGED <<defaultVars, memoAt, inputVars, writeVars, stagesVars>>
    BY <1>4 DEF Lock, TypeOK
  <2>2. shown' \in [Calls -> Shape]
    <3>1. CASE memo # "none"
      BY <1>4, <3>1, HearTyped DEF Lock, TypeOK
    <3>2. CASE memo = "none"
      BY <1>4, <3>2 DEF Lock, TypeOK
    <3> QED
      BY <3>1, <3>2
  <2> QED
    BY <2>1, <2>2 DEF TypeOK, defaultVars, inputVars, writeVars, stagesVars
<1>5. ASSUME NEW c \in Calls, Answered(c) \/ Failed(c) PROVE Rest
  <2>1. /\ lock' = Nobody /\ (memoAt' = edits \/ memoAt' = memoAt)
        /\ UNCHANGED <<defaultVars, inputVars, writeVars, stagesVars>>
    BY <1>5 DEF Answered, Failed
  <2>2. \E answer \in Heard \ {"none"} : Hear(c, answer)
    <3>1. CASE Answered(c)
      BY <3>1, CurrencyHeard DEF Answered, TypeOK
    <3>2. CASE Failed(c)
      BY <3>2 DEF Failed, Heard, Errors
    <3> QED
      BY <1>5, <3>1, <3>2
  <2>3. shown' \in [Calls -> Shape]
    BY <2>2, HearTyped
  <2> QED
    BY <1>2, <2>1, <2>3 DEF TypeOK, defaultVars, inputVars, writeVars, stagesVars
<1>6. ASSUME NEW c \in Calls, StagesRead(c) \/ StagesUnread(c) PROVE Rest
  <2>1. UNCHANGED <<defaultVars, memoVars, inputVars, writeVars>> /\ unread' \subseteq Calls
    BY <1>6 DEF StagesRead, StagesUnread, stagesVars, TypeOK
  <2>2. stagesAt' \in [Calls -> SUBSET (0 .. edits)]
    BY <1>2, <1>6 DEF StagesRead, StagesUnread, TypeOK
  <2>3. shown' \in [Calls -> Shape]
    <3>1. FirstStage(stages) \in Values
      BY FirstStageIs, ValuesHold DEF TypeOK
    <3>2. [shown[c] EXCEPT !.stage_id = FirstStage(stages)] \in Shape
      BY <3>1 DEF TypeOK
    <3> QED
      BY <1>6, <3>2 DEF StagesRead, StagesUnread, TypeOK
  <2> QED
    BY <2>1, <2>2, <2>3 DEF TypeOK, defaultVars, memoVars, inputVars, writeVars
<1>7. ASSUME NEW c \in Calls,
             Created(c) \/ NotCreated(c) \/ ContextEnds(c) \/ Lapse(c)
      PROVE Rest
  <2>1. UNCHANGED <<defaultVars, memoVars, inputVars, shown, stored, madeAt, stagesVars>>
    BY <1>7 DEF Created, NotCreated, ContextEnds, Lapse, writeVars
  <2>2. /\ effect' \in [Calls -> {"open", "made", "void"}]
        /\ verdict' \in [Calls -> {"none", "ok", "no", "maybe"}]
    BY <1>7 DEF Created, NotCreated, ContextEnds, Lapse, writeVars, TypeOK,
                Write!TellOk, Write!TellNo, Write!TellMaybe, Write!Expire
  <2> QED
    BY <2>1, <2>2 DEF TypeOK, defaultVars, memoVars, inputVars, stagesVars
<1>8. ASSUME NEW c \in Calls, Make(c) PROVE Rest
  <2>1. UNCHANGED <<defaultVars, memoVars, inputVars, shown, stagesVars, verdict>>
    BY <1>8 DEF Make, Write!Make
  <2>2. effect' \in [Calls -> {"open", "made", "void"}]
    BY <1>8 DEF Make, Write!Make, TypeOK
  <2>3. madeAt' \in [Calls -> 0 .. edits]
    BY <1>2, <1>8 DEF Make, TypeOK
  <2>4. \A f \in Fields : Default(f, input[c].given) \in Values
    BY EntryIsFirst, FirstStageIs, ValuesHold, DefaultsAssumption
    DEF Default, Fields, TypeOK
  <2>5. \A f \in DOMAIN input[c].given : input[c].given[f] \in Values
    <3>1. CASE input[c] \in Inputs
      BY <3>1, PreviewTyped
    <3>2. CASE input[c] = NoInput
      BY <3>2 DEF NoInput
    <3> QED
      BY <3>1, <3>2 DEF TypeOK
  <2>6. stored' \in [Calls -> Shape]
    BY <1>8, <2>4, <2>5 DEF Make, TypeOK
  <2> QED
    BY <2>1, <2>2, <2>3, <2>6 DEF TypeOK, defaultVars, memoVars, inputVars, stagesVars
<1>9. ASSUME Edit PROVE Rest
  <2>1. /\ edits' = edits + 1 /\ edits' \in 0 .. MaxEdits
        /\ currency' \in Currencies /\ stages' \in Orderings
    BY <1>2, <1>9, MaxEditsAssumption DEF Edit, TypeOK
  <2>2. 0 .. edits \subseteq 0 .. edits'
    BY <1>2, <2>1
  <2>3. UNCHANGED <<memoVars, inputVars, shown, writeVars, stagesVars>>
    BY <1>9 DEF Edit
  <2>4. memoAt' \in 0 .. edits'
    BY <2>2, <2>3 DEF TypeOK, memoVars
  <2>5. stagesAt' \in [Calls -> SUBSET (0 .. edits')]
    <3>1. SUBSET (0 .. edits) \subseteq SUBSET (0 .. edits')
      BY <2>2
    <3>2. stagesAt' = stagesAt /\ stagesAt \in [Calls -> SUBSET (0 .. edits)]
      BY <2>3 DEF TypeOK, stagesVars
    <3> HIDE <2>1, <2>2
    <3> QED
      BY <3>1, <3>2, Zenon
  <2>6. madeAt' \in [Calls -> 0 .. edits']
    BY <2>2, <2>3 DEF TypeOK, writeVars
  <2>7. /\ lock' \in Calls \cup {Nobody} /\ unread' \subseteq Calls
        /\ shown' \in [Calls -> Shape] /\ stored' \in [Calls -> Shape]
        /\ effect' \in [Calls -> {"open", "made", "void"}]
        /\ verdict' \in [Calls -> {"none", "ok", "no", "maybe"}]
    BY <2>3 DEF TypeOK, memoVars, writeVars, stagesVars
  <2>8. /\ floor' \in BOOLEAN
        /\ input' \in [Calls -> Inputs \cup {NoInput}] /\ dry' \in [Calls -> BOOLEAN]
    BY <2>3 DEF TypeOK, inputVars
  <2> QED
    BY <2>1, <2>4, <2>5, <2>6, <2>7, <2>8, Zenon
<1>10. ASSUME UNCHANGED vars PROVE Rest
  BY <1>10 DEF vars, TypeOK, defaultVars, memoVars, inputVars, writeVars, stagesVars
<1> HIDE DEF Rest
<1>11. ASSUME NEW c \in Calls, Step(c) PROVE Rest
  BY <1>3, <1>4, <1>5, <1>6, <1>7, <1>8, <1>11, Zenon DEF Step, Proceed
<1>12. Rest
  BY <1>9, <1>10, <1>11, Zenon DEF Next
<1> QED
  BY <1>1, <1>12, Zenon DEF Rest, TypeOK, Labels

\* Every variable of a create and of its rehearsal holds a value of its kind, and
\* only a call that is asking holds the mutex (users.go, meMu).
THEOREM Typing == Spec => []TypeOK
  BY MemoInit, MemoNext, TypedInit, TypedNext, PTL DEF Spec

-----------------------------------------------------------------------------
\* A rehearsal shows what is made of the same input.

\* What the fills leave under a field, the stage they read aside, when WhoAmI
\* said h.
Filled(i, h, f) ==
  IF f \in DOMAIN i.given THEN i.given[f]
  ELSE IF h \notin Currencies THEN Blank
  ELSE IF f = "owner_id" THEN Me
  ELSE IF f = "currency" /\ i.kind = "deal" THEN h
  ELSE Blank

LacksCurrency(i) == i.kind = "deal" /\ "currency" \notin DOMAIN i.given
LacksStage(i) ==
  i.kind = "deal" /\ "stage_id" \notin DOMAIN i.given /\ "pipeline_id" \in DOMAIN i.given

\* No trace of a call before it is made, nor of an answer before it is heard.
Untouched == \A c \in Calls :
  /\ pc[c] = "idle" => /\ shown[c] = Empty /\ ~ dry[c] /\ heard[c] = "none"
                       /\ effect[c] = "open" /\ verdict[c] = "none"
  /\ pc[c] # "done" => stagesAt[c] = {} /\ c \notin unread
  /\ pc[c] \in {"whoami", "asking"} => heard[c] = "none"
  /\ input[c].kind = "whoami" => shown[c] = Empty /\ pc[c] \notin {"stages", "create"}

\* A rehearsal never comes to write.
Unwritten == \A c \in Calls :
  dry[c] => pc[c] # "create" /\ effect[c] = "open" /\ verdict[c] = "none"

\* What a preview tells of where its call has been.
Preview(c) ==
  /\ \A f \in Fields : (f = "stage_id" => stagesAt[c] = {}) =>
       shown[c][f] = Filled(input[c], heard[c], f)
  /\ stagesAt[c] # {} \/ pc[c] = "stages" => LacksStage(input[c])
  /\ pc[c] = "done" /\ LacksStage(input[c]) => (stagesAt[c] = {} <=> c \in unread)
  /\ pc[c] \in {"stages", "done"} /\ heard[c] = "none" =>
       "owner_id" \in DOMAIN input[c].given /\ ~ LacksCurrency(input[c])

Rehearses(c) == dry[c] /\ input[c].kind # "whoami"

Foreseen == \A c \in Calls :
  Rehearses(c) => (pc[c] = "done" /\ shown[c] = Empty) \/ Preview(c)

\* What was made of an input and, while no default has changed since, of the
\* defaults there are.
Kept == \A d \in Calls : effect[d] = "made" =>
  /\ \A f \in FieldsOf(input[d].kind) \cap DOMAIN input[d].given :
       stored[d][f] = input[d].given[f]
  /\ "owner_id" \notin DOMAIN input[d].given => stored[d].owner_id = Me
  /\ madeAt[d] = edits =>
       /\ LacksCurrency(input[d]) => stored[d].currency = currency
       /\ LacksStage(input[d]) => stored[d].stage_id = FirstStage(stages)

\* What was read, while no default has changed since.
CurrentUser == memo \in Currencies /\ memoAt = edits => memo = currency
CurrentStage == \A c \in Calls :
  edits \in stagesAt[c] => shown[c].stage_id = FirstStage(stages)

\* What was read and what was made between the same two changes.
SameCurrency == \A d \in Calls :
  effect[d] = "made" /\ LacksCurrency(input[d]) /\ memo \in Currencies /\ memoAt = madeAt[d]
    => stored[d].currency = memo
SameStage == \A c, d \in Calls :
  effect[d] = "made" /\ LacksStage(input[d]) /\ madeAt[d] \in stagesAt[c]
    => stored[d].stage_id = shown[c].stage_id

Shows == Untouched /\ Unwritten /\ Foreseen
Agrees == Kept /\ CurrentUser /\ CurrentStage /\ SameCurrency /\ SameStage
Foresight == Shows /\ Agrees

\* A field that was given is not blank.
LEMMA GivenValue ==
  ASSUME NEW i \in Inputs, NEW f \in DOMAIN i.given
  PROVE  f \in Fields /\ i.given[f] # Blank
  BY PreviewTyped, BlankAssumption

\* A call that is no whoami came with an input.
LEMMA HasInput ==
  ASSUME TypeOK, NEW c \in Calls, input[c].kind # "whoami"
  PROVE  input[c] \in Inputs
  BY DEF TypeOK, NoInput

\* The record to create is the preview before WhoAmI.
LEMMA SyntheticFilled ==
  ASSUME NEW i \in Inputs, NEW h, h \notin Currencies
  PROVE  \A f \in Fields : Synthetic(i.given)[f] = Filled(i, h, f)
  BY DEF Synthetic, Filled

\* What each fill reads for is what the input lacks.
LEMMA StagesNeeded ==
  ASSUME NEW i \in Inputs, NEW h, NEW r, \A f \in Fields : r[f] = Filled(i, h, f)
  PROVE  NeedsStages(i.kind, r) <=> LacksStage(i)
<1>1. r.stage_id = Filled(i, h, "stage_id") /\ r.pipeline_id = Filled(i, h, "pipeline_id")
  BY DEF Fields
<1> QED
  BY <1>1, GivenValue DEF NeedsStages, LacksStage, Filled

LEMMA UserNeeded ==
  ASSUME NEW i \in Inputs, NEW r, NEW h, h \notin Currencies,
         \A f \in Fields : r[f] = Filled(i, h, f)
  PROVE  NeedsUser(i.kind, r) <=> "owner_id" \notin DOMAIN i.given \/ LacksCurrency(i)
<1>1. r.owner_id = Filled(i, h, "owner_id") /\ r.currency = Filled(i, h, "currency")
  BY DEF Fields
<1> QED
  BY <1>1, GivenValue DEF NeedsUser, LacksCurrency, Filled

\* The user's part fills what was not given, and an error fills nothing.
LEMMA UserFilled ==
  ASSUME NEW i \in Inputs, NEW h, h \notin Currencies, NEW answer \in Currencies,
         NEW r \in [Fields -> Values \cup {Blank}], \A f \in Fields : r[f] = Filled(i, h, f)
  PROVE  \A f \in Fields : FillUser(i.kind, r, answer)[f] = Filled(i, answer, f)
<1> DEFINE s == FillUser(i.kind, r, answer)
<1>1. /\ s.owner_id = IF r.owner_id = Blank THEN Me ELSE r.owner_id
      /\ s.currency = IF i.kind = "deal" /\ r.currency = Blank THEN answer ELSE r.currency
      /\ s.pipeline_id = r.pipeline_id /\ s.stage_id = r.stage_id
  BY DEF FillUser, Fields
<1>2. /\ r.owner_id = Filled(i, h, "owner_id") /\ r.currency = Filled(i, h, "currency")
      /\ r.pipeline_id = Filled(i, h, "pipeline_id") /\ r.stage_id = Filled(i, h, "stage_id")
  BY DEF Fields
<1> HIDE DEF s
<1>3. /\ s.owner_id = Filled(i, answer, "owner_id")
      /\ s.currency = Filled(i, answer, "currency")
      /\ s.pipeline_id = Filled(i, answer, "pipeline_id")
      /\ s.stage_id = Filled(i, answer, "stage_id")
  BY <1>1, <1>2, GivenValue DEF Filled
<1>4. \A f \in Fields : s[f] = Filled(i, answer, f)
  BY <1>3 DEF Fields
<1> QED
  BY <1>4 DEF s

LEMMA ErrorFills ==
  ASSUME NEW i, NEW h, h \notin Currencies, NEW g, g \notin Currencies, NEW f
  PROVE  Filled(i, h, f) = Filled(i, g, f)
  BY DEF Filled

\* What a step that makes no record and reads no stages leaves in agreement.
LEMMA FrameAgrees ==
  ASSUME Agrees, UNCHANGED <<defaultVars, stored, madeAt, stagesAt>>,
         \A d \in Calls : effect'[d] = "made" => effect[d] = "made" /\ input'[d] = input[d],
         \A d \in Calls : stagesAt[d] # {} => shown'[d] = shown[d]
  PROVE  /\ Kept' /\ CurrentStage' /\ SameStage'
         /\ UNCHANGED <<memo, memoAt>> => CurrentUser' /\ SameCurrency'
<1>1. UNCHANGED <<currency, stages, edits, stored, madeAt, stagesAt>>
  BY DEF defaultVars
<1>2. Kept'
  BY <1>1 DEF Agrees, Kept
<1>3. CurrentStage'
  BY <1>1 DEF Agrees, CurrentStage
<1>4. SameStage'
  <2> SUFFICES ASSUME NEW c \in Calls, NEW d \in Calls, effect'[d] = "made",
                      LacksStage(input'[d]), madeAt'[d] \in stagesAt'[c]
               PROVE  stored'[d].stage_id = shown'[c].stage_id
    BY DEF SameStage
  <2> QED
    BY <1>1 DEF Agrees, SameStage
<1>5. UNCHANGED <<memo, memoAt>> => CurrentUser' /\ SameCurrency'
  BY <1>1 DEF Agrees, CurrentUser, SameCurrency
<1> QED
  BY <1>2, <1>3, <1>4, <1>5

\* What only a step of one call c disturbs of the previews.
LEMMA OthersForeseen ==
  ASSUME Shows, NEW c \in Calls,
         \A d \in Calls \ {c} :
           /\ pc'[d] = pc[d] /\ shown'[d] = shown[d] /\ heard'[d] = heard[d]
           /\ input'[d] = input[d] /\ dry'[d] = dry[d] /\ effect'[d] = effect[d]
           /\ verdict'[d] = verdict[d] /\ stagesAt'[d] = stagesAt[d]
           /\ d \in unread' <=> d \in unread,
         /\ pc'[c] # "idle"
         /\ pc'[c] # "done" => stagesAt'[c] = {} /\ c \notin unread'
         /\ pc'[c] \in {"whoami", "asking"} => heard'[c] = "none"
         /\ input'[c].kind = "whoami" => shown'[c] = Empty /\ pc'[c] \notin {"stages", "create"},
         dry'[c] => pc'[c] # "create" /\ effect'[c] = "open" /\ verdict'[c] = "none",
         Rehearses(c)' => ((pc[c] = "done" /\ shown[c] = Empty) \/ Preview(c))'
  PROVE  Shows'
<1>1. Untouched'
  BY DEF Shows, Untouched
<1>2. Unwritten'
  BY DEF Shows, Unwritten
<1>3. ASSUME NEW d \in Calls, d # c, Rehearses(d)'
      PROVE  ((pc[d] = "done" /\ shown[d] = Empty) \/ Preview(d))'
  <2>1. (pc[d] = "done" /\ shown[d] = Empty) \/ Preview(d)
    BY <1>3 DEF Shows, Foreseen, Rehearses
  <2> QED
    BY <1>3, <2>1 DEF Preview
<1>4. Foreseen'
  BY <1>3 DEF Foreseen
<1> QED
  BY <1>1, <1>2, <1>4 DEF Shows

\* Hearing from WhoAmI fills the preview, which then lacks no more than stages.
LEMMA HearForesees ==
  ASSUME TypeOK, MemoInv, Shows, NEW c \in Calls, pc[c] \in {"whoami", "asking"},
         NEW answer \in Heard \ {"none"}, Hear(c, answer),
         UNCHANGED <<inputVars, writeVars, stagesVars>>
  PROVE  Shows'
<1>1. /\ pc'[c] \in {"stages", "done"} /\ heard'[c] = answer
      /\ \A d \in Calls : d # c => pc'[d] = pc[d] /\ heard'[d] = heard[d]
  BY HearMoves DEF MemoInv
<1>2. /\ \A d \in Calls : d # c => shown'[d] = shown[d]
      /\ input[c].kind = "whoami" \/ answer \in Errors => shown'[c] = shown[c]
      /\ input[c].kind # "whoami" /\ answer \notin Errors =>
           shown'[c] = FillUser(input[c].kind, shown[c], answer)
      /\ pc'[c] = AfterUser(input[c].kind, shown'[c])
  BY DEF Hear, Goto, TypeOK
<1>3. UNCHANGED <<input, dry, effect, verdict, stagesAt, unread>>
  BY DEF inputVars, writeVars, stagesVars
<1>4. heard[c] = "none" /\ stagesAt[c] = {} /\ c \notin unread
  BY DEF Shows, Untouched
<1>5. ASSUME Rehearses(c)' PROVE Preview(c)'
  <2> DEFINE i == input[c]
  <2>1. i \in Inputs /\ i.kind # "whoami"
    BY <1>3, <1>5, HasInput DEF Rehearses
  <2>2. Preview(c)
    BY <1>3, <1>5 DEF Shows, Foreseen, Rehearses
  <2>3. "none" \notin Currencies
    BY CurrenciesAssumption
  <2>4. \A f \in Fields : shown[c][f] = Filled(i, "none", f)
    BY <1>4, <2>2 DEF Preview
  <2>5. \A f \in Fields : shown'[c][f] = Filled(i, answer, f)
    <3>1. CASE answer \in Errors
      <4>1. answer \notin Currencies /\ shown'[c] = shown[c]
        BY <1>2, <3>1, CurrencyHeard
      <4> QED
        BY <2>3, <2>4, <4>1, ErrorFills
    <3>2. CASE answer \notin Errors
      <4>1. answer \in Currencies
        BY <3>2 DEF Heard
      <4>2. shown'[c] = FillUser(i.kind, shown[c], answer)
        BY <1>2, <2>1, <3>2
      <4>3. shown[c] \in [Fields -> Values \cup {Blank}]
        BY DEF TypeOK
      <4>4. \A f \in Fields : FillUser(i.kind, shown[c], answer)[f] = Filled(i, answer, f)
        BY <2>1, <2>3, <2>4, <4>1, <4>3, UserFilled
      <4> QED
        BY <4>2, <4>4
    <3> QED
      BY <3>1, <3>2
  <2>6. pc'[c] = IF LacksStage(i) THEN "stages" ELSE "done"
    <3>1. NeedsStages(i.kind, shown'[c]) <=> LacksStage(i)
      BY <2>1, <2>5, StagesNeeded
    <3> QED
      BY <1>2, <2>1, <3>1 DEF AfterUser
  <2> QED
    BY <1>1, <1>3, <1>4, <2>5, <2>6 DEF Preview
<1>6. /\ pc'[c] # "done" => stagesAt'[c] = {} /\ c \notin unread'
      /\ input'[c].kind = "whoami" => shown'[c] = Empty /\ pc'[c] # "stages"
  BY <1>1, <1>2, <1>3, <1>4 DEF Shows, Untouched, AfterUser
<1>7. dry'[c] => effect'[c] = "open" /\ verdict'[c] = "none"
  BY <1>3 DEF Shows, Unwritten
<1> QED
  BY <1>1, <1>2, <1>3, <1>5, <1>6, <1>7, OthersForeseen

-----------------------------------------------------------------------------
LEMMA CallForesees ==
  ASSUME TypeOK, Foresight, NEW c \in Calls, NEW i \in Inputs, Call(c, i)
  PROVE  Foresight'
<1> DEFINE start == Synthetic(i.given)
<1>1. /\ pc[c] = "idle" /\ shown[c] = Empty /\ heard[c] = "none" /\ effect[c] = "open"
      /\ verdict[c] = "none" /\ stagesAt[c] = {} /\ c \notin unread
  BY DEF Call, Foresight, Shows, Untouched
<1>2. /\ input' = [input EXCEPT ![c] = i]
      /\ UNCHANGED <<heard, effect, verdict, stored, madeAt, stagesAt, unread, memo, memoAt>>
      /\ UNCHANGED <<defaultVars, memo>>
  BY DEF Call, writeVars, stagesVars, memoVars
<1>3. input'[c] = i /\ dry'[c] = EffectiveDryRun(i) /\ (\A d \in Calls \ {c} :
        /\ pc'[d] = pc[d] /\ shown'[d] = shown[d]
        /\ input'[d] = input[d] /\ dry'[d] = dry[d])
  BY DEF Call, Goto, TypeOK
<1>4. \/ i.kind = "whoami" /\ pc'[c] = "whoami" /\ shown'[c] = Empty
      \/ i.kind # "whoami" /\ pc'[c] = "done" /\ shown'[c] = Empty
      \/ /\ i.kind # "whoami" /\ shown'[c] = start
         /\ pc'[c] = IF ~ EffectiveDryRun(i) THEN "create"
                     ELSE IF NeedsUser(i.kind, start) THEN "whoami"
                     ELSE AfterUser(i.kind, start)
  BY <1>1 DEF Call, Goto, TypeOK
<1> HIDE DEF start
<1>5. pc'[c] \in Labels \ {"idle", "asking"} /\ (dry'[c] => pc'[c] # "create")
      /\ (i.kind = "whoami" => shown'[c] = Empty /\ pc'[c] \notin {"stages", "create"})
  BY <1>3, <1>4, AfterUserLabel DEF Labels
<1>6. ASSUME Rehearses(c)', shown'[c] = start,
             pc'[c] = IF NeedsUser(i.kind, start) THEN "whoami" ELSE AfterUser(i.kind, start)
      PROVE  Preview(c)'
  <2>1. "none" \notin Currencies
    BY CurrenciesAssumption
  <2>2. \A f \in Fields : start[f] = Filled(i, "none", f)
    BY <2>1, SyntheticFilled DEF start
  <2>3. NeedsStages(i.kind, start) <=> LacksStage(i)
    BY <2>2, StagesNeeded
  <2>4. NeedsUser(i.kind, start) <=> "owner_id" \notin DOMAIN i.given \/ LacksCurrency(i)
    BY <2>1, <2>2, UserNeeded
  <2>5. i.kind # "whoami"
    BY <1>3, <1>6 DEF Rehearses
  <2> QED
    BY <1>1, <1>2, <1>3, <1>6, <2>2, <2>3, <2>4, <2>5 DEF Preview, AfterUser
<1>7. Rehearses(c)' => ((pc[c] = "done" /\ shown[c] = Empty) \/ Preview(c))'
  BY <1>3, <1>4, <1>6 DEF Rehearses
<1>8. Shows'
  BY <1>1, <1>2, <1>3, <1>5, <1>7, OthersForeseen DEF Foresight
<1>9. Agrees'
  BY <1>1, <1>2, <1>3, FrameAgrees DEF Foresight, Agrees
<1> QED
  BY <1>8, <1>9 DEF Foresight

LEMMA LockForesees ==
  ASSUME TypeOK, MemoInv, Foresight, NEW c \in Calls, Lock(c)
  PROVE  Foresight'
<1>1. /\ pc[c] = "whoami" /\ stagesAt[c] = {} /\ c \notin unread /\ heard[c] = "none"
      /\ UNCHANGED <<defaultVars, memo, memoAt, inputVars, writeVars, stagesVars>>
  BY DEF Lock, Foresight, Shows, Untouched
<1>2. CASE memo # "none"
  <2>1. Hear(c, memo) /\ memo \in Heard \ {"none"}
    BY <1>2 DEF Lock, TypeOK
  <2>2. Shows'
    BY <1>1, <2>1, HearForesees DEF Foresight
  <2>3. \A d \in Calls : stagesAt[d] # {} => shown'[d] = shown[d]
    BY <1>1, <2>1 DEF Hear, TypeOK
  <2>4. Agrees'
    BY <1>1, <2>3, FrameAgrees DEF Foresight, Agrees, inputVars, writeVars, stagesVars
  <2> QED
    BY <2>2, <2>4 DEF Foresight
<1>3. CASE memo = "none"
  <2>1. /\ pc' = [pc EXCEPT ![c] = "asking"] /\ UNCHANGED <<heard, shown>>
        /\ UNCHANGED <<input, dry, effect, verdict, stored, madeAt, stagesAt, unread>>
    BY <1>1, <1>3 DEF Lock, Goto, inputVars, writeVars, stagesVars
  <2>2. pc'[c] = "asking" /\ \A d \in Calls \ {c} : pc'[d] = pc[d]
    BY <2>1 DEF TypeOK
  <2>3. Rehearses(c)' => Preview(c)'
    BY <1>1, <2>1, <2>2 DEF Foresight, Shows, Foreseen, Rehearses, Preview
  <2>4. /\ input[c].kind = "whoami" => shown[c] = Empty
        /\ dry[c] => effect[c] = "open" /\ verdict[c] = "none"
    BY DEF Foresight, Shows, Untouched, Unwritten
  <2>5. Shows'
    BY <1>1, <2>1, <2>2, <2>3, <2>4, OthersForeseen DEF Foresight
  <2>6. Agrees'
    BY <1>1, <2>1, FrameAgrees DEF Foresight, Agrees
  <2> QED
    BY <2>5, <2>6 DEF Foresight
<1> QED
  BY <1>2, <1>3

\* The user's currency, read now, is what was made since the last change.
LEMMA AnswerForesees ==
  ASSUME TypeOK, MemoInv, Foresight, NEW c \in Calls, Answered(c) \/ Failed(c)
  PROVE  Foresight'
<1>1. /\ pc[c] = "asking" /\ stagesAt[c] = {}
      /\ UNCHANGED <<defaultVars, inputVars, writeVars, stagesVars>>
  BY DEF Answered, Failed, Foresight, Shows, Untouched
<1>2. UNCHANGED <<input, effect, stored, madeAt, stagesAt, currency, stages, edits>>
  BY <1>1 DEF defaultVars, inputVars, writeVars, stagesVars
<1>3. PICK answer \in Heard \ {"none"} : Hear(c, answer)
  <2>1. CASE Answered(c)
    BY <2>1, CurrencyHeard DEF Answered, TypeOK
  <2>2. CASE Failed(c)
    BY <2>2 DEF Failed, Heard, Errors
  <2> QED
    BY <2>1, <2>2
<1>4. Shows'
  BY <1>1, <1>3, HearForesees DEF Foresight
<1>5. \A d \in Calls : stagesAt[d] # {} => shown'[d] = shown[d]
  BY <1>1, <1>3 DEF Hear, TypeOK
<1>6. /\ Kept' /\ CurrentStage' /\ SameStage'
      /\ UNCHANGED <<memo, memoAt>> => CurrentUser' /\ SameCurrency'
  BY <1>1, <1>2, <1>5, FrameAgrees DEF Foresight
<1>7. CurrentUser' /\ SameCurrency'
  <2>1. CASE memo' = currency /\ memoAt' = edits
    BY <1>2, <1>6, <2>1 DEF CurrentUser, SameCurrency, Kept
  <2>2. CASE memo' \in Errors
    BY <2>2, CurrencyHeard DEF CurrentUser, SameCurrency
  <2>3. CASE memo' = memo /\ memoAt' = memoAt
    BY <1>6, <2>3
  <2> QED
    BY <2>1, <2>2, <2>3 DEF Answered, Failed, Errors
<1> QED
  BY <1>4, <1>6, <1>7 DEF Foresight, Agrees

\* So are the stages.
LEMMA StagesForesee ==
  ASSUME TypeOK, Foresight, NEW c \in Calls, StagesRead(c) \/ StagesUnread(c)
  PROVE  Foresight'
<1>1. /\ pc[c] = "stages" /\ input[c].kind # "whoami"
      /\ stagesAt[c] = {} /\ c \notin unread
      /\ UNCHANGED <<defaultVars, memoVars, inputVars, heard, writeVars>>
  BY DEF StagesRead, StagesUnread, Foresight, Shows, Untouched
<1>2. UNCHANGED <<heard, input, dry, effect, verdict, stored, madeAt, currency, stages, edits,
                  memo, memoAt>>
  BY <1>1 DEF defaultVars, memoVars, inputVars, writeVars
<1>3. /\ pc'[c] = "done"
      /\ \A d \in Calls \ {c} :
           /\ pc'[d] = pc[d] /\ shown'[d] = shown[d] /\ stagesAt'[d] = stagesAt[d]
           /\ d \in unread' <=> d \in unread
  BY DEF StagesRead, StagesUnread, Goto, TypeOK
<1>4. \/ /\ stagesAt'[c] = {edits}
         /\ shown'[c].stage_id = FirstStage(stages)
         /\ \A f \in Fields \ {"stage_id"} : shown'[c][f] = shown[c][f]
         /\ unread' = unread
      \/ /\ stagesAt' = stagesAt /\ shown' = shown /\ c \in unread'
  <2>1. CASE StagesRead(c)
    <3>1. shown[c] \in [Fields -> Values \cup {Blank}] /\ "stage_id" \in Fields
      BY DEF TypeOK, Fields
    <3> QED
      BY <2>1, <3>1 DEF StagesRead, TypeOK
  <2>2. CASE StagesUnread(c)
    BY <2>2 DEF StagesUnread
  <2> QED
    BY <2>1, <2>2
<1>5. Rehearses(c)' => Preview(c)'
  <2>1. Rehearses(c)' => Preview(c)
    BY <1>1, <1>2 DEF Foresight, Shows, Foreseen, Rehearses
  <2> QED
    BY <1>1, <1>2, <1>3, <1>4, <2>1 DEF Preview
<1>6. dry[c] => effect[c] = "open" /\ verdict[c] = "none"
  BY DEF Foresight, Shows, Unwritten
<1>7. Shows'
  <2>1. \A d \in Calls \ {c} :
          /\ pc'[d] = pc[d] /\ shown'[d] = shown[d] /\ heard'[d] = heard[d]
          /\ input'[d] = input[d] /\ dry'[d] = dry[d] /\ effect'[d] = effect[d]
          /\ verdict'[d] = verdict[d] /\ stagesAt'[d] = stagesAt[d]
          /\ d \in unread' <=> d \in unread
    BY <1>2, <1>3
  <2>2. dry'[c] => pc'[c] # "create" /\ effect'[c] = "open" /\ verdict'[c] = "none"
    BY <1>2, <1>3, <1>6
  <2>3. input'[c].kind # "whoami"
    BY <1>1, <1>2
  <2> QED
    BY <1>3, <1>5, <2>1, <2>2, <2>3, OthersForeseen DEF Foresight
<1>8. Kept' /\ CurrentUser' /\ SameCurrency'
  BY <1>2 DEF Foresight, Agrees, Kept, CurrentUser, SameCurrency
<1>9. \A b \in Calls :
        \/ stagesAt'[b] = stagesAt[b] /\ shown'[b] = shown[b]
        \/ stagesAt'[b] = {edits} /\ shown'[b].stage_id = FirstStage(stages)
  <2> TAKE b \in Calls
  <2>1. CASE b = c
    BY <1>4, <2>1
  <2>2. CASE b # c
    BY <1>3, <2>2
  <2> QED
    BY <2>1, <2>2
<1>10. CurrentStage'
  <2> SUFFICES ASSUME NEW b \in Calls, edits' \in stagesAt'[b]
               PROVE  shown'[b].stage_id = FirstStage(stages')
    BY DEF CurrentStage
  <2> QED
    BY <1>2, <1>9 DEF Foresight, Agrees, CurrentStage
<1>11. SameStage'
  <2> SUFFICES ASSUME NEW b \in Calls, NEW d \in Calls, effect'[d] = "made",
                      LacksStage(input'[d]), madeAt'[d] \in stagesAt'[b]
               PROVE  stored'[d].stage_id = shown'[b].stage_id
    BY DEF SameStage
  <2>1. CASE stagesAt'[b] = stagesAt[b] /\ shown'[b] = shown[b]
    BY <1>2, <2>1 DEF Foresight, Agrees, SameStage
  <2>2. CASE stagesAt'[b] = {edits} /\ shown'[b].stage_id = FirstStage(stages)
    BY <1>2, <2>2 DEF Foresight, Agrees, Kept
  <2> QED
    BY <1>9, <2>1, <2>2
<1> QED
  BY <1>7, <1>8, <1>10, <1>11 DEF Foresight, Agrees

\* A create ends, or its last request is gone: no rehearsal comes there.
LEMMA EndForesees ==
  ASSUME TypeOK, Foresight, NEW c \in Calls, Created(c) \/ NotCreated(c) \/ Lapse(c)
  PROVE  Foresight'
<1>1. UNCHANGED <<defaultVars, memoVars, inputVars, shown, heard, stored, madeAt, stagesVars>>
  BY DEF Created, NotCreated, Lapse
<1>2. UNCHANGED <<heard, input, dry, shown, stored, madeAt, stagesAt, unread, memo, memoAt>>
  BY <1>1 DEF memoVars, inputVars, stagesVars
<1>3. /\ pc[c] = "create" \/ verdict[c] = "maybe"
      /\ pc'[c] = "done" \/ pc'[c] = pc[c]
      /\ \A d \in Calls \ {c} :
           pc'[d] = pc[d] /\ effect'[d] = effect[d] /\ verdict'[d] = verdict[d]
      /\ effect'[c] = "made" => effect[c] = "made"
  BY DEF Created, NotCreated, Lapse, Goto, TypeOK,
         Write!TellOk, Write!TellNo, Write!TellMaybe, Write!Expire
<1>4. /\ ~ dry[c] /\ pc[c] # "idle"
      /\ pc[c] # "done" => stagesAt[c] = {} /\ c \notin unread
      /\ pc[c] \in {"whoami", "asking"} => heard[c] = "none"
      /\ input[c].kind = "whoami" => shown[c] = Empty /\ pc[c] \notin {"stages", "create"}
  BY <1>3 DEF Foresight, Shows, Unwritten, Untouched
<1>5. Shows'
  BY <1>2, <1>3, <1>4, OthersForeseen DEF Foresight, Rehearses
<1>6. Agrees'
  BY <1>1, <1>2, <1>3, FrameAgrees DEF Foresight, Agrees
<1> QED
  BY <1>5, <1>6 DEF Foresight

\* What is made holds what was given and the defaults of the moment.
LEMMA MakeForesees ==
  ASSUME TypeOK, Foresight, NEW c \in Calls, Make(c)
  PROVE  Foresight'
<1>1. /\ pc[c] = "create" \/ verdict[c] = "maybe"
      /\ effect' = [effect EXCEPT ![c] = "made"] /\ UNCHANGED verdict
      /\ madeAt' = [madeAt EXCEPT ![c] = edits]
      /\ UNCHANGED <<defaultVars, memoVars, inputVars, pc, ctx, shown, heard, stagesVars>>
  BY DEF Make, Write!Make
<1>2. UNCHANGED <<pc, heard, input, dry, shown, stagesAt, unread, verdict,
                  memo, memoAt, currency, stages, edits>>
  BY <1>1 DEF defaultVars, memoVars, inputVars, stagesVars
<1>3. /\ \A d \in Calls \ {c} :
           effect'[d] = effect[d] /\ stored'[d] = stored[d] /\ madeAt'[d] = madeAt[d]
      /\ madeAt'[c] = edits
  BY DEF Make, Write!Make, TypeOK
<1>4. /\ ~ dry[c] /\ pc[c] # "idle"
      /\ pc[c] # "done" => stagesAt[c] = {} /\ c \notin unread
      /\ pc[c] \in {"whoami", "asking"} => heard[c] = "none"
      /\ input[c].kind = "whoami" => shown[c] = Empty /\ pc[c] \notin {"stages", "create"}
  BY <1>1 DEF Foresight, Shows, Unwritten, Untouched
<1>5. Shows'
  BY <1>2, <1>3, <1>4, OthersForeseen DEF Foresight, Rehearses
<1>6. \A f \in Fields : stored'[c][f] =
        IF f \notin FieldsOf(input[c].kind) THEN Blank
        ELSE IF f \in DOMAIN input[c].given THEN input[c].given[f]
        ELSE Default(f, input[c].given)
  BY DEF Make, TypeOK
<1>7. /\ \A f \in FieldsOf(input[c].kind) \cap DOMAIN input[c].given :
           stored'[c][f] = input[c].given[f]
      /\ "owner_id" \notin DOMAIN input[c].given => stored'[c].owner_id = Me
  BY <1>6 DEF FieldsOf, Fields, Default
<1>8. LacksCurrency(input[c]) => stored'[c].currency = currency
  BY <1>6 DEF FieldsOf, Fields, Default, LacksCurrency
<1>9. LacksStage(input[c]) => stored'[c].stage_id = FirstStage(stages)
  <2>1. EntryStage = FirstStage(stages)
    BY EntryIsFirst DEF TypeOK
  <2> QED
    BY <1>6, <2>1 DEF FieldsOf, Fields, Default, LacksStage
<1>10. Kept'
  BY <1>2, <1>3, <1>7, <1>8, <1>9 DEF Foresight, Agrees, Kept
<1>11. CurrentUser' /\ CurrentStage'
  BY <1>2 DEF Foresight, Agrees, CurrentUser, CurrentStage
<1>12. SameCurrency'
  BY <1>2, <1>3, <1>8 DEF Foresight, Agrees, SameCurrency, CurrentUser
<1>13. SameStage'
  <2> SUFFICES ASSUME NEW b \in Calls, NEW d \in Calls, effect'[d] = "made",
                      LacksStage(input'[d]), madeAt'[d] \in stagesAt'[b]
               PROVE  stored'[d].stage_id = shown'[b].stage_id
    BY DEF SameStage
  <2>1. CASE d = c
    BY <1>2, <1>3, <1>9, <2>1 DEF Foresight, Agrees, CurrentStage
  <2>2. CASE d # c
    BY <1>2, <1>3, <2>2 DEF Foresight, Agrees, SameStage
  <2> QED
    BY <2>1, <2>2
<1> QED
  BY <1>5, <1>10, <1>11, <1>12, <1>13 DEF Foresight, Agrees

\* A change makes all that was read or made the past.
LEMMA EditForesees == ASSUME TypeOK, Foresight, Edit PROVE Foresight'
<1>1. /\ edits' = edits + 1 /\ edits \in Nat
      /\ UNCHANGED <<memoVars, inputVars, pc, ctx, shown, heard, writeVars, stagesVars>>
  BY MaxEditsAssumption DEF Edit, TypeOK
<1>2. UNCHANGED <<pc, heard, input, dry, shown, stagesAt, unread, effect, verdict,
                  stored, madeAt, memo, memoAt>>
  BY <1>1 DEF memoVars, inputVars, writeVars, stagesVars
<1>3. /\ memoAt # edits'
      /\ \A c \in Calls : madeAt[c] # edits' /\ edits' \notin stagesAt[c]
  BY <1>1 DEF TypeOK
<1>4. Shows'
  BY <1>2 DEF Foresight, Shows, Untouched, Unwritten, Foreseen, Rehearses, Preview
<1>5. Kept' /\ CurrentUser' /\ CurrentStage'
  BY <1>2, <1>3 DEF Foresight, Agrees, Kept, CurrentUser, CurrentStage
<1>6. SameCurrency' /\ SameStage'
  BY <1>2 DEF Foresight, Agrees, SameCurrency, SameStage
<1> QED
  BY <1>4, <1>5, <1>6 DEF Foresight, Agrees

\* Giving up tells nobody anything.
LEMMA StillForesees ==
  ASSUME Foresight,
         UNCHANGED <<defaultVars, memo, memoAt, inputVars, pc, shown, heard, writeVars, stagesVars>>
  PROVE  Foresight'
<1>1. UNCHANGED <<pc, heard, input, dry, shown, stagesAt, unread, effect, verdict,
                  stored, madeAt>>
  BY DEF inputVars, writeVars, stagesVars
<1>2. Shows'
  BY <1>1 DEF Foresight, Shows, Untouched, Unwritten, Foreseen, Rehearses, Preview
<1>3. Agrees'
  BY <1>1, FrameAgrees DEF Foresight, Agrees
<1> QED
  BY <1>2, <1>3 DEF Foresight

LEMMA ForesightInit == Init => Foresight
<1> SUFFICES ASSUME Init PROVE Foresight
  OBVIOUS
<1>1. Shows
  BY DEF Init, Write!Init, NoInput, Shows, Untouched, Unwritten, Foreseen, Rehearses
<1>2. Agrees
  BY CurrenciesAssumption
  DEF Init, Write!Init, Agrees, Kept, CurrentUser, CurrentStage, SameCurrency, SameStage
<1> QED
  BY <1>1, <1>2 DEF Foresight

LEMMA ForesightNext == TypeOK /\ MemoInv /\ Foresight /\ [Next]_vars => Foresight'
<1> SUFFICES ASSUME TypeOK, MemoInv, Foresight, [Next]_vars PROVE Foresight'
  OBVIOUS
<1>1. ASSUME NEW c \in Calls, Step(c) PROVE Foresight'
  <2>1. ASSUME ContextEnds(c) PROVE Foresight'
    BY <2>1, StillForesees DEF ContextEnds, memoVars
  <2> QED
    BY <1>1, <2>1, CallForesees, LockForesees, AnswerForesees, StagesForesee, EndForesees,
       MakeForesees, Zenon DEF Step, Proceed
<1>2. CASE UNCHANGED vars
  BY <1>2, StillForesees DEF vars, memoVars
<1> QED
  BY <1>1, <1>2, EditForesees DEF Next

\* Where the previews tell what they do, a rehearsal shows what is made.
LEMMA ForesightShows == TypeOK /\ MemoInv /\ Foresight => RehearsalForetells
<1> SUFFICES ASSUME TypeOK, MemoInv, Foresight, NEW c \in Calls, NEW d \in Calls,
                    pc[c] = "done", dry[c], shown[c] # Empty, effect[d] = "made",
                    input[c].kind = input[d].kind, input[c].given = input[d].given,
                    NEW f \in FieldsOf(input[c].kind)
             PROVE  IF Told(c, f) THEN StillSo(c, d, f) => shown[c][f] = stored[d][f]
                    ELSE shown[c][f] = Blank
  <2>1. Foresight => \A e \in Calls : dry[e] => effect[e] = "open"
    BY DEF Foresight, Shows, Unwritten
  <2> QED
    BY <2>1 DEF RehearsalForetells
<1> DEFINE i == input[c]
<1>1. i.kind # "whoami" /\ i \in Inputs
  BY HasInput DEF Foresight, Shows, Untouched
<1>2. Preview(c)
  BY <1>1 DEF Foresight, Shows, Foreseen, Rehearses
<1>3. /\ LacksCurrency(input[d]) <=> LacksCurrency(i)
      /\ LacksStage(input[d]) <=> LacksStage(i)
  BY DEF LacksCurrency, LacksStage
<1>4. f \in Fields /\ (f \in {"owner_id", "currency", "pipeline_id", "stage_id"})
  BY DEF FieldsOf, Fields
<1>5. heard[c] \in Currencies \/ heard[c] \in Errors \/ heard[c] = "none"
  BY DEF TypeOK, Heard
<1>6. heard[c] \in Currencies => heard[c] \notin Errors
  BY CurrencyHeard
<1>7. "none" \notin Currencies /\ "none" \notin Errors
  BY CurrenciesAssumption DEF Errors
<1>8. stagesAt[c] # {} => LacksStage(i)
  BY <1>2 DEF Preview
<1>9. CASE f \in DOMAIN i.given
  <2>1. shown[c][f] = i.given[f]
    BY <1>2, <1>4, <1>8, <1>9 DEF Preview, Filled, LacksStage
  <2>2. stored[d][f] = i.given[f]
    BY <1>9 DEF Foresight, Agrees, Kept
  <2> QED
    BY <1>9, <2>1, <2>2 DEF Told
<1>10. CASE f = "owner_id" /\ f \notin DOMAIN i.given
  <2>1. heard[c] # "none" /\ shown[c][f] = Filled(i, heard[c], f)
    BY <1>2, <1>4, <1>10 DEF Preview
  <2>2. stored[d][f] = Me
    BY <1>10 DEF Foresight, Agrees, Kept
  <2> QED
    BY <1>5, <1>6, <1>10, <2>1, <2>2, CurrencyHeard DEF Told, Filled
<1>11. CASE f = "currency" /\ f \notin DOMAIN i.given
  <2>1. LacksCurrency(i)
    BY <1>1, <1>11 DEF LacksCurrency, FieldsOf
  <2>2. heard[c] # "none" /\ shown[c][f] = Filled(i, heard[c], f)
    BY <1>2, <1>4, <1>11, <2>1 DEF Preview
  <2>3. CASE heard[c] \in Currencies
    <3>1. heard[c] = memo
      BY <1>6, <1>7, <2>3 DEF MemoInv, HeardMemo, HeardFully
    <3>2. shown[c][f] = memo
      BY <1>11, <2>1, <2>2, <2>3, <3>1 DEF Filled, LacksCurrency
    <3>3. StillSo(c, d, f) => memoAt = madeAt[d]
      BY <1>11 DEF StillSo
    <3> QED
      BY <1>3, <1>6, <1>11, <2>1, <2>3, <3>1, <3>2, <3>3
      DEF Foresight, Agrees, SameCurrency, Told
  <2>4. CASE heard[c] \notin Currencies
    BY <1>5, <1>11, <2>2, <2>4 DEF Filled, Told
  <2> QED
    BY <2>3, <2>4
<1>12. CASE f = "pipeline_id" /\ f \notin DOMAIN i.given
  BY <1>2, <1>4, <1>12 DEF Preview, Filled, Told
<1>13. CASE f = "stage_id" /\ f \notin DOMAIN i.given
  <2>1. i.kind = "deal"
    BY <1>13 DEF FieldsOf
  <2>2. CASE Told(c, f)
    <3>1. LacksStage(i) /\ c \notin unread
      BY <1>13, <2>1, <2>2 DEF Told, LacksStage
    <3>2. stagesAt[c] # {}
      BY <1>2, <3>1 DEF Preview
    <3>3. StillSo(c, d, f) => madeAt[d] \in stagesAt[c]
      BY <1>13, <3>2 DEF StillSo
    <3> QED
      BY <1>3, <1>13, <2>2, <3>1, <3>3 DEF Foresight, Agrees, SameStage
  <2>3. CASE ~ Told(c, f)
    <3>1. stagesAt[c] = {}
      BY <1>2, <1>8, <1>13, <2>1, <2>3 DEF Preview, LacksStage, Told
    <3> QED
      BY <1>2, <1>4, <1>13, <2>3, <3>1 DEF Preview, Filled
  <2> QED
    BY <2>2, <2>3
<1> QED
  BY <1>4, <1>9, <1>10, <1>11, <1>12, <1>13

\* A dry run makes nothing and shows what the same create makes (deals.go,
\* createDealAction, fillDealDefaults): every field the call set or a read could
\* settle, unless its default changed since, and no guess for the others.
THEOREM Foretelling == Spec => []RehearsalForetells
<1>1. TypeOK /\ MemoInv /\ Foresight /\ [Next]_vars => Foresight'
  BY ForesightNext
<1> QED
  BY <1>1, MemoInit, MemoNext, TypedInit, TypedNext, ForesightInit, ForesightShows, PTL DEF Spec
=============================================================================
