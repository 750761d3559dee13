----------------------------- MODULE WriteProofs -----------------------------
(***************************************************************************)
(* A write from end to end: proofs about PipedriveCall, which implements   *)
(* WriteOnce, for any number of calls and attempts, and about ManageRecord,*)
(* whose four tools build on WriteOnce, for any calls, inputs, records,    *)
(* versions and edits made in Pipedrive.                                   *)
(***************************************************************************)
EXTENDS PipedriveCall, ManageRecord,
        SequenceTheorems, NaturalsInduction, WellFoundedInduction, TLAPS

(***************************************************************************)
(*                              PipedriveCall                              *)
(***************************************************************************)
(***************************************************************************)
(* What a write's request can still do, which the safety properties need   *)
(* and do not say: only the current attempt can be on its way, it was not  *)
(* applied while it is, an answer means it is on its way no longer, and    *)
(* what the answer says about the change is true.                          *)
(***************************************************************************)
WriteInv(c) ==
  /\ wire[c] \subseteq {attempt[c]}
  /\ wire[c] # {} => applied[c] = 0
  /\ applied[c] <= 1
  /\ pc[c] \in {"attempt", "sleeping"} => applied[c] = 0 /\ wire[c] = {}
  /\ pc[c] = "reading" => answer[c] # "none"
  /\ (pc[c] \in {"inflight", "reading"} /\ answer[c] # "none") =>
       /\ wire[c] = {}
       /\ answer[c] = "ok" => applied[c] = 1
       /\ answer[c] \in {"limited", "client"} => applied[c] = 0
  /\ pc[c] = "done" <=> result[c] # "none"
  /\ result[c] = "ok" => applied[c] = 1
  /\ result[c] \in {"refused", "dial", "encode"} => applied[c] = 0 /\ wire[c] = {}

\* exec sleeps only while an attempt is left, so the loop variable it wakes
\* up to is within the budget.
SleeperHasAttemptLeft == \A c \in Calls : pc[c] = "sleeping" => HasAttemptLeft(c)

TypeInv == TypeOK /\ SleeperHasAttemptLeft

IInv == TypeInv /\ \A c \in Writes : WriteInv(c)

-----------------------------------------------------------------------------
(***************************************************************************)
(* Typing.                                                                 *)
(***************************************************************************)
LEMMA InitTypeInv == Init => TypeInv
BY MaxAttemptsAssumption
DEF Init, TypeInv, TypeOK, SleeperHasAttemptLeft, Results, Statuses

\* Going to sleep and returning, the two ways attempt ends.
LEMMA OutcomeTyped ==
  ASSUME TypeInv, NEW c \in Calls, UNCHANGED attempt,
         \/ Sleep(c) /\ HasAttemptLeft(c)
         \/ \E r \in Results : Return(c, r)
  PROVE  /\ pc' \in [Calls -> {"attempt", "inflight", "reading", "sleeping", "done"}]
         /\ result' \in [Calls -> Results]
         /\ SleeperHasAttemptLeft'
BY DEF TypeInv, TypeOK, SleeperHasAttemptLeft, HasAttemptLeft, Sleep, Return

LEMMA NetworkErrorOutcome ==
  ASSUME NEW c \in Calls, NEW fault, NetworkError(c, fault)
  PROVE  \/ Sleep(c) /\ HasAttemptLeft(c)
         \/ \E r \in Results : Return(c, r)
BY DEF NetworkError, Results

LEMMA AnsweredOutcome ==
  ASSUME NEW c \in Calls, NEW status, Answered(c, status)
  PROVE  \/ Sleep(c) /\ HasAttemptLeft(c)
         \/ \E r \in Results : Return(c, r)
BY DEF Answered, Results

LEMMA NextTypeInv == TypeInv /\ [Next]_vars => TypeInv'
<1> SUFFICES ASSUME TypeInv, [Next]_vars PROVE TypeInv'
  OBVIOUS
<1> USE DEF TypeInv
<1>1. ASSUME NEW c \in Calls, Client(c) PROVE TypeInv'
  <2>1. CASE \/ EncodeFails(c) \/ RefusedByContext(c) \/ DialFails(c)
             \/ LoseAnswer(c) \/ BodyFails(c) \/ BodyRead(c)
    <3>1. \/ Sleep(c) /\ HasAttemptLeft(c)
          \/ \E r \in Results : Return(c, r)
      BY <2>1, NetworkErrorOutcome, AnsweredOutcome
      DEF EncodeFails, RefusedByContext, DialFails, LoseAnswer, BodyFails,
          BodyRead, Results
    <3>2. UNCHANGED <<attempt, ctx, answer, wire, applied>>
      BY <2>1 DEF EncodeFails, RefusedByContext, DialFails, LoseAnswer,
                  BodyFails, BodyRead
    <3> QED
      BY <3>1, <3>2, OutcomeTyped DEF TypeOK
  <2>2. CASE Send(c)
    BY <2>2 DEF Send, TypeOK, SleeperHasAttemptLeft, HasAttemptLeft
  <2>3. CASE StatusArrives(c)
    BY <2>3 DEF StatusArrives, TypeOK, SleeperHasAttemptLeft, HasAttemptLeft
  <2>4. CASE Wake(c)
    BY <2>4, MaxAttemptsAssumption
    DEF Wake, TypeOK, SleeperHasAttemptLeft, HasAttemptLeft
  <2> QED
    BY <1>1, <2>1, <2>2, <2>3, <2>4 DEF Client
<1>2. ASSUME NEW c \in Calls, ContextEnds(c) PROVE TypeInv'
  BY <1>2 DEF ContextEnds, TypeOK, SleeperHasAttemptLeft, HasAttemptLeft
<1>3. ASSUME NEW c \in Calls, Pipedrive(c) PROVE TypeInv'
  <2>1. ASSUME NEW a \in 0 .. MaxAttempts - 1, NEW status \in Statuses,
               Handle(c, a, status)
        PROVE  TypeInv'
    BY <2>1 DEF Handle, TypeOK, SleeperHasAttemptLeft, HasAttemptLeft
  <2>2. ASSUME NEW a \in 0 .. MaxAttempts - 1, Vanish(c, a) PROVE TypeInv'
    BY <2>2 DEF Vanish, TypeOK, SleeperHasAttemptLeft, HasAttemptLeft
  <2> QED
    BY <1>3, <2>1, <2>2 DEF Pipedrive
<1>4. CASE UNCHANGED vars
  BY <1>4 DEF vars, TypeOK, SleeperHasAttemptLeft, HasAttemptLeft
<1> QED
  BY <1>1, <1>2, <1>3, <1>4 DEF Next

\* The loop variable of exec stays within the budget: the statement after
\* the loop, "retries exhausted", is never reached (client.go, exec).
THEOREM Typing == Spec => []TypeOK
<1>1. TypeInv => TypeOK
  BY DEF TypeInv
<1> QED
  BY <1>1, InitTypeInv, NextTypeInv, PTL DEF Spec

-----------------------------------------------------------------------------
(***************************************************************************)
(* Safety of writes.                                                       *)
(***************************************************************************)
LEMMA InitIInv == Init => IInv
BY InitTypeInv, WritesAssumption DEF Init, IInv, WriteInv

\* A step that leaves a call alone keeps what is known of it.
LEMMA UntouchedWriteInv ==
  ASSUME NEW c \in Writes, WriteInv(c),
         pc'[c] = pc[c], attempt'[c] = attempt[c], answer'[c] = answer[c],
         wire'[c] = wire[c], applied'[c] = applied[c], result'[c] = result[c]
  PROVE  WriteInv(c)'
BY DEF WriteInv

\* A step of one call leaves every other call alone.
LEMMA OtherCallsUntouched ==
  ASSUME TypeOK, NEW c \in Calls, NEW d \in Calls, c # d,
         Client(c) \/ ContextEnds(c) \/ Pipedrive(c)
  PROVE  /\ pc'[d] = pc[d] /\ attempt'[d] = attempt[d]
         /\ answer'[d] = answer[d] /\ wire'[d] = wire[d]
         /\ applied'[d] = applied[d] /\ result'[d] = result[d]
<1>1. CASE Client(c)
  BY <1>1
  DEF Client, EncodeFails, RefusedByContext, DialFails, Send, LoseAnswer,
      StatusArrives, BodyFails, BodyRead, Wake, NetworkError, Answered, Sleep,
      Return, TypeOK
<1>2. CASE ContextEnds(c)
  BY <1>2 DEF ContextEnds
<1>3. CASE Pipedrive(c)
  BY <1>3 DEF Pipedrive, Handle, Vanish, TypeOK
<1> QED
  BY <1>1, <1>2, <1>3

\* The client's own steps on a write.
LEMMA ClientKeepsWriteInv ==
  ASSUME TypeOK, NEW c \in Writes, WriteInv(c), Client(c)
  PROVE  WriteInv(c)'
<1> c \in Calls
  BY WritesAssumption
<1>1. CASE EncodeFails(c)
  BY <1>1 DEF EncodeFails, Return, WriteInv, TypeOK
<1>2. CASE RefusedByContext(c)
  BY <1>2 DEF RefusedByContext, NetworkError, ShouldRetryNetwork, Return,
              WriteInv, TypeOK
<1>3. CASE DialFails(c)
  BY <1>3 DEF DialFails, NetworkError, ShouldRetryNetwork, Return, Sleep,
              WriteInv, TypeOK
<1>4. CASE Send(c)
  BY <1>4 DEF Send, WriteInv, TypeOK
<1>5. CASE LoseAnswer(c)
  BY <1>5 DEF LoseAnswer, NetworkError, ShouldRetryNetwork, Return, WriteInv,
              TypeOK
<1>6. CASE StatusArrives(c)
  BY <1>6 DEF StatusArrives, WriteInv, TypeOK
<1>7. CASE BodyFails(c)
  BY <1>7 DEF BodyFails, Return, WriteInv, TypeOK
<1>8. CASE BodyRead(c)
  <2>1. answer[c] \in Statuses /\ wire[c] = {}
    BY <1>8 DEF BodyRead, WriteInv, TypeOK
  <2> QED
    BY <1>8, <2>1 DEF BodyRead, Answered, ShouldRetry, Return, Sleep, WriteInv,
                      TypeOK, Statuses
<1>9. CASE Wake(c)
  BY <1>9 DEF Wake, WriteInv, TypeOK
<1> QED
  BY <1>1, <1>2, <1>3, <1>4, <1>5, <1>6, <1>7, <1>8, <1>9 DEF Client

\* Pipedrive handling or never getting a request of a write.
LEMMA PipedriveKeepsWriteInv ==
  ASSUME TypeOK, NEW c \in Writes, WriteInv(c), Pipedrive(c)
  PROVE  WriteInv(c)'
<1> c \in Calls
  BY WritesAssumption
<1>1. ASSUME NEW a \in 0 .. MaxAttempts - 1, NEW status \in Statuses,
             Handle(c, a, status)
      PROVE  WriteInv(c)'
  BY <1>1 DEF Handle, WriteInv, TypeOK, Statuses
<1>2. ASSUME NEW a \in 0 .. MaxAttempts - 1, Vanish(c, a)
      PROVE  WriteInv(c)'
  BY <1>2 DEF Vanish, WriteInv, TypeOK
<1> QED
  BY <1>1, <1>2 DEF Pipedrive

LEMMA NextIInv == IInv /\ [Next]_vars => IInv'
<1> SUFFICES ASSUME IInv, [Next]_vars PROVE IInv'
  OBVIOUS
<1>1. TypeInv'
  BY NextTypeInv DEF IInv
<1>2. ASSUME NEW d \in Writes PROVE WriteInv(d)'
  <2> TypeOK /\ WriteInv(d) /\ d \in Calls
    BY WritesAssumption DEF IInv, TypeInv
  <2>1. ASSUME NEW c \in Calls, Client(c) \/ ContextEnds(c) \/ Pipedrive(c)
        PROVE  WriteInv(d)'
    <3>1. CASE c # d
      BY <2>1, <3>1, OtherCallsUntouched, UntouchedWriteInv
    <3>2. CASE c = d
      <4>1. CASE ContextEnds(d)
        BY <4>1, UntouchedWriteInv DEF ContextEnds
      <4> QED
        BY <2>1, <3>2, <4>1, ClientKeepsWriteInv, PipedriveKeepsWriteInv
    <3> QED
      BY <3>1, <3>2
  <2>2. CASE UNCHANGED vars
    BY <2>2, UntouchedWriteInv DEF vars
  <2> QED
    BY <2>1, <2>2 DEF Next
<1> QED
  BY <1>1, <1>2 DEF IInv

LEMMA Invariance == Spec => []IInv
BY InitIInv, NextIInv, PTL DEF Spec

\* A create, update or delete changes the record at most once, however
\* late Pipedrive handles what was sent (D-54).
THEOREM AtMostOnce == Spec => []AppliedAtMostOnce
<1>1. IInv => AppliedAtMostOnce
  BY DEF IInv, WriteInv, AppliedAtMostOnce
<1> QED
  BY <1>1, Invariance, PTL

\* "ok" means the change was made; a refusal, a failed dial and a request
\* that could not be built mean that it was not and will not be.
THEOREM TrueVerdict == Spec => []VerdictIsTrue
<1>1. IInv => VerdictIsTrue
  BY DEF IInv, WriteInv, VerdictIsTrue
<1> QED
  BY <1>1, Invariance, PTL

\* exec tries a write again only when nothing of it can have happened.
THEOREM SafeRetry == Spec => []RetriesOnlyWhatNeverHappened
<1>1. IInv => RetriesOnlyWhatNeverHappened
  BY DEF IInv, WriteInv, RetriesOnlyWhatNeverHappened
<1> QED
  BY <1>1, Invariance, PTL

-----------------------------------------------------------------------------
(***************************************************************************)
(* Implementation: every write is a behaviour of WriteOnce.                *)
(***************************************************************************)

\* What one step may do to the effect and verdict of one write: the actions
\* of WriteOnce, read pointwise.
PerWrite(c) ==
  \/ Effect(c)' = Effect(c) /\ Verdict(c)' = Verdict(c)
  \/ Effect(c) = "open" /\ Effect(c)' = "made" /\ Verdict(c)' = Verdict(c)
  \/ /\ Effect(c) = "open" /\ Effect(c)' = "void"
     /\ Verdict(c) = "maybe" /\ Verdict(c)' = "maybe"
  \/ /\ Effect(c) = "made" /\ Effect(c)' = "made"
     /\ Verdict(c) = "none" /\ Verdict(c)' = "ok"
  \/ /\ Effect(c) = "open" /\ Effect(c)' = "void"
     /\ Verdict(c) = "none" /\ Verdict(c)' = "no"
  \/ /\ Effect(c)' = Effect(c) \/ (Effect(c) = "open" /\ Effect(c)' = "void")
     /\ Verdict(c) = "none" /\ Verdict(c)' = "maybe"

\* exec returns one write.
LEMMA ReturnPointwise ==
  ASSUME TypeOK, NEW c \in Writes, WriteInv(c), WriteInv(c)',
         NEW r \in Results, r # "none", pc[c] # "done", Return(c, r),
         UNCHANGED <<attempt, ctx, answer, wire, applied>>
  PROVE  PerWrite(c)
<1> c \in Calls
  BY WritesAssumption
<1>1. /\ Verdict(c) = "none"
      /\ Effect(c) = IF applied[c] > 0 THEN "made" ELSE "open"
      /\ result'[c] = r /\ pc'[c] = "done"
      /\ applied'[c] = applied[c] /\ wire'[c] = wire[c]
  BY DEF Verdict, Effect, Return, TypeOK, WriteInv
<1>2. Effect(c)' = IF applied[c] > 0 THEN "made"
                   ELSE IF wire[c] = {} THEN "void" ELSE "open"
  BY <1>1 DEF Effect
<1>3. CASE r = "ok"
  <2>1. applied[c] = 1 /\ Verdict(c)' = "ok"
    BY <1>1, <1>3 DEF WriteInv, Verdict
  <2> QED
    BY <1>1, <1>2, <2>1 DEF PerWrite
<1>4. CASE r \in {"refused", "dial", "encode"}
  <2>1. applied[c] = 0 /\ wire[c] = {} /\ Verdict(c)' = "no"
    BY <1>1, <1>4 DEF WriteInv, Verdict
  <2> QED
    BY <1>1, <1>2, <2>1 DEF PerWrite
<1>5. CASE r \notin {"ok", "refused", "dial", "encode"}
  <2>1. Verdict(c)' = "maybe"
    BY <1>1, <1>5 DEF Verdict
  <2> QED
    BY <1>1, <1>2, <2>1 DEF PerWrite
<1> QED
  BY <1>3, <1>4, <1>5

\* A step that neither returns nor touches the wire is invisible.
LEMMA InvisiblePointwise ==
  ASSUME NEW c \in Writes, applied'[c] = applied[c], wire'[c] = wire[c],
         result'[c] = result[c], pc[c] # "done", pc'[c] # "done"
  PROVE  PerWrite(c)
BY DEF PerWrite, Effect, Verdict

LEMMA ClientPointwise ==
  ASSUME TypeOK, NEW c \in Writes, WriteInv(c), WriteInv(c)', Client(c)
  PROVE  PerWrite(c)
<1> c \in Calls
  BY WritesAssumption
<1>1. CASE Send(c)
  <2>1. /\ applied'[c] = applied[c] /\ applied[c] = 0
        /\ result'[c] = result[c] /\ pc[c] # "done" /\ pc'[c] # "done"
    BY <1>1 DEF Send, TypeOK, WriteInv
  <2> QED
    BY <2>1 DEF PerWrite, Effect, Verdict
<1>2. CASE StatusArrives(c) \/ Wake(c)
  BY <1>2, InvisiblePointwise DEF StatusArrives, Wake, TypeOK
<1>3. CASE \/ EncodeFails(c) \/ RefusedByContext(c) \/ DialFails(c)
           \/ LoseAnswer(c) \/ BodyFails(c) \/ BodyRead(c)
  <2>1. /\ pc[c] # "done"
        /\ UNCHANGED <<attempt, ctx, answer, wire, applied>>
        /\ Sleep(c) \/ \E r \in Results \ {"none"} : Return(c, r)
    BY <1>3
    DEF EncodeFails, RefusedByContext, DialFails, LoseAnswer, BodyFails,
        BodyRead, NetworkError, Answered, Results
  <2>2. CASE Sleep(c)
    BY <2>1, <2>2, InvisiblePointwise DEF Sleep, TypeOK
  <2>3. CASE \E r \in Results \ {"none"} : Return(c, r)
    BY <2>1, <2>3, ReturnPointwise
  <2> QED
    BY <2>1, <2>2, <2>3
<1> QED
  BY <1>1, <1>2, <1>3 DEF Client

LEMMA PipedrivePointwise ==
  ASSUME TypeOK, NEW c \in Writes, WriteInv(c), WriteInv(c)', Pipedrive(c)
  PROVE  PerWrite(c)
<1> c \in Calls
  BY WritesAssumption
<1>1. /\ result'[c] = result[c] /\ pc'[c] = pc[c]
      /\ wire[c] # {} /\ applied[c] = 0
      /\ applied'[c] \in {0, 1}
  BY DEF Pipedrive, Handle, Vanish, TypeOK, WriteInv
<1>2. Verdict(c)' = Verdict(c) /\ Effect(c) = "open"
  BY <1>1 DEF Verdict, Effect
<1>3. pc[c] = "done" => Verdict(c) = "maybe"
  BY <1>1 DEF Verdict, WriteInv
<1>4. Effect(c)' \in {"open", "made"} \/ (pc[c] = "done" /\ Effect(c)' = "void")
  BY <1>1 DEF Effect
<1> QED
  BY <1>2, <1>3, <1>4 DEF PerWrite

LEMMA StepPointwise ==
  ASSUME IInv, IInv', NEW c \in Calls,
         Client(c) \/ ContextEnds(c) \/ Pipedrive(c)
  PROVE  /\ \A d \in Writes \ {c} : Effect(d)' = Effect(d) /\ Verdict(d)' = Verdict(d)
         /\ c \in Writes => PerWrite(c)
<1> TypeOK
  BY DEF IInv, TypeInv
<1>1. ASSUME NEW d \in Writes \ {c}
      PROVE  Effect(d)' = Effect(d) /\ Verdict(d)' = Verdict(d)
  <2> d \in Calls /\ c # d
    BY WritesAssumption
  <2> QED
    BY OtherCallsUntouched DEF Effect, Verdict
<1>2. ASSUME c \in Writes PROVE PerWrite(c)
  <2> WriteInv(c) /\ WriteInv(c)'
    BY <1>2 DEF IInv
  <2>1. CASE ContextEnds(c)
    BY <2>1 DEF ContextEnds, PerWrite, Effect, Verdict
  <2> QED
    BY <1>2, <2>1, ClientPointwise, PipedrivePointwise
<1> QED
  BY <1>1, <1>2

\* The actions of WriteOnce from their pointwise reading.
LEMMA PointwiseMakesStep ==
  ASSUME NEW c \in Writes, PerWrite(c),
         \A d \in Writes \ {c} : Effect(d)' = Effect(d) /\ Verdict(d)' = Verdict(d)
  PROVE  [Promise!Next]_(Promise!vars)
<1> DEFINE e == [d \in Writes |-> Effect(d)]
           v == [d \in Writes |-> Verdict(d)]
<1>1. e' = [e EXCEPT ![c] = Effect(c)'] /\ v' = [v EXCEPT ![c] = Verdict(c)']
  OBVIOUS
<1>2. e[c] = Effect(c) /\ v[c] = Verdict(c)
  OBVIOUS
<1>3. Effect(c)' = Effect(c) => e' = e
  BY <1>1
<1>4. Verdict(c)' = Verdict(c) => v' = v
  BY <1>1
<1> HIDE DEF e, v
<1>5. \/ e' = e /\ v' = v
      \/ e[c] = "open" /\ e' = [e EXCEPT ![c] = "made"] /\ v' = v
      \/ e[c] = "open" /\ e' = [e EXCEPT ![c] = "void"] /\ v[c] = "maybe" /\ v' = v
      \/ e[c] = "made" /\ e' = e /\ v[c] = "none" /\ v' = [v EXCEPT ![c] = "ok"]
      \/ /\ e[c] = "open" /\ e' = [e EXCEPT ![c] = "void"]
         /\ v[c] = "none" /\ v' = [v EXCEPT ![c] = "no"]
      \/ /\ e' = e \/ (e[c] = "open" /\ e' = [e EXCEPT ![c] = "void"])
         /\ v[c] = "none" /\ v' = [v EXCEPT ![c] = "maybe"]
  BY <1>1, <1>2, <1>3, <1>4 DEF PerWrite
<1> QED
  BY <1>5
  DEF e, v, Promise!Next, Promise!vars, Promise!Make, Promise!Expire,
      Promise!TellOk, Promise!TellNo, Promise!TellMaybe

\* The loop of exec, the connection and Pipedrive together implement
\* WriteOnce for every write: at most one change, a truthful "ok", and a
\* "no" only when the change can no longer happen (client.go, D-54).
THEOREM Implements == Spec => KeepsPromise
<1>1. Init => Promise!Init
  BY WritesAssumption DEF Init, Promise!Init, Effect, Verdict
<1>2. IInv /\ IInv' /\ [Next]_vars => [Promise!Next]_(Promise!vars)
  <2> SUFFICES ASSUME IInv, IInv', [Next]_vars
               PROVE  [Promise!Next]_(Promise!vars)
    OBVIOUS
  <2>1. ASSUME NEW c \in Calls, Client(c) \/ ContextEnds(c) \/ Pipedrive(c)
        PROVE  [Promise!Next]_(Promise!vars)
    <3>1. CASE c \in Writes
      BY <2>1, <3>1, StepPointwise, PointwiseMakesStep
    <3>2. CASE c \notin Writes
      <4>1. \A d \in Writes : Effect(d)' = Effect(d) /\ Verdict(d)' = Verdict(d)
        BY <2>1, <3>2, StepPointwise
      <4> QED
        BY <4>1 DEF Promise!vars
    <3> QED
      BY <3>1, <3>2
  <2>2. CASE UNCHANGED vars
    BY <2>2 DEF vars, Promise!vars, Effect, Verdict
  <2> QED
    BY <2>1, <2>2 DEF Next
<1> QED
  BY <1>1, <1>2, Invariance, PTL DEF Spec, KeepsPromise, Promise!Spec

-----------------------------------------------------------------------------
(***************************************************************************)
(*                              ManageRecord                               *)
(***************************************************************************)
(***************************************************************************)
(* Recursion.  The loops of the model are functions that are defined from  *)
(* the round before.  That such a function exists, and what is true of all *)
(* its rounds, follows from AllNumbers: a set that holds 0 and, with a     *)
(* number, the next one holds every number, since no other is the least.   *)
(***************************************************************************)
LEMMA AllNumbers ==
  ASSUME NEW T \in SUBSET Nat, 0 \in T, \A n \in T : n + 1 \in T
  PROVE  T = Nat
<1> DEFINE left == Nat \ T
<1>1. SUFFICES ASSUME left # {} PROVE FALSE
  OBVIOUS
<1> HIDE DEF left
<1>2. left \in SUBSET Nat
  BY DEF left
<1>3. PICK n \in left : \A m \in left : ~(<<m, n>> \in OpToRel(<, Nat))
  BY <1>1, <1>2, NatLessThanWellFounded, WFMin
<1>4. n \in Nat /\ n # 0 /\ n - 1 \in Nat /\ n - 1 < n
  BY <1>2 DEF left
<1>5. <<n - 1, n>> \in OpToRel(<, Nat)
  BY <1>4, Zenon DEF OpToRel
<1>6. n - 1 \in T
  BY <1>3, <1>4, <1>5 DEF left
<1>7. (n - 1) + 1 \in T
  BY <1>6
<1> QED
  BY <1>4, <1>7 DEF left

\* The rounds of the loop of Joined.
Separator(n) == IF n = 1 THEN <<>> ELSE <<Comma>>
JoinRounds(parts, upTo, m) ==
  [n \in 0 .. m |-> IF n = 0 THEN <<>> ELSE upTo[n - 1] \o Separator(n) \o parts[n]]

LEMMA DropRight ==
  ASSUME NEW S, NEW s \in Seq(S), NEW t \in Seq(S), NEW v \in Seq(S), s \o v = t \o v
  PROVE  s = t
BY ConcatSimplifications, Zenon

LEMMA JoinRoundsGrow ==
  ASSUME NEW parts, NEW m \in Nat, NEW f
  PROVE  /\ \A n \in 0 .. m : JoinRounds(parts, f, m + 1)[n] = JoinRounds(parts, f, m)[n]
         /\ \A g : (\A n \in 0 .. m : g[n] = f[n]) =>
              JoinRounds(parts, g, m + 1) = JoinRounds(parts, f, m + 1)
<1>1. \A n \in 0 .. m : n \in 0 .. m + 1
  OBVIOUS
<1>2. \A n \in 0 .. m + 1 : n = 0 \/ n - 1 \in 0 .. m
  OBVIOUS
<1>3. ASSUME NEW g, \A n \in 0 .. m : g[n] = f[n]
      PROVE  JoinRounds(parts, g, m + 1) = JoinRounds(parts, f, m + 1)
  BY <1>2, <1>3 DEF JoinRounds
<1> QED
  BY <1>1, <1>3 DEF JoinRounds

LEMMA JoinedBySteps ==
  ASSUME NEW parts, Len(parts) \in Nat
  PROVE  \E upTo : /\ upTo = JoinRounds(parts, upTo, Len(parts))
                   /\ Joined(parts) = upTo[Len(parts)]
<1> DEFINE reached == {m \in Nat : \E f : f = JoinRounds(parts, f, m)}
<1>1. 0 \in reached
  <2> DEFINE f == [n \in 0 .. 0 |-> <<>>]
  <2>1. JoinRounds(parts, f, 0) = f
    BY DEF JoinRounds
  <2> QED
    BY <2>1
<1>2. ASSUME NEW m \in reached PROVE m + 1 \in reached
  <2>1. m \in Nat /\ \E f : f = JoinRounds(parts, f, m)
    OBVIOUS
  <2>2. PICK f : f = JoinRounds(parts, f, m)
    BY <2>1
  <2> DEFINE g == JoinRounds(parts, f, m + 1)
  <2>3. \A n \in 0 .. m : g[n] = f[n]
    <3>1. \A n \in 0 .. m : JoinRounds(parts, f, m + 1)[n] = JoinRounds(parts, f, m)[n]
      BY <2>1, JoinRoundsGrow
    <3>2. g = JoinRounds(parts, f, m + 1)
      OBVIOUS
    <3> HIDE DEF g
    <3> QED
      BY <2>2, <3>1, <3>2, Zenon
  <2>4. JoinRounds(parts, g, m + 1) = g
    BY <2>1, <2>3, JoinRoundsGrow, Zenon
  <2>5. m + 1 \in Nat
    BY <2>1
  <2> QED
    BY <2>4, <2>5
<1>3. reached = Nat
  <2> HIDE DEF reached
  <2>1. reached \in SUBSET Nat
    BY DEF reached
  <2> QED
    BY <1>1, <1>2, <2>1, AllNumbers
<1>4. \E f : f = JoinRounds(parts, f, Len(parts))
  BY <1>3
<1> DEFINE upTo == CHOOSE f : f = JoinRounds(parts, f, Len(parts))
<1>5. upTo = JoinRounds(parts, upTo, Len(parts))
  BY <1>4
<1>6. Joined(parts) = upTo[Len(parts)]
  BY DEF Joined, JoinRounds, Separator
<1> HIDE DEF upTo
<1> QED
  BY <1>5, <1>6

\* What is joined of the first n parts.
JoinsBy(parts, f, Tokens) ==
  /\ \A n \in 0 .. Len(parts) : f[n] \in Seq(Tokens)
  /\ f[0] = <<>>
  /\ Len(parts) > 0 => f[1] = parts[1]
  /\ \A n \in 2 .. Len(parts) : f[n] = (f[n - 1] \o <<Comma>>) \o parts[n]

LEMMA JoinedParts ==
  ASSUME NEW Tokens, Comma \in Tokens, NEW S \in SUBSET Seq(Tokens), NEW parts \in Seq(S)
  PROVE  \E f : Joined(parts) = f[Len(parts)] /\ JoinsBy(parts, f, Tokens)
<1>1. Len(parts) \in Nat /\ \A n \in 1 .. Len(parts) : parts[n] \in Seq(Tokens)
  BY LenProperties, ElementOfSeq
<1>2. PICK f : f = JoinRounds(parts, f, Len(parts)) /\ Joined(parts) = f[Len(parts)]
  BY <1>1, JoinedBySteps
<1>3. \A n \in 0 .. Len(parts) :
        f[n] = IF n = 0 THEN <<>> ELSE f[n - 1] \o Separator(n) \o parts[n]
  <2>1. \A n \in 0 .. Len(parts) :
          JoinRounds(parts, f, Len(parts))[n] =
            IF n = 0 THEN <<>> ELSE f[n - 1] \o Separator(n) \o parts[n]
    BY Zenon DEF JoinRounds
  <2> QED
    BY <1>2, <2>1, Zenon
<1>4. f[0] = <<>> /\ \A n \in 1 .. Len(parts) : f[n] = f[n - 1] \o Separator(n) \o parts[n]
  <2>1. 0 \in 0 .. Len(parts) /\ \A n \in 1 .. Len(parts) : n \in 0 .. Len(parts) /\ n # 0
    BY <1>1
  <2> QED
    BY <1>3, <2>1, Zenon
<1>5. /\ \A n \in Nat : Separator(n) \in Seq(Tokens)
      /\ Separator(1) = <<>> /\ \A n \in Nat \ {1} : Separator(n) = <<Comma>>
  BY DEF Separator
<1>6. \A n \in 0 .. Len(parts) : f[n] \in Seq(Tokens)
  <2> DEFINE T == {n \in Nat : n <= Len(parts) => f[n] \in Seq(Tokens)}
  <2>1. 0 \in T
    <3>1. <<>> \in Seq(Tokens)
      OBVIOUS
    <3> QED
      BY <1>4, <3>1
  <2>2. ASSUME NEW n \in T PROVE n + 1 \in T
    <3>1. SUFFICES ASSUME n + 1 <= Len(parts) PROVE f[n + 1] \in Seq(Tokens)
      OBVIOUS
    <3>2. n \in Nat /\ n + 1 \in 1 .. Len(parts) /\ (n + 1) - 1 = n /\ n + 1 \in Nat
      BY <1>1, <3>1
    <3>3. f[n] \in Seq(Tokens) /\ parts[n + 1] \in Seq(Tokens) /\ Separator(n + 1) \in Seq(Tokens)
      BY <1>1, <1>5, <3>1, <3>2
    <3>4. f[n + 1] = f[n] \o Separator(n + 1) \o parts[n + 1]
      BY <1>4, <3>2
    <3> QED
      BY <3>3, <3>4, ConcatProperties
  <2> HIDE DEF T
  <2>3. T = Nat
    BY <2>1, <2>2, AllNumbers DEF T
  <2> QED
    BY <1>1, <2>3 DEF T
<1>7. Len(parts) > 0 => f[1] = parts[1]
  <2>1. SUFFICES ASSUME Len(parts) > 0 PROVE f[1] = parts[1]
    OBVIOUS
  <2>2. 1 \in 1 .. Len(parts) /\ 1 - 1 = 0
    BY <1>1, <2>1
  <2>3. f[1] = f[0] \o Separator(1) \o parts[1]
    BY <1>4, <2>2
  <2>4. f[1] = <<>> \o <<>> \o parts[1] /\ parts[1] \in Seq(Tokens)
    BY <1>1, <1>4, <1>5, <2>2, <2>3
  <2> QED
    BY <2>4, ConcatEmptySeq, EmptySeq
<1>8. ASSUME NEW n \in 2 .. Len(parts) PROVE f[n] = (f[n - 1] \o <<Comma>>) \o parts[n]
  <2>1. n \in 1 .. Len(parts) /\ n \in Nat \ {1}
    BY <1>1
  <2> QED
    BY <1>4, <1>5, <2>1
<1> QED
  BY <1>2, <1>4, <1>6, <1>7, <1>8 DEF JoinsBy

\* Parts that end differently after anything can be told in what Joined makes
\* of them (strings.Join).
SameEnd(a, p, b, q) == a \o p = b \o q
TellsApart(S, Tokens) ==
  \A p, q \in S : \A a, b \in Seq(Tokens) : SameEnd(a, p, b, q) => p = q

LEMMA JoinedTellsApart ==
  ASSUME NEW Tokens, Comma \in Tokens, NEW S \in SUBSET Seq(Tokens), <<>> \notin S,
         TellsApart(S, Tokens),
         NEW ps \in Seq(S), NEW qs \in Seq(S), Joined(ps) = Joined(qs)
  PROVE  ps = qs
<1>1. /\ Len(ps) \in Nat /\ \A n \in 1 .. Len(ps) : ps[n] \in S
      /\ Len(qs) \in Nat /\ \A n \in 1 .. Len(qs) : qs[n] \in S
  BY LenProperties, ElementOfSeq
<1>2. PICK f : Joined(ps) = f[Len(ps)] /\ JoinsBy(ps, f, Tokens)
  BY JoinedParts
<1>3. PICK g : Joined(qs) = g[Len(qs)] /\ JoinsBy(qs, g, Tokens)
  BY JoinedParts
<1>4. \A s \in Seq(Tokens) : s \o <<Comma>> \in Seq(Tokens) /\ s \o <<Comma>> # <<>>
  <2>1. <<Comma>> \in Seq(Tokens) /\ <<Comma>> # <<>>
    OBVIOUS
  <2> QED
    BY <2>1, ConcatProperties, ConcatEqualIffEmpty
\* What is before the last part, of which the first has nothing.
<1> DEFINE Front(h, n) == IF n = 1 THEN <<>> ELSE h[n - 1] \o <<Comma>>
           LastOf(parts, h, n) ==
             /\ parts[n] \in S /\ h[n - 1] \in Seq(Tokens)
             /\ Front(h, n) \in Seq(Tokens) /\ (Front(h, n) = <<>> <=> n = 1)
             /\ h[n] = Front(h, n) \o parts[n] /\ h[n] # <<>>
<1>5. ASSUME NEW h, NEW parts \in Seq(S), JoinsBy(parts, h, Tokens), NEW n \in 1 .. Len(parts)
      PROVE  LastOf(parts, h, n)
  <2>1. Len(parts) \in Nat /\ n \in Nat /\ n - 1 \in 0 .. Len(parts)
        /\ parts[n] \in S /\ parts[n] \in Seq(Tokens) /\ parts[n] # <<>>
    BY LenProperties, ElementOfSeq
  <2>2. h[n - 1] \in Seq(Tokens)
    BY <1>5, <2>1 DEF JoinsBy
  <2>3. Front(h, n) \in Seq(Tokens) /\ (Front(h, n) = <<>> <=> n = 1)
    BY <1>4, <2>2, EmptySeq
  <2>4. CASE n = 1
    <3>1. h[n] = parts[n]
      BY <1>5, <2>1, <2>4 DEF JoinsBy
    <3>2. Front(h, n) \o parts[n] = parts[n]
      BY <2>1, <2>4, ConcatEmptySeq
    <3> QED
      BY <2>1, <2>2, <2>3, <3>1, <3>2
  <2>5. CASE n # 1
    <3>1. n \in 2 .. Len(parts)
      BY <2>1, <2>5
    <3>2. h[n] = (h[n - 1] \o <<Comma>>) \o parts[n]
      BY <1>5, <3>1 DEF JoinsBy
    <3>3. h[n] = Front(h, n) \o parts[n]
      BY <2>5, <3>2
    <3>4. h[n] # <<>>
      <4> HIDE DEF Front
      <4> QED
        BY <2>1, <2>3, <3>3, ConcatEqualIffEmpty
    <3> QED
      BY <2>1, <2>2, <2>3, <3>3, <3>4
  <2> QED
    BY <2>4, <2>5
<1> HIDE DEF LastOf
<1>6. (\A n \in 1 .. Len(ps) : LastOf(ps, f, n)) /\ (\A n \in 1 .. Len(qs) : LastOf(qs, g, n))
  BY <1>2, <1>3, <1>5
<1> DEFINE Same(n, m) == n = m /\ \A k \in 1 .. n : ps[k] = qs[k]
           T == {n \in Nat : n <= Len(ps) => \A m \in 0 .. Len(qs) : f[n] = g[m] => Same(n, m)}
<1>7. 0 \in T
  <2>1. ASSUME NEW m \in 0 .. Len(qs), f[0] = g[m] PROVE m = 0
    <3>1. f[0] = <<>>
      BY <1>2 DEF JoinsBy
    <3>2. m \in 1 .. Len(qs) => g[m] # <<>>
      BY <1>6 DEF LastOf
    <3> QED
      BY <1>1, <2>1, <3>1, <3>2
  <2> QED
    BY <2>1
<1>8. ASSUME NEW n \in T PROVE n + 1 \in T
  <2>1. SUFFICES ASSUME n + 1 <= Len(ps), NEW m \in 0 .. Len(qs), f[n + 1] = g[m]
                 PROVE  Same(n + 1, m)
    OBVIOUS
  <2>2. n \in Nat /\ n <= Len(ps) /\ n + 1 \in 1 .. Len(ps) /\ (n + 1) - 1 = n
    BY <1>1, <2>1
  <2> HIDE DEF Front, T
  <2>3. m \in 1 .. Len(qs) /\ m \in Nat
    <3>1. f[n + 1] # <<>>
      BY <1>6, <2>2 DEF LastOf
    <3>2. m # 0
      BY <1>3, <2>1, <3>1 DEF JoinsBy
    <3> QED
      BY <1>1, <3>2
  <2>4. LastOf(ps, f, n + 1) /\ LastOf(qs, g, m)
    BY <1>6, <2>2, <2>3
  <2>5. Front(f, n + 1) = Front(g, m) /\ ps[n + 1] = qs[m]
    <3>1. /\ f[n + 1] = Front(f, n + 1) \o ps[n + 1] /\ g[m] = Front(g, m) \o qs[m]
          /\ Front(f, n + 1) \in Seq(Tokens) /\ Front(g, m) \in Seq(Tokens)
          /\ ps[n + 1] \in S /\ qs[m] \in S
      BY <2>4, Zenon DEF LastOf
    <3>2. Front(f, n + 1) \o ps[n + 1] = Front(g, m) \o qs[m]
      BY <2>1, <3>1, Zenon
    <3>3. ps[n + 1] = qs[m]
      BY <3>1, <3>2, Zenon DEF TellsApart, SameEnd
    <3>4. ps[n + 1] \in Seq(Tokens) /\ Front(f, n + 1) \o ps[n + 1] = Front(g, m) \o ps[n + 1]
      BY <3>1, <3>2, <3>3
    <3> QED
      BY <3>1, <3>3, <3>4, DropRight, Zenon
  <2>6. n + 1 = 1 <=> m = 1
    BY <2>4, <2>5, Zenon DEF LastOf
  <2>7. CASE n = 0
    BY <2>2, <2>5, <2>6, <2>7
  <2>8. CASE n # 0
    <3>1. m # 1 /\ n + 1 # 1 /\ m - 1 \in 0 .. Len(qs)
      BY <1>1, <2>2, <2>3, <2>6, <2>8
    <3>2. f[n] \o <<Comma>> = g[m - 1] \o <<Comma>>
      BY <2>2, <2>5, <3>1 DEF Front
    <3>3. f[n] \in Seq(Tokens) /\ g[m - 1] \in Seq(Tokens) /\ <<Comma>> \in Seq(Tokens)
      BY <2>2, <2>4 DEF LastOf
    <3>4. f[n] = g[m - 1]
      BY <3>2, <3>3, DropRight, Zenon
    <3>5. Same(n, m - 1)
      BY <2>2, <3>1, <3>4 DEF T
    <3>6. m = n + 1
      BY <2>2, <2>3, <3>5
    <3>7. ASSUME NEW k \in 1 .. n + 1 PROVE ps[k] = qs[k]
      <4>1. k = n + 1 \/ k \in 1 .. n
        BY <2>2
      <4> QED
        BY <2>5, <3>5, <3>6, <4>1
    <3> QED
      BY <3>6, <3>7
  <2> QED
    BY <2>7, <2>8
<1> HIDE DEF T
<1>9. T = Nat
  BY <1>7, <1>8, AllNumbers DEF T
<1>10. Same(Len(ps), Len(qs))
  <2>1. Len(ps) \in T /\ Len(qs) \in 0 .. Len(qs)
    BY <1>1, <1>9
  <2>2. f[Len(ps)] = g[Len(qs)]
    BY <1>2, <1>3
  <2> QED
    BY <1>1, <2>1, <2>2 DEF T
<1> QED
  BY <1>1, <1>10, SeqEqual

-----------------------------------------------------------------------------
\* The marks are characters of no text.
Marks == {Comma, QuoteMark, EscapedQuote, PrimaryMark}
Shown == Characters \cup Marks
Unquoted == Shown \ {QuoteMark}

LEMMA MarksDiffer ==
  /\ QuoteMark # EscapedQuote /\ QuoteMark # PrimaryMark
  /\ Comma # PrimaryFlag
BY DEF QuoteMark, EscapedQuote, PrimaryMark, Comma, PrimaryFlag

LEMMA SameInterval ==
  ASSUME NEW m \in Nat, NEW n \in Nat, 1 .. m = 1 .. n
  PROVE  m = n
<1>1. (m = 0 \/ m \in 1 .. m) /\ (n = 0 \/ n \in 1 .. n)
  OBVIOUS
<1>2. (m = 0 \/ m \in 1 .. n) /\ (n = 0 \/ n \in 1 .. m)
  BY <1>1
<1> QED
  BY <1>2

\* What is escaped holds no quote, and can be read back.
LEMMA EscapedReadsBack ==
  ASSUME NEW t \in Seq(Characters), NEW u \in Seq(Characters)
  PROVE  /\ Escaped(t) \in Seq(Unquoted) /\ Escaped(t) \in Seq(Shown)
         /\ Escaped(t) = Escaped(u) => t = u
<1> DEFINE e(c) == IF c = QuoteMark THEN EscapedQuote ELSE c
<1>1. \A c \in Characters : e(c) \in Unquoted /\ e(c) \in Shown
  BY MarksDiffer DEF Unquoted, Shown, Marks
<1>2. \A c, d \in Characters : e(c) = e(d) => c = d
  BY MarksDiffer, CharactersAssumption
<1>3. /\ Len(t) \in Nat /\ DOMAIN t = 1 .. Len(t) /\ \A n \in 1 .. Len(t) : t[n] \in Characters
      /\ Len(u) \in Nat /\ DOMAIN u = 1 .. Len(u) /\ \A n \in 1 .. Len(u) : u[n] \in Characters
  BY LenProperties, ElementOfSeq
<1> HIDE DEF e
<1>4. /\ Escaped(t) = [n \in 1 .. Len(t) |-> e(t[n])]
      /\ Escaped(u) = [n \in 1 .. Len(u) |-> e(u[n])]
  BY <1>3 DEF Escaped, e
<1>5. Escaped(t) \in Seq(Unquoted) /\ Escaped(t) \in Seq(Shown)
  BY <1>1, <1>3, <1>4
<1>6. ASSUME Escaped(t) = Escaped(u) PROVE t = u
  <2>1. 1 .. Len(t) = 1 .. Len(u)
    BY <1>4, <1>6
  <2>2. Len(t) = Len(u)
    BY <1>3, <2>1, SameInterval, Zenon
  <2>3. ASSUME NEW n \in 1 .. Len(t) PROVE t[n] = u[n]
    <3>1. e(t[n]) = e(u[n])
      BY <1>4, <1>6, <2>1
    <3> QED
      BY <1>2, <1>3, <2>1, <3>1
  <2> QED
    BY <2>2, <2>3, SeqEqual
<1> QED
  BY <1>5, <1>6

\* A quoted text and what is between its quotes.
Between(t) == <<QuoteMark>> \o t \o <<QuoteMark>>

LEMMA BetweenAt ==
  ASSUME NEW a \in Seq(Shown), NEW t \in Seq(Unquoted)
  PROVE  /\ Between(t) \in Seq(Shown) /\ a \o Between(t) \in Seq(Shown)
         /\ Len(a) \in Nat /\ Len(t) \in Nat
         /\ Len(a \o Between(t)) = Len(a) + Len(t) + 2
         /\ (a \o Between(t))[Len(a) + 1] = QuoteMark
         /\ (a \o Between(t))[Len(a) + Len(t) + 2] = QuoteMark
         /\ \A n \in 1 .. Len(t) :
              (a \o Between(t))[Len(a) + 1 + n] = t[n] /\ t[n] # QuoteMark
<1> DEFINE q == <<QuoteMark>>
<1>1. q \in Seq(Shown) /\ Len(q) = 1 /\ q[1] = QuoteMark
  BY DEF Shown, Marks
<1>2. t \in Seq(Shown) /\ Len(t) \in Nat /\ \A n \in 1 .. Len(t) : t[n] # QuoteMark
  <2>1. t \in Seq(Shown)
    BY SeqMonotonic DEF Unquoted
  <2> QED
    BY <2>1, LenProperties, ElementOfSeq DEF Unquoted
<1>3. Len(a) \in Nat
  OBVIOUS
<1> HIDE DEF q
<1>4. q \o t \in Seq(Shown) /\ Len(q \o t) = Len(t) + 1
      /\ \A i \in 1 .. Len(t) + 1 : (q \o t)[i] = IF i = 1 THEN QuoteMark ELSE t[i - 1]
  <2>1. /\ q \o t \in Seq(Shown) /\ Len(q \o t) = Len(q) + Len(t)
        /\ \A i \in 1 .. Len(q) + Len(t) :
             (q \o t)[i] = IF i <= Len(q) THEN q[i] ELSE t[i - Len(q)]
    BY <1>1, <1>2, ConcatProperties
  <2> QED
    BY <1>1, <1>2, <2>1
<1>5. /\ Between(t) \in Seq(Shown) /\ Len(Between(t)) = Len(t) + 2
      /\ \A i \in 1 .. Len(t) + 2 : Between(t)[i] =
           IF i <= Len(t) + 1 THEN (q \o t)[i] ELSE q[i - (Len(t) + 1)]
  BY <1>1, <1>2, <1>4, ConcatProperties DEF Between, q
<1>6. /\ Between(t)[1] = QuoteMark /\ Between(t)[Len(t) + 2] = QuoteMark
      /\ \A n \in 1 .. Len(t) : Between(t)[n + 1] = t[n]
  BY <1>1, <1>2, <1>4, <1>5
<1>7. /\ a \o Between(t) \in Seq(Shown) /\ Len(a \o Between(t)) = Len(a) + (Len(t) + 2)
      /\ \A i \in 1 .. Len(t) + 2 : (a \o Between(t))[Len(a) + i] = Between(t)[i]
  <2>1. /\ a \o Between(t) \in Seq(Shown)
        /\ Len(a \o Between(t)) = Len(a) + Len(Between(t))
        /\ \A i \in 1 .. Len(a) + Len(Between(t)) : (a \o Between(t))[i] =
             IF i <= Len(a) THEN a[i] ELSE Between(t)[i - Len(a)]
    BY <1>5, ConcatProperties
  <2>2. ASSUME NEW i \in 1 .. Len(t) + 2
        PROVE  (a \o Between(t))[Len(a) + i] = Between(t)[i]
    <3>1. /\ Len(a) + i \in 1 .. Len(a) + Len(Between(t))
          /\ ~(Len(a) + i <= Len(a)) /\ (Len(a) + i) - Len(a) = i
      BY <1>2, <1>3, <1>5
    <3> QED
      BY <2>1, <3>1
  <2> QED
    BY <1>5, <2>1, <2>2
<1>8. /\ 1 \in 1 .. Len(t) + 2 /\ Len(t) + 2 \in 1 .. Len(t) + 2
      /\ \A n \in 1 .. Len(t) : n + 1 \in 1 .. Len(t) + 2 /\ Len(a) + (n + 1) = Len(a) + 1 + n
  BY <1>2, <1>3
<1> QED
  BY <1>2, <1>3, <1>5, <1>6, <1>7, <1>8

\* Of two ways to read a quoted text at an end neither takes more.
LEMMA NoLongerQuote ==
  ASSUME NEW a \in Seq(Shown), NEW b \in Seq(Shown),
         NEW t \in Seq(Unquoted), NEW u \in Seq(Unquoted),
         a \o Between(t) = b \o Between(u)
  PROVE  Len(u) <= Len(t)
<1>1. SUFFICES ASSUME Len(t) < Len(u) PROVE FALSE
  BY BetweenAt
<1>2. /\ Len(a) \in Nat /\ Len(b) \in Nat /\ Len(t) \in Nat /\ Len(u) \in Nat
      /\ Len(a) + Len(t) + 2 = Len(b) + Len(u) + 2
      /\ (a \o Between(t))[Len(a) + 1] = QuoteMark
      /\ \A n \in 1 .. Len(u) : (b \o Between(u))[Len(b) + 1 + n] # QuoteMark
  <2>1. /\ Len(a) \in Nat /\ Len(t) \in Nat
        /\ Len(a \o Between(t)) = Len(a) + Len(t) + 2
        /\ (a \o Between(t))[Len(a) + 1] = QuoteMark
    BY BetweenAt, Zenon
  <2>2. /\ Len(b) \in Nat /\ Len(u) \in Nat
        /\ Len(b \o Between(u)) = Len(b) + Len(u) + 2
        /\ \A n \in 1 .. Len(u) :
             (b \o Between(u))[Len(b) + 1 + n] = u[n] /\ u[n] # QuoteMark
    BY BetweenAt, Zenon
  <2>3. Len(a \o Between(t)) = Len(b \o Between(u))
    OBVIOUS
  <2>4. \A n \in 1 .. Len(u) : (b \o Between(u))[Len(b) + 1 + n] # QuoteMark
    BY <2>2, Zenon
  <2> QED
    BY <2>1, <2>2, <2>3, <2>4, Zenon
<1>3. Len(u) - Len(t) \in 1 .. Len(u) /\ Len(b) + 1 + (Len(u) - Len(t)) = Len(a) + 1
  <2> DEFINE i == Len(a)  j == Len(b)  k == Len(t)  l == Len(u)
  <2>1. /\ i \in Nat /\ j \in Nat /\ k \in Nat /\ l \in Nat
        /\ i + k + 2 = j + l + 2 /\ k < l
    BY <1>1, <1>2
  <2> HIDE DEF i, j, k, l
  <2>2. l - k \in 1 .. l /\ j + 1 + (l - k) = i + 1
    BY <2>1
  <2> QED
    BY <2>2 DEF i, j, k, l
<1>4. (b \o Between(u))[Len(a) + 1] # QuoteMark
  BY <1>2, <1>3
<1> QED
  BY <1>2, <1>4, Zenon

LEMMA QuotesTellApart ==
  ASSUME NEW a \in Seq(Shown), NEW b \in Seq(Shown),
         NEW t \in Seq(Characters), NEW u \in Seq(Characters),
         SameEnd(a, Quote(t), b, Quote(u))
  PROVE  a = b /\ t = u
<1> DEFINE x == Escaped(t)
           y == Escaped(u)
<1>1. x \in Seq(Unquoted) /\ y \in Seq(Unquoted) /\ (x = y => t = u)
      /\ Quote(t) = Between(x) /\ Quote(u) = Between(y)
  BY EscapedReadsBack DEF Quote, Between
<1> HIDE DEF x, y
<1>2. a \o Between(x) = b \o Between(y)
  BY <1>1 DEF SameEnd
<1>3. Len(y) <= Len(x) /\ Len(x) <= Len(y)
  BY <1>1, <1>2, NoLongerQuote
<1>4. /\ Len(a) \in Nat /\ Len(b) \in Nat /\ Len(x) \in Nat /\ Len(y) \in Nat
      /\ Len(a) + Len(x) + 2 = Len(b) + Len(y) + 2
      /\ \A n \in 1 .. Len(x) : (a \o Between(x))[Len(a) + 1 + n] = x[n]
      /\ \A n \in 1 .. Len(y) : (b \o Between(y))[Len(b) + 1 + n] = y[n]
  <2>1. /\ Len(a) \in Nat /\ Len(x) \in Nat
        /\ Len(a \o Between(x)) = Len(a) + Len(x) + 2
        /\ \A n \in 1 .. Len(x) :
             (a \o Between(x))[Len(a) + 1 + n] = x[n] /\ x[n] # QuoteMark
    BY <1>1, BetweenAt, Zenon
  <2>2. /\ Len(b) \in Nat /\ Len(y) \in Nat
        /\ Len(b \o Between(y)) = Len(b) + Len(y) + 2
        /\ \A n \in 1 .. Len(y) :
             (b \o Between(y))[Len(b) + 1 + n] = y[n] /\ y[n] # QuoteMark
    BY <1>1, BetweenAt, Zenon
  <2>3. Len(a \o Between(x)) = Len(b \o Between(y))
    BY <1>2, Zenon
  <2> QED
    BY <2>1, <2>2, <2>3, Zenon
<1>5. Len(x) = Len(y) /\ Len(a) = Len(b)
  BY <1>3, <1>4
<1>6. \A n \in 1 .. Len(x) : x[n] = y[n]
  BY <1>2, <1>4, <1>5
<1>7. x = y
  BY <1>1, <1>5, <1>6, SeqEqual
<1>8. Between(x) \in Seq(Shown) /\ a \o Between(x) = b \o Between(x)
  BY <1>1, <1>2, <1>7, BetweenAt, Zenon
<1> QED
  BY <1>1, <1>7, <1>8, ConcatSimplifications, Zenon

LEMMA LastTellsApart ==
  \A S : \A x, y \in Seq(S) : \A m, k \in S : SameEnd(x, <<m>>, y, <<k>>) => x = y /\ m = k
<1>1. ASSUME NEW S, NEW x \in Seq(S), NEW y \in Seq(S), NEW m \in S, NEW k \in S,
             x \o <<m>> = y \o <<k>>
      PROVE  x = y /\ m = k
  <2>1. Append(x, m) = Append(y, k)
    BY <1>1, AppendIsConcat
  <2> QED
    BY <2>1, AppendInjective
<1> QED
  BY <1>1, Zenon DEF SameEnd

LEMMA Regroup ==
  ASSUME NEW x \in Seq(Shown), NEW y \in Seq(Shown), NEW z \in Seq(Shown)
  PROVE  (x \o y) \o z = x \o (y \o z)
BY ConcatAssociative

LEMMA QuoteEnds ==
  ASSUME NEW a \in Seq(Shown), NEW t \in Seq(Characters)
  PROVE  /\ Quote(t) \in Seq(Shown)
         /\ \E x \in Seq(Shown) : a \o Quote(t) = x \o <<QuoteMark>>
<1> DEFINE q == <<QuoteMark>>
<1>1. q \in Seq(Shown)
  BY DEF Shown, Marks
<1>2. Escaped(t) \in Seq(Shown)
  BY EscapedReadsBack
<1> HIDE DEF q
<1>3. q \o Escaped(t) \in Seq(Shown) /\ Quote(t) = (q \o Escaped(t)) \o q
  BY <1>1, <1>2, ConcatProperties DEF Quote, q
<1>4. a \o (q \o Escaped(t)) \in Seq(Shown)
  BY <1>3, ConcatProperties
<1>5. a \o Quote(t) = (a \o (q \o Escaped(t))) \o q
  <2> DEFINE x == q \o Escaped(t)
  <2>1. x \in Seq(Shown) /\ Quote(t) = x \o q
    BY <1>3
  <2> HIDE DEF x
  <2>2. a \o (x \o q) = (a \o x) \o q
    BY <1>1, <2>1, Regroup, Zenon
  <2> QED
    BY <2>1, <2>2 DEF x
<1>6. Quote(t) \in Seq(Shown)
  BY <1>1, <1>3, ConcatProperties
<1> QED
  BY <1>4, <1>5, <1>6 DEF q

\* A contact point is told by its end, whatever stands before it.
Labelled(c) == Quote(c.value) \o Quote(c.label)
Flag(c) == IF c.primary THEN <<PrimaryMark>> ELSE <<>>

LEMMA ContactPointParts ==
  ASSUME NEW c \in ContactPoints, NEW d \in Seq(Shown)
  PROVE  /\ c.value \in Seq(Characters) /\ c.label \in Seq(Characters)
         /\ d \o Quote(c.value) \in Seq(Shown)
         /\ d \o Labelled(c) \in Seq(Shown)
         /\ d \o Labelled(c) = (d \o Quote(c.value)) \o Quote(c.label)
         /\ \E x \in Seq(Shown) : d \o Labelled(c) = x \o <<QuoteMark>>
         /\ d \o ContactPoint(c) = (d \o Labelled(c)) \o Flag(c)
         /\ Labelled(c) \in Seq(Shown) /\ Flag(c) \in Seq(Shown)
         /\ ContactPoint(c) = Labelled(c) \o Flag(c)
<1>1. c.value \in Seq(Characters) /\ c.label \in Seq(Characters)
  BY DEF ContactPoints
<1>2. Quote(c.value) \in Seq(Shown) /\ Quote(c.label) \in Seq(Shown)
  BY <1>1, QuoteEnds
<1>3. /\ d \o Quote(c.value) \in Seq(Shown) /\ Labelled(c) \in Seq(Shown)
      /\ d \o Labelled(c) = (d \o Quote(c.value)) \o Quote(c.label)
  <2> DEFINE v == Quote(c.value)
             l == Quote(c.label)
  <2>1. v \in Seq(Shown) /\ l \in Seq(Shown) /\ Labelled(c) = v \o l
    BY <1>2 DEF Labelled
  <2> HIDE DEF v, l
  <2>2. d \o v \in Seq(Shown) /\ v \o l \in Seq(Shown) /\ d \o (v \o l) = (d \o v) \o l
    BY <2>1, ConcatProperties, ConcatAssociative
  <2> QED
    BY <2>1, <2>2 DEF v, l
<1>4. d \o Labelled(c) \in Seq(Shown)
  BY <1>3, ConcatProperties
<1>5. \E x \in Seq(Shown) : d \o Labelled(c) = x \o <<QuoteMark>>
  <2>1. \E x \in Seq(Shown) : (d \o Quote(c.value)) \o Quote(c.label) = x \o <<QuoteMark>>
    BY <1>1, <1>3, QuoteEnds
  <2> QED
    BY <1>3, <2>1
<1>6. ContactPoint(c) = Labelled(c) \o Flag(c) /\ Flag(c) \in Seq(Shown)
  <2>1. ContactPoint(c) = Labelled(c) \o Flag(c)
    BY Zenon DEF ContactPoint, Labelled, Flag
  <2>2. <<PrimaryMark>> \in Seq(Shown) /\ <<>> \in Seq(Shown)
    BY DEF Shown, Marks
  <2>3. Flag(c) \in Seq(Shown)
    BY <2>2, Zenon DEF Flag
  <2> QED
    BY <2>1, <2>3
<1>7. d \o ContactPoint(c) = (d \o Labelled(c)) \o Flag(c)
  <2>1. d \o (Labelled(c) \o Flag(c)) = (d \o Labelled(c)) \o Flag(c)
    <3> DEFINE n == Labelled(c)
               l == Flag(c)
    <3>1. n \in Seq(Shown) /\ l \in Seq(Shown)
      BY <1>3, <1>6
    <3> HIDE DEF n, l
    <3>2. d \o (n \o l) = (d \o n) \o l
      BY <3>1, Regroup, Zenon
    <3> QED
      BY <3>2 DEF n, l
  <2> QED
    BY <1>6, <2>1, Zenon
<1> QED
  BY <1>1, <1>3, <1>4, <1>5, <1>6, <1>7

LEMMA ContactPointsToldApart ==
  ASSUME NEW a \in Seq(Shown), NEW b \in Seq(Shown),
         NEW p \in ContactPoints, NEW q \in ContactPoints,
         SameEnd(a, ContactPoint(p), b, ContactPoint(q))
  PROVE  p = q
<1>1. PrimaryMark \in Shown /\ QuoteMark \in Shown /\ PrimaryMark # QuoteMark
  BY MarksDiffer DEF Shown, Marks
<1>0. \A x, y \in Seq(Shown) : \A m, k \in Shown :
        SameEnd(x, <<m>>, y, <<k>>) => x = y /\ m = k
  BY LastTellsApart, Zenon
<1>2. /\ p.value \in Seq(Characters) /\ p.label \in Seq(Characters)
      /\ a \o Quote(p.value) \in Seq(Shown)
      /\ a \o Labelled(p) = (a \o Quote(p.value)) \o Quote(p.label)
      /\ q.value \in Seq(Characters) /\ q.label \in Seq(Characters)
      /\ b \o Quote(q.value) \in Seq(Shown)
      /\ b \o Labelled(q) = (b \o Quote(q.value)) \o Quote(q.label)
  BY ContactPointParts
<1>3. (a \o Labelled(p)) \o Flag(p) = (b \o Labelled(q)) \o Flag(q)
  BY ContactPointParts DEF SameEnd
<1>4. /\ a \o Labelled(p) \in Seq(Shown) /\ \E x \in Seq(Shown) : a \o Labelled(p) = x \o <<QuoteMark>>
      /\ b \o Labelled(q) \in Seq(Shown) /\ \E x \in Seq(Shown) : b \o Labelled(q) = x \o <<QuoteMark>>
  BY ContactPointParts
<1>5. p.primary = q.primary /\ a \o Labelled(p) = b \o Labelled(q)
  <2>1. p.primary \in BOOLEAN /\ q.primary \in BOOLEAN
    BY DEF ContactPoints
  <2>2. CASE p.primary /\ q.primary
    <3>1. (a \o Labelled(p)) \o <<PrimaryMark>> = (b \o Labelled(q)) \o <<PrimaryMark>>
      BY <1>3, <2>2 DEF Flag
    <3>2. SameEnd(a \o Labelled(p), <<PrimaryMark>>, b \o Labelled(q), <<PrimaryMark>>)
      BY <3>1, Zenon DEF SameEnd
    <3>3. a \o Labelled(p) = b \o Labelled(q)
      BY <1>1, <1>4, <3>2, <1>0, Zenon
    <3> QED
      BY <2>2, <3>3
  <2>3. CASE ~p.primary /\ ~q.primary
    BY <1>3, <1>4, <2>1, <2>3, ConcatEmptySeq DEF Flag
  <2>4. CASE p.primary /\ ~q.primary
    <3>1. (a \o Labelled(p)) \o <<PrimaryMark>> = b \o Labelled(q)
      BY <1>3, <1>4, <2>4, ConcatEmptySeq DEF Flag
    <3>2. PICK x \in Seq(Shown) : b \o Labelled(q) = x \o <<QuoteMark>>
      BY <1>4
    <3>3. SameEnd(a \o Labelled(p), <<PrimaryMark>>, x, <<QuoteMark>>)
      BY <3>1, <3>2, Zenon DEF SameEnd
    <3>4. PrimaryMark = QuoteMark
      BY <1>1, <1>4, <3>2, <3>3, <1>0, Zenon
    <3> QED
      BY <1>1, <3>4
  <2>5. CASE ~p.primary /\ q.primary
    <3>1. (b \o Labelled(q)) \o <<PrimaryMark>> = a \o Labelled(p)
      BY <1>3, <1>4, <2>5, ConcatEmptySeq DEF Flag
    <3>2. PICK x \in Seq(Shown) : a \o Labelled(p) = x \o <<QuoteMark>>
      BY <1>4
    <3>3. SameEnd(b \o Labelled(q), <<PrimaryMark>>, x, <<QuoteMark>>)
      BY <3>1, <3>2, Zenon DEF SameEnd
    <3>4. PrimaryMark = QuoteMark
      BY <1>1, <1>4, <3>2, <3>3, <1>0, Zenon
    <3> QED
      BY <1>1, <3>4
  <2> QED
    BY <2>1, <2>2, <2>3, <2>4, <2>5
<1>6. a \o Quote(p.value) = b \o Quote(q.value) /\ p.label = q.label
  <2>1. (a \o Quote(p.value)) \o Quote(p.label) = (b \o Quote(q.value)) \o Quote(q.label)
    BY <1>2, <1>5
  <2> DEFINE x == a \o Quote(p.value)
             y == b \o Quote(q.value)
  <2>2. x \in Seq(Shown) /\ y \in Seq(Shown)
    BY <1>2
  <2>3. SameEnd(x, Quote(p.label), y, Quote(q.label))
    BY <2>1, Zenon DEF SameEnd
  <2> HIDE DEF x, y
  <2>4. x = y /\ p.label = q.label
    BY <1>2, <2>2, <2>3, QuotesTellApart, Zenon
  <2> QED
    BY <2>4 DEF x, y
<1>7. p.value = q.value
  <2>1. SameEnd(a, Quote(p.value), b, Quote(q.value))
    BY <1>6, Zenon DEF SameEnd
  <2> QED
    BY <1>2, <2>1, QuotesTellApart, Zenon
<1>8. /\ p = [value |-> p.value, label |-> p.label, primary |-> p.primary]
      /\ q = [value |-> q.value, label |-> q.label, primary |-> q.primary]
  BY DEF ContactPoints
<1> QED
  BY <1>5, <1>6, <1>7, <1>8, Zenon

\* A participant too.
Present == People \cup {Comma, PrimaryFlag}

LEMMA ParticipantsToldApart ==
  ASSUME NEW a \in Seq(Present), NEW b \in Seq(Present),
         NEW p \in Participants, NEW q \in Participants,
         SameEnd(a, Participant(p), b, Participant(q))
  PROVE  p = q
<1>0. \A x, y \in Seq(Present) : \A m, k \in Present :
        SameEnd(x, <<m>>, y, <<k>>) => x = y /\ m = k
  BY LastTellsApart, Zenon
<1>1. PrimaryFlag \in Present /\ \A c \in Participants :
        /\ c.person \in Present /\ c.person # PrimaryFlag /\ c.primary \in BOOLEAN
  BY PeopleAssumption DEF Participants, Present
<1>2. ASSUME NEW c \in Participants, NEW d \in Seq(Present)
      PROVE  /\ d \o <<c.person>> \in Seq(Present)
             /\ c.primary => d \o Participant(c) = (d \o <<c.person>>) \o <<PrimaryFlag>>
             /\ ~c.primary => d \o Participant(c) = d \o <<c.person>>
  <2>1. <<c.person>> \in Seq(Present) /\ <<PrimaryFlag>> \in Seq(Present)
    BY <1>1
  <2>2. d \o <<c.person>> \in Seq(Present)
    BY <2>1, ConcatProperties
  <2>3. c.primary => d \o Participant(c) = (d \o <<c.person>>) \o <<PrimaryFlag>>
    BY <2>1, ConcatAssociative DEF Participant
  <2>4. ~c.primary => d \o Participant(c) = d \o <<c.person>>
    BY <2>1, ConcatEmptySeq DEF Participant
  <2> QED
    BY <2>2, <2>3, <2>4
<1>3. p.primary = q.primary /\ p.person = q.person
  <2> DEFINE x == a \o <<p.person>>
             y == b \o <<q.person>>
  <2>1. /\ x \in Seq(Present) /\ y \in Seq(Present)
        /\ p.primary => a \o Participant(p) = x \o <<PrimaryFlag>>
        /\ ~p.primary => a \o Participant(p) = x
        /\ q.primary => b \o Participant(q) = y \o <<PrimaryFlag>>
        /\ ~q.primary => b \o Participant(q) = y
    BY <1>2
  <2>2. x = y => p.person = q.person
    <3>1. x = y => SameEnd(a, <<p.person>>, b, <<q.person>>)
      BY Zenon DEF SameEnd
    <3> QED
      BY <1>1, <3>1, <1>0, Zenon
  <2>3. x \o <<PrimaryFlag>> # y /\ y \o <<PrimaryFlag>> # x
    <3>1. /\ x \o <<PrimaryFlag>> = y => SameEnd(x, <<PrimaryFlag>>, b, <<q.person>>)
          /\ y \o <<PrimaryFlag>> = x => SameEnd(y, <<PrimaryFlag>>, a, <<p.person>>)
      BY Zenon DEF SameEnd
    <3>2. x \in Seq(Present) /\ y \in Seq(Present)
      BY <2>1
    <3>3. PrimaryFlag \in Present /\ p.person \in Present /\ q.person \in Present
          /\ p.person # PrimaryFlag /\ q.person # PrimaryFlag
      BY <1>1
    <3> HIDE DEF x, y
    <3>4. ~SameEnd(x, <<PrimaryFlag>>, b, <<q.person>>)
      <4>1. SUFFICES ASSUME SameEnd(x, <<PrimaryFlag>>, b, <<q.person>>) PROVE FALSE
        OBVIOUS
      <4>2. PrimaryFlag = q.person
        BY <3>2, <3>3, <1>0, <4>1, Zenon
      <4> QED
        BY <3>3, <4>2, Zenon
    <3>5. ~SameEnd(y, <<PrimaryFlag>>, a, <<p.person>>)
      <4>1. SUFFICES ASSUME SameEnd(y, <<PrimaryFlag>>, a, <<p.person>>) PROVE FALSE
        OBVIOUS
      <4>2. PrimaryFlag = p.person
        BY <3>2, <3>3, <1>0, <4>1, Zenon
      <4> QED
        BY <3>3, <4>2, Zenon
    <3> QED
      BY <3>1, <3>4, <3>5, Zenon
  <2>4. x \o <<PrimaryFlag>> = y \o <<PrimaryFlag>> => x = y
    <3>1. x \in Seq(Present) /\ y \in Seq(Present) /\ PrimaryFlag \in Present
      BY <1>1, <2>1
    <3> HIDE DEF x, y
    <3>2. x \o <<PrimaryFlag>> = y \o <<PrimaryFlag>> => SameEnd(x, <<PrimaryFlag>>, y, <<PrimaryFlag>>)
      BY Zenon DEF SameEnd
    <3> QED
      BY <3>1, <3>2, <1>0, Zenon
  <2> HIDE DEF x, y
  <2>5. a \o Participant(p) = b \o Participant(q)
    BY DEF SameEnd
  <2> QED
    BY <1>1, <2>1, <2>2, <2>3, <2>4, <2>5
<1> QED
  BY <1>3 DEF Participants

\* So are lists of what is told apart.
ShowsApart(E, show, Tokens) ==
  /\ \A p \in E : show[p] # <<>>
  /\ \A p, q \in E : \A a, b \in Seq(Tokens) : SameEnd(a, show[p], b, show[q]) => p = q
SameList(show, v, w) ==
  Joined([n \in DOMAIN v |-> show[v[n]]]) = Joined([n \in DOMAIN w |-> show[w[n]]])

LEMMA ListsToldApart ==
  ASSUME NEW Tokens, Comma \in Tokens, NEW E, NEW show \in [E -> Seq(Tokens)],
         ShowsApart(E, show, Tokens), NEW v \in Seq(E), NEW w \in Seq(E), SameList(show, v, w)
  PROVE  v = w
<1> DEFINE S == {show[p] : p \in E}
           ps == [n \in 1 .. Len(v) |-> show[v[n]]]
           qs == [n \in 1 .. Len(w) |-> show[w[n]]]
<1>1. /\ Len(v) \in Nat /\ DOMAIN v = 1 .. Len(v) /\ \A n \in 1 .. Len(v) : v[n] \in E
      /\ Len(w) \in Nat /\ DOMAIN w = 1 .. Len(w) /\ \A n \in 1 .. Len(w) : w[n] \in E
  BY LenProperties, ElementOfSeq
<1>2. S \in SUBSET Seq(Tokens) /\ <<>> \notin S
  BY DEF ShowsApart
<1>3. \A p \in E : show[p] \in S
  OBVIOUS
<1>4. TellsApart(S, Tokens)
  <2>1. ASSUME NEW p \in E, NEW q \in E, NEW a \in Seq(Tokens), NEW b \in Seq(Tokens),
               SameEnd(a, show[p], b, show[q])
        PROVE  show[p] = show[q]
    BY <2>1, Zenon DEF ShowsApart
  <2>2. ASSUME NEW p \in S, NEW q \in S, NEW a \in Seq(Tokens), NEW b \in Seq(Tokens),
               SameEnd(a, p, b, q)
        PROVE  p = q
    <3>1. PICK c \in E : p = show[c]
      OBVIOUS
    <3>2. PICK d \in E : q = show[d]
      OBVIOUS
    <3>3. SameEnd(a, show[c], b, show[d])
      BY <2>2, <3>1, <3>2
    <3> QED
      BY <2>1, <3>1, <3>2, <3>3
  <2> QED
    BY <2>2, Zenon DEF TellsApart
<1> HIDE DEF S
<1>5. ps \in Seq(S) /\ qs \in Seq(S) /\ Len(ps) = Len(v) /\ Len(qs) = Len(w)
  BY <1>1, <1>3
<1>6. Joined(ps) = Joined(qs)
  BY <1>1 DEF SameList
<1> HIDE DEF ps, qs
<1>7. ps = qs
  BY <1>2, <1>4, <1>5, <1>6, JoinedTellsApart, Zenon
<1>8. Len(v) = Len(w)
  BY <1>5, <1>7
<1>9. ASSUME NEW n \in 1 .. Len(v) PROVE v[n] = w[n]
  <2>1. show[v[n]] = show[w[n]] /\ v[n] \in E /\ w[n] \in E
    BY <1>1, <1>7, <1>8 DEF ps, qs
  <2>2. <<>> \in Seq(Tokens) /\ SameEnd(<<>>, show[v[n]], <<>>, show[w[n]])
    BY <2>1 DEF SameEnd
  <2> QED
    BY <2>1, <2>2, Zenon DEF ShowsApart
<1> QED
  BY <1>8, <1>9, SeqEqual

LEMMA JoinedOfNone ==
  ASSUME NEW Tokens, Comma \in Tokens PROVE Joined(<<>>) = <<>>
<1>1. <<>> \in Seq(Seq(Tokens)) /\ Seq(Tokens) \in SUBSET Seq(Tokens) /\ Len(<<>>) = 0
  OBVIOUS
<1>2. PICK f : Joined(<<>>) = f[Len(<<>>)] /\ JoinsBy(<<>>, f, Tokens)
  BY <1>1, JoinedParts, Zenon
<1> QED
  BY <1>1, <1>2, Zenon DEF JoinsBy

\* What a collection projects to is that of no other (projectCollection's
\* comment): what it holds, how often and in which order.
THEOREM EmailsToldApart ==
  ASSUME NEW v \in Seq(ContactPoints), NEW w \in Seq(ContactPoints),
         Project("emails", v) = Project("emails", w)
  PROVE  v = w
<1> DEFINE show == [c \in ContactPoints |-> ContactPoint(c)]
<1>1. Comma \in Shown /\ <<>> \in Seq(Shown)
  BY DEF Shown, Marks
<1>2. ASSUME NEW c \in ContactPoints PROVE ContactPoint(c) \in Seq(Shown) /\ ContactPoint(c) # <<>>
  <2>1. /\ Labelled(c) \in Seq(Shown) /\ Flag(c) \in Seq(Shown)
        /\ ContactPoint(c) = Labelled(c) \o Flag(c)
        /\ \E x \in Seq(Shown) : <<>> \o Labelled(c) = x \o <<QuoteMark>>
    BY <1>1, ContactPointParts
  <2>2. <<QuoteMark>> \in Seq(Shown) /\ <<QuoteMark>> # <<>>
    BY DEF Shown, Marks
  <2>3. Labelled(c) # <<>>
    BY <2>1, <2>2, ConcatEmptySeq, ConcatEqualIffEmpty
  <2> QED
    BY <2>1, <2>3, ConcatProperties, ConcatEqualIffEmpty
<1>3. /\ \A n \in DOMAIN v : v[n] \in ContactPoints
      /\ \A n \in DOMAIN w : w[n] \in ContactPoints
  BY LenProperties, ElementOfSeq
<1>4. /\ Project("emails", v) = Joined([n \in DOMAIN v |-> show[v[n]]])
      /\ Project("emails", w) = Joined([n \in DOMAIN w |-> show[w[n]]])
  BY <1>3 DEF Project
<1>5. /\ show \in [ContactPoints -> Seq(Shown)] /\ \A c \in ContactPoints : show[c] # <<>>
      /\ \A c \in ContactPoints : show[c] = ContactPoint(c)
  BY <1>2
<1> HIDE DEF show
<1>6. ASSUME NEW p \in ContactPoints, NEW q \in ContactPoints, NEW a \in Seq(Shown), NEW b \in Seq(Shown),
             SameEnd(a, show[p], b, show[q])
      PROVE  p = q
  <2>1. SameEnd(a, ContactPoint(p), b, ContactPoint(q))
    BY <1>5, <1>6
  <2> QED
    BY <2>1, ContactPointsToldApart, Zenon
<1>7. SameList(show, v, w)
  BY <1>4 DEF SameList
<1>8. ShowsApart(ContactPoints, show, Shown)
  BY <1>5, <1>6, Zenon DEF ShowsApart
<1> QED
  BY <1>1, <1>5, <1>7, <1>8, ListsToldApart, Zenon

\* The same of participants (projectParticipants' "no two distinct lists can
\* collide").
THEOREM ParticipantListsToldApart ==
  ASSUME NEW v \in Seq(Participants), NEW w \in Seq(Participants),
         Project("participants", v) = Project("participants", w)
  PROVE  v = w
<1> DEFINE show == [c \in Participants |-> Participant(c)]
<1>1. Comma \in Present
  BY DEF Present
<1>2. ASSUME NEW c \in Participants PROVE Participant(c) \in Seq(Present) /\ Participant(c) # <<>>
  <2>1. <<c.person>> \in Seq(Present) /\ <<PrimaryFlag>> \in Seq(Present) /\ <<c.person>> # <<>>
        /\ <<>> \in Seq(Present)
    BY DEF Participants, Present
  <2> QED
    BY <2>1, ConcatProperties, ConcatEqualIffEmpty DEF Participant
<1>3. /\ \A n \in DOMAIN v : v[n] \in Participants
      /\ \A n \in DOMAIN w : w[n] \in Participants
  BY LenProperties, ElementOfSeq
<1>4. /\ Project("participants", v) = Joined([n \in DOMAIN v |-> show[v[n]]])
      /\ Project("participants", w) = Joined([n \in DOMAIN w |-> show[w[n]]])
  BY <1>3 DEF Project
<1>5. /\ show \in [Participants -> Seq(Present)] /\ \A c \in Participants : show[c] # <<>>
      /\ \A c \in Participants : show[c] = Participant(c)
  BY <1>2
<1> HIDE DEF show
<1>6. ASSUME NEW p \in Participants, NEW q \in Participants, NEW a \in Seq(Present), NEW b \in Seq(Present),
             SameEnd(a, show[p], b, show[q])
      PROVE  p = q
  <2>1. SameEnd(a, Participant(p), b, Participant(q))
    BY <1>5, <1>6
  <2> QED
    BY <2>1, ParticipantsToldApart, Zenon
<1>7. SameList(show, v, w)
  BY <1>4 DEF SameList
<1>8. ShowsApart(Participants, show, Present)
  BY <1>5, <1>6, Zenon DEF ShowsApart
<1> QED
  BY <1>1, <1>5, <1>7, <1>8, ListsToldApart, Zenon

\* Only an empty collection projects to nothing.
LEMMA NothingIsEmpty ==
  /\ \A v \in Seq(ContactPoints) : Project("emails", v) = <<>> <=> v = <<>>
  /\ \A v \in Seq(Participants) : Project("participants", v) = <<>> <=> v = <<>>
<1>1. Joined(<<>>) = <<>>
  <2>1. Comma \in Shown
    BY DEF Shown, Marks
  <2> QED
    BY <2>1, JoinedOfNone
<1>2. /\ [n \in DOMAIN <<>> |-> ContactPoint(<<>>[n])] = <<>>
      /\ [n \in DOMAIN <<>> |-> Participant(<<>>[n])] = <<>>
  OBVIOUS
<1>3. Project("emails", <<>>) = <<>> /\ Project("participants", <<>>) = <<>>
  BY <1>1, <1>2 DEF Project
<1>4. <<>> \in Seq(ContactPoints) /\ <<>> \in Seq(Participants)
  OBVIOUS
<1> QED
  BY <1>3, <1>4, EmailsToldApart, ParticipantListsToldApart, Zenon
-----------------------------------------------------------------------------
\* The rounds of the loop of PrimaryParticipant.
Chosen(person) == [person |-> person, primary |-> TRUE]
Aside(p) == [person |-> p.person, primary |-> FALSE]
FoldRounds(person, others, out, m) ==
  [n \in 0 .. m |-> IF n = 0 THEN <<Chosen(person)>>
                    ELSE IF others[n].person = person THEN out[n - 1]
                    ELSE Append(out[n - 1], Aside(others[n]))]

LEMMA FoldRoundsGrow ==
  ASSUME NEW person, NEW others, NEW m \in Nat, NEW f
  PROVE  /\ \A n \in 0 .. m :
              FoldRounds(person, others, f, m + 1)[n] = FoldRounds(person, others, f, m)[n]
         /\ \A g : (\A n \in 0 .. m : g[n] = f[n]) =>
              FoldRounds(person, others, g, m + 1) = FoldRounds(person, others, f, m + 1)
<1>1. \A n \in 0 .. m : n \in 0 .. m + 1
  OBVIOUS
<1>2. \A n \in 0 .. m + 1 : n = 0 \/ n - 1 \in 0 .. m
  OBVIOUS
<1>3. ASSUME NEW g, \A n \in 0 .. m : g[n] = f[n]
      PROVE  FoldRounds(person, others, g, m + 1) = FoldRounds(person, others, f, m + 1)
  BY <1>2, <1>3 DEF FoldRounds
<1> QED
  BY <1>1, <1>3 DEF FoldRounds

LEMMA FoldedBySteps ==
  ASSUME NEW person, NEW others, Len(others) \in Nat
  PROVE  \E out : /\ out = FoldRounds(person, others, out, Len(others))
                  /\ PrimaryParticipant(person, others) = out[Len(others)]
<1> DEFINE reached == {m \in Nat : \E f : f = FoldRounds(person, others, f, m)}
<1>1. 0 \in reached
  <2> DEFINE f == [n \in 0 .. 0 |-> <<Chosen(person)>>]
  <2>1. FoldRounds(person, others, f, 0) = f
    BY DEF FoldRounds
  <2> QED
    BY <2>1
<1>2. ASSUME NEW m \in reached PROVE m + 1 \in reached
  <2>1. m \in Nat /\ \E f : f = FoldRounds(person, others, f, m)
    OBVIOUS
  <2>2. PICK f : f = FoldRounds(person, others, f, m)
    BY <2>1
  <2> DEFINE g == FoldRounds(person, others, f, m + 1)
  <2>3. \A n \in 0 .. m : g[n] = f[n]
    <3>1. \A n \in 0 .. m : FoldRounds(person, others, f, m + 1)[n] = FoldRounds(person, others, f, m)[n]
      BY <2>1, FoldRoundsGrow
    <3>2. g = FoldRounds(person, others, f, m + 1)
      OBVIOUS
    <3> HIDE DEF g
    <3> QED
      BY <2>2, <3>1, <3>2, Zenon
  <2>4. FoldRounds(person, others, g, m + 1) = g
    BY <2>1, <2>3, FoldRoundsGrow, Zenon
  <2>5. m + 1 \in Nat
    BY <2>1
  <2> QED
    BY <2>4, <2>5
<1>3. reached = Nat
  <2> HIDE DEF reached
  <2>1. reached \in SUBSET Nat
    BY DEF reached
  <2> QED
    BY <1>1, <1>2, <2>1, AllNumbers
<1>4. \E f : f = FoldRounds(person, others, f, Len(others))
  BY <1>3
<1> DEFINE out == CHOOSE f : f = FoldRounds(person, others, f, Len(others))
<1>5. out = FoldRounds(person, others, out, Len(others))
  BY <1>4
<1>6. PrimaryParticipant(person, others) = out[Len(others)]
  BY DEF PrimaryParticipant, FoldRounds, Chosen, Aside
<1> HIDE DEF out
<1> QED
  BY <1>5, <1>6

\* A list a person has been folded into: it comes first and is the primary one,
\* nobody else is, and it does not come again.
Folded(person, ps) ==
  /\ ps \in Seq(Participants) /\ Len(ps) \in Nat \ {0}
  /\ ps[1] = Chosen(person)
  /\ \A n \in 2 .. Len(ps) : ps[n].person # person /\ ps[n] = Aside(ps[n])

\* What is folded of the first n others.
FoldsBy(person, others, out) ==
  /\ PrimaryParticipant(person, others) = out[Len(others)]
  /\ out[0] = <<Chosen(person)>>
  /\ \A n \in 1 .. Len(others) :
       out[n] = IF others[n].person = person THEN out[n - 1]
                ELSE Append(out[n - 1], Aside(others[n]))

LEMMA FoldRound ==
  ASSUME NEW person, NEW others, Len(others) \in Nat
  PROVE  \E out : FoldsBy(person, others, out)
<1>1. PICK out : /\ out = FoldRounds(person, others, out, Len(others))
                 /\ PrimaryParticipant(person, others) = out[Len(others)]
  BY FoldedBySteps
<1>2. /\ FoldRounds(person, others, out, Len(others))[0] = <<Chosen(person)>>
      /\ \A n \in 1 .. Len(others) :
           FoldRounds(person, others, out, Len(others))[n] =
             IF others[n].person = person THEN out[n - 1]
             ELSE Append(out[n - 1], Aside(others[n]))
  <2>1. 0 \in 0 .. Len(others) /\ \A n \in 1 .. Len(others) : n \in 0 .. Len(others) /\ n # 0
    OBVIOUS
  <2> QED
    BY <2>1, Zenon DEF FoldRounds
<1>3. out[0] = <<Chosen(person)>>
  BY <1>1, <1>2, Zenon
<1>4. \A n \in 1 .. Len(others) :
        out[n] = IF others[n].person = person THEN out[n - 1]
                 ELSE Append(out[n - 1], Aside(others[n]))
  BY <1>1, <1>2, Zenon
<1> QED
  BY <1>1, <1>3, <1>4, Zenon DEF FoldsBy

LEMMA PrimaryParticipantFolds ==
  ASSUME NEW person \in People, NEW others \in Seq(Participants)
  PROVE  Folded(person, PrimaryParticipant(person, others))
<1>1. Len(others) \in Nat /\ \A n \in 1 .. Len(others) : others[n] \in Participants
  BY LenProperties, ElementOfSeq
<1> PICK out : FoldsBy(person, others, out)
  BY <1>1, FoldRound
<1>2. /\ PrimaryParticipant(person, others) = out[Len(others)]
      /\ out[0] = <<Chosen(person)>>
      /\ \A n \in 1 .. Len(others) :
           out[n] = IF others[n].person = person THEN out[n - 1]
                    ELSE Append(out[n - 1], Aside(others[n]))
  BY Zenon DEF FoldsBy
<1>3. Chosen(person) \in Participants
      /\ \A p \in Participants : Aside(p) \in Participants /\ Aside(p).person = p.person
                                 /\ Aside(Aside(p)) = Aside(p)
  BY DEF Chosen, Aside, Participants
<1> DEFINE T == {n \in Nat : n <= Len(others) => Folded(person, out[n])}
<1>4. 0 \in T
  <2>1. LET one == <<Chosen(person)>>
        IN  one \in Seq(Participants) /\ Len(one) = 1 /\ one[1] = Chosen(person)
    BY <1>3
  <2>2. Folded(person, <<Chosen(person)>>)
    BY <2>1 DEF Folded
  <2> QED
    BY <1>2, <2>2
<1>5. ASSUME NEW n \in T PROVE n + 1 \in T
  <2>1. SUFFICES ASSUME n + 1 <= Len(others) PROVE Folded(person, out[n + 1])
    OBVIOUS
  <2>2. n \in Nat /\ n + 1 \in 1 .. Len(others) /\ (n + 1) - 1 = n /\ Folded(person, out[n])
    BY <1>1, <2>1
  <2> HIDE DEF T
  <2> DEFINE o == others[n + 1]
             ps == out[n]
  <2>3. o \in Participants /\ Folded(person, ps)
        /\ out[n + 1] = IF o.person = person THEN ps ELSE Append(ps, Aside(o))
    BY <1>1, <1>2, <2>2
  <2> HIDE DEF o, ps
  <2>4. CASE o.person = person
    BY <2>3, <2>4
  <2>5. CASE o.person # person
    <3>1. ps \in Seq(Participants) /\ Len(ps) \in Nat \ {0} /\ ps[1] = Chosen(person)
          /\ \A k \in 2 .. Len(ps) : ps[k].person # person /\ ps[k] = Aside(ps[k])
      BY <2>3 DEF Folded
    <3> DEFINE qs == Append(ps, Aside(o))
    <3>2. /\ qs \in Seq(Participants) /\ Len(qs) = Len(ps) + 1
          /\ \A k \in 1 .. Len(ps) : qs[k] = ps[k]
          /\ qs[Len(ps) + 1] = Aside(o)
      BY <1>3, <2>3, <3>1, AppendProperties
    <3> HIDE DEF qs
    <3>3. Len(qs) \in Nat \ {0} /\ qs[1] = Chosen(person)
      BY <3>1, <3>2
    <3>4. ASSUME NEW k \in 2 .. Len(qs) PROVE qs[k].person # person /\ qs[k] = Aside(qs[k])
      <4>1. k \in 2 .. Len(ps) \/ k = Len(ps) + 1
        BY <3>1, <3>2
      <4>2. k \in 2 .. Len(ps) => qs[k] = ps[k]
        BY <3>1, <3>2
      <4> QED
        BY <1>3, <2>3, <2>5, <3>1, <3>2, <4>1, <4>2
    <3>5. Folded(person, qs)
      BY <3>2, <3>3, <3>4 DEF Folded
    <3> QED
      BY <2>3, <2>5, <3>5 DEF qs
  <2> QED
    BY <2>4, <2>5
<1> HIDE DEF T
<1>6. T = Nat
  BY <1>4, <1>5, AllNumbers DEF T
<1>7. Folded(person, out[Len(others)])
  BY <1>1, <1>6 DEF T
<1> QED
  BY <1>2, <1>7

\* Folding a person in again changes nothing.
LEMMA FoldedOnce ==
  ASSUME NEW person, NEW ps, Folded(person, ps)
  PROVE  PrimaryParticipant(person, ps) = ps
<1>1. /\ ps \in Seq(Participants) /\ Len(ps) \in Nat \ {0} /\ ps[1] = Chosen(person)
      /\ \A n \in 2 .. Len(ps) : ps[n].person # person /\ ps[n] = Aside(ps[n])
      /\ \A n \in 1 .. Len(ps) : ps[n] \in Participants
  BY ElementOfSeq DEF Folded
<1> PICK out : FoldsBy(person, ps, out)
  BY <1>1, FoldRound
<1>2. /\ PrimaryParticipant(person, ps) = out[Len(ps)]
      /\ out[0] = <<Chosen(person)>>
      /\ \A n \in 1 .. Len(ps) :
           out[n] = IF ps[n].person = person THEN out[n - 1]
                    ELSE Append(out[n - 1], Aside(ps[n]))
  BY Zenon DEF FoldsBy
<1> DEFINE Upto(qs, n) ==
             qs \in Seq(Participants) /\ Len(qs) = n /\ \A k \in 1 .. n : qs[k] = ps[k]
           T == {n \in Nat : (1 <= n /\ n <= Len(ps)) => Upto(out[n], n)}
<1>3. 0 \in T
  OBVIOUS
<1>4. ASSUME NEW n \in T PROVE n + 1 \in T
  <2>1. SUFFICES ASSUME n + 1 <= Len(ps) PROVE Upto(out[n + 1], n + 1)
    OBVIOUS
  <2>2. n \in Nat /\ n + 1 \in 1 .. Len(ps) /\ (n + 1) - 1 = n /\ n <= Len(ps)
    BY <1>1, <2>1
  <2>3. out[n + 1] = IF ps[n + 1].person = person THEN out[n]
                     ELSE Append(out[n], Aside(ps[n + 1]))
    BY <1>2, <2>2
  <2>4. CASE n = 0
    <3>1. ps[1].person = person
      BY <1>1 DEF Chosen
    <3>2. out[1] = <<ps[1]>> /\ ps[1] \in Participants
      BY <1>1, <1>2, <2>2, <2>3, <2>4, <3>1
    <3>3. Upto(<<ps[1]>>, 1)
      BY <3>2
    <3>4. n + 1 = 1
      BY <2>4
    <3> QED
      BY <3>2, <3>3, <3>4, Zenon
  <2>5. CASE n # 0
    <3>1. n + 1 \in 2 .. Len(ps) /\ 1 <= n
      BY <2>2, <2>5
    <3>2. Upto(out[n], n)
      BY <2>2, <3>1
    <3> HIDE DEF T
    <3>3. out[n + 1] = Append(out[n], ps[n + 1]) /\ ps[n + 1] \in Participants
      BY <1>1, <2>2, <2>3, <3>1
    <3> DEFINE a == out[n]
               e == ps[n + 1]
    <3>4. a \in Seq(Participants) /\ Len(a) = n /\ e \in Participants
          /\ \A k \in 1 .. n : a[k] = ps[k]
      BY <3>2, <3>3
    <3> HIDE DEF a, e
    <3>5. /\ Append(a, e) \in Seq(Participants) /\ Len(Append(a, e)) = n + 1
          /\ \A k \in 1 .. n : Append(a, e)[k] = ps[k] /\ Append(a, e)[n + 1] = e
      BY <3>4, AppendProperties
    <3>6. \A k \in 1 .. n + 1 : k \in 1 .. n \/ k = n + 1
      BY <2>2
    <3>7. Append(a, e)[n + 1] = e
      BY <3>4, AppendProperties
    <3>8. Upto(Append(a, e), n + 1)
      BY <3>5, <3>6, <3>7 DEF e
    <3> QED
      BY <3>3, <3>8 DEF a, e
  <2> QED
    BY <2>4, <2>5
<1> HIDE DEF T
<1>5. T = Nat
  BY <1>3, <1>4, AllNumbers DEF T
<1>6. Upto(out[Len(ps)], Len(ps))
  BY <1>1, <1>5 DEF T
<1>7. out[Len(ps)] = ps
  BY <1>1, <1>6, SeqEqual
<1> QED
  BY <1>2, <1>7

\* Pipedrive makes whoever was folded in the person of the activity.
LEMMA FoldedIsPrimary ==
  ASSUME NEW person, NEW ps, Folded(person, ps)
  PROVE  Primary(ps) = person /\ ps # <<>>
<1>1. /\ DOMAIN ps = 1 .. Len(ps) /\ Len(ps) \in Nat \ {0} /\ ps[1] = Chosen(person)
      /\ \A n \in 2 .. Len(ps) : ps[n] = Aside(ps[n])
  BY LenProperties DEF Folded
<1>2. 1 \in DOMAIN ps /\ ps[1].primary /\ ps[1].person = person
  BY <1>1 DEF Chosen
<1>3. ASSUME NEW n \in DOMAIN ps, ps[n].primary PROVE n = 1
  <2>1. n = 1 \/ n \in 2 .. Len(ps)
    BY <1>1
  <2>2. n \in 2 .. Len(ps) => ps[n].primary = FALSE
    <3>1. \A p : Aside(p).primary = FALSE
      BY DEF Aside
    <3> QED
      BY <1>1, <3>1
  <2> QED
    BY <1>3, <2>1, <2>2
<1>4. (CHOOSE n \in DOMAIN ps : ps[n].primary) = 1
  BY <1>2, <1>3
<1>5. Primary(ps) = person
  BY <1>2, <1>4, Zenon DEF Primary
<1> QED
  BY <1>1, <1>5

-----------------------------------------------------------------------------
\* Refused without a read, whichever of the four was called.
InvalidFor(k, i) ==
  CASE k = "person" -> PersonInvalid(i)
    [] k = "organization" -> OrganizationInvalid(i)
    [] k = "activity" -> ActivityInvalid(i)
    [] k = "note" -> NoteInvalid(i)

Makes(s) == input[s].action = "create"
Sends(s) == at[s] = "send" \/ outcome[s] \in {"written", "failed"}
Passed(s) == Sends(s) \/ outcome[s] = "rehearsed"
Judged(s) == ~Makes(s) /\ (Passed(s) \/ outcome[s] \in {"noop", "refused"})
HasRead(s) == ~Makes(s) /\ (at[s] = "decide" \/ Judged(s) \/ outcome[s] = "stale")

(***************************************************************************)
(* Where a call is, what it was told and what it may have done agree, and  *)
(* so does what it was allowed: a create never reads, nothing refused or   *)
(* rehearsed is sent, and a version was looked at before anything is.      *)
(***************************************************************************)
Ctl(s) ==
  /\ at[s] = "done" <=> outcome[s] # "none"
  /\ verdict[s] = "ok" <=> outcome[s] = "written"
  /\ verdict[s] \in {"no", "maybe"} <=> outcome[s] = "failed"
  /\ effect[s] # "open" => Sends(s)
  /\ Sends(s) => ~dry[s]
  /\ (floor /\ at[s] # "idle") => dry[s]
  /\ Judged(s) => VersionMatches(s)
  /\ at[s] = "idle" => ~Makes(s)
  /\ Makes(s) => at[s] \notin {"get", "decide"} /\ outcome[s] \notin {"unread", "stale", "noop", "refused"}
  /\ at[s] # "idle" => input[s] \in Inputs[kind]

\* What the checks on its way established, in terms of what it read.
Checks(s) ==
  /\ (at[s] \in {"get", "decide"} \/ Passed(s)) => ~InvalidFor(kind, input[s])
  /\ (kind = "note" /\ input[s].action = "delete" /\ Passed(s)) => seenAlive[s]
  /\ (Passed(s) /\ input[s].action \notin {"create", "delete"} \cup Transitions) =>
       {f \in Predicted(s) : Projected(before[s])[f] # <<>>} \subseteq input[s].overwrite
  /\ (outcome[s] = "noop" /\ input[s].action # "delete") => Predicted(s) = {}

(***************************************************************************)
(* What others did since: nothing before the write of a call not raced, no *)
(* later version between the reads of a call not overtaken, no restoring   *)
(* of what is gone.                                                        *)
(***************************************************************************)
Past(s) ==
  /\ (/\ ~Makes(s) /\ effect[s] = "open" /\ ~raced[s]
      /\ at[s] \in {"decide", "send"} \/ verdict[s] = "maybe") => rec = before[s]
  /\ (at[s] = "idle" \/ Makes(s)) => ~overtaken[s]
  /\ expect[s] # NoVersion =>
       /\ at[s] = "get" => expect[s] <= stamp
       /\ (at[s] = "get" /\ overtaken[s]) => expect[s] < stamp
       /\ (HasRead(s) /\ overtaken[s]) => expect[s] < version[s]
  /\ at[s] = "idle" => ~gone[s]
  /\ gone[s] => ~alive /\ (HasRead(s) => ~seenAlive[s])

\* What Pipedrive derives is derived of every record, also of one read before.
AllSettled == Settled(kind, rec) /\ \A s \in Sessions : Settled(kind, before[s])

RecordInv ==
  RecordTypeOK /\ AllSettled /\ \A s \in Sessions : Ctl(s) /\ Checks(s) /\ Past(s)

USE NoVersionAssumption, MaxEditsAssumption

-----------------------------------------------------------------------------
\* What Pipedrive makes of a record and a body has the record's fields, and its
\* types if the body has them.
LEMMA AfterFields ==
  ASSUME NEW k, NEW r, NEW sent
  PROVE  DOMAIN After(k, r, sent) = DOMAIN r
BY DEF After, Overlay

LEMMA OverlayTyped ==
  ASSUME NEW r, HoldsItsTypes(r), NEW req, HoldsItsTypes(req)
  PROVE  HoldsItsTypes(Overlay(r, req))
<1>1. \A f \in DOMAIN Overlay(r, req) : f \in DOMAIN r /\
        Overlay(r, req)[f] = IF f \in DOMAIN req THEN req[f] ELSE r[f]
  BY DEF Overlay
<1> QED
  BY <1>1 DEF HoldsItsTypes

LEMMA DerivedTyped ==
  ASSUME NEW k, NEW sent, HoldsItsTypes(sent)
  PROVE  HoldsItsTypes(Derived(k, sent))
<1>1. \A ps \in Seq(Participants) : Primary(ps) \in People \cup {Blank}
  <2> TAKE ps \in Seq(Participants)
  <2>1. \A n \in DOMAIN ps : ps[n].person \in People
    <3>1. DOMAIN ps = 1 .. Len(ps) /\ \A n \in 1 .. Len(ps) : ps[n] \in Participants
      BY LenProperties, ElementOfSeq
    <3>2. \A p \in Participants : p.person \in People
      BY DEF Participants
    <3> QED
      BY <3>1, <3>2, Zenon
  <2>2. CASE \E n \in DOMAIN ps : ps[n].primary
    <3> DEFINE n == CHOOSE m \in DOMAIN ps : ps[m].primary
    <3>1. n \in DOMAIN ps
      BY <2>2
    <3>2. Primary(ps) = ps[n].person
      BY <2>2 DEF Primary
    <3> QED
      BY <2>1, <3>1, <3>2
  <2>3. CASE ~\E n \in DOMAIN ps : ps[n].primary
    BY <2>3 DEF Primary
  <2> QED
    BY <2>2, <2>3
<1>2. CASE k = "person"
  BY <1>2 DEF Derived, Only, Nothing, HoldsItsTypes
<1>3. CASE k = "activity" /\ "participants" \in DOMAIN sent
  <2>1. Derived(k, sent) = Only("person_id", Primary(sent.participants))
    BY <1>3 DEF Derived
  <2>2. Primary(sent.participants) \in People \cup {Blank}
    BY <1>1, <1>3 DEF HoldsItsTypes
  <2> QED
    BY <2>1, <2>2 DEF Only, HoldsItsTypes
<1>4. CASE k # "person" /\ ~(k = "activity" /\ "participants" \in DOMAIN sent)
  BY <1>4 DEF Derived, Nothing, HoldsItsTypes
<1> QED
  BY <1>2, <1>3, <1>4

\* Only a note is moved off anything, and that is an anchor.
LEMMA MovedOffIs ==
  ASSUME NEW k, NEW sent
  PROVE  /\ MovedOff(k, sent) \subseteq {"deal_id", "org_id"}
         /\ k # "note" => MovedOff(k, sent) = {}
BY DEF MovedOff, Anchors

LEMMA AfterIs ==
  ASSUME NEW k, NEW r, NEW sent, NEW f \in DOMAIN r, f \notin MovedOff(k, sent)
  PROVE  After(k, r, sent)[f] = IF f \in DOMAIN Derived(k, sent) THEN Derived(k, sent)[f]
                                ELSE IF f \in DOMAIN sent THEN sent[f] ELSE r[f]
BY DEF After, Overlay

LEMMA AfterTyped ==
  ASSUME NEW k, NEW r, HoldsItsTypes(r), NEW sent, HoldsItsTypes(sent)
  PROVE  HoldsItsTypes(After(k, r, sent))
<1> DEFINE off == [f \in MovedOff(k, sent) |-> Blank]
<1>1. HoldsItsTypes(off)
  BY MovedOffIs DEF HoldsItsTypes
<1> QED
  BY <1>1, OverlayTyped, DerivedTyped DEF After

LEMMA KeptOf ==
  ASSUME NEW action, NEW req, NEW g
  PROVE  /\ g \in DOMAIN Kept(action, req) <=>
              g \in DOMAIN req /\ ((action = "create" \/ g \in Collections) => req[g] # EmptyOf(g))
         /\ g \in DOMAIN Kept(action, req) => Kept(action, req)[g] = req[g]
BY DEF Kept

\* A person_id is on no wire, so only deriving it changes it.
LEMMA PersonIdUnsent ==
  ASSUME NEW k \in Kinds, NEW i, k = "activity"
  PROVE  "person_id" \notin DOMAIN Wire(k, i.action, RequestFor(k, i))
<1> DEFINE folded == FoldPerson(RequestFor(k, i))
           body == [g \in DOMAIN folded \ {"person_id"} |-> folded[g]]
<1>1. Wire(k, i.action, RequestFor(k, i)) = Kept(i.action, body)
  BY DEF Wire, ActivityWire
<1>2. "person_id" \notin DOMAIN body
  OBVIOUS
<1> QED
  BY <1>1, <1>2, KeptOf

\* So has what is sent, if the caller's input has.
LEMMA FoldPersonTyped ==
  ASSUME NEW req, HoldsItsTypes(req)
  PROVE  HoldsItsTypes(FoldPerson(req))
<1>1. CASE ~Holds(req, "person_id")
  BY <1>1 DEF FoldPerson
<1>2. CASE Holds(req, "person_id")
  <2> DEFINE others == IF "participants" \in DOMAIN req THEN req.participants ELSE <<>>
  <2>1. req.person_id \in People /\ others \in Seq(Participants)
    BY <1>2 DEF Holds, HoldsItsTypes, EmptyOf, Collections
  <2>2. PrimaryParticipant(req.person_id, others) \in Seq(Participants)
    BY <2>1, PrimaryParticipantFolds DEF Folded
  <2>3. FoldPerson(req) = [f \in DOMAIN req \cup {"participants"} |->
          IF f = "participants" THEN PrimaryParticipant(req.person_id, others) ELSE req[f]]
    BY <1>2 DEF FoldPerson
  <2> HIDE DEF others
  <2> QED
    BY <2>2, <2>3 DEF HoldsItsTypes
<1> QED
  BY <1>1, <1>2

LEMMA PartTyped ==
  ASSUME NEW r, HoldsItsTypes(r), NEW q, DOMAIN q \subseteq DOMAIN r,
         \A f \in DOMAIN q : q[f] = r[f]
  PROVE  HoldsItsTypes(q)
BY DEF HoldsItsTypes

LEMMA RequestTyped ==
  ASSUME NEW k \in Kinds, NEW i, HoldsItsTypes(i.given)
  PROVE  HoldsItsTypes(RequestFor(k, i))
<1>1. HoldsItsTypes(Nothing)
  BY DEF Nothing, HoldsItsTypes
<1>2. HoldsItsTypes(NoteRequest(i))
  BY PartTyped DEF NoteRequest
<1>3. HoldsItsTypes(ActivityRequest(i))
  <2>1. HoldsItsTypes(Only("done", "true")) /\ HoldsItsTypes(Only("done", Blank))
    BY DEF Only, HoldsItsTypes
  <2> QED
    BY <2>1, FoldPersonTyped DEF ActivityRequest
<1> QED
  BY <1>1, <1>2, <1>3 DEF RequestFor

LEMMA WireTyped ==
  ASSUME NEW k \in Kinds, NEW i, HoldsItsTypes(i.given)
  PROVE  HoldsItsTypes(Wire(k, i.action, RequestFor(k, i)))
<1> DEFINE req == RequestFor(k, i)
           body == [f \in DOMAIN FoldPerson(req) \ {"person_id"} |-> FoldPerson(req)[f]]
<1>1. HoldsItsTypes(req)
  BY RequestTyped
<1> HIDE DEF req
<1>2. HoldsItsTypes(body)
  <2>1. HoldsItsTypes(FoldPerson(req))
    BY <1>1, FoldPersonTyped
  <2>2. DOMAIN body \subseteq DOMAIN FoldPerson(req)
        /\ \A f \in DOMAIN body : body[f] = FoldPerson(req)[f]
    OBVIOUS
  <2> QED
    BY <2>1, <2>2, PartTyped
<1> HIDE DEF body
<1>3. \A action, r : HoldsItsTypes(r) => HoldsItsTypes(Kept(action, r))
  <2> TAKE action, r
  <2>1. DOMAIN Kept(action, r) \subseteq DOMAIN r
        /\ \A f \in DOMAIN Kept(action, r) : Kept(action, r)[f] = r[f]
    BY DEF Kept
  <2> QED
    BY <2>1, PartTyped
<1>4. Wire(k, i.action, req) \in
        {Kept(i.action, req), Kept(i.action, body), Kept("create", req)}
  BY DEF Wire, PersonWire, OrganizationWire, ActivityWire, NoteWire, Kinds, body
<1>5. \A r \in {Kept(i.action, req), Kept(i.action, body), Kept("create", req)} : HoldsItsTypes(r)
  BY <1>1, <1>2, <1>3
<1> QED
  BY <1>4, <1>5 DEF req

\* What a call asks for has its types, also before it is called.
LEMMA GivenTyped ==
  ASSUME RecordTypeOK, NEW s \in Sessions
  PROVE  HoldsItsTypes(input[s].given)
<1>1. kind \in Kinds /\ input[s] \in Inputs[kind] \cup {NoInput}
  BY DEF RecordTypeOK
<1>2. HoldsItsTypes(NoInput.given)
  BY DEF NoInput, Nothing, HoldsItsTypes
<1> QED
  BY <1>1, <1>2, InputsAssumption

LEMMA InitRecordTyped == RecordInit => RecordTypeOK
<1> SUFFICES ASSUME RecordInit PROVE RecordTypeOK
  OBVIOUS
<1>1. kind \in Kinds /\ rec \in Starts[kind]
  BY DEF RecordInit
<1>2. DOMAIN rec = FieldsOf[kind] /\ HoldsItsTypes(rec)
  BY <1>1, StartsAssumption
<1> QED
  BY <1>1, <1>2 DEF RecordInit, RecordTypeOK, Write!Init

\* A step of anybody but a reader leaves what is asked and read as it is.
LEMMA BecomeTyped ==
  ASSUME RecordTypeOK, NEW r, NEW a \in BOOLEAN, NEW by, Become(r, a, by),
         DOMAIN r = FieldsOf[kind], HoldsItsTypes(r), edits' \in 0 .. MaxEdits,
         effect' \in [Sessions -> {"open", "made", "void"}], UNCHANGED verdict
  PROVE  RecordTypeOK'
BY DEF RecordTypeOK, Become, callVars, readVars

LEMMA NextRecordTyped == RecordTypeOK /\ [RecordNext]_handlerVars => RecordTypeOK'
<1> SUFFICES ASSUME RecordTypeOK, [RecordNext]_handlerVars PROVE RecordTypeOK'
  OBVIOUS
<1> USE DEF RecordTypeOK, recordVars, callVars, readVars, writeVars, pastVars, Goto, Finish
<1>1. ASSUME NEW s \in Sessions, NEW i \in Inputs[kind], NEW b, Dispatch(s, i, b)
      PROVE  RecordTypeOK'
  <2>1. i.dryRun \in BOOLEAN
    BY InputsAssumption
  <2> QED
    BY <1>1, <2>1 DEF Dispatch
<1>2. ASSUME NEW s \in Sessions, Get(s) PROVE RecordTypeOK'
  BY <1>2 DEF Get
<1>3. ASSUME NEW s \in Sessions, GetFails(s) PROVE RecordTypeOK'
  BY <1>3 DEF GetFails
<1>4. ASSUME NEW s \in Sessions, NEW b, Guard(s, b) PROVE RecordTypeOK'
  <2>1. \/ Goto(s, "send")
        \/ \E how \in {"stale", "noop", "refused", "rehearsed"} : Finish(s, how)
    BY <1>4 DEF Guard
  <2>2. UNCHANGED <<recordVars, callVars, readVars, writeVars, pastVars>>
    BY <1>4 DEF Guard
  <2> QED
    BY <2>1, <2>2
<1>5. ASSUME NEW s \in Sessions, NEW b, Delete(s, b) PROVE RecordTypeOK'
  BY <1>5 DEF Delete
<1>6. ASSUME NEW s \in Sessions, Written(s) PROVE RecordTypeOK'
  BY <1>6 DEF Written, Write!TellOk
<1>7. ASSUME NEW s \in Sessions, NotWritten(s) PROVE RecordTypeOK'
  <2>1. /\ effect' \in [Sessions -> {"open", "made", "void"}]
        /\ verdict' \in [Sessions -> {"none", "ok", "no", "maybe"}]
    BY <1>7 DEF NotWritten, Write!TellNo, Write!TellMaybe
  <2> QED
    BY <1>7, <2>1 DEF NotWritten
<1>8. ASSUME NEW s \in Sessions, Apply(s) PROVE RecordTypeOK'
  <2>1. effect' \in [Sessions -> {"open", "made", "void"}] /\ UNCHANGED verdict
    BY <1>8 DEF Apply, Write!Make
  <2>2. CASE input[s].action = "create"
    BY <1>8, <2>1, <2>2 DEF Apply
  <2>3. CASE input[s].action = "delete"
    BY <1>8, <2>1, <2>3, BecomeTyped DEF Apply
  <2>4. CASE input[s].action \notin {"create", "delete"}
    <3>1. Become(After(kind, rec, WireOf(s)), alive, {s}) /\ UNCHANGED edits
      BY <1>8, <2>4 DEF Apply
    <3>2. HoldsItsTypes(After(kind, rec, WireOf(s)))
      BY GivenTyped, WireTyped, AfterTyped DEF WireOf
    <3> QED
      BY <2>1, <3>1, <3>2, BecomeTyped, AfterFields
  <2> QED
    BY <2>2, <2>3, <2>4
<1>9. ASSUME NEW s \in Sessions, Lapse(s) PROVE RecordTypeOK'
  BY <1>9 DEF Lapse, Write!Expire
<1>10. CASE Edit
  <2>1. edits' \in 0 .. MaxEdits /\ UNCHANGED writeVars
    BY <1>10 DEF Edit
  <2>2. ASSUME NEW e \in Edits[kind], Become(After(kind, rec, e), alive, {}) PROVE RecordTypeOK'
    <3>1. HoldsItsTypes(After(kind, rec, e))
      BY EditsAssumption, AfterTyped
    <3> QED
      BY <2>1, <2>2, <3>1, BecomeTyped, AfterFields
  <2>3. CASE Become(rec, ~alive, {})
    BY <2>1, <2>3, BecomeTyped
  <2> QED
    BY <1>10, <2>2, <2>3 DEF Edit
<1>11. CASE UNCHANGED handlerVars
  BY <1>11 DEF handlerVars
<1> QED
  BY <1>1, <1>2, <1>3, <1>4, <1>5, <1>6, <1>7, <1>8, <1>9, <1>10, <1>11
  DEF RecordNext, Step, ManagePerson, ManageOrganization, ManageActivity, ManageNote,
      UpdatePerson, UpdateOrganization, WriteActivity, UpdateNote,
      DeletePerson, DeleteOrganization, DeleteActivity, DeleteNote

\* What is held of a record is one, whatever its calls send (RecordTypeOK).
THEOREM RecordTyping == RecordSpec => []RecordTypeOK
BY InitRecordTyped, NextRecordTyped, PTL DEF RecordSpec
-----------------------------------------------------------------------------
(***************************************************************************)
(* The parts of the invariant.  A step of one call, or of people in        *)
(* Pipedrive, touches what is known of another only through what it        *)
(* records of the race.                                                    *)
(***************************************************************************)
LEMMA CtlStep == RecordInv /\ [RecordNext]_handlerVars => (\A t \in Sessions : Ctl(t))'
<1> SUFFICES ASSUME RecordInv, [RecordNext]_handlerVars, NEW t \in Sessions PROVE Ctl(t)'
  OBVIOUS
<1> USE DEF RecordInv, RecordTypeOK, recordVars, callVars, readVars, writeVars, pastVars, Goto,
            Finish, Ctl, Makes, Sends, Passed, Judged, VersionMatches
<1>1. ASSUME NEW s \in Sessions, NEW i \in Inputs[kind], NEW b, Dispatch(s, i, b)
      PROVE  Ctl(t)'
  <2>1. i.dryRun \in BOOLEAN
    BY InputsAssumption
  <2>2. CASE t = s
    BY <1>1, <2>1, <2>2 DEF Dispatch
  <2>3. CASE t # s
    BY <1>1, <2>3 DEF Dispatch
  <2> QED
    BY <2>2, <2>3
<1>2. ASSUME NEW s \in Sessions, Get(s) PROVE Ctl(t)'
  <2>1. CASE t = s
    BY <1>2, <2>1 DEF Get
  <2>2. CASE t # s
    BY <1>2, <2>2 DEF Get
  <2> QED
    BY <2>1, <2>2
<1>3. ASSUME NEW s \in Sessions, GetFails(s) PROVE Ctl(t)'
  <2>1. CASE t = s
    BY <1>3, <2>1 DEF GetFails
  <2>2. CASE t # s
    BY <1>3, <2>2 DEF GetFails
  <2> QED
    BY <2>1, <2>2
<1>4. ASSUME NEW s \in Sessions, NEW b, Guard(s, b) PROVE Ctl(t)'
  <2>1. CASE t = s
    BY <1>4, <2>1 DEF Guard
  <2>2. CASE t # s
    BY <1>4, <2>2 DEF Guard
  <2> QED
    BY <2>1, <2>2
<1>5. ASSUME NEW s \in Sessions, NEW b, Delete(s, b) PROVE Ctl(t)'
  <2>1. CASE t = s
    BY <1>5, <2>1 DEF Delete
  <2>2. CASE t # s
    BY <1>5, <2>2 DEF Delete
  <2> QED
    BY <2>1, <2>2
<1>6. ASSUME NEW s \in Sessions, Written(s) PROVE Ctl(t)'
  <2>1. CASE t = s
    BY <1>6, <2>1 DEF Written, Write!TellOk
  <2>2. CASE t # s
    BY <1>6, <2>2 DEF Written, Write!TellOk
  <2> QED
    BY <2>1, <2>2
<1>7. ASSUME NEW s \in Sessions, NotWritten(s) PROVE Ctl(t)'
  <2>1. CASE t = s
    BY <1>7, <2>1 DEF NotWritten, Write!TellNo, Write!TellMaybe
  <2>2. CASE t # s
    BY <1>7, <2>2 DEF NotWritten, Write!TellNo, Write!TellMaybe
  <2> QED
    BY <2>1, <2>2
<1>8. ASSUME NEW s \in Sessions, Apply(s) PROVE Ctl(t)'
  <2>1. UNCHANGED <<callVars, at, readVars, outcome, verdict>>
    BY <1>8 DEF Apply, Write!Make, Become
  <2>2. effect' = [effect EXCEPT ![s] = "made"] /\ (at[s] = "send" \/ verdict[s] = "maybe")
    BY <1>8 DEF Apply, Write!Make
  <2> QED
    BY <2>1, <2>2
<1>9. ASSUME NEW s \in Sessions, Lapse(s) PROVE Ctl(t)'
  BY <1>9 DEF Lapse, Write!Expire
<1>10. CASE Edit
  BY <1>10 DEF Edit, Become
<1>11. CASE UNCHANGED handlerVars
  BY <1>11 DEF handlerVars
<1> QED
  BY <1>1, <1>2, <1>3, <1>4, <1>5, <1>6, <1>7, <1>8, <1>9, <1>10, <1>11
  DEF RecordNext, Step, ManagePerson, ManageOrganization, ManageActivity, ManageNote,
      UpdatePerson, UpdateOrganization, WriteActivity, UpdateNote,
      DeletePerson, DeleteOrganization, DeleteActivity, DeleteNote

\* What was checked of t stands as long as t stays where it is.
LEMMA ChecksKept ==
  ASSUME NEW t \in Sessions, Checks(t), kind' = kind,
         input'[t] = input[t], before'[t] = before[t], seenAlive'[t] = seenAlive[t],
         at'[t] \in {"get", "decide"} => at[t] \in {"get", "decide"},
         Passed(t)' => Passed(t), outcome'[t] = "noop" => outcome[t] = "noop"
  PROVE  Checks(t)'
<1>1. Predicted(t)' = Predicted(t)
  BY DEF Predicted
<1>2. \A f \in Predicted(t) : Projected(before[t])[f]' = Projected(before[t])[f]
  OBVIOUS
<1> QED
  BY <1>1, <1>2 DEF Checks

LEMMA ChecksStep == RecordInv /\ [RecordNext]_handlerVars => (\A t \in Sessions : Checks(t))'
<1> SUFFICES ASSUME RecordInv, [RecordNext]_handlerVars, NEW t \in Sessions PROVE Checks(t)'
  OBVIOUS
<1> USE DEF RecordInv, RecordTypeOK, recordVars, callVars, readVars, writeVars, pastVars, Goto,
            Finish, Sends, Passed
<1>0. Checks(t)
  OBVIOUS
<1>1. ASSUME NEW s \in Sessions, NEW i \in Inputs[kind], NEW b, Dispatch(s, i, b),
             b <=> InvalidFor(kind, i)
      PROVE  Checks(t)'
  <2>1. CASE t = s
    <3>1. /\ kind' = kind /\ input'[t] = i
          /\ at'[t] \in {"get", "send"} \/ outcome'[t] = "rehearsed" => ~InvalidFor(kind, i)
          /\ at'[t] # "decide" /\ outcome'[t] # "noop"
          /\ Passed(t)' => i.action = "create" /\ ~InvalidFor(kind, i)
      BY <1>1, <2>1 DEF Dispatch, Ctl
    <3> QED
      BY <3>1 DEF Checks
  <2>2. CASE t # s
    BY <1>0, <1>1, <2>2, ChecksKept DEF Dispatch
  <2> QED
    BY <2>1, <2>2
<1>2. ASSUME NEW s \in Sessions, Get(s) PROVE Checks(t)'
  <2>1. CASE t = s
    <3>1. /\ kind' = kind /\ input'[t] = input[t]
          /\ ~Passed(t)' /\ outcome'[t] # "noop" /\ ~InvalidFor(kind, input[t])
      BY <1>2, <2>1 DEF Get, Ctl, Checks
    <3> QED
      BY <3>1 DEF Checks
  <2>2. CASE t # s
    BY <1>0, <1>2, <2>2, ChecksKept DEF Get
  <2> QED
    BY <2>1, <2>2
<1>3. ASSUME NEW s \in Sessions, GetFails(s) PROVE Checks(t)'
  BY <1>0, <1>3, ChecksKept DEF GetFails
<1>4. ASSUME NEW s \in Sessions, NEW b, Guard(s, b), b => input[s].action \in Transitions
      PROVE  Checks(t)'
  <2>1. CASE t = s
    <3>1. UNCHANGED <<kind, input, before, seenAlive>>
      BY <1>4 DEF Guard
    <3>2. Predicted(t)' = Predicted(t)
      BY <3>1 DEF Predicted
    <3>3. ~InvalidFor(kind, input[t]) /\ input[t].action # "delete"
      BY <1>4, <2>1 DEF Guard, Checks
    <3>4. outcome'[t] = "noop" => Predicted(t) = {}
      BY <1>4, <2>1 DEF Guard, Ctl
    <3>5. Passed(t)' => b \/ {f \in Predicted(t) : Projected(before[t])[f] # <<>>}
                               \subseteq input[t].overwrite
      BY <1>4, <2>1 DEF Guard, Ctl
    <3> QED
      BY <1>4, <2>1, <3>1, <3>2, <3>3, <3>4, <3>5 DEF Checks
  <2>2. CASE t # s
    <3>1. /\ UNCHANGED <<kind, input, before, seenAlive>>
          /\ at'[t] = at[t] /\ outcome'[t] = outcome[t]
      BY <1>4, <2>2 DEF Guard
    <3> QED
      BY <1>0, <3>1, ChecksKept
  <2> QED
    BY <2>1, <2>2
<1>5. ASSUME NEW s \in Sessions, NEW b, Delete(s, b), kind = "note" => b = ~seenAlive[s]
      PROVE  Checks(t)'
  <2>1. CASE t = s
    <3>1. UNCHANGED <<kind, input, before, seenAlive>>
      BY <1>5 DEF Delete
    <3>2. ~InvalidFor(kind, input[t]) /\ input[t].action = "delete"
      BY <1>5, <2>1 DEF Delete, Checks
    <3>3. /\ b => at'[t] = "done" /\ outcome'[t] \in {"stale", "noop"}
          /\ (at'[t] = "send" \/ outcome'[t] = "rehearsed") => ~b
      <4>1. t \in DOMAIN at /\ t \in DOMAIN outcome /\ outcome[t] = "none"
        BY <1>5, <2>1 DEF Delete, Ctl
      <4> QED
        BY <1>5, <2>1, <4>1 DEF Delete
    <3>4. Passed(t)' => at'[t] = "send" \/ outcome'[t] = "rehearsed" \/ ~b
      BY <3>3
    <3>5. (kind = "note" /\ Passed(t)') => seenAlive[t]
      BY <1>5, <2>1, <3>3, <3>4
    <3> QED
      BY <3>1, <3>2, <3>5 DEF Checks
  <2>2. CASE t # s
    <3>1. /\ UNCHANGED <<kind, input, before, seenAlive>>
          /\ at'[t] = at[t] /\ outcome'[t] = outcome[t]
      BY <1>5, <2>2 DEF Delete
    <3> QED
      BY <1>0, <3>1, ChecksKept
  <2> QED
    BY <2>1, <2>2
<1>6. ASSUME NEW s \in Sessions, Written(s) \/ NotWritten(s) PROVE Checks(t)'
  <2>1. UNCHANGED <<kind, input, before, seenAlive>>
    BY <1>6 DEF Written, NotWritten
  <2>2. at[s] = "send" /\ at' = [at EXCEPT ![s] = "done"]
        /\ \E how \in {"written", "failed"} : outcome' = [outcome EXCEPT ![s] = how]
    BY <1>6 DEF Written, NotWritten
  <2> QED
    BY <1>0, <2>1, <2>2, ChecksKept
<1>7. ASSUME NEW s \in Sessions, Apply(s) \/ Lapse(s) PROVE Checks(t)'
  <2>1. UNCHANGED <<kind, input, before, seenAlive, at, outcome>>
    BY <1>7 DEF Apply, Lapse, Become
  <2> QED
    BY <1>0, <2>1, ChecksKept
<1>8. CASE Edit
  <2>1. UNCHANGED <<kind, input, before, seenAlive, at, outcome>>
    BY <1>8 DEF Edit, Become
  <2> QED
    BY <1>0, <2>1, ChecksKept
<1>9. CASE UNCHANGED handlerVars
  BY <1>0, <1>9, ChecksKept DEF handlerVars
<1>10. ASSUME NEW s \in Sessions, Step(s) PROVE Checks(t)'
  <2>1. CASE \E i \in Inputs[kind] : \/ ManagePerson(s, i) \/ ManageOrganization(s, i)
                                     \/ ManageActivity(s, i) \/ ManageNote(s, i)
    BY <1>1, <2>1 DEF ManagePerson, ManageOrganization, ManageActivity, ManageNote, InvalidFor
  <2>2. CASE UpdatePerson(s) \/ UpdateOrganization(s) \/ WriteActivity(s) \/ UpdateNote(s)
    BY <1>4, <2>2 DEF UpdatePerson, UpdateOrganization, WriteActivity, UpdateNote
  <2>3. CASE DeletePerson(s) \/ DeleteOrganization(s) \/ DeleteActivity(s) \/ DeleteNote(s)
    BY <1>5, <2>3 DEF DeletePerson, DeleteOrganization, DeleteActivity, DeleteNote
  <2> QED
    BY <1>2, <1>3, <1>6, <1>7, <1>10, <2>1, <2>2, <2>3 DEF Step
<1> QED
  BY <1>8, <1>9, <1>10 DEF RecordNext
\* What a change of the record by others does to what is known of a call.
LEMMA PastOvertaken ==
  ASSUME RecordInv, NEW t \in Sessions, NEW r, NEW a \in BOOLEAN, NEW by, Become(r, a, by),
         t \notin by, effect'[t] = effect[t], verdict' = verdict
  PROVE  Past(t)'
<1> USE DEF RecordInv, RecordTypeOK, callVars, readVars, Become
<1>1. /\ rec' = r /\ alive' = a
      /\ UNCHANGED <<at, input, expect, before, seenAlive, version, outcome>>
      /\ stamp \in Nat /\ stamp' \in {stamp, stamp + 1}
      /\ overtaken'[t] = (overtaken[t] \/ (at[t] = "get" /\ stamp' # stamp))
      /\ gone'[t] = (gone[t] /\ ~a)
  OBVIOUS
<1>2. /\ (HasRead(t) <=> HasRead(t)') /\ (Makes(t) <=> Makes(t)')
      /\ HasRead(t) => at[t] # "get"
  BY <1>1 DEF HasRead, Judged, Passed, Sends, Makes, Ctl
<1>3. (/\ ~Makes(t) /\ effect[t] = "open" /\ ~raced'[t]
       /\ at[t] \in {"decide", "send"} \/ verdict[t] = "maybe") => rec' = before[t]
  BY <1>1 DEF Past, Ctl
<1>4. (at[t] = "idle" \/ Makes(t)) => ~overtaken'[t]
  BY <1>1 DEF Past, Ctl
<1>5. expect[t] # NoVersion =>
        /\ at[t] = "get" => expect[t] <= stamp'
        /\ (at[t] = "get" /\ overtaken'[t]) => expect[t] < stamp'
        /\ (HasRead(t) /\ overtaken'[t]) => expect[t] < version[t]
  BY <1>1, <1>2 DEF Past
<1>6. (at[t] = "idle" => ~gone'[t]) /\ (gone'[t] => ~alive' /\ (HasRead(t) => ~seenAlive[t]))
  BY <1>1 DEF Past
<1> QED
  BY <1>1, <1>2, <1>3, <1>4, <1>5, <1>6 DEF Past

LEMMA PastStep == RecordInv /\ [RecordNext]_handlerVars => (\A t \in Sessions : Past(t))'
<1> SUFFICES ASSUME RecordInv, [RecordNext]_handlerVars, NEW t \in Sessions PROVE Past(t)'
  OBVIOUS
<1> USE DEF RecordInv, RecordTypeOK, recordVars, callVars, readVars, writeVars, pastVars, Goto,
            Finish, Past, Ctl, Makes, Sends, Passed, Judged, HasRead
<1>1. ASSUME NEW s \in Sessions, NEW i \in Inputs[kind], NEW b, Dispatch(s, i, b)
      PROVE  Past(t)'
  <2>1. CASE t = s
    BY <1>1, <2>1 DEF Dispatch
  <2>2. CASE t # s
    BY <1>1, <2>2 DEF Dispatch
  <2> QED
    BY <2>1, <2>2
<1>2. ASSUME NEW s \in Sessions, Get(s) PROVE Past(t)'
  <2>1. CASE t = s
    BY <1>2, <2>1 DEF Get
  <2>2. CASE t # s
    BY <1>2, <2>2 DEF Get
  <2> QED
    BY <2>1, <2>2
<1>3. ASSUME NEW s \in Sessions, GetFails(s) PROVE Past(t)'
  <2>1. CASE t = s
    BY <1>3, <2>1 DEF GetFails
  <2>2. CASE t # s
    BY <1>3, <2>2 DEF GetFails
  <2> QED
    BY <2>1, <2>2
<1>4. ASSUME NEW s \in Sessions, NEW b, Guard(s, b) PROVE Past(t)'
  <2>1. CASE t = s
    BY <1>4, <2>1 DEF Guard
  <2>2. CASE t # s
    BY <1>4, <2>2 DEF Guard
  <2> QED
    BY <2>1, <2>2
<1>5. ASSUME NEW s \in Sessions, NEW b, Delete(s, b) PROVE Past(t)'
  <2>1. CASE t = s
    BY <1>5, <2>1 DEF Delete
  <2>2. CASE t # s
    BY <1>5, <2>2 DEF Delete
  <2> QED
    BY <2>1, <2>2
<1>6. ASSUME NEW s \in Sessions, Written(s) PROVE Past(t)'
  <2>1. CASE t = s
    BY <1>6, <2>1 DEF Written, Write!TellOk
  <2>2. CASE t # s
    BY <1>6, <2>2 DEF Written, Write!TellOk
  <2> QED
    BY <2>1, <2>2
<1>7. ASSUME NEW s \in Sessions, NotWritten(s) PROVE Past(t)'
  <2>1. CASE t = s
    BY <1>7, <2>1 DEF NotWritten, Write!TellNo, Write!TellMaybe
  <2>2. CASE t # s
    BY <1>7, <2>2 DEF NotWritten, Write!TellNo, Write!TellMaybe
  <2> QED
    BY <2>1, <2>2
<1>8. ASSUME NEW s \in Sessions, Apply(s) PROVE Past(t)'
  <2>0. verdict' = verdict /\ effect' = [effect EXCEPT ![s] = "made"]
    BY <1>8 DEF Apply, Write!Make
  <2>1. CASE input[s].action = "create"
    BY <1>8, <2>0, <2>1 DEF Apply
  <2>2. CASE input[s].action # "create"
    <3>1. \E r, a : a \in BOOLEAN /\ Become(r, a, {s})
      <4>1. CASE input[s].action = "delete"
        BY <1>8, <4>1 DEF Apply
      <4>2. CASE input[s].action \notin {"create", "delete"}
        <5>1. Become(After(kind, rec, WireOf(s)), alive, {s})
          BY <1>8, <4>2 DEF Apply
        <5> QED
          BY <5>1
      <4> QED
        BY <2>2, <4>1, <4>2
    <3> PICK r, a : a \in BOOLEAN /\ Become(r, a, {s})
      BY <3>1
    <3>2. CASE t = s
      BY <2>0, <3>2 DEF Become
    <3>3. CASE t # s
      BY <2>0, <3>3, PastOvertaken
    <3> QED
      BY <3>2, <3>3
  <2> QED
    BY <2>1, <2>2
<1>9. ASSUME NEW s \in Sessions, Lapse(s) PROVE Past(t)'
  <2>1. CASE t = s
    BY <1>9, <2>1 DEF Lapse, Write!Expire
  <2>2. CASE t # s
    BY <1>9, <2>2 DEF Lapse, Write!Expire
  <2> QED
    BY <2>1, <2>2
<1>10. CASE Edit
  <2>1. UNCHANGED <<effect, verdict>>
    BY <1>10 DEF Edit
  <2>2. ASSUME NEW e \in Edits[kind], Become(After(kind, rec, e), alive, {}) PROVE Past(t)'
    BY <2>1, <2>2, PastOvertaken
  <2>3. CASE Become(rec, ~alive, {})
    BY <2>1, <2>3, PastOvertaken
  <2> QED
    BY <1>10, <2>2, <2>3 DEF Edit
<1>11. CASE UNCHANGED handlerVars
  BY <1>11 DEF handlerVars
<1> QED
  BY <1>1, <1>2, <1>3, <1>4, <1>5, <1>6, <1>7, <1>8, <1>9, <1>10, <1>11
  DEF RecordNext, Step, ManagePerson, ManageOrganization, ManageActivity, ManageNote,
      UpdatePerson, UpdateOrganization, WriteActivity, UpdateNote,
      DeletePerson, DeleteOrganization, DeleteActivity, DeleteNote

LEMMA AfterSettled ==
  ASSUME NEW k \in Kinds, NEW r, DOMAIN r = FieldsOf[k], Settled(k, r),
         NEW sent, k = "activity" => "person_id" \notin DOMAIN sent
  PROVE  Settled(k, After(k, r, sent))
<1> DEFINE derived == Derived(k, sent)
<1>2. k # "note" => \A f \in DOMAIN r : After(k, r, sent)[f] =
        IF f \in DOMAIN derived THEN derived[f]
        ELSE IF f \in DOMAIN sent THEN sent[f] ELSE r[f]
  BY AfterIs, MovedOffIs
<1>3. CASE k = "person"
  <2>1. {"name", "first_name"} \subseteq DOMAIN r /\ r.name = r.first_name
    BY <1>3 DEF Settled, FieldsOf, PersonFields
  <2>2. \/ "name" \in DOMAIN sent /\ derived = Only("first_name", sent.name)
        \/ "first_name" \in DOMAIN sent /\ derived = Only("name", sent.first_name)
        \/ {"name", "first_name"} \cap DOMAIN sent = {} /\ derived = Nothing
    BY <1>3 DEF Derived
  <2>3. After(k, r, sent).name = After(k, r, sent).first_name
    BY <1>2, <1>3, <2>1, <2>2 DEF Only, Nothing
  <2> QED
    BY <1>3, <2>3 DEF Settled
<1>4. CASE k = "activity"
  <2>1. {"person_id", "participants"} \subseteq DOMAIN r /\ r.person_id = Primary(r.participants)
    BY <1>4 DEF Settled, FieldsOf, ActivityFields
  <2>2. derived = IF "participants" \in DOMAIN sent
                  THEN Only("person_id", Primary(sent.participants)) ELSE Nothing
    BY <1>4 DEF Derived
  <2>3. After(k, r, sent).person_id = Primary(After(k, r, sent).participants)
    BY <1>2, <1>4, <2>1, <2>2 DEF Only, Nothing
  <2> QED
    BY <1>4, <2>3 DEF Settled
<1> QED
  BY <1>3, <1>4 DEF Settled

LEMMA SettledStep == RecordInv /\ [RecordNext]_handlerVars => AllSettled'
<1> SUFFICES ASSUME RecordInv, [RecordNext]_handlerVars PROVE AllSettled'
  OBVIOUS
<1>0. RecordTypeOK /\ AllSettled /\ kind \in Kinds /\ DOMAIN before = Sessions
  BY DEF RecordInv, RecordTypeOK
<1>1. CASE UNCHANGED <<kind, rec, before>>
  BY <1>0, <1>1 DEF AllSettled
<1>2. ASSUME NEW s \in Sessions, Get(s) PROVE AllSettled'
  <2>1. kind' = kind /\ rec' = rec /\ before' = [before EXCEPT ![s] = rec]
    BY <1>2 DEF Get, recordVars, callVars
  <2> QED
    BY <1>0, <2>1 DEF AllSettled
<1>3. ASSUME NEW r, NEW a, NEW by, Become(r, a, by), Settled(kind, r) PROVE AllSettled'
  BY <1>0, <1>3 DEF AllSettled, Become, callVars, readVars
<1>4. ASSUME NEW s \in Sessions, Apply(s) PROVE AllSettled'
  <2>1. CASE input[s].action = "create"
    <3>1. UNCHANGED <<kind, rec, before>>
      BY <1>4, <2>1 DEF Apply, recordVars, callVars, readVars
    <3> QED
      BY <1>1, <3>1
  <2>2. CASE input[s].action = "delete"
    <3>1. Become(rec, FALSE, {s})
      BY <1>4, <2>2 DEF Apply
    <3> QED
      BY <1>0, <1>3, <3>1 DEF AllSettled
  <2>3. CASE input[s].action \notin {"create", "delete"}
    <3>1. Become(After(kind, rec, WireOf(s)), alive, {s})
      BY <1>4, <2>3 DEF Apply
    <3>2. kind = "activity" => "person_id" \notin DOMAIN WireOf(s)
      BY <1>0, PersonIdUnsent DEF WireOf
    <3>3. DOMAIN rec = FieldsOf[kind]
      BY <1>0 DEF RecordTypeOK
    <3>4. Settled(kind, After(kind, rec, WireOf(s)))
      BY <1>0, <3>2, <3>3, AfterSettled DEF AllSettled
    <3> QED
      BY <1>3, <3>1, <3>4
  <2> QED
    BY <2>1, <2>2, <2>3
<1>5. CASE Edit
  <2>1. ASSUME NEW e \in Edits[kind], Become(After(kind, rec, e), alive, {}) PROVE AllSettled'
    <3>1. DOMAIN rec = FieldsOf[kind] /\ "person_id" \notin DOMAIN e
      BY <1>0, EditsAssumption DEF RecordTypeOK
    <3>2. Settled(kind, After(kind, rec, e))
      BY <1>0, <3>1, AfterSettled DEF AllSettled
    <3> QED
      BY <1>3, <2>1, <3>2
  <2>2. CASE Become(rec, ~alive, {})
    BY <1>0, <1>3, <2>2 DEF AllSettled
  <2> QED
    BY <1>5, <2>1, <2>2 DEF Edit
<1>6. CASE UNCHANGED handlerVars
  BY <1>1, <1>6 DEF handlerVars, recordVars, callVars, readVars
<1>7. ASSUME NEW s \in Sessions, Step(s) PROVE AllSettled'
  <2>1. UNCHANGED <<kind, rec, before>> \/ Get(s) \/ Apply(s)
    BY <1>7
    DEF Step, ManagePerson, ManageOrganization, ManageActivity, ManageNote, Dispatch, GetFails,
        UpdatePerson, UpdateOrganization, WriteActivity, UpdateNote, Guard,
        DeletePerson, DeleteOrganization, DeleteActivity, DeleteNote, Delete,
        Written, NotWritten, Lapse, recordVars, callVars, readVars
  <2> QED
    BY <1>1, <1>2, <1>4, <2>1
<1> QED
  BY <1>5, <1>6, <1>7 DEF RecordNext

LEMMA InitRecordInv == RecordInit => RecordInv
<1> SUFFICES ASSUME RecordInit PROVE RecordInv
  OBVIOUS
<1>1. RecordTypeOK
  BY InitRecordTyped
<1>0. AllSettled
  <2>1. /\ kind \in Kinds /\ rec \in Starts[kind]
        /\ \A s \in Sessions : before[s] = rec
    BY DEF RecordInit
  <2> QED
    BY <2>1, StartsAssumption DEF AllSettled
<1>2. ASSUME NEW s \in Sessions PROVE Ctl(s) /\ Checks(s) /\ Past(s)
  <2>1. /\ at[s] = "idle" /\ outcome[s] = "none" /\ verdict[s] = "none" /\ effect[s] = "open"
        /\ input[s] = NoInput /\ expect[s] = NoVersion
        /\ ~raced[s] /\ ~overtaken[s] /\ ~gone[s]
    BY DEF RecordInit, Write!Init
  <2>2. input[s].action = "update"
    BY <2>1 DEF NoInput
  <2> QED
    BY <2>1, <2>2 DEF Ctl, Checks, Past, Makes, Sends, Passed, Judged, HasRead
<1> QED
  BY <1>0, <1>1, <1>2 DEF RecordInv

LEMMA NextRecordInv == RecordInv /\ [RecordNext]_handlerVars => RecordInv'
BY NextRecordTyped, SettledStep, CtlStep, ChecksStep, PastStep DEF RecordInv

LEMMA RecordInvariance == RecordSpec => []RecordInv
BY InitRecordInv, NextRecordInv, PTL DEF RecordSpec

-----------------------------------------------------------------------------
(***************************************************************************)
(* The requests.                                                           *)
(***************************************************************************)
LEMMA FoldPersonKeeps ==
  ASSUME NEW req
  PROVE  /\ DOMAIN FoldPerson(req) \subseteq DOMAIN req \cup {"participants"}
         /\ DOMAIN req \subseteq DOMAIN FoldPerson(req)
         /\ \A f \in DOMAIN req \ {"participants"} : FoldPerson(req)[f] = req[f]
BY DEF FoldPerson

(***************************************************************************)
(* A request that was not refused has, on the wire, a shape Pipedrive      *)
(* takes: what a client's method drops and folds never takes a required    *)
(* field away nor adds one that is not allowed.                            *)
(***************************************************************************)
LEMMA ValidIsAccepted ==
  ASSUME NEW k \in Kinds, NEW i \in Inputs[k], ~InvalidFor(k, i)
  PROVE  Accepts(k, i.action, Wire(k, i.action, RequestFor(k, i)))
<1> DEFINE req == RequestFor(k, i)
           sent == Wire(k, i.action, req)
<1>1. i.action \in ActionsOf[k]
  BY InputsAssumption
<1>2. CASE i.action = "delete"
  <2>1. req = Nothing /\ DOMAIN req = {}
    BY <1>2 DEF RequestFor, Nothing
  <2>2. ~Holds(req, "person_id")
    BY <2>1 DEF Holds
  <2>3. FoldPerson(req) = req
    BY <2>2 DEF FoldPerson
  <2>4. DOMAIN sent = {}
    BY <2>1, <2>3, KeptOf DEF Wire, PersonWire, OrganizationWire, ActivityWire, NoteWire, Kinds, Kept
  <2> QED
    BY <1>2, <2>4 DEF Accepts
<1>3. CASE i.action # "delete" /\ k = "person"
  <2>1. sent = Kept(i.action, i.given)
    BY <1>3 DEF RequestFor, Wire, PersonWire
  <2>2. EmptyOf("name") = Blank /\ EmptyOf("first_name") = Blank
    BY DEF EmptyOf, Collections
  <2>3. ~PersonInvalid(i) /\ i.action \in {"create", "update"}
    BY <1>1, <1>3 DEF InvalidFor, ActionsOf
  <2>4. {"name", "first_name"} \cap Collections = {}
    BY DEF Collections
  <2>5. \A f \in {"name", "first_name"} : f \in DOMAIN sent <=>
          IF i.action = "create" THEN Holds(i.given, f) ELSE f \in DOMAIN i.given
    BY <2>1, <2>3, <2>4, KeptOf DEF Holds
  <2>6. CASE i.action = "create"
    BY <1>3, <2>3, <2>5, <2>6 DEF PersonInvalid, Accepts
  <2>7. CASE i.action = "update"
    BY <1>3, <2>3, <2>5, <2>7 DEF PersonInvalid, Accepts
  <2> QED
    BY <2>3, <2>6, <2>7
<1>4. CASE i.action # "delete" /\ k = "organization"
  <2>1. sent = Kept(i.action, i.given)
    BY <1>4 DEF RequestFor, Wire, OrganizationWire
  <2>2. i.action = "create" => Holds(i.given, "name")
    BY <1>4 DEF InvalidFor, OrganizationInvalid
  <2> QED
    BY <1>4, <2>1, <2>2, KeptOf DEF Holds, Accepts
<1>5. CASE i.action # "delete" /\ k = "activity"
  <2> DEFINE folded == FoldPerson(req)
             body == [f \in DOMAIN folded \ {"person_id"} |-> folded[f]]
  <2>1. sent = Kept(i.action, body)
    BY <1>5 DEF Wire, ActivityWire
  <2>2. DOMAIN body = DOMAIN folded \ {"person_id"}
        /\ \A f \in DOMAIN body : body[f] = folded[f]
    OBVIOUS
  <2>3. "person_id" \notin DOMAIN sent
    BY <2>1, <2>2, KeptOf
  <2>4. i.action = "create" => "subject" \in DOMAIN sent
    <3>1. SUFFICES ASSUME i.action = "create" PROVE "subject" \in DOMAIN sent
      OBVIOUS
    <3>2. Holds(i.given, "subject")
      BY <1>5, <3>1 DEF InvalidFor, ActivityInvalid
    <3>3. req = FoldPerson(i.given)
      BY <1>5, <3>1 DEF RequestFor, ActivityRequest
    <3>4. "subject" \in DOMAIN folded /\ folded["subject"] = i.given["subject"]
      BY <3>2, <3>3, FoldPersonKeeps DEF Holds
    <3>5. "subject" \in DOMAIN body /\ body["subject"] # EmptyOf("subject")
      BY <2>2, <3>2, <3>4 DEF Holds
    <3> QED
      BY <2>1, <3>5, KeptOf
  <2> QED
    BY <1>5, <2>3, <2>4 DEF Accepts
<1>6. CASE i.action # "delete" /\ k = "note"
  <2>1. req = NoteRequest(i) /\ sent = Kept("create", req)
    BY <1>6 DEF RequestFor, Wire, NoteWire
  <2>2. \A f \in {"content", "deal_id", "org_id"} : Holds(i.given, f) => f \in DOMAIN sent
    <3>1. \A f \in {"content", "deal_id", "org_id"} : EmptyOf(f) = Blank
      BY DEF EmptyOf, Collections
    <3>2. \A f \in {"content", "deal_id", "org_id"} :
            Holds(i.given, f) => f \in DOMAIN req /\ req[f] # EmptyOf(f)
      BY <2>1, <3>1 DEF NoteRequest, Holds
    <3> QED
      BY <2>1, <3>2, KeptOf
  <2>3. i.action = "create" =>
          Holds(i.given, "content") /\ (Holds(i.given, "deal_id") \/ Holds(i.given, "org_id"))
    BY <1>6 DEF InvalidFor, NoteInvalid, Anchored
  <2> QED
    BY <1>6, <2>2, <2>3 DEF Accepts, Anchors
<1> QED
  BY <1>2, <1>3, <1>4, <1>5, <1>6 DEF Kinds

\* "Folding twice is a no-op" (PrimaryParticipant): the client's own folding of
\* the person leaves the request the tools layer predicted with as it is.
THEOREM FoldedTwice ==
  ASSUME NEW req, HoldsItsTypes(req)
  PROVE  FoldPerson(FoldPerson(req)) = FoldPerson(req)
<1>1. CASE ~Holds(req, "person_id")
  BY <1>1 DEF FoldPerson
<1>2. CASE Holds(req, "person_id")
  <2> DEFINE person == req.person_id
             others == IF "participants" \in DOMAIN req THEN req.participants ELSE <<>>
             fields == DOMAIN req \cup {"participants"}
             folded == FoldPerson(req)
  <2>1. "person_id" \in DOMAIN req /\ person \in People /\ others \in Seq(Participants)
        /\ person # EmptyOf("person_id")
    BY <1>2 DEF Holds, HoldsItsTypes, EmptyOf, Collections
  <2>2. folded = [f \in fields |->
          IF f = "participants" THEN PrimaryParticipant(person, others) ELSE req[f]]
    BY <1>2 DEF FoldPerson
  <2> HIDE DEF others, folded
  <2>3. /\ DOMAIN folded = fields /\ folded.person_id = person
        /\ folded.participants = PrimaryParticipant(person, others)
    BY <2>1, <2>2
  <2>4. PrimaryParticipant(person, folded.participants) = folded.participants
    BY <2>1, <2>3, PrimaryParticipantFolds, FoldedOnce
  <2>5. Holds(folded, "person_id") /\ "participants" \in DOMAIN folded
    BY <2>1, <2>3 DEF Holds
  <2>6. FoldPerson(folded) = [f \in DOMAIN folded \cup {"participants"} |->
          IF f = "participants" THEN PrimaryParticipant(folded.person_id, folded.participants)
          ELSE folded[f]]
    BY <2>5 DEF FoldPerson
  <2>7. DOMAIN folded \cup {"participants"} = fields
    BY <2>3
  <2>8. \A f \in fields :
          (IF f = "participants" THEN PrimaryParticipant(folded.person_id, folded.participants)
           ELSE folded[f]) = folded[f]
    BY <2>3, <2>4
  <2>9. folded = [f \in fields |-> folded[f]]
    BY <2>2
  <2>10. FoldPerson(folded) = folded
    BY <2>6, <2>7, <2>8, <2>9
  <2> QED
    BY <2>10 DEF folded
<1> QED
  BY <1>1, <1>2

\* A person named is on the wire as the participants that make them primary.
LEMMA NamedPersonIsFolded ==
  ASSUME NEW req, HoldsItsTypes(req), Holds(req, "person_id")
  PROVE  /\ "participants" \in DOMAIN FoldPerson(req)
         /\ FoldPerson(req).participants # <<>>
         /\ Primary(FoldPerson(req).participants) = req.person_id
<1> DEFINE others == IF "participants" \in DOMAIN req THEN req.participants ELSE <<>>
<1>1. req.person_id \in People /\ others \in Seq(Participants)
  BY DEF Holds, HoldsItsTypes, EmptyOf, Collections
<1>2. "participants" \in DOMAIN FoldPerson(req)
      /\ FoldPerson(req).participants = PrimaryParticipant(req.person_id, others)
  BY DEF FoldPerson
<1> HIDE DEF others
<1>3. Folded(req.person_id, PrimaryParticipant(req.person_id, others))
  BY <1>1, PrimaryParticipantFolds
<1>4. Primary(PrimaryParticipant(req.person_id, others)) = req.person_id
      /\ PrimaryParticipant(req.person_id, others) # <<>>
  BY <1>3, FoldedIsPrimary
<1> QED
  BY <1>2, <1>4

(***************************************************************************)
(* A field is sent as it was predicted with, unless it is a collection     *)
(* that is to be emptied: the request the tools layer judged and the body  *)
(* the client sends agree on it, the client's own folding included.        *)
(***************************************************************************)
LEMMA IsSentAsJudged ==
  ASSUME NEW k \in Kinds, NEW i, HoldsItsTypes(i.given), i.action \notin {"create", "delete"},
         NEW f, f # "person_id"
  PROVE  /\ f \in DOMAIN Wire(k, i.action, RequestFor(k, i)) <=>
              /\ f \in DOMAIN RequestFor(k, i)
              /\ f \in Collections => RequestFor(k, i)[f] # <<>>
         /\ f \in DOMAIN Wire(k, i.action, RequestFor(k, i)) =>
              Wire(k, i.action, RequestFor(k, i))[f] = RequestFor(k, i)[f]
<1> DEFINE req == RequestFor(k, i)
           sent == Wire(k, i.action, req)
<1>0. f \in Collections => EmptyOf(f) = <<>>
  BY DEF EmptyOf
<1>1. CASE k \in {"person", "organization"}
  <2>1. sent = Kept(i.action, req)
    BY <1>1 DEF Wire, PersonWire, OrganizationWire
  <2> QED
    BY <1>0, <2>1, KeptOf
<1>2. CASE k = "activity"
  <2> DEFINE body == [g \in DOMAIN FoldPerson(req) \ {"person_id"} |-> FoldPerson(req)[g]]
  <2>1. sent = Kept(i.action, body)
    BY <1>2 DEF Wire, ActivityWire
  <2>2. FoldPerson(req) = req
    <3>1. req = ActivityRequest(i)
      BY <1>2 DEF RequestFor
    <3>2. CASE i.action \in Transitions
      <4>1. \A v : ~Holds(Only("done", v), "person_id")
        BY DEF Holds, Only
      <4>2. \E v : req = Only("done", v)
        BY <3>1, <3>2 DEF ActivityRequest, Transitions
      <4> QED
        BY <4>1, <4>2 DEF FoldPerson
    <3>3. CASE i.action \notin Transitions
      <4>1. req = FoldPerson(i.given)
        BY <3>1, <3>3 DEF ActivityRequest, Transitions
      <4> QED
        BY <4>1, FoldedTwice
    <3> QED
      BY <3>2, <3>3
  <2> HIDE DEF req
  <2>3. (f \in DOMAIN body <=> f \in DOMAIN req) /\ (f \in DOMAIN req => body[f] = req[f])
    BY <2>2
  <2> QED
    BY <1>0, <2>1, <2>3, KeptOf DEF req
<1>3. CASE k = "note"
  <2>1. sent = Kept("create", req) /\ req = NoteRequest(i)
    BY <1>3 DEF Wire, NoteWire, RequestFor
  <2>2. \A g \in DOMAIN req : req[g] # Blank
    BY <2>1 DEF NoteRequest
  <2>3. f \notin Collections => EmptyOf(f) = Blank
    BY DEF EmptyOf
  <2> QED
    BY <1>0, <2>1, <2>2, <2>3, KeptOf
<1> QED
  BY <1>1, <1>2, <1>3 DEF Kinds

\* Of one value the projection forgets nothing (the scalar projections).
LEMMA PlainTold ==
  ASSUME NEW f, f \notin Collections, NEW v, NEW w
  PROVE  /\ Project(f, v) = Project(f, w) <=> v = w
         /\ Project(f, v) = <<>> <=> v = EmptyOf(f)
<1>1. Project(f, v) = (IF v = Blank THEN <<>> ELSE <<v>>)
      /\ Project(f, w) = (IF w = Blank THEN <<>> ELSE <<w>>)
      /\ EmptyOf(f) = Blank
  BY DEF Project, EmptyOf, Collections
<1>2. <<v>> # <<>> /\ <<w>> # <<>> /\ (<<v>> = <<w>> <=> v = w)
  OBVIOUS
<1> QED
  BY <1>1, <1>2

\* Nor of a whole field of a record.
LEMMA FieldTold ==
  ASSUME NEW r, HoldsItsTypes(r), NEW q, HoldsItsTypes(q),
         NEW f, f \in DOMAIN r, f \in DOMAIN q
  PROVE  /\ Project(f, r[f]) = Project(f, q[f]) <=> r[f] = q[f]
         /\ Project(f, r[f]) = <<>> <=> r[f] = EmptyOf(f)
<1>1. CASE f \notin Collections
  BY <1>1, PlainTold
<1>2. CASE f = "emails"
  <2>1. r[f] \in Seq(ContactPoints) /\ q[f] \in Seq(ContactPoints)
    BY <1>2 DEF HoldsItsTypes
  <2>2. EmptyOf(f) = <<>>
    BY <1>2 DEF EmptyOf, Collections
  <2> QED
    BY <1>2, <2>1, <2>2, EmailsToldApart, NothingIsEmpty
<1>3. CASE f = "participants"
  <2>1. r[f] \in Seq(Participants) /\ q[f] \in Seq(Participants)
    BY <1>3 DEF HoldsItsTypes
  <2>2. EmptyOf(f) = <<>>
    BY <1>3 DEF EmptyOf, Collections
  <2> QED
    BY <1>3, <2>1, <2>2, ParticipantListsToldApart, NothingIsEmpty
<1> QED
  BY <1>1, <1>2, <1>3 DEF Collections

LEMMA ProjectedAt ==
  ASSUME NEW r, NEW f \in DOMAIN r
  PROVE  Projected(r)[f] = Project(f, r[f])
BY DEF Projected

LEMMA ChangedIs ==
  ASSUME NEW r, HoldsItsTypes(r), NEW q, HoldsItsTypes(q), DOMAIN q = DOMAIN r, NEW f \in DOMAIN r
  PROVE  f \in ChangedFields(r, q) <=> r[f] # q[f]
BY FieldTold, ProjectedAt DEF ChangedFields

-----------------------------------------------------------------------------
(***************************************************************************)
(* The properties.                                                         *)
(***************************************************************************)
\* A rehearsal and a call that stopped short change nothing, a version passed
\* and overtaken stops the write and the DELETE alike, and an inactive note is
\* not deleted again (guardedWrite.run and the four deletes).
THEOREM NeverWrittenInVain == RecordSpec => []NoUncalledForWrite
<1>1. RecordInv => NotesDeletedOnce
  <2> SUFFICES ASSUME RecordInv, NEW s \in Sessions, kind = "note", gone[s],
                      input[s].action = "delete"
               PROVE  ~Passed(s) /\ effect[s] # "made"
    BY DEF NotesDeletedOnce, Passed, Sends
  <2>1. Ctl(s) /\ Checks(s) /\ Past(s) /\ ~Makes(s)
    BY DEF RecordInv, Makes
  <2>2. ~Passed(s)
    BY <2>1 DEF Checks, Past, HasRead, Judged
  <2> QED
    BY <2>1, <2>2 DEF Ctl, Passed
<1>2. ASSUME RecordInv, NEW s \in Sessions, effect[s] = "made"
      PROVE  /\ ~dry[s] /\ ~floor
             /\ outcome[s] \in {"none", "written", "failed"}
             /\ ~(expect[s] # NoVersion /\ overtaken[s])
  <2>1. RecordTypeOK /\ Ctl(s) /\ Past(s)
    BY <1>2 DEF RecordInv
  <2>2. Sends(s) /\ ~dry[s]
    BY <1>2, <2>1 DEF Ctl
  <2>3. at[s] # "idle"
    BY <2>1, <2>2 DEF Ctl, Sends
  <2>4. ~floor
    BY <2>1, <2>2, <2>3 DEF Ctl
  <2>5. outcome[s] \in {"none", "written", "failed"}
    BY <2>1, <2>2 DEF Ctl, Sends
  <2>6. CASE Makes(s)
    BY <2>1, <2>2, <2>4, <2>5, <2>6 DEF Past
  <2>7. CASE ~Makes(s) /\ expect[s] # NoVersion /\ overtaken[s]
    <3>1. Judged(s) /\ HasRead(s)
      BY <2>2, <2>7 DEF Judged, HasRead, Passed
    <3>2. expect[s] = version[s] /\ expect[s] < version[s]
      BY <2>1, <2>7, <3>1 DEF Ctl, Past, VersionMatches
    <3>3. version[s] \in Nat
      BY <2>1 DEF RecordTypeOK
    <3> QED
      BY <3>2, <3>3
  <2> QED
    BY <2>2, <2>4, <2>5, <2>6, <2>7
<1>3. RecordInv => NoUncalledForWrite
  BY <1>1, <1>2 DEF NoUncalledForWrite
<1> QED
  BY <1>3, RecordInvariance, PTL

\* Pipedrive takes the shape of whatever is rehearsed or sent, for any inputs
\* (the Validate methods and the tools layer's checks against the client's
\* request structs).
THEOREM ShapesTaken == RecordSpec => []ShapesAreTaken
<1>1. ASSUME RecordInv, NEW s \in Sessions, at[s] = "send" \/ outcome[s] = "rehearsed"
      PROVE  Accepts(kind, input[s].action, WireOf(s))
  <2>1. RecordTypeOK /\ Ctl(s) /\ Checks(s)
    BY <1>1 DEF RecordInv
  <2>2. ~InvalidFor(kind, input[s])
    BY <1>1, <2>1 DEF Checks, Passed, Sends
  <2>3. at[s] # "idle"
    BY <1>1, <2>1 DEF Ctl
  <2>4. kind \in Kinds /\ input[s] \in Inputs[kind]
    BY <2>1, <2>3 DEF Ctl, RecordTypeOK
  <2> QED
    BY <2>2, <2>4, ValidIsAccepted DEF WireOf
<1>2. RecordInv => ShapesAreTaken
  BY <1>1 DEF ShapesAreTaken
<1> QED
  BY <1>2, RecordInvariance, PTL

\* What one call makes of a field of the record it read, where nothing Pipedrive
\* derives or takes away is in the way, is what it predicted, a collection to be
\* emptied apart.
LEMMA WrittenAsPredicted ==
  ASSUME RecordTypeOK, NEW s \in Sessions, input[s].action \notin {"create", "delete"},
         NEW f \in WrittenBy(s) \ {"person_id"}
  PROVE  /\ After(kind, before[s], WireOf(s))[f] =
              IF f \in DOMAIN WireOf(s) THEN RequestFor(kind, input[s])[f] ELSE before[s][f]
         /\ f \in DOMAIN WireOf(s) <=>
              /\ f \in DOMAIN RequestFor(kind, input[s])
              /\ f \in Collections => RequestFor(kind, input[s])[f] # <<>>
<1>1. f \in DOMAIN before[s] /\ kind \in Kinds /\ HoldsItsTypes(input[s].given)
  BY GivenTyped DEF RecordTypeOK, WrittenBy
<1>2. After(kind, before[s], WireOf(s))[f] =
        IF f \in DOMAIN WireOf(s) THEN WireOf(s)[f] ELSE before[s][f]
  BY <1>1, AfterIs DEF WrittenBy, DerivedFields, MovedOffBy
<1>3. /\ f \in DOMAIN WireOf(s) <=>
           /\ f \in DOMAIN RequestFor(kind, input[s])
           /\ f \in Collections => RequestFor(kind, input[s])[f] # <<>>
      /\ f \in DOMAIN WireOf(s) => WireOf(s)[f] = RequestFor(kind, input[s])[f]
  BY <1>1, IsSentAsJudged DEF WireOf
<1> QED
  BY <1>2, <1>3

LEMMA PredictedIs ==
  ASSUME RecordTypeOK, NEW s \in Sessions, NEW f \in FieldsOf[kind]
  PROVE  f \in Predicted(s) <=>
           /\ f \in DOMAIN RequestFor(kind, input[s])
           /\ RequestFor(kind, input[s])[f] # before[s][f]
<1> DEFINE req == RequestFor(kind, input[s])
<1>1. f \in DOMAIN before[s] /\ HoldsItsTypes(before[s]) /\ HoldsItsTypes(req)
  BY GivenTyped, RequestTyped DEF RecordTypeOK
<1> HIDE DEF req
<1>2. DOMAIN Overlay(before[s], req) = DOMAIN before[s]
      /\ Overlay(before[s], req)[f] = IF f \in DOMAIN req THEN req[f] ELSE before[s][f]
  BY <1>1 DEF Overlay
<1>3. f \in Predicted(s) <=> before[s][f] # Overlay(before[s], req)[f]
  BY <1>1, <1>2, OverlayTyped, ChangedIs DEF Predicted, req
<1> QED
  BY <1>2, <1>3 DEF req

\* An activity's person is changed by what is derived alone.
LEMMA PersonIdKept ==
  ASSUME RecordTypeOK, NEW s \in Sessions, "person_id" \in FieldsOf[kind],
         "person_id" \notin DerivedFields(s)
  PROVE  kind = "activity" /\ After(kind, before[s], WireOf(s)).person_id = before[s].person_id
<1>1. kind = "activity" /\ kind \in Kinds /\ "person_id" \in DOMAIN before[s]
  <2>1. \A k \in Kinds : "person_id" \in FieldsOf[k] => k = "activity"
    BY DEF Kinds, FieldsOf, PersonFields, OrganizationFields, NoteFields
  <2> QED
    BY <2>1 DEF RecordTypeOK
<1>2. "person_id" \notin DOMAIN WireOf(s)
  BY <1>1, PersonIdUnsent DEF WireOf
<1> QED
  BY <1>1, <1>2, AfterIs, MovedOffIs DEF DerivedFields

\* To a caller that is told of no change nothing it passed was different, nor
\* is anything Pipedrive derives from it (guardedWrite.run's early return), the
\* anchors apart that a note hanging off one record alone would be taken off.
THEOREM TrueNoop == RecordSpec => []NoopIsTrue
<1>1. ASSUME RecordInv, NEW s \in Sessions, outcome[s] = "noop", input[s].action # "delete",
             NEW f \in FieldsOf[kind] \ MovedOffBy(s)
      PROVE  After(kind, before[s], WireOf(s))[f] = before[s][f]
  <2> DEFINE sent == WireOf(s)
             derived == Derived(kind, sent)
  <2>1. RecordTypeOK /\ AllSettled /\ Ctl(s) /\ Checks(s)
    BY <1>1 DEF RecordInv
  <2>2. Predicted(s) = {} /\ input[s].action \notin {"create", "delete"}
    BY <1>1, <2>1 DEF Checks, Ctl, Makes
  <2>3. kind \in Kinds /\ DOMAIN before[s] = FieldsOf[kind] /\ HoldsItsTypes(input[s].given)
        /\ Settled(kind, before[s])
    BY <2>1, GivenTyped DEF RecordTypeOK, AllSettled
  \* What is sent is there already.
  <2>4. ASSUME NEW g \in FieldsOf[kind] \ {"person_id"}, g \in DOMAIN sent
        PROVE  sent[g] = before[s][g]
    <3>1. g \in DOMAIN RequestFor(kind, input[s]) /\ sent[g] = RequestFor(kind, input[s])[g]
      BY <2>2, <2>3, <2>4, IsSentAsJudged DEF WireOf
    <3> QED
      BY <2>1, <2>2, <3>1, PredictedIs
  <2>5. CASE f \notin DerivedFields(s) /\ f # "person_id"
    <3>1. After(kind, before[s], sent)[f] = IF f \in DOMAIN sent THEN sent[f] ELSE before[s][f]
      BY <1>1, <2>3, <2>5, AfterIs DEF DerivedFields, MovedOffBy
    <3> QED
      BY <2>4, <2>5, <3>1
  <2>6. CASE f \notin DerivedFields(s) /\ f = "person_id"
    BY <2>1, <2>6, PersonIdKept
  <2>7. CASE f \in DerivedFields(s)
    <3>1. After(kind, before[s], sent)[f] = derived[f] /\ f \in DOMAIN derived
      BY <1>1, <2>3, <2>7, AfterIs DEF DerivedFields, MovedOffBy
    <3>2. \/ kind = "person" /\ "name" \in DOMAIN sent /\ derived = Only("first_name", sent.name)
          \/ /\ kind = "person" /\ "first_name" \in DOMAIN sent
             /\ derived = Only("name", sent.first_name)
          \/ /\ kind = "activity" /\ "participants" \in DOMAIN sent
             /\ derived = Only("person_id", Primary(sent.participants))
      <4> HIDE DEF sent
      <4>1. DOMAIN Nothing = {}
        BY DEF Nothing
      <4> QED
        BY <3>1, <4>1 DEF Derived
    <3>3. CASE kind = "person"
      <4>1. {"name", "first_name"} \subseteq FieldsOf[kind] \ {"person_id"}
            /\ before[s].name = before[s].first_name
        BY <2>3, <3>3 DEF Settled, FieldsOf, PersonFields
      <4> HIDE DEF sent, derived
      <4>2. CASE "name" \in DOMAIN sent /\ derived = Only("first_name", sent.name)
        <5>1. DOMAIN derived = {"first_name"} /\ derived["first_name"] = sent["name"]
          BY <4>2 DEF Only
        <5>2. sent["name"] = before[s]["name"]
          BY <2>4, <4>1, <4>2
        <5>3. derived[f] = before[s][f]
          BY <3>1, <4>1, <5>1, <5>2
        <5> QED
          BY <3>1, <5>3 DEF sent
      <4>3. CASE "first_name" \in DOMAIN sent /\ derived = Only("name", sent.first_name)
        <5>1. DOMAIN derived = {"name"} /\ derived["name"] = sent["first_name"]
          BY <4>3 DEF Only
        <5>2. sent["first_name"] = before[s]["first_name"]
          BY <2>4, <4>1, <4>3
        <5>3. derived[f] = before[s][f]
          BY <3>1, <4>1, <5>1, <5>2
        <5> QED
          BY <3>1, <5>3 DEF sent
      <4> QED
        BY <3>2, <3>3, <4>2, <4>3
    <3>4. CASE kind = "activity"
      <4>1. "participants" \in FieldsOf[kind] \ {"person_id"}
            /\ before[s].person_id = Primary(before[s].participants)
        BY <2>3, <3>4 DEF Settled, FieldsOf, ActivityFields
      <4> HIDE DEF sent, derived
      <4>2. "participants" \in DOMAIN sent
            /\ derived = Only("person_id", Primary(sent["participants"]))
        BY <3>2, <3>4
      <4>3. DOMAIN derived = {"person_id"}
            /\ derived["person_id"] = Primary(sent["participants"])
        BY <4>2 DEF Only
      <4>4. sent["participants"] = before[s]["participants"]
        BY <2>4, <4>1, <4>2
      <4>5. derived[f] = before[s][f]
        BY <3>1, <4>1, <4>3, <4>4
      <4> QED
        BY <3>1, <4>5 DEF sent
    <3> QED
      BY <3>2, <3>3, <3>4
  <2> QED
    BY <2>5, <2>6, <2>7
<1>2. RecordInv => NoopIsTrue
  BY <1>1 DEF NoopIsTrue
<1> QED
  BY <1>2, RecordInvariance, PTL

\* What one dry run names of the fields is what the write would alter.
LEMMA Rehearsed ==
  ASSUME RecordInv, NEW s \in Sessions, input[s].action \notin {"create", "delete"},
         NEW f \in WrittenBy(s) \ {"person_id"},
         (f \in Collections /\ f \in DOMAIN RequestFor(kind, input[s])) =>
           RequestFor(kind, input[s])[f] # <<>>
  PROVE  f \in Predicted(s) <=>
           f \in ChangedFields(before[s], After(kind, before[s], WireOf(s)))
<1>1. RecordTypeOK /\ kind \in Kinds /\ f \in DOMAIN before[s] /\ HoldsItsTypes(before[s])
      /\ DOMAIN After(kind, before[s], WireOf(s)) = DOMAIN before[s]
  BY AfterFields DEF RecordInv, RecordTypeOK, WrittenBy
<1>2. HoldsItsTypes(After(kind, before[s], WireOf(s)))
  BY <1>1, GivenTyped, WireTyped, AfterTyped DEF WireOf
<1>3. f \in ChangedFields(before[s], After(kind, before[s], WireOf(s))) <=>
        before[s][f] # After(kind, before[s], WireOf(s))[f]
  BY <1>1, <1>2, ChangedIs
<1> QED
  BY <1>1, <1>3, WrittenAsPredicted, PredictedIs DEF WrittenBy

\* A rehearsal names the plain fields the write would alter, all of them and no
\* other (the AfterUpdates of the tools layer against the client's requests).
THEOREM PlainRehearsal == RecordSpec => []PlainRehearsalNamesTheWrite
<1>1. RecordInv => PlainRehearsalNamesTheWrite
  BY Rehearsed DEF PlainRehearsalNamesTheWrite, RehearsalNames
<1> QED
  BY <1>1, RecordInvariance, PTL

(***************************************************************************)
(* An input that empties no collection and unnames no person: encoding/json*)
(* drops the one, and PrimaryParticipant is not asked for the other, so    *)
(* that of them alone a rehearsal tells what no write does.                *)
(***************************************************************************)
ClearsNothing(i) ==
  \A f \in DOMAIN i.given : f \in Collections \cup {"person_id"} => i.given[f] # EmptyOf(f)

LEMMA NothingCleared ==
  ASSUME NEW k \in Kinds, NEW i, HoldsItsTypes(i.given), ClearsNothing(i),
         NEW f \in Collections, f \in DOMAIN RequestFor(k, i)
  PROVE  RequestFor(k, i)[f] # <<>>
<1>1. EmptyOf(f) = <<>> /\ (f \in DOMAIN i.given => i.given[f] # <<>>)
  BY DEF EmptyOf, ClearsNothing
<1>2. CASE RequestFor(k, i) = i.given \/ RequestFor(k, i) = NoteRequest(i)
  BY <1>1, <1>2 DEF NoteRequest
<1>3. CASE RequestFor(k, i) = FoldPerson(i.given)
  <2>1. CASE Holds(i.given, "person_id") /\ f = "participants"
    BY <1>3, <2>1, NamedPersonIsFolded
  <2>2. CASE ~Holds(i.given, "person_id")
    BY <1>1, <1>3, <2>2 DEF FoldPerson
  <2>3. CASE Holds(i.given, "person_id") /\ f # "participants"
    BY <1>1, <1>3, <2>3, FoldPersonKeeps
  <2> QED
    BY <2>1, <2>2, <2>3
<1>4. CASE RequestFor(k, i) = Nothing \/ \E v : RequestFor(k, i) = Only("done", v)
  BY <1>4 DEF Nothing, Only, Collections
<1> QED
  BY <1>2, <1>3, <1>4 DEF RequestFor, ActivityRequest

\* A rehearsal names what the write itself would alter, to the last part of a
\* collection, of every call that clears none and no person (the output schemas'
\* "the fields it would alter"): what Pipedrive derives, and the anchors it may
\* take a note off, are no part of that.
LEMMA RehearsedInFull ==
  ASSUME RecordInv, NEW s \in Sessions, ClearsNothing(input[s])
  PROVE  RehearsalNames(s, WrittenBy(s))
<1> SUFFICES ASSUME input[s].action \notin {"create", "delete"},
                    NEW f \in WrittenBy(s)
             PROVE  f \in Predicted(s) <=>
                      f \in ChangedFields(before[s], After(kind, before[s], WireOf(s)))
  BY DEF RehearsalNames
<1>0. f \in FieldsOf[kind] /\ f \notin DerivedFields(s)
  BY DEF WrittenBy
<1> DEFINE req == RequestFor(kind, input[s])
<1>1. RecordTypeOK /\ kind \in Kinds /\ HoldsItsTypes(input[s].given)
  BY GivenTyped DEF RecordInv, RecordTypeOK
<1>2. CASE f # "person_id"
  <2>1. (f \in Collections /\ f \in DOMAIN req) => req[f] # <<>>
    BY <1>1, NothingCleared
  <2> QED
    BY <1>2, <2>1, Rehearsed
<1>3. CASE f = "person_id"
  <2>1. kind = "activity" /\ After(kind, before[s], WireOf(s)).person_id = before[s].person_id
    BY <1>0, <1>1, <1>3, PersonIdKept
  <2>2. f \notin ChangedFields(before[s], After(kind, before[s], WireOf(s)))
    <3>1. f \in DOMAIN before[s] /\ DOMAIN After(kind, before[s], WireOf(s)) = DOMAIN before[s]
      BY <1>0, <1>1, AfterFields DEF RecordTypeOK
    <3>2. Projected(before[s])[f] = Projected(After(kind, before[s], WireOf(s)))[f]
      BY <1>3, <2>1, <3>1, ProjectedAt
    <3> QED
      BY <3>2 DEF ChangedFields
  <2>3. "person_id" \notin DOMAIN req
    <3> SUFFICES ASSUME "person_id" \in DOMAIN req PROVE FALSE
      OBVIOUS
    <3>1. req = FoldPerson(input[s].given)
      BY <2>1 DEF RequestFor, ActivityRequest, Only
    <3>2. Holds(input[s].given, "person_id")
      <4>1. "person_id" \in DOMAIN input[s].given
        BY <3>1, FoldPersonKeeps
      <4> QED
        BY <4>1 DEF ClearsNothing, Holds
    <3>3. "participants" \in DOMAIN req /\ req.participants # <<>>
      BY <1>1, <3>1, <3>2, NamedPersonIsFolded
    <3>4. "participants" \in DOMAIN WireOf(s)
      BY <1>1, <3>3, IsSentAsJudged DEF WireOf
    <3>5. f \in DerivedFields(s)
      BY <1>3, <2>1, <3>4 DEF DerivedFields, Derived, Only
    <3> QED
      BY <1>0, <3>5
  <2> QED
    BY <1>0, <1>1, <1>3, <2>2, <2>3, PredictedIs
<1> QED
  BY <1>2, <1>3

\* The same as an invariant of every call that clears nothing, whatever others
\* clear, and as the property itself where no call clears anything.
THEOREM TrueRehearsal == RecordSpec => [](\A s \in Sessions :
  ClearsNothing(input[s]) => RehearsalNames(s, WrittenBy(s)))
<1>1. RecordInv => \A s \in Sessions :
        ClearsNothing(input[s]) => RehearsalNames(s, WrittenBy(s))
  BY RehearsedInFull
<1> QED
  BY <1>1, RecordInvariance, PTL

\* RehearsalNamesTheWrite, wherever callers clear no collection and no person.
THEOREM FullRehearsal ==
  ASSUME \A k \in Kinds : \A i \in Inputs[k] : ClearsNothing(i)
  PROVE  RecordSpec => []RehearsalNamesTheWrite
<1>1. ClearsNothing(NoInput)
  BY DEF ClearsNothing, NoInput, Nothing
<1>2. RecordInv => RehearsalNamesTheWrite
  <2> SUFFICES ASSUME RecordInv, NEW s \in Sessions PROVE ClearsNothing(input[s])
    BY RehearsedInFull DEF RehearsalNamesTheWrite
  <2>1. kind \in Kinds /\ input[s] \in Inputs[kind] \cup {NoInput}
    BY DEF RecordInv, RecordTypeOK
  <2> QED
    BY <1>1, <2>1
<1> QED
  BY <1>2, RecordInvariance, PTL

\* Nothing that was there when the call looked, and no part of a collection, is
\* replaced or emptied by what a call sends without its caller's word, on any
\* path of the four handlers (requireOverwrite over the field tables).  Whether a
\* note sent one anchor keeps the others is Pipedrive's: where it does, no field
\* of a note is lost unnamed; where it does not, its other anchors are, and
\* nothing else is.
THEOREM NoLoss == RecordSpec => NoUnnamedLoss
<1> DEFINE Named == \A s \in Sessions : LosesOnlyNamed(s)
<1>1. RecordInv /\ [RecordNext]_handlerVars => [Named]_handlerVars
  <2> SUFFICES ASSUME RecordInv, RecordNext, NEW s \in Sessions,
                      effect[s] = "open", effect'[s] = "made", ~raced[s],
                      input[s].action \notin Transitions,
                      NEW f \in FieldsOf[kind],
                      rec[f] # EmptyOf(f), rec'[f] # rec[f], f \in WrittenBy(s)
               PROVE  f \in input[s].overwrite
    BY DEF LosesOnlyNamed, WrittenBy
  <2>0. RecordTypeOK /\ Ctl(s) /\ Checks(s) /\ Past(s)
    BY DEF RecordInv
  <2>1. Apply(s)
    <3> USE DEF RecordTypeOK, writeVars, Goto, Finish
    <3>1. PICK t \in Sessions : Step(t)
      BY DEF RecordNext, Edit
    <3>2. CASE UNCHANGED effect
      BY <3>2
    <3>3. CASE Written(t) \/ NotWritten(t) \/ Lapse(t)
      BY <2>0, <3>3 DEF Written, NotWritten, Lapse, Write!TellOk, Write!TellNo,
                        Write!TellMaybe, Write!Expire
    <3>4. CASE Apply(t)
      BY <2>0, <3>4 DEF Apply, Write!Make
    <3> QED
      BY <3>1, <3>2, <3>3, <3>4
      DEF Step, Dispatch, Get, GetFails, Guard, Delete,
          ManagePerson, ManageOrganization, ManageActivity, ManageNote,
          UpdatePerson, UpdateOrganization, WriteActivity, UpdateNote,
          DeletePerson, DeleteOrganization, DeleteActivity, DeleteNote
  <2>2. input[s].action \notin {"create", "delete"}
    BY <2>1 DEF Apply, Become, recordVars
  <2>3. rec' = After(kind, rec, WireOf(s))
    BY <2>1, <2>2 DEF Apply, Become
  <2>4. rec = before[s] /\ Passed(s)
    <3>1. (at[s] = "send" \/ verdict[s] = "maybe") /\ ~Makes(s)
      BY <2>1, <2>2 DEF Apply, Makes
    <3> QED
      BY <2>0, <3>1 DEF Ctl, Past, Passed, Sends
  <2>5. f # "person_id"
    BY <2>0, <2>3, <2>4, PersonIdKept DEF WrittenBy
  <2>6. f \in Predicted(s)
    BY <2>0, <2>2, <2>3, <2>4, <2>5, WrittenAsPredicted, PredictedIs
  <2>7. Projected(before[s])[f] # <<>>
    <3>1. f \in DOMAIN before[s] /\ HoldsItsTypes(before[s])
      BY <2>0 DEF RecordTypeOK
    <3> QED
      BY <2>4, <3>1, FieldTold, ProjectedAt
  <2> QED
    BY <2>0, <2>2, <2>4, <2>6, <2>7 DEF Checks
<1> QED
  BY <1>1, RecordInvariance, PTL DEF RecordSpec, NoUnnamedLoss
=============================================================================
