------------------------ MODULE TransitionRunnerProofs ------------------------
(***************************************************************************)
(* The ledger and the rows agree, and the ledger is right, whatever        *)
(* interrupts the runner: for any number of Units of Work, any requests    *)
(* and any facts.                                                          *)
(*                                                                         *)
(* Every step of the runner is a step of its Unit of Work, so what is      *)
(* proved there holds here.  The rest is an invariant of each Unit of Work *)
(* on its own (Sound), which the others cannot disturb, and what a commit  *)
(* makes of it in the ledger and the rows.                                 *)
(***************************************************************************)
EXTENDS TransitionRunner, UnitOfWorkProofs, WellFoundedInduction, FiniteSetTheorems

Ended == {"committed", "failed"}

Truthful(line, q) ==
  /\ line.outcome = "ALLOWED" => IsLegal(q) /\ Unmet(q) = {}
  /\ line.outcome = "REJECTED" =>
       IF IsLegal(q) THEN line.reasons \cap Unmet(q) # {}
       ELSE line.reasons = {"state_machine"}

NamesEverything(reasons, q) ==
  /\ Unmet(q) \subseteq reasons /\ reasons \subseteq Selected(Requested(q))
  /\ \A c \in reasons \ Unmet(q) : RuleFor(c).requires \cap reasons # {}

Complete(line, q) ==
  line.outcome = "REJECTED" /\ IsLegal(q) => NamesEverything(line.reasons, q)

RowsOf(saves) == {saves[i][1] : i \in DOMAIN saves}

(* A skipped rule always has a failed one behind it, and one that did not  *)
(* pass right before it.                                                   *)
VerdictIsSound(s) ==
  /\ step[s] \in {"idle", "loading", "asking"} => verdict[s] = Unjudged
  /\ \A c \in IMPLEMENTED :
       /\ verdict[s][c] = "PASSED" => c \in request[s].holds
       /\ verdict[s][c] = "FAILED" => c \in Unmet(request[s])
       /\ verdict[s][c] = "SKIPPED" => \E d \in IMPLEMENTED : verdict[s][d] = "FAILED"
       /\ verdict[s][c] = "SKIPPED" => Blocking(c, verdict[s]) # {}
       /\ verdict[s][c] # "PENDING" => c \in Selected(Requested(request[s]))

PlaceIsEarned(s) ==
  /\ step[s] \in {"asking", "judging", "refusing"} => ~IsPlain(request[s])
  /\ step[s] = "judging" => IsLegal(request[s])
  /\ step[s] = "applying" /\ ~IsPlain(request[s]) =>
       IsLegal(request[s]) /\ Unmet(request[s]) = {}
  /\ step[s] = "refusing" /\ IsLegal(request[s]) =>
       /\ RuleReasons(verdict[s]) \cap Unmet(request[s]) # {}
       /\ NamesEverything(RuleReasons(verdict[s]), request[s])

WorkIsWhole(s) ==
  /\ step[s] \in {"loading", "asking", "judging", "refusing"} => written[s] = {} /\ staged[s] = {}
  /\ step[s] \in {"loading", "asking", "judging"} => todo[s] = request[s].saves
  /\ step[s] = "applying" =>
       staged[s] = {} /\ written[s] \cup RowsOf(todo[s]) = Saves(request[s])
  /\ step[s] = "committing" =>
       \/ /\ written[s] = Saves(request[s])
          /\ IF IsPlain(request[s]) THEN staged[s] = {}
             ELSE {line.outcome : line \in staged[s]} = {"ALLOWED"}
       \/ /\ ~IsPlain(request[s]) /\ written[s] = {}
          /\ {line.outcome : line \in staged[s]} = {"REJECTED"}

StagedIsTrue(s) ==
  \A line \in staged[s] : Truthful(line, request[s]) /\ Complete(line, request[s])

Sound(s) == VerdictIsSound(s) /\ PlaceIsEarned(s) /\ WorkIsWhole(s) /\ StagedIsTrue(s)

AllSound == \A s \in Session : Sound(s)

(* Only who has ended has left a trace.                                    *)
TracesAreOfTheEnded ==
  /\ \A line \in ledger : state[line.session] \in Ended
  /\ \A r \in Row : \A s \in stored[r].by : state[s] \in Ended

----------------------------------------------------------------------------
LEMMA PrerequisitesHaveRules == \A c \in IMPLEMENTED : RuleFor(c).requires \subseteq IMPLEMENTED
BY RegistryAssumption DEF ValidRegistry

LEMMA RequestsAreTyped ==
  ASSUME TypeOK, NEW s \in Session
  PROVE  /\ todo[s] \in Seq(Row \X Change)
         /\ request[s].saves \in Seq(Row \X Change)
         /\ request[s].holds \subseteq IMPLEMENTED
         /\ Asked[s] \subseteq Request
<1>1. request[s] \in Request \cup {NoRequest}
  BY DEF TypeOK
<1>2. /\ request[s].saves \in Seq(Row \X Change)
      /\ request[s].holds \subseteq IMPLEMENTED
  <2>1. CASE request[s] = NoRequest
    <3>1. NoRequest.saves = <<>> /\ NoRequest.holds = {}
      BY DEF NoRequest
    <3>2. QED
      BY <2>1, <3>1
  <2>2. CASE request[s] \in Request
    BY <2>2 DEF Request
  <2>3. QED
    BY <1>1, <2>1, <2>2
<1>3. QED
  BY <1>2, TransitionRunnerAssumption DEF TypeOK

LEMMA NextSaveIsTyped ==
  ASSUME TypeOK, NEW s \in Session, todo[s] # <<>>
  PROVE  /\ Head(todo[s])[1] \in Row /\ Head(todo[s])[2] \in Change
         /\ Tail(todo[s]) \in Seq(Row \X Change)
         /\ RowsOf(todo[s]) = {Head(todo[s])[1]} \cup RowsOf(Tail(todo[s]))
<1> DEFINE l == todo[s]
<1>1. l \in Seq(Row \X Change)
  BY RequestsAreTyped
<1> HIDE DEF l
<1>2. l # <<>>
  BY DEF l
<1>3. Len(l) \in Nat \ {0} /\ Head(l) = l[1] /\ l[1] \in Row \X Change
  BY <1>1, <1>2
<1>4. /\ Tail(l) \in Seq(Row \X Change) /\ Len(Tail(l)) = Len(l) - 1
      /\ \A i \in 1..Len(Tail(l)) : Tail(l)[i] = l[i + 1]
  BY <1>1, <1>2
<1>5. RowsOf(l) = {l[1][1]} \cup RowsOf(Tail(l))
  <2>1. \A i \in 1..Len(l) : i = 1 \/ (i - 1 \in 1..Len(Tail(l)) /\ l[i] = Tail(l)[i - 1])
    BY <1>3, <1>4
  <2>2. \A i \in 1..Len(Tail(l)) : i + 1 \in 1..Len(l) /\ Tail(l)[i] = l[i + 1]
    BY <1>3, <1>4
  <2>3. 1 \in 1..Len(l)
    BY <1>3
  <2>4. DOMAIN l = 1..Len(l) /\ DOMAIN Tail(l) = 1..Len(Tail(l))
    BY <1>1, <1>4
  <2>5. RowsOf(l) \subseteq {l[1][1]} \cup RowsOf(Tail(l))
    <3>1. SUFFICES ASSUME NEW i \in 1..Len(l)
                   PROVE  l[i][1] = l[1][1] \/ l[i][1] \in {Tail(l)[j][1] : j \in 1..Len(Tail(l))}
      BY <2>4 DEF RowsOf
    <3>2. CASE i = 1
      BY <3>2
    <3>3. CASE i # 1
      <4>1. i - 1 \in 1..Len(Tail(l)) /\ l[i] = Tail(l)[i - 1]
        BY <2>1, <3>3
      <4>2. QED
        BY <4>1
    <3>4. QED
      BY <3>2, <3>3
  <2>6. {l[1][1]} \cup RowsOf(Tail(l)) \subseteq RowsOf(l)
    BY <2>2, <2>3, <2>4 DEF RowsOf
  <2>7. QED
    BY <2>5, <2>6
<1>6. QED
  BY <1>3, <1>4, <1>5 DEF l

LEMMA LinesAreLines ==
  ASSUME TypeOK, NEW s \in Session
  PROVE  /\ Line(s, "ALLOWED", {}) \in AuditLine
         /\ Line(s, "REJECTED", Reasons(s)) \in AuditLine
<1>1. Reasons(s) \subseteq Reason
  <2>1. RuleReasons(verdict[s]) \subseteq IMPLEMENTED
    BY DEF RuleReasons
  <2>2. QED
    BY <2>1, TransitionRunnerAssumption DEF Reasons
<1>2. QED
  BY <1>1 DEF Line, AuditLine, Outcome

----------------------------------------------------------------------------
(* Every step of the runner is one of its Unit of Work.                    *)
LEMMA RunnerStepsAreUnitSteps ==
  ASSUME TypeOK, [Next]_vars
  PROVE  [UnitsNext]_unitVars
<1>1. CASE UNCHANGED vars
  BY <1>1 DEF vars, unitVars
<1>2. ASSUME NEW s \in Session, Begin(s) PROVE [UnitsNext]_unitVars
  BY <1>2 DEF Begin, UnitsNext
<1>3. ASSUME NEW s \in Session, Runs(s) PROVE [UnitsNext]_unitVars
  <2>1. ASSUME LoadNext(s) PROVE [UnitsNext]_unitVars
    <3>1. PICK i \in DOMAIN todo[s] : Load(s, todo[s][i][1])
      BY <2>1 DEF LoadNext
    <3>2. todo[s][i][1] \in Row
      BY RequestsAreTyped
    <3>3. QED
      BY <3>1, <3>2 DEF UnitsNext
  <2>2. ASSUME Ask(s) \/ EvaluateMachine(s) \/ EvaluateRule(s) \/ Conclude(s)
        PROVE  [UnitsNext]_unitVars
    BY <2>2 DEF Ask, EvaluateMachine, EvaluateRule, Conclude, unitVars
  <2>3. ASSUME Apply(s) PROVE [UnitsNext]_unitVars
    <3>1. todo[s] # <<>> /\ Save(s, Head(todo[s])[1], Head(todo[s])[2])
      BY <2>3 DEF Apply
    <3>2. QED
      BY <3>1, NextSaveIsTyped DEF UnitsNext
  <2>4. ASSUME RecordAllowed(s) PROVE [UnitsNext]_unitVars
    BY <2>4, LinesAreLines DEF RecordAllowed, UnitsNext, unitVars
  <2>5. ASSUME RecordRejected(s) PROVE [UnitsNext]_unitVars
    BY <2>5, LinesAreLines DEF RecordRejected, UnitsNext
  <2>6. ASSUME RunnerCommits(s) \/ Raise(s) PROVE [UnitsNext]_unitVars
    BY <2>6 DEF RunnerCommits, Raise, UnitsNext
  <2>7. QED
    BY <1>3, <2>1, <2>2, <2>3, <2>4, <2>5, <2>6 DEF Runs
<1>4. ASSUME NEW s \in Session, Abandon(s) PROVE [UnitsNext]_unitVars
  BY <1>4 DEF Abandon, UnitsNext
<1>5. QED
  BY <1>1, <1>2, <1>3, <1>4 DEF Next

----------------------------------------------------------------------------
LEMMA RunnerTypesInit == Init => TypeOK
<1>1. SUFFICES ASSUME Init PROVE TypeOK
  OBVIOUS
<1>2. UnitsTypeOK /\ \A s \in Session : state[s] = "idle"
  BY <1>1, UnitsTypesInit DEF Init, UnitsInit
<1>3. Unjudged \in [IMPLEMENTED -> RuleStatus]
  BY DEF Unjudged, RuleStatus
<1>4. QED
  BY <1>1, <1>2, <1>3 DEF Init, TypeOK, Step

(* What the four variables of the runner do when a Unit of Work is left.   *)
LEMMA FinishingClears ==
  ASSUME TypeOK, NEW s \in Session, NEW how \in Ended, End(s, how), Finish(s)
  PROVE  /\ request' = request
         /\ step' = [step EXCEPT ![s] = "idle"]
         /\ verdict' = [verdict EXCEPT ![s] = Unjudged]
         /\ todo' = [todo EXCEPT ![s] = <<>>]
         /\ state' = [state EXCEPT ![s] = how]
BY DEF End, Finish, Goto

LEMMA LeavingEnds ==
  ASSUME NEW s \in Session
  PROVE  /\ RunnerCommits(s) => Finish(s) /\ \E how \in Ended : End(s, how)
         /\ Raise(s) \/ Abandon(s) => Finish(s) /\ End(s, "failed")
BY DEF RunnerCommits, Raise, Abandon, Commit, RollBack, Ended

LEMMA RunnerTypesNext == TypeOK /\ [Next]_vars => TypeOK'
<1>1. SUFFICES ASSUME TypeOK, [Next]_vars PROVE TypeOK'
  OBVIOUS
<1>2. UnitsTypeOK'
  <2>1. UnitsTypeOK /\ [UnitsNext]_unitVars
    BY <1>1, RunnerStepsAreUnitSteps DEF TypeOK
  <2>2. QED
    BY <2>1, UnitsTypesNext
<1>3. CASE UNCHANGED vars
  BY <1>1, <1>2, <1>3 DEF vars, uow, control, TypeOK
<1>4. ASSUME NEW s \in Session, Begin(s) PROVE TypeOK'
  <2>1. PICK q \in Asked[s] : /\ request' = [request EXCEPT ![s] = q]
                              /\ todo' = [todo EXCEPT ![s] = q.saves]
    BY <1>4 DEF Begin
  <2>2. q \in Request /\ q.saves \in Seq(Row \X Change)
    BY <2>1, TransitionRunnerAssumption DEF Request
  <2>3. QED
    <3>1. /\ request' \in [Session -> Request \cup {NoRequest}]
          /\ todo' \in [Session -> Seq(Row \X Change)]
      BY <1>1, <2>1, <2>2 DEF TypeOK
    <3>2. verdict' = verdict /\ step' = [step EXCEPT ![s] = "loading"]
          /\ state' = [state EXCEPT ![s] = "open"]
      BY <1>4 DEF Begin, Goto, Open
    <3>3. step' \in [Session -> Step] /\ \A t \in Session : step'[t] # "idle" <=> state'[t] = "open"
      BY <1>1, <3>2 DEF TypeOK, UnitsTypeOK, Step
    <3>4. QED
      BY <1>1, <1>2, <3>1, <3>2, <3>3 DEF TypeOK
<1>5. ASSUME NEW s \in Session, LoadNext(s) PROVE TypeOK'
  BY <1>1, <1>2, <1>5 DEF LoadNext, Load, control, TypeOK
<1>6. ASSUME NEW s \in Session,
             Ask(s) \/ EvaluateMachine(s) \/ Conclude(s) \/ RecordAllowed(s) \/ RecordRejected(s)
      PROVE  TypeOK'
  <2>1. /\ state' = state /\ request' = request /\ verdict' = verdict /\ todo' = todo
        /\ step[s] # "idle"
        /\ \E place \in Step \ {"idle"} : step' = [step EXCEPT ![s] = place]
    BY <1>6 DEF Ask, EvaluateMachine, Conclude, AfterJudgement, RecordAllowed, RecordRejected,
       AppendLine, Goto, rows, uow, Step
  <2>2. QED
    BY <1>1, <1>2, <2>1 DEF TypeOK
<1>7. ASSUME NEW s \in Session, EvaluateRule(s) PROVE TypeOK'
  <2>1. PICK c \in IMPLEMENTED :
          verdict' = [verdict EXCEPT ![s][c] = StatusOf(c, request[s].holds, verdict[s])]
    BY <1>7 DEF EvaluateRule
  <2>2. StatusOf(c, request[s].holds, verdict[s]) \in RuleStatus
    BY DEF StatusOf, RuleStatus
  <2>3. verdict' \in [Session -> [IMPLEMENTED -> RuleStatus]]
    BY <1>1, <2>1, <2>2 DEF TypeOK
  <2>4. QED
    BY <1>1, <1>2, <1>7, <2>3 DEF EvaluateRule, uow, TypeOK
<1>8. ASSUME NEW s \in Session, Apply(s) PROVE TypeOK'
  <2>1. todo' \in [Session -> Seq(Row \X Change)]
    BY <1>1, <1>8, NextSaveIsTyped DEF Apply, TypeOK
  <2>2. QED
    BY <1>1, <1>2, <1>8, <2>1 DEF Apply, Save, TypeOK
<1>9. ASSUME NEW s \in Session, RunnerCommits(s) \/ Raise(s) \/ Abandon(s) PROVE TypeOK'
  <2>1. PICK how \in Ended : End(s, how)
    BY <1>9, LeavingEnds DEF Ended
  <2>2. /\ request' = request
        /\ step' = [step EXCEPT ![s] = "idle"]
        /\ verdict' = [verdict EXCEPT ![s] = Unjudged]
        /\ todo' = [todo EXCEPT ![s] = <<>>]
        /\ state' = [state EXCEPT ![s] = how]
    BY <1>1, <1>9, <2>1, LeavingEnds, FinishingClears
  <2>3. Unjudged \in [IMPLEMENTED -> RuleStatus] /\ <<>> \in Seq(Row \X Change)
    BY DEF Unjudged, RuleStatus
  <2>4. how # "open"
    BY <2>1 DEF Ended
  <2>5. step' \in [Session -> Step] /\ \A t \in Session : step'[t] # "idle" <=> state'[t] = "open"
    BY <1>1, <2>2, <2>4 DEF TypeOK, UnitsTypeOK, Step
  <2>6. verdict' \in [Session -> [IMPLEMENTED -> RuleStatus]] /\ todo' \in [Session -> Seq(Row \X Change)]
    BY <1>1, <2>2, <2>3 DEF TypeOK
  <2>7. QED
    BY <1>1, <1>2, <2>2, <2>5, <2>6 DEF TypeOK
<1>10. QED
  BY <1>1, <1>3, <1>4, <1>5, <1>6, <1>7, <1>8, <1>9 DEF Next, Runs

(* Every variable stays what its comment says it is.                       *)
THEOREM RunnerTypes == Spec => []TypeOK
BY RunnerTypesInit, RunnerTypesNext, PTL DEF Spec

----------------------------------------------------------------------------
(* The runner is one caller of Units of Work among any: what they promise, *)
(* it keeps.                                                               *)
LEMMA RunnerUsesUnits == Spec => UnitsSpec
<1>1. Init => UnitsInit
  BY DEF Init
<1>2. TypeOK /\ [Next]_vars => [UnitsNext]_unitVars
  BY RunnerStepsAreUnitSteps
<1>3. QED
  BY <1>1, <1>2, RunnerTypes, PTL DEF Spec, UnitsSpec, unitVars

(* No Unit of Work that uses the runner writes over another's work.        *)
THEOREM RunnerLosesNothing == Spec => NothingIsLost
BY RunnerUsesUnits, NoUpdateIsLost, PTL

(* No Unit of Work that uses the runner rewrites frozen content.           *)
THEOREM RunnerKeepsFrozenContent == Spec => ContentStaysFrozen
BY RunnerUsesUnits, FrozenContentStays, PTL

(* A transition of the runner is one step to the reader of the database.   *)
THEOREM RunnerIsAtomic == Spec => ImplementsAtomicStore
BY RunnerUsesUnits, UnitsAreAtomic, PTL

----------------------------------------------------------------------------
(* One Unit of Work on its own.                                            *)
LEMMA SoundInit == Init => AllSound
<1>1. SUFFICES ASSUME Init, NEW s \in Session PROVE Sound(s)
  BY DEF AllSound
<1>2. step[s] = "idle" /\ verdict[s] = Unjudged /\ staged[s] = {}
  BY <1>1 DEF Init, UnitsInit
<1>3. \A c \in IMPLEMENTED : Unjudged[c] = "PENDING"
  BY DEF Unjudged
<1>4. QED
  BY <1>2, <1>3 DEF Sound, VerdictIsSound, PlaceIsEarned, WorkIsWhole, StagedIsTrue

Untouched(t) ==
  /\ request'[t] = request[t] /\ step'[t] = step[t] /\ verdict'[t] = verdict[t]
  /\ todo'[t] = todo[t] /\ written'[t] = written[t] /\ staged'[t] = staged[t]

LEMMA UntouchedStaysSound ==
  ASSUME NEW t \in Session, Sound(t), Untouched(t)
  PROVE  Sound(t)'
<1>1. VerdictIsSound(t)'
  BY DEF Sound, Untouched, VerdictIsSound
<1>2. PlaceIsEarned(t)'
  BY DEF Sound, Untouched, PlaceIsEarned
<1>3. WorkIsWhole(t)'
  BY DEF Sound, Untouched, WorkIsWhole
<1>4. StagedIsTrue(t)'
  BY DEF Sound, Untouched, StagedIsTrue
<1>5. QED
  BY <1>1, <1>2, <1>3, <1>4 DEF Sound

LEMMA OthersAreUntouched ==
  ASSUME TypeOK, NEW s \in Session, Begin(s) \/ Runs(s) \/ Abandon(s), NEW t \in Session \ {s}
  PROVE  Untouched(t)
<1>1. CASE Begin(s)
  BY <1>1 DEF Begin, Goto, Open, Untouched, TypeOK
<1>2. CASE LoadNext(s)
  BY <1>2 DEF LoadNext, Load, control, Untouched
<1>3. CASE Ask(s) \/ EvaluateMachine(s) \/ Conclude(s)
  BY <1>3 DEF Ask, EvaluateMachine, Conclude, Goto, uow, Untouched, TypeOK
<1>4. CASE EvaluateRule(s)
  BY <1>4 DEF EvaluateRule, uow, Untouched, TypeOK
<1>5. CASE Apply(s)
  BY <1>5 DEF Apply, Save, Untouched, TypeOK, UnitsTypeOK
<1>6. CASE RecordAllowed(s) \/ RecordRejected(s)
  BY <1>6 DEF RecordAllowed, RecordRejected, AppendLine, Goto, uow, Untouched, TypeOK, UnitsTypeOK
<1>7. CASE RunnerCommits(s) \/ Raise(s) \/ Abandon(s)
  <2>1. PICK how \in Ended : End(s, how) /\ Finish(s)
    BY <1>7, LeavingEnds DEF Ended
  <2>2. written'[t] = written[t] /\ staged'[t] = staged[t]
    BY <2>1, EndingReleases DEF TypeOK
  <2>3. QED
    BY <2>1, <2>2 DEF Finish, Goto, Untouched, TypeOK
<1>8. QED
  BY <1>1, <1>2, <1>3, <1>4, <1>5, <1>6, <1>7 DEF Runs

LEMMA BeginIsSound ==
  ASSUME TypeOK, StoreInv, NEW s \in Session, Sound(s), Begin(s)
  PROVE  Sound(s)'
<1>1. PICK q \in Asked[s] : /\ request' = [request EXCEPT ![s] = q]
                            /\ todo' = [todo EXCEPT ![s] = q.saves]
  BY DEF Begin
<1>2. /\ step'[s] = "loading" /\ verdict'[s] = Unjudged
      /\ request'[s] = q /\ todo'[s] = q.saves
  BY <1>1 DEF Begin, Goto, TypeOK, Sound, VerdictIsSound
<1>3. written'[s] = {} /\ staged'[s] = {}
  BY DEF Begin, Open, StoreInv, ClosedHoldNothing
<1>4. \A c \in IMPLEMENTED : Unjudged[c] = "PENDING"
  BY DEF Unjudged
<1>5. QED
  BY <1>2, <1>3, <1>4 DEF Sound, VerdictIsSound, PlaceIsEarned, WorkIsWhole, StagedIsTrue

LEMMA AskIsSound ==
  ASSUME TypeOK, NEW s \in Session, Sound(s), Ask(s) \/ EvaluateMachine(s)
  PROVE  Sound(s)'
<1>1. /\ request'[s] = request[s] /\ verdict'[s] = verdict[s] /\ todo'[s] = todo[s]
      /\ written'[s] = written[s] /\ staged'[s] = staged[s]
      /\ step[s] \in {"loading", "asking"}
      /\ step'[s] \in {"applying", "asking", "judging", "refusing"}
      /\ step'[s] = "applying" => IsPlain(request[s])
      /\ step'[s] = "asking" => ~IsPlain(request[s])
      /\ step'[s] \in {"judging", "refusing"} => step[s] = "asking"
      /\ step'[s] = "judging" => IsLegal(request[s])
      /\ step'[s] = "refusing" => ~IsLegal(request[s])
  BY DEF Ask, EvaluateMachine, Goto, TypeOK, uow
<1>2. VerdictIsSound(s)'
  BY <1>1 DEF Sound, VerdictIsSound
<1>3. PlaceIsEarned(s)'
  BY <1>1 DEF Sound, PlaceIsEarned
<1>4. WorkIsWhole(s)'
  BY <1>1 DEF Sound, WorkIsWhole, RowsOf, Saves
<1>5. StagedIsTrue(s)'
  BY <1>1 DEF Sound, StagedIsTrue
<1>6. QED
  BY <1>2, <1>3, <1>4, <1>5 DEF Sound

LEMMA EvaluateRuleIsSound ==
  ASSUME TypeOK, NEW s \in Session, Sound(s), EvaluateRule(s)
  PROVE  Sound(s)'
<1> DEFINE q == request[s]
<1>1. PICK c \in IMPLEMENTED :
        /\ IsNext(c, Requested(q), verdict[s])
        /\ verdict' = [verdict EXCEPT ![s][c] = StatusOf(c, q.holds, verdict[s])]
  BY DEF EvaluateRule
<1>2. /\ request'[s] = q /\ todo'[s] = todo[s] /\ step'[s] = "judging" /\ step[s] = "judging"
      /\ written'[s] = written[s] /\ staged'[s] = staged[s]
  BY DEF EvaluateRule, uow
<1>3. c \in Selected(Requested(q)) /\ verdict[s][c] = "PENDING"
  BY <1>1 DEF IsNext
<1>4. /\ verdict'[s][c] = StatusOf(c, q.holds, verdict[s])
      /\ \A d \in IMPLEMENTED \ {c} : verdict'[s][d] = verdict[s][d]
  BY <1>1 DEF TypeOK
<1>5. \A d \in IMPLEMENTED :
        /\ verdict[s][d] = "PASSED" => d \in q.holds
        /\ verdict[s][d] = "FAILED" => d \in Unmet(q)
        /\ verdict[s][d] = "SKIPPED" => \E e \in IMPLEMENTED : verdict[s][e] = "FAILED"
  BY DEF Sound, VerdictIsSound
<1>6. (\E e \in IMPLEMENTED : verdict[s][e] = "FAILED")
        => \E e \in IMPLEMENTED : verdict'[s][e] = "FAILED"
  BY <1>3, <1>4
<1>7. /\ verdict'[s][c] = "PASSED" => c \in q.holds
      /\ verdict'[s][c] = "FAILED" => c \in Unmet(q)
      /\ verdict'[s][c] = "SKIPPED" => \E e \in IMPLEMENTED : verdict[s][e] = "FAILED"
  <2>1. CASE Blocking(c, verdict[s]) # {}
    <3>1. PICK p \in RuleFor(c).requires : verdict[s][p] \in {"FAILED", "SKIPPED"}
      BY <2>1 DEF Blocking
    <3>2. p \in IMPLEMENTED
      BY <3>1, PrerequisitesHaveRules
    <3>3. \E e \in IMPLEMENTED : verdict[s][e] = "FAILED"
      BY <1>5, <3>1, <3>2
    <3>4. verdict'[s][c] = "SKIPPED"
      BY <1>4, <2>1 DEF StatusOf
    <3>5. QED
      BY <3>3, <3>4
  <2>2. CASE Blocking(c, verdict[s]) = {}
    <3>1. verdict'[s][c] = IF c \in q.holds THEN "PASSED" ELSE "FAILED"
      BY <1>4, <2>2 DEF StatusOf
    <3>2. QED
      BY <1>3, <3>1 DEF Unmet
  <2>3. QED
    BY <2>1, <2>2
<1> HIDE DEF q
<1>8. \A d \in IMPLEMENTED :
        /\ verdict'[s][d] = "PASSED" => d \in q.holds
        /\ verdict'[s][d] = "FAILED" => d \in Unmet(q)
        /\ verdict'[s][d] = "SKIPPED" => \E e \in IMPLEMENTED : verdict'[s][e] = "FAILED"
  BY <1>4, <1>5, <1>6, <1>7
<1>9. VerdictIsSound(s)'
  <2>1. \A d \in IMPLEMENTED \ {c} : verdict'[s][d] = "SKIPPED" => verdict[s][d] = "SKIPPED"
    BY <1>4
  <2>2. \A d \in IMPLEMENTED : Blocking(d, verdict[s]) \subseteq Blocking(d, verdict'[s])
    BY <1>3, <1>4, PrerequisitesHaveRules DEF Blocking
  <2>3. verdict'[s][c] = "SKIPPED" => Blocking(c, verdict[s]) # {}
    BY <1>4 DEF StatusOf
  <2>4. \A d \in IMPLEMENTED \ {c} : verdict[s][d] = "SKIPPED" => Blocking(d, verdict[s]) # {}
    BY DEF Sound, VerdictIsSound
  <2>5. \A d \in IMPLEMENTED : verdict'[s][d] = "SKIPPED" => Blocking(d, verdict'[s]) # {}
    BY <2>1, <2>2, <2>3, <2>4
  <2>6. \A d \in IMPLEMENTED : verdict'[s][d] # "PENDING" => d \in Selected(Requested(q))
    BY <1>3, <1>4 DEF Sound, VerdictIsSound, q
  <2>7. QED
    BY <1>2, <1>8, <2>5, <2>6 DEF VerdictIsSound
<1>10. PlaceIsEarned(s)' /\ WorkIsWhole(s)' /\ StagedIsTrue(s)'
  BY <1>2 DEF Sound, PlaceIsEarned, WorkIsWhole, StagedIsTrue, q
<1>11. QED
  BY <1>9, <1>10 DEF Sound

(* The verdict as a whole is the answer to the request.                    *)
LEMMA ConcludeIsSound ==
  ASSUME TypeOK, NEW s \in Session, Sound(s), Conclude(s)
  PROVE  Sound(s)'
<1> DEFINE q == request[s]
<1>1. /\ request'[s] = q /\ verdict'[s] = verdict[s] /\ todo'[s] = todo[s]
      /\ written'[s] = written[s] /\ staged'[s] = staged[s]
      /\ step[s] = "judging"
      /\ step'[s] = IF IsSatisfied(verdict[s]) THEN "applying" ELSE "refusing"
      /\ \A c \in Selected(Requested(q)) : verdict[s][c] # "PENDING"
  BY DEF Conclude, AfterJudgement, Goto, TypeOK, uow, Evaluated
<1>2. verdict[s] \in [IMPLEMENTED -> RuleStatus]
  BY DEF TypeOK
<1>3. IsSatisfied(verdict[s]) => Unmet(q) = {}
  BY <1>1, <1>2 DEF IsSatisfied, Sound, VerdictIsSound, Unmet, Selected, RuleStatus
<1>4. ~IsSatisfied(verdict[s]) => RuleReasons(verdict[s]) \cap Unmet(q) # {}
  BY DEF IsSatisfied, Sound, VerdictIsSound, RuleReasons
<1>a. NamesEverything(RuleReasons(verdict[s]), q)
  <2>1. Unmet(q) \subseteq RuleReasons(verdict[s])
    BY <1>1, <1>2 DEF Sound, VerdictIsSound, Unmet, Selected, RuleReasons, RuleStatus
  <2>2. RuleReasons(verdict[s]) \subseteq Selected(Requested(q))
    BY DEF Sound, VerdictIsSound, RuleReasons
  <2>3. ASSUME NEW c \in RuleReasons(verdict[s]) \ Unmet(q)
        PROVE  RuleFor(c).requires \cap RuleReasons(verdict[s]) # {}
    <3>1. c \in IMPLEMENTED /\ Blocking(c, verdict[s]) # {}
      BY <2>3 DEF Sound, VerdictIsSound, RuleReasons
    <3>2. Blocking(c, verdict[s]) \subseteq RuleFor(c).requires \cap RuleReasons(verdict[s])
      BY <3>1, PrerequisitesHaveRules DEF Blocking, RuleReasons
    <3>3. QED
      BY <3>1, <3>2
  <2>4. QED
    BY <2>1, <2>2, <2>3 DEF NamesEverything
<1>5. VerdictIsSound(s)'
  BY <1>1 DEF Sound, VerdictIsSound
<1>6. PlaceIsEarned(s)'
  BY <1>1, <1>3, <1>4, <1>a DEF Sound, PlaceIsEarned
<1>7. WorkIsWhole(s)'
  BY <1>1 DEF Sound, WorkIsWhole, RowsOf, Saves
<1>8. StagedIsTrue(s)'
  BY <1>1 DEF Sound, StagedIsTrue
<1>9. QED
  BY <1>5, <1>6, <1>7, <1>8 DEF Sound

LEMMA ApplyIsSound ==
  ASSUME TypeOK, NEW s \in Session, Sound(s), Apply(s)
  PROVE  Sound(s)'
<1> DEFINE r == Head(todo[s])[1]
<1>1. /\ request'[s] = request[s] /\ step'[s] = step[s] /\ verdict'[s] = verdict[s]
      /\ todo'[s] = Tail(todo[s]) /\ written'[s] = written[s] \cup {r} /\ staged'[s] = staged[s]
      /\ step[s] = "applying" /\ todo[s] # <<>>
  BY DEF Apply, Save, TypeOK, UnitsTypeOK
<1>2. RowsOf(todo[s]) = {r} \cup RowsOf(Tail(todo[s]))
  BY <1>1, NextSaveIsTyped
<1> HIDE DEF r
<1>3. VerdictIsSound(s)' /\ PlaceIsEarned(s)' /\ StagedIsTrue(s)'
  BY <1>1 DEF Sound, VerdictIsSound, PlaceIsEarned, StagedIsTrue
<1>4. written'[s] \cup RowsOf(todo'[s]) = written[s] \cup RowsOf(todo[s])
  BY <1>1, <1>2
<1>5. WorkIsWhole(s)'
  BY <1>1, <1>4 DEF Sound, WorkIsWhole
<1>6. QED
  BY <1>3, <1>5 DEF Sound

LEMMA RecordingIsSound ==
  ASSUME TypeOK, NEW s \in Session, Sound(s), RecordAllowed(s) \/ RecordRejected(s)
  PROVE  Sound(s)'
<1>1. /\ request'[s] = request[s] /\ verdict'[s] = verdict[s] /\ todo'[s] = todo[s]
      /\ written'[s] = written[s] /\ step'[s] = "committing"
  BY DEF RecordAllowed, RecordRejected, AppendLine, Goto, TypeOK, uow
<1>2. VerdictIsSound(s)' /\ PlaceIsEarned(s)'
  BY <1>1 DEF Sound, VerdictIsSound, PlaceIsEarned
<1>3. CASE RecordAllowed(s)
  <2>1. staged[s] = {} /\ written[s] = Saves(request[s])
    <3>1. todo[s] = <<>> /\ step[s] = "applying"
      BY <1>3 DEF RecordAllowed
    <3>2. RowsOf(todo[s]) = {}
      BY <3>1 DEF RowsOf
    <3>3. QED
      BY <3>1, <3>2 DEF Sound, WorkIsWhole
  <2>2. CASE IsPlain(request[s])
    <3>1. staged'[s] = {}
      BY <1>3, <2>1, <2>2 DEF RecordAllowed, uow
    <3>2. QED
      BY <1>1, <1>2, <2>1, <2>2, <3>1 DEF Sound, WorkIsWhole, StagedIsTrue
  <2>3. CASE ~IsPlain(request[s])
    <3>1. staged'[s] = {Line(s, "ALLOWED", {})}
      BY <1>3, <2>1, <2>3 DEF RecordAllowed, AppendLine, UnitsTypeOK, TypeOK
    <3>2. Line(s, "ALLOWED", {}).outcome = "ALLOWED"
      BY DEF Line
    <3>3. IsLegal(request[s]) /\ Unmet(request[s]) = {}
      BY <1>3, <2>3 DEF RecordAllowed, Sound, PlaceIsEarned
    <3>4. StagedIsTrue(s)'
      BY <1>1, <3>1, <3>2, <3>3 DEF StagedIsTrue, Truthful, Complete
    <3>5. WorkIsWhole(s)'
      <4>1. {line.outcome : line \in staged'[s]} = {"ALLOWED"}
        BY <3>1, <3>2
      <4>2. QED
        BY <1>1, <2>1, <2>3, <4>1 DEF WorkIsWhole
    <3>6. QED
      BY <1>2, <3>4, <3>5 DEF Sound
  <2>4. QED
    BY <2>2, <2>3
<1>4. CASE RecordRejected(s)
  <2>1. step[s] = "refusing" /\ written[s] = {} /\ staged[s] = {} /\ ~IsPlain(request[s])
    BY <1>4 DEF RecordRejected, Sound, WorkIsWhole, PlaceIsEarned
  <2>2. staged'[s] = {Line(s, "REJECTED", Reasons(s))}
    BY <1>4, <2>1 DEF RecordRejected, AppendLine, UnitsTypeOK, TypeOK
  <2>3. /\ Line(s, "REJECTED", Reasons(s)).outcome = "REJECTED"
        /\ Line(s, "REJECTED", Reasons(s)).reasons = Reasons(s)
    BY DEF Line
  <2>4. IF IsLegal(request[s]) THEN Reasons(s) \cap Unmet(request[s]) # {}
        ELSE Reasons(s) = {"state_machine"}
    BY <2>1, <1>4 DEF RecordRejected, Reasons, Sound, PlaceIsEarned
  <2>a. IsLegal(request[s]) => NamesEverything(Reasons(s), request[s])
    BY <1>4 DEF RecordRejected, Reasons, Sound, PlaceIsEarned
  <2>5. StagedIsTrue(s)'
    BY <1>1, <2>2, <2>3, <2>4, <2>a DEF StagedIsTrue, Truthful, Complete
  <2>6. WorkIsWhole(s)'
    BY <1>1, <2>1, <2>2, <2>3 DEF WorkIsWhole
  <2>7. QED
    BY <1>2, <2>5, <2>6 DEF Sound
<1>5. QED
  BY <1>3, <1>4

LEMMA LeavingIsSound ==
  ASSUME TypeOK, NEW s \in Session, RunnerCommits(s) \/ Raise(s) \/ Abandon(s)
  PROVE  Sound(s)'
<1>1. PICK how \in Ended : End(s, how) /\ Finish(s)
  BY LeavingEnds DEF Ended
<1>2. step'[s] = "idle" /\ verdict'[s] = Unjudged /\ written'[s] = {} /\ staged'[s] = {}
  BY <1>1, EndingReleases DEF Finish, Goto, TypeOK
<1>3. \A c \in IMPLEMENTED : Unjudged[c] = "PENDING"
  BY DEF Unjudged
<1>4. QED
  BY <1>2, <1>3 DEF Sound, VerdictIsSound, PlaceIsEarned, WorkIsWhole, StagedIsTrue

LEMMA SoundNext == TypeOK /\ StoreInv /\ AllSound /\ [Next]_vars => AllSound'
<1>1. SUFFICES ASSUME TypeOK, StoreInv, AllSound, [Next]_vars, NEW t \in Session
               PROVE  Sound(t)'
  BY DEF AllSound
<1>2. Sound(t)
  BY <1>1 DEF AllSound
<1>3. CASE UNCHANGED vars
  BY <1>2, <1>3, UntouchedStaysSound DEF vars, uow, control, Untouched
<1>4. ASSUME NEW s \in Session, Begin(s) \/ Runs(s) \/ Abandon(s) PROVE Sound(t)'
  <2>1. CASE t # s
    BY <1>1, <1>2, <1>4, <2>1, OthersAreUntouched, UntouchedStaysSound
  <2>2. CASE t = s /\ LoadNext(s)
    BY <1>2, <2>2, UntouchedStaysSound DEF LoadNext, Load, control, Untouched
  <2>3. CASE t = s /\ ~LoadNext(s)
    BY <1>1, <1>2, <1>4, <2>3, BeginIsSound, AskIsSound, EvaluateRuleIsSound, ConcludeIsSound,
       ApplyIsSound, RecordingIsSound, LeavingIsSound DEF Runs
  <2>4. QED
    BY <2>1, <2>2, <2>3
<1>5. QED
  BY <1>1, <1>3, <1>4 DEF Next

----------------------------------------------------------------------------
(* What a commit leaves behind.                                            *)
Settled ==
  TracesAreOfTheEnded /\ OutcomesAreWhole /\ LinesTellTheTruth /\ RefusalsNameEverything

LEMMA SettledInit == Init => Settled
<1>1. SUFFICES ASSUME Init PROVE Settled
  OBVIOUS
<1>2. ledger = {} /\ \A r \in Row : stored[r].by = {}
  BY <1>1 DEF Init, UnitsInit, NewRow
<1>3. \A s \in Session : Outcomes(s) = {} /\ Writes(s) = {} /\ state[s] = "idle"
  BY <1>1, <1>2 DEF Outcomes, Writes, Init, UnitsInit
<1>4. QED
  BY <1>2, <1>3 DEF Settled, TracesAreOfTheEnded, OutcomesAreWhole, LinesTellTheTruth,
     RefusalsNameEverything

(* A Unit of Work that has not ended has left nothing.                     *)
LEMMA NoTraceBeforeTheEnd ==
  ASSUME TracesAreOfTheEnded, NEW s \in Session, state[s] \notin Ended
  PROVE  /\ Outcomes(s) = {} /\ Writes(s) = {}
         /\ \A line \in ledger : line.session # s
BY DEF TracesAreOfTheEnded, Outcomes, Writes

LEMMA NothingCommittedStaysSettled ==
  ASSUME TypeOK, Settled, UNCHANGED rows,
         \A t \in Session : /\ request'[t] # request[t] => state[t] = "idle"
                            /\ state[t] \in Ended => state'[t] = state[t]
                            /\ state'[t] = "committed" => state[t] = "committed"
  PROVE  Settled'
<1>1. stored' = stored /\ ledger' = ledger
  BY DEF rows
<1>2. TracesAreOfTheEnded'
  <2>1. \A r \in Row : stored[r].by \subseteq Session
    BY DEF TypeOK, UnitsTypeOK, RowRecord
  <2>2. \A line \in ledger : line.session \in Session
    BY DEF TypeOK, UnitsTypeOK, AuditLine
  <2>3. QED
    BY <1>1, <2>1, <2>2 DEF Settled, TracesAreOfTheEnded
<1>3. \A line \in ledger : line.session \in Session /\ state[line.session] \in Ended
  BY DEF Settled, TracesAreOfTheEnded, TypeOK, UnitsTypeOK, AuditLine
<1>4. LinesTellTheTruth' /\ RefusalsNameEverything'
  <2>1. \A line \in ledger : request'[line.session] = request[line.session]
    BY <1>3 DEF Ended
  <2>2. LinesTellTheTruth'
    BY <1>1, <2>1 DEF Settled, LinesTellTheTruth
  <2>3. RefusalsNameEverything'
    BY <1>1, <2>1 DEF Settled, RefusalsNameEverything
  <2>4. QED
    BY <2>2, <2>3
<1>5. OutcomesAreWhole'
  <2>1. SUFFICES ASSUME NEW t \in Session
        PROVE  LET q == request'[t] IN
               /\ \/ Outcomes(t)' = {"REJECTED"} /\ Writes(t)' = {}
                  \/ Outcomes(t)' = {"ALLOWED"} /\ Writes(t)' = Saves(q)
                  \/ Outcomes(t)' = {} /\ (Writes(t)' = {} \/ (IsPlain(q) /\ Writes(t)' = Saves(q)))
               /\ state'[t] = "committed" =>
                    IF IsPlain(q) THEN Writes(t)' = Saves(q) ELSE Outcomes(t)' # {}
    BY DEF OutcomesAreWhole
  <2>2. Outcomes(t)' = Outcomes(t) /\ Writes(t)' = Writes(t)
    BY <1>1 DEF Outcomes, Writes
  <2>3. CASE request'[t] = request[t]
    BY <2>2, <2>3 DEF Settled, OutcomesAreWhole
  <2>4. CASE request'[t] # request[t]
    <3>1. state[t] = "idle" /\ state'[t] # "committed"
      BY <2>4
    <3>2. Outcomes(t) = {} /\ Writes(t) = {}
      BY <3>1, NoTraceBeforeTheEnd DEF Settled, Ended
    <3>3. QED
      BY <2>2, <3>1, <3>2
  <2>5. QED
    BY <2>3, <2>4
<1>6. QED
  BY <1>2, <1>4, <1>5 DEF Settled

LEMMA CommitSettles ==
  ASSUME TypeOK, StoreInv, AllSound, Settled, NEW s \in Session, RunnerCommits(s)
  PROVE  Settled'
<1>1. PICK how \in Ended : End(s, how) /\ Finish(s)
  BY LeavingEnds DEF Ended
<1>2. /\ state' = [state EXCEPT ![s] = how] /\ request' = request
      /\ step[s] = "committing" /\ state[s] = "open" /\ Commit(s)
      /\ ledger' = ledger \cup staged[s]
  BY <1>1 DEF End, Finish, RunnerCommits, Commit
<1>3. /\ \A r \in written[s] : stored'[r].by = stored[r].by \cup {s}
      /\ \A r \in Row \ written[s] : stored'[r] = stored[r]
  BY <1>2, CommitWrites DEF TypeOK, BuildsOn
<1>4. /\ \A line \in ledger : line.session \in Session
      /\ \A line \in staged[s] : line.session = s
      /\ written[s] \subseteq Row
      /\ \A r \in Row : stored[r].by \subseteq Session
      /\ state \in [Session -> {"idle", "open", "committed", "failed"}]
  BY DEF TypeOK, UnitsTypeOK, AuditLine, RowRecord
<1>5. TracesAreOfTheEnded'
  <2>1. state'[s] \in Ended /\ \A t \in Session \ {s} : state'[t] = state[t]
    BY <1>2, <1>4
  <2>2. \A line \in ledger' : state'[line.session] \in Ended
    BY <1>2, <1>4, <2>1 DEF Settled, TracesAreOfTheEnded
  <2>3. \A r \in Row : \A t \in stored'[r].by : state'[t] \in Ended
    BY <1>3, <1>4, <2>1 DEF Settled, TracesAreOfTheEnded
  <2>4. QED
    BY <2>2, <2>3 DEF TracesAreOfTheEnded
<1>6. Outcomes(s) = {} /\ Writes(s) = {}
  BY <1>2, NoTraceBeforeTheEnd DEF Settled, Ended
<1>7. Writes(s)' = written[s]
  BY <1>3, <1>4, <1>6 DEF Writes
<1>8. Outcomes(s)' = {line.outcome : line \in staged[s]}
  <2>1. {x \in ledger' : x.session = s} = staged[s]
    BY <1>2, <1>4, NoTraceBeforeTheEnd DEF Settled, Ended
  <2>2. QED
    BY <2>1 DEF Outcomes
<1>9. \A t \in Session \ {s} : Writes(t)' = Writes(t) /\ Outcomes(t)' = Outcomes(t)
  <2>1. SUFFICES ASSUME NEW t \in Session \ {s}
                 PROVE  Writes(t)' = Writes(t) /\ Outcomes(t)' = Outcomes(t)
    OBVIOUS
  <2>2. Writes(t)' = Writes(t)
    BY <1>3, <1>4 DEF Writes
  <2>3. {x \in ledger' : x.session = t} = {x \in ledger : x.session = t}
    BY <1>2, <1>4
  <2>4. Outcomes(t)' = Outcomes(t)
    BY <2>3 DEF Outcomes
  <2>5. QED
    BY <2>2, <2>4
<1>10. OutcomesAreWhole'
  <2>1. SUFFICES ASSUME NEW t \in Session
        PROVE  LET q == request'[t] IN
               /\ \/ Outcomes(t)' = {"REJECTED"} /\ Writes(t)' = {}
                  \/ Outcomes(t)' = {"ALLOWED"} /\ Writes(t)' = Saves(q)
                  \/ Outcomes(t)' = {} /\ (Writes(t)' = {} \/ (IsPlain(q) /\ Writes(t)' = Saves(q)))
               /\ state'[t] = "committed" =>
                    IF IsPlain(q) THEN Writes(t)' = Saves(q) ELSE Outcomes(t)' # {}
    BY DEF OutcomesAreWhole
  <2>2. CASE t = s
    <3>1. \/ /\ written[s] = Saves(request[s])
             /\ IF IsPlain(request[s]) THEN staged[s] = {}
                ELSE {line.outcome : line \in staged[s]} = {"ALLOWED"}
          \/ /\ ~IsPlain(request[s]) /\ written[s] = {}
             /\ {line.outcome : line \in staged[s]} = {"REJECTED"}
      BY <1>2 DEF AllSound, Sound, WorkIsWhole
    <3>2. staged[s] = {} => Outcomes(s)' = {}
      BY <1>8
    <3>3. QED
      BY <1>2, <1>7, <1>8, <2>2, <3>1, <3>2
  <2>3. CASE t # s
    BY <1>2, <1>4, <1>9, <2>3 DEF Settled, OutcomesAreWhole
  <2>4. QED
    BY <2>2, <2>3
<1>11. LinesTellTheTruth' /\ RefusalsNameEverything'
  <2>1. \A line \in staged[s] : /\ Truthful(line, request[line.session])
                                /\ Complete(line, request[line.session])
    BY <1>4 DEF AllSound, Sound, StagedIsTrue
  <2>2. \A line \in ledger : Truthful(line, request[line.session])
    BY DEF Settled, LinesTellTheTruth, Truthful
  <2>3. \A line \in ledger : Complete(line, request[line.session])
    BY DEF Settled, RefusalsNameEverything, Complete, NamesEverything
  <2>4. \A line \in ledger' : /\ Truthful(line, request'[line.session])
                              /\ Complete(line, request'[line.session])
    BY <1>2, <2>1, <2>2, <2>3
  <2>5. LinesTellTheTruth'
    BY <2>4 DEF LinesTellTheTruth, Truthful
  <2>6. RefusalsNameEverything'
    BY <2>4 DEF RefusalsNameEverything, Complete, NamesEverything
  <2>7. QED
    BY <2>5, <2>6
<1>12. QED
  BY <1>5, <1>10, <1>11 DEF Settled

LEMMA SettledNext == TypeOK /\ StoreInv /\ AllSound /\ Settled /\ [Next]_vars => Settled'
<1>1. SUFFICES ASSUME TypeOK, StoreInv, AllSound, Settled, [Next]_vars PROVE Settled'
  OBVIOUS
<1> DEFINE Frame == /\ UNCHANGED rows
                    /\ \A t \in Session : /\ request'[t] # request[t] => state[t] = "idle"
                                          /\ state[t] \in Ended => state'[t] = state[t]
                                          /\ state'[t] = "committed" => state[t] = "committed"
<1>2. CASE UNCHANGED vars
  <2>1. Frame
    BY <1>2 DEF vars, rows, uow, control
  <2>2. QED
    BY <1>1, <2>1, NothingCommittedStaysSettled
<1>3. ASSUME NEW s \in Session, Begin(s) PROVE Settled'
  <2>1. Frame
    BY <1>1, <1>3 DEF Begin, Open, rows, Ended, TypeOK, UnitsTypeOK
  <2>2. QED
    BY <1>1, <2>1, NothingCommittedStaysSettled
<1>4. ASSUME NEW s \in Session,
             \/ LoadNext(s) \/ Ask(s) \/ EvaluateMachine(s) \/ EvaluateRule(s) \/ Conclude(s)
             \/ Apply(s) \/ RecordAllowed(s) \/ RecordRejected(s)
      PROVE  Settled'
  <2>1. UNCHANGED rows /\ state' = state /\ request' = request
    BY <1>4 DEF LoadNext, Load, Ask, EvaluateMachine, EvaluateRule, Conclude, Apply, Save,
       RecordAllowed, RecordRejected, AppendLine, control, uow, rows
  <2>2. Frame
    BY <2>1
  <2>3. QED
    BY <1>1, <2>2, NothingCommittedStaysSettled
<1>5. ASSUME NEW s \in Session, RunnerCommits(s) PROVE Settled'
  BY <1>1, <1>5, CommitSettles
<1>6. ASSUME NEW s \in Session, Raise(s) \/ Abandon(s) PROVE Settled'
  <2>1. RollBack(s) /\ End(s, "failed") /\ request' = request
    BY <1>6 DEF Raise, Abandon, RollBack, Finish
  <2>2. UNCHANGED rows /\ state[s] = "open" /\ state' = [state EXCEPT ![s] = "failed"]
    BY <2>1 DEF RollBack, AfterExit, End, rows
  <2>3. Frame
    BY <1>1, <2>1, <2>2 DEF Ended, TypeOK, UnitsTypeOK
  <2>4. QED
    BY <1>1, <2>3, NothingCommittedStaysSettled
<1>7. QED
  BY <1>1, <1>2, <1>3, <1>4, <1>5, <1>6 DEF Next, Runs

LEMMA RunnerInvariant == Spec => [](AllSound /\ Settled)
<1>1. Init => StoreInv /\ AllSound /\ Settled
  BY StoreInvInit, SoundInit, SettledInit DEF Init
<1>2. TypeOK /\ StoreInv /\ AllSound /\ Settled /\ [Next]_vars => (StoreInv /\ AllSound /\ Settled)'
  BY RunnerStepsAreUnitSteps, StoreInvNext, SoundNext, SettledNext DEF TypeOK
<1>3. QED
  BY <1>1, <1>2, RunnerTypes, PTL DEF Spec

(* Whatever interrupts a transition, its rows and its line are there       *)
(* together or not at all, and a refusal has written no row.               *)
THEOREM TransitionsAreWhole == Spec => []OutcomesAreWhole
BY RunnerInvariant, PTL DEF Settled

(* An ALLOWED line has every rule asked for behind it, and a REJECTED one  *)
(* names a requirement that is not met.                                    *)
THEOREM LedgerIsTrue == Spec => []LinesTellTheTruth
BY RunnerInvariant, PTL DEF Settled

(* A refusal by the rules names all that is not met and was asked for, and *)
(* besides only rules that could not be evaluated for want of another one  *)
(* it names.                                                               *)
THEOREM RefusalsAreComplete == Spec => []RefusalsNameEverything
BY RunnerInvariant, PTL DEF Settled

----------------------------------------------------------------------------
(* What is flushed comes before what is still to be flushed.               *)
FlushedInOrder(after, s) ==
  /\ \A r \in written[s] : \A i \in DOMAIN todo[s] :
       todo[s][i][1] # r => <<todo[s][i][1], r>> \in after
  /\ \A i, j \in DOMAIN todo[s] :
       i < j /\ todo[s][i][1] # todo[s][j][1] => <<todo[s][j][1], todo[s][i][1]>> \in after

LEMMA OrderInit == ASSUME NEW after, Init, NEW s \in Session PROVE FlushedInOrder(after, s)
BY DEF Init, UnitsInit, FlushedInOrder

LEMMA ApplyKeepsOrder ==
  ASSUME TypeOK, NEW after, NEW s \in Session, FlushedInOrder(after, s), Apply(s)
  PROVE  FlushedInOrder(after, s)'
<1> DEFINE l == todo[s]
           r == Head(l)[1]
<1>1. l # <<>> /\ todo'[s] = Tail(l) /\ written'[s] = written[s] \cup {r}
  BY DEF Apply, Save, TypeOK, UnitsTypeOK
<1>2. l \in Seq(Row \X Change)
  BY RequestsAreTyped
<1>3. /\ \A q \in written[s] : \A i \in DOMAIN l : l[i][1] # q => <<l[i][1], q>> \in after
      /\ \A i, j \in DOMAIN l : i < j /\ l[i][1] # l[j][1] => <<l[j][1], l[i][1]>> \in after
  BY DEF FlushedInOrder
<1> HIDE DEF l
<1>4. /\ DOMAIN l = 1..Len(l) /\ Len(l) \in Nat \ {0} /\ Head(l) = l[1]
      /\ Tail(l) \in Seq(Row \X Change) /\ DOMAIN Tail(l) = 1..(Len(l) - 1)
      /\ \A i \in 1..(Len(l) - 1) : Tail(l)[i] = l[i + 1]
  BY <1>1, <1>2
<1>5. \A i \in DOMAIN Tail(l) : i + 1 \in DOMAIN l /\ 1 \in DOMAIN l /\ 1 < i + 1
  BY <1>4
<1>6. \A q \in written'[s] : \A i \in DOMAIN Tail(l) :
        Tail(l)[i][1] # q => <<Tail(l)[i][1], q>> \in after
  <2>1. SUFFICES ASSUME NEW q \in written[s] \cup {r}, NEW i \in DOMAIN Tail(l), l[i + 1][1] # q
                 PROVE  <<l[i + 1][1], q>> \in after
    BY <1>1, <1>4
  <2>2. CASE q \in written[s]
    BY <1>3, <1>5, <2>1, <2>2
  <2>3. CASE q = r
    <3>1. q = l[1][1]
      BY <1>4, <2>3
    <3>2. QED
      BY <1>3, <1>5, <2>1, <3>1
  <2>4. QED
    BY <2>2, <2>3
<1>7. \A i, j \in DOMAIN Tail(l) :
        i < j /\ Tail(l)[i][1] # Tail(l)[j][1] => <<Tail(l)[j][1], Tail(l)[i][1]>> \in after
  <2>1. SUFFICES ASSUME NEW i \in DOMAIN Tail(l), NEW j \in DOMAIN Tail(l), i < j,
                        l[i + 1][1] # l[j + 1][1]
                 PROVE  <<l[j + 1][1], l[i + 1][1]>> \in after
    BY <1>4
  <2>2. i + 1 < j + 1
    BY <1>4, <2>1
  <2>3. QED
    BY <1>3, <1>5, <2>1, <2>2
<1>8. QED
  BY <1>1, <1>6, <1>7 DEF FlushedInOrder

LEMMA OrderNext ==
  ASSUME TypeOK, StoreInv, [Next]_vars, NEW after, SavesInOrder(after),
         \A s \in Session : FlushedInOrder(after, s)
  PROVE  \A s \in Session : FlushedInOrder(after, s)'
<1>1. SUFFICES ASSUME NEW t \in Session PROVE FlushedInOrder(after, t)'
  OBVIOUS
<1>2. CASE written'[t] = written[t] /\ todo'[t] = todo[t]
  BY <1>2 DEF FlushedInOrder
<1>3. CASE todo'[t] = <<>>
  BY <1>3 DEF FlushedInOrder
<1>4. ASSUME NEW s \in Session, Begin(s) PROVE FlushedInOrder(after, t)'
  <2>1. CASE t = s
    <3>1. PICK q \in Asked[s] : todo' = [todo EXCEPT ![s] = q.saves]
      BY <1>4 DEF Begin
    <3>2. todo'[s] = q.saves
      BY <3>1 DEF TypeOK
    <3>3. written'[s] = {}
      BY <1>4 DEF Begin, Open, StoreInv, ClosedHoldNothing
    <3>4. \A i, j \in DOMAIN q.saves :
            i < j /\ q.saves[i][1] # q.saves[j][1] => <<q.saves[j][1], q.saves[i][1]>> \in after
      BY DEF SavesInOrder
    <3>5. QED
      BY <2>1, <3>2, <3>3, <3>4 DEF FlushedInOrder
  <2>2. CASE t # s
    BY <1>2, <1>4, <2>2, OthersAreUntouched DEF Untouched
  <2>3. QED
    BY <2>1, <2>2
<1>5. ASSUME NEW s \in Session, Runs(s) \/ Abandon(s) PROVE FlushedInOrder(after, t)'
  <2>1. CASE t # s
    BY <1>2, <1>5, <2>1, OthersAreUntouched DEF Untouched
  <2>2. CASE t = s /\ Apply(s)
    BY <2>2, ApplyKeepsOrder
  <2>3. CASE t = s /\ (RunnerCommits(s) \/ Raise(s) \/ Abandon(s))
    <3>1. Finish(s)
      BY <2>3, LeavingEnds
    <3>2. QED
      BY <1>3, <2>3, <3>1 DEF Finish, TypeOK
  <2>4. CASE \/ LoadNext(s) \/ Ask(s) \/ EvaluateMachine(s) \/ EvaluateRule(s) \/ Conclude(s)
             \/ RecordAllowed(s) \/ RecordRejected(s)
    <3>1. written' = written /\ todo' = todo
      BY <2>4 DEF LoadNext, Load, Ask, EvaluateMachine, EvaluateRule, Conclude, RecordAllowed,
         RecordRejected, AppendLine, control, uow
    <3>2. QED
      BY <1>2, <3>1
  <2>5. QED
    BY <1>5, <2>1, <2>2, <2>3, <2>4 DEF Runs
<1>6. CASE UNCHANGED vars
  BY <1>2, <1>6 DEF vars, uow, control
<1>7. QED
  BY <1>4, <1>5, <1>6 DEF Next

Awaited == {Head(todo[s])[1] : s \in {x \in Session : Waits(x)}}

(* The one who waits for the last row that is waited for, waits for one    *)
(* who does not wait: what that one waited for would come later still.     *)
LEMMA NoCircleOfWaiting ==
  ASSUME TypeOK, StoreInv, NEW after, IsWellFoundedOn(after, Row),
         \A s \in Session : FlushedInOrder(after, s)
  PROVE  SomebodyGoesOn
<1>1. SUFFICES ASSUME NEW u \in Session, Waits(u)
               PROVE  \E t \in Session : state[t] = "open" /\ ~Waits(t)
  BY DEF SomebodyGoesOn
<1>2. Awaited \subseteq Row /\ Awaited # {}
  BY <1>1, NextSaveIsTyped DEF Awaited, Waits
<1>3. PICK r \in Awaited : \A q \in Awaited : <<q, r>> \notin after
  <2>1. \E x \in Awaited : \A y \in Awaited : ~ (<<y, x>> \in after)
    BY <1>2, WFMin
  <2>2. QED
    BY <2>1
<1>4. PICK s \in Session : Waits(s) /\ r = Head(todo[s])[1]
  BY <1>3 DEF Awaited
<1>5. PICK t \in Session \ {s} : r \in written[t]
  BY <1>4 DEF Waits, IsLocked
<1>6. state[t] = "open"
  BY <1>5 DEF StoreInv, ClosedHoldNothing
<1>7. ~Waits(t)
  <2>1. SUFFICES ASSUME Waits(t) PROVE FALSE
    OBVIOUS
  <2> DEFINE q == Head(todo[t])[1]
  <2>2. todo[t] # <<>> /\ IsLocked(t, q)
    BY <2>1 DEF Waits
  <2>3. q \in Awaited
    BY <2>1 DEF Awaited
  <2>4. q # r
    <3>1. PICK w \in Session \ {t} : q \in written[w]
      BY <2>2 DEF IsLocked
    <3>2. QED
      BY <1>5, <3>1 DEF StoreInv, LocksExclude
  <2>5. 1 \in DOMAIN todo[t] /\ q = todo[t][1][1]
    <3>1. todo[t] \in Seq(Row \X Change)
      BY RequestsAreTyped
    <3>2. Len(todo[t]) \in Nat \ {0} /\ DOMAIN todo[t] = 1..Len(todo[t])
      BY <2>2, <3>1
    <3>3. QED
      BY <3>1, <3>2
  <2>6. <<q, r>> \in after
    BY <1>5, <2>4, <2>5 DEF FlushedInOrder
  <2>7. QED
    BY <1>3, <2>3, <2>6
<1>8. QED
  BY <1>6, <1>7

(* However many Units of Work there are, they never all wait for each      *)
(* other, provided that they save rows in one order, as the Kernel does    *)
(* (the plan and then its Feature, core/kernel.py).                        *)
THEOREM SomebodyAlwaysGoesOn ==
  ASSUME NEW after, IsWellFoundedOn(after, Row), SavesInOrder(after)
  PROVE  Spec => []SomebodyGoesOn
<1> DEFINE InOrder == \A s \in Session : FlushedInOrder(after, s)
<1>1. Init => StoreInv /\ InOrder
  BY StoreInvInit, OrderInit DEF Init
<1>2. TypeOK /\ StoreInv /\ InOrder /\ [Next]_vars => StoreInv' /\ InOrder'
  BY RunnerStepsAreUnitSteps, StoreInvNext, OrderNext DEF TypeOK
<1>3. TypeOK /\ StoreInv /\ InOrder => SomebodyGoesOn
  BY NoCircleOfWaiting
<1> HIDE DEF InOrder
<1>4. QED
  BY <1>1, <1>2, <1>3, RunnerTypes, PTL DEF Spec

(* In particular when a Feature is saved after its plan (core/kernel.py,   *)
(* activate_plan) and no Unit of Work saves two rows in any other order.   *)
COROLLARY KernelSavesNeverDeadlock ==
  ASSUME NEW PlanRows, NEW FeatureRows, PlanRows \cap FeatureRows = {},
         SavesInOrder(FeatureRows \X PlanRows)
  PROVE  Spec => []SomebodyGoesOn
<1>1. IsWellFoundedOn(FeatureRows \X PlanRows, Row)
  <2>1. SUFFICES ASSUME NEW f \in [Nat -> Row],
                        \A n \in Nat : <<f[n + 1], f[n]>> \in FeatureRows \X PlanRows
                 PROVE  FALSE
    BY DEF IsWellFoundedOn
  <2>2. /\ <<f[0 + 1], f[0]>> \in FeatureRows \X PlanRows
        /\ <<f[1 + 1], f[1]>> \in FeatureRows \X PlanRows
    BY <2>1
  <2>3. f[1] \in FeatureRows /\ f[1] \in PlanRows
    BY <2>2
  <2>4. QED
    BY <2>3
<1>2. QED
  BY <1>1, SomebodyAlwaysGoesOn

----------------------------------------------------------------------------
(* Why each Unit of Work is done after finitely many steps of its own.     *)
LEMMA OthersKeepTheirPlace ==
  ASSUME TypeOK, NEW s \in Session, Begin(s) \/ Runs(s) \/ Abandon(s), NEW t \in Session \ {s}
  PROVE  UNCHANGED Mine(t)
<1>1. loaded'[t] = loaded[t]
  <2>1. CASE Begin(s) \/ Ask(s) \/ EvaluateMachine(s) \/ EvaluateRule(s) \/ Conclude(s)
             \/ RecordAllowed(s) \/ RecordRejected(s)
    BY <2>1 DEF Begin, Open, Ask, EvaluateMachine, EvaluateRule, Conclude, RecordAllowed,
       RecordRejected, AppendLine, uow
  <2>2. CASE LoadNext(s) \/ Apply(s)
    BY <2>2 DEF LoadNext, Load, Apply, Save, TypeOK, UnitsTypeOK
  <2>3. CASE RunnerCommits(s) \/ Raise(s) \/ Abandon(s)
    BY <2>3, LeavingEnds DEF End, TypeOK, UnitsTypeOK
  <2>4. QED
    BY <2>1, <2>2, <2>3 DEF Runs
<1>2. QED
  BY <1>1, OthersAreUntouched DEF Untouched, Mine

LEMMA LoadingLeavesLess ==
  ASSUME TypeOK, NEW s \in Session, LoadNext(s)
  PROVE  Less(s)
<1>1. PICK i \in DOMAIN todo[s] : Load(s, todo[s][i][1])
  BY DEF LoadNext
<1>2. step' = step /\ todo' = todo /\ step[s] = "loading"
  BY DEF LoadNext, control
<1> DEFINE r == todo[s][i][1]
<1>3. r \in Row
  BY RequestsAreTyped
<1>4. loaded[s][r].version = 0 /\ loaded'[s][r].version # 0
  <2>1. loaded'[s][r] = stored[r]
    BY <1>1, <1>3 DEF Load, TypeOK, UnitsTypeOK
  <2>2. stored[r].version # 0
    BY <1>3, RowsAreRecords DEF TypeOK, UnitsTypeOK
  <2>3. QED
    BY <1>1, <2>1, <2>2 DEF Load, IsLoaded
<1>5. \A q : q # r => loaded'[s][q] = loaded[s][q]
  BY <1>1, <1>3 DEF Load, TypeOK, UnitsTypeOK
<1> HIDE DEF r
<1>6. \A q : loaded'[s][q].version = 0 => loaded[s][q].version = 0
  BY <1>4, <1>5
<1>7. /\ Left(s) = {j \in DOMAIN todo[s] : loaded[s][todo[s][j][1]].version = 0}
      /\ Left(s)' = {j \in DOMAIN todo[s] : loaded'[s][todo[s][j][1]].version = 0}
  BY <1>2 DEF Left, IsLoaded
<1>8. i \in Left(s) /\ i \notin Left(s)'
  BY <1>4, <1>7 DEF r
<1>9. Ahead(s)' = Ahead(s)
  BY <1>2 DEF Ahead
<1>10. QED
  BY <1>6, <1>7, <1>8, <1>9 DEF Less

LEMMA EvaluatingLeavesLess ==
  ASSUME TypeOK, NEW s \in Session, EvaluateRule(s)
  PROVE  Less(s)
<1>1. PICK c \in IMPLEMENTED :
        /\ IsNext(c, Requested(request[s]), verdict[s])
        /\ verdict' = [verdict EXCEPT ![s][c] = StatusOf(c, request[s].holds, verdict[s])]
  BY DEF EvaluateRule
<1>2. step' = step /\ request' = request /\ step[s] = "judging"
  BY DEF EvaluateRule
<1>3. /\ c \in Selected(Requested(request[s])) /\ verdict[s][c] = "PENDING"
      /\ verdict'[s][c] # "PENDING"
      /\ \A d \in IMPLEMENTED : d # c => verdict'[s][d] = verdict[s][d]
  BY <1>1 DEF IsNext, StatusOf, TypeOK
<1>4. /\ Left(s) = {d \in Selected(Requested(request[s])) : verdict[s][d] = "PENDING"}
      /\ Left(s)' = {d \in Selected(Requested(request[s])) : verdict'[s][d] = "PENDING"}
  BY <1>2 DEF Left
<1>5. Selected(Requested(request[s])) \subseteq IMPLEMENTED
  BY DEF Selected
<1>6. c \in Left(s) /\ c \notin Left(s)' /\ Left(s)' \subseteq Left(s)
  BY <1>3, <1>4, <1>5
<1>7. Ahead(s)' = Ahead(s)
  BY <1>2 DEF Ahead
<1>8. QED
  BY <1>6, <1>7 DEF Less

LEMMA SavingLeavesLess ==
  ASSUME TypeOK, NEW s \in Session, Apply(s)
  PROVE  Less(s)
<1> DEFINE l == todo[s]
<1>1. step' = step /\ step[s] = "applying" /\ todo'[s] = Tail(l) /\ l # <<>>
  BY DEF Apply, TypeOK
<1>2. l \in Seq(Row \X Change)
  BY RequestsAreTyped
<1>3. Left(s) = DOMAIN l /\ Left(s)' = DOMAIN Tail(l) /\ Ahead(s)' = Ahead(s)
  BY <1>1 DEF Left, Ahead
<1> HIDE DEF l
<1>4. /\ Len(l) \in Nat \ {0} /\ DOMAIN l = 1..Len(l)
      /\ DOMAIN Tail(l) = 1..(Len(l) - 1)
  BY <1>1, <1>2
<1>5. Len(l) \in DOMAIN l /\ Len(l) \notin DOMAIN Tail(l) /\ DOMAIN Tail(l) \subseteq DOMAIN l
  BY <1>4
<1>6. QED
  BY <1>3, <1>5 DEF Less

LEMMA MovingOnLeavesLess ==
  ASSUME TypeOK, NEW s \in Session,
         \/ Ask(s) \/ EvaluateMachine(s) \/ Conclude(s) \/ RecordAllowed(s) \/ RecordRejected(s)
         \/ RunnerCommits(s) \/ Raise(s) \/ Abandon(s)
  PROVE  Less(s)
<1>1. CASE Ask(s) \/ EvaluateMachine(s) \/ Conclude(s) \/ RecordAllowed(s) \/ RecordRejected(s)
  <2>1. \/ step[s] = "loading" /\ step'[s] \in {"applying", "asking"}
        \/ step[s] = "asking" /\ step'[s] \in {"judging", "refusing"}
        \/ step[s] = "judging" /\ step'[s] \in {"applying", "refusing"}
        \/ step[s] \in {"applying", "refusing"} /\ step'[s] = "committing"
    BY <1>1 DEF Ask, EvaluateMachine, Conclude, AfterJudgement, RecordAllowed, RecordRejected,
       Goto, TypeOK
  <2>2. QED
    BY <2>1 DEF Less, Ahead
<1>2. CASE RunnerCommits(s) \/ Raise(s) \/ Abandon(s)
  <2>1. Finish(s) /\ \E how \in Ended : End(s, how)
    BY <1>2, LeavingEnds DEF Ended
  <2>2. step'[s] = "idle"
    BY <2>1 DEF Finish, Goto, TypeOK
  <2>3. step[s] # "idle"
    BY <1>2 DEF RunnerCommits, Raise, Abandon, RollBack, TypeOK
  <2>4. QED
    BY <2>2, <2>3 DEF Less, Ahead, TypeOK, Step
<1>3. QED
  BY <1>1, <1>2

LEMMA OwnStepsLeaveLess ==
  ASSUME TypeOK, [Next]_vars, NEW t \in Session, step[t] # "idle"
  PROVE  UNCHANGED Mine(t) \/ Less(t)
<1>1. CASE UNCHANGED vars
  BY <1>1 DEF vars, uow, control, Mine
<1>2. ASSUME NEW s \in Session, Begin(s) \/ Runs(s) \/ Abandon(s)
      PROVE  UNCHANGED Mine(t) \/ Less(t)
  <2>1. CASE t # s
    BY <1>2, <2>1, OthersKeepTheirPlace
  <2>2. CASE t = s
    <3>1. ~Begin(s)
      BY <2>2 DEF Begin
    <3>2. QED
      BY <1>2, <2>2, <3>1, LoadingLeavesLess, EvaluatingLeavesLess, SavingLeavesLess,
         MovingOnLeavesLess DEF Runs
  <2>3. QED
    BY <2>1, <2>2
<1>3. QED
  BY <1>1, <1>2 DEF Next

(* No Unit of Work asks, loads, evaluates or saves over and over           *)
(* (core/runner.py, rules/engine.py): what it has still to do gets less    *)
(* with each of its steps, and nobody else can give it more.               *)
THEOREM UnitsApproachTheirEnd == Spec => StepsLeaveLess
<1>1. TypeOK /\ [Next]_vars =>
        [\A s \in Session : step[s] # "idle" => UNCHANGED Mine(s) \/ Less(s)]_vars
  BY OwnStepsLeaveLess
<1>2. QED
  BY <1>1, RunnerTypes, PTL DEF Spec, StepsLeaveLess

(* The rows of a request are finitely many, and so are the rules.          *)
LEMMA WorkLeftIsFinite ==
  ASSUME TypeOK, NEW s \in Session
  PROVE  Ahead(s) \in 0..5 /\ IsFiniteSet(Left(s))
<1>1. ASSUME NEW n \in Nat PROVE IsFiniteSet(1..n)
  <2>1. 1 \in Int /\ n \in Int
    OBVIOUS
  <2>2. QED
    BY ONLY <2>1, FS_Interval
<1>2. IsFiniteSet(DOMAIN todo[s])
  <2>1. todo[s] \in Seq(Row \X Change)
    BY RequestsAreTyped
  <2>2. DOMAIN todo[s] = 1..Len(todo[s]) /\ Len(todo[s]) \in Nat
    BY <2>1
  <2>3. QED
    BY <1>1, <2>2
<1>3. IsFiniteSet(IMPLEMENTED)
  <2>1. DOMAIN RULES = 1..21
    BY DEF RULES
  <2>2. IsFiniteSet(1..21)
    BY <1>1
  <2> DEFINE name == [i \in 1..21 |-> RULES[i].condition]
  <2>3. name \in Surjection(1..21, IMPLEMENTED)
    BY <2>1 DEF IMPLEMENTED, Surjection
  <2>4. QED
    BY <2>2, <2>3, FS_Surjection
<1>4. /\ {i \in DOMAIN todo[s] : ~IsLoaded(s, todo[s][i][1])} \subseteq DOMAIN todo[s]
      /\ {c \in Selected(Requested(request[s])) : verdict[s][c] = "PENDING"} \subseteq IMPLEMENTED
  BY DEF Selected
<1>5. IsFiniteSet({})
  BY FS_EmptySet
<1>6. IsFiniteSet(Left(s))
  BY <1>2, <1>3, <1>4, <1>5, FS_Subset DEF Left
<1>7. QED
  BY <1>6 DEF Ahead

(* A later place, or fewer things to do at this one, counted.              *)
RunsOut(s) ==
  \/ Ahead(s)' < Ahead(s) /\ Ahead(s)' \in Nat
  \/ /\ Ahead(s)' = Ahead(s)
     /\ Cardinality(Left(s))' < Cardinality(Left(s)) /\ Cardinality(Left(s))' \in Nat

(* Five places and finitely many things to do at each: no Unit of Work can *)
(* go on for ever, whatever it requests (core/runner.py, rules/engine.py). *)
THEOREM UnitsRunOutOfWork ==
  Spec => [][\A s \in Session : step[s] # "idle" => UNCHANGED Mine(s) \/ RunsOut(s)]_vars
<1>1. ASSUME TypeOK, TypeOK', NEW s \in Session, Less(s) PROVE RunsOut(s)
  <2>1. Ahead(s)' \in Nat
    <3>1. Ahead(s)' \in 0..5
      BY <1>1 DEF Ahead
    <3>2. QED
      BY <3>1
  <2>2. CASE Ahead(s)' < Ahead(s)
    BY <2>1, <2>2 DEF RunsOut
  <2>3. CASE Ahead(s)' = Ahead(s) /\ Left(s)' \subseteq Left(s) /\ Left(s)' # Left(s)
    <3>1. IsFiniteSet(Left(s))
      BY <1>1, WorkLeftIsFinite
    <3> DEFINE now == Left(s)  then == Left(s)'
    <3> HIDE DEF now, then
    <3>2. IsFiniteSet(now) /\ then \in SUBSET now /\ then # now
      BY <2>3, <3>1 DEF now, then
    <3>3. /\ IsFiniteSet(then) /\ Cardinality(then) <= Cardinality(now)
          /\ Cardinality(then) # Cardinality(now)
      BY ONLY <3>2, FS_Subset
    <3>4. Cardinality(then) \in Nat /\ Cardinality(now) \in Nat
      BY <3>2, <3>3, FS_CardinalityType
    <3>5. Cardinality(then) < Cardinality(now)
      BY <3>3, <3>4
    <3>6. Cardinality(Left(s))' = Cardinality(then) /\ Cardinality(Left(s)) = Cardinality(now)
      BY DEF now, then
    <3>7. QED
      BY <2>3, <3>4, <3>5, <3>6 DEF RunsOut
  <2>4. QED
    BY <1>1, <2>2, <2>3 DEF Less
<1>2. TypeOK /\ TypeOK' /\ [Next]_vars =>
        [\A s \in Session : step[s] # "idle" => UNCHANGED Mine(s) \/ RunsOut(s)]_vars
  <2> SUFFICES ASSUME TypeOK, TypeOK', [Next]_vars, NEW s \in Session, step[s] # "idle"
               PROVE  UNCHANGED Mine(s) \/ RunsOut(s)
    OBVIOUS
  <2>1. UNCHANGED Mine(s) \/ Less(s)
    BY OwnStepsLeaveLess
  <2>2. QED
    BY <1>1, <2>1
<1>3. QED
  BY <1>2, RunnerTypes, PTL DEF Spec
=============================================================================
