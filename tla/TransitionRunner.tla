--------------------------- MODULE TransitionRunner ---------------------------
(***************************************************************************)
(* The path every status change takes (core/runner.py): the state machine, *)
(* then the Rule Engine rule by rule, and only then either the REJECTED    *)
(* line alone or the caller's mutation with the ALLOWED line, committed by *)
(* the runner; run by concurrent Units of Work.  Beside it, callers that   *)
(* save rows through the repositories and commit themselves.               *)
(*                                                                         *)
(* A request is what the Kernel hands over: the edge asked for, on whose   *)
(* behalf, with which optional facts, what is true of the facts, and what  *)
(* apply() will save in which order, or that it cannot build the entity.   *)
(***************************************************************************)
EXTENDS UnitOfWork, RuleEngine

CONSTANT Asked   \* [Session -> a set of requests]: what each may be about

(* graph is "none" for a caller that asks the runner nothing.              *)
Request == [graph : {"Feature", "Task", "none"}, from : STRING, to : STRING, by : Initiator,
            supplied : SUBSET {"candidate_worker", "requesting_actor"},
            holds : SUBSET IMPLEMENTED, saves : Seq(Row \X Change), sound : BOOLEAN]

ASSUME TransitionRunnerAssumption ==
  /\ \A s \in Session : Asked[s] \subseteq Request
  /\ IMPLEMENTED \cup {"state_machine"} \subseteq Reason

VARIABLES
  request,   \* the request of each Unit of Work
  step,      \* where it is
  verdict,   \* what the rules have returned
  todo       \* what apply() has still to save

control == <<request, step, verdict, todo>>
vars    == <<rows, uow, control>>

Step == {"idle", "loading", "asking", "judging", "applying", "refusing", "committing"}

NoRequest == [graph |-> "unasked", from |-> "", to |-> "", by |-> OS, supplied |-> {},
              holds |-> {}, saves |-> <<>>, sound |-> TRUE]

IsPlain(q) == q.graph = "none"

Edges(q) == IF q.graph = "Feature" THEN FeatureEdges ELSE TaskEdges

IsLegal(q) == MachineAllows(Edges(q), q.from, q.to, q.by)

Requested(q) == Definition(Edges(q), q.from, q.to).needs

Line(s, outcome, reasons) == [session |-> s, outcome |-> outcome, reasons |-> reasons]

(* The OS has no row among the actors, and everybody else must have one.   *)
IsRecordable(q) == q.by = OS \/ "requesting_actor" \in q.supplied

Init ==
  /\ UnitsInit
  /\ request = [s \in Session |-> NoRequest]
  /\ step = [s \in Session |-> "idle"]
  /\ verdict = [s \in Session |-> Unjudged]
  /\ todo = [s \in Session |-> <<>>]

Goto(s, place) == step' = [step EXCEPT ![s] = place]

----------------------------------------------------------------------------
Begin(s) ==
  /\ step[s] = "idle"
  /\ \E q \in Asked[s] :
       /\ request' = [request EXCEPT ![s] = q]
       /\ todo' = [todo EXCEPT ![s] = q.saves]
  /\ Goto(s, "loading")
  /\ Open(s)
  /\ UNCHANGED verdict

(* The rows to be saved are read first, in the order they will be saved.   *)
LoadNext(s) ==
  /\ step[s] = "loading"
  /\ \E i \in DOMAIN todo[s] :
       /\ \A j \in 1..(i - 1) : IsLoaded(s, todo[s][j][1])
       /\ Load(s, todo[s][i][1])
  /\ UNCHANGED control

(* With the facts at hand the runner is asked; a plain caller just saves.  *)
Ask(s) ==
  /\ step[s] = "loading"
  /\ \A i \in DOMAIN todo[s] : IsLoaded(s, todo[s][i][1])
  /\ Goto(s, IF IsPlain(request[s]) THEN "applying" ELSE "asking")
  /\ UNCHANGED <<rows, uow, request, verdict, todo>>

(* The machine refuses, or the engine is asked: it begins by looking for   *)
(* the facts its rules need, and raises if one was not supplied.           *)
EvaluateMachine(s) ==
  LET q == request[s] IN
  /\ step[s] = "asking"
  /\ IsLegal(q) => MissingFacts(Requested(q), q.supplied) = {}
  /\ Goto(s, IF IsLegal(q) THEN "judging" ELSE "refusing")
  /\ UNCHANGED <<rows, uow, request, verdict, todo>>

EvaluateRule(s) ==
  LET q == request[s] IN
  /\ step[s] = "judging"
  /\ \E c \in IMPLEMENTED :
       /\ IsNext(c, Requested(q), verdict[s])
       /\ Blocking(c, verdict[s]) = {} => ~Raises(c, q.holds)
       /\ verdict' = [verdict EXCEPT ![s][c] = StatusOf(c, q.holds, verdict[s])]
  /\ UNCHANGED <<rows, uow, request, step, todo>>

AppliesAnyway(s) == "applying"              \* wrong: the verdict is not looked at
AsksAgain(s) == IF IsSatisfied(verdict[s]) THEN "applying" ELSE "loading"   \* wrong: a retry
AfterJudgement(s) == IF IsSatisfied(verdict[s]) THEN "applying" ELSE "refusing"

Conclude(s) ==
  /\ step[s] = "judging"
  /\ Evaluated(Requested(request[s]), verdict[s])
  /\ Goto(s, AfterJudgement(s))
  /\ UNCHANGED <<rows, uow, request, verdict, todo>>

(* apply(): an entity its validators refuse is never built, and one that   *)
(* is built is saved through its repository.                               *)
Apply(s) ==
  /\ step[s] = "applying" /\ todo[s] # <<>>
  /\ request[s].sound
  /\ Save(s, Head(todo[s])[1], Head(todo[s])[2])
  /\ todo' = [todo EXCEPT ![s] = Tail(@)]
  /\ UNCHANGED <<request, step, verdict>>

(* ... and then the ALLOWED line, which a plain caller has none of.        *)
RecordAllowed(s) ==
  LET q == request[s] IN
  /\ step[s] = "applying" /\ todo[s] = <<>>
  /\ \/ IsPlain(q) /\ UNCHANGED <<rows, uow>>
     \/ ~IsPlain(q) /\ IsRecordable(q) /\ AppendLine(s, Line(s, "ALLOWED", {}))
  /\ Goto(s, "committing")
  /\ UNCHANGED <<request, verdict, todo>>

(* A refusal touches nothing and names what it was refused for: what the   *)
(* machine said, or the rules that did not pass.                           *)
Reasons(s) == IF IsLegal(request[s]) THEN RuleReasons(verdict[s]) ELSE {"state_machine"}

RecordRejected(s) ==
  /\ step[s] = "refusing"
  /\ IsRecordable(request[s])
  /\ AppendLine(s, Line(s, "REJECTED", Reasons(s)))
  /\ Goto(s, "committing")
  /\ UNCHANGED <<request, verdict, todo>>

FinishInPlace(s) == UNCHANGED control       \* wrong: nothing left behind is cleared

Finish(s) ==
  /\ Goto(s, "idle")
  /\ verdict' = [verdict EXCEPT ![s] = Unjudged]
  /\ todo' = [todo EXCEPT ![s] = <<>>]
  /\ UNCHANGED request

RunnerCommits(s) == step[s] = "committing" /\ Commit(s) /\ Finish(s)

----------------------------------------------------------------------------
(* The ways the code itself raises, each of which leaves the session: a    *)
(* fact is missing, a rule has no answer, the entity cannot be built or    *)
(* saved, or the line cannot name who asked.                               *)
FactsAreMissing(s) ==
  /\ step[s] = "asking" /\ IsLegal(request[s])
  /\ MissingFacts(Requested(request[s]), request[s].supplied) # {}

RuleRaises(s) ==
  /\ step[s] = "judging"
  /\ \E c \in IMPLEMENTED : /\ IsNext(c, Requested(request[s]), verdict[s])
                            /\ Blocking(c, verdict[s]) = {} /\ Raises(c, request[s].holds)

ApplyRaises(s) ==
  /\ step[s] = "applying" /\ todo[s] # <<>>
  /\ ~request[s].sound \/ SaveRaises(s, Head(todo[s])[1], Head(todo[s])[2])

LineRaises(s) ==
  /\ ~IsPlain(request[s]) /\ ~IsRecordable(request[s])
  /\ step[s] = "refusing" \/ (step[s] = "applying" /\ todo[s] = <<>>)

Raise(s) ==
  /\ FactsAreMissing(s) \/ RuleRaises(s) \/ ApplyRaises(s) \/ LineRaises(s)
  /\ RollBack(s) /\ Finish(s)

(* Cancelled, out of connection or crashed, at any moment.                 *)
Abandon(s) ==
  /\ step[s] # "idle"
  /\ RollBack(s) /\ Finish(s)

Runs(s) ==
  \/ LoadNext(s) \/ Ask(s)
  \/ EvaluateMachine(s) \/ EvaluateRule(s) \/ Conclude(s)
  \/ Apply(s) \/ RecordAllowed(s) \/ RecordRejected(s)
  \/ RunnerCommits(s) \/ Raise(s)

Next == \E s \in Session : Begin(s) \/ Runs(s) \/ Abandon(s)

Spec == Init /\ [][Next]_vars

(* A Unit of Work that can go on does: the event loop runs it, and the     *)
(* database wakes one whose row is unlocked.                               *)
FairSpec == Spec /\ \A s \in Session : WF_vars(Runs(s))

----------------------------------------------------------------------------
TypeOK ==
  /\ UnitsTypeOK
  /\ request \in [Session -> Request \cup {NoRequest}]
  /\ step \in [Session -> Step]
  /\ verdict \in [Session -> [IMPLEMENTED -> RuleStatus]]
  /\ todo \in [Session -> Seq(Row \X Change)]
  /\ \A s \in Session : step[s] # "idle" <=> state[s] = "open"

(* The core invariant of the runner, whatever interrupts it: a REJECTED    *)
(* line stands alone, an ALLOWED line stands with every row its mutation   *)
(* saves, a row is written by nobody the ledger does not name but a plain  *)
(* caller, with all of its rows, and who was told that it is committed has *)
(* its line.                                                               *)
Writes(s)   == {r \in Row : s \in stored[r].by}
Saves(q)    == {q.saves[i][1] : i \in DOMAIN q.saves}
Outcomes(s) == {line.outcome : line \in {x \in ledger : x.session = s}}

OutcomesAreWhole ==
  \A s \in Session :
    LET q == request[s] IN
    /\ \/ Outcomes(s) = {"REJECTED"} /\ Writes(s) = {}
       \/ Outcomes(s) = {"ALLOWED"} /\ Writes(s) = Saves(q)
       \/ Outcomes(s) = {} /\ (Writes(s) = {} \/ (IsPlain(q) /\ Writes(s) = Saves(q)))
    /\ state[s] = "committed" =>
         IF IsPlain(q) THEN Writes(s) = Saves(q) ELSE Outcomes(s) # {}

(* The ledger tells the truth of the verdict: an ALLOWED transition is one *)
(* the machine permits and every rule asked for holds, and a REJECTED one  *)
(* names a requirement that is not met; no skipped rule, and no            *)
(* prerequisite that was not asked for, turns one into the other.          *)
Unmet(q) == Selected(Requested(q)) \ q.holds

LinesTellTheTruth ==
  \A line \in ledger :
    LET q == request[line.session] IN
    /\ line.outcome = "ALLOWED" => IsLegal(q) /\ Unmet(q) = {}
    /\ line.outcome = "REJECTED" =>
         IF IsLegal(q) THEN line.reasons \cap Unmet(q) # {}
         ELSE line.reasons = {"state_machine"}

(* A refusal is one explicit list: whatever is not met is named at once,   *)
(* and not the next time one asks.  What is named was asked for, and if it *)
(* is met none the less, it is for another reason on the list that nobody  *)
(* could tell.                                                             *)
RefusalsNameEverything ==
  \A line \in ledger :
    LET q == request[line.session] IN
    line.outcome = "REJECTED" /\ IsLegal(q) =>
      /\ Unmet(q) \subseteq line.reasons /\ line.reasons \subseteq Selected(Requested(q))
      /\ \A c \in line.reasons \ Unmet(q) : RuleFor(c).requires \cap line.reasons # {}

(* A save waits while another Unit of Work has the row locked.             *)
Waits(s) ==
  /\ step[s] = "applying" /\ todo[s] # <<>> /\ request[s].sound
  /\ ~Rewrites(s, Head(todo[s])[1], Head(todo[s])[2])
  /\ IsLocked(s, Head(todo[s])[1])

(* Units of Work never end up all waiting for each other's rows, nor for a *)
(* row whose Unit of Work is gone: whoever waits, some other one is at     *)
(* work.                                                                   *)
SomebodyGoesOn == (\E s \in Session : Waits(s)) => \E t \in Session : state[t] = "open" /\ ~Waits(t)

(* ... because rows are saved in an order, the plan before its Feature     *)
(* wherever both are.  `after' says which row comes after which.           *)
SavesInOrder(after) ==
  \A s \in Session : \A q \in Asked[s] : \A i, j \in DOMAIN q.saves :
    i < j /\ q.saves[i][1] # q.saves[j][1] => <<q.saves[j][1], q.saves[i][1]>> \in after

(* What a Unit of Work still has to do before it is at its next place.     *)
Ahead(s) ==
  LET place == step[s] IN
  IF place = "loading" THEN 5 ELSE IF place = "asking" THEN 4 ELSE IF place = "judging" THEN 3
  ELSE IF place \in {"applying", "refusing"} THEN 2 ELSE IF place = "committing" THEN 1 ELSE 0

Left(s) ==
  IF step[s] = "loading" THEN {i \in DOMAIN todo[s] : ~IsLoaded(s, todo[s][i][1])}
  ELSE IF step[s] = "judging" THEN {c \in Selected(Requested(request[s])) : verdict[s][c] = "PENDING"}
  ELSE IF step[s] = "applying" THEN DOMAIN todo[s]
  ELSE {}

Mine(s) == <<step[s], todo[s], verdict[s], loaded[s]>>

Less(s) ==
  \/ Ahead(s)' < Ahead(s)
  \/ Ahead(s)' = Ahead(s) /\ Left(s)' \subseteq Left(s) /\ Left(s)' # Left(s)

(* No Unit of Work asks, loads, evaluates or saves over and over: each of  *)
(* its steps leaves less to do, and nobody else can give it more.          *)
StepsLeaveLess ==
  [][\A s \in Session : step[s] # "idle" => UNCHANGED Mine(s) \/ Less(s)]_vars

(* However Units of Work wait for each other's rows, each one ends: no     *)
(* lock outlives its session, and what the Kernel saves it saves in an     *)
(* order that closes no circle of waiting.                                 *)
EveryUnitEnds == \A s \in Session : state[s] = "open" ~> state[s] \in {"committed", "failed"}
=============================================================================
