------------------------------ MODULE Planning ------------------------------
(***************************************************************************)
(* The run command up to its stages, in several processes at a time: the   *)
(* team's memory is seeded, the run's row inserted, the requirement        *)
(* classified and, if it is ambiguous, clarified with the user; then the   *)
(* threads of the run's stages make their calls.  Every question to the    *)
(* model goes through Gateway.                                             *)
(***************************************************************************)
EXTENDS Gateway, Sequences, FiniteSetsExt

CONSTANTS
    Main,            \* the thread of a run's process that plans
    Seeds,           \* the entries of seeds.yaml, in order
    Labels,          \* what the model may call a scenario
    MaxQuestions,    \* MAX_QUESTIONS
    MaxStageCalls,   \* bound: the calls of one stage thread
    DiesSeeding      \* the runs whose process may die while it seeds

ASSUME PlanningAssumption ==
    /\ Main \in [Runs -> Threads]
    /\ \A r \in Runs : RunOf[Main[r]] = r
    /\ MaxQuestions \in Nat /\ MaxStageCalls \in Nat
    /\ Len(Seeds) \in Nat \ {0}
    /\ DiesSeeding \subseteq Runs

VARIABLES
    place,       \* where a run command is
    copies,      \* how often orch_memory has a seed
    seeded,      \* the seeds a process has inserted
    scenario,    \* scenario_type of a run's row
    class,       \* what the classifier has said
    questions,   \* the questions that the user has still to answer
    calls,       \* the calls a stage thread has made
    alone        \* no process has begun to seed while another was seeding

planVars == <<place, copies, seeded, scenario, class, questions, calls, alone>>
vars == <<gatewayVars, planVars>>

Init ==
    /\ GatewayInit
    /\ place = [r \in Runs |-> "new"]
    /\ copies = [s \in 1 .. Len(Seeds) |-> 0]
    /\ seeded = [r \in Runs |-> 0]
    /\ scenario = [r \in Runs |-> "none"]
    /\ class = [r \in Runs |-> "none"]
    /\ questions = [r \in Runs |-> 0]
    /\ calls = [t \in Threads |-> 0]
    /\ alone = TRUE

\* The run command of r goes from one place to another.
Moves(r, from, to) == place[r] = from /\ place' = [place EXCEPT ![r] = to]

-----------------------------------------------------------------------------
(* seed_if_empty                                                           *)

\* Seeding without looking.
FlawedMemoryIsEmpty == TRUE

MemoryIsEmpty == \A s \in DOMAIN copies : copies[s] = 0

CountMemory(r) ==
    /\ Moves(r, "new", IF MemoryIsEmpty THEN "seeding" ELSE "ready")
    /\ alone' = (alone /\ (MemoryIsEmpty => \A other \in Runs : place[other] # "seeding"))
    /\ UNCHANGED <<gatewayVars, copies, seeded, scenario, class, questions, calls>>

\* A row is committed by itself.
Save(s) == copies' = [copies EXCEPT ![s] = @ + 1]

SaveSeed(r) ==
    /\ place[r] = "seeding"
    /\ seeded' = [seeded EXCEPT ![r] = @ + 1]
    /\ Save(seeded'[r])
    /\ place' = IF seeded'[r] = Len(Seeds) THEN [place EXCEPT ![r] = "ready"] ELSE place
    /\ UNCHANGED <<gatewayVars, scenario, class, questions, calls, alone>>

DieSeeding(r) ==
    /\ r \in DiesSeeding
    /\ Moves(r, "seeding", "died")
    /\ UNCHANGED <<gatewayVars, copies, seeded, scenario, class, questions, calls, alone>>

-----------------------------------------------------------------------------
(* Planner.plan                                                            *)

\* The requirement is too short or too long.
Refuse(r) ==
    /\ Moves(r, "ready", "ended")
    /\ UNCHANGED <<gatewayVars, copies, seeded, scenario, class, questions, calls, alone>>

\* The row is inserted with the scenario, when that is known.
FlawedCreateRun(r) ==
    /\ Moves(r, "ready", "classify")
    /\ UNCHANGED <<gatewayVars, scenario>>

CreateRun(r) ==
    /\ Moves(r, "ready", "classify")
    /\ AddRow(r)
    /\ scenario' = [scenario EXCEPT ![r] = "pending"]

Create(r) ==
    /\ CreateRun(r)
    /\ UNCHANGED <<copies, seeded, class, questions, calls, alone>>

AskScenario(r) == Moves(r, "classify", "classifying")
AskQuestions(r) == Moves(r, "question", "questioning")
AskResolution(r) == Moves(r, "resolve", "resolving")

\* The process asks the model and waits.
Ask(r) ==
    /\ AskScenario(r) \/ AskQuestions(r) \/ AskResolution(r)
    /\ Enter(Main[r])
    /\ UNCHANGED <<copies, seeded, scenario, class, questions, calls, alone>>

\* The answer the process has waited for is there.
Answered(r) == step[Main[r]] = "idle" /\ outcome[Main[r]] = "answered"

Scenarios == {"greenfield", "brownfield", "ambiguous"}

\* A scenario nobody knows counts as ambiguous.
Parsed(label) == IF label \in Scenarios THEN label ELSE "ambiguous"

\* An ambiguous requirement is clarified.
AfterClass(s) == IF s = "ambiguous" THEN "question" ELSE "update"

Classified(r) ==
    /\ Answered(r)
    /\ \E label \in Labels :
          /\ Moves(r, "classifying", AfterClass(Parsed(label)))
          /\ class' = [class EXCEPT ![r] = Parsed(label)]
    /\ UNCHANGED <<gatewayVars, copies, seeded, scenario, questions, calls, alone>>

Questioned(r) ==
    /\ Answered(r)
    /\ Moves(r, "questioning", "listening")
    /\ \E n \in 0 .. MaxQuestions : questions' = [questions EXCEPT ![r] = n]
    /\ UNCHANGED <<gatewayVars, copies, seeded, scenario, class, calls, alone>>

UserAnswers(r) ==
    /\ place[r] = "listening"
    /\ questions[r] > 0
    /\ questions' = [questions EXCEPT ![r] = @ - 1]
    /\ UNCHANGED <<gatewayVars, place, copies, seeded, scenario, class, calls, alone>>

AllAnswered(r) ==
    /\ questions[r] = 0
    /\ Moves(r, "listening", "resolve")
    /\ UNCHANGED <<gatewayVars, copies, seeded, scenario, class, questions, calls, alone>>

Resolved(r) ==
    /\ Answered(r)
    /\ Moves(r, "resolving", "update")
    /\ UNCHANGED <<gatewayVars, copies, seeded, scenario, class, questions, calls, alone>>

\* The call raised, or its answer is no JSON: the command ends, its row stays.
PlanFails(r) ==
    /\ step[Main[r]] = "idle"
    /\ \E waiting \in {"classifying", "questioning", "resolving"} : Moves(r, waiting, "ended")
    /\ UNCHANGED <<gatewayVars, copies, seeded, scenario, class, questions, calls, alone>>

UpdateScenario(r) ==
    /\ Moves(r, "update", "stages")
    /\ scenario' = [scenario EXCEPT ![r] = class[r]]
    /\ UNCHANGED <<gatewayVars, copies, seeded, class, questions, calls, alone>>

-----------------------------------------------------------------------------
(* The stages, as far as the gateway sees them                             *)

StageCalls(t) ==
    /\ place[RunOf[t]] = "stages"
    /\ calls[t] < MaxStageCalls
    /\ calls' = [calls EXCEPT ![t] = @ + 1]
    /\ Enter(t)
    /\ UNCHANGED <<place, copies, seeded, scenario, class, questions, alone>>

\* Every stage has its artifact or its error.
StagesEnd(r) ==
    /\ \A t \in Threads : RunOf[t] = r => step[t] = "idle"
    /\ Moves(r, "stages", "ended")
    /\ UNCHANGED <<gatewayVars, copies, seeded, scenario, class, questions, calls, alone>>

CommandStep(r) ==
    \/ CountMemory(r) \/ SaveSeed(r) \/ Refuse(r) \/ Create(r) \/ Ask(r)
    \/ Classified(r) \/ Questioned(r) \/ AllAnswered(r) \/ Resolved(r)
    \/ PlanFails(r) \/ UpdateScenario(r) \/ StagesEnd(r)

RunStep(r) == CommandStep(r) \/ UserAnswers(r)

ThreadStep(t) == CallStep(t) /\ UNCHANGED planVars

Next ==
    \/ \E r \in Runs : RunStep(r) \/ DieSeeding(r)
    \/ \E t \in Threads : StageCalls(t) \/ ThreadStep(t)
    \/ Midnight /\ UNCHANGED planVars

Spec == Init /\ [][Next]_vars

\* Processes and threads go on, and the API answers or times out.  The user need
\* not answer what is asked of him.
Fairness ==
    /\ \A r \in Runs : WF_vars(CommandStep(r))
    /\ \A t \in Threads : WF_vars(ThreadStep(t))

FairSpec == Spec /\ Fairness

-----------------------------------------------------------------------------
(* Properties                                                              *)

Places == {"new", "seeding", "ready", "classify", "classifying", "question", "questioning",
           "listening", "resolve", "resolving", "update", "stages", "ended", "died"}

\* Types of every variable and the consistency of what calls share.
TypeOK ==
    /\ GatewayTypeOK
    /\ place \in [Runs -> Places]
    /\ copies \in [1 .. Len(Seeds) -> Nat]
    /\ seeded \in [Runs -> 0 .. Len(Seeds)]
    /\ scenario \in [Runs -> Scenarios \cup {"none", "pending"}]
    /\ class \in [Runs -> Scenarios \cup {"none"}]
    /\ questions \in [Runs -> 0 .. MaxQuestions]
    /\ calls \in [Threads -> 0 .. MaxStageCalls]
    /\ alone \in BOOLEAN

\* When an answer comes back its run has a row, so that the row of its cost can
\* be inserted: planning inserts the placeholder "BEFORE classify" (Planner.plan,
\* CostTracker.record).
PaidCallsHaveRun ==
    \A t \in Threads : step[t] \in {"checking", "recording"} => RunOf[t] \in rows

\* Every token a user's calls have cost is in a row once, in the hand of a call
\* that has still to record it, or lost with an answer that was blocked or could
\* not be recorded (AIGateway.call): retries and concurrent calls count nothing
\* twice and drop nothing else.
SpendAccounted ==
    \A u \in Users :
        paid[u] = recorded[u] + blocked[u]
                    + MapThenSumSet(LAMBDA t : usage[t], ThreadsOf(u))

\* A process has inserted some of the seeds, and is at it still or died of it.
HalfSeeded(r) == place[r] \in {"seeding", "died"} /\ 0 < seeded[r] /\ seeded[r] < Len(Seeds)

\* No run is planned with an empty memory, and none with some of the seeds missing
\* unless a process has not finished inserting them; no seed is there twice unless
\* processes have begun to seed at the same time (MemoryStore.seed_if_empty).
SeededOnce ==
    /\ \A r \in Runs : place[r] \notin {"new", "seeding", "died"} =>
          /\ ~MemoryIsEmpty
          /\ \A s \in DOMAIN copies : copies[s] = 0 => \E other \in Runs : HalfSeeded(other)
    /\ alone => \A s \in DOMAIN copies : copies[s] <= 1

\* Every run command gets to the end of its calls, unless its user leaves a question
\* without an answer, whatever the model answers and however often the API refuses
\* (AIGateway.call's retries, MAX_QUESTIONS).
EveryPlanEnds ==
    <>[](\A r \in Runs : place[r] \in {"ended", "died"} \/ (place[r] = "listening" /\ questions[r] > 0))

=============================================================================
