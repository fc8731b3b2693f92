--------------------------- MODULE PlanningProofs ---------------------------
(***************************************************************************)
(* What holds for any number of run commands: their calls are calls of     *)
(* Gateway, so its theorems are theirs; a call is paid for only when its   *)
(* run has a row; no seed is inserted twice unless two begin to seed at    *)
(* once, and only an unfinished seeding leaves one out; and every token    *)
(* that is paid for is accounted for.                                      *)
(*                                                                         *)
(* The last is about a sum, which MapThenSumSet takes with a recursive     *)
(* function.  What it computes needs induction over finite sets: here, a   *)
(* smallest counterexample, which WFMin of WellFoundedInduction gives for  *)
(* a set instead of a predicate.                                           *)
(***************************************************************************)
EXTENDS Planning, GatewayProofs, WellFoundedInduction

-----------------------------------------------------------------------------
(* Planning is a user of Gateway                                           *)

LEMMA RunStepCalls ==
    ASSUME NEW r \in Runs, RunStep(r)
    PROVE  GatewayNext \/ UNCHANGED gatewayVars
<1>1. Main[r] \in Threads
    BY PlanningAssumption
<1>2. CASE Ask(r)
    BY <1>1, <1>2 DEF Ask, GatewayNext
<1>3. CASE Create(r)
    BY <1>3 DEF Create, CreateRun, GatewayNext
<1> QED
    BY <1>2, <1>3
       DEF RunStep, CommandStep, CountMemory, SaveSeed, Refuse, Classified, Questioned, UserAnswers,
           AllAnswered, Resolved, PlanFails, UpdateScenario, StagesEnd

LEMMA StepCalls == [Next]_vars => [GatewayNext]_gatewayVars
<1> SUFFICES ASSUME [Next]_vars PROVE GatewayNext \/ UNCHANGED gatewayVars
    OBVIOUS
<1>1. ASSUME NEW r \in Runs, DieSeeding(r) PROVE UNCHANGED gatewayVars
    BY <1>1 DEF DieSeeding
<1>2. ASSUME NEW t \in Threads, StageCalls(t) \/ ThreadStep(t) PROVE GatewayNext
    BY <1>2 DEF StageCalls, ThreadStep, GatewayNext
<1>3. CASE Midnight
    BY <1>3 DEF GatewayNext
<1>4. CASE UNCHANGED vars
    BY <1>4 DEF vars
<1> QED
    BY <1>1, <1>2, <1>3, <1>4, RunStepCalls DEF Next

\* Run commands, whatever they do with the answers, only use the gateway the way
\* AIGateway.call lets its callers: the run command implements Gateway's
\* specification.
THEOREM PlanningUsesGateway == Spec => GatewaySpec
<1>1. Init => GatewayInit
    BY DEF Init
<1>2. [Next]_vars => [GatewayNext]_gatewayVars
    BY StepCalls
<1> QED
    BY <1>1, <1>2, PTL DEF Spec, GatewaySpec

\* The bound on the overrun of the budget holds of run commands, planning and
\* running stages in any number of processes.
THEOREM PlanningOverrunBounded == Spec => []OverrunIsBounded
BY PlanningUsesGateway, OverrunBounded, PTL

-----------------------------------------------------------------------------
(* A paid call has its run's row                                           *)

\* Past the insert of its row a run has one, and only such a run makes calls.
CallersHaveRow ==
    /\ \A r \in Runs : place[r] \notin {"new", "seeding", "ready", "ended", "died"} => r \in rows
    /\ \A t \in Threads : step[t] # "idle" => RunOf[t] \in rows

LEMMA CallersHaveRowStep ==
    ASSUME GatewayTypeOK, place \in [Runs -> Places], CallersHaveRow, [Next]_vars
    PROVE  CallersHaveRow'
<1> USE DEF CallersHaveRow
<1> DEFINE Unplaced == {"new", "seeding", "ready", "ended", "died"}
<1>1. ASSUME NEW r \in Runs, Ask(r) PROVE CallersHaveRow'
    <2>1. Main[r] \in Threads /\ RunOf[Main[r]] = r
        BY PlanningAssumption
    <2>2. r \in rows /\ UNCHANGED rows
        BY <1>1 DEF Ask, AskScenario, AskQuestions, AskResolution, Moves, Enter
    <2>3. \A s \in Runs : place'[s] \notin Unplaced => s = r \/ place[s] \notin Unplaced
        BY <1>1 DEF Ask, AskScenario, AskQuestions, AskResolution, Moves, Places
    <2>4. \A t \in Threads : step'[t] # "idle" => t = Main[r] \/ step[t] # "idle"
        BY <1>1 DEF Ask, Enter, Goes, GatewayTypeOK
    <2> QED
        BY <2>1, <2>2, <2>3, <2>4
<1>2. ASSUME NEW r \in Runs, Create(r) PROVE CallersHaveRow'
    BY <1>2 DEF Create, CreateRun, AddRow, Moves, threadVars, Places
<1>3. ASSUME NEW r \in Runs, RunStep(r), ~Ask(r), ~Create(r) PROVE CallersHaveRow'
    <2>1. UNCHANGED <<step, rows>>
        BY <1>3
           DEF RunStep, CommandStep, CountMemory, SaveSeed, Refuse, Classified, Questioned, UserAnswers,
               AllAnswered, Resolved, PlanFails, UpdateScenario, StagesEnd, gatewayVars,
               threadVars
    <2>2. \A s \in Runs : place'[s] \notin Unplaced => place[s] \notin Unplaced
        BY <1>3, SMTT(30)
           DEF RunStep, CommandStep, CountMemory, SaveSeed, Refuse, Classified, AfterClass, Questioned,
               UserAnswers, AllAnswered, Resolved, PlanFails, UpdateScenario, StagesEnd,
               Moves, Places
    <2> QED
        BY <2>1, <2>2
<1>4. ASSUME NEW r \in Runs, DieSeeding(r) PROVE CallersHaveRow'
    BY <1>4 DEF DieSeeding, Moves, gatewayVars, threadVars, Places
<1>5. ASSUME NEW t \in Threads, StageCalls(t) PROVE CallersHaveRow'
    <2>1. RunOf[t] \in Runs
        BY ThreadsAssumption
    <2>2. RunOf[t] \in rows /\ UNCHANGED <<place, rows>>
        BY <1>5, <2>1 DEF StageCalls, Enter
    <2>3. \A s \in Threads : step'[s] # "idle" => s = t \/ step[s] # "idle"
        BY <1>5 DEF StageCalls, Enter, Goes, GatewayTypeOK
    <2> QED
        BY <2>2, <2>3
<1>6. ASSUME NEW t \in Threads, ThreadStep(t) PROVE CallersHaveRow'
    <2>1. UNCHANGED <<place, rows>>
        BY <1>6
           DEF ThreadStep, planVars, CallStep, CheckBudget, CheckWindow, NoteCall, Validate,
               WaitOut, Retry, SendFails, Answer, CheckOutput, Record, Loses
    <2>2. \A s \in Threads : step'[s] # "idle" => step[s] # "idle"
        BY <1>6, SMTT(30)
           DEF ThreadStep, CallStep, CheckBudget, CheckWindow, NoteCall, Validate, WaitOut,
               Retry, SendFails, Answer, CheckOutput, Record, Loses, Raises, Goes,
               GatewayTypeOK
    <2> QED
        BY <2>1, <2>2
<1>7. CASE Midnight /\ UNCHANGED planVars
    BY <1>7 DEF Midnight, planVars, threadVars
<1>8. CASE UNCHANGED vars
    BY <1>8 DEF vars, planVars, gatewayVars, threadVars
<1> QED
    BY <1>1, <1>2, <1>3, <1>4, <1>5, <1>6, <1>7, <1>8 DEF Next

-----------------------------------------------------------------------------
(* Types                                                                   *)

\* A process that seeds has seeds left, and one that has not begun has inserted
\* none.
SeedsLeft ==
    \A r \in Runs :
        /\ place[r] = "new" => seeded[r] = 0
        /\ place[r] = "seeding" => seeded[r] < Len(Seeds)

Typed == TypeOK /\ SeedsLeft

\* A process that goes somewhere, to seeding only from the beginning.
LEMMA MoveTypes ==
    ASSUME place \in [Runs -> Places], seeded \in [Runs -> 0 .. Len(Seeds)], SeedsLeft,
           NEW r \in Runs, NEW p \in Places, p # "new",
           p = "seeding" => place[r] = "new",
           place' = [place EXCEPT ![r] = p], seeded' = seeded
    PROVE  place' \in [Runs -> Places] /\ SeedsLeft'
<1>1. place' \in [Runs -> Places]
    OBVIOUS
<1>2. ASSUME NEW s \in Runs
      PROVE  /\ place'[s] = "new" => seeded'[s] = 0
             /\ place'[s] = "seeding" => seeded'[s] < Len(Seeds)
    <2>1. CASE s = r
        <3>1. place'[s] = p
            BY <2>1
        <3>2. p = "seeding" => seeded[r] = 0
            BY DEF SeedsLeft
        <3> QED
            BY <2>1, <3>1, <3>2, PlanningAssumption
    <2>2. CASE s # r
        BY <2>2 DEF SeedsLeft
    <2> QED
        BY <2>1, <2>2
<1> QED
    BY <1>1, <1>2 DEF SeedsLeft

LEMMA RunStepTypes ==
    ASSUME Typed, GatewayTypeOK', NEW r \in Runs, RunStep(r)
    PROVE  Typed'
<1> USE PlanningAssumption
<1> DEFINE PlaceTyped == place \in [Runs -> Places] /\ SeedsLeft
           RestTyped == /\ copies \in [1 .. Len(Seeds) -> Nat]
                        /\ seeded \in [Runs -> 0 .. Len(Seeds)]
                        /\ scenario \in [Runs -> Scenarios \cup {"none", "pending"}]
                        /\ class \in [Runs -> Scenarios \cup {"none"}]
                        /\ questions \in [Runs -> 0 .. MaxQuestions]
                        /\ calls \in [Threads -> 0 .. MaxStageCalls]
                        /\ alone \in BOOLEAN
<1>1. PlaceTyped /\ RestTyped
    BY DEF Typed, TypeOK
<1>2. SUFFICES PlaceTyped' /\ RestTyped'
    BY DEF Typed, TypeOK
<1>3. CASE SaveSeed(r)
    <2>1. seeded[r] < Len(Seeds)
        BY <1>1, <1>3 DEF SaveSeed, SeedsLeft
    <2>2. seeded[r] + 1 \in 1 .. Len(Seeds)
        BY <1>1, <2>1
    <2>3. /\ seeded' = [seeded EXCEPT ![r] = seeded[r] + 1]
          /\ copies' = [copies EXCEPT ![seeded[r] + 1] = copies[seeded[r] + 1] + 1]
          /\ place' = IF seeded[r] + 1 = Len(Seeds) THEN [place EXCEPT ![r] = "ready"] ELSE place
          /\ UNCHANGED <<scenario, class, questions, calls, alone>>
        BY <1>1, <1>3 DEF SaveSeed, Save
    <2>4. RestTyped'
        BY <1>1, <2>2, <2>3
    <2>5. place' \in [Runs -> Places]
        BY <1>1, <2>3 DEF Places
    <2>6. SeedsLeft'
        BY <1>1, <1>3, <2>2, <2>3 DEF SeedsLeft, SaveSeed
    <2> QED
        BY <2>4, <2>5, <2>6
<1>4. CASE UserAnswers(r)
    BY <1>1, <1>4 DEF UserAnswers, SeedsLeft
<1>5. CASE ~SaveSeed(r) /\ ~UserAnswers(r)
    <2>1. RestTyped'
        <3>1. CASE UNCHANGED <<copies, seeded, scenario, class, questions, calls, alone>>
            BY <1>1, <3>1
        <3>2. CASE CountMemory(r)
            BY <1>1, <3>2 DEF CountMemory
        <3>3. CASE Create(r)
            BY <1>1, <3>3 DEF Create, CreateRun
        <3>4. CASE Classified(r)
            BY <1>1, <3>4 DEF Classified, Parsed, Scenarios
        <3>5. CASE Questioned(r)
            BY <1>1, <3>5 DEF Questioned
        <3>6. CASE UpdateScenario(r)
            BY <1>1, <3>6 DEF UpdateScenario
        <3> QED
            BY <1>5, <3>1, <3>2, <3>3, <3>4, <3>5, <3>6
               DEF RunStep, CommandStep, Refuse, Ask, AllAnswered, Resolved, PlanFails, StagesEnd
    <2>2. PICK p \in Places :
             /\ p # "new"
             /\ p = "seeding" => place[r] = "new"
             /\ place' = [place EXCEPT ![r] = p]
             /\ seeded' = seeded
        BY <1>5, SMTT(30)
           DEF RunStep, CommandStep, CountMemory, Refuse, Create, CreateRun, Ask, AskScenario, AskQuestions,
               AskResolution, Classified, AfterClass, Questioned, AllAnswered, Resolved,
               PlanFails, UpdateScenario, StagesEnd, Moves, Places
    <2> QED
        BY <1>1, <2>1, <2>2, MoveTypes
<1> QED
    BY <1>3, <1>4, <1>5

LEMMA TypedStep == Typed /\ [Next]_vars => Typed'
<1> SUFFICES ASSUME Typed, [Next]_vars PROVE Typed'
    OBVIOUS
<1>0. GatewayTypeOK'
    BY StepCalls, TypesStep DEF Typed, TypeOK
<1> USE PlanningAssumption DEF Typed, TypeOK, SeedsLeft, Places
<1>1. ASSUME NEW r \in Runs, DieSeeding(r) PROVE Typed'
    BY <1>0, <1>1 DEF DieSeeding, Moves
<1>2. ASSUME NEW t \in Threads, StageCalls(t) PROVE Typed'
    BY <1>0, <1>2 DEF StageCalls
<1>3. CASE UNCHANGED planVars
    BY <1>0, <1>3 DEF planVars
<1> HIDE DEF Typed, TypeOK, SeedsLeft, Places
<1> QED
    BY <1>0, <1>1, <1>2, <1>3, RunStepTypes DEF Next, ThreadStep, vars

LEMMA TypedInit == Init => Typed
BY PlanningAssumption, InitTypes DEF Init, Typed, TypeOK, SeedsLeft, Places

\* Every variable has its type, and what the calls share stays consistent.
THEOREM TypesHold == Spec => []TypeOK
<1>1. Typed => TypeOK
    BY DEF Typed
<1> QED
    BY <1>1, TypedInit, TypedStep, PTL DEF Spec

\* However run commands interleave, the row of a run is there before any answer
\* is paid for on its behalf, so that the row of the cost can refer to it.
THEOREM PaidCallsHaveRunHolds == Spec => []PaidCallsHaveRun
<1>1. Init => CallersHaveRow
    BY DEF Init, GatewayInit, CallersHaveRow
<1>2. Typed /\ CallersHaveRow /\ [Next]_vars => CallersHaveRow'
    BY CallersHaveRowStep DEF Typed, TypeOK
<1>3. CallersHaveRow => PaidCallsHaveRun
    BY DEF CallersHaveRow, PaidCallsHaveRun
<1> QED
    BY <1>1, <1>2, <1>3, TypedInit, TypedStep, PTL DEF Spec

-----------------------------------------------------------------------------
(* Seeding                                                                 *)

\* A seed is there exactly if some process has got as far, and who plans has come
\* through seeding or has found the first seed.
Remembers ==
    /\ \A s \in 1 .. Len(Seeds) : copies[s] > 0 <=> \E r \in Runs : seeded[r] >= s
    /\ \A r \in Runs : place[r] \notin {"new", "seeding", "died"} =>
          copies[1] > 0 /\ seeded[r] \in {0, Len(Seeds)}

\* The seeds in the memory are those of the one process that seeds.
OwnSeeds(r) ==
    /\ \A o \in Runs \ {r} : place[o] # "seeding"
    /\ \A s \in 1 .. Len(Seeds) : copies[s] = IF s <= seeded[r] THEN 1 ELSE 0

\* As long as none begins while another seeds, nothing is inserted twice.
SeedsAlone ==
    alone =>
        /\ \A s \in 1 .. Len(Seeds) : copies[s] <= 1
        /\ \A r \in Runs : place[r] = "seeding" => OwnSeeds(r)

Seeding == Remembers /\ SeedsAlone

LEMMA CountMemorySeeds ==
    ASSUME Typed, Seeding, NEW r \in Runs, CountMemory(r)
    PROVE  Seeding'
<1> USE PlanningAssumption
<1>1. /\ place[r] = "new"
      /\ place' = [place EXCEPT ![r] = IF MemoryIsEmpty THEN "seeding" ELSE "ready"]
      /\ place \in [Runs -> Places]
      /\ UNCHANGED <<copies, seeded>>
      /\ copies \in [1 .. Len(Seeds) -> Nat]
      /\ seeded \in [Runs -> 0 .. Len(Seeds)]
      /\ seeded[r] = 0
      /\ 1 \in 1 .. Len(Seeds)
    BY DEF CountMemory, Moves, Typed, TypeOK, SeedsLeft
<1>2. alone' => alone
    BY DEF CountMemory
<1>3. CASE MemoryIsEmpty
    <2>1. \A s \in 1 .. Len(Seeds) : copies[s] = 0
        BY <1>1, <1>3 DEF MemoryIsEmpty
    <2>2. place' = [place EXCEPT ![r] = "seeding"]
        BY <1>1, <1>3
    <2>3. Remembers'
        BY <1>1, <2>2 DEF Seeding, Remembers
    <2>4. alone' => \A o \in Runs : place[o] # "seeding"
        BY <1>3, Zenon DEF CountMemory
    <2>5. SeedsAlone'
        BY <1>1, <2>1, <2>2, <2>4 DEF SeedsAlone, OwnSeeds
    <2> QED
        BY <2>3, <2>5 DEF Seeding
<1>4. CASE ~MemoryIsEmpty
    <2>1. PICK s \in 1 .. Len(Seeds) : copies[s] > 0
        BY <1>1, <1>4 DEF MemoryIsEmpty
    <2>2. PICK o \in Runs : seeded[o] >= s
        BY <2>1 DEF Seeding, Remembers
    <2>3. seeded[o] >= 1
        BY <1>1, <2>1, <2>2
    <2>4. copies[1] > 0
        BY <1>1, <2>3 DEF Seeding, Remembers
    <2>5. place' = [place EXCEPT ![r] = "ready"]
        BY <1>1, <1>4
    <2>6. Remembers'
        BY <1>1, <2>4, <2>5 DEF Seeding, Remembers
    <2>7. SeedsAlone'
        BY <1>1, <1>2, <2>5 DEF Seeding, SeedsAlone, OwnSeeds
    <2> QED
        BY <2>6, <2>7 DEF Seeding
<1> QED
    BY <1>3, <1>4

LEMMA SaveSeedSeeds ==
    ASSUME Typed, Seeding, NEW r \in Runs, SaveSeed(r)
    PROVE  Seeding'
<1> USE PlanningAssumption
<1> DEFINE n == seeded[r] + 1
<1>0. seeded \in [Runs -> 0 .. Len(Seeds)] /\ seeded[r] < Len(Seeds)
    BY DEF SaveSeed, Typed, TypeOK, SeedsLeft
<1>1. /\ place[r] = "seeding"
      /\ n \in 1 .. Len(Seeds)
      /\ seeded' = [seeded EXCEPT ![r] = n]
      /\ copies' = [copies EXCEPT ![n] = copies[n] + 1]
      /\ place' = IF n = Len(Seeds) THEN [place EXCEPT ![r] = "ready"] ELSE place
      /\ alone' = alone
      /\ place \in [Runs -> Places]
      /\ copies \in [1 .. Len(Seeds) -> Nat]
    BY <1>0 DEF SaveSeed, Save, Typed, TypeOK
<1>2. /\ seeded[r] \in Nat /\ n = seeded[r] + 1 /\ n \in Nat
      /\ seeded'[r] = n /\ \A o \in Runs : o # r => seeded'[o] = seeded[o]
      /\ copies'[n] = copies[n] + 1 /\ copies[n] \in Nat
      /\ \A s \in 1 .. Len(Seeds) : s # n => copies'[s] = copies[s]
    BY <1>0, <1>1
<1> HIDE DEF n
<1>3. ASSUME NEW s \in 1 .. Len(Seeds)
      PROVE  copies'[s] > 0 <=> \E o \in Runs : seeded'[o] >= s
    <2>1. CASE s = n
        BY <1>2, <2>1
    <2>2. CASE s # n
        <3>1. \A o \in Runs : seeded'[o] >= s <=> seeded[o] >= s
            BY <1>0, <1>2, <2>2
        <3> QED
            BY <1>2, <2>2, <3>1 DEF Seeding, Remembers
    <2> QED
        BY <2>1, <2>2
<1>4. copies'[1] > 0
    <2>1. 1 \in 1 .. Len(Seeds) /\ seeded'[r] >= 1
        BY <1>1, <1>2
    <2> QED
        BY <1>3, <2>1
<1>5. Remembers'
    <2>1. ASSUME NEW o \in Runs, place'[o] \notin {"new", "seeding", "died"}
          PROVE  seeded'[o] \in {0, Len(Seeds)}
        <3>1. CASE o = r
            BY <1>1, <1>2, <2>1, <3>1
        <3>2. CASE o # r
            BY <1>1, <1>2, <2>1, <3>2 DEF Seeding, Remembers
        <3> QED
            BY <3>1, <3>2
    <2> QED
        BY <1>3, <1>4, <2>1 DEF Remembers
<1>6. SeedsAlone'
    <2> SUFFICES ASSUME alone PROVE SeedsAlone'
        BY <1>1 DEF SeedsAlone
    <2>1. OwnSeeds(r)
        BY <1>1 DEF Seeding, SeedsAlone
    <2>2. \A s \in 1 .. Len(Seeds) : copies'[s] = IF s <= seeded'[r] THEN 1 ELSE 0
        BY <1>0, <1>2, <2>1 DEF OwnSeeds
    <2>3. \A o \in Runs \ {r} : place'[o] # "seeding"
        BY <1>1, <2>1 DEF OwnSeeds
    <2>4. OwnSeeds(r)'
        BY <2>2, <2>3 DEF OwnSeeds
    <2>5. \A s \in 1 .. Len(Seeds) : copies'[s] <= 1
        BY <2>2
    <2> QED
        BY <2>3, <2>4, <2>5 DEF SeedsAlone
<1> QED
    BY <1>5, <1>6 DEF Seeding

\* Nobody but seed_if_empty has to do with the seeds.
LEMMA ElsewhereSeeds ==
    ASSUME Typed, Seeding, NEW r \in Runs,
           UNCHANGED <<copies, seeded, alone>>,
           \/ place[r] \notin {"new", "seeding", "died"}
           \/ place' = [place EXCEPT ![r] = "died"],
           \E p \in Places \ {"new", "seeding"} : place' = [place EXCEPT ![r] = p]
    PROVE  Seeding'
<1>1. PICK p \in Places \ {"new", "seeding"} : place' = [place EXCEPT ![r] = p]
    OBVIOUS
<1>2. place \in [Runs -> Places]
    BY DEF Typed, TypeOK
<1>3. Remembers'
    <2>1. \A o \in Runs : place'[o] \notin {"new", "seeding", "died"} =>
             place[o] \notin {"new", "seeding", "died"}
        BY <1>1, <1>2
    <2> QED
        BY <2>1 DEF Seeding, Remembers
<1>4. SeedsAlone'
    BY <1>1, <1>2 DEF Seeding, SeedsAlone, OwnSeeds
<1> QED
    BY <1>3, <1>4 DEF Seeding

LEMMA SeedingStep == Typed /\ Seeding /\ [Next]_vars => Seeding'
<1> SUFFICES ASSUME Typed, Seeding, [Next]_vars PROVE Seeding'
    OBVIOUS
<1>1. ASSUME NEW r \in Runs, RunStep(r), ~CountMemory(r), ~SaveSeed(r), ~UserAnswers(r)
      PROVE  Seeding'
    <2>1. UNCHANGED <<copies, seeded, alone>>
        BY <1>1
           DEF RunStep, CommandStep, Refuse, Create, Ask, Classified, Questioned, AllAnswered, Resolved,
               PlanFails, UpdateScenario, StagesEnd
    <2>2. /\ place[r] \notin {"new", "seeding", "died"}
          /\ \E p \in Places \ {"new", "seeding"} : place' = [place EXCEPT ![r] = p]
        BY <1>1, SMTT(30)
           DEF RunStep, CommandStep, Refuse, Create, CreateRun, Ask, AskScenario, AskQuestions,
               AskResolution, Classified, AfterClass, Questioned, AllAnswered, Resolved,
               PlanFails, UpdateScenario, StagesEnd, Moves, Places
    <2> QED
        BY <2>1, <2>2, ElsewhereSeeds
<1>2. ASSUME NEW r \in Runs, DieSeeding(r) PROVE Seeding'
    <2>1. place' = [place EXCEPT ![r] = "died"] /\ UNCHANGED <<copies, seeded, alone>>
        BY <1>2 DEF DieSeeding, Moves
    <2>2. "died" \in Places \ {"new", "seeding"}
        BY DEF Places
    <2> QED
        BY <2>1, <2>2, ElsewhereSeeds
<1>3. CASE UNCHANGED <<place, copies, seeded, alone>>
    BY <1>3 DEF Seeding, Remembers, SeedsAlone, OwnSeeds
<1>4. ASSUME NEW r \in Runs, UserAnswers(r) PROVE UNCHANGED <<place, copies, seeded, alone>>
    BY <1>4 DEF UserAnswers
<1>5. ASSUME NEW t \in Threads, StageCalls(t) \/ ThreadStep(t)
      PROVE  UNCHANGED <<place, copies, seeded, alone>>
    BY <1>5 DEF StageCalls, ThreadStep, planVars
<1>6. UNCHANGED planVars => UNCHANGED <<place, copies, seeded, alone>>
    BY DEF planVars
<1> QED
    BY <1>1, <1>2, <1>3, <1>4, <1>5, <1>6, CountMemorySeeds, SaveSeedSeeds DEF Next, vars

\* No run command plans with an empty memory; a seed is missing only from one that
\* plans while another process is between its seeds, or after one has died there;
\* and unless a process begins to seed while another seeds, no seed is there twice.
THEOREM SeededOnceHolds == Spec => []SeededOnce
<1> USE PlanningAssumption
<1>1. Init => Seeding
    BY DEF Init, Seeding, Remembers, SeedsAlone
<1>2. Typed /\ Seeding => SeededOnce
    <2> SUFFICES ASSUME Typed, Seeding PROVE SeededOnce
        OBVIOUS
    <2>1. /\ copies \in [1 .. Len(Seeds) -> Nat] /\ DOMAIN copies = 1 .. Len(Seeds)
          /\ seeded \in [Runs -> 0 .. Len(Seeds)] /\ place \in [Runs -> Places]
          /\ 1 \in 1 .. Len(Seeds)
        BY DEF Typed, TypeOK
    <2>2. ASSUME NEW r \in Runs, place[r] \notin {"new", "seeding", "died"}
          PROVE  /\ ~MemoryIsEmpty
                 /\ \A s \in DOMAIN copies : copies[s] = 0 => \E o \in Runs : HalfSeeded(o)
        <3>1. copies[1] > 0
            BY <2>2 DEF Seeding, Remembers
        <3>2. ~MemoryIsEmpty
            BY <2>1, <3>1 DEF MemoryIsEmpty
        <3>3. PICK o \in Runs : seeded[o] >= 1
            BY <2>1, <3>1 DEF Seeding, Remembers
        <3>4. ASSUME NEW s \in 1 .. Len(Seeds), copies[s] = 0 PROVE HalfSeeded(o)
            <4>1. ~(seeded[o] >= s)
                BY <2>1, <3>4 DEF Seeding, Remembers
            <4>2. 0 < seeded[o] /\ seeded[o] < Len(Seeds)
                BY <2>1, <3>3, <4>1
            <4>3. place[o] \in {"new", "seeding", "died"}
                BY <4>2 DEF Seeding, Remembers
            <4>4. place[o] # "new"
                BY <4>2 DEF Typed, SeedsLeft
            <4> QED
                BY <4>2, <4>3, <4>4 DEF HalfSeeded
        <3> QED
            BY <2>1, <3>2, <3>4
    <2>3. alone => \A s \in DOMAIN copies : copies[s] <= 1
        BY <2>1 DEF Seeding, SeedsAlone
    <2> QED
        BY <2>2, <2>3 DEF SeededOnce
<1> QED
    BY <1>1, <1>2, TypedInit, TypedStep, SeedingStep, PTL DEF Spec

-----------------------------------------------------------------------------
(* Sums over a finite set                                                  *)

\* What f comes to over a set: the sum that SpendAccounted takes.
Sum(f, S) == MapThenSumSet(LAMBDA t : f[t], S)

\* MapThenSumSet adds the picked element of a set to the sum of the others: g is
\* its recursive function, on the sets of D.
Picked(s) == CHOOSE x \in s : TRUE
NextSum(g, f, s) == IF s = {} THEN 0 ELSE f[Picked(s)] + g[s \ {Picked(s)}]
Folds(g, f, D) == g = [s \in D |-> NextSum(g, f, s)]

LEMMA SumIsFold ==
    ASSUME NEW f, NEW S
    PROVE  Sum(f, S) = (CHOOSE g : Folds(g, f, SUBSET S))[S]
BY DEF Sum, MapThenSumSet, MapThenFoldSet, Folds, NextSum, Picked

\* A set of numbers that is not empty has a least one.
LEMMA LeastNumber ==
    ASSUME NEW B \in SUBSET Nat, B # {}
    PROVE  \E n \in B : \A m \in B : n <= m
<1> DEFINE R == OpToRel(<, Nat)
<1>1. IsWellFoundedOn(R, Nat)
    BY NatLessThanWellFounded
<1> HIDE DEF R
<1>2. PICK n \in B : \A m \in B : <<m, n>> \notin R
    BY <1>1, WFMin
<1>3. \A m \in B : ~(m < n)
    BY <1>2 DEF R, OpToRel
<1> QED
    BY <1>3

\* What is left when an element is picked is smaller.
LEMMA PickedSmaller ==
    ASSUME NEW s, IsFiniteSet(s), s # {}
    PROVE  /\ Picked(s) \in s
           /\ IsFiniteSet(s \ {Picked(s)})
           /\ Cardinality(s) \in Nat \ {0}
           /\ Cardinality(s \ {Picked(s)}) = Cardinality(s) - 1
<1>1. Picked(s) \in s
    BY DEF Picked
<1> HIDE DEF Picked
<1> QED
    BY <1>1, FS_RemoveElement, FS_CardinalityType, FS_EmptySet

\* A set of subsets of a finite set that is not empty has a member from which no
\* element can be picked without leaving it.
LEMMA SmallestSubset ==
    ASSUME NEW S, IsFiniteSet(S), NEW B \in SUBSET (SUBSET S), B # {}
    PROVE  \E s \in B : s # {} => s \ {Picked(s)} \notin B
<1> DEFINE Sizes == {n \in Nat : \E s \in B : Cardinality(s) = n}
<1>1. \A s \in B : IsFiniteSet(s) /\ Cardinality(s) \in Nat
    BY FS_Subset, FS_CardinalityType
<1>2. PICK n \in Sizes : \A m \in Sizes : n <= m
    <2>1. Sizes # {} /\ Sizes \in SUBSET Nat
        BY <1>1
    <2> HIDE DEF Sizes
    <2> QED
        BY <2>1, LeastNumber
<1>3. PICK s \in B : Cardinality(s) = n
    OBVIOUS
<1>4. ASSUME s # {}, s \ {Picked(s)} \in B PROVE FALSE
    <2>1. Cardinality(s \ {Picked(s)}) = n - 1
        BY <1>1, <1>3, <1>4, PickedSmaller
    <2>2. n <= n - 1
        BY <1>1, <1>2, <1>4, <2>1
    <2> QED
        BY <2>2
<1> QED
    BY <1>4

\* The recursive function of MapThenSumSet exists: were there none for the
\* subsets up to some size, take the least one, and extend the function for the
\* size below it.
LEMMA FoldExists ==
    ASSUME NEW S, IsFiniteSet(S), NEW f
    PROVE  \E g : Folds(g, f, SUBSET S)
<1> DEFINE UpTo(n) == {s \in SUBSET S : Cardinality(s) <= n}
           Bad == {n \in Nat : \A g : ~Folds(g, f, UpTo(n))}
<1>0. \A s \in SUBSET S : IsFiniteSet(s) /\ Cardinality(s) \in Nat
    BY FS_Subset, FS_CardinalityType
<1>1. Bad = {}
    <2> SUFFICES ASSUME Bad # {} PROVE FALSE
        OBVIOUS
    <2>1. PICK n \in Bad : \A m \in Bad : n <= m
        <3>1. Bad \in SUBSET Nat
            OBVIOUS
        <3> HIDE DEF Bad
        <3> QED
            BY <3>1, LeastNumber
    <2>2. PICK g : n # 0 => Folds(g, f, UpTo(n - 1))
        <3>1. n # 0 => n - 1 \in Nat /\ n - 1 \notin Bad
            BY <2>1
        <3> QED
            BY <3>1
    <2> DEFINE h == [s \in UpTo(n) |-> NextSum(g, f, s)]
    <2>3. ASSUME NEW s \in UpTo(n) PROVE h[s] = NextSum(h, f, s)
        <3>1. CASE s = {}
            BY <3>1 DEF NextSum
        <3>2. CASE s # {}
            <4> DEFINE r == s \ {Picked(s)}
            <4>1. n # 0 /\ r \in UpTo(n - 1) /\ r \in UpTo(n)
                BY <1>0, <3>2, PickedSmaller
            <4>2. g[r] = NextSum(g, f, r)
                BY <2>2, <4>1 DEF Folds
            <4>3. g[r] = h[r]
                BY <4>1, <4>2
            <4> QED
                BY <3>2, <4>3 DEF NextSum
        <3> QED
            BY <3>1, <3>2
    <2>4. Folds(h, f, UpTo(n))
        <3> HIDE DEF UpTo
        <3>1. h = [s \in UpTo(n) |-> h[s]]
            OBVIOUS
        <3>2. \A s \in UpTo(n) : h[s] = NextSum(h, f, s)
            BY <2>3
        <3> HIDE DEF h
        <3> QED
            BY <3>1, <3>2 DEF Folds
    <2> QED
        BY <2>1, <2>4
<1>2. SUBSET S = UpTo(Cardinality(S)) /\ Cardinality(S) \in Nat
    BY FS_Subset, FS_CardinalityType
<1>3. PICK g : Folds(g, f, UpTo(Cardinality(S)))
    BY <1>1, <1>2
<1> HIDE DEF UpTo
<1> QED
    BY <1>2, <1>3

\* g holds the sums of f over the subsets of S.
AddsUp(g, f, S) ==
    /\ Sum(f, S) = g[S]
    /\ g[{}] = 0
    /\ \A s \in SUBSET S : g[s] = NextSum(g, f, s)

\* So a sum is what its equation says.
LEMMA SumStep ==
    ASSUME NEW S, IsFiniteSet(S), NEW f
    PROVE  \E g : AddsUp(g, f, S)
<1> DEFINE g == CHOOSE g : Folds(g, f, SUBSET S)
<1>1. Folds(g, f, SUBSET S)
    BY FoldExists
<1>2. Sum(f, S) = g[S]
    BY SumIsFold
<1> HIDE DEF g
<1>3. \A s \in SUBSET S : g[s] = NextSum(g, f, s)
    BY <1>1 DEF Folds
<1>4. g[{}] = 0
    <2>1. g[{}] = NextSum(g, f, {})
        BY <1>3
    <2> QED
        BY <2>1 DEF NextSum
<1> QED
    BY <1>2, <1>3, <1>4 DEF AddsUp

\* A sum of numbers is one, and nothing adds up to nothing.
LEMMA SumType ==
    ASSUME NEW S, IsFiniteSet(S), NEW f, \A x \in S : f[x] \in Nat
    PROVE  /\ Sum(f, S) \in Nat
           /\ (\A x \in S : f[x] = 0) => Sum(f, S) = 0
<1>1. PICK g : AddsUp(g, f, S)
    BY SumStep
<1> DEFINE Fine(s) == g[s] \in Nat /\ ((\A x \in S : f[x] = 0) => g[s] = 0)
           B == {s \in SUBSET S : ~Fine(s)}
<1>2. B = {}
    <2> SUFFICES ASSUME B # {} PROVE FALSE
        OBVIOUS
    <2>1. PICK s \in B : s # {} => s \ {Picked(s)} \notin B
        BY SmallestSubset
    <2>2. CASE s = {}
        BY <1>1, <2>1, <2>2 DEF AddsUp
    <2>3. CASE s # {}
        <3>1. Picked(s) \in S /\ s \ {Picked(s)} \in SUBSET S
            BY <2>3 DEF Picked
        <3>2. g[s] = f[Picked(s)] + g[s \ {Picked(s)}]
            BY <1>1, <2>3 DEF AddsUp, NextSum
        <3>3. Fine(s \ {Picked(s)})
            BY <2>1, <2>3, <3>1
        <3> QED
            BY <3>1, <3>2, <3>3
    <2> QED
        BY <2>2, <2>3
<1> QED
    BY <1>1, <1>2 DEF AddsUp

\* Two functions that differ at t have sums that differ by as much.
LEMMA SumChanges ==
    ASSUME NEW S, IsFiniteSet(S), NEW f, NEW h, NEW t,
           \A x \in S : f[x] \in Nat /\ h[x] \in Nat,
           \A x \in S : x # t => h[x] = f[x]
    PROVE  /\ t \in S => Sum(h, S) + f[t] = Sum(f, S) + h[t]
           /\ t \notin S => Sum(h, S) = Sum(f, S)
<1>1. PICK g : AddsUp(g, f, S)
    BY SumStep
<1>2. PICK k : AddsUp(k, h, S)
    BY SumStep
<1> DEFINE Fine(s) == /\ g[s] \in Int /\ k[s] \in Int
                      /\ t \in s => k[s] + f[t] = g[s] + h[t]
                      /\ t \notin s => k[s] = g[s]
           B == {s \in SUBSET S : ~Fine(s)}
<1>3. B = {}
    <2> SUFFICES ASSUME B # {} PROVE FALSE
        OBVIOUS
    <2>1. PICK s \in B : s # {} => s \ {Picked(s)} \notin B
        BY SmallestSubset
    <2>2. CASE s = {}
        BY <1>1, <1>2, <2>1, <2>2 DEF AddsUp
    <2>3. CASE s # {}
        <3> DEFINE x == Picked(s)
                   r == s \ {x}
        <3>1. x \in s /\ x \in S /\ r \in SUBSET S
            BY <2>3 DEF Picked
        <3>2. g[s] = f[x] + g[r] /\ k[s] = h[x] + k[r]
            BY <1>1, <1>2, <2>3 DEF AddsUp, NextSum
        <3>3. Fine(r)
            BY <2>1, <2>3, <3>1
        <3>4. f[x] \in Nat /\ h[x] \in Nat /\ (x # t => h[x] = f[x])
            BY <3>1
        <3>5. x = t => t \notin r
            OBVIOUS
        <3>6. x # t => (t \in r <=> t \in s)
            OBVIOUS
        <3>7. t \in s => f[t] \in Nat /\ h[t] \in Nat
            BY <2>1
        <3> HIDE DEF x, r
        <3>8. Fine(s)
            BY <3>1, <3>2, <3>3, <3>4, <3>5, <3>6, <3>7
        <3> QED
            BY <2>1, <3>8
    <2> QED
        BY <2>2, <2>3
<1> QED
    BY <1>1, <1>2, <1>3 DEF AddsUp

-----------------------------------------------------------------------------
(* Every token is accounted for                                            *)

\* Only an answer that is neither recorded nor lost holds tokens.
HandsEmpty == \A t \in Threads : step[t] \notin {"checking", "recording"} => usage[t] = 0

Spent(u) == paid[u] = recorded[u] + blocked[u] + Sum(usage, ThreadsOf(u))

\* The property, user by user, in this state and in the next.
LEMMA SpentByUser == SpendAccounted <=> \A u \in Users : Spent(u)
BY DEF SpendAccounted, Spent, Sum

LEMMA SpentByUserNext == SpendAccounted' <=> \A u \in Users : Spent(u)'
BY DEF SpendAccounted, Spent, Sum, ThreadsOf, OwnerOf, MapThenSumSet, MapThenFoldSet

LEMMA UsagesAreNat == \A n \in Usages \cup {0} : n \in Nat
<1> TAKE n \in Usages \cup {0}
<1>1. CASE n = 0
    BY <1>1
<1>2. CASE n \in Usages
    <2>1. MaxUsage \in Nat /\ Usages \subseteq 0 .. MaxUsage
        BY TokensAssumption
    <2>2. n \in 0 .. MaxUsage
        BY <1>2, <2>1, Zenon
    <2> QED
        BY <2>1, <2>2
<1> QED
    BY <1>1, <1>2

\* A step that takes tokens of t from where they are to where they are counted
\* next loses none.
LEMMA TokensMove ==
    ASSUME GatewayTypeOK, GatewayTypeOK', NEW u \in Users, Spent(u), NEW t \in Threads,
           \A x \in Threads : x # t => usage'[x] = usage[x],
           IF OwnerOf(t) = u
           THEN recorded'[u] + blocked'[u] + usage'[t] - paid'[u]
                    = recorded[u] + blocked[u] + usage[t] - paid[u]
           ELSE recorded'[u] + blocked'[u] - paid'[u] = recorded[u] + blocked[u] - paid[u]
    PROVE  Spent(u)'
<1> DEFINE S == ThreadsOf(u)
<1>1. IsFiniteSet(S) /\ S \subseteq Threads /\ (t \in S <=> OwnerOf(t) = u)
    BY ThreadsAssumption, FS_Subset DEF ThreadsOf
<1>2. \A x \in Threads : usage[x] \in Nat /\ usage'[x] \in Nat
    <2>1. \A x \in Threads : usage[x] \in Nat
        BY UsageIsNat
    <2>2. usage' \in [Threads -> Usages \cup {0}]
        BY DEF GatewayTypeOK
    <2> QED
        BY <2>1, <2>2, UsagesAreNat
<1>3. S' = S
    BY DEF ThreadsOf, OwnerOf
<1>4. /\ paid[u] \in Nat /\ recorded[u] \in Nat /\ blocked[u] \in Nat
      /\ paid'[u] \in Nat /\ recorded'[u] \in Nat /\ blocked'[u] \in Nat
    BY DEF GatewayTypeOK
<1> HIDE DEF S
<1>5. Sum(usage, S) \in Nat /\ Sum(usage', S) \in Nat
    BY <1>1, <1>2, SumType
<1>6. /\ t \in S => Sum(usage', S) + usage[t] = Sum(usage, S) + usage'[t]
      /\ t \notin S => Sum(usage', S) = Sum(usage, S)
    <2>1. \A x \in S : usage[x] \in Nat /\ usage'[x] \in Nat
        BY <1>1, <1>2, Zenon
    <2>2. \A x \in S : x # t => usage'[x] = usage[x]
        BY <1>1, Zenon
    <2>3. IsFiniteSet(S)
        BY <1>1
    <2> QED
        BY ONLY <2>1, <2>2, <2>3, SumChanges, Zenon
<1>7. paid[u] = recorded[u] + blocked[u] + Sum(usage, S)
    BY DEF Spent, S
<1>8. paid'[u] = recorded'[u] + blocked'[u] + Sum(usage', S)
    BY <1>1, <1>2, <1>4, <1>5, <1>6, <1>7
<1>9. Spent(u)' <=> paid'[u] = recorded'[u] + blocked'[u] + Sum(usage', S')
    BY DEF Spent, S, Sum, MapThenSumSet, MapThenFoldSet
<1> QED
    BY <1>3, <1>8, <1>9

\* A step that moves no tokens.
LEMMA NothingSpent ==
    ASSUME GatewayTypeOK, GatewayTypeOK', SpendAccounted, HandsEmpty,
           UNCHANGED <<usage, paid, recorded, blocked>>,
           \A t \in Threads :
               step[t] \in {"checking", "recording"} => step'[t] \in {"checking", "recording"}
    PROVE  SpendAccounted' /\ HandsEmpty'
<1>1. ASSUME NEW u \in Users PROVE Spent(u)'
    <2>1. ThreadsOf(u)' = ThreadsOf(u)
        BY DEF ThreadsOf, OwnerOf
    <2>2. paid'[u] = recorded'[u] + blocked'[u] + Sum(usage', ThreadsOf(u)')
        BY <2>1, SpentByUser DEF Spent
    <2> QED
        BY <2>2 DEF Spent, Sum, MapThenSumSet, MapThenFoldSet
<1>2. SpendAccounted'
    BY <1>1, SpentByUserNext
<1> QED
    BY <1>2 DEF HandsEmpty

\* A call that raises before its answer holds no tokens.
LEMMA EmptyRaises ==
    ASSUME GatewayTypeOK, GatewayTypeOK', SpendAccounted, HandsEmpty, NEW t \in Threads,
           Raises(t), step[t] \notin {"checking", "recording"},
           UNCHANGED <<paid, recorded, blocked>>
    PROVE  SpendAccounted' /\ HandsEmpty'
<1>1. usage[t] = 0 /\ usage' = [usage EXCEPT ![t] = 0] /\ step' = [step EXCEPT ![t] = "idle"]
    BY DEF HandsEmpty, Raises
<1>2. usage' = usage
    BY <1>1 DEF GatewayTypeOK
<1>3. \A s \in Threads : step[s] \in {"checking", "recording"} => step'[s] = step[s]
    BY <1>1 DEF GatewayTypeOK
<1> QED
    BY <1>2, <1>3, NothingSpent

LEMMA AnswerSpends ==
    ASSUME GatewayTypeOK, GatewayTypeOK', SpendAccounted, HandsEmpty, NEW t \in Threads, Answer(t)
    PROVE  SpendAccounted' /\ HandsEmpty'
<1>1. PICK n \in Usages : /\ usage' = [usage EXCEPT ![t] = n]
                          /\ paid' = [paid EXCEPT ![OwnerOf(t)] = @ + n]
    BY DEF Answer
<1>2. /\ step[t] = "sending" /\ step' = [step EXCEPT ![t] = "checking"]
      /\ UNCHANGED <<recorded, blocked>>
    BY DEF Answer, Goes
<1>3. usage[t] = 0
    BY <1>2 DEF HandsEmpty
<1>4. n \in Nat
    BY UsagesAreNat
<1>5. HandsEmpty'
    BY <1>1, <1>2 DEF HandsEmpty, GatewayTypeOK
<1>6. ASSUME NEW u \in Users PROVE Spent(u)'
    <2>1. Spent(u)
        BY SpentByUser
    <2>2. usage'[t] = n /\ \A x \in Threads : x # t => usage'[x] = usage[x]
        BY <1>1 DEF GatewayTypeOK
    <2>3. paid'[u] = IF OwnerOf(t) = u THEN paid[u] + n ELSE paid[u]
        BY <1>1 DEF GatewayTypeOK
    <2>4. paid[u] \in Nat /\ recorded[u] \in Nat /\ blocked[u] \in Nat
        BY DEF GatewayTypeOK
    <2>5. IF OwnerOf(t) = u
          THEN recorded'[u] + blocked'[u] + usage'[t] - paid'[u]
                   = recorded[u] + blocked[u] + usage[t] - paid[u]
          ELSE recorded'[u] + blocked'[u] - paid'[u] = recorded[u] + blocked[u] - paid[u]
        BY <1>2, <1>3, <1>4, <2>2, <2>3, <2>4
    <2> QED
        BY <2>1, <2>2, <2>5, TokensMove
<1> QED
    BY <1>5, <1>6, SpentByUserNext

\* What a lost answer cost is with the blocked tokens, what a recorded one cost in
\* its row.
LEMMA HandEmptied ==
    ASSUME GatewayTypeOK, GatewayTypeOK', SpendAccounted, HandsEmpty, NEW t \in Threads,
           step' = [step EXCEPT ![t] = "idle"], usage' = [usage EXCEPT ![t] = 0], paid' = paid,
           \/ /\ blocked' = [blocked EXCEPT ![OwnerOf(t)] = @ + usage[t]]
              /\ recorded' = recorded
           \/ /\ recorded' = [recorded EXCEPT ![OwnerOf(t)] = @ + usage[t]]
              /\ blocked' = blocked
    PROVE  SpendAccounted' /\ HandsEmpty'
<1>1. HandsEmpty'
    BY DEF HandsEmpty, GatewayTypeOK
<1>2. ASSUME NEW u \in Users PROVE Spent(u)'
    <2>1. Spent(u)
        BY SpentByUser
    <2>2. usage'[t] = 0 /\ usage[t] \in Nat /\ \A x \in Threads : x # t => usage'[x] = usage[x]
        BY UsageIsNat DEF GatewayTypeOK
    <2>3. \/ /\ blocked'[u] = IF OwnerOf(t) = u THEN blocked[u] + usage[t] ELSE blocked[u]
             /\ recorded'[u] = recorded[u]
          \/ /\ recorded'[u] = IF OwnerOf(t) = u THEN recorded[u] + usage[t] ELSE recorded[u]
             /\ blocked'[u] = blocked[u]
        BY DEF GatewayTypeOK
    <2>4. paid[u] \in Nat /\ recorded[u] \in Nat /\ blocked[u] \in Nat
        BY DEF GatewayTypeOK
    <2>5. IF OwnerOf(t) = u
          THEN recorded'[u] + blocked'[u] + usage'[t] - paid'[u]
                   = recorded[u] + blocked[u] + usage[t] - paid[u]
          ELSE recorded'[u] + blocked'[u] - paid'[u] = recorded[u] + blocked[u] - paid[u]
        BY <2>2, <2>3, <2>4
    <2> QED
        BY <2>1, <2>2, <2>5, TokensMove
<1> QED
    BY <1>1, <1>2, SpentByUserNext

LEMMA CallStepSpends ==
    ASSUME GatewayTypeOK, GatewayTypeOK', SpendAccounted, HandsEmpty, NEW t \in Threads, CallStep(t)
    PROVE  SpendAccounted' /\ HandsEmpty'
<1>1. CASE Answer(t)
    BY <1>1, AnswerSpends
<1>2. ASSUME Loses(t) PROVE SpendAccounted' /\ HandsEmpty'
    BY <1>2, HandEmptied DEF Loses, Raises
<1>3. CASE Record(t)
    <2>1. CASE Loses(t)
        BY <1>2, <2>1
    <2>2. CASE ~Loses(t)
        BY <1>3, <2>2, HandEmptied DEF Record, Goes, RowTokens
    <2> QED
        BY <2>1, <2>2
<1>4. ASSUME Raises(t), step[t] \notin {"checking", "recording"},
             UNCHANGED <<paid, recorded, blocked>>
      PROVE  SpendAccounted' /\ HandsEmpty'
    BY <1>4, EmptyRaises
<1>5. ASSUME UNCHANGED <<usage, paid, recorded, blocked>>,
             \E from \in Steps, to \in Steps :
                /\ Goes(t, from, to)
                /\ from \in {"checking", "recording"} => to \in {"checking", "recording"}
      PROVE  SpendAccounted' /\ HandsEmpty'
    <2>1. \A s \in Threads :
             step[s] \in {"checking", "recording"} => step'[s] \in {"checking", "recording"}
        BY <1>5 DEF Goes, GatewayTypeOK
    <2> QED
        BY <1>5, <2>1, NothingSpent
<1> DEFINE Moved == SpendAccounted' /\ HandsEmpty'
<1> HIDE DEF Moved
<1>6. CASE CheckOutput(t)
    BY <1>2, <1>5, <1>6 DEF CheckOutput, tokenVars, Steps, Moved
<1>7. CASE CheckBudget(t)
    BY <1>4, <1>5, <1>7 DEF CheckBudget, tokenVars, Steps, Moved
<1>8. CASE CheckWindow(t)
    BY <1>4, <1>5, <1>8 DEF CheckWindow, tokenVars, Steps, Moved
<1>9. CASE Validate(t)
    BY <1>4, <1>5, <1>9 DEF Validate, tokenVars, Steps, Moved
<1>10. CASE SendFails(t)
    BY <1>4, <1>10 DEF SendFails, tokenVars, Moved
<1>11. CASE NoteCall(t) \/ WaitOut(t) \/ Retry(t)
    BY <1>5, <1>11 DEF NoteCall, WaitOut, Retry, tokenVars, Steps, Moved
<1> QED
    BY <1>1, <1>3, <1>6, <1>7, <1>8, <1>9, <1>10, <1>11 DEF CallStep, Moved

LEMMA SpendStep ==
    GatewayTypeOK /\ GatewayTypeOK' /\ SpendAccounted /\ HandsEmpty /\ [GatewayNext]_gatewayVars
        => SpendAccounted' /\ HandsEmpty'
<1> SUFFICES ASSUME GatewayTypeOK, GatewayTypeOK', SpendAccounted, HandsEmpty,
                    [GatewayNext]_gatewayVars
             PROVE  SpendAccounted' /\ HandsEmpty'
    OBVIOUS
<1> DEFINE Waits == /\ UNCHANGED <<usage, paid, recorded, blocked>>
                    /\ \A t \in Threads : step[t] \in {"checking", "recording"}
                                             => step'[t] \in {"checking", "recording"}
<1>1. ASSUME NEW t \in Threads, CallStep(t) PROVE SpendAccounted' /\ HandsEmpty'
    BY <1>1, CallStepSpends
<1>2. ASSUME NEW t \in Threads, Enter(t) PROVE Waits
    BY <1>2 DEF Enter, Goes, tokenVars, GatewayTypeOK
<1>3. ASSUME NEW r \in Runs, AddRow(r) PROVE Waits
    BY <1>3 DEF AddRow, threadVars, tokenVars
<1>4. CASE Midnight
    <2>1. Waits
        BY <1>4 DEF Midnight, threadVars
    <2> QED
        BY <2>1, NothingSpent
<1>5. CASE UNCHANGED gatewayVars
    <2>1. Waits
        BY <1>5 DEF gatewayVars, threadVars, tokenVars
    <2> QED
        BY <2>1, NothingSpent
<1>6. Waits => SpendAccounted' /\ HandsEmpty'
    BY NothingSpent
<1> HIDE DEF Waits
<1> QED
    BY <1>1, <1>2, <1>3, <1>4, <1>5, <1>6 DEF GatewayNext

\* Whatever the API charges for is in a row once, held by the one call that has
\* still to record it, or lost with an answer that was blocked or found no row to
\* refer to: no retry and no interleaving of any number of threads counts tokens
\* twice or drops others.
THEOREM SpendIsAccounted == Spec => []SpendAccounted
<1>1. GatewayInit => SpendAccounted /\ HandsEmpty
    <2> SUFFICES ASSUME GatewayInit PROVE SpendAccounted /\ HandsEmpty
        OBVIOUS
    <2>1. HandsEmpty
        BY DEF GatewayInit, HandsEmpty
    <2>2. ASSUME NEW u \in Users PROVE Spent(u)
        <3>1. IsFiniteSet(ThreadsOf(u)) /\ ThreadsOf(u) \subseteq Threads
            BY ThreadsAssumption, FS_Subset DEF ThreadsOf
        <3>2. \A t \in ThreadsOf(u) : usage[t] = 0
            BY <3>1 DEF GatewayInit
        <3>3. Sum(usage, ThreadsOf(u)) = 0
            BY <3>1, <3>2, SumType
        <3> QED
            BY <3>3 DEF GatewayInit, Spent
    <2> QED
        BY <2>1, <2>2, SpentByUser
<1>2. GatewayTypeOK /\ SpendAccounted /\ HandsEmpty /\ [GatewayNext]_gatewayVars
        => SpendAccounted' /\ HandsEmpty'
    BY SpendStep, TypesStep
<1> QED
    BY <1>1, <1>2, PlanningUsesGateway, GatewayTypesHold, PTL DEF GatewaySpec

=============================================================================
