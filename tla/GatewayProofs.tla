--------------------------- MODULE GatewayProofs ---------------------------
(***************************************************************************)
(* What AIGateway.call guarantees for any number of processes and threads: *)
(* spans end with their calls, the window stays within the limit, and the  *)
(* budget is overrun by no more than one answer for each thread.           *)
(***************************************************************************)
EXTENDS Gateway, FiniteSetTheorems, TLAPS

-----------------------------------------------------------------------------
(* Types                                                                   *)

LEMMA InitTypes == GatewayInit => GatewayTypeOK
BY ThreadsAssumption, TokensAssumption DEF GatewayInit, GatewayTypeOK, Steps, InCall

\* A call that raises leaves everything typed and its span closed.
LEMMA RaisesTypes ==
    ASSUME GatewayTypeOK, NEW t \in Threads, Raises(t), UNCHANGED <<window, rows, recorded, dayStart, days, paid>>,
           blocked' \in [Users -> Nat]
    PROVE  GatewayTypeOK'
BY TokensAssumption DEF GatewayTypeOK, Raises, CloseSpan, CloseSession, Steps, InCall

LEMMA OwnerIsUser == \A t \in Threads : Owner[RunOf[t]] \in Users
BY ThreadsAssumption

LEMMA UsageIsNat ==
    ASSUME GatewayTypeOK
    PROVE  \A t \in Threads : usage[t] \in 0 .. MaxUsage /\ usage[t] \in Nat
<1>1. usage \in [Threads -> Usages \cup {0}]
    BY DEF GatewayTypeOK
<1>2. Usages \subseteq 0 .. MaxUsage /\ MaxUsage \in Nat
    BY TokensAssumption
<1> TAKE t \in Threads
<1>3. CASE usage[t] \in Usages
    <2> DEFINE n == usage[t]
    <2>1. n \in 0 .. MaxUsage
        BY <1>2, <1>3, Zenon
    <2> HIDE DEF n
    <2>2. n \in Nat
        BY <1>2, <2>1
    <2> QED
        BY <2>1, <2>2 DEF n
<1>4. CASE usage[t] = 0
    BY <1>2, <1>4
<1> QED
    BY <1>1, <1>3, <1>4

LEMMA CallStepTypes ==
    ASSUME GatewayTypeOK, NEW t \in Threads, CallStep(t)
    PROVE  GatewayTypeOK'
<1> USE ThreadsAssumption, TokensAssumption DEF OwnerOf
<1>1. CASE CheckBudget(t)
    <2>1. CASE Raises(t)
        BY <1>1, <2>1, RaisesTypes DEF CheckBudget, tokenVars, GatewayTypeOK
    <2>2. CASE ~Raises(t)
        BY <1>1, <2>2 DEF CheckBudget, tokenVars, GatewayTypeOK, Goes, Steps, InCall
    <2> QED
        BY <2>1, <2>2
<1>2. CASE CheckWindow(t)
    <2>1. CASE Raises(t)
        BY <1>2, <2>1, RaisesTypes DEF CheckWindow, tokenVars, GatewayTypeOK
    <2>2. CASE ~Raises(t)
        <3>1. PICK n \in 0 .. window[RunOf[t]] : n < MaxCalls /\ seen' = [seen EXCEPT ![t] = n + 1]
            BY <1>2, <2>2 DEF CheckWindow
        <3>2. n + 1 \in 0 .. MaxCalls
            BY <3>1 DEF GatewayTypeOK
        <3>3. seen' \in [Threads -> 0 .. MaxCalls]
            BY <3>1, <3>2 DEF GatewayTypeOK
        <3> QED
            BY <1>2, <2>2, <3>3, SMTT(30) DEF CheckWindow, tokenVars, GatewayTypeOK, Goes, Steps, InCall
    <2> QED
        BY <2>1, <2>2
<1>3. CASE NoteCall(t)
    BY <1>3 DEF NoteCall, tokenVars, GatewayTypeOK, Goes, Steps, InCall
<1>4. CASE Validate(t)
    <2>1. CASE Raises(t)
        BY <1>4, <2>1, RaisesTypes DEF Validate, OpenSpan, tokenVars, GatewayTypeOK
    <2>2. CASE ~Raises(t)
        BY <1>4, <2>2 DEF Validate, OpenSpan, tokenVars, GatewayTypeOK, Goes, Steps, InCall
    <2> QED
        BY <2>1, <2>2
<1>5. CASE WaitOut(t)
    BY <1>5 DEF WaitOut, Counted, limiterVars, tokenVars, GatewayTypeOK, Goes, Steps, InCall
<1>6. CASE Retry(t)
    BY <1>6 DEF Retry, limiterVars, tokenVars, GatewayTypeOK, Goes, Steps, InCall
<1>7. CASE SendFails(t)
    BY <1>7, RaisesTypes DEF SendFails, tokenVars, GatewayTypeOK
<1>8. CASE Answer(t)
    BY <1>8 DEF Answer, limiterVars, GatewayTypeOK, Goes, Steps, InCall
<1>9. ASSUME Loses(t) PROVE GatewayTypeOK'
    <2>1. blocked' \in [Users -> Nat]
        BY <1>9, OwnerIsUser, UsageIsNat DEF Loses, GatewayTypeOK
    <2> QED
        BY <1>9, <2>1, RaisesTypes DEF Loses
<1>10. CASE CheckOutput(t)
    BY <1>9, <1>10
       DEF CheckOutput, limiterVars, tokenVars, GatewayTypeOK, Goes, Steps, InCall
<1>11. CASE Record(t)
    <2>1. CASE Loses(t)
        BY <1>9, <2>1
    <2>2. CASE ~Loses(t)
        <3>1. Owner[RunOf[t]] \in Users /\ usage[t] \in Nat
            BY OwnerIsUser, UsageIsNat
        <3>2. recorded' = [recorded EXCEPT ![Owner[RunOf[t]]] = @ + usage[t]]
            BY <1>11, <2>2 DEF Record, RowTokens
        <3>3. dayStart' = [dayStart EXCEPT ![Owner[RunOf[t]]] = @ + usage[t]] \/ dayStart' = dayStart
            BY <1>11, <2>2 DEF Record, RowTokens
        <3>5. /\ recorded' \in [Users -> Nat] /\ dayStart' \in [Users -> Nat]
              /\ \A u \in Users : dayStart'[u] <= recorded'[u]
            BY <3>1, <3>2, <3>3 DEF GatewayTypeOK
        <3>6. checkedOn' \in [Threads -> 0 .. days]
            BY <1>11, <2>2, TokensAssumption DEF Record, CloseSession, GatewayTypeOK
        <3>4. /\ step' = [step EXCEPT ![t] = "idle"]
              /\ outcome' = [outcome EXCEPT ![t] = "answered"]
              /\ attempts' = [attempts EXCEPT ![t] = 0]
              /\ usage' = [usage EXCEPT ![t] = 0]
              /\ spans' = spans \ {t}
              /\ UNCHANGED <<seen, window, rows, days, paid, blocked>>
            BY <1>11, <2>2 DEF Record, CloseSpan, Goes
        <3>7. spans' = {s \in Threads : step'[s] \in InCall}
            BY <3>4 DEF GatewayTypeOK, InCall
        <3>8. /\ step' \in [Threads -> Steps]
              /\ outcome' \in [Threads -> {"none", "answered", "raised"}]
              /\ attempts' \in [Threads -> 0 .. MaxRetries]
              /\ usage' \in [Threads -> Usages \cup {0}]
            BY <3>4 DEF GatewayTypeOK, Steps
        <3> QED
            BY <3>4, <3>5, <3>6, <3>7, <3>8 DEF GatewayTypeOK
    <2> QED
        BY <2>1, <2>2
<1> QED
    BY <1>1, <1>2, <1>3, <1>4, <1>5, <1>6, <1>7, <1>8, <1>10, <1>11 DEF CallStep

LEMMA TypesStep == GatewayTypeOK /\ [GatewayNext]_gatewayVars => GatewayTypeOK'
<1> SUFFICES ASSUME GatewayTypeOK, [GatewayNext]_gatewayVars PROVE GatewayTypeOK'
    OBVIOUS
<1>1. ASSUME NEW t \in Threads, Enter(t) PROVE GatewayTypeOK'
    BY <1>1 DEF Enter, limiterVars, tokenVars, GatewayTypeOK, Goes, Steps, InCall
<1>2. ASSUME NEW t \in Threads, CallStep(t) PROVE GatewayTypeOK'
    BY <1>2, CallStepTypes
<1>3. ASSUME NEW r \in Runs, AddRow(r) PROVE GatewayTypeOK'
    BY <1>3 DEF AddRow, threadVars, limiterVars, tokenVars, GatewayTypeOK, Steps, InCall
<1>4. CASE Midnight
    BY <1>4, TokensAssumption
       DEF Midnight, threadVars, limiterVars, GatewayTypeOK, Steps, InCall
<1>5. CASE UNCHANGED gatewayVars
    BY <1>5 DEF gatewayVars, threadVars, limiterVars, tokenVars, GatewayTypeOK, Steps, InCall
<1> QED
    BY <1>1, <1>2, <1>3, <1>4, <1>5 DEF GatewayNext

\* Every variable has its type, the open spans are exactly those of the calls
\* past step 7, and no process's window exceeds the limit, however the calls of
\* any number of threads interleave and end.
THEOREM GatewayTypesHold == GatewaySpec => []GatewayTypeOK
<1>1. GatewayInit => GatewayTypeOK
    BY InitTypes
<1>2. GatewayTypeOK /\ [GatewayNext]_gatewayVars => GatewayTypeOK'
    BY TypesStep
<1> QED
    BY <1>1, <1>2, PTL DEF GatewaySpec

-----------------------------------------------------------------------------
(* The overrun of the budget                                               *)

\* The threads of a user are finitely many, and so are those in flight.
LEMMA InFlightCount ==
    ASSUME NEW u \in Users
    PROVE  /\ IsFiniteSet(InFlight(u))
           /\ Cardinality(InFlight(u)) \in Nat
           /\ Cardinality(ThreadsOf(u)) \in Nat
           /\ Cardinality(InFlight(u)) <= Cardinality(ThreadsOf(u))
<1>1. IsFiniteSet(ThreadsOf(u))
    BY ThreadsAssumption, FS_Subset DEF ThreadsOf
<1>2. InFlight(u) \subseteq ThreadsOf(u)
    BY DEF InFlight
<1> QED
    BY <1>1, <1>2, FS_Subset, FS_CardinalityType

LEMMA Products ==
    ASSUME NEW m \in Nat, NEW a \in Nat, NEW b \in Nat
    PROVE  /\ m * a \in Nat
           /\ a <= b => m * a <= m * b
           /\ a > 0 => m * (a - 1) = m * a - m
OBVIOUS

\* The bound for one user, to be shown of the next state.
Bounded(u) ==
    Budget[u] # -1 =>
        UsedToday(u) + MaxUsage * Cardinality(InFlight(u))
            <= Budget[u] + MaxUsage * Cardinality(ThreadsOf(u))

\* A step that takes nobody into flight and adds no row keeps the bound.
LEMMA NothingAdded ==
    ASSUME GatewayTypeOK, GatewayTypeOK', NEW u \in Users, Bounded(u),
           UsedToday(u)' <= UsedToday(u),
           InFlight(u)' \subseteq InFlight(u)
    PROVE  Bounded(u)'
<1>1. Cardinality(InFlight(u)') <= Cardinality(InFlight(u)) /\ Cardinality(InFlight(u)') \in Nat
    BY InFlightCount, FS_Subset, FS_CardinalityType
<1>2. MaxUsage * Cardinality(InFlight(u)') <= MaxUsage * Cardinality(InFlight(u))
    BY <1>1, InFlightCount, Products, TokensAssumption
<1>3. UsedToday(u) \in Int /\ UsedToday(u)' \in Int
    BY DEF UsedToday, GatewayTypeOK
<1>4. /\ MaxUsage * Cardinality(InFlight(u)') \in Int
      /\ MaxUsage * Cardinality(InFlight(u)) \in Int
      /\ MaxUsage * Cardinality(ThreadsOf(u)) \in Int
      /\ Budget[u] \in Int
    BY <1>1, InFlightCount, Products, TokensAssumption
<1>5. ThreadsOf(u)' = ThreadsOf(u)
    BY DEF ThreadsOf, OwnerOf
<1> QED
    BY <1>2, <1>3, <1>4, <1>5 DEF Bounded

\* A call enters flight only when the budget is not used up.
LEMMA OneEnters ==
    ASSUME GatewayTypeOK, GatewayTypeOK', NEW u \in Users,
           Budget[u] # -1 => UsedToday(u)' <= Budget[u]
    PROVE  Bounded(u)'
<1>1. InFlight(u)' \subseteq ThreadsOf(u) /\ IsFiniteSet(ThreadsOf(u))
    BY ThreadsAssumption, FS_Subset DEF InFlight, ThreadsOf, OwnerOf
<1>2. /\ Cardinality(InFlight(u)') <= Cardinality(ThreadsOf(u))
      /\ Cardinality(InFlight(u)') \in Nat
    BY <1>1, FS_Subset, FS_CardinalityType
<1>3. MaxUsage * Cardinality(InFlight(u)') <= MaxUsage * Cardinality(ThreadsOf(u))
    BY <1>2, InFlightCount, Products, TokensAssumption
<1>4. UsedToday(u)' \in Int
    BY DEF UsedToday, GatewayTypeOK
<1>5. /\ MaxUsage * Cardinality(InFlight(u)') \in Int
      /\ MaxUsage * Cardinality(ThreadsOf(u)) \in Int
      /\ Budget[u] \in Int
    BY <1>2, InFlightCount, Products, TokensAssumption
<1>6. ThreadsOf(u)' = ThreadsOf(u)
    BY DEF ThreadsOf, OwnerOf
<1> QED
    BY <1>3, <1>4, <1>5, <1>6 DEF Bounded

\* A call leaves flight with a row of no more than MaxUsage tokens.
LEMMA OneIsRecorded ==
    ASSUME GatewayTypeOK, GatewayTypeOK', NEW u \in Users, Bounded(u),
           NEW t \in InFlight(u),
           UsedToday(u)' <= UsedToday(u) + MaxUsage,
           InFlight(u)' = InFlight(u) \ {t}
    PROVE  Bounded(u)'
<1>1. /\ Cardinality(InFlight(u)') = Cardinality(InFlight(u)) - 1
      /\ Cardinality(InFlight(u)) > 0
    BY InFlightCount, FS_RemoveElement, FS_EmptySet
<1>2. MaxUsage * Cardinality(InFlight(u)') = MaxUsage * Cardinality(InFlight(u)) - MaxUsage
    BY <1>1, InFlightCount, Products, TokensAssumption
<1>3. UsedToday(u) \in Int /\ UsedToday(u)' \in Int
    BY DEF UsedToday, GatewayTypeOK
<1>4. /\ MaxUsage * Cardinality(InFlight(u)) \in Int
      /\ MaxUsage * Cardinality(ThreadsOf(u)) \in Int
      /\ Budget[u] \in Int /\ MaxUsage \in Int
    BY InFlightCount, Products, TokensAssumption
<1>5. ThreadsOf(u)' = ThreadsOf(u)
    BY DEF ThreadsOf, OwnerOf
<1> QED
    BY <1>2, <1>3, <1>4, <1>5 DEF Bounded

\* A step that touches neither tokens nor rows, and takes no thread into flight,
\* keeps every user's bound.
LEMMA NobodyEnters ==
    ASSUME GatewayTypeOK, GatewayTypeOK', OverrunIsBounded,
           UNCHANGED <<recorded, dayStart>>,
           \A t \in Threads : step'[t] \notin {"idle", "budget"} => step[t] \notin {"idle", "budget"}
    PROVE  OverrunIsBounded'
<1> SUFFICES ASSUME NEW u \in Users PROVE Bounded(u)'
    BY DEF OverrunIsBounded, Bounded
<1>1. Bounded(u)
    BY DEF OverrunIsBounded, Bounded
<1>2. UsedToday(u)' <= UsedToday(u)
    BY DEF UsedToday, GatewayTypeOK
<1>3. InFlight(u)' \subseteq InFlight(u)
    BY DEF InFlight, ThreadsOf, OwnerOf
<1> QED
    BY <1>1, <1>2, <1>3, NothingAdded

\* The check of the budget: the owner's use leaves room for the prompt, and the
\* threads of other users stay where they are.
LEMMA CheckBudgetBounded ==
    ASSUME GatewayTypeOK, GatewayTypeOK', OverrunIsBounded,
           NEW t \in Threads, CheckBudget(t)
    PROVE  OverrunIsBounded'
<1>0. UNCHANGED <<recorded, dayStart>>
    BY DEF CheckBudget, tokenVars
<1>1. CASE Raises(t)
    <2>1. \A s \in Threads :
             step'[s] \notin {"idle", "budget"} => step[s] \notin {"idle", "budget"}
        BY <1>1 DEF Raises, GatewayTypeOK
    <2> QED
        BY <1>0, <2>1, NobodyEnters
<1>2. CASE ~Raises(t)
    <2>1. PICK estimate \in Estimates :
             WithinBudget(OwnerOf(t), estimate) /\ Goes(t, "budget", "window")
        BY <1>2 DEF CheckBudget
    <2> SUFFICES ASSUME NEW u \in Users PROVE Bounded(u)'
        BY DEF OverrunIsBounded, Bounded
    <2>2. CASE u = OwnerOf(t)
        <3>1. Budget[u] # -1 => UsedToday(u) + estimate <= Budget[u]
            BY <2>1, <2>2 DEF WithinBudget
        <3>2. UsedToday(u)' = UsedToday(u) /\ UsedToday(u) \in Int
            BY <1>0 DEF UsedToday, GatewayTypeOK
        <3>3. estimate \in Nat /\ Budget[u] \in Int
            BY TokensAssumption
        <3>4. Budget[u] # -1 => UsedToday(u)' <= Budget[u]
            BY <3>1, <3>2, <3>3
        <3> QED
            BY <3>4, OneEnters
    <2>3. CASE u # OwnerOf(t)
        <3>1. Bounded(u)
            BY DEF OverrunIsBounded, Bounded
        <3>2. UsedToday(u)' <= UsedToday(u)
            BY <1>0 DEF UsedToday, GatewayTypeOK
        <3>3. InFlight(u)' \subseteq InFlight(u)
            BY <2>1, <2>3 DEF InFlight, ThreadsOf, OwnerOf, Goes, GatewayTypeOK
        <3> QED
            BY <3>1, <3>2, <3>3, NothingAdded
    <2> QED
        BY <2>2, <2>3
<1> QED
    BY <1>1, <1>2

\* The row of an answer that is kept takes its thread out of flight.
LEMMA RecordBounded ==
    ASSUME GatewayTypeOK, GatewayTypeOK', OverrunIsBounded,
           NEW t \in Threads, Record(t)
    PROVE  OverrunIsBounded'
<1>1. CASE Loses(t)
    <2>1. \A s \in Threads :
             step'[s] \notin {"idle", "budget"} => step[s] \notin {"idle", "budget"}
        BY <1>1 DEF Loses, Raises, GatewayTypeOK
    <2>2. UNCHANGED <<recorded, dayStart>>
        BY <1>1 DEF Loses
    <2> QED
        BY <2>1, <2>2, NobodyEnters
<1>2. CASE ~Loses(t)
    <2>1. /\ step[t] = "recording" /\ step' = [step EXCEPT ![t] = "idle"]
          /\ recorded' = [recorded EXCEPT ![OwnerOf(t)] = @ + usage[t]]
          /\ \/ dayStart' = [dayStart EXCEPT ![OwnerOf(t)] = @ + usage[t]]
             \/ dayStart' = dayStart
        BY <1>2 DEF Record, RowTokens, Goes
    <2>2. OwnerOf(t) \in Users /\ usage[t] \in Nat /\ usage[t] <= MaxUsage
        BY OwnerIsUser, UsageIsNat, TokensAssumption DEF OwnerOf
    <2> SUFFICES ASSUME NEW u \in Users PROVE Bounded(u)'
        BY DEF OverrunIsBounded, Bounded
    <2>3. Bounded(u)
        BY DEF OverrunIsBounded, Bounded
    <2>4. CASE u = OwnerOf(t)
        <3>1. t \in InFlight(u)
            BY <2>1, <2>4 DEF InFlight, ThreadsOf
        <3>2. InFlight(u)' = InFlight(u) \ {t}
            BY <2>1 DEF InFlight, ThreadsOf, OwnerOf, GatewayTypeOK
        <3>3. UsedToday(u)' <= UsedToday(u) + MaxUsage
            BY <2>1, <2>2, <2>4, TokensAssumption DEF UsedToday, GatewayTypeOK
        <3> QED
            BY <2>3, <3>1, <3>2, <3>3, OneIsRecorded
    <2>5. CASE u # OwnerOf(t)
        <3>1. UsedToday(u)' <= UsedToday(u)
            BY <2>1, <2>5 DEF UsedToday, GatewayTypeOK
        <3>2. InFlight(u)' \subseteq InFlight(u)
            BY <2>1 DEF InFlight, ThreadsOf, OwnerOf, GatewayTypeOK
        <3> QED
            BY <2>3, <3>1, <3>2, NothingAdded
    <2> QED
        BY <2>4, <2>5
<1> QED
    BY <1>1, <1>2

\* At midnight nothing of the day is used yet.
LEMMA MidnightBounded ==
    ASSUME GatewayTypeOK, GatewayTypeOK', OverrunIsBounded, Midnight
    PROVE  OverrunIsBounded'
<1> SUFFICES ASSUME NEW u \in Users PROVE Bounded(u)'
    BY DEF OverrunIsBounded, Bounded
<1>1. Bounded(u)
    BY DEF OverrunIsBounded, Bounded
<1>2. UsedToday(u)' <= UsedToday(u)
    BY DEF Midnight, UsedToday, GatewayTypeOK
<1>3. InFlight(u)' \subseteq InFlight(u)
    BY DEF Midnight, threadVars, InFlight, ThreadsOf, OwnerOf
<1> QED
    BY <1>1, <1>2, <1>3, NothingAdded

LEMMA OverrunStep ==
    GatewayTypeOK /\ GatewayTypeOK' /\ OverrunIsBounded /\ [GatewayNext]_gatewayVars
        => OverrunIsBounded'
<1> SUFFICES ASSUME GatewayTypeOK, GatewayTypeOK', OverrunIsBounded,
                    [GatewayNext]_gatewayVars
             PROVE  OverrunIsBounded'
    OBVIOUS
<1> DEFINE Aloft(s) == s \notin {"idle", "budget"}
           NoEntry == /\ UNCHANGED <<recorded, dayStart>>
                      /\ \A t \in Threads : Aloft(step'[t]) => Aloft(step[t])
<1>1. NoEntry => OverrunIsBounded'
    BY NobodyEnters
<1>2. ASSUME NEW t \in Threads, CallStep(t), ~CheckBudget(t), ~Record(t)
      PROVE  NoEntry
    BY <1>2, SMTT(30)
       DEF CallStep, CheckWindow, NoteCall, Validate, WaitOut, Retry, SendFails, Answer,
           CheckOutput, Loses, Raises, Goes, limiterVars, tokenVars, GatewayTypeOK
<1>3. ASSUME NEW t \in Threads, Enter(t)
      PROVE  NoEntry
    BY <1>3 DEF Enter, Goes, tokenVars, GatewayTypeOK
<1>4. ASSUME NEW r \in Runs, AddRow(r)
      PROVE  NoEntry
    BY <1>4 DEF AddRow, threadVars, tokenVars
<1>5. CASE UNCHANGED gatewayVars
    BY <1>1, <1>5 DEF gatewayVars, threadVars, tokenVars
<1> HIDE DEF NoEntry
<1>6. CASE GatewayNext
    BY <1>1, <1>2, <1>3, <1>4, <1>6, CheckBudgetBounded, RecordBounded, MidnightBounded
       DEF GatewayNext
<1> QED
    BY <1>5, <1>6

\* The daily budget is read before a call and written after it, without a lock,
\* by any number of threads of any number of processes: it is overrun by no
\* more than one answer for each thread that works for the user.
THEOREM OverrunBounded == GatewaySpec => []OverrunIsBounded
<1>1. GatewayInit => OverrunIsBounded
    <2> SUFFICES ASSUME GatewayInit, NEW u \in Users PROVE Bounded(u)
        BY DEF OverrunIsBounded, Bounded
    <2>1. InFlight(u) = {}
        BY DEF GatewayInit, InFlight, ThreadsOf
    <2>2. Cardinality(InFlight(u)) = 0
        BY <2>1, FS_EmptySet
    <2>3. UsedToday(u) = 0
        BY DEF GatewayInit, UsedToday
    <2>4. MaxUsage * Cardinality(ThreadsOf(u)) \in Nat /\ MaxUsage * 0 = 0
        BY InFlightCount, Products, TokensAssumption
    <2>5. Budget[u] # -1 => Budget[u] \in Nat
        BY TokensAssumption
    <2> QED
        BY <2>2, <2>3, <2>4, <2>5 DEF Bounded
<1>2. GatewayTypeOK /\ GatewayTypeOK' /\ OverrunIsBounded /\ [GatewayNext]_gatewayVars
        => OverrunIsBounded'
    BY OverrunStep
<1> QED
    BY <1>1, <1>2, GatewayTypesHold, PTL DEF GatewaySpec

=============================================================================
