------------------------------ MODULE Gateway ------------------------------
(***************************************************************************)
(* AIGateway.call, as the threads of several processes make it: the daily  *)
(* token budget is read from the rows of all processes, the window of the  *)
(* rate limiter and the open spans are the process's own, the answer is    *)
(* paid for before it is checked and recorded.  One step is one numbered   *)
(* step of the method, or the part of it between two accesses to what it   *)
(* shares with other threads.                                              *)
(*                                                                         *)
(* Callers say what a thread asks for and when: see Planning.              *)
(***************************************************************************)
EXTENDS Integers, FiniteSets

CONSTANTS
    Users, Runs, Threads,
    Owner,        \* the user a run is triggered by
    RunOf,        \* the run whose process a thread belongs to
    Budget,       \* daily_token_budget of a user, -1 for none
    Estimates,    \* sizes of a prompt, in tokens
    Usages,       \* tokens an answer may cost
    MaxUsage,     \* the most it may
    MaxCalls,     \* _MAX_CALLS
    MaxRetries,   \* _max_retries
    MaxDays       \* bound: midnights

ASSUME ThreadsAssumption ==
    /\ IsFiniteSet(Threads)
    /\ Owner \in [Runs -> Users]
    /\ RunOf \in [Threads -> Runs]
ASSUME TokensAssumption ==
    /\ Budget \in [Users -> Nat \cup {-1}]
    /\ Estimates \subseteq Nat
    /\ MaxUsage \in Nat /\ Usages \subseteq 0 .. MaxUsage
    /\ MaxCalls \in Nat /\ MaxRetries \in Nat /\ MaxDays \in Nat

VARIABLES
    step,        \* the step of call() a thread is at
    outcome,     \* what its last call came to
    seen,        \* the calls it has counted in the window, its own included
    attempts,    \* how often the API has refused it for its own rate limit
    usage,       \* what its answer cost
    checkedOn,   \* the day of its check, which begins its session's transaction
    window,      \* the calls the rate limiter of a run's process has noted
    spans,       \* the threads whose span is open
    rows,        \* the runs orch_runs has
    recorded,    \* tokens in a user's orch_metrics rows
    dayStart,    \* the tokens in those of them that are from before today
    days,
    paid,        \* tokens a user's calls have cost
    blocked      \* those of answers that never became a row

threadVars == <<step, outcome, seen, attempts, usage, checkedOn>>
limiterVars == <<window, spans>>
tokenVars == <<recorded, dayStart, days, paid, blocked>>
gatewayVars == <<threadVars, limiterVars, rows, tokenVars>>

OwnerOf(t) == Owner[RunOf[t]]
ThreadsOf(u) == {t \in Threads : OwnerOf(t) = u}

\* What today's rows of a user add up to.
UsedToday(u) == recorded[u] - dayStart[u]

Steps == {"idle", "budget", "window", "noting", "validating", "sending", "waiting",
          "checking", "recording"}

GatewayInit ==
    /\ step = [t \in Threads |-> "idle"]
    /\ outcome = [t \in Threads |-> "none"]
    /\ seen = [t \in Threads |-> 0]
    /\ attempts = [t \in Threads |-> 0]
    /\ usage = [t \in Threads |-> 0]
    /\ checkedOn = [t \in Threads |-> 0]
    /\ window = [r \in Runs |-> 0]
    /\ spans = {}
    /\ rows = {}
    /\ recorded = [u \in Users |-> 0]
    /\ dayStart = [u \in Users |-> 0]
    /\ days = 0
    /\ paid = [u \in Users |-> 0]
    /\ blocked = [u \in Users |-> 0]

-----------------------------------------------------------------------------

Goes(t, from, to) == step[t] = from /\ step' = [step EXCEPT ![t] = to]

\* Definitions named Flawed... are the plausible mistakes the properties catch;
\* no action uses them.

CloseSpan(t) == spans' = spans \ {t}

CloseSession(t) == checkedOn' = [checkedOn EXCEPT ![t] = 0]

\* Only the end of a call that succeeds closes its span.
FlawedRaises(t) ==
    /\ step' = [step EXCEPT ![t] = "idle"]
    /\ outcome' = [outcome EXCEPT ![t] = "raised"]
    /\ attempts' = [attempts EXCEPT ![t] = 0]
    /\ usage' = [usage EXCEPT ![t] = 0]
    /\ CloseSession(t)
    /\ UNCHANGED <<seen, spans>>

\* The exception ends the span, if there is one, and goes to the caller.
Raises(t) ==
    /\ step' = [step EXCEPT ![t] = "idle"]
    /\ outcome' = [outcome EXCEPT ![t] = "raised"]
    /\ attempts' = [attempts EXCEPT ![t] = 0]
    /\ usage' = [usage EXCEPT ![t] = 0]
    /\ CloseSession(t)
    /\ CloseSpan(t)
    /\ UNCHANGED seen

\* The token is known and its user may trigger runs: the command has resolved it
\* before, and every role may.
Enter(t) ==
    /\ Goes(t, "idle", "budget")
    /\ outcome' = [outcome EXCEPT ![t] = "none"]
    /\ UNCHANGED <<seen, attempts, usage, checkedOn, limiterVars, rows, tokenVars>>

\* What has been used today is left out.
FlawedWithinBudget(u, estimate) == Budget[u] = -1 \/ estimate <= Budget[u]

WithinBudget(u, estimate) == Budget[u] = -1 \/ UsedToday(u) + estimate <= Budget[u]

CheckBudget(t) ==
    /\ step[t] = "budget"
    /\ \E estimate \in Estimates :
          \/ /\ WithinBudget(OwnerOf(t), estimate)
             /\ Goes(t, "budget", "window")
             /\ checkedOn' = [checkedOn EXCEPT ![t] = days]
             /\ UNCHANGED <<outcome, seen, attempts, usage, spans>>
          \/ /\ ~WithinBudget(OwnerOf(t), estimate)
             /\ Raises(t)
    /\ UNCHANGED <<window, rows, tokenVars>>

\* The window is read without the calls that have become too old, be they none or
\* all.
CheckWindow(t) ==
    /\ step[t] = "window"
    /\ \E n \in 0 .. window[RunOf[t]] :
          \/ /\ n < MaxCalls
             /\ Goes(t, "window", "noting")
             /\ seen' = [seen EXCEPT ![t] = n + 1]
             /\ UNCHANGED <<outcome, attempts, usage, checkedOn, spans>>
          \/ /\ n >= MaxCalls
             /\ Raises(t)
    /\ UNCHANGED <<window, rows, tokenVars>>

\* The window as read, with this call, replaces whatever the window has become.
NoteCall(t) ==
    /\ Goes(t, "noting", "validating")
    /\ window' = [window EXCEPT ![RunOf[t]] = seen[t]]
    /\ seen' = [seen EXCEPT ![t] = 0]
    /\ UNCHANGED <<outcome, attempts, usage, checkedOn, spans, rows, tokenVars>>

\* What the checks of a prompt tell apart: an injection phrase, or null bytes, in a
\* message of the user, personal data in the last one, and neither.
Prompts == {"fine", "injection", "personal"}

ValidInput(prompt) == prompt # "injection"

CleanInput(prompt) == prompt # "personal"

OpenSpan(t) == spans' = spans \cup {t}

Validate(t) ==
    /\ \E prompt \in Prompts :
          \/ /\ ValidInput(prompt) /\ CleanInput(prompt)
             /\ Goes(t, "validating", "sending")
             /\ OpenSpan(t)
             /\ UNCHANGED <<outcome, seen, attempts, usage, checkedOn>>
          \/ /\ ~(ValidInput(prompt) /\ CleanInput(prompt))
             /\ step[t] = "validating"
             /\ Raises(t)
    /\ UNCHANGED <<window, rows, tokenVars>>

\* A refusal that is not counted.
FlawedCounted(n) == n

Counted(n) == n + 1

\* The API's own rate limit is waited out, a few times.
WaitOut(t) ==
    /\ attempts[t] < MaxRetries
    /\ Goes(t, "sending", "waiting")
    /\ attempts' = [attempts EXCEPT ![t] = Counted(@)]
    /\ UNCHANGED <<outcome, seen, usage, checkedOn, limiterVars, rows, tokenVars>>

Retry(t) ==
    /\ Goes(t, "waiting", "sending")
    /\ UNCHANGED <<outcome, seen, attempts, usage, checkedOn, limiterVars, rows, tokenVars>>

\* The API refuses once more, or for another reason.
SendFails(t) ==
    /\ step[t] = "sending"
    /\ Raises(t)
    /\ UNCHANGED <<window, rows, tokenVars>>

Answer(t) ==
    /\ Goes(t, "sending", "checking")
    /\ \E n \in Usages :
          /\ usage' = [usage EXCEPT ![t] = n]
          /\ paid' = [paid EXCEPT ![OwnerOf(t)] = @ + n]
    /\ UNCHANGED <<outcome, seen, attempts, checkedOn, limiterVars, rows, recorded, dayStart,
                   days, blocked>>

\* The answer is lost to the caller, and what it cost to the budget.
Loses(t) ==
    /\ Raises(t)
    /\ blocked' = [blocked EXCEPT ![OwnerOf(t)] = @ + usage[t]]
    /\ UNCHANGED <<window, rows, recorded, dayStart, days, paid>>

\* Some text the model writes is dangerous; a list of tool calls has no text.
CheckOutput(t) ==
    \/ /\ Goes(t, "checking", "recording")
       /\ UNCHANGED <<outcome, seen, attempts, usage, checkedOn, limiterVars, rows, tokenVars>>
    \/ step[t] = "checking" /\ Loses(t)

\* The row is inserted again for every attempt it took.
FlawedRowTokens(t) == usage[t] * (attempts[t] + 1)

RowTokens(t) == usage[t]

\* The row's created_at is when its transaction began: on the day of the check, for
\* a user who has a budget to check.
OfEarlierDay(t) == checkedOn[t] # days

\* The row refers to the run's row; without it, or without the database, the
\* insert raises.
Record(t) ==
    \/ /\ RunOf[t] \in rows
       /\ Goes(t, "recording", "idle")
       /\ outcome' = [outcome EXCEPT ![t] = "answered"]
       /\ recorded' = [recorded EXCEPT ![OwnerOf(t)] = @ + RowTokens(t)]
       /\ dayStart' = IF OfEarlierDay(t)
                      THEN [dayStart EXCEPT ![OwnerOf(t)] = @ + RowTokens(t)] ELSE dayStart
       /\ attempts' = [attempts EXCEPT ![t] = 0]
       /\ usage' = [usage EXCEPT ![t] = 0]
       /\ CloseSession(t)
       /\ CloseSpan(t)
       /\ UNCHANGED <<seen, window, rows, days, paid, blocked>>
    \/ step[t] = "recording" /\ Loses(t)

CallStep(t) ==
    \/ CheckBudget(t) \/ CheckWindow(t) \/ NoteCall(t) \/ Validate(t)
    \/ WaitOut(t) \/ Retry(t) \/ SendFails(t) \/ Answer(t) \/ CheckOutput(t) \/ Record(t)

\* A day begins in UTC.
Midnight ==
    /\ days < MaxDays
    /\ days' = days + 1
    /\ dayStart' = recorded
    /\ UNCHANGED <<threadVars, limiterVars, rows, recorded, paid, blocked>>

\* A run's row is inserted.
AddRow(r) ==
    /\ rows' = rows \cup {r}
    /\ UNCHANGED <<threadVars, limiterVars, tokenVars>>

GatewayNext ==
    \/ \E t \in Threads : Enter(t) \/ CallStep(t)
    \/ \E r \in Runs : AddRow(r)
    \/ Midnight

GatewaySpec == GatewayInit /\ [][GatewayNext]_gatewayVars

-----------------------------------------------------------------------------
(* Properties                                                              *)

InCall == {"sending", "waiting", "checking", "recording"}

\* Types, and what the calls of one process share is theirs: the open spans are
\* those of the calls past step 7, however they end, and the window never
\* holds more than the limit.
GatewayTypeOK ==
    /\ step \in [Threads -> Steps]
    /\ outcome \in [Threads -> {"none", "answered", "raised"}]
    /\ seen \in [Threads -> 0 .. MaxCalls]
    /\ attempts \in [Threads -> 0 .. MaxRetries]
    /\ usage \in [Threads -> Usages \cup {0}]
    /\ checkedOn \in [Threads -> 0 .. days]
    /\ window \in [Runs -> 0 .. MaxCalls]
    /\ spans = {t \in Threads : step[t] \in InCall}
    /\ rows \subseteq Runs
    /\ recorded \in [Users -> Nat]
    /\ dayStart \in [Users -> Nat]
    /\ \A u \in Users : dayStart[u] <= recorded[u]
    /\ days \in 0 .. MaxDays
    /\ paid \in [Users -> Nat]
    /\ blocked \in [Users -> Nat]

\* The threads whose check of the budget has passed and whose answer is neither
\* recorded nor lost.
InFlight(u) == {t \in ThreadsOf(u) : step[t] \notin {"idle", "budget"}}

\* The budget is checked before a call and what the call costs is recorded after
\* it, so concurrent calls overrun it (TokenBudgetManager.check): what is used
\* and what the calls in flight may add to it stays below the budget and one
\* answer for each thread that works for the user, in all processes together.
OverrunIsBounded ==
    \A u \in Users :
        Budget[u] # -1 =>
            UsedToday(u) + MaxUsage * Cardinality(InFlight(u))
                <= Budget[u] + MaxUsage * Cardinality(ThreadsOf(u))

=============================================================================
