----------------------------- MODULE StageAgent -----------------------------
(***************************************************************************)
(* The stages of the runs at work in the checkout they share.  A stage     *)
(* asks the language model what to do, at most MaxIterations times, makes  *)
(* the tool calls it answers with, and ends with an artifact or a failure; *)
(* an artifact is kept for the next stage that builds the same prompt.     *)
(* The implementation stage then sees to it that there is a pull request.  *)
(*                                                                         *)
(* One step is one command, one statement or one call of a service.  The   *)
(* model's answers are any of ResponsesOf; its artifact may name any       *)
(* branch, and claim a pull request that does not exist.                   *)
(***************************************************************************)
EXTENDS Workspace, FiniteSets, Functions

CONSTANTS
    Runs,
    RunOf,             \* the run a stage execution belongs to
    After,             \* the stages whose completion triggers it
    TaskOf,            \* what its prompt says besides the run and the files
    ContextOf,         \* STAGE_CONTEXT_FILES of a task
    Implementations,   \* the executions of the implementation stage
    BranchOf,          \* the feature branch the model's answers name
    ResponsesOf,       \* the lists of tool calls the model may ask it to make
    MaxIterations,
    MaxFailures        \* bound: git and GitHub commands and updates of a row that fail

ASSUME AgentsAssumption ==
    /\ IsFiniteSet(Authors)
    /\ RunOf \in [Authors -> Runs]
    /\ After \in [Authors -> SUBSET Authors]
    /\ Implementations \subseteq Authors
    /\ BranchOf \in [Authors -> Branches]
ASSUME BoundsAssumption == MaxIterations \in Nat /\ MaxFailures \in Nat

VARIABLES
    started,     \* how far the run command is with resetting service/
    pc,          \* where a stage is
    stage,       \* what it holds
    cache,       \* orch_cache
    prUrl,       \* the runs whose row has a pull request
    failures,    \* commands failed so far
    stranded     \* commits that a failed commit_and_push left on HEAD

bookkeeping == <<started, cache, prUrl>>
faults == <<failures, stranded>>
vars == <<workspace, started, pc, stage, cache, prUrl, failures, stranded>>

-----------------------------------------------------------------------------
(* Tools                                                                   *)

Tools == {"read_file", "list_directory", "search_codebase", "run_tests", "run_linter",
          "poll_pr_status", "write_file", "create_branch", "commit_and_push", "create_pr"}

\* write_file missing from the list.
FlawedNoCacheTools == {"create_branch", "commit_and_push", "create_pr"}

NoCacheTools == {"write_file", "create_branch", "commit_and_push", "create_pr"}

Cacheable(call) == call.tool \in Tools \ NoCacheTools

Calls == UNION {Range(response) : response \in UNION Range(ResponsesOf)}

\* What a tool answers: whether it succeeded and, if it reads files, what it has
\* read, with None for what it does not look at.
Outputs == [ok : BOOLEAN, files : Snapshots \cup {None}]
Succeeded == [ok |-> TRUE, files |-> None]
Raised == [ok |-> FALSE, files |-> None]

\* Of an artifact: the feature branch it names, if it names one, and whether it
\* names a pull request, by the model's word or because the fallback opened it.
Artifacts == [branch : Branches \cup {None}, pr : {"none", "claimed", "opened"}]

NoArtifact == [branch |-> None, pr |-> "none"]

ASSUME ResponsesAssumption ==
    \A a \in Authors : ResponsesOf[a] \subseteq Seq(Calls) \ {<<>>}
ASSUME NoneAssumption == None \notin Artifacts \cup Branches

\* The model may say anything; of what other stages say nothing is used here.
FinalAnswers(a) ==
    IF a \in Implementations THEN {x \in Artifacts : x.pr # "opened"} ELSE {NoArtifact}

NewStage ==
    [iteration |-> 0, queue |-> <<>>, output |-> None, results |-> [c \in Calls |-> None],
     prompt |-> None, artifact |-> None, replayed |-> None, outcome |-> None,
     commits |-> 0, prError |-> FALSE]

Init ==
    /\ WorkspaceInit
    /\ started = [r \in Runs |-> "no"]
    /\ pc = [a \in Authors |-> "new"]
    /\ stage = [a \in Authors |-> NewStage]
    /\ cache = {}
    /\ prUrl = {}
    /\ failures = 0
    /\ stranded = 0

\* Stage a goes from one place to another.
Goes(a, from, to) == pc[a] = from /\ pc' = [pc EXCEPT ![a] = to]

\* A command that should have succeeded does not.
Fails == failures < MaxFailures /\ failures' = failures + 1

NamesBranch(a) == stage[a].artifact # None /\ stage[a].artifact.branch # None

\* The branch it was told to use, whatever its artifact names.
FlawedFeatureBranch(a) == BranchOf[a]

\* The branch of a stage's commits and of its pull request: after the loop, the
\* one its artifact names.
FeatureBranch(a) == IF NamesBranch(a) THEN stage[a].artifact.branch ELSE BranchOf[a]

PrRefused(a) == \/ ~CanOpen(FeatureBranch(a)) /\ UNCHANGED failures
                \/ Fails

-----------------------------------------------------------------------------
(* A run starts with git checkout HEAD -- service/ and git clean -fd       *)
(* service/; what they return is not looked at.                            *)

StartsWith(r, from, to) == started[r] = from /\ started' = [started EXCEPT ![r] = to]

ResetTracked(r) ==
    /\ StartsWith(r, "no", "cleaning")
    /\ CheckoutHead
    /\ UNCHANGED <<pc, stage, cache, prUrl, failures, stranded>>

RemoveUntracked(r) ==
    /\ StartsWith(r, "cleaning", "yes")
    /\ CleanUntracked
    /\ UNCHANGED <<pc, stage, cache, prUrl, failures, stranded>>

ResetFails(r) ==
    /\ StartsWith(r, "no", "cleaning") \/ StartsWith(r, "cleaning", "yes")
    /\ Fails
    /\ UNCHANGED <<workspace, pc, stage, cache, prUrl, stranded>>

-----------------------------------------------------------------------------
(* The prompt and the response cache                                       *)

\* The prompt without the files it quotes.
FlawedCacheKey(prompt) == prompt.task

CacheKey(prompt) == prompt

\* Only the implementation is told its run, to name its branch after it.
Prompt(a) ==
    [task |-> TaskOf[a],
     run |-> IF a \in Implementations THEN RunOf[a] ELSE None,
     files |-> [f \in ContextOf[TaskOf[a]] |-> tree[f]]]

\* The prompt a stage starts with, which is its key.  It is built again for every
\* answer of the model, from the files as they are then; as the model may answer
\* anything, what it was shown later is not kept.
BuildPrompt(a) ==
    /\ started[RunOf[a]] = "yes"
    /\ \A b \in After[a] : pc[b] = "done"
    /\ Goes(a, "new", "looking_up")
    /\ stage' = [stage EXCEPT ![a].prompt = Prompt(a)]
    /\ UNCHANGED <<workspace, bookkeeping, faults>>

Hit(a) ==
    /\ Goes(a, "looking_up", "saving")
    /\ \E e \in cache :
          /\ e.key = CacheKey(stage[a].prompt)
          /\ stage' = [stage EXCEPT ![a].artifact = e.artifact,
                                    ![a].replayed = e.by,
                                    ![a].outcome = "completed"]
    /\ UNCHANGED <<workspace, bookkeeping, faults>>

\* There is no entry, or there is one whose 24 hours are over.
Miss(a) ==
    /\ Goes(a, "looking_up", "asking")
    /\ UNCHANGED <<workspace, stage, bookkeeping, faults>>

KeepResponse(a) ==
    LET key == CacheKey(stage[a].prompt)
        entry == [key |-> key, artifact |-> stage[a].artifact, by |-> a]
    IN /\ Goes(a, "caching", "saving")
       /\ cache' = {e \in cache : e.key # key} \cup {entry}
       /\ stage' = [stage EXCEPT ![a].outcome = "completed"]
       /\ UNCHANGED <<workspace, started, prUrl, faults>>

-----------------------------------------------------------------------------
(* The model's answers                                                     *)

\* The iteration is not counted.
FlawedCounted(n) == n

Counted(n) == n + 1

\* One iteration too many.
FlawedMayAsk(a) == stage[a].iteration <= MaxIterations

MayAsk(a) == stage[a].iteration < MaxIterations

AnswersWithCalls(a) ==
    /\ MayAsk(a)
    /\ Goes(a, "asking", "calling")
    /\ \E response \in ResponsesOf[a] :
          stage' = [stage EXCEPT ![a].queue = response,
                                 ![a].iteration = Counted(@)]
    /\ UNCHANGED <<workspace, bookkeeping, faults>>

AnswersWithArtifact(a) ==
    /\ MayAsk(a)
    /\ Goes(a, "asking", "caching")
    /\ \E x \in FinalAnswers(a) : stage' = [stage EXCEPT ![a].artifact = x]
    /\ UNCHANGED <<workspace, bookkeeping, faults>>

\* The gateway raises, the answer is no JSON object, or the loop is over.
NoAnswer(a) ==
    /\ Goes(a, "asking", "saving")
    /\ stage' = [stage EXCEPT ![a].outcome = "failed"]
    /\ UNCHANGED <<workspace, bookkeeping, faults>>

-----------------------------------------------------------------------------
(* Tool calls                                                              *)

Call(a) == Head(stage[a].queue)

\* Stage a makes a call of this tool whose result the tool cache does not have.
Executes(a, tool) ==
    /\ pc[a] = "calling"
    /\ Call(a).tool = tool
    /\ ~(Cacheable(Call(a)) /\ stage[a].results[Call(a)] # None)

\* The call is over, from wherever it got to: its output goes to the model, and
\* to the tool cache if it is no error.
Outputting(a, output) ==
    LET kept == IF Cacheable(Call(a)) /\ output.ok
                THEN [stage[a].results EXCEPT ![Call(a)] = output]
                ELSE stage[a].results
    IN /\ stage' = [stage EXCEPT ![a].queue = Tail(@), ![a].output = output,
                                 ![a].results = kept]
       /\ pc' = [pc EXCEPT ![a] = IF Len(stage[a].queue) = 1 THEN "asking" ELSE "calling"]

AnswerFromCache(a) ==
    /\ pc[a] = "calling"
    /\ Cacheable(Call(a))
    /\ stage[a].results[Call(a)] # None
    /\ Outputting(a, stage[a].results[Call(a)])
    /\ UNCHANGED <<workspace, bookkeeping, faults>>

UnknownTool(a) ==
    /\ pc[a] = "calling"
    /\ Call(a).tool \notin Tools
    /\ Outputting(a, Raised)
    /\ UNCHANGED <<workspace, bookkeeping, faults>>

\* The arguments are no JSON object: the exception ends the stage.
ArgumentsRaise(a) ==
    /\ Goes(a, "calling", "saving")
    /\ stage' = [stage EXCEPT ![a].outcome = "failed"]
    /\ UNCHANGED <<workspace, bookkeeping, faults>>

CallWriteFile(a) ==
    /\ Executes(a, "write_file")
    /\ \/ WriteFile(a, Call(a).arg) /\ Outputting(a, Succeeded)
       \/ ~MayWrite(Call(a).arg) /\ Outputting(a, Raised) /\ UNCHANGED workspace
    /\ UNCHANGED <<bookkeeping, faults>>

ReadFile(f) ==
    IF tree[f] = None THEN Raised
    ELSE [ok |-> TRUE, files |-> [g \in Files |-> IF g = f THEN tree[f] ELSE None]]

\* The names, as if every file there were main's.
ListDirectory ==
    [ok |-> TRUE, files |-> [f \in Files |-> IF tree[f] = None THEN None ELSE "main"]]

SearchCodebase == [ok |-> TRUE, files |-> tree]
RunTests == [ok |-> TRUE, files |-> tree]
RunLinter == [ok |-> TRUE, files |-> tree]

PollPrStatus(b) == IF b \in prs THEN Succeeded ELSE Raised

CallReads(a) ==
    /\ \/ Executes(a, "read_file") /\ Outputting(a, ReadFile(Call(a).arg))
       \/ Executes(a, "list_directory") /\ Outputting(a, ListDirectory)
       \/ Executes(a, "search_codebase") /\ Outputting(a, SearchCodebase)
       \/ Executes(a, "run_linter") /\ Outputting(a, RunLinter)
       \/ Executes(a, "poll_pr_status") /\ Outputting(a, PollPrStatus(BranchOf[a]))
    /\ UNCHANGED <<workspace, bookkeeping, faults>>

\* The tests include those the stages have written.
CallRunTests(a) ==
    /\ Executes(a, "run_tests")
    /\ Outputting(a, RunTests)
    /\ UNCHANGED <<workspace, bookkeeping, faults>>

CallCreateBranch(a) ==
    /\ Executes(a, "create_branch")
    /\ \/ CreateBranch(BranchOf[a]) /\ Outputting(a, Succeeded) /\ UNCHANGED failures
       \/ Fails /\ Outputting(a, Raised) /\ UNCHANGED workspace
    /\ UNCHANGED <<bookkeeping, stranded>>

CallCreatePr(a) ==
    /\ Executes(a, "create_pr")
    /\ \/ CreatePr(BranchOf[a]) /\ Outputting(a, Succeeded) /\ UNCHANGED failures
       \/ /\ PrRefused(a)
          /\ Outputting(a, Raised)
          /\ UNCHANGED workspace
    /\ UNCHANGED <<bookkeeping, stranded>>

CallCommitAndPush(a) ==
    /\ Executes(a, "commit_and_push")
    /\ Goes(a, "calling", "adding")
    /\ UNCHANGED <<workspace, stage, bookkeeping, faults>>

-----------------------------------------------------------------------------
(* commit_and_push, which the model's tool calls and the fallback make.    *)

InFallback(a) == stage[a].artifact # None

PushSucceeds(a) ==
    \/ ~InFallback(a) /\ Outputting(a, Succeeded)
    \/ /\ InFallback(a)
       /\ pc' = [pc EXCEPT ![a] = "opening"]
       /\ UNCHANGED stage

\* The fallback's exception is recorded in the artifact.
PushFails(a) ==
    \/ ~InFallback(a) /\ Outputting(a, Raised)
    \/ /\ InFallback(a)
       /\ pc' = [pc EXCEPT ![a] = "persisting"]
       /\ stage' = [stage EXCEPT ![a].prError = TRUE]

GitAdd(a) ==
    /\ Goes(a, "adding", "committing")
    /\ Add
    /\ UNCHANGED <<stage, bookkeeping, faults>>

\* Something is staged when git diff is asked, or commit_and_push gives up.
NothingStaged(a) ==
    /\ pc[a] = "committing"
    /\ ~Staged
    /\ PushFails(a)
    /\ UNCHANGED <<workspace, bookkeeping, faults>>

GitCommit(a) ==
    /\ Goes(a, "committing", "pushing")
    /\ Commit(a, stage[a].commits)
    /\ stage' = [stage EXCEPT ![a].commits = @ + 1]
    /\ UNCHANGED <<bookkeeping, faults>>

GitPush(a) ==
    /\ Goes(a, "pushing", "resetting")
    /\ Push(FeatureBranch(a))
    /\ UNCHANGED <<stage, bookkeeping, faults>>

\* The commit is left on HEAD.
FlawedGitReset(a) ==
    /\ pc[a] = "resetting"
    /\ PushSucceeds(a)
    /\ UNCHANGED <<workspace, bookkeeping, faults>>

GitReset(a) ==
    /\ pc[a] = "resetting"
    /\ ResetMixed
    /\ PushSucceeds(a)
    /\ UNCHANGED <<bookkeeping, faults>>

\* A step of commit_and_push raises; its commit, if there is one, stays on HEAD.
CommitStays(a) == stranded' = stranded + (IF pc[a] \in {"pushing", "resetting"} THEN 1 ELSE 0)

GitFails(a) ==
    /\ pc[a] \in {"adding", "committing", "pushing", "resetting"}
    /\ Fails
    /\ CommitStays(a)
    /\ PushFails(a)
    /\ UNCHANGED <<workspace, bookkeeping>>

PushRejected(a) ==
    /\ pc[a] = "pushing"
    /\ ~FastForward(FeatureBranch(a))
    /\ CommitStays(a)
    /\ PushFails(a)
    /\ UNCHANGED <<workspace, bookkeeping, failures>>

-----------------------------------------------------------------------------
(* The node around the agent                                               *)

NeedsPr(a) ==
    /\ a \in Implementations
    /\ NamesBranch(a) /\ stage[a].artifact.pr = "none"

\* The agent returns: its tool cache and the conversation are gone.
SaveResult(a) ==
    /\ \/ /\ stage[a].outcome = "failed"
          /\ Goes(a, "saving", "done")
       \/ /\ stage[a].outcome = "completed"
          /\ Goes(a, "saving", IF NeedsPr(a) THEN "adding" ELSE "persisting")
    /\ stage' = [stage EXCEPT ![a].iteration = 0, ![a].queue = <<>>, ![a].output = None,
                              ![a].results = NewStage.results]
    /\ UNCHANGED <<workspace, bookkeeping, faults>>

\* An exception that is caught and forgotten.
FlawedPrFails(a) == Goes(a, "opening", "persisting") /\ UNCHANGED stage

PrFails(a) ==
    /\ Goes(a, "opening", "persisting")
    /\ stage' = [stage EXCEPT ![a].prError = TRUE]

\* The URL of the pull request goes into the run's row, or the exception of a
\* statement that fails is caught and forgotten.
UpdateRunPr(a) ==
    \/ prUrl' = prUrl \cup {RunOf[a]} /\ UNCHANGED failures
    \/ Fails /\ UNCHANGED prUrl

\* The row is not updated for a pull request the model claims.
FlawedHasPr(a) == NamesBranch(a) /\ stage[a].artifact.pr = "opened"

\* The model's word is taken for it.
HasPr(a) == NamesBranch(a) /\ stage[a].artifact.pr # "none"

OpenPr(a) ==
    /\ \/ /\ CreatePr(FeatureBranch(a))
          /\ Goes(a, "opening", "persisting")
          /\ stage' = [stage EXCEPT ![a].artifact.pr = "opened"]
          /\ UpdateRunPr(a)
       \/ /\ PrRefused(a)
          /\ PrFails(a)
          /\ UNCHANGED <<workspace, prUrl>>
    /\ UNCHANGED <<started, cache, stranded>>

PersistPr(a) ==
    /\ Goes(a, "persisting", "done")
    /\ \/ HasPr(a) /\ UpdateRunPr(a)
       \/ ~HasPr(a) /\ UNCHANGED <<prUrl, failures>>
    /\ UNCHANGED <<workspace, stage, started, cache, stranded>>

-----------------------------------------------------------------------------

Git(a) ==
    \/ GitAdd(a) \/ NothingStaged(a) \/ GitCommit(a) \/ GitPush(a) \/ GitReset(a)
    \/ GitFails(a) \/ PushRejected(a)

\* Every step that comes back by itself: not the tests, which have no timeout.
ReturningStep(a) ==
    \/ BuildPrompt(a) \/ Hit(a) \/ Miss(a) \/ KeepResponse(a)
    \/ AnswersWithCalls(a) \/ AnswersWithArtifact(a) \/ NoAnswer(a)
    \/ AnswerFromCache(a) \/ UnknownTool(a) \/ CallWriteFile(a) \/ CallReads(a)
    \/ CallCreateBranch(a) \/ CallCreatePr(a) \/ CallCommitAndPush(a)
    \/ Git(a)
    \/ SaveResult(a) \/ OpenPr(a) \/ PersistPr(a)

StageStep(a) == ReturningStep(a) \/ CallRunTests(a) \/ ArgumentsRaise(a)

StartStep(r) == ResetTracked(r) \/ RemoveUntracked(r) \/ ResetFails(r)

Next ==
    \/ \E r \in Runs : StartStep(r)
    \/ \E a \in Authors : StageStep(a)

Spec == Init /\ [][Next]_vars

\* A started command goes on, and so does a stage while its calls return: git
\* comes back, the gateway answers or gives up.  A test run need not.
Fairness ==
    /\ \A r \in Runs : WF_vars(StartStep(r))
    /\ \A a \in Authors : WF_vars(ReturningStep(a))

FairSpec == Spec /\ Fairness

-----------------------------------------------------------------------------
(* Properties                                                              *)

InGit == {a \in Authors : pc[a] \in {"pushing", "resetting"}}

\* Types of every variable, across the whole stage loop.
TypeOK ==
    /\ WorkspaceTypeOK
    /\ started \in [Runs -> {"no", "cleaning", "yes"}]
    /\ pc \in [Authors -> {"new", "looking_up", "asking", "caching", "calling", "adding",
                           "committing", "pushing", "resetting", "saving", "opening",
                           "persisting", "done"}]
    /\ \A a \in Authors :
          /\ stage[a].iteration \in 0 .. MaxIterations
          /\ stage[a].output \in Outputs \cup {None}
          /\ stage[a].artifact \in Artifacts \cup {None}
          /\ stage[a].replayed \in Authors \cup {None}
          /\ stage[a].outcome \in {"completed", "failed", None}
          /\ pc[a] = "calling" => stage[a].queue # <<>>
    /\ prUrl \subseteq Runs
    /\ failures \in 0 .. MaxFailures
    /\ stranded \in Nat

\* HEAD is main's tip plus one commit for every commit_and_push that has
\* committed and not yet reset, or failed before it could (commit_and_push's
\* reset --mixed HEAD~1): no interleaving of stages resets main's tip away or
\* leaves a commit nobody failed on.
HeadAccounted ==
    /\ head[1] = MainTip
    /\ Len(head) = 1 + Cardinality(InGit) + stranded

\* What a remote branch has is never taken back or rewritten, whoever pushes
\* HEAD to it and however many commits HEAD has piled up (git push HEAD:refs/...).
RemoteOnlyGrows ==
    [][\A b \in Branches : IsAncestor(remote[b], remote'[b])]_vars

\* The files change only when a stage writes one of them or a run command resets
\* them: the commits and resets of one stage never undo what another has
\* written (the comment on reset --mixed says so, github_client.py:180-183; step 5
\* of the docstring of commit_and_push, 118-119, says they are restored).
FilesChangeByWriting ==
    [][tree' # tree => \/ \E r \in Runs : started'[r] # started[r]
                       \/ \E a \in Authors :
                             /\ pc[a] = "calling"
                             /\ Call(a).tool = "write_file"
                             /\ tree' = [tree EXCEPT ![Call(a).arg] = a]]_vars

\* The original test suites are main's in the checkout and in every commit made
\* or pushed, whatever the stages write (_READONLY_PATHS).
OriginalTestsKept ==
    \A f \in ReadOnly \cap Tracked :
        /\ tree[f] = "main"
        /\ \A i \in 1 .. Len(head) : head[i].files[f] = "main"
        /\ \A b \in Branches : \A i \in 1 .. Len(remote[b]) : remote[b][i].files[f] = "main"

\* A stage that completes from the response cache takes the artifact of one that
\* completed by itself and started from the same prompt, the files it quotes and an
\* implementation's run included (_prompt_cache_key, cache.set only after the loop).
\* What the files were later, while that stage was at work, is not in the key.
ReplaysFit ==
    \A a \in Authors :
        LET by == stage[a].replayed
        IN by # None =>
              /\ stage[by].prompt = stage[a].prompt
              /\ stage[by].outcome = "completed" /\ stage[by].replayed = None

\* A write_file that reports success has written: it is never answered from the
\* tool cache after another stage has changed the file (_NO_CACHE_TOOLS).
WritesTakeEffect ==
    [][\A a \in Authors :
          LET written == Call(a).arg
          IN /\ pc[a] = "calling" /\ pc'[a] # "adding"
             /\ Call(a).tool = "write_file"
             /\ stage'[a].queue # stage[a].queue
             /\ stage'[a].output.ok
             => tree'[written] = a]_vars

\* A completed implementation that names a branch has a pull request of that branch,
\* or says why not, or the model has claimed one (which nobody verifies); and unless
\* something failed on the way, the run's row has the one it names (make_stage_node).
PrAccounted ==
    \A a \in Implementations :
        pc[a] = "done" /\ stage[a].outcome = "completed" /\ NamesBranch(a) =>
            /\ \/ stage[a].artifact.pr = "claimed"
               \/ stage[a].artifact.pr = "opened" /\ stage[a].artifact.branch \in prs
               \/ stage[a].prError
            /\ stage[a].artifact.pr # "none" /\ failures = 0 => RunOf[a] \in prUrl

\* Stage a waits for a test run.
Testing(a) == pc[a] = "calling" /\ Call(a).tool = "run_tests"

\* Every stage of every run ends, however the model answers (MAX_TOOL_ITERATIONS), but
\* for one whose tests do not end (run_tests has no timeout) and those after it.
EveryStageEnds ==
    <>[](\A a \in Authors : \/ pc[a] = "done"
                            \/ Testing(a)
                            \/ \E b \in After[a] : pc[b] # "done")

\* What run_tests tells a stage is about the files as they are: "results reflect
\* the actual filesystem state at call time" (test_runner.py).
TestsReflectFiles ==
    [][\A a \in Authors :
          /\ pc[a] = "calling" /\ pc'[a] # "adding"
          /\ Call(a).tool = "run_tests"
          /\ stage'[a].queue # stage[a].queue
          => stage'[a].output.files = tree]_vars

=============================================================================
