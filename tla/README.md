# url-copilot: specifications, model checking and proofs

The repository holds two programs: **`orchestrator/`**, a command-line tool that
drives an AI development pipeline through human approval gates (a LangGraph
graph whose checkpoints are in PostgreSQL), and **`service/`**, the FastAPI URL
shortener the pipeline works on.  This directory specifies them in TLA+.  Source
paths below are relative to `src/`.

| Module | What it is |
|---|---|
| `Pipeline` | the stage graph all scenarios compile, and the permission of each gate |
| `Rbac` | roles, inheritance, users (constants for the model checker) |
| `RunLifecycle` | one run, as overlapping and dying CLI processes drive it; composed with the graph's execution |
| `GateContract` | what `docs/GATES.md` promises of a run; `RunLifecycle` implements it |
| `RunLifecycleProofs` | theorems about `RunLifecycle` for all constants |
| `SequentialProofs` | more of them, for commands that do not overlap |
| `ContractProofs` | and more, for commands that neither overlap nor die: `RunLifecycle` implements `GateContract` |
| `MCRunLifecycle` | the real graph and role table with three users; 6 configurations |
| `ShortLinks` | concurrent requests of the shortener on one table, statement by statement |
| `ShortLinksProofs` | theorems about `ShortLinks` for all constants |
| `MCShortLinks` | small instance with symmetry; 2 configurations |
| `Accounts` | users, API keys and request windows under concurrent requests that may die |
| `AccountsProofs` | theorems about `Accounts` for all constants |
| `MCAccounts` | small instance; 1 configuration |
| `Workspace` | the checkout, git and GitHub as operators |
| `StageAgent` | stages of several runs at work in one `Workspace`: agent loop, tools, caches, pull request |
| `StageAgentProofs` | theorems about `StageAgent` for all constants |
| `MCStageAgent` | three stages of two runs; 2 configurations |
| `Gateway` | `AIGateway.call` by concurrent threads of several processes |
| `GatewayProofs` | theorems about `Gateway`, whoever calls it |
| `Planning` | the run command up to its stages, composed with `Gateway` |
| `PlanningProofs` | theorems about the composition |
| `MCPlanning` | two runs, three threads, one user; 1 configuration |

`PROJECT.json` relates every definition that models code to its lines.

## 1. Inventory

### 1.1 Orchestrator

| Component | State | Operations | What makes it correct |
|---|---|---|---|
| Run lifecycle and gates (`run.py`, `core/engine.py`, `state/store.py`, `scenarios/nodes.py`) | `orch_runs` row, `orch_stage_results`, the LangGraph checkpoint with its pending writes and interrupts, the processes' memory | `run`, `approve` (yes, no, Ctrl-C), nodes, gates, status updates, process death | gates are passed by authorised others; nothing runs early, or again; the row tells the truth; a rejected run stops; an approval moves the run |
| Stage graph (`scenarios/`, `core/state.py`) | the compiled graph | superstep execution with two fan-outs, two joins and one conditional edge | joins wait; every path passes the mandatory gates |
| Users and roles (`gateway/auth.py`, `governance/checkpoint.py`, `config/*.yaml`) | YAML tables | token resolution, permission expansion, `request_approval` | inherited permissions, four eyes |
| Audit log (`governance/audit.py`) | append-only events | insert, query | gates reached and approvals are recorded |
| Planner, classifier, clarification (`planner/`) | none of its own | three LLM calls, a prompt loop of bounded rounds | the row exists before anything that can fail |
| Stage agent, tool registry, tool cache (`agents/`, `tools/`, `cache/tool_cache.py`) | conversation, cached tool results, the working tree | bounded tool loop, `write_file`, `run_tests`, ... | what is reported as tested is what was written; replayed artifacts fit; every stage ends |
| Branches and pull requests (`tools/github_client.py`) | git branch, index, remote, PR | `create_branch`, `commit_and_push`, `create_pr` | HEAD holds what is in progress or failed, the remote only grows, files are not undone, a named branch has a pull request, a claim or a reason |
| LLM gateway (`gateway/`) | usage per run and user, request windows, costs, traces | the steps of `call` | the overrun of a budget is bounded under concurrent stages; what is paid is accounted for; calls end |
| Response cache, memory (`cache/response_cache.py`, `memory/`) | cached answers with expiry, seeded memory rows | get, set, seed | an artifact is replayed for the prompt it was worked out from; no seed twice, none missing but for an unfinished seeding |
| Evaluator (`evaluator/`) | - | not wired into the CLI | - |
| Metrics, prompts, logging | - | read-only or text | - |

### 1.2 Service

| Component | State | Operations | What makes it correct |
|---|---|---|---|
| Short links (`services/url_service.py`, `api/v1/endpoints/redirect.py`, `urls.py`, `services/analytics_service.py`) | `short_urls`, `click_events`, a session per request | create, update, soft delete, follow, count clicks | a code leads to one link for ever; deletions and updates are not undone; analytics never block a redirect |
| Accounts and keys (`services/auth_service.py`, `api/deps.py`) | `users`, `api_keys` | register, rotate, authenticate | unique emails, every user has an active key, a key rotated away is dead |
| Request rate (`core/rate_limiter.py`) | a Redis counter with an expiry per key | INCR, EXPIRE | no window over its limit |
| Schema, settings, wiring | - | - | - |

### 1.3 How the parts interact

A `run` or `approve` command is an operating-system process.  Commands share
nothing but PostgreSQL and the working tree: the row and the checkpoint are
written by different code in different transactions, and the row is what an
approval is checked against while the checkpoint is what is resumed.  The graph
calls node functions; a stage node calls its agent, the agent the gateway, tools
and caches; nodes of one superstep run in threads.  The service handles each
request in a thread with a database session of its own; the only shared state is
PostgreSQL (READ COMMITTED) and Redis.  The orchestrator touches the service
only as files.

### 1.4 What is hard

`PROJECT.json` lists the hazards, at their lines.  The main ones:

- *Stale decisions*: authority is checked for the gate the row names, before a
  human prompt of any length, and the graph then resumes from the latest
  checkpoint, which may wait elsewhere.
- *Crashes between two commits*: of a stage's result and its completion, of the
  graph's pause and the row's update, of the row's creation and its first update.
- *Overlapping commands*: two reviewers open the same gate; both continue one
  checkpoint, each storing checkpoints of its own; unconditional status updates; a
  snapshot read while another command is between the last write of a superstep and the
  next checkpoint.
- *Check-then-act in the service*: free codes, counters, rows loaded before
  another request changed or deleted them.
- *Half-done work*: an event without its counter, a failed flush that leaves a
  session unusable, a local commit without its push, an output paid for and
  not recorded, a commit whose answer is lost, a memory with some of its seeds.
- *Words taken at face value*: what the model says it has done, a cached result, a
  pull request a row does not have because its update failed in silence.

## 2. Plan

1. **Run lifecycle** with graph, roles and gate contract; its proofs. *Done.*
2. **Short links**, with proofs. *Done.*
3. **Stages and checkout** (`StageAgent` on `Workspace`), with proofs. *Done.*
4. **Gateway and planning** (`Planning` on `Gateway`), with proofs of each and of
   the composition. *Done.*
5. **Accounts**, with proofs. *Done.*
6. Proofs about sequential executions of `RunLifecycle` (`SequentialProofs`).
   *Done.*
7. The refinement of `GateContract` as a theorem, with what the row tells
   (`ContractProofs`); the action properties of `ShortLinks`; `PrAccounted` of
   `StageAgent`; the sum in `SpendAccounted`.  *Done.*
8. Left: facts about the permissions that roles inherit (`Rbac`, with the smallest
   counterexamples of `PlanningProofs`); what remains of the gate contract when
   commands die but do not overlap.  Liveness stays with TLC.

Modules that theorems are about declare no RECURSIVE operator (`Rbac` uses a
recursive function) and name the assumptions on their constants.

## 3. The run lifecycle (`RunLifecycle`)

### State and actions

`status`, `submitter`, `reviewedBy` are columns of the `orch_runs` row (a gate
`g` stands for the status `awaiting:g`); `results`, `reached`, `approvals` are
stage results and gate events; `ckpt`, `writes`, `interrupted` are the latest
checkpoint, its pending writes and interrupts.  `pc`, `seen`, `graph`, `outcome`
are the memory of each user's process, lost when it ends or dies.  `current` says
which processes continue the latest checkpoint: the pending writes of any other
belong to an older checkpoint, which nobody loads again.

| Code | Actions |
|---|---|
| `handle_run`: `planner.plan`, `engine.run` | `CreateRun`, `StartGraph` |
| `handle_approve` to the prompt | `OpenReview` (guard: gate in the row, `MayApprove`) |
| its answers: Ctrl-C, no, yes | `AbortReview`, `Reject`, `Resume` |
| `make_stage_node` | `RunStage` (a result of either kind, and on it goes) |
| `make_gate_node` without and with a resume value | `ReachGate`, `PassGate` |
| LangGraph's superstep | `Completes`, `Advance` |
| `get_state`, then the status update | `ReadState` (`SnapshotStatus`), `ReportStatus`, `ReportCompleted` |
| process death or an exception | `Crash`, `CrashAfterNode` |

LangGraph is external; it is modelled as `engine.py` uses it: nodes of a
superstep in any order; the completion of each stored as a pending write; the
checkpoint stored when all have completed; an interrupted node runs again from
its start on resumption; the resume value holds for the first superstep only;
the stored latest checkpoint wins; a snapshot's `next` names the scheduled nodes that
have no pending write yet (`SnapshotNext`), so that it is empty at the end and also
between the last write of a superstep and the checkpoint after it.  A gate is alone in its superstep.  The
work of a stage is one step with two outcomes (agent, tools and gateway have
modules of their own); `CrashAfterNode` splits it where its two commits
are apart.  Commands that are denied, find nothing or do nothing change no state
and are no steps.  There is one run: what several runs share, the checkout and a
user's budget, is in `StageAgent` and `Planning`.
A user has one command in flight.  `schema_change_detected` is `False`
initially and never set, so the schema gate is never reached; the proofs allow
any edges.

### Runs

All runs use the real graph, permissions and three users (submitter without
authority, one with half of it, one with all of it).  Only `implementation` may
fail: a failure has the same effect on the control of any stage.

| Run | Bounds | Shows |
|---|---|---|
| `concurrent` | commands overlap, 1 dies; 1.09 million states | `TypeOK`, `FourEyes`, `NothingRunsEarly`, `ReviewHasEvidence` hold of every execution |
| `sequential` | one command at a time, none dies; 426 states | `AuthorisedApprovals`, `RowMatchesGraph`, `RejectedRunIsStopped`, `ApprovalMovesRun` (liveness), and the refinement `ContractSpec` |
| `crashes` | one command at a time, 2 die; 9487 states | `NothingRunsTwice`, `CompletedRunPassedGates`, `CheckpointNeverGoesBack` |
| `stale_gate` | one at a time, 1 dies | `AuthorisedApprovals` is violated |
| `early_completion` | overlap, none dies | `CompletedRunPassedGates` is violated |
| `abandoned` | one at a time, 1 dies | `AbandonedRunCanContinue` is violated |

Three users are enough: a submitter and two reviewers of different authority
give each pair of overlapping commands, and nothing in the code depends on more.
One crash in `concurrent` reaches each gap between two commits while another
process runs; two in `crashes` let the recovery itself die.  The properties are
split over runs by what they need.  When commands overlap, four eyes and the order of
the stages are what is left: a stage may run twice, the checkpoint go back, a
rejection be written over, and a run be completed short of its gates.
`docs/ENGINEERING_SUMMARY.md:114` takes one operator at a time for granted, so
`sequential` and `crashes` check the rest on that assumption, and `early_completion` shows
what the gates' promise comes to without it.

`CHECK_DEADLOCK FALSE`: a completed or rejected run has nothing more to do.

Fairness (`FairSpec`, for `ApprovalMovesRun` only): weak fairness of a process's steps
between the stages (`ProcessStep`), the operating system's scheduling.  There is none of
people, who need not open a review or answer a prompt, the feedback prompt before
`ReportCompleted` included (a blocking `input()`, `run.py:809`), and none of stages, which
may run tests without an end.  `ApprovalMovesRun` names these two as the only ways
for an approved gate to stay in the row.

`GateContract` is refined with `phase` computed from row and audit events (the
run works from the moment an approval is recorded until the row names another
gate), `gate` from the row and `passed` from the approvals.  The contract leaves the order
of the gates open: the table in `docs/GATES.md` has `tests_gate` after `documentation` and
`pr_gate` right after it, the graph (`greenfield.py:119-122`) has `documentation` between
the two, and the modules follow the graph.

### Proofs (`RunLifecycleProofs`)

For every set of users, permission table, stage graph and bound, `Overlap` true
or false:  `TypeCorrect`, `FourEyesHolds`, `NothingEverRunsEarly`,
`ReviewsHaveEvidence`.  Assumed of the constants
(`TopologyAssumption`, `UserAssumption`, `BoundAssumption`, evaluated by TLC on
the real graph): stages and gates are disjoint, gates are no other status, edges
join nodes, the entry is a stage, and a set of nodes closed under the edges from
the entry contains the mandatory gates.

The inductive invariant `IInv` has, beside types, three parts.

- `AuthorityInv`: whoever holds a resume value or reviews is not the submitter,
  and before the row exists nothing has happened.  `FourEyes` alone is not
  inductive: `PassGate` checks nothing itself.
- `OrderInv`: what any process takes for completed has run, what it has
  scheduled has run sources, a gate that is named anywhere has been reached.
  `NothingRunsEarly` needs it because a process works on its own, possibly
  outdated, copy of the graph; since results and approvals only grow, a copy is
  never ahead of them.
- `NoNodeForgotten`: no process, and no checkpoint, forgets a node that is due
  (`Pursued`), so a graph with nothing scheduled is closed under its edges and thus, by
  the topology assumption, has passed the mandatory gates.  That is all the
  completion of a run can rest on, and with overlaps it is not enough, since an empty
  `SnapshotNext` need not mean that nothing is scheduled.

Each part has a lemma with one step per action of `Next`; `Inductive` puts them
together.

`SequentialProofs` assumes `Overlap = FALSE` and any number of crashes:
`CompletionIsGated`, `RejectedRunsStop`, `RejectionStays`, `CheckpointOnlyGrows`,
`NothingEverRunsTwice`.  `SeqInv` adds
that at most one process is at work (`OneCommand`), that it has the latest
checkpoint with its pending writes (`GraphIsLatest`), that an unstarted graph has
no checkpoint, that a rejected run has no process, and that a process which has stopped
sees the end of the graph or a scheduled node without a pending write (`StopsAtRest`):
there is no other command whose writes could be pending.  From that and
`NoNodeForgotten` an outcome `completed`, in a process or in the row, is earned
(`CompletionIsEarned`), which is `CompletionIsGated`.  `NothingEverRunsTwice`
needs of the graph that within the nodes a run can reach each is the target of
one edge and the entry of none (`TriggeredOnceIn`); `MCRunLifecycle` has TLC
evaluate that for the real pipeline, where the schema gate and what only it leads
to are outside that set.  `TriggerInv` then keeps completed and scheduled nodes of
the checkpoint disjoint: a node is triggered again only if a source of its edge
is completed a second time.  `RejectionStays` (`RejectionIsFinal`) holds for the same
reason a rejected run stops: `SeqInv` leaves no process that could still write.

`ContractProofs` assumes in addition `MaxCrashes = 0`: `ApprovalsAreAuthorised`,
`RowTellsTheGraph`, `NoRunIsAbandoned` and `RunImplementsContract`.  The runs
`stale_gate`, `early_completion` and `abandoned` show that none of this holds without these
hypotheses; with them it holds for all users, permissions and graphs.  Of the graph they
need that a gate is scheduled alone: there is a set `C` of checkpoints that is
closed under the completion of a superstep, starts with the entry and in which a
gate shares no superstep (`GatesAloneIn(C)`).  `C` is any such set, so no
enumeration of the reachable checkpoints is needed in the proof; `MCRunLifecycle` has TLC
evaluate it for the checkpoints of the real pipeline (`PipelineGatesAlone`).  The refinement
needs a mandatory gate besides: without one a run would be complete that was
never reviewed, which the contract does not allow.

`ContractInv(C)` is the invariant, checked by TLC on the `sequential` instance before it was
proved.  The property that row and checkpoint agree is broken during every command,
so it says for each place a process can be at how far they are apart: nothing
between commands (`RowSettled`, `WaitsAt`), an approved gate that the row still names
while the approving process executes (`WorkInv`, `ExecInv`), a graph that has
stopped and of which the process alone knows where (`StopInv`), an outcome read and
not yet written (`ReportInv`).  `AuthorisedApprovals` is inductive only with it: a
review checks authority for the gate in the row, and `ReviewInv` keeps that the gate
the checkpoint waits at until the answer.  For the refinement each action of the run
is a step of the contract (`CreateRun`, `Reject`, `PassGate`, `ReportStatus`,
`ReportCompleted`) or a stutter.

## 4. Short links (`ShortLinks`)

### State and actions

`rows` and `events` are the tables (the number of click events per link is what
matters of them).  A request has a `pc`, the `link` it found, the row as its
session has it (`loaded`), the code it chose, its attempts and its answer.  A
step is one statement with the commit that follows it: everything another
request's statement may come between is a separate step.

| Code | Actions |
|---|---|
| `shorten_url`, with an alias or without | `ShortenUrl`: `CheckAlias`, `PickCode` (lookup); `Insert` (unique index: `MayInsert`) |
| `get_url`, `list_urls` | `GetUrl`: `Show` or `FindNothing`; `ListUrls` |
| `update_url`, `delete_url` | `UpdateUrl`, `DeleteUrl`: `FindToChange` or `FindNothing`; `SaveUpdate`, `SaveDeletion` |
| `redirect` | `Redirect`: `Follow`, `RecordClick`, `LoadCount`, `StoreCount`, `Send` |
| a failing analytics statement | `AnalyticsFails` |
| the clock | `TimePasses` |

Assumed of SQLAlchemy: a commit expires loaded attributes, so `click_count += 1`
reads (`LoadCount`) before it writes (`StoreCount`) and the redirect reads
`original_url` again; a flush writes the attributes that changed and no others;
after a failed statement the session refuses statements until rolled back.
Dates are reduced to never, later, past.  Authentication is in `Accounts`; a
link that is another user's is one that `FindNothing` does not find.  The
aggregating reads (statistics, QR code) are left out.  Database failures are modelled only where the
code catches them; elsewhere they end the request with an error and no effect.

### Runs

| Run | Bounds | Shows |
|---|---|---|
| `requests` | 4 requests, 2 codes, 2 destinations, 2 attempts; 87 thousand states up to symmetry | `TypeOK`, `CodesStayUnique`, `ClicksAreRecorded`, `DeletedStaysDeleted`, `OnlyUpdatesRedirect` |
| `analytics` | 2 requests | `RedirectSurvivesAnalytics` is violated |

Four requests let one create a link and three others interleave on it (update,
delete, click; or two clicks and an update), or two create and two act; two codes make taken
codes, exhausted attempts and insert conflicts happen.  Requests are made once,
so behaviours end: the step `Finished` is the end, and any other standstill is
reported as a deadlock.  Symmetry of requests, codes and destinations is sound, as no
definition chooses among them and no liveness is checked.

### Proofs (`ShortLinksProofs`)

For any finite set of requests, any codes, destinations and `MaxAttempts`:
`TypesHold`, `CodesAreUnique`, `ClicksNeverRunAhead`, `DeletionIsFinal`,
`OnlyUpdatesMoveLinks`.

`ClicksAreRecorded` (clicks <= events) is not inductive: a request that has read
the counter writes it much later.  `CountInv` says that clicks *plus the number of
requests that have recorded a click on the link and may still count it*
(`Counting`) never exceed the events, of the stored counter and of every counter
some session has read.  Recording adds one to both sides; counting replaces one
pending request by one click, whatever older value it was computed from.
`SessionInv` supplies that a request past its lookup holds a stored link.

`DeletionIsFinal` and `OnlyUpdatesMoveLinks` are about what a step does with a link that
was loaded before another request changed it.  `LinkStep` goes over the actions:
each writes the columns that it changes and no others, so that no stale copy is
written back.

## 5. Accounts (`Accounts`)

### State and actions

`users` and `keys` are the committed rows, `count`, `expires` and `window` the
Redis counter of each key.  A user or key is named by the request that created it.
Each request makes one call, one statement with its commit at a time; what a
transaction has written becomes visible at the commit, and others wait for its
index entries (`Claimed`) and rows (`Locked`) until then.

| Code | Actions |
|---|---|
| `register_user`: lookup, flush, first key with the commit; refresh and response | `CheckEmail`; `InsertUser` (409 before, 500 at the index), `CreateFirstKey`; `AnswerRegistration` |
| `check_rate_limit`, `is_rate_limited`: INCR, then EXPIRE | `CountRequest`, `SetExpiry` |
| the 60 seconds of a counter | `WindowEnds` |
| `get_current_user`: lookup, stamp of `last_used_at` | `AskToRotate` (uncounted), `FindKey`, `StampKey` |
| `rotate_api_key`: rows found, rows changed, new key with the commit; response | `FindActiveKeys`, `DeactivateKeys`, `IssueKey`; `AnswerRotation` |
| process or connection lost | `Die` (an open transaction is rolled back, a committed one stays; Redis keeps what it has) |

An UPDATE finds its rows, waits for the transactions that have changed them, and
looks again at those rows only: keys inserted meanwhile are not seen, so two
overlapping rotations leave two active keys.  The docstring of `rotate_api_key`
(`auth_service.py:75`) speaks of all existing keys; `RotatedAwayIsDead` says it of the one
the rotation was asked with, which is what the code keeps.  The service never
deactivates users.

The response is a step of its own after the commit, and the only place that shows the
raw key.  A request that dies between the two leaves an active key nobody has, and for a
registration a taken email: `ActiveKeyRemains` speaks of the rows and does not exclude
that, nor does anything in the code.

### Run `accounts`

Four requests, two emails, limit 1, two windows; requests may die with a
transaction open or between their commit and their answer; 1.07 million states.  Four
requests are a registration and three that use or rotate its key, or two registrations and
two rotations: every pair of transactions that can wait for each other while a
third looks.  Limit 1 makes a second request of a window the one too many.
`BadKeys` is empty: a key that was never issued cannot reach a row.

Shown: `EmailsStayUnique`, `ActiveKeyRemains`, `RotatedAwayIsDead`,
`KeysChangeByTheirOwner`, `AtMostLimitPerWindow`, and
`EveryRequestEnds` under weak fairness of each request's own steps (threads run,
PostgreSQL grants a lock when its holder is done): again and again all requests made are
answered.  A request that dies is over; nobody need make one.  `CHECK_DEADLOCK FALSE`:
each request is made once.

`CountRequest` (INCR) and `SetExpiry` (EXPIRE) are two steps, between which the module lets
a request die: the counter then never expires, against `rate_limiter.py:26`, which calls
the pair atomic (section 8).  No property is stated of the end of a window; the run
leaves these deaths out, since none of its properties is about them, and the proofs
allow them.

### Proofs (`AccountsProofs`)

All of these but `EveryRequestEnds`, for any finite set of requests, any emails,
keys never issued, limit and windows, and deaths at any step.

- `RegistrationInv`: of the open transactions that have inserted a user no two
  have the same email, and none has one that is taken.  The lookup of
  `register_user` does not appear in it: the index is enough.
- `KeyInv`: what a request has found stays true of the rows it has found: a key
  keeps its user, and the key it was asked with is among its targets or dead.
  `LookingStep` covers the steps that write no row, `WritingStep` the three that
  do.  `ActiveKeyRemains` follows since a rotation takes keys of one user only and
  leaves that user the new one.
- `CountInv`: those let through in the current window are at most its counter, and
  later windows have let nobody through.

## 6. Stages in one checkout (`StageAgent`, `Workspace`)

### State and actions

`Workspace` has `tree` (who wrote each file under `service/`), `index`, `head` (the
commits of the local branch), `remote` and `prs`; its operators are git and GitHub
as `github_client.py` and `run.py` call them.  `StageAgent` has the stages: place,
prompt, queue of tool calls, cached results, artifact; the response cache; how far
each run's reset of `service/` is.

| Code | Actions |
|---|---|
| `handle_run`: `git checkout HEAD -- service/`, `git clean` (results not looked at) | `ResetTracked`, `RemoveUntracked`, `ResetFails` |
| `StageAgent.run`: prompt, cache, loop | `BuildPrompt`, `Hit`, `Miss`, `AnswersWithCalls`, `AnswersWithArtifact`, `NoAnswer`, `KeepResponse` |
| arguments that are no JSON object (`stage_agent.py:203`) | `ArgumentsRaise` |
| `ToolRegistry.execute` | `AnswerFromCache`, `UnknownTool`, `CallWriteFile`, `CallReads`, `CallRunTests`, `CallCreateBranch`, `CallCreatePr`, `CallCommitAndPush` |
| `commit_and_push`: add, diff, commit, push, reset | `GitAdd`, `NothingStaged`, `GitCommit`, `GitPush`, `GitReset`, `PushRejected`, `GitFails` |
| `make_stage_node`: result, fallback, pull request column | `SaveResult`, `OpenPr`, `PersistPr`, with `UpdateRunPr`, which may fail in silence |

Of a file only its writer matters.  `list_directory` tells which files there are,
`search_codebase`, tests and linter are told everything.  `requirements.txt`, which the
tools may write too, is outside the model.

A stage builds its prompt before it looks into the cache, and again for every answer of the
model with the files as they are then (`stage_agent.py:164-168`); the cache key is that of
the first (133-138).  `Prompt` is what is in the key: the task, the context files, read in
one step, and for an implementation its run, after which its branch is
named (`builder.py:256-264`) - an implementation is never replayed in another run.  The
prompts built later are not kept: the model may answer anything to any prompt.

The model's tool calls are any of a small set of lists.  Its artifact names any branch
or none, and claims a pull request or not, whatever there is on GitHub
(`FinalAnswers`): `nodes.py:148` and 171 believe it.  An artifact holds the branch it
names, and after the loop that is the branch the node pushes and opens a pull request
for (`FeatureBranch`).  `UpdateRunPr` writes the row or not: `_persist_pr` drops every
exception (`nodes.py:312`).  `stranded` counts the commits that failed
calls have left on HEAD and is only looked at by `HeadAccounted`.

### Runs

`stages`: run r1 has a requirements stage (`q1`) and then its implementation (`i1`); run r2
of the same requirement has a requirements stage (`q2`) with `q1`'s task; one
tracked source file, one new file, one original test suite; two iterations; one command
or update of a row that fails anywhere; 615 thousand states.  That is enough for two
interleaved `commit_and_push` of two branches or of one, a commit stranded and taken
along, a write between two equal writes, a replay in either direction between the two
requirements stages, with files changed between the first prompt and the last, an
implementation that names the other run's branch or a pull request that is not there, and
each way through the fallback.  Shown: `HeadAccounted`, `RemoteOnlyGrows`,
`FilesChangeByWriting`, `OriginalTestsKept`, `ReplaysFit`, `WritesTakeEffect`,
`PrAccounted`, `EveryStageEnds`.

`ReplaysFit` says that a stage replays the artifact of one that completed by
itself and started from the same prompt.  It does not say that the artifact fits
the files as they are quoted there: they may have changed while that stage was at work.
`PrAccounted` says of an implementation that names a branch that there is a pull
request of it, an error, or the model's claim; and that the row has the one the artifact
names if nothing has failed.  `FilesChangeByWriting` allows the loss it is next to: a new
run's reset removes what the stages of another have written (`run.py:189`).

Fairness: each command and stage goes on (`ReturningStep`): git and GitHub's client come
back, the gateway answers or gives up (`EveryPlanEnds`).  There is none of
`run_tests`: it has no timeout (`test_runner.py:46-54`) and runs tests the model has
written.  `EveryStageEnds` therefore lets a stage stay in a test run, and the stages after
it wait.

`stale_tests`, on the same instance: `TestsReflectFiles` is violated.

`CHECK_DEADLOCK FALSE`: the stages come to an end.

### Proofs (`StageAgentProofs`)

For any finite set of stages, any runs, files, branches, prompts, answers of the model
and failures, assuming that an answer with calls has at least one
(`ResponsesAssumption`) and that `None` is none of the values it stands beside:

- `HeadAccounted` and the types are inductive only together: `reset --mixed HEAD~1`
  leaves a commit on HEAD because there is more than main's tip there, which is
  `HeadAccounted`; how its count of the stages between commit and reset changes
  needs the types.  `TypeInv` adds to `TypeOK` what the stages hold and that a stage
  in `commit_and_push` has either a call left or its artifact.  Most steps are
  `Quiet`: they leave HEAD alone and enter or leave no such stretch.
- `WorkspaceStep` says what all steps of all stages and runs are to the
  checkout: one of the commands.  `RemoteOnlyGrows` and `OriginalTestsKept` follow
  from it alone, the latter with the same said of the index, from which commits
  are made.
- `FilesChangeByWriting` and `WritesTakeEffect` go over the steps that write, and
  over those that answer a `write_file`: it is not in the tool cache.
- `ReplaysFit` rests on `Sourced`: every entry of the response cache, and every
  replay, goes back to a stage that is `Finished`, whose first prompt is the entry's key;
  the prompt, artifact and outcome of a finished stage no longer change, even in
  `commit_and_push`, since it holds an artifact and is in the fallback.
- `PrAccounted` is proved with `PromiseInv`, which TLC checked on `stages` first.
  `OpenedReal`: a pull request the fallback has opened, in a stage's artifact or in one the
  cache holds, is on GitHub for the branch the artifact names.  Nothing is said of a claimed
  one.  `Reported`: a stage that has ended names a pull request or has an error, and its
  run's row has the one it names unless something failed.  `Promised`: a stage on its way
  through the fallback still has what that needs, an artifact with a branch
  (`NamesBranch`).

## 7. Gateway and planning (`Gateway`, `Planning`)

### State and actions

`Gateway`: per thread the step of `call`, its outcome, retries and tokens; per
process the rate limiter's window and the open spans; the rows of `orch_runs` and
the tokens recorded for each user in `orch_metrics`; what was really paid.  A row is
dated by the transaction it is inserted in, which the check of the budget has begun: a call
that spans midnight counts for the day before (`OfEarlierDay`).

| Code | Actions |
|---|---|
| `call`: auth and RBAC; budget; rate limit read, written | `Enter`; `CheckBudget`; `CheckWindow`, `NoteCall` |
| validation, guardrails, span | `Validate` |
| the API and its retries | `WaitOut`, `Retry`, `SendFails`, `Answer` |
| output guardrails, cost row | `CheckOutput`, `Record` |
| the day changes (UTC) | `Midnight` |

`Planning` adds the run command: `CountMemory` (once), `SaveSeed` (a commit each),
`DieSeeding`; `Refuse` (length of the requirement), `Create`, then the planner's calls
(`Ask`, `Classified`, `Questioned`, `UserAnswers`, `AllAnswered`, `Resolved`,
`PlanFails`, `UpdateScenario`), then `StageCalls` by the threads of the stages.  A
thread's steps inside `call` are `Gateway`'s; a run's row is `AddRow`.

When a call leaves the window is a free choice (`CheckWindow` reads any number up
to the stored one), and of two overlapping updates of it the later one stays: no bound
on the calls of a minute holds of the code, and none is stated.  Every role has
`trigger_run`, so step 2 never refuses.

### Run `calls`

One user with a budget of 3; two runs, one of them with two concurrent threads;
every answer costs 2, estimated as 1; one call per window, one retry, one
midnight, two seeds, and one of the processes may die seeding; of the labels one is
unknown, which makes the requirement ambiguous; 536 thousand states.  All three threads pass the
check of the budget before any has recorded, which is the worst case of the
bound.

Shown: `OverrunIsBounded`, `PaidCallsHaveRun`, `SpendAccounted`, `SeededOnce`, and
`EveryPlanEnds` under weak fairness of processes and threads (the API answers or its
client times out).  Nothing is assumed of the user, who may leave a question
unanswered; the command then waits.  `CHECK_DEADLOCK FALSE`: commands end.

`SeededOnce` says what seeding without a lock comes to.  A plan is never made with an
empty memory.  A seed is missing from it only while another process is between its
first seed and its last, or because one has died there (`HalfSeeded`): a second run
that looks meanwhile finds a memory that is not empty and plans with half of it.
A seed is there twice only if a process has found the memory empty while another was
seeding (`alone` is false); merely looking does not count.

### Proofs

`GatewayProofs`, for any users, runs, finite set of threads, budgets and bounds, and
any caller: `GatewayTypesHold` and `OverrunBounded`.  `OverrunIsBounded` is
inductive with the types: it counts for each thread past its check (`InFlight`) the
most its answer may cost, so passing the check (which the budget then allows)
pays for the thread in advance, and recording moves it from one term to the
other.

`PlanningProofs`: `PlanningUsesGateway` (every step of planning is one of the
gateway or leaves it alone) carries `OverrunBounded` over; `PaidCallsHaveRunHolds`
strengthens the property to every thread inside a call (`CallersHaveRow`);
`SeededOnceHolds` uses `Seeding`: a seed is there exactly if some process has got as far, a
process that plans has come through all the seeds or has inserted none and found the
first (`Remembers`), and as long as `alone` holds the seeds are exactly those of the one
process that seeds (`SeedsAlone`); `TypesHold`;
`SpendIsAccounted`.

`SpendAccounted` has a sum over the threads of a user, taken by `MapThenSumSet` with a
recursive function that CHOOSE picks.  An induction theorem takes a predicate as its
parameter, which the provers cannot instantiate; instead the lemmas about sums take a
smallest counterexample, which `WFMin` of `WellFoundedInduction` provides for a set
(`LeastNumber`, `SmallestSubset`).  In this way `FoldExists` shows that there is such a
function, so that the sum satisfies its equation (`SumStep`), and `SumChanges` that
a sum changes by as much as the one element that changes.  The invariant adds
`HandsEmpty`: a thread that is not between its answer and its row holds no tokens.
`TokensMove` is the argument all steps share: tokens leave one of the four places for
another.

## 8. Findings

Each is a violated run; the property states what the quoted line says.

1. `stale_gate` - after a command died between the graph's pause and the row's
   update, an approval is checked against an earlier gate than the one it passes
   (`run.py:486`; `docs/GATES.md:125`).
2. `early_completion` - a command reads an empty `next` between another's last
   write and next checkpoint and closes the run as completed, with gates left
   (`run.py:490`; `docs/GATES.md:73`; `docs/ENGINEERING_SUMMARY.md:114` names concurrent
   users as a case that is not handled).
3. `abandoned` - a `run` command that dies before its first status update leaves a
   run no command continues (`run.py:407`; `docs/ENGINEERING_SUMMARY.md:46`).
4. `analytics` - a failed analytics commit is swallowed without a rollback, and
   the redirect then fails on the unusable session (`redirect.py:66`, against its
   comments in lines 45 and 64).
5. `stale_tests` - the second `run_tests` of a stage is answered from the tool cache
   although the stage has written a file since (`registry.py:57`; `test_runner.py:4`).

Seen while modelling and not stated as properties:

- *Run lifecycle.*  Two reviewers at one gate: an approval that is executing writes its
  status over the other's rejection, and the run goes on (`run.py:454` and 520), although
  `docs/GATES.md:149` calls a rejection final and `ENGINEERING_SUMMARY.md:114` disclaims
  concurrent users; `RejectionIsFinal` is proved for commands that do not overlap.  A failed
  stage does not stop the graph.  A run whose planning fails keeps the status `running`.
  `docs/GATES.md` gives the gates in another order than `greenfield.py:119-122`.
- *Short links.*  Lost click increments (a limitation named in
  `docs/ENGINEERING_SUMMARY.md:106`, although the docstring at `url_service.py:168` says
  "Atomically").  A lost race for an alias is a server error where the lookup gives a 422.
  `schemas/url.py:58` says null removes an expiry, `update_short_url` ignores null.
- *Accounts.*  `service/core/rate_limiter.py:26` calls INCR and EXPIRE atomic so that the
  key expires by itself; a process that dies between them leaves a counter that never does
  and a key limited for ever once it is full.  `auth_service.py:75` says a rotation
  deactivates all existing keys; two that overlap leave two active ones.  A registration
  that loses the race for its email gets a 500 where the lookup gives a 409.  A request that
  dies after its commit takes the only display of its key with it.
- *Stages.*  Step 5 of the docstring of `commit_and_push` (`github_client.py:118-119`:
  "Restore tracked files and remove new untracked files") is not in the code, whose own comment
  (180-183) says why; `FilesChangeByWriting` is the code's side of it.  Line 114 says a push
  takes just its own commit; after a failed push it takes that one's along.  A pull
  request the model has made and not named is looked for in the tool cache
  (`nodes.py:148`), where `create_pr` is never kept, so the fallback ends with an error for
  it; one the model only claims is believed.  When `_persist_pr` fails, the row lacks the
  pull request and nothing says so.  A new run's clean removes files another run still
  needs.  A replayed artifact comes without the files its stage wrote, and is keyed by the
  files as they were when that stage began.  `run_tests` has no timeout.
- *Gateway and planning.*  `orchestrator/gateway/rate_limiter.py:23` calls the window exact,
  and two threads can lose a call of it.  A blocked answer is paid and not recorded.
  Two processes that seed at once leave seeds twice; one that dies seeding leaves some
  out for ever; one that plans meanwhile does without the rest.

## 9. What is only model-checked, and what is not modelled

Only checked by TLC: liveness under fairness, which is beyond the prover
(`ApprovalMovesRun`, `EveryRequestEnds`, `EveryStageEnds`, `EveryPlanEnds`).  Every
invariant, action property and refinement of a passing run is a theorem too, those of
`sequential` and `crashes` under the hypotheses named below 3.

Not modelled: the evaluator and hybrid gate (not wired into the CLI, and its call of
`request_approval` does not fit that function), metrics (read-only aggregation),
logging (output), the wording of prompts and of LLM answers, aggregating reads of
the service, migrations, settings and wiring (declarations; their unique indexes
and the session per request are in the modules that rely on them).
