---------------------------- MODULE RunLifecycle ----------------------------
(***************************************************************************)
(* One run of the orchestrator, as the CLI processes drive it.             *)
(*                                                                         *)
(* A user's `run` or `approve` command is a process of its own.  All they  *)
(* share is the database: the run's orch_runs row, its stage results and   *)
(* audit events, and the LangGraph checkpoint of its thread.  An approve   *)
(* command reads the row, checks the user's authority over the gate named  *)
(* there, waits for a human answer, and only then resumes the graph from   *)
(* whatever checkpoint is the latest at that time; it writes the row again *)
(* when the graph has stopped.  Commands of different users overlap, and a *)
(* command may die between any two of its steps.                           *)
(*                                                                         *)
(* The graph executes in supersteps: a process runs all the scheduled      *)
(* nodes, each node's completion being stored as a pending write of the    *)
(* checkpoint, and then stores the next checkpoint.                        *)
(***************************************************************************)
EXTENDS Naturals, FiniteSets

CONSTANTS
    Users,             \* github logins
    NoUser,            \* NULL in reviewed_by
    Perms,             \* Perms[u]: permissions of user u
    Stages, Gates,     \* the nodes of the graph
    Entry, Edges,      \* where it starts, and what schedules what
    GatePermission,    \* GatePermission[g]: what gate g's approver needs
    MandatoryGates,    \* gates every path through the graph passes
    Failable,          \* bound: the stages whose agent may fail
    Overlap,           \* may a command start while another is in flight?
    MaxCrashes         \* bound: how many commands die

Nodes == Stages \cup Gates

\* What orch_runs.status holds beside "awaiting:<gate>"; "none": no row yet.
\* A gate g stands for "awaiting:g", "unknown_gate" for "awaiting:unknown_gate".
PlainStatus == {"none", "running", "completed", "rejected", "unknown_gate"}
Status == PlainStatus \cup Gates

\* A set of nodes that holds Entry and every node it schedules.
RunsToTheEnd(D) ==
    /\ Entry \in D
    /\ \A e \in Edges : e.from \subseteq D => e.to \in D

\* Within a set of nodes a run stays in, each node is the target of one edge, and
\* the entry of none: it is scheduled once.
TriggeredOnceIn(R) ==
    /\ RunsToTheEnd(R)
    /\ \A e, f \in Edges :
          e.from \subseteq R /\ f.from \subseteq R => e.to # Entry /\ (e.to = f.to => e = f)

ASSUME TopologyAssumption ==
    /\ Stages \cap Gates = {}
    /\ Gates \cap PlainStatus = {}
    /\ Entry \in Stages
    /\ \A e \in Edges : /\ e.from \subseteq Nodes
                        /\ e.from # {}
                        /\ e.to \in Nodes
    /\ MandatoryGates \subseteq Gates
    /\ \A D \in SUBSET Nodes : RunsToTheEnd(D) => MandatoryGates \subseteq D

ASSUME UserAssumption == NoUser \notin Users

ASSUME BoundAssumption ==
    /\ Failable \subseteq Stages
    /\ Overlap \in BOOLEAN
    /\ MaxCrashes \in Nat

VARIABLES
    status,       \* orch_runs.status
    submitter,    \* orch_runs.triggered_by
    reviewedBy,   \* orch_runs.reviewed_by
    results,      \* orch_stage_results: the latest status of each stage
    reached,      \* gates with a CHECKPOINT_REACHED audit event
    approvals,    \* <<gate, approver>> of the CHECKPOINT_APPROVED audit events
    ckpt,         \* the latest checkpoint: nodes completed, nodes scheduled
    writes,       \* its pending writes: scheduled nodes that have completed
    interrupted,  \* its pending interrupts: gates waiting for a resume value
    current,      \* commands whose graph continues the latest checkpoint
    pc,           \* what each user's command is doing
    seen,         \* the gate an approve command read from the row
    graph,        \* the graph as the command's process holds it
    outcome,      \* what a command will write into the row
    crashes

row    == <<status, submitter, reviewedBy>>
events == <<results, reached, approvals>>
store  == <<ckpt, writes, interrupted, current>>
local  == <<pc, seen, graph, outcome>>
vars   == <<row, events, store, local, crashes>>

NoGraph == [done |-> {}, next |-> {}, fin |-> {}, resume |-> FALSE]

Init ==
    /\ status = "none"
    /\ submitter = NoUser
    /\ reviewedBy = NoUser
    /\ results = [n \in Stages |-> "none"]
    /\ reached = {}
    /\ approvals = {}
    /\ ckpt = [done |-> {}, next |-> {}]
    /\ writes = {}
    /\ interrupted = {}
    /\ current = {}
    /\ pc = [u \in Users |-> "idle"]
    /\ seen = [u \in Users |-> "none"]
    /\ graph = [u \in Users |-> NoGraph]
    /\ outcome = [u \in Users |-> "none"]
    /\ crashes = 0

-----------------------------------------------------------------------------
(* Operators                                                               *)

\* Definitions named Flawed... are the plausible mistakes the properties catch;
\* no action uses them.

\* The nodes the completion of S schedules, the nodes of done having completed.
Successors(done, S) ==
    {e.to : e \in {f \in Edges : /\ f.from \subseteq done \cup S
                                 /\ f.from \cap S # {}}}

Launchable(u) == pc[u] = "idle" /\ (Overlap \/ \A v \in Users : pc[v] = "idle")

\* The command of u ends: its process and what it held are gone.
Ends(u) ==
    /\ pc' = [pc EXCEPT ![u] = "idle"]
    /\ seen' = [seen EXCEPT ![u] = "none"]
    /\ graph' = [graph EXCEPT ![u] = NoGraph]
    /\ outcome' = [outcome EXCEPT ![u] = "none"]

\* A node of u's process has completed: stored under the checkpoint it continues.
Completes(u, n) ==
    /\ graph' = [graph EXCEPT ![u].fin = @ \cup {n}]
    /\ writes' = IF u \in current THEN writes \cup {n} ELSE writes

\* snapshot.next: the scheduled nodes with no pending write.  It is empty at the
\* end of the graph, and also where all of a superstep has completed and no
\* process has stored the next checkpoint yet.
SnapshotNext == ckpt.next \ writes

FlawedSnapshotByNode ==
    IF SnapshotNext = {} THEN "completed" ELSE CHOOSE n \in SnapshotNext : TRUE

\* Takes a node that has interrupted for one that has completed.
FlawedSnapshotInterruptIsWrite ==
    IF SnapshotNext \ interrupted = {} THEN "completed" ELSE "unknown_gate"

FlawedSnapshotBeforeInterrupt ==
    IF SnapshotNext = {} THEN "completed"
    ELSE IF SnapshotNext \cap Gates = {} THEN "unknown_gate"
    ELSE CHOOSE g \in SnapshotNext \cap Gates : TRUE

\* The status a command makes of engine.get_state, which reads the latest
\* checkpoint with its pending writes.
SnapshotStatus ==
    IF SnapshotNext = {} THEN "completed"
    ELSE IF interrupted = {} THEN "unknown_gate"
    ELSE CHOOSE g \in interrupted : TRUE

\* The database effects of one execution of a node.
StageEffects(n, result) ==
    /\ results' = [results EXCEPT ![n] = result]
    /\ UNCHANGED <<reached, approvals>>

\* Audit events are inserted and never removed.
LogReached(g) == reached' = reached \cup {g}

GateEffects(g, u) ==
    /\ LogReached(g)
    /\ approvals' = approvals \cup {<<g, u>>}
    /\ UNCHANGED results

\* The updates of the run's row, each a transaction that looks at nothing.
UpdateRunStatus(s) == status' = s /\ UNCHANGED <<submitter, reviewedBy>>

UpdateRunRejected(u) ==
    /\ status' = "rejected"
    /\ reviewedBy' = u
    /\ UNCHANGED submitter

UpdateRunCompleted(u) ==
    /\ status' = "completed"
    /\ reviewedBy' = u
    /\ UNCHANGED submitter

-----------------------------------------------------------------------------
(* The run command                                                         *)

\* planner.plan inserts the row before it classifies the requirement.
CreateRun(u) ==
    /\ Launchable(u)
    /\ status = "none"
    /\ status' = "running"
    /\ submitter' = u
    /\ pc' = [pc EXCEPT ![u] = "planning"]
    /\ UNCHANGED <<reviewedBy, events, store, seen, graph, outcome, crashes>>

\* engine.run: the input checkpoint schedules the entry node.
StartGraph(u) ==
    /\ pc[u] = "planning"
    /\ pc' = [pc EXCEPT ![u] = "executing"]
    /\ ckpt' = [done |-> {}, next |-> {Entry}]
    /\ graph' = [graph EXCEPT ![u] = [NoGraph EXCEPT !.next = {Entry}]]
    /\ current' = {u}
    /\ UNCHANGED <<row, events, writes, interrupted, seen, outcome, crashes>>

-----------------------------------------------------------------------------
(* The approve command                                                     *)

FlawedMayApproveOwnRun(u, g) == GatePermission[g] \in Perms[u]

FlawedMayApproveAnyRole(u, g) == u # submitter

\* request_approval: the gate's permission, and not one's own run.
MayApprove(u, g) ==
    /\ GatePermission[g] \in Perms[u]
    /\ u # submitter

\* What the review command lists for u, and an approve command looks at again.
Approvable(u) == status \in Gates /\ MayApprove(u, status)

\* The row is read, a gate found in it and the user's authority checked; any
\* other outcome ends the command with nothing changed.
OpenReview(u) ==
    /\ Launchable(u)
    /\ Approvable(u)
    /\ pc' = [pc EXCEPT ![u] = "reviewing"]
    /\ seen' = [seen EXCEPT ![u] = status]
    /\ UNCHANGED <<row, events, store, graph, outcome, crashes>>

\* Ctrl-C at the prompt.
AbortReview(u) ==
    /\ pc[u] = "reviewing"
    /\ Ends(u)
    /\ UNCHANGED <<row, events, store, crashes>>

\* Falls through to the resumption.
FlawedRejectGoesOn(u) ==
    /\ pc[u] = "reviewing"
    /\ status' = "rejected"
    /\ reviewedBy' = u
    /\ graph' = [graph EXCEPT ![u] = [done |-> ckpt.done, next |-> ckpt.next,
                                      fin |-> writes, resume |-> TRUE]]
    /\ pc' = [pc EXCEPT ![u] = "executing"]
    /\ UNCHANGED <<submitter, events, store, seen, outcome, crashes>>

\* The answer is no: the row is updated, whatever it holds by now, and the
\* graph is left where it is.
Reject(u) ==
    /\ pc[u] = "reviewing"
    /\ UpdateRunRejected(u)
    /\ Ends(u)
    /\ UNCHANGED <<events, store, crashes>>

\* Forgets the pending writes.
FlawedResumeWithoutWrites(u) ==
    /\ pc[u] = "reviewing"
    /\ graph' = [graph EXCEPT ![u] = [done |-> ckpt.done, next |-> ckpt.next,
                                      fin |-> {}, resume |-> TRUE]]
    /\ current' = current \cup {u}
    /\ seen' = [seen EXCEPT ![u] = "none"]
    /\ pc' = [pc EXCEPT ![u] = IF ckpt.next = {} THEN "stopped" ELSE "executing"]
    /\ UNCHANGED <<row, events, ckpt, writes, interrupted, outcome, crashes>>

\* Invokes the graph with its input again.
FlawedResumeFromStart(u) ==
    /\ pc[u] = "reviewing"
    /\ ckpt' = [done |-> {}, next |-> {Entry}]
    /\ graph' = [graph EXCEPT ![u] = [NoGraph EXCEPT !.next = {Entry}]]
    /\ current' = {u}
    /\ seen' = [seen EXCEPT ![u] = "none"]
    /\ pc' = [pc EXCEPT ![u] = "executing"]
    /\ UNCHANGED <<row, events, writes, interrupted, outcome, crashes>>

\* engine.resume loads the latest checkpoint with its pending writes.
LoadCheckpoint(u) ==
    /\ graph' = [graph EXCEPT ![u] = [done |-> ckpt.done, next |-> ckpt.next,
                                      fin |-> writes, resume |-> TRUE]]
    /\ current' = current \cup {u}

\* The answer is yes; neither the row nor the gate is looked at again.
Resume(u) ==
    /\ pc[u] = "reviewing"
    /\ LoadCheckpoint(u)
    /\ seen' = [seen EXCEPT ![u] = "none"]
    /\ pc' = [pc EXCEPT ![u] = IF ckpt.next = {} THEN "stopped" ELSE "executing"]
    /\ UNCHANGED <<row, events, ckpt, writes, interrupted, outcome, crashes>>

-----------------------------------------------------------------------------
(* The graph                                                               *)

Runnable(u, n) ==
    /\ pc[u] = "executing"
    /\ n \in graph[u].next \ graph[u].fin

\* A stage node: its result is saved, whatever it is, and the graph goes on.
RunStage(u, n) ==
    /\ Runnable(u, n)
    /\ n \in Stages
    /\ \E result \in {"completed"} \cup (IF n \in Failable THEN {"failed"} ELSE {}) :
          StageEffects(n, result)
    /\ Completes(u, n)
    /\ UNCHANGED <<row, ckpt, interrupted, current, pc, seen, outcome, crashes>>

\* A gate node with no resume value: it interrupts and the process stops.
ReachGate(u, g) ==
    /\ Runnable(u, g)
    /\ g \in Gates
    /\ ~graph[u].resume
    /\ LogReached(g)
    /\ interrupted' = IF u \in current THEN interrupted \cup {g} ELSE interrupted
    /\ pc' = [pc EXCEPT ![u] = "stopped"]
    /\ UNCHANGED <<row, results, approvals, ckpt, writes, current,
                   seen, graph, outcome, crashes>>

\* A gate node in the superstep a resume value is for: it runs from its start,
\* so it reports the gate reached again, and passes in the name of u.
PassGate(u, g) ==
    /\ Runnable(u, g)
    /\ g \in Gates
    /\ graph[u].resume
    /\ GateEffects(g, u)
    /\ Completes(u, g)
    /\ UNCHANGED <<row, ckpt, interrupted, current, pc, seen, outcome, crashes>>

\* Goes on as soon as one of the scheduled nodes has completed.
FlawedAdvanceWithoutBarrier(u) ==
    LET done == graph[u].done \cup graph[u].next
        next == Successors(graph[u].done, graph[u].next)
    IN  /\ pc[u] = "executing"
        /\ graph[u].next \cap graph[u].fin # {}
        /\ graph' = [graph EXCEPT ![u] = [done |-> done, next |-> next,
                                          fin |-> {}, resume |-> FALSE]]
        /\ ckpt' = [done |-> done, next |-> next]
        /\ writes' = {}
        /\ interrupted' = {}
        /\ current' = {u}
        /\ pc' = [pc EXCEPT ![u] = IF next = {} THEN "stopped" ELSE "executing"]
        /\ UNCHANGED <<row, events, seen, outcome, crashes>>

\* All scheduled nodes have completed: the next checkpoint is stored and is the
\* latest, whichever checkpoint another process has stored meanwhile.
Advance(u) ==
    LET done == graph[u].done \cup graph[u].next
        next == Successors(graph[u].done, graph[u].next)
    IN  /\ pc[u] = "executing"
        /\ graph[u].next # {}
        /\ graph[u].next \subseteq graph[u].fin
        /\ graph' = [graph EXCEPT ![u] = [done |-> done, next |-> next,
                                          fin |-> {}, resume |-> FALSE]]
        /\ ckpt' = [done |-> done, next |-> next]
        /\ writes' = {}
        /\ interrupted' = {}
        /\ current' = {u}
        /\ pc' = [pc EXCEPT ![u] = IF next = {} THEN "stopped" ELSE "executing"]
        /\ UNCHANGED <<row, events, seen, outcome, crashes>>

-----------------------------------------------------------------------------
(* After the graph has stopped                                             *)

\* engine.get_state, on the latest checkpoint.
ReadState(u) ==
    /\ pc[u] = "stopped"
    /\ outcome' = [outcome EXCEPT ![u] = SnapshotStatus]
    /\ pc' = [pc EXCEPT ![u] = "reporting"]
    /\ graph' = [graph EXCEPT ![u] = NoGraph]
    /\ current' = current \ {u}
    /\ UNCHANGED <<row, events, ckpt, writes, interrupted, seen, crashes>>

\* The status is not written.
FlawedReportNothing(u) ==
    /\ pc[u] = "reporting"
    /\ outcome[u] = "completed" => u = submitter
    /\ Ends(u)
    /\ UNCHANGED <<row, events, store, crashes>>

\* Only the run command writes it.
FlawedReportByRunOnly(u) ==
    /\ pc[u] = "reporting"
    /\ outcome[u] = "completed" => u = submitter
    /\ status' = IF u = submitter THEN outcome[u] ELSE status
    /\ Ends(u)
    /\ UNCHANGED <<submitter, reviewedBy, events, store, crashes>>

\* update_run_status: the next gate; for a run command, possibly "completed".
ReportStatus(u) ==
    /\ pc[u] = "reporting"
    /\ outcome[u] = "completed" => u = submitter
    /\ UpdateRunStatus(outcome[u])
    /\ Ends(u)
    /\ UNCHANGED <<events, store, crashes>>

\* An approve command that found the graph at its end asks its user for feedback,
\* for as long as that takes.
AsksForFeedback(u) == pc[u] = "reporting" /\ outcome[u] = "completed" /\ u # submitter

\* It calls update_run_completed with the answer.
ReportCompleted(u) ==
    /\ AsksForFeedback(u)
    /\ UpdateRunCompleted(u)
    /\ Ends(u)
    /\ UNCHANGED <<events, store, crashes>>

-----------------------------------------------------------------------------
(* Crashes                                                                 *)

\* A command's process dies between two steps, or an exception or Ctrl-C ends it,
\* at the feedback prompt too.
Crash(u) ==
    /\ pc[u] \notin {"idle", "reviewing"}
    /\ crashes < MaxCrashes
    /\ crashes' = crashes + 1
    /\ current' = current \ {u}
    /\ Ends(u)
    /\ UNCHANGED <<row, events, ckpt, writes, interrupted>>

\* It dies after a node's effects are committed and before its completion is.
CrashAfterNode(u, n) ==
    /\ Runnable(u, n)
    /\ crashes < MaxCrashes
    /\ \/ n \in Stages /\ StageEffects(n, "completed")
       \/ n \in Gates /\ graph[u].resume /\ GateEffects(n, u)
    /\ crashes' = crashes + 1
    /\ current' = current \ {u}
    /\ Ends(u)
    /\ UNCHANGED <<row, ckpt, writes, interrupted>>

-----------------------------------------------------------------------------

\* What a command does on its own: no human is asked, and no stage is executed.
ProcessStep(u) ==
    \/ \E g \in Nodes : ReachGate(u, g) \/ PassGate(u, g)
    \/ Advance(u)
    \/ ReadState(u)
    \/ ReportStatus(u)

Next ==
    \E u \in Users :
        \/ CreateRun(u)
        \/ OpenReview(u)
        \/ AbortReview(u)
        \/ Reject(u)
        \/ Resume(u)
        \/ StartGraph(u)
        \/ ProcessStep(u)
        \/ ReportCompleted(u)
        \/ Crash(u)
        \/ \E n \in Nodes : RunStage(u, n) \/ CrashAfterNode(u, n)

Spec == Init /\ [][Next]_vars

\* The operating system runs the processes.  Nobody has to open a review, answer a
\* prompt or give feedback, and a stage, which may run tests without a time limit,
\* need not end.
FairSpec == Spec /\ \A u \in Users : WF_vars(ProcessStep(u))

-----------------------------------------------------------------------------
(* Properties of every execution, overlapping commands and crashes included *)

Working == {"planning", "executing", "stopped", "reporting"}

GraphType == [done : SUBSET Nodes, next : SUBSET Nodes,
              fin : SUBSET Nodes, resume : BOOLEAN]

\* Every variable holds a value of its kind.
TypeOK ==
    /\ status \in Status
    /\ submitter \in Users \cup {NoUser}
    /\ reviewedBy \in Users \cup {NoUser}
    /\ results \in [Stages -> {"none", "completed", "failed"}]
    /\ reached \subseteq Gates
    /\ approvals \subseteq Gates \X Users
    /\ ckpt \in [done : SUBSET Nodes, next : SUBSET Nodes]
    /\ writes \subseteq Nodes
    /\ interrupted \subseteq Gates
    /\ current \subseteq Users
    /\ pc \in [Users -> {"idle", "reviewing"} \cup Working]
    /\ seen \in [Users -> Gates \cup {"none"}]
    /\ graph \in [Users -> GraphType]
    /\ outcome \in [Users -> Status]
    /\ crashes \in 0..MaxCrashes

\* The nodes that have run to their end at least once.
Executed == {n \in Stages : results[n] # "none"} \cup {a[1] : a \in approvals}

Upstream(n) == n = Entry \/ \E e \in Edges : e.to = n /\ e.from \subseteq Executed

\* Four eyes (GATES.md): whoever passes a gate or closes the run as its reviewer
\* did not submit it.  The check was made when the review was opened; the
\* approval is recorded long after, in another process's graph.
FourEyes ==
    /\ \A a \in approvals : a[2] # submitter
    /\ reviewedBy # NoUser => reviewedBy # submitter

\* Nothing runs early: a stage has a result, a gate an approval or a pause, only
\* if the sources of one of its edges have all run to their end before.  A join
\* waits for both its branches, and no stage behind a gate runs before the gate
\* is approved, also after a crash between a node's effects and its completion
\* or when two processes continue the same checkpoint.
NothingRunsEarly == \A n \in Executed \cup reached : Upstream(n)

\* Whoever reviews a gate finds the results of the stages before it: the gate
\* named in the row has been reached, and all that leads to it has run.
ReviewHasEvidence ==
    \A u \in Users : pc[u] = "reviewing" => seen[u] \in reached /\ Upstream(seen[u])

-----------------------------------------------------------------------------
(* Properties that hold while one command at a time runs                    *)

\* Nothing ships without the release gate (GATES.md): a run shown as completed has
\* passed every mandatory gate, whatever commands died on its way.
CompletedRunPassedGates ==
    status = "completed" => \A g \in MandatoryGates : \E a \in approvals : a[1] = g

\* A run resumes exactly where it stopped (ENGINEERING_SUMMARY.md): no node
\* whose completion is stored, in the checkpoint or in its pending writes, is
\* left to run again in the process that goes on after a crash.
NothingRunsTwice ==
    \A u \in Users : pc[u] = "executing" =>
        (graph[u].next \ graph[u].fin) \cap (ckpt.done \cup writes) = {}

\* The latest checkpoint only grows: no command, and no restart after a crash,
\* takes the run back to a stage it has left.
CheckpointNeverGoesBack == [][ckpt.done \subseteq ckpt'.done]_ckpt

-----------------------------------------------------------------------------
(* Properties that hold while, besides, no command dies                     *)

Passed == {a[1] : a \in approvals}

\* C: the checkpoints of a run.  No node is scheduled that has completed, and a
\* gate is scheduled with no other node.
GatesAloneIn(C) ==
    /\ [done |-> {}, next |-> {Entry}] \in C
    /\ \A c \in C : c.next # {} =>
          [done |-> c.done \cup c.next, next |-> Successors(c.done, c.next)] \in C
    /\ \A c \in C : /\ c.done \cap c.next = {}
                    /\ \A g \in c.next \cap Gates : c.next = {g}

\* Every approval is by a user who holds the permission its gate asks for.
AuthorisedApprovals == \A a \in approvals : GatePermission[a[1]] \in Perms[a[2]]

AllIdle == \A u \in Users : pc[u] = "idle"

\* Between commands the row tells the graph's state: the gate it names is the one
\* the graph waits at, a completed run has nothing left to do, and a run whose
\* graph has started is never left at "running", which no command continues.
RowMatchesGraph ==
    AllIdle =>
        /\ status \in Gates => ckpt.next = {status} /\ interrupted = {status}
        /\ status = "completed" => ckpt.next = {} /\ ckpt.done # {}
        /\ ckpt # [done |-> {}, next |-> {}] => status \notin {"none", "running"}
        /\ status # "unknown_gate"

\* A rejected run is stopped: nothing of it executes any more.
RejectedRunIsStopped ==
    status = "rejected" => \A u \in Users : pc[u] # "executing"

\* A rejection is final: no command writes another status over it.
RejectionIsFinal == [][status = "rejected" => status' = "rejected"]_status

\* A run that was left by its commands and is not over can be continued by one.
AbandonedRunCanContinue ==
    AllIdle /\ status \notin {"none", "completed", "rejected"}
        => status \in Gates

\* Some stage is being executed.
StageAtWork == \E u \in Users, n \in Stages : Runnable(u, n)

\* An approval moves the run: once a gate has passed, the row stops naming it,
\* unless its command waits for feedback or is in a stage that never ends.
ApprovalMovesRun ==
    \A g \in Gates : (status = g /\ g \in Passed)
        ~> \/ status # g
           \/ \E u \in Users : AsksForFeedback(u)
           \/ []StageAtWork

\* The promise of the gates, as GateContract states it, seen in the row and the
\* audit events.
Phase ==
    CASE status \in Gates -> IF status \in Passed THEN "working" ELSE "waiting"
      [] status = "running" -> "working"
      [] OTHER -> status

Contract == INSTANCE GateContract WITH
    phase <- Phase,
    gate <- IF Phase = "waiting" THEN status ELSE "none",
    passed <- Passed

ContractSpec == Contract!Spec

=============================================================================
