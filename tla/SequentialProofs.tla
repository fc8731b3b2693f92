-------------------------- MODULE SequentialProofs --------------------------
(***************************************************************************)
(* What RunLifecycle guarantees besides when commands do not overlap, for  *)
(* every set of users, permission table and stage graph and any number of  *)
(* crashes: a rejected run is stopped, a completed one has passed the      *)
(* mandatory gates, the checkpoint never goes back, and nothing runs twice *)
(* in a graph that triggers each node once.                                *)
(***************************************************************************)
EXTENDS RunLifecycleProofs

-----------------------------------------------------------------------------
(* The inductive invariant                                                 *)

OneCommand == \A u, v \in Users : pc[u] # "idle" /\ pc[v] # "idle" => u = v

\* A process at work has the latest checkpoint and its pending writes.
GraphIsLatest ==
    \A u \in Users : pc[u] = "executing" =>
        /\ u \in current
        /\ graph[u].done = ckpt.done
        /\ graph[u].next = ckpt.next
        /\ graph[u].fin = writes

\* A graph that nobody has started has no checkpoint yet.
NotStarted ==
    status = "none" \/ (\E u \in Users : pc[u] = "planning")
        => ckpt.done = {} /\ ckpt.next = {} /\ writes = {}

RejectionStops == status = "rejected" => AllIdle

MandatoryPassed == \A g \in MandatoryGates : \E a \in approvals : a[1] = g

\* A process that has stopped sees the end of the graph, or a scheduled node that
\* has not completed.
StopsAtRest ==
    \A u \in Users : pc[u] = "stopped" => ckpt.next = {} \/ SnapshotNext # {}

CompletionIsEarned ==
    /\ status = "completed" => MandatoryPassed
    /\ \A u \in Users : outcome[u] = "completed" => MandatoryPassed

CommandInv == OneCommand /\ GraphIsLatest /\ NotStarted /\ RejectionStops

CompletionInv == StopsAtRest /\ CompletionIsEarned

SeqInv == CommandInv /\ CompletionInv

\* In R the latest checkpoint has no node both completed and scheduled, and what
\* has completed or is scheduled was triggered by completed nodes.
TriggerInv(R) ==
    /\ ckpt.done \cup ckpt.next \subseteq R
    /\ ckpt.done \cap ckpt.next = {}
    /\ writes \subseteq ckpt.next
    /\ \A e \in Edges : e.from \subseteq R /\ e.to \in ckpt.done \cup ckpt.next
                            => e.from \subseteq ckpt.done

-----------------------------------------------------------------------------
(* One command at a time                                                   *)

LEMMA InitCommand == Init => CommandInv
BY DEF Init, CommandInv, OneCommand, GraphIsLatest, NotStarted, RejectionStops

\* What the steps do to the one process there is.
LEMMA CommandStep ==
    ASSUME Overlap = FALSE
    PROVE  IInv /\ CommandInv /\ [Next]_vars => CommandInv'
<1> SUFFICES ASSUME IInv, CommandInv, [Next]_vars PROVE CommandInv'
    OBVIOUS
<1> USE DEF CommandInv, OneCommand, GraphIsLatest, NotStarted, RejectionStops, AllIdle,
            row, events, store, local
<1>t. TypeOK /\ NothingBeforeTheRow
    BY DEF IInv, OrderInv, AuthorityInv
<1>1. ASSUME NEW u \in Users, CreateRun(u) PROVE CommandInv'
    BY <1>t, <1>1 DEF CreateRun, Launchable, TypeOK
<1>2. ASSUME NEW u \in Users, StartGraph(u) PROVE CommandInv'
    BY <1>t, <1>2 DEF StartGraph, NoGraph, TypeOK, NothingBeforeTheRow
<1>3. ASSUME NEW u \in Users, OpenReview(u) PROVE CommandInv'
    BY <1>t, <1>3, TopologyAssumption
       DEF OpenReview, Approvable, Launchable, TypeOK, PlainStatus
<1>4. ASSUME NEW u \in Users, AbortReview(u) PROVE CommandInv'
    BY <1>t, <1>4 DEF AbortReview, Ends, TypeOK
<1>5. ASSUME NEW u \in Users, Reject(u) PROVE CommandInv'
    BY <1>t, <1>5 DEF Reject, UpdateRunRejected, Ends, TypeOK
<1>6. ASSUME NEW u \in Users, Resume(u) PROVE CommandInv'
    BY <1>t, <1>6 DEF Resume, LoadCheckpoint, TypeOK
<1>7. ASSUME NEW u \in Users, NEW n \in Nodes, RunStage(u, n) PROVE CommandInv'
    <2>1. /\ pc[u] = "executing" /\ pc' = pc /\ current' = current
          /\ ckpt' = ckpt /\ status' = status
          /\ graph' = [graph EXCEPT ![u].fin = @ \cup {n}]
          /\ writes' = writes \cup {n}
        BY <1>7 DEF RunStage, Runnable, Completes
    <2> QED
        BY <1>t, <2>1 DEF TypeOK, GraphType, NothingBeforeTheRow
<1>8. ASSUME NEW u \in Users, NEW g \in Nodes, ReachGate(u, g) PROVE CommandInv'
    BY <1>t, <1>8 DEF ReachGate, Runnable, TypeOK
<1>9. ASSUME NEW u \in Users, NEW g \in Nodes, PassGate(u, g) PROVE CommandInv'
    <2>1. /\ pc[u] = "executing" /\ pc' = pc /\ current' = current
          /\ ckpt' = ckpt /\ status' = status
          /\ graph' = [graph EXCEPT ![u].fin = @ \cup {g}]
          /\ writes' = writes \cup {g}
        BY <1>9 DEF PassGate, Runnable, Completes
    <2> QED
        BY <1>t, <2>1 DEF TypeOK, GraphType, NothingBeforeTheRow
<1>10. ASSUME NEW u \in Users, Advance(u) PROVE CommandInv'
    BY <1>t, <1>10 DEF Advance, TypeOK, GraphType, NothingBeforeTheRow
<1>11. ASSUME NEW u \in Users, ReadState(u) PROVE CommandInv'
    BY <1>t, <1>11 DEF ReadState, TypeOK
<1>12. ASSUME NEW u \in Users, ReportStatus(u) PROVE CommandInv'
    BY <1>t, <1>12 DEF ReportStatus, UpdateRunStatus, Ends, TypeOK, NothingBeforeTheRow
<1>13. ASSUME NEW u \in Users, ReportCompleted(u) PROVE CommandInv'
    BY <1>t, <1>13 DEF ReportCompleted, UpdateRunCompleted, Ends, TypeOK
<1>14. ASSUME NEW u \in Users, Crash(u) PROVE CommandInv'
    BY <1>t, <1>14 DEF Crash, Ends, TypeOK
<1>15. ASSUME NEW u \in Users, NEW n \in Nodes, CrashAfterNode(u, n) PROVE CommandInv'
    BY <1>t, <1>15 DEF CrashAfterNode, Runnable, Ends, TypeOK
<1>16. CASE UNCHANGED vars
    BY <1>16 DEF vars
<1> QED
    BY <1>1, <1>2, <1>3, <1>4, <1>5, <1>6, <1>7, <1>8, <1>9, <1>10, <1>11,
       <1>12, <1>13, <1>14, <1>15, <1>16
       DEF Next, ProcessStep

-----------------------------------------------------------------------------
(* Completion                                                              *)

\* A graph that is over has passed every mandatory gate.
LEMMA EndIsEarned ==
    ASSUME TypeOK, OrderInv, Pursued(ckpt.done, ckpt.next), ckpt.next = {}
    PROVE  MandatoryPassed
<1>1. RunsToTheEnd(ckpt.done)
    BY DEF Pursued, RunsToTheEnd
<1>2. MandatoryGates \subseteq ckpt.done
    BY <1>1, TopologyAssumption DEF TypeOK
<1>3. MandatoryGates \subseteq Executed
    BY <1>2 DEF OrderInv, CompletedNodesExecuted
<1> QED
    BY <1>3, TopologyAssumption DEF Executed, MandatoryPassed

\* "completed" is read only where no node is left without a write.
LEMMA SnapshotOfTheEnd ==
    ASSUME TypeOK, SnapshotStatus = "completed"
    PROVE  SnapshotNext = {}
<1> SUFFICES ASSUME SnapshotNext # {} PROVE FALSE
    OBVIOUS
<1>1. interrupted # {} /\ SnapshotStatus = CHOOSE g \in interrupted : TRUE
    BY DEF SnapshotStatus
<1>2. SnapshotStatus \in interrupted
    BY <1>1
<1> QED
    BY <1>2, TopologyAssumption DEF TypeOK, PlainStatus

LEMMA MandatoryStays ==
    ASSUME approvals \subseteq approvals', MandatoryPassed
    PROVE  MandatoryPassed'
BY DEF MandatoryPassed

LEMMA InitCompletion == Init => CompletionInv
BY DEF Init, CompletionInv, StopsAtRest, CompletionIsEarned

\* Nobody else is there to complete a node, or store a checkpoint, behind the back
\* of a process that has stopped.
LEMMA CompletionStep ==
    IInv /\ CommandInv /\ CompletionInv /\ [Next]_vars => CompletionInv'
<1> SUFFICES ASSUME IInv, CommandInv, CompletionInv, [Next]_vars
             PROVE  CompletionInv'
    OBVIOUS
<1>t. TypeOK /\ OrderInv /\ NoNodeForgotten
    BY DEF IInv
<1>a. \A u \in Users : pc[u] # "idle" => \A v \in Users : v # u => pc[v] = "idle"
    BY DEF CommandInv, OneCommand
<1> USE DEF TypeOK, row, events, store, CompletionInv, StopsAtRest, CompletionIsEarned,
            SnapshotNext
<1>m. ASSUME approvals \subseteq approvals' PROVE MandatoryPassed => MandatoryPassed'
    BY <1>m, MandatoryStays
<1>1. ASSUME NEW u \in Users, CreateRun(u) PROVE CompletionInv'
    BY <1>t, <1>1, <1>m DEF CreateRun
<1>2. ASSUME NEW u \in Users, StartGraph(u) PROVE CompletionInv'
    BY <1>t, <1>a, <1>2, <1>m DEF StartGraph
<1>3. ASSUME NEW u \in Users, OpenReview(u) PROVE CompletionInv'
    BY <1>t, <1>3, <1>m DEF OpenReview
<1>4. ASSUME NEW u \in Users, AbortReview(u) PROVE CompletionInv'
    BY <1>t, <1>4, <1>m DEF AbortReview, Ends
<1>5. ASSUME NEW u \in Users, Reject(u) PROVE CompletionInv'
    BY <1>t, <1>5, <1>m DEF Reject, UpdateRunRejected, Ends
<1>6. ASSUME NEW u \in Users, Resume(u) PROVE CompletionInv'
    BY <1>t, <1>6, <1>m DEF Resume
<1>7. ASSUME NEW u \in Users, NEW n \in Nodes, RunStage(u, n) PROVE CompletionInv'
    BY <1>t, <1>a, <1>7, <1>m DEF RunStage, Runnable, StageEffects
<1>8. ASSUME NEW u \in Users, NEW g \in Nodes, ReachGate(u, g) PROVE CompletionInv'
    BY <1>t, <1>a, <1>8, <1>m DEF ReachGate, Runnable, LogReached, CommandInv, GraphIsLatest
<1>9. ASSUME NEW u \in Users, NEW g \in Nodes, PassGate(u, g) PROVE CompletionInv'
    BY <1>t, <1>a, <1>9, <1>m DEF PassGate, Runnable, GateEffects, LogReached
<1>10. ASSUME NEW u \in Users, Advance(u) PROVE CompletionInv'
    BY <1>t, <1>a, <1>10, <1>m DEF Advance
<1>11. ASSUME NEW u \in Users, ReadState(u) PROVE CompletionInv'
    <2>1. ASSUME SnapshotStatus = "completed" PROVE MandatoryPassed
        <3>1. pc[u] = "stopped" /\ SnapshotNext = {}
            BY <1>t, <1>11, <2>1, SnapshotOfTheEnd DEF ReadState
        <3>2. ckpt.next = {} /\ Pursued(ckpt.done, ckpt.next)
            BY <1>t, <3>1 DEF NoNodeForgotten
        <3> QED
            BY <1>t, <3>2, EndIsEarned
    <2>2. PICK o : o = SnapshotStatus
        OBVIOUS
    <2>3. /\ pc' = [pc EXCEPT ![u] = "reporting"]
          /\ outcome' = [outcome EXCEPT ![u] = o]
          /\ UNCHANGED <<status, approvals, ckpt, writes>>
        BY <1>11, <2>2 DEF ReadState
    <2> QED
        BY <1>t, <1>m, <2>1, <2>2, <2>3
<1>12. ASSUME NEW u \in Users, ReportStatus(u) PROVE CompletionInv'
    BY <1>t, <1>12, <1>m DEF ReportStatus, UpdateRunStatus, Ends
<1>13. ASSUME NEW u \in Users, ReportCompleted(u) PROVE CompletionInv'
    BY <1>t, <1>13, <1>m DEF ReportCompleted, AsksForFeedback, UpdateRunCompleted, Ends
<1>14. ASSUME NEW u \in Users, Crash(u) PROVE CompletionInv'
    BY <1>t, <1>14, <1>m DEF Crash, Ends
<1>15. ASSUME NEW u \in Users, NEW n \in Nodes, CrashAfterNode(u, n) PROVE CompletionInv'
    BY <1>t, <1>15, <1>m DEF CrashAfterNode, StageEffects, GateEffects, LogReached, Ends
<1>16. CASE UNCHANGED vars
    BY <1>t, <1>16, <1>m DEF vars, local
<1> QED
    BY <1>1, <1>2, <1>3, <1>4, <1>5, <1>6, <1>7, <1>8, <1>9, <1>10, <1>11,
       <1>12, <1>13, <1>14, <1>15, <1>16
       DEF Next, ProcessStep

-----------------------------------------------------------------------------
(* Rejection and completion                                                *)

LEMMA SeqInductive ==
    ASSUME Overlap = FALSE
    PROVE  Spec => [](IInv /\ SeqInv)
<1>1. Init => SeqInv
    BY InitCommand, InitCompletion DEF SeqInv
<1>2. IInv /\ SeqInv /\ [Next]_vars => SeqInv'
    BY CommandStep, CompletionStep DEF SeqInv
<1> QED
    BY <1>1, <1>2, Inductive, PTL DEF Spec

\* A run shown as completed has an approval of every mandatory gate, however many
\* commands died on its way.
THEOREM CompletionIsGated ==
    ASSUME Overlap = FALSE
    PROVE  Spec => []CompletedRunPassedGates
<1>1. SeqInv => CompletedRunPassedGates
    BY DEF SeqInv, CompletionInv, CompletionIsEarned, MandatoryPassed,
           CompletedRunPassedGates
<1> QED
    BY <1>1, SeqInductive, PTL

\* Without overlapping commands a rejected run is stopped: whoever rejects it is
\* alone, and no command continues it.
THEOREM RejectedRunsStop ==
    ASSUME Overlap = FALSE
    PROVE  Spec => []RejectedRunIsStopped
<1>1. IInv /\ SeqInv => RejectedRunIsStopped
    BY DEF SeqInv, CommandInv, RejectionStops, AllIdle, RejectedRunIsStopped
<1> QED
    BY <1>1, SeqInductive, PTL

\* Without overlapping commands a rejection is final: no command is under way that
\* could write over it, and none starts.
THEOREM RejectionStays ==
    ASSUME Overlap = FALSE
    PROVE  Spec => RejectionIsFinal
<1>1. ASSUME IInv, SeqInv, [Next]_vars
      PROVE  [status = "rejected" => status' = "rejected"]_status
    <2> SUFFICES ASSUME status = "rejected", Next PROVE status' = "rejected"
        BY <1>1 DEF vars, row
    <2>1. \A u \in Users : pc[u] = "idle"
        BY <1>1 DEF SeqInv, CommandInv, RejectionStops, AllIdle
    <2> QED
        BY <2>1, TopologyAssumption
           DEF Next, ProcessStep, CreateRun, OpenReview, Approvable, AbortReview, Reject, Resume,
               StartGraph, RunStage, ReachGate, PassGate, Runnable, Advance, ReadState,
               ReportStatus, ReportCompleted, AsksForFeedback, Crash, CrashAfterNode,
               PlainStatus
<1> QED
    BY <1>1, SeqInductive, PTL DEF Spec, RejectionIsFinal

-----------------------------------------------------------------------------
(* The checkpoint                                                          *)

\* The latest checkpoint changes in two ways.
LEMMA CheckpointSteps ==
    ASSUME IInv, SeqInv, Next, ckpt' # ckpt
    PROVE  \/ \E u \in Users : StartGraph(u)
           \/ \E u \in Users : Advance(u)
<1> USE DEF store, row, events
<1> QED
    BY DEF Next, ProcessStep, CreateRun, OpenReview, AbortReview, Reject, Resume, RunStage,
           ReachGate, PassGate, ReadState, ReportStatus, ReportCompleted, Crash,
           CrashAfterNode

\* The checkpoint only grows when commands do not overlap, however many of them
\* die: a process that stores one has continued the latest.
THEOREM CheckpointOnlyGrows ==
    ASSUME Overlap = FALSE
    PROVE  Spec => CheckpointNeverGoesBack
<1>1. ASSUME IInv, SeqInv, [Next]_vars PROVE [ckpt.done \subseteq ckpt'.done]_ckpt
    <2> SUFFICES ASSUME ckpt' # ckpt, Next PROVE ckpt.done \subseteq ckpt'.done
        BY <1>1 DEF vars, store
    <2>1. ASSUME NEW u \in Users, StartGraph(u) PROVE ckpt.done \subseteq ckpt'.done
        BY <1>1, <2>1 DEF StartGraph, SeqInv, CommandInv, NotStarted
    <2>2. ASSUME NEW u \in Users, Advance(u) PROVE ckpt.done \subseteq ckpt'.done
        BY <1>1, <2>2 DEF Advance, SeqInv, CommandInv, GraphIsLatest
    <2> QED
        BY <1>1, <2>1, <2>2, CheckpointSteps
<1> QED
    BY <1>1, SeqInductive, PTL DEF Spec, CheckpointNeverGoesBack

-----------------------------------------------------------------------------
(* Nothing runs twice                                                      *)

LEMMA TriggerStep ==
    ASSUME NEW R \in SUBSET Nodes, TriggeredOnceIn(R),
           IInv, SeqInv, TriggerInv(R), [Next]_vars
    PROVE  TriggerInv(R)'
<1>t. TypeOK
    BY DEF IInv
<1>1. ASSUME NEW u \in Users, StartGraph(u) PROVE TriggerInv(R)'
    BY <1>1 DEF StartGraph, TriggerInv, TriggeredOnceIn, RunsToTheEnd, SeqInv, CommandInv, NotStarted
<1>2. ASSUME NEW u \in Users, Advance(u) PROVE TriggerInv(R)'
    <2> DEFINE S == Successors(ckpt.done, ckpt.next)
    <2>1. /\ ckpt'.done = ckpt.done \cup ckpt.next
          /\ ckpt'.next = S
          /\ writes' = {}
        BY <1>2 DEF Advance, SeqInv, CommandInv, GraphIsLatest
    <2>2. ASSUME NEW n \in S
          PROVE  \E f \in Edges : /\ f.to = n /\ f.from \subseteq R
                                  /\ f.from \subseteq ckpt.done \cup ckpt.next
                                  /\ f.from \cap ckpt.next # {}
        BY <2>2 DEF Successors, TriggerInv
    <2>3. S \subseteq R
        BY <2>2 DEF TriggeredOnceIn, RunsToTheEnd
    <2>4. (ckpt.done \cup ckpt.next) \cap S = {}
        BY <2>2 DEF TriggerInv
    <2>5. ASSUME NEW e \in Edges, e.from \subseteq R, e.to \in ckpt.done \cup ckpt.next \cup S
          PROVE  e.from \subseteq ckpt.done \cup ckpt.next
        <3>1. CASE e.to \in ckpt.done \cup ckpt.next
            BY <2>5, <3>1 DEF TriggerInv
        <3>2. CASE e.to \in S
            BY <2>2, <2>5, <3>2 DEF TriggeredOnceIn
        <3> QED
            BY <2>5, <3>1, <3>2
    <2> HIDE DEF S
    <2> QED
        BY <2>1, <2>3, <2>4, <2>5 DEF TriggerInv
<1>3. ASSUME NEW u \in Users, NEW n \in Nodes, RunStage(u, n) \/ PassGate(u, n)
      PROVE  TriggerInv(R)'
    <2>1. ckpt' = ckpt /\ writes' = writes \cup {n}
        BY <1>3 DEF RunStage, PassGate, Completes, Runnable, SeqInv, CommandInv, GraphIsLatest
    <2>2. n \in ckpt.next
        BY <1>3 DEF RunStage, PassGate, Runnable, SeqInv, CommandInv, GraphIsLatest
    <2> QED
        BY <2>1, <2>2 DEF TriggerInv
<1>4. CASE UNCHANGED <<ckpt, writes>>
    BY <1>4 DEF TriggerInv
<1> QED
    BY <1>1, <1>2, <1>3, <1>4
       DEF Next, ProcessStep, CreateRun, OpenReview, AbortReview, Reject, Resume, LoadCheckpoint,
           ReachGate, ReadState, ReportStatus, ReportCompleted, Crash, CrashAfterNode,
           vars, store, row, events

\* In a graph that triggers each node once, a process that continues after crashes
\* has no node to run whose completion is stored.
THEOREM NothingEverRunsTwice ==
    ASSUME NEW R \in SUBSET Nodes, TriggeredOnceIn(R), Overlap = FALSE
    PROVE  Spec => []NothingRunsTwice
<1>1. Init => TriggerInv(R)
    BY DEF Init, TriggerInv
<1>2. IInv /\ SeqInv /\ TriggerInv(R) /\ [Next]_vars => TriggerInv(R)'
    BY TriggerStep
<1>3. IInv /\ SeqInv /\ TriggerInv(R) => NothingRunsTwice
    BY DEF SeqInv, CommandInv, GraphIsLatest, TriggerInv, NothingRunsTwice
<1> QED
    BY <1>1, <1>2, <1>3, SeqInductive, PTL DEF Spec

=============================================================================
