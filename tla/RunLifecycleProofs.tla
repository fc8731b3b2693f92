------------------------- MODULE RunLifecycleProofs -------------------------
(***************************************************************************)
(* What RunLifecycle guarantees for every set of users, every permission   *)
(* table and every stage graph, with any number of overlapping commands    *)
(* and crashes: type correctness, four eyes, no node ahead of its sources, *)
(* evidence before review, and no due node forgotten.                      *)
(***************************************************************************)
EXTENDS RunLifecycle, TLAPS

-----------------------------------------------------------------------------
(* The inductive invariant                                                 *)

\* What has completed, in any process's view of the graph, has run to its end.
CompletedNodesExecuted ==
    /\ ckpt.done \cup writes \subseteq Executed
    /\ \A u \in Users : graph[u].done \cup graph[u].fin \subseteq Executed

\* What is scheduled is scheduled by sources that have run to their end.
ScheduledNodesHaveSources ==
    /\ \A n \in ckpt.next : Upstream(n)
    /\ \A u \in Users : \A n \in graph[u].next : Upstream(n)

\* A gate somebody may name, in the row or on the way to it, has been reached.
NamedGatesReached ==
    /\ status \in Gates => status \in reached
    /\ interrupted \subseteq reached
    /\ \A u \in Users : /\ outcome[u] \in Gates => outcome[u] \in reached
                        /\ pc[u] = "reviewing" => seen[u] \in reached

\* Before the row exists nothing has happened; the submitter never changes after.
NothingBeforeTheRow ==
    /\ status = "none" => /\ approvals = {}
                          /\ reviewedBy = NoUser
                          /\ \A u \in Users : pc[u] = "idle" /\ ~graph[u].resume
    /\ \A u \in Users : pc[u] = "reporting" => outcome[u] # "none"

\* Only a command that passed request_approval carries a resume value.
ApproverIsNotSubmitter ==
    \A u \in Users : \/ pc[u] = "reviewing"
                     \/ graph[u].resume
                     => u # submitter

\* D and N: nodes completed and scheduled.  The graph has started, and what the
\* completed nodes schedule has completed or is scheduled.
Pursued(D, N) ==
    /\ Entry \in D \cup N
    /\ \A e \in Edges : e.from \subseteq D => e.to \in D \cup N

\* No process loses track of a node that is due.
NoNodeForgotten ==
    /\ reached # {} => Pursued(ckpt.done, ckpt.next)
    /\ \A u \in Users :
          /\ pc[u] \in {"executing", "stopped"} => Pursued(ckpt.done, ckpt.next)
          /\ pc[u] = "executing" => Pursued(graph[u].done, graph[u].next)

\* Who may act and what may run.
AuthorityInv == FourEyes /\ NothingBeforeTheRow /\ ApproverIsNotSubmitter

OrderInv ==
    /\ NothingRunsEarly
    /\ CompletedNodesExecuted
    /\ ScheduledNodesHaveSources
    /\ NamedGatesReached

IInv == TypeOK /\ AuthorityInv /\ OrderInv /\ NoNodeForgotten

-----------------------------------------------------------------------------
(* Type correctness                                                        *)

LEMMA SnapshotIsStatus == TypeOK => SnapshotStatus \in Status \ {"none", "running"}
<1> SUFFICES ASSUME TypeOK PROVE SnapshotStatus \in Status \ {"none", "running"}
    OBVIOUS
<1>1. CASE interrupted # {}
    <2>1. (CHOOSE g \in interrupted : TRUE) \in interrupted
        BY <1>1
    <2>2. (CHOOSE g \in interrupted : TRUE) \in Gates
        BY <2>1 DEF TypeOK
    <2> QED
        BY <1>1, <2>2, TopologyAssumption DEF SnapshotStatus, Status, PlainStatus
<1>2. CASE interrupted = {}
    BY <1>2 DEF SnapshotStatus, Status, PlainStatus
<1> QED
    BY <1>1, <1>2

LEMMA SuccessorsAreNodes == \A done, S : Successors(done, S) \subseteq Nodes
BY TopologyAssumption DEF Successors

LEMMA InitTypeOK == Init => TypeOK
BY TopologyAssumption, BoundAssumption
   DEF Init, TypeOK, Status, PlainStatus, GraphType, NoGraph, Nodes

\* Every variable keeps its type, whatever command takes a step.
LEMMA TypeOKStep == TypeOK /\ [Next]_vars => TypeOK'
<1> SUFFICES ASSUME TypeOK, [Next]_vars PROVE TypeOK'
    OBVIOUS
<1> USE DEF TypeOK, row, events, store
<1> NoGraph \in GraphType
    BY DEF NoGraph, GraphType
<1>1. ASSUME NEW u \in Users, CreateRun(u) PROVE TypeOK'
    BY <1>1 DEF CreateRun, Status, PlainStatus, Working
<1>2. ASSUME NEW u \in Users, StartGraph(u) PROVE TypeOK'
    <2>1. Entry \in Nodes
        BY TopologyAssumption DEF Nodes
    <2>2. [NoGraph EXCEPT !.next = {Entry}] \in GraphType
        BY <2>1 DEF NoGraph, GraphType
    <2> QED
        BY <1>2, <2>1, <2>2 DEF StartGraph, Working
<1>3. ASSUME NEW u \in Users, OpenReview(u) PROVE TypeOK'
    BY <1>3 DEF OpenReview, Approvable
<1>4. ASSUME NEW u \in Users, AbortReview(u) PROVE TypeOK'
    BY <1>4 DEF AbortReview, Ends, Status, PlainStatus
<1>5. ASSUME NEW u \in Users, Reject(u) PROVE TypeOK'
    BY <1>5 DEF Reject, UpdateRunRejected, Ends, Status, PlainStatus
<1>6. ASSUME NEW u \in Users, Resume(u) PROVE TypeOK'
    BY <1>6 DEF Resume, LoadCheckpoint, GraphType, Working
<1>7. ASSUME NEW u \in Users, NEW n \in Nodes, RunStage(u, n) PROVE TypeOK'
    BY <1>7 DEF RunStage, Completes, StageEffects, GraphType
<1>8. ASSUME NEW u \in Users, NEW g \in Nodes, ReachGate(u, g) PROVE TypeOK'
    BY <1>8 DEF ReachGate, LogReached, Working
<1>9. ASSUME NEW u \in Users, NEW g \in Nodes, PassGate(u, g) PROVE TypeOK'
    BY <1>9 DEF PassGate, Completes, GateEffects, LogReached, GraphType
<1>10. ASSUME NEW u \in Users, Advance(u) PROVE TypeOK'
    BY <1>10, SuccessorsAreNodes DEF Advance, GraphType, Working
<1>11. ASSUME NEW u \in Users, ReadState(u) PROVE TypeOK'
    BY <1>11, SnapshotIsStatus DEF ReadState, Working
<1>12. ASSUME NEW u \in Users, ReportStatus(u) PROVE TypeOK'
    BY <1>12 DEF ReportStatus, UpdateRunStatus, Ends, Status, PlainStatus
<1>13. ASSUME NEW u \in Users, ReportCompleted(u) PROVE TypeOK'
    BY <1>13 DEF ReportCompleted, AsksForFeedback, UpdateRunCompleted, Ends, Status, PlainStatus
<1>14. ASSUME NEW u \in Users, Crash(u) PROVE TypeOK'
    BY <1>14, BoundAssumption DEF Crash, Ends, Status, PlainStatus
<1>15. ASSUME NEW u \in Users, NEW n \in Nodes, CrashAfterNode(u, n) PROVE TypeOK'
    BY <1>15, BoundAssumption
       DEF CrashAfterNode, StageEffects, GateEffects, LogReached, Ends, Status, PlainStatus
<1>16. CASE UNCHANGED vars
    BY <1>16 DEF vars, local
<1> QED
    BY <1>1, <1>2, <1>3, <1>4, <1>5, <1>6, <1>7, <1>8, <1>9, <1>10, <1>11,
       <1>12, <1>13, <1>14, <1>15, <1>16 DEF Next, ProcessStep

\* Type correctness, for all values of the constants.
THEOREM TypeCorrect == Spec => []TypeOK
BY InitTypeOK, TypeOKStep, PTL DEF Spec

-----------------------------------------------------------------------------
(* Authority                                                               *)

LEMMA InitAuthority == Init => AuthorityInv
BY DEF Init, AuthorityInv, FourEyes, NothingBeforeTheRow, ApproverIsNotSubmitter, NoGraph

\* Four eyes survive every step: a resume value is only ever carried by a command
\* whose user passed the check, and the submitter it was checked against stays.
LEMMA AuthorityStep ==
    TypeOK /\ AuthorityInv /\ [Next]_vars => AuthorityInv'
<1> SUFFICES ASSUME TypeOK, AuthorityInv, [Next]_vars PROVE AuthorityInv'
    OBVIOUS
<1> USE TopologyAssumption, UserAssumption
    DEF TypeOK, row, events, store, AuthorityInv, FourEyes, NothingBeforeTheRow,
        ApproverIsNotSubmitter
<1>1. ASSUME NEW u \in Users, CreateRun(u) PROVE AuthorityInv'
    BY <1>1 DEF CreateRun, Launchable
<1>2. ASSUME NEW u \in Users, StartGraph(u) PROVE AuthorityInv'
    BY <1>2 DEF StartGraph, NoGraph
<1>3. ASSUME NEW u \in Users, OpenReview(u) PROVE AuthorityInv'
    <2>1. status # "none" /\ u # submitter
        BY <1>3 DEF OpenReview, Approvable, MayApprove, PlainStatus
    <2>2. FourEyes' /\ ApproverIsNotSubmitter'
        BY <1>3, <2>1 DEF OpenReview, Approvable
    <2>3. NothingBeforeTheRow'
        BY <1>3, <2>1 DEF OpenReview, Approvable
    <2> QED
        BY <2>2, <2>3
<1>4. ASSUME NEW u \in Users, AbortReview(u) PROVE AuthorityInv'
    BY <1>4 DEF AbortReview, Ends, NoGraph
<1>5. ASSUME NEW u \in Users, Reject(u) PROVE AuthorityInv'
    BY <1>5 DEF Reject, UpdateRunRejected, Ends, NoGraph
<1>6. ASSUME NEW u \in Users, Resume(u) PROVE AuthorityInv'
    BY <1>6 DEF Resume, LoadCheckpoint
<1>7. ASSUME NEW u \in Users, NEW n \in Nodes, RunStage(u, n) PROVE AuthorityInv'
    BY <1>7 DEF RunStage, Completes, StageEffects, Runnable
<1>8. ASSUME NEW u \in Users, NEW g \in Nodes, ReachGate(u, g) PROVE AuthorityInv'
    BY <1>8 DEF ReachGate, LogReached, Runnable
<1>9. ASSUME NEW u \in Users, NEW g \in Nodes, PassGate(u, g) PROVE AuthorityInv'
    BY <1>9 DEF PassGate, Completes, GateEffects, LogReached, Runnable
<1>10. ASSUME NEW u \in Users, Advance(u) PROVE AuthorityInv'
    BY <1>10 DEF Advance
<1>11. ASSUME NEW u \in Users, ReadState(u) PROVE AuthorityInv'
    BY <1>11, SnapshotIsStatus DEF ReadState, NoGraph
<1>12. ASSUME NEW u \in Users, ReportStatus(u) PROVE AuthorityInv'
    BY <1>12 DEF ReportStatus, UpdateRunStatus, Ends, NoGraph
<1>13. ASSUME NEW u \in Users, ReportCompleted(u) PROVE AuthorityInv'
    BY <1>13 DEF ReportCompleted, AsksForFeedback, UpdateRunCompleted, Ends, NoGraph
<1>14. ASSUME NEW u \in Users, Crash(u) PROVE AuthorityInv'
    BY <1>14 DEF Crash, Ends, NoGraph
<1>15. ASSUME NEW u \in Users, NEW n \in Nodes, CrashAfterNode(u, n) PROVE AuthorityInv'
    BY <1>15 DEF CrashAfterNode, Runnable, StageEffects, GateEffects, LogReached, Ends, NoGraph
<1>16. CASE UNCHANGED vars
    BY <1>16 DEF vars, local
<1> QED
    BY <1>1, <1>2, <1>3, <1>4, <1>5, <1>6, <1>7, <1>8, <1>9, <1>10, <1>11,
       <1>12, <1>13, <1>14, <1>15, <1>16
       DEF Next, ProcessStep

-----------------------------------------------------------------------------
(* Order                                                                   *)

\* An execution of a stage, or a passage of a gate, adds that node and no other.
LEMMA StageIsExecuted ==
    ASSUME TypeOK, NEW n \in Stages, NEW result \in {"completed", "failed"},
           StageEffects(n, result)
    PROVE  Executed' = Executed \cup {n} /\ reached' = reached
BY DEF TypeOK, StageEffects, Executed

LEMMA GateIsExecuted ==
    ASSUME TypeOK, NEW g \in Gates, NEW u \in Users, GateEffects(g, u)
    PROVE  Executed' = Executed \cup {g} /\ reached' = reached \cup {g}
<1>1. approvals' = approvals \cup {<<g, u>>} /\ UNCHANGED results
    BY DEF GateEffects, LogReached
<1>2. <<g, u>>[1] = g
    OBVIOUS
<1>3. {a[1] : a \in approvals \cup {<<g, u>>}}
         = {a[1] : a \in approvals} \cup {<<g, u>>[1]}
    BY Zenon
<1> QED
    BY <1>1, <1>2, <1>3 DEF GateEffects, LogReached, Executed

LEMMA ExecutedUnchanged ==
    UNCHANGED <<results, approvals>> => Executed' = Executed
BY DEF Executed

\* Sources that have run to their end stay so.
LEMMA UpstreamStays ==
    ASSUME Executed \subseteq Executed', NEW n, Upstream(n)
    PROVE  Upstream(n)'
BY DEF Upstream

\* What a completed superstep schedules has its sources among the completed nodes.
LEMMA SuccessorsHaveSources ==
    ASSUME NEW done, NEW S, done \cup S \subseteq Executed, NEW n \in Successors(done, S)
    PROVE  Upstream(n)
BY DEF Successors, Upstream

LEMMA SnapshotGateIsInterrupted ==
    ASSUME SnapshotStatus \in Gates
    PROVE  SnapshotStatus \in interrupted
<1>1. SnapshotNext # {} /\ interrupted # {}
    BY TopologyAssumption DEF SnapshotStatus, PlainStatus
<1>2. SnapshotStatus = CHOOSE g \in interrupted : TRUE
    BY <1>1 DEF SnapshotStatus
<1> QED
    BY <1>1, <1>2

LEMMA InitOrder == Init => OrderInv
<1> SUFFICES ASSUME Init PROVE OrderInv
    OBVIOUS
<1>1. Executed = {}
    BY DEF Init, Executed
<1> QED
    BY <1>1, TopologyAssumption
       DEF Init, OrderInv, NothingRunsEarly, CompletedNodesExecuted,
           ScheduledNodesHaveSources, NamedGatesReached, NoGraph, PlainStatus

\* What completes was scheduled, and what a superstep schedules has its sources
\* among what has completed; all else copies one view of the graph to another.
LEMMA OrderStep == TypeOK /\ OrderInv /\ [Next]_vars => OrderInv'
<1> SUFFICES ASSUME TypeOK, OrderInv, [Next]_vars PROVE OrderInv'
    OBVIOUS
<1> USE TopologyAssumption
    DEF TypeOK, row, events, store, OrderInv, NothingRunsEarly,
        CompletedNodesExecuted, ScheduledNodesHaveSources, NamedGatesReached
<1>1. ASSUME NEW u \in Users, CreateRun(u) PROVE OrderInv'
    <2>1. Executed' = Executed /\ \A n : Upstream(n) => Upstream(n)'
        BY <1>1, ExecutedUnchanged, UpstreamStays DEF CreateRun
    <2> QED
        BY <1>1, <2>1 DEF CreateRun, PlainStatus
<1>2. ASSUME NEW u \in Users, StartGraph(u) PROVE OrderInv'
    <2>1. Executed' = Executed /\ \A n : Upstream(n) => Upstream(n)'
        BY <1>2, ExecutedUnchanged, UpstreamStays DEF StartGraph
    <2>2. Upstream(Entry)
        BY DEF Upstream
    <2> QED
        BY <1>2, <2>1, <2>2 DEF StartGraph, NoGraph
<1>3. ASSUME NEW u \in Users, OpenReview(u) PROVE OrderInv'
    <2>1. Executed' = Executed /\ \A n : Upstream(n) => Upstream(n)'
        BY <1>3, ExecutedUnchanged, UpstreamStays DEF OpenReview, Approvable
    <2> QED
        BY <1>3, <2>1 DEF OpenReview, Approvable
<1>4. ASSUME NEW u \in Users, AbortReview(u) PROVE OrderInv'
    <2>1. Executed' = Executed /\ \A n : Upstream(n) => Upstream(n)'
        BY <1>4, ExecutedUnchanged, UpstreamStays DEF AbortReview
    <2> QED
        BY <1>4, <2>1 DEF AbortReview, Ends, NoGraph, PlainStatus
<1>5. ASSUME NEW u \in Users, Reject(u) PROVE OrderInv'
    <2>1. Executed' = Executed /\ \A n : Upstream(n) => Upstream(n)'
        BY <1>5, ExecutedUnchanged, UpstreamStays DEF Reject, UpdateRunRejected
    <2> QED
        BY <1>5, <2>1 DEF Reject, UpdateRunRejected, Ends, NoGraph, PlainStatus
<1>6. ASSUME NEW u \in Users, Resume(u) PROVE OrderInv'
    <2>1. Executed' = Executed /\ \A n : Upstream(n) => Upstream(n)'
        BY <1>6, ExecutedUnchanged, UpstreamStays DEF Resume, LoadCheckpoint
    <2> QED
        BY <1>6, <2>1 DEF Resume, LoadCheckpoint
<1>7. ASSUME NEW u \in Users, NEW n \in Nodes, RunStage(u, n) PROVE OrderInv'
    <2>1. Executed' = Executed \cup {n} /\ reached' = reached
        BY <1>7, StageIsExecuted DEF RunStage
    <2>2. Upstream(n)
        BY <1>7 DEF RunStage, Runnable
    <2>3. \A m : Upstream(m) => Upstream(m)'
        BY <2>1, UpstreamStays
    <2> QED
        BY <1>7, <2>1, <2>2, <2>3 DEF RunStage, Completes
<1>8. ASSUME NEW u \in Users, NEW g \in Nodes, ReachGate(u, g) PROVE OrderInv'
    <2>1. Executed' = Executed /\ \A n : Upstream(n) => Upstream(n)'
        BY <1>8, ExecutedUnchanged, UpstreamStays DEF ReachGate, LogReached
    <2>2. Upstream(g)
        BY <1>8 DEF ReachGate, LogReached, Runnable
    <2> QED
        BY <1>8, <2>1, <2>2 DEF ReachGate, LogReached
<1>9. ASSUME NEW u \in Users, NEW g \in Nodes, PassGate(u, g) PROVE OrderInv'
    <2>1. Executed' = Executed \cup {g} /\ reached' = reached \cup {g}
        BY <1>9, GateIsExecuted DEF PassGate
    <2>2. Upstream(g)
        BY <1>9 DEF PassGate, Runnable
    <2>3. \A m : Upstream(m) => Upstream(m)'
        BY <2>1, UpstreamStays
    <2> QED
        BY <1>9, <2>1, <2>2, <2>3 DEF PassGate, Completes
<1>10. ASSUME NEW u \in Users, Advance(u) PROVE OrderInv'
    <2> DEFINE done == graph[u].done \cup graph[u].next
               next == Successors(graph[u].done, graph[u].next)
    <2>1. Executed' = Executed /\ \A n : Upstream(n) => Upstream(n)'
        BY <1>10, ExecutedUnchanged, UpstreamStays DEF Advance
    <2>2. done \subseteq Executed
        BY <1>10 DEF Advance
    <2>3. \A n \in next : Upstream(n)
        BY <2>2, SuccessorsHaveSources
    <2>4. /\ ckpt' = [done |-> done, next |-> next]
          /\ graph' = [graph EXCEPT ![u] = [done |-> done, next |-> next,
                                            fin |-> {}, resume |-> FALSE]]
          /\ writes' = {} /\ interrupted' = {}
          /\ pc'[u] # "reviewing" /\ \A v \in Users \ {u} : pc'[v] = pc[v]
          /\ UNCHANGED <<status, reached, seen, outcome>>
        BY <1>10 DEF Advance
    <2> HIDE DEF done, next
    <2> QED
        BY <2>1, <2>2, <2>3, <2>4
<1>11. ASSUME NEW u \in Users, ReadState(u) PROVE OrderInv'
    <2>1. Executed' = Executed /\ \A n : Upstream(n) => Upstream(n)'
        BY <1>11, ExecutedUnchanged, UpstreamStays DEF ReadState
    <2>2. SnapshotStatus \in Gates => SnapshotStatus \in reached
        BY SnapshotGateIsInterrupted
    <2> QED
        BY <1>11, <2>1, <2>2 DEF ReadState, NoGraph
<1>12. ASSUME NEW u \in Users, ReportStatus(u) PROVE OrderInv'
    <2>1. Executed' = Executed /\ \A n : Upstream(n) => Upstream(n)'
        BY <1>12, ExecutedUnchanged, UpstreamStays DEF ReportStatus, UpdateRunStatus
    <2> QED
        BY <1>12, <2>1 DEF ReportStatus, UpdateRunStatus, Ends, NoGraph, PlainStatus
<1>13. ASSUME NEW u \in Users, ReportCompleted(u) PROVE OrderInv'
    <2>1. Executed' = Executed /\ \A n : Upstream(n) => Upstream(n)'
        BY <1>13, ExecutedUnchanged, UpstreamStays DEF ReportCompleted, UpdateRunCompleted
    <2> QED
        BY <1>13, <2>1 DEF ReportCompleted, AsksForFeedback, UpdateRunCompleted, Ends, NoGraph, PlainStatus
<1>14. ASSUME NEW u \in Users, Crash(u) PROVE OrderInv'
    <2>1. Executed' = Executed /\ \A n : Upstream(n) => Upstream(n)'
        BY <1>14, ExecutedUnchanged, UpstreamStays DEF Crash
    <2> QED
        BY <1>14, <2>1 DEF Crash, Ends, NoGraph, PlainStatus
<1>15. ASSUME NEW u \in Users, NEW n \in Nodes, CrashAfterNode(u, n) PROVE OrderInv'
    <2>1. /\ Executed' = Executed \cup {n}
          /\ reached \subseteq reached' /\ reached' \subseteq reached \cup {n}
        BY <1>15, StageIsExecuted, GateIsExecuted DEF CrashAfterNode
    <2>2. Upstream(n)
        BY <1>15 DEF CrashAfterNode, Runnable
    <2>3. \A m : Upstream(m) => Upstream(m)'
        BY <2>1, UpstreamStays
    <2> QED
        BY <1>15, <2>1, <2>2, <2>3 DEF CrashAfterNode, Ends, NoGraph, PlainStatus
<1>16. CASE UNCHANGED vars
    <2>1. Executed' = Executed /\ \A n : Upstream(n) => Upstream(n)'
        BY <1>16, ExecutedUnchanged, UpstreamStays DEF vars
    <2> QED
        BY <1>16, <2>1 DEF vars, local
<1> QED
    BY <1>1, <1>2, <1>3, <1>4, <1>5, <1>6, <1>7, <1>8, <1>9, <1>10, <1>11,
       <1>12, <1>13, <1>14, <1>15, <1>16
       DEF Next, ProcessStep

-----------------------------------------------------------------------------
(* Pursuit                                                                 *)

\* A graph that has started loses no due node by completing a superstep.
LEMMA AdvancePursues ==
    ASSUME NEW done, NEW S, Pursued(done, S)
    PROVE  Pursued(done \cup S, Successors(done, S))
<1>1. Entry \in done \cup S
    BY DEF Pursued
<1>2. ASSUME NEW e \in Edges, e.from \subseteq done \cup S
      PROVE  e.to \in (done \cup S) \cup Successors(done, S)
    <2>1. CASE e.from \cap S # {}
        BY <1>2, <2>1 DEF Successors
    <2>2. CASE e.from \cap S = {}
        <3>1. e.from \subseteq done
            BY <1>2, <2>2
        <3> QED
            BY <3>1 DEF Pursued
    <2> QED
        BY <2>1, <2>2
<1> QED
    BY <1>1, <1>2 DEF Pursued

LEMMA InitPursuit == Init => NoNodeForgotten
BY DEF Init, NoNodeForgotten

\* Also the command that stops, dies or loses its checkpoint to another's.
LEMMA PursuitStep ==
    TypeOK /\ OrderInv /\ NoNodeForgotten /\ [Next]_vars => NoNodeForgotten'
<1> SUFFICES ASSUME TypeOK, OrderInv, NoNodeForgotten, [Next]_vars
             PROVE  NoNodeForgotten'
    OBVIOUS
<1> USE TopologyAssumption
    DEF TypeOK, row, events, store, NoNodeForgotten
<1>1. ASSUME NEW u \in Users, CreateRun(u) PROVE NoNodeForgotten'
    BY <1>1 DEF CreateRun
<1>2. ASSUME NEW u \in Users, StartGraph(u) PROVE NoNodeForgotten'
    <2>1. Pursued({}, {Entry})
        BY DEF Pursued
    <2> QED
        BY <1>2, <2>1 DEF StartGraph, NoGraph
<1>3. ASSUME NEW u \in Users, OpenReview(u) PROVE NoNodeForgotten'
    BY <1>3 DEF OpenReview, Approvable
<1>4. ASSUME NEW u \in Users, AbortReview(u) PROVE NoNodeForgotten'
    BY <1>4 DEF AbortReview, Ends
<1>5. ASSUME NEW u \in Users, Reject(u) PROVE NoNodeForgotten'
    BY <1>5 DEF Reject, UpdateRunRejected, Ends
<1>6. ASSUME NEW u \in Users, Resume(u) PROVE NoNodeForgotten'
    <2>1. Pursued(ckpt.done, ckpt.next)
        BY <1>6 DEF Resume, LoadCheckpoint, OrderInv, NamedGatesReached
    <2> QED
        BY <1>6, <2>1 DEF Resume, LoadCheckpoint
<1>7. ASSUME NEW u \in Users, NEW n \in Nodes, RunStage(u, n) PROVE NoNodeForgotten'
    BY <1>7 DEF RunStage, StageEffects, Completes
<1>8. ASSUME NEW u \in Users, NEW g \in Nodes, ReachGate(u, g) PROVE NoNodeForgotten'
    BY <1>8 DEF ReachGate, LogReached, Runnable
<1>9. ASSUME NEW u \in Users, NEW g \in Nodes, PassGate(u, g) PROVE NoNodeForgotten'
    BY <1>9 DEF PassGate, GateEffects, LogReached, Completes, Runnable
<1>10. ASSUME NEW u \in Users, Advance(u) PROVE NoNodeForgotten'
    <2> DEFINE done == graph[u].done \cup graph[u].next
               next == Successors(graph[u].done, graph[u].next)
    <2>1. Pursued(done, next)
        BY <1>10, AdvancePursues DEF Advance
    <2>2. /\ ckpt' = [done |-> done, next |-> next]
          /\ graph' = [graph EXCEPT ![u] = [done |-> done, next |-> next,
                                            fin |-> {}, resume |-> FALSE]]
          /\ pc' = [pc EXCEPT ![u] = IF next = {} THEN "stopped" ELSE "executing"]
          /\ UNCHANGED <<status, approvals, reached, outcome>>
        BY <1>10 DEF Advance
    <2> HIDE DEF done, next
    <2> QED
        BY <2>1, <2>2
<1>11. ASSUME NEW u \in Users, ReadState(u) PROVE NoNodeForgotten'
    BY <1>11 DEF ReadState
<1>12. ASSUME NEW u \in Users, ReportStatus(u) PROVE NoNodeForgotten'
    BY <1>12 DEF ReportStatus, UpdateRunStatus, Ends
<1>13. ASSUME NEW u \in Users, ReportCompleted(u) PROVE NoNodeForgotten'
    BY <1>13 DEF ReportCompleted, AsksForFeedback, UpdateRunCompleted, Ends
<1>14. ASSUME NEW u \in Users, Crash(u) PROVE NoNodeForgotten'
    BY <1>14 DEF Crash, Ends
<1>15. ASSUME NEW u \in Users, NEW n \in Nodes, CrashAfterNode(u, n) PROVE NoNodeForgotten'
    BY <1>15 DEF CrashAfterNode, StageEffects, GateEffects, LogReached, Ends, Runnable
<1>16. CASE UNCHANGED vars
    BY <1>16 DEF vars, local
<1> QED
    BY <1>1, <1>2, <1>3, <1>4, <1>5, <1>6, <1>7, <1>8, <1>9, <1>10, <1>11,
       <1>12, <1>13, <1>14, <1>15, <1>16
       DEF Next, ProcessStep

-----------------------------------------------------------------------------
(* The theorems                                                            *)

LEMMA Inductive == Spec => []IInv
<1>1. Init => IInv
    BY InitTypeOK, InitAuthority, InitOrder, InitPursuit DEF IInv
<1>2. IInv /\ [Next]_vars => IInv'
    BY TypeOKStep, AuthorityStep, OrderStep, PursuitStep DEF IInv
<1> QED
    BY <1>1, <1>2, PTL DEF Spec

\* Four eyes: no approval, and no row closed by a reviewer, in the submitter's name.
THEOREM FourEyesHolds == Spec => []FourEyes
<1>1. IInv => FourEyes
    BY DEF IInv, AuthorityInv
<1> QED
    BY <1>1, Inductive, PTL

\* No stage and no gate runs before the sources of one of its edges have run.
THEOREM NothingEverRunsEarly == Spec => []NothingRunsEarly
<1>1. IInv => NothingRunsEarly
    BY DEF IInv, OrderInv
<1> QED
    BY <1>1, Inductive, PTL

\* A reviewer is only ever asked about a gate that has been reached, and finds the
\* results of the stages before it.
THEOREM ReviewsHaveEvidence == Spec => []ReviewHasEvidence
<1>1. IInv => ReviewHasEvidence
    BY DEF IInv, OrderInv, NamedGatesReached, NothingRunsEarly, ReviewHasEvidence
<1> QED
    BY <1>1, Inductive, PTL

=============================================================================
