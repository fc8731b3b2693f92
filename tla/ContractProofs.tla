--------------------------- MODULE ContractProofs ---------------------------
(***************************************************************************)
(* What RunLifecycle guarantees while commands do not overlap and none     *)
(* dies, for every set of users, permission table and stage graph in which *)
(* a gate is scheduled alone: every approval is authorised, between        *)
(* commands the row tells the graph's state, and the run implements        *)
(* GateContract.                                                           *)
(***************************************************************************)
EXTENDS SequentialProofs

-----------------------------------------------------------------------------
(* The inductive invariant                                                 *)

\* The graph has stopped at gate g: nothing else is scheduled, g has interrupted
\* and nobody has passed it.
WaitsAt(g) ==
    /\ g \in Gates
    /\ ckpt.next = {g}
    /\ interrupted = {g}
    /\ writes = {}
    /\ g \notin Passed

GraphIsOver == ckpt.next = {} /\ Entry \in ckpt.done

\* The latest checkpoint is one of C, or there is none; what has passed has
\* completed there.
CheckpointIn(C) ==
    /\ ckpt \in C \/ (ckpt.done = {} /\ ckpt.next = {})
    /\ writes \subseteq ckpt.next
    /\ Passed \subseteq ckpt.done \cup writes
    /\ status = "none" \/ (\E u \in Users : pc[u] = "planning") => interrupted = {}

\* Only an approve command that has passed its gate goes beyond the row.
GatePassedBy(u) == u # submitter => status \in Passed

\* While no process works, the row tells where the graph is.
RowSettled ==
    (\A u \in Users : pc[u] \notin Working) =>
        /\ status \in Gates => WaitsAt(status)
        /\ status = "completed" => GraphIsOver
        /\ status \notin {"running", "unknown_gate"}

ReviewInv ==
    \A u \in Users : pc[u] = "reviewing" =>
        seen[u] = status /\ status \in Gates /\ MayApprove(u, status)

\* A run command works on a row that says so, an approve command on one that
\* still names the gate its user was authorised for.
WorkInv ==
    \A u \in Users :
        /\ pc[u] = "planning" => u = submitter
        /\ pc[u] \in Working =>
              IF u = submitter THEN status = "running" /\ approvals = {}
                               ELSE status \in Gates /\ MayApprove(u, status)

ExecInv ==
    \A u \in Users : pc[u] = "executing" =>
        IF graph[u].resume
        THEN /\ ckpt.next = {status}
             /\ interrupted = {status}
             /\ status \in Passed <=> status \in writes
        ELSE interrupted = {} /\ GatePassedBy(u)

StopInv ==
    \A u \in Users : pc[u] = "stopped" =>
        /\ GatePassedBy(u)
        /\ GraphIsOver \/ (\E g \in Gates : WaitsAt(g))

ReportInv ==
    \A u \in Users : pc[u] = "reporting" =>
        /\ GatePassedBy(u)
        /\ \/ (outcome[u] = "completed" /\ GraphIsOver)
           \/ WaitsAt(outcome[u])

ProcessInv == ReviewInv /\ WorkInv /\ ExecInv /\ StopInv /\ ReportInv

ContractInv(C) == CheckpointIn(C) /\ RowSettled /\ ProcessInv /\ AuthorisedApprovals

-----------------------------------------------------------------------------
(* It is inductive                                                         *)

LEMMA InitContract ==
    ASSUME NEW C
    PROVE  Init => ContractInv(C)
BY TopologyAssumption
   DEF Init, ContractInv, CheckpointIn, RowSettled, ProcessInv, ReviewInv, WorkInv,
       ExecInv, StopInv, ReportInv, AuthorisedApprovals, Passed, PlainStatus, Working

\* The other commands are not there.
LEMMA Alone ==
    ASSUME SeqInv, NEW u \in Users, pc[u] # "idle"
    PROVE  \A v \in Users : v # u => pc[v] = "idle"
BY DEF SeqInv, CommandInv, OneCommand

LEMMA NobodyDies ==
    ASSUME MaxCrashes = 0, TypeOK, NEW u \in Users
    PROVE  ~Crash(u) /\ \A n \in Nodes : ~CrashAfterNode(u, n)
BY DEF TypeOK, Crash, CrashAfterNode

LEMMA GateHasPassed ==
    ASSUME NEW g, NEW u, GateEffects(g, u)
    PROVE  Passed' = Passed \cup {g}
<1>1. approvals' = approvals \cup {<<g, u>>}
    BY DEF GateEffects
<1>2. <<g, u>>[1] = g
    OBVIOUS
<1>3. {a[1] : a \in approvals \cup {<<g, u>>}}
         = {a[1] : a \in approvals} \cup {<<g, u>>[1]}
    BY Zenon
<1> QED
    BY <1>1, <1>2, <1>3 DEF Passed

\* A checkpoint of C in which something is scheduled is a checkpoint of C.
LEMMA ScheduledIn ==
    ASSUME NEW C, GatesAloneIn(C), CheckpointIn(C), ckpt.next # {}
    PROVE  /\ ckpt \in C
           /\ ckpt.done \cap ckpt.next = {}
           /\ \A g \in ckpt.next \cap Gates : ckpt.next = {g}
BY DEF CheckpointIn, GatesAloneIn

\* A process that reaches a gate waits there: the gate is all that is scheduled,
\* and nobody can have passed it.
LEMMA ReachedGateWaits ==
    ASSUME NEW C, GatesAloneIn(C), TypeOK, SeqInv, ContractInv(C),
           NEW u \in Users, NEW g \in Nodes, ReachGate(u, g)
    PROVE  WaitsAt(g)'
<1>1. /\ pc[u] = "executing" /\ g \in Gates /\ ~graph[u].resume
      /\ g \in ckpt.next /\ g \notin writes /\ u \in current
    BY DEF ReachGate, Runnable, SeqInv, CommandInv, GraphIsLatest
<1>2. ckpt.next = {g} /\ g \notin ckpt.done
    BY <1>1, ScheduledIn DEF ContractInv
<1>3. writes = {} /\ g \notin Passed
    BY <1>1, <1>2 DEF ContractInv, CheckpointIn
<1>4. interrupted = {}
    BY <1>1 DEF ContractInv, ProcessInv, ExecInv
<1>5. interrupted' = {g} /\ UNCHANGED <<ckpt, writes, approvals>>
    BY <1>1, <1>4 DEF ReachGate
<1> QED
    BY <1>1, <1>2, <1>3, <1>5 DEF WaitsAt, Passed

LEMMA SnapshotOfStopped ==
    ASSUME NEW u \in Users, pc[u] = "stopped", StopInv
    PROVE  \/ SnapshotStatus = "completed" /\ GraphIsOver
           \/ WaitsAt(SnapshotStatus)
<1>1. CASE GraphIsOver
    BY <1>1 DEF SnapshotStatus, SnapshotNext, GraphIsOver
<1>2. CASE \E g \in Gates : WaitsAt(g)
    <2>1. PICK g \in Gates : WaitsAt(g)
        BY <1>2
    <2>2. (CHOOSE h \in {g} : TRUE) = g
        OBVIOUS
    <2>3. SnapshotStatus = g
        BY <2>1, <2>2 DEF SnapshotStatus, SnapshotNext, WaitsAt
    <2> QED
        BY <2>1, <2>3
<1> QED
    BY <1>1, <1>2 DEF StopInv

\* Each step of the one command there is.
LEMMA ContractStep ==
    ASSUME Overlap = FALSE, MaxCrashes = 0, NEW C, GatesAloneIn(C),
           IInv, SeqInv, ContractInv(C), [Next]_vars
    PROVE  ContractInv(C)'
<1> USE TopologyAssumption
    DEF ContractInv, CheckpointIn, RowSettled, ProcessInv, ReviewInv, WorkInv, ExecInv,
        StopInv, ReportInv, row, events, store, local, Working, PlainStatus
<1>t. TypeOK /\ NothingBeforeTheRow /\ ApproverIsNotSubmitter
    BY DEF IInv, AuthorityInv
<1>a. \A u \in Users : pc[u] # "idle" => \A v \in Users : v # u => pc[v] = "idle"
    BY Alone
<1>p. approvals' = approvals => Passed' = Passed
    BY DEF Passed
<1>w. UNCHANGED <<ckpt, writes, interrupted, approvals>>
          => (\A g : WaitsAt(g)' <=> WaitsAt(g)) /\ (GraphIsOver' <=> GraphIsOver)
    BY <1>p DEF WaitsAt, GraphIsOver
<1>1. ASSUME NEW u \in Users, CreateRun(u) PROVE ContractInv(C)'
    BY <1>t, <1>a, <1>p, <1>w, <1>1
       DEF CreateRun, Launchable, TypeOK, NothingBeforeTheRow, AuthorisedApprovals
<1>2. ASSUME NEW u \in Users, StartGraph(u) PROVE ContractInv(C)'
    <2>1. /\ u = submitter /\ status = "running" /\ approvals = {} /\ interrupted = {}
          /\ writes = {}
        BY <1>2 DEF StartGraph, SeqInv, CommandInv, NotStarted
    <2>2. ckpt' \in C /\ ckpt'.next = {Entry}
        BY <1>2 DEF StartGraph, GatesAloneIn
    <2> QED
        BY <1>t, <1>a, <1>p, <1>w, <1>2, <2>1, <2>2
           DEF StartGraph, TypeOK, AuthorisedApprovals, GatePassedBy, Passed, NoGraph
<1>3. ASSUME NEW u \in Users, OpenReview(u) PROVE ContractInv(C)'
    BY <1>t, <1>a, <1>p, <1>w, <1>3
       DEF OpenReview, Approvable, MayApprove, Launchable, TypeOK, AuthorisedApprovals
<1>4. ASSUME NEW u \in Users, AbortReview(u) PROVE ContractInv(C)'
    BY <1>t, <1>a, <1>p, <1>w, <1>4 DEF AbortReview, Ends, TypeOK, AuthorisedApprovals
<1>5. ASSUME NEW u \in Users, Reject(u) PROVE ContractInv(C)'
    BY <1>t, <1>a, <1>p, <1>w, <1>5
       DEF Reject, UpdateRunRejected, Ends, TypeOK, AuthorisedApprovals
<1>6. ASSUME NEW u \in Users, Resume(u) PROVE ContractInv(C)'
    <2>1. MayApprove(u, status) /\ WaitsAt(status)
        BY <1>t, <1>a, <1>6 DEF Resume
    <2>2. pc' = [pc EXCEPT ![u] = "executing"] /\ graph'[u].resume
        BY <1>t, <1>6, <2>1 DEF Resume, LoadCheckpoint, WaitsAt, TypeOK
    <2> QED
        BY <1>t, <1>a, <1>p, <1>w, <1>6, <2>1, <2>2
           DEF Resume, WaitsAt, MayApprove, TypeOK, AuthorisedApprovals
<1>7. ASSUME NEW u \in Users, NEW n \in Nodes, RunStage(u, n) PROVE ContractInv(C)'
    <2>1. /\ pc[u] = "executing" /\ n \in Stages /\ n \in ckpt.next
          /\ pc' = pc /\ ckpt' = ckpt /\ interrupted' = interrupted /\ approvals' = approvals
          /\ status' = status /\ submitter' = submitter
          /\ writes' = writes \cup {n}
          /\ graph' = [graph EXCEPT ![u].fin = @ \cup {n}]
        BY <1>7 DEF RunStage, Runnable, Completes, StageEffects, SeqInv, CommandInv, GraphIsLatest
    <2>2. ~graph[u].resume
        BY <1>t, <2>1 DEF ApproverIsNotSubmitter
    <2>3. ~graph'[u].resume
        BY <1>t, <2>1, <2>2 DEF TypeOK, GraphType
    <2> QED
        BY <1>t, <1>a, <1>p, <2>1, <2>2, <2>3
           DEF MayApprove, TypeOK, AuthorisedApprovals, GatePassedBy
<1>8. ASSUME NEW u \in Users, NEW g \in Nodes, ReachGate(u, g) PROVE ContractInv(C)'
    <2>1. /\ pc[u] = "executing" /\ ~graph[u].resume /\ g \in Gates
          /\ pc' = [pc EXCEPT ![u] = "stopped"]
          /\ UNCHANGED <<status, submitter, approvals, ckpt, writes>>
        BY <1>8 DEF ReachGate, Runnable
    <2>2. WaitsAt(g)'
        BY <1>8, <1>t, ReachedGateWaits
    <2>3. StopInv'
        <3>1. \A v \in Users : v # u => pc'[v] = "idle"
            BY <1>t, <1>a, <2>1 DEF TypeOK
        <3>2. GatePassedBy(u)'
            BY <1>p, <2>1 DEF GatePassedBy
        <3> QED
            BY <2>1, <2>2, <3>1, <3>2
    <2>4. CheckpointIn(C)'
        BY <1>t, <1>a, <1>p, <2>1 DEF TypeOK
    <2> QED
        BY <1>t, <1>a, <2>1, <2>3, <2>4 DEF MayApprove, TypeOK, AuthorisedApprovals
<1>9. ASSUME NEW u \in Users, NEW g \in Nodes, PassGate(u, g) PROVE ContractInv(C)'
    <2>1. /\ pc[u] = "executing" /\ graph[u].resume /\ g \in Gates /\ g \in ckpt.next
          /\ pc' = pc /\ ckpt' = ckpt /\ interrupted' = interrupted
          /\ status' = status /\ submitter' = submitter
          /\ writes' = writes \cup {g}
          /\ graph' = [graph EXCEPT ![u].fin = @ \cup {g}]
          /\ approvals' = approvals \cup {<<g, u>>}
        BY <1>9 DEF PassGate, Runnable, Completes, GateEffects, SeqInv, CommandInv, GraphIsLatest
    <2>2. g = status /\ u # submitter /\ MayApprove(u, status)
        BY <1>t, <2>1 DEF ApproverIsNotSubmitter
    <2>3. graph'[u].resume
        BY <1>t, <2>1 DEF TypeOK, GraphType
    <2>4. Passed' = Passed \cup {g}
        BY <1>9, GateHasPassed DEF PassGate
    <2>5. AuthorisedApprovals'
        BY <2>1, <2>2 DEF AuthorisedApprovals, MayApprove
    <2> QED
        BY <1>t, <1>a, <2>1, <2>2, <2>3, <2>4, <2>5 DEF MayApprove, TypeOK
<1>10. ASSUME NEW u \in Users, Advance(u) PROVE ContractInv(C)'
    <2>1. /\ pc[u] = "executing" /\ ckpt.next # {} /\ ckpt.next \subseteq writes
          /\ ckpt' = [done |-> ckpt.done \cup ckpt.next,
                     next |-> Successors(ckpt.done, ckpt.next)]
          /\ writes' = {} /\ interrupted' = {} /\ approvals' = approvals
          /\ status' = status /\ submitter' = submitter
          /\ pc' = [pc EXCEPT ![u] = IF ckpt'.next = {} THEN "stopped" ELSE "executing"]
        BY <1>10 DEF Advance, SeqInv, CommandInv, GraphIsLatest
    <2>2. ~graph'[u].resume
        BY <1>t, <1>10 DEF Advance, TypeOK
    <2>3. ckpt' \in C
        BY <2>1, ScheduledIn DEF GatesAloneIn
    <2>4. GatePassedBy(u)'
        BY <1>p, <2>1 DEF GatePassedBy
    <2>5. ckpt'.next = {} => GraphIsOver'
        BY <2>1 DEF GraphIsOver, IInv, NoNodeForgotten, Pursued
    <2>6. CheckpointIn(C)'
        BY <1>t, <1>a, <1>p, <2>1, <2>3 DEF TypeOK
    <2> QED
        BY <1>t, <1>a, <2>1, <2>2, <2>4, <2>5, <2>6 DEF MayApprove, TypeOK, AuthorisedApprovals
<1>11. ASSUME NEW u \in Users, ReadState(u) PROVE ContractInv(C)'
    <2>1. PICK o : o = SnapshotStatus
        OBVIOUS
    <2>2. outcome'[u] = o
        BY <1>t, <1>11, <2>1 DEF ReadState, TypeOK
    <2>3. /\ pc[u] = "stopped" /\ pc' = [pc EXCEPT ![u] = "reporting"]
          /\ UNCHANGED <<status, submitter, approvals, ckpt, writes, interrupted>>
        BY <1>11 DEF ReadState
    <2>4. (o = "completed" /\ GraphIsOver) \/ WaitsAt(o)
        BY <2>1, <2>3, SnapshotOfStopped
    <2>5. (outcome'[u] = "completed" /\ GraphIsOver') \/ (o = outcome'[u] /\ WaitsAt(o)')
        BY <1>w, <2>2, <2>3, <2>4
    <2>6. ReportInv'
        <3>1. \A v \in Users : v # u => pc'[v] = "idle"
            BY <1>t, <1>a, <2>3 DEF TypeOK
        <3>2. GatePassedBy(u)'
            BY <1>p, <2>3 DEF GatePassedBy
        <3> QED
            BY <2>5, <3>1, <3>2 DEF WaitsAt
    <2> QED
        BY <1>t, <1>a, <1>p, <2>3, <2>6 DEF MayApprove, TypeOK, AuthorisedApprovals
<1>12. ASSUME NEW u \in Users, ReportStatus(u) PROVE ContractInv(C)'
    <2>1. /\ pc[u] = "reporting" /\ pc' = [pc EXCEPT ![u] = "idle"] /\ status' = outcome[u]
          /\ UNCHANGED <<submitter, approvals, ckpt, writes, interrupted>>
        BY <1>12 DEF ReportStatus, UpdateRunStatus, Ends
    <2>2. AllIdle'
        BY <1>t, <1>a, <2>1 DEF TypeOK, AllIdle
    <2>3. PICK o : o = outcome[u]
        OBVIOUS
    <2>4. (o = "completed" /\ GraphIsOver') \/ WaitsAt(o)'
        BY <1>w, <2>1, <2>3
    <2>5. status' = o /\ (o \notin Gates \/ WaitsAt(o)')
        BY <2>1, <2>3, <2>4
    <2>6. RowSettled'
        BY <2>4, <2>5 DEF WaitsAt
    <2>7. CheckpointIn(C)'
        BY <1>p, <2>1, <2>2, <2>4, <2>5 DEF AllIdle, WaitsAt
    <2> QED
        BY <1>p, <2>1, <2>2, <2>6, <2>7 DEF AllIdle, AuthorisedApprovals
<1>13. ASSUME NEW u \in Users, ReportCompleted(u) PROVE ContractInv(C)'
    <2>1. /\ pc[u] = "reporting" /\ pc' = [pc EXCEPT ![u] = "idle"]
          /\ status' = "completed" /\ outcome[u] = "completed"
          /\ UNCHANGED <<submitter, approvals, ckpt, writes, interrupted>>
        BY <1>13 DEF ReportCompleted, AsksForFeedback, UpdateRunCompleted, Ends
    <2>2. AllIdle'
        BY <1>t, <1>a, <2>1 DEF TypeOK, AllIdle
    <2>3. GraphIsOver'
        BY <1>w, <2>1 DEF WaitsAt
    <2> QED
        BY <1>p, <2>1, <2>2, <2>3 DEF AllIdle, AuthorisedApprovals
<1>16. CASE UNCHANGED vars
    BY <1>16, <1>p, <1>w DEF vars, AuthorisedApprovals, GatePassedBy, MayApprove
<1> QED
    BY <1>t, <1>1, <1>2, <1>3, <1>4, <1>5, <1>6, <1>7, <1>8, <1>9, <1>10, <1>11,
       <1>12, <1>13, <1>16, NobodyDies
       DEF Next, ProcessStep

LEMMA ContractInductive ==
    ASSUME Overlap = FALSE, MaxCrashes = 0, NEW C, GatesAloneIn(C)
    PROVE  Spec => [](IInv /\ SeqInv /\ ContractInv(C))
<1>1. Init => ContractInv(C)
    BY InitContract
<1>2. IInv /\ SeqInv /\ ContractInv(C) /\ [Next]_vars => ContractInv(C)'
    BY ContractStep
<1> QED
    BY <1>1, <1>2, SeqInductive, PTL DEF Spec

\* Every approval is by a user who holds the permission of the gate it passes: the
\* gate the user was authorised for is the one the graph resumes at.
THEOREM ApprovalsAreAuthorised ==
    ASSUME Overlap = FALSE, MaxCrashes = 0, NEW C, GatesAloneIn(C)
    PROVE  Spec => []AuthorisedApprovals
<1>1. ContractInv(C) => AuthorisedApprovals
    BY DEF ContractInv
<1> QED
    BY <1>1, ContractInductive, PTL

\* Between commands the row tells the graph's state.
THEOREM RowTellsTheGraph ==
    ASSUME Overlap = FALSE, MaxCrashes = 0, NEW C, GatesAloneIn(C)
    PROVE  Spec => []RowMatchesGraph
<1>1. IInv /\ SeqInv /\ ContractInv(C) => RowMatchesGraph
    <2> SUFFICES ASSUME IInv, SeqInv, ContractInv(C), AllIdle PROVE RowMatchesGraph
        BY DEF RowMatchesGraph
    <2>1. RowSettled /\ \A u \in Users : pc[u] \notin Working
        BY DEF ContractInv, AllIdle, Working
    <2>2. status = "none" => ckpt = [done |-> {}, next |-> {}]
        BY DEF SeqInv, CommandInv, NotStarted, IInv, TypeOK
    <2> QED
        BY <2>1, <2>2 DEF RowSettled, WaitsAt, GraphIsOver, RowMatchesGraph
<1> QED
    BY <1>1, ContractInductive, PTL

\* While none dies, the commands leave a run that is not over at a gate, where an
\* approve command can continue it.
THEOREM NoRunIsAbandoned ==
    ASSUME Overlap = FALSE, MaxCrashes = 0, NEW C, GatesAloneIn(C)
    PROVE  Spec => []AbandonedRunCanContinue
<1>1. IInv /\ ContractInv(C) => AbandonedRunCanContinue
    BY DEF IInv, TypeOK, Status, PlainStatus, ContractInv, RowSettled, AllIdle, Working,
           AbandonedRunCanContinue
<1> QED
    BY <1>1, ContractInductive, PTL

-----------------------------------------------------------------------------
(* The run implements the contract                                         *)

\* The gate GateContract sees.
GateWaitedAt == IF Phase = "waiting" THEN status ELSE "none"

\* What GateContract sees of a row.
RowSeen ==
    /\ status \in Gates /\ status \in Passed => Phase = "working" /\ GateWaitedAt = "none"
    /\ status \in Gates /\ status \notin Passed => Phase = "waiting" /\ GateWaitedAt = status
    /\ status = "running" => Phase = "working" /\ GateWaitedAt = "none"
    /\ status \in {"none", "completed", "rejected"} => Phase = status /\ GateWaitedAt = "none"

LEMMA SeenRow == RowSeen /\ RowSeen'
<1> USE TopologyAssumption DEF PlainStatus
<1>1. RowSeen
    BY DEF RowSeen, Phase, GateWaitedAt
<1>2. RowSeen'
    BY DEF RowSeen, Phase, GateWaitedAt
<1> QED
    BY <1>1, <1>2

LEMMA ContractStutters ==
    ASSUME UNCHANGED <<status, approvals, submitter, reviewedBy>>
    PROVE  UNCHANGED Contract!vars
BY DEF Contract!vars, Phase, Passed

\* Every step of the run is one of the contract, or changes nothing it sees.
LEMMA ContractSimulation ==
    ASSUME Overlap = FALSE, MaxCrashes = 0, MandatoryGates # {}, NEW C, GatesAloneIn(C),
           IInv, SeqInv, ContractInv(C), [Next]_vars
    PROVE  [Contract!Next]_(Contract!vars)
<1> USE DEF row, events, GateWaitedAt
<1>t. TypeOK /\ NothingBeforeTheRow /\ ApproverIsNotSubmitter
    BY DEF IInv, AuthorityInv
<1>p. approvals' = approvals => Passed' = Passed
    BY DEF Passed
<1>1. ASSUME NEW u \in Users, CreateRun(u) PROVE Contract!Next
    <2>1. Contract!Submit(u)
        BY <1>1, <1>p, SeenRow DEF CreateRun, Contract!Submit, RowSeen
    <2> QED
        BY <2>1 DEF Contract!Next
<1>2. ASSUME NEW u \in Users, Reject(u) PROVE Contract!Next
    <2>1. status \in Gates /\ MayApprove(u, status) /\ status \notin Passed
        <3>1. \A v \in Users : pc[v] \notin Working
            BY <1>2, Alone DEF Reject, Working
        <3> QED
            BY <1>2, <3>1
               DEF Reject, ContractInv, ProcessInv, ReviewInv, RowSettled, WaitsAt
    <2>2. Contract!Reject(u)
        BY <1>2, <1>p, <2>1, SeenRow
           DEF Reject, UpdateRunRejected, MayApprove, Contract!Reject, Contract!MayDecide, RowSeen
    <2> QED
        BY <2>2 DEF Contract!Next
<1>3. ASSUME NEW u \in Users, NEW g \in Nodes, PassGate(u, g) PROVE Contract!Next
    <2>1. /\ pc[u] = "executing" /\ graph[u].resume /\ g \in ckpt.next /\ g \notin writes
          /\ UNCHANGED <<status, submitter, reviewedBy>>
        BY <1>3 DEF PassGate, Runnable, SeqInv, CommandInv, GraphIsLatest
    <2>2. g = status /\ status \notin Passed
        BY <2>1 DEF ContractInv, ProcessInv, ExecInv
    <2>3. status \in Gates /\ MayApprove(u, status)
        BY <1>t, <2>1 DEF ContractInv, ProcessInv, WorkInv, Working, ApproverIsNotSubmitter
    <2>4. Passed' = Passed \cup {g}
        BY <1>3, GateHasPassed DEF PassGate
    <2>5. Contract!Approve(u)
        BY <2>1, <2>2, <2>3, <2>4, SeenRow
           DEF MayApprove, Contract!Approve, Contract!MayDecide, RowSeen
    <2> QED
        BY <2>5 DEF Contract!Next
<1>r. ASSUME NEW u \in Users, pc[u] = "reporting"
      PROVE  Phase = "working" /\ (u = submitter => approvals = {})
    BY <1>r, SeenRow
       DEF ContractInv, ProcessInv, WorkInv, ReportInv, GatePassedBy, Working, RowSeen
<1>c. ASSUME NEW u \in Users, pc[u] = "reporting", outcome[u] = "completed"
      PROVE  u # submitter /\ MandatoryGates \subseteq Passed
    <2>1. MandatoryPassed
        BY <1>c DEF SeqInv, CompletionInv, CompletionIsEarned
    <2> QED
        BY <1>c, <1>r, <2>1 DEF MandatoryPassed, Passed
<1>4. ASSUME NEW u \in Users, ReportStatus(u) PROVE Contract!Next
    <2>1. /\ pc[u] = "reporting" /\ status' = outcome[u]
          /\ UNCHANGED <<submitter, reviewedBy, approvals>>
        BY <1>4 DEF ReportStatus, UpdateRunStatus
    <2>2. PICK g : g = outcome[u]
        OBVIOUS
    <2>3. g \in Gates /\ g \notin Passed
        BY <1>4, <1>c, <2>2
           DEF ReportStatus, ContractInv, ProcessInv, ReportInv, WaitsAt
    <2>4. Contract!Pause(g)
        BY <1>p, <1>r, <2>1, <2>2, <2>3, SeenRow DEF Contract!Pause, RowSeen
    <2> QED
        BY <2>3, <2>4 DEF Contract!Next
<1>5. ASSUME NEW u \in Users, ReportCompleted(u) PROVE Contract!Next
    <2>1. Contract!Complete(u)
        BY <1>5, <1>p, <1>r, <1>c, SeenRow
           DEF ReportCompleted, AsksForFeedback, UpdateRunCompleted, Contract!Complete, RowSeen
    <2> QED
        BY <2>1 DEF Contract!Next
<1>6. CASE UNCHANGED <<status, approvals, submitter, reviewedBy>>
    BY <1>6, ContractStutters
<1> QED
    BY <1>t, <1>1, <1>2, <1>3, <1>4, <1>5, <1>6, NobodyDies
       DEF Next, ProcessStep, StartGraph, OpenReview, AbortReview, Resume, RunStage,
           StageEffects, ReachGate, Advance, ReadState, vars

LEMMA ContractInit == Init => Contract!Init
BY SeenRow DEF Init, RowSeen, GateWaitedAt, Passed, Contract!Init

\* The run, as its row and its audit events show it, implements the contract of the
\* gates: one submission, a pause at each gate it has not passed, an approval or a
\* rejection there by an authorised user who is not the submitter, and completion
\* after all mandatory gates, closed by such a user too.
THEOREM RunImplementsContract ==
    ASSUME Overlap = FALSE, MaxCrashes = 0, MandatoryGates # {}, NEW C, GatesAloneIn(C)
    PROVE  Spec => ContractSpec
<1>1. Init => Contract!Init
    BY ContractInit
<1>2. IInv /\ SeqInv /\ ContractInv(C) /\ [Next]_vars => [Contract!Next]_(Contract!vars)
    BY ContractSimulation
<1> QED
    BY <1>1, <1>2, ContractInductive, PTL DEF Spec, ContractSpec, Contract!Spec

=============================================================================
