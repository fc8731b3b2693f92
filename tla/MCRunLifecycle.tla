--------------------------- MODULE MCRunLifecycle ---------------------------
(***************************************************************************)
(* RunLifecycle on the pipeline of build_graph, with the users of          *)
(* users.yaml: alice (DEVELOPER), bob (TECH_LEAD), carol (RELEASE_MANAGER). *)
(***************************************************************************)
EXTENDS RunLifecycle, Pipeline, Rbac

MCUsers == {"alice", "bob", "carol"}
MCPerms == PermissionsOf(MCUsers)
\* What SequentialProofs assumes of a stage graph, for the one of build_graph.
ASSUME PipelineTriggersOnce == \E R \in SUBSET Nodes : TriggeredOnceIn(R)

\* The checkpoints of an uninterrupted run.
PipelineCheckpoint[n \in 0..Cardinality(Nodes)] ==
    IF n = 0 THEN [done |-> {}, next |-> {Entry}]
    ELSE LET c == PipelineCheckpoint[n - 1]
         IN  [done |-> c.done \cup c.next, next |-> Successors(c.done, c.next)]

\* What ContractProofs assumes of one.
ASSUME PipelineGatesAlone ==
    GatesAloneIn({PipelineCheckpoint[n] : n \in 0..Cardinality(Nodes)})

MCFailable == {"implementation"}

=============================================================================
