------------------------------ MODULE Pipeline ------------------------------
(***************************************************************************)
(* The stage graph of a run and the permission each of its gates asks for. *)
(* Every scenario (greenfield, brownfield, ambiguous) compiles this graph. *)
(* An edge [from |-> S, to |-> n] schedules node n once every node of S    *)
(* has completed; an S of two nodes is a LangGraph join.                   *)
(***************************************************************************)

PipelineStages ==
    {"requirements_analysis", "architecture_design", "implementation_plan",
     "test_plan", "implementation", "unit_tests", "integration_tests",
     "documentation", "release_readiness"}

PipelineGates ==
    {"architecture_gate", "schema_gate", "tests_gate", "pr_gate", "release_gate"}

PipelineEntry == "requirements_analysis"

\* The node a requirement enters at is scheduled by the input alone; all the
\* unconditional edges of build_graph.
FixedEdges ==
    {[from |-> {"requirements_analysis"}, to |-> "architecture_design"],
     [from |-> {"architecture_design"},   to |-> "architecture_gate"],
     [from |-> {"architecture_gate"},     to |-> "implementation_plan"],
     [from |-> {"architecture_gate"},     to |-> "test_plan"],
     [from |-> {"implementation_plan", "test_plan"}, to |-> "implementation"],
     [from |-> {"schema_gate"},           to |-> "unit_tests"],
     [from |-> {"schema_gate"},           to |-> "integration_tests"],
     [from |-> {"unit_tests", "integration_tests"}, to |-> "tests_gate"],
     [from |-> {"tests_gate"},            to |-> "documentation"],
     [from |-> {"documentation"},         to |-> "pr_gate"],
     [from |-> {"pr_gate"},               to |-> "release_readiness"],
     [from |-> {"release_readiness"},     to |-> "release_gate"]}

\* The conditional edge out of implementation, by the value of the state's
\* schema_change_detected.
ImplementationEdges(schemaChange) ==
    LET targets == IF schemaChange THEN {"schema_gate"}
                                   ELSE {"unit_tests", "integration_tests"}
    IN {[from |-> {"implementation"}, to |-> n] : n \in targets}

\* The planner puts schema_change_detected = False in the initial state and no
\* node returns another value for it.
SchemaChangeDetected == FALSE

PipelineEdges == FixedEdges \cup ImplementationEdges(SchemaChangeDetected)

\* The permission a gate's approver needs.
PipelineGatePermission ==
    [g \in PipelineGates |->
        IF g \in {"architecture_gate", "tests_gate"} THEN "approve_architecture"
        ELSE IF g = "schema_gate" THEN "approve_schema_change"
        ELSE "approve_release"]

\* The gates no path through the graph avoids.
PipelineMandatoryGates ==
    {"architecture_gate", "tests_gate", "pr_gate", "release_gate"}

=============================================================================
