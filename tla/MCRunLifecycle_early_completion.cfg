CONSTANTS
    Users <- MCUsers
    NoUser = NoUser
    Perms <- MCPerms
    Stages <- PipelineStages
    Gates <- PipelineGates
    Entry <- PipelineEntry
    Edges <- PipelineEdges
    GatePermission <- PipelineGatePermission
    MandatoryGates <- PipelineMandatoryGates
    Failable <- MCFailable
    Overlap = TRUE
    MaxCrashes = 0
SPECIFICATION Spec
CHECK_DEADLOCK FALSE
INVARIANTS
    CompletedRunPassedGates
