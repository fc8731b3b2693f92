CONSTANTS
    Users <- MCUsers
    NoUser = NoUser
    Perms <- MCPerms
    Stages <- PipelineStages
    Gates <- PipelineGates
    Entry <- PipelineEntry
    Edges <- PipelineEdges
    GatePermission <- PipelineGatePermission
    MandatoryGates <- PipelineMandatoryGates
    Failable <- MCFailable
    Overlap = FALSE
    MaxCrashes = 1
SPECIFICATION Spec
CHECK_DEADLOCK FALSE
INVARIANTS
    AbandonedRunCanContinue
