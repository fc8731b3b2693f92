CONSTANTS
    Users <- MCUsers
    NoUser = NoUser
    Perms <- MCPerms
    Stages <- PipelineStages
    Gates <- PipelineGates
    Entry <- PipelineEntry
    Edges <- PipelineEdges
    GatePermission <- PipelineGatePermission
    MandatoryGates <- PipelineMandatoryGates
    Failable <- MCFailable
    Overlap = FALSE
    MaxCrashes = 0
SPECIFICATION FairSpec
CHECK_DEADLOCK FALSE
INVARIANTS
    AuthorisedApprovals
    RowMatchesGraph
    RejectedRunIsStopped
PROPERTIES
    ContractSpec
    ApprovalMovesRun
