SPECIFICATION Spec
CONSTANTS
    Node = {1, 2, 3, 4, 5}
    NoNode = 0
    NoValue = "none"
    Value <- MCValue
    Op <- MCOp
    Source <- MCSource
    SourceDims <- MCSourceDims
    StateOutput <- MCStateOutput
    Passes <- MCPasses
    Graphs <- MCGraphs
    ReshapeTargets <- MCTargets
INVARIANTS
    TypeOK
    IndexesAgree
    StopsForAReason
PROPERTIES
    OutputsKeepMeaning
