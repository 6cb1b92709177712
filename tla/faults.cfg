CONSTANTS
    c1 = c1  c2 = c2  p1 = p1  p2 = p2  g1 = g1  g2 = g2
    None = None  Absent = Absent  Nil = Nil
    CSVs <- MCCSVs
    PlanIds <- MCPlanIds
    OGIds <- MCOGIds
    PlanShapes <- MCPlanShapes
    PolicySpecs <- ErrSpecs
    InitClusters <- ErrClusters
    PolicyCacheLag = FALSE
    EditOutcomes = {"Match", "Drift", "Immutable"}
    Env = {"health", "policy", "ogAdd", "resolution"}
    Faults = {"read", "write"}
    MaxEnvSteps = 2
SPECIFICATION Spec
CHECK_DEADLOCK FALSE
PROPERTIES
    StatusSettlesAfterFaults
