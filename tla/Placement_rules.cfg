\* Three environments, two rules, every order of the maps.
SPECIFICATION Spec
CONSTANTS
    n1 = n1
    n2 = n2
    n3 = n3
    home = home
    abroad = abroad
    gpu = gpu
    any = any
    AnyRegion = any
    Names <- MCNames
    Types <- MCTypes
    Fold <- MCFold
    Regions <- MCRegions
    Capabilities = {gpu}
    RuleNames = {"r1", "r2"}
    Statics <- MCStatics
    Dynamics <- MCDynamics
    RuleBodies <- MCRuleBodies
    CostUnit = 2
    FullCPU = 4
    FullMemory = 2
INVARIANTS
    TypeOK
    PlacedByTheRules
    FailsWithoutFallback
    CostIsMinimized
    FullIsTheLastChoice
SYMMETRY Symmetry
