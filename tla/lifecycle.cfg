\* Every dependency graph over three modules, cycles included, every criticality.
SPECIFICATION FairLifecycleSpec
CONSTANTS
    Count = 3
CHECK_DEADLOCK FALSE
INVARIANTS
    DependenciesOutlive
    HostReflectsModules
    OnlyLateRemainOpen
    OrderIsFirstTopological
PROPERTIES
    HostSettles
