SPECIFICATION Spec
CONSTANTS
    p1 = p1
    p2 = p2
    Procs <- MCProcs
    Caches <- MCCaches
    Paths <- MCPaths
    Target <- MCTarget
    Old = "old"
    Private = "private"
INVARIANTS SuccessMeansBound BoundIsLaidOut
PROPERTIES BindingIsFinal
