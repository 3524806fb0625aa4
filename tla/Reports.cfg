SPECIFICATION Spec
CONSTANTS
    Objects <- MCObjects
    Shared <- MCShared
INVARIANTS IssuesHaveCause CleanMeansHeld WrongIsNeverMissed LossNeedsPush
