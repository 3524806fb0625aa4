SPECIFICATION MCSpec
CONSTANTS
    u1 = u1
    u2 = u2
    Updaters <- MCUpdaters
    Newest <- MCNewest
    U32Max = 2
    Absent = Absent
    Unreadable = Unreadable
    Mistyped = Mistyped
    Texts <- MCTexts
    Places <- MCPlaces
    Names <- MCNames
CONSTRAINT Bound
SYMMETRY Symmetry
INVARIANTS BinariesAreWhole ReadyAfterDoctor AcceptedMeansAgreed
PROPERTIES OlderOnlyByOverlap
