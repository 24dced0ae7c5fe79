\* Two attempts that both use two claims; deaths, failures and lost
\* responses anywhere.  Every attempt may end.
SPECIFICATION Spec
CONSTANTS
    a1 = a1
    a2 = a2
    Attempts = {a1, a2}
    Free = Free
    N = 2
    Uses <- SameClaims
    NameDeletesLinger = FALSE
SYMMETRY AttemptSymmetry
CHECK_DEADLOCK FALSE
INVARIANTS
    TypeOK
    ClaimsHeld
    HeldInOrder
    EndedIsClean
PROPERTIES
    ReleasedLast
