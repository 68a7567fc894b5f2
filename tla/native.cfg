SPECIFICATION Spec
CONSTANTS
    Programs <- MCPrograms
    Rooms = {1, 2, 9}
    Lowered <- lower_modules
    Generated <- generate
    Bounced <- bounce
    Meant <- Means
INVARIANTS NativeSameAsMeaning CountsExact NothingLeftAtExit
