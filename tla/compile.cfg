SPECIFICATION Spec
CONSTANTS
    Programs <- MCPrograms
    Sources <- MCSources
    MaxVars = 60
    Declared <- MCDeclared
    NextComponent <- MCNextComponent
    Checked <- MCChecked
    LiteralsChecked <- MCLiteralsChecked
    Desugared <- MCDesugared
    Lowered <- lower_modules
    LoweredOnto <- lower_after_library
    Meant <- Means
    HasType <- MCHasType
INVARIANTS HeapOK SameAsMeaning ReadsLive NoLeak OnePendingPerSlot ChecksOut
