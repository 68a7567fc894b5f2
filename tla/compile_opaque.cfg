SPECIFICATION Spec
CONSTANTS
    Programs = {}
    Sources <- MCOpaque
    MaxVars = 60
    Declared <- MCDeclared
    NextComponent <- MCNextComponent
    Checked <- MCChecked
    LiteralsChecked <- MCLiteralsChecked
    Desugared <- MCDesugared
    Lowered <- lower_modules
    LoweredOnto <- lower_after_library
    Meant <- Means
    HasType <- MCHasType
INVARIANT ChecksOut
