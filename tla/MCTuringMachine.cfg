SPECIFICATION Spec
CONSTANTS
    Symbol <- MCSymbol
    Blank = " "
    Newline = Newline
    StateLength = 5
    LineLength = 1024
    Requests <- MCRequests
    NoMachine = NoMachine
    MinTape = 4
    MaxTape = 16
INVARIANTS
    TypeOK
    HeadOnTape
PROPERTIES
    ImplementsTuringSpec
