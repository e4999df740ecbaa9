SPECIFICATION Spec
CONSTANTS
    k1 = k1
    Accounts = {a1, a2}
    Mints = {}
    NativeMint = native
    Keys = {k1}
    Multisigs = {s1}
    SystemProgram = system
    Incinerator = incinerator
    NoKey = none
    MultisigSigners <- TwiceList
    Amounts <- AmountsToTwo
    RentReserve = 1
    InitialLamports = 4
    MaxSigners = 3
    MaxAmount = 4
INVARIANTS NativeBacked LamportsConserved
CHECK_DEADLOCK FALSE
PROPERTIES LockedStays
SYMMETRY AccountSymmetry
