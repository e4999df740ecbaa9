SPECIFICATION Spec
CONSTANTS
    k1 = k1
    Accounts = {a1, a2}
    Mints = {m1}
    NativeMint = native
    Keys = {k1}
    Multisigs = {}
    SystemProgram = system
    Incinerator = incinerator
    NoKey = none
    MultisigSigners <- NoLists
    Amounts <- ZeroAndOne
    RentReserve = 0
    InitialLamports = 0
    MaxSigners = 2
    MaxAmount = 2
INVARIANTS TokenTypeOK SupplyIsBalances
PROPERTIES FixedSupplyStays FrozenIsStill
SYMMETRY AccountSymmetry
CHECK_DEADLOCK FALSE
