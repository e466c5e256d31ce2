CONSTANTS
    a = a
    b = b
    f = f
    x = x
    y = y
    z = z
    d1 = d1
    d2 = d2
    Contracts <- AllContracts
    Classes <- AllClasses
    Deprecated <- Cairo0
    Data <- AllData
    Values = {0, 1}
    Nonces = {0, 1, 2, 3}
    Zero = 0
    None = None
    Genesis <- Start
    Chains <- TwoChains
    MadeUp <- Asked
    MaxCalls = 2
    MaxChanges = 1
    MaxFaults = 1
SPECIFICATION Spec
CHECK_DEADLOCK FALSE
INVARIANTS FindsItself ForkIsBefore MappedIsExecuted ChangesAreTrue
