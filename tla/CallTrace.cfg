CONSTANTS
    f = f
    core = core
    loop = loop
    a = a
    Named <- OneNamed
    Core <- OneCore
    Loops <- OneLoop
    Owner <- OwnedByF
    Unnamed = Unnamed
    Wrapper = Wrapper
    Children <- TwoChildren
    LocationLists <- SomeLocations
    First = 3
    None = None
    MaxFrames = 5
    MaxEvents = 2
SPECIFICATION Spec
CHECK_DEADLOCK FALSE
INVARIANTS TreeOK CallsMatchFrames PanicIsFirst InnerCallsLinked
PROPERTIES LoopsComeBack
