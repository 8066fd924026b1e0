SPECIFICATION Spec
CONSTANTS
    None = None
    Inputs <- MCInputs
    Milli = 2
    CalendarEnd = 11
    FloatPlaces = 2
    MaxText = 2
    MaxTarget = 3
    Decomposes <- MCDecomposes
    Composes <- MCComposes
    Combining <- MCCombining
    Spaces <- MCSpaces
    Controls = {9}
    Schemes <- MCSchemes
    MAX_DEPTH = 2
    JsonValues <- MCJsonValues
    Deepest = 4
    Pair = 2
    Base58 = 5
    Tag <- OneByteTag
    KeySize = 2
    SignatureSize = 1
INVARIANTS
    OneMeaningOneForm
    ScopeInUtf16Order
    CanonicalFormIsAFixedPoint
    SturdySignaturesSurvive
    OnlyTheLastMillisecondIsLost
    RefusedExactlyWhenTooDeep
    BytesMeanTheValue
    KeysInUtf16Order
    FaithfulCopiesReadBack
    OneSpelling
\* A conversion that is done, or refused, goes nowhere.
CHECK_DEADLOCK FALSE
