SPECIFICATION Spec
CONSTANTS
    None = None
    Names = {}
    KeyIds <- MCKeyIds
    DocumentIds = {}
    ActionTypes = {}
    Currencies = {}
    Details = {}
    MAX_CHAIN_DEPTH = 1
    Keys = {"K", "L"}
    DidKeys <- MCDidKeys
    CarriedKey <- MCCarriedKey
    Unreadable = Unreadable
    TooDeep = TooDeep
    NoObject = NoObject
    Files <- MCFiles
INVARIANTS
    LoadedWhole
    ListedIsResolved
    PublishedLoadsAgain
\* A file that was refused goes nowhere.
CHECK_DEADLOCK FALSE
