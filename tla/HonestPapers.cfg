SPECIFICATION Spec
CONSTANTS
    None = None
    Names = {"bank", "ann", "bob"}
    KeyIds <- MCKeyIds
    DocumentIds = {"m1", "r1", "o1"}
    ActionTypes = {"pay", "read"}
    Currencies = {"EUR", "USD"}
    Details = {"d", "e"}
    Keys = {"P", "A", "B", "W"}
    KeyOf <- MCKeyOf
    Witness = "kw"
    Unreadable = Unreadable
    Escaping = Escaping
    DidKeys <- MCDidKeys
    CarriedKey <- MCCarriedKey
    MAX_CHAIN_DEPTH = 2
    Principals <- OneBank
    Agents <- TwoAgents
    MandateIds = {"m1"}
    ReceiptIds = {"r1"}
    OutcomeIds = {"o1"}
    Scopes <- PayOnly
    Ceilings <- OneEuroOrAny
    Actions <- PaidOrFree
    Dates = {0, 1}
    Horizon = 1
    MaxMandates = 2
    MaxReceipts = 1
    MaxOutcomes = 1
    MaxCleared = 2
INVARIANTS
    TypeOK
    OnlyDatesComeBetween
    AskedIsCovered
    HonestPapersHold
\* The bounds on what may be published end every behaviour.
CHECK_DEADLOCK FALSE
