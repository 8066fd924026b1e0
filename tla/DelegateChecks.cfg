SPECIFICATION Spec
CONSTANTS
    ann_id = ann_id
    bob_id = bob_id
    cyd_id = cyd_id
    m1 = m1
    None = None
    Names <- MCNames
    KeyIds <- MCKeyIds
    DocumentIds <- MCDocumentIds
    ActionTypes = {"pay", "read"}
    Currencies = {"EUR", "USD"}
    Details = {"d", "e"}
    Keys = {"K"}
    DidKeys <- MCDidKeys
    CarriedKey <- MCCarriedKey
    MAX_CHAIN_DEPTH = 2
    Principals <- OneBank
    Agents <- TwoAgents
    MandateIds = {m1}
    ReceiptIds = {"r1"}
    OutcomeIds = {"o1"}
    Scopes <- PayOnly
    Ceilings <- NoCeiling
    Actions <- NoAction
    Dates = {0}
    Horizon = 0
    MaxMandates = 2
    MaxReceipts = 0
    MaxOutcomes = 0
    MaxCleared = 0
INVARIANTS
    DelegateChecksEverything
\* The bounds on what may be published end every behaviour.
CHECK_DEADLOCK FALSE
