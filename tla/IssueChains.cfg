SPECIFICATION Spec
CONSTANTS
    ann_id = ann_id
    bob_id = bob_id
    cyd_id = cyd_id
    m1 = m1
    None = None
    Names <- MCNames
    KeyIds <- MCKeyIds
    DocumentIds <- MCDocumentIds
    ActionTypes = {"pay", "read"}
    Currencies = {"EUR", "USD"}
    Details = {"d", "e"}
    Keys = {"K"}
    DidKeys <- MCDidKeys
    CarriedKey <- MCCarriedKey
    MAX_CHAIN_DEPTH = 3
    Principals <- OneBank
    Agents <- ThreeAgents
    MandateIds = {m1}
    ReceiptIds = {"r1"}
    OutcomeIds = {"o1"}
    Scopes <- PayOnly
    Ceilings <- OneEuroOrAny
    Actions <- NoAction
    Dates = {0, 1}
    Horizon = 0
    MaxMandates = 3
    MaxReceipts = 0
    MaxOutcomes = 0
    MaxCleared = 0
SYMMETRY Symmetry
INVARIANTS
    OneChainToAGrant
    SoundChainsNarrow
    DelegateExtendsChains
PROPERTIES
    KeepsTheBooks
\* The bounds on what may be published end every behaviour.
CHECK_DEADLOCK FALSE
