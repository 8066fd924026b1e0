SPECIFICATION Spec
CONSTANTS
    None = None
    Names = {"ann"}
    KeyIds <- MCKeyIds
    DocumentIds = {}
    ActionTypes = {}
    Currencies = {}
    Details = {}
    MAX_CHAIN_DEPTH = 1
    Keys = {"A", "B"}
    DidKeys <- MCDidKeys
    CarriedKey <- MCCarriedKey
    Payloads <- MCPayloads
    Directories <- MCDirectories
    MaxSignatures = 2
INVARIANTS
    VerifiedMeansSigned
    EvidenceSurvives
