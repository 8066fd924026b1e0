SPECIFICATION ShowSpec
CONSTANTS
    None = None
    Unreadable = Unreadable
    Escaping = Escaping
    Names <- MCNames
    KeyIds <- MCKeyIds
    DocumentIds <- MCDocumentIds
    ActionTypes <- MCActionTypes
    Currencies <- MCCurrencies
    Details <- MCDetails
    Keys <- MCKeys
    DidKeys <- MCDidKeys
    CarriedKey <- MCCarriedKey
    MAX_CHAIN_DEPTH = 3
    Invocations <- MCInvocations
    Spelling <- MCSpelling
INVARIANTS
    TypeOK
    OneAgentOneStory
    NothingMissing
    WholeRunsVerify
    ScreenAgreesWithExit

    
\* The command ends; a finished run has no step left.
CHECK_DEADLOCK FALSE
