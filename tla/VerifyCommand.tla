--------------------------- MODULE VerifyCommand ---------------------------
(***************************************************************************)
(* `mandates verify` (src/src/agent_mandates/cli.py): one run of the       *)
(* command, file by file and check by check.  The files are what the       *)
(* invocation says they hold; each is read once.  `pc` names the next step *)
(* of _verify and of the helpers it calls; `failures` is its list,         *)
(* `unauthorised` is the list _report_authority keeps for itself and       *)
(* `positions` is the result of chain_problems as it fills up.  What       *)
(* a read raises ends the run: with BAD_INPUT when it is an InputError.    *)
(***************************************************************************)
EXTENDS CommandLine

CONSTANT Invocations   \* the command lines that can be given, files resolved to contents

IsInvocation(line) ==
    /\ IsDirectory(line.keys)
    /\ IsFile(line.envelope)
    /\ line.receipt = None \/ IsFile(line.receipt)
    /\ IsSequence(line.mandates)
    /\ \A i \in DOMAIN line.mandates : IsFile(line.mandates[i])
    /\ line.require \subseteq KeyIds

ASSUME InvocationAssumption == \A line \in Invocations : IsInvocation(line)

VARIABLES
    invocation,     \* the parsed command line
    pc,
    public_keys,    \* what the directory lists
    mandates,       \* the envelopes _read_mandate has returned
    action,         \* the receipt whose authority is in question, or None
    failures,
    unauthorised,
    positions,
    granted,        \* how many grants _report_authority has looked at
    exit

vars == <<invocation, pc, public_keys, mandates, action, failures, unauthorised,
          positions, granted, exit>>

chain == [i \in DOMAIN mandates |-> mandates[i].payload]

Init ==
    /\ invocation \in Invocations
    /\ pc = "read_keys"
    /\ public_keys = << >>
    /\ mandates = << >>
    /\ action = None
    /\ failures = {}
    /\ unauthorised = {}
    /\ positions = << >>
    /\ granted = 0
    /\ exit = None


\* Whatever is raised ends the run; main answers to an InputError alone.
Raise(status) ==
    /\ pc' = "done"
    /\ exit' = status
    /\ UNCHANGED <<invocation, public_keys, mandates, action, failures, unauthorised,
                   positions, granted>>

ReadKeys ==
    /\ pc = "read_keys"
    /\ IF public_keys_ok(invocation.keys)
       THEN /\ public_keys' = listed_keys(invocation.keys)
            /\ pc' = "read_envelope"
            /\ UNCHANGED <<invocation, mandates, action, failures, unauthorised, positions,
                           granted, exit>>
       ELSE Raise(error_of(invocation.keys))

ReadEnvelope ==
    /\ pc = "read_envelope"
    /\ IF read_envelope_ok(invocation.envelope)
       THEN /\ pc' = "read_receipt"
            /\ UNCHANGED <<invocation, public_keys, mandates, action, failures, unauthorised,
                           positions, granted, exit>>
       ELSE Raise(error_of(invocation.envelope))

\* The supporting receipt: only beside an outcome, which is asked first, and only a receipt.
read_receipt_ok(file) ==
    invocation.envelope.payload.type = "outcome" /\ read_ok(file, "action")

ReadReceipt ==
    /\ pc = "read_receipt"
    /\ IF invocation.receipt = None \/ read_receipt_ok(invocation.receipt)
       THEN /\ pc' = "read_mandates"
            /\ UNCHANGED <<invocation, public_keys, mandates, action, failures, unauthorised,
                           positions, granted, exit>>
       ELSE Raise(IF invocation.envelope.payload.type = "outcome" THEN error_of(invocation.receipt)
                  ELSE BAD_INPUT)

ReadMandate ==
    /\ pc = "read_mandates"
    /\ Len(mandates) < Len(invocation.mandates)
    /\ LET file == invocation.mandates[Len(mandates) + 1]
       IN  IF read_ok(file, "mandate")
           THEN /\ mandates' = Append(mandates, file)
                /\ UNCHANGED <<invocation, pc, public_keys, action, failures, unauthorised,
                               positions, granted, exit>>
           ELSE Raise(error_of(file))

\* The action is the document itself when it is a receipt, or its supporting receipt.
selected_action ==
    IF invocation.envelope.payload.type = "action" THEN invocation.envelope.payload
    ELSE IF invocation.receipt # None THEN invocation.receipt.payload
    ELSE None

SelectAction ==
    /\ pc = "read_mandates"
    /\ Len(mandates) = Len(invocation.mandates)
    /\ IF mandates # << >> /\ selected_action = None
       THEN Raise(BAD_INPUT)
       ELSE /\ action' = selected_action
            /\ pc' = "check_document"
            /\ UNCHANGED <<invocation, public_keys, mandates, failures, unauthorised, positions,
                           granted, exit>>

\* Mutant: any signature that checks out will do.
unsigned_by_anyone(envelope) ==
    When(verified_signers(envelope, public_keys) = {}, "does not verify")

\* No signature at all that checks out, and not the author's: one entry each.
unsigned(envelope) ==
    When(verified_signers(envelope, public_keys) = {}, "does not verify")
    \cup When(~ author_signed(envelope, public_keys), "is not signed by the key it names")

CheckDocument ==
    /\ pc = "check_document"
    /\ failures' = failures
          \cup unsigned(invocation.envelope)
          \cup When(~ (invocation.require
                          \subseteq verified_signers(invocation.envelope, public_keys)),
                    "a required key did not sign")
    /\ pc' = "report_binding"
    /\ UNCHANGED <<invocation, public_keys, mandates, action, unauthorised, positions, granted,
                   exit>>

ReportBinding ==
    /\ pc = "report_binding"
    /\ failures' = failures \cup
          IF invocation.receipt = None THEN {}
          ELSE unsigned(invocation.receipt)
               \cup When(binding_problems(invocation.receipt.payload,
                                          invocation.envelope.payload) # {},
                         "the outcome is not bound to this receipt")
    /\ pc' = IF action = None \/ mandates = << >> THEN "result" ELSE "report_authority"
    /\ UNCHANGED <<invocation, public_keys, mandates, action, unauthorised, positions, granted,
                   exit>>

\* The loop of _report_authority over the grants.
CheckGrant ==
    /\ pc = "report_authority"
    /\ granted < Len(mandates)
    /\ granted' = granted + 1
    /\ unauthorised' = unauthorised \cup unsigned(mandates[granted + 1])
    /\ UNCHANGED <<invocation, pc, public_keys, mandates, action, failures, positions, exit>>

\* Mutant: the links are compared while grants are still being looked at.
CheckLinkEarly ==
    /\ pc = "report_authority"
    /\ Len(positions) < Len(mandates)
    /\ LET i == Len(positions) + 1
       IN  positions' = Append(positions,
                               IF i = 1 THEN root_problems(chain)
                               ELSE delegation_problems(chain[i - 1], chain[i]))
    /\ UNCHANGED <<invocation, pc, public_keys, mandates, action, failures, unauthorised,
                   granted, exit>>

\* chain_problems, one position at a time.
CheckLink ==
    /\ pc = "report_authority"
    /\ granted = Len(mandates)
    /\ Len(positions) < Len(mandates)
    /\ LET i == Len(positions) + 1
       IN  positions' = Append(positions,
                               IF i = 1 THEN root_problems(chain)
                               ELSE delegation_problems(chain[i - 1], chain[i]))
    /\ UNCHANGED <<invocation, pc, public_keys, mandates, action, failures, unauthorised,
                   granted, exit>>

\* Mutant: the links are reported and the root is not.
ReportLinks ==
    /\ pc = "report_authority"
    /\ Len(positions) = Len(mandates)
    /\ unauthorised' = unauthorised
          \cup When(\E i \in DOMAIN positions \ {1} : positions[i] # {},
                    "the delegation chain does not hold up")
    /\ pc' = "report_grant"
    /\ UNCHANGED <<invocation, public_keys, mandates, action, failures, positions, granted, exit>>

ReportChain ==
    /\ pc = "report_authority"
    /\ Len(positions) = Len(mandates)
    /\ unauthorised' = unauthorised
          \cup When(\E i \in DOMAIN positions : positions[i] # {},
                    "the delegation chain does not hold up")
    /\ pc' = "report_grant"
    /\ UNCHANGED <<invocation, public_keys, mandates, action, failures, positions, granted, exit>>

\* An action is not measured against a chain, or a grant, that does not hold up.
ReportGrant ==
    /\ pc = "report_grant"
    /\ LET grant == chain[Len(chain)]
       IN  failures' = failures \cup
             IF unauthorised # {} THEN unauthorised
             ELSE IF mandate_problems(grant, action) # {}
             THEN {"the receipt was not taken under this mandate"}
             ELSE When(allowed_beyond_mandate(grant, action),
                       "the action went beyond its mandate")
    /\ pc' = "result"
    /\ UNCHANGED <<invocation, public_keys, mandates, action, unauthorised, positions, granted,
                   exit>>

Result ==
    /\ pc = "result"
    /\ exit' = IF failures # {} THEN NOT_VERIFIED ELSE VERIFIED
    /\ pc' = "done"
    /\ UNCHANGED <<invocation, public_keys, mandates, action, failures, unauthorised, positions,
                   granted>>

Next ==
    \/ ReadKeys \/ ReadEnvelope \/ ReadReceipt \/ ReadMandate \/ SelectAction
    \/ CheckDocument \/ ReportBinding
    \/ CheckGrant \/ CheckLink \/ ReportChain \/ ReportGrant
    \/ Result

\* One thread of control with nothing to wait for: a step that can be taken is taken.
Fairness == WF_vars(Next)

Spec == Init /\ [][Next]_vars /\ Fairness

-----------------------------------------------------------------------------
(***************************************************************************)
(* Properties.                                                             *)
(***************************************************************************)

\* The control state and the lists stay in step: grants are read in the order given, looked
\* at and linked only once all are read, and an exit code means the end.
TypeOK ==
    /\ pc \in {"read_keys", "read_envelope", "read_receipt", "read_mandates", "check_document",
              "report_binding", "report_authority", "report_grant", "result", "done"}
    /\ \/ public_keys = << >>
       \/ public_keys_ok(invocation.keys) /\ public_keys = listed_keys(invocation.keys)
    /\ IsSequence(mandates)
    /\ Len(mandates) =< Len(invocation.mandates)
    /\ \A i \in DOMAIN mandates : mandates[i] = invocation.mandates[i] /\ IsMandate(chain[i])
    /\ action = None \/ IsReceipt(action)
    /\ IsSequence(positions)
    /\ granted \in 0..Len(mandates)
    /\ Len(positions) \in 0..granted
    /\ exit \in {None, VERIFIED, NOT_VERIFIED, BAD_INPUT, ESCAPED}
    /\ exit # None <=> pc = "done"

\* What has been established at each stage of the run, the strengthening that makes the
\* properties below inductive: the reads come first and leave every list empty, an empty list
\* means that what it stands for was looked at and found in order, and nothing is concluded
\* before every grant was signed, linked and matched with the action.
Reading == pc \in {"read_keys", "read_envelope", "read_receipt", "read_mandates"}

SignedSoFar ==
    unauthorised = {} => \A i \in 1..granted : unsigned(mandates[i]) = {}

PositionsReported ==
    \A i \in DOMAIN positions :
        positions[i] = IF i = 1 THEN root_problems(chain)
                       ELSE delegation_problems(chain[i - 1], chain[i])

ChainHolds ==
    /\ granted = Len(mandates) /\ Len(positions) = Len(mandates)
    /\ unauthorised = {}
    /\ \A i \in DOMAIN positions : positions[i] = {}

GrantHolds ==
    LET grant == chain[Len(chain)]
    IN  mandate_problems(grant, action) = {} /\ ~ allowed_beyond_mandate(grant, action)

\* A file or an option ended the run.
Stopped == exit \in {BAD_INPUT, ESCAPED}

Established ==
    /\ Reading => action = None /\ granted = 0 /\ failures = {}
    /\ pc \notin {"read_keys", "read_envelope"} /\ ~ Stopped =>
          read_envelope_ok(invocation.envelope)
    /\ pc \notin {"read_keys", "read_envelope", "read_receipt"} /\ ~ Stopped =>
          invocation.receipt = None \/ read_receipt_ok(invocation.receipt)
    /\ ~ Reading /\ ~ Stopped =>
          /\ mandates # << >> => action # None
          /\ action = selected_action
          /\ Len(mandates) = Len(invocation.mandates)
    /\ pc \in {"check_document", "report_binding"} => granted = 0
    /\ pc \in {"report_binding", "report_authority", "report_grant", "result", "done"}
          /\ ~ Stopped /\ failures = {} => unsigned(invocation.envelope) = {}
    /\ pc \in {"report_authority", "report_grant", "result", "done"}
          /\ ~ Stopped /\ failures = {} /\ invocation.receipt # None =>
             /\ unsigned(invocation.receipt) = {}
             /\ binding_problems(invocation.receipt.payload, invocation.envelope.payload) = {}
    /\ pc \in {"report_authority", "report_grant"} => mandates # << >>
    /\ pc = "report_grant" /\ unauthorised = {} => ChainHolds
    /\ pc \in {"result", "done"} /\ ~ Stopped /\ failures = {} /\ mandates # << >> =>
          ChainHolds /\ GrantHolds
    /\ exit = VERIFIED => failures = {}

\* While _report_authority compares neighbours only, every grant whose links have come up
\* clean so far is already narrower than all the grants before it, not just the last.
NarrowingSoFar ==
    \A i \in DOMAIN positions :
        (\A k \in 1..i : positions[k] = {}) =>
            \A j \in 1..(i - 1) : Narrower(chain[i], chain[j])

\* The inductive invariant.
Inv ==
    /\ TypeOK
    /\ SignedSoFar
    /\ PositionsReported
    /\ Established
    /\ NarrowingSoFar

\* VERIFIED with grants on the command line: the answer a reader relies on.
Vouched == exit = VERIFIED /\ invocation.mandates # << >>

\* The scope check reads the last grant alone.  Whatever it lets through was inside every
\* grant up to the root: its scope, its window from issue to expiry and its ceiling.
WithinEveryGrant ==
    Vouched /\ action.decision # "deny" =>
        \A i \in DOMAIN chain : Covers(chain[i], action.action, action.issued_at)

\* Authority went from hand to hand: the principal's key signed the root, the key of the
\* agent holding a grant signed the next one, and the last holder's key signed the receipt.
HandToHand ==
    Vouched =>
        LET receipt == IF invocation.receipt = None THEN invocation.envelope
                                                    ELSE invocation.receipt
            n == Len(mandates)
        IN  /\ SignedBy(mandates[1], chain[1].principal.key_id, public_keys)
            /\ \A i \in 1..(n - 1) : SignedBy(mandates[i + 1], chain[i].agent.key_id, public_keys)
            /\ SignedBy(receipt, chain[n].agent.key_id, public_keys)

\* The principal the report names is the one every grant and the receipt answer to, and
\* accountability does not run in a circle: no agent holds two grants of the chain.
AnswersToTheRoot ==
    Vouched =>
        /\ \A i \in DOMAIN chain : chain[i].principal = accountable_principal(chain)
        /\ action.principal = accountable_principal(chain)
        /\ \A i, j \in DOMAIN chain : chain[i].agent = chain[j].agent => i = j

\* An outcome that verifies beside its receipt is about an action that went ahead, earlier,
\* recorded by the agent it names -- and when grants were given, one that they covered.
OutcomeStandsOnAnAction ==
    exit = VERIFIED /\ invocation.receipt # None =>
        LET receipt == invocation.receipt.payload
            outcome == invocation.envelope.payload
        IN  /\ outcome.receipt_hash = digest(receipt)
            /\ receipt.issued_at =< outcome.issued_at
            /\ SignedBy(invocation.receipt, receipt.agent.key_id, public_keys)
            /\ receipt.decision # "deny"
            /\ \A i \in DOMAIN invocation.mandates :
                  Covers(invocation.mandates[i].payload, receipt.action, receipt.issued_at)

\* Step by step, the command returns the judgement Verification promises.
Promise == INSTANCE Verification WITH invocation <- invocation, exit <- exit

ImplementsVerification == Promise!Spec

\* The files a command line names.
Given(file) ==
    \/ file \in {invocation.keys, invocation.envelope, invocation.receipt}
    \/ \E i \in DOMAIN invocation.mandates : file = invocation.mandates[i]


\* tests/test_fuzzing.py: "garbage in must produce a clean refusal, never an unexpected
\* exception and never acceptance".
CleanRefusal == exit # ESCAPED
=============================================================================
