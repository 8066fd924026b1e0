---------------------------- MODULE Verification ---------------------------
(***************************************************************************)
(* What `mandates verify` promises: one judgement of one invocation.       *)
(* Nothing is said of the order in which files are read or checks are made *)
(* -- the judgement is a function of what the files hold.                  *)
(***************************************************************************)
EXTENDS Authority

CONSTANTS
    Unreadable,   \* a file that cannot be read or parsed
    Escaping      \* a file whose reading raises what nothing catches

VARIABLES invocation, exit

vars == <<invocation, exit>>

\* The exit codes.
VERIFIED == 0
NOT_VERIFIED == 1
BAD_INPUT == 2
ESCAPED == -1

Holds(file, type) ==
    file \notin {Unreadable, Escaping} /\ valid_envelope(file) /\ file.payload.type = type

\* Every file is what the caller said it was, and the options go together.
Acceptable ==
    /\ invocation.keys \notin {Unreadable, Escaping}
    /\ invocation.keys # None => directory_usable(invocation.keys)
    /\ \E type \in {"mandate", "action", "outcome"} :
          /\ Holds(invocation.envelope, type)
          /\ invocation.receipt # None =>
                type = "outcome" /\ Holds(invocation.receipt, "action")
          /\ invocation.mandates # << >> =>
                type = "action" \/ (type = "outcome" /\ invocation.receipt # None)
    /\ \A i \in DOMAIN invocation.mandates : Holds(invocation.mandates[i], "mandate")

listed == IF invocation.keys = None THEN << >> ELSE invocation.keys

\* An outcome names no author: for one of those any key that resolves will do.
Authentic(envelope) ==
    IF envelope.payload.type = "outcome"
    THEN \E key_id \in KeyIds : SignedBy(envelope, key_id, listed)
    ELSE SignedBy(envelope, required_signer(envelope.payload), listed)

OutcomeStands(outcome, receipt) ==
    /\ outcome.receipt_id = receipt.id
    /\ outcome.receipt_hash = digest(receipt)
    /\ receipt.issued_at =< outcome.issued_at
    /\ receipt.decision # "deny"

Authorised(receipt, chain) ==
    /\ SoundChain(chain)
    /\ TakenUnder(receipt, chain[Len(chain)])
    /\ receipt.decision = "deny" \/ Covers(chain[Len(chain)], receipt.action, receipt.issued_at)

Convincing ==
    LET receipt == IF invocation.receipt = None THEN invocation.envelope
                                                ELSE invocation.receipt
    IN  /\ Authentic(invocation.envelope)
        /\ \A key_id \in invocation.require : SignedBy(invocation.envelope, key_id, listed)
        /\ invocation.receipt # None =>
              /\ Authentic(invocation.receipt)
              /\ OutcomeStands(invocation.envelope.payload, invocation.receipt.payload)
        /\ invocation.mandates # << >> =>
              /\ \A i \in DOMAIN invocation.mandates : Authentic(invocation.mandates[i])
              /\ Authorised(receipt.payload,
                            [i \in DOMAIN invocation.mandates |-> invocation.mandates[i].payload])

\* Which of two defects is met first is left open.
Escapes ==
    \/ Escaping \in {invocation.keys, invocation.envelope, invocation.receipt}
    \/ \E i \in DOMAIN invocation.mandates : invocation.mandates[i] = Escaping

\* Whatever the command line is.
Init == exit = None

Judge ==
    /\ exit = None
    /\ \/ Acceptable /\ exit' = IF Convincing THEN VERIFIED ELSE NOT_VERIFIED
       \/ ~ Acceptable /\ exit' = BAD_INPUT
       \/ ~ Acceptable /\ Escapes /\ exit' = ESCAPED
    /\ UNCHANGED invocation

\* One judgement at most; that it comes is Terminates of the command.
Spec == Init /\ [][Judge]_vars
=============================================================================
