---------------------------- MODULE VerifyReport ----------------------------
(***************************************************************************)
(* What `mandates verify` prints as it goes (_verify and the _report       *)
(* helpers of cli.py): every step of VerifyCommand with the lines it puts  *)
(* on standard output.  Input errors go to standard error and leave the    *)
(* screen as it is.                                                        *)
(***************************************************************************)
EXTENDS VerifyCommand, Display

\* What a command line or a file lists is finite.
ASSUME ReportAssumption ==
    \A given \in Invocations :
        /\ IsFiniteSet(given.require)
        /\ given.envelope \notin Unusable /\ given.envelope.payload.type = "mandate" =>
              IsFiniteSet(given.envelope.payload.scope)

VARIABLE screen

Shows(text) == screen' = screen \o text

\* _authorship_failure: the key a document names, in the list of failures.
accusation(envelope) ==
    IF author_signed(envelope, public_keys) THEN << >>
    ELSE Spelling[required_signer(envelope.payload)]

accusations ==
    accusation(invocation.envelope)
    \o joined(invocation.require \ verified_signers(invocation.envelope, public_keys))
    \o (IF invocation.receipt = None THEN << >> ELSE accusation(invocation.receipt))
    \o FlattenSeq([i \in DOMAIN mandates |-> accusation(mandates[i])])

\* The supporting receipt's signers are listed as they are.
binding_lines ==
    IF invocation.receipt = None THEN << >>
    ELSE LET key_ids == verified_signers(invocation.receipt, public_keys)
             problems == binding_problems(invocation.receipt.payload, invocation.envelope.payload)
         IN  line("receipt", <<invocation.receipt.payload.id, "signed by">>
                             \o (IF key_ids = {} THEN <<"-">> ELSE joined(key_ids)))
             \o (IF problems = {} THEN line("binding", <<"OK">>)
                 ELSE line("binding", <<"BROKEN">>) \o bullets(problems))

\* Saying nothing would let a signature check read as an authority check.
unchecked_line ==
    IF action # None /\ mandates = << >>
    THEN line("scope", <<"not checked (no mandate supplied)">>) ELSE << >>

grant_line(envelope) ==
    line("mandate", <<envelope.payload.id, "granted by">>
                    \o signers(verified_signers(envelope, public_keys)))

chain_lines ==
    IF \A i \in DOMAIN positions : positions[i] = {}
    THEN line("chain", <<"OK, answering to">> \o principal(accountable_principal(chain)))
    ELSE line("chain", <<"BROKEN">>)
         \o FlattenSeq([i \in DOMAIN positions |-> bullets(positions[i])])

\* Mutant: the action is measured against a chain that does not hold up.
scope_lines_regardless ==
    LET grant == chain[Len(chain)]
        violations == scope_violations(grant, action)
    IN  IF violations = {} THEN line("scope", <<"OK">>)
        ELSE line("scope", <<IF allowed_beyond_mandate(grant, action)
                             THEN "EXCEEDED" ELSE "EXCEEDED, and refused">>)
             \o bullets(violations)

\* The end of _report_authority, and _report_scope.
scope_lines ==
    LET grant == chain[Len(chain)]
        problems == mandate_problems(grant, action)
        violations == scope_violations(grant, action)
    IN  IF unauthorised # {} THEN << >>
        ELSE IF problems # {} THEN line("grant", <<"NOT THIS RECEIPT'S">>) \o bullets(problems)
        ELSE IF violations = {} THEN line("scope", <<"OK">>)
        ELSE line("scope", <<IF allowed_beyond_mandate(grant, action)
                             THEN "EXCEEDED" ELSE "EXCEEDED, and refused">>)
             \o bullets(violations)

result_line ==
    line("result", IF failures = {} THEN <<"VERIFIED">> ELSE <<"NOT VERIFIED">> \o accusations)

ShowInit == Init /\ screen = << >>

ShowNext ==
    \/ (ReadKeys \/ ReadEnvelope \/ ReadReceipt \/ ReadMandate \/ SelectAction \/ CheckLink)
          /\ UNCHANGED screen
    \/ CheckDocument
          /\ Shows(describe(invocation.envelope.payload)
                   \o line("signed by",
                           signers(verified_signers(invocation.envelope, public_keys))))
    \/ ReportBinding /\ Shows(binding_lines \o unchecked_line)
    \/ CheckGrant /\ Shows(grant_line(mandates[granted + 1]))
    \/ ReportChain /\ Shows(chain_lines)
    \/ ReportGrant /\ Shows(scope_lines)
    \/ Result /\ Shows(result_line)

ShowSpec == ShowInit /\ [][ShowNext]_<<vars, screen>> /\ Fairness

-----------------------------------------------------------------------------
(***************************************************************************)
(* Properties.                                                             *)
(***************************************************************************)

\* Whatever the fields of the documents and the options say, the screen of a finished run
\* has one verdict, last and in plain sight, and the exit code agrees with it; a run that
\* ended in an input error shows none.
ScreenAgreesWithExit == (exit # None) => (Plain(screen) /\ Concluded(screen, exit))

\* What the text under "scope" says of the action, a mandate's own scope line aside.
Answers == {screen[i + 1] : i \in Under(screen, "scope")}

\* A reader is told "scope OK" only of an action that lies inside every grant of a sound
\* chain, each signed for, whatever else failed; and a run that VERIFIED an action always
\* says where its authority stands, "not checked" exactly when no grant was given.
ScopeIsAnswered ==
    /\ exit # None /\ action # None /\ "OK" \in Answers =>
          /\ Sound(chain)
          /\ \A i \in DOMAIN mandates :
                SignedBy(mandates[i], required_signer(chain[i]), public_keys)
                /\ Covers(chain[i], action.action, action.issued_at)
    /\ exit = VERIFIED /\ action # None =>
          /\ Cardinality(Under(screen, "scope")) = 1
          /\ mandates = << >> <=> Answers = {"not checked (no mandate supplied)"}
=============================================================================
