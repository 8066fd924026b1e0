--------------------------- MODULE SequenceReport ---------------------------
(***************************************************************************)
(* What `mandates sequence` prints as it goes (_sequence of cli.py): every *)
(* step of SequenceCommand with its lines on standard output.  A file that *)
(* cannot be used may end the run after receipts were listed.              *)
(***************************************************************************)
EXTENDS SequenceCommand, Display

VARIABLE screen

Shows(text) == screen' = screen \o text

\* One receipt, numbered from #0, and who signed it; the line comes after the checks that
\* raise an input error.
receipt_line ==
    LET file == invocation.envelopes[Len(receipts) + 1]
    IN  IF read_ok(file, "action")
        THEN line("#", <<ToString(Len(receipts)), file.payload.id, "signed by">>
                       \o signers(verified_signers(file, public_keys)))
        ELSE << >>

sequence_lines ==
    LET positions == sequence_problems(receipts)
    IN  IF \A i \in DOMAIN positions : positions[i] = {}
        THEN line("sequence", <<"intact", ToString(Len(receipts))>>)
        ELSE line("sequence", <<"BROKEN">>)
             \o FlattenSeq([i \in DOMAIN positions |-> bullets(positions[i])])

accusations ==
    FlattenSeq([i \in DOMAIN receipts |->
        IF author_signed(invocation.envelopes[i], public_keys) THEN << >>
        ELSE Spelling[receipts[i].agent.key_id]])

\* Mutant: what the links said is the verdict.
result_line_of_the_links ==
    line("result", IF Intact(receipts) THEN <<"VERIFIED">> ELSE <<"NOT VERIFIED">> \o accusations)

result_line ==
    line("result", IF failures = {} THEN <<"VERIFIED">> ELSE <<"NOT VERIFIED">> \o accusations)

ShowInit == Init /\ screen = << >>

ShowNext ==
    \/ ReadKeys /\ UNCHANGED screen
    \/ ReadReceipt /\ Shows(receipt_line)
    \/ ReportSequence /\ Shows(sequence_lines)
    \/ Result /\ Shows(result_line)

ShowSpec == ShowInit /\ [][ShowNext]_<<vars, screen>> /\ Fairness

-----------------------------------------------------------------------------
\* Whatever the receipts say, the screen of a finished run has one verdict, last and in plain
\* sight, and the exit code agrees with it; a run cut short by an input error shows none, also
\* when it had listed receipts by then.
ScreenAgreesWithExit == (exit # None) => (Plain(screen) /\ Concluded(screen, exit))
=============================================================================
