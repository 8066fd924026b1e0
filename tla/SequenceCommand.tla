-------------------------- MODULE SequenceCommand --------------------------
(***************************************************************************)
(* `mandates sequence` (src/src/agent_mandates/cli.py): is this run of     *)
(* receipts whole?  Envelopes are read and their author checked one by     *)
(* one, in the order given; only then are the links compared.              *)
(***************************************************************************)
EXTENDS CommandLine

CONSTANT Invocations   \* the command lines that can be given, files resolved to contents

IsInvocation(line) ==
    /\ IsDirectory(line.keys)
    /\ line.envelopes # << >> /\ IsSequence(line.envelopes)
    /\ \A i \in DOMAIN line.envelopes : IsFile(line.envelopes[i])

ASSUME InvocationAssumption == \A line \in Invocations : IsInvocation(line)

VARIABLES
    invocation,     \* [keys, envelopes]; argparse requires at least one envelope
    pc,
    public_keys,
    receipts,       \* the receipts read so far
    failures,
    exit

vars == <<invocation, pc, public_keys, receipts, failures, exit>>

Init ==
    /\ invocation \in Invocations
    /\ pc = "read_keys"
    /\ public_keys = << >>
    /\ receipts = << >>
    /\ failures = {}
    /\ exit = None

\* Whatever is raised ends the run; main answers to an InputError alone.
Raise(status) ==
    /\ pc' = "done"
    /\ exit' = status
    /\ UNCHANGED <<invocation, public_keys, receipts, failures>>

ReadKeys ==
    /\ pc = "read_keys"
    /\ IF public_keys_ok(invocation.keys)
       THEN /\ public_keys' = listed_keys(invocation.keys)
            /\ pc' = "read_envelopes"
            /\ UNCHANGED <<invocation, receipts, failures, exit>>
       ELSE Raise(error_of(invocation.keys))

\* Mutants: receipts are collected newest first; the last envelope is never reached.
ReadReceiptBackwards ==
    /\ pc = "read_envelopes"
    /\ Len(receipts) < Len(invocation.envelopes)
    /\ LET file == invocation.envelopes[Len(receipts) + 1]
       IN  IF read_ok(file, "action")
           THEN /\ receipts' = <<file.payload>> \o receipts
                /\ failures' = failures \cup When(~ author_signed(file, public_keys),
                                                  "is not signed by the key it names")
                /\ UNCHANGED <<invocation, pc, public_keys, exit>>
           ELSE Raise(error_of(file))


\* Mutant: the start of the run is not asked who signed it.
ReadReceiptOfAnyStart ==
    /\ pc = "read_envelopes"
    /\ Len(receipts) < Len(invocation.envelopes)
    /\ LET file == invocation.envelopes[Len(receipts) + 1]
       IN  IF read_ok(file, "action")
           THEN /\ receipts' = Append(receipts, file.payload)
                /\ failures' = failures \cup When(receipts # << >> /\ ~ author_signed(file, public_keys),
                                                  "is not signed by the key it names")
                /\ UNCHANGED <<invocation, pc, public_keys, exit>>
           ELSE Raise(error_of(file))

\* One envelope: it must hold a receipt, and a missing author is a failure, not an error.
ReadReceipt ==
    /\ pc = "read_envelopes"
    /\ Len(receipts) < Len(invocation.envelopes)
    /\ LET file == invocation.envelopes[Len(receipts) + 1]
       IN  IF read_ok(file, "action")
           THEN /\ receipts' = Append(receipts, file.payload)
                /\ failures' = failures \cup When(~ author_signed(file, public_keys),
                                                  "is not signed by the key it names")
                /\ UNCHANGED <<invocation, pc, public_keys, exit>>
           ELSE Raise(error_of(file))

ReportSequence ==
    /\ pc = "read_envelopes"
    /\ Len(receipts) = Len(invocation.envelopes)
    /\ failures' = failures
          \cup When(\E i \in DOMAIN receipts : sequence_problems(receipts)[i] # {},
                    "the run is missing receipts or out of order")
    /\ pc' = "result"
    /\ UNCHANGED <<invocation, public_keys, receipts, exit>>

Result ==
    /\ pc = "result"
    /\ exit' = IF failures # {} THEN NOT_VERIFIED ELSE VERIFIED
    /\ pc' = "done"
    /\ UNCHANGED <<invocation, public_keys, receipts, failures>>

Next == ReadKeys \/ ReadReceipt \/ ReportSequence \/ Result

\* One thread of control with nothing to wait for.
Fairness == WF_vars(Next)

Spec == Init /\ [][Next]_vars /\ Fairness

-----------------------------------------------------------------------------
(***************************************************************************)
(* Properties.                                                             *)
(***************************************************************************)

\* Receipts are read in order, and an exit code means the end.
TypeOK ==
    /\ Len(receipts) =< Len(invocation.envelopes)
    /\ \A i \in DOMAIN receipts : receipts[i] = invocation.envelopes[i].payload
    /\ exit \in {None, VERIFIED, NOT_VERIFIED, BAD_INPUT, ESCAPED}
    /\ exit # None <=> pc = "done"

\* sequence_problems compares neighbours and the verdict covers the whole run: the agent of
\* the first receipt acted throughout and its key signed every receipt, the first and an only
\* one included, time never runs backwards over any distance, and no receipt is counted twice.
OneAgentOneStory ==
    exit = VERIFIED =>
        /\ \A i \in DOMAIN receipts :
              SignedBy(invocation.envelopes[i], receipts[1].agent.key_id, public_keys)
        /\ \A i, j \in DOMAIN receipts : i < j =>
              /\ receipts[i].agent = receipts[j].agent
              /\ receipts[i].issued_at =< receipts[j].issued_at
              /\ receipts[i] # receipts[j]

\* Nothing is missing before the last receipt: of all the runs that can be handed over, only
\* one that ends in that receipt verifies, so there is no shorter or other story to tell.
NothingMissing ==
    exit = VERIFIED =>
        \A other \in Invocations :
            LET told == [i \in DOMAIN other.envelopes |-> other.envelopes[i].payload]
            IN  /\ other.keys = invocation.keys
                /\ \A i \in DOMAIN other.envelopes :
                      read_ok(other.envelopes[i], "action")
                /\ last(told) = last(receipts)
                /\ Intact(told)
                => told = receipts

\* And nothing is refused without cause: a run that starts a sequence, in which every receipt
\* is its agent's and commits to the one before it without going back in time, verifies.
WholeRunsVerify ==
    exit = NOT_VERIFIED =>
        \/ receipts[1].prev # None
        \/ \E i \in DOMAIN receipts :
              ~ SignedBy(invocation.envelopes[i], receipts[i].agent.key_id, public_keys)
        \/ \E i \in DOMAIN receipts \ {1} :
              \/ receipts[i].prev # receipts[i - 1].id
              \/ receipts[i].prev_hash # digest(receipts[i - 1])
              \/ receipts[i].issued_at < receipts[i - 1].issued_at
              \/ receipts[i].agent # receipts[i - 1].agent

=============================================================================
