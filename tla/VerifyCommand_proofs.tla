------------------------ MODULE VerifyCommand_proofs ------------------------
(***************************************************************************)
(* Proofs about `mandates verify`, for every set of invocations, every     *)
(* chain length and every limit on it.                                     *)
(***************************************************************************)
EXTENDS VerifyReport, Display_proofs

Typed == invocation \in Invocations /\ Inv

\* The chain is the payloads of the grants read.
LEMMA ChainOfMandates ==
    ASSUME TypeOK
    PROVE  /\ DOMAIN mandates = 1..Len(mandates) /\ Len(mandates) \in Nat
           /\ DOMAIN chain = 1..Len(mandates) /\ Len(chain) = Len(mandates)
           /\ \A i \in 1..Len(mandates) : chain[i] = mandates[i].payload
<1> DEFINE S == {mandates[i].payload : i \in DOMAIN mandates}
<1>1. DOMAIN mandates = 1..Len(mandates) /\ Len(mandates) \in Nat
  BY SequenceDomain DEF TypeOK
<1>2. chain \in [1..Len(mandates) -> S]
  BY <1>1 DEF chain
<1>3. chain \in Seq(S) /\ Len(chain) = Len(mandates)
  BY <1>1, <1>2
<1> QED
  BY <1>1, <1>2, <1>3 DEF chain

\* A file that passed read_ok as a mandate or a receipt holds one.
LEMMA ReadHoldsType ==
    ASSUME NEW file, IsFile(file), read_envelope_ok(file)
    PROVE  /\ file.payload.type = "mandate" => IsMandate(file.payload)
           /\ file.payload.type = "action" => IsReceipt(file.payload)
           /\ file.payload.type = "outcome" => IsOutcome(file.payload)
           /\ IsDocument(file.payload)
BY DEF IsFile, read_envelope_ok, IsDocument, IsMandate, IsReceipt, IsOutcome

LEMMA InitInv == Init => Typed
<1> SUFFICES ASSUME Init PROVE Typed
  OBVIOUS
<1>1. mandates = << >> /\ positions = << >> /\ granted = 0 /\ pc = "read_keys" /\ exit = None
  BY DEF Init
<1>2. IsSequence(<< >>) /\ Len(<< >>) = 0 /\ DOMAIN << >> = {}
  BY DEF IsSequence
<1>3. Len(invocation.mandates) \in Nat
  BY InvocationAssumption, SequenceDomain DEF Init, IsInvocation
<1>4. TypeOK
  BY <1>1, <1>2, <1>3 DEF Init, TypeOK
<1>5. SignedSoFar /\ PositionsReported /\ NarrowingSoFar
  BY <1>1, <1>2 DEF SignedSoFar, PositionsReported, NarrowingSoFar
<1>6. Established
  BY <1>1 DEF Init, Established, Reading, VERIFIED
<1> QED
  BY <1>4, <1>5, <1>6 DEF Init, Typed, Inv

-----------------------------------------------------------------------------
(***************************************************************************)
(* Each step preserves the invariant.                                      *)
(***************************************************************************)

\* Steps that leave the grants and the positions alone leave what is said of them alone.
LEMMA LinksUnchanged ==
    ASSUME Inv, UNCHANGED <<mandates, positions>>
    PROVE  chain' = chain /\ PositionsReported' /\ NarrowingSoFar'
<1>1. chain' = chain
  BY DEF chain
<1>2. PositionsReported'
  BY <1>1 DEF Inv, PositionsReported
<1>3. NarrowingSoFar'
  BY <1>1 DEF Inv, NarrowingSoFar
<1> QED
  BY <1>1, <1>2, <1>3

LEMMA SignedUnchanged ==
    ASSUME Inv, UNCHANGED <<mandates, public_keys, granted, unauthorised>>
    PROVE  SignedSoFar'
BY DEF Inv, SignedSoFar, unsigned

\* How a read that cannot be made ends the run: only a file that was given can be at fault.
Raised == \E status : Raise(status)

Stopping ==
    /\ pc' = "done"
    /\ exit' \in {BAD_INPUT, ESCAPED}
    /\ exit' = ESCAPED => Given(Escaping)
    /\ UNCHANGED <<invocation, public_keys, mandates, action, failures, unauthorised, positions,
                   granted>>

LEMMA ErrorOfAFile ==
    ASSUME NEW file
    PROVE  error_of(file) \in {BAD_INPUT, ESCAPED} /\ (error_of(file) = ESCAPED => file = Escaping)
BY DEF error_of, BAD_INPUT, ESCAPED

LEMMA RaisedStops ==
    ASSUME Typed, Raised, ReadKeys \/ ReadEnvelope \/ ReadReceipt \/ ReadMandate \/ SelectAction
    PROVE  Stopping
<1>1. ASSUME NEW status, status \in {BAD_INPUT, ESCAPED}, status = ESCAPED => Given(Escaping),
             Raise(status)
      PROVE  Stopping
  BY <1>1 DEF Stopping, Raise
<1>2. pc' = "done"
  BY DEF Raised, Raise
<1>3. CASE ReadKeys
  <2>1. Raise(error_of(invocation.keys))
    BY <1>2, <1>3 DEF Raised, ReadKeys
  <2> QED
    BY <1>1, <2>1, ErrorOfAFile DEF Given
<1>4. CASE ReadEnvelope
  <2>1. Raise(error_of(invocation.envelope))
    BY <1>2, <1>4 DEF ReadEnvelope
  <2> QED
    BY <1>1, <2>1, ErrorOfAFile DEF Given
<1>5. CASE ReadReceipt
  <2>1. Raise(error_of(invocation.receipt)) \/ Raise(BAD_INPUT)
    BY <1>2, <1>5 DEF ReadReceipt
  <2>2. BAD_INPUT # ESCAPED
    BY DEF BAD_INPUT, ESCAPED
  <2> QED
    BY <1>1, <2>1, <2>2, ErrorOfAFile DEF Given
<1>6. CASE ReadMandate
  <2> DEFINE file == invocation.mandates[Len(mandates) + 1]
  <2>1. Raise(error_of(file))
    BY <1>2, <1>6 DEF ReadMandate
  <2>2. IsSequence(invocation.mandates) /\ IsSequence(mandates)
    BY InvocationAssumption DEF Typed, IsInvocation, Inv, TypeOK
  <2>3. Len(mandates) + 1 \in DOMAIN invocation.mandates
    BY <1>6, <2>2, SequenceDomain DEF ReadMandate
  <2> QED
    BY <1>1, <2>1, <2>3, ErrorOfAFile DEF Given
<1>7. CASE SelectAction
  <2>1. Raise(BAD_INPUT)
    BY <1>2, <1>7 DEF SelectAction
  <2>2. BAD_INPUT # ESCAPED
    BY DEF BAD_INPUT, ESCAPED
  <2> QED
    BY <1>1, <2>1, <2>2
<1> QED
  BY <1>3, <1>4, <1>5, <1>6, <1>7

LEMMA StoppingInv ==
    ASSUME Typed, exit = None, Stopping
    PROVE  Typed'
<1>1. Inv /\ UNCHANGED <<invocation, mandates, positions, public_keys, granted, unauthorised>>
  BY DEF Typed, Stopping
<1>2. chain' = chain /\ PositionsReported' /\ NarrowingSoFar'
  BY <1>1, LinksUnchanged
<1>3. SignedSoFar'
  BY <1>1, SignedUnchanged
<1>4. TypeOK'
  BY <1>1, <1>2, FileAssumption DEF Inv, TypeOK, Stopping, BAD_INPUT, ESCAPED
<1>5. Established'
  BY DEF Established, Reading, Stopping, Stopped, VERIFIED, BAD_INPUT, ESCAPED
<1> QED
  BY <1>1, <1>2, <1>3, <1>4, <1>5 DEF Typed, Inv

LEMMA ReadKeysInv ==
    ASSUME Typed, ReadKeys
    PROVE  Typed'
<1>1. Inv /\ pc = "read_keys" /\ exit = None /\ granted = 0
  BY DEF Typed, Inv, TypeOK, Established, Reading, ReadKeys
<1>2. CASE Raised
  BY <1>1, <1>2, RaisedStops, StoppingInv
<1>3. CASE ~ Raised
  <2>1. pc' = "read_envelope"
        /\ UNCHANGED <<invocation, mandates, action, failures, unauthorised, positions, granted, exit>>
    BY <1>3 DEF Raised, ReadKeys
  <2>2. chain' = chain /\ PositionsReported' /\ NarrowingSoFar'
    BY <1>1, <2>1, LinksUnchanged
  <2>3. SignedSoFar'
    BY <1>1, <2>1 DEF SignedSoFar
  <2>4. TypeOK'
    <3>1. public_keys_ok(invocation.keys) /\ public_keys' = listed_keys(invocation.keys)
      BY <1>3 DEF Raised, ReadKeys
    <3> QED
      BY <1>1, <2>1, <2>2, <3>1 DEF Inv, TypeOK
  <2>5. Established'
    BY <1>1, <2>1 DEF Inv, Established, Reading
  <2> QED
    BY <2>1, <2>2, <2>3, <2>4, <2>5 DEF Typed, Inv
<1> QED
  BY <1>2, <1>3

\* The two reads that only move on or stop.
LEMMA ReadFileInv ==
    ASSUME Typed, ReadEnvelope \/ ReadReceipt
    PROVE  Typed'
<1>1. Inv /\ Reading /\ exit = None /\ granted = 0
  BY DEF Typed, Inv, TypeOK, Established, Reading, ReadEnvelope, ReadReceipt
<1>2. CASE Raised
  BY <1>1, <1>2, RaisedStops, StoppingInv
<1>3. CASE ~ Raised
  <2>1. pc' \in {"read_receipt", "read_mandates"}
        /\ UNCHANGED <<invocation, public_keys, mandates, action, failures, unauthorised,
                       positions, granted, exit>>
    BY <1>3 DEF Raised, ReadEnvelope, ReadReceipt
  <2>2. chain' = chain /\ PositionsReported' /\ NarrowingSoFar'
    BY <1>1, <2>1, LinksUnchanged
  <2>3. SignedSoFar'
    BY <1>1, <2>1 DEF SignedSoFar
  <2>4. TypeOK'
    BY <1>1, <2>1, <2>2 DEF Inv, TypeOK, Reading
  <2>5. Established'
    BY <1>1, <1>3, <2>1
    DEF Raised, Stopped, Inv, Established, Reading, ReadEnvelope, ReadReceipt, read_receipt_ok
  <2> QED
    BY <2>1, <2>2, <2>3, <2>4, <2>5 DEF Typed, Inv
<1> QED
  BY <1>2, <1>3

\* No position is filled in while grants are still being read.
LEMMA NoPositionsWhileReading ==
    ASSUME Inv, Reading
    PROVE  granted = 0 /\ Len(positions) = 0 /\ DOMAIN positions = {}
<1>1. granted = 0 /\ Len(positions) = 0
  BY DEF Inv, TypeOK, Established
<1> QED
  BY <1>1, SequenceDomain DEF Inv, TypeOK

LEMMA ReadMandateInv ==
    ASSUME Typed, ReadMandate
    PROVE  Typed'
<1>1. Inv /\ Reading /\ exit = None /\ invocation \in Invocations
  BY DEF Typed, Inv, TypeOK, Reading, ReadMandate
<1>2. CASE Raised
  BY <1>1, <1>2, RaisedStops, StoppingInv
<1>3. CASE ~ Raised
  <2> DEFINE n == Len(mandates)
             file == invocation.mandates[n + 1]
  <2>1. /\ n < Len(invocation.mandates) /\ read_ok(file, "mandate")
        /\ mandates' = Append(mandates, file)
        /\ UNCHANGED <<invocation, pc, public_keys, action, failures, unauthorised, positions,
                       granted, exit>>
    BY <1>3 DEF Raised, ReadMandate
  <2>2. /\ n \in Nat /\ DOMAIN mandates = 1..n
        /\ IsSequence(mandates') /\ Len(mandates') = n + 1 /\ DOMAIN mandates' = 1..(n + 1)
        /\ \A i \in 1..n : mandates'[i] = mandates[i]
        /\ mandates'[n + 1] = file
    BY <1>1, <2>1, SequenceGrows DEF Inv, TypeOK
  <2>3. IsMandate(file.payload)
    <3>1. IsSequence(invocation.mandates)
          /\ \A i \in DOMAIN invocation.mandates : IsFile(invocation.mandates[i])
      BY <1>1, InvocationAssumption DEF IsInvocation
    <3>2. n + 1 \in DOMAIN invocation.mandates
      BY <2>1, <2>2, <3>1, SequenceDomain
    <3> QED
      BY <2>1, <3>1, <3>2, ReadHoldsType DEF read_ok
  <2>4. \A i \in 1..(n + 1) : mandates'[i] = invocation.mandates[i] /\ IsMandate(chain'[i])
    <3>1. chain' = [i \in 1..(n + 1) |-> mandates'[i].payload]
      BY <2>2 DEF chain
    <3>2. \A i \in 1..n : mandates[i] = invocation.mandates[i] /\ IsMandate(mandates[i].payload)
      BY <1>1, ChainOfMandates DEF Inv, TypeOK
    <3> QED
      BY <2>2, <2>3, <3>1, <3>2
  <2>5. granted = 0 /\ Len(positions) = 0 /\ DOMAIN positions = {}
    BY <1>1, NoPositionsWhileReading
  <2>6. TypeOK'
    <3>1. Len(mandates') =< Len(invocation'.mandates)
      <4>1. Len(invocation.mandates) \in Nat
        BY <1>1, InvocationAssumption, SequenceDomain DEF IsInvocation
      <4> QED
        BY <2>1, <2>2, <4>1
    <3>2. granted' \in 0..Len(mandates') /\ Len(positions') \in 0..granted'
      BY <2>1, <2>2, <2>5
    <3> QED
      BY <1>1, <2>1, <2>2, <2>4, <3>1, <3>2 DEF Inv, TypeOK
  <2>7. SignedSoFar' /\ PositionsReported' /\ NarrowingSoFar'
    BY <2>1, <2>5 DEF SignedSoFar, PositionsReported, NarrowingSoFar
  <2>8. Established'
    <3>1. Reading' /\ exit' = None /\ pc = "read_mandates"
      BY <1>1, <2>1 DEF Reading, ReadMandate
    <3> QED
      BY <1>1, <2>1, <3>1, FileAssumption DEF Stopped, Inv, Established, Reading, read_receipt_ok
  <2> QED
    BY <1>1, <2>1, <2>6, <2>7, <2>8 DEF Typed, Inv
<1> QED
  BY <1>2, <1>3

\* The receipt whose authority is asked about comes out of a file that was read as one.
LEMMA SelectActionInv ==
    ASSUME Typed, SelectAction
    PROVE  Typed'
<1>1. Inv /\ Reading /\ exit = None /\ invocation \in Invocations /\ granted = 0
  BY DEF Typed, Inv, TypeOK, Established, Reading, SelectAction
<1>2. CASE Raised
  BY <1>1, <1>2, RaisedStops, StoppingInv
<1>3. CASE ~ Raised
  <2>1. /\ pc' = "check_document" /\ action' = selected_action
        /\ Len(mandates) = Len(invocation.mandates)
        /\ mandates = << >> \/ selected_action # None
        /\ UNCHANGED <<invocation, public_keys, mandates, failures, unauthorised, positions,
                       granted, exit>>
    BY <1>3 DEF Raised, SelectAction
  <2>2. chain' = chain /\ PositionsReported' /\ NarrowingSoFar'
    BY <1>1, <2>1, LinksUnchanged
  <2>3. SignedSoFar'
    BY <1>1, <2>1 DEF SignedSoFar
  <2>4. TypeOK'
    <3>1. selected_action = None \/ IsReceipt(selected_action)
      <4>1. read_envelope_ok(invocation.envelope) /\ IsFile(invocation.envelope)
        BY <1>1, <1>3, FileAssumption, InvocationAssumption
        DEF Stopped, Inv, Established, SelectAction, IsInvocation
      <4>2. invocation.receipt # None =>
               IsFile(invocation.receipt) /\ read_ok(invocation.receipt, "action")
        BY <1>1, <1>3, FileAssumption, InvocationAssumption
        DEF Stopped, Inv, Established, SelectAction, IsInvocation, read_receipt_ok
      <4> QED
        BY <4>1, <4>2, ReadHoldsType DEF selected_action, read_ok
    <3> QED
      BY <1>1, <2>1, <2>2, <3>1 DEF Inv, TypeOK
  <2>5. Established'
    BY <1>1, <1>3, <2>1, FileAssumption
    DEF Raised, SelectAction, Inv, Established, Reading, Stopped, selected_action, read_receipt_ok,
        VERIFIED
  <2> QED
    BY <2>1, <2>2, <2>3, <2>4, <2>5 DEF Typed, Inv
<1> QED
  BY <1>2, <1>3

\* An exit code is given by the last step only.
LEMMA NotYetOver ==
    ASSUME Inv, pc # "done"
    PROVE  exit = None /\ ~ Stopped /\ exit # VERIFIED
BY FileAssumption DEF Inv, TypeOK, Stopped

LEMMA CheckDocumentInv ==
    ASSUME Typed, CheckDocument
    PROVE  Typed'
<1>1. Inv /\ pc = "check_document" /\ exit = None /\ ~ Stopped /\ exit # VERIFIED
  BY NotYetOver DEF Typed, CheckDocument
<1>2. /\ pc' = "report_binding"
      /\ UNCHANGED <<invocation, public_keys, mandates, action, unauthorised, positions, granted,
                     exit>>
  BY DEF CheckDocument
<1>3. chain' = chain /\ PositionsReported' /\ NarrowingSoFar' /\ SignedSoFar'
  BY <1>1, <1>2, LinksUnchanged, SignedUnchanged
<1>4. TypeOK'
  BY <1>1, <1>2, <1>3 DEF Inv, TypeOK
<1>5. failures' = {} => unsigned(invocation.envelope) = {}
  BY DEF CheckDocument
<1>6. Established'
  BY <1>1, <1>2, <1>5 DEF Inv, Established, Reading, selected_action, read_receipt_ok, unsigned
<1> QED
  BY <1>2, <1>3, <1>4, <1>6 DEF Typed, Inv

LEMMA ReportBindingInv ==
    ASSUME Typed, ReportBinding
    PROVE  Typed'
<1>1. Inv /\ pc = "report_binding" /\ exit = None /\ ~ Stopped /\ exit # VERIFIED
  BY NotYetOver DEF Typed, ReportBinding
<1>2. /\ pc' = IF action = None \/ mandates = << >> THEN "result" ELSE "report_authority"
      /\ UNCHANGED <<invocation, public_keys, mandates, action, unauthorised, positions, granted,
                     exit>>
  BY DEF ReportBinding
<1>3. chain' = chain /\ PositionsReported' /\ NarrowingSoFar' /\ SignedSoFar'
  BY <1>1, <1>2, LinksUnchanged, SignedUnchanged
<1>4. TypeOK'
  BY <1>1, <1>2, <1>3 DEF Inv, TypeOK
<1>5. failures' = {} =>
         /\ unsigned(invocation.envelope) = {}
         /\ invocation.receipt # None =>
               unsigned(invocation.receipt) = {}
               /\ binding_problems(invocation.receipt.payload, invocation.envelope.payload) = {}
  BY <1>1 DEF ReportBinding, Inv, Established, When
<1>6. mandates # << >> => action # None
  BY <1>1 DEF Inv, Established, Reading
<1>7. Established'
  BY <1>1, <1>2, <1>5, <1>6
  DEF Inv, Established, Reading, selected_action, read_receipt_ok, unsigned
<1> QED
  BY <1>2, <1>3, <1>4, <1>7 DEF Typed, Inv

LEMMA CheckGrantInv ==
    ASSUME Typed, CheckGrant
    PROVE  Typed'
<1>1. /\ Inv /\ pc = "report_authority" /\ exit = None /\ ~ Stopped /\ exit # VERIFIED
      /\ Len(mandates) \in Nat /\ granted \in 0..Len(mandates) /\ Len(positions) \in 0..granted
  BY NotYetOver, ChainOfMandates DEF Typed, CheckGrant, Inv, TypeOK
<1>2. /\ granted < Len(mandates) /\ granted' = granted + 1
      /\ unauthorised' = unauthorised \cup unsigned(mandates[granted + 1])
      /\ UNCHANGED <<invocation, pc, public_keys, mandates, action, failures, positions, exit>>
  BY DEF CheckGrant
<1>3. chain' = chain /\ PositionsReported' /\ NarrowingSoFar'
  BY <1>1, <1>2, LinksUnchanged
<1>4. SignedSoFar'
  <2>1. SUFFICES ASSUME unauthorised' = {}, NEW i \in 1..(granted + 1)
                 PROVE  unsigned(mandates[i]) = {}
    BY <1>2 DEF SignedSoFar, unsigned
  <2>2. CASE i = granted + 1
    BY <1>2, <2>1, <2>2
  <2>3. CASE i \in 1..granted
    BY <1>1, <1>2, <2>1, <2>3 DEF Inv, SignedSoFar
  <2> QED
    BY <1>1, <2>2, <2>3
<1>5. TypeOK'
  <2>1. granted' \in 0..Len(mandates) /\ Len(positions) \in 0..granted'
    BY <1>1, <1>2
  <2> QED
    BY <1>1, <1>2, <1>3, <2>1 DEF Inv, TypeOK
<1>6. Established'
  BY <1>1, <1>2 DEF Inv, Established, Reading, selected_action, read_receipt_ok, unsigned
<1> QED
  BY <1>2, <1>3, <1>4, <1>5, <1>6 DEF Typed, Inv

\* The heart of the matter: one clean link more, and the next grant too is narrower than all.
LEMMA CheckLinkInv ==
    ASSUME Typed, CheckLink
    PROVE  Typed'
<1> DEFINE n == Len(positions)
           report == IF n + 1 = 1 THEN root_problems(chain)
                     ELSE delegation_problems(chain[n + 1 - 1], chain[n + 1])
<1>1. /\ Inv /\ pc = "report_authority" /\ exit = None /\ ~ Stopped /\ exit # VERIFIED
      /\ Len(mandates) \in Nat /\ n \in Nat /\ DOMAIN mandates = 1..Len(mandates)
  BY NotYetOver, ChainOfMandates, SequenceDomain DEF Typed, CheckLink, Inv, TypeOK
<1>2. /\ granted = Len(mandates) /\ n < Len(mandates)
      /\ positions' = Append(positions, report)
      /\ UNCHANGED <<invocation, pc, public_keys, mandates, action, failures, unauthorised,
                     granted, exit>>
  BY DEF CheckLink
<1>3. /\ IsSequence(positions') /\ Len(positions') = n + 1
      /\ DOMAIN positions = 1..n /\ DOMAIN positions' = 1..(n + 1)
      /\ \A i \in 1..n : positions'[i] = positions[i]
      /\ positions'[n + 1] = report
  BY <1>1, <1>2, SequenceGrows DEF Inv, TypeOK
<1>4. chain' = chain /\ SignedSoFar'
  BY <1>1, <1>2, SignedUnchanged DEF chain
<1>5. TypeOK'
  <2>1. Len(positions') \in 0..granted'
    BY <1>1, <1>2, <1>3
  <2> QED
    BY <1>1, <1>2, <1>3, <1>4, <2>1 DEF Inv, TypeOK
<1>6. PositionsReported'
  <2>1. \A i \in 1..n : positions'[i] = IF i = 1 THEN root_problems(chain)
                          ELSE delegation_problems(chain[i - 1], chain[i])
    BY <1>1, <1>3 DEF Inv, PositionsReported
  <2>2. \A i \in 1..(n + 1) : i \in 1..n \/ i = n + 1
    BY <1>1
  <2> QED
    BY <1>3, <1>4, <2>1, <2>2 DEF PositionsReported
<1>7. NarrowingSoFar'
  <2>1. SUFFICES ASSUME NEW i \in 1..(n + 1), \A k \in 1..i : positions'[k] = {},
                        NEW j \in 1..(i - 1)
                 PROVE  Narrower(chain[i], chain[j])
    BY <1>3, <1>4 DEF NarrowingSoFar
  <2>2. CASE i \in 1..n
    <3>1. \A k \in 1..i : k \in 1..n
      BY <1>1, <2>2
    <3>2. \A k \in 1..i : positions[k] = {}
      BY <1>3, <2>1, <3>1
    <3> QED
      BY <1>1, <1>3, <2>2, <3>2 DEF Inv, NarrowingSoFar
  <2>3. CASE i = n + 1
    <3>1. n \in 1..n /\ n + 1 \in 1..Len(mandates) /\ n \in 1..Len(mandates)
          /\ j \in 1..Len(mandates)
      BY <1>1, <1>2, <2>3
    <3>2. IsMandate(chain[n + 1]) /\ IsMandate(chain[n]) /\ IsMandate(chain[j])
      BY <1>1, <3>1 DEF Inv, TypeOK
    <3>3. delegation_problems(chain[n], chain[n + 1]) = {}
      <4>1. positions'[n + 1] = {}
        BY <1>1, <2>1, <2>3
      <4>2. n + 1 # 1 /\ n + 1 - 1 = n
        BY <3>1
      <4> QED
        BY <1>3, <4>1, <4>2
    <3>4. Narrower(chain[n + 1], chain[n])
      BY <3>2, <3>3, CleanLink DEF PassedOn
    <3>5. CASE j = n
      BY <2>3, <3>4, <3>5
    <3>6. CASE j # n
      <4>1. j \in 1..(n - 1)
        BY <1>1, <2>3, <3>6
      <4>2. \A k \in 1..n : positions[k] = {}
        BY <1>1, <1>3, <2>1, <2>3
      <4>3. Narrower(chain[n], chain[j])
        BY <1>1, <1>3, <3>1, <4>1, <4>2 DEF Inv, NarrowingSoFar
      <4> QED
        BY <2>3, <3>2, <3>4, <4>3, NarrowerTransitive
    <3> QED
      BY <3>5, <3>6
  <2> QED
    BY <1>1, <2>2, <2>3
<1>8. Established'
  BY <1>1, <1>2, <1>4 DEF Inv, Established, Reading, selected_action, read_receipt_ok, unsigned
<1> QED
  BY <1>2, <1>4, <1>5, <1>6, <1>7, <1>8 DEF Typed, Inv

LEMMA ReportChainInv ==
    ASSUME Typed, ReportChain
    PROVE  Typed'
<1>1. /\ Inv /\ pc = "report_authority" /\ exit = None /\ ~ Stopped /\ exit # VERIFIED
      /\ Len(mandates) \in Nat /\ granted \in 0..Len(mandates) /\ Len(positions) \in 0..granted
  BY NotYetOver, ChainOfMandates DEF Typed, ReportChain, Inv, TypeOK
<1>2. /\ pc' = "report_grant" /\ Len(positions) = Len(mandates)
      /\ unauthorised \subseteq unauthorised'
      /\ unauthorised' = {} => \A i \in DOMAIN positions : positions[i] = {}
      /\ UNCHANGED <<invocation, public_keys, mandates, action, failures, positions, granted, exit>>
  BY DEF ReportChain, When
<1>3. chain' = chain /\ PositionsReported' /\ NarrowingSoFar'
  BY <1>1, <1>2, LinksUnchanged
<1>4. SignedSoFar'
  BY <1>1, <1>2 DEF Inv, SignedSoFar, unsigned
<1>5. TypeOK'
  BY <1>1, <1>2, <1>3 DEF Inv, TypeOK
<1>6. unauthorised' = {} => ChainHolds'
  BY <1>1, <1>2 DEF ChainHolds
<1>7. Established'
  BY <1>1, <1>2, <1>6 DEF Inv, Established, Reading, selected_action, read_receipt_ok, unsigned
<1> QED
  BY <1>2, <1>3, <1>4, <1>5, <1>7 DEF Typed, Inv

LEMMA ReportGrantInv ==
    ASSUME Typed, ReportGrant
    PROVE  Typed'
<1>1. Inv /\ pc = "report_grant" /\ exit = None /\ ~ Stopped /\ exit # VERIFIED
  BY NotYetOver DEF Typed, ReportGrant
<1>2. /\ pc' = "result" /\ failures \subseteq failures'
      /\ failures' = {} => unauthorised = {} /\ GrantHolds
      /\ UNCHANGED <<invocation, public_keys, mandates, action, unauthorised, positions, granted,
                     exit>>
  BY DEF ReportGrant, GrantHolds, When
<1>3. chain' = chain /\ PositionsReported' /\ NarrowingSoFar' /\ SignedSoFar'
  BY <1>1, <1>2, LinksUnchanged, SignedUnchanged
<1>4. TypeOK'
  BY <1>1, <1>2, <1>3 DEF Inv, TypeOK
<1>5. failures' = {} => ChainHolds' /\ GrantHolds'
  BY <1>1, <1>2, <1>3 DEF Inv, Established, ChainHolds, GrantHolds
<1>6. Established'
  BY <1>1, <1>2, <1>5 DEF Inv, Established, Reading, selected_action, read_receipt_ok, unsigned
<1> QED
  BY <1>2, <1>3, <1>4, <1>6 DEF Typed, Inv

LEMMA ResultInv ==
    ASSUME Typed, Result
    PROVE  Typed'
<1>1. Inv /\ pc = "result" /\ exit = None /\ ~ Stopped /\ exit # VERIFIED
  BY NotYetOver DEF Typed, Result
<1>2. /\ pc' = "done" /\ exit' = IF failures # {} THEN NOT_VERIFIED ELSE VERIFIED
      /\ UNCHANGED <<invocation, public_keys, mandates, action, failures, unauthorised, positions,
                     granted>>
  BY DEF Result
<1>3. chain' = chain /\ PositionsReported' /\ NarrowingSoFar' /\ SignedSoFar'
  BY <1>1, <1>2, LinksUnchanged, SignedUnchanged
<1>4. TypeOK'
  BY <1>1, <1>2, <1>3, FileAssumption DEF Inv, TypeOK
<1>5. ChainHolds => ChainHolds'
  BY <1>2 DEF ChainHolds
<1>6. GrantHolds => GrantHolds'
  BY <1>2, <1>3 DEF GrantHolds
<1>7. exit' = VERIFIED => failures = {}
  BY <1>2 DEF VERIFIED, NOT_VERIFIED
<1>8. Established'
  BY <1>1, <1>2, <1>5, <1>6, <1>7
  DEF Inv, Established, Reading, selected_action, read_receipt_ok, unsigned
<1> QED
  BY <1>2, <1>3, <1>4, <1>8 DEF Typed, Inv

LEMMA StutterInv ==
    ASSUME Typed, UNCHANGED vars
    PROVE  Typed'
<1>1. Inv /\ UNCHANGED <<invocation, pc, public_keys, mandates, action, failures, unauthorised,
                         positions, granted, exit>>
  BY DEF Typed, vars
<1>2. chain' = chain /\ PositionsReported' /\ NarrowingSoFar' /\ SignedSoFar'
  BY <1>1, LinksUnchanged, SignedUnchanged
<1>3. TypeOK'
  BY <1>1, <1>2 DEF Inv, TypeOK
<1>4. (ChainHolds => ChainHolds') /\ (GrantHolds => GrantHolds')
  BY <1>1, <1>2 DEF ChainHolds, GrantHolds
<1>5. Established'
  BY <1>1, <1>4 DEF Stopped, Inv, Established, Reading, selected_action, read_receipt_ok, unsigned
<1> QED
  BY <1>1, <1>2, <1>3, <1>5 DEF Typed, Inv

LEMMA NextInv == Typed /\ [Next]_vars => Typed'
<1> SUFFICES ASSUME Typed, [Next]_vars PROVE Typed'
  OBVIOUS
<1>1. CASE ReadKeys BY <1>1, ReadKeysInv
<1>2. CASE ReadEnvelope \/ ReadReceipt BY <1>2, ReadFileInv
<1>3. CASE ReadMandate BY <1>3, ReadMandateInv
<1>4. CASE SelectAction BY <1>4, SelectActionInv
<1>5. CASE CheckDocument BY <1>5, CheckDocumentInv
<1>6. CASE ReportBinding BY <1>6, ReportBindingInv
<1>7. CASE CheckGrant BY <1>7, CheckGrantInv
<1>8. CASE CheckLink BY <1>8, CheckLinkInv
<1>9. CASE ReportChain BY <1>9, ReportChainInv
<1>10. CASE ReportGrant BY <1>10, ReportGrantInv
<1>11. CASE Result BY <1>11, ResultInv
<1>12. CASE UNCHANGED vars BY <1>12, StutterInv
<1> QED
  BY <1>1, <1>2, <1>3, <1>4, <1>5, <1>6, <1>7, <1>8, <1>9, <1>10, <1>11, <1>12 DEF Next

LEMMA InvariantHolds == Spec => []Typed
<1>1. Init => Typed
  BY InitInv
<1>2. Typed /\ [Next]_vars => Typed'
  BY NextInv
<1> QED
  BY <1>1, <1>2, PTL DEF Spec

-----------------------------------------------------------------------------
(***************************************************************************)
(* What the invariant means at the end of a run.                           *)
(***************************************************************************)

\* When grants were given and the verdict is VERIFIED, nothing was left unchecked.
LEMMA VouchedMeans ==
    ASSUME Typed, Vouched
    PROVE  /\ Len(mandates) \in Nat \ {0} /\ Len(chain) = Len(mandates)
           /\ mandates # << >> /\ DOMAIN chain = 1..Len(mandates)
           /\ \A i \in 1..Len(mandates) :
                 /\ chain[i] = mandates[i].payload /\ IsMandate(chain[i])
                 /\ unsigned(mandates[i]) = {}
                 /\ positions[i] = {}
           /\ DOMAIN positions = 1..Len(mandates)
           /\ IsReceipt(action) /\ action = selected_action
           /\ TakenUnder(action, chain[Len(mandates)])
           /\ ~ allowed_beyond_mandate(chain[Len(mandates)], action)
           /\ unsigned(invocation.envelope) = {}
           /\ invocation.receipt # None => unsigned(invocation.receipt) = {}
<1>1. exit = VERIFIED /\ ~ Stopped /\ pc = "done" /\ failures = {} /\ ~ Reading
  BY FileAssumption DEF Vouched, Typed, Inv, TypeOK, Established, Reading,
                        VERIFIED, NOT_VERIFIED, BAD_INPUT, ESCAPED, Stopped
<1>2. /\ Len(mandates) = Len(invocation.mandates)
      /\ mandates # << >> => action # None
      /\ action = selected_action
      /\ unsigned(invocation.envelope) = {}
      /\ invocation.receipt # None => unsigned(invocation.receipt) = {}
      /\ mandates # << >> => ChainHolds /\ GrantHolds
  BY <1>1 DEF Typed, Inv, Established
<1>3. Len(mandates) \in Nat \ {0} /\ mandates # << >>
  <2>1. IsSequence(invocation.mandates) /\ IsSequence(mandates)
    BY InvocationAssumption DEF Typed, IsInvocation, Inv, TypeOK
  <2>2. Len(invocation.mandates) # 0
    BY <2>1 DEF Vouched, IsSequence
  <2> QED
    BY <1>2, <2>1, <2>2, SequenceDomain
<1>4. /\ Len(chain) = Len(mandates) /\ DOMAIN chain = 1..Len(mandates)
      /\ DOMAIN mandates = 1..Len(mandates)
      /\ \A i \in 1..Len(mandates) : chain[i] = mandates[i].payload /\ IsMandate(chain[i])
  BY ChainOfMandates DEF Typed, Inv, TypeOK
<1>5. ChainHolds /\ GrantHolds /\ IsReceipt(action)
  BY <1>2, <1>3 DEF Typed, Inv, TypeOK
<1>6. DOMAIN positions = 1..Len(mandates)
  BY <1>5, SequenceDomain DEF ChainHolds, Typed, Inv, TypeOK
<1>7. \A i \in 1..Len(mandates) : positions[i] = {} /\ unsigned(mandates[i]) = {}
  BY <1>5, <1>6 DEF ChainHolds, Typed, Inv, SignedSoFar
<1>8. TakenUnder(action, chain[Len(mandates)])
      /\ ~ allowed_beyond_mandate(chain[Len(mandates)], action)
  <2>1. Len(mandates) \in 1..Len(mandates)
    BY <1>3
  <2> QED
    BY <1>4, <1>5, <2>1, CleanGrant DEF GrantHolds
<1> QED
  BY <1>2, <1>3, <1>4, <1>5, <1>6, <1>7, <1>8

\* Then the last grant is narrower than each of the others.
LEMMA VouchedNarrows ==
    ASSUME Typed, Vouched, NEW i \in 1..Len(mandates), i # Len(mandates)
    PROVE  Narrower(chain[Len(mandates)], chain[i])
<1>1. /\ Len(mandates) \in DOMAIN positions
      /\ \A k \in 1..Len(mandates) : positions[k] = {}
      /\ i \in 1..(Len(mandates) - 1)
  <2>1. Len(mandates) \in Nat \ {0} /\ DOMAIN positions = 1..Len(mandates)
    BY VouchedMeans
  <2>2. \A k \in 1..Len(mandates) : positions[k] = {}
    BY VouchedMeans
  <2> QED
    BY <2>1, <2>2
<1> QED
  BY <1>1 DEF Typed, Inv, NarrowingSoFar

LEMMA WithinEveryGrantHolds == Typed => WithinEveryGrant
<1> SUFFICES ASSUME Typed, Vouched, action.decision # "deny", NEW i \in DOMAIN chain
             PROVE  Covers(chain[i], action.action, action.issued_at)
  BY DEF WithinEveryGrant
<1> DEFINE n == Len(mandates)
<1>1. n \in 1..n /\ i \in 1..n /\ IsMandate(chain[n]) /\ IsMandate(chain[i]) /\ IsReceipt(action)
  BY VouchedMeans
<1>2. chain[n].issued_at =< action.issued_at
  BY VouchedMeans DEF TakenUnder
<1>3. scope_violations(chain[n], action) = {}
  BY VouchedMeans DEF allowed_beyond_mandate
<1>4. Covers(chain[n], action.action, action.issued_at)
  BY <1>1, <1>2, <1>3, CleanScope
<1>5. CASE i = n
  BY <1>4, <1>5
<1>6. CASE i # n
  <2>1. Narrower(chain[n], chain[i])
    BY <1>1, <1>6, VouchedNarrows
  <2>2. action.action \in Action /\ action.issued_at \in Int
    BY <1>1 DEF IsReceipt, Timestamp
  <2> QED
    BY <1>1, <1>4, <2>1, <2>2, NarrowerCovers
<1> QED
  BY <1>5, <1>6

\* A listed key is a key, and a did:key id never stands for anything but one.
LEMMA KeysResolve ==
    ASSUME Typed, NEW k \in KeyIds
    PROVE  public_key(public_keys, k) \in Keys \cup {None}
<1>1. IsDirectory(invocation.keys)
  BY InvocationAssumption DEF Typed, IsInvocation
<1>2. k \in DidKeys => CarriedKey[k] \in Keys \cup {None}
  BY DidAssumption
<1>3. CASE public_keys = << >>
  BY <1>2, <1>3 DEF public_key
<1>4. CASE public_keys_ok(invocation.keys) /\ public_keys = listed_keys(invocation.keys)
  <2>1. CASE invocation.keys = None
    BY <1>2, <1>4, <2>1 DEF public_key, listed_keys
  <2>2. CASE invocation.keys # None
    <3>1. \A key_id \in DOMAIN public_keys : public_keys[key_id] \in Keys
      BY <1>1, <1>4, <2>2 DEF IsDirectory, public_keys_ok, listed_keys
    <3> QED
      BY <1>2, <3>1 DEF public_key
  <2> QED
    BY <2>1, <2>2
<1> QED
  BY <1>3, <1>4 DEF Typed, Inv, TypeOK

\* A document whose report is empty carries a good signature of the author it names.
LEMMA AuthorSigned ==
    ASSUME Typed, NEW envelope, unsigned(envelope) = {},
           NEW k \in KeyIds, k = required_signer(envelope.payload)
    PROVE  SignedBy(envelope, k, public_keys)
<1>1. k # None /\ public_key(public_keys, k) \in Keys \cup {None}
  BY KeysResolve, DidAssumption
<1>2. author_signed(envelope, public_keys)
  BY DEF unsigned, When
<1>3. k \in verified_signers(envelope, public_keys)
  BY <1>1, <1>2 DEF author_signed
<1> QED
  BY <1>1, <1>3 DEF verified_signers, SignedBy

\* What the links of a vouched chain say: the root names its principal as its author and
\* every later grant names the holder of the one before it.
LEMMA VouchedLinks ==
    ASSUME Typed, Vouched
    PROVE  /\ required_signer(chain[1]) = chain[1].principal.key_id
           /\ \A i, j \in 1..Len(mandates) : chain[i].agent = chain[j].agent => i = j
           /\ \A i \in 1..(Len(mandates) - 1) :
                 required_signer(chain[i + 1]) = chain[i].agent.key_id
<1> DEFINE n == Len(mandates)
<1>1. n \in Nat \ {0} /\ Len(chain) = n /\ DOMAIN positions = 1..n
  BY VouchedMeans
<1>2. \A i \in 1..n : IsMandate(chain[i]) /\ positions[i] = {}
  BY VouchedMeans
<1>3. 1 \in 1..n
  BY <1>1
<1>4. root_problems(chain) = {}
  BY <1>1, <1>2, <1>3 DEF Typed, Inv, PositionsReported
<1>5. required_signer(chain[1]) = chain[1].principal.key_id
  <2>1. chain[1].delegated_from = None /\ chain[1].type = "mandate"
    BY <1>2, <1>3, <1>4 DEF root_problems, When, IsMandate
  <2> QED
    BY <2>1 DEF required_signer
<1>6. ASSUME NEW i \in 1..n, NEW j \in 1..n, chain[i].agent = chain[j].agent
      PROVE  i = j
  <2>1. ~ \E a, b \in 1..Len(chain) : a < b /\ chain[a].agent = chain[b].agent
    BY <1>4 DEF root_problems, When
  <2>2. ~ (i < j) /\ ~ (j < i)
    BY <1>1, <1>6, <2>1
  <2> QED
    BY <1>1, <2>2
<1>7. ASSUME NEW i \in 1..(n - 1)
      PROVE  required_signer(chain[i + 1]) = chain[i].agent.key_id
  <2>1. i \in 1..n /\ i + 1 \in 1..n /\ i + 1 # 1 /\ i + 1 - 1 = i
    BY <1>1
  <2>2. delegation_problems(chain[i], chain[i + 1]) = {}
    BY <1>1, <1>2, <2>1 DEF Typed, Inv, PositionsReported
  <2>3. PassedOn(chain[i + 1], chain[i])
    BY <1>2, <2>1, <2>2, CleanLink
  <2>4. chain[i + 1].delegated_from = DelegationLink(chain[i].id, digest(chain[i]), chain[i].agent)
    BY <2>3 DEF PassedOn
  <2>5. chain[i + 1].delegated_from # None
    BY <2>2 DEF delegation_problems
  <2>6. chain[i + 1].type = "mandate"
    BY <1>2, <2>1 DEF IsMandate
  <2> QED
    BY <2>4, <2>5, <2>6 DEF required_signer, DelegationLink
<1> QED
  BY <1>5, <1>6, <1>7

\* The receipt was signed by the holder of the last grant.
LEMMA VouchedReceipt ==
    ASSUME Typed, Vouched
    PROVE  SignedBy(IF invocation.receipt = None THEN invocation.envelope
                                                 ELSE invocation.receipt,
                    chain[Len(mandates)].agent.key_id, public_keys)
<1> DEFINE receipt == IF invocation.receipt = None THEN invocation.envelope
                                                   ELSE invocation.receipt
<1>1. /\ IsReceipt(action) /\ action = selected_action
      /\ action.agent = chain[Len(mandates)].agent
  BY VouchedMeans DEF TakenUnder
<1>2. unsigned(receipt) = {}
  BY VouchedMeans
<1>3. action = receipt.payload
  <2>1. action # None
    <3>1. Len(mandates) = Len(invocation.mandates) /\ exit = VERIFIED /\ pc = "done"
          /\ ~ Stopped
      BY FileAssumption DEF Vouched, Typed, Inv, TypeOK, Established, Reading,
                            VERIFIED, BAD_INPUT, ESCAPED, Stopped
    <3> QED
      BY <3>1, VouchedMeans DEF Typed, Inv, Established, Reading
  <2>2. invocation.receipt # None => invocation.envelope.payload.type = "outcome"
    BY FileAssumption
    DEF Vouched, Typed, Inv, TypeOK, Established, Stopped, read_receipt_ok, VERIFIED, BAD_INPUT,
        ESCAPED
  <2> QED
    BY <1>1, <2>1, <2>2 DEF selected_action
<1>4. required_signer(receipt.payload) = action.agent.key_id /\ action.agent \in Agent
  BY <1>1, <1>3 DEF required_signer, IsReceipt
<1> QED
  BY <1>1, <1>2, <1>4, AuthorSigned DEF Agent

LEMMA HandToHandHolds == Typed => HandToHand
<1> SUFFICES ASSUME Typed, Vouched PROVE HandToHand
  BY DEF HandToHand
<1> DEFINE n == Len(mandates)
<1>1. n \in Nat \ {0}
  BY VouchedMeans
<1>2. \A i \in 1..n : /\ chain[i] = mandates[i].payload /\ unsigned(mandates[i]) = {}
                       /\ chain[i].principal.key_id \in KeyIds
                       /\ chain[i].agent.key_id \in KeyIds
  BY VouchedMeans DEF IsMandate, Principal, Agent
<1>3. SignedBy(mandates[1], chain[1].principal.key_id, public_keys)
  <2>1. 1 \in 1..n /\ required_signer(mandates[1].payload) = chain[1].principal.key_id
    BY <1>1, <1>2, VouchedLinks
  <2> QED
    BY <1>2, <2>1, AuthorSigned
<1>4. ASSUME NEW i \in 1..(n - 1)
      PROVE  SignedBy(mandates[i + 1], chain[i].agent.key_id, public_keys)
  <2>1. i \in 1..n /\ i + 1 \in 1..n
    BY <1>1
  <2>2. required_signer(mandates[i + 1].payload) = chain[i].agent.key_id
    BY <1>2, <2>1, VouchedLinks
  <2> QED
    BY <1>2, <2>1, <2>2, AuthorSigned
<1> QED
  BY <1>3, <1>4, VouchedReceipt DEF HandToHand

LEMMA AnswersToTheRootHolds == Typed => AnswersToTheRoot
<1> SUFFICES ASSUME Typed, Vouched PROVE AnswersToTheRoot
  BY DEF AnswersToTheRoot
<1> DEFINE n == Len(mandates)
<1>1. n \in Nat \ {0} /\ DOMAIN chain = 1..n /\ n \in 1..n /\ DOMAIN positions = 1..n
  BY VouchedMeans
<1>2. \A k \in 1..n : positions[k] = {}
  BY VouchedMeans
<1>3. ASSUME NEW i \in 1..n
      PROVE  chain[i].principal = accountable_principal(chain)
  <2>1. CASE i = 1
    BY <2>1 DEF accountable_principal
  <2>2. CASE i # 1
    <3>1. 1 \in 1..(i - 1) /\ \A k \in 1..i : k \in 1..n
      BY <1>1, <2>2
    <3>2. Narrower(chain[i], chain[1])
      BY <1>1, <1>2, <3>1 DEF Typed, Inv, NarrowingSoFar
    <3> QED
      BY <3>2 DEF Narrower, accountable_principal
  <2> QED
    BY <2>1, <2>2
<1>4. action.principal = chain[n].principal
  BY VouchedMeans DEF TakenUnder
<1> QED
  BY <1>1, <1>3, <1>4, VouchedLinks DEF AnswersToTheRoot

\* An outcome that was vouched for beside its receipt: what was checked of the two.
LEMMA OutcomeMeans ==
    ASSUME Typed, exit = VERIFIED, invocation.receipt # None
    PROVE  /\ unsigned(invocation.receipt) = {}
           /\ binding_problems(invocation.receipt.payload, invocation.envelope.payload) = {}
           /\ IsReceipt(invocation.receipt.payload)
           /\ action = invocation.receipt.payload
           /\ Len(mandates) = Len(invocation.mandates)
<1>1. ~ Stopped /\ pc = "done" /\ failures = {} /\ ~ Reading
  BY FileAssumption
  DEF Typed, Inv, TypeOK, Established, Reading, Stopped, VERIFIED, BAD_INPUT, ESCAPED
<1>2. /\ read_receipt_ok(invocation.receipt)
      /\ action = selected_action
      /\ Len(mandates) = Len(invocation.mandates)
      /\ unsigned(invocation.receipt) = {}
      /\ binding_problems(invocation.receipt.payload, invocation.envelope.payload) = {}
  BY <1>1 DEF Typed, Inv, Established
<1>3. IsFile(invocation.receipt)
  BY InvocationAssumption DEF Typed, IsInvocation
<1>4. IsReceipt(invocation.receipt.payload)
  BY <1>2, <1>3, ReadHoldsType DEF read_receipt_ok, read_ok
<1>5. action = invocation.receipt.payload
  BY <1>2 DEF read_receipt_ok, selected_action
<1> QED
  BY <1>2, <1>4, <1>5

LEMMA OutcomeStandsHolds == Typed => OutcomeStandsOnAnAction
<1> SUFFICES ASSUME Typed, exit = VERIFIED, invocation.receipt # None
             PROVE  OutcomeStandsOnAnAction
  BY DEF OutcomeStandsOnAnAction
<1> DEFINE receipt == invocation.receipt.payload
           outcome == invocation.envelope.payload
<1>1. IsReceipt(receipt) /\ action = receipt /\ binding_problems(receipt, outcome) = {}
      /\ unsigned(invocation.receipt) = {} /\ Len(mandates) = Len(invocation.mandates)
  BY OutcomeMeans
<1>2. outcome.receipt_hash = digest(receipt) /\ receipt.decision # "deny"
      /\ ~ (outcome.issued_at < receipt.issued_at)
  BY <1>1 DEF binding_problems, When
<1>3. receipt.issued_at =< outcome.issued_at
  <2>1. outcome.issued_at \in Int
    <3>1. ~ Stopped /\ pc = "done"
      BY FileAssumption DEF Typed, Inv, TypeOK, VERIFIED, BAD_INPUT, ESCAPED, Stopped
    <3>2. read_envelope_ok(invocation.envelope) /\ IsFile(invocation.envelope)
      BY <3>1, InvocationAssumption DEF Typed, IsInvocation, Inv, Established
    <3> QED
      BY <3>2, ReadHoldsType DEF IsDocument, IsMandate, IsReceipt, IsOutcome, Timestamp
  <2>2. receipt.issued_at \in Int
    BY <1>1 DEF IsReceipt, Timestamp
  <2> QED
    BY <1>2, <2>1, <2>2
<1>4. SignedBy(invocation.receipt, receipt.agent.key_id, public_keys)
  <2>1. required_signer(receipt) = receipt.agent.key_id /\ receipt.agent.key_id \in KeyIds
    BY <1>1 DEF required_signer, IsReceipt, Agent
  <2> QED
    BY <1>1, <2>1, AuthorSigned
<1>5. ASSUME NEW i \in DOMAIN invocation.mandates
      PROVE  Covers(invocation.mandates[i].payload, receipt.action, receipt.issued_at)
  <2>1. IsSequence(invocation.mandates)
    BY InvocationAssumption DEF Typed, IsInvocation
  <2>2. DOMAIN invocation.mandates = 1..Len(invocation.mandates)
        /\ Len(invocation.mandates) \in Nat
    BY <2>1, SequenceDomain
  <2>3. Vouched
    BY <1>5, <2>2 DEF Vouched
  <2>4. i \in DOMAIN chain /\ i \in DOMAIN mandates /\ chain[i] = mandates[i].payload
    BY <1>1, <1>5, <2>2, ChainOfMandates DEF Typed, Inv
  <2>5. mandates[i] = invocation.mandates[i]
    BY <2>4 DEF Typed, Inv, TypeOK
  <2>6. WithinEveryGrant
    BY WithinEveryGrantHolds
  <2> QED
    BY <1>1, <1>2, <2>3, <2>4, <2>5, <2>6 DEF WithinEveryGrant
<1> QED
  BY <1>2, <1>3, <1>4, <1>5 DEF OutcomeStandsOnAnAction

-----------------------------------------------------------------------------
(***************************************************************************)
(* The refinement: what the command concludes step by step is the one      *)
(* judgement Verification makes of the files.                              *)
(***************************************************************************)

\* Verification is written in the notions of Authority; its instance means the same by them.
LEMMA SameNotions ==
    /\ Promise!VERIFIED = VERIFIED /\ Promise!NOT_VERIFIED = NOT_VERIFIED
    /\ Promise!BAD_INPUT = BAD_INPUT /\ Promise!ESCAPED = ESCAPED
    /\ Promise!Escapes <=> Given(Escaping)
    /\ Promise!listed = listed_keys(invocation.keys)
    /\ \A payload : Promise!required_signer(payload) = required_signer(payload)
    /\ \A file : Promise!valid_envelope(file) <=> valid_envelope(file)
    /\ \A listed : Promise!directory_usable(listed) <=> directory_usable(listed)
    /\ \A document : Promise!digest(document) = digest(document)
    /\ \A envelope, k, listed : Promise!SignedBy(envelope, k, listed) <=> SignedBy(envelope, k, listed)
    /\ \A c : Promise!SoundChain(c) <=> SoundChain(c)
    /\ \A receipt, grant : Promise!TakenUnder(receipt, grant) <=> TakenUnder(receipt, grant)
    /\ \A grant, deed, at : Promise!Covers(grant, deed, at) <=> Covers(grant, deed, at)
<1>1. /\ Promise!VERIFIED = VERIFIED /\ Promise!NOT_VERIFIED = NOT_VERIFIED
      /\ Promise!BAD_INPUT = BAD_INPUT /\ Promise!ESCAPED = ESCAPED
      /\ Promise!Escapes <=> Given(Escaping)
  BY DEF Promise!VERIFIED, VERIFIED, Promise!NOT_VERIFIED, NOT_VERIFIED, Promise!BAD_INPUT,
         BAD_INPUT, Promise!ESCAPED, ESCAPED, Promise!Escapes, Given
<1>2. Promise!listed = listed_keys(invocation.keys)
  BY DEF Promise!listed, listed_keys
<1>3. \A payload : Promise!required_signer(payload) = required_signer(payload)
  BY DEF Promise!required_signer, required_signer
<1>4. \A file : Promise!valid_envelope(file) <=> valid_envelope(file)
  BY <1>3 DEF Promise!valid_envelope, valid_envelope, Promise!labels, labels
<1>5. \A listed : Promise!directory_usable(listed) <=> directory_usable(listed)
  BY DEF Promise!directory_usable, directory_usable
<1>6. \A document : Promise!digest(document) = digest(document)
  BY DEF Promise!digest, digest
<1>7. \A envelope, k, listed :
         Promise!SignedBy(envelope, k, listed) <=> SignedBy(envelope, k, listed)
  BY DEF Promise!SignedBy, SignedBy, Promise!public_key, public_key, Promise!ed25519, ed25519
<1>8. \A child, parent : Promise!PassedOn(child, parent) <=> PassedOn(child, parent)
  BY <1>6 DEF Promise!PassedOn, PassedOn, Promise!DelegationLink, DelegationLink,
              Promise!Narrower, Narrower, Promise!ValueWithin, ValueWithin
<1>9. \A c : Promise!SoundChain(c) <=> SoundChain(c)
  BY <1>8 DEF Promise!SoundChain, SoundChain
<1>10. \A receipt, grant : Promise!TakenUnder(receipt, grant) <=> TakenUnder(receipt, grant)
  BY <1>6 DEF Promise!TakenUnder, TakenUnder
<1>11. \A grant, deed, at : Promise!Covers(grant, deed, at) <=> Covers(grant, deed, at)
  BY DEF Promise!Covers, Covers, Promise!ValueWithin, ValueWithin
<1> QED
  BY <1>1, <1>2, <1>3, <1>4, <1>5, <1>6, <1>7, <1>9, <1>10, <1>11

\* Both sides judge the files of the invocation, which no step changes.
LEMMA JudgedOnTheFiles ==
    ASSUME UNCHANGED invocation
    PROVE  (Promise!Acceptable <=> Promise!Acceptable') /\ (Promise!Convincing <=> Promise!Convincing')
BY DEF Promise!Acceptable, Promise!Holds, Promise!Convincing, Promise!Authentic, Promise!listed,
       Promise!OutcomeStands, Promise!Authorised

\* The reads, and the choice of the action, accept what Verification accepts.
LEMMA AcceptableMeans ==
    ASSUME invocation \in Invocations
    PROVE  Promise!Acceptable <=>
              /\ public_keys_ok(invocation.keys)
              /\ read_envelope_ok(invocation.envelope)
              /\ invocation.receipt = None \/ read_receipt_ok(invocation.receipt)
              /\ \A i \in DOMAIN invocation.mandates : read_ok(invocation.mandates[i], "mandate")
              /\ invocation.mandates # << >> => selected_action # None
<1>1. (/\ invocation.keys \notin {Unreadable, Escaping}
       /\ invocation.keys # None => Promise!directory_usable(invocation.keys))
         <=> public_keys_ok(invocation.keys)
  <2>1. directory_usable(<< >>)
    BY DEF directory_usable
  <2>2. None \notin {Unreadable, Escaping}
    BY FileAssumption
  <2> QED
    BY <2>1, <2>2, SameNotions DEF public_keys_ok, listed_keys, Unusable
<1>2. \A file, type : Promise!Holds(file, type) <=> read_ok(file, type)
  BY SameNotions DEF Promise!Holds, read_ok, read_envelope_ok, Unusable
<1>3. IsFile(invocation.envelope) /\ (invocation.receipt = None \/ IsFile(invocation.receipt))
  BY InvocationAssumption DEF IsInvocation
<1>4. read_envelope_ok(invocation.envelope) =>
         /\ invocation.envelope.payload.type \in {"mandate", "action", "outcome"}
         /\ invocation.envelope.payload # None
  BY <1>3 DEF read_envelope_ok, IsFile, IsDocument, IsMandate, IsReceipt, IsOutcome
<1>5. invocation.receipt # None /\ read_receipt_ok(invocation.receipt) =>
         invocation.receipt.payload # None
  BY <1>3 DEF read_receipt_ok, read_ok, read_envelope_ok, IsFile
<1>6. ASSUME read_envelope_ok(invocation.envelope),
             invocation.receipt = None \/ read_receipt_ok(invocation.receipt)
      PROVE  selected_action # None <=>
                \/ invocation.envelope.payload.type = "action"
                \/ invocation.envelope.payload.type = "outcome" /\ invocation.receipt # None
  BY <1>4, <1>5, <1>6 DEF selected_action, read_receipt_ok
<1>7. (\E type \in {"mandate", "action", "outcome"} :
          /\ Promise!Holds(invocation.envelope, type)
          /\ invocation.receipt # None =>
                type = "outcome" /\ Promise!Holds(invocation.receipt, "action")
          /\ invocation.mandates # << >> =>
                type = "action" \/ (type = "outcome" /\ invocation.receipt # None))
      <=> /\ read_envelope_ok(invocation.envelope)
          /\ invocation.receipt = None \/ read_receipt_ok(invocation.receipt)
          /\ invocation.mandates # << >> =>
                \/ invocation.envelope.payload.type = "action"
                \/ invocation.envelope.payload.type = "outcome" /\ invocation.receipt # None
  BY <1>2, <1>4 DEF read_ok, read_receipt_ok
<1> QED
  BY <1>1, <1>2, <1>6, <1>7 DEF Promise!Acceptable

\* A readable file about which there is nothing to report is authentic, and the other way round.
LEMMA UnsignedMeans ==
    ASSUME Typed, public_keys = listed_keys(invocation.keys),
           NEW file, IsFile(file), read_envelope_ok(file)
    PROVE  unsigned(file) = {} <=> Promise!Authentic(file)
<1> DEFINE author == required_signer(file.payload)
           verified == verified_signers(file, public_keys)
<1>1. IsDocument(file.payload)
      /\ \A i \in DOMAIN file.signatures : file.signatures[i].key_id \in KeyIds
  BY DEF read_envelope_ok, IsFile
<1>2. \A k \in KeyIds : k \in verified <=> SignedBy(file, k, public_keys)
  BY KeysResolve, VerifiedIsSignedBy
<1>3. verified \subseteq KeyIds
  BY <1>1 DEF verified_signers, labels
<1>4. unsigned(file) = {} <=> verified # {} /\ (author = None \/ author \in verified)
  BY DEF unsigned, When, author_signed
<1>5. CASE file.payload.type = "outcome"
  <2>1. author = None
    BY <1>5 DEF required_signer
  <2>2. Promise!Authentic(file) <=> \E k \in KeyIds : SignedBy(file, k, public_keys)
    BY <1>5, SameNotions DEF Promise!Authentic
  <2> QED
    BY <1>2, <1>3, <1>4, <2>1, <2>2
<1>6. CASE file.payload.type # "outcome"
  <2>1. author \in KeyIds /\ author # None
    <3>1. CASE IsReceipt(file.payload)
      BY <3>1, DidAssumption DEF required_signer, IsReceipt, Agent
    <3>2. CASE IsMandate(file.payload)
      BY <3>2, DidAssumption DEF required_signer, IsMandate, Agent, Principal
    <3> QED
      BY <1>1, <1>6, <3>1, <3>2 DEF IsDocument, IsOutcome
  <2>2. Promise!Authentic(file) <=> SignedBy(file, author, public_keys)
    BY <1>6, SameNotions DEF Promise!Authentic
  <2> QED
    BY <1>2, <1>4, <2>1, <2>2
<1> QED
  BY <1>5, <1>6

\* Everything the command looks at once the files are read.
ChecksPass ==
    /\ unsigned(invocation.envelope) = {}
    /\ invocation.require \subseteq verified_signers(invocation.envelope, public_keys)
    /\ invocation.receipt # None =>
          /\ unsigned(invocation.receipt) = {}
          /\ binding_problems(invocation.receipt.payload, invocation.envelope.payload) = {}
    /\ mandates # << >> =>
          /\ \A i \in 1..Len(mandates) : unsigned(mandates[i]) = {}
          /\ root_problems(chain) = {}
          /\ \A i \in 2..Len(mandates) : delegation_problems(chain[i - 1], chain[i]) = {}
          /\ GrantHolds

\* The files are in memory, as they were given, and Verification accepts them.
InHand ==
    /\ Typed /\ Promise!Acceptable
    /\ public_keys = listed_keys(invocation.keys)
    /\ Len(mandates) = Len(invocation.mandates)
    /\ action = selected_action

\* The grants in memory are the whole of what was given.
LEMMA MandatesInHand ==
    ASSUME InHand
    PROVE  /\ DOMAIN mandates = DOMAIN invocation.mandates
           /\ mandates = << >> <=> invocation.mandates = << >>
           /\ \A i \in DOMAIN mandates : /\ mandates[i] = invocation.mandates[i]
                                         /\ IsFile(mandates[i]) /\ read_envelope_ok(mandates[i])
           /\ [i \in DOMAIN invocation.mandates |-> invocation.mandates[i].payload] = chain
<1>1. IsSequence(mandates) /\ IsSequence(invocation.mandates)
  BY InvocationAssumption DEF InHand, Typed, Inv, TypeOK, IsInvocation
<1>2. DOMAIN mandates = 1..Len(mandates)
      /\ DOMAIN invocation.mandates = 1..Len(invocation.mandates)
  BY <1>1, SequenceDomain
<1>3. DOMAIN mandates = DOMAIN invocation.mandates
  BY <1>2 DEF InHand
<1>4. mandates = << >> <=> invocation.mandates = << >>
  BY <1>1 DEF InHand, IsSequence
<1>5. \A i \in DOMAIN mandates : mandates[i] = invocation.mandates[i]
  BY DEF InHand, Typed, Inv, TypeOK
<1>6. \A i \in DOMAIN mandates : IsFile(mandates[i]) /\ read_envelope_ok(mandates[i])
  BY <1>3, <1>5, InvocationAssumption, AcceptableMeans DEF InHand, Typed, IsInvocation, read_ok
<1>7. [i \in DOMAIN invocation.mandates |-> invocation.mandates[i].payload] = chain
  BY <1>3, <1>5 DEF chain
<1> QED
  BY <1>3, <1>4, <1>5, <1>6, <1>7

\* The checks on the chain and on the last grant come up clean when the receipt is authorised.
LEMMA AuthorisedMeans ==
    ASSUME InHand, mandates # << >>
    PROVE  Promise!Authorised(action, chain)
              <=> /\ root_problems(chain) = {}
                  /\ \A i \in 2..Len(mandates) : delegation_problems(chain[i - 1], chain[i]) = {}
                  /\ GrantHolds
<1> DEFINE n == Len(mandates)
<1>1. /\ n \in Nat \ {0} /\ Len(chain) = n /\ DOMAIN chain = 1..n
      /\ \A i \in 1..n : IsMandate(chain[i])
  <2>1. IsSequence(mandates) /\ \A i \in DOMAIN mandates : IsMandate(chain[i])
    BY DEF InHand, Typed, Inv, TypeOK
  <2>2. n # 0
    BY <2>1 DEF IsSequence
  <2> QED
    BY <2>1, <2>2, ChainOfMandates DEF InHand, Typed, Inv
<1>2. IsReceipt(action)
  <2>1. selected_action # None
    BY AcceptableMeans, MandatesInHand DEF InHand, Typed
  <2> QED
    BY <2>1 DEF InHand, Typed, Inv, TypeOK
<1>3. (/\ root_problems(chain) = {}
       /\ \A i \in 2..n : delegation_problems(chain[i - 1], chain[i]) = {})
         <=> SoundChain(chain)
  BY <1>1, CleanChain
<1>4. GrantHolds <=> /\ TakenUnder(action, chain[n])
                     /\ \/ action.decision = "deny"
                        \/ Covers(chain[n], action.action, action.issued_at)
  BY <1>1, <1>2, CleanAction DEF GrantHolds
<1>5. Promise!Authorised(action, chain)
         <=> /\ SoundChain(chain)
             /\ TakenUnder(action, chain[n])
             /\ \/ action.decision = "deny"
                \/ Covers(chain[n], action.action, action.issued_at)
  BY <1>1, SameNotions DEF Promise!Authorised
<1> QED
  BY <1>3, <1>4, <1>5

\* The checks of the command are those of Verification.
LEMMA ConvincingMeans ==
    ASSUME InHand
    PROVE  Promise!Convincing <=> ChecksPass
<1> DEFINE envelope == invocation.envelope
           receipt == invocation.receipt
<1>1. /\ read_envelope_ok(envelope) /\ IsFile(envelope)
      /\ receipt # None => read_receipt_ok(receipt) /\ IsFile(receipt)
  BY AcceptableMeans, InvocationAssumption DEF InHand, Typed, IsInvocation
<1>2. Promise!Authentic(envelope) <=> unsigned(envelope) = {}
  BY <1>1, UnsignedMeans DEF InHand
<1>3. (\A k \in invocation.require : Promise!SignedBy(envelope, k, Promise!listed))
         <=> invocation.require \subseteq verified_signers(envelope, public_keys)
  <2>1. invocation.require \subseteq KeyIds
    BY InvocationAssumption DEF InHand, Typed, IsInvocation
  <2>2. \A k \in KeyIds :
           k \in verified_signers(envelope, public_keys) <=> SignedBy(envelope, k, public_keys)
    BY KeysResolve, VerifiedIsSignedBy DEF InHand
  <2> QED
    BY <2>1, <2>2, SameNotions DEF InHand
<1>4. ASSUME receipt # None
      PROVE  /\ Promise!Authentic(receipt) <=> unsigned(receipt) = {}
             /\ Promise!OutcomeStands(envelope.payload, receipt.payload)
                   <=> binding_problems(receipt.payload, envelope.payload) = {}
  <2>1. read_envelope_ok(receipt) /\ IsFile(receipt)
    BY <1>1, <1>4 DEF read_receipt_ok, read_ok
  <2>2. IsReceipt(receipt.payload) /\ IsOutcome(envelope.payload)
    BY <1>1, <1>4, ReadHoldsType DEF read_receipt_ok, read_ok
  <2>3. Promise!OutcomeStands(envelope.payload, receipt.payload)
           <=> binding_problems(receipt.payload, envelope.payload) = {}
    BY <2>2, CleanOutcome, SameNotions DEF Promise!OutcomeStands
  <2> QED
    BY <2>1, <2>3, UnsignedMeans DEF InHand
<1>5. ASSUME invocation.mandates # << >>
      PROVE  action = (IF receipt = None THEN envelope ELSE receipt).payload
  <2>1. selected_action # None
    BY <1>5, AcceptableMeans DEF InHand, Typed
  <2> QED
    BY <1>1, <2>1 DEF InHand, selected_action, read_receipt_ok
<1>6. (\A i \in DOMAIN invocation.mandates : Promise!Authentic(invocation.mandates[i]))
         <=> \A i \in 1..Len(mandates) : unsigned(mandates[i]) = {}
  <2>1. DOMAIN mandates = 1..Len(mandates)
    BY ChainOfMandates DEF InHand, Typed, Inv
  <2>2. \A i \in DOMAIN mandates :
           Promise!Authentic(invocation.mandates[i]) <=> unsigned(mandates[i]) = {}
    BY MandatesInHand, UnsignedMeans DEF InHand
  <2> QED
    BY <2>1, <2>2, MandatesInHand
<1>7. (invocation.mandates # << >> =>
          Promise!Authorised((IF receipt = None THEN envelope ELSE receipt).payload,
             [i \in DOMAIN invocation.mandates |-> invocation.mandates[i].payload]))
      <=> (mandates # << >> =>
              /\ root_problems(chain) = {}
              /\ \A i \in 2..Len(mandates) : delegation_problems(chain[i - 1], chain[i]) = {}
              /\ GrantHolds)
  BY <1>5, MandatesInHand, AuthorisedMeans
<1> QED
  BY <1>2, <1>3, <1>4, <1>6, <1>7, MandatesInHand DEF Promise!Convincing, ChecksPass

\* What ties a run that is under way to the judgement: past the reads the files are acceptable,
\* and any failure noted so far is one that the judgement knows.
Judging ==
    /\ pc # "read_keys" /\ ~ Stopped =>
          public_keys_ok(invocation.keys) /\ public_keys = listed_keys(invocation.keys)
    /\ \A i \in DOMAIN mandates : read_ok(invocation.mandates[i], "mandate")
    /\ ~ Reading /\ ~ Stopped => Promise!Acceptable
    /\ failures # {} \/ unauthorised # {} => ~ Promise!Convincing
    /\ pc \in {"report_binding", "report_authority", "report_grant", "result", "done"}
          /\ ~ Stopped /\ failures = {} =>
             invocation.require \subseteq verified_signers(invocation.envelope, public_keys)

\* While the checks are made everything is in memory.
LEMMA CheckingInHand ==
    ASSUME Typed, Judging, ~ Reading, pc # "done"
    PROVE  InHand /\ exit = None /\ ~ Stopped /\ (Promise!Convincing <=> ChecksPass)
<1>1. exit = None /\ ~ Stopped
  BY NotYetOver DEF Typed
<1>2. InHand
  BY <1>1 DEF Judging, InHand, Typed, Inv, Established, Reading
<1> QED
  BY <1>1, <1>2, ConvincingMeans

LEMMA InitJudging == Init => Judging
BY DEF Init, Judging, Reading

\* Giving up on a file is the judgement on files that are not acceptable.
LEMMA StoppingJudges ==
    ASSUME Typed, Judging, exit = None, Stopping, ~ Promise!Acceptable
    PROVE  Judging' /\ Promise!Judge
<1>1. Judging'
  BY JudgedOnTheFiles DEF Judging, Reading, Stopping, Stopped
<1>2. Promise!Judge
  BY SameNotions DEF Promise!Judge, Stopping
<1> QED
  BY <1>1, <1>2

LEMMA ReadJudges ==
    ASSUME Typed, Judging, ReadKeys \/ ReadEnvelope \/ ReadReceipt \/ ReadMandate \/ SelectAction
    PROVE  Judging' /\ (Promise!Judge \/ UNCHANGED <<invocation, exit>>)
<1>1. Inv /\ invocation \in Invocations /\ Reading /\ exit = None /\ ~ Stopped
  BY NotYetOver DEF Typed, Reading, ReadKeys, ReadEnvelope, ReadReceipt, ReadMandate, SelectAction
<1>2. CASE Raised
  <2>1. ~ Promise!Acceptable
    <3>1. CASE ReadKeys
      BY <1>1, <1>2, <3>1, AcceptableMeans DEF ReadKeys, Raised, Raise
    <3>2. CASE ReadEnvelope
      BY <1>1, <1>2, <3>2, AcceptableMeans DEF ReadEnvelope, Raised, Raise
    <3>3. CASE ReadReceipt
      BY <1>1, <1>2, <3>3, AcceptableMeans DEF ReadReceipt, Raised, Raise
    <3>4. CASE ReadMandate
      <4>1. IsSequence(invocation.mandates) /\ IsSequence(mandates)
        BY <1>1, InvocationAssumption DEF IsInvocation, Inv, TypeOK
      <4>2. Len(mandates) + 1 \in DOMAIN invocation.mandates
        BY <3>4, <4>1, SequenceDomain DEF ReadMandate
      <4>3. ~ read_ok(invocation.mandates[Len(mandates) + 1], "mandate")
        BY <1>2, <3>4 DEF ReadMandate, Raised, Raise
      <4> QED
        BY <1>1, <4>2, <4>3, AcceptableMeans
    <3>5. CASE SelectAction
      <4>1. mandates # << >> /\ selected_action = None
        BY <1>2, <3>5 DEF SelectAction, Raised, Raise
      <4>2. invocation.mandates # << >>
        <5>1. IsSequence(invocation.mandates) /\ IsSequence(mandates)
              /\ Len(mandates) = Len(invocation.mandates)
          BY <1>1, <3>5, InvocationAssumption DEF IsInvocation, Inv, TypeOK, SelectAction
        <5> QED
          BY <4>1, <5>1 DEF IsSequence
      <4> QED
        BY <1>1, <4>1, <4>2, AcceptableMeans
    <3> QED
      BY <3>1, <3>2, <3>3, <3>4, <3>5
  <2> QED
    BY <1>1, <1>2, <2>1, RaisedStops, StoppingJudges
<1>3. CASE ~ Raised
  <2>1. UNCHANGED <<invocation, exit, failures, unauthorised>>
    BY <1>3 DEF Raised, ReadKeys, ReadEnvelope, ReadReceipt, ReadMandate, SelectAction
  <2>2. (Promise!Acceptable <=> Promise!Acceptable')
        /\ (Promise!Convincing <=> Promise!Convincing')
    BY <2>1, JudgedOnTheFiles
  <2>3. /\ pc' # "read_keys"
        /\ public_keys_ok(invocation.keys) /\ public_keys' = listed_keys(invocation.keys)
    BY <1>1, <1>3
    DEF Raised, Stopped, Judging, ReadKeys, ReadEnvelope, ReadReceipt, ReadMandate, SelectAction
  <2>4. \A i \in DOMAIN mandates' : read_ok(invocation.mandates[i], "mandate")
    <3>1. CASE ReadMandate
      <4>1. IsSequence(mandates)
            /\ mandates' = Append(mandates, invocation.mandates[Len(mandates) + 1])
            /\ read_ok(invocation.mandates[Len(mandates) + 1], "mandate")
        BY <1>1, <1>3, <3>1 DEF Raised, Inv, TypeOK, ReadMandate
      <4>2. DOMAIN mandates = 1..Len(mandates) /\ DOMAIN mandates' = 1..(Len(mandates) + 1)
            /\ Len(mandates) \in Nat
        BY <4>1, SequenceGrows
      <4>3. \A i \in DOMAIN mandates' : i \in DOMAIN mandates \/ i = Len(mandates) + 1
        BY <4>2
      <4> QED
        BY <4>1, <4>3 DEF Judging
    <3>2. CASE ~ ReadMandate
      <4>1. mandates' = mandates
        BY <1>3, <3>2 DEF Raised, ReadKeys, ReadEnvelope, ReadReceipt, SelectAction
      <4> QED
        BY <4>1 DEF Judging
    <3> QED
      BY <3>1, <3>2
  <2>5. ASSUME ~ Reading' PROVE Promise!Acceptable
    <3>1. SelectAction /\ Len(mandates) = Len(invocation.mandates)
          /\ (mandates = << >> \/ selected_action # None)
      BY <1>1, <1>3, <2>5
      DEF Raised, Reading, ReadKeys, ReadEnvelope, ReadReceipt, ReadMandate, SelectAction
    <3>2. read_envelope_ok(invocation.envelope)
          /\ (invocation.receipt = None \/ read_receipt_ok(invocation.receipt))
      BY <1>1, <3>1 DEF SelectAction, Inv, Established
    <3>3. public_keys_ok(invocation.keys)
      BY <2>3
    <3>4. \A i \in DOMAIN invocation.mandates : read_ok(invocation.mandates[i], "mandate")
      <4>1. IsSequence(invocation.mandates) /\ IsSequence(mandates)
        BY <1>1, InvocationAssumption DEF IsInvocation, Inv, TypeOK
      <4>2. DOMAIN mandates = DOMAIN invocation.mandates
        BY <3>1, <4>1, SequenceDomain
      <4> QED
        BY <4>2 DEF Judging
    <3>5. invocation.mandates # << >> => selected_action # None
      <4>1. IsSequence(invocation.mandates) /\ IsSequence(mandates)
        BY <1>1, InvocationAssumption DEF IsInvocation, Inv, TypeOK
      <4> QED
        BY <3>1, <4>1 DEF IsSequence
    <3> QED
      BY <1>1, <3>2, <3>3, <3>4, <3>5, AcceptableMeans
  <2>6. pc' \notin {"report_binding", "report_authority", "report_grant", "result", "done"}
    BY <1>1, <1>3
    DEF Raised, Reading, ReadKeys, ReadEnvelope, ReadReceipt, ReadMandate, SelectAction
  <2>7. Judging'
    BY <2>1, <2>2, <2>3, <2>4, <2>5, <2>6 DEF Judging
  <2> QED
    BY <2>1, <2>7
<1> QED
  BY <1>2, <1>3

\* Whatever a check notes is one of the checks that do not pass.
LEMMA CheckJudges ==
    ASSUME Typed, Judging,
           \/ CheckDocument \/ ReportBinding \/ CheckGrant \/ CheckLink \/ ReportChain
           \/ ReportGrant
    PROVE  Judging' /\ UNCHANGED <<invocation, exit>>
<1>1. /\ InHand /\ ~ Stopped /\ (Promise!Convincing <=> ChecksPass)
      /\ pc \in {"check_document", "report_binding", "report_authority", "report_grant"}
  BY CheckingInHand
  DEF Reading, CheckDocument, ReportBinding, CheckGrant, CheckLink, ReportChain, ReportGrant
<1>2. /\ UNCHANGED <<invocation, exit, public_keys, mandates, action>>
      /\ pc' \in {"report_binding", "report_authority", "report_grant", "result"}
  BY <1>1
  DEF CheckDocument, ReportBinding, CheckGrant, CheckLink, ReportChain, ReportGrant
<1>3. (Promise!Acceptable <=> Promise!Acceptable')
      /\ (Promise!Convincing <=> Promise!Convincing')
  BY <1>2, JudgedOnTheFiles
<1>4. ChecksPass => failures = {} /\ unauthorised = {}
  BY <1>1 DEF Judging
<1>5. ChecksPass => failures' = {} /\ unauthorised' = {}
  <2> SUFFICES ASSUME ChecksPass PROVE failures' = {} /\ unauthorised' = {}
    OBVIOUS
  <2>1. CASE CheckDocument
    BY <1>4, <2>1 DEF CheckDocument, ChecksPass, When
  <2>2. CASE ReportBinding
    BY <1>4, <2>2 DEF ReportBinding, ChecksPass, When
  <2>3. CASE CheckGrant
    <3>1. granted + 1 \in 1..Len(mandates) /\ mandates # << >>
      <4>1. granted \in 0..Len(mandates) /\ Len(mandates) \in Nat /\ IsSequence(mandates)
        BY ChainOfMandates DEF Typed, Inv, TypeOK
      <4>2. granted < Len(mandates)
        BY <2>3 DEF CheckGrant
      <4>3. mandates # << >>
        BY <2>3 DEF CheckGrant, Typed, Inv, Established
      <4> QED
        BY <4>1, <4>2, <4>3
    <3> QED
      BY <1>4, <2>3, <3>1 DEF CheckGrant, ChecksPass
  <2>4. CASE CheckLink
    BY <1>4, <2>4 DEF CheckLink
  <2>5. CASE ReportChain
    <3>1. mandates # << >>
      BY <2>5 DEF ReportChain, Typed, Inv, Established
    <3>2. ASSUME NEW i \in DOMAIN positions PROVE positions[i] = {}
      <4>1. DOMAIN positions = 1..Len(mandates) /\ Len(mandates) \in Nat
        BY <2>5, SequenceDomain DEF ReportChain, Typed, Inv, TypeOK
      <4>2. positions[i] = IF i = 1 THEN root_problems(chain)
                           ELSE delegation_problems(chain[i - 1], chain[i])
        BY <3>2 DEF Typed, Inv, PositionsReported
      <4>3. i = 1 \/ i \in 2..Len(mandates)
        BY <3>2, <4>1
      <4> QED
        BY <3>1, <4>2, <4>3 DEF ChecksPass
    <3> QED
      BY <1>4, <2>5, <3>2 DEF ReportChain, When
  <2>6. CASE ReportGrant
    <3>1. mandates # << >>
      BY <2>6 DEF ReportGrant, Typed, Inv, Established
    <3> QED
      BY <1>4, <2>6, <3>1 DEF ReportGrant, ChecksPass, GrantHolds, When
  <2> QED
    BY <2>1, <2>2, <2>3, <2>4, <2>5, <2>6
<1>6. failures' = {} => invocation.require \subseteq verified_signers(invocation.envelope, public_keys)
  <2>1. CASE CheckDocument
    BY <2>1 DEF CheckDocument, When
  <2>2. CASE ~ CheckDocument
    <3>1. pc # "check_document" /\ failures \subseteq failures'
      BY <2>2
      DEF CheckDocument, ReportBinding, CheckGrant, CheckLink, ReportChain, ReportGrant
    <3> QED
      BY <1>1, <3>1 DEF Judging
  <2> QED
    BY <2>1, <2>2
<1>7. Judging'
  <2>1. /\ public_keys_ok(invocation.keys) /\ public_keys = listed_keys(invocation.keys)
        /\ \A i \in DOMAIN mandates : read_ok(invocation.mandates[i], "mandate")
        /\ Promise!Acceptable
    BY <1>1 DEF Judging, InHand
  <2>2. failures' # {} \/ unauthorised' # {} => ~ Promise!Convincing'
    BY <1>1, <1>3, <1>5
  <2> QED
    BY <1>2, <1>3, <1>6, <2>1, <2>2 DEF Judging
<1> QED
  BY <1>2, <1>7

\* The exit code is the judgement: no failure was noted exactly when all the checks pass.
LEMMA ResultJudges ==
    ASSUME Typed, Judging, Result
    PROVE  Judging' /\ Promise!Judge
<1>1. InHand /\ exit = None /\ ~ Stopped /\ (Promise!Convincing <=> ChecksPass)
  BY CheckingInHand DEF Reading, Result
<1>2. /\ pc = "result" /\ pc' = "done"
      /\ exit' = IF failures # {} THEN NOT_VERIFIED ELSE VERIFIED
      /\ UNCHANGED <<invocation, public_keys, mandates, failures, unauthorised>>
  BY DEF Result
<1>3. (Promise!Acceptable <=> Promise!Acceptable')
      /\ (Promise!Convincing <=> Promise!Convincing')
  BY <1>2, JudgedOnTheFiles
<1>4. failures = {} => ChecksPass
  <2> SUFFICES ASSUME failures = {} PROVE ChecksPass
    OBVIOUS
  <2>1. invocation.require \subseteq verified_signers(invocation.envelope, public_keys)
    BY <1>1, <1>2 DEF Judging
  <2>2. /\ unsigned(invocation.envelope) = {}
        /\ invocation.receipt # None =>
              /\ unsigned(invocation.receipt) = {}
              /\ binding_problems(invocation.receipt.payload, invocation.envelope.payload) = {}
        /\ mandates # << >> => ChainHolds /\ GrantHolds
    BY <1>1, <1>2 DEF Typed, Inv, Established
  <2>3. ASSUME mandates # << >>
        PROVE  /\ \A i \in 1..Len(mandates) : unsigned(mandates[i]) = {}
               /\ root_problems(chain) = {}
               /\ \A i \in 2..Len(mandates) : delegation_problems(chain[i - 1], chain[i]) = {}
    <3>1. ChainHolds
      BY <2>2, <2>3
    <3>2. DOMAIN positions = 1..Len(mandates) /\ Len(mandates) \in Nat /\ Len(mandates) # 0
      <4>1. IsSequence(mandates) /\ IsSequence(positions)
        BY DEF Typed, Inv, TypeOK
      <4> QED
        BY <2>3, <3>1, <4>1, SequenceDomain DEF ChainHolds, IsSequence
    <3>3. \A i \in 1..Len(mandates) :
             (IF i = 1 THEN root_problems(chain)
              ELSE delegation_problems(chain[i - 1], chain[i])) = {}
      BY <3>1, <3>2 DEF ChainHolds, Typed, Inv, PositionsReported
    <3>4. \A i \in 1..Len(mandates) : unsigned(mandates[i]) = {}
      BY <3>1 DEF ChainHolds, Typed, Inv, SignedSoFar
    <3>5. 1 \in 1..Len(mandates) /\ \A i \in 2..Len(mandates) : i \in 1..Len(mandates) /\ i # 1
      BY <3>2
    <3> QED
      BY <3>3, <3>4, <3>5
  <2> QED
    BY <2>1, <2>2, <2>3 DEF ChecksPass
<1>5. failures = {} <=> Promise!Convincing
  BY <1>1, <1>4 DEF Judging
<1>6. Promise!Acceptable
  BY <1>1 DEF InHand
<1>7. Promise!Judge
  BY <1>1, <1>2, <1>5, <1>6, SameNotions DEF Promise!Judge
<1>8. Judging'
  <2>1. {NOT_VERIFIED, VERIFIED} \cap {BAD_INPUT, ESCAPED} = {}
    BY DEF NOT_VERIFIED, VERIFIED, BAD_INPUT, ESCAPED
  <2> QED
    BY <1>1, <1>2, <1>3, <2>1 DEF Judging, InHand, Stopped
<1> QED
  BY <1>7, <1>8

LEMMA StepJudges ==
    ASSUME Typed, Judging, [Next]_vars
    PROVE  Judging' /\ [Promise!Judge]_Promise!vars
<1>1. CASE UNCHANGED vars
  <2>1. UNCHANGED invocation
    BY <1>1 DEF vars
  <2>2. (Promise!Acceptable <=> Promise!Acceptable')
        /\ (Promise!Convincing <=> Promise!Convincing')
    BY <2>1, JudgedOnTheFiles
  <2>3. Judging'
    BY <1>1, <2>2 DEF Stopped, vars, Judging, Reading
  <2> QED
    BY <1>1, <2>3 DEF vars, Promise!vars
<1>2. CASE Next
  BY <1>2, ReadJudges, CheckJudges, ResultJudges DEF Next, Promise!vars
<1> QED
  BY <1>1, <1>2

-----------------------------------------------------------------------------
(***************************************************************************)
(* The report.  A command that prints takes the steps of the command, so   *)
(* Typed and Judging hold of it too; what it adds to the screen before its *)
(* last step are lines, none of them a verdict, and when there is an       *)
(* action to judge none of them under "scope" before the answer.           *)
(***************************************************************************)

\* The author a document names, if it must name one, is named by a key id.
LEMMA SignerIsKnown ==
    ASSUME NEW payload, IsDocument(payload), required_signer(payload) # None
    PROVE  required_signer(payload) \in KeyIds
<1>1. CASE IsReceipt(payload)
  BY <1>1 DEF required_signer, IsReceipt, Agent
<1>2. CASE IsMandate(payload)
  BY <1>2 DEF required_signer, IsMandate, Agent, Principal
<1>3. CASE IsOutcome(payload)
  BY <1>3 DEF required_signer, IsOutcome
<1> QED
  BY <1>1, <1>2, <1>3 DEF IsDocument

\* The files a report speaks of are envelopes that were read.
LEMMA FilesInHand ==
    ASSUME InHand
    PROVE  /\ IsFile(invocation.envelope) /\ invocation.envelope \notin Unusable
           /\ IsDocument(invocation.envelope.payload)
           /\ invocation.receipt # None =>
                 /\ IsFile(invocation.receipt) /\ invocation.receipt \notin Unusable
                 /\ IsDocument(invocation.receipt.payload)
           /\ \A i \in DOMAIN mandates :
                 /\ IsFile(mandates[i]) /\ mandates[i] \notin Unusable
                 /\ IsDocument(mandates[i].payload)
           /\ action # None => invocation.envelope.payload.type # "mandate"
           /\ invocation.require \subseteq KeyIds /\ IsFiniteSet(invocation.require)
           /\ invocation.envelope.payload.type = "mandate" =>
                 IsFiniteSet(invocation.envelope.payload.scope)
<1>1. IsInvocation(invocation) /\ invocation \in Invocations
  BY InvocationAssumption DEF InHand, Typed
<1>2. /\ read_envelope_ok(invocation.envelope)
      /\ invocation.receipt # None => read_receipt_ok(invocation.receipt)
  BY AcceptableMeans DEF InHand, Typed
<1>3. IsFile(invocation.envelope) /\ (invocation.receipt # None => IsFile(invocation.receipt))
      /\ invocation.require \subseteq KeyIds
  BY <1>1 DEF IsInvocation
<1>4. action # None => invocation.envelope.payload.type # "mandate"
  BY <1>2 DEF InHand, selected_action, read_receipt_ok
<1>5. \A i \in DOMAIN mandates : IsFile(mandates[i]) /\ read_envelope_ok(mandates[i])
  BY MandatesInHand
<1>6. invocation.envelope \notin Unusable
  BY <1>2 DEF read_envelope_ok
<1>7. invocation.receipt # None => invocation.receipt \notin Unusable
  BY <1>2 DEF read_envelope_ok, read_receipt_ok, read_ok
<1>8. \A i \in DOMAIN mandates : mandates[i] \notin Unusable
  BY <1>5 DEF read_envelope_ok
<1>9. IsFiniteSet(invocation.require)
      /\ (invocation.envelope.payload.type = "mandate" =>
             IsFiniteSet(invocation.envelope.payload.scope))
  BY <1>1, <1>6, ReportAssumption
<1> QED
  BY <1>3, <1>4, <1>5, <1>6, <1>7, <1>8, <1>9 DEF IsFile

\* What is never at the start of a line before the answer, for want of a mandate's own scope.
Banned == IF action = None THEN {"result"} ELSE {"result", "scope"}

LEMMA DocumentLinesAreLines ==
    ASSUME InHand
    PROVE  Lines(describe(invocation.envelope.payload)
                 \o line("signed by",
                         signers(verified_signers(invocation.envelope, public_keys))), Banned)
<1> DEFINE document == invocation.envelope.payload
           by == signers(verified_signers(invocation.envelope, public_keys))
<1>1. Lines(describe(document), Banned)
  BY FilesInHand, DescribeIsLines DEF Banned
<1>2. IsSequence(by)
  BY FilesInHand, SignersAreFinite, SignersAreText
<1> HIDE DEF document, by
<1>3. "signed by" \notin Banned /\ "signed by" \notin {"LF", "ESC", "LRM", "LS", "PS"}
  BY Zenon DEF Banned
<1>4. \A label : label \notin Banned /\ label \notin {"LF", "ESC", "LRM", "LS", "PS"} =>
         Lines(describe(document) \o line(label, by), Banned)
  BY <1>1, <1>2, OneLine, LinesJoined
<1>5. Lines(describe(document) \o line("signed by", by), Banned)
  BY <1>3, <1>4, Zenon
<1> QED
  BY <1>5 DEF document, by

LEMMA BindingLinesAreLines ==
    ASSUME InHand
    PROVE  Lines(binding_lines, Banned)
<1>1. CASE invocation.receipt = None
  BY <1>1, NoLines DEF binding_lines
<1>2. CASE invocation.receipt # None
  <2> DEFINE receipt == invocation.receipt.payload
             key_ids == verified_signers(invocation.receipt, public_keys)
             problems == binding_problems(receipt, invocation.envelope.payload)
             by == IF key_ids = {} THEN <<"-">> ELSE joined(key_ids)
             OK == line("binding", <<"OK">>)
             BROKEN == line("binding", <<"BROKEN">>) \o bullets(problems)
  <2>1. IsFiniteSet(key_ids) /\ key_ids \subseteq KeyIds
    BY <1>2, FilesInHand, SignersAreFinite
  <2>2. IsSequence(by)
    BY <2>1, ShortTexts, JoinedIsText DEF Spelled
  <2>3. "binding" \notin Banned /\ "" \notin Banned /\ "receipt" \notin Banned
    BY DEF Banned
  <2>4. Lines(OK, Banned)
    BY <2>3, ShortTexts, OneLine
  <2>5. Lines(BROKEN, Banned)
    <3>1. Lines(line("binding", <<"BROKEN">>), Banned)
      BY <2>3, ShortTexts, OneLine
    <3>2. Lines(bullets(problems), Banned)
      BY <2>3, ReportsAreFinite, BulletsAreLines
    <3> QED
      BY <3>1, <3>2, LinesJoined
  <2>6. binding_lines = line("receipt", <<receipt.id, "signed by">> \o by)
                        \o (IF problems = {} THEN OK ELSE BROKEN)
    BY <1>2, Zenon DEF binding_lines
  <2> HIDE DEF by, OK, BROKEN, problems
  <2>7. \A a, b : Lines(line("receipt", <<a, b>> \o by), Banned)
    BY <2>2, <2>3, ShortTexts, Joined, OneLine
  <2>8. \A a, b : Lines(line("receipt", <<a, b>> \o by) \o (IF problems = {} THEN OK ELSE BROKEN),
                        Banned)
    BY <2>4, <2>5, <2>7, LinesJoined
  <2> QED
    BY <2>6, <2>8, Zenon
<1> QED
  BY <1>1, <1>2

LEMMA GrantLineIsLines ==
    ASSUME InHand, NEW i \in DOMAIN mandates
    PROVE  Lines(grant_line(mandates[i]), Banned)
<1> DEFINE by == signers(verified_signers(mandates[i], public_keys))
<1>1. IsSequence(by)
  BY FilesInHand, SignersAreFinite, SignersAreText
<1>2. grant_line(mandates[i]) = line("mandate", <<mandates[i].payload.id, "granted by">> \o by)
  BY Zenon DEF grant_line
<1> HIDE DEF by
<1>3. \A a, b : Lines(line("mandate", <<a, b>> \o by), Banned)
  <2>1. "mandate" \notin Banned
    BY DEF Banned
  <2> QED
    BY <1>1, <2>1, ShortTexts, Joined, OneLine
<1> QED
  BY <1>2, <1>3, Zenon

LEMMA ChainLinesAreLines ==
    ASSUME InHand, mandates # << >>, Len(positions) = Len(mandates)
    PROVE  Lines(chain_lines, Banned)
<1> DEFINE parts == [i \in DOMAIN positions |-> bullets(positions[i])]
           BROKEN == line("chain", <<"BROKEN">>)
           who == principal(accountable_principal(chain))
<1>1. IsSequence(positions) /\ DOMAIN positions = 1..Len(mandates) /\ Len(mandates) \in Nat \ {0}
  <2>1. IsSequence(positions) /\ IsSequence(mandates)
    BY DEF InHand, Typed, Inv, TypeOK
  <2> QED
    BY <2>1, SequenceDomain DEF IsSequence
<1>2. "" \notin Banned /\ "chain" \notin Banned
  BY DEF Banned
<1>3. \A i \in DOMAIN positions : IsFiniteSet(positions[i])
  BY ReportsAreFinite DEF InHand, Typed, Inv, PositionsReported
<1>4. Lines(BROKEN \o FlattenSeq(parts), Banned)
  <2>1. IsSequence(parts)
    BY <1>1, Mapped
  <2>2. \A i \in DOMAIN parts : Lines(parts[i], Banned)
    BY <1>2, <1>3, BulletsAreLines
  <2>3. Lines(BROKEN, Banned)
    BY <1>2, ShortTexts, OneLine
  <2> HIDE DEF parts, BROKEN
  <2> QED
    BY <2>1, <2>2, <2>3, FlattenedLines, LinesJoined
<1>5. IsSequence(who)
  <2>1. 1 \in DOMAIN mandates
    BY <1>1, ChainOfMandates DEF InHand, Typed, Inv
  <2>2. chain[1].principal \in Principal
    BY <2>1 DEF InHand, Typed, Inv, TypeOK, IsMandate
  <2> QED
    BY <2>2, PartiesAreText DEF accountable_principal
<1>6. chain_lines = IF \A i \in DOMAIN positions : positions[i] = {}
                    THEN line("chain", <<"OK, answering to">> \o who)
                    ELSE BROKEN \o FlattenSeq(parts)
  BY Zenon DEF chain_lines
<1> HIDE DEF parts, BROKEN, who
<1>7. \A a : Lines(line("chain", <<a>> \o who), Banned)
  BY <1>2, <1>5, ShortTexts, Joined, OneLine
<1> QED
  BY <1>4, <1>6, <1>7, Zenon

\* What a required key adds to the list of failures is text.
LEMMA AccusationsAreText ==
    ASSUME InHand
    PROVE  IsSequence(accusations)
<1> DEFINE envelope == invocation.envelope
           missing == invocation.require \ verified_signers(envelope, public_keys)
           parts == [i \in DOMAIN mandates |-> accusation(mandates[i])]
           beside == IF invocation.receipt = None THEN << >> ELSE accusation(invocation.receipt)
<1>1. ASSUME NEW file, IsDocument(file.payload)
      PROVE  IsSequence(accusation(file))
  <2>1. CASE author_signed(file, public_keys)
    BY <2>1, ShortTexts DEF accusation
  <2>2. CASE ~ author_signed(file, public_keys)
    <3>1. required_signer(file.payload) \in KeyIds
      BY <1>1, <2>2, SignerIsKnown DEF author_signed
    <3> QED
      BY <2>2, <3>1, SpellingAssumption DEF accusation
  <2> QED
    BY <2>1, <2>2
<1>2. IsSequence(accusation(envelope)) /\ IsSequence(beside)
  BY <1>1, FilesInHand, ShortTexts
<1>3. IsSequence(joined(missing))
  <2>1. IsFiniteSet(missing) /\ missing \subseteq Spelled
    BY FilesInHand, FS_Subset DEF Spelled
  <2> QED
    BY <2>1, JoinedIsText
<1>4. IsSequence(FlattenSeq(parts))
  <2>1. IsSequence(mandates)
    BY DEF InHand, Typed, Inv, TypeOK
  <2>2. IsSequence(parts)
    BY <2>1, Mapped
  <2>3. \A i \in DOMAIN parts : IsSequence(parts[i])
    BY <1>1, FilesInHand
  <2> HIDE DEF parts
  <2> QED
    BY <2>2, <2>3, FlattenedText
<1>5. accusations = accusation(envelope) \o joined(missing) \o beside \o FlattenSeq(parts)
  BY DEF accusations
<1> HIDE DEF envelope, missing, beside, parts
<1> QED
  BY <1>2, <1>3, <1>4, <1>5, Joined

\* The verdict: nothing before it is one, and it says what the exit code says.
LEMMA ResultShows ==
    ASSUME InHand, Lines(screen, {"result"}), Result, Shows(result_line)
    PROVE  /\ Plain(screen') /\ Concluded(screen', exit')
           /\ exit' \in {VERIFIED, NOT_VERIFIED}
           /\ \E value : IsSequence(value) /\ screen' = screen \o line("result", value)
<1> DEFINE value == IF failures = {} THEN <<"VERIFIED">> ELSE <<"NOT VERIFIED">> \o accusations
<1>1. exit' = IF failures = {} THEN VERIFIED ELSE NOT_VERIFIED
  BY DEF Result
<1>2. exit' \in {VERIFIED, NOT_VERIFIED}
  BY <1>1
<1>3. IsSequence(value) /\ value # << >> /\ value[1] = VerdictOf(exit')
  BY <1>1, AccusationsAreText, VerdictIsFirst, Zenon
<1>4. screen' = screen \o line("result", value)
  BY DEF Shows, result_line
<1> HIDE DEF value
<1> QED
  BY <1>2, <1>3, <1>4, VerdictConcludes

-----------------------------------------------------------------------------
(***************************************************************************)
(* The line under "scope".                                                 *)
(***************************************************************************)

NotChecked == "not checked (no mandate supplied)"

\* What the words of an answer are and are not.
LEMMA AnswerWords ==
    /\ NotChecked # "OK"
    /\ \A exceeded \in {"EXCEEDED", "EXCEEDED, and refused"} :
          exceeded # "OK" /\ exceeded # NotChecked
    /\ \A word \in {NotChecked, "OK", "EXCEEDED", "EXCEEDED, and refused"} :
          word \notin {"LF", "ESC", "LRM", "LS", "PS"}
BY Zenon DEF NotChecked

\* What "OK" promises: every grant of a sound chain was signed for and covers the action.
Supported ==
    /\ Sound(chain)
    /\ \A i \in DOMAIN mandates :
          SignedBy(mandates[i], required_signer(chain[i]), public_keys)
          /\ Covers(chain[i], action.action, action.issued_at)

\* The last grant of a chain that holds up speaks for all of them.
LEMMA CleanScopeSupports ==
    ASSUME InHand, mandates # << >>, ChainHolds,
           mandate_problems(chain[Len(chain)], action) = {},
           scope_violations(chain[Len(chain)], action) = {}
    PROVE  Supported
<1> DEFINE n == Len(mandates)
<1>1. /\ n \in Nat \ {0} /\ Len(chain) = n /\ DOMAIN chain = 1..n /\ DOMAIN mandates = 1..n
      /\ \A i \in 1..n : chain[i] = mandates[i].payload /\ IsMandate(chain[i])
  <2>1. IsSequence(mandates) /\ \A i \in DOMAIN mandates : IsMandate(chain[i])
    BY DEF InHand, Typed, Inv, TypeOK
  <2>2. n # 0
    BY <2>1 DEF IsSequence
  <2> QED
    BY <2>1, <2>2, ChainOfMandates DEF InHand, Typed, Inv
<1>2. DOMAIN positions = 1..n /\ \A i \in 1..n : positions[i] = {}
  BY SequenceDomain DEF ChainHolds, InHand, Typed, Inv, TypeOK
<1>3. Sound(chain)
  <2>1. \A i \in 1..n : (IF i = 1 THEN root_problems(chain)
                         ELSE delegation_problems(chain[i - 1], chain[i])) = {}
    BY <1>2 DEF InHand, Typed, Inv, PositionsReported
  <2>2. \A i \in DOMAIN chain : chain_problems(chain)[i] = {}
    BY <1>1, <2>1 DEF chain_problems
  <2>3. chain # << >>
    BY <1>1
  <2> QED
    BY <2>2, <2>3 DEF Sound
<1>4. IsReceipt(action) /\ action.action \in Action /\ action.issued_at \in Int
  <2>1. selected_action # None
    BY AcceptableMeans, MandatesInHand DEF InHand, Typed
  <2> QED
    BY <2>1 DEF InHand, Typed, Inv, TypeOK, IsReceipt, Timestamp
<1>5. n \in 1..n
  BY <1>1
<1>6. Covers(chain[n], action.action, action.issued_at)
  <2>1. chain[n].issued_at =< action.issued_at
    BY <1>1, <1>4, <1>5, CleanGrant DEF TakenUnder
  <2> QED
    BY <1>1, <1>4, <1>5, <2>1, CleanScope
<1>7. ASSUME NEW i \in 1..n
      PROVE  Covers(chain[i], action.action, action.issued_at)
  <2>1. CASE i = n
    BY <1>6, <2>1
  <2>2. CASE i # n
    <3>1. i \in 1..(n - 1)
      <4>1. n \in Nat /\ i \in 1..n /\ i # n
        BY <1>1, <2>2
      <4> QED
        BY <4>1
    <3>2. Narrower(chain[n], chain[i])
      BY <1>2, <1>5, <3>1 DEF InHand, Typed, Inv, NarrowingSoFar
    <3> QED
      BY <1>1, <1>4, <1>5, <1>6, <3>2, NarrowerCovers
  <2> QED
    BY <2>1, <2>2
<1>8. ASSUME NEW i \in 1..n
      PROVE  SignedBy(mandates[i], required_signer(chain[i]), public_keys)
  <2>1. unsigned(mandates[i]) = {}
    BY DEF ChainHolds, InHand, Typed, Inv, SignedSoFar
  <2>2. required_signer(chain[i]) # None
    BY <1>1, DidAssumption DEF required_signer, IsMandate, Agent, Principal
  <2>3. required_signer(chain[i]) \in KeyIds
    BY <1>1, <2>2, SignerIsKnown DEF IsDocument
  <2> QED
    BY <1>1, <2>1, <2>3, AuthorSigned DEF InHand
<1> QED
  BY <1>1, <1>3, <1>7, <1>8 DEF Supported

\* A screen with one answer under "scope", and no verdict yet.
Says(s, answer) ==
    /\ Lines(s, {"result"})
    /\ \E i : Under(s, "scope") = {i} /\ s[i + 1] = answer

Word(answer) == answer \notin {"LF", "ESC", "LRM", "LS", "PS"}

\* Such a screen is lines, then the answer, then lines that explain it.
LEMMA OneAnswer ==
    ASSUME NEW text, Lines(text, {"scope"}), Lines(text, {"result"}),
           NEW rest, Lines(rest, {"scope"}), Lines(rest, {"result"}),
           NEW word, Word(word)
    PROVE  Says(text \o (line("scope", <<word>>) \o rest), word)
<1> DEFINE l == line("scope", <<word>>)
           n == Len(text)
           s == text \o (l \o rest)
<1>1. IsSequence(<<word>>) /\ <<word>> # << >> /\ <<word>>[1] = word
  BY ShortTexts
<1>2. Lines(l, {"result"}) /\ Lines(l, {})
  BY <1>1, OneLine DEF Word
<1>3. /\ Under(text \o l, "scope") = {n + 1}
      /\ (text \o l)[n + 2] = word
      /\ n \in Nat
  BY <1>1, LastLine DEF Word
<1> HIDE DEF n
<1>4. s = (text \o l) \o rest
  BY <1>2, Associates DEF Lines
<1> HIDE DEF l, s
<1>5. Lines(text \o l, {"result"})
  BY <1>2, LinesJoined
<1>6. Lines(text \o l, {})
  BY <1>5 DEF Lines
<1>7. Lines(s, {"result"})
  BY <1>4, <1>5, LinesJoined
<1>8. /\ Under(s, "scope") = {n + 1}
      /\ s[n + 1 + 1] = (text \o l)[n + 1 + 1]
  <2>1. /\ Under((text \o l) \o rest, "scope") = Under(text \o l, "scope")
        /\ \A i \in Under(text \o l, "scope") : ((text \o l) \o rest)[i + 1] = (text \o l)[i + 1]
    BY <1>6, AfterLines
  <2>2. n + 1 \in Under(text \o l, "scope")
    BY <1>3
  <2> QED
    BY <1>3, <1>4, <2>1, <2>2
<1>9. n + 1 + 1 = n + 2
  BY <1>3
<1>10. Lines(s, {"result"}) /\ \E i : Under(s, "scope") = {i} /\ s[i + 1] = word
  BY <1>3, <1>7, <1>8, <1>9
<1> QED
  BY <1>10 DEF s, l, Says

\* Lines with fewer labels kept out of them.
LEMMA FewerBanned ==
    ASSUME NEW text, NEW banned, Lines(text, banned), NEW fewer, fewer \subseteq banned
    PROVE  Lines(text, fewer)
BY DEF Lines

\* _report_scope says "OK" of a supported action only, and answers when nothing failed.
LEMMA ScopeLinesAnswer ==
    ASSUME InHand, action # None, mandates # << >>, ReportGrant, Shows(scope_lines),
           unauthorised = {} => ChainHolds, Lines(screen, Banned)
    PROVE  /\ Lines(screen', {"result"})
           /\ "OK" \in {screen'[i + 1] : i \in Under(screen', "scope")} => Supported
           /\ failures' = {} =>
                 \E i : Under(screen', "scope") = {i} /\ screen'[i + 1] # NotChecked
<1> DEFINE problems == mandate_problems(chain[Len(chain)], action)
           violations == scope_violations(chain[Len(chain)], action)
           word == IF allowed_beyond_mandate(chain[Len(chain)], action)
                   THEN "EXCEEDED" ELSE "EXCEEDED, and refused"
           said == {screen'[i + 1] : i \in Under(screen', "scope")}
<1>1. /\ Lines(screen, {"scope"}) /\ Lines(screen, {"result"})
      /\ Lines(screen, {"result", "scope"})
  BY FewerBanned DEF Banned
<1>2. screen' = screen \o scope_lines
  BY DEF Shows
<1>3. scope_lines =
         IF unauthorised # {} THEN << >>
         ELSE IF problems # {} THEN line("grant", <<"NOT THIS RECEIPT'S">>) \o bullets(problems)
         ELSE IF violations = {} THEN line("scope", <<"OK">>)
         ELSE line("scope", <<word>>) \o bullets(violations)
  BY Zenon DEF scope_lines
<1>4. failures' = {} => unauthorised = {} /\ problems = {}
  BY DEF ReportGrant
<1>5. \A banned : "" \notin banned =>
         Lines(bullets(problems), banned) /\ Lines(bullets(violations), banned)
  BY ReportsAreFinite, BulletsAreLines
<1>6. word \in {"EXCEEDED", "EXCEEDED, and refused"}
  BY Zenon
<1> HIDE DEF problems, violations, word
<1>7. ASSUME NEW text, Lines(text, {"result", "scope"}), scope_lines = text, failures' # {}
      PROVE  /\ Lines(screen', {"result"}) /\ "OK" \notin said
             /\ failures' # {}
  <2>1. Lines(screen', {"result", "scope"})
    BY <1>1, <1>2, <1>7, LinesJoined
  <2>2. Under(screen', "scope") = {}
    BY <2>1, LinesArePlain
  <2>3. Lines(screen', {"result"})
    BY <2>1, FewerBanned
  <2> QED
    BY <1>7, <2>2, <2>3
<1>8. CASE unauthorised # {}
  BY <1>3, <1>4, <1>7, <1>8, NoLines
<1>9. CASE unauthorised = {} /\ problems # {}
  <2>1. \A a : Lines(line("grant", <<a>>) \o bullets(problems), {"result", "scope"})
    <3>1. "" \notin {"result", "scope"} /\ "grant" \notin {"result", "scope"}
      OBVIOUS
    <3>2. Lines(bullets(problems), {"result", "scope"})
      BY <1>5, <3>1
    <3>3. \A a : Lines(line("grant", <<a>>), {"result", "scope"})
      BY <3>1, ShortTexts, OneLine
    <3> QED
      BY <3>2, <3>3, LinesJoined
  <2>2. Lines(scope_lines, {"result", "scope"})
    BY <1>3, <1>9, <2>1, Zenon
  <2> QED
    BY <1>4, <1>7, <1>9, <2>2
<1>10. ASSUME NEW answer, NEW rest, Lines(rest, {"result", "scope"}),
              answer \notin {"LF", "ESC", "LRM", "LS", "PS"}, answer # NotChecked,
              scope_lines = line("scope", <<answer>>) \o rest
       PROVE  /\ Lines(screen', {"result"})
              /\ said = {answer}
              /\ \E i : Under(screen', "scope") = {i} /\ screen'[i + 1] # NotChecked
  <2>1. Lines(rest, {"result"}) /\ Lines(rest, {"scope"})
    BY <1>10, FewerBanned
  <2>2. Lines(screen, {"scope"}) /\ Lines(screen, {"result"}) /\ Word(answer)
    BY <1>1, <1>10 DEF Word
  <2>3. Says(screen \o (line("scope", <<answer>>) \o rest), answer)
    BY <2>1, <2>2, OneAnswer
  <2>4. Says(screen', answer)
    BY <1>2, <1>10, <2>3, Zenon
  <2> QED
    BY <1>10, <2>4 DEF Says
<1>11. CASE unauthorised = {} /\ problems = {} /\ violations = {}
  <2>1. Supported
    BY <1>11, CleanScopeSupports DEF problems, violations
  <2>2. scope_lines = line("scope", <<"OK">>) \o << >>
    <3>1. IsSequence(line("scope", <<"OK">>))
      BY ShortTexts, OneLine
    <3> QED
      BY <1>3, <1>11, <3>1, ConcatEmptySeq DEF IsSequence
  <2>3. /\ Lines(<< >>, {"result", "scope"})
        /\ "OK" \notin {"LF", "ESC", "LRM", "LS", "PS"} /\ "OK" # NotChecked
    BY NoLines, AnswerWords
  <2> QED
    BY <1>10, <2>1, <2>2, <2>3
<1>12. CASE unauthorised = {} /\ problems = {} /\ violations # {}
  <2>1. scope_lines = line("scope", <<word>>) \o bullets(violations)
    BY <1>3, <1>12
  <2>2. /\ word # "OK" /\ word # NotChecked
        /\ word \notin {"LF", "ESC", "LRM", "LS", "PS"}
    BY <1>6, AnswerWords, Zenon
  <2>3. Lines(bullets(violations), {"result", "scope"})
    BY <1>5
  <2>4. /\ Lines(screen', {"result"})
        /\ said = {word}
        /\ \E i : Under(screen', "scope") = {i} /\ screen'[i + 1] # NotChecked
    BY <1>10, <2>1, <2>2, <2>3
  <2> QED
    BY <2>2, <2>4, Zenon
<1> QED
  BY <1>8, <1>9, <1>11, <1>12

\* The invariant of the printing command: lines only, no answer before its time, and from
\* the time it is given the answer is backed by the checks.
Shown ==
    /\ Reading => screen = << >>
    /\ Lines(screen, {})
    /\ pc \notin {"result", "done"} => Lines(screen, Banned)
    /\ exit \notin {VERIFIED, NOT_VERIFIED} => Lines(screen, {"result"})
    /\ exit \in {VERIFIED, NOT_VERIFIED} => Plain(screen) /\ Concluded(screen, exit)

Answered ==
    action # None /\ pc \in {"result", "done"} =>
        /\ "OK" \in Answers => Supported
        /\ failures = {} => \E i : /\ Under(screen, "scope") = {i}
                                   /\ mandates = << >> <=> screen[i + 1] = NotChecked

\* What the checks leave alone keeps "OK" backed.
LEMMA SupportUnchanged ==
    ASSUME UNCHANGED <<mandates, public_keys, action>>
    PROVE  Supported <=> Supported'
<1>1. chain' = chain
  BY DEF chain
<1> QED
  BY <1>1 DEF Supported

\* The reads and a comparison of two grants print nothing.
LEMMA SilentShows ==
    ASSUME Typed, Shown, Answered, UNCHANGED screen,
           \/ ReadKeys \/ ReadEnvelope \/ ReadReceipt \/ ReadMandate \/ SelectAction \/ CheckLink
    PROVE  Shown' /\ Answered'
<1>1. exit = None
  BY NotYetOver DEF Typed, ReadKeys, ReadEnvelope, ReadReceipt, ReadMandate, SelectAction, CheckLink
<1>2. exit' \in {None, BAD_INPUT, ESCAPED} /\ exit' \notin {VERIFIED, NOT_VERIFIED}
  <2>1. exit' \in {exit, BAD_INPUT, ESCAPED}
    <3>1. CASE Raised /\ ~ CheckLink
      BY <3>1, RaisedStops DEF Stopping
    <3>2. CASE ~ Raised \/ CheckLink
      BY <3>2 DEF Raised, ReadKeys, ReadEnvelope, ReadReceipt, ReadMandate, SelectAction, CheckLink
    <3> QED
      BY <3>1, <3>2
  <2> QED
    BY <1>1, <2>1, FileAssumption DEF VERIFIED, NOT_VERIFIED, BAD_INPUT, ESCAPED
<1>3. CASE CheckLink
  <2>1. UNCHANGED <<pc, action>> /\ pc = "report_authority"
    BY <1>3 DEF CheckLink
  <2>2. exit \notin {VERIFIED, NOT_VERIFIED}
    BY <1>1, FileAssumption
  <2>3. Shown'
    BY <1>2, <2>1, <2>2 DEF Shown, Reading, Banned
  <2> QED
    BY <2>1, <2>3 DEF Answered
<1>4. CASE ~ CheckLink
  <2>1. Reading /\ screen = << >> /\ action = None
    <3>1. Reading
      BY <1>4 DEF Reading, ReadKeys, ReadEnvelope, ReadReceipt, ReadMandate, SelectAction
    <3> QED
      BY <3>1 DEF Shown, Typed, Inv, Established
  <2>2. \A banned : Lines(screen', banned)
    BY <2>1, NoLines
  <2>3. Shown'
    BY <1>2, <2>1, <2>2 DEF Shown
  <2>4. action' = None \/ pc' = "check_document"
    BY <1>4, <2>1
    DEF ReadKeys, ReadEnvelope, ReadReceipt, ReadMandate, SelectAction, Raised, Raise
  <2> QED
    BY <2>3, <2>4 DEF Answered
<1> QED
  BY <1>3, <1>4

\* A check that is followed by more checks adds lines and concludes nothing.
LEMMA CheckShows ==
    ASSUME Shown, ~ Reading, pc \notin {"result", "done"},
           NEW text, Lines(text, Banned), Shows(text),
           UNCHANGED <<exit, action>>, exit = None,
           pc' \in {"report_binding", "report_authority", "report_grant"}
    PROVE  Shown' /\ Answered'
<1>1. Lines(screen', Banned) /\ Banned' = Banned
  BY LinesJoined DEF Shown, Shows, Banned
<1>2. Lines(screen', {}) /\ Lines(screen', {"result"})
  BY <1>1, FewerBanned DEF Banned
<1>3. exit' \notin {VERIFIED, NOT_VERIFIED}
  BY FileAssumption
<1> QED
  BY <1>1, <1>2, <1>3 DEF Shown, Answered, Reading

\* Without grants the binding of the receipt is the last check: the answer is "not checked",
\* or nothing when there is no action to ask about.
LEMMA UncheckedShows ==
    ASSUME InHand, Shown, exit = None, pc = "report_binding", pc' = "result",
           UNCHANGED <<exit, action, mandates>>, Shows(binding_lines \o unchecked_line),
           action = None \/ mandates = << >>
    PROVE  Shown' /\ Answered'
<1> DEFINE text == screen \o binding_lines
<1>1. Lines(screen, Banned) /\ Lines(binding_lines, Banned)
  BY BindingLinesAreLines DEF Shown
<1>2. Lines(text, Banned)
  BY <1>1, LinesJoined
<1>3. exit' \notin {VERIFIED, NOT_VERIFIED}
  BY FileAssumption
<1>4. CASE action = None
  <2>1. unchecked_line = << >>
    BY <1>4 DEF unchecked_line
  <2>2. Lines(binding_lines \o << >>, Banned)
    BY <1>1, NoLines, LinesJoined
  <2>3. Lines(screen', Banned)
    BY <1>1, <2>1, <2>2, LinesJoined DEF Shows
  <2>4. Lines(screen', {"result"}) /\ Lines(screen', {})
    BY <2>3, FewerBanned DEF Banned
  <2> QED
    BY <1>3, <1>4, <2>4 DEF Shown, Answered, Reading
<1>5. CASE action # None
  <2>1. unchecked_line = line("scope", <<NotChecked>>) \o << >>
    <3>1. unchecked_line = line("scope", <<NotChecked>>)
      BY <1>5, Zenon DEF unchecked_line, NotChecked
    <3>2. \A word : IsSequence(line("scope", <<word>>))
      BY ShortTexts, OneLine
    <3>3. \A s : IsSequence(s) => s \o << >> = s
      BY ConcatEmptySeq DEF IsSequence
    <3> QED
      BY <3>1, <3>2, <3>3, Zenon
  <2>2. Lines(text, {"scope"}) /\ Lines(text, {"result"})
    BY <1>2, <1>5, FewerBanned DEF Banned
  <2>3. Lines(<< >>, {"scope"}) /\ Lines(<< >>, {"result"})
    BY NoLines
  <2>4. Word(NotChecked)
    BY AnswerWords, Zenon DEF Word
  <2> HIDE DEF text
  <2>5. Says(text \o (line("scope", <<NotChecked>>) \o << >>), NotChecked)
    BY <2>2, <2>3, <2>4, OneAnswer
  <2>6. screen' = text \o unchecked_line
    <3>1. IsSequence(screen) /\ IsSequence(binding_lines)
      BY <1>1 DEF Lines
    <3>2. \A a : IsSequence(line("scope", <<a>>) \o << >>)
      BY ShortTexts, OneLine, Joined
    <3>3. IsSequence(unchecked_line)
      BY <2>1, <3>2, Zenon
    <3> QED
      BY <3>1, <3>3, Associates DEF Shows, text
  <2>7. Says(screen', NotChecked)
    BY <2>1, <2>5, <2>6, Zenon
  <2>8. /\ Lines(screen', {"result"}) /\ Lines(screen', {})
        /\ \E i : Under(screen', "scope") = {i} /\ screen'[i + 1] = NotChecked
    BY <2>7, FewerBanned DEF Says
  <2>9. Answers' = {NotChecked}
    BY <2>8 DEF Answers
  <2>10. "OK" \notin Answers'
    BY <2>9, AnswerWords, Zenon
  <2>11. mandates' = << >>
    BY <1>5
  <2>12. Shown'
    BY <1>3, <2>8 DEF Shown, Reading
  <2>13. Answered'
    BY <2>8, <2>10, <2>11 DEF Answered
  <2> QED
    BY <2>12, <2>13
<1> QED
  BY <1>4, <1>5

\* The verdict comes after the answer and leaves it as it stands.
LEMMA ResultKeepsAnswer ==
    ASSUME InHand, Shown, Answered, exit = None, Result, Shows(result_line)
    PROVE  Shown' /\ Answered'
<1>1. Lines(screen, {"result"}) /\ Lines(screen, {})
  BY FileAssumption DEF Shown
<1>2. /\ Plain(screen') /\ Concluded(screen', exit')
      /\ exit' \in {VERIFIED, NOT_VERIFIED}
      /\ \E value : IsSequence(value) /\ screen' = screen \o line("result", value)
  BY <1>1, ResultShows
<1>3. PICK value : IsSequence(value) /\ screen' = screen \o line("result", value)
  BY <1>2
<1>4. Lines(line("result", value), {"scope"}) /\ Lines(line("result", value), {})
  BY <1>3, OneLine
<1>5. /\ Under(screen', "scope") = Under(screen, "scope")
      /\ \A i \in Under(screen, "scope") : screen'[i + 1] = screen[i + 1]
  BY <1>1, <1>3, <1>4, AfterLines
<1>6. Lines(screen', {})
  BY <1>1, <1>3, <1>4, LinesJoined
<1>7. pc = "result" /\ pc' = "done"
      /\ UNCHANGED <<mandates, public_keys, action, failures>>
  BY DEF Result
<1>8. Shown'
  BY <1>2, <1>6, <1>7 DEF Shown, Reading
<1>9. Answers' = Answers
  BY <1>5 DEF Answers
<1>10. Supported <=> Supported'
  BY <1>7, SupportUnchanged
<1>11. Answered'
  BY <1>5, <1>7, <1>9, <1>10 DEF Answered
<1> QED
  BY <1>8, <1>11

LEMMA ShownStep ==
    ASSUME Typed, Judging, Shown, Answered, [ShowNext]_<<vars, screen>>
    PROVE  Shown' /\ Answered'
<1>1. CASE UNCHANGED <<vars, screen>>
  <2>1. Supported <=> Supported'
    BY <1>1, SupportUnchanged DEF vars
  <2>2. Answers' = Answers
    BY <1>1 DEF Answers
  <2>3. Shown'
    BY <1>1 DEF vars, Shown, Reading, Banned
  <2>4. Answered'
    BY <1>1, <2>1, <2>2 DEF vars, Answered
  <2> QED
    BY <2>3, <2>4
<1>2. CASE (ReadKeys \/ ReadEnvelope \/ ReadReceipt \/ ReadMandate \/ SelectAction \/ CheckLink)
              /\ UNCHANGED screen
  BY <1>2, SilentShows
<1>3. CASE CheckDocument
              /\ Shows(describe(invocation.envelope.payload)
                       \o line("signed by",
                               signers(verified_signers(invocation.envelope, public_keys))))
  <2>1. pc = "check_document" /\ pc' = "report_binding" /\ UNCHANGED <<exit, action>>
    BY <1>3 DEF CheckDocument
  <2>2. InHand /\ exit = None /\ ~ Reading
    BY <2>1, CheckingInHand DEF Reading
  <2> DEFINE text == describe(invocation.envelope.payload)
                     \o line("signed by",
                             signers(verified_signers(invocation.envelope, public_keys)))
  <2>3. Lines(text, Banned)
    BY <2>2, DocumentLinesAreLines
  <2>4. Shows(text)
    BY <1>3, Zenon
  <2> HIDE DEF text
  <2> QED
    BY <2>1, <2>2, <2>3, <2>4, CheckShows
<1>4. CASE ReportBinding /\ Shows(binding_lines \o unchecked_line)
  <2>1. /\ pc = "report_binding" /\ UNCHANGED <<exit, action, mandates>>
        /\ pc' = IF action = None \/ mandates = << >> THEN "result" ELSE "report_authority"
    BY <1>4 DEF ReportBinding
  <2>2. InHand /\ exit = None /\ ~ Reading
    BY <2>1, CheckingInHand DEF Reading
  <2>3. CASE action = None \/ mandates = << >>
    BY <1>4, <2>1, <2>2, <2>3, UncheckedShows
  <2>4. CASE ~ (action = None \/ mandates = << >>)
    <3>1. Lines(binding_lines \o unchecked_line, Banned)
      <4>1. unchecked_line = << >>
        BY <2>4 DEF unchecked_line
      <4> QED
        BY <2>2, <4>1, BindingLinesAreLines, NoLines, LinesJoined
    <3> QED
      BY <1>4, <2>1, <2>2, <2>4, <3>1, CheckShows
  <2> QED
    BY <2>3, <2>4
<1>5. CASE CheckGrant /\ Shows(grant_line(mandates[granted + 1]))
  <2>1. pc = "report_authority" /\ UNCHANGED <<pc, exit, action>> /\ granted < Len(mandates)
    BY <1>5 DEF CheckGrant
  <2>2. InHand /\ exit = None /\ ~ Reading
    BY <2>1, CheckingInHand DEF Reading
  <2>3. granted + 1 \in DOMAIN mandates
    BY <2>1, ChainOfMandates DEF Typed, Inv, TypeOK
  <2>4. Lines(grant_line(mandates[granted + 1]), Banned)
    BY <2>2, <2>3, GrantLineIsLines
  <2> QED
    BY <1>5, <2>1, <2>2, <2>4, CheckShows
<1>6. CASE ReportChain /\ Shows(chain_lines)
  <2>1. /\ pc = "report_authority" /\ pc' = "report_grant" /\ UNCHANGED <<exit, action>>
        /\ Len(positions) = Len(mandates)
    BY <1>6 DEF ReportChain
  <2>2. InHand /\ exit = None /\ ~ Reading
    BY <2>1, CheckingInHand DEF Reading
  <2>3. mandates # << >>
    BY <2>1 DEF Typed, Inv, Established
  <2>4. Lines(chain_lines, Banned)
    BY <2>1, <2>2, <2>3, ChainLinesAreLines
  <2> QED
    BY <1>6, <2>1, <2>2, <2>4, CheckShows
<1>7. CASE ReportGrant /\ Shows(scope_lines)
  <2>1. /\ pc = "report_grant" /\ pc' = "result"
        /\ UNCHANGED <<exit, action, mandates, public_keys>>
    BY <1>7 DEF ReportGrant
  <2>2. InHand /\ exit = None /\ ~ Stopped /\ ~ Reading
    BY <2>1, CheckingInHand DEF Reading
  <2>3. mandates # << >> /\ action # None /\ (unauthorised = {} => ChainHolds)
    BY <2>1, <2>2 DEF Typed, Inv, Established
  <2>4. Lines(screen, Banned)
    BY <2>1 DEF Shown
  <2>5. /\ Lines(screen', {"result"})
        /\ "OK" \in Answers' => Supported
        /\ failures' = {} =>
              \E i : Under(screen', "scope") = {i} /\ screen'[i + 1] # NotChecked
    BY <1>7, <2>2, <2>3, <2>4, ScopeLinesAnswer DEF Answers
  <2>6. Lines(screen', {}) /\ exit' \notin {VERIFIED, NOT_VERIFIED}
    BY <2>1, <2>2, <2>5, FewerBanned, FileAssumption
  <2>7. Shown'
    BY <2>1, <2>5, <2>6 DEF Shown, Reading
  <2>8. Supported <=> Supported'
    BY <2>1, SupportUnchanged
  <2>9. Answered'
    BY <2>1, <2>3, <2>5, <2>8 DEF Answered
  <2> QED
    BY <2>7, <2>9
<1>8. CASE Result /\ Shows(result_line)
  <2>1. InHand /\ exit = None
    BY <1>8, CheckingInHand DEF Result, Reading
  <2> QED
    BY <1>8, <2>1, ResultKeepsAnswer
<1> QED
  BY <1>1, <1>2, <1>3, <1>4, <1>5, <1>6, <1>7, <1>8 DEF ShowNext

LEMMA ShownHolds == ShowSpec => [](Typed /\ Judging /\ Shown /\ Answered)
<1>1. ShowInit => Typed /\ Judging /\ Shown /\ Answered
  <2> SUFFICES ASSUME ShowInit PROVE Typed /\ Judging /\ Shown /\ Answered
    OBVIOUS
  <2>1. Typed /\ Judging
    BY InitInv, InitJudging DEF ShowInit
  <2>2. exit = None /\ screen = << >> /\ pc = "read_keys"
    BY DEF ShowInit, Init
  <2>3. Shown
    BY <2>2, NoLines, FileAssumption DEF Shown
  <2> QED
    BY <2>1, <2>2, <2>3 DEF Answered
<1>2. Typed /\ Judging /\ Shown /\ Answered /\ [ShowNext]_<<vars, screen>>
         => (Typed /\ Judging /\ Shown /\ Answered)'
  <2> SUFFICES ASSUME Typed, Judging, Shown, Answered, [ShowNext]_<<vars, screen>>
               PROVE  Typed' /\ Judging' /\ Shown' /\ Answered'
    OBVIOUS
  <2>1. [Next]_vars
    BY DEF ShowNext, Next, vars
  <2>2. Typed'
    BY <2>1, NextInv
  <2>3. Judging'
    BY <2>1, StepJudges
  <2>4. Shown' /\ Answered'
    BY ShownStep
  <2> QED
    BY <2>2, <2>3, <2>4
<1> QED
  BY <1>1, <1>2, PTL DEF ShowSpec

-----------------------------------------------------------------------------
(***************************************************************************)
(* The results.                                                            *)
(***************************************************************************)

\* Type correctness of one run of the command: the grants read are the files given, in their
\* order, each a mandate, and nothing is looked at before it was read.
THEOREM TypeCorrect == Spec => []TypeOK
<1>1. Typed => TypeOK
  BY DEF Typed, Inv
<1> QED
  BY <1>1, InvariantHolds, PTL

\* _report_chain compares neighbours only, and still every clean prefix of a chain narrows all
\* the way: each grant conveys nothing that any grant before it did not.
THEOREM NeighboursSuffice == Spec => []NarrowingSoFar
<1>1. Typed => NarrowingSoFar
  BY DEF Typed, Inv
<1> QED
  BY <1>1, InvariantHolds, PTL

\* _report_scope reads the last grant alone, and a VERIFIED action was inside the scope, the
\* window and the ceiling of every grant up to the root, however long the chain.
THEOREM LastGrantSuffices == Spec => []WithinEveryGrant
<1> QED
  BY WithinEveryGrantHolds, InvariantHolds, PTL

\* A VERIFIED chain was signed link by link: by the principal's key at the root, by the holder
\* of each grant for the next, and by the last holder for the receipt.
THEOREM AuthorityPassedByHand == Spec => []HandToHand
<1> QED
  BY HandToHandHolds, InvariantHolds, PTL

\* The principal reported is the one every grant and the receipt answer to, and no agent holds
\* two grants of the chain.
THEOREM OneAccountablePrincipal == Spec => []AnswersToTheRoot
<1> QED
  BY AnswersToTheRootHolds, InvariantHolds, PTL

\* An outcome VERIFIED beside its receipt reports on an action that went ahead, dated no later,
\* recorded by the agent it names and covered by every grant that was given.
THEOREM OutcomeOfACoveredAction == Spec => []OutcomeStandsOnAnAction
<1> QED
  BY OutcomeStandsHolds, InvariantHolds, PTL

\* The command is its specification: read by read and check by check, a run ends with the one
\* judgement that the invocation's files call for, and with no other.
THEOREM CommandJudges == Spec => ImplementsVerification
<1>1. Init => Promise!Init
  BY DEF Init, Promise!Init
<1>2. Typed /\ Judging /\ [Next]_vars => Judging' /\ [Promise!Judge]_Promise!vars
  BY StepJudges
<1>3. Init => Judging
  BY InitJudging
<1> QED
  BY <1>1, <1>2, <1>3, InvariantHolds, PTL DEF Spec, ImplementsVerification, Promise!Spec

\* Whatever the fields of the documents say, the screen of a finished run has one verdict, last
\* and in plain sight, and the exit code agrees with it; after an input error there is none.
THEOREM ReportAgrees == ShowSpec => []ScreenAgreesWithExit
<1>1. Typed /\ Shown => ScreenAgreesWithExit
  <2> SUFFICES ASSUME Shown, exit # None PROVE Plain(screen) /\ Concluded(screen, exit)
    BY DEF ScreenAgreesWithExit
  <2>1. CASE exit \in {VERIFIED, NOT_VERIFIED}
    BY <2>1 DEF Shown
  <2>2. CASE exit \notin {VERIFIED, NOT_VERIFIED}
    <3>1. Plain(screen) /\ Under(screen, "result") = {}
      BY <2>2, LinesArePlain DEF Shown
    <3> QED
      BY <2>2, <3>1 DEF Concluded
  <2> QED
    BY <2>1, <2>2
<1> QED
  BY <1>1, ShownHolds, PTL

\* "scope OK" is never shown of an action outside any grant of the chain, and a VERIFIED action
\* always has exactly one line that says where its authority stands.
THEOREM ScopeAnswered == ShowSpec => []ScopeIsAnswered
<1>1. Typed /\ Answered => ScopeIsAnswered
  <2> SUFFICES ASSUME Typed, Answered PROVE ScopeIsAnswered
    OBVIOUS
  <2>1. (exit # None => pc = "done") /\ (exit = VERIFIED => failures = {} /\ exit # None)
    BY FileAssumption DEF Typed, Inv, TypeOK, Established
  <2>2. exit # None /\ action # None /\ "OK" \in Answers => Supported
    BY <2>1 DEF Answered
  <2>3. ASSUME exit = VERIFIED, action # None
        PROVE  /\ Cardinality(Under(screen, "scope")) = 1
               /\ mandates = << >> <=> Answers = {NotChecked}
    <3>1. PICK i : /\ Under(screen, "scope") = {i}
                   /\ mandates = << >> <=> screen[i + 1] = NotChecked
      BY <2>1, <2>3 DEF Answered
    <3>2. Answers = {screen[i + 1]}
      BY <3>1 DEF Answers
    <3> QED
      BY <3>1, <3>2, FS_Singleton
  <2>4. /\ exit # None /\ action # None /\ "OK" \in Answers =>
              /\ Sound(chain)
              /\ \A i \in DOMAIN mandates :
                    SignedBy(mandates[i], required_signer(chain[i]), public_keys)
                    /\ Covers(chain[i], action.action, action.issued_at)
        /\ exit = VERIFIED /\ action # None =>
              /\ Cardinality(Under(screen, "scope")) = 1
              /\ mandates = << >> <=> Answers = {NotChecked}
    BY <2>2, <2>3 DEF Supported
  <2> QED
    BY <2>4, Zenon DEF ScopeIsAnswered, NotChecked
<1> QED
  BY <1>1, ShownHolds, PTL
=============================================================================
