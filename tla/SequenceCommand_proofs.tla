----------------------- MODULE SequenceCommand_proofs -----------------------
(***************************************************************************)
(* Proofs about `mandates sequence`, for every set of runs of any length.  *)
(*                                                                         *)
(* sequence_problems compares neighbours.  What that is worth over any     *)
(* distance is carried as an invariant of the loop that reads the          *)
(* receipts: as long as those read so far are intact they are one story,   *)
(* and the next receipt that fits makes it one receipt longer.             *)
(***************************************************************************)
EXTENDS SequenceReport, Display_proofs

Elements(s) == {s[i] : i \in DOMAIN s}

LEMMA ByPosition ==
    ASSUME NEW s, IsSequence(s)
    PROVE  /\ Len(s) \in Nat /\ DOMAIN s = 1..Len(s)
           /\ s \in [1..Len(s) -> Elements(s)]
<1>1. s \in Seq(Elements(s))
  BY DEF IsSequence, Elements
<1>2. Len(s) \in Nat /\ DOMAIN s = 1..Len(s) /\ s \in [1..Len(s) -> Elements(s)]
  BY <1>1, LenProperties
<1> QED
  BY <1>2

\* Intact with one more receipt: the first has no predecessor, the next commits to the last.
LEMMA IntactGrows ==
    ASSUME NEW s, IsSequence(s), NEW x, Intact(Append(s, x))
    PROVE  /\ Len(s) = 0 => x.prev = None
           /\ Len(s) # 0 => Intact(s) /\ prev_problems(s[Len(s)], x) = {}
<1> DEFINE n == Len(s)
           t == Append(s, x)
<1>1. /\ n \in Nat /\ DOMAIN s = 1..n /\ IsSequence(t) /\ Len(t) = n + 1
      /\ \A i \in 1..n : t[i] = s[i]
      /\ t[n + 1] = x
  BY SequenceGrows
<1>2. t \in [1..(n + 1) -> Elements(t)] /\ n + 1 \in Nat \ {0} /\ Intact(t)
  <2> HIDE DEF t
  <2>1. t \in [1..Len(t) -> Elements(t)]
    BY <1>1, ByPosition
  <2> QED
    BY <1>1, <2>1 DEF t
<1> HIDE DEF t
<1>3. t[1].prev = None /\ \A i \in 2..(n + 1) : prev_problems(t[i - 1], t[i]) = {}
  BY <1>2, IntactByPosition
<1>4. CASE n = 0
  BY <1>1, <1>3, <1>4
<1>5. CASE n # 0
  <2>1. n \in Nat \ {0} /\ n + 1 \in 2..(n + 1) /\ (n + 1) - 1 = n /\ n \in 1..n /\ 1 \in 1..n
    BY <1>1, <1>5
  <2>2. s \in [1..n -> Elements(s)]
    BY ByPosition
  <2>3. \A i \in 2..n : i \in 2..(n + 1) /\ i - 1 \in 1..n /\ i \in 1..n
    BY <1>1
  <2>4. \A i \in 2..n : prev_problems(s[i - 1], s[i]) = {}
    BY <1>1, <1>3, <2>3
  <2>5. s[1].prev = None
    BY <1>1, <1>3, <2>1
  <2>6. Intact(s)
    BY <2>1, <2>2, <2>4, <2>5, IntactByPosition
  <2>7. prev_problems(s[n], x) = {}
    BY <1>1, <1>3, <2>1
  <2> QED
    BY <1>5, <2>6, <2>7
<1> QED
  BY <1>4, <1>5

-----------------------------------------------------------------------------
(***************************************************************************)
(* One story.                                                              *)
(***************************************************************************)

\* One agent, time that does not run back, and no receipt twice.
OneAgent(s) ==
    \A i, j \in DOMAIN s : i < j =>
        /\ s[i].agent = s[j].agent
        /\ s[i].issued_at =< s[j].issued_at
        /\ s[i] # s[j]

\* No other run of these receipts ends in the same one.
OnlyStory(s, T) ==
    \A k \in Nat \ {0} : \A d \in [1..k -> T] : Intact(d) /\ d[k] = s[Len(s)] => d = s

\* Every receipt after the first of an intact run commits to the one before it.
LEMMA NeighboursCommit ==
    ASSUME NEW s, IsSequence(s), Intact(s)
    PROVE  /\ s[1].prev = None
           /\ \A i \in 2..Len(s) : s[i].prev # None /\ s[i].prev_hash = digest(s[i - 1])
<1>1. Len(s) \in Nat \ {0} /\ s \in [1..Len(s) -> Elements(s)]
  BY ByPosition DEF Intact
<1>2. s[1].prev = None /\ \A i \in 2..Len(s) : prev_problems(s[i - 1], s[i]) = {}
  BY <1>1, IntactByPosition
<1> QED
  BY <1>2, LinkedCommits

LEMMA OneAgentGrows ==
    ASSUME NEW s, IsSequence(s), NEW x, Intact(Append(s, x)), Intact(s) => OneAgent(s),
           x.issued_at \in Int, \A i \in DOMAIN s : s[i].issued_at \in Int
    PROVE  OneAgent(Append(s, x))
<1> DEFINE n == Len(s)
           t == Append(s, x)
<1>1. /\ n \in Nat /\ DOMAIN s = 1..n /\ DOMAIN t = 1..(n + 1)
      /\ \A i \in 1..n : t[i] = s[i]
      /\ t[n + 1] = x
  BY SequenceGrows
<1> HIDE DEF t
<1>2. CASE n = 0
  BY <1>1, <1>2 DEF OneAgent, t
<1>3. CASE n # 0
  <2>1. Intact(s) /\ prev_problems(s[n], x) = {} /\ OneAgent(s) /\ n \in 1..n
    <3>1. Intact(s) /\ prev_problems(s[n], x) = {}
      BY <1>3, IntactGrows
    <3> QED
      BY <1>1, <1>3, <3>1
  <2>2. /\ x.agent = s[n].agent /\ ~ (x.issued_at < s[n].issued_at)
        /\ x.prev # None /\ x.prev_hash = digest(s[n])
    BY <2>1 DEF prev_problems, When
  <2>3. /\ s[1].prev = None
        /\ \A i \in 2..n : s[i].prev # None /\ s[i].prev_hash = digest(s[i - 1])
    BY <2>1, NeighboursCommit
  <2>4. ASSUME NEW i \in 1..n
        PROVE  /\ s[i].agent = x.agent /\ s[i].issued_at =< x.issued_at /\ s[i] # x
    <3>1. s[i].agent = s[n].agent /\ s[i].issued_at =< s[n].issued_at
      <4>1. CASE i = n
        BY <1>1, <2>1, <4>1
      <4>2. CASE i # n
        <5>1. i < n /\ i \in DOMAIN s /\ n \in DOMAIN s
          BY <1>1, <1>3, <2>1, <4>2
        <5> QED
          BY <2>1, <5>1 DEF OneAgent
      <4> QED
        BY <4>1, <4>2
    <3>2. s[i].issued_at =< x.issued_at
      BY <1>1, <2>1, <2>2, <3>1
    <3>3. s[i] # x
      <4>1. CASE i = 1
        BY <2>2, <2>3, <4>1
      <4>2. CASE i # 1
        <5>1. i \in 2..n /\ i - 1 \in DOMAIN s /\ n \in DOMAIN s /\ i - 1 < n
          BY <1>1, <2>1, <4>2
        <5>2. s[i - 1] # s[n]
          BY <2>1, <5>1 DEF OneAgent
        <5>3. digest(s[i - 1]) # digest(s[n])
          BY <5>2 DEF digest
        <5> QED
          BY <2>2, <2>3, <5>1, <5>3
      <4> QED
        BY <4>1, <4>2
    <3> QED
      BY <2>2, <3>1, <3>2, <3>3
  <2>5. ASSUME NEW i \in DOMAIN t, NEW j \in DOMAIN t, i < j
        PROVE  t[i].agent = t[j].agent /\ t[i].issued_at =< t[j].issued_at /\ t[i] # t[j]
    <3>1. i \in 1..n /\ t[i] = s[i] /\ (j \in 1..n \/ j = n + 1)
      BY <1>1, <2>5
    <3>2. CASE j \in 1..n
      BY <1>1, <2>1, <2>5, <3>1, <3>2 DEF OneAgent
    <3>3. CASE j = n + 1
      BY <1>1, <2>4, <3>1, <3>3
    <3> QED
      BY <3>1, <3>2, <3>3
  <2>6. OneAgent(t)
    BY <2>5 DEF OneAgent
  <2> QED
    BY <2>6 DEF t
<1> QED
  BY <1>2, <1>3

LEMMA OnlyStoryGrows ==
    ASSUME NEW s, IsSequence(s), NEW x, Intact(Append(s, x)), NEW T, Intact(s) => OnlyStory(s, T)
    PROVE  OnlyStory(Append(s, x), T)
<1> DEFINE n == Len(s)
           t == Append(s, x)
<1>1. /\ n \in Nat /\ DOMAIN s = 1..n /\ IsSequence(t) /\ Len(t) = n + 1 /\ DOMAIN t = 1..(n + 1)
      /\ \A i \in 1..n : t[i] = s[i]
      /\ t[n + 1] = x
  BY SequenceGrows
<1>2. t \in [1..(n + 1) -> Elements(t)] /\ s \in [1..n -> Elements(s)]
  <2>1. t \in [1..Len(t) -> Elements(t)]
    BY <1>1, ByPosition
  <2> QED
    BY <1>1, <2>1, ByPosition
<1> HIDE DEF t
<1> SUFFICES ASSUME NEW k \in Nat \ {0}, NEW d \in [1..k -> T], Intact(d), d[k] = x
             PROVE  d = t
  BY <1>1 DEF OnlyStory, t
<1>3. d[1].prev = None /\ \A i \in 2..k : prev_problems(d[i - 1], d[i]) = {}
  BY IntactByPosition
<1>4. CASE n = 0
  <2>1. x.prev = None
    BY <1>4, IntactGrows
  <2>2. k = 1
    <3>1. k # 1 => k \in 2..k
      OBVIOUS
    <3>2. k # 1 => d[k].prev # None
      BY <1>3, <3>1, LinkedCommits
    <3> QED
      BY <2>1, <3>2
  <2> QED
    BY <1>1, <1>2, <1>4, <2>2
<1>5. CASE n # 0
  <2>1. Intact(s) /\ prev_problems(s[n], x) = {} /\ OnlyStory(s, T)
    BY <1>5, IntactGrows
  <2>2. x.prev # None /\ x.prev_hash = digest(s[n])
    BY <2>1, LinkedCommits
  <2>3. k \in Nat \ {0, 1} /\ k \in 2..k /\ k - 1 \in Nat \ {0} /\ k - 1 \in 1..(k - 1)
    <3>1. k # 1
      BY <1>3, <2>2
    <3> QED
      BY <3>1
  <2>4. x.prev_hash = digest(d[k - 1])
    BY <1>3, <2>3, LinkedCommits
  <2>5. d[k - 1] = s[n]
    BY <2>2, <2>4 DEF digest
  <2>6. upto(d, k - 1) \in [1..(k - 1) -> T] /\ upto(d, k - 1)[k - 1] = d[k - 1]
    BY <2>3 DEF upto
  <2>7. upto(d, k - 1) \in IntactRunsOf(T, k)
    BY <2>3, IntactFront
  <2>8. Intact(upto(d, k - 1))
    BY <2>7, RunIn
  <2>9. upto(d, k - 1) = s
    BY <2>1, <2>3, <2>5, <2>6, <2>8 DEF OnlyStory
  <2>10. \A i \in 1..(k - 1) : s[i] = d[i]
    BY <2>9 DEF upto
  <2>11. k - 1 = n
    <3>1. DOMAIN upto(d, k - 1) = 1..(k - 1)
      BY <2>6
    <3>2. Len(upto(d, k - 1)) = k - 1
      BY <2>3, <2>6, FiniteSequence
    <3> QED
      BY <2>9, <3>2
  <2>12. k = n + 1
    BY <1>1, <2>11
  <2>13. \A i \in 1..(n + 1) : d[i] = t[i]
    BY <1>1, <2>10, <2>12
  <2> QED
    BY <1>2, <2>12, <2>13
<1> QED
  BY <1>4, <1>5

-----------------------------------------------------------------------------
(***************************************************************************)
(* The invariant.                                                          *)
(***************************************************************************)

\* The receipts read are the payloads of the first envelopes.
ReceiptsRead ==
    /\ invocation \in Invocations
    /\ IsSequence(receipts)
    /\ Len(receipts) =< Len(invocation.envelopes)
    /\ \A i \in DOMAIN receipts :
          /\ receipts[i] = invocation.envelopes[i].payload
          /\ read_ok(invocation.envelopes[i], "action")
          /\ receipts[i].issued_at \in Int

unsigned_so_far ==
    \E i \in DOMAIN receipts : ~ author_signed(invocation.envelopes[i], public_keys)

broken == \E i \in DOMAIN receipts : sequence_problems(receipts)[i] # {}

\* The failures are those of the receipts read, and at the end those of the run.
Verdict ==
    /\ pc \in {"read_keys", "read_envelopes", "result", "done"}
    /\ \/ public_keys = << >>
       \/ public_keys_ok(invocation.keys) /\ public_keys = listed_keys(invocation.keys)
    /\ exit \in {None, VERIFIED, NOT_VERIFIED, BAD_INPUT, ESCAPED}
    /\ exit # None <=> pc = "done"
    /\ pc = "read_keys" => receipts = << >> /\ failures = {}
    /\ pc = "read_envelopes" => (failures # {} <=> unsigned_so_far)
    /\ pc = "result" \/ exit \in {VERIFIED, NOT_VERIFIED} =>
          /\ Len(receipts) = Len(invocation.envelopes)
          /\ failures # {} <=> unsigned_so_far \/ broken
    /\ exit = VERIFIED => failures = {}
    /\ exit = NOT_VERIFIED => failures # {}

\* All the receipts that could be handed over.
AllReceipts ==
    UNION {{given.envelopes[i].payload : i \in DOMAIN given.envelopes} : given \in Invocations}

Telling == Intact(receipts) => OneAgent(receipts) /\ OnlyStory(receipts, AllReceipts)

SInv == ReceiptsRead /\ Verdict /\ Telling

LEMMA Codes ==
    /\ None \notin {VERIFIED, NOT_VERIFIED, BAD_INPUT, ESCAPED}
    /\ VERIFIED \notin {NOT_VERIFIED, BAD_INPUT, ESCAPED}
    /\ NOT_VERIFIED \notin {BAD_INPUT, ESCAPED}
BY FileAssumption DEF VERIFIED, NOT_VERIFIED, BAD_INPUT, ESCAPED

LEMMA InitSInv == Init => SInv
<1> SUFFICES ASSUME Init PROVE SInv
  OBVIOUS
<1>1. /\ receipts = << >> /\ failures = {} /\ pc = "read_keys" /\ exit = None
      /\ invocation \in Invocations
  BY DEF Init
<1>2. IsSequence(<< >>) /\ Len(<< >>) = 0 /\ DOMAIN << >> = {}
  BY DEF IsSequence
<1>3. Len(invocation.envelopes) \in Nat
  BY <1>1, InvocationAssumption, SequenceDomain DEF IsInvocation
<1>4. ReceiptsRead
  BY <1>1, <1>2, <1>3 DEF ReceiptsRead
<1>5. Verdict
  BY <1>1, Codes DEF Init, Verdict
<1>6. Telling
  BY <1>1 DEF Telling, Intact
<1> QED
  BY <1>4, <1>5, <1>6 DEF SInv

\* How a file that cannot be used ends the run.
Raised == \E status : Raise(status)

LEMMA RaisedStops ==
    ASSUME Raised, ReadKeys \/ ReadReceipt
    PROVE  /\ pc' = "done" /\ exit' \in {BAD_INPUT, ESCAPED}
           /\ UNCHANGED <<invocation, public_keys, receipts, failures>>
<1>1. pc' = "done"
  BY DEF Raised, Raise
<1>2. PICK file : Raise(error_of(file))
  BY <1>1 DEF ReadKeys, ReadReceipt
<1> QED
  BY <1>2 DEF Raise, error_of

LEMMA RaisedSInv ==
    ASSUME SInv, Raised, ReadKeys \/ ReadReceipt, exit = None
    PROVE  SInv'
<1>1. ReceiptsRead' /\ Telling'
  BY RaisedStops DEF SInv, ReceiptsRead, Telling
<1>2. Verdict'
  BY RaisedStops, Codes DEF SInv, Verdict
<1> QED
  BY <1>1, <1>2 DEF SInv

LEMMA ReadKeysSInv ==
    ASSUME SInv, ReadKeys
    PROVE  SInv'
<1>1. CASE Raised
  BY <1>1, RaisedSInv DEF SInv, Verdict, ReadKeys
<1>2. CASE ~ Raised
  <2>1. /\ pc = "read_keys" /\ pc' = "read_envelopes" /\ UNCHANGED <<invocation, receipts, failures, exit>>
        /\ public_keys_ok(invocation.keys) /\ public_keys' = listed_keys(invocation.keys)
    BY <1>2 DEF Raised, ReadKeys
  <2>2. ReceiptsRead' /\ Telling'
    BY <2>1 DEF SInv, ReceiptsRead, Telling
  <2>3. Verdict'
    BY <2>1, Codes DEF SInv, Verdict, unsigned_so_far
  <2> QED
    BY <2>2, <2>3 DEF SInv
<1> QED
  BY <1>1, <1>2

LEMMA ReadReceiptSInv ==
    ASSUME SInv, ReadReceipt
    PROVE  SInv'
<1> DEFINE n == Len(receipts)
           file == invocation.envelopes[n + 1]
<1>1. CASE Raised
  BY <1>1, RaisedSInv DEF SInv, Verdict, ReadReceipt
<1>2. CASE ~ Raised
  <2>1. /\ pc = "read_envelopes" /\ n < Len(invocation.envelopes) /\ read_ok(file, "action")
        /\ receipts' = Append(receipts, file.payload)
        /\ failures' = failures \cup When(~ author_signed(file, public_keys),
                                           "is not signed by the key it names")
        /\ UNCHANGED <<invocation, pc, public_keys, exit>>
    BY <1>2 DEF Raised, ReadReceipt
  <2>2. /\ n \in Nat /\ DOMAIN receipts = 1..n /\ IsSequence(receipts')
        /\ Len(receipts') = n + 1 /\ DOMAIN receipts' = 1..(n + 1)
        /\ \A i \in 1..n : receipts'[i] = receipts[i]
        /\ receipts'[n + 1] = file.payload
    <3>1. IsSequence(receipts)
      BY DEF SInv, ReceiptsRead
    <3>2. receipts' = Append(receipts, file.payload)
      BY <2>1
    <3> HIDE DEF file
    <3> QED
      BY <3>1, <3>2, SequenceGrows
  <2>3. /\ IsSequence(invocation.envelopes)
        /\ \A i \in DOMAIN invocation.envelopes : IsFile(invocation.envelopes[i])
    BY InvocationAssumption DEF IsInvocation, SInv, ReceiptsRead
  <2>4. Len(invocation.envelopes) \in Nat /\ n + 1 \in DOMAIN invocation.envelopes
    <3>1. /\ Len(invocation.envelopes) \in Nat
          /\ DOMAIN invocation.envelopes = 1..Len(invocation.envelopes)
      BY <2>3, SequenceDomain
    <3>2. n \in Nat /\ n < Len(invocation.envelopes)
      BY <2>1, <2>2
    <3> HIDE DEF n
    <3> QED
      BY <3>1, <3>2
  <2>5. file.payload.issued_at \in Int
    <3>1. IsFile(file) /\ file \notin Unusable /\ file.payload.type = "action"
      BY <2>1, <2>3, <2>4 DEF read_ok, read_envelope_ok
    <3> QED
      BY <3>1 DEF IsFile, IsDocument, IsMandate, IsReceipt, IsOutcome, Timestamp
  <2> HIDE DEF file
  <2>6. ReceiptsRead'
    <3>1. \A i \in 1..n : /\ receipts[i] = invocation.envelopes[i].payload
                          /\ read_ok(invocation.envelopes[i], "action")
                          /\ receipts[i].issued_at \in Int
      BY <2>2 DEF SInv, ReceiptsRead
    <3>2. \A i \in 1..(n + 1) : i \in 1..n \/ i = n + 1
      BY <2>2
    <3>3. invocation' = invocation /\ n + 1 =< Len(invocation.envelopes)
      <4>1. /\ n \in Nat /\ n < Len(invocation.envelopes) /\ Len(invocation.envelopes) \in Nat
            /\ invocation' = invocation
        BY <2>1, <2>2, <2>4
      <4> HIDE DEF n
      <4> QED
        BY <4>1
    <3>4. \A i \in 1..(n + 1) : /\ receipts'[i] = invocation.envelopes[i].payload
                                /\ read_ok(invocation.envelopes[i], "action")
                                /\ receipts'[i].issued_at \in Int
      BY <2>1, <2>2, <2>5, <3>1, <3>2 DEF file
    <3> QED
      BY <2>2, <3>3, <3>4 DEF SInv, ReceiptsRead
  <2>7. Verdict'
    <3>1. unsigned_so_far' <=> unsigned_so_far \/ ~ author_signed(file, public_keys)
      <4>1. \A i : i \in 1..(n + 1) <=> i \in 1..n \/ i = n + 1
        BY <2>2
      <4> QED
        BY <2>1, <2>2, <4>1 DEF unsigned_so_far, file
    <3>2. failures' # {} <=> failures # {} \/ ~ author_signed(file, public_keys)
      BY <2>1 DEF When
    <3>3. failures # {} <=> unsigned_so_far
      BY <2>1 DEF SInv, Verdict
    <3>4. exit = None
      BY <2>1 DEF SInv, Verdict
    <3> QED
      BY <2>1, <3>1, <3>2, <3>3, <3>4, Codes DEF SInv, Verdict
  <2>8. Telling'
    <3>1. \A i \in DOMAIN receipts : receipts[i].issued_at \in Int
      BY DEF SInv, ReceiptsRead
    <3>2. IsSequence(receipts) /\ Telling
      BY DEF SInv, ReceiptsRead
    <3>3. Intact(receipts') => OneAgent(receipts')
      BY <2>1, <2>5, <3>1, <3>2, OneAgentGrows DEF Telling
    <3>4. Intact(receipts') => OnlyStory(receipts', AllReceipts)
      BY <2>1, <3>2, OnlyStoryGrows DEF Telling
    <3> QED
      BY <3>3, <3>4 DEF Telling
  <2> QED
    BY <2>6, <2>7, <2>8 DEF SInv
<1> QED
  BY <1>1, <1>2

LEMMA ReportSequenceSInv ==
    ASSUME SInv, ReportSequence
    PROVE  SInv'
<1>1. /\ pc = "read_envelopes" /\ Len(receipts) = Len(invocation.envelopes)
      /\ failures' = failures \cup When(broken, "the run is missing receipts or out of order")
      /\ pc' = "result" /\ UNCHANGED <<invocation, public_keys, receipts, exit>>
  BY DEF ReportSequence, broken
<1>2. ReceiptsRead' /\ Telling'
  BY <1>1 DEF SInv, ReceiptsRead, Telling
<1>3. unsigned_so_far' = unsigned_so_far /\ broken' = broken
  BY <1>1 DEF unsigned_so_far, broken
<1>4. failures' # {} <=> failures # {} \/ broken
  BY <1>1 DEF When
<1>5. failures # {} <=> unsigned_so_far
  BY <1>1 DEF SInv, Verdict
<1>6. exit = None
  BY <1>1 DEF SInv, Verdict
<1>7. Verdict'
  BY <1>1, <1>3, <1>4, <1>5, <1>6, Codes DEF SInv, Verdict
<1> QED
  BY <1>2, <1>7 DEF SInv

LEMMA ResultSInv ==
    ASSUME SInv, Result
    PROVE  SInv'
<1>1. /\ pc = "result" /\ exit' = (IF failures # {} THEN NOT_VERIFIED ELSE VERIFIED)
      /\ pc' = "done" /\ UNCHANGED <<invocation, public_keys, receipts, failures>>
  BY DEF Result
<1>2. ReceiptsRead' /\ Telling'
  BY <1>1 DEF SInv, ReceiptsRead, Telling
<1>3. unsigned_so_far' = unsigned_so_far /\ broken' = broken
  BY <1>1 DEF unsigned_so_far, broken
<1>4. Verdict'
  BY <1>1, <1>3, Codes DEF SInv, Verdict
<1> QED
  BY <1>2, <1>4 DEF SInv

LEMMA StepSInv == SInv /\ [Next]_vars => SInv'
<1> SUFFICES ASSUME SInv, [Next]_vars PROVE SInv'
  OBVIOUS
<1>1. CASE UNCHANGED vars
  BY <1>1 DEF vars, SInv, ReceiptsRead, Verdict, Telling, unsigned_so_far, broken
<1> QED
  BY <1>1, ReadKeysSInv, ReadReceiptSInv, ReportSequenceSInv, ResultSInv DEF Next

LEMMA SInvInductive == Spec => []SInv
BY InitSInv, StepSInv, PTL DEF Spec

-----------------------------------------------------------------------------
(***************************************************************************)
(* The theorems.                                                           *)
(***************************************************************************)

\* A key id resolves to a key or to none.
LEMMA KeysResolve ==
    ASSUME SInv, NEW k \in KeyIds
    PROVE  public_key(public_keys, k) \in Keys \cup {None}
<1>1. k \in DidKeys => CarriedKey[k] \in Keys \cup {None}
  BY DidAssumption
<1>2. \A key_id \in DOMAIN public_keys : public_keys[key_id] \in Keys
  <2>1. CASE public_keys = << >>
    BY <2>1
  <2>2. CASE public_keys_ok(invocation.keys) /\ public_keys = listed_keys(invocation.keys)
    <3>1. IsDirectory(invocation.keys)
      BY InvocationAssumption DEF SInv, ReceiptsRead, IsInvocation
    <3> QED
      BY <2>2, <3>1 DEF IsDirectory, public_keys_ok, listed_keys
  <2> QED
    BY <2>1, <2>2 DEF SInv, Verdict
<1> QED
  BY <1>1, <1>2 DEF public_key

\* The receipt at each position is the one of its envelope.
LEMMA ReceiptAt ==
    ASSUME SInv, NEW i \in DOMAIN receipts
    PROVE  /\ receipts[i] = invocation.envelopes[i].payload
           /\ receipts[i].type = "action" /\ receipts[i].agent.key_id \in KeyIds
           /\ receipts[i].id \in DocumentIds
<1>1. /\ receipts[i] = invocation.envelopes[i].payload
      /\ read_ok(invocation.envelopes[i], "action")
  BY DEF SInv, ReceiptsRead
<1>2. i \in DOMAIN invocation.envelopes
  <2>1. /\ IsSequence(receipts) /\ IsSequence(invocation.envelopes)
        /\ Len(receipts) =< Len(invocation.envelopes)
    BY InvocationAssumption DEF SInv, ReceiptsRead, IsInvocation
  <2>2. /\ Len(receipts) \in Nat /\ DOMAIN receipts = 1..Len(receipts)
        /\ Len(invocation.envelopes) \in Nat
        /\ DOMAIN invocation.envelopes = 1..Len(invocation.envelopes)
    BY <2>1, SequenceDomain
  <2> QED
    BY <2>1, <2>2
<1>3. IsFile(invocation.envelopes[i])
  BY <1>2, InvocationAssumption DEF SInv, ReceiptsRead, IsInvocation
<1>4. receipts[i].type = "action" /\ IsDocument(receipts[i])
  BY <1>1, <1>3 DEF IsFile, read_ok, read_envelope_ok
<1>5. IsReceipt(receipts[i])
  BY <1>4 DEF IsDocument, IsMandate, IsReceipt, IsOutcome
<1> QED
  BY <1>1, <1>4, <1>5 DEF IsReceipt, Agent

\* Signed by its author is signed with the key the directory gives for the agent.
LEMMA AuthorSigned ==
    ASSUME SInv, NEW i \in DOMAIN receipts
    PROVE  author_signed(invocation.envelopes[i], public_keys)
              <=> SignedBy(invocation.envelopes[i], receipts[i].agent.key_id, public_keys)
<1> DEFINE k == receipts[i].agent.key_id
           envelope == invocation.envelopes[i]
<1>1. envelope.payload = receipts[i] /\ receipts[i].type = "action" /\ k \in KeyIds
  BY ReceiptAt
<1>2. k # None /\ public_key(public_keys, k) \in Keys \cup {None} /\ None \notin Keys
  BY <1>1, KeysResolve, DidAssumption
<1>3. required_signer(envelope.payload) = k
  BY <1>1 DEF required_signer
<1> HIDE DEF k, envelope
<1>4. author_signed(envelope, public_keys) <=> k \in verified_signers(envelope, public_keys)
  BY <1>2, <1>3 DEF author_signed
<1>5. k \in verified_signers(envelope, public_keys) <=> SignedBy(envelope, k, public_keys)
  BY <1>2 DEF verified_signers, SignedBy, labels
<1> QED
  BY <1>4, <1>5 DEF k, envelope

\* What an exit code says of the whole run.
LEMMA VerdictMeans ==
    ASSUME SInv
    PROVE  /\ exit \in {VERIFIED, NOT_VERIFIED} =>
                 /\ receipts # << >> /\ IsSequence(receipts)
                 /\ Len(receipts) = Len(invocation.envelopes) /\ Len(receipts) \in Nat \ {0}
           /\ exit = VERIFIED => Intact(receipts) /\ ~ unsigned_so_far
           /\ exit = NOT_VERIFIED => unsigned_so_far \/ ~ Intact(receipts)
<1>1. IsSequence(receipts) /\ IsSequence(invocation.envelopes) /\ invocation.envelopes # << >>
  BY InvocationAssumption DEF SInv, ReceiptsRead, IsInvocation
<1>2. Len(receipts) \in Nat /\ Len(invocation.envelopes) \in Nat \ {0}
  BY <1>1, SequenceDomain DEF IsSequence
<1>3. exit \in {VERIFIED, NOT_VERIFIED} =>
        /\ receipts # << >> /\ Len(receipts) = Len(invocation.envelopes)
        /\ Len(receipts) \in Nat \ {0}
  <2>1. Len(<< >>) = 0
    OBVIOUS
  <2> QED
    BY <1>2, <2>1 DEF SInv, Verdict
<1>4. receipts # << >> => (Intact(receipts) <=> ~ broken)
  BY DEF Intact, broken
<1>5. /\ exit = VERIFIED => ~ unsigned_so_far /\ ~ broken
      /\ exit = NOT_VERIFIED => unsigned_so_far \/ broken
  BY DEF SInv, Verdict
<1> QED
  BY <1>1, <1>3, <1>4, <1>5

\* Receipts are read in order, and an exit code means the end.
THEOREM TypeCorrect == Spec => []TypeOK
<1>1. SInv => TypeOK
  BY DEF SInv, ReceiptsRead, Verdict, TypeOK
<1> QED
  BY <1>1, SInvInductive, PTL

\* The verdict on neighbours covers the run: the first receipt's agent acted throughout and its
\* key signed every receipt, an only one too, time never runs backwards over any distance, and
\* no receipt is counted twice.
THEOREM OneAgentThroughout == Spec => []OneAgentOneStory
<1>1. SInv => OneAgentOneStory
  <2> SUFFICES ASSUME SInv, exit = VERIFIED PROVE OneAgentOneStory
    BY DEF OneAgentOneStory
  <2>1. Intact(receipts) /\ ~ unsigned_so_far /\ IsSequence(receipts)
        /\ Len(receipts) \in Nat \ {0}
    BY VerdictMeans
  <2>2. OneAgent(receipts)
    BY <2>1 DEF SInv, Telling
  <2>3. ASSUME NEW i \in DOMAIN receipts
        PROVE  SignedBy(invocation.envelopes[i], receipts[1].agent.key_id, public_keys)
    <3>1. SignedBy(invocation.envelopes[i], receipts[i].agent.key_id, public_keys)
      BY <2>1, AuthorSigned DEF unsigned_so_far
    <3>2. 1 \in DOMAIN receipts /\ i \in Nat \ {0}
      BY <2>1, SequenceDomain
    <3>3. receipts[1].agent = receipts[i].agent
      BY <2>2, <3>2 DEF OneAgent
    <3> QED
      BY <3>1, <3>3
  <2> QED
    BY <2>2, <2>3 DEF OneAgent, OneAgentOneStory
<1> QED
  BY <1>1, SInvInductive, PTL

\* Nothing is missing before the last receipt: a run that ends in it and is intact is this run.
THEOREM NothingIsMissing == Spec => []NothingMissing
<1>1. SInv => NothingMissing
  <2> SUFFICES ASSUME SInv, exit = VERIFIED, NEW other \in Invocations
               PROVE  LET told == [i \in DOMAIN other.envelopes |-> other.envelopes[i].payload]
                      IN  last(told) = last(receipts) /\ Intact(told) => told = receipts
    BY DEF NothingMissing
  <2> DEFINE told == [i \in DOMAIN other.envelopes |-> other.envelopes[i].payload]
             k == Len(other.envelopes)
  <2>1. k \in Nat \ {0} /\ DOMAIN other.envelopes = 1..k
    <3>1. IsSequence(other.envelopes) /\ other.envelopes # << >>
      BY InvocationAssumption DEF IsInvocation
    <3> QED
      BY <3>1, SequenceDomain DEF IsSequence
  <2>2. told \in [1..k -> AllReceipts]
    BY <2>1 DEF AllReceipts
  <2> HIDE DEF told, k
  <2>3. last(told) = told[k]
    BY <2>1, <2>2, FiniteSequence
  <2>4. Intact(receipts) /\ OnlyStory(receipts, AllReceipts)
    BY VerdictMeans DEF SInv, Telling
  <2>5. last(told) = last(receipts) /\ Intact(told) => told = receipts
    BY <2>1, <2>2, <2>3, <2>4 DEF OnlyStory, last
  <2> QED
    BY <2>5 DEF told
<1> QED
  BY <1>1, SInvInductive, PTL

\* And nothing is refused without cause.
THEOREM NothingRefusedWithoutCause == Spec => []WholeRunsVerify
<1>1. SInv => WholeRunsVerify
  <2> SUFFICES ASSUME SInv, exit = NOT_VERIFIED, receipts[1].prev = None,
                      \A i \in DOMAIN receipts :
                         SignedBy(invocation.envelopes[i], receipts[i].agent.key_id, public_keys),
                      \A i \in DOMAIN receipts \ {1} :
                         /\ receipts[i].prev = receipts[i - 1].id
                         /\ receipts[i].prev_hash = digest(receipts[i - 1])
                         /\ ~ (receipts[i].issued_at < receipts[i - 1].issued_at)
                         /\ receipts[i].agent = receipts[i - 1].agent
               PROVE  FALSE
    BY DEF WholeRunsVerify
  <2> DEFINE n == Len(receipts)
  <2>1. n \in Nat \ {0} /\ IsSequence(receipts) /\ ~ Intact(receipts)
    BY VerdictMeans, AuthorSigned DEF unsigned_so_far
  <2>2. DOMAIN receipts = 1..n /\ receipts \in [1..n -> Elements(receipts)]
    BY <2>1, ByPosition
  <2>3. ASSUME NEW i \in 2..n
        PROVE  prev_problems(receipts[i - 1], receipts[i]) = {}
    <3>1. i \in DOMAIN receipts \ {1} /\ i - 1 \in DOMAIN receipts
      BY <2>2
    <3>2. receipts[i - 1].id # None
      BY <3>1, AbsentAssumption, ReceiptAt
    <3> QED
      BY <3>1, <3>2 DEF prev_problems, When
  <2>4. Intact(receipts)
    BY <2>1, <2>2, <2>3, IntactByPosition
  <2> QED
    BY <2>1, <2>4
<1> QED
  BY <1>1, SInvInductive, PTL

-----------------------------------------------------------------------------
(***************************************************************************)
(* The report.  A command that prints takes the steps of the command, so   *)
(* SInv holds of it too; what it adds to the screen before the last step   *)
(* are lines, none of them a verdict.                                      *)
(***************************************************************************)

Shown ==
    /\ exit \notin {VERIFIED, NOT_VERIFIED} => Lines(screen, {"result"})
    /\ exit \in {VERIFIED, NOT_VERIFIED} => Plain(screen) /\ Concluded(screen, exit)

LEMMA EnvelopesAreFiles ==
    ASSUME SInv
    PROVE  /\ IsSequence(invocation.envelopes)
           /\ \A i \in 1..Len(invocation.envelopes) : IsFile(invocation.envelopes[i])
BY InvocationAssumption, SequenceDomain DEF SInv, ReceiptsRead, IsInvocation

LEMMA ReceiptLineIsLines ==
    ASSUME SInv, Len(receipts) < Len(invocation.envelopes)
    PROVE  Lines(receipt_line, {"result"})
<1> DEFINE n == Len(receipts)
           file == invocation.envelopes[n + 1]
           by == signers(verified_signers(file, public_keys))
<1>1. n + 1 \in 1..Len(invocation.envelopes)
  BY EnvelopesAreFiles, SequenceDomain DEF SInv, ReceiptsRead
<1>2. IsFile(file)
  BY <1>1, EnvelopesAreFiles
<1> HIDE DEF file, by
<1>3. CASE read_ok(file, "action")
  <2>1. file \notin Unusable
    BY <1>3 DEF read_ok, read_envelope_ok
  <2>2. IsSequence(by)
    BY <1>2, <2>1, SignersAreFinite, SignersAreText DEF by
  <2>3. \A a, b, c : IsSequence(<<a, b, c>> \o by)
    BY <2>2, ShortTexts, Joined
  <2>4. \A v : IsSequence(v) => Lines(line("#", v), {"result"})
    BY OneLine
  <2>5. receipt_line = line("#", <<ToString(n), file.payload.id, "signed by">> \o by)
    BY <1>3, Zenon DEF receipt_line, file, by
  <2> QED
    BY <2>3, <2>4, <2>5, Zenon
<1>4. CASE ~ read_ok(file, "action")
  <2>1. receipt_line = << >>
    BY <1>4 DEF receipt_line, file
  <2> QED
    BY <2>1, NoLines
<1> QED
  BY <1>3, <1>4

LEMMA SequenceLinesAreLines ==
    ASSUME SInv
    PROVE  Lines(sequence_lines, {"result"})
<1> DEFINE positions == sequence_problems(receipts)
           parts == [i \in DOMAIN positions |-> bullets(positions[i])]
           A == line("sequence", <<"BROKEN">>)
           B == line("sequence", <<"intact", ToString(Len(receipts))>>)
<1>1. Lines(A, {"result"}) /\ Lines(B, {"result"})
  BY ShortTexts, OneLine
<1>2. IsSequence(receipts) /\ DOMAIN positions = 1..Len(receipts) /\ DOMAIN receipts = 1..Len(receipts)
  BY SequenceDomain DEF SInv, ReceiptsRead, sequence_problems
<1>3. IsSequence(parts)
  <2> HIDE DEF positions
  <2> QED
    BY <1>2, Mapped
<1>4. \A i \in DOMAIN parts : Lines(parts[i], {"result"})
  BY <1>2, ReportsAreFinite, BulletsAreLines
<1>5. sequence_lines = IF \A i \in DOMAIN positions : positions[i] = {} THEN B
                       ELSE A \o FlattenSeq(parts)
  BY DEF sequence_lines
<1> HIDE DEF parts, A, B, positions
<1>6. Lines(A \o FlattenSeq(parts), {"result"})
  BY <1>1, <1>3, <1>4, FlattenedLines, LinesJoined
<1> QED
  BY <1>1, <1>5, <1>6

LEMMA AccusationsAreText ==
    ASSUME SInv
    PROVE  IsSequence(accusations)
<1> DEFINE parts == [i \in DOMAIN receipts |->
                        IF author_signed(invocation.envelopes[i], public_keys) THEN << >>
                        ELSE Spelling[receipts[i].agent.key_id]]
<1>1. IsSequence(receipts) /\ DOMAIN receipts = 1..Len(receipts)
  BY SequenceDomain DEF SInv, ReceiptsRead
<1>2. IsSequence(parts)
  BY <1>1, Mapped
<1>3. ASSUME NEW i \in DOMAIN receipts
      PROVE  receipts[i].agent.key_id \in KeyIds
  BY <1>1, <1>3, ReceiptAt DEF IsReceipt, Agent
<1>4. \A i \in DOMAIN parts : IsSequence(parts[i])
  BY <1>3, ShortTexts, SpellingAssumption
<1>5. accusations = FlattenSeq(parts)
  BY DEF accusations
<1> HIDE DEF parts
<1> QED
  BY <1>2, <1>4, <1>5, FlattenedText

LEMMA ResultConcludes ==
    ASSUME SInv, Lines(screen, {"result"}), Result, Shows(result_line)
    PROVE  Shown'
<1> DEFINE value == IF failures = {} THEN <<"VERIFIED">> ELSE <<"NOT VERIFIED">> \o accusations
<1>1. exit' = (IF failures = {} THEN VERIFIED ELSE NOT_VERIFIED)
  BY DEF Result
<1>2. exit' \in {VERIFIED, NOT_VERIFIED}
  BY <1>1
<1>3. IsSequence(value) /\ value # << >> /\ value[1] = VerdictOf(exit')
  BY <1>1, AccusationsAreText, VerdictIsFirst, Zenon
<1>4. screen' = screen \o line("result", value)
  BY DEF Shows, result_line
<1> HIDE DEF value
<1>5. Plain(screen') /\ Concluded(screen', exit')
  BY <1>2, <1>3, <1>4, VerdictConcludes
<1> QED
  BY <1>2, <1>5 DEF Shown

LEMMA ShownStep == SInv /\ Shown /\ [ShowNext]_<<vars, screen>> => Shown'
<1> SUFFICES ASSUME SInv, Shown, [ShowNext]_<<vars, screen>> PROVE Shown'
  OBVIOUS
<1>1. exit \in {VERIFIED, NOT_VERIFIED} => pc = "done"
  BY Codes DEF SInv, Verdict
<1>2. ASSUME NEW text, Lines(text, {"result"}), pc # "done", Shows(text),
             exit' \in {exit, BAD_INPUT, ESCAPED}
      PROVE  Shown'
  <2>1. Lines(screen', {"result"})
    BY <1>1, <1>2, LinesJoined DEF Shown, Shows
  <2>2. exit' \notin {VERIFIED, NOT_VERIFIED}
    BY <1>1, <1>2, Codes
  <2> QED
    BY <2>1, <2>2 DEF Shown
<1>3. CASE ReadKeys /\ UNCHANGED screen
  <2>1. exit' \in {exit, BAD_INPUT, ESCAPED} /\ pc # "done"
    BY <1>3, RaisedStops DEF ReadKeys, Raised
  <2> QED
    BY <1>1, <1>3, <2>1, Codes DEF Shown
<1>4. CASE ReadReceipt /\ Shows(receipt_line)
  <2>1. exit' \in {exit, BAD_INPUT, ESCAPED} /\ pc # "done" /\ Len(receipts) < Len(invocation.envelopes)
    BY <1>4, RaisedStops DEF ReadReceipt, Raised
  <2> QED
    BY <1>2, <1>4, <2>1, ReceiptLineIsLines
<1>5. CASE ReportSequence /\ Shows(sequence_lines)
  <2>1. exit' = exit /\ pc # "done"
    BY <1>5 DEF ReportSequence
  <2> QED
    BY <1>2, <1>5, <2>1, SequenceLinesAreLines
<1>6. CASE Result /\ Shows(result_line)
  <2>1. Lines(screen, {"result"})
    BY <1>1, <1>6 DEF Result, Shown
  <2> QED
    BY <1>6, <2>1, ResultConcludes
<1>7. CASE UNCHANGED <<vars, screen>>
  BY <1>7 DEF vars, Shown
<1> QED
  BY <1>3, <1>4, <1>5, <1>6, <1>7 DEF ShowNext

\* Whatever the receipts say, the screen of a finished run has one verdict, last and in plain
\* sight, and the exit code agrees with it; after an input error there is none.
THEOREM ReportAgrees == ShowSpec => []ScreenAgreesWithExit
<1>1. ShowInit => SInv /\ Shown
  <2> SUFFICES ASSUME ShowInit PROVE SInv /\ Shown
    OBVIOUS
  <2>1. SInv
    BY InitSInv DEF ShowInit
  <2>2. exit = None /\ screen = << >>
    BY DEF ShowInit, Init
  <2> QED
    BY <2>1, <2>2, Codes, NoLines DEF Shown
<1>2. SInv /\ Shown /\ [ShowNext]_<<vars, screen>> => SInv' /\ Shown'
  <2>1. [ShowNext]_<<vars, screen>> => [Next]_vars
    BY DEF ShowNext, Next, vars
  <2> QED
    BY <2>1, StepSInv, ShownStep
<1>3. SInv /\ Shown => ScreenAgreesWithExit
  <2> SUFFICES ASSUME SInv, Shown, exit # None PROVE Plain(screen) /\ Concluded(screen, exit)
    BY DEF ScreenAgreesWithExit
  <2>1. CASE exit \in {VERIFIED, NOT_VERIFIED}
    BY <2>1 DEF Shown
  <2>2. CASE exit \notin {VERIFIED, NOT_VERIFIED}
    <3>1. Plain(screen) /\ Under(screen, "result") = {}
      BY <2>2, LinesArePlain DEF Shown
    <3> QED
      BY <2>2, <3>1 DEF Concluded
  <2> QED
    BY <2>1, <2>2
<1> QED
  BY <1>1, <1>2, <1>3, PTL DEF ShowSpec
=============================================================================
