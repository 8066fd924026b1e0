-------------------------- MODULE Envelopes_proofs --------------------------
(***************************************************************************)
(* Proofs about envelopes on their way, for any number of keys, payloads   *)
(* and signatures and any directories.                                     *)
(***************************************************************************)
EXTENDS Envelopes, SequenceTheorems, TLAPS

\* Signature values in circulation: those a key made, and those no key made.
Values == made \cup {NoValue(document) : document \in Payloads}

Entries == [key_id : KeyIds, value : Values]

Wrapped == [payload : Payloads, signatures : Seq(Entries)]

WInv ==
    /\ \A value \in made : value.key \in Keys /\ value.over \in Payloads
    /\ wire # None => wire \in Wrapped
    /\ original # None => valid_envelope(original) /\ original.payload \in Payloads
    /\ original = None => wire = None

LEMMA MoreEntries ==
    ASSUME NEW A, NEW B, A \subseteq B, NEW s \in Seq(A)
    PROVE  s \in Seq(B)
BY SeqDef

\* More values may be in circulation than an envelope was made with.
LEMMA WrappedStays ==
    ASSUME made \subseteq made', NEW e \in Wrapped
    PROVE  e \in Wrapped'
<1>1. Entries \subseteq Entries'
  BY DEF Entries, Values
<1>2. e.signatures \in Seq(Entries')
  BY <1>1, MoreEntries DEF Wrapped
<1> QED
  BY <1>2 DEF Wrapped

\* Whatever is built, with a value just made at its end, is an envelope of values made.
LEMMA BuildInv ==
    ASSUME WInv, NEW e, NEW value, Build(e, value), value.key \in Keys, value.over \in Payloads,
           e \in Wrapped', e.payload \in Payloads
    PROVE  WInv'
<1>1. made' = made \cup {value}
  BY DEF Build
<1>2. CASE wire' = e /\ original' = e /\ valid_envelope(e)
  BY <1>1, <1>2 DEF WInv
<1>3. CASE UNCHANGED <<original, wire>>
  <2>1. wire' # None => wire' \in Wrapped'
    BY <1>1, <1>3, WrappedStays DEF WInv
  <2> QED
    BY <1>1, <1>3, <2>1 DEF WInv
<1> QED
  BY <1>2, <1>3 DEF Build

LEMMA SignInv ==
    ASSUME WInv, NEW document \in Payloads, NEW key_id \in KeyIds, NEW key \in Keys,
           Sign(document, key_id, key)
    PROVE  WInv'
<1> DEFINE value == ed25519(key, document)
           e == sign(document, key_id, key)
<1>1. Build(e, value) /\ made' = made \cup {value}
  BY DEF Sign, Build
<1>2. value.key \in Keys /\ value.over \in Payloads
  BY DEF ed25519
<1>3. Signature(key_id, key, document) \in Entries'
  BY <1>1 DEF Signature, Entries, Values
<1>4. e \in Wrapped' /\ e.payload \in Payloads
  BY <1>3 DEF sign, Wrapped
<1> HIDE DEF value, e
<1> QED
  BY <1>1, <1>2, <1>4, BuildInv

LEMMA CountersignInv ==
    ASSUME WInv, NEW key_id \in KeyIds, NEW key \in Keys, Countersign(key_id, key)
    PROVE  WInv'
<1> DEFINE value == ed25519(key, wire.payload)
           e == add_signature(wire, key_id, key)
<1>1. Build(e, value) /\ made' = made \cup {value} /\ wire \in Wrapped
  BY DEF Countersign, Build, WInv
<1>2. value.key \in Keys /\ value.over \in Payloads
  BY <1>1 DEF ed25519, Wrapped
<1>3. Signature(key_id, key, wire.payload) \in Entries'
  BY <1>1 DEF Signature, Entries, Values
<1>4. wire \in Wrapped'
  BY <1>1, WrappedStays
<1>5. Append(wire.signatures, Signature(key_id, key, wire.payload)) \in Seq(Entries')
  BY <1>3, <1>4, AppendProperties DEF Wrapped
<1>6. e \in Wrapped' /\ e.payload \in Payloads
  BY <1>4, <1>5 DEF add_signature, Wrapped
<1> HIDE DEF value, e
<1> QED
  BY <1>1, <1>2, <1>6, BuildInv

LEMMA AttachInv ==
    ASSUME WInv, NEW key_id \in KeyIds, NEW value \in Values, Attach(key_id, value)
    PROVE  WInv'
<1>1. wire \in Wrapped /\ UNCHANGED <<made, original, listed>> /\ original # None
  BY DEF Attach, WInv
<1>2. [key_id |-> key_id, value |-> value] \in Entries
  BY DEF Entries
<1>3. Append(wire.signatures, [key_id |-> key_id, value |-> value]) \in Seq(Entries)
  BY <1>1, <1>2, AppendProperties DEF Wrapped
<1>4. wire' \in Wrapped
  BY <1>1, <1>3 DEF Attach, Wrapped
<1>5. Wrapped' = Wrapped
  BY <1>1 DEF Wrapped, Entries, Values
<1> QED
  BY <1>1, <1>4, <1>5 DEF WInv

LEMMA DetachInv ==
    ASSUME WInv, NEW i \in Nat, Detach(i)
    PROVE  WInv'
<1>1. wire \in Wrapped /\ UNCHANGED <<made, original, listed>> /\ original # None
      /\ i \in DOMAIN wire.signatures
  BY DEF Detach, WInv
<1> DEFINE s == wire.signatures
<1>2. s \in Seq(Entries) /\ Len(s) \in Nat /\ i \in 1..Len(s)
  BY <1>1, LenProperties DEF Wrapped
<1>3. SubSeq(s, 1, i - 1) \in Seq(Entries) /\ SubSeq(s, i + 1, Len(s)) \in Seq(Entries)
  BY <1>2
<1>4. SubSeq(s, 1, i - 1) \o SubSeq(s, i + 1, Len(s)) \in Seq(Entries)
  BY <1>3, ConcatProperties
<1>5. wire' \in Wrapped
  BY <1>1, <1>4 DEF Detach, Wrapped
<1>6. Wrapped' = Wrapped
  BY <1>1 DEF Wrapped, Entries, Values
<1> QED
  BY <1>1, <1>5, <1>6 DEF WInv

LEMMA RewrapInv ==
    ASSUME WInv, NEW document \in Payloads, Rewrap(document)
    PROVE  WInv'
<1>1. wire \in Wrapped /\ UNCHANGED <<made, original, listed>> /\ original # None
  BY DEF Rewrap, WInv
<1>2. wire' \in Wrapped
  BY <1>1 DEF Rewrap, Wrapped
<1>3. Wrapped' = Wrapped
  BY <1>1 DEF Wrapped, Entries, Values
<1> QED
  BY <1>1, <1>2, <1>3 DEF WInv

LEMMA Unchanged ==
    ASSUME WInv, UNCHANGED <<made, original, wire>>
    PROVE  WInv'
BY DEF WInv, Wrapped, Entries, Values

LEMMA Inductive == Spec => []WInv
<1>1. Init => WInv
  BY DEF Init, WInv
<1>2. WInv /\ [Next]_vars => WInv'
  <2> SUFFICES ASSUME WInv, [Next]_vars PROVE WInv'
    OBVIOUS
  <2>1. ASSUME NEW document \in Payloads, NEW key_id \in KeyIds, NEW key \in Keys,
               Sign(document, key_id, key)
        PROVE  WInv'
    BY <2>1, SignInv
  <2>2. ASSUME NEW key_id \in KeyIds, NEW key \in Keys, Countersign(key_id, key)
        PROVE  WInv'
    BY <2>2, CountersignInv
  <2>3. ASSUME NEW key_id \in KeyIds, NEW value \in Values, Attach(key_id, value)
        PROVE  WInv'
    BY <2>3, AttachInv
  <2>4. ASSUME NEW i \in 1..MaxSignatures, Detach(i)
        PROVE  WInv'
    BY <2>4, EnvelopesAssumption, DetachInv
  <2>5. ASSUME NEW document \in Payloads, Rewrap(document)
        PROVE  WInv'
    BY <2>5, RewrapInv
  <2>6. ASSUME NEW directory \in Directories, Relist(directory)
        PROVE  WInv'
    BY <2>6, Unchanged DEF Relist
  <2>7. CASE UNCHANGED vars
    BY <2>7, Unchanged DEF vars
  <2> QED
    BY <2>1, <2>2, <2>3, <2>4, <2>5, <2>6, <2>7 DEF Next, Values
<1> QED
  BY <1>1, <1>2, PTL DEF Spec

-----------------------------------------------------------------------------
\* What the library built it checked, and what is handed on stays a payload and a tuple.
THEOREM TypeCorrect == Spec => []TypeOK
<1>1. WInv => TypeOK
  <2> SUFFICES ASSUME WInv, wire # None
               PROVE  wire.payload \in Payloads /\ IsSequence(wire.signatures)
    BY DEF WInv, TypeOK
  <2>1. wire.payload \in Payloads /\ wire.signatures \in Seq(Entries)
    BY DEF WInv, Wrapped
  <2>2. IsSequence(wire.signatures)
    BY <2>1, SeqDef, LenProperties DEF IsSequence
  <2> QED
    BY <2>1, <2>2
<1> QED
  BY <1>1, Inductive, PTL

\* A signer that verified_signers reports has signed this very payload, with the key that the
\* reader's directory gives for that id.
THEOREM VerifiedIsSigned == Spec => []VerifiedMeansSigned
<1>1. WInv => VerifiedMeansSigned
  <2> SUFFICES ASSUME WInv, wire # None, NEW key_id \in verified_signers(wire, listed)
               PROVE  ed25519(public_key(listed, key_id), wire.payload) \in made
    BY DEF VerifiedMeansSigned
  <2> DEFINE key == public_key(listed, key_id)
             value == ed25519(key, wire.payload)
  <2>1. key # None
    BY DEF verified_signers
  <2>2. PICK i \in DOMAIN wire.signatures : wire.signatures[i].value = value
    BY DEF verified_signers
  <2>3. wire.signatures \in Seq(Entries)
    BY DEF WInv, Wrapped
  <2>4. wire.signatures[i] \in Entries
    BY <2>2, <2>3, LenProperties
  <2>5. value \in Values
    BY <2>2, <2>4 DEF Entries
  <2>6. \A document : value # NoValue(document)
    BY <2>1 DEF NoValue, ed25519
  <2> QED
    BY <2>5, <2>6 DEF Values
<1> QED
  BY <1>1, Inductive, PTL

\* Adding and moving signatures around takes no verified signer away: one the library built
\* with is still reported as long as the envelope can be read at all.
THEOREM EvidenceStays == Spec => []EvidenceSurvives
<1>1. EvidenceSurvives
  <2> SUFFICES ASSUME Extends(wire, original)
               PROVE  /\ verified_signers(original, listed) \subseteq verified_signers(wire, listed)
                      /\ author_signed(original, listed) => author_signed(wire, listed)
    BY DEF EvidenceSurvives
  <2>1. /\ wire.payload = original.payload
        /\ \A i \in DOMAIN original.signatures : \E j \in DOMAIN wire.signatures :
              wire.signatures[j] = original.signatures[i]
    BY DEF Extends, entries
  <2>2. verified_signers(original, listed) \subseteq verified_signers(wire, listed)
    <3> SUFFICES ASSUME NEW key_id \in verified_signers(original, listed)
                 PROVE  key_id \in verified_signers(wire, listed)
      OBVIOUS
    <3>1. PICK i \in DOMAIN original.signatures :
            /\ public_key(listed, key_id) # None
            /\ original.signatures[i].key_id = key_id
            /\ original.signatures[i].value
                  = ed25519(public_key(listed, key_id), original.payload)
      BY DEF verified_signers
    <3>2. PICK j \in DOMAIN wire.signatures : wire.signatures[j] = original.signatures[i]
      BY <2>1
    <3>3. key_id \in labels(wire)
      BY <3>1, <3>2 DEF labels
    <3> QED
      BY <2>1, <3>1, <3>2, <3>3 DEF verified_signers
  <2> QED
    BY <2>1, <2>2 DEF author_signed
<1> QED
  BY <1>1, PTL
=============================================================================
