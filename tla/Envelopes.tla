----------------------------- MODULE Envelopes -----------------------------
(***************************************************************************)
(* An envelope on its way: signed and countersigned by whoever holds a key *)
(* (sign and add_signature in signing.py), handed on by others who hold    *)
(* none and may change the JSON around the payload or the payload itself,  *)
(* and read under a directory that changes with time.                      *)
(***************************************************************************)
EXTENDS Signing

LOCAL INSTANCE SequencesExt

CONSTANTS
    Payloads,
    Directories,      \* what the reader's directory may list
    MaxSignatures

ASSUME EnvelopesAssumption ==
    /\ Payloads # {} /\ MaxSignatures \in Nat
    /\ \A listed \in Directories : \A key_id \in DOMAIN listed : listed[key_id] \in Keys

VARIABLES
    made,       \* every signature value a key has been used for
    original,   \* the envelope as the library last built it
    wire,       \* what is being handed on, not always a valid envelope
    listed      \* the directory of the reader

vars == <<made, original, wire, listed>>

Init ==
    /\ made = {}
    /\ original = None
    /\ wire = None
    /\ listed \in Directories

\* The envelope is built, or its validators raise and there is none.
Build(envelope, value) ==
    /\ made' = made \cup {value}
    /\ IF valid_envelope(envelope) THEN original' = envelope /\ wire' = envelope
                                   ELSE UNCHANGED <<original, wire>>
    /\ UNCHANGED listed

\* Nothing ties the label to the key: the caller gives both.
Sign(document, key_id, key) ==
    /\ wire = None
    /\ Build(sign(document, key_id, key), ed25519(key, document))

\* Whoever countersigns has read the envelope first.
Countersign(key_id, key) ==
    /\ wire # None /\ valid_envelope(wire) /\ Len(wire.signatures) < MaxSignatures
    /\ Build(add_signature(wire, key_id, key), ed25519(key, wire.payload))

\* Without a key: values that were made, and one that no key made.
Attach(key_id, value) ==
    /\ wire # None /\ Len(wire.signatures) < MaxSignatures
    /\ wire' = [wire EXCEPT !.signatures = Append(@, [key_id |-> key_id, value |-> value])]
    /\ UNCHANGED <<made, original, listed>>

Detach(i) ==
    /\ wire # None /\ i \in DOMAIN wire.signatures
    /\ wire' = [wire EXCEPT !.signatures = SubSeq(@, 1, i - 1) \o SubSeq(@, i + 1, Len(@))]
    /\ UNCHANGED <<made, original, listed>>

Rewrap(document) ==
    /\ wire # None
    /\ wire' = [wire EXCEPT !.payload = document]
    /\ UNCHANGED <<made, original, listed>>

Relist(directory) ==
    /\ listed' = directory
    /\ UNCHANGED <<made, original, wire>>

NoValue(document) == ed25519(None, document)

Next ==
    \/ \E document \in Payloads, key_id \in KeyIds, key \in Keys : Sign(document, key_id, key)
    \/ \E key_id \in KeyIds, key \in Keys : Countersign(key_id, key)
    \/ \E key_id \in KeyIds, value \in made \cup {NoValue(document) : document \in Payloads} :
          Attach(key_id, value)
    \/ \E i \in 1..MaxSignatures : Detach(i)
    \/ \E document \in Payloads : Rewrap(document)
    \/ \E directory \in Directories : Relist(directory)

Spec == Init /\ [][Next]_vars

-----------------------------------------------------------------------------
\* What the library built was valid when it built it; there is nothing to hand on before.
TypeOK ==
    /\ \A value \in made : value.key \in Keys /\ value.over \in Payloads
    /\ original # None => valid_envelope(original) /\ original.payload \in Payloads
    /\ wire # None => wire.payload \in Payloads /\ IsSequence(wire.signatures)
    /\ original = None => wire = None

\* A signer is reported only when the key the reader's directory gives for that id has signed
\* this very payload, through any relabelling, copying and rewrapping (signing.py:182-208).
VerifiedMeansSigned ==
    (wire # None /\ valid_envelope(wire)) =>
        \A key_id \in verified_signers(wire, listed) :
            ed25519(public_key(listed, key_id), wire.payload) \in made

entries(envelope) == {envelope.signatures[i] : i \in DOMAIN envelope.signatures}

Extends(envelope, earlier) ==
    envelope.payload = earlier.payload /\ entries(earlier) \subseteq entries(envelope)

\* Reordering and adding signatures, by key holders or anybody, takes no verified signer away
\* as long as the envelope can be read, and the author stays among them (FORMAT.md:154-157).
EvidenceSurvives ==
    (wire # None /\ valid_envelope(wire) /\ Extends(wire, original)) =>
        /\ verified_signers(original, listed) \subseteq verified_signers(wire, listed)
        /\ author_signed(original, listed) => author_signed(wire, listed)
=============================================================================
