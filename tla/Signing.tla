------------------------------ MODULE Signing ------------------------------
(***************************************************************************)
(* Envelopes, who signed them, and which key a key id stands for           *)
(* (src/src/agent_mandates/signing.py, and KeyDirectory in keys.py).       *)
(*                                                                         *)
(* Ed25519 is symbolic: the value of a signature is the pair of the key    *)
(* that made it and the document it covers, and it verifies under that key *)
(* over that document and no other.  A value no key made has key None.     *)
(* The label `key_id` beside it is whatever the envelope says.             *)
(***************************************************************************)
EXTENDS Binding

CONSTANTS
    Keys,         \* key pairs
    DidKeys,      \* the key ids that carry their own key
    CarriedKey    \* the key a did:key id decodes to, None when it is malformed

ASSUME DidAssumption ==
    /\ DidKeys \subseteq KeyIds
    /\ CarriedKey \in [DidKeys -> Keys \cup {None}]
    /\ None \notin Keys \cup KeyIds

ed25519(key, document) == [key |-> key, over |-> document]

Signature(key_id, key, document) == [key_id |-> key_id, value |-> ed25519(key, document)]

\* Mutant: the listing is taken at its word.
directory_usable_as_listed(listed) ==
    \A key_id \in DOMAIN listed \cap DidKeys : CarriedKey[key_id] # None

\* KeyDirectory refuses a listing whose did:key entry is malformed or disagrees with itself.
directory_usable(listed) ==
    \A key_id \in DOMAIN listed \cap DidKeys :
        CarriedKey[key_id] # None /\ listed[key_id] = CarriedKey[key_id]

\* KeyDirectory.get: a did:key answers for itself, any other id only when listed.
public_key(listed, key_id) ==
    IF key_id \in DidKeys THEN CarriedKey[key_id]
    ELSE IF key_id \in DOMAIN listed THEN listed[key_id]
    ELSE None

(***************************************************************************)
(* The author a document names: the acting agent of a receipt, whoever     *)
(* made a grant, nobody for an outcome.                                    *)
(***************************************************************************)
required_signer(payload) ==
    CASE payload.type = "action" -> payload.agent.key_id
      [] payload.type = "mandate" /\ payload.delegated_from # None ->
            payload.delegated_from.agent.key_id
      [] payload.type = "mandate" /\ payload.delegated_from = None -> payload.principal.key_id
      [] payload.type = "outcome" -> None

labels(envelope) == {envelope.signatures[i].key_id : i \in DOMAIN envelope.signatures}

\* The validators of SignedEnvelope: labels only, there are no keys to check against.
valid_envelope(envelope) ==
    /\ envelope.signatures # << >>
    /\ \A i, j \in DOMAIN envelope.signatures :
          envelope.signatures[i].key_id = envelope.signatures[j].key_id => i = j
    /\ \/ required_signer(envelope.payload) = None
       \/ required_signer(envelope.payload) \in labels(envelope)

\* Mutant: a value made with the right key verifies over whatever it is beside.
verified_signers_of_any_payload(envelope, listed) ==
    {key_id \in labels(envelope) :
        /\ public_key(listed, key_id) # None
        /\ \E i \in DOMAIN envelope.signatures :
              /\ envelope.signatures[i].key_id = key_id
              /\ envelope.signatures[i].value.key = public_key(listed, key_id)}

\* Mutant: one signature that does not check out fails the envelope.
verified_signers_if_all(envelope, listed) ==
    {key_id \in labels(envelope) :
        \A i \in DOMAIN envelope.signatures :
            LET key == public_key(listed, envelope.signatures[i].key_id)
            IN  key # None /\ envelope.signatures[i].value = ed25519(key, envelope.payload)}

\* Unknown keys and values that do not check out are skipped, never an error.
verified_signers(envelope, listed) ==
    {key_id \in labels(envelope) :
        /\ public_key(listed, key_id) # None
        /\ \E i \in DOMAIN envelope.signatures :
              /\ envelope.signatures[i].key_id = key_id
              /\ envelope.signatures[i].value
                    = ed25519(public_key(listed, key_id), envelope.payload)}

author_signed(envelope, listed) ==
    \/ required_signer(envelope.payload) = None
    \/ required_signer(envelope.payload) \in verified_signers(envelope, listed)

\* sign() and add_signature() build an envelope and run its validators.
sign(document, key_id, key) ==
    [payload |-> document, signatures |-> <<Signature(key_id, key, document)>>]

add_signature(envelope, key_id, key) ==
    [envelope EXCEPT !.signatures = Append(@, Signature(key_id, key, envelope.payload))]
=============================================================================
