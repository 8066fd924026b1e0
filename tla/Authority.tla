----------------------------- MODULE Authority -----------------------------
(***************************************************************************)
(* What grants, chains and signatures promise, stated with quantifiers and *)
(* without the reports the code collects.  None of it models code: these   *)
(* are the notions the properties and the abstract specifications are      *)
(* written in, and the code's checks are compared with them.               *)
(***************************************************************************)
EXTENDS Signing

\* A value the ceiling can vouch for: stated, in its currency, not above it.
ValueWithin(value, ceiling) ==
    ceiling # None =>
        /\ value # None
        /\ value.currency = ceiling.currency
        /\ value.amount =< ceiling.amount

\* The grant was in force at that time and its scope and ceiling allow the action.
Covers(grant, action, at) ==
    /\ action.type \in grant.scope
    /\ grant.issued_at =< at /\ at =< grant.expires_at
    /\ ValueWithin(action.value, grant.max_value)

\* The child conveys nothing its parent did not have.
Narrower(child, parent) ==
    /\ child.scope \subseteq parent.scope
    /\ parent.issued_at =< child.issued_at
    /\ child.expires_at =< parent.expires_at
    /\ ValueWithin(child.max_value, parent.max_value)
    /\ child.principal = parent.principal

\* The child was passed on by the parent's holder, out of that parent, while it ran.
PassedOn(child, parent) ==
    /\ child.delegated_from # None
    /\ child.delegated_from = DelegationLink(parent.id, digest(parent), parent.agent)
    /\ child.issued_at =< parent.expires_at
    /\ Narrower(child, parent)

\* A chain from a grant the principal made itself to the agent that acts.
SoundChain(chain) ==
    /\ Len(chain) \in 1..MAX_CHAIN_DEPTH
    /\ chain[1].delegated_from = None
    /\ \A i, j \in DOMAIN chain : chain[i].agent = chain[j].agent => i = j
    /\ \A i \in DOMAIN chain \ {1} : PassedOn(chain[i], chain[i - 1])

\* The receipt was recorded under this grant, by its holder, after it was granted.
TakenUnder(receipt, grant) ==
    /\ receipt.mandate_id = grant.id
    /\ receipt.mandate_hash = digest(grant)
    /\ receipt.agent = grant.agent
    /\ receipt.principal = grant.principal
    /\ grant.issued_at =< receipt.issued_at

last(sequence) == sequence[Len(sequence)]

\* The chains and the runs that can be put together out of these documents and hold.
SoundChainsOf(grants) ==
    {c \in UNION {[1..n -> grants] : n \in 1..MAX_CHAIN_DEPTH} : Sound(c)}

IntactRunsOf(records, longest) ==
    {r \in UNION {[1..n -> records] : n \in 1..longest} : Intact(r)}

\* The key that key_id stands for made a signature over the envelope's payload.
SignedBy(envelope, key_id, listed) ==
    /\ public_key(listed, key_id) \in Keys
    /\ \E i \in DOMAIN envelope.signatures :
          /\ envelope.signatures[i].key_id = key_id
          /\ envelope.signatures[i].value
                = ed25519(public_key(listed, key_id), envelope.payload)
=============================================================================
