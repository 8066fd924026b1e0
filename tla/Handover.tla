------------------------------ MODULE Handover ------------------------------
(***************************************************************************)
(* From what was issued to what is verified: the grants, the receipt and   *)
(* the outcome of a call are signed, each by its author, the public keys   *)
(* are published and the papers are handed to `mandates verify`, the way   *)
(* src/examples/walkthrough.py does it.                                    *)
(***************************************************************************)
EXTENDS Issuance

CONSTANTS
    KeyOf,        \* the key pair of each party
    Witness,      \* who attests outcomes
    Unreadable, Escaping

\* Everybody has a key pair, and the witness one that has to be published.
ASSUME HandoverAssumption ==
    /\ KeyOf \in [KeyIds \ DidKeys -> Keys]
    /\ KeyOf \notin {None, Unreadable, Escaping}
    /\ \A party \in Principals \cup Agents :
          party.key_id \in DidKeys => CarriedKey[party.key_id] \in Keys
    /\ Witness \in KeyIds \ DidKeys

\* The JWKS lists everybody whose key id does not carry a key, and nobody else.
jwks == KeyOf

held(key_id) == IF key_id \in DidKeys THEN CarriedKey[key_id] ELSE KeyOf[key_id]

signed(document, key_id) == sign(document, key_id, held(key_id))

\* A receipt, by its agent, with the grants it was recorded under, root first.
PapersOf(chain, receipt) ==
    [keys |-> jwks, require |-> {required_signer(receipt)}, receipt |-> None,
     envelope |-> signed(receipt, required_signer(receipt)),
     mandates |-> [i \in DOMAIN chain |-> signed(chain[i], required_signer(chain[i]))]]

\* What came of it, by whoever attests it, with the same papers beside it.
AttestedPapersOf(chain, receipt, outcome) ==
    [PapersOf(chain, receipt) EXCEPT
        !.envelope = signed(outcome, Witness),
        !.require = {Witness},
        !.receipt = signed(receipt, required_signer(receipt))]

-----------------------------------------------------------------------------
Judged(papers) == INSTANCE Verification WITH invocation <- papers, exit <- None

Hold(papers) == Judged(papers)!Acceptable /\ Judged(papers)!Convincing

\* An agent that asked before it acted, and recorded the call while its grant was in force,
\* can prove it: the papers for any sound chain to that grant verify, and so do the papers
\* with any outcome reported for the call, however often ids were used again.
HonestPapersHold ==
    \A r \in asked, c \in SoundChains :
        /\ r.mandate_hash = digest(last(c))
        /\ last(c).issued_at =< r.issued_at
        /\ r.issued_at =< last(c).expires_at
        => /\ Hold(PapersOf(c, r))
           /\ \A o \in outcomes :
                 o.receipt_hash = digest(r) => Hold(AttestedPapersOf(c, r, o))
=============================================================================
