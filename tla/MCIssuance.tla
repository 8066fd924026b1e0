----------------------------- MODULE MCIssuance -----------------------------
(***************************************************************************)
(* Small worlds for model-checking Issuance.  Each run turns on the part   *)
(* of the system its question is about and keeps the rest to one value.    *)
(***************************************************************************)
EXTENDS Issuance, TLC

CONSTANTS ann_id, bob_id, cyd_id, m1

\* An agent's key is known by its name.
MCKeyIds == {"kp", ann_id, bob_id, cyd_id}
MCNames == {"bank", ann_id, bob_id, cyd_id}
MCDocumentIds == {m1, "r1", "r2", "o1"}
MCDidKeys == {}
MCCarriedKey == << >>

bank == [id |-> "bank", type |-> "organization", key_id |-> "kp"]
ann == [id |-> ann_id, key_id |-> ann_id]
bob == [id |-> bob_id, key_id |-> bob_id]
cyd == [id |-> cyd_id, key_id |-> cyd_id]

Eur(n) == [amount |-> n, currency |-> "EUR"]
Do(type, value) == [type |-> type, value |-> value, detail |-> "d"]

OneBank == {bank}
OneAgent == {ann}
TwoAgents == {ann, bob}
ThreeAgents == {ann, bob, cyd}

\* No agent is special.
Symmetry == Permutations({ann_id, bob_id, cyd_id})

PayOnly == {{"pay"}}
PayOrMore == {{"pay"}, {"pay", "read"}}
PayThenRead == {{"pay"}, {"read"}}

NoCeiling == {None}
OneEuro == {Eur(1)}
OneEuroOrAny == {None, Eur(1)}

NoAction == {}
OnePayment == {Do("pay", Eur(1))}
TwoPayments == {Do("pay", Eur(1)), [Do("pay", Eur(1)) EXCEPT !.detail = "e"]}
PaidOrFree == {Do("pay", Eur(1)), Do("pay", None)}
=============================================================================
