----------------------------- MODULE MCHandover -----------------------------
(***************************************************************************)
(* Two agents, one of which carries its key in its id, and a witness.      *)
(***************************************************************************)
EXTENDS Handover

MCKeyIds == {"kp", "ka", "did:b", "kw"}
MCDidKeys == {"did:b"}
MCCarriedKey == [key_id \in MCDidKeys |-> "B"]
MCKeyOf == [key_id \in MCKeyIds \ MCDidKeys |->
              CASE key_id = "kp" -> "P" [] key_id = "ka" -> "A" [] key_id = "kw" -> "W"]

bank == [id |-> "bank", type |-> "organization", key_id |-> "kp"]
ann == [id |-> "ann", key_id |-> "ka"]
bob == [id |-> "bob", key_id |-> "did:b"]
OneBank == {bank}
TwoAgents == {ann, bob}

Eur(n) == [amount |-> n, currency |-> "EUR"]
PayOnly == {{"pay"}}
OneEuroOrAny == {None, Eur(1)}
PaidOrFree == {[type |-> "pay", value |-> v, detail |-> "d"] : v \in {None, Eur(1)}}
=============================================================================
