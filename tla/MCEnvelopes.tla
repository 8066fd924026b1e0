---------------------------- MODULE MCEnvelopes ----------------------------
(***************************************************************************)
(* A receipt that names its signer and an outcome that names none, two     *)
(* keys, an id for each, and an id that carries a key by itself.           *)
(***************************************************************************)
EXTENDS Envelopes

MCKeyIds == {"ka", "kb", "did"}
MCDidKeys == {"did"}
MCCarriedKey == [key_id \in MCDidKeys |-> "B"]

receipt == [type |-> "action", agent |-> [id |-> "ann", key_id |-> "ka"]]
outcome == [type |-> "outcome"]
MCPayloads == {receipt, outcome}

List(ids, key) == [key_id \in ids |-> key]
MCDirectories == {<< >>, List({"ka"}, "A"), List({"ka"}, "B"), List({"ka", "kb"}, "B")}
=============================================================================
