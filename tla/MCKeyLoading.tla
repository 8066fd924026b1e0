---------------------------- MODULE MCKeyLoading ----------------------------
(***************************************************************************)
(* Directories of up to three entries, any of them defective in any of the *)
(* ways an entry can be, over a plain id, a did:key and a malformed one.   *)
(***************************************************************************)
EXTENDS KeyLoading

MCKeyIds == {"plain", "did", "bad did"}
MCDidKeys == {"did", "bad did"}
MCCarriedKey == [key_id \in MCDidKeys |-> IF key_id = "did" THEN "K" ELSE None]

Good == {[kid |-> key_id, type |-> "OKP Ed25519", x |-> key] : key_id \in KeyIds, key \in Keys}
Defective ==
    {NoObject, [kid |-> None, type |-> "OKP Ed25519", x |-> "K"],
     [kid |-> "plain", type |-> None, x |-> "K"], [kid |-> "plain", type |-> "OKP Ed25519", x |-> None]}
Entries == Good \cup Defective

MCFiles ==
    {Unreadable, TooDeep, << >>} \cup {<<e>> : e \in Entries} \cup (Entries \X Entries)
    \cup (Entries \X Entries \X Entries)
=============================================================================
