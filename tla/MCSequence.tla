----------------------------- MODULE MCSequence -----------------------------
(***************************************************************************)
(* Runs of receipts for model-checking SequenceReport: three calls ann     *)
(* made, a second story she could tell about the third, receipts that were *)
(* altered, and every sequence of up to three of them.                     *)
(***************************************************************************)
EXTENDS SequenceReport, FiniteSets

MCNames == {"bank", "ann", "bob"}
MCKeyIds == {"kp", "ka", "did:b", "did:bad"}
MCDocumentIds == {"m1", "r1", "r2", "r3"}
MCActionTypes == {"pay"}
MCCurrencies == {"EUR"}
MCDetails == {"d", "e"}
MCKeys == {"KP", "KA", "KB", "KX"}
MCDidKeys == {"did:b", "did:bad"}
MCCarriedKey == [id \in MCDidKeys |-> IF id = "did:b" THEN "KB" ELSE None]

ann == [id |-> "ann", key_id |-> "ka"]
bob == [id |-> "bob", key_id |-> "did:b"]
HeldKey(key_id) == IF key_id = "ka" THEN "KA" ELSE IF key_id = "did:b" THEN "KB" ELSE "KP"

grant(who) == [type |-> "mandate", id |-> "m1", issued_at |-> 0,
               principal |-> [id |-> "bank", type |-> "organization", key_id |-> "kp"],
               agent |-> who,
               scope |-> {"pay"}, expires_at |-> 9, max_value |-> None,
               delegated_from |-> None]

Pay(detail) == [type |-> "pay", value |-> None, detail |-> detail]

acted(who, id, at, prev) == receipt_under(grant(who), id, Pay("d"), "allow", at, prev)

first == acted(ann, "r1", 1, None)
second == acted(ann, "r2", 2, first)
third == acted(ann, "r3", 3, second)

\* The same call told differently: another content, another predecessor, another date, agent.
altered == [first EXCEPT !.action.detail = "e"]
Told == {first, second, third, altered,
         acted(ann, "r3", 3, first),
         acted(ann, "r3", 2, second),
         acted(ann, "r2", 2, altered),
         acted(ann, "r2", 0, first),
         [second EXCEPT !.prev = "r3"],
         [acted(bob, "r2", 2, first) EXCEPT !.issued_at = 2],
         acted(ann, "r2", 2, None)}

sealed(receipt) == sign(receipt, receipt.agent.key_id, HeldKey(receipt.agent.key_id))
mislabelled(receipt) ==
    [payload |-> receipt,
     signatures |-> <<Signature("ka", "KX", receipt), Signature("did:b", "KB", receipt)>>]

Files ==
    {sealed(r) : r \in Told}
    \cup {mislabelled(first), mislabelled(second), sign(grant(ann), "kp", "KP"),
          Unreadable, Escaping}

listing == [ka |-> "KA", kp |-> "KP"]

Runs(keys) == {[keys |-> keys, envelopes |-> s] :
                  s \in UNION {[1..n -> Files] : n \in 1..3}}

MCInvocations ==
    Runs(listing)
    \cup {[keys |-> k, envelopes |-> <<sealed(first), sealed(second)>>] :
            k \in {None, Unreadable, Escaping, [ka |-> "KX"],
                   [id \in {"ka", "did:b"} |-> "KA"], [id \in {"ka", "did:bad"} |-> "KA"]}}

\* A name and a key id whose text tries to look like the report's own lines.
Unusual ==
    [ann |-> <<"ann", "LS", "result", "VERIFIED", "PS", ".">>,
     ka |-> <<"ka", "LF", "result", "VERIFIED", "ESC", ".">>]

MCSpelling ==
    [id \in MCNames \cup MCKeyIds \cup MCActionTypes \cup MCDetails |->
        IF id \in DOMAIN Unusual THEN Unusual[id] ELSE <<id>>]
=============================================================================
