------------------------------ MODULE MCVerify ------------------------------
(***************************************************************************)
(* Documents, envelopes and command lines for model-checking               *)
(* VerifyReport.  One honest story -- a bank's grant to ann, passed to     *)
(* bob and on to cyd, an action, an outcome -- and every way of getting    *)
(* one field of it wrong.                                                  *)
(***************************************************************************)
EXTENDS VerifyReport, FiniteSets

MCNames == {"bank", "shop", "ann", "bob", "cyd", "dan"}
MCKeyIds == {"kp", "ka", "kc", "kd", "did:b", "did:bad", "stranger"}
MCDocumentIds == {"m1", "m2", "m3", "m4", "r1", "r0", "o1"}
MCActionTypes == {"pay", "read", "wire"}
MCCurrencies == {"EUR", "USD"}
MCDetails == {"d"}
MCKeys == {"KP", "KA", "KB", "KC", "KD", "KX"}
MCDidKeys == {"did:b", "did:bad"}
MCCarriedKey == [id \in MCDidKeys |-> IF id = "did:b" THEN "KB" ELSE None]

\* Which key its holder signs with.
KeyOf == [kp |-> "KP", ka |-> "KA", kc |-> "KC", kd |-> "KD"]
HeldKey(key_id) == IF key_id = "did:b" THEN "KB"
                   ELSE IF key_id \in DOMAIN KeyOf THEN KeyOf[key_id] ELSE "KX"

bank == [id |-> "bank", type |-> "organization", key_id |-> "kp"]
shop == [id |-> "shop", type |-> "organization", key_id |-> "kp"]
ann == [id |-> "ann", key_id |-> "ka"]
bob == [id |-> "bob", key_id |-> "did:b"]
cyd == [id |-> "cyd", key_id |-> "kc"]
dan == [id |-> "dan", key_id |-> "kd"]

Eur(n) == [amount |-> n, currency |-> "EUR"]
Usd(n) == [amount |-> n, currency |-> "USD"]

root == [type |-> "mandate", id |-> "m1", issued_at |-> 1, principal |-> bank, agent |-> ann,
         scope |-> {"pay", "read"}, expires_at |-> 7, max_value |-> Eur(3),
         delegated_from |-> None]
unlimited == [root EXCEPT !.max_value = None]

child == delegated(root, bob, "m2", 2, {"pay"}, 6, Eur(2))
grandchild(parent) == delegated(parent, cyd, "m3", 3, None, 5, None)
greatgrandchild(parent) == delegated(parent, dan, "m4", 4, None, None, None)

\* The child with one thing wrong at a time, and the ways it may legitimately differ.
Children == {
    child,
    [child EXCEPT !.max_value = Eur(3), !.expires_at = 7, !.scope = {"pay", "read"}],
    [child EXCEPT !.scope = {"pay", "wire"}],
    [child EXCEPT !.expires_at = 8],
    [child EXCEPT !.issued_at = 0],
    [child EXCEPT !.issued_at = 8, !.expires_at = 7],
    [child EXCEPT !.max_value = None],
    [child EXCEPT !.max_value = Usd(1)],
    [child EXCEPT !.max_value = Eur(4)],
    [child EXCEPT !.principal = shop],
    [child EXCEPT !.principal.type = "human"],
    [child EXCEPT !.agent = ann],
    [child EXCEPT !.delegated_from = None],
    [child EXCEPT !.delegated_from.mandate_id = "m4"],
    [child EXCEPT !.delegated_from.mandate_hash = digest(unlimited)],
    [child EXCEPT !.delegated_from.agent = dan],
    delegated(unlimited, bob, "m2", 2, None, None, Eur(9)),
    delegated(unlimited, bob, "m2", 2, None, None, None) }

\* The grandchild, wider than the child but not than the root, back to ann, or ended early.
Grandchildren(parent) == {
    grandchild(parent),
    [grandchild(parent) EXCEPT !.scope = {"pay", "read"}],
    [grandchild(parent) EXCEPT !.max_value = Eur(3)],
    [grandchild(parent) EXCEPT !.expires_at = 7],
    [grandchild(parent) EXCEPT !.agent = ann] }

Chains ==
    {<<r>> : r \in {root, unlimited}}
    \cup {<<r, c>> : r \in {root, unlimited}, c \in Children}
    \cup UNION {{<<r, c, g>> : r \in {root, unlimited}, g \in Grandchildren(c)} : c \in Children}
    \cup {<<child>>, <<child, grandchild(child)>>, <<root, grandchild(child)>>,
          <<root, child, grandchild(child), greatgrandchild(grandchild(child))>>}

Pay(value) == [type |-> "pay", value |-> value, detail |-> "d"]

honest_receipt(grant) == receipt_under(grant, "r1", Pay(Eur(1)), "allow", 4, None)

\* What the last holder did, inside the grant and just outside it.
Receipts(grant) ==
    LET receipt == honest_receipt(grant)
    IN  {receipt,
         [receipt EXCEPT !.action.value = Eur(3)],
         [receipt EXCEPT !.action.value = Usd(1)],
         [receipt EXCEPT !.action.value = None],
         [receipt EXCEPT !.action.type = "wire"],
         [receipt EXCEPT !.action.type = "read", !.decision = "step_up"],
         [receipt EXCEPT !.action.value = Eur(9), !.decision = "deny"],
         [receipt EXCEPT !.issued_at = 7],
         [receipt EXCEPT !.issued_at = 8],
         [receipt EXCEPT !.issued_at = 0],
         [receipt EXCEPT !.agent = dan],
         [receipt EXCEPT !.principal = shop],
         [receipt EXCEPT !.principal.type = "human"],
         [receipt EXCEPT !.mandate_id = "m4"],
         [receipt EXCEPT !.mandate_hash = digest(None)]}

\* The document under the key it names, as its author would sign it.
sealed(document) == LET key_id == required_signer(document)
                    IN  sign(document, key_id, HeldKey(key_id))

\* The label is right and the value is not the author's; dan's good signature stands beside it.
mislabelled(document) ==
    [payload |-> document,
     signatures |-> <<[key_id |-> required_signer(document), value |-> ed25519("KX", document)],
                      Signature("kd", "KD", document)>>]

listing == [kp |-> "KP", ka |-> "KA", kc |-> "KC", kd |-> "KD"]

Invocation(keys, envelope, receipt, grants, require) ==
    [keys |-> keys, envelope |-> envelope, receipt |-> receipt, mandates |-> grants,
     require |-> require]

\* Every chain with every receipt of its last holder, and with one forged link.
ChainInvocations ==
    UNION {{Invocation(listing, sealed(r), None, [i \in DOMAIN c |-> sealed(c[i])], {})
              : r \in Receipts(c[Len(c)])} : c \in Chains}
    \cup {LET c == <<root, child, grandchild(child)>>
          IN  Invocation(listing, sealed(honest_receipt(c[3])), None,
                         [i \in DOMAIN c |-> IF i = f THEN mislabelled(c[i]) ELSE sealed(c[i])], {})
          : f \in 1..3}
    \cup {Invocation(listing, mislabelled(honest_receipt(root)), None, <<sealed(root)>>, {})}
    \cup {Invocation(listing, sealed(honest_receipt(root)), None, <<mislabelled(root)>>, {})}

\* The files of the second run: every kind of document, signed well or badly.
paid == honest_receipt(root)
refused == [paid EXCEPT !.decision = "deny"]
by_bob == honest_receipt(child)
settled(receipt) == outcome_for(receipt, "o1", 5, "d")

SubjectDocuments ==
    {root, child, paid, refused, by_bob, settled(paid), settled(refused),
     [settled(paid) EXCEPT !.issued_at = 3],
     [settled(paid) EXCEPT !.receipt_id = "r0"],
     [settled(paid) EXCEPT !.receipt_hash = digest(refused)]}

\* An outcome is signed by whoever observed it; here that is the bank.
well_signed(document) == IF document.type = "outcome" THEN sign(document, "kp", "KP")
                                                      ELSE sealed(document)

SubjectEnvelopes ==
    {well_signed(d) : d \in SubjectDocuments}
    \cup {sign(settled(paid), "did:b", "KB"), sign(settled(paid), "did:bad", "KX"),
          sign(settled(paid), "stranger", "KX"), sign(settled(paid), "kp", "KX"),
          sign(root, "kd", "KD"), mislabelled(paid), mislabelled(root),
          [payload |-> paid, signatures |-> << >>],
          [payload |-> paid, signatures |-> <<[key_id |-> "ka", value |-> ed25519("KA", refused)]>>],
          add_signature(sealed(paid), "did:b", "KB"), add_signature(sealed(paid), "ka", "KX"),
          Unreadable, Escaping}

ReceiptFiles == {None, Unreadable, Escaping, sealed(paid), sealed(refused), mislabelled(paid), sealed(root)}

GrantFiles == {<< >>, <<sealed(root)>>, <<mislabelled(root)>>, <<Unreadable>>, <<sealed(paid)>>,
               <<sealed(root), sealed(child)>>, <<sealed(root), Unreadable>>, <<sealed(root), Escaping>>}

KeyFiles == {listing, None, Unreadable, Escaping,
             [listing EXCEPT !["kp"] = "KX"],
             [key_id \in {"kp", "ka", "did:b"} |-> IF key_id = "did:b" THEN "KX" ELSE HeldKey(key_id)]}

FileInvocations ==
    {Invocation(k, e, r, m, q) : k \in KeyFiles, e \in SubjectEnvelopes, r \in ReceiptFiles,
                                 m \in GrantFiles, q \in {{}, {"kp"}, {"ka", "did:b"}}}

MCInvocations == ChainInvocations \cup FileInvocations

\* Names, key ids, action types and a target whose text tries to look like the report's own
\* lines.  A target may hold separators but no control or format character.
Unusual ==
    [bank |-> <<"bank", "LF", "result", "VERIFIED", "ESC", ".">>,
     ann |-> <<"ann", "LS", "result", "VERIFIED", "PS", ".">>,
     kp |-> <<"kp", "LRM", "pk">>,
     ka |-> <<"ka", "PS", "result", "NOT VERIFIED", "LF", ".">>,
     stranger |-> <<"x", "ESC", "x">>,
     pay |-> <<"pay", "LF", "scope", "OK", "LF", ".">>,
     d |-> <<"https://shop/", "LS", "result", "VERIFIED">>]

MCSpelling ==
    [id \in MCNames \cup MCKeyIds \cup MCActionTypes \cup MCDetails |->
        IF id \in DOMAIN Unusual THEN Unusual[id] ELSE <<id>>]
=============================================================================
