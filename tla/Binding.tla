------------------------------ MODULE Binding ------------------------------
(***************************************************************************)
(* Binding a receipt to its grant, to the receipt before it and to the     *)
(* outcome after it (src/src/agent_mandates/binding.py).                   *)
(***************************************************************************)
EXTENDS Delegation

\* Mutant: the grant is known by its id alone.
mandate_problems_by_id(mandate, receipt) ==
    When(receipt.mandate_id # mandate.id, "mandate_id_mismatch")
    \cup When(receipt.agent # mandate.agent, "granted_to_another_agent")
    \cup When(receipt.principal # mandate.principal, "granted_by_another_principal")
    \cup When(receipt.issued_at < mandate.issued_at, "action_precedes_mandate")

mandate_problems(mandate, receipt) ==
    When(receipt.mandate_id # mandate.id, "mandate_id_mismatch")
    \cup When(receipt.mandate_hash # digest(mandate), "mandate_hash_mismatch")
    \cup When(receipt.agent # mandate.agent, "granted_to_another_agent")
    \cup When(receipt.principal # mandate.principal, "granted_by_another_principal")
    \cup When(receipt.issued_at < mandate.issued_at, "action_precedes_mandate")

\* Mutant: a refused action may have an outcome.
binding_problems_of_any_decision(receipt, outcome) ==
    When(outcome.receipt_id # receipt.id, "receipt_id_mismatch")
    \cup When(outcome.receipt_hash # digest(receipt), "receipt_hash_mismatch")
    \cup When(outcome.issued_at < receipt.issued_at, "outcome_precedes_action")

binding_problems(receipt, outcome) ==
    When(outcome.receipt_id # receipt.id, "receipt_id_mismatch")
    \cup When(outcome.receipt_hash # digest(receipt), "receipt_hash_mismatch")
    \cup When(outcome.issued_at < receipt.issued_at, "outcome_precedes_action")
    \cup When(receipt.decision = "deny", "action_was_refused")

\* Mutants: the agent is not compared; the predecessor is known by its id; ties are refused.
prev_problems_of_any_agent(earlier, later) ==
    IF later.prev = None THEN {"not_linked"}
    ELSE When(later.prev # earlier.id, "previous_id_mismatch")
         \cup When(later.prev_hash # digest(earlier), "previous_hash_mismatch")
         \cup When(later.issued_at < earlier.issued_at, "out_of_order")

prev_problems_by_id(earlier, later) ==
    IF later.prev = None THEN {"not_linked"}
    ELSE When(later.prev # earlier.id, "previous_id_mismatch")
         \cup When(later.issued_at < earlier.issued_at, "out_of_order")
         \cup When(later.agent # earlier.agent, "different_agent")

prev_problems_on_ties(earlier, later) ==
    IF later.prev = None THEN {"not_linked"}
    ELSE prev_problems_by_id(earlier, later)
         \cup When(later.prev_hash # digest(earlier), "previous_hash_mismatch")
         \cup When(later.issued_at =< earlier.issued_at, "out_of_order")

\* A receipt with no predecessor gets that one entry and no other.
prev_problems(earlier, later) ==
    IF later.prev = None THEN {"not_linked"}
    ELSE When(later.prev # earlier.id, "previous_id_mismatch")
         \cup When(later.prev_hash # digest(earlier), "previous_hash_mismatch")
         \cup When(later.issued_at < earlier.issued_at, "out_of_order")
         \cup When(later.agent # earlier.agent, "different_agent")

\* One entry per position; only a nonempty run can be asked about.
sequence_problems(run) ==
    [i \in 1..Len(run) |->
        IF i = 1 THEN When(run[1].prev # None, "first_is_linked")
                 ELSE prev_problems(run[i - 1], run[i])]

\* `not any(sequence_problems(run))`; the empty run raises, so it is not intact.
Intact(run) == run # << >> /\ \A i \in DOMAIN run : sequence_problems(run)[i] = {}

\* Mutants of receipt_under: the digest leaves the link out, or is the one inside the link.
receipt_under_unlinked(mandate, id, action, decision, issued_at, prev) ==
    [type |-> "action", id |-> id, issued_at |-> issued_at,
     agent |-> mandate.agent, principal |-> mandate.principal, mandate_id |-> mandate.id,
     mandate_hash |-> digest([mandate EXCEPT !.delegated_from = None]),
     action |-> action, decision |-> decision,
     prev |-> IF prev = None THEN None ELSE prev.id,
     prev_hash |-> IF prev = None THEN None ELSE digest(prev)]

receipt_under_parent(mandate, id, action, decision, issued_at, prev) ==
    [receipt_under_unlinked(mandate, id, action, decision, issued_at, prev) EXCEPT
        !.mandate_hash = IF mandate.delegated_from = None THEN digest(mandate)
                         ELSE mandate.delegated_from.mandate_hash]

\* Everything the receipt says about its grant is copied from the grant.
receipt_under(mandate, id, action, decision, issued_at, prev) ==
    [type |-> "action", id |-> id, issued_at |-> issued_at,
     agent |-> mandate.agent, principal |-> mandate.principal,
     mandate_id |-> mandate.id, mandate_hash |-> digest(mandate),
     action |-> action, decision |-> decision,
     prev |-> IF prev = None THEN None ELSE prev.id,
     prev_hash |-> IF prev = None THEN None ELSE digest(prev)]

\* Refused by the code when the receipt records a refusal.
outcome_for(receipt, id, issued_at, detail) ==
    [type |-> "outcome", id |-> id, receipt_id |-> receipt.id,
     receipt_hash |-> digest(receipt), issued_at |-> issued_at, detail |-> detail]
=============================================================================
