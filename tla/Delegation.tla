---------------------------- MODULE Delegation -----------------------------
(***************************************************************************)
(* Passing authority from agent to agent                                   *)
(* (src/src/agent_mandates/delegation.py).  A chain is a sequence of       *)
(* mandates, root first.                                                   *)
(***************************************************************************)
EXTENDS Scope

CONSTANT MAX_CHAIN_DEPTH   \* 8 in the code

ASSUME DepthAssumption == MAX_CHAIN_DEPTH \in Nat \ {0}

\* Mutant: a ceiling that is left out is taken for a ceiling left alone.
ceiling_problems_when_stated(parent, child) ==
    IF None \in {parent, child} THEN {}
    ELSE When(child.currency # parent.currency, "ceiling_currency_changed")
         \cup When(child.currency = parent.currency /\ child.amount > parent.amount,
                   "ceiling_raised")

\* A ceiling may be lowered or introduced, never removed, raised or converted.
ceiling_problems(parent, child) ==
    IF parent = None THEN {}
    ELSE IF child = None THEN {"ceiling_removed"}
    ELSE When(child.currency # parent.currency, "ceiling_currency_changed")
         \cup When(child.currency = parent.currency /\ child.amount > parent.amount,
                   "ceiling_raised")

\* Mutant: the expiry is not compared.
attenuation_without_expiry(parent, child) ==
    When(~ (child.scope \subseteq parent.scope), "scope_widened")
    \cup ceiling_problems(parent.max_value, child.max_value)

attenuation_problems(parent, child) ==
    When(~ (child.scope \subseteq parent.scope), "scope_widened")
    \cup When(child.expires_at > parent.expires_at, "expiry_extended")
    \cup ceiling_problems(parent.max_value, child.max_value)

\* Mutant: the parent is known by its id alone.
link_problems_by_id(parent, child, link) ==
    When(link.mandate_id # parent.id, "parent_id_mismatch")
    \cup When(link.agent # parent.agent, "delegator_was_not_the_grantee")
    \cup When(child.principal # parent.principal, "principal_changed")
    \cup When(child.issued_at < parent.issued_at, "delegated_before_its_grant")
    \cup When(child.issued_at > parent.expires_at, "delegated_after_its_grant_expired")

\* The link's own problems: what it names, who passes it on, and when.
link_problems(parent, child, link) ==
    When(link.mandate_id # parent.id, "parent_id_mismatch")
    \cup When(link.mandate_hash # digest(parent), "parent_hash_mismatch")
    \cup When(link.agent # parent.agent, "delegator_was_not_the_grantee")
    \cup When(child.principal # parent.principal, "principal_changed")
    \cup When(child.issued_at < parent.issued_at, "delegated_before_its_grant")
    \cup When(child.issued_at > parent.expires_at, "delegated_after_its_grant_expired")

\* A grant with no link gets that one entry and no other.
delegation_problems(parent, child) ==
    IF child.delegated_from = None THEN {"not_delegated"}
    ELSE link_problems(parent, child, child.delegated_from)
         \cup attenuation_problems(parent, child)

\* Mutants: any first grant will do; agents are compared with their neighbours only.
root_problems_of_any_start(chain) ==
    When(Len(chain) > MAX_CHAIN_DEPTH, "chain_too_deep")
    \cup When(\E i, j \in 1..Len(chain) : i < j /\ chain[i].agent = chain[j].agent,
              "agent_appears_twice")

root_problems_of_neighbours(chain) ==
    When(chain[1].delegated_from # None, "root_is_delegated")
    \cup When(Len(chain) > MAX_CHAIN_DEPTH, "chain_too_deep")
    \cup When(\E i \in 1..(Len(chain) - 1) : chain[i].agent = chain[i + 1].agent,
              "agent_appears_twice")

\* Entry zero of chain_problems: problems of the chain as a whole.
root_problems(chain) ==
    When(chain[1].delegated_from # None, "root_is_delegated")
    \cup When(Len(chain) > MAX_CHAIN_DEPTH, "chain_too_deep")
    \cup When(\E i, j \in 1..Len(chain) : i < j /\ chain[i].agent = chain[j].agent,
              "agent_appears_twice")

\* One entry per position; only a nonempty chain can be asked about.
chain_problems(chain) ==
    [i \in 1..Len(chain) |->
        IF i = 1 THEN root_problems(chain) ELSE delegation_problems(chain[i - 1], chain[i])]

\* `not any(chain_problems(chain))`; the empty chain raises, so it is not sound.
Sound(chain) == chain # << >> /\ \A i \in DOMAIN chain : chain_problems(chain)[i] = {}

accountable_principal(chain) == chain[1].principal

(***************************************************************************)
(* delegate() fills in what the caller leaves out from the parent, builds  *)
(* the link itself and refuses the result when delegation_problems finds   *)
(* anything; delegate_refuses is that guard.                               *)
(***************************************************************************)
delegated(parent, to, id, issued_at, scope, expires_at, max_value) ==
    [type |-> "mandate", id |-> id, issued_at |-> issued_at,
     principal |-> parent.principal, agent |-> to,
     scope |-> IF scope = None THEN parent.scope ELSE scope,
     expires_at |-> IF expires_at = None THEN parent.expires_at ELSE expires_at,
     max_value |-> IF max_value = None THEN parent.max_value ELSE max_value,
     delegated_from |-> DelegationLink(parent.id, digest(parent), parent.agent)]

\* Mutant: only what the grant conveys is checked, not when it was passed on.
delegate_refuses_widening(parent, child) == attenuation_problems(parent, child) # {}

delegate_refuses(parent, child) == delegation_problems(parent, child) # {}
=============================================================================
