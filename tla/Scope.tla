------------------------------- MODULE Scope -------------------------------
(***************************************************************************)
(* Checking an action against the grant it was taken under                 *)
(* (src/src/agent_mandates/scope.py).  A report is the set of violations   *)
(* the Python function returns; the empty set means "permitted".           *)
(***************************************************************************)
EXTENDS Documents

\* Mutant: a value that is not stated passes.
value_violations_when_stated(ceiling, value) ==
    IF None \in {ceiling, value} THEN {}
    ELSE When(value.currency # ceiling.currency, "limit_currency_mismatch")
         \cup When(value.currency = ceiling.currency /\ value.amount > ceiling.amount,
                   "value_exceeds_limit")

\* Under a ceiling a value must be stated, in the ceiling's currency, and not above it.
value_violations(ceiling, value) ==
    IF ceiling = None THEN {}
    ELSE IF value = None THEN {"value_not_stated"}
    ELSE When(value.currency # ceiling.currency, "limit_currency_mismatch")
         \cup When(value.currency = ceiling.currency /\ value.amount > ceiling.amount,
                   "value_exceeds_limit")

permits(mandate, action, at) ==
    When(action.type \notin mandate.scope, "action_outside_scope")
    \cup When(at > mandate.expires_at, "mandate_expired")
    \cup value_violations(mandate.max_value, action.value)

scope_violations(mandate, receipt) == permits(mandate, receipt.action, receipt.issued_at)

\* Mutant: an escalated action is taken for one that did not go ahead.
allowed_outright_beyond_mandate(mandate, receipt) ==
    /\ scope_violations(mandate, receipt) # {}
    /\ receipt.decision = "allow"

\* Going beyond the grant is a failure only when the receipt does not record a refusal.
allowed_beyond_mandate(mandate, receipt) ==
    /\ scope_violations(mandate, receipt) # {}
    /\ receipt.decision # "deny"
=============================================================================
