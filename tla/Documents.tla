----------------------------- MODULE Documents -----------------------------
(***************************************************************************)
(* The three signed documents of agent-mandates, from                      *)
(* src/src/agent_mandates/models.py, and the digest that binds one to      *)
(* another, from binding.py.                                               *)
(*                                                                         *)
(* A document is a record with the field names of its pydantic model.  The *)
(* fields no check compares -- an action's target and params_hash, a       *)
(* decision's reasons, an outcome's status, resolution, loss and evidence  *)
(* -- are one opaque field `detail`: they matter only because they change  *)
(* the digest.                                                             *)
(*                                                                         *)
(* A digest is symbolic.  SHA-256 over canonical bytes is taken to be      *)
(* collision free, so the digest of a document is a term that contains the *)
(* document: equal digests mean equal content, and a document can only     *)
(* commit to one whose whole content somebody could already write down.    *)
(***************************************************************************)
EXTENDS Integers, Sequences

CONSTANTS
    None,          \* an optional field that is absent
    Names,         \* ids of agents and principals
    KeyIds,        \* key identifiers, did:key identifiers among them
    DocumentIds,   \* mandate, receipt and outcome ids
    ActionTypes,   \* what an action can be and what a scope lists
    Currencies,
    Details        \* content that only the digest sees

ASSUME AbsentAssumption == None \notin DocumentIds

Timestamp == Int   \* milliseconds; only their order is ever compared

Money == [amount : Nat, currency : Currencies]

Agent == [id : Names, key_id : KeyIds]

PrincipalType == {"human", "organization"}

Principal == [id : Names, type : PrincipalType, key_id : KeyIds]

Action == [type : ActionTypes, value : Money \cup {None}, detail : Details]

DecisionOutcome == {"allow", "deny", "step_up"}

(***************************************************************************)
(* A digest commits to content.  mandate_digest and receipt_digest are the *)
(* same function of the canonical bytes.                                   *)
(***************************************************************************)
digest(document) == <<"sha256", document>>

\* A link names the parent, commits to it and says who is delegating.
DelegationLink(mandate_id, mandate_hash, agent) ==
    [mandate_id |-> mandate_id, mandate_hash |-> mandate_hash, agent |-> agent]

IsDelegationLink(link) ==
    link = DelegationLink(link.mandate_id, link.mandate_hash, link.agent)

(***************************************************************************)
(* What the models accept.  A scope is a nonempty set: duplicates are      *)
(* dropped and the order is fixed, so the tuple in the code is one.        *)
(***************************************************************************)
IsMandate(document) ==
    /\ document.type = "mandate"
    /\ document.id \in DocumentIds
    /\ document.issued_at \in Timestamp
    /\ document.principal \in Principal
    /\ document.agent \in Agent
    /\ document.scope \in (SUBSET ActionTypes) \ {{}}
    /\ document.expires_at \in Timestamp
    /\ document.max_value \in Money \cup {None}
    /\ \/ document.delegated_from = None
       \/ /\ IsDelegationLink(document.delegated_from)
          /\ document.delegated_from.mandate_id \in DocumentIds
          /\ document.delegated_from.agent \in Agent

\* prev and prev_hash are set together or not at all.
link_is_complete(document) == (document.prev = None) <=> (document.prev_hash = None)

IsReceipt(document) ==
    /\ document.type = "action"
    /\ document.id \in DocumentIds
    /\ document.issued_at \in Timestamp
    /\ document.agent \in Agent
    /\ document.principal \in Principal
    /\ document.mandate_id \in DocumentIds
    /\ document.action \in Action
    /\ document.decision \in DecisionOutcome
    /\ document.prev \in DocumentIds \cup {None}
    /\ link_is_complete(document)

IsOutcome(document) ==
    /\ document.type = "outcome"
    /\ document.id \in DocumentIds
    /\ document.receipt_id \in DocumentIds
    /\ document.issued_at \in Timestamp
    /\ document.detail \in Details

IsDocument(document) == IsMandate(document) \/ IsReceipt(document) \/ IsOutcome(document)

\* A tuple of anything, as the command line and an envelope hold them.
IsSequence(s) == s \in Seq({s[i] : i \in DOMAIN s})

\* How the code collects a report: one entry per condition that holds.
When(condition, entry) == IF condition THEN {entry} ELSE {}
=============================================================================
