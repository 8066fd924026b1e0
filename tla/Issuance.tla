------------------------------ MODULE Issuance ------------------------------
(***************************************************************************)
(* Principals, agents and observers issuing documents over time.  Whoever  *)
(* uses the library calls delegate() (delegation.py), permits() (scope.py),*)
(* receipt_under() and outcome_for() (binding.py); nothing ties the calls  *)
(* of one agent to those of another, and nothing stops somebody from       *)
(* writing a grant by hand.  Ids and dates are the caller's: an id may be  *)
(* taken already and a grant dated before the grant it came out of.        *)
(*                                                                         *)
(* A grant is made first and published later, if at all: whoever can say   *)
(* what a grant will hold can hash it, so that a grant may be published    *)
(* before the one it commits to.  What has been published stays.           *)
(***************************************************************************)
EXTENDS Authority, FiniteSets

LOCAL INSTANCE FiniteSetsExt

CONSTANTS
    Principals, Agents,
    MandateIds, ReceiptIds, OutcomeIds,
    Scopes,         \* the scopes a grant may be given
    Ceilings,       \* the ceilings a grant may be given, None among them
    Actions,        \* what an agent may want to do
    Dates,          \* the dates that may be put on a grant
    Horizon,        \* the last tick of the clock
    MaxMandates, MaxReceipts, MaxOutcomes,   \* bounds on what is made
    MaxCleared                               \* and on what is asked and not yet done

ASSUME IssuanceAssumption ==
    /\ Principals \subseteq Principal
    /\ Agents \subseteq Agent
    /\ MandateIds \cup ReceiptIds \cup OutcomeIds \subseteq DocumentIds
    /\ Scopes \subseteq (SUBSET ActionTypes) \ {{}}
    /\ Ceilings \subseteq Money \cup {None}
    /\ Actions \subseteq Action
    /\ Dates \subseteq Timestamp
    /\ {Horizon, MaxMandates, MaxReceipts, MaxOutcomes, MaxCleared} \subseteq Nat

VARIABLES
    clock,
    drafts,         \* the grants somebody has made, or foreseen
    mandates,       \* the ones that have been published
    delegations,    \* <<parent, child>> pairs that delegate() returned
    cleared,        \* <<agent's grant, action>> that permits() said yes to, not yet recorded
    receipts,
    asked,          \* the receipts recorded for an action that had been cleared
    outcomes

vars == <<clock, drafts, mandates, delegations, cleared, receipts, asked, outcomes>>

Times == 0..Horizon

Init ==
    /\ clock = 0
    /\ drafts = {}
    /\ mandates = {}
    /\ delegations = {}
    /\ cleared = {}
    /\ receipts = {}
    /\ asked = {}
    /\ outcomes = {}

Tick ==
    /\ clock < Horizon
    /\ clock' = clock + 1
    /\ UNCHANGED <<drafts, mandates, delegations, cleared, receipts, asked, outcomes>>

Room == Cardinality(drafts) < MaxMandates

Make(mandate) ==
    /\ mandate \notin drafts
    /\ drafts' = drafts \cup {mandate}
    /\ UNCHANGED <<clock, mandates, cleared, receipts, asked, outcomes>>

\* A principal makes a grant: the Mandate constructor, which relates no two of its fields.
Grant ==
    /\ Room
    /\ \E principal \in Principals, agent \in Agents, id \in MandateIds, issued_at \in Dates,
          scope \in Scopes, expires_at \in Dates, ceiling \in Ceilings :
        Make([type |-> "mandate", id |-> id, issued_at |-> issued_at,
              principal |-> principal, agent |-> agent, scope |-> scope,
              expires_at |-> expires_at, max_value |-> ceiling,
              delegated_from |-> None])
    /\ UNCHANGED delegations

\* The holder of a grant passes some of it on with delegate(), which refuses what would not hold.
Delegate ==
    /\ Room
    /\ \E parent \in drafts, to \in Agents, id \in MandateIds, issued_at \in Dates,
          scope \in Scopes \cup {None}, expires_at \in Dates \cup {None}, ceiling \in Ceilings :
        LET child == delegated(parent, to, id, issued_at, scope, expires_at, ceiling)
        IN  /\ ~ delegate_refuses(parent, child)
            /\ Make(child)
            /\ delegations' = delegations \cup {<<parent, child>>}

\* The delegated grants that differ from this one in at most one field.
OneErrorAway(child) ==
    {[child EXCEPT !.delegated_from.mandate_id = id] : id \in MandateIds}
    \cup {[child EXCEPT !.delegated_from.mandate_hash = digest(m)] : m \in drafts}
    \cup {[child EXCEPT !.delegated_from.agent = agent] : agent \in Agents}
    \cup {[child EXCEPT !.principal = principal] : principal \in Principals}
    \cup {[child EXCEPT !.expires_at = time] : time \in Dates}
    \cup {[child EXCEPT !.scope = scope] : scope \in Scopes}
    \cup {[child EXCEPT !.max_value = ceiling] : ceiling \in Ceilings}

\* Somebody writes a delegated grant with the constructor instead: nothing refuses it.
WriteByHand ==
    /\ Room
    /\ \E parent \in drafts, to \in Agents, id \in MandateIds, issued_at \in Dates :
          \E child \in OneErrorAway(delegated(parent, to, id, issued_at, None, None, None)) :
             Make(child)
    /\ UNCHANGED delegations

\* Grants are published in any order, or never.
Publish ==
    \E mandate \in drafts \ mandates :
        /\ mandates' = mandates \cup {mandate}
        /\ UNCHANGED <<clock, drafts, delegations, cleared, receipts, asked, outcomes>>

\* An agent asks its own grant before it acts.
Ask ==
    \E grant \in mandates, action \in Actions :
        /\ Cardinality(cleared) < MaxCleared
        /\ permits(grant, action, clock) = {}
        /\ cleared' = cleared \cup {<<grant, action>>}
        /\ UNCHANGED <<clock, drafts, mandates, delegations, receipts, asked, outcomes>>

\* It records what it did with receipt_under(), having asked or not, linked to any earlier one.
Record ==
    \E grant \in mandates, action \in Actions, decision \in DecisionOutcome,
       id \in ReceiptIds, prev \in receipts \cup {None} :
        LET receipt == receipt_under(grant, id, action, decision, clock, prev)
        IN  /\ Cardinality(receipts) < MaxReceipts
            /\ receipt \notin receipts
            /\ receipts' = receipts \cup {receipt}
            /\ IF <<grant, action>> \in cleared
               THEN /\ cleared' = cleared \ {<<grant, action>>}
                    /\ asked' = asked \cup {receipt}
               ELSE UNCHANGED <<cleared, asked>>
            /\ UNCHANGED <<clock, drafts, mandates, delegations, outcomes>>

\* An observer reports what came of it; outcome_for() refuses a refused action.
Report ==
    \E receipt \in receipts, id \in OutcomeIds, detail \in Details :
        LET outcome == outcome_for(receipt, id, clock, detail)
        IN  /\ receipt.decision # "deny"
            /\ Cardinality(outcomes) < MaxOutcomes
            /\ outcome \notin outcomes
            /\ outcomes' = outcomes \cup {outcome}
            /\ UNCHANGED <<clock, drafts, mandates, delegations, cleared, receipts, asked>>

Next == Tick \/ Grant \/ Delegate \/ WriteByHand \/ Publish \/ Ask \/ Record \/ Report

Spec == Init /\ [][Next]_vars

-----------------------------------------------------------------------------
(***************************************************************************)
(* Properties.                                                             *)
(***************************************************************************)

\* Documents are well formed, and everything a receipt or an outcome commits to is published.
TypeOK ==
    /\ clock \in Times
    /\ \A m \in drafts : IsMandate(m)
    /\ mandates \subseteq drafts
    /\ \A r \in receipts : IsReceipt(r)
    /\ \A o \in outcomes : IsOutcome(o)
    /\ delegations \subseteq drafts \X drafts
    /\ cleared \subseteq mandates \X Actions
    /\ asked \subseteq receipts
    /\ \A r \in receipts : \E m \in mandates : r.mandate_hash = digest(m)
    /\ \A o \in outcomes : \E r \in receipts : o.receipt_hash = digest(r)

\* The chains and the runs that can be put together out of what has been published and hold.
SoundChains == SoundChainsOf(mandates)

IntactRuns == IntactRunsOf(receipts, MaxReceipts)

\* Although grants may share ids and may be written by hand, at most one chain that
\* chain_problems accepts leads to a grant: who answers for it is never a matter of choice.
OneChainToAGrant ==
    \A c, d \in SoundChains : last(c) = last(d) => c = d

\* chain_problems compares neighbours, and in a chain it accepts each grant is narrower than
\* every grant above it, whoever wrote the ones in between.
SoundChainsNarrow ==
    \A c \in SoundChains : \A i, j \in DOMAIN c : i < j => Narrower(c[j], c[i])

\* delegate() checks one link, and that is enough for the chain: what it returns extends any
\* sound chain to its parent, as long as the agent is new to it and there is room.
DelegateExtendsChains ==
    \A c \in SoundChains, pair \in delegations :
        /\ last(c) = pair[1]
        /\ Len(c) < MAX_CHAIN_DEPTH
        /\ \A i \in DOMAIN c : c[i].agent # pair[2].agent
        => Sound(Append(c, pair[2]))

\* The grants in force are books that are kept as they should be: what is published next is a
\* principal's own grant, or a narrower one out of a standing grant, and brings with it no more
\* than the grants that were made out of it in advance; or it stands for nothing.
Books == INSTANCE Ledger WITH
    roots <- {m \in mandates : m.delegated_from = None},
    standing <- {last(c) : c \in SoundChains}

KeepsTheBooks == Books!Spec

\* The trail back from an outcome does not fork: one receipt, one grant and one story of the
\* calls before it, however many documents share their ids.
TrailDoesNotFork ==
    /\ \A o \in outcomes, r, s \in receipts :
          binding_problems(r, o) = {} /\ binding_problems(s, o) = {} => r = s
    /\ \A r \in receipts, m, n \in mandates :
          mandate_problems(m, r) = {} /\ mandate_problems(n, r) = {} => m = n
    /\ \A c, d \in IntactRuns : last(c) = last(d) => c = d

\* An honest agent that asks first is found at fault for dates only: it recorded the action
\* after the grant had run out, or the grant it holds is dated later than its use -- permits()
\* looks at the expiry and not at the date of the grant.  Nothing else can come between.
OnlyDatesComeBetween ==
    \A r \in asked : \E m \in mandates :
        /\ mandate_problems(m, r) \subseteq {"action_precedes_mandate"}
        /\ scope_violations(m, r) \subseteq {"mandate_expired"}

\* And when the dates are right, asking the one grant it holds was asking all of them: the
\* action it recorded is inside every grant of any sound chain to the one it acted under.
AskedIsCovered ==
    \A r \in asked, c \in SoundChains :
        mandate_problems(last(c), r) = {} /\ r.issued_at =< last(c).expires_at =>
            \A i \in DOMAIN c : Covers(c[i], r.action, r.issued_at)

-----------------------------------------------------------------------------
(***************************************************************************)
(* What the documentation says, and the code does not do.                  *)
(***************************************************************************)

Amount(receipt) == IF receipt.action.value = None THEN 0 ELSE receipt.action.value.amount

Spent(grant) ==
    MapThenSumSet(Amount,
                  {r \in asked : r.mandate_hash = digest(grant) /\ r.decision = "allow"})

\* README.md: asking first catches "a job retried until it drained a budget".  A retry asks
\* before every call, every call is within the ceiling, and the calls together are not.
BudgetNotDrained ==
    \A m \in mandates : m.max_value # None => Spent(m) =< m.max_value.amount

\* delegation.py: delegate() is "Checked against everything a verifier will check".
DelegateChecksEverything ==
    \A c \in SoundChains, pair \in delegations :
        last(c) = pair[1] => Sound(Append(c, pair[2]))

\* signing.py: a grant's required signer "is never the agent receiving it".
NeverSignedByItsReceiver ==
    \A m \in mandates : required_signer(m) # m.agent.key_id
=============================================================================
