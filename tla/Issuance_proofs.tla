-------------------------- MODULE Issuance_proofs ---------------------------
(***************************************************************************)
(* What holds of everything that has been published, whoever published it  *)
(* and in whatever order, for any number of principals, agents, ids and    *)
(* documents.                                                              *)
(*                                                                         *)
(* One invariant, IInv, carries every theorem.  Of the grants it says only *)
(* that they are well formed: what holds of the chains, holds of the       *)
(* chains of any set of grants, because a link commits to the whole grant  *)
(* above it (Authority_proofs).  A receipt, which the library links to one *)
(* there is, can only be the last of a run.                                *)
(***************************************************************************)
EXTENDS Handover, Authority_proofs

\* The grants: well formed, whether published yet or not.
GrantsOK == (\A m \in drafts : IsMandate(m)) /\ mandates \subseteq drafts

\* A receipt in all but the rule that prev and prev_hash come together, which would take
\* an assumption about None.
HasReceiptFields(r) ==
    /\ r.type = "action"
    /\ r.id \in DocumentIds
    /\ r.issued_at \in Timestamp
    /\ r.agent \in Agent
    /\ r.principal \in Principal
    /\ r.mandate_id \in DocumentIds
    /\ r.action \in Action
    /\ r.decision \in DecisionOutcome
    /\ r.prev \in DocumentIds \cup {None}

\* The receipts: well formed, committed to what is there, in runs that do not meet.
ReceiptsOK ==
    /\ \A r \in receipts : HasReceiptFields(r)
    /\ \A r \in receipts : \E m \in mandates : r.mandate_hash = digest(m)
    /\ PrevCommitted(receipts)
    /\ OneRun(receipts, MaxReceipts)

OutcomesOK ==
    /\ \A o \in outcomes : IsOutcome(o)
    /\ \A o \in outcomes : \E r \in receipts : o.receipt_hash = digest(r)

\* delegate() returned nothing that a verifier would object to.
DelegationsOK ==
    /\ delegations \subseteq drafts \X drafts
    /\ \A pair \in delegations : delegation_problems(pair[1], pair[2]) = {}

\* Neither a scope nor a ceiling changes between asking and recording.
ClearedOK ==
    /\ cleared \subseteq mandates \X Actions
    /\ \A pair \in cleared :
          /\ pair[2].type \in pair[1].scope
          /\ value_violations(pair[1].max_value, pair[2].value) = {}

AskedOK == asked \subseteq receipts /\ OnlyDatesComeBetween

IInv ==
    /\ clock \in Times
    /\ GrantsOK
    /\ ReceiptsOK
    /\ OutcomesOK
    /\ DelegationsOK
    /\ ClearedOK
    /\ AskedOK

-----------------------------------------------------------------------------
(***************************************************************************)
(* New grants.                                                             *)
(***************************************************************************)

LEMMA TimesAreTimestamps == \A t \in Times : t \in Timestamp
BY IssuanceAssumption DEF Times, Timestamp

LEMMA PublishedAreMandates == GrantsOK => \A m \in mandates : IsMandate(m)
BY DEF GrantsOK

LEMMA GrantIsMandate ==
    ASSUME NEW principal \in Principals, NEW agent \in Agents, NEW id \in MandateIds,
           NEW scope \in Scopes, NEW issued_at \in Dates, NEW expires_at \in Dates,
           NEW ceiling \in Ceilings, NEW m,
           m = [type |-> "mandate", id |-> id, issued_at |-> issued_at,
                principal |-> principal, agent |-> agent, scope |-> scope,
                expires_at |-> expires_at, max_value |-> ceiling, delegated_from |-> None]
    PROVE  IsMandate(m)
BY IssuanceAssumption DEF IsMandate

LEMMA DelegatedIsMandate ==
    ASSUME NEW parent, IsMandate(parent), NEW to \in Agents, NEW id \in MandateIds,
           NEW issued_at \in Dates, NEW scope \in Scopes \cup {None},
           NEW expires_at \in Dates \cup {None}, NEW ceiling \in Ceilings
    PROVE  IsMandate(delegated(parent, to, id, issued_at, scope, expires_at, ceiling))
<1> DEFINE child == delegated(parent, to, id, issued_at, scope, expires_at, ceiling)
<1>1. /\ child.type = "mandate" /\ child.id \in DocumentIds /\ child.issued_at \in Timestamp
      /\ child.principal \in Principal /\ child.agent \in Agent
  BY IssuanceAssumption DEF IsMandate, delegated
<1>2. child.scope \in (SUBSET ActionTypes) \ {{}}
  BY IssuanceAssumption DEF IsMandate, delegated
<1>3. child.expires_at \in Timestamp
  BY IssuanceAssumption DEF IsMandate, delegated
<1>4. child.max_value \in Money \cup {None}
  BY IssuanceAssumption DEF IsMandate, delegated
<1>5. /\ IsDelegationLink(child.delegated_from)
      /\ child.delegated_from.mandate_id \in DocumentIds
      /\ child.delegated_from.agent \in Agent
  BY DEF IsMandate, delegated, DelegationLink, IsDelegationLink
<1> HIDE DEF child
<1>6. IsMandate(child)
  BY <1>1, <1>2, <1>3, <1>4, <1>5 DEF IsMandate
<1> QED
  BY <1>6 DEF child

\* A grant that is written by hand is still a grant.
LEMMA HandWrittenIsMandate ==
    ASSUME GrantsOK, NEW parent \in drafts, NEW to \in Agents, NEW id \in MandateIds,
           NEW issued_at \in Dates,
           NEW child \in OneErrorAway(delegated(parent, to, id, issued_at, None, None, None))
    PROVE  IsMandate(child)
<1> DEFINE base == [type |-> "mandate", id |-> id, issued_at |-> issued_at,
                    principal |-> parent.principal, agent |-> to, scope |-> parent.scope,
                    expires_at |-> parent.expires_at, max_value |-> parent.max_value,
                    delegated_from |-> [mandate_id |-> parent.id,
                                        mandate_hash |-> digest(parent),
                                        agent |-> parent.agent]]
<1>1. delegated(parent, to, id, issued_at, None, None, None) = base
  BY DEF delegated, DelegationLink
<1>2. IsMandate(parent) /\ \A m \in drafts : IsMandate(m)
  BY DEF GrantsOK
<1>3. /\ parent.id \in DocumentIds /\ parent.principal \in Principal /\ parent.agent \in Agent
      /\ parent.scope \in (SUBSET ActionTypes) \ {{}} /\ parent.expires_at \in Timestamp
      /\ parent.max_value \in Money \cup {None}
  BY <1>2 DEF IsMandate
<1>4. to \in Agent /\ id \in DocumentIds /\ issued_at \in Timestamp
  BY IssuanceAssumption
<1>5. \/ \E x \in MandateIds : child = [base EXCEPT !.delegated_from.mandate_id = x]
      \/ \E m \in drafts : child = [base EXCEPT !.delegated_from.mandate_hash = digest(m)]
      \/ \E x \in Agents : child = [base EXCEPT !.delegated_from.agent = x]
      \/ \E x \in Principals : child = [base EXCEPT !.principal = x]
      \/ \E x \in Dates : child = [base EXCEPT !.expires_at = x]
      \/ \E x \in Scopes : child = [base EXCEPT !.scope = x]
      \/ \E x \in Ceilings : child = [base EXCEPT !.max_value = x]
  <2> HIDE DEF base
  <2>1. child \in OneErrorAway(base)
    BY <1>1
  <2> QED
    BY <2>1 DEF OneErrorAway
<1>6. ASSUME NEW x \in MandateIds, child = [base EXCEPT !.delegated_from.mandate_id = x]
      PROVE  IsMandate(child)
  BY <1>3, <1>4, <1>6, IssuanceAssumption
     DEF IsMandate, IsDelegationLink, DelegationLink
<1>7. ASSUME NEW m \in drafts, child = [base EXCEPT !.delegated_from.mandate_hash = digest(m)]
      PROVE  IsMandate(child)
  BY <1>3, <1>4, <1>7 DEF IsMandate, IsDelegationLink, DelegationLink
<1>8. ASSUME NEW x \in Agents, child = [base EXCEPT !.delegated_from.agent = x]
      PROVE  IsMandate(child)
  BY <1>3, <1>4, <1>8, IssuanceAssumption
     DEF IsMandate, IsDelegationLink, DelegationLink
<1>9. ASSUME NEW x \in Principals, child = [base EXCEPT !.principal = x]
      PROVE  IsMandate(child)
  BY <1>3, <1>4, <1>9, IssuanceAssumption
     DEF IsMandate, IsDelegationLink, DelegationLink
<1>10. ASSUME NEW x \in Dates, child = [base EXCEPT !.expires_at = x]
       PROVE  IsMandate(child)
  BY <1>3, <1>4, <1>10, IssuanceAssumption
     DEF IsMandate, IsDelegationLink, DelegationLink
<1>11. ASSUME NEW x \in Scopes, child = [base EXCEPT !.scope = x]
       PROVE  IsMandate(child)
  BY <1>3, <1>4, <1>11, IssuanceAssumption
     DEF IsMandate, IsDelegationLink, DelegationLink
<1>12. ASSUME NEW x \in Ceilings, child = [base EXCEPT !.max_value = x]
       PROVE  IsMandate(child)
  BY <1>3, <1>4, <1>12, IssuanceAssumption
     DEF IsMandate, IsDelegationLink, DelegationLink
<1> QED
  BY <1>5, <1>6, <1>7, <1>8, <1>9, <1>10, <1>11, <1>12

\* One grant is made, well formed.
Fits == \E m : Make(m) /\ IsMandate(m)

\* A grant that fits, however it was made, keeps the invariant.
LEMMA MakeStep ==
    ASSUME IInv, Fits, DelegationsOK'
    PROVE  IInv'
<1> PICK m : Make(m) /\ IsMandate(m)
  BY DEF Fits
<1>1. /\ clock' = clock /\ mandates' = mandates /\ drafts' = drafts \cup {m}
      /\ receipts' = receipts /\ outcomes' = outcomes /\ cleared' = cleared /\ asked' = asked
  BY DEF Make
<1>2. GrantsOK'
  BY <1>1 DEF GrantsOK, IInv
<1>3. ReceiptsOK' /\ OutcomesOK' /\ ClearedOK'
  BY <1>1 DEF IInv, ReceiptsOK, OutcomesOK, ClearedOK
<1>4. AskedOK'
  BY <1>1 DEF IInv, AskedOK, OnlyDatesComeBetween
<1> QED
  BY <1>1, <1>2, <1>3, <1>4 DEF IInv, Times

\* What is published was well formed already, and nothing commits to less.
LEMMA PublishStep ==
    ASSUME IInv, Publish
    PROVE  IInv'
<1> PICK m \in drafts \ mandates :
        /\ mandates' = mandates \cup {m}
        /\ UNCHANGED <<clock, drafts, delegations, cleared, receipts, asked, outcomes>>
  BY DEF Publish
<1>1. GrantsOK' /\ DelegationsOK'
  BY DEF GrantsOK, DelegationsOK, IInv
<1>2. ReceiptsOK' /\ OutcomesOK' /\ ClearedOK'
  BY DEF IInv, ReceiptsOK, OutcomesOK, ClearedOK
<1>3. AskedOK'
  BY DEF IInv, AskedOK, OnlyDatesComeBetween
<1> QED
  BY <1>1, <1>2, <1>3 DEF IInv, Times

-----------------------------------------------------------------------------
(***************************************************************************)
(* New receipts and outcomes.                                              *)
(***************************************************************************)

\* What is asked first is at fault for its dates only.
LEMMA ClearedRecord ==
    ASSUME NEW grant, NEW action, NEW decision, NEW id, NEW prev,
           action.type \in grant.scope,
           value_violations(grant.max_value, action.value) = {},
           NEW r, r = receipt_under(grant, id, action, decision, clock, prev)
    PROVE  /\ mandate_problems(grant, r) \subseteq {"action_precedes_mandate"}
           /\ scope_violations(grant, r) \subseteq {"mandate_expired"}
<1>1. /\ r.mandate_id = grant.id /\ r.mandate_hash = digest(grant) /\ r.agent = grant.agent
      /\ r.principal = grant.principal /\ r.action = action
  BY DEF receipt_under
<1>2. mandate_problems(grant, r) \subseteq {"action_precedes_mandate"}
  BY <1>1 DEF mandate_problems, When
<1>3. scope_violations(grant, r) \subseteq {"mandate_expired"}
  BY <1>1 DEF scope_violations, permits, When
<1> QED
  BY <1>2, <1>3

LEMMA RecordedIsReceipt ==
    ASSUME GrantsOK, ReceiptsOK, clock \in Times,
           NEW grant \in mandates, NEW action \in Actions, NEW decision \in DecisionOutcome,
           NEW id \in ReceiptIds, NEW prev \in receipts \cup {None},
           NEW r, r = receipt_under(grant, id, action, decision, clock, prev)
    PROVE  /\ HasReceiptFields(r)
           /\ r.mandate_hash = digest(grant)
           /\ PrevCommitsTo(r, receipts)
<1>1. IsMandate(grant)
  BY PublishedAreMandates
<1>2. /\ r.type = "action" /\ r.id \in DocumentIds /\ r.issued_at \in Timestamp
      /\ r.agent \in Agent /\ r.principal \in Principal /\ r.mandate_id \in DocumentIds
      /\ r.action \in Action /\ r.decision \in DecisionOutcome /\ r.mandate_hash = digest(grant)
  BY <1>1, IssuanceAssumption, TimesAreTimestamps DEF IsMandate, receipt_under
<1>3. r.prev \in DocumentIds \cup {None}
  BY DEF receipt_under, ReceiptsOK, HasReceiptFields
<1>4. r.prev # None => prev \in receipts /\ r.prev_hash = digest(prev)
  BY DEF receipt_under
<1> QED
  BY <1>2, <1>3, <1>4 DEF HasReceiptFields, PrevCommitsTo

\* Recording keeps everything but the grants, which it leaves alone.
LEMMA RecordStep ==
    ASSUME IInv, Record
    PROVE  IInv'
<1> USE DEF IInv
<1>1. PICK grant \in mandates, action \in Actions, decision \in DecisionOutcome,
           id \in ReceiptIds, prev \in receipts \cup {None} :
        LET receipt == receipt_under(grant, id, action, decision, clock, prev)
        IN  /\ receipt \notin receipts
            /\ receipts' = receipts \cup {receipt}
            /\ IF <<grant, action>> \in cleared
               THEN /\ cleared' = cleared \ {<<grant, action>>}
                    /\ asked' = asked \cup {receipt}
               ELSE UNCHANGED <<cleared, asked>>
            /\ UNCHANGED <<clock, drafts, mandates, delegations, outcomes>>
  BY DEF Record
<1> DEFINE r == receipt_under(grant, id, action, decision, clock, prev)
<1>2. /\ HasReceiptFields(r) /\ r.mandate_hash = digest(grant) /\ PrevCommitsTo(r, receipts)
  BY RecordedIsReceipt
<1>3. /\ r \notin receipts /\ receipts' = receipts \cup {r}
      /\ cleared' \subseteq cleared
      /\ clock' = clock /\ drafts' = drafts /\ mandates' = mandates
      /\ delegations' = delegations
      /\ outcomes' = outcomes
  BY <1>1
<1>4. asked' \subseteq asked \cup {r} /\ (r \in asked' => <<grant, action>> \in cleared \/ r \in asked)
  BY <1>1
<1> HIDE DEF r
<1>5. ReceiptsOK'
  <2>1. \A q \in receipts' : HasReceiptFields(q)
    BY <1>2, <1>3 DEF ReceiptsOK
  <2>2. \A q \in receipts' : \E m \in mandates' : q.mandate_hash = digest(m)
    BY <1>2, <1>3 DEF ReceiptsOK
  <2>3. PrevCommitted(receipts')
    BY <1>2, <1>3 DEF ReceiptsOK, PrevCommitted, PrevCommitsTo
  <2>4. OneRun(receipts', MaxReceipts)
    BY <1>2, <1>3, OneRunGrows, IssuanceAssumption DEF ReceiptsOK
  <2> QED
    BY <2>1, <2>2, <2>3, <2>4 DEF ReceiptsOK
<1>6. OutcomesOK'
  BY <1>3 DEF OutcomesOK
<1>7. ClearedOK'
  BY <1>3 DEF ClearedOK
<1>8. AskedOK'
  <2>1. asked' \subseteq receipts'
    BY <1>3, <1>4 DEF AskedOK
  <2>2. ASSUME NEW q \in asked'
        PROVE  \E m \in mandates : /\ mandate_problems(m, q) \subseteq {"action_precedes_mandate"}
                                   /\ scope_violations(m, q) \subseteq {"mandate_expired"}
    <3>1. CASE q \in asked
      BY <3>1 DEF AskedOK, OnlyDatesComeBetween
    <3>2. CASE q \notin asked
      <4>1. q = r /\ <<grant, action>> \in cleared
        BY <1>4, <2>2, <3>2
      <4>2. /\ action.type \in grant.scope
            /\ value_violations(grant.max_value, action.value) = {}
        BY <4>1 DEF ClearedOK
      <4> QED
        BY <4>1, <4>2, ClearedRecord DEF r
    <3> QED
      BY <3>1, <3>2
  <2> QED
    BY <1>3, <2>1, <2>2 DEF AskedOK, OnlyDatesComeBetween
<1> QED
  BY <1>3, <1>5, <1>6, <1>7, <1>8 DEF DelegationsOK, GrantsOK

-----------------------------------------------------------------------------
(***************************************************************************)
(* The invariant.                                                          *)
(***************************************************************************)

\* Nothing can be put together out of no documents.
LEMMA NoChains ==
    /\ SoundChainsOf({}) = {}
    /\ \A longest \in Nat : IntactRunsOf({}, longest) = {}
<1>1. \A n \in Nat \ {0} : [1..n -> {}] = {}
  <2> SUFFICES ASSUME NEW n \in Nat \ {0}, NEW c \in [1..n -> {}]
               PROVE  FALSE
    OBVIOUS
  <2>1. 1 \in 1..n
    OBVIOUS
  <2> QED
    BY <2>1
<1>2. SoundChainsOf({}) = {}
  BY <1>1, ChainIn
<1>3. \A longest \in Nat : IntactRunsOf({}, longest) = {}
  BY <1>1, RunIn
<1> QED
  BY <1>2, <1>3

LEMMA InitOK == Init => IInv
<1> SUFFICES ASSUME Init PROVE IInv
  OBVIOUS
<1> USE DEF Init
<1>1. clock \in Times
  BY IssuanceAssumption DEF Times
<1>2. GrantsOK
  BY DEF GrantsOK
<1>3. ReceiptsOK
  BY NoChains, IssuanceAssumption DEF ReceiptsOK, PrevCommitted, OneRun
<1>4. OutcomesOK /\ DelegationsOK /\ ClearedOK /\ AskedOK
  BY DEF OutcomesOK, DelegationsOK, ClearedOK, AskedOK, OnlyDatesComeBetween
<1> QED
  BY <1>1, <1>2, <1>3, <1>4 DEF IInv

LEMMA GrantFits ==
    ASSUME IInv, Grant
    PROVE  Fits /\ DelegationsOK'
<1>1. PICK principal \in Principals, agent \in Agents, id \in MandateIds, issued_at \in Dates,
           scope \in Scopes, expires_at \in Dates, ceiling \in Ceilings :
        Make([type |-> "mandate", id |-> id, issued_at |-> issued_at,
              principal |-> principal, agent |-> agent, scope |-> scope,
              expires_at |-> expires_at, max_value |-> ceiling,
              delegated_from |-> None])
  BY DEF Grant
<1> DEFINE m == [type |-> "mandate", id |-> id, issued_at |-> issued_at,
                 principal |-> principal, agent |-> agent, scope |-> scope,
                 expires_at |-> expires_at, max_value |-> ceiling, delegated_from |-> None]
<1>2. IsMandate(m)
  BY GrantIsMandate
<1>3. Make(m) /\ delegations' = delegations
  BY <1>1 DEF Grant
<1> HIDE DEF m
<1>4. DelegationsOK'
  BY <1>3 DEF IInv, DelegationsOK, Make
<1> QED
  BY <1>2, <1>3, <1>4 DEF Fits

LEMMA DelegateFits ==
    ASSUME IInv, Delegate
    PROVE  Fits /\ DelegationsOK'
<1>1. PICK parent \in drafts, to \in Agents, id \in MandateIds, issued_at \in Dates,
           scope \in Scopes \cup {None}, expires_at \in Dates \cup {None}, ceiling \in Ceilings :
        LET child == delegated(parent, to, id, issued_at, scope, expires_at, ceiling)
        IN  /\ ~ delegate_refuses(parent, child)
            /\ Make(child)
            /\ delegations' = delegations \cup {<<parent, child>>}
  BY DEF Delegate
<1> DEFINE child == delegated(parent, to, id, issued_at, scope, expires_at, ceiling)
<1>2. IsMandate(child)
  BY DelegatedIsMandate DEF IInv, GrantsOK
<1>3. Make(child) /\ delegation_problems(parent, child) = {}
      /\ delegations' = delegations \cup {<<parent, child>>}
  BY <1>1 DEF delegate_refuses
<1> HIDE DEF child
<1>4. DelegationsOK'
  BY <1>3 DEF IInv, DelegationsOK, Make
<1> QED
  BY <1>2, <1>3, <1>4 DEF Fits

LEMMA WriteByHandFits ==
    ASSUME IInv, WriteByHand
    PROVE  Fits /\ DelegationsOK'
<1>1. PICK parent \in drafts, to \in Agents, id \in MandateIds, issued_at \in Dates :
        \E child \in OneErrorAway(delegated(parent, to, id, issued_at, None, None, None)) :
          Make(child)
  BY DEF WriteByHand
<1>2. PICK child \in OneErrorAway(delegated(parent, to, id, issued_at, None, None, None)) :
        Make(child)
  BY <1>1
<1>3. IsMandate(child)
  BY <1>1, <1>2, HandWrittenIsMandate DEF IInv
<1>4. delegations' = delegations
  BY DEF WriteByHand
<1>5. DelegationsOK'
  BY <1>2, <1>4 DEF IInv, DelegationsOK, Make
<1> QED
  BY <1>2, <1>3, <1>5 DEF Fits

\* permits() looked at the scope and the ceiling.
LEMMA AskStep ==
    ASSUME IInv, Ask
    PROVE  IInv'
<1>1. PICK grant \in mandates, action \in Actions :
        /\ permits(grant, action, clock) = {}
        /\ cleared' = cleared \cup {<<grant, action>>}
        /\ UNCHANGED <<clock, drafts, mandates, delegations, receipts, asked, outcomes>>
  BY DEF Ask
<1>2. action.type \in grant.scope /\ value_violations(grant.max_value, action.value) = {}
  BY <1>1 DEF permits, When
<1>3. ClearedOK'
  BY <1>1, <1>2 DEF IInv, ClearedOK
<1> QED
  BY <1>1, <1>3 DEF IInv, GrantsOK, ReceiptsOK, OutcomesOK, DelegationsOK, AskedOK, OnlyDatesComeBetween, Times

LEMMA ReportStep ==
    ASSUME IInv, Report
    PROVE  IInv'
<1>1. PICK receipt \in receipts, id \in OutcomeIds, detail \in Details :
        /\ outcomes' = outcomes \cup {outcome_for(receipt, id, clock, detail)}
        /\ UNCHANGED <<clock, drafts, mandates, delegations, cleared, receipts, asked>>
  BY DEF Report
<1> DEFINE o == outcome_for(receipt, id, clock, detail)
<1>2. receipt.id \in DocumentIds
  BY DEF IInv, ReceiptsOK, HasReceiptFields
<1>3. IsOutcome(o) /\ o.receipt_hash = digest(receipt)
  BY <1>2, IssuanceAssumption, TimesAreTimestamps DEF IsOutcome, outcome_for, IInv
<1> HIDE DEF o
<1>4. OutcomesOK'
  <2>1. outcomes' = outcomes \cup {o}
    BY <1>1 DEF o
  <2> QED
    BY <1>1, <1>3, <2>1 DEF IInv, OutcomesOK
<1> QED
  BY <1>1, <1>4 DEF IInv, GrantsOK, ReceiptsOK, DelegationsOK, ClearedOK, AskedOK, OnlyDatesComeBetween, Times

LEMMA StepOK == IInv /\ [Next]_vars => IInv'
<1> SUFFICES ASSUME IInv, [Next]_vars PROVE IInv'
  OBVIOUS
<1>1. CASE Tick
  <2>1. clock' \in Times
    BY <1>1, IssuanceAssumption DEF Tick, IInv, Times
  <2> QED
    BY <1>1, <2>1 DEF Tick, IInv, GrantsOK, ReceiptsOK, OutcomesOK, DelegationsOK, ClearedOK,
                      AskedOK, OnlyDatesComeBetween
<1>2. CASE UNCHANGED vars
  BY <1>2 DEF vars, IInv, GrantsOK, ReceiptsOK, OutcomesOK, DelegationsOK, ClearedOK, AskedOK,
              OnlyDatesComeBetween, Times
<1> QED
  BY <1>1, <1>2, GrantFits, DelegateFits, WriteByHandFits, MakeStep, PublishStep, AskStep,
     RecordStep, ReportStep DEF Next

LEMMA Inductive == Spec => []IInv
BY InitOK, StepOK, PTL DEF Spec

-----------------------------------------------------------------------------
(***************************************************************************)
(* The theorems.                                                           *)
(***************************************************************************)

\* Although grants may share ids and be written by hand, the chain that delegation.py accepts
\* to a grant is one: the digest in each link leaves no choice of who answers for it.
THEOREM ChainsDoNotMeet == Spec => []OneChainToAGrant
<1>1. OneChainToAGrant
  BY OneChainHolds DEF OneChain, OneChainToAGrant, SoundChains
<1> QED
  BY <1>1, PTL

\* chain_problems compares neighbours only, and along a chain it accepts nothing is ever
\* widened, over any distance.
THEOREM ChainsNarrowThroughout == Spec => []SoundChainsNarrow
<1>1. IInv => SoundChainsNarrow
  BY PublishedAreMandates, ChainsNarrowHolds DEF IInv, ChainsNarrow, SoundChainsNarrow, SoundChains
<1> QED
  BY <1>1, Inductive, PTL

\* A chain with one more link.
LEMMA OneMoreLink ==
    ASSUME NEW c \in SoundChains, NEW child, Len(c) < MAX_CHAIN_DEPTH,
           delegation_problems(last(c), child) = {},
           \A i \in DOMAIN c : c[i].agent # child.agent
    PROVE  Sound(Append(c, child))
<1>1. PICK n \in Nat \ {0} : n =< MAX_CHAIN_DEPTH /\ c \in [1..n -> mandates] /\ Sound(c)
  BY ChainIn DEF SoundChains
<1>2. c \in Seq(mandates) /\ Len(c) = n /\ DOMAIN c = 1..n /\ last(c) = c[n]
  BY <1>1, FiniteSequence
<1> DEFINE d == Append(c, child)
           T == mandates \cup {child}
<1>3. c \in Seq(T) /\ child \in T
  <2>1. c \in [1..n -> T]
    BY <1>1
  <2> QED
    BY <2>1, FiniteSequence
<1>4. n + 1 \in Nat \ {0} /\ d \in [1..(n + 1) -> T]
  <2>1. d \in Seq(T) /\ Len(d) = n + 1
    BY <1>2, <1>3, AppendProperties
  <2> HIDE DEF d, T
  <2>2. d \in [1..Len(d) -> T]
    BY <2>1, LenProperties
  <2> QED
    BY <2>1, <2>2
<1>5. d[n + 1] = child /\ \A i \in 1..n : d[i] = c[i]
  BY <1>2, <1>3, AppendProperties
<1> HIDE DEF d
<1>6. /\ c[1].delegated_from = None
      /\ \A i, j \in 1..n : i < j => c[i].agent # c[j].agent
      /\ \A i \in 2..n : delegation_problems(c[i - 1], c[i]) = {}
  BY <1>1, SoundByPosition
<1>7. d[1].delegated_from = None /\ n + 1 =< MAX_CHAIN_DEPTH
  BY <1>1, <1>2, <1>5, <1>6, DepthAssumption
<1>8. \A i, j \in 1..(n + 1) : i < j => d[i].agent # d[j].agent
  <2>1. ASSUME NEW i \in 1..(n + 1), NEW j \in 1..(n + 1), i < j
        PROVE  d[i].agent # d[j].agent
    <3>1. i \in 1..n /\ (j \in 1..n \/ j = n + 1)
      BY <2>1
    <3> QED
      BY <1>2, <1>5, <1>6, <2>1, <3>1
  <2> QED
    BY <2>1
<1>9. \A i \in 2..(n + 1) : delegation_problems(d[i - 1], d[i]) = {}
  <2>1. ASSUME NEW i \in 2..(n + 1)
        PROVE  delegation_problems(d[i - 1], d[i]) = {}
    <3>1. CASE i \in 2..n
      <4>1. i \in 1..n /\ i - 1 \in 1..n
        BY <3>1
      <4>2. d[i] = c[i] /\ d[i - 1] = c[i - 1]
        BY <1>5, <4>1
      <4> QED
        BY <1>6, <3>1, <4>2
    <3>2. CASE i = n + 1
      <4>1. i - 1 = n /\ n \in 1..n
        BY <3>2
      <4>2. d[i] = child /\ d[i - 1] = last(c)
        BY <1>2, <1>5, <3>2, <4>1
      <4> QED
        BY <4>2
    <3> QED
      BY <2>1, <3>1, <3>2
  <2> QED
    BY <2>1
<1>10. Sound(d)
  BY <1>4, <1>7, <1>8, <1>9, SoundByPosition
<1> QED
  BY <1>10 DEF d

\* The one link delegate() looks at is enough: what it returned extends every sound chain to
\* its parent that has room and does not have its agent yet.
THEOREM DelegateIsEnough == Spec => []DelegateExtendsChains
<1>1. IInv => DelegateExtendsChains
  <2> SUFFICES ASSUME IInv, NEW c \in SoundChains, NEW pair \in delegations,
                      last(c) = pair[1], Len(c) < MAX_CHAIN_DEPTH,
                      \A i \in DOMAIN c : c[i].agent # pair[2].agent
               PROVE  Sound(Append(c, pair[2]))
    BY DEF DelegateExtendsChains
  <2>1. delegation_problems(pair[1], pair[2]) = {}
    BY DEF IInv, DelegationsOK
  <2> QED
    BY <2>1, OneMoreLink
<1> QED
  BY <1>1, Inductive, PTL

\* From an outcome back to a receipt, from a receipt back to its grant and through the calls
\* before it, binding.py accepts one answer at most.
THEOREM TrailIsOne == Spec => []TrailDoesNotFork
<1>1. IInv => TrailDoesNotFork
  <2> SUFFICES ASSUME IInv PROVE TrailDoesNotFork
    OBVIOUS
  <2>1. ASSUME NEW o, NEW r, NEW s, binding_problems(r, o) = {}, binding_problems(s, o) = {}
        PROVE  r = s
    BY <2>1 DEF binding_problems, When, digest
  <2>2. ASSUME NEW r, NEW m, NEW n, mandate_problems(m, r) = {}, mandate_problems(n, r) = {}
        PROVE  m = n
    BY <2>2 DEF mandate_problems, When, digest
  <2>3. \A c, d \in IntactRuns : last(c) = last(d) => c = d
    BY DEF IInv, ReceiptsOK, OneRun, IntactRuns
  <2> QED
    BY <2>1, <2>2, <2>3 DEF TrailDoesNotFork
<1> QED
  BY <1>1, Inductive, PTL

\* An agent that asks permits() before it acts can be found at fault for dates only.
THEOREM OnlyDates == Spec => []OnlyDatesComeBetween
<1>1. IInv => OnlyDatesComeBetween
  BY DEF IInv, AskedOK
<1> QED
  BY <1>1, Inductive, PTL

\* What an agent asked for is what it may do: its receipt is found at fault for dates only, so
\* when those are right the grant covers the action, and so does every grant above it.
LEMMA AskedMeans == IInv => AskedIsCovered
<1> SUFFICES ASSUME IInv, NEW r \in asked, NEW c \in SoundChains,
                    mandate_problems(last(c), r) = {}, r.issued_at =< last(c).expires_at,
                    NEW i \in DOMAIN c
             PROVE  Covers(c[i], r.action, r.issued_at)
  BY DEF AskedIsCovered
<1>1. PICK n \in Nat \ {0} : n =< MAX_CHAIN_DEPTH /\ c \in [1..n -> mandates] /\ Sound(c)
  BY ChainIn DEF SoundChains
<1>2. DOMAIN c = 1..n /\ last(c) = c[n] /\ c[n] \in mandates /\ c[i] \in mandates /\ i \in 1..n
  <2>1. DOMAIN c = 1..n /\ last(c) = c[n]
    BY <1>1, FiniteSequence
  <2>2. i \in 1..n /\ n \in 1..n
    BY <2>1
  <2> QED
    BY <1>1, <2>1, <2>2
<1>3. IsMandate(c[n]) /\ IsMandate(c[i])
  BY <1>2, PublishedAreMandates DEF IInv
<1>4. r \in receipts /\ HasReceiptFields(r)
  BY DEF IInv, AskedOK, ReceiptsOK
<1>5. r.action \in Action /\ r.issued_at \in Int
  BY <1>4 DEF HasReceiptFields, Timestamp
<1>6. PICK m \in mandates : /\ mandate_problems(m, r) \subseteq {"action_precedes_mandate"}
                           /\ scope_violations(m, r) \subseteq {"mandate_expired"}
  BY DEF IInv, AskedOK, OnlyDatesComeBetween
<1>7. r.mandate_hash = digest(m)
  BY <1>6 DEF mandate_problems, When
<1>8. r.mandate_hash = digest(c[n])
  BY <1>2 DEF mandate_problems, When
<1>9. m = c[n]
  BY <1>7, <1>8 DEF digest
<1>10. c[n].issued_at =< r.issued_at
  <2>1. ~ (r.issued_at < c[n].issued_at)
    BY <1>2 DEF mandate_problems, When
  <2> QED
    BY <1>3, <1>5, <2>1, MandateFields
<1>11. ~ (r.issued_at > c[n].expires_at)
  BY <1>2, <1>3, <1>5, MandateFields
<1>12. permits(c[n], r.action, r.issued_at) = {}
  <2>1. permits(c[n], r.action, r.issued_at) \subseteq {"mandate_expired"}
    BY <1>6, <1>9 DEF scope_violations
  <2>2. "mandate_expired" \notin permits(c[n], r.action, r.issued_at)
    BY <1>11 DEF permits, value_violations, When
  <2> QED
    BY <2>1, <2>2
<1>13. Covers(c[n], r.action, r.issued_at)
  BY <1>3, <1>5, <1>10, <1>12, CleanPermits
<1>14. CASE i = n
  BY <1>13, <1>14
<1>15. CASE i # n
  <2>1. i < n /\ n \in 1..n
    BY <1>2, <1>15
  <2>2. Narrower(c[n], c[i])
    <3>1. ChainsNarrow(mandates)
      BY PublishedAreMandates, ChainsNarrowHolds DEF IInv
    <3> QED
      BY <1>2, <2>1, <3>1 DEF ChainsNarrow, SoundChains
  <2> QED
    BY <1>3, <1>5, <1>13, <2>2, NarrowerCovers
<1> QED
  BY <1>14, <1>15

\* With its dates right, an action that was asked for is inside every grant of a sound chain
\* to the one it was taken under: asking the last grant was asking them all.
THEOREM AskingIsEnough == Spec => []AskedIsCovered
<1> QED
  BY AskedMeans, Inductive, PTL

\* The ledger means by a grant, and by what is passed on, what the code means.
LEMMA LedgerNotions ==
    /\ \A g : IsMandate(g) <=> Books!IsMandate(g)
    /\ \A g, h : Narrower(g, h) <=> Books!Narrower(g, h)
    /\ \A g, h : PassedOn(g, h) <=> Books!PassedOn(g, h)
<1>1. \A g : IsMandate(g) <=> Books!IsMandate(g)
  BY DEF IsMandate, IsDelegationLink, DelegationLink, Timestamp, Principal, PrincipalType, Agent,
         Money, Books!IsMandate, Books!IsDelegationLink, Books!DelegationLink, Books!Timestamp,
         Books!Principal, Books!PrincipalType, Books!Agent, Books!Money
<1>2. \A g, h : Narrower(g, h) <=> Books!Narrower(g, h)
  BY DEF Narrower, ValueWithin, Books!Narrower, Books!ValueWithin
<1>3. \A g, h : PassedOn(g, h) <=> Books!PassedOn(g, h)
  BY <1>2 DEF PassedOn, Books!PassedOn, DelegationLink, Books!DelegationLink, digest, Books!digest
<1> QED
  BY <1>1, <1>2, <1>3

\* Whatever is published, and in whatever order, keeps the books of Ledger: authority comes
\* from a principal's own grant, or out of the grant it was passed on from once that one
\* stands, and what comes to stand along with a grant is narrower than it.
THEOREM KeepsLedger == Spec => KeepsTheBooks
<1> DEFINE roots == {m \in mandates : m.delegated_from = None}
           standing == {last(c) : c \in SoundChains}
<1>1. Init => Books!Init
  BY NoChains DEF Init, Books!Init, SoundChains
<1>2. roots = RootsOf(mandates) /\ standing = StandingOf(mandates)
  BY DEF RootsOf, StandingOf, SoundChains
<1>3. roots' = RootsOf(mandates') /\ standing' = StandingOf(mandates')
  BY DEF RootsOf, StandingOf, SoundChains
<1>4. ASSUME mandates' = mandates
      PROVE  UNCHANGED <<roots, standing>>
  BY <1>2, <1>3, <1>4
<1>5. ASSUME IInv, NEW m \in drafts \ mandates, mandates' = mandates \cup {m}
      PROVE  Books!Next \/ UNCHANGED <<roots, standing>>
  <2> DEFINE new == standing' \ standing
  <2>1. JoinedBy(mandates', mandates, m) /\ Grants(mandates') /\ m \notin mandates
    BY <1>5 DEF IInv, GrantsOK, JoinedBy, Grants
  <2>2. new = StandingOf(mandates') \ StandingOf(mandates)
    BY <1>2, <1>3
  <2> HIDE DEF roots, standing, new
  <2>3. /\ standing \subseteq standing' /\ standing' \subseteq mandates'
        /\ \/ new = {} /\ roots' = roots
           \/ /\ m \in new
              /\ \/ roots' = roots \cup {m}
                 \/ /\ roots' = roots
                    /\ \E holding \in standing : PassedOn(m, holding) /\ m.agent # holding.agent
              /\ \A other \in new \ {m} :
                    /\ Narrower(other, m) /\ other.agent # m.agent
                    /\ \E holding \in new : PassedOn(other, holding) /\ other.agent # holding.agent
    BY <1>2, <1>3, <2>1, <2>2, BooksGrow
  <2>4. CASE new = {} /\ roots' = roots
    BY <2>3, <2>4 DEF new
  <2>5. CASE m \in new
    <3>1. \A grant \in new : Books!IsMandate(grant)
      BY <2>1, <2>3, LedgerNotions DEF new, Grants
    <3>2. Books!Give(m) \/ Books!PassOn(m)
      BY <2>3, <2>5, LedgerNotions DEF Books!Give, Books!PassOn, Books!Within, roots, standing
    <3>3. \A other \in new \ {m} : Books!Prepared(other, m, new)
      BY <2>3, <2>5, LedgerNotions DEF Books!Prepared, Books!Within
    <3> QED
      BY <2>3, <2>5, <3>1, <3>2, <3>3 DEF Books!Next, new, standing
  <2> QED
    BY <2>3, <2>4, <2>5
<1>6. IInv /\ [Next]_vars => [Books!Next]_(Books!vars)
  <2> SUFFICES ASSUME IInv, [Next]_vars
               PROVE  Books!Next \/ UNCHANGED <<roots, standing>>
    BY DEF Books!vars
  <2>1. CASE Publish
    <3>1. PICK m \in drafts \ mandates : mandates' = mandates \cup {m}
      BY <2>1 DEF Publish
    <3> HIDE DEF roots, standing
    <3> QED
      BY <1>5, <3>1
  <2>2. CASE mandates' = mandates
    BY <1>4, <2>2
  <2>3. Tick \/ Ask \/ Record \/ Report \/ UNCHANGED vars => mandates' = mandates
    BY DEF Tick, Ask, Record, Report, vars
  <2>4. Grant \/ Delegate \/ WriteByHand => mandates' = mandates
    <3>1. Fits => mandates' = mandates
      BY DEF Fits, Make
    <3>2. CASE Grant \/ Delegate \/ WriteByHand
      BY <3>1, <3>2, GrantFits, DelegateFits, WriteByHandFits
    <3> QED
      BY <3>2
  <2> QED
    BY <2>1, <2>2, <2>3, <2>4 DEF Next
<1> QED
  BY <1>1, <1>6, Inductive, PTL DEF Spec, KeepsTheBooks, Books!Spec

\* Books that are kept like this are worth something: however often it was passed on, and in
\* whatever order, authority that stands is no wider than a grant the same principal made itself.
LEMMA KeptBooksAreRooted == Books!Spec => []Books!Rooted
<1> DEFINE roots == {m \in mandates : m.delegated_from = None}
           standing == {last(c) : c \in SoundChains}
           LInv == /\ \A grant \in standing \cup roots : IsMandate(grant)
                   /\ \A grant \in standing : \E root \in roots : Narrower(grant, root)
<1>1. Books!Init => LInv
  BY DEF Books!Init
<1>2. LInv /\ [Books!Next]_(Books!vars) => LInv'
  <2> SUFFICES ASSUME LInv, [Books!Next]_(Books!vars) PROVE LInv'
    OBVIOUS
  <2>1. CASE UNCHANGED Books!vars
    <3>1. roots' = roots /\ standing' = standing
      BY <2>1 DEF Books!vars
    <3> HIDE DEF roots, standing
    <3> QED
      BY <3>1
  <2>2. CASE Books!Next
    <3> DEFINE new == standing' \ standing
    <3>1. PICK grant \in new :
              /\ Books!Give(grant) \/ Books!PassOn(grant)
              /\ \A other \in new \ {grant} : Books!Prepared(other, grant, new)
      BY <2>2 DEF Books!Next
    <3>2. (\A g \in new : IsMandate(g)) /\ standing \subseteq standing'
      BY <2>2, LedgerNotions DEF Books!Next
    <3> HIDE DEF new
    <3>3. \A other \in new : other = grant \/ Narrower(other, grant)
      BY <3>1, LedgerNotions DEF Books!Prepared
    <3>4. \/ roots' = roots \cup {grant}
          \/ roots' = roots /\ \E holding \in standing : Narrower(grant, holding)
      <4>1. CASE Books!Give(grant)
        BY <4>1 DEF Books!Give
      <4>2. CASE Books!PassOn(grant)
        BY <4>2, LedgerNotions DEF Books!PassOn, Books!Within, PassedOn
      <4> QED
        BY <3>1, <4>1, <4>2
    <3>5. IsMandate(grant)
      BY <3>1, <3>2
    <3>6. \A g \in standing' : g \in standing \/ g \in new
      BY DEF new
    <3> HIDE DEF roots, standing
    <3>7. \E root \in roots' : IsMandate(root) /\ Narrower(grant, root)
      <4>1. CASE roots' = roots \cup {grant}
        BY <3>5, <4>1, NarrowerItself
      <4>2. CASE roots' = roots /\ \E holding \in standing : Narrower(grant, holding)
        <5>1. PICK holding \in standing : Narrower(grant, holding)
          BY <4>2
        <5>2. PICK root \in roots : Narrower(holding, root)
          OBVIOUS
        <5> QED
          BY <3>5, <4>2, <5>1, <5>2, NarrowerTransitive
      <4> QED
        BY <3>4, <4>1, <4>2
    <3>8. PICK top \in roots' : IsMandate(top) /\ Narrower(grant, top)
      BY <3>7
    <3>9. \A other \in new : Narrower(other, top)
      BY <3>2, <3>3, <3>5, <3>8, NarrowerTransitive
    <3>10. \A g \in roots' : IsMandate(g)
      BY <3>4, <3>5
    <3>11. \A g \in standing : \E root \in roots' : Narrower(g, root)
      BY <3>4
    <3> QED
      BY <3>2, <3>6, <3>8, <3>9, <3>10, <3>11
  <2> QED
    BY <2>1, <2>2
<1>3. LInv => Books!Rooted
  BY LedgerNotions DEF Books!Rooted
<1> QED
  BY <1>1, <1>2, <1>3, PTL DEF Books!Spec

\* So of everything that is published: whoever can show authority for a grant can name a grant
\* of the principal's own that is at least as wide.
THEOREM AuthorityHasARoot == Spec => []Books!Rooted
<1> QED
  BY KeepsLedger, KeptBooksAreRooted DEF KeepsTheBooks

\* The one thing left to know about None.
NoneIsNoDigest == \A document : digest(document) # None

LinksComplete == \A r \in receipts : link_is_complete(r)

\* Everything that is made is a document the models accept, prev and prev_hash together
\* included, and a receipt or an outcome commits to a document that is published.
THEOREM TypeCorrect ==
    ASSUME NoneIsNoDigest
    PROVE  Spec => []TypeOK
<1>1. Init => LinksComplete
  BY DEF Init, LinksComplete
<1>2. IInv /\ LinksComplete /\ [Next]_vars => LinksComplete'
  <2> SUFFICES ASSUME IInv, LinksComplete, [Next]_vars
               PROVE  LinksComplete'
    OBVIOUS
  <2>1. CASE Record
    <3>1. PICK grant \in mandates, action \in Actions, decision \in DecisionOutcome,
               id \in ReceiptIds, prev \in receipts \cup {None} :
            receipts' = receipts \cup {receipt_under(grant, id, action, decision, clock, prev)}
      BY <2>1 DEF Record
    <3>2. prev \in receipts => prev.id # None /\ digest(prev) # None
      BY AbsentAssumption DEF NoneIsNoDigest, IInv, ReceiptsOK, HasReceiptFields
    <3>3. link_is_complete(receipt_under(grant, id, action, decision, clock, prev))
      BY <3>2 DEF link_is_complete, receipt_under
    <3> QED
      BY <3>1, <3>3 DEF LinksComplete
  <2>2. CASE receipts' = receipts
    BY <2>2 DEF LinksComplete
  <2>3. Tick \/ Publish \/ Ask \/ Report \/ UNCHANGED vars => receipts' = receipts
    BY DEF Tick, Publish, Ask, Report, vars
  <2>4. Grant \/ Delegate \/ WriteByHand => receipts' = receipts
    <3>1. Fits => receipts' = receipts
      BY DEF Fits, Make
    <3> QED
      BY <3>1, GrantFits, DelegateFits, WriteByHandFits
  <2> QED
    BY <2>1, <2>2, <2>3, <2>4 DEF Next
<1>3. IInv /\ LinksComplete => TypeOK
  BY DEF IInv, LinksComplete, GrantsOK, ReceiptsOK, HasReceiptFields, OutcomesOK, DelegationsOK,
         ClearedOK, AskedOK, TypeOK, IsReceipt
<1>4. Spec => []LinksComplete
  BY <1>1, <1>2, Inductive, PTL DEF Spec
<1> QED
  BY <1>3, <1>4, Inductive, PTL

-----------------------------------------------------------------------------
(***************************************************************************)
(* The papers of an honest agent.                                          *)
(***************************************************************************)

\* What the handover needs of what was published, beside IInv: the parties are known, a
\* receipt is not dated in the future, and an outcome goes back to the receipt it commits to.
Traceable ==
    /\ \A m \in drafts : m.principal \in Principals /\ m.agent \in Agents
    /\ \A r \in receipts : r.issued_at =< clock
    /\ \A o \in outcomes : \E r \in receipts :
          /\ o.receipt_hash = digest(r) /\ o.receipt_id = r.id
          /\ r.issued_at =< o.issued_at
          /\ r.decision # "deny"

LEMMA HandWrittenParties ==
    ASSUME NEW parent \in drafts, parent.principal \in Principals, NEW to \in Agents, NEW id,
           NEW issued_at,
           NEW child \in OneErrorAway(delegated(parent, to, id, issued_at, None, None, None))
    PROVE  child.principal \in Principals /\ child.agent \in Agents
<1> DEFINE base == [type |-> "mandate", id |-> id, issued_at |-> issued_at,
                    principal |-> parent.principal, agent |-> to, scope |-> parent.scope,
                    expires_at |-> parent.expires_at, max_value |-> parent.max_value,
                    delegated_from |-> [mandate_id |-> parent.id,
                                        mandate_hash |-> digest(parent),
                                        agent |-> parent.agent]]
<1>1. delegated(parent, to, id, issued_at, None, None, None) = base
  BY DEF delegated, DelegationLink
<1>2. \/ \E x \in MandateIds : child = [base EXCEPT !.delegated_from.mandate_id = x]
      \/ \E m \in drafts : child = [base EXCEPT !.delegated_from.mandate_hash = digest(m)]
      \/ \E x \in Agents : child = [base EXCEPT !.delegated_from.agent = x]
      \/ \E x \in Principals : child = [base EXCEPT !.principal = x]
      \/ \E x \in Dates : child = [base EXCEPT !.expires_at = x]
      \/ \E x \in Scopes : child = [base EXCEPT !.scope = x]
      \/ \E x \in Ceilings : child = [base EXCEPT !.max_value = x]
  BY <1>1 DEF OneErrorAway
<1> QED
  BY <1>2

LEMMA TraceableStep == IInv /\ Traceable /\ [Next]_vars => Traceable'
<1> SUFFICES ASSUME IInv, Traceable, [Next]_vars
             PROVE  Traceable'
  OBVIOUS
<1>1. /\ clock \in Int
      /\ \A r \in receipts : r.issued_at \in Int
  BY TimesAreTimestamps DEF IInv, ReceiptsOK, HasReceiptFields, Timestamp
<1>2. CASE Grant \/ Delegate \/ WriteByHand
  <2>1. PICK m : drafts' = drafts \cup {m} /\ m.principal \in Principals /\ m.agent \in Agents
    <3>1. CASE Grant
      BY <3>1 DEF Grant, Make
    <3>2. CASE Delegate
      <4>1. PICK parent \in drafts, to \in Agents, id \in MandateIds,
                 issued_at \in Dates, scope \in Scopes \cup {None},
                 expires_at \in Dates \cup {None}, ceiling \in Ceilings :
              drafts' = drafts
                 \cup {delegated(parent, to, id, issued_at, scope, expires_at, ceiling)}
        BY <3>2 DEF Delegate, Make
      <4>2. /\ delegated(parent, to, id, issued_at, scope, expires_at, ceiling).principal
                 = parent.principal
            /\ delegated(parent, to, id, issued_at, scope, expires_at, ceiling).agent = to
        BY DEF delegated
      <4> QED
        BY <4>1, <4>2 DEF Traceable
    <3>3. CASE WriteByHand
      <4>1. PICK parent \in drafts, to \in Agents, id \in MandateIds, issued_at \in Dates :
              \E child \in OneErrorAway(delegated(parent, to, id, issued_at, None, None, None)) :
                 drafts' = drafts \cup {child}
        BY <3>3 DEF WriteByHand, Make
      <4> QED
        BY <4>1, HandWrittenParties DEF Traceable
    <3> QED
      BY <1>2, <3>1, <3>2, <3>3
  <2>2. UNCHANGED <<clock, receipts, outcomes>>
    <3>1. Grant => UNCHANGED <<clock, receipts, outcomes>>
      BY DEF Grant, Make
    <3>2. Delegate => UNCHANGED <<clock, receipts, outcomes>>
      BY DEF Delegate, Make
    <3>3. WriteByHand => UNCHANGED <<clock, receipts, outcomes>>
      BY DEF WriteByHand, Make
    <3> QED
      BY <1>2, <3>1, <3>2, <3>3
  <2> QED
    BY <2>1, <2>2 DEF Traceable
<1>3. CASE Tick
  BY <1>1, <1>3 DEF Tick, Traceable
<1>4. CASE Record
  <2>1. PICK r : receipts' = receipts \cup {r} /\ r.issued_at = clock
    BY <1>4 DEF Record, receipt_under
  <2> QED
    BY <1>1, <1>4, <2>1 DEF Record, Traceable
<1>5. CASE Report
  <2>1. PICK receipt \in receipts : \E o :
          /\ outcomes' = outcomes \cup {o} /\ receipt.decision # "deny"
          /\ o.receipt_hash = digest(receipt) /\ o.receipt_id = receipt.id
          /\ o.issued_at = clock
    BY <1>5 DEF Report, outcome_for
  <2>2. PICK o :
          /\ outcomes' = outcomes \cup {o} /\ receipt.decision # "deny"
          /\ o.receipt_hash = digest(receipt) /\ o.receipt_id = receipt.id
          /\ o.issued_at = clock
    BY <2>1
  <2> QED
    BY <1>5, <2>2 DEF Report, Traceable
<1>6. CASE Publish \/ Ask \/ UNCHANGED vars
  BY <1>6 DEF Publish, Ask, vars, Traceable
<1> QED
  BY <1>2, <1>3, <1>4, <1>5, <1>6 DEF Next

LEMMA AlwaysTraceable == Spec => [](IInv /\ Traceable)
<1>1. Init => Traceable
  BY DEF Init, Traceable
<1> QED
  BY <1>1, TraceableStep, Inductive, PTL DEF Spec

\* Verification is written in the notions of Authority; its instance means the same by them.
LEMMA SameNotions ==
    ASSUME NEW papers
    PROVE  /\ Judged(papers)!listed = IF papers.keys = None THEN << >> ELSE papers.keys
           /\ \A payload : Judged(papers)!required_signer(payload) = required_signer(payload)
           /\ \A file : Judged(papers)!valid_envelope(file) <=> valid_envelope(file)
           /\ \A listed : Judged(papers)!directory_usable(listed) <=> directory_usable(listed)
           /\ \A document : Judged(papers)!digest(document) = digest(document)
           /\ \A envelope, k, listed :
                 Judged(papers)!SignedBy(envelope, k, listed) <=> SignedBy(envelope, k, listed)
           /\ \A c : Judged(papers)!SoundChain(c) <=> SoundChain(c)
           /\ \A receipt, grant :
                 Judged(papers)!TakenUnder(receipt, grant) <=> TakenUnder(receipt, grant)
           /\ \A grant, deed, at : Judged(papers)!Covers(grant, deed, at) <=> Covers(grant, deed, at)
<1>1. Judged(papers)!listed = IF papers.keys = None THEN << >> ELSE papers.keys
  BY DEF Judged!listed
<1>2. \A payload : Judged(papers)!required_signer(payload) = required_signer(payload)
  BY DEF Judged!required_signer, required_signer
<1>3. \A file : Judged(papers)!valid_envelope(file) <=> valid_envelope(file)
  BY <1>2 DEF Judged!valid_envelope, valid_envelope, Judged!labels, labels
<1>4. \A listed : Judged(papers)!directory_usable(listed) <=> directory_usable(listed)
  BY DEF Judged!directory_usable, directory_usable
<1>5. \A document : Judged(papers)!digest(document) = digest(document)
  BY DEF Judged!digest, digest
<1>6. \A envelope, k, listed :
         Judged(papers)!SignedBy(envelope, k, listed) <=> SignedBy(envelope, k, listed)
  BY DEF Judged!SignedBy, SignedBy, Judged!public_key, public_key, Judged!ed25519, ed25519
<1>7. \A child, parent : Judged(papers)!PassedOn(child, parent) <=> PassedOn(child, parent)
  BY <1>5 DEF Judged!PassedOn, PassedOn, Judged!DelegationLink, DelegationLink,
              Judged!Narrower, Narrower, Judged!ValueWithin, ValueWithin
<1>8. \A c : Judged(papers)!SoundChain(c) <=> SoundChain(c)
  BY <1>7 DEF Judged!SoundChain, SoundChain
<1>9. \A receipt, grant : Judged(papers)!TakenUnder(receipt, grant) <=> TakenUnder(receipt, grant)
  BY <1>5 DEF Judged!TakenUnder, TakenUnder
<1>10. \A grant, deed, at : Judged(papers)!Covers(grant, deed, at) <=> Covers(grant, deed, at)
  BY DEF Judged!Covers, Covers, Judged!ValueWithin, ValueWithin
<1> QED
  BY <1>1, <1>2, <1>3, <1>4, <1>5, <1>6, <1>8, <1>9, <1>10

\* A party that can sign with a key that others can look up.
HasKey(key_id) ==
    key_id \in KeyIds /\ (key_id \in DidKeys => CarriedKey[key_id] \in Keys)

\* What such a party signs is a valid envelope, and verifies under the published keys.
LEMMA SignedVerifies ==
    ASSUME NEW key_id, HasKey(key_id), NEW document, required_signer(document) \in {None, key_id}
    PROVE  /\ signed(document, key_id).payload = document
           /\ valid_envelope(signed(document, key_id))
           /\ SignedBy(signed(document, key_id), key_id, KeyOf)
<1> DEFINE envelope == signed(document, key_id)
<1>1. envelope = [payload |-> document,
                  signatures |-> <<[key_id |-> key_id,
                                    value |-> ed25519(held(key_id), document)]>>]
  BY DEF signed, sign, Signature
<1>2. DOMAIN envelope.signatures = {1} /\ envelope.signatures # << >>
      /\ envelope.signatures[1].key_id = key_id
      /\ envelope.signatures[1].value = ed25519(held(key_id), document)
      /\ envelope.payload = document
  BY <1>1
<1>3. public_key(KeyOf, key_id) = held(key_id) /\ held(key_id) \in Keys
  BY HandoverAssumption DEF HasKey, public_key, held
<1>4. labels(envelope) = {key_id}
  BY <1>2 DEF labels
<1> HIDE DEF envelope
<1>5. valid_envelope(envelope)
  BY <1>2, <1>4 DEF valid_envelope
<1>6. SignedBy(envelope, key_id, KeyOf)
  BY <1>2, <1>3 DEF SignedBy
<1> QED
  BY <1>2, <1>5, <1>6 DEF envelope

\* A sound chain to the grant an honest agent acted under, when the dates are right: it is
\* what Verification calls one, and everybody who has to sign has a key.
LEMMA HonestChain ==
    ASSUME IInv, Traceable, NEW r \in asked, NEW c \in SoundChains,
           r.mandate_hash = digest(last(c)), last(c).issued_at =< r.issued_at,
           r.issued_at =< last(c).expires_at
    PROVE  /\ Len(c) \in Nat \ {0} /\ DOMAIN c = 1..Len(c) /\ last(c) = c[Len(c)]
           /\ c = [i \in 1..Len(c) |-> c[i]]
           /\ SoundChain(c)
           /\ \A i \in DOMAIN c : IsMandate(c[i]) /\ HasKey(required_signer(c[i]))
           /\ HasReceiptFields(r) /\ HasKey(required_signer(r))
           /\ TakenUnder(r, last(c))
           /\ Covers(last(c), r.action, r.issued_at)
<1>1. PICK n \in Nat \ {0} : n =< MAX_CHAIN_DEPTH /\ c \in [1..n -> mandates] /\ Sound(c)
  BY ChainIn DEF SoundChains
<1>2. Len(c) = n /\ DOMAIN c = 1..n /\ last(c) = c[n] /\ \A i \in 1..n : c[i] \in mandates
  BY <1>1, FiniteSequence
<1>3. \A i \in 1..n : /\ IsMandate(c[i])
                      /\ c[i].principal \in Principals /\ c[i].agent \in Agents
  BY <1>2 DEF IInv, GrantsOK, Traceable
<1>4. /\ c[1].delegated_from = None /\ n =< MAX_CHAIN_DEPTH
      /\ \A i, j \in 1..n : i < j => c[i].agent # c[j].agent
      /\ \A i \in 2..n : delegation_problems(c[i - 1], c[i]) = {}
  BY <1>1, SoundByPosition
<1>5. SoundChain(c)
  <2>1. ~ (n > MAX_CHAIN_DEPTH)
    BY <1>4, DepthAssumption
  <2>2. root_problems(c) = {}
    BY <1>2, <1>4, <2>1 DEF root_problems, When
  <2> QED
    BY <1>2, <1>3, <1>4, <2>2, CleanChain
<1>6. \A party \in Principals \cup Agents : HasKey(party.key_id)
  BY IssuanceAssumption, HandoverAssumption DEF HasKey, Principal, Agent
<1>7. ASSUME NEW i \in 1..n PROVE HasKey(required_signer(c[i]))
  <2>1. CASE c[i].delegated_from = None
    BY <1>3, <1>6, <2>1 DEF required_signer, IsMandate
  <2>2. CASE c[i].delegated_from # None
    <3>1. i \in 2..n /\ i - 1 \in 1..n
      BY <1>4, <2>2
    <3>2. c[i].delegated_from.agent = c[i - 1].agent
      BY <1>4, <2>2, <3>1 DEF delegation_problems, link_problems, When
    <3>3. required_signer(c[i]) = c[i - 1].agent.key_id
      BY <1>3, <2>2, <3>2 DEF required_signer, IsMandate
    <3> QED
      BY <1>3, <1>6, <3>1, <3>3
  <2> QED
    BY <2>1, <2>2
<1>8. r \in receipts /\ HasReceiptFields(r)
  BY DEF IInv, AskedOK, ReceiptsOK
<1>9. PICK m \in mandates : mandate_problems(m, r) \subseteq {"action_precedes_mandate"}
  BY DEF IInv, AskedOK, OnlyDatesComeBetween
<1>10. m = last(c)
  <2>1. r.mandate_hash = digest(m)
    BY <1>9 DEF mandate_problems, When
  <2> QED
    BY <2>1 DEF digest
<1>11. n \in 1..n /\ IsMandate(last(c)) /\ last(c).agent \in Agents
  BY <1>2, <1>3
<1>12. mandate_problems(last(c), r) = {}
  <2>1. ~ (r.issued_at < last(c).issued_at)
    BY <1>8, <1>11, MandateFields DEF HasReceiptFields, Timestamp
  <2>2. "action_precedes_mandate" \notin mandate_problems(last(c), r)
    BY <2>1 DEF mandate_problems, When
  <2> QED
    BY <1>9, <1>10, <2>2
<1>13. TakenUnder(r, last(c))
  BY <1>12 DEF mandate_problems, TakenUnder, When
<1>14. Covers(last(c), r.action, r.issued_at)
  BY <1>2, <1>11, <1>12, AskedMeans DEF AskedIsCovered
<1>15. HasKey(required_signer(r))
  <2>1. required_signer(r) = last(c).agent.key_id
    BY <1>8, <1>13 DEF required_signer, HasReceiptFields, TakenUnder
  <2> QED
    BY <1>6, <1>11, <2>1
<1> QED
  BY <1>1, <1>2, <1>3, <1>5, <1>7, <1>8, <1>13, <1>14, <1>15

\* An outcome goes back to the receipt it commits to, by all that Verification asks of it.
LEMMA HonestOutcome ==
    ASSUME IInv, Traceable, NEW o \in outcomes, NEW r, o.receipt_hash = digest(r)
    PROVE  /\ IsOutcome(o)
           /\ o.receipt_id = r.id /\ r.issued_at =< o.issued_at /\ r.decision # "deny"
<1>1. PICK s \in receipts : /\ o.receipt_hash = digest(s) /\ o.receipt_id = s.id
                            /\ s.issued_at =< o.issued_at /\ s.decision # "deny"
  BY DEF Traceable
<1>2. s = r
  BY <1>1 DEF digest
<1> QED
  BY <1>1, <1>2 DEF IInv, OutcomesOK

\* An envelope is neither a missing file nor one that cannot be used.
EnvelopesAreFiles ==
    \A document, key_id : signed(document, key_id) \notin {None, Unreadable, Escaping}

\* The papers of a call, whatever envelope they are led by: keys and grants.
LEMMA GrantsHold ==
    ASSUME EnvelopesAreFiles, IInv, Traceable, NEW r \in asked, NEW c \in SoundChains,
           r.mandate_hash = digest(last(c)), last(c).issued_at =< r.issued_at,
           r.issued_at =< last(c).expires_at,
           NEW papers, papers.keys = KeyOf,
           papers.mandates = [i \in DOMAIN c |-> signed(c[i], required_signer(c[i]))]
    PROVE  /\ papers.keys \notin {None, Unreadable, Escaping}
           /\ Judged(papers)!directory_usable(papers.keys)
           /\ Judged(papers)!listed = KeyOf
           /\ \A i \in DOMAIN papers.mandates :
                 /\ Judged(papers)!Holds(papers.mandates[i], "mandate")
                 /\ Judged(papers)!Authentic(papers.mandates[i])
           /\ Judged(papers)!Authorised(r,
                 [i \in DOMAIN papers.mandates |-> papers.mandates[i].payload])
<1>1. /\ papers.keys \notin {None, Unreadable, Escaping}
      /\ Judged(papers)!directory_usable(papers.keys)
      /\ Judged(papers)!listed = KeyOf
  <2>1. KeyOf \notin {None, Unreadable, Escaping} /\ DOMAIN KeyOf = KeyIds \ DidKeys
    BY HandoverAssumption
  <2>2. directory_usable(KeyOf)
    BY <2>1 DEF directory_usable
  <2> QED
    BY <2>1, <2>2, SameNotions
<1>2. /\ DOMAIN c = 1..Len(c) /\ last(c) = c[Len(c)] /\ c = [i \in 1..Len(c) |-> c[i]]
      /\ SoundChain(c) /\ TakenUnder(r, last(c)) /\ Covers(last(c), r.action, r.issued_at)
  BY HonestChain
<1>3. DOMAIN papers.mandates = 1..Len(c)
  BY <1>2
<1>4. ASSUME NEW i \in 1..Len(c)
      PROVE  /\ papers.mandates[i].payload = c[i]
             /\ Judged(papers)!Holds(papers.mandates[i], "mandate")
             /\ Judged(papers)!Authentic(papers.mandates[i])
  <2>1. papers.mandates[i] = signed(c[i], required_signer(c[i]))
    BY <1>2
  <2>2. IsMandate(c[i]) /\ HasKey(required_signer(c[i]))
    BY <1>2, HonestChain
  <2>3. /\ papers.mandates[i].payload = c[i]
        /\ valid_envelope(papers.mandates[i])
        /\ SignedBy(papers.mandates[i], required_signer(c[i]), KeyOf)
    BY <2>1, <2>2, SignedVerifies
  <2>4. c[i].type = "mandate" /\ papers.mandates[i] \notin {Unreadable, Escaping}
    BY <2>1, <2>2 DEF IsMandate, EnvelopesAreFiles
  <2>5. Judged(papers)!Holds(papers.mandates[i], "mandate")
    BY <2>3, <2>4, SameNotions DEF Judged!Holds
  <2>6. Judged(papers)!Authentic(papers.mandates[i])
    BY <1>1, <2>3, <2>4, SameNotions DEF Judged!Authentic
  <2> QED
    BY <2>3, <2>5, <2>6
<1>5. [i \in DOMAIN papers.mandates |-> papers.mandates[i].payload] = c
  BY <1>2, <1>3, <1>4
<1>6. Judged(papers)!Authorised(r, c)
  BY <1>2, SameNotions DEF Judged!Authorised
<1> QED
  BY <1>1, <1>3, <1>4, <1>5, <1>6

\* The papers with the receipt itself.
LEMMA ReceiptPapersHold ==
    ASSUME EnvelopesAreFiles, IInv, Traceable, NEW r \in asked, NEW c \in SoundChains,
           r.mandate_hash = digest(last(c)), last(c).issued_at =< r.issued_at,
           r.issued_at =< last(c).expires_at
    PROVE  Hold(PapersOf(c, r))
<1> DEFINE papers == PapersOf(c, r)
           author == required_signer(r)
<1>1. /\ papers.keys = KeyOf /\ papers.require = {author} /\ papers.receipt = None
      /\ papers.envelope = signed(r, author)
      /\ papers.mandates = [i \in DOMAIN c |-> signed(c[i], required_signer(c[i]))]
  BY DEF PapersOf, jwks
<1> HIDE DEF papers
<1>2. HasReceiptFields(r) /\ HasKey(author)
  BY HonestChain
<1>3. /\ papers.envelope.payload = r /\ valid_envelope(papers.envelope)
      /\ SignedBy(papers.envelope, author, KeyOf)
  BY <1>1, <1>2, SignedVerifies
<1>4. papers.envelope \notin {Unreadable, Escaping} /\ r.type = "action"
  BY <1>1, <1>2 DEF EnvelopesAreFiles, HasReceiptFields
<1>5. /\ papers.keys \notin {None, Unreadable, Escaping}
      /\ Judged(papers)!directory_usable(papers.keys)
      /\ Judged(papers)!listed = KeyOf
      /\ \A i \in DOMAIN papers.mandates :
            /\ Judged(papers)!Holds(papers.mandates[i], "mandate")
            /\ Judged(papers)!Authentic(papers.mandates[i])
      /\ Judged(papers)!Authorised(r,
            [i \in DOMAIN papers.mandates |-> papers.mandates[i].payload])
  BY <1>1, GrantsHold
<1>6. Judged(papers)!Holds(papers.envelope, "action")
  BY <1>3, <1>4, SameNotions DEF Judged!Holds
<1>7. Judged(papers)!Authentic(papers.envelope)
      /\ \A k \in papers.require : Judged(papers)!SignedBy(papers.envelope, k, Judged(papers)!listed)
  BY <1>1, <1>3, <1>4, <1>5, SameNotions DEF Judged!Authentic
<1>8. Judged(papers)!Acceptable
  BY <1>1, <1>5, <1>6 DEF Judged!Acceptable
<1>9. Judged(papers)!Convincing
  BY <1>1, <1>3, <1>5, <1>7 DEF Judged!Convincing
<1> QED
  BY <1>8, <1>9 DEF Hold, papers

\* The papers with an outcome of the call, and the receipt beside it.
LEMMA OutcomePapersHold ==
    ASSUME EnvelopesAreFiles, IInv, Traceable, NEW r \in asked, NEW c \in SoundChains,
           r.mandate_hash = digest(last(c)), last(c).issued_at =< r.issued_at,
           r.issued_at =< last(c).expires_at,
           NEW o \in outcomes, o.receipt_hash = digest(r)
    PROVE  Hold(AttestedPapersOf(c, r, o))
<1> DEFINE papers == AttestedPapersOf(c, r, o)
           author == required_signer(r)
<1>1. /\ papers.keys = KeyOf /\ papers.require = {Witness}
      /\ papers.receipt = signed(r, author)
      /\ papers.envelope = signed(o, Witness)
      /\ papers.mandates = [i \in DOMAIN c |-> signed(c[i], required_signer(c[i]))]
  BY DEF AttestedPapersOf, PapersOf, jwks
<1> HIDE DEF papers
<1>2. HasReceiptFields(r) /\ HasKey(author) /\ IsOutcome(o) /\ HasKey(Witness)
      /\ required_signer(o) = None
  <2>1. HasReceiptFields(r) /\ HasKey(author)
    BY HonestChain
  <2>2. IsOutcome(o) /\ HasKey(Witness)
    BY HonestOutcome, HandoverAssumption DEF HasKey
  <2> QED
    BY <2>1, <2>2 DEF IsOutcome, required_signer
<1>3. /\ papers.receipt.payload = r /\ valid_envelope(papers.receipt)
      /\ SignedBy(papers.receipt, author, KeyOf)
  BY <1>1, <1>2, SignedVerifies
<1>4. /\ papers.envelope.payload = o /\ valid_envelope(papers.envelope)
      /\ SignedBy(papers.envelope, Witness, KeyOf)
  BY <1>1, <1>2, SignedVerifies
<1>5. /\ papers.envelope \notin {Unreadable, Escaping} /\ papers.receipt \notin {None, Unreadable, Escaping}
      /\ r.type = "action" /\ o.type = "outcome" /\ Witness \in KeyIds
  BY <1>1, <1>2 DEF EnvelopesAreFiles, HasReceiptFields, IsOutcome, HasKey
<1>6. /\ papers.keys \notin {None, Unreadable, Escaping}
      /\ Judged(papers)!directory_usable(papers.keys)
      /\ Judged(papers)!listed = KeyOf
      /\ \A i \in DOMAIN papers.mandates :
            /\ Judged(papers)!Holds(papers.mandates[i], "mandate")
            /\ Judged(papers)!Authentic(papers.mandates[i])
      /\ Judged(papers)!Authorised(r,
            [i \in DOMAIN papers.mandates |-> papers.mandates[i].payload])
  BY <1>1, GrantsHold
<1>7. Judged(papers)!Holds(papers.envelope, "outcome")
      /\ Judged(papers)!Holds(papers.receipt, "action")
  BY <1>3, <1>4, <1>5, SameNotions DEF Judged!Holds
<1>8. /\ Judged(papers)!Authentic(papers.envelope)
      /\ Judged(papers)!Authentic(papers.receipt)
      /\ \A k \in papers.require : Judged(papers)!SignedBy(papers.envelope, k, Judged(papers)!listed)
  <2>1. Judged(papers)!Authentic(papers.receipt)
    BY <1>3, <1>5, <1>6, SameNotions DEF Judged!Authentic
  <2>2. Judged(papers)!Authentic(papers.envelope)
    BY <1>4, <1>5, <1>6, SameNotions DEF Judged!Authentic
  <2> QED
    BY <1>1, <1>4, <1>6, <2>1, <2>2, SameNotions
<1>9. Judged(papers)!OutcomeStands(o, r)
  BY HonestOutcome, SameNotions DEF Judged!OutcomeStands
<1>10. Judged(papers)!Acceptable
  BY <1>5, <1>6, <1>7 DEF Judged!Acceptable
<1>11. Judged(papers)!Convincing
  BY <1>3, <1>4, <1>5, <1>6, <1>8, <1>9 DEF Judged!Convincing
<1> QED
  BY <1>10, <1>11 DEF Hold, papers

\* An honest agent can prove what it did: whatever else was published, and by whomever, the
\* papers for a call it asked about and dated right verify along any sound chain to its grant,
\* and so do the papers with any outcome that was reported for the call.
THEOREM HonestAgentsProveIt ==
    ASSUME EnvelopesAreFiles
    PROVE  Spec => []HonestPapersHold
<1>1. IInv /\ Traceable => HonestPapersHold
  BY ReceiptPapersHold, OutcomePapersHold DEF HonestPapersHold
<1> QED
  BY <1>1, AlwaysTraceable, PTL
=============================================================================
