-------------------------- MODULE Authority_proofs --------------------------
(***************************************************************************)
(* Lemmas about the checks of scope.py, delegation.py and binding.py: what *)
(* an empty report means, and that what it means composes along a chain.   *)
(***************************************************************************)
EXTENDS Authority, SequenceTheorems, WellFoundedInduction, TLAPS

\* Induction, with the property given as the set of numbers that have it.
LEMMA NatSetInduction ==
    ASSUME NEW S, 0 \in S, \A n \in Nat : n \in S => n + 1 \in S
    PROVE  Nat \subseteq S
<1> DEFINE T == Nat \ S
           R == OpToRel(<, Nat)
<1> SUFFICES ASSUME T # {} PROVE FALSE
  OBVIOUS
<1>1. IsWellFoundedOn(R, Nat)
  BY NatLessThanWellFounded
<1>2. T \subseteq Nat
  OBVIOUS
<1> HIDE DEF R, T
<1>3. PICK n \in T : \A m \in T : <<m, n>> \notin R
  BY <1>1, <1>2, WFMin
<1>4. n \in Nat /\ n \notin S /\ n # 0
  BY DEF T
<1>5. n - 1 \in Nat /\ n - 1 \notin S
  BY <1>4
<1>6. <<n - 1, n>> \in R
  BY <1>4, <1>5 DEF R, OpToRel
<1> QED BY <1>3, <1>5, <1>6 DEF T

\* What the loops rely on: a tuple grows by one element at its end.
LEMMA SequenceGrows ==
    ASSUME NEW s, IsSequence(s), NEW v
    PROVE  /\ Len(s) \in Nat /\ DOMAIN s = 1..Len(s)
           /\ IsSequence(Append(s, v))
           /\ Len(Append(s, v)) = Len(s) + 1 /\ DOMAIN Append(s, v) = 1..(Len(s) + 1)
           /\ \A i \in 1..Len(s) : Append(s, v)[i] = s[i]
           /\ Append(s, v)[Len(s) + 1] = v
<1> DEFINE T == {s[i] : i \in DOMAIN s} \cup {v}
<1>1. s \in Seq(T) /\ v \in T
  BY DEF IsSequence
<1>2. /\ Len(s) \in Nat /\ DOMAIN s = 1..Len(s)
      /\ Append(s, v) \in Seq(T)
      /\ Len(Append(s, v)) = Len(s) + 1 /\ DOMAIN Append(s, v) = 1..(Len(s) + 1)
      /\ \A i \in 1..Len(s) : Append(s, v)[i] = s[i]
      /\ Append(s, v)[Len(s) + 1] = v
  BY <1>1
<1>3. Append(s, v) \in Seq({Append(s, v)[i] : i \in DOMAIN Append(s, v)})
  BY <1>2
<1> QED
  BY <1>2, <1>3 DEF IsSequence

LEMMA SequenceDomain ==
    ASSUME NEW s, IsSequence(s)
    PROVE  Len(s) \in Nat /\ DOMAIN s = 1..Len(s)
BY DEF IsSequence

\* The money of two documents compares as numbers once both state some.
LEMMA MoneyFields ==
    ASSUME NEW m \in Money \cup {None}, m # None
    PROVE  m.amount \in Int
BY DEF Money

\* Being within a ceiling composes, the absent ceiling included.
LEMMA ValueWithinTransitive ==
    ASSUME NEW x \in Money \cup {None}, NEW y \in Money \cup {None}, NEW z \in Money \cup {None},
           ValueWithin(x, y), ValueWithin(y, z)
    PROVE  ValueWithin(x, z)
<1>1. SUFFICES ASSUME z # None
               PROVE  x # None /\ x.currency = z.currency /\ x.amount =< z.amount
  BY DEF ValueWithin
<1>2. y # None /\ y.currency = z.currency /\ y.amount =< z.amount
  BY <1>1 DEF ValueWithin
<1>3. x # None /\ x.currency = y.currency /\ x.amount =< y.amount
  BY <1>2 DEF ValueWithin
<1>4. x.amount \in Int /\ y.amount \in Int /\ z.amount \in Int
  BY <1>1, <1>2, <1>3, MoneyFields
<1> QED
  BY <1>2, <1>3, <1>4

\* The typed fields of a grant that the comparisons use.
LEMMA MandateFields ==
    ASSUME NEW m, IsMandate(m)
    PROVE  /\ m.issued_at \in Int
           /\ m.expires_at \in Int
           /\ m.max_value \in Money \cup {None}
BY DEF IsMandate, Timestamp

\* delegation.py compares neighbours; narrowing composes over any distance.
LEMMA NarrowerTransitive ==
    ASSUME NEW a, NEW b, NEW c, IsMandate(a), IsMandate(b), IsMandate(c),
           Narrower(b, a), Narrower(c, b)
    PROVE  Narrower(c, a)
<1>1. c.scope \subseteq a.scope /\ c.principal = a.principal
  BY DEF Narrower
<1>2. a.issued_at =< c.issued_at /\ c.expires_at =< a.expires_at
  BY MandateFields DEF Narrower
<1>3. ValueWithin(c.max_value, a.max_value)
  <2>1. ValueWithin(c.max_value, b.max_value) /\ ValueWithin(b.max_value, a.max_value)
    BY DEF Narrower
  <2> QED
    BY <2>1, MandateFields, ValueWithinTransitive
<1> QED
  BY <1>1, <1>2, <1>3 DEF Narrower

LEMMA NarrowerItself ==
    ASSUME NEW grant, IsMandate(grant)
    PROVE  Narrower(grant, grant)
<1>1. ValueWithin(grant.max_value, grant.max_value)
  BY MandateFields, MoneyFields DEF ValueWithin
<1> QED
  BY <1>1, MandateFields DEF Narrower

\* What a grant covers, every grant it was narrowed from covers too.
LEMMA NarrowerCovers ==
    ASSUME NEW child, NEW parent, IsMandate(child), IsMandate(parent), Narrower(child, parent),
           NEW action \in Action, NEW at \in Int, Covers(child, action, at)
    PROVE  Covers(parent, action, at)
<1>1. action.type \in parent.scope
  BY DEF Covers, Narrower
<1>2. parent.issued_at =< at /\ at =< parent.expires_at
  BY MandateFields DEF Covers, Narrower
<1>3. ValueWithin(action.value, parent.max_value)
  <2>1. action.value \in Money \cup {None}
    BY DEF Action
  <2>2. ValueWithin(action.value, child.max_value)
    BY DEF Covers
  <2>3. ValueWithin(child.max_value, parent.max_value)
    BY DEF Narrower
  <2> QED
    BY <2>1, <2>2, <2>3, MandateFields, ValueWithinTransitive
<1> QED
  BY <1>1, <1>2, <1>3 DEF Covers

\* The ceiling checks of scope.py and of delegation.py are the same comparison.
LEMMA ValueViolations ==
    ASSUME NEW value \in Money \cup {None}, NEW ceiling \in Money \cup {None}
    PROVE  /\ value_violations(ceiling, value) = {} <=> ValueWithin(value, ceiling)
           /\ ceiling_problems(ceiling, value) = {} <=> ValueWithin(value, ceiling)
<1>1. CASE ceiling = None \/ value = None
  BY <1>1 DEF value_violations, ceiling_problems, ValueWithin
<1>2. CASE ceiling # None /\ value # None
  <2>1. value.amount \in Int /\ ceiling.amount \in Int
    BY <1>2, MoneyFields
  <2>2. value.amount > ceiling.amount <=> ~ (value.amount =< ceiling.amount)
    BY <2>1
  <2> QED
    BY <1>2, <2>2 DEF value_violations, ceiling_problems, ValueWithin, When
<1> QED
  BY <1>1, <1>2

\* An empty delegation_problems says exactly that the child was passed on by the parent.
LEMMA CleanLink ==
    ASSUME NEW parent, NEW child, IsMandate(parent), IsMandate(child)
    PROVE  delegation_problems(parent, child) = {} <=> PassedOn(child, parent)
<1> DEFINE link == child.delegated_from
<1>1. CASE link = None
  BY <1>1 DEF delegation_problems, PassedOn
<1>2. CASE link # None
  <2>1. link = DelegationLink(link.mandate_id, link.mandate_hash, link.agent)
    BY <1>2 DEF IsMandate, IsDelegationLink
  <2>2. link = DelegationLink(parent.id, digest(parent), parent.agent)
           <=> link.mandate_id = parent.id /\ link.mandate_hash = digest(parent)
                  /\ link.agent = parent.agent
    BY <2>1 DEF DelegationLink
  <2>3. link_problems(parent, child, link) = {}
           <=> /\ link.mandate_id = parent.id /\ link.mandate_hash = digest(parent)
                  /\ link.agent = parent.agent
               /\ child.principal = parent.principal
               /\ parent.issued_at =< child.issued_at
               /\ child.issued_at =< parent.expires_at
    BY MandateFields DEF link_problems, When
  <2>4. attenuation_problems(parent, child) = {}
           <=> /\ child.scope \subseteq parent.scope
               /\ child.expires_at =< parent.expires_at
               /\ ValueWithin(child.max_value, parent.max_value)
    <3>1. ceiling_problems(parent.max_value, child.max_value) = {}
             <=> ValueWithin(child.max_value, parent.max_value)
      BY MandateFields, ValueViolations
    <3> QED
      BY <3>1, MandateFields DEF attenuation_problems, When
  <2>5. delegation_problems(parent, child) = {}
           <=> link_problems(parent, child, link) = {}
                  /\ attenuation_problems(parent, child) = {}
    BY <1>2 DEF delegation_problems
  <2> QED
    BY <1>2, <2>2, <2>3, <2>4, <2>5 DEF PassedOn, Narrower
<1> QED
  BY <1>1, <1>2

\* An empty mandate_problems says exactly that the receipt was recorded under the grant.
LEMMA CleanGrant ==
    ASSUME NEW grant, NEW receipt, IsMandate(grant), IsReceipt(receipt)
    PROVE  mandate_problems(grant, receipt) = {} <=> TakenUnder(receipt, grant)
BY DEF mandate_problems, TakenUnder, When, IsMandate, IsReceipt, Timestamp

\* A clean check of a grant in force says exactly that it covers the action.
LEMMA CleanPermits ==
    ASSUME NEW grant, IsMandate(grant), NEW action \in Action, NEW at \in Int,
           grant.issued_at =< at
    PROVE  permits(grant, action, at) = {} <=> Covers(grant, action, at)
<1>1. action.value \in Money \cup {None}
  BY DEF Action
<1>2. value_violations(grant.max_value, action.value) = {}
         <=> ValueWithin(action.value, grant.max_value)
  BY <1>1, MandateFields, ValueViolations
<1> QED
  BY <1>2, MandateFields DEF permits, Covers, When

\* No violation, on a grant that was in force, says exactly that the grant covers the action.
LEMMA CleanScope ==
    ASSUME NEW grant, NEW receipt, IsMandate(grant), IsReceipt(receipt),
           grant.issued_at =< receipt.issued_at
    PROVE  scope_violations(grant, receipt) = {}
              <=> Covers(grant, receipt.action, receipt.issued_at)
<1>1. receipt.action \in Action /\ receipt.issued_at \in Int
  BY DEF IsReceipt, Timestamp
<1> QED
  BY <1>1, CleanPermits DEF scope_violations

\* A receipt is within what its last grant authorises exactly when both of the checks that
\* _report_scope rests on come up clean.
LEMMA CleanAction ==
    ASSUME NEW grant, NEW receipt, IsMandate(grant), IsReceipt(receipt)
    PROVE  mandate_problems(grant, receipt) = {} /\ ~ allowed_beyond_mandate(grant, receipt)
              <=> /\ TakenUnder(receipt, grant)
                  /\ \/ receipt.decision = "deny"
                     \/ Covers(grant, receipt.action, receipt.issued_at)
<1>1. mandate_problems(grant, receipt) = {} <=> TakenUnder(receipt, grant)
  BY CleanGrant
<1>2. ASSUME TakenUnder(receipt, grant)
      PROVE  allowed_beyond_mandate(grant, receipt)
                <=> ~ (\/ receipt.decision = "deny"
                       \/ Covers(grant, receipt.action, receipt.issued_at))
  <2>1. grant.issued_at =< receipt.issued_at
    BY <1>2 DEF TakenUnder
  <2> QED
    BY <2>1, CleanScope DEF allowed_beyond_mandate
<1> QED
  BY <1>1, <1>2

\* An empty binding_problems says exactly that the outcome stands on the receipt's action.
LEMMA CleanOutcome ==
    ASSUME NEW receipt, NEW outcome, IsReceipt(receipt), IsOutcome(outcome)
    PROVE  binding_problems(receipt, outcome) = {}
              <=> /\ outcome.receipt_id = receipt.id
                  /\ outcome.receipt_hash = digest(receipt)
                  /\ receipt.issued_at =< outcome.issued_at
                  /\ receipt.decision # "deny"
BY DEF binding_problems, When, IsReceipt, IsOutcome, Timestamp

\* Clean reports at every position of a chain say exactly that the chain is sound.
LEMMA CleanChain ==
    ASSUME NEW chain, NEW n \in Nat \ {0}, Len(chain) = n, DOMAIN chain = 1..n,
           \A i \in 1..n : IsMandate(chain[i])
    PROVE  (/\ root_problems(chain) = {}
            /\ \A i \in 2..n : delegation_problems(chain[i - 1], chain[i]) = {})
              <=> SoundChain(chain)
<1>1. root_problems(chain) = {}
         <=> /\ chain[1].delegated_from = None
             /\ ~ (n > MAX_CHAIN_DEPTH)
             /\ ~ \E i, j \in 1..n : i < j /\ chain[i].agent = chain[j].agent
  BY DEF root_problems, When
<1>2. ~ (n > MAX_CHAIN_DEPTH) <=> n \in 1..MAX_CHAIN_DEPTH
  BY DepthAssumption
<1>3. (~ \E i, j \in 1..n : i < j /\ chain[i].agent = chain[j].agent)
         <=> \A i, j \in 1..n : chain[i].agent = chain[j].agent => i = j
  <2>1. \A i, j \in 1..n : i # j <=> i < j \/ j < i
    OBVIOUS
  <2> QED
    BY <2>1
<1>4. ASSUME NEW i \in 2..n
      PROVE  delegation_problems(chain[i - 1], chain[i]) = {} <=> PassedOn(chain[i], chain[i - 1])
  <2>1. i - 1 \in 1..n /\ i \in 1..n
    OBVIOUS
  <2> QED
    BY <2>1, CleanLink
<1>5. (1..n) \ {1} = 2..n
  OBVIOUS
<1> QED
  BY <1>1, <1>2, <1>3, <1>4, <1>5 DEF SoundChain

\* verified_signers lists exactly the key ids whose key signed the payload.
LEMMA VerifiedIsSignedBy ==
    ASSUME NEW envelope, NEW listed, NEW k, public_key(listed, k) \in Keys \cup {None}
    PROVE  k \in verified_signers(envelope, listed) <=> SignedBy(envelope, k, listed)
<1>1. public_key(listed, k) # None <=> public_key(listed, k) \in Keys
  BY DidAssumption
<1>2. ASSUME NEW i \in DOMAIN envelope.signatures, envelope.signatures[i].key_id = k
      PROVE  k \in labels(envelope)
  BY <1>2 DEF labels
<1> QED
  BY <1>1, <1>2 DEF verified_signers, SignedBy

-----------------------------------------------------------------------------
(***************************************************************************)
(* Lemmas about the chains and the runs that can be put together out of a  *)
(* set of documents, and about adding one document to the set.  A document *)
(* commits to its predecessor by digest, which decides the chain or the    *)
(* run that leads to it, link by link.                                     *)
(***************************************************************************)

\* A nonempty sequence made by its domain.
LEMMA FiniteSequence ==
    ASSUME NEW S, NEW n \in Nat \ {0}, NEW c \in [1..n -> S]
    PROVE  /\ c \in Seq(S) /\ Len(c) = n /\ DOMAIN c = 1..n /\ c # << >>
           /\ last(c) = c[n] /\ last(c) \in S
<1>1. c \in Seq(S)
  BY SeqDef
<1>2. Len(c) = n /\ DOMAIN c = 1..n
  BY <1>1, LenProperties
<1> QED
  BY <1>1, <1>2 DEF last

\* The first so many elements.
upto(c, k) == [i \in 1..k |-> c[i]]

\* Two sequences with the same last element and the same elements before it are one.
LEMMA SameFront ==
    ASSUME NEW S, NEW n \in Nat \ {0, 1}, NEW c \in [1..n -> S],
           NEW k \in Nat \ {0, 1}, NEW d \in [1..k -> S],
           c[n] = d[k], upto(c, n - 1) = upto(d, k - 1)
    PROVE  c = d
<1>1. upto(c, n - 1) \in [1..(n - 1) -> S] /\ upto(d, k - 1) \in [1..(k - 1) -> S]
  BY DEF upto
<1>2. n - 1 \in Nat \ {0} /\ k - 1 \in Nat \ {0}
  OBVIOUS
<1>3. n - 1 = k - 1
  BY <1>1, <1>2, FiniteSequence
<1>4. n = k
  BY <1>3
<1>5. \A i \in 1..(n - 1) : c[i] = upto(c, n - 1)[i] /\ d[i] = upto(d, k - 1)[i]
  BY <1>4 DEF upto
<1>6. \A i \in 1..n : c[i] = d[i]
  BY <1>4, <1>5
<1> QED
  BY <1>4, <1>6

-----------------------------------------------------------------------------
(***************************************************************************)
(* Chains of grants.                                                       *)
(***************************************************************************)

\* Sound, position by position.
LEMMA SoundByPosition ==
    ASSUME NEW S, NEW n \in Nat \ {0}, NEW c \in [1..n -> S]
    PROVE  Sound(c) <=>
              /\ c[1].delegated_from = None
              /\ n =< MAX_CHAIN_DEPTH
              /\ \A i, j \in 1..n : i < j => c[i].agent # c[j].agent
              /\ \A i \in 2..n : delegation_problems(c[i - 1], c[i]) = {}
<1>1. Len(c) = n /\ DOMAIN c = 1..n /\ c # << >>
  BY FiniteSequence
<1>2. Sound(c) <=> /\ root_problems(c) = {}
                   /\ \A i \in 2..n : delegation_problems(c[i - 1], c[i]) = {}
  <2>1. chain_problems(c) = [i \in 1..n |-> IF i = 1 THEN root_problems(c)
                                              ELSE delegation_problems(c[i - 1], c[i])]
    BY <1>1 DEF chain_problems
  <2>2. chain_problems(c)[1] = root_problems(c)
    BY <2>1
  <2>3. \A i \in 2..n : chain_problems(c)[i] = delegation_problems(c[i - 1], c[i])
    BY <2>1
  <2>4. Sound(c) <=> \A i \in 1..n : chain_problems(c)[i] = {}
    BY <1>1 DEF Sound
  <2>5. \A i : i \in 1..n <=> (i = 1 \/ i \in 2..n)
    OBVIOUS
  <2> QED
    BY <2>2, <2>3, <2>4, <2>5
<1>3. root_problems(c) = {} <=>
          /\ c[1].delegated_from = None
          /\ ~ (n > MAX_CHAIN_DEPTH)
          /\ ~ \E i, j \in 1..n : i < j /\ c[i].agent = c[j].agent
  BY <1>1 DEF root_problems, When
<1>4. ~ (n > MAX_CHAIN_DEPTH) <=> n =< MAX_CHAIN_DEPTH
  BY DepthAssumption
<1> QED
  BY <1>2, <1>3, <1>4

LEMMA ChainIn ==
    ASSUME NEW S, NEW c
    PROVE  c \in SoundChainsOf(S) <=>
              \E n \in Nat \ {0} : n =< MAX_CHAIN_DEPTH /\ c \in [1..n -> S] /\ Sound(c)
<1>1. \A n : n \in 1..MAX_CHAIN_DEPTH <=> (n \in Nat \ {0} /\ n =< MAX_CHAIN_DEPTH)
  BY DepthAssumption
<1> QED
  BY <1>1 DEF SoundChainsOf

\* A link commits to its parent.
LEMMA LinkCommits ==
    ASSUME NEW parent, NEW child, delegation_problems(parent, child) = {}
    PROVE  child.delegated_from # None /\ child.delegated_from.mandate_hash = digest(parent)
BY DEF delegation_problems, link_problems, When

\* A sound chain of so many grants of a set, and what there is to know of it.
ChainOver(S, n, c) == n \in Nat \ {0} /\ c \in [1..n -> S] /\ Sound(c)

Grants(S) == \A g \in S : IsMandate(g)

LEMMA ChainFacts ==
    ASSUME NEW S, NEW n, NEW c, ChainOver(S, n, c)
    PROVE  /\ n \in Nat \ {0} /\ DOMAIN c = 1..n /\ \A i \in 1..n : c[i] \in S
           /\ c[1].delegated_from = None
           /\ \A i, j \in 1..n : i # j => c[i].agent # c[j].agent
           /\ \A i \in 2..n : delegation_problems(c[i - 1], c[i]) = {}
<1>1. n \in Nat \ {0} /\ c \in [1..n -> S] /\ Sound(c)
  BY DEF ChainOver
<1>2. /\ c[1].delegated_from = None
      /\ \A i, j \in 1..n : i < j => c[i].agent # c[j].agent
      /\ \A i \in 2..n : delegation_problems(c[i - 1], c[i]) = {}
  BY <1>1, SoundByPosition
<1>3. \A i, j \in 1..n : i # j => i < j \/ j < i
  OBVIOUS
<1>4. \A i, j \in 1..n : i # j => c[i].agent # c[j].agent
  BY <1>2, <1>3
<1> QED
  BY <1>1, <1>2, <1>4

\* What comes first in a sound chain is a sound chain.
LEMMA SoundPrefix ==
    ASSUME NEW S, NEW n \in Nat \ {0}, NEW c \in [1..n -> S], Sound(c), NEW k \in 1..n
    PROVE  Sound(upto(c, k))
<1> DEFINE f == upto(c, k)
<1>1. k \in Nat \ {0} /\ k =< n /\ f \in [1..k -> S]
  BY DEF upto
<1>2. \A i \in 1..k : f[i] = c[i]
  BY DEF upto
<1>3. /\ c[1].delegated_from = None
      /\ n =< MAX_CHAIN_DEPTH
      /\ \A i, j \in 1..n : i < j => c[i].agent # c[j].agent
      /\ \A i \in 2..n : delegation_problems(c[i - 1], c[i]) = {}
  BY SoundByPosition
<1>4. f[1].delegated_from = None /\ k =< MAX_CHAIN_DEPTH
  BY <1>1, <1>2, <1>3, DepthAssumption
<1>5. \A i, j \in 1..k : i < j => f[i].agent # f[j].agent
  BY <1>1, <1>2, <1>3
<1>6. \A i \in 2..k : delegation_problems(f[i - 1], f[i]) = {}
  <2>1. ASSUME NEW i \in 2..k
        PROVE  delegation_problems(f[i - 1], f[i]) = {}
    <3>1. i \in 2..n /\ i - 1 \in 1..k /\ i \in 1..k
      BY <1>1
    <3>2. f[i - 1] = c[i - 1] /\ f[i] = c[i]
      BY <1>2, <3>1
    <3> QED
      BY <1>3, <3>1, <3>2
  <2> QED
    BY <2>1
<1> HIDE DEF f
<1>7. Sound(f)
  BY <1>1, <1>4, <1>5, <1>6, SoundByPosition
<1> QED
  BY <1>7 DEF f

\* Where it ends stands by it, in any set that holds it.
LEMMA PrefixIn ==
    ASSUME NEW S, NEW n \in Nat \ {0}, NEW c \in [1..n -> S], Sound(c), NEW k \in 1..n,
           NEW R, \A i \in 1..k : c[i] \in R
    PROVE  upto(c, k) \in SoundChainsOf(R) /\ last(upto(c, k)) = c[k]
<1>1. Sound(upto(c, k))
  BY SoundPrefix
<1>2. k \in Nat \ {0} /\ k \in 1..k /\ k =< MAX_CHAIN_DEPTH
  <2>1. n =< MAX_CHAIN_DEPTH
    BY SoundByPosition
  <2> QED
    BY <2>1, DepthAssumption
<1>3. upto(c, k) \in [1..k -> R] /\ upto(c, k)[k] = c[k]
  BY <1>2 DEF upto
<1>4. last(upto(c, k)) = upto(c, k)[k]
  BY <1>2, <1>3, FiniteSequence
<1> QED
  BY <1>1, <1>2, <1>3, <1>4, ChainIn

LEMMA ChainEnds ==
    ASSUME NEW S, NEW c \in SoundChainsOf(S)
    PROVE  last(c) \in S
BY ChainIn, FiniteSequence

LEMMA ChainStays ==
    ASSUME NEW S, NEW m, NEW c \in SoundChainsOf(S)
    PROVE  c \in SoundChainsOf(S \cup {m})
<1>1. PICK n \in Nat \ {0} : n =< MAX_CHAIN_DEPTH /\ c \in [1..n -> S] /\ Sound(c)
  BY ChainIn
<1>2. c \in [1..n -> S \cup {m}]
  BY <1>1
<1> QED
  BY <1>1, <1>2, ChainIn

\* Two sound chains that end in the same grant came there over the same grants.
LEMMA SameEnd ==
    ASSUME NEW S, NEW n, NEW c, ChainOver(S, n, c), n # 1, NEW k, NEW d, ChainOver(S, k, d),
           c[n] = d[k]
    PROVE  k # 1 /\ c[n - 1] = d[k - 1]
<1>1. n \in 2..n /\ k \in Nat \ {0}
  BY ChainFacts
<1>2. delegation_problems(c[n - 1], c[n]) = {}
  BY <1>1, ChainFacts
<1>3. c[n].delegated_from # None /\ c[n].delegated_from.mandate_hash = digest(c[n - 1])
  BY <1>2, LinkCommits
<1>4. k # 1
  <2>1. d[1].delegated_from = None
    BY ChainFacts
  <2> QED
    BY <1>3, <2>1
<1>5. k \in 2..k
  BY <1>1, <1>4
<1>6. delegation_problems(d[k - 1], d[k]) = {}
  BY <1>5, ChainFacts
<1>7. d[k].delegated_from.mandate_hash = digest(d[k - 1])
  BY <1>6, LinkCommits
<1>8. digest(c[n - 1]) = digest(d[k - 1])
  BY <1>3, <1>7
<1> QED
  BY <1>4, <1>8 DEF digest

\* At most one chain leads to a grant.
OneChain(S) == \A c, d \in SoundChainsOf(S) : last(c) = last(d) => c = d

\* By induction on the length of the one chain.
LEMMA OneChainHolds ==
    ASSUME NEW S
    PROVE  OneChain(S)
<1> DEFINE Alike(n) ==
        \A c \in [1..n -> S], k \in Nat \ {0} : \A d \in [1..k -> S] :
            Sound(c) /\ Sound(d) /\ c[n] = d[k] => c = d
    T == {n \in Nat : Alike(n + 1)}
<1>1. Alike(1)
  <2> SUFFICES ASSUME NEW c \in [1..1 -> S], NEW k \in Nat \ {0}, NEW d \in [1..k -> S],
                      Sound(c), Sound(d), c[1] = d[k]
               PROVE  c = d
    OBVIOUS
  <2>1. CASE k = 1
    BY <2>1
  <2>2. CASE k # 1
    <3>1. ChainOver(S, 1, c) /\ ChainOver(S, k, d)
      BY DEF ChainOver
    <3> QED
      BY <2>2, <3>1, SameEnd
  <2> QED
    BY <2>1, <2>2
<1>2. ASSUME NEW n \in Nat \ {0}, Alike(n)
      PROVE  Alike(n + 1)
  <2> SUFFICES ASSUME NEW c \in [1..(n + 1) -> S], NEW k \in Nat \ {0}, NEW d \in [1..k -> S],
                      Sound(c), Sound(d), c[n + 1] = d[k]
               PROVE  c = d
    OBVIOUS
  <2>1. /\ n + 1 \in Nat \ {0, 1} /\ n + 1 \in Nat \ {0} /\ n \in 1..(n + 1)
        /\ (n + 1) - 1 = n /\ n \in 1..n
    OBVIOUS
  <2>2. k # 1 /\ c[n] = d[k - 1]
    <3>1. ChainOver(S, n + 1, c) /\ ChainOver(S, k, d) /\ n + 1 # 1
      BY DEF ChainOver
    <3>2. k # 1 /\ c[(n + 1) - 1] = d[k - 1]
      BY <3>1, SameEnd
    <3> QED
      BY <2>1, <3>2
  <2>3. k \in Nat \ {0, 1} /\ k - 1 \in Nat \ {0} /\ k - 1 \in 1..k /\ k - 1 \in 1..(k - 1)
    BY <2>2
  <2>4. Sound(upto(c, n)) /\ Sound(upto(d, k - 1))
    BY <2>1, <2>3, SoundPrefix
  <2>5. /\ upto(c, n) \in [1..n -> S] /\ upto(c, n)[n] = c[n]
        /\ upto(d, k - 1) \in [1..(k - 1) -> S] /\ upto(d, k - 1)[k - 1] = d[k - 1]
    BY <2>1, <2>3 DEF upto
  <2>6. upto(c, n) = upto(d, k - 1)
    BY <1>2, <2>2, <2>3, <2>4, <2>5
  <2>7. upto(c, (n + 1) - 1) = upto(d, k - 1)
    BY <2>1, <2>6
  <2> QED
    BY <2>1, <2>3, <2>7, SameFront
<1> HIDE DEF Alike
<1>3. 0 \in T /\ \A n \in Nat : n \in T => n + 1 \in T
  BY <1>1, <1>2
<1>4. Nat \subseteq T
  <2> HIDE DEF T
  <2> QED
    BY <1>3, NatSetInduction
<1>5. ASSUME NEW n \in Nat \ {0}
      PROVE  Alike(n)
  <2>1. n - 1 \in T /\ (n - 1) + 1 = n
    BY <1>4
  <2> QED
    BY <2>1
<1>6. ASSUME NEW c \in SoundChainsOf(S), NEW d \in SoundChainsOf(S), last(c) = last(d)
      PROVE  c = d
  <2>1. PICK n \in Nat \ {0} : c \in [1..n -> S] /\ Sound(c)
    BY ChainIn
  <2>2. PICK k \in Nat \ {0} : d \in [1..k -> S] /\ Sound(d)
    BY ChainIn
  <2>3. last(c) = c[n] /\ last(d) = d[k]
    BY <2>1, <2>2, FiniteSequence
  <2>4. c[n] = d[k]
    BY <1>6, <2>3
  <2> QED
    BY <1>5, <2>1, <2>2, <2>4 DEF Alike
<1> QED
  BY <1>6 DEF OneChain

\* In a sound chain each grant is narrower than every grant above it.
ChainsNarrow(S) ==
    \A c \in SoundChainsOf(S) : \A i, j \in DOMAIN c : i < j => Narrower(c[j], c[i])

\* By induction on the distance from the root.
LEMMA SoundNarrows ==
    ASSUME NEW S, \A g \in S : IsMandate(g), NEW n \in Nat \ {0}, NEW c \in [1..n -> S], Sound(c)
    PROVE  \A i, j \in 1..n : i < j => Narrower(c[j], c[i])
<1> DEFINE T == {j \in Nat : \A i \in 1..n : j \in 1..n /\ i < j => Narrower(c[j], c[i])}
<1>1. 0 \in T
  OBVIOUS
<1>2. ASSUME NEW j \in Nat, j \in T
      PROVE  j + 1 \in T
  <2> SUFFICES ASSUME NEW i \in 1..n, j + 1 \in 1..n, i < j + 1
               PROVE  Narrower(c[j + 1], c[i])
    OBVIOUS
  <2>1. j \in 1..n /\ j + 1 \in 2..n /\ (j + 1) - 1 = j
    OBVIOUS
  <2>2. delegation_problems(c[(j + 1) - 1], c[j + 1]) = {}
    BY <2>1, SoundByPosition
  <2>3. delegation_problems(c[j], c[j + 1]) = {}
    BY <2>1, <2>2
  <2>4. IsMandate(c[i]) /\ IsMandate(c[j]) /\ IsMandate(c[j + 1])
    BY <2>1
  <2>5. Narrower(c[j + 1], c[j])
    BY <2>3, <2>4, CleanLink DEF PassedOn
  <2>6. CASE i = j
    BY <2>5, <2>6
  <2>7. CASE i # j
    <3>1. i < j
      BY <2>7
    <3>2. Narrower(c[j], c[i])
      BY <1>2, <2>1, <3>1
    <3> QED
      BY <2>4, <2>5, <3>2, NarrowerTransitive
  <2> QED
    BY <2>6, <2>7
<1>3. Nat \subseteq T
  <2> HIDE DEF T
  <2> QED
    BY <1>1, <1>2, NatSetInduction
<1>4. ASSUME NEW i \in 1..n, NEW j \in 1..n, i < j
      PROVE  Narrower(c[j], c[i])
  <2>1. j \in T
    BY <1>3
  <2> QED
    BY <1>4, <2>1
<1> QED
  BY <1>4

LEMMA ChainsNarrowHolds ==
    ASSUME NEW S, \A g \in S : IsMandate(g)
    PROVE  ChainsNarrow(S)
<1> SUFFICES ASSUME NEW c \in SoundChainsOf(S)
             PROVE  \A i, j \in DOMAIN c : i < j => Narrower(c[j], c[i])
  BY DEF ChainsNarrow
<1>1. PICK n \in Nat \ {0} : c \in [1..n -> S] /\ Sound(c)
  BY ChainIn
<1>2. DOMAIN c = 1..n
  BY <1>1
<1>3. \A i, j \in 1..n : i < j => Narrower(c[j], c[i])
  BY <1>1, SoundNarrows
<1> QED
  BY <1>2, <1>3

\* The grants that stand, and the ones nobody passed on.
StandingOf(S) == {last(c) : c \in SoundChainsOf(S)}

RootsOf(S) == {m \in S : m.delegated_from = None}

LEMMA RootStands ==
    ASSUME NEW S, NEW m \in S, m.delegated_from = None
    PROVE  m \in StandingOf(S)
<1> DEFINE c == [i \in 1..1 |-> m]
<1>1. 1 \in Nat \ {0} /\ c \in [1..1 -> S] /\ c[1] = m
  OBVIOUS
<1> HIDE DEF c
<1>2. /\ c[1].delegated_from = None
      /\ 1 =< MAX_CHAIN_DEPTH
      /\ \A i, j \in 1..1 : i < j => c[i].agent # c[j].agent
      /\ \A i \in 2..1 : delegation_problems(c[i - 1], c[i]) = {}
  BY <1>1, DepthAssumption
<1>3. Sound(c)
  BY <1>1, <1>2, SoundByPosition
<1>4. c \in SoundChainsOf(S)
  BY <1>1, <1>2, <1>3, ChainIn
<1>5. last(c) = m
  <2>1. last(c) = c[1]
    BY <1>1, FiniteSequence
  <2> QED
    BY <1>1, <2>1
<1> QED
  BY <1>4, <1>5 DEF StandingOf

\* Where its beginning ends stands, in any set that holds the beginning.
LEMMA BeginningStands ==
    ASSUME NEW S, NEW n, NEW c, ChainOver(S, n, c), NEW k \in 1..n,
           NEW R, \A i \in 1..k : c[i] \in R
    PROVE  /\ upto(c, k) \in SoundChainsOf(R) /\ last(upto(c, k)) = c[k]
           /\ c[k] \in StandingOf(R)
<1>1. upto(c, k) \in SoundChainsOf(R) /\ last(upto(c, k)) = c[k]
  BY PrefixIn DEF ChainOver
<1> QED
  BY <1>1 DEF StandingOf

\* A grant that stands, by the chain it stands by.
LEMMA StandsBy ==
    ASSUME NEW S, NEW g \in StandingOf(S)
    PROVE  \E n, c : ChainOver(S, n, c) /\ c[n] = g
<1>1. PICK c \in SoundChainsOf(S) : last(c) = g
  BY DEF StandingOf
<1>2. PICK n \in Nat \ {0} : c \in [1..n -> S] /\ Sound(c)
  BY ChainIn
<1>3. last(c) = c[n]
  BY <1>2, FiniteSequence
<1> QED
  BY <1>1, <1>2, <1>3 DEF ChainOver

\* The holder a grant of a sound chain was passed on by.
LEMMA Holder ==
    ASSUME NEW S, Grants(S), NEW n, NEW c, ChainOver(S, n, c), NEW k \in 2..n
    PROVE  PassedOn(c[k], c[k - 1]) /\ c[k].agent # c[k - 1].agent
<1>1. n \in Nat /\ \A i \in 1..n : c[i] \in S
  BY ChainFacts
<1>2. k - 1 \in 1..n /\ k \in 1..n /\ k - 1 # k
  BY <1>1
<1>3. delegation_problems(c[k - 1], c[k]) = {}
  BY ChainFacts
<1>4. c[k].agent # c[k - 1].agent
  BY <1>2, ChainFacts
<1>5. IsMandate(c[k - 1]) /\ IsMandate(c[k])
  BY <1>1, <1>2 DEF Grants
<1> QED
  BY <1>3, <1>4, <1>5, CleanLink

JoinedBy(all, S, m) == all = S \cup {m}

\* A grant that comes to stand when m joins the set stands by a chain that m is in, once.
LEMMA StandsByTheNew ==
    ASSUME NEW S, NEW m, NEW all, JoinedBy(all, S, m), NEW n, NEW c, ChainOver(all, n, c),
           c[n] \notin StandingOf(S)
    PROVE  \E p \in 1..n : c[p] = m /\ \A i \in 1..n : i # p => c[i] \in S /\ c[i].agent # m.agent
<1>1. n \in 1..n /\ \A i \in 1..n : c[i] \in S \/ c[i] = m
  <2>1. n \in Nat \ {0} /\ \A i \in 1..n : c[i] \in all
    BY ChainFacts
  <2> QED
    BY <2>1 DEF JoinedBy
<1>2. PICK p \in 1..n : c[p] = m
  <2> SUFFICES ASSUME \A i \in 1..n : c[i] \in S
               PROVE  FALSE
    BY <1>1
  <2>1. c[n] \in StandingOf(S)
    BY <1>1, BeginningStands
  <2> QED
    BY <2>1
<1>3. ASSUME NEW i \in 1..n, i # p
      PROVE  c[i] \in S /\ c[i].agent # m.agent
  <2>1. c[i].agent # c[p].agent
    BY <1>3, ChainFacts
  <2> QED
    BY <1>1, <1>2, <2>1
<1> QED
  BY <1>2, <1>3

\* The holder of the new grant stood before it, in case the new grant stands by delegation.
LEMMA NewGrantStands ==
    ASSUME NEW S, NEW m, NEW all, JoinedBy(all, S, m), Grants(all), m \notin StandingOf(S),
           NEW k, NEW d, ChainOver(all, k, d), d[k] = m
    PROVE  \/ RootsOf(all) = RootsOf(S) \cup {m}
           \/ /\ RootsOf(all) = RootsOf(S)
              /\ \E holding \in StandingOf(S) : PassedOn(m, holding) /\ m.agent # holding.agent
<1>1. k \in Nat \ {0} /\ k \in 1..k
  BY ChainFacts
<1>2. CASE k = 1
  <2>1. m.delegated_from = None
    BY <1>2, ChainFacts
  <2> QED
    BY <2>1 DEF RootsOf, JoinedBy
<1>3. CASE k # 1
  <2>1. k \in 2..k /\ k - 1 \in 1..k
    BY <1>1, <1>3
  <2>2. PassedOn(m, d[k - 1]) /\ m.agent # d[k - 1].agent
    BY <2>1, Holder
  <2>3. PICK p \in 1..k : d[p] = m /\ \A i \in 1..k : i # p => d[i] \in S /\ d[i].agent # m.agent
    BY StandsByTheNew
  <2>4. p = k
    BY <1>1, <2>3
  <2>5. \A i \in 1..(k - 1) : i \in 1..k /\ i # k
    BY <1>1
  <2>6. d[k - 1] \in StandingOf(S)
    BY <2>1, <2>3, <2>4, <2>5, BeginningStands
  <2>7. RootsOf(all) = RootsOf(S)
    BY <2>2 DEF RootsOf, PassedOn, JoinedBy
  <2> QED
    BY <2>2, <2>6, <2>7
<1> QED
  BY <1>2, <1>3

\* What comes to stand with the new grant was made out of it, directly or not.
LEMMA OthersStand ==
    ASSUME NEW S, NEW m, m \notin S, NEW all, JoinedBy(all, S, m), Grants(all),
           NEW n, NEW c, ChainOver(all, n, c), c[n] # m, c[n] \notin StandingOf(S)
    PROVE  /\ Narrower(c[n], m) /\ c[n].agent # m.agent
           /\ c[n - 1] \in StandingOf(all) /\ c[n - 1] \notin StandingOf(S)
           /\ PassedOn(c[n], c[n - 1]) /\ c[n].agent # c[n - 1].agent
<1>1. n \in Nat \ {0} /\ n \in 1..n /\ DOMAIN c = 1..n /\ \A i \in 1..n : c[i] \in all
  BY ChainFacts
<1>2. PICK p \in 1..n : c[p] = m /\ \A i \in 1..n : i # p => c[i] \in S /\ c[i].agent # m.agent
  BY StandsByTheNew
<1>3. n # p
  BY <1>2
<1>4. p < n /\ n \in 2..n /\ n - 1 \in 1..n /\ p \in 1..(n - 1)
  BY <1>1, <1>3
<1>5. Narrower(c[n], m) /\ c[n].agent # m.agent
  <2>1. \A i, j \in 1..n : i < j => Narrower(c[j], c[i])
    BY SoundNarrows DEF ChainOver, Grants
  <2>2. Narrower(c[n], c[p])
    BY <1>1, <1>4, <2>1
  <2> QED
    BY <1>1, <1>2, <1>3, <2>2
<1>6. PassedOn(c[n], c[n - 1]) /\ c[n].agent # c[n - 1].agent
  BY <1>4, Holder
<1>7. /\ upto(c, n - 1) \in SoundChainsOf(all) /\ last(upto(c, n - 1)) = c[n - 1]
      /\ c[n - 1] \in StandingOf(all)
  <2>1. \A i \in 1..(n - 1) : c[i] \in all
    BY <1>1
  <2> QED
    BY <1>4, <2>1, BeginningStands
<1>8. c[n - 1] \notin StandingOf(S)
  <2> SUFFICES ASSUME c[n - 1] \in StandingOf(S)
               PROVE  FALSE
    OBVIOUS
  <2>1. PICK d \in SoundChainsOf(S) : last(d) = c[n - 1]
    BY DEF StandingOf
  <2>2. d \in SoundChainsOf(all)
    BY <2>1, ChainStays DEF JoinedBy
  <2>3. OneChain(all)
    BY OneChainHolds
  <2>4. d = upto(c, n - 1)
    BY <1>7, <2>1, <2>2, <2>3 DEF OneChain
  <2>5. \A i \in DOMAIN d : d[i] \in S
    BY ChainIn
  <2>6. p \in DOMAIN d /\ d[p] = m
    BY <1>2, <1>4, <2>4 DEF upto
  <2> QED
    BY <2>5, <2>6
<1> QED
  BY <1>5, <1>6, <1>7, <1>8

\* What a new grant does to the books.  Nothing stops standing; and nothing comes to stand,
\* or the new grant does, as a root or as what a holder passed on, and with it what was
\* passed on before out of it or out of what stands only with it.
LEMMA BooksGrow ==
    ASSUME NEW S, NEW m, m \notin S, NEW all, JoinedBy(all, S, m), Grants(all),
           NEW new, new = StandingOf(all) \ StandingOf(S)
    PROVE  /\ StandingOf(S) \subseteq StandingOf(all) /\ StandingOf(all) \subseteq all
           /\ \/ new = {} /\ RootsOf(all) = RootsOf(S)
              \/ /\ m \in new
                 /\ \/ RootsOf(all) = RootsOf(S) \cup {m}
                    \/ /\ RootsOf(all) = RootsOf(S)
                       /\ \E holding \in StandingOf(S) :
                             PassedOn(m, holding) /\ m.agent # holding.agent
                 /\ \A other \in new \ {m} :
                       /\ Narrower(other, m) /\ other.agent # m.agent
                       /\ \E holding \in new :
                             PassedOn(other, holding) /\ other.agent # holding.agent
<1>1. /\ StandingOf(S) \subseteq StandingOf(all) /\ StandingOf(S) \subseteq S
      /\ StandingOf(all) \subseteq all
  BY ChainStays, ChainEnds DEF StandingOf, JoinedBy
<1>2. m \notin StandingOf(S)
  BY <1>1
<1>3. \A g : g \in new <=> g \in StandingOf(all) /\ g \notin StandingOf(S)
  OBVIOUS
<1>4. ASSUME m \notin StandingOf(all)
      PROVE  new = {} /\ RootsOf(all) = RootsOf(S)
  <2>1. m.delegated_from # None
    BY <1>4, RootStands DEF JoinedBy
  <2>2. ASSUME NEW g \in new
        PROVE  FALSE
    <3>1. PICK n, c : ChainOver(all, n, c) /\ c[n] = g
      BY <1>3, StandsBy
    <3>2. c[n] \notin StandingOf(S)
      BY <1>3, <3>1
    <3>3. PICK p \in 1..n : c[p] = m
      BY <3>1, <3>2, StandsByTheNew
    <3>4. n \in Nat /\ \A i \in 1..n : c[i] \in all
      BY <3>1, ChainFacts
    <3>5. \A i \in 1..p : c[i] \in all
      BY <3>4
    <3>6. c[p] \in StandingOf(all)
      BY <3>1, <3>5, BeginningStands
    <3> QED
      BY <1>4, <3>3, <3>6
  <2> QED
    BY <2>1, <2>2 DEF RootsOf, JoinedBy
<1>5. ASSUME m \in StandingOf(all)
      PROVE  /\ m \in new
             /\ \/ RootsOf(all) = RootsOf(S) \cup {m}
                \/ /\ RootsOf(all) = RootsOf(S)
                   /\ \E holding \in StandingOf(S) : PassedOn(m, holding) /\ m.agent # holding.agent
  <2>1. PICK k, d : ChainOver(all, k, d) /\ d[k] = m
    BY <1>5, StandsBy
  <2> QED
    BY <1>2, <1>3, <1>5, <2>1, NewGrantStands
<1>6. ASSUME NEW other \in new \ {m}
      PROVE  /\ Narrower(other, m) /\ other.agent # m.agent
             /\ \E holding \in new : PassedOn(other, holding) /\ other.agent # holding.agent
  <2>1. PICK n, c : ChainOver(all, n, c) /\ c[n] = other
    BY <1>3, StandsBy
  <2>2. c[n] # m /\ c[n] \notin StandingOf(S)
    BY <1>3, <2>1
  <2> QED
    BY <1>3, <2>1, <2>2, OthersStand
<1> QED
  BY <1>1, <1>4, <1>5, <1>6

-----------------------------------------------------------------------------
(***************************************************************************)
(* Runs of receipts.                                                       *)
(***************************************************************************)

\* Intact, position by position.
LEMMA IntactByPosition ==
    ASSUME NEW S, NEW n \in Nat \ {0}, NEW r \in [1..n -> S]
    PROVE  Intact(r) <=> /\ r[1].prev = None
                         /\ \A i \in 2..n : prev_problems(r[i - 1], r[i]) = {}
<1>1. Len(r) = n /\ DOMAIN r = 1..n /\ r # << >>
  BY FiniteSequence
<1>2. sequence_problems(r) = [i \in 1..n |-> IF i = 1 THEN When(r[1].prev # None, "first_is_linked")
                                              ELSE prev_problems(r[i - 1], r[i])]
  BY <1>1 DEF sequence_problems
<1>3. sequence_problems(r)[1] = {} <=> r[1].prev = None
  <2>1. sequence_problems(r)[1] = When(r[1].prev # None, "first_is_linked")
    BY <1>2
  <2> QED
    BY <2>1 DEF When
<1>4. \A i \in 2..n : sequence_problems(r)[i] = prev_problems(r[i - 1], r[i])
  BY <1>2
<1>5. Intact(r) <=> \A i \in 1..n : sequence_problems(r)[i] = {}
  BY <1>1 DEF Intact
<1>6. \A i : i \in 1..n <=> (i = 1 \/ i \in 2..n)
  OBVIOUS
<1> QED
  BY <1>3, <1>4, <1>5, <1>6

LEMMA RunIn ==
    ASSUME NEW S, NEW longest \in Nat, NEW r
    PROVE  r \in IntactRunsOf(S, longest) <=>
              \E n \in Nat \ {0} : n =< longest /\ r \in [1..n -> S] /\ Intact(r)
<1>1. \A n : n \in 1..longest <=> (n \in Nat \ {0} /\ n =< longest)
  OBVIOUS
<1> QED
  BY <1>1 DEF IntactRunsOf

\* A receipt commits to the one before it.
LEMMA LinkedCommits ==
    ASSUME NEW earlier, NEW later, prev_problems(earlier, later) = {}
    PROVE  later.prev # None /\ later.prev_hash = digest(earlier)
BY DEF prev_problems, When

\* A receipt that is linked commits to a receipt of the set.
PrevCommitted(S) == \A r \in S : r.prev # None => \E q \in S : r.prev_hash = digest(q)

PrevCommitsTo(m, S) == m.prev # None => \E q \in S : m.prev_hash = digest(q)

\* A new receipt can only be the last of a run.
LEMMA NewReceiptIsLast ==
    ASSUME NEW S, PrevCommitted(S), NEW m, m \notin S, PrevCommitsTo(m, S),
           NEW n \in Nat \ {0}, NEW r \in [1..n -> S \cup {m}], Intact(r),
           NEW i \in 1..(n - 1)
    PROVE  r[i] \in S
<1>1. i + 1 \in 2..n /\ (i + 1) - 1 = i /\ i \in 1..n /\ i + 1 \in 1..n
  OBVIOUS
<1>2. prev_problems(r[i], r[i + 1]) = {}
  BY <1>1, IntactByPosition
<1>3. r[i + 1].prev # None /\ r[i + 1].prev_hash = digest(r[i])
  BY <1>2, LinkedCommits
<1>4. r[i + 1] \in S \cup {m}
  BY <1>1
<1>5. PICK q \in S : r[i + 1].prev_hash = digest(q)
  BY <1>3, <1>4 DEF PrevCommitted, PrevCommitsTo
<1>6. q = r[i]
  BY <1>3, <1>5 DEF digest
<1> QED
  BY <1>6

\* The front of an intact run is an intact run.
LEMMA IntactFront ==
    ASSUME NEW S, NEW longest \in Nat, NEW n \in Nat \ {0, 1}, n =< longest, NEW r, Intact(r),
           NEW T, r \in [1..n -> T], \A i \in 1..(n - 1) : r[i] \in S
    PROVE  upto(r, n - 1) \in IntactRunsOf(S, longest) /\ last(upto(r, n - 1)) = r[n - 1]
<1> DEFINE f == upto(r, n - 1)
<1>1. n - 1 \in Nat \ {0} /\ n - 1 =< longest /\ n - 1 \in 1..(n - 1)
  OBVIOUS
<1>2. f \in [1..(n - 1) -> S] /\ \A i \in 1..(n - 1) : f[i] = r[i]
  BY DEF upto
<1>3. r[1].prev = None /\ \A i \in 2..n : prev_problems(r[i - 1], r[i]) = {}
  BY IntactByPosition
<1>4. f[1].prev = None
  BY <1>1, <1>2, <1>3
<1>5. \A i \in 2..(n - 1) : i \in 2..n /\ i - 1 \in 1..(n - 1) /\ i \in 1..(n - 1)
  OBVIOUS
<1>6. \A i \in 2..(n - 1) : prev_problems(f[i - 1], f[i]) = {}
  BY <1>2, <1>3, <1>5
<1> HIDE DEF f
<1>7. Intact(f)
  BY <1>1, <1>2, <1>4, <1>6, IntactByPosition
<1>8. f \in IntactRunsOf(S, longest)
  BY <1>1, <1>2, <1>7, RunIn
<1>9. last(f) = f[n - 1]
  BY <1>1, <1>2, FiniteSequence
<1> QED
  BY <1>1, <1>2, <1>8, <1>9 DEF f

\* At most one run leads to a receipt.
OneRun(S, longest) == \A c, d \in IntactRunsOf(S, longest) : last(c) = last(d) => c = d

LEMMA OneRunGrows ==
    ASSUME NEW S, PrevCommitted(S), NEW m, m \notin S, PrevCommitsTo(m, S),
           NEW longest \in Nat, OneRun(S, longest)
    PROVE  OneRun(S \cup {m}, longest)
<1> SUFFICES ASSUME NEW c \in IntactRunsOf(S \cup {m}, longest),
                    NEW d \in IntactRunsOf(S \cup {m}, longest), last(c) = last(d)
             PROVE  c = d
  BY DEF OneRun
<1>1. PICK n \in Nat \ {0} : n =< longest /\ c \in [1..n -> S \cup {m}] /\ Intact(c)
  BY RunIn
<1>2. PICK k \in Nat \ {0} : k =< longest /\ d \in [1..k -> S \cup {m}] /\ Intact(d)
  BY RunIn
<1>3. c[n] = d[k] /\ n \in 1..n /\ k \in 1..k
  <2>1. last(c) = c[n]
    BY <1>1, FiniteSequence
  <2>2. last(d) = d[k]
    BY <1>2, FiniteSequence
  <2>3. n \in 1..n /\ k \in 1..k
    OBVIOUS
  <2>4. c[n] = d[k]
    BY <2>1, <2>2
  <2> QED
    BY <2>3, <2>4
<1>4. /\ \A i \in 1..(n - 1) : c[i] \in S
      /\ \A i \in 1..(k - 1) : d[i] \in S
  BY <1>1, <1>2, NewReceiptIsLast
<1>5. /\ c[1].prev = None /\ \A i \in 2..n : prev_problems(c[i - 1], c[i]) = {}
      /\ d[1].prev = None /\ \A i \in 2..k : prev_problems(d[i - 1], d[i]) = {}
  BY <1>1, <1>2, IntactByPosition
<1>6. n = 1 <=> k = 1
  <2>1. n # 1 => n \in 2..n
    OBVIOUS
  <2>2. k # 1 => k \in 2..k
    OBVIOUS
  <2>3. n # 1 => c[n].prev # None
    BY <1>5, <2>1, LinkedCommits
  <2>4. k # 1 => d[k].prev # None
    BY <1>5, <2>2, LinkedCommits
  <2> QED
    BY <1>3, <1>5, <2>3, <2>4
<1>7. CASE n = 1
  BY <1>1, <1>2, <1>3, <1>6, <1>7
<1>8. CASE n # 1
  <2>1. n \in Nat \ {0, 1} /\ k \in Nat \ {0, 1} /\ n \in 2..n /\ k \in 2..k
    BY <1>6, <1>8
  <2>2. c[n].prev_hash = digest(c[n - 1]) /\ d[k].prev_hash = digest(d[k - 1])
    BY <1>5, <2>1, LinkedCommits
  <2>3. c[n - 1] = d[k - 1]
    BY <1>3, <2>2 DEF digest
  <2>4. upto(c, n - 1) \in IntactRunsOf(S, longest) /\ last(upto(c, n - 1)) = c[n - 1]
    BY <1>1, <1>4, <2>1, IntactFront
  <2>5. upto(d, k - 1) \in IntactRunsOf(S, longest) /\ last(upto(d, k - 1)) = d[k - 1]
    BY <1>2, <1>4, <2>1, IntactFront
  <2>6. upto(c, n - 1) = upto(d, k - 1)
    BY <2>3, <2>4, <2>5 DEF OneRun
  <2> QED
    BY <1>1, <1>2, <1>3, <2>1, <2>6, SameFront
<1> QED
  BY <1>7, <1>8
=============================================================================
