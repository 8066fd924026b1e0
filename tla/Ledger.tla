------------------------------- MODULE Ledger -------------------------------
(***************************************************************************)
(* Authority as it is meant to be, without chains, reports or dates of     *)
(* publication: principals make grants, and whoever holds a standing grant *)
(* passes no more of it on, out of that grant and no other.  What is to be *)
(* passed on may be prepared before the grant it is made out of stands,    *)
(* and stands with it.  A grant that stands keeps standing, and no other   *)
(* way leads to one.                                                       *)
(***************************************************************************)
EXTENDS Authority

VARIABLES
    roots,       \* the grants principals made themselves
    standing     \* the grants that carry authority

vars == <<roots, standing>>

Init == roots = {} /\ standing = {}

\* What a holder passes on out of the grant it holds.
Within(holding, grant) == PassedOn(grant, holding) /\ grant.agent # holding.agent

Give(grant) == roots' = roots \cup {grant}

PassOn(grant) ==
    /\ \E holding \in standing : Within(holding, grant)
    /\ UNCHANGED roots

\* Prepared out of the new grant, or out of what was prepared out of it.
Prepared(other, grant, new) ==
    /\ Narrower(other, grant) /\ other.agent # grant.agent
    /\ \E holding \in new : Within(holding, other)

Next ==
    LET new == standing' \ standing
    IN  /\ \E grant \in new :
              /\ Give(grant) \/ PassOn(grant)
              /\ \A other \in new \ {grant} : Prepared(other, grant, new)
        /\ \A grant \in new : IsMandate(grant)
        /\ standing \subseteq standing'

Spec == Init /\ [][Next]_vars

\* Whatever stands is narrower than a grant that the same principal made itself.
Rooted == \A grant \in standing : \E root \in roots : Narrower(grant, root)
=============================================================================
