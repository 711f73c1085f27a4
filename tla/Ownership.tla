------------------------------ MODULE Ownership ------------------------------
(***************************************************************************)
(* The handover of a synedex contract in two steps, as the helpers of      *)
(* common.rs do it: the owner names another account, which has to claim    *)
(* the ownership in time. The callback of a claim stores the new owner.    *)
(***************************************************************************)
EXTENDS Naturals

CONSTANTS
    Accounts,
    NoProposal,          \* no proposal stored
    MAX_PROPOSAL_TTL,
    Delays,              \* values of expires_in
    MaxTime

OwnershipAssumption == MAX_PROPOSAL_TTL \in Nat /\ Delays \subseteq Nat /\ MaxTime \in Nat

VARIABLES
    owner,
    proposal,            \* OwnershipProposal: [owner, ttl]
    wishes,              \* what the owner last asked for: NoProposal, or [owner, by, since]
    now

vars == <<owner, proposal, wishes, now>>

Init == owner \in Accounts /\ proposal = NoProposal /\ wishes = NoProposal /\ now = 0

propose_new_owner(sender, new_owner, expires_in) ==
    /\ sender = owner /\ new_owner # owner
    /\ expires_in <= MAX_PROPOSAL_TTL
    /\ proposal' = [owner |-> new_owner, ttl |-> now + expires_in]
    /\ wishes' = [owner |-> new_owner, by |-> sender, since |-> now]
    /\ UNCHANGED <<owner, now>>

\* Fault: the proposal stays stored.
drop_ownership_proposal_Keep(sender) ==
    /\ sender = owner
    /\ wishes' = NoProposal
    /\ UNCHANGED <<owner, proposal, now>>

drop_ownership_proposal(sender) ==
    /\ sender = owner
    /\ proposal' = NoProposal
    /\ wishes' = NoProposal
    /\ UNCHANGED <<owner, now>>

\* A claim at the very time of ttl is accepted.
claim_ownership(sender) ==
    /\ proposal # NoProposal /\ sender = proposal.owner
    /\ now <= proposal.ttl
    /\ proposal' = NoProposal
    /\ owner' = sender
    /\ UNCHANGED <<wishes, now>>

Tick == now < MaxTime /\ now' = now + 1 /\ UNCHANGED <<owner, proposal, wishes>>

Next ==
    \/ \E u, v \in Accounts, d \in Delays : propose_new_owner(u, v, d)
    \/ \E u \in Accounts : drop_ownership_proposal(u) \/ claim_ownership(u)
    \/ Tick

Spec == Init /\ [][Next]_vars

-----------------------------------------------------------------------------
(* Properties *)

\* Ownership goes only to the account the present owner named last, at most
\* MAX_PROPOSAL_TTL ago: no proposal of an earlier owner, one that was replaced or one that
\* was dropped can be claimed.
OwnerAgreed ==
    [][owner' # owner => /\ wishes # NoProposal /\ wishes.owner = owner' /\ wishes.by = owner
                         /\ now <= wishes.since + MAX_PROPOSAL_TTL]_vars

\* Nobody is left waiting for himself: the proposed owner is never the owner.
ProposedIsOther == proposal # NoProposal => proposal.owner # owner

=============================================================================
