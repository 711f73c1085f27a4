----------------------------- MODULE ClaimQueue -----------------------------
(***************************************************************************)
(* The Claims controller: a list of claims per address, each payable from  *)
(* its release date on; claim_tokens pays the mature ones up to a cap.     *)
(***************************************************************************)
EXTENDS Integers, Sequences, FiniteSets, SequencesExt

CONSTANTS
    Users, Amounts,
    Delays,              \* release dates lie this far ahead
    Caps,                \* inputs of claim_tokens, NoCap for None
    UsualCap,            \* the cap of the caller that comes again and again
    MaxCreated, MaxTime

NoCap == -1

VARIABLES
    claims,              \* the map of Claims
    created, paid,       \* totals per address
    now

vars == <<claims, created, paid, now>>

Waiting(u) == FoldLeft(LAMBDA s, c : s + c.amount, 0, claims[u])

is_expired(c) == now >= c.release_at

Init ==
    /\ claims = [u \in Users |-> <<>>]
    /\ created = [u \in Users |-> 0] /\ paid = [u \in Users |-> 0] /\ now = 0

create_claim(u, amount, release_at) ==
    /\ created[u] + amount <= MaxCreated
    /\ claims' = [claims EXCEPT ![u] = Append(@, [amount |-> amount, release_at |-> release_at])]
    /\ created' = [created EXCEPT ![u] = @ + amount]
    /\ UNCHANGED <<paid, now>>

\* Fault: after the first claim that waits all later ones wait.
Sort_Blocked(cap, s, c) ==
    IF s.waiting = <<>> /\ is_expired(c) /\ (cap = NoCap \/ s.to_send + c.amount <= cap)
    THEN [s EXCEPT !.to_send = @ + c.amount] ELSE [s EXCEPT !.waiting = Append(@, c)]

\* The closure of partition: c is paid when it is mature and fits.
Sort(cap, s, c) ==
    IF is_expired(c) /\ (cap = NoCap \/ s.to_send + c.amount <= cap)
    THEN [s EXCEPT !.to_send = @ + c.amount] ELSE [s EXCEPT !.waiting = Append(@, c)]

claim_tokens(u, cap) ==
    LET s == FoldLeft(LAMBDA t, c : Sort(cap, t, c), [to_send |-> 0, waiting |-> <<>>], claims[u]) IN
    /\ claims' = [claims EXCEPT ![u] = s.waiting]
    /\ paid' = [paid EXCEPT ![u] = @ + s.to_send]
    /\ UNCHANGED <<created, now>>

Tick == now < MaxTime /\ now' = now + 1 /\ UNCHANGED <<claims, created, paid>>

Next ==
    \/ \E u \in Users :
        \/ \E amount \in Amounts, d \in Delays : create_claim(u, amount, now + d)
        \/ \E cap \in Caps : claim_tokens(u, cap)
    \/ Tick

Spec == Init /\ [][Next]_vars

\* The address comes again and again with the usual cap.
FairSpec == Spec /\ WF_vars(Tick) /\ \A u \in Users : WF_vars(claim_tokens(u, UsualCap))

-----------------------------------------------------------------------------
(* Properties *)

\* Whatever the caps, no claim is lost or paid twice.
ClaimsConserved == \A u \in Users : created[u] = paid[u] + Waiting(u)

\* A claim that is not mature stays, in the order of creation.
ImmatureStay ==
    [][now' = now => \A u \in Users :
           IsPrefix(SelectSeq(claims[u], LAMBDA c : ~is_expired(c)), SelectSeq(claims'[u], LAMBDA c : ~is_expired(c)))]_vars

\* A claim that is too large for the cap does not hold up the others: those
\* that are mature and fit are paid in the end.
SmallClaimsPaid ==
    \A u \in Users, a \in {x \in Amounts : x <= UsualCap}, t \in 0 .. MaxTime :
        (\E i \in DOMAIN claims[u] : claims[u][i] = [amount |-> a, release_at |-> t])
            ~> ~\E i \in DOMAIN claims[u] : claims[u][i] = [amount |-> a, release_at |-> t]

=============================================================================
