---------------------------- MODULE MCCommittees ----------------------------
(***************************************************************************)
(* The contracts and helpers of the committees, for TLC: the fixed         *)
(* multisig, the group, the claims of the controllers and the list queries.*)
(* None of them calls another one, so one part runs and the others rest:   *)
(* what the interleavings reach is what each part reaches alone.           *)
(***************************************************************************)
EXTENDS Multisig, TLC

CONSTANTS u1, u2, u3

VARIABLES
    part,                                                     \* the part that runs
    members, total_weight, changelog, admin, hooks, mirror, height,  \* Group
    claims, created, paid, clock,                             \* ClaimQueue
    query, map, asked, current, cursor, seen, ended, stable, touched, changes \* ListQueries

groupVars == <<members, total_weight, changelog, admin, hooks, mirror, height>>
claimVars == <<claims, created, paid, clock>>
walkVars == <<query, map, asked, current, cursor, seen, ended, stable, touched, changes>>

Entry(addr, weight) == [addr |-> addr, weight |-> weight]
Count(weight) == [kind |-> "AbsoluteCount", weight |-> weight]
Percentage(p) == [kind |-> "AbsolutePercentage", percentage |-> p]
Quorum(t, q) == [kind |-> "ThresholdQuorum", threshold |-> t, quorum |-> q]

Lists == {<<Entry(u1, 0), Entry(u2, 1), Entry(u3, 2)>>}
SomeThresholds == {Count(2), Percentage(2), Quorum(2, 2), Quorum(3, 1)}
Expirations == {None, OtherKind, 1}

ASSUME MultisigAssumption

Members == INSTANCE Group WITH
    Addresses <- {u1, u2}, Accounts <- {"boss", "none"}, Listeners <- {"multisig", "gauge"},
    FirstMembers <- <<Entry(u1, 1)>>,
    MemberLists <- {<<>>, <<Entry(u1, 0)>>, <<Entry(u1, 2), Entry(u2, 1)>>, <<Entry(u2, 1), Entry(u2, 2)>>},
    RemoveLists <- {<<>>, <<u1>>, <<u2, u1>>}, MaxHeight <- 2

Claims == INSTANCE ClaimQueue WITH
    Users <- {"u"}, Amounts <- {1, 3}, Delays <- {0, 1}, Caps <- {-1, 0, 2}, UsualCap <- 2,
    MaxCreated <- 6, MaxTime <- 2, now <- clock

Walker == INSTANCE ListQueries WITH
    PrefixIds <- {1, 2}, Keys <- 1 .. 4, Limits <- {0, 1, 3}, DEFAULT_LIMIT <- 1, MAX_LIMIT <- 2, MaxChanges <- 3

ASSUME Walker!ListAssumption

\* Short walks over every list, and long ones over the lists that grow.
Walks == {"walks", "growth"}
ShortKeys == 1 .. 3
ShortChanges == 2

WalksBounded ==
    /\ part = "walks" => (\A entry \in map : entry[2] \in ShortKeys) /\ changes <= ShortChanges
    /\ part = "growth" => query \in Walker!Appended \ Walker!Reversed

\* A part that rests has one state; each of them may be initial.
MCInit ==
    /\ part \in {"multisig", "group", "claims"} \cup Walks
    /\ Init /\ (part # "multisig" => config.threshold = Count(2))
    /\ Members!Init /\ (part # "group" => admin = "boss")
    /\ Claims!Init
    /\ Walker!Init /\ WalksBounded
    /\ part \notin Walks => query = "cw3_list_proposals" /\ map = {}

MCNext ==
    \/ /\ part = "multisig" /\ Next
       /\ UNCHANGED <<part, groupVars, claimVars, walkVars>>
    \/ /\ part = "group" /\ Members!Next
       /\ UNCHANGED <<part, vars, claimVars, walkVars>>
    \/ /\ part = "claims" /\ Claims!Next
       /\ UNCHANGED <<part, vars, groupVars, walkVars>>
    \/ /\ part \in Walks /\ Walker!Next
       /\ UNCHANGED <<part, vars, groupVars, claimVars>>
       /\ WalksBounded'

allvars == <<part, vars, groupVars, claimVars, walkVars>>

\* The fairness of Multisig and of ClaimQueue, for the part that runs.
MCSpec ==
    /\ MCInit /\ [][MCNext]_allvars
    /\ WF_vars(part = "multisig" /\ Tick)
    /\ \A id \in 1 .. MaxProposals :
           /\ WF_vars(part = "multisig" /\ id \in DOMAIN proposals /\ execute_execute(id))
           /\ WF_vars(part = "multisig" /\ id \in DOMAIN proposals /\ execute_close(id))
    /\ WF_claimVars(part = "claims" /\ Claims!Tick)
    /\ WF_claimVars(part = "claims" /\ Claims!claim_tokens("u", 2))

-----------------------------------------------------------------------------
(* Properties, with MultisigSound and EventuallyDecided of Multisig *)

\* Group: at every height the total weight is the sum of the members' weights, what the
\* weights were never changes, a listener that applies the messages of the hook knows the
\* members, and without an admin nothing changes any more.
GroupSound ==
    /\ [](Members!SnapshotsAgree /\ Members!ListenersAgree)
    /\ Members!SnapshotsStable /\ Members!NoAdminImmutable

\* Claims: whatever the caps, no claim is lost or paid twice, those that are not mature stay
\* in order, and one above the cap does not hold up those that fit.
ClaimsSound == []Claims!ClaimsConserved /\ Claims!ImmatureStay /\ Claims!SmallClaimsPaid

\* Lists: a client that pages through a list while it changes gets every key at most once, all
\* entries that are there all the time, and in a list that only grows also the new ones.
WalksSound == [](Walker!OncePerWalk /\ Walker!WalkExact) /\ Walker!GrowthSeen

=============================================================================
