------------------------------ MODULE MCSynedex ------------------------------
(***************************************************************************)
(* The library of the synedex pairs, for TLC: one ring buffer, the price   *)
(* histories that are made of three, the helpers of swaps and shares, and  *)
(* the handover to a new owner. One part runs and the others rest.         *)
(***************************************************************************)
EXTENDS Integers

CONSTANT NoProposal

VARIABLES
    part,                                                       \* the part that runs
    buffer, saved, clock,                                       \* RingBuffer
    last_updated, minutes, day, week, now, blocks, log,         \* PriceOracle
    pool, share, last,                                          \* PairHelpers
    owner, proposal, wishes, time                               \* Ownership

ringVars == <<buffer, saved, clock>>
oracleVars == <<last_updated, minutes, day, week, now, blocks, log>>
pairVars == <<pool, share, last>>
ownerVars == <<owner, proposal, wishes, time>>

\* The ring wraps three times.
Ring == INSTANCE RingBuffer WITH STEP <- 2, CAP <- 3, MaxTime <- 17, now <- clock

\* Blocks within the minute, a minute, less than half an hour and an hour apart.
Oracle == INSTANCE PriceOracle WITH
    AssetInfos <- <<"a", "b">>, Prices <- {1, 2}, FirstBlock <- 4000, BlockGaps <- {30, 60, 1740, 3600},
    MaxBlocks <- 3, MaxStored <- 3

Swaps == INSTANCE PairHelpers WITH
    DECIMAL <- 200, Amounts <- {0, 1, 2, 3, 7}, Withdrawals <- {}, Decimals <- {0, 1, 67, 100, 101, 150},
    max_referral_commission <- 150, InitialPool <- 100, InitialShare <- 30

Shares == INSTANCE PairHelpers WITH
    DECIMAL <- 200, Amounts <- {1}, Withdrawals <- {1, 2, 3, 7}, Decimals <- {},
    max_referral_commission <- 150, InitialPool <- 100, InitialShare <- 30

\* A proposal may be valid for no time at all, and for longer than is allowed.
Handover == INSTANCE Ownership WITH
    Accounts <- {"a", "b", "c"}, MAX_PROPOSAL_TTL <- 2, Delays <- {0, 2, 3}, MaxTime <- 5, now <- time

ASSUME Ring!BufferAssumption /\ Oracle!OracleAssumption /\ Swaps!PairAssumption /\ Shares!PairAssumption
ASSUME Handover!OwnershipAssumption

MCInit ==
    /\ part \in {"ring", "oracle", "swaps", "shares", "handover"}
    /\ Ring!Init /\ Oracle!Init /\ Swaps!Init
    /\ Handover!Init /\ (part # "handover" => owner = "a")

MCNext ==
    \/ part = "ring" /\ Ring!Next /\ UNCHANGED <<part, oracleVars, pairVars, ownerVars>>
    \/ part = "oracle" /\ Oracle!Next /\ UNCHANGED <<part, ringVars, pairVars, ownerVars>>
    \/ /\ \/ part = "swaps" /\ Swaps!Next
          \/ part = "shares" /\ Shares!Next
       /\ UNCHANGED <<part, ringVars, oracleVars, ownerVars>>
    \/ part = "handover" /\ Handover!Next /\ UNCHANGED <<part, ringVars, oracleVars, pairVars>>

MCSpec == MCInit /\ [][MCNext]_<<part, ringVars, oracleVars, pairVars, ownerVars>>

-----------------------------------------------------------------------------
(* Properties *)

\* Oracle: the ring reports the last value and nothing beyond its span; every price that is
\* reported was stored for that pair and time, entries are a step apart, and after a swap
\* there is a price of the last minute.
PricesTrue == Ring!SpanKept /\ Oracle!HistoryTrue /\ Oracle!StepsApart /\ Oracle!RecentPrice

\* Helpers: taking the commission that was added gives back the amount, a swap that is
\* accepted returns what the price promises less the limit, and a withdrawal never makes the
\* other LP tokens worth less.
PoolProtected == []Swaps!AddThenTake /\ []Swaps!BeliefHonoured /\ Shares!ShareNeverDiluted

\* Handover: ownership goes only to the account the present owner named last, in time, and
\* the proposed owner is never the owner.
HandoverSound == []Handover!ProposedIsOther /\ Handover!OwnerAgreed

=============================================================================
