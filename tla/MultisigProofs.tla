--------------------------- MODULE MultisigProofs ---------------------------
(***************************************************************************)
(* Theorems about Multisig, for every list of voters, every threshold and  *)
(* every expiration.                                                       *)
(***************************************************************************)
EXTENDS Multisig, SumTheorems, SequenceTheorems

Row == [expires : Int, status : Status, votes : [Votes -> Nat]]

\* What each voter may give to a proposal.
Held == [u \in Voters |-> IF u \in DOMAIN weights THEN weights[u] ELSE 0]

\* Voters of a list with duplicates weigh less than the total, never more.
WeightsInv ==
    /\ weights \in [DOMAIN weights -> Nat] /\ DOMAIN weights \subseteq Voters
    /\ config.total_weight \in Nat /\ SumOver(Held, Voters) <= config.total_weight
    /\ validate(config.threshold, config.total_weight)

RowInv ==
    /\ now \in Nat
    /\ proposals \in Seq(Row) /\ sent \in Seq(Nat) /\ Len(sent) = Len(proposals)

\* A ballot has the weight of its voter, and the tally is that of the ballots.
BallotInv ==
    /\ DOMAIN ballots \subseteq (DOMAIN proposals) \X DOMAIN weights
    /\ \A key \in DOMAIN ballots : ballots[key].weight = weights[key[2]] /\ ballots[key].vote \in Votes
    /\ \A id \in DOMAIN proposals :
           /\ \A vote \in Votes : proposals[id].votes[vote] = SumOver(Given(id, {vote}), Voters)
           /\ total(proposals[id].votes) = SumOver(Given(id, Votes), Voters)
           /\ total(proposals[id].votes) <= config.total_weight

\* The stored status is one that the votes still give.
Decided(p) ==
    /\ p.status \in {"Passed", "Executed"} => is_passed(p)
    /\ p.status = "Rejected" => ~is_passed(p) /\ (is_expired(p) \/ is_rejected(p))

DecisionInv == \A id \in DOMAIN proposals : Decided(proposals[id])

-----------------------------------------------------------------------------
(* Thresholds *)

\* Rounded up: the votes needed are at least the share, and less than one vote more.
LEMMA NeededBounds ==
    ASSUME MultisigAssumption, NEW w \in Nat, NEW p \in Nat
    PROVE  /\ votes_needed(w, p) \in Nat
           /\ votes_needed(w, p) * One >= w * p /\ votes_needed(w, p) * One < w * p + One
<1> DEFINE x == w * p
           q == (x + One - 1) \div One
<1>1. One \in Nat \ {0} /\ x \in Nat
  BY DEF MultisigAssumption
<1> HIDE DEF x
<1>2. q \in Nat /\ q * One <= x + One - 1 /\ x + One - 1 < q * One + One
  BY <1>1
<1>3. votes_needed(w, p) = q
  BY DEF votes_needed, x
<1>4. q * One \in Nat
  BY <1>1, <1>2
<1> HIDE DEF q
<1>5. QED
  BY <1>1, <1>2, <1>3, <1>4 DEF x

LEMMA NeededGrows ==
    ASSUME MultisigAssumption, NEW w \in Nat, NEW v \in Nat, NEW p \in Nat, v <= w
    PROVE  votes_needed(v, p) <= votes_needed(w, p)
<1> DEFINE a == votes_needed(v, p)
           b == votes_needed(w, p)
<1>1. a \in Nat /\ b \in Nat /\ a * One < v * p + One /\ b * One >= w * p
  BY NeededBounds
<1>2. v * p <= w * p /\ v * p \in Nat /\ w * p \in Nat
  <2>1. PICK d \in Nat : w = v + d
    BY SMT
  <2>2. w * p = v * p + d * p /\ d * p \in Nat
    BY <2>1
  <2>3. QED
    BY <2>2
<1>3. One \in Nat \ {0}
  BY DEF MultisigAssumption
<1> HIDE DEF a, b
<1>4. ASSUME a > b PROVE FALSE
  <2>1. PICK d \in Nat : a = b + 1 + d
    BY <1>1, <1>4
  <2>2. a * One = b * One + One + d * One /\ d * One \in Nat /\ b * One \in Nat
    BY <1>1, <1>3, <2>1
  <2>3. QED
    BY <1>1, <1>2, <1>3, <2>2
<1>5. QED
  BY <1>1, <1>4 DEF a, b

\* What passes and what rejects together need everybody.
LEMMA NeededBoth ==
    ASSUME MultisigAssumption, NEW w \in Nat, NEW p \in 0 .. One
    PROVE  votes_needed(w, p) + votes_needed(w, One - p) >= w
<1> DEFINE a == votes_needed(w, p)
           b == votes_needed(w, One - p)
<1>1. One \in Nat \ {0} /\ p \in Nat /\ One - p \in Nat
  BY DEF MultisigAssumption
<1>2. a \in Nat /\ b \in Nat /\ a * One >= w * p /\ b * One >= w * (One - p)
  BY <1>1, NeededBounds
<1> HIDE DEF a, b
<1>3. w * p + w * (One - p) = w * One /\ (a + b) * One = a * One + b * One
  BY <1>1, <1>2
<1>4. (a + b) * One >= w * One
  BY <1>1, <1>2, <1>3
<1>5. ASSUME a + b < w PROVE FALSE
  <2>1. PICK d \in Nat : w = a + b + 1 + d
    BY <1>2, <1>5
  <2>2. w * One = (a + b) * One + One + d * One /\ d * One \in Nat /\ (a + b) * One \in Nat
    BY <1>1, <1>2, <2>1
  <2>3. QED
    BY <1>1, <1>4, <2>2
<1>6. QED
  BY <1>2, <1>5 DEF a, b

-----------------------------------------------------------------------------
(* Decisions *)

\* The rules of is_passed and is_rejected for a weight w, opinions o and votes v.
Passes(t, w, o, v) ==
    \/ t.kind = "AbsoluteCount" /\ v["yes"] >= t.weight
    \/ t.kind = "AbsolutePercentage" /\ v["yes"] >= votes_needed(w - v["abstain"], t.percentage)
    \/ /\ t.kind = "ThresholdQuorum" /\ total(v) >= votes_needed(w, t.quorum)
       /\ v["yes"] >= votes_needed(o, t.threshold)

Rejects(t, w, o, v) ==
    \/ t.kind = "AbsoluteCount" /\ v["no"] > w - t.weight
    \/ t.kind = "AbsolutePercentage" /\ v["no"] > votes_needed(w - v["abstain"], One - t.percentage)
    \/ t.kind = "ThresholdQuorum" /\ v["no"] > votes_needed(o, One - t.threshold)

LEMMA Rules ==
    ASSUME NEW p
    PROVE  /\ is_passed(p) <=> Passes(config.threshold, config.total_weight, Opinions(p), p.votes)
           /\ is_rejected(p) <=> Rejects(config.threshold, config.total_weight, Opinions(p), p.votes)
BY DEF is_passed, is_rejected, Passes, Rejects

\* More votes and fewer outstanding opinions take back no decision.
LEMMA DecisionsStay ==
    ASSUME MultisigAssumption, NEW t, NEW w \in Nat, validate(t, w),
           NEW v \in [Votes -> Nat], NEW q \in [Votes -> Nat], \A x \in Votes : v[x] <= q[x],
           NEW o \in Nat, NEW r \in Nat, r <= o, total(q) <= w
    PROVE  /\ Passes(t, w, o, v) => Passes(t, w, r, q)
           /\ Rejects(t, w, o, v) => Rejects(t, w, r, q)
<1>1. /\ v["yes"] \in Nat /\ v["no"] \in Nat /\ v["abstain"] \in Nat /\ v["veto"] \in Nat
      /\ q["yes"] \in Nat /\ q["no"] \in Nat /\ q["abstain"] \in Nat /\ q["veto"] \in Nat
      /\ v["yes"] <= q["yes"] /\ v["no"] <= q["no"] /\ v["abstain"] <= q["abstain"] /\ v["veto"] <= q["veto"]
  BY DEF Votes
<1>2. /\ total(v) <= total(q) /\ total(v) \in Nat /\ total(q) \in Nat
      /\ w - q["abstain"] \in Nat /\ w - v["abstain"] \in Nat /\ w - q["abstain"] <= w - v["abstain"]
  BY <1>1 DEF total
<1>3. One \in Nat \ {0}
  BY DEF MultisigAssumption
<1>4. CASE t.kind = "AbsoluteCount"
  BY <1>1, <1>4 DEF Passes, Rejects, validate
<1>5. CASE t.kind = "AbsolutePercentage"
  <2>1. t.percentage \in Nat /\ One - t.percentage \in Nat
    BY <1>3, <1>5 DEF validate
  <2>2. /\ votes_needed(w - q["abstain"], t.percentage) <= votes_needed(w - v["abstain"], t.percentage)
        /\ votes_needed(w - q["abstain"], One - t.percentage) <= votes_needed(w - v["abstain"], One - t.percentage)
    BY <1>2, <2>1, NeededGrows
  <2>3. /\ votes_needed(w - q["abstain"], t.percentage) \in Nat /\ votes_needed(w - v["abstain"], t.percentage) \in Nat
        /\ votes_needed(w - q["abstain"], One - t.percentage) \in Nat
        /\ votes_needed(w - v["abstain"], One - t.percentage) \in Nat
    BY <1>2, <2>1, NeededBounds
  <2>4. QED
    BY <1>1, <1>5, <2>2, <2>3 DEF Passes, Rejects
<1>6. CASE t.kind = "ThresholdQuorum"
  <2>1. t.threshold \in Nat /\ One - t.threshold \in Nat /\ t.quorum \in Nat
    BY <1>3, <1>6 DEF validate
  <2>2. /\ votes_needed(r, t.threshold) <= votes_needed(o, t.threshold)
        /\ votes_needed(r, One - t.threshold) <= votes_needed(o, One - t.threshold)
    BY <2>1, NeededGrows
  <2>3. /\ votes_needed(r, t.threshold) \in Nat /\ votes_needed(o, t.threshold) \in Nat
        /\ votes_needed(r, One - t.threshold) \in Nat /\ votes_needed(o, One - t.threshold) \in Nat
        /\ votes_needed(w, t.quorum) \in Nat
    BY <2>1, NeededBounds
  <2>4. QED
    BY <1>1, <1>2, <1>6, <2>2, <2>3 DEF Passes, Rejects
<1>7. QED
  BY <1>4, <1>5, <1>6 DEF validate

\* No votes both pass and reject a proposal.
LEMMA DecisionsExclude ==
    ASSUME MultisigAssumption, NEW t, NEW w \in Nat, validate(t, w),
           NEW v \in [Votes -> Nat], total(v) <= w, NEW o \in Nat, total(v) - v["abstain"] <= o,
           Rejects(t, w, o, v)
    PROVE  ~Passes(t, w, o, v)
<1>1. v["yes"] \in Nat /\ v["no"] \in Nat /\ v["abstain"] \in Nat /\ v["veto"] \in Nat
  BY DEF Votes
<1>2. v["yes"] + v["no"] <= w - v["abstain"] /\ w - v["abstain"] \in Nat /\ v["yes"] + v["no"] <= o
  BY <1>1 DEF total
<1>3. One \in Nat \ {0}
  BY DEF MultisigAssumption
<1>4. CASE t.kind = "AbsoluteCount"
  BY <1>1, <1>2, <1>4 DEF Passes, Rejects, validate
<1>5. CASE t.kind = "AbsolutePercentage"
  <2>1. t.percentage \in Nat /\ t.percentage \in 0 .. One /\ One - t.percentage \in Nat
    BY <1>3, <1>5 DEF validate
  <2> DEFINE a == votes_needed(w - v["abstain"], t.percentage)
             b == votes_needed(w - v["abstain"], One - t.percentage)
  <2>2. a + b >= w - v["abstain"]
    BY <1>2, <2>1, NeededBoth
  <2>3. a \in Nat /\ b \in Nat
    BY <1>2, <2>1, NeededBounds
  <2>4. v["no"] > b /\ (Passes(t, w, o, v) => v["yes"] >= a)
    BY <1>5 DEF Passes, Rejects
  <2> HIDE DEF a, b
  <2>5. QED
    BY <1>1, <1>2, <2>2, <2>3, <2>4
<1>6. CASE t.kind = "ThresholdQuorum"
  <2>1. t.threshold \in Nat /\ t.threshold \in 0 .. One /\ One - t.threshold \in Nat
    BY <1>3, <1>6 DEF validate
  <2> DEFINE a == votes_needed(o, t.threshold)
             b == votes_needed(o, One - t.threshold)
  <2>2. a + b >= o
    BY <2>1, NeededBoth
  <2>3. a \in Nat /\ b \in Nat
    BY <2>1, NeededBounds
  <2>4. v["no"] > b /\ (Passes(t, w, o, v) => v["yes"] >= a)
    BY <1>6 DEF Passes, Rejects
  <2> HIDE DEF a, b
  <2>5. QED
    BY <1>1, <1>2, <2>2, <2>3, <2>4
<1>7. QED
  BY <1>4, <1>5, <1>6 DEF validate

-----------------------------------------------------------------------------
(* Voters and rows *)

\* Every voter of a list keeps one of its weights, so together they have at most the total.
LEMMA SavedTotal ==
    ASSUME MultisigAssumption, NEW list \in VoterLists, weights = SavedWeights(list)
    PROVE  /\ weights \in [DOMAIN weights -> Nat] /\ DOMAIN weights \subseteq Voters
           /\ ListTotal(list) \in Nat /\ SumOver(Held, Voters) <= ListTotal(list)
<1> DEFINE I == DOMAIN list
           D == {list[i].addr : i \in I}
           entry == [i \in I |-> list[i].weight]
           e == [u \in D |-> LastOf(list, u)]
           kept == [i \in I |-> IF \E u \in D : e[u] = i THEN entry[i] ELSE 0]
<1>1. list \in Seq([addr : Voters, weight : Nat]) /\ IsFiniteSet(Voters)
  BY DEF MultisigAssumption
<1>2. Len(list) \in Nat /\ I = 1 .. Len(list) /\ IsFiniteSet(I) /\ I \subseteq Int
  BY <1>1, LenProperties, FS_Interval
<1>3. \A i \in I : list[i] \in [addr : Voters, weight : Nat]
  BY <1>1, <1>2, ElementOfSeq
<1>4. D \subseteq Voters /\ (\A i \in I : entry[i] \in Nat) /\ IsFiniteSet(D)
  BY <1>1, <1>3, FS_Subset
<1>5. ASSUME NEW u \in D PROVE LastOf(list, u) \in I /\ list[LastOf(list, u)].addr = u
  <2> DEFINE S == {i \in I : list[i].addr = u}
  <2>1. S # {} /\ IsFiniteSet(S) /\ S \subseteq Int
    BY <1>2, FS_Subset
  <2> HIDE DEF S
  <2>2. Max(S) \in S
    BY <2>1, MaxInSet
  <2>3. LastOf(list, u) = Max(S)
    BY DEF LastOf, S
  <2>4. QED
    BY <2>2, <2>3 DEF S
<1>6. e \in [D -> I] /\ (\A u, v \in D : e[u] = e[v] => u = v)
  BY <1>5
<1>7. weights = [u \in D |-> list[LastOf(list, u)].weight]
  BY DEF SavedWeights
<1>8. \A u \in D : LastOf(list, u) \in I /\ weights[u] = entry[e[u]]
  BY <1>5, <1>7
<1>9. DOMAIN weights = D /\ weights \in [D -> Nat]
  BY <1>4, <1>7, <1>8, <1>6
<1>10. ListTotal(list) = SumOver(entry, I)
  BY DEF ListTotal
<1> HIDE DEF entry, e, I, D
<1>11. \A u \in D : Held[u] = kept[e[u]]
  BY <1>4, <1>6, <1>8, <1>9 DEF Held
<1>12. \A i \in I : kept[i] \in Int /\ ((\A u \in D : e[u] # i) => kept[i] = 0)
  BY <1>4
<1>13. \A i \in I : kept[i] \in Int /\ entry[i] \in Int /\ kept[i] <= entry[i]
  BY <1>4
<1>14. \A u \in Voters : Held[u] \in Int /\ (u \notin D => Held[u] = 0)
  BY <1>9 DEF Held
<1> HIDE DEF kept
<1>15. SumOver(Held, D) = SumOver(kept, I)
  <2>1. Renames(e, D, I, Held, kept)
    BY <1>2, <1>4, <1>6, <1>11, <1>12 DEF Renames
  <2>2. QED
    BY <2>1, SumRename
<1>16. SumOver(kept, I) <= SumOver(entry, I)
  BY <1>2, <1>13, SumMonotonic
<1>17. SumOver(Held, Voters) = SumOver(Held, D)
  BY <1>1, <1>4, <1>14, SumZeros
<1>18. SumOver(entry, I) \in Nat
  BY <1>2, <1>4, SumNat
<1>19. QED
  BY <1>4, <1>9, <1>10, <1>15, <1>16, <1>17, <1>18

LEMMA MultisigInit == MultisigAssumption /\ Init => WeightsInv /\ RowInv /\ BallotInv /\ DecisionInv
<1> SUFFICES ASSUME MultisigAssumption, Init PROVE WeightsInv /\ RowInv /\ BallotInv /\ DecisionInv
  OBVIOUS
<1>1. PICK list \in VoterLists, t \in Thresholds :
        /\ validate(t, ListTotal(list)) /\ weights = SavedWeights(list)
        /\ config = [threshold |-> t, total_weight |-> ListTotal(list)]
  BY DEF Init
<1>2. WeightsInv
  BY <1>1, SavedTotal DEF WeightsInv
<1>3. proposals = <<>> /\ sent = <<>> /\ DOMAIN proposals = {} /\ DOMAIN ballots = {} /\ now = 0
  BY DEF Init
<1>4. RowInv
  BY <1>3 DEF RowInv
<1>5. BallotInv /\ DecisionInv
  BY <1>3 DEF BallotInv, DecisionInv
<1>6. QED
  BY <1>2, <1>4, <1>5

LEMMA RowFields ==
    ASSUME RowInv
    PROVE  /\ Len(proposals) \in Nat /\ DOMAIN proposals = 1 .. Len(proposals) /\ DOMAIN sent = DOMAIN proposals
           /\ \A id \in DOMAIN proposals : proposals[id] \in Row /\ sent[id] \in Nat
<1>1. Len(proposals) \in Nat /\ DOMAIN proposals = 1 .. Len(proposals) /\ DOMAIN sent = DOMAIN proposals
  BY LenProperties DEF RowInv
<1>2. \A id \in DOMAIN proposals : proposals[id] \in Row
  BY <1>1, ElementOfSeq DEF RowInv
<1>3. \A id \in DOMAIN proposals : sent[id] \in Nat
  BY <1>1, ElementOfSeq DEF RowInv
<1>4. QED
  BY <1>1, <1>2, <1>3

LEMMA UpdatedRow ==
    ASSUME NEW p \in Row
    PROVE  /\ update_status(p) \in Row /\ update_status(p).status = current_status(p)
           /\ update_status(p).votes = p.votes /\ update_status(p).expires = p.expires
<1>1. current_status(p) \in Status
  BY DEF current_status, Status, Row
<1>2. update_status(p) = [p EXCEPT !.status = current_status(p)]
  BY DEF update_status
<1>3. QED
  BY <1>1, <1>2 DEF Row

\* A row is replaced, or a status set.
LEMMA ReplacedRow ==
    ASSUME RowInv, NEW id \in DOMAIN proposals, NEW q \in Row, proposals' = [proposals EXCEPT ![id] = q], now' = now,
           sent' = sent \/ sent' = [sent EXCEPT ![id] = @ + 1]
    PROVE  /\ RowInv' /\ DOMAIN proposals' = DOMAIN proposals
           /\ proposals'[id] = q /\ \A i \in DOMAIN proposals : i # id => proposals'[i] = proposals[i]
<1>1. id \in 1 .. Len(proposals) /\ DOMAIN proposals = 1 .. Len(proposals) /\ id \in 1 .. Len(sent) /\ sent[id] + 1 \in Nat
  BY RowFields DEF RowInv
<1>2. proposals' \in Seq(Row) /\ Len(proposals') = Len(proposals)
  BY <1>1, ExceptSeq DEF RowInv
<1>3. \A i \in DOMAIN proposals : proposals'[i] = IF i = id THEN q ELSE proposals[i]
  BY <1>1
<1>4. DOMAIN proposals' = DOMAIN proposals
  OBVIOUS
<1>5. sent' \in Seq(Nat) /\ Len(sent') = Len(sent)
  <2>1. CASE sent' = sent
    BY <2>1 DEF RowInv
  <2>2. CASE sent' = [sent EXCEPT ![id] = @ + 1]
    <3>1. sent' = [sent EXCEPT ![id] = sent[id] + 1]
      BY <2>2
    <3>2. QED
      BY <1>1, <3>1, ExceptSeq DEF RowInv
  <2>3. QED
    BY <2>1, <2>2
<1>6. QED
  BY <1>2, <1>3, <1>4, <1>5 DEF RowInv

LEMMA AppendedRow ==
    ASSUME RowInv, NEW q \in Row, NEW n, n = Len(proposals) + 1,
           proposals' = Append(proposals, q), sent' = Append(sent, 0), now' = now
    PROVE  /\ RowInv' /\ DOMAIN proposals' = DOMAIN proposals \union {n} /\ n \notin DOMAIN proposals
           /\ proposals'[n] = q /\ sent'[n] = 0
           /\ \A i \in DOMAIN proposals : proposals'[i] = proposals[i] /\ sent'[i] = sent[i]
<1>1. Len(proposals) \in Nat /\ DOMAIN proposals = 1 .. Len(proposals) /\ Len(sent) = Len(proposals)
  BY RowFields DEF RowInv
<1>2. /\ proposals' \in Seq(Row) /\ Len(proposals') = n
      /\ \A i \in 1 .. Len(proposals) : proposals'[i] = proposals[i]
      /\ proposals'[n] = q
  BY AppendProperties DEF RowInv
<1>3. /\ sent' \in Seq(Nat) /\ Len(sent') = n
      /\ \A i \in 1 .. Len(sent) : sent'[i] = sent[i]
      /\ sent'[n] = 0
  BY <1>1, AppendProperties DEF RowInv
<1>4. DOMAIN proposals' = 1 .. n
  BY <1>2, LenProperties
<1>5. DOMAIN proposals' = DOMAIN proposals \union {n} /\ n \notin DOMAIN proposals
  BY <1>1, <1>4
<1>6. RowInv'
  BY <1>2, <1>3 DEF RowInv
<1>7. QED
  BY <1>1, <1>2, <1>3, <1>5, <1>6

-----------------------------------------------------------------------------
(* The tally *)

LEMMA GivenType ==
    ASSUME WeightsInv, BallotInv, NEW id, NEW answers
    PROVE  \A u \in Voters : Given(id, answers)[u] \in Nat /\ Given(id, answers)[u] <= Held[u] /\ Held[u] \in Nat
<1> SUFFICES ASSUME NEW u \in Voters
             PROVE  Given(id, answers)[u] \in Nat /\ Given(id, answers)[u] <= Held[u] /\ Held[u] \in Nat
  OBVIOUS
<1>1. Held[u] = IF u \in DOMAIN weights THEN weights[u] ELSE 0
  BY DEF Held
<1>2. Held[u] \in Nat
  BY <1>1 DEF WeightsInv
<1>3. Given(id, answers)[u] = IF <<id, u>> \in DOMAIN ballots /\ ballots[<<id, u>>].vote \in answers
                              THEN ballots[<<id, u>>].weight ELSE 0
  BY DEF Given
<1>4. ASSUME <<id, u>> \in DOMAIN ballots PROVE u \in DOMAIN weights /\ ballots[<<id, u>>].weight = weights[u]
  BY <1>4 DEF BallotInv
<1>5. QED
  BY <1>1, <1>2, <1>3, <1>4

\* A new ballot of u adds the weight of u to its answer and to no other one.
LEMMA BallotCast ==
    ASSUME MultisigAssumption, WeightsInv, BallotInv, NEW u \in DOMAIN weights, NEW id, NEW vote \in Votes,
           <<id, u>> \notin DOMAIN ballots, ballots' = Saved(id, u, vote), weights' = weights, NEW answers
    PROVE  /\ SumOver(Given(id, answers)', Voters) = SumOver(Given(id, answers), Voters)
                                                      + (IF vote \in answers THEN weights[u] ELSE 0)
           /\ SumOver(Given(id, answers)', Voters) <= config.total_weight
           /\ \A i : i # id => Given(i, answers)' = Given(i, answers)
<1> DEFINE f == Given(id, answers)
           g == [w \in Voters |-> IF <<id, w>> \in DOMAIN ballots' /\ ballots'[<<id, w>>].vote \in answers
                                  THEN ballots'[<<id, w>>].weight ELSE 0]
<1>1. u \in Voters /\ weights[u] \in Nat /\ IsFiniteSet(Voters)
  BY DEF WeightsInv, MultisigAssumption
<1>2. /\ DOMAIN ballots' = DOMAIN ballots \union {<<id, u>>}
      /\ ballots'[<<id, u>>] = [weight |-> weights[u], vote |-> vote]
      /\ \A key \in DOMAIN ballots : ballots'[key] = ballots[key]
  BY DEF Saved
<1>3. Given(id, answers)' = g
  BY DEF Given
<1>4. \A w \in Voters : f[w] \in Nat /\ f[w] <= Held[w] /\ Held[w] \in Nat
  BY GivenType
<1>5. Held[u] = weights[u] /\ f[u] = 0 /\ g[u] = IF vote \in answers THEN weights[u] ELSE 0
  BY <1>1, <1>2 DEF Given, Held
<1>6. \A w \in Voters \ {u} : g[w] = f[w]
  BY <1>2 DEF Given
<1>7. \A i : i # id => Given(i, answers)' = Given(i, answers)
  BY <1>2 DEF Given
<1> HIDE DEF f, g
<1>8. (\A w \in Voters : f[w] \in Int) /\ (\A w \in Voters : g[w] \in Int) /\ (\A w \in Voters \ {u} : g[w] = f[w])
  BY <1>1, <1>4, <1>5, <1>6
<1>9. SumOver(g, Voters) = SumOver(f, Voters) + g[u] - f[u]
  BY <1>1, <1>8, SumChange
<1>10. SumOver(f, Voters) \in Nat
  BY <1>1, <1>4, SumNat
<1>11. \A w \in Voters : g[w] \in Int /\ Held[w] \in Int /\ g[w] <= Held[w]
  BY <1>1, <1>4, <1>5, <1>6
<1>12. SumOver(g, Voters) <= SumOver(Held, Voters)
  BY <1>1, <1>11, SumMonotonic
<1>13. SumOver(g, Voters) \in Int
  BY <1>1, <1>8, SumType
<1>14. SumOver(Held, Voters) \in Int
  BY <1>1, <1>11, SumType
<1>15. SumOver(g, Voters) <= config.total_weight
  BY <1>12, <1>13, <1>14 DEF WeightsInv
<1>16. QED
  BY <1>1, <1>3, <1>5, <1>7, <1>9, <1>10, <1>15 DEF f

\* A proposal without ballots has been given nothing.
LEMMA NothingGiven ==
    ASSUME MultisigAssumption, NEW id, NEW answers, \A u \in Voters : <<id, u>> \notin DOMAIN ballots
    PROVE  SumOver(Given(id, answers), Voters) = 0
<1>1. \A u \in Voters : Given(id, answers)[u] = 0
  BY DEF Given
<1>2. QED
  BY <1>1, SumZero DEF MultisigAssumption

\* The step saves a ballot of u and adds it to a row that had the votes base.
Casts(u, id, vote, base) ==
    /\ <<id, u>> \notin DOMAIN ballots /\ ballots' = Saved(id, u, vote) /\ UNCHANGED <<weights, config>>
    /\ DOMAIN proposals' = DOMAIN proposals \union {id}
    /\ \A i \in DOMAIN proposals : i # id => proposals'[i] = proposals[i]
    /\ \A x \in Votes : base[x] = SumOver(Given(id, {x}), Voters)
    /\ total(base) = SumOver(Given(id, Votes), Voters)
    /\ proposals'[id].votes = [base EXCEPT ![vote] = @ + weights[u]]

LEMMA CastCounted ==
    ASSUME MultisigAssumption, WeightsInv, BallotInv, NEW u \in DOMAIN weights, NEW id, NEW vote \in Votes,
           NEW base \in [Votes -> Nat], Casts(u, id, vote, base)
    PROVE  BallotInv'
<1> USE DEF Casts
<1> DEFINE new == [base EXCEPT ![vote] = @ + weights[u]]
<1>1. /\ DOMAIN ballots' = DOMAIN ballots \union {<<id, u>>}
      /\ ballots'[<<id, u>>] = [weight |-> weights[u], vote |-> vote]
      /\ \A key \in DOMAIN ballots : ballots'[key] = ballots[key]
  BY DEF Saved
<1>2. weights[u] \in Nat
  BY DEF WeightsInv
<1>3. \A x \in Votes : new[x] = base[x] + (IF x = vote THEN weights[u] ELSE 0)
  BY <1>2
<1>4. total(new) = total(base) + weights[u]
  <2>1. \A x \in {"yes", "no", "abstain", "veto"} :
          base[x] \in Nat /\ new[x] = base[x] + (IF x = vote THEN weights[u] ELSE 0)
    BY <1>3 DEF Votes
  <2>2. vote \in {"yes", "no", "abstain", "veto"}
    BY DEF Votes
  <2> HIDE DEF new
  <2>3. QED
    BY <1>2, <2>1, <2>2 DEF total
<1> HIDE DEF new
<1>5. ASSUME NEW x \in Votes PROVE new[x] = SumOver(Given(id, {x})', Voters)
  <2>1. SumOver(Given(id, {x})', Voters) = SumOver(Given(id, {x}), Voters) + (IF vote \in {x} THEN weights[u] ELSE 0)
    BY BallotCast
  <2>2. QED
    BY <1>3, <2>1
<1>6. total(new) = SumOver(Given(id, Votes)', Voters) /\ total(new) <= config.total_weight
  <2>1. /\ SumOver(Given(id, Votes)', Voters) = SumOver(Given(id, Votes), Voters)
                                                + (IF vote \in Votes THEN weights[u] ELSE 0)
        /\ SumOver(Given(id, Votes)', Voters) <= config.total_weight
    BY BallotCast
  <2>2. QED
    BY <1>4, <2>1
<1>7. /\ DOMAIN ballots' \subseteq (DOMAIN proposals') \X DOMAIN weights'
      /\ \A key \in DOMAIN ballots' : ballots'[key].weight = weights'[key[2]] /\ ballots'[key].vote \in Votes
  <2>1. <<id, u>> \in (DOMAIN proposals') \X DOMAIN weights'
    OBVIOUS
  <2>2. QED
    BY <1>1, <2>1 DEF BallotInv
<1>8. ASSUME NEW i \in DOMAIN proposals'
      PROVE  /\ \A x \in Votes : proposals'[i].votes[x] = SumOver(Given(i, {x})', Voters)
             /\ total(proposals'[i].votes) = SumOver(Given(i, Votes)', Voters)
             /\ total(proposals'[i].votes) <= config'.total_weight
  <2>1. CASE i = id
    BY <1>5, <1>6, <2>1 DEF new
  <2>2. CASE i # id
    <3>1. i \in DOMAIN proposals /\ proposals'[i] = proposals[i]
      BY <2>2
    <3>2. \A answers : Given(i, answers)' = Given(i, answers)
      BY <2>2, BallotCast
    <3>3. QED
      BY <3>1, <3>2 DEF BallotInv
  <2>3. QED
    BY <2>1, <2>2
<1>9. QED
  BY <1>7, <1>8 DEF BallotInv, total

-----------------------------------------------------------------------------
(* Steps *)

\* Time goes on.
Rests == UNCHANGED <<proposals, ballots, sent>> /\ now' \in Nat /\ now' >= now

\* A proposal is executed or closed.
Settles(id, s) ==
    /\ UNCHANGED <<ballots, now>> /\ proposals' = [proposals EXCEPT ![id].status = s]
    /\ \/ s = "Executed" /\ current_status(proposals[id]) = "Passed" /\ sent' = [sent EXCEPT ![id] = @ + 1]
       \/ /\ s = "Rejected" /\ proposals[id].status = "Open" /\ sent' = sent
          /\ ~is_passed(proposals[id]) /\ is_expired(proposals[id])

LEMMA Steps ==
    ASSUME RowInv, [Next]_vars
    PROVE  /\ UNCHANGED <<weights, config>>
           /\ \/ Rests
              \/ \E u \in Voters, latest \in Latests : execute_propose(u, latest)
              \/ \E u \in Voters, id \in DOMAIN proposals, vote \in Votes : execute_vote(u, id, vote)
              \/ \E id \in DOMAIN proposals, s \in {"Executed", "Rejected"} : Settles(id, s)
<1>1. UNCHANGED <<weights, config>>
  BY DEF Next, vars, Tick, execute_propose, execute_vote, execute_execute, execute_close
<1>2. ASSUME Tick \/ UNCHANGED vars PROVE Rests
  <2>1. UNCHANGED <<proposals, ballots, sent>> /\ (now' = now + 1 \/ now' = now)
    BY <1>2 DEF Tick, vars
  <2>2. QED
    BY <2>1 DEF Rests, RowInv
<1>3. ASSUME NEW id \in DOMAIN proposals, execute_execute(id) PROVE Settles(id, "Executed")
  BY <1>3 DEF execute_execute, Settles
<1>4. ASSUME NEW id \in DOMAIN proposals, execute_close(id) PROVE Settles(id, "Rejected")
  <2>1. proposals[id] \in Row
    BY RowFields
  <2>2. proposals[id].status = "Open"
    BY <1>4, <2>1 DEF execute_close, CloseAllowed, Row, Status
  <2>3. QED
    BY <1>4, <2>2 DEF execute_close, CloseAllowed, current_status, Settles
<1>5. QED
  BY <1>1, <1>2, <1>3, <1>4 DEF Next

LEMMA NewRow ==
    ASSUME MultisigAssumption, WeightsInv, RowInv, NEW u \in Voters, NEW latest \in Latests, execute_propose(u, latest)
    PROVE  \E p \in Row :
             /\ u \in DOMAIN weights /\ proposals' = Append(proposals, update_status(p)) /\ sent' = Append(sent, 0)
             /\ now' = now /\ ballots' = Saved(Len(proposals) + 1, u, "yes")
             /\ p.status = "Open" /\ p.votes = [[v \in Votes |-> 0] EXCEPT !["yes"] = @ + weights[u]]
<1> DEFINE m == now + MaxVotingPeriod
           p == [expires |-> IF latest = None \/ latest > m THEN m ELSE latest, status |-> "Open",
                 votes |-> [v \in Votes |-> IF v = "yes" THEN weights[u] ELSE 0]]
<1>1. /\ u \in DOMAIN weights /\ proposals' = Append(proposals, update_status(p)) /\ sent' = Append(sent, 0)
      /\ now' = now /\ ballots' = Saved(Len(proposals) + 1, u, "yes")
  BY DEF execute_propose
<1>2. m \in Int /\ latest \in Int
  BY DEF MultisigAssumption, RowInv
<1>3. weights[u] \in Nat
  BY <1>1 DEF WeightsInv
<1>4. p \in Row
  BY <1>2, <1>3 DEF Row, Status
<1>5. p.status = "Open" /\ p.votes = [[v \in Votes |-> 0] EXCEPT !["yes"] = @ + weights[u]]
  BY <1>3 DEF Votes
<1>6. QED
  BY <1>1, <1>4, <1>5

LEMMA VotedRow ==
    ASSUME WeightsInv, NEW p \in Row, NEW u \in DOMAIN weights, NEW vote \in Votes
    PROVE  /\ Voted(p, u, vote) \in Row /\ Voted(p, u, vote).status = p.status /\ Voted(p, u, vote).expires = p.expires
           /\ Voted(p, u, vote).votes = [p.votes EXCEPT ![vote] = @ + weights[u]]
<1> DEFINE v == [p.votes EXCEPT ![vote] = @ + weights[u]]
<1>1. p.votes \in [Votes -> Nat] /\ weights[u] \in Nat
  BY DEF Row, WeightsInv
<1>2. v \in [Votes -> Nat]
  BY <1>1
<1>3. Voted(p, u, vote) = [p EXCEPT !.votes = v]
  BY DEF Voted
<1> HIDE DEF v
<1>4. QED
  BY <1>2, <1>3 DEF Row, v

LEMMA WeightsStep ==
    ASSUME WeightsInv, UNCHANGED <<weights, config>> PROVE WeightsInv'
BY DEF WeightsInv, Held, validate

\* Without a ballot the tally stays as it is.
LEMMA TallyStays ==
    ASSUME BallotInv, UNCHANGED <<weights, config, ballots>>, DOMAIN proposals' = DOMAIN proposals,
           \A id \in DOMAIN proposals : proposals'[id].votes = proposals[id].votes
    PROVE  BallotInv'
<1>1. \A id, answers : Given(id, answers)' = Given(id, answers)
  BY DEF Given
<1>2. QED
  BY <1>1 DEF BallotInv

LEMMA SettledRow ==
    ASSUME RowInv, NEW id \in DOMAIN proposals, NEW s \in Status, proposals' = [proposals EXCEPT ![id].status = s]
    PROVE  \E q \in Row :
             /\ proposals' = [proposals EXCEPT ![id] = q] /\ q.status = s
             /\ q.votes = proposals[id].votes /\ q.expires = proposals[id].expires
<1>1. proposals[id] \in Row
  BY RowFields
<1> DEFINE q == [proposals[id] EXCEPT !.status = s]
<1>2. /\ q \in Row /\ q.status = s /\ q.votes = proposals[id].votes /\ q.expires = proposals[id].expires
  BY <1>1 DEF Row
<1>3. proposals' = [proposals EXCEPT ![id] = q]
  OBVIOUS
<1>4. QED
  BY <1>2, <1>3

LEMMA TallyStep ==
    ASSUME MultisigAssumption, WeightsInv, RowInv, BallotInv, [Next]_vars
    PROVE  WeightsInv' /\ RowInv' /\ BallotInv'
<1>0. UNCHANGED <<weights, config>>
  BY Steps
<1>1. CASE Rests
  <2>1. RowInv'
    BY <1>1 DEF RowInv, Rests
  <2>2. BallotInv'
    BY <1>0, <1>1, TallyStays DEF Rests
  <2>3. QED
    BY <1>0, <2>1, <2>2, WeightsStep
<1>2. ASSUME NEW u \in Voters, NEW latest \in Latests, execute_propose(u, latest) PROVE RowInv' /\ BallotInv'
  <2>1. PICK p \in Row :
          /\ u \in DOMAIN weights /\ proposals' = Append(proposals, update_status(p)) /\ sent' = Append(sent, 0)
          /\ now' = now /\ ballots' = Saved(Len(proposals) + 1, u, "yes")
          /\ p.status = "Open" /\ p.votes = [[v \in Votes |-> 0] EXCEPT !["yes"] = @ + weights[u]]
    BY <1>2, NewRow
  <2>2. PICK n : n = Len(proposals) + 1
    OBVIOUS
  <2>3. PICK q \in Row : q = update_status(p) /\ q.votes = p.votes
    BY UpdatedRow
  <2>4. /\ RowInv' /\ DOMAIN proposals' = DOMAIN proposals \union {n} /\ n \notin DOMAIN proposals
        /\ proposals'[n] = q
        /\ \A i \in DOMAIN proposals : proposals'[i] = proposals[i]
    BY <2>1, <2>2, <2>3, AppendedRow
  <2>5. \A w \in Voters : <<n, w>> \notin DOMAIN ballots
    BY <2>4 DEF BallotInv
  <2> DEFINE base == [v \in Votes |-> 0]
  <2>6. /\ base \in [Votes -> Nat] /\ total(base) = SumOver(Given(n, Votes), Voters)
        /\ \A x \in Votes : base[x] = SumOver(Given(n, {x}), Voters)
    <3>1. \A answers : SumOver(Given(n, answers), Voters) = 0
      BY <2>5, NothingGiven
    <3>2. total(base) = 0
      BY DEF total, Votes
    <3>3. QED
      BY <3>1, <3>2
  <2>7. u \in DOMAIN weights /\ "yes" \in Votes /\ <<n, u>> \notin DOMAIN ballots /\ ballots' = Saved(n, u, "yes")
    BY <2>1, <2>2, <2>5 DEF Votes
  <2>8. proposals'[n].votes = [base EXCEPT !["yes"] = @ + weights[u]]
    BY <2>1, <2>3, <2>4
  <2> HIDE DEF base
  <2>9. Casts(u, n, "yes", base)
    BY <1>0, <2>4, <2>6, <2>7, <2>8 DEF Casts
  <2>10. BallotInv'
    BY <2>6, <2>7, <2>9, CastCounted
  <2>11. QED
    BY <2>4, <2>10
<1>3. ASSUME NEW u \in Voters, NEW id \in DOMAIN proposals, NEW vote \in Votes, execute_vote(u, id, vote)
      PROVE  RowInv' /\ BallotInv'
  <2>1. /\ u \in DOMAIN weights /\ <<id, u>> \notin DOMAIN ballots /\ ballots' = Saved(id, u, vote) /\ UNCHANGED <<sent, now>>
        /\ proposals' = [proposals EXCEPT ![id] = update_status(Voted(proposals[id], u, vote))]
    BY <1>3 DEF execute_vote, VoteAllowed
  <2>2. PICK base \in [Votes -> Nat] : base = proposals[id].votes
    BY RowFields DEF Row
  <2>3. PICK q \in Row : /\ q = update_status(Voted(proposals[id], u, vote))
                         /\ q.votes = [base EXCEPT ![vote] = @ + weights[u]]
    BY <2>1, <2>2, RowFields, VotedRow, UpdatedRow
  <2>4. /\ RowInv' /\ DOMAIN proposals' = DOMAIN proposals /\ proposals'[id] = q
        /\ \A i \in DOMAIN proposals : i # id => proposals'[i] = proposals[i]
    BY <2>1, <2>3, ReplacedRow
  <2>5. /\ \A x \in Votes : base[x] = SumOver(Given(id, {x}), Voters)
        /\ total(base) = SumOver(Given(id, Votes), Voters)
    BY <2>2 DEF BallotInv
  <2>6. DOMAIN proposals' = DOMAIN proposals \union {id} /\ proposals'[id].votes = [base EXCEPT ![vote] = @ + weights[u]]
    BY <2>3, <2>4
  <2>7. Casts(u, id, vote, base)
    BY <1>0, <2>1, <2>4, <2>5, <2>6 DEF Casts
  <2>8. BallotInv'
    BY <2>1, <2>7, CastCounted
  <2>9. QED
    BY <2>4, <2>8
<1>4. ASSUME NEW id \in DOMAIN proposals, NEW s \in {"Executed", "Rejected"}, Settles(id, s) PROVE RowInv' /\ BallotInv'
  <2>1. PICK q \in Row : proposals' = [proposals EXCEPT ![id] = q] /\ q.votes = proposals[id].votes
    BY <1>4, SettledRow DEF Settles, Status
  <2>2. /\ RowInv' /\ DOMAIN proposals' = DOMAIN proposals /\ proposals'[id] = q
        /\ \A i \in DOMAIN proposals : i # id => proposals'[i] = proposals[i]
    BY <1>4, <2>1, ReplacedRow DEF Settles
  <2>3. BallotInv'
    BY <1>0, <1>4, <2>1, <2>2, TallyStays DEF Settles
  <2>4. QED
    BY <2>2, <2>3
<1>5. QED
  BY <1>0, <1>1, <1>2, <1>3, <1>4, Steps, WeightsStep

-----------------------------------------------------------------------------
(* Decisions hold *)

\* Only the votes, the expiration and the clock decide.
LEMMA SameDecision ==
    ASSUME NEW p \in Row, NEW q \in Row, q.votes = p.votes, q.expires = p.expires
    PROVE  /\ is_passed(q) <=> is_passed(p)
           /\ is_rejected(q) <=> is_rejected(p)
           /\ is_expired(q) <=> is_expired(p)
BY DEF is_passed, is_rejected, is_expired, Opinions

LEMMA DecisionUnmoved ==
    ASSUME NEW p \in Row, UNCHANGED <<config, now>> PROVE Decided(p)' <=> Decided(p)
BY DEF Decided, is_passed, is_rejected, is_expired, Opinions

LEMMA UpdatedDecision ==
    ASSUME NEW p \in Row, Decided(p) PROVE Decided(update_status(p))
<1> DEFINE q == update_status(p)
<1>1. q \in Row /\ q.status = current_status(p) /\ q.votes = p.votes /\ q.expires = p.expires
  BY UpdatedRow
<1> HIDE DEF q
<1>2. (is_passed(q) <=> is_passed(p)) /\ (is_rejected(q) <=> is_rejected(p)) /\ (is_expired(q) <=> is_expired(p))
  BY <1>1, SameDecision
<1>3. ASSUME p.status # "Open" PROVE Decided(q)
  BY <1>1, <1>2, <1>3 DEF Decided, current_status
<1>4. ASSUME p.status = "Open" PROVE Decided(q)
  BY <1>1, <1>2, <1>4 DEF Decided, current_status
<1>5. QED
  BY <1>3, <1>4 DEF q

\* Opinions that are outstanding do not grow: votes only come in before the end.
LEMMA FewerOpinions ==
    ASSUME WeightsInv, NEW p \in Row, NEW q \in Row, q.expires = p.expires, \A x \in Votes : p.votes[x] <= q.votes[x],
           total(q.votes) <= config.total_weight, is_expired(p) => q.votes = p.votes,
           config' = config, now \in Nat, now' \in Nat, now' >= now
    PROVE  /\ Opinions(p) \in Nat /\ Opinions(q)' \in Nat /\ Opinions(q)' <= Opinions(p)
           /\ total(q.votes) - q.votes["abstain"] <= Opinions(q)'
           /\ is_expired(p) => is_expired(q)' /\ Opinions(q)' = Opinions(p)
<1> DEFINE v == p.votes
           w == q.votes
           n == config.total_weight
<1>1. /\ v["yes"] \in Nat /\ v["no"] \in Nat /\ v["abstain"] \in Nat /\ v["veto"] \in Nat
      /\ w["yes"] \in Nat /\ w["no"] \in Nat /\ w["abstain"] \in Nat /\ w["veto"] \in Nat
      /\ v["yes"] <= w["yes"] /\ v["no"] <= w["no"] /\ v["abstain"] <= w["abstain"] /\ v["veto"] <= w["veto"]
  BY DEF Row, Votes
<1>2. n \in Nat /\ p.expires \in Int
  BY DEF WeightsInv, Row
<1>3. Opinions(p) = (IF now >= p.expires THEN total(v) ELSE n) - v["abstain"]
  BY DEF Opinions, is_expired
<1>4. Opinions(q)' = (IF now' >= p.expires THEN total(w) ELSE n) - w["abstain"]
  BY DEF Opinions, is_expired, total
<1>5. total(w) <= n /\ (now >= p.expires => w = v)
  BY DEF is_expired
<1>6. is_expired(p) = (now >= p.expires) /\ is_expired(q)' = (now' >= p.expires)
  BY DEF is_expired
<1> HIDE DEF v, w, n
<1>7. total(w) = w["yes"] + w["no"] + w["abstain"] + w["veto"] /\ total(v) = v["yes"] + v["no"] + v["abstain"] + v["veto"]
  BY DEF total
<1> DEFINE o == Opinions(p)
           r == Opinions(q)'
           Claim == /\ o \in Nat /\ r \in Nat /\ r <= o /\ total(w) - w["abstain"] <= r
                    /\ now >= p.expires => now' >= p.expires /\ r = o
<1> HIDE DEF o, r
<1>8. ASSUME now >= p.expires PROVE Claim
  <2>1. now' >= p.expires /\ w = v
    BY <1>2, <1>5, <1>8
  <2>2. o = total(v) - v["abstain"] /\ r = o
    BY <1>3, <1>4, <1>8, <2>1 DEF o, r
  <2>3. QED
    BY <1>1, <1>7, <1>8, <2>1, <2>2
<1>9. ASSUME ~(now >= p.expires) PROVE Claim
  <2>1. o = n - v["abstain"] /\ (r = total(w) - w["abstain"] \/ r = n - w["abstain"])
    BY <1>3, <1>4, <1>9 DEF o, r
  <2>2. QED
    BY <1>1, <1>2, <1>5, <1>7, <1>9, <2>1
<1>10. QED
  BY <1>6, <1>8, <1>9 DEF o, r, w

\* What was decided stays decided when votes come in and time goes on.
LEMMA LaterDecision ==
    ASSUME MultisigAssumption, WeightsInv, NEW p \in Row, NEW q \in Row, Decided(p),
           q.expires = p.expires, q.status = p.status, \A x \in Votes : p.votes[x] <= q.votes[x],
           total(q.votes) <= config.total_weight, is_expired(p) => q.votes = p.votes,
           config' = config, now \in Nat, now' \in Nat, now' >= now
    PROVE  Decided(q)'
<1>1. PICK t, w, o, r : t = config.threshold /\ w = config.total_weight /\ o = Opinions(p) /\ r = Opinions(q)'
  OBVIOUS
<1>2. /\ o \in Nat /\ r \in Nat /\ r <= o /\ total(q.votes) - q.votes["abstain"] <= r
      /\ is_expired(p) => is_expired(q)' /\ r = o
  BY <1>1, FewerOpinions
<1>3. (is_passed(p) <=> Passes(t, w, o, p.votes)) /\ (is_rejected(p) <=> Rejects(t, w, o, p.votes))
  BY <1>1, Rules
<1>4. (is_passed(q)' <=> Passes(t, w, r, q.votes)) /\ (is_rejected(q)' <=> Rejects(t, w, r, q.votes))
  BY <1>1 DEF is_passed, is_rejected, Passes, Rejects, votes_needed, total
<1>5. p.votes \in [Votes -> Nat] /\ q.votes \in [Votes -> Nat] /\ w \in Nat /\ validate(t, w) /\ total(q.votes) <= w
  BY <1>1 DEF Row, WeightsInv
<1>6. (Passes(t, w, o, p.votes) => Passes(t, w, r, q.votes)) /\ (Rejects(t, w, o, p.votes) => Rejects(t, w, r, q.votes))
  BY <1>2, <1>5, DecisionsStay
<1>7. Rejects(t, w, r, q.votes) => ~Passes(t, w, r, q.votes)
  BY <1>2, <1>5, DecisionsExclude
<1>8. CASE p.status \in {"Passed", "Executed"}
  BY <1>3, <1>4, <1>6, <1>8 DEF Decided
<1>9. CASE p.status = "Rejected"
  <2>1. ~is_passed(p) /\ (is_expired(p) \/ is_rejected(p))
    BY <1>9 DEF Decided
  <2>2. CASE is_rejected(p)
    BY <1>3, <1>4, <1>6, <1>7, <1>9, <2>2 DEF Decided
  <2>3. CASE is_expired(p)
    <3>1. is_expired(q)' /\ ~is_passed(q)'
      BY <1>2, <1>3, <1>4, <2>1, <2>3
    <3>2. QED
      BY <1>9, <3>1 DEF Decided
  <2>4. QED
    BY <2>1, <2>2, <2>3
<1>10. QED
  BY <1>8, <1>9 DEF Decided

LEMMA DecisionStep ==
    ASSUME MultisigAssumption, WeightsInv, RowInv, BallotInv, DecisionInv, BallotInv', [Next]_vars
    PROVE  DecisionInv'
<1>0. UNCHANGED <<weights, config>> /\ now \in Nat
  BY Steps DEF RowInv
<1>1. CASE Rests
  <2> SUFFICES ASSUME NEW id \in DOMAIN proposals PROVE Decided(proposals[id])'
    BY <1>1 DEF DecisionInv, Rests
  <2>1. PICK p \in Row : p = proposals[id]
    BY RowFields
  <2>2. Decided(p) /\ total(p.votes) <= config.total_weight /\ \A x \in Votes : p.votes[x] \in Nat
    BY <2>1 DEF DecisionInv, BallotInv, Row
  <2>3. \A x \in Votes : p.votes[x] <= p.votes[x]
    BY <2>2
  <2>4. Decided(p)'
    BY <1>0, <1>1, <2>2, <2>3, LaterDecision DEF Rests
  <2>5. QED
    BY <1>1, <2>1, <2>4 DEF Rests, Decided, is_passed, is_rejected, is_expired, Opinions
<1>2. ASSUME NEW u \in Voters, NEW latest \in Latests, execute_propose(u, latest) PROVE DecisionInv'
  <2>1. PICK p \in Row :
          /\ proposals' = Append(proposals, update_status(p)) /\ sent' = Append(sent, 0)
          /\ now' = now /\ p.status = "Open"
    BY <1>2, NewRow
  <2>2. PICK n : n = Len(proposals) + 1
    OBVIOUS
  <2>3. PICK q \in Row : q = update_status(p)
    BY UpdatedRow
  <2>4. /\ DOMAIN proposals' = DOMAIN proposals \union {n} /\ proposals'[n] = q
        /\ \A i \in DOMAIN proposals : proposals'[i] = proposals[i]
    BY <2>1, <2>2, <2>3, AppendedRow
  <2>5. Decided(q)
    BY <2>1, <2>3, UpdatedDecision DEF Decided
  <2>6. ASSUME NEW i \in DOMAIN proposals' PROVE Decided(proposals[i])'
    <3>1. PICK r \in Row : r = proposals'[i] /\ Decided(r)
      BY <2>4, <2>5, RowFields DEF DecisionInv
    <3>2. Decided(r)'
      BY <1>0, <2>1, <3>1, DecisionUnmoved
    <3>3. QED
      BY <3>1, <3>2 DEF Decided, is_passed, is_rejected, is_expired, Opinions
  <2>7. QED
    BY <2>6 DEF DecisionInv
<1>3. ASSUME NEW u \in Voters, NEW id \in DOMAIN proposals, NEW vote \in Votes, execute_vote(u, id, vote)
      PROVE  DecisionInv'
  <2>1. /\ u \in DOMAIN weights /\ ~is_expired(proposals[id]) /\ UNCHANGED <<sent, now>>
        /\ proposals' = [proposals EXCEPT ![id] = update_status(Voted(proposals[id], u, vote))]
    BY <1>3 DEF execute_vote, VoteAllowed
  <2>2. PICK p \in Row : p = proposals[id] /\ Decided(p)
    BY RowFields DEF DecisionInv
  <2>3. PICK v \in Row : /\ v = Voted(p, u, vote) /\ v.status = p.status /\ v.expires = p.expires
                         /\ v.votes = [p.votes EXCEPT ![vote] = @ + weights[u]]
    BY <2>1, VotedRow
  <2>4. PICK q \in Row : q = update_status(v) /\ q.votes = v.votes
    BY UpdatedRow
  <2>5. /\ DOMAIN proposals' = DOMAIN proposals /\ proposals'[id] = q
        /\ \A i \in DOMAIN proposals : i # id => proposals'[i] = proposals[i]
    BY <2>1, <2>2, <2>3, <2>4, ReplacedRow
  <2>6. total(v.votes) <= config.total_weight
    <3>1. total(proposals'[id].votes) <= config'.total_weight
      BY <2>5 DEF BallotInv, total
    <3>2. QED
      BY <1>0, <2>4, <2>5, <3>1
  <2>7. \A x \in Votes : p.votes[x] <= v.votes[x]
    <3>1. weights[u] \in Nat /\ p.votes \in [Votes -> Nat]
      BY <2>1 DEF WeightsInv, Row
    <3>2. QED
      BY <2>3, <3>1
  <2>8. Decided(v)'
    <3>1. (is_expired(p) => v.votes = p.votes) /\ config' = config /\ now' \in Nat /\ now' >= now
      BY <1>0, <2>1, <2>2
    <3>2. QED
      BY <1>0, <2>2, <2>3, <2>6, <2>7, <3>1, LaterDecision
  <2>9. Decided(q)
    <3>1. Decided(v)
      BY <1>0, <2>1, <2>8, DecisionUnmoved
    <3>2. QED
      BY <2>4, <3>1, UpdatedDecision
  <2>10. ASSUME NEW i \in DOMAIN proposals' PROVE Decided(proposals[i])'
    <3>1. PICK r \in Row : r = proposals'[i] /\ Decided(r)
      BY <2>5, <2>9, RowFields DEF DecisionInv
    <3>2. Decided(r)'
      BY <1>0, <2>1, <3>1, DecisionUnmoved
    <3>3. QED
      BY <3>1, <3>2 DEF Decided, is_passed, is_rejected, is_expired, Opinions
  <2>11. QED
    BY <2>10 DEF DecisionInv
<1>4. ASSUME NEW id \in DOMAIN proposals, NEW s \in {"Executed", "Rejected"}, Settles(id, s) PROVE DecisionInv'
  <2>1. PICK q \in Row :
          /\ proposals' = [proposals EXCEPT ![id] = q] /\ q.status = s
          /\ q.votes = proposals[id].votes /\ q.expires = proposals[id].expires
    <3>1. s \in Status /\ proposals' = [proposals EXCEPT ![id].status = s]
      BY <1>4 DEF Settles, Status
    <3>2. QED
      BY <3>1, SettledRow
  <2>2. /\ DOMAIN proposals' = DOMAIN proposals /\ proposals'[id] = q
        /\ \A i \in DOMAIN proposals : i # id => proposals'[i] = proposals[i]
    BY <1>4, <2>1, ReplacedRow DEF Settles
  <2>3. PICK p \in Row : p = proposals[id] /\ Decided(p)
    BY RowFields DEF DecisionInv
  <2>4. (is_passed(q) <=> is_passed(p)) /\ (is_rejected(q) <=> is_rejected(p)) /\ (is_expired(q) <=> is_expired(p))
    BY <2>1, <2>3, SameDecision
  <2>5. Decided(q)
    <3>1. CASE s = "Executed"
      <4>1. current_status(p) = "Passed"
        BY <1>4, <2>3, <3>1 DEF Settles
      <4>2. is_passed(p)
        BY <2>3, <4>1 DEF current_status, Decided
      <4>3. QED
        BY <2>1, <2>4, <3>1, <4>2 DEF Decided
    <3>2. CASE s = "Rejected"
      BY <1>4, <2>1, <2>3, <2>4, <3>2 DEF Settles, Decided
    <3>3. QED
      BY <3>1, <3>2
  <2>6. ASSUME NEW i \in DOMAIN proposals' PROVE Decided(proposals[i])'
    <3>1. PICK r \in Row : r = proposals'[i] /\ Decided(r)
      BY <2>2, <2>5, RowFields DEF DecisionInv
    <3>2. Decided(r)'
      BY <1>0, <1>4, <3>1, DecisionUnmoved DEF Settles
    <3>3. QED
      BY <3>1, <3>2 DEF Decided, is_passed, is_rejected, is_expired, Opinions
  <2>7. QED
    BY <2>6 DEF DecisionInv
<1>5. QED
  BY <1>1, <1>2, <1>3, <1>4, Steps

LEMMA ExecutedStep ==
    ASSUME MultisigAssumption, WeightsInv, RowInv, ExecutedOnce, DecisionInv, [Next]_vars
    PROVE  ExecutedOnce'
<1>1. CASE Rests
  BY <1>1 DEF Rests, ExecutedOnce
<1>2. ASSUME NEW u \in Voters, NEW latest \in Latests, execute_propose(u, latest) PROVE ExecutedOnce'
  <2>1. PICK p \in Row :
          /\ proposals' = Append(proposals, update_status(p)) /\ sent' = Append(sent, 0)
          /\ now' = now /\ p.status = "Open"
    BY <1>2, NewRow
  <2>2. PICK n : n = Len(proposals) + 1
    OBVIOUS
  <2>3. PICK q \in Row : q = update_status(p) /\ q.status # "Executed"
    BY <2>1, UpdatedRow DEF current_status
  <2>4. /\ DOMAIN proposals' = DOMAIN proposals \union {n} /\ proposals'[n] = q /\ sent'[n] = 0
        /\ \A i \in DOMAIN proposals : proposals'[i] = proposals[i] /\ sent'[i] = sent[i]
    BY <2>1, <2>2, <2>3, AppendedRow
  <2>5. QED
    BY <2>3, <2>4 DEF ExecutedOnce
<1>3. ASSUME NEW u \in Voters, NEW id \in DOMAIN proposals, NEW vote \in Votes, execute_vote(u, id, vote)
      PROVE  ExecutedOnce'
  <2>1. /\ u \in DOMAIN weights /\ proposals[id].status # "Executed" /\ UNCHANGED <<sent, now>>
        /\ proposals' = [proposals EXCEPT ![id] = update_status(Voted(proposals[id], u, vote))]
    BY <1>3 DEF execute_vote, VoteAllowed
  <2>v. PICK v : v = Voted(proposals[id], u, vote)
    OBVIOUS
  <2>2. v \in Row /\ v = Voted(proposals[id], u, vote) /\ v.status = proposals[id].status
    <3>1. proposals[id] \in Row /\ u \in DOMAIN weights
      BY <2>1, RowFields
    <3>2. PICK p : p = proposals[id]
      OBVIOUS
    <3>3. p \in Row
      BY <3>1, <3>2
    <3>4. Voted(p, u, vote) \in Row /\ Voted(p, u, vote).status = p.status
      BY <3>1, <3>3, VotedRow
    <3>5. QED
      BY <2>v, <3>2, <3>4
  <2>3. PICK q \in Row : q = update_status(v) /\ q.status # "Executed"
    BY <2>1, <2>2, UpdatedRow DEF current_status
  <2>4. /\ DOMAIN proposals' = DOMAIN proposals /\ proposals'[id] = q
        /\ \A i \in DOMAIN proposals : i # id => proposals'[i] = proposals[i]
    BY <2>1, <2>2, <2>3, ReplacedRow
  <2>5. QED
    BY <2>1, <2>3, <2>4 DEF ExecutedOnce
<1>4. ASSUME NEW id \in DOMAIN proposals, NEW s \in {"Executed", "Rejected"}, Settles(id, s) PROVE ExecutedOnce'
  <2>1. PICK q \in Row :
          /\ proposals' = [proposals EXCEPT ![id] = q] /\ q.status = s
          /\ q.votes = proposals[id].votes /\ q.expires = proposals[id].expires
    <3>1. s \in Status /\ proposals' = [proposals EXCEPT ![id].status = s]
      BY <1>4 DEF Settles, Status
    <3>2. QED
      BY <3>1, SettledRow
  <2>2. /\ DOMAIN proposals' = DOMAIN proposals /\ proposals'[id] = q
        /\ \A i \in DOMAIN proposals : i # id => proposals'[i] = proposals[i]
    BY <1>4, <2>1, ReplacedRow DEF Settles
  <2>3. proposals[id].status # "Executed" /\ sent[id] = 0 /\ id \in DOMAIN sent
    BY <1>4, RowFields DEF Settles, ExecutedOnce, current_status
  <2>4. sent' = IF s = "Executed" THEN [sent EXCEPT ![id] = 1] ELSE sent
    BY <1>4, <2>3 DEF Settles
  <2>5. QED
    BY <2>1, <2>2, <2>3, <2>4 DEF ExecutedOnce
<1>5. QED
  BY <1>1, <1>2, <1>3, <1>4, Steps

-----------------------------------------------------------------------------

MultisigInv == WeightsInv /\ RowInv /\ BallotInv /\ DecisionInv /\ ExecutedOnce

LEMMA MultisigCounts == MultisigInv => MultisigSound
<1> SUFFICES ASSUME MultisigInv PROVE MultisigSound
  OBVIOUS
<1>1. TallyMatchesBallots
  BY DEF MultisigInv, WeightsInv, BallotInv, TallyMatchesBallots
<1>2. ASSUME NEW id \in DOMAIN proposals, NEW s \in {"Passed", "Rejected"}, is_expired(proposals[id]),
             proposals[id].status = s \/ (proposals[id].status = "Executed" /\ s = "Passed")
      PROVE  current_status([proposals[id] EXCEPT !.status = "Open"]) = s
  <2> DEFINE p == proposals[id]
             q == [p EXCEPT !.status = "Open"]
  <2>1. p \in Row /\ Decided(p)
    BY RowFields DEF MultisigInv, DecisionInv
  <2>2. q \in Row /\ q.status = "Open" /\ q.votes = p.votes /\ q.expires = p.expires
    BY <2>1 DEF Row, Status
  <2> HIDE DEF q, p
  <2>3. (is_passed(q) <=> is_passed(p)) /\ (is_expired(q) <=> is_expired(p))
    BY <2>1, <2>2, SameDecision
  <2>4. current_status(q) = IF is_passed(q) THEN "Passed" ELSE IF is_rejected(q) \/ is_expired(q) THEN "Rejected" ELSE "Open"
    BY <2>2 DEF current_status
  <2>5. is_expired(p) /\ (p.status = s \/ (p.status = "Executed" /\ s = "Passed"))
    BY <1>2 DEF p
  <2>6. is_passed(p) <=> s = "Passed"
    BY <2>1, <2>5 DEF Decided
  <2>7. current_status(q) = s
    BY <2>3, <2>4, <2>5, <2>6
  <2>8. QED
    BY <2>7 DEF p, q
<1>3. EarlyDecisionHolds
  BY <1>2 DEF EarlyDecisionHolds
<1>4. QED
  BY <1>1, <1>3 DEF MultisigInv, MultisigSound

\* The fixed multisig counts every ballot once and with the weight its voter has, dispatches
\* the messages of a proposal at most once, and a status that was stored before the
\* expiration is the one that all the votes give at the expiration: for every list of voters
\* (with duplicates too), every valid threshold, however proposals, votes, executions and
\* closings are ordered.
THEOREM MultisigAlwaysSound ==
    ASSUME MultisigAssumption
    PROVE  Spec => []MultisigSound
<1>1. Init => MultisigInv
  BY MultisigInit DEF MultisigInv, ExecutedOnce, Init
<1>2. MultisigInv /\ [Next]_vars => MultisigInv'
  <2> SUFFICES ASSUME MultisigInv, [Next]_vars PROVE MultisigInv'
    OBVIOUS
  <2>1. WeightsInv' /\ RowInv' /\ BallotInv'
    BY TallyStep DEF MultisigInv
  <2>2. DecisionInv'
    BY <2>1, DecisionStep DEF MultisigInv
  <2>3. ExecutedOnce'
    BY ExecutedStep DEF MultisigInv
  <2>4. QED
    BY <2>1, <2>2, <2>3 DEF MultisigInv
<1>3. QED
  BY <1>1, <1>2, MultisigCounts, PTL DEF Spec

=============================================================================
