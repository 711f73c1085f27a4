------------------------- MODULE SingleChoiceProofs -------------------------
(***************************************************************************)
(* Theorems about SingleChoice, for every set of members and staking       *)
(* contracts, every config and every course of the voting powers.          *)
(***************************************************************************)
EXTENDS SingleChoice, SumTheorems, SequenceTheorems

Row ==
    [proposer : Users, expiration : Nat, threshold : Thresholds, total_power : Nat, status : Status,
     votes : [Vote -> Int], voting_start_time : Nat]

ConfigInv ==
    /\ DOMAIN config = ConfigFields
    /\ config["dao"] \in Daos /\ config["proposal_creation_token_limit"] \in Nat
    /\ config["threshold"] \in Thresholds /\ validate(config["threshold"])

PowerInv == power \in [Daos \X Users -> Nat] /\ total \in [Daos -> Nat]

\* Every proposal has a valid threshold and is in the bounds of Ids.
RowInv ==
    /\ now \in Nat
    /\ proposals \in Seq(Row) /\ Len(proposals) <= MaxProposals
    /\ \A id \in DOMAIN proposals : validate(proposals[id].threshold) /\ proposals[id].voting_start_time <= now

\* The tally, and no ballot before the proposal.
BallotInv ==
    /\ ballots \in [Ids \X Users -> [power : Nat, vote : Vote] \union {NoBallot}]
    /\ \A id \in Ids \ DOMAIN proposals, u \in Users : ballots[<<id, u>>] = NoBallot
    /\ TallyMatchesBallots

LockInv == proposers \in [Users -> Nat]

\* The stored status is that of the last vote as long as voting goes on.
OpenInv ==
    \A id \in DOMAIN proposals :
        proposals[id].status = "Open" /\ ~is_expired(proposals[id]) => ~is_passed(proposals[id])

-----------------------------------------------------------------------------
(* Rows *)

LEMMA RowFields ==
    ASSUME RowInv, NEW id \in DOMAIN proposals
    PROVE  /\ proposals[id] \in Row /\ id \in 1 .. Len(proposals) /\ id \in Ids
           /\ Len(proposals) \in Nat /\ DOMAIN proposals = 1 .. Len(proposals)
<1>1. Len(proposals) \in Nat /\ DOMAIN proposals = 1 .. Len(proposals)
  BY LenProperties DEF RowInv
<1>2. proposals[id] \in Row
  BY <1>1, ElementOfSeq DEF RowInv
<1>3. id \in Ids
  BY <1>1, ScaleAssumption DEF RowInv, Ids
<1>4. QED
  BY <1>1, <1>2, <1>3

LEMMA UpdatedRow ==
    ASSUME NEW p \in Row
    PROVE  /\ update_status(p) \in Row /\ update_status(p).status = current_status(p)
           /\ update_status(p).threshold = p.threshold /\ update_status(p).votes = p.votes
           /\ update_status(p).total_power = p.total_power /\ update_status(p).expiration = p.expiration
           /\ update_status(p).proposer = p.proposer
           /\ update_status(p).voting_start_time = p.voting_start_time
<1>1. current_status(p) \in Status
  BY DEF current_status, Status, Row
<1>2. update_status(p) = [p EXCEPT !.status = current_status(p)]
  BY DEF update_status
<1>3. QED
  BY <1>1, <1>2 DEF Row

\* The vote of u moves its answer by the power of u and takes out what u gave before.
LEMMA VotedRow ==
    ASSUME ConfigInv, PowerInv, RowInv, BallotInv, NEW u \in Users, NEW id \in DOMAIN proposals, NEW v \in Vote
    PROVE  LET q == WithVote(u, id, v)
               p == proposals[id]
           IN  /\ q \in Row /\ q.status = p.status /\ q.threshold = p.threshold /\ q.expiration = p.expiration
               /\ q.proposer = p.proposer /\ q.voting_start_time = p.voting_start_time
               /\ \A w \in Vote : q.votes[w] = p.votes[w] - Given(id, w)[u]
                                               + (IF w = v THEN power[<<config["dao"], u>>] ELSE 0)
<1> DEFINE q == WithVote(u, id, v)
           p == proposals[id]
           old == ballots[<<id, u>>]
           given == power[<<config["dao"], u>>]
           t == total[config["dao"]]
           removed == [w \in Vote |-> p.votes[w] - IF w = old.vote THEN old.power ELSE 0]
           votes == [removed EXCEPT ![v] = @ + given]
<1>1. p \in Row /\ id \in Ids
  BY RowFields
<1>2. given \in Nat /\ t \in Nat
  BY DEF ConfigInv, PowerInv
<1>3. old.power \in Nat
  BY <1>1 DEF BallotInv, NoBallot
<1>4. \A w \in Vote : p.votes[w] \in Int
  BY <1>1 DEF Row
<1>5. removed \in [Vote -> Int]
  BY <1>3, <1>4
<1>6. votes \in [Vote -> Int] /\ \A w \in Vote : votes[w] = removed[w] + (IF w = v THEN given ELSE 0)
  BY <1>2, <1>5
<1>7. q = [p EXCEPT !.votes = votes, !.total_power = t]
  BY DEF WithVote
<1>8. \A w \in Vote : Given(id, w)[u] = IF w = old.vote THEN old.power ELSE 0
  BY DEF Given
<1> HIDE DEF p, votes, t
<1>9. /\ q \in Row /\ q.status = p.status /\ q.threshold = p.threshold /\ q.expiration = p.expiration
      /\ q.proposer = p.proposer /\ q.voting_start_time = p.voting_start_time /\ q.votes = votes
  BY <1>1, <1>2, <1>6, <1>7 DEF Row
<1>10. \A w \in Vote : votes[w] = p.votes[w] - Given(id, w)[u] + (IF w = v THEN given ELSE 0)
  BY <1>6, <1>8
<1> HIDE DEF q
<1>11. QED
  BY <1>9, <1>10 DEF p, q

-----------------------------------------------------------------------------
(* Steps *)

\* Stakes, time and the config change no proposal.
Rests == UNCHANGED <<proposals, ballots, proposers>> /\ now' \in Nat /\ now' >= now

\* A proposal is executed or closed.
Settles(id, s) ==
    /\ UNCHANGED <<ballots, now>> /\ proposals' = [proposals EXCEPT ![id].status = s]
    /\ <<current_status(proposals[id]), s>> \in {<<"Passed", "Executed">>, <<"Rejected", "Closed">>}

LEMMA Steps ==
    ASSUME RowInv, [Next]_vars
    PROVE  \/ Rests
           \/ \E u \in Users, period \in Periods : execute_propose(u, period)
           \/ \E u \in Users, id \in DOMAIN proposals, v \in Vote : execute_vote(u, id, v)
           \/ \E id \in DOMAIN proposals, s \in {"Executed", "Closed"} : Settles(id, s)
<1>0. now \in Nat
  BY DEF RowInv
<1>1. ASSUME Tick \/ UNCHANGED vars \/ (\E u \in Users, update \in Updates : execute_update_config(u, update))
             \/ (\E d \in Daos, u \in Users, p \in Powers : Restake(d, u, p))
      PROVE  Rests
  <2>1. UNCHANGED <<proposals, ballots, proposers>>
    BY <1>1 DEF Tick, vars, execute_update_config, Restake
  <2>2. now' = now + 1 \/ now' = now
    BY <1>1 DEF Tick, vars, execute_update_config, Restake
  <2>3. QED
    BY <1>0, <2>1, <2>2 DEF Rests
<1>2. ASSUME NEW u \in Users, NEW id \in DOMAIN proposals, execute_execute(u, id) PROVE Settles(id, "Executed")
  BY <1>2 DEF execute_execute, ExecuteAllowed, Settles
<1>3. ASSUME NEW id \in DOMAIN proposals, execute_close(id) PROVE Settles(id, "Closed")
  BY <1>3 DEF execute_close, CloseAllowed, Settles
<1>4. QED
  BY <1>1, <1>2, <1>3 DEF Next

LEMMA NewRow ==
    ASSUME ConfigInv, RowInv, NEW u \in Users, NEW period \in Periods, execute_propose(u, period)
    PROVE  \E p \in Row :
             /\ proposals' = Append(proposals, update_status(p)) /\ UNCHANGED <<ballots, now>>
             /\ Len(proposals) < MaxProposals
             /\ p.threshold = config["threshold"] /\ p.voting_start_time = now
             /\ p.votes = [v \in Vote |-> 0] /\ p.status = "Open" /\ p.proposer = u
<1> DEFINE p == [proposer |-> u, expiration |-> now + period.n, threshold |-> config.threshold, total_power |-> 0,
                 status |-> "Open", votes |-> [v \in Vote |-> 0], voting_start_time |-> now]
<1>1. now + period.n \in Nat
  BY MessagesAssumption DEF RowInv
<1>2. p \in Row
  BY <1>1 DEF Row, ConfigInv, RowInv, Status
<1>3. /\ proposals' = Append(proposals, update_status(p)) /\ UNCHANGED <<ballots, now>>
      /\ Len(proposals) < MaxProposals
  BY DEF execute_propose
<1>4. QED
  BY <1>2, <1>3

-----------------------------------------------------------------------------
(* Types *)

LEMMA ConfigInit == Init => ConfigInv
BY MessagesAssumption DEF Init, ConfigInv, Thresholds, ConfigFields

LEMMA ConfigStep == ConfigInv /\ [Next]_vars => ConfigInv'
<1> SUFFICES ASSUME ConfigInv, [Next]_vars PROVE ConfigInv'
  OBVIOUS
<1>1. CASE config' = config
  BY <1>1 DEF ConfigInv, validate, validate_percentage, validate_quorum
<1>2. ASSUME NEW u \in Users, NEW update \in Updates, execute_update_config(u, update) PROVE ConfigInv'
  <2> DEFINE new == [f \in DOMAIN config |-> IF f \in DOMAIN update THEN update[f] ELSE config[f]]
  <2>1. config' = new /\ ("threshold" \in DOMAIN update => validate(new["threshold"]))
    BY <1>2 DEF execute_update_config
  <2>2. {"dao", "proposal_creation_token_limit", "threshold"} \subseteq DOMAIN config
    BY DEF ConfigInv, ConfigFields
  <2>3. /\ DOMAIN new = ConfigFields
        /\ \A f \in {"dao", "proposal_creation_token_limit", "threshold"} :
             new[f] = IF f \in DOMAIN update THEN update[f] ELSE config[f]
    BY <2>2 DEF ConfigInv
  <2> HIDE DEF new
  <2>4. new["dao"] \in Daos /\ new["proposal_creation_token_limit"] \in Nat
    BY <2>3, MessagesAssumption DEF ConfigInv
  <2>5. new["threshold"] \in Thresholds /\ validate(new["threshold"])
    BY <2>1, <2>3 DEF ConfigInv, Thresholds
  <2>6. QED
    BY <2>1, <2>3, <2>4, <2>5 DEF ConfigInv, validate, validate_percentage, validate_quorum
<1>3. config' = config \/ \E u \in Users, update \in Updates : execute_update_config(u, update)
  BY DEF Next, vars, Tick, execute_propose, execute_vote, execute_execute, execute_close, Restake
<1>4. QED
  BY <1>1, <1>2, <1>3

LEMMA PowerInit == Init => PowerInv
BY DEF Init, PowerInv

LEMMA PowerStep == PowerInv /\ [Next]_vars => PowerInv'
<1> SUFFICES ASSUME PowerInv, [Next]_vars PROVE PowerInv'
  OBVIOUS
<1>1. CASE UNCHANGED <<power, total>>
  BY <1>1 DEF PowerInv
<1>2. ASSUME NEW d \in Daos, NEW u \in Users, NEW p \in Powers, Restake(d, u, p) PROVE PowerInv'
  <2> DEFINE shares == [w \in Users |-> power'[<<d, w>>]]
  <2>1. PICK t \in Totals \union {SumOver(shares, Users)} :
           power' = [power EXCEPT ![<<d, u>>] = p] /\ total' = [total EXCEPT ![d] = t]
    BY <1>2 DEF Restake
  <2>2. p \in Nat
    BY MembersAssumption
  <2>3. power' \in [Daos \X Users -> Nat]
    BY <2>1, <2>2 DEF PowerInv
  <2>4. \A w \in Users : shares[w] \in Nat
    BY <2>3
  <2> HIDE DEF shares
  <2>5. SumOver(shares, Users) \in Nat
    BY <2>4, MembersAssumption, SumNat
  <2>6. t \in Nat
    BY <2>1, <2>5, MembersAssumption
  <2>7. QED
    BY <2>1, <2>3, <2>6 DEF PowerInv
<1>3. UNCHANGED <<power, total>> \/ \E d \in Daos, u \in Users, p \in Powers : Restake(d, u, p)
  BY DEF Next, vars, Tick, execute_propose, execute_vote, execute_execute, execute_close, execute_update_config
<1>4. QED
  BY <1>1, <1>2, <1>3

\* A row is replaced by one of the same threshold and start.
LEMMA ReplacedRow ==
    ASSUME RowInv, NEW id \in DOMAIN proposals, NEW q \in Row, proposals' = [proposals EXCEPT ![id] = q],
           q.threshold = proposals[id].threshold, q.voting_start_time = proposals[id].voting_start_time,
           now' = now
    PROVE  /\ RowInv' /\ DOMAIN proposals' = DOMAIN proposals
           /\ proposals'[id] = q /\ \A i \in DOMAIN proposals : i # id => proposals'[i] = proposals[i]
<1>1. id \in 1 .. Len(proposals) /\ DOMAIN proposals = 1 .. Len(proposals)
  BY RowFields
<1>2. proposals' \in Seq(Row) /\ Len(proposals') = Len(proposals)
  BY <1>1, ExceptSeq DEF RowInv
<1>3. \A i \in DOMAIN proposals : proposals'[i] = IF i = id THEN q ELSE proposals[i]
  BY <1>1
<1>4. DOMAIN proposals' = DOMAIN proposals
  OBVIOUS
<1>5. QED
  BY <1>2, <1>3, <1>4 DEF RowInv, validate, validate_percentage, validate_quorum

LEMMA AppendedRow ==
    ASSUME RowInv, NEW q \in Row, proposals' = Append(proposals, q), Len(proposals) < MaxProposals,
           validate(q.threshold), q.voting_start_time = now, now' = now
    PROVE  /\ RowInv' /\ Len(proposals) + 1 \in Ids
           /\ DOMAIN proposals' = DOMAIN proposals \union {Len(proposals) + 1}
           /\ Len(proposals) + 1 \notin DOMAIN proposals
           /\ proposals'[Len(proposals) + 1] = q /\ \A i \in DOMAIN proposals : proposals'[i] = proposals[i]
<1> DEFINE n == Len(proposals)
<1>1. n \in Nat /\ DOMAIN proposals = 1 .. n
  BY LenProperties DEF RowInv
<1>2. /\ proposals' \in Seq(Row) /\ Len(proposals') = n + 1
      /\ \A i \in 1 .. n : proposals'[i] = proposals[i]
      /\ proposals'[n + 1] = q
  BY AppendProperties DEF RowInv
<1>3. DOMAIN proposals' = 1 .. n + 1
  BY <1>2, LenProperties
<1>4. n + 1 \in Ids /\ n + 1 <= MaxProposals
  BY <1>1, ScaleAssumption DEF Ids
<1> HIDE DEF n
<1>5. DOMAIN proposals' = DOMAIN proposals \union {n + 1} /\ n + 1 \notin DOMAIN proposals
  BY <1>1, <1>3
<1>6. RowInv'
  BY <1>1, <1>2, <1>3, <1>4, <1>5 DEF RowInv, validate, validate_percentage, validate_quorum
<1>7. QED
  BY <1>1, <1>2, <1>4, <1>5, <1>6 DEF n

-----------------------------------------------------------------------------
(* The tally *)

LEMMA BallotInit == Init => RowInv /\ BallotInv /\ LockInv
<1> SUFFICES ASSUME Init PROVE RowInv /\ BallotInv /\ LockInv
  OBVIOUS
<1>1. proposals = <<>> /\ Len(<<>>) = 0 /\ <<>> \in Seq(Row) /\ DOMAIN proposals = {}
  BY DEF Init
<1>2. RowInv
  BY <1>1, ScaleAssumption DEF Init, RowInv
<1>3. ballots = [x \in Ids \X Users |-> NoBallot]
  BY DEF Init
<1>4. BallotInv
  BY <1>1, <1>3 DEF BallotInv, TallyMatchesBallots
<1>5. QED
  BY <1>2, <1>4 DEF Init, LockInv

LEMMA GivenType ==
    ASSUME BallotInv, NEW id \in Ids, NEW v \in Vote
    PROVE  \A u \in Users : Given(id, v)[u] \in Nat
BY DEF BallotInv, NoBallot, Given

LEMMA TallyType ==
    ASSUME RowInv, BallotInv, NEW id \in DOMAIN proposals
    PROVE  proposals[id].votes \in [Vote -> Nat]
<1>1. proposals[id] \in Row /\ id \in Ids
  BY RowFields
<1>2. ASSUME NEW v \in Vote PROVE proposals[id].votes[v] \in Nat
  <2>1. SumOver(Given(id, v), Users) \in Nat
    BY <1>1, GivenType, SumNat, MembersAssumption
  <2>2. QED
    BY <2>1 DEF BallotInv, TallyMatchesBallots
<1>3. proposals[id].votes \in [Vote -> Int]
  BY <1>1 DEF Row
<1>4. QED
  BY <1>2, <1>3

\* A vote that replaces another one changes the sum of the ballots by the difference.
LEMMA VoteCounted ==
    ASSUME ConfigInv, PowerInv, RowInv, BallotInv, NEW u \in Users, NEW id \in DOMAIN proposals, NEW v \in Vote,
           execute_vote(u, id, v)
    PROVE  RowInv' /\ BallotInv'
<1> DEFINE q == WithVote(u, id, v)
           given == power[<<config["dao"], u>>]
           B == [power |-> given, vote |-> v]
<1>1. /\ ballots' = [ballots EXCEPT ![<<id, u>>] = B]
      /\ proposals' = [proposals EXCEPT ![id] = update_status(q)] /\ now' = now
  BY DEF execute_vote
<1>2. given \in Nat
  BY DEF ConfigInv, PowerInv
<1>3. /\ q \in Row /\ q.threshold = proposals[id].threshold
      /\ q.voting_start_time = proposals[id].voting_start_time
      /\ \A w \in Vote : q.votes[w] = proposals[id].votes[w] - Given(id, w)[u] + (IF w = v THEN given ELSE 0)
  BY VotedRow
<1>4. id \in Ids /\ proposals[id] \in Row
  BY RowFields
<1> HIDE DEF q
<1>5. /\ update_status(q) \in Row /\ update_status(q).threshold = q.threshold
      /\ update_status(q).voting_start_time = q.voting_start_time /\ update_status(q).votes = q.votes
  BY <1>3, UpdatedRow
<1>6. /\ RowInv' /\ DOMAIN proposals' = DOMAIN proposals /\ proposals'[id] = update_status(q)
      /\ \A i \in DOMAIN proposals : i # id => proposals'[i] = proposals[i]
  BY <1>1, <1>3, <1>5, ReplacedRow
<1>7. /\ ballots' \in [Ids \X Users -> [power : Nat, vote : Vote] \union {NoBallot}]
      /\ \A i \in Ids, w \in Users : <<i, w>> # <<id, u>> => ballots'[<<i, w>>] = ballots[<<i, w>>]
      /\ ballots'[<<id, u>>] = B
  BY <1>1, <1>2, <1>4 DEF BallotInv
<1>8. \A i \in Ids \ DOMAIN proposals', w \in Users : ballots'[<<i, w>>] = NoBallot
  BY <1>6, <1>7 DEF BallotInv
<1>9. ASSUME NEW i \in DOMAIN proposals, NEW w \in Vote
      PROVE  proposals'[i].votes[w] = SumOver(Given(i, w)', Users)
  <2>1. proposals[i].votes[w] = SumOver(Given(i, w), Users) /\ i \in Ids
    BY RowFields DEF BallotInv, TallyMatchesBallots
  <2>2. CASE i # id
    <3>1. Given(i, w)' = Given(i, w)
      BY <1>7, <2>1, <2>2 DEF Given
    <3>2. QED
      BY <1>6, <2>1, <2>2, <3>1
  <2>3. CASE i = id
    <3> DEFINE f == Given(id, w)
               g == Given(id, w)'
    <3>1. \A x \in Users : f[x] \in Nat
      BY <1>4, GivenType
    <3>2. g[u] = IF w = v THEN given ELSE 0
      BY <1>7 DEF Given
    <3>3. \A x \in Users \ {u} : g[x] = f[x]
      BY <1>4, <1>7 DEF Given
    <3>4. f[u] \in Int /\ g[u] \in Int
      BY <1>2, <3>1, <3>2
    <3> HIDE DEF f, g
    <3>5. (\A x \in Users : f[x] \in Int) /\ (\A x \in Users : g[x] \in Int) /\ (\A x \in Users \ {u} : g[x] = f[x])
      BY <3>1, <3>3, <3>4
    <3>6. SumOver(g, Users) = SumOver(f, Users) + g[u] - f[u]
      BY <3>5, MembersAssumption, SumChange
    <3>7. SumOver(f, Users) = proposals[id].votes[w]
      BY <2>1, <2>3 DEF f
    <3>8. proposals'[id].votes[w] = proposals[id].votes[w] - f[u] + g[u]
      BY <1>3, <1>5, <1>6, <3>2 DEF f
    <3>9. proposals[id].votes[w] \in Int
      BY <1>4 DEF Row
    <3>10. proposals'[id].votes[w] = SumOver(g, Users)
      BY <3>4, <3>6, <3>7, <3>8, <3>9
    <3>11. QED
      BY <2>3, <3>10 DEF g
  <2>4. QED
    BY <2>2, <2>3
<1>10. QED
  BY <1>6, <1>7, <1>8, <1>9 DEF BallotInv, TallyMatchesBallots

LEMMA BallotStep == ConfigInv /\ PowerInv /\ RowInv /\ BallotInv /\ [Next]_vars => RowInv' /\ BallotInv'
<1> SUFFICES ASSUME ConfigInv, PowerInv, RowInv, BallotInv, [Next]_vars PROVE RowInv' /\ BallotInv'
  OBVIOUS
<1>1. ASSUME ballots' = ballots, RowInv',
             \A id \in DOMAIN proposals : id \in DOMAIN proposals' /\ proposals'[id].votes = proposals[id].votes,
             \A id \in DOMAIN proposals' \ DOMAIN proposals : id \in Ids /\ proposals'[id].votes = [v \in Vote |-> 0]
      PROVE  BallotInv'
  <2>1. \A id, v : Given(id, v)' = Given(id, v)
    BY <1>1 DEF Given
  <2>2. ASSUME NEW id \in DOMAIN proposals', NEW v \in Vote
        PROVE  proposals'[id].votes[v] = SumOver(Given(id, v), Users)
    <3>1. CASE id \in DOMAIN proposals
      BY <1>1, <3>1 DEF BallotInv, TallyMatchesBallots
    <3>2. CASE id \notin DOMAIN proposals
      <4>1. \A u \in Users : Given(id, v)[u] = 0
        BY <1>1, <2>2, <3>2 DEF BallotInv, Given, NoBallot
      <4>2. SumOver(Given(id, v), Users) = 0
        BY <4>1, SumZero, MembersAssumption
      <4>3. QED
        BY <1>1, <2>2, <3>2, <4>2
    <3>3. QED
      BY <3>1, <3>2
  <2>3. TallyMatchesBallots'
    BY <2>1, <2>2 DEF TallyMatchesBallots
  <2>4. \A id \in Ids \ DOMAIN proposals', u \in Users : ballots'[<<id, u>>] = NoBallot
    BY <1>1 DEF BallotInv
  <2>5. QED
    BY <1>1, <2>3, <2>4 DEF BallotInv
<1>2. CASE Rests
  <2>1. RowInv'
    <3>1. proposals' = proposals /\ now' \in Nat /\ now <= now' /\ now \in Nat
      BY <1>2 DEF Rests, RowInv
    <3>2. \A id \in DOMAIN proposals : proposals[id].voting_start_time \in Nat
      BY RowFields DEF Row
    <3>3. QED
      BY <3>1, <3>2 DEF RowInv, validate, validate_percentage, validate_quorum
  <2>2. QED
    BY <1>1, <1>2, <2>1 DEF Rests
<1>3. ASSUME NEW u \in Users, NEW period \in Periods, execute_propose(u, period) PROVE RowInv' /\ BallotInv'
  <2>1. PICK p \in Row :
             /\ proposals' = Append(proposals, update_status(p)) /\ UNCHANGED <<ballots, now>>
             /\ Len(proposals) < MaxProposals
             /\ p.threshold = config["threshold"] /\ p.voting_start_time = now
             /\ p.votes = [v \in Vote |-> 0]
    BY <1>3, NewRow
  <2> DEFINE q == update_status(p)
  <2>2. q \in Row /\ q.votes = [v \in Vote |-> 0] /\ validate(q.threshold) /\ q.voting_start_time = now
    BY <2>1, UpdatedRow DEF ConfigInv
  <2> HIDE DEF q
  <2>3. proposals' = Append(proposals, q)
    BY <2>1 DEF q
  <2>4. /\ RowInv' /\ Len(proposals) + 1 \in Ids
        /\ DOMAIN proposals' = DOMAIN proposals \union {Len(proposals) + 1}
        /\ proposals'[Len(proposals) + 1] = q /\ \A i \in DOMAIN proposals : proposals'[i] = proposals[i]
    BY <2>1, <2>2, <2>3, AppendedRow
  <2>5. QED
    BY <1>1, <2>1, <2>2, <2>4
<1>4. ASSUME NEW u \in Users, NEW id \in DOMAIN proposals, NEW v \in Vote, execute_vote(u, id, v)
      PROVE  RowInv' /\ BallotInv'
  BY <1>4, VoteCounted
<1>5. ASSUME NEW id \in DOMAIN proposals, NEW s \in {"Executed", "Closed"}, Settles(id, s) PROVE RowInv' /\ BallotInv'
  <2> DEFINE q == [proposals[id] EXCEPT !.status = s]
  <2>1. proposals' = [proposals EXCEPT ![id] = q] /\ now' = now /\ ballots' = ballots
    BY <1>5 DEF Settles
  <2>2. /\ q \in Row /\ q.threshold = proposals[id].threshold /\ q.votes = proposals[id].votes
        /\ q.voting_start_time = proposals[id].voting_start_time
    BY RowFields DEF Row, Status
  <2> HIDE DEF q
  <2>3. /\ RowInv' /\ DOMAIN proposals' = DOMAIN proposals
        /\ proposals'[id] = q /\ \A i \in DOMAIN proposals : i # id => proposals'[i] = proposals[i]
    BY <2>1, <2>2, ReplacedRow
  <2>4. \A i \in DOMAIN proposals : i \in DOMAIN proposals' /\ proposals'[i].votes = proposals[i].votes
    BY <2>2, <2>3
  <2>5. QED
    BY <1>1, <2>1, <2>3, <2>4
<1>6. QED
  BY <1>2, <1>3, <1>4, <1>5, Steps

LEMMA LockStep == ConfigInv /\ RowInv /\ LockInv /\ [Next]_vars => LockInv'
<1> SUFFICES ASSUME ConfigInv, RowInv, LockInv, [Next]_vars PROVE LockInv'
  OBVIOUS
<1> DEFINE limit == config["proposal_creation_token_limit"]
<1>1. limit \in Nat
  BY DEF ConfigInv
<1>2. ASSUME NEW u \in Users, NEW period \in Periods, execute_propose(u, period) PROVE LockInv'
  <2>1. proposers' = [proposers EXCEPT ![u] = @ + limit]
    BY <1>2 DEF execute_propose
  <2>2. QED
    BY <1>1, <2>1 DEF LockInv
<1>3. ASSUME NEW id \in DOMAIN proposals, execute_close(id) \/ \E u \in Users : execute_execute(u, id) PROVE LockInv'
  <2> DEFINE p == proposals[id].proposer
  <2>1. p \in Users
    BY RowFields DEF Row
  <2>2. proposers' = [proposers EXCEPT ![p] = @ - limit] /\ proposers[p] >= limit
    BY <1>3 DEF execute_close, CloseAllowed, execute_execute, ExecuteAllowed
  <2> HIDE DEF p
  <2>3. QED
    BY <1>1, <2>1, <2>2 DEF LockInv
<1>4. ASSUME \/ Tick \/ UNCHANGED vars
             \/ \E u \in Users, update \in Updates : execute_update_config(u, update)
             \/ \E d \in Daos, u \in Users, p \in Powers : Restake(d, u, p)
             \/ \E u \in Users, id \in DOMAIN proposals, v \in Vote : execute_vote(u, id, v)
      PROVE  LockInv'
  <2>1. proposers' = proposers
    BY <1>4 DEF Tick, vars, execute_update_config, Restake, execute_vote
  <2>2. QED
    BY <2>1 DEF LockInv
<1>5. QED
  BY <1>2, <1>3, <1>4 DEF Next

\* The whole invariant but for the status.
TallyInv == ConfigInv /\ PowerInv /\ RowInv /\ BallotInv /\ LockInv

LEMMA TallyInit == Init => TallyInv
BY ConfigInit, PowerInit, BallotInit DEF TallyInv

LEMMA TallyStep == TallyInv /\ [Next]_vars => TallyInv'
BY ConfigStep, PowerStep, BallotStep, LockStep DEF TallyInv

LEMMA TallyCounts == TallyInv => BallotsCounted
<1> SUFFICES ASSUME TallyInv PROVE BallotsCounted
  OBVIOUS
<1>1. ASSUME NEW id \in DOMAIN proposals
      PROVE  LET p == proposals[id] IN
             /\ p.proposer \in Users /\ p.status \in Status /\ p.votes \in [Vote -> Nat]
             /\ p.total_power \in Nat /\ p.expiration \in Nat /\ p.voting_start_time \in 0 .. now
  <2>1. proposals[id] \in Row /\ proposals[id].votes \in [Vote -> Nat]
    BY RowFields, TallyType DEF TallyInv
  <2>2. proposals[id].voting_start_time \in 0 .. now
    BY <2>1 DEF TallyInv, RowInv, Row
  <2>3. QED
    BY <2>1, <2>2 DEF Row
<1>2. QED
  BY <1>1 DEF TallyInv, BallotInv, LockInv, BallotsCounted, TypeOK

\* The tally of every proposal is the sum of the ballots with the power each was
\* cast with, however the powers change between a vote and its replacement.
THEOREM BallotsAlwaysCounted == Spec => []BallotsCounted
BY TallyInit, TallyStep, TallyCounts, PTL DEF Spec

-----------------------------------------------------------------------------
(* Outcomes *)

\* The outcome depends on the votes, the threshold, the total and on whether
\* voting has ended, not on the stored status.
LEMMA SameOutcome ==
    ASSUME NEW id, NEW STATE q, proposals'[id].threshold = q.threshold, proposals'[id].votes = q.votes,
           proposals'[id].total_power = q.total_power, proposals'[id].expiration = q.expiration,
           now' >= q.expiration <=> now >= q.expiration
    PROVE  is_passed(proposals[id])' <=> is_passed(q)
BY DEF is_passed, is_expired, HasQuorum, does_vote_count_pass, compare_vote_count, Cast

\* What one step may do to the status the queries show.
OutcomeStep ==
    /\ \A id \in DOMAIN proposals :
        LET before == current_status(proposals[id])
            after == current_status(proposals[id])'
        IN  /\ before = "Passed" => after \in {"Passed", "Executed"}
            /\ before = "Rejected" => after \in {"Rejected", "Closed"}
            /\ before \in {"Executed", "Closed"} => after = before
            /\ is_expired(proposals[id]) => before # "Open"
    /\ \A id \in DOMAIN proposals' :
        (id \in DOMAIN proposals => current_status(proposals[id]) # "Passed") /\ current_status(proposals[id])' = "Passed"
            => is_passed(proposals[id])'

\* The same for one proposal, that is, for an old row p and its new row.
Follows(id) ==
    LET before == current_status(proposals[id])
        after == current_status(proposals[id])'
    IN  /\ proposals'[id].status = "Open" /\ ~is_expired(proposals[id])' => ~is_passed(proposals[id])'
        /\ before = "Passed" => after \in {"Passed", "Executed"}
        /\ before = "Rejected" => after \in {"Rejected", "Closed"}
        /\ before \in {"Executed", "Closed"} => after = before
        /\ before # "Passed" /\ after = "Passed" => is_passed(proposals[id])'

LEMMA SameRow ==
    ASSUME RowInv, OpenInv, NEW id \in DOMAIN proposals, proposals'[id] = proposals[id], now' \in Nat, now' >= now
    PROVE  Follows(id)
<1> DEFINE p == proposals[id]
<1>1. p.expiration \in Nat /\ now \in Nat /\ p.status \in Status
  BY RowFields DEF Row, RowInv
<1>2. is_expired(p)' <=> now' >= p.expiration
  BY DEF is_expired
<1>3. current_status(p) = IF p.status # "Open" THEN p.status
                          ELSE IF is_passed(p) THEN "Passed" ELSE IF is_expired(p) THEN "Rejected" ELSE "Open"
  BY DEF current_status
<1>4. current_status(p)' = IF p.status # "Open" THEN p.status
                           ELSE IF is_passed(p)' THEN "Passed" ELSE IF is_expired(p)' THEN "Rejected" ELSE "Open"
  BY DEF current_status
<1>5. CASE is_expired(p)' <=> is_expired(p)
  <2>1. now' >= p.expiration <=> now >= p.expiration
    BY <1>2, <1>5 DEF is_expired
  <2>2. is_passed(p)' <=> is_passed(p)
    BY <2>1, SameOutcome
  <2>3. p.status = "Open" /\ ~is_expired(p) => ~is_passed(p)
    BY DEF OpenInv
  <2> HIDE DEF p
  <2>4. current_status(p)' = current_status(p)
    BY <1>3, <1>4, <1>5, <2>2
  <2>5. p.status = "Open" /\ ~is_expired(p)' => ~is_passed(p)'
    BY <1>5, <2>2, <2>3
  <2>6. current_status(p) # "Passed" /\ current_status(p)' = "Passed" => is_passed(p)'
    BY <2>4
  <2>7. QED
    BY <2>4, <2>5, <2>6 DEF Follows, p
<1>6. CASE ~(is_expired(p)' <=> is_expired(p))
  <2>1. is_expired(p)' /\ ~is_expired(p)
    BY <1>1, <1>2, <1>6 DEF is_expired
  <2>2. p.status = "Open" => current_status(p) = "Open"
    BY <1>3, <2>1 DEF OpenInv
  <2>3. p.status # "Open" => current_status(p)' = p.status /\ current_status(p) = p.status
    BY <1>3, <1>4
  <2>4. p.status = "Open" /\ current_status(p)' = "Passed" => is_passed(p)'
    BY <1>4
  <2>5. proposals'[id].status = p.status
    OBVIOUS
  <2> HIDE DEF p
  <2>6. QED
    BY <2>1, <2>2, <2>3, <2>4, <2>5 DEF Follows, p
<1>7. QED
  BY <1>5, <1>6

\* A stored row that was just updated shows its stored status.
LEMMA StoredRow ==
    ASSUME NEW id, NEW STATE q, q \in Row, proposals'[id] = update_status(q), now' = now
    PROVE  /\ proposals'[id].status = "Open" /\ ~is_expired(proposals[id])' => ~is_passed(proposals[id])'
           /\ current_status(proposals[id])' = current_status(q)
           /\ q.status = "Open" /\ current_status(q) = "Passed" => is_passed(proposals[id])'
           /\ q.status # "Open" => current_status(q) = q.status
<1>1. /\ update_status(q).status = current_status(q) /\ update_status(q).threshold = q.threshold
      /\ update_status(q).votes = q.votes /\ update_status(q).total_power = q.total_power
      /\ update_status(q).expiration = q.expiration
  BY UpdatedRow
<1>2. is_passed(proposals[id])' <=> is_passed(q)
  BY <1>1, SameOutcome
<1>3. is_expired(proposals[id])' <=> is_expired(q)
  BY <1>1 DEF is_expired
<1>4. current_status(q) = IF q.status # "Open" THEN q.status
                          ELSE IF is_passed(q) THEN "Passed" ELSE IF is_expired(q) THEN "Rejected" ELSE "Open"
  BY DEF current_status
<1>5. current_status(proposals[id])' =
        IF proposals'[id].status # "Open" THEN proposals'[id].status
        ELSE IF is_passed(proposals[id])' THEN "Passed" ELSE IF is_expired(proposals[id])' THEN "Rejected" ELSE "Open"
  BY DEF current_status
<1>6. QED
  BY <1>1, <1>2, <1>3, <1>4, <1>5

LEMMA OpenStep ==
    ASSUME TallyInv, OpenInv, [Next]_vars
    PROVE  OpenInv' /\ OutcomeStep
<1>1. ConfigInv /\ PowerInv /\ RowInv /\ BallotInv /\ now \in Nat
  BY DEF TallyInv, RowInv
<1>2. ASSUME NEW id \in DOMAIN proposals PROVE is_expired(proposals[id]) => current_status(proposals[id]) # "Open"
  BY DEF current_status
<1>3. ASSUME DOMAIN proposals' = DOMAIN proposals, \A id \in DOMAIN proposals : Follows(id)
      PROVE  OpenInv' /\ OutcomeStep
  <2>1. OpenInv'
    BY <1>3 DEF OpenInv, Follows
  <2>2. OutcomeStep
    BY <1>2, <1>3 DEF OutcomeStep, Follows
  <2>3. QED
    BY <2>1, <2>2
<1>4. CASE Rests
  <2>1. \A id \in DOMAIN proposals : Follows(id)
    BY <1>1, <1>4, SameRow DEF Rests
  <2>2. QED
    BY <1>3, <1>4, <2>1 DEF Rests
<1>5. ASSUME NEW u \in Users, NEW period \in Periods, execute_propose(u, period) PROVE OpenInv' /\ OutcomeStep
  <2>1. PICK p \in Row :
             /\ proposals' = Append(proposals, update_status(p)) /\ UNCHANGED <<ballots, now>>
             /\ Len(proposals) < MaxProposals
             /\ p.threshold = config["threshold"] /\ p.voting_start_time = now /\ p.status = "Open"
    BY <1>1, <1>5, NewRow
  <2> DEFINE q == update_status(p)
  <2>0. PICK n : n = Len(proposals) + 1
    OBVIOUS
  <2>2. q \in Row /\ validate(q.threshold) /\ q.voting_start_time = now
    BY <1>1, <2>1, UpdatedRow DEF ConfigInv
  <2> HIDE DEF q
  <2>3. /\ DOMAIN proposals' = DOMAIN proposals \union {n} /\ n \notin DOMAIN proposals
        /\ proposals'[n] = q /\ \A i \in DOMAIN proposals : proposals'[i] = proposals[i]
    <3>1. proposals' = Append(proposals, q)
      BY <2>1 DEF q
    <3>2. QED
      BY <1>1, <2>0, <2>1, <2>2, <3>1, AppendedRow
  <2>4. /\ proposals'[n].status = "Open" /\ ~is_expired(proposals[n])' => ~is_passed(proposals[n])'
        /\ current_status(proposals[n])' = "Passed" => is_passed(proposals[n])'
    BY <2>1, <2>3, StoredRow DEF q
  <2>5. \A id \in DOMAIN proposals : Follows(id)
    BY <1>1, <2>1, <2>3, SameRow
  <2>6. OpenInv'
    BY <2>3, <2>4, <2>5 DEF OpenInv, Follows
  <2>7. OutcomeStep
    BY <1>2, <2>3, <2>4, <2>5 DEF OutcomeStep, Follows
  <2>8. QED
    BY <2>6, <2>7
<1>6. ASSUME NEW u \in Users, NEW id \in DOMAIN proposals, NEW v \in Vote, execute_vote(u, id, v)
      PROVE  OpenInv' /\ OutcomeStep
  <2> DEFINE q == WithVote(u, id, v)
             p == proposals[id]
  <2>1. /\ proposals' = [proposals EXCEPT ![id] = update_status(q)] /\ now' = now
        /\ ~is_expired(p) /\ p.status \notin {"Executed", "Closed"}
    BY <1>6 DEF execute_vote, VoteOpen
  <2>2. q \in Row /\ q.status = p.status
    BY <1>1, VotedRow
  <2> HIDE DEF q
  <2>3. /\ DOMAIN proposals' = DOMAIN proposals /\ proposals'[id] = update_status(q)
        /\ \A i \in DOMAIN proposals : i # id => proposals'[i] = proposals[i]
    BY <2>1
  <2>4. /\ proposals'[id].status = "Open" /\ ~is_expired(p)' => ~is_passed(p)'
        /\ current_status(p)' = current_status(q)
        /\ q.status = "Open" /\ current_status(q) = "Passed" => is_passed(p)'
        /\ q.status # "Open" => current_status(q) = q.status
    BY <2>1, <2>2, <2>3, StoredRow
  <2>5. (p.status = "Open" => current_status(p) = "Open") /\ (p.status # "Open" => current_status(p) = p.status)
    BY <2>1 DEF OpenInv, current_status
  <2> HIDE DEF p
  <2>6. Follows(id)
    BY <2>1, <2>2, <2>4, <2>5 DEF Follows, p
  <2>7. \A i \in DOMAIN proposals : Follows(i)
    BY <1>1, <2>1, <2>3, <2>6, SameRow
  <2>8. QED
    BY <1>3, <2>3, <2>7
<1>7. ASSUME NEW id \in DOMAIN proposals, NEW s \in {"Executed", "Closed"}, Settles(id, s) PROVE OpenInv' /\ OutcomeStep
  <2>1. /\ proposals' = [proposals EXCEPT ![id].status = s] /\ now' = now
        /\ \/ current_status(proposals[id]) = "Passed" /\ s = "Executed"
           \/ current_status(proposals[id]) = "Rejected" /\ s = "Closed"
    BY <1>7 DEF Settles
  <2>2. /\ DOMAIN proposals' = DOMAIN proposals /\ proposals'[id].status = s
        /\ \A i \in DOMAIN proposals : i # id => proposals'[i] = proposals[i]
    <3>1. proposals[id] \in Row
      BY <1>1, RowFields
    <3>2. QED
      BY <2>1, <3>1 DEF Row
  <2>3. current_status(proposals[id])' = s
    BY <2>2 DEF current_status
  <2>4. Follows(id)
    BY <2>1, <2>2, <2>3 DEF Follows
  <2>5. \A i \in DOMAIN proposals : Follows(i)
    BY <1>1, <2>1, <2>2, <2>4, SameRow
  <2>6. QED
    BY <1>3, <2>2, <2>5
<1>8. QED
  BY <1>1, <1>4, <1>5, <1>6, <1>7, Steps

\* Such a percentage of some power is some power.
LEMMA PercentOfPower ==
    ASSUME NEW t \in Nat \ {0}, NEW percent \in Nat, percent * PRECISION_FACTOR >= Unit
    PROVE  (t * PRECISION_FACTOR * percent) \div Unit >= 1
<1> DEFINE F == PRECISION_FACTOR
           k == percent * F
           x == t * F * percent
<1>1. F \in Nat /\ Unit \in Nat \ {0}
  BY ScaleAssumption
<1> HIDE DEF F
<1>2. k \in Nat /\ x = t * k
  BY <1>1
<1>3. PICK r \in Nat : t = 1 + r
  <2>1. t - 1 \in Nat /\ t = 1 + (t - 1)
    OBVIOUS
  <2>2. QED
    BY <2>1
<1> HIDE DEF k, x
<1>4. r * k \in Nat /\ x = k + r * k
  BY <1>2, <1>3
<1>5. x \in Nat /\ x >= Unit
  BY <1>1, <1>2, <1>4 DEF k, F
<1>6. ASSUME NEW y \in Nat, NEW b \in Nat \ {0}, y >= b PROVE y \div b >= 1
  <2>1. y \div b \in Nat /\ y < (y \div b) * b + b
    BY SMT
  <2>2. CASE y \div b = 0
    BY <1>6, <2>1, <2>2
  <2>3. QED
    BY <2>1, <2>2
<1>7. QED
  BY <1>1, <1>5, <1>6 DEF x, F

\* A proposal that passes has support.
Supported ==
    \A id \in DOMAIN proposals :
        LET p == proposals[id] IN
        is_passed(p) => p.votes["yes"] > 0 \/ (p.total_power = 0 /\ p.votes["no"] > 0)

LEMMA PassedIsSupported == CoarsePercentages /\ TallyInv => Supported
<1> SUFFICES ASSUME CoarsePercentages, TallyInv, NEW id \in DOMAIN proposals, is_passed(proposals[id]),
                    ~(proposals[id].votes["yes"] > 0)
             PROVE  proposals[id].total_power = 0 /\ proposals[id].votes["no"] > 0
  BY DEF Supported
<1> DEFINE p == proposals[id]
           t == p.threshold
           yes == p.votes["yes"]
           no == p.votes["no"]
           abstain == p.votes["abstain"]
           power_now == p.total_power
<1>1. p \in Row /\ p.votes \in [Vote -> Nat]
  BY RowFields, TallyType DEF TallyInv
<1>2. yes = 0 /\ no \in Nat /\ abstain \in Nat /\ power_now \in Nat /\ t \in Thresholds
  BY <1>1 DEF Row, Vote
<1>3. validate(t)
  BY DEF TallyInv, RowInv
<1>4. t.type = "absolute_count" => t.threshold \in Nat
  BY <1>2, MessagesAssumption DEF Thresholds
<1>5. Cast(p) = yes + no + abstain
  BY DEF Cast
<1>6. ASSUME NEW percent, percent \in 1 .. Unit, percent * PRECISION_FACTOR >= Unit,
             compare_vote_count(yes, power_now, percent)
      PROVE  power_now = 0
  <2>1. percent \in Nat
    BY <1>6, ScaleAssumption
  <2>2. 0 >= (power_now * PRECISION_FACTOR * percent) \div Unit
    <3>1. yes * PRECISION_FACTOR = 0
      BY <1>2, ScaleAssumption
    <3>2. QED
      BY <1>6, <3>1 DEF compare_vote_count
  <2>3. CASE power_now # 0
    <3>1. (power_now * PRECISION_FACTOR * percent) \div Unit >= 1
      BY <1>2, <1>6, <2>1, <2>3, PercentOfPower
    <3>2. (power_now * PRECISION_FACTOR * percent) \div Unit \in Int
      <4>1. power_now * PRECISION_FACTOR * percent \in Int
        BY <1>2, <2>1, ScaleAssumption
      <4>2. \A a \in Int, b \in Nat \ {0} : a \div b \in Int
        BY SMT
      <4>3. QED
        BY <4>1, <4>2, ScaleAssumption
    <3>3. QED
      BY <2>2, <3>1, <3>2
  <2>4. QED
    BY <2>3
<1>7. CASE t.type = "absolute_percentage"
  <2>1. is_expired(p) /\ does_vote_count_pass(yes, Cast(p) - abstain, power_now, t.percentage)
    BY <1>7 DEF is_passed
  <2>2. t.percentage = Majority \/ t.percentage \in 1 .. Unit
    BY <1>3, <1>7 DEF validate, validate_percentage
  <2>3. Cast(p) - abstain = no /\ no > 0
    BY <1>2, <1>5, <2>1 DEF does_vote_count_pass
  <2>4. t.percentage # Majority
    BY <1>2, <2>1, <2>3 DEF does_vote_count_pass
  <2>5. t.percentage * PRECISION_FACTOR >= Unit /\ compare_vote_count(yes, power_now, t.percentage)
    BY <1>2, <1>3, <1>7, <2>1, <2>4 DEF does_vote_count_pass, CoarsePercentages
  <2>6. power_now = 0
    BY <1>6, <2>2, <2>4, <2>5
  <2>7. QED
    BY <2>3, <2>6
<1>8. CASE t.type = "threshold_quorum"
  <2> DEFINE options == IF is_expired(p) THEN Cast(p) - abstain ELSE power_now - abstain
  <2>1. HasQuorum(p) /\ does_vote_count_pass(yes, options, power_now, t.threshold)
    BY <1>8 DEF is_passed
  <2>2. power_now > 0
    BY <2>1 DEF HasQuorum, does_vote_count_pass
  <2>3. t.threshold = Majority \/ t.threshold \in 1 .. Unit
    BY <1>3, <1>8 DEF validate, validate_percentage
  <2>4. options \in Int
    BY <1>2, <1>5
  <2> HIDE DEF options
  <2>5. t.threshold # Majority
    BY <1>2, <2>1, <2>4 DEF does_vote_count_pass
  <2>6. t.threshold * PRECISION_FACTOR >= Unit /\ compare_vote_count(yes, power_now, t.threshold)
    BY <1>2, <1>3, <1>8, <2>1, <2>5 DEF does_vote_count_pass, CoarsePercentages
  <2>7. QED
    BY <1>6, <2>2, <2>3, <2>5, <2>6
<1>9. CASE t.type = "absolute_count"
  <2>1. yes >= t.threshold
    BY <1>9 DEF is_passed
  <2>2. t.threshold > 0
    BY <1>3, <1>9 DEF validate
  <2>3. QED
    BY <1>2, <1>4, <1>9, <2>1, <2>2
<1>10. QED
  BY <1>3, <1>7, <1>8, <1>9 DEF validate

LEMMA OpenInit == Init => OpenInv
BY DEF Init, OpenInv

\* The outcome a proposal shows after the end of voting is final, Passed never goes
\* back, and nothing becomes Passed without support.
THEOREM OutcomeAlwaysSound ==
    ASSUME CoarsePercentages
    PROVE  Spec => OutcomeSound
<1>1. TallyInv /\ OpenInv /\ [Next]_vars => TallyInv' /\ OpenInv' /\ OutcomeStep
  BY TallyStep, OpenStep
<1>2. TallyInv => Supported
  BY PassedIsSupported
<1>3. OutcomeStep =>
        [\A id \in DOMAIN proposals :
            LET before == current_status(proposals[id])
                after == current_status(proposals[id])'
            IN  /\ before = "Passed" => after \in {"Passed", "Executed"}
                /\ before = "Rejected" => after \in {"Rejected", "Closed"}
                /\ before \in {"Executed", "Closed"} => after = before
                /\ is_expired(proposals[id]) => before # "Open"]_vars
  BY DEF OutcomeStep
<1>4. OutcomeStep /\ Supported' =>
        [\A id \in DOMAIN proposals' :
            (id \in DOMAIN proposals => current_status(proposals[id]) # "Passed") /\ current_status(proposals[id])' = "Passed"
                => LET p == proposals'[id] IN
                   p.votes["yes"] > 0 \/ (p.total_power = 0 /\ p.votes["no"] > 0)]_vars
  BY DEF OutcomeStep, Supported
<1>5. QED
  BY TallyInit, OpenInit, <1>1, <1>2, <1>3, <1>4, PTL DEF Spec, OutcomeSound, OutcomeIsFinal, PassNeedsSupport

-----------------------------------------------------------------------------
(* Deposits *)

Unsettled(u) ==
    {id \in DOMAIN proposals : proposals[id].proposer = u /\ proposals[id].status \notin {"Executed", "Closed"}}

\* Every member has locked one deposit for each of its proposals that is not settled.
DepositInv ==
    \A u \in Users : proposers[u] = config["proposal_creation_token_limit"] * Cardinality(Unsettled(u))

LEMMA UnsettledFinite ==
    ASSUME RowInv, NEW u
    PROVE  IsFiniteSet(Unsettled(u)) /\ Cardinality(Unsettled(u)) \in Nat
<1>1. IsFiniteSet(DOMAIN proposals)
  BY LenProperties, FS_Interval DEF RowInv
<1>2. IsFiniteSet(Unsettled(u))
  BY <1>1, FS_Subset DEF Unsettled
<1>3. QED
  BY <1>2, FS_CardinalityType

LEMMA DepositInit == Init => DepositInv
<1> SUFFICES ASSUME Init, NEW u \in Users PROVE proposers[u] = config["proposal_creation_token_limit"] * Cardinality(Unsettled(u))
  BY DEF DepositInv
<1>1. Unsettled(u) = {}
  BY DEF Init, Unsettled
<1>2. Cardinality(Unsettled(u)) = 0
  BY <1>1, FS_EmptySet
<1>3. config["proposal_creation_token_limit"] \in Nat
  BY ConfigInit DEF ConfigInv
<1>4. QED
  BY <1>2, <1>3 DEF Init

LEMMA DepositStep == FixedDeposit /\ TallyInv /\ DepositInv /\ [Next]_vars => DepositInv'
<1> SUFFICES ASSUME FixedDeposit, TallyInv, DepositInv, [Next]_vars PROVE DepositInv'
  OBVIOUS
<1> DEFINE limit == config["proposal_creation_token_limit"]
<1>1. ConfigInv /\ PowerInv /\ RowInv /\ BallotInv /\ LockInv
  BY DEF TallyInv
<1>2. limit \in Nat /\ \A u \in Users : IsFiniteSet(Unsettled(u)) /\ Cardinality(Unsettled(u)) \in Nat
  BY <1>1, UnsettledFinite DEF ConfigInv
<1>3. config'["proposal_creation_token_limit"] = limit
  <2>1. ASSUME NEW u \in Users, NEW update \in Updates, execute_update_config(u, update)
        PROVE  config'["proposal_creation_token_limit"] = limit
    <3>1. config' = [f \in DOMAIN config |-> IF f \in DOMAIN update THEN update[f] ELSE config[f]]
      BY <2>1 DEF execute_update_config
    <3>2. "proposal_creation_token_limit" \in DOMAIN config \ DOMAIN update
      BY <1>1 DEF ConfigInv, ConfigFields, FixedDeposit
    <3>3. QED
      BY <3>1, <3>2
  <2>2. config' = config \/ \E u \in Users, update \in Updates : execute_update_config(u, update)
    BY DEF Next, vars, Tick, execute_propose, execute_vote, execute_execute, execute_close, Restake
  <2>3. QED
    BY <2>1, <2>2
<1>4. ASSUME proposers' = proposers, \A u \in Users : Unsettled(u)' = Unsettled(u) PROVE DepositInv'
  BY <1>3, <1>4 DEF DepositInv
<1>5. ASSUME proposals' = proposals, proposers' = proposers PROVE DepositInv'
  BY <1>4, <1>5 DEF Unsettled
<1>6. ASSUME NEW u \in Users, NEW period \in Periods, execute_propose(u, period) PROVE DepositInv'
  <2>1. PICK p \in Row :
             /\ proposals' = Append(proposals, update_status(p)) /\ UNCHANGED <<ballots, now>>
             /\ Len(proposals) < MaxProposals
             /\ p.threshold = config["threshold"] /\ p.voting_start_time = now /\ p.status = "Open" /\ p.proposer = u
    BY <1>1, <1>6, NewRow
  <2> DEFINE q == update_status(p)
  <2>2. PICK n : n = Len(proposals) + 1
    OBVIOUS
  <2>3. /\ q \in Row /\ validate(q.threshold) /\ q.voting_start_time = now /\ q.proposer = u
        /\ q.status \notin {"Executed", "Closed"}
    <3>1. current_status(p) \notin {"Executed", "Closed"}
      BY <2>1 DEF current_status
    <3>2. QED
      BY <1>1, <2>1, <3>1, UpdatedRow DEF ConfigInv
  <2> HIDE DEF q
  <2>4. /\ DOMAIN proposals' = DOMAIN proposals \union {n} /\ n \notin DOMAIN proposals
        /\ proposals'[n] = q /\ \A i \in DOMAIN proposals : proposals'[i] = proposals[i]
    <3>1. proposals' = Append(proposals, q)
      BY <2>1 DEF q
    <3>2. QED
      BY <1>1, <2>1, <2>2, <2>3, <3>1, AppendedRow
  <2>5. Unsettled(u)' = Unsettled(u) \union {n} /\ n \notin Unsettled(u)
    BY <2>3, <2>4 DEF Unsettled
  <2>6. \A w \in Users \ {u} : Unsettled(w)' = Unsettled(w)
    BY <2>3, <2>4 DEF Unsettled
  <2>7. Cardinality(Unsettled(u) \union {n}) = Cardinality(Unsettled(u)) + 1
    BY <1>2, <2>5, FS_AddElement
  <2>8. proposers' = [proposers EXCEPT ![u] = @ + limit] /\ proposers \in [Users -> Nat]
    BY <1>1, <1>6 DEF execute_propose, LockInv
  <2>9. \A c \in Nat : limit * c + limit = limit * (c + 1)
    BY <1>2
  <2> HIDE DEF limit
  <2>10. ASSUME NEW w \in Users PROVE proposers'[w] = limit * Cardinality(Unsettled(w)')
    <3>1. proposers[w] = limit * Cardinality(Unsettled(w))
      BY DEF DepositInv, limit
    <3>2. CASE w = u
      BY <1>2, <2>5, <2>7, <2>8, <2>9, <3>1, <3>2
    <3>3. CASE w # u
      BY <2>6, <2>8, <3>1, <3>3
    <3>4. QED
      BY <3>2, <3>3
  <2>11. QED
    BY <1>3, <2>10 DEF DepositInv
<1>7. ASSUME NEW u \in Users, NEW id \in DOMAIN proposals, NEW v \in Vote, execute_vote(u, id, v) PROVE DepositInv'
  <2> DEFINE q == WithVote(u, id, v)
  <2>1. /\ proposals' = [proposals EXCEPT ![id] = update_status(q)] /\ proposers' = proposers
        /\ proposals[id].status \notin {"Executed", "Closed"}
    BY <1>7 DEF execute_vote, VoteOpen
  <2>2. q \in Row /\ q.status = proposals[id].status /\ q.proposer = proposals[id].proposer
    BY <1>1, VotedRow
  <2> HIDE DEF q
  <2>3. update_status(q).proposer = proposals[id].proposer /\ update_status(q).status \notin {"Executed", "Closed"}
    <3>1. current_status(q) \notin {"Executed", "Closed"}
      BY <2>1, <2>2 DEF current_status
    <3>2. QED
      BY <2>2, <3>1, UpdatedRow
  <2>4. \A w \in Users : Unsettled(w)' = Unsettled(w)
    BY <2>1, <2>3 DEF Unsettled
  <2>5. QED
    BY <1>4, <2>1, <2>4
<1>8. ASSUME NEW id \in DOMAIN proposals, execute_close(id) \/ \E u \in Users : execute_execute(u, id) PROVE DepositInv'
  <2>1. PICK s \in {"Executed", "Closed"} :
             /\ proposals' = [proposals EXCEPT ![id].status = s]
             /\ proposers' = [proposers EXCEPT ![proposals[id].proposer] = @ - limit]
             /\ current_status(proposals[id]) \in {"Passed", "Rejected"}
    BY <1>8 DEF execute_close, CloseAllowed, execute_execute, ExecuteAllowed
  <2>2. PICK u \in Users : u = proposals[id].proposer
    BY <1>1, RowFields DEF Row
  <2>3. /\ DOMAIN proposals' = DOMAIN proposals /\ proposals'[id].status = s
        /\ proposals'[id].proposer = u
        /\ \A i \in DOMAIN proposals : i # id => proposals'[i] = proposals[i]
    <3>1. proposals[id] \in Row
      BY <1>1, RowFields
    <3>2. QED
      BY <2>1, <2>2, <3>1 DEF Row
  <2>4. id \in Unsettled(u)
    BY <2>1, <2>2 DEF Unsettled, current_status
  <2>5. Unsettled(u)' = Unsettled(u) \ {id}
    BY <2>3 DEF Unsettled
  <2>6. \A w \in Users \ {u} : Unsettled(w)' = Unsettled(w)
    BY <2>2, <2>3 DEF Unsettled
  <2>7. Cardinality(Unsettled(u) \ {id}) = Cardinality(Unsettled(u)) - 1
    BY <1>2, <2>4, FS_RemoveElement
  <2>8. proposers' = [proposers EXCEPT ![u] = @ - limit] /\ proposers \in [Users -> Nat]
    BY <1>1, <2>1, <2>2 DEF LockInv
  <2>9. \A c \in Nat : limit * c - limit = limit * (c - 1)
    BY <1>2
  <2> HIDE DEF limit
  <2>10. ASSUME NEW w \in Users PROVE proposers'[w] = limit * Cardinality(Unsettled(w)')
    <3>1. proposers[w] = limit * Cardinality(Unsettled(w))
      BY DEF DepositInv, limit
    <3>2. CASE w = u
      BY <1>2, <2>5, <2>7, <2>8, <2>9, <3>1, <3>2
    <3>3. CASE w # u
      BY <2>6, <2>8, <3>1, <3>3
    <3>4. QED
      BY <3>2, <3>3
  <2>11. QED
    BY <1>3, <2>10 DEF DepositInv
<1>9. ASSUME \/ Tick \/ UNCHANGED vars
             \/ \E u \in Users, update \in Updates : execute_update_config(u, update)
             \/ \E d \in Daos, u \in Users, p \in Powers : Restake(d, u, p)
      PROVE  proposals' = proposals /\ proposers' = proposers
  BY <1>9 DEF Tick, vars, execute_update_config, Restake
<1>10. QED
  BY <1>5, <1>6, <1>7, <1>8, <1>9 DEF Next

\* As long as the deposit of the config stays the same, a member whose proposals are
\* all executed or closed has nothing locked.
THEOREM LocksAlwaysReturned ==
    ASSUME FixedDeposit
    PROVE  Spec => []LockReturned
<1>1. TallyInv /\ DepositInv => LockReturned
  <2> SUFFICES ASSUME TallyInv, DepositInv, NEW u \in Users,
                      \A id \in DOMAIN proposals :
                          proposals[id].proposer = u => proposals[id].status \in {"Executed", "Closed"}
               PROVE  proposers[u] = 0
    BY DEF LockReturned
  <2>1. Unsettled(u) = {}
    BY DEF Unsettled
  <2>2. Cardinality(Unsettled(u)) = 0
    BY <2>1, FS_EmptySet
  <2>3. QED
    BY <2>2 DEF DepositInv, TallyInv, ConfigInv
<1>2. QED
  BY TallyInit, TallyStep, DepositInit, DepositStep, <1>1, PTL DEF Spec

=============================================================================
