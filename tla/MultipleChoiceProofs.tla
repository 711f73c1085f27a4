------------------------ MODULE MultipleChoiceProofs ------------------------
(***************************************************************************)
(* Theorems about MultipleChoice, for every set of members, every gauge    *)
(* and every course of the votes, the options and the rounds.              *)
(***************************************************************************)
EXTENDS MultipleChoice, SumTheorems, SequenceTheorems

Choice == [pool : GaugeOptions, power : Nat]

\* TimeOut is a status of records only.
Row ==
    [proposer : Users, expiration : Nat, total_power : Nat, status : Status \ {"TimeOut"}, voting_start_time : Nat,
     choices : Seq(Choice), pending_period : Nat]

ConfigInv == config \in [ConfigFields -> Nat] /\ proposers \in [Users -> Nat]

ClockInv ==
    /\ now \in Nat /\ power \in [Users -> Nat]
    /\ gauge \in [status : {"Open", "Closed"}, expiration : Nat, voting_start_time : Nat]

AreBallots(map) == \A b \in DOMAIN map : map[b].power \in Nat

RowInv ==
    /\ proposals \in Seq(Row) /\ version \in Seq(1 .. MaxVersion) /\ Len(version) = Len(proposals)
    /\ AreBallots(ballots)

\* What a record at key k says of the proposal p, which is at version ver: an outcome of this version
\* belongs to a proposal that has ended, and an executed round is over when another one is open.
Recorded(k, rec, ver, p) ==
    /\ k[2] <= ver
    /\ k[2] = ver /\ rec.status \in {"Executed", "Rejected"} => p.status \in {"Executed", "Rejected", "Closed"}
    /\ rec.status = "Executed" =>
         /\ rec.expiration \in Nat
         /\ rec.expiration < p.expiration \/ (rec.expiration = p.expiration /\ p.status \in {"Executed", "Closed"})

HistoryInv ==
    /\ \A k \in DOMAIN history :
        k \in (DOMAIN proposals) \X Nat /\ Recorded(k, history[k], version[k[1]], proposals[k[1]])
    /\ OneExecutionPerRound

-----------------------------------------------------------------------------
(* Shares of choices *)

PowersOf(c) == [i \in DOMAIN c |-> c[i].power]

LEMMA ChoicesSeq ==
    ASSUME NEW c \in Seq(Choice)
    PROVE  /\ Len(c) \in Nat /\ DOMAIN c = 1 .. Len(c) /\ IsFiniteSet(DOMAIN c)
           /\ \A i \in DOMAIN c : c[i] \in Choice /\ c[i].power \in Nat /\ PowersOf(c)[i] = c[i].power
           /\ Shares(c) = SumOver(PowersOf(c), DOMAIN c)
<1>1. Len(c) \in Nat /\ DOMAIN c = 1 .. Len(c)
  BY LenProperties
<1>2. IsFiniteSet(DOMAIN c)
  BY <1>1, FS_Interval
<1>3. ASSUME NEW i \in DOMAIN c PROVE c[i] \in Choice /\ c[i].power \in Nat
  <2>1. c[i] \in Choice
    BY <1>1, ElementOfSeq
  <2>2. QED
    BY <2>1 DEF Choice
<1>4. QED
  BY <1>1, <1>2, <1>3 DEF Shares, PowersOf

LEMMA SharesType == ASSUME NEW c \in Seq(Choice) PROVE Shares(c) \in Nat
<1>1. IsFiniteSet(DOMAIN c) /\ (\A i \in DOMAIN c : PowersOf(c)[i] \in Nat) /\ Shares(c) = SumOver(PowersOf(c), DOMAIN c)
  BY ChoicesSeq
<1>2. QED
  BY <1>1, SumNat

\* Choices without votes.
LEMMA NoShares ==
    ASSUME NEW c \in Seq(Choice), \A i \in DOMAIN c : c[i].power = 0
    PROVE  Shares(c) = 0
<1>1. IsFiniteSet(DOMAIN c) /\ (\A i \in DOMAIN c : PowersOf(c)[i] = 0) /\ Shares(c) = SumOver(PowersOf(c), DOMAIN c)
  BY ChoicesSeq
<1>2. QED
  BY <1>1, SumZero

\* The power of one choice changes.
LEMMA SharesChange ==
    ASSUME NEW c \in Seq(Choice), NEW m \in DOMAIN c, NEW x \in Nat
    PROVE  LET d == [c EXCEPT ![m] = WithPower(c[m], x)] IN
           d \in Seq(Choice) /\ Shares(d) = Shares(c) + x - c[m].power
<1> DEFINE e == WithPower(c[m], x)
           d == [c EXCEPT ![m] = e]
<1>1. /\ Len(c) \in Nat /\ DOMAIN c = 1 .. Len(c) /\ IsFiniteSet(DOMAIN c)
      /\ \A i \in DOMAIN c : c[i] \in Choice /\ c[i].power \in Nat /\ PowersOf(c)[i] = c[i].power
      /\ Shares(c) = SumOver(PowersOf(c), DOMAIN c)
  BY ChoicesSeq
<1>2. e \in Choice /\ e.power = x
  BY <1>1 DEF Choice, WithPower
<1> HIDE DEF e
<1>3. d \in Seq(Choice)
  BY <1>1, <1>2, ExceptSeq
<1>4. DOMAIN d = DOMAIN c /\ \A i \in DOMAIN c : d[i] = IF i = m THEN e ELSE c[i]
  OBVIOUS
<1> HIDE DEF d
<1>5. Shares(d) = SumOver(PowersOf(d), DOMAIN c)
  BY <1>3, <1>4, ChoicesSeq
<1>6. \A i \in DOMAIN c : PowersOf(d)[i] = IF i = m THEN x ELSE PowersOf(c)[i]
  BY <1>1, <1>2, <1>4 DEF PowersOf
<1> DEFINE f == PowersOf(c)
           g == PowersOf(d)
           D == DOMAIN c
<1>7. /\ IsFiniteSet(D) /\ m \in D
      /\ (\A y \in D : f[y] \in Int) /\ (\A y \in D : g[y] \in Int) /\ (\A y \in D \ {m} : g[y] = f[y])
  BY <1>1, <1>6
<1>8. g[m] = x /\ f[m] = c[m].power /\ Shares(d) = SumOver(g, D) /\ Shares(c) = SumOver(f, D)
  BY <1>1, <1>5, <1>6
<1> HIDE DEF f, g, D
<1>9. SumOver(g, D) = SumOver(f, D) + g[m] - f[m]
  <2>1. SumOver(f, D) = f[m] + SumOver(f, D \ {m}) /\ SumOver(g, D) = g[m] + SumOver(g, D \ {m})
    BY <1>7, SumRemove
  <2>2. IsFiniteSet(D \ {m})
    BY <1>7, FS_RemoveElement
  <2>3. SumOver(g, D \ {m}) = SumOver(f, D \ {m}) /\ SumOver(f, D \ {m}) \in Int
    BY <1>7, <2>2, SumSame, SumType
  <2>4. f[m] \in Int /\ g[m] \in Int
    BY <1>7
  <2>5. QED
    BY <2>1, <2>3, <2>4
<1>10. d \in Seq(Choice) /\ Shares(d) = Shares(c) + x - c[m].power
  BY <1>3, <1>8, <1>9
<1>11. QED
  BY <1>10 DEF d, e

\* A choice is appended.
LEMMA SharesAppend ==
    ASSUME NEW c \in Seq(Choice), NEW e \in Choice
    PROVE  Append(c, e) \in Seq(Choice) /\ Shares(Append(c, e)) = Shares(c) + e.power
<1> DEFINE d == Append(c, e)
           n == Len(c)
<1>1. /\ n \in Nat /\ DOMAIN c = 1 .. n /\ IsFiniteSet(DOMAIN c)
      /\ \A i \in DOMAIN c : c[i].power \in Nat /\ PowersOf(c)[i] = c[i].power
      /\ Shares(c) = SumOver(PowersOf(c), DOMAIN c)
  BY ChoicesSeq
<1>2. /\ d \in Seq(Choice) /\ Len(d) = n + 1 /\ d[n + 1] = e /\ \A i \in 1 .. n : d[i] = c[i]
  BY AppendProperties
<1> HIDE DEF d, n
<1>3. /\ DOMAIN d = 1 .. n + 1 /\ IsFiniteSet(DOMAIN d)
      /\ \A i \in DOMAIN d : d[i].power \in Nat /\ PowersOf(d)[i] = d[i].power
      /\ Shares(d) = SumOver(PowersOf(d), DOMAIN d)
  BY <1>2, ChoicesSeq
<1> DEFINE D == DOMAIN d
           f == PowersOf(d)
           g == PowersOf(c)
<1>4. /\ IsFiniteSet(D) /\ n + 1 \in D /\ (\A y \in D : f[y] \in Int) /\ D \ {n + 1} = DOMAIN c
      /\ f[n + 1] = e.power
  BY <1>1, <1>2, <1>3
<1>5. \A y \in DOMAIN c : f[y] = g[y]
  BY <1>1, <1>2, <1>3, <1>4
<1> HIDE DEF D, f, g
<1>6. SumOver(f, D) = f[n + 1] + SumOver(f, D \ {n + 1})
  BY <1>4, SumRemove
<1>7. SumOver(f, DOMAIN c) = SumOver(g, DOMAIN c)
  BY <1>1, <1>5, SumSame
<1>8. Shares(c) \in Nat /\ e.power \in Nat
  BY SharesType DEF Choice
<1>9. Shares(d) = Shares(c) + e.power
  <2>1. Shares(d) = SumOver(f, D) /\ Shares(c) = SumOver(g, DOMAIN c)
    BY <1>1, <1>3 DEF D, f, g
  <2>2. SumOver(f, D) = e.power + SumOver(g, DOMAIN c)
    BY <1>4, <1>6, <1>7
  <2>3. QED
    BY <1>8, <2>1, <2>2
<1>10. QED
  BY <1>2, <1>9 DEF d

\* Options without votes are appended.
LEMMA SharesAdded ==
    ASSUME NEW c \in Seq(Choice), NEW o \in Seq(GaugeOptions)
    PROVE  /\ NoVotes(o) \in Seq(Choice) /\ Shares(NoVotes(o)) = 0
           /\ c \o NoVotes(o) \in Seq(Choice) /\ Shares(c \o NoVotes(o)) = Shares(c)
<1> DEFINE z == NoVotes(o)
           d == c \o z
           n == Len(c)
<1>1. Len(o) \in Nat /\ DOMAIN o = 1 .. Len(o) /\ \A i \in 1 .. Len(o) : o[i] \in GaugeOptions
  BY LenProperties, ElementOfSeq
<1>2. z \in [1 .. Len(o) -> Choice] /\ \A i \in DOMAIN z : z[i].power = 0
  BY <1>1 DEF NoVotes, Choice
<1>3. z \in Seq(Choice)
  BY <1>1, <1>2, SeqDef
<1> HIDE DEF z
<1>4. Shares(z) = 0
  BY <1>2, <1>3, NoShares
<1>5. /\ n \in Nat /\ DOMAIN c = 1 .. n /\ IsFiniteSet(DOMAIN c)
      /\ \A i \in DOMAIN c : c[i].power \in Nat /\ PowersOf(c)[i] = c[i].power
      /\ Shares(c) = SumOver(PowersOf(c), DOMAIN c)
      /\ Len(z) \in Nat /\ DOMAIN z = 1 .. Len(z)
  BY <1>3, ChoicesSeq
<1>6. /\ d \in Seq(Choice) /\ Len(d) = n + Len(z)
      /\ \A i \in 1 .. n + Len(z) : d[i] = IF i <= n THEN c[i] ELSE z[i - n]
  BY <1>3, ConcatProperties
<1> HIDE DEF d, n
<1>7. /\ DOMAIN d = 1 .. n + Len(z) /\ IsFiniteSet(DOMAIN d)
      /\ \A i \in DOMAIN d : d[i].power \in Nat /\ PowersOf(d)[i] = d[i].power
      /\ Shares(d) = SumOver(PowersOf(d), DOMAIN d)
  BY <1>6, ChoicesSeq
<1>8. DOMAIN c \in SUBSET (DOMAIN d)
  BY <1>5, <1>7
<1>9. ASSUME NEW i \in DOMAIN d PROVE i \notin DOMAIN c => d[i].power = 0
  <2> SUFFICES ASSUME i \notin DOMAIN c PROVE d[i].power = 0
    OBVIOUS
  <2>1. i \in 1 .. n + Len(z) /\ ~(i <= n) /\ i - n \in DOMAIN z
    BY <1>5, <1>7
  <2>2. d[i] = z[i - n]
    BY <1>6, <2>1
  <2>3. QED
    BY <1>2, <2>1, <2>2
<1> DEFINE D == DOMAIN d
           C == DOMAIN c
           f == PowersOf(d)
           g == PowersOf(c)
<1>10. IsFiniteSet(D) /\ C \in SUBSET D /\ \A i \in D : f[i] \in Int /\ (i \notin C => f[i] = 0)
  BY <1>7, <1>8, <1>9
<1>11. IsFiniteSet(C) /\ \A i \in C : f[i] = g[i]
  BY <1>5, <1>6, <1>7, <1>8
<1> HIDE DEF D, C, f, g
<1>12. SumOver(f, D) = SumOver(f, C)
  BY <1>10, SumZeros
<1>13. SumOver(f, C) = SumOver(g, C)
  BY <1>11, SumSame
<1>14. Shares(d) = Shares(c)
  BY <1>5, <1>7, <1>12, <1>13 DEF D, C, f, g
<1>15. QED
  BY <1>3, <1>4, <1>6, <1>14 DEF d, z
-----------------------------------------------------------------------------
(* Folds.  A vote is cast pool by pool and options are taken out one by one: both are folds over *)
(* a sequence, whose recursive function exists by induction over its length.                      *)

Casting(key, p) == [kind |-> "cast", key |-> key, power |-> p]
Removing(options) == [kind |-> "remove", options |-> options]

Step(x, acc, v) ==
    IF x.kind = "cast" THEN CastOne(x.key, x.power, acc, v)
    ELSE IF v.pool \in x.options THEN acc ELSE Append(acc, v)

\* g gives every set of positions of e the result of folding them.
IsFold(g, x, base, e, S) ==
    g = [s \in SUBSET S |-> IF s = {} THEN base ELSE Step(x, g[s \ {Max(s)}], e[Max(s)])]

LEMMA MaxOfInterval ==
    ASSUME NEW n \in Nat, NEW s \in SUBSET (1 .. n + 1), n + 1 \in s
    PROVE  Max(s) = n + 1
<1>1. \A y \in s : n + 1 >= y /\ y \in Int
  OBVIOUS
<1>2. \A x \in s : (\A y \in s : x >= y) => x = n + 1
  BY <1>1
<1> DEFINE m == CHOOSE x \in s : \A y \in s : x >= y
<1>3. m \in s /\ \A y \in s : m >= y
  BY <1>1
<1>4. m = n + 1
  BY <1>2, <1>3
<1>5. QED
  BY <1>4 DEF Max

LEMMA FoldExists ==
    ASSUME NEW n \in Nat, NEW x, NEW base, NEW e
    PROVE  \E g : IsFold(g, x, base, e, 1 .. n)
<1> DEFINE T == {k \in Nat : \E g : IsFold(g, x, base, e, 1 .. k)}
<1>1. 0 \in T
  <2> DEFINE g == [s \in SUBSET (1 .. 0) |-> base]
  <2>1. \A s \in SUBSET (1 .. 0) : s = {}
    OBVIOUS
  <2>2. IsFold(g, x, base, e, 1 .. 0)
    BY <2>1 DEF IsFold
  <2>3. QED
    BY <2>2
<1>2. ASSUME NEW k \in Nat, k \in T PROVE k + 1 \in T
  <2> DEFINE R == 1 .. k
             S == 1 .. k + 1
  <2>1. PICK g : IsFold(g, x, base, e, R)
    BY <1>2
  <2> DEFINE h == [s \in SUBSET S |-> IF k + 1 \in s THEN Step(x, g[s \ {k + 1}], e[k + 1]) ELSE g[s]]
  <2>2. \A s \in SUBSET S : (k + 1 \notin s => s \in SUBSET R) /\ s \ {k + 1} \in SUBSET R
    OBVIOUS
  <2>3. \A s \in SUBSET R : g[s] = IF s = {} THEN base ELSE Step(x, g[s \ {Max(s)}], e[Max(s)])
    BY <2>1 DEF IsFold
  <2>4. SUBSET R \subseteq SUBSET S /\ \A s \in SUBSET R : k + 1 \notin s
    OBVIOUS
  <2>5. \A s \in SUBSET R : h[s] = g[s]
    BY <2>4
  <2>6. ASSUME NEW s \in SUBSET S PROVE h[s] = IF s = {} THEN base ELSE Step(x, h[s \ {Max(s)}], e[Max(s)])
    <3>1. CASE k + 1 \in s
      <4>1. Max(s) = k + 1
        BY <3>1, MaxOfInterval
      <4>2. h[s \ {k + 1}] = g[s \ {k + 1}]
        BY <2>2, <2>5
      <4>3. h[s] = Step(x, g[s \ {k + 1}], e[k + 1])
        BY <3>1
      <4> HIDE DEF h
      <4>4. QED
        BY <3>1, <4>1, <4>2, <4>3
    <3>2. CASE k + 1 \notin s
      <4>1. s \in SUBSET R /\ h[s] = g[s] /\ s \ {Max(s)} \in SUBSET R
        BY <2>2, <2>5, <3>2
      <4>2. h[s \ {Max(s)}] = g[s \ {Max(s)}]
        BY <2>5, <4>1
      <4> HIDE DEF h
      <4>3. QED
        BY <2>3, <4>1, <4>2
    <3>3. QED
      BY <3>1, <3>2
  <2>7. DOMAIN h = SUBSET S
    OBVIOUS
  <2>8. h = [s \in SUBSET S |-> IF s = {} THEN base ELSE Step(x, h[s \ {Max(s)}], e[Max(s)])]
    <3>1. \A s \in SUBSET S : h[s] = IF s = {} THEN base ELSE Step(x, h[s \ {Max(s)}], e[Max(s)])
      BY <2>6
    <3>2. h = [s \in SUBSET S |-> h[s]]
      OBVIOUS
    <3> HIDE DEF h
    <3>3. QED
      BY <3>1, <3>2
  <2> HIDE DEF h
  <2>9. IsFold(h, x, base, e, 1 .. k + 1)
    BY <2>8 DEF IsFold
  <2>10. QED
    BY <2>9
<1>3. Nat \subseteq T
  <2> HIDE DEF T
  <2>1. QED
    BY <1>1, <1>2, NumberInduction
<1>4. QED
  BY <1>3

\* The fold of the first positions, one after the other.
LEMMA FoldSteps ==
    ASSUME NEW n \in Nat, NEW x, NEW base, NEW e, NEW g, IsFold(g, x, base, e, 1 .. n)
    PROVE  g[1 .. 0] = base /\ \A k \in 0 .. n - 1 : g[1 .. k + 1] = Step(x, g[1 .. k], e[k + 1])
<1>1. \A s \in SUBSET (1 .. n) : g[s] = IF s = {} THEN base ELSE Step(x, g[s \ {Max(s)}], e[Max(s)])
  BY DEF IsFold
<1>2. g[1 .. 0] = base
  <2>1. 1 .. 0 = {} /\ {} \in SUBSET (1 .. n)
    OBVIOUS
  <2>2. QED
    BY <1>1, <2>1
<1>3. ASSUME NEW k \in 0 .. n - 1 PROVE g[1 .. k + 1] = Step(x, g[1 .. k], e[k + 1])
  <2> DEFINE s == 1 .. k + 1
  <2>1. s \in SUBSET (1 .. n) /\ s # {} /\ k + 1 \in s /\ k \in Nat /\ s \ {k + 1} = 1 .. k
    OBVIOUS
  <2>2. Max(s) = k + 1
    <3>1. s \in SUBSET (1 .. k + 1)
      OBVIOUS
    <3>2. QED
      BY <2>1, <3>1, MaxOfInterval
  <2> HIDE DEF s
  <2>3. g[s] = Step(x, g[s \ {Max(s)}], e[Max(s)])
    BY <1>1, <2>1
  <2>4. g[s] = Step(x, g[1 .. k], e[k + 1])
    BY <2>1, <2>2, <2>3
  <2>5. QED
    BY <2>4 DEF s
<1>4. QED
  BY <1>2, <1>3

LEMMA RemainingIsFold ==
    ASSUME NEW c \in Seq(Choice), NEW o
    PROVE  \E g : IsFold(g, Removing(o), <<>>, c, 1 .. Len(c)) /\ Remaining(c, o) = g[1 .. Len(c)]
<1> DEFINE P(g) == g = [s \in SUBSET (DOMAIN c) |->
                          IF s = {} THEN <<>>
                          ELSE IF c[Max(s)].pool \in o THEN g[s \ {Max(s)}] ELSE Append(g[s \ {Max(s)}], c[Max(s)])]
<1>1. Remaining(c, o) = (CHOOSE g : P(g))[DOMAIN c]
  BY DEF Remaining, FoldLeft, MapThenFoldSet
<1>2. DOMAIN c = 1 .. Len(c) /\ Len(c) \in Nat
  BY LenProperties
<1>3. \A acc, v : Step(Removing(o), acc, v) = IF v.pool \in o THEN acc ELSE Append(acc, v)
  BY DEF Step, Removing
<1>4. ASSUME NEW g PROVE IsFold(g, Removing(o), <<>>, c, DOMAIN c) <=> P(g)
  <2> DEFINE D == DOMAIN c
             F == [s \in SUBSET D |-> IF s = {} THEN <<>> ELSE Step(Removing(o), g[s \ {Max(s)}], c[Max(s)])]
             G == [s \in SUBSET D |->
                     IF s = {} THEN <<>>
                     ELSE IF c[Max(s)].pool \in o THEN g[s \ {Max(s)}] ELSE Append(g[s \ {Max(s)}], c[Max(s)])]
  <2>1. \A s \in SUBSET D : F[s] = G[s]
    BY <1>3
  <2>2. F = G
    BY <2>1
  <2>3. QED
    BY <2>2 DEF IsFold
<1>5. \E g : P(g)
  <2>1. PICK g : IsFold(g, Removing(o), <<>>, c, DOMAIN c)
    <3>1. \E g : IsFold(g, Removing(o), <<>>, c, 1 .. Len(c))
      BY <1>2, FoldExists
    <3>2. QED
      BY <1>2, <3>1
  <2>2. P(g)
    BY <1>4, <2>1
  <2> HIDE DEF P
  <2>3. QED
    BY <2>2
<1> HIDE DEF P
<1>6. P(CHOOSE g : P(g))
  BY <1>5
<1>7. QED
  BY <1>1, <1>2, <1>4, <1>6

\* Taking options out leaves no more votes.
LEMMA SharesRemaining ==
    ASSUME NEW c \in Seq(Choice), NEW o
    PROVE  Remaining(c, o) \in Seq(Choice) /\ Shares(Remaining(c, o)) <= Shares(c)
<1> DEFINE n == Len(c)
           f == PowersOf(c)
<1>1. /\ n \in Nat /\ DOMAIN c = 1 .. n
      /\ \A i \in 1 .. n : c[i] \in Choice /\ f[i] \in Nat /\ f[i] = c[i].power
      /\ Shares(c) = SumOver(f, 1 .. n)
  BY ChoicesSeq
<1>2. PICK g : IsFold(g, Removing(o), <<>>, c, 1 .. n) /\ Remaining(c, o) = g[1 .. n]
  BY RemainingIsFold
<1>3. g[1 .. 0] = <<>> /\ \A k \in 0 .. n - 1 : g[1 .. k + 1] = Step(Removing(o), g[1 .. k], c[k + 1])
  BY <1>1, <1>2, FoldSteps
<1> DEFINE T == {k \in Nat : k <= n => g[1 .. k] \in Seq(Choice) /\ Shares(g[1 .. k]) <= SumOver(f, 1 .. k)}
<1> HIDE DEF n, f
<1>4. 0 \in T
  <2>1. <<>> \in Seq(Choice) /\ DOMAIN <<>> = {}
    OBVIOUS
  <2>2. Shares(<<>>) = 0
    BY <2>1, NoShares
  <2>3. SumOver(f, 1 .. 0) = 0
    <3>1. 1 .. 0 = {}
      OBVIOUS
    <3>2. QED
      BY <3>1, SumEmpty
  <2>4. g[1 .. 0] \in Seq(Choice) /\ Shares(g[1 .. 0]) = 0
    BY <1>3, <2>1, <2>2
  <2>5. g[1 .. 0] \in Seq(Choice) /\ Shares(g[1 .. 0]) <= SumOver(f, 1 .. 0)
    BY <2>3, <2>4
  <2>6. QED
    BY <2>5
<1>5. ASSUME NEW k \in Nat, k \in T PROVE k + 1 \in T
  <2> SUFFICES ASSUME k + 1 <= n
               PROVE  g[1 .. k + 1] \in Seq(Choice) /\ Shares(g[1 .. k + 1]) <= SumOver(f, 1 .. k + 1)
    OBVIOUS
  <2>1. PICK kept : kept = g[1 .. k]
    OBVIOUS
  <2>2. kept \in Seq(Choice) /\ Shares(kept) <= SumOver(f, 1 .. k)
    <3>1. k <= n
      BY <1>1
    <3>2. QED
      BY <1>5, <2>1, <3>1
  <2>3. c[k + 1] \in Choice /\ f[k + 1] = c[k + 1].power /\ f[k + 1] \in Nat
    BY <1>1
  <2>4. g[1 .. k + 1] = IF c[k + 1].pool \in o THEN kept ELSE Append(kept, c[k + 1])
    <3>1. k \in 0 .. n - 1
      BY <1>1
    <3>2. g[1 .. k + 1] = Step(Removing(o), kept, c[k + 1])
      BY <1>3, <2>1, <3>1
    <3>3. QED
      BY <3>2 DEF Step, Removing
  <2>5. SumOver(f, 1 .. k + 1) = f[k + 1] + SumOver(f, 1 .. k) /\ SumOver(f, 1 .. k) \in Int
    <3> DEFINE S == 1 .. k + 1
    <3>1. IsFiniteSet(S) /\ IsFiniteSet(1 .. k)
      BY FS_Interval
    <3>2. k + 1 \in S /\ S \ {k + 1} = 1 .. k /\ (\A i \in S : f[i] \in Int) /\ (\A i \in 1 .. k : f[i] \in Int)
      BY <1>1
    <3> HIDE DEF S
    <3>3. SumOver(f, S) = f[k + 1] + SumOver(f, S \ {k + 1}) /\ SumOver(f, 1 .. k) \in Int
      BY <3>1, <3>2, SumRemove, SumType
    <3>4. QED
      BY <3>2, <3>3 DEF S
  <2>6. Shares(kept) \in Nat
    BY <2>2, SharesType
  <2>7. CASE c[k + 1].pool \in o
    BY <2>2, <2>3, <2>4, <2>5, <2>6, <2>7
  <2>8. CASE c[k + 1].pool \notin o
    <3>1. Append(kept, c[k + 1]) \in Seq(Choice) /\ Shares(Append(kept, c[k + 1])) = Shares(kept) + c[k + 1].power
      BY <2>2, <2>3, SharesAppend
    <3>2. QED
      BY <2>2, <2>3, <2>4, <2>5, <2>6, <2>8, <3>1
  <2>9. QED
    BY <2>7, <2>8
<1>6. Nat \subseteq T
  <2> HIDE DEF T
  <2>1. QED
    BY <1>4, <1>5, NumberInduction
<1>7. g[1 .. n] \in Seq(Choice) /\ Shares(g[1 .. n]) <= SumOver(f, 1 .. n)
  BY <1>1, <1>6
<1>8. QED
  BY <1>1, <1>2, <1>7

-----------------------------------------------------------------------------
(* Votes *)

\* The part of p that a vote gives to a pool.
LEMMA ShareOfPower ==
    ASSUME NEW p \in Nat, NEW q \in Nat
    PROVE  (p * q) \div 100 \in Nat /\ 100 * ((p * q) \div 100) <= p * q /\ p * q \in Nat
<1>1. p * q \in Nat
  OBVIOUS
<1>2. PICK a \in Nat : a = p * q
  BY <1>1
<1>3. a \div 100 \in Nat /\ 100 * (a \div 100) <= a
  OBVIOUS
<1>4. QED
  BY <1>2, <1>3

\* A tally that has not panicked is sound: apart from what was given, the shares are in the total.
Sound(acc, given) ==
    acc.ok => /\ acc.choices \in Seq(Choice) /\ acc.total \in Nat
              /\ AreBallots(acc.ballots)
              /\ Shares(acc.choices) <= acc.total + given

LEMMA SavedBallots ==
    ASSUME NEW map, AreBallots(map), NEW key, NEW x \in Nat, NEW t
    PROVE  AreBallots(Saved(map, key, [power |-> x, time |-> t]))
BY DEF Saved, AreBallots

LEMMA CastOneSound ==
    ASSUME NEW key, NEW p \in Nat, NEW acc, NEW v, v.percentage \in Nat, NEW given \in Int, Sound(acc, given)
    PROVE  Sound(CastOne(key, p, acc, v), given + ((p * v.percentage) \div 100))
<1> DEFINE at == {i \in DOMAIN acc.choices : acc.choices[i].pool = v.pool}
           ballot == Append(key, v.pool)
           old == IF ballot \in DOMAIN acc.ballots THEN acc.ballots[ballot].power ELSE 0
           new == (p * v.percentage) \div 100
           m == Min(at)
           fails == ~acc.ok \/ at = {} \/ acc.choices[m].power < old \/ acc.total < old
           choices == [acc.choices EXCEPT ![m] = WithPower(@, @.power - old + new)]
           done == [ok |-> TRUE, total |-> acc.total - old, choices |-> choices,
                    ballots |-> Saved(acc.ballots, ballot, [power |-> new, time |-> now])]
<1>1. CastOne(key, p, acc, v) = IF fails THEN [acc EXCEPT !.ok = FALSE] ELSE done
  BY DEF CastOne
<1>2. new \in Nat
  BY ShareOfPower
<1>3. CASE fails
  <2>1. ~CastOne(key, p, acc, v).ok
    BY <1>1, <1>3
  <2>2. QED
    BY <2>1 DEF Sound
<1>4. CASE ~fails
  <2>1. /\ acc.choices \in Seq(Choice) /\ acc.total \in Nat
        /\ AreBallots(acc.ballots)
        /\ Shares(acc.choices) <= acc.total + given
    BY <1>4 DEF Sound
  <2>2. old \in Nat
    BY <2>1 DEF AreBallots
  <2>3. at \in SUBSET Nat /\ at \in SUBSET (DOMAIN acc.choices) /\ at # {}
    BY <1>4, <2>1, LenProperties
  <2>4. m \in at
    <3> HIDE DEF at
    <3>1. QED
      BY <2>3, MinInSet
  <2>5. m \in DOMAIN acc.choices
    BY <2>3, <2>4
  <2>6. acc.choices[m].power \in Nat
    BY <2>1, <2>5, ChoicesSeq
  <2>7. old <= acc.choices[m].power /\ old <= acc.total
    BY <1>4, <2>1, <2>2, <2>6
  <2>8. CastOne(key, p, acc, v) = done
    BY <1>1, <1>4
  <2> HIDE DEF at, m, old, new, fails, ballot
  <2>9. PICK x \in Nat : x = acc.choices[m].power - old + new
    BY <1>2, <2>2, <2>6, <2>7
  <2>10. choices = [acc.choices EXCEPT ![m] = WithPower(acc.choices[m], x)]
    BY <2>9
  <2>11. choices \in Seq(Choice) /\ Shares(choices) = Shares(acc.choices) + x - acc.choices[m].power
    BY <2>1, <2>5, <2>10, SharesChange
  <2>12. Shares(choices) <= (acc.total - old) + (given + new)
    <3>1. Shares(acc.choices) \in Nat
      BY <2>1, SharesType
    <3>2. PICK a \in Nat, b \in Nat, t \in Nat : a = Shares(acc.choices) /\ b = acc.choices[m].power /\ t = acc.total
      BY <2>1, <2>6, <3>1
    <3> HIDE DEF choices
    <3>3. Shares(choices) = a + x - b /\ a <= t + given
      BY <2>1, <2>11, <3>2
    <3>4. x = b - old + new
      BY <2>9, <3>2
    <3>5. a + x - b <= (t - old) + (given + new)
      BY <1>2, <2>2, <3>3, <3>4
    <3>6. QED
      BY <3>2, <3>3, <3>5
  <2>13. AreBallots(done.ballots)
    <3>1. AreBallots(Saved(acc.ballots, ballot, [power |-> new, time |-> now]))
      BY <1>2, <2>1, SavedBallots
    <3>2. QED
      BY <3>1
  <2>14. done.choices = choices /\ done.total = acc.total - old /\ acc.total - old \in Nat
    BY <2>1, <2>2, <2>7
  <2> HIDE DEF choices, done
  <2>15. Sound(done, given + new)
    BY <2>11, <2>12, <2>13, <2>14 DEF Sound
  <2>16. QED
    BY <2>8, <2>15 DEF new
<1>5. QED
  BY <1>3, <1>4

Start(prop) == [ok |-> TRUE, choices |-> prop.choices, total |-> prop.total_power, ballots |-> ballots]

LEMMA VoteListSeq ==
    ASSUME NEW votes \in VoteLists
    PROVE  /\ Len(votes) \in Nat /\ DOMAIN votes = 1 .. Len(votes) /\ IsFiniteSet(1 .. Len(votes))
           /\ \A i \in 1 .. Len(votes) : votes[i].percentage \in Nat
<1>1. votes \in Seq(ToSet(votes))
  BY MessagesAssumption
<1>2. Len(votes) \in Nat /\ DOMAIN votes = 1 .. Len(votes)
  BY <1>1, LenProperties
<1>3. QED
  BY <1>2, FS_Interval, MessagesAssumption

LEMMA CastAllIsFold ==
    ASSUME NEW u, NEW id, NEW ver, NEW prop, NEW votes \in VoteLists
    PROVE  \E g : /\ IsFold(g, Casting(<<id, ver, u>>, power[u]), Start(prop), votes, 1 .. Len(votes))
                  /\ CastAll(u, id, ver, prop, votes) = g[1 .. Len(votes)]
<1> DEFINE key == <<id, ver, u>>
           x == Casting(key, power[u])
           D == DOMAIN votes
           P(g) == g = [s \in SUBSET D |->
                          IF s = {} THEN Start(prop)
                          ELSE CastOne(key, power[u], g[s \ {Max(s)}], votes[Max(s)])]
<1>1. CastAll(u, id, ver, prop, votes) = (CHOOSE g : P(g))[D]
  BY DEF CastAll, FoldLeft, MapThenFoldSet, Start
<1>2. D = 1 .. Len(votes) /\ Len(votes) \in Nat
  BY VoteListSeq
<1>3. \A acc, v : Step(x, acc, v) = CastOne(key, power[u], acc, v)
  BY DEF Step, Casting
<1>4. ASSUME NEW g PROVE IsFold(g, x, Start(prop), votes, D) <=> P(g)
  <2> DEFINE F == [s \in SUBSET D |-> IF s = {} THEN Start(prop) ELSE Step(x, g[s \ {Max(s)}], votes[Max(s)])]
             G == [s \in SUBSET D |->
                     IF s = {} THEN Start(prop)
                     ELSE CastOne(key, power[u], g[s \ {Max(s)}], votes[Max(s)])]
  <2> HIDE DEF x
  <2>1. \A s \in SUBSET D : F[s] = G[s]
    BY <1>3
  <2>2. F = G
    BY <2>1
  <2>3. QED
    BY <2>2 DEF IsFold
<1>5. \E g : P(g)
  <2>1. PICK g : IsFold(g, x, Start(prop), votes, D)
    <3>1. \E g : IsFold(g, x, Start(prop), votes, 1 .. Len(votes))
      BY <1>2, FoldExists
    <3>2. QED
      BY <1>2, <3>1
  <2>2. P(g)
    BY <1>4, <2>1
  <2> HIDE DEF P
  <2>3. QED
    BY <2>2
<1> HIDE DEF P
<1>6. P(CHOOSE g : P(g))
  BY <1>5
<1>7. QED
  BY <1>1, <1>2, <1>4, <1>6

\* What a vote gives to its pools, with percentages of at most 100 together, is at most the power of the voter.
LEMMA GivenWithinPower ==
    ASSUME NEW votes \in VoteLists, SumOf(votes) <= 100, NEW p \in Nat
    PROVE  SumOver([i \in 1 .. Len(votes) |-> (p * votes[i].percentage) \div 100], 1 .. Len(votes)) <= p
<1> DEFINE I == 1 .. Len(votes)
           q == [i \in I |-> votes[i].percentage]
           given == [i \in I |-> (p * votes[i].percentage) \div 100]
           zero == [i \in I |-> 0]
           hundred == [i \in I |-> 0 + 100 * given[i]]
           whole == [i \in I |-> 0 + p * q[i]]
<1>1. DOMAIN votes = I /\ IsFiniteSet(I) /\ \A i \in I : votes[i].percentage \in Nat
  BY VoteListSeq
<1>2. SumOf(votes) = SumOver(q, I)
  BY <1>1 DEF SumOf
<1>3. ASSUME NEW i \in I
      PROVE  /\ q[i] \in Nat /\ given[i] \in Nat /\ zero[i] = 0
             /\ hundred[i] = 0 + 100 * given[i] /\ whole[i] = 0 + p * q[i]
             /\ hundred[i] \in Int /\ whole[i] \in Int /\ hundred[i] <= whole[i]
  <2>1. votes[i].percentage \in Nat
    BY <1>1
  <2>2. /\ (p * votes[i].percentage) \div 100 \in Nat /\ p * votes[i].percentage \in Nat
        /\ 100 * ((p * votes[i].percentage) \div 100) <= p * votes[i].percentage
    BY <2>1, ShareOfPower
  <2>3. QED
    BY <2>1, <2>2
<1> HIDE DEF I, q, given, zero, hundred, whole
<1>4. /\ \A i \in I : zero[i] \in Int /\ given[i] \in Int /\ hundred[i] = zero[i] + 100 * given[i]
      /\ \A i \in I : zero[i] \in Int /\ q[i] \in Int /\ whole[i] = zero[i] + p * q[i]
      /\ \A i \in I : zero[i] = 0
      /\ \A i \in I : hundred[i] \in Int /\ whole[i] \in Int /\ hundred[i] <= whole[i]
  BY <1>3
<1>5. SumOver(hundred, I) = SumOver(zero, I) + 100 * SumOver(given, I)
  BY <1>1, <1>4, SumLinear
<1>6. SumOver(whole, I) = SumOver(zero, I) + p * SumOver(q, I)
  BY <1>1, <1>4, SumLinear
<1>7. SumOver(hundred, I) <= SumOver(whole, I)
  BY <1>1, <1>4, SumMonotonic
<1>8. SumOver(zero, I) = 0
  BY <1>1, <1>4, SumZero
<1>9. SumOver(given, I) \in Nat /\ SumOver(q, I) \in Nat
  BY <1>1, <1>3, SumNat
<1>10. PICK a \in Nat, b \in Nat : a = SumOver(given, I) /\ b = SumOver(q, I)
  BY <1>9
<1>11. 100 * a <= p * b /\ b <= 100
  BY <1>2, <1>5, <1>6, <1>7, <1>8, <1>10
<1>12. p * b <= p * 100
  BY <1>11
<1>13. a <= p
  BY <1>11, <1>12
<1>14. QED
  BY <1>10, <1>13 DEF given, I

\* A vote that does not panic leaves the shares within the total and the power of the voter.
LEMMA CastAllSound ==
    ASSUME NEW u, power[u] \in Nat, AreBallots(ballots), NEW id, NEW ver, NEW prop \in Row,
           Shares(prop.choices) <= prop.total_power, NEW votes \in VoteLists, SumOf(votes) <= 100
    PROVE  Sound(CastAll(u, id, ver, prop, votes), power[u])
<1> DEFINE n == Len(votes)
           x == Casting(<<id, ver, u>>, power[u])
           given == [i \in 1 .. n |-> (power[u] * votes[i].percentage) \div 100]
<1>1. n \in Nat /\ IsFiniteSet(1 .. n) /\ \A i \in 1 .. n : votes[i].percentage \in Nat
  BY VoteListSeq
<1>2. PICK g : IsFold(g, x, Start(prop), votes, 1 .. n) /\ CastAll(u, id, ver, prop, votes) = g[1 .. n]
  BY CastAllIsFold
<1>3. g[1 .. 0] = Start(prop) /\ \A k \in 0 .. n - 1 : g[1 .. k + 1] = Step(x, g[1 .. k], votes[k + 1])
  <2> HIDE DEF x
  <2>1. QED
    BY <1>1, <1>2, FoldSteps
<1>4. \A i \in 1 .. n : given[i] \in Nat /\ given[i] = (power[u] * votes[i].percentage) \div 100
  BY <1>1, ShareOfPower
<1>5. SumOver(given, 1 .. n) <= power[u]
  BY GivenWithinPower
<1> HIDE DEF given, n
<1> DEFINE T == {k \in Nat : k <= n => Sound(g[1 .. k], SumOver(given, 1 .. k))}
<1>6. 0 \in T
  <2>1. SumOver(given, 1 .. 0) = 0
    <3>1. 1 .. 0 = {}
      OBVIOUS
    <3>2. QED
      BY <3>1, SumEmpty
  <2>2. prop.choices \in Seq(Choice) /\ prop.total_power \in Nat
    BY DEF Row
  <2>3. Shares(prop.choices) \in Nat
    BY <2>2, SharesType
  <2>4. Shares(prop.choices) <= prop.total_power + 0
    BY <2>2, <2>3
  <2>5. Sound(Start(prop), 0)
    BY <2>2, <2>4 DEF Sound, Start
  <2>6. Sound(g[1 .. 0], SumOver(given, 1 .. 0))
    BY <1>3, <2>1, <2>5
  <2>7. QED
    BY <2>6
<1>7. ASSUME NEW k \in Nat, k \in T PROVE k + 1 \in T
  <2> SUFFICES ASSUME k + 1 <= n PROVE Sound(g[1 .. k + 1], SumOver(given, 1 .. k + 1))
    OBVIOUS
  <2>1. k \in 0 .. n - 1 /\ k <= n /\ k + 1 \in 1 .. n
    BY <1>1
  <2>2. Sound(g[1 .. k], SumOver(given, 1 .. k))
    BY <1>7, <2>1
  <2>3. g[1 .. k + 1] = CastOne(<<id, ver, u>>, power[u], g[1 .. k], votes[k + 1])
    <3>1. g[1 .. k + 1] = Step(x, g[1 .. k], votes[k + 1])
      BY <1>3, <2>1
    <3>2. QED
      BY <3>1 DEF Step, Casting
  <2>4. SumOver(given, 1 .. k + 1) = given[k + 1] + SumOver(given, 1 .. k) /\ SumOver(given, 1 .. k) \in Int
    <3> DEFINE S == 1 .. k + 1
    <3>1. IsFiniteSet(S) /\ IsFiniteSet(1 .. k)
      BY FS_Interval
    <3>2. /\ k + 1 \in S /\ S \ {k + 1} = 1 .. k
          /\ (\A i \in S : given[i] \in Int) /\ (\A i \in 1 .. k : given[i] \in Int)
      BY <1>1, <1>4
    <3> HIDE DEF S
    <3>3. SumOver(given, S) = given[k + 1] + SumOver(given, S \ {k + 1}) /\ SumOver(given, 1 .. k) \in Int
      BY <3>1, <3>2, SumRemove, SumType
    <3>4. QED
      BY <3>2, <3>3 DEF S
  <2>5. PICK acc, v, key : acc = g[1 .. k] /\ v = votes[k + 1] /\ key = <<id, ver, u>>
    OBVIOUS
  <2>6. PICK c \in Int, p \in Nat : c = SumOver(given, 1 .. k) /\ p = power[u]
    BY <2>4
  <2>7. v.percentage \in Nat
    BY <1>1, <2>1, <2>5
  <2>8. Sound(CastOne(key, p, acc, v), c + ((p * v.percentage) \div 100))
    BY <2>2, <2>5, <2>6, <2>7, CastOneSound
  <2>9. c + ((p * v.percentage) \div 100) = SumOver(given, 1 .. k + 1)
    BY <1>4, <2>1, <2>4, <2>5, <2>6
  <2>10. QED
    BY <2>3, <2>5, <2>6, <2>8, <2>9
<1>8. Nat \subseteq T
  <2> HIDE DEF T
  <2>1. QED
    BY <1>6, <1>7, NumberInduction
<1>9. Sound(g[1 .. n], SumOver(given, 1 .. n))
  BY <1>1, <1>8
<1>10. PICK acc : acc = g[1 .. n]
  OBVIOUS
<1>11. PICK c \in Int : c = SumOver(given, 1 .. n) /\ c <= power[u]
  <2>1. SumOver(given, 1 .. n) \in Nat
    BY <1>1, <1>4, SumNat
  <2>2. QED
    BY <1>5, <2>1
<1>12. ASSUME acc.ok PROVE Shares(acc.choices) <= acc.total + power[u]
  <2>1. acc.choices \in Seq(Choice) /\ acc.total \in Nat /\ Shares(acc.choices) <= acc.total + c
    BY <1>9, <1>10, <1>11, <1>12 DEF Sound
  <2>2. Shares(acc.choices) \in Nat
    BY <2>1, SharesType
  <2>3. QED
    BY <1>11, <2>1, <2>2
<1>13. Sound(acc, power[u])
  BY <1>9, <1>10, <1>12 DEF Sound
<1>14. QED
  BY <1>2, <1>10, <1>13

-----------------------------------------------------------------------------
(* Rows *)

LEMMA RowFields ==
    ASSUME RowInv, NEW id \in DOMAIN proposals
    PROVE  /\ proposals[id] \in Row /\ version[id] \in 1 .. MaxVersion /\ version[id] \in Nat
           /\ id \in 1 .. Len(proposals) /\ id \in 1 .. Len(version) /\ id \in DOMAIN version
<1>1. Len(proposals) \in Nat /\ DOMAIN proposals = 1 .. Len(proposals)
  BY LenProperties DEF RowInv
<1>2. DOMAIN version = 1 .. Len(version) /\ Len(version) = Len(proposals)
  BY LenProperties DEF RowInv
<1>3. proposals[id] \in Row
  BY <1>1, ElementOfSeq DEF RowInv
<1>4. version[id] \in 1 .. MaxVersion
  BY <1>1, <1>2, ElementOfSeq DEF RowInv
<1>5. version[id] \in Nat
  BY <1>4, MessagesAssumption
<1>6. QED
  BY <1>1, <1>2, <1>3, <1>4, <1>5

LEMMA RowsDomain ==
    ASSUME RowInv
    PROVE  DOMAIN version = DOMAIN proposals /\ DOMAIN proposals = 1 .. Len(proposals) /\ Len(proposals) \in Nat
BY LenProperties DEF RowInv

\* The shares of a row are within its total.
Within(p) == p \in Row /\ Shares(p.choices) <= p.total_power

LEMMA RowsWithin == RowInv /\ SharesWithinTotal => \A id \in DOMAIN proposals : Within(proposals[id])
BY RowFields DEF SharesWithinTotal, Within

LEMMA RowWithStatus ==
    ASSUME NEW p, Within(p), NEW s \in Status \ {"TimeOut"}
    PROVE  LET q == WithStatus(p, s) IN
           Within(q) /\ q.status = s /\ q.expiration = p.expiration /\ q.pending_period = p.pending_period
<1> DEFINE q == WithStatus(p, s)
<1>1. q = [p EXCEPT !.status = s] /\ p \in Row /\ Shares(p.choices) <= p.total_power
  BY DEF WithStatus, Within
<1>2. q \in Row /\ q.choices = p.choices /\ q.total_power = p.total_power
  BY <1>1 DEF Row
<1>3. q.status = s /\ q.expiration = p.expiration /\ q.pending_period = p.pending_period
  BY <1>1 DEF Row
<1>4. Within(q)
  BY <1>1, <1>2 DEF Within
<1>5. QED
  BY <1>3, <1>4

LEMMA RowWithChoices ==
    ASSUME NEW p, Within(p), NEW c \in Seq(Choice), Shares(c) <= Shares(p.choices)
    PROVE  LET q == WithChoices(p, c) IN Within(q) /\ q.status = p.status /\ q.expiration = p.expiration
<1> DEFINE q == WithChoices(p, c)
<1>1. q = [p EXCEPT !.choices = c] /\ p \in Row /\ Shares(p.choices) <= p.total_power
  BY DEF WithChoices, Within
<1>2. q \in Row /\ q.choices = c /\ q.total_power = p.total_power /\ q.status = p.status /\ q.expiration = p.expiration
  BY <1>1 DEF Row
<1>3. p.choices \in Seq(Choice) /\ p.total_power \in Nat
  BY <1>1 DEF Row
<1>4. Shares(c) \in Nat /\ Shares(p.choices) \in Nat
  BY <1>3, SharesType
<1>5. Shares(q.choices) <= q.total_power
  <2>1. Shares(c) <= p.total_power
    BY <1>1, <1>3, <1>4
  <2>2. QED
    BY <1>2, <2>1
<1>6. QED
  BY <1>2, <1>5 DEF Within

\* A new round starts without votes.
LEMMA RowReset ==
    ASSUME ClockInv, NEW p \in Row
    PROVE  LET q == Reset(p) IN Within(q) /\ q.status = "Open" /\ q.expiration = gauge.expiration
<1> DEFINE c == [i \in DOMAIN p.choices |-> WithPower(p.choices[i], 0)]
           q == Reset(p)
<1>1. q = [p EXCEPT !.status = "Open", !.voting_start_time = gauge.voting_start_time, !.expiration = gauge.expiration,
                    !.total_power = 0, !.choices = c]
  BY DEF Reset
<1>2. gauge.voting_start_time \in Nat /\ gauge.expiration \in Nat /\ "Open" \in Status \ {"TimeOut"}
  BY DEF ClockInv, Status
<1>3. c \in Seq(Choice) /\ \A i \in DOMAIN c : c[i].power = 0
  <2>1. p.choices \in Seq(Choice)
    BY DEF Row
  <2>2. Len(p.choices) \in Nat /\ DOMAIN p.choices = 1 .. Len(p.choices) /\ \A i \in DOMAIN p.choices : p.choices[i] \in Choice
    BY <2>1, ChoicesSeq
  <2>3. c \in [1 .. Len(p.choices) -> Choice] /\ \A i \in DOMAIN c : c[i].power = 0
    BY <2>2 DEF WithPower, Choice
  <2>4. QED
    BY <2>2, <2>3, SeqDef
<1>4. Shares(c) = 0
  BY <1>3, NoShares
<1> HIDE DEF c
<1>5. q = [proposer |-> p.proposer, expiration |-> gauge.expiration, total_power |-> 0, status |-> "Open",
           voting_start_time |-> gauge.voting_start_time, choices |-> c, pending_period |-> p.pending_period]
  BY <1>1 DEF Row
<1>6. p.proposer \in Users /\ p.pending_period \in Nat
  BY DEF Row
<1> HIDE DEF q
<1>7. q \in Row
  BY <1>2, <1>3, <1>5, <1>6 DEF Row
<1>8. q.choices = c /\ q.total_power = 0 /\ q.status = "Open" /\ q.expiration = gauge.expiration
  BY <1>5
<1>9. QED
  BY <1>4, <1>7, <1>8 DEF Within, q

\* A row is replaced.
LEMMA ReplacedRow ==
    ASSUME RowInv, SharesWithinTotal, NEW id \in DOMAIN proposals, NEW q, Within(q),
           proposals' = [proposals EXCEPT ![id] = q],
           version' \in Seq(1 .. MaxVersion), Len(version') = Len(version), AreBallots(ballots')
    PROVE  /\ RowInv' /\ SharesWithinTotal' /\ DOMAIN proposals' = DOMAIN proposals
           /\ proposals'[id] = q /\ \A i \in DOMAIN proposals : i # id => proposals'[i] = proposals[i]
<1>1. id \in 1 .. Len(proposals) /\ DOMAIN proposals = 1 .. Len(proposals)
  BY RowFields, RowsDomain
<1>2. q \in Row
  BY DEF Within
<1>3. proposals' \in Seq(Row) /\ Len(proposals') = Len(proposals)
  BY <1>1, <1>2, ExceptSeq DEF RowInv
<1>4. \A i \in DOMAIN proposals : proposals'[i] = IF i = id THEN q ELSE proposals[i]
  BY <1>1
<1>5. DOMAIN proposals' = DOMAIN proposals
  OBVIOUS
<1>6. RowInv'
  BY <1>3 DEF RowInv, AreBallots
<1>7. \A i \in DOMAIN proposals : Shares(proposals'[i].choices) <= proposals'[i].total_power
  BY <1>4 DEF SharesWithinTotal, Within
<1>8. SharesWithinTotal'
  BY <1>5, <1>7 DEF SharesWithinTotal, Shares
<1>9. QED
  BY <1>4, <1>5, <1>6, <1>8

-----------------------------------------------------------------------------
(* The history *)

\* q continues the round of p: an outcome stays, up to closing.
Continues(p, q) ==
    q.expiration = p.expiration /\ (p.status \in {"Executed", "Rejected", "Closed"} => q.status \in {p.status, "Closed"})

\* Nothing is recorded.
LEMMA HistoryRests ==
    ASSUME HistoryInv, history' = history,
           \A id \in DOMAIN proposals : id \in DOMAIN proposals' /\ version'[id] = version[id]
                                        /\ Continues(proposals[id], proposals'[id])
    PROVE  HistoryInv'
<1>1. ASSUME NEW k \in DOMAIN history
      PROVE  k \in (DOMAIN proposals') \X Nat /\ Recorded(k, history[k], version'[k[1]], proposals'[k[1]])
  <2>1. k \in (DOMAIN proposals) \X Nat /\ Recorded(k, history[k], version[k[1]], proposals[k[1]])
    BY DEF HistoryInv
  <2>2. PICK i \in DOMAIN proposals : i = k[1]
    BY <2>1
  <2>3. i \in DOMAIN proposals' /\ version'[i] = version[i] /\ Continues(proposals[i], proposals'[i])
    OBVIOUS
  <2>4. k \in (DOMAIN proposals') \X Nat
    BY <2>1, <2>2, <2>3
  <2>5. PICK p, q, rec, ver : p = proposals[i] /\ q = proposals'[i] /\ rec = history[k] /\ ver = version[i]
    OBVIOUS
  <2>6. Recorded(k, rec, ver, p) /\ Continues(p, q)
    BY <2>1, <2>2, <2>3, <2>5
  <2>7. Recorded(k, rec, ver, q)
    BY <2>6 DEF Recorded, Continues
  <2>8. QED
    BY <2>2, <2>3, <2>4, <2>5, <2>7
<1>2. OneExecutionPerRound'
  BY DEF HistoryInv, OneExecutionPerRound
<1>3. QED
  BY <1>1, <1>2 DEF HistoryInv, Recorded

\* A round that timed out is recorded under the next version.
LEMMA HistoryTimesOut ==
    ASSUME RowInv, HistoryInv, NEW id \in DOMAIN proposals, NEW rec, rec.status = "TimeOut",
           history' = Saved(history, <<id, version[id] + 1>>, rec),
           version' = [version EXCEPT ![id] = version[id] + 1],
           DOMAIN proposals' = DOMAIN proposals,
           \A i \in DOMAIN proposals : i # id => proposals'[i] = proposals[i],
           proposals'[id] = proposals[id] \/ proposals[id].expiration < proposals'[id].expiration,
           proposals'[id] \in Row
    PROVE  HistoryInv' /\ \A k \in DOMAIN history : k \in DOMAIN history' /\ history'[k] = history[k]
<1> DEFINE new == <<id, version[id] + 1>>
<1>1. version[id] \in Nat /\ proposals[id] \in Row /\ id \in DOMAIN version
  BY RowFields
<1>2. ASSUME NEW k \in DOMAIN history
      PROVE  k \in (DOMAIN proposals) \X Nat /\ Recorded(k, history[k], version[k[1]], proposals[k[1]])
  BY DEF HistoryInv
<1>3. new \notin DOMAIN history
  BY <1>1, <1>2 DEF Recorded
<1>4. /\ DOMAIN history' = DOMAIN history \cup {new} /\ history'[new] = rec
      /\ \A k \in DOMAIN history : k \in DOMAIN history' /\ history'[k] = history[k]
  BY <1>3 DEF Saved
<1>5. version'[id] = version[id] + 1 /\ \A i \in DOMAIN proposals : i # id => version'[i] = version[i]
  BY <1>1
<1>6. ASSUME NEW k \in DOMAIN history
      PROVE  k \in (DOMAIN proposals') \X Nat /\ Recorded(k, history[k], version'[k[1]], proposals'[k[1]])
  <2>1. CASE k[1] # id
    BY <1>2, <1>5, <2>1
  <2>2. CASE k[1] = id
    <3>1. k \in (DOMAIN proposals) \X Nat /\ k[2] \in Nat /\ Recorded(k, history[k], version[id], proposals[id])
      BY <1>2, <2>2
    <3>2. PICK p, q, r : p = proposals[id] /\ q = proposals'[id] /\ r = history[k]
      OBVIOUS
    <3>3. PICK ver \in Nat : ver = version[id]
      BY <1>1
    <3>4. p.expiration \in Nat /\ q.expiration \in Nat /\ (q = p \/ p.expiration < q.expiration)
      BY <1>1, <3>2 DEF Row
    <3>5. Recorded(k, r, ver, p)
      BY <3>1, <3>2, <3>3
    <3>6. Recorded(k, r, ver + 1, q)
      BY <3>1, <3>4, <3>5 DEF Recorded
    <3>7. QED
      BY <1>5, <2>2, <3>1, <3>2, <3>3, <3>6
  <2>3. QED
    BY <2>1, <2>2
<1>7. new \in (DOMAIN proposals') \X Nat /\ Recorded(new, rec, version'[new[1]], proposals'[new[1]])
  BY <1>1, <1>5 DEF Recorded
<1>8. OneExecutionPerRound'
  <2>1. OneExecutionPerRound
    BY DEF HistoryInv
  <2>2. rec.status # "Executed"
    OBVIOUS
  <2> HIDE DEF new
  <2>3. QED
    BY <1>4, <2>1, <2>2 DEF OneExecutionPerRound
<1> HIDE DEF new
<1>9. QED
  BY <1>4, <1>6, <1>7, <1>8 DEF HistoryInv, Recorded

\* An outcome is recorded under the current version.
LEMMA HistoryEnds ==
    ASSUME RowInv, HistoryInv, NEW id \in DOMAIN proposals, NEW s \in {"Executed", "Rejected"},
           proposals[id].status \in {"Open", "VotingClosed"},
           NEW rec, rec.status = s, rec.expiration = proposals[id].expiration,
           history' = Saved(history, <<id, version[id]>>, rec), version' = version,
           DOMAIN proposals' = DOMAIN proposals,
           \A i \in DOMAIN proposals : i # id => proposals'[i] = proposals[i],
           proposals'[id].status = s, proposals'[id].expiration = proposals[id].expiration
    PROVE  /\ HistoryInv'
           /\ \A k \in DOMAIN history : /\ k \in DOMAIN history'
                                        /\ history[k].status \in {"Executed", "Rejected"} => history'[k] = history[k]
<1> DEFINE new == <<id, version[id]>>
<1>1. version[id] \in Nat /\ proposals[id] \in Row /\ proposals[id].expiration \in Nat
  BY RowFields DEF Row
<1>2. ASSUME NEW k \in DOMAIN history
      PROVE  k \in (DOMAIN proposals) \X Nat /\ Recorded(k, history[k], version[k[1]], proposals[k[1]])
  BY DEF HistoryInv
<1>3. new \in DOMAIN history => history[new].status \notin {"Executed", "Rejected"}
  <2> SUFFICES ASSUME new \in DOMAIN history PROVE history[new].status \notin {"Executed", "Rejected"}
    OBVIOUS
  <2>1. Recorded(new, history[new], version[id], proposals[id]) /\ new[2] = version[id]
    BY <1>2
  <2> HIDE DEF new
  <2>2. QED
    BY <2>1 DEF Recorded
<1>4. /\ DOMAIN history' = DOMAIN history \cup {new} /\ history'[new] = rec
      /\ \A k \in DOMAIN history : k \in DOMAIN history' /\ (k # new => history'[k] = history[k])
  BY DEF Saved
<1>5. ASSUME NEW k \in DOMAIN history, k[1] = id, history[k].status = "Executed"
      PROVE  history[k].expiration < proposals[id].expiration /\ history[k].expiration \in Nat
  BY <1>2, <1>5 DEF Recorded
<1>6. ASSUME NEW k \in DOMAIN history, k # new
      PROVE  k \in (DOMAIN proposals') \X Nat /\ Recorded(k, history[k], version'[k[1]], proposals'[k[1]])
  <2>1. CASE k[1] # id
    BY <1>2, <2>1
  <2>2. CASE k[1] = id
    <3>1. k \in (DOMAIN proposals) \X Nat /\ k[2] \in Nat /\ Recorded(k, history[k], version[id], proposals[id])
      BY <1>2, <2>2
    <3>2. PICK p, q, r : p = proposals[id] /\ q = proposals'[id] /\ r = history[k]
      OBVIOUS
    <3>3. k[2] # version[id]
      BY <1>6, <2>2, <3>1
    <3>4. Recorded(k, r, version[id], p) /\ q.expiration = p.expiration /\ p.status \in {"Open", "VotingClosed"}
      BY <3>1, <3>2
    <3>5. Recorded(k, r, version[id], q)
      BY <3>3, <3>4 DEF Recorded
    <3>6. QED
      BY <2>2, <3>1, <3>2, <3>5
  <2>3. QED
    BY <2>1, <2>2
<1>7. new \in (DOMAIN proposals') \X Nat /\ Recorded(new, rec, version'[new[1]], proposals'[new[1]])
  BY <1>1 DEF Recorded
<1>8. OneExecutionPerRound'
  <2>1. OneExecutionPerRound /\ new[1] = id
    BY DEF HistoryInv
  <2> HIDE DEF new
  <2> SUFFICES ASSUME NEW x \in DOMAIN history', NEW y \in DOMAIN history', x # y, x[1] = y[1],
                      history'[x].status = "Executed", history'[y].status = "Executed"
               PROVE  history'[x].expiration # history'[y].expiration
    BY DEF OneExecutionPerRound
  <2>2. CASE x # new /\ y # new
    <3>1. x \in DOMAIN history /\ y \in DOMAIN history /\ history'[x] = history[x] /\ history'[y] = history[y]
      BY <1>4, <2>2
    <3>2. QED
      BY <2>1, <3>1 DEF OneExecutionPerRound
  <2>3. CASE x = new
    <3>1. y \in DOMAIN history /\ history'[y] = history[y] /\ y[1] = id
      BY <1>4, <2>1, <2>3
    <3>2. history[y].expiration < proposals[id].expiration /\ history[y].expiration \in Nat
      BY <1>5, <3>1
    <3>3. QED
      BY <1>1, <1>4, <2>3, <3>1, <3>2
  <2>4. CASE y = new
    <3>1. x \in DOMAIN history /\ history'[x] = history[x] /\ x[1] = id
      BY <1>4, <2>1, <2>4
    <3>2. history[x].expiration < proposals[id].expiration /\ history[x].expiration \in Nat
      BY <1>5, <3>1
    <3>3. QED
      BY <1>1, <1>4, <2>4, <3>1, <3>2
  <2>5. QED
    BY <2>2, <2>3, <2>4
<1> HIDE DEF new
<1>9. HistoryInv'
  <2>1. ASSUME NEW k \in DOMAIN history'
        PROVE  k \in (DOMAIN proposals') \X Nat /\ Recorded(k, history'[k], version'[k[1]], proposals'[k[1]])
    <3>1. CASE k = new
      BY <1>4, <1>7, <3>1
    <3>2. CASE k # new
      BY <1>4, <1>6, <3>2
    <3>3. QED
      BY <3>1, <3>2
  <2>2. QED
    BY <1>8, <2>1 DEF HistoryInv, Recorded
<1>10. QED
  BY <1>3, <1>4, <1>9

-----------------------------------------------------------------------------
(* Steps *)

\* Powers, time, the gauge and the configs change no proposal.
Rests == UNCHANGED <<proposals, version, ballots, history>>

\* A proposal is closed or gets other options.
Continued(id, q) ==
    /\ UNCHANGED <<version, ballots, history>> /\ proposals' = [proposals EXCEPT ![id] = q]
    /\ Within(q) /\ Continues(proposals[id], q)

\* A round is executed or rejected.
Ends(id, s) ==
    /\ UNCHANGED <<version, ballots>> /\ current_status_custom(proposals[id]) = "VotingClosed" /\ Finish(id, s)

LEMMA ListOfOptions ==
    ASSUME NEW options \in OptionLists \cup Added, ToSet(options) \subseteq GaugeOptions
    PROVE  options \in Seq(GaugeOptions)
BY MessagesAssumption, SeqMonotonic

LEMMA Steps ==
    ASSUME RowInv, SharesWithinTotal, [Next]_vars
    PROVE  \/ Rests
           \/ \E u \in Users, pending \in PendingPeriods, options \in OptionLists : execute_propose(u, pending, options)
           \/ \E u \in Users, id \in DOMAIN proposals, votes \in VoteLists : execute_vote(u, id, votes)
           \/ \E u \in Users, id \in DOMAIN proposals : TimeOut(u, id)
           \/ \E id \in DOMAIN proposals, s \in {"Executed", "Rejected"} : Ends(id, s)
           \/ \E id \in DOMAIN proposals : \E q : Continued(id, q)
<1>1. ASSUME NEW u \in Users, NEW id \in DOMAIN proposals, execute_execute(u, id) PROVE Ends(id, "Executed")
  BY <1>1 DEF execute_execute, Ends
<1>2. ASSUME NEW u \in Users, NEW id \in DOMAIN proposals, execute_reject(u, id) PROVE Ends(id, "Rejected")
  BY <1>2 DEF execute_reject, Ends
<1>3. ASSUME NEW u \in Users, NEW id \in DOMAIN proposals, execute_close(u, id) PROVE \E q : Continued(id, q)
  <2> DEFINE q == WithStatus(proposals[id], "Closed")
  <2>1. Within(q) /\ q.status = "Closed" /\ q.expiration = proposals[id].expiration
    BY RowsWithin, RowWithStatus DEF Status
  <2>2. Continues(proposals[id], q)
    BY <2>1 DEF Continues
  <2>3. proposals' = [proposals EXCEPT ![id] = q] /\ UNCHANGED <<version, ballots, history>>
    BY <1>3 DEF execute_close
  <2>4. Continued(id, q)
    BY <2>1, <2>2, <2>3 DEF Continued
  <2>5. QED
    BY <2>4
<1>4. ASSUME NEW id \in DOMAIN proposals, NEW c \in Seq(Choice), Shares(c) <= Shares(proposals[id].choices),
             proposals' = [proposals EXCEPT ![id] = WithChoices(proposals[id], c)],
             UNCHANGED <<version, ballots, history>>
      PROVE  \E q : Continued(id, q)
  <2> DEFINE q == WithChoices(proposals[id], c)
  <2>1. Within(q) /\ q.status = proposals[id].status /\ q.expiration = proposals[id].expiration
    BY <1>4, RowsWithin, RowWithChoices
  <2>2. Continues(proposals[id], q)
    BY <2>1 DEF Continues
  <2>3. Continued(id, q)
    BY <1>4, <2>1, <2>2 DEF Continued
  <2>4. QED
    BY <2>3
<1>5. \A id \in DOMAIN proposals : proposals[id].choices \in Seq(Choice)
  BY RowFields DEF Row
<1>6. ASSUME NEW id \in DOMAIN proposals, NEW options \in Added, execute_add_multiple_choice_options(id, options)
      PROVE  \E q : Continued(id, q)
  <2> DEFINE c == proposals[id].choices \o NoVotes(options)
  <2>1. options \in Seq(GaugeOptions)
    BY <1>6, ListOfOptions DEF execute_add_multiple_choice_options
  <2>2. c \in Seq(Choice) /\ Shares(c) = Shares(proposals[id].choices)
    BY <1>5, <2>1, SharesAdded
  <2>3. proposals' = [proposals EXCEPT ![id] = WithChoices(proposals[id], c)] /\ UNCHANGED <<version, ballots, history>>
    BY <1>6 DEF execute_add_multiple_choice_options
  <2>4. Shares(c) <= Shares(proposals[id].choices)
    BY <1>5, <2>2, SharesType
  <2> HIDE DEF c
  <2>5. QED
    BY <1>4, <2>2, <2>3, <2>4
<1>7. ASSUME NEW id \in DOMAIN proposals, NEW options \in Removed, execute_remove_multiple_choice_options(id, options)
      PROVE  \E q : Continued(id, q)
  <2> DEFINE c == Remaining(proposals[id].choices, options)
  <2>1. c \in Seq(Choice) /\ Shares(c) <= Shares(proposals[id].choices)
    BY <1>5, SharesRemaining
  <2>2. proposals' = [proposals EXCEPT ![id] = WithChoices(proposals[id], c)] /\ UNCHANGED <<version, ballots, history>>
    BY <1>7 DEF execute_remove_multiple_choice_options
  <2> HIDE DEF c
  <2>3. QED
    BY <1>4, <2>1, <2>2
<1>8. ASSUME \/ \E u \in Users, update \in Updates : execute_update_config(u, update)
             \/ \E update \in GaugeUpdates : execute_update_gauge_config(update)
             \/ \E u \in Users, p \in Powers : Restake(u, p)
             \/ GaugeStep \/ Tick \/ UNCHANGED vars
      PROVE  Rests
  BY <1>8 DEF execute_update_config, execute_update_gauge_config, Restake, GaugeStep, Tick, vars, contractVars, Rests
<1>9. QED
  BY <1>1, <1>2, <1>3, <1>6, <1>7, <1>8 DEF Next

-----------------------------------------------------------------------------
(* Configs and clocks *)

LEMMA ConfigInit == Init => ConfigInv /\ ClockInv
BY MessagesAssumption DEF Init, ConfigInv, ClockInv

\* The messages about proposals and options leave time, powers, gauge and, but for Propose and Close, the config.
LEMMA ProposalFrames ==
    ASSUME NEW u \in Users, NEW id
    PROVE  /\ \A votes : execute_vote(u, id, votes) => UNCHANGED <<config, proposers, now, power, gauge>>
           /\ TimeOut(u, id) => UNCHANGED <<config, proposers, now, power, gauge>>
           /\ execute_execute(u, id) => UNCHANGED <<config, proposers, now, power, gauge>>
           /\ execute_reject(u, id) => UNCHANGED <<config, proposers, now, power, gauge>>
           /\ execute_close(u, id) => UNCHANGED <<config, now, power, gauge>>
<1>1. ASSUME NEW votes, execute_vote(u, id, votes) PROVE UNCHANGED <<config, proposers, now, power, gauge>>
  BY <1>1 DEF execute_vote, outside
<1>2. TimeOut(u, id) => UNCHANGED <<config, proposers, now, power, gauge>>
  BY DEF TimeOut, outside
<1>3. execute_execute(u, id) => UNCHANGED <<config, proposers, now, power, gauge>>
  BY DEF execute_execute
<1>4. execute_reject(u, id) => UNCHANGED <<config, proposers, now, power, gauge>>
  BY DEF execute_reject, outside
<1>5. execute_close(u, id) => UNCHANGED <<config, now, power, gauge>>
  BY DEF execute_close, outside
<1>6. QED
  BY <1>1, <1>2, <1>3, <1>4, <1>5

LEMMA OptionFrames ==
    ASSUME NEW id, NEW options
    PROVE  /\ execute_add_multiple_choice_options(id, options) => UNCHANGED <<config, proposers, now, power, gauge>>
           /\ execute_remove_multiple_choice_options(id, options) => UNCHANGED <<config, proposers, now, power, gauge>>
BY DEF execute_add_multiple_choice_options, execute_remove_multiple_choice_options, outside

LEMMA ConfigStep == ConfigInv /\ [Next]_vars => ConfigInv'
<1> SUFFICES ASSUME ConfigInv, [Next]_vars PROVE ConfigInv'
  OBVIOUS
<1> DEFINE limit == config["proposal_creation_token_limit"]
<1>1. limit \in Nat
  BY DEF ConfigInv, ConfigFields
<1>2. CASE UNCHANGED <<config, proposers>>
  BY <1>2 DEF ConfigInv
<1>3. ASSUME NEW u \in Users, NEW pending, NEW options, execute_propose(u, pending, options) PROVE ConfigInv'
  <2>1. config' = config /\ proposers' = [proposers EXCEPT ![u] = proposers[u] + limit]
    BY <1>3 DEF execute_propose
  <2>2. QED
    BY <1>1, <2>1 DEF ConfigInv
<1>4. ASSUME NEW u \in Users, NEW id, execute_close(u, id) PROVE ConfigInv'
  <2>1. config' = config /\ proposers' = [proposers EXCEPT ![u] = proposers[u] - limit] /\ proposers[u] >= limit
    BY <1>4 DEF execute_close, CloseAllowed
  <2>2. proposers[u] - limit \in Nat
    BY <1>1, <2>1 DEF ConfigInv
  <2>3. QED
    BY <2>1, <2>2 DEF ConfigInv
<1>5. ASSUME NEW u \in Users, NEW update \in Updates, execute_update_config(u, update) PROVE ConfigInv'
  <2>1. /\ config' = [f \in DOMAIN config |-> IF f \in DOMAIN update THEN update[f] ELSE config[f]]
        /\ proposers' = proposers
    BY <1>5 DEF execute_update_config
  <2>2. \A f \in DOMAIN update : update[f] \in Nat
    BY MessagesAssumption
  <2>3. QED
    BY <2>1, <2>2 DEF ConfigInv
<1>6. \/ UNCHANGED <<config, proposers>>
      \/ \E u \in Users, pending \in PendingPeriods, options \in OptionLists : execute_propose(u, pending, options)
      \/ \E u \in Users, id \in DOMAIN proposals : execute_close(u, id)
      \/ \E u \in Users, update \in Updates : execute_update_config(u, update)
  <2>1. ASSUME \/ \E update \in GaugeUpdates : execute_update_gauge_config(update)
               \/ \E u \in Users, p \in Powers : Restake(u, p)
               \/ GaugeStep \/ Tick \/ UNCHANGED vars
        PROVE  UNCHANGED <<config, proposers>>
    BY <2>1 DEF execute_update_gauge_config, Restake, GaugeStep, Tick, vars, contractVars
  <2>2. QED
    BY <2>1, ProposalFrames, OptionFrames DEF Next
<1>7. QED
  BY <1>2, <1>3, <1>4, <1>5, <1>6

LEMMA ClockStep == ClockInv /\ [Next]_vars => ClockInv'
<1> SUFFICES ASSUME ClockInv, [Next]_vars PROVE ClockInv'
  OBVIOUS
<1>1. CASE UNCHANGED <<now, power, gauge>>
  BY <1>1 DEF ClockInv
<1>2. ASSUME NEW u \in Users, NEW p \in Powers, Restake(u, p) PROVE ClockInv'
  <2>1. p \in Nat
    BY MessagesAssumption
  <2>2. power' = [power EXCEPT ![u] = p] /\ UNCHANGED <<now, gauge>>
    BY <1>2 DEF Restake
  <2>3. QED
    BY <2>1, <2>2 DEF ClockInv
<1>3. CASE GaugeStep
  <2>1. UNCHANGED <<now, power>> /\ now + VotingPeriod \in Nat /\ now \in Nat
    BY <1>3, MessagesAssumption DEF GaugeStep, ClockInv
  <2>2. \/ gauge' = [gauge EXCEPT !.expiration = now + VotingPeriod, !.voting_start_time = now]
        \/ gauge' = [gauge EXCEPT !.status = "Closed"]
    BY <1>3 DEF GaugeStep
  <2>3. QED
    BY <2>1, <2>2 DEF ClockInv
<1>4. CASE Tick
  BY <1>4 DEF Tick, ClockInv
<1>5. UNCHANGED <<now, power, gauge>> \/ (\E u \in Users, p \in Powers : Restake(u, p)) \/ GaugeStep \/ Tick
  <2>1. ASSUME \/ \E update \in GaugeUpdates : execute_update_gauge_config(update)
               \/ \E u \in Users, update \in Updates : execute_update_config(u, update)
               \/ UNCHANGED vars
        PROVE  UNCHANGED <<now, power, gauge>>
    BY <2>1 DEF execute_update_gauge_config, execute_update_config, vars, outside
  <2>2. ASSUME NEW u \in Users, NEW pending, NEW options, execute_propose(u, pending, options)
        PROVE  UNCHANGED <<now, power, gauge>>
    BY <2>2 DEF execute_propose, outside
  <2>3. QED
    BY <2>1, <2>2, ProposalFrames, OptionFrames DEF Next
<1>6. QED
  BY <1>1, <1>2, <1>3, <1>4, <1>5

-----------------------------------------------------------------------------
(* Rounds *)

Books == RowInv /\ SharesWithinTotal /\ HistoryInv

OutcomesKept ==
    \A k \in DOMAIN history :
        history[k].status \in {"Executed", "Rejected"} => k \in DOMAIN history' /\ history'[k] = history[k]

LEMMA TimeOutRecord ==
    ASSUME RowInv, NEW id \in DOMAIN proposals, RecordTimeOut(id)
    PROVE  /\ version' = [version EXCEPT ![id] = version[id] + 1]
           /\ version' \in Seq(1 .. MaxVersion) /\ Len(version') = Len(version)
           /\ \E rec : rec.status = "TimeOut" /\ history' = Saved(history, <<id, version[id] + 1>>, rec)
<1> DEFINE p == WithStatus(proposals[id], "TimeOut")
           rec == [status |-> p.status, total_power |-> p.total_power, choices |-> p.choices,
                   expiration |-> p.expiration, time |-> now]
<1>1. proposals[id] \in Row /\ version[id] \in 1 .. MaxVersion /\ id \in 1 .. Len(version)
  BY RowFields
<1>2. /\ version[id] + 1 <= MaxVersion /\ version' = [version EXCEPT ![id] = version[id] + 1]
      /\ history' = Saved(history, <<id, version[id] + 1>>, rec)
  BY DEF RecordTimeOut, advance_proposal_version, upgrade_proposal_history
<1>3. p.status = "TimeOut"
  BY <1>1 DEF WithStatus, Row
<1>4. rec.status = "TimeOut"
  BY <1>3
<1>5. version[id] + 1 \in 1 .. MaxVersion
  BY <1>1, <1>2, MessagesAssumption
<1>6. version' \in Seq(1 .. MaxVersion) /\ Len(version') = Len(version)
  BY <1>1, <1>2, <1>5, ExceptSeq DEF RowInv
<1> HIDE DEF rec
<1>7. QED
  BY <1>2, <1>4, <1>6

LEMMA VoteStep ==
    ASSUME ClockInv, Books, NEW u \in Users, NEW id \in DOMAIN proposals, NEW votes \in VoteLists,
           execute_vote(u, id, votes)
    PROVE  Books' /\ OutcomesKept
<1> DEFINE p == proposals[id]
           reset == current_status_custom(p) # "Open"
           prop == IF reset THEN Reset(p) ELSE p
<1>1. RowInv /\ SharesWithinTotal /\ HistoryInv
  BY DEF Books
<1>2. Within(p) /\ p \in Row
  BY <1>1, RowsWithin DEF Within
<1>3. Within(prop) /\ (reset => prop.expiration = gauge.expiration) /\ (~reset => prop = p)
  BY <1>2, RowReset
<1>4. power[u] \in Nat
  BY DEF ClockInv
<1>5. PICK ver : ver = version'[id]
  OBVIOUS
<1> DEFINE cast == CastAll(u, id, ver, prop, votes)
           q0 == [prop EXCEPT !.choices = cast.choices, !.total_power = cast.total + power[u]]
           q == WithStatus(q0, current_status(q0))
<1>6. /\ VoteOpen(u, id) /\ SumOf(votes) <= 100 /\ cast.ok /\ ballots' = cast.ballots
      /\ IF reset THEN RecordTimeOut(id) ELSE UNCHANGED <<version, history, executions>>
      /\ proposals' = [proposals EXCEPT ![id] = q]
  BY <1>5 DEF execute_vote, update_status
<1> HIDE DEF p, reset, prop
<1>7. Sound(cast, power[u])
  BY <1>1, <1>3, <1>4, <1>6, CastAllSound DEF Within, RowInv
<1> HIDE DEF cast
<1>8. /\ cast.choices \in Seq(Choice) /\ cast.total \in Nat /\ AreBallots(ballots')
      /\ Shares(cast.choices) <= cast.total + power[u]
  BY <1>6, <1>7 DEF Sound
<1>9. PICK t \in Nat : t = cast.total + power[u] /\ Shares(cast.choices) <= t
  BY <1>4, <1>8
<1>10. /\ q0 \in Row /\ q0.choices = cast.choices /\ q0.total_power = t
       /\ q0.expiration = prop.expiration /\ q0.status = prop.status
  <2>1. prop \in Row /\ q0 = [prop EXCEPT !.choices = cast.choices, !.total_power = t]
    BY <1>3, <1>9 DEF Within
  <2>2. QED
    BY <1>8, <2>1 DEF Row
<1>11. Within(q0)
  BY <1>9, <1>10 DEF Within
<1>12. current_status(q0) \in Status \ {"TimeOut"}
  BY <1>10 DEF current_status, Status, Row
<1> HIDE DEF q0
<1>13. Within(q) /\ q.expiration = prop.expiration
  BY <1>10, <1>11, <1>12, RowWithStatus
<1> HIDE DEF q
<1>14. CASE reset
  <2>1. /\ version' = [version EXCEPT ![id] = version[id] + 1]
        /\ version' \in Seq(1 .. MaxVersion) /\ Len(version') = Len(version)
        /\ \E rec : rec.status = "TimeOut" /\ history' = Saved(history, <<id, version[id] + 1>>, rec)
    BY <1>1, <1>6, <1>14, TimeOutRecord
  <2>2. /\ RowInv' /\ SharesWithinTotal' /\ DOMAIN proposals' = DOMAIN proposals
        /\ proposals'[id] = q /\ \A i \in DOMAIN proposals : i # id => proposals'[i] = proposals[i]
    BY <1>1, <1>6, <1>8, <1>13, <2>1, ReplacedRow
  <2>3. p.expiration < q.expiration
    <3>1. Renewed(p)
      BY <1>6, <1>14 DEF VoteOpen, reset, p
    <3>2. gauge.expiration \in Nat /\ p.expiration \in Nat
      BY <1>2 DEF ClockInv, Row
    <3>3. QED
      BY <1>3, <1>13, <1>14, <3>1, <3>2 DEF Renewed
  <2>4. PICK rec : rec.status = "TimeOut" /\ history' = Saved(history, <<id, version[id] + 1>>, rec)
    BY <2>1
  <2>5. q \in Row
    BY <1>13 DEF Within
  <2>6. HistoryInv' /\ \A k \in DOMAIN history : k \in DOMAIN history' /\ history'[k] = history[k]
    BY <1>1, <2>1, <2>2, <2>3, <2>4, <2>5, HistoryTimesOut DEF p
  <2>7. QED
    BY <2>2, <2>6 DEF Books, OutcomesKept
<1>15. CASE ~reset
  <2>1. version' = version /\ history' = history
    BY <1>6, <1>15
  <2>2. version' \in Seq(1 .. MaxVersion) /\ Len(version') = Len(version)
    BY <1>1, <2>1 DEF RowInv
  <2>3. /\ RowInv' /\ SharesWithinTotal' /\ DOMAIN proposals' = DOMAIN proposals
        /\ proposals'[id] = q /\ \A i \in DOMAIN proposals : i # id => proposals'[i] = proposals[i]
    BY <1>1, <1>6, <1>8, <1>13, <2>2, ReplacedRow
  <2>4. p.status = "Open"
    BY <1>15 DEF reset, current_status_custom
  <2>5. Continues(p, q)
    BY <1>3, <1>13, <1>15, <2>4 DEF Continues
  <2>6. HistoryInv'
    <3>1. \A i \in DOMAIN proposals : i \in DOMAIN proposals' /\ version'[i] = version[i]
                                      /\ Continues(proposals[i], proposals'[i])
      BY <2>1, <2>3, <2>5 DEF p, Continues
    <3>2. QED
      BY <1>1, <2>1, <3>1, HistoryRests
  <2>7. QED
    BY <2>1, <2>3, <2>6 DEF Books, OutcomesKept
<1>16. QED
  BY <1>14, <1>15

LEMMA TimeOutStep ==
    ASSUME Books, NEW u \in Users, NEW id \in DOMAIN proposals, TimeOut(u, id)
    PROVE  Books' /\ OutcomesKept
<1>1. RowInv /\ SharesWithinTotal /\ HistoryInv
  BY DEF Books
<1>2. RecordTimeOut(id) /\ proposals' = proposals /\ ballots' = ballots
  BY DEF TimeOut
<1>3. /\ version' = [version EXCEPT ![id] = version[id] + 1]
      /\ version' \in Seq(1 .. MaxVersion) /\ Len(version') = Len(version)
      /\ \E rec : rec.status = "TimeOut" /\ history' = Saved(history, <<id, version[id] + 1>>, rec)
  BY <1>1, <1>2, TimeOutRecord
<1>4. PICK rec : rec.status = "TimeOut" /\ history' = Saved(history, <<id, version[id] + 1>>, rec)
  BY <1>3
<1>5. proposals'[id] \in Row
  BY <1>1, <1>2, RowFields
<1>6. HistoryInv' /\ \A k \in DOMAIN history : k \in DOMAIN history' /\ history'[k] = history[k]
  BY <1>1, <1>2, <1>3, <1>4, <1>5, HistoryTimesOut
<1>7. RowInv' /\ SharesWithinTotal'
  BY <1>1, <1>2, <1>3 DEF RowInv, SharesWithinTotal, AreBallots
<1>8. QED
  BY <1>6, <1>7 DEF Books, OutcomesKept

LEMMA EndStep ==
    ASSUME Books, NEW id \in DOMAIN proposals, NEW s \in {"Executed", "Rejected"}, Ends(id, s)
    PROVE  Books' /\ OutcomesKept
<1> DEFINE p == proposals[id]
           q == WithStatus(p, s)
           rec == [status |-> q.status, total_power |-> q.total_power, choices |-> q.choices,
                   expiration |-> q.expiration, time |-> now]
<1>1. RowInv /\ SharesWithinTotal /\ HistoryInv
  BY DEF Books
<1>2. Within(p)
  BY <1>1, RowsWithin
<1>3. Within(q) /\ q.status = s /\ q.expiration = p.expiration
  BY <1>2, RowWithStatus DEF Status
<1>4. /\ UNCHANGED <<version, ballots>> /\ current_status_custom(p) = "VotingClosed"
      /\ proposals' = [proposals EXCEPT ![id] = q] /\ history' = Saved(history, <<id, version[id]>>, rec)
  BY DEF Ends, Finish, upgrade_proposal_history
<1>5. p.status \in {"Open", "VotingClosed"}
  BY <1>4 DEF current_status_custom
<1>6. rec.status = s /\ rec.expiration = p.expiration
  BY <1>3
<1> HIDE DEF rec, q
<1>7. version' \in Seq(1 .. MaxVersion) /\ Len(version') = Len(version) /\ AreBallots(ballots')
  BY <1>1, <1>4 DEF RowInv
<1>8. /\ RowInv' /\ SharesWithinTotal' /\ DOMAIN proposals' = DOMAIN proposals
      /\ proposals'[id] = q /\ \A i \in DOMAIN proposals : i # id => proposals'[i] = proposals[i]
  BY <1>1, <1>3, <1>4, <1>7, ReplacedRow
<1>9. /\ HistoryInv'
      /\ \A k \in DOMAIN history : /\ k \in DOMAIN history'
                                   /\ history[k].status \in {"Executed", "Rejected"} => history'[k] = history[k]
  BY <1>1, <1>3, <1>4, <1>5, <1>6, <1>8, HistoryEnds
<1>10. QED
  BY <1>8, <1>9 DEF Books, OutcomesKept

LEMMA ContinuedStep ==
    ASSUME Books, NEW id \in DOMAIN proposals, NEW q, Continued(id, q)
    PROVE  Books' /\ OutcomesKept
<1>1. RowInv /\ SharesWithinTotal /\ HistoryInv
  BY DEF Books
<1>2. /\ UNCHANGED <<version, ballots, history>> /\ proposals' = [proposals EXCEPT ![id] = q]
      /\ Within(q) /\ Continues(proposals[id], q)
  BY DEF Continued
<1>3. version' \in Seq(1 .. MaxVersion) /\ Len(version') = Len(version) /\ AreBallots(ballots')
  BY <1>1, <1>2 DEF RowInv
<1>4. /\ RowInv' /\ SharesWithinTotal' /\ DOMAIN proposals' = DOMAIN proposals
      /\ proposals'[id] = q /\ \A i \in DOMAIN proposals : i # id => proposals'[i] = proposals[i]
  BY <1>1, <1>2, <1>3, ReplacedRow
<1>5. \A i \in DOMAIN proposals : i \in DOMAIN proposals' /\ version'[i] = version[i]
                                  /\ Continues(proposals[i], proposals'[i])
  BY <1>2, <1>4 DEF Continues
<1>6. HistoryInv'
  BY <1>1, <1>2, <1>5, HistoryRests
<1>7. QED
  BY <1>2, <1>4, <1>6 DEF Books, OutcomesKept

LEMMA ProposeStep ==
    ASSUME ConfigInv, ClockInv, Books, NEW u \in Users, NEW pending \in PendingPeriods, NEW options \in OptionLists,
           execute_propose(u, pending, options)
    PROVE  Books' /\ OutcomesKept
<1> DEFINE q == [proposer |-> u, expiration |-> gauge.expiration, total_power |-> 0, status |-> "Open",
                 voting_start_time |-> gauge.voting_start_time, choices |-> NoVotes(options), pending_period |-> pending]
           n == Len(proposals)
<1>1. RowInv /\ SharesWithinTotal /\ HistoryInv
  BY DEF Books
<1>2. /\ proposals' = Append(proposals, q) /\ version' = Append(version, 1) /\ UNCHANGED <<ballots, history>>
      /\ ToSet(options) \subseteq GaugeOptions
  BY DEF execute_propose
<1>3. <<>> \in Seq(Choice) /\ options \in Seq(GaugeOptions)
  BY <1>2, ListOfOptions
<1>4. NoVotes(options) \in Seq(Choice) /\ Shares(NoVotes(options)) = 0
  BY <1>3, SharesAdded
<1>5. pending \in Nat /\ gauge.expiration \in Nat /\ gauge.voting_start_time \in Nat
  BY MessagesAssumption DEF ClockInv
<1>6. q \in Row /\ q.choices = NoVotes(options) /\ q.total_power = 0
  BY <1>4, <1>5 DEF Row, Status
<1>7. Within(q)
  BY <1>4, <1>6 DEF Within
<1> HIDE DEF q
<1>8. n \in Nat /\ DOMAIN proposals = 1 .. n /\ DOMAIN version = 1 .. n /\ Len(version) = n
  BY <1>1, RowsDomain DEF RowInv
<1>9. 1 \in 1 .. MaxVersion
  BY MessagesAssumption
<1>10. /\ proposals' \in Seq(Row) /\ Len(proposals') = n + 1
       /\ (\A i \in 1 .. n : proposals'[i] = proposals[i]) /\ proposals'[n + 1] = q
  BY <1>1, <1>2, <1>6, AppendProperties DEF RowInv
<1>11. /\ version' \in Seq(1 .. MaxVersion) /\ Len(version') = n + 1
       /\ \A i \in 1 .. n : version'[i] = version[i]
  BY <1>1, <1>2, <1>8, <1>9, AppendProperties DEF RowInv
<1>12. RowInv'
  BY <1>1, <1>2, <1>10, <1>11 DEF RowInv, AreBallots
<1>13. DOMAIN proposals' = 1 .. n + 1
  BY <1>10, LenProperties
<1> HIDE DEF n
<1>14. SharesWithinTotal'
  <2>1. ASSUME NEW i \in DOMAIN proposals' PROVE Shares(proposals'[i].choices) <= proposals'[i].total_power
    <3>1. CASE i = n + 1
      BY <1>7, <1>10, <3>1 DEF Within
    <3>2. CASE i # n + 1
      <4>1. i \in DOMAIN proposals /\ proposals'[i] = proposals[i]
        BY <1>8, <1>10, <1>13, <3>2
      <4>2. QED
        BY <1>1, <4>1 DEF SharesWithinTotal
    <3>3. QED
      BY <3>1, <3>2
  <2>2. QED
    BY <2>1 DEF SharesWithinTotal, Shares
<1>15. \A i \in DOMAIN proposals : i \in DOMAIN proposals' /\ version'[i] = version[i]
                                   /\ Continues(proposals[i], proposals'[i])
  BY <1>8, <1>10, <1>11, <1>13 DEF Continues
<1>16. HistoryInv'
  BY <1>1, <1>2, <1>15, HistoryRests
<1>17. QED
  BY <1>2, <1>12, <1>14, <1>16 DEF Books, OutcomesKept

LEMMA BooksStep == ConfigInv /\ ClockInv /\ Books /\ [Next]_vars => Books' /\ OutcomesKept
<1> SUFFICES ASSUME ConfigInv, ClockInv, Books, [Next]_vars PROVE Books' /\ OutcomesKept
  OBVIOUS
<1>1. CASE Rests
  BY <1>1 DEF Rests, Books, RowInv, AreBallots, SharesWithinTotal, HistoryInv, OneExecutionPerRound, OutcomesKept
<1>2. QED
  BY <1>1, Steps, ProposeStep, VoteStep, TimeOutStep, EndStep, ContinuedStep DEF Books

LEMMA BooksInit == Init => Books
<1> SUFFICES ASSUME Init PROVE Books
  OBVIOUS
<1>1. proposals = <<>> /\ version = <<>> /\ ballots = <<>> /\ history = <<>>
  BY DEF Init
<1>2. DOMAIN proposals = {} /\ DOMAIN ballots = {} /\ DOMAIN history = {}
  BY <1>1
<1>3. proposals \in Seq(Row) /\ version \in Seq(1 .. MaxVersion) /\ Len(version) = Len(proposals)
  BY <1>1
<1>4. QED
  BY <1>2, <1>3 DEF Books, RowInv, AreBallots, SharesWithinTotal, HistoryInv, OneExecutionPerRound

-----------------------------------------------------------------------------
(* Theorems *)

LEMMA BooksSound == ConfigInv /\ ClockInv /\ Books => RoundSound
<1> SUFFICES ASSUME ConfigInv, ClockInv, Books PROVE RoundSound
  OBVIOUS
<1>1. RowInv /\ SharesWithinTotal /\ HistoryInv
  BY DEF Books
<1>2. TypeOK
  <2>1. ASSUME NEW id \in DOMAIN proposals
        PROVE  LET p == proposals[id] IN
               /\ p.proposer \in Users /\ p.status \in Status /\ p.total_power \in Nat /\ p.expiration \in Nat
               /\ \A i \in DOMAIN p.choices : p.choices[i].pool \in GaugeOptions /\ p.choices[i].power \in Nat
    <3>1. PICK p : p = proposals[id] /\ p \in Row
      BY <1>1, RowFields
    <3>2. p.proposer \in Users /\ p.status \in Status /\ p.total_power \in Nat /\ p.expiration \in Nat /\ p.choices \in Seq(Choice)
      BY <3>1 DEF Row
    <3>3. \A i \in DOMAIN p.choices : p.choices[i] \in Choice
      BY <3>2, ChoicesSeq
    <3>4. QED
      BY <3>1, <3>2, <3>3 DEF Choice
  <2>2. DOMAIN version = DOMAIN proposals /\ \A id \in DOMAIN version : version[id] \in 1 .. MaxVersion
    BY <1>1, RowsDomain, RowFields
  <2>3. QED
    BY <2>1, <2>2 DEF TypeOK, ConfigInv
<1>3. ShownOpenAcceptsVotes
  <2> SUFFICES ASSUME NEW id \in DOMAIN proposals, NEW u \in Users, proposals[id].status # "Closed",
                      query_proposal(proposals[id]) = "Open", power[u] > 0
               PROVE  VoteOpen(u, id)
    BY DEF ShownOpenAcceptsVotes
  <2>1. PICK p : p = proposals[id] /\ p \in Row
    BY <1>1, RowFields
  <2>2. p.status \in {"Open", "VotingClosed", "Executed", "Rejected"}
    BY <2>1 DEF Row, Status
  <2>3. current_status_custom(p) \in {"Open", "VotingClosed", "Executed", "Rejected"}
    BY <2>2 DEF current_status_custom
  <2>4. current_status_custom(p) = "Open" \/ Renewed(p)
    BY <2>1 DEF query_proposal
  <2>5. QED
    BY <2>1, <2>3, <2>4 DEF VoteOpen
<1>4. OneExecutionPerRound
  BY <1>1 DEF HistoryInv
<1>5. QED
  BY <1>1, <1>2, <1>3, <1>4 DEF RoundSound

\* Through votes that replace parts of others, options that come and go and new rounds of the gauge, the
\* percentages sent to the gauge are shares of the power that voted, a proposal that is shown open accepts
\* votes, and a proposal is executed at most once in a round.
THEOREM RoundsAlwaysSound == Spec => []RoundSound
<1>1. Init => ConfigInv /\ ClockInv /\ Books
  BY ConfigInit, BooksInit
<1>2. ConfigInv /\ ClockInv /\ Books /\ [Next]_vars => ConfigInv' /\ ClockInv' /\ Books'
  BY ConfigStep, ClockStep, BooksStep
<1>3. QED
  BY <1>1, <1>2, BooksSound, PTL DEF Spec

\* No later round, execution, rejection or timeout writes over the record of an executed or rejected round.
THEOREM OutcomesNeverOverwritten == Spec => OutcomeRecordKept
<1>1. Init => ConfigInv /\ ClockInv /\ Books
  BY ConfigInit, BooksInit
<1>2. ConfigInv /\ ClockInv /\ Books /\ [Next]_vars => ConfigInv' /\ ClockInv' /\ Books'
  BY ConfigStep, ClockStep, BooksStep
<1>3. ConfigInv /\ ClockInv /\ Books /\ [Next]_vars =>
        [\A k \in DOMAIN history :
           history[k].status \in {"Executed", "Rejected"} => k \in DOMAIN history' /\ history'[k] = history[k]]_vars
  BY BooksStep DEF OutcomesKept
<1>4. QED
  BY <1>1, <1>2, <1>3, PTL DEF Spec, OutcomeRecordKept
=============================================================================
