------------------------------ MODULE Fixtures ------------------------------
(***************************************************************************)
(* The fixture generators of a competition stage.  Entries are their       *)
(* positions 1..n in the list they are given; Nobody is a missing entry.   *)
(***************************************************************************)
EXTENDS Integers, Sequences, SequencesExt

Nobody == 0

-----------------------------------------------------------------------------
(***************************************************************************)
(* GenerateRoundRobin: the circle method.                                  *)
(***************************************************************************)

\* The teams, with a dummy when their number is odd.
Teams(n) == [i \in 1..(IF n % 2 = 1 THEN n + 1 ELSE n) |-> IF i <= n THEN i ELSE Nobody]

MutRotate(t) == [i \in DOMAIN t |-> IF i = 1 THEN t[Len(t)] ELSE t[i - 1]]
\* Every team but the first moves on by one place.
Rotate(t) ==
    [i \in DOMAIN t |->
        IF i = 1 THEN t[1] ELSE IF i = 2 THEN t[Len(t)] ELSE t[i - 1]]

\* The circle in round r.
Circle(n) ==
    LET round[r \in 1..n + 1] == IF r = 1 THEN Teams(n) ELSE Rotate(round[r - 1])
    IN  round

\* The teams at the places i and Len(t) + 1 - i of round r meet; home and away change
\* places in even rounds.
FixtureAt(t, r, i) ==
    LET one == t[i]
        other == t[Len(t) + 1 - i]
    IN  [round |-> r, place |-> i,
         home |-> IF r % 2 = 1 THEN one ELSE other,
         away |-> IF r % 2 = 1 THEN other ELSE one]

\* The fixtures; a match with the dummy is left out.
RoundRobin(n) ==
    LET size == Len(Teams(n))
        circle == Circle(n)
        drawn == {FixtureAt(circle[r], r, i) : r \in 1..size - 1, i \in 1..size \div 2}
    IN  IF n < 2 THEN {} ELSE {f \in drawn : f.home # Nobody /\ f.away # Nobody}

-----------------------------------------------------------------------------
(***************************************************************************)
(* GenerateSingleElimination.                                              *)
(***************************************************************************)

\* 2^k by doubling, as powerOf2 is computed: the places in a bracket of k rounds.
PowerOf2(k) ==
    LET power[i \in 0..k] == IF i = 0 THEN 1 ELSE 2 * power[i - 1]
    IN  power[k]

\* The number of rounds: the first power of 2 that is n or more.
Rounds(n) ==
    CHOOSE k \in 1..n : PowerOf2(k) >= n /\ \A j \in 1..k - 1 : PowerOf2(j) < n

MutSeedOrder(k) == [i \in 1..PowerOf2(k) |-> i]
\* bracketSeedOrder of 2^k.
SeedOrder(k) ==
    LET order[j \in 1..k] ==
            IF j = 1 THEN <<1, 2>>
            ELSE [i \in 1..PowerOf2(j) |->
                    LET v == order[j - 1][(i + 1) \div 2]
                    IN  IF i % 2 = 1 THEN v ELSE PowerOf2(j) + 1 - v]
    IN  order[k]

Seeded(n, s) == IF s <= n THEN s ELSE Nobody

\* A match of round 1; an entry without an opponent has won it.
FirstMatch(n, m) ==
    LET order == SeedOrder(Rounds(n))
        home == Seeded(n, order[2 * m - 1])
        away == Seeded(n, order[2 * m])
        bye == home # Nobody /\ away = Nobody
    IN  [home |-> home, away |-> away,
         status |-> IF bye THEN "BYE" ELSE "SCHEDULED",
         winner |-> IF bye THEN home ELSE Nobody]

\* A later match, its sides filled by the byes of round 1 only.
LaterMatch(n, r, m) ==
    LET side(s) == IF r = 2 THEN FirstMatch(n, s).winner ELSE Nobody
    IN  [home |-> side(2 * m - 1), away |-> side(2 * m),
         status |-> "SCHEDULED", winner |-> Nobody]

BracketMatches(n) ==
    UNION {{<<r, m>> : m \in 1..PowerOf2(Rounds(n) - r)} : r \in 1..Rounds(n)}

SingleElimination(n) ==
    [rm \in BracketMatches(n) |->
        IF rm[1] = 1 THEN FirstMatch(n, rm[2]) ELSE LaterMatch(n, rm[1], rm[2])]
=============================================================================
