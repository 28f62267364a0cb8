----------------------------- MODULE Standings ------------------------------
(***************************************************************************)
(* The tables of a round robin as GetStageStandings computes them from its *)
(* completed matches.  Go yields a map's rows in any order, so a table is  *)
(* a function of that order as well as of the results.                     *)
(***************************************************************************)
EXTENDS Fixtures, FiniteSetsExt

CONSTANTS
    GroupSize,
    Name            \* Name[e]: where the entry's lower-cased display name stands in the
                    \* alphabet; nothing keeps two entries from having one name

ASSUME GroupSizeAssumption == GroupSize \in Nat \ {0, 1}
ASSUME NamesAssumption == Name \in [1..GroupSize -> Int]

\* results[f] is the result of the fixture f, NotCompleted unless the match is COMPLETED.
VARIABLE results

GroupEntries == 1..GroupSize
GroupFixtures == RoundRobin(GroupSize)
NotCompleted == [home |-> 0, away |-> 0, rally |-> 0, completed |-> FALSE]

-----------------------------------------------------------------------------
\* The completed matches of e, and e's result in one of them.
MatchesOf(e) == {f \in GroupFixtures : results[f].completed /\ e \in {f.home, f.away}}
Own(e, f) == IF f.home = e THEN results[f].home ELSE results[f].away
Other(e, f) == IF f.home = e THEN results[f].away ELSE results[f].home
Rally(e, f) == IF f.home = e THEN results[f].rally ELSE -results[f].rally

\* The columns of the tables.
Wins == [e \in GroupEntries |-> Cardinality({f \in MatchesOf(e) : Own(e, f) > Other(e, f)})]
Draws == [e \in GroupEntries |-> Cardinality({f \in MatchesOf(e) : Own(e, f) = Other(e, f)})]
Points(win, draw) == [e \in GroupEntries |-> win * Wins[e] + draw * Draws[e]]
GoalsFor == [e \in GroupEntries |-> MapThenSumSet(LAMBDA f : Own(e, f), MatchesOf(e))]
Difference ==
    [e \in GroupEntries |-> MapThenSumSet(LAMBDA f : Own(e, f) - Other(e, f), MatchesOf(e))]
RallyDifference == [e \in GroupEntries |-> MapThenSumSet(LAMBDA f : Rally(e, f), MatchesOf(e))]

\* Head to head: a has beaten b.
Beat(a, b) == \E f \in MatchesOf(a) \cap MatchesOf(b) : Own(a, f) > Own(b, f)

-----------------------------------------------------------------------------
(***************************************************************************)
(* sort.Slice, which is an insertion sort of so few rows; before is the    *)
(* set of pairs <<a, b>> of which a goes before b.                         *)
(***************************************************************************)
Insert(s, x, before) ==
    InsertAt(s, 1 + Max({0} \cup {k \in DOMAIN s : <<x, s[k]>> \notin before}), x)
Sort(s, before) ==
    LET sorted[k \in 0..Len(s)] ==
            IF k = 0 THEN <<>> ELSE Insert(sorted[k - 1], s[k], before)
    IN  sorted[Len(s)]

\* The first of these columns that differs decides, if one does.
Ahead(columns, a, b, otherwise) ==
    LET differ == {k \in DOMAIN columns : columns[k][a] # columns[k][b]}
    IN  IF differ = {} THEN otherwise
        ELSE columns[Min(differ)][a] > columns[Min(differ)][b]

\* The columns, then the match between the two, then the name.
Before(columns, a, b) ==
    Ahead(columns, a, b, Beat(a, b) \/ (~Beat(b, a) /\ Name[a] < Name[b]))

Ranking(columns) == {p \in GroupEntries \X GroupEntries : Before(columns, p[1], p[2])}

FootballColumns == <<Points(3, 1), Difference, GoalsFor>>
PointsColumns(win, draw) == <<Points(win, draw), Wins>>

MutFootballTable(order) == Sort(order, Ranking(<<Points(3, 1)>>))
\* CalculateFootballStandings
FootballTable(order) == Sort(order, Ranking(FootballColumns))

\* CalculatePointsStandings
PointsTable(win, draw, order) == Sort(order, Ranking(PointsColumns(win, draw)))

-----------------------------------------------------------------------------
(***************************************************************************)
(* CalculateBadmintonStandings: those level on a column are taken apart by *)
(* the next, but two of them always by resolveBadmintonPair.               *)
(***************************************************************************)
\* Of two with one name that nothing else takes apart, the one given first stays first.
Pair(a, b) ==
    IF \/ Beat(a, b)
       \/ ~Beat(b, a) /\ Ahead(<<Difference, RallyDifference>>, a, b, Name[a] <= Name[b])
    THEN <<a, b>> ELSE <<b, a>>

\* The rows of g in groups level on the column, the highest first: a row of the v-th
\* group has v of the values there are, its own among them, that are as high.
Buckets(g, column) ==
    LET values == {column[g[k]] : k \in DOMAIN g}
        place == [x \in values |-> Cardinality({y \in values : y >= x})]
        bucket(v) ==
            LET kept[k \in 0..Len(g)] ==
                    IF k = 0 THEN <<>>
                    ELSE IF place[column[g[k]]] = v THEN Append(kept[k - 1], g[k])
                    ELSE kept[k - 1]
            IN  kept[Len(g)]
    IN  [v \in 1..Cardinality(values) |-> bucket(v)]

Split(g, column, Rest(_)) ==
    LET resolve(b) == CASE Len(b) = 1 -> b
                        [] Len(b) = 2 -> Pair(b[1], b[2])
                        [] OTHER -> Rest(b)
        buckets == Buckets(g, column)
    IN  FlattenSeq([v \in DOMAIN buckets |-> resolve(buckets[v])])

ByName(g) == Sort(g, {p \in GroupEntries \X GroupEntries : Name[p[1]] < Name[p[2]]})
ByRally(g) == Split(g, RallyDifference, ByName)
MutByGames(g) == ByRally(g)
ByGames(g) == Split(g, Difference, ByRally)
BadmintonTable(order) == Split(order, Wins, ByGames)
=============================================================================
