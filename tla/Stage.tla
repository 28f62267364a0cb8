------------------------------- MODULE Stage --------------------------------
(***************************************************************************)
(* ONE stage of a competition, of either type that CreateStage generates   *)
(* fixtures for: GROUP_ROUND_ROBIN, whose completed matches GetStageStandings *)
(* turns into a table, or SINGLE_ELIMINATION, whose winners RecordMatchScore *)
(* carries on (module Bracket).                                            *)
(***************************************************************************)
EXTENDS Bracket, Standings

CONSTANTS
    Results,        \* results recorded for a group match (bound)
    WinPoints,      \* the competition's win_points
    DrawPoints      \* and draw_points

ASSUME ResultsAssumption ==
    Results \subseteq [home : Nat, away : Nat, rally : Int, completed : {TRUE}]
ASSUME PointsAssumption == WinPoints \in Int /\ DrawPoints \in Int

VARIABLE stageType

vars == <<stageType, match, call, sidesWin, results>>

\* The type of every variable; a group stage has no bracket calls under way.
TypeOK ==
    /\ stageType \in {"GROUP_ROUND_ROBIN", "SINGLE_ELIMINATION"}
    /\ BracketTypeOK
    /\ results \in [GroupFixtures -> Results \cup {NotCompleted}]

Init ==
    /\ stageType \in {"GROUP_ROUND_ROBIN", "SINGLE_ELIMINATION"}
    /\ BracketInit
    /\ results = [f \in GroupFixtures |-> NotCompleted]

\* RecordMatchScore of a group match: one statement, which replaces the result, or
\* gives the match another status than COMPLETED.
RecordGroupScore(f, r) ==
    /\ stageType = "GROUP_ROUND_ROBIN"
    /\ results' = [results EXCEPT ![f] = r]
    /\ UNCHANGED <<stageType, bracketVars>>

\* RecordMatchScore of an elimination match.
RecordEliminationScore ==
    /\ stageType = "SINGLE_ELIMINATION"
    /\ BracketNext
    /\ UNCHANGED <<stageType, results>>

Next ==
    \/ \E f \in GroupFixtures, r \in Results \cup {NotCompleted} : RecordGroupScore(f, r)
    \/ RecordEliminationScore

Spec == Init /\ [][Next]_vars

-----------------------------------------------------------------------------
Meetings(fixtures, a, b) == {f \in fixtures : {f.home, f.away} = {a, b}}

\* GenerateRoundRobin: any two entries of a group of this size, or of one more, meet
\* exactly once, and nobody plays twice in a round.
EveryPairMeetsOnce ==
    stageType = "GROUP_ROUND_ROBIN" =>
        \A n \in {GroupSize, GroupSize + 1} :
            LET fixtures == RoundRobin(n)
            IN  /\ \A a, b \in 1..n : a # b => Cardinality(Meetings(fixtures, a, b)) = 1
                /\ \A f, g \in fixtures :
                       f # g /\ f.round = g.round => {f.home, f.away} \cap {g.home, g.away} = {}

Orders == {o \in [GroupEntries -> GroupEntries] : \A a, b \in GroupEntries : a # b => o[a] # o[b]}
AnOrder == [e \in GroupEntries |-> e]
Above(table, a, b) ==
    \E i, j \in DOMAIN table : i < j /\ table[i] = a /\ table[j] = b

\* No three entries are level on every column.
NoThreeLevel(columns) ==
    \A S \in SUBSET GroupEntries :
        Cardinality(S) = 3 =>
            \E k \in DOMAIN columns, a, b \in S : columns[k][a] # columns[k][b]

\* No two entries of one name are level on every column without one having beaten the
\* other: the code has nothing left to tell such two apart by.
NoTwins(columns) ==
    \A a, b \in GroupEntries :
        a # b /\ Name[a] = Name[b] /\ ~Beat(a, b) /\ ~Beat(b, a) =>
            \E k \in DOMAIN columns : columns[k][a] # columns[k][b]

\* GetStageStandings answers the same results with the same table, whatever the order in
\* which Go's map yields the rows; for football and the generic table, unless three entries
\* are level (the match between two of them may then form a cycle) or two of one name.
TablesStable ==
    stageType = "GROUP_ROUND_ROBIN" =>
        /\ NoThreeLevel(FootballColumns) /\ NoTwins(FootballColumns) =>
               Cardinality({FootballTable(o) : o \in Orders}) = 1
        /\ LET columns == PointsColumns(WinPoints, DrawPoints)
           IN  NoThreeLevel(columns) /\ NoTwins(columns) =>
                   Cardinality({PointsTable(WinPoints, DrawPoints, o) : o \in Orders}) = 1

\* The rules CalculateBadmintonStandings cites (BWF 16.2): matches won; two level go by
\* the match between them; three or more by games, then, if still three, by rallies.
RankedByRule(table) ==
    LET wins == Wins
        games == Difference
        rallies == RallyDifference
        level(S, column, a) == {e \in S : column[e] = column[a]}
    IN  \A a, b \in GroupEntries :
            Above(table, a, b) =>
                LET onWins == level(GroupEntries, wins, a)
                    onGames == level(onWins, games, a)
                    onRallies == level(onGames, rallies, a)
                IN  \/ wins[a] > wins[b]
                    \/ /\ b \in onWins
                       /\ \/ Cardinality(onWins) = 2 /\ ~Beat(b, a)
                          \/ Cardinality(onWins) > 2 /\ games[a] > games[b]
                          \/ /\ Cardinality(onWins) > 2 /\ b \in onGames
                             /\ \/ Cardinality(onGames) = 2 /\ ~Beat(b, a)
                                \/ Cardinality(onGames) > 2 /\ rallies[a] > rallies[b]
                                \/ /\ Cardinality(onGames) > 2 /\ b \in onRallies
                                   /\ Cardinality(onRallies) = 2 => ~Beat(b, a)

\* Two entries of one name that matches won, games and rallies leave level.
BadmintonTwins(a, b) ==
    /\ a # b /\ Name[a] = Name[b] /\ Wins[a] = Wins[b]
    /\ Difference[a] = Difference[b] /\ RallyDifference[a] = RallyDifference[b]

\* A badminton table is ranked by the rules for every order of the rows, and is the same for
\* every order unless two entries of one name are level to the end.
BadmintonByRule ==
    stageType = "GROUP_ROUND_ROBIN" =>
        LET tables == {BadmintonTable(o) : o \in Orders}
        IN  /\ \A table \in tables : RankedByRule(table)
            /\ (\A a, b \in GroupEntries : ~BadmintonTwins(a, b)) => Cardinality(tables) = 1

\* Two entries level on points are ranked by the match between them (the order of
\* tie-breakers that the comment of CalculateFootballStandings gives).  Not so in the
\* code, which compares goal difference and goals first.
HeadToHeadFirst ==
    stageType = "GROUP_ROUND_ROBIN" =>
        LET points == Points(3, 1)
            table == FootballTable(AnOrder)
        IN  \A a, b \in GroupEntries :
                /\ {e \in GroupEntries : points[e] = points[a]} = {a, b}
                /\ Beat(a, b)
                => Above(table, a, b)
=============================================================================
