---------------------------- MODULE MCRaceTiming ----------------------------
(***************************************************************************)
(* A small instance of RaceTiming for TLC.                                 *)
(***************************************************************************)
EXTENDS RaceTiming, TLC

\* The chip c1 is read at the start and at the finish; 12 is read at the finish only, by
\* a provider that sends the bib, and within the window of c1's reading there.
MCReadings == {"s1", "f1", "f2"}
MCMat == [p \in MCReadings |-> IF p = "s1" THEN "START" ELSE "FINISH"]
MCTime == [p \in MCReadings |-> CASE p = "s1" -> 2 [] p = "f1" -> 6 [] p = "f2" -> 7]
MCChip == [p \in MCReadings |-> IF p = "f2" THEN "c2" ELSE "c1"]
MCBibOn == [p \in MCReadings |-> IF p = "f2" THEN 12 ELSE 0]
MCWave == [b \in {11, 12} |-> 1]

\* c1 is given to 12 by mistake, and to 11 in its place.
MCBibOf == [a \in Assigns |-> IF a = "wrong" THEN 12 ELSE 11]
MCChipFor == [a \in Assigns |-> "c1"]
MCReplace == [a \in Assigns |-> a # "wrong"]

\* The start must be read; or it may be missing, to be judged, and there is a limit.
MCPolicies == {
    [cutoff |-> 0, startMode |-> "CHIP_MANDATORY", allowMissingStart |-> FALSE,
     mandatory |-> {}, action |-> "DNF"],
    [cutoff |-> 5, startMode |-> "", allowMissingStart |-> TRUE,
     mandatory |-> {"START"}, action |-> "DSQ"]}
MCCsvRows == {[status |-> "FINISHED", net |-> -1, gun |-> -1, source |-> "CSV"]}

RunsAlike == Permutations(Runs)
=============================================================================
