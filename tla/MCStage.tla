------------------------------ MODULE MCStage -------------------------------
(***************************************************************************)
(* Small instances of Stage for TLC.                                       *)
(***************************************************************************)
EXTENDS Stage, TLC

\* Five entries in the bracket: three byes, one match of round 1, the semifinal it
\* leads to, the final.
MCPath == {<<1, 2>>, <<2, 1>>, <<3, 1>>}

\* A clear win of the hosts, a close one of the guests and a draw: games and rallies
\* tie differently.
MCResults ==
    {[home |-> r[1], away |-> r[2], rally |-> r[3], completed |-> TRUE] :
        r \in {<<2, 0, 9>>, <<1, 1, 0>>, <<1, 2, -1>>}}

\* Two of the four entries have one name.
MCName == <<1, 2, 2, 3>>

CallsAlike == Permutations(Calls)
=============================================================================
