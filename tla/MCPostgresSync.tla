-------------------------- MODULE MCPostgresSync --------------------------
\* Instances of PostgresSync for TLC.
EXTENDS PostgresSync, TLC

CONSTANTS cron, manual, t1, t2

MCOne    == {cron}
MCTwo    == {cron, manual}
MCTimes  == {t1, t2}
MCTime   == {t1}
MCReleases  == {7, 8}
MCThree     == {7, 8, 9}
MCRelease   == {7}

\* Every release changes the layout of the rows, or just the last one does.
MCReshaped  == [v \in {7, 8} |-> v]
MCMixed     == 7 :> 7 @@ 8 :> 7 @@ 9 :> 9
MCShape     == [v \in {7} |-> 7]

MCSymmetry == Permutations(MCTwo) \cup Permutations(MCTimes)
=============================================================================
