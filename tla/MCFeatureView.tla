--------------------------- MODULE MCFeatureView ---------------------------
\* An instance of FeatureView for TLC: bars of a primary series and the
\* levels of an extended one.
EXTENDS FeatureView

CONSTANTS vix, us5y

MCSeries == {vix, us5y}
MCBars   == {vix}
MCScalar == {us5y}
MCRatio  == <<us5y, vix>>

\* Histories that lack the days of one set and are not positive on those of
\* another; elsewhere the levels vary.
History(absent, zero, bar) ==
    [d \in Days \ absent |->
       [level |-> IF d \in zero THEN 0 ELSE IF d \in {2, 5} THEN 2 ELSE 1, bar |-> bar]]

MCStart ==
    [s \in MCSeries |->
       IF s = vix THEN {History({}, {}, TRUE), History({}, {1}, TRUE), History({3}, {}, TRUE)}
                  ELSE {History({}, {}, FALSE), History({2}, {}, FALSE)}]
=============================================================================
