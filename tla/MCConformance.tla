--------------------------- MODULE MCConformance ---------------------------
\* An instance of Conformance for TLC: one sync session and the verifier.
EXTENDS Conformance

CONSTANTS cron, t1

MCOne      == {cron}
MCTime     == {t1}
MCReleases == {7, 8}
MCReshaped == [v \in {7, 8} |-> v]
=============================================================================
