--------------------------- MODULE MCSilverBuild ---------------------------
\* An instance of SilverBuild for TLC.
EXTENDS SilverBuild

CONSTANTS vix, estr

MCOne == {vix}
MCTwo == {vix, estr}
=============================================================================
