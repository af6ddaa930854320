------------------------- MODULE MCBronzeIngestion -------------------------
\* Instances of BronzeIngestion for TLC: ecb serves date ranges and is
\* lenient with failed requests, cboe serves whole files.
EXTENDS BronzeIngestion

CONSTANTS ecb, cboe

MCEcb  == {ecb}
MCCboe == {cboe}
MCBoth == {ecb, cboe}
MCNone == {}
=============================================================================
