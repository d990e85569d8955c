-------------------------- MODULE MCImportPipeline --------------------------
\* Bounded instances of ImportPipeline for TLC.  Sizes are chosen against
\* MaxInFlight = 4: two small batches fit together, an oversized one exceeds
\* the cap and must travel alone.
EXTENDS ImportPipeline

CONSTANTS w1, w2

TwoWorkers == {w1, w2}

SmallThenOversized == [b \in Batches |-> IF b = 2 THEN 6 ELSE 2]
AllSmall           == [b \in Batches |-> 1]

=============================================================================
