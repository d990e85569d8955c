------------------------- MODULE MCAdaptiveLimiter -------------------------
\* Bounded instance of AdaptiveLimiter: as many tasks as the ceiling, as in the
\* sender pool, so that a throttle can leave two of three tasks parked.
EXTENDS AdaptiveLimiter

CONSTANTS t1, t2, t3

MCTasks == {t1, t2, t3}

=============================================================================
