--------------------------- MODULE MCRateLimiter ---------------------------
EXTENDS RateLimiterRecency, TLC

MCInstants == 0..3
Symmetry == Permutations(Source)
=============================================================================
