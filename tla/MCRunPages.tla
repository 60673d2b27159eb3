----------------------------- MODULE MCRunPages -----------------------------
EXTENDS RunPages

CONSTANTS calm, aversive

\* No witness is configured for the micro-PK run.
NoUrls == <<>>
=============================================================================
