--------------------------- MODULE MCReviewRound ---------------------------
EXTENDS ReviewRound
=============================================================================
