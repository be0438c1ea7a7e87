------------------------- MODULE MCRangeArithmetic -------------------------
EXTENDS RangeOperations

\* A word of three bits: every pair of ranges, legal or wrapped, and every
\* pair of words in them, is an input of every operation.
MCM == 8

\* One bit more: every range of it is an operand of the additions between
\* an extension and a truncation.
MCD == 16
=============================================================================
