--------------------------- MODULE MCServiceImages ---------------------------
\* Runs and contents of images are interchangeable.
EXTENDS ServiceImages, TLC

Interchangeable == Permutations(Runs) \cup Permutations(Ids)
=============================================================================
