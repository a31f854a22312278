------------------------------ MODULE MCRuntime ------------------------------
EXTENDS RuntimeProperties, TLC

SegmentSymmetry == Permutations(Segments)

MCOneText == {<<1, 2>>}

MCTexts == {<<1, 2>>, <<1, 3>>}

=============================================================================
