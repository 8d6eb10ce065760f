------------------------- MODULE MCStudentRecording -------------------------
EXTENDS StudentRecording, TLC
CONSTANTS t1, t2
Symmetry == Permutations(Tabs)
=============================================================================
