----------------------------- MODULE MCWorkload -----------------------------
(* Instances of SyntheticWorkload for TLC.                                  *)
EXTENDS SyntheticWorkload

UniformLens == {1, 3, 5}
MCOutputLens == {0, 1, 2}
MCGaps == {0, 1, 3}
=============================================================================
