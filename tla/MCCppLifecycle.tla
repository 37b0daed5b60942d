--------------------------- MODULE MCCppLifecycle ---------------------------
(* Instances of CppLifecycle for TLC.                                      *)
EXTENDS CppLifecycle, TLC
CONSTANTS p1, p2, c1, c2
=============================================================================
