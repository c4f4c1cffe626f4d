--------------------------- MODULE MCStreamClient ---------------------------
(* Small instances of StreamClient for TLC.                                *)
EXTENDS StreamClient, TLC

\* Connections are interchangeable, and no definition orders them.
Symmetry == Permutations(Consumers)
=============================================================================
