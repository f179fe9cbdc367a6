---------------------------- MODULE MCProgressStream ----------------------------
(***************************************************************************)
(* Small instances of the progress streams for TLC.                        *)
(***************************************************************************)
EXTENDS ProgressStream, TLC

\* Handlers and streams are only compared with their own kind.
Symmetry == Permutations(Handlers) \cup Permutations(Streams)
=============================================================================
