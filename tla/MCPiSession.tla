----------------------------- MODULE MCPiSession -----------------------------
(* Small instances of PiSession for TLC. *)
EXTENDS PiSession

\* Messages and tokens are only compared, so they are interchangeable.
DataSymmetry == Permutations(Message) \cup Permutations(Token)
=============================================================================
