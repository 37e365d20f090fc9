----------------------------- MODULE MCSlotStore -----------------------------
(* Small instances of SlotStore for TLC. *)
EXTENDS SlotStore, TLC

\* Shells and prompts are only compared.
SlotSymmetry == Permutations(Shell) \cup Permutations(Prompt)
=============================================================================
