---------------------------- MODULE MCSlotChain ----------------------------
(* An instance of SlotChain: the probe and two extensions. *)
EXTENDS SlotChain

TwoExtensions == 2
SixServers    == 6
=============================================================================
