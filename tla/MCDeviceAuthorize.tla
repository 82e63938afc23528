------------------------- MODULE MCDeviceAuthorize -------------------------
(***************************************************************************)
(* Two accounts of one browser, two handles, one agent tag.                *)
(***************************************************************************)
EXTENDS DeviceAuthorize, TLC

Symmetric == Permutations(Accounts) \cup Permutations(Handles) \cup Permutations(Holders)
=============================================================================
