--------------------------- MODULE MCBoardDevices ---------------------------
(***************************************************************************)
(* Instances of BoardDevices for TLC.                                      *)
(***************************************************************************)
EXTENDS BoardDevices

CONSTANTS k1, c1, c2

=============================================================================
