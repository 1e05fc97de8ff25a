------------------------------- MODULE MCPmm -------------------------------
(* Two regions of physical memory for TLC, two address units to the page:   *)
(* four pages from address 2, and next to them two and a half pages from    *)
(* address 10.  A run must not cross from one to the other, and the half    *)
(* page has no bit.                                                         *)
EXTENDS PmmScan

MCBase == <<2, 10>>
MCSize == <<8, 5>>
=============================================================================
