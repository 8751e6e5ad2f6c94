------------------------------ MODULE MCPanels ------------------------------
(***************************************************************************)
(* Every panel, with two rows and two requests.                            *)
(***************************************************************************)
EXTENDS Panels, TLC

CONSTANTS i1, i2, s1, s2

MCItems == {i1, i2}
MCSlots == {s1, s2}
MCSymmetry == Permutations(MCItems) \cup Permutations(MCSlots)
=============================================================================
