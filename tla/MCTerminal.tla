------------------------------ MODULE MCTerminal ---------------------------
(* An instance of Terminal for TLC.                                        *)
EXTENDS Terminal, TLC

ShortTexts == [t \in Printers |-> IF t = Boot THEN 1 ELSE 2]

\* At the end of the last row but one, and at the end of the last row.
AtTheEnd == {<<VGA_HEIGHT - 2, VGA_WIDTH - 1>>, <<VGA_HEIGHT - 1, VGA_WIDTH>>}

Symmetry == Permutations(Printers \ {Boot})
=============================================================================
