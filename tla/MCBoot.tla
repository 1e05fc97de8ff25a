------------------------------- MODULE MCBoot -------------------------------
(* A bank that holds the kernel, one behind it, and a piece too small to    *)
(* count, alone or together in one property.  The bitmap of the first takes *)
(* as much as FDT_WINDOW, those of both take more.                          *)
EXTENDS Boot

Low  == [base |-> 16, size |-> 32]
High == [base |-> 56, size |-> 6]
Tiny == [base |-> 96, size |-> 2]

MCBanks == {<<Low>>, <<High>>, <<Low, Tiny, High>>}

\* In the mapped range: before the kernel, just behind the window, far behind;
\* and out of that range.
MCPlaces == {16, 36, 58, 90}
=============================================================================
