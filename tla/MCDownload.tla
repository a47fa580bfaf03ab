------------------------------ MODULE MCDownload ------------------------------
(* Model checking of Download: contents that share blocks.                 *)
EXTENDS Download

\* Two versions of one size that differ in their second block, then a longer
\* one, then one that is shorter than the first was.
MCContent == <<<<"a", "b">>, <<"a", "c">>, <<"a", "c", "d">>, <<"e">>>>

\* Seconds; versions two and three are within the tolerance of each other,
\* and are told apart by their size.
MCMtime == <<10, 20, 21, 30>>

=============================================================================
