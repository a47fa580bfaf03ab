------------------------------ MODULE MCSession ------------------------------
(* Model checking of Session: three files, the longest not new.            *)
EXTENDS Session

MCSize == <<2, 1, 2>>

=============================================================================
