---------------------------- MODULE MCSessions ----------------------------
(* A small instance of Sessions: two terminals and two branches, one of     *)
(* which the mutations of an external workspace rewrite.                     *)
EXTENDS Sessions
=============================================================================
