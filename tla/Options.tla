------------------------------ MODULE Options ------------------------------
(* An absent Option, shared by the modules of the command layer.           *)
CONSTANT None

\* Option::or
Or(a, b) == IF a = None THEN b ELSE a
=============================================================================
