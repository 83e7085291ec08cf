------------------------------ MODULE MCResultPool ------------------------------
(* Model-checking instances of ResultPool.  Every constant is a model value *)
(* or a number, given in the .cfg files.                                    *)
EXTENDS ResultPool

================================================================================
