------------------------------ MODULE MCFileSync ------------------------------
(* Small instances of FileSync for TLC. *)
EXTENDS FileSync

CONSTANTS a, b
===============================================================================
