----------------------------- MODULE MCCommands -----------------------------
(* Commands for Commands.  With MaxByte = 3 a count says at most three: there *)
(* are commands of none to four fields, and empty fields.                     *)
EXTENDS Commands

Ascii == {<<>>, <<<<1>>>>, <<<<1, 2>>, <<>>, <<2>>>>, <<<<>>, <<1>>>>, [i \in 1 .. 4 |-> <<1>>]}

ASSUME MCPlain == PlainInputs
=============================================================================
