----------------------------- MODULE MCDebugger -----------------------------
(***************************************************************************)
(* Four instructions: a nop, one of two bytes, a branch that may go back   *)
(* into its own block or on to the last one, and that one, a branch that   *)
(* may go back as well.  Blocks are translated in ascending and descending *)
(* order and overlap or end in front of one another.                       *)
(***************************************************************************)
EXTENDS Debugger

I(bytes, work, branch, next) == [bytes |-> bytes, work |-> work, branch |-> branch, next |-> next]
MCProgram == <<I(1, 0, FALSE, {2}), I(2, 2, FALSE, {3}), I(1, 1, TRUE, {1, 2, 4}),
               I(2, 1, TRUE, {2, 4})>>
=============================================================================
