-------------------------- MODULE MCFlagPrediction --------------------------
(***************************************************************************)
(* Every program of up to Last instructions drawn from a few classes, with *)
(* two flags: carry, which inc leaves alone, and zero.                     *)
(***************************************************************************)
EXTENDS FlagPrediction

CONSTANT
    Behind    \* may a reader that is no branch stand before a jump target

Plain(update, require) ==
    [update |-> update, require |-> require, writes |-> {update},
     dimension |-> 0, branch |-> 0, eob |-> FALSE]

Mov == Plain({}, {})
Cmp == Plain(Flags, {})
Inc == Plain({"zero"}, {})
Adc == Plain(Flags, {"carry"})
Sete == Plain({}, {"zero"})

Jmp(t) == [Plain({}, {}) EXCEPT !.dimension = 1, !.branch = t, !.eob = TRUE]
Jcc(flag, t) == [Plain({}, {flag}) EXCEPT !.dimension = 2, !.branch = t]
Indirect == Jmp(0)
Ret == [Plain({}, {}) EXCEPT !.eob = TRUE]

Classes == {Mov, Cmp, Inc, Adc, Sete, Ret, Indirect}
           \cup {Jmp(t) : t \in Image}
           \cup {Jcc(flag, t) : flag \in Flags, t \in Image}

MCPrograms == {p \in [Image -> Classes] : Behind \/ ReadersInside(p)}
=============================================================================
