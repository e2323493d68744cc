---------------------------- MODULE MCDispatcher ----------------------------
(* Programs small enough to check the dispatcher on. *)
EXTENDS Dispatcher

I(kind, imm) == [kind |-> kind, imm |-> imm]

\* Calls from a loop, direct and through a register, of functions that nest
\* deeper than the return stack, conditional jumps into and over blocks that
\* are translated already, and a syscall.
Nested ==
    <<I("call", 6), I("call", 0), I("jcc", 1), I("syscall", 0), I("exit", 0),
      I("plain", 0), I("ret", 0), I("jcc", 6), I("call", 6), I("call", 8), I("jmp", 7)>>
NestedTargets == {6, 8, 9}

\* A function that returns to an address it pushed, one that drops its return
\* address, a jump through a register and the ends of the image.
Tampered ==
    <<I("call", 5), I("plain", 0), I("jmp", 0), I("unsupported", 0),
      I("jcc", 7), I("push", 3), I("ret", 0), I("pop", 0), I("jmp", 3)>>
TamperedTargets == {1, 4, 5, 8, 10}

MCHash == [g \in Guest |-> g % TlbSize]
MCFreed == Guest
=============================================================================
