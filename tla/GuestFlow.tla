------------------------------ MODULE GuestFlow ------------------------------
(***************************************************************************)
(* What the translator promises about control flow: the guest executes as  *)
(* on an x86 processor, one instruction of the program after the other,    *)
(* with returns that go where the guest's own stack says.  Nothing of the  *)
(* translator is visible here: no host address, no cache, no rerouting.    *)
(***************************************************************************)
EXTENDS GuestProgram

VARIABLES
    ip,      \* the address of the next x86 instruction
    stack,   \* the guest's stack, top at the end
    status   \* "run", or how the guest ended

vars == <<ip, stack, status>>

Statuses == {"run", "exit", "fault", "killed"}

TypeOK == /\ ip \in Guest
          /\ stack \in Seq(Guest)
          /\ status \in Statuses

Init == /\ ip = Entry
        /\ stack = <<Argc>>
        /\ status = "run"

Top == stack[Len(stack)]
Pushed(w) == Append(stack, w)
Popped == SubSeq(stack, 1, Len(stack) - 1)

At(kinds) == status = "run" /\ ip \in Image /\ Kind(ip) \in kinds

Sequential == /\ At({"plain", "jcc", "syscall"})
              /\ ip' = ip + 1
              /\ UNCHANGED <<stack, status>>

Branch == /\ At({"jmp", "jcc"})
          /\ ip' \in BranchTargets(ip)
          /\ UNCHANGED <<stack, status>>

Call == /\ At({"call"})
        /\ Len(stack) < StackSize
        /\ ip' \in BranchTargets(ip)
        /\ stack' = Pushed(ip + 1)
        /\ UNCHANGED status

Push == /\ At({"push"})
        /\ Len(stack) < StackSize
        /\ ip' = ip + 1
        /\ stack' = Pushed(Prog[ip].imm)
        /\ UNCHANGED status

Pop == /\ At({"pop"})
       /\ stack # << >>
       /\ ip' = ip + 1
       /\ stack' = Popped
       /\ UNCHANGED status

Ret == /\ At({"ret"})
       /\ stack # << >>
       /\ ip' = Top
       /\ stack' = Popped
       /\ UNCHANGED status

Exit == /\ At({"exit"})
        /\ status' = "exit"
        /\ UNCHANGED <<ip, stack>>

\* The guest leaves its stack and the host kills the process.
Killed == /\ \/ At({"call", "push"}) /\ Len(stack) >= StackSize
             \/ At({"pop", "ret"}) /\ stack = << >>
          /\ status' = "killed"
          /\ UNCHANGED <<ip, stack>>

\* fault_exit: the guest is at an address it may not execute, at an
\* instruction the translator does not know, or on a straight line that runs
\* off the image.  The last is reported when the line is entered and not when
\* its end is reached: a block is decoded to its end before it runs.
Fault == /\ status = "run"
         /\ \/ ip \notin Image
            \/ At({"unsupported"})
            \/ RunsOff(ip)
         /\ status' = "fault"
         /\ UNCHANGED <<ip, stack>>

Next == Sequential \/ Branch \/ Call \/ Push \/ Pop \/ Ret \/ Exit \/ Killed \/ Fault

Spec == Init /\ [][Next]_vars

FairSpec == Spec /\ WF_vars(Next)
=============================================================================
