---------------------------- MODULE TranslationMap ----------------------------
(***************************************************************************)
(* What CodeGenerator::translate promises to its callers: a map from x86   *)
(* addresses to their translations that grows when an address without one  *)
(* is asked for and never changes otherwise, however the blocks behind it  *)
(* are cut, where they lie and in what order they are made.  No block,     *)
(* page or buffer is visible here.                                         *)
(***************************************************************************)
EXTENDS Naturals

CONSTANTS
    Address,   \* x86 addresses of the image
    Targets,   \* those the guest jumps to
    FirstCode  \* the first address from an address on whose instruction has code

VARIABLES
    known,    \* the translation of every address, or Null
    answer,   \* the last address asked for, and what was answered
    status    \* "idle", "adding" while the answer is made, or "fault"

vars == <<known, answer, status>>

Null == 0
Nothing == [x \in Address |-> Null]

Init == known = Nothing /\ answer = [x86 |-> 0, riscv |-> Null] /\ status = "idle"

\* Two addresses share a translation only if the guest does the same from both:
\* nothing stands between them but instructions without code.
Unshared(map) ==
    \A x, y \in Address : map[x] = map[y] /\ map[x] # Null => FirstCode[x] = FirstCode[y]

Recall(x) == /\ status = "idle" /\ known[x] # Null
             /\ answer' = [x86 |-> x, riscv |-> known[x]]
             /\ UNCHANGED <<known, status>>

\* Only an address that has no translation is translated.
Begin(x) == /\ status = "idle" /\ known[x] = Null
            /\ answer' = [x86 |-> x, riscv |-> Null]
            /\ status' = "adding"
            /\ UNCHANGED known

\* What was known stays, whatever becomes known with the address.
Finish == /\ status = "adding"
          /\ known' \in [Address -> Nat] /\ Unshared(known')
          /\ \A x \in Address : known[x] # Null => known'[x] = known[x]
          /\ known'[answer.x86] # Null
          /\ answer' = [answer EXCEPT !.riscv = known'[answer.x86]]
          /\ status' = "idle"

\* The process ends, and its translations with it: never over an address that
\* has one.
Fail == /\ \/ status = "adding"
           \/ status = "idle" /\ \E x \in Targets : known[x] = Null
        /\ known' = Nothing /\ status' = "fault"
        /\ UNCHANGED answer

Next == Finish \/ Fail \/ \E x \in Targets : Recall(x) \/ Begin(x)

Spec == Init /\ [][Next]_vars
=============================================================================
