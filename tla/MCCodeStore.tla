----------------------------- MODULE MCCodeStore -----------------------------
(* Images small enough to translate in every order. *)
EXTENDS CodeStore

\* Instructions of one to three bytes on four pages of four: one crosses into
\* the next page, one ends with its page, the block from 0 covers three pages.
\* 15 is no instruction; those at 2 and 9 have no code.
AlignedSize == [x \in Address |-> CASE x \in {0, 9} -> 2
                                    [] x \in {2, 5, 11} -> 3
                                    [] x = 15 -> 0
                                    [] OTHER -> 1]
AlignedRiscv == [x \in Address |-> CASE x \in {2, 9} -> 0 [] x \in {0, 5} -> 2 [] OTHER -> 1]
AlignedEnds == {8, 11}
Boundaries == {0, 2, 5, 8, 9, 11, 14}
ASSUME AlignedReading == Size = AlignedSize => OneReading(Boundaries \cup {15})

\* Decoding from 1, 3, 5 or 8 yields other instructions than decoding from 0;
\* the one at 11 is translated to more than a batch holds; the image ends with
\* a return; those at 5 and 10 have no code.
JumbledSize == [x \in Address |-> CASE x \in {0, 2, 4, 5, 8, 10, 11, 14} -> 2
                                    [] x \in {1, 7} -> 3
                                    [] x = 15 -> 0
                                    [] OTHER -> 1]
JumbledRiscv == [x \in Address |-> CASE x = 11 -> 4 [] x \in {4, 7} -> 2 [] x \in {5, 10} -> 0 [] OTHER -> 1]
JumbledEnds == {3, 7, 14}
Anywhere == {0, 1, 3, 5, 6, 8, 10, 11, 14}
=============================================================================
