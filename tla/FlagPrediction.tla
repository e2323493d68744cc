--------------------------- MODULE FlagPrediction ---------------------------
(***************************************************************************)
(* The x86 flags are kept lazily: an instruction stores the operands a     *)
(* flag can be computed from, and only for the flags the translator        *)
(* predicts to be read later.  The prediction is made once, when the block *)
(* is translated, walking the block backwards (translate) and what may     *)
(* follow it forwards (recursive_flag_requirements).  A wrong prediction   *)
(* is a reader that finds the operands of an older instruction.            *)
(***************************************************************************)
EXTENDS Naturals

CONSTANTS
    Last,      \* the executable image is 1..Last, one instruction at each
    Flags,     \* flags::all
    Programs,  \* the guest programs of the model
    Depth      \* _flag_prediction_depth

Image == 1..Last
Addresses == 1..(Last + 1)

\* update and require are the flags the instruction's class declares; writes
\* holds every set of flags its execution may change on a processor, and
\* stores, in the translation, as far as it is told to.  branch is the target
\* of a direct branch, 0 for every other instruction.
Instructions == [update : SUBSET Flags, require : SUBSET Flags,
                 writes : SUBSET SUBSET Flags,
                 dimension : 0..2, branch : Addresses \cup {0}, eob : BOOLEAN]

ASSUME LastAssumption == Last \in Nat \ {0}
\* A direct branch updates no flag, an indirect one ends its block.
Regular(i) == /\ i.branch # 0 => i.dimension # 0 /\ i.update = {}
              /\ i.branch = 0 /\ i.dimension # 0 => i.eob
ASSUME ProgramsAssumption ==
    /\ Programs \subseteq [Image -> Instructions]
    /\ \A p \in Programs : \A a \in Image : Regular(p[a])
ASSUME DepthAssumption == Depth \in Nat

VARIABLES
    prog,   \* the instruction at every address
    ip,     \* the instruction that runs next
    need,   \* the flags each translated instruction was told to update
    fresh   \* the flags whose stored operands are those of their last writer

vars == <<prog, ip, need, fresh>>

\* flags::Info is set up for a guest that starts with every flag clear.
Init == /\ prog \in Programs
        /\ ip = 1
        /\ need = [a \in {} |-> {}]
        /\ fresh = Flags

-----------------------------------------------------------------------------
(* recursive_flag_requirements *)

Decodes(a) == a \in Image

\* Where the prediction goes on behind a direct branch.
\* (A bug: not where the guest goes on if the branch is not taken.)
TakenOnly(a) == {prog[a].branch}
Followed(a) == IF prog[a].dimension = 2 THEN {prog[a].branch, a + 1}
                                        ELSE {prog[a].branch}

\* What a run of the loop goes on with: the levels of the recursion left, the
\* address, the flags still unclear and those found to be needed.
Queries == [depth : 0..Depth, addr : Addresses, unclear : SUBSET Flags, must : SUBSET Flags]
Call(depth, a, unclear) == [depth |-> depth, addr |-> a, unclear |-> unclear, must |-> {}]

\* One iteration of the loop.  The filter by unclear is not applied to
\* requirements: they are all reported.
Search[q \in Queries] ==
    IF q.depth = 0 THEN q.unclear
    ELSE IF ~Decodes(q.addr) THEN q.unclear \cup q.must
    ELSE LET i == prog[q.addr]
             must == q.must \cup i.require
             unclear == q.unclear \ i.update
             rest == unclear \ must
         IN  IF i.dimension # 0
             THEN IF i.branch # 0
                  THEN must \cup UNION {Search[Call(q.depth - 1, t, unclear)] : t \in Followed(q.addr)}
                  ELSE must \cup q.unclear
             ELSE IF rest = {} \/ i.eob THEN rest \cup must
                  ELSE Search[[q EXCEPT !.addr = @ + 1, !.unclear = rest, !.must = must]]

Required(unclear, a) == Search[Call(Depth, a, unclear)]

-----------------------------------------------------------------------------
(* CodeGenerator::translate *)

Known(a) == a \in DOMAIN need

\* The block from g ends with an instruction that ends every block, or in
\* front of one that is translated already.
Closes(a) == prog[a].eob \/ Known(a + 1)
IsBlock(g, e) == /\ g <= e
                 /\ \A a \in g..e : Decodes(a)
                 /\ Closes(e)
                 /\ \A a \in g..(e - 1) : ~Closes(a)

\* What the last instruction asks of those before it.  A direct branch adds
\* its own requirements to those behind it.  An instruction that runs into the
\* next block does not, and hands on the flags it updates itself as well.
\* Whatever ends the block otherwise needs every flag.
LastAsks(e) ==
    IF prog[e].branch # 0
    THEN prog[e].require
         \cup UNION {Required(Flags \ prog[e].update, t) : t \in Followed(e)}
    ELSE IF prog[e].eob THEN Flags ELSE Required(Flags, e + 1)

LastNeed(e) == IF prog[e].branch = 0 /\ prog[e].eob THEN prog[e].update
                                                    ELSE LastAsks(e)

\* What the instruction at a asks of those before it, if the rest of the
\* block asks after of it.
KeptOf(a, after) == (after \ prog[a].update) \cup prog[a].require
\* (A bug: only the way behind the branch is looked at.)
AskWithoutTarget(a, after) == KeptOf(a, after)
Ask(a, after) ==
    LET kept == KeptOf(a, after)
    IN  IF prog[a].dimension = 0 THEN kept
        ELSE IF prog[a].branch = 0 THEN Flags
        ELSE kept \cup Required(Flags \ (prog[a].update \cap kept), prog[a].branch)

\* What every instruction of the block g..e asks of those before it, found
\* from the last one backwards, and the flags it is told to update.
AsksOf(g, e) ==
    LET asks[a \in g..e] == IF a = e THEN LastAsks(e) ELSE Ask(a, asks[a + 1])
    IN  asks

NeedOf(g, e) ==
    LET asks == AsksOf(g, e)
    IN  [a \in g..e |-> IF a = e THEN LastNeed(e)
                                 ELSE prog[a].update \cap asks[a + 1]]

Translate ==
    /\ ip \in Image /\ ~Known(ip)
    /\ \E e \in Image :
        /\ IsBlock(ip, e)
        /\ need' = [a \in DOMAIN need \cup ip..e |->
                        IF Known(a) THEN need[a] ELSE NeedOf(ip, e)[a]]
    /\ UNCHANGED <<prog, ip, fresh>>

-----------------------------------------------------------------------------
(* The translated code *)

\* A return counts as no branch for the prediction: it ends its block.
Jumps(i) == i.dimension # 0 \/ i.eob
Targets(a) == IF prog[a].branch = 0 THEN Image ELSE {prog[a].branch}
Successors(a) == (IF Jumps(prog[a]) THEN Targets(a) ELSE {})
                 \cup (IF prog[a].dimension = 1 THEN {} ELSE {a + 1})

\* Every update_* helper of the instruction returns at once for a flag it was
\* not told to update: what is stored for that flag is out of date then.
Execute ==
    /\ ip \in DOMAIN need
    /\ \E written \in prog[ip].writes :
        fresh' = (fresh \ written) \cup (written \cap need[ip])
    /\ ip' \in Successors(ip)
    /\ UNCHANGED <<prog, need>>

Next == Translate \/ Execute

Spec == Init /\ [][Next]_vars

-----------------------------------------------------------------------------
(* The programs the prediction is right for *)

\* An instruction changes the flags its class declares, all of them and no other.
WritesDeclared(p) == \A a \in Image : p[a].writes \subseteq {p[a].update}

\* No block starts right behind a reader that is no branch.
Reads(i) == i.dimension = 0 /\ i.require # {}
ReadersInside(p) ==
    \A a \in Image : Reads(p[a]) =>
        \A b \in Image : Jumps(p[b]) => p[b].branch \notin {0, a + 1}

-----------------------------------------------------------------------------
(* Properties *)

\* Every flag an instruction reads is the one the last x86 instruction that
\* changes it left: a prediction made once per block, from the bounded look
\* ahead, holds for every path the guest takes into, through and out of it
\* (codegen.cpp:62-121, instruction.cpp:396-530).
FlagsFresh == ip \in DOMAIN need => prog[ip].require \subseteq fresh

\* The flags n instructions from a on may read before they overwrite them:
\* liveness as a compiler defines it, over all paths.
Live[n \in 0..Last] ==
    [a \in Addresses |->
        IF n = 0 \/ a \notin Image THEN {}
        ELSE prog[a].require
             \cup {f \in UNION {Live[n - 1][t] : t \in Successors(a)} :
                      \E written \in prog[a].writes : f \notin written}]

\* The bounded recursive search never misses a live flag, wherever it starts
\* and however it runs out of depth, image or direct branches
\* (codegen.cpp:237-299).  A property of the program alone: it is evaluated
\* before anything is translated.
SearchCoversLive ==
    DOMAIN need = {} => \A a \in Image : Live[Last][a] \subseteq Required(Flags, a)
=============================================================================
