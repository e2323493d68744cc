------------------------- MODULE FlagPredictionProofs -------------------------
(***************************************************************************)
(* The flag prediction misses no flag that is live, for every program of   *)
(* instructions that change the flags they declare, and no reader finds    *)
(* operands that are out of date, if no block starts right behind a reader *)
(* that is no branch.                                                      *)
(***************************************************************************)
EXTENDS FlagPrediction, Induction

-----------------------------------------------------------------------------
(* The flags that are live, over paths of any length *)

Survives(f, a) == \E written \in prog[a].writes : f \notin written

\* W holds at every address the flags read there, and those of W behind it
\* that the instruction may leave alone.
Closed(W) ==
    /\ W \in [Addresses -> SUBSET Flags]
    /\ \A a \in Image :
        /\ prog[a].require \subseteq W[a]
        /\ \A t \in Successors(a) : \A f \in W[t] : Survives(f, a) => f \in W[a]

LiveAt(a) == {f \in Flags : \A W \in [Addresses -> SUBSET Flags] : Closed(W) => f \in W[a]}

\* What every lemma needs to know of the program.
ProgramOK == prog \in Programs

LEMMA InstructionType ==
    ASSUME ProgramOK, NEW a \in Image
    PROVE  /\ prog[a].update \subseteq Flags /\ prog[a].require \subseteq Flags
           /\ prog[a].dimension \in 0..2 /\ prog[a].branch \in Addresses \cup {0}
           /\ prog[a].eob \in BOOLEAN
           /\ prog[a].branch # 0 => prog[a].dimension # 0 /\ prog[a].update = {}
           /\ prog[a].branch = 0 /\ prog[a].dimension # 0 => prog[a].eob
<1>1. prog \in [Image -> Instructions] /\ Regular(prog[a])
  BY ProgramsAssumption DEF ProgramOK
<1>2. prog[a] \in Instructions
  BY <1>1
<1> QED
  BY <1>1, <1>2 DEF Instructions, Regular

LEMMA SuccessorsAre ==
    ASSUME ProgramOK, NEW a \in Image
    PROVE  /\ Successors(a) \subseteq Addresses
           /\ prog[a].branch # 0 => Successors(a) = Followed(a)
           /\ ~Jumps(prog[a]) => Successors(a) = {a + 1}
<1>1. a + 1 \in Addresses /\ Image \subseteq Addresses
  BY LastAssumption DEF Image, Addresses
<1>2. Targets(a) \subseteq Addresses
  BY <1>1, InstructionType DEF Targets
<1>3. prog[a].branch # 0 => Successors(a) = Followed(a)
  BY InstructionType DEF Successors, Followed, Targets, Jumps
<1>4. ~Jumps(prog[a]) => Successors(a) = {a + 1}
  BY DEF Successors, Jumps
<1> QED
  BY <1>1, <1>2, <1>3, <1>4 DEF Successors

\* What is live is closed itself,
LEMMA LiveAtClosed ==
    ASSUME ProgramOK, NEW a \in Image
    PROVE  /\ prog[a].require \subseteq LiveAt(a)
           /\ \A t \in Successors(a) : \A f \in LiveAt(t) : Survives(f, a) => f \in LiveAt(a)
<1>1. prog[a].require \subseteq LiveAt(a)
  BY InstructionType DEF LiveAt, Closed
<1>2. ASSUME NEW t \in Successors(a), NEW f \in LiveAt(t), Survives(f, a)
      PROVE  f \in LiveAt(a)
  BY <1>2 DEF LiveAt, Closed
<1> QED
  BY <1>1, <1>2

\* and is so for a reason: a flag that is live is read at once, or survives
\* the instruction and is live behind it.
LEMMA LiveAtUnfolds ==
    ASSUME ProgramOK, NEW a \in Image, NEW f \in LiveAt(a)
    PROVE  \/ f \in prog[a].require
           \/ Survives(f, a) /\ \E t \in Successors(a) : f \in LiveAt(t)
<1> DEFINE Behind == {g \in Flags : Survives(g, a) /\ \E t \in Successors(a) : g \in LiveAt(t)}
           W == [b \in Addresses |-> IF b = a THEN prog[a].require \cup Behind ELSE LiveAt(b)]
<1>1. Image \subseteq Addresses
  BY LastAssumption DEF Image, Addresses
<1>2. \A b : LiveAt(b) \subseteq Flags
  BY DEF LiveAt
<1>3. W \in [Addresses -> SUBSET Flags]
  BY <1>2, InstructionType
<1>4. \A b \in Addresses : W[b] \subseteq LiveAt(b)
  BY LiveAtClosed
<1>5. ASSUME NEW b \in Image
      PROVE  /\ prog[b].require \subseteq W[b]
             /\ \A t \in Successors(b) : \A g \in W[t] : Survives(g, b) => g \in W[b]
  <2>1. \A t \in Successors(b) : t \in Addresses
    BY SuccessorsAre
  <2>2. \A t \in Successors(b) : \A g \in W[t] : g \in LiveAt(t) /\ g \in Flags
    BY <1>2, <1>4, <2>1
  <2>3. CASE b = a
    <3>1. W[b] = prog[a].require \cup Behind
      BY <1>1, <2>3
    <3> HIDE DEF W
    <3> QED
      BY <2>2, <2>3, <3>1
  <2>4. CASE b # a
    <3>1. W[b] = LiveAt(b)
      BY <1>1, <2>4
    <3> HIDE DEF W
    <3> QED
      BY <2>2, <3>1, LiveAtClosed
  <2> QED
    BY <2>3, <2>4
<1>6. Closed(W)
  <2> HIDE DEF W
  <2> QED
    BY <1>3, <1>5 DEF Closed
<1>7. f \in W[a]
  <2> HIDE DEF W
  <2> QED
    BY <1>3, <1>6 DEF LiveAt
<1>8. W[a] = prog[a].require \cup Behind
  BY <1>1
<1> QED
  BY <1>7, <1>8

\* The flags live at an instruction that declares what it changes.
LEMMA LiveAtDeclared ==
    ASSUME ProgramOK, WritesDeclared(prog), NEW a \in Image, NEW f \in LiveAt(a)
    PROVE  \/ f \in prog[a].require
           \/ f \notin prog[a].update /\ \E t \in Successors(a) : f \in LiveAt(t)
BY LiveAtUnfolds DEF Survives, WritesDeclared

-----------------------------------------------------------------------------
(* The search *)

\* The body of Search, and what decreases from call to call.
SearchStep(f, q) ==
    IF q.depth = 0 THEN q.unclear
    ELSE IF ~Decodes(q.addr) THEN q.unclear \cup q.must
    ELSE LET i == prog[q.addr]
             must == q.must \cup i.require
             unclear == q.unclear \ i.update
             rest == unclear \ must
         IN  IF i.dimension # 0
             THEN IF i.branch # 0
                  THEN must \cup UNION {f[Call(q.depth - 1, t, unclear)] : t \in Followed(q.addr)}
                  ELSE must \cup q.unclear
             ELSE IF rest = {} \/ i.eob THEN rest \cup must
                  ELSE f[[q EXCEPT !.addr = @ + 1, !.unclear = rest, !.must = must]]

Ahead(q) == q.depth * (Last + 2) + ((Last + 1) - q.addr)

LEMMA AheadType ==
    ASSUME NEW q \in Queries
    PROVE  /\ q.depth \in Nat /\ q.addr \in Nat /\ q.addr <= Last + 1
           /\ Ahead(q) \in Nat
<1>1. q.depth \in Nat /\ q.addr \in Nat /\ 1 <= q.addr /\ q.addr <= Last + 1
  BY DepthAssumption, LastAssumption DEF Queries, Addresses
<1>2. q.depth * (Last + 2) \in Nat
  BY <1>1, LastAssumption
<1>3. (Last + 1) - q.addr \in Nat
  BY <1>1, LastAssumption
<1> QED
  BY <1>1, <1>2, <1>3 DEF Ahead

\* The queries the search goes on with.
Onward(q) == [q EXCEPT !.addr = @ + 1,
                       !.unclear = (@ \ prog[q.addr].update) \ (q.must \cup prog[q.addr].require),
                       !.must = @ \cup prog[q.addr].require]
Branching(q, t) == Call(q.depth - 1, t, q.unclear \ prog[q.addr].update)

LEMMA OnwardAhead ==
    ASSUME ProgramOK, NEW q \in Queries, q.addr \in Image
    PROVE  /\ Onward(q) \in Queries /\ Ahead(Onward(q)) < Ahead(q)
           /\ Onward(q).depth = q.depth /\ Onward(q).addr = q.addr + 1
           /\ Onward(q).unclear = (q.unclear \ prog[q.addr].update) \ (q.must \cup prog[q.addr].require)
           /\ Onward(q).must = q.must \cup prog[q.addr].require
<1>1. /\ Onward(q).depth = q.depth /\ Onward(q).addr = q.addr + 1
      /\ Onward(q).unclear = (q.unclear \ prog[q.addr].update) \ (q.must \cup prog[q.addr].require)
      /\ Onward(q).must = q.must \cup prog[q.addr].require
  BY DEF Onward, Queries
<1>2. Onward(q) \in Queries
  <2>1. prog[q.addr].require \subseteq Flags
    BY InstructionType
  <2>2. q.addr + 1 \in Addresses
    BY LastAssumption DEF Image, Addresses
  <2> QED
    BY <2>1, <2>2 DEF Onward, Queries
<1>3. Ahead(Onward(q)) < Ahead(q)
  <2> DEFINE d == q.depth * (Last + 2)
  <2>1. d \in Nat /\ q.addr \in Nat
    BY AheadType, LastAssumption
  <2>2. Ahead(q) = d + ((Last + 1) - q.addr) /\ Ahead(Onward(q)) = d + ((Last + 1) - (q.addr + 1))
    BY <1>1 DEF Ahead
  <2> HIDE DEF d
  <2> QED
    BY <2>1, <2>2, LastAssumption
<1> QED
  BY <1>1, <1>2, <1>3

LEMMA BranchingAhead ==
    ASSUME ProgramOK, NEW q \in Queries, q.addr \in Image, q.depth # 0, NEW t \in Addresses
    PROVE  /\ Branching(q, t) \in Queries /\ Ahead(Branching(q, t)) < Ahead(q)
           /\ Branching(q, t).addr = t
           /\ Branching(q, t).unclear = q.unclear \ prog[q.addr].update
<1>1. /\ Branching(q, t).depth = q.depth - 1 /\ Branching(q, t).addr = t
      /\ Branching(q, t).unclear = q.unclear \ prog[q.addr].update
  BY DEF Branching, Call
<1>2. Branching(q, t) \in Queries
  <2>1. q.depth - 1 \in 0..Depth
    BY DepthAssumption DEF Queries
  <2> QED
    BY <2>1 DEF Branching, Call, Queries
<1>3. Ahead(Branching(q, t)) < Ahead(q)
  <2> DEFINE d == (q.depth - 1) * (Last + 2)
  <2>1. q.depth - 1 \in Nat /\ q.addr \in Nat /\ q.addr <= Last + 1
    BY AheadType
  <2>2. d \in Nat
    BY <2>1, LastAssumption
  <2>3. q.depth * (Last + 2) = d + (Last + 2)
    BY <2>1, AheadType, LastAssumption
  <2>4. Ahead(q) = (d + (Last + 2)) + ((Last + 1) - q.addr) /\ Ahead(Branching(q, t)) = d + ((Last + 1) - t)
    BY <1>1, <2>3 DEF Ahead
  <2> HIDE DEF d
  <2>5. t \in Nat /\ t >= 1
    BY LastAssumption DEF Addresses
  <2> QED
    BY <2>1, <2>2, <2>4, <2>5, LastAssumption
<1> QED
  BY <1>1, <1>2, <1>3

\* The search by the shape of the instruction.
LEMMA SearchSteps ==
    ASSUME ProgramOK, NEW q \in Queries, NEW f
    PROVE  SearchStep(f, q) =
               IF q.depth = 0 THEN q.unclear
               ELSE IF q.addr \notin Image THEN q.unclear \cup q.must
               ELSE IF prog[q.addr].dimension # 0
               THEN q.must \cup prog[q.addr].require
                    \cup (IF prog[q.addr].branch # 0
                          THEN UNION {f[Branching(q, t)] : t \in Followed(q.addr)}
                          ELSE q.unclear)
               ELSE IF Onward(q).unclear = {} \/ prog[q.addr].eob
               THEN Onward(q).unclear \cup Onward(q).must
               ELSE f[Onward(q)]
<1>1. /\ Onward(q).unclear = (q.unclear \ prog[q.addr].update) \ (q.must \cup prog[q.addr].require)
      /\ Onward(q).must = q.must \cup prog[q.addr].require
  BY DEF Onward, Queries
<1>2. Onward(q) = [q EXCEPT !.addr = @ + 1,
                            !.unclear = (q.unclear \ prog[q.addr].update) \ (q.must \cup prog[q.addr].require),
                            !.must = q.must \cup prog[q.addr].require]
  BY DEF Onward, Queries
<1> QED
  BY <1>1, <1>2 DEF SearchStep, Branching, Decodes

LEMMA FollowedAre ==
    ASSUME ProgramOK, NEW a \in Image, prog[a].branch # 0
    PROVE  Followed(a) \subseteq Addresses
BY SuccessorsAre

\* The recursion has a solution, so Search is one.
LEMMA SearchEquation ==
    ASSUME ProgramOK
    PROVE  Search = [q \in Queries |-> SearchStep(Search, q)]
<1> DEFINE V == SUBSET Flags
           F == [Queries -> V]
           m == [q \in Queries |-> Ahead(q)]
           body == [f \in F |-> [q \in Queries |-> SearchStep(f, q)]]
<1>1. m \in [Queries -> Nat] /\ V # {}
  BY AheadType
<1>2. ASSUME NEW f \in F, NEW q \in Queries PROVE SearchStep(f, q) \in V
  <2> HIDE DEF F, V
  <2>0. \A r \in Queries : f[r] \in SUBSET Flags
    BY DEF F, V
  <2>1. q.unclear \subseteq Flags /\ q.must \subseteq Flags
    BY DEF Queries
  <2>2. CASE q.depth = 0 \/ q.addr \notin Image
    BY <2>1, <2>2, SearchSteps DEF V
  <2>3. CASE q.depth # 0 /\ q.addr \in Image
    <3>1. prog[q.addr].require \subseteq Flags
      BY <2>3, InstructionType
    <3>2. CASE prog[q.addr].dimension # 0 /\ prog[q.addr].branch # 0
      <4>1. SearchStep(f, q) = q.must \cup prog[q.addr].require
                               \cup UNION {f[Branching(q, t)] : t \in Followed(q.addr)}
        BY <2>3, <3>2, SearchSteps
      <4>2. \A t \in Followed(q.addr) : f[Branching(q, t)] \in SUBSET Flags
        <5>1. \A t \in Followed(q.addr) : t \in Addresses
          BY <2>3, <3>2, FollowedAre
        <5> QED
          BY <2>0, <2>3, <5>1, BranchingAhead
      <4>3. UNION {f[Branching(q, t)] : t \in Followed(q.addr)} \subseteq Flags
        BY <4>2
      <4> QED
        BY <2>1, <3>1, <4>1, <4>3 DEF V
    <3>3. CASE prog[q.addr].dimension # 0 /\ prog[q.addr].branch = 0
      BY <2>1, <2>3, <3>1, <3>3, SearchSteps DEF V
    <3>4. CASE prog[q.addr].dimension = 0
      <4>1. Onward(q) \in Queries
        BY <2>3, OnwardAhead
      <4>2. Onward(q).unclear \subseteq Flags /\ Onward(q).must \subseteq Flags
        BY <4>1 DEF Queries
      <4>3. f[Onward(q)] \in SUBSET Flags
        BY <2>0, <4>1
      <4> QED
        BY <2>3, <3>4, <4>2, <4>3, SearchSteps DEF V
    <3> QED
      BY <3>2, <3>3, <3>4
  <2> QED
    BY <2>2, <2>3
<1>3. body \in [F -> F]
  <2>1. ASSUME NEW f \in F PROVE [q \in Queries |-> SearchStep(f, q)] \in F
    BY <1>2
  <2> HIDE DEF F
  <2> QED
    BY <2>1
<1>4. DependsOnSmaller(body, Queries, V, m)
  <2> SUFFICES ASSUME NEW f \in F, NEW g \in F, NEW q \in Queries,
                      \A r \in Queries : Ahead(r) < Ahead(q) => f[r] = g[r]
               PROVE  SearchStep(f, q) = SearchStep(g, q)
    BY DEF DependsOnSmaller
  <2> HIDE DEF F, V
  <2>1. CASE q.depth = 0 \/ q.addr \notin Image
    BY <2>1, SearchSteps
  <2>2. CASE q.depth # 0 /\ q.addr \in Image
    <3>1. CASE prog[q.addr].dimension # 0 /\ prog[q.addr].branch # 0
      <4>1. \A t \in Followed(q.addr) : t \in Addresses
        BY <2>2, <3>1, FollowedAre
      <4>2. \A t \in Followed(q.addr) : f[Branching(q, t)] = g[Branching(q, t)]
        BY <2>2, <4>1, BranchingAhead
      <4>3. {f[Branching(q, t)] : t \in Followed(q.addr)} = {g[Branching(q, t)] : t \in Followed(q.addr)}
        BY <4>2
      <4>4. \A h : SearchStep(h, q) = q.must \cup prog[q.addr].require
                                      \cup UNION {h[Branching(q, t)] : t \in Followed(q.addr)}
        BY <2>2, <3>1, SearchSteps
      <4> QED
        BY <4>3, <4>4
    <3>2. CASE prog[q.addr].dimension # 0 /\ prog[q.addr].branch = 0
      BY <2>2, <3>2, SearchSteps
    <3>3. CASE prog[q.addr].dimension = 0
      <4>1. f[Onward(q)] = g[Onward(q)]
        BY <2>2, OnwardAhead
      <4> QED
        BY <2>2, <3>3, <4>1, SearchSteps
    <3> QED
      BY <3>1, <3>2, <3>3
  <2> QED
    BY <2>1, <2>2
<1>5. PICK f : Solves(f, Queries, V, body)
  <2> HIDE DEF body, m, V
  <2>1. m \in [Queries -> Nat]
    BY <1>1
  <2>2. V # {}
    BY <1>1
  <2> QED
    BY <1>3, <1>4, <2>1, <2>2, MeasuredRecursion
<1>6. f = [q \in Queries |-> SearchStep(f, q)]
  BY <1>5 DEF Solves
<1> QED
  BY <1>6, Zenon DEF Search, SearchStep

LEMMA SearchValue ==
    ASSUME ProgramOK, NEW q \in Queries
    PROVE  Search[q] = SearchStep(Search, q)
<1> DEFINE Steps == [r \in Queries |-> SearchStep(Search, r)]
<1>1. Steps[q] = SearchStep(Search, q)
  OBVIOUS
<1>2. Search = Steps
  BY SearchEquation
<1> HIDE DEF Steps
<1> QED
  BY <1>1, <1>2

\* What is right of a query: a live flag that is unclear is reported, and what
\* must be updated already is.
Covers(q) == /\ Search[q] \subseteq Flags
             /\ LiveAt(q.addr) \cap q.unclear \subseteq Search[q]
             /\ q.depth # 0 => q.must \subseteq Search[q]

LEMMA SearchCovers ==
    ASSUME ProgramOK, WritesDeclared(prog)
    PROVE  \A q \in Queries : Covers(q)
<1> DEFINE S == {n \in Nat : \A q \in Queries : Ahead(q) = n => Covers(q)}
<1>1. ASSUME NEW n \in Nat, \A k \in Nat : k < n => k \in S PROVE n \in S
  <2> SUFFICES ASSUME NEW q \in Queries, Ahead(q) = n PROVE Covers(q)
    OBVIOUS
  <2>1. ASSUME NEW r \in Queries, Ahead(r) < Ahead(q) PROVE Covers(r)
    <3>1. Ahead(r) \in Nat
      BY AheadType
    <3> QED
      BY <1>1, <2>1, <3>1
  <2> HIDE DEF S
  <2>2. q.unclear \subseteq Flags /\ q.must \subseteq Flags
    BY DEF Queries
  <2>3. CASE q.depth = 0 \/ q.addr \notin Image
    BY <2>2, <2>3, SearchValue, SearchSteps DEF Covers
  <2>4. CASE q.depth # 0 /\ q.addr \in Image
    <3>1. prog[q.addr].require \subseteq Flags
      BY <2>4, InstructionType
    <3> DEFINE must == q.must \cup prog[q.addr].require
    <3>2. must \subseteq Flags
      BY <2>2, <3>1
    <3>3. CASE prog[q.addr].dimension # 0 /\ prog[q.addr].branch # 0
      <4>1. Search[q] = must \cup UNION {Search[Branching(q, t)] : t \in Followed(q.addr)}
        BY <2>4, <3>3, SearchValue, SearchSteps
      <4>2. prog[q.addr].update = {} /\ Successors(q.addr) = Followed(q.addr)
        BY <2>4, <3>3, InstructionType, SuccessorsAre
      <4>3. ASSUME NEW t \in Followed(q.addr)
            PROVE  /\ Search[Branching(q, t)] \subseteq Flags
                   /\ LiveAt(t) \cap q.unclear \subseteq Search[Branching(q, t)]
        <5>1. t \in Addresses
          BY <2>4, <3>3, FollowedAre
        <5>2. /\ Branching(q, t) \in Queries /\ Ahead(Branching(q, t)) < Ahead(q)
              /\ Branching(q, t).addr = t
              /\ Branching(q, t).unclear = q.unclear \ prog[q.addr].update
          BY <2>4, <5>1, BranchingAhead
        <5>3. Covers(Branching(q, t))
          BY <2>1, <5>2
        <5> QED
          BY <4>2, <5>2, <5>3 DEF Covers
      <4>4. ASSUME NEW f \in LiveAt(q.addr), f \in q.unclear PROVE f \in Search[q]
        <5>1. f \in prog[q.addr].require \/ \E t \in Followed(q.addr) : f \in LiveAt(t)
          BY <2>4, <4>2, LiveAtDeclared
        <5> QED
          BY <4>1, <4>3, <4>4, <5>1
      <4>5. UNION {Search[Branching(q, t)] : t \in Followed(q.addr)} \subseteq Flags
        BY <4>3
      <4> QED
        BY <3>2, <4>1, <4>4, <4>5 DEF Covers
    <3>4. CASE prog[q.addr].dimension # 0 /\ prog[q.addr].branch = 0
      <4>1. Search[q] = must \cup q.unclear
        BY <2>4, <3>4, SearchValue, SearchSteps
      <4> QED
        BY <2>2, <3>2, <4>1 DEF Covers
    <3>5. CASE prog[q.addr].dimension = 0
      <4> DEFINE r == Onward(q)
      <4>1. /\ r \in Queries /\ Ahead(r) < Ahead(q)
            /\ r.depth = q.depth /\ r.addr = q.addr + 1
            /\ r.unclear = (q.unclear \ prog[q.addr].update) \ must
            /\ r.must = must
        BY <2>4, OnwardAhead
      <4> HIDE DEF r, must
      <4>2. q.must \subseteq must /\ prog[q.addr].require \subseteq must
        BY DEF must
      <4>3. CASE r.unclear = {} \/ prog[q.addr].eob
        <5>1. Search[q] = r.unclear \cup must
          BY <2>4, <3>5, <4>1, <4>3, SearchValue, SearchSteps DEF r
        <5>2. \A f \in LiveAt(q.addr) : f \in prog[q.addr].require \/ f \notin prog[q.addr].update
          BY <2>4, LiveAtDeclared
        <5> QED
          BY <2>2, <3>2, <4>1, <4>2, <5>1, <5>2 DEF Covers
      <4>4. CASE ~(r.unclear = {} \/ prog[q.addr].eob)
        <5>1. Search[q] = Search[r]
          BY <2>4, <3>5, <4>4, SearchValue, SearchSteps DEF r
        <5>2. Successors(q.addr) = {q.addr + 1}
          BY <2>4, <3>5, <4>4, SuccessorsAre DEF Jumps
        <5>3. Covers(r)
          BY <2>1, <4>1
        <5>4. /\ Search[r] \subseteq Flags /\ must \subseteq Search[r]
              /\ LiveAt(q.addr + 1) \cap r.unclear \subseteq Search[r]
          BY <2>4, <4>1, <5>3 DEF Covers
        <5>5. \A f \in LiveAt(q.addr) :
                  \/ f \in prog[q.addr].require
                  \/ f \notin prog[q.addr].update /\ f \in LiveAt(q.addr + 1)
          BY <2>4, <5>2, LiveAtDeclared
        <5> QED
          BY <4>1, <4>2, <5>1, <5>4, <5>5 DEF Covers
      <4> QED
        BY <4>3, <4>4
    <3> QED
      BY <2>4, <3>3, <3>4, <3>5, InstructionType
  <2> QED
    BY <2>3, <2>4
<1>2. Nat \subseteq S
  <2> HIDE DEF S
  <2> QED
    BY <1>1, StrongInduction
<1> QED
  BY <1>2, AheadType

\* As the translator asks: every flag of the unclear ones that is live.
LEMMA RequiredCovers ==
    ASSUME ProgramOK, WritesDeclared(prog), NEW unclear \in SUBSET Flags, NEW a \in Addresses
    PROVE  /\ Required(unclear, a) \subseteq Flags
           /\ LiveAt(a) \cap unclear \subseteq Required(unclear, a)
<1>1. Call(Depth, a, unclear) \in Queries
  BY DepthAssumption DEF Call, Queries
<1>2. Call(Depth, a, unclear).addr = a /\ Call(Depth, a, unclear).unclear = unclear
  BY DEF Call
<1>3. Covers(Call(Depth, a, unclear))
  BY <1>1, SearchCovers
<1> QED
  BY <1>2, <1>3 DEF Covers, Required

-----------------------------------------------------------------------------
(* The theorem about the search *)

LiveStep(f, n) ==
    [a \in Addresses |->
        IF n = 0 \/ a \notin Image THEN {}
        ELSE prog[a].require
             \cup {g \in UNION {f[n - 1][t] : t \in Successors(a)} :
                      \E written \in prog[a].writes : g \notin written}]

\* Live is the solution of its recursion,
LEMMA LiveEquation ==
    ASSUME ProgramOK
    PROVE  Live = [n \in 0..Last |-> LiveStep(Live, n)]
<1> DEFINE D == 0..Last
           V == [Addresses -> SUBSET Flags]
           F == [D -> V]
           m == [n \in D |-> n]
           body == [f \in F |-> [n \in D |-> LiveStep(f, n)]]
<1>1. m \in [D -> Nat] /\ V # {}
  <2>1. [a \in Addresses |-> {}] \in V
    OBVIOUS
  <2>2. D \subseteq Nat
    OBVIOUS
  <2> QED
    BY <2>1, <2>2
<1>2. ASSUME NEW f \in F, NEW n \in D PROVE LiveStep(f, n) \in V
  <2>1. ASSUME NEW a \in Addresses, n # 0, a \in Image
        PROVE  prog[a].require \cup {g \in UNION {f[n - 1][t] : t \in Successors(a)} :
                                       \E written \in prog[a].writes : g \notin written}
               \subseteq Flags
    <3>1. prog[a].require \subseteq Flags
      BY <2>1, InstructionType
    <3>2. n - 1 \in D
      BY <2>1, LastAssumption
    <3>3. \A t \in Successors(a) : f[n - 1][t] \subseteq Flags
      BY <2>1, <3>2, SuccessorsAre
    <3> QED
      BY <3>1, <3>3
  <2> QED
    BY <2>1 DEF LiveStep
<1>3. body \in [F -> F]
  <2>1. ASSUME NEW f \in F PROVE [n \in D |-> LiveStep(f, n)] \in F
    BY <1>2
  <2> HIDE DEF F
  <2> QED
    BY <2>1
<1>4. DependsOnSmaller(body, D, V, m)
  <2>1. ASSUME NEW f \in F, NEW g \in F, NEW n \in D,
               \A k \in D : k < n => f[k] = g[k]
        PROVE  LiveStep(f, n) = LiveStep(g, n)
    <3>1. CASE n = 0
      BY <3>1 DEF LiveStep
    <3>2. CASE n # 0
      <4>1. n - 1 \in D /\ n - 1 < n
        BY <3>2, LastAssumption
      <4>2. f[n - 1] = g[n - 1]
        BY <2>1, <4>1
      <4> QED
        BY <3>2, <4>2 DEF LiveStep
    <3> QED
      BY <3>1, <3>2
  <2>2. \A n \in D : m[n] = n
    OBVIOUS
  <2>3. \A f \in F : \A n \in D : body[f][n] = LiveStep(f, n)
    OBVIOUS
  <2> HIDE DEF body, m, V, D
  <2> QED
    BY <2>1, <2>2, <2>3 DEF DependsOnSmaller
<1>5. PICK f : Solves(f, D, V, body)
  <2> HIDE DEF body, m, V, D
  <2>1. m \in [D -> Nat]
    BY <1>1
  <2>2. V # {}
    BY <1>1
  <2> QED
    BY <1>3, <1>4, <2>1, <2>2, MeasuredRecursion
<1>6. f = [n \in 0..Last |-> LiveStep(f, n)]
  BY <1>5 DEF Solves
<1> DEFINE Equation(g) == g = [n \in 0..Last |-> LiveStep(g, n)]
<1>7. Live = CHOOSE g : Equation(g)
  BY Zenon DEF Live, LiveStep
<1>8. \E g : Equation(g)
  BY <1>6
<1> HIDE DEF Equation
<1>9. Equation(Live)
  BY <1>7, <1>8
<1> QED
  BY <1>9 DEF Equation

\* and counts only flags that are live.
LEMMA LiveIsLiveAt ==
    ASSUME ProgramOK
    PROVE  \A a \in Addresses : Live[Last][a] \subseteq LiveAt(a)
<1> DEFINE Steps == [n \in 0..Last |-> LiveStep(Live, n)]
           S == {n \in 0..Last : \A a \in Addresses : Live[n][a] \subseteq LiveAt(a)}
<1>1. ASSUME NEW n \in 0..Last PROVE Live[n] = LiveStep(Live, n)
  <2>1. Steps[n] = LiveStep(Live, n)
    OBVIOUS
  <2>2. Live = Steps
    BY LiveEquation
  <2> HIDE DEF Steps
  <2> QED
    BY <2>1, <2>2
<1>2. 0 \in S
  <2>1. 0 \in 0..Last
    BY LastAssumption
  <2>2. Live[0] = LiveStep(Live, 0)
    BY <1>1, <2>1
  <2>3. \A a \in Addresses : Live[0][a] = {}
    BY <2>2 DEF LiveStep
  <2> QED
    BY <2>1, <2>3
<1>3. ASSUME NEW n \in 0..(Last - 1), n \in S PROVE n + 1 \in S
  <2>1. n + 1 \in 0..Last /\ n + 1 # 0 /\ (n + 1) - 1 = n
    BY LastAssumption
  <2>2. Live[n + 1] = LiveStep(Live, n + 1)
    BY <1>1, <2>1
  <2>3. ASSUME NEW a \in Addresses PROVE Live[n + 1][a] \subseteq LiveAt(a)
    <3>1. CASE a \notin Image
      BY <2>2, <3>1 DEF LiveStep
    <3>2. CASE a \in Image
      <4>1. Live[n + 1][a] = prog[a].require
                \cup {g \in UNION {Live[n][t] : t \in Successors(a)} :
                         \E written \in prog[a].writes : g \notin written}
        BY <2>1, <2>2, <3>2 DEF LiveStep
      <4>2. \A t \in Successors(a) : Live[n][t] \subseteq LiveAt(t)
        BY <1>3, <3>2, SuccessorsAre
      <4> QED
        BY <3>2, <4>1, <4>2, LiveAtClosed DEF Survives
    <3> QED
      BY <3>1, <3>2
  <2> QED
    BY <2>1, <2>3
<1>4. Last \in 0..Last /\ Last \in Nat
  BY LastAssumption
<1>5. 0..Last \subseteq S
  <2> HIDE DEF S
  <2> QED
    BY <1>2, <1>3, <1>4, BoundedInduction
<1> QED
  BY <1>4, <1>5

\* The program is fixed, and one of Programs.
LEMMA ProgramStays == Spec => []ProgramOK
<1>1. Init => ProgramOK
  BY DEF Init, ProgramOK
<1>2. ProgramOK /\ [Next]_vars => ProgramOK'
  BY DEF ProgramOK, Next, vars, Translate, Execute
<1> QED
  BY <1>1, <1>2, PTL DEF Spec

\* Whatever the program, the depth of the search and the shape of the branches,
\* every live flag is among those the search reports.
THEOREM SearchMissesNothing ==
    ASSUME \A p \in Programs : WritesDeclared(p)
    PROVE  Spec => []SearchCoversLive
<1>1. ProgramOK => SearchCoversLive
  <2> SUFFICES ASSUME ProgramOK, NEW a \in Image PROVE Live[Last][a] \subseteq Required(Flags, a)
    BY DEF SearchCoversLive
  <2>1. WritesDeclared(prog) /\ a \in Addresses
    BY LastAssumption DEF ProgramOK, Image, Addresses
  <2>2. LiveAt(a) \cap Flags \subseteq Required(Flags, a)
    BY <2>1, RequiredCovers
  <2>3. Live[Last][a] \subseteq LiveAt(a) /\ LiveAt(a) \subseteq Flags
    BY <2>1, LiveIsLiveAt DEF LiveAt
  <2> QED
    BY <2>2, <2>3
<1> QED
  BY <1>1, ProgramStays, PTL

-----------------------------------------------------------------------------
(* What the instructions of a block are told to update *)

LEMMA LastAsksType ==
    ASSUME ProgramOK, WritesDeclared(prog), NEW e \in Image
    PROVE  LastAsks(e) \subseteq Flags
<1>1. prog[e].require \subseteq Flags /\ Flags \ prog[e].update \in SUBSET Flags /\ Flags \in SUBSET Flags
  BY InstructionType
<1>2. e + 1 \in Addresses
  BY LastAssumption DEF Image, Addresses
<1>3. Required(Flags, e + 1) \subseteq Flags
  BY <1>1, <1>2, RequiredCovers
<1>4. ASSUME prog[e].branch # 0, NEW t \in Followed(e)
      PROVE  Required(Flags \ prog[e].update, t) \subseteq Flags
  <2>1. t \in Addresses
    BY <1>4, FollowedAre
  <2> QED
    BY <1>1, <2>1, RequiredCovers
<1> QED
  BY <1>1, <1>3, <1>4 DEF LastAsks

LEMMA AskType ==
    ASSUME ProgramOK, WritesDeclared(prog), NEW a \in Image, NEW after \in SUBSET Flags
    PROVE  Ask(a, after) \subseteq Flags
<1>1. prog[a].require \subseteq Flags
  BY InstructionType
<1>2. KeptOf(a, after) \subseteq Flags
  BY <1>1 DEF KeptOf
<1>3. ASSUME prog[a].branch # 0
      PROVE  Required(Flags \ (prog[a].update \cap KeptOf(a, after)), prog[a].branch) \subseteq Flags
  <2>1. prog[a].branch \in Addresses
    BY <1>3, InstructionType
  <2>2. Flags \ (prog[a].update \cap KeptOf(a, after)) \in SUBSET Flags
    OBVIOUS
  <2> QED
    BY <2>1, <2>2, RequiredCovers
<1> QED
  BY <1>2, <1>3 DEF Ask

\* The backward pass over a block has the values its recursion says.
AskStep(e, f, a) == IF a = e THEN LastAsks(e) ELSE Ask(a, f[a + 1])

LEMMA AsksEquation ==
    ASSUME ProgramOK, WritesDeclared(prog), NEW g \in Image, NEW e \in Image, g <= e
    PROVE  /\ AsksOf(g, e)[e] = LastAsks(e)
           /\ \A a \in g..(e - 1) : AsksOf(g, e)[a] = Ask(a, AsksOf(g, e)[a + 1])
<1> DEFINE D == g..e
           V == SUBSET Flags
           F == [D -> V]
           m == [a \in D |-> e - a]
           body == [f \in F |-> [a \in D |-> AskStep(e, f, a)]]
<1>1. /\ g \in Nat /\ e \in Nat /\ e \in D /\ D \subseteq Image
      /\ \A a \in D : e - a \in Nat
      /\ \A a \in D : a # e => a + 1 \in D /\ e - (a + 1) < e - a
  BY LastAssumption DEF Image
<1>2. m \in [D -> Nat] /\ \A a \in D : m[a] = e - a
  BY <1>1
<1>3. V # {}
  OBVIOUS
<1>4. ASSUME NEW f \in F, NEW a \in D PROVE AskStep(e, f, a) \in V
  <2> HIDE DEF D
  <2>1. CASE a = e
    BY <2>1, LastAsksType DEF AskStep
  <2>2. CASE a # e
    <3>1. a \in Image /\ f[a + 1] \in SUBSET Flags
      BY <1>1, <2>2
    <3> QED
      BY <2>2, <3>1, AskType DEF AskStep
  <2> QED
    BY <2>1, <2>2
<1>5. body \in [F -> F]
  <2>1. ASSUME NEW f \in F PROVE [a \in D |-> AskStep(e, f, a)] \in F
    BY <1>4
  <2> HIDE DEF F
  <2> QED
    BY <2>1
<1>6. DependsOnSmaller(body, D, V, m)
  <2>1. ASSUME NEW f \in F, NEW h \in F, NEW a \in D, \A b \in D : m[b] < m[a] => f[b] = h[b]
        PROVE  AskStep(e, f, a) = AskStep(e, h, a)
    <3> HIDE DEF D, V, m
    <3>1. CASE a = e
      BY <3>1 DEF AskStep
    <3>2. CASE a # e
      <4>1. a + 1 \in D /\ m[a + 1] < m[a]
        BY <1>1, <1>2, <3>2
      <4>2. f[a + 1] = h[a + 1]
        BY <2>1, <4>1
      <4> QED
        BY <3>2, <4>2 DEF AskStep
    <3> QED
      BY <3>1, <3>2
  <2>2. \A f \in F : \A a \in D : body[f][a] = AskStep(e, f, a)
    OBVIOUS
  <2> HIDE DEF body, m, V, D
  <2> QED
    BY <2>1, <2>2 DEF DependsOnSmaller
<1>7. PICK f : Solves(f, D, V, body)
  <2> HIDE DEF body, m, V, D
  <2>1. m \in [D -> Nat]
    BY <1>2
  <2> QED
    BY <1>3, <1>5, <1>6, <2>1, MeasuredRecursion
<1>8. f = [a \in g..e |-> AskStep(e, f, a)]
  BY <1>7 DEF Solves
<1>9. AsksOf(g, e) = [a \in g..e |-> AskStep(e, AsksOf(g, e), a)]
  BY <1>8, Zenon DEF AsksOf, AskStep
<1> DEFINE Steps == [a \in D |-> AskStep(e, AsksOf(g, e), a)]
<1>10. \A a \in D : Steps[a] = AskStep(e, AsksOf(g, e), a)
  OBVIOUS
<1>11. AsksOf(g, e) = Steps
  BY <1>9
<1>12. \A a \in D : AsksOf(g, e)[a] = AskStep(e, AsksOf(g, e), a)
  <2> HIDE DEF Steps, D
  <2> QED
    BY <1>10, <1>11
<1>13. \A a \in g..(e - 1) : a \in D /\ a # e
  BY <1>1
<1> HIDE DEF D
<1> QED
  BY <1>1, <1>12, <1>13 DEF AskStep

\* No block has begun behind a reader that is no branch.
ReadersKnown == \A a \in Image : Reads(prog[a]) /\ Known(a + 1) => Known(a)

LEMMA BlockIs ==
    ASSUME NEW g \in Image, NEW e \in Image, IsBlock(g, e), ~Known(g)
    PROVE  /\ g <= e /\ Closes(e)
           /\ \A a \in g..e : a \in Image /\ ~Known(a)
           /\ \A a \in g..(e - 1) : a + 1 \in g..e /\ ~prog[a].eob
<1>1. g \in Nat /\ e \in Nat
  BY LastAssumption DEF Image
<1>2. ASSUME NEW a \in g..e PROVE ~Known(a)
  <2>1. CASE a = g
    BY <2>1
  <2>2. CASE a # g
    <3>1. a - 1 \in g..(e - 1) /\ (a - 1) + 1 = a
      BY <1>1, <2>2
    <3> QED
      BY <3>1 DEF IsBlock, Closes
  <2> QED
    BY <2>1, <2>2
<1>3. \A a \in g..(e - 1) : a + 1 \in g..e
  BY <1>1
<1> QED
  BY <1>2, <1>3 DEF IsBlock, Closes, Decodes

\* What the last instruction asks for covers what is live at it: it reads
\* nothing itself where its own requirements are left out.
LEMMA LastAsksCovers ==
    ASSUME ProgramOK, WritesDeclared(prog), ReadersKnown,
           NEW e \in Image, Closes(e), ~Known(e)
    PROVE  /\ LiveAt(e) \subseteq LastAsks(e)
           /\ prog[e].branch = 0 /\ ~prog[e].eob
                  => Successors(e) = {e + 1} /\ LiveAt(e + 1) \subseteq LastAsks(e)
<1>1. e + 1 \in Addresses /\ Flags \in SUBSET Flags
  BY LastAssumption DEF Image, Addresses
<1>2. CASE prog[e].branch # 0
  <2>1. prog[e].update = {} /\ Successors(e) = Followed(e)
    BY <1>2, InstructionType, SuccessorsAre
  <2>2. ASSUME NEW t \in Followed(e) PROVE LiveAt(t) \subseteq Required(Flags \ prog[e].update, t)
    <3>1. t \in Addresses /\ Flags \ prog[e].update \in SUBSET Flags
      BY <1>2, FollowedAre
    <3>2. LiveAt(t) \subseteq Flags
      BY DEF LiveAt
    <3> QED
      BY <2>1, <3>1, <3>2, RequiredCovers
  <2>3. \A f \in LiveAt(e) : f \in prog[e].require \/ \E t \in Followed(e) : f \in LiveAt(t)
    BY <2>1, LiveAtDeclared
  <2>4. LastAsks(e) = prog[e].require
                      \cup UNION {Required(Flags \ prog[e].update, t) : t \in Followed(e)}
    BY <1>2 DEF LastAsks
  <2> QED
    BY <1>2, <2>2, <2>3, <2>4
<1>3. CASE prog[e].branch = 0 /\ prog[e].eob
  BY <1>3 DEF LastAsks, LiveAt
<1>4. CASE prog[e].branch = 0 /\ ~prog[e].eob
  <2>1. prog[e].dimension = 0
    BY <1>4, InstructionType
  <2>2. Successors(e) = {e + 1}
    BY <1>4, <2>1, SuccessorsAre DEF Jumps
  <2>3. Known(e + 1)
    BY <1>4 DEF Closes
  <2>4. prog[e].require = {}
    BY <2>1, <2>3 DEF ReadersKnown, Reads
  <2>5. LiveAt(e + 1) \subseteq Flags
    BY DEF LiveAt
  <2>6. LiveAt(e + 1) \subseteq LastAsks(e)
    BY <1>1, <1>4, <2>5, RequiredCovers DEF LastAsks
  <2> QED
    BY <2>2, <2>4, <2>6, LiveAtDeclared
<1> QED
  BY <1>2, <1>3, <1>4

\* From there backwards every instruction asks for what is live at it.
LEMMA AsksCoverLive ==
    ASSUME ProgramOK, WritesDeclared(prog), ReadersKnown,
           NEW g \in Image, NEW e \in Image, IsBlock(g, e), ~Known(g)
    PROVE  \A a \in g..e : LiveAt(a) \subseteq AsksOf(g, e)[a]
<1> DEFINE asks == AsksOf(g, e)
           top == e - g
           S == {k \in 0..top : LiveAt(e - k) \subseteq asks[e - k]}
<1>1. g \in Nat /\ e \in Nat /\ g <= e /\ top \in Nat
  BY BlockIs, LastAssumption DEF Image
<1>2. asks[e] = LastAsks(e) /\ \A a \in g..(e - 1) : asks[a] = Ask(a, asks[a + 1])
  BY <1>1, AsksEquation
<1> HIDE DEF asks
<1>3. 0 \in S
  <2>1. LiveAt(e) \subseteq LastAsks(e)
    <3>1. e \in g..e
      BY <1>1
    <3> QED
      BY <3>1, BlockIs, LastAsksCovers
  <2>2. e - 0 = e /\ 0 \in 0..top
    BY <1>1
  <2> HIDE DEF top
  <2> QED
    BY <1>2, <2>1, <2>2
<1>4. ASSUME NEW k \in 0..(top - 1), k \in S PROVE k + 1 \in S
  <2> DEFINE a == e - (k + 1)
  <2>1. a \in g..(e - 1) /\ a \in g..e /\ a + 1 = e - k /\ k + 1 \in 0..top
    BY <1>1
  <2>2. LiveAt(a + 1) \subseteq asks[a + 1]
    BY <1>4, <2>1
  <2> HIDE DEF a
  <2>3. a \in Image /\ ~prog[a].eob
    BY <2>1, BlockIs
  <2>4. LiveAt(a) \subseteq Ask(a, asks[a + 1])
    <3>1. CASE prog[a].dimension = 0
      <4>1. Successors(a) = {a + 1}
        BY <2>3, <3>1, SuccessorsAre DEF Jumps
      <4>2. Ask(a, asks[a + 1]) = (asks[a + 1] \ prog[a].update) \cup prog[a].require
        BY <3>1 DEF Ask, KeptOf
      <4> QED
        BY <2>2, <2>3, <4>1, <4>2, LiveAtDeclared
    <3>2. CASE prog[a].dimension # 0
      <4>1. prog[a].branch # 0 /\ prog[a].update = {} /\ prog[a].branch \in Addresses
        BY <2>3, <3>2, InstructionType
      <4>2. Successors(a) \subseteq {prog[a].branch, a + 1}
        BY <4>1 DEF Successors, Targets
      <4> DEFINE target == prog[a].branch
                 more == Required(Flags \ (prog[a].update \cap KeptOf(a, asks[a + 1])), target)
      <4>3. Ask(a, asks[a + 1]) = KeptOf(a, asks[a + 1]) \cup more
        BY <3>2, <4>1 DEF Ask
      <4>4. LiveAt(target) \subseteq more
        <5>1. Flags \ (prog[a].update \cap KeptOf(a, asks[a + 1])) = Flags /\ Flags \in SUBSET Flags
          BY <4>1
        <5>2. LiveAt(target) \subseteq Flags
          BY DEF LiveAt
        <5> QED
          BY <4>1, <5>1, <5>2, RequiredCovers
      <4>5. KeptOf(a, asks[a + 1]) = asks[a + 1] \cup prog[a].require
        BY <4>1 DEF KeptOf
      <4> HIDE DEF more
      <4> QED
        BY <2>2, <2>3, <4>2, <4>3, <4>4, <4>5, LiveAtDeclared
    <3> QED
      BY <3>1, <3>2
  <2>5. LiveAt(a) \subseteq asks[a]
    BY <1>2, <2>1, <2>4
  <2> QED
    BY <2>1, <2>5 DEF a
<1>5. 0..top \subseteq S
  <2> HIDE DEF S, top
  <2> QED
    BY <1>1, <1>3, <1>4, BoundedInduction
<1>6. ASSUME NEW a \in g..e PROVE LiveAt(a) \subseteq asks[a]
  <2>1. e - a \in 0..top /\ e - (e - a) = a
    BY <1>1
  <2>2. e - a \in S
    <3> HIDE DEF S, top
    <3> QED
      BY <1>5, <2>1
  <2> QED
    BY <2>1, <2>2
<1> QED
  BY <1>6 DEF asks

\* The flags an instruction is told to update include those it declares that
\* are live behind it.
LEMMA NeedCoversLive ==
    ASSUME ProgramOK, WritesDeclared(prog), ReadersKnown,
           NEW g \in Image, NEW e \in Image, IsBlock(g, e), ~Known(g),
           NEW a \in g..e, NEW t \in Successors(a)
    PROVE  LiveAt(t) \cap prog[a].update \subseteq NeedOf(g, e)[a]
<1> DEFINE asks == AsksOf(g, e)
<1>1. NeedOf(g, e) = [b \in g..e |-> IF b = e THEN LastNeed(e) ELSE prog[b].update \cap asks[b + 1]]
  BY DEF NeedOf
<1>2. NeedOf(g, e)[a] = IF a = e THEN LastNeed(e) ELSE prog[a].update \cap asks[a + 1]
  BY <1>1
<1>3. a \in Image /\ ~Known(a) /\ Closes(e)
  BY BlockIs
<1> HIDE DEF asks
<1>4. CASE a = e
  BY <1>2, <1>3, <1>4, LastAsksCovers, InstructionType DEF LastNeed
<1>5. CASE a # e
  <2>1. a \in g..(e - 1)
    BY <1>3, <1>5, LastAssumption DEF Image
  <2>2. a + 1 \in g..e /\ ~prog[a].eob
    BY <2>1, BlockIs
  <2>3. LiveAt(a + 1) \subseteq asks[a + 1]
    BY <2>2, AsksCoverLive DEF asks
  <2>4. CASE prog[a].dimension = 0
    <3>1. t = a + 1
      BY <1>3, <2>2, <2>4, SuccessorsAre DEF Jumps
    <3> QED
      BY <1>2, <1>5, <2>3, <3>1
  <2>5. CASE prog[a].dimension # 0
    BY <1>3, <2>2, <2>5, InstructionType
  <2> QED
    BY <2>4, <2>5
<1> QED
  BY <1>4, <1>5

-----------------------------------------------------------------------------
(* The theorem about the readers *)

Placed == ip \in Addresses /\ DOMAIN need \subseteq Image

\* The guest is not right behind a reader that has not been translated.
ReaderPassed == \A a \in Image : ip = a + 1 /\ Reads(prog[a]) => Known(a)

\* Every translated instruction stores the flags it changes that are live
\* behind it.
NeedCovers == \A a \in DOMAIN need : \A t \in Successors(a) :
                  LiveAt(t) \cap prog[a].update \subseteq need[a]

\* No flag that is live is out of date.
LiveFresh == \A a \in Addresses : ip = a => LiveAt(a) \subseteq fresh

IInv == ProgramOK /\ Placed /\ ReadersKnown /\ ReaderPassed /\ NeedCovers /\ LiveFresh

\* Liveness depends on the program only, which stays.
LEMMA LiveAtStays ==
    ASSUME prog' = prog
    PROVE  \A a \in Addresses : LiveAt(a)' = LiveAt(a) /\ Successors(a)' = Successors(a)
<1>1. \A a : Successors(a)' = Successors(a)
  BY DEF Successors, Targets
<1>2. \A f, a : Survives(f, a)' <=> Survives(f, a)
  BY DEF Survives
<1>3. \A W : Closed(W)' <=> Closed(W)
  BY <1>1, <1>2 DEF Closed
<1>4. \A a \in Addresses : LiveAt(a)' = LiveAt(a)
  BY <1>3 DEF LiveAt
<1> QED
  BY <1>1, <1>4

LEMMA InitIInv == Init => IInv
<1> SUFFICES ASSUME Init PROVE IInv
  OBVIOUS
<1>1. DOMAIN need = {} /\ ip = 1 /\ fresh = Flags
  BY DEF Init
<1>2. Placed
  BY <1>1, LastAssumption DEF Placed, Addresses
<1>3. ReadersKnown /\ ReaderPassed
  BY <1>1, LastAssumption DEF ReadersKnown, ReaderPassed, Known, Image
<1>4. NeedCovers /\ LiveFresh
  BY <1>1 DEF NeedCovers, LiveFresh, LiveAt
<1> QED
  BY <1>2, <1>3, <1>4 DEF IInv, ProgramOK, Init

LEMMA TranslateIInv ==
    ASSUME IInv, WritesDeclared(prog), Translate
    PROVE  IInv'
<1> USE DEF IInv
<1>1. ip \in Image /\ ~Known(ip) /\ prog' = prog /\ ip' = ip /\ fresh' = fresh
  BY DEF Translate
<1>2. PICK e \in Image :
          /\ IsBlock(ip, e)
          /\ need' = [a \in DOMAIN need \cup ip..e |->
                         IF Known(a) THEN need[a] ELSE NeedOf(ip, e)[a]]
  BY DEF Translate
<1>3. \A a \in ip..e : a \in Image /\ ~Known(a)
  BY <1>1, <1>2, BlockIs
<1>4. DOMAIN need' = DOMAIN need \cup ip..e
  BY <1>2
<1>5. \A a : Known(a)' <=> Known(a) \/ a \in ip..e
  BY <1>4 DEF Known
<1>6. Placed'
  BY <1>1, <1>3, <1>4 DEF Placed
<1>7. ReadersKnown'
  <2> SUFFICES ASSUME NEW a \in Image, Reads(prog[a]), Known(a + 1)' PROVE Known(a)'
    BY <1>1 DEF ReadersKnown
  <2>1. CASE Known(a + 1)
    BY <1>5, <2>1 DEF ReadersKnown
  <2>2. CASE a + 1 = ip
    BY <1>5, <2>2 DEF ReaderPassed
  <2>3. CASE a + 1 \in ip..e /\ a + 1 # ip
    <3>1. a \in ip..e
      BY <1>1, <2>3, LastAssumption DEF Image
    <3> QED
      BY <1>5, <3>1
  <2> QED
    BY <1>5, <2>1, <2>2, <2>3
<1>8. ReaderPassed'
  <2> SUFFICES ASSUME NEW a \in Image, ip = a + 1, Reads(prog[a]) PROVE Known(a)'
    BY <1>1 DEF ReaderPassed
  <2> QED
    BY <1>5 DEF ReaderPassed
<1>9. NeedCovers'
  <2> SUFFICES ASSUME NEW a \in DOMAIN need', NEW t \in Successors(a)
               PROVE  LiveAt(t) \cap prog[a].update \subseteq need'[a]
    <3>1. \A a \in DOMAIN need' : a \in Image /\ a \in Addresses
      BY <1>6, LastAssumption DEF Placed, Image, Addresses
    <3>2. \A a \in DOMAIN need' : \A t \in Successors(a) : t \in Addresses
      BY <3>1, SuccessorsAre
    <3> QED
      BY <1>1, <3>1, <3>2, LiveAtStays DEF NeedCovers
  <2>1. CASE Known(a)
    <3>1. need'[a] = need[a]
      BY <1>2, <1>4, <2>1
    <3> QED
      BY <2>1, <3>1 DEF NeedCovers, Known
  <2>2. CASE ~Known(a)
    <3>1. a \in ip..e
      BY <1>4, <2>2 DEF Known
    <3>2. need'[a] = NeedOf(ip, e)[a]
      BY <1>2, <1>4, <2>2
    <3> DEFINE g == ip
    <3>3. g \in Image /\ IsBlock(g, e) /\ ~Known(g) /\ a \in g..e
      BY <1>1, <1>2, <3>1
    <3> HIDE DEF g
    <3>4. LiveAt(t) \cap prog[a].update \subseteq NeedOf(g, e)[a]
      BY <3>3, NeedCoversLive
    <3> QED
      BY <3>2, <3>4 DEF g
  <2> QED
    BY <2>1, <2>2
<1>10. LiveFresh'
  BY <1>1, LiveAtStays DEF LiveFresh
<1> QED
  BY <1>1, <1>6, <1>7, <1>8, <1>9, <1>10 DEF ProgramOK

LEMMA ExecuteIInv ==
    ASSUME IInv, WritesDeclared(prog), ReadersInside(prog), Execute
    PROVE  IInv'
<1> USE DEF IInv
<1>1. /\ ip \in DOMAIN need /\ prog' = prog /\ need' = need
      /\ ip' \in Successors(ip)
  BY DEF Execute
<1>2. PICK written \in prog[ip].writes : fresh' = (fresh \ written) \cup (written \cap need[ip])
  BY DEF Execute
<1>3. ip \in Image /\ ip \in Addresses /\ Known(ip)
  BY <1>1 DEF Placed, Known
<1>4. Placed'
  BY <1>1, <1>3, SuccessorsAre DEF Placed
<1>5. \A a : Known(a)' <=> Known(a)
  BY <1>1 DEF Known
<1>6. ReadersKnown'
  BY <1>1, <1>5 DEF ReadersKnown
<1>7. ReaderPassed'
  <2> SUFFICES ASSUME NEW a \in Image, ip' = a + 1, Reads(prog[a]) PROVE Known(a)
    BY <1>1, <1>5 DEF ReaderPassed
  <2>1. ip' = ip + 1 \/ (Jumps(prog[ip]) /\ ip' \in Targets(ip))
    BY <1>1 DEF Successors
  <2>2. CASE ip' = ip + 1
    <3>1. a = ip
      BY <1>3, <2>2, LastAssumption DEF Image
    <3> QED
      BY <1>3, <3>1
  <2>3. CASE Jumps(prog[ip]) /\ ip' \in Targets(ip)
    BY <1>3, <2>3 DEF ReadersInside, Targets
  <2> QED
    BY <2>1, <2>2, <2>3
<1>8. NeedCovers'
  <2>1. \A a \in DOMAIN need : a \in Image /\ a \in Addresses
    BY LastAssumption DEF Placed, Image, Addresses
  <2>2. \A a \in DOMAIN need : \A t \in Successors(a) : t \in Addresses
    BY <2>1, SuccessorsAre
  <2> QED
    BY <1>1, <2>1, <2>2, LiveAtStays DEF NeedCovers
<1>9. LiveFresh'
  <2> SUFFICES ASSUME NEW t \in Addresses, ip' = t, NEW f \in LiveAt(t) PROVE f \in fresh'
    BY <1>1, LiveAtStays DEF LiveFresh
  <2>1. t \in Successors(ip)
    BY <1>1
  <2>2. CASE f \in written
    <3>1. written = prog[ip].update
      BY <1>2, <1>3 DEF WritesDeclared
    <3>2. f \in need[ip]
      BY <1>1, <2>1, <2>2, <3>1 DEF NeedCovers
    <3> QED
      BY <1>2, <2>2, <3>2
  <2>3. CASE f \notin written
    <3>1. Survives(f, ip)
      BY <1>2, <2>3 DEF Survives
    <3>2. f \in LiveAt(ip)
      BY <1>3, <2>1, <3>1, LiveAtClosed
    <3>3. f \in fresh
      BY <1>3, <3>2 DEF LiveFresh
    <3> QED
      BY <1>2, <2>3, <3>3
  <2> QED
    BY <2>2, <2>3
<1> QED
  BY <1>1, <1>4, <1>6, <1>7, <1>8, <1>9 DEF ProgramOK

\* What is live is fresh whenever the guest gets there, and a block that is
\* translated stores all that may be read behind it.
THEOREM FlagInductive ==
    ASSUME \A p \in Programs : WritesDeclared(p) /\ ReadersInside(p)
    PROVE  Spec => []IInv
<1>1. IInv /\ [Next]_vars => IInv'
  <2> SUFFICES ASSUME IInv, [Next]_vars PROVE IInv'
    OBVIOUS
  <2>1. WritesDeclared(prog) /\ ReadersInside(prog)
    BY DEF IInv, ProgramOK
  <2>2. CASE Translate
    BY <2>1, <2>2, TranslateIInv
  <2>3. CASE Execute
    BY <2>1, <2>3, ExecuteIInv
  <2>4. CASE UNCHANGED vars
    <3>1. prog' = prog /\ ip' = ip /\ need' = need /\ fresh' = fresh
      BY <2>4 DEF vars
    <3>2. \A a : Known(a)' <=> Known(a)
      BY <3>1 DEF Known
    <3>3. ProgramOK' /\ Placed' /\ ReadersKnown' /\ ReaderPassed' /\ LiveFresh'
      BY <3>1, <3>2, LiveAtStays
         DEF IInv, ProgramOK, Placed, ReadersKnown, ReaderPassed, LiveFresh
    <3>4. NeedCovers'
      <4>1. \A a \in DOMAIN need : a \in Image /\ a \in Addresses
        BY LastAssumption DEF IInv, Placed, Image, Addresses
      <4>2. \A a \in DOMAIN need : \A t \in Successors(a) : t \in Addresses
        BY <4>1, SuccessorsAre DEF IInv
      <4> QED
        BY <3>1, <4>1, <4>2, LiveAtStays DEF IInv, NeedCovers
    <3> QED
      BY <3>3, <3>4 DEF IInv
  <2> QED
    BY <2>2, <2>3, <2>4 DEF Next
<1> QED
  BY <1>1, InitIInv, PTL DEF Spec

\* Every flag an instruction reads was stored by its last writer, for every
\* program, number of flags and depth of the prediction: whatever path the
\* guest takes through blocks translated at different times.
THEOREM FlagsStayFresh ==
    ASSUME \A p \in Programs : WritesDeclared(p) /\ ReadersInside(p)
    PROVE  Spec => []FlagsFresh
<1>1. IInv => FlagsFresh
  <2> SUFFICES ASSUME IInv, ip \in DOMAIN need PROVE prog[ip].require \subseteq fresh
    BY DEF FlagsFresh
  <2>1. ip \in Image /\ ip \in Addresses
    BY DEF IInv, Placed
  <2>2. LiveAt(ip) \subseteq fresh
    BY <2>1 DEF IInv, LiveFresh
  <2> QED
    BY <2>1, <2>2, LiveAtClosed DEF IInv
<1> QED
  BY <1>1, FlagInductive, PTL

=============================================================================
