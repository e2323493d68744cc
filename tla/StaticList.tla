------------------------------ MODULE StaticList ------------------------------
(***************************************************************************)
(* utils::StaticList<T>: a list that hands out sections of consecutive     *)
(* elements.  It fills buffers of Capacity elements; a section that grows past  *)
(* the end of its buffer is copied to the start of a new one.  Buffers are *)
(* never released.                                                         *)
(*                                                                         *)
(* The buffers lie in one sequence, memory, with an element between any    *)
(* two that belongs to neither; an address is an index into it, Null is 0. *)
(***************************************************************************)
EXTENDS Naturals, Sequences

CONSTANTS Capacity, \* elements of a buffer
          Blank     \* what an element holds that was not written yet

Null == 0

EmptyList == [memory |-> << >>, next |-> Null, left |-> 0]

\* Elements the section from start holds: add() is only ever called with the
\* section that was added to last, or with a new one.
StoreCount(list, start) == IF start = Null THEN 0 ELSE list.next - start

Fits(list, start, elements) == Len(elements) + StoreCount(list, start) <= Capacity

\* The address allocate() answers with.
\* (A bug: the full buffer is handed out again.)
NewBufferReused(list) == IF list.memory = << >> THEN 2 ELSE Len(list.memory) + 1 - Capacity
NewBuffer(list) == Len(list.memory) + 2
Allocated(list) == list.memory \o [i \in 1..(Capacity + 1) |-> Blank]

\* elements written from address a on
Written(memory, a, elements) ==
    [i \in 1..Len(memory) |-> IF i \in a..(a + Len(elements) - 1)
                              THEN elements[i - a + 1]
                              ELSE memory[i]]

Reallocates(list, elements) == list.left < Len(elements)

\* Where the section starts after elements are added to it.  No elements need no
\* buffer: a section without any starts wherever the next element will be
\* written, and nowhere in a list that has no buffer yet.
StartAfter(list, start, elements) ==
    IF Reallocates(list, elements) THEN NewBuffer(list)
    ELSE IF StoreCount(list, start) > 0 THEN start ELSE list.next

\* add() does not answer with a null pointer.
Takes(list, start, elements) ==
    Fits(list, start, elements) /\ StartAfter(list, start, elements) # Null

\* add(): the list after elements were added to the section from start.
MovedWithoutCopy(list, start) ==
    [memory |-> Allocated(list),
     next |-> NewBuffer(list) + StoreCount(list, start),
     left |-> Capacity - StoreCount(list, start)]
Moved(list, start) ==
    LET count == StoreCount(list, start)
        section == SubSeq(list.memory, start, start + count - 1)
    IN [memory |-> Written(Allocated(list), NewBuffer(list), IF count = 0 THEN << >> ELSE section),
        next |-> NewBuffer(list) + count,
        left |-> Capacity - count]

Added(list, start, elements) ==
    LET here == IF Reallocates(list, elements) THEN Moved(list, start) ELSE list
    IN [memory |-> Written(here.memory, here.next, elements),
        next |-> here.next + Len(elements),
        left |-> here.left - Len(elements)]
=============================================================================
