--------------------------------- MODULE MCMmu ---------------------------------
(* An instance of Mmu for TLC: three tables, pages of all three sizes. *)
EXTENDS Mmu

P(two, one, zero) == [j \in Levels |-> CASE j = 2 -> two [] j = 1 -> one [] j = 0 -> zero]

Root == P({}, {}, {0})
Mid  == P({}, {}, {1})
Last == P({}, {}, {0, 1})
ThreeTables == {Root, Mid, Last}

Ptr(t) == [v |-> TRUE, r |-> FALSE, w |-> FALSE, x |-> FALSE, ppn |-> t]
Map(page) == [v |-> TRUE, r |-> TRUE, w |-> FALSE, x |-> FALSE, ppn |-> page]
\* Executable only: the code takes it for a pointer.
Exec(page) == [v |-> TRUE, r |-> FALSE, w |-> FALSE, x |-> TRUE, ppn |-> page]

Put(t, i, e) == [table |-> t, index |-> i, pte |-> e]

\* Pages of 4 KiB under Root -> Mid -> Last.
SmallStores == {Put(Root, {}, Ptr(Mid)), Put(Mid, {}, Ptr(Last)),
                Put(Last, {0}, Map(P({0}, {1}, {}))),
                Put(Last, {0, 1}, Map(P({}, {1}, {1}))),
                Put(Last, {1}, Exec(Last))}

\* And a superpage of each size.
AllStores == SmallStores \cup {Put(Mid, {0}, Map(P({1}, {0}, {}))),
                               Put(Root, {0}, Map(P({1}, {}, {})))}

OneRoot == {Root}

Pages == {P({}, {}, {1}), P({}, {}, {0}), P({}, {}, {0, 1}), P({}, {0}, {}),
          P({}, {0}, {1}), P({0}, {1}, {1}), P({0}, {0}, {})}
================================================================================
