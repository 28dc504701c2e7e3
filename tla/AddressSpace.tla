------------------------------ MODULE AddressSpace ------------------------------
(***************************************************************************)
(* What translation promises a guest: there is an address space, each page *)
(* of it is mapped to a page of memory or not mapped, and an access is     *)
(* answered from it or stops the simulator.  No table is walked and        *)
(* nothing is cached.  Mmu implements this for a guest that sets its       *)
(* mappings up first.                                                      *)
(*                                                                         *)
(* A page number is a function from the levels 0 .. 2 to sets of bits.  In *)
(* a mapping of level l > 0, a superpage, the fields below l are the       *)
(* guest's own: all that is promised of them is that the bits asked for    *)
(* are in the answer.                                                      *)
(***************************************************************************)
EXTENDS Integers

CONSTANTS Levels, Page, Vpns, Zero

VARIABLES space,    \* what each page is mapped to
          paged,    \* is there an address space at all?
          answer,   \* the page the last access asked for, and got
          aborted   \* an access to a page that is not mapped stopped it all

vars == <<space, paged, answer, aborted>>

Mapping == [ok : BOOLEAN, level : Levels, page : Page]

\* May a page be taken for what `vpn' is mapped to?
Granted(m, vpn, page) ==
  /\ m.ok
  /\ \A j \in Levels : IF j < m.level THEN vpn[j] \subseteq page[j]
                                      ELSE page[j] = m.page[j]

Init ==
  /\ space = [vpn \in Vpns |-> [ok |-> FALSE, level |-> 0, page |-> Zero]]
  /\ paged = FALSE
  /\ answer = [asked |-> Zero, got |-> Zero]
  /\ aborted = FALSE

\* The guest changes its address space.
Remap ==
  /\ ~aborted
  /\ UNCHANGED <<answer, aborted>>
  /\ space' \in [Vpns -> Mapping]
  /\ paged' \in BOOLEAN

Access(vpn) ==
  /\ ~aborted
  /\ answer' \in [asked : {vpn}, got : Page]
  /\ IF paged THEN Granted(space[vpn], vpn, answer'.got) ELSE answer'.got = vpn
  /\ UNCHANGED <<space, paged, aborted>>

\* Only an access to a page that is not mapped is fatal.
Abort(vpn) ==
  /\ ~aborted
  /\ paged /\ ~space[vpn].ok
  /\ aborted' = TRUE
  /\ UNCHANGED <<space, paged, answer>>

Next == (\E vpn \in Vpns : Access(vpn) \/ Abort(vpn)) \/ Remap

Spec == Init /\ [][Next]_vars
================================================================================
