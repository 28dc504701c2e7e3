---------------------------------- MODULE Mmu ----------------------------------
(***************************************************************************)
(* Sv39 address translation: MMU::translate, the page-table walk behind it *)
(* and the three direct-mapped TLBs in front of it.  A number that is only *)
(* masked, compared and or-ed is modelled as the set of its one bits, so   *)
(* the virtual page number of an address is a function from the levels     *)
(* 0 .. 2 to sets of bits, and so is a physical page number.  The offset   *)
(* in a page is copied by every path and left out.                         *)
(*                                                                         *)
(* The guest may store page-table entries and write satp.  SFENCE.VMA is   *)
(* not decoded and TLB::flush is never called, so nothing empties a TLB.   *)
(***************************************************************************)
EXTENDS Integers

CONSTANTS VpnBits,    \* bits of a VPN field (9 in Sv39)
          IndexBits,  \* bits of VPN[0] that select a TLB entry (6: TLB_SIZE = 64)
          TagBits,    \* bits of VPN[2] a tag keeps (2: the tag's mask has 32 bits)
          Vpns,       \* the virtual pages the guest accesses
          Tables,     \* the frames that hold page tables; others read as zero
          Stores,     \* the page-table entries the guest stores
          Roots,      \* the root tables it selects
          Remaps      \* does it change a mapping a TLB may hold?

Levels == 0 .. 2
Field == SUBSET (0 .. (VpnBits - 1))
Page == [Levels -> Field]

\* A page-table entry: valid, readable, writable, executable, and its PPN.
Pte == [v : BOOLEAN, r : BOOLEAN, w : BOOLEAN, x : BOOLEAN, ppn : Page]
Zero == [j \in Levels |-> {}]
NoPte == [v |-> FALSE, r |-> FALSE, w |-> FALSE, x |-> FALSE, ppn |-> Zero]

AccessType == {"Fetch", "Load", "Store"}

ASSUME MmuAssumption ==
  /\ VpnBits \in Nat \ {0}
  /\ IndexBits \in 0 .. VpnBits
  /\ TagBits \in 0 .. VpnBits
  /\ Vpns \subseteq Page
  /\ Tables \subseteq Page
  /\ Stores \subseteq [table : Tables, index : Field, pte : Pte]
  /\ Roots \subseteq Page
  /\ Remaps \in BOOLEAN

VARIABLES tables,   \* the page tables in memory
          satp,     \* mode and root table
          tlb,      \* itlb_, dtlb_r_ and dtlb_w_
          answer,   \* the page the last translation asked for, and got
          aborted   \* a page fault called std::abort

vars == <<tables, satp, tlb, answer, aborted>>

Modes == {"bare", "sv39", "other"}

-------------------------------------------------------------------------------
(* The walk. *)

PteAt(table, index) == IF table \in Tables THEN tables[table][index] ELSE NoPte

\* "if (V != PTE_V || (R != PTE_R && W == PTE_W))"
Faults(e) == ~e.v \/ (~e.r /\ e.w)

\* A leaf is readable: the test "X == PTE_R" never holds.
Leaf(e) == e.r

Fault == [ok |-> FALSE, level |-> 0, page |-> Zero]

\* "PPN[j] = VPN[j] for j < level"
LeafPage(e, vpn, level) == [j \in Levels |-> IF j < level THEN vpn[j] ELSE e.ppn[j]]

\* The walk from the table at `level' on.
WalkFrom0(table, vpn) ==
  LET e == PteAt(table, vpn[0]) IN
  IF Faults(e) \/ ~Leaf(e) THEN Fault
  ELSE [ok |-> TRUE, level |-> 0, page |-> LeafPage(e, vpn, 0)]

WalkFrom1(table, vpn) ==
  LET e == PteAt(table, vpn[1]) IN
  IF Faults(e) THEN Fault
  ELSE IF Leaf(e) THEN [ok |-> TRUE, level |-> 1, page |-> LeafPage(e, vpn, 1)]
  ELSE WalkFrom0(e.ppn, vpn)

Walk(vpn) ==
  LET e == PteAt(satp.root, vpn[2]) IN
  IF satp.mode # "sv39" \/ Faults(e) THEN Fault
  ELSE IF Leaf(e) THEN [ok |-> TRUE, level |-> 2, page |-> LeafPage(e, vpn, 2)]
  ELSE WalkFrom1(e.ppn, vpn)

-------------------------------------------------------------------------------
(* The TLBs. *)

Index == SUBSET (0 .. (IndexBits - 1))
IndexOf(vpn) == vpn[0] \cap (0 .. (IndexBits - 1))

\* Mutant: the mask drops the fields of a page but the lowest.
TagOneFieldOff(vpn, level) ==
  [j \in Levels |-> CASE j <= level -> {}
                      [] j > level /\ j = 2 -> vpn[2] \cap (0 .. (TagBits - 1))
                      [] OTHER -> vpn[j]]

\* "(va & ~(page_size - 1)) >> 12", where ~(page_size - 1) has 32 bits.
Tag(vpn, level) ==
  [j \in Levels |-> CASE j < level -> {}
                      [] j >= level /\ j = 2 -> vpn[2] \cap (0 .. (TagBits - 1))
                      [] OTHER -> vpn[j]]

Entry == [valid : BOOLEAN, tag : Page, page : Page, level : Levels]
NoEntry == [valid |-> FALSE, tag |-> Zero, page |-> Zero, level |-> 0]

Slot(type, vpn) == tlb[type][IndexOf(vpn)]

\* Mutant: the tag is not compared.
MatchAnyTag(e, vpn) == e.valid

Match(e, vpn) == e.valid /\ Tag(vpn, e.level) = e.tag

\* "(hit->ppn << 12) | (va & (hit->page_size - 1))"
HitPage(e, vpn) ==
  [j \in Levels |-> IF j < e.level THEN e.page[j] \cup vpn[j] ELSE e.page[j]]

-------------------------------------------------------------------------------

Init ==
  /\ tables = [t \in Tables |-> [i \in Field |-> NoPte]]
  /\ satp = [mode |-> "bare", root |-> Zero]
  /\ tlb = [type \in AccessType |-> [i \in Index |-> NoEntry]]
  /\ answer = [asked |-> Zero, got |-> Zero]
  /\ aborted = FALSE

Empty == \A type \in AccessType, i \in Index : ~tlb[type][i].valid

\* The guest sets its mappings up first, unless it remaps.
MayMap == ~aborted /\ (Remaps \/ Empty)

StorePte ==
  /\ MayMap
  /\ \E s \in Stores : tables' = [tables EXCEPT ![s.table][s.index] = s.pte]
  /\ UNCHANGED <<satp, tlb, answer, aborted>>

\* Hart::set_csr
WriteSatp ==
  /\ MayMap
  /\ \E mode \in Modes, root \in Roots : satp' = [mode |-> mode, root |-> root]
  /\ UNCHANGED <<tables, tlb, answer, aborted>>

Answer(vpn, page) == answer' = [asked |-> vpn, got |-> page]

\* satp.mode = 0
TranslateBare(type, vpn) ==
  /\ satp.mode = "bare"
  /\ Answer(vpn, vpn)
  /\ UNCHANGED <<tables, satp, tlb, aborted>>

\* The TLB is asked before satp.mode is looked at any further.
TranslateHit(type, vpn) ==
  /\ satp.mode # "bare"
  /\ Match(Slot(type, vpn), vpn)
  /\ Answer(vpn, HitPage(Slot(type, vpn), vpn))
  /\ UNCHANGED <<tables, satp, tlb, aborted>>

\* Mutant: a superpage is entered as if it were a page of 4 KiB.
TranslateMissSmall(type, vpn) ==
  /\ satp.mode # "bare"
  /\ ~Match(Slot(type, vpn), vpn)
  /\ Walk(vpn).ok
  /\ tlb' = [tlb EXCEPT ![type][IndexOf(vpn)] =
               [valid |-> TRUE, tag |-> Tag(vpn, Walk(vpn).level),
                page |-> Walk(vpn).page, level |-> 0]]
  /\ Answer(vpn, Walk(vpn).page)
  /\ UNCHANGED <<tables, satp, aborted>>

\* Mutant: the page size is taken from the level above.
TranslateMissLarge(type, vpn) ==
  /\ satp.mode # "bare"
  /\ ~Match(Slot(type, vpn), vpn)
  /\ Walk(vpn).ok
  /\ tlb' = [tlb EXCEPT ![type][IndexOf(vpn)] =
               [valid |-> TRUE, tag |-> Tag(vpn, Walk(vpn).level),
                page |-> Walk(vpn).page, level |-> Walk(vpn).level + 1]]
  /\ Answer(vpn, Walk(vpn).page)
  /\ UNCHANGED <<tables, satp, aborted>>

\* translate_generic fills the entry with the page just accessed.
TranslateMiss(type, vpn) ==
  /\ satp.mode # "bare"
  /\ ~Match(Slot(type, vpn), vpn)
  /\ Walk(vpn).ok
  /\ tlb' = [tlb EXCEPT ![type][IndexOf(vpn)] =
               [valid |-> TRUE, tag |-> Tag(vpn, Walk(vpn).level),
                page |-> Walk(vpn).page, level |-> Walk(vpn).level]]
  /\ Answer(vpn, Walk(vpn).page)
  /\ UNCHANGED <<tables, satp, aborted>>

\* A page fault is fatal to the simulator: Hart::handle_exception.
TranslateFault(type, vpn) ==
  /\ satp.mode # "bare"
  /\ ~Match(Slot(type, vpn), vpn)
  /\ ~Walk(vpn).ok
  /\ aborted' = TRUE
  /\ UNCHANGED <<tables, satp, tlb, answer>>

Translate ==
  /\ ~aborted
  /\ \E type \in AccessType, vpn \in Vpns :
       \/ TranslateBare(type, vpn)
       \/ TranslateHit(type, vpn)
       \/ TranslateMiss(type, vpn)
       \/ TranslateFault(type, vpn)

Next == StorePte \/ WriteSatp \/ Translate

Spec == Init /\ [][Next]_vars

-------------------------------------------------------------------------------
(* Properties. *)

TypeOK ==
  /\ tables \in [Tables -> [Field -> Pte]]
  /\ satp \in [mode : Modes, root : Page]
  /\ tlb \in [AccessType -> [Index -> Entry]]
  /\ answer \in [asked : Page, got : Page]
  /\ aborted \in BOOLEAN

\* A page number the tags can tell from every other (an address below 4 GiB).
Tagged(vpn) == vpn[2] \subseteq 0 .. (TagBits - 1)

\* What a translation answers, hit or miss, is what the page tables say.
TlbCoherent ==
  \A type \in AccessType, vpn \in Vpns :
    Match(Slot(type, vpn), vpn) =>
      /\ Walk(vpn).ok
      /\ HitPage(Slot(type, vpn), vpn) = Walk(vpn).page

\* A guest the TLBs serve: it sets its mappings up first and stays below 4 GiB.
Settled == ~Remaps /\ \A vpn \in Vpns : Tagged(vpn)

\* Which hits are right, for a settled guest: all those in pages of 4 KiB, and in
\* a superpage those whose page number covers that of the access which filled the
\* entry, for the two are or-ed (MMU::translate on a hit, TLB::insert).
HitsExact ==
  Settled =>
    \A type \in AccessType, vpn \in Vpns :
      LET e == Slot(type, vpn) IN
      Match(e, vpn) =>
        /\ Walk(vpn).ok /\ Walk(vpn).level = e.level
        /\ (HitPage(e, vpn) = Walk(vpn).page) <=>
             (\A j \in Levels : j < e.level => e.page[j] \subseteq vpn[j])

\* A translation in a 4 KiB page answers what the walk answers, whether the page
\* is served by the walk or by what an earlier walk left in the TLB.
SmallPagesRight ==
  [][ /\ Settled /\ satp.mode # "bare" /\ answer' # answer
      /\ Walk(answer'.asked).level = 0
      => answer'.got = Walk(answer'.asked).page ]_vars

\* The address space the tables and satp describe.
Space == INSTANCE AddressSpace WITH space <- [vpn \in Vpns |-> Walk(vpn)],
                                    paged <- (satp.mode # "bare")

\* A settled guest sees the tables through the TLBs as if there were none: every
\* access is answered from its present mappings, in the superpage it lies in if not
\* at the right place of it, and the simulator stops (handle_exception) exactly
\* when a page is not mapped.
ImplementsAddressSpace == Space!Spec
================================================================================
