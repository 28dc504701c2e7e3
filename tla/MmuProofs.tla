------------------------------- MODULE MmuProofs -------------------------------
(***************************************************************************)
(* Theorems about Mmu: its type invariant, and what a TLB hit answers.     *)
(***************************************************************************)
EXTENDS Mmu, TLAPS

-------------------------------------------------------------------------------
(* Types. *)

\* A TLB index is one of the table's.
LEMMA IndexType == ASSUME NEW vpn \in Page PROVE IndexOf(vpn) \in Index
BY DEF IndexOf, Index

\* A tag is a page number, whatever was masked off.
LEMMA TagType ==
  ASSUME NEW vpn \in Page, NEW level \in Levels
  PROVE  Tag(vpn, level) \in Page
<1>1. \A j \in Levels : vpn[j] \in Field
  BY DEF Page
<1>2. {} \in Field /\ \A s \in Field : s \cap (0 .. (TagBits - 1)) \in Field
  BY DEF Field
<1> QED BY <1>1, <1>2 DEF Tag, Page, Levels

\* What memory holds where a table is looked for is a page-table entry.
LEMMA PteAtType ==
  ASSUME tables \in [Tables -> [Field -> Pte]], NEW t, NEW f \in Field
  PROVE  PteAt(t, f) \in Pte
<1>1. NoPte \in Pte
  BY DEF NoPte, Pte, Zero, Page, Field
<1> QED BY <1>1 DEF PteAt

\* The page of a leaf is a page number.
LEMMA LeafPageType ==
  ASSUME NEW e \in Pte, NEW vpn \in Page, NEW level \in Levels
  PROVE  LeafPage(e, vpn, level) \in Page
<1>1. e.ppn \in Page BY DEF Pte
<1> QED BY <1>1 DEF LeafPage, Page, Levels

\* A walk that does not fault ends at one of the three levels, in a page.
LEMMA WalkType ==
  ASSUME tables \in [Tables -> [Field -> Pte]], NEW vpn \in Page, Walk(vpn).ok
  PROVE  Walk(vpn).level \in Levels /\ Walk(vpn).page \in Page
<1>1. \A j \in Levels : vpn[j] \in Field
  BY DEF Page
<1>2. 0 \in Levels /\ 1 \in Levels /\ 2 \in Levels
  BY DEF Levels
<1>3. PteAt(satp.root, vpn[2]) \in Pte
  BY <1>1, <1>2, PteAtType
<1>4. \A t : PteAt(t, vpn[1]) \in Pte
  BY <1>1, <1>2, PteAtType
<1>5. \A t : PteAt(t, vpn[0]) \in Pte
  BY <1>1, <1>2, PteAtType
<1>6. \A e \in Pte, l \in Levels : LeafPage(e, vpn, l) \in Page
  BY LeafPageType
<1>7. ~Fault.ok
  BY DEF Fault
<1>8. ASSUME NEW t, WalkFrom0(t, vpn).ok
      PROVE  WalkFrom0(t, vpn).level \in Levels /\ WalkFrom0(t, vpn).page \in Page
  BY <1>2, <1>5, <1>6, <1>7, <1>8 DEF WalkFrom0
<1>9. ASSUME NEW t, WalkFrom1(t, vpn).ok
      PROVE  WalkFrom1(t, vpn).level \in Levels /\ WalkFrom1(t, vpn).page \in Page
  BY <1>2, <1>4, <1>6, <1>7, <1>8, <1>9 DEF WalkFrom1
<1> QED BY <1>2, <1>3, <1>6, <1>7, <1>9 DEF Walk

\* A hit answers with a page number.
LEMMA HitPageType ==
  ASSUME NEW e \in Entry, NEW vpn \in Page
  PROVE  HitPage(e, vpn) \in Page
<1>1. e.page \in Page /\ e.level \in Levels BY DEF Entry
<1> QED BY <1>1 DEF HitPage, Page, Field, Levels

\* Filling one entry keeps the three tables well typed.
LEMMA FillType ==
  ASSUME tlb \in [AccessType -> [Index -> Entry]],
         NEW type \in AccessType, NEW i \in Index, NEW e \in Entry
  PROVE  [tlb EXCEPT ![type][i] = e] \in [AccessType -> [Index -> Entry]]
OBVIOUS

\* The state of the MMU keeps its types: no walk ends below level 0, no index
\* leaves a TLB (MMU::translate_generic, tlb_hash).
THEOREM MmuTypeCorrect == Spec => []TypeOK
<1>1. Init => TypeOK
  <2> SUFFICES ASSUME Init PROVE TypeOK OBVIOUS
  <2>1. Zero \in Page
    BY DEF Zero, Page, Field
  <2>2. NoPte \in Pte /\ NoEntry \in Entry
    BY <2>1 DEF NoPte, Pte, NoEntry, Entry, Levels
  <2> QED BY <2>1, <2>2 DEF Init, TypeOK, Modes
<1>2. TypeOK /\ [Next]_vars => TypeOK'
  <2> SUFFICES ASSUME TypeOK, [Next]_vars PROVE TypeOK' OBVIOUS
  <2> USE MmuAssumption
  <2>1. CASE StorePte
    <3>1. PICK s \in Stores : tables' = [tables EXCEPT ![s.table][s.index] = s.pte]
      BY <2>1 DEF StorePte
    <3>2. s.table \in Tables /\ s.index \in Field /\ s.pte \in Pte
      OBVIOUS
    <3>3. tables' \in [Tables -> [Field -> Pte]]
      BY <3>1, <3>2 DEF TypeOK
    <3> QED BY <2>1, <3>3 DEF StorePte, TypeOK
  <2>2. CASE WriteSatp
    BY <2>2 DEF WriteSatp, TypeOK
  <2>3. CASE Translate
    <3>1. PICK type \in AccessType, vpn \in Vpns :
            \/ TranslateBare(type, vpn) \/ TranslateHit(type, vpn)
            \/ TranslateMiss(type, vpn) \/ TranslateFault(type, vpn)
      BY <2>3 DEF Translate
    <3>2. vpn \in Page
      OBVIOUS
    <3>3. CASE TranslateBare(type, vpn)
      BY <3>2, <3>3 DEF TranslateBare, Answer, TypeOK
    <3>4. CASE TranslateHit(type, vpn)
      <4>1. Slot(type, vpn) \in Entry
        BY <3>2, IndexType DEF Slot, TypeOK
      <4>2. HitPage(Slot(type, vpn), vpn) \in Page
        BY <3>2, <4>1, HitPageType
      <4> QED BY <3>2, <3>4, <4>2 DEF TranslateHit, Answer, TypeOK
    <3>5. CASE TranslateMiss(type, vpn)
      <4> DEFINE e == [valid |-> TRUE, tag |-> Tag(vpn, Walk(vpn).level),
                       page |-> Walk(vpn).page, level |-> Walk(vpn).level]
      <4>1. Walk(vpn).level \in Levels /\ Walk(vpn).page \in Page
        BY <3>2, <3>5, WalkType DEF TranslateMiss, TypeOK
      <4>2. Tag(vpn, Walk(vpn).level) \in Page
        BY <3>2, <4>1, TagType
      <4>3. e \in Entry
        BY <4>1, <4>2 DEF Entry
      <4>4. tlb' = [tlb EXCEPT ![type][IndexOf(vpn)] = e]
        BY <3>5 DEF TranslateMiss
      <4>5. IndexOf(vpn) \in Index
        BY <3>2, IndexType
      <4> HIDE DEF e
      <4>6. tlb' \in [AccessType -> [Index -> Entry]]
        BY <4>3, <4>4, <4>5, FillType DEF TypeOK
      <4> QED BY <3>2, <3>5, <4>1, <4>6 DEF TranslateMiss, Answer, TypeOK
    <3>6. CASE TranslateFault(type, vpn)
      BY <3>6 DEF TranslateFault, TypeOK
    <3> QED BY <3>1, <3>3, <3>4, <3>5, <3>6
  <2>4. CASE UNCHANGED vars
    BY <2>4 DEF vars, TypeOK
  <2> QED BY <2>1, <2>2, <2>3, <2>4 DEF Next
<1> QED BY <1>1, <1>2, PTL DEF Spec

-------------------------------------------------------------------------------
(* What a hit answers. *)

\* Every valid entry of a guest that does not remap was filled by a walk that
\* would end the same way now.
Filled ==
  ~Remaps =>
    \A type \in AccessType, i \in Index :
      LET e == tlb[type][i] IN
      e.valid => \E vpn \in Vpns :
                   /\ Walk(vpn).ok
                   /\ e.level = Walk(vpn).level
                   /\ e.page = Walk(vpn).page
                   /\ e.tag = Tag(vpn, e.level)

\* A walk reads page tables and satp, nothing else.
LEMMA WalkStable ==
  ASSUME tables' = tables, satp' = satp
  PROVE  \A vpn : Walk(vpn)' = Walk(vpn)
<1>1. \A t, f : PteAt(t, f)' = PteAt(t, f)
  BY DEF PteAt
<1>2. \A t, vpn : WalkFrom0(t, vpn)' = WalkFrom0(t, vpn)
  BY <1>1 DEF WalkFrom0
<1>3. \A t, vpn : WalkFrom1(t, vpn)' = WalkFrom1(t, vpn)
  BY <1>1, <1>2 DEF WalkFrom1
<1> QED BY <1>1, <1>3 DEF Walk

\* Two low pages with the same tag at a level agree from that level up.
LEMMA SameTag ==
  ASSUME NEW a \in Page, NEW b \in Page, Tagged(a), Tagged(b),
         NEW level \in Levels, Tag(a, level) = Tag(b, level)
  PROVE  \A j \in Levels : j >= level => a[j] = b[j]
<1> SUFFICES ASSUME NEW j \in Levels, j >= level PROVE a[j] = b[j]
  OBVIOUS
<1>1. Tag(a, level)[j] = Tag(b, level)[j]
  OBVIOUS
<1>2. CASE j = 2
  <2>1. a[2] \cap (0 .. (TagBits - 1)) = b[2] \cap (0 .. (TagBits - 1))
    BY <1>1, <1>2 DEF Tag, Levels
  <2> QED BY <1>2, <2>1 DEF Tagged
<1>3. CASE j # 2
  BY <1>1, <1>3 DEF Tag, Levels
<1> QED BY <1>2, <1>3

\* Where the walk for one page ends, the walk for a page that agrees with it from
\* that level up ends too, in the same PTE.
LEMMA SameWalk ==
  ASSUME NEW a \in Page, NEW b \in Page, Walk(a).ok,
         \A j \in Levels : j >= Walk(a).level => a[j] = b[j],
         Walk(a).level \in Levels
  PROVE  /\ Walk(b).ok /\ Walk(b).level = Walk(a).level
         /\ \A j \in Levels :
              IF j < Walk(a).level
                THEN Walk(a).page[j] = a[j] /\ Walk(b).page[j] = b[j]
                ELSE Walk(b).page[j] = Walk(a).page[j]
<1> DEFINE e == PteAt(satp.root, a[2])
<1>0. ~Fault.ok
  BY DEF Fault
<1>1. satp.mode = "sv39" /\ ~Faults(e)
  BY <1>0 DEF Walk
<1>2. a[2] = b[2]
  BY DEF Levels
<1>3. CASE Leaf(e)
  <2>1. /\ Walk(a) = [ok |-> TRUE, level |-> 2, page |-> LeafPage(e, a, 2)]
        /\ Walk(b) = [ok |-> TRUE, level |-> 2, page |-> LeafPage(e, b, 2)]
    BY <1>1, <1>2, <1>3 DEF Walk
  <2> QED BY <2>1 DEF LeafPage, Levels
<1>4. CASE ~Leaf(e)
  <2>1. Walk(a) = WalkFrom1(e.ppn, a) /\ Walk(b) = WalkFrom1(e.ppn, b)
    BY <1>1, <1>2, <1>4 DEF Walk
  <2> DEFINE m == PteAt(e.ppn, a[1])
  <2>2. ~Faults(m)
    BY <1>0, <2>1 DEF WalkFrom1
  <2>3. CASE Leaf(m)
    <3>1. Walk(a) = [ok |-> TRUE, level |-> 1, page |-> LeafPage(m, a, 1)]
      BY <2>1, <2>2, <2>3 DEF WalkFrom1
    <3>2. a[1] = b[1]
      BY <3>1 DEF Levels
    <3>3. Walk(b) = [ok |-> TRUE, level |-> 1, page |-> LeafPage(m, b, 1)]
      BY <2>1, <2>2, <2>3, <3>2 DEF WalkFrom1
    <3> QED BY <3>1, <3>3 DEF LeafPage, Levels
  <2>4. CASE ~Leaf(m)
    <3>1. Walk(a) = WalkFrom0(m.ppn, a)
      BY <2>1, <2>2, <2>4 DEF WalkFrom1
    <3> DEFINE l == PteAt(m.ppn, a[0])
    <3>2. ~(Faults(l) \/ ~Leaf(l))
      BY <1>0, <3>1 DEF WalkFrom0
    <3>3. Walk(a) = [ok |-> TRUE, level |-> 0, page |-> LeafPage(l, a, 0)]
      BY <3>1, <3>2 DEF WalkFrom0
    <3>4. a[1] = b[1] /\ a[0] = b[0]
      BY <3>3 DEF Levels
    <3>5. Walk(b) = WalkFrom0(m.ppn, b)
      BY <2>1, <2>2, <2>4, <3>4 DEF WalkFrom1
    <3>6. Walk(b) = [ok |-> TRUE, level |-> 0, page |-> LeafPage(l, b, 0)]
      BY <3>2, <3>4, <3>5 DEF WalkFrom0
    <3> QED BY <3>3, <3>6 DEF LeafPage, Levels
  <2> QED BY <2>3, <2>4
<1> QED BY <1>3, <1>4

\* What a hit answers, if every entry was filled by a walk: it stays in the page the
\* walk finds, and below the level of the entry two numbers are or-ed.
LEMMA FilledHit ==
  ASSUME TypeOK, Filled, Settled, NEW type \in AccessType, NEW b \in Vpns,
         Match(Slot(type, b), b)
  PROVE  LET e == Slot(type, b) IN
         /\ Walk(b).ok /\ Walk(b).level = e.level /\ e.level \in Levels
         /\ Walk(b).page \in Page
         /\ \A j \in Levels :
              IF j < e.level
                THEN HitPage(e, b)[j] = e.page[j] \cup b[j] /\ Walk(b).page[j] = b[j]
                ELSE HitPage(e, b)[j] = Walk(b).page[j]
<1> USE MmuAssumption
<1> DEFINE e == Slot(type, b)
<1>1. IndexOf(b) \in Index
  BY IndexType
<1>2. PICK a \in Vpns : /\ Walk(a).ok /\ e.level = Walk(a).level
                        /\ e.page = Walk(a).page /\ e.tag = Tag(a, e.level)
  BY <1>1 DEF Filled, Settled, Slot, Match
<1>3. Walk(a).level \in Levels /\ Walk(a).page \in Page
  BY <1>2, WalkType DEF TypeOK
<1>4. Tag(a, e.level) = Tag(b, e.level)
  BY <1>2 DEF Match
<1>5. \A j \in Levels : j >= e.level => a[j] = b[j]
  BY <1>2, <1>3, <1>4, SameTag DEF Settled
<1>6. /\ Walk(b).ok /\ Walk(b).level = Walk(a).level
      /\ \A j \in Levels :
           IF j < Walk(a).level
             THEN Walk(a).page[j] = a[j] /\ Walk(b).page[j] = b[j]
             ELSE Walk(b).page[j] = Walk(a).page[j]
  BY <1>2, <1>3, <1>5, SameWalk
<1>7. Walk(b).page \in Page
  BY <1>6, WalkType DEF TypeOK
<1> QED BY <1>2, <1>3, <1>6, <1>7 DEF HitPage

\* Entries filled by walks make HitsExact true.
LEMMA FilledExact == ASSUME TypeOK, Filled PROVE HitsExact
<1> SUFFICES ASSUME Settled, NEW type \in AccessType, NEW b \in Vpns,
                    Match(Slot(type, b), b)
             PROVE  LET e == Slot(type, b) IN
                    /\ Walk(b).ok /\ Walk(b).level = e.level
                    /\ (HitPage(e, b) = Walk(b).page) <=>
                         (\A j \in Levels : j < e.level => e.page[j] \subseteq b[j])
  BY DEF HitsExact
<1> DEFINE e == Slot(type, b)
<1>1. /\ Walk(b).ok /\ Walk(b).level = e.level
      /\ Walk(b).page \in Page
      /\ \A j \in Levels :
           IF j < e.level
             THEN HitPage(e, b)[j] = e.page[j] \cup b[j] /\ Walk(b).page[j] = b[j]
             ELSE HitPage(e, b)[j] = Walk(b).page[j]
  BY FilledHit
<1>2. (HitPage(e, b) = Walk(b).page) <=>
         (\A j \in Levels : HitPage(e, b)[j] = Walk(b).page[j])
  <2>1. HitPage(e, b) = [j \in Levels |-> HitPage(e, b)[j]]
    BY DEF HitPage
  <2>2. Walk(b).page = [j \in Levels |-> Walk(b).page[j]]
    BY <1>1 DEF Page
  <2> QED BY <2>1, <2>2
<1>3. ASSUME NEW j \in Levels
      PROVE  HitPage(e, b)[j] = Walk(b).page[j]
               <=> (j < e.level => e.page[j] \subseteq b[j])
  BY <1>1
<1> QED BY <1>1, <1>2, <1>3

\* Filled is inductive: an entry is filled by a walk, and nothing the walk read
\* changes while an entry is valid.
LEMMA FilledStep == ASSUME TypeOK, Filled, [Next]_vars PROVE Filled'
<1> USE MmuAssumption
<1> DEFINE Kept == tables' = tables /\ satp' = satp /\ tlb' = tlb
<1>1. ASSUME Kept PROVE Filled'
  BY <1>1, WalkStable DEF Filled
<1>2. ASSUME MayMap, tlb' = tlb PROVE Filled'
  BY <1>2 DEF MayMap, Empty, Filled
<1>3. CASE StorePte
  BY <1>2, <1>3 DEF StorePte
<1>4. CASE WriteSatp
  BY <1>2, <1>4 DEF WriteSatp
<1>5. CASE Translate
  <2>1. PICK type \in AccessType, vpn \in Vpns :
          \/ TranslateBare(type, vpn) \/ TranslateHit(type, vpn)
          \/ TranslateMiss(type, vpn) \/ TranslateFault(type, vpn)
    BY <1>5 DEF Translate
  <2>2. CASE TranslateBare(type, vpn)
    BY <1>1, <2>2 DEF TranslateBare
  <2>3. CASE TranslateHit(type, vpn)
    BY <1>1, <2>3 DEF TranslateHit
  <2>4. CASE TranslateFault(type, vpn)
    BY <1>1, <2>4 DEF TranslateFault
  <2>5. CASE TranslateMiss(type, vpn)
    <3> SUFFICES ASSUME ~Remaps, NEW ty \in AccessType, NEW i \in Index,
                        tlb'[ty][i].valid
                 PROVE  \E v \in Vpns :
                          /\ Walk(v)'.ok
                          /\ tlb'[ty][i].level = Walk(v)'.level
                          /\ tlb'[ty][i].page = Walk(v)'.page
                          /\ tlb'[ty][i].tag = Tag(v, tlb'[ty][i].level)
      BY DEF Filled, Tag
    <3>1. \A v : Walk(v)' = Walk(v)
      BY <2>5, WalkStable DEF TranslateMiss
    <3> DEFINE e == [valid |-> TRUE, tag |-> Tag(vpn, Walk(vpn).level),
                     page |-> Walk(vpn).page, level |-> Walk(vpn).level]
    <3>2. tlb' = [tlb EXCEPT ![type][IndexOf(vpn)] = e]
      BY <2>5 DEF TranslateMiss
    <3>3. IndexOf(vpn) \in Index
      BY IndexType
    <3>4. CASE ty = type /\ i = IndexOf(vpn)
      <4>1. tlb'[ty][i] = e
        BY <3>2, <3>3, <3>4 DEF TypeOK
      <4>2. Walk(vpn).ok
        BY <2>5 DEF TranslateMiss
      <4> QED BY <3>1, <4>1, <4>2
    <3>5. CASE ~(ty = type /\ i = IndexOf(vpn))
      <4>1. tlb'[ty][i] = tlb[ty][i]
        BY <3>2, <3>3, <3>5 DEF TypeOK
      <4> QED BY <3>1, <4>1 DEF Filled
    <3> QED BY <3>4, <3>5
  <2> QED BY <2>1, <2>2, <2>3, <2>4, <2>5
<1>6. CASE UNCHANGED vars
  BY <1>1, <1>6 DEF vars
<1> QED BY <1>3, <1>4, <1>5, <1>6 DEF Next

\* No entry is valid at first.
LEMMA FilledInit == Init => Filled
BY DEF Init, Filled, NoEntry

\* Exactly the hits HitsExact names are right, for tables, addresses and TLBs of
\* any size (MMU::translate, TLB::match and TLB::insert).
THEOREM HitsAreExact == Spec => []HitsExact
<1>1. Spec => []Filled
  BY FilledInit, FilledStep, MmuTypeCorrect, PTL DEF Spec
<1> QED BY <1>1, MmuTypeCorrect, FilledExact, PTL

\* A translation in a 4 KiB page is the walk's, hit or miss.
THEOREM SmallPagesTranslate == Spec => SmallPagesRight
<1> USE MmuAssumption
<1> DEFINE Right == /\ Settled /\ satp.mode # "bare" /\ answer' # answer
                    /\ Walk(answer'.asked).level = 0
                    => answer'.got = Walk(answer'.asked).page
<1>1. ASSUME HitsExact, [Next]_vars PROVE [Right]_vars
  <2> SUFFICES ASSUME Settled, satp.mode # "bare", answer' # answer,
                      Walk(answer'.asked).level = 0
               PROVE  answer'.got = Walk(answer'.asked).page
    OBVIOUS
  <2>1. Translate
    BY <1>1 DEF Next, StorePte, WriteSatp, vars
  <2>2. PICK type \in AccessType, vpn \in Vpns :
          \/ TranslateBare(type, vpn) \/ TranslateHit(type, vpn)
          \/ TranslateMiss(type, vpn) \/ TranslateFault(type, vpn)
    BY <2>1 DEF Translate
  <2>3. CASE TranslateBare(type, vpn)
    BY <2>3 DEF TranslateBare
  <2>4. CASE TranslateHit(type, vpn)
    <3>1. /\ answer'.asked = vpn
          /\ answer'.got = HitPage(Slot(type, vpn), vpn)
      BY <2>4 DEF TranslateHit, Answer
    <3>2. Match(Slot(type, vpn), vpn)
      BY <2>4 DEF TranslateHit
    <3>3. /\ Slot(type, vpn).level = 0
          /\ (HitPage(Slot(type, vpn), vpn) = Walk(vpn).page) <=>
               (\A j \in Levels : j < 0 => Slot(type, vpn).page[j] \subseteq vpn[j])
      BY <1>1, <3>1, <3>2 DEF HitsExact
    <3> QED BY <3>1, <3>3 DEF Levels
  <2>5. CASE TranslateMiss(type, vpn)
    BY <2>5 DEF TranslateMiss, Answer
  <2>6. CASE TranslateFault(type, vpn)
    BY <2>6 DEF TranslateFault
  <2> QED BY <2>2, <2>3, <2>4, <2>5, <2>6
<1> QED BY <1>1, HitsAreExact, PTL DEF Spec, SmallPagesRight

-------------------------------------------------------------------------------
(* The refinement. *)

\* The walk says of every page what a mapping may be.
LEMMA WalkMapping == TypeOK => \A vpn \in Vpns : Walk(vpn) \in Space!Mapping
<1> SUFFICES ASSUME TypeOK, NEW vpn \in Vpns PROVE Walk(vpn) \in Space!Mapping
  OBVIOUS
<1>0. vpn \in Page
  BY MmuAssumption
<1>2. Fault \in Space!Mapping
  BY DEF Fault, Zero, Space!Mapping, Levels, Page, Field
<1>3. CASE ~Walk(vpn).ok
  <2>1. Walk(vpn) = Fault
    BY <1>3 DEF Walk, WalkFrom1, WalkFrom0
  <2> QED BY <1>2, <2>1
<1>4. CASE Walk(vpn).ok
  <2> DEFINE w == Walk(vpn)
  <2>1. w.level \in Levels /\ w.page \in Page
    BY <1>0, <1>4, WalkType DEF TypeOK
  <2>2. w = [ok |-> TRUE, level |-> w.level, page |-> w.page]
    BY <1>4 DEF Walk, WalkFrom1, WalkFrom0, Fault
  <2> HIDE DEF w
  <2>3. \A l \in Levels, p \in Page :
          [ok |-> TRUE, level |-> l, page |-> p] \in Space!Mapping
    BY DEF Space!Mapping
  <2>4. w \in Space!Mapping
    BY <2>1, <2>2, <2>3
  <2> QED BY <2>4 DEF w
<1> QED BY <1>3, <1>4

\* And still says it after a step.
LEMMA WalkMappingNext == TypeOK' => (\A vpn \in Vpns : Walk(vpn) \in Space!Mapping)'
BY WalkMapping, PTL

\* A step of the MMU is a step of the address space, or changes nothing in it.
LEMMA SpaceStep ==
  ASSUME TypeOK, TypeOK', Filled, Settled, [Next]_vars
  PROVE  [Space!Next]_(Space!vars)
<1> USE MmuAssumption
<1> DEFINE space == [vpn \in Vpns |-> Walk(vpn)]
<1>1. ASSUME ~aborted, UNCHANGED <<answer, aborted>> PROVE Space!Remap
  <2>1. \A vpn \in Vpns : Walk(vpn)' \in Space!Mapping
    BY WalkMappingNext
  <2> QED BY <1>1, <2>1 DEF Space!Remap
<1>2. CASE StorePte
  BY <1>1, <1>2 DEF StorePte, MayMap, Space!Next
<1>3. CASE WriteSatp
  BY <1>1, <1>3 DEF WriteSatp, MayMap, Space!Next
<1>4. CASE Translate
  <2>1. PICK type \in AccessType, vpn \in Vpns :
          \/ TranslateBare(type, vpn) \/ TranslateHit(type, vpn)
          \/ TranslateMiss(type, vpn) \/ TranslateFault(type, vpn)
    BY <1>4 DEF Translate
  <2>2. ~aborted
    BY <1>4 DEF Translate
  <2>3. UNCHANGED <<tables, satp>>
    BY <2>1 DEF TranslateBare, TranslateHit, TranslateMiss, TranslateFault
  <2>4. space' = space /\ (satp.mode # "bare")' = (satp.mode # "bare")
    BY <2>3, WalkStable
  <2>5. space[vpn] = Walk(vpn)
    OBVIOUS
  <2>6. answer' \in [asked : Page, got : Page]
    BY DEF TypeOK
  <2>7. CASE TranslateBare(type, vpn)
    <3>1. Space!Access(vpn)
      BY <2>2, <2>4, <2>6, <2>7 DEF TranslateBare, Answer, Space!Access
    <3> QED BY <3>1 DEF Space!Next
  <2>8. CASE TranslateHit(type, vpn)
    <3> DEFINE e == Slot(type, vpn)
    <3>1. /\ Walk(vpn).ok /\ Walk(vpn).level = e.level
          /\ \A j \in Levels :
               IF j < e.level
                 THEN HitPage(e, vpn)[j] = e.page[j] \cup vpn[j]
                 ELSE HitPage(e, vpn)[j] = Walk(vpn).page[j]
      BY <2>8, FilledHit DEF TranslateHit
    <3>2. Space!Granted(Walk(vpn), vpn, HitPage(e, vpn))
      BY <3>1 DEF Space!Granted
    <3>3. Space!Access(vpn)
      BY <2>2, <2>4, <2>5, <2>6, <2>8, <3>2 DEF TranslateHit, Answer, Space!Access
    <3> QED BY <3>3 DEF Space!Next
  <2>9. CASE TranslateMiss(type, vpn)
    <3>1. Walk(vpn).ok
      BY <2>9 DEF TranslateMiss
    <3>2. Walk(vpn).level \in Levels
      BY <3>1, WalkType DEF TypeOK
    <3>3. \A j \in Levels : j >= Walk(vpn).level => vpn[j] = vpn[j]
      OBVIOUS
    <3>4. \A j \in Levels : j < Walk(vpn).level => Walk(vpn).page[j] = vpn[j]
      BY <3>1, <3>2, <3>3, SameWalk
    <3>5. Space!Granted(Walk(vpn), vpn, Walk(vpn).page)
      BY <3>1, <3>4 DEF Space!Granted
    <3>6. Space!Access(vpn)
      BY <2>2, <2>4, <2>5, <2>6, <2>9, <3>5 DEF TranslateMiss, Answer, Space!Access
    <3> QED BY <3>6 DEF Space!Next
  <2>10. CASE TranslateFault(type, vpn)
    <3>1. Space!Abort(vpn)
      BY <2>2, <2>4, <2>5, <2>10 DEF TranslateFault, Space!Abort
    <3> QED BY <3>1 DEF Space!Next
  <2> QED BY <2>1, <2>7, <2>8, <2>9, <2>10
<1>5. CASE UNCHANGED vars
  <2>1. space' = space
    BY <1>5, WalkStable DEF vars
  <2> QED BY <1>5, <2>1 DEF vars, Space!vars
<1> QED BY <1>2, <1>3, <1>4, <1>5 DEF Next

\* For a settled guest the three TLBs and the walk behind them implement the
\* address space its tables describe (MMU::translate).
THEOREM AddressSpaceImplemented == Settled => (Spec => ImplementsAddressSpace)
<1> SUFFICES ASSUME Settled PROVE Spec => Space!Spec
  BY DEF ImplementsAddressSpace
<1>1. Init => Space!Init
  <2> SUFFICES ASSUME Init PROVE Space!Init OBVIOUS
  <2>1. \A vpn \in Vpns : Walk(vpn) = Fault
    BY DEF Init, Walk
  <2> QED BY <2>1 DEF Init, Fault, Space!Init
<1>2. TypeOK /\ TypeOK' /\ Filled /\ [Next]_vars => [Space!Next]_(Space!vars)
  BY SpaceStep
<1>3. Spec => []Filled
  BY FilledInit, FilledStep, MmuTypeCorrect, PTL DEF Spec
<1> QED BY <1>1, <1>2, <1>3, MmuTypeCorrect, PTL DEF Spec, Space!Spec

===============================================================================
