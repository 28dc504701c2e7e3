--------------------------------- MODULE Loader ---------------------------------
(***************************************************************************)
(* Machine::load_elf: from an ELF file to memory, the start state of the   *)
(* hart and the ranges it may compile.  Positions, sizes and addresses     *)
(* count words of four bytes.  The program headers are read one by one     *)
(* from wherever the stream stands, and loading a segment moves it.        *)
(***************************************************************************)
EXTENDS Integers, Sequences

CONSTANTS Word,          \* what four bytes hold
          ZeroWord,      \* four zero bytes
          PtLoad,        \* PT_LOAD
          Files,         \* the ELF files
          HeaderWords,   \* 14: sizeof(Elf64_Phdr)
          MemWords,      \* Memory::capacity_
          AddressLimit,  \* addresses are sums of 64 bits
          StackBottom    \* what sp starts with

Quad == 0 .. (AddressLimit - 1)
Phdr == [load : BOOLEAN, exec : BOOLEAN, offset : Quad, vaddr : Quad,
         filesz : Quad, memsz : Quad]

\* words[k] is what stands at position k of a file, says[k] what the bytes from
\* there on say when they are taken for a header: p_type is the first of them.
ASSUME LoaderAssumption ==
  /\ ZeroWord \in Word
  /\ HeaderWords \in Nat \ {0}
  /\ MemWords \in Nat /\ StackBottom \in Nat
  /\ AddressLimit \in Nat /\ MemWords < AddressLimit
  /\ \A f \in Files :
       /\ f.valid \in BOOLEAN /\ f.entry \in Nat /\ f.phoff \in Nat
       /\ f.phnum \in Nat /\ f.size \in Nat
       /\ f.words \in [0 .. (f.size - 1) -> Word]
       /\ f.says \in [0 .. (f.size - 1) -> Phdr]
       /\ \A k \in 0 .. (f.size - 1) : f.says[k].load <=> f.words[k] = PtLoad

VARIABLES file,    \* the ELF file
          phase,   \* what load_elf does next, or how it ended
          stream,  \* position and failbit of the ifstream
          phdr,    \* the header last read, in a stack slot nobody clears
          index,   \* i
          ranges,  \* exec_ranges, not yet given to the hart
          memory,  \* Memory::backing_
          hart     \* pc_, x2, halt_ and exec_ranges_

loading == <<file, phase, stream, phdr, index, ranges, memory, hart>>

\* What the slot holds before a header is read, or once more: no PT_LOAD.
NoHeader == [load |-> FALSE, exec |-> FALSE, offset |-> 0, vaddr |-> 0,
             filesz |-> 0, memsz |-> 0]

Address == 0 .. (MemWords - 1)
Empty == [a \in Address |-> ZeroWord]

LoaderInit ==
  /\ file \in Files
  /\ phase = "open"
  /\ stream = [pos |-> 0, fail |-> FALSE]
  /\ phdr = NoHeader
  /\ index = 0
  /\ ranges = <<>>
  /\ memory = Empty
  /\ hart = [pc |-> 0, sp |-> 0, halt |-> FALSE, ranges |-> <<>>]

\* ehdr_sanity_check, which throws, then set_pc and the seek to the headers.
Open ==
  /\ phase = "open"
  /\ IF file.valid
       THEN /\ phase' = "headers"
            /\ hart' = [hart EXCEPT !.pc = file.entry]
            /\ stream' = [stream EXCEPT !.pos = file.phoff]
       ELSE /\ phase' = "threw"
            /\ UNCHANGED <<hart, stream>>
  /\ UNCHANGED <<file, phdr, index, ranges, memory>>

\* file.read(&phdr, sizeof(phdr)) takes whatever bytes stand at the position.
Short == stream.fail \/ stream.pos + HeaderWords > file.size

\* The file ends inside the header: the other fields are what the slot held.
Torn(new, old) ==
  {[load |-> new.load, exec |-> x, offset |-> o, vaddr |-> v, filesz |-> f, memsz |-> m] :
     x \in {new.exec, old.exec}, o \in {new.offset, old.offset},
     v \in {new.vaddr, old.vaddr}, f \in {new.filesz, old.filesz},
     m \in {new.memsz, old.memsz}}

\* At the end of the file nothing is read and phdr is what the stack holds: the last
\* header, most likely, or anything.
Headers ==
  CASE ~Short -> {file.says[stream.pos]}
    [] Short /\ ~stream.fail /\ stream.pos < file.size ->
         Torn(file.says[stream.pos], phdr)
    [] OTHER -> {phdr, NoHeader}

\* Mutant: one header too many.
IteratePast(h) ==
  /\ phase = "headers" /\ index <= file.phnum
  /\ phdr' = h
  /\ index' = index + 1
  /\ UNCHANGED <<file, hart>>

\* An iteration of the loop, with header h.
Iterate(h) ==
  /\ phase = "headers" /\ index < file.phnum
  /\ phdr' = h
  /\ index' = index + 1
  /\ UNCHANGED <<file, hart>>

SkipSegment ==
  \E h \in Headers :
    /\ Iterate(h) /\ ~h.load
    /\ stream' = IF Short THEN [stream EXCEPT !.fail = TRUE]
                           ELSE [stream EXCEPT !.pos = @ + HeaderWords]
    /\ UNCHANGED <<phase, ranges, memory>>

\* seekg does nothing on a stream that has failed, and a vector is zero at first.
Data(h, fail) ==
  [k \in 0 .. (h.filesz - 1) |->
     IF ~fail /\ h.offset + k < file.size THEN file.words[h.offset + k] ELSE ZeroWord]

\* Mutant: the zeroes of .bss start where the segment does.
FillFromStart(h, data) ==
  [a \in Address |->
     CASE h.memsz > h.filesz /\ a \in h.vaddr .. (h.vaddr + h.memsz - h.filesz - 1) -> ZeroWord
       [] a \in h.vaddr .. (h.vaddr + h.filesz - 1) -> data[a - h.vaddr]
       [] OTHER -> memory[a]]

\* load_data, then zero_init for .bss.
Fill(h, data) ==
  [a \in Address |->
     CASE a \in h.vaddr .. (h.vaddr + h.filesz - 1) -> data[a - h.vaddr]
       [] a \in (h.vaddr + h.filesz) .. (h.vaddr + h.memsz - 1) -> ZeroWord
       [] OTHER -> memory[a]]

Range(h) == [begin |-> h.vaddr, end |-> h.vaddr + h.memsz]

Sum(x, y) == (x + y) % AddressLimit

\* load_data and zero_init throw when the end they compute is outside memory.
Passes(h) == /\ Sum(h.vaddr, h.filesz) <= MemWords
             /\ h.memsz > h.filesz => Sum(h.vaddr, h.memsz) <= MemWords

\* A sum that wraps passes too, and then they write outside: undefined.
Inside(h) == /\ h.vaddr + h.filesz <= MemWords
             /\ h.memsz > h.filesz => h.vaddr + h.memsz <= MemWords

\* The stream moves to the segment's bytes and stays behind them.  What a segment that
\* throws has left in memory nobody reads.
LoadSegment ==
  \E h \in Headers :
    /\ Iterate(h) /\ h.load
    /\ stream' = IF Short THEN [stream EXCEPT !.fail = TRUE]
                           ELSE [pos |-> h.offset + h.filesz,
                                 fail |-> /\ h.filesz > 0
                                          /\ h.offset + h.filesz > file.size]
    /\ phase' = IF ~Passes(h) THEN "threw"
                ELSE IF Inside(h) THEN phase ELSE "wild"
    /\ IF phase' = "headers"
         THEN /\ memory' = Fill(h, Data(h, Short))
              /\ ranges' = IF h.exec THEN Append(ranges, Range(h)) ELSE ranges
         ELSE UNCHANGED <<memory, ranges>>

\* set_reg(2, StackBottom), set_halt and set_exec_ranges.
Finish ==
  /\ phase = "headers" /\ index = file.phnum
  /\ phase' = "ready"
  /\ hart' = [hart EXCEPT !.sp = StackBottom, !.halt = FALSE, !.ranges = ranges]
  /\ UNCHANGED <<file, stream, phdr, index, ranges, memory>>

LoaderNext == Open \/ SkipSegment \/ LoadSegment \/ Finish

-------------------------------------------------------------------------------
(* Properties. *)

LoaderTypeOK ==
  /\ phase \in {"open", "headers", "ready", "threw", "wild"}
  /\ stream \in [pos : Nat, fail : BOOLEAN]
  /\ phdr \in Phdr
  /\ index \in 0 .. file.phnum
  /\ ranges \in Seq([begin : Nat, end : Nat])
  /\ memory \in [Address -> Word]
  /\ hart \in [pc : Nat, sp : Nat, halt : BOOLEAN, ranges : Seq([begin : Nat, end : Nat])]

HeaderPos(k) == file.phoff + (k - 1) * HeaderWords
HeadersEnd == file.phoff + file.phnum * HeaderWords

\* The segments of a file that are to be loaded.
Loaded == {k \in 1 .. file.phnum : file.says[HeaderPos(k)].load}

\* The first of them.
First == CHOOSE k \in Loaded : \A l \in Loaded : k <= l
Segment == file.says[HeaderPos(First)]
SegmentEnd == Segment.offset + Segment.filesz

\* Memory with that segment alone.
Image == [a \in Address |-> IF a \in Segment.vaddr .. (Segment.vaddr + Segment.filesz - 1)
                              THEN file.words[Segment.offset + a - Segment.vaddr]
                              ELSE ZeroWord]

\* Its bytes are in the file, the headers before them.
Sound ==
  /\ HeadersEnd <= file.size /\ Loaded # {}
  /\ HeadersEnd <= SegmentEnd /\ SegmentEnd <= file.size
  /\ Segment.filesz <= Segment.memsz

\* The loop reads on from there, one header behind the other.  It sees no PT_LOAD:
\* not so if .data, say, follows .text in the file and begins with the number 1.
Quiet ==
  \A j \in 0 .. (file.phnum - First - 1) :
    LET pos == SegmentEnd + j * HeaderWords
    IN  pos < file.size => ~file.says[pos].load

\* The loop reads on, and at the very end of the file.
RunsOut == SegmentEnd = file.size /\ First < file.phnum

\* What load_elf leaves in memory of a file with several headers, unless the bytes
\* behind the first segment read like a PT_LOAD header: that segment and no other.
\* If the file ends there it may be loaded again, as zeroes (machine.cpp:44-46, a
\* read that is not checked, a seek without a way back).
FirstSegmentOnly ==
  phase = "ready" /\ Sound /\ Quiet =>
    \/ /\ memory = Image
       /\ hart.ranges = IF Segment.exec THEN <<Range(Segment)>> ELSE <<>>
    \/ RunsOut /\ memory = Empty

\* The bytes of the k-th segment are in the file, and no other segment covers them.
Whole(k) ==
  LET h == file.says[HeaderPos(k)] IN
  /\ h.offset + h.filesz <= file.size
  /\ \A l \in Loaded \ {k} :
       LET g == file.says[HeaderPos(l)]
       IN  g.vaddr + g.memsz <= h.vaddr \/ h.vaddr + h.memsz <= g.vaddr

\* An ELF file is loaded (readme.md:7, and the loop over e_phnum): each segment that
\* says PT_LOAD is in memory.
SegmentsLoaded ==
  phase = "ready" /\ Sound =>
    \A k \in Loaded :
      LET h == file.says[HeaderPos(k)] IN
      Whole(k) => \A a \in h.vaddr .. (h.vaddr + h.filesz - 1) :
                    memory[a] = file.words[h.offset + a - h.vaddr]
================================================================================
