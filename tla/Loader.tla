------------------------------- MODULE Loader -------------------------------
(***************************************************************************)
(* loader.asm from the BIOS to the kernel: it asks the BIOS for the memory *)
(* ranges, loads KERNEL.BIN (Boot), sizes the memory, sets up the page     *)
(* tables and copies the segments of the kernel to where they were linked. *)
(* The BIOS and the kernel's file are external.                            *)
(***************************************************************************)
EXTENDS Boot

CONSTANTS
    Word,                       \* 2^32: registers are taken modulo this
    PageSize, PtesPerTable,
    Ranges,                     \* memory ranges the BIOS may report
    MaxRanges,                  \* bound: how many of them
    Room,                       \* how many fit between _MemChkBuf and what the
                                \* stack behind it takes during the walk
    Kernels                     \* program headers of the kernels loaded

ASSUME LoaderAssumption ==
    /\ {Word, PageSize, PtesPerTable, MaxRanges, Room} \subseteq Nat \ {0}
    /\ \A r \in Ranges : r.base \in Nat /\ r.length \in Nat
    /\ Kernels \subseteq Seq([type : Nat, offset : Nat, vaddr : Nat, filesz : Nat]) \ {<<>>}

VARIABLES
    bios,                       \* the ranges the BIOS reports, and whether it fails then
    dwMCRNumber, _MemChkBuf,
    ecx, dwMemSize, tables,     \* ranges to walk, memory size, page tables
    elf, esi,                   \* the program headers, the next one
    segments                    \* what was copied, by address
paging == <<bios, dwMCRNumber, _MemChkBuf, ecx, dwMemSize, tables>>
kernel == <<elf, esi, segments>>
loader == <<vars, paging, kernel>>

\* A kernel's segments are in its file, and do not overlap.
FileSize == BytsPerSec * Len(chain)
Bytes(h) == h.vaddr .. h.vaddr + h.filesz - 1
Linked   == /\ \A i \in DOMAIN elf : elf[i].offset + elf[i].filesz <= FileSize
            /\ \A i, j \in DOMAIN elf : i # j => Bytes(elf[i]) \cap Bytes(elf[j]) = {}

Bioses == {[ranges |-> s, fails |-> f] :
              s \in UNION {[1 .. n -> Ranges] : n \in 0 .. MaxRanges},
              f \in BOOLEAN}

LoaderInit ==
    /\ Start("e820")
    /\ bios \in {b \in Bioses : b.ranges # <<>> \/ b.fails}
    /\ dwMCRNumber = 0 /\ _MemChkBuf = <<>>
    /\ ecx = 0 /\ dwMemSize = 0 /\ tables = 0
    /\ elf \in Kernels /\ Linked
    /\ esi = 1 /\ segments = [a \in {} |-> <<>>]

-----------------------------------------------------------------------------
(* The memory                                                              *)

\* .MemChkLoop: the buffer's end is not looked at.
MemChkLoop ==
    /\ pc = "e820" /\ dwMCRNumber < Len(bios.ranges)
    /\ _MemChkBuf' = Append(_MemChkBuf, bios.ranges[dwMCRNumber + 1])
    /\ dwMCRNumber' = dwMCRNumber + 1
    /\ pc' = IF dwMCRNumber' = Len(bios.ranges) /\ ~bios.fails THEN "sector" ELSE "e820"
    /\ UNCHANGED <<disk, search, load, bios, ecx, dwMemSize, tables, kernel>>

MemChkFail ==
    /\ pc = "e820" /\ dwMCRNumber = Len(bios.ranges) /\ pc' = "sector"
    /\ dwMCRNumber' = 0
    /\ UNCHANGED <<disk, search, load, bios, _MemChkBuf, ecx, dwMemSize, tables, kernel>>

\* Protected mode, and the start of the walk.
LABEL_PM_START ==
    /\ pc = "loaded" /\ pc' = "walk" /\ ecx' = dwMCRNumber
    /\ UNCHANGED <<disk, search, load, bios, dwMCRNumber, _MemChkBuf,
                   dwMemSize, tables, kernel>>

\* What is found in slot i: behind the room there, frames of the stack.
Slot(i) == IF i <= Room THEN {_MemChkBuf[i]} ELSE Ranges

\* DispMemInfo, one range: the low halves of its base and length.  A bug: the
\* last range decides.
End(r)       == ((r.base % Word) + (r.length % Word)) % Word
TheLast(r)   == IF r.type # 1 THEN dwMemSize ELSE End(r)
SizeAfter(r) == IF r.type # 1 \/ End(r) < dwMemSize THEN dwMemSize ELSE End(r)

DispMemInfo ==
    /\ pc = "walk" /\ ecx > 0
    /\ \E r \in Slot(dwMCRNumber - ecx + 1) : dwMemSize' = SizeAfter(r)
    /\ ecx' = ecx - 1 /\ pc' = IF ecx = 1 THEN "paging" ELSE "walk"
    /\ UNCHANGED <<disk, search, load, bios, dwMCRNumber, _MemChkBuf, tables,
                   kernel>>

\* `loop' counts from 0 down to 0, over all there is.
DispMemInfoNone ==
    /\ pc = "walk" /\ ecx = 0 /\ pc' = "runaway"
    /\ UNCHANGED <<disk, search, load, paging, kernel>>

\* How many tables of PtesPerTable pages.  A bug: the remainder is dropped.
WholeTables == dwMemSize \div (PageSize * PtesPerTable)
Tables == LET bytes == PageSize * PtesPerTable
          IN  dwMemSize \div bytes + (IF dwMemSize % bytes = 0 THEN 0 ELSE 1)

\* Without any usable memory, too, `loop' overwrites all.
SetupPaging ==
    /\ pc = "paging" /\ tables' = Tables
    /\ pc' = IF Tables = 0 THEN "runaway" ELSE "init"
    /\ UNCHANGED <<disk, search, load, bios, dwMCRNumber, _MemChkBuf, ecx,
                   dwMemSize, kernel>>

-----------------------------------------------------------------------------
(* The kernel                                                              *)

\* What is at an offset behind BaseOfKernelFile: the byte of a sector, or
\* whatever was there.
FileByte(o) == LET at == o - (o % BytsPerSec)
               IN  <<IF at \in DOMAIN memory THEN memory[at] ELSE -1, o % BytsPerSec>>

\* Where a segment lies in the file.  A bug: taken for its address.
AtAddress(h) == h.vaddr
Source(h)    == h.offset

\* InitKernel, one program header: what is not PT_NULL is copied; what a segment
\* is longer in memory than in the file is left as it was.
InitKernel ==
    /\ pc = "init"
    /\ LET h == elf[esi]
       IN  segments' = IF h.type = 0 THEN segments
                       ELSE [a \in DOMAIN segments \cup Bytes(h) |->
                                IF a \in Bytes(h)
                                THEN FileByte(Source(h) + a - h.vaddr)
                                ELSE segments[a]]
    /\ esi' = esi + 1 /\ pc' = IF esi = Len(elf) THEN "kernel" ELSE "init"
    /\ UNCHANGED <<disk, search, load, paging, elf>>

LoaderStep ==
    \/ Load /\ UNCHANGED <<paging, kernel>>
    \/ MemChkLoop \/ MemChkFail \/ LABEL_PM_START \/ DispMemInfo \/ DispMemInfoNone
    \/ SetupPaging \/ InitKernel

LoaderStopped == pc \in {"nofile", "runaway"} /\ UNCHANGED loader

-----------------------------------------------------------------------------
(* Properties                                                              *)

\* Every usable range that ends below 4 GB is mapped up to its end, in whatever
\* order the ranges came and whatever overwrote those for which there was no room
\* (loader.asm 51-66, 386-407, 426-462).  Nothing is promised of a range that ends
\* at 4 GB or beyond: its end wraps to 32 bits (loader.asm 401-405), and it may
\* stay unmapped.
Held == {bios.ranges[i] : i \in DOMAIN bios.ranges \cap 1 .. Room}
MemoryMapped ==
    pc \in {"init", "kernel"} => \A r \in Held :
        r.type = 1 /\ r.base + r.length < Word =>
            r.base + r.length <= tables * PtesPerTable * PageSize

\* The loader overwrites the memory only after a BIOS that failed, or if all the
\* usable ranges held end at 0 modulo 4 GB: empty at 0, or, though usable, ending
\* just at a multiple of 4 GB (loader.asm 64-65, 385-407, 431-449).
RunawayExplained ==
    pc = "runaway" =>
        bios.fails \/ \A r \in Held : r.type = 1 => (r.base + r.length) % Word = 0

\* When the kernel is entered, every segment of its file is where it was linked,
\* however the file lay on the disk, unless it is longer than a segment of the
\* processor (loader.asm 151-175, 651-673).
KernelInPlace ==
    pc = "kernel" /\ FileSize <= Segment =>
        \A i \in DOMAIN elf : elf[i].type # 0 => \A a \in Bytes(elf[i]) :
            LET o == elf[i].offset + a - elf[i].vaddr
            IN  segments[a] = <<DataSector(chain[o \div BytsPerSec + 1]), o % BytsPerSec>>
=============================================================================
