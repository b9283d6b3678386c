-------------------------------- MODULE Boot --------------------------------
(***************************************************************************)
(* How boot.asm loads LOADER.BIN from the floppy, and loader.asm           *)
(* KERNEL.BIN by the same code.                                            *)
(*                                                                         *)
(* The file is found in the root directory of a FAT12 disk, sector after   *)
(* sector, and its chain of clusters is followed through the file          *)
(* allocation table, whose 12-bit entries may lie across two sectors.      *)
(* The disk and the BIOS are external; a sector read is the sector, since  *)
(* RdSector retries until it is.  Sizes are constants, so that small disks *)
(* have the same corners as the real one.                                  *)
(***************************************************************************)
EXTENDS Integers, Sequences

CONSTANTS
    BytsPerSec,                 \* BPB_BytsPerSec; a cluster is one sector
    RootDirSectors, EntriesPerSector,
    FATSz,                      \* sectors of one of the two FATs
    Clusters,                   \* the clusters files use: 2, 3, ...
    MaxSectors,                 \* bound: sectors of the longest file
    Segment,                    \* bytes a 16-bit offset reaches
    SecPerTrk                   \* BPB_SecPerTrk; the disk has two heads

EOF == \hFFF

\* BPB_RsvdSecCnt is 1, BPB_NumFATs is 2.
SectorNoOfFAT1          == 1
SectorNoOfRootDirectory == 1 + 2 * FATSz
DeltaSectorNo           == 1 + 2 * FATSz - 2

ASSUME BootAssumption ==
    /\ {BytsPerSec, RootDirSectors, EntriesPerSector, FATSz, MaxSectors, Segment,
        SecPerTrk} \subseteq Nat \ {0}
    /\ Segment % BytsPerSec = 0
    /\ Clusters \subseteq 2 .. \hFEF
    /\ \A c \in Clusters : 3 * (c + 1) <= 2 * BytsPerSec * FATSz
    /\ 2 + FATSz <= SecPerTrk       \* the first FAT and the next sector: one track

VARIABLES
    place,      \* the disk: sector and index of the file's entry in the root
                \* directory, or no place
    chain,      \* the disk: its clusters, in order
    pc,
    wRootDirSizeForLoop, wSectorNo,     \* the search
    dx, di,                             \* entries left in this sector, the next one
    cluster, bx,                        \* the sector to read, and where to
    memory                              \* the sector read, by offset in the segment
disk == <<place, chain>>
search == <<wRootDirSizeForLoop, wSectorNo, dx, di>>
load == <<cluster, bx, memory>>
vars == <<disk, pc, search, load>>

NoPlace == <<-1, -1>>
Places  == (0 .. RootDirSectors - 1) \X (0 .. EntriesPerSector - 1)
Chains  == {s \in UNION {[1 .. n -> Clusters] : n \in 1 .. MaxSectors} :
               \A i, j \in DOMAIN s : s[i] = s[j] => i = j}

Start(here) ==
    /\ place \in Places \cup {NoPlace} /\ chain \in Chains
    /\ pc = here
    /\ wRootDirSizeForLoop = RootDirSectors /\ wSectorNo = SectorNoOfRootDirectory
    /\ dx = 0 /\ di = 0
    /\ cluster = 0 /\ bx = 0 /\ memory = [o \in {} |-> 0]

Init == Start("sector")

-----------------------------------------------------------------------------
(* The file allocation table on the disk                                   *)

\* Clusters of other files end a chain.  A chain ends with all bits 1, the only
\* end the code knows (boot.asm 130); FAT12 also allows FF8h to FFEh, which the
\* systems that write this disk do not use and which the code would follow.
Entry(n) == IF \E i \in DOMAIN chain : chain[i] = n
            THEN LET i == CHOOSE i \in DOMAIN chain : chain[i] = n
                 IN  IF i = Len(chain) THEN EOF ELSE chain[i + 1]
            ELSE EOF

\* Two entries share three bytes.
FatByte(k) ==
    LET even == Entry(2 * (k \div 3))
        odd  == Entry(2 * (k \div 3) + 1)
    IN  CASE k % 3 = 0 -> even % 256
          [] k % 3 = 1 -> even \div 256 + 16 * (odd % 16)
          [] k % 3 = 2 -> odd \div 16

-----------------------------------------------------------------------------
(* RdSector                                                                *)

\* Where the BIOS looks for sector ax.
Chs(ax) == [sector |-> (ax % SecPerTrk) + 1, head |-> (ax \div SecPerTrk) % 2,
            cylinder |-> (ax \div SecPerTrk) \div 2]

\* The sector it finds there, and whether n of them are on one track: else it
\* fails, for ever.
Found(chs)       == SecPerTrk * (2 * chs.cylinder + chs.head) + chs.sector - 1
OneTrack(chs, n) == chs.sector + n - 1 <= SecPerTrk

-----------------------------------------------------------------------------
(* Looking for the file                                                    *)

\* LABEL_SEARCH_IN_ROOT_DIR_BEGIN
NextSector ==
    /\ pc = "sector"
    /\ IF wRootDirSizeForLoop = 0
       THEN pc' = "nofile" /\ UNCHANGED <<wRootDirSizeForLoop, dx, di>>
       ELSE /\ pc' = "entry"
            /\ wRootDirSizeForLoop' = wRootDirSizeForLoop - 1
            /\ dx' = EntriesPerSector /\ di' = 0
    /\ UNCHANGED <<disk, wSectorNo, load>>

\* The 11 characters of the name are those of the entry at di.  A bug: the last
\* entry of a sector is not looked at.
NotTheLast == /\ <<wSectorNo - SectorNoOfRootDirectory, di>> = place
              /\ di < EntriesPerSector - 1
SameName   == <<wSectorNo - SectorNoOfRootDirectory, di>> = place

\* LABEL_SEARCH_FOR_LOADERBIN, LABEL_FILENAMW_FOUND: one entry.  bx counts from
\* where the file goes: OffsetOfKernelFile is 0, OffsetOfLoader 100h, so that for
\* LOADER.BIN Segment is the 127 sectors that fit above it.
NextEntry ==
    /\ pc = "entry" /\ dx > 0
    /\ dx' = dx - 1
    /\ IF SameName
       THEN /\ pc' = "load" /\ cluster' = chain[1] /\ bx' = 0
            /\ UNCHANGED <<di, memory>>
       ELSE di' = di + 1 /\ UNCHANGED <<pc, load>>
    /\ UNCHANGED <<disk, wRootDirSizeForLoop, wSectorNo>>

\* LABEL_GOTO_NEXT_SECTOR_IN_ROOT_DIR
EndOfSector ==
    /\ pc = "entry" /\ dx = 0
    /\ pc' = "sector" /\ wSectorNo' = wSectorNo + 1
    /\ UNCHANGED <<disk, wRootDirSizeForLoop, dx, di, load>>

-----------------------------------------------------------------------------
(* Following the chain                                                     *)

\* How many sectors of the table GetFATEntry reads.  A bug: one.
JustOne     == 1
SectorsRead == 2

\* The byte at es:(bx + i); what was not read is whatever was there.
Buffer(first, i) ==
    IF i < SectorsRead * BytsPerSec
    THEN FatByte((Found(Chs(first)) - SectorNoOfFAT1) * BytsPerSec + i) ELSE 0

FatSector(n) == ((n * 3) \div 2) \div BytsPerSec + SectorNoOfFAT1

GetFATEntry(n) ==
    LET bOdd   == (n * 3) % 2
        first  == FatSector(n)
        at     == ((n * 3) \div 2) % BytsPerSec
        ax     == Buffer(first, at) + 256 * Buffer(first, at + 1)
    IN  (IF bOdd = 1 THEN ax \div 16 ELSE ax) % \h1000

\* The entry looked up is that of the sector just read, which was pushed on the
\* stack.  A bug: that of the first one.
AfterFirst(n)  == GetFATEntry(chain[1])
NextCluster(n) == GetFATEntry(n)

\* LABEL_GOON_LOADING_FILE: the sector of the cluster, then the next cluster.
LoadSector ==
    /\ pc = "load"
    /\ memory' = [o \in DOMAIN memory \cup {bx} |->
                     IF o = bx THEN Found(Chs(cluster + RootDirSectors + DeltaSectorNo))
                     ELSE memory[o]]
    /\ LET next == NextCluster(cluster)
       IN  CASE ~OneTrack(Chs(FatSector(cluster)), SectorsRead) ->
                  pc' = "rereading" /\ UNCHANGED <<cluster, bx>>
             [] OTHER -> IF next = EOF
                         THEN pc' = "loaded" /\ UNCHANGED <<cluster, bx>>
                         ELSE /\ cluster' = next /\ bx' = (bx + BytsPerSec) % Segment
                              /\ UNCHANGED pc
    /\ UNCHANGED <<disk, search>>

Load == NextSector \/ NextEntry \/ EndOfSector \/ LoadSector

\* On to what was loaded, or `jmp $'.
Stopped == pc \in {"loaded", "nofile"} /\ UNCHANGED vars

Next == Load \/ Stopped

Spec == Init /\ [][Next]_vars

-----------------------------------------------------------------------------
(* Properties                                                              *)

\* Wherever its entry is and whatever way its clusters lie on the disk, a file is
\* read in order, sector i to its place; bx being 16 bits wide, it stays there
\* as long as less than a segment follows it (boot.asm 97-138, 173-210 and
\* 240-262, loader.asm 151-175, 227-251 and 296-335).
DataSector(c) == SectorNoOfRootDirectory + RootDirSectors + c - 2
Offset(i)     == (BytsPerSec * (i - 1)) % Segment
InPlace(i)    == Offset(i) \in DOMAIN memory /\ memory[Offset(i)] = DataSector(chain[i])
Loaded        == \A i \in DOMAIN chain :
                     InPlace(i) <=> BytsPerSec * (Len(chain) - i) < Segment
FileLoaded    == pc = "loaded" => Loaded

\* "No Loader" and "No KERNEL" are said only of a disk without the file: every
\* entry of every sector is looked at (boot.asm 42-82).
NoFileIfAbsent == pc = "nofile" => place = NoPlace

\* The search and the walk end: an entry is never misread as a link back
\* (boot.asm 128-138).
LoadEnds == pc = "sector" ~> pc \in {"loaded", "nofile"}
=============================================================================
