---------------------------- MODULE StartupProofs ----------------------------
(***************************************************************************)
(* What holds of Boot and of Startup for every BIOS, disk, kernel and      *)
(* table of processes.                                                     *)
(***************************************************************************)
EXTENDS Startup, TLAPS, WellFoundedInduction

-----------------------------------------------------------------------------
(* Division                                                                *)

LEMMA DivMod == ASSUME NEW a \in Nat, NEW w \in Nat \ {0}
                PROVE  /\ a \div w \in Nat /\ a % w \in 0 .. w - 1
                       /\ a = w * (a \div w) + (a % w)
  BY SMT

LEMMA DivLess == ASSUME NEW a \in Nat, NEW w \in Nat \ {0}, NEW q \in Nat, a < w * q
                 PROVE  a \div w < q
  <1>1. a \div w \in Nat /\ w * (a \div w) <= a
    BY DivMod
  <1>2. w * (a \div w) < w * q
    BY <1>1
  <1> QED
    BY <1>1, <1>2, SMT

\* Numbers closer than s apart do not have the same remainder.
LEMMA ModApart == ASSUME NEW s \in Nat \ {0}, NEW a \in Nat, NEW b \in Nat,
                         a < b, b - a < s
                  PROVE  a % s # b % s
  <1>1. SUFFICES ASSUME a % s = b % s PROVE FALSE
    OBVIOUS
  <1> DEFINE p == a \div s  q == b \div s
  <1>2. p \in Nat /\ q \in Nat /\ a = s * p + (a % s) /\ b = s * q + (b % s)
        /\ a % s \in Nat /\ b % s \in Nat
    BY DivMod
  <1> HIDE DEF p, q
  <1>3. s * q - s * p = b - a
    BY <1>1, <1>2
  <1>4. s * q - s * p = s * (q - p)
    BY <1>2
  <1>5. CASE q <= p
    BY <1>2, <1>3, <1>4, <1>5, SMT
  <1>6. CASE q > p
    BY <1>2, <1>3, <1>4, <1>6, SMT
  <1> QED
    BY <1>2, <1>5, <1>6

-----------------------------------------------------------------------------
(* What is read                                                            *)

LEMMA Sizes ==
    /\ BytsPerSec \in Nat \ {0} /\ RootDirSectors \in Nat \ {0}
    /\ EntriesPerSector \in Nat \ {0} /\ FATSz \in Nat \ {0}
    /\ Segment \in Nat \ {0} /\ SecPerTrk \in Nat \ {0}
    /\ FATSz + 2 <= SecPerTrk
  <1>1. {BytsPerSec, RootDirSectors, EntriesPerSector, FATSz, MaxSectors, Segment,
         SecPerTrk} \subseteq Nat \ {0}
    BY BootAssumption
  <1>2. 2 + FATSz <= SecPerTrk
    BY BootAssumption
  <1> QED
    BY <1>1, <1>2

LEMMA ClusterRange == ASSUME NEW n \in Clusters PROVE n \in Nat /\ 2 <= n /\ n <= 4079
  <1>1. Clusters \subseteq 2 .. 4079
    BY BootAssumption
  <1>2. n \in 2 .. 4079
    BY <1>1
  <1> QED
    BY <1>2

LEMMA InTable == ASSUME NEW n \in Clusters
                 PROVE  /\ BytsPerSec * FATSz \in Nat
                        /\ 3 * (n + 1) <= 2 * (BytsPerSec * FATSz)
  <1>1. 3 * (n + 1) <= 2 * BytsPerSec * FATSz
    BY BootAssumption
  <1>2. BytsPerSec * FATSz \in Nat /\ 2 * BytsPerSec * FATSz = 2 * (BytsPerSec * FATSz)
    BY Sizes
  <1> QED
    BY <1>1, <1>2

\* The BIOS finds the sector it was asked for.
LEMMA FoundIt == ASSUME NEW ax \in Nat PROVE Found(Chs(ax)) = ax
  <1> DEFINE t == ax \div SecPerTrk
  <1>1. t \in Nat /\ ax % SecPerTrk \in Nat /\ ax = SecPerTrk * t + (ax % SecPerTrk)
    BY Sizes, DivMod
  <1>2. t = 2 * (t \div 2) + (t % 2)
    BY <1>1, DivMod
  <1>3. Found(Chs(ax)) = SecPerTrk * (2 * (t \div 2) + (t % 2)) + ((ax % SecPerTrk) + 1) - 1
    BY DEF Found, Chs
  <1> HIDE DEF t
  <1>4. Found(Chs(ax)) = SecPerTrk * t + ((ax % SecPerTrk) + 1) - 1
    BY <1>2, <1>3
  <1> QED
    BY <1>1, <1>4, Sizes

\* The two sectors of the table are on one track.
LEMMA FatOnTrack ==
    ASSUME NEW n \in Clusters
    PROVE  /\ FatSector(n) \in Nat \ {0}
           /\ OneTrack(Chs(FatSector(n)), SectorsRead)
  <1> DEFINE k == (n * 3) \div 2
  <1>1. k \in Nat /\ k < BytsPerSec * FATSz
    <2> DEFINE all == BytsPerSec * FATSz
    <2>1. 3 * (n + 1) <= 2 * all /\ all \in Nat
      BY InTable
    <2>2. n \in Nat
      BY ClusterRange
    <2> HIDE DEF all
    <2>3. k \in Nat /\ k < all
      BY <2>1, <2>2
    <2> QED
      BY <2>3 DEF all
  <1> HIDE DEF k
  <1>2. k \div BytsPerSec \in Nat /\ k \div BytsPerSec < FATSz
    <2>1. BytsPerSec \in Nat \ {0} /\ FATSz \in Nat
      BY Sizes
    <2> QED
      BY <1>1, <2>1, DivMod, DivLess
  <1>3. FatSector(n) = (k \div BytsPerSec) + 1
    BY DEF FatSector, SectorNoOfFAT1, k
  <1> DEFINE f == FatSector(n)
  <1>4. f \in Nat \ {0} /\ f + 2 <= SecPerTrk
    BY <1>2, <1>3, Sizes
  <1> HIDE DEF f
  <1>5. f % SecPerTrk = f
    <2>a. SecPerTrk \in Nat \ {0} /\ f \in Nat /\ f < SecPerTrk * 1
      BY <1>4, Sizes
    <2>1. f % SecPerTrk \in Nat /\ f \div SecPerTrk \in Nat
          /\ f = SecPerTrk * (f \div SecPerTrk) + (f % SecPerTrk)
      BY <2>a, DivMod
    <2>2. f \div SecPerTrk < 1
      BY <2>a, DivLess
    <2>3. f \div SecPerTrk = 0
      BY <2>1, <2>2
    <2> QED
      BY <2>1, <2>3, Sizes
  <1>6. Chs(f).sector = f + 1
    BY <1>5 DEF Chs
  <1> QED
    BY <1>4, <1>6, Sizes DEF OneTrack, SectorsRead, f

\* How two entries share three bytes.
EvenEntry(b0, b1) == (b0 + 256 * b1) % 4096
OddEntry(b0, b1)  == ((b0 + 256 * b1) \div 16) % 4096

Twelve  == 0 .. 4095                               \* what fits an entry
Low(e)  == e % 256                                  \* the three bytes
Mid(e, o) == e \div 256 + 16 * (o % 16)
High(o) == o \div 16

LEMMA PackedEven ==
    ASSUME NEW even \in Twelve, NEW odd \in Twelve
    PROVE  EvenEntry(Low(even), Mid(even, odd)) = even
  <1>0. even \in 0 .. 4095 /\ odd \in 0 .. 4095
    BY DEF Twelve
  <1>a. even \in Nat /\ odd \in Nat
    BY <1>0
  <1>1. PICK e2 \in 0 .. 15, e1 \in 0 .. 255 : even = 256 * e2 + e1
    <2>1. /\ even = 256 * (even \div 256) + (even % 256)
          /\ even \div 256 \in Nat /\ even % 256 \in 0 .. 255
      BY <1>a, DivMod
    <2>2. even \div 256 \in 0 .. 15
      BY <1>0, <2>1
    <2> QED
      BY <2>1, <2>2
  <1>2. odd % 16 \in Nat
    BY <1>a, DivMod
  <1>3. Low(even) = e1 /\ even \div 256 = e2
    BY <1>1 DEF Low
  <1> DEFINE o1 == odd % 16
  <1>4. Mid(even, odd) = e2 + 16 * o1 /\ o1 \in Nat
    BY <1>2, <1>3 DEF Mid
  <1> HIDE DEF o1
  <1>5. Low(even) + 256 * Mid(even, odd) = even + 4096 * o1
    BY <1>1, <1>3, <1>4
  <1>6. (even + 4096 * o1) % 4096 = even
    <2>1. even \in Nat /\ even < 4096 /\ o1 \in Nat
      BY <1>0, <1>4
    <2> QED
      BY <2>1
  <1> QED
    BY <1>5, <1>6 DEF EvenEntry

LEMMA PackedOdd ==
    ASSUME NEW even \in Twelve, NEW odd \in Twelve
    PROVE  OddEntry(Mid(even, odd), High(odd)) = odd
  <1>0. even \in 0 .. 4095 /\ odd \in 0 .. 4095
    BY DEF Twelve
  <1>a. even \in Nat /\ odd \in Nat
    BY <1>0
  <1>1. PICK o2 \in 0 .. 255, o1 \in 0 .. 15 : odd = 16 * o2 + o1
    <2>1. /\ odd = 16 * (odd \div 16) + (odd % 16)
          /\ odd \div 16 \in Nat /\ odd % 16 \in 0 .. 15
      BY <1>a, DivMod
    <2>2. odd \div 16 \in 0 .. 255
      BY <1>0, <2>1
    <2> QED
      BY <2>1, <2>2
  <1> DEFINE e2 == even \div 256
  <1>2. e2 \in 0 .. 15
    <2>1. /\ even = 256 * e2 + (even % 256)
          /\ e2 \in Nat /\ even % 256 \in 0 .. 255
      BY <1>a, DivMod
    <2> QED
      BY <1>0, <2>1
  <1>3. odd % 16 = o1 /\ High(odd) = o2
    BY <1>1 DEF High
  <1>4. Mid(even, odd) = e2 + 16 * o1
    BY <1>3 DEF Mid
  <1> HIDE DEF e2
  <1>5. Mid(even, odd) + 256 * High(odd) = e2 + 16 * odd
    BY <1>1, <1>2, <1>3, <1>4
  <1>6. (e2 + 16 * odd) \div 16 = odd
    BY <1>2, <1>a
  <1>7. odd % 4096 = odd
    <2>1. \A o \in Nat : o < 4096 => o % 4096 = o
      OBVIOUS
    <2> QED
      BY <1>0, <1>a, <2>1
  <1> QED
    BY <1>5, <1>6, <1>7 DEF OddEntry

LEMMA EntryRange == ASSUME chain \in Chains, NEW n PROVE Entry(n) \in Twelve
  <1>1. chain \in Seq(Clusters)
    BY DEF Chains
  <1>a. \A i \in DOMAIN chain : chain[i] \in 0 .. 4095
    <2>1. \A i \in DOMAIN chain : chain[i] \in Clusters
      BY <1>1
    <2>2. \A c \in Clusters : c \in 0 .. 4095
      <3>1. ASSUME NEW c \in Clusters PROVE c \in 0 .. 4095
        <4>1. c \in Nat /\ c <= 4079
          BY ClusterRange
        <4> QED
          BY <4>1
      <3> QED
        BY <3>1
    <2> QED
      BY <2>1, <2>2
  <1>2. \A i \in DOMAIN chain : i # Len(chain) => i + 1 \in DOMAIN chain
    BY <1>1
  <1> DEFINE i == CHOOSE i \in DOMAIN chain : chain[i] = n
  <1>3. CASE \E j \in DOMAIN chain : chain[j] = n
    <2>1. i \in DOMAIN chain
      BY <1>3
    <2>2. Entry(n) = IF i = Len(chain) THEN EOF ELSE chain[i + 1]
      BY <1>3 DEF Entry
    <2> HIDE DEF i
    <2> QED
      BY <1>1, <1>a, <1>2, <2>1, <2>2 DEF EOF, Twelve
  <1>4. CASE ~\E j \in DOMAIN chain : chain[j] = n
    BY <1>4 DEF Entry, EOF, Twelve
  <1> QED
    BY <1>3, <1>4

\* GetFATEntry reads the entry, even if it lies across two sectors.
THEOREM EntryRead == ASSUME chain \in Chains, NEW n \in Clusters
                     PROVE  GetFATEntry(n) = Entry(n)
  <1> DEFINE k == (n * 3) \div 2
             first == FatSector(n)
             off == k % BytsPerSec
  <1>1. n \in Nat /\ k \in Nat
    BY ClusterRange
  <1>2. first - 1 = k \div BytsPerSec
    BY <1>1, Sizes, DivMod DEF FatSector, SectorNoOfFAT1
  <1>3. /\ off \in 0 .. BytsPerSec - 1
        /\ (first - 1) * BytsPerSec + off = k
        /\ first \in Nat
    <2>1. k \div BytsPerSec \in Nat /\ off \in 0 .. BytsPerSec - 1
          /\ k = BytsPerSec * (k \div BytsPerSec) + off
      <3>1. BytsPerSec \in Nat \ {0}
        BY Sizes
      <3> QED
        BY <1>1, <3>1, DivMod
    <2> HIDE DEF k, off, first
    <2>2. (first - 1) * BytsPerSec = BytsPerSec * (k \div BytsPerSec)
      BY <1>2, <2>1, Sizes
    <2> QED
      BY <1>2, <2>1, <2>2, FatOnTrack, Sizes DEF first
  <1>4. Buffer(first, off) = FatByte(k) /\ Buffer(first, off + 1) = FatByte(k + 1)
    <2>1. Found(Chs(first)) = first
      BY <1>3, FoundIt
    <2>2. off < 2 * BytsPerSec /\ off + 1 < 2 * BytsPerSec
      BY <1>3, Sizes
    <2>3. /\ Buffer(first, off) = FatByte((first - 1) * BytsPerSec + off)
          /\ Buffer(first, off + 1) = FatByte((first - 1) * BytsPerSec + (off + 1))
      BY <2>1, <2>2 DEF Buffer, SectorsRead, SectorNoOfFAT1
    <2> HIDE DEF k, off, first
    <2>4. (first - 1) * BytsPerSec \in Int
      BY <1>3, Sizes
    <2>5. (first - 1) * BytsPerSec + (off + 1) = k + 1
      BY <1>3, <2>4
    <2> QED
      BY <1>3, <2>3, <2>5
  <1> DEFINE ax == FatByte(k) + 256 * FatByte(k + 1)
  <1>5. GetFATEntry(n) = (IF (n * 3) % 2 = 1 THEN ax \div 16 ELSE ax) % 4096
    BY <1>4 DEF GetFATEntry
  <1> HIDE DEF first, off
  <1>6. CASE n % 2 = 0
    <2> DEFINE m == n \div 2  odd == Entry(2 * m + 1)
    <2>1. m \in Nat /\ n = 2 * m
      BY <1>1, <1>6
    <2> HIDE DEF m
    <2>2. (n * 3) % 2 # 1 /\ k = 3 * m
      BY <2>1
    <2>3. k \div 3 = m /\ k % 3 = 0 /\ (k + 1) \div 3 = m /\ (k + 1) % 3 = 1
      BY <2>1, <2>2
    <2>4. Entry(n) \in Twelve /\ odd \in Twelve
      BY EntryRange
    <2> HIDE DEF k
    <2>5. FatByte(k) = Low(Entry(n)) /\ FatByte(k + 1) = Mid(Entry(n), odd)
      BY <2>1, <2>3 DEF FatByte, Low, Mid
    <2> HIDE DEF odd
    <2>6. GetFATEntry(n) = EvenEntry(FatByte(k), FatByte(k + 1))
      BY <1>5, <2>2 DEF EvenEntry
    <2>7. EvenEntry(Low(Entry(n)), Mid(Entry(n), odd)) = Entry(n)
      <3> DEFINE en == Entry(n)
      <3>1. en \in Twelve
        BY <2>4
      <3> HIDE DEF en
      <3>2. EvenEntry(Low(en), Mid(en, odd)) = en
        BY <3>1, <2>4, PackedEven
      <3> QED
        BY <3>2 DEF en
    <2> QED
      BY <2>5, <2>6, <2>7
  <1>7. CASE n % 2 = 1
    <2> DEFINE m == n \div 2  even == Entry(2 * m)
    <2>1. m \in Nat /\ n = 2 * m + 1
      BY <1>1, <1>7
    <2> HIDE DEF m
    <2>2. (n * 3) % 2 = 1 /\ k = 3 * m + 1
      BY <2>1
    <2>3. k \div 3 = m /\ k % 3 = 1 /\ (k + 1) \div 3 = m /\ (k + 1) % 3 = 2
      BY <2>1, <2>2
    <2>4. Entry(n) \in Twelve /\ even \in Twelve
      BY EntryRange
    <2> HIDE DEF k
    <2>5. FatByte(k) = Mid(even, Entry(n)) /\ FatByte(k + 1) = High(Entry(n))
      BY <2>1, <2>3 DEF FatByte, Mid, High
    <2> HIDE DEF even
    <2>6. GetFATEntry(n) = OddEntry(FatByte(k), FatByte(k + 1))
      BY <1>5, <2>2 DEF OddEntry
    <2>7. OddEntry(Mid(even, Entry(n)), High(Entry(n))) = Entry(n)
      <3> DEFINE en == Entry(n)
      <3>1. en \in Twelve
        BY <2>4
      <3> HIDE DEF en
      <3>2. OddEntry(Mid(even, en), High(en)) = en
        BY <2>4, <3>1, PackedOdd
      <3> QED
        BY <3>2 DEF en
    <2> QED
      BY <2>5, <2>6, <2>7
  <1> QED
    BY <1>1, <1>6, <1>7

-----------------------------------------------------------------------------
(* Offsets in the segment                                                  *)

LEMMA ModUnique ==
    ASSUME NEW s \in Nat \ {0}, NEW a \in Nat, NEW q \in Nat, NEW r \in 0 .. s - 1,
           a = s * q + r
    PROVE  a % s = r
  <1> DEFINE p == a \div s  t == a % s
  <1>1. p \in Nat /\ t \in 0 .. s - 1 /\ a = s * p + t
    BY DivMod
  <1> HIDE DEF p, t
  <1>2. s * p + t = s * q + r /\ s * p \in Nat /\ s * q \in Nat
    BY <1>1
  <1>3. CASE p > q
    <2>1. s * p = s * q + s * (p - q) /\ s * (p - q) >= s
      BY <1>1, <1>3
    <2> QED
      BY <1>1, <1>2, <2>1
  <1>4. CASE p < q
    <2>1. s * q = s * p + s * (q - p) /\ s * (q - p) >= s
      BY <1>1, <1>4
    <2> QED
      BY <1>1, <1>2, <2>1
  <1>5. CASE p = q
    BY <1>1, <1>2, <1>5
  <1>6. t = r
    BY <1>1, <1>3, <1>4, <1>5
  <1> QED
    BY <1>6 DEF t

LEMMA ModAdd == ASSUME NEW s \in Nat \ {0}, NEW a \in Nat, NEW b \in Nat
                PROVE  ((a % s) + b) % s = (a + b) % s
  <1> DEFINE r == a % s  q == a \div s
  <1>1. q \in Nat /\ r \in Nat /\ a = s * q + r
    BY DivMod
  <1> HIDE DEF q, r
  <1> DEFINE c == r + b  p == c \div s  t == c % s
  <1>2. c \in Nat
    BY <1>1
  <1>3. p \in Nat /\ t \in 0 .. s - 1 /\ c = s * p + t
    BY <1>2, DivMod
  <1> HIDE DEF p, t
  <1>4. a + b = s * (q + p) + t
    <2>1. s * (q + p) = s * q + s * p /\ s * q \in Nat /\ s * p \in Nat
      BY <1>1, <1>3
    <2> QED
      BY <1>1, <1>3, <2>1
  <1>5. (a + b) % s = t
    <2>1. a + b \in Nat /\ q + p \in Nat
      BY <1>1, <1>3
    <2> QED
      BY <1>3, <1>4, <2>1, ModUnique
  <1> QED
    BY <1>5 DEF c, t, r

LEMMA OffsetNext == ASSUME NEW i \in Nat \ {0}
                    PROVE  Offset(i + 1) = (Offset(i) + BytsPerSec) % Segment
  <1> DEFINE a == BytsPerSec * (i - 1)
  <1>1. a \in Nat /\ BytsPerSec * ((i + 1) - 1) = a + BytsPerSec
    BY Sizes
  <1> HIDE DEF a
  <1>2. ((a % Segment) + BytsPerSec) % Segment = (a + BytsPerSec) % Segment
    BY <1>1, Sizes, ModAdd
  <1>3. Offset(i) = a % Segment
    BY DEF Offset, a
  <1>4. Offset(i + 1) = (a + BytsPerSec) % Segment
    BY <1>1 DEF Offset
  <1> QED
    BY <1>2, <1>3, <1>4

\* Two sectors of the file lie a whole number of sectors apart, and the segment
\* holds a whole number of them.
LEMMA Apart ==
    ASSUME NEW j \in Nat \ {0}, NEW i \in Nat \ {0}, j < i
    PROVE  /\ BytsPerSec * (i - j) < Segment => Offset(j) # Offset(i)
           /\ BytsPerSec * (i - j) = Segment => Offset(j) = Offset(i)
           /\ BytsPerSec * (i - 1 - j) < Segment => BytsPerSec * (i - j) <= Segment
           /\ BytsPerSec * (i - 1 - j) >= Segment => BytsPerSec * (i - j) >= Segment
           /\ BytsPerSec * (i - j) \in Nat /\ BytsPerSec * (i - 1 - j) \in Nat
  <1> DEFINE a == BytsPerSec * (j - 1)  b == BytsPerSec * (i - 1)
             d == BytsPerSec * (i - j)  e == BytsPerSec * (i - 1 - j)
  <1>1. a \in Nat /\ b \in Nat /\ d \in Nat /\ e \in Nat
    BY Sizes
  <1>2. b = a + d /\ d = e + BytsPerSec /\ d > 0
    BY Sizes
  <1>3. Offset(j) = a % Segment /\ Offset(i) = b % Segment
    BY DEF Offset
  <1>4. PICK c \in Nat : Segment = BytsPerSec * c
    <2>1. Segment % BytsPerSec = 0
      BY BootAssumption
    <2>2. Segment = BytsPerSec * (Segment \div BytsPerSec) + (Segment % BytsPerSec)
          /\ Segment \div BytsPerSec \in Nat
      BY Sizes, DivMod
    <2> QED
      BY <2>1, <2>2, Sizes
  <1>5. e < Segment => d <= Segment
    <2> SUFFICES ASSUME e < Segment PROVE d <= Segment
      OBVIOUS
    <2> DEFINE k == i - 1 - j
    <2>1. k \in Nat /\ i - j = k + 1
      OBVIOUS
    <2> HIDE DEF k
    <2>2. BytsPerSec * k < BytsPerSec * c
      BY <1>4 DEF k
    <2>3. k < c
      BY <2>1, <2>2, <1>4, Sizes
    <2>4. BytsPerSec * (k + 1) <= BytsPerSec * c
      BY <2>1, <2>3, <1>4, Sizes
    <2> QED
      BY <2>1, <2>4, <1>4
  <1> HIDE DEF a, b, d, e
  <1>6. d < Segment => a % Segment # b % Segment
    <2>1. a < b /\ b - a = d
      BY <1>1, <1>2
    <2> QED
      BY <1>1, <2>1, Sizes, ModApart
  <1>7. d = Segment => a % Segment = b % Segment
    <2> SUFFICES ASSUME d = Segment PROVE a % Segment = b % Segment
      OBVIOUS
    <2> DEFINE q == a \div Segment  r == a % Segment
    <2>1. q \in Nat /\ r \in 0 .. Segment - 1 /\ a = Segment * q + r
      BY <1>1, Sizes, DivMod
    <2> HIDE DEF q, r
    <2>2. Segment * (q + 1) = Segment * q + Segment /\ Segment * q \in Nat
      BY <2>1, Sizes
    <2>3. b = Segment * (q + 1) + r
      <3> DEFINE x == Segment * q  y == Segment * (q + 1)
      <3>1. a = x + r /\ y = x + Segment /\ x \in Nat /\ Segment \in Nat /\ r \in Nat
        BY <2>1, <2>2, Sizes
      <3> HIDE DEF x, y
      <3>2. b = a + Segment
        BY <1>2
      <3>3. b = y + r
        BY <3>1, <3>2
      <3> QED
        BY <3>3 DEF y
    <2>4. b % Segment = r
      BY <1>1, <2>1, <2>3, Sizes, ModUnique
    <2> QED
      BY <2>4 DEF r
  <1>8. e >= Segment => d >= Segment
    BY <1>1, <1>2, Sizes
  <1> QED
    BY <1>1, <1>3, <1>5, <1>6, <1>7, <1>8 DEF d, e

-----------------------------------------------------------------------------
(* The chain                                                               *)

LEMMA ChainFacts == ASSUME chain \in Chains
                    PROVE  /\ Len(chain) \in Nat \ {0} /\ DOMAIN chain = 1 .. Len(chain)
                           /\ \A i \in 1 .. Len(chain) : chain[i] \in Clusters
                           /\ \A i, j \in 1 .. Len(chain) : chain[i] = chain[j] => i = j
  <1>1. PICK n \in 1 .. MaxSectors : chain \in [1 .. n -> Clusters]
    BY DEF Chains
  <1>2. n \in Nat \ {0}
    BY <1>1, BootAssumption
  <1>3. chain \in Seq(Clusters) /\ Len(chain) = n /\ DOMAIN chain = 1 .. n
    BY <1>1, <1>2
  <1> QED
    BY <1>1, <1>2, <1>3 DEF Chains

LEMMA Follows == ASSUME chain \in Chains, NEW i \in 1 .. Len(chain)
                 PROVE  /\ GetFATEntry(chain[i]) =
                              IF i = Len(chain) THEN EOF ELSE chain[i + 1]
                        /\ GetFATEntry(chain[i]) = EOF <=> i = Len(chain)
  <1>1. chain[i] \in Clusters /\ i \in DOMAIN chain
    BY ChainFacts
  <1>2. GetFATEntry(chain[i]) = Entry(chain[i])
    <2> DEFINE n == chain[i]
    <2>1. n \in Clusters
      BY <1>1
    <2> HIDE DEF n
    <2>2. GetFATEntry(n) = Entry(n)
      BY <2>1, EntryRead
    <2> QED
      BY <2>2 DEF n
  <1>3. (CHOOSE j \in DOMAIN chain : chain[j] = chain[i]) = i
    <2>1. \A j \in DOMAIN chain : chain[j] = chain[i] => j = i
      BY ChainFacts
    <2> QED
      BY <1>1, <2>1
  <1>4. Entry(chain[i]) = IF i = Len(chain) THEN EOF ELSE chain[i + 1]
    BY <1>1, <1>3 DEF Entry
  <1>5. \A c \in Clusters : c # EOF
    <2>1. ASSUME NEW c \in Clusters PROVE c # EOF
      <3>1. c \in Nat /\ c <= 4079
        BY ClusterRange
      <3> QED
        BY <3>1 DEF EOF
    <2> QED
      BY <2>1
  <1>6. i # Len(chain) => chain[i + 1] \in Clusters
    <2>1. i # Len(chain) => i + 1 \in 1 .. Len(chain)
      <3>1. Len(chain) \in Nat
        BY ChainFacts
      <3> QED
        BY <3>1
    <2> QED
      BY <2>1, ChainFacts
  <1> QED
    BY <1>2, <1>4, <1>5, <1>6

\* The sector read is the cluster's.
LEMMA SectorFound == ASSUME NEW c \in Clusters
                     PROVE  /\ Found(Chs(c + RootDirSectors + DeltaSectorNo)) = DataSector(c)
                            /\ DataSector(c) \in Nat
                            /\ \A d \in Clusters : DataSector(c) = DataSector(d) => c = d
  <1> DEFINE ax == c + RootDirSectors + DeltaSectorNo
  <1>1. ax \in Nat /\ ax = DataSector(c)
    BY ClusterRange, Sizes DEF DeltaSectorNo, DataSector, SectorNoOfRootDirectory
  <1>2. \A d \in Clusters : DataSector(c) = DataSector(d) => c = d
    <2>1. ASSUME NEW d \in Clusters, DataSector(c) = DataSector(d) PROVE c = d
      <3>1. c \in Nat /\ d \in Nat
        BY ClusterRange
      <3> QED
        BY <2>1, <3>1, Sizes DEF DataSector, SectorNoOfRootDirectory
    <2> QED
      BY <2>1
  <1> HIDE DEF ax
  <1>3. Found(Chs(ax)) = ax
    BY <1>1, FoundIt
  <1> QED
    BY <1>1, <1>2, <1>3 DEF ax

-----------------------------------------------------------------------------
(* Boot: the inductive invariant                                            *)

\* What is left to look at holds the file, if the disk does.
Searching ==
    LET now == wSectorNo - SectorNoOfRootDirectory
    IN  /\ wRootDirSizeForLoop \in Nat /\ wSectorNo \in Nat /\ dx \in Nat /\ di \in Nat
        /\ pc = "sector" =>
              /\ now + wRootDirSizeForLoop = RootDirSectors
              /\ place # NoPlace => place[1] >= now
        /\ pc = "entry" =>
              /\ now + wRootDirSizeForLoop + 1 = RootDirSectors
              /\ di + dx = EntriesPerSector
              /\ place # NoPlace => \/ place[1] > now
                                    \/ place[1] = now /\ place[2] >= di

\* The first n sectors are where they belong, but for those a segment further on.
Placed(n) == \A j \in 1 .. n :
                 /\ Offset(j) \in DOMAIN memory
                 /\ memory[Offset(j)] = DataSector(chain[j]) <=> BytsPerSec * (n - j) < Segment

BInv ==
    /\ place \in Places \cup {NoPlace} /\ chain \in Chains
    /\ pc \in {"sector", "entry", "load", "loaded", "nofile"}
    /\ Searching
    /\ pc = "load" => \E i \in 1 .. Len(chain) :
                         cluster = chain[i] /\ bx = Offset(i) /\ Placed(i - 1)
    /\ NoFileIfAbsent
    /\ pc = "loaded" => Placed(Len(chain))

USE DEF Init, Start

\* One sector more.
LEMMA OneMore ==
    ASSUME chain \in Chains, NEW i \in 1 .. Len(chain), Placed(i - 1),
           cluster = chain[i], bx = Offset(i), UNCHANGED chain,
           memory' = [o \in DOMAIN memory \cup {bx} |->
                         IF o = bx THEN Found(Chs(cluster + RootDirSectors + DeltaSectorNo))
                         ELSE memory[o]]
    PROVE  Placed(i)'
  <1> DEFINE new == DataSector(chain[i])
  <1>1. Len(chain) \in Nat /\ i \in Nat \ {0}
    BY ChainFacts
  <1>2. chain[i] \in Clusters
    BY ChainFacts
  <1>3. Found(Chs(cluster + RootDirSectors + DeltaSectorNo)) = new
    BY <1>2, SectorFound
  <1> HIDE DEF new
  <1>4. memory' = [o \in DOMAIN memory \cup {Offset(i)} |->
                      IF o = Offset(i) THEN new ELSE memory[o]]
    BY <1>3
  <1> SUFFICES ASSUME NEW j \in 1 .. i
               PROVE  /\ Offset(j) \in DOMAIN memory'
                      /\ memory'[Offset(j)] = DataSector(chain[j])
                            <=> BytsPerSec * (i - j) < Segment
    BY DEF Placed, Offset, DataSector
  <1>5. CASE j = i
    <2>1. BytsPerSec * (i - i) = 0 /\ 0 < Segment
      BY <1>1, Sizes
    <2> QED
      BY <1>4, <1>5, <2>1 DEF new
  <1>6. CASE j # i
    <2>1. j \in 1 .. i - 1 /\ j \in Nat \ {0} /\ j < i /\ j \in 1 .. Len(chain)
      BY <1>1, <1>6
    <2>2. /\ Offset(j) \in DOMAIN memory
          /\ memory[Offset(j)] = DataSector(chain[j])
                <=> BytsPerSec * (i - 1 - j) < Segment
      BY <2>1 DEF Placed
    <2>3. /\ BytsPerSec * (i - j) < Segment => Offset(j) # Offset(i)
          /\ BytsPerSec * (i - j) = Segment => Offset(j) = Offset(i)
          /\ BytsPerSec * (i - 1 - j) < Segment => BytsPerSec * (i - j) <= Segment
          /\ BytsPerSec * (i - 1 - j) >= Segment => BytsPerSec * (i - j) >= Segment
          /\ BytsPerSec * (i - j) \in Nat /\ BytsPerSec * (i - 1 - j) \in Nat
      BY <1>1, <2>1, Apart
    <2> DEFINE d == BytsPerSec * (i - j)  e == BytsPerSec * (i - 1 - j)
    <2>4. /\ d < Segment => Offset(j) # Offset(i)
          /\ d = Segment => Offset(j) = Offset(i)
          /\ e < Segment => d <= Segment
          /\ e >= Segment => d >= Segment
          /\ d \in Nat /\ e \in Nat
          /\ memory[Offset(j)] = DataSector(chain[j]) <=> e < Segment
      BY <2>2, <2>3
    <2> HIDE DEF d, e
    <2>5. CASE Offset(j) = Offset(i)
      <3>1. chain[j] \in Clusters /\ chain[j] # chain[i]
        BY <1>6, <2>1, ChainFacts
      <3>2. DataSector(chain[j]) # new
        BY <1>2, <3>1, SectorFound DEF new
      <3>3. memory'[Offset(j)] = new
        BY <1>4, <2>5
      <3>4. ~(d < Segment)
        BY <2>4, <2>5
      <3> QED
        BY <1>4, <2>2, <3>2, <3>3, <3>4 DEF d
    <2>6. CASE Offset(j) # Offset(i)
      <3>1. memory'[Offset(j)] = memory[Offset(j)]
        BY <1>4, <2>2, <2>6
      <3>2. e < Segment <=> d < Segment
        BY <2>4, <2>6, Sizes
      <3> QED
        BY <1>4, <2>2, <2>4, <3>1, <3>2 DEF d
    <2> QED
      BY <2>5, <2>6
  <1> QED
    BY <1>5, <1>6

LEMMA InitBInv == Init => BInv
  <1> SUFFICES ASSUME Init PROVE BInv
    OBVIOUS
  <1>1. place # NoPlace => place[1] >= 0
    BY DEF Places
  <1>2. Searching
    BY <1>1, Sizes DEF Searching, SectorNoOfRootDirectory
  <1> QED
    BY <1>2 DEF BInv, NoFileIfAbsent

LEMMA NextBInv == BInv /\ [Next]_vars => BInv'
  <1> SUFFICES ASSUME BInv, [Next]_vars PROVE BInv'
    OBVIOUS
  <1> USE DEF BInv
  <1>p. place # NoPlace => /\ place \in (0 .. RootDirSectors - 1) \X (0 .. EntriesPerSector - 1)
                           /\ place[1] \in Nat /\ place[1] < RootDirSectors
                           /\ place[2] \in Nat /\ place[2] < EntriesPerSector
                           /\ place = <<place[1], place[2]>>
    BY Sizes DEF Places
  <1>s. wRootDirSizeForLoop \in Nat /\ wSectorNo \in Nat /\ dx \in Nat /\ di \in Nat
        /\ SectorNoOfRootDirectory \in Nat
    BY Sizes DEF Searching, SectorNoOfRootDirectory
  <1>1. CASE NextSector
    <2>1. UNCHANGED <<place, chain, wSectorNo, memory, cluster, bx>>
      BY <1>1 DEF NextSector, disk, load
    <2>2. CASE wRootDirSizeForLoop = 0
      <3>1. pc' = "nofile" /\ UNCHANGED <<wRootDirSizeForLoop, dx, di>>
        BY <1>1, <2>2 DEF NextSector
      <3>2. place = NoPlace
        BY <1>1, <1>p, <1>s, <2>2, Sizes DEF NextSector, Searching
      <3> QED
        BY <2>1, <3>1, <3>2 DEF Searching, NoFileIfAbsent
    <2>3. CASE wRootDirSizeForLoop # 0
      <3>1. /\ pc = "sector" /\ pc' = "entry"
            /\ wRootDirSizeForLoop' = wRootDirSizeForLoop - 1
            /\ dx' = EntriesPerSector /\ di' = 0
        BY <1>1, <2>3 DEF NextSector
      <3>2. Searching'
        BY <1>p, <1>s, <2>1, <2>3, <3>1, Sizes DEF Searching, SectorNoOfRootDirectory
      <3> QED
        BY <2>1, <3>1, <3>2 DEF NoFileIfAbsent
    <2> QED
      BY <2>2, <2>3
  <1>2. CASE NextEntry
    <2>1. UNCHANGED <<place, chain, wSectorNo, wRootDirSizeForLoop, memory>>
          /\ pc = "entry" /\ dx > 0 /\ dx' = dx - 1
      BY <1>2 DEF NextEntry, disk, load
    <2>2. CASE SameName
      <3>1. pc' = "load" /\ cluster' = chain[1] /\ bx' = 0 /\ di' = di
        BY <1>2, <2>2 DEF NextEntry
      <3>2. Searching'
        BY <1>s, <2>1, <3>1 DEF Searching
      <3>3. 1 \in 1 .. Len(chain)
        BY ChainFacts
      <3>4. Offset(1) = 0
        <4>1. BytsPerSec * (1 - 1) = Segment * 0 + 0
          BY Sizes
        <4>2. (BytsPerSec * (1 - 1)) % Segment = 0
          BY <4>1, Sizes, ModUnique
        <4> QED
          BY <4>2 DEF Offset
      <3>5. Placed(1 - 1)'
        BY DEF Placed
      <3> QED
        BY <2>1, <3>1, <3>2, <3>3, <3>4, <3>5 DEF NoFileIfAbsent, Offset
    <2>3. CASE ~SameName
      <3>1. pc' = "entry" /\ di' = di + 1 /\ UNCHANGED <<cluster, bx>>
        BY <1>2, <2>1, <2>3 DEF NextEntry, load
      <3>2. place # NoPlace => ~(place[1] = wSectorNo - SectorNoOfRootDirectory /\ place[2] = di)
        BY <1>p, <2>3 DEF SameName
      <3>3. Searching'
        BY <1>p, <1>s, <2>1, <3>1, <3>2 DEF Searching, SectorNoOfRootDirectory
      <3> QED
        BY <2>1, <3>1, <3>3 DEF NoFileIfAbsent
    <2> QED
      BY <2>2, <2>3
  <1>3. CASE EndOfSector
    <2>1. /\ UNCHANGED <<place, chain, wRootDirSizeForLoop, dx, di, cluster, bx, memory>>
          /\ pc = "entry" /\ dx = 0 /\ pc' = "sector" /\ wSectorNo' = wSectorNo + 1
      BY <1>3 DEF EndOfSector, disk, load
    <2>2. Searching'
      BY <1>p, <1>s, <2>1 DEF Searching, SectorNoOfRootDirectory
    <2> QED
      BY <2>1, <2>2 DEF NoFileIfAbsent
  <1>4. CASE LoadSector
    <2>1. pc = "load" /\ UNCHANGED <<place, chain, wRootDirSizeForLoop, wSectorNo, dx, di>>
      BY <1>4 DEF LoadSector, disk, search
    <2>2. PICK i \in 1 .. Len(chain) : cluster = chain[i] /\ bx = Offset(i) /\ Placed(i - 1)
      BY <2>1
    <2>3. Placed(i)'
      BY <1>4, <2>1, <2>2, OneMore DEF LoadSector
    <2>4. chain[i] \in Clusters /\ Len(chain) \in Nat \ {0}
      BY ChainFacts
    <2>5. OneTrack(Chs(FatSector(cluster)), SectorsRead)
      <3>1. \A c \in Clusters : OneTrack(Chs(FatSector(c)), SectorsRead)
        BY FatOnTrack
      <3> QED
        BY <2>2, <2>4, <3>1
    <2>7. CASE i = Len(chain)
      <3>1. GetFATEntry(cluster) = EOF
        BY <2>2, <2>7, Follows
      <3>2. pc' = "loaded"
        BY <1>4, <2>5, <3>1 DEF LoadSector, NextCluster
      <3>3. Searching' /\ NoFileIfAbsent'
        BY <2>1, <3>2 DEF Searching, NoFileIfAbsent
      <3> QED
        BY <2>1, <2>3, <2>7, <3>2, <3>3
    <2>8. CASE i # Len(chain)
      <3>1. GetFATEntry(cluster) = chain[i + 1] /\ chain[i + 1] # EOF
        BY <2>2, <2>8, Follows
      <3>2. pc' = "load" /\ cluster' = chain[i + 1] /\ bx' = (bx + BytsPerSec) % Segment
        BY <1>4, <2>1, <2>5, <3>1 DEF LoadSector, NextCluster
      <3>3. i + 1 \in 1 .. Len(chain) /\ i \in Nat \ {0} /\ (i + 1) - 1 = i
        BY <2>4, <2>8
      <3>4. bx' = Offset(i + 1)
        BY <2>2, <3>2, <3>3, OffsetNext
      <3>5. Searching' /\ NoFileIfAbsent'
        BY <2>1, <3>2 DEF Searching, NoFileIfAbsent
      <3>6. Placed((i + 1) - 1)'
        BY <2>3, <3>3
      <3>7. \E m \in 1 .. Len(chain) :
               cluster' = chain[m] /\ bx' = Offset(m) /\ Placed(m - 1)'
        BY <3>2, <3>3, <3>4, <3>6
      <3> QED
        BY <2>1, <3>2, <3>5, <3>7 DEF Offset
    <2> QED
      BY <2>7, <2>8
  <1>5. CASE UNCHANGED vars
    <2>1. UNCHANGED <<place, chain, pc, wRootDirSizeForLoop, wSectorNo, dx, di, cluster, bx,
                      memory>>
      BY <1>5 DEF vars, disk, search, load
    <2> QED
      BY <2>1 DEF Searching, NoFileIfAbsent, Placed, Offset, DataSector
  <1> QED
    BY <1>1, <1>2, <1>3, <1>4, <1>5 DEF Next, Load, Stopped

THEOREM Invariance == Spec => []BInv
  BY InitBInv, NextBInv, PTL DEF Spec

\* A disk that holds the file is never said not to (boot.asm 42-82).
THEOREM Absent == Spec => []NoFileIfAbsent
  <1>1. BInv => NoFileIfAbsent
    BY DEF BInv
  <1> QED
    BY <1>1, Invariance, PTL

LEMMA InPlaceAll == BInv => FileLoaded
  <1> SUFFICES ASSUME BInv, pc = "loaded", NEW i \in DOMAIN chain
               PROVE  InPlace(i) <=> BytsPerSec * (Len(chain) - i) < Segment
    BY DEF FileLoaded, Loaded
  <1>1. Placed(Len(chain)) /\ i \in 1 .. Len(chain)
    BY ChainFacts DEF BInv
  <1> QED
    BY <1>1 DEF Placed, InPlace

\* Whatever way its clusters lie on the disk, a file is read sector by sector to
\* its place, and what is lost of a long one is what lies a segment before its end
\* (boot.asm 84-116, 186-227).
THEOREM LoadedInPlace == Spec => []FileLoaded
  BY InPlaceAll, Invariance, PTL

-----------------------------------------------------------------------------
(* The inductive invariant                                                 *)

Booting == {"sector", "entry", "load", "loaded", "nofile"}      \* pc of Boot

\* The file: as in Boot until it is loaded, and in its place from then on.
FileInv ==
    /\ pc \in Booting \cup {"e820", "walk", "paging", "init", "kernel", "runaway"}
    /\ chain \in Chains
    /\ pc = "e820" => Start("e820")
    /\ pc \in Booting => BInv
    /\ pc \in {"walk", "paging", "init", "kernel"} => Placed(Len(chain))

\* The first n ranges are within the memory's size.
Counted(n) ==
    \A i \in 1 .. n :
        i <= Room /\ bios.ranges[i].type = 1 => End(bios.ranges[i]) <= dwMemSize

\* The memory: the buffer repeats what the BIOS has said, and the walk goes over
\* all of it.
MemInv ==
    /\ bios.ranges \in Seq(Ranges) /\ (bios.ranges # <<>> \/ bios.fails)
    /\ _MemChkBuf \in Seq(Ranges) /\ Len(_MemChkBuf) <= Len(bios.ranges)
    /\ \A i \in 1 .. Len(_MemChkBuf) : _MemChkBuf[i] = bios.ranges[i]
    /\ dwMemSize \in Nat /\ ecx \in Nat /\ dwMCRNumber \in Nat
    /\ pc = "e820" => dwMCRNumber = Len(_MemChkBuf)
    /\ pc = "e820" /\ dwMCRNumber = Len(bios.ranges) => bios.fails
    /\ pc # "e820" =>
          /\ Len(_MemChkBuf) = Len(bios.ranges)
          /\ bios.fails \/ dwMCRNumber = Len(bios.ranges)
          /\ dwMCRNumber \in {0, Len(bios.ranges)}
    /\ pc = "walk" => /\ ecx <= dwMCRNumber /\ (ecx = 0 => dwMCRNumber = 0)
                      /\ Counted(dwMCRNumber - ecx)
    /\ pc \in {"paging", "init", "kernel"} => dwMCRNumber # 0 /\ Counted(dwMCRNumber)
    /\ pc \in {"init", "kernel"} => tables = Tables
    /\ RunawayExplained

\* The first n segments are where they were linked.
InSegments(i) ==
    elf[i].type # 0 => \A a \in Bytes(elf[i]) :
        /\ a \in DOMAIN segments
        /\ segments[a] = FileByte(elf[i].offset + a - elf[i].vaddr)

KernelInv ==
    /\ elf \in Kernels /\ Linked
    /\ pc \notin {"init", "kernel"} => esi = 1
    /\ pc = "init" => esi \in 1 .. Len(elf)
    /\ pc = "init" => \A i \in 1 .. esi - 1 : InSegments(i)
    /\ pc = "kernel" => \A i \in 1 .. Len(elf) : InSegments(i)

\* What an exception needs: no process is in the kernel's ring, and which gates
\* the processes may call.
IsSeq(s) == s \in Seq({s[i] : i \in DOMAIN s})

TablesInv ==
    /\ IsSeq(proc_table) /\ \A i \in 1 .. Len(proc_table) : proc_table[i].cs \in {5, 7}
    /\ at \notin {"cstart", "idt"} =>
          idt = [v \in Exceptions \cup Irqs \cup {SYS_CALL} |-> Privilege(v)]
    /\ ReportIsTrue

SInv == FileInv /\ MemInv /\ KernelInv /\ TablesInv

-----------------------------------------------------------------------------
(* Steps of the loader                                                     *)

LEMMA Assumed ==
    /\ Word \in Nat \ {0} /\ PageSize * PtesPerTable \in Nat \ {0} /\ Room \in Nat
    /\ \A r \in Ranges : r.base \in Nat /\ r.length \in Nat
    /\ \A k \in Kernels : k \in Seq([type : Nat, offset : Nat, vaddr : Nat, filesz : Nat])
                          /\ k # <<>>
  <1>1. {Word, PageSize, PtesPerTable, MaxRanges, Room} \subseteq Nat \ {0}
    BY LoaderAssumption
  <1>2. PageSize \in Nat \ {0} /\ PtesPerTable \in Nat \ {0}
    BY <1>1
  <1>3. PageSize * PtesPerTable \in Nat \ {0}
    BY <1>2, SMT
  <1> QED
    BY <1>1, <1>3, LoaderAssumption

\* The end that the loader computes from the low halves.
LEMMA EndIs == ASSUME NEW r \in Ranges PROVE End(r) = (r.base + r.length) % Word
  <1> DEFINE b == r.base  l == r.length
  <1>1. b \in Nat /\ l \in Nat /\ Word \in Nat \ {0}
    BY Assumed
  <1> HIDE DEF b, l
  <1>2. b % Word \in Nat /\ l % Word \in Nat
    BY <1>1, DivMod
  <1>3. ((b % Word) + (l % Word)) % Word = (b + (l % Word)) % Word
    BY <1>1, <1>2, ModAdd
  <1>4. ((l % Word) + b) % Word = (l + b) % Word
    BY <1>1, ModAdd
  <1>5. b + (l % Word) = (l % Word) + b /\ l + b = b + l
    BY <1>1, <1>2
  <1>6. ((b % Word) + (l % Word)) % Word = (b + l) % Word
    BY <1>3, <1>4, <1>5
  <1> QED
    BY <1>6 DEF End, b, l

LEMMA EndNat == ASSUME NEW r \in Ranges PROVE End(r) \in Nat
  <1> DEFINE b == r.base % Word  l == r.length % Word
  <1>1. r.base \in Nat /\ r.length \in Nat
    BY Assumed
  <1>2. b \in Nat /\ l \in Nat
    <2>1. Word \in Nat \ {0}
      BY Assumed
    <2> QED
      BY <1>1, <2>1, DivMod
  <1> HIDE DEF b, l
  <1>3. (b + l) % Word \in Nat
    <2>1. b + l \in Nat
      BY <1>2
    <2> QED
      BY <2>1, Assumed, DivMod
  <1> QED
    BY <1>3 DEF End, b, l

\* Boot's variables stay as they are.
LEMMA FileStays ==
    ASSUME FileInv, UNCHANGED <<disk, search, load>>, pc # "e820", pc # "loaded",
           pc \notin Booting,
           pc' \in {"walk", "paging", "init", "kernel", "runaway"},
           pc = "runaway" => pc' = "runaway"
    PROVE  FileInv'
  <1>1. UNCHANGED <<place, chain, memory>>
    BY DEF disk, load
  <1>2. Placed(Len(chain)) => Placed(Len(chain))'
    BY <1>1 DEF Placed, Offset, DataSector
  <1> QED
    BY <1>1, <1>2 DEF FileInv, Booting

LEMMA FileNext ==
    ASSUME FileInv, LoaderStep
    PROVE  FileInv'
  <1>1. CASE Load
    <2>1. pc \in Booting
      BY <1>1 DEF Load, NextSector, NextEntry, EndOfSector, LoadSector, Booting
    <2>2. BInv'
      BY <1>1, <2>1, NextBInv DEF FileInv, Next
    <2> QED
      BY <2>2 DEF FileInv, BInv, Booting
  <1>2. CASE MemChkLoop \/ MemChkFail
    <2>1. pc = "e820" /\ pc' \in {"e820", "sector"} /\ UNCHANGED <<disk, search, load>>
      BY <1>2 DEF MemChkLoop, MemChkFail
    <2>2. Start("e820") /\ UNCHANGED <<place, chain, wRootDirSizeForLoop, wSectorNo, dx, di,
                                       cluster, bx, memory>>
      BY <2>1 DEF FileInv, disk, search, load
    <2>3. CASE pc' = "e820"
      BY <2>2, <2>3 DEF FileInv, Booting, Start
    <2>4. CASE pc' = "sector"
      <3>1. /\ (place \in Places \cup {NoPlace})' /\ (chain \in Chains)'
            /\ (wRootDirSizeForLoop = RootDirSectors)' /\ (wSectorNo = SectorNoOfRootDirectory)'
            /\ (dx = 0)' /\ (di = 0)'
            /\ (cluster = 0)' /\ (bx = 0)' /\ (memory = [o \in {} |-> 0])'
        BY <2>2 DEF Places, Chains, Start
      <3>2. Init'
        BY <2>4, <3>1 DEF Init, Start
      <3>3. BInv'
        BY <3>2, InitBInv, PTL
      <3> QED
        BY <2>4, <3>1, <3>3 DEF FileInv, Booting
    <2> QED
      BY <2>1, <2>3, <2>4
  <1>3. CASE LABEL_PM_START
    <2>1. pc = "loaded" /\ pc' = "walk" /\ UNCHANGED <<chain, memory>> /\ BInv
      BY <1>3 DEF LABEL_PM_START, disk, load, FileInv, Booting
    <2>2. Placed(Len(chain))'
      BY <2>1 DEF BInv, Placed, Offset, DataSector
    <2> QED
      BY <2>1, <2>2 DEF FileInv, Booting
  <1>4. CASE DispMemInfo \/ DispMemInfoNone \/ SetupPaging \/ InitKernel
    <2>1. /\ UNCHANGED <<disk, search, load>> /\ pc \in {"walk", "paging", "init"}
          /\ pc' \in {"walk", "paging", "init", "kernel", "runaway"}
      BY <1>4 DEF DispMemInfo, DispMemInfoNone, SetupPaging, InitKernel
    <2> QED
      BY <2>1, FileStays DEF Booting
  <1> QED
    BY <1>1, <1>2, <1>3, <1>4 DEF LoaderStep

\* What does not touch the memory's variables keeps what is said of them.
LEMMA MemStays ==
    ASSUME MemInv, UNCHANGED paging, UNCHANGED pc \/ (pc = "e820" <=> pc' = "e820"),
           pc' \in {"walk", "paging", "init", "kernel", "runaway"} => UNCHANGED pc
    PROVE  MemInv'
  BY DEF MemInv, paging, Counted, RunawayExplained, Held, Tables, End

LEMMA MemNext ==
    ASSUME FileInv, MemInv, LoaderStep
    PROVE  MemInv'
  <1>t. /\ Len(bios.ranges) \in Nat /\ Len(_MemChkBuf) \in Nat
        /\ \A i \in 1 .. Len(bios.ranges) : bios.ranges[i] \in Ranges
        /\ \A i \in 1 .. Len(_MemChkBuf) : _MemChkBuf[i] \in Ranges
    BY DEF MemInv
  <1>1. CASE Load /\ UNCHANGED <<paging, kernel>>
    <2>1. pc \in Booting /\ UNCHANGED paging
      BY <1>1 DEF Load, NextSector, NextEntry, EndOfSector, LoadSector, Booting
    <2>2. BInv'
      BY <1>1, <2>1, NextBInv DEF FileInv, Next
    <2>3. pc' \in Booting
      BY <2>2 DEF BInv, Booting
    <2> QED
      BY <2>1, <2>3, MemStays DEF Booting
  <1>2. CASE MemChkLoop
    <2> DEFINE n == dwMCRNumber
    <2>1. /\ pc = "e820" /\ n < Len(bios.ranges) /\ n = Len(_MemChkBuf)
          /\ _MemChkBuf' = Append(_MemChkBuf, bios.ranges[n + 1])
          /\ dwMCRNumber' = n + 1
          /\ UNCHANGED <<bios, ecx, dwMemSize>>
          /\ pc' = IF n + 1 = Len(bios.ranges) /\ ~bios.fails THEN "sector" ELSE "e820"
      BY <1>2 DEF MemChkLoop, MemInv
    <2>2. n + 1 \in 1 .. Len(bios.ranges)
      BY <1>t, <2>1
    <2>3. /\ _MemChkBuf' \in Seq(Ranges) /\ Len(_MemChkBuf') = n + 1
          /\ \A i \in 1 .. n + 1 : _MemChkBuf'[i] = bios.ranges[i]
      BY <1>t, <2>1, <2>2 DEF MemInv
    <2> HIDE DEF n
    <2> QED
      BY <1>t, <2>1, <2>2, <2>3 DEF MemInv, RunawayExplained, Held
  <1>3. CASE MemChkFail
    <2>1. /\ pc = "e820" /\ pc' = "sector" /\ dwMCRNumber = Len(bios.ranges)
          /\ dwMCRNumber' = 0 /\ UNCHANGED <<bios, _MemChkBuf, ecx, dwMemSize>>
      BY <1>3 DEF MemChkFail
    <2> QED
      BY <2>1 DEF MemInv, RunawayExplained, Held
  <1>4. CASE LABEL_PM_START
    <2>1. /\ pc = "loaded" /\ pc' = "walk" /\ ecx' = dwMCRNumber
          /\ UNCHANGED <<bios, dwMCRNumber, _MemChkBuf, dwMemSize>>
      BY <1>4 DEF LABEL_PM_START
    <2>2. Counted(dwMCRNumber - ecx)'
      BY <2>1 DEF Counted, MemInv
    <2> QED
      BY <2>1, <2>2 DEF MemInv, RunawayExplained, Held
  <1>5. CASE DispMemInfo
    <2> DEFINE n == dwMCRNumber - ecx + 1
    <2>1. /\ pc = "walk" /\ ecx > 0 /\ ecx' = ecx - 1
          /\ pc' = IF ecx = 1 THEN "paging" ELSE "walk"
          /\ UNCHANGED <<bios, dwMCRNumber, _MemChkBuf>>
      BY <1>5 DEF DispMemInfo
    <2>2. PICK r \in Slot(n) : dwMemSize' = SizeAfter(r)
      BY <1>5 DEF DispMemInfo
    <2>3. /\ ecx \in Nat /\ ecx <= dwMCRNumber /\ dwMCRNumber = Len(bios.ranges)
          /\ Len(_MemChkBuf) = Len(bios.ranges) /\ Counted(n - 1)
          /\ dwMCRNumber \in Nat /\ dwMemSize \in Nat
      BY <2>1 DEF MemInv
    <2>4. n \in 1 .. Len(_MemChkBuf)
      BY <2>1, <2>3
    <2> HIDE DEF n
    <2>5. r \in Ranges /\ (n <= Room => r = bios.ranges[n])
      BY <1>t, <2>2, <2>4 DEF Slot, MemInv
    <2>6. /\ dwMemSize' \in Nat /\ dwMemSize' >= dwMemSize
          /\ r.type = 1 => dwMemSize' >= End(r)
      BY <2>2, <2>3, <2>5, EndNat DEF SizeAfter
    <2>7. ASSUME NEW i \in 1 .. n, i <= Room, bios.ranges[i].type = 1
          PROVE  End(bios.ranges[i]) <= dwMemSize'
      <3>1. i \in 1 .. Len(bios.ranges)
        BY <1>t, <2>3, <2>4
      <3>2. CASE i = n
        BY <2>5, <2>6, <2>7, <3>1, <3>2
      <3>3. CASE i # n
        <4>1. i \in 1 .. n - 1
          BY <2>4, <3>3
        <4>2. End(bios.ranges[i]) <= dwMemSize
          BY <2>3, <2>7, <4>1 DEF Counted
        <4>3. End(bios.ranges[i]) \in Nat
          BY <1>t, <3>1, EndNat
        <4> QED
          BY <2>3, <2>6, <4>2, <4>3
      <3> QED
        BY <3>2, <3>3
    <2>8. dwMCRNumber' - ecx' = n
      BY <2>1, <2>3 DEF n
    <2>9. Counted(dwMCRNumber - ecx)'
      BY <2>1, <2>7, <2>8 DEF Counted, End
    <2>10. ecx = 1 => Counted(dwMCRNumber)'
      <3>1. ecx = 1 => dwMCRNumber' = n
        BY <2>1, <2>3 DEF n
      <3> QED
        BY <2>1, <2>7, <3>1 DEF Counted, End
    <2> QED
      BY <2>1, <2>3, <2>6, <2>9, <2>10 DEF MemInv, RunawayExplained, Held
  <1>6. CASE DispMemInfoNone
    <2>1. pc = "walk" /\ ecx = 0 /\ pc' = "runaway" /\ UNCHANGED paging
      BY <1>6 DEF DispMemInfoNone
    <2>2. bios.fails
      <3>1. dwMCRNumber = 0 /\ (bios.fails \/ Len(bios.ranges) = 0)
        BY <2>1 DEF MemInv
      <3> QED
        BY <1>t, <3>1 DEF MemInv
    <2> QED
      BY <2>1, <2>2 DEF MemInv, RunawayExplained, Held, paging
  <1>7. CASE SetupPaging
    <2>1. /\ pc = "paging" /\ tables' = Tables
          /\ pc' = IF Tables = 0 THEN "runaway" ELSE "init"
          /\ UNCHANGED <<bios, dwMCRNumber, _MemChkBuf, ecx, dwMemSize>>
      BY <1>7 DEF SetupPaging
    <2>2. dwMemSize \in Nat /\ Counted(dwMCRNumber) /\ dwMCRNumber = Len(bios.ranges)
      BY <2>1 DEF MemInv
    <2>3. ASSUME Tables = 0 PROVE RunawayExplained'
      <3> DEFINE all == PageSize * PtesPerTable
      <3>0. all \in Nat \ {0}
        BY Assumed
      <3>2. Tables = dwMemSize \div all + (IF dwMemSize % all = 0 THEN 0 ELSE 1)
        BY DEF Tables
      <3> HIDE DEF all
      <3>1. dwMemSize \div all \in Nat /\ dwMemSize % all \in Nat
            /\ dwMemSize = all * (dwMemSize \div all) + (dwMemSize % all)
        <4>1. dwMemSize \in Nat
          BY <2>2
        <4> QED
          BY <4>1, <3>0, DivMod
      <3>3. dwMemSize \div all = 0 /\ dwMemSize % all = 0
        BY <2>3, <3>0, <3>1, <3>2
      <3>4. dwMemSize = 0
        BY <3>0, <3>1, <3>3
      <3> SUFFICES ASSUME NEW i \in DOMAIN bios.ranges, i <= Room,
                          bios.ranges[i].type = 1
                   PROVE  (bios.ranges[i].base + bios.ranges[i].length) % Word = 0
        BY <2>1 DEF RunawayExplained, Held
      <3>5. i \in 1 .. Len(bios.ranges)
        BY DEF MemInv
      <3>6. End(bios.ranges[i]) <= 0
        BY <2>2, <3>4, <3>5 DEF Counted
      <3>7. bios.ranges[i] \in Ranges
        BY <1>t, <3>5
      <3>8. End(bios.ranges[i]) \in Nat
            /\ End(bios.ranges[i]) = (bios.ranges[i].base + bios.ranges[i].length) % Word
        BY <3>7, EndNat, EndIs
      <3> QED
        BY <3>6, <3>8
    <2>4. Counted(dwMCRNumber)' /\ Tables' = Tables
      BY <2>1, <2>2 DEF Counted, Tables, End
    <2> QED
      BY <2>1, <2>3, <2>4 DEF MemInv, RunawayExplained, Held
  <1>8. CASE InitKernel
    <2>1. pc = "init" /\ pc' \in {"init", "kernel"} /\ UNCHANGED paging
      BY <1>8 DEF InitKernel
    <2> QED
      BY <2>1 DEF MemInv, paging, Counted, RunawayExplained, Held, Tables, End
  <1> QED
    BY <1>1, <1>2, <1>3, <1>4, <1>5, <1>6, <1>7, <1>8 DEF LoaderStep

\* The program headers stay as they are.
LEMMA ElfStays ==
    ASSUME KernelInv, UNCHANGED <<elf, chain>>
    PROVE  (elf \in Kernels /\ Linked)'
  BY DEF KernelInv, Linked, FileSize, Bytes

LEMMA ElfFacts ==
    ASSUME KernelInv, NEW i \in 1 .. Len(elf)
    PROVE  /\ elf[i].offset \in Nat /\ elf[i].vaddr \in Nat /\ elf[i].filesz \in Nat
           /\ elf[i].offset + elf[i].filesz <= FileSize
           /\ Len(elf) \in Nat \ {0}
           /\ \A j \in 1 .. Len(elf) : i # j => Bytes(elf[i]) \cap Bytes(elf[j]) = {}
  <1>1. elf \in Seq([type : Nat, offset : Nat, vaddr : Nat, filesz : Nat]) /\ elf # <<>>
    BY Assumed DEF KernelInv
  <1> DEFINE H == [type : Nat, offset : Nat, vaddr : Nat, filesz : Nat]
  <1>a. elf \in Seq(H) /\ elf # <<>>
    BY <1>1
  <1> HIDE DEF H
  <1>b. elf[i] \in H /\ DOMAIN elf = 1 .. Len(elf) /\ Len(elf) \in Nat \ {0}
    BY <1>a
  <1>2. /\ elf[i].offset \in Nat /\ elf[i].vaddr \in Nat /\ elf[i].filesz \in Nat
        /\ DOMAIN elf = 1 .. Len(elf) /\ Len(elf) \in Nat \ {0}
    BY <1>b DEF H
  <1> QED
    BY <1>2 DEF KernelInv, Linked

LEMMA KernelNext ==
    ASSUME FileInv, KernelInv, LoaderStep
    PROVE  KernelInv'
  <1>l. Len(elf) \in Nat \ {0}
    <2>1. elf \in Seq([type : Nat, offset : Nat, vaddr : Nat, filesz : Nat]) /\ elf # <<>>
      BY Assumed DEF KernelInv
    <2> QED
      BY <2>1
  <1>1. CASE Load /\ UNCHANGED <<paging, kernel>>
    <2>1. pc \in Booting /\ UNCHANGED <<elf, esi, segments, chain>>
      BY <1>1 DEF Load, NextSector, NextEntry, EndOfSector, LoadSector, Booting, kernel, disk
    <2>2. BInv'
      BY <1>1, <2>1, NextBInv DEF FileInv, Next
    <2>3. pc' \in Booting
      BY <2>2 DEF BInv, Booting
    <2>4. (elf \in Kernels /\ Linked)'
      BY <2>1, ElfStays
    <2> QED
      BY <2>1, <2>3, <2>4 DEF KernelInv, Booting
  <1>2. CASE MemChkLoop \/ MemChkFail \/ LABEL_PM_START \/ DispMemInfo \/ DispMemInfoNone
    <2>1. /\ pc \notin {"init", "kernel"} /\ pc' \notin {"init", "kernel"}
          /\ UNCHANGED <<elf, esi, segments, chain>>
      BY <1>2 DEF MemChkLoop, MemChkFail, LABEL_PM_START, DispMemInfo, DispMemInfoNone,
                  kernel, disk
    <2>2. (elf \in Kernels /\ Linked)'
      BY <2>1, ElfStays
    <2> QED
      BY <2>1, <2>2 DEF KernelInv
  <1>3. CASE SetupPaging
    <2>1. /\ pc = "paging" /\ pc' \in {"init", "runaway"}
          /\ UNCHANGED <<elf, esi, segments, chain>>
      BY <1>3 DEF SetupPaging, kernel, disk
    <2>2. (elf \in Kernels /\ Linked)'
      BY <2>1, ElfStays
    <2>3. esi = 1
      BY <2>1 DEF KernelInv
    <2> QED
      BY <1>l, <2>1, <2>2, <2>3 DEF KernelInv
  <1>4. CASE InitKernel
    <2> DEFINE h == elf[esi]  n == esi
    <2>1. /\ pc = "init" /\ esi' = esi + 1
          /\ pc' = IF esi = Len(elf) THEN "kernel" ELSE "init"
          /\ UNCHANGED <<elf, chain, memory>>
      BY <1>4 DEF InitKernel, disk, load
    <2>2. segments' = IF h.type = 0 THEN segments
                      ELSE [a \in DOMAIN segments \cup Bytes(h) |->
                               IF a \in Bytes(h) THEN FileByte(h.offset + a - h.vaddr)
                               ELSE segments[a]]
      BY <1>4 DEF InitKernel, Source
    <2>3. n \in 1 .. Len(elf) /\ \A i \in 1 .. n - 1 : InSegments(i)
      BY <2>1 DEF KernelInv
    <2>4. ASSUME NEW i \in 1 .. n PROVE InSegments(i)'
      <3> SUFFICES ASSUME elf[i].type # 0, NEW a \in Bytes(elf[i])
                   PROVE  /\ a \in DOMAIN segments'
                          /\ segments'[a] = FileByte(elf[i].offset + a - elf[i].vaddr)
        BY <2>1 DEF InSegments, FileByte, Bytes
      <3>1. CASE i = n
        BY <2>2, <3>1
      <3>2. CASE i # n
        <4>1. i \in 1 .. n - 1 /\ i \in 1 .. Len(elf)
          BY <1>l, <2>3, <3>2
        <4>2. a \in DOMAIN segments /\ segments[a] = FileByte(elf[i].offset + a - elf[i].vaddr)
          BY <2>3, <4>1 DEF InSegments
        <4>3. a \notin Bytes(h)
          <5>1. Bytes(elf[i]) \cap Bytes(elf[n]) = {}
            BY <2>3, <3>2, <4>1, ElfFacts
          <5> QED
            BY <5>1
        <4> HIDE DEF h
        <4> QED
          BY <2>2, <4>2, <4>3
      <3> QED
        BY <3>1, <3>2
    <2>5. (elf \in Kernels /\ Linked)'
      BY <2>1, ElfStays
    <2>6. n' = n + 1 /\ n \in Nat
      BY <2>1, <2>3
    <2> HIDE DEF n
    <2>7. CASE n = Len(elf)
      <3>1. pc' = "kernel" /\ \A i \in 1 .. Len(elf') : InSegments(i)'
        BY <2>1, <2>4, <2>7 DEF n
      <3> QED
        BY <2>5, <2>6, <3>1 DEF KernelInv, n
    <2>8. CASE n # Len(elf)
      <3>1. pc' = "init" /\ esi' = n + 1 /\ esi' \in 1 .. Len(elf') /\ esi' - 1 = n
        BY <1>l, <2>1, <2>3, <2>8 DEF n
      <3> QED
        BY <2>4, <2>5, <3>1 DEF KernelInv
    <2> QED
      BY <2>7, <2>8
  <1> QED
    BY <1>1, <1>2, <1>3, <1>4 DEF LoaderStep

-----------------------------------------------------------------------------
(* Steps of the kernel                                                     *)

\* A process has no right to call a gate for which the processor pushes a code,
\* so what the stub pushes is what belongs there.
LEMMA PrivilegeFacts ==
    ASSUME NEW v \in Exceptions \cup Irqs, NEW cs \in {5, 7}, cs % 4 <= Privilege(v)
    PROVE  v \notin HasCode
  <1>1. cs % 4 >= 1
    OBVIOUS
  <1>2. v \in HasCode => Privilege(v) = 0
    BY DEF HasCode, Privilege, SYS_CALL
  <1> QED
    BY <1>1, <1>2

LEMMA Appended == ASSUME NEW S, NEW q \in Seq(S), NEW t \in Seq(S), NEW i \in 1 .. Len(q)
                  PROVE  (q \o t)[i] = q[i]
  BY SMT

LEMMA OnStack ==
    ASSUME NEW S, NEW v \in S, NEW c \in S, NEW x \in S, NEW y \in S, NEW z \in S,
           NEW outer \in Seq(S),
           NEW s, s \in {<<v>> \o <<c>> \o <<x, y, z>> \o outer,
                         <<v, c>> \o <<>> \o <<x, y, z>> \o outer}
    PROVE  s[1] = v /\ s[2] = c /\ s[3] = x /\ s[4] = y /\ s[5] = z
  <1> DEFINE five == <<v, c>> \o <<x, y, z>>
  <1>1. /\ <<v>> \o <<c>> \in Seq(S) /\ Len(<<v>> \o <<c>>) = 2
        /\ (<<v>> \o <<c>>)[1] = v /\ (<<v>> \o <<c>>)[2] = c
    BY SMT
  <1>2. /\ <<v, c>> \o <<>> \in Seq(S) /\ Len(<<v, c>> \o <<>>) = 2
        /\ (<<v, c>> \o <<>>)[1] = v /\ (<<v, c>> \o <<>>)[2] = c
    BY SMT
  <1>3. ASSUME NEW p \in Seq(S), Len(p) = 2, p[1] = v, p[2] = c,
               s = p \o <<x, y, z>> \o outer
        PROVE  s[1] = v /\ s[2] = c /\ s[3] = x /\ s[4] = y /\ s[5] = z
    <2> DEFINE q == p \o <<x, y, z>>
    <2>1. q \in Seq(S) /\ Len(q) = 5
          /\ q[1] = v /\ q[2] = c /\ q[3] = x /\ q[4] = y /\ q[5] = z
      BY <1>3, SMT
    <2> HIDE DEF q
    <2>2. \A i \in 1 .. 5 : (q \o outer)[i] = q[i]
      <3>1. \A i \in 1 .. Len(q) : (q \o outer)[i] = q[i]
        BY <2>1, Appended
      <3> QED
        BY <2>1, <3>1
    <2> QED
      BY <1>3, <2>1, <2>2 DEF q
  <1> QED
    BY <1>1, <1>2, <1>3

LEMMA HandledTrue ==
    ASSUME NEW v, NEW c, NEW who \in {InProc(proc_table[i]) : i \in DOMAIN proc_table}
                                        \cup {InKernel},
           \/ v \in HasCode /\ Handle(v, <<c>>, who, Blame(v, c, who))
           \/ v \notin HasCode /\ c = -1 /\ Handle(v, <<>>, who, Blame(v, -1, who))
    PROVE  at' = "halted" /\ displayed' = raised' /\ UNCHANGED <<idt, proc_table>>
  <1> DEFINE code == IF v \in HasCode THEN <<c>> ELSE <<>>
             s == Pushed(v) \o code \o <<who.eip, who.cs, who.eflags>> \o who.outer
  <1>1. /\ at' = "halted" /\ UNCHANGED <<idt, proc_table>>
        /\ raised' = [vec_no |-> v, err_code |-> c, eip |-> who.eip, cs |-> who.cs,
                      eflags |-> who.eflags]
        /\ displayed' = [vec_no |-> s[1], err_code |-> s[2], eip |-> s[3], cs |-> s[4],
                         eflags |-> s[5]]
    BY DEF Handle, Blame
  <1>2. PICK S : /\ {v, c, who.eip, who.cs, who.eflags} \subseteq S
                 /\ who.outer \in Seq(S)
    <2>1. CASE who = InKernel
      <3> DEFINE T == {v, c, who.eip, who.cs, who.eflags}
      <3>1. who.outer = <<>>
        BY <2>1 DEF InKernel
      <3>2. <<>> \in Seq(T)
        BY SMT
      <3> QED
        BY <3>1, <3>2
    <2>2. CASE \E i \in DOMAIN proc_table : who = InProc(proc_table[i])
      <3>1. PICK x, y : who.outer = <<x, y>>
        BY <2>2 DEF InProc
      <3> DEFINE T == {v, c, who.eip, who.cs, who.eflags, x, y}
      <3>2. <<x, y>> \in Seq(T)
        BY SMT
      <3> QED
        BY <3>1, <3>2
    <2> QED
      BY <2>1, <2>2
  <1>3. s \in {<<v>> \o <<c>> \o <<who.eip, who.cs, who.eflags>> \o who.outer,
               <<v, c>> \o <<>> \o <<who.eip, who.cs, who.eflags>> \o who.outer}
    BY DEF Pushed
  <1> HIDE DEF s
  <1>4. /\ s[1] = v /\ s[2] = c /\ s[3] = who.eip /\ s[4] = who.cs /\ s[5] = who.eflags
    <2> DEFINE x == who.eip  y == who.cs  z == who.eflags  outer == who.outer
    <2>1. v \in S /\ c \in S /\ x \in S /\ y \in S /\ z \in S /\ outer \in Seq(S)
      BY <1>2
    <2>2. s \in {<<v>> \o <<c>> \o <<x, y, z>> \o outer, <<v, c>> \o <<>> \o <<x, y, z>> \o outer}
      BY <1>3
    <2> HIDE DEF x, y, z, outer
    <2>3. s[1] = v /\ s[2] = c /\ s[3] = x /\ s[4] = y /\ s[5] = z
      BY <2>1, <2>2, OnStack
    <2> QED
      BY <2>3 DEF x, y, z
  <1> QED
    BY <1>1, <1>4

LEMMA Grown ==
    ASSUME NEW s, IsSeq(s), NEW p
    PROVE  /\ DOMAIN s = 1 .. Len(s) /\ Len(s) \in Nat
           /\ Len(Append(s, p)) = Len(s) + 1 /\ DOMAIN Append(s, p) = 1 .. Len(s) + 1
           /\ Append(s, p)[Len(s) + 1] = p
           /\ \A i \in 1 .. Len(s) : Append(s, p)[i] = s[i]
           /\ IsSeq(Append(s, p))
  <1> DEFINE T == {s[i] : i \in DOMAIN s}  t == Append(s, p)
  <1>1. s \in Seq(T)
    BY DEF IsSeq
  <1>2. T \subseteq T \cup {p} /\ p \in T \cup {p}
    OBVIOUS
  <1> HIDE DEF T
  <1>3. s \in Seq(T \cup {p})
    BY <1>1, <1>2, SMT
  <1>4. /\ DOMAIN s = 1 .. Len(s) /\ Len(s) \in Nat
        /\ Len(t) = Len(s) + 1 /\ DOMAIN t = 1 .. Len(s) + 1
        /\ t[Len(s) + 1] = p /\ t \in Seq(T \cup {p})
        /\ \A i \in 1 .. Len(s) : t[i] = s[i]
    BY <1>1, <1>2, <1>3, SMT
  <1>5. IsSeq(t)
    <2> DEFINE U == {t[i] : i \in DOMAIN t}
    <2>1. \A i \in DOMAIN t : t[i] \in U
      OBVIOUS
    <2> HIDE DEF U, t
    <2>2. t \in Seq(U)
      BY <1>4, <2>1, SMT
    <2> QED
      BY <2>2 DEF IsSeq, U
  <1> QED
    BY <1>4, <1>5

LEMMA TablesNext ==
    ASSUME TablesInv, KernelStep
    PROVE  TablesInv'
  <1>1. CASE cstart \/ InitGates \/ InitSegments \/ csinit \/ Restart
    BY <1>1 DEF cstart, InitGates, InitSegments, csinit, Restart, TablesInv, ReportIsTrue,
                IsSeq, Privilege
  <1>2. CASE MakeProcess
    <2>1. PICK p : /\ proc_table' = Append(proc_table, p) /\ p.cs \in {5, 7}
                   /\ at = "main" /\ UNCHANGED <<at, idt>>
      BY <1>2 DEF MakeProcess
    <2>3. /\ DOMAIN proc_table = 1 .. Len(proc_table) /\ Len(proc_table) \in Nat
          /\ Len(proc_table') = Len(proc_table) + 1
          /\ proc_table'[Len(proc_table) + 1] = p
          /\ \A i \in 1 .. Len(proc_table) : proc_table'[i] = proc_table[i]
          /\ IsSeq(proc_table')
      BY <2>1, Grown DEF TablesInv
    <2>5. \A i \in 1 .. Len(proc_table') : proc_table'[i].cs \in {5, 7}
      <3>1. ASSUME NEW i \in 1 .. Len(proc_table) + 1 PROVE proc_table'[i].cs \in {5, 7}
        <4>1. CASE i \in 1 .. Len(proc_table)
          BY <2>3, <4>1 DEF TablesInv
        <4>2. CASE i = Len(proc_table) + 1
          BY <2>1, <2>3, <4>2
        <4> QED
          BY <2>3, <4>1, <4>2
      <3> QED
        BY <2>3, <3>1
    <2> QED
      BY <2>1, <2>3, <2>5 DEF TablesInv, ReportIsTrue, IsSeq, Privilege
  <1>h. ASSUME at # "cstart", at # "idt", at' = "halted", displayed' = raised',
               UNCHANGED <<idt, proc_table>>
        PROVE  TablesInv'
    BY <1>h DEF TablesInv, ReportIsTrue, IsSeq, Privilege
  <1>r. Running \subseteq {InProc(proc_table[i]) : i \in DOMAIN proc_table}
        /\ (Running # {} => at = "running")
    BY DEF Running
  <1>3. ASSUME NEW v \in Exceptions, Raise(v) PROVE TablesInv'
    <2>0. PICK who \in Running \cup {InKernel} :
             \/ v \in HasCode /\ \E c \in Codes : Handle(v, <<c>>, who, Blame(v, c, who))
             \/ v \notin HasCode /\ Handle(v, <<>>, who, Blame(v, -1, who))
      BY <1>3 DEF Raise
    <2>1. PICK c :
             \/ v \in HasCode /\ Handle(v, <<c>>, who, Blame(v, c, who))
             \/ v \notin HasCode /\ c = -1 /\ Handle(v, <<>>, who, Blame(v, -1, who))
      BY <2>0
    <2>2. at' = "halted" /\ displayed' = raised' /\ UNCHANGED <<idt, proc_table>>
      BY <1>r, <2>1, HandledTrue
    <2>3. at # "cstart" /\ at # "idt"
      BY <1>3 DEF Raise
    <2> QED
      BY <1>h, <2>2, <2>3
  <1>4. ASSUME NEW v \in Exceptions \cup Irqs, SoftwareInt(v) PROVE TablesInv'
    <2>1. PICK who \in Running :
             IF who.cs % 4 <= idt[v]
             THEN Handle(v, <<>>, who, Blame(v, -1, who))
             ELSE Handle(13, <<8 * v + 2>>, who, Blame(13, 8 * v + 2, who))
      BY <1>4 DEF SoftwareInt
    <2>2. at = "running" /\ idt[v] = Privilege(v)
      BY <1>r DEF TablesInv
    <2>3. PICK i \in DOMAIN proc_table : who = InProc(proc_table[i])
      BY <1>r
    <2>4. who.cs \in {5, 7}
      <3>1. DOMAIN proc_table = 1 .. Len(proc_table)
        BY DEF TablesInv, IsSeq
      <3> QED
        BY <2>3, <3>1 DEF InProc, TablesInv
    <2>5. at' = "halted" /\ displayed' = raised' /\ UNCHANGED <<idt, proc_table>>
      <3>1. CASE who.cs % 4 <= idt[v]
        BY <1>r, <2>1, <2>2, <2>4, <3>1, PrivilegeFacts, HandledTrue
      <3>2. CASE ~(who.cs % 4 <= idt[v])
        BY <1>r, <2>1, <3>2, HandledTrue DEF HasCode
      <3> QED
        BY <3>1, <3>2
    <2> QED
      BY <1>h, <2>2, <2>5
  <1> QED
    BY <1>1, <1>2, <1>3, <1>4 DEF KernelStep

-----------------------------------------------------------------------------
(* The stacks                                                              *)

\* The least-number principle, which stands for induction: a set of
\* counterexamples has a least one.
LEMMA LeastNat == ASSUME NEW T, T \subseteq Nat, T # {}
                  PROVE  \E x \in T : \A y \in T : x <= y
  <1> DEFINE R == OpToRel(<, Nat)
  <1>1. IsWellFoundedOn(R, Nat)
    BY NatLessThanWellFounded
  <1>2. \A x, y \in Nat : <<x, y>> \in R <=> x < y
    BY DEF OpToRel
  <1> HIDE DEF R
  <1>3. PICK x \in T : \A y \in T : ~(<<y, x>> \in R)
    BY <1>1, WFMin
  <1>4. \A y \in T : ~(y < x)
    BY <1>2, <1>3
  <1>5. \A y \in T : x <= y
    BY <1>4
  <1> QED
    BY <1>5

LEMMA Sized == /\ NR_ALL_TASKS_PROC \in Nat /\ STACK_SIZE_TOTAL \in Nat
               /\ \A i \in 1 .. NR_ALL_TASKS_PROC : stacksize[i] \in Nat
               /\ GDT_SIZE \in Nat /\ 5 + NR_ALL_TASKS_PROC <= GDT_SIZE
               /\ TssAddress \in Nat /\ ProcTable \in Nat /\ TaskStack \in Nat
               /\ NR_SYS_TASKS_PROC \in 0 .. NR_ALL_TASKS_PROC
               /\ TssAddress \div \h1000000 < 256
               /\ (ProcTable + SizeofProcess * NR_ALL_TASKS_PROC) \div \h1000000 < 256
  BY KernelAssumption DEF NR_ALL_TASKS_PROC

\* g has the sums of the first 0, 1, ..., n stacks.
SumsTo(n, g) == /\ g \in [0 .. n -> Nat] /\ g[0] = 0
                /\ \A i \in 1 .. n : g[i] = stacksize[i] + g[i - 1]

LEMMA PartialSums == \A n \in 0 .. NR_ALL_TASKS_PROC : \E g : SumsTo(n, g)
  <1> DEFINE T == {n \in 0 .. NR_ALL_TASKS_PROC : ~\E g : SumsTo(n, g)}
  <1> SUFFICES ASSUME T # {} PROVE FALSE
    OBVIOUS
  <1>1. PICK n \in T : \A y \in T : n <= y
    <2>1. T \subseteq Nat
      OBVIOUS
    <2> HIDE DEF T
    <2> QED
      BY <2>1, LeastNat
  <1>n. NR_ALL_TASKS_PROC \in Nat /\ n \in 0 .. NR_ALL_TASKS_PROC
    BY Sized
  <1>2. SumsTo(0, [i \in 0 .. 0 |-> 0])
    BY DEF SumsTo
  <1>3. n # 0
    BY <1>2
  <1>4. n - 1 \in 0 .. NR_ALL_TASKS_PROC /\ n - 1 \notin T
    BY <1>n, <1>1, <1>3
  <1>5. PICK g : SumsTo(n - 1, g)
    BY <1>4
  <1> DEFINE h == [i \in 0 .. n |-> IF i = n THEN stacksize[n] + g[n - 1] ELSE g[i]]
  <1>6. /\ n \in Nat \ {0} /\ stacksize[n] \in Nat /\ g[n - 1] \in Nat
        /\ g \in [0 .. n - 1 -> Nat]
    BY <1>n, <1>3, <1>5, Sized DEF SumsTo
  <1>7. h \in [0 .. n -> Nat]
    BY <1>6
  <1>8. h[0] = 0
    BY <1>5, <1>6 DEF SumsTo
  <1>9. ASSUME NEW i \in 1 .. n PROVE h[i] = stacksize[i] + h[i - 1]
    <2>1. CASE i = n
      BY <1>6, <2>1
    <2>2. CASE i # n
      BY <1>5, <1>6, <2>2 DEF SumsTo
    <2> QED
      BY <2>1, <2>2
  <1>10. SumsTo(n, h)
    BY <1>7, <1>8, <1>9 DEF SumsTo
  <1> QED
    BY <1>10

\* SumUpTo is what its recursion says.
LEMMA SumsAre == SumsTo(NR_ALL_TASKS_PROC, SumUpTo)
  <1> DEFINE N == NR_ALL_TASKS_PROC
             P(f) == f = [n \in 0 .. N |-> IF n = 0 THEN 0 ELSE stacksize[n] + f[n - 1]]
  <1>1. PICK g : SumsTo(N, g)
    BY PartialSums, Sized
  <1>2. P(g)
    BY <1>1, Sized DEF SumsTo
  <1>3. SumUpTo = CHOOSE f : P(f)
    BY DEF SumUpTo
  <1> HIDE DEF P
  <1>4. P(SumUpTo)
    BY <1>2, <1>3
  <1>5. /\ DOMAIN SumUpTo = 0 .. N /\ SumUpTo[0] = 0
        /\ \A i \in 1 .. N : SumUpTo[i] = stacksize[i] + SumUpTo[i - 1]
        /\ SumUpTo = [i \in 0 .. N |-> SumUpTo[i]]
    <2>1. SumUpTo = [n \in 0 .. N |-> IF n = 0 THEN 0 ELSE stacksize[n] + SumUpTo[n - 1]]
      BY <1>4 DEF P
    <2>2. DOMAIN SumUpTo = 0 .. N
      BY <2>1
    <2>3. \A n \in 0 .. N : SumUpTo[n] = IF n = 0 THEN 0 ELSE stacksize[n] + SumUpTo[n - 1]
      BY <2>1
    <2>4. 0 \in 0 .. N /\ \A i \in 1 .. N : i \in 0 .. N /\ i # 0
      BY Sized
    <2>5. SumUpTo = [i \in 0 .. N |-> SumUpTo[i]]
      BY <2>1, Zenon
    <2> QED
      BY <2>2, <2>3, <2>4, <2>5
  <1>6. \A i \in 0 .. N : SumUpTo[i] \in Nat
    <2> DEFINE T == {i \in 0 .. N : SumUpTo[i] \notin Nat}
    <2> SUFFICES ASSUME T # {} PROVE FALSE
      OBVIOUS
    <2>1. PICK n \in T : \A y \in T : n <= y
      <3>1. T \subseteq Nat
        OBVIOUS
      <3> HIDE DEF T
      <3> QED
        BY <3>1, LeastNat
    <2>2. n \in 1 .. N /\ n - 1 \in 0 .. N /\ n - 1 \notin T
      BY <1>5, <2>1, Sized
    <2>3. SumUpTo[n - 1] \in Nat /\ stacksize[n] \in Nat
      BY <2>2, Sized
    <2>4. SumUpTo[n] = stacksize[n] + SumUpTo[n - 1]
      BY <1>5, <2>2
    <2>5. SumUpTo[n] \in Nat
      BY <2>3, <2>4
    <2> QED
      BY <2>5
  <1> QED
    BY <1>5, <1>6 DEF SumsTo

\* Each stack ends above where the next one starts.
LEMMA SumsGrow ==
    ASSUME NEW i \in 1 .. NR_ALL_TASKS_PROC, NEW j \in i .. NR_ALL_TASKS_PROC
    PROVE  /\ SumUpTo[i] \in Nat /\ SumUpTo[j] \in Nat /\ SumUpTo[i - 1] \in Nat
           /\ SumUpTo[i] <= SumUpTo[j] /\ SumUpTo[i] = stacksize[i] + SumUpTo[i - 1]
           /\ stacksize[i] \in Nat
  <1> DEFINE N == NR_ALL_TASKS_PROC
  <1>1. /\ \A k \in 0 .. N : SumUpTo[k] \in Nat
        /\ \A k \in 1 .. N : SumUpTo[k] = stacksize[k] + SumUpTo[k - 1] /\ stacksize[k] \in Nat
        /\ N \in Nat
    BY SumsAre, Sized DEF SumsTo
  <1> DEFINE T == {k \in i .. N : ~(SumUpTo[i] <= SumUpTo[k])}
  <1> HIDE DEF N
  <1>2. T = {}
    <2> SUFFICES ASSUME T # {} PROVE FALSE
      OBVIOUS
    <2>1. PICK n \in T : \A y \in T : n <= y
      <3>1. T \subseteq Nat
        BY <1>1 DEF N
      <3> HIDE DEF T
      <3> QED
        BY <3>1, LeastNat
    <2>2. n \in i .. N /\ i \in 1 .. N /\ ~(SumUpTo[i] <= SumUpTo[n])
      BY DEF N
    <2>3. n # i /\ i \in 0 .. N
      BY <1>1, <2>2
    <2>4. n \in 1 .. N /\ n - 1 \in i .. N /\ n - 1 \in 0 .. N /\ ~(n <= n - 1)
      BY <1>1, <2>2, <2>3
    <2>5. SumUpTo[i] <= SumUpTo[n - 1]
      BY <2>1, <2>4
    <2>6. SumUpTo[n] = stacksize[n] + SumUpTo[n - 1] /\ stacksize[n] \in Nat
          /\ SumUpTo[n - 1] \in Nat /\ SumUpTo[i] \in Nat
      BY <1>1, <2>3, <2>4
    <2> QED
      BY <2>2, <2>5, <2>6
  <1>3. i \in 0 .. N /\ i \in 1 .. N /\ i - 1 \in 0 .. N /\ j \in 0 .. N /\ j \in i .. N
    BY <1>1 DEF N
  <1> QED
    BY <1>1, <1>2, <1>3

-----------------------------------------------------------------------------
(* The descriptor tables                                                   *)

TssDescriptor == init_descriptor(TssAddress, SizeofTss - 1, DA_386TSS)
LdtDescriptor(i) == init_descriptor(ProcTable + SizeofProcess * i + LdtsOffset,
                                    SizeofLdts - 1, DA_LDT)
Rpl(i) == IF i < NR_SYS_TASKS_PROC THEN 1 ELSE 3

\* What kernel_main writes for process i.
Made(i) ==
    [ldt_sel |-> SelectorLdt(i),
     ldts |-> <<[LoaderGdt[2] EXCEPT !.attr1 = DA_C + 32 * Rpl(i)],
                [LoaderGdt[3] EXCEPT !.attr1 = DA_DRW + 32 * Rpl(i)]>>,
     cs |-> 4 + Rpl(i), ds |-> 8 + 4 + Rpl(i), ss |-> 8 + 4 + Rpl(i),
     gs |-> (KERNEL_GS \div 4) * 4 + Rpl(i),
     eflags |-> IF i < NR_SYS_TASKS_PROC THEN \h1202 ELSE \h202,
     esp |-> TaskStackTop(i)]

DescriptorInv ==
    /\ DOMAIN gdt = 0 .. GDT_SIZE - 1
    /\ at # "cstart" => \A i \in 0 .. 3 : gdt[i] = LoaderGdt[i + 1]
    /\ at \notin {"cstart", "idt", "gdt"} =>
          gdt[4] = TssDescriptor /\ \A i \in Procs : gdt[5 + i] = LdtDescriptor(i)
    /\ at \in {"main", "running"} => tr = TSS
    /\ Len(proc_table) \in Nat /\ IsSeq(proc_table)
    /\ \A i \in Procs : i < Len(proc_table) => proc_table[i + 1] = Made(i)
    /\ at = "running" => Len(proc_table) = NR_ALL_TASKS_PROC

LEMMA BaseIs == ASSUME NEW b \in Nat, NEW l, NEW a, b \div \h1000000 < 256
                PROVE  Base(init_descriptor(b, l, a)) = b
  <1>1. b = (b % 65536) + 65536 * ((b \div 65536) % 256) + 16777216 * (b \div 16777216)
    <2>1. b = 65536 * (b \div 65536) + (b % 65536) /\ b \div 65536 \in Nat
      BY DivMod
    <2>2. b \div 65536 = 256 * ((b \div 65536) \div 256) + ((b \div 65536) % 256)
      BY <2>1, DivMod
    <2>3. (b \div 65536) \div 256 = b \div 16777216
      BY SMT
    <2> QED
      BY <2>1, <2>2, <2>3
  <1>2. (b \div 16777216) % 256 = b \div 16777216
    <2>1. b \div 16777216 \in Nat /\ b \div 16777216 < 256
      BY DivMod
    <2>2. \A n \in Nat : n < 256 => n % 256 = n
      OBVIOUS
    <2> QED
      BY <2>1, <2>2
  <1> QED
    BY <1>1, <1>2 DEF Base, init_descriptor

LEMMA ByRpl == ASSUME NEW r \in {1, 3}
               PROVE  /\ ((DA_C + 32 * r) \div 32) % 4 = r /\ ((DA_DRW + 32 * r) \div 32) % 4 = r
                      /\ (4 + r) % 4 = r /\ (8 + 4 + r) % 4 = r
                      /\ (4 + r) \div 8 = 0 /\ (8 + 4 + r) \div 8 = 1
                      /\ ((4 + r) \div 4) % 2 = 1 /\ ((8 + 4 + r) \div 4) % 2 = 1
  BY DEF DA_C, DA_DRW

LEMMA InitDescriptorInv == KernelInit => DescriptorInv
  <1> SUFFICES ASSUME KernelInit PROVE DescriptorInv
    OBVIOUS
  <1>1. at = "cstart" /\ proc_table = <<>> /\ DOMAIN gdt = 0 .. GDT_SIZE - 1
    BY DEF KernelInit
  <1>2. IsSeq(<<>>) /\ Len(<<>>) = 0
    BY DEF IsSeq
  <1>3. \A i \in Procs : ~(i < 0)
    BY Sized DEF Procs
  <1> QED
    BY <1>1, <1>2, <1>3 DEF DescriptorInv

\* The expected tables are constants.
LEMMA Expected == /\ TssDescriptor' = TssDescriptor
                  /\ \A i \in Procs : LdtDescriptor(i)' = LdtDescriptor(i)
                  /\ \A i \in Procs : Made(i)' = Made(i)
  BY SMT DEF TssDescriptor, LdtDescriptor, Made, TaskStackTop

LEMMA NextDescriptorInv == DescriptorInv /\ (KernelStep \/ UNCHANGED kstart) => DescriptorInv'
  <1> SUFFICES ASSUME DescriptorInv, KernelStep \/ UNCHANGED kstart PROVE DescriptorInv'
    OBVIOUS
  <1>p. Procs = 0 .. NR_ALL_TASKS_PROC - 1
    BY DEF Procs
  <1>1. CASE cstart
    <2>1. /\ at = "cstart" /\ at' = "idt" /\ UNCHANGED <<proc_table, tr>>
          /\ gdt' = [i \in DOMAIN gdt |-> IF i < 4 THEN LoaderGdt[i + 1] ELSE gdt[i]]
      <3>1. Len(LoaderGdt) = 4
        BY DEF LoaderGdt
      <3> QED
        BY <1>1, <3>1 DEF cstart
    <2>2. \A i \in 0 .. 3 : i \in 0 .. GDT_SIZE - 1 /\ i < 4
      BY Sized
    <2>3. \A i \in 0 .. 3 : gdt'[i] = LoaderGdt[i + 1]
      BY <2>1, <2>2 DEF DescriptorInv
    <2> QED
      BY <2>1, <2>3, Expected DEF DescriptorInv, IsSeq
  <1>2. CASE InitGates
    BY <1>2, Expected DEF InitGates, DescriptorInv, IsSeq
  <1>3. CASE InitSegments
    <2>1. /\ at = "gdt" /\ at' = "tables" /\ UNCHANGED <<proc_table, tr>>
          /\ DOMAIN gdt = 0 .. GDT_SIZE - 1
          /\ \A i \in 0 .. 3 : gdt[i] = LoaderGdt[i + 1]
      BY <1>3 DEF InitSegments, DescriptorInv
    <2>2. seg2phys(KERNEL_DS) = 0
      <3>1. gdt[2] = LoaderGdt[3]
        BY <2>1
      <3>2. LoaderGdt[3].base_low = 0 /\ LoaderGdt[3].base_mid = 0 /\ LoaderGdt[3].base_high = 0
        BY DEF LoaderGdt, init_descriptor
      <3>3. KERNEL_DS \div 8 = 2
        BY DEF KERNEL_DS
      <3> QED
        BY <3>1, <3>2, <3>3 DEF seg2phys
    <2>3. TSS \div 8 = 4 /\ LDT_FIRST \div 8 = 5
      BY DEF TSS, LDT_FIRST
    <2>4. gdt' = [i \in 0 .. GDT_SIZE - 1 |->
                     CASE i = 4 -> init_descriptor(0 + TssAddress, SizeofTss - 1, DA_386TSS)
                       [] i - 5 \in Procs ->
                            init_descriptor(0 + ProcTable + SizeofProcess * (i - 5) + LdtsOffset,
                                            SizeofLdts - 1, DA_LDT)
                       [] OTHER -> gdt[i]]
      BY <1>3, <2>1, <2>2, <2>3 DEF InitSegments, LdtAddress
    <2>5. \A i \in 0 .. 3 : gdt'[i] = gdt[i]
      <3> TAKE i \in 0 .. 3
      <3>1. i \in 0 .. GDT_SIZE - 1 /\ i # 4 /\ i - 5 \notin Procs
        BY <1>p, Sized
      <3> QED
        BY <2>4, <3>1
    <2>6. gdt'[4] = TssDescriptor
      <3> DEFINE b == 0 + TssAddress
      <3>1. 4 \in 0 .. GDT_SIZE - 1 /\ b = TssAddress
        BY Sized
      <3> DEFINE f(i) == CASE i = 4 -> init_descriptor(b, SizeofTss - 1, DA_386TSS)
                         [] i - 5 \in Procs ->
                              init_descriptor(0 + ProcTable + SizeofProcess * (i - 5) + LdtsOffset,
                                              SizeofLdts - 1, DA_LDT)
                         [] OTHER -> gdt[i]
      <3>f. gdt' = [i \in 0 .. GDT_SIZE - 1 |-> f(i)]
        BY <2>4
      <3>4. f(4) = init_descriptor(b, SizeofTss - 1, DA_386TSS)
        <4>1. 4 - 5 \notin Procs
          BY <1>p
        <4> QED
          BY <4>1, Zenon
      <3> HIDE DEF f
      <3>2. gdt'[4] = init_descriptor(b, SizeofTss - 1, DA_386TSS)
        BY <3>f, <3>1, <3>4
      <3> HIDE DEF b
      <3> QED
        BY <3>1, <3>2 DEF TssDescriptor
    <2>7. \A i \in Procs : gdt'[5 + i] = LdtDescriptor(i)
      <3> TAKE i \in Procs
      <3>1. 5 + i \in 0 .. GDT_SIZE - 1 /\ 5 + i # 4 /\ (5 + i) - 5 = i
            /\ 0 + ProcTable + SizeofProcess * i + LdtsOffset
                  = ProcTable + SizeofProcess * i + LdtsOffset
        BY <1>p, Sized
      <3> QED
        BY <2>4, <3>1 DEF LdtDescriptor
    <2>8. DOMAIN gdt' = 0 .. GDT_SIZE - 1
      BY <2>4
    <2> QED
      BY <2>1, <2>5, <2>6, <2>7, <2>8, Expected DEF DescriptorInv, IsSeq
  <1>4. CASE csinit
    BY <1>4, Expected DEF csinit, DescriptorInv, IsSeq
  <1>5. CASE MakeProcess
    <2> DEFINE n == Len(proc_table)
    <2>1. at = "main" /\ n < NR_ALL_TASKS_PROC /\ UNCHANGED <<at, gdt, tr>>
      BY <1>5 DEF MakeProcess
    <2>2. proc_table' = Append(proc_table, Made(n))
      <3>1. gdt[1] = LoaderGdt[2] /\ gdt[2] = LoaderGdt[3]
        BY <2>1 DEF DescriptorInv
      <3>2. KERNEL_CS \div 8 = 1 /\ KERNEL_DS \div 8 = 2
        BY DEF KERNEL_CS, KERNEL_DS
      <3>3. gdt[KERNEL_CS \div 8] = LoaderGdt[2] /\ gdt[KERNEL_DS \div 8] = LoaderGdt[3]
        BY <3>1, <3>2
      <3> QED
        BY <1>5, <3>3, SMTT(30) DEF MakeProcess, Made, Rpl
    <2>3. /\ n \in Nat /\ Len(proc_table') = n + 1 /\ proc_table'[n + 1] = Made(n)
          /\ \A i \in 1 .. n : proc_table'[i] = proc_table[i]
          /\ IsSeq(proc_table')
      BY <2>2, Grown DEF DescriptorInv
    <2>4. \A i \in Procs : i < n + 1 => proc_table'[i + 1] = Made(i)
      <3> SUFFICES ASSUME NEW i \in Procs, i < n + 1 PROVE proc_table'[i + 1] = Made(i)
        OBVIOUS
      <3> HIDE DEF n
      <3>1. CASE i = n
        BY <2>3, <3>1
      <3>2. CASE i # n
        <4>1. i + 1 \in 1 .. n /\ i < n
          BY <1>p, <2>3, <3>2, Sized
        <4> QED
          BY <2>3, <4>1 DEF DescriptorInv, n
      <3> QED
        BY <3>1, <3>2
    <2> HIDE DEF n
    <2>5. (\A i \in Procs : i < Len(proc_table) => proc_table[i + 1] = Made(i))'
      BY <2>3, <2>4, Expected
    <2> QED
      BY <2>1, <2>3, <2>5 DEF DescriptorInv
  <1>6. CASE Restart
    BY <1>6, Expected DEF Restart, DescriptorInv, IsSeq
  <1>7. CASE at' = "halted" /\ UNCHANGED <<gdt, idt, tr, proc_table>>
             /\ at \in {"main", "running"}
    BY <1>7, Expected DEF DescriptorInv, IsSeq
  <1>8. ASSUME NEW v \in Exceptions \cup Irqs, Raise(v) \/ SoftwareInt(v)
        PROVE  at' = "halted" /\ UNCHANGED <<gdt, idt, tr, proc_table>>
               /\ at \in {"main", "running"}
    BY <1>8 DEF Raise, SoftwareInt, Handle, Running
  <1>9. CASE UNCHANGED kstart
    BY <1>9, Expected DEF kstart, DescriptorInv, IsSeq
  <1> QED
    BY <1>1, <1>2, <1>3, <1>4, <1>5, <1>6, <1>7, <1>8, <1>9 DEF KernelStep

-----------------------------------------------------------------------------
(* The theorems                                                            *)

LEMMA InitSInv == StartupInit => SInv
  <1> SUFFICES ASSUME StartupInit PROVE SInv
    OBVIOUS
  <1>1. LoaderInit /\ KernelInit
    BY DEF StartupInit
  <1>2. Start("e820") /\ pc = "e820" /\ chain \in Chains
    BY <1>1 DEF LoaderInit, Start
  <1>3. FileInv
    BY <1>2 DEF FileInv, Booting
  <1>4. MemInv
    <2>1. bios.ranges \in Seq(Ranges) /\ (bios.ranges # <<>> \/ bios.fails)
      <3>1. PICK s, f : /\ bios = [ranges |-> s, fails |-> f]
                        /\ s \in UNION {[1 .. n -> Ranges] : n \in 0 .. MaxRanges}
        BY <1>1 DEF LoaderInit, Bioses
      <3>2. s \in Seq(Ranges)
        <4>1. PICK n \in 0 .. MaxRanges : s \in [1 .. n -> Ranges]
          BY <3>1
        <4>2. n \in Nat
          BY <4>1, LoaderAssumption
        <4> QED
          BY <4>1, <4>2
      <3> QED
        BY <1>1, <3>1, <3>2 DEF LoaderInit
    <2>2. /\ _MemChkBuf = <<>> /\ dwMCRNumber = 0 /\ ecx = 0 /\ dwMemSize = 0
      BY <1>1 DEF LoaderInit
    <2>3. _MemChkBuf \in Seq(Ranges) /\ Len(_MemChkBuf) = 0 /\ Len(bios.ranges) \in Nat
          /\ (Len(bios.ranges) = 0 => bios.ranges = <<>>)
      BY <2>1, <2>2
    <2> QED
      BY <1>2, <2>1, <2>2, <2>3 DEF MemInv, RunawayExplained, Held
  <1>5. KernelInv
    BY <1>1, <1>2 DEF LoaderInit, KernelInv
  <1>6. TablesInv
    <2>1. proc_table = <<>> /\ at = "cstart"
      BY <1>1 DEF KernelInit
    <2>2. IsSeq(<<>>) /\ Len(<<>>) = 0
      BY DEF IsSeq
    <2> QED
      BY <2>1, <2>2 DEF TablesInv, ReportIsTrue
  <1> QED
    BY <1>3, <1>4, <1>5, <1>6 DEF SInv

LEMMA NextSInv == SInv /\ [StartupNext]_<<loader, kstart>> => SInv'
  <1> SUFFICES ASSUME SInv, [StartupNext]_<<loader, kstart>> PROVE SInv'
    OBVIOUS
  <1>k. UNCHANGED kstart => TablesInv'
    BY DEF SInv, TablesInv, kstart, IsSeq, ReportIsTrue, Privilege
  <1>l. UNCHANGED loader => (FileInv /\ MemInv /\ KernelInv)'
    <2> SUFFICES ASSUME UNCHANGED loader PROVE (FileInv /\ MemInv /\ KernelInv)'
      OBVIOUS
    <2>1. UNCHANGED <<place, chain, pc, wRootDirSizeForLoop, wSectorNo, dx, di, cluster, bx,
                      memory, paging, elf, esi, segments>>
      BY DEF loader, vars, disk, search, load, kernel
    <2>2. FileInv'
      <3>1. BInv => BInv'
        BY <2>1, NextBInv DEF vars, disk, search, load
      <3> QED
        BY <2>1, <3>1 DEF SInv, FileInv, Start, Placed, Offset, DataSector
    <2>3. MemInv'
      BY <2>1, MemStays DEF SInv
    <2>4. KernelInv'
      <3>1. (elf \in Kernels /\ Linked)'
        BY <2>1, ElfStays DEF SInv
      <3> QED
        BY <2>1, <3>1 DEF SInv, KernelInv, InSegments, FileByte, Bytes
    <2> QED
      BY <2>2, <2>3, <2>4
  <1>1. CASE LoaderStep /\ UNCHANGED kstart
    BY <1>1, <1>k, FileNext, MemNext, KernelNext DEF SInv
  <1>2. CASE KernelStep /\ UNCHANGED loader
    BY <1>2, <1>l, TablesNext DEF SInv
  <1>3. CASE UNCHANGED <<loader, kstart>>
    BY <1>3, <1>k, <1>l DEF SInv
  <1> QED
    BY <1>1, <1>2, <1>3 DEF StartupNext, LoaderStopped

THEOREM StartupInvariance == StartupSpec => []SInv
  BY InitSInv, NextSInv, PTL DEF StartupSpec

\* The loader, too, finds the kernel's file if the disk has it, and reads it sector
\* by sector to its place (loader.asm 70-175).
THEOREM KernelLoaded == StartupSpec => [](FileLoaded /\ NoFileIfAbsent)
  <1>1. SInv => FileLoaded /\ NoFileIfAbsent
    <2>1. BInv => FileLoaded /\ NoFileIfAbsent
      BY InPlaceAll DEF BInv
    <2> QED
      BY <2>1 DEF SInv, FileInv, Booting, FileLoaded, NoFileIfAbsent
  <1> QED
    BY <1>1, StartupInvariance, PTL

\* The loader overwrites the memory only after a BIOS that failed, or if all the
\* usable ranges held end at 0 modulo 4 GB (loader.asm 64-65, 385-407, 431-449).
THEOREM RunawayOnly == StartupSpec => []RunawayExplained
  <1>1. SInv => RunawayExplained
    BY DEF SInv, MemInv
  <1> QED
    BY <1>1, StartupInvariance, PTL

\* The page tables reach the end of every usable range that ends below 4 GB and for
\* which there was room, whatever other ranges there are (loader.asm 51-66,
\* 386-407, 426-462).
THEOREM AllMapped == StartupSpec => []MemoryMapped
  <1>1. SInv => MemoryMapped
    <2> SUFFICES ASSUME SInv, pc \in {"init", "kernel"}, NEW i \in DOMAIN bios.ranges,
                        i <= Room, bios.ranges[i].type = 1,
                        bios.ranges[i].base + bios.ranges[i].length < Word
                 PROVE  bios.ranges[i].base + bios.ranges[i].length
                           <= tables * PtesPerTable * PageSize
      BY DEF MemoryMapped, Held
    <2> DEFINE b == bios.ranges[i].base  l == bios.ranges[i].length
               all == PageSize * PtesPerTable
    <2>1. /\ dwMemSize \in Nat /\ tables = Tables /\ Counted(dwMCRNumber)
          /\ dwMCRNumber = Len(bios.ranges) /\ bios.ranges[i] \in Ranges
          /\ i \in 1 .. Len(bios.ranges)
      BY DEF SInv, MemInv
    <2>2. b \in Nat /\ l \in Nat /\ b + l < Word /\ Word \in Nat \ {0}
          /\ End(bios.ranges[i]) = ((b % Word) + (l % Word)) % Word
      BY <2>1, Assumed DEF End
    <2>3. End(bios.ranges[i]) <= dwMemSize
      BY <2>1 DEF Counted
    <2>4. /\ all \in Nat \ {0}
          /\ tables = dwMemSize \div all + (IF dwMemSize % all = 0 THEN 0 ELSE 1)
          /\ tables * PtesPerTable * PageSize = all * tables
      <3>1. PageSize \in Nat \ {0} /\ PtesPerTable \in Nat \ {0}
        BY LoaderAssumption
      <3>2. tables = dwMemSize \div all + (IF dwMemSize % all = 0 THEN 0 ELSE 1)
        BY <2>1 DEF Tables
      <3>3. tables \in Nat
        <4>1. all \in Nat \ {0} /\ dwMemSize \in Nat
          BY <2>1, Assumed
        <4> HIDE DEF all
        <4>2. dwMemSize \div all \in Nat
          BY <4>1, DivMod
        <4> QED
          BY <3>2, <4>2
      <3> QED
        BY <3>1, <3>2, <3>3, Assumed, SMT
    <2> HIDE DEF b, l, all
    <2>5. ((b % Word) + (l % Word)) % Word = b + l
      <3>1. \A a \in Nat : a < Word => a % Word = a
        <4> TAKE a \in Nat
        <4>1. a < Word => a \in 0 .. Word - 1 /\ a = Word * 0 + a
          BY <2>2
        <4> QED
          BY <2>2, <4>1, ModUnique
      <3>2. b < Word /\ l < Word /\ b + l \in Nat
        BY <2>2
      <3> QED
        BY <2>2, <3>1, <3>2
    <2>6. dwMemSize <= all * tables
      <3> DEFINE q == dwMemSize \div all  m == dwMemSize % all
      <3>1. q \in Nat /\ m \in 0 .. all - 1 /\ dwMemSize = all * q + m
        <4>1. dwMemSize \in Nat
          BY <2>1
        <4> QED
          BY <2>4, <4>1, DivMod
      <3>2. tables = q + (IF m = 0 THEN 0 ELSE 1)
        BY <2>4
      <3> HIDE DEF q, m
      <3>3. all * (q + 1) = all * q + all /\ all * q \in Nat
        BY <2>4, <3>1
      <3>4. CASE m = 0
        BY <2>4, <3>1, <3>2, <3>3, <3>4
      <3>5. CASE m # 0
        BY <2>4, <3>1, <3>2, <3>3, <3>5
      <3> QED
        BY <3>4, <3>5
    <2>7. b + l <= all * tables
      <3>1. all * tables \in Int /\ dwMemSize \in Nat /\ b + l \in Nat /\ b + l <= dwMemSize
        <4>1. tables \in Nat
          <5>1. dwMemSize \div all \in Nat
            <6>1. dwMemSize \in Nat
              BY <2>1
            <6> QED
              BY <2>4, <6>1, DivMod
          <5> QED
            BY <2>4, <5>1
        <4> QED
          BY <2>1, <2>2, <2>3, <2>4, <2>5, <4>1
      <3> QED
        BY <2>6, <3>1
    <2> QED
      BY <2>4, <2>7 DEF b, l
  <1> QED
    BY <1>1, StartupInvariance, PTL

\* A byte of a file no longer than a segment is where the loader looks for it.
LEMMA ByteThere ==
    ASSUME chain \in Chains, Placed(Len(chain)), FileSize <= Segment,
           NEW o \in Nat, o < FileSize
    PROVE  FileByte(o) = <<DataSector(chain[o \div BytsPerSec + 1]), o % BytsPerSec>>
  <1> DEFINE q == o \div BytsPerSec  m == o % BytsPerSec  j == q + 1
  <1>1. Len(chain) \in Nat \ {0} /\ BytsPerSec \in Nat \ {0} /\ Segment \in Nat \ {0}
        /\ FileSize = BytsPerSec * Len(chain)
    BY ChainFacts, Sizes DEF FileSize
  <1>2. q \in Nat /\ m \in 0 .. BytsPerSec - 1 /\ o = BytsPerSec * q + m
        /\ q < Len(chain)
    BY <1>1, DivMod, DivLess
  <1>3. o - m = BytsPerSec * q
    <2> HIDE DEF q, m
    <2> QED
      BY <1>1, <1>2
  <1>4. j \in 1 .. Len(chain) /\ BytsPerSec * (j - 1) = BytsPerSec * q
    <2> HIDE DEF q
    <2> QED
      BY <1>1, <1>2
  <1>5. Offset(j) = BytsPerSec * q
    <2> HIDE DEF q, m
    <2>1. BytsPerSec * q \in Nat /\ BytsPerSec * q < Segment
      BY <1>1, <1>2
    <2>2. (BytsPerSec * q) % Segment = BytsPerSec * q
      <3> DEFINE a == BytsPerSec * q
      <3>1. a \in 0 .. Segment - 1 /\ a = Segment * 0 + a
        BY <1>1, <2>1
      <3> HIDE DEF a
      <3>2. a % Segment = a
        BY <1>1, <3>1, ModUnique
      <3> QED
        BY <3>2 DEF a
    <2> QED
      BY <1>4, <2>2 DEF Offset
  <1>6. BytsPerSec * (Len(chain) - j) < Segment
    <2> HIDE DEF q, m
    <2>1. /\ BytsPerSec * (Len(chain) - (q + 1)) = BytsPerSec * Len(chain) - BytsPerSec * (q + 1)
          /\ BytsPerSec * (q + 1) = BytsPerSec * q + BytsPerSec /\ BytsPerSec * q \in Nat
          /\ BytsPerSec * Len(chain) \in Nat
      BY <1>1, <1>2
    <2> QED
      BY <1>1, <2>1
  <1>7. Offset(j) \in DOMAIN memory /\ memory[Offset(j)] = DataSector(chain[j])
    BY <1>4, <1>6 DEF Placed
  <1> QED
    BY <1>3, <1>5, <1>7 DEF FileByte

\* Every segment of the kernel is where it was linked when the kernel is entered,
\* wherever its file lay on the disk (loader.asm 151-175, 651-673).
THEOREM KernelLinked == StartupSpec => []KernelInPlace
  <1>1. SInv => KernelInPlace
    <2> SUFFICES ASSUME SInv, pc = "kernel", FileSize <= Segment,
                        NEW i \in DOMAIN elf, elf[i].type # 0, NEW a \in Bytes(elf[i])
                 PROVE  LET o == elf[i].offset + a - elf[i].vaddr
                        IN  segments[a] = <<DataSector(chain[o \div BytsPerSec + 1]),
                                            o % BytsPerSec>>
      BY DEF KernelInPlace
    <2> DEFINE o == elf[i].offset + a - elf[i].vaddr
    <2>1. i \in 1 .. Len(elf)
      <3>1. elf \in Seq([type : Nat, offset : Nat, vaddr : Nat, filesz : Nat])
        BY Assumed DEF SInv, KernelInv
      <3> QED
        BY <3>1
    <2>2. segments[a] = FileByte(o)
      BY <2>1 DEF SInv, KernelInv, InSegments
    <2>3. o \in Nat /\ o < FileSize
      <3>1. /\ elf[i].offset \in Nat /\ elf[i].vaddr \in Nat /\ elf[i].filesz \in Nat
            /\ elf[i].offset + elf[i].filesz <= FileSize
        BY <2>1, ElfFacts DEF SInv
      <3>2. FileSize \in Nat
        BY Sizes, ChainFacts DEF FileSize, SInv, FileInv
      <3>3. a \in elf[i].vaddr .. elf[i].vaddr + elf[i].filesz - 1
        BY DEF Bytes
      <3> QED
        BY <3>1, <3>2, <3>3
    <2> HIDE DEF o
    <2>4. FileByte(o) = <<DataSector(chain[o \div BytsPerSec + 1]), o % BytsPerSec>>
      BY <2>3, ByteThere DEF SInv, FileInv
    <2> QED
      BY <2>2, <2>4 DEF o
  <1> QED
    BY <1>1, StartupInvariance, PTL

\* What exception_handler displays is the exception there was, whoever caused it
\* and however (protect.c 83-98, 147-195; protect.asm 22-83).
THEOREM Reported == StartupSpec => []ReportIsTrue
  <1>1. SInv => ReportIsTrue
    BY DEF SInv, TablesInv
  <1> QED
    BY <1>1, StartupInvariance, PTL

THEOREM DescriptorInvariance == StartupSpec => []DescriptorInv
  <1>1. StartupInit => DescriptorInv
    BY InitDescriptorInv DEF StartupInit
  <1>2. DescriptorInv /\ [StartupNext]_<<loader, kstart>> => DescriptorInv'
    BY NextDescriptorInv DEF StartupNext
  <1> QED
    BY <1>1, <1>2, PTL DEF StartupSpec

\* The segments of every process whose LDT selector fits a u8 are its own, or flat
\* and of its own privilege; the flags of every process give the tasks and only
\* them the ports, and no two stacks overlap, however many processes there are and
\* however large their stacks (protect.c 100-102, 125-141; main.c 36-79).
THEOREM OwnSegments == StartupSpec => []ProcessesApart
  <1>1. ASSUME DescriptorInv, at = "running", NEW i \in Procs
        PROVE  LET p == proc_table[i + 1]
               IN  /\ LDT_FIRST + 8 * i < 256 => OwnLdt(i)
                   /\ (p.eflags \div \h1000) % 4 >= p.cs % 4 <=> i < NR_SYS_TASKS_PROC
                   /\ StackApart(i)
    <2> DEFINE r == Rpl(i)
    <2>1. /\ \A j \in Procs : proc_table[j + 1] = Made(j)
          /\ gdt[5 + i] = LdtDescriptor(i)
      <3>1. /\ Len(proc_table) = NR_ALL_TASKS_PROC
            /\ \A j \in Procs : gdt[5 + j] = LdtDescriptor(j)
            /\ \A j \in Procs : j < Len(proc_table) => proc_table[j + 1] = Made(j)
        BY <1>1 DEF DescriptorInv
      <3>2. \A j \in Procs : j < NR_ALL_TASKS_PROC
        BY Sized DEF Procs
      <3> QED
        BY <1>1, <3>1, <3>2
    <2>2. i \in Nat /\ i < NR_ALL_TASKS_PROC /\ r \in {1, 3}
      BY <1>1, Sized DEF Procs, Rpl
    <2> DEFINE p == Made(i)
    <2>3. proc_table[i + 1] = p
      BY <1>1, <2>1
    <2>4. ASSUME LDT_FIRST + 8 * i < 256 PROVE OwnLdt(i)
      <3>1. gdt[p.ldt_sel \div 8] = LdtDescriptor(i)
        <4>1. SelectorLdt(i) = 40 + 8 * i
          BY <2>2, <2>4 DEF SelectorLdt, LDT_FIRST
        <4>2. SelectorLdt(i) \div 8 = 5 + i
          BY <2>2, <4>1
        <4> QED
          BY <2>1, <4>2 DEF Made
      <3>2. /\ LdtDescriptor(i).attr1 = DA_LDT /\ Limit(LdtDescriptor(i)) = 15
            /\ Base(LdtDescriptor(i)) = ProcTable + SizeofProcess * i + LdtsOffset
        <4>1. ProcTable + SizeofProcess * i + LdtsOffset \in Nat
          BY <2>2, Sized DEF SizeofProcess, LdtsOffset
        <4>2. Base(LdtDescriptor(i)) = ProcTable + SizeofProcess * i + LdtsOffset
          <5> DEFINE b == ProcTable + SizeofProcess * i + LdtsOffset
                     all == ProcTable + SizeofProcess * NR_ALL_TASKS_PROC
          <5>1. b <= all
            BY <2>2, Sized DEF SizeofProcess, LdtsOffset
          <5>2. b \in Nat /\ all \in Nat /\ all \div \h1000000 < 256
            BY <4>1, Sized DEF SizeofProcess
          <5> HIDE DEF b, all
          <5>3. b \div \h1000000 < 256
            BY <5>1, <5>2
          <5>4. Base(init_descriptor(b, SizeofLdts - 1, DA_LDT)) = b
            BY <5>2, <5>3, BaseIs
          <5> QED
            BY <5>4 DEF LdtDescriptor, b
        <4>3. LdtDescriptor(i).attr1 = DA_LDT
          BY DEF LdtDescriptor, init_descriptor, DA_LDT
        <4>4. Limit(LdtDescriptor(i)) = 15
          BY DEF LdtDescriptor, init_descriptor, Limit, DA_LDT, SizeofLdts
        <4> QED
          BY <4>2, <4>3, <4>4
      <3>3. ASSUME NEW sel \in {p.cs, p.ds, p.ss}
            PROVE  LET d == p.ldts[sel \div 8 + 1]
                   IN  /\ (sel \div 4) % 2 = 1 /\ 8 * (sel \div 8) + 7 <= 15
                       /\ Dpl(d) = sel % 4 /\ Base(d) = 0 /\ Limit(d) = \hFFFFF
        <4>1. /\ LoaderGdt[2] = init_descriptor(0, \hFFFFF, DA_CR + DA_32_4K)
              /\ LoaderGdt[3] = init_descriptor(0, \hFFFFF, DA_DRW + DA_32_4K)
          BY DEF LoaderGdt
        <4>2. \A d \in {LoaderGdt[2], LoaderGdt[3]}, a \in Nat :
                 /\ Base([d EXCEPT !.attr1 = a]) = 0 /\ Limit([d EXCEPT !.attr1 = a]) = \hFFFFF
                 /\ Dpl([d EXCEPT !.attr1 = a]) = (a \div 32) % 4
          BY <4>1 DEF init_descriptor, Base, Limit, Dpl, DA_CR, DA_DRW, DA_32_4K
        <4>3. DA_C + 32 * r \in Nat /\ DA_DRW + 32 * r \in Nat
          BY <2>2 DEF DA_C, DA_DRW
        <4>4. CASE sel = 4 + r
          <5> DEFINE d == [LoaderGdt[2] EXCEPT !.attr1 = DA_C + 32 * r]
          <5>1. p.ldts[sel \div 8 + 1] = d
            BY <2>2, <4>4, ByRpl DEF Made
          <5>2. Base(d) = 0 /\ Limit(d) = \hFFFFF /\ Dpl(d) = ((DA_C + 32 * r) \div 32) % 4
            BY <4>2, <4>3
          <5> HIDE DEF d
          <5>3. (sel \div 4) % 2 = 1 /\ sel % 4 = r /\ ((DA_C + 32 * r) \div 32) % 4 = r
                /\ sel \div 8 \in {0, 1}
            BY <2>2, <4>4, ByRpl
          <5>4. 8 * (sel \div 8) + 7 <= 15
            BY <5>3
          <5> QED
            BY <5>1, <5>2, <5>3, <5>4
        <4>5. CASE sel = 8 + 4 + r
          <5> DEFINE d == [LoaderGdt[3] EXCEPT !.attr1 = DA_DRW + 32 * r]
          <5>1. p.ldts[sel \div 8 + 1] = d
            BY <2>2, <4>5, ByRpl DEF Made
          <5>2. Base(d) = 0 /\ Limit(d) = \hFFFFF /\ Dpl(d) = ((DA_DRW + 32 * r) \div 32) % 4
            BY <4>2, <4>3
          <5> HIDE DEF d
          <5>3. (sel \div 4) % 2 = 1 /\ sel % 4 = r /\ ((DA_DRW + 32 * r) \div 32) % 4 = r
                /\ sel \div 8 \in {0, 1}
            BY <2>2, <4>5, ByRpl
          <5>4. 8 * (sel \div 8) + 7 <= 15
            BY <5>3
          <5> QED
            BY <5>1, <5>2, <5>3, <5>4
        <4> QED
          BY <4>4, <4>5 DEF Made
      <3>4. SizeofProcess * (i + 1) = SizeofProcess * i + SizeofProcess
             /\ SizeofProcess * i \in Nat
        BY <2>2 DEF SizeofProcess
      <3>5. Base(LdtDescriptor(i)) + Limit(LdtDescriptor(i))
                < ProcTable + SizeofProcess * (i + 1)
        BY <3>2, <3>4, Sized DEF SizeofProcess, LdtsOffset
      <3> HIDE DEF p
      <3> QED
        BY <2>3, <3>1, <3>2, <3>3, <3>5 DEF OwnLdt
    <2>5. (p.eflags \div \h1000) % 4 >= p.cs % 4 <=> i < NR_SYS_TASKS_PROC
      <3>1. p.cs % 4 = r /\ p.eflags = IF i < NR_SYS_TASKS_PROC THEN \h1202 ELSE \h202
        BY <2>2, ByRpl DEF Made
      <3> QED
        BY <3>1 DEF Rpl
    <2>6. StackApart(i)
      <3> DEFINE N == NR_ALL_TASKS_PROC
      <3>1. /\ \A k \in 0 .. N : SumUpTo[k] \in Nat
            /\ \A k \in 1 .. N : SumUpTo[k] = stacksize[k] + SumUpTo[k - 1] /\ stacksize[k] \in Nat
            /\ N \in Nat /\ SumUpTo[0] = 0 /\ TaskStack \in Nat /\ STACK_SIZE_TOTAL \in Nat
        BY SumsAre, Sized DEF SumsTo
      <3>2. \A j \in Procs : /\ proc_table[j + 1].esp = TaskStack + STACK_SIZE_TOTAL - SumUpTo[j]
                             /\ proc_table[j + 1].esp - stacksize[j + 1]
                                   = TaskStack + STACK_SIZE_TOTAL - SumUpTo[j + 1]
                             /\ j + 1 \in 1 .. N /\ j \in 0 .. N /\ (j + 1) - 1 = j
        <4> TAKE j \in Procs
        <4>1. proc_table[j + 1].esp = TaskStack + STACK_SIZE_TOTAL - SumUpTo[j]
          <5>1. Made(j).esp = TaskStackTop(j)
            BY DEF Made
          <5> QED
            BY <2>1, <5>1 DEF TaskStackTop
        <4>2. j + 1 \in 1 .. N /\ j \in 0 .. N /\ (j + 1) - 1 = j /\ N \in 0 .. N
          BY <3>1 DEF Procs
        <4> HIDE DEF N
        <4>3. SumUpTo[j + 1] = stacksize[j + 1] + SumUpTo[j] /\ stacksize[j + 1] \in Nat
              /\ SumUpTo[j] \in Nat /\ SumUpTo[N] \in Nat
          BY <3>1, <4>2
        <4> QED
          BY <3>1, <4>1, <4>2, <4>3
      <3>3. \A j, k \in Procs : j < k => SumUpTo[j + 1] <= SumUpTo[k]
        <4> SUFFICES ASSUME NEW j \in Procs, NEW k \in Procs, j < k
                     PROVE  SumUpTo[j + 1] <= SumUpTo[k]
          OBVIOUS
        <4>1. j + 1 \in 1 .. NR_ALL_TASKS_PROC /\ k \in j + 1 .. NR_ALL_TASKS_PROC
          BY Sized DEF Procs
        <4> QED
          BY <4>1, SumsGrow
      <3>4. SumUpTo[i + 1] <= SumUpTo[N]
        <4>1. i + 1 \in 1 .. NR_ALL_TASKS_PROC
              /\ NR_ALL_TASKS_PROC \in i + 1 .. NR_ALL_TASKS_PROC
          BY Sized DEF Procs
        <4> QED
          BY <4>1, SumsGrow
      <3> DEFINE top(j) == proc_table[j + 1].esp
                 bottom(j) == proc_table[j + 1].esp - stacksize[j + 1]
      <3>5. /\ SumUpTo[N] <= STACK_SIZE_TOTAL => TaskStack <= bottom(i)
            /\ top(i) <= TaskStack + STACK_SIZE_TOTAL
        <4>1. SumUpTo[N] \in Nat /\ SumUpTo[i] \in Nat /\ SumUpTo[i + 1] \in Nat
          BY <3>1, <3>2
        <4> QED
          BY <3>1, <3>2, <3>4, <4>1
      <3>6. ASSUME NEW j \in Procs \ {i}
            PROVE  bottom(j) >= top(i) \/ top(j) <= bottom(i)
        <4>1. SumUpTo[N] \in Nat /\ SumUpTo[i] \in Nat /\ SumUpTo[i + 1] \in Nat
              /\ SumUpTo[j] \in Nat /\ SumUpTo[j + 1] \in Nat
          BY <3>1, <3>2
        <4>2. j < i \/ i < j
          BY Sized DEF Procs
        <4>3. SumUpTo[j + 1] <= SumUpTo[i] \/ SumUpTo[i + 1] <= SumUpTo[j]
          BY <3>3, <4>2
        <4> QED
          BY <3>1, <3>2, <4>1, <4>3
      <3> QED
        BY <3>5, <3>6 DEF StackApart
    <2> HIDE DEF p
    <2> QED
      BY <2>3, <2>4, <2>5, <2>6
  <1>2. ASSUME DescriptorInv, at = "running" PROVE Base(gdt[tr \div 8]) = TssAddress
    <2>1. gdt[4] = TssDescriptor /\ tr = TSS
      BY <1>2 DEF DescriptorInv
    <2>2. TSS \div 8 = 4
      BY DEF TSS
    <2> QED
      BY <2>1, <2>2, Sized, BaseIs DEF TssDescriptor
  <1>3. DescriptorInv => ProcessesApart
    BY <1>1, <1>2 DEF ProcessesApart
  <1> QED
    BY <1>3, DescriptorInvariance, PTL
=============================================================================
