------------------------------ MODULE MCStartup ------------------------------
(* The values of Startup's constants that a .cfg cannot write, and its starts: *)
(* any disk with the plainest memory and kernel, or one disk with any.         *)
EXTENDS Startup

MCClusters == 2 .. 5

\* Low memory, a hole, high memory ending in the last page, just below and above
\* 4 GB (Word = 64), in any order.
Range(b, l, t) == [base |-> b, length |-> l, type |-> t]
MCRanges == {Range(0, 6, 1), Range(6, 4, 2), Range(10, 9, 1), Range(55, 9, 1), Range(70, 6, 1)}

\* Sizes of the stacks and places of the tables, all bytes of an address used.
MCstacksize == <<8, 4, 8, 16, 4, 8>>
MCTotal     == 8 + 4 + 8 + 16 + 4 + 8
MCTss       == \h12345678
MCProcTable == \h10FEDCBA

Header(t, o, v, f) == [type |-> t, offset |-> o, vaddr |-> v, filesz |-> f]
MCKernels == {<<Header(1, 0, 30, 3)>>,
              <<Header(1, 2, 30, 5), Header(1, 7, 40, 2), Header(0, 0, 0, 0)>>}

PlainDisk == place = <<1, 1>> /\ chain = <<4, 2, 5>>
PlainBios == bios = [ranges |-> <<Range(0, 6, 1)>>, fails |-> FALSE]
MCInit == StartupInit /\ (PlainDisk \/ PlainBios)
MCSpec == MCInit /\ [][StartupNext]_<<loader, kstart>> /\ LoadFairly
=============================================================================
