------------------------------- MODULE Startup -------------------------------
(***************************************************************************)
(* From the floppy to the processes: the loader (Loader), then the kernel  *)
(* it has put into memory (KernelStart).                                   *)
(***************************************************************************)
EXTENDS Loader, KernelStart

StartupInit == LoaderInit /\ KernelInit

StartupNext ==
    \/ LoaderStep /\ UNCHANGED kstart
    \/ pc = "kernel" /\ KernelStep /\ UNCHANGED loader
    \/ LoaderStopped /\ UNCHANGED kstart
    \/ at = "halted" /\ UNCHANGED <<loader, kstart>>

StartupSpec == StartupInit /\ [][StartupNext]_<<loader, kstart>>

\* One processor; interrupts are off, or do not change its course.
LoadFairly == WF_<<loader, kstart>>(Load /\ UNCHANGED <<paging, kernel, kstart>>)
=============================================================================
