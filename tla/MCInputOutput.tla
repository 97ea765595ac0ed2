--------------------------- MODULE MCInputOutput ----------------------------
(***************************************************************************)
(* What read and write reach. A behaviour is about one part:               *)
(*   stdin    two readers, five characters, rings of three and of two      *)
(*   files    two files and two descriptors; a disk of four blocks of two  *)
(*            bytes, one named by the inode and more by an indirect block  *)
(*   full     the same on three blocks, so that the disk fills up at every *)
(*            place                                                        *)
(* O_TRUNC is used for a file only when nobody has it open. The file       *)
(* systems are instances of SfsProofs, which extends Sfs, so that what is  *)
(* proved there is at hand for these sizes too.                            *)
(***************************************************************************)
EXTENDS Console

CONSTANTS CLOSED, JUNK

VARIABLES
    part,
    freemap, unused_blocks, data, entry, disk, inode, file, panic

OfFiles == << freemap, unused_blocks, data, entry, disk, inode, file, panic >>
allvars == << part, vars, OfFiles >>

SomeFiles == {"f", "g"}
SomeDescriptors == {3, 4}
Texts == {<< 2, 1, 2 >>}
Positions == {0, 4}

\* A descriptor that is closed is not the state of one that is open.
ASSUME ClosedAssumption ==
    CLOSED \notin [node : SomeFiles, pos : Nat] /\ CLOSED \notin [file : SomeFiles, pos : Nat]

Sfs == INSTANCE SfsProofs WITH
    Files <- SomeFiles, Descriptors <- SomeDescriptors, NBLK <- 4, BLKSIZE <- 2,
    NDIRECT <- 1, NENTRY <- 3, SHARED_TRUNC <- FALSE

Full == INSTANCE SfsProofs WITH
    Files <- SomeFiles, Descriptors <- SomeDescriptors, NBLK <- 3, BLKSIZE <- 2,
    NDIRECT <- 1, NENTRY <- 2, SHARED_TRUNC <- FALSE

MCInit ==
    \/ /\ part = "stdin"
       /\ Init
       /\ freemap = 0 /\ unused_blocks = 0 /\ data = 0 /\ entry = 0
       /\ disk = 0 /\ inode = 0 /\ file = 0 /\ panic = "none"
    \/ /\ \/ part = "files" /\ Sfs!Init
          \/ part = "full" /\ Full!Init
       /\ typed = 0 /\ port = 0 /\ cons = 0 /\ stdin_buffer = 0 /\ p_rpos = 0
       /\ p_wpos = 0 /\ wait_queue = 0 /\ pc = 0 /\ len = 0 /\ ret = 0
       /\ wakeup_flags = 0 /\ exiting = 0 /\ out = 0 /\ lost = FALSE

MCNext ==
    /\ UNCHANGED part
    /\ \/ part = "stdin" /\ Next /\ UNCHANGED OfFiles
       \/ part = "files" /\ Sfs!Next /\ UNCHANGED vars
       \/ part = "full" /\ Full!Next /\ UNCHANGED vars

\* As in Console: the timer goes on, and a process that is awake gets the CPU.
Goes(A) == part = "stdin" /\ A /\ UNCHANGED << part, OfFiles >>

MCFairness ==
    /\ WF_allvars(Goes(Tick))
    /\ \A r \in Reader : WF_allvars(Goes(Resume(r))) /\ WF_allvars(Goes(Die(r)))

MCSpec == MCInit /\ [][MCNext]_allvars /\ MCFairness

-----------------------------------------------------------------------------
(* Properties *)

\* Characters reach the readers in the order they were typed, while no buffer
\* was full, and each at most once even then (cons_intr, cons_getc,
\* dev_stdin_write, dev_stdin_read).
CharsExact == part = "stdin" => InOrder /\ CharsOnce

\* No reader sleeps while there is a character, and none leaves its wait_t behind
\* (wait_current_set, wakeup_queue, wait_current_del).
ReadersWoken == part = "stdin" => NoReaderForgotten /\ NoDanglingWait

\* What is typed while somebody reads is read.
Awaited == part = "stdin" /\ Pending /\ Reading

TypedIsRead == Awaited ~> ~Awaited

\* Every block of the disk is free or named once, and reads return the bytes of
\* the file, whichever inodes are in memory and however often the disk was full.
BlocksExact ==
    /\ part = "files" => Sfs!TypeOK /\ Sfs!BlocksOnce /\ Sfs!ReadExact
    /\ part = "full" => Full!TypeOK /\ Full!BlocksOnce /\ Full!ReadExact

Bytes == INSTANCE Contents WITH
    Files <- SomeFiles, Descriptors <- SomeDescriptors,
    text <- CASE part = "files" -> Sfs!texts
              [] part = "full"  -> Full!texts
              [] OTHER          -> [f \in SomeFiles |-> << >>],
    at   <- CASE part = "files" -> Sfs!positions
              [] part = "full"  -> Full!positions
              [] OTHER          -> [d \in SomeDescriptors |-> CLOSED]

\* Programs see sequences of bytes: blocks, write-back and a full disk do not show
\* (sfs_io_nolock, sfs_truncfile, sfs_fsync, sfs_reclaim, sfs_load_inode).
ImplementsContents == Bytes!Spec
=============================================================================
