---------------------------- MODULE MCResources -----------------------------
(***************************************************************************)
(* What do_fork, do_execve and do_exit take and give back. A behaviour is  *)
(* about one part of it:                                                   *)
(*   files    two processes, with or without a common table of two         *)
(*            descriptors, a file and a directory; opens to read, and with *)
(*            O_WRONLY | O_CREAT | O_EXCL                                  *)
(*   spaces   two processes; programs of two segments under one table, and *)
(*            of one across two tables; kmalloc fails, pages are enough    *)
(*   tight    the same, where pages run out                                *)
(*   areas    four pages of two bytes; areas to read, and stacks           *)
(***************************************************************************)
EXTENDS OpenFiles, Areas, TLC

CONSTANTS
    p1, p2, t1, t2, f1, d1

Read  == [read |-> TRUE, write |-> FALSE]
Write == [read |-> FALSE, write |-> TRUE]

MCOpenFlags ==
    [mode : {Read}, create : {FALSE}, excl : {FALSE}, trunc : {FALSE}]
    \cup [mode : {Write}, create : {TRUE}, excl : {TRUE}, trunc : {FALSE}]

ForkOrClone == {{}, {"CLONE_FS"}}

Symmetry == Permutations({p1, p2}) \cup Permutations({t1, t2})

VARIABLES
    part,
    mem, proc, failed           \* of the address spaces

SmallAndLarge == {<< <<0, 1>>, <<1, 2>> >>, << <<0, 3>> >>}

Spaces == INSTANCE AddressSpaces WITH
    Procs <- {1, 2}, MMs <- {1, 2}, NPAGE <- 24, Programs <- SmallAndLarge,
    STACK <- <<6, 8>>, Budgets <- 0..6, panic <- failed

Tight == INSTANCE AddressSpaces WITH
    Procs <- {1, 2}, MMs <- {1, 2}, NPAGE <- 14, Programs <- SmallAndLarge,
    STACK <- <<6, 8>>, Budgets <- {6}, panic <- failed

ToReadAndStacks == {{"READ"}, {"READ", "WRITE", "STACK"}}

OfSpaces == << mem, proc, failed >>
allvars == << part, vars, OfSpaces, areavars >>

MCInit ==
    /\ part \in {"files", "spaces", "tight", "areas"}
    /\ IF part = "files" THEN Init
       ELSE /\ inode = 0 /\ table = 0 /\ filesp = 0 /\ alive = {} /\ mm = {}
            /\ pc = 0 /\ panic = "none" /\ lost = 0
    /\ CASE part = "spaces" -> Spaces!Init
         [] part = "tight" -> Tight!Init
         [] OTHER -> mem = 0 /\ proc = 0 /\ failed = FALSE
    /\ AreasInit

MCNext ==
    /\ UNCHANGED part
    /\ \/ part = "files" /\ Next /\ UNCHANGED << OfSpaces, areavars >>
       \/ part = "spaces" /\ Spaces!Next /\ UNCHANGED << vars, areavars >>
       \/ part = "tight" /\ Tight!Next /\ UNCHANGED << vars, areavars >>
       \/ part = "areas" /\ AreasNext /\ UNCHANGED << vars, OfSpaces >>

MCSpec == MCInit /\ [][MCNext]_allvars

-----------------------------------------------------------------------------
(* Properties *)

\* The entries of a table count their users, and an inode is reclaimed exactly
\* when nothing refers to it, whatever threads that share the table do.
FilesExact == part = "files" => TypeOK /\ EntriesExact /\ RefExact

\* No assert of file.c, fs.c and inode.c fails, but for an operation the inode
\* does not have.
FilesAssertsHold == part = "files" => AssertsHold

\* The areas are apart and in order; find_vma, user_mem_check and copy_string
\* answer for every byte of a range, whatever the cache holds; a child gets the
\* same areas.
AreasExact ==
    part = "areas" =>
      /\ AreasTypeOK /\ AreasApart /\ FindExact
      /\ CheckExact /\ CopyExact /\ DupExact

\* An mm counts the processes that have it, and no page is reached twice or is
\* free while it is reached.
PagesOnce ==
    /\ part = "spaces" => Spaces!TypeOK /\ Spaces!MmCounted /\ Spaces!PagesOnce
    /\ part = "tight" => Tight!TypeOK /\ Tight!MmCounted /\ Tight!PagesOnce

\* Whatever forks, execs and exits fail half-way for kmalloc, no page is lost.
NothingLost == part = "spaces" => Spaces!NothingLost
=============================================================================
