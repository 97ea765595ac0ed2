------------------------------ MODULE OpenFiles -----------------------------
(***************************************************************************)
(* Descriptor tables and the counts of inodes: fs/file.c, fs/fs.c,         *)
(* fs/vfs/inode.c, vfsfile.c and vfspath.c, with what do_fork, do_execve   *)
(* and do_exit do to them.                                                 *)
(*                                                                         *)
(* An operation on a file gives up the CPU at most where it waits for the  *)
(* file system or a device: an open between the choice of a descriptor and *)
(* vfs_open, every other one between fd_array_acquire and fd_array_release.*)
(* Names are resolved to inodes; "missing" is a name that has none.        *)
(***************************************************************************)
EXTENDS Integers, FiniteSets

CONSTANTS
    Procs,
    Tables,         \* memory for files_structs
    NFD,            \* FILES_STRUCT_NENTRY
    Files, Dirs, Stdins,    \* inodes: regular files, directories, the console
    root,           \* the root directory, which the kernel itself refers to
    NULL,
    CloneFlags,     \* the clone_flags of do_fork, of which CLONE_FS matters
    OpenFlags,      \* the open_flags of file_open
    MAX_LOST,       \* bound on references lost by one inode
    MAX_COUNT       \* bound on the files_count of a table

Inodes == Files \cup Dirs \cup Stdins

FD == 0..NFD - 1

ASSUME OpenFilesAssumption ==
    /\ IsFiniteSet(Procs) /\ IsFiniteSet(Tables)
    /\ root \in Dirs
    /\ NFD \in Nat \ {0, 1}
    /\ MAX_LOST \in Nat /\ MAX_COUNT \in Nat \ {0}
    /\ NULL \notin Inodes \cup Tables
    /\ OpenFlags \subseteq
         [mode   : {m \in [read : BOOLEAN, write : BOOLEAN] : m.read \/ m.write},
          create : BOOLEAN, excl : BOOLEAN, trunc : BOOLEAN]

VARIABLES
    inode,      \* ref_count and open_count of every inode
    table,      \* files_count, pwd and fd_array of every files_struct
    filesp,     \* the files_struct of a process
    alive,
    mm,         \* the processes with an mm
    pc,         \* the operation a process has in progress
    panic,      \* the assert that failed first
    lost        \* history: references vfs_open forgot, by inode

vars == << inode, table, filesp, alive, mm, pc, panic, lost >>

NoFile == [status |-> "NONE", node |-> NULL, count |-> 0,
           readable |-> FALSE, writable |-> FALSE]

files_create == [count |-> 0, pwd |-> NULL, fd |-> [d \in FD |-> NoFile]]

NoFlags == [mode |-> [read |-> TRUE, write |-> FALSE],
            create |-> FALSE, excl |-> FALSE, trunc |-> FALSE]

User == [op |-> "user", fd |-> 0, node |-> NULL, flags |-> NoFlags]

-----------------------------------------------------------------------------
(* Inodes. s has the inodes, the tables and the failed assert.              *)

Now == [inode |-> inode, table |-> table, panic |-> panic]

Checked(s, ok, assertion) ==
    IF ok \/ s.panic # "none" THEN s ELSE [s EXCEPT !.panic = assertion]

\* The operations in sfs_node_fileops, sfs_node_dirops and dev_node_ops.
Ops(i) ==
    {"open", "close", "fstat", "gettype"}
      \cup (IF i \in Files
              THEN {"read", "write", "fsync", "reclaim", "tryseek", "truncate"}
            ELSE IF i \in Dirs
              THEN {"fsync", "namefile", "getdirentry", "reclaim", "lookup"}
            ELSE {"read", "write", "ioctl", "tryseek", "lookup"})

\* __vop_op and inode_check: what is asserted before an operation on an inode.
vop(s, i, op) ==
    Checked(Checked(s, op \in Ops(i), op),
            s.inode[i].ref >= s.inode[i].open /\ s.inode[i].open >= 0,
            "inode_check")

inode_ref_inc(s, i) == [s EXCEPT !.inode[i].ref = @ + 1]

inode_open_inc(s, i) == [s EXCEPT !.inode[i].open = @ + 1]

inode_ref_dec(s, i) ==
    LET t == [Checked(s, s.inode[i].ref > 0, "inode_ref_dec")
                EXCEPT !.inode[i].ref = @ - 1]
    IN  IF t.inode[i].ref = 0 THEN vop(t, i, "reclaim") ELSE t

inode_open_dec(s, i) ==
    LET t == [Checked(s, s.inode[i].open > 0, "inode_open_dec")
                EXCEPT !.inode[i].open = @ - 1]
    IN  IF t.inode[i].open = 0 THEN vop(t, i, "close") ELSE t

\* Mutant: the reference goes first.
vfs_close_ref_first(s, i) == inode_open_dec(inode_ref_dec(s, i), i)

vfs_close(s, i) == inode_ref_dec(inode_open_dec(s, i), i)

-----------------------------------------------------------------------------
(* Entries of the descriptor table t                                        *)

File(s, t, d) == s.table[t].fd[d]

SetFile(s, t, d, file) == [s EXCEPT !.table[t].fd[d] = file]

\* The lowest free descriptor, NFD if there is none.
NO_FD(s, t) ==
    LET free == {d \in FD : File(s, t, d).status = "NONE"}
    IN  IF free = {} THEN NFD ELSE CHOOSE d \in free : \A e \in free : d <= e

fd_array_free(s, t, d) ==
    LET c == Checked(s, /\ File(s, t, d).status \in {"INIT", "CLOSED"}
                        /\ File(s, t, d).count = 0, "fd_array_free")
        e == IF File(s, t, d).status = "CLOSED"
               THEN vfs_close(c, File(s, t, d).node) ELSE c
    IN  SetFile(e, t, d, NoFile)

fd_array_alloc(s, t, d) ==
    SetFile(Checked(s, File(s, t, d).count = 0, "fd_array_alloc"), t, d,
            [NoFile EXCEPT !.status = "INIT"])

fd_array_acquire(s, t, d) ==
    [Checked(s, File(s, t, d).status = "OPENED", "fd_array_acquire")
       EXCEPT !.table[t].fd[d].count = @ + 1]

fopen_count_dec(s, t, d) ==
    LET e == [s EXCEPT !.table[t].fd[d].count = @ - 1]
    IN  IF File(e, t, d).count = 0 THEN fd_array_free(e, t, d) ELSE e

fd_array_release(s, t, d) ==
    fopen_count_dec(Checked(s, /\ File(s, t, d).status \in {"OPENED", "CLOSED"}
                               /\ File(s, t, d).count > 0, "fd_array_release"),
                    t, d)

fd_array_open(s, t, d, node, r, w) ==
    SetFile(Checked(s, File(s, t, d).status = "INIT", "fd_array_open"), t, d,
            [status |-> "OPENED", node |-> node, readable |-> r, writable |-> w,
             count |-> File(s, t, d).count + 1])

\* Mutant: a file in use is freed at once.
fd_array_close_at_once(s, t, d) ==
    fd_array_free([s EXCEPT !.table[t].fd[d].status = "CLOSED",
                            !.table[t].fd[d].count = 0], t, d)

fd_array_close(s, t, d) ==
    LET c == Checked(s, /\ File(s, t, d).status = "OPENED"
                        /\ File(s, t, d).count > 0, "fd_array_close")
    IN  fopen_count_dec([c EXCEPT !.table[t].fd[d].status = "CLOSED"], t, d)

\* Entry d of t becomes a copy of the file from.
fd_array_dup(s, t, d, from) ==
    LET c == Checked(s, from.status = "OPENED", "fd_array_dup")
        e == inode_open_inc(inode_ref_inc(c, from.node), from.node)
    IN  fd_array_open(e, t, d, from.node, from.readable, from.writable)

\* Close the opened files of t among the descriptors from d on.
CloseFrom(s, t, d) ==
    LET closed[e \in d..NFD] ==
          IF e = d THEN s
          ELSE IF File(closed[e - 1], t, e - 1).status = "OPENED"
            THEN fd_array_close(closed[e - 1], t, e - 1)
          ELSE closed[e - 1]
    IN  closed[NFD]

files_destroy(s, t) ==
    LET p == s.table[t].pwd
        e == CloseFrom(IF p = NULL THEN s ELSE inode_ref_dec(s, p), t, 0)
        c == Checked(e, \A d \in FD : File(e, t, d).status = "NONE",
                     "files_destroy")
    IN  [c EXCEPT !.table[t] = files_create]

dup_files(s, to, from) ==
    LET pwd == s.table[from].pwd
        start == IF pwd = NULL THEN s ELSE inode_ref_inc(s, pwd)
        copied[e \in 0..NFD] ==
          IF e = 0 THEN [start EXCEPT !.table[to].pwd = pwd]
          ELSE IF File(s, from, e - 1).status = "OPENED"
            THEN fd_array_dup(SetFile(copied[e - 1], to, e - 1,
                                      [NoFile EXCEPT !.status = "INIT"]),
                              to, e - 1, File(s, from, e - 1))
          ELSE copied[e - 1]
    IN  copied[NFD]

\* The process p drops its files_struct; the last one destroys it.
put_files(s, t) ==
    LET e == [s EXCEPT !.table[t].count = @ - 1]
    IN  IF e.table[t].count = 0 THEN files_destroy(e, t) ELSE e

-----------------------------------------------------------------------------
(* vfs_open *)

\* vop_open: a directory is only read; the console wants O_RDONLY alone.
OpenAllowed(i, f) ==
    /\ i \in Dirs => ~f.mode.write
    /\ i \in Stdins => ~(f.mode.write \/ f.create \/ f.excl \/ f.trunc)

\* The outcomes of vfs_open: the new state, and whether there is an inode.
\* ok is FALSE when the disk fails the truncation.
vfs_open(s, i, f, ok) ==
    LET found  == inode_ref_inc(s, i)
        opened == inode_open_inc(vop(found, i, "open"), i)
        cut    == vop(opened, i, "truncate")
    IN  IF f.trunc /\ ~f.mode.write THEN [state |-> s, ok |-> FALSE]
        ELSE IF i = "missing"
          THEN [state |-> IF f.create THEN vop(s, root, "create") ELSE s,
                ok    |-> FALSE]
        ELSE IF f.excl /\ f.create THEN [state |-> found, ok |-> FALSE]
        ELSE IF ~OpenAllowed(i, f)
          THEN [state |-> inode_ref_dec(vop(found, i, "open"), i), ok |-> FALSE]
        ELSE IF ~(f.trunc \/ f.create) THEN [state |-> opened, ok |-> TRUE]
        ELSE IF ok THEN [state |-> cut, ok |-> TRUE]
        ELSE [state |-> vfs_close(cut, i), ok |-> FALSE]

\* The reference of vfs_lookup that the return -E_EXISTS forgets.
Forgets(i, f) ==
    i # "missing" /\ f.excl /\ f.create /\ ~(f.trunc /\ ~f.mode.write)

-----------------------------------------------------------------------------

\* One process, in the root directory, without open files.
Init ==
    \E p \in Procs, t \in Tables :
      /\ inode = [i \in Inodes |->
                    [ref  |-> IF i = root THEN 2 ELSE IF i \in Stdins THEN 1 ELSE 0,
                     open |-> 0]]
      /\ table = [u \in Tables |->
                    IF u = t THEN [files_create EXCEPT !.count = 1, !.pwd = root]
                    ELSE files_create]
      /\ filesp = [q \in Procs |-> IF q = p THEN t ELSE NULL]
      /\ alive = {p} /\ mm = {p}
      /\ pc = [q \in Procs |-> User]
      /\ panic = "none"
      /\ lost = [i \in Inodes |-> 0]

Become(s) == inode' = s.inode /\ table' = s.table /\ panic' = s.panic

Ready(p) == panic = "none" /\ p \in alive /\ pc[p] = User

Opened(p, d) == table[filesp[p]].fd[d].status = "OPENED"

\* file_open up to vfs_open; without a free descriptor nothing happens.
OpenStart(p, i, f) ==
    LET t == filesp[p]
        d == NO_FD(Now, t)
    IN  /\ Ready(p)
        /\ d # NFD
        /\ Become(fd_array_alloc(Now, t, d))
        /\ pc' = [pc EXCEPT ![p] = [op |-> "open", fd |-> d, node |-> i, flags |-> f]]
        /\ UNCHANGED << filesp, alive, mm, lost >>

\* The rest of file_open for descriptor d of t.
file_open(s, t, d, i, f, ok) ==
    LET r == vfs_open(s, i, f, ok)
    IN  IF r.ok THEN fd_array_open(r.state, t, d, i, f.mode.read, f.mode.write)
        ELSE fd_array_free(r.state, t, d)

OpenFinish(p, ok) ==
    LET i == pc[p].node
        f == pc[p].flags
    IN  /\ panic = "none" /\ pc[p].op = "open"
        /\ Forgets(i, f) => lost[i] < MAX_LOST
        /\ Become(file_open(Now, filesp[p], pc[p].fd, i, f, ok))
        /\ lost' = IF Forgets(i, f) THEN [lost EXCEPT ![i] = @ + 1] ELSE lost
        /\ pc' = [pc EXCEPT ![p] = User]
        /\ UNCHANGED << filesp, alive, mm >>

\* file_read, file_write, file_seek, file_fstat, file_fsync, file_getdirentry,
\* up to the operation of the inode.
UseStart(p, d, op) ==
    LET t == filesp[p]
        a == fd_array_acquire(Now, t, d)
    IN  /\ Ready(p) /\ Opened(p, d)
        /\ op = "read" => table[t].fd[d].readable
        /\ op = "write" => table[t].fd[d].writable
        /\ Become(vop(a, table[t].fd[d].node, op))
        /\ pc' = [pc EXCEPT ![p] = [User EXCEPT !.op = "use", !.fd = d]]
        /\ UNCHANGED << filesp, alive, mm, lost >>

UseEnd(p) ==
    /\ panic = "none" /\ pc[p].op = "use"
    /\ Become(fd_array_release(Now, filesp[p], pc[p].fd))
    /\ pc' = [pc EXCEPT ![p] = User]
    /\ UNCHANGED << filesp, alive, mm, lost >>

Close(p, d) ==
    /\ Ready(p) /\ Opened(p, d)
    /\ Become(fd_array_close(Now, filesp[p], d))
    /\ UNCHANGED << filesp, alive, mm, pc, lost >>

\* e is a free descriptor: the one asked for, or the lowest.
Dup(p, d, e) ==
    LET t == filesp[p]
    IN  /\ Ready(p) /\ Opened(p, d)
        /\ table[t].fd[e].status = "NONE"
        /\ Become(fd_array_dup(fd_array_alloc(Now, t, e), t, e, table[t].fd[d]))
        /\ UNCHANGED << filesp, alive, mm, pc, lost >>

\* vop_gettype in set_curdir.
CanBeCurrent(i) == i \in Dirs

\* vfs_chdir; set_curdir does nothing when the directory is the old one.
Chdir(p, i) ==
    LET t    == filesp[p]
        old  == table[t].pwd
        look == inode_ref_inc(Now, i)
        set  == [inode_ref_inc(look, i) EXCEPT !.table[t].pwd = i]
    IN  /\ Ready(p)
        /\ IF CanBeCurrent(i) /\ i # old
             THEN Become(inode_ref_dec(inode_ref_dec(set, old), i))
             ELSE Become(inode_ref_dec(look, i))
        /\ UNCHANGED << filesp, alive, mm, pc, lost >>

-----------------------------------------------------------------------------
(* Processes *)

\* copy_files in do_fork.
Fork(p, c, flags) ==
    /\ Ready(p) /\ c \notin alive
    /\ \E t \in Tables :
         /\ IF "CLONE_FS" \in flags
              THEN /\ t = filesp[p] /\ table[t].count < MAX_COUNT
                   /\ Become([Now EXCEPT !.table[t].count = @ + 1])
              ELSE /\ table[t].count = 0
                   /\ Become([dup_files(Now, t, filesp[p])
                                EXCEPT !.table[t].count = @ + 1])
         /\ filesp' = [filesp EXCEPT ![c] = t]
    /\ alive' = alive \cup {c}
    /\ mm' = IF p \in mm THEN mm \cup {c} ELSE mm
    /\ UNCHANGED << pc, lost >>

\* do_exit of p when the handler has come to s; init never exits, so there is
\* another process. put_files is under the test of the mm.
do_exit(s, p, has_mm) ==
    /\ Become(IF has_mm THEN put_files(s, filesp[p]) ELSE s)
    /\ alive' = alive \ {p}
    /\ mm' = mm \ {p}
    /\ filesp' = [filesp EXCEPT ![p] = NULL]
    /\ UNCHANGED << pc, lost >>

Exit(p) ==
    /\ Ready(p) /\ alive # {p}
    /\ do_exit(Now, p, p \in mm)

\* do_execve: the program i is opened, and read as load_icode does. The mm is
\* gone by then, and stays gone when that fails; load_icode returns 0 all the
\* same where it has no memory for the program headers or a page ("silent").
Loads == {"loaded", "failed", "silent"}

Exec(p, i, loads) ==
    LET t      == filesp[p]
        clean  == CloseFrom(Now, t, 2)
        d      == NO_FD(clean, t)
        r      == file_open(fd_array_alloc(clean, t, d), t, d, i, NoFlags, TRUE)
        loaded == fd_array_close(vop(vop(r, i, "tryseek"), i, "read"), t, d)
    IN  /\ Ready(p) /\ alive # {p}
        /\ IF d = NFD THEN do_exit(clean, p, p \in mm)
           ELSE IF File(r, t, d).status # "OPENED" THEN do_exit(r, p, p \in mm)
           ELSE IF loads = "failed" THEN do_exit(loaded, p, FALSE)
           ELSE /\ Become(loaded)
                /\ mm' = IF loads = "loaded" THEN mm \cup {p} ELSE mm \ {p}
                /\ UNCHANGED << filesp, alive, pc, lost >>

Uses == {"read", "write", "fstat", "fsync", "tryseek", "getdirentry"}

Next ==
    \E p \in Procs :
      \/ \E i \in Inodes \cup {"missing"}, f \in OpenFlags : OpenStart(p, i, f)
      \/ \E ok \in BOOLEAN : OpenFinish(p, ok)
      \/ \E d \in FD, op \in Uses : UseStart(p, d, op)
      \/ UseEnd(p)
      \/ \E d \in FD : Close(p, d)
      \/ \E d, e \in FD : Dup(p, d, e)
      \/ \E i \in Inodes : Chdir(p, i)
      \/ \E c \in Procs, flags \in CloneFlags : Fork(p, c, flags)
      \/ Exit(p)
      \/ \E i \in Inodes \cup {"missing"}, loads \in Loads : Exec(p, i, loads)

Spec == Init /\ [][Next]_vars

-----------------------------------------------------------------------------
(* Properties *)

Statuses == {"NONE", "INIT", "OPENED", "CLOSED"}

TypeOK ==
    /\ inode \in [Inodes -> [ref : Nat, open : Nat]]
    /\ \A t \in Tables :
         /\ table[t].count \in 0..MAX_COUNT
         /\ table[t].pwd \in Dirs \cup {NULL}
         /\ \A d \in FD : /\ table[t].fd[d].status \in Statuses
                          /\ table[t].fd[d].node \in Inodes \cup {NULL}
                          /\ table[t].fd[d].count \in 0..Cardinality(Procs) + 1
    /\ filesp \in [Procs -> Tables \cup {NULL}]
    /\ alive \subseteq Procs /\ mm \subseteq alive

\* The processes in the middle of an operation on descriptor d of t.
Busy(t, d, op) ==
    {p \in alive : filesp[p] = t /\ pc[p].op = op /\ pc[p].fd = d}

\* A descriptor that is closed while another thread reads from it lives on for
\* exactly as long as somebody is in the middle of an operation on it, and one
\* that is being opened belongs to one thread: whatever threads that share a
\* table do, open_count of file.h is the number of users.
EntriesExact ==
    panic = "none" =>
      \A t \in Tables, d \in FD :
        LET file == table[t].fd[d]
            used == Cardinality(Busy(t, d, "use"))
        IN  /\ file.count = used + (IF file.status = "OPENED" THEN 1 ELSE 0)
            /\ file.status = "CLOSED" => used > 0
            /\ (file.status = "INIT") = (Cardinality(Busy(t, d, "open")) = 1)

Holders(i) == {x \in Tables \X FD :
                 LET file == table[x[1]].fd[x[2]]
                 IN  file.status \in {"OPENED", "CLOSED"} /\ file.node = i}

\* An inode is reclaimed exactly when nothing refers to it: ref_count counts the
\* open files, the working directories, what the kernel holds (the boot file
\* system, the device list) and what vfs_open forgot; open_count the open files.
RefExact ==
    panic = "none" =>
      \A i \in Inodes :
        /\ inode[i].open = Cardinality(Holders(i))
        /\ inode[i].ref = Cardinality(Holders(i))
             + Cardinality({t \in Tables : table[t].pwd = i})
             + (IF i = root \/ i \in Stdins THEN 1 ELSE 0) + lost[i]

\* The asserts of file.c, fs.c and inode.c hold, for threads that share a table
\* too; all but the one of __vop_op, that an inode has the operation it is
\* asked for.
Operations ==       \* inode_ops of inode.h
    {"open", "close", "read", "write", "fstat", "fsync", "namefile", "getdirentry",
     "reclaim", "gettype", "tryseek", "truncate", "create", "lookup", "ioctl"}

AssertsHold == panic \in {"none"} \cup Operations

\* fs.c:49 calls files_destroy "Called when a proc exit": the count of a table
\* is the number of processes that have it.
FilesCounted ==
    \A t \in Tables :
      table[t].count = Cardinality({p \in alive : filesp[p] = t})

\* inode.h:101 calls an inode for reclaim when it is no longer in use.
ReclaimedWhenUnused ==
    \A i \in Files : inode[i].ref > 0 =>
      \/ Holders(i) # {}
      \/ \E p \in alive : pc[p].op = "open" /\ pc[p].node = i

\* inode.h:120 of vop_getdirentry: "On non-directory objects, return ENOTDIR."
NotADirectory == panic # "getdirentry"
=============================================================================
