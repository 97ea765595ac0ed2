-------------------------- MODULE ResourcesProofs ---------------------------
(***************************************************************************)
(* What is proved about descriptor tables and inodes: for any number of    *)
(* processes, tables, descriptors and inodes the entries of a table count  *)
(* their users, the counts of an inode are exact, and no assert fails but  *)
(* for an operation that the inode does not have.                          *)
(*                                                                         *)
(* The functions of file.c and fs.c are compositions of steps on the       *)
(* record of module OpenFiles. Good says what holds of that record between *)
(* two of them, in terms of who uses or opens an entry and what refers to  *)
(* an inode beside the tables.                                             *)
(***************************************************************************)
EXTENDS MCResources, Queues

Node == [ref : Nat, open : Nat]

Entry == [status : Statuses, node : Inodes \cup {NULL}, count : Nat,
          readable : BOOLEAN, writable : BOOLEAN]

FilesStruct == [count : Nat, pwd : Dirs \cup {NULL}, fd : [FD -> Entry]]

\* No assert has failed but for a missing operation.
State == [inode : [Inodes -> Node], table : [Tables -> FilesStruct],
          panic : {"none"} \cup Operations]

Entries == Tables \X FD

\* A file that is open, or closed and in use, refers to i.
Refers(file, i) == file.status \in {"OPENED", "CLOSED"} /\ file.node = i

HoldersIn(s, i) == {x \in Entries : Refers(s.table[x[1]].fd[x[2]], i)}

PwdsIn(s, i) == {t \in Tables : s.table[t].pwd = i}

\* An entry that n processes use, and that is being opened or not.
EntryOK(file, n, opening) ==
    /\ file.count = IF file.status = "OPENED" THEN n + 1 ELSE n
    /\ file.status = "CLOSED" => n > 0
    /\ file.status = "INIT" <=> opening
    /\ n > 0 => file.status \in {"OPENED", "CLOSED"}
    /\ file.status \in {"OPENED", "CLOSED"} => file.node \in Inodes

\* users counts the users of the entries, opening has those that are being opened,
\* and kept counts the references to the inodes that no table has.
Good(s, users, opening, kept) ==
    /\ s \in State /\ users \in [Entries -> Nat] /\ kept \in [Inodes -> Int]
    /\ \A t \in Tables, d \in FD :
         EntryOK(s.table[t].fd[d], users[<<t, d>>], <<t, d>> \in opening)
    /\ \A i \in Inodes :
         /\ s.inode[i].open = Cardinality(HoldersIn(s, i))
         /\ s.inode[i].ref = Cardinality(HoldersIn(s, i)) + Cardinality(PwdsIn(s, i)) + kept[i]
         /\ s.inode[i].open <= s.inode[i].ref

Using == [x \in Entries |-> Cardinality(Busy(x[1], x[2], "use"))]

Opening == {x \in Entries : Busy(x[1], x[2], "open") # {}}

\* What the kernel itself refers to, and what vfs_open has forgotten.
Kept == [i \in Inodes |-> (IF i = root \/ i \in Stdins THEN 1 ELSE 0) + lost[i]]

Sharers(t) == {p \in alive : filesp[p] = t}

Calls == [op : {"user", "use", "open"}, fd : FD, node : Inodes \cup {"missing", NULL},
          flags : OpenFlags \cup {NoFlags}]

ProcsOK ==
    /\ filesp \in [Procs -> Tables \cup {NULL}]
    /\ alive \subseteq Procs /\ mm \subseteq alive
    /\ lost \in [Inodes -> Nat]
    /\ pc \in [Procs -> Calls]
    /\ \A p \in Procs : pc[p].op = "open" => pc[p].node \in Inodes \cup {"missing"}
    /\ \A p \in Procs : pc[p].op # "user" => p \in alive
    /\ \A p \in alive : filesp[p] \in Tables

\* A table is there for those that have it; it is blank when nobody has.
TablesOK ==
    \A t \in Tables :
      /\ table[t].count \in 0..MAX_COUNT
      /\ Cardinality(Sharers(t)) <= table[t].count
      /\ table[t].count = 0 => table[t] = files_create
      /\ table[t].count > 0 => table[t].pwd \in Dirs

OneOpener ==
    \A x \in Entries : \A p, q \in Busy(x[1], x[2], "open") : p = q

FilesInv == ProcsOK /\ TablesOK /\ OneOpener /\ Good(Now, Using, Opening, Kept)

IInv == part = "files" => FilesInv

\* Checked of a condition that holds, and of one that says an operation exists.
LEMMA CheckedHolds ==
    ASSUME NEW s, NEW ok, ok, NEW assertion
    PROVE  Checked(s, ok, assertion) = s
BY DEF Checked

-----------------------------------------------------------------------------
(* Inodes: what the functions of inode.c and vfs_close do to the counts *)

\* How the step from s to u changes the counts of the inode i.
Moves(s, u, i, r, o) ==
    /\ u \in State /\ u.table = s.table
    /\ \A j \in Inodes : /\ u.inode[j].ref = s.inode[j].ref + (IF j = i THEN r ELSE 0)
                         /\ u.inode[j].open = s.inode[j].open + (IF j = i THEN o ELSE 0)

\* An operation leaves all counts as they are, also one that the inode lacks.
LEMMA VopMoves ==
    ASSUME NEW s \in State, NEW i \in Inodes, s.inode[i].open <= s.inode[i].ref,
           NEW op \in Operations
    PROVE  Moves(s, vop(s, i, op), i, 0, 0) /\ vop(s, i, op).inode = s.inode
<1> DEFINE c == Checked(s, op \in Ops(i), op)
<1>1. c \in State /\ c.table = s.table /\ c.inode = s.inode
  BY DEF Checked, State
<1>2. s.inode[i] \in Node
  BY DEF State
<1>3. vop(s, i, op) = c
  BY <1>1, <1>2 DEF vop, Checked, Node
<1> QED  BY <1>1, <1>3 DEF Moves, State, Node

\* inode_ref_inc adds a reference, inode_open_inc an open, and nothing else.
LEMMA RefInc ==
    ASSUME NEW s \in State, NEW i \in Inodes
    PROVE  Moves(s, inode_ref_inc(s, i), i, 1, 0)
BY DEF Moves, inode_ref_inc, State, Node

LEMMA OpenInc ==
    ASSUME NEW s \in State, NEW i \in Inodes
    PROVE  Moves(s, inode_open_inc(s, i), i, 0, 1)
BY DEF Moves, inode_open_inc, State, Node

\* Two steps on one inode add up.
LEMMA MovesTwice ==
    ASSUME NEW s \in State, NEW u, NEW v, NEW i \in Inodes,
           NEW a \in Int, NEW b \in Int, NEW c \in Int, NEW d \in Int,
           Moves(s, u, i, a, b), Moves(u, v, i, c, d)
    PROVE  Moves(s, v, i, a + c, b + d)
BY DEF Moves, State, Node

\* inode_ref_dec takes a reference off, also when it reclaims the inode.
LEMMA RefDec ==
    ASSUME NEW s \in State, NEW i \in Inodes, s.inode[i].open < s.inode[i].ref
    PROVE  Moves(s, inode_ref_dec(s, i), i, -1, 0)
<1> DEFINE t == [s EXCEPT !.inode[i].ref = @ - 1]
<1>1. s.inode[i] \in Node /\ s.inode[i].ref > 0
  BY DEF State, Node
<1>2. Moves(s, t, i, -1, 0)
  <2>1. s.inode[i].ref - 1 \in Nat
    BY <1>1 DEF Node
  <2>2. t \in State
    BY <2>1, <1>1 DEF State, Node
  <2>3. /\ t.table = s.table
        /\ t.inode[i] = [s.inode[i] EXCEPT !.ref = @ - 1]
        /\ \A j \in Inodes : j # i => t.inode[j] = s.inode[j]
    BY DEF State
  <2>4. \A j \in Inodes : s.inode[j] \in Node
    BY DEF State
  <2> HIDE DEF t
  <2> QED  BY <2>2, <2>3, <2>4 DEF Moves, Node
<1>3. Checked(s, s.inode[i].ref > 0, "inode_ref_dec") = s
  BY <1>1, CheckedHolds
<1>4. inode_ref_dec(s, i) = IF t.inode[i].ref = 0 THEN vop(t, i, "reclaim") ELSE t
  BY <1>3 DEF inode_ref_dec
<1>5. t \in State /\ t.inode[i].open <= t.inode[i].ref /\ "reclaim" \in Operations
  <2>1. t \in State
    BY <1>2 DEF Moves
  <2>2. t.inode[i].ref = s.inode[i].ref + (-1) /\ t.inode[i].open = s.inode[i].open + (0)
    BY <1>2 DEF Moves
  <2> HIDE DEF t
  <2> QED  BY <2>1, <2>2, <1>1 DEF Node, Operations
<1>6. Moves(t, vop(t, i, "reclaim"), i, 0, 0)
  BY <1>5, VopMoves
<1> HIDE DEF t
<1>7. Moves(s, vop(t, i, "reclaim"), i, -1 + 0, 0 + 0)
  BY <1>2, <1>6, MovesTwice
<1> QED  BY <1>2, <1>4, <1>7

\* inode_open_dec takes an open off, also when it closes the inode.
LEMMA OpenDec ==
    ASSUME NEW s \in State, NEW i \in Inodes, s.inode[i].open > 0,
           s.inode[i].open <= s.inode[i].ref
    PROVE  Moves(s, inode_open_dec(s, i), i, 0, -1)
<1> DEFINE t == [s EXCEPT !.inode[i].open = @ - 1]
<1>1. s.inode[i] \in Node
  BY DEF State, Node
<1>2. Moves(s, t, i, 0, -1)
  <2>1. s.inode[i].open - 1 \in Nat
    BY <1>1 DEF Node
  <2>2. t \in State
    BY <2>1, <1>1 DEF State, Node
  <2>3. /\ t.table = s.table
        /\ t.inode[i] = [s.inode[i] EXCEPT !.open = @ - 1]
        /\ \A j \in Inodes : j # i => t.inode[j] = s.inode[j]
    BY DEF State
  <2>4. \A j \in Inodes : s.inode[j] \in Node
    BY DEF State
  <2> HIDE DEF t
  <2> QED  BY <2>2, <2>3, <2>4 DEF Moves, Node
<1>3. Checked(s, s.inode[i].open > 0, "inode_open_dec") = s
  BY <1>1, CheckedHolds
<1>4. inode_open_dec(s, i) = IF t.inode[i].open = 0 THEN vop(t, i, "close") ELSE t
  BY <1>3 DEF inode_open_dec
<1>5. t \in State /\ t.inode[i].open <= t.inode[i].ref /\ "close" \in Operations
  <2>1. t \in State
    BY <1>2 DEF Moves
  <2>2. t.inode[i].ref = s.inode[i].ref + (0) /\ t.inode[i].open = s.inode[i].open + (-1)
    BY <1>2 DEF Moves
  <2> HIDE DEF t
  <2> QED  BY <2>1, <2>2, <1>1 DEF Node, Operations
<1>6. Moves(t, vop(t, i, "close"), i, 0, 0)
  BY <1>5, VopMoves
<1> HIDE DEF t
<1>7. Moves(s, vop(t, i, "close"), i, 0 + 0, -1 + 0)
  BY <1>2, <1>6, MovesTwice
<1> QED  BY <1>2, <1>4, <1>7

\* vfs_close takes one of each: the open first, so that there is no moment with
\* more opens than references.
LEMMA VfsClose ==
    ASSUME NEW s \in State, NEW i \in Inodes, s.inode[i].open > 0,
           s.inode[i].open <= s.inode[i].ref
    PROVE  Moves(s, vfs_close(s, i), i, -1, -1)
<1> DEFINE u == inode_open_dec(s, i)
<1>1. Moves(s, u, i, 0, -1)
  BY OpenDec
<1>2. u \in State /\ u.inode[i].open < u.inode[i].ref
  BY <1>1 DEF Moves, State, Node
<1>3. Moves(u, inode_ref_dec(u, i), i, -1, 0)
  BY <1>2, RefDec
<1>4. Moves(s, inode_ref_dec(u, i), i, 0 + (-1), (-1) + 0)
  BY <1>1, <1>3, MovesTwice
<1> QED  BY <1>4 DEF vfs_close

-----------------------------------------------------------------------------
(* An entry, or the directory of a table, changes hands *)

\* Two sets that differ in one element at most.
LEMMA OneElement ==
    ASSUME NEW A, IsFiniteSet(A), NEW B, NEW x,
           \A y : y # x => (y \in A <=> y \in B)
    PROVE  /\ IsFiniteSet(B) /\ Cardinality(A) \in Nat /\ Cardinality(B) \in Nat
           /\ Cardinality(B) + (IF x \in A THEN 1 ELSE 0)
                = Cardinality(A) + (IF x \in B THEN 1 ELSE 0)
<1>0. Cardinality(A) \in Nat
  BY FS_CardinalityType
<1>1. CASE x \in A <=> x \in B
  BY <1>0, <1>1, A = B
<1>2. CASE x \in A /\ x \notin B
  <2>1. B = A \ {x}
    BY <1>2
  <2>2. IsFiniteSet(B) /\ Cardinality(B) = Cardinality(A) - 1
    BY <2>1, <1>2, FS_RemoveElement
  <2>3. Cardinality(B) \in Nat
    BY <2>2, FS_CardinalityType
  <2> QED  BY <1>0, <1>2, <2>2, <2>3
<1>3. CASE x \notin A /\ x \in B
  <2>1. B = A \cup {x}
    BY <1>3
  <2>2. IsFiniteSet(B) /\ Cardinality(B) = Cardinality(A) + 1
    BY <2>1, <1>3, FS_AddElement
  <2> QED  BY <1>0, <1>3, <2>2
<1> QED  BY <1>1, <1>2, <1>3

\* There are finitely many entries, since tables and descriptors are finite.
LEMMA FiniteEntries == IsFiniteSet(Entries) /\ IsFiniteSet(FD)
<1>1. IsFiniteSet(0..NFD - 1)
  BY OpenFilesAssumption, FS_Interval
<1> QED  BY <1>1, OpenFilesAssumption, FS_Product DEF Entries, FD

\* What refers to an inode can be counted.
LEMMA FiniteHolders ==
    ASSUME NEW s, NEW i
    PROVE  /\ IsFiniteSet(HoldersIn(s, i)) /\ Cardinality(HoldersIn(s, i)) \in Nat
           /\ IsFiniteSet(PwdsIn(s, i)) /\ Cardinality(PwdsIn(s, i)) \in Nat
<1>1. HoldersIn(s, i) \subseteq Entries /\ PwdsIn(s, i) \subseteq Tables
  BY DEF HoldersIn, PwdsIn
<1> QED  BY <1>1, FiniteEntries, OpenFilesAssumption, FS_Subset, FS_CardinalityType

\* The entry <<t, d>> becomes file in the step from s to u.
Becomes(s, u, t, d, file) == u \in State /\ u.table = [s.table EXCEPT ![t].fd[d] = file]

\* What a step that changes one entry leaves of the others.
LEMMA BecomesAt ==
    ASSUME NEW s \in State, NEW u, NEW t \in Tables, NEW d \in FD, NEW file,
           Becomes(s, u, t, d, file)
    PROVE  /\ u.table[t].fd[d] = file
           /\ \A c \in Tables, e \in FD :
                <<c, e>> # <<t, d>> => u.table[c].fd[e] = s.table[c].fd[e]
           /\ \A c \in Tables : u.table[c].pwd = s.table[c].pwd
           /\ \A c \in Tables : u.table[c].count = s.table[c].count
           /\ \A c \in Tables : c # t => u.table[c] = s.table[c]
<1>1. s.table \in [Tables -> FilesStruct]
  BY DEF State
<1>2. u.table = [s.table EXCEPT ![t] = [s.table[t] EXCEPT !.fd = [s.table[t].fd EXCEPT ![d] = file]]]
  BY DEF Becomes
<1>3. s.table[t] \in FilesStruct /\ s.table[t].fd \in [FD -> Entry]
  BY <1>1 DEF FilesStruct
<1>4. u.table[t] = [s.table[t] EXCEPT !.fd = [s.table[t].fd EXCEPT ![d] = file]]
  BY <1>1, <1>2
<1>5. u.table[t].fd = [s.table[t].fd EXCEPT ![d] = file]
  BY <1>3, <1>4 DEF FilesStruct
<1>6. u.table[t].pwd = s.table[t].pwd /\ u.table[t].count = s.table[t].count
  BY <1>3, <1>4 DEF FilesStruct
<1>7. \A c \in Tables : c # t => u.table[c] = s.table[c]
  BY <1>1, <1>2
<1> QED  BY <1>3, <1>5, <1>6, <1>7

Bit(b) == IF b THEN 1 ELSE 0

\* One entry changes, the counts of the inodes follow it, and whoever uses the
\* entry or opens it is accounted for.
LEMMA EntryChange ==
    ASSUME NEW s, NEW users, NEW opening, NEW kept, Good(s, users, opening, kept),
           NEW u, NEW t \in Tables, NEW d \in FD, NEW file,
           Becomes(s, u, t, d, file),
           NEW users2 \in [Entries -> Nat], NEW opening2, NEW kept2 \in [Inodes -> Int],
           \A x \in Entries : x # <<t, d>> => users2[x] = users[x]
                                             /\ (x \in opening2 <=> x \in opening),
           EntryOK(file, users2[<<t, d>>], <<t, d>> \in opening2),
           \A i \in Inodes :
             /\ kept2[i] >= kept[i]
             /\ u.inode[i].open + Bit(Refers(s.table[t].fd[d], i))
                  = s.inode[i].open + Bit(Refers(file, i))
             /\ u.inode[i].ref + Bit(Refers(s.table[t].fd[d], i)) + kept[i]
                  = s.inode[i].ref + Bit(Refers(file, i)) + kept2[i]
    PROVE  Good(u, users2, opening2, kept2)
<1>0. s \in State /\ u \in State
  BY DEF Good, Becomes
<1>1. /\ u.table[t].fd[d] = file
      /\ \A c \in Tables, e \in FD :
           <<c, e>> # <<t, d>> => u.table[c].fd[e] = s.table[c].fd[e]
      /\ \A c \in Tables : u.table[c].pwd = s.table[c].pwd
  BY <1>0, BecomesAt
<1>2. ASSUME NEW c \in Tables, NEW e \in FD
      PROVE  EntryOK(u.table[c].fd[e], users2[<<c, e>>], <<c, e>> \in opening2)
  <2>1. CASE <<c, e>> = <<t, d>>
    BY <1>1, <2>1
  <2>2. CASE <<c, e>> # <<t, d>>
    <3>1. <<c, e>> \in Entries
      BY DEF Entries
    <3>2. /\ users2[<<c, e>>] = users[<<c, e>>]
          /\ <<c, e>> \in opening2 <=> <<c, e>> \in opening
          /\ u.table[c].fd[e] = s.table[c].fd[e]
      BY <1>1, <2>2, <3>1
    <3>3. EntryOK(s.table[c].fd[e], users[<<c, e>>], <<c, e>> \in opening)
      BY DEF Good
    <3> QED  BY <3>2, <3>3 DEF EntryOK
  <2> QED  BY <2>1, <2>2
<1>3. ASSUME NEW i \in Inodes
      PROVE  /\ u.inode[i].open = Cardinality(HoldersIn(u, i))
             /\ u.inode[i].ref
                  = Cardinality(HoldersIn(u, i)) + Cardinality(PwdsIn(u, i)) + kept2[i]
             /\ u.inode[i].open <= u.inode[i].ref
  <2> DEFINE A == HoldersIn(s, i)
             B == HoldersIn(u, i)
             x == <<t, d>>
             a == Bit(Refers(s.table[t].fd[d], i))
             b == Bit(Refers(file, i))
  <2>1. PwdsIn(u, i) = PwdsIn(s, i)
    BY <1>1 DEF PwdsIn
  <2>2. ASSUME NEW y, y # x PROVE y \in A <=> y \in B
    <3>1. CASE y \in Entries
      <4>1. y[1] \in Tables /\ y[2] \in FD /\ <<y[1], y[2]>> = y
        BY <3>1 DEF Entries
      <4>2. u.table[y[1]].fd[y[2]] = s.table[y[1]].fd[y[2]]
        BY <1>1, <2>2, <4>1
      <4> QED  BY <4>2 DEF HoldersIn
    <3>2. CASE y \notin Entries
      BY <3>2 DEF HoldersIn
    <3> QED  BY <3>1, <3>2
  <2>3. x \in Entries /\ x[1] = t /\ x[2] = d
    BY DEF Entries
  <2>4. (x \in A <=> Refers(s.table[t].fd[d], i)) /\ (x \in B <=> Refers(file, i))
    BY <1>1, <2>3 DEF HoldersIn
  <2>5. /\ Cardinality(A) \in Nat /\ Cardinality(B) \in Nat
        /\ Cardinality(B) + (IF x \in A THEN 1 ELSE 0)
             = Cardinality(A) + (IF x \in B THEN 1 ELSE 0)
    <3> HIDE DEF A, B, x
    <3>1. IsFiniteSet(A)
      BY FiniteHolders DEF A
    <3> QED  BY <3>1, <2>2, OneElement
  <2>6. Cardinality(B) + a = Cardinality(A) + b /\ a \in Nat /\ b \in Nat
    BY <2>4, <2>5 DEF Bit
  <2>7. /\ s.inode[i].open = Cardinality(A)
        /\ s.inode[i].ref = Cardinality(A) + Cardinality(PwdsIn(s, i)) + kept[i]
        /\ s.inode[i].open <= s.inode[i].ref
        /\ kept[i] \in Int /\ kept2[i] \in Int
    BY DEF Good
  <2>8. /\ kept2[i] >= kept[i]
        /\ u.inode[i].open + a = s.inode[i].open + b
        /\ u.inode[i].ref + a + kept[i] = s.inode[i].ref + b + kept2[i]
    OBVIOUS
  <2>9. /\ u.inode[i].open \in Nat /\ u.inode[i].ref \in Nat
        /\ s.inode[i].open \in Nat /\ s.inode[i].ref \in Nat
    BY <1>0 DEF State, Node
  <2>10. Cardinality(PwdsIn(s, i)) \in Nat
    BY FiniteHolders
  <2> HIDE DEF A, B, a, b
  <2>11. Cardinality(B) = u.inode[i].open
    BY <2>5, <2>6, <2>7, <2>8, <2>9
  <2>12. u.inode[i].ref = Cardinality(B) + Cardinality(PwdsIn(s, i)) + kept2[i]
    BY <2>5, <2>6, <2>7, <2>8, <2>9, <2>10
  <2>13. u.inode[i].open <= u.inode[i].ref
    BY <2>6, <2>7, <2>8, <2>9
  <2> QED  BY <2>1, <2>11, <2>12, <2>13 DEF B
<1> QED  BY <1>0, <1>2, <1>3 DEF Good

\* A working directory changes, and the counts of the inodes with it; entries that
\* are free may be wiped.
LEMMA PwdChange ==
    ASSUME NEW s, NEW users, NEW opening, NEW kept, Good(s, users, opening, kept),
           NEW u \in State, NEW t \in Tables, NEW kept2 \in [Inodes -> Int],
           \A c \in Tables, e \in FD :
             \/ u.table[c].fd[e] = s.table[c].fd[e]
             \/ u.table[c].fd[e] = NoFile /\ s.table[c].fd[e].status = "NONE",
           \A c \in Tables : c # t => u.table[c].pwd = s.table[c].pwd,
           \A i \in Inodes :
             /\ u.inode[i].open = s.inode[i].open
             /\ u.inode[i].open <= u.inode[i].ref
             /\ u.inode[i].ref + Bit(s.table[t].pwd = i) + kept[i]
                  = s.inode[i].ref + Bit(u.table[t].pwd = i) + kept2[i]
    PROVE  Good(u, users, opening, kept2)
<1>1. ASSUME NEW c \in Tables, NEW e \in FD
      PROVE  EntryOK(u.table[c].fd[e], users[<<c, e>>], <<c, e>> \in opening)
  <2>1. EntryOK(s.table[c].fd[e], users[<<c, e>>], <<c, e>> \in opening)
        /\ users[<<c, e>>] \in Nat
    BY DEF Good, Entries
  <2>2. CASE u.table[c].fd[e] = s.table[c].fd[e]
    BY <2>1, <2>2
  <2>3. CASE u.table[c].fd[e] = NoFile /\ s.table[c].fd[e].status = "NONE"
    BY <2>1, <2>3 DEF EntryOK, NoFile
  <2> QED  BY <2>2, <2>3
<1>2. ASSUME NEW i \in Inodes
      PROVE  /\ u.inode[i].open = Cardinality(HoldersIn(u, i))
             /\ u.inode[i].ref
                  = Cardinality(HoldersIn(u, i)) + Cardinality(PwdsIn(u, i)) + kept2[i]
             /\ u.inode[i].open <= u.inode[i].ref
  <2> DEFINE A == PwdsIn(s, i)
             B == PwdsIn(u, i)
             a == Bit(s.table[t].pwd = i)
             b == Bit(u.table[t].pwd = i)
  <2>1. HoldersIn(u, i) = HoldersIn(s, i)
    <3>1. ASSUME NEW c \in Tables, NEW e \in FD
          PROVE  Refers(u.table[c].fd[e], i) <=> Refers(s.table[c].fd[e], i)
      BY DEF Refers, NoFile
    <3> QED  BY <3>1 DEF HoldersIn, Entries
  <2>2. \A y : y # t => (y \in A <=> y \in B)
    BY DEF PwdsIn
  <2>3. (t \in A <=> s.table[t].pwd = i) /\ (t \in B <=> u.table[t].pwd = i)
    BY DEF PwdsIn
  <2>4. /\ Cardinality(A) \in Nat /\ Cardinality(B) \in Nat
        /\ Cardinality(B) + (IF t \in A THEN 1 ELSE 0)
             = Cardinality(A) + (IF t \in B THEN 1 ELSE 0)
    <3> HIDE DEF A, B
    <3>1. IsFiniteSet(A)
      BY FiniteHolders DEF A
    <3> QED  BY <3>1, <2>2, OneElement
  <2>5. Cardinality(B) + a = Cardinality(A) + b /\ a \in Nat /\ b \in Nat
    BY <2>3, <2>4 DEF Bit
  <2>6. /\ s.inode[i].open = Cardinality(HoldersIn(s, i))
        /\ s.inode[i].ref = Cardinality(HoldersIn(s, i)) + Cardinality(A) + kept[i]
        /\ kept[i] \in Int /\ kept2[i] \in Int
    BY DEF Good
  <2>7. /\ u.inode[i].open = s.inode[i].open
        /\ u.inode[i].ref + a + kept[i] = s.inode[i].ref + b + kept2[i]
    OBVIOUS
  <2>8. /\ u.inode[i].ref \in Nat /\ s.inode[i].ref \in Nat
    BY DEF Good, State, Node
  <2>9. Cardinality(HoldersIn(s, i)) \in Nat
    BY FiniteHolders
  <2> HIDE DEF A, B, a, b
  <2>10. u.inode[i].ref = Cardinality(HoldersIn(s, i)) + Cardinality(B) + kept2[i]
    BY <2>4, <2>5, <2>6, <2>7, <2>8, <2>9
  <2> QED  BY <2>1, <2>6, <2>7, <2>10 DEF B
<1> QED  BY <1>1, <1>2 DEF Good

\* An inode whose counts do not change between s and u.
LEMMA Unmoved ==
    ASSUME NEW s, NEW users, NEW opening, NEW kept, Good(s, users, opening, kept),
           NEW u, NEW i \in Inodes, Moves(s, u, i, 0, 0)
    PROVE  Good(u, users, opening, kept)
<1>1. \A j \in Inodes : /\ u.inode[j].open = s.inode[j].open
                        /\ u.inode[j].ref = s.inode[j].ref
  BY DEF Good, Moves, State, Node
<1>2. u.table = s.table /\ u \in State
  BY DEF Moves
<1>3. \A j : HoldersIn(u, j) = HoldersIn(s, j) /\ PwdsIn(u, j) = PwdsIn(s, j)
  BY <1>2 DEF HoldersIn, PwdsIn
<1> QED  BY <1>1, <1>2, <1>3 DEF Good

\* An operation on an inode disturbs nothing.
LEMMA VopGood ==
    ASSUME NEW s, NEW users, NEW opening, NEW kept, Good(s, users, opening, kept),
           NEW i \in Inodes, NEW op \in Operations
    PROVE  /\ Good(vop(s, i, op), users, opening, kept)
           /\ vop(s, i, op).table = s.table
<1>1. Moves(s, vop(s, i, op), i, 0, 0)
  BY VopMoves DEF Good
<1> QED  BY <1>1, Unmoved DEF Moves

\* An inode that an entry refers to is open.
LEMMA HeldIsOpen ==
    ASSUME NEW s, NEW users, NEW opening, NEW kept, Good(s, users, opening, kept),
           NEW t \in Tables, NEW d \in FD, NEW i \in Inodes, Refers(s.table[t].fd[d], i)
    PROVE  s.inode[i].open > 0 /\ s.inode[i].open <= s.inode[i].ref
<1>1. <<t, d>> \in HoldersIn(s, i)
  BY DEF HoldersIn, Entries
<1>2. Cardinality(HoldersIn(s, i)) # 0
  BY <1>1, FiniteHolders, FS_EmptySet
<1>3. Cardinality(HoldersIn(s, i)) \in Nat
  BY FiniteHolders
<1> QED  BY <1>2, <1>3 DEF Good

\* The later of two changes of one entry counts.
LEMMA BecomesTwice ==
    ASSUME NEW s \in State, NEW u, NEW v, NEW t \in Tables, NEW d \in FD, NEW f, NEW g,
           Becomes(s, u, t, d, f), Becomes(u, v, t, d, g)
    PROVE  Becomes(s, v, t, d, g)
<1>1. u \in State /\ v \in State
  BY DEF Becomes
<1>2. /\ s.table \in [Tables -> FilesStruct] /\ u.table \in [Tables -> FilesStruct]
      /\ v.table \in [Tables -> FilesStruct]
  BY <1>1 DEF State
<1> DEFINE w == [s.table EXCEPT ![t].fd[d] = g]
<1>3. u.table[t] = [s.table[t] EXCEPT !.fd[d] = f]
  BY <1>2 DEF Becomes
<1>4. v.table[t] = [u.table[t] EXCEPT !.fd[d] = g]
  BY <1>2 DEF Becomes
<1>5. s.table[t] \in FilesStruct /\ s.table[t].fd \in [FD -> Entry]
  BY <1>2 DEF FilesStruct
<1>6. v.table[t] = [s.table[t] EXCEPT !.fd[d] = g]
  BY <1>3, <1>4, <1>5 DEF FilesStruct
<1>7. \A c \in Tables : c # t => v.table[c] = s.table[c]
  BY <1>2 DEF Becomes
<1>8. v.table = w
  <2>1. \A c \in Tables : v.table[c] = w[c]
    BY <1>2, <1>6, <1>7
  <2>2. v.table = [c \in Tables |-> v.table[c]]
    BY <1>2
  <2>3. w = [c \in Tables |-> w[c]]
    BY <1>2
  <2> QED  BY <2>1, <2>2, <2>3
<1> QED  BY <1>1, <1>8 DEF Becomes

\* SetFile changes that entry and the tables only.
LEMMA SetFileBecomes ==
    ASSUME NEW s \in State, NEW t \in Tables, NEW d \in FD, NEW file \in Entry
    PROVE  /\ Becomes(s, SetFile(s, t, d, file), t, d, file)
           /\ SetFile(s, t, d, file).inode = s.inode
<1>1. s.table \in [Tables -> FilesStruct]
  BY DEF State
<1>2. [s.table EXCEPT ![t].fd[d] = file] \in [Tables -> FilesStruct]
  BY <1>1 DEF FilesStruct
<1> QED  BY <1>1, <1>2 DEF SetFile, Becomes, State

\* An entry of a table is one.
LEMMA EntryType ==
    ASSUME NEW s \in State, NEW t \in Tables, NEW d \in FD
    PROVE  s.table[t].fd[d] \in Entry /\ s.inode \in [Inodes -> Node]
BY DEF State, FilesStruct

\* So is a free one.
LEMMA NoFileIsEntry ==
    NoFile \in Entry /\ [NoFile EXCEPT !.status = "INIT"] \in Entry
BY DEF NoFile, Entry, Statuses

\* The step of an entry from s to u, where the inodes stay.
LEMMA EntrySet ==
    ASSUME NEW s, NEW users, NEW opening, NEW kept, Good(s, users, opening, kept),
           NEW t \in Tables, NEW d \in FD, NEW file \in Entry,
           \A i \in Inodes : Refers(file, i) <=> Refers(s.table[t].fd[d], i),
           NEW users2 \in [Entries -> Nat], NEW opening2,
           \A x \in Entries : x # <<t, d>> => users2[x] = users[x]
                                             /\ (x \in opening2 <=> x \in opening),
           EntryOK(file, users2[<<t, d>>], <<t, d>> \in opening2)
    PROVE  Good(SetFile(s, t, d, file), users2, opening2, kept)
<1> DEFINE u == SetFile(s, t, d, file)
<1>1. s \in State /\ kept \in [Inodes -> Int]
  BY DEF Good
<1>2. Becomes(s, u, t, d, file) /\ u.inode = s.inode
  BY <1>1, SetFileBecomes
<1>3. \A i \in Inodes :
        /\ kept[i] >= kept[i]
        /\ u.inode[i].open + Bit(Refers(s.table[t].fd[d], i))
             = s.inode[i].open + Bit(Refers(file, i))
        /\ u.inode[i].ref + Bit(Refers(s.table[t].fd[d], i)) + kept[i]
             = s.inode[i].ref + Bit(Refers(file, i)) + kept[i]
  <2> HIDE DEF u
  <2>1. \A i \in Inodes : Bit(Refers(file, i)) = Bit(Refers(s.table[t].fd[d], i))
    BY DEF Bit
  <2>2. \A i \in Inodes : kept[i] >= kept[i]
    BY <1>1
  <2> QED  BY <1>2, <2>1, <2>2
<1> HIDE DEF u
<1>4. Good(u, users2, opening2, kept)
  BY <1>1, <1>2, <1>3, EntryChange
<1> QED  BY <1>4 DEF u

\* What Good says of one entry.
LEMMA EntryAt ==
    ASSUME NEW s, NEW users, NEW opening, NEW kept, Good(s, users, opening, kept),
           NEW t \in Tables, NEW d \in FD
    PROVE  /\ s \in State /\ users \in [Entries -> Nat] /\ kept \in [Inodes -> Int]
           /\ s.table[t].fd[d] \in Entry /\ <<t, d>> \in Entries
           /\ users[<<t, d>>] \in Nat
           /\ EntryOK(s.table[t].fd[d], users[<<t, d>>], <<t, d>> \in opening)
BY EntryType DEF Good, Entries

-----------------------------------------------------------------------------
(* Entries of a table: file.c *)

\* fd_array_alloc takes a free entry.
LEMMA Allocates ==
    ASSUME NEW s, NEW users, NEW opening, NEW kept, Good(s, users, opening, kept),
           NEW t \in Tables, NEW d \in FD, s.table[t].fd[d].status = "NONE"
    PROVE  LET r == fd_array_alloc(s, t, d)
               f == [NoFile EXCEPT !.status = "INIT"]
           IN  /\ r = SetFile(s, t, d, f)
               /\ Becomes(s, r, t, d, f) /\ r.inode = s.inode /\ r.panic = s.panic
               /\ Good(r, users, opening \cup {<<t, d>>}, kept)
<1> DEFINE f == [NoFile EXCEPT !.status = "INIT"]
           x == <<t, d>>
<1>1. /\ s \in State /\ s.table[t].fd[d] \in Entry /\ x \in Entries /\ users[x] \in Nat
      /\ EntryOK(s.table[t].fd[d], users[x], x \in opening)
      /\ users \in [Entries -> Nat]
  BY EntryAt
<1>2. users[x] = 0 /\ s.table[t].fd[d].count = 0
  BY <1>1 DEF EntryOK
<1>3. fd_array_alloc(s, t, d) = SetFile(s, t, d, f)
  <2>1. Checked(s, s.table[t].fd[d].count = 0, "fd_array_alloc") = s
    BY <1>2 DEF Checked
  <2> QED  BY <2>1 DEF fd_array_alloc, File
<1>4. f.status = "INIT" /\ f.count = 0 /\ f \in Entry
  BY NoFileIsEntry DEF NoFile
<1>5. \A i \in Inodes : Refers(f, i) <=> Refers(s.table[t].fd[d], i)
  BY <1>4 DEF Refers
<1>6. EntryOK(f, users[x], x \in opening \cup {x})
  BY <1>2, <1>4 DEF EntryOK
<1>7. Good(SetFile(s, t, d, f), users, opening \cup {x}, kept)
  <2> HIDE DEF f
  <2> QED  BY <1>1, <1>4, <1>5, <1>6, EntrySet
<1>8. Becomes(s, SetFile(s, t, d, f), t, d, f) /\ SetFile(s, t, d, f).inode = s.inode
  BY <1>1, <1>4, SetFileBecomes
<1>9. SetFile(s, t, d, f).panic = s.panic
  BY <1>1 DEF SetFile, State
<1> QED  BY <1>3, <1>7, <1>8, <1>9

\* fd_array_free of an entry that was only allocated.
LEMMA FreesAllocated ==
    ASSUME NEW s, NEW users, NEW opening, NEW kept, Good(s, users, opening, kept),
           NEW t \in Tables, NEW d \in FD, s.table[t].fd[d].status = "INIT"
    PROVE  LET r == fd_array_free(s, t, d)
           IN  /\ Becomes(s, r, t, d, NoFile)
               /\ Good(r, users, opening \ {<<t, d>>}, kept)
<1> DEFINE x == <<t, d>>
<1>1. /\ s \in State /\ s.table[t].fd[d] \in Entry /\ x \in Entries /\ users[x] \in Nat
      /\ EntryOK(s.table[t].fd[d], users[x], x \in opening)
      /\ users \in [Entries -> Nat]
  BY EntryAt
<1>2. users[x] = 0 /\ s.table[t].fd[d].count = 0
  BY <1>1 DEF EntryOK
<1>3. fd_array_free(s, t, d) = SetFile(s, t, d, NoFile)
  BY <1>2, CheckedHolds DEF fd_array_free, File
<1>4. NoFile.status = "NONE" /\ NoFile.count = 0 /\ NoFile \in Entry
  BY NoFileIsEntry DEF NoFile
<1>5. \A i \in Inodes : Refers(NoFile, i) <=> Refers(s.table[t].fd[d], i)
  BY <1>4 DEF Refers
<1>6. EntryOK(NoFile, users[x], x \in opening \ {x})
  BY <1>2, <1>4 DEF EntryOK
<1>7. Good(SetFile(s, t, d, NoFile), users, opening \ {x}, kept)
  BY <1>1, <1>4, <1>5, <1>6, EntrySet
<1>8. Becomes(s, SetFile(s, t, d, NoFile), t, d, NoFile)
  BY <1>1, <1>4, SetFileBecomes
<1> QED  BY <1>3, <1>7, <1>8

\* fd_array_open of an entry that was allocated, for the inode i that vfs_open
\* has just counted in the step from s to v.
LEMMA Opens ==
    ASSUME NEW s, NEW users, NEW opening, NEW kept, Good(s, users, opening, kept),
           NEW t \in Tables, NEW d \in FD, s.table[t].fd[d].status = "INIT",
           NEW i \in Inodes, NEW v, Moves(s, v, i, 1, 1), NEW r \in BOOLEAN, NEW w \in BOOLEAN
    PROVE  LET u == fd_array_open(v, t, d, i, r, w)
           IN  /\ Becomes(s, u, t, d, [status |-> "OPENED", node |-> i, readable |-> r,
                                       writable |-> w, count |-> 1])
               /\ Good(u, users, opening \ {<<t, d>>}, kept)
<1> DEFINE x == <<t, d>>
           f == [status |-> "OPENED", node |-> i, readable |-> r, writable |-> w,
                 count |-> 1]
           u == SetFile(v, t, d, f)
<1>1. /\ s \in State /\ s.table[t].fd[d] \in Entry /\ x \in Entries /\ users[x] \in Nat
      /\ EntryOK(s.table[t].fd[d], users[x], x \in opening)
      /\ users \in [Entries -> Nat] /\ kept \in [Inodes -> Int]
  BY EntryAt
<1>2. users[x] = 0 /\ s.table[t].fd[d].count = 0
  BY <1>1 DEF EntryOK
<1>3. v \in State /\ v.table = s.table
  BY DEF Moves
<1>4. fd_array_open(v, t, d, i, r, w) = u
  <2>1. v.table[t].fd[d].count = 0 /\ v.table[t].fd[d].status = "INIT"
    BY <1>2, <1>3
  <2>2. Checked(v, v.table[t].fd[d].status = "INIT", "fd_array_open") = v
    BY <2>1 DEF Checked
  <2> QED  BY <2>1, <2>2 DEF fd_array_open, File
<1>5. f \in Entry
  BY DEF Entry, Statuses
<1>6. Becomes(v, u, t, d, f) /\ u.inode = v.inode
  BY <1>3, <1>5, SetFileBecomes
<1>7. Becomes(s, u, t, d, f)
  BY <1>3, <1>6 DEF Becomes
<1>8. EntryOK(f, users[x], x \in opening \ {x})
  BY <1>2 DEF EntryOK
<1>9. \A j \in Inodes : (Refers(f, j) <=> j = i) /\ ~ Refers(s.table[t].fd[d], j)
  BY DEF Refers
<1>10. \A j \in Inodes :
         /\ kept[j] >= kept[j]
         /\ u.inode[j].open + Bit(Refers(s.table[t].fd[d], j))
              = s.inode[j].open + Bit(Refers(f, j))
         /\ u.inode[j].ref + Bit(Refers(s.table[t].fd[d], j)) + kept[j]
              = s.inode[j].ref + Bit(Refers(f, j)) + kept[j]
  <2> TAKE j \in Inodes
  <2>1. Bit(Refers(f, j)) = Bit(j = i) /\ Bit(Refers(s.table[t].fd[d], j)) = 0
    BY <1>9 DEF Bit
  <2>2. /\ u.inode[j].open = s.inode[j].open + Bit(j = i)
        /\ u.inode[j].ref = s.inode[j].ref + Bit(j = i)
    BY <1>6 DEF Moves, Bit
  <2>3. s.inode[j].open \in Nat /\ s.inode[j].ref \in Nat /\ kept[j] \in Int
    BY <1>1 DEF State, Node
  <2>4. Bit(j = i) \in Nat
    BY DEF Bit
  <2> HIDE DEF u, f
  <2> QED  BY <2>1, <2>2, <2>3, <2>4
<1> HIDE DEF u, f
<1>11. Good(u, users, opening \ {x}, kept)
  <2> DEFINE O == opening \ {x}
  <2>1. \A y \in Entries : y # x => users[y] = users[y] /\ (y \in O <=> y \in opening)
    OBVIOUS
  <2>2. EntryOK(f, users[x], x \in O)
    BY <1>8
  <2> HIDE DEF O
  <2>3. Good(u, users, O, kept)
    BY <2>1, <2>2, <1>1, <1>7, <1>10, EntryChange
  <2> QED  BY <2>3 DEF O
<1> QED  BY <1>4, <1>7, <1>11 DEF f

InUse == {"OPENED", "CLOSED"}

\* fd_array_acquire counts one more user.
LEMMA Acquires ==
    ASSUME NEW s, NEW users, NEW opening, NEW kept, Good(s, users, opening, kept),
           NEW t \in Tables, NEW d \in FD, s.table[t].fd[d].status = "OPENED"
    PROVE  LET r == fd_array_acquire(s, t, d)
           IN  /\ Becomes(s, r, t, d, [s.table[t].fd[d] EXCEPT !.count = @ + 1])
               /\ Good(r, [users EXCEPT ![<<t, d>>] = @ + 1], opening, kept)
<1> DEFINE x == <<t, d>>
           old == s.table[t].fd[d]
           f == [old EXCEPT !.count = @ + 1]
           users2 == [users EXCEPT ![x] = @ + 1]
<1>1. /\ s \in State /\ old \in Entry /\ x \in Entries /\ users[x] \in Nat
      /\ EntryOK(old, users[x], x \in opening)
      /\ users \in [Entries -> Nat]
  BY EntryAt
<1>2. fd_array_acquire(s, t, d) = SetFile(s, t, d, f)
  <2>1. Checked(s, old.status = "OPENED", "fd_array_acquire") = s
    BY DEF Checked
  <2>2. [s EXCEPT !.table[t].fd[d].count = @ + 1]
          = SetFile(s, t, d, [File(s, t, d) EXCEPT !.count = @ + 1])
    BY DEF SetFile, File
  <2> QED  BY <2>1, <2>2 DEF fd_array_acquire, File
<1>3. /\ f \in Entry /\ f.count = users[x] + 2 /\ f.status = "OPENED"
      /\ f.node = old.node
  BY <1>1 DEF Entry, EntryOK
<1>4. /\ users2 \in [Entries -> Nat] /\ users2[x] = users[x] + 1
      /\ \A y \in Entries : y # x => users2[y] = users[y]
  BY <1>1
<1>5. \A i \in Inodes : Refers(f, i) <=> Refers(old, i)
  BY <1>3 DEF Refers
<1>6. EntryOK(f, users2[x], x \in opening)
  BY <1>1, <1>3, <1>4 DEF EntryOK
<1>7. Becomes(s, SetFile(s, t, d, f), t, d, f)
  BY <1>1, <1>3, SetFileBecomes
<1> HIDE DEF f, users2
<1>8. Good(SetFile(s, t, d, f), users2, opening, kept)
  BY <1>3, <1>4, <1>5, <1>6, EntrySet
<1> QED  BY <1>2, <1>7, <1>8 DEF f, users2

\* fopen_count_dec, in the state v that differs from s in an entry in use, whose
\* count is that of one user too many: the last one frees a closed file.
LEMMA Drops ==
    ASSUME NEW s, NEW users, NEW opening, NEW kept, Good(s, users, opening, kept),
           NEW t \in Tables, NEW d \in FD, s.table[t].fd[d].status \in InUse,
           NEW file \in Entry, file.status \in InUse, file.node = s.table[t].fd[d].node,
           NEW n \in Nat, file.count = IF file.status = "OPENED" THEN n + 2 ELSE n + 1
    PROVE  LET r == fopen_count_dec(SetFile(s, t, d, file), t, d)
               f == IF n = 0 /\ file.status = "CLOSED" THEN NoFile
                    ELSE [file EXCEPT !.count = @ - 1]
           IN  /\ Becomes(s, r, t, d, f)
               /\ Good(r, [users EXCEPT ![<<t, d>>] = n], opening, kept)
<1> DEFINE x == <<t, d>>
           old == s.table[t].fd[d]
           v == SetFile(s, t, d, file)
           g == [file EXCEPT !.count = @ - 1]
           e == SetFile(v, t, d, g)
           users2 == [users EXCEPT ![x] = n]
<1>1. /\ s \in State /\ old \in Entry /\ x \in Entries /\ users[x] \in Nat
      /\ EntryOK(old, users[x], x \in opening)
      /\ users \in [Entries -> Nat] /\ kept \in [Inodes -> Int]
  BY EntryAt
<1>2. /\ users2 \in [Entries -> Nat] /\ users2[x] = n
      /\ \A y \in Entries : y # x => users2[y] = users[y]
  BY <1>1
<1>3. Becomes(s, v, t, d, file) /\ v.inode = s.inode
  BY <1>1, SetFileBecomes
<1>4. v \in State /\ v.table[t].fd[d] = file
  <2> HIDE DEF v
  <2>1. v \in State
    BY <1>3 DEF Becomes
  <2> QED  BY <2>1, <1>1, <1>3, BecomesAt
<1>5. /\ g \in Entry /\ g.status = file.status /\ g.node = file.node
      /\ g.count = file.count - 1
  BY DEF Entry
<1>6. Becomes(v, e, t, d, g) /\ e.inode = v.inode
  <2> HIDE DEF v, g
  <2> QED  BY <1>4, <1>5, SetFileBecomes
<1>7. Becomes(s, e, t, d, g) /\ e.inode = s.inode
  <2> HIDE DEF v, e, g
  <2> QED  BY <1>1, <1>3, <1>6, BecomesTwice
<1>8. e \in State /\ e.table[t].fd[d] = g
  <2> HIDE DEF e, g
  <2>1. e \in State
    BY <1>7 DEF Becomes
  <2> QED  BY <2>1, <1>1, <1>7, BecomesAt
<1>9. fopen_count_dec(v, t, d) = IF g.count = 0 THEN fd_array_free(e, t, d) ELSE e
  <2>1. [v EXCEPT !.table[t].fd[d].count = @ - 1] = e
    <3> HIDE DEF v
    <3>1. [v EXCEPT !.table[t].fd[d].count = @ - 1]
            = SetFile(v, t, d, [File(v, t, d) EXCEPT !.count = @ - 1])
      BY DEF SetFile, File
    <3>2. File(v, t, d) = file
      BY <1>4 DEF File
    <3> QED  BY <3>1, <3>2
  <2> HIDE DEF v, e, g
  <2> QED  BY <2>1, <1>8 DEF fopen_count_dec, File
<1>10. \A i \in Inodes : Refers(g, i) <=> Refers(old, i)
  BY <1>5 DEF Refers, InUse
<1>11. old.node \in Inodes /\ Refers(old, old.node) /\ x \notin opening
  BY <1>1 DEF EntryOK, Refers, InUse
<1>12. CASE g.count # 0
  <2>1. ~ (n = 0 /\ file.status = "CLOSED")
    BY <1>5, <1>12
  <2>2. EntryOK(g, users2[x], x \in opening)
    BY <1>2, <1>5, <1>11, <2>1 DEF EntryOK, InUse
  <2>3. \A i \in Inodes :
          /\ kept[i] >= kept[i]
          /\ e.inode[i].open + Bit(Refers(old, i)) = s.inode[i].open + Bit(Refers(g, i))
          /\ e.inode[i].ref + Bit(Refers(old, i)) + kept[i]
               = s.inode[i].ref + Bit(Refers(g, i)) + kept[i]
    <3> HIDE DEF e, g, old
    <3>1. \A i \in Inodes : Bit(Refers(g, i)) = Bit(Refers(old, i))
      BY <1>10 DEF Bit
    <3> QED  BY <1>1, <1>7, <3>1
  <2>4. Good(e, users2, opening, kept)
    <3> HIDE DEF e, g, users2
    <3>1. \A y \in Entries : y # x => users2[y] = users[y] /\ (y \in opening <=> y \in opening)
      BY <1>2
    <3>2. Becomes(s, e, t, d, g)
      BY <1>7
    <3>3. Good(s, users, opening, kept)
      OBVIOUS
    <3>4. \A i \in Inodes :
            /\ kept[i] >= kept[i]
            /\ e.inode[i].open + Bit(Refers(s.table[t].fd[d], i)) = s.inode[i].open + Bit(Refers(g, i))
            /\ e.inode[i].ref + Bit(Refers(s.table[t].fd[d], i)) + kept[i]
                 = s.inode[i].ref + Bit(Refers(g, i)) + kept[i]
      BY <2>3
    <3>5. EntryOK(g, users2[<<t, d>>], <<t, d>> \in opening)
      BY <2>2
    <3>6. users2 \in [Entries -> Nat] /\ kept \in [Inodes -> Int]
      BY <1>1, <1>2
    <3> QED  BY ONLY <3>1, <3>2, <3>3, <3>4, <3>5, <3>6, EntryChange
  <2> HIDE DEF v, e, users2
  <2> QED  BY <1>7, <1>9, <1>12, <2>1, <2>4 DEF users2, v
<1>13. CASE g.count = 0
  <2> DEFINE i == old.node
             w == vfs_close(e, i)
             r == SetFile(w, t, d, NoFile)
  <2>1. n = 0 /\ file.status = "CLOSED"
    BY <1>5, <1>13 DEF InUse
  <2>2. s.inode[i].open > 0 /\ s.inode[i].open <= s.inode[i].ref
    BY <1>11, HeldIsOpen
  <2>3. Moves(e, w, i, -1, -1)
    <3> HIDE DEF e
    <3> QED  BY <1>7, <1>8, <1>11, <2>2, VfsClose
  <2>4. fd_array_free(e, t, d) = r
    <3>1. g.status = "CLOSED" /\ g.node = i
      BY <1>5, <2>1
    <3> HIDE DEF e, g
    <3> QED  BY <1>8, <1>13, <3>1, CheckedHolds DEF fd_array_free, File
  <2>5. w \in State /\ w.table = e.table
    BY <2>3 DEF Moves
  <2>6. Becomes(w, r, t, d, NoFile) /\ r.inode = w.inode
    <3> HIDE DEF w
    <3> QED  BY <2>5, SetFileBecomes, NoFileIsEntry
  <2>7. Becomes(s, w, t, d, g)
    <3> HIDE DEF w, e, g
    <3> QED  BY <1>7, <2>5 DEF Becomes
  <2>8. Becomes(s, r, t, d, NoFile)
    <3> HIDE DEF w, r, g
    <3> QED  BY <1>1, <2>6, <2>7, BecomesTwice
  <2>9. EntryOK(NoFile, users2[x], x \in opening)
    BY <1>2, <1>11, <2>1 DEF EntryOK, NoFile
  <2>10. \A j \in Inodes :
           /\ kept[j] >= kept[j]
           /\ r.inode[j].open + Bit(Refers(old, j)) = s.inode[j].open + Bit(Refers(NoFile, j))
           /\ r.inode[j].ref + Bit(Refers(old, j)) + kept[j]
                = s.inode[j].ref + Bit(Refers(NoFile, j)) + kept[j]
    <3> TAKE j \in Inodes
    <3>1. Bit(Refers(NoFile, j)) = 0 /\ Bit(Refers(old, j)) = Bit(j = i) /\ Bit(j = i) \in Nat
      BY <1>11 DEF Bit, Refers, NoFile, InUse
    <3>2. /\ r.inode[j].open = s.inode[j].open + (IF j = i THEN -1 ELSE 0)
          /\ r.inode[j].ref = s.inode[j].ref + (IF j = i THEN -1 ELSE 0)
      <4> HIDE DEF w, r, e
      <4> QED  BY <1>7, <2>3, <2>6 DEF Moves
    <3>3. s.inode[j].open \in Nat /\ s.inode[j].ref \in Nat /\ kept[j] \in Int
      BY <1>1 DEF State, Node
    <3>4. (IF j = i THEN -1 ELSE 0) = 0 - Bit(j = i)
      BY DEF Bit
    <3> HIDE DEF r, old, i
    <3> QED  BY <3>1, <3>2, <3>3, <3>4
  <2>11. Good(r, users2, opening, kept)
    <3> HIDE DEF r, users2
    <3> QED  BY <1>1, <1>2, <2>8, <2>9, <2>10, EntryChange
  <2> HIDE DEF v, e, r, users2
  <2> QED  BY <1>9, <1>13, <2>1, <2>4, <2>8, <2>11 DEF users2, v
<1> QED  BY <1>12, <1>13

\* fd_array_release counts one user less.
LEMMA Releases ==
    ASSUME NEW s, NEW users, NEW opening, NEW kept, Good(s, users, opening, kept),
           NEW t \in Tables, NEW d \in FD, users[<<t, d>>] > 0
    PROVE  LET r == fd_array_release(s, t, d)
           IN  /\ \E f : Becomes(s, r, t, d, f)
               /\ Good(r, [users EXCEPT ![<<t, d>>] = @ - 1], opening, kept)
<1> DEFINE x == <<t, d>>
           old == s.table[t].fd[d]
           n == users[x] - 1
<1>1. /\ s \in State /\ old \in Entry /\ x \in Entries /\ users[x] \in Nat
      /\ EntryOK(old, users[x], x \in opening)
      /\ users \in [Entries -> Nat]
  BY EntryAt
<1>2. old.status \in InUse /\ n \in Nat /\ n + 1 = users[x]
  BY <1>1 DEF EntryOK, InUse
<1>3. old.count = IF old.status = "OPENED" THEN n + 2 ELSE n + 1
  BY <1>1, <1>2 DEF EntryOK
<1>4. old.count > 0
  BY <1>2, <1>3
<1>5. SetFile(s, t, d, old) = s
  BY <1>1 DEF SetFile, State, FilesStruct
<1>6. fd_array_release(s, t, d) = fopen_count_dec(SetFile(s, t, d, old), t, d)
  <2>1. Checked(s, old.status \in {"OPENED", "CLOSED"} /\ old.count > 0, "fd_array_release") = s
    BY <1>2, <1>4 DEF Checked, InUse
  <2> QED  BY <2>1, <1>5 DEF fd_array_release, File
<1> DEFINE r == fopen_count_dec(SetFile(s, t, d, old), t, d)
<1>7. /\ Becomes(s, r, t, d, IF n = 0 /\ old.status = "CLOSED" THEN NoFile
                             ELSE [old EXCEPT !.count = @ - 1])
      /\ Good(r, [users EXCEPT ![x] = n], opening, kept)
  <2> HIDE DEF n, old
  <2>1. Good(s, users, opening, kept) /\ s.table[t].fd[d].status \in InUse /\ old.node = s.table[t].fd[d].node
    BY <1>2 DEF old
  <2> QED  BY <1>1, <1>2, <1>3, <2>1, Drops
<1> QED  BY <1>6, <1>7

\* fd_array_close frees the entry, or leaves it to its last user.
LEMMA Closes ==
    ASSUME NEW s, NEW users, NEW opening, NEW kept, Good(s, users, opening, kept),
           NEW t \in Tables, NEW d \in FD, s.table[t].fd[d].status = "OPENED"
    PROVE  LET r == fd_array_close(s, t, d)
           IN  /\ \E f : /\ Becomes(s, r, t, d, f) /\ f.status # "OPENED"
                         /\ users[<<t, d>>] = 0 => f.status = "NONE"
               /\ Good(r, users, opening, kept)
<1> DEFINE x == <<t, d>>
           old == s.table[t].fd[d]
           n == users[x]
           g == [old EXCEPT !.status = "CLOSED"]
           r == fopen_count_dec(SetFile(s, t, d, g), t, d)
           f == IF n = 0 /\ g.status = "CLOSED" THEN NoFile
                ELSE [g EXCEPT !.count = @ - 1]
<1>1. /\ s \in State /\ old \in Entry /\ x \in Entries /\ n \in Nat
      /\ EntryOK(old, n, x \in opening)
      /\ users \in [Entries -> Nat]
  BY EntryAt
<1>2. /\ g \in Entry /\ g.status = "CLOSED" /\ g.node = old.node /\ g.count = n + 1
  BY <1>1 DEF EntryOK, Entry, Statuses
<1>3. fd_array_close(s, t, d) = r
  <2>1. Checked(s, old.status = "OPENED" /\ old.count > 0, "fd_array_close") = s
    BY <1>1 DEF Checked, EntryOK
  <2>2. [s EXCEPT !.table[t].fd[d].status = "CLOSED"]
          = SetFile(s, t, d, [File(s, t, d) EXCEPT !.status = "CLOSED"])
    BY DEF SetFile, File
  <2> QED  BY <2>1, <2>2 DEF fd_array_close, File
<1>4. Becomes(s, r, t, d, f) /\ Good(r, [users EXCEPT ![x] = n], opening, kept)
  <2>1. Good(s, users, opening, kept) /\ s.table[t].fd[d].status \in InUse
        /\ g.node = s.table[t].fd[d].node /\ g.status \in InUse
        /\ g.count = IF g.status = "OPENED" THEN n + 2 ELSE n + 1
    BY <1>2 DEF InUse
  <2> HIDE DEF n, old, g
  <2> QED  BY <1>1, <1>2, <2>1, Drops
<1>5. [users EXCEPT ![x] = n] = users
  BY <1>1
<1>6. f.status # "OPENED" /\ (n = 0 => f.status = "NONE")
  BY <1>2 DEF NoFile, Entry
<1> HIDE DEF r, f
<1> QED  BY <1>3, <1>4, <1>5, <1>6 DEF f

\* fd_array_dup of an open file to a free entry.
LEMMA Dups ==
    ASSUME NEW s, NEW users, NEW opening, NEW kept, Good(s, users, opening, kept),
           NEW t \in Tables, NEW d \in FD, s.table[t].fd[d].status = "NONE",
           NEW from \in Entry, from.status = "OPENED", from.node \in Inodes
    PROVE  LET r == fd_array_dup(SetFile(s, t, d, [NoFile EXCEPT !.status = "INIT"]),
                                 t, d, from)
           IN  /\ Becomes(s, r, t, d, [from EXCEPT !.count = 1])
               /\ Good(r, users, opening, kept)
<1> DEFINE x == <<t, d>>
           f == [NoFile EXCEPT !.status = "INIT"]
           v == SetFile(s, t, d, f)
           i == from.node
           a == inode_ref_inc(v, i)
           b == inode_open_inc(a, i)
           g == [status |-> "OPENED", node |-> i, readable |-> from.readable,
                 writable |-> from.writable, count |-> 1]
           r == fd_array_open(b, t, d, i, from.readable, from.writable)
<1>1. /\ s \in State /\ EntryOK(s.table[t].fd[d], users[x], x \in opening) /\ x \in Entries
  BY EntryAt
<1>2. x \notin opening
  BY <1>1 DEF EntryOK
<1>3. /\ Becomes(s, v, t, d, f)
      /\ Good(v, users, opening \cup {x}, kept)
  BY Allocates
<1>4. v \in State /\ v.table[t].fd[d] = f
  <2> HIDE DEF v, f
  <2>1. v \in State
    BY <1>3 DEF Becomes
  <2> QED  BY <2>1, <1>1, <1>3, BecomesAt
<1>5. Moves(v, b, i, 1, 1)
  <2>1. Moves(v, a, i, 1, 0)
    <3> HIDE DEF v
    <3> QED  BY <1>4, RefInc
  <2>2. a \in State
    BY <2>1 DEF Moves
  <2>3. Moves(a, b, i, 0, 1)
    <3> HIDE DEF a
    <3> QED  BY <2>2, OpenInc
  <2>4. Moves(v, b, i, 1 + 0, 0 + 1)
    <3> HIDE DEF a, b, v
    <3> QED  BY <1>4, <2>1, <2>3, MovesTwice
  <2> QED  BY <2>4
<1>6. fd_array_dup(v, t, d, from) = r
  <2>1. Checked(v, from.status = "OPENED", "fd_array_dup") = v
    BY DEF Checked
  <2> HIDE DEF v
  <2> QED  BY <2>1 DEF fd_array_dup
<1>7. from.readable \in BOOLEAN /\ from.writable \in BOOLEAN /\ [from EXCEPT !.count = 1] = g
  BY DEF Entry
<1>8. f.status = "INIT"
  BY DEF NoFile
<1>9. Becomes(v, r, t, d, g) /\ Good(r, users, (opening \cup {x}) \ {x}, kept)
  <2> HIDE DEF v, f, b
  <2> QED  BY <1>3, <1>4, <1>5, <1>7, <1>8, Opens
<1>10. Becomes(s, r, t, d, g)
  <2> HIDE DEF v, r, g, f
  <2> QED  BY <1>1, <1>3, <1>9, BecomesTwice
<1>11. (opening \cup {x}) \ {x} = opening
  BY <1>2
<1> HIDE DEF r, g
<1> QED  BY <1>6, <1>7, <1>9, <1>10, <1>11

-----------------------------------------------------------------------------
(* Opening a file: file_open and vfs_open *)

\* The descriptor chosen for an open is free.
LEMMA Lowest ==
    ASSUME NEW s, NEW t, NO_FD(s, t) # NFD
    PROVE  NO_FD(s, t) \in FD /\ s.table[t].fd[NO_FD(s, t)].status = "NONE"
<1> DEFINE free == {d \in FD : File(s, t, d).status = "NONE"}
<1>1. free # {} /\ NO_FD(s, t) = CHOOSE d \in free : \A e \in free : d <= e
  BY DEF NO_FD
<1>2. free \subseteq Nat
  BY DEF FD
<1>3. \E d \in free : \A e \in free : d <= e
  <2> HIDE DEF free
  <2> QED  BY <1>1, <1>2, Least
<1>4. NO_FD(s, t) \in free
  <2> HIDE DEF free
  <2> QED  BY <1>1, <1>3
<1> QED  BY <1>4 DEF File

OpenArgs == OpenFlags \cup {NoFlags}

\* Reading and writing are truth values in the flags of an open.
LEMMA OpenArgsType ==
    ASSUME NEW f \in OpenArgs
    PROVE  f.mode.read \in BOOLEAN /\ f.mode.write \in BOOLEAN
<1>1. CASE f = NoFlags
  BY <1>1 DEF NoFlags
<1>2. CASE f \in OpenFlags
  <2>1. f \in [mode   : {m \in [read : BOOLEAN, write : BOOLEAN] : m.read \/ m.write},
               create : BOOLEAN, excl : BOOLEAN, trunc : BOOLEAN]
    BY <1>2, OpenFilesAssumption
  <2>2. f.mode \in [read : BOOLEAN, write : BOOLEAN]
    BY <2>1
  <2> QED  BY <2>2
<1> QED  BY <1>1, <1>2 DEF OpenArgs

\* vfs_open counts the inode twice, or leaves the counts as they were; the way out
\* with -E_EXISTS forgets one reference.
LEMMA VfsOpens ==
    ASSUME NEW s, NEW users, NEW opening, NEW kept, Good(s, users, opening, kept),
           NEW i \in Inodes \cup {"missing"}, NEW f, NEW ok \in BOOLEAN
    PROVE  LET r == vfs_open(s, i, f, ok)
           IN  /\ r.ok \in BOOLEAN
               /\ r.ok => i \in Inodes /\ ~ Forgets(i, f) /\ Moves(s, r.state, i, 1, 1)
               /\ ~ r.ok /\ Forgets(i, f) => i \in Inodes /\ Moves(s, r.state, i, 1, 0)
               /\ ~ r.ok /\ ~ Forgets(i, f) => \E j \in Inodes : Moves(s, r.state, j, 0, 0)
<1> DEFINE found  == inode_ref_inc(s, i)
           asked  == vop(found, i, "open")
           opened == inode_open_inc(asked, i)
           cut    == vop(opened, i, "truncate")
           early  == f.trunc /\ ~f.mode.write
           r == vfs_open(s, i, f, ok)
<1>1. /\ s \in State /\ \A j \in Inodes : s.inode[j].open <= s.inode[j].ref
      /\ \A j \in Inodes : s.inode[j].open \in Nat /\ s.inode[j].ref \in Nat
  BY DEF Good, State, Node
<1>2. /\ root \in Inodes
      /\ {"open", "truncate", "create"} \subseteq Operations
  BY OpenFilesAssumption DEF Inodes, Operations
<1>3. Moves(s, s, root, 0, 0)
  BY <1>1 DEF Moves
<1>4. CASE early
  BY <1>2, <1>3, <1>4 DEF vfs_open, Forgets
<1>5. CASE ~ early /\ i = "missing"
  <2>1. Moves(s, vop(s, root, "create"), root, 0, 0)
    BY <1>1, <1>2, VopMoves
  <2> QED  BY <1>2, <1>3, <1>5, <2>1 DEF vfs_open, Forgets
<1>6. CASE ~ early /\ i # "missing"
  <2>1. i \in Inodes
    BY <1>6
  <2>2. Moves(s, found, i, 1, 0)
    BY <1>1, <2>1, RefInc
  <2>3. /\ found \in State /\ found.inode[i].open <= found.inode[i].ref
    BY <1>1, <2>1, <2>2 DEF Moves
  <2>4. Moves(found, asked, i, 0, 0)
    <3> HIDE DEF found
    <3> QED  BY <1>2, <2>1, <2>3, VopMoves
  <2>5. Moves(s, asked, i, 1 + 0, 0 + 0)
    <3> HIDE DEF found, asked
    <3> QED  BY <1>1, <2>1, <2>2, <2>4, MovesTwice
  <2>6. asked \in State /\ asked.inode[i].open < asked.inode[i].ref
    <3> HIDE DEF asked
    <3> QED  BY <1>1, <2>1, <2>5 DEF Moves
  <2>7. Moves(asked, opened, i, 0, 1)
    <3> HIDE DEF asked
    <3> QED  BY <2>1, <2>6, OpenInc
  <2>8. Moves(s, opened, i, 1 + 0, 0 + 1)
    <3> HIDE DEF asked, opened
    <3> QED  BY <1>1, <2>1, <2>5, <2>7, MovesTwice
  <2>9. opened \in State /\ opened.inode[i].open <= opened.inode[i].ref
    <3> HIDE DEF opened
    <3> QED  BY <1>1, <2>1, <2>8 DEF Moves
  <2>10. Moves(opened, cut, i, 0, 0)
    <3> HIDE DEF opened
    <3> QED  BY <1>2, <2>1, <2>9, VopMoves
  <2>11. Moves(s, cut, i, 1 + 0, 1 + 0)
    <3> HIDE DEF cut, opened
    <3> QED  BY <1>1, <2>1, <2>8, <2>10, MovesTwice
  <2>12. cut \in State /\ cut.inode[i].open <= cut.inode[i].ref /\ cut.inode[i].open > 0
    <3> HIDE DEF cut
    <3> QED  BY <1>1, <2>1, <2>11 DEF Moves
  <2>13. Moves(s, vfs_close(cut, i), i, 1 + (-1), 1 + (-1))
    <3> HIDE DEF cut
    <3>1. Moves(cut, vfs_close(cut, i), i, -1, -1)
      BY <2>1, <2>12, VfsClose
    <3>2. Moves(s, cut, i, 1, 1)
      BY <2>11
    <3> QED  BY <1>1, <2>1, <3>1, <3>2, MovesTwice
  <2>14. Moves(s, inode_ref_dec(asked, i), i, 1 + (-1), 0 + 0)
    <3> HIDE DEF asked
    <3>1. Moves(asked, inode_ref_dec(asked, i), i, -1, 0)
      BY <2>1, <2>6, RefDec
    <3>2. Moves(s, asked, i, 1, 0)
      BY <2>5
    <3> QED  BY <1>1, <2>1, <3>1, <3>2, MovesTwice
  <2>15. /\ Moves(s, found, i, 1, 0) /\ Moves(s, inode_ref_dec(asked, i), i, 0, 0)
         /\ Moves(s, opened, i, 1, 1) /\ Moves(s, cut, i, 1, 1)
         /\ Moves(s, vfs_close(cut, i), i, 0, 0)
    BY <2>2, <2>8, <2>11, <2>13, <2>14
  <2>16. r = IF f.excl /\ f.create THEN [state |-> found, ok |-> FALSE]
             ELSE IF ~OpenAllowed(i, f) THEN [state |-> inode_ref_dec(asked, i), ok |-> FALSE]
             ELSE IF ~(f.trunc \/ f.create) THEN [state |-> opened, ok |-> TRUE]
             ELSE IF ok THEN [state |-> cut, ok |-> TRUE]
             ELSE [state |-> vfs_close(cut, i), ok |-> FALSE]
    BY <1>6 DEF vfs_open
  <2>17. Forgets(i, f) <=> f.excl /\ f.create
    BY <1>6 DEF Forgets
  <2> SUFFICES /\ r.ok \in BOOLEAN
               /\ r.ok => ~ Forgets(i, f) /\ Moves(s, r.state, i, 1, 1)
               /\ ~ r.ok /\ Forgets(i, f) => Moves(s, r.state, i, 1, 0)
               /\ ~ r.ok /\ ~ Forgets(i, f) => Moves(s, r.state, i, 0, 0)
    BY <2>1
  <2> DEFINE n == inode_ref_dec(asked, i)
             c == vfs_close(cut, i)
             E == f.excl /\ f.create
             A == OpenAllowed(i, f)
             C == f.trunc \/ f.create
             F == Forgets(i, f)
  <2> HIDE DEF found, asked, opened, cut, r, n, c, E, A, C, F
  <2>18. r = IF E THEN [state |-> found, ok |-> FALSE]
             ELSE IF ~A THEN [state |-> n, ok |-> FALSE]
             ELSE IF ~C THEN [state |-> opened, ok |-> TRUE]
             ELSE IF ok THEN [state |-> cut, ok |-> TRUE]
             ELSE [state |-> c, ok |-> FALSE]
    BY <2>16 DEF E, A, C, n, c
  <2>19. /\ Moves(s, found, i, 1, 0) /\ Moves(s, n, i, 0, 0)
         /\ Moves(s, opened, i, 1, 1) /\ Moves(s, cut, i, 1, 1)
         /\ Moves(s, c, i, 0, 0)
    BY <2>15 DEF n, c
  <2>20. F <=> E
    BY <2>17 DEF E, F
  <2> QED  BY <2>18, <2>19, <2>20 DEF F
<1> QED  BY <1>4, <1>5, <1>6

\* An inode gets a reference that no table has.
LEMMA Forgotten ==
    ASSUME NEW s, NEW users, NEW opening, NEW kept, Good(s, users, opening, kept),
           NEW t \in Tables, NEW i \in Inodes, NEW u, Moves(s, u, i, 1, 0)
    PROVE  Good(u, users, opening, [kept EXCEPT ![i] = @ + 1])
<1> DEFINE kept2 == [kept EXCEPT ![i] = @ + 1]
<1>1. s \in State /\ u \in State /\ u.table = s.table /\ kept \in [Inodes -> Int]
  BY DEF Good, Moves
<1>2. /\ kept2 \in [Inodes -> Int]
      /\ \A j \in Inodes : kept2[j] = kept[j] + Bit(j = i) /\ kept[j] \in Int
  BY <1>1 DEF Bit
<1>3. \A j \in Inodes :
        /\ u.inode[j].open = s.inode[j].open
        /\ u.inode[j].open <= u.inode[j].ref
        /\ u.inode[j].ref + Bit(s.table[t].pwd = j) + kept[j]
             = s.inode[j].ref + Bit(u.table[t].pwd = j) + kept2[j]
  <2> TAKE j \in Inodes
  <2>1. /\ u.inode[j].open = s.inode[j].open + 0
        /\ u.inode[j].ref = s.inode[j].ref + Bit(j = i)
    BY DEF Moves, Bit
  <2>2. /\ s.inode[j].open \in Nat /\ s.inode[j].ref \in Nat
        /\ s.inode[j].open <= s.inode[j].ref
        /\ Bit(j = i) \in Nat /\ Bit(s.table[t].pwd = j) \in Nat
    BY <1>1 DEF Good, State, Node, Bit
  <2> HIDE DEF kept2
  <2>3. kept2[j] = kept[j] + Bit(j = i) /\ kept[j] \in Int
    BY <1>2
  <2> QED  BY <1>1, <2>1, <2>2, <2>3
<1> HIDE DEF kept2
<1>4. Good(u, users, opening, kept2)
  BY <1>1, <1>2, <1>3, PwdChange
<1> QED  BY <1>4 DEF kept2

\* The rest of file_open: the entry gets its file, or is free again.
LEMMA FileOpens ==
    ASSUME NEW s, NEW users, NEW opening, NEW kept, Good(s, users, opening, kept),
           NEW t \in Tables, NEW d \in FD, s.table[t].fd[d].status = "INIT",
           NEW i \in Inodes \cup {"missing"}, NEW f \in OpenArgs, NEW ok \in BOOLEAN
    PROVE  LET u == file_open(s, t, d, i, f, ok)
           IN  /\ \E g : /\ Becomes(s, u, t, d, g)
                         /\ g.status \in {"NONE", "OPENED"}
                         /\ g.status = "OPENED" => i \in Inodes
               /\ Good(u, users, opening \ {<<t, d>>},
                       IF Forgets(i, f) THEN [kept EXCEPT ![i] = @ + 1] ELSE kept)
<1> DEFINE r == vfs_open(s, i, f, ok)
           v == r.state
<1>1. /\ r.ok \in BOOLEAN
      /\ r.ok => i \in Inodes /\ ~ Forgets(i, f) /\ Moves(s, v, i, 1, 1)
      /\ ~ r.ok /\ Forgets(i, f) => i \in Inodes /\ Moves(s, v, i, 1, 0)
      /\ ~ r.ok /\ ~ Forgets(i, f) => \E j \in Inodes : Moves(s, v, j, 0, 0)
  BY VfsOpens
<1>2. file_open(s, t, d, i, f, ok)
        = IF r.ok THEN fd_array_open(v, t, d, i, f.mode.read, f.mode.write)
          ELSE fd_array_free(v, t, d)
  BY DEF file_open
<1> HIDE DEF r
<1>3. CASE r.ok
  <2> DEFINE g == [status |-> "OPENED", node |-> i, readable |-> f.mode.read,
                   writable |-> f.mode.write, count |-> 1]
             u == fd_array_open(v, t, d, i, f.mode.read, f.mode.write)
  <2>1. /\ Becomes(s, u, t, d, g) /\ Good(u, users, opening \ {<<t, d>>}, kept)
    BY <1>1, <1>3, OpenArgsType, Opens
  <2>2. g.status = "OPENED"
    OBVIOUS
  <2> HIDE DEF g, u
  <2> QED  BY <1>1, <1>2, <1>3, <2>1, <2>2 DEF u
<1>4. CASE ~ r.ok
  <2> DEFINE kept2 == IF Forgets(i, f) THEN [kept EXCEPT ![i] = @ + 1] ELSE kept
             u == fd_array_free(v, t, d)
  <2>1. Good(v, users, opening, kept2)
    BY <1>1, <1>4, Forgotten, Unmoved
  <2>2. v.table = s.table
    BY <1>1, <1>4 DEF Moves
  <2> HIDE DEF v, kept2
  <2>3. Becomes(v, u, t, d, NoFile) /\ Good(u, users, opening \ {<<t, d>>}, kept2)
    BY <2>1, <2>2, FreesAllocated
  <2>4. Becomes(s, u, t, d, NoFile)
    BY <2>2, <2>3 DEF Becomes
  <2>5. NoFile.status = "NONE"
    BY DEF NoFile
  <2> QED  BY <1>2, <1>4, <2>3, <2>4, <2>5 DEF kept2
<1> QED  BY <1>1, <1>3, <1>4

-----------------------------------------------------------------------------
(* Whole tables: fs.c *)

\* Only the entries of the table t change from s to u.
Only(s, u, t) ==
    /\ u \in State
    /\ \A c \in Tables : c # t => u.table[c] = s.table[c]
    /\ u.table[t].count = s.table[t].count /\ u.table[t].pwd = s.table[t].pwd

\* Two steps that touch one table touch one table.
LEMMA OnlyTwice ==
    ASSUME NEW s, NEW u, NEW v, NEW t, Only(s, u, t), Only(u, v, t)
    PROVE  Only(s, v, t)
BY DEF Only

\* A change of an entry touches its table only.
LEMMA BecomesOnly ==
    ASSUME NEW s \in State, NEW u, NEW t \in Tables, NEW d \in FD, NEW f,
           Becomes(s, u, t, d, f)
    PROVE  Only(s, u, t)
<1>1. u \in State
  BY DEF Becomes
<1>2. \A c \in Tables : u.table[c].pwd = s.table[c].pwd
  BY BecomesAt
<1>3. \A c \in Tables : u.table[c].count = s.table[c].count
  BY BecomesAt
<1>4. \A c \in Tables : c # t => u.table[c] = s.table[c]
  BY BecomesAt
<1> QED  BY <1>1, <1>2, <1>3, <1>4 DEF Only

CloseStep(v, t, e) ==
    IF File(v, t, e).status = "OPENED" THEN fd_array_close(v, t, e) ELSE v

\* CloseFrom as a sequence of states.
LEMMA CloseTurns ==
    ASSUME NEW s, NEW t, NEW d \in 0..NFD
    PROVE  \E f : /\ f = [e \in d..NFD |-> IF e = d THEN s ELSE CloseStep(f[e - 1], t, e - 1)]
                  /\ CloseFrom(s, t, d) = f[NFD]
<1>0. NFD \in Nat /\ d \in Nat
  BY OpenFilesAssumption
<1> DEFINE Turns(f, n) ==
             f = [e \in d..n |-> IF e = d THEN s ELSE CloseStep(f[e - 1], t, e - 1)]
           T == {n \in Nat : \E f : Turns(f, d + n)}
<1>1. 0 \in T
  <2>1. Turns([e \in d..d |-> s], d)
    BY <1>0
  <2>2. d + 0 = d
    BY <1>0
  <2> HIDE DEF Turns
  <2> QED  BY <2>1, <2>2
<1>2. ASSUME NEW m \in Nat, m \in T  PROVE m + 1 \in T
  <2> DEFINE n == d + m
  <2>1. PICK f : Turns(f, n)
    BY <1>2
  <2>2. n \in Nat /\ d <= n /\ d + (m + 1) = n + 1
    BY <1>0
  <2> DEFINE g == [e \in d..n + 1 |-> IF e <= n THEN f[e] ELSE CloseStep(f[n], t, n)]
  <2> HIDE DEF Turns, n
  <2>3. Turns(g, n + 1)
    <3>1. \A e \in d..n + 1 : g[e] = IF e = d THEN s ELSE CloseStep(g[e - 1], t, e - 1)
      <4> SUFFICES ASSUME NEW e \in d..n + 1
                   PROVE  g[e] = IF e = d THEN s ELSE CloseStep(g[e - 1], t, e - 1)
        OBVIOUS
      <4>1. CASE e = d
        BY <4>1, <1>0, <2>1, <2>2 DEF Turns
      <4>2. CASE e # d /\ e <= n
        <5>1. e \in d..n /\ e - 1 \in d..n + 1 /\ e - 1 <= n
          BY <4>2, <1>0, <2>2
        <5>2. f[e] = CloseStep(f[e - 1], t, e - 1)
          BY <4>2, <5>1, <2>1 DEF Turns
        <5> QED  BY <4>2, <5>1, <5>2
      <4>3. CASE e = n + 1
        <5>1. e - 1 \in d..n + 1 /\ e - 1 <= n /\ e - 1 = n /\ ~(e <= n) /\ e # d
          BY <4>3, <1>0, <2>2
        <5> QED  BY <4>3, <5>1
      <4> QED  BY <4>1, <4>2, <4>3, <1>0, <2>2
    <3> DEFINE h == [e \in d..n + 1 |-> IF e = d THEN s ELSE CloseStep(g[e - 1], t, e - 1)]
    <3>2. \A e \in d..n + 1 : g[e] = h[e]
      BY <3>1
    <3>3. g = [e \in d..n + 1 |-> g[e]] /\ h = [e \in d..n + 1 |-> h[e]]
      OBVIOUS
    <3>4. g = h
      <4> HIDE DEF g, h
      <4> QED  BY <3>2, <3>3
    <3> HIDE DEF g
    <3> QED  BY <3>4 DEF Turns
  <2> HIDE DEF g
  <2> QED  BY <2>2, <2>3
<1>3. Nat \subseteq T
  <2> HIDE DEF T
  <2> QED  BY <1>1, <1>2, Induction
<1>4. \E f : Turns(f, NFD)
  <2>1. NFD - d \in Nat /\ d + (NFD - d) = NFD
    BY <1>0
  <2>2. NFD - d \in T
    BY <2>1, <1>3
  <2> HIDE DEF Turns
  <2> QED  BY <2>1, <2>2
<1> DEFINE closed == CHOOSE f : Turns(f, NFD)
<1>5. Turns(closed, NFD)
  <2> HIDE DEF Turns
  <2> QED  BY <1>4
<1>6. CloseFrom(s, t, d) = closed[NFD]
  BY DEF CloseFrom, CloseStep
<1> HIDE DEF closed
<1> QED  BY <1>5, <1>6

\* CloseFrom leaves no file opened, from the descriptor d on.
LEMMA ClosesAll ==
    ASSUME NEW s, NEW users, NEW opening, NEW kept, Good(s, users, opening, kept),
           NEW t \in Tables, NEW d \in 0..NFD
    PROVE  LET r == CloseFrom(s, t, d)
           IN  /\ Good(r, users, opening, kept) /\ Only(s, r, t)
               /\ \A e \in FD : e >= d => r.table[t].fd[e].status # "OPENED"
<1>0. NFD \in Nat /\ d \in Nat /\ s \in State
  BY OpenFilesAssumption DEF Good
<1>1. PICK f : /\ f = [e \in d..NFD |-> IF e = d THEN s ELSE CloseStep(f[e - 1], t, e - 1)]
               /\ CloseFrom(s, t, d) = f[NFD]
  BY CloseTurns
<1> DEFINE P(n) == /\ Good(f[n], users, opening, kept) /\ Only(s, f[n], t)
                   /\ \A e \in FD : d <= e /\ e < n => f[n].table[t].fd[e].status # "OPENED"
           T == {n \in Nat : d + n <= NFD => P(d + n)}
<1>2. 0 \in T
  <2>1. f[d] = s
    BY <1>0, <1>1
  <2>2. P(d)
    BY <1>0, <2>1 DEF Only, FD
  <2>3. d + 0 = d
    BY <1>0
  <2> HIDE DEF P
  <2> QED  BY <2>2, <2>3
<1>3. ASSUME NEW m \in Nat, m \in T PROVE m + 1 \in T
  <2> DEFINE n == d + m
  <2> SUFFICES ASSUME n + 1 <= NFD PROVE P(n + 1)
    BY <1>0
  <2>1. P(n)
    BY <1>0, <1>3
  <2>2. /\ n \in FD /\ n + 1 \in d..NFD /\ n + 1 # d /\ (n + 1) - 1 = n
        /\ n \in Nat /\ d <= n
    BY <1>0 DEF FD
  <2> DEFINE a == f[n]
             b == f[n + 1]
  <2>3. b = CloseStep(a, t, n)
    BY <1>1, <2>2
  <2>4. a \in State
    BY <2>1 DEF Good
  <2> HIDE DEF n
  <2>5. CASE a.table[t].fd[n].status = "OPENED"
    <3>1. b = fd_array_close(a, t, n)
      BY <2>3, <2>5 DEF CloseStep, File
    <3>2. PICK g : Becomes(a, b, t, n, g) /\ g.status # "OPENED"
      <4>1. Good(a, users, opening, kept)
        BY <2>1
      <4> HIDE DEF a, b
      <4> QED  BY <4>1, <3>1, <2>2, <2>5, Closes
    <3>3. Good(b, users, opening, kept)
      BY <3>1, <2>1, <2>2, <2>5, Closes
    <3>4. Only(s, b, t)
      BY <2>1, <2>2, <2>4, <3>2, BecomesOnly, OnlyTwice
    <3>5. /\ b.table[t].fd[n] = g
          /\ \A e \in FD : e # n => b.table[t].fd[e] = a.table[t].fd[e]
      <4> HIDE DEF a, b
      <4> QED  BY <2>2, <2>4, <3>2, BecomesAt
    <3>6. \A e \in FD : d <= e /\ e < n + 1 => b.table[t].fd[e].status # "OPENED"
      <4>1. \A e \in FD : d <= e /\ e < n => a.table[t].fd[e].status # "OPENED"
        BY <2>1
      <4> HIDE DEF a, b
      <4> QED  BY <2>2, <3>2, <3>5, <4>1 DEF FD
    <3> QED  BY <3>3, <3>4, <3>6
  <2>6. CASE a.table[t].fd[n].status # "OPENED"
    <3>1. b = a
      BY <2>3, <2>6 DEF CloseStep, File
    <3>2. \A e \in FD : d <= e /\ e < n + 1 => a.table[t].fd[e].status # "OPENED"
      <4>1. \A e \in FD : d <= e /\ e < n => a.table[t].fd[e].status # "OPENED"
        BY <2>1
      <4> HIDE DEF a, b
      <4> QED  BY <2>2, <2>6, <4>1 DEF FD
    <3> QED  BY <2>1, <3>1, <3>2
  <2> QED  BY <2>5, <2>6
<1>4. Nat \subseteq T
  <2> HIDE DEF T
  <2> QED  BY <1>2, <1>3, Induction
<1>5. P(NFD)
  <2>1. NFD - d \in Nat /\ d + (NFD - d) = NFD
    BY <1>0
  <2>2. NFD - d \in T
    BY <2>1, <1>4
  <2> HIDE DEF P
  <2> QED  BY <1>0, <2>1, <2>2
<1>6. \A e \in FD : e < NFD
  BY <1>0 DEF FD
<1> QED  BY <1>1, <1>5, <1>6

\* files_destroy of a table that nobody uses wipes it.
LEMMA Destroys ==
    ASSUME NEW s, NEW users, NEW opening, NEW kept \in [Inodes -> Nat],
           Good(s, users, opening, kept), NEW t \in Tables, s.table[t].pwd \in Dirs,
           s.table[t].count = 0,
           \A d \in FD : users[<<t, d>>] = 0 /\ <<t, d>> \notin opening
    PROVE  LET r == files_destroy(s, t)
           IN  /\ Good(r, users, opening, kept)
               /\ r.table = [s.table EXCEPT ![t] = files_create]
<1> DEFINE p == s.table[t].pwd
           a == inode_ref_dec(s, p)
           e == CloseFrom(a, t, 0)
           r == [e EXCEPT !.table[t] = files_create]
           kept1 == [kept EXCEPT ![p] = @ - 1]
<1>1. p \in Inodes /\ p # NULL /\ s \in State
  BY OpenFilesAssumption DEF Inodes, Good
<1>2. s.inode[p].open < s.inode[p].ref
  <2>1. t \in PwdsIn(s, p)
    BY DEF PwdsIn
  <2>2. Cardinality(PwdsIn(s, p)) \in Nat /\ Cardinality(PwdsIn(s, p)) # 0
        /\ Cardinality(HoldersIn(s, p)) \in Nat
    BY <2>1, FiniteHolders, FS_EmptySet
  <2>3. kept[p] \in Nat
    BY <1>1
  <2>4. /\ s.inode[p].open = Cardinality(HoldersIn(s, p))
        /\ s.inode[p].ref = Cardinality(HoldersIn(s, p)) + Cardinality(PwdsIn(s, p)) + kept[p]
    BY <1>1 DEF Good
  <2> HIDE DEF p
  <2> QED  BY <2>2, <2>3, <2>4
<1>3. Moves(s, a, p, -1, 0)
  BY <1>1, <1>2, RefDec
<1>4. /\ kept1 \in [Inodes -> Int]
      /\ \A i \in Inodes : kept1[i] = kept[i] + (IF i = p THEN -1 ELSE 0) /\ kept[i] \in Nat
  BY <1>1
<1>5. Good(a, users, opening, kept1)
  <2>1. a \in State /\ a.table = s.table
    BY <1>3 DEF Moves
  <2>2. \A i \in Inodes :
          /\ a.inode[i].open = s.inode[i].open
          /\ a.inode[i].open <= a.inode[i].ref
          /\ a.inode[i].ref + Bit(s.table[t].pwd = i) + kept[i]
               = s.inode[i].ref + Bit(a.table[t].pwd = i) + kept1[i]
    <3> TAKE i \in Inodes
    <3>1. /\ a.inode[i].open = s.inode[i].open + 0
          /\ a.inode[i].ref = s.inode[i].ref + (IF i = p THEN -1 ELSE 0)
      BY <1>3 DEF Moves
    <3>2. /\ s.inode[i].open \in Nat /\ s.inode[i].ref \in Nat
          /\ s.inode[i].open <= s.inode[i].ref /\ Bit(s.table[t].pwd = i) \in Nat
      BY DEF Good, State, Node, Bit
    <3> HIDE DEF a, p, kept1
    <3>3. kept1[i] = kept[i] + (IF i = p THEN -1 ELSE 0) /\ kept[i] \in Nat
      BY <1>4
    <3> QED  BY <1>2, <2>1, <3>1, <3>2, <3>3
  <2>3. \A c \in Tables, d \in FD : a.table[c].fd[d] = s.table[c].fd[d]
    BY <2>1
  <2> HIDE DEF a, kept1
  <2> QED  BY <1>4, <2>1, <2>2, <2>3, PwdChange
<1>6. /\ Good(e, users, opening, kept1) /\ Only(a, e, t)
      /\ \A d \in FD : e.table[t].fd[d].status # "OPENED"
  <2> HIDE DEF a, kept1
  <2>1. 0 \in 0..NFD /\ \A d \in FD : d >= 0
    BY OpenFilesAssumption DEF FD
  <2> QED  BY <1>5, <2>1, ClosesAll
<1>7. \A d \in FD : e.table[t].fd[d].status = "NONE"
  <2> TAKE d \in FD
  <2>1. EntryOK(e.table[t].fd[d], users[<<t, d>>], <<t, d>> \in opening)
    BY <1>6 DEF Good
  <2>2. e.table[t].fd[d] \in Entry
    BY <1>6, EntryType DEF Good
  <2> HIDE DEF e
  <2> QED  BY <1>6, <2>1, <2>2 DEF EntryOK, Entry, Statuses
<1>8. files_destroy(s, t) = r
  <2>1. Checked(e, \A d \in FD : File(e, t, d).status = "NONE", "files_destroy") = e
    BY <1>7 DEF Checked, File
  <2> HIDE DEF r
  <2> QED  BY <1>1, <2>1 DEF files_destroy, r
<1>9. e \in State /\ e.table \in [Tables -> FilesStruct]
  BY <1>6 DEF Only, State
<1>10. files_create \in FilesStruct
  BY NoFileIsEntry DEF files_create, FilesStruct
<1>11. /\ r \in State /\ r.inode = e.inode
       /\ r.table = [e.table EXCEPT ![t] = files_create]
  <2> HIDE DEF e
  <2> QED  BY <1>9, <1>10 DEF State
<1>12. r.table = [s.table EXCEPT ![t] = files_create]
  <2>1. \A c \in Tables : c # t => e.table[c] = s.table[c]
    BY <1>3, <1>6 DEF Only, Moves
  <2>2. s.table \in [Tables -> FilesStruct]
    BY <1>1 DEF State
  <2> HIDE DEF e, r
  <2> QED  BY <1>9, <1>11, <2>1, <2>2
<1>13. Good(r, users, opening, kept)
  <2>1. \A i \in Inodes :
          /\ r.inode[i].open = e.inode[i].open
          /\ r.inode[i].open <= r.inode[i].ref
          /\ r.inode[i].ref + Bit(e.table[t].pwd = i) + kept1[i]
               = e.inode[i].ref + Bit(r.table[t].pwd = i) + kept[i]
    <3> TAKE i \in Inodes
    <3>1. e.table[t].pwd = p
      BY <1>3, <1>6 DEF Only, Moves
    <3>2. r.table[t].pwd = NULL
      <4> HIDE DEF r
      <4> QED  BY <1>9, <1>11 DEF files_create
    <3>3. i # NULL
      BY OpenFilesAssumption DEF Inodes
    <3>4. /\ e.inode[i].open \in Nat /\ e.inode[i].ref \in Nat
          /\ e.inode[i].open <= e.inode[i].ref
      <4> HIDE DEF e
      <4> QED  BY <1>6, <1>9 DEF Good, State, Node
    <3>5. r.inode[i] = e.inode[i]
      BY <1>11
    <3>6. Bit(e.table[t].pwd = i) = (IF i = p THEN 1 ELSE 0) /\ Bit(r.table[t].pwd = i) = 0
      <4> HIDE DEF e, r, p
      <4> QED  BY <3>1, <3>2, <3>3 DEF Bit
    <3> HIDE DEF e, r, p, kept1
    <3>7. kept1[i] = kept[i] + (IF i = p THEN -1 ELSE 0) /\ kept[i] \in Nat
      BY <1>4
    <3> QED  BY <3>4, <3>5, <3>6, <3>7
  <2>2. \A c \in Tables, d \in FD :
          \/ r.table[c].fd[d] = e.table[c].fd[d]
          \/ r.table[c].fd[d] = NoFile /\ e.table[c].fd[d].status = "NONE"
    <3> HIDE DEF e, r
    <3>1. files_create.fd = [d \in FD |-> NoFile]
      BY DEF files_create
    <3> QED  BY <1>7, <1>9, <1>11, <3>1
  <2>3. \A c \in Tables : c # t => r.table[c].pwd = e.table[c].pwd
    <3> HIDE DEF e, r
    <3> QED  BY <1>9, <1>11
  <2>4. kept \in [Inodes -> Int]
    OBVIOUS
  <2>5. Good(e, users, opening, kept1) /\ r \in State
    BY <1>6, <1>11
  <2> HIDE DEF e, r, kept1
  <2> QED  BY ONLY <2>1, <2>2, <2>3, <2>4, <2>5, PwdChange
<1> HIDE DEF r
<1> QED  BY <1>8, <1>12, <1>13

\* The count of a table is no matter of its entries.
LEMMA Counted ==
    ASSUME NEW s, NEW users, NEW opening, NEW kept, Good(s, users, opening, kept),
           NEW t \in Tables, NEW n \in Nat
    PROVE  /\ Good([s EXCEPT !.table[t].count = n], users, opening, kept)
           /\ [s EXCEPT !.table[t].count = n].table
                = [s.table EXCEPT ![t] = [@ EXCEPT !.count = n]]
<1> DEFINE u == [s EXCEPT !.table[t].count = n]
<1>1. s \in State /\ s.table \in [Tables -> FilesStruct]
  BY DEF Good, State
<1>2. u.table = [s.table EXCEPT ![t] = [@ EXCEPT !.count = n]] /\ u.inode = s.inode
  BY <1>1 DEF State
<1>3. [s.table[t] EXCEPT !.count = n] \in FilesStruct
  BY <1>1 DEF FilesStruct
<1>4. u \in State
  BY <1>1, <1>2, <1>3 DEF State
<1>5. \A c \in Tables : u.table[c].fd = s.table[c].fd /\ u.table[c].pwd = s.table[c].pwd
  BY <1>1, <1>2 DEF FilesStruct
<1> HIDE DEF u
<1>6. \A i : HoldersIn(u, i) = HoldersIn(s, i) /\ PwdsIn(u, i) = PwdsIn(s, i)
  BY <1>5 DEF HoldersIn, PwdsIn, Entries
<1>7. Good(u, users, opening, kept)
  BY <1>2, <1>4, <1>5, <1>6 DEF Good
<1> QED  BY <1>2, <1>7 DEF u

\* put_files: the last process to drop a table wipes it.
LEMMA Puts ==
    ASSUME NEW s, NEW users, NEW opening, NEW kept \in [Inodes -> Nat],
           Good(s, users, opening, kept), NEW t \in Tables, s.table[t].pwd \in Dirs,
           s.table[t].count > 0,
           s.table[t].count = 1 =>
             \A d \in FD : users[<<t, d>>] = 0 /\ <<t, d>> \notin opening
    PROVE  LET r == put_files(s, t)
           IN  /\ Good(r, users, opening, kept)
               /\ r.table = [s.table EXCEPT ![t] =
                               IF s.table[t].count = 1 THEN files_create
                               ELSE [s.table[t] EXCEPT !.count = @ - 1]]
<1> DEFINE n == s.table[t].count - 1
           e == [s EXCEPT !.table[t].count = n]
           r == put_files(s, t)
<1>1. s \in State /\ s.table \in [Tables -> FilesStruct]
  BY DEF Good, State
<1>2. n \in Nat /\ (n = 0 <=> s.table[t].count = 1)
  BY <1>1 DEF FilesStruct
<1>3. /\ Good(e, users, opening, kept)
      /\ e.table = [s.table EXCEPT ![t] = [@ EXCEPT !.count = n]]
  <2> HIDE DEF n
  <2> QED  BY <1>2, Counted
<1>4. e.table[t].count = n /\ e.table[t].pwd = s.table[t].pwd
  <2> HIDE DEF e, n
  <2> QED  BY <1>1, <1>3 DEF FilesStruct
<1>5. r = IF n = 0 THEN files_destroy(e, t) ELSE e
  <2>1. e = [s EXCEPT !.table[t].count = @ - 1]
    OBVIOUS
  <2> HIDE DEF e, n
  <2> QED  BY <1>4, <2>1 DEF put_files
<1> HIDE DEF e, n, r
<1>6. CASE n = 0
  <2>1. /\ Good(files_destroy(e, t), users, opening, kept)
        /\ files_destroy(e, t).table = [e.table EXCEPT ![t] = files_create]
    <3>1. \A d \in FD : users[<<t, d>>] = 0 /\ <<t, d>> \notin opening
      BY <1>2, <1>6
    <3>2. e.table[t].pwd \in Dirs /\ e.table[t].count = 0
      BY <1>4, <1>6
    <3>3. Good(e, users, opening, kept)
      BY <1>3
    <3>4. LET d == files_destroy(e, t)
          IN  /\ Good(d, users, opening, kept)
              /\ d.table = [e.table EXCEPT ![t] = files_create]
      <4>1. kept \in [Inodes -> Nat] /\ t \in Tables
        OBVIOUS
      <4> QED  BY ONLY <4>1, <3>1, <3>2, <3>3, Destroys
    <3> QED  BY <3>4
  <2> QED  BY <1>1, <1>2, <1>3, <1>5, <1>6, <2>1 DEF r
<1>7. CASE n # 0
  <2>1. [s.table[t] EXCEPT !.count = n] = [s.table[t] EXCEPT !.count = @ - 1]
    BY DEF n
  <2>2. s.table[t].count # 1 /\ r = e
    BY <1>2, <1>5, <1>7
  <2>3. e.table = [s.table EXCEPT ![t] = IF s.table[t].count = 1 THEN files_create
                                         ELSE [s.table[t] EXCEPT !.count = @ - 1]]
    <3> DEFINE f == [s.table[t] EXCEPT !.count = @ - 1]
    <3>1. e.table = [s.table EXCEPT ![t] = f]
      BY <1>3, <2>1
    <3> HIDE DEF f
    <3>2. [s.table EXCEPT ![t] = f]
            = [s.table EXCEPT ![t] = IF s.table[t].count = 1 THEN files_create ELSE f]
      BY <2>2
    <3> QED  BY <3>1, <3>2 DEF f
  <2> QED  BY <1>3, <2>2, <2>3 DEF r
<1> QED  BY <1>6, <1>7

DupStep(s, to, from, v, e) ==
    IF File(s, from, e).status = "OPENED"
      THEN fd_array_dup(SetFile(v, to, e, [NoFile EXCEPT !.status = "INIT"]),
                        to, e, File(s, from, e))
    ELSE v

DupStart(s, to, from) ==
    LET pwd == s.table[from].pwd
        start == IF pwd = NULL THEN s ELSE inode_ref_inc(s, pwd)
    IN  [start EXCEPT !.table[to].pwd = pwd]

\* dup_files as a sequence of states.
LEMMA DupTurns ==
    ASSUME NEW s, NEW to, NEW from
    PROVE  \E f : /\ f = [e \in 0..NFD |-> IF e = 0 THEN DupStart(s, to, from)
                                           ELSE DupStep(s, to, from, f[e - 1], e - 1)]
                  /\ dup_files(s, to, from) = f[NFD]
<1>0. NFD \in Nat
  BY OpenFilesAssumption
<1> DEFINE Turns(f, n) ==
             f = [e \in 0..n |-> IF e = 0 THEN DupStart(s, to, from)
                                 ELSE DupStep(s, to, from, f[e - 1], e - 1)]
           T == {n \in Nat : \E f : Turns(f, n)}
<1>1. 0 \in T
  <2>1. Turns([e \in 0..0 |-> DupStart(s, to, from)], 0)
    OBVIOUS
  <2> HIDE DEF Turns
  <2> QED  BY <2>1
<1>2. ASSUME NEW n \in Nat, n \in T  PROVE n + 1 \in T
  <2>1. PICK f : Turns(f, n)
    BY <1>2
  <2> DEFINE g == [e \in 0..n + 1 |-> IF e <= n THEN f[e] ELSE DupStep(s, to, from, f[n], n)]
  <2> HIDE DEF Turns
  <2>3. Turns(g, n + 1)
    <3>1. \A e \in 0..n + 1 : g[e] = IF e = 0 THEN DupStart(s, to, from)
                                     ELSE DupStep(s, to, from, g[e - 1], e - 1)
      <4> SUFFICES ASSUME NEW e \in 0..n + 1
                   PROVE  g[e] = IF e = 0 THEN DupStart(s, to, from)
                                 ELSE DupStep(s, to, from, g[e - 1], e - 1)
        OBVIOUS
      <4>1. CASE e = 0
        BY <4>1, <2>1 DEF Turns
      <4>2. CASE e # 0 /\ e <= n
        <5>1. e \in 0..n /\ e - 1 \in 0..n + 1 /\ e - 1 <= n
          BY <4>2
        <5>2. f[e] = DupStep(s, to, from, f[e - 1], e - 1)
          BY <4>2, <5>1, <2>1 DEF Turns
        <5> QED  BY <4>2, <5>1, <5>2
      <4>3. CASE e = n + 1
        <5>1. e - 1 \in 0..n + 1 /\ e - 1 <= n /\ e - 1 = n /\ ~(e <= n) /\ e # 0
          BY <4>3
        <5> QED  BY <4>3, <5>1
      <4> QED  BY <4>1, <4>2, <4>3
    <3> DEFINE h == [e \in 0..n + 1 |-> IF e = 0 THEN DupStart(s, to, from)
                                        ELSE DupStep(s, to, from, g[e - 1], e - 1)]
    <3>2. \A e \in 0..n + 1 : g[e] = h[e]
      BY <3>1
    <3>3. g = [e \in 0..n + 1 |-> g[e]] /\ h = [e \in 0..n + 1 |-> h[e]]
      OBVIOUS
    <3>4. g = h
      <4> HIDE DEF g, h
      <4> QED  BY <3>2, <3>3
    <3> HIDE DEF g
    <3> QED  BY <3>4 DEF Turns
  <2> HIDE DEF g
  <2> QED  BY <2>3
<1>3. Nat \subseteq T
  <2> HIDE DEF T
  <2> QED  BY <1>1, <1>2, Induction
<1>4. \E f : Turns(f, NFD)
  BY <1>0, <1>3
<1> DEFINE copied == CHOOSE f : Turns(f, NFD)
<1>5. Turns(copied, NFD)
  <2> HIDE DEF Turns
  <2> QED  BY <1>4
<1>6. dup_files(s, to, from) = copied[NFD]
  BY DEF dup_files, DupStep, DupStart
<1> HIDE DEF copied
<1> QED  BY <1>5, <1>6

\* dup_files gives a blank table the files and the directory of another.
LEMMA DupsFiles ==
    ASSUME NEW s, NEW users, NEW opening, NEW kept, Good(s, users, opening, kept),
           NEW to \in Tables, NEW from \in Tables, to # from,
           s.table[to] = files_create, s.table[from].pwd \in Dirs
    PROVE  LET r == dup_files(s, to, from)
           IN  /\ Good(r, users, opening, kept)
               /\ \A c \in Tables : c # to => r.table[c] = s.table[c]
               /\ r.table[to].count = 0 /\ r.table[to].pwd \in Dirs
<1> DEFINE p == s.table[from].pwd
           a == inode_ref_inc(s, p)
           b == DupStart(s, to, from)
<1>0. /\ NFD \in Nat /\ s \in State /\ p \in Inodes /\ p # NULL
      /\ s.table \in [Tables -> FilesStruct]
  BY OpenFilesAssumption DEF Good, Inodes, State
<1>1. Moves(s, a, p, 1, 0)
  BY <1>0, RefInc
<1>2. b = [a EXCEPT !.table[to].pwd = p]
  BY <1>0 DEF DupStart
<1>3. /\ a \in State /\ a.table = s.table
  BY <1>1 DEF Moves
<1>4. /\ b.table = [s.table EXCEPT ![to] = [s.table[to] EXCEPT !.pwd = p]]
      /\ b.inode = a.inode
  <2> HIDE DEF a, b, p
  <2> QED  BY <1>2, <1>3 DEF State
<1>5. [s.table[to] EXCEPT !.pwd = p] \in FilesStruct
  BY <1>0 DEF FilesStruct
<1>6. b \in State
  <2> HIDE DEF a, b, p
  <2>1. b.table \in [Tables -> FilesStruct]
    BY <1>0, <1>4, <1>5
  <2>2. b = [a EXCEPT !.table = b.table]
    BY <1>2, <1>3 DEF State
  <2> QED  BY <1>3, <2>1, <2>2 DEF State
<1>7. /\ b.table[to].pwd = p /\ b.table[to].count = 0
      /\ b.table[to].fd = [d \in FD |-> NoFile]
      /\ \A c \in Tables : c # to => b.table[c] = s.table[c]
  <2>1. b.table[to] = [s.table[to] EXCEPT !.pwd = p]
    <3> HIDE DEF b, p
    <3> QED  BY <1>0, <1>4
  <2>2. \A c \in Tables : c # to => b.table[c] = s.table[c]
    <3> HIDE DEF b, p
    <3> QED  BY <1>0, <1>4
  <2> HIDE DEF b, p
  <2> QED  BY <2>1, <2>2 DEF files_create
<1>8. Good(b, users, opening, kept)
  <2>1. \A c \in Tables, d \in FD : b.table[c].fd[d] = s.table[c].fd[d]
    <3>1. s.table[to].fd = [d \in FD |-> NoFile]
      BY DEF files_create
    <3> HIDE DEF b, p
    <3> QED  BY <1>7, <3>1
  <2>2. kept \in [Inodes -> Int]
    BY DEF Good
  <2>3. \A i \in Inodes :
          /\ b.inode[i].open = s.inode[i].open
          /\ b.inode[i].open <= b.inode[i].ref
          /\ b.inode[i].ref + Bit(s.table[to].pwd = i) + kept[i]
               = s.inode[i].ref + Bit(b.table[to].pwd = i) + kept[i]
    <3> TAKE i \in Inodes
    <3>1. /\ b.inode[i].open = s.inode[i].open + 0
          /\ b.inode[i].ref = s.inode[i].ref + (IF i = p THEN 1 ELSE 0)
      BY <1>1, <1>4 DEF Moves
    <3>2. s.table[to].pwd = NULL /\ i # NULL
      BY OpenFilesAssumption DEF files_create, Inodes
    <3> HIDE DEF b, p
    <3>3. Bit(s.table[to].pwd = i) = 0 /\ Bit(b.table[to].pwd = i) = (IF i = p THEN 1 ELSE 0)
      BY <1>7, <3>2 DEF Bit
    <3>4. /\ s.inode[i].open \in Nat /\ s.inode[i].ref \in Nat /\ kept[i] \in Int
          /\ s.inode[i].open <= s.inode[i].ref
      BY <2>2 DEF Good, State, Node
    <3> QED  BY <3>1, <3>3, <3>4
  <2>4. \A c \in Tables : c # to => b.table[c].pwd = s.table[c].pwd
    BY <1>7
  <2>5. Good(s, users, opening, kept) /\ to \in Tables
    OBVIOUS
  <2> HIDE DEF b
  <2> QED  BY ONLY <1>6, <2>1, <2>2, <2>3, <2>4, <2>5, PwdChange
<1>9. PICK f : /\ f = [e \in 0..NFD |-> IF e = 0 THEN DupStart(s, to, from)
                                        ELSE DupStep(s, to, from, f[e - 1], e - 1)]
               /\ dup_files(s, to, from) = f[NFD]
  BY DupTurns
<1> DEFINE P(n) == /\ Good(f[n], users, opening, kept) /\ Only(b, f[n], to)
                   /\ \A e \in FD : n <= e => f[n].table[to].fd[e] = NoFile
           T == {n \in Nat : n <= NFD => P(n)}
<1>10. 0 \in T
  <2>1. f[0] = b
    BY <1>0, <1>9
  <2>2. P(0)
    <3> HIDE DEF b
    <3> QED  BY <1>6, <1>7, <1>8, <2>1 DEF Only
  <2> HIDE DEF P
  <2> QED  BY <2>2
<1>11. ASSUME NEW n \in Nat, n \in T PROVE n + 1 \in T
  <2> SUFFICES ASSUME n + 1 <= NFD PROVE P(n + 1)
    OBVIOUS
  <2> DEFINE v == f[n]
             w == f[n + 1]
             file == s.table[from].fd[n]
  <2>1. Good(v, users, opening, kept) /\ Only(b, v, to)
        /\ \A e \in FD : n <= e => v.table[to].fd[e] = NoFile
    BY <1>0, <1>11
  <2>2. n \in FD /\ n + 1 \in 0..NFD /\ n + 1 # 0 /\ (n + 1) - 1 = n
    BY <1>0 DEF FD
  <2>3. w = DupStep(s, to, from, v, n)
    BY <1>9, <2>2
  <2>4. v \in State
    BY <2>1 DEF Good
  <2> HIDE DEF b, v, w
  <2>5. CASE file.status = "OPENED"
    <3>1. w = fd_array_dup(SetFile(v, to, n, [NoFile EXCEPT !.status = "INIT"]), to, n, file)
      BY <2>3, <2>5 DEF DupStep, File
    <3>2. file \in Entry /\ EntryOK(file, users[<<from, n>>], <<from, n>> \in opening)
      BY <2>2, EntryAt
    <3>3. file.node \in Inodes
      BY <2>5, <3>2 DEF EntryOK
    <3>4. v.table[to].fd[n].status = "NONE"
      BY <2>1, <2>2 DEF NoFile
    <3> DEFINE g == [file EXCEPT !.count = 1]
    <3> HIDE DEF file
    <3>5. Becomes(v, w, to, n, g) /\ Good(w, users, opening, kept)
      BY <2>1, <2>2, <2>5, <3>1, <3>2, <3>3, <3>4, Dups
    <3> HIDE DEF g
    <3>6. Only(b, w, to)
      BY <2>1, <2>2, <2>4, <3>5, BecomesOnly, OnlyTwice
    <3>7. \A e \in FD : e # n => w.table[to].fd[e] = v.table[to].fd[e]
      BY <2>2, <2>4, <3>5, BecomesAt
    <3>8. \A e \in FD : n + 1 <= e => w.table[to].fd[e] = NoFile
      <4>1. \A e \in FD : n + 1 <= e => n <= e /\ e # n
        BY DEF FD
      <4> QED  BY <2>1, <3>7, <4>1
    <3> QED  BY <3>5, <3>6, <3>8 DEF w
  <2>6. CASE file.status # "OPENED"
    <3>1. w = v
      BY <2>3, <2>6 DEF DupStep, File
    <3>2. \A e \in FD : n + 1 <= e => n <= e
      BY DEF FD
    <3> QED  BY <2>1, <3>1, <3>2 DEF w
  <2> QED  BY <2>5, <2>6
<1>12. Nat \subseteq T
  <2> HIDE DEF T
  <2> QED  BY <1>10, <1>11, Induction
<1>13. P(NFD)
  <2> HIDE DEF P
  <2> QED  BY <1>0, <1>12
<1> HIDE DEF b
<1>14. /\ \A c \in Tables : c # to => f[NFD].table[c] = s.table[c]
       /\ f[NFD].table[to].count = 0 /\ f[NFD].table[to].pwd \in Dirs
  BY <1>7, <1>13 DEF Only
<1> QED  BY <1>9, <1>13, <1>14

-----------------------------------------------------------------------------
(* Changing the directory: vfs_chdir *)

\* A reference to an inode that the caller keeps.
LEMMA RefIncGood ==
    ASSUME NEW s, NEW users, NEW opening, NEW kept \in [Inodes -> Nat],
           Good(s, users, opening, kept), NEW t \in Tables, NEW i \in Inodes
    PROVE  /\ Good(inode_ref_inc(s, i), users, opening, [kept EXCEPT ![i] = @ + 1])
           /\ inode_ref_inc(s, i).table = s.table
<1>1. s \in State
  BY DEF Good
<1>2. Moves(s, inode_ref_inc(s, i), i, 1, 0)
  BY <1>1, RefInc
<1>3. inode_ref_inc(s, i).table = s.table
  BY <1>2 DEF Moves
<1> QED  BY <1>2, <1>3, Forgotten

\* A reference that the caller has kept and gives back.
LEMMA RefDecGood ==
    ASSUME NEW s, NEW users, NEW opening, NEW kept \in [Inodes -> Nat],
           Good(s, users, opening, kept), Tables # {}, NEW i \in Inodes, kept[i] > 0
    PROVE  /\ Good(inode_ref_dec(s, i), users, opening, [kept EXCEPT ![i] = @ - 1])
           /\ inode_ref_dec(s, i).table = s.table
<1> DEFINE u == inode_ref_dec(s, i)
           kept2 == [kept EXCEPT ![i] = @ - 1]
<1>1. s \in State
  BY DEF Good
<1>2. s.inode[i].open < s.inode[i].ref
  <2>1. /\ Cardinality(HoldersIn(s, i)) \in Nat /\ Cardinality(PwdsIn(s, i)) \in Nat
    BY FiniteHolders
  <2>2. /\ s.inode[i].open = Cardinality(HoldersIn(s, i))
        /\ s.inode[i].ref = Cardinality(HoldersIn(s, i)) + Cardinality(PwdsIn(s, i)) + kept[i]
    BY DEF Good
  <2>3. kept[i] \in Nat
    OBVIOUS
  <2> QED  BY <2>1, <2>2, <2>3
<1>3. Moves(s, u, i, -1, 0)
  BY <1>1, <1>2, RefDec
<1>4. u \in State /\ u.table = s.table
  BY <1>3 DEF Moves
<1>5. kept2 \in [Inodes -> Int] /\ kept \in [Inodes -> Int]
  OBVIOUS
<1> PICK t \in Tables : TRUE
  OBVIOUS
<1>6. \A j \in Inodes :
        /\ u.inode[j].open = s.inode[j].open
        /\ u.inode[j].open <= u.inode[j].ref
        /\ u.inode[j].ref + Bit(s.table[t].pwd = j) + kept[j]
             = s.inode[j].ref + Bit(u.table[t].pwd = j) + kept2[j]
  <2> TAKE j \in Inodes
  <2>1. /\ u.inode[j].open = s.inode[j].open + 0
        /\ u.inode[j].ref = s.inode[j].ref + (IF j = i THEN -1 ELSE 0)
    BY <1>3 DEF Moves
  <2>2. /\ s.inode[j].open \in Nat /\ s.inode[j].ref \in Nat
        /\ s.inode[j].open <= s.inode[j].ref /\ Bit(s.table[t].pwd = j) \in Nat
    BY <1>1 DEF Good, State, Node, Bit
  <2>3. kept2[j] = kept[j] + (IF j = i THEN -1 ELSE 0) /\ kept[j] \in Nat
    OBVIOUS
  <2> HIDE DEF u, kept2
  <2> QED  BY <1>2, <1>4, <2>1, <2>2, <2>3
<1>7. \A c \in Tables, d \in FD : u.table[c].fd[d] = s.table[c].fd[d]
  BY <1>4
<1>8. \A c \in Tables : c # t => u.table[c].pwd = s.table[c].pwd
  BY <1>4
<1>9. Good(s, users, opening, kept) /\ t \in Tables
  OBVIOUS
<1> HIDE DEF u, kept2
<1>10. Good(u, users, opening, kept2)
  BY ONLY <1>4, <1>5, <1>6, <1>7, <1>8, <1>9, PwdChange
<1> QED  BY <1>4, <1>10 DEF u, kept2

\* vfs_chdir where the name is not that of a new directory.
LEMMA Looks ==
    ASSUME NEW s, NEW users, NEW opening, NEW kept \in [Inodes -> Nat],
           Good(s, users, opening, kept), NEW t \in Tables, NEW i \in Inodes
    PROVE  LET r == inode_ref_dec(inode_ref_inc(s, i), i)
           IN  Good(r, users, opening, kept) /\ r.table = s.table
<1> DEFINE a == inode_ref_inc(s, i)
           kept1 == [kept EXCEPT ![i] = @ + 1]
<1>1. Good(a, users, opening, kept1) /\ a.table = s.table
  BY RefIncGood
<1>2. /\ kept1 \in [Inodes -> Nat] /\ kept1[i] > 0 /\ Tables # {}
      /\ [kept1 EXCEPT ![i] = @ - 1] = kept
  <2> HIDE DEF a
  <2>1. kept1 \in [Inodes -> Nat] /\ kept1[i] > 0 /\ Tables # {}
    OBVIOUS
  <2>2. (kept[i] + 1) - 1 = kept[i] /\ kept[i] \in Nat
    OBVIOUS
  <2>3. [kept1 EXCEPT ![i] = @ - 1] = kept
    BY <2>2
  <2> QED  BY <2>1, <2>3
<1> HIDE DEF a, kept1
<1>3. /\ Good(inode_ref_dec(a, i), users, opening, [kept1 EXCEPT ![i] = @ - 1])
      /\ inode_ref_dec(a, i).table = a.table
  BY <1>1, <1>2, RefDecGood
<1> QED  BY <1>1, <1>2, <1>3 DEF a

\* vfs_chdir to another directory.
LEMMA Chdirs ==
    ASSUME NEW s, NEW users, NEW opening, NEW kept \in [Inodes -> Nat],
           Good(s, users, opening, kept), NEW t \in Tables, NEW i \in Dirs,
           s.table[t].pwd \in Dirs, s.table[t].pwd # i
    PROVE  LET old == s.table[t].pwd
               set == [inode_ref_inc(inode_ref_inc(s, i), i) EXCEPT !.table[t].pwd = i]
               r   == inode_ref_dec(inode_ref_dec(set, old), i)
           IN  /\ Good(r, users, opening, kept)
               /\ r.table = [s.table EXCEPT ![t] = [@ EXCEPT !.pwd = i]]
<1> DEFINE old == s.table[t].pwd
           a == inode_ref_inc(s, i)
           b == inode_ref_inc(a, i)
           set == [b EXCEPT !.table[t].pwd = i]
           c == inode_ref_dec(set, old)
           r == inode_ref_dec(c, i)
           kept1 == [kept EXCEPT ![i] = @ + 1]
           kept2 == [kept1 EXCEPT ![i] = @ + 1]
           kept3 == [kept1 EXCEPT ![old] = @ + 1]
<1>0. i \in Inodes /\ old \in Inodes /\ s \in State /\ i # old
  BY DEF Inodes, Good
<1>1. Good(a, users, opening, kept1) /\ a.table = s.table
  BY <1>0, RefIncGood
<1>2. kept1 \in [Inodes -> Nat] /\ Tables # {}
  BY <1>0
<1>3. Good(b, users, opening, kept2) /\ b.table = s.table
  <2> HIDE DEF a, kept1
  <2> QED  BY <1>0, <1>1, <1>2, RefIncGood
<1>4. /\ kept2 \in [Inodes -> Int] /\ kept3 \in [Inodes -> Nat]
      /\ \A j \in Inodes : /\ kept2[j] = kept[j] + Bit(i = j) + Bit(i = j)
                           /\ kept3[j] = kept[j] + Bit(i = j) + Bit(old = j)
                           /\ kept[j] \in Nat
  BY <1>0 DEF Bit
<1>5. kept3[old] > 0 /\ [kept3 EXCEPT ![old] = @ - 1] = kept1
      /\ kept1[i] > 0 /\ [kept1 EXCEPT ![i] = @ - 1] = kept
  BY <1>0
<1>6. b \in State /\ b.table \in [Tables -> FilesStruct]
  BY <1>3 DEF Good, State
<1>7. /\ set.table = [s.table EXCEPT ![t] = [@ EXCEPT !.pwd = i]]
      /\ set.inode = b.inode
  <2> HIDE DEF b
  <2> QED  BY <1>3, <1>6 DEF State
<1>8. set \in State
  <2> HIDE DEF b, set
  <2>1. [s.table[t] EXCEPT !.pwd = i] \in FilesStruct
    BY <1>3, <1>6 DEF FilesStruct
  <2>2. set.table \in [Tables -> FilesStruct]
    BY <1>3, <1>6, <1>7, <2>1
  <2>3. set = [b EXCEPT !.table = set.table]
    BY <1>6, <1>7 DEF State, set
  <2> QED  BY <1>6, <2>2, <2>3 DEF State
<1>9. /\ set.table[t].pwd = i
      /\ \A x \in Tables : x # t => set.table[x] = s.table[x]
      /\ \A x \in Tables : set.table[x].fd = s.table[x].fd
  <2> HIDE DEF b, set
  <2> QED  BY <1>3, <1>6, <1>7 DEF FilesStruct
<1>10. Good(set, users, opening, kept3)
  <2>1. \A j \in Inodes :
          /\ set.inode[j].open = b.inode[j].open
          /\ set.inode[j].open <= set.inode[j].ref
          /\ set.inode[j].ref + Bit(b.table[t].pwd = j) + kept2[j]
               = b.inode[j].ref + Bit(set.table[t].pwd = j) + kept3[j]
    <3> TAKE j \in Inodes
    <3>1. b.table[t].pwd = old
      BY <1>3
    <3>2. /\ b.inode[j].open \in Nat /\ b.inode[j].ref \in Nat
          /\ b.inode[j].open <= b.inode[j].ref
      <4> HIDE DEF b, kept2
      <4> QED  BY <1>3, <1>6 DEF Good, State, Node
    <3>3. Bit(i = j) \in Nat /\ Bit(old = j) \in Nat
      BY DEF Bit
    <3> HIDE DEF b, set, kept2, kept3, old
    <3> QED  BY <1>4, <1>7, <1>9, <3>1, <3>2, <3>3
  <2>2. \A x \in Tables, d \in FD : set.table[x].fd[d] = b.table[x].fd[d]
    <3> HIDE DEF b, set
    <3> QED  BY <1>3, <1>9
  <2>3. \A x \in Tables : x # t => set.table[x].pwd = b.table[x].pwd
    <3> HIDE DEF b, set
    <3> QED  BY <1>3, <1>9
  <2>4. Good(b, users, opening, kept2) /\ t \in Tables /\ kept3 \in [Inodes -> Int]
    <3> HIDE DEF b, kept2, kept3
    <3> QED  BY <1>3, <1>4
  <2> HIDE DEF b, set, kept2, kept3
  <2> QED  BY ONLY <1>8, <2>1, <2>2, <2>3, <2>4, PwdChange
<1> HIDE DEF b, set, kept2, kept3, kept1
<1>11. /\ Good(c, users, opening, [kept3 EXCEPT ![old] = @ - 1])
       /\ c.table = set.table
  <2>1. kept3 \in [Inodes -> Nat] /\ old \in Inodes /\ kept3[old] > 0 /\ Tables # {}
    BY <1>0, <1>2, <1>4, <1>5
  <2> HIDE DEF old
  <2> QED  BY ONLY <1>10, <2>1, RefDecGood
<1> HIDE DEF c
<1>12. Good(c, users, opening, kept1)
  BY <1>5, <1>11
<1>13. /\ Good(r, users, opening, [kept1 EXCEPT ![i] = @ - 1])
       /\ r.table = c.table
  <2>1. kept1[i] > 0 /\ i \in Inodes
    BY <1>0, <1>5
  <2> QED  BY ONLY <1>2, <1>12, <2>1, RefDecGood
<1> HIDE DEF r
<1>14. r.table = [s.table EXCEPT ![t] = [@ EXCEPT !.pwd = i]] /\ Good(r, users, opening, kept)
  BY <1>5, <1>7, <1>11, <1>13
<1> QED  BY <1>14 DEF r, c, set, b

-----------------------------------------------------------------------------
(* The processes *)

\* Who uses an entry, or has a table, can be counted.
LEMMA FiniteBusy ==
    ASSUME ProcsOK, NEW t, NEW d, NEW op
    PROVE  /\ IsFiniteSet(Busy(t, d, op)) /\ Cardinality(Busy(t, d, op)) \in Nat
           /\ IsFiniteSet(Sharers(t)) /\ Cardinality(Sharers(t)) \in Nat
<1>1. Busy(t, d, op) \subseteq Procs /\ Sharers(t) \subseteq Procs
  BY DEF ProcsOK, Busy, Sharers
<1> QED  BY <1>1, OpenFilesAssumption, FS_Subset, FS_CardinalityType

\* The users of entries are a function to the numbers.
LEMMA UsingType ==
    ASSUME ProcsOK
    PROVE  /\ Using \in [Entries -> Nat] /\ Kept \in [Inodes -> Nat]
           /\ \A t \in Tables, d \in FD : Using[<<t, d>>] = Cardinality(Busy(t, d, "use"))
           /\ \A t \in Tables, d \in FD : <<t, d>> \in Opening <=> Busy(t, d, "open") # {}
           /\ Opening \subseteq Entries
<1>1. \A x \in Entries : Cardinality(Busy(x[1], x[2], "use")) \in Nat
  BY FiniteBusy
<1>2. Using \in [Entries -> Nat]
  BY <1>1 DEF Using
<1>3. Kept \in [Inodes -> Nat]
  BY DEF Kept, ProcsOK
<1> QED  BY <1>2, <1>3 DEF Using, Opening, Entries

\* A process has a table, that is not blank.
LEMMA HasTable ==
    ASSUME ProcsOK, TablesOK, NEW p \in alive
    PROVE  /\ filesp[p] \in Tables /\ table[filesp[p]].count > 0
           /\ table[filesp[p]].pwd \in Dirs /\ p \in Procs
<1> DEFINE t == filesp[p]
<1>1. t \in Tables /\ p \in Procs
  BY DEF ProcsOK
<1>2. p \in Sharers(t)
  BY DEF Sharers
<1>3. Cardinality(Sharers(t)) # 0 /\ Cardinality(Sharers(t)) \in Nat
  BY <1>2, FiniteBusy, FS_EmptySet
<1>4. table[t].count \in 0..MAX_COUNT /\ Cardinality(Sharers(t)) <= table[t].count
  BY <1>1 DEF TablesOK
<1>5. table[t].count > 0
  BY <1>3, <1>4, OpenFilesAssumption
<1> QED  BY <1>1, <1>5 DEF TablesOK

\* An operation that changes the entries of one table in use.
LEMMA TablesKept ==
    ASSUME TablesOK, NEW s, NEW t \in Tables, Only(Now, s, t), table' = s.table,
           table[t].count > 0, filesp' = filesp, alive' = alive
    PROVE  TablesOK'
<1>1. \A c \in Tables : c # t => table'[c] = table[c]
  BY DEF Only, Now
<1>2. table'[t].count = table[t].count /\ table'[t].pwd = table[t].pwd
  BY DEF Only, Now
<1>3. \A c : Sharers(c)' = Sharers(c)
  BY DEF Sharers
<1> SUFFICES ASSUME NEW c \in Tables
             PROVE  /\ table'[c].count \in 0..MAX_COUNT
                    /\ Cardinality(Sharers(c)') <= table'[c].count
                    /\ table'[c].count = 0 => table'[c] = files_create
                    /\ table'[c].count > 0 => table'[c].pwd \in Dirs
  BY DEF TablesOK
<1>4. /\ table[c].count \in 0..MAX_COUNT
      /\ Cardinality(Sharers(c)) <= table[c].count
      /\ table[c].count = 0 => table[c] = files_create
      /\ table[c].count > 0 => table[c].pwd \in Dirs
  BY DEF TablesOK
<1>5. CASE c # t
  BY <1>1, <1>3, <1>4, <1>5
<1>6. CASE c = t
  BY <1>2, <1>3, <1>4, <1>6
<1> QED  BY <1>5, <1>6

\* TablesOK reads nothing but the tables and who has them.
LEMMA TablesSame ==
    ASSUME TablesOK, table' = table, filesp' = filesp, alive' = alive
    PROVE  TablesOK'
BY DEF TablesOK, Sharers

\* Nobody begins or ends an operation.
LEMMA NobodyMoves ==
    ASSUME ProcsOK, pc' = pc, lost' = lost,
           \A p : p \in alive' /\ pc[p].op # "user" <=> p \in alive /\ pc[p].op # "user",
           \A p : p \in alive /\ pc[p].op # "user" => filesp'[p] = filesp[p]
    PROVE  Using' = Using /\ Opening' = Opening /\ Kept' = Kept /\ (OneOpener => OneOpener')
<1>1. \A t, d : Busy(t, d, "use")' = Busy(t, d, "use") /\ Busy(t, d, "open")' = Busy(t, d, "open")
  BY DEF Busy
<1> QED  BY <1>1 DEF Using, Opening, Kept, OneOpener

\* The process p begins an operation on the entry d of its table.
LEMMA Begins ==
    ASSUME ProcsOK, NEW p \in alive, pc[p] = User, NEW d \in FD, NEW c,
           c.fd = d, filesp' = filesp, alive' = alive, lost' = lost,
           pc' = [pc EXCEPT ![p] = c]
    PROVE  LET x == <<filesp[p], d>>
           IN  /\ Kept' = Kept
               /\ c.op = "use" => /\ Using' = [Using EXCEPT ![x] = @ + 1]
                                  /\ Opening' = Opening /\ (OneOpener => OneOpener')
               /\ c.op = "open" => /\ Using' = Using /\ Opening' = Opening \cup {x}
                                   /\ x \notin Opening /\ OneOpener => OneOpener'
<1> DEFINE t == filesp[p]
           x == <<t, d>>
<1>1. p \in Procs /\ t \in Tables /\ x \in Entries /\ DOMAIN pc = Procs /\ x[1] = t /\ x[2] = d
  BY DEF ProcsOK, Entries
<1>2. pc[p].op = "user" /\ pc'[p] = c /\ \A q \in Procs : q # p => pc'[q] = pc[q]
  BY <1>1 DEF User, ProcsOK
<1>3. \A q \in alive : q \in Procs
  BY DEF ProcsOK
<1>4. ASSUME NEW b, NEW e, NEW op \in {"use", "open"}
      PROVE  /\ p \notin Busy(b, e, op)
             /\ Busy(b, e, op)' = IF b = t /\ e = d /\ op = c.op THEN Busy(b, e, op) \cup {p}
                                  ELSE Busy(b, e, op)
  BY <1>1, <1>2, <1>3 DEF Busy
<1>5. Kept' = Kept
  BY DEF Kept
<1>6. ASSUME c.op = "use"
      PROVE  /\ Using' = [Using EXCEPT ![x] = @ + 1]
             /\ Opening' = Opening /\ (OneOpener => OneOpener')
  <2>1. \A b, e : Busy(b, e, "open")' = Busy(b, e, "open")
    BY <1>4, <1>6
  <2>2. Cardinality(Busy(t, d, "use") \cup {p}) = Cardinality(Busy(t, d, "use")) + 1
    BY <1>4, FiniteBusy, FS_AddElement
  <2>3. \A y \in Entries : Using'[y] = IF y = x THEN Using[y] + 1 ELSE Using[y]
    <3> TAKE y \in Entries
    <3>1. y = <<y[1], y[2]>>
      BY DEF Entries
    <3>2. CASE y = x
      BY <1>1, <1>4, <1>6, <2>2, <3>2 DEF Using
    <3>3. CASE y # x
      <4>1. ~ (y[1] = t /\ y[2] = d)
        BY <3>1, <3>3
      <4>2. Busy(y[1], y[2], "use")' = Busy(y[1], y[2], "use")
        BY <1>4, <4>1
      <4> QED  BY <3>3, <4>2 DEF Using
    <3> QED  BY <3>2, <3>3
  <2>4. Using' = [Using EXCEPT ![x] = @ + 1]
    <3>1. Using = [y \in Entries |-> Using[y]] /\ Using' = [y \in Entries |-> Using'[y]]
      BY DEF Using
    <3> HIDE DEF x
    <3> QED  BY <2>3, <3>1
  <2> QED  BY <2>1, <2>4 DEF Opening, OneOpener
<1>7. ASSUME c.op = "open"
      PROVE  /\ Using' = Using /\ Opening' = Opening \cup {x}
             /\ x \notin Opening /\ OneOpener => OneOpener'
  <2>1. \A b, e : Busy(b, e, "use")' = Busy(b, e, "use")
    BY <1>4, <1>7
  <2>2. \A y \in Entries : Busy(y[1], y[2], "open")'
                             = IF y = x THEN Busy(y[1], y[2], "open") \cup {p}
                               ELSE Busy(y[1], y[2], "open")
    <3> TAKE y \in Entries
    <3>1. y = <<y[1], y[2]>>
      BY DEF Entries
    <3>2. y = x <=> y[1] = t /\ y[2] = d
      BY <3>1
    <3> HIDE DEF x, t
    <3> QED  BY <1>4, <1>7, <3>2
  <2>3. Opening' = Opening \cup {x}
    BY <1>1, <2>2 DEF Opening
  <2>4. x \notin Opening => Busy(x[1], x[2], "open") = {}
    BY <1>1 DEF Opening
  <2>5. x \notin Opening /\ OneOpener => OneOpener'
    <3> HIDE DEF x
    <3>1. x \notin Opening /\ OneOpener =>
            \A y \in Entries : \A q, r \in Busy(y[1], y[2], "open")' : q = r
      BY <2>2, <2>4 DEF OneOpener
    <3> QED  BY <3>1 DEF OneOpener
  <2> QED  BY <2>1, <2>3, <2>5 DEF Using
<1> QED  BY <1>5, <1>6, <1>7

\* The process p ends its operation.
LEMMA Ends ==
    ASSUME ProcsOK, OneOpener, NEW p, pc[p].op # "user", p \in Procs,
           filesp' = filesp, alive' = alive, pc' = [pc EXCEPT ![p] = User]
    PROVE  LET x == <<filesp[p], pc[p].fd>>
           IN  /\ OneOpener'
               /\ pc[p].op = "use" => /\ Using[x] > 0 /\ Opening' = Opening
                                      /\ Using' = [Using EXCEPT ![x] = @ - 1]
               /\ pc[p].op = "open" => /\ Using' = Using /\ x \in Opening
                                       /\ Opening' = Opening \ {x}
<1> DEFINE t == filesp[p]
           d == pc[p].fd
           x == <<t, d>>
<1>1. /\ p \in alive /\ t \in Tables /\ d \in FD /\ x \in Entries /\ DOMAIN pc = Procs
      /\ x[1] = t /\ x[2] = d /\ pc[p].op \in {"use", "open"}
  BY DEF ProcsOK, Entries, Calls
<1>2. pc'[p].op = "user" /\ \A q \in Procs : q # p => pc'[q] = pc[q]
  BY <1>1 DEF User
<1>3. \A q \in alive : q \in Procs
  BY DEF ProcsOK
<1>4. ASSUME NEW b, NEW e, NEW op \in {"use", "open"}
      PROVE  /\ p \in Busy(b, e, op) <=> b = t /\ e = d /\ op = pc[p].op
             /\ Busy(b, e, op)' = IF b = t /\ e = d /\ op = pc[p].op THEN Busy(b, e, op) \ {p}
                                  ELSE Busy(b, e, op)
  <2>1. p \in Busy(b, e, op) <=> b = t /\ e = d /\ op = pc[p].op
    BY <1>1 DEF Busy
  <2>2. Busy(b, e, op)' = Busy(b, e, op) \ {p}
    BY <1>1, <1>2, <1>3 DEF Busy
  <2> HIDE DEF t, d
  <2> QED  BY <2>1, <2>2
<1>5. OneOpener'
  <2>1. \A b, e : Busy(b, e, "open")' \subseteq Busy(b, e, "open")
    BY <1>4
  <2> QED  BY <2>1 DEF OneOpener
<1>6. ASSUME pc[p].op = "use"
      PROVE  /\ Using[x] > 0 /\ Opening' = Opening
             /\ Using' = [Using EXCEPT ![x] = @ - 1]
  <2>1. \A b, e : Busy(b, e, "open")' = Busy(b, e, "open")
    BY <1>4, <1>6
  <2>2. p \in Busy(t, d, "use")
    BY <1>4, <1>6
  <2>3. /\ Cardinality(Busy(t, d, "use") \ {p}) = Cardinality(Busy(t, d, "use")) - 1
        /\ Cardinality(Busy(t, d, "use")) > 0
    <3> DEFINE B == Busy(t, d, "use")
    <3>1. IsFiniteSet(B) /\ Cardinality(B) \in Nat /\ p \in B
      BY <2>2, FiniteBusy
    <3> HIDE DEF B
    <3>2. Cardinality(B \ {p}) = Cardinality(B) - 1
      BY <3>1, FS_RemoveElement
    <3>3. Cardinality(B) # 0
      BY <3>1, FS_EmptySet
    <3> QED  BY <3>1, <3>2, <3>3 DEF B
  <2>4. \A y \in Entries : Using'[y] = IF y = x THEN Using[y] - 1 ELSE Using[y]
    <3> TAKE y \in Entries
    <3>1. y = <<y[1], y[2]>>
      BY DEF Entries
    <3>2. CASE y = x
      BY <1>1, <1>4, <1>6, <2>3, <3>2 DEF Using
    <3>3. CASE y # x
      <4>1. ~ (y[1] = t /\ y[2] = d)
        BY <3>1, <3>3
      <4>2. Busy(y[1], y[2], "use")' = Busy(y[1], y[2], "use")
        BY <1>4, <4>1
      <4> QED  BY <3>3, <4>2 DEF Using
    <3> QED  BY <3>2, <3>3
  <2>5. Using' = [Using EXCEPT ![x] = @ - 1]
    <3>1. Using = [y \in Entries |-> Using[y]] /\ Using' = [y \in Entries |-> Using'[y]]
      BY DEF Using
    <3> HIDE DEF x
    <3> QED  BY <2>4, <3>1
  <2>6. Using[x] > 0
    BY <1>1, <2>3 DEF Using
  <2> QED  BY <2>1, <2>5, <2>6 DEF Opening
<1>7. ASSUME pc[p].op = "open"
      PROVE  Using' = Using /\ x \in Opening /\ Opening' = Opening \ {x}
  <2>1. \A b, e : Busy(b, e, "use")' = Busy(b, e, "use")
    BY <1>4, <1>7
  <2>2. p \in Busy(t, d, "open")
    BY <1>4, <1>7
  <2>3. Busy(t, d, "open") \ {p} = {}
    BY <1>1, <2>2 DEF OneOpener
  <2>4. \A y \in Entries : Busy(y[1], y[2], "open")'
                             = IF y = x THEN {} ELSE Busy(y[1], y[2], "open")
    <3> TAKE y \in Entries
    <3>1. y = <<y[1], y[2]>>
      BY DEF Entries
    <3>2. y = x <=> y[1] = t /\ y[2] = d
      BY <3>1
    <3> HIDE DEF x, t, d
    <3> QED  BY <1>4, <1>7, <2>3, <3>2
  <2>5. Opening' = Opening \ {x}
    <3> HIDE DEF x
    <3> QED  BY <2>4 DEF Opening
  <2>6. x \in Opening
    BY <1>1, <2>2 DEF Opening
  <2> QED  BY <2>1, <2>5, <2>6 DEF Using
<1> QED  BY <1>1, <1>5, <1>6, <1>7

\* The state of a process outside of the kernel is one of its states.
LEMMA UserCalls == User \in Calls /\ User.op = "user"
<1>1. 0 \in FD
  BY OpenFilesAssumption DEF FD
<1> QED  BY <1>1 DEF User, Calls

\* A step of p that only enters or ends an operation keeps ProcsOK.
LEMMA ProcsKept ==
    ASSUME ProcsOK, NEW p \in alive, NEW c \in Calls,
           c.op = "open" => c.node \in Inodes \cup {"missing"},
           pc' = [pc EXCEPT ![p] = c],
           filesp' = filesp, alive' = alive, mm' = mm, lost' \in [Inodes -> Nat]
    PROVE  ProcsOK'
<1>1. p \in Procs /\ pc' \in [Procs -> Calls] /\ pc'[p] = c
      /\ \A q \in Procs : q # p => pc'[q] = pc[q]
  BY DEF ProcsOK
<1>2. \A q \in Procs : pc'[q].op = "open" => pc'[q].node \in Inodes \cup {"missing"}
  BY <1>1 DEF ProcsOK
<1>3. \A q \in Procs : pc'[q].op # "user" => q \in alive
  BY <1>1 DEF ProcsOK
<1> QED  BY <1>1, <1>2, <1>3 DEF ProcsOK

\* So does one in which nobody does, and some give up their mm.
LEMMA ProcsSame ==
    ASSUME ProcsOK, filesp' = filesp, alive' = alive, mm' \subseteq alive, pc' = pc, lost' = lost
    PROVE  ProcsOK'
BY DEF ProcsOK

\* The four parts make the invariant.
LEMMA Concludes ==
    ASSUME ProcsOK', TablesOK', OneOpener', NEW s, Become(s),
           Good(s, Using', Opening', Kept')
    PROVE  FilesInv'
<1>1. s = [inode |-> s.inode, table |-> s.table, panic |-> s.panic]
  BY DEF Good, State
<1>2. Now' = s
  BY <1>1 DEF Now, Become
<1>3. Good(Now', Using', Opening', Kept')
  BY <1>2
<1>4. Good(Now, Using, Opening, Kept)'
  BY <1>3
<1> QED  BY <1>4 DEF FilesInv

-----------------------------------------------------------------------------
(* The actions *)

\* A file that is being read or written: file_read and the like, up to the inode.
LEMMA UseStartKeeps ==
    ASSUME FilesInv, NEW p \in Procs, NEW d \in FD, NEW op \in Uses, UseStart(p, d, op)
    PROVE  FilesInv'
<1> DEFINE t == filesp[p]
           i == table[t].fd[d].node
           a == fd_array_acquire(Now, t, d)
           v == vop(a, i, op)
           c == [User EXCEPT !.op = "use", !.fd = d]
<1>1. ProcsOK /\ TablesOK /\ OneOpener /\ Good(Now, Using, Opening, Kept)
  BY DEF FilesInv
<1>2. /\ p \in alive /\ pc[p] = User /\ table[t].fd[d].status = "OPENED"
      /\ Become(v) /\ pc' = [pc EXCEPT ![p] = c]
      /\ UNCHANGED << filesp, alive, mm, lost >>
  BY DEF UseStart, Ready, Opened
<1>3. /\ t \in Tables /\ table[t].count > 0 /\ table[t].pwd \in Dirs
  BY <1>1, <1>2, HasTable
<1>4. Now.table = table
  BY DEF Now
<1>5. /\ Becomes(Now, a, t, d, [table[t].fd[d] EXCEPT !.count = @ + 1])
      /\ Good(a, [Using EXCEPT ![<<t, d>>] = @ + 1], Opening, Kept)
  <2> HIDE DEF t
  <2>1. Now.table[t].fd[d].status = "OPENED"
    BY <1>2, <1>4
  <2>2. /\ Becomes(Now, a, t, d, [Now.table[t].fd[d] EXCEPT !.count = @ + 1])
        /\ Good(a, [Using EXCEPT ![<<t, d>>] = @ + 1], Opening, Kept)
    BY <1>1, <1>3, <2>1, Acquires
  <2> QED  BY <1>4, <2>2
<1>6. Now \in State /\ i \in Inodes /\ op \in Operations
  <2>1. EntryOK(Now.table[t].fd[d], Using[<<t, d>>], <<t, d>> \in Opening)
    BY <1>1, <1>3, EntryAt
  <2>2. i \in Inodes
    BY <1>2, <1>4, <2>1 DEF EntryOK
  <2>3. Now \in State
    BY <1>1 DEF Good
  <2> QED  BY <2>2, <2>3 DEF Uses, Operations
<1>7. /\ Good(v, [Using EXCEPT ![<<t, d>>] = @ + 1], Opening, Kept)
      /\ v.table = a.table
  <2> HIDE DEF a, i, t
  <2> QED  BY <1>5, <1>6, VopGood
<1>8. Only(Now, v, t)
  <2>1. Only(Now, a, t)
    <3> HIDE DEF t, a
    <3> QED  BY <1>3, <1>5, <1>6, BecomesOnly
  <2>2. v \in State
    BY <1>7 DEF Good
  <2> HIDE DEF a, v, t
  <2> QED  BY <1>7, <2>1, <2>2 DEF Only
<1>9. c.fd = d /\ c.op = "use" /\ c \in Calls
  BY UserCalls DEF User, Calls
<1> HIDE DEF c, v, a
<1>10. /\ Kept' = Kept /\ Using' = [Using EXCEPT ![<<t, d>>] = @ + 1]
       /\ Opening' = Opening /\ OneOpener'
  BY <1>1, <1>2, <1>9, Begins
<1>11. TablesOK'
  <2>1. table' = v.table
    BY <1>2 DEF Become
  <2> HIDE DEF t
  <2> QED  BY <1>1, <1>2, <1>3, <1>8, <2>1, TablesKept
<1>12. ProcsOK'
  <2>1. lost' \in [Inodes -> Nat]
    BY <1>1, <1>2 DEF ProcsOK
  <2> QED  BY <1>1, <1>2, <1>9, <2>1, ProcsKept
<1> QED  BY <1>1, <1>2, <1>7, <1>10, <1>11, <1>12, Concludes

\* fd_array_release at the end of an operation.
LEMMA UseEndKeeps ==
    ASSUME FilesInv, NEW p \in Procs, UseEnd(p)
    PROVE  FilesInv'
<1> DEFINE t == filesp[p]
           d == pc[p].fd
           v == fd_array_release(Now, t, d)
<1>1. ProcsOK /\ TablesOK /\ OneOpener /\ Good(Now, Using, Opening, Kept)
  BY DEF FilesInv
<1>2. /\ pc[p].op = "use" /\ pc[p].op # "user"
      /\ Become(v) /\ pc' = [pc EXCEPT ![p] = User]
      /\ UNCHANGED << filesp, alive, mm, lost >>
  BY DEF UseEnd
<1>3. p \in alive /\ d \in FD
  BY <1>1, <1>2 DEF ProcsOK, Calls
<1>4. /\ t \in Tables /\ table[t].count > 0 /\ table[t].pwd \in Dirs
  BY <1>1, <1>3, HasTable
<1>5. /\ OneOpener' /\ Using[<<t, d>>] > 0 /\ Opening' = Opening
      /\ Using' = [Using EXCEPT ![<<t, d>>] = @ - 1]
  <2>1. LET x == <<filesp[p], pc[p].fd>>
        IN  /\ OneOpener'
            /\ pc[p].op = "use" => /\ Using[x] > 0 /\ Opening' = Opening
                                   /\ Using' = [Using EXCEPT ![x] = @ - 1]
            /\ pc[p].op = "open" => /\ Using' = Using /\ x \in Opening
                                    /\ Opening' = Opening \ {x}
    BY <1>1, <1>2, Ends
  <2> QED  BY <1>2, <2>1
<1>6. /\ \E f : Becomes(Now, v, t, d, f)
      /\ Good(v, [Using EXCEPT ![<<t, d>>] = @ - 1], Opening, Kept)
  <2> HIDE DEF t, d
  <2> QED  BY <1>1, <1>3, <1>4, <1>5, Releases
<1>7. Only(Now, v, t)
  <2>1. Now \in State
    BY <1>1 DEF Good
  <2> HIDE DEF t, d, v
  <2> QED  BY <1>3, <1>4, <1>6, <2>1, BecomesOnly
<1>8. Kept' = Kept
  BY <1>2 DEF Kept
<1> HIDE DEF v
<1>9. TablesOK'
  <2>1. table' = v.table
    BY <1>2 DEF Become
  <2> HIDE DEF t
  <2> QED  BY <1>1, <1>2, <1>4, <1>7, <2>1, TablesKept
<1>10. ProcsOK'
  <2>1. lost' \in [Inodes -> Nat]
    BY <1>1, <1>2 DEF ProcsOK
  <2> QED  BY <1>1, <1>2, <1>3, <2>1, UserCalls, ProcsKept
<1> QED  BY <1>2, <1>5, <1>6, <1>8, <1>9, <1>10, Concludes

\* An operation that begins and ends in one step, on the entries of one table.
LEMMA OneStepKeeps ==
    ASSUME FilesInv, NEW p \in alive, NEW s, Good(s, Using, Opening, Kept),
           Only(Now, s, filesp[p]), Become(s), mm' \subseteq alive,
           UNCHANGED << filesp, alive, pc, lost >>
    PROVE  FilesInv'
<1>1. ProcsOK /\ TablesOK /\ OneOpener
  BY DEF FilesInv
<1>2. filesp[p] \in Tables /\ table[filesp[p]].count > 0
  BY <1>1, HasTable
<1>3. TablesOK'
  <2>1. table' = s.table
    BY DEF Become
  <2> QED  BY <1>1, <1>2, <2>1, TablesKept
<1>4. ProcsOK'
  BY <1>1, ProcsSame
<1>5. Using' = Using /\ Opening' = Opening /\ Kept' = Kept /\ OneOpener'
  BY <1>1, NobodyMoves
<1> QED  BY <1>3, <1>4, <1>5, Concludes

\* file_close.
LEMMA CloseKeeps ==
    ASSUME FilesInv, NEW p \in Procs, NEW d \in FD, Close(p, d)
    PROVE  FilesInv'
<1> DEFINE t == filesp[p]
           v == fd_array_close(Now, t, d)
<1>1. ProcsOK /\ TablesOK /\ OneOpener /\ Good(Now, Using, Opening, Kept)
  BY DEF FilesInv
<1>2. /\ p \in alive /\ table[t].fd[d].status = "OPENED" /\ Become(v)
      /\ UNCHANGED << filesp, alive, pc, lost >> /\ mm' \subseteq alive
  BY <1>1 DEF Close, Ready, Opened, ProcsOK
<1>3. t \in Tables
  BY <1>1, <1>2, HasTable
<1>4. Now.table[t].fd[d].status = "OPENED" /\ Now \in State
  BY <1>1, <1>2 DEF Now, Good
<1>5. /\ \E f : Becomes(Now, v, t, d, f)
      /\ Good(v, Using, Opening, Kept)
  <2> HIDE DEF t
  <2> QED  BY <1>1, <1>3, <1>4, Closes
<1>6. Only(Now, v, t)
  <2> HIDE DEF t, v
  <2> QED  BY <1>3, <1>4, <1>5, BecomesOnly
<1> HIDE DEF v
<1> QED  BY <1>2, <1>5, <1>6, OneStepKeeps

\* file_dup.
LEMMA DupKeeps ==
    ASSUME FilesInv, NEW p \in Procs, NEW d \in FD, NEW e \in FD, Dup(p, d, e)
    PROVE  FilesInv'
<1> DEFINE t == filesp[p]
           from == table[t].fd[d]
           v == fd_array_dup(fd_array_alloc(Now, t, e), t, e, from)
<1>1. ProcsOK /\ TablesOK /\ OneOpener /\ Good(Now, Using, Opening, Kept)
  BY DEF FilesInv
<1>2. /\ p \in alive /\ from.status = "OPENED" /\ table[t].fd[e].status = "NONE" /\ Become(v)
      /\ UNCHANGED << filesp, alive, pc, lost >> /\ mm' \subseteq alive
  BY <1>1 DEF Dup, Ready, Opened, ProcsOK
<1>3. t \in Tables
  BY <1>1, <1>2, HasTable
<1>4. Now.table = table /\ Now \in State
  BY <1>1 DEF Now, Good
<1>5. from \in Entry /\ from.node \in Inodes
  <2>1. from \in Entry /\ EntryOK(from, Using[<<t, d>>], <<t, d>> \in Opening)
    BY <1>1, <1>3, <1>4, EntryAt
  <2> QED  BY <1>2, <2>1 DEF EntryOK
<1>6. fd_array_alloc(Now, t, e) = SetFile(Now, t, e, [NoFile EXCEPT !.status = "INIT"])
  <2> HIDE DEF t
  <2> QED  BY <1>1, <1>2, <1>3, <1>4, Allocates
<1>7. /\ \E f : Becomes(Now, v, t, e, f)
      /\ Good(v, Using, Opening, Kept)
  <2> HIDE DEF t, from
  <2>1. Now.table[t].fd[e].status = "NONE"
    BY <1>2, <1>4
  <2> QED  BY <1>1, <1>2, <1>3, <1>5, <1>6, <2>1, Dups
<1>8. Only(Now, v, t)
  <2> HIDE DEF t, v
  <2> QED  BY <1>3, <1>4, <1>7, BecomesOnly
<1> HIDE DEF v
<1> QED  BY <1>2, <1>7, <1>8, OneStepKeeps

\* An open, up to vfs_open.
LEMMA OpenStartKeeps ==
    ASSUME FilesInv, NEW p \in Procs, NEW i \in Inodes \cup {"missing"}, NEW f \in OpenFlags,
           OpenStart(p, i, f)
    PROVE  FilesInv'
<1> DEFINE t == filesp[p]
           d == NO_FD(Now, t)
           v == fd_array_alloc(Now, t, d)
           c == [op |-> "open", fd |-> d, node |-> i, flags |-> f]
<1>1. ProcsOK /\ TablesOK /\ OneOpener /\ Good(Now, Using, Opening, Kept)
  BY DEF FilesInv
<1>2. /\ p \in alive /\ pc[p] = User /\ d # NFD
      /\ Become(v) /\ pc' = [pc EXCEPT ![p] = c]
      /\ UNCHANGED << filesp, alive, mm, lost >>
  BY DEF OpenStart, Ready
<1>3. /\ t \in Tables /\ table[t].count > 0
  BY <1>1, <1>2, HasTable
<1>4. d \in FD /\ Now.table[t].fd[d].status = "NONE" /\ Now \in State
  BY <1>1, <1>2, Lowest DEF Good
<1> HIDE DEF d
<1>5. /\ \E g : Becomes(Now, v, t, d, g)
      /\ Good(v, Using, Opening \cup {<<t, d>>}, Kept)
  <2> HIDE DEF t
  <2> QED  BY <1>1, <1>3, <1>4, Allocates
<1>6. Only(Now, v, t)
  <2> HIDE DEF t, v
  <2> QED  BY <1>3, <1>4, <1>5, BecomesOnly
<1>7. c.fd = d /\ c.op = "open" /\ c \in Calls /\ c.node = i
  BY <1>4 DEF Calls
<1>8. <<t, d>> \notin Opening
  <2>1. EntryOK(Now.table[t].fd[d], Using[<<t, d>>], <<t, d>> \in Opening)
    BY <1>1, <1>3, <1>4, EntryAt
  <2> QED  BY <1>4, <2>1 DEF EntryOK
<1> HIDE DEF c, v
<1>9. /\ Kept' = Kept /\ Using' = Using /\ Opening' = Opening \cup {<<t, d>>}
      /\ OneOpener'
  BY <1>1, <1>2, <1>4, <1>7, <1>8, Begins
<1>10. TablesOK'
  <2>1. table' = v.table
    BY <1>2 DEF Become
  <2> HIDE DEF t
  <2> QED  BY <1>1, <1>2, <1>3, <1>6, <2>1, TablesKept
<1>11. ProcsOK'
  <2>1. lost' \in [Inodes -> Nat]
    BY <1>1, <1>2 DEF ProcsOK
  <2> QED  BY <1>1, <1>2, <1>7, <2>1, ProcsKept
<1> QED  BY <1>2, <1>5, <1>9, <1>10, <1>11, Concludes

\* The rest of file_open, from vfs_open on.
LEMMA OpenFinishKeeps ==
    ASSUME FilesInv, NEW p \in Procs, NEW ok \in BOOLEAN, OpenFinish(p, ok)
    PROVE  FilesInv'
<1> DEFINE t == filesp[p]
           d == pc[p].fd
           i == pc[p].node
           f == pc[p].flags
           v == file_open(Now, t, d, i, f, ok)
           kept2 == IF Forgets(i, f) THEN [Kept EXCEPT ![i] = @ + 1] ELSE Kept
<1>1. ProcsOK /\ TablesOK /\ OneOpener /\ Good(Now, Using, Opening, Kept)
  BY DEF FilesInv
<1>2. /\ pc[p].op = "open" /\ pc[p].op # "user"
      /\ Become(v) /\ pc' = [pc EXCEPT ![p] = User]
      /\ lost' = IF Forgets(i, f) THEN [lost EXCEPT ![i] = @ + 1] ELSE lost
      /\ UNCHANGED << filesp, alive, mm >>
  BY DEF OpenFinish
<1>3. p \in alive /\ d \in FD /\ i \in Inodes \cup {"missing"} /\ f \in OpenArgs
  BY <1>1, <1>2 DEF ProcsOK, Calls, OpenArgs
<1>4. /\ t \in Tables /\ table[t].count > 0
  BY <1>1, <1>3, HasTable
<1>5. OneOpener' /\ Using' = Using /\ <<t, d>> \in Opening /\ Opening' = Opening \ {<<t, d>>}
  <2>1. LET x == <<filesp[p], pc[p].fd>>
        IN  /\ OneOpener'
            /\ pc[p].op = "use" => /\ Using[x] > 0 /\ Opening' = Opening
                                   /\ Using' = [Using EXCEPT ![x] = @ - 1]
            /\ pc[p].op = "open" => /\ Using' = Using /\ x \in Opening
                                    /\ Opening' = Opening \ {x}
    BY <1>1, <1>2, Ends
  <2> QED  BY <1>2, <2>1
<1>6. Now.table[t].fd[d].status = "INIT" /\ Now \in State
  <2>1. EntryOK(Now.table[t].fd[d], Using[<<t, d>>], <<t, d>> \in Opening)
    BY <1>1, <1>3, <1>4, EntryAt
  <2> QED  BY <1>1, <1>5, <2>1 DEF EntryOK, Good
<1>7. /\ \E g : Becomes(Now, v, t, d, g)
      /\ Good(v, Using, Opening \ {<<t, d>>}, kept2)
  <2> HIDE DEF t, d, i, f
  <2> QED  BY <1>1, <1>3, <1>4, <1>6, FileOpens
<1>8. Only(Now, v, t)
  <2> HIDE DEF t, d, v
  <2> QED  BY <1>3, <1>4, <1>6, <1>7, BecomesOnly
<1>9. Kept' = kept2 /\ lost' \in [Inodes -> Nat]
  <2>1. lost \in [Inodes -> Nat]
    BY <1>1 DEF ProcsOK
  <2>2. CASE ~ Forgets(i, f)
    BY <1>2, <2>1, <2>2 DEF Kept
  <2>3. CASE Forgets(i, f)
    <3>1. i \in Inodes
      BY <1>3, <2>3 DEF Forgets
    <3>2. lost' = [lost EXCEPT ![i] = @ + 1]
      BY <1>2, <2>3
    <3> HIDE DEF i
    <3>3. \A j \in Inodes : Kept'[j] = [Kept EXCEPT ![i] = @ + 1][j]
      <4> TAKE j \in Inodes
      <4>1. lost'[j] = IF j = i THEN lost[j] + 1 ELSE lost[j]
        BY <2>1, <3>2
      <4>2. lost[j] \in Nat
        BY <2>1
      <4> DEFINE k == IF j = root \/ j \in Stdins THEN 1 ELSE 0
      <4>3. k \in Nat
        OBVIOUS
      <4>4. Kept[j] = k + lost[j] /\ Kept'[j] = k + lost'[j]
        BY DEF Kept
      <4> HIDE DEF k
      <4>5. DOMAIN Kept = Inodes
        BY DEF Kept
      <4>6. [Kept EXCEPT ![i] = @ + 1][j] = IF j = i THEN Kept[j] + 1 ELSE Kept[j]
        BY <3>1, <4>5
      <4> QED  BY <4>1, <4>2, <4>3, <4>4, <4>6
    <3>4. Kept' = [j \in Inodes |-> Kept'[j]] /\ Kept = [j \in Inodes |-> Kept[j]]
      BY DEF Kept
    <3>5. Kept' = [Kept EXCEPT ![i] = @ + 1]
      BY <3>3, <3>4
    <3> QED  BY <2>1, <2>3, <3>1, <3>2, <3>5
  <2> QED  BY <2>2, <2>3
<1> HIDE DEF v, kept2
<1>10. TablesOK'
  <2>1. table' = v.table
    BY <1>2 DEF Become
  <2> HIDE DEF t
  <2> QED  BY <1>1, <1>2, <1>4, <1>8, <2>1, TablesKept
<1>11. ProcsOK'
  BY <1>1, <1>2, <1>3, <1>9, UserCalls, ProcsKept
<1> QED  BY <1>2, <1>5, <1>7, <1>9, <1>10, <1>11, Concludes

\* vfs_chdir.
LEMMA ChdirKeeps ==
    ASSUME FilesInv, NEW p \in Procs, NEW i \in Inodes, Chdir(p, i)
    PROVE  FilesInv'
<1> DEFINE t == filesp[p]
           old == table[t].pwd
           look == inode_ref_inc(Now, i)
           set == [inode_ref_inc(look, i) EXCEPT !.table[t].pwd = i]
           v == inode_ref_dec(inode_ref_dec(set, old), i)
           w == inode_ref_dec(look, i)
<1>1. ProcsOK /\ TablesOK /\ OneOpener /\ Good(Now, Using, Opening, Kept)
  BY DEF FilesInv
<1>2. /\ p \in alive
      /\ UNCHANGED << filesp, alive, mm, pc, lost >>
      /\ IF CanBeCurrent(i) /\ i # old THEN Become(v) ELSE Become(w)
  BY DEF Chdir, Ready
<1>3. /\ t \in Tables /\ table[t].count > 0 /\ old \in Dirs
  BY <1>1, <1>2, HasTable
<1>4. Now.table = table /\ Now \in State /\ Kept \in [Inodes -> Nat]
  BY <1>1, UsingType DEF Now, Good
<1>5. mm' \subseteq alive
  BY <1>1, <1>2 DEF ProcsOK
<1>6. ProcsOK'
  BY <1>1, <1>2, <1>5, ProcsSame
<1>7. Using' = Using /\ Opening' = Opening /\ Kept' = Kept /\ OneOpener'
  BY <1>1, <1>2, NobodyMoves
<1>8. CASE CanBeCurrent(i) /\ i # old
  <2>1. /\ Good(v, Using, Opening, Kept)
        /\ v.table = [table EXCEPT ![t] = [@ EXCEPT !.pwd = i]]
    <3>1. i \in Dirs /\ Now.table[t].pwd = old
      BY <1>4, <1>8 DEF CanBeCurrent
    <3> HIDE DEF t
    <3> QED  BY <1>1, <1>3, <1>4, <1>8, <3>1, Chdirs
  <2>2. Become(v) /\ table' = v.table
    BY <1>2, <1>8 DEF Become
  <2>3. i \in Dirs
    BY <1>8 DEF CanBeCurrent
  <2>4. table \in [Tables -> FilesStruct]
    BY <1>4 DEF State
  <2> HIDE DEF v, t
  <2>5. TablesOK'
    <3>1. \A c : Sharers(c)' = Sharers(c)
      BY <1>2 DEF Sharers
    <3>2. \A c \in Tables : c # t => table'[c] = table[c]
      BY <2>1, <2>2, <2>4
    <3>3. table'[t].count = table[t].count /\ table'[t].pwd = i
      BY <1>3, <2>1, <2>2, <2>4 DEF FilesStruct
    <3> SUFFICES ASSUME NEW c \in Tables
                 PROVE  /\ table'[c].count \in 0..MAX_COUNT
                        /\ Cardinality(Sharers(c)') <= table'[c].count
                        /\ table'[c].count = 0 => table'[c] = files_create
                        /\ table'[c].count > 0 => table'[c].pwd \in Dirs
      BY DEF TablesOK
    <3>4. /\ table[c].count \in 0..MAX_COUNT
          /\ Cardinality(Sharers(c)) <= table[c].count
          /\ table[c].count = 0 => table[c] = files_create
          /\ table[c].count > 0 => table[c].pwd \in Dirs
      BY <1>1 DEF TablesOK
    <3>5. CASE c # t
      BY <3>1, <3>2, <3>4, <3>5
    <3>6. CASE c = t
      BY <1>3, <2>3, <3>1, <3>3, <3>4, <3>6
    <3> QED  BY <3>5, <3>6
  <2> QED  BY <1>6, <1>7, <2>1, <2>2, <2>5, Concludes
<1>9. CASE ~ (CanBeCurrent(i) /\ i # old)
  <2>1. Good(w, Using, Opening, Kept) /\ w.table = Now.table
    <3> HIDE DEF t
    <3> QED  BY <1>1, <1>3, <1>4, Looks
  <2>2. Become(w) /\ table' = w.table
    BY <1>2, <1>9 DEF Become
  <2> HIDE DEF w
  <2>3. TablesOK'
    BY <1>1, <1>2, <1>4, <2>1, <2>2, TablesSame
  <2> QED  BY <1>6, <1>7, <2>1, <2>2, <2>3, Concludes
<1> QED  BY <1>8, <1>9

\* A process is created, with a table of its own or with that of its parent.
LEMMA JoinKeeps ==
    ASSUME FilesInv, NEW p \in alive, NEW c \in Procs, c \notin alive, NEW t \in Tables,
           NEW s, Good(s, Using, Opening, Kept), Become(s),
           \A b \in Tables : b # t => s.table[b] = table[b],
           s.table[t].count = table[t].count + 1, s.table[t].count <= MAX_COUNT,
           s.table[t].pwd \in Dirs, filesp' = [filesp EXCEPT ![c] = t],
           alive' = alive \cup {c}, mm' \subseteq alive \cup {c}, UNCHANGED << pc, lost >>
    PROVE  FilesInv'
<1>1. ProcsOK /\ TablesOK /\ OneOpener
  BY DEF FilesInv
<1>2. table' = s.table
  BY DEF Become
<1>3. pc[c].op = "user"
  BY <1>1 DEF ProcsOK
<1>4. /\ filesp' \in [Procs -> Tables \cup {NULL}] /\ filesp'[c] = t
      /\ \A q \in Procs : q # c => filesp'[q] = filesp[q]
      /\ \A q \in alive : q \in Procs /\ q # c
  BY <1>1 DEF ProcsOK
<1>5. ProcsOK'
  BY <1>1, <1>4 DEF ProcsOK
<1>6. Using' = Using /\ Opening' = Opening /\ Kept' = Kept /\ OneOpener'
  BY <1>1, <1>3, <1>4, NobodyMoves
<1>7. Sharers(t)' = Sharers(t) \cup {c} /\ \A b : b # t => Sharers(b)' = Sharers(b)
  BY <1>4 DEF Sharers
<1>8. Cardinality(Sharers(t)') = Cardinality(Sharers(t)) + 1 /\ Cardinality(Sharers(t)) \in Nat
  <2>1. IsFiniteSet(Sharers(t)) /\ Cardinality(Sharers(t)) \in Nat
    BY <1>1, FiniteBusy
  <2>2. c \notin Sharers(t)
    BY DEF Sharers
  <2>3. Cardinality(Sharers(t) \cup {c}) = Cardinality(Sharers(t)) + 1
    BY <2>1, <2>2, FS_AddElement
  <2> QED  BY <1>7, <2>1, <2>3
<1>9. TablesOK'
  <2> SUFFICES ASSUME NEW b \in Tables
               PROVE  /\ table'[b].count \in 0..MAX_COUNT
                      /\ Cardinality(Sharers(b)') <= table'[b].count
                      /\ table'[b].count = 0 => table'[b] = files_create
                      /\ table'[b].count > 0 => table'[b].pwd \in Dirs
    BY DEF TablesOK
  <2>1. /\ table[b].count \in 0..MAX_COUNT
        /\ Cardinality(Sharers(b)) <= table[b].count
        /\ table[b].count = 0 => table[b] = files_create
        /\ table[b].count > 0 => table[b].pwd \in Dirs
    BY <1>1 DEF TablesOK
  <2>2. CASE b # t
    BY <1>2, <1>7, <2>1, <2>2
  <2>3. CASE b = t
    <3>1. MAX_COUNT \in Nat
      BY OpenFilesAssumption
    <3> QED  BY <1>2, <1>8, <2>1, <2>3, <3>1
  <2> QED  BY <2>2, <2>3
<1> QED  BY <1>5, <1>6, <1>9, Concludes

\* do_fork: the table of the parent, or one of the child's own filled by dup_files.
LEMMA ForkKeeps ==
    ASSUME FilesInv, NEW p \in Procs, NEW c \in Procs, NEW flags, Fork(p, c, flags)
    PROVE  FilesInv'
<1>1. ProcsOK /\ TablesOK /\ OneOpener /\ Good(Now, Using, Opening, Kept)
  BY DEF FilesInv
<1>2. p \in alive /\ c \notin alive
  BY DEF Fork, Ready
<1>3. PICK t \in Tables :
        /\ IF "CLONE_FS" \in flags
             THEN /\ t = filesp[p] /\ table[t].count < MAX_COUNT
                  /\ Become([Now EXCEPT !.table[t].count = @ + 1])
             ELSE /\ table[t].count = 0
                  /\ Become([dup_files(Now, t, filesp[p]) EXCEPT !.table[t].count = @ + 1])
        /\ filesp' = [filesp EXCEPT ![c] = t]
  BY DEF Fork
<1>4. /\ alive' = alive \cup {c} /\ mm' \subseteq alive \cup {c}
      /\ UNCHANGED << pc, lost >>
  BY <1>1 DEF Fork, ProcsOK
<1>5. /\ filesp[p] \in Tables /\ table[filesp[p]].count > 0
      /\ table[filesp[p]].pwd \in Dirs
  BY <1>1, <1>2, HasTable
<1>6. Now.table = table /\ Now \in State /\ table \in [Tables -> FilesStruct]
  BY <1>1 DEF Now, Good, State
<1>7. MAX_COUNT \in Nat \ {0} /\ table[t].count \in Nat
  BY <1>6, OpenFilesAssumption DEF FilesStruct
<1>8. CASE "CLONE_FS" \in flags
  <2> DEFINE n == table[t].count + 1
             s == [Now EXCEPT !.table[t].count = n]
  <2>1. /\ t = filesp[p] /\ table[t].count < MAX_COUNT
        /\ Become([Now EXCEPT !.table[t].count = @ + 1])
    BY <1>3, <1>8
  <2>2. [Now EXCEPT !.table[t].count = @ + 1] = s
    BY <1>6
  <2>3. /\ Good(s, Using, Opening, Kept)
        /\ s.table = [table EXCEPT ![t] = [@ EXCEPT !.count = n]]
    <3> HIDE DEF n
    <3>1. n \in Nat
      BY <1>7 DEF n
    <3> QED  BY <1>1, <1>6, <3>1, Counted
  <2> HIDE DEF s
  <2>4. /\ s.table[t].count = n /\ s.table[t].pwd = table[t].pwd
        /\ \A b \in Tables : b # t => s.table[b] = table[b]
    <3> HIDE DEF n
    <3> QED  BY <1>6, <2>3 DEF FilesStruct
  <2>5. n <= MAX_COUNT
    BY <1>7, <2>1
  <2>6. /\ s.table[t].count = table[t].count + 1 /\ s.table[t].count <= MAX_COUNT
        /\ s.table[t].pwd \in Dirs /\ Become(s)
    BY <1>5, <2>1, <2>2, <2>4, <2>5
  <2> QED  BY <1>2, <1>3, <1>4, <2>3, <2>4, <2>6, JoinKeeps
<1>9. CASE "CLONE_FS" \notin flags
  <2> DEFINE r == dup_files(Now, t, filesp[p])
             s == [r EXCEPT !.table[t].count = 1]
  <2>1. table[t].count = 0 /\ Become([r EXCEPT !.table[t].count = @ + 1])
    BY <1>3, <1>9
  <2>2. t # filesp[p] /\ table[t] = files_create
    BY <1>1, <1>5, <2>1 DEF TablesOK
  <2>3. /\ Good(r, Using, Opening, Kept)
        /\ \A b \in Tables : b # t => r.table[b] = table[b]
        /\ r.table[t].count = 0 /\ r.table[t].pwd \in Dirs
    BY <1>1, <1>5, <1>6, <2>2, DupsFiles
  <2> HIDE DEF r
  <2>4. [r EXCEPT !.table[t].count = @ + 1] = s
    BY <2>3
  <2>5. /\ Good(s, Using, Opening, Kept)
        /\ s.table = [r.table EXCEPT ![t] = [@ EXCEPT !.count = 1]]
    BY <2>3, Counted
  <2>6. r.table \in [Tables -> FilesStruct]
    BY <2>3 DEF Good, State
  <2> HIDE DEF s
  <2>7. /\ s.table[t].count = 1 /\ s.table[t].pwd = r.table[t].pwd
        /\ \A b \in Tables : b # t => s.table[b] = table[b]
    BY <2>3, <2>5, <2>6 DEF FilesStruct
  <2>8. 1 <= MAX_COUNT /\ table[t].count + 1 = 1
    BY <1>7, <2>1
  <2> QED  BY <1>2, <1>3, <1>4, <2>1, <2>3, <2>4, <2>5, <2>7, <2>8, JoinKeeps
<1> QED  BY <1>8, <1>9

\* do_exit of a process whose table has come to s.
LEMMA LeaveKeeps ==
    ASSUME FilesInv, NEW p \in alive, pc[p] = User, NEW s, Good(s, Using, Opening, Kept),
           NEW t, t = filesp[p], Only(Now, s, t), NEW has \in BOOLEAN, do_exit(s, p, has)
    PROVE  FilesInv'
<1> DEFINE v == put_files(s, t)
           w == IF has THEN v ELSE s
<1>1. ProcsOK /\ TablesOK /\ OneOpener /\ s \in State /\ s.table \in [Tables -> FilesStruct]
  BY DEF FilesInv, Good, State
<1>2. /\ Become(w) /\ alive' = alive \ {p} /\ mm' = mm \ {p}
      /\ filesp' = [filesp EXCEPT ![p] = NULL] /\ UNCHANGED << pc, lost >>
  BY DEF do_exit
<1>3. /\ t \in Tables /\ table[t].count > 0 /\ table[t].pwd \in Dirs /\ p \in Procs
  BY <1>1, HasTable
<1>4. pc[p].op = "user"
  BY DEF User
<1>5. /\ filesp' \in [Procs -> Tables \cup {NULL}]
      /\ \A q \in Procs : q # p => filesp'[q] = filesp[q]
      /\ \A q \in alive : q \in Procs
  BY <1>1, <1>2 DEF ProcsOK
<1>6. ProcsOK'
  BY <1>1, <1>2, <1>4, <1>5 DEF ProcsOK
<1>7. Using' = Using /\ Opening' = Opening /\ Kept' = Kept /\ OneOpener'
  BY <1>1, <1>2, <1>4, <1>5, NobodyMoves
<1>8. Sharers(t)' = Sharers(t) \ {p} /\ \A b : b # t => Sharers(b)' = Sharers(b)
  <2>1. \A b : Sharers(b)' = Sharers(b) \ {p}
    BY <1>2, <1>5 DEF Sharers
  <2>2. \A b : b # t => p \notin Sharers(b)
    BY DEF Sharers
  <2> QED  BY <2>1, <2>2
<1>9. /\ Cardinality(Sharers(t)') = Cardinality(Sharers(t)) - 1
      /\ Cardinality(Sharers(t)) \in Nat /\ Cardinality(Sharers(t)) # 0
      /\ Cardinality(Sharers(t)) = 1 => Sharers(t) = {p}
  <2> DEFINE S == Sharers(t)
  <2>1. IsFiniteSet(S) /\ Cardinality(S) \in Nat
    BY <1>1, FiniteBusy
  <2>2. p \in S
    BY DEF Sharers
  <2>3. Sharers(t)' = S \ {p}
    BY <1>8
  <2> HIDE DEF S
  <2>4. Cardinality(S \ {p}) = Cardinality(S) - 1 /\ IsFiniteSet(S \ {p})
    BY <2>1, <2>2, FS_RemoveElement
  <2>5. Cardinality(S) # 0
    BY <2>1, <2>2, FS_EmptySet
  <2>6. Cardinality(S) = 1 => S \ {p} = {}
    BY <2>4, FS_EmptySet
  <2>7. Cardinality(S) = 1 => S = {p}
    BY <2>2, <2>6
  <2> QED  BY <2>1, <2>3, <2>4, <2>5, <2>7 DEF S
<1>10. /\ s.table[t].count = table[t].count /\ s.table[t].pwd = table[t].pwd
       /\ \A b \in Tables : b # t => s.table[b] = table[b]
  BY DEF Only, Now
<1>11. /\ table[t].count \in 0..MAX_COUNT /\ Cardinality(Sharers(t)) <= table[t].count
       /\ MAX_COUNT \in Nat
  BY <1>1, <1>3, OpenFilesAssumption DEF TablesOK
<1>12. table[t].count = 1 => \A d \in FD : Using[<<t, d>>] = 0 /\ <<t, d>> \notin Opening
  <2> SUFFICES ASSUME table[t].count = 1, NEW d \in FD
               PROVE  Using[<<t, d>>] = 0 /\ <<t, d>> \notin Opening
    OBVIOUS
  <2>1. Sharers(t) = {p}
    BY <1>9, <1>11
  <2>2. \A op \in {"use", "open"} : Busy(t, d, op) = {}
    BY <1>4, <2>1 DEF Busy, Sharers
  <2>3. Cardinality(Busy(t, d, "use")) = 0
    BY <2>2, FS_EmptySet
  <2> QED  BY <1>1, <1>3, <2>2, <2>3, UsingType
<1>13. Good(v, Using, Opening, Kept)
       /\ v.table = [s.table EXCEPT ![t] = IF s.table[t].count = 1 THEN files_create
                                           ELSE [s.table[t] EXCEPT !.count = @ - 1]]
  <2>1. Kept \in [Inodes -> Nat]
    BY <1>1, UsingType
  <2> QED  BY <1>3, <1>10, <1>12, <2>1, Puts
<1>14. /\ Good(w, Using, Opening, Kept) /\ table' = w.table
       /\ \A b \in Tables : b # t => w.table[b] = table[b]
  <2>1. \A b \in Tables : b # t => v.table[b] = s.table[b]
    BY <1>1, <1>13
  <2> HIDE DEF v
  <2> QED  BY <1>2, <1>10, <1>13, <2>1 DEF Become
<1>15. w.table[t] = IF ~ has THEN s.table[t] ELSE IF table[t].count = 1 THEN files_create
                    ELSE [s.table[t] EXCEPT !.count = @ - 1]
  BY <1>1, <1>3, <1>10, <1>13
<1> HIDE DEF w, v
<1>16. TablesOK'
  <2> SUFFICES ASSUME NEW b \in Tables
               PROVE  /\ table'[b].count \in 0..MAX_COUNT
                      /\ Cardinality(Sharers(b)') <= table'[b].count
                      /\ table'[b].count = 0 => table'[b] = files_create
                      /\ table'[b].count > 0 => table'[b].pwd \in Dirs
    BY DEF TablesOK
  <2>1. /\ table[b].count \in 0..MAX_COUNT
        /\ Cardinality(Sharers(b)) <= table[b].count
        /\ table[b].count = 0 => table[b] = files_create
        /\ table[b].count > 0 => table[b].pwd \in Dirs
    BY <1>1 DEF TablesOK
  <2>2. CASE b # t
    BY <1>8, <1>14, <2>1, <2>2
  <2>3. CASE b = t /\ ~ has
    BY <1>3, <1>9, <1>10, <1>11, <1>14, <1>15, <2>3
  <2>4. CASE b = t /\ has /\ table[t].count = 1
    <3>1. files_create.count = 0
      BY DEF files_create
    <3> QED  BY <1>9, <1>11, <1>14, <1>15, <2>4, <3>1
  <2>5. CASE b = t /\ has /\ table[t].count # 1
    <3>1. s.table[t] \in FilesStruct
      BY <1>1, <1>3
    <3>2. /\ table'[b].count = table[t].count - 1
          /\ table'[b].pwd \in Dirs
      BY <1>3, <1>10, <1>14, <1>15, <2>5, <3>1 DEF FilesStruct
    <3> QED  BY <1>3, <1>9, <1>11, <2>5, <3>2
  <2> QED  BY <2>2, <2>3, <2>4, <2>5
<1> QED  BY <1>2, <1>6, <1>7, <1>14, <1>16, Concludes

\* do_exit.
LEMMA ExitKeeps ==
    ASSUME FilesInv, NEW p \in Procs, Exit(p)
    PROVE  FilesInv'
<1>1. p \in alive /\ pc[p] = User /\ do_exit(Now, p, p \in mm) /\ (p \in mm) \in BOOLEAN
  BY DEF Exit, Ready
<1>2. Good(Now, Using, Opening, Kept) /\ Only(Now, Now, filesp[p])
  BY DEF FilesInv, Good, Only
<1> QED  BY <1>1, <1>2, LeaveKeeps

\* do_execve: the descriptors that are closed, and the program that is opened, read
\* and closed, leave the tables exact on every way out.
LEMMA ExecKeeps ==
    ASSUME FilesInv, NEW p \in Procs, NEW i \in Inodes \cup {"missing"}, NEW loads,
           Exec(p, i, loads)
    PROVE  FilesInv'
<1> SUFFICES ASSUME NEW t, t = filesp[p] PROVE FilesInv'
  OBVIOUS
<1> DEFINE clean  == CloseFrom(Now, t, 2)
           d      == NO_FD(clean, t)
           a      == fd_array_alloc(clean, t, d)
           r      == file_open(a, t, d, i, NoFlags, TRUE)
           q      == vop(vop(r, i, "tryseek"), i, "read")
           loaded == fd_array_close(q, t, d)
<1>1. ProcsOK /\ TablesOK /\ OneOpener /\ Good(Now, Using, Opening, Kept)
  BY DEF FilesInv
<1>2. /\ p \in alive /\ pc[p] = User
      /\ IF d = NFD THEN do_exit(clean, p, p \in mm)
         ELSE IF File(r, t, d).status # "OPENED" THEN do_exit(r, p, p \in mm)
         ELSE IF loads = "failed" THEN do_exit(loaded, p, FALSE)
         ELSE /\ Become(loaded)
              /\ mm' = IF loads = "loaded" THEN mm \cup {p} ELSE mm \ {p}
              /\ UNCHANGED << filesp, alive, pc, lost >>
  BY DEF Exec, Ready
<1>3. t \in Tables
  BY <1>1, <1>2, HasTable
<1>4. Good(clean, Using, Opening, Kept) /\ Only(Now, clean, t) /\ clean \in State
  <2>1. 2 \in 0..NFD
    BY OpenFilesAssumption
  <2>2. Good(clean, Using, Opening, Kept) /\ Only(Now, clean, t)
    BY <1>1, <1>3, <2>1, ClosesAll
  <2> QED  BY <2>2 DEF Good
<1> HIDE DEF clean
<1>5. CASE d = NFD
  <2>1. do_exit(clean, p, p \in mm) /\ (p \in mm) \in BOOLEAN
    BY <1>2, <1>5
  <2> QED  BY <1>2, <1>4, <2>1, LeaveKeeps
<1>6. CASE d # NFD
  <2> DEFINE x == <<t, d>>
  <2>1. d \in FD /\ clean.table[t].fd[d].status = "NONE"
    BY <1>6, Lowest
  <2> HIDE DEF d
  <2>2. x \notin Opening
    <3>1. EntryOK(clean.table[t].fd[d], Using[x], x \in Opening)
      BY <1>3, <1>4, <2>1, EntryAt
    <3> QED  BY <2>1, <3>1 DEF EntryOK
  <2> DEFINE f == [NoFile EXCEPT !.status = "INIT"]
  <2>3. Becomes(clean, a, t, d, f) /\ Good(a, Using, Opening \cup {x}, Kept)
    BY <1>3, <1>4, <2>1, Allocates
  <2>4. f.status = "INIT"
    BY DEF NoFile
  <2> HIDE DEF f, a
  <2>5. a \in State /\ a.table[t].fd[d] = f
    <3>1. a \in State
      BY <2>3 DEF Becomes
    <3> QED  BY <3>1, <1>3, <1>4, <2>1, <2>3, BecomesAt
  <2>6. /\ \E g : /\ Becomes(a, r, t, d, g)
                  /\ g.status \in {"NONE", "OPENED"}
                  /\ g.status = "OPENED" => i \in Inodes
        /\ Good(r, Using, (Opening \cup {x}) \ {x}, IF Forgets(i, NoFlags)
                                                      THEN [Kept EXCEPT ![i] = @ + 1] ELSE Kept)
    <3>1. NoFlags \in OpenArgs
      BY DEF OpenArgs
    <3> QED  BY <1>3, <2>1, <2>3, <2>4, <2>5, <3>1, FileOpens
  <2>7. ~ Forgets(i, NoFlags) /\ (Opening \cup {x}) \ {x} = Opening
    BY <2>2 DEF Forgets, NoFlags
  <2> HIDE DEF r, x
  <2>8. Good(r, Using, Opening, Kept) /\ r \in State
    <3>1. Good(r, Using, Opening, Kept)
      BY <2>6, <2>7
    <3> QED  BY <3>1 DEF Good
  <2>9. r.table[t].fd[d].status = "OPENED" => i \in Inodes
    BY <1>3, <2>1, <2>5, <2>6, BecomesAt
  <2>10. Only(Now, r, t)
    <3>1. Only(clean, a, t)
      BY <1>3, <1>4, <2>1, <2>3, BecomesOnly
    <3>2. Only(a, r, t)
      BY <1>3, <2>1, <2>5, <2>6, BecomesOnly
    <3> QED  BY <1>4, <3>1, <3>2, OnlyTwice
  <2>11. CASE r.table[t].fd[d].status # "OPENED"
    <3>1. do_exit(r, p, p \in mm) /\ (p \in mm) \in BOOLEAN
      BY <1>2, <1>6, <2>11 DEF File
    <3> QED  BY <1>2, <2>8, <2>10, <3>1, LeaveKeeps
  <2>12. CASE r.table[t].fd[d].status = "OPENED"
    <3>1. i \in Inodes /\ "tryseek" \in Operations /\ "read" \in Operations
      BY <2>9, <2>12 DEF Operations
    <3>2. Good(q, Using, Opening, Kept) /\ q.table = r.table
      <4> DEFINE b == vop(r, i, "tryseek")
      <4>1. Good(b, Using, Opening, Kept) /\ b.table = r.table
        BY <2>8, <3>1, VopGood
      <4> HIDE DEF b
      <4>2. Good(vop(b, i, "read"), Using, Opening, Kept) /\ vop(b, i, "read").table = b.table
        BY <3>1, <4>1, VopGood
      <4> QED  BY <4>1, <4>2 DEF b
    <3> HIDE DEF q
    <3>3. q.table[t].fd[d].status = "OPENED" /\ q \in State
      BY <2>12, <3>2 DEF Good
    <3>4. /\ \E g : Becomes(q, loaded, t, d, g)
          /\ Good(loaded, Using, Opening, Kept)
      BY <1>3, <2>1, <3>2, <3>3, Closes
    <3> HIDE DEF loaded
    <3>5. Only(q, loaded, t)
      BY <1>3, <2>1, <3>3, <3>4, BecomesOnly
    <3>6. Only(Now, loaded, t)
      BY <2>10, <3>2, <3>5 DEF Only
    <3>7. CASE loads = "failed"
      <4>1. do_exit(loaded, p, FALSE)
        BY <1>2, <1>6, <2>12, <3>7 DEF File
      <4> QED  BY <1>2, <3>4, <3>6, <4>1, LeaveKeeps
    <3>8. CASE loads # "failed"
      <4>1. /\ Become(loaded)
            /\ mm' = IF loads = "loaded" THEN mm \cup {p} ELSE mm \ {p}
            /\ UNCHANGED << filesp, alive, pc, lost >>
        BY <1>2, <1>6, <2>12, <3>8 DEF File
      <4>2. mm' \subseteq alive
        BY <1>1, <1>2, <4>1 DEF ProcsOK
      <4> QED  BY <1>2, <3>4, <3>6, <4>1, <4>2, OneStepKeeps
    <3> QED  BY <3>7, <3>8
  <2> QED  BY <2>11, <2>12
<1> QED  BY <1>5, <1>6

\* At the start nothing is open, and one process is in the root directory.
LEMMA InitFiles ==
    ASSUME Init
    PROVE  FilesInv
<1>1. PICK p \in Procs, t \in Tables :
        /\ inode = [i \in Inodes |->
                      [ref  |-> IF i = root THEN 2 ELSE IF i \in Stdins THEN 1 ELSE 0,
                       open |-> 0]]
        /\ table = [u \in Tables |->
                      IF u = t THEN [files_create EXCEPT !.count = 1, !.pwd = root]
                      ELSE files_create]
        /\ filesp = [q \in Procs |-> IF q = p THEN t ELSE NULL]
        /\ alive = {p} /\ mm = {p}
        /\ pc = [q \in Procs |-> User]
        /\ panic = "none"
        /\ lost = [i \in Inodes |-> 0]
  BY DEF Init
<1>2. root \in Dirs /\ root \in Inodes /\ MAX_COUNT \in Nat \ {0} /\ NULL \notin Inodes
      /\ Dirs \subseteq Inodes
  BY OpenFilesAssumption DEF Inodes
<1>3. ProcsOK
  <2>1. filesp \in [Procs -> Tables \cup {NULL}] /\ alive \subseteq Procs /\ mm \subseteq alive
    BY <1>1
  <2>2. lost \in [Inodes -> Nat]
    BY <1>1
  <2>3. pc \in [Procs -> Calls] /\ \A q \in Procs : pc[q].op = "user"
    BY <1>1, UserCalls
  <2>4. \A q \in alive : filesp[q] \in Tables
    BY <1>1
  <2> QED  BY <2>1, <2>2, <2>3, <2>4 DEF ProcsOK
<1>4. \A q \in Procs : pc[q].op = "user"
  BY <1>1, UserCalls
<1>5. \A u, d : Busy(u, d, "use") = {} /\ Busy(u, d, "open") = {}
  BY <1>3, <1>4 DEF Busy, ProcsOK
<1>6. OneOpener /\ Opening = {} /\ Using = [x \in Entries |-> 0]
  <2>1. Cardinality({}) = 0
    BY FS_EmptySet
  <2> QED  BY <1>5, <2>1 DEF OneOpener, Opening, Using
<1>7. /\ files_create \in FilesStruct /\ files_create.count = 0 /\ files_create.pwd = NULL
      /\ files_create.fd = [d \in FD |-> NoFile]
  BY NoFileIsEntry DEF files_create, FilesStruct
<1> DEFINE one == [files_create EXCEPT !.count = 1, !.pwd = root]
<1>8. /\ one \in FilesStruct /\ one.count = 1 /\ one.pwd = root
      /\ one.fd = [d \in FD |-> NoFile]
  BY <1>2, <1>7 DEF FilesStruct
<1> HIDE DEF one
<1>9. table = [u \in Tables |-> IF u = t THEN one ELSE files_create]
  BY <1>1 DEF one
<1>10. /\ table[t] = one /\ \A u \in Tables : u # t => table[u] = files_create
       /\ \A u \in Tables, d \in FD : table[u].fd[d] = NoFile
  BY <1>7, <1>8, <1>9
<1>11. TablesOK
  <2>1. Sharers(t) = {p} /\ \A u : u # t => Sharers(u) = {}
    BY <1>1 DEF Sharers
  <2>2. Cardinality({p}) = 1 /\ Cardinality({}) = 0
    BY FS_Singleton, FS_EmptySet
  <2> SUFFICES ASSUME NEW u \in Tables
               PROVE  /\ table[u].count \in 0..MAX_COUNT
                      /\ Cardinality(Sharers(u)) <= table[u].count
                      /\ table[u].count = 0 => table[u] = files_create
                      /\ table[u].count > 0 => table[u].pwd \in Dirs
    BY DEF TablesOK
  <2>3. CASE u = t
    BY <1>2, <1>8, <1>10, <2>1, <2>2, <2>3
  <2>4. CASE u # t
    BY <1>2, <1>7, <1>10, <2>1, <2>2, <2>4
  <2> QED  BY <2>3, <2>4
<1>12. Now \in State /\ Now.table = table /\ Now.inode = inode
  <2>1. inode \in [Inodes -> Node]
    BY <1>1 DEF Node
  <2>2. table \in [Tables -> FilesStruct]
    BY <1>7, <1>8, <1>9
  <2> QED  BY <1>1, <2>1, <2>2 DEF Now, State
<1>13. Using \in [Entries -> Nat] /\ Kept \in [Inodes -> Int]
  BY <1>3, UsingType
<1>14. ASSUME NEW u \in Tables, NEW d \in FD
       PROVE  EntryOK(Now.table[u].fd[d], Using[<<u, d>>], <<u, d>> \in Opening)
  <2>1. <<u, d>> \in Entries
    BY DEF Entries
  <2> QED  BY <1>6, <1>10, <1>12, <2>1 DEF EntryOK, NoFile
<1>15. ASSUME NEW i \in Inodes
       PROVE  /\ Now.inode[i].open = Cardinality(HoldersIn(Now, i))
              /\ Now.inode[i].ref = Cardinality(HoldersIn(Now, i))
                   + Cardinality(PwdsIn(Now, i)) + Kept[i]
              /\ Now.inode[i].open <= Now.inode[i].ref
  <2>1. HoldersIn(Now, i) = {}
    BY <1>10, <1>12 DEF HoldersIn, Entries, Refers, NoFile
  <2>2. PwdsIn(Now, i) = IF i = root THEN {t} ELSE {}
    BY <1>2, <1>7, <1>8, <1>9, <1>12 DEF PwdsIn
  <2>3. Cardinality({t}) = 1 /\ Cardinality({}) = 0
    BY FS_Singleton, FS_EmptySet
  <2>4. inode[i].open = 0
        /\ inode[i].ref = IF i = root THEN 2 ELSE IF i \in Stdins THEN 1 ELSE 0
    BY <1>1
  <2>5. Kept[i] = IF i = root \/ i \in Stdins THEN 1 ELSE 0
    BY <1>1 DEF Kept
  <2> QED  BY <1>12, <2>1, <2>2, <2>3, <2>4, <2>5
<1>16. Good(Now, Using, Opening, Kept)
  BY <1>12, <1>13, <1>14, <1>15 DEF Good
<1> QED  BY <1>3, <1>6, <1>11, <1>16 DEF FilesInv

\* Every operation of OpenFiles keeps the invariant.
LEMMA NextFiles ==
    ASSUME FilesInv, [Next]_vars
    PROVE  FilesInv'
<1>1. CASE UNCHANGED vars
  <2>1. ProcsOK' /\ TablesOK' /\ OneOpener'
    BY <1>1 DEF FilesInv, vars, ProcsOK, TablesOK, Sharers, OneOpener, Busy
  <2>2. Now' = Now /\ Using' = Using /\ Opening' = Opening /\ Kept' = Kept
    BY <1>1 DEF vars, Now, Using, Opening, Kept, Busy
  <2>3. Become(Now) /\ Good(Now, Using', Opening', Kept')
    BY <1>1, <2>2 DEF FilesInv, Become, vars, Now
  <2> QED  BY <2>1, <2>3, Concludes
<1>2. ASSUME NEW p \in Procs, NEW i \in Inodes \cup {"missing"}, NEW f \in OpenFlags,
             OpenStart(p, i, f)
      PROVE  FilesInv'
  BY <1>2, OpenStartKeeps
<1>3. ASSUME NEW p \in Procs, NEW ok \in BOOLEAN, OpenFinish(p, ok)  PROVE FilesInv'
  BY <1>3, OpenFinishKeeps
<1>4. ASSUME NEW p \in Procs, NEW d \in FD, NEW op \in Uses, UseStart(p, d, op)
      PROVE  FilesInv'
  BY <1>4, UseStartKeeps
<1>5. ASSUME NEW p \in Procs, UseEnd(p)  PROVE FilesInv'
  BY <1>5, UseEndKeeps
<1>6. ASSUME NEW p \in Procs, NEW d \in FD, Close(p, d)  PROVE FilesInv'
  BY <1>6, CloseKeeps
<1>7. ASSUME NEW p \in Procs, NEW d \in FD, NEW e \in FD, Dup(p, d, e)  PROVE FilesInv'
  BY <1>7, DupKeeps
<1>8. ASSUME NEW p \in Procs, NEW i \in Inodes, Chdir(p, i)  PROVE FilesInv'
  BY <1>8, ChdirKeeps
<1>9. ASSUME NEW p \in Procs, NEW c \in Procs, NEW flags \in CloneFlags, Fork(p, c, flags)
      PROVE  FilesInv'
  BY <1>9, ForkKeeps
<1>10. ASSUME NEW p \in Procs, Exit(p)  PROVE FilesInv'
  BY <1>10, ExitKeeps
<1>11. ASSUME NEW p \in Procs, NEW i \in Inodes \cup {"missing"}, NEW loads \in Loads,
              Exec(p, i, loads)
       PROVE  FilesInv'
  BY <1>11, ExecKeeps
<1> QED
  BY <1>1, <1>2, <1>3, <1>4, <1>5, <1>6, <1>7, <1>8, <1>9, <1>10, <1>11 DEF Next

-----------------------------------------------------------------------------
(* Theorems *)

\* The invariant is inductive: opens, closes, dups and uses of threads that share a
\* table, forks, exits and execs, in any order, keep FilesInv.
THEOREM FilesInvariant == MCSpec => []IInv
<1>1. MCInit => IInv
  BY InitFiles DEF MCInit, IInv
<1>2. IInv /\ [MCNext]_allvars => IInv'
  <2> SUFFICES ASSUME IInv, [MCNext]_allvars, part' = "files" PROVE FilesInv'
    BY DEF IInv
  <2>1. part = "files" /\ [Next]_vars
    BY DEF MCNext, allvars
  <2> QED  BY <2>1, NextFiles DEF IInv
<1> QED  BY <1>1, <1>2, PTL DEF MCSpec

\* fd_array_acquire and fd_array_release count the users of an entry, a file closed
\* in use lives as long as they do; inode_ref_inc, inode_open_inc and their
\* counterparts keep the counts of an inode exact: FilesExact of the run.
THEOREM FilesKept == MCSpec => []FilesExact
<1>1. IInv => FilesExact
  <2> SUFFICES ASSUME FilesInv PROVE TypeOK /\ EntriesExact /\ RefExact
    BY DEF IInv, FilesExact
  <2>1. /\ ProcsOK /\ TablesOK /\ OneOpener /\ Good(Now, Using, Opening, Kept)
        /\ Now.table = table /\ Now.inode = inode
    BY DEF FilesInv, Now
  <2>2. ASSUME NEW t \in Tables, NEW d \in FD
        PROVE  /\ EntryOK(table[t].fd[d], Cardinality(Busy(t, d, "use")), Busy(t, d, "open") # {})
               /\ table[t].fd[d] \in Entry
               /\ Cardinality(Busy(t, d, "use")) \in Nat
               /\ Cardinality(Busy(t, d, "use")) <= Cardinality(Procs)
               /\ Cardinality(Procs) \in Nat
               /\ (Cardinality(Busy(t, d, "open")) = 1) = (Busy(t, d, "open") # {})
    <3>1. /\ EntryOK(table[t].fd[d], Using[<<t, d>>], <<t, d>> \in Opening)
          /\ table[t].fd[d] \in Entry
      BY <2>1, EntryAt
    <3>2. Using[<<t, d>>] = Cardinality(Busy(t, d, "use"))
          /\ (<<t, d>> \in Opening <=> Busy(t, d, "open") # {})
      BY <2>1, UsingType
    <3>3. Cardinality(Busy(t, d, "use")) \in Nat
      BY <2>1, FiniteBusy
    <3>4. Busy(t, d, "use") \subseteq Procs
      BY <2>1 DEF Busy, ProcsOK
    <3>5. Cardinality(Busy(t, d, "use")) <= Cardinality(Procs) /\ Cardinality(Procs) \in Nat
      BY <3>4, OpenFilesAssumption, FS_Subset, FS_CardinalityType
    <3>6. (Cardinality(Busy(t, d, "open")) = 1) = (Busy(t, d, "open") # {})
      <4>1. CASE Busy(t, d, "open") = {}
        BY <4>1, FS_EmptySet
      <4>2. CASE Busy(t, d, "open") # {}
        <5>1. PICK p : p \in Busy(t, d, "open")
          BY <4>2
        <5>2. <<t, d>> \in Entries /\ <<t, d>>[1] = t /\ <<t, d>>[2] = d
          BY DEF Entries
        <5>3. Busy(t, d, "open") = {p}
          BY <2>1, <5>1, <5>2 DEF OneOpener
        <5> QED  BY <4>2, <5>3, FS_Singleton
      <4> QED  BY <4>1, <4>2
    <3> QED  BY <3>1, <3>2, <3>3, <3>5, <3>6 DEF EntryOK
  <2>3. TypeOK
    <3>1. inode \in [Inodes -> [ref : Nat, open : Nat]]
      BY <2>1 DEF Good, State, Node
    <3>2. ASSUME NEW t \in Tables
          PROVE  table[t].count \in 0..MAX_COUNT /\ table[t].pwd \in Dirs \cup {NULL}
      <4>1. table[t] \in FilesStruct
        BY <2>1 DEF Good, State
      <4> QED  BY <2>1, <4>1 DEF TablesOK, FilesStruct
    <3>3. ASSUME NEW t \in Tables, NEW d \in FD
          PROVE  /\ table[t].fd[d].status \in Statuses
                 /\ table[t].fd[d].node \in Inodes \cup {NULL}
                 /\ table[t].fd[d].count \in 0..Cardinality(Procs) + 1
      BY <2>2 DEF Entry, EntryOK
    <3> QED  BY <2>1, <3>1, <3>2, <3>3 DEF TypeOK, ProcsOK
  <2>4. EntriesExact
    BY <2>2 DEF EntriesExact, EntryOK
  <2>5. RefExact
    <3> SUFFICES ASSUME NEW i \in Inodes
                 PROVE  /\ inode[i].open = Cardinality(Holders(i))
                        /\ inode[i].ref = Cardinality(Holders(i))
                             + Cardinality({t \in Tables : table[t].pwd = i})
                             + (IF i = root \/ i \in Stdins THEN 1 ELSE 0) + lost[i]
      BY DEF RefExact
    <3>1. HoldersIn(Now, i) = Holders(i)
      BY <2>1 DEF HoldersIn, Holders, Entries, Refers
    <3>2. PwdsIn(Now, i) = {t \in Tables : table[t].pwd = i}
      BY <2>1 DEF PwdsIn
    <3>3. /\ inode[i].open = Cardinality(HoldersIn(Now, i))
          /\ inode[i].ref = Cardinality(HoldersIn(Now, i)) + Cardinality(PwdsIn(Now, i)) + Kept[i]
      BY <2>1 DEF Good
    <3> DEFINE k == IF i = root \/ i \in Stdins THEN 1 ELSE 0
    <3>4. Kept[i] = k + lost[i] /\ lost[i] \in Nat /\ k \in Nat
      BY <2>1 DEF Kept, ProcsOK
    <3>5. Cardinality(Holders(i)) \in Nat /\ Cardinality(PwdsIn(Now, i)) \in Nat
      BY <3>1, FiniteHolders
    <3> HIDE DEF k
    <3>6. inode[i].ref = Cardinality(Holders(i)) + Cardinality(PwdsIn(Now, i)) + k + lost[i]
      BY <3>1, <3>3, <3>4, <3>5
    <3> QED  BY <3>1, <3>2, <3>3, <3>6 DEF k
  <2> QED  BY <2>3, <2>4, <2>5
<1> QED  BY <1>1, FilesInvariant, PTL

\* No assert of file.c, fs.c and inode.c fails but that of __vop_op, whatever threads
\* that share a table do: FilesAssertsHold of the run.
THEOREM AssertsKept == MCSpec => []FilesAssertsHold
<1>1. IInv => FilesAssertsHold
  BY DEF IInv, FilesInv, FilesAssertsHold, AssertsHold, Good, State, Now
<1> QED  BY <1>1, FilesInvariant, PTL

-----------------------------------------------------------------------------
(* Areas of an address space: all of it rests on the order of the list       *)
(* (Sorted), so most lemmas are about a sorted list and a cache that holds    *)
(* one of its areas.                                                          *)

Multiple(a) == \E q \in Nat : a = q * PGSIZE

\* Whole pages of the user part, in order and apart.
Sorted(list) ==
    /\ list \in Seq(VMAs)
    /\ \A i \in DOMAIN list :
         /\ USER_ACCESS(list[i].start, list[i].end)
         /\ Multiple(list[i].start) /\ Multiple(list[i].end)
    /\ \A i, j \in DOMAIN list : i < j => list[i].end <= list[j].start

CacheOf(list) == ToSet(list) \cup {NoVma}

AreasInv ==
    /\ Sorted(mmap_list)
    /\ mmap_cache \in CacheOf(mmap_list)
    /\ overlap \in BOOLEAN

-----------------------------------------------------------------------------
(* Numbers *)

\* Min is the least of a set of numbers.
LEMMA MinFacts ==
    ASSUME NEW T, T \subseteq Int, NEW b \in Int, \A x \in T : b <= x, T # {}
    PROVE  Min(T) \in T /\ \A x \in T : Min(T) <= x
<1> DEFINE U == {x - b : x \in T}
<1>1. U \subseteq Nat /\ U # {}
  <2>1. \A x \in T : x \in Int /\ b <= x
    OBVIOUS
  <2>2. \A x \in T : x - b \in Nat
    BY <2>1
  <2> QED  BY <2>2
<1>2. PICK m \in U : \A k \in U : m <= k
  <2> HIDE DEF U
  <2> QED  BY <1>1, Least
<1>3. PICK x \in T : m = x - b
  BY <1>2
<1>4. \A y \in T : x <= y
  <2> TAKE y \in T
  <2>1. m <= y - b /\ x \in Int /\ y \in Int
    BY <1>2
  <2> QED  BY <2>1, <1>3
<1> QED  BY <1>3, <1>4 DEF Min

\* ROUNDDOWN is the multiple of PGSIZE at or below an address.
LEMMA Rounds ==
    ASSUME NEW a \in Nat
    PROVE  /\ ROUNDDOWN(a) \in Nat /\ Multiple(ROUNDDOWN(a))
           /\ ROUNDDOWN(a) <= a /\ a < ROUNDDOWN(a) + PGSIZE
<1>1. PGSIZE \in Nat \ {0}
  BY AreasAssumption
<1>2. a % PGSIZE \in 0..PGSIZE - 1
  BY <1>1, Quotient
<1>3. PICK q \in Nat : a = q * PGSIZE + (a % PGSIZE)
  BY <1>1, Quotient
<1> DEFINE r == a % PGSIZE
           m == q * PGSIZE
<1>4. m \in Nat
  BY <1>1
<1>5. ROUNDDOWN(a) = m
  <2>1. r \in Int /\ a = m + r
    BY <1>2, <1>3
  <2> HIDE DEF r, m
  <2>2. a - r = m
    BY <2>1, <1>4
  <2> QED  BY <2>2 DEF ROUNDDOWN, r
<1>6. a = m + r /\ r \in 0..PGSIZE - 1
  BY <1>2, <1>3
<1> HIDE DEF r
<1>7. m <= a /\ a < m + PGSIZE
  <2> HIDE DEF m
  <2> QED  BY <1>1, <1>4, <1>6
<1> QED  BY <1>4, <1>5, <1>7 DEF Multiple

\* ROUNDUP is the multiple at or above it.
LEMMA RoundsUp ==
    ASSUME NEW a \in Nat
    PROVE  ROUNDUP(a) \in Nat /\ Multiple(ROUNDUP(a)) /\ a <= ROUNDUP(a)
<1>1. PGSIZE \in Nat \ {0} /\ a + PGSIZE - 1 \in Nat
  BY AreasAssumption
<1> DEFINE b == a + PGSIZE - 1
<1>2. /\ ROUNDDOWN(b) \in Nat /\ Multiple(ROUNDDOWN(b)) /\ b < ROUNDDOWN(b) + PGSIZE
  BY <1>1, Rounds
<1>3. a <= ROUNDDOWN(b)
  <2> DEFINE m == ROUNDDOWN(b)
  <2> HIDE DEF m
  <2> QED  BY <1>1, <1>2 DEF m
<1> QED  BY <1>2, <1>3 DEF ROUNDUP

\* Of two multiples the larger is a page above the smaller at least.
LEMMA NextMultiple ==
    ASSUME NEW a \in Nat, NEW b \in Nat, Multiple(a), Multiple(b), a < b
    PROVE  a + PGSIZE <= b
<1>1. PICK p \in Nat, q \in Nat : a = p * PGSIZE /\ b = q * PGSIZE
  BY DEF Multiple
<1>2. PGSIZE \in Nat \ {0}
  BY AreasAssumption
<1>3. p < q
  <2>1. SUFFICES ASSUME q <= p PROVE FALSE
    OBVIOUS
  <2>2. PICK d \in Nat : p = q + d
    BY <2>1
  <2>3. p * PGSIZE = q * PGSIZE + d * PGSIZE /\ d * PGSIZE \in Nat
    BY <1>2, <2>2
  <2> QED  BY <1>1, <2>3
<1>4. PICK d \in Nat : q = p + 1 + d
  <2>1. q - p - 1 \in Nat /\ q = p + 1 + (q - p - 1)
    BY <1>3
  <2> QED  BY <2>1
<1>5. q * PGSIZE = p * PGSIZE + PGSIZE + d * PGSIZE /\ d * PGSIZE \in Nat
  BY <1>2, <1>4
<1> QED  BY <1>1, <1>2, <1>5

-----------------------------------------------------------------------------
(* find_vma *)

\* An area of the list, and its place in it.
LEMMA AreaAt ==
    ASSUME NEW list, Sorted(list), NEW i \in DOMAIN list
    PROVE  /\ list[i] \in VMAs /\ list[i] # NoVma /\ list[i] \in ToSet(list)
           /\ list[i].start \in Nat /\ list[i].end \in Nat
           /\ USERBASE <= list[i].start /\ list[i].start < list[i].end
           /\ list[i].end <= USERTOP
           /\ Multiple(list[i].start) /\ Multiple(list[i].end)
           /\ i \in Nat /\ i \in 1..Len(list) /\ DOMAIN list = 1..Len(list)
<1>1. list \in Seq(VMAs) /\ DOMAIN list = 1..Len(list)
  BY DEF Sorted
<1>2. list[i] \in VMAs
  BY <1>1
<1>3. list[i].start \in Nat /\ list[i].end \in Nat
  <2>1. list[i].start \in 0..USERTOP + PGSIZE /\ list[i].end \in 0..USERTOP + PGSIZE
    BY <1>2 DEF VMAs, Addresses
  <2> QED  BY <2>1
<1> QED  BY <1>1, <1>2, <1>3, AreasAssumption DEF Sorted, USER_ACCESS, ToSet

\* Two areas that hold the same byte are one.
LEMMA OneArea ==
    ASSUME NEW list, Sorted(list), NEW a \in Nat,
           NEW i \in DOMAIN list, NEW j \in DOMAIN list, Holds(list[i], a), Holds(list[j], a)
    PROVE  i = j
<1>1. /\ list[i].start \in Nat /\ list[i].end \in Nat /\ i \in Nat
      /\ list[j].start \in Nat /\ list[j].end \in Nat /\ j \in Nat
  BY AreaAt
<1>2. /\ i < j => list[i].end <= list[j].start
      /\ j < i => list[j].end <= list[i].start
  BY DEF Sorted
<1> QED  BY <1>1, <1>2 DEF Holds

\* find_vma returns an area that holds the address, or NoVma if none does.
LEMMA Finds ==
    ASSUME NEW list, Sorted(list), NEW cache \in CacheOf(list), NEW a
    PROVE  /\ find_vma(list, cache, a) \in CacheOf(list)
           /\ find_vma(list, cache, a) = NoVma <=> \A i \in DOMAIN list : ~Holds(list[i], a)
           /\ find_vma(list, cache, a) # NoVma =>
                \E i \in DOMAIN list : find_vma(list, cache, a) = list[i] /\ Holds(list[i], a)
           /\ Cached(find_vma(list, cache, a), cache) \in CacheOf(list)
<1> DEFINE found == {i \in DOMAIN list : Holds(list[i], a)}
<1>1. \A i \in DOMAIN list : list[i] # NoVma /\ list[i] \in ToSet(list)
  BY AreaAt
<1>2. found # {} => Min(found) \in found
  <2>1. \A i \in DOMAIN list : i \in Nat
    BY AreaAt
  <2>2. found \subseteq Int /\ (\A x \in found : 0 <= x) /\ 0 \in Int
    BY <2>1
  <2> HIDE DEF found
  <2>3. ASSUME found # {} PROVE Min(found) \in found
    BY <2>2, <2>3, MinFacts
  <2> QED  BY <2>3
<1>3. Scan(list, a) = IF found = {} THEN NoVma ELSE list[Min(found)]
  BY DEF Scan
<1>4. /\ Scan(list, a) = NoVma <=> \A i \in DOMAIN list : ~Holds(list[i], a)
      /\ Scan(list, a) # NoVma => \E i \in DOMAIN list : Scan(list, a) = list[i] /\ Holds(list[i], a)
      /\ Scan(list, a) \in CacheOf(list)
  <2>1. CASE found = {}
    BY <1>3, <2>1 DEF CacheOf
  <2>2. CASE found # {}
    <3>1. Min(found) \in DOMAIN list /\ Holds(list[Min(found)], a)
      BY <1>2, <2>2
    <3> HIDE DEF found
    <3> QED  BY <1>1, <1>3, <3>1, <2>2 DEF CacheOf
  <2> QED  BY <2>1, <2>2
<1>5. CASE cache # NoVma /\ Holds(cache, a)
  <2>1. PICK i \in DOMAIN list : cache = list[i]
    BY <1>5 DEF CacheOf, ToSet
  <2> QED  BY <1>5, <2>1 DEF find_vma, Cached
<1>6. CASE ~(cache # NoVma /\ Holds(cache, a))
  BY <1>4, <1>6 DEF find_vma, Cached
<1> QED  BY <1>5, <1>6

-----------------------------------------------------------------------------
(* insert_vma_struct *)

\* The place of a new area is one of the list, or behind it.
LEMMA PlaceFacts ==
    ASSUME NEW list \in Seq(VMAs), NEW vma
    PROVE  /\ Place(list, vma) \in 1..Len(list) + 1
           /\ \A i \in DOMAIN list : list[i].start > vma.start => Place(list, vma) <= i
<1> DEFINE later == {i \in DOMAIN list : list[i].start > vma.start}
           T == later \cup {Len(list) + 1}
<1>1. DOMAIN list = 1..Len(list) /\ Len(list) \in Nat
  OBVIOUS
<1>2. T \subseteq Int /\ (\A x \in T : 1 <= x) /\ 1 \in Int /\ T # {}
  BY <1>1
<1>3. \A x \in T : x <= Len(list) + 1
  BY <1>1
<1>4. Min(T) \in T /\ \A x \in T : Min(T) <= x
  <2> HIDE DEF T
  <2> QED  BY <1>2, MinFacts
<1>5. Min(T) \in 1..Len(list) + 1
  <2> DEFINE m == Min(T)
  <2>1. m \in T
    BY <1>4
  <2> HIDE DEF m
  <2>2. m \in Int /\ 1 <= m /\ m <= Len(list) + 1
    BY <1>1, <1>2, <1>3, <2>1
  <2> QED  BY <1>1, <2>2 DEF m
<1> QED  BY <1>4, <1>5 DEF Place

\* An area that insert_vma_struct lets in keeps the list sorted, though it looks
\* at two neighbours only.
LEMMA Inserts ==
    ASSUME NEW list, Sorted(list), NEW vma \in VMAs,
           USER_ACCESS(vma.start, vma.end), Multiple(vma.start), Multiple(vma.end),
           MayInsert(list, vma)
    PROVE  /\ Sorted(insert_vma_struct(list, vma))
           /\ CacheOf(list) \subseteq CacheOf(insert_vma_struct(list, vma))
<1> DEFINE k == Place(list, vma)
           new == insert_vma_struct(list, vma)
<1>1. list \in Seq(VMAs) /\ DOMAIN list = 1..Len(list) /\ Len(list) \in Nat
  BY DEF Sorted
<1>2. k \in Nat /\ 1 <= k /\ k <= Len(list) + 1
  BY <1>1, PlaceFacts
<1>3. /\ k > 1 => check_vma_overlap(list[k - 1], vma)
      /\ k <= Len(list) => check_vma_overlap(vma, list[k])
  BY DEF MayInsert
<1>4. vma.start \in Nat /\ vma.end \in Nat /\ vma.start < vma.end
  <2>1. vma.start \in 0..USERTOP + PGSIZE /\ vma.end \in 0..USERTOP + PGSIZE
    BY DEF VMAs, Addresses
  <2> QED  BY <2>1 DEF USER_ACCESS
<1> HIDE DEF k
<1>5. InsertedAt(InsertAt(list, k, vma), list, k, vma, VMAs)
  BY <1>1, <1>2, InsertAtFacts
<1>6. new = InsertAt(list, k, vma)
  BY DEF insert_vma_struct, k
<1> HIDE DEF new
<1>7. /\ new \in Seq(VMAs) /\ Len(new) = Len(list) + 1 /\ new[k] = vma
      /\ \A i \in 1..k - 1 : new[i] = list[i]
      /\ \A i \in k + 1..Len(list) + 1 : new[i] = list[i - 1]
  BY <1>5, <1>6 DEF InsertedAt
<1>8. DOMAIN new = 1..Len(list) + 1
  BY <1>7
<1>9. \A i \in 1..Len(list) : /\ list[i].start \in Nat /\ list[i].end \in Nat
                              /\ list[i].start < list[i].end
  BY <1>1, AreaAt
<1>10. \A i, j \in 1..Len(list) : i < j => list[i].end <= list[j].start
  BY <1>1 DEF Sorted
<1>11. \A i \in 1..Len(list) : i < k => list[i].end <= vma.start
  <2> TAKE i \in 1..Len(list)
  <2> SUFFICES ASSUME i < k PROVE list[i].end <= vma.start
    OBVIOUS
  <2>1. k - 1 \in 1..Len(list) /\ k > 1 /\ i <= k - 1
    BY <1>1, <1>2
  <2>2. list[k - 1].end <= vma.start
    BY <1>3, <2>1 DEF check_vma_overlap
  <2>3. CASE i = k - 1
    BY <2>2, <2>3
  <2>4. CASE i # k - 1
    <3>1. list[i].end <= list[k - 1].start
      BY <1>10, <2>1, <2>4, <1>2
    <3>2. list[k - 1].start < list[k - 1].end
      BY <1>9, <2>1
    <3> QED  BY <1>4, <1>9, <2>1, <2>2, <3>1, <3>2
  <2> QED  BY <2>3, <2>4
<1>12. \A i \in 1..Len(list) : k <= i => vma.end <= list[i].start
  <2> TAKE i \in 1..Len(list)
  <2> SUFFICES ASSUME k <= i PROVE vma.end <= list[i].start
    OBVIOUS
  <2>1. k \in 1..Len(list)
    BY <1>1, <1>2
  <2>2. vma.end <= list[k].start
    BY <1>3, <2>1 DEF check_vma_overlap
  <2>3. CASE i = k
    BY <2>2, <2>3
  <2>4. CASE i # k
    <3>1. list[k].end <= list[i].start
      BY <1>10, <2>1, <2>4, <1>2
    <3>2. list[k].start < list[k].end
      BY <1>9, <2>1
    <3> QED  BY <1>4, <1>9, <2>1, <2>2, <3>1, <3>2
  <2> QED  BY <2>3, <2>4
<1>13. \A i \in 1..Len(list) + 1 :
         \/ i = k /\ new[i] = vma
         \/ i < k /\ i \in 1..Len(list) /\ new[i] = list[i]
         \/ i > k /\ i - 1 \in 1..Len(list) /\ k <= i - 1 /\ new[i] = list[i - 1]
  BY <1>1, <1>2, <1>7
<1>14. \A i \in 1..Len(list) + 1 :
         /\ USER_ACCESS(new[i].start, new[i].end)
         /\ Multiple(new[i].start) /\ Multiple(new[i].end)
  BY <1>1, <1>13 DEF Sorted
<1>15. \A i, j \in 1..Len(list) + 1 : i < j => new[i].end <= new[j].start
  <2> SUFFICES ASSUME NEW i \in 1..Len(list) + 1, NEW j \in 1..Len(list) + 1, i < j
               PROVE  new[i].end <= new[j].start
    OBVIOUS
  <2>1. CASE i < k /\ j < k
    BY <1>2, <1>10, <1>13, <2>1
  <2>2. CASE i < k /\ j = k
    BY <1>2, <1>11, <1>13, <2>2
  <2>3. CASE i < k /\ j > k
    <3>1. /\ i \in 1..Len(list) /\ new[i] = list[i]
          /\ j - 1 \in 1..Len(list) /\ k <= j - 1 /\ new[j] = list[j - 1]
      BY <1>2, <1>13, <2>3
    <3>2. i < j - 1
      BY <1>2, <2>3
    <3> QED  BY <1>10, <3>1, <3>2
  <2>4. CASE i = k
    <3>1. j - 1 \in 1..Len(list) /\ k <= j - 1 /\ new[j] = list[j - 1] /\ new[i] = vma
      BY <1>2, <1>13, <2>4
    <3> QED  BY <1>12, <3>1
  <2>5. CASE i > k
    <3>1. /\ i - 1 \in 1..Len(list) /\ new[i] = list[i - 1]
          /\ j - 1 \in 1..Len(list) /\ new[j] = list[j - 1]
      BY <1>2, <1>13, <2>5
    <3>2. i - 1 < j - 1
      OBVIOUS
    <3> QED  BY <1>10, <3>1, <3>2
  <2> QED  BY <1>2, <2>1, <2>2, <2>3, <2>4, <2>5
<1>16. Sorted(new)
  BY <1>7, <1>8, <1>14, <1>15 DEF Sorted
<1>17. ToSet(list) \subseteq ToSet(new)
  <2> SUFFICES ASSUME NEW i \in 1..Len(list) PROVE \E j \in 1..Len(list) + 1 : new[j] = list[i]
    BY <1>1, <1>8 DEF ToSet
  <2>1. CASE i < k
    <3>1. i \in 1..k - 1 /\ i \in 1..Len(list) + 1
      BY <1>1, <1>2, <2>1
    <3> QED  BY <1>7, <3>1
  <2>2. CASE k <= i
    <3>1. i + 1 \in k + 1..Len(list) + 1 /\ i + 1 \in 1..Len(list) + 1 /\ (i + 1) - 1 = i
      BY <1>1, <1>2, <2>2
    <3> QED  BY <1>7, <3>1
  <2> QED  BY <1>2, <2>1, <2>2
<1> QED  BY <1>16, <1>17 DEF CacheOf, new

-----------------------------------------------------------------------------
(* user_mem_check *)

\* w holds the loop of user_mem_check turn by turn.
LoopTurns(w, list, cache, start, end, write) ==
    w = [n \in 0..Len(list) + 1 |->
           IF n = 0 THEN [ok |-> TRUE, at |-> start, cache |-> cache]
           ELSE Turn(list, w[n - 1], end, write)]

\* The loop of user_mem_check is a recursion that exists: its function takes each
\* turn from the one before.
LEMMA WalkTurns ==
    ASSUME NEW list, Len(list) \in Nat, NEW cache, NEW start, NEW end, NEW write
    PROVE  \E w : /\ LoopTurns(w, list, cache, start, end, write)
                  /\ Walk(list, cache, start, end, write) = w[Len(list) + 1]
<1> DEFINE first == [ok |-> TRUE, at |-> start, cache |-> cache]
           Upto(f, n) == f = [i \in 0..n |-> IF i = 0 THEN first
                                               ELSE Turn(list, f[i - 1], end, write)]
           T == {n \in Nat : \E f : Upto(f, n)}
<1> HIDE DEF first
<1>1. 0 \in T
  <2>1. Upto([i \in 0..0 |-> first], 0)
    OBVIOUS
  <2> QED  BY <2>1
<1>2. ASSUME NEW n \in Nat, n \in T  PROVE n + 1 \in T
  <2>1. PICK f : Upto(f, n)
    BY <1>2
  <2> DEFINE g == [i \in 0..n + 1 |-> IF i <= n THEN f[i] ELSE Turn(list, f[n], end, write)]
  <2> HIDE DEF Upto
  <2>2. Upto(g, n + 1)
    <3>1. ASSUME NEW i \in 0..n + 1
          PROVE  g[i] = IF i = 0 THEN first ELSE Turn(list, g[i - 1], end, write)
      <4>1. CASE i = 0
        BY <4>1, <2>1 DEF Upto
      <4>2. CASE i # 0 /\ i <= n
        <5>1. i \in 0..n /\ i - 1 \in 0..n + 1 /\ i - 1 <= n
          BY <4>2
        <5>2. f[i] = Turn(list, f[i - 1], end, write)
          BY <4>2, <5>1, <2>1 DEF Upto
        <5> QED  BY <4>2, <5>1, <5>2
      <4>3. CASE i = n + 1
        <5>1. i - 1 \in 0..n + 1 /\ i - 1 <= n /\ i - 1 = n /\ ~(i <= n) /\ i # 0
          BY <4>3
        <5> QED  BY <4>3, <5>1
      <4> QED  BY <4>1, <4>2, <4>3
    <3> DEFINE h == [i \in 0..n + 1 |-> IF i = 0 THEN first
                                        ELSE Turn(list, g[i - 1], end, write)]
    <3>2. \A i \in 0..n + 1 : g[i] = h[i]
      BY <3>1
    <3>3. g = [i \in 0..n + 1 |-> g[i]] /\ h = [i \in 0..n + 1 |-> h[i]]
      OBVIOUS
    <3>4. g = h
      <4> HIDE DEF g, h
      <4> QED  BY <3>2, <3>3
    <3> HIDE DEF g
    <3> QED  BY <3>4 DEF Upto
  <2> HIDE DEF g
  <2> QED  BY <2>2
<1>3. Nat \subseteq T
  <2> HIDE DEF T
  <2> QED  BY <1>1, <1>2, Induction
<1>4. \E f : Upto(f, Len(list) + 1)
  BY <1>3
<1> DEFINE walk == CHOOSE f : Upto(f, Len(list) + 1)
<1>5. Upto(walk, Len(list) + 1)
  <2> HIDE DEF Upto
  <2> QED  BY <1>4
<1>6. Walk(list, cache, start, end, write) = walk[Len(list) + 1]
  BY DEF Walk, first
<1> HIDE DEF walk
<1> QED  BY <1>5, <1>6 DEF first, LoopTurns

\* What holds before each turn: every byte up to w.at may be accessed, unless one
\* was found that may not; and the n-th turn is behind the n-th area.
Passed(list, start, end, write, w, n) ==
    /\ w.at \in Nat /\ start <= w.at /\ w.ok \in BOOLEAN /\ w.cache \in CacheOf(list)
    /\ w.ok => \A b \in Nat : start <= b /\ b < w.at => ByteAllowed(list, b, write)
    /\ ~w.ok => \E b \in Nat : start <= b /\ b < end /\ ~ByteAllowed(list, b, write)
    /\ n > 0 /\ w.ok /\ w.at < end => \E i \in DOMAIN list : n <= i /\ w.at = list[i].end

\* Allowed answers for the byte asked about, and for those behind it.
LEMMA AllowedBytes ==
    ASSUME NEW list, Sorted(list), NEW i \in DOMAIN list,
           NEW a \in Nat, Holds(list[i], a), NEW write \in BOOLEAN
    PROVE  /\ Allowed(list[i], a, write) <=> ByteAllowed(list, a, write)
           /\ Allowed(list[i], a, write) =>
                \A b \in Nat : a <= b /\ b < list[i].end => ByteAllowed(list, b, write)
<1>1. list[i].start \in Nat /\ list[i].end \in Nat /\ PGSIZE \in Nat
  BY AreaAt, AreasAssumption
<1>2. \A j \in DOMAIN list : Holds(list[j], a) => j = i
  BY OneArea
<1>3. Allowed(list[i], a, write) <=> ByteAllowed(list, a, write)
  BY <1>2 DEF Allowed, ByteAllowed
<1>4. ASSUME Allowed(list[i], a, write), NEW b \in Nat, a <= b, b < list[i].end
      PROVE  ByteAllowed(list, b, write)
  <2>1. Holds(list[i], b)
    BY <1>1, <1>4 DEF Holds
  <2>2. "STACK" \in list[i].flags /\ write => b >= list[i].start + PGSIZE
    BY <1>1, <1>4 DEF Allowed
  <2> QED  BY <1>4, <2>1, <2>2 DEF Allowed, ByteAllowed
<1> QED  BY <1>3, <1>4

\* A turn goes on behind the next area, or has found a byte that is not allowed.
LEMMA TurnPasses ==
    ASSUME NEW list, Sorted(list), NEW start \in Nat, NEW end \in Nat,
           NEW write \in BOOLEAN, NEW n \in Nat, NEW w, Passed(list, start, end, write, w, n)
    PROVE  Passed(list, start, end, write, Turn(list, w, end, write), n + 1)
<1> DEFINE vma == find_vma(list, w.cache, w.at)
           v == Turn(list, w, end, write)
<1>1. w.at \in Nat /\ start <= w.at /\ w.ok \in BOOLEAN /\ w.cache \in CacheOf(list)
  BY DEF Passed
<1>2. CASE ~w.ok \/ w.at >= end
  <2>1. v = w
    BY <1>2 DEF Turn
  <2>2. ~(v.ok /\ v.at < end)
    BY <1>1, <1>2, <2>1
  <2> HIDE DEF v
  <2> QED  BY <2>1, <2>2 DEF Passed, v
<1>3. CASE w.ok /\ w.at < end
  <2>1. /\ vma \in CacheOf(list) /\ Cached(vma, w.cache) \in CacheOf(list)
        /\ vma = NoVma <=> \A i \in DOMAIN list : ~Holds(list[i], w.at)
        /\ vma # NoVma => \E i \in DOMAIN list : vma = list[i] /\ Holds(list[i], w.at)
    BY <1>1, Finds
  <2>2. ~(~w.ok \/ w.at >= end)
    BY <1>1, <1>3
  <2>3. /\ v.ok = (vma # NoVma /\ Allowed(vma, w.at, write))
        /\ v.at = IF vma = NoVma THEN w.at ELSE vma.end
        /\ v.cache = Cached(vma, w.cache)
    BY <2>2 DEF Turn
  <2> HIDE DEF vma, v
  <2>4. CASE vma = NoVma
    <3>1. ~ByteAllowed(list, w.at, write)
      BY <2>1, <2>4 DEF ByteAllowed
    <3>2. v.ok = FALSE /\ v.at = w.at
      BY <2>3, <2>4
    <3>3. \E b \in Nat : start <= b /\ b < end /\ ~ByteAllowed(list, b, write)
      BY <1>1, <1>3, <3>1
    <3> QED  BY <1>1, <2>1, <2>3, <3>2, <3>3 DEF Passed, v
  <2>5. CASE vma # NoVma
    <3>1. PICK i \in DOMAIN list : vma = list[i] /\ Holds(list[i], w.at)
      BY <2>1, <2>5
    <3>2. /\ list[i].end \in Nat /\ i \in Nat /\ 1 <= i
          /\ w.at < list[i].end
      <4>1. i \in 1..Len(list) /\ list[i].end \in Nat
        BY AreaAt
      <4> QED  BY <3>1, <4>1 DEF Holds
    <3>3. v.at = list[i].end /\ v.ok = Allowed(list[i], w.at, write) /\ v.ok \in BOOLEAN
      BY <2>3, <2>5, <3>1 DEF Allowed
    <3>4. /\ v.ok <=> ByteAllowed(list, w.at, write)
          /\ v.ok => \A b \in Nat : w.at <= b /\ b < v.at => ByteAllowed(list, b, write)
      BY <1>1, <3>1, <3>3, AllowedBytes
    <3>5. v.at \in Nat /\ start <= v.at
      BY <1>1, <3>2, <3>3
    <3>6. v.ok => \A b \in Nat : start <= b /\ b < v.at => ByteAllowed(list, b, write)
      <4> SUFFICES ASSUME v.ok, NEW b \in Nat, start <= b, b < v.at
                   PROVE  ByteAllowed(list, b, write)
        OBVIOUS
      <4>1. CASE b < w.at
        BY <1>3, <4>1 DEF Passed
      <4>2. CASE w.at <= b
        BY <3>4, <4>2
      <4> QED  BY <1>1, <4>1, <4>2
    <3>7. ~v.ok => \E b \in Nat : start <= b /\ b < end /\ ~ByteAllowed(list, b, write)
      BY <1>1, <1>3, <3>4
    <3>8. n + 1 <= i
      <4>1. CASE n = 0
        BY <3>2, <4>1
      <4>2. CASE n > 0
        <5>1. PICK j \in DOMAIN list : n <= j /\ w.at = list[j].end
          BY <1>3, <4>2 DEF Passed
        <5>2. j \in Nat /\ list[j].start \in Nat /\ list[j].end \in Nat /\ list[j].start < list[j].end
          BY AreaAt
        <5>3. i < j => list[i].end <= list[j].start
          BY DEF Sorted
        <5>4. ~(i <= j)
          BY <3>2, <5>1, <5>2, <5>3
        <5> QED  BY <3>2, <5>1, <5>2, <5>4
      <4> QED  BY <4>1, <4>2
    <3>9. v.cache \in CacheOf(list)
      BY <2>1, <2>3
    <3> QED  BY <3>3, <3>5, <3>6, <3>7, <3>8, <3>9 DEF Passed, v
  <2> QED  BY <2>4, <2>5
<1> QED  BY <1>1, <1>2, <1>3

\* The loop ends within its turns, and its answer is about every byte.
LEMMA WalkPasses ==
    ASSUME NEW list, Sorted(list), NEW cache \in CacheOf(list),
           NEW start \in Nat, NEW end \in Nat, NEW write \in BOOLEAN
    PROVE  /\ Walk(list, cache, start, end, write).cache \in CacheOf(list)
           /\ Walk(list, cache, start, end, write).ok \in BOOLEAN
           /\ Walk(list, cache, start, end, write).ok <=>
                \A b \in Nat : start <= b /\ b < end => ByteAllowed(list, b, write)
<1>1. Len(list) \in Nat /\ DOMAIN list = 1..Len(list)
  BY DEF Sorted
<1>2. PICK w : /\ LoopTurns(w, list, cache, start, end, write)
               /\ Walk(list, cache, start, end, write) = w[Len(list) + 1]
  BY <1>1, WalkTurns
<1> DEFINE k == Len(list) + 1
           first == [ok |-> TRUE, at |-> start, cache |-> cache]
<1> DEFINE T == {n \in Nat : n <= k => Passed(list, start, end, write, w[n], n)}
<1>3. 0 \in T
  <2>1. w[0] = first
    BY <1>1, <1>2 DEF LoopTurns
  <2>2. \A b \in Nat : ~(start <= b /\ b < start)
    OBVIOUS
  <2>3. Passed(list, start, end, write, first, 0)
    BY <2>2 DEF Passed
  <2> QED  BY <2>1, <2>3
<1>4. ASSUME NEW n \in Nat, n \in T  PROVE n + 1 \in T
  <2> SUFFICES ASSUME n + 1 <= k PROVE Passed(list, start, end, write, w[n + 1], n + 1)
    OBVIOUS
  <2>1. n <= k /\ n + 1 \in 0..k /\ n + 1 # 0 /\ (n + 1) - 1 = n
    BY <1>1
  <2>2. Passed(list, start, end, write, w[n], n)
    BY <1>4, <2>1
  <2>3. w[n + 1] = Turn(list, w[n], end, write)
    BY <1>2, <2>1 DEF LoopTurns
  <2> QED  BY <2>2, <2>3, TurnPasses
<1>5. Passed(list, start, end, write, w[k], k)
  <2>1. Nat \subseteq T
    <3> HIDE DEF T
    <3> QED  BY <1>3, <1>4, Induction
  <2>2. k \in Nat
    BY <1>1
  <2> QED  BY <2>1, <2>2
<1> DEFINE v == w[k]
<1> HIDE DEF v
<1>6. /\ v.at \in Nat /\ v.ok \in BOOLEAN /\ v.cache \in CacheOf(list)
      /\ v.ok => \A b \in Nat : start <= b /\ b < v.at => ByteAllowed(list, b, write)
      /\ ~v.ok => \E b \in Nat : start <= b /\ b < end /\ ~ByteAllowed(list, b, write)
      /\ v.ok /\ v.at < end => \E i \in DOMAIN list : k <= i
  <2>1. k > 0
    BY <1>1
  <2> QED  BY <1>5, <2>1 DEF Passed, v
<1>7. v.ok => end <= v.at
  BY <1>1, <1>6
<1>8. v.ok <=> \A b \in Nat : start <= b /\ b < end => ByteAllowed(list, b, write)
  BY <1>6, <1>7
<1> QED  BY <1>2, <1>6, <1>8 DEF v

\* A byte that may be accessed is one of the user part.
LEMMA AllowedInUser ==
    ASSUME NEW list, Sorted(list), NEW a \in Nat, NEW write,
           ByteAllowed(list, a, write)
    PROVE  USERBASE <= a /\ a < USERTOP
<1>1. PICK i \in DOMAIN list : Holds(list[i], a)
  BY DEF ByteAllowed
<1>2. /\ list[i].start \in Nat /\ list[i].end \in Nat
      /\ USERBASE <= list[i].start /\ list[i].end <= USERTOP
  BY AreaAt
<1>3. USERBASE \in Nat /\ USERTOP \in Nat
  BY AreasAssumption
<1> QED  BY <1>1, <1>2, <1>3 DEF Holds

\* user_mem_check answers for every byte of the range.
LEMMA Checks ==
    ASSUME NEW list, Sorted(list), NEW cache \in CacheOf(list),
           NEW addr \in Nat, NEW len \in Int, NEW write \in BOOLEAN
    PROVE  user_mem_check(list, cache, addr, len, write) <=>
             /\ len > 0
             /\ \A b \in Nat : addr <= b /\ b < addr + len => ByteAllowed(list, b, write)
<1> DEFINE all == \A b \in Nat : addr <= b /\ b < addr + len => ByteAllowed(list, b, write)
<1>1. USERBASE \in Nat /\ USERTOP \in Nat
  BY AreasAssumption
<1>2. CASE USER_ACCESS(addr, addr + len)
  <2>1. len > 0 /\ addr + len \in Nat
    BY <1>1, <1>2 DEF USER_ACCESS
  <2>2. Walk(list, cache, addr, addr + len, write).ok <=> all
    BY <2>1, WalkPasses
  <2> HIDE DEF all
  <2>3. user_mem_check(list, cache, addr, len, write) <=> all
    BY <1>2, <2>2 DEF user_mem_check
  <2> QED  BY <2>1, <2>3 DEF all
<1>3. CASE ~USER_ACCESS(addr, addr + len)
  <2>1. ~user_mem_check(list, cache, addr, len, write)
    BY <1>3 DEF user_mem_check
  <2>2. SUFFICES ASSUME len > 0, all PROVE FALSE
    BY <2>1
  <2>3. ByteAllowed(list, addr, write) /\ ByteAllowed(list, addr + len - 1, write)
    <3>1. addr + len - 1 \in Nat /\ addr <= addr + len - 1 /\ addr + len - 1 < addr + len
      BY <2>2
    <3> QED  BY <2>2, <3>1
  <2>4. USERBASE <= addr
    BY <2>3, AllowedInUser
  <2>5. addr + len - 1 < USERTOP
    <3>1. addr + len - 1 \in Nat
      BY <2>2
    <3> QED  BY <2>3, <3>1, AllowedInUser
  <2>6. USERBASE <= addr /\ addr < addr + len /\ addr + len <= USERTOP
    BY <1>1, <2>2, <2>4, <2>5
  <2> QED  BY <1>3, <2>6 DEF USER_ACCESS
<1> QED  BY <1>2, <1>3

-----------------------------------------------------------------------------
(* copy_string *)

\* f holds the start of each part copy_string asks for.
Parts(f, src, m) ==
    f = [n \in 0..m |-> IF n = 0 THEN src ELSE src + FirstPart(src) + (n - 1) * PGSIZE]

\* The pages of copy_string: the first ends where src's page does, and each of
\* the others is a whole page.
LEMMA Pages ==
    ASSUME NEW src \in Nat, NEW f, NEW m \in Nat, Parts(f, src, m)
    PROVE  /\ f[0] = src
           /\ \A n \in 0..m : f[n] \in Nat /\ src + n <= f[n]
           /\ \A n \in 0..m - 1 : /\ f[n] < f[n + 1] /\ Multiple(f[n + 1])
                                  /\ \E p \in Nat : /\ Multiple(p) /\ p <= f[n]
                                                    /\ f[n + 1] = p + PGSIZE
<1> DEFINE first == ROUNDDOWN(src + PGSIZE)
           g(n) == first + n * PGSIZE
<1>1. PGSIZE \in Nat \ {0} /\ src + PGSIZE \in Nat
  BY AreasAssumption
<1>2. /\ first \in Nat /\ Multiple(first)
      /\ first <= src + PGSIZE /\ src + PGSIZE < first + PGSIZE
  BY <1>1, Rounds
<1> HIDE DEF first
<1>3. src < first
  BY <1>1, <1>2
<1>4. \A n \in Nat : g(n) \in Nat /\ g(n + 1) = g(n) + PGSIZE
  <2> TAKE n \in Nat
  <2>1. n * PGSIZE \in Nat /\ (n + 1) * PGSIZE = n * PGSIZE + PGSIZE
    BY <1>1
  <2> DEFINE x == n * PGSIZE
             y == (n + 1) * PGSIZE
  <2> HIDE DEF x, y
  <2>2. x \in Nat /\ y = x + PGSIZE
    BY <2>1 DEF x, y
  <2>3. first + x \in Nat /\ first + y = (first + x) + PGSIZE
    BY <1>1, <1>2, <2>2
  <2> QED  BY <2>3 DEF x, y
<1>5. g(0) = first
  BY <1>1, <1>2
<1>6. \A n \in Nat : Multiple(g(n)) /\ src + n + 1 <= g(n)
  <2> DEFINE T == {n \in Nat : Multiple(g(n)) /\ src + n + 1 <= g(n)}
  <2>1. 0 \in T
    BY <1>2, <1>3, <1>5
  <2>2. ASSUME NEW n \in Nat, n \in T PROVE n + 1 \in T
    <3>1. g(n) \in Nat /\ g(n + 1) = g(n) + PGSIZE /\ Multiple(g(n)) /\ src + n + 1 <= g(n)
      BY <1>4, <2>2
    <3> HIDE DEF g
    <3>2. PICK q \in Nat : g(n) = q * PGSIZE
      BY <3>1 DEF Multiple
    <3>3. (q + 1) * PGSIZE = q * PGSIZE + PGSIZE /\ q + 1 \in Nat
      BY <1>1
    <3>4. Multiple(g(n + 1))
      BY <3>1, <3>2, <3>3 DEF Multiple
    <3>5. src + (n + 1) + 1 <= g(n + 1)
      BY <1>1, <3>1
    <3> QED  BY <3>4, <3>5
  <2>3. Nat \subseteq T
    <3> HIDE DEF T
    <3> QED  BY <2>1, <2>2, Induction
  <2> QED  BY <2>3
<1>7. \A n \in 0..m : f[n] = IF n = 0 THEN src ELSE g(n - 1)
  <2> TAKE n \in 0..m
  <2>1. src + FirstPart(src) = first
    BY <1>2 DEF FirstPart, first
  <2> QED  BY <2>1 DEF Parts
<1> HIDE DEF g
<1>8. f[0] = src
  BY <1>7
<1>9. ASSUME NEW n \in 0..m PROVE f[n] \in Nat /\ src + n <= f[n]
  <2>1. CASE n = 0
    BY <1>8, <2>1
  <2>2. CASE n # 0
    <3>1. n - 1 \in Nat /\ f[n] = g(n - 1)
      BY <1>7, <2>2
    <3>2. g(n - 1) \in Nat /\ src + (n - 1) + 1 <= g(n - 1)
      BY <1>4, <1>6, <3>1
    <3> QED  BY <3>1, <3>2
  <2> QED  BY <2>1, <2>2
<1>10. ASSUME NEW n \in 0..m - 1
       PROVE  /\ f[n] < f[n + 1] /\ Multiple(f[n + 1])
              /\ \E p \in Nat : Multiple(p) /\ p <= f[n] /\ f[n + 1] = p + PGSIZE
  <2>1. n \in 0..m /\ n + 1 \in 0..m /\ n + 1 # 0 /\ (n + 1) - 1 = n /\ n \in Nat
    OBVIOUS
  <2>2. f[n + 1] = g(n) /\ Multiple(g(n))
    BY <1>6, <1>7, <2>1
  <2>3. CASE n = 0
    <3>1. f[n] = src /\ f[n + 1] = first
      BY <1>5, <1>8, <2>2, <2>3
    <3>2. PICK q \in Nat : first = q * PGSIZE
      BY <1>2 DEF Multiple
    <3>3. q # 0
      BY <1>1, <1>3, <3>2
    <3>4. q - 1 \in Nat /\ (q - 1) * PGSIZE \in Nat /\ q * PGSIZE = (q - 1) * PGSIZE + PGSIZE
      BY <1>1, <3>3
    <3> DEFINE p == (q - 1) * PGSIZE
    <3>5. p \in Nat /\ Multiple(p) /\ first = p + PGSIZE
      BY <3>2, <3>4 DEF Multiple
    <3> HIDE DEF p
    <3>6. p <= src
      BY <1>1, <1>2, <3>5
    <3> QED  BY <1>3, <2>2, <3>1, <3>5, <3>6
  <2>4. CASE n # 0
    <3>1. n - 1 \in Nat /\ (n - 1) + 1 = n
      BY <2>1, <2>4
    <3>2. f[n] = g(n - 1) /\ g(n) = g(n - 1) + PGSIZE /\ g(n - 1) \in Nat /\ Multiple(g(n - 1))
      BY <1>4, <1>6, <1>7, <2>1, <2>4, <3>1
    <3> QED  BY <1>1, <2>2, <3>2
  <2> QED  BY <2>3, <2>4
<1> QED  BY <1>8, <1>9, <1>10

\* Pages that grow hold every address between the first and the last of them.
LEMMA PageOf ==
    ASSUME NEW m \in Nat, NEW f, \A n \in 0..m : f[n] \in Nat,
           NEW b \in Nat, f[0] <= b, b < f[m]
    PROVE  \E n \in 0..m - 1 : f[n] <= b /\ b < f[n + 1]
<1> DEFINE T == {k \in Nat : k <= m /\ b < f[k] => \E n \in 0..k - 1 : f[n] <= b /\ b < f[n + 1]}
<1>1. 0 \in T
  OBVIOUS
<1>2. ASSUME NEW k \in Nat, k \in T PROVE k + 1 \in T
  <2> SUFFICES ASSUME k + 1 <= m, b < f[k + 1]
               PROVE  \E n \in 0..(k + 1) - 1 : f[n] <= b /\ b < f[n + 1]
    OBVIOUS
  <2>1. k \in 0..m /\ f[k] \in Nat
    OBVIOUS
  <2>2. CASE b < f[k]
    <3>1. PICK n \in 0..k - 1 : f[n] <= b /\ b < f[n + 1]
      BY <1>2, <2>1, <2>2
    <3> QED  BY <3>1
  <2>3. CASE f[k] <= b
    BY <2>3
  <2> QED  BY <2>1, <2>2, <2>3
<1>3. Nat \subseteq T
  <2> HIDE DEF T
  <2> QED  BY <1>1, <1>2, Induction
<1> QED  BY <1>3

\* copy_string answers for every byte of the string, and for its length.
LEMMA Copies ==
    ASSUME NEW list, Sorted(list), NEW cache \in CacheOf(list),
           NEW src \in Nat, NEW nul \in Nat, nul >= src, NEW maxn \in Nat
    PROVE  copy_string(list, cache, src, nul, maxn) <=>
             /\ nul < src + maxn
             /\ \A b \in Nat : src <= b /\ b <= nul => ByteAllowed(list, b, FALSE)
<1> DEFINE f == [n \in 0..maxn + 1 |->
                   IF n = 0 THEN src ELSE src + FirstPart(src) + (n - 1) * PGSIZE]
           rest(n) == maxn - (f[n] - src)
           piece(n) == Min({f[n + 1] - f[n], rest(n)})
           read(n) == user_mem_check(list, cache, f[n], piece(n), FALSE)
           may(b) == ByteAllowed(list, b, FALSE)
<1>1. copy_string(list, cache, src, nul, maxn) <=>
        \E n \in 0..maxn : /\ \A k \in 0..n : read(k)
                           /\ nul - f[n] < piece(n)
                           /\ \A k \in 0..n - 1 : piece(k) # rest(k)
  BY DEF copy_string
<1>2. /\ f[0] = src
      /\ \A n \in 0..maxn + 1 : f[n] \in Nat /\ src + n <= f[n]
      /\ \A n \in 0..maxn : /\ f[n] < f[n + 1]
                            /\ \E p \in Nat : /\ Multiple(p) /\ p <= f[n]
                                              /\ f[n + 1] = p + PGSIZE
  <2> DEFINE m == maxn + 1
  <2>1. m \in Nat /\ m - 1 = maxn
    OBVIOUS
  <2>2. Parts(f, src, m)
    BY DEF Parts
  <2> HIDE DEF f, m
  <2>3. /\ f[0] = src
        /\ \A n \in 0..m : f[n] \in Nat /\ src + n <= f[n]
        /\ \A n \in 0..m - 1 : /\ f[n] < f[n + 1] /\ Multiple(f[n + 1])
                               /\ \E p \in Nat : /\ Multiple(p) /\ p <= f[n]
                                                 /\ f[n + 1] = p + PGSIZE
    BY <2>1, <2>2, Pages
  <2> QED  BY <2>1, <2>3 DEF m
<1> HIDE DEF f
<1>3. \A n \in 0..maxn : f[n] \in Nat /\ f[n + 1] \in Nat /\ src + n <= f[n]
  <2> TAKE n \in 0..maxn
  <2>1. n \in 0..maxn + 1 /\ n + 1 \in 0..maxn + 1
    OBVIOUS
  <2> QED  BY <1>2, <2>1
<1>4. \A n \in 0..maxn : /\ piece(n) \in Int
                         /\ piece(n) <= f[n + 1] - f[n] /\ piece(n) <= rest(n)
                         /\ piece(n) = f[n + 1] - f[n] \/ piece(n) = rest(n)
  <2> TAKE n \in 0..maxn
  <2> DEFINE x == f[n + 1] - f[n]
             y == rest(n)
             lower == IF x <= y THEN x ELSE y
  <2>1. x \in Int /\ y \in Int
    BY <1>3
  <2> HIDE DEF x, y
  <2>2. Min({x, y}) \in {x, y} /\ \A z \in {x, y} : Min({x, y}) <= z
    <3>1. {x, y} \subseteq Int /\ {x, y} # {} /\ lower \in Int /\ \A z \in {x, y} : lower <= z
      BY <2>1
    <3> HIDE DEF lower
    <3> QED  BY <3>1, MinFacts
  <2>3. Min({x, y}) \in Int /\ Min({x, y}) <= x /\ Min({x, y}) <= y
    BY <2>1, <2>2
  <2> QED  BY <2>2, <2>3 DEF x, y
<1> HIDE DEF piece
<1>5. ASSUME NEW n \in 0..maxn
      PROVE  read(n) <=> /\ piece(n) > 0
                         /\ \A b \in Nat : f[n] <= b /\ b < f[n] + piece(n) => may(b)
  <2>1. f[n] \in Nat /\ piece(n) \in Int
    BY <1>3, <1>4
  <2> QED  BY <2>1, Checks
<1> HIDE DEF read, may
<1>6. ASSUME NEW n \in 0..maxn, NEW k \in 0..n - 1 PROVE f[k + 1] <= f[n]
  <2> DEFINE T == {d \in Nat : k + 1 + d <= maxn => f[k + 1] <= f[k + 1 + d]}
  <2>1. 0 \in T
    <3>1. k + 1 + 0 = k + 1 /\ k \in 0..maxn
      OBVIOUS
    <3> QED  BY <1>3, <3>1
  <2>2. ASSUME NEW d \in Nat, d \in T PROVE d + 1 \in T
    <3> SUFFICES ASSUME k + 1 + (d + 1) <= maxn PROVE f[k + 1] <= f[k + 1 + (d + 1)]
      OBVIOUS
    <3>1. k + 1 + d \in 0..maxn /\ k + 1 + (d + 1) = (k + 1 + d) + 1 /\ k \in 0..maxn
      OBVIOUS
    <3>2. f[k + 1] <= f[k + 1 + d] /\ f[k + 1 + d] < f[(k + 1 + d) + 1]
      BY <1>2, <2>2, <3>1
    <3>3. f[k + 1] \in Nat /\ f[k + 1 + d] \in Nat /\ f[(k + 1 + d) + 1] \in Nat
      BY <1>3, <3>1
    <3> QED  BY <3>1, <3>2, <3>3
  <2>3. Nat \subseteq T
    <3> HIDE DEF T
    <3> QED  BY <2>1, <2>2, Induction
  <2>4. n - (k + 1) \in Nat /\ k + 1 + (n - (k + 1)) = n
    OBVIOUS
  <2> QED  BY <2>3, <2>4
<1>7. ASSUME NEW n \in 0..maxn, \A k \in 0..n : read(k), nul - f[n] < piece(n),
             \A k \in 0..n - 1 : piece(k) # rest(k)
      PROVE  nul < src + maxn /\ \A b \in Nat : src <= b /\ b <= nul => may(b)
  <2>1. f[n] \in Nat /\ piece(n) \in Int /\ piece(n) <= rest(n)
    BY <1>3, <1>4
  <2>2. nul < src + maxn
    BY <1>7, <2>1
  <2>3. ASSUME NEW b \in Nat, src <= b, b <= nul PROVE may(b)
    <3>1. CASE f[n] <= b
      <4>1. b < f[n] + piece(n)
        BY <1>7, <2>1, <2>3, <3>1
      <4>2. n \in 0..n
        OBVIOUS
      <4> QED  BY <1>5, <1>7, <3>1, <4>1, <4>2
    <3>2. CASE b < f[n]
      <4>1. \A k \in 0..n : f[k] \in Nat
        BY <1>3
      <4>2. PICK k \in 0..n - 1 : f[k] <= b /\ b < f[k + 1]
        BY <1>2, <2>3, <3>2, <4>1, PageOf
      <4>3. k \in 0..n /\ k \in 0..maxn
        OBVIOUS
      <4>4. piece(k) = f[k + 1] - f[k]
        BY <1>4, <1>7, <4>2, <4>3
      <4>5. f[k] \in Nat /\ f[k + 1] \in Nat /\ read(k)
        BY <1>3, <1>7, <4>3
      <4>6. b < f[k] + piece(k)
        BY <4>2, <4>4, <4>5
      <4> QED  BY <1>5, <4>2, <4>3, <4>5, <4>6
    <3> QED  BY <2>1, <3>1, <3>2
  <2> QED  BY <2>2, <2>3
<1>8. ASSUME nul < src + maxn, \A b \in Nat : src <= b /\ b <= nul => may(b)
      PROVE  \E n \in 0..maxn : /\ \A k \in 0..n : read(k)
                                /\ nul - f[n] < piece(n)
                                /\ \A k \in 0..n - 1 : piece(k) # rest(k)
  <2>1. PICK n \in 0..maxn : f[n] <= nul /\ nul < f[n + 1]
    <3>1. src + (maxn + 1) <= f[maxn + 1] /\ f[maxn + 1] \in Nat /\ maxn + 1 \in Nat
      BY <1>2
    <3>2. nul < f[maxn + 1] /\ (maxn + 1) - 1 = maxn
      BY <1>8, <3>1
    <3> QED  BY <1>2, <3>1, <3>2, PageOf
  <2>2. f[n] \in Nat /\ f[n + 1] \in Nat
    BY <1>3
  <2>3. nul - f[n] < piece(n)
    BY <1>4, <1>8, <2>1, <2>2
  <2>4. ASSUME NEW k \in 0..n - 1 PROVE piece(k) # rest(k) /\ f[k + 1] <= nul
    <3>1. f[k + 1] <= f[n] /\ k \in 0..maxn
      BY <1>6
    <3>2. f[k] \in Nat /\ f[k + 1] \in Nat
      BY <1>3, <3>1
    <3>3. f[k + 1] - f[k] < rest(k)
      BY <1>8, <2>1, <2>2, <3>1, <3>2
    <3> QED  BY <1>4, <2>1, <2>2, <3>1, <3>2, <3>3
  <2>5. PICK i \in DOMAIN list : Holds(list[i], nul) /\ "READ" \in list[i].flags
    <3>1. may(nul)
      BY <1>8
    <3> QED  BY <3>1 DEF may, ByteAllowed
  <2>6. /\ list[i].start \in Nat /\ list[i].end \in Nat /\ Multiple(list[i].end)
        /\ list[i].start <= nul /\ nul < list[i].end
    BY <2>5, AreaAt DEF Holds
  <2>7. f[n + 1] <= list[i].end
    <3>1. PICK p \in Nat : Multiple(p) /\ p <= f[n] /\ f[n + 1] = p + PGSIZE
      BY <1>2
    <3>2. p < list[i].end
      BY <2>1, <2>2, <2>6, <3>1
    <3> QED  BY <2>6, <3>1, <3>2, NextMultiple
  <2>8. ASSUME NEW b \in Nat, src <= b, b < f[n + 1] PROVE may(b)
    <3>1. CASE b <= nul
      BY <1>8, <2>8, <3>1
    <3>2. CASE nul < b
      <4>1. Holds(list[i], b)
        BY <2>2, <2>6, <2>7, <2>8, <3>2 DEF Holds
      <4> QED  BY <2>5, <4>1 DEF may, ByteAllowed
    <3> QED  BY <3>1, <3>2
  <2>9. ASSUME NEW k \in 0..n PROVE read(k)
    <3>1. k \in 0..maxn /\ f[k] \in Nat /\ f[k + 1] \in Nat /\ src <= f[k] /\ f[k] < f[k + 1]
      <4>1. k \in 0..maxn
        OBVIOUS
      <4>2. f[k] \in Nat /\ f[k + 1] \in Nat /\ src + k <= f[k] /\ f[k] < f[k + 1]
        BY <1>2, <1>3, <4>1
      <4> QED  BY <4>1, <4>2
    <3>2. f[k] <= nul /\ f[k + 1] <= f[n + 1]
      <4>1. CASE k = n
        BY <2>1, <2>2, <4>1
      <4>2. CASE k # n
        <5>1. k \in 0..n - 1
          BY <4>2
        <5> QED  BY <2>1, <2>2, <2>4, <3>1, <5>1
      <4> QED  BY <4>1, <4>2
    <3>3. piece(k) > 0
      BY <1>4, <1>8, <3>1, <3>2
    <3>4. ASSUME NEW b \in Nat, f[k] <= b, b < f[k] + piece(k) PROVE may(b)
      <4>1. piece(k) <= f[k + 1] - f[k] /\ piece(k) \in Int
        BY <1>4, <3>1
      <4>2. src <= b /\ b < f[n + 1]
        BY <2>2, <3>1, <3>2, <3>4, <4>1
      <4> QED  BY <2>8, <4>2
    <3> QED  BY <1>5, <3>1, <3>3, <3>4
  <2> QED  BY <2>3, <2>4, <2>9
<1> QED  BY <1>1, <1>7, <1>8 DEF may

-----------------------------------------------------------------------------
(* dup_mmap *)

\* The last n areas of the list.
Behind(list, n) == [i \in 1..n |-> list[Len(list) - n + i]]

\* to holds the loop of dup_mmap area by area.
Duplicates(to, list) ==
    to = [n \in 0..Len(list) |->
            IF n = 0 THEN << >>
            ELSE insert_vma_struct(to[n - 1], list[Len(list) - n + 1])]

\* A turn of dup_mmap puts the next area in front of those behind it.
LEMMA InsertsInFront ==
    ASSUME NEW list, Sorted(list), NEW n \in 1..Len(list)
    PROVE  insert_vma_struct(Behind(list, n - 1), list[Len(list) - n + 1]) = Behind(list, n)
<1>1. list \in Seq(VMAs) /\ DOMAIN list = 1..Len(list) /\ Len(list) \in Nat /\ n \in Nat
  BY DEF Sorted
<1> DEFINE l == Len(list)
           m == n - 1
           tail == Behind(list, m)
           vma == list[l - n + 1]
<1>2. l \in Nat /\ m \in Nat /\ n = m + 1 /\ n <= l
  BY <1>1
<1>3. vma \in VMAs /\ vma = list[l - m]
  <2>1. l - n + 1 \in 1..Len(list) /\ l - n + 1 = l - m
    BY <1>2
  <2> QED  BY <1>1, <2>1
<1>4. tail \in Seq(VMAs) /\ Len(tail) = m /\ \A i \in 1..m : tail[i] = list[l - m + i]
  <2>1. \A i \in 1..m : l - m + i \in 1..Len(list)
    BY <1>2
  <2>2. tail \in [1..m -> VMAs] /\ \A i \in 1..m : tail[i] = list[l - m + i]
    BY <1>1, <2>1 DEF Behind
  <2> HIDE DEF tail, m
  <2> QED  BY <1>2, <2>2
<1> HIDE DEF tail, m, vma, l
<1>5. Place(tail, vma) = 1
  <2>1. Place(tail, vma) \in 1..Len(tail) + 1
    BY <1>4, PlaceFacts
  <2>2. CASE m = 0
    BY <1>4, <2>1, <2>2
  <2>3. CASE m # 0
    <3>1. /\ l - m \in DOMAIN list /\ l - m + 1 \in DOMAIN list
          /\ l - m < l - m + 1
      BY <1>1, <1>2, <2>3 DEF l
    <3>2. /\ list[l - m].end <= list[l - m + 1].start
          /\ list[l - m].start < list[l - m].end
      BY <3>1 DEF Sorted, USER_ACCESS
    <3>3. /\ list[l - m].end \in Nat /\ list[l - m].start \in Nat
          /\ list[l - m + 1].start \in Nat
      BY <3>1, AreaAt
    <3>4. 1 \in DOMAIN tail /\ tail[1].start > vma.start
      <4>1. 1 \in 1..m
        BY <1>2, <2>3
      <4> QED  BY <1>3, <1>4, <3>2, <3>3, <4>1
    <3> QED  BY <1>4, <2>1, <3>4, PlaceFacts
  <2> QED  BY <2>2, <2>3
<1> DEFINE new == insert_vma_struct(tail, vma)
<1>6. InsertedAt(new, tail, 1, vma, VMAs)
  <2>1. 1 <= Len(tail) + 1
    BY <1>2, <1>4
  <2> QED  BY <1>3, <1>4, <1>5, <2>1, InsertAtFacts DEF insert_vma_struct
<1> HIDE DEF new
<1>7. new \in Seq(VMAs) /\ Len(new) = n /\ new[1] = vma /\ \A i \in 2..n : new[i] = tail[i - 1]
  BY <1>2, <1>4, <1>6 DEF InsertedAt
<1>8. \A i \in 1..n : new[i] = list[l - n + i]
  <2> TAKE i \in 1..n
  <2>1. CASE i = 1
    <3>1. l - n + i = l - m
      BY <1>2, <2>1
    <3> QED  BY <1>3, <1>7, <2>1, <3>1
  <2>2. CASE i # 1
    <3>1. i \in 2..n /\ i - 1 \in 1..m /\ l - m + (i - 1) = l - n + i
      BY <1>2, <2>2
    <3> QED  BY <1>4, <1>7, <3>1
  <2> QED  BY <2>1, <2>2
<1>9. new = [i \in 1..n |-> new[i]]
  BY <1>1, <1>7
<1>10. new = Behind(list, n)
  <2>1. \A i \in 1..n : new[i] = list[Len(list) - n + i]
    BY <1>8 DEF l
  <2> QED  BY <1>9, <2>1 DEF Behind
<1> QED  BY <1>10 DEF new, tail, vma, l, m

\* The child of a fork has the areas of its parent, in their order.
LEMMA Duplicated ==
    ASSUME NEW list, Sorted(list)
    PROVE  dup_mmap(list) = list
<1>1. list \in Seq(VMAs) /\ Len(list) \in Nat
  BY DEF Sorted
<1> DEFINE all == [n \in 0..Len(list) |-> Behind(list, n)]
           to == CHOOSE f : Duplicates(f, list)
<1>2. Behind(list, 0) = << >>
  BY DEF Behind
<1>3. Duplicates(all, list)
  <2>1. ASSUME NEW n \in 0..Len(list)
        PROVE  Behind(list, n) =
                 IF n = 0 THEN << >>
                 ELSE insert_vma_struct(all[n - 1], list[Len(list) - n + 1])
    <3>1. CASE n = 0
      BY <1>2, <3>1
    <3>2. CASE n # 0
      <4>1. n \in 1..Len(list) /\ n - 1 \in 0..Len(list)
        BY <1>1, <3>2
      <4>2. all[n - 1] = Behind(list, n - 1)
        BY <4>1
      <4> HIDE DEF all
      <4> QED  BY <3>2, <4>1, <4>2, InsertsInFront
    <3> QED  BY <3>1, <3>2
  <2> DEFINE g == [n \in 0..Len(list) |->
                     IF n = 0 THEN << >>
                     ELSE insert_vma_struct(all[n - 1], list[Len(list) - n + 1])]
  <2>2. all = g
    BY <2>1
  <2> QED  BY <2>2 DEF Duplicates
<1>4. Duplicates(to, list)
  BY <1>3
<1>5. dup_mmap(list) = to[Len(list)]
  BY DEF dup_mmap, Duplicates
<1> HIDE DEF to, all
<1> DEFINE T == {n \in Nat : n <= Len(list) => to[n] = Behind(list, n)}
<1>6. 0 \in T
  BY <1>1, <1>2, <1>4 DEF Duplicates
<1>7. ASSUME NEW n \in Nat, n \in T PROVE n + 1 \in T
  <2> SUFFICES ASSUME n + 1 <= Len(list) PROVE to[n + 1] = Behind(list, n + 1)
    OBVIOUS
  <2>1. n + 1 \in 1..Len(list) /\ n + 1 \in 0..Len(list) /\ n + 1 # 0 /\ (n + 1) - 1 = n
        /\ n <= Len(list)
    BY <1>1
  <2>2. to[n + 1] = insert_vma_struct(to[n], list[Len(list) - (n + 1) + 1])
    BY <1>4, <2>1 DEF Duplicates
  <2>3. to[n] = Behind(list, n)
    BY <1>7, <2>1
  <2> QED  BY <2>1, <2>2, <2>3, InsertsInFront
<1>8. to[Len(list)] = Behind(list, Len(list))
  <2>1. Nat \subseteq T
    <3> HIDE DEF T
    <3> QED  BY <1>6, <1>7, Induction
  <2> QED  BY <1>1, <2>1
<1>9. Behind(list, Len(list)) = list
  <2>1. list = [i \in 1..Len(list) |-> list[i]]
    BY <1>1
  <2>2. \A i \in 1..Len(list) : Len(list) - Len(list) + i = i
    BY <1>1
  <2> QED  BY <2>1, <2>2 DEF Behind
<1> QED  BY <1>5, <1>8, <1>9

-----------------------------------------------------------------------------
(* The invariant *)

\* An address space starts without areas.
LEMMA InitAreas == AreasInit => AreasInv
<1> SUFFICES ASSUME AreasInit PROVE AreasInv
  OBVIOUS
<1>1. Sorted(<< >>)
  BY DEF Sorted
<1> QED  BY <1>1 DEF AreasInit, AreasInv, CacheOf

\* mm_map puts an area of whole pages where it overlaps none, or changes only what
\* find_vma remembers.
LEMMA MapAreas ==
    ASSUME AreasInv, NEW addr \in Addresses, NEW len \in Lengths, NEW flags \in Flags,
           NEW enough \in BOOLEAN, mm_map(addr, len, flags, enough)
    PROVE  AreasInv'
<1> DEFINE start == ROUNDDOWN(addr)
           end   == ROUNDUP(addr + len)
           found == find_vma(mmap_list, mmap_cache, start)
           vma   == Area(start, end, flags)
<1>1. /\ Sorted(mmap_list) /\ mmap_cache \in CacheOf(mmap_list)
      /\ PGSIZE \in Nat \ {0} /\ USERBASE \in Nat /\ USERTOP \in Nat
  BY AreasAssumption DEF AreasInv
<1>2. addr \in Nat /\ addr + len \in Nat
  BY <1>1 DEF Addresses, Lengths
<1>3. /\ start \in Nat /\ Multiple(start)
      /\ end \in Nat /\ Multiple(end)
  BY <1>1, <1>2, Rounds, RoundsUp
<1>4. Cached(found, mmap_cache) \in CacheOf(mmap_list)
  BY <1>1, Finds
<1>5. /\ USER_ACCESS(start, end)
      /\ mmap_cache' = Cached(found, mmap_cache)
      /\ \/ UNCHANGED << mmap_list, overlap >>
         \/ MayInsert(mmap_list, vma) /\ mmap_list' = insert_vma_struct(mmap_list, vma)
              /\ UNCHANGED overlap
         \/ overlap' = TRUE /\ UNCHANGED mmap_list
  BY DEF mm_map
<1>6. /\ vma \in VMAs /\ USER_ACCESS(vma.start, vma.end)
      /\ Multiple(vma.start) /\ Multiple(vma.end)
  <2>1. start \in Addresses /\ end \in Addresses
    <3> HIDE DEF start, end
    <3> QED  BY <1>1, <1>3, <1>5 DEF USER_ACCESS, Addresses
  <2> HIDE DEF start, end
  <2> QED  BY <1>3, <1>5, <2>1 DEF Area, VMAs
<1> HIDE DEF vma, found, start, end
<1>7. CASE UNCHANGED mmap_list
  BY <1>1, <1>4, <1>5, <1>7 DEF AreasInv
<1>8. CASE MayInsert(mmap_list, vma) /\ mmap_list' = insert_vma_struct(mmap_list, vma)
             /\ UNCHANGED overlap
  <2>1. Sorted(mmap_list') /\ CacheOf(mmap_list) \subseteq CacheOf(mmap_list')
    BY <1>1, <1>6, <1>8, Inserts
  <2> QED  BY <1>1, <1>4, <1>5, <1>8, <2>1 DEF AreasInv
<1> QED  BY <1>5, <1>7, <1>8

\* A copy changes only what find_vma remembers.
LEMMA AccessAreas ==
    ASSUME AreasInv, NEW addr \in Addresses, NEW len \in Lengths, NEW write \in BOOLEAN,
           Access(addr, len, write)
    PROVE  AreasInv'
<1>1. addr \in Nat /\ addr + len \in Nat
  BY DEF Addresses, Lengths
<1>2. Walk(mmap_list, mmap_cache, addr, addr + len, write).cache \in CacheOf(mmap_list)
  BY <1>1, WalkPasses DEF AreasInv
<1> QED  BY <1>2 DEF AreasInv, Access

\* Every step keeps the invariant.
LEMMA NextAreas == AreasInv /\ [AreasNext]_areavars => AreasInv'
<1> SUFFICES ASSUME AreasInv, [AreasNext]_areavars PROVE AreasInv'
  OBVIOUS
<1>1. CASE UNCHANGED areavars
  BY <1>1 DEF areavars, AreasInv
<1>2. ASSUME NEW a \in Addresses, NEW len \in Lengths, NEW flags \in Flags,
             NEW enough \in BOOLEAN, mm_map(a, len, flags, enough)
      PROVE  AreasInv'
  BY <1>2, MapAreas
<1>3. ASSUME NEW a \in Addresses, NEW len \in Lengths, NEW write \in BOOLEAN,
             Access(a, len, write)
      PROVE  AreasInv'
  BY <1>3, AccessAreas
<1> QED  BY <1>1, <1>2, <1>3 DEF AreasNext

-----------------------------------------------------------------------------
(* What it implies *)

\* What the run asks of the areas follows from their order.
LEMMA ImpliedAreas ==
    AreasInv => AreasTypeOK /\ AreasApart /\ FindExact /\ CheckExact /\ CopyExact /\ DupExact
<1> SUFFICES ASSUME AreasInv
             PROVE  AreasTypeOK /\ AreasApart /\ FindExact /\ CheckExact /\ CopyExact /\ DupExact
  OBVIOUS
<1>1. /\ Sorted(mmap_list) /\ mmap_cache \in CacheOf(mmap_list)
      /\ PGSIZE \in Nat \ {0} /\ USERBASE \in Nat /\ USERTOP \in Nat
      /\ Addresses \subseteq Nat /\ Lengths \subseteq Nat
  BY AreasAssumption DEF AreasInv, Addresses, Lengths
<1>2. AreasTypeOK
  BY <1>1, AreaAt DEF AreasInv, AreasTypeOK, CacheOf
<1>3. AreasApart
  <2>1. ASSUME NEW a \in Nat, Multiple(a) PROVE a % PGSIZE = 0
    <3>1. PICK q \in Nat : a = q * PGSIZE
      BY <2>1 DEF Multiple
    <3> QED  BY <1>1, <3>1, Remainder
  <2>2. \A i \in DOMAIN mmap_list :
          /\ mmap_list[i].start \in Nat /\ Multiple(mmap_list[i].start)
          /\ mmap_list[i].end \in Nat /\ Multiple(mmap_list[i].end)
    BY <1>1, AreaAt
  <2>3. \A i \in DOMAIN mmap_list :
          mmap_list[i].start % PGSIZE = 0 /\ mmap_list[i].end % PGSIZE = 0
    BY <2>1, <2>2
  <2> QED  BY <1>1, <2>3 DEF AreasApart, Sorted
<1>4. FindExact
  BY <1>1, Finds DEF FindExact, ToSet
<1>5. CheckExact
  <2> SUFFICES ASSUME NEW a \in Addresses, NEW len \in Lengths, NEW write \in BOOLEAN
               PROVE  user_mem_check(mmap_list, mmap_cache, a, len, write) =
                        (len > 0 /\ \A b \in a..a + len - 1 : ByteAllowed(mmap_list, b, write))
    BY DEF CheckExact
  <2>1. a \in Nat /\ len \in Nat
    BY <1>1
  <2>2. user_mem_check(mmap_list, mmap_cache, a, len, write) <=>
          /\ len > 0
          /\ \A b \in Nat : a <= b /\ b < a + len => ByteAllowed(mmap_list, b, write)
    BY <1>1, <2>1, Checks
  <2>3. (\A b \in Nat : a <= b /\ b < a + len => ByteAllowed(mmap_list, b, write)) <=>
          \A b \in a..a + len - 1 : ByteAllowed(mmap_list, b, write)
    BY <2>1
  <2>4. user_mem_check(mmap_list, mmap_cache, a, len, write) \in BOOLEAN
    <3>1. CASE USER_ACCESS(a, a + len)
      <4>1. a + len \in Nat
        BY <2>1
      <4>2. Walk(mmap_list, mmap_cache, a, a + len, write).ok \in BOOLEAN
        BY <1>1, <2>1, <4>1, WalkPasses
      <4> QED  BY <4>2 DEF user_mem_check
    <3>2. CASE ~USER_ACCESS(a, a + len)
      BY <3>2 DEF user_mem_check
    <3> QED  BY <3>1, <3>2
  <2> QED  BY <2>2, <2>3, <2>4
<1>6. CopyExact
  <2> SUFFICES ASSUME NEW src \in USERBASE..USERTOP, NEW nul \in USERBASE..USERTOP,
                      NEW maxn \in Lengths, nul >= src
               PROVE  copy_string(mmap_list, mmap_cache, src, nul, maxn) =
                        (nul < src + maxn
                          /\ \A b \in src..nul : ByteAllowed(mmap_list, b, FALSE))
    BY DEF CopyExact
  <2>1. src \in Nat /\ nul \in Nat /\ maxn \in Nat
    BY <1>1
  <2>2. copy_string(mmap_list, mmap_cache, src, nul, maxn) <=>
          /\ nul < src + maxn
          /\ \A b \in Nat : src <= b /\ b <= nul => ByteAllowed(mmap_list, b, FALSE)
    BY <1>1, <2>1, Copies
  <2>3. (\A b \in Nat : src <= b /\ b <= nul => ByteAllowed(mmap_list, b, FALSE)) <=>
          \A b \in src..nul : ByteAllowed(mmap_list, b, FALSE)
    <3>1. \A b : b \in src..nul <=> b \in Nat /\ src <= b /\ b <= nul
      BY <2>1
    <3> QED  BY <3>1
  <2>4. copy_string(mmap_list, mmap_cache, src, nul, maxn) \in BOOLEAN
    BY DEF copy_string
  <2> QED  BY <2>2, <2>3, <2>4
<1>7. DupExact
  BY <1>1, Duplicated DEF DupExact
<1> QED  BY <1>2, <1>3, <1>4, <1>5, <1>6, <1>7

-----------------------------------------------------------------------------
(* Theorems *)

\* The areas of an address space stay whole pages of the user part, in order and
\* apart, whatever mm_map is asked for.
THEOREM AreasInductive == AreasSpec => []AreasInv
<1> QED  BY InitAreas, NextAreas, PTL DEF AreasSpec

\* AreasApart: insert_vma_struct keeps the list sorted though it looks at the two
\* neighbours of a new area only.
THEOREM Apartness == AreasSpec => []AreasApart
<1> QED  BY AreasInductive, ImpliedAreas, PTL

\* FindExact: find_vma answers as if it had no cache.
THEOREM FindsExactly == AreasSpec => []FindExact
<1> QED  BY AreasInductive, ImpliedAreas, PTL

\* CheckExact: user_mem_check, which looks at one byte of each area, answers for
\* every byte of a range.
THEOREM ChecksExactly == AreasSpec => []CheckExact
<1> QED  BY AreasInductive, ImpliedAreas, PTL

\* CopyExact: copy_string, which asks for a page at a time, answers for every byte
\* of a string.
THEOREM CopiesExactly == AreasSpec => []CopyExact
<1> QED  BY AreasInductive, ImpliedAreas, PTL

\* DupExact: the child of a fork has the areas of its parent.
THEOREM DuplicatesExactly == AreasSpec => []DupExact
<1> QED  BY AreasInductive, ImpliedAreas, PTL

\* AreasExact of the run, for any size of a page and any bounds of the user part:
\* the areas stay apart, find_vma, user_mem_check and copy_string answer for every
\* byte whatever mm_map has done before, and a child gets the areas of its parent.
THEOREM AreasKept == MCSpec => []AreasExact
<1> DEFINE Inv == part = "areas" => AreasInv
<1>1. MCInit => Inv
  BY InitAreas DEF MCInit
<1>2. Inv /\ [MCNext]_allvars => Inv'
  <2> SUFFICES ASSUME Inv, [MCNext]_allvars, part' = "areas" PROVE AreasInv'
    OBVIOUS
  <2>1. part = "areas" /\ [AreasNext]_areavars
    BY DEF MCNext, allvars, areavars
  <2> QED  BY <2>1, NextAreas
<1>3. Inv => AreasExact
  BY ImpliedAreas DEF AreasExact
<1> QED  BY <1>1, <1>2, <1>3, PTL DEF MCSpec
=============================================================================
