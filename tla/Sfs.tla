-------------------------------- MODULE Sfs ---------------------------------
(***************************************************************************)
(* Regular files of the simple file system: fs/sfs/sfs_inode.c over        *)
(* bitmap.c and sfs_io.c, as open, close, read, write, seek and fsync of   *)
(* file.c and vfsfile.c call it. The disk is memory and no operation       *)
(* sleeps, so each call is one step; the disk itself does not fail.        *)
(*                                                                         *)
(* Files exist from the start, each with its inode block; names do not     *)
(* change (there is no create, link or unlink). A block holds bytes or     *)
(* numbers of blocks; both are kept, and both are zero when it is cleared. *)
(***************************************************************************)
EXTENDS Integers, FiniteSets, SequencesExt

CONSTANTS
    Files,
    Descriptors,    \* struct file
    NBLK,           \* blocks of the disk for the content of files
    BLKSIZE,        \* bytes in a block
    NDIRECT,        \* blocks an inode names itself
    NENTRY,         \* blocks an indirect block names
    Texts,          \* sequences of bytes that programs write
    Positions,      \* positions programs ask for
    SHARED_TRUNC,   \* whether programs open a file with O_TRUNC that is open already
    CLOSED,         \* a descriptor without a file
    JUNK            \* whatever bytes are in a block nobody uses

Block == 1..NBLK

VARIABLES
    freemap,        \* the blocks whose bit is set
    unused_blocks,
    data, entry,    \* the bytes and the numbers in every block
    disk,           \* the inode of every file on the disk
    inode,          \* the same in memory, with dirty and the number of users
    file,           \* node and pos of every descriptor
    panic           \* the assert that failed

vars == << freemap, unused_blocks, data, entry, disk, inode, file, panic >>

NoBytes == [i \in 0..BLKSIZE - 1 |-> 0]

NoEntries == [i \in 0..NENTRY - 1 |-> 0]

NoContent == [size |-> 0, blocks |-> 0, indirect |-> 0,
              direct |-> [i \in 0..NDIRECT - 1 |-> 0]]

Init ==
    /\ freemap = Block
    /\ unused_blocks = NBLK
    /\ data = [b \in Block |-> [i \in 0..BLKSIZE - 1 |-> JUNK]]
    /\ entry = [b \in Block |-> NoEntries]
    /\ disk = [f \in Files |-> NoContent]
    /\ inode = [f \in Files |-> [din |-> NoContent, dirty |-> FALSE, ref |-> 0]]
    /\ file = [d \in Descriptors |-> CLOSED]
    /\ panic = "none"

-----------------------------------------------------------------------------
(* Blocks. s is what an operation on one inode works on: the disk, the      *)
(* inode, the block number found last, and whether all went well so far.    *)

Now(din, dirty) ==
    [freemap |-> freemap, unused |-> unused_blocks, data |-> data, entry |-> entry,
     din |-> din, dirty |-> dirty, ino |-> 0, ok |-> TRUE, panic |-> "none",
     alen |-> 0, buf |-> << >>]

Checked(s, cond, assertion) ==
    IF cond \/ s.panic # "none" THEN s
    ELSE [s EXCEPT !.panic = assertion, !.ok = FALSE]

Failed(s) == [s EXCEPT !.ok = FALSE]

sfs_block_inuse(s, ino) == ino \in Block \ s.freemap

\* bitmap_alloc takes the lowest; sfs_clear_block fills it with zeros.
sfs_block_alloc(s) ==
    IF s.freemap = {} THEN Failed(s)
    ELSE LET b == CHOOSE x \in s.freemap : \A y \in s.freemap : x <= y
         IN  [Checked(s, s.unused > 0, "sfs_block_alloc") EXCEPT
                !.freemap = @ \ {b}, !.unused = @ - 1, !.ino = b,
                !.data[b] = NoBytes, !.entry[b] = NoEntries]

sfs_block_free(s, ino) ==
    LET c == Checked(s, sfs_block_inuse(s, ino), "sfs_block_free")
    IN  [c EXCEPT !.freemap = @ \cup {ino}, !.unused = @ + 1,
                  !.data[ino] = [i \in 0..BLKSIZE - 1 |-> JUNK]]

\* Mutant: the new indirect block is kept when the other cannot be had.
EntryNamed_kept(s, old, index, new) ==
    IF ~s.ok THEN Failed(old)
    ELSE [s EXCEPT !.entry[old.ino][index] = s.ino, !.din.indirect = old.ino,
                   !.dirty = @ \/ new]

\* The block just taken is the entry's, and the one taken before, old.ino, is the
\* indirect block; if new, it goes back when the other could not be had.
EntryNamed(s, old, index, new) ==
    IF ~s.ok THEN Failed(IF new THEN sfs_block_free(old, old.ino) ELSE old)
    ELSE [s EXCEPT !.entry[old.ino][index] = s.ino, !.din.indirect = old.ino,
                   !.dirty = @ \/ new]

NewEntry(s, index, new) ==
    IF s.ok THEN EntryNamed(sfs_block_alloc(s), s, index, new) ELSE s

sfs_bmap_get_sub_nolock(s, index, create) ==
    LET ent == s.din.indirect
        ino == IF ent = 0 THEN 0 ELSE s.entry[ent][index]
    IN  IF ino # 0 \/ ~create THEN [s EXCEPT !.ino = ino]
        ELSE IF ent = 0 THEN NewEntry(sfs_block_alloc(s), index, TRUE)
        ELSE NewEntry([s EXCEPT !.ino = ent], index, FALSE)

DirectNamed(s, index) ==
    IF s.ok THEN [s EXCEPT !.din.direct[index] = s.ino, !.dirty = TRUE] ELSE s

sfs_bmap_get_nolock(s, index, create) ==
    IF index >= NDIRECT + NENTRY THEN Checked(s, FALSE, "sfs_bmap_get_nolock")
    ELSE IF index >= NDIRECT THEN sfs_bmap_get_sub_nolock(s, index - NDIRECT, create)
    ELSE IF s.din.direct[index] = 0 /\ create THEN DirectNamed(sfs_block_alloc(s), index)
    ELSE [s EXCEPT !.ino = s.din.direct[index]]

\* The block found is in use; it may be one more than there were.
Counted(s, more) ==
    IF s.ok THEN Checked([s EXCEPT !.din.blocks = @ + more],
                         sfs_block_inuse(s, s.ino), "sfs_block_inuse")
    ELSE s

sfs_bmap_load_nolock(s, index) ==
    IF index > s.din.blocks THEN Checked(s, FALSE, "sfs_bmap_load_nolock")
    ELSE IF index = s.din.blocks THEN Counted(sfs_bmap_get_nolock(s, index, TRUE), 1)
    ELSE Counted(sfs_bmap_get_nolock(s, index, FALSE), 0)

sfs_bmap_free_nolock(s, index) ==
    LET i   == index - NDIRECT
        ent == s.din.indirect
    IN  IF index < NDIRECT
          THEN IF s.din.direct[index] = 0 THEN s
               ELSE [sfs_block_free(s, s.din.direct[index]) EXCEPT
                       !.din.direct[index] = 0, !.dirty = TRUE]
        ELSE IF ent = 0 THEN s
        ELSE LET c == Checked(s, sfs_block_inuse(s, ent), "sfs_bmap_free_sub_nolock")
             IN  IF c.entry[ent][i] = 0 THEN c
                 ELSE [sfs_block_free(c, c.entry[ent][i]) EXCEPT !.entry[ent][i] = 0]

sfs_bmap_truncate_nolock(s) ==
    [sfs_bmap_free_nolock(s, s.din.blocks - 1) EXCEPT !.din.blocks = @ - 1,
                                                      !.dirty = TRUE]

-----------------------------------------------------------------------------
(* Operations of inodes *)

ROUNDUP_DIV(n) == (n + BLKSIZE - 1) \div BLKSIZE

\* The loops stop at the first failure, and keep what was done so far.
Enlarged(s, tblks) ==
    FoldLeft(LAMBDA t, i : IF t.ok THEN sfs_bmap_load_nolock(t, i) ELSE t, s,
             [k \in 1..tblks - s.din.blocks |-> s.din.blocks + k - 1])

Reduced(s, tblks) ==
    FoldLeft(LAMBDA t, i : IF t.ok THEN sfs_bmap_truncate_nolock(t) ELSE t, s,
             [k \in 1..s.din.blocks - tblks |-> k])

Resized(s, len, tblks) ==
    IF s.ok THEN [Checked(s, s.din.blocks = tblks, "sfs_truncfile: blocks") EXCEPT
                    !.din.size = len, !.dirty = TRUE]
    ELSE s

sfs_truncfile(s, len) ==
    LET tblks == ROUNDUP_DIV(len)
    IN  IF s.din.size = len THEN Checked(s, tblks = s.din.blocks, "sfs_truncfile")
        ELSE Resized(Reduced(Enlarged(s, tblks), tblks), len, tblks)

\* The parts sfs_io_nolock cuts a range into: up to the end of the first block if
\* it does not start one, whole blocks, and the start of the last.
Parts(offset, endpos) ==
    LET blkoff == offset % BLKSIZE
        blkno  == offset \div BLKSIZE
        nblks  == endpos \div BLKSIZE - blkno
        size   == IF nblks # 0 THEN BLKSIZE - blkoff ELSE endpos - offset
        first  == IF blkoff = 0 THEN << >>
                  ELSE << [blk |-> blkno, off |-> blkoff, size |-> size] >>
        next   == blkno + Len(first)
        whole  == IF blkoff # 0 /\ nblks # 0 THEN nblks - 1 ELSE nblks
        middle == [k \in 1..whole |-> [blk |-> next + k - 1, off |-> 0, size |-> BLKSIZE]]
        left   == endpos - offset - (IF blkoff = 0 THEN 0 ELSE size) - whole * BLKSIZE
        last   == IF left <= 0 THEN << >>
                  ELSE << [blk |-> next + whole, off |-> 0, size |-> left] >>
    IN  first \o middle \o last

\* The block of the part has been looked up, if that was possible.
ReadPart(s, part) ==
    IF ~s.ok THEN s
    ELSE [s EXCEPT !.alen = @ + part.size,
                   !.buf = @ \o [i \in 1..part.size |-> s.data[s.ino][part.off + i - 1]]]

WritePart(s, part, w) ==
    IF ~s.ok THEN s
    ELSE [s EXCEPT
            !.alen = @ + part.size,
            !.data[s.ino] = [i \in 0..BLKSIZE - 1 |->
                               IF i \in part.off..part.off + part.size - 1
                                 THEN w[s.alen + i - part.off + 1] ELSE @[i]]]

LoadPart(s, part) == IF s.ok THEN sfs_bmap_load_nolock(s, part.blk) ELSE s

IoPart(s, part, w, write) ==
    IF write THEN WritePart(LoadPart(s, part), part, w)
    ELSE ReadPart(LoadPart(s, part), part)

\* Mutant: the inode is not marked.
Sized_clean(s, offset) ==
    IF offset + s.alen > s.din.size THEN [s EXCEPT !.din.size = offset + s.alen] ELSE s

\* out: the size grows to the end of what was done, if anything was.
Sized(s, offset) ==
    IF offset + s.alen > s.din.size
      THEN [s EXCEPT !.din.size = offset + s.alen, !.dirty = TRUE]
      ELSE s

sfs_io_nolock(s, offset, endpos, w, write) ==
    IF offset = endpos THEN s
    ELSE Sized(FoldLeft(LAMBDA t, p : IoPart(t, p, w, write), s, Parts(offset, endpos)),
               offset)

sfs_read(s, offset, len) ==
    LET endpos == IF offset + len > s.din.size THEN s.din.size ELSE offset + len
    IN  IF offset >= s.din.size THEN s ELSE sfs_io_nolock(s, offset, endpos, << >>, FALSE)

sfs_write(s, offset, w) == sfs_io_nolock(s, offset, offset + Len(w), w, TRUE)

sfs_fsync(f, i) == IF i.dirty THEN [disk EXCEPT ![f] = i.din] ELSE disk

-----------------------------------------------------------------------------
(* System calls. After a failed assert the kernel stands still.             *)

\* What s did to the inode of f, used by ref descriptors.
Stored(f, s, ref) ==
    /\ panic' = s.panic
    /\ s.panic = "none"
    /\ freemap' = s.freemap
    /\ unused_blocks' = s.unused
    /\ data' = s.data
    /\ entry' = s.entry
    /\ inode' = [inode EXCEPT ![f] = [din |-> s.din, dirty |-> s.dirty, ref |-> ref]]
    /\ UNCHANGED disk

Panics(s) ==
    /\ s.panic # "none"
    /\ panic' = s.panic
    /\ UNCHANGED << freemap, unused_blocks, data, entry, disk, inode, file >>

\* sfs_load_inode: an inode nobody uses is read from the disk.
Loaded(f) ==
    IF inode[f].ref = 0 THEN Now(disk[f], FALSE) ELSE Now(inode[f].din, inode[f].dirty)

file_open(d, f, trunc, append) ==
    /\ file[d] = CLOSED
    /\ \E s \in {IF trunc THEN sfs_truncfile(Loaded(f), 0) ELSE Loaded(f)} :
           \/ Panics(s)
           \/ /\ Stored(f, s, inode[f].ref + 1)
              /\ file' = [file EXCEPT ![d] =
                            [node |-> f, pos |-> IF append THEN s.din.size ELSE 0]]

\* The last close writes the inode back, and it is reclaimed.
file_close(d) ==
    LET f == file[d].node
        i == inode[f]
    IN  /\ file' = [file EXCEPT ![d] = CLOSED]
        /\ IF i.ref > 1
             THEN inode' = [inode EXCEPT ![f].ref = @ - 1] /\ UNCHANGED disk
             ELSE /\ disk' = sfs_fsync(f, i)
                  /\ inode' = [inode EXCEPT ![f] =
                                 [din |-> NoContent, dirty |-> FALSE, ref |-> 0]]
        /\ UNCHANGED << freemap, unused_blocks, data, entry, panic >>

Operate(d, s, pos) ==
    \/ Panics(s)
    \/ /\ Stored(file[d].node, s, inode[file[d].node].ref)
       /\ file' = [file EXCEPT ![d].pos = pos]

file_read(d, len) ==
    \E s \in {sfs_read(Loaded(file[d].node), file[d].pos, len)} :
      Operate(d, s, file[d].pos + s.alen)

file_write(d, w) ==
    \E s \in {sfs_write(Loaded(file[d].node), file[d].pos, w)} :
      Operate(d, s, file[d].pos + s.alen)

\* sfs_tryseek lengthens the file; the position stays where it was if that fails.
file_seek(d, pos) ==
    \E l \in {Loaded(file[d].node)} :
      \E s \in {IF pos > l.din.size THEN sfs_truncfile(l, pos) ELSE l} :
        Operate(d, s, IF s.ok THEN pos ELSE file[d].pos)

file_fsync(d) ==
    LET f == file[d].node
    IN  /\ disk' = sfs_fsync(f, inode[f])
        /\ inode' = [inode EXCEPT ![f].dirty = FALSE]
        /\ UNCHANGED << freemap, unused_blocks, data, entry, file, panic >>

Next ==
    /\ panic = "none"
    /\ \/ \E d \in Descriptors, f \in Files, trunc, append \in BOOLEAN :
            /\ trunc => SHARED_TRUNC \/ inode[f].ref = 0
            /\ file_open(d, f, trunc, append)
       \/ \E d \in Descriptors :
            /\ file[d] # CLOSED
            /\ \/ file_close(d)
               \/ \E w \in Texts : file_write(d, w) \/ file_read(d, Len(w))
               \/ \E pos \in Positions : file_seek(d, pos)
               \/ file_fsync(d)

Spec == Init /\ [][Next]_vars

-----------------------------------------------------------------------------
(* Properties *)

\* The inode of f as it is now.
Din(f) == IF inode[f].ref = 0 THEN disk[f] ELSE inode[f].din

TypeOK ==
    /\ freemap \subseteq Block
    /\ unused_blocks \in 0..NBLK
    /\ \A b \in Block : /\ DOMAIN data[b] = 0..BLKSIZE - 1
                        /\ entry[b] \in [0..NENTRY - 1 -> 0..NBLK]
    /\ \A f \in Files :
         /\ inode[f].ref = Cardinality({d \in Descriptors :
                                          file[d] # CLOSED /\ file[d].node = f})
         /\ inode[f].ref > 0 /\ ~inode[f].dirty => disk[f].size = inode[f].din.size
    /\ panic \in {"none", "sfs_bmap_load_nolock", "sfs_truncfile"}

\* The places that name a block: in an inode, or in an indirect block.
Places ==
    UNION {LET d == Din(f)
           IN  {<< d.direct[i], f, "direct", i >> : i \in 0..NDIRECT - 1}
               \cup {<< d.indirect, f, "indirect", 0 >>}
               \cup (IF d.indirect = 0 THEN {}
                     ELSE {<< entry[d.indirect][i], f, "entry", i >> : i \in 0..NENTRY - 1})
           : f \in Files}

\* Every block is free or named in one place, and unused_blocks counts the free
\* ones, however often the disk was full on the way (sfs_block_alloc, _free and
\* the clean-up of sfs_bmap_get_sub_nolock).
BlocksOnce ==
    /\ unused_blocks = Cardinality(freemap)
    /\ \A b \in Block :
         Cardinality({p \in Places : p[1] = b}) = IF b \in freemap THEN 0 ELSE 1

\* The block of f with number index, 0 if there is none.
BlockOf(f, index) ==
    IF index < NDIRECT THEN Din(f).direct[index]
    ELSE IF Din(f).indirect = 0 THEN 0
    ELSE entry[Din(f).indirect][index - NDIRECT]

TextOf(f) ==
    [i \in 1..Din(f).size |->
       LET b == BlockOf(f, (i - 1) \div BLKSIZE)
       IN  IF b = 0 THEN 0 ELSE data[b][(i - 1) % BLKSIZE]]

\* A read that does not fail returns the bytes of the file from the position on.
ReadExact ==
    \A d \in Descriptors : file[d] # CLOSED =>
      \A len \in 1..BLKSIZE + 1 :
        \A s \in {sfs_read(Loaded(file[d].node), file[d].pos, len)} :
          LET t == TextOf(file[d].node)
              n == IF file[d].pos + len > Len(t) THEN Len(t) ELSE file[d].pos + len
          IN  s.ok => s.buf = SubSeq(t, file[d].pos + 1, n)

\* The sequences of bytes and the positions that programs see (Contents).
texts == [f \in Files |-> TextOf(f)]

positions == [d \in Descriptors |->
         IF file[d] = CLOSED THEN CLOSED
         ELSE [file |-> file[d].node, pos |-> file[d].pos]]

\* sfs_inode.c:356, assert(index <= din->blocks): nobody asks for a block past the
\* one that comes next.
LoadInRange == panic # "sfs_bmap_load_nolock"

\* sfs_inode.c:957, assert(tblks == din->blocks): the blocks of a file are those
\* its size needs.
BlocksAgree == panic # "sfs_truncfile"
=============================================================================
