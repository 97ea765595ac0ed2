----------------------------- MODULE SfsProofs ------------------------------
(***************************************************************************)
(* The simple file system for any number of files, descriptors and blocks. *)
(*                                                                         *)
(* An operation is a composition of steps on the record Sfs works on; Good *)
(* says what holds of it between two of them, with the blocks of the other *)
(* files in T. The loops are folds, whose steps are numbered here.         *)
(*                                                                         *)
(* At the end, that programs see sequences of bytes: Sfs implements        *)
(* Contents.                                                               *)
(***************************************************************************)
EXTENDS Sfs, Queues

\* What is assumed of the constants. Nobody opens with O_TRUNC a file that is
\* open already; with that the assert of sfs_bmap_load_nolock fails.
Layout ==
    /\ NBLK \in Nat /\ BLKSIZE \in Nat \ {0} /\ NDIRECT \in Nat /\ NENTRY \in Nat \ {0}
    /\ Texts \subseteq Seq(Nat) /\ Positions \subseteq Nat
    /\ IsFiniteSet(Descriptors)
    /\ CLOSED \notin [node : Files, pos : Nat] /\ CLOSED \notin [file : Files, pos : Nat]
    /\ SHARED_TRUNC = FALSE

Byte == Nat \cup {JUNK}

Number == 0..NBLK

Index == 0..NDIRECT + NENTRY - 1

Offset == 0..BLKSIZE - 1

Slot == 0..NENTRY - 1

Inode == [size : Nat, blocks : Nat, indirect : Number, direct : [0..NDIRECT - 1 -> Number]]

Data == [Block -> [Offset -> Byte]]

Entries == [Block -> [Slot -> Number]]

\* No assert has failed, or one of those that can.
Panic == {"none", "sfs_truncfile", "sfs_bmap_get_nolock"}

\* What an operation works on.
Work == [freemap : SUBSET Block, unused : Int, data : Data, entry : Entries,
         din : Inode, dirty : BOOLEAN, ino : Number, ok : BOOLEAN, panic : Panic,
         alen : Nat, buf : Seq(Byte)]

\* The asserts that may fail.
Failing == {"sfs_truncfile"}
           \cup (IF NBLK > NDIRECT + NENTRY THEN {"sfs_bmap_get_nolock"} ELSE {})

\* The block an inode has under an index, and its indirect block under -1; 0 if none.
Key == Index \cup {-1}

At(din, ent, k) ==
    IF k = -1 THEN din.indirect
    ELSE IF k < NDIRECT THEN din.direct[k]
    ELSE IF din.indirect = 0 THEN 0
    ELSE ent[din.indirect][k - NDIRECT]

\* The first n blocks are there; of those behind them the inode itself names none.
Filled(din, ent, n) ==
    /\ \A k \in Index : k < n => At(din, ent, k) # 0
    /\ \A k \in Index : k >= n /\ k < NDIRECT => At(din, ent, k) = 0

Sizes(din) == din.blocks <= NDIRECT + NENTRY /\ din.size <= din.blocks * BLKSIZE

\* Every block but those in T is free or named once.
Exact(free, din, ent, T) ==
    /\ free \cap T = {}
    /\ \A k, l \in Key : At(din, ent, k) = At(din, ent, l) /\ At(din, ent, k) # 0 => k = l
    /\ \A k \in Key : At(din, ent, k) \notin free \cup T
    /\ \A b \in Block : b \in free \cup T \/ \E k \in Key : At(din, ent, k) = b

With(T, b) == T \cup {b}

Core(s, T) ==
    /\ s \in Work /\ s.panic = "none"
    /\ s.unused = Cardinality(s.freemap)
    /\ Exact(s.freemap, s.din, s.entry, T)

Good(s, T) == Core(s, T) /\ Sizes(s.din) /\ Filled(s.din, s.entry, s.din.blocks)

\* The inode is marked, or nothing but the number of blocks has changed, and that
\* only in the indirect block.
Marked(s, t) ==
    /\ s.dirty => t.dirty
    /\ ~t.dirty =>
         /\ t.din.size = s.din.size
         /\ t.din.direct = s.din.direct
         /\ t.din.indirect = s.din.indirect
         /\ t.din.blocks = s.din.blocks
            \/ (NDIRECT <= s.din.blocks /\ s.din.blocks <= t.din.blocks)

\* The blocks of the other files stay as they are.
Keeps(s, t, T) == \A b \in T : t.entry[b] = s.entry[b] /\ t.data[b] = s.data[b]

\* The byte at j of block k of a file.
ByteAt(s, k, j) ==
    LET b == At(s.din, s.entry, k) IN IF b = 0 THEN 0 ELSE s.data[b][j]

SameNames(s, t) == \A k \in Key : At(t.din, t.entry, k) = At(s.din, s.entry, k)

SameBytes(s, t) == \A k \in Index, j \in Offset : ByteAt(t, k, j) = ByteAt(s, k, j)

-----------------------------------------------------------------------------
(* Taking a block and giving it back *)

Took(s, t) ==
    /\ t \in Work /\ t.ino \in s.freemap
    /\ t.freemap = s.freemap \ {t.ino} /\ t.unused = Cardinality(t.freemap)
    /\ t.data = [s.data EXCEPT ![t.ino] = NoBytes]
    /\ t.entry = [s.entry EXCEPT ![t.ino] = NoEntries]
    /\ t.din = s.din /\ t.dirty = s.dirty /\ t.ok = s.ok /\ t.panic = s.panic
    /\ t.alen = s.alen /\ t.buf = s.buf

Gave(s, t, b) ==
    /\ t \in Work
    /\ t.freemap = s.freemap \cup {b} /\ t.unused = Cardinality(t.freemap)
    /\ t.data = [s.data EXCEPT ![b] = [i \in Offset |-> JUNK]]
    /\ t.entry = s.entry /\ t.ino = s.ino
    /\ t.din = s.din /\ t.dirty = s.dirty /\ t.ok = s.ok /\ t.panic = s.panic
    /\ t.alen = s.alen /\ t.buf = s.buf

LEMMA BlockType ==
    ASSUME Layout
    PROVE  /\ Block \subseteq Number /\ 0 \in Number /\ 0 \notin Block
           /\ NoBytes \in [Offset -> Byte] /\ NoEntries \in [Slot -> Number]
           /\ [i \in Offset |-> JUNK] \in [Offset -> Byte]
           /\ \A n \in Number : n # 0 => n \in Block
BY DEF Layout, Block, Number, NoBytes, NoEntries, Offset, Slot, Byte

LEMMA FreeCount ==
    ASSUME NEW F, Layout, F \in SUBSET Block
    PROVE  /\ IsFiniteSet(F) /\ Cardinality(F) \in Nat
           /\ \A b \in F : Cardinality(F \ {b}) = Cardinality(F) - 1 /\ Cardinality(F) > 0
           /\ \A b \in Block \ F : Cardinality(F \cup {b}) = Cardinality(F) + 1
<1>1. IsFiniteSet(Block)
  BY FS_Interval DEF Layout, Block
<1>2. IsFiniteSet(F)
  BY <1>1, FS_Subset
<1>3. Cardinality(F) \in Nat
  BY <1>2, FS_CardinalityType
<1>4. ASSUME NEW b \in F  PROVE Cardinality(F \ {b}) = Cardinality(F) - 1 /\ Cardinality(F) > 0
  <2>1. Cardinality(F \ {b}) = Cardinality(F) - 1
    BY <1>2, FS_RemoveElement
  <2>2. Cardinality(F) # 0
    BY <1>2, FS_EmptySet
  <2> QED  BY <2>1, <2>2, <1>3
<1>5. ASSUME NEW b \in Block \ F  PROVE Cardinality(F \cup {b}) = Cardinality(F) + 1
  BY <1>2, FS_AddElement
<1> QED  BY <1>2, <1>3, <1>4, <1>5

LEMMA AllocTakes ==
    ASSUME NEW s, Layout, s \in Work, s.panic = "none",
           s.unused = Cardinality(s.freemap), s.freemap # {}
    PROVE  Took(s, sfs_block_alloc(s))
<1> DEFINE b == CHOOSE x \in s.freemap : \A y \in s.freemap : x <= y
           t == [s EXCEPT !.freemap = @ \ {b}, !.unused = @ - 1, !.ino = b,
                          !.data[b] = NoBytes, !.entry[b] = NoEntries]
<1>1. s.freemap \subseteq Block /\ s.freemap \in SUBSET Block /\ s.freemap \subseteq Nat
  BY DEF Work, Block
<1>2. \E x \in s.freemap : \A y \in s.freemap : x <= y
  BY <1>1, Least
<1>3. b \in s.freemap
  BY <1>2
<1> HIDE DEF b
<1>4. s.unused > 0
  BY <1>1, <1>3, FreeCount
<1>5. Checked(s, s.unused > 0, "sfs_block_alloc") = s
  BY <1>4 DEF Checked
<1>6. sfs_block_alloc(s) = t
  BY <1>5 DEF sfs_block_alloc, b
<1>7. /\ b \in Block /\ b \in Number
      /\ s.freemap \ {b} \in SUBSET Block
      /\ [s.data EXCEPT ![b] = NoBytes] \in Data
      /\ [s.entry EXCEPT ![b] = NoEntries] \in Entries
      /\ s.unused - 1 \in Int
  BY <1>1, <1>3, BlockType DEF Work, Data, Entries
<1>8. /\ t \in Work /\ t.ino = b
      /\ t.freemap = s.freemap \ {b} /\ t.unused = s.unused - 1
      /\ t.data = [s.data EXCEPT ![b] = NoBytes]
      /\ t.entry = [s.entry EXCEPT ![b] = NoEntries]
      /\ t.din = s.din /\ t.dirty = s.dirty /\ t.ok = s.ok /\ t.panic = s.panic
      /\ t.alen = s.alen /\ t.buf = s.buf
  BY <1>7 DEF Work
<1>9. Cardinality(s.freemap \ {b}) = s.unused - 1
  BY <1>1, <1>3, FreeCount
<1> HIDE DEF t
<1> QED  BY <1>3, <1>6, <1>8, <1>9 DEF Took

LEMMA FreeGives ==
    ASSUME NEW s, NEW b, Layout, s \in Work, b \in Block, s.panic = "none",
           s.unused = Cardinality(s.freemap), b \notin s.freemap
    PROVE  Gave(s, sfs_block_free(s, b), b)
<1> DEFINE t == [s EXCEPT !.freemap = @ \cup {b}, !.unused = @ + 1,
                          !.data[b] = [i \in 0..BLKSIZE - 1 |-> JUNK]]
<1>1. s.freemap \in SUBSET Block
  BY DEF Work
<1>2. Checked(s, sfs_block_inuse(s, b), "sfs_block_free") = s
  BY DEF Checked, sfs_block_inuse
<1>3. sfs_block_free(s, b) = t
  BY <1>2 DEF sfs_block_free
<1>4. /\ s.freemap \cup {b} \in SUBSET Block
      /\ [s.data EXCEPT ![b] = [i \in Offset |-> JUNK]] \in Data
      /\ s.unused + 1 \in Int
  BY <1>1, BlockType DEF Work, Data
<1>5. /\ t \in Work
      /\ t.freemap = s.freemap \cup {b} /\ t.unused = s.unused + 1
      /\ t.data = [s.data EXCEPT ![b] = [i \in Offset |-> JUNK]]
      /\ t.entry = s.entry /\ t.ino = s.ino
      /\ t.din = s.din /\ t.dirty = s.dirty /\ t.ok = s.ok /\ t.panic = s.panic
      /\ t.alen = s.alen /\ t.buf = s.buf
  BY <1>4 DEF Work, Offset
<1>6. Cardinality(s.freemap \cup {b}) = s.unused + 1
  BY <1>1, FreeCount
<1> HIDE DEF t
<1> QED  BY <1>3, <1>5, <1>6 DEF Gave

LEMMA AtType ==
    ASSUME NEW din, NEW ent, NEW k, Layout, din \in Inode, ent \in Entries,
           k \in Key
    PROVE  At(din, ent, k) \in Number /\ (At(din, ent, k) # 0 => At(din, ent, k) \in Block)
<1>1. CASE k = -1
  BY <1>1, BlockType DEF At, Inode
<1>2. CASE k # -1 /\ k < NDIRECT
  <2>1. k \in 0..NDIRECT - 1
    BY <1>2 DEF Layout, Key, Index
  <2> QED  BY <1>2, <2>1, BlockType DEF At, Inode
<1>3. CASE k # -1 /\ ~(k < NDIRECT) /\ din.indirect = 0
  BY <1>3, BlockType DEF At
<1>4. CASE k # -1 /\ ~(k < NDIRECT) /\ din.indirect # 0
  <2>1. k - NDIRECT \in Slot
    BY <1>4 DEF Layout, Key, Index, Slot
  <2>2. din.indirect \in Block
    BY <1>4, BlockType DEF Inode
  <2> QED  BY <1>4, <2>1, <2>2, BlockType DEF At, Entries
<1> QED  BY <1>1, <1>2, <1>3, <1>4

\* A block that was taken gets the name key.
LEMMA NameExact ==
    ASSUME NEW F, NEW T, NEW din, NEW ent, NEW din2, NEW ent2, NEW b, NEW key,
           b \in Block, key \in Key, b \notin T, 0 \notin Block,
           Exact(F, din, ent, With(T, b)), b # 0, At(din, ent, key) = 0,
           At(din2, ent2, key) = b,
           \A k \in Key : k # key => At(din2, ent2, k) = At(din, ent, k)
    PROVE  Exact(F, din2, ent2, T)
<1>1. \A k \in Key : At(din, ent, k) # b
  BY DEF Exact, With
<1>2. b \notin F
  BY DEF Exact, With
<1>3. F \cap T = {}
  BY DEF Exact, With
<1>4. ASSUME NEW k \in Key, NEW l \in Key,
             At(din2, ent2, k) = At(din2, ent2, l), At(din2, ent2, k) # 0
      PROVE  k = l
  <2>1. CASE k = key \/ l = key
    BY <1>1, <1>4, <2>1
  <2>2. CASE k # key /\ l # key
    BY <1>4, <2>2 DEF Exact, With
  <2> QED  BY <2>1, <2>2
<1>5. \A k \in Key : At(din2, ent2, k) \notin F \cup T
  BY <1>2 DEF Exact, With
<1>6. ASSUME NEW c \in Block
      PROVE  c \in F \cup T \/ \E k \in Key : At(din2, ent2, k) = c
  <2>1. CASE c = b
    BY <2>1
  <2>2. CASE c # b /\ c \notin F \cup T
    <3>1. PICK k \in Key : At(din, ent, k) = c
      BY <2>2 DEF Exact, With
    <3>2. CASE k # key
      BY <3>1, <3>2
    <3>3. CASE k = key
      BY <3>1, <3>3
    <3> QED  BY <3>2, <3>3
  <2> QED  BY <2>1, <2>2
<1> QED  BY <1>3, <1>4, <1>5, <1>6 DEF Exact

\* The block named key is free.
LEMMA UnnameExact ==
    ASSUME NEW F, NEW T, NEW din, NEW ent, NEW din2, NEW ent2, NEW b, NEW key,
           key \in Key, b # 0, Exact(F, din, ent, T), 0 \notin F \cup T,
           At(din, ent, key) = b, At(din2, ent2, key) = 0,
           \A k \in Key : k # key => At(din2, ent2, k) = At(din, ent, k)
    PROVE  Exact(F \cup {b}, din2, ent2, T)
<1>1. \A k \in Key : k # key => At(din, ent, k) # b
  BY DEF Exact
<1>2. b \notin T
  BY DEF Exact
<1>3. (F \cup {b}) \cap T = {}
  BY <1>2 DEF Exact
<1>4. ASSUME NEW k \in Key, NEW l \in Key,
             At(din2, ent2, k) = At(din2, ent2, l), At(din2, ent2, k) # 0
      PROVE  k = l
  <2>1. k # key /\ l # key
    BY <1>4
  <2> QED  BY <1>4, <2>1 DEF Exact
<1>5. \A k \in Key : At(din2, ent2, k) \notin (F \cup {b}) \cup T
  BY <1>1 DEF Exact
<1>6. ASSUME NEW c \in Block
      PROVE  c \in (F \cup {b}) \cup T \/ \E k \in Key : At(din2, ent2, k) = c
  <2>1. CASE c = b
    BY <2>1
  <2>2. CASE c # b /\ c \notin F \cup T
    <3>1. PICK k \in Key : At(din, ent, k) = c
      BY <2>2 DEF Exact
    <3>2. k # key
      BY <2>2, <3>1
    <3> QED  BY <3>1, <3>2
  <2> QED  BY <2>1, <2>2
<1> QED  BY <1>3, <1>4, <1>5, <1>6 DEF Exact

LEMMA TookExact ==
    ASSUME NEW T, NEW s, NEW t, Layout, T \in SUBSET Block, Core(s, T),
           Took(s, t)
    PROVE  /\ SameNames(s, t)
           /\ Core(t, With(T, t.ino)) /\ t.ino \in Block /\ t.ino \notin T
           /\ Keeps(s, t, T) /\ SameBytes(s, t)
           /\ t.entry[t.ino] = NoEntries /\ t.data[t.ino] = NoBytes
<1> DEFINE b == t.ino
<1>1. /\ s \in Work /\ t \in Work /\ b \in s.freemap /\ b \in Block /\ b \notin T
      /\ s.din \in Inode /\ s.entry \in Entries /\ s.data \in Data
      /\ t.entry \in Entries /\ t.data \in Data
  BY DEF Core, Took, Work, Exact
<1>2. -1 \in Key
  BY DEF Key
<1>3. \A k \in Key : At(s.din, s.entry, k) # b
  BY <1>1 DEF Core, Exact
<1>4. s.din.indirect # b
  BY <1>2, <1>3 DEF At
<1>5. /\ \A c \in Block : c # b => t.entry[c] = s.entry[c] /\ t.data[c] = s.data[c]
      /\ t.entry[b] = NoEntries /\ t.data[b] = NoBytes /\ t.din = s.din
  BY <1>1 DEF Took, Entries, Data
<1>6. ASSUME NEW k \in Key  PROVE At(t.din, t.entry, k) = At(s.din, s.entry, k)
  <2>1. CASE s.din.indirect = 0
    BY <1>5, <2>1 DEF At
  <2>2. CASE s.din.indirect # 0
    <3>1. s.din.indirect \in Block
      BY <1>1, <2>2, BlockType DEF Inode
    <3>2. t.entry[s.din.indirect] = s.entry[s.din.indirect]
      BY <1>4, <1>5, <3>1
    <3> QED  BY <1>5, <3>2 DEF At
  <2> QED  BY <2>1, <2>2
<1>7. Keeps(s, t, T)
  BY <1>1, <1>5 DEF Keeps
<1>8. SameBytes(s, t)
  <2> SUFFICES ASSUME NEW k \in Index, NEW j \in Offset
               PROVE  ByteAt(t, k, j) = ByteAt(s, k, j)
    BY DEF SameBytes
  <2>1. k \in Key
    BY DEF Key
  <2>2. At(t.din, t.entry, k) = At(s.din, s.entry, k) /\ At(s.din, s.entry, k) # b
    BY <1>3, <1>6, <2>1
  <2>3. At(s.din, s.entry, k) # 0 => At(s.din, s.entry, k) \in Block
    BY <1>1, <2>1, AtType
  <2> QED  BY <1>5, <2>2, <2>3 DEF ByteAt
<1>9. Exact(t.freemap, t.din, t.entry, With(T, b))
  <2>1. Exact(s.freemap, s.din, s.entry, T) /\ t.freemap = s.freemap \ {b}
    BY DEF Core, Took
  <2>2. t.freemap \cap With(T, b) = {}
    BY <2>1, <1>1 DEF Exact, With
  <2>3. \A k \in Key : At(t.din, t.entry, k) \notin t.freemap \cup With(T, b)
    BY <2>1, <1>3, <1>6 DEF Exact, With
  <2>4. \A c \in Block : c \in t.freemap \cup With(T, b) \/ \E k \in Key : At(t.din, t.entry, k) = c
    BY <2>1, <1>6 DEF Exact, With
  <2>5. \A k, l \in Key : At(t.din, t.entry, k) = At(t.din, t.entry, l)
                          /\ At(t.din, t.entry, k) # 0 => k = l
    BY <2>1, <1>6 DEF Exact, With
  <2> QED  BY <2>2, <2>3, <2>4, <2>5 DEF Exact
<1>10. Core(t, With(T, b))
  BY <1>1, <1>9 DEF Core, Took
<1> QED  BY <1>1, <1>5, <1>6, <1>7, <1>8, <1>10 DEF SameNames

-----------------------------------------------------------------------------
(* Looking a block up *)

\* What looking up the block k does, whether it was there or could be had or not.
Found(s, t, T, k) ==
    /\ Core(t, T) /\ Keeps(s, t, T) /\ SameBytes(s, t) /\ Marked(s, t)
    /\ t.din.size = s.din.size /\ t.din.blocks = s.din.blocks
    /\ t.alen = s.alen /\ t.buf = s.buf
    /\ \A i \in Index : i # k => (At(t.din, t.entry, i) = 0 <=> At(s.din, s.entry, i) = 0)
    /\ IF t.ok THEN t.ino = At(t.din, t.entry, k) /\ t.ino # 0
       ELSE At(t.din, t.entry, k) = At(s.din, s.entry, k)
    /\ t.ok /\ k < NDIRECT /\ At(s.din, s.entry, k) = 0 => t.dirty

\* Entry index of the indirect block has this index in the file.
EntryKey(index) == NDIRECT + index

OtherNames(din, ent, ent2, key) ==
    \A k \in Key : k # key => At(din, ent2, k) = At(din, ent, k)

OtherEntries(ent, ent2, e) == \A c \in Block : c # e => ent2[c] = ent[c]

Writes(ent, ent2, e, index, b) == ent2 = [ent EXCEPT ![e] = [@ EXCEPT ![index] = b]]

\* The block u took is entered in block e, which is the indirect block then.
Entered(u, v, e, index, new) ==
    /\ v \in Work
    /\ Writes(u.entry, v.entry, e, index, u.ino)
    /\ v.din = [u.din EXCEPT !.indirect = e]
    /\ v.dirty = (u.dirty \/ new)
    /\ v.freemap = u.freemap /\ v.unused = u.unused /\ v.data = u.data
    /\ v.ino = u.ino /\ v.ok = u.ok /\ v.panic = u.panic
    /\ v.alen = u.alen /\ v.buf = u.buf

\* The free block b can be entered in the indirect block, which becomes ent2.
CanName(F, T, din, ent, ent2, index, b) ==
    /\ din \in Inode /\ ent \in Entries /\ index \in Slot /\ b \in Block
    /\ din.indirect # 0 /\ b \notin T
    /\ Exact(F, din, ent, With(T, b)) /\ At(din, ent, EntryKey(index)) = 0
    /\ Writes(ent, ent2, din.indirect, index, b)

IsNamed(F, T, din, ent, ent2, index, b) ==
    /\ ent2 \in Entries /\ Exact(F, din, ent2, T)
    /\ At(din, ent2, EntryKey(index)) = b
    /\ OtherNames(din, ent, ent2, EntryKey(index))
    /\ OtherEntries(ent, ent2, din.indirect)

LEMMA NameEntry ==
    ASSUME NEW F, NEW T, NEW din, NEW ent, NEW ent2, NEW index, NEW b, Layout,
           CanName(F, T, din, ent, ent2, index, b)
    PROVE  IsNamed(F, T, din, ent, ent2, index, b)
<1> USE DEF CanName
<1> DEFINE key == EntryKey(index)
<1> DEFINE e == din.indirect
<1>1. e \in Block /\ b # 0 /\ 0 \notin Block /\ b \in Number
  BY BlockType DEF Inode
<1>2. key \in Key /\ key # -1 /\ ~(key < NDIRECT) /\ key - NDIRECT = index
  BY DEF Layout, Key, Index, Slot, EntryKey
<1>3. ent[e] \in [Slot -> Number]
  BY <1>1 DEF Entries
<1>4. [ent[e] EXCEPT ![index] = b] \in [Slot -> Number]
  BY <1>1, <1>3
<1>5. ent2 \in Entries
  BY <1>1, <1>4 DEF Entries, Writes
<1>6. ent2[e] = [ent[e] EXCEPT ![index] = b] /\ \A c \in Block : c # e => ent2[c] = ent[c]
  BY <1>1 DEF Entries, Writes
<1>7. ent2[e][index] = b /\ \A i \in Slot : i # index => ent2[e][i] = ent[e][i]
  BY <1>3, <1>6
<1>8. At(din, ent2, key) = b
  BY <1>2, <1>7, <1>1 DEF At
<1>9. ASSUME NEW k \in Key, k # key  PROVE At(din, ent2, k) = At(din, ent, k)
  <2>1. CASE k = -1 \/ k < NDIRECT
    BY <2>1 DEF At
  <2>2. CASE ~(k = -1 \/ k < NDIRECT)
    <3>1. k - NDIRECT \in Slot /\ k - NDIRECT # index
      BY <1>9, <2>2 DEF Layout, Key, Index, Slot, EntryKey
    <3> QED  BY <1>7, <2>2, <3>1 DEF At
  <2> QED  BY <2>1, <2>2
<1>10. Exact(F, din, ent2, T)
  <2> HIDE DEF e
  <2> QED  BY <1>1, <1>2, <1>8, <1>9, NameExact
<1> QED  BY <1>5, <1>6, <1>8, <1>9, <1>10 DEF OtherNames, OtherEntries, IsNamed

LEMMA EntryFields ==
    ASSUME NEW u, NEW o, NEW index, NEW new, NEW v, Layout, u \in Work,
           index \in Slot, new \in BOOLEAN, u.ok, o.ino \in Block,
           u.ino \in Number, v = EntryNamed(u, o, index, new)
    PROVE  Entered(u, v, o.ino, index, new)
<1> DEFINE t == [u EXCEPT !.entry[o.ino][index] = u.ino, !.din.indirect = o.ino,
                          !.dirty = @ \/ new]
           ent2 == [u.entry EXCEPT ![o.ino] = [@ EXCEPT ![index] = u.ino]]
           din2 == [u.din EXCEPT !.indirect = o.ino]
<1>1. v = t
  BY DEF EntryNamed
<1>2. u.entry[o.ino] \in [Slot -> Number]
  BY DEF Work, Entries
<1>3. ent2 \in Entries
  BY <1>2 DEF Work, Entries
<1>4. din2 \in Inode
  BY BlockType DEF Work, Inode
<1>5. u.dirty \in BOOLEAN
  BY DEF Work
<1>6. (u.dirty \/ new) \in BOOLEAN
  BY <1>5
<1>7. t = [u EXCEPT !.entry = ent2, !.din = din2, !.dirty = u.dirty \/ new]
  BY DEF Work
<1> HIDE DEF ent2, din2, t
<1>8. /\ t \in Work
      /\ t.entry = ent2 /\ t.din = din2
      /\ t.freemap = u.freemap /\ t.unused = u.unused /\ t.data = u.data
      /\ t.ino = u.ino /\ t.ok = u.ok /\ t.panic = u.panic
      /\ t.alen = u.alen /\ t.buf = u.buf
  BY <1>3, <1>4, <1>6, <1>7 DEF Work
<1>9. t.dirty = (u.dirty \/ new)
  BY <1>7, <1>6 DEF Work
<1> QED  BY <1>1, <1>8, <1>9 DEF ent2, din2, Entered, Writes

\* Nothing but what looking up notes is changed.
Same(s, t) ==
    /\ t \in Work
    /\ t.freemap = s.freemap /\ t.unused = s.unused /\ t.entry = s.entry /\ t.data = s.data
    /\ t.din = s.din /\ t.dirty = s.dirty /\ t.panic = s.panic
    /\ t.alen = s.alen /\ t.buf = s.buf

LEMMA NotedFacts ==
    ASSUME NEW s, NEW n, NEW t, s \in Work, n \in Number,
           t = [s EXCEPT !.ino = n]
    PROVE  Same(s, t) /\ t.ino = n /\ t.ok = s.ok
BY DEF Work, Same

LEMMA FailedFacts ==
    ASSUME NEW s, s \in Work
    PROVE  Same(s, Failed(s)) /\ ~Failed(s).ok
BY DEF Work, Same, Failed

LEMMA SameSame ==
    ASSUME NEW s, NEW t, NEW u, Same(s, t), Same(t, u)
    PROVE  Same(s, u)
BY DEF Same

LEMMA SameFound ==
    ASSUME NEW s, NEW t, NEW T, NEW k, Layout, T \in SUBSET Block,
           k \in Index, Core(s, T), Same(s, t),
           t.ok => t.ino = At(s.din, s.entry, k) /\ t.ino # 0
    PROVE  Found(s, t, T, k)
<1>1. Core(t, T)
  BY DEF Core, Same
<1>2. Keeps(s, t, T) /\ SameBytes(s, t)
  BY DEF Keeps, SameBytes, ByteAt, Same
<1>3. Marked(s, t)
  BY DEF Marked, Same
<1>4. s.dirty \in BOOLEAN
  BY DEF Core, Work
<1> QED  BY <1>1, <1>2, <1>3, <1>4 DEF Found, Same

\* The block taken last, in u, is named in an indirect block that is there.
LEMMA EntryTaken ==
    ASSUME NEW s, NEW T, NEW index, NEW e, NEW key, NEW o, NEW u, NEW b,
           NEW t, Layout, T \in SUBSET Block, index \in Slot, e \in Block,
           Core(s, T), s.ok, e = s.din.indirect, key = EntryKey(index),
           At(s.din, s.entry, key) = 0, Same(s, o), o.ino = e, o.ok = s.ok,
           Took(o, u), b = u.ino, t = EntryNamed(u, o, index, FALSE)
    PROVE  Found(s, t, T, key)
<1>1. s \in Work /\ s.din \in Inode /\ s.entry \in Entries /\ e # 0
  BY BlockType DEF Core, Work
<1>2. key \in Index /\ key \in Key /\ ~(key < NDIRECT)
  BY DEF Layout, Key, Index, Slot, EntryKey
<1>3. Core(o, T)
  BY DEF Core, Same
<1>4. /\ SameNames(o, u) /\ Core(u, With(T, b)) /\ b \in Block /\ b \notin T
      /\ Keeps(o, u, T) /\ SameBytes(o, u)
      /\ u.data[b] = NoBytes
  BY <1>3, TookExact
<1>5. /\ u \in Work /\ u.ok /\ u.din = s.din /\ u.dirty = s.dirty
      /\ u.alen = s.alen /\ u.buf = s.buf /\ u.panic = s.panic
      /\ u.din \in Inode /\ u.entry \in Entries
  BY DEF Took, Same, Work
<1>6. b \in Number
  BY <1>4, BlockType
<1>7. Entered(u, t, e, index, FALSE)
  BY <1>5, <1>6, EntryFields
<1>8. t.din = s.din
  <2>1. t.din = [s.din EXCEPT !.indirect = s.din.indirect]
    BY <1>5, <1>7 DEF Entered
  <2> QED  BY <2>1, <1>1 DEF Inode
<1>9. Exact(u.freemap, u.din, u.entry, With(T, b)) /\ u.unused = Cardinality(u.freemap)
  BY <1>4 DEF Core
<1>10. At(u.din, u.entry, key) = 0
  BY <1>2, <1>4 DEF Same, SameNames
<1>11. /\ Exact(u.freemap, u.din, t.entry, T)
       /\ At(u.din, t.entry, key) = b
       /\ OtherNames(u.din, u.entry, t.entry, key)
       /\ OtherEntries(u.entry, t.entry, e)
  <2>1. u.din.indirect = e
    BY <1>5
  <2>2. Writes(u.entry, t.entry, u.din.indirect, index, b)
    BY <1>7, <2>1 DEF Entered, Entered
  <2>3. u.din.indirect # 0
    BY <1>1, <2>1
  <2>4. b \in Block /\ b \notin T
    BY <1>4
  <2>5. u.din \in Inode /\ u.entry \in Entries
    BY <1>5
  <2>6. CanName(u.freemap, T, u.din, u.entry, t.entry, index, b)
    BY <2>2, <2>3, <2>4, <2>5, <1>9, <1>10 DEF CanName
  <2>7. IsNamed(u.freemap, T, u.din, u.entry, t.entry, index, b)
    BY <2>6, NameEntry
  <2> QED  BY <2>1, <2>7 DEF IsNamed
<1>12. Core(t, T)
  BY <1>5, <1>7, <1>8, <1>9, <1>11 DEF Core, Same, Entered, OtherNames, OtherEntries
<1>13. e \notin T
  <2>1. -1 \in Key /\ At(s.din, s.entry, -1) = e
    BY DEF Key, At
  <2> QED  BY <2>1 DEF Core, Exact
<1>14. Keeps(s, t, T)
  <2> SUFFICES ASSUME NEW c \in T  PROVE t.entry[c] = s.entry[c] /\ t.data[c] = s.data[c]
    BY DEF Keeps
  <2>1. c \in Block /\ c # e
    BY <1>13
  <2>2. t.entry[c] = u.entry[c] /\ t.data = u.data
    BY <2>1, <1>7, <1>11 DEF Entered, OtherEntries
  <2>3. u.entry[c] = o.entry[c] /\ u.data[c] = o.data[c]
    BY <1>4 DEF Keeps
  <2>4. o.entry = s.entry /\ o.data = s.data
    BY DEF Same
  <2> QED  BY <2>2, <2>3, <2>4
<1>15. SameBytes(s, t)
  <2> SUFFICES ASSUME NEW k \in Index, NEW j \in Offset
               PROVE  ByteAt(t, k, j) = ByteAt(s, k, j)
    BY DEF SameBytes
  <2>1. k \in Key
    BY DEF Key
  <2>2. CASE k = key
    <3>1. ByteAt(s, k, j) = 0
      BY <2>2 DEF ByteAt
    <3>2. NoBytes[j] = 0
      BY DEF NoBytes, Offset
    <3>3. t.data[b][j] = 0
      BY <3>2, <1>4, <1>7 DEF Entered
    <3> QED  BY <2>2, <3>1, <3>3, <1>5, <1>8, <1>11 DEF ByteAt, OtherNames, OtherEntries
  <2>3. CASE k # key
    <3>1. ByteAt(t, k, j) = ByteAt(u, k, j)
      <4>1. At(t.din, t.entry, k) = At(u.din, u.entry, k)
        BY <1>5, <1>8, <1>11, <2>1, <2>3 DEF OtherNames
      <4>2. t.data = u.data
        BY <1>7 DEF Entered
      <4> QED  BY <4>1, <4>2 DEF ByteAt
    <3>2. ByteAt(u, k, j) = ByteAt(o, k, j)
      BY <1>4 DEF SameBytes
    <3>3. ByteAt(o, k, j) = ByteAt(s, k, j)
      BY DEF ByteAt, Same
    <3> QED  BY <3>1, <3>2, <3>3
  <2> QED  BY <2>2, <2>3
<1>16. Marked(s, t)
  BY <1>5, <1>7, <1>8 DEF Marked, Entered
<1>17. ASSUME NEW i \in Index, i # key
       PROVE  At(t.din, t.entry, i) = At(s.din, s.entry, i)
  <2>1. i \in Key
    BY DEF Key
  <2>2. At(t.din, t.entry, i) = At(u.din, u.entry, i)
    BY <1>5, <1>8, <1>11, <1>17, <2>1, Zenon DEF OtherNames
  <2>3. At(u.din, u.entry, i) = At(o.din, o.entry, i)
    BY <1>4, <2>1, Zenon DEF SameNames
  <2>4. o.din = s.din /\ o.entry = s.entry
    BY Zenon DEF Same
  <2> QED  BY <2>2, <2>3, <2>4, Zenon
<1>18. t.ok /\ t.ino = At(t.din, t.entry, key) /\ t.ino # 0
  <2>1. t.ok /\ t.ino = b
    BY <1>5, <1>7 DEF Entered
  <2>2. b # 0
    BY <1>4, BlockType
  <2>3. At(t.din, t.entry, key) = b
    BY <1>5, <1>8, <1>11
  <2> QED  BY <2>1, <2>2, <2>3
<1> QED
  BY <1>2, <1>5, <1>7, <1>8, <1>12, <1>14, <1>15, <1>16, <1>17, <1>18 DEF Found, Entered

\* A block is taken and named in an indirect block that is there.
LEMMA OldEntry ==
    ASSUME NEW s, NEW T, NEW index, NEW key, NEW o, Layout,
           T \in SUBSET Block, index \in Slot, Core(s, T), s.ok,
           s.din.indirect # 0, key = EntryKey(index),
           At(s.din, s.entry, key) = 0, o = [s EXCEPT !.ino = s.din.indirect]
    PROVE  Found(s, NewEntry(o, index, FALSE), T, key)
<1>1. s \in Work /\ s.din.indirect \in Block /\ s.din.indirect \in Number
  BY BlockType DEF Core, Work, Inode
<1>2. key \in Index
  BY DEF Layout, Index, Slot, EntryKey
<1>3. Same(s, o) /\ o.ino = s.din.indirect /\ o.ok = s.ok
  BY <1>1, NotedFacts
<1> DEFINE t == EntryNamed(sfs_block_alloc(o), o, index, FALSE)
<1>4. NewEntry(o, index, FALSE) = t
  BY <1>3 DEF NewEntry
<1>5. CASE o.freemap = {}
  <2>1. sfs_block_alloc(o) = Failed(o)
    BY <1>5 DEF sfs_block_alloc
  <2>2. ~Failed(o).ok /\ Same(o, Failed(o))
    <3>1. o \in Work
      BY <1>3 DEF Same
    <3> QED  BY <3>1, FailedFacts
  <2>3. t = Failed(o)
    BY <2>1, <2>2 DEF EntryNamed
  <2>4. Same(s, Failed(o))
    BY <1>3, <2>2, SameSame
  <2>5. Found(s, Failed(o), T, key)
    BY <1>2, <2>2, <2>4, SameFound
  <2> QED  BY <1>4, <2>3, <2>5
<1>6. CASE o.freemap # {}
  <2>1. Took(o, sfs_block_alloc(o))
    BY <1>3, <1>6, AllocTakes DEF Core, Same
  <2>2. Found(s, t, T, key)
    BY <1>1, <1>3, <2>1, EntryTaken
  <2> QED  BY <1>4, <2>2
<1> QED  BY <1>5, <1>6

\* The block b taken becomes the indirect block.
CanIndirect(F, T, din, din2, ent, b) ==
    /\ din \in Inode /\ ent \in Entries /\ b \in Block /\ b \notin T
    /\ din.indirect = 0 /\ ent[b] = NoEntries
    /\ Exact(F, din, ent, With(T, b)) /\ din2 = [din EXCEPT !.indirect = b]

SameIndices(din, din2, ent) == \A k \in Index : At(din2, ent, k) = At(din, ent, k)

IsIndirect(F, T, din, din2, ent, b) ==
    /\ din2 \in Inode /\ din2.indirect = b /\ Exact(F, din2, ent, T)
    /\ din2.size = din.size /\ din2.blocks = din.blocks /\ din2.direct = din.direct
    /\ SameIndices(din, din2, ent)

LEMMA NameIndirect ==
    ASSUME NEW F, NEW T, NEW din, NEW din2, NEW ent, NEW b, Layout,
           CanIndirect(F, T, din, din2, ent, b)
    PROVE  IsIndirect(F, T, din, din2, ent, b)
<1> USE DEF CanIndirect
<1>1. b \in Number /\ b # 0 /\ 0 \notin Block
  BY BlockType
<1>2. /\ din2 \in Inode /\ din2.indirect = b /\ din2.direct = din.direct
      /\ din2.size = din.size /\ din2.blocks = din.blocks
  BY <1>1 DEF Inode
<1>3. ASSUME NEW k \in Index  PROVE At(din2, ent, k) = At(din, ent, k)
  <2>1. k # -1
    BY DEF Layout, Index
  <2>2. CASE k < NDIRECT
    BY <1>2, <2>1, <2>2 DEF At
  <2>3. CASE ~(k < NDIRECT)
    <3>1. k - NDIRECT \in Slot
      BY <2>3 DEF Layout, Index, Slot
    <3>2. NoEntries[k - NDIRECT] = 0
      BY <3>1 DEF NoEntries, Slot
    <3> QED  BY <1>1, <1>2, <2>1, <2>3, <3>2 DEF At
  <2> QED  BY <2>2, <2>3
<1>4. -1 \in Key /\ \A k \in Key : k # -1 => k \in Index
  BY DEF Key
<1>5. At(din, ent, -1) = 0 /\ At(din2, ent, -1) = b
  BY <1>2 DEF At
<1>6. \A k \in Key : k # -1 => At(din2, ent, k) = At(din, ent, k)
  BY <1>3, <1>4
<1>7. Exact(F, din2, ent, T)
  BY <1>1, <1>4, <1>5, <1>6, NameExact
<1> QED  BY <1>2, <1>3, <1>7 DEF IsIndirect, SameIndices

\* The operation could not have a block, and left everything as it was.
Undone(s, t) ==
    /\ ~t.ok /\ SameNames(s, t) /\ t.din = s.din /\ t.dirty = s.dirty
    /\ t.alen = s.alen /\ t.buf = s.buf

LEMMA UndoneFound ==
    ASSUME NEW s, NEW t, NEW T, NEW k, Layout, k \in Index, Core(s, T),
           Core(t, T), Keeps(s, t, T), SameBytes(s, t), Undone(s, t)
    PROVE  Found(s, t, T, k)
<1>1. \A i \in Index : At(t.din, t.entry, i) = At(s.din, s.entry, i)
  BY DEF Undone, SameNames, Key
<1>2. Marked(s, t)
  BY DEF Marked, Undone
<1> QED  BY <1>1, <1>2 DEF Found, Undone

\* The block o took goes back.
LEMMA GivenBack ==
    ASSUME NEW s, NEW T, NEW o, NEW b, NEW v, Layout, T \in SUBSET Block,
           Core(s, T), Took(s, o), b = o.ino, Gave(o, v, b)
    PROVE  /\ Core(v, T) /\ Keeps(s, v, T) /\ SameBytes(s, v) /\ SameNames(s, v)
           /\ v.din = s.din /\ v.dirty = s.dirty /\ v.alen = s.alen /\ v.buf = s.buf
<1>1. /\ SameNames(s, o) /\ Core(o, With(T, b)) /\ b \in Block /\ b \notin T
      /\ Keeps(s, o, T) /\ SameBytes(s, o)
  BY TookExact
<1>2. /\ v.din = o.din /\ v.entry = o.entry /\ v.dirty = o.dirty /\ v.panic = o.panic
      /\ v.alen = o.alen /\ v.buf = o.buf /\ v \in Work
      /\ v.freemap = o.freemap \cup {b} /\ v.unused = Cardinality(v.freemap)
  BY DEF Gave
<1>3. /\ o.din = s.din /\ o.dirty = s.dirty /\ o.panic = s.panic
      /\ o.alen = s.alen /\ o.buf = s.buf
  BY DEF Took
<1>4. SameNames(s, v)
  BY <1>1, <1>2 DEF SameNames
<1>5. \A k \in Key : At(o.din, o.entry, k) # b
  BY <1>1 DEF Core, Exact, With
<1>6. o \in Work /\ o.data \in Data
  BY <1>1 DEF Core, Work
<1>7. \A c \in Block : c # b => v.data[c] = o.data[c]
  BY <1>6 DEF Gave, Data
<1>8. Exact(v.freemap, v.din, v.entry, T)
  BY <1>1, <1>2 DEF Core, Exact, With
<1>9. Core(v, T)
  BY <1>2, <1>3, <1>8 DEF Core
<1>10. Keeps(s, v, T)
  BY <1>1, <1>2, <1>7 DEF Keeps
<1>11. SameBytes(s, v)
  <2> SUFFICES ASSUME NEW k \in Index, NEW j \in Offset
               PROVE  ByteAt(v, k, j) = ByteAt(s, k, j)
    BY DEF SameBytes
  <2>1. k \in Key
    BY DEF Key
  <2>2. o.din \in Inode /\ o.entry \in Entries
    BY <1>6 DEF Work
  <2>3. At(o.din, o.entry, k) # 0 => At(o.din, o.entry, k) \in Block
    BY <2>1, <2>2, AtType
  <2>4. ByteAt(v, k, j) = ByteAt(o, k, j)
    BY <1>2, <1>5, <1>7, <2>1, <2>3 DEF ByteAt
  <2> QED  BY <2>4, <1>1 DEF SameBytes
<1> QED  BY <1>2, <1>3, <1>4, <1>9, <1>10, <1>11

\* A name was added: what there was under the other indices is as before.
Added(s, u, t, T, key, b) ==
    /\ key \in Index /\ Core(s, T) /\ Core(t, T) /\ Keeps(s, t, T)
    /\ SameNames(s, u) /\ SameBytes(s, u) /\ Marked(s, t)
    /\ \A k \in Index : k # key => At(t.din, t.entry, k) = At(u.din, u.entry, k)
    /\ At(s.din, s.entry, key) = 0 /\ At(t.din, t.entry, key) = b /\ b # 0
    /\ t.data = u.data /\ \A j \in Offset : u.data[b][j] = 0
    /\ t.ino = b /\ t.ok /\ (key < NDIRECT => t.dirty)
    /\ t.din.size = s.din.size /\ t.din.blocks = s.din.blocks
    /\ t.alen = s.alen /\ t.buf = s.buf

LEMMA AddedFound ==
    ASSUME NEW s, NEW u, NEW t, NEW T, NEW key, NEW b, Layout,
           Added(s, u, t, T, key, b)
    PROVE  Found(s, t, T, key)
<1> USE DEF Added
<1>1. SameBytes(s, t)
  <2> SUFFICES ASSUME NEW k \in Index, NEW j \in Offset
               PROVE  ByteAt(t, k, j) = ByteAt(s, k, j)
    BY DEF SameBytes
  <2>1. CASE k = key
    BY <2>1 DEF ByteAt
  <2>2. CASE k # key
    <3>1. ByteAt(t, k, j) = ByteAt(u, k, j)
      BY <2>2 DEF ByteAt
    <3> QED  BY <3>1 DEF SameBytes
  <2> QED  BY <2>1, <2>2
<1>2. ASSUME NEW i \in Index, i # key
      PROVE  At(t.din, t.entry, i) = At(s.din, s.entry, i)
  BY <1>2 DEF SameNames, Key
<1> QED  BY <1>1, <1>2 DEF Found

\* Two blocks are taken; the first becomes the indirect block, the second its entry.
LEMMA BothTaken ==
    ASSUME NEW s, NEW T, NEW index, NEW key, NEW o, NEW u, NEW b1, NEW b2,
           NEW t, Layout, T \in SUBSET Block, index \in Slot,
           Core(s, T), s.ok, s.din.indirect = 0, key = EntryKey(index),
           Took(s, o), b1 = o.ino, Took(o, u), b2 = u.ino,
           t = EntryNamed(u, o, index, TRUE)
    PROVE  Found(s, t, T, key)
<1>1. key \in Index /\ key \in Key /\ ~(key < NDIRECT) /\ key # -1
  BY DEF Layout, Key, Index, Slot, EntryKey
<1>2. /\ SameNames(s, o) /\ Core(o, With(T, b1)) /\ b1 \in Block /\ b1 \notin T
      /\ Keeps(s, o, T) /\ SameBytes(s, o) /\ o.entry[b1] = NoEntries
  BY TookExact
<1>3. With(T, b1) \in SUBSET Block
  BY <1>2 DEF With
<1>4. /\ SameNames(o, u) /\ Core(u, With(With(T, b1), b2)) /\ b2 \in Block
      /\ b2 \notin With(T, b1) /\ Keeps(o, u, With(T, b1)) /\ SameBytes(o, u)
      /\ u.data[b2] = NoBytes
  BY <1>2, <1>3, TookExact
<1>5. b2 \notin T /\ b2 # b1 /\ b1 \notin With(T, b2)
      /\ With(With(T, b1), b2) = With(With(T, b2), b1)
  BY <1>2, <1>4 DEF With
<1>6. /\ u \in Work /\ u.ok /\ u.din = s.din /\ u.dirty = s.dirty
      /\ u.alen = s.alen /\ u.buf = s.buf /\ u.panic = s.panic
      /\ u.din \in Inode /\ u.entry \in Entries /\ u.unused = Cardinality(u.freemap)
  BY DEF Took, Work
<1>7. b2 \in Number /\ b2 # 0
  BY <1>4, BlockType
<1>8. Entered(u, t, b1, index, TRUE)
  BY <1>2, <1>6, <1>7, EntryFields
<1>9. u.entry[b1] = NoEntries
  BY <1>2, <1>4 DEF Keeps, With
<1>10. t.din = [u.din EXCEPT !.indirect = b1]
  BY <1>8 DEF Entered
<1>11. CanIndirect(u.freemap, With(T, b2), u.din, t.din, u.entry, b1)
  BY <1>2, <1>4, <1>5, <1>6, <1>9, <1>10 DEF CanIndirect, Core
<1>12. IsIndirect(u.freemap, With(T, b2), u.din, t.din, u.entry, b1)
  BY <1>11, NameIndirect
<1>13. At(u.din, u.entry, key) = 0
  BY <1>1, <1>6 DEF At
<1>14. At(t.din, u.entry, key) = 0
  BY <1>1, <1>12, <1>13 DEF IsIndirect, SameIndices
<1>15. t.din.indirect = b1 /\ t.din.indirect # 0
  BY <1>2, <1>12, BlockType DEF IsIndirect
<1>16. Writes(u.entry, t.entry, t.din.indirect, index, b2)
  BY <1>8, <1>15 DEF Entered
<1>17. CanName(u.freemap, T, t.din, u.entry, t.entry, index, b2)
  BY <1>4, <1>5, <1>6, <1>12, <1>14, <1>15, <1>16 DEF CanName, IsIndirect
<1>18. IsNamed(u.freemap, T, t.din, u.entry, t.entry, index, b2)
  BY <1>17, NameEntry
<1>19. Core(t, T)
  BY <1>6, <1>8, <1>18 DEF Core, Entered, IsNamed
<1>20. Keeps(s, t, T)
  <2> SUFFICES ASSUME NEW c \in T  PROVE t.entry[c] = s.entry[c] /\ t.data[c] = s.data[c]
    BY DEF Keeps
  <2>1. c \in Block /\ c # b1 /\ c \in With(T, b1)
    BY <1>2 DEF With
  <2>2. t.entry[c] = u.entry[c] /\ t.data = u.data
    BY <2>1, <1>8, <1>15, <1>18 DEF Entered, IsNamed, OtherEntries
  <2>3. u.entry[c] = o.entry[c] /\ u.data[c] = o.data[c]
    BY <1>4, <2>1 DEF Keeps
  <2>4. o.entry[c] = s.entry[c] /\ o.data[c] = s.data[c]
    BY <1>2 DEF Keeps
  <2> QED  BY <2>2, <2>3, <2>4
<1>21. SameNames(s, u) /\ SameBytes(s, u)
  BY <1>2, <1>4 DEF SameNames, SameBytes
<1>22. ASSUME NEW k \in Index, k # key
       PROVE  At(t.din, t.entry, k) = At(u.din, u.entry, k)
  <2>1. At(t.din, t.entry, k) = At(t.din, u.entry, k)
    BY <1>18, <1>22 DEF IsNamed, OtherNames, Key
  <2> QED  BY <2>1, <1>12 DEF IsIndirect, SameIndices
<1>23. /\ t.data = u.data /\ t.ino = b2 /\ t.ok /\ t.dirty
       /\ t.alen = s.alen /\ t.buf = s.buf
  BY <1>6, <1>8 DEF Entered
<1>24. Marked(s, t)
  BY <1>23 DEF Marked
<1>25. t.din.size = s.din.size /\ t.din.blocks = s.din.blocks
  BY <1>6, <1>12 DEF IsIndirect
<1>26. At(t.din, t.entry, key) = b2
  BY <1>18 DEF IsNamed
<1>27. \A j \in Offset : u.data[b2][j] = 0
  BY <1>4 DEF NoBytes, Offset
<1>28. At(s.din, s.entry, key) = 0
  BY <1>1, <1>13, <1>21 DEF SameNames
<1>29. Added(s, u, t, T, key, b2)
  BY <1>1, <1>7, <1>19, <1>20, <1>21, <1>22, <1>23, <1>24, <1>25, <1>26, <1>27, <1>28 DEF Added
<1> QED  BY <1>29, AddedFound

LEMMA NewIndirect ==
    ASSUME NEW s, NEW T, NEW index, NEW key, Layout,
           T \in SUBSET Block, index \in Slot, Core(s, T), s.ok,
           s.din.indirect = 0, key = EntryKey(index)
    PROVE  Found(s, NewEntry(sfs_block_alloc(s), index, TRUE), T, key)
<1>1. key \in Index
  BY DEF Layout, Index, Slot, EntryKey
<1>2. s \in Work
  BY DEF Core
<1> DEFINE o == sfs_block_alloc(s)
           t == EntryNamed(sfs_block_alloc(o), o, index, TRUE)
<1>3. CASE s.freemap = {}
  <2>1. o = Failed(s)
    BY <1>3 DEF sfs_block_alloc
  <2>2. ~Failed(s).ok /\ Same(s, Failed(s))
    BY <1>2, FailedFacts
  <2>3. NewEntry(o, index, TRUE) = Failed(s)
    BY <2>1, <2>2 DEF NewEntry
  <2>4. Found(s, Failed(s), T, key)
    BY <1>1, <2>2, SameFound
  <2> QED  BY <2>3, <2>4
<1>4. CASE s.freemap # {}
  <2>1. Took(s, o)
    BY <1>2, <1>4, AllocTakes DEF Core
  <2> HIDE DEF o
  <2>2. o.ok /\ o \in Work /\ o.panic = "none" /\ o.unused = Cardinality(o.freemap)
    BY <2>1 DEF Took, Core
  <2>3. NewEntry(o, index, TRUE) = t
    BY <2>2 DEF NewEntry
  <2>4. CASE o.freemap # {}
    <3>1. Took(o, sfs_block_alloc(o))
      BY <2>2, <2>4, AllocTakes
    <3>2. Found(s, t, T, key)
      BY <2>1, <3>1, BothTaken
    <3> QED  BY <2>3, <3>2 DEF o
  <2>5. CASE o.freemap = {}
    <3> DEFINE v == sfs_block_free(o, o.ino)
    <3>1. sfs_block_alloc(o) = Failed(o)
      BY <2>5 DEF sfs_block_alloc
    <3>2. ~Failed(o).ok
      BY <2>2, FailedFacts
    <3>3. t = Failed(v)
      BY <3>1, <3>2 DEF EntryNamed
    <3>4. o.ino \in Block /\ o.ino \notin o.freemap
      BY <2>1 DEF Took, Core, Work
    <3>5. Gave(o, v, o.ino)
      BY <2>2, <3>4, FreeGives
    <3> HIDE DEF v
    <3>6. /\ Core(v, T) /\ Keeps(s, v, T) /\ SameBytes(s, v) /\ SameNames(s, v)
          /\ v.din = s.din /\ v.dirty = s.dirty /\ v.alen = s.alen /\ v.buf = s.buf
      BY <2>1, <3>5, GivenBack
    <3> DEFINE w == Failed(v)
    <3>7. Same(v, w) /\ ~w.ok
      BY <3>6, FailedFacts DEF Core
    <3> HIDE DEF w
    <3>8. Core(w, T)
      BY <3>6, <3>7 DEF Core, Same
    <3>9. Keeps(s, w, T)
      BY <3>6, <3>7 DEF Keeps, Same
    <3>10. SameNames(s, w)
      BY <3>6, <3>7 DEF SameNames, Same
    <3>11. SameBytes(s, w)
      BY <3>6, <3>7 DEF SameBytes, ByteAt, Same
    <3>12. Undone(s, w)
      BY <3>6, <3>7, <3>10 DEF Undone, Same
    <3>13. Found(s, w, T, key)
      BY <1>1, <3>8, <3>9, <3>11, <3>12, UndoneFound
    <3> QED  BY <2>3, <3>3, <3>13 DEF o, w
  <2> QED  BY <2>4, <2>5
<1> QED  BY <1>3, <1>4

LEMMA GetEntry ==
    ASSUME NEW s, NEW T, NEW index, NEW key, NEW create, Layout,
           T \in SUBSET Block, index \in Slot, create \in BOOLEAN, Core(s, T), s.ok,
           key = EntryKey(index), create \/ At(s.din, s.entry, key) # 0
    PROVE  Found(s, sfs_bmap_get_sub_nolock(s, index, create), T, key)
<1> DEFINE ent == s.din.indirect
           ino == IF ent = 0 THEN 0 ELSE s.entry[ent][index]
<1>1. key \in Index /\ key \in Key /\ key # -1 /\ ~(key < NDIRECT) /\ key - NDIRECT = index
  BY DEF Layout, Key, Index, Slot, EntryKey
<1>2. ino = At(s.din, s.entry, key)
  BY <1>1 DEF At
<1>3. s \in Work /\ s.din \in Inode /\ s.entry \in Entries
  BY DEF Core, Work
<1>4. ino \in Number
  BY <1>1, <1>2, <1>3, AtType
<1>5. CASE ino # 0
  <2> DEFINE t == [s EXCEPT !.ino = ino]
  <2>1. sfs_bmap_get_sub_nolock(s, index, create) = t
    BY <1>5 DEF sfs_bmap_get_sub_nolock
  <2> HIDE DEF ino
  <2>2. Same(s, t) /\ t.ino = ino /\ t.ok = s.ok
    BY <1>3, <1>4, NotedFacts
  <2>3. Found(s, t, T, key)
    BY <1>1, <1>2, <1>5, <2>2, SameFound
  <2> QED  BY <2>1, <2>3
<1>6. CASE ino = 0 /\ ent = 0
  <2>1. create
    BY <1>2, <1>6
  <2>2. sfs_bmap_get_sub_nolock(s, index, create) = NewEntry(sfs_block_alloc(s), index, TRUE)
    BY <1>6, <2>1 DEF sfs_bmap_get_sub_nolock
  <2> QED  BY <1>6, <2>2, NewIndirect
<1>7. CASE ino = 0 /\ ent # 0
  <2> DEFINE o == [s EXCEPT !.ino = ent]
  <2>1. create
    BY <1>2, <1>7
  <2>2. sfs_bmap_get_sub_nolock(s, index, create) = NewEntry(o, index, FALSE)
    BY <1>7, <2>1 DEF sfs_bmap_get_sub_nolock
  <2>3. Found(s, NewEntry(o, index, FALSE), T, key)
    BY <1>2, <1>7, OldEntry
  <2> QED  BY <2>2, <2>3
<1> QED  BY <1>5, <1>6, <1>7

\* The block b taken is named by the inode itself.
CanDirect(F, T, din, din2, ent, index, b) ==
    /\ din \in Inode /\ ent \in Entries /\ index \in 0..NDIRECT - 1
    /\ b \in Block /\ b \notin T
    /\ Exact(F, din, ent, With(T, b)) /\ At(din, ent, index) = 0
    /\ din2 = [din EXCEPT !.direct[index] = b]

IsDirect(F, T, din, din2, ent, index, b) ==
    /\ din2 \in Inode /\ Exact(F, din2, ent, T)
    /\ At(din2, ent, index) = b
    /\ \A k \in Key : k # index => At(din2, ent, k) = At(din, ent, k)
    /\ din2.size = din.size /\ din2.blocks = din.blocks /\ din2.indirect = din.indirect

LEMMA DirectIndex ==
    ASSUME NEW k, Layout, k \in 0..NDIRECT - 1
    PROVE  k \in Index /\ k \in Key /\ k # -1 /\ k < NDIRECT
BY DEF Layout, Index, Key

LEMMA KeyCases ==
    ASSUME NEW k, Layout, k \in Key
    PROVE  k = -1 \/ k \in 0..NDIRECT - 1 \/ (k # -1 /\ ~(k < NDIRECT) /\ k - NDIRECT \in Slot)
BY DEF Layout, Index, Key, Slot

LEMMA NameDirect ==
    ASSUME NEW F, NEW T, NEW din, NEW din2, NEW ent, NEW index, NEW b, Layout,
           CanDirect(F, T, din, din2, ent, index, b)
    PROVE  IsDirect(F, T, din, din2, ent, index, b)
<1> USE DEF CanDirect
<1>1. b \in Number /\ b # 0 /\ 0 \notin Block
  BY BlockType
<1>2. din.direct \in [0..NDIRECT - 1 -> Number]
  BY DEF Inode
<1>3. [din.direct EXCEPT ![index] = b] \in [0..NDIRECT - 1 -> Number]
  BY <1>1, <1>2
<1>4. /\ din2 \in Inode /\ din2.size = din.size /\ din2.blocks = din.blocks
      /\ din2.indirect = din.indirect
      /\ din2.direct = [din.direct EXCEPT ![index] = b]
  BY <1>3 DEF Inode
<1>5. /\ din2.direct[index] = b
      /\ \A i \in 0..NDIRECT - 1 : i # index => din2.direct[i] = din.direct[i]
  <2>1. index \in 0..NDIRECT - 1
    OBVIOUS
  <2> HIDE DEF CanDirect
  <2>2. /\ [din.direct EXCEPT ![index] = b][index] = b
        /\ \A i \in 0..NDIRECT - 1 : i # index =>
             [din.direct EXCEPT ![index] = b][i] = din.direct[i]
    BY <1>2, <2>1
  <2> QED  BY <1>4, <2>2, Zenon
<1>6. index \in Key /\ index # -1 /\ index < NDIRECT
  BY DirectIndex
<1>7. At(din2, ent, index) = b
  BY <1>5, <1>6 DEF At
<1>8. ASSUME NEW k \in Key, k # index  PROVE At(din2, ent, k) = At(din, ent, k)
  <2>1. CASE k = -1
    BY <1>4, <2>1 DEF At
  <2>2. CASE k \in 0..NDIRECT - 1
    <3>1. k # -1 /\ k < NDIRECT
      BY <2>2, DirectIndex
    <3> QED  BY <1>5, <1>8, <2>2, <3>1 DEF At
  <2>3. CASE k # -1 /\ ~(k < NDIRECT)
    BY <1>4, <2>3 DEF At
  <2> QED  BY <2>1, <2>2, <2>3, KeyCases
<1>9. Exact(F, din2, ent, T)
  BY <1>1, <1>6, <1>7, <1>8, NameExact
<1> QED  BY <1>4, <1>7, <1>8, <1>9 DEF IsDirect

LEMMA DirectTaken ==
    ASSUME NEW s, NEW T, NEW index, NEW u, NEW b, NEW t, Layout,
           T \in SUBSET Block, index \in 0..NDIRECT - 1, Core(s, T), s.ok,
           At(s.din, s.entry, index) = 0, Took(s, u), b = u.ino,
           t = DirectNamed(u, index)
    PROVE  Found(s, t, T, index)
<1>1. index \in Index /\ index \in Key /\ index # -1 /\ index < NDIRECT
  BY DirectIndex
<1>2. /\ SameNames(s, u) /\ Core(u, With(T, b)) /\ b \in Block /\ b \notin T
      /\ Keeps(s, u, T) /\ SameBytes(s, u) /\ u.data[b] = NoBytes
  BY TookExact
<1>3. /\ u \in Work /\ u.ok /\ u.din = s.din /\ u.dirty = s.dirty
      /\ u.alen = s.alen /\ u.buf = s.buf /\ u.panic = s.panic
      /\ u.din \in Inode /\ u.entry \in Entries /\ u.unused = Cardinality(u.freemap)
  BY DEF Took, Work
<1> DEFINE din2 == [u.din EXCEPT !.direct[index] = b]
<1>4. t = [u EXCEPT !.din = din2, !.dirty = TRUE]
  BY <1>3 DEF DirectNamed, Work
<1> HIDE DEF din2
<1>5. At(u.din, u.entry, index) = 0
  BY <1>3, <1>1, <1>2 DEF SameNames
<1>6. CanDirect(u.freemap, T, u.din, din2, u.entry, index, b)
  BY <1>2, <1>3, <1>5 DEF CanDirect, din2, Core
<1>7. IsDirect(u.freemap, T, u.din, din2, u.entry, index, b)
  BY <1>6, NameDirect
<1>8. din2 \in Inode
  BY <1>7 DEF IsDirect
<1>9. /\ t \in Work /\ t.din = din2 /\ t.dirty = TRUE
      /\ t.freemap = u.freemap /\ t.unused = u.unused /\ t.entry = u.entry
      /\ t.data = u.data /\ t.ino = u.ino /\ t.ok = u.ok /\ t.panic = u.panic
      /\ t.alen = u.alen /\ t.buf = u.buf
  BY <1>3, <1>4, <1>8 DEF Work
<1>10. Core(t, T)
  BY <1>3, <1>7, <1>9 DEF Core, IsDirect
<1>11. Keeps(s, t, T)
  BY <1>2, <1>9 DEF Keeps
<1>12. Marked(s, t)
  BY <1>9 DEF Marked
<1>13. \A k \in Index : k # index => At(t.din, t.entry, k) = At(u.din, u.entry, k)
  BY <1>7, <1>9 DEF IsDirect, Key
<1>14. At(t.din, t.entry, index) = b /\ b # 0
  BY <1>2, <1>7, <1>9, BlockType DEF IsDirect
<1>15. \A j \in Offset : u.data[b][j] = 0
  BY <1>2 DEF NoBytes, Offset
<1>16. t.din.size = s.din.size /\ t.din.blocks = s.din.blocks
  BY <1>3, <1>7, <1>9 DEF IsDirect
<1>17. Added(s, u, t, T, index, b)
  BY <1>1, <1>2, <1>3, <1>9, <1>10, <1>11, <1>12, <1>13, <1>14, <1>15, <1>16 DEF Added
<1> QED  BY <1>17, AddedFound

\* What sfs_bmap_get_nolock does for an index the file can have.
LEMMA GetFound ==
    ASSUME NEW s, NEW T, NEW index, NEW create, Layout,
           T \in SUBSET Block, index \in Index, create \in BOOLEAN, Core(s, T), s.ok,
           create \/ At(s.din, s.entry, index) # 0
    PROVE  Found(s, sfs_bmap_get_nolock(s, index, create), T, index)
<1>1. ~(index >= NDIRECT + NENTRY) /\ index \in Key
  BY DEF Layout, Index, Key
<1>2. CASE index >= NDIRECT
  <2>1. index - NDIRECT \in Slot /\ EntryKey(index - NDIRECT) = index
    BY <1>2 DEF Layout, Index, Slot, EntryKey
  <2>2. sfs_bmap_get_nolock(s, index, create)
          = sfs_bmap_get_sub_nolock(s, index - NDIRECT, create)
    BY <1>1, <1>2 DEF sfs_bmap_get_nolock
  <2> DEFINE i == index - NDIRECT
  <2> HIDE DEF i
  <2>3. Found(s, sfs_bmap_get_sub_nolock(s, i, create), T, index)
    BY <2>1, GetEntry DEF i
  <2> QED  BY <2>2, <2>3 DEF i
<1>3. CASE ~(index >= NDIRECT)
  <2>1. index \in 0..NDIRECT - 1 /\ index # -1 /\ index < NDIRECT
    BY <1>3 DEF Layout, Index
  <2>2. At(s.din, s.entry, index) = s.din.direct[index]
    BY <2>1 DEF At
  <2>3. s \in Work /\ s.din \in Inode /\ s.entry \in Entries
    BY DEF Core, Work
  <2>4. s.din.direct[index] \in Number
    BY <1>1, <2>2, <2>3, AtType
  <2>5. CASE s.din.direct[index] # 0
    <3> DEFINE t == [s EXCEPT !.ino = s.din.direct[index]]
    <3>1. sfs_bmap_get_nolock(s, index, create) = t
      BY <1>1, <1>3, <2>5 DEF sfs_bmap_get_nolock
    <3>2. Same(s, t) /\ t.ino = s.din.direct[index]
      BY <2>3, <2>4, NotedFacts
    <3>3. Found(s, t, T, index)
      BY <2>2, <2>5, <3>2, SameFound
    <3> QED  BY <3>1, <3>3
  <2>6. CASE s.din.direct[index] = 0
    <3> DEFINE u == sfs_block_alloc(s)
               t == DirectNamed(u, index)
    <3>1. sfs_bmap_get_nolock(s, index, create) = t
      BY <1>1, <1>3, <2>2, <2>6 DEF sfs_bmap_get_nolock
    <3>2. CASE s.freemap = {}
      <4>1. u = Failed(s)
        BY <3>2 DEF sfs_block_alloc
      <4>2. Same(s, Failed(s)) /\ ~Failed(s).ok
        BY <2>3, FailedFacts
      <4>3. t = Failed(s)
        BY <4>1, <4>2 DEF DirectNamed
      <4>4. Found(s, Failed(s), T, index)
        BY <4>2, SameFound
      <4> QED  BY <3>1, <4>3, <4>4
    <3>3. CASE s.freemap # {}
      <4>1. Took(s, u)
        BY <2>3, <3>3, AllocTakes DEF Core
      <4> HIDE DEF u
      <4>2. Found(s, t, T, index)
        BY <2>1, <2>2, <2>6, <4>1, DirectTaken
      <4> QED  BY <3>1, <4>2
    <3> QED  BY <3>2, <3>3
  <2> QED  BY <2>5, <2>6
<1> QED  BY <1>2, <1>3

\* What loading block index of a file does; if an assert fails nothing more is said.
Loads(s, t, T, index) ==
    /\ t \in Work
    /\ \/ /\ t.panic = "none" /\ Good(t, T)
          /\ Keeps(s, t, T) /\ SameBytes(s, t) /\ Marked(s, t)
          /\ t.din.size = s.din.size /\ t.alen = s.alen /\ t.buf = s.buf
          /\ IF t.ok THEN /\ t.ino = At(t.din, t.entry, index) /\ t.ino # 0
                          /\ t.din.blocks = IF index = s.din.blocks THEN index + 1
                                            ELSE s.din.blocks
             ELSE t.din.blocks = s.din.blocks
       \/ ~t.ok /\ t.panic \in Failing

\* When all blocks a file can have are there, the disk is larger than a file.
LEMMA FullFile ==
    ASSUME NEW F, NEW T, NEW din, NEW ent, Layout, din \in Inode, ent \in Entries,
           Exact(F, din, ent, T), \A k \in Index : At(din, ent, k) # 0
    PROVE  NBLK > NDIRECT + NENTRY
<1> DEFINE f == [k \in Key |-> At(din, ent, k)]
<1>1. NDIRECT \in Index /\ NDIRECT # -1 /\ ~(NDIRECT < NDIRECT)
  BY DEF Layout, Index
<1>2. din.indirect # 0
  BY <1>1 DEF At
<1>3. ASSUME NEW k \in Key  PROVE At(din, ent, k) # 0
  BY <1>2 DEF Key, At
<1>4. \A k \in Key : At(din, ent, k) \in Block
  BY <1>3, AtType
<1>5. f \in Injection(Key, Block)
  BY <1>3, <1>4 DEF Exact, Injection, IsInjective
<1>6. IsFiniteSet(Block) /\ Cardinality(Block) = NBLK
  BY FS_Interval DEF Layout, Block
<1>7. Cardinality(Key) <= NBLK
  <2> HIDE DEF f
  <2> QED  BY <1>5, <1>6, FS_Injection
<1>8. Key = -1..NDIRECT + NENTRY - 1
  BY DEF Layout, Key, Index
<1>9. Cardinality(Key) = NDIRECT + NENTRY + 1
  <2> DEFINE n == NDIRECT + NENTRY - 1
  <2>1. n \in Int /\ ~(-1 > n) /\ n - (-1) + 1 = NDIRECT + NENTRY + 1
    BY DEF Layout
  <2> HIDE DEF n
  <2>2. Cardinality(-1..n) = n - (-1) + 1
    BY <2>1, FS_Interval
  <2> QED  BY <1>8, <2>1, <2>2 DEF n
<1> QED  BY <1>7, <1>9 DEF Layout

\* What Counted does to the inode.
More(s, more) == [s EXCEPT !.din.blocks = @ + more]

LEMMA MoreFacts ==
    ASSUME NEW s, NEW more, s \in Work, more \in Nat
    PROVE  LET t == More(s, more)
           IN  /\ t \in Work /\ t.freemap = s.freemap /\ t.unused = s.unused
               /\ t.data = s.data /\ t.entry = s.entry /\ t.dirty = s.dirty
               /\ t.ino = s.ino /\ t.ok = s.ok /\ t.panic = s.panic
               /\ t.alen = s.alen /\ t.buf = s.buf
               /\ t.din.size = s.din.size /\ t.din.direct = s.din.direct
               /\ t.din.indirect = s.din.indirect /\ t.din.blocks = s.din.blocks + more
<1> DEFINE din2 == [s.din EXCEPT !.blocks = @ + more]
<1>1. s.din \in Inode
  BY DEF Work
<1>2. /\ din2 \in Inode /\ din2.size = s.din.size /\ din2.direct = s.din.direct
      /\ din2.indirect = s.din.indirect /\ din2.blocks = s.din.blocks + more
  BY <1>1 DEF Inode
<1>3. More(s, more) = [s EXCEPT !.din = din2]
  BY DEF More, Work
<1> HIDE DEF din2
<1> QED  BY <1>2, <1>3 DEF Work

\* The names do not depend on size and number of blocks.
SameNaming(din, din2) == din2.direct = din.direct /\ din2.indirect = din.indirect

LEMMA NamingAt ==
    ASSUME NEW din, NEW din2, NEW ent, SameNaming(din, din2)
    PROVE  \A k : At(din2, ent, k) = At(din, ent, k)
BY DEF SameNaming, At

LEMMA CountedLoads ==
    ASSUME NEW s, NEW t, NEW T, NEW index, NEW more, Layout, T \in SUBSET Block,
           Good(s, T), index \in Index, Found(s, t, T, index),
           more = IF index = s.din.blocks THEN 1 ELSE 0, index <= s.din.blocks
    PROVE  Loads(s, Counted(t, more), T, index)
<1>1. /\ Core(t, T) /\ t \in Work /\ t.panic = "none" /\ t.entry \in Entries
      /\ t.din \in Inode /\ s.din \in Inode /\ s.entry \in Entries
      /\ s.din.blocks \in Nat /\ s.din.size \in Nat /\ index \in Nat
  BY DEF Found, Core, Good, Work, Inode, Index
<1>2. t.din.size = s.din.size /\ t.din.blocks = s.din.blocks
  BY DEF Found
<1>3. \A i \in Index : i # index =>
        (At(t.din, t.entry, i) = 0 <=> At(s.din, s.entry, i) = 0)
  BY DEF Found
<1>4. Sizes(s.din) /\ Filled(s.din, s.entry, s.din.blocks)
  BY DEF Good
<1>5. CASE ~t.ok
  <2>1. Counted(t, more) = t
    BY <1>5 DEF Counted
  <2>2. At(t.din, t.entry, index) = At(s.din, s.entry, index)
    BY <1>5 DEF Found
  <2>3. Filled(t.din, t.entry, t.din.blocks)
    BY <1>2, <1>3, <1>4, <2>2 DEF Filled
  <2>4. Sizes(t.din)
    BY <1>2, <1>4 DEF Sizes
  <2>5. Good(t, T)
    BY <1>1, <2>3, <2>4 DEF Good
  <2> QED  BY <1>1, <1>2, <1>5, <2>1, <2>5 DEF Loads, Found
<1>6. CASE t.ok
  <2> DEFINE v == More(t, more)
  <2>1. more \in Nat
    OBVIOUS
  <2>2. /\ v \in Work /\ v.freemap = t.freemap /\ v.unused = t.unused
        /\ v.data = t.data /\ v.entry = t.entry /\ v.dirty = t.dirty
        /\ v.ino = t.ino /\ v.ok = t.ok /\ v.panic = t.panic
        /\ v.alen = t.alen /\ v.buf = t.buf
        /\ v.din.size = t.din.size /\ v.din.direct = t.din.direct
        /\ v.din.indirect = t.din.indirect /\ v.din.blocks = t.din.blocks + more
    BY <1>1, <2>1, MoreFacts
  <2>3. index \in Key
    BY DEF Key
  <2>4. t.ino = At(t.din, t.entry, index) /\ t.ino # 0
    BY <1>6 DEF Found
  <2>5. t.ino \in Block
    BY <1>1, <2>3, <2>4, AtType
  <2>6. t.ino \notin t.freemap
    BY <1>1, <2>3, <2>4 DEF Core, Exact
  <2>7. Counted(t, more) = v
    <3>1. Counted(t, more) = Checked(v, sfs_block_inuse(t, t.ino), "sfs_block_inuse")
      BY <1>6, Zenon DEF Counted, More
    <3>2. sfs_block_inuse(t, t.ino)
      BY <2>5, <2>6 DEF sfs_block_inuse
    <3> QED  BY <3>1, <3>2, Zenon DEF Checked
  <2> HIDE DEF v
  <2>8. \A k : At(v.din, v.entry, k) = At(t.din, t.entry, k)
    BY <2>2, NamingAt DEF SameNaming
  <2>9. Exact(v.freemap, v.din, v.entry, T)
    BY <1>1, <2>2, <2>8 DEF Core, Exact
  <2>10. Core(v, T)
    BY <1>1, <2>2, <2>9 DEF Core
  <2>11. Filled(v.din, v.entry, v.din.blocks)
    BY <1>1, <1>2, <1>3, <1>4, <2>2, <2>4, <2>8 DEF Filled, Index
  <2>12. Sizes(v.din)
    <3>1. index <= NDIRECT + NENTRY - 1
      BY DEF Layout, Index
    <3>2. s.din.size <= s.din.blocks * BLKSIZE /\ s.din.blocks <= NDIRECT + NENTRY
      BY <1>4 DEF Sizes
    <3>3. CASE more = 0
      BY <1>1, <1>2, <2>2, <3>2, <3>3 DEF Sizes
    <3>4. CASE index = s.din.blocks /\ more = 1
      <4>1. (s.din.blocks + 1) * BLKSIZE = s.din.blocks * BLKSIZE + BLKSIZE
        BY <1>1 DEF Layout
      <4>2. s.din.blocks * BLKSIZE \in Nat
        BY <1>1 DEF Layout
      <4> QED  BY <1>1, <1>2, <2>2, <3>1, <3>2, <3>4, <4>1, <4>2, SMTT(30) DEF Sizes, Layout
    <3> QED  BY <3>3, <3>4
  <2>13. Good(v, T)
    BY <2>10, <2>11, <2>12 DEF Good
  <2>14. Keeps(s, v, T)
    BY <2>2 DEF Keeps, Found
  <2>15. SameBytes(s, v)
    BY <2>2, <2>8 DEF SameBytes, ByteAt, Found
  <2>16. Marked(s, v)
    <3>1. Marked(s, t)
      BY DEF Found
    <3>2. CASE more = 0
      BY <1>1, <3>1, <3>2, <2>2 DEF Marked, Inode
    <3>3. CASE more # 0 /\ index < NDIRECT
      <4>1. At(s.din, s.entry, index) = 0
        BY <1>4, <1>1, <3>3 DEF Filled
      <4>2. t.dirty
        BY <1>6, <3>3, <4>1 DEF Found
      <4> QED  BY <2>2, <4>2 DEF Marked
    <3>4. CASE more = 1 /\ index = s.din.blocks /\ ~(index < NDIRECT)
      <4>1. NDIRECT <= s.din.blocks /\ s.din.blocks <= v.din.blocks
        BY <1>1, <1>2, <2>2, <3>4 DEF Layout
      <4> QED  BY <2>2, <3>1, <4>1 DEF Marked
    <3> QED  BY <3>2, <3>3, <3>4
  <2>17. v.din.blocks = IF index = s.din.blocks THEN index + 1 ELSE s.din.blocks
    BY <1>1, <1>2, <2>2
  <2>18. /\ v \in Work /\ v.panic = "none" /\ v.ok
         /\ v.din.size = s.din.size /\ v.alen = s.alen /\ v.buf = s.buf
    BY <1>1, <1>2, <1>6, <2>2, Zenon DEF Found
  <2>19. v.ino = At(v.din, v.entry, index) /\ v.ino # 0
    BY <2>2, <2>4, <2>8, Zenon
  <2> QED
    BY <2>7, <2>13, <2>14, <2>15, <2>16, <2>17, <2>18, <2>19, Zenon DEF Loads
<1> QED  BY <1>5, <1>6

LEMMA PanicFacts ==
    ASSUME NEW s, NEW x, s \in Work, x \in Panic
    PROVE  LET p == [s EXCEPT !.panic = x, !.ok = FALSE]
           IN  p \in Work /\ p.panic = x /\ ~p.ok
BY DEF Work

LEMMA LoadFacts ==
    ASSUME NEW s, NEW T, NEW index, Layout, T \in SUBSET Block, Good(s, T), s.ok,
           index \in Nat, index <= s.din.blocks
    PROVE  Loads(s, sfs_bmap_load_nolock(s, index), T, index)
<1>1. /\ Core(s, T) /\ s \in Work /\ s.din \in Inode /\ s.entry \in Entries
      /\ s.din.blocks \in Nat /\ s.panic = "none"
  BY DEF Core, Good, Work, Inode
<1>2. Sizes(s.din) /\ Filled(s.din, s.entry, s.din.blocks)
  BY DEF Good
<1>5. ~(index > s.din.blocks)
  BY <1>1
<1>3. CASE index \in Index
  <2>1. CASE index = s.din.blocks
    <3>1. sfs_bmap_load_nolock(s, index) = Counted(sfs_bmap_get_nolock(s, index, TRUE), 1)
      BY <1>5, <2>1, Zenon DEF sfs_bmap_load_nolock
    <3> DEFINE t == sfs_bmap_get_nolock(s, index, TRUE)
    <3>2. Found(s, t, T, index)
      BY <1>1, <1>3, GetFound
    <3> HIDE DEF t
    <3>3. Loads(s, Counted(t, 1), T, index)
      BY <1>3, <2>1, <3>2, CountedLoads
    <3> QED  BY <3>1, <3>3 DEF t
  <2>2. CASE index # s.din.blocks
    <3>1. sfs_bmap_load_nolock(s, index) = Counted(sfs_bmap_get_nolock(s, index, FALSE), 0)
      BY <1>5, <2>2, Zenon DEF sfs_bmap_load_nolock
    <3> DEFINE t == sfs_bmap_get_nolock(s, index, FALSE)
    <3>2. At(s.din, s.entry, index) # 0
      BY <1>1, <1>2, <1>3, <2>2 DEF Filled
    <3>3. Found(s, t, T, index)
      BY <1>1, <1>3, <3>2, GetFound
    <3> HIDE DEF t
    <3>4. Loads(s, Counted(t, 0), T, index)
      BY <1>3, <2>2, <3>3, CountedLoads
    <3> QED  BY <3>1, <3>4 DEF t
  <2> QED  BY <2>1, <2>2
<1>4. CASE index \notin Index
  <2>1. index = s.din.blocks /\ index = NDIRECT + NENTRY
    BY <1>1, <1>2, <1>4 DEF Layout, Index, Sizes
  <2>2. index >= NDIRECT + NENTRY
    BY <2>1 DEF Layout
  <2> DEFINE p == [s EXCEPT !.panic = "sfs_bmap_get_nolock", !.ok = FALSE]
  <2>3. sfs_bmap_get_nolock(s, index, TRUE) = p
    BY <1>1, <2>2 DEF sfs_bmap_get_nolock, Checked
  <2>4. p \in Work /\ ~p.ok /\ p.panic = "sfs_bmap_get_nolock"
    BY <1>1, PanicFacts DEF Panic
  <2>5. sfs_bmap_load_nolock(s, index) = p
    <3> HIDE DEF p
    <3>1. Counted(p, 1) = p
      BY <2>4 DEF Counted
    <3> QED  BY <1>5, <2>1, <2>3, <3>1, Zenon DEF sfs_bmap_load_nolock
  <2>6. \A k \in Index : At(s.din, s.entry, k) # 0
    BY <1>2, <2>1 DEF Layout, Index, Filled
  <2>7. NBLK > NDIRECT + NENTRY
    BY <1>1, <2>6, FullFile DEF Core
  <2>8. p.panic \in Failing
    BY <2>4, <2>7 DEF Failing
  <2> HIDE DEF p
  <2> QED  BY <2>4, <2>5, <2>8 DEF Loads
<1> QED  BY <1>3, <1>4

-----------------------------------------------------------------------------
(* Giving the last block of a file back *)

\* What freeing the block k of a file does.
FreesName(s, t, T, k) ==
    /\ Core(t, T) /\ Keeps(s, t, T) /\ At(t.din, t.entry, k) = 0
    /\ \A i \in Index : i # k => At(t.din, t.entry, i) = At(s.din, s.entry, i)
    /\ \A i \in Index, j \in Offset : i # k => ByteAt(t, i, j) = ByteAt(s, i, j)
    /\ t.din.size = s.din.size /\ t.din.blocks = s.din.blocks
    /\ t.ok = s.ok /\ t.alen = s.alen /\ t.buf = s.buf

\* v gave the block b back, and in t it has lost its name k.
Unnamed(s, v, t, T, k, b) ==
    /\ T \in SUBSET Block /\ Core(s, T) /\ Gave(s, v, b) /\ b \in Block
    /\ k \in Index /\ At(s.din, s.entry, k) = b
    /\ t \in Work /\ t.freemap = v.freemap /\ t.unused = v.unused /\ t.data = v.data
    /\ t.panic = v.panic /\ t.ok = v.ok /\ t.alen = v.alen /\ t.buf = v.buf
    /\ At(t.din, t.entry, k) = 0
    /\ \A l \in Key : l # k => At(t.din, t.entry, l) = At(s.din, s.entry, l)
    /\ \A c \in T : t.entry[c] = s.entry[c]
    /\ t.din.size = s.din.size /\ t.din.blocks = s.din.blocks

LEMMA UnnamedFrees ==
    ASSUME NEW s, NEW v, NEW t, NEW T, NEW k, NEW b, Layout, Unnamed(s, v, t, T, k, b)
    PROVE  FreesName(s, t, T, k)
<1> USE DEF Unnamed
<1>1. /\ s \in Work /\ s.data \in Data /\ s.din \in Inode /\ s.entry \in Entries
      /\ s.freemap \subseteq Block /\ 0 \notin Block /\ b # 0 /\ k \in Key
  BY BlockType DEF Core, Work, Key
<1>2. Exact(s.freemap, s.din, s.entry, T)
  BY DEF Core
<1>3. b \notin T /\ \A l \in Index : l # k => At(s.din, s.entry, l) # b
  BY <1>1, <1>2 DEF Exact, Key
<1>4. \A c \in Block : c # b => t.data[c] = s.data[c]
  BY <1>1 DEF Gave, Data
<1>5. Exact(s.freemap \cup {b}, t.din, t.entry, T)
  <2>1. 0 \notin s.freemap \cup T
    BY <1>1
  <2>2. /\ At(s.din, s.entry, k) = b /\ At(t.din, t.entry, k) = 0
        /\ \A l \in Key : l # k => At(t.din, t.entry, l) = At(s.din, s.entry, l)
    OBVIOUS
  <2> QED  BY <1>1, <1>2, <2>1, <2>2, UnnameExact
<1>6. t.freemap = s.freemap \cup {b} /\ t.unused = Cardinality(t.freemap) /\ t.panic = s.panic
  BY DEF Gave
<1>7. Core(t, T)
  BY <1>5, <1>6 DEF Core
<1>8. Keeps(s, t, T)
  BY <1>3, <1>4 DEF Keeps
<1>9. \A i \in Index : i # k => At(t.din, t.entry, i) = At(s.din, s.entry, i)
  BY DEF Key
<1>10. ASSUME NEW i \in Index, NEW j \in Offset, i # k
       PROVE  ByteAt(t, i, j) = ByteAt(s, i, j)
  <2>1. i \in Key
    BY DEF Key
  <2>2. At(s.din, s.entry, i) # 0 => At(s.din, s.entry, i) \in Block
    BY <1>1, <2>1, AtType
  <2> QED  BY <1>3, <1>4, <1>9, <1>10, <2>2 DEF ByteAt
<1>11. t.ok = s.ok /\ t.alen = s.alen /\ t.buf = s.buf
  BY DEF Gave
<1> QED  BY <1>7, <1>8, <1>9, <1>10, <1>11 DEF FreesName

LEMMA FreeDirect ==
    ASSUME NEW s, NEW T, NEW k, NEW v, NEW t, NEW b, Layout, T \in SUBSET Block,
           Core(s, T), k \in 0..NDIRECT - 1, b = At(s.din, s.entry, k), b # 0,
           Gave(s, v, b), t = [v EXCEPT !.din.direct[k] = 0, !.dirty = TRUE]
    PROVE  FreesName(s, t, T, k)
<1>1. k \in Index /\ k \in Key /\ k # -1 /\ k < NDIRECT
  BY DirectIndex
<1>2. s.din \in Inode /\ s.entry \in Entries /\ 0 \in Number
  BY BlockType DEF Core, Work
<1>3. b \in Block
  BY <1>1, <1>2, AtType
<1>4. v \in Work /\ v.din = s.din /\ v.entry = s.entry
  BY DEF Gave
<1> DEFINE din2 == [s.din EXCEPT !.direct[k] = 0]
<1>5. s.din.direct \in [0..NDIRECT - 1 -> Number]
  BY <1>2 DEF Inode
<1>6. [s.din.direct EXCEPT ![k] = 0] \in [0..NDIRECT - 1 -> Number]
  BY <1>2, <1>5
<1>7. /\ din2 \in Inode /\ din2.size = s.din.size /\ din2.blocks = s.din.blocks
      /\ din2.indirect = s.din.indirect /\ din2.direct = [s.din.direct EXCEPT ![k] = 0]
  BY <1>2, <1>6 DEF Inode
<1>8. t = [v EXCEPT !.din = din2, !.dirty = TRUE]
  BY <1>4 DEF Work
<1> HIDE DEF din2
<1>9. /\ t \in Work /\ t.din = din2 /\ t.entry = s.entry
      /\ t.freemap = v.freemap /\ t.unused = v.unused /\ t.data = v.data
      /\ t.ok = v.ok /\ t.panic = v.panic /\ t.alen = v.alen /\ t.buf = v.buf
  BY <1>4, <1>7, <1>8 DEF Work
<1>10. /\ din2.direct[k] = 0
       /\ \A i \in 0..NDIRECT - 1 : i # k => din2.direct[i] = s.din.direct[i]
  BY <1>2, <1>5, <1>7
<1>11. At(t.din, t.entry, k) = 0
  BY <1>1, <1>9, <1>10 DEF At
<1>12. ASSUME NEW l \in Key, l # k
       PROVE  At(t.din, t.entry, l) = At(s.din, s.entry, l)
  <2>1. CASE l = -1
    BY <1>7, <1>9, <2>1 DEF At
  <2>2. CASE l \in 0..NDIRECT - 1
    <3>1. l # -1 /\ l < NDIRECT
      BY <2>2, DirectIndex
    <3> QED  BY <1>9, <1>10, <1>12, <2>2, <3>1 DEF At
  <2>3. CASE l # -1 /\ ~(l < NDIRECT)
    BY <1>7, <1>9, <2>3 DEF At
  <2> QED  BY <2>1, <2>2, <2>3, KeyCases
<1>13. Unnamed(s, v, t, T, k, b)
  BY <1>1, <1>3, <1>7, <1>9, <1>11, <1>12 DEF Unnamed
<1> QED  BY <1>13, UnnamedFrees

LEMMA FreeEntry ==
    ASSUME NEW s, NEW T, NEW index, NEW key, NEW v, NEW t, NEW b, NEW e, Layout,
           T \in SUBSET Block, Core(s, T), index \in Slot, key = EntryKey(index),
           b = At(s.din, s.entry, key), b # 0, e = s.din.indirect,
           Gave(s, v, b), t = [v EXCEPT !.entry[e][index] = 0]
    PROVE  FreesName(s, t, T, key)
<1>1. key \in Index /\ key \in Key /\ key # -1 /\ ~(key < NDIRECT) /\ key - NDIRECT = index
  BY DEF Layout, Key, Index, Slot, EntryKey
<1>2. s.din \in Inode /\ s.entry \in Entries /\ 0 \in Number
  BY BlockType DEF Core, Work
<1>3. b \in Block
  BY <1>1, <1>2, AtType
<1>4. v \in Work /\ v.din = s.din /\ v.entry = s.entry
  BY DEF Gave
<1>5. e # 0
  BY <1>1 DEF At
<1>6. e \in Block
  BY <1>2, <1>5, BlockType DEF Inode
<1>7. e \notin T
  <2>1. -1 \in Key /\ At(s.din, s.entry, -1) = e
    BY DEF Key, At
  <2> QED  BY <2>1 DEF Core, Exact
<1> DEFINE ent2 == [s.entry EXCEPT ![e] = [@ EXCEPT ![index] = 0]]
<1>8. s.entry[e] \in [Slot -> Number]
  BY <1>2, <1>6 DEF Entries
<1>9. [s.entry[e] EXCEPT ![index] = 0] \in [Slot -> Number]
  BY <1>2, <1>8
<1>10. /\ ent2 \in Entries /\ ent2[e] = [s.entry[e] EXCEPT ![index] = 0]
       /\ \A c \in Block : c # e => ent2[c] = s.entry[c]
  BY <1>2, <1>6, <1>9 DEF Entries
<1>11. t = [v EXCEPT !.entry = ent2]
  BY <1>4 DEF Work
<1> HIDE DEF ent2
<1>12. /\ t \in Work /\ t.din = s.din /\ t.entry = ent2
       /\ t.freemap = v.freemap /\ t.unused = v.unused /\ t.data = v.data
       /\ t.ok = v.ok /\ t.panic = v.panic /\ t.alen = v.alen /\ t.buf = v.buf
  BY <1>4, <1>10, <1>11 DEF Work
<1>13. ent2[e][index] = 0 /\ \A i \in Slot : i # index => ent2[e][i] = s.entry[e][i]
  BY <1>8, <1>10
<1>14. At(t.din, t.entry, key) = 0
  BY <1>1, <1>12, <1>13 DEF At
<1>15. ASSUME NEW l \in Key, l # key
       PROVE  At(t.din, t.entry, l) = At(s.din, s.entry, l)
  <2>1. CASE l = -1 \/ l < NDIRECT
    BY <1>12, <2>1 DEF At
  <2>2. CASE ~(l = -1 \/ l < NDIRECT)
    <3>1. l - NDIRECT \in Slot /\ l - NDIRECT # index
      BY <1>15, <2>2 DEF Layout, Key, Index, Slot, EntryKey
    <3> QED  BY <1>12, <1>13, <2>2, <3>1 DEF At
  <2> QED  BY <2>1, <2>2
<1>16. \A c \in T : t.entry[c] = s.entry[c]
  BY <1>7, <1>10, <1>12
<1>17. Unnamed(s, v, t, T, key, b)
  BY <1>1, <1>3, <1>12, <1>14, <1>15, <1>16 DEF Unnamed
<1> QED  BY <1>17, UnnamedFrees

LEMMA FreeFacts ==
    ASSUME NEW s, NEW T, NEW k, Layout, T \in SUBSET Block, Core(s, T), k \in Index,
           At(s.din, s.entry, k) # 0
    PROVE  FreesName(s, sfs_bmap_free_nolock(s, k), T, k)
<1> DEFINE b == At(s.din, s.entry, k)
           v == sfs_block_free(s, b)
<1>1. k \in Key /\ k # -1
  BY DEF Layout, Key, Index
<1>2. /\ s \in Work /\ s.panic = "none" /\ s.din \in Inode /\ s.entry \in Entries
      /\ s.unused = Cardinality(s.freemap) /\ Exact(s.freemap, s.din, s.entry, T)
  BY DEF Core, Work
<1>3. b \in Block /\ b \notin s.freemap
  BY <1>1, <1>2, AtType DEF Exact
<1>4. Gave(s, v, b)
  <2> HIDE DEF b
  <2> QED  BY <1>2, <1>3, FreeGives
<1>5. CASE k < NDIRECT
  <2> DEFINE t == [v EXCEPT !.din.direct[k] = 0, !.dirty = TRUE]
  <2>1. k \in 0..NDIRECT - 1
    BY <1>5 DEF Layout, Index
  <2>2. s.din.direct[k] = b
    BY <1>1, <1>5 DEF At
  <2>3. b # 0
    OBVIOUS
  <2> HIDE DEF b
  <2>4. sfs_bmap_free_nolock(s, k) = t
    BY <1>5, <2>2, <2>3 DEF sfs_bmap_free_nolock
  <2>5. FreesName(s, t, T, k)
    <3> HIDE DEF v
    <3> QED  BY <1>4, <2>1, <2>3, FreeDirect DEF b
  <2> QED  BY <2>4, <2>5
<1>6. CASE ~(k < NDIRECT)
  <2> DEFINE index == k - NDIRECT
             e == s.din.indirect
             t == [v EXCEPT !.entry[e][index] = 0]
  <2>1. index \in Slot /\ k = EntryKey(index)
    BY <1>6 DEF Layout, Index, Slot, EntryKey
  <2>2. e # 0 /\ b = s.entry[e][index]
    BY <1>1, <1>6 DEF At
  <2>3. b # 0
    OBVIOUS
  <2>4. e \in Block /\ e \notin s.freemap
    <3>1. -1 \in Key /\ At(s.din, s.entry, -1) = e
      BY DEF Key, At
    <3> QED  BY <1>2, <2>2, <3>1, AtType DEF Exact
  <2>5. Checked(s, sfs_block_inuse(s, e), "sfs_bmap_free_sub_nolock") = s
    BY <2>4 DEF sfs_block_inuse, Checked
  <2> HIDE DEF b
  <2>6. sfs_bmap_free_nolock(s, k) = t
    BY <1>6, <2>2, <2>3, <2>5 DEF sfs_bmap_free_nolock
  <2>7. FreesName(s, t, T, k)
    <3> HIDE DEF v, index
    <3> QED  BY <1>4, <2>1, <2>3, FreeEntry DEF b
  <2> QED  BY <2>6, <2>7
<1> QED  BY <1>5, <1>6

\* Less than a whole file, on the way to another size: nothing is said of size.
Part(s, T) ==
    /\ Core(s, T) /\ Filled(s.din, s.entry, s.din.blocks)
    /\ s.din.blocks <= NDIRECT + NENTRY

\* The last block of the file is given back.
Cuts(s, t, T) ==
    /\ Part(t, T) /\ Keeps(s, t, T) /\ t.dirty
    /\ t.din.size = s.din.size /\ t.din.blocks = s.din.blocks - 1
    /\ \A i \in Index, j \in Offset :
         ByteAt(t, i, j) = IF i = s.din.blocks - 1 THEN 0 ELSE ByteAt(s, i, j)
    /\ t.ok = s.ok /\ t.alen = s.alen /\ t.buf = s.buf

LEMMA TruncateFacts ==
    ASSUME NEW s, NEW T, Layout, T \in SUBSET Block, Part(s, T), s.din.blocks > 0
    PROVE  Cuts(s, sfs_bmap_truncate_nolock(s), T)
<1> DEFINE k == s.din.blocks - 1
           v == sfs_bmap_free_nolock(s, k)
           din2 == [v.din EXCEPT !.blocks = @ - 1]
           t == [v EXCEPT !.din.blocks = @ - 1, !.dirty = TRUE]
<1>1. s.din.blocks \in Nat
  BY DEF Part, Core, Work, Inode
<1>2. k \in Index /\ k < s.din.blocks
  BY <1>1 DEF Layout, Part, Index
<1>3. At(s.din, s.entry, k) # 0
  BY <1>2 DEF Part, Filled
<1>4. FreesName(s, v, T, k)
  <2> HIDE DEF k
  <2> QED  BY <1>2, <1>3, FreeFacts DEF Part
<1>5. sfs_bmap_truncate_nolock(s) = t
  BY DEF sfs_bmap_truncate_nolock
<1> HIDE DEF v
<1>6. v \in Work /\ v.din \in Inode /\ v.din.blocks = s.din.blocks /\ v.din.size = s.din.size
  BY <1>4 DEF FreesName, Core, Work
<1>7. /\ din2 \in Inode /\ din2.size = v.din.size /\ din2.direct = v.din.direct
      /\ din2.indirect = v.din.indirect /\ din2.blocks = v.din.blocks - 1
  BY <1>1, <1>6 DEF Inode
<1>8. t = [v EXCEPT !.din = din2, !.dirty = TRUE]
  BY <1>6 DEF Work
<1> HIDE DEF din2, t
<1>9. /\ t \in Work /\ t.din = din2 /\ t.dirty /\ t.entry = v.entry /\ t.data = v.data
      /\ t.freemap = v.freemap /\ t.unused = v.unused /\ t.panic = v.panic
      /\ t.ok = v.ok /\ t.alen = v.alen /\ t.buf = v.buf
  BY <1>6, <1>7, <1>8 DEF Work
<1>10. \A i : At(t.din, t.entry, i) = At(v.din, v.entry, i)
  BY <1>7, <1>9, NamingAt DEF SameNaming
<1>11. Core(t, T)
  BY <1>4, <1>9, <1>10 DEF FreesName, Core, Exact
<1>12. Filled(t.din, t.entry, t.din.blocks)
  <2>1. \A i \in Index : At(t.din, t.entry, i) = IF i = k THEN 0 ELSE At(s.din, s.entry, i)
    BY <1>4, <1>10 DEF FreesName
  <2>2. t.din.blocks = s.din.blocks - 1
    BY <1>6, <1>7, <1>9
  <2> QED  BY <1>1, <2>1, <2>2 DEF Part, Filled, Index
<1>13. t.din.size = s.din.size /\ t.din.blocks = s.din.blocks - 1
  BY <1>6, <1>7, <1>9
<1>14. Part(t, T)
  BY <1>1, <1>11, <1>12, <1>13 DEF Layout, Part
<1>15. Keeps(s, t, T)
  BY <1>4, <1>9 DEF FreesName, Keeps
<1>16. ASSUME NEW i \in Index, NEW j \in Offset
       PROVE  ByteAt(t, i, j) = IF i = k THEN 0 ELSE ByteAt(s, i, j)
  <2>1. ByteAt(t, i, j) = ByteAt(v, i, j)
    BY <1>9, <1>10 DEF ByteAt
  <2>2. CASE i = k
    BY <2>1, <2>2, <1>4 DEF FreesName, ByteAt
  <2>3. CASE i # k
    BY <2>1, <2>3, <1>4 DEF FreesName
  <2> QED  BY <2>2, <2>3
<1>17. t.ok = s.ok /\ t.alen = s.alen /\ t.buf = s.buf
  BY <1>4, <1>9 DEF FreesName
<1> QED  BY <1>5, <1>9, <1>13, <1>14, <1>15, <1>16, <1>17 DEF Cuts

-----------------------------------------------------------------------------
(* Loops. A loop is a fold over a sequence; what a fold is defined by is a  *)
(* function on sets of positions, which takes its turn for the last of them. *)

LEMMA LastOf ==
    ASSUME NEW n \in Nat, NEW S, S \in SUBSET (1..n + 1)
    PROVE  /\ n + 1 \in S => /\ S # {} /\ Max(S) = n + 1
                             /\ S \ {n + 1} \in SUBSET (1..n)
                             /\ n + 1 \notin S \ {n + 1}
           /\ n + 1 \notin S => /\ S \in SUBSET (1..n)
                                /\ S \ {Max(S)} \in SUBSET (1..n)
                                /\ n + 1 \notin S \ {Max(S)}
<1>1. n + 1 \in S => Max(S) = n + 1
  <2> SUFFICES ASSUME n + 1 \in S  PROVE Max(S) = n + 1
    OBVIOUS
  <2>1. \A y \in S : n + 1 >= y
    OBVIOUS
  <2>2. \A x \in S : (\A y \in S : x >= y) => x = n + 1
    OBVIOUS
  <2> QED  BY <2>1, <2>2 DEF Max
<1>2. n + 1 \in S => S \ {n + 1} \in SUBSET (1..n)
  OBVIOUS
<1>3. n + 1 \notin S => S \in SUBSET (1..n)
  OBVIOUS
<1> DEFINE m == Max(S)
<1> HIDE DEF m
<1>4. n + 1 \notin S => S \ {m} \in SUBSET (1..n) /\ n + 1 \notin S \ {m}
  BY <1>3
<1> QED  BY <1>1, <1>2, <1>3, <1>4 DEF m

LEMMA LastTo ==
    ASSUME NEW n \in Nat, NEW k \in 1..n
    PROVE  /\ 1..k \in SUBSET (1..n) /\ 1..k - 1 \in SUBSET (1..n) /\ 1..k # {}
           /\ (1..k) \ {Max(1..k)} = 1..k - 1 /\ Max(1..k) = k
<1>1. Max(1..k) = k
  <2>1. k \in 1..k /\ \A y \in 1..k : k >= y
    OBVIOUS
  <2>2. \A x \in 1..k : (\A y \in 1..k : x >= y) => x = k
    OBVIOUS
  <2> QED  BY <2>1, <2>2 DEF Max
<1> QED  BY <1>1

EnlargeTurn(t, i) == IF t.ok THEN sfs_bmap_load_nolock(t, i) ELSE t

ReduceTurn(t) == IF t.ok THEN sfs_bmap_truncate_nolock(t) ELSE t

\* One turn of any of the loops.
Turn(t, x, how, w) ==
    IF how = "enlarge" THEN EnlargeTurn(t, x)
    ELSE IF how = "reduce" THEN ReduceTurn(t)
    ELSE IoPart(t, x, w, how = "write")

Over(g, s, seq, n, how, w) ==
    g = [S \in SUBSET (1..n) |->
           IF S = {} THEN s ELSE Turn(g[S \ {Max(S)}], seq[Max(S)], how, w)]

\* f are the values the loop goes through.
Run(f, s, seq, n, how, w) ==
    f[0] = s /\ \A k \in 1..n : f[k] = Turn(f[k - 1], seq[k], how, w)

\* There is a function that goes through all turns.
LEMMA OverAll ==
    ASSUME NEW s, NEW seq, NEW n \in Nat, NEW how, NEW w
    PROVE  \E g : Over(g, s, seq, n, how, w)
<1> DEFINE N == {m \in Nat : \E g : Over(g, s, seq, m, how, w)}
<1>1. 0 \in N
  <2> DEFINE g == [S \in SUBSET (1..0) |-> s]
  <2>1. SUBSET (1..0) = {{}}
    OBVIOUS
  <2>2. Over(g, s, seq, 0, how, w)
    BY <2>1 DEF Over
  <2> QED  BY <2>2
<1>2. ASSUME NEW m \in Nat, m \in N  PROVE m + 1 \in N
  <2>1. PICK g : Over(g, s, seq, m, how, w)
    BY <1>2
  <2> DEFINE h == [S \in SUBSET (1..m + 1) |->
                     IF m + 1 \in S THEN Turn(g[S \ {m + 1}], seq[m + 1], how, w) ELSE g[S]]
             h2 == [S \in SUBSET (1..m + 1) |->
                      IF S = {} THEN s ELSE Turn(h[S \ {Max(S)}], seq[Max(S)], how, w)]
  <2>2. ASSUME NEW S \in SUBSET (1..m + 1)  PROVE h[S] = h2[S]
    <3>1. CASE m + 1 \in S
      <4>1. S # {} /\ Max(S) = m + 1 /\ S \ {m + 1} \in SUBSET (1..m + 1)
            /\ S \ {m + 1} \in SUBSET (1..m) /\ m + 1 \notin S \ {m + 1}
        BY <3>1, LastOf
      <4>2. h[S \ {m + 1}] = g[S \ {m + 1}]
        BY <4>1
      <4> QED  BY <3>1, <4>1, <4>2
    <3>2. CASE m + 1 \notin S
      <4>1. S \in SUBSET (1..m) /\ S \ {Max(S)} \in SUBSET (1..m)
            /\ S \ {Max(S)} \in SUBSET (1..m + 1) /\ m + 1 \notin S \ {Max(S)}
        BY <3>2, LastOf
      <4>2. h[S \ {Max(S)}] = g[S \ {Max(S)}]
        BY <4>1
      <4>3. g[S] = IF S = {} THEN s ELSE Turn(g[S \ {Max(S)}], seq[Max(S)], how, w)
        BY <2>1, <4>1 DEF Over
      <4> QED  BY <3>2, <4>2, <4>3
    <3> QED  BY <3>1, <3>2
  <2>3. h = h2
    <3>1. h = [S \in SUBSET (1..m + 1) |-> h[S]] /\ h2 = [S \in SUBSET (1..m + 1) |-> h2[S]]
      OBVIOUS
    <3> HIDE DEF h, h2
    <3> QED  BY <2>2, <3>1
  <2>4. Over(h, s, seq, m + 1, how, w)
    <3> HIDE DEF h
    <3> QED  BY <2>3 DEF Over
  <2> HIDE DEF h
  <2> QED  BY <2>4
<1>3. Nat \subseteq N
  <2> HIDE DEF N
  <2> QED  BY <1>1, <1>2, Induction
<1> QED  BY <1>3

\* Its values on the first positions are those the loop goes through.
LEMMA OverRuns ==
    ASSUME NEW it, NEW s, NEW seq, NEW n \in Nat, NEW how, NEW w,
           Over(it, s, seq, n, how, w)
    PROVE  \E f : Run(f, s, seq, n, how, w) /\ f[n] = it[1..n]
<1> DEFINE f == [k \in 0..n |-> it[1..k]]
<1>1. f[0] = s
  <2>1. 1..0 = {} /\ {} \in SUBSET (1..n)
    OBVIOUS
  <2>2. it[{}] = s
    BY <2>1 DEF Over
  <2> QED  BY <2>1, <2>2
<1>2. ASSUME NEW k \in 1..n  PROVE f[k] = Turn(f[k - 1], seq[k], how, w)
  <2>1. /\ 1..k \in SUBSET (1..n) /\ 1..k # {}
        /\ (1..k) \ {Max(1..k)} = 1..k - 1 /\ Max(1..k) = k
    BY LastTo
  <2>2. it[1..k] = Turn(it[(1..k) \ {Max(1..k)}], seq[Max(1..k)], how, w)
    BY <2>1 DEF Over
  <2>3. it[1..k] = Turn(it[1..k - 1], seq[k], how, w)
    BY <2>1, <2>2
  <2>4. f[k] = it[1..k] /\ f[k - 1] = it[1..k - 1]
    OBVIOUS
  <2> QED  BY <2>3, <2>4
<1>3. f[n] = it[1..n]
  OBVIOUS
<1> HIDE DEF f
<1> QED  BY <1>1, <1>2, <1>3 DEF Run

LEMMA EnlargeRun ==
    ASSUME NEW s, NEW seq, NEW n \in Nat, DOMAIN seq = 1..n
    PROVE  \E f : /\ Run(f, s, seq, n, "enlarge", 0)
                  /\ f[n] = FoldLeft(LAMBDA t, i : IF t.ok THEN sfs_bmap_load_nolock(t, i) ELSE t,
                                     s, seq)
<1> DEFINE Goes(g) ==
             g = [S \in SUBSET (1..n) |->
                    IF S = {} THEN s ELSE EnlargeTurn(g[S \ {Max(S)}], seq[Max(S)])]
           it == CHOOSE g : Goes(g)
<1>1. \A g : Over(g, s, seq, n, "enlarge", 0) <=> Goes(g)
  BY DEF Over, Turn
<1>2. Over(it, s, seq, n, "enlarge", 0)
  <2> HIDE DEF Goes
  <2> QED  BY <1>1, OverAll
<1>3. it[1..n] = FoldLeft(LAMBDA t, i : IF t.ok THEN sfs_bmap_load_nolock(t, i) ELSE t, s, seq)
  BY DEF FoldLeft, MapThenFoldSet, EnlargeTurn
<1> HIDE DEF it
<1>4. \E f : Run(f, s, seq, n, "enlarge", 0) /\ f[n] = it[1..n]
  BY <1>2, OverRuns
<1> QED  BY <1>3, <1>4, Zenon

LEMMA ReduceRun ==
    ASSUME NEW s, NEW seq, NEW n \in Nat, DOMAIN seq = 1..n
    PROVE  \E f : /\ Run(f, s, seq, n, "reduce", 0)
                  /\ f[n] = FoldLeft(LAMBDA t, i : IF t.ok THEN sfs_bmap_truncate_nolock(t) ELSE t,
                                     s, seq)
<1> DEFINE Goes(g) ==
             g = [S \in SUBSET (1..n) |->
                    IF S = {} THEN s ELSE ReduceTurn(g[S \ {Max(S)}])]
           it == CHOOSE g : Goes(g)
<1>1. \A g : Over(g, s, seq, n, "reduce", 0) <=> Goes(g)
  BY DEF Over, Turn
<1>2. Over(it, s, seq, n, "reduce", 0)
  <2> HIDE DEF Goes
  <2> QED  BY <1>1, OverAll
<1>3. it[1..n] = FoldLeft(LAMBDA t, i : IF t.ok THEN sfs_bmap_truncate_nolock(t) ELSE t, s, seq)
  BY DEF FoldLeft, MapThenFoldSet, ReduceTurn
<1> HIDE DEF it
<1>4. \E f : Run(f, s, seq, n, "reduce", 0) /\ f[n] = it[1..n]
  BY <1>2, OverRuns
<1> QED  BY <1>3, <1>4, Zenon

IoFold(s, seq, w, how) == FoldLeft(LAMBDA t, p : IoPart(t, p, w, how = "write"), s, seq)

LEMMA IoRun ==
    ASSUME NEW s, NEW seq, NEW n \in Nat, DOMAIN seq = 1..n, NEW w, NEW how,
           how \in {"read", "write"}
    PROVE  \E f : Run(f, s, seq, n, how, w) /\ f[n] = IoFold(s, seq, w, how)
<1> DEFINE Goes(g) ==
             g = [S \in SUBSET (1..n) |->
                    IF S = {} THEN s
                    ELSE IoPart(g[S \ {Max(S)}], seq[Max(S)], w, how = "write")]
           it == CHOOSE g : Goes(g)
<1>1. \A g : Over(g, s, seq, n, how, w) <=> Goes(g)
  BY DEF Over, Turn
<1>2. Over(it, s, seq, n, how, w)
  <2> HIDE DEF Goes
  <2> QED  BY <1>1, OverAll
<1>3. it[1..n] = FoldLeft(LAMBDA t, p : IoPart(t, p, w, how = "write"), s, seq)
  BY DEF FoldLeft, MapThenFoldSet
<1> HIDE DEF it
<1>4. \E f : Run(f, s, seq, n, how, w) /\ f[n] = it[1..n]
  BY <1>2, OverRuns
<1>5. it[1..n] = IoFold(s, seq, w, how)
  BY <1>3, Zenon DEF IoFold
<1> QED  BY <1>4, <1>5

-----------------------------------------------------------------------------
(* Lengthening and shortening a file *)

LEMMA MarkedSame ==
    ASSUME NEW s
    PROVE  Marked(s, s)
BY DEF Marked

LEMMA MarkedOn ==
    ASSUME NEW s, NEW t, NEW u, Layout, Marked(s, t), Marked(t, u),
           s \in Work, t \in Work, u \in Work
    PROVE  Marked(s, u)
BY SMTT(30) DEF Layout, Marked, Work, Inode

LEMMA KeepsOn ==
    ASSUME NEW s, NEW t, NEW u, NEW T, Keeps(s, t, T), Keeps(t, u, T)
    PROVE  Keeps(s, u, T)
BY DEF Keeps

LEMMA BytesOn ==
    ASSUME NEW s, NEW t, NEW u, SameBytes(s, t), SameBytes(t, u)
    PROVE  SameBytes(s, u)
BY DEF SameBytes

\* What s has become by lengthening; m blocks, if all went well so far.
Enlarges(s, t, T, m) ==
    /\ t \in Work
    /\ \/ /\ t.panic = "none" /\ Good(t, T)
          /\ Keeps(s, t, T) /\ SameBytes(s, t) /\ Marked(s, t)
          /\ t.din.size = s.din.size /\ t.alen = s.alen /\ t.buf = s.buf
          /\ t.ok => t.din.blocks = m
       \/ ~t.ok /\ t.panic \in Failing

LEMMA EnlargeStep ==
    ASSUME NEW s, NEW t, NEW T, NEW m, Layout, T \in SUBSET Block, s \in Work,
           m \in Nat, Enlarges(s, t, T, m)
    PROVE  Enlarges(s, EnlargeTurn(t, m), T, m + 1)
<1>1. CASE ~t.ok
  BY <1>1 DEF EnlargeTurn, Enlarges
<1>2. CASE t.ok
  <2> DEFINE u == sfs_bmap_load_nolock(t, m)
  <2>1. EnlargeTurn(t, m) = u
    BY <1>2 DEF EnlargeTurn
  <2>2. /\ t \in Work /\ t.panic = "none" /\ Good(t, T)
        /\ Keeps(s, t, T) /\ SameBytes(s, t) /\ Marked(s, t)
        /\ t.din.size = s.din.size /\ t.din.blocks = m
        /\ t.alen = s.alen /\ t.buf = s.buf
    BY <1>2 DEF Enlarges
  <2>3. Loads(t, u, T, m)
    BY <1>2, <2>2, LoadFacts
  <2> HIDE DEF u
  <2>4. CASE ~u.ok /\ u.panic \in Failing
    BY <2>1, <2>3, <2>4 DEF Loads, Enlarges
  <2>5. CASE ~(~u.ok /\ u.panic \in Failing)
    <3>1. /\ u.panic = "none" /\ Good(u, T) /\ u \in Work
          /\ Keeps(t, u, T) /\ SameBytes(t, u) /\ Marked(t, u)
          /\ u.din.size = t.din.size /\ u.alen = t.alen /\ u.buf = t.buf
          /\ u.ok => u.din.blocks = m + 1
      BY <2>2, <2>3, <2>5 DEF Loads
    <3>2. Keeps(s, u, T)
      BY <2>2, <3>1, KeepsOn
    <3>3. SameBytes(s, u)
      BY <2>2, <3>1, BytesOn
    <3>4. Marked(s, u)
      BY <2>2, <3>1, MarkedOn
    <3> QED  BY <2>1, <2>2, <3>1, <3>2, <3>3, <3>4 DEF Enlarges
  <2> QED  BY <2>4, <2>5
<1> QED  BY <1>1, <1>2

LEMMA EnlargedFacts ==
    ASSUME NEW s, NEW T, NEW tblks, Layout, T \in SUBSET Block, Good(s, T), s.ok,
           tblks \in Nat
    PROVE  Enlarges(s, Enlarged(s, tblks), T,
                    IF s.din.blocks < tblks THEN tblks ELSE s.din.blocks)
<1> DEFINE b == s.din.blocks
           seq == [k \in 1..tblks - b |-> b + k - 1]
           n == IF b < tblks THEN tblks - b ELSE 0
<1>1. b \in Nat /\ s \in Work /\ s.panic = "none"
  BY DEF Good, Core, Work, Inode
<1>2. n \in Nat /\ DOMAIN seq = 1..n /\ \A k \in 1..n : seq[k] = b + k - 1
  BY <1>1
<1>3. PICK f : Run(f, s, seq, n, "enlarge", 0) /\ f[n] = Enlarged(s, tblks)
  <2> HIDE DEF n, seq
  <2>1. \E f : /\ Run(f, s, seq, n, "enlarge", 0)
               /\ f[n] = FoldLeft(LAMBDA t, i : IF t.ok THEN sfs_bmap_load_nolock(t, i) ELSE t,
                                  s, seq)
    BY <1>2, EnlargeRun
  <2> QED  BY <2>1, Zenon DEF Enlarged, seq
<1> HIDE DEF n, seq
<1> DEFINE N == {k \in Nat : k <= n => Enlarges(s, f[k], T, b + k)}
<1>4. 0 \in N
  <2>1. f[0] = s
    BY <1>3 DEF Run
  <2>2. Keeps(s, s, T) /\ SameBytes(s, s) /\ Marked(s, s)
    BY MarkedSame DEF Keeps, SameBytes
  <2> QED  BY <1>1, <2>1, <2>2 DEF Enlarges
<1>5. ASSUME NEW k \in Nat, k \in N  PROVE k + 1 \in N
  <2> SUFFICES ASSUME k + 1 <= n  PROVE Enlarges(s, f[k + 1], T, b + (k + 1))
    OBVIOUS
  <2>1. k + 1 \in 1..n /\ k <= n /\ (k + 1) - 1 = k /\ b + (k + 1) - 1 = b + k
        /\ b + k \in Nat /\ b + (k + 1) = (b + k) + 1
    <3> HIDE DEF b, N
    <3> QED  BY <1>1, <1>2
  <2>2. f[k + 1] = EnlargeTurn(f[k], b + k)
    BY <1>2, <1>3, <2>1 DEF Run, Turn
  <2>3. Enlarges(s, f[k], T, b + k)
    BY <1>5, <2>1
  <2>4. Enlarges(s, EnlargeTurn(f[k], b + k), T, (b + k) + 1)
    BY <1>1, <2>1, <2>3, EnlargeStep
  <2> QED  BY <2>1, <2>2, <2>4
<1>6. Nat \subseteq N
  <2> HIDE DEF N
  <2> QED  BY <1>4, <1>5, Induction
<1>7. Enlarges(s, f[n], T, b + n)
  BY <1>2, <1>6
<1>8. b + n = IF b < tblks THEN tblks ELSE b
  BY <1>1 DEF n
<1> QED  BY <1>3, <1>7, <1>8

\* What s has become by shortening to m blocks.
Reduces(s, t, T, m) ==
    /\ Part(t, T) /\ Keeps(s, t, T) /\ t.ok
    /\ t.din.size = s.din.size /\ t.din.blocks = m
    /\ m # s.din.blocks => t.dirty
    /\ m = s.din.blocks => Marked(s, t)
    /\ \A i \in Index, j \in Offset :
         ByteAt(t, i, j) = IF m <= i /\ i < s.din.blocks THEN 0 ELSE ByteAt(s, i, j)

LEMMA ReduceStep ==
    ASSUME NEW s, NEW t, NEW T, NEW m, Layout, T \in SUBSET Block, s \in Work,
           m \in Nat, m + 1 <= s.din.blocks, Reduces(s, t, T, m + 1)
    PROVE  Reduces(s, ReduceTurn(t), T, m)
<1> DEFINE u == sfs_bmap_truncate_nolock(t)
<1>1. s.din.blocks \in Nat
  BY DEF Work, Inode
<1>2. ReduceTurn(t) = u
  BY DEF ReduceTurn, Reduces
<1>3. Part(t, T) /\ t.din.blocks = m + 1 /\ t.din.blocks > 0
  BY DEF Reduces
<1>4. Cuts(t, u, T)
  BY <1>3, TruncateFacts
<1> HIDE DEF u
<1>5. /\ Part(u, T) /\ Keeps(t, u, T) /\ u.dirty
      /\ u.din.size = t.din.size /\ u.din.blocks = m /\ u.ok = t.ok
  BY <1>3, <1>4 DEF Cuts
<1>6. Keeps(s, u, T)
  BY <1>5, KeepsOn DEF Reduces
<1>7. ASSUME NEW i \in Index, NEW j \in Offset
      PROVE  ByteAt(u, i, j) = IF m <= i /\ i < s.din.blocks THEN 0 ELSE ByteAt(s, i, j)
  <2>1. ByteAt(u, i, j) = IF i = m THEN 0 ELSE ByteAt(t, i, j)
    BY <1>3, <1>4 DEF Cuts
  <2>2. ByteAt(t, i, j) = IF m + 1 <= i /\ i < s.din.blocks THEN 0 ELSE ByteAt(s, i, j)
    BY DEF Reduces
  <2>3. i \in Int
    BY DEF Index
  <2> QED  BY <1>1, <2>1, <2>2, <2>3
<1>8. m # s.din.blocks
  BY <1>1
<1> QED  BY <1>2, <1>5, <1>6, <1>7, <1>8 DEF Reduces

LEMMA ReducedFacts ==
    ASSUME NEW s, NEW T, NEW tblks, Layout, T \in SUBSET Block, Part(s, T), s.ok,
           tblks \in Nat, tblks <= s.din.blocks
    PROVE  Reduces(s, Reduced(s, tblks), T, tblks)
<1> DEFINE b == s.din.blocks
           n == b - tblks
           seq == [k \in 1..n |-> k]
<1>1. b \in Nat /\ s \in Work
  BY DEF Part, Core, Work, Inode
<1>2. n \in Nat /\ DOMAIN seq = 1..n /\ b - n = tblks
  BY <1>1
<1>3. PICK f : Run(f, s, seq, n, "reduce", 0) /\ f[n] = Reduced(s, tblks)
  <2>1. \E f : /\ Run(f, s, seq, n, "reduce", 0)
               /\ f[n] = FoldLeft(LAMBDA t, i : IF t.ok THEN sfs_bmap_truncate_nolock(t) ELSE t,
                                  s, seq)
    <3> HIDE DEF n, seq
    <3> QED  BY <1>2, ReduceRun
  <2> HIDE DEF n, seq
  <2> QED  BY <2>1, Zenon DEF Reduced, seq, n
<1> HIDE DEF n, seq
<1> DEFINE N == {k \in Nat : k <= n => Reduces(s, f[k], T, b - k)}
<1>4. 0 \in N
  <2>1. f[0] = s
    BY <1>3 DEF Run
  <2>2. Keeps(s, s, T) /\ Marked(s, s)
    BY MarkedSame DEF Keeps
  <2>3. \A i \in Index : ~(b <= i /\ i < b)
    BY <1>1 DEF Index
  <2>4. Reduces(s, s, T, b)
    BY <2>2, <2>3 DEF Reduces
  <2> HIDE DEF b
  <2> QED  BY <1>1, <2>1, <2>4
<1>5. ASSUME NEW k \in Nat, k \in N  PROVE k + 1 \in N
  <2> SUFFICES ASSUME k + 1 <= n  PROVE Reduces(s, f[k + 1], T, b - (k + 1))
    OBVIOUS
  <2> DEFINE m == b - (k + 1)
  <2>1. k + 1 \in 1..n /\ k <= n /\ (k + 1) - 1 = k /\ m \in Nat /\ m + 1 = b - k /\ m + 1 <= b
    <3> HIDE DEF b, N
    <3> QED  BY <1>1, <1>2
  <2>2. f[k + 1] = ReduceTurn(f[k])
    BY <1>3, <2>1 DEF Run, Turn
  <2>3. Reduces(s, f[k], T, m + 1)
    BY <1>5, <2>1
  <2> HIDE DEF m, N
  <2>4. Reduces(s, ReduceTurn(f[k]), T, m)
    BY <1>1, <2>1, <2>3, ReduceStep
  <2> QED  BY <2>2, <2>4 DEF m
<1>6. Nat \subseteq N
  <2> HIDE DEF N
  <2> QED  BY <1>4, <1>5, Induction
<1>7. Reduces(s, f[n], T, b - n)
  BY <1>2, <1>6
<1> QED  BY <1>2, <1>3, <1>7

LEMMA ReducedFailed ==
    ASSUME NEW s, NEW tblks, Layout, s \in Work, ~s.ok, tblks \in Nat
    PROVE  Reduced(s, tblks) = s
<1> DEFINE b == s.din.blocks
           seq == [k \in 1..b - tblks |-> k]
           n == IF tblks <= b THEN b - tblks ELSE 0
<1>1. b \in Nat
  BY DEF Work, Inode
<1>2. n \in Nat /\ DOMAIN seq = 1..n
  BY <1>1
<1>3. PICK f : Run(f, s, seq, n, "reduce", 0) /\ f[n] = Reduced(s, tblks)
  <2> HIDE DEF n, seq
  <2>1. \E f : /\ Run(f, s, seq, n, "reduce", 0)
               /\ f[n] = FoldLeft(LAMBDA t, i : IF t.ok THEN sfs_bmap_truncate_nolock(t) ELSE t,
                                  s, seq)
    BY <1>2, ReduceRun
  <2> QED  BY <2>1, Zenon DEF Reduced, seq
<1> HIDE DEF n, seq
<1> DEFINE N == {k \in Nat : k <= n => f[k] = s}
<1>4. 0 \in N
  BY <1>3 DEF Run
<1>5. ASSUME NEW k \in Nat, k \in N  PROVE k + 1 \in N
  <2> SUFFICES ASSUME k + 1 <= n  PROVE f[k + 1] = s
    OBVIOUS
  <2>1. k + 1 \in 1..n /\ k <= n /\ (k + 1) - 1 = k
    <3> HIDE DEF b
    <3> QED  BY <1>1, <1>2
  <2>2. f[k + 1] = ReduceTurn(f[k])
    BY <1>3, <2>1 DEF Run, Turn
  <2> QED  BY <1>5, <2>1, <2>2 DEF ReduceTurn
<1>6. Nat \subseteq N
  <2> HIDE DEF N
  <2> QED  BY <1>4, <1>5, Induction
<1> QED  BY <1>2, <1>3, <1>6

LEMMA Divided ==
    ASSUME NEW N \in Nat \ {0}, NEW x \in Nat
    PROVE  x \div N \in Nat /\ x % N \in 0..N - 1 /\ x = (x \div N) * N + (x % N)
<1>1. x \div N \in Nat
  OBVIOUS
<1>2. x % N \in 0..N - 1
  OBVIOUS
<1>3. x = (x \div N) * N + (x % N)
  OBVIOUS
<1> QED  BY <1>1, <1>2, <1>3

\* The quotient and the remainder are what they are written as.
LEMMA DivideAs ==
    ASSUME NEW N \in Nat \ {0}, NEW q \in Nat, NEW r \in 0..N - 1
    PROVE  (q * N + r) \div N = q /\ (q * N + r) % N = r
<1> DEFINE x == q * N + r
<1>1. x \in Nat /\ x = q * N + r
  OBVIOUS
<1> HIDE DEF x
<1>2. x \div N = q
  BY <1>1
<1>3. x % N = r
  BY <1>1
<1> QED  BY <1>2, <1>3 DEF x

LEMMA RoundedUp ==
    ASSUME NEW len \in Nat, Layout
    PROVE  /\ ROUNDUP_DIV(len) \in Nat
           /\ len <= ROUNDUP_DIV(len) * BLKSIZE
           /\ len = 0 => ROUNDUP_DIV(len) = 0
<1> DEFINE x == len + BLKSIZE - 1
           q == x \div BLKSIZE
<1>1. BLKSIZE \in Nat \ {0}
  BY DEF Layout
<1>2. x \in Nat
  BY <1>1
<1>3. q \in Nat /\ x % BLKSIZE \in 0..BLKSIZE - 1 /\ x = q * BLKSIZE + (x % BLKSIZE)
  <2> HIDE DEF x
  <2> QED  BY <1>1, <1>2, Divided
<1>4. q * BLKSIZE \in Nat
  <2> HIDE DEF q
  <2> QED  BY <1>1, <1>3
<1>5. len <= q * BLKSIZE
  <2> DEFINE y == q * BLKSIZE
             r == x % BLKSIZE
  <2>1. x = y + r /\ y \in Nat /\ r \in 0..BLKSIZE - 1
    BY <1>3, <1>4
  <2> HIDE DEF y, r, q
  <2>2. len <= y
    BY <1>1, <2>1
  <2> QED  BY <2>2 DEF y
<1>6. len = 0 => q = 0
  <2> SUFFICES ASSUME len = 0  PROVE q = 0
    OBVIOUS
  <2>1. x = 0 * BLKSIZE + (BLKSIZE - 1) /\ BLKSIZE - 1 \in 0..BLKSIZE - 1
    BY <1>1
  <2>2. (0 * BLKSIZE + (BLKSIZE - 1)) \div BLKSIZE = 0
    BY <1>1, <2>1, DivideAs
  <2> QED  BY <2>1, <2>2
<1> HIDE DEF q
<1>7. ROUNDUP_DIV(len) = q
  BY DEF ROUNDUP_DIV, q
<1> QED  BY <1>3, <1>5, <1>6, <1>7

\* Behind its end a file is zero.
Blank(s) ==
    \A k \in Index, j \in Offset : k * BLKSIZE + j >= s.din.size => ByteAt(s, k, j) = 0

\* What sfs_truncfile does.
Resizes(s, t, T, len) ==
    /\ t \in Work
    /\ \/ /\ t.panic = "none" /\ Good(t, T)
          /\ Keeps(s, t, T) /\ Marked(s, t) /\ Blank(t)
          /\ t.din.size = IF t.ok THEN len ELSE s.din.size
          /\ ~t.ok \/ len # 0 => SameBytes(s, t)
       \/ ~t.ok /\ t.panic \in Failing

\* The new size is entered at the end.
Sizing(u, len) == [u EXCEPT !.din.size = len, !.dirty = TRUE]

LEMMA SizingFacts ==
    ASSUME NEW u, NEW len, u \in Work, len \in Nat
    PROVE  LET t == Sizing(u, len)
           IN  /\ t \in Work /\ t.freemap = u.freemap /\ t.unused = u.unused
               /\ t.data = u.data /\ t.entry = u.entry /\ t.dirty
               /\ t.ino = u.ino /\ t.ok = u.ok /\ t.panic = u.panic
               /\ t.alen = u.alen /\ t.buf = u.buf
               /\ t.din.blocks = u.din.blocks /\ t.din.direct = u.din.direct
               /\ t.din.indirect = u.din.indirect /\ t.din.size = len
<1> DEFINE din2 == [u.din EXCEPT !.size = len]
<1>1. u.din \in Inode
  BY DEF Work
<1>2. /\ din2 \in Inode /\ din2.blocks = u.din.blocks /\ din2.direct = u.din.direct
      /\ din2.indirect = u.din.indirect /\ din2.size = len
  BY <1>1 DEF Inode
<1>3. Sizing(u, len) = [u EXCEPT !.din = din2, !.dirty = TRUE]
  BY DEF Sizing, Work
<1> HIDE DEF din2
<1> QED  BY <1>2, <1>3 DEF Work

Fits(u, len) == len <= u.din.blocks * BLKSIZE

GivesSize(u, t, T, len) ==
    /\ t \in Work /\ t.panic = "none" /\ Good(t, T) /\ t.dirty
    /\ t.din.size = len /\ t.ok = u.ok
    /\ Keeps(u, t, T) /\ SameBytes(u, t)
    /\ t.alen = u.alen /\ t.buf = u.buf /\ t.ino = u.ino
    /\ t.din.blocks = u.din.blocks

LEMMA SizingGood ==
    ASSUME NEW u, NEW T, NEW len, Layout, Part(u, T), len \in Nat, Fits(u, len)
    PROVE  GivesSize(u, Sizing(u, len), T, len)
<1> DEFINE t == Sizing(u, len)
<1>1. u \in Work /\ u.panic = "none"
  BY DEF Part, Core
<1>2. /\ t \in Work /\ t.freemap = u.freemap /\ t.unused = u.unused
      /\ t.data = u.data /\ t.entry = u.entry /\ t.dirty
      /\ t.ino = u.ino /\ t.ok = u.ok /\ t.panic = u.panic
      /\ t.alen = u.alen /\ t.buf = u.buf
      /\ t.din.blocks = u.din.blocks /\ t.din.direct = u.din.direct
      /\ t.din.indirect = u.din.indirect /\ t.din.size = len
  BY <1>1, SizingFacts
<1> HIDE DEF t
<1>3. \A k : At(t.din, t.entry, k) = At(u.din, u.entry, k)
  BY <1>2, NamingAt DEF SameNaming
<1>4. Core(t, T)
  BY <1>2, <1>3 DEF Part, Core, Exact
<1>5. Sizes(t.din) /\ Filled(t.din, t.entry, t.din.blocks)
  BY <1>2, <1>3 DEF Part, Sizes, Filled, Fits
<1>6. Keeps(u, t, T) /\ SameBytes(u, t)
  BY <1>2, <1>3 DEF Keeps, SameBytes, ByteAt
<1> QED  BY <1>1, <1>2, <1>4, <1>5, <1>6 DEF Good, t, GivesSize

LEMMA GoodIsPart ==
    ASSUME NEW s, NEW T, Good(s, T)
    PROVE  Part(s, T)
BY DEF Good, Part, Sizes

LEMMA BlankSame ==
    ASSUME NEW s, NEW t, Blank(s), SameBytes(s, t), t.din.size = s.din.size
    PROVE  Blank(t)
BY DEF Blank, SameBytes

LEMMA Multiples ==
    ASSUME NEW m \in Nat, NEW n \in Nat, NEW N \in Nat
    PROVE  /\ m * N \in Nat /\ (m + 1) * N = m * N + N
           /\ m <= n => m * N <= n * N
<1>1. m * N \in Nat /\ (m + 1) * N = m * N + N
  OBVIOUS
<1>2. ASSUME m <= n  PROVE m * N <= n * N
  <2>1. PICK d \in Nat : n = m + d
    <3>1. n - m \in Nat /\ n = m + (n - m)
      BY <1>2
    <3> QED  BY <3>1
  <2>2. n * N = m * N + d * N /\ d * N \in Nat
    BY <2>1
  <2> QED  BY <1>1, <2>2
<1> QED  BY <1>1, <1>2

\* What a block at m or behind it holds is at m * BLKSIZE or behind it.
LEMMA Behind ==
    ASSUME NEW m \in Nat, NEW i \in Index, NEW j \in Offset, Layout, m <= i
    PROVE  m * BLKSIZE <= i * BLKSIZE + j
<1>1. i \in Nat /\ j \in Nat /\ BLKSIZE \in Nat
  BY DEF Layout, Index, Offset
<1>2. m * BLKSIZE \in Nat /\ i * BLKSIZE \in Nat /\ m * BLKSIZE <= i * BLKSIZE
  BY <1>1, Multiples
<1> QED  BY <1>1, <1>2

LEMMA ShortenedFacts ==
    ASSUME NEW s, NEW e, NEW r, NEW T, NEW len, NEW tblks, Layout,
           T \in SUBSET Block, Good(s, T), Blank(s), len \in Nat,
           len = 0 \/ len > s.din.size,
           tblks = ROUNDUP_DIV(len), Good(e, T), e.ok, Keeps(s, e, T), SameBytes(s, e),
           e.din.size = s.din.size, tblks <= e.din.blocks, Reduces(e, r, T, tblks)
    PROVE  Resizes(s, Sizing(r, len), T, len)
<1> DEFINE t == Sizing(r, len)
<1>1. /\ tblks \in Nat /\ len <= tblks * BLKSIZE /\ (len = 0 => tblks = 0)
      /\ BLKSIZE \in Nat
  BY RoundedUp DEF Layout
<1>2. s.din.size \in Nat /\ e.din.blocks \in Nat /\ e.din.size <= e.din.blocks * BLKSIZE
  BY DEF Good, Core, Work, Inode, Sizes
<1>3. Part(r, T) /\ r.din.blocks = tblks /\ Keeps(e, r, T) /\ r.ok
  BY DEF Reduces
<1>4. /\ t \in Work /\ t.panic = "none" /\ Good(t, T) /\ t.dirty
      /\ t.din.size = len /\ t.ok = r.ok /\ Keeps(r, t, T) /\ SameBytes(r, t)
  <2>1. Fits(r, len)
    BY <1>1, <1>3 DEF Fits
  <2>2. GivesSize(r, t, T, len)
    BY <1>3, <2>1, SizingGood
  <2> HIDE DEF t
  <2> QED  BY <2>2 DEF GivesSize
<1> HIDE DEF t
<1>5. Keeps(s, t, T)
  BY <1>3, <1>4 DEF Keeps
<1>6. Marked(s, t)
  BY <1>4 DEF Marked
<1>7. ASSUME NEW i \in Index, NEW j \in Offset
      PROVE  ByteAt(t, i, j) = IF tblks <= i /\ i < e.din.blocks THEN 0 ELSE ByteAt(s, i, j)
  BY <1>4 DEF Reduces, SameBytes
<1>8. ASSUME NEW i \in Index, NEW j \in Offset, i >= e.din.blocks
      PROVE  ByteAt(s, i, j) = 0
  <2>1. e.din.blocks * BLKSIZE <= i * BLKSIZE + j
    BY <1>2, <1>8, Behind
  <2>2. e.din.blocks * BLKSIZE \in Nat /\ i * BLKSIZE + j \in Nat
    BY <1>1, <1>2 DEF Index, Offset
  <2>3. i * BLKSIZE + j >= s.din.size
    <3> DEFINE x == i * BLKSIZE + j
               y == e.din.blocks * BLKSIZE
    <3>1. x \in Nat /\ y \in Nat /\ y <= x /\ s.din.size <= y
      BY <1>2, <2>1, <2>2
    <3> HIDE DEF x, y
    <3>2. x >= s.din.size
      BY <1>2, <3>1
    <3> QED  BY <3>2 DEF x
  <2> QED  BY <2>3 DEF Blank
<1>9. ASSUME NEW i \in Index, NEW j \in Offset, i * BLKSIZE + j >= len, len > s.din.size
      PROVE  ByteAt(s, i, j) = 0
  <2>1. i * BLKSIZE + j \in Nat
    BY <1>1 DEF Index, Offset
  <2>2. i * BLKSIZE + j >= s.din.size
    <3> DEFINE x == i * BLKSIZE + j
    <3>1. x \in Nat /\ x >= len
      BY <1>9, <2>1
    <3> HIDE DEF x
    <3>2. x >= s.din.size
      BY <1>2, <1>9, <3>1
    <3> QED  BY <3>2 DEF x
  <2> QED  BY <2>2 DEF Blank
<1>10. Blank(t)
  <2> SUFFICES ASSUME NEW i \in Index, NEW j \in Offset, i * BLKSIZE + j >= len
               PROVE  ByteAt(t, i, j) = 0
    BY <1>4 DEF Blank
  <2>1. CASE len = 0
    <3>1. i \in Nat
      BY DEF Index
    <3>2. ByteAt(t, i, j) = IF i < e.din.blocks THEN 0 ELSE ByteAt(s, i, j)
      BY <1>1, <1>7, <2>1, <3>1
    <3>3. ~(i < e.din.blocks) => i >= e.din.blocks
      BY <1>2, <3>1
    <3> QED  BY <1>8, <3>2, <3>3
  <2>2. CASE len > s.din.size
    BY <1>7, <1>9, <2>2
  <2> QED  BY <2>1, <2>2
<1>11. len # 0 => SameBytes(s, t)
  <2> SUFFICES ASSUME len # 0, NEW i \in Index, NEW j \in Offset
               PROVE  ByteAt(t, i, j) = ByteAt(s, i, j)
    BY DEF SameBytes
  <2>1. CASE tblks <= i
    <3>1. tblks * BLKSIZE <= i * BLKSIZE + j
      BY <1>1, <2>1, Behind
    <3>2. i * BLKSIZE + j >= len
      <4> DEFINE x == i * BLKSIZE + j
                 y == tblks * BLKSIZE
      <4>1. x \in Nat /\ y \in Nat /\ y <= x /\ len <= y
        BY <1>1, <3>1 DEF Index, Offset
      <4> HIDE DEF x, y
      <4>2. x >= len
        BY <4>1
      <4> QED  BY <4>2 DEF x
    <3>3. ByteAt(s, i, j) = 0
      BY <1>9, <3>2
    <3> QED  BY <1>7, <3>3
  <2>2. CASE ~(tblks <= i)
    BY <1>7, <2>2
  <2> QED  BY <2>1, <2>2
<1>12. t.din.size = IF t.ok THEN len ELSE s.din.size
  BY <1>3, <1>4
<1>13. t.ok
  BY <1>3, <1>4
<1>14. Resizes(s, t, T, len)
  BY <1>4, <1>5, <1>6, <1>10, <1>11, <1>12, <1>13 DEF Resizes
<1> QED  BY <1>14 DEF t

LEMMA TruncfileFacts ==
    ASSUME NEW s, NEW T, NEW len, Layout, T \in SUBSET Block, Good(s, T), s.ok,
           Blank(s), len \in Nat, len = 0 \/ len >= s.din.size
    PROVE  Resizes(s, sfs_truncfile(s, len), T, len)
<1> DEFINE tblks == ROUNDUP_DIV(len)
           e == Enlarged(s, tblks)
           r == Reduced(e, tblks)
<1>1. tblks \in Nat
  BY RoundedUp
<1>2. /\ s \in Work /\ s.panic = "none" /\ s.din.blocks \in Nat /\ s.din.size \in Nat
      /\ "sfs_truncfile" \in Panic /\ "sfs_truncfile" \in Failing
  BY DEF Good, Core, Work, Inode, Panic, Failing
<1>3. CASE s.din.size = len
  <2>1. CASE tblks = s.din.blocks
    <3>1. sfs_truncfile(s, len) = s
      BY <1>3, <2>1 DEF sfs_truncfile, Checked
    <3>2. Keeps(s, s, T) /\ SameBytes(s, s) /\ Marked(s, s)
      BY MarkedSame DEF Keeps, SameBytes
    <3> QED  BY <1>2, <1>3, <3>1, <3>2 DEF Resizes
  <2>2. CASE tblks # s.din.blocks
    <3> DEFINE p == [s EXCEPT !.panic = "sfs_truncfile", !.ok = FALSE]
    <3>1. sfs_truncfile(s, len) = p
      BY <1>2, <1>3, <2>2 DEF sfs_truncfile, Checked
    <3>2. p \in Work /\ p.panic = "sfs_truncfile" /\ ~p.ok
      BY <1>2, PanicFacts
    <3> HIDE DEF p
    <3> QED  BY <1>2, <3>1, <3>2 DEF Resizes
  <2> QED  BY <2>1, <2>2
<1>4. CASE s.din.size # len
  <2> DEFINE m == IF s.din.blocks < tblks THEN tblks ELSE s.din.blocks
  <2>1. Enlarges(s, e, T, m)
    <3> HIDE DEF tblks
    <3> QED  BY <1>1, EnlargedFacts
  <2>2. sfs_truncfile(s, len) = Resized(r, len, tblks)
    BY <1>4 DEF sfs_truncfile
  <2>3. tblks <= m /\ m \in Nat
    <3> HIDE DEF tblks
    <3> QED  BY <1>1, <1>2
  <2> HIDE DEF e, m
  <2>4. CASE ~e.ok
    <3>1. r = e
      <4> HIDE DEF tblks
      <4> QED  BY <1>1, <2>1, <2>4, ReducedFailed DEF Enlarges
    <3>2. sfs_truncfile(s, len) = e
      BY <2>2, <2>4, <3>1 DEF Resized
    <3>3. e.panic = "none" => Blank(e)
      <4> SUFFICES ASSUME e.panic = "none"  PROVE Blank(e)
        OBVIOUS
      <4>1. e.panic \notin Failing
        BY DEF Failing
      <4> QED  BY <2>1, <4>1, BlankSame DEF Enlarges
    <3> QED  BY <2>1, <2>4, <3>2, <3>3 DEF Enlarges, Resizes
  <2>5. CASE e.ok
    <3>1. /\ Good(e, T) /\ Keeps(s, e, T) /\ SameBytes(s, e)
          /\ e.din.size = s.din.size /\ e.din.blocks = m
      BY <2>1, <2>5 DEF Enlarges
    <3>2. Part(e, T)
      BY <3>1, GoodIsPart
    <3>3. Reduces(e, r, T, tblks)
      <4> HIDE DEF tblks
      <4> QED  BY <1>1, <2>3, <2>5, <3>1, <3>2, ReducedFacts
    <3> HIDE DEF r
    <3>4. r.ok /\ r.din.blocks = tblks
      BY <3>3 DEF Reduces
    <3>5. Resized(r, len, tblks) = Sizing(r, len)
      <4> HIDE DEF tblks
      <4> QED  BY <3>4 DEF Resized, Checked, Sizing
    <3>6. len = 0 \/ len > s.din.size
      BY <1>2, <1>4
    <3>7. Resizes(s, Sizing(r, len), T, len)
      <4> HIDE DEF tblks
      <4>1. tblks = ROUNDUP_DIV(len)
        BY DEF tblks
      <4> QED  BY <2>3, <2>5, <3>1, <3>3, <3>6, <4>1, ShortenedFacts
    <3> QED  BY <2>2, <3>5, <3>7
  <2> QED  BY <2>4, <2>5
<1> QED  BY <1>3, <1>4

-----------------------------------------------------------------------------
(* The parts a range is cut into *)

\* Three sequences in a row.
Joins(S, a, b, c, t) ==
    /\ t \in Seq(S) /\ Len(t) = Len(a) + Len(b) + Len(c)
    /\ \A k \in 1..Len(t) :
         t[k] = IF k <= Len(a) THEN a[k]
                ELSE IF k <= Len(a) + Len(b) THEN b[k - Len(a)]
                ELSE c[k - Len(a) - Len(b)]

LEMMA Concat3 ==
    ASSUME NEW S, NEW a \in Seq(S), NEW b \in Seq(S), NEW c \in Seq(S)
    PROVE  Joins(S, a, b, c, a \o b \o c)
<1> DEFINE ab == a \o b
           abc == ab \o c
<1>1. /\ ab \in Seq(S) /\ Len(ab) = Len(a) + Len(b)
      /\ \A k \in 1..Len(a) + Len(b) :
           ab[k] = IF k <= Len(a) THEN a[k] ELSE b[k - Len(a)]
  BY ConcatProperties
<1> HIDE DEF ab
<1>0. ab \in Seq(S)
  BY <1>1
<1>2. /\ abc \in Seq(S) /\ Len(abc) = Len(ab) + Len(c)
      /\ \A k \in 1..Len(ab) + Len(c) :
           abc[k] = IF k <= Len(ab) THEN ab[k] ELSE c[k - Len(ab)]
  BY <1>0, ConcatProperties
<1>3. Len(a) \in Nat /\ Len(b) \in Nat /\ Len(c) \in Nat
  OBVIOUS
<1> HIDE DEF abc
<1>4. ASSUME NEW k \in 1..Len(abc)
      PROVE  abc[k] = IF k <= Len(a) THEN a[k]
                      ELSE IF k <= Len(a) + Len(b) THEN b[k - Len(a)]
                      ELSE c[k - Len(a) - Len(b)]
  <2>1. abc[k] = IF k <= Len(ab) THEN ab[k] ELSE c[k - Len(ab)]
    BY <1>1, <1>2
  <2>2. CASE k <= Len(a) + Len(b)
    <3>1. k \in 1..Len(a) + Len(b)
      BY <1>2, <1>3, <2>2
    <3>2. ab[k] = IF k <= Len(a) THEN a[k] ELSE b[k - Len(a)]
      BY <1>1, <3>1
    <3>3. abc[k] = ab[k]
      BY <1>1, <2>1, <2>2
    <3> QED  BY <1>3, <2>2, <3>1, <3>2, <3>3
  <2>3. CASE ~(k <= Len(a) + Len(b))
    <3>1. k - Len(ab) = k - Len(a) - Len(b) /\ ~(k <= Len(a))
      BY <1>1, <1>2, <1>3, <2>3
    <3> QED  BY <1>1, <2>1, <2>3, <3>1
  <2> QED  BY <2>2, <2>3
<1>5. Joins(S, a, b, c, abc)
  BY <1>1, <1>2, <1>4 DEF Joins
<1> QED  BY <1>5, Zenon DEF abc, ab

\* A sequence of one element, unless none is left.
Single(S, x, none, t) ==
    t \in Seq(S) /\ Len(t) = (IF none THEN 0 ELSE 1) /\ (~none => t[1] = x)

LEMMA SingleFacts ==
    ASSUME NEW S, NEW x \in S, NEW none \in BOOLEAN
    PROVE  Single(S, x, none, IF none THEN << >> ELSE << x >>)
<1>1. CASE none
  BY <1>1 DEF Single
<1>2. CASE ~none
  BY <1>2 DEF Single
<1> QED  BY <1>1, <1>2

PartSet == [blk : Int, off : Nat, size : Nat]

\* From offset to endpos there are n blocks, the first q; offset is at r in it,
\* and e bytes of the last one are before endpos.
Spans(offset, endpos, q, r, n, e) ==
    /\ q \in Nat /\ r \in 0..BLKSIZE - 1 /\ n \in Nat \ {0} /\ e \in 1..BLKSIZE
    /\ offset = q * BLKSIZE + r /\ endpos = (q + n - 1) * BLKSIZE + e
    /\ n = 1 => r < e

PartNo(k, q, r, n, e) ==
    [blk |-> q + k - 1, off |-> IF k = 1 THEN r ELSE 0,
     size |-> (IF k = n THEN e ELSE BLKSIZE) - (IF k = 1 THEN r ELSE 0)]

\* offset is at r in block q, endpos at r2 in block q + nblks.
Lies(offset, endpos, q, r, nblks, r2) ==
    /\ offset \in Nat /\ endpos \in Nat /\ q \in Nat /\ nblks \in Nat
    /\ r \in 0..BLKSIZE - 1 /\ r2 \in 0..BLKSIZE - 1
    /\ offset \div BLKSIZE = q /\ offset % BLKSIZE = r
    /\ endpos \div BLKSIZE = q + nblks
    /\ endpos - offset = nblks * BLKSIZE + r2 - r /\ (nblks = 0 => r < r2)

Blocks(nblks, r2) == IF r2 = 0 THEN nblks ELSE nblks + 1

LastSize(r2) == IF r2 = 0 THEN BLKSIZE ELSE r2

AreParts(P, n, q, r, e) == DOMAIN P = 1..n /\ \A k \in 1..n : P[k] = PartNo(k, q, r, n, e)

LEMMA PartsOf ==
    ASSUME NEW offset, NEW endpos, NEW q, NEW r, NEW nblks, NEW r2, Layout,
           Lies(offset, endpos, q, r, nblks, r2)
    PROVE  AreParts(Parts(offset, endpos), Blocks(nblks, r2), q, r, LastSize(r2))
<1> DEFINE size == IF nblks # 0 THEN BLKSIZE - r ELSE endpos - offset
           firstPart == [blk |-> q, off |-> r, size |-> size]
           first == IF r = 0 THEN << >> ELSE << firstPart >>
           next == q + Len(first)
           whole == IF r # 0 /\ nblks # 0 THEN nblks - 1 ELSE nblks
           middle == [k \in 1..whole |-> [blk |-> next + k - 1, off |-> 0, size |-> BLKSIZE]]
           left == endpos - offset - (IF r = 0 THEN 0 ELSE size) - whole * BLKSIZE
           lastPart == [blk |-> next + whole, off |-> 0, size |-> left]
           last == IF left <= 0 THEN << >> ELSE << lastPart >>
           P == first \o middle \o last
           n == Blocks(nblks, r2)
           e == LastSize(r2)
<1>0. /\ q \in Nat /\ nblks \in Nat /\ r \in 0..BLKSIZE - 1 /\ r2 \in 0..BLKSIZE - 1
      /\ offset \in Nat /\ endpos \in Nat
      /\ endpos - offset = nblks * BLKSIZE + r2 - r /\ (nblks = 0 => r < r2)
  BY DEF Lies
<1>1. BLKSIZE \in Nat /\ BLKSIZE # 0
  BY DEF Layout
<1>2. Parts(offset, endpos) = P
  <2>1. endpos \div BLKSIZE - offset \div BLKSIZE = nblks
        /\ offset \div BLKSIZE = q /\ offset % BLKSIZE = r
    BY <1>0 DEF Lies
  <2> QED  BY <2>1 DEF Parts
<1>3. left = IF r # 0 /\ nblks = 0 THEN 0 ELSE r2
  <2>1. CASE r = 0
    BY <1>0, <1>1, <2>1
  <2>2. CASE r # 0 /\ nblks # 0
    <3>1. nblks * BLKSIZE = (nblks - 1) * BLKSIZE + BLKSIZE /\ (nblks - 1) * BLKSIZE \in Int
      BY <1>0, <1>1
    <3>2. left = (nblks * BLKSIZE + r2 - r) - (BLKSIZE - r) - (nblks - 1) * BLKSIZE
      BY <1>0, <2>2
    <3> QED  BY <1>0, <1>1, <2>2, <3>1, <3>2
  <2>3. CASE r # 0 /\ nblks = 0
    BY <1>0, <1>1, <2>3
  <2> QED  BY <2>1, <2>2, <2>3
<1>4. size = IF nblks # 0 THEN BLKSIZE - r ELSE r2 - r
  BY <1>0, <1>1
<1>5. size \in Nat /\ (r # 0 => size > 0)
  BY <1>0, <1>1, <1>4
<1>50. left \in Nat
  BY <1>0, <1>3
<1> HIDE DEF left, size
<1>51. whole \in Nat /\ whole = IF r # 0 /\ nblks # 0 THEN nblks - 1 ELSE nblks
  BY <1>0
<1> HIDE DEF whole
<1>6. Single(PartSet, firstPart, r = 0, first)
  <2>1. firstPart \in PartSet
    BY <1>0, <1>5 DEF PartSet
  <2> HIDE DEF firstPart
  <2> QED  BY <2>1, SingleFacts
<1>60. first \in Seq(PartSet) /\ Len(first) = (IF r = 0 THEN 0 ELSE 1)
      /\ (r # 0 => first[1] = firstPart)
  BY <1>6, Zenon DEF Single
<1> HIDE DEF first
<1>7. next \in Int /\ next = q + (IF r = 0 THEN 0 ELSE 1)
  BY <1>0, <1>60
<1> HIDE DEF next
<1>8. middle \in Seq(PartSet) /\ Len(middle) = whole
      /\ \A k \in 1..whole : middle[k] = [blk |-> next + k - 1, off |-> 0, size |-> BLKSIZE]
  <2> DEFINE Nth(k) == [blk |-> next + k - 1, off |-> 0, size |-> BLKSIZE]
  <2>1. \A k \in 1..whole : Nth(k) \in PartSet
    BY <1>1, <1>51, <1>7 DEF PartSet
  <2>2. middle = [k \in 1..whole |-> Nth(k)]
    OBVIOUS
  <2> HIDE DEF middle, Nth
  <2>3. middle \in [1..whole -> PartSet] /\ \A k \in 1..whole : middle[k] = Nth(k)
    BY <2>1, <2>2
  <2>4. middle \in Seq(PartSet) /\ Len(middle) = whole
    BY <1>51, <2>3
  <2> QED  BY <2>3, <2>4 DEF Nth
<1> HIDE DEF middle
<1>9. Single(PartSet, lastPart, left <= 0, last)
  <2>1. lastPart \in PartSet
    BY <1>50, <1>51, <1>7 DEF PartSet
  <2> DEFINE none == left <= 0
  <2>2. none \in BOOLEAN
    OBVIOUS
  <2> HIDE DEF lastPart, none
  <2>3. Single(PartSet, lastPart, none, IF none THEN << >> ELSE << lastPart >>)
    BY <2>1, <2>2, SingleFacts
  <2> QED  BY <2>3 DEF none
<1>90. last \in Seq(PartSet) /\ Len(last) = (IF left <= 0 THEN 0 ELSE 1)
      /\ (~(left <= 0) => last[1] = lastPart)
  BY <1>9, Zenon DEF Single
<1> HIDE DEF last
<1>10. Joins(PartSet, first, middle, last, P)
  BY <1>60, <1>8, <1>90, Concat3
<1> HIDE DEF P
<1>11. Len(P) = n
  <2>1. Len(P) = (IF r = 0 THEN 0 ELSE 1) + whole + (IF left <= 0 THEN 0 ELSE 1)
    BY <1>10, <1>60, <1>8, <1>90 DEF Joins
  <2>2. CASE r # 0 /\ nblks = 0
    BY <1>0, <1>3, <1>51, <2>1, <2>2 DEF Blocks
  <2>3. CASE r # 0 /\ nblks # 0
    BY <1>0, <1>3, <1>51, <2>1, <2>3 DEF Blocks
  <2>4. CASE r = 0
    BY <1>0, <1>3, <1>51, <2>1, <2>4 DEF Blocks
  <2> QED  BY <2>2, <2>3, <2>4
<1>12. ASSUME NEW k \in 1..n  PROVE P[k] = PartNo(k, q, r, n, e)
  <2> DEFINE f == IF r = 0 THEN 0 ELSE 1
  <2>0. /\ n \in Nat /\ k \in Nat /\ Len(first) = f /\ Len(middle) = whole
        /\ next = q + f
    BY <1>0, <1>60, <1>7, <1>8 DEF Blocks
  <2>9. P[k] = IF k <= f THEN first[k]
               ELSE IF k <= f + whole THEN middle[k - f]
               ELSE last[k - f - whole]
    BY <1>10, <1>11, <2>0 DEF Joins
  <2>1. CASE r # 0 /\ k = 1
    <3>1. P[k] = firstPart
      BY <1>60, <2>9, <2>1
    <3>2. size = (IF k = n THEN e ELSE BLKSIZE) - r
      BY <1>0, <1>1, <1>4, <2>1 DEF Blocks, LastSize
    <3> QED  BY <1>0, <2>1, <3>1, <3>2 DEF PartNo
  <2>2. CASE ~(r # 0 /\ k = 1) /\ k <= f + whole
    <3>1. ~(k <= f) /\ k - f \in 1..whole
      BY <1>51, <2>0, <2>2
    <3>2. P[k] = middle[k - f]
      BY <2>9, <2>2, <3>1
    <3>3. P[k] = [blk |-> next + (k - f) - 1, off |-> 0, size |-> BLKSIZE]
      BY <1>8, <3>1, <3>2
    <3>4. next + (k - f) - 1 = q + k - 1
      BY <1>0, <2>0
    <3>5. (IF k = 1 THEN r ELSE 0) = 0
      BY <2>2
    <3>6. (IF k = n THEN e ELSE BLKSIZE) = BLKSIZE
      BY <1>0, <1>1, <1>51, <2>0, <2>2 DEF Blocks, LastSize
    <3> HIDE DEF n, e, f
    <3> QED  BY <1>1, <3>3, <3>4, <3>5, <3>6 DEF PartNo
  <2>3. CASE ~(r # 0 /\ k = 1) /\ ~(k <= f + whole)
    <3>1. k = n /\ k = f + whole + 1 /\ left > 0
      <4>1. n = f + whole + (IF left <= 0 THEN 0 ELSE 1)
        BY <1>10, <1>11, <1>90, <2>0 DEF Joins
      <4> HIDE DEF n
      <4> QED  BY <1>50, <1>51, <2>0, <2>3, <4>1
    <3>2. P[k] = last[1]
      BY <1>51, <2>9, <2>3, <3>1
    <3>3. P[k] = lastPart
      BY <1>50, <1>90, <3>1, <3>2
    <3>4. next + whole = q + k - 1
      BY <1>0, <1>51, <2>0, <3>1
    <3>5. left = e /\ (IF k = 1 THEN r ELSE 0) = 0
      BY <1>0, <1>1, <1>3, <2>3, <3>1 DEF LastSize
    <3>6. (IF k = n THEN e ELSE BLKSIZE) - (IF k = 1 THEN r ELSE 0) = left
      <4>1. left \in Nat
        BY <1>50
      <4> QED  BY <3>1, <3>5, <4>1
    <3> HIDE DEF n, e, f
    <3> QED  BY <3>3, <3>4, <3>5, <3>6 DEF PartNo
  <2> QED  BY <2>1, <2>2, <2>3
<1>13. DOMAIN P = 1..n
  BY <1>10, <1>11 DEF Joins
<1> HIDE DEF n, e
<1> QED  BY <1>2, <1>12, <1>13 DEF AreParts, n, e

\* How the parts of a range lie.
IsCut(offset, endpos, q, r, n, e) ==
    Spans(offset, endpos, q, r, n, e) /\ AreParts(Parts(offset, endpos), n, q, r, e)

LEMMA PartsSpan ==
    ASSUME NEW offset \in Nat, NEW endpos \in Nat, Layout, offset < endpos
    PROVE  \E q, r, n, e : IsCut(offset, endpos, q, r, n, e)
<1> DEFINE q == offset \div BLKSIZE
           r == offset % BLKSIZE
           q2 == endpos \div BLKSIZE
           r2 == endpos % BLKSIZE
<1>1. BLKSIZE \in Nat /\ BLKSIZE \in Nat \ {0}
  BY DEF Layout
<1>2. q \in Nat /\ r \in 0..BLKSIZE - 1 /\ offset = q * BLKSIZE + r
  BY <1>1, Divided
<1>3. q2 \in Nat /\ r2 \in 0..BLKSIZE - 1 /\ endpos = q2 * BLKSIZE + r2
  BY <1>1, Divided
<1>0. q = offset \div BLKSIZE /\ r = offset % BLKSIZE /\ q2 = endpos \div BLKSIZE
  OBVIOUS
<1> HIDE DEF q, r, q2, r2
<1>4. q <= q2
  <2> SUFFICES ASSUME q2 + 1 <= q  PROVE FALSE
    BY <1>2, <1>3
  <2>1. (q2 + 1) * BLKSIZE = q2 * BLKSIZE + BLKSIZE /\ q2 * BLKSIZE \in Nat
        /\ (q2 + 1) * BLKSIZE <= q * BLKSIZE /\ q * BLKSIZE \in Nat
    <3>1. q2 + 1 \in Nat
      BY <1>3
    <3> QED  BY <1>1, <1>2, <1>3, <3>1, Multiples
  <2> QED  BY <1>1, <1>2, <1>3, <2>1
<1> DEFINE nblks == q2 - q
           n == Blocks(nblks, r2)
           e == LastSize(r2)
<1>5. nblks \in Nat /\ q2 = q + nblks
  BY <1>2, <1>3, <1>4
<1> HIDE DEF nblks
<1>6. (q + nblks) * BLKSIZE = q * BLKSIZE + nblks * BLKSIZE /\ q * BLKSIZE \in Nat
      /\ nblks * BLKSIZE \in Nat
  BY <1>1, <1>2, <1>5
<1>7. endpos - offset = nblks * BLKSIZE + r2 - r
  BY <1>2, <1>3, <1>5, <1>6
<1>8. nblks = 0 => r < r2
  <2> SUFFICES ASSUME nblks = 0  PROVE r < r2
    OBVIOUS
  <2>1. nblks * BLKSIZE = 0
    BY <1>1
  <2> QED  BY <1>2, <1>3, <1>7, <2>1
<1>9. Lies(offset, endpos, q, r, nblks, r2)
  BY <1>0, <1>2, <1>3, <1>5, <1>7, <1>8 DEF Lies
<1>10. AreParts(Parts(offset, endpos), n, q, r, e)
  BY <1>9, PartsOf
<1>11. n \in Nat \ {0} /\ e \in 1..BLKSIZE /\ (n = 1 => r < e)
  BY <1>1, <1>2, <1>3, <1>5, <1>8 DEF Blocks, LastSize
<1>12. endpos = (q + n - 1) * BLKSIZE + e
  <2>1. CASE r2 = 0
    <3>1. n = nblks /\ e = BLKSIZE
      BY <2>1 DEF Blocks, LastSize
    <3>2. endpos = (q + nblks) * BLKSIZE
      BY <1>1, <1>2, <1>3, <1>5, <1>6, <2>1
    <3>3. (q + nblks) * BLKSIZE = (q + nblks - 1) * BLKSIZE + BLKSIZE
      BY <1>1, <1>2, <1>5
    <3> QED  BY <3>1, <3>2, <3>3
  <2>2. CASE r2 # 0
    <3>1. q + n - 1 = q + nblks /\ e = r2
      BY <1>2, <1>5, <2>2 DEF Blocks, LastSize
    <3>2. q + n - 1 = q2
      BY <1>5, <3>1
    <3> HIDE DEF n, e
    <3> QED  BY <1>3, <3>1, <3>2
  <2> QED  BY <2>1, <2>2
<1> HIDE DEF n, e
<1>13. Spans(offset, endpos, q, r, n, e)
  BY <1>2, <1>11, <1>12 DEF Spans
<1> QED  BY <1>10, <1>13 DEF IsCut

-----------------------------------------------------------------------------
(* Reading and writing. p is the position the parts so far lead to.         *)

FileByte(s, i) == ByteAt(s, i \div BLKSIZE, i % BLKSIZE)

\* The byte at x, which is at j of block i, is that of w if it was written.
WrittenAt(s, u, offset, w, i, j, x) ==
    ByteAt(u, i, j) = IF offset <= x /\ x < offset + u.alen THEN w[x - offset + 1]
                      ELSE ByteAt(s, i, j)

\* The bytes from offset on are those of w, as many as were written.
Written(s, u, offset, w) ==
    \A i \in Index, j \in Offset : WrittenAt(s, u, offset, w, i, j, i * BLKSIZE + j)

WasRead(s, u, offset) ==
    /\ Len(u.buf) = u.alen
    /\ \A x \in 1..u.alen : u.buf[x] = FileByte(s, offset + x - 1)

Moved(s, u, offset, w, how) ==
    IF how = "write" THEN Written(s, u, offset, w)
    ELSE SameBytes(s, u) /\ WasRead(s, u, offset)

Reaches(u, p, offset) ==
    /\ offset + u.alen <= p /\ (u.ok => offset + u.alen = p)
    /\ offset + u.alen <= u.din.blocks * BLKSIZE

Io(s, u, T, p, offset, w, how) ==
    /\ u \in Work
    /\ \/ /\ u.panic = "none" /\ Good(u, T)
          /\ Keeps(s, u, T) /\ Marked(s, u) /\ u.din.size = s.din.size
          /\ Reaches(u, p, offset) /\ Moved(s, u, offset, w, how)
       \/ ~u.ok /\ u.panic \in Failing

\* The part is within its block, begins at p, and what is written is there.
Next1(part, p, offset, w, how) ==
    /\ part.blk \in Nat /\ part.off \in Offset /\ part.size \in Nat
    /\ part.off + part.size <= BLKSIZE /\ p = part.blk * BLKSIZE + part.off
    /\ how \in {"read", "write"} /\ offset \in Nat /\ p \in Nat /\ offset <= p
    /\ how = "write" => w \in Seq(Nat) /\ p + part.size <= offset + Len(w)

LEMMA FileByteAt ==
    ASSUME NEW s, NEW k \in Nat, NEW j \in Offset, Layout
    PROVE  FileByte(s, k * BLKSIZE + j) = ByteAt(s, k, j)
<1>1. BLKSIZE \in Nat \ {0} /\ j \in 0..BLKSIZE - 1
  BY DEF Layout, Offset
<1>2. (k * BLKSIZE + j) \div BLKSIZE = k /\ (k * BLKSIZE + j) % BLKSIZE = j
  BY <1>1, DivideAs
<1> QED  BY <1>2 DEF FileByte

\* Which bytes of the file are in a part of block k.
Inside(i, j, k, off, size) ==
    k * BLKSIZE + off <= i * BLKSIZE + j /\ i * BLKSIZE + j < k * BLKSIZE + off + size

LEMMA InsideOf ==
    ASSUME NEW i \in Nat, NEW j \in Offset, NEW k \in Nat, NEW off \in Nat,
           NEW size \in Nat, Layout, off + size <= BLKSIZE
    PROVE  Inside(i, j, k, off, size) <=> i = k /\ off <= j /\ j < off + size
<1> DEFINE x == i * BLKSIZE
           y == k * BLKSIZE
<1>1. BLKSIZE \in Nat /\ j \in Nat /\ j < BLKSIZE
  BY DEF Layout, Offset
<1>2. x \in Nat /\ y \in Nat /\ (i + 1) * BLKSIZE = x + BLKSIZE /\ (k + 1) * BLKSIZE = y + BLKSIZE
  BY <1>1, Multiples
<1>3. i < k => x + BLKSIZE <= y
  <2> SUFFICES ASSUME i < k  PROVE x + BLKSIZE <= y
    OBVIOUS
  <2>1. i + 1 \in Nat /\ i + 1 <= k
    OBVIOUS
  <2>2. (i + 1) * BLKSIZE <= k * BLKSIZE
    BY <1>1, <2>1, Multiples
  <2> QED  BY <1>2, <2>2
<1>4. k < i => y + BLKSIZE <= x
  <2> SUFFICES ASSUME k < i  PROVE y + BLKSIZE <= x
    OBVIOUS
  <2>1. k + 1 \in Nat /\ k + 1 <= i
    OBVIOUS
  <2>2. (k + 1) * BLKSIZE <= i * BLKSIZE
    BY <1>1, <2>1, Multiples
  <2> QED  BY <1>2, <2>2
<1>5. i = k => x = y
  OBVIOUS
<1>6. Inside(i, j, k, off, size) <=> y + off <= x + j /\ x + j < y + off + size
  BY DEF Inside
<1> HIDE DEF x, y
<1> QED  BY <1>1, <1>2, <1>3, <1>4, <1>5, <1>6

\* A part is written to the block that was looked up for it.
Puts(u, t, part, w) ==
    /\ t \in Work /\ t.freemap = u.freemap /\ t.unused = u.unused /\ t.entry = u.entry
    /\ t.din = u.din /\ t.dirty = u.dirty /\ t.ino = u.ino /\ t.ok = u.ok
    /\ t.panic = u.panic /\ t.alen = u.alen + part.size
    /\ \A b \in Block : b # u.ino => t.data[b] = u.data[b]
    /\ \A j \in Offset :
         t.data[u.ino][j] = IF part.off <= j /\ j < part.off + part.size
                              THEN w[u.alen + j - part.off + 1] ELSE u.data[u.ino][j]

LEMMA PutsFacts ==
    ASSUME NEW u, NEW part, NEW w, Layout, u \in Work, u.ok, u.ino \in Block,
           part.off \in Offset, part.size \in Nat, part.off + part.size <= BLKSIZE,
           w \in Seq(Nat), u.alen + part.size <= Len(w)
    PROVE  Puts(u, WritePart(u, part, w), part, w)
<1> DEFINE row == [i \in 0..BLKSIZE - 1 |->
                     IF i \in part.off..part.off + part.size - 1
                       THEN w[u.alen + i - part.off + 1] ELSE u.data[u.ino][i]]
           dat == [u.data EXCEPT ![u.ino] = row]
           t == [u EXCEPT !.alen = @ + part.size, !.data = dat]
<1>1. u.alen \in Nat /\ u.data \in Data /\ BLKSIZE \in Nat
  BY DEF Work, Layout
<1>2. ASSUME NEW j \in Offset
      PROVE  /\ row[j] = IF part.off <= j /\ j < part.off + part.size
                           THEN w[u.alen + j - part.off + 1] ELSE u.data[u.ino][j]
             /\ row[j] \in Byte
  <2>1. j \in 0..BLKSIZE - 1 /\ part.off \in Nat
    BY DEF Offset
  <2>2. j \in part.off..part.off + part.size - 1 <=> part.off <= j /\ j < part.off + part.size
    BY <2>1
  <2>3. row[j] = IF part.off <= j /\ j < part.off + part.size
                   THEN w[u.alen + j - part.off + 1] ELSE u.data[u.ino][j]
    BY <2>1, <2>2
  <2>4. part.off <= j /\ j < part.off + part.size =>
          u.alen + j - part.off + 1 \in 1..Len(w)
    BY <1>1, <2>1, SMTT(30)
  <2>5. part.off <= j /\ j < part.off + part.size => w[u.alen + j - part.off + 1] \in Nat
    BY <2>4
  <2>6. u.data[u.ino][j] \in Byte
    BY <1>1 DEF Data
  <2> HIDE DEF row
  <2> QED  BY <2>3, <2>5, <2>6 DEF Byte
<1>3. row \in [Offset -> Byte]
  BY <1>2 DEF Offset
<1> HIDE DEF row
<1>4. dat \in Data /\ dat[u.ino] = row /\ \A b \in Block : b # u.ino => dat[b] = u.data[b]
  BY <1>1, <1>3 DEF Data
<1> HIDE DEF dat
<1>5. u.alen + part.size \in Nat
  BY <1>1
<1>6. /\ t \in Work /\ t.freemap = u.freemap /\ t.unused = u.unused /\ t.entry = u.entry
      /\ t.din = u.din /\ t.dirty = u.dirty /\ t.ino = u.ino /\ t.ok = u.ok
      /\ t.panic = u.panic /\ t.alen = u.alen + part.size /\ t.data = dat
  BY <1>4, <1>5 DEF Work
<1>7. WritePart(u, part, w) = t
  BY Zenon DEF WritePart, dat, row
<1> HIDE DEF t
<1> QED  BY <1>2, <1>4, <1>6, <1>7 DEF Puts

\* A part is read from the block that was looked up for it.
Gets(u, t, part) ==
    /\ t \in Work /\ t.freemap = u.freemap /\ t.unused = u.unused /\ t.entry = u.entry
    /\ t.data = u.data /\ t.din = u.din /\ t.dirty = u.dirty /\ t.ino = u.ino /\ t.ok = u.ok
    /\ t.panic = u.panic /\ t.alen = u.alen + part.size
    /\ Len(t.buf) = Len(u.buf) + part.size
    /\ \A x \in 1..Len(u.buf) + part.size :
         t.buf[x] = IF x <= Len(u.buf) THEN u.buf[x]
                    ELSE u.data[u.ino][part.off + (x - Len(u.buf)) - 1]

LEMMA GetsFacts ==
    ASSUME NEW u, NEW part, Layout, u \in Work, u.ok, u.ino \in Block,
           part.off \in Offset, part.size \in Nat, part.off + part.size <= BLKSIZE
    PROVE  Gets(u, ReadPart(u, part), part)
<1> DEFINE got == [i \in 1..part.size |-> u.data[u.ino][part.off + i - 1]]
           buf2 == u.buf \o got
           t == [u EXCEPT !.alen = @ + part.size, !.buf = buf2]
<1>1. u.alen \in Nat /\ u.data \in Data /\ u.buf \in Seq(Byte) /\ Len(u.buf) \in Nat
  BY DEF Work
<1>2. ASSUME NEW i \in 1..part.size  PROVE got[i] \in Byte
  <2>1. part.off + i - 1 \in Offset
    BY DEF Offset, Layout
  <2> QED  BY <1>1, <2>1 DEF Data
<1>3. got \in Seq(Byte) /\ Len(got) = part.size
  <2>1. got \in [1..part.size -> Byte]
    BY <1>2
  <2> HIDE DEF got
  <2> QED  BY <2>1
<1>4. \A i \in 1..part.size : got[i] = u.data[u.ino][part.off + i - 1]
  OBVIOUS
<1> HIDE DEF got
<1>5. u.buf \in Seq(Byte) /\ got \in Seq(Byte)
  BY <1>1, <1>3
<1>6. /\ buf2 \in Seq(Byte) /\ Len(buf2) = Len(u.buf) + Len(got)
      /\ \A x \in 1..Len(u.buf) + Len(got) :
           buf2[x] = IF x <= Len(u.buf) THEN u.buf[x] ELSE got[x - Len(u.buf)]
  BY <1>5, ConcatProperties
<1> HIDE DEF buf2
<1>7. ASSUME NEW x \in 1..Len(u.buf) + part.size
      PROVE  buf2[x] = IF x <= Len(u.buf) THEN u.buf[x]
                       ELSE u.data[u.ino][part.off + (x - Len(u.buf)) - 1]
  <2>1. buf2[x] = IF x <= Len(u.buf) THEN u.buf[x] ELSE got[x - Len(u.buf)]
    BY <1>3, <1>6
  <2>2. ~(x <= Len(u.buf)) => x - Len(u.buf) \in 1..part.size
    BY <1>1
  <2> QED  BY <1>4, <2>1, <2>2
<1>8. u.alen + part.size \in Nat
  BY <1>1
<1>9. /\ t \in Work /\ t.freemap = u.freemap /\ t.unused = u.unused /\ t.entry = u.entry
      /\ t.data = u.data /\ t.din = u.din /\ t.dirty = u.dirty /\ t.ino = u.ino
      /\ t.ok = u.ok /\ t.panic = u.panic /\ t.alen = u.alen + part.size /\ t.buf = buf2
  BY <1>6, <1>8 DEF Work
<1>10. ReadPart(u, part) = t
  BY Zenon DEF ReadPart, buf2, got
<1> HIDE DEF t
<1> QED  BY <1>3, <1>6, <1>7, <1>9, <1>10 DEF Gets

\* The next part begins in a block that is there or comes next.
LEMMA BlockInReach ==
    ASSUME NEW blk \in Nat, NEW off \in Offset, NEW blocks \in Nat, Layout,
           blk * BLKSIZE + off <= blocks * BLKSIZE
    PROVE  blk <= blocks
<1>1. BLKSIZE \in Nat /\ BLKSIZE > 0 /\ off \in Nat
  BY DEF Layout, Offset
<1> SUFFICES ASSUME ~(blk <= blocks)  PROVE FALSE
  OBVIOUS
<1>2. blocks + 1 \in Nat /\ blocks + 1 <= blk
  OBVIOUS
<1>3. (blocks + 1) * BLKSIZE <= blk * BLKSIZE
  BY <1>1, <1>2, Multiples
<1>4. /\ (blocks + 1) * BLKSIZE = blocks * BLKSIZE + BLKSIZE
      /\ blocks * BLKSIZE \in Nat /\ blk * BLKSIZE \in Nat
  BY <1>1, Multiples
<1> DEFINE x == blk * BLKSIZE
           y == blocks * BLKSIZE
<1>5. x \in Nat /\ y \in Nat /\ y + BLKSIZE <= x /\ x + off <= y
  BY <1>3, <1>4
<1> HIDE DEF x, y
<1> QED  BY <1>1, <1>5

\* What a part needs to be done, once its block has been looked up.
Ready(s, v, T, part, p, offset, w, how) ==
    /\ v \in Work /\ v.ok /\ v.panic = "none" /\ Good(v, T)
    /\ Keeps(s, v, T) /\ Marked(s, v) /\ v.din.size = s.din.size
    /\ v.ino = At(v.din, v.entry, part.blk) /\ v.ino # 0 /\ part.blk \in Index
    /\ offset + v.alen = p /\ part.blk + 1 <= v.din.blocks
    /\ Moved(s, v, offset, w, how)

LEMMA MovedSame ==
    ASSUME NEW s, NEW u, NEW v, NEW offset, NEW w, NEW how, SameBytes(u, v),
           v.alen = u.alen, v.buf = u.buf, Moved(s, u, offset, w, how)
    PROVE  Moved(s, v, offset, w, how)
<1>1. CASE how = "write"
  BY <1>1 DEF Moved, Written, WrittenAt, SameBytes
<1>2. CASE how # "write"
  BY <1>2 DEF Moved, WasRead, SameBytes
<1> QED  BY <1>1, <1>2

LEMMA LoadedReady ==
    ASSUME NEW s, NEW u, NEW T, NEW part, NEW p, NEW offset, NEW w, NEW how, Layout,
           T \in SUBSET Block, s \in Work, Io(s, u, T, p, offset, w, how), u.ok,
           Next1(part, p, offset, w, how)
    PROVE  LET v == LoadPart(u, part)
           IN  \/ Ready(s, v, T, part, p, offset, w, how)
               \/ ~v.ok /\ Io(s, v, T, p + part.size, offset, w, how)
<1> DEFINE v == LoadPart(u, part)
<1>1. /\ u \in Work /\ u.panic = "none" /\ Good(u, T) /\ Keeps(s, u, T) /\ Marked(s, u)
      /\ u.din.size = s.din.size /\ offset + u.alen = p
      /\ p <= u.din.blocks * BLKSIZE /\ Moved(s, u, offset, w, how)
  BY DEF Io, Reaches
<1>2. u.din.blocks \in Nat /\ u.alen \in Nat
  BY <1>1 DEF Work, Inode
<1>3. /\ part.blk \in Nat /\ part.off \in Offset /\ p = part.blk * BLKSIZE + part.off
      /\ part.size \in Nat /\ p \in Nat /\ offset \in Nat
  BY DEF Next1
<1>4. part.blk <= u.din.blocks
  BY <1>1, <1>2, <1>3, BlockInReach
<1>5. v = sfs_bmap_load_nolock(u, part.blk)
  BY DEF LoadPart
<1>6. Loads(u, v, T, part.blk)
  <2> HIDE DEF v
  <2> QED  BY <1>1, <1>3, <1>4, <1>5, LoadFacts
<1> HIDE DEF v
<1>7. CASE v.panic # "none"
  <2>1. v \in Work /\ ~v.ok /\ v.panic \in Failing
    BY <1>6, <1>7 DEF Loads
  <2>2. Io(s, v, T, p + part.size, offset, w, how)
    BY <2>1 DEF Io
  <2> QED  BY <2>1, <2>2 DEF v
<1>8. CASE v.panic = "none"
  <2>0. v.panic \notin Failing
    BY <1>8 DEF Failing
  <2>1. /\ v \in Work /\ Good(v, T) /\ Keeps(u, v, T) /\ SameBytes(u, v) /\ Marked(u, v)
        /\ v.din.size = u.din.size /\ v.alen = u.alen /\ v.buf = u.buf
    BY <1>6, <2>0 DEF Loads
  <2>2. Keeps(s, v, T)
    BY <1>1, <2>1, KeepsOn
  <2>3. Marked(s, v)
    BY <1>1, <2>1, MarkedOn
  <2>4. Moved(s, v, offset, w, how)
    BY <1>1, <2>1, MovedSame
  <2>5. v.din.blocks \in Nat
    BY <2>1 DEF Work, Inode
  <2>6. CASE v.ok
    <3>1. /\ v.ino = At(v.din, v.entry, part.blk) /\ v.ino # 0
          /\ v.din.blocks = IF part.blk = u.din.blocks THEN part.blk + 1 ELSE u.din.blocks
      BY <1>6, <2>0, <2>6 DEF Loads
    <3>2. part.blk + 1 <= v.din.blocks
      BY <1>2, <1>3, <1>4, <3>1
    <3>3. part.blk \in Index
      <4>1. v.din.blocks <= NDIRECT + NENTRY
        BY <2>1 DEF Good, Sizes
      <4> QED  BY <1>3, <2>5, <3>2, <4>1 DEF Index, Layout
    <3>4. Ready(s, v, T, part, p, offset, w, how)
      BY <1>1, <1>8, <2>1, <2>2, <2>3, <2>4, <2>6, <3>1, <3>2, <3>3 DEF Ready
    <3> QED  BY <3>4 DEF v
  <2>7. CASE ~v.ok
    <3>1. v.din.blocks = u.din.blocks
      BY <1>6, <2>0, <2>7 DEF Loads
    <3>2. offset + v.alen <= p + part.size
      BY <1>1, <1>2, <1>3, <2>1
    <3>3. offset + v.alen <= v.din.blocks * BLKSIZE
      BY <1>1, <2>1, <3>1
    <3>4. Reaches(v, p + part.size, offset)
      BY <2>7, <3>2, <3>3 DEF Reaches
    <3>5. Io(s, v, T, p + part.size, offset, w, how)
      BY <1>1, <1>8, <2>1, <2>2, <2>3, <2>4, <3>4 DEF Io
    <3> QED  BY <2>7, <3>5 DEF v
  <2> QED  BY <2>6, <2>7
<1> QED  BY <1>7, <1>8

\* The block that was looked up is the file's own.
OwnBlock(v, T, blk) ==
    /\ v.ino \in Block /\ v.ino \notin T
    /\ \A i \in Index : At(v.din, v.entry, i) = v.ino => i = blk

LEMMA OwnBlockFacts ==
    ASSUME NEW v, NEW T, NEW blk, Layout, T \in SUBSET Block, Good(v, T),
           v.ino = At(v.din, v.entry, blk), v.ino # 0, blk \in Index
    PROVE  OwnBlock(v, T, blk)
<1>1. /\ v \in Work /\ v.din \in Inode /\ v.entry \in Entries
      /\ Exact(v.freemap, v.din, v.entry, T)
  BY DEF Good, Core, Work
<1>2. blk \in Key /\ Index \subseteq Key
  BY DEF Key
<1>3. v.ino \in Block
  BY <1>1, <1>2, AtType
<1>4. v.ino \notin T
  BY <1>1, <1>2 DEF Exact
<1>5. ASSUME NEW i \in Index, At(v.din, v.entry, i) = v.ino  PROVE i = blk
  BY <1>1, <1>2, <1>5 DEF Exact
<1> QED  BY <1>3, <1>4, <1>5 DEF OwnBlock

LEMMA WriteStep ==
    ASSUME NEW s, NEW v, NEW T, NEW part, NEW p, NEW offset, NEW w, Layout,
           T \in SUBSET Block, s \in Work, Ready(s, v, T, part, p, offset, w, "write"),
           Next1(part, p, offset, w, "write")
    PROVE  Io(s, WritePart(v, part, w), T, p + part.size, offset, w, "write")
<1> DEFINE t == WritePart(v, part, w)
           blk == part.blk
           off == part.off
           size == part.size
<1>1. /\ v \in Work /\ v.ok /\ v.panic = "none" /\ Good(v, T)
      /\ Keeps(s, v, T) /\ Marked(s, v) /\ v.din.size = s.din.size
      /\ v.ino = At(v.din, v.entry, blk) /\ v.ino # 0 /\ blk \in Index
      /\ offset + v.alen = p /\ blk + 1 <= v.din.blocks
  BY DEF Ready
<1>2. /\ blk \in Nat /\ off \in Offset /\ size \in Nat /\ off \in Nat
      /\ off + size <= BLKSIZE /\ p = blk * BLKSIZE + off /\ offset \in Nat /\ p \in Nat
      /\ offset <= p /\ w \in Seq(Nat) /\ p + size <= offset + Len(w)
  BY DEF Next1, Offset
<1>3. v.alen \in Nat /\ v.din.blocks \in Nat /\ BLKSIZE \in Nat /\ v.data \in Data
  BY <1>1 DEF Work, Inode, Layout
<1>4. v.ino \in Block /\ v.ino \notin T
      /\ \A i \in Index : At(v.din, v.entry, i) = v.ino => i = blk
  <2>1. OwnBlock(v, T, blk)
    BY <1>1, OwnBlockFacts
  <2> QED  BY <2>1 DEF OwnBlock
<1>5. v.alen + size <= Len(w)
  <2>1. Len(w) \in Nat
    BY <1>2
  <2> HIDE DEF size
  <2> QED  BY <1>1, <1>2, <1>3, <2>1
<1>6. Puts(v, t, part, w)
  <2> HIDE DEF t
  <2> QED  BY <1>1, <1>2, <1>4, <1>5, PutsFacts DEF t
<1> HIDE DEF t
<1>7. /\ t \in Work /\ t.freemap = v.freemap /\ t.unused = v.unused /\ t.entry = v.entry
      /\ t.din = v.din /\ t.dirty = v.dirty /\ t.ok = v.ok /\ t.panic = v.panic
      /\ t.alen = v.alen + size
      /\ \A b \in Block : b # v.ino => t.data[b] = v.data[b]
      /\ \A j \in Offset :
           t.data[v.ino][j] = IF off <= j /\ j < off + size
                                THEN w[v.alen + j - off + 1] ELSE v.data[v.ino][j]
  BY <1>6 DEF Puts
<1>8. Good(t, T)
  BY <1>1, <1>7 DEF Good, Core
<1>9. Keeps(s, t, T)
  <2>1. \A b \in T : b \in Block /\ b # v.ino
    BY <1>4
  <2> QED  BY <1>1, <1>7, <2>1 DEF Keeps
<1>10. Marked(s, t)
  BY <1>1, <1>7 DEF Marked
<1>11. Reaches(t, p + size, offset)
  <2> DEFINE x == blk * BLKSIZE
             y == v.din.blocks * BLKSIZE
  <2>1. x + BLKSIZE <= y /\ x \in Nat /\ y \in Nat
    <3> DEFINE m == blk
               n == v.din.blocks
    <3>1. m \in Nat /\ n \in Nat /\ m + 1 \in Nat /\ m + 1 <= n
      BY <1>1, <1>2, <1>3, SMTT(30)
    <3> HIDE DEF m, n
    <3>2. (m + 1) * BLKSIZE <= n * BLKSIZE /\ n * BLKSIZE \in Nat
      BY <1>3, <3>1, Multiples
    <3>3. (m + 1) * BLKSIZE = m * BLKSIZE + BLKSIZE /\ m * BLKSIZE \in Nat
      BY <1>3, <3>1, Multiples
    <3> QED  BY <3>2, <3>3 DEF m, n
  <2>2. Reaches(t, p + size, offset) <=>
          /\ offset + t.alen <= p + size /\ (t.ok => offset + t.alen = p + size)
          /\ offset + t.alen <= y
    BY <1>7 DEF Reaches
  <2>3. p = x + off
    BY <1>2
  <2> HIDE DEF x, y
  <2>4. offset + (v.alen + size) = p + size /\ p + size <= y
    <3> DEFINE m == v.alen
               a == off
               z == size
    <3>1. /\ offset \in Nat /\ m \in Nat /\ p \in Nat /\ z \in Nat /\ a \in Nat
          /\ offset + m = p /\ a + z <= BLKSIZE /\ p = x + a
      BY <1>1, <1>2, <1>3, <2>3
    <3> HIDE DEF m, a, z
    <3>2. offset + (m + z) = p + z /\ p + z <= y
      BY <1>3, <2>1, <3>1
    <3> QED  BY <3>2 DEF m, z
  <2>5. offset + t.alen = p + size
    BY <1>7, <2>4
  <2> QED  BY <1>2, <2>2, <2>4, <2>5
<1>12. ASSUME NEW i \in Index, NEW j \in Offset
       PROVE  ByteAt(t, i, j) = IF i = blk /\ off <= j /\ j < off + size
                                  THEN w[v.alen + j - off + 1] ELSE ByteAt(v, i, j)
  <2>1. CASE i = blk
    BY <1>1, <1>4, <1>7, <2>1 DEF ByteAt
  <2>2. CASE i # blk
    <3>1. At(v.din, v.entry, i) # v.ino
      BY <1>4, <2>2
    <3>2. At(v.din, v.entry, i) # 0 => At(v.din, v.entry, i) \in Block
      BY <1>1, AtType DEF Key, Work
    <3> QED  BY <1>7, <2>2, <3>1, <3>2 DEF ByteAt
  <2> QED  BY <2>1, <2>2
<1>13. Written(s, v, offset, w)
  BY DEF Ready, Moved
<1>14. Written(s, t, offset, w)
  <2> SUFFICES ASSUME NEW i \in Index, NEW j \in Offset
               PROVE  WrittenAt(s, t, offset, w, i, j, i * BLKSIZE + j)
    BY DEF Written
  <2> DEFINE x == i * BLKSIZE + j
             y == blk * BLKSIZE
  <2>1. x \in Nat /\ i \in Nat /\ j \in Nat
    BY <1>3 DEF Index, Offset
  <2>2. WrittenAt(s, v, offset, w, i, j, x)
    BY <1>13 DEF Written
  <2>3. p <= x /\ x < p + size <=> i = blk /\ off <= j /\ j < off + size
    <3>1. Inside(i, j, blk, off, size) <=> i = blk /\ off <= j /\ j < off + size
      BY <1>2, <2>1, InsideOf
    <3>2. Inside(i, j, blk, off, size) <=> p <= x /\ x < p + size
      BY <1>2 DEF Inside
    <3> QED  BY <3>1, <3>2
  <2>4. (i = blk => x = y + j) /\ y \in Nat /\ p = y + off
    BY <1>2, <1>3, SMTT(30)
  <2> HIDE DEF x, y
  <2>5. ByteAt(t, i, j) = IF i = blk /\ off <= j /\ j < off + size
                            THEN w[v.alen + j - off + 1] ELSE ByteAt(v, i, j)
    BY <1>12
  <2>6. /\ i = blk => v.alen + j - off + 1 = x - offset + 1
        /\ offset <= x /\ x < offset + t.alen <=>
              (offset <= x /\ x < offset + v.alen) \/ (p <= x /\ x < p + size)
    <3>1. /\ v.alen \in Nat /\ offset \in Nat /\ off \in Nat /\ p \in Nat /\ size \in Nat
          /\ offset + v.alen = p /\ t.alen = v.alen + size
      BY <1>1, <1>2, <1>3, <1>7
    <3> DEFINE m == v.alen
               a == off
               z == size
    <3>0. m \in Nat /\ a \in Nat /\ z \in Nat /\ offset + m = p /\ p = y + a
      BY <2>4, <3>1
    <3> HIDE DEF m, a, z
    <3>2. i = blk => m + j - a + 1 = x - offset + 1
      BY <2>1, <2>4, <3>0, <3>1
    <3>3. offset <= x /\ x < offset + (m + z) <=>
              (offset <= x /\ x < offset + m) \/ (p <= x /\ x < p + z)
      BY <2>1, <3>0, <3>1
    <3> QED  BY <3>1, <3>2, <3>3 DEF m, a, z
  <2>7. CASE p <= x /\ x < p + size
    <3>1. ByteAt(t, i, j) = w[x - offset + 1]
      BY <2>3, <2>5, <2>6, <2>7
    <3>2. offset <= x /\ x < offset + t.alen
      BY <2>6, <2>7
    <3> QED  BY <3>1, <3>2 DEF WrittenAt, x
  <2>8. CASE ~(p <= x /\ x < p + size)
    <3>1. ByteAt(t, i, j) = ByteAt(v, i, j)
      BY <2>3, <2>5, <2>8
    <3>2. (offset <= x /\ x < offset + t.alen) <=> (offset <= x /\ x < offset + v.alen)
      BY <2>6, <2>8
    <3>3. WrittenAt(s, t, offset, w, i, j, x)
      BY <2>2, <3>1, <3>2 DEF WrittenAt
    <3> QED  BY <3>3 DEF x
  <2> QED  BY <2>7, <2>8
<1>15. Moved(s, t, offset, w, "write")
  BY <1>14 DEF Moved
<1>16. Io(s, t, T, p + size, offset, w, "write")
  BY <1>1, <1>7, <1>8, <1>9, <1>10, <1>11, <1>15 DEF Io
<1> QED  BY <1>16 DEF t

LEMMA ReadStep ==
    ASSUME NEW s, NEW v, NEW T, NEW part, NEW p, NEW offset, NEW w, Layout,
           T \in SUBSET Block, s \in Work, Ready(s, v, T, part, p, offset, w, "read"),
           Next1(part, p, offset, w, "read")
    PROVE  Io(s, ReadPart(v, part), T, p + part.size, offset, w, "read")
<1> DEFINE t == ReadPart(v, part)
           blk == part.blk
           off == part.off
           size == part.size
<1>1. /\ v \in Work /\ v.ok /\ v.panic = "none" /\ Good(v, T)
      /\ Keeps(s, v, T) /\ Marked(s, v) /\ v.din.size = s.din.size
      /\ v.ino = At(v.din, v.entry, blk) /\ v.ino # 0 /\ blk \in Index
      /\ offset + v.alen = p /\ blk + 1 <= v.din.blocks
  BY DEF Ready
<1>2. /\ blk \in Nat /\ off \in Offset /\ size \in Nat /\ off \in Nat
      /\ off + size <= BLKSIZE /\ p = blk * BLKSIZE + off /\ offset \in Nat /\ p \in Nat
      /\ offset <= p
  BY DEF Next1, Offset
<1>3. v.alen \in Nat /\ v.din.blocks \in Nat /\ BLKSIZE \in Nat /\ v.data \in Data
  BY <1>1 DEF Work, Inode, Layout
<1>4. v.ino \in Block
  <2>1. OwnBlock(v, T, blk)
    BY <1>1, OwnBlockFacts
  <2> QED  BY <2>1 DEF OwnBlock
<1>6. Gets(v, t, part)
  <2> HIDE DEF t
  <2> QED  BY <1>1, <1>2, <1>4, GetsFacts DEF t
<1> HIDE DEF t
<1>7. /\ t \in Work /\ t.freemap = v.freemap /\ t.unused = v.unused /\ t.entry = v.entry
      /\ t.data = v.data /\ t.din = v.din /\ t.dirty = v.dirty /\ t.ok = v.ok
      /\ t.panic = v.panic /\ t.alen = v.alen + size
      /\ Len(t.buf) = Len(v.buf) + size
      /\ \A x \in 1..Len(v.buf) + size :
           t.buf[x] = IF x <= Len(v.buf) THEN v.buf[x]
                      ELSE v.data[v.ino][off + (x - Len(v.buf)) - 1]
  BY <1>6 DEF Gets
<1>8. Good(t, T)
  BY <1>1, <1>7 DEF Good, Core
<1>9. Keeps(s, t, T)
  BY <1>1, <1>7 DEF Keeps
<1>10. Marked(s, t)
  BY <1>1, <1>7 DEF Marked
<1>11. Reaches(t, p + size, offset)
  <2> DEFINE x == blk * BLKSIZE
             y == v.din.blocks * BLKSIZE
  <2>1. x + BLKSIZE <= y /\ x \in Nat /\ y \in Nat
    <3> DEFINE m == blk
               n == v.din.blocks
    <3>1. m \in Nat /\ n \in Nat /\ m + 1 \in Nat /\ m + 1 <= n
      BY <1>1, <1>2, <1>3
    <3> HIDE DEF m, n
    <3>2. (m + 1) * BLKSIZE <= n * BLKSIZE /\ n * BLKSIZE \in Nat
      BY <1>3, <3>1, Multiples
    <3>3. (m + 1) * BLKSIZE = m * BLKSIZE + BLKSIZE /\ m * BLKSIZE \in Nat
      BY <1>3, <3>1, Multiples
    <3> QED  BY <3>2, <3>3 DEF m, n
  <2>2. Reaches(t, p + size, offset) <=>
          /\ offset + t.alen <= p + size /\ (t.ok => offset + t.alen = p + size)
          /\ offset + t.alen <= y
    BY <1>7 DEF Reaches
  <2>3. p = x + off
    BY <1>2
  <2> HIDE DEF x, y
  <2>4. offset + (v.alen + size) = p + size /\ p + size <= y
    <3> DEFINE m == v.alen
               a == off
               z == size
    <3>1. /\ offset \in Nat /\ m \in Nat /\ p \in Nat /\ z \in Nat /\ a \in Nat
          /\ offset + m = p /\ a + z <= BLKSIZE /\ p = x + a
      BY <1>1, <1>2, <1>3, <2>3
    <3> HIDE DEF m, a, z
    <3>2. offset + (m + z) = p + z /\ p + z <= y
      BY <1>3, <2>1, <3>1
    <3> QED  BY <3>2 DEF m, z
  <2>5. offset + t.alen = p + size
    BY <1>7, <2>4
  <2> QED  BY <1>2, <2>2, <2>4, <2>5
<1>12. SameBytes(s, v) /\ WasRead(s, v, offset)
  BY DEF Ready, Moved
<1>13. SameBytes(s, t)
  BY <1>7, <1>12 DEF SameBytes, ByteAt
<1>14. WasRead(s, t, offset)
  <2>1. Len(v.buf) = v.alen /\ \A x \in 1..v.alen : v.buf[x] = FileByte(s, offset + x - 1)
    BY <1>12 DEF WasRead
  <2>2. Len(t.buf) = t.alen
    BY <1>7, <2>1
  <2>3. ASSUME NEW x \in 1..t.alen  PROVE t.buf[x] = FileByte(s, offset + x - 1)
    <3>1. x \in 1..v.alen + size /\ x \in Nat
      BY <1>7
    <3>2. CASE x <= v.alen
      <4>1. x \in 1..v.alen
        BY <1>3, <3>2
      <4>2. t.buf[x] = v.buf[x]
        BY <1>7, <2>1, <3>1, <3>2
      <4> QED  BY <2>1, <4>1, <4>2
    <3>3. CASE ~(x <= v.alen)
      <4> DEFINE j == off + (x - v.alen) - 1
      <4>1. t.buf[x] = v.data[v.ino][j]
        BY <1>7, <2>1, <3>1, <3>3
      <4>2. j \in Offset
        <5> DEFINE m == v.alen
                   a == off
                   z == size
        <5>1. m \in Nat /\ a \in Nat /\ z \in Nat /\ a + z <= BLKSIZE /\ x \in 1..m + z
              /\ ~(x <= m)
          BY <1>2, <1>3, <3>1, <3>3
        <5> HIDE DEF m, a, z
        <5>2. a + (x - m) - 1 \in 0..BLKSIZE - 1
          BY <1>3, <5>1
        <5> QED  BY <5>2 DEF m, a, Offset
      <4>3. ByteAt(v, blk, j) = v.data[v.ino][j]
        BY <1>1 DEF ByteAt
      <4>4. ByteAt(s, blk, j) = ByteAt(v, blk, j)
        <5> HIDE DEF j
        <5> QED  BY <1>1, <1>12, <4>2 DEF SameBytes
      <4>5. FileByte(s, blk * BLKSIZE + j) = ByteAt(s, blk, j)
        <5> HIDE DEF j
        <5> QED  BY <1>2, <4>2, FileByteAt
      <4>6. blk * BLKSIZE + j = offset + x - 1
        <5> DEFINE m == v.alen
                   a == off
                   y == blk * BLKSIZE
        <5>1. m \in Nat /\ a \in Nat /\ offset + m = p /\ y \in Nat /\ p = y + a
          BY <1>1, <1>2, <1>3
        <5> HIDE DEF m, a, y
        <5>2. y + (a + (x - m) - 1) = offset + x - 1
          BY <1>2, <3>1, <5>1
        <5> QED  BY <5>2 DEF m, a, y
      <4> QED  BY <4>1, <4>3, <4>4, <4>5, <4>6
    <3> QED  BY <3>2, <3>3
  <2> QED  BY <2>2, <2>3 DEF WasRead
<1>15. Moved(s, t, offset, w, "read")
  BY <1>13, <1>14 DEF Moved
<1>16. Io(s, t, T, p + size, offset, w, "read")
  BY <1>1, <1>7, <1>8, <1>9, <1>10, <1>11, <1>15 DEF Io
<1> QED  BY <1>16 DEF t

LEMMA IoStep ==
    ASSUME NEW s, NEW u, NEW T, NEW part, NEW p, NEW offset, NEW w, NEW how, Layout,
           T \in SUBSET Block, s \in Work, Io(s, u, T, p, offset, w, how),
           Next1(part, p, offset, w, how)
    PROVE  Io(s, IoPart(u, part, w, how = "write"), T, p + part.size, offset, w, how)
<1>1. CASE ~u.ok
  <2>1. IoPart(u, part, w, how = "write") = u
    BY <1>1 DEF IoPart, LoadPart, ReadPart, WritePart
  <2>2. offset + u.alen <= p => offset + u.alen <= p + part.size
    <3>1. p \in Nat /\ part.size \in Nat /\ offset \in Nat
      BY DEF Next1
    <3>2. u.alen \in Nat
      BY DEF Io, Work
    <3> QED  BY <3>1, <3>2
  <2>3. Io(s, u, T, p + part.size, offset, w, how)
    BY <1>1, <2>2 DEF Io, Reaches
  <2> QED  BY <2>1, <2>3
<1>2. CASE u.ok
  <2> DEFINE v == LoadPart(u, part)
  <2>1. \/ Ready(s, v, T, part, p, offset, w, how)
        \/ ~v.ok /\ Io(s, v, T, p + part.size, offset, w, how)
    BY <1>2, LoadedReady
  <2>2. how \in {"read", "write"}
    BY DEF Next1
  <2>3. IoPart(u, part, w, how = "write") =
          IF how = "write" THEN WritePart(v, part, w) ELSE ReadPart(v, part)
    BY Zenon DEF IoPart
  <2> HIDE DEF v
  <2>4. CASE ~v.ok /\ Io(s, v, T, p + part.size, offset, w, how)
    <3>1. WritePart(v, part, w) = v /\ ReadPart(v, part) = v
      BY <2>4 DEF WritePart, ReadPart
    <3> QED  BY <2>3, <2>4, <3>1
  <2>5. CASE Ready(s, v, T, part, p, offset, w, how)
    <3>1. CASE how = "write"
      <4>1. Io(s, WritePart(v, part, w), T, p + part.size, offset, w, "write")
        BY <2>5, <3>1, WriteStep
      <4> QED  BY <2>3, <3>1, <4>1
    <3>2. CASE how = "read"
      <4>1. Io(s, ReadPart(v, part), T, p + part.size, offset, w, "read")
        BY <2>5, <3>2, ReadStep
      <4> QED  BY <2>3, <3>2, <4>1
    <3> QED  BY <2>2, <3>1, <3>2
  <2> QED  BY <2>1, <2>4, <2>5
<1> QED  BY <1>1, <1>2

\* Where the first k of n parts end.
Upto(k, offset, q, n, e) ==
    IF k = 0 THEN offset ELSE (q + k - 1) * BLKSIZE + (IF k = n THEN e ELSE BLKSIZE)

\* What is written is as long as the range.
Fills(offset, endpos, w, how) ==
    how \in {"read", "write"} /\ (how = "write" => w \in Seq(Nat) /\ endpos <= offset + Len(w))

Follows(part, p, p2, offset, w, how) ==
    Next1(part, p, offset, w, how) /\ p + part.size = p2

LEMMA UptoPart ==
    ASSUME NEW offset, NEW endpos, NEW q, NEW r, NEW n, NEW e, NEW w, NEW how, NEW k, Layout,
           offset \in Nat, endpos \in Nat, Spans(offset, endpos, q, r, n, e),
           Fills(offset, endpos, w, how), k \in 0..n - 1
    PROVE  /\ Follows(PartNo(k + 1, q, r, n, e), Upto(k, offset, q, n, e),
                      Upto(k + 1, offset, q, n, e), offset, w, how)
           /\ Upto(k + 1, offset, q, n, e) <= endpos /\ PartNo(k + 1, q, r, n, e).size # 0
<1> DEFINE part == PartNo(k + 1, q, r, n, e)
           p == Upto(k, offset, q, n, e)
           off == IF k = 0 THEN r ELSE 0
           end == IF k + 1 = n THEN e ELSE BLKSIZE
           x == (q + k) * BLKSIZE
           z == q * BLKSIZE
           y == (q + n - 1) * BLKSIZE
<1>1. /\ BLKSIZE \in Nat /\ BLKSIZE > 0 /\ BLKSIZE \in Nat
      /\ q \in Nat /\ r \in 0..BLKSIZE - 1 /\ n \in Nat /\ n # 0 /\ e \in 1..BLKSIZE
      /\ (n = 1 => r < e) /\ k \in Nat /\ k < n
  BY SMTT(30) DEF Layout, Spans
<1>2. offset = z + r /\ endpos = y + e
  BY DEF Spans
<1>3. part.blk = q + k /\ part.off = off /\ part.size = end - off
  <2>1. q + (k + 1) - 1 = q + k /\ (k + 1 = 1 <=> k = 0)
    BY <1>1
  <2> QED  BY <2>1 DEF PartNo
<1>4. x \in Nat /\ y \in Nat /\ z \in Nat
  <2>1. q + k \in Nat /\ q + n - 1 \in Nat
    BY <1>1
  <2> QED  BY <1>1, <2>1, Multiples
<1>5. k # 0 => z + BLKSIZE <= x
  <2> SUFFICES ASSUME k # 0  PROVE z + BLKSIZE <= x
    OBVIOUS
  <2>1. q + 1 \in Nat /\ q + k \in Nat /\ q + 1 <= q + k
    BY <1>1
  <2>2. (q + 1) * BLKSIZE <= (q + k) * BLKSIZE
    BY <1>1, <2>1, Multiples
  <2>3. (q + 1) * BLKSIZE = z + BLKSIZE
    BY <1>1, Multiples
  <2> QED  BY <2>2, <2>3
<1>6. k = 0 => x = z
  BY <1>1
<1>7. k + 1 # n => x + BLKSIZE <= y
  <2> SUFFICES ASSUME k + 1 # n  PROVE x + BLKSIZE <= y
    OBVIOUS
  <2> DEFINE a == q + k
             b == q + n - 1
  <2>1. a \in Nat /\ a + 1 \in Nat /\ b \in Nat /\ a + 1 <= b
    BY <1>1
  <2> HIDE DEF a, b
  <2>2. (a + 1) * BLKSIZE <= b * BLKSIZE
    BY <1>1, <2>1, Multiples
  <2>3. (a + 1) * BLKSIZE = a * BLKSIZE + BLKSIZE
    BY <1>1, <2>1, Multiples
  <2>4. a * BLKSIZE + BLKSIZE <= b * BLKSIZE
    BY <2>2, <2>3
  <2> QED  BY <2>4 DEF a, b
<1>8. k + 1 = n => x = y
  <2> SUFFICES ASSUME k + 1 = n  PROVE x = y
    OBVIOUS
  <2>1. q + k = q + n - 1
    BY <1>1
  <2> QED  BY <2>1
<1>9. p = x + off
  <2>1. CASE k = 0
    <3>1. p = offset
      BY <2>1 DEF Upto
    <3>2. offset = x + off
      BY <1>2, <1>6, <2>1
    <3> QED  BY <3>1, <3>2
  <2>2. CASE k # 0
    <3>1. p = (q + k - 1) * BLKSIZE + BLKSIZE
      BY <1>1, <2>2 DEF Upto
    <3> DEFINE a == q + k - 1
    <3>2. a \in Nat /\ q + k = a + 1
      BY <1>1, <2>2
    <3> HIDE DEF a
    <3>3. (a + 1) * BLKSIZE = a * BLKSIZE + BLKSIZE
      BY <1>1, <3>2, Multiples
    <3>4. x = a * BLKSIZE + BLKSIZE
      BY <3>2, <3>3
    <3>5. x \in Nat /\ off = 0
      BY <1>4, <2>2
    <3>6. p = x
      BY <3>1, <3>4 DEF a
    <3> HIDE DEF x, p
    <3> QED  BY <3>5, <3>6
  <2> QED  BY <2>1, <2>2
<1>10. Upto(k + 1, offset, q, n, e) = x + end
  <2>1. k + 1 # 0 /\ q + (k + 1) - 1 = q + k
    BY <1>1
  <2> QED  BY <2>1 DEF Upto
<1>11. /\ off \in 0..BLKSIZE - 1 /\ end \in 1..BLKSIZE /\ off < end
  BY <1>1
<1> HIDE DEF p, part, x, y, z
<1>12. p \in Nat /\ offset <= p
  BY <1>1, <1>2, <1>4, <1>5, <1>6, <1>9
<1>13. x + end <= endpos
  BY <1>1, <1>2, <1>4, <1>7, <1>8
<1> HIDE DEF off, end
<1>14. p + part.size = x + end
  BY <1>1, <1>3, <1>4, <1>9, <1>11
<1>15. /\ part.blk \in Nat /\ part.off \in Offset /\ part.size \in Nat
       /\ part.off + part.size <= BLKSIZE
  BY <1>1, <1>3, <1>11 DEF Offset
<1>16. p = part.blk * BLKSIZE + part.off
  BY <1>3, <1>9 DEF x
<1>17. how = "write" => w \in Seq(Nat) /\ p + part.size <= offset + Len(w)
  <2> SUFFICES ASSUME how = "write"
               PROVE  w \in Seq(Nat) /\ p + part.size <= offset + Len(w)
    OBVIOUS
  <2>1. w \in Seq(Nat) /\ endpos <= offset + Len(w) /\ Len(w) \in Nat
    BY DEF Fills
  <2>2. x + end \in Nat
    BY <1>4, <1>11, <1>1
  <2> QED  BY <1>13, <1>14, <2>1, <2>2
<1>18. Next1(part, p, offset, w, how)
  BY <1>12, <1>15, <1>16, <1>17 DEF Next1, Fills
<1>19. part.size # 0
  BY <1>1, <1>3, <1>11
<1> QED  BY <1>10, <1>13, <1>14, <1>18, <1>19 DEF part, p, Follows

\* All parts of a range, one after the other.
LEMMA IoFacts ==
    ASSUME NEW s, NEW T, NEW offset \in Nat, NEW endpos \in Nat, NEW w, NEW how, Layout,
           T \in SUBSET Block, s \in Work, Io(s, s, T, offset, offset, w, how),
           Fills(offset, endpos, w, how), offset < endpos
    PROVE  Io(s, IoFold(s, Parts(offset, endpos), w, how), T, endpos, offset, w, how)
<1> DEFINE seq == Parts(offset, endpos)
           F == IoFold(s, seq, w, how)
<1>1. PICK q, r, n, e : IsCut(offset, endpos, q, r, n, e)
  BY PartsSpan
<1>2. Spans(offset, endpos, q, r, n, e) /\ DOMAIN seq = 1..n
      /\ \A k \in 1..n : seq[k] = PartNo(k, q, r, n, e)
  BY <1>1 DEF IsCut, AreParts
<1>3. n \in Nat /\ n # 0 /\ how \in {"read", "write"} /\ endpos = (q + n - 1) * BLKSIZE + e
  BY <1>2 DEF Spans, Fills
<1> HIDE DEF seq
<1>4. PICK f : Run(f, s, seq, n, how, w) /\ f[n] = F
  <2>1. n \in Nat /\ DOMAIN seq = 1..n /\ how \in {"read", "write"}
    BY <1>2, <1>3
  <2> QED  BY <2>1, IoRun
<1> HIDE DEF F
<1> DEFINE N == {k \in Nat : k <= n => Io(s, f[k], T, Upto(k, offset, q, n, e), offset, w, how)}
<1>6. 0 \in N
  BY <1>4 DEF Run, Upto
<1>7. ASSUME NEW k \in Nat, k \in N  PROVE k + 1 \in N
  <2> SUFFICES ASSUME k + 1 <= n
               PROVE  Io(s, f[k + 1], T, Upto(k + 1, offset, q, n, e), offset, w, how)
    OBVIOUS
  <2> DEFINE part == PartNo(k + 1, q, r, n, e)
             p == Upto(k, offset, q, n, e)
             u == f[k]
  <2>1. k \in 0..n - 1 /\ k + 1 \in 1..n /\ k <= n /\ (k + 1) - 1 = k
    BY <1>3
  <2>2. f[k + 1] = IoPart(u, part, w, how = "write")
    BY <1>2, <1>3, <1>4, <2>1, Zenon DEF Run, Turn
  <2>3. Io(s, u, T, p, offset, w, how)
    BY <1>7, <2>1
  <2>4. Follows(part, p, Upto(k + 1, offset, q, n, e), offset, w, how)
    BY <1>2, <2>1, UptoPart
  <2> HIDE DEF part, p, u
  <2>5. Io(s, IoPart(u, part, w, how = "write"), T, p + part.size, offset, w, how)
    BY <2>3, <2>4, IoStep DEF Follows
  <2> QED  BY <2>2, <2>4, <2>5 DEF Follows
<1>8. Nat \subseteq N
  <2> HIDE DEF N
  <2> QED  BY <1>6, <1>7, Induction
<1>9. Io(s, f[n], T, Upto(n, offset, q, n, e), offset, w, how)
  BY <1>3, <1>8
<1>10. Upto(n, offset, q, n, e) = endpos
  BY <1>3 DEF Upto
<1>11. Io(s, F, T, endpos, offset, w, how)
  BY <1>4, <1>9, <1>10
<1> QED  BY <1>11, Zenon DEF F, seq

\* What sfs_io_nolock does.
Did(s, t, T, offset, endpos, w, how) ==
    /\ t \in Work
    /\ \/ /\ t.panic = "none" /\ Good(t, T)
          /\ Keeps(s, t, T) /\ Marked(s, t) /\ Blank(t)
          /\ t.din.size = IF offset + t.alen > s.din.size THEN offset + t.alen ELSE s.din.size
          /\ offset + t.alen <= endpos /\ (t.ok => offset + t.alen = endpos)
          /\ Moved(s, t, offset, w, how)
       \/ ~t.ok /\ t.panic \in Failing

Starts(s, T, offset) ==
    /\ Good(s, T) /\ s.ok /\ Blank(s) /\ s.alen = 0 /\ s.buf = << >>
    /\ offset \in Nat /\ offset <= s.din.size

LEMMA IoBegins ==
    ASSUME NEW s, NEW T, NEW offset, NEW w, NEW how, Layout, Starts(s, T, offset)
    PROVE  Io(s, s, T, offset, offset, w, how)
<1>1. /\ s \in Work /\ s.panic = "none" /\ Good(s, T) /\ offset \in Nat /\ s.alen = 0
      /\ s.din.size \in Nat /\ s.din.blocks \in Nat
  BY DEF Starts, Good, Core, Work, Inode
<1>2. Reaches(s, offset, offset)
  <2>1. s.din.blocks * BLKSIZE \in Nat /\ s.din.size <= s.din.blocks * BLKSIZE
    BY <1>1 DEF Layout, Good, Sizes
  <2>2. offset <= s.din.size
    BY DEF Starts
  <2> DEFINE y == s.din.blocks * BLKSIZE
  <2>3. y \in Nat /\ s.din.size <= y
    BY <2>1
  <2> HIDE DEF y
  <2>4. offset + s.alen = offset /\ offset <= y
    BY <1>1, <2>2, <2>3
  <2> QED  BY <1>1, <2>4 DEF Reaches, y
<1>3. Moved(s, s, offset, w, how)
  <2>1. Written(s, s, offset, w)
    <3> SUFFICES ASSUME NEW i \in Index, NEW j \in Offset
                 PROVE  WrittenAt(s, s, offset, w, i, j, i * BLKSIZE + j)
      BY DEF Written
    <3> DEFINE x == i * BLKSIZE + j
    <3>1. x \in Nat
      BY DEF Index, Offset, Layout
    <3> HIDE DEF x
    <3>2. ~(offset <= x /\ x < offset + s.alen)
      BY <1>1, <3>1
    <3> QED  BY <3>2 DEF WrittenAt, x
  <2>2. SameBytes(s, s) /\ WasRead(s, s, offset)
    BY <1>1 DEF SameBytes, WasRead, Starts
  <2> QED  BY <2>1, <2>2 DEF Moved
<1>4. Keeps(s, s, T) /\ Marked(s, s)
  BY MarkedSame DEF Keeps
<1> QED  BY <1>1, <1>2, <1>3, <1>4 DEF Io

\* Behind what was written, and behind the old end, there are still zeros.
LEMMA BlankWritten ==
    ASSUME NEW s, NEW t, NEW offset, NEW w, NEW how, Layout, s \in Work, t \in Work,
           offset \in Nat, Blank(s), Moved(s, t, offset, w, how),
           t.din.size >= s.din.size, t.din.size >= offset + t.alen
    PROVE  Blank(t)
<1> SUFFICES ASSUME NEW i \in Index, NEW j \in Offset, i * BLKSIZE + j >= t.din.size
             PROVE  ByteAt(t, i, j) = 0
  BY DEF Blank
<1> DEFINE x == i * BLKSIZE + j
<1>1. x \in Nat /\ x >= t.din.size
  BY DEF Index, Offset, Layout
<1>2. s.din.size \in Nat /\ t.din.size \in Nat /\ t.alen \in Nat
  BY DEF Work, Inode
<1>3. x >= s.din.size => ByteAt(s, i, j) = 0
  BY DEF Blank
<1>4. CASE how = "write"
  <2>1. WrittenAt(s, t, offset, w, i, j, x)
    BY <1>4 DEF Moved, Written
  <2> HIDE DEF x
  <2>2. ~(x < offset + t.alen) /\ x >= s.din.size
    BY <1>1, <1>2
  <2> QED  BY <1>3, <2>1, <2>2 DEF WrittenAt
<1>5. CASE how # "write"
  <2>1. ByteAt(t, i, j) = ByteAt(s, i, j)
    BY <1>5 DEF Moved, SameBytes
  <2> HIDE DEF x
  <2>2. x >= s.din.size
    BY <1>1, <1>2
  <2> QED  BY <1>3, <2>1, <2>2
<1> QED  BY <1>4, <1>5

LEMMA SizedFacts ==
    ASSUME NEW s, NEW u, NEW T, NEW offset, NEW endpos, NEW w, NEW how, Layout,
           T \in SUBSET Block, Starts(s, T, offset), Io(s, u, T, endpos, offset, w, how)
    PROVE  Did(s, Sized(u, offset), T, offset, endpos, w, how)
<1> DEFINE len == offset + u.alen
           t == Sized(u, offset)
<1>1. /\ u \in Work /\ u.alen \in Nat /\ u.din.size \in Nat /\ offset \in Nat /\ len \in Nat
      /\ s \in Work /\ s.din.size \in Nat /\ Blank(s)
  BY DEF Io, Work, Inode, Starts, Good, Core
<1>2. t = IF len > u.din.size THEN Sizing(u, len) ELSE u
  BY DEF Sized, Sizing
<1>3. CASE u.panic # "none"
  <2>1. ~u.ok /\ u.panic \in Failing
    BY <1>3 DEF Io
  <2>2. Sizing(u, len) \in Work /\ Sizing(u, len).ok = u.ok /\ Sizing(u, len).panic = u.panic
    <3> HIDE DEF len
    <3> QED  BY <1>1, SizingFacts
  <2>3. t \in Work /\ ~t.ok /\ t.panic \in Failing
    BY <1>1, <1>2, <2>1, <2>2
  <2> QED  BY <2>3 DEF Did
<1>4. CASE u.panic = "none"
  <2>0. u.panic \notin Failing
    BY <1>4 DEF Failing
  <2>1. /\ Good(u, T) /\ Keeps(s, u, T) /\ Marked(s, u) /\ u.din.size = s.din.size
        /\ len <= endpos /\ (u.ok => len = endpos)
        /\ len <= u.din.blocks * BLKSIZE /\ Moved(s, u, offset, w, how)
    BY <2>0 DEF Io, Reaches
  <2>2. CASE len > u.din.size
    <3>1. Part(u, T) /\ Fits(u, len)
      BY <2>1, GoodIsPart DEF Fits
    <3>2. GivesSize(u, Sizing(u, len), T, len)
      <4> HIDE DEF len
      <4> QED  BY <1>1, <3>1, SizingGood
    <3>3. t = Sizing(u, len)
      BY <1>2, <2>2
    <3> HIDE DEF t
    <3>4. /\ t \in Work /\ t.panic = "none" /\ Good(t, T) /\ t.dirty
          /\ t.din.size = len /\ t.ok = u.ok /\ Keeps(u, t, T) /\ SameBytes(u, t)
          /\ t.alen = u.alen /\ t.buf = u.buf
      BY <3>2, <3>3 DEF GivesSize
    <3>5. Keeps(s, t, T)
      BY <2>1, <3>4, KeepsOn
    <3>6. Marked(s, t)
      BY <3>4 DEF Marked
    <3>7. Moved(s, t, offset, w, how)
      BY <2>1, <3>4, MovedSame
    <3>8. t.din.size >= s.din.size /\ t.din.size >= offset + t.alen
      BY <1>1, <2>1, <2>2, <3>4
    <3>9. Blank(t)
      BY <1>1, <3>4, <3>7, <3>8, BlankWritten
    <3>10. Did(s, t, T, offset, endpos, w, how)
      BY <2>1, <2>2, <3>4, <3>5, <3>6, <3>7, <3>9 DEF Did
    <3> QED  BY <3>10 DEF t
  <2>3. CASE ~(len > u.din.size)
    <3>1. t = u
      BY <1>2, <2>3
    <3> HIDE DEF t
    <3>2. u.din.size >= s.din.size /\ u.din.size >= offset + u.alen
      BY <1>1, <2>1, <2>3
    <3>3. Blank(u)
      BY <1>1, <2>1, <3>2, BlankWritten
    <3>4. Did(s, u, T, offset, endpos, w, how)
      BY <1>1, <1>4, <2>1, <2>3, <3>3 DEF Did
    <3> QED  BY <3>1, <3>4 DEF t
  <2> QED  BY <2>2, <2>3
<1> QED  BY <1>3, <1>4

LEMMA IoNolockFacts ==
    ASSUME NEW s, NEW T, NEW offset, NEW endpos, NEW w, NEW how, Layout,
           T \in SUBSET Block, Starts(s, T, offset), endpos \in Nat,
           offset <= endpos, Fills(offset, endpos, w, how)
    PROVE  Did(s, sfs_io_nolock(s, offset, endpos, w, how = "write"), T, offset, endpos, w, how)
<1>1. Io(s, s, T, offset, offset, w, how)
  BY IoBegins
<1>2. offset \in Nat /\ s \in Work
  BY DEF Starts, Good, Core
<1>3. CASE offset = endpos
  <2>1. sfs_io_nolock(s, offset, endpos, w, how = "write") = s
    BY <1>3, Zenon DEF sfs_io_nolock
  <2>2. /\ s.panic = "none" /\ Good(s, T) /\ Keeps(s, s, T) /\ Marked(s, s) /\ Blank(s)
        /\ s.alen = 0 /\ offset <= s.din.size /\ s.din.size \in Nat
    BY MarkedSame DEF Starts, Good, Core, Keeps, Work, Inode
  <2>3. s.panic \notin Failing
    BY <2>2 DEF Failing
  <2>4. Moved(s, s, offset, w, how)
    BY <1>1, <2>3 DEF Io
  <2>5. offset + s.alen = offset /\ ~(offset > s.din.size)
    BY <1>2, <2>2
  <2> QED  BY <1>2, <1>3, <2>1, <2>2, <2>4, <2>5 DEF Did
<1>4. CASE offset # endpos
  <2> DEFINE F == IoFold(s, Parts(offset, endpos), w, how)
  <2>1. sfs_io_nolock(s, offset, endpos, w, how = "write") = Sized(F, offset)
    BY <1>4, Zenon DEF sfs_io_nolock, IoFold
  <2>2. offset < endpos
    BY <1>2, <1>4
  <2>3. Io(s, F, T, endpos, offset, w, how)
    BY <1>1, <1>2, <2>2, IoFacts
  <2> HIDE DEF F
  <2>4. Did(s, Sized(F, offset), T, offset, endpos, w, how)
    BY <2>3, SizedFacts
  <2> QED  BY <2>1, <2>4
<1> QED  BY <1>3, <1>4

\* What sfs_read and sfs_write do.
LEMMA ReadFacts ==
    ASSUME NEW s, NEW T, NEW offset, NEW len, Layout, T \in SUBSET Block,
           Starts(s, T, offset), len \in Nat
    PROVE  Did(s, sfs_read(s, offset, len), T, offset,
               IF offset + len > s.din.size THEN s.din.size ELSE offset + len, << >>, "read")
<1> DEFINE endpos == IF offset + len > s.din.size THEN s.din.size ELSE offset + len
<1>1. offset \in Nat /\ s.din.size \in Nat /\ offset <= s.din.size
  BY DEF Starts, Good, Core, Work, Inode
<1>2. endpos \in Nat /\ offset <= endpos /\ (offset >= s.din.size => offset = endpos)
  BY <1>1
<1>3. sfs_read(s, offset, len) =
        IF offset >= s.din.size THEN s ELSE sfs_io_nolock(s, offset, endpos, << >>, FALSE)
  BY DEF sfs_read
<1> HIDE DEF endpos
<1>4. Fills(offset, endpos, << >>, "read")
  BY DEF Fills
<1>5. Did(s, sfs_io_nolock(s, offset, endpos, << >>, "read" = "write"), T, offset, endpos,
          << >>, "read")
  BY <1>2, <1>4, IoNolockFacts
<1>6. ("read" = "write") = FALSE
  OBVIOUS
<1>7. Did(s, sfs_io_nolock(s, offset, endpos, << >>, FALSE), T, offset, endpos, << >>, "read")
  BY <1>5, <1>6
<1>8. offset = endpos => sfs_io_nolock(s, offset, endpos, << >>, FALSE) = s
  BY Zenon DEF sfs_io_nolock
<1>9. sfs_read(s, offset, len) = sfs_io_nolock(s, offset, endpos, << >>, FALSE)
  BY <1>2, <1>3, <1>8
<1> QED  BY <1>7, <1>9 DEF endpos

LEMMA WriteFacts ==
    ASSUME NEW s, NEW T, NEW offset, NEW w, Layout, T \in SUBSET Block,
           Starts(s, T, offset), w \in Seq(Nat)
    PROVE  Did(s, sfs_write(s, offset, w), T, offset, offset + Len(w), w, "write")
<1> DEFINE endpos == offset + Len(w)
<1>1. offset \in Nat /\ Len(w) \in Nat
  BY DEF Starts
<1>2. endpos \in Nat /\ offset <= endpos
  BY <1>1
<1>3. sfs_write(s, offset, w) = sfs_io_nolock(s, offset, endpos, w, TRUE)
  BY DEF sfs_write
<1>4. Fills(offset, endpos, w, "write")
  BY <1>2 DEF Fills
<1> HIDE DEF endpos
<1>5. Did(s, sfs_io_nolock(s, offset, endpos, w, "write" = "write"), T, offset, endpos, w,
          "write")
  BY <1>2, <1>4, IoNolockFacts
<1>6. ("write" = "write") = TRUE
  OBVIOUS
<1>7. Did(s, sfs_io_nolock(s, offset, endpos, w, TRUE), T, offset, endpos, w, "write")
  BY <1>5, <1>6
<1> QED  BY <1>3, <1>7 DEF endpos

-----------------------------------------------------------------------------
(* The inductive invariant. Between two calls every block is free or has    *)
(* one name, files are as long as their blocks allow and zero behind their  *)
(* end, and what is not marked is on the disk but for blocks of the         *)
(* indirect block counted since.                                            *)

Memory == [din : Inode, dirty : BOOLEAN, ref : Nat]

Open == [node : Files, pos : Nat]

Typed ==
    /\ freemap \in SUBSET Block /\ unused_blocks = Cardinality(freemap)
    /\ data \in Data /\ entry \in Entries
    /\ disk \in [Files -> Inode] /\ inode \in [Files -> Memory]
    /\ file \in [Descriptors -> Open \cup {CLOSED}]
    /\ panic \in {"none"} \cup Failing

\* The block file f has under k.
NameOf(f, k) == At(Din(f), entry, k)

\* Behind the end the blocks are zero.
BlankIn(din, ent, dat) ==
    \A k \in Index, j \in Offset :
      k * BLKSIZE + j >= din.size /\ At(din, ent, k) # 0 => dat[At(din, ent, k)][j] = 0

Intact(din, ent, dat) == Sizes(din) /\ Filled(din, ent, din.blocks) /\ BlankIn(din, ent, dat)

Whole(f) == Intact(Din(f), entry, data)

NamedOnce ==
    \A f, g \in Files, k, l \in Key :
      NameOf(f, k) = NameOf(g, l) /\ NameOf(f, k) # 0 => f = g /\ k = l

FreeUnnamed ==
    \A b \in Block : b \in freemap <=> \A f \in Files, k \in Key : NameOf(f, k) # b

Users(f) == {d \in Descriptors : file[d] # CLOSED /\ file[d].node = f}

\* What is on the disk of an inode that is not marked.
OnDisk(d, din) ==
    /\ d.size = din.size /\ d.direct = din.direct /\ d.indirect = din.indirect
    /\ d.blocks = din.blocks \/ (NDIRECT <= d.blocks /\ d.blocks <= din.blocks)
    /\ d.size <= d.blocks * BLKSIZE

Saved(f) == inode[f].ref > 0 /\ ~inode[f].dirty => OnDisk(disk[f], inode[f].din)

DiskInv == Typed /\ (\A f \in Files : Whole(f) /\ Saved(f)) /\ NamedOnce /\ FreeUnnamed

Referred == \A f \in Files : inode[f].ref = Cardinality(Users(f))

InFile == \A d \in Descriptors : file[d] # CLOSED => file[d].pos <= Din(file[d].node).size

SfsInv == DiskInv /\ Referred /\ InFile

\* The blocks of the other files.
Others(f) == {b \in Block : \E g \in Files, k \in Key : g # f /\ NameOf(g, k) = b}

LEMMA BlankIs ==
    ASSUME NEW s
    PROVE  Blank(s) <=> BlankIn(s.din, s.entry, s.data)
BY DEF Blank, BlankIn, ByteAt

LEMMA DinType ==
    ASSUME NEW f \in Files, Typed
    PROVE  Din(f) \in Inode /\ disk[f] \in Inode /\ inode[f] \in Memory
           /\ inode[f].din \in Inode /\ inode[f].dirty \in BOOLEAN /\ inode[f].ref \in Nat
BY DEF Typed, Memory, Din

LEMMA LoadedFields ==
    ASSUME NEW f \in Files, Layout, Typed
    PROVE  LET s == Loaded(f)
           IN  /\ s \in Work /\ s.freemap = freemap /\ s.unused = unused_blocks
               /\ s.data = data /\ s.entry = entry /\ s.din = Din(f)
               /\ (s.dirty <=> inode[f].ref # 0 /\ inode[f].dirty)
               /\ s.ok /\ s.panic = "none" /\ s.alen = 0 /\ s.buf = << >>
<1>1. /\ disk[f] \in Inode /\ inode[f].din \in Inode /\ inode[f].dirty \in BOOLEAN
      /\ inode[f].ref \in Nat
  BY DinType
<1>2. freemap \in SUBSET Block /\ unused_blocks \in Int /\ data \in Data /\ entry \in Entries
  BY FreeCount DEF Typed
<1>3. 0 \in Number /\ << >> \in Seq(Byte) /\ "none" \in Panic
  BY BlockType DEF Panic
<1>4. ASSUME NEW din \in Inode, NEW dirty \in BOOLEAN
      PROVE  LET s == Now(din, dirty)
             IN  /\ s \in Work /\ s.freemap = freemap /\ s.unused = unused_blocks
                 /\ s.data = data /\ s.entry = entry /\ s.din = din /\ s.dirty = dirty
                 /\ s.ok /\ s.panic = "none" /\ s.alen = 0 /\ s.buf = << >>
  BY <1>2, <1>3 DEF Now, Work
<1>5. CASE inode[f].ref = 0
  <2>1. Loaded(f) = Now(disk[f], FALSE) /\ Din(f) = disk[f]
    BY <1>5 DEF Loaded, Din
  <2> DEFINE s == Now(disk[f], FALSE)
  <2>2. /\ s \in Work /\ s.freemap = freemap /\ s.unused = unused_blocks
        /\ s.data = data /\ s.entry = entry /\ s.din = disk[f] /\ s.dirty = FALSE
        /\ s.ok /\ s.panic = "none" /\ s.alen = 0 /\ s.buf = << >>
    BY <1>1, <1>4
  <2> HIDE DEF s
  <2>3. s.dirty <=> inode[f].ref # 0 /\ inode[f].dirty
    BY <1>5, <2>2
  <2> QED  BY <2>1, <2>2, <2>3 DEF s
<1>6. CASE inode[f].ref # 0
  <2>1. Loaded(f) = Now(inode[f].din, inode[f].dirty) /\ Din(f) = inode[f].din
    BY <1>6 DEF Loaded, Din
  <2> QED  BY <1>1, <1>4, <1>6, <2>1
<1> QED  BY <1>5, <1>6

\* What an operation on f begins with.
Begins(s, f) ==
    /\ Good(s, Others(f)) /\ s.ok /\ Blank(s) /\ s.alen = 0 /\ s.buf = << >>
    /\ s.din = Din(f) /\ s.entry = entry /\ s.data = data /\ s.freemap = freemap
    /\ (s.dirty <=> inode[f].ref # 0 /\ inode[f].dirty)

LEMMA LoadedGood ==
    ASSUME NEW f \in Files, Layout, DiskInv
    PROVE  Begins(Loaded(f), f) /\ Others(f) \in SUBSET Block
<1> DEFINE s == Loaded(f)
           T == Others(f)
<1>1. Typed /\ Whole(f) /\ NamedOnce /\ FreeUnnamed
  BY DEF DiskInv
<1>2. /\ s \in Work /\ s.freemap = freemap /\ s.unused = unused_blocks
      /\ s.data = data /\ s.entry = entry /\ s.din = Din(f)
      /\ (s.dirty <=> inode[f].ref # 0 /\ inode[f].dirty)
      /\ s.ok /\ s.panic = "none" /\ s.alen = 0 /\ s.buf = << >>
  BY <1>1, LoadedFields
<1> HIDE DEF s
<1>3. Exact(freemap, Din(f), entry, T)
  <2>1. freemap \cap T = {}
    BY <1>1 DEF Others, FreeUnnamed
  <2>2. ASSUME NEW k \in Key, NEW l \in Key, NameOf(f, k) = NameOf(f, l), NameOf(f, k) # 0
        PROVE  k = l
    BY <1>1, <2>2 DEF NamedOnce
  <2>3. ASSUME NEW k \in Key  PROVE NameOf(f, k) \notin freemap \cup T
    <3>1. NameOf(f, k) \notin freemap
      <4>1. freemap \subseteq Block
        BY <1>1 DEF Typed
      <4> QED  BY <1>1, <4>1 DEF FreeUnnamed
    <3>2. NameOf(f, k) \notin T
      <4> SUFFICES ASSUME NameOf(f, k) \in T  PROVE FALSE
        OBVIOUS
      <4>1. PICK g \in Files, l \in Key : g # f /\ NameOf(g, l) = NameOf(f, k)
        BY DEF Others
      <4>2. NameOf(f, k) # 0
        BY BlockType DEF Others
      <4> QED  BY <1>1, <4>1, <4>2 DEF NamedOnce
    <3> QED  BY <3>1, <3>2
  <2>4. ASSUME NEW b \in Block, b \notin freemap \cup T  PROVE \E k \in Key : NameOf(f, k) = b
    BY <1>1, <2>4 DEF FreeUnnamed, Others
  <2> HIDE DEF T
  <2> QED  BY <2>1, <2>2, <2>3, <2>4 DEF Exact, NameOf
<1>4. Good(s, T)
  BY <1>1, <1>2, <1>3 DEF Good, Core, Whole, Intact, Typed
<1>5. Blank(s)
  <2>1. BlankIn(s.din, s.entry, s.data)
    BY <1>1, <1>2 DEF Whole, Intact
  <2> QED  BY <2>1, BlankIs
<1>6. Begins(s, f)
  BY <1>2, <1>4, <1>5 DEF Begins
<1>7. T \in SUBSET Block
  BY DEF Others
<1> QED  BY <1>6, <1>7 DEF s

\* What an operation on f ends with.
Ends(f, s) ==
    /\ s.panic = "none" /\ Good(s, Others(f)) /\ Blank(s)
    /\ Keeps(Loaded(f), s, Others(f)) /\ Marked(Loaded(f), s)

LEMMA AtKept ==
    ASSUME NEW din, NEW ent, NEW ent2,
           din.indirect # 0 => ent2[din.indirect] = ent[din.indirect]
    PROVE  \A k : At(din, ent2, k) = At(din, ent, k)
BY DEF At

\* The content of a file whose blocks are kept.
LEMMA IntactKept ==
    ASSUME NEW din, NEW ent, NEW dat, NEW ent2, NEW dat2, Intact(din, ent, dat),
           \A k : At(din, ent2, k) = At(din, ent, k),
           \A k \in Index : At(din, ent, k) # 0 => dat2[At(din, ent, k)] = dat[At(din, ent, k)]
    PROVE  Intact(din, ent2, dat2)
BY DEF Intact, Filled, BlankIn

LEMMA OnDiskOn ==
    ASSUME NEW d, NEW i, NEW j, Layout, d \in Inode, i \in Inode, j \in Inode,
           OnDisk(d, i), i.size = j.size, i.direct = j.direct, i.indirect = j.indirect,
           j.blocks = i.blocks \/ (NDIRECT <= i.blocks /\ i.blocks <= j.blocks)
    PROVE  OnDisk(d, j)
BY DEF OnDisk, Inode, Layout

LEMMA OnDiskSelf ==
    ASSUME NEW d, Sizes(d)
    PROVE  OnDisk(d, d)
BY DEF OnDisk, Sizes

\* The blocks of another file.
LEMMA OthersKept ==
    ASSUME NEW f \in Files, NEW s, Layout, DiskInv, Ends(f, s), NEW g \in Files, g # f
    PROVE  /\ \A k : At(Din(g), s.entry, k) = At(Din(g), entry, k)
           /\ \A k \in Key : NameOf(g, k) # 0 =>
                /\ NameOf(g, k) \in Others(f)
                /\ s.entry[NameOf(g, k)] = entry[NameOf(g, k)]
                /\ s.data[NameOf(g, k)] = data[NameOf(g, k)]
<1>1. Typed /\ Keeps(Loaded(f), s, Others(f))
      /\ Loaded(f).entry = entry /\ Loaded(f).data = data
  BY LoadedGood DEF DiskInv, Ends, Begins
<1>2. ASSUME NEW k \in Key, NameOf(g, k) # 0
      PROVE  NameOf(g, k) \in Others(f) /\ s.entry[NameOf(g, k)] = entry[NameOf(g, k)]
             /\ s.data[NameOf(g, k)] = data[NameOf(g, k)]
  <2>1. NameOf(g, k) \in Block
    BY <1>1, <1>2, DinType, AtType DEF NameOf, Typed
  <2>2. NameOf(g, k) \in Others(f)
    BY <1>2, <2>1 DEF Others
  <2> QED  BY <1>1, <2>2 DEF Keeps
<1>3. \A k : At(Din(g), s.entry, k) = At(Din(g), entry, k)
  <2>1. -1 \in Key /\ NameOf(g, -1) = Din(g).indirect
    BY DEF Key, NameOf, At
  <2>2. Din(g).indirect # 0 => s.entry[Din(g).indirect] = entry[Din(g).indirect]
    BY <1>2, <2>1
  <2> QED  BY <2>2, AtKept
<1> QED  BY <1>2, <1>3

LEMMA StoredDisk ==
    ASSUME NEW f \in Files, NEW s, NEW ref \in Nat \ {0}, Layout, DiskInv, Ends(f, s),
           Stored(f, s, ref), file' \in [Descriptors -> Open \cup {CLOSED}]
    PROVE  /\ DiskInv' /\ Din(f)' = s.din
           /\ \A g \in Files : g # f => Din(g)' = Din(g) /\ inode'[g] = inode[g]
           /\ inode'[f].ref = ref
<1> DEFINE T == Others(f)
           l == Loaded(f)
<1>1. Typed /\ NamedOnce /\ FreeUnnamed /\ \A g \in Files : Whole(g) /\ Saved(g)
  BY DEF DiskInv
<1>2. /\ Good(l, T) /\ l.din = Din(f) /\ l.entry = entry /\ l.data = data
      /\ (l.dirty <=> inode[f].ref # 0 /\ inode[f].dirty) /\ T \in SUBSET Block
  BY LoadedGood DEF Begins
<1>3. /\ s.panic = "none" /\ Good(s, T) /\ Blank(s) /\ Keeps(l, s, T) /\ Marked(l, s)
  BY DEF Ends
<1> HIDE DEF l
<1>4. /\ s \in Work /\ s.din \in Inode /\ s.dirty \in BOOLEAN /\ s.entry \in Entries
      /\ s.data \in Data /\ s.freemap \in SUBSET Block /\ s.unused = Cardinality(s.freemap)
      /\ Exact(s.freemap, s.din, s.entry, T)
  BY <1>3 DEF Good, Core, Work
<1>5. /\ freemap' = s.freemap /\ unused_blocks' = s.unused /\ data' = s.data
      /\ entry' = s.entry /\ panic' = "none" /\ disk' = disk
      /\ inode' = [inode EXCEPT ![f] = [din |-> s.din, dirty |-> s.dirty, ref |-> ref]]
  BY <1>3 DEF Stored
<1>6. /\ inode'[f] = [din |-> s.din, dirty |-> s.dirty, ref |-> ref]
      /\ \A g \in Files : g # f => inode'[g] = inode[g]
  BY <1>1, <1>5 DEF Typed
<1>7. Din(f)' = s.din /\ inode'[f].ref = ref
  BY <1>6 DEF Din
<1>8. \A g \in Files : g # f => Din(g)' = Din(g)
  BY <1>5, <1>6 DEF Din
<1>9. Typed'
  <2>1. [din |-> s.din, dirty |-> s.dirty, ref |-> ref] \in Memory
    BY <1>4 DEF Memory
  <2>2. inode' \in [Files -> Memory]
    BY <1>1, <1>5, <2>1 DEF Typed
  <2> QED  BY <1>1, <1>4, <1>5, <2>2 DEF Typed
<1>10. ASSUME NEW g \in Files, g # f, NEW k \in Key, NameOf(g, k) # 0
       PROVE  NameOf(g, k) \in T /\ s.entry[NameOf(g, k)] = entry[NameOf(g, k)]
              /\ s.data[NameOf(g, k)] = data[NameOf(g, k)]
  BY <1>10, OthersKept
<1>11. ASSUME NEW g \in Files, g # f
       PROVE  \A k : At(Din(g), s.entry, k) = At(Din(g), entry, k)
  BY <1>11, OthersKept
<1>12. \A g \in Files, k \in Key : g # f => NameOf(g, k)' = NameOf(g, k)
  BY <1>5, <1>8, <1>11 DEF NameOf
<1>13. \A k \in Key : NameOf(f, k)' = At(s.din, s.entry, k)
  BY <1>5, <1>7 DEF NameOf
<1>14. ASSUME NEW g \in Files  PROVE Whole(g)'
  <2>1. CASE g = f
    <3>1. Intact(s.din, s.entry, s.data)
      BY <1>3, BlankIs DEF Intact, Good
    <3> QED  BY <1>5, <1>7, <2>1, <3>1 DEF Whole
  <2>2. CASE g # f
    <3>1. Intact(Din(g), entry, data)
      BY <1>1 DEF Whole
    <3>2. \A k : At(Din(g), s.entry, k) = At(Din(g), entry, k)
      BY <1>11, <2>2
    <3>3. \A k \in Index : At(Din(g), entry, k) # 0 =>
             s.data[At(Din(g), entry, k)] = data[At(Din(g), entry, k)]
      BY <1>10, <2>2 DEF NameOf, Key
    <3>4. Intact(Din(g), s.entry, s.data)
      BY <3>1, <3>2, <3>3, IntactKept
    <3> QED  BY <1>5, <1>8, <2>2, <3>4 DEF Whole
  <2> QED  BY <2>1, <2>2
<1>15. ASSUME NEW g \in Files  PROVE Saved(g)'
  <2>1. CASE g = f
    <3> SUFFICES ASSUME ~s.dirty  PROVE OnDisk(disk[f], s.din)
      BY <1>5, <1>6, <2>1 DEF Saved
    <3>1. /\ ~l.dirty
          /\ s.din.size = l.din.size /\ s.din.direct = l.din.direct
          /\ s.din.indirect = l.din.indirect
          /\ s.din.blocks = l.din.blocks
             \/ (NDIRECT <= l.din.blocks /\ l.din.blocks <= s.din.blocks)
      BY <1>3 DEF Marked
    <3>2. OnDisk(disk[f], Din(f))
      <4>1. CASE inode[f].ref = 0
        <5>1. Din(f) = disk[f] /\ Sizes(Din(f))
          BY <1>1, <4>1 DEF Din, Whole, Intact
        <5> QED  BY <5>1, OnDiskSelf
      <4>2. CASE inode[f].ref # 0
        <5>1. inode[f].ref > 0 /\ ~inode[f].dirty /\ Din(f) = inode[f].din
          BY <1>1, <1>2, <3>1, <4>2, DinType DEF Din
        <5> QED  BY <1>1, <5>1 DEF Saved
      <4> QED  BY <4>1, <4>2
    <3>3. disk[f] \in Inode /\ Din(f) \in Inode
      BY <1>1, DinType
    <3> QED  BY <1>2, <1>4, <3>1, <3>2, <3>3, OnDiskOn
  <2>2. CASE g # f
    BY <1>1, <1>5, <1>6, <2>2 DEF Saved
  <2> QED  BY <2>1, <2>2
<1>16. NamedOnce'
  <2> SUFFICES ASSUME NEW g \in Files, NEW h \in Files, NEW k \in Key, NEW m \in Key,
                      NameOf(g, k)' = NameOf(h, m)', NameOf(g, k)' # 0
               PROVE  g = h /\ k = m
    BY DEF NamedOnce
  <2>1. CASE g = f /\ h = f
    BY <1>4, <1>13, <2>1 DEF Exact
  <2>2. CASE g = f /\ h # f
    <3>1. NameOf(h, m) \in T
      BY <1>10, <1>12, <2>2
    <3> QED  BY <1>4, <1>12, <1>13, <2>2, <3>1 DEF Exact
  <2>3. CASE g # f /\ h = f
    <3>1. NameOf(g, k) \in T
      BY <1>10, <1>12, <2>3
    <3> QED  BY <1>4, <1>12, <1>13, <2>3, <3>1 DEF Exact
  <2>4. CASE g # f /\ h # f
    BY <1>1, <1>12, <2>4 DEF NamedOnce
  <2> QED  BY <2>1, <2>2, <2>3, <2>4
<1>17. FreeUnnamed'
  <2> SUFFICES ASSUME NEW b \in Block
               PROVE  b \in s.freemap <=> \A g \in Files, k \in Key : NameOf(g, k)' # b
    BY <1>5 DEF FreeUnnamed
  <2>1. ASSUME b \in s.freemap, NEW g \in Files, NEW k \in Key, NameOf(g, k)' = b
        PROVE  FALSE
    <3>1. b # 0
      BY BlockType
    <3>2. CASE g = f
      BY <1>4, <1>13, <2>1, <3>2 DEF Exact
    <3>3. CASE g # f
      <4>1. b \in T
        BY <1>10, <1>12, <2>1, <3>1, <3>3
      <4> QED  BY <1>4, <2>1, <4>1 DEF Exact
    <3> QED  BY <3>2, <3>3
  <2>2. ASSUME \A g \in Files, k \in Key : NameOf(g, k)' # b  PROVE b \in s.freemap
    <3>1. b \notin T
      BY <1>12, <2>2 DEF Others
    <3>2. ~ \E k \in Key : At(s.din, s.entry, k) = b
      BY <1>13, <2>2
    <3> QED  BY <1>4, <3>1, <3>2 DEF Exact
  <2> QED  BY <2>1, <2>2
<1>18. DiskInv'
  BY <1>9, <1>14, <1>15, <1>16, <1>17 DEF DiskInv
<1> QED  BY <1>6, <1>7, <1>8, <1>18

-----------------------------------------------------------------------------
(* The calls *)

LEMMA PanicsInv ==
    ASSUME NEW s, SfsInv, Panics(s), s.panic \in Failing
    PROVE  SfsInv'
<1>1. UNCHANGED << freemap, unused_blocks, data, entry, disk, inode, file >> /\ panic' = s.panic
  BY DEF Panics
<1>2. \A f : Din(f)' = Din(f)
  BY <1>1 DEF Din
<1>3. Typed'
  BY <1>1 DEF SfsInv, DiskInv, Typed
<1>4. \A f : /\ Whole(f)' <=> Whole(f)
             /\ Saved(f)' <=> Saved(f)
             /\ Users(f)' = Users(f)
  BY <1>1, <1>2 DEF Whole, Saved, Users
<1>5. \A f, k : NameOf(f, k)' = NameOf(f, k)
  BY <1>1, <1>2 DEF NameOf
<1>6. DiskInv'
  BY <1>1, <1>3, <1>4, <1>5 DEF SfsInv, DiskInv, NamedOnce, FreeUnnamed
<1>7. Referred' /\ InFile'
  BY <1>1, <1>2, <1>4 DEF SfsInv, Referred, InFile
<1> QED  BY <1>6, <1>7 DEF SfsInv

\* An operation of f ended well or with an assert that can fail; the file has not
\* become shorter unless shorter is allowed.
Outcome(f, s, shorter) ==
    \/ s.panic \in Failing
    \/ /\ s.panic = "none" /\ Ends(f, s) /\ s.din.size \in Nat
       /\ shorter \/ s.din.size >= Din(f).size

LEMMA UsersFinite ==
    ASSUME NEW f, Layout
    PROVE  IsFiniteSet(Users(f)) /\ Cardinality(Users(f)) \in Nat
<1>1. Users(f) \subseteq Descriptors
  BY DEF Users
<1>2. IsFiniteSet(Users(f))
  BY <1>1, FS_Subset DEF Layout
<1> QED  BY <1>2, FS_CardinalityType

LEMMA UsedFile ==
    ASSUME NEW d \in Descriptors, Layout, SfsInv, file[d] # CLOSED
    PROVE  file[d] \in Open /\ inode[file[d].node].ref \in Nat \ {0}
<1>1. file[d] \in Open
  BY DEF SfsInv, DiskInv, Typed
<1> DEFINE f == file[d].node
<1>2. f \in Files /\ d \in Users(f)
  BY <1>1 DEF Open, Users
<1> HIDE DEF f
<1>3. IsFiniteSet(Users(f)) /\ Cardinality(Users(f)) \in Nat
  BY UsersFinite
<1>4. Cardinality(Users(f)) # 0
  BY <1>2, <1>3, FS_EmptySet
<1>5. inode[f].ref = Cardinality(Users(f))
  BY <1>2 DEF SfsInv, Referred
<1> QED  BY <1>1, <1>3, <1>4, <1>5 DEF f

DinAt(i, k, g) == IF i[g].ref = 0 THEN k[g] ELSE i[g].din

\* The positions after a step.
InFileNext == \A e \in Descriptors : file'[e] # CLOSED =>
                file'[e].pos <= DinAt(inode', disk', file'[e].node).size

LEMMA InFileIs ==
    ASSUME InFileNext
    PROVE  InFile'
BY DEF InFileNext, InFile, Din, DinAt

LEMMA OpenStored ==
    ASSUME NEW d \in Descriptors, NEW f \in Files, NEW s, NEW pos \in Nat, NEW shorter,
           Layout, SfsInv, file[d] = CLOSED, Ends(f, s), s.din.size \in Nat,
           shorter \/ s.din.size >= Din(f).size, shorter => inode[f].ref = 0,
           Stored(f, s, inode[f].ref + 1),
           file' = [file EXCEPT ![d] = [node |-> f, pos |-> pos]], pos <= s.din.size
    PROVE  SfsInv'
<1>1. DiskInv /\ Referred /\ InFile /\ Typed
  BY DEF SfsInv, DiskInv
<1>2. file \in [Descriptors -> Open \cup {CLOSED}] /\ CLOSED \notin Open
  BY <1>1 DEF Typed, Layout, Open
<1>3. /\ [node |-> f, pos |-> pos] \in Open /\ [node |-> f, pos |-> pos] # CLOSED
      /\ file' \in [Descriptors -> Open \cup {CLOSED}]
      /\ file'[d] = [node |-> f, pos |-> pos]
      /\ \A e \in Descriptors : e # d => file'[e] = file[e]
  BY <1>2 DEF Open
<1>4. inode[f].ref \in Nat /\ inode[f].ref + 1 \in Nat \ {0}
  BY <1>1, DinType
<1>5. /\ DiskInv' /\ Din(f)' = s.din
      /\ \A g \in Files : g # f => Din(g)' = Din(g) /\ inode'[g] = inode[g]
      /\ inode'[f].ref = inode[f].ref + 1
  BY <1>1, <1>3, <1>4, StoredDisk
<1>6. Referred'
  <2> SUFFICES ASSUME NEW g \in Files  PROVE inode'[g].ref = Cardinality(Users(g)')
    BY DEF Referred
  <2>1. CASE g # f
    <3>1. Users(g)' = Users(g)
      BY <1>3, <2>1 DEF Users
    <3> QED  BY <1>1, <1>5, <2>1, <3>1 DEF Referred
  <2>2. CASE g = f
    <3>1. Users(f)' = Users(f) \cup {d}
      BY <1>3 DEF Users
    <3>2. d \notin Users(f)
      BY DEF Users
    <3>3. Cardinality(Users(f) \cup {d}) = Cardinality(Users(f)) + 1
      BY <3>2, UsersFinite, FS_AddElement
    <3> QED  BY <1>1, <1>5, <2>2, <3>1, <3>3 DEF Referred
  <2> QED  BY <2>1, <2>2
<1>7. InFile'
  <2> SUFFICES ASSUME NEW e \in Descriptors, file'[e] # CLOSED
               PROVE  file'[e].pos <= DinAt(inode', disk', file'[e].node).size
    BY InFileIs DEF InFileNext
  <2>0. \A g : Din(g)' = DinAt(inode', disk', g)
    BY DEF Din, DinAt
  <2>1. CASE e = d
    BY <1>3, <1>5, <2>0, <2>1
  <2>2. CASE e # d
    <3>1. file'[e] = file[e] /\ file[e] # CLOSED
      BY <1>3, <2>2
    <3>2. file[e] \in Open /\ file[e].node \in Files /\ file[e].pos \in Nat
      BY <1>2, <3>1 DEF Open
    <3>3. file[e].pos <= Din(file[e].node).size
      BY <1>1, <3>1 DEF InFile
    <3>4. CASE file[e].node # f
      BY <1>5, <2>0, <3>1, <3>2, <3>3, <3>4
    <3>5. CASE file[e].node = f
      <4>1. ~shorter /\ s.din.size >= Din(f).size
        BY <3>1, <3>5, UsedFile
      <4>2. Din(f).size \in Nat
        BY <1>1, DinType DEF Inode
      <4>3. file[e].pos <= s.din.size
        BY <3>2, <3>3, <3>5, <4>1, <4>2
      <4> QED  BY <1>5, <2>0, <3>1, <3>5, <4>3
    <3> QED  BY <3>4, <3>5
  <2> QED  BY <2>1, <2>2
<1> QED  BY <1>5, <1>6, <1>7 DEF SfsInv

\* Resizes as an operation of f.
LEMMA ResizedOutcome ==
    ASSUME NEW f \in Files, NEW s, NEW len \in Nat, Layout, DiskInv,
           Resizes(Loaded(f), s, Others(f), len), len = 0 \/ len >= Din(f).size
    PROVE  Outcome(f, s, len = 0) /\ (s.panic = "none" /\ s.ok => s.din.size = len)
<1>1. Loaded(f).din = Din(f) /\ Din(f).size \in Nat
  BY LoadedGood, DinType DEF Begins, DiskInv, Inode
<1>2. s.panic = "none" => s.panic \notin Failing
  BY DEF Failing
<1>3. CASE s.panic \in Failing
  BY <1>2, <1>3 DEF Outcome
<1>4. CASE s.panic \notin Failing
  <2>1. /\ s.panic = "none" /\ Good(s, Others(f)) /\ Blank(s)
        /\ Keeps(Loaded(f), s, Others(f)) /\ Marked(Loaded(f), s)
        /\ s.din.size = IF s.ok THEN len ELSE Din(f).size
    BY <1>1, <1>4 DEF Resizes
  <2>2. s.din.size \in Nat /\ (len = 0 \/ s.din.size >= Din(f).size)
    BY <1>1, <2>1
  <2>3. s.ok => s.din.size = len
    BY <2>1
  <2> QED  BY <2>1, <2>2, <2>3 DEF Outcome, Ends
<1> QED  BY <1>3, <1>4

LEMMA LoadedOutcome ==
    ASSUME NEW f \in Files, Layout, DiskInv
    PROVE  Outcome(f, Loaded(f), FALSE) /\ Loaded(f).panic = "none" /\ Loaded(f).ok
           /\ Loaded(f).din = Din(f)
<1>1. Begins(Loaded(f), f)
  BY LoadedGood
<1>2. Keeps(Loaded(f), Loaded(f), Others(f)) /\ Marked(Loaded(f), Loaded(f))
  BY MarkedSame DEF Keeps
<1>3. Din(f).size \in Nat
  BY DinType DEF DiskInv, Inode
<1>4. Loaded(f).panic = "none"
  BY <1>1 DEF Begins, Good, Core
<1> QED  BY <1>1, <1>2, <1>3, <1>4 DEF Begins, Outcome, Ends

LEMMA OpenInv ==
    ASSUME NEW d \in Descriptors, NEW f \in Files, NEW trunc \in BOOLEAN,
           NEW append \in BOOLEAN, Layout, SfsInv, file_open(d, f, trunc, append),
           trunc => SHARED_TRUNC \/ inode[f].ref = 0
    PROVE  SfsInv'
<1> DEFINE s == IF trunc THEN sfs_truncfile(Loaded(f), 0) ELSE Loaded(f)
<1>1. DiskInv /\ trunc => inode[f].ref = 0
  BY DEF SfsInv, Layout
<1>2. DiskInv
  BY DEF SfsInv
<1>3. Outcome(f, s, trunc)
  <2>1. CASE trunc
    <3>1. Begins(Loaded(f), f) /\ Others(f) \in SUBSET Block
      BY <1>2, LoadedGood
    <3>2. Resizes(Loaded(f), sfs_truncfile(Loaded(f), 0), Others(f), 0)
      <4>1. 0 \in Nat /\ (0 = 0 \/ 0 >= Loaded(f).din.size)
        OBVIOUS
      <4> QED  BY <3>1, <4>1, TruncfileFacts DEF Begins
    <3>3. Outcome(f, sfs_truncfile(Loaded(f), 0), 0 = 0)
      BY <1>2, <3>2, ResizedOutcome
    <3> QED  BY <2>1, <3>3 DEF Outcome
  <2>2. CASE ~trunc
    BY <1>2, <2>2, LoadedOutcome DEF Outcome
  <2> QED  BY <2>1, <2>2
<1>4. /\ file[d] = CLOSED
      /\ \/ Panics(s)
         \/ /\ Stored(f, s, inode[f].ref + 1)
            /\ file' = [file EXCEPT ![d] =
                          [node |-> f, pos |-> IF append THEN s.din.size ELSE 0]]
  BY DEF file_open
<1> HIDE DEF s
<1>5. CASE Panics(s)
  <2>1. s.panic \in Failing
    BY <1>3, <1>5 DEF Panics, Outcome
  <2> QED  BY <1>5, <2>1, PanicsInv
<1>6. CASE ~Panics(s)
  <2>1. Stored(f, s, inode[f].ref + 1)
    BY <1>4, <1>6
  <2>2. /\ Ends(f, s) /\ s.din.size \in Nat /\ (trunc \/ s.din.size >= Din(f).size)
    BY <1>3, <2>1 DEF Stored, Outcome, Failing
  <2> DEFINE pos == IF append THEN s.din.size ELSE 0
  <2>3. pos \in Nat /\ pos <= s.din.size
    BY <2>2
  <2>4. file' = [file EXCEPT ![d] = [node |-> f, pos |-> pos]]
    BY <1>4, <1>6
  <2> HIDE DEF pos
  <2> QED  BY <1>1, <1>2, <1>4, <2>1, <2>2, <2>3, <2>4, OpenStored
<1> QED  BY <1>5, <1>6

LEMMA OperateInv ==
    ASSUME NEW d \in Descriptors, NEW s, NEW pos, Layout, SfsInv, file[d] # CLOSED,
           Outcome(file[d].node, s, FALSE),
           s.panic = "none" => pos \in Nat /\ pos <= s.din.size, Operate(d, s, pos)
    PROVE  SfsInv'
<1>1. DiskInv /\ Referred /\ InFile /\ Typed
  BY DEF SfsInv, DiskInv
<1>0. file[d] \in Open /\ inode[file[d].node].ref \in Nat \ {0}
  BY UsedFile
<1>3. PICK f \in Files : f = file[d].node
  BY <1>0 DEF Open
<1>2. file[d] \in Open /\ inode[f].ref \in Nat \ {0}
  BY <1>0, <1>3
<1>4. CASE Panics(s)
  <2>1. s.panic \in Failing
    BY <1>4 DEF Panics, Outcome
  <2> QED  BY <1>4, <2>1, PanicsInv
<1>5. CASE ~Panics(s)
  <2>1. Stored(f, s, inode[f].ref) /\ file' = [file EXCEPT ![d].pos = pos]
    BY <1>3, <1>5 DEF Operate
  <2>2. /\ s.panic = "none" /\ Ends(f, s) /\ s.din.size \in Nat
        /\ s.din.size >= Din(f).size
    BY <1>3, <2>1 DEF Stored, Outcome, Failing
  <2>3. file \in [Descriptors -> Open \cup {CLOSED}] /\ CLOSED \notin Open
    BY <1>1 DEF Typed, Layout, Open
  <2>4. /\ file'[d] \in Open /\ file'[d] # CLOSED /\ file'[d].node = f /\ file'[d].pos = pos
        /\ file' \in [Descriptors -> Open \cup {CLOSED}]
        /\ \A e \in Descriptors : e # d => file'[e] = file[e]
    <3> DEFINE x == [file[d] EXCEPT !.pos = pos]
    <3>1. x \in Open /\ x.node = f /\ x.pos = pos
      BY <1>2, <1>3, <2>2 DEF Open
    <3>2. file' = [file EXCEPT ![d] = x]
      BY <2>1
    <3> HIDE DEF x
    <3> QED  BY <2>3, <3>1, <3>2
  <2>5. /\ DiskInv' /\ Din(f)' = s.din
        /\ \A g \in Files : g # f => Din(g)' = Din(g) /\ inode'[g] = inode[g]
        /\ inode'[f].ref = inode[f].ref
    BY <1>1, <1>2, <1>3, <2>1, <2>2, <2>4, StoredDisk
  <2>6. Referred'
    <3> SUFFICES ASSUME NEW g \in Files  PROVE inode'[g].ref = Cardinality(Users(g)')
      BY DEF Referred
    <3>1. Users(g)' = Users(g)
      BY <1>3, <2>4 DEF Users
    <3>2. inode'[g].ref = inode[g].ref
      BY <2>5
    <3> QED  BY <1>1, <3>1, <3>2 DEF Referred
  <2>7. InFile'
    <3> SUFFICES ASSUME NEW e \in Descriptors, file'[e] # CLOSED
                 PROVE  file'[e].pos <= DinAt(inode', disk', file'[e].node).size
      BY InFileIs DEF InFileNext
    <3>0. \A g : Din(g)' = DinAt(inode', disk', g)
      BY DEF Din, DinAt
    <3>1. CASE e = d
      BY <2>2, <2>4, <2>5, <3>0, <3>1
    <3>2. CASE e # d
      <4>1. file'[e] = file[e] /\ file[e] # CLOSED
        BY <2>4, <3>2
      <4>2. file[e] \in Open /\ file[e].node \in Files /\ file[e].pos \in Nat
        BY <2>3, <4>1 DEF Open
      <4>3. file[e].pos <= Din(file[e].node).size
        BY <1>1, <4>1 DEF InFile
      <4>4. CASE file[e].node # f
        BY <2>5, <3>0, <4>1, <4>2, <4>3, <4>4
      <4>5. CASE file[e].node = f
        <5>1. Din(f).size \in Nat
          BY <1>1, <1>3, DinType DEF Inode
        <5>2. file[e].pos <= s.din.size
          BY <2>2, <4>2, <4>3, <4>5, <5>1
        <5> QED  BY <2>5, <3>0, <4>1, <4>5, <5>2
      <4> QED  BY <4>4, <4>5
    <3> QED  BY <3>1, <3>2
  <2> QED  BY <2>5, <2>6, <2>7 DEF SfsInv
<1> QED  BY <1>4, <1>5

\* What reading and writing do, as operations of f from position offset.
LEMMA DidOutcome ==
    ASSUME NEW f \in Files, NEW s, NEW offset \in Nat, NEW endpos, NEW w, NEW how, Layout,
           DiskInv, Did(Loaded(f), s, Others(f), offset, endpos, w, how)
    PROVE  /\ Outcome(f, s, FALSE)
           /\ s.panic = "none" => offset + s.alen \in Nat /\ offset + s.alen <= s.din.size
<1>1. Loaded(f).din = Din(f) /\ Din(f).size \in Nat
  BY LoadedGood, DinType DEF Begins, DiskInv, Inode
<1>2. CASE s.panic \in Failing
  <2>1. s.panic # "none"
    BY <1>2 DEF Failing
  <2> QED  BY <1>2, <2>1 DEF Outcome
<1>3. CASE s.panic \notin Failing
  <2>1. /\ s \in Work /\ s.panic = "none" /\ Good(s, Others(f)) /\ Blank(s)
        /\ Keeps(Loaded(f), s, Others(f)) /\ Marked(Loaded(f), s)
        /\ s.din.size = IF offset + s.alen > Din(f).size THEN offset + s.alen ELSE Din(f).size
    BY <1>1, <1>3 DEF Did
  <2>2. s.alen \in Nat /\ offset + s.alen \in Nat
    BY <2>1 DEF Work
  <2>3. /\ s.din.size \in Nat /\ s.din.size >= Din(f).size
        /\ offset + s.alen <= s.din.size
    BY <1>1, <2>1, <2>2
  <2> QED  BY <2>1, <2>2, <2>3 DEF Outcome, Ends
<1> QED  BY <1>2, <1>3

LEMMA StartsHere ==
    ASSUME NEW d \in Descriptors, Layout, SfsInv, file[d] # CLOSED
    PROVE  /\ file[d].node \in Files /\ file[d].pos \in Nat
           /\ Starts(Loaded(file[d].node), Others(file[d].node), file[d].pos)
           /\ Others(file[d].node) \in SUBSET Block
<1> DEFINE f == file[d].node
<1>1. f \in Files /\ file[d].pos \in Nat
  BY UsedFile DEF Open
<1>2. file[d].pos <= Din(f).size
  BY DEF SfsInv, InFile
<1> HIDE DEF f
<1>3. Begins(Loaded(f), f) /\ Others(f) \in SUBSET Block
  BY <1>1, LoadedGood DEF SfsInv
<1>4. Starts(Loaded(f), Others(f), file[d].pos)
  BY <1>1, <1>2, <1>3 DEF Starts, Begins
<1> QED  BY <1>1, <1>3, <1>4 DEF f

LEMMA ReadInv ==
    ASSUME NEW d \in Descriptors, NEW len \in Nat, Layout, SfsInv, file[d] # CLOSED,
           file_read(d, len)
    PROVE  SfsInv'
<1> DEFINE f == file[d].node
           s == sfs_read(Loaded(f), file[d].pos, len)
<1>1. /\ f \in Files /\ file[d].pos \in Nat /\ Others(f) \in SUBSET Block
      /\ Starts(Loaded(f), Others(f), file[d].pos)
  BY StartsHere
<1>2. Operate(d, s, file[d].pos + s.alen)
  BY DEF file_read
<1>3. DiskInv
  BY DEF SfsInv
<1> DEFINE end == IF file[d].pos + len > Loaded(f).din.size THEN Loaded(f).din.size
                  ELSE file[d].pos + len
<1>4. Did(Loaded(f), s, Others(f), file[d].pos, end, << >>, "read")
  <2> HIDE DEF f
  <2> QED  BY <1>1, ReadFacts
<1> HIDE DEF s, end
<1>5. /\ Outcome(f, s, FALSE)
      /\ s.panic = "none" => file[d].pos + s.alen \in Nat /\ file[d].pos + s.alen <= s.din.size
  <2> HIDE DEF f
  <2> QED  BY <1>1, <1>3, <1>4, DidOutcome
<1> QED  BY <1>2, <1>5, OperateInv

LEMMA WriteInv ==
    ASSUME NEW d \in Descriptors, NEW w \in Seq(Nat), Layout, SfsInv, file[d] # CLOSED,
           file_write(d, w)
    PROVE  SfsInv'
<1> DEFINE f == file[d].node
           s == sfs_write(Loaded(f), file[d].pos, w)
           end == file[d].pos + Len(w)
<1>1. /\ f \in Files /\ file[d].pos \in Nat /\ Others(f) \in SUBSET Block
      /\ Starts(Loaded(f), Others(f), file[d].pos)
  BY StartsHere
<1>2. Operate(d, s, file[d].pos + s.alen)
  BY DEF file_write
<1>3. DiskInv
  BY DEF SfsInv
<1>4. Did(Loaded(f), s, Others(f), file[d].pos, end, w, "write")
  <2> HIDE DEF f
  <2> QED  BY <1>1, WriteFacts
<1> HIDE DEF s, end
<1>5. /\ Outcome(f, s, FALSE)
      /\ s.panic = "none" => file[d].pos + s.alen \in Nat /\ file[d].pos + s.alen <= s.din.size
  <2> HIDE DEF f
  <2> QED  BY <1>1, <1>3, <1>4, DidOutcome
<1> QED  BY <1>2, <1>5, OperateInv

LEMMA SeekInv ==
    ASSUME NEW d \in Descriptors, NEW pos \in Nat, Layout, SfsInv, file[d] # CLOSED,
           file_seek(d, pos)
    PROVE  SfsInv'
<1> DEFINE f == file[d].node
           l == Loaded(f)
           s == IF pos > l.din.size THEN sfs_truncfile(l, pos) ELSE l
           at == IF s.ok THEN pos ELSE file[d].pos
<1>1. /\ f \in Files /\ file[d].pos \in Nat /\ Others(f) \in SUBSET Block
  BY StartsHere
<1>2. Operate(d, s, at)
  BY DEF file_seek
<1>3. DiskInv
  BY DEF SfsInv
<1>4. file[d].pos <= Din(f).size
  BY DEF SfsInv, InFile
<1>5. /\ Outcome(f, l, FALSE) /\ l.panic = "none" /\ l.ok /\ l.din = Din(f)
      /\ Begins(l, f) /\ Din(f).size \in Nat
  BY <1>1, <1>3, LoadedOutcome, LoadedGood, DinType DEF DiskInv, Inode
<1>6. Outcome(f, s, FALSE) /\ (s.panic = "none" /\ s.ok => pos <= s.din.size)
  <2>1. CASE pos > l.din.size
    <3>1. pos \in Nat /\ (pos = 0 \/ pos >= l.din.size) /\ pos # 0
      BY <1>5, <2>1
    <3>2. Resizes(l, sfs_truncfile(l, pos), Others(f), pos)
      BY <1>1, <1>5, <3>1, TruncfileFacts DEF Begins
    <3>3. /\ Outcome(f, sfs_truncfile(l, pos), pos = 0)
          /\ sfs_truncfile(l, pos).panic = "none" /\ sfs_truncfile(l, pos).ok =>
               sfs_truncfile(l, pos).din.size = pos
      <4>1. pos = 0 \/ pos >= Din(f).size
        BY <1>5, <3>1
      <4> QED  BY <1>1, <1>3, <3>2, <4>1, ResizedOutcome
    <3>4. s = sfs_truncfile(l, pos)
      BY <2>1
    <3> QED  BY <3>1, <3>3, <3>4 DEF Outcome
  <2>2. CASE ~(pos > l.din.size)
    <3>1. s = l
      BY <2>2
    <3>2. l.din.size \in Nat /\ pos <= l.din.size
      BY <1>5, <2>2
    <3> HIDE DEF s, l
    <3> QED  BY <1>5, <3>1, <3>2
  <2> QED  BY <2>1, <2>2
<1> HIDE DEF s, l
<1>7. s.panic = "none" => at \in Nat /\ at <= s.din.size
  <2> SUFFICES ASSUME s.panic = "none"  PROVE at \in Nat /\ at <= s.din.size
    OBVIOUS
  <2>1. s.din.size \in Nat /\ s.din.size >= Din(f).size
    BY <1>6 DEF Outcome, Failing
  <2> QED  BY <1>1, <1>4, <1>5, <1>6, <2>1
<1> HIDE DEF at
<1> QED  BY <1>2, <1>6, <1>7, OperateInv

\* An inode as the disk has it is whole, if the one in memory is.
LEMMA OnDiskIntact ==
    ASSUME NEW d, NEW i, NEW ent, NEW dat, Layout, d \in Inode, i \in Inode, OnDisk(d, i),
           Intact(i, ent, dat)
    PROVE  Intact(d, ent, dat) /\ \A k : At(d, ent, k) = At(i, ent, k)
<1>1. \A k : At(d, ent, k) = At(i, ent, k)
  BY DEF OnDisk, At
<1>2. /\ d.blocks \in Nat /\ i.blocks \in Nat /\ d.blocks <= i.blocks /\ d.size = i.size
      /\ d.blocks = i.blocks \/ NDIRECT <= d.blocks
  BY DEF Inode, OnDisk, Layout
<1>3. Sizes(d)
  BY <1>2 DEF Sizes, Intact, OnDisk, Layout
<1>4. Filled(d, ent, d.blocks)
  BY <1>1, <1>2 DEF Filled, Intact, Index, Layout
<1>5. BlankIn(d, ent, dat)
  BY <1>1, <1>2 DEF BlankIn, Intact
<1> QED  BY <1>1, <1>3, <1>4, <1>5 DEF Intact

\* A step that writes inodes back or forgets them.
LEMMA SettledDisk ==
    ASSUME Layout, DiskInv, Typed', UNCHANGED << freemap, data, entry >>,
           \A g \in Files : OnDisk(Din(g)', Din(g)),
           \A g \in Files : Saved(g)'
    PROVE  DiskInv'
<1>1. Typed /\ NamedOnce /\ FreeUnnamed /\ \A g \in Files : Whole(g)
  BY DEF DiskInv
<1>2. ASSUME NEW g \in Files
      PROVE  Whole(g)' /\ \A k : NameOf(g, k)' = NameOf(g, k)
  <2>1. Din(g) \in Inode
    BY <1>1, DinType
  <2>2. Din(g)' \in Inode
    BY DEF Typed, Memory, Din
  <2>3. Intact(Din(g), entry, data) /\ OnDisk(Din(g)', Din(g))
    BY <1>1 DEF Whole
  <2>4. Intact(Din(g)', entry, data)
        /\ \A k : At(Din(g)', entry, k) = At(Din(g), entry, k)
    BY <2>1, <2>2, <2>3, OnDiskIntact
  <2> QED  BY <2>4 DEF Whole, NameOf
<1>3. NamedOnce'
  BY <1>1, <1>2 DEF NamedOnce
<1>4. FreeUnnamed'
  BY <1>1, <1>2 DEF FreeUnnamed
<1> QED  BY <1>2, <1>3, <1>4 DEF DiskInv

LEMMA SettledInFile ==
    ASSUME Layout, SfsInv, \A g \in Files : OnDisk(Din(g)', Din(g)),
           \A e \in Descriptors : file'[e] # CLOSED => file'[e] = file[e]
    PROVE  InFile'
<1> SUFFICES ASSUME NEW e \in Descriptors, file'[e] # CLOSED
             PROVE  file'[e].pos <= DinAt(inode', disk', file'[e].node).size
  BY InFileIs DEF InFileNext
<1>1. \A g : Din(g)' = DinAt(inode', disk', g)
  BY DEF Din, DinAt
<1>2. file'[e] = file[e] /\ file[e] # CLOSED
  OBVIOUS
<1>3. file[e] \in Open /\ file[e].node \in Files
  BY <1>2, UsedFile DEF Open
<1>4. file[e].pos <= Din(file[e].node).size
  BY <1>2 DEF SfsInv, InFile
<1>5. \A g \in Files : DinAt(inode', disk', g).size = Din(g).size
  BY <1>1 DEF OnDisk
<1> QED  BY <1>2, <1>3, <1>4, <1>5

\* sfs_fsync leaves on the disk what is in memory.
LEMMA Synced ==
    ASSUME NEW f \in Files, Layout, DiskInv, inode[f].ref > 0
    PROVE  LET dk == sfs_fsync(f, inode[f])
           IN  /\ dk \in [Files -> Inode] /\ OnDisk(dk[f], inode[f].din)
               /\ \A g \in Files : g # f => dk[g] = disk[g]
<1>1. /\ Typed /\ Whole(f) /\ Saved(f) /\ inode[f].din \in Inode /\ disk \in [Files -> Inode]
      /\ inode[f].ref \in Nat
  BY DinType DEF DiskInv, Typed
<1>2. Din(f) = inode[f].din
  BY <1>1 DEF Din
<1>3. CASE inode[f].dirty
  <2>1. sfs_fsync(f, inode[f]) = [disk EXCEPT ![f] = inode[f].din]
    BY <1>3 DEF sfs_fsync
  <2>2. OnDisk(inode[f].din, inode[f].din)
    BY <1>1, <1>2, OnDiskSelf DEF Whole, Intact
  <2> QED  BY <1>1, <2>1, <2>2
<1>4. CASE ~inode[f].dirty
  <2>1. sfs_fsync(f, inode[f]) = disk
    BY <1>4 DEF sfs_fsync
  <2>2. OnDisk(disk[f], inode[f].din)
    BY <1>1, <1>4 DEF Saved
  <2> QED  BY <1>1, <2>1, <2>2
<1> QED  BY <1>3, <1>4

LEMMA SyncInv ==
    ASSUME NEW d \in Descriptors, Layout, SfsInv, file[d] # CLOSED, file_fsync(d)
    PROVE  SfsInv' /\ \A g \in Files : OnDisk(Din(g)', Din(g))
<1>1. DiskInv /\ Referred /\ InFile /\ Typed
  BY DEF SfsInv, DiskInv
<1>2. file[d] \in Open /\ inode[file[d].node].ref \in Nat \ {0}
  BY UsedFile
<1>3. PICK f \in Files : f = file[d].node
  BY <1>2 DEF Open
<1>4. inode[f].ref \in Nat /\ inode[f].ref > 0 /\ inode[f] \in Memory
      /\ \A g \in Files : Whole(g) /\ Saved(g)
  BY <1>1, <1>2, <1>3, DinType DEF DiskInv
<1> DEFINE dk == sfs_fsync(f, inode[f])
<1>5. /\ dk \in [Files -> Inode] /\ OnDisk(dk[f], inode[f].din)
      /\ \A g \in Files : g # f => dk[g] = disk[g]
  BY <1>1, <1>4, Synced
<1>6. /\ disk' = dk /\ inode' = [inode EXCEPT ![f].dirty = FALSE]
      /\ UNCHANGED << freemap, unused_blocks, data, entry, file, panic >>
  BY <1>3 DEF file_fsync
<1> HIDE DEF dk
<1>7. /\ inode' \in [Files -> Memory] /\ inode'[f].din = inode[f].din
      /\ inode'[f].ref = inode[f].ref /\ inode'[f].dirty = FALSE
      /\ \A g \in Files : g # f => inode'[g] = inode[g]
  <2> DEFINE x == [inode[f] EXCEPT !.dirty = FALSE]
  <2>1. x \in Memory /\ x.din = inode[f].din /\ x.ref = inode[f].ref /\ x.dirty = FALSE
    BY <1>4 DEF Memory
  <2>2. inode' = [inode EXCEPT ![f] = x] /\ inode \in [Files -> Memory]
    BY <1>1, <1>6 DEF Typed
  <2> HIDE DEF x
  <2> QED  BY <2>1, <2>2
<1>8. Typed'
  BY <1>1, <1>5, <1>6, <1>7 DEF Typed
<1>9. ASSUME NEW g \in Files  PROVE OnDisk(Din(g)', Din(g)) /\ Saved(g)'
  <2>0. OnDisk(Din(g), Din(g))
    BY <1>4, OnDiskSelf DEF Whole, Intact
  <2>1. CASE g = f
    <3>1. Din(f)' = Din(f)
      BY <1>4, <1>7 DEF Din
    <3>2. Saved(f)'
      BY <1>5, <1>6, <1>7 DEF Saved
    <3> QED  BY <2>0, <2>1, <3>1, <3>2
  <2>2. CASE g # f
    <3>1. disk'[g] = disk[g] /\ inode'[g] = inode[g]
      BY <1>5, <1>6, <1>7, <2>2
    <3> QED  BY <1>4, <2>0, <3>1 DEF Din, Saved
  <2> QED  BY <2>1, <2>2
<1>10. DiskInv'
  BY <1>1, <1>6, <1>8, <1>9, SettledDisk
<1>11. InFile'
  BY <1>6, <1>9, SettledInFile
<1>12. Referred'
  <2>1. \A g \in Files : inode'[g].ref = inode[g].ref
    BY <1>7
  <2>2. \A g : Users(g)' = Users(g)
    BY <1>6 DEF Users
  <2> QED  BY <1>1, <2>1, <2>2 DEF Referred
<1> QED  BY <1>9, <1>10, <1>11, <1>12 DEF SfsInv

LEMMA CloseInv ==
    ASSUME NEW d \in Descriptors, Layout, SfsInv, file[d] # CLOSED, file_close(d)
    PROVE  SfsInv' /\ \A g \in Files : OnDisk(Din(g)', Din(g))
<1>1. DiskInv /\ Referred /\ InFile /\ Typed
  BY DEF SfsInv, DiskInv
<1>2. file[d] \in Open /\ inode[file[d].node].ref \in Nat \ {0}
  BY UsedFile
<1>3. PICK f \in Files : f = file[d].node
  BY <1>2 DEF Open
<1>4. inode[f].ref \in Nat /\ inode[f].ref > 0 /\ inode[f] \in Memory
      /\ \A g \in Files : Whole(g) /\ Saved(g)
  BY <1>1, <1>2, <1>3, DinType DEF DiskInv
<1> DEFINE dk == sfs_fsync(f, inode[f])
           gone == [din |-> NoContent, dirty |-> FALSE, ref |-> 0]
<1>5. /\ dk \in [Files -> Inode] /\ OnDisk(dk[f], inode[f].din)
      /\ \A g \in Files : g # f => dk[g] = disk[g]
  BY <1>1, <1>4, Synced
<1>6. /\ file' = [file EXCEPT ![d] = CLOSED]
      /\ UNCHANGED << freemap, unused_blocks, data, entry, panic >>
      /\ IF inode[f].ref > 1
           THEN inode' = [inode EXCEPT ![f].ref = @ - 1] /\ UNCHANGED disk
           ELSE disk' = dk /\ inode' = [inode EXCEPT ![f] = gone]
  BY <1>3 DEF file_close
<1> HIDE DEF dk
<1>7. gone \in Memory /\ gone.ref = 0
  BY BlockType DEF Memory, Inode, NoContent, Number
<1> HIDE DEF gone
<1>8. /\ file' \in [Descriptors -> Open \cup {CLOSED}] /\ file'[d] = CLOSED
      /\ \A e \in Descriptors : e # d => file'[e] = file[e]
  BY <1>1, <1>6 DEF Typed
<1>9. /\ inode' \in [Files -> Memory] /\ disk' \in [Files -> Inode]
      /\ inode'[f].ref = inode[f].ref - 1
      /\ IF inode[f].ref > 1
           THEN inode'[f].din = inode[f].din /\ inode'[f].dirty = inode[f].dirty /\ disk' = disk
           ELSE disk' = dk
      /\ \A g \in Files : g # f => inode'[g] = inode[g] /\ disk'[g] = disk[g]
  <2>1. inode \in [Files -> Memory] /\ disk \in [Files -> Inode]
    BY <1>1 DEF Typed
  <2>2. CASE inode[f].ref > 1
    <3> DEFINE x == [inode[f] EXCEPT !.ref = @ - 1]
    <3>1. x \in Memory /\ x.din = inode[f].din /\ x.dirty = inode[f].dirty
          /\ x.ref = inode[f].ref - 1
      BY <1>4, <2>2 DEF Memory
    <3>2. inode' = [inode EXCEPT ![f] = x] /\ disk' = disk
      BY <1>6, <2>2
    <3> HIDE DEF x
    <3> QED  BY <2>1, <2>2, <3>1, <3>2
  <2>3. CASE ~(inode[f].ref > 1)
    <3>1. inode[f].ref - 1 = 0
      BY <1>4, <2>3
    <3>2. inode' = [inode EXCEPT ![f] = gone] /\ disk' = dk
      BY <1>6, <2>3
    <3> QED  BY <1>5, <1>7, <2>1, <2>3, <3>1, <3>2
  <2> QED  BY <2>2, <2>3
<1>10. Typed'
  BY <1>1, <1>6, <1>8, <1>9 DEF Typed
<1>11. ASSUME NEW g \in Files  PROVE OnDisk(Din(g)', Din(g)) /\ Saved(g)'
  <2>0. OnDisk(Din(g), Din(g))
    BY <1>4, OnDiskSelf DEF Whole, Intact
  <2>1. CASE g = f /\ inode[f].ref > 1
    <3>1. inode'[f].ref # 0 /\ inode[f].ref # 0
      BY <1>4, <1>9, <2>1
    <3>2. Din(f)' = Din(f)
      BY <1>9, <2>1, <3>1 DEF Din
    <3>3. Saved(f)'
      BY <1>4, <1>9, <2>1 DEF Saved
    <3> QED  BY <2>0, <2>1, <3>2, <3>3
  <2>2. CASE g = f /\ ~(inode[f].ref > 1)
    <3>1. inode'[f].ref = 0 /\ inode[f].ref # 0
      BY <1>4, <1>9, <2>2
    <3>2. Din(f)' = dk[f] /\ Din(f) = inode[f].din
      BY <1>9, <2>2, <3>1 DEF Din
    <3>3. Saved(f)'
      BY <3>1 DEF Saved
    <3> QED  BY <1>5, <2>2, <3>2, <3>3
  <2>3. CASE g # f
    <3>1. disk'[g] = disk[g] /\ inode'[g] = inode[g]
      BY <1>9, <2>3
    <3> QED  BY <1>4, <2>0, <3>1 DEF Din, Saved
  <2> QED  BY <2>1, <2>2, <2>3
<1>12. DiskInv'
  BY <1>1, <1>6, <1>10, <1>11, SettledDisk
<1>13. InFile'
  BY <1>8, <1>11, SettledInFile
<1>14. Referred'
  <2> SUFFICES ASSUME NEW g \in Files  PROVE inode'[g].ref = Cardinality(Users(g)')
    BY DEF Referred
  <2>1. CASE g # f
    <3>1. Users(g)' = Users(g)
      BY <1>3, <1>8, <2>1 DEF Users
    <3> QED  BY <1>1, <1>9, <2>1, <3>1 DEF Referred
  <2>2. CASE g = f
    <3>1. Users(f)' = Users(f) \ {d} /\ d \in Users(f)
      BY <1>3, <1>8 DEF Users
    <3>2. Cardinality(Users(f) \ {d}) = Cardinality(Users(f)) - 1
      BY <3>1, UsersFinite, FS_RemoveElement
    <3> QED  BY <1>1, <1>9, <2>2, <3>1, <3>2 DEF Referred
  <2> QED  BY <2>1, <2>2
<1> QED  BY <1>11, <1>12, <1>13, <1>14 DEF SfsInv

LEMMA InitInv ==
    ASSUME Layout, Init
    PROVE  SfsInv
<1>1. /\ freemap = Block /\ unused_blocks = NBLK /\ panic = "none"
      /\ data = [b \in Block |-> [i \in 0..BLKSIZE - 1 |-> JUNK]]
      /\ entry = [b \in Block |-> NoEntries] /\ disk = [f \in Files |-> NoContent]
      /\ inode = [f \in Files |-> [din |-> NoContent, dirty |-> FALSE, ref |-> 0]]
      /\ file = [d \in Descriptors |-> CLOSED]
  BY DEF Init
<1>2. /\ NoContent \in Inode /\ NoContent.size = 0 /\ NoContent.blocks = 0
      /\ NoContent.indirect = 0 /\ NoContent.direct = [i \in 0..NDIRECT - 1 |-> 0]
  BY BlockType DEF Inode, NoContent, Number
<1>3. \A f \in Files : Din(f) = NoContent
  BY <1>1 DEF Din
<1>4. ASSUME NEW ent, NEW k \in Key  PROVE At(NoContent, ent, k) = 0
  <2>1. k # -1 /\ k < NDIRECT => k \in 0..NDIRECT - 1
    BY DEF Key, Index, Layout
  <2> QED  BY <1>2, <2>1 DEF At
<1>5. Typed
  <2>1. unused_blocks = Cardinality(freemap)
    BY <1>1, FS_Interval DEF Layout, Block
  <2>2. data \in Data /\ entry \in Entries
    BY <1>1, BlockType DEF Data, Entries, Offset
  <2>3. [din |-> NoContent, dirty |-> FALSE, ref |-> 0] \in Memory
    BY <1>2 DEF Memory
  <2>4. disk \in [Files -> Inode] /\ inode \in [Files -> Memory]
    BY <1>1, <1>2, <2>3
  <2> QED  BY <1>1, <2>1, <2>2, <2>4 DEF Typed
<1>6. ASSUME NEW f \in Files  PROVE Whole(f) /\ Saved(f) /\ inode[f].ref = Cardinality(Users(f))
  <2>1. Sizes(NoContent)
    <3>1. 0 * BLKSIZE = 0
      BY DEF Layout
    <3> QED  BY <1>2, <3>1 DEF Sizes, Layout
  <2>2. Filled(NoContent, entry, 0) /\ BlankIn(NoContent, entry, data)
    BY <1>4 DEF Filled, BlankIn, Key, Index
  <2>3. Whole(f)
    BY <1>2, <1>3, <2>1, <2>2 DEF Whole, Intact
  <2>4. inode[f].ref = 0 /\ Users(f) = {}
    BY <1>1 DEF Users
  <2>5. Cardinality(Users(f)) = 0
    BY <2>4, FS_EmptySet
  <2> QED  BY <2>3, <2>4, <2>5 DEF Saved
<1>7. \A f \in Files, k \in Key : NameOf(f, k) = 0
  BY <1>3, <1>4 DEF NameOf
<1>8. NamedOnce
  BY <1>7 DEF NamedOnce
<1>9. FreeUnnamed
  BY <1>1, <1>7, BlockType DEF FreeUnnamed
<1>10. InFile
  BY <1>1 DEF InFile
<1> QED  BY <1>5, <1>6, <1>8, <1>9, <1>10 DEF SfsInv, DiskInv, Referred

LEMMA NextInv ==
    ASSUME Layout, SfsInv, [Next]_vars
    PROVE  SfsInv'
<1>1. CASE UNCHANGED vars
  <2>1. UNCHANGED << freemap, unused_blocks, data, entry, disk, inode, file, panic >>
    BY <1>1 DEF vars
  <2>2. \A f : Din(f)' = Din(f)
    BY <2>1 DEF Din
  <2>3. \A f : /\ Whole(f)' <=> Whole(f)
               /\ Saved(f)' <=> Saved(f)
               /\ Users(f)' = Users(f) /\ \A k : NameOf(f, k)' = NameOf(f, k)
    BY <2>1, <2>2 DEF Whole, Saved, Users, NameOf
  <2>4. Typed'
    BY <2>1 DEF SfsInv, DiskInv, Typed
  <2>5. DiskInv'
    BY <2>1, <2>3, <2>4 DEF SfsInv, DiskInv, NamedOnce, FreeUnnamed
  <2>6. Referred' /\ InFile'
    BY <2>1, <2>2, <2>3 DEF SfsInv, Referred, InFile
  <2> QED  BY <2>5, <2>6 DEF SfsInv
<1>2. ASSUME NEW d \in Descriptors, NEW f \in Files, NEW trunc \in BOOLEAN,
             NEW append \in BOOLEAN, trunc => SHARED_TRUNC \/ inode[f].ref = 0,
             file_open(d, f, trunc, append)
      PROVE  SfsInv'
  BY <1>2, OpenInv
<1>3. ASSUME NEW d \in Descriptors, file[d] # CLOSED, file_close(d)  PROVE SfsInv'
  BY <1>3, CloseInv
<1>4. ASSUME NEW d \in Descriptors, file[d] # CLOSED, NEW w \in Texts, file_write(d, w)
      PROVE  SfsInv'
  <2>1. w \in Seq(Nat)
    BY DEF Layout
  <2> QED  BY <1>4, <2>1, WriteInv
<1>5. ASSUME NEW d \in Descriptors, file[d] # CLOSED, NEW w \in Texts, file_read(d, Len(w))
      PROVE  SfsInv'
  <2>1. Len(w) \in Nat
    BY DEF Layout
  <2> QED  BY <1>5, <2>1, ReadInv
<1>6. ASSUME NEW d \in Descriptors, file[d] # CLOSED, NEW pos \in Positions, file_seek(d, pos)
      PROVE  SfsInv'
  <2>1. pos \in Nat
    BY DEF Layout
  <2> QED  BY <1>6, <2>1, SeekInv
<1>7. ASSUME NEW d \in Descriptors, file[d] # CLOSED, file_fsync(d)  PROVE SfsInv'
  BY <1>7, SyncInv
<1> QED  BY <1>1, <1>2, <1>3, <1>4, <1>5, <1>6, <1>7 DEF Next

\* Between any two calls, for any layout of the disk: every block is free or has one
\* name, and every file is whole.
THEOREM FilesInductive == Layout /\ Spec => []SfsInv
<1> SUFFICES ASSUME Layout  PROVE Spec => []SfsInv
  OBVIOUS
<1>1. Init => SfsInv
  BY InitInv
<1>2. SfsInv /\ [Next]_vars => SfsInv'
  BY NextInv
<1> QED  BY <1>1, <1>2, PTL DEF Spec

-----------------------------------------------------------------------------
(* What follows from the invariant *)

LEMMA InvTypeOK ==
    ASSUME Layout, NBLK <= NDIRECT + NENTRY, SfsInv
    PROVE  TypeOK
<1>1. Typed /\ (\A f \in Files : Saved(f)) /\ Referred
  BY DEF SfsInv, DiskInv
<1>2. freemap \subseteq Block
  BY <1>1 DEF Typed
<1>3. unused_blocks \in 0..NBLK
  <2>1. IsFiniteSet(Block) /\ Cardinality(Block) = NBLK
    BY FS_Interval DEF Layout, Block
  <2>2. Cardinality(freemap) <= Cardinality(Block) /\ IsFiniteSet(freemap)
    BY <1>2, <2>1, FS_Subset
  <2>3. Cardinality(freemap) \in Nat
    BY <2>2, FS_CardinalityType
  <2> QED  BY <1>1, <2>1, <2>2, <2>3 DEF Typed, Layout
<1>4. ASSUME NEW b \in Block
      PROVE  DOMAIN data[b] = 0..BLKSIZE - 1 /\ entry[b] \in [0..NENTRY - 1 -> 0..NBLK]
  BY <1>1 DEF Typed, Data, Entries, Offset, Slot, Number
<1>5. ASSUME NEW f \in Files
      PROVE  /\ inode[f].ref = Cardinality({d \in Descriptors :
                                              file[d] # CLOSED /\ file[d].node = f})
             /\ inode[f].ref > 0 /\ ~inode[f].dirty => disk[f].size = inode[f].din.size
  BY <1>1 DEF Referred, Users, Saved, OnDisk
<1>6. panic \in {"none", "sfs_bmap_load_nolock", "sfs_truncfile"}
  <2>1. ~(NBLK > NDIRECT + NENTRY)
    BY DEF Layout
  <2> QED  BY <1>1, <2>1 DEF Typed, Failing
<1> QED  BY <1>2, <1>3, <1>4, <1>5, <1>6 DEF TypeOK

\* Where the block that f has under k is named.
PlaceOf(f, k) ==
    IF k = -1 THEN << NameOf(f, k), f, "indirect", 0 >>
    ELSE IF k < NDIRECT THEN << NameOf(f, k), f, "direct", k >>
    ELSE << NameOf(f, k), f, "entry", k - NDIRECT >>

PlaceNames(f, b, p) == \E k \in Key : NameOf(f, k) = b /\ p = PlaceOf(f, k)

PlacesIn(f) ==
    LET d == Din(f)
    IN  {<< d.direct[i], f, "direct", i >> : i \in 0..NDIRECT - 1}
        \cup {<< d.indirect, f, "indirect", 0 >>}
        \cup (IF d.indirect = 0 THEN {}
              ELSE {<< entry[d.indirect][i], f, "entry", i >> : i \in 0..NENTRY - 1})

LEMMA PlaceNamed ==
    ASSUME NEW f, NEW b, NEW p, Layout, b # 0
    PROVE  p \in PlacesIn(f) /\ p[1] = b <=> PlaceNames(f, b, p)
<1> DEFINE d == Din(f)
<1>1. NDIRECT \in Nat /\ NENTRY \in Nat
  BY DEF Layout
<1>2. NameOf(f, -1) = d.indirect /\ -1 \in Key
  BY DEF NameOf, At, Key
<1>3. ASSUME NEW i \in 0..NDIRECT - 1
      PROVE  /\ i \in Key /\ NameOf(f, i) = d.direct[i]
             /\ PlaceOf(f, i) = << d.direct[i], f, "direct", i >>
  <2>1. i \in Index /\ i # -1 /\ i < NDIRECT
    BY <1>1 DEF Index
  <2> QED  BY <2>1 DEF Key, NameOf, At, PlaceOf
<1>4. ASSUME NEW i \in 0..NENTRY - 1
      PROVE  /\ NDIRECT + i \in Key
             /\ d.indirect = 0 => NameOf(f, NDIRECT + i) = 0
             /\ d.indirect # 0 =>
                  /\ NameOf(f, NDIRECT + i) = entry[d.indirect][i]
                  /\ PlaceOf(f, NDIRECT + i) = << entry[d.indirect][i], f, "entry", i >>
  <2> DEFINE k == NDIRECT + i
  <2>2. k \in Index /\ k # -1 /\ ~(k < NDIRECT) /\ k - NDIRECT = i
    BY <1>1 DEF Index
  <2> HIDE DEF k
  <2>1. NameOf(f, k) = IF d.indirect = 0 THEN 0 ELSE entry[d.indirect][i]
    BY <2>2 DEF NameOf, At
  <2>4. PlaceOf(f, k) = << NameOf(f, k), f, "entry", i >>
    BY <2>2 DEF PlaceOf
  <2>5. k \in Key
    BY <2>2 DEF Key
  <2> QED  BY <2>1, <2>4, <2>5 DEF k
<1>5. \A k \in Key : k = -1 \/ k \in 0..NDIRECT - 1 \/ \E i \in 0..NENTRY - 1 : k = NDIRECT + i
  <2> SUFFICES ASSUME NEW k \in Key, k # -1, k \notin 0..NDIRECT - 1
               PROVE  k - NDIRECT \in 0..NENTRY - 1 /\ k = NDIRECT + (k - NDIRECT)
    OBVIOUS
  <2> QED  BY <1>1 DEF Key, Index
<1>6. ASSUME p \in PlacesIn(f), p[1] = b  PROVE PlaceNames(f, b, p)
  <2>1. CASE \E i \in 0..NDIRECT - 1 : p = << d.direct[i], f, "direct", i >>
    <3>1. PICK i \in 0..NDIRECT - 1 : p = << d.direct[i], f, "direct", i >>
      BY <2>1
    <3>2. p[1] = d.direct[i]
      BY <3>1
    <3> HIDE DEF d
    <3> QED  BY <1>3, <1>6, <3>1, <3>2 DEF PlaceNames
  <2>2. CASE p = << d.indirect, f, "indirect", 0 >>
    <3>1. p[1] = d.indirect
      BY <2>2
    <3> QED  BY <1>2, <1>6, <2>2, <3>1 DEF PlaceNames, PlaceOf
  <2>3. CASE d.indirect # 0 /\ \E i \in 0..NENTRY - 1 : p = << entry[d.indirect][i], f, "entry", i >>
    <3>1. PICK i \in 0..NENTRY - 1 : p = << entry[d.indirect][i], f, "entry", i >>
      BY <2>3
    <3>2. p[1] = entry[d.indirect][i]
      BY <3>1
    <3> HIDE DEF d
    <3> QED  BY <1>4, <1>6, <2>3, <3>1, <3>2 DEF PlaceNames
  <2> QED  BY <1>6, <2>1, <2>2, <2>3 DEF PlacesIn
<1>7. ASSUME PlaceNames(f, b, p)  PROVE p \in PlacesIn(f) /\ p[1] = b
  <2>1. PICK k \in Key : NameOf(f, k) = b /\ p = PlaceOf(f, k)
    BY <1>7 DEF PlaceNames
  <2>2. p[1] = b
    BY <2>1 DEF PlaceOf
  <2>3. CASE k = -1
    <3>1. p = << d.indirect, f, "indirect", 0 >>
      BY <1>2, <2>1, <2>3 DEF PlaceOf
    <3> QED  BY <2>2, <3>1 DEF PlacesIn
  <2>4. CASE k \in 0..NDIRECT - 1
    <3>1. p = << d.direct[k], f, "direct", k >>
      BY <1>3, <2>1, <2>4
    <3> QED  BY <2>2, <2>4, <3>1 DEF PlacesIn
  <2>5. CASE \E i \in 0..NENTRY - 1 : k = NDIRECT + i
    <3>1. PICK i \in 0..NENTRY - 1 : k = NDIRECT + i
      BY <2>5
    <3>2. d.indirect # 0
      BY <1>4, <2>1, <3>1
    <3>3. p = << entry[d.indirect][i], f, "entry", i >>
      BY <1>4, <2>1, <3>1, <3>2
    <3> QED  BY <2>2, <3>2, <3>3 DEF PlacesIn
  <2> QED  BY <1>5, <2>3, <2>4, <2>5
<1> QED  BY <1>6, <1>7

LEMMA InvBlocksOnce ==
    ASSUME Layout, SfsInv
    PROVE  BlocksOnce
<1>1. Typed /\ NamedOnce /\ FreeUnnamed
  BY DEF SfsInv, DiskInv
<1>2. unused_blocks = Cardinality(freemap)
  BY <1>1 DEF Typed
<1>3. ASSUME NEW b \in Block
      PROVE  Cardinality({p \in Places : p[1] = b}) = IF b \in freemap THEN 0 ELSE 1
  <2>0. b # 0
    BY DEF Block
  <2> DEFINE P == {p \in Places : p[1] = b}
  <2>1. \A p : p \in P <=> \E f \in Files : PlaceNames(f, b, p)
    <3>1. Places = UNION {PlacesIn(f) : f \in Files}
      BY Zenon DEF Places, PlacesIn
    <3>2. \A f \in Files : \A p : p \in PlacesIn(f) /\ p[1] = b <=> PlaceNames(f, b, p)
      BY <2>0, PlaceNamed
    <3> QED  BY <3>1, <3>2
  <2> HIDE DEF P
  <2>2. CASE b \in freemap
    <3>1. P = {}
      BY <1>1, <2>1, <2>2 DEF FreeUnnamed, PlaceNames
    <3> QED  BY <2>2, <3>1, FS_EmptySet DEF P
  <2>3. CASE b \notin freemap
    <3>1. PICK f \in Files, k \in Key : NameOf(f, k) = b
      BY <1>1, <2>3 DEF FreeUnnamed
    <3>2. P = {PlaceOf(f, k)}
      <4>1. PlaceOf(f, k) \in P
        BY <2>1, <3>1 DEF PlaceNames
      <4>2. ASSUME NEW p \in P  PROVE p = PlaceOf(f, k)
        <5>1. PICK g \in Files, l \in Key : NameOf(g, l) = b /\ p = PlaceOf(g, l)
          BY <2>1 DEF PlaceNames
        <5>2. g = f /\ l = k
          BY <1>1, <2>0, <3>1, <5>1 DEF NamedOnce
        <5> QED  BY <5>1, <5>2
      <4> QED  BY <4>1, <4>2
    <3> QED  BY <2>3, <3>2, FS_Singleton DEF P
  <2> QED  BY <2>2, <2>3
<1> QED  BY <1>2, <1>3 DEF BlocksOnce

\* The bytes of a file.
TextIs(f, t, s) ==
    /\ t \in Seq(Byte) /\ Len(t) = s.din.size
    /\ \A i \in 1..Len(t) : t[i] = FileByte(s, i - 1)

LEMMA TextFacts ==
    ASSUME NEW f \in Files, Layout, DiskInv
    PROVE  TextIs(f, TextOf(f), Loaded(f))
<1> DEFINE s == Loaded(f)
           t == TextOf(f)
           Byte1(i) == LET b == BlockOf(f, (i - 1) \div BLKSIZE)
                       IN  IF b = 0 THEN 0 ELSE data[b][(i - 1) % BLKSIZE]
<1>1. s.din = Din(f) /\ s.entry = entry /\ s.data = data /\ s.din.size \in Nat /\ s \in Work
  BY LoadedGood DEF Begins, Good, Core, Work, Inode
<1>2. t = [i \in 1..Din(f).size |-> Byte1(i)]
  BY DEF TextOf
<1> HIDE DEF s
<1>3. ASSUME NEW i \in 1..Din(f).size  PROVE Byte1(i) = FileByte(s, i - 1) /\ Byte1(i) \in Byte
  <2> DEFINE q == (i - 1) \div BLKSIZE
             r == (i - 1) % BLKSIZE
  <2>0. /\ BLKSIZE \in Nat \ {0} /\ i - 1 \in Nat /\ i - 1 < Din(f).size
        /\ s.din.blocks \in Nat /\ Sizes(s.din) /\ Filled(s.din, s.entry, s.din.blocks)
    <3>1. Whole(f) /\ Typed
      BY DEF DiskInv
    <3>2. s.din.blocks \in Nat
      BY <1>1 DEF Work, Inode
    <3> QED  BY <1>1, <3>1, <3>2 DEF Layout, Whole, Intact
  <2>1. q \in Nat /\ r \in Offset /\ i - 1 = q * BLKSIZE + r
    BY <2>0, Divided DEF Offset
  <2>2. q < s.din.blocks
    <3> DEFINE m == s.din.blocks
    <3>1. s.din.size <= m * BLKSIZE
      BY <2>0 DEF Sizes
    <3>2. m \in Nat /\ q \in Nat /\ i - 1 < s.din.size
      BY <1>1, <2>0, <2>1
    <3> HIDE DEF m, q, r
    <3> SUFFICES ASSUME m <= q  PROVE FALSE
      BY <3>2 DEF m
    <3>3. m * BLKSIZE <= q * BLKSIZE /\ m * BLKSIZE \in Nat /\ q * BLKSIZE \in Nat
      BY <2>0, <3>2, Multiples
    <3> DEFINE x == m * BLKSIZE
               y == q * BLKSIZE
    <3>4. s.din.size <= x /\ x <= y /\ x \in Nat /\ y \in Nat /\ i - 1 = y + r /\ r \in Nat
      BY <2>1, <3>1, <3>3 DEF Offset
    <3> HIDE DEF x, y
    <3> QED  BY <1>1, <3>2, <3>4
  <2>3. q \in Index /\ q \in Key /\ q # -1
    BY <2>0, <2>1, <2>2 DEF Sizes, Layout, Index, Key
  <2> HIDE DEF q, r
  <2>4. BlockOf(f, q) = At(s.din, s.entry, q)
    BY <1>1, <2>3 DEF BlockOf, At
  <2>5. Byte1(i) = ByteAt(s, q, r)
    BY <1>1, <2>4 DEF ByteAt, q, r
  <2>6. At(s.din, s.entry, q) # 0 /\ At(s.din, s.entry, q) \in Block
    BY <1>1, <2>0, <2>2, <2>3, AtType DEF Filled, Work
  <2>7. ByteAt(s, q, r) \in Byte
    BY <1>1, <2>1, <2>6 DEF ByteAt, Work, Data
  <2>8. FileByte(s, i - 1) = ByteAt(s, q, r)
    BY DEF FileByte, q, r
  <2> QED  BY <2>5, <2>7, <2>8
<1> HIDE DEF Byte1, t
<1>4. t \in Seq(Byte) /\ Len(t) = Din(f).size /\ \A i \in 1..Din(f).size : t[i] = Byte1(i)
  BY <1>1, <1>2, <1>3
<1> QED  BY <1>1, <1>3, <1>4 DEF TextIs, t, s

LEMMA InvReadExact ==
    ASSUME Layout, SfsInv
    PROVE  ReadExact
<1> SUFFICES ASSUME NEW d \in Descriptors, file[d] # CLOSED, NEW len \in 1..BLKSIZE + 1
             PROVE  LET s == sfs_read(Loaded(file[d].node), file[d].pos, len)
                        t == TextOf(file[d].node)
                        n == IF file[d].pos + len > Len(t) THEN Len(t) ELSE file[d].pos + len
                    IN  s.ok => s.buf = SubSeq(t, file[d].pos + 1, n)
  BY DEF ReadExact
<1> DEFINE f == file[d].node
           l == Loaded(f)
           p == file[d].pos
           s == sfs_read(l, p, len)
           t == TextOf(f)
           end == IF p + len > l.din.size THEN l.din.size ELSE p + len
<1>1. f \in Files /\ p \in Nat /\ Starts(l, Others(f), p) /\ Others(f) \in SUBSET Block
  BY StartsHere
<1>2. TextIs(f, t, l)
  BY <1>1, TextFacts DEF SfsInv
<1>3. Did(l, s, Others(f), p, end, << >>, "read")
  <2>1. len \in Nat
    BY DEF Layout
  <2> HIDE DEF f, p, l
  <2> QED  BY <1>1, <2>1, ReadFacts
<1> HIDE DEF s, l, t, f, p
<1>4. p <= l.din.size /\ l.din.size \in Nat /\ len \in Nat
  BY <1>1 DEF Starts, Good, Core, Work, Inode, Layout
<1>5. p <= end /\ end <= l.din.size /\ end \in Nat
  BY <1>1, <1>4
<1> SUFFICES ASSUME s.ok  PROVE s.buf = SubSeq(t, p + 1, end)
  BY <1>2 DEF TextIs, s, l, t, f, p
<1> HIDE DEF end
<1>6. s \in Work /\ p + s.alen = end /\ WasRead(l, s, p)
  BY <1>3 DEF Did, Moved
<1>7. s.buf \in Seq(Byte) /\ s.alen \in Nat /\ Len(s.buf) = end - p
      /\ \A x \in 1..end - p : s.buf[x] = FileByte(l, p + x - 1)
  <2>1. s.alen \in Nat /\ s.alen = end - p
    BY <1>1, <1>5, <1>6 DEF Work
  <2> QED  BY <1>6, <2>1 DEF Work, WasRead
<1>8. t \in Seq(Byte) /\ Len(t) = l.din.size /\ \A i \in 1..Len(t) : t[i] = FileByte(l, i - 1)
  BY <1>2 DEF TextIs
<1> DEFINE u == SubSeq(t, p + 1, end)
<1>9. u \in Seq(Byte) /\ Len(u) = end - p /\ \A i \in 1..end - p : u[i] = t[p + i]
  <2>1. \A i \in p + 1..end : t[i] \in Byte
    BY <1>1, <1>4, <1>5, <1>8
  <2>2. /\ u \in Seq(Byte) /\ Len(u) = IF p + 1 <= end THEN end - (p + 1) + 1 ELSE 0
        /\ \A i \in 1..end - (p + 1) + 1 : u[i] = t[(p + 1) + i - 1]
    BY <1>1, <1>5, <2>1, SubSeqProperties
  <2>3. (p + 1 <= end => end - (p + 1) + 1 = end - p) /\ (~(p + 1 <= end) => end - p = 0)
        /\ 1..end - (p + 1) + 1 = 1..end - p /\ \A i \in 1..end - p : (p + 1) + i - 1 = p + i
    BY <1>1, <1>5
  <2> HIDE DEF u
  <2> QED  BY <2>2, <2>3
<1>10. ASSUME NEW i \in 1..end - p  PROVE s.buf[i] = u[i]
  <2> DEFINE k == p + i
  <2>1. k \in 1..Len(t) /\ k - 1 = p + i - 1
    BY <1>1, <1>4, <1>5, <1>8
  <2>2. u[i] = t[k]
    BY <1>9
  <2> HIDE DEF k
  <2>3. t[k] = FileByte(l, k - 1)
    BY <1>8, <2>1
  <2> QED  BY <1>7, <2>1, <2>2, <2>3
<1> HIDE DEF u
<1>11. s.buf = u
  BY <1>7, <1>9, <1>10
<1> QED  BY <1>11 DEF u

\* Between any two calls the bitmap and unused_blocks agree with the inodes, every
\* inode counts its descriptors, what is not marked is on the disk with its size,
\* and the only assert that may have failed is the one of sfs_truncfile about the
\* blocks of a file.
THEOREM FilesTyped == Layout /\ NBLK <= NDIRECT + NENTRY /\ Spec => []TypeOK
<1> SUFFICES ASSUME Layout, NBLK <= NDIRECT + NENTRY  PROVE Spec => []TypeOK
  OBVIOUS
<1>1. SfsInv => TypeOK
  BY InvTypeOK
<1>2. Spec => []SfsInv
  BY FilesInductive
<1> QED  BY <1>1, <1>2, PTL

\* Every block is free or named once, by one inode or one indirect block, and
\* unused_blocks counts the free ones, at whichever block the disk was full
\* (sfs_block_alloc, sfs_block_free, sfs_bmap_get_sub_nolock, sfs_bmap_free_nolock).
THEOREM FilesBlocksOnce == Layout /\ Spec => []BlocksOnce
<1> SUFFICES ASSUME Layout  PROVE Spec => []BlocksOnce
  OBVIOUS
<1>1. SfsInv => BlocksOnce
  BY InvBlocksOnce
<1>2. Spec => []SfsInv
  BY FilesInductive
<1> QED  BY <1>1, <1>2, PTL

\* A read that does not fail returns the bytes of the file from the position on, cut
\* where the file ends, for any position and any length of blocks (sfs_io_nolock).
THEOREM FilesReadExact == Layout /\ Spec => []ReadExact
<1> SUFFICES ASSUME Layout  PROVE Spec => []ReadExact
  OBVIOUS
<1>1. SfsInv => ReadExact
  BY InvReadExact
<1>2. Spec => []SfsInv
  BY FilesInductive
<1> QED  BY <1>1, <1>2, PTL

\* Unless a file that is open is opened with O_TRUNC, sfs_bmap_load_nolock is never
\* asked for a block past the next one, and its assert holds.
THEOREM FilesLoadInRange == Layout /\ Spec => []LoadInRange
<1> SUFFICES ASSUME Layout  PROVE Spec => []LoadInRange
  OBVIOUS
<1>1. SfsInv => LoadInRange
  BY DEF SfsInv, DiskInv, Typed, Failing, LoadInRange
<1>2. Spec => []SfsInv
  BY FilesInductive
<1> QED  BY <1>1, <1>2, PTL

-----------------------------------------------------------------------------
(* What programs see: sequences of bytes, as in Contents.                   *)

C == INSTANCE Contents WITH text <- texts, at <- positions

\* The bytes of an inode.
TextIn(din, ent, dat) ==
    [i \in 1..din.size |->
       LET b == At(din, ent, (i - 1) \div BLKSIZE)
       IN  IF b = 0 THEN 0 ELSE dat[b][(i - 1) % BLKSIZE]]

Text(s) == TextIn(s.din, s.entry, s.data)

\* Where byte i of a file is.
Lands(i, q, r) ==
    /\ q \in Nat /\ q \in Index /\ q \in Key /\ q # -1 /\ r \in Offset
    /\ i - 1 = q * BLKSIZE + r

LEMMA InReach ==
    ASSUME NEW din \in Inode, Layout, Sizes(din), NEW i \in 1..din.size
    PROVE  Lands(i, (i - 1) \div BLKSIZE, (i - 1) % BLKSIZE)
<1> DEFINE q == (i - 1) \div BLKSIZE
           r == (i - 1) % BLKSIZE
           m == din.blocks
           x == m * BLKSIZE
           y == q * BLKSIZE
<1>1. /\ BLKSIZE \in Nat \ {0} /\ din.size \in Nat /\ i - 1 \in Nat /\ i - 1 < din.size
      /\ m \in Nat /\ din.size <= x /\ m <= NDIRECT + NENTRY
      /\ NDIRECT \in Nat /\ NENTRY \in Nat
  BY DEF Layout, Inode, Sizes
<1>2. q \in Nat /\ r \in 0..BLKSIZE - 1 /\ i - 1 = y + r
  BY <1>1, Divided
<1>3. m <= q => x <= y /\ x \in Nat /\ y \in Nat
  <2> HIDE DEF m, q
  <2> QED  BY <1>1, <1>2, Multiples
<1> HIDE DEF m, q, r, x, y
<1>4. q < m
  BY <1>1, <1>2, <1>3
<1>5. q \in Index /\ q # -1
  BY <1>1, <1>2, <1>4 DEF Index
<1> QED  BY <1>2, <1>5 DEF Lands, Offset, Key, q, r, y

\* A step's TextOf, in terms of the variables before and after it.
LEMMA TextsIn ==
    ASSUME NEW f, Layout
    PROVE  /\ TextOf(f) = TextIn(Din(f), entry, data)
           /\ TextOf(f)' = TextIn(Din(f)', entry', data')
<1>1. ASSUME NEW din, NEW ent, NEW dat
      PROVE  TextIn(din, ent, dat) =
               [i \in 1..din.size |->
                  LET b == IF (i - 1) \div BLKSIZE < NDIRECT THEN din.direct[(i - 1) \div BLKSIZE]
                           ELSE IF din.indirect = 0 THEN 0
                           ELSE ent[din.indirect][(i - 1) \div BLKSIZE - NDIRECT]
                  IN  IF b = 0 THEN 0 ELSE dat[b][(i - 1) % BLKSIZE]]
  <2>1. ASSUME NEW i \in 1..din.size
        PROVE  At(din, ent, (i - 1) \div BLKSIZE) =
                 IF (i - 1) \div BLKSIZE < NDIRECT THEN din.direct[(i - 1) \div BLKSIZE]
                 ELSE IF din.indirect = 0 THEN 0
                 ELSE ent[din.indirect][(i - 1) \div BLKSIZE - NDIRECT]
    <3>1. (i - 1) \div BLKSIZE # -1
      <4>1. i - 1 \in Nat /\ BLKSIZE \in Nat \ {0}
        BY DEF Layout
      <4>2. (i - 1) \div BLKSIZE \in Nat
        BY <4>1, Divided
      <4> QED  BY <4>2
    <3> QED  BY <3>1, Zenon DEF At
  <2> QED  BY <2>1, Zenon DEF TextIn
<1>2. TextOf(f) =
               [i \in 1..Din(f).size |->
                  LET b == IF (i - 1) \div BLKSIZE < NDIRECT
                             THEN Din(f).direct[(i - 1) \div BLKSIZE]
                           ELSE IF Din(f).indirect = 0 THEN 0
                           ELSE entry[Din(f).indirect][(i - 1) \div BLKSIZE - NDIRECT]
                  IN  IF b = 0 THEN 0 ELSE data[b][(i - 1) % BLKSIZE]]
  BY Zenon DEF TextOf, BlockOf
<1>3. TextOf(f)' =
               [i \in 1..Din(f)'.size |->
                  LET b == IF (i - 1) \div BLKSIZE < NDIRECT
                             THEN Din(f)'.direct[(i - 1) \div BLKSIZE]
                           ELSE IF Din(f)'.indirect = 0 THEN 0
                           ELSE entry'[Din(f)'.indirect][(i - 1) \div BLKSIZE - NDIRECT]
                  IN  IF b = 0 THEN 0 ELSE data'[b][(i - 1) % BLKSIZE]]
  BY Zenon DEF TextOf, BlockOf
<1> QED  BY <1>1, <1>2, <1>3

\* The bytes of a file whose blocks are kept.
LEMMA TextKept ==
    ASSUME NEW din \in Inode, NEW ent, NEW dat, NEW ent2, NEW dat2, Layout, Sizes(din),
           \A k : At(din, ent2, k) = At(din, ent, k),
           \A k \in Index : At(din, ent, k) # 0 => dat2[At(din, ent, k)] = dat[At(din, ent, k)]
    PROVE  TextIn(din, ent2, dat2) = TextIn(din, ent, dat)
<1>1. ASSUME NEW i \in 1..din.size
      PROVE  (LET b == At(din, ent2, (i - 1) \div BLKSIZE)
              IN  IF b = 0 THEN 0 ELSE dat2[b][(i - 1) % BLKSIZE])
             = (LET b == At(din, ent, (i - 1) \div BLKSIZE)
                IN  IF b = 0 THEN 0 ELSE dat[b][(i - 1) % BLKSIZE])
  <2> DEFINE q == (i - 1) \div BLKSIZE
  <2>1. q \in Index
    BY InReach DEF Lands
  <2> HIDE DEF q
  <2>2. At(din, ent2, q) = At(din, ent, q)
        /\ (At(din, ent, q) # 0 => dat2[At(din, ent, q)] = dat[At(din, ent, q)])
    BY <2>1
  <2> QED  BY <2>2, Zenon DEF q
<1> QED  BY <1>1, Zenon DEF TextIn

LEMMA TextLike ==
    ASSUME NEW din, NEW d, NEW ent, NEW dat, d.size = din.size, d.direct = din.direct,
           d.indirect = din.indirect
    PROVE  TextIn(d, ent, dat) = TextIn(din, ent, dat)
<1>1. \A k : At(d, ent, k) = At(din, ent, k)
  BY DEF At
<1> DEFINE B(c, i) == LET b == At(c, ent, (i - 1) \div BLKSIZE)
                      IN  IF b = 0 THEN 0 ELSE dat[b][(i - 1) % BLKSIZE]
<1>2. ASSUME NEW i  PROVE B(d, i) = B(din, i)
  <2> DEFINE q == (i - 1) \div BLKSIZE
  <2> HIDE DEF q
  <2>1. At(d, ent, q) = At(din, ent, q)
    BY <1>1
  <2> QED  BY <2>1, Zenon DEF q
<1>3. /\ TextIn(d, ent, dat) = [i \in 1..d.size |-> B(d, i)]
      /\ TextIn(din, ent, dat) = [i \in 1..din.size |-> B(din, i)]
  BY Zenon DEF TextIn
<1> HIDE DEF B
<1> QED  BY <1>2, <1>3

-----------------------------------------------------------------------------
(* A block that a file has is always found, so a read fails at no block.    *)

LEMMA KnownFound ==
    ASSUME NEW s, NEW T, NEW index \in Nat, Layout, Good(s, T), s.ok, index < s.din.blocks
    PROVE  LET v == sfs_bmap_load_nolock(s, index) IN v.ok \/ v.panic # "none"
<1> DEFINE t == sfs_bmap_get_nolock(s, index, FALSE)
           c == [t EXCEPT !.din.blocks = @ + 0]
<1>1. s \in Work /\ s.din.blocks \in Nat /\ s.din.blocks <= NDIRECT + NENTRY
      /\ NDIRECT \in Nat /\ NENTRY \in Nat
  BY DEF Good, Core, Work, Inode, Sizes, Layout
<1>2. sfs_bmap_load_nolock(s, index) = Counted(t, 0)
  <2>1. ~(index > s.din.blocks) /\ index # s.din.blocks
    BY <1>1
  <2> QED  BY <2>1, Zenon DEF sfs_bmap_load_nolock
<1>3. t \in Work /\ t.ok
  <2>0. ~(index >= NDIRECT + NENTRY)
    BY <1>1
  <2>1. PICK ino : t = [s EXCEPT !.ino = ino] /\ ino \in Number
    <3>1. CASE index < NDIRECT
      <4>1. t = [s EXCEPT !.ino = s.din.direct[index]]
        <5>1. ~(index >= NDIRECT)
          BY <1>1, <3>1
        <5> QED  BY <2>0, <5>1, Zenon DEF sfs_bmap_get_nolock
      <4>2. s.din.direct[index] \in Number
        BY <1>1, <3>1 DEF Work, Inode
      <4> QED  BY <4>1, <4>2
    <3>2. CASE ~(index < NDIRECT)
      <4> DEFINE i == index - NDIRECT
                 ino == IF s.din.indirect = 0 THEN 0 ELSE s.entry[s.din.indirect][i]
      <4>1. t = sfs_bmap_get_sub_nolock(s, i, FALSE)
        <5>1. index >= NDIRECT
          BY <1>1, <3>2
        <5> QED  BY <2>0, <5>1, Zenon DEF sfs_bmap_get_nolock
      <4>2. t = [s EXCEPT !.ino = ino]
        BY <4>1, Zenon DEF sfs_bmap_get_sub_nolock
      <4>3. i \in Slot
        BY <1>1, <3>2 DEF Slot
      <4>4. ino \in Number
        <5>1. s.din.indirect \in Number /\ s.entry \in Entries
          BY <1>1 DEF Work, Inode
        <5>2. s.din.indirect # 0 => s.din.indirect \in Block
          BY <5>1 DEF Number, Block
        <5> HIDE DEF i
        <5> QED  BY <4>3, <5>1, <5>2, BlockType DEF Entries
      <4> HIDE DEF ino
      <4> QED  BY <4>2, <4>4
    <3> QED  BY <3>1, <3>2
  <2> HIDE DEF t
  <2> QED  BY <1>1, <2>1 DEF Work
<1> HIDE DEF t
<1>4. Counted(t, 0) = Checked(c, sfs_block_inuse(t, t.ino), "sfs_block_inuse")
  BY <1>3, Zenon DEF Counted
<1>5. c \in Work /\ c.ok
  <2>1. More(t, 0) \in Work /\ More(t, 0).ok = t.ok
    BY <1>3, MoreFacts
  <2> QED  BY <1>3, <2>1 DEF More
<1> HIDE DEF c
<1>6. CASE sfs_block_inuse(t, t.ino) \/ c.panic # "none"
  <2>1. Counted(t, 0) = c
    BY <1>4, <1>6, Zenon DEF Checked
  <2> QED  BY <1>2, <1>5, <2>1
<1>7. CASE ~(sfs_block_inuse(t, t.ino) \/ c.panic # "none")
  <2>1. Counted(t, 0) = [c EXCEPT !.panic = "sfs_block_inuse", !.ok = FALSE]
    BY <1>4, <1>7, Zenon DEF Checked
  <2>2. Counted(t, 0).panic = "sfs_block_inuse"
    BY <1>5, <2>1 DEF Work
  <2> QED  BY <1>2, <2>2
<1> QED  BY <1>6, <1>7

Sound(s) == s.ok \/ s.panic # "none"

\* A part of the file that is there.
LEMMA SoundStep ==
    ASSUME NEW s, NEW u, NEW T, NEW part, NEW p, NEW offset, NEW w, Layout,
           T \in SUBSET Block, s \in Work, Io(s, u, T, p, offset, w, "read"), Sound(u),
           Next1(part, p, offset, w, "read"),
           part.size # 0, p + part.size <= s.din.size
    PROVE  Sound(IoPart(u, part, w, FALSE))
<1> DEFINE v == LoadPart(u, part)
<1>1. IoPart(u, part, w, FALSE) = ReadPart(v, part)
  BY Zenon DEF IoPart
<1>2. CASE ~u.ok
  <2>1. v = u /\ ReadPart(u, part) = u
    BY <1>2, Zenon DEF LoadPart, ReadPart
  <2> QED  BY <1>1, <2>1
<1>3. CASE u.ok
  <2>1. /\ u \in Work /\ Good(u, T) /\ u.din.size = s.din.size /\ u.din.blocks \in Nat
        /\ u.din.size <= u.din.blocks * BLKSIZE /\ s.din.size \in Nat
    BY <1>3 DEF Io, Good, Sizes, Work, Inode
  <2>2. part.blk < u.din.blocks
    <3> DEFINE x == u.din.blocks * BLKSIZE
               y == part.blk * BLKSIZE
    <3>1. part.blk \in Nat /\ BLKSIZE \in Nat
      BY DEF Next1, Layout
    <3>2. u.din.blocks <= part.blk => x <= y /\ x \in Nat /\ y \in Nat
      BY <2>1, <3>1, Multiples
    <3>3. /\ part.off \in Nat /\ part.size \in Nat /\ p = y + part.off /\ p \in Nat
      BY DEF Next1, Offset
    <3>4. s.din.size <= x
      BY <2>1
    <3>5. part.blk \in Nat /\ u.din.blocks \in Nat /\ s.din.size \in Nat
      BY <2>1, <3>1
    <3> DEFINE m == part.blk
               n == u.din.blocks
               z == s.din.size
               a == part.off
               c == part.size
    <3>6. /\ m \in Nat /\ n \in Nat /\ z \in Nat /\ a \in Nat /\ c \in Nat
          /\ (n <= m => x <= y /\ x \in Nat /\ y \in Nat) /\ z <= x
          /\ p = y + a /\ p + c <= z /\ c # 0
      BY <3>2, <3>3, <3>4, <3>5
    <3> HIDE DEF x, y, m, n, z, a, c
    <3>7. m < n
      BY <3>6
    <3> QED  BY <3>7 DEF m, n
  <2>3. v = sfs_bmap_load_nolock(u, part.blk)
    BY <1>3, Zenon DEF LoadPart
  <2>4. part.blk \in Nat
    BY DEF Next1
  <2>5. v.ok \/ v.panic # "none"
    BY <1>3, <2>1, <2>2, <2>3, <2>4, KnownFound
  <2>6. v \in Work
    <3>1. part.blk <= u.din.blocks
      BY <2>1, <2>2, <2>4
    <3> QED  BY <1>3, <2>1, <2>3, <2>4, <3>1, LoadFacts DEF Loads
  <2> HIDE DEF v
  <2>7. ReadPart(v, part).ok = v.ok /\ ReadPart(v, part).panic = v.panic
    BY <2>6 DEF ReadPart, Work
  <2> QED  BY <1>1, <2>5, <2>7 DEF Sound
<1> QED  BY <1>2, <1>3

\* A read within the file finds all its blocks.
LEMMA SoundRead ==
    ASSUME NEW s, NEW T, NEW offset, NEW len, Layout, T \in SUBSET Block,
           Starts(s, T, offset), len \in Nat
    PROVE  Sound(sfs_read(s, offset, len))
<1> DEFINE endpos == IF offset + len > s.din.size THEN s.din.size ELSE offset + len
           seq == Parts(offset, endpos)
           F == IoFold(s, seq, << >>, "read")
<1>1. /\ offset \in Nat /\ s.din.size \in Nat /\ offset <= s.din.size /\ s \in Work /\ s.ok
      /\ Io(s, s, T, offset, offset, << >>, "read")
  BY IoBegins DEF Starts, Good, Core, Work, Inode
<1>2. endpos \in Nat /\ offset <= endpos /\ endpos <= s.din.size
  BY <1>1
<1>3. sfs_read(s, offset, len) =
        IF offset >= s.din.size THEN s ELSE sfs_io_nolock(s, offset, endpos, << >>, FALSE)
  BY DEF sfs_read
<1> HIDE DEF endpos
<1>4. CASE offset >= s.din.size \/ offset = endpos
  <2>1. sfs_read(s, offset, len) = s
    BY <1>3, <1>4, Zenon DEF sfs_io_nolock
  <2> QED  BY <1>1, <2>1 DEF Sound
<1>5. CASE ~(offset >= s.din.size \/ offset = endpos)
  <2>1. offset < endpos
    BY <1>1, <1>2, <1>5
  <2>2. Fills(offset, endpos, << >>, "read")
    BY DEF Fills
  <2>3. PICK q, r, n, e : IsCut(offset, endpos, q, r, n, e)
    BY <1>1, <1>2, <2>1, PartsSpan
  <2>4. Spans(offset, endpos, q, r, n, e) /\ DOMAIN seq = 1..n
        /\ \A k \in 1..n : seq[k] = PartNo(k, q, r, n, e)
    BY <2>3 DEF IsCut, AreParts
  <2>5. n \in Nat /\ n # 0
    BY <2>4 DEF Spans
  <2> HIDE DEF seq
  <2>6. PICK f : Run(f, s, seq, n, "read", << >>) /\ f[n] = F
    BY <2>4, <2>5, IoRun
  <2> HIDE DEF F
  <2> DEFINE N == {k \in Nat : k <= n => /\ Sound(f[k])
                                         /\ Io(s, f[k], T, Upto(k, offset, q, n, e), offset,
                                               << >>, "read")}
  <2>7. 0 \in N
    BY <1>1, <2>6 DEF Run, Upto, Sound
  <2>8. ASSUME NEW k \in Nat, k \in N  PROVE k + 1 \in N
    <3> SUFFICES ASSUME k + 1 <= n
                 PROVE  /\ Sound(f[k + 1])
                        /\ Io(s, f[k + 1], T, Upto(k + 1, offset, q, n, e), offset, << >>,
                              "read")
      OBVIOUS
    <3> DEFINE part == PartNo(k + 1, q, r, n, e)
               p == Upto(k, offset, q, n, e)
               p2 == Upto(k + 1, offset, q, n, e)
               u == f[k]
    <3>1. k \in 0..n - 1 /\ k + 1 \in 1..n /\ k <= n /\ (k + 1) - 1 = k
      BY <2>5
    <3>2. f[k + 1] = IoPart(u, part, << >>, FALSE)
      <4>1. f[k + 1] = Turn(f[k], seq[k + 1], "read", << >>)
        BY <2>6, <3>1, Zenon DEF Run
      <4>2. seq[k + 1] = part
        BY <2>4, <3>1
      <4>3. \A t, x : Turn(t, x, "read", << >>) = IoPart(t, x, << >>, FALSE)
        BY DEF Turn
      <4> HIDE DEF part, u
      <4> QED  BY <4>1, <4>2, <4>3 DEF u
    <3>3. Sound(u) /\ Io(s, u, T, p, offset, << >>, "read")
      BY <2>8, <3>1
    <3>4. Follows(part, p, p2, offset, << >>, "read") /\ p2 <= endpos /\ part.size # 0
      <4>1. Spans(offset, endpos, q, r, n, e)
        BY <2>4
      <4> QED  BY <1>1, <1>2, <2>2, <4>1, <3>1, UptoPart
    <3> HIDE DEF part, p, p2, u
    <3>5. Next1(part, p, offset, << >>, "read") /\ p + part.size = p2 /\ p2 <= s.din.size
      <4>1. p \in Nat /\ part.size \in Nat /\ p + part.size = p2
        BY <3>4 DEF Follows, Next1
      <4> QED  BY <1>1, <1>2, <3>4, <4>1 DEF Follows
    <3>6. Io(s, IoPart(u, part, << >>, "read" = "write"), T, p + part.size, offset, << >>,
             "read")
      BY <1>1, <3>3, <3>5, IoStep
    <3>7. ("read" = "write") = FALSE
      OBVIOUS
    <3>8. Io(s, IoPart(u, part, << >>, FALSE), T, p2, offset, << >>, "read")
      BY <3>5, <3>6, <3>7
    <3>9. Sound(IoPart(u, part, << >>, FALSE))
      BY <1>1, <3>3, <3>4, <3>5, SoundStep
    <3> QED  BY <3>2, <3>8, <3>9 DEF p2
  <2>9. Nat \subseteq N
    <3> HIDE DEF N
    <3> QED  BY <2>7, <2>8, Induction
  <2>10. Sound(F) /\ F \in Work
    <3>1. Sound(f[n]) /\ Io(s, f[n], T, Upto(n, offset, q, n, e), offset, << >>, "read")
      BY <2>5, <2>9
    <3> QED  BY <2>6, <3>1 DEF Io
  <2>11. sfs_read(s, offset, len) = Sized(F, offset)
    <3>1. sfs_io_nolock(s, offset, endpos, << >>, "read" = "write") = Sized(F, offset)
      <4>1. offset # endpos
        BY <1>5
      <4> QED  BY <4>1, Zenon DEF sfs_io_nolock, IoFold, F, seq
    <3>2. ("read" = "write") = FALSE
      OBVIOUS
    <3>3. sfs_io_nolock(s, offset, endpos, << >>, FALSE) = Sized(F, offset)
      BY <3>1, <3>2
    <3> QED  BY <1>3, <1>5, <3>3
  <2>12. Sized(F, offset).ok = F.ok /\ Sized(F, offset).panic = F.panic
    BY <2>10 DEF Sized, Work
  <2> QED  BY <2>10, <2>11, <2>12 DEF Sound
<1> QED  BY <1>4, <1>5

-----------------------------------------------------------------------------
(* Operations as changes of the bytes *)

LEMMA TextBytes ==
    ASSUME NEW s, s.din.size \in Nat
    PROVE  /\ Text(s) = [i \in 1..s.din.size |-> FileByte(s, i - 1)]
           /\ Len(Text(s)) = s.din.size
           /\ \A i \in 1..s.din.size : Text(s)[i] = FileByte(s, i - 1)
<1>1. Text(s) = [i \in 1..s.din.size |-> FileByte(s, i - 1)]
  BY Zenon DEF Text, TextIn, FileByte, ByteAt
<1>2. DOMAIN Text(s) = 1..s.din.size
  BY <1>1
<1> QED  BY <1>1, <1>2, LenProperties

\* Where byte i of the file s is, and that it is there.
LEMMA ByteIn ==
    ASSUME NEW s, NEW T, Layout, Good(s, T), NEW i \in 1..s.din.size
    PROVE  \E q \in Index, r \in Offset :
             i - 1 = q * BLKSIZE + r /\ \A u : FileByte(u, i - 1) = ByteAt(u, q, r)
<1>1. s.din \in Inode /\ Sizes(s.din)
  BY DEF Good, Core, Work
<1>2. Lands(i, (i - 1) \div BLKSIZE, (i - 1) % BLKSIZE)
  BY <1>1, InReach
<1> QED  BY <1>2 DEF Lands, FileByte

LEMMA SameText ==
    ASSUME NEW s, NEW t, NEW T, Layout, Good(s, T), SameBytes(s, t),
           t.din.size = s.din.size
    PROVE  Text(t) = Text(s)
<1>1. s.din.size \in Nat
  BY DEF Good, Core, Work, Inode
<1>2. ASSUME NEW i \in 1..s.din.size  PROVE FileByte(t, i - 1) = FileByte(s, i - 1)
  <2>1. PICK q \in Index, r \in Offset : \A u : FileByte(u, i - 1) = ByteAt(u, q, r)
    BY ByteIn
  <2> QED  BY <2>1 DEF SameBytes
<1> QED  BY <1>1, <1>2, TextBytes

LEMMA WrittenText ==
    ASSUME NEW s, NEW t, NEW T, NEW offset \in Nat, NEW w \in Seq(Nat), Layout, Good(s, T),
           Good(t, T), Written(s, t, offset, w), t.alen <= Len(w), offset <= s.din.size,
           t.din.size = IF offset + t.alen > s.din.size THEN offset + t.alen ELSE s.din.size
    PROVE  Text(t) = C!Written(Text(s), offset, SubSeq(w, 1, t.alen))
<1> DEFINE n == t.alen
           d == SubSeq(w, 1, n)
<1>1. s.din.size \in Nat /\ t.din.size \in Nat /\ n \in Nat /\ n <= Len(w)
  BY DEF Good, Core, Work, Inode
<1>2. d \in Seq(Nat) /\ Len(d) = n /\ \A k \in 1..n : d[k] = w[k]
  BY <1>1, SubSeqProperties
<1> HIDE DEF n, d
<1>3. C!Larger(s.din.size, offset + n) = t.din.size
  <2>1. t.din.size = IF offset + n > s.din.size THEN offset + n ELSE s.din.size
    BY Zenon DEF n
  <2>2. C!Larger(s.din.size, offset + n)
          = IF s.din.size > offset + n THEN s.din.size ELSE offset + n
    BY Zenon DEF C!Larger
  <2> DEFINE m == offset + n
             z == s.din.size
  <2>3. m \in Nat /\ z \in Nat
    BY <1>1
  <2>4. t.din.size = (IF m > z THEN m ELSE z) /\ C!Larger(z, m) = IF z > m THEN z ELSE m
    BY <2>1, <2>2
  <2> HIDE DEF m, z
  <2>5. C!Larger(z, m) = t.din.size
    BY <2>3, <2>4
  <2> QED  BY <2>5 DEF m, z
<1>4. Len(Text(s)) = s.din.size /\ \A i \in 1..s.din.size : Text(s)[i] = FileByte(s, i - 1)
  BY <1>1, TextBytes
<1>5. C!Written(Text(s), offset, d) =
        [i \in 1..t.din.size |-> IF i \in offset + 1..offset + n THEN d[i - offset]
                                 ELSE IF i <= s.din.size THEN Text(s)[i] ELSE 0]
  BY <1>2, <1>3, <1>4 DEF C!Written
<1>6. ASSUME NEW i \in 1..t.din.size
      PROVE  FileByte(t, i - 1) = IF i \in offset + 1..offset + n THEN d[i - offset]
                                  ELSE IF i <= s.din.size THEN Text(s)[i] ELSE 0
  <2>1. PICK q \in Index, r \in Offset :
          i - 1 = q * BLKSIZE + r /\ \A u : FileByte(u, i - 1) = ByteAt(u, q, r)
    BY ByteIn
  <2>2. ByteAt(t, q, r) = IF offset <= i - 1 /\ i - 1 < offset + n THEN w[i - 1 - offset + 1]
                          ELSE ByteAt(s, q, r)
    BY <2>1 DEF Written, WrittenAt, n
  <2>3. FileByte(t, i - 1) = ByteAt(t, q, r) /\ FileByte(s, i - 1) = ByteAt(s, q, r)
    BY <2>1
  <2>4. CASE i \in offset + 1..offset + n
    <3>1. offset <= i - 1 /\ i - 1 < offset + n /\ i - 1 - offset + 1 = i - offset
          /\ i - offset \in 1..n
      BY <1>1, <2>4
    <3>2. d[i - offset] = w[i - offset]
      BY <1>2, <3>1
    <3> QED  BY <2>2, <2>3, <2>4, <3>1, <3>2
  <2>5. CASE i \notin offset + 1..offset + n
    <3>1. ~(offset <= i - 1 /\ i - 1 < offset + n)
      BY <1>1, <2>5
    <3>2. i <= s.din.size
      BY <1>1, <2>5 DEF n
    <3>3. Text(s)[i] = FileByte(s, i - 1)
      BY <1>1, <1>4, <3>2
    <3> QED  BY <2>2, <2>3, <2>5, <3>1, <3>2, <3>3
  <2> QED  BY <2>4, <2>5
<1>7. Text(t) = [i \in 1..t.din.size |-> FileByte(t, i - 1)]
  BY <1>1, TextBytes
<1>8. Text(t) = C!Written(Text(s), offset, d)
  BY <1>5, <1>6, <1>7
<1> QED  BY <1>8 DEF d, n

LEMMA GrownText ==
    ASSUME NEW s, NEW t, NEW T, NEW pos \in Nat, Layout, Good(s, T), Good(t, T), Blank(s),
           SameBytes(s, t), pos > s.din.size, t.din.size = pos
    PROVE  Text(t) = C!Written(Text(s), C!Larger(pos, Len(Text(s))), << >>)
<1>1. s.din.size \in Nat
  BY DEF Good, Core, Work, Inode
<1>2. Len(Text(s)) = s.din.size /\ \A i \in 1..s.din.size : Text(s)[i] = FileByte(s, i - 1)
  BY <1>1, TextBytes
<1>3. C!Larger(pos, Len(Text(s))) = pos /\ C!Larger(Len(Text(s)), pos + 0) = pos
  BY <1>1, <1>2 DEF C!Larger
<1>4. C!Written(Text(s), pos, << >>) =
        [i \in 1..pos |-> IF i <= s.din.size THEN Text(s)[i] ELSE 0]
  <2>1. \A i \in 1..pos : i \notin pos + 1..pos + 0
    OBVIOUS
  <2>2. C!Written(Text(s), pos, << >>) =
          [i \in 1..C!Larger(Len(Text(s)), pos + Len(<< >>)) |->
             IF i \in pos + 1..pos + Len(<< >>) THEN << >>[i - pos]
             ELSE IF i <= Len(Text(s)) THEN Text(s)[i] ELSE 0]
    BY Zenon DEF C!Written
  <2>3. Len(<< >>) = 0
    OBVIOUS
  <2> QED  BY <1>2, <1>3, <2>1, <2>2, <2>3
<1>5. ASSUME NEW i \in 1..pos
      PROVE  FileByte(t, i - 1) = IF i <= s.din.size THEN Text(s)[i] ELSE 0
  <2>1. PICK q \in Index, r \in Offset :
          i - 1 = q * BLKSIZE + r /\ \A u : FileByte(u, i - 1) = ByteAt(u, q, r)
    BY ByteIn
  <2>2. FileByte(t, i - 1) = ByteAt(s, q, r) /\ FileByte(s, i - 1) = ByteAt(s, q, r)
    BY <2>1 DEF SameBytes
  <2>3. CASE i <= s.din.size
    BY <1>1, <1>2, <2>2, <2>3
  <2>4. CASE ~(i <= s.din.size)
    <3>1. q * BLKSIZE + r >= s.din.size
      BY <1>1, <2>1, <2>4
    <3>2. ByteAt(s, q, r) = 0
      BY <3>1 DEF Blank
    <3> QED  BY <2>2, <2>4, <3>2
  <2> QED  BY <2>3, <2>4
<1>6. Text(t) = [i \in 1..pos |-> FileByte(t, i - 1)]
  BY TextBytes
<1> QED  BY <1>3, <1>4, <1>5, <1>6

-----------------------------------------------------------------------------
(* Every system call is a step of Contents or shows in neither texts nor    *)
(* positions. A failed assert, fsync and a seek that fails do not show.     *)

Moves == C!Next \/ UNCHANGED << texts, positions >>

\* What a descriptor shows.
LEMMA PositionOf ==
    ASSUME NEW d \in Descriptors, Layout, Typed, file[d] # CLOSED
    PROVE  /\ file[d].node \in Files /\ file[d].pos \in Nat
           /\ positions[d] = [file |-> file[d].node, pos |-> file[d].pos]
           /\ positions[d] # CLOSED
<1>1. file[d].node \in Files /\ file[d].pos \in Nat
  BY DEF Typed, Open
<1>2. positions[d] = [file |-> file[d].node, pos |-> file[d].pos]
  BY DEF positions
<1> QED  BY <1>1, <1>2 DEF Layout

LEMMA PositionSet ==
    ASSUME NEW d \in Descriptors, NEW f \in Files, NEW pos \in Nat, Layout, Typed,
           file' = [file EXCEPT ![d] = [node |-> f, pos |-> pos]]
    PROVE  positions' = [positions EXCEPT ![d] = [file |-> f, pos |-> pos]]
<1> DEFINE x == [node |-> f, pos |-> pos]
           Shown(v) == IF v = CLOSED THEN CLOSED ELSE [file |-> v.node, pos |-> v.pos]
<1>1. x # CLOSED /\ x.node = f /\ x.pos = pos
  BY DEF Layout
<1>2. Shown(x) = [file |-> f, pos |-> pos]
  BY <1>1
<1>3. file \in [Descriptors -> Open \cup {CLOSED}] /\ file' = [file EXCEPT ![d] = x]
  BY DEF Typed
<1>4. positions = [e \in Descriptors |-> Shown(file[e])]
      /\ positions' = [e \in Descriptors |-> Shown(file'[e])]
  BY Zenon DEF positions
<1> HIDE DEF Shown, x
<1>5. ASSUME NEW e \in Descriptors
      PROVE  Shown(file'[e]) = IF e = d THEN Shown(x) ELSE Shown(file[e])
  BY <1>3
<1>6. positions' = [positions EXCEPT ![d] = Shown(x)]
  BY <1>4, <1>5
<1> QED  BY <1>2, <1>6

LEMMA PanicMoves ==
    ASSUME NEW s, Panics(s)
    PROVE  UNCHANGED << texts, positions >>
<1>1. UNCHANGED << freemap, unused_blocks, data, entry, disk, inode, file >>
  BY DEF Panics
<1>2. \A f : Din(f)' = Din(f)
  BY <1>1 DEF Din
<1>3. \A f, k : BlockOf(f, k)' = BlockOf(f, k)
  BY <1>1, <1>2 DEF BlockOf
<1>4. \A f : TextOf(f)' = TextOf(f)
  BY <1>1, <1>2, <1>3, Zenon DEF TextOf
<1>5. texts' = texts
  BY <1>4, Zenon DEF texts
<1>6. positions' = positions
  BY <1>1, Zenon DEF positions
<1> QED  BY <1>5, <1>6

LEMMA TextLoaded ==
    ASSUME NEW f \in Files, Layout, DiskInv
    PROVE  texts[f] = Text(Loaded(f)) /\ Len(texts[f]) = Din(f).size
           /\ Din(f).size \in Nat
<1>1. Begins(Loaded(f), f)
  BY LoadedGood
<1>2. TextOf(f) = TextIn(Din(f), entry, data)
  BY TextsIn
<1>3. texts[f] = Text(Loaded(f))
  BY <1>1, <1>2 DEF Begins, Text, texts
<1>4. Loaded(f).din = Din(f) /\ Din(f).size \in Nat
  BY <1>1, DinType DEF Begins, DiskInv, Inode
<1> QED  BY <1>3, <1>4, TextBytes

\* What was done to f shows as its new text; no other file shows anything.
LEMMA StoredText ==
    ASSUME NEW f \in Files, NEW s, NEW ref \in Nat \ {0}, Layout, DiskInv, Ends(f, s),
           Stored(f, s, ref), file' \in [Descriptors -> Open \cup {CLOSED}]
    PROVE  texts' = [texts EXCEPT ![f] = Text(s)]
<1>1. Din(f)' = s.din /\ \A g \in Files : g # f => Din(g)' = Din(g)
  BY StoredDisk
<1>2. entry' = s.entry /\ data' = s.data
  BY DEF Stored
<1>3. TextOf(f)' = Text(s)
  <2>1. TextOf(f)' = TextIn(Din(f)', entry', data')
    BY TextsIn
  <2> QED  BY <1>1, <1>2, <2>1 DEF Text
<1>4. ASSUME NEW g \in Files, g # f  PROVE TextOf(g)' = TextOf(g)
  <2>1. /\ TextOf(g)' = TextIn(Din(g)', entry', data')
        /\ TextOf(g) = TextIn(Din(g), entry, data)
    BY TextsIn
  <2>2. Din(g) \in Inode /\ Sizes(Din(g))
    BY DinType DEF DiskInv, Whole, Intact
  <2>3. \A k : At(Din(g), s.entry, k) = At(Din(g), entry, k)
    BY <1>4, OthersKept
  <2>4. \A k \in Index : At(Din(g), entry, k) # 0 =>
           s.data[At(Din(g), entry, k)] = data[At(Din(g), entry, k)]
    BY <1>4, OthersKept DEF NameOf, Key
  <2>5. TextIn(Din(g), s.entry, s.data) = TextIn(Din(g), entry, data)
    BY <2>2, <2>3, <2>4, TextKept
  <2> QED  BY <1>1, <1>2, <1>4, <2>1, <2>5
<1>5. texts' = [g \in Files |-> TextOf(g)'] /\ texts = [g \in Files |-> TextOf(g)]
  BY Zenon DEF texts
<1>6. ASSUME NEW g \in Files
      PROVE  TextOf(g)' = IF g = f THEN Text(s) ELSE TextOf(g)
  BY <1>3, <1>4
<1> QED  BY <1>5, <1>6

\* Writing an inode back or forgetting it does not show.
LEMMA SettledText ==
    ASSUME Layout, UNCHANGED << data, entry >>, \A g \in Files : OnDisk(Din(g)', Din(g))
    PROVE  texts' = texts
<1>1. ASSUME NEW g \in Files  PROVE TextOf(g)' = TextOf(g)
  <2>1. /\ TextOf(g)' = TextIn(Din(g)', entry', data')
        /\ TextOf(g) = TextIn(Din(g), entry, data)
    BY TextsIn
  <2>2. TextIn(Din(g)', entry, data) = TextIn(Din(g), entry, data)
    <3>1. OnDisk(Din(g)', Din(g))
      OBVIOUS
    <3> QED  BY <3>1, TextLike DEF OnDisk
  <2> QED  BY <2>1, <2>2
<1>2. texts' = [g \in Files |-> TextOf(g)'] /\ texts = [g \in Files |-> TextOf(g)]
  BY Zenon DEF texts
<1> QED  BY <1>1, <1>2

LEMMA SyncMoves ==
    ASSUME NEW d \in Descriptors, Layout, SfsInv, file[d] # CLOSED, file_fsync(d)
    PROVE  Moves
<1>1. \A g \in Files : OnDisk(Din(g)', Din(g))
  BY SyncInv
<1>2. UNCHANGED << data, entry, file >>
  BY DEF file_fsync
<1>3. texts' = texts
  BY <1>1, <1>2, SettledText
<1>4. positions' = positions
  BY <1>2, Zenon DEF positions
<1> QED  BY <1>3, <1>4 DEF Moves

LEMMA CloseMoves ==
    ASSUME NEW d \in Descriptors, Layout, SfsInv, file[d] # CLOSED, file_close(d)
    PROVE  Moves
<1>1. \A g \in Files : OnDisk(Din(g)', Din(g))
  BY CloseInv
<1>2. UNCHANGED << data, entry >> /\ file' = [file EXCEPT ![d] = CLOSED]
  BY DEF file_close
<1>3. Typed
  BY DEF SfsInv, DiskInv
<1>4. texts' = texts
  BY <1>1, <1>2, SettledText
<1>5. positions' = [positions EXCEPT ![d] = CLOSED]
  <2> DEFINE Shown(v) == IF v = CLOSED THEN CLOSED ELSE [file |-> v.node, pos |-> v.pos]
  <2>1. /\ positions = [e \in Descriptors |-> Shown(file[e])]
        /\ positions' = [e \in Descriptors |-> Shown(file'[e])]
    BY Zenon DEF positions
  <2>2. Shown(CLOSED) = CLOSED
    OBVIOUS
  <2>3. file \in [Descriptors -> Open \cup {CLOSED}]
    BY <1>3 DEF Typed
  <2> HIDE DEF Shown
  <2>4. ASSUME NEW e \in Descriptors
        PROVE  Shown(file'[e]) = IF e = d THEN CLOSED ELSE Shown(file[e])
    BY <1>2, <2>2, <2>3
  <2> QED  BY <2>1, <2>4
<1>6. positions[d] # CLOSED
  BY <1>3, PositionOf
<1>7. C!Close(d)
  BY <1>4, <1>5 DEF C!Close
<1> QED  BY <1>6, <1>7 DEF Moves, C!Next

LEMMA OpenMoves ==
    ASSUME NEW d \in Descriptors, NEW f \in Files, NEW trunc \in BOOLEAN,
           NEW append \in BOOLEAN, Layout, SfsInv, file_open(d, f, trunc, append),
           trunc => SHARED_TRUNC \/ inode[f].ref = 0
    PROVE  Moves
<1> DEFINE l == Loaded(f)
           s == IF trunc THEN sfs_truncfile(l, 0) ELSE l
           pos == IF append THEN s.din.size ELSE 0
<1>1. DiskInv /\ Typed
  BY DEF SfsInv, DiskInv
<1>2. /\ Begins(l, f) /\ Others(f) \in SUBSET Block /\ Good(l, Others(f))
      /\ texts[f] = Text(l) /\ l.din = Din(f) /\ Din(f).size \in Nat
      /\ Outcome(f, l, FALSE) /\ l.panic = "none"
  BY <1>1, LoadedGood, TextLoaded, LoadedOutcome DEF Begins
<1>3. CASE Panics(s)
  BY <1>3, PanicMoves DEF Moves
<1>4. CASE ~Panics(s)
  <2>1. /\ file[d] = CLOSED /\ Stored(f, s, inode[f].ref + 1)
        /\ file' = [file EXCEPT ![d] = [node |-> f, pos |-> pos]]
    BY <1>4 DEF file_open
  <2>2. s.panic = "none"
    BY <2>1 DEF Stored
  <2>3. Ends(f, s) /\ s.din.size \in Nat
        /\ ((trunc /\ s.din.size = 0) \/ Text(s) = texts[f])
    <3>1. CASE trunc
      <4>1. s = sfs_truncfile(l, 0)
        BY <3>1
      <4>2. Resizes(l, s, Others(f), 0)
        <5>1. 0 \in Nat /\ (0 = 0 \/ 0 >= l.din.size)
          OBVIOUS
        <5> QED  BY <1>2, <4>1, <5>1, TruncfileFacts DEF Begins
      <4> HIDE DEF s
      <4>3. Outcome(f, s, 0 = 0)
        BY <1>1, <4>2, ResizedOutcome DEF l
      <4> HIDE DEF l
      <4>4. Ends(f, s) /\ s.din.size \in Nat
        BY <2>2, <4>3 DEF Outcome, Failing
      <4>5. IF s.ok THEN s.din.size = 0 ELSE s.din.size = l.din.size /\ SameBytes(l, s)
        BY <2>2, <4>2 DEF Resizes, Failing
      <4>6. s.din.size = l.din.size /\ SameBytes(l, s) => Text(s) = Text(l)
        BY <1>2, SameText
      <4> QED  BY <1>2, <3>1, <4>4, <4>5, <4>6
    <3>2. CASE ~trunc
      <4>1. s = l
        BY <3>2
      <4> HIDE DEF s, l
      <4> QED  BY <1>2, <4>1 DEF Outcome, Failing
    <3> QED  BY <3>1, <3>2
  <2> HIDE DEF s, l
  <2>4. inode[f].ref + 1 \in Nat \ {0} /\ pos \in Nat
    BY <1>1, <2>3, DinType
  <2> HIDE DEF pos
  <2>5. positions' = [positions EXCEPT ![d] = [file |-> f, pos |-> pos]]
    BY <1>1, <2>1, <2>4, PositionSet
  <2>6. file' \in [Descriptors -> Open \cup {CLOSED}]
    <3>1. [node |-> f, pos |-> pos] \in Open
      BY <2>4 DEF Open
    <3> QED  BY <1>1, <2>1, <3>1 DEF Typed
  <2>7. texts' = [texts EXCEPT ![f] = Text(s)]
    BY <1>1, <2>1, <2>3, <2>4, <2>6, StoredText
  <2>8. texts \in [Files -> {texts[g] : g \in Files}]
    BY DEF texts
  <2>9. Len(texts'[f]) = s.din.size
    BY <2>3, <2>7, <2>8, TextBytes
  <2>10. positions[d] = CLOSED
    BY <2>1 DEF positions
  <2>11. positions' = [positions EXCEPT ![d] =
                         [file |-> f, pos |-> IF append THEN Len(texts'[f]) ELSE 0]]
    BY <2>5, <2>9 DEF pos
  <2>12. CASE trunc /\ s.din.size = 0
    <3>1. Text(s) = << >>
      BY <2>12, TextBytes
    <3>2. C!Open(d, f, TRUE, append)
      BY <2>7, <2>10, <2>11, <3>1 DEF C!Open
    <3> QED  BY <3>2 DEF Moves, C!Next
  <2>13. CASE Text(s) = texts[f]
    <3>1. texts' = texts
      BY <2>7, <2>8, <2>13
    <3>2. C!Open(d, f, FALSE, append)
      BY <2>10, <2>11, <3>1 DEF C!Open
    <3> QED  BY <3>2 DEF Moves, C!Next
  <2> QED  BY <2>3, <2>12, <2>13
<1> QED  BY <1>3, <1>4

\* What an operation through d does shows as the new text of its file and the new
\* position, unless an assert failed.
LEMMA OperateShows ==
    ASSUME NEW d \in Descriptors, NEW s, NEW pos, Layout, SfsInv, file[d] # CLOSED,
           Operate(d, s, pos),
           s.panic = "none" => Ends(file[d].node, s) /\ pos \in Nat
    PROVE  \/ UNCHANGED << texts, positions >>
           \/ /\ s.panic = "none"
              /\ texts' = [texts EXCEPT ![positions[d].file] = Text(s)]
              /\ positions' = [positions EXCEPT ![d].pos = pos]
<1>1. CASE Panics(s)
  BY <1>1, PanicMoves
<1>2. CASE ~Panics(s)
  <2> DEFINE f == file[d].node
             ref == inode[f].ref
  <2>1. file[d] \in Open /\ ref \in Nat \ {0}
    BY UsedFile
  <2>2. Stored(f, s, ref) /\ file' = [file EXCEPT ![d].pos = pos]
    BY <1>2 DEF Operate
  <2>3. DiskInv /\ Typed
    BY DEF SfsInv, DiskInv
  <2>4. f \in Files /\ positions[d] = [file |-> f, pos |-> file[d].pos]
    BY <2>3, PositionOf
  <2>5. s.panic = "none" /\ Ends(f, s) /\ pos \in Nat
    BY <2>2 DEF Stored
  <2>6. file' = [file EXCEPT ![d] = [node |-> f, pos |-> pos]]
    <3>1. [file[d] EXCEPT !.pos = pos] = [node |-> f, pos |-> pos]
      BY <2>1 DEF Open
    <3>2. file \in [Descriptors -> Open \cup {CLOSED}]
      BY <2>3 DEF Typed
    <3> HIDE DEF f
    <3> QED  BY <2>2, <3>1, <3>2
  <2> HIDE DEF f, ref
  <2>7. file' \in [Descriptors -> Open \cup {CLOSED}]
    <3>1. [node |-> f, pos |-> pos] \in Open
      BY <2>4, <2>5 DEF Open
    <3> QED  BY <2>3, <2>6, <3>1 DEF Typed
  <2>8. texts' = [texts EXCEPT ![f] = Text(s)]
    BY <2>1, <2>2, <2>3, <2>4, <2>5, <2>7, StoredText
  <2>9. positions' = [positions EXCEPT ![d] = [file |-> f, pos |-> pos]]
    BY <2>3, <2>4, <2>5, <2>6, PositionSet
  <2>10. positions' = [positions EXCEPT ![d].pos = pos]
    <3>1. [positions[d] EXCEPT !.pos = pos] = [file |-> f, pos |-> pos]
      BY <2>4
    <3> QED  BY <2>9, <3>1
  <2>11. positions[d].file = f
    BY <2>4
  <2> QED  BY <2>5, <2>8, <2>10, <2>11
<1> QED  BY <1>1, <1>2

\* What an operation through d begins with, as programs see it.
LEMMA ShownHere ==
    ASSUME NEW d \in Descriptors, Layout, SfsInv, file[d] # CLOSED
    PROVE  LET f == file[d].node
           IN  /\ f \in Files /\ positions[d] # CLOSED
               /\ positions[d].file = f /\ positions[d].pos = file[d].pos
               /\ Text(Loaded(f)) = texts[f] /\ Len(texts[f]) = Din(f).size
               /\ Loaded(f).din = Din(f) /\ Din(f).size \in Nat
               /\ Good(Loaded(f), Others(f)) /\ Blank(Loaded(f))
               /\ [texts EXCEPT ![f] = texts[f]] = texts
<1> DEFINE f == file[d].node
<1>1. DiskInv /\ Typed
  BY DEF SfsInv, DiskInv
<1>2. f \in Files /\ positions[d] = [file |-> f, pos |-> file[d].pos] /\ positions[d] # CLOSED
  BY <1>1, PositionOf
<1>3. positions[d].file = f /\ positions[d].pos = file[d].pos
  BY <1>2
<1> HIDE DEF f
<1>4. Begins(Loaded(f), f)
  BY <1>1, <1>2, LoadedGood
<1>5. Text(Loaded(f)) = texts[f] /\ Len(texts[f]) = Din(f).size /\ Din(f).size \in Nat
  BY <1>1, <1>2, TextLoaded
<1>6. [texts EXCEPT ![f] = texts[f]] = texts
  <2>1. texts \in [Files -> {texts[g] : g \in Files}]
    BY DEF texts
  <2> QED  BY <2>1
<1> QED  BY <1>2, <1>3, <1>4, <1>5, <1>6 DEF f, Begins

LEMMA ReadMoves ==
    ASSUME NEW d \in Descriptors, NEW w \in Texts, Layout, SfsInv, file[d] # CLOSED,
           file_read(d, Len(w))
    PROVE  Moves
<1> DEFINE f == file[d].node
           p == file[d].pos
           l == Loaded(f)
           len == Len(w)
           s == sfs_read(l, p, len)
           size == Din(f).size
           end == IF p + len > size THEN size ELSE p + len
<1>1. /\ f \in Files /\ p \in Nat /\ Others(f) \in SUBSET Block
      /\ Starts(l, Others(f), p)
  BY StartsHere
<1>2. /\ positions[d] # CLOSED /\ positions[d].file = f /\ positions[d].pos = p
      /\ Text(l) = texts[f] /\ Len(texts[f]) = size /\ l.din = Din(f) /\ size \in Nat
      /\ Good(l, Others(f)) /\ [texts EXCEPT ![f] = texts[f]] = texts
  BY ShownHere
<1>3. Operate(d, s, p + s.alen)
  BY DEF file_read
<1>4. DiskInv /\ len \in Nat
  BY DEF SfsInv, Layout
<1>5. p <= size
  BY DEF SfsInv, InFile
<1>6. l.din.size = size
  BY <1>2
<1> HIDE DEF f, p, l, len, size
<1>7. Did(l, s, Others(f), p, end, << >>, "read") /\ Sound(s)
  BY <1>1, <1>4, <1>6, ReadFacts, SoundRead
<1> HIDE DEF s, end
<1>8. /\ Outcome(f, s, FALSE)
      /\ s.panic = "none" => p + s.alen \in Nat
  BY <1>1, <1>4, <1>7, DidOutcome DEF l
<1>9. s.panic = "none" => Ends(f, s)
  BY <1>8 DEF Outcome, Failing
<1>10. \/ UNCHANGED << texts, positions >>
       \/ /\ s.panic = "none"
          /\ texts' = [texts EXCEPT ![positions[d].file] = Text(s)]
          /\ positions' = [positions EXCEPT ![d].pos = p + s.alen]
  BY <1>3, <1>8, <1>9, OperateShows DEF f
<1>11. CASE UNCHANGED << texts, positions >>
  BY <1>11 DEF Moves
<1>12. CASE ~UNCHANGED << texts, positions >>
  <2>1. /\ s.panic = "none" /\ texts' = [texts EXCEPT ![f] = Text(s)]
        /\ positions' = [positions EXCEPT ![d].pos = p + s.alen]
    BY <1>2, <1>10, <1>12
  <2>2. s.ok
    BY <1>7, <2>1 DEF Sound
  <2>3. /\ SameBytes(l, s) /\ p + s.alen = end /\ s.alen \in Nat
        /\ s.din.size = IF p + s.alen > l.din.size THEN p + s.alen ELSE l.din.size
    <3>1. s.panic \notin Failing
      BY <2>1 DEF Failing
    <3>2. Moved(l, s, p, << >>, "read") => SameBytes(l, s)
      BY DEF Moved
    <3> QED  BY <1>7, <2>2, <3>1, <3>2 DEF Did, Work
  <2>4. s.din.size = l.din.size
    BY <1>1, <1>2, <1>4, <1>5, <1>6, <2>3 DEF end
  <2>5. Text(s) = texts[f]
    BY <1>2, <2>3, <2>4, SameText
  <2>6. texts' = texts
    BY <1>2, <2>1, <2>5
  <2>7. s.alen = C!Smaller(len, C!Larger(0, Len(texts[f]) - p))
    <3>1. C!Larger(0, size - p) = size - p
      <4>1. size - p \in Nat
        BY <1>1, <1>2, <1>5
      <4> QED  BY <4>1 DEF C!Larger
    <3>2. s.alen = IF len < size - p THEN len ELSE size - p
      BY <1>1, <1>2, <1>4, <1>5, <2>3 DEF end
    <3>3. s.alen = C!Smaller(len, size - p)
      BY <3>2, Zenon DEF C!Smaller
    <3> QED  BY <1>2, <3>1, <3>3
  <2>8. C!Read(d, len)
    <3>1. positions[d].file = f /\ positions[d].pos = p
      BY <1>2
    <3>2. positions' = [positions EXCEPT ![d].pos =
                          @ + C!Smaller(len, C!Larger(0, Len(texts[positions[d].file])
                                                         - positions[d].pos))]
      BY <2>1, <2>7, <3>1
    <3> QED  BY <2>6, <3>2, Zenon DEF C!Read
  <2> QED  BY <1>2, <2>8 DEF Moves, C!Next, len
<1> QED  BY <1>11, <1>12

LEMMA WriteMoves ==
    ASSUME NEW d \in Descriptors, NEW w \in Texts, Layout, SfsInv, file[d] # CLOSED,
           file_write(d, w)
    PROVE  Moves
<1> DEFINE f == file[d].node
           p == file[d].pos
           l == Loaded(f)
           s == sfs_write(l, p, w)
           size == Din(f).size
           end == p + Len(w)
<1>1. /\ f \in Files /\ p \in Nat /\ Others(f) \in SUBSET Block
      /\ Starts(l, Others(f), p)
  BY StartsHere
<1>2. /\ positions[d] # CLOSED /\ positions[d].file = f /\ positions[d].pos = p
      /\ Text(l) = texts[f] /\ l.din = Din(f) /\ size \in Nat /\ Good(l, Others(f))
  BY ShownHere
<1>3. Operate(d, s, p + s.alen)
  BY DEF file_write
<1>4. DiskInv /\ w \in Seq(Nat) /\ Len(w) \in Nat
  BY DEF SfsInv, Layout
<1>5. p <= size
  BY DEF SfsInv, InFile
<1>6. l.din.size = size
  BY <1>2
<1> HIDE DEF f, p, l, size
<1>7. Did(l, s, Others(f), p, end, w, "write")
  BY <1>1, <1>4, WriteFacts
<1> HIDE DEF s
<1>8. /\ Outcome(f, s, FALSE)
      /\ s.panic = "none" => p + s.alen \in Nat
  BY <1>1, <1>4, <1>7, DidOutcome DEF l
<1>9. s.panic = "none" => Ends(f, s)
  BY <1>8 DEF Outcome, Failing
<1>10. \/ UNCHANGED << texts, positions >>
       \/ /\ s.panic = "none"
          /\ texts' = [texts EXCEPT ![positions[d].file] = Text(s)]
          /\ positions' = [positions EXCEPT ![d].pos = p + s.alen]
  BY <1>3, <1>8, <1>9, OperateShows DEF f
<1>11. CASE UNCHANGED << texts, positions >>
  BY <1>11 DEF Moves
<1>12. CASE ~UNCHANGED << texts, positions >>
  <2>1. /\ s.panic = "none" /\ texts' = [texts EXCEPT ![f] = Text(s)]
        /\ positions' = [positions EXCEPT ![d].pos = p + s.alen]
    BY <1>2, <1>10, <1>12
  <2>2. /\ Good(s, Others(f)) /\ Written(l, s, p, w) /\ p + s.alen <= end /\ s.alen \in Nat
        /\ s.din.size = IF p + s.alen > l.din.size THEN p + s.alen ELSE l.din.size
    <3>1. s.panic \notin Failing
      BY <2>1 DEF Failing
    <3>2. Moved(l, s, p, w, "write") => Written(l, s, p, w)
      BY DEF Moved
    <3> HIDE DEF end
    <3> QED  BY <1>7, <2>1, <3>1, <3>2 DEF Did, Work
  <2>3. s.alen <= Len(w) /\ s.alen \in 0..Len(w)
    BY <1>1, <1>4, <2>2
  <2>4. Text(s) = C!Written(Text(l), p, SubSeq(w, 1, s.alen))
    BY <1>1, <1>2, <1>4, <1>5, <1>6, <2>2, <2>3, WrittenText
  <2>5. C!Write(d, w)
    <3> DEFINE n == s.alen
    <3>1. positions[d].file = f /\ positions[d].pos = p /\ n \in 0..Len(w)
      BY <1>2, <2>3
    <3>2. /\ texts' = [texts EXCEPT ![positions[d].file] =
                         C!Written(@, positions[d].pos, SubSeq(w, 1, n))]
          /\ positions' = [positions EXCEPT ![d].pos = @ + n]
      BY <1>2, <2>1, <2>4, <3>1
    <3> HIDE DEF n
    <3> QED  BY <3>1, <3>2, Zenon DEF C!Write
  <2> QED  BY <1>2, <2>5 DEF Moves, C!Next
<1> QED  BY <1>11, <1>12

LEMMA SeekMoves ==
    ASSUME NEW d \in Descriptors, NEW pos \in Positions, Layout, SfsInv, file[d] # CLOSED,
           file_seek(d, pos)
    PROVE  Moves
<1> DEFINE f == file[d].node
           p == file[d].pos
           l == Loaded(f)
           s == IF pos > l.din.size THEN sfs_truncfile(l, pos) ELSE l
           at == IF s.ok THEN pos ELSE p
           t == texts[f]
<1>1. /\ f \in Files /\ p \in Nat /\ Others(f) \in SUBSET Block
  BY StartsHere
<1>2. /\ positions[d] # CLOSED /\ positions[d].file = f /\ positions[d].pos = p
      /\ Text(l) = t /\ Len(t) = Din(f).size /\ l.din = Din(f) /\ Din(f).size \in Nat
      /\ Good(l, Others(f)) /\ Blank(l) /\ [texts EXCEPT ![f] = t] = texts
  BY ShownHere
<1>3. Operate(d, s, at)
  BY DEF file_seek
<1>4. DiskInv /\ pos \in Nat
  BY DEF SfsInv, Layout
<1>5. Begins(l, f) /\ Outcome(f, l, FALSE) /\ l.panic = "none" /\ l.ok
  BY <1>1, <1>4, LoadedOutcome, LoadedGood
<1> HIDE DEF f, p, l
<1>6. s.panic = "none" =>
        /\ Ends(f, s)
        /\ IF s.ok THEN Text(s) = C!Written(t, C!Larger(pos, Len(t)), << >>)
           ELSE Text(s) = t
  <2>1. CASE pos > l.din.size
    <3>0. s = sfs_truncfile(l, pos)
      BY <2>1
    <3>1. pos \in Nat /\ (pos = 0 \/ pos >= l.din.size) /\ pos # 0
      BY <1>2, <1>4, <2>1
    <3>2. Resizes(l, s, Others(f), pos)
      BY <1>1, <1>5, <3>0, <3>1, TruncfileFacts DEF Begins
    <3> HIDE DEF s
    <3>3. Outcome(f, s, pos = 0)
      <4>1. pos = 0 \/ pos >= Din(f).size
        BY <1>2, <3>1
      <4> QED  BY <1>1, <1>4, <3>2, <4>1, ResizedOutcome DEF l
    <3> SUFFICES ASSUME s.panic = "none"
                 PROVE  /\ Ends(f, s)
                        /\ IF s.ok THEN Text(s) = C!Written(t, C!Larger(pos, Len(t)), << >>)
                           ELSE Text(s) = t
      OBVIOUS
    <3>4. Ends(f, s)
      BY <3>3 DEF Outcome, Failing
    <3>5. /\ Good(s, Others(f)) /\ SameBytes(l, s)
          /\ s.din.size = IF s.ok THEN pos ELSE l.din.size
      <4>1. s.panic \notin Failing
        BY DEF Failing
      <4> QED  BY <3>1, <3>2, <4>1 DEF Resizes
    <3>6. s.ok => Text(s) = C!Written(Text(l), C!Larger(pos, Len(Text(l))), << >>)
      BY <1>2, <1>4, <2>1, <3>5, GrownText
    <3>7. ~s.ok => Text(s) = Text(l)
      BY <1>2, <3>5, SameText
    <3> HIDE DEF t
    <3> QED  BY <1>2, <3>4, <3>6, <3>7
  <2>2. CASE ~(pos > l.din.size)
    <3>1. s = l
      BY <2>2
    <3> HIDE DEF s
    <3>2. Ends(f, l)
      BY <1>5 DEF Outcome, Failing
    <3>3. C!Written(t, C!Larger(pos, Len(t)), << >>) = t
      <4>1. Len(t) \in Nat /\ ~(pos > Len(t))
        BY <1>2, <2>2
      <4> DEFINE z == Len(t)
      <4>2. t = [i \in 1..z |-> FileByte(l, i - 1)]
        <5>1. l.din.size = z /\ l.din.size \in Nat
          BY <1>2
        <5> QED  BY <1>2, <5>1, TextBytes, SMTT(30)
      <4> HIDE DEF t
      <4>3. C!Larger(pos, Len(t)) = z
        BY <4>1, Zenon DEF C!Larger, z
      <4>4. C!Larger(Len(t), z + 0) = z
        <5>1. z + 0 = z
          BY <4>1 DEF z
        <5> QED  BY <4>1, <5>1 DEF C!Larger, z
      <4>5. Len(<< >>) = 0
        OBVIOUS
      <4>6. C!Written(t, z, << >>) =
              [i \in 1..z |-> IF i \in z + 1..z + 0 THEN << >>[i - z]
                              ELSE IF i <= z THEN t[i] ELSE 0]
        <5>1. C!Written(t, z, << >>) =
                [i \in 1..C!Larger(Len(t), z + Len(<< >>)) |->
                   IF i \in z + 1..z + Len(<< >>) THEN << >>[i - z]
                   ELSE IF i <= Len(t) THEN t[i] ELSE 0]
          BY Zenon DEF C!Written
        <5>2. Len(t) = z
          BY DEF z
        <5> HIDE DEF z
        <5> QED  BY <4>4, <4>5, <5>1, <5>2
      <4>7. z \in Nat
        BY <4>1 DEF z
      <4> HIDE DEF z
      <4>8. \A i \in 1..z : i \notin z + 1..z + 0 /\ i <= z
        BY <4>7
      <4>9. C!Written(t, z, << >>) = [i \in 1..z |-> t[i]]
        BY <4>6, <4>8
      <4> QED  BY <4>2, <4>3, <4>9
    <3> HIDE DEF t
    <3> QED  BY <1>2, <1>5, <3>1, <3>2, <3>3
  <2> QED  BY <2>1, <2>2
<1> HIDE DEF s, t
<1>7. at \in Nat
  BY <1>1, <1>4
<1>8. \/ UNCHANGED << texts, positions >>
      \/ /\ s.panic = "none"
         /\ texts' = [texts EXCEPT ![positions[d].file] = Text(s)]
         /\ positions' = [positions EXCEPT ![d].pos = at]
  <2> HIDE DEF at
  <2> QED  BY <1>3, <1>6, <1>7, OperateShows DEF f
<1>9. CASE UNCHANGED << texts, positions >>
  BY <1>9 DEF Moves
<1>10. CASE ~UNCHANGED << texts, positions >>
  <2>1. /\ s.panic = "none" /\ texts' = [texts EXCEPT ![f] = Text(s)]
        /\ positions' = [positions EXCEPT ![d].pos = at]
    BY <1>2, <1>8, <1>10
  <2>2. CASE s.ok
    <3>1. /\ texts' = [texts EXCEPT ![f] = C!Written(t, C!Larger(pos, Len(t)), << >>)]
          /\ positions' = [positions EXCEPT ![d].pos = pos]
      BY <1>6, <2>1, <2>2
    <3>2. texts' = [texts EXCEPT ![positions[d].file] =
                      C!Written(@, C!Larger(pos, Len(@)), << >>)]
      BY <1>2, <3>1 DEF t
    <3>3. C!Seek(d, pos)
      BY <3>1, <3>2, Zenon DEF C!Seek
    <3> QED  BY <1>2, <3>3 DEF Moves, C!Next
  <2>3. CASE ~s.ok
    <3>1. texts' = texts
      BY <1>2, <1>6, <2>1, <2>3
    <3>2. positions' = [positions EXCEPT ![d].pos = p]
      BY <2>1, <2>3
    <3>3. positions' = positions
      <4>1. Typed /\ p \in Nat
        BY <1>1 DEF SfsInv, DiskInv
      <4>2. positions[d] = [file |-> file[d].node, pos |-> file[d].pos]
        BY <4>1, PositionOf
      <4>3. [positions[d] EXCEPT !.pos = p] = positions[d]
        BY <4>2 DEF p
      <4>4. positions \in [Descriptors -> {positions[e] : e \in Descriptors}]
        BY DEF positions
      <4> QED  BY <3>2, <4>3, <4>4
    <3> QED  BY <3>1, <3>3 DEF Moves
  <2> QED  BY <2>2, <2>3
<1> QED  BY <1>9, <1>10

LEMMA InitMoves ==
    ASSUME Layout, Init
    PROVE  C!Init
<1>1. texts = [f \in Files |-> << >>]
  <2>1. ASSUME NEW f \in Files  PROVE TextOf(f) = << >>
    <3>1. Din(f).size = 0
      BY DEF Init, Din, NoContent
    <3>2. TextOf(f) = TextIn(Din(f), entry, data)
      BY TextsIn
    <3>3. 1..Din(f).size = {}
      BY <3>1
    <3> HIDE DEF Init
    <3> QED  BY <3>2, <3>3 DEF TextIn
  <2> QED  BY <2>1, Zenon DEF texts
<1>2. positions = [d \in Descriptors |-> CLOSED]
  BY DEF positions, Init
<1> QED  BY <1>1, <1>2 DEF C!Init

LEMMA NextMoves ==
    ASSUME Layout, SfsInv, [Next]_vars
    PROVE  Moves
<1>1. CASE UNCHANGED vars
  <2>1. UNCHANGED << freemap, unused_blocks, data, entry, disk, inode, file, panic >>
    BY <1>1 DEF vars
  <2>2. \A f : Din(f)' = Din(f)
    BY <2>1 DEF Din
  <2>3. \A f, k : BlockOf(f, k)' = BlockOf(f, k)
    BY <2>1, <2>2 DEF BlockOf
  <2>4. \A f : TextOf(f)' = TextOf(f)
    BY <2>1, <2>2, <2>3, Zenon DEF TextOf
  <2>5. texts' = texts
    BY <2>4, Zenon DEF texts
  <2>6. positions' = positions
    BY <2>1, Zenon DEF positions
  <2> QED  BY <2>5, <2>6 DEF Moves
<1>2. ASSUME NEW d \in Descriptors, NEW f \in Files, NEW trunc \in BOOLEAN,
             NEW append \in BOOLEAN, trunc => SHARED_TRUNC \/ inode[f].ref = 0,
             file_open(d, f, trunc, append)
      PROVE  Moves
  BY <1>2, OpenMoves
<1>3. ASSUME NEW d \in Descriptors, file[d] # CLOSED, file_close(d)  PROVE Moves
  BY <1>3, CloseMoves
<1>4. ASSUME NEW d \in Descriptors, file[d] # CLOSED, NEW w \in Texts, file_write(d, w)
      PROVE  Moves
  BY <1>4, WriteMoves
<1>5. ASSUME NEW d \in Descriptors, file[d] # CLOSED, NEW w \in Texts, file_read(d, Len(w))
      PROVE  Moves
  BY <1>5, ReadMoves
<1>6. ASSUME NEW d \in Descriptors, file[d] # CLOSED, NEW pos \in Positions, file_seek(d, pos)
      PROVE  Moves
  BY <1>6, SeekMoves
<1>7. ASSUME NEW d \in Descriptors, file[d] # CLOSED, file_fsync(d)  PROVE Moves
  BY <1>7, SyncMoves
<1> QED  BY <1>1, <1>2, <1>3, <1>4, <1>5, <1>6, <1>7 DEF Next

\* Whatever the layout of the disk, and however often it is full, what open, close,
\* read, write, seek and fsync of sfs_inode.c and file.c do is what Contents says of
\* sequences of bytes with positions: a write or a seek that fails half way still
\* leaves the bytes that Contents allows.
THEOREM FilesImplement == Layout /\ Spec => C!Spec
<1> SUFFICES ASSUME Layout  PROVE Spec => C!Spec
  OBVIOUS
<1>1. Init => C!Init
  BY InitMoves
<1>2. SfsInv /\ [Next]_vars => [C!Next]_<< texts, positions >>
  BY NextMoves DEF Moves
<1>3. Spec => []SfsInv
  BY FilesInductive
<1> QED  BY <1>1, <1>2, <1>3, PTL DEF Spec, C!Spec
=============================================================================
