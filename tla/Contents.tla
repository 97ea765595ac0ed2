------------------------------ MODULE Contents ------------------------------
(***************************************************************************)
(* What programs are promised of files: each is a sequence of bytes, and   *)
(* each open file has a position in one. Nothing is said of blocks, of     *)
(* what is in memory and what on the disk, or of how much fits.            *)
(***************************************************************************)
EXTENDS Integers, Sequences

CONSTANTS
    Files,
    Descriptors,
    Texts,          \* sequences of bytes that programs write
    Positions,      \* positions programs ask for
    CLOSED          \* a descriptor without a file

VARIABLES
    text,           \* the bytes of every file
    at              \* [file, pos] of every descriptor, or CLOSED

Larger(m, n) == IF m > n THEN m ELSE n

Smaller(m, n) == IF m < n THEN m ELSE n

\* Bytes d from position pos on; what is skipped reads as zeros.
Written(t, pos, d) ==
    [i \in 1..Larger(Len(t), pos + Len(d)) |->
       IF i \in pos + 1..pos + Len(d) THEN d[i - pos]
       ELSE IF i <= Len(t) THEN t[i] ELSE 0]

Init == text = [f \in Files |-> << >>] /\ at = [d \in Descriptors |-> CLOSED]

Open(d, f, cut, end) ==
    /\ at[d] = CLOSED
    /\ text' = IF cut THEN [text EXCEPT ![f] = << >>] ELSE text
    /\ at' = [at EXCEPT ![d] = [file |-> f, pos |-> IF end THEN Len(text'[f]) ELSE 0]]

Close(d) == at' = [at EXCEPT ![d] = CLOSED] /\ UNCHANGED text

\* As much of w as fits is written.
Write(d, w) ==
    \E n \in 0..Len(w) :
      /\ text' = [text EXCEPT ![at[d].file] =
                    Written(@, at[d].pos, SubSeq(w, 1, n))]
      /\ at' = [at EXCEPT ![d].pos = @ + n]

Read(d, n) ==
    LET left == Larger(0, Len(text[at[d].file]) - at[d].pos)
    IN  at' = [at EXCEPT ![d].pos = @ + Smaller(n, left)] /\ UNCHANGED text

\* A position past the end lengthens the file.
Seek(d, pos) ==
    /\ text' = [text EXCEPT ![at[d].file] = Written(@, Larger(pos, Len(@)), << >>)]
    /\ at' = [at EXCEPT ![d].pos = pos]

Next ==
    \/ \E d \in Descriptors, f \in Files, cut, end \in BOOLEAN : Open(d, f, cut, end)
    \/ \E d \in Descriptors :
         /\ at[d] # CLOSED
         /\ \/ Close(d)
            \/ \E w \in Texts : Write(d, w) \/ Read(d, Len(w))
            \/ \E pos \in Positions : Seek(d, pos)

Spec == Init /\ [][Next]_<< text, at >>
=============================================================================
