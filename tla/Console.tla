------------------------------ MODULE Console -------------------------------
(***************************************************************************)
(* Keyboard input, from the serial port to the readers of stdin:           *)
(* lab8/kern/driver/console.c and lab8/kern/fs/devs/dev_stdin.c. Every     *)
(* timer interrupt empties the port into the ring cons, takes one          *)
(* character from the ring, puts it into stdin_buffer and wakes all the    *)
(* readers, who compete for it. Readers may be killed as they sleep.       *)
(*                                                                         *)
(* Characters are numbered in the order they are typed. A step is a section*)
(* with interrupts off, or the interrupt handler.                          *)
(***************************************************************************)
EXTENDS Integers, SequencesExt

CONSTANTS
    CONSBUFSIZE, STDIN_BUFSIZE,
    Reader,         \* the processes that read stdin
    MaxLen,         \* bound: characters a read asks for
    MaxTyped        \* bound: characters typed

ASSUME ConsoleAssumption ==
    /\ {CONSBUFSIZE, STDIN_BUFSIZE} \subseteq Nat \ {0, 1}
    /\ {MaxLen, MaxTyped} \subseteq Nat

VARIABLES
    typed,
    port,           \* characters the firmware holds
    cons,           \* the ring of console.c
    stdin_buffer, p_rpos, p_wpos, wait_queue,
    pc,             \* of each reader: "user", "asleep", "woken" or "dead"
    len, ret,       \* of its dev_stdin_read
    wakeup_flags,   \* of its wait_t
    exiting,        \* PF_EXITING
    out,            \* history: the characters handed to readers
    lost            \* history: a buffer was full when a character came

buffers == << port, cons, stdin_buffer, p_wpos >>
readers == << pc, len, ret, wakeup_flags, exiting >>
vars == << typed, buffers, p_rpos, wait_queue, readers, out, lost >>

Init ==
    /\ typed = 0 /\ port = <<>>
    /\ cons = [buf |-> [i \in 0..CONSBUFSIZE - 1 |-> 0], rpos |-> 0, wpos |-> 0]
    /\ stdin_buffer = [i \in 0..STDIN_BUFSIZE - 1 |-> 0]
    /\ p_rpos = 0 /\ p_wpos = 0 /\ wait_queue = <<>>
    /\ pc = [r \in Reader |-> "user"]
    /\ len = [r \in Reader |-> 0] /\ ret = [r \in Reader |-> 0]
    /\ wakeup_flags = [r \in Reader |-> "WT_INTERRUPTED"]
    /\ exiting = [r \in Reader |-> FALSE]
    /\ out = <<>> /\ lost = FALSE

-----------------------------------------------------------------------------
(* console.c *)

Type ==
    /\ typed < MaxTyped
    /\ typed' = typed + 1
    /\ port' = Append(port, typed')
    /\ UNCHANGED << cons, stdin_buffer, p_rpos, p_wpos, wait_queue, readers, out, lost >>

\* cons_intr, which has no test for a full ring.
cons_intr(ring, chars) ==
    LET after[i \in 0..Len(chars)] ==      \* after i characters
          IF i = 0 THEN ring
          ELSE [after[i - 1] EXCEPT !.buf[after[i - 1].wpos] = chars[i],
                                    !.wpos = (@ + 1) % CONSBUFSIZE]
    IN  after[Len(chars)]

Unread(ring) == (ring.wpos - ring.rpos + CONSBUFSIZE) % CONSBUFSIZE

\* cons_getc: what it leaves of the ring; it returns 0 if that is empty.
after_getc(ring) ==
    IF ring.rpos = ring.wpos THEN ring
    ELSE [ring EXCEPT !.rpos = (@ + 1) % CONSBUFSIZE]

-----------------------------------------------------------------------------
(* dev_stdin_write *)

full == p_wpos - p_rpos >= STDIN_BUFSIZE

\* wakeup_queue with del, for the first n waits.
Wake(n) ==
    LET first == ToSet(SubSeq(wait_queue, 1, n))
    IN  /\ pc' = [r \in Reader |-> IF r \in first THEN "woken" ELSE pc[r]]
        /\ wakeup_flags' = [r \in Reader |-> IF r \in first THEN "WT_KBD"
                                             ELSE wakeup_flags[r]]
        /\ wait_queue' = SubSeq(wait_queue, n + 1, Len(wait_queue))

\* Mutant: only the first reader is woken, and only for the first character.
Write_wakes_first(c) ==
    /\ stdin_buffer' = [stdin_buffer EXCEPT ![p_wpos % STDIN_BUFSIZE] = c]
    /\ p_wpos' = IF full THEN p_wpos ELSE p_wpos + 1
    /\ Wake(IF p_rpos = p_wpos /\ wait_queue # <<>> THEN 1 ELSE 0)

\* The character goes into the buffer even when that is full.
Write(c) ==
    /\ stdin_buffer' = [stdin_buffer EXCEPT ![p_wpos % STDIN_BUFSIZE] = c]
    /\ p_wpos' = IF full THEN p_wpos ELSE p_wpos + 1
    /\ Wake(Len(wait_queue))

\* The timer interrupt: dev_stdin_write(cons_getc()).
Tick ==
    LET ring == cons_intr(cons, port)
    IN  /\ port # <<>> \/ cons.rpos # cons.wpos
        /\ port' = <<>>
        /\ cons' = after_getc(ring)
        /\ IF ring.rpos = ring.wpos
             THEN UNCHANGED << stdin_buffer, p_wpos, wait_queue, pc, wakeup_flags >>
             ELSE Write(ring.buf[ring.rpos])
        /\ lost' = (\/ lost
                    \/ Unread(cons) + Len(port) >= CONSBUFSIZE
                    \/ full /\ ring.rpos # ring.wpos)
        /\ UNCHANGED << typed, p_rpos, len, ret, exiting, out >>

-----------------------------------------------------------------------------
(* dev_stdin_read *)

\* The characters r takes: as many as there are, or as it still wants.
Taken(wanted) ==
    LET n == IF wanted < p_wpos - p_rpos THEN wanted ELSE p_wpos - p_rpos
    IN  [i \in 1..n |-> stdin_buffer[(p_rpos + i - 1) % STDIN_BUFSIZE]]

\* The system call ends, and so does a process that has been killed.
Return(r) ==
    /\ pc' = [pc EXCEPT ![r] = IF exiting[r] THEN "dead" ELSE "user"]
    /\ UNCHANGED wakeup_flags

\* wait_current_set
Sleep(r, queue) ==
    /\ pc' = [pc EXCEPT ![r] = "asleep"]
    /\ wakeup_flags' = [wakeup_flags EXCEPT ![r] = "WT_INTERRUPTED"]
    /\ wait_queue' = Append(queue, r)

\* Mutant: the last character is not counted as read.
ReadLoop_keeps_last(r, done, l, queue) ==
    LET chars == Taken(l - done)
    IN  /\ out' = out \o chars
        /\ ret' = [ret EXCEPT ![r] = done + Len(chars)]
        /\ IF done + Len(chars) = l
             THEN p_rpos' = p_rpos + Len(chars) - 1 /\ Return(r) /\ wait_queue' = queue
             ELSE p_rpos' = p_rpos + Len(chars) /\ Sleep(r, queue)

\* From try_again on, with done characters read, to the end or to schedule().
ReadLoop(r, done, l, queue) ==
    LET chars == Taken(l - done)
    IN  /\ out' = out \o chars
        /\ p_rpos' = p_rpos + Len(chars)
        /\ ret' = [ret EXCEPT ![r] = done + Len(chars)]
        /\ IF done + Len(chars) = l THEN Return(r) /\ wait_queue' = queue
           ELSE Sleep(r, queue)

Read(r, l) ==
    /\ pc[r] = "user"
    /\ len' = [len EXCEPT ![r] = l]
    /\ ReadLoop(r, 0, l, wait_queue)
    /\ UNCHANGED << typed, buffers, exiting, lost >>

\* Mutant: a reader that was killed leaves its wait_t in the queue.
Resume_keeps_wait(r) ==
    /\ pc[r] = "woken"
    /\ IF wakeup_flags[r] = "WT_KBD"
         THEN ReadLoop(r, ret[r], len[r], wait_queue)
         ELSE /\ Return(r)
              /\ UNCHANGED << wait_queue, p_rpos, out, ret >>
    /\ UNCHANGED << typed, buffers, len, exiting, lost >>

\* schedule() returns to r, which leaves the queue if it is still in it.
Resume(r) ==
    /\ pc[r] = "woken"
    /\ IF wakeup_flags[r] = "WT_KBD"
         THEN ReadLoop(r, ret[r], len[r], wait_queue)
         ELSE /\ Return(r)
              /\ wait_queue' = RemoveFirst(wait_queue, r)
              /\ UNCHANGED << p_rpos, out, ret >>
    /\ UNCHANGED << typed, buffers, len, exiting, lost >>

\* do_kill: WT_KBD has the bit WT_INTERRUPTED.
Kill(r) ==
    /\ pc[r] # "dead" /\ ~exiting[r]
    /\ exiting' = [exiting EXCEPT ![r] = TRUE]
    /\ pc' = [pc EXCEPT ![r] = IF @ = "asleep" THEN "woken" ELSE @]
    /\ UNCHANGED << typed, buffers, p_rpos, wait_queue, len, ret, wakeup_flags, out, lost >>

\* trap(): a process in user mode ends in a trap other than its next read.
Die(r) ==
    /\ pc[r] = "user" /\ exiting[r]
    /\ pc' = [pc EXCEPT ![r] = "dead"]
    /\ UNCHANGED << typed, buffers, p_rpos, wait_queue, len, ret, wakeup_flags,
                    exiting, out, lost >>

-----------------------------------------------------------------------------

Next ==
    \/ Type \/ Tick
    \/ \E r \in Reader :
         (\E l \in 1..MaxLen : Read(r, l)) \/ Resume(r) \/ Kill(r) \/ Die(r)

\* Timer interrupts go on, and a process that is awake gets the CPU.
Fairness == WF_vars(Tick) /\ \A r \in Reader : WF_vars(Resume(r)) /\ WF_vars(Die(r))

Spec == Init /\ [][Next]_vars /\ Fairness

-----------------------------------------------------------------------------
(* Properties *)

Chars == 0..MaxTyped

TypeOK ==
    /\ typed \in Chars /\ port \in Seq(Chars)
    /\ cons \in [buf : [0..CONSBUFSIZE - 1 -> Chars],
                 rpos : 0..CONSBUFSIZE - 1, wpos : 0..CONSBUFSIZE - 1]
    /\ stdin_buffer \in [0..STDIN_BUFSIZE - 1 -> Chars]
    /\ p_rpos \in 0..MaxTyped /\ p_wpos \in p_rpos..p_rpos + STDIN_BUFSIZE
    /\ wait_queue \in Seq(Reader)
    /\ pc \in [Reader -> {"user", "asleep", "woken", "dead"}]
    /\ len \in [Reader -> 0..MaxLen] /\ ret \in [Reader -> 0..MaxLen]
    /\ wakeup_flags \in [Reader -> {"WT_INTERRUPTED", "WT_KBD"}]
    /\ exiting \in [Reader -> BOOLEAN]
    /\ out \in Seq(Chars) /\ lost \in BOOLEAN

\* The unread characters of the ring, oldest first.
InRing ==
    [i \in 1..Unread(cons) |-> cons.buf[(cons.rpos + i - 1) % CONSBUFSIZE]]

\* As long as no buffer has been full, nothing that was typed is lost, doubled
\* or out of order: what the readers got, what waits in stdin_buffer, in the
\* ring and in the port are the characters from the first to the last.
InOrder ==
    ~lost => out \o Taken(MaxTyped) \o InRing \o port = [i \in 1..typed |-> i]

\* Even when the buffers overrun, no character is handed out twice and nothing
\* is handed out that was not typed.
CharsOnce ==
    /\ 0 \notin ToSet(out)
    /\ IsInjective(out)

\* Nobody sleeps while there is a character for him.
NoReaderForgotten ==
    \A r \in Reader : pc[r] = "asleep" => p_rpos = p_wpos

\* The wait_t is on the kernel stack of the reader: it is out of the queue
\* before dev_stdin_read returns, and in the queue as long as he sleeps.
NoDanglingWait ==
    /\ IsInjective(wait_queue)
    /\ \A r \in ToSet(wait_queue) : pc[r] \in {"asleep", "woken"}
    /\ \A r \in Reader : pc[r] = "asleep" => r \in ToSet(wait_queue)

Reading == \E r \in Reader : pc[r] \in {"asleep", "woken"}

Pending == port # <<>> \/ cons.rpos # cons.wpos \/ p_rpos # p_wpos

\* What is typed while somebody reads is read.
InputIsRead == (Pending /\ Reading) ~> ~(Pending /\ Reading)

\* A kill wakes a reader so that it goes on and ends.
KilledReaderDies ==
    \A r \in Reader : (pc[r] = "woken" /\ exiting[r]) ~> pc[r] = "dead"
=============================================================================
