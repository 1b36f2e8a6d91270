-------------------------------- MODULE Pipe --------------------------------
(***************************************************************************)
(* A pipe shared by a process and its fork child (Syscall::pipe, read,     *)
(* write and close; UserProcess::openPipe, readFromPipe, writeToPipe,      *)
(* removeLocalFD, the pipe part of the copy constructor and of            *)
(* ~UserProcess; RingBuffer<char>).                                        *)
(*                                                                         *)
(* Each process keeps the pipe in its own pipes_ map and locks it with its *)
(* own pipes_lock_; the RingBuffer is shared, so reads and writes of two   *)
(* processes interleave step by step: put and get each read the two       *)
(* positions, touch one slot, and publish one position with testSetLock.   *)
(* connected_proc_counter_ counts the processes that hold the pipe; the   *)
(* destructor of the last one deletes the buffer.  One thread per process: *)
(* pipes_lock_ only orders the threads of one process.                     *)
(***************************************************************************)
EXTENDS Integers, Sequences, FiniteSets

CONSTANTS
  Size,      \* RingBuffer size (PIPE_BUF_SIZE); it holds Size - 1 characters
  Chars,     \* characters a writer may send
  Writers,   \* processes whose program writes to the pipe
  Readers,   \* processes whose program reads from the pipe
  MaxCount,  \* bound on the count of one read or write
  MaxCalls   \* bound on the read and write syscalls of a behaviour

Parent == 1   \* the process that opens the pipe
Child  == 2   \* its fork child
Procs  == {Parent, Child}
Slots  == 0..(Size - 1)
NoChar == "none"

ASSUME /\ Size \in Nat /\ Size > 1
       /\ Writers \subseteq Procs /\ Readers \subseteq Procs
       /\ MaxCount \in Nat \ {0} /\ MaxCalls \in Nat
       /\ NoChar \notin Chars

VARIABLES
  pstate,     \* per process: "none", "live", "exited" (destroyed)
  pipes,      \* per process: pipes_ holds the pipe's entry
  ring,       \* the RingBuffer: "none", "alloc", "freed"
  procCount,  \* connected_proc_counter_
  buf,        \* buffer_
  writePos,   \* write_pos_
  readPos,    \* read_pos_
  pc,         \* per process, its thread: "user", "w_put", "w_store", "w_pub",
              \*   "r_get", "r_load", "r_pub"
  pos,        \* old_write_pos or new_read_pos of the put or get under way
  cur,        \* the character being written or just read
  left,       \* count - character of the read or write under way
  ret,        \* per process, the last syscall's return value
  calls,      \* read and write syscalls made so far
  out         \* every character a read returned, in order

vars == <<pstate, pipes, ring, procCount, buf, writePos, readPos, pc, pos,
          cur, left, ret, calls, out>>

-----------------------------------------------------------------------------
(* RingBuffer<char> (RingBuffer.h).                                        *)

\* The constructor: write_pos_ 1, read_pos_ 0, no process connected; the
\* buffer is uninitialised memory, never read before it is written.
ringCreate ==
  /\ buf' = [i \in Slots |-> NoChar]
  /\ writePos' = 1
  /\ readPos' = 0

\* incProcCount / decProcCount: connected_proc_counter_ under proc_counter_.
incProcCount == procCount' = procCount + 1
decProcCount == procCount' = procCount - 1

\* The characters between read_pos_ and write_pos_, oldest first.
Contents ==
  LET n == (writePos + Size - readPos - 1) % Size IN
  [i \in 1..n |-> buf[(readPos + i) % Size]]

\* pipes_ of p finds an entry whose read (write) end is the fd: the model
\* has one pipe, whose fds are only ever in the pipes_ of its holders.
HoldsPipe(p) == pipes[p]

-----------------------------------------------------------------------------
(* Syscalls.                                                               *)

\* Syscall::pipe -> openPipe: two new fds, a new RingBuffer in pipes_ and
\* incProcCount.
openPipe(p) ==
  /\ pstate[p] = "live" /\ pc[p] = "user"
  /\ ring = "none"
  /\ ringCreate
  /\ ring' = "alloc"
  /\ procCount' = 1
  /\ pipes' = [pipes EXCEPT ![p] = TRUE]
  /\ ret' = [ret EXCEPT ![p] = 0]
  /\ UNCHANGED <<pstate, pc, pos, cur, left, calls, out>>

\* A copy constructor that copies pipes_ without incProcCount.
fork_noInc(p) ==
  /\ p = Parent /\ pstate[p] = "live" /\ pc[p] = "user"
  /\ pstate[Child] = "none"
  /\ pstate' = [pstate EXCEPT ![Child] = "live"]
  /\ pipes' = [pipes EXCEPT ![Child] = pipes[p]]
  /\ UNCHANGED <<procCount, ring, buf, writePos, readPos, pc, pos, cur, left, ret, calls, out>>

\* Syscall::fork: the copy constructor copies pipes_ and calls
\* incProcCount for every pipe it copies.
fork(p) ==
  /\ p = Parent /\ pstate[p] = "live" /\ pc[p] = "user"
  /\ pstate[Child] = "none"
  /\ pstate' = [pstate EXCEPT ![Child] = "live"]
  /\ pipes' = [pipes EXCEPT ![Child] = pipes[p]]
  /\ IF pipes[p] THEN incProcCount ELSE UNCHANGED procCount
  /\ UNCHANGED <<ring, buf, writePos, readPos, pc, pos, cur, left, ret, calls, out>>

\* The process exits and the cleanup thread runs ~UserProcess: for every
\* pipe in pipes_, decProcCount and, if the count is now 0, delete.
\* Destructors run one at a time on the cleanup thread.
exit(p) ==
  /\ pstate[p] = "live" /\ pc[p] = "user"
  /\ pstate' = [pstate EXCEPT ![p] = "exited"]
  /\ IF HoldsPipe(p)
       THEN /\ decProcCount
            /\ ring' = IF procCount - 1 = 0 THEN "freed" ELSE ring
       ELSE UNCHANGED <<procCount, ring>>
  /\ UNCHANGED <<pipes, buf, writePos, readPos, pc, pos, cur, left, ret, calls, out>>

\* writeToPipe: under pipes_lock_, find the entry whose write end is the
\* fd and put characters while character < count and put succeeds.
writeToPipe(p, n) ==
  /\ pc' = [pc EXCEPT ![p] = "w_put"]
  /\ left' = [left EXCEPT ![p] = n]
  /\ ret' = [ret EXCEPT ![p] = 0]

\* Syscall::write(fd, buf, count) on the pipe's write end: isPipe, then
\* writeToPipe; a process without the pipe falls through to getGlobalFD,
\* which has no such fd: -1.  (Bad user pointers are left out.)
write(p, n) ==
  /\ pstate[p] = "live" /\ pc[p] = "user"
  /\ calls < MaxCalls
  /\ calls' = calls + 1
  /\ IF HoldsPipe(p)
       THEN writeToPipe(p, n)
       ELSE /\ ret' = [ret EXCEPT ![p] = -1]
            /\ UNCHANGED <<pc, left>>
  /\ UNCHANGED <<pstate, pipes, ring, procCount, buf, writePos, readPos, pos, cur, out>>

\* A put that never finds the buffer full.
putCheck_noFullCheck(p) ==
  /\ pc[p] = "w_put"
  /\ pc' = [pc EXCEPT ![p] = "w_store"]
  /\ pos' = [pos EXCEPT ![p] = writePos]
  /\ UNCHANGED <<pstate, pipes, ring, procCount, buf, writePos, readPos, cur,
                 left, ret, calls, out>>

\* put, first half: old_write_pos = write_pos_; if it equals read_pos_
\* the buffer is full, put returns false and writeToPipe returns the
\* characters written so far.
putCheck(p) ==
  /\ pc[p] = "w_put"
  /\ IF writePos = readPos
       THEN pc' = [pc EXCEPT ![p] = "user"]
       ELSE pc' = [pc EXCEPT ![p] = "w_store"]
  /\ pos' = [pos EXCEPT ![p] = writePos]
  /\ UNCHANGED <<pstate, pipes, ring, procCount, buf, writePos, readPos, cur,
                 left, ret, calls, out>>

\* buffer_[old_write_pos] = c.
putStore(p) ==
  /\ pc[p] = "w_store"
  /\ \E c \in Chars : buf' = [buf EXCEPT ![pos[p]] = c]
  /\ pc' = [pc EXCEPT ![p] = "w_pub"]
  /\ UNCHANGED <<pstate, pipes, ring, procCount, writePos, readPos, pos, cur,
                 left, ret, calls, out>>

\* testSetLock(write_pos_, (old_write_pos + 1) % size); put returns true
\* and the loop goes on while character < count.
putPublish(p) ==
  /\ pc[p] = "w_pub"
  /\ writePos' = (pos[p] + 1) % Size
  /\ left' = [left EXCEPT ![p] = @ - 1]
  /\ ret' = [ret EXCEPT ![p] = @ + 1]
  /\ pc' = [pc EXCEPT ![p] = IF left[p] = 1 THEN "user" ELSE "w_put"]
  /\ UNCHANGED <<pstate, pipes, ring, procCount, buf, readPos, pos, cur, calls, out>>

\* readFromPipe: under pipes_lock_, find the entry whose read end is the
\* fd and get characters while character < count and get succeeds.
readFromPipe(p, n) ==
  /\ pc' = [pc EXCEPT ![p] = "r_get"]
  /\ left' = [left EXCEPT ![p] = n]
  /\ ret' = [ret EXCEPT ![p] = 0]

\* Syscall::read(fd, buf, count) on the pipe's read end: readFromPipe, or
\* -1 for a process that does not hold the pipe.
read(p, n) ==
  /\ pstate[p] = "live" /\ pc[p] = "user"
  /\ calls < MaxCalls
  /\ calls' = calls + 1
  /\ IF HoldsPipe(p)
       THEN readFromPipe(p, n)
       ELSE /\ ret' = [ret EXCEPT ![p] = -1]
            /\ UNCHANGED <<pc, left>>
  /\ UNCHANGED <<pstate, pipes, ring, procCount, buf, writePos, readPos, pos, cur, out>>

\* get, first part: new_read_pos = (read_pos_ + 1) % size; if write_pos_
\* equals it there is nothing to read, get returns false and readFromPipe
\* returns the characters read so far.
getCheck(p) ==
  LET next == (readPos + 1) % Size IN
  /\ pc[p] = "r_get"
  /\ IF writePos = next
       THEN pc' = [pc EXCEPT ![p] = "user"]
       ELSE pc' = [pc EXCEPT ![p] = "r_load"]
  /\ pos' = [pos EXCEPT ![p] = next]
  /\ UNCHANGED <<pstate, pipes, ring, procCount, buf, writePos, readPos, cur,
                 left, ret, calls, out>>

\* c = buffer_[new_read_pos].
getLoad(p) ==
  /\ pc[p] = "r_load"
  /\ cur' = [cur EXCEPT ![p] = buf[pos[p]]]
  /\ pc' = [pc EXCEPT ![p] = "r_pub"]
  /\ UNCHANGED <<pstate, pipes, ring, procCount, buf, writePos, readPos, pos,
                 left, ret, calls, out>>

\* testSetLock(read_pos_, new_read_pos); the character is the reader's.
getPublish(p) ==
  /\ pc[p] = "r_pub"
  /\ readPos' = pos[p]
  /\ out' = Append(out, cur[p])
  /\ left' = [left EXCEPT ![p] = @ - 1]
  /\ ret' = [ret EXCEPT ![p] = @ + 1]
  /\ pc' = [pc EXCEPT ![p] = IF left[p] = 1 THEN "user" ELSE "r_get"]
  /\ UNCHANGED <<pstate, pipes, ring, procCount, buf, writePos, pos, cur, calls>>

\* removeLocalFD(fd): erases fd from fds_ (a pipe fd is not there) and
\* walks pipes_ by value: the branch that matches marks the end
\* PIPE_FD_CLOSED in a copy of the key and breaks, and the branches that
\* would decProcCount, delete and erase need a key already marked.  The
\* entry, the count and the buffer stay as they are.
removeLocalFD(p) == UNCHANGED <<pipes, procCount, ring>>

\* Syscall::close on a pipe end: getGlobalFD finds no such fd, isPipe is
\* true, removeLocalFD, return 0.  A process that does not hold the pipe
\* gets -1 for the unknown fd.
close(p) ==
  /\ pstate[p] = "live" /\ pc[p] = "user"
  /\ IF HoldsPipe(p)
       THEN /\ removeLocalFD(p)
            /\ ret' = [ret EXCEPT ![p] = 0]
       ELSE /\ ret' = [ret EXCEPT ![p] = -1]
            /\ UNCHANGED <<pipes, procCount, ring>>
  /\ UNCHANGED <<pstate, buf, writePos, readPos, pc, pos, cur, left, calls, out>>

-----------------------------------------------------------------------------

Init ==
  /\ pstate = [p \in Procs |-> IF p = Parent THEN "live" ELSE "none"]
  /\ pipes = [p \in Procs |-> FALSE]
  /\ ring = "none"
  /\ procCount = 0
  /\ buf = [i \in Slots |-> NoChar]
  /\ writePos = 1
  /\ readPos = 0
  /\ pc = [p \in Procs |-> "user"]
  /\ pos = [p \in Procs |-> 0]
  /\ cur = [p \in Procs |-> NoChar]
  /\ left = [p \in Procs |-> 0]
  /\ ret = [p \in Procs |-> 0]
  /\ calls = 0
  /\ out = <<>>

\* The steps of a read or write inside the kernel.
KernelStep(p) ==
  \/ putCheck(p) \/ putStore(p) \/ putPublish(p)
  \/ getCheck(p) \/ getLoad(p) \/ getPublish(p)

\* What a program may do: writers write, readers read, any may open the
\* pipe, fork, close it or exit.
UserStep(p) ==
  \/ openPipe(p) \/ fork(p) \/ close(p) \/ exit(p)
  \/ p \in Writers /\ \E n \in 1..MaxCount : write(p, n)
  \/ p \in Readers /\ \E n \in 1..MaxCount : read(p, n)

Next == \E p \in Procs : KernelStep(p) \/ UserStep(p)

\* A thread inside read or write is runnable and the scheduler is
\* round robin; programs need not make progress.
Spec == Init /\ [][Next]_vars /\ \A p \in Procs : WF_vars(KernelStep(p))

-----------------------------------------------------------------------------
(* Properties.                                                              *)

TypeOK ==
  /\ pstate \in [Procs -> {"none", "live", "exited"}]
  /\ pipes \in [Procs -> BOOLEAN]
  /\ ring \in {"none", "alloc", "freed"}
  /\ procCount \in 0..Cardinality(Procs)
  /\ buf \in [Slots -> Chars \cup {NoChar}]
  /\ writePos \in Slots /\ readPos \in Slots
  /\ pos \in [Procs -> Slots]
  /\ left \in [Procs -> 0..MaxCount]
  /\ calls \in 0..MaxCalls

\* connected_proc_counter_ is raised by openPipe and by every fork that
\* copies the pipe and lowered by every ~UserProcess of a holder, and the
\* destructor that brings it to 0 deletes the RingBuffer.  So the buffer
\* exists exactly while some live process holds the pipe: no holder uses
\* a deleted buffer, and none is left behind once all holders are gone.
PipeLivesWithHolders ==
  (ring = "alloc") <=> (\E p \in Procs : pstate[p] = "live" /\ pipes[p])

\* The RingBuffer, with its put and get split into the steps the code
\* takes and a writer and a reader in different processes, each under its
\* own pipes_lock_, behaves as a bounded FIFO of Size - 1 characters: every
\* read returns the oldest character written and not yet read.
Fifo == INSTANCE PipeFifo WITH Capacity <- Size - 1, q <- Contents

PipeRefined == Fifo!Spec

=============================================================================
