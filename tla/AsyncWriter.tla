---------------------------- MODULE AsyncWriter ----------------------------
(***************************************************************************)
(* The asynchronous log writer of shared/logging/async_writer.go: a        *)
(* bounded queue, one goroutine that copies records into a bufio.Writer,   *)
(* and Close, which drains both.                                           *)
(*                                                                         *)
(* A record is one Write call on a goroutine of its own, Size[r] bytes     *)
(* long; a byte is the pair of its record and its place in it, so a torn   *)
(* record is visible.  stateMu is an RWMutex: an announced Lock keeps new  *)
(* readers out.  bufio keeps its first error for ever.                     *)
(***************************************************************************)
EXTENDS Integers, Sequences

CONSTANTS
    Records,
    Size,          \* bytes of each record
    QueueSize,     \* capacity of queue
    BufferSize,    \* bytes bufio holds
    FileFails      \* the file may fail (a full disk)

ASSUME WriterConstants ==
    /\ Size \in [Records -> Nat \ {0}]
    /\ QueueSize \in Nat \ {0}
    /\ BufferSize \in Nat \ {0}
    /\ FileFails \in BOOLEAN

VARIABLES
    pc,          \* where each Write call is
    queue,       \* records sent, not yet received
    worker,      \* where run() is: "select", "write", "exited"
    draining,    \* run() is in its inner loop
    held,        \* what buffered.Write has yet to copy
    buffer,      \* what bufio holds
    file,        \* what the target has been given
    sticky,      \* bufio's err
    writeErr,    \* the error Close reports
    closer,      \* where Close is
    sent         \* history: the bytes of every record accepted, in order

vars == <<pc, queue, worker, draining, held, buffer, file, sticky, writeErr, closer, sent>>

Bytes(r) == [n \in 1 .. Size[r] |-> <<r, n>>]
Prefix(s, n) == SubSeq(s, 1, n)
Rest(s, n) == SubSeq(s, n + 1, Len(s))
Available == BufferSize - Len(buffer)

Init ==
    /\ pc = [r \in Records |-> "new"]
    /\ queue = <<>>
    /\ worker = "select" /\ draining = FALSE
    /\ held = <<>> /\ buffer = <<>> /\ file = <<>>
    /\ sticky = FALSE /\ writeErr = FALSE
    /\ closer = "open"
    /\ sent = <<>>

-----------------------------------------------------------------------------
(* Write.                                                                  *)

Closed == closer \in {"waiting", "returned"}

\* Take the read lock and look at closed.
BeginWrite(r) ==
    /\ pc[r] = "new"
    /\ closer # "locking"
    /\ pc' = [pc EXCEPT ![r] = IF Closed THEN "refused" ELSE "sending"]
    /\ UNCHANGED <<queue, worker, draining, held, buffer, file, sticky, writeErr, closer, sent>>

\* The send, still under the read lock, waits while the queue is full.
Send(r) ==
    /\ pc[r] = "sending"
    /\ Len(queue) < QueueSize
    /\ queue' = Append(queue, r)
    /\ sent' = sent \o Bytes(r)
    /\ pc' = [pc EXCEPT ![r] = "accepted"]
    /\ UNCHANGED <<worker, draining, held, buffer, file, sticky, writeErr, closer>>

-----------------------------------------------------------------------------
(* run() and bufio.                                                        *)

Receive ==
    /\ worker = "select"
    /\ queue # <<>>
    /\ queue' = Tail(queue)
    /\ held' = Bytes(Head(queue))
    /\ worker' = "write"
    /\ UNCHANGED <<pc, draining, buffer, file, sticky, writeErr, closer, sent>>

\* One call of the target: all of data, or a part of it and an error that
\* bufio keeps and setWriteErr records.
Put(data) ==
    \/ /\ file' = file \o data
       /\ UNCHANGED <<sticky, writeErr>>
    \/ /\ FileFails
       /\ \E n \in 0 .. Len(data) : file' = file \o Prefix(data, n)
       /\ sticky' = TRUE
       /\ writeErr' = TRUE

\* A failed flush leaves the buffer as it is: nothing reads it any more.
Emptied == IF sticky' THEN buffer ELSE <<>>

\* bufio: with an empty buffer, data longer than it goes straight to the file.
WriteThrough ==
    /\ worker = "write" /\ ~sticky
    /\ buffer = <<>> /\ Len(held) > BufferSize
    /\ Put(held)
    /\ held' = <<>>
    /\ worker' = "select"
    /\ UNCHANGED <<pc, queue, draining, buffer, closer, sent>>

\* bufio: data longer than the room left fills the buffer, which is flushed.
FillAndFlush ==
    /\ worker = "write" /\ ~sticky
    /\ buffer # <<>> /\ Len(held) > Available
    /\ Put(buffer \o Prefix(held, Available))
    /\ buffer' = Emptied
    /\ held' = IF sticky' THEN <<>> ELSE Rest(held, Available)
    /\ worker' = IF sticky' THEN "select" ELSE "write"
    /\ UNCHANGED <<pc, queue, draining, closer, sent>>

\* Mutant of CopyIn: the buffer is overfilled by one byte.
CopyOneMore ==
    /\ worker = "write" /\ ~sticky
    /\ Len(held) <= Available + 1
    /\ buffer' = buffer \o held
    /\ held' = <<>>
    /\ worker' = "select"
    /\ UNCHANGED <<pc, queue, draining, file, sticky, writeErr, closer, sent>>

\* bufio: data that fits is copied.
CopyIn ==
    /\ worker = "write" /\ ~sticky
    /\ Len(held) <= Available
    /\ buffer' = buffer \o held
    /\ held' = <<>>
    /\ worker' = "select"
    /\ UNCHANGED <<pc, queue, draining, file, sticky, writeErr, closer, sent>>

\* bufio: after an error nothing is written any more.
Refuse ==
    /\ worker = "write" /\ sticky
    /\ held' = <<>>
    /\ worker' = "select"
    /\ writeErr' = TRUE
    /\ UNCHANGED <<pc, queue, draining, buffer, file, sticky, closer, sent>>

\* buffered.Flush().
Flush ==
    IF sticky \/ buffer = <<>>
    THEN writeErr' = (writeErr \/ sticky) /\ UNCHANGED <<buffer, file, sticky>>
    ELSE Put(buffer) /\ buffer' = Emptied

\* Mutant of Tick: the ticker flushes only a full buffer.
TickFull ==
    /\ worker = "select" /\ ~draining
    /\ Available = 0
    /\ Flush
    /\ UNCHANGED <<pc, queue, worker, draining, held, closer, sent>>

Tick ==
    /\ worker = "select" /\ ~draining
    /\ Flush
    /\ UNCHANGED <<pc, queue, worker, draining, held, closer, sent>>

\* The select sees done closed.
BeginDrain ==
    /\ worker = "select" /\ ~draining
    /\ Closed
    /\ draining' = TRUE
    /\ UNCHANGED <<pc, queue, worker, held, buffer, file, sticky, writeErr, closer, sent>>

\* Mutant of EndDrain: the goroutine returns without draining the queue.
EndUndrained ==
    /\ worker = "select" /\ draining
    /\ Flush
    /\ worker' = "exited"
    /\ UNCHANGED <<pc, queue, draining, held, closer, sent>>

\* The drain finds the queue empty: flush and return.
EndDrain ==
    /\ worker = "select" /\ draining
    /\ queue = <<>>
    /\ Flush
    /\ worker' = "exited"
    /\ UNCHANGED <<pc, queue, draining, held, closer, sent>>

-----------------------------------------------------------------------------
(* Close.                                                                  *)

\* Mutant of AnnounceLock: done is closed before the senders have finished.
CloseAtOnce ==
    /\ closer = "open"
    /\ closer' = "waiting"
    /\ UNCHANGED <<pc, queue, worker, draining, held, buffer, file, sticky, writeErr, sent>>

AnnounceLock ==
    /\ closer = "open"
    /\ closer' = "locking"
    /\ UNCHANGED <<pc, queue, worker, draining, held, buffer, file, sticky, writeErr, sent>>

\* With the lock: set closed, close done.
SetClosed ==
    /\ closer = "locking"
    /\ \A r \in Records : pc[r] # "sending"
    /\ closer' = "waiting"
    /\ UNCHANGED <<pc, queue, worker, draining, held, buffer, file, sticky, writeErr, sent>>

\* wg.Wait returns, and the target is closed.
CloseReturns ==
    /\ closer = "waiting"
    /\ worker = "exited"
    /\ closer' = "returned"
    /\ UNCHANGED <<pc, queue, worker, draining, held, buffer, file, sticky, writeErr, sent>>

-----------------------------------------------------------------------------
Write(r) == BeginWrite(r) \/ Send(r)
Run ==
    \/ Receive \/ WriteThrough \/ FillAndFlush \/ CopyIn \/ Refuse
    \/ Tick \/ BeginDrain \/ EndDrain
Close == AnnounceLock \/ SetClosed \/ CloseReturns

Next == (\E r \in Records : Write(r)) \/ Run \/ Close

Spec == Init /\ [][Next]_vars

(***************************************************************************)
(* Fairness: goroutines run, the ticker fires, a select among ready cases  *)
(* is random (none is passed over for ever), a blocked sender is served.   *)
(* Nobody has to call Close.                                               *)
(***************************************************************************)
FairSpec ==
    /\ Spec
    /\ \A r \in Records : WF_vars(BeginWrite(r)) /\ SF_vars(Send(r))
    /\ SF_vars(Receive) /\ SF_vars(Tick) /\ SF_vars(BeginDrain)
    /\ WF_vars(WriteThrough \/ FillAndFlush \/ CopyIn \/ Refuse \/ EndDrain)
    /\ WF_vars(SetClosed \/ CloseReturns)

-----------------------------------------------------------------------------
Byte == UNION {{<<r, n>> : n \in 1 .. Size[r]} : r \in Records}

TypeOK ==
    /\ pc \in [Records -> {"new", "sending", "accepted", "refused"}]
    /\ queue \in Seq(Records) /\ Len(queue) <= QueueSize
    /\ worker \in {"select", "write", "exited"}
    /\ draining \in BOOLEAN
    /\ held \in Seq(Byte)
    /\ buffer \in Seq(Byte) /\ Len(buffer) <= BufferSize
    /\ file \in Seq(Byte)
    /\ sticky \in BOOLEAN /\ writeErr \in BOOLEAN
    /\ closer \in {"open", "locking", "waiting", "returned"}
    /\ sent \in Seq(Byte)

InFile(r) == \E n \in 1 .. Len(file) : file[n] = <<r, Size[r]>>

\* The file holds the accepted records in order and without gaps or torn
\* records, up to its first failure; a Close that reports no error has
\* written them all, and none is accepted or written after it.
Stream == INSTANCE LogStream WITH
    accepted <- sent, broken <- writeErr, closed <- (closer = "returned")

ImplementsLogStream == Stream!Spec

\* Nobody waits for ever: a Write gets room in the queue even while Close
\* waits for the writers, and Close returns although writers may be waiting
\* for room, with the read lock, when it is called.
CallsReturn ==
    /\ \A r \in Records : (pc[r] = "sending") ~> (pc[r] = "accepted")
    /\ (closer = "locking") ~> (closer = "returned")

\* While the file works, an accepted record is in it soon, Close or not.
RecordsReachFile == \A r \in Records : (pc[r] = "accepted") ~> (InFile(r) \/ sticky)
===========================================================================
