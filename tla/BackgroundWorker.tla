-------------------------- MODULE BackgroundWorker --------------------------
(***************************************************************************)
(* The bounded queue and batch loop of shared/worker/background_worker.go, *)
(* with the request_log writer behind it                                   *)
(* (observability/infrastructure/request_log_writer.go).                   *)
(*                                                                         *)
(* Every item is one Enqueue call on a goroutine of its own.  stateMu is   *)
(* read-locked while an item is being sent; Stop needs it exclusively.  A  *)
(* panic of the processor is recovered and counts as its error.            *)
(***************************************************************************)
EXTENDS Integers, Sequences

CONSTANTS
    Items,
    BufferSize,     \* capacity of inputCh
    BatchSize,      \* items per Process call
    Attempts,       \* requestLogWriteAttempts
    Outcomes        \* what an insert may answer: "ok", "busy", "error"

ASSUME WorkerConstants ==
    /\ BufferSize \in Nat \ {0}
    /\ BatchSize \in Nat \ {0}
    /\ Attempts \in Nat \ {0}
    /\ Outcomes \subseteq {"ok", "busy", "error"}

VARIABLES
    queue,     \* inputCh
    batch,     \* the batch; in the one-by-one fallback, what is left of it
    worker,    \* where run() is: "select", "batch", "single", "exited"
    mode,      \* "serving", "draining" (the inner loop), "leaving" (the last flush)
    stopped,
    stopper,   \* where the goroutine that calls Stop is
    pc,        \* where each Enqueue call is
    attempt,   \* the insert attempt of the worker's and of each call's write
    stored,    \* how often each item has been committed to request_log
    lost,      \* items given up: dropped, or not written
    dropWhenFull   \* config.DropWhenFull: drop instead of processing synchronously

vars == <<queue, batch, worker, mode, stopped, stopper, pc, attempt, stored, lost,
          dropWhenFull>>

Loop == "worker"
Writers == Items \union {Loop}
Elements(s) == {s[n] : n \in 1 .. Len(s)}

ASSUME LoopIsNoItem == Loop \notin Items

Init ==
    /\ queue = <<>>
    /\ batch = <<>>
    /\ worker = "select"
    /\ mode = "serving"
    /\ stopped = FALSE
    /\ stopper = "running"
    /\ pc = [i \in Items |-> "new"]
    /\ attempt = [w \in Writers |-> 1]
    /\ stored = [i \in Items |-> 0]
    /\ lost = {}
    /\ dropWhenFull \in BOOLEAN

-----------------------------------------------------------------------------
(* Enqueue.                                                                *)

\* Under the read lock: a stopped worker makes the caller write by itself.
CheckStopped(i) ==
    /\ pc[i] = "new"
    /\ pc' = [pc EXCEPT ![i] = IF stopped THEN "sync" ELSE "sending"]
    /\ UNCHANGED <<queue, batch, worker, mode, stopped, stopper, attempt, stored, lost, dropWhenFull>>

\* Still under it: send without blocking, or fall back.
Send(i) ==
    /\ pc[i] = "sending"
    /\ \/ /\ Len(queue) < BufferSize
          /\ queue' = Append(queue, i)
          /\ pc' = [pc EXCEPT ![i] = "queued"]
          /\ UNCHANGED lost
       \/ /\ Len(queue) >= BufferSize /\ dropWhenFull
          /\ pc' = [pc EXCEPT ![i] = "dropped"]
          /\ lost' = lost \union {i}
          /\ UNCHANGED queue
       \/ /\ Len(queue) >= BufferSize /\ ~dropWhenFull
          /\ pc' = [pc EXCEPT ![i] = "sync"]
          /\ UNCHANGED <<queue, lost>>
    /\ UNCHANGED <<batch, worker, mode, stopped, stopper, attempt, stored, dropWhenFull>>

-----------------------------------------------------------------------------
(* insertRequestLogsWithRetry: one transaction for all the items.          *)

Writing(w) == IF w = Loop THEN worker \in {"batch", "single"} ELSE pc[w] = "sync"

\* The database is busy: back off and try again.
Retry(w) ==
    /\ Writing(w)
    /\ "busy" \in Outcomes
    /\ attempt[w] < Attempts
    /\ attempt' = [attempt EXCEPT ![w] = @ + 1]
    /\ UNCHANGED <<queue, batch, worker, mode, stopped, stopper, pc, stored, lost, dropWhenFull>>

\* The write ends; a database that stays busy ends it without an error.
Ends(w, outcome) ==
    /\ outcome \in Outcomes
    /\ outcome = "busy" => attempt[w] = Attempts
    /\ attempt' = [attempt EXCEPT ![w] = 1]

Settle(items, outcome) ==
    /\ stored' = [i \in Items |-> IF i \in items /\ outcome = "ok" THEN stored[i] + 1 ELSE stored[i]]
    /\ lost' = IF outcome = "ok" THEN lost ELSE lost \union items

\* safeProcessSingle on the caller's goroutine.
WriteSync(i) ==
    /\ pc[i] = "sync"
    /\ pc' = [pc EXCEPT ![i] = "done"]
    /\ \E outcome \in Outcomes : Ends(i, outcome) /\ Settle({i}, outcome)
    /\ UNCHANGED <<queue, batch, worker, mode, stopped, stopper, dropWhenFull>>

-----------------------------------------------------------------------------
(* run().                                                                  *)

\* Mutant of Receive: the batch is flushed one item too late.
ReceiveOneMore ==
    /\ worker = "select" /\ mode \in {"serving", "draining"}
    /\ queue # <<>>
    /\ queue' = Tail(queue)
    /\ batch' = Append(batch, Head(queue))
    /\ worker' = IF Len(batch) >= BatchSize THEN "batch" ELSE "select"
    /\ UNCHANGED <<mode, stopped, stopper, pc, attempt, stored, lost, dropWhenFull>>

Receive ==
    /\ worker = "select" /\ mode \in {"serving", "draining"}
    /\ queue # <<>>
    /\ queue' = Tail(queue)
    /\ batch' = Append(batch, Head(queue))
    /\ worker' = IF Len(batch) + 1 >= BatchSize THEN "batch" ELSE "select"
    /\ UNCHANGED <<mode, stopped, stopper, pc, attempt, stored, lost, dropWhenFull>>

\* Mutant of TickerFlush: only a full batch is flushed.
FlushFullOnly ==
    /\ worker = "select" /\ mode = "serving"
    /\ Len(batch) >= BatchSize
    /\ worker' = "batch"
    /\ UNCHANGED <<queue, batch, mode, stopped, stopper, pc, attempt, stored, lost, dropWhenFull>>

TickerFlush ==
    /\ worker = "select" /\ mode = "serving"
    /\ batch # <<>>
    /\ worker' = "batch"
    /\ UNCHANGED <<queue, batch, mode, stopped, stopper, pc, attempt, stored, lost, dropWhenFull>>

\* The select sees the closed shutdown channel.
BeginDrain ==
    /\ worker = "select" /\ mode = "serving"
    /\ stopper = "waiting"
    /\ mode' = "draining"
    /\ UNCHANGED <<queue, batch, worker, stopped, stopper, pc, attempt, stored, lost, dropWhenFull>>

\* The drain finds the queue empty: flush once more and return.
EndDrain ==
    /\ worker = "select" /\ mode = "draining"
    /\ queue = <<>>
    /\ mode' = "leaving"
    /\ worker' = IF batch = <<>> THEN "exited" ELSE "batch"
    /\ UNCHANGED <<queue, batch, stopped, stopper, pc, attempt, stored, lost, dropWhenFull>>

Continue == IF mode = "leaving" THEN "exited" ELSE "select"

\* Mutant of WriteBatch: a written batch is not emptied.
WriteBatchKeep ==
    /\ worker = "batch"
    /\ \E outcome \in Outcomes :
            /\ Ends(Loop, outcome)
            /\ Settle(Elements(batch), outcome)
            /\ worker' = Continue
    /\ UNCHANGED <<queue, batch, mode, stopped, stopper, pc, dropWhenFull>>

\* safeProcess: an error leaves the batch to be written one by one.
WriteBatch ==
    /\ worker = "batch"
    /\ \/ \E outcome \in Outcomes \ {"error"} :
            /\ Ends(Loop, outcome)
            /\ Settle(Elements(batch), outcome)
            /\ batch' = <<>>
            /\ worker' = Continue
       \/ /\ Ends(Loop, "error")
          /\ worker' = "single"
          /\ UNCHANGED <<batch, stored, lost>>
    /\ UNCHANGED <<queue, mode, stopped, stopper, pc, dropWhenFull>>

WriteSingle ==
    /\ worker = "single"
    /\ \E outcome \in Outcomes : Ends(Loop, outcome) /\ Settle({Head(batch)}, outcome)
    /\ batch' = Tail(batch)
    /\ worker' = IF Len(batch) = 1 THEN Continue ELSE "single"
    /\ UNCHANGED <<queue, mode, stopped, stopper, pc, dropWhenFull>>

-----------------------------------------------------------------------------
(* Stop.                                                                   *)

CallStop ==
    /\ stopper = "running"
    /\ stopper' = "locking"
    /\ UNCHANGED <<queue, batch, worker, mode, stopped, pc, attempt, stored, lost, dropWhenFull>>

\* Mutant of SetStopped: stopped is set without the write lock.
SetStoppedUnlocked ==
    /\ stopper = "locking"
    /\ stopped' = TRUE
    /\ stopper' = "closing"
    /\ UNCHANGED <<queue, batch, worker, mode, pc, attempt, stored, lost, dropWhenFull>>

\* stateMu.Lock: no send is in progress, and later calls see stopped.
SetStopped ==
    /\ stopper = "locking"
    /\ \A i \in Items : pc[i] # "sending"
    /\ stopped' = TRUE
    /\ stopper' = "closing"
    /\ UNCHANGED <<queue, batch, worker, mode, pc, attempt, stored, lost, dropWhenFull>>

CloseShutdown ==
    /\ stopper = "closing"
    /\ stopper' = "waiting"
    /\ UNCHANGED <<queue, batch, worker, mode, stopped, pc, attempt, stored, lost, dropWhenFull>>

\* wg.Wait returns.
StopReturns ==
    /\ stopper = "waiting"
    /\ worker = "exited"
    /\ stopper' = "returned"
    /\ UNCHANGED <<queue, batch, worker, mode, stopped, pc, attempt, stored, lost, dropWhenFull>>

-----------------------------------------------------------------------------
Enqueue(i) == CheckStopped(i) \/ Send(i) \/ Retry(i) \/ WriteSync(i)
Run ==
    \/ Receive \/ TickerFlush \/ BeginDrain \/ EndDrain
    \/ Retry(Loop) \/ WriteBatch \/ WriteSingle
Stop == CallStop \/ SetStopped \/ CloseShutdown \/ StopReturns

Next == (\E i \in Items : Enqueue(i)) \/ Run \/ Stop

Spec == Init /\ [][Next]_vars

(***************************************************************************)
(* Fairness: goroutines run, the ticker fires, a select among ready cases  *)
(* is random (so the shutdown case is not passed over for ever), and a     *)
(* pending Lock of an RWMutex keeps new readers out.  Nobody has to call   *)
(* Stop.                                                                   *)
(***************************************************************************)
FairSpec ==
    /\ Spec
    /\ \A i \in Items : WF_vars(Send(i) \/ Retry(i) \/ WriteSync(i))
    /\ WF_vars(Run)
    /\ SF_vars(BeginDrain)
    /\ SF_vars(SetStopped)
    /\ WF_vars(CloseShutdown \/ StopReturns)

-----------------------------------------------------------------------------
TypeOK ==
    /\ queue \in Seq(Items) /\ Len(queue) <= BufferSize
    /\ batch \in Seq(Items) /\ Len(batch) <= BatchSize
    /\ worker \in {"select", "batch", "single", "exited"}
    /\ mode \in {"serving", "draining", "leaving"}
    /\ stopped \in BOOLEAN
    /\ stopper \in {"running", "locking", "closing", "waiting", "returned"}
    /\ pc \in [Items -> {"new", "sending", "queued", "dropped", "sync", "done"}]
    /\ attempt \in [Writers -> 1 .. Attempts]
    /\ stored \in [Items -> Nat]
    /\ lost \in SUBSET Items
    /\ dropWhenFull \in BOOLEAN

\* No item is written twice: the one-by-one fallback follows only a batch
\* that was rolled back, and nothing that was given up is written after all.
SettledOnce == \A i \in Items : stored[i] + (IF i \in lost THEN 1 ELSE 0) <= 1

Settled(i) == stored[i] > 0 \/ i \in lost

\* When Stop returns, every item whose Enqueue returned true has been dealt
\* with: no send slips in behind the drain.
StopDrains == stopper = "returned" => \A i \in Items : pc[i] = "queued" => Settled(i)

Fate == [i \in Items |-> IF stored[i] > 0 THEN "stored"
                         ELSE IF i \in lost THEN "lost"
                         ELSE IF pc[i] = "queued" THEN "accepted" ELSE "new"]

Promise == INSTANCE Delivery WITH fate <- Fate, closed <- (stopper = "returned")

\* The worker delivers what Delivery promises.
ImplementsDelivery == Promise!Spec

\* Every Enqueue is settled, whether or not the worker is ever stopped, and
\* Stop returns: it waits neither for a full queue nor for its own readers.
CallsSettle ==
    /\ \A i \in Items : pc[i] \in {"sending", "queued", "sync"} ~> Settled(i)
    /\ (stopper = "locking") ~> (stopper = "returned")
=============================================================================
