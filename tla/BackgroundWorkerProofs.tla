----------------------- MODULE BackgroundWorkerProofs -----------------------
(***************************************************************************)
(* The background worker settles every item once and stops only after the  *)
(* items it accepted, for any number of items, any buffer and batch size,  *)
(* and any outcome of the writes.                                          *)
(***************************************************************************)
EXTENDS BackgroundWorker, TLAPS

\* No item is in a sequence twice.
Distinct(s) == \A m, n \in 1 .. Len(s) : s[m] = s[n] => m = n

\* The sequence operations in terms of the items in the sequence.
LEMMA EmptyElements == Elements(<<>>) = {} /\ Distinct(<<>>)
  BY DEF Elements, Distinct

LEMMA AppendElements ==
    ASSUME NEW S, NEW s \in Seq(S), NEW e \in S
    PROVE  /\ Append(s, e) \in Seq(S)
           /\ Len(Append(s, e)) = Len(s) + 1
           /\ Elements(Append(s, e)) = Elements(s) \union {e}
           /\ Distinct(s) /\ e \notin Elements(s) => Distinct(Append(s, e))
<1> DEFINE t == Append(s, e)
<1>1. /\ t \in Seq(S) /\ Len(s) \in Nat /\ Len(t) = Len(s) + 1
      /\ t[Len(s) + 1] = e
      /\ \A n \in 1 .. Len(s) : t[n] = s[n]
  OBVIOUS
<1>2. Elements(t) = Elements(s) \union {e}
  <2>1. \A x : x \in Elements(t) => x \in Elements(s) \union {e}
    BY <1>1 DEF Elements
  <2>2. \A x : x \in Elements(s) => x \in Elements(t)
    BY <1>1 DEF Elements
  <2>3. e \in Elements(t)
    BY <1>1 DEF Elements
  <2>4. QED
    BY <2>1, <2>2, <2>3
<1>3. ASSUME Distinct(s), e \notin Elements(s) PROVE Distinct(t)
  <2> SUFFICES ASSUME NEW m \in 1 .. Len(t), NEW n \in 1 .. Len(t), t[m] = t[n] PROVE m = n
    BY DEF Distinct
  <2>1. CASE m \in 1 .. Len(s) /\ n \in 1 .. Len(s)
    BY <2>1, <1>1, <1>3 DEF Distinct
  <2>2. CASE m \notin 1 .. Len(s) \/ n \notin 1 .. Len(s)
    BY <2>2, <1>1, <1>3 DEF Elements
  <2>3. QED
    BY <2>1, <2>2
<1>4. QED
  BY <1>1, <1>2, <1>3

LEMMA TailElements ==
    ASSUME NEW S, NEW s \in Seq(S), s # <<>>
    PROVE  /\ Head(s) \in S /\ Tail(s) \in Seq(S)
           /\ Len(s) > 0 /\ Len(Tail(s)) = Len(s) - 1
           /\ Elements(s) = Elements(Tail(s)) \union {Head(s)}
           /\ Distinct(s) => Distinct(Tail(s)) /\ Head(s) \notin Elements(Tail(s))
<1> DEFINE t == Tail(s)
<1>1. /\ Len(s) \in Nat /\ Len(s) > 0 /\ Len(t) = Len(s) - 1 /\ t \in Seq(S)
      /\ Head(s) = s[1] /\ s[1] \in S
      /\ \A n \in 1 .. Len(t) : n + 1 \in 1 .. Len(s) /\ t[n] = s[n + 1]
  OBVIOUS
<1>2. Elements(s) = Elements(t) \union {Head(s)}
  <2>1. ASSUME NEW x \in Elements(s) PROVE x \in Elements(t) \union {Head(s)}
    <3>1. PICK n \in 1 .. Len(s) : x = s[n]
      BY DEF Elements
    <3>2. CASE n = 1
      BY <3>1, <3>2, <1>1
    <3>3. CASE n # 1
      <4>1. n - 1 \in 1 .. Len(t) /\ t[n - 1] = s[n]
        BY <3>1, <3>3, <1>1
      <4>2. QED
        BY <3>1, <4>1 DEF Elements
    <3>4. QED
      BY <3>2, <3>3
  <2>2. ASSUME NEW x \in Elements(t) PROVE x \in Elements(s)
    BY <1>1 DEF Elements
  <2>3. Head(s) \in Elements(s)
    BY <1>1 DEF Elements
  <2>4. QED
    BY <2>1, <2>2, <2>3
<1>3. ASSUME Distinct(s) PROVE Distinct(t) /\ Head(s) \notin Elements(t)
  <2>1. ASSUME NEW m \in 1 .. Len(t), NEW n \in 1 .. Len(t), t[m] = t[n] PROVE m = n
    <3>1. m + 1 \in 1 .. Len(s) /\ n + 1 \in 1 .. Len(s) /\ s[m + 1] = s[n + 1]
      BY <1>1, <2>1
    <3>2. QED
      BY <3>1, <1>1, <1>3 DEF Distinct
  <2>2. ASSUME NEW n \in 1 .. Len(t), t[n] = Head(s) PROVE FALSE
    <3>1. n + 1 \in 1 .. Len(s) /\ 1 \in 1 .. Len(s) /\ s[n + 1] = s[1]
      BY <1>1, <2>2
    <3>2. n + 1 = 1
      BY <3>1, <1>3 DEF Distinct
    <3>3. QED
      BY <3>2, <1>1
  <2>3. QED
    BY <2>1, <2>2 DEF Distinct, Elements
<1>4. QED
  BY <1>1, <1>2, <1>3

-----------------------------------------------------------------------------
(* The inductive invariant.                                                *)

\* Items the worker holds.
Held == Elements(queue) \union Elements(batch)

\* What the worker holds was accepted and is still to be settled.
HeldIsOpen == \A i \in Held : pc[i] = "queued" /\ ~Settled(i)

\* What was accepted and is not settled is held.
OpenIsHeld == \A i \in Items : pc[i] = "queued" /\ ~Settled(i) => i \in Held

\* It is held once.
HeldOnce == Distinct(queue) /\ Distinct(batch) /\ Elements(queue) \intersect Elements(batch) = {}

\* What the worker never accepted is settled by its caller only.
OwnIsOpen == \A i \in Items : pc[i] \in {"new", "sending", "sync"} => ~Settled(i)

\* The order of a stop: no more sends, then the drain, then an empty worker.
Stopping ==
    /\ stopped <=> stopper \notin {"running", "locking"}
    /\ stopped => \A i \in Items : pc[i] # "sending"
    /\ mode # "serving" => stopped
    /\ mode = "leaving" => queue = <<>>
    /\ worker = "exited" => mode = "leaving" /\ batch = <<>>
    /\ worker = "select" => mode # "leaving" /\ Len(batch) < BatchSize
    /\ worker \in {"batch", "single"} => batch # <<>>
    /\ stopper = "returned" => worker = "exited"

IInv == TypeOK /\ HeldIsOpen /\ OpenIsHeld /\ HeldOnce /\ OwnIsOpen /\ SettledOnce /\ Stopping

LEMMA HeldItems == TypeOK => Held \subseteq Items
<1> SUFFICES ASSUME TypeOK, NEW i \in Held PROVE i \in Items
  OBVIOUS
<1>1. CASE i \in Elements(queue)
  BY <1>1 DEF Elements, TypeOK
<1>2. CASE i \in Elements(batch)
  BY <1>2 DEF Elements, TypeOK
<1>3. QED
  BY <1>1, <1>2 DEF Held

LEMMA HeldUnchanged ==
    ASSUME UNCHANGED <<queue, batch>>
    PROVE  Held' = Held /\ (HeldOnce => HeldOnce')
  BY DEF Held, HeldOnce

LEMMA InitIInv == Init => IInv
<1> SUFFICES ASSUME Init PROVE IInv
  OBVIOUS
<1>1. TypeOK
  <2>1. <<>> \in Seq(Items) /\ Len(<<>>) = 0
    OBVIOUS
  <2>2. attempt \in [Writers -> 1 .. Attempts] /\ stored \in [Items -> Nat]
    BY WorkerConstants DEF Init
  <2>3. Len(queue) <= BufferSize /\ Len(batch) <= BatchSize
    BY <2>1, WorkerConstants DEF Init
  <2>4. QED
    BY <2>1, <2>2, <2>3 DEF Init, TypeOK
<1>2. Held = {} /\ HeldOnce
  BY EmptyElements DEF Init, Held, HeldOnce
<1>3. \A i \in Items : ~Settled(i) /\ pc[i] = "new"
  <2>1. \A i \in Items : stored[i] = 0 /\ i \notin lost /\ pc[i] = "new"
    BY DEF Init
  <2>2. ~(0 > 0)
    OBVIOUS
  <2>3. QED
    BY <2>1, <2>2, Zenon DEF Settled
<1>4. HeldIsOpen /\ OpenIsHeld /\ OwnIsOpen
  BY <1>2, <1>3 DEF HeldIsOpen, OpenIsHeld, OwnIsOpen
<1>5. SettledOnce /\ Stopping
  BY WorkerConstants DEF Init, SettledOnce, Stopping
<1>6. QED
  BY <1>1, <1>2, <1>4, <1>5 DEF IInv

\* What a finished write does to the items it was about.
LEMMA SettleItems ==
    ASSUME TypeOK, NEW items \in SUBSET Items, NEW outcome, Settle(items, outcome)
    PROVE  /\ stored' \in [Items -> Nat] /\ lost' \in SUBSET Items
           /\ \A i \in Items \ items : Settled(i)' <=> Settled(i)
           /\ \A i \in items : Settled(i)'
           /\ SettledOnce /\ (\A i \in items : ~Settled(i)) => SettledOnce'
<1>1. stored' \in [Items -> Nat] /\ lost' \in SUBSET Items
  BY DEF Settle, TypeOK
<1>2. \A i \in Items \ items : Settled(i)' <=> Settled(i)
  BY DEF Settle, TypeOK, Settled
<1>3. \A i \in items : Settled(i)'
  BY DEF Settle, TypeOK, Settled
<1>4. ASSUME SettledOnce, \A i \in items : ~Settled(i) PROVE SettledOnce'
  <2> SUFFICES ASSUME NEW i \in Items PROVE stored'[i] + (IF i \in lost' THEN 1 ELSE 0) <= 1
    BY DEF SettledOnce
  <2>1. CASE i \in items
    <3>1. stored[i] = 0 /\ i \notin lost
      BY <2>1, <1>4 DEF Settled, TypeOK
    <3>2. QED
      BY <2>1, <3>1 DEF Settle
  <2>2. CASE i \notin items
    <3>1. stored'[i] = stored[i] /\ (i \in lost' <=> i \in lost)
      BY <2>2 DEF Settle
    <3>2. QED
      BY <3>1, <1>4 DEF SettledOnce
  <2>3. QED
    BY <2>1, <2>2
<1>5. QED
  BY <1>1, <1>2, <1>3, <1>4

LEMMA AttemptType ==
    ASSUME TypeOK, NEW w \in Writers, NEW outcome, Ends(w, outcome)
    PROVE  attempt' \in [Writers -> 1 .. Attempts]
  BY WorkerConstants DEF TypeOK, Ends

\* Enqueue: checking, sending, and the caller's own write.
LEMMA CheckStep ==
    ASSUME IInv, NEW i \in Items, CheckStopped(i) PROVE IInv'
<1> USE DEF IInv, CheckStopped
<1>1. TypeOK'
  BY DEF TypeOK
<1>2. Held' = Held /\ HeldOnce' /\ Held \subseteq Items
  BY HeldUnchanged, HeldItems
<1>3. /\ \A j \in Items : Settled(j)' <=> Settled(j)
      /\ \A j \in Items : j # i => pc'[j] = pc[j]
      /\ pc[i] = "new" /\ pc'[i] \in {"sync", "sending"}
  BY DEF Settled, TypeOK
<1>4. HeldIsOpen' /\ OpenIsHeld' /\ OwnIsOpen' /\ SettledOnce'
  BY <1>2, <1>3 DEF HeldIsOpen, OpenIsHeld, OwnIsOpen, SettledOnce
<1>5. Stopping'
  BY DEF TypeOK, Stopping
<1>6. QED
  BY <1>1, <1>2, <1>4, <1>5

LEMMA SendStep ==
    ASSUME IInv, NEW i \in Items, Send(i) PROVE IInv'
<1>0. ~stopped /\ ~Settled(i) /\ i \notin Held /\ pc[i] = "sending"
  BY DEF IInv, Send, Stopping, OwnIsOpen, HeldIsOpen, Held
<1>1. CASE Len(queue) < BufferSize /\ queue' = Append(queue, i) /\ pc' = [pc EXCEPT ![i] = "queued"]
           /\ UNCHANGED lost
  <2>1. /\ queue' \in Seq(Items) /\ Len(queue') = Len(queue) + 1
        /\ Elements(queue') = Elements(queue) \union {i}
        /\ Distinct(queue')
    BY <1>0, <1>1, AppendElements DEF IInv, TypeOK, Held, HeldOnce
  <2>2. UNCHANGED <<batch, worker, mode, stopped, stopper, attempt, stored, dropWhenFull>>
    BY DEF Send
  <2>3. TypeOK'
    BY <1>1, <2>1, <2>2, WorkerConstants DEF IInv, TypeOK
  <2>4. Held' = Held \union {i} /\ HeldOnce'
    BY <1>0, <2>1, <2>2 DEF Held, HeldOnce, IInv
  <2>5. \A j \in Items : Settled(j)' <=> Settled(j)
    BY <1>1, <2>2 DEF Settled
  <2>6. HeldIsOpen' /\ OpenIsHeld' /\ OwnIsOpen'
    <3>1. Held \subseteq Items
      BY HeldItems DEF IInv
    <3>2. pc'[i] = "queued" /\ \A j \in Items : j # i => pc'[j] = pc[j]
      BY <1>1 DEF IInv, TypeOK
    <3>3. QED
      BY <1>0, <2>4, <2>5, <3>1, <3>2 DEF IInv, HeldIsOpen, OpenIsHeld, OwnIsOpen
  <2>7. SettledOnce'
    BY <1>1, <2>2 DEF IInv, SettledOnce
  <2>8. Stopping'
    BY <1>0, <1>1, <2>2 DEF IInv, Stopping
  <2>9. QED
    BY <2>3, <2>4, <2>6, <2>7, <2>8 DEF IInv
<1>2. CASE /\ UNCHANGED queue
           /\ \/ pc' = [pc EXCEPT ![i] = "dropped"] /\ lost' = lost \union {i}
              \/ pc' = [pc EXCEPT ![i] = "sync"] /\ UNCHANGED lost
  <2>1. UNCHANGED <<queue, batch, worker, mode, stopped, stopper, attempt, stored, dropWhenFull>>
    BY <1>2 DEF Send
  <2>2. TypeOK'
    BY <1>2, <2>1 DEF IInv, TypeOK
  <2>3. Held' = Held /\ HeldOnce'
    BY <2>1 DEF Held, HeldOnce, IInv
  <2>4. pc'[i] \in {"dropped", "sync"} /\ \A j \in Items : j # i => pc'[j] = pc[j] /\ (Settled(j)' <=> Settled(j))
    BY <1>2, <2>1 DEF IInv, TypeOK, Settled
  <2>5. pc'[i] = "sync" => ~Settled(i)'
    BY <1>0, <1>2, <2>1 DEF Settled, IInv, TypeOK
  <2>6. HeldIsOpen' /\ OpenIsHeld' /\ OwnIsOpen'
    <3>1. Held \subseteq Items
      BY HeldItems DEF IInv
    <3>2. QED
      BY <1>0, <2>3, <2>4, <2>5, <3>1 DEF IInv, HeldIsOpen, OpenIsHeld, OwnIsOpen
  <2>7. SettledOnce'
    <3>1. stored[i] = 0
      BY <1>0 DEF Settled, IInv, TypeOK
    <3>2. QED
      BY <1>2, <2>1, <3>1 DEF IInv, SettledOnce
  <2>8. Stopping'
    BY <1>0, <1>2, <2>1 DEF IInv, Stopping
  <2>9. QED
    BY <2>2, <2>3, <2>6, <2>7, <2>8 DEF IInv
<1>3. QED
  BY <1>1, <1>2 DEF Send

LEMMA RetryStep ==
    ASSUME IInv, NEW w \in Writers, Retry(w) PROVE IInv'
<1> USE DEF IInv, Retry
<1>1. TypeOK'
  BY WorkerConstants DEF TypeOK
<1>2. QED
  BY <1>1 DEF HeldIsOpen, OpenIsHeld, OwnIsOpen, Held, Settled, SettledOnce, HeldOnce, Stopping

LEMMA WriteSyncStep ==
    ASSUME IInv, NEW i \in Items, WriteSync(i) PROVE IInv'
<1>1. PICK outcome \in Outcomes : Ends(i, outcome) /\ Settle({i}, outcome)
  BY DEF WriteSync
<1>2. ~Settled(i) /\ pc[i] = "sync" /\ i \notin Held
  BY DEF WriteSync, IInv, OwnIsOpen, HeldIsOpen
<1>3. /\ stored' \in [Items -> Nat] /\ lost' \in SUBSET Items
      /\ \A j \in Items \ {i} : Settled(j)' <=> Settled(j)
      /\ SettledOnce'
  BY <1>1, <1>2, SettleItems DEF IInv
<1>4. attempt' \in [Writers -> 1 .. Attempts]
  BY <1>1, AttemptType DEF IInv, Writers
<1>5. UNCHANGED <<queue, batch, worker, mode, stopped, stopper, dropWhenFull>>
  BY DEF WriteSync
<1>6. pc'[i] = "done" /\ (\A j \in Items : j # i => pc'[j] = pc[j])
      /\ pc' \in [Items -> {"new", "sending", "queued", "dropped", "sync", "done"}]
  BY DEF WriteSync, IInv, TypeOK
<1>7. TypeOK'
  BY <1>3, <1>4, <1>5, <1>6 DEF IInv, TypeOK
<1>8. Held' = Held /\ HeldOnce' /\ Held \subseteq Items
  BY <1>5, HeldUnchanged, HeldItems DEF IInv
<1>9. HeldIsOpen' /\ OpenIsHeld' /\ OwnIsOpen'
  BY <1>2, <1>3, <1>6, <1>8 DEF IInv, HeldIsOpen, OpenIsHeld, OwnIsOpen
<1>10. Stopping'
  BY <1>5, <1>6 DEF IInv, Stopping
<1>11. QED
  BY <1>3, <1>7, <1>8, <1>9, <1>10 DEF IInv

-----------------------------------------------------------------------------
(* The worker's loop.                                                      *)

\* A received item moves from the queue to the batch.
LEMMA ReceiveStep == ASSUME IInv, Receive PROVE IInv'
<1> DEFINE i == Head(queue)
<1>1. /\ i \in Items /\ queue' \in Seq(Items) /\ Len(queue') = Len(queue) - 1
      /\ Elements(queue) = Elements(queue') \union {i}
      /\ Distinct(queue') /\ i \notin Elements(queue')
      /\ Len(queue) \in Nat
  BY TailElements DEF Receive, IInv, TypeOK, HeldOnce
<1>2. /\ batch' \in Seq(Items) /\ Len(batch') = Len(batch) + 1
      /\ Elements(batch') = Elements(batch) \union {i}
      /\ Distinct(batch')
      /\ Len(batch) \in Nat
  BY <1>1, AppendElements DEF Receive, IInv, TypeOK, HeldOnce
<1>3. UNCHANGED <<mode, stopped, stopper, pc, attempt, stored, lost, dropWhenFull>>
  BY DEF Receive
<1>4. Len(batch) < BatchSize /\ mode # "leaving" /\ worker = "select"
      /\ worker' = IF Len(batch) + 1 >= BatchSize THEN "batch" ELSE "select"
  BY DEF Receive, IInv, Stopping
<1>5. TypeOK'
  BY <1>1, <1>2, <1>3, <1>4, WorkerConstants DEF IInv, TypeOK
<1>6. Held' = Held /\ HeldOnce'
  BY <1>1, <1>2 DEF Held, HeldOnce, IInv
<1>7. HeldIsOpen' /\ OpenIsHeld' /\ OwnIsOpen' /\ SettledOnce'
  BY <1>3, <1>6 DEF IInv, HeldIsOpen, OpenIsHeld, OwnIsOpen, SettledOnce, Settled
<1>8. batch' # <<>>
  BY <1>2
<1>9. Stopping'
  BY <1>2, <1>3, <1>4, <1>8, WorkerConstants DEF IInv, Stopping
<1>10. QED
  BY <1>5, <1>6, <1>7, <1>9 DEF IInv

\* Steps that only move the worker or the stop forward.
LEMMA ControlStep ==
    ASSUME IInv, TickerFlush \/ BeginDrain \/ EndDrain \/ Stop
    PROVE  IInv'
<1>1. UNCHANGED <<queue, batch, pc, attempt, stored, lost, dropWhenFull>>
  BY DEF TickerFlush, BeginDrain, EndDrain, Stop, CallStop, SetStopped, CloseShutdown, StopReturns
<1>2. TypeOK'
  BY <1>1 DEF IInv, TypeOK, TickerFlush, BeginDrain, EndDrain, Stop, CallStop, SetStopped, CloseShutdown, StopReturns
<1>3. HeldIsOpen' /\ OpenIsHeld' /\ OwnIsOpen' /\ SettledOnce' /\ HeldOnce'
  BY <1>1 DEF IInv, HeldIsOpen, OpenIsHeld, OwnIsOpen, SettledOnce, Settled, Held, HeldOnce
<1>4. Stopping'
  BY <1>1 DEF IInv, Stopping, TickerFlush, BeginDrain, EndDrain, Stop, CallStop, SetStopped, CloseShutdown, StopReturns
<1>5. QED
  BY <1>2, <1>3, <1>4 DEF IInv

\* Settling what the worker held, and no longer holding it, keeps the books.
LEMMA BooksStep ==
    ASSUME IInv, NEW items \in SUBSET Held, NEW outcome, Settle(items, outcome),
           UNCHANGED <<queue, pc>>, Elements(batch') = Elements(batch) \ items,
           items \subseteq Elements(batch), Distinct(batch')
    PROVE  /\ HeldIsOpen' /\ OpenIsHeld' /\ HeldOnce' /\ OwnIsOpen' /\ SettledOnce'
           /\ stored' \in [Items -> Nat] /\ lost' \in SUBSET Items
<1>1. items \subseteq Items /\ \A i \in items : ~Settled(i) /\ pc[i] = "queued"
  BY HeldItems DEF IInv, HeldIsOpen
<1>2. /\ stored' \in [Items -> Nat] /\ lost' \in SUBSET Items
      /\ \A i \in Items \ items : Settled(i)' <=> Settled(i)
      /\ \A i \in items : Settled(i)'
      /\ SettledOnce'
  BY <1>1, SettleItems DEF IInv
<1>3. HeldOnce' /\ Held' = Held \ items
  BY DEF IInv, HeldOnce, Held
<1>4. HeldIsOpen' /\ OpenIsHeld' /\ OwnIsOpen'
  BY <1>1, <1>2, <1>3, HeldItems DEF IInv, HeldIsOpen, OpenIsHeld, OwnIsOpen
<1>5. QED
  BY <1>2, <1>3, <1>4

LEMMA WriteBatchStep == ASSUME IInv, WriteBatch PROVE IInv'
<1>1. UNCHANGED <<queue, mode, stopped, stopper, pc, dropWhenFull>> /\ worker = "batch"
  BY DEF WriteBatch
<1>2. \E outcome : Ends(Loop, outcome)
  BY DEF WriteBatch
<1>3. attempt' \in [Writers -> 1 .. Attempts]
  BY <1>2, AttemptType DEF IInv, Writers
<1>4. ASSUME NEW outcome, Settle(Elements(batch), outcome), batch' = <<>>, worker' = Continue
      PROVE  IInv'
  <2>1. Elements(batch') = {} /\ Distinct(batch') /\ batch' \in Seq(Items) /\ Len(batch') = 0
    BY <1>4, EmptyElements
  <2>2. Elements(batch) \in SUBSET Held /\ Elements(batch') = Elements(batch) \ Elements(batch)
    BY <2>1 DEF Held
  <2>3. /\ HeldIsOpen' /\ OpenIsHeld' /\ HeldOnce' /\ OwnIsOpen' /\ SettledOnce'
        /\ stored' \in [Items -> Nat] /\ lost' \in SUBSET Items
    BY <1>1, <1>4, <2>1, <2>2, BooksStep
  <2>4. TypeOK'
    BY <1>1, <1>3, <1>4, <2>1, <2>3, WorkerConstants DEF IInv, TypeOK, Continue
  <2>5. Stopping'
    BY <1>1, <1>4, <2>1, WorkerConstants DEF IInv, TypeOK, Stopping, Continue
  <2>6. QED
    BY <2>3, <2>4, <2>5 DEF IInv
<1>5. ASSUME worker' = "single", UNCHANGED <<batch, stored, lost>> PROVE IInv'
  <2>1. TypeOK'
    BY <1>1, <1>3, <1>5 DEF IInv, TypeOK
  <2>2. HeldIsOpen' /\ OpenIsHeld' /\ OwnIsOpen' /\ SettledOnce' /\ HeldOnce'
    BY <1>1, <1>5 DEF IInv, HeldIsOpen, OpenIsHeld, OwnIsOpen, SettledOnce, Settled, Held, HeldOnce
  <2>3. Stopping'
    BY <1>1, <1>5 DEF IInv, Stopping
  <2>4. QED
    BY <2>1, <2>2, <2>3 DEF IInv
<1>6. QED
  BY <1>4, <1>5 DEF WriteBatch

LEMMA WriteSingleStep == ASSUME IInv, WriteSingle PROVE IInv'
<1> DEFINE i == Head(batch)
<1>1. UNCHANGED <<queue, mode, stopped, stopper, pc, dropWhenFull>> /\ worker = "single" /\ batch' = Tail(batch)
      /\ worker' = IF Len(batch) = 1 THEN Continue ELSE "single"
  BY DEF WriteSingle
<1>2. PICK outcome : Ends(Loop, outcome) /\ Settle({i}, outcome)
  BY DEF WriteSingle
<1>3. attempt' \in [Writers -> 1 .. Attempts]
  BY <1>2, AttemptType DEF IInv, Writers
<1>4. batch # <<>> /\ batch \in Seq(Items) /\ Len(batch) \in Nat
  BY <1>1 DEF IInv, Stopping, TypeOK
<1>5. /\ i \in Items /\ batch' \in Seq(Items) /\ Len(batch') = Len(batch) - 1
      /\ Elements(batch) = Elements(batch') \union {i}
      /\ Distinct(batch') /\ i \notin Elements(batch')
      /\ Len(batch) > 0
  BY <1>1, <1>4, TailElements DEF IInv, HeldOnce
<1>6. {i} \in SUBSET Held /\ {i} \subseteq Elements(batch) /\ Elements(batch') = Elements(batch) \ {i}
  BY <1>5 DEF Held
<1>7. /\ HeldIsOpen' /\ OpenIsHeld' /\ HeldOnce' /\ OwnIsOpen' /\ SettledOnce'
      /\ stored' \in [Items -> Nat] /\ lost' \in SUBSET Items
  BY <1>1, <1>2, <1>5, <1>6, BooksStep
<1>8. TypeOK'
  BY <1>1, <1>3, <1>4, <1>5, <1>7, WorkerConstants DEF IInv, TypeOK, Continue
<1>9. Len(batch) = 1 => batch' = <<>>
  BY <1>5
<1>10. Len(batch) # 1 => batch' # <<>>
  BY <1>4, <1>5
<1>11. Len(batch') < BatchSize
  BY <1>4, <1>5, WorkerConstants DEF IInv, TypeOK
<1>12. /\ stopped' = stopped /\ stopper' = stopper /\ pc' = pc /\ mode' = mode /\ queue' = queue
       /\ worker = "single" /\ stopper # "returned"
  BY <1>1 DEF IInv, Stopping
<1>13. ASSUME Len(batch) = 1 PROVE Stopping'
  <2>1. worker' = Continue /\ batch' = <<>>
    BY <1>1, <1>9, <1>13
  <2>2. QED
    BY <2>1, <1>11, <1>12 DEF IInv, Stopping, Continue
<1>14. ASSUME Len(batch) # 1 PROVE Stopping'
  <2>1. worker' = "single" /\ batch' # <<>>
    BY <1>1, <1>10, <1>14
  <2>2. QED
    BY <2>1, <1>12 DEF IInv, Stopping
<1>15. QED
  <2>1. Stopping'
    BY <1>12, <1>13, <1>14 DEF IInv
  <2>2. QED
    BY <1>7, <1>8, <2>1 DEF IInv

LEMMA StepIInv == IInv /\ [Next]_vars => IInv'
<1> SUFFICES ASSUME IInv, [Next]_vars PROVE IInv'
  OBVIOUS
<1>1. ASSUME NEW i \in Items, Enqueue(i) PROVE IInv'
  BY <1>1, CheckStep, SendStep, RetryStep, WriteSyncStep DEF Enqueue, Writers
<1>2. CASE Run
  BY <1>2, ReceiveStep, ControlStep, RetryStep, WriteBatchStep, WriteSingleStep DEF Run, Writers
<1>3. CASE Stop
  BY <1>3, ControlStep
<1>4. CASE UNCHANGED vars
  BY <1>4 DEF vars, IInv, TypeOK, HeldIsOpen, OpenIsHeld, OwnIsOpen, SettledOnce, Settled, Held,
              HeldOnce, Stopping
<1>5. QED
  BY <1>1, <1>2, <1>3, <1>4 DEF Next

LEMMA Invariant == Spec => []IInv
  BY InitIInv, StepIInv, PTL DEF Spec

\* The queue and the batch stay within their bounds.
THEOREM TypeCorrect == Spec => []TypeOK
<1>1. IInv => TypeOK
  BY DEF IInv
<1>2. QED
  BY <1>1, Invariant, PTL

\* No item is stored twice, nor stored after it was given up.
THEOREM EachItemOnce == Spec => []SettledOnce
<1>1. IInv => SettledOnce
  BY DEF IInv
<1>2. QED
  BY <1>1, Invariant, PTL

LEMMA ExitedIsEmpty == IInv /\ worker = "exited" => StopDrains /\ Held = {}
<1> SUFFICES ASSUME IInv, worker = "exited" PROVE StopDrains /\ Held = {}
  OBVIOUS
<1>1. queue = <<>> /\ batch = <<>>
  BY DEF IInv, Stopping
<1>2. Held = {}
  BY <1>1, EmptyElements DEF Held
<1>3. QED
  BY <1>2 DEF IInv, OpenIsHeld, StopDrains

\* A stop waits for everything that was accepted, whatever send it races with.
THEOREM NothingLeftBehind == Spec => []StopDrains
<1>1. IInv => StopDrains
  BY ExitedIsEmpty DEF IInv, Stopping, StopDrains
<1>2. QED
  BY <1>1, Invariant, PTL

-----------------------------------------------------------------------------
(* The worker implements Delivery.                                         *)

\* The abstract fate of one item.
LEMMA FateOf ==
    \A i \in Items : Fate[i] = IF stored[i] > 0 THEN "stored"
                              ELSE IF i \in lost THEN "lost"
                              ELSE IF pc[i] = "queued" THEN "accepted" ELSE "new"
  BY DEF Fate

LEMMA FateSame ==
    ASSUME UNCHANGED <<stored, lost>>, \A i \in Items : pc'[i] = "queued" <=> pc[i] = "queued"
    PROVE  Fate' = Fate
  BY DEF Fate

\* An unsettled item is open in the abstract, too.
LEMMA OpenFate ==
    ASSUME TypeOK, NEW i \in Items, ~Settled(i) PROVE Fate[i] \in {"new", "accepted"}
  BY FateOf DEF Settled

\* A write that ends is one abstract settlement.
LEMMA SettleMaps ==
    ASSUME TypeOK, NEW items \in SUBSET Items, NEW outcome, Settle(items, outcome),
           \A i \in items : ~Settled(i), UNCHANGED stopper,
           \A i \in Items \ items : pc'[i] = "queued" <=> pc[i] = "queued"
    PROVE  Promise!Next
<1> DEFINE result == IF outcome = "ok" THEN "stored" ELSE "lost"
<1>1. \A i \in items : stored[i] = 0 /\ i \notin lost
  BY DEF Settled, TypeOK
<1>2. \A i \in items : Fate'[i] = result
  <2> SUFFICES ASSUME NEW i \in items PROVE Fate'[i] = result
    OBVIOUS
  <2>1. Fate'[i] = IF stored'[i] > 0 THEN "stored"
                   ELSE IF i \in lost' THEN "lost"
                   ELSE IF pc'[i] = "queued" THEN "accepted" ELSE "new"
    BY DEF Fate
  <2>2. CASE outcome = "ok"
    BY <1>1, <2>1, <2>2 DEF Settle
  <2>3. CASE outcome # "ok"
    BY <1>1, <2>1, <2>3 DEF Settle
  <2>4. QED
    BY <2>2, <2>3
<1>3. \A i \in Items \ items : Fate'[i] = Fate[i]
  <2> SUFFICES ASSUME NEW i \in Items \ items PROVE Fate'[i] = Fate[i]
    OBVIOUS
  <2>1. stored'[i] = stored[i] /\ (i \in lost' <=> i \in lost)
    BY DEF Settle
  <2>2. QED
    BY <2>1 DEF Fate
<1>4. Fate' = [i \in Items |-> IF i \in items THEN result ELSE Fate[i]]
  BY <1>2, <1>3 DEF Fate
<1>5. \A i \in items : Fate[i] \in {"new", "accepted"}
  BY OpenFate
<1>6. Promise!Settle(items, result)
  BY <1>4, <1>5 DEF Promise!Settle
<1>7. QED
  BY <1>6 DEF Promise!Next

LEMMA EnqueueMaps ==
    ASSUME IInv, NEW i \in Items, Enqueue(i) PROVE [Promise!Next]_(Promise!vars)
<1>1. CASE CheckStopped(i)
  <2>1. Fate' = Fate
    BY <1>1, FateSame DEF CheckStopped, IInv, TypeOK
  <2>2. QED
    BY <1>1, <2>1 DEF CheckStopped, Promise!vars
<1>2. CASE Send(i)
  <2>0. pc[i] = "sending" /\ ~Settled(i) /\ stopper # "returned" /\ UNCHANGED <<stored, stopper>>
    BY <1>2 DEF Send, IInv, OwnIsOpen, Stopping
  <2>1. CASE pc' = [pc EXCEPT ![i] = "queued"] /\ UNCHANGED lost
    <3>1. Fate' = [Fate EXCEPT ![i] = "accepted"] /\ Fate[i] = "new"
      <4>1. \A j \in Items : j # i => Fate'[j] = Fate[j]
        BY <2>0, <2>1 DEF Fate, IInv, TypeOK
      <4>2. Fate[i] = "new" /\ Fate'[i] = "accepted"
        BY <2>0, <2>1 DEF Fate, IInv, TypeOK, Settled
      <4>3. QED
        BY <4>1, <4>2 DEF Fate
    <3>2. Promise!Accept(i)
      BY <2>0, <3>1 DEF Promise!Accept
    <3>3. QED
      BY <3>2 DEF Promise!Next
  <2>2. CASE pc' = [pc EXCEPT ![i] = "dropped"] /\ lost' = lost \union {i}
    <3>1. Settle({i}, "error")
      <4>1. stored' = [j \in Items |-> stored[j]]
        BY <2>0 DEF IInv, TypeOK
      <4>2. QED
        BY <2>2, <4>1 DEF Settle
    <3>2. \A j \in Items \ {i} : pc'[j] = pc[j]
      BY <2>2 DEF IInv, TypeOK
    <3>3. Promise!Next
      <4>1. {i} \in SUBSET Items /\ (\A j \in {i} : ~Settled(j)) /\ UNCHANGED stopper
        BY <2>0
      <4>2. \A j \in Items \ {i} : pc'[j] = "queued" <=> pc[j] = "queued"
        BY <3>2
      <4>3. QED
        BY <3>1, <4>1, <4>2, SettleMaps DEF IInv
    <3>4. QED
      BY <3>3
  <2>3. CASE pc' = [pc EXCEPT ![i] = "sync"] /\ UNCHANGED lost
    <3>1. Fate' = Fate
      BY <2>0, <2>3, FateSame DEF IInv, TypeOK
    <3>2. QED
      BY <2>0, <3>1 DEF Promise!vars
  <2>4. QED
    BY <1>2, <2>1, <2>2, <2>3 DEF Send
<1>3. CASE Retry(i)
  BY <1>3, FateSame DEF Retry, Promise!vars
<1>4. CASE WriteSync(i)
  <2>1. PICK outcome : Settle({i}, outcome)
    BY <1>4 DEF WriteSync
  <2>2. ~Settled(i) /\ UNCHANGED stopper /\ \A j \in Items \ {i} : pc'[j] = pc[j]
    BY <1>4 DEF WriteSync, IInv, OwnIsOpen, TypeOK
  <2>3. Promise!Next
    BY <2>1, <2>2, SettleMaps DEF IInv
  <2>4. QED
    BY <2>3
<1>5. QED
  BY <1>1, <1>2, <1>3, <1>4 DEF Enqueue

LEMMA RunMaps == ASSUME IInv, Run PROVE [Promise!Next]_(Promise!vars)
<1>1. CASE Receive \/ TickerFlush \/ BeginDrain \/ EndDrain \/ Retry(Loop)
  <2>1. UNCHANGED <<stored, lost, pc, stopper>>
    BY <1>1 DEF Receive, TickerFlush, BeginDrain, EndDrain, Retry
  <2>2. QED
    BY <2>1, FateSame DEF Promise!vars
<1>2. CASE WriteBatch
  <2>1. UNCHANGED <<pc, stopper>>
    BY <1>2 DEF WriteBatch
  <2>2. CASE UNCHANGED <<stored, lost>>
    BY <2>1, <2>2, FateSame DEF Promise!vars
  <2>3. ASSUME NEW outcome, Settle(Elements(batch), outcome) PROVE Promise!Next
    <3>1. Elements(batch) \in SUBSET Items /\ \A i \in Elements(batch) : ~Settled(i)
      BY HeldItems DEF IInv, HeldIsOpen, Held
    <3>2. QED
      BY <2>1, <2>3, <3>1, SettleMaps DEF IInv
  <2>4. QED
    BY <1>2, <2>2, <2>3 DEF WriteBatch
<1>3. CASE WriteSingle
  <2>1. UNCHANGED <<pc, stopper>>
    BY <1>3 DEF WriteSingle
  <2>2. PICK outcome : Settle({Head(batch)}, outcome)
    BY <1>3 DEF WriteSingle
  <2>3. Head(batch) \in Items /\ ~Settled(Head(batch))
    <3>1. batch # <<>> /\ batch \in Seq(Items)
      BY <1>3 DEF WriteSingle, IInv, Stopping, TypeOK
    <3>2. Head(batch) \in Elements(batch) /\ Head(batch) \in Items
      BY <3>1, TailElements
    <3>3. QED
      BY <3>2 DEF IInv, HeldIsOpen, Held
  <2>4. Promise!Next
    BY <2>1, <2>2, <2>3, SettleMaps DEF IInv
  <2>5. QED
    BY <2>4
<1>4. QED
  BY <1>1, <1>2, <1>3 DEF Run

LEMMA StopMaps == ASSUME IInv, Stop PROVE [Promise!Next]_(Promise!vars)
<1>1. UNCHANGED <<stored, lost, pc>>
  BY DEF Stop, CallStop, SetStopped, CloseShutdown, StopReturns
<1>2. Fate' = Fate
  BY <1>1, FateSame
<1>3. CASE CallStop \/ SetStopped \/ CloseShutdown
  BY <1>2, <1>3 DEF CallStop, SetStopped, CloseShutdown, Promise!vars
<1>4. CASE StopReturns
  <2>1. Held = {} /\ stopper' = "returned"
    BY <1>4, ExitedIsEmpty DEF StopReturns
  <2>2. \A i \in Items : Fate[i] # "accepted"
    BY <2>1, FateOf DEF IInv, OpenIsHeld, Settled
  <2>3. Promise!Close
    BY <1>2, <2>1, <2>2 DEF Promise!Close
  <2>4. QED
    BY <2>3 DEF Promise!Next
<1>5. QED
  BY <1>3, <1>4 DEF Stop

\* The worker delivers what Delivery promises, for any number of items.
THEOREM WorkerDelivers == Spec => ImplementsDelivery
<1>1. Init => Promise!Init
  <2> SUFFICES ASSUME Init PROVE Promise!Init
    OBVIOUS
  <2>1. \A i \in Items : ~Settled(i) /\ pc[i] = "new"
    BY InitIInv DEF IInv, OwnIsOpen, Init
  <2>2. \A i \in Items : Fate[i] = "new"
    BY <2>1, FateOf DEF Settled
  <2>3. Fate = [i \in Items |-> "new"]
    BY <2>2 DEF Fate
  <2>4. QED
    BY <2>3 DEF Promise!Init, Init
<1>2. IInv /\ [Next]_vars => [Promise!Next]_(Promise!vars)
  <2>1. CASE UNCHANGED vars
    BY <2>1, FateSame DEF vars, Promise!vars
  <2>2. QED
    BY <2>1, EnqueueMaps, RunMaps, StopMaps DEF Next
<1>3. QED
  BY <1>1, <1>2, Invariant, PTL DEF Spec, ImplementsDelivery, Promise!Spec
=============================================================================
