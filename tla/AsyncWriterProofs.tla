-------------------------- MODULE AsyncWriterProofs --------------------------
(***************************************************************************)
(* Proofs about AsyncWriter: its types, where every accepted byte is on    *)
(* its way to the file, and that the writer implements LogStream.          *)
(***************************************************************************)
EXTENDS AsyncWriter, SequenceTheorems, TLAPS

\* s stands in all just after its first p elements.
Follows(s, p, all) ==
    /\ p + Len(s) <= Len(all)
    /\ \A n \in 1 .. Len(s) : all[p + n] = s[n]

\* Where run() and Close are: what an exited worker and a closed writer have
\* left behind.  writeErr and bufio's own error are set together.
Stages ==
    /\ sticky = writeErr
    /\ worker # "write" => held = <<>>
    /\ draining => Closed
    /\ Closed => \A r \in Records : pc[r] # "sending"
    /\ worker = "exited" => draining /\ queue = <<>> /\ (sticky \/ buffer = <<>>)
    /\ closer = "returned" => worker = "exited"

\* at[i] is how many accepted bytes precede the records queued after the
\* i-th: file, buffer and held make up the first at[0], and each queued
\* record the stretch from one place to the next.
Places(at) ==
    /\ at[0] = Len(file) + Len(buffer) + Len(held)
    /\ at[Len(queue)] = Len(sent)
    /\ \A i \in 1 .. Len(queue) :
          /\ at[i] = at[i - 1] + Size[queue[i]]
          /\ Follows(Bytes(queue[i]), at[i - 1], sent)

\* Nothing accepted is lost, doubled or out of order before the file fails;
\* and what the file holds is always the beginning of what was accepted.
InOrder ==
    /\ Follows(file, 0, sent)
    /\ ~sticky =>
          /\ Follows(buffer, Len(file), sent)
          /\ Follows(held, Len(file) + Len(buffer), sent)
          /\ \E at \in [0 .. Len(queue) -> 0 .. Len(sent)] : Places(at)

IInv == TypeOK /\ Stages /\ InOrder

-----------------------------------------------------------------------------
(* Bytes and sequences.                                                    *)

\* A record's bytes are bytes, as many as its size, numbered from one.
LEMMA BytesOfARecord ==
    ASSUME NEW r \in Records
    PROVE /\ Bytes(r) \in Seq(Byte)
          /\ Len(Bytes(r)) = Size[r]
          /\ \A n \in 1 .. Size[r] : Bytes(r)[n] = <<r, n>>
          /\ Size[r] \in Nat \ {0}
<1>1. Size[r] \in Nat \ {0}
    BY WriterConstants
<1>2. \A n \in 1 .. Size[r] : <<r, n>> \in Byte
    BY DEF Byte
<1>. QED
    BY <1>1, <1>2 DEF Bytes

\* An empty buffer is a buffer, and no longer than its capacity.
LEMMA EmptyBuffer == <<>> \in Seq(Byte) /\ Len(<<>>) = 0 /\ 0 <= BufferSize /\ 0 <= QueueSize
<1>1. <<>> \in Seq(Byte) /\ Len(<<>>) = 0
    BY EmptySeq
<1>2. BufferSize \in Nat /\ QueueSize \in Nat
    BY WriterConstants
<1>. QED
    BY <1>1, <1>2

\* A prefix of a sequence, and what is left after it.
LEMMA PrefixAndRest ==
    ASSUME NEW S, NEW s \in Seq(S), NEW n \in 0 .. Len(s)
    PROVE /\ Prefix(s, n) \in Seq(S) /\ Len(Prefix(s, n)) = n
          /\ \A i \in 1 .. n : Prefix(s, n)[i] = s[i]
          /\ Rest(s, n) \in Seq(S) /\ Len(Rest(s, n)) = Len(s) - n
          /\ \A i \in 1 .. Len(s) - n : Rest(s, n)[i] = s[n + i]
<1>1. \A i \in 1 .. n : s[i] \in S
    BY ElementOfSeq
<1>2. \A i \in n + 1 .. Len(s) : s[i] \in S
    BY ElementOfSeq
<1>3. Prefix(s, n) \in Seq(S) /\ Len(Prefix(s, n)) = n
        /\ \A i \in 1 .. n : Prefix(s, n)[i] = s[i]
    BY <1>1, SubSeqProperties DEF Prefix
<1>4. Rest(s, n) \in Seq(S) /\ Len(Rest(s, n)) = Len(s) - n
        /\ \A i \in 1 .. Len(s) - n : Rest(s, n)[i] = s[n + i]
    BY <1>2, SubSeqProperties DEF Rest
<1>. QED
    BY <1>3, <1>4

\* What stood in a sequence still does when more is appended to it.
LEMMA FollowsLonger ==
    ASSUME NEW S, NEW all \in Seq(S), NEW more \in Seq(S), NEW s \in Seq(S),
           NEW p \in Nat, Follows(s, p, all)
    PROVE Follows(s, p, all \o more)
<1>1. Len(all \o more) = Len(all) + Len(more)
        /\ \A i \in 1 .. Len(all) : (all \o more)[i] = all[i]
    BY ConcatProperties
<1>. QED
    BY <1>1 DEF Follows

\* The whole of the second part of a concatenation follows the first.
LEMMA AppendedFollows ==
    ASSUME NEW S, NEW all \in Seq(S), NEW more \in Seq(S)
    PROVE Follows(more, Len(all), all \o more)
BY ConcatProperties DEF Follows

\* Two stretches, one after the other, are a stretch; so is a beginning of one.
LEMMA FollowsConcat ==
    ASSUME NEW S, NEW all \in Seq(S), NEW s \in Seq(S), NEW t \in Seq(S),
           NEW p \in Nat, Follows(s, p, all), Follows(t, p + Len(s), all)
    PROVE Follows(s \o t, p, all)
<1>1. /\ Len(s \o t) = Len(s) + Len(t)
      /\ \A i \in 1 .. Len(s) + Len(t) : (s \o t)[i] = IF i <= Len(s) THEN s[i] ELSE t[i - Len(s)]
    BY ConcatProperties
<1>2. Len(s) \in Nat /\ Len(t) \in Nat /\ Len(all) \in Nat
    OBVIOUS
<1>3. p + Len(s \o t) <= Len(all)
    BY <1>1, <1>2 DEF Follows
<1>4. ASSUME NEW i \in 1 .. Len(s) + Len(t)
      PROVE all[p + i] = (s \o t)[i]
    <2>1. CASE i <= Len(s)
        BY <2>1, <1>1, <1>2 DEF Follows
    <2>2. CASE i > Len(s)
        <3>1. i - Len(s) \in 1 .. Len(t)
            BY <2>2, <1>2
        <3>2. all[(p + Len(s)) + (i - Len(s))] = t[i - Len(s)]
            BY <3>1 DEF Follows
        <3>3. (p + Len(s)) + (i - Len(s)) = p + i
            BY <1>2
        <3>. QED
            BY <3>2, <3>3, <2>2, <1>1, <1>2
    <2>. QED
        BY <2>1, <2>2, <1>2
<1>. QED
    BY <1>1, <1>3, <1>4 DEF Follows

LEMMA FollowsPrefix ==
    ASSUME NEW S, NEW all \in Seq(S), NEW s \in Seq(S), NEW p \in Nat,
           NEW n \in 0 .. Len(s), Follows(s, p, all)
    PROVE /\ Follows(Prefix(s, n), p, all)
          /\ Follows(Rest(s, n), p + n, all)
<1>1. /\ Len(Prefix(s, n)) = n /\ Len(Rest(s, n)) = Len(s) - n
      /\ \A i \in 1 .. n : Prefix(s, n)[i] = s[i]
      /\ \A i \in 1 .. Len(s) - n : Rest(s, n)[i] = s[n + i]
    BY PrefixAndRest
<1>2. Len(s) \in Nat /\ Len(all) \in Nat /\ n \in Nat
    OBVIOUS
<1>3. Follows(Prefix(s, n), p, all)
    BY <1>1, <1>2 DEF Follows
<1>4. ASSUME NEW i \in 1 .. Len(s) - n
      PROVE all[(p + n) + i] = Rest(s, n)[i]
    <2>1. n + i \in 1 .. Len(s)
        BY <1>2
    <2>2. all[p + (n + i)] = s[n + i]
        BY <2>1 DEF Follows
    <2>3. p + (n + i) = (p + n) + i
        BY <1>2
    <2>. QED
        BY <2>2, <2>3, <1>1
<1>5. (p + n) + (Len(s) - n) <= Len(all)
    BY <1>2 DEF Follows
<1>. QED
    BY <1>1, <1>3, <1>4, <1>5 DEF Follows

\* What stands at the beginning is a beginning.
LEMMA FollowsIsSubSeq ==
    ASSUME NEW S, NEW all \in Seq(S), NEW s \in Seq(S), Follows(s, 0, all)
    PROVE s = SubSeq(all, 1, Len(s))
<1>1. \A i \in 1 .. Len(s) : all[i] \in S
    BY ElementOfSeq DEF Follows
<1>2. /\ SubSeq(all, 1, Len(s)) \in Seq(S)
      /\ Len(SubSeq(all, 1, Len(s))) = Len(s)
      /\ \A i \in 1 .. Len(s) : SubSeq(all, 1, Len(s))[i] = all[i]
    BY <1>1, SubSeqProperties
<1>. QED
    BY <1>2, SeqEqual DEF Follows

-----------------------------------------------------------------------------
(* Types.                                                                  *)

\* A call of the target appends its data, or a part of it and an error.
LEMMA PutOutcome ==
    ASSUME NEW data \in Seq(Byte), Put(data), TypeOK, ~sticky, ~writeErr
    PROVE /\ file' \in Seq(Byte)
          /\ sticky' \in BOOLEAN /\ writeErr' \in BOOLEAN /\ sticky' = writeErr'
          /\ \E n \in 0 .. Len(data) :
                /\ file' = file \o Prefix(data, n)
                /\ ~sticky' => n = Len(data)
<1>1. CASE file' = file \o data /\ UNCHANGED <<sticky, writeErr>>
    <2>1. Prefix(data, Len(data)) = data
        BY SubSeqFull DEF Prefix
    <2>2. file' = file \o Prefix(data, Len(data)) /\ Len(data) \in 0 .. Len(data)
        BY <1>1, <2>1
    <2>3. file' \in Seq(Byte)
        BY <1>1, ConcatProperties DEF TypeOK
    <2>. QED
        BY <1>1, <2>2, <2>3 DEF TypeOK
<1>2. CASE /\ \E n \in 0 .. Len(data) : file' = file \o Prefix(data, n)
           /\ sticky' = TRUE
           /\ writeErr' = TRUE
    <2>1. PICK n \in 0 .. Len(data) : file' = file \o Prefix(data, n)
        BY <1>2
    <2>2. Prefix(data, n) \in Seq(Byte)
        BY PrefixAndRest
    <2>3. file' \in Seq(Byte)
        BY <2>1, <2>2, ConcatProperties DEF TypeOK
    <2>. QED
        BY <1>2, <2>1, <2>3
<1>. QED
    BY <1>1, <1>2 DEF Put

\* The same of bufio's Flush, which may find nothing to write.
LEMMA FlushOutcome ==
    ASSUME Flush, TypeOK, sticky = writeErr
    PROVE /\ file' \in Seq(Byte)
          /\ buffer' \in Seq(Byte) /\ Len(buffer') <= BufferSize
          /\ sticky' \in BOOLEAN /\ writeErr' \in BOOLEAN /\ sticky' = writeErr'
          /\ ~sticky' => buffer' = <<>>
          /\ \/ UNCHANGED <<file, buffer, sticky, writeErr>>
             \/ ~sticky /\ Put(buffer)
<1>1. CASE sticky \/ buffer = <<>>
    BY <1>1 DEF Flush, TypeOK
<1>2. CASE ~(sticky \/ buffer = <<>>)
    <2>1. Put(buffer) /\ buffer' = Emptied
        BY <1>2 DEF Flush
    <2>2. /\ file' \in Seq(Byte)
          /\ sticky' \in BOOLEAN /\ writeErr' \in BOOLEAN /\ sticky' = writeErr'
        BY <1>2, <2>1, PutOutcome DEF TypeOK
    <2>3. buffer' \in {buffer, <<>>} /\ (~sticky' => buffer' = <<>>)
        BY <2>1 DEF Emptied
    <2>4. buffer' \in Seq(Byte) /\ Len(buffer') <= BufferSize
        BY <2>3, EmptyBuffer DEF TypeOK
    <2>. QED
        BY <1>2, <2>1, <2>2, <2>3, <2>4
<1>. QED
    BY <1>1, <1>2

LEMMA TypeInit == Init => TypeOK
BY EmptyBuffer, EmptySeq DEF Init, TypeOK

\* Every step keeps the types, and keeps bufio's error and the one Close
\* reports equal: Flush's types depend on that.
LEMMA TypeStep ==
    ASSUME TypeOK, sticky = writeErr, [Next]_vars
    PROVE TypeOK' /\ (sticky = writeErr)'
<1>. USE DEF TypeOK
<1>1. ASSUME NEW r \in Records, BeginWrite(r)
      PROVE TypeOK' /\ (sticky = writeErr)'
    BY <1>1 DEF BeginWrite
<1>2. ASSUME NEW r \in Records, Send(r)
      PROVE TypeOK' /\ (sticky = writeErr)'
    <2>1. queue' \in Seq(Records) /\ Len(queue') = Len(queue) + 1
        BY <1>2, AppendProperties DEF Send
    <2>2. sent' \in Seq(Byte)
        BY <1>2, BytesOfARecord, ConcatProperties DEF Send
    <2>. QED
        BY <1>2, <2>1, <2>2, WriterConstants DEF Send
<1>3. CASE Receive
    <2>1. Head(queue) \in Records /\ queue' \in Seq(Records) /\ Len(queue') = Len(queue) - 1
        BY <1>3, HeadTailProperties DEF Receive
    <2>2. held' \in Seq(Byte)
        BY <1>3, <2>1, BytesOfARecord DEF Receive
    <2>. QED
        BY <1>3, <2>1, <2>2, WriterConstants DEF Receive
<1>4. CASE WriteThrough
    <2>1. /\ file' \in Seq(Byte)
          /\ sticky' \in BOOLEAN /\ writeErr' \in BOOLEAN /\ sticky' = writeErr'
        BY <1>4, PutOutcome DEF WriteThrough
    <2>. QED
        BY <1>4, <2>1 DEF WriteThrough
<1>5. CASE FillAndFlush
    <2>1. Available \in 0 .. Len(held)
        BY <1>5, WriterConstants DEF FillAndFlush, Available
    <2>2. Prefix(held, Available) \in Seq(Byte) /\ Rest(held, Available) \in Seq(Byte)
        BY <2>1, PrefixAndRest
    <2>3. buffer \o Prefix(held, Available) \in Seq(Byte)
        BY <2>2, ConcatProperties
    <2>4. /\ file' \in Seq(Byte)
          /\ sticky' \in BOOLEAN /\ writeErr' \in BOOLEAN /\ sticky' = writeErr'
        BY <1>5, <2>3, PutOutcome DEF FillAndFlush
    <2>5. buffer' \in {buffer, <<>>} /\ held' \in {<<>>, Rest(held, Available)}
             /\ worker' \in {"select", "write"}
        BY <1>5 DEF FillAndFlush, Emptied
    <2>6. buffer' \in Seq(Byte) /\ Len(buffer') <= BufferSize
        BY <2>5, EmptyBuffer
    <2>7. held' \in Seq(Byte)
        BY <2>5, <2>2, EmptyBuffer
    <2>. QED
        BY <1>5, <2>4, <2>5, <2>6, <2>7 DEF FillAndFlush
<1>6. CASE CopyIn
    <2>1. buffer' \in Seq(Byte) /\ Len(buffer') = Len(buffer) + Len(held)
        BY <1>6, ConcatProperties DEF CopyIn
    <2>2. Len(buffer') <= BufferSize
        BY <1>6, <2>1, WriterConstants DEF CopyIn, Available
    <2>. QED
        BY <1>6, <2>1, <2>2 DEF CopyIn
<1>7. CASE Refuse
    BY <1>7 DEF Refuse
<1>8. CASE Tick
    <2>1. Flush
        BY <1>8 DEF Tick
    <2>. QED
        BY <1>8, <2>1, FlushOutcome DEF Tick
<1>9. CASE BeginDrain
    BY <1>9 DEF BeginDrain
<1>10. CASE EndDrain
    <2>1. Flush
        BY <1>10 DEF EndDrain
    <2>. QED
        BY <1>10, <2>1, FlushOutcome DEF EndDrain
<1>11. CASE Close
    BY <1>11 DEF Close, AnnounceLock, SetClosed, CloseReturns
<1>12. CASE UNCHANGED vars
    BY <1>12 DEF vars
<1>. QED
    BY <1>1, <1>2, <1>3, <1>4, <1>5, <1>6, <1>7, <1>8, <1>9, <1>10, <1>11, <1>12
    DEF Next, Write, Run

\* Every reachable state is well typed: in particular bufio never holds more
\* than its buffer, nor the channel more than its capacity, whatever the
\* sizes of the records (shared/logging/async_writer.go, run and bufio).
THEOREM TypeCorrect == Spec => []TypeOK
<1>1. Init => TypeOK /\ sticky = writeErr
    BY TypeInit DEF Init
<1>2. TypeOK /\ sticky = writeErr /\ [Next]_vars => (TypeOK /\ sticky = writeErr)'
    BY TypeStep
<1>. QED
    BY <1>1, <1>2, PTL DEF Spec

-----------------------------------------------------------------------------
(* Stages.                                                                 *)

LEMMA StagesInit == Init => Stages
BY DEF Init, Stages, Closed

LEMMA StagesStep ==
    ASSUME TypeOK, Stages, [Next]_vars
    PROVE Stages'
<1>. USE DEF Stages, Closed
<1>0. (sticky = writeErr)'
    BY TypeStep
<1>1. ASSUME NEW r \in Records, BeginWrite(r)
      PROVE Stages'
    BY <1>1, <1>0 DEF BeginWrite, TypeOK
<1>2. ASSUME NEW r \in Records, Send(r)
      PROVE Stages'
    <2>1. ~Closed /\ worker # "exited" /\ closer # "returned"
        BY <1>2 DEF Send
    <2>. QED
        BY <1>2, <1>0, <2>1 DEF Send, TypeOK
<1>3. CASE Receive
    BY <1>3, <1>0 DEF Receive
<1>4. CASE WriteThrough
    BY <1>4, <1>0 DEF WriteThrough
<1>5. CASE FillAndFlush
    BY <1>5, <1>0 DEF FillAndFlush
<1>6. CASE CopyIn
    BY <1>6, <1>0 DEF CopyIn
<1>7. CASE Refuse
    BY <1>7, <1>0 DEF Refuse
<1>8. CASE Tick
    BY <1>8, <1>0 DEF Tick
<1>9. CASE BeginDrain
    BY <1>9, <1>0 DEF BeginDrain
<1>10. CASE EndDrain
    <2>1. Flush /\ worker' = "exited" /\ queue = <<>> /\ draining
             /\ UNCHANGED <<pc, queue, draining, held, closer, sent>>
        BY <1>10 DEF EndDrain
    <2>2. ~sticky' => buffer' = <<>>
        BY <2>1, FlushOutcome
    <2>. QED
        BY <1>10, <1>0, <2>1, <2>2 DEF EndDrain
<1>11. CASE Close
    BY <1>11, <1>0 DEF Close, AnnounceLock, SetClosed, CloseReturns
<1>12. CASE UNCHANGED vars
    BY <1>12 DEF vars
<1>. QED
    BY <1>1, <1>2, <1>3, <1>4, <1>5, <1>6, <1>7, <1>8, <1>9, <1>10, <1>11, <1>12
    DEF Next, Write, Run

-----------------------------------------------------------------------------
(* InOrder.                                                                *)

\* One call of the target with what comes next keeps the file a beginning of
\* what was accepted, and without an error writes all it was given.
LEMMA PutInOrder ==
    ASSUME NEW data \in Seq(Byte), Put(data), TypeOK, ~sticky, ~writeErr,
           Follows(file, 0, sent), Follows(data, Len(file), sent)
    PROVE /\ Follows(file', 0, sent)
          /\ Len(file) <= Len(file')
          /\ ~sticky' => Len(file') = Len(file) + Len(data)
<1>1. PICK n \in 0 .. Len(data) : file' = file \o Prefix(data, n) /\ (~sticky' => n = Len(data))
    BY PutOutcome
<1>2. file \in Seq(Byte) /\ sent \in Seq(Byte) /\ Len(file) \in Nat
    BY DEF TypeOK
<1>3. Prefix(data, n) \in Seq(Byte) /\ Len(Prefix(data, n)) = n
    BY PrefixAndRest
<1>4. Follows(Prefix(data, n), 0 + Len(file), sent)
    BY <1>2, FollowsPrefix
<1>5. Follows(file \o Prefix(data, n), 0, sent)
    BY <1>2, <1>3, <1>4, FollowsConcat
<1>6. Len(file \o Prefix(data, n)) = Len(file) + n
    BY <1>2, <1>3, ConcatProperties
<1>7. Len(file') = Len(file) + n /\ Follows(file', 0, sent)
    BY <1>1, <1>5, <1>6
<1>8. Len(file) <= Len(file) + n
    BY <1>2
<1>. QED
    BY <1>1, <1>7, <1>8

\* Bytes that move towards the file without the queue or the history changing
\* stay in order: it is enough to place the three parts again.
LEMMA MovedAlong ==
    ASSUME TypeOK, TypeOK', InOrder, ~sticky,
           queue' = queue, sent' = sent,
           Follows(file', 0, sent),
           ~sticky' => /\ Follows(buffer', Len(file'), sent)
                       /\ Follows(held', Len(file') + Len(buffer'), sent)
                       /\ Len(file') + Len(buffer') + Len(held')
                             = Len(file) + Len(buffer) + Len(held)
    PROVE InOrder'
<1>1. PICK at \in [0 .. Len(queue) -> 0 .. Len(sent)] : Places(at)
    BY DEF InOrder
<1>2. ASSUME ~sticky'
      PROVE at[0] = Len(file') + Len(buffer') + Len(held')
    BY <1>1, <1>2 DEF Places
<1>. QED
    BY <1>1, <1>2 DEF InOrder, Places

\* A record sent takes its place at the end of what was accepted.
LEMMA SendInOrder ==
    ASSUME NEW r \in Records, TypeOK, InOrder, Send(r)
    PROVE InOrder'
<1>1. /\ sent' = sent \o Bytes(r) /\ queue' = Append(queue, r)
      /\ UNCHANGED <<held, buffer, file, sticky>>
    BY DEF Send
<1>2. sent \in Seq(Byte) /\ file \in Seq(Byte) /\ buffer \in Seq(Byte) /\ held \in Seq(Byte)
         /\ queue \in Seq(Records) /\ Len(file) \in Nat /\ Len(buffer) \in Nat
         /\ Len(sent) \in Nat /\ Len(queue) \in Nat
    BY DEF TypeOK
<1>3. Bytes(r) \in Seq(Byte) /\ Len(Bytes(r)) = Size[r] /\ Size[r] \in Nat
    BY BytesOfARecord
<1>4. Len(sent') = Len(sent) + Size[r]
    <2>1. Len(sent \o Bytes(r)) = Len(sent) + Len(Bytes(r))
        BY <1>2, <1>3, ConcatProperties
    <2>. QED
        BY <1>1, <1>3, <2>1
<1>5. Follows(file, 0, sent')
    BY <1>1, <1>2, <1>3, FollowsLonger DEF InOrder
<1>6. ASSUME ~sticky
      PROVE /\ Follows(buffer, Len(file), sent')
            /\ Follows(held, Len(file) + Len(buffer), sent')
            /\ \E at \in [0 .. Len(queue') -> 0 .. Len(sent')] : Places(at)'
    <2>1. Follows(buffer, Len(file), sent')
        BY <1>1, <1>2, <1>3, <1>6, FollowsLonger DEF InOrder
    <2>2. Follows(held, Len(file) + Len(buffer), sent')
        BY <1>1, <1>2, <1>3, <1>6, FollowsLonger DEF InOrder
    <2>3. PICK at \in [0 .. Len(queue) -> 0 .. Len(sent)] : Places(at)
        BY <1>6 DEF InOrder
    <2>4. /\ Len(queue') = Len(queue) + 1 /\ queue'[Len(queue) + 1] = r
          /\ \A i \in 1 .. Len(queue) : queue'[i] = queue[i]
        BY <1>1, <1>2, AppendProperties
    <2>5. PICK new : new = [i \in 0 .. Len(queue) + 1 |-> IF i <= Len(queue) THEN at[i] ELSE Len(sent')]
        OBVIOUS
    <2>6. new \in [0 .. Len(queue') -> 0 .. Len(sent')]
        BY <1>2, <1>3, <1>4, <2>4, <2>5
    <2>7. new[0] = at[0] /\ new[Len(queue')] = Len(sent')
        BY <1>2, <2>4, <2>5
    <2>8. ASSUME NEW i \in 1 .. Len(queue')
          PROVE /\ new[i] = new[i - 1] + Size[queue'[i]]
                /\ Follows(Bytes(queue'[i]), new[i - 1], sent')
        <3>1. CASE i <= Len(queue)
            <4>1. i \in 1 .. Len(queue) /\ i - 1 \in 0 .. Len(queue)
                BY <3>1, <1>2
            <4>2. queue'[i] = queue[i] /\ new[i] = at[i] /\ new[i - 1] = at[i - 1]
                BY <4>1, <2>4, <2>5, <1>2
            <4>3. at[i] = at[i - 1] + Size[queue[i]] /\ Follows(Bytes(queue[i]), at[i - 1], sent)
                BY <4>1, <2>3 DEF Places
            <4>4. queue[i] \in Records /\ at[i - 1] \in Nat
                <5>1. queue[i] \in Records
                    BY <4>1, <1>2, ElementOfSeq
                <5>2. at[i - 1] \in 0 .. Len(sent)
                    BY <4>1
                <5>. QED
                    BY <5>1, <5>2, <1>2
            <4>5. Bytes(queue[i]) \in Seq(Byte)
                BY <4>4, BytesOfARecord
            <4>6. Follows(Bytes(queue[i]), at[i - 1], sent')
                BY <4>3, <4>4, <4>5, <1>1, <1>2, <1>3, FollowsLonger
            <4>. QED
                BY <4>2, <4>3, <4>6
        <3>2. CASE i = Len(queue) + 1
            <4>1. queue'[i] = r /\ new[i] = Len(sent') /\ new[i - 1] = Len(sent)
                <5>1. i - 1 = Len(queue) /\ Len(queue) \in 0 .. Len(queue)
                    BY <3>2, <1>2
                <5>2. at[Len(queue)] = Len(sent)
                    BY <2>3 DEF Places
                <5>. QED
                    BY <3>2, <5>1, <5>2, <2>4, <2>5, <1>2
            <4>2. Follows(Bytes(r), Len(sent), sent')
                BY <1>1, <1>2, <1>3, AppendedFollows
            <4>. QED
                BY <4>1, <4>2, <1>4
        <3>. QED
            BY <3>1, <3>2, <2>4, <1>2
    <2>9. Places(new)'
        BY <1>1, <2>3, <2>7, <2>8 DEF Places
    <2>. QED
        BY <2>1, <2>2, <2>6, <2>9
<1>. QED
    BY <1>1, <1>5, <1>6 DEF InOrder

\* The record received is the stretch that comes next.
LEMMA ReceiveInOrder ==
    ASSUME TypeOK, Stages, InOrder, Receive
    PROVE InOrder'
<1>1. /\ queue # <<>> /\ queue' = Tail(queue) /\ held' = Bytes(Head(queue)) /\ held = <<>>
      /\ UNCHANGED <<buffer, file, sticky, sent>>
    BY DEF Receive, Stages
<1>2. queue \in Seq(Records) /\ Len(queue) \in Nat /\ Len(queue) > 0 /\ Len(file) \in Nat
         /\ Len(buffer) \in Nat /\ Len(held) = 0
    BY <1>1, EmptySeq DEF TypeOK
<1>3. /\ Len(queue') = Len(queue) - 1
      /\ \A i \in 1 .. Len(queue) - 1 : queue'[i] = queue[i + 1]
      /\ Head(queue) = queue[1] /\ queue[1] \in Records
    BY <1>1, <1>2, HeadTailProperties
<1>4. Len(held') = Size[queue[1]]
    BY <1>1, <1>3, BytesOfARecord
<1>5. ASSUME ~sticky
      PROVE /\ Follows(held', Len(file) + Len(buffer), sent)
            /\ \E at \in [0 .. Len(queue') -> 0 .. Len(sent)] : Places(at)'
    <2>1. PICK at \in [0 .. Len(queue) -> 0 .. Len(sent)] : Places(at)
        BY <1>5 DEF InOrder
    <2>2. 1 \in 1 .. Len(queue)
        BY <1>2
    <2>3. /\ at[0] = Len(file) + Len(buffer)
          /\ at[1] = at[0] + Size[queue[1]] /\ Follows(Bytes(queue[1]), at[0], sent)
        BY <1>2, <2>1, <2>2 DEF Places
    <2>4. Follows(held', Len(file) + Len(buffer), sent)
        BY <1>1, <1>3, <2>3
    <2>5. PICK new : new = [i \in 0 .. Len(queue) - 1 |-> at[i + 1]]
        OBVIOUS
    <2>6. new \in [0 .. Len(queue') -> 0 .. Len(sent)]
        BY <1>2, <1>3, <2>5
    <2>7. new[0] = Len(file) + Len(buffer) + Len(held')
        BY <1>2, <1>4, <2>3, <2>5
    <2>8. new[Len(queue')] = Len(sent)
        BY <1>2, <1>3, <2>1, <2>5 DEF Places
    <2>9. ASSUME NEW i \in 1 .. Len(queue')
          PROVE /\ new[i] = new[i - 1] + Size[queue'[i]]
                /\ Follows(Bytes(queue'[i]), new[i - 1], sent)
        <3>1. i + 1 \in 1 .. Len(queue) /\ queue'[i] = queue[i + 1]
            BY <1>2, <1>3
        <3>2. new[i] = at[i + 1] /\ new[i - 1] = at[i] /\ (i + 1) - 1 = i
            BY <1>2, <1>3, <2>5
        <3>3. at[i + 1] = at[(i + 1) - 1] + Size[queue[i + 1]]
                 /\ Follows(Bytes(queue[i + 1]), at[(i + 1) - 1], sent)
            BY <3>1, <2>1 DEF Places
        <3>. QED
            BY <3>1, <3>2, <3>3
    <2>10. Places(new)'
        BY <1>1, <2>7, <2>8, <2>9 DEF Places
    <2>. QED
        BY <2>4, <2>6, <2>10
<1>. QED
    BY <1>1, <1>5 DEF InOrder

\* The steps of run() and bufio that move bytes towards the file.
LEMMA MoveInOrder ==
    ASSUME TypeOK, TypeOK', Stages, InOrder,
           WriteThrough \/ FillAndFlush \/ CopyIn
    PROVE InOrder' /\ Len(file) <= Len(file')
<1>1. /\ sent \in Seq(Byte) /\ file \in Seq(Byte) /\ buffer \in Seq(Byte) /\ held \in Seq(Byte)
      /\ Len(file) \in Nat /\ Len(buffer) \in Nat /\ Len(held) \in Nat /\ Len(file') \in Nat
      /\ Len(<<>>) = 0
    BY EmptySeq DEF TypeOK
<1>2. ~sticky /\ ~writeErr
    BY DEF WriteThrough, FillAndFlush, CopyIn, Stages
<1>3. /\ Follows(file, 0, sent) /\ Follows(buffer, Len(file), sent)
      /\ Follows(held, Len(file) + Len(buffer), sent)
    BY <1>2 DEF InOrder
<1>4. ASSUME NEW p \in 0 .. Len(sent)
      PROVE Follows(<<>>, p, sent)
    BY <1>1 DEF Follows
<1>5. CASE WriteThrough
    <2>1. /\ Put(held) /\ buffer = <<>> /\ buffer' = <<>> /\ held' = <<>>
          /\ queue' = queue /\ sent' = sent
        BY <1>5 DEF WriteThrough
    <2>2. Follows(held, Len(file), sent)
        BY <1>1, <1>3, <2>1
    <2>3. /\ Follows(file', 0, sent) /\ Len(file) <= Len(file')
          /\ ~sticky' => Len(file') = Len(file) + Len(held)
        BY <1>1, <1>2, <1>3, <2>1, <2>2, PutInOrder
    <2>4. Len(file') \in 0 .. Len(sent) /\ Len(file') + 0 \in 0 .. Len(sent)
        BY <1>1, <2>3 DEF Follows
    <2>5. ~sticky' => /\ Follows(buffer', Len(file'), sent)
                      /\ Follows(held', Len(file') + Len(buffer'), sent)
                      /\ Len(file') + Len(buffer') + Len(held')
                            = Len(file) + Len(buffer) + Len(held)
        BY <1>1, <1>4, <2>1, <2>3, <2>4
    <2>. QED
        BY <1>2, <2>1, <2>3, <2>5, MovedAlong
<1>6. CASE FillAndFlush
    <2>1. PICK n : n = Available
        OBVIOUS
    <2>2. n \in 0 .. Len(held)
        <3>1. Available \in Nat /\ Len(held) > Available
            BY <1>1, <1>6, WriterConstants DEF FillAndFlush, Available, TypeOK
        <3>. QED
            BY <1>1, <2>1, <3>1
    <2>3. /\ Put(buffer \o Prefix(held, n))
          /\ sticky' \/ (buffer' = <<>> /\ held' = Rest(held, n))
          /\ queue' = queue /\ sent' = sent
        BY <1>6, <2>1 DEF FillAndFlush, Emptied
    <2>4. /\ Prefix(held, n) \in Seq(Byte) /\ Len(Prefix(held, n)) = n
          /\ Len(Rest(held, n)) = Len(held) - n
        BY <1>1, <2>2, PrefixAndRest
    <2>5. /\ buffer \o Prefix(held, n) \in Seq(Byte)
          /\ Len(buffer \o Prefix(held, n)) = Len(buffer) + n
        BY <1>1, <2>4, ConcatProperties
    <2>6. Len(file) + Len(buffer) \in Nat
        BY <1>1
    <2>7. /\ Follows(Prefix(held, n), Len(file) + Len(buffer), sent)
          /\ Follows(Rest(held, n), (Len(file) + Len(buffer)) + n, sent)
        BY <1>1, <1>3, <2>2, <2>6, FollowsPrefix
    <2>8. Follows(buffer \o Prefix(held, n), Len(file), sent)
        BY <1>1, <1>3, <2>4, <2>7, FollowsConcat
    <2>9. /\ Follows(file', 0, sent) /\ Len(file) <= Len(file')
          /\ ~sticky' => Len(file') = Len(file) + (Len(buffer) + n)
        BY <1>2, <1>3, <2>3, <2>5, <2>8, PutInOrder
    <2>10. Len(file') \in 0 .. Len(sent)
        BY <1>1, <2>9 DEF Follows
    <2>11. ASSUME ~sticky'
           PROVE /\ Follows(buffer', Len(file'), sent)
                 /\ Follows(held', Len(file') + Len(buffer'), sent)
                 /\ Len(file') + Len(buffer') + Len(held')
                       = Len(file) + Len(buffer) + Len(held)
        <3>1. buffer' = <<>> /\ held' = Rest(held, n) /\ Len(buffer') = 0
            BY <1>1, <2>3, <2>11
        <3>2. Len(file') + Len(buffer') = (Len(file) + Len(buffer)) + n
            BY <1>1, <2>2, <2>9, <2>11, <3>1
        <3>3. Follows(buffer', Len(file'), sent)
            BY <1>4, <2>10, <3>1
        <3>4. Follows(held', Len(file') + Len(buffer'), sent)
            BY <2>7, <3>1, <3>2
        <3>5. Len(held') = Len(held) - n
            BY <2>4, <3>1
        <3>6. ((Len(file) + Len(buffer)) + n) + (Len(held) - n) = Len(file) + Len(buffer) + Len(held)
            BY <1>1, <2>2
        <3>. QED
            BY <3>2, <3>3, <3>4, <3>5, <3>6
    <2>. QED
        BY <1>2, <2>3, <2>9, <2>11, MovedAlong
<1>7. CASE CopyIn
    <2>1. /\ buffer' = buffer \o held /\ held' = <<>> /\ file' = file
          /\ queue' = queue /\ sent' = sent
        BY <1>7 DEF CopyIn
    <2>2. Len(buffer \o held) = Len(buffer) + Len(held)
        BY <1>1, ConcatProperties
    <2>3. Follows(buffer \o held, Len(file), sent)
        BY <1>1, <1>3, FollowsConcat
    <2>4. Len(file) + Len(buffer') \in 0 .. Len(sent)
        BY <1>1, <2>1, <2>2, <2>3 DEF Follows
    <2>5. Follows(held', Len(file') + Len(buffer'), sent)
        BY <1>4, <2>1, <2>4
    <2>6. Len(file') + Len(buffer') + Len(held') = Len(file) + Len(buffer) + Len(held)
        BY <1>1, <2>1, <2>2
    <2>. QED
        BY <1>1, <1>2, <1>3, <2>1, <2>3, <2>5, <2>6, MovedAlong
<1>. QED
    BY <1>5, <1>6, <1>7

\* Steps that touch neither the queue nor the bytes.
LEMMA OrderUntouched ==
    ASSUME InOrder, UNCHANGED <<queue, held, buffer, file, sticky, sent>>
    PROVE InOrder'
BY DEF InOrder, Places

\* Flush empties the buffer into the file; nothing is being copied then.
LEMMA FlushInOrder ==
    ASSUME TypeOK, TypeOK', Stages, InOrder, Flush, worker = "select",
           held' = held, queue' = queue, sent' = sent
    PROVE /\ InOrder' /\ Len(file) <= Len(file')
          /\ UNCHANGED <<file, writeErr>> \/ ~writeErr
<1>1. /\ sent \in Seq(Byte) /\ file \in Seq(Byte) /\ buffer \in Seq(Byte)
      /\ Len(file) \in Nat /\ Len(buffer) \in Nat /\ Len(file') \in Nat
      /\ held = <<>> /\ Len(<<>>) = 0
    BY EmptySeq DEF TypeOK, Stages
<1>2. \/ UNCHANGED <<file, buffer, sticky, writeErr>>
      \/ ~sticky /\ Put(buffer) /\ (~sticky' => buffer' = <<>>)
    BY FlushOutcome DEF Stages
<1>3. CASE UNCHANGED <<file, buffer, sticky, writeErr>>
    <2>1. InOrder'
        BY <1>3, OrderUntouched
    <2>. QED
        BY <1>1, <1>3, <2>1
<1>4. CASE ~sticky /\ Put(buffer) /\ (~sticky' => buffer' = <<>>)
    <2>1. ~sticky /\ ~writeErr
        BY <1>4 DEF Stages
    <2>2. Follows(file, 0, sent) /\ Follows(buffer, Len(file), sent)
        BY <2>1 DEF InOrder
    <2>3. /\ Follows(file', 0, sent) /\ Len(file) <= Len(file')
          /\ ~sticky' => Len(file') = Len(file) + Len(buffer)
        BY <1>1, <1>4, <2>1, <2>2, PutInOrder
    <2>4. ASSUME ~sticky'
          PROVE /\ Follows(buffer', Len(file'), sent)
                /\ Follows(held', Len(file') + Len(buffer'), sent)
                /\ Len(file') + Len(buffer') + Len(held')
                      = Len(file) + Len(buffer) + Len(held)
        <3>1. buffer' = <<>> /\ held' = <<>>
            BY <1>1, <1>4, <2>4
        <3>2. Len(file') <= Len(sent)
            BY <1>1, <2>3 DEF Follows
        <3>3. Follows(<<>>, Len(file'), sent)
            BY <1>1, <3>2 DEF Follows
        <3>. QED
            BY <1>1, <2>3, <2>4, <3>1, <3>3
    <2>. QED
        BY <2>1, <2>3, <2>4, MovedAlong
<1>. QED
    BY <1>2, <1>3, <1>4

LEMMA InOrderInit == Init => InOrder
<1>1. ASSUME Init
      PROVE InOrder
    <2>1. Len(<<>>) = 0
        BY EmptySeq
    <2>2. /\ file = <<>> /\ buffer = <<>> /\ held = <<>> /\ queue = <<>> /\ sent = <<>>
        BY <1>1 DEF Init
    <2>3. PICK at : at = [i \in 0 .. 0 |-> 0]
        OBVIOUS
    <2>4. at \in [0 .. Len(queue) -> 0 .. Len(sent)] /\ Places(at)
        BY <2>1, <2>2, <2>3 DEF Places
    <2>. QED
        BY <2>1, <2>2, <2>4 DEF InOrder, Follows
<1>. QED
    BY <1>1

LEMMA InOrderStep ==
    ASSUME IInv, TypeOK', [Next]_vars
    PROVE InOrder'
<1>. USE DEF IInv
<1>1. ASSUME NEW r \in Records, BeginWrite(r)
      PROVE InOrder'
    BY <1>1, OrderUntouched DEF BeginWrite
<1>2. ASSUME NEW r \in Records, Send(r)
      PROVE InOrder'
    BY <1>2, SendInOrder
<1>3. CASE Receive
    BY <1>3, ReceiveInOrder
<1>4. CASE WriteThrough \/ FillAndFlush \/ CopyIn
    BY <1>4, MoveInOrder
<1>5. CASE Refuse
    <2>1. sticky' /\ file' = file /\ sent' = sent
        BY <1>5 DEF Refuse
    <2>. QED
        BY <2>1 DEF InOrder
<1>6. CASE Tick
    <2>1. Flush /\ worker = "select" /\ held' = held /\ queue' = queue /\ sent' = sent
        BY <1>6 DEF Tick
    <2>. QED
        BY <2>1, FlushInOrder
<1>7. CASE BeginDrain
    BY <1>7, OrderUntouched DEF BeginDrain
<1>8. CASE EndDrain
    <2>1. Flush /\ worker = "select" /\ held' = held /\ queue' = queue /\ sent' = sent
        BY <1>8 DEF EndDrain
    <2>. QED
        BY <2>1, FlushInOrder
<1>9. CASE Close
    BY <1>9, OrderUntouched DEF Close, AnnounceLock, SetClosed, CloseReturns
<1>10. CASE UNCHANGED vars
    BY <1>10, OrderUntouched DEF vars
<1>. QED
    BY <1>1, <1>2, <1>3, <1>4, <1>5, <1>6, <1>7, <1>8, <1>9, <1>10 DEF Next, Write, Run

-----------------------------------------------------------------------------
(* The invariant, and the refinement of LogStream.                         *)

\* Wherever the worker, the writers and Close are, the bytes accepted are in
\* the file, the buffer, run()'s hands and the queue, in this order and each
\* once; after an error the file is still a beginning of what was accepted.
THEOREM NothingLostOrTorn == Spec => []IInv
<1>1. Init => IInv
    BY TypeInit, StagesInit, InOrderInit DEF IInv
<1>2. IInv /\ [Next]_vars => IInv'
    <2>1. ASSUME IInv, [Next]_vars
          PROVE IInv'
        <3>1. TypeOK'
            BY <2>1, TypeStep DEF IInv, Stages
        <3>2. Stages'
            BY <2>1, StagesStep DEF IInv
        <3>3. InOrder'
            BY <2>1, <3>1, InOrderStep
        <3>. QED
            BY <3>1, <3>2, <3>3 DEF IInv
    <2>. QED
        BY <2>1
<1>. QED
    BY <1>1, <1>2, PTL DEF Spec

\* A step that lengthens the file, and only it, is LogStream's Extend.
LEMMA LongerFileExtends ==
    ASSUME TypeOK, TypeOK', InOrder', Len(file) <= Len(file'), ~writeErr,
           closer # "returned", closer' = closer, sent' = sent
    PROVE Stream!Extend
<1>1. file' \in Seq(Byte) /\ sent \in Seq(Byte) /\ writeErr' \in BOOLEAN
         /\ Len(file) \in Nat /\ Len(file') \in Nat
    BY DEF TypeOK
<1>2. Follows(file', 0, sent)
    BY DEF InOrder
<1>3. file' = SubSeq(sent, 1, Len(file'))
    BY <1>1, <1>2, FollowsIsSubSeq
<1>4. Len(file') \in Len(file) .. Len(sent)
    BY <1>1, <1>2 DEF Follows
<1>. QED
    BY <1>1, <1>3, <1>4 DEF Stream!Extend

LEMMA StreamStep ==
    ASSUME IInv, IInv', [Next]_vars
    PROVE [Stream!Next]_(Stream!vars)
<1>. USE DEF IInv, Stream!vars
<1>1. ASSUME NEW r \in Records, BeginWrite(r)
      PROVE UNCHANGED Stream!vars
    BY <1>1 DEF BeginWrite
<1>2. ASSUME NEW r \in Records, Send(r)
      PROVE Stream!Accept(r)
    <2>1. closer # "returned"
        BY <1>2 DEF Send, Stages, Closed
    <2>. QED
        BY <1>2, <2>1 DEF Send, Stream!Accept
<1>3. CASE Receive
    BY <1>3 DEF Receive
<1>4. CASE WriteThrough \/ FillAndFlush \/ CopyIn
    <2>1. worker # "exited" /\ ~writeErr /\ closer' = closer /\ sent' = sent
        BY <1>4 DEF WriteThrough, FillAndFlush, CopyIn, Stages
    <2>2. closer # "returned"
        BY <2>1 DEF Stages
    <2>3. Len(file) <= Len(file')
        BY <1>4, MoveInOrder
    <2>4. Stream!Extend
        BY <2>1, <2>2, <2>3, LongerFileExtends
    <2>. QED
        BY <2>4 DEF Stream!Next
<1>5. CASE Refuse
    BY <1>5 DEF Refuse, Stages
<1>6. CASE Tick \/ EndDrain
    <2>1. /\ Flush /\ worker = "select"
          /\ held' = held /\ queue' = queue /\ sent' = sent /\ closer' = closer
        BY <1>6 DEF Tick, EndDrain
    <2>2. closer # "returned"
        BY <2>1 DEF Stages
    <2>3. /\ Len(file) <= Len(file')
          /\ UNCHANGED <<file, writeErr>> \/ ~writeErr
        BY <2>1, FlushInOrder
    <2>4. CASE UNCHANGED <<file, writeErr>>
        BY <2>1, <2>4
    <2>5. CASE ~writeErr
        <3>1. Stream!Extend
            BY <2>1, <2>2, <2>3, <2>5, LongerFileExtends
        <3>. QED
            BY <3>1 DEF Stream!Next
    <2>. QED
        BY <2>3, <2>4, <2>5
<1>7. CASE BeginDrain
    BY <1>7 DEF BeginDrain
<1>8. CASE AnnounceLock \/ SetClosed
    BY <1>8 DEF AnnounceLock, SetClosed
<1>9. CASE CloseReturns
    <2>1. /\ worker = "exited" /\ closer = "waiting" /\ closer' = "returned"
          /\ UNCHANGED <<file, sent, writeErr>>
        BY <1>9 DEF CloseReturns
    <2>2. writeErr \/ file = sent
        <3>1. ASSUME ~writeErr
              PROVE file = sent
            <4>1. ~sticky /\ queue = <<>> /\ buffer = <<>> /\ held = <<>>
                BY <2>1, <3>1 DEF Stages
            <4>2. PICK at \in [0 .. Len(queue) -> 0 .. Len(sent)] : Places(at)
                BY <4>1 DEF InOrder
            <4>3. file \in Seq(Byte) /\ sent \in Seq(Byte) /\ Len(file) \in Nat /\ Len(<<>>) = 0
                BY EmptySeq DEF TypeOK
            <4>4. Len(sent) = Len(file)
                BY <4>1, <4>2, <4>3 DEF Places
            <4>5. file = SubSeq(sent, 1, Len(sent))
                BY <4>3, <4>4, FollowsIsSubSeq DEF InOrder
            <4>. QED
                BY <4>3, <4>5, SubSeqFull
        <3>. QED
            BY <3>1
    <2>3. Stream!Close
        BY <2>1, <2>2 DEF Stream!Close
    <2>. QED
        BY <2>3 DEF Stream!Next
<1>10. CASE UNCHANGED vars
    BY <1>10 DEF vars
<1>11. ASSUME NEW r \in Records, Send(r)
       PROVE Stream!Next
    BY <1>2, <1>11 DEF Stream!Next
<1>. QED
    BY <1>1, <1>3, <1>4, <1>5, <1>6, <1>7, <1>8, <1>9, <1>10, <1>11
    DEF Next, Write, Run, Close

\* The writer keeps LogStream's promise for any records, sizes and capacities:
\* the file grows along what was accepted, in order and without gaps, until it
\* fails; a Close that reports no error has written everything; and nothing is
\* accepted or written after it (shared/logging/async_writer.go).
THEOREM WriterImplementsStream == Spec => ImplementsLogStream
<1>1. Init => Stream!Init
    BY DEF Init, Stream!Init
<1>2. IInv /\ IInv' /\ [Next]_vars => [Stream!Next]_(Stream!vars)
    BY StreamStep
<1>. QED
    BY <1>1, <1>2, NothingLostOrTorn, PTL DEF Spec, ImplementsLogStream, Stream!Spec
==============================================================================
