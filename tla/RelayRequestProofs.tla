------------------------- MODULE RelayRequestProofs -------------------------
(***************************************************************************)
(* Proofs about RelayRequest, for any profiles, models and answers of any   *)
(* length: the client never gets anything but the beginning of what the     *)
(* upstream sent or the relay's own error; only a served answer is          *)
(* credited; and for any finite maps of patterns, gone through in any        *)
(* order, a request is sent for one model.                                  *)
(***************************************************************************)
EXTENDS RelayRequest, FiniteSetTheorems, WellFoundedInduction, TLAPS

-----------------------------------------------------------------------------
(* Until the handler returns, the client has the beginning of the lines     *)
(* that were read, all of them if it is still there, and a status as soon   *)
(* as there is a line.                                                     *)

PrefixOf(b, l) == Len(b) <= Len(l) /\ \A i \in 1..Len(b) : b[i] = l[i]

BodyFits ==
    /\ lines \in Seq(Kinds) /\ body \in Seq(Kinds)
    /\ PrefixOf(body, lines)
    /\ gone \/ body = lines
    /\ lines = << >> => sent = None
    /\ lines # << >> => sent = answer.status /\ set = answer.status /\ sent # None

\* What an outcome says of the lines that were observed.
Says(o, s) ==
    /\ o \in {"pending", "completed", "failed"}
    /\ o = "completed" => CompletedFirst(s)
    /\ o = "failed" => ~CompletedFirst(s) /\ ~Undecided(s)
    /\ o = "pending" => Undecided(s)

\* The outcome is the first event that ends a Codex response.
OutcomeFits ==
    /\ ~codex \/ answer.status # 200 => outcome = "pending"
    /\ codex /\ answer.status = 200 => Says(outcome, lines)

Unsent == {"arrived", "prepare", "send"}
Unread == {"arrived", "prepare", "send", "buffered", "first"}

RelayInv ==
    /\ at \in Phases
    /\ at # "ended" => BodyFits /\ OutcomeFits /\ ~credited
    /\ at \in Unread => lines = << >> /\ outcome = "pending"
    /\ at \in Unsent => answer.status # 200
    /\ at \in {"first", "stream"} => answer.status = 200
    /\ at = "buffered" => answer.status # None
    /\ at = "return" /\ lines = << >> => set = answer.status \/ (end # "eof" /\ outcome = "pending")
    /\ at = "ended" => AnswerIntact /\ CreditedServed

LEMMA PrefixIsPrefix ==
    ASSUME NEW b \in Seq(Kinds), NEW l \in Seq(Kinds), PrefixOf(b, l)
    PROVE  IsPrefix(b, l)
<1>1. SubSeq(b, 1, Len(b)) = SubSeq(l, 1, Len(b))
  BY DEF PrefixOf
<1>2. QED
  BY <1>1 DEF IsPrefix, PrefixOf

LEMMA OwnIsNoKind == Own \notin Kinds /\ << >> # <<Own>> /\ \A s \in Seq(Kinds) : s # <<Own>> /\ Own \notin Range(s)
<1>1. Own \notin Kinds
  BY DEF Own, Kinds, Lines
<1>2. ASSUME NEW s \in Seq(Kinds) PROVE s # <<Own>> /\ Own \notin Range(s)
  <2>1. \A i \in DOMAIN s : s[i] \in Kinds
    OBVIOUS
  <2>2. Own \notin Range(s)
    BY <1>1, <2>1 DEF Range
  <2>3. s # <<Own>>
    <3>1. SUFFICES ASSUME s = <<Own>> PROVE FALSE
      OBVIOUS
    <3>2. 1 \in DOMAIN s /\ s[1] = Own
      BY <3>1
    <3>3. QED
      BY <1>1, <2>1, <3>2
  <2>4. QED
    BY <2>2, <2>3
<1>3. QED
  BY <1>1, <1>2

\* The properties hold while the request runs.
LEMMA RunningIntact ==
    ASSUME BodyFits, ~credited, at # "ended" PROVE AnswerIntact /\ CreditedServed
<1>1. IsPrefix(body, lines)
  BY PrefixIsPrefix DEF BodyFits
<1>2. body # << >> => lines # << >>
  BY DEF BodyFits, PrefixOf
<1>3. AnswerIntact
  BY <1>1, <1>2 DEF AnswerIntact, BodyFits
<1>4. QED
  BY <1>3 DEF CreditedServed

-----------------------------------------------------------------------------
(* Writing and observing.                                                  *)

LEMMA WriteFits ==
    ASSUME BodyFits, NEW kinds \in Seq(Kinds), Write(kinds), lines' = lines \o kinds,
           answer.status # None, set' = answer.status, UNCHANGED <<answer, gone>>
    PROVE  BodyFits'
<1>1. lines' \in Seq(Kinds) /\ lines \in Seq(Kinds) /\ body \in Seq(Kinds)
  BY DEF BodyFits
<1>2. CASE kinds = << >>
  <2>1. lines' = lines /\ UNCHANGED <<sent, body>>
    BY <1>1, <1>2 DEF Write
  <2>2. QED
    BY <2>1 DEF BodyFits, PrefixOf
<1>3. CASE kinds # << >>
  <2>1. sent' = set' /\ lines' # << >>
    BY <1>1, <1>3 DEF Write
  <2>2. CASE gone
    <3>1. UNCHANGED body
      BY <1>3, <2>2 DEF Write
    <3>2. PrefixOf(body', lines')
      BY <1>1, <3>1 DEF BodyFits, PrefixOf
    <3>3. QED
      BY <1>1, <2>1, <2>2, <3>1, <3>2 DEF BodyFits
  <2>3. CASE ~gone
    <3>1. body' = lines'
      BY <1>3, <2>3 DEF Write, BodyFits
    <3>2. PrefixOf(body', lines')
      BY <1>1, <3>1 DEF PrefixOf
    <3>3. QED
      BY <1>1, <2>1, <3>1, <3>2 DEF BodyFits
  <2>4. QED
    BY <2>2, <2>3
<1>4. QED
  BY <1>2, <1>3

\* The two readings of some lines, by their places.
LEMMA ByPlaces ==
    ASSUME NEW s \in Seq(Kinds)
    PROVE  /\ CompletedFirst(s) <=> \E i \in 1..Len(s) :
                                      s[i] = "completed" /\ \A k \in 1..i : s[k] # "failed"
           /\ Undecided(s) <=> \A i \in 1..Len(s) : s[i] \notin {"completed", "failed"}
<1>1. ASSUME NEW i \in 1..Len(s)
      PROVE  "failed" \notin Range(SubSeq(s, 1, i)) <=> \A k \in 1..i : s[k] # "failed"
  <2>1. DOMAIN SubSeq(s, 1, i) = 1..i
    OBVIOUS
  <2>2. \A k \in 1..i : SubSeq(s, 1, i)[k] = s[k]
    OBVIOUS
  <2>3. QED
    BY Zenon, <2>1, <2>2 DEF Range
<1>2. DOMAIN s = 1..Len(s)
  OBVIOUS
<1>3. QED
  BY Zenon, <1>1, <1>2 DEF CompletedFirst, Undecided, Range

\* The first terminal event of some lines.
LEMMA ObservedFirst ==
    ASSUME NEW kinds \in Seq(Kinds), codex
    PROVE  Says(Observed("pending", kinds), kinds)
<1> DEFINE terminal == {i \in DOMAIN kinds : kinds[i] \in {"completed", "failed"}}
<1>1. CASE terminal = {}
  <2>1. Observed("pending", kinds) = "pending"
    BY <1>1 DEF Observed
  <2>2. Undecided(kinds)
    BY <1>1, ByPlaces
  <2>3. QED
    BY <2>1, <2>2 DEF Says
<1>2. CASE terminal # {}
  <2>1. terminal \in SUBSET Nat
    OBVIOUS
  <2>2. PICK least \in terminal : \A m \in terminal : least <= m
    <3>1. PICK x \in terminal : \A y \in terminal : <<y, x>> \notin OpToRel(<, Nat)
      BY <1>2, <2>1, NatLessThanWellFounded, WFMin
    <3>2. \A y \in terminal : ~(y < x)
      BY <2>1, <3>1 DEF OpToRel
    <3>3. QED
      BY <2>1, <3>2
  <2> DEFINE i == Min(terminal)
  <2>3. i \in terminal /\ \A m \in terminal : i <= m
    BY <2>2 DEF Min
  <2>4. Observed("pending", kinds) = kinds[i]
    BY <1>2 DEF Observed
  <2> HIDE DEF i
  <2>5. i \in 1..Len(kinds) /\ kinds[i] \in {"completed", "failed"} /\ ~Undecided(kinds)
    BY <2>3, ByPlaces
  <2>6. ASSUME kinds[i] = "completed" PROVE CompletedFirst(kinds)
    <3>1. \A k \in 1..i : kinds[k] # "failed"
      BY <2>3, <2>5, <2>6
    <3>2. QED
      BY <2>5, <2>6, <3>1, ByPlaces
  <2>7. ASSUME kinds[i] = "failed", CompletedFirst(kinds) PROVE FALSE
    <3>1. PICK j \in 1..Len(kinds) : kinds[j] = "completed" /\ \A k \in 1..j : kinds[k] # "failed"
      BY <2>7, ByPlaces
    <3>2. i \in 1..j
      BY <2>3, <2>5, <3>1
    <3>3. QED
      BY <2>7, <3>1, <3>2
  <2>8. QED
    BY <2>4, <2>5, <2>6, <2>7 DEF Says
<1>3. QED
  BY <1>1, <1>2

\* More lines change nothing about the first terminal event.
LEMMA OutcomeStays ==
    ASSUME NEW s \in Seq(Kinds), NEW t \in Seq(Kinds), NEW o
    PROVE  /\ Says(o, s) /\ o # "pending" => Says(o, s \o t)
           /\ Undecided(s) /\ Says(o, t) => Says(o, s \o t)
<1>0. Len(s \o t) = Len(s) + Len(t) /\ s \o t \in Seq(Kinds)
  OBVIOUS
<1>1. /\ \A i \in 1..Len(s) : i \in 1..Len(s \o t) /\ (s \o t)[i] = s[i]
      /\ \A i \in 1..Len(t) : Len(s) + i \in 1..Len(s \o t) /\ (s \o t)[Len(s) + i] = t[i]
      /\ \A i \in 1..Len(s \o t) : i \in 1..Len(s) \/ (i - Len(s) \in 1..Len(t) /\ (s \o t)[i] = t[i - Len(s)])
  <2>1. /\ \A i \in 1..Len(s) : (s \o t)[i] = s[i]
        /\ \A i \in 1..Len(t) : (s \o t)[Len(s) + i] = t[i]
    OBVIOUS
  <2>2. ASSUME NEW i \in 1..Len(s \o t), i \notin 1..Len(s)
        PROVE  i - Len(s) \in 1..Len(t) /\ i = Len(s) + (i - Len(s))
    BY <1>0, <2>2
  <2>3. QED
    BY <1>0, <2>1, <2>2
<1>2. ASSUME CompletedFirst(s) PROVE CompletedFirst(s \o t)
  <2>1. PICK i \in 1..Len(s) : s[i] = "completed" /\ \A k \in 1..i : s[k] # "failed"
    BY <1>2, ByPlaces
  <2>2. \A k \in 1..i : k \in 1..Len(s) /\ (s \o t)[k] # "failed"
    BY <1>1, <2>1
  <2>3. QED
    BY <1>0, <1>1, <2>1, <2>2, ByPlaces
<1>3. ASSUME ~CompletedFirst(s), ~Undecided(s)
      PROVE  ~CompletedFirst(s \o t) /\ ~Undecided(s \o t)
  <2>1. PICK j \in 1..Len(s) : s[j] \in {"completed", "failed"}
    BY <1>3, ByPlaces
  <2>2. PICK f \in 1..j : s[f] = "failed"
    BY <1>3, <2>1, ByPlaces
  <2>3. f \in 1..Len(s) /\ (s \o t)[f] = "failed"
    BY <1>1, <2>1, <2>2
  <2>4. ~Undecided(s \o t)
    BY <1>0, <1>1, <2>3, ByPlaces
  <2>5. ASSUME NEW i \in 1..Len(s \o t), (s \o t)[i] = "completed",
               \A k \in 1..i : (s \o t)[k] # "failed"
        PROVE  FALSE
    <3>1. ~(f \in 1..i)
      BY <2>3, <2>5
    <3>2. i \in 1..Len(s) /\ \A k \in 1..i : k \in 1..Len(s)
      BY <2>3, <3>1
    <3>3. s[i] = "completed" /\ \A k \in 1..i : s[k] # "failed"
      BY <1>1, <2>5, <3>2
    <3>4. QED
      BY <1>3, <3>2, <3>3, ByPlaces
  <2>6. QED
    BY <1>0, <2>4, <2>5, ByPlaces
<1>4. ASSUME Undecided(s), CompletedFirst(t) PROVE CompletedFirst(s \o t)
  <2>1. PICK i \in 1..Len(t) : t[i] = "completed" /\ \A k \in 1..i : t[k] # "failed"
    BY <1>4, ByPlaces
  <2>2. \A k \in 1..Len(s) : s[k] # "failed"
    BY <1>4, ByPlaces
  <2>3. Len(s) + i \in 1..Len(s \o t) /\ (s \o t)[Len(s) + i] = "completed"
    BY <1>1, <2>1
  <2>4. ASSUME NEW k \in 1..(Len(s) + i) PROVE (s \o t)[k] # "failed"
    <3>1. CASE k \in 1..Len(s)
      BY <1>1, <2>2, <3>1
    <3>2. CASE k \notin 1..Len(s)
      <4>1. k - Len(s) \in 1..i /\ k \in 1..Len(s \o t)
        BY <1>0, <2>1, <3>2
      <4>2. QED
        BY <1>1, <2>1, <3>2, <4>1
    <3>3. QED
      BY <3>1, <3>2
  <2>5. QED
    BY <1>0, <2>3, <2>4, ByPlaces
<1>5. ASSUME Undecided(s), CompletedFirst(s \o t) PROVE CompletedFirst(t)
  <2>1. PICK i \in 1..Len(s \o t) : /\ (s \o t)[i] = "completed"
                                    /\ \A k \in 1..i : (s \o t)[k] # "failed"
    BY <1>0, <1>5, ByPlaces
  <2>2. i \notin 1..Len(s)
    BY <1>1, <1>5, <2>1, ByPlaces
  <2>3. i - Len(s) \in 1..Len(t) /\ t[i - Len(s)] = "completed"
    BY <1>1, <2>1, <2>2
  <2>4. ASSUME NEW k \in 1..(i - Len(s)) PROVE t[k] # "failed"
    <3>1. k \in 1..Len(t) /\ Len(s) + k \in 1..i
      BY <2>1, <2>3
    <3>2. QED
      BY <1>1, <2>1, <3>1
  <2>5. QED
    BY <2>3, <2>4, ByPlaces
<1>6. ASSUME Undecided(s) PROVE Undecided(s \o t) <=> Undecided(t)
  <2>1. \A i \in 1..Len(s) : s[i] \notin {"completed", "failed"}
    BY <1>6, ByPlaces
  <2>2. ASSUME Undecided(t) PROVE Undecided(s \o t)
    <3>1. \A i \in 1..Len(t) : t[i] \notin {"completed", "failed"}
      BY <2>2, ByPlaces
    <3>2. \A i \in 1..Len(s \o t) : (s \o t)[i] \notin {"completed", "failed"}
      BY <1>1, <2>1, <3>1
    <3>3. QED
      BY <1>0, <3>2, ByPlaces
  <2>3. ASSUME Undecided(s \o t) PROVE Undecided(t)
    <3>1. \A i \in 1..Len(s \o t) : (s \o t)[i] \notin {"completed", "failed"}
      BY <1>0, <2>3, ByPlaces
    <3>2. \A i \in 1..Len(t) : t[i] \notin {"completed", "failed"}
      BY <1>1, <3>1
    <3>3. QED
      BY <3>2, ByPlaces
  <2>4. QED
    BY <2>2, <2>3
<1>7. QED
  BY <1>2, <1>3, <1>4, <1>5, <1>6 DEF Says

\* The code credits what was served.
LEMMA SucceededIsServed == ASSUME OutcomeFits, lines \in Seq(Kinds) PROVE Succeeded <=> Served
<1>1. Undecided(lines) => ~CompletedFirst(lines)
  BY ByPlaces
<1>2. CASE answer.status # 200
  BY <1>2 DEF Succeeded, Served
<1>3. CASE answer.status = 200 /\ ~codex
  BY <1>3 DEF OutcomeFits, Succeeded, Served
<1>4. CASE answer.status = 200 /\ codex
  BY <1>1, <1>4 DEF OutcomeFits, Says, Succeeded, Served
<1>5. QED
  BY <1>2, <1>3, <1>4

-----------------------------------------------------------------------------
(* The steps.                                                              *)

\* A request that ends before it was forwarded.
LEMMA EndsUnsent ==
    ASSUME RelayInv, at \in {"arrived", "prepare"}, at' = "ended",
           UNCHANGED <<upstream, gone, results>>,
           (\E status : RespondOwn(status)) \/ UNCHANGED body
    PROVE  RelayInv'
<1>1. lines = << >> /\ body = << >> /\ ~credited /\ at # "ended" /\ answer.status # 200
  <2>1. at # "ended" /\ at \in Unread /\ at \in Unsent
    BY DEF Unread, Unsent
  <2>2. QED
    BY <2>1 DEF RelayInv, BodyFits, PrefixOf
<1>2. body' = << >> \/ body' = <<Own>>
  BY <1>1 DEF RespondOwn
<1>3. IsPrefix(<< >>, << >>)
  <2>1. << >> \in Seq(Kinds) /\ PrefixOf(<< >>, << >>)
    BY DEF PrefixOf
  <2>2. QED
    BY <2>1, PrefixIsPrefix
<1>4. gone' \/ body' = <<Own>> \/ body' = lines'
  BY <1>1, <1>2 DEF upstream
<1>5. AnswerIntact'
  BY <1>1, <1>2, <1>3, <1>4 DEF AnswerIntact, upstream
<1>6. CreditedServed'
  BY <1>1 DEF CreditedServed, Served, upstream, results
<1>7. QED
  BY <1>5, <1>6 DEF RelayInv, Phases, Unread, Unsent

\* A step before the answer is read.
LEMMA StaysUnread ==
    ASSUME RelayInv, at \in Unread, at' \in Unread,
           UNCHANGED <<lines, outcome, body, sent, set, gone, profile, credited>>,
           at' \in Unsent => answer'.status # 200,
           at' = "first" => answer'.status = 200, at' = "buffered" => answer'.status # None
    PROVE  RelayInv'
<1>1. /\ at # "ended" /\ at' # "ended" /\ at' \in Phases /\ at' # "stream" /\ at' # "return"
      /\ lines = << >> /\ outcome = "pending"
  BY DEF Unread, Phases, RelayInv
<1>2. BodyFits'
  BY <1>1 DEF RelayInv, BodyFits, PrefixOf
<1>3. OutcomeFits'
  BY <1>1 DEF OutcomeFits, Says, Undecided, Range
<1>4. QED
  BY <1>1, <1>2, <1>3 DEF RelayInv

LEMMA BeforeAnswer ==
    ASSUME RelayInv, Refuse \/ Route \/ Prepare \/ Answered PROVE RelayInv'
<1>1. CASE Refuse
  BY <1>1, EndsUnsent DEF Refuse
<1>2. CASE Route
  <2>1. at = "arrived" /\ UNCHANGED <<asked, upstream, gone, results>>
    BY <1>2 DEF Route
  <2>2. \/ (\E status : RespondOwn(status)) /\ at' = "ended"
        \/ at' = "prepare" /\ UNCHANGED client
    BY <1>2 DEF Route
  <2>3. QED
    BY <2>1, <2>2, EndsUnsent, StaysUnread DEF RelayInv, Unread, Unsent, asked, upstream, client, results
<1>3. CASE Prepare
  <2>1. at = "prepare" /\ UNCHANGED <<asked, upstream, gone, results>>
    BY <1>3 DEF Prepare
  <2>2. \/ UNCHANGED body /\ at' = "ended"
        \/ (\E status : RespondOwn(status)) /\ at' = "ended"
        \/ at' = "send" /\ UNCHANGED client
    BY <1>3 DEF Prepare
  <2>3. QED
    BY <2>1, <2>2, EndsUnsent, StaysUnread DEF RelayInv, Unread, Unsent, asked, upstream, client, results
<1>4. CASE Answered
  <2>1. /\ at = "send" /\ UNCHANGED <<asked, lines, outcome, client, gone, results>>
        /\ at' \in {"first", "buffered"} /\ (at' = "first" => answer'.status = 200)
        /\ answer'.status # None
    BY <1>4 DEF Answered, None
  <2>2. QED
    BY <2>1, StaysUnread DEF Unread, Unsent, asked, client, results
<1>5. QED
  BY <1>1, <1>2, <1>3, <1>4

LEMMA BufferedStep == ASSUME RelayInv, Buffered PROVE RelayInv'
<1>1. /\ at = "buffered" /\ at' = "return" /\ set' = answer.status
      /\ UNCHANGED <<asked, answer, gone, results>>
  BY DEF Buffered
<1>2. PICK n \in 0..MaxLines : \E kinds \in [1..n -> IF answer.stream THEN Lines ELSE {"json"}] :
          /\ lines' = kinds
          /\ outcome' = IF answer.status = 200 THEN Observed(outcome, kinds) ELSE outcome
          /\ Write(kinds)
  BY DEF Buffered
<1>3. PICK kinds \in [1..n -> IF answer.stream THEN Lines ELSE {"json"}] :
          /\ lines' = kinds
          /\ outcome' = IF answer.status = 200 THEN Observed(outcome, kinds) ELSE outcome
          /\ Write(kinds)
  BY <1>2
<1>4. kinds \in Seq(Kinds)
  <2>1. kinds \in [1..n -> Kinds]
    BY DEF Kinds
  <2>2. n \in Nat
    BY RelayConstants
  <2>3. QED
    BY <2>1, <2>2
<1>5. BodyFits /\ ~credited /\ lines = << >> /\ outcome = "pending" /\ answer.status # None
  BY <1>1 DEF RelayInv, Unread
<1>6. lines' = lines \o kinds
  BY <1>3, <1>4, <1>5
<1>7. BodyFits'
  BY <1>1, <1>3, <1>4, <1>5, <1>6, WriteFits
<1>8. OutcomeFits'
  <2>1. CASE answer.status = 200 /\ codex
    <3>1. Says(outcome', lines')
      BY <1>3, <1>4, <1>5, <2>1, ObservedFirst
    <3>2. QED
      BY <1>1, <2>1, <3>1 DEF OutcomeFits, asked, codex
  <2>2. CASE answer.status # 200 \/ ~codex
    <3>1. outcome' = "pending"
      BY <1>3, <1>5, <2>2 DEF Observed
    <3>2. QED
      BY <1>1, <2>2, <3>1 DEF OutcomeFits, asked, codex
  <2>3. QED
    BY <2>1, <2>2
<1>9. QED
  BY <1>1, <1>5, <1>7, <1>8 DEF RelayInv, Phases, Unread, Unsent, results

LEMMA FirstSteps == ASSUME RelayInv, FirstFails \/ Pseudo PROVE RelayInv'
<1>1. /\ at = "first" /\ at' = "return" /\ UNCHANGED <<asked, answer, outcome, gone, results>>
  BY DEF FirstFails, Pseudo
<1>2. /\ BodyFits /\ OutcomeFits /\ ~credited /\ lines = << >> /\ outcome = "pending"
      /\ answer.status = 200 /\ answer.status # None
  BY <1>1 DEF RelayInv, Unread, None
<1>3. CASE FirstFails
  <2>1. UNCHANGED <<lines, client>> /\ end' # "eof"
    BY <1>3 DEF FirstFails
  <2>2. BodyFits' /\ OutcomeFits'
    BY <1>1, <1>2, <2>1 DEF BodyFits, OutcomeFits, client, asked, codex
  <2>3. QED
    BY <1>1, <1>2, <2>1, <2>2 DEF RelayInv, Phases, Unread, Unsent, results
<1>4. CASE Pseudo
  <2>1. set' = answer.status /\ lines' \in {<< >>, <<"json">>} /\ Write(lines')
    BY <1>4 DEF Pseudo
  <2>2. PICK kinds : kinds = lines'
    OBVIOUS
  <2>3. kinds \in Seq(Kinds)
    <3>1. "json" \in Kinds
      BY DEF Kinds
    <3>2. << >> \in Seq(Kinds) /\ <<"json">> \in Seq(Kinds)
      BY <3>1
    <3>3. QED
      BY <2>1, <2>2, <3>2
  <2>4. lines' = lines \o kinds
    BY <1>2, <2>2, <2>3
  <2>5. BodyFits'
    BY <1>1, <1>2, <2>1, <2>2, <2>3, <2>4, WriteFits
  <2>6. Undecided(lines')
    BY <2>1 DEF Undecided, Range
  <2>7. OutcomeFits'
    BY <1>1, <1>2, <2>6 DEF OutcomeFits, Says
  <2>8. QED
    BY <1>1, <1>2, <2>1, <2>5, <2>7 DEF RelayInv, Phases, Unread, Unsent, results
<1>5. QED
  BY <1>3, <1>4

LEMMA ReadLineStep == ASSUME RelayInv, ReadLine PROVE RelayInv'
<1>1. /\ at \in {"first", "stream"} /\ at' \in {"return", "stream"} /\ set' = answer.status
      /\ UNCHANGED <<asked, answer, gone, results>>
  BY DEF ReadLine
<1>2. PICK kind \in Lines :
          /\ lines' = Append(lines, kind)
          /\ outcome' = Observed(outcome, IF kind = "blank" THEN << >> ELSE <<kind>>)
          /\ Write(<<kind>>)
  BY DEF ReadLine
<1>3. /\ BodyFits /\ OutcomeFits /\ ~credited /\ lines \in Seq(Kinds)
      /\ answer.status = 200 /\ answer.status # None
  BY <1>1 DEF RelayInv, BodyFits, None
<1>4. kind \in Kinds /\ <<kind>> \in Seq(Kinds)
  BY DEF Kinds
<1>5. lines' = lines \o <<kind>>
  BY <1>2, <1>3, <1>4
<1>6. BodyFits'
  BY <1>1, <1>2, <1>3, <1>4, <1>5, WriteFits
<1>7. OutcomeFits'
  <2> DEFINE seen == IF kind = "blank" THEN << >> ELSE <<kind>>
  <2>1. outcome' = Observed(outcome, seen)
    BY <1>2
  <2>2. CASE ~codex
    <3>1. outcome' = "pending"
      BY <1>3, <2>1, <2>2 DEF OutcomeFits, Observed
    <3>2. QED
      BY <1>1, <2>2, <3>1 DEF OutcomeFits, asked, codex
  <2>3. CASE codex /\ outcome # "pending"
    <3>1. outcome' = outcome
      BY <2>1, <2>3 DEF Observed
    <3>2. Says(outcome, lines')
      BY <1>3, <1>4, <1>5, <2>3, OutcomeStays DEF OutcomeFits
    <3>3. QED
      BY <1>1, <1>3, <2>3, <3>1, <3>2 DEF OutcomeFits, asked, codex
  <2>4. CASE codex /\ outcome = "pending"
    <3>1. Undecided(lines)
      BY <1>3, <2>4 DEF OutcomeFits, Says
    <3>2. Says(outcome', <<kind>>)
      <4>1. CASE kind = "blank"
        <5>1. outcome' = "pending"
          BY <2>1, <2>4, <4>1 DEF Observed
        <5>2. Undecided(<<kind>>)
          BY <4>1 DEF Undecided, Range
        <5>3. QED
          BY <5>1, <5>2 DEF Says
      <4>2. CASE kind # "blank"
        BY <1>4, <2>1, <2>4, <4>2, ObservedFirst
      <4>3. QED
        BY <4>1, <4>2
    <3>3. Says(outcome', lines')
      BY <1>3, <1>4, <1>5, <3>1, <3>2, OutcomeStays
    <3>4. QED
      BY <1>1, <1>3, <2>4, <3>3 DEF OutcomeFits, asked, codex
  <2>5. QED
    BY <2>2, <2>3, <2>4
<1>8. lines' # << >>
  BY <1>2, <1>3
<1>9. QED
  BY <1>1, <1>3, <1>6, <1>7, <1>8 DEF RelayInv, Phases, Unread, Unsent, results

LEMMA StreamEndsStep == ASSUME RelayInv, StreamEnds PROVE RelayInv'
<1>1. /\ at \in {"first", "stream"} /\ at' = "return" /\ set' = answer.status
      /\ UNCHANGED <<asked, answer, outcome, gone, results>>
  BY DEF StreamEnds
<1>2. PICK part \in {<< >>, <<"part">>} : lines' = lines \o part /\ Write(part)
  BY DEF StreamEnds
<1>3. /\ BodyFits /\ OutcomeFits /\ ~credited /\ lines \in Seq(Kinds)
      /\ answer.status = 200 /\ answer.status # None
  BY <1>1 DEF RelayInv, BodyFits, None
<1>4. part \in Seq(Kinds) /\ Undecided(part)
  <2>1. "part" \in Kinds
    BY DEF Kinds
  <2>2. << >> \in Seq(Kinds) /\ <<"part">> \in Seq(Kinds)
    BY <2>1
  <2>3. Undecided(<< >>) /\ Undecided(<<"part">>)
    BY DEF Undecided, Range
  <2>4. QED
    BY <2>2, <2>3
<1>5. BodyFits'
  BY <1>1, <1>2, <1>3, <1>4, WriteFits
<1>6. OutcomeFits'
  <2>1. ASSUME codex PROVE Says(outcome, lines')
    <3>1. Says(outcome, lines)
      BY <1>3, <2>1 DEF OutcomeFits
    <3>2. Undecided(lines) => Says("pending", part)
      BY <1>4 DEF Says
    <3>3. outcome = "pending" => Undecided(lines)
      BY <3>1 DEF Says
    <3>4. QED
      BY <1>2, <1>3, <1>4, <3>1, <3>2, <3>3, OutcomeStays
  <2>2. QED
    BY <1>1, <1>3, <2>1 DEF OutcomeFits, asked, codex
<1>7. QED
  BY <1>1, <1>3, <1>5, <1>6 DEF RelayInv, Phases, Unread, Unsent, results

\* The status of the writer is sent with the return, or the relay's own error
\* when nothing was sent before.
LEMMA ReturnStep ==
    ASSUME RelayInv, NEW ok \in BOOLEAN, Return(ok), at # "ended",
           (at = "return" /\ (ok <=> Succeeded)) \/ (at = "send" /\ ~ok)
    PROVE  RelayInv'
<1>1. /\ credited' = ok /\ at' = "ended" /\ UNCHANGED <<asked, target, upstream, gone>>
  BY DEF Return
<1>2. BodyFits /\ OutcomeFits /\ Own \notin Range(body) /\ lines \in Seq(Kinds) /\ body \in Seq(Kinds)
  BY OwnIsNoKind DEF RelayInv, BodyFits
<1>3. IsPrefix(body, lines)
  BY <1>2, PrefixIsPrefix DEF BodyFits
<1>7. ok <=> Served
  <2>1. CASE at = "return" /\ (ok <=> Succeeded)
    BY <1>2, <2>1, SucceededIsServed
  <2>2. CASE at = "send" /\ ~ok
    BY <2>2 DEF RelayInv, Unsent, Served
  <2>3. QED
    BY <2>1, <2>2
<1>8. ASSUME UNCHANGED failed PROVE credited' <=> at' = "ended" /\ Served'
  <2>1. Served' <=> Served
    BY <1>1, <1>8 DEF Served, upstream, asked, codex
  <2>2. QED
    BY <1>1, <1>7, <2>1
<1>4. CASE ok \/ Written
  <2>1. sent' = set /\ UNCHANGED <<set, body, failed>>
    BY <1>4 DEF Return
  <2>2. body # << >> => lines # << >>
    BY <1>2 DEF BodyFits, PrefixOf
  <2>3. body # << >> => sent' = answer.status
    BY <1>2, <2>1, <2>2 DEF BodyFits
  <2>4. AnswerIntact'
    BY <1>1, <1>2, <1>3, <2>1, <2>3 DEF AnswerIntact, BodyFits, upstream
  <2>5. ASSUME ok PROVE sent' = 200
    <3>1. answer.status = 200 /\ at = "return"
      BY <1>7, <2>5 DEF Served, RelayInv, Unsent
    <3>2. lines = << >> => end = "eof"
      BY <1>7, <2>5 DEF Served, CompletedFirst
    <3>3. set = 200
      BY <1>2, <3>1, <3>2 DEF BodyFits, RelayInv
    <3>4. QED
      BY <2>1, <3>3
  <2>6. CreditedServed'
    BY <1>1, <1>2, <1>8, <2>1, <2>5 DEF CreditedServed
  <2>7. QED
    BY <1>1, <2>4, <2>6 DEF RelayInv, Phases, Unread, Unsent
<1>5. CASE ~(ok \/ Written)
  <2>1. RespondOwn(502)
    BY <1>5 DEF Return
  <2>2. sent = None
    BY <1>5 DEF Written
  <2>3. body = << >>
    <3>1. SUFFICES ASSUME body # << >> PROVE FALSE
      OBVIOUS
    <3>2. lines # << >>
      BY <1>2, <3>1 DEF BodyFits, PrefixOf
    <3>3. QED
      BY <1>2, <2>2, <3>2 DEF BodyFits
  <2>4. body' = <<Own>> \/ (gone /\ body' = << >>)
    BY <2>1, <2>3 DEF RespondOwn
  <2>5. AnswerIntact'
    BY <1>1, <1>3, <2>3, <2>4 DEF AnswerIntact, upstream
  <2>6. CreditedServed'
    BY <1>1, <1>5, <1>8, <2>1 DEF CreditedServed, RespondOwn
  <2>7. QED
    BY <1>1, <2>5, <2>6 DEF RelayInv, Phases, Unread, Unsent
<1>6. QED
  BY <1>4, <1>5

LEMMA Inductive ==
    /\ Init => RelayInv
    /\ RelayInv /\ [Next]_vars => RelayInv'
    /\ RelayInv => AnswerIntact /\ CreditedServed
<1>1. ASSUME Init PROVE RelayInv
  <2>1. << >> \in Seq(Kinds) /\ PrefixOf(<< >>, << >>)
    BY DEF PrefixOf
  <2>2. BodyFits
    BY <1>1, <2>1 DEF Init, BodyFits
  <2>3. OutcomeFits
    <3>1. outcome = "pending" /\ lines = << >>
      BY <1>1 DEF Init
    <3>2. Undecided(<< >>)
      BY DEF Undecided, Range
    <3>3. QED
      BY <3>1, <3>2 DEF OutcomeFits, Says
  <2>4. answer.status # 200
    <3>1. answer = [status |-> None, stream |-> FALSE]
      BY <1>1 DEF Init
    <3>2. QED
      BY <3>1 DEF None
  <2>5. QED
    BY <1>1, <2>2, <2>3, <2>4 DEF Init, RelayInv, Phases, Unread
<1>2. ASSUME RelayInv, [Next]_vars PROVE RelayInv'
  <2>1. CASE SendFails
    BY <1>2, <2>1, ReturnStep DEF SendFails
  <2>2. CASE Finish
    <3>1. Succeeded \in BOOLEAN /\ Return(Succeeded) /\ at = "return"
      BY <2>2 DEF Finish, Succeeded
    <3>2. QED
      BY <1>2, <3>1, ReturnStep
  <2>3. CASE ClientLeaves
    <3>1. /\ at # "ended" /\ gone' = TRUE
          /\ UNCHANGED <<asked, at, target, upstream, client, results>>
      BY <2>3 DEF ClientLeaves
    <3>2. BodyFits' /\ OutcomeFits' /\ ~credited'
      BY <1>2, <3>1 DEF RelayInv, BodyFits, OutcomeFits, asked, codex, upstream, client, results
    <3>3. QED
      BY <1>2, <3>1, <3>2 DEF RelayInv, asked, upstream, client, results
  <2>4. CASE UNCHANGED vars
    BY <1>2, <2>4 DEF vars, RelayInv, BodyFits, OutcomeFits, codex, AnswerIntact, CreditedServed, Served
  <2>5. QED
    BY <1>2, <2>1, <2>2, <2>3, <2>4, BeforeAnswer, BufferedStep, FirstSteps, ReadLineStep, StreamEndsStep DEF Next
<1>3. RelayInv => AnswerIntact /\ CreditedServed
  BY RunningIntact DEF RelayInv
<1>4. QED
  BY <1>1, <1>2, <1>3

\* The client gets the beginning of what the upstream sent, under its status,
\* or the relay's own error, and never a mixture of both (http.go:74-75).
THEOREM NothingMixedIn == Spec => []AnswerIntact
<1>1. Spec => []RelayInv
  BY Inductive, PTL DEF Spec
<1>2. QED
  BY <1>1, Inductive, PTL

\* Exactly the answers that were served credit their session: none that broke
\* off, that said it failed or was the relay's, and each one Codex left after
\* response.completed (codex_stream.go:17-19, codex_stream_test.go:84).
THEOREM OnlyServedIsCredited == Spec => []CreditedServed
<1>1. Spec => []RelayInv
  BY Inductive, PTL DEF Spec
<1>2. QED
  BY <1>1, Inductive, PTL

-----------------------------------------------------------------------------
(* Types.                                                                  *)

\* Beside the types: nothing is read before the answer is looked at, a stream
\* ends at the bound, and the log is written at the end.
TypeInv ==
    /\ TypeOK
    /\ DOMAIN target = {"provider", "model"}
    /\ at \in Unread => lines = << >>
    /\ at = "stream" => Len(lines) <= MaxLines
    /\ at # "ended" => logged = << >>

\* At most one provider of a platform has the name that is looked for, and it
\* serves the model.
LEMMA ResolveFits ==
    ASSUME NEW f \in Profiles, NEW name, NEW m
    PROVE  /\ ResolveProvider(f, name, m) \subseteq Range(f.providers)
           /\ \A p, q \in ResolveProvider(f, name, m) : p = q
           /\ Cardinality(ResolveProvider(f, name, m)) <= 1
           /\ \A p \in ResolveProvider(f, name, m) : m # << >> => IsModelSupported(p, m)
<1> DEFINE found == ResolveProvider(f, name, m)
<1>1. found \subseteq Range(f.providers) /\ \A p \in found : m # << >> => IsModelSupported(p, m)
  BY DEF ResolveProvider
<1>2. \A p, q \in found : p.name = q.name
  BY DEF ResolveProvider
<1>3. ASSUME NEW p \in found, NEW q \in found PROVE p = q
  <2>1. PICK i, j \in DOMAIN f.providers : p = f.providers[i] /\ q = f.providers[j]
    BY <1>1 DEF Range
  <2>2. i = j
    BY <1>2, <2>1, RelayConstants
  <2>3. QED
    BY <2>1, <2>2
<1>4. Cardinality(found) <= 1
  <2>1. CASE found = {}
    BY <2>1, FS_EmptySet
  <2>2. CASE found # {}
    <3>1. PICK p : found = {p}
      BY <1>3, <2>2
    <3>2. Cardinality({p}) = 1
      BY FS_Singleton
    <3>3. QED
      BY <3>1, <3>2
  <2>3. QED
    BY <2>1, <2>2
<1>5. QED
  BY <1>1, <1>3, <1>4

LEMMA BodyGrows ==
    ASSUME NEW b \in Seq(Bodies), NEW kinds \in Seq(Kinds)
    PROVE  b \o kinds \in Seq(Bodies) /\ Append(b, Own) \in Seq(Bodies)
<1>1. kinds \in Seq(Bodies) /\ Own \in Bodies
  <2>1. Kinds \subseteq Bodies /\ Own \in Bodies
    BY DEF Bodies
  <2>2. QED
    BY <2>1
<1>2. QED
  BY <1>1

\* What is written to the client.
LEMMA WriteTypes ==
    ASSUME ClientTypes, NEW kinds \in Seq(Kinds), Write(kinds), set' \in Codes
    PROVE  ClientTypes'
<1>1. body \o kinds \in Seq(Bodies)
  BY BodyGrows DEF ClientTypes
<1>2. QED
  BY <1>1 DEF Write, ClientTypes

LEMMA RespondTypes ==
    ASSUME ClientTypes, NEW status \in Codes, RespondOwn(status)
    PROVE  ClientTypes'
<1>1. << >> \in Seq(Kinds)
  OBVIOUS
<1>2. Append(body, Own) \in Seq(Bodies)
  BY <1>1, BodyGrows DEF ClientTypes
<1>3. QED
  BY <1>2 DEF RespondOwn, ClientTypes

LEMMA TypeInit == Init => TypeInv
<1>1. << >> \in Seq(Kinds) /\ << >> \in Seq(Bodies) /\ << >> \in Seq({None, 200, 429})
  OBVIOUS
<1>2. Cardinality({}) <= 1
  BY FS_EmptySet
<1>3. ASSUME Init PROVE TypeInv
  <2>1. RequestTypes
    BY <1>2, <1>3 DEF Init, RequestTypes, Phases
  <2>2. AnswerTypes
    <3>1. /\ answer = [status |-> None, stream |-> FALSE]
          /\ lines = << >> /\ end = "open" /\ outcome = "pending"
      BY <1>3 DEF Init
    <3>2. answer.status = None /\ answer.stream = FALSE /\ Len(lines) = 0
      BY <3>1
    <3>3. Len(lines) <= MaxLines + 1
      BY <3>2, RelayConstants
    <3>4. QED
      BY <1>1, <3>1, <3>2, <3>3 DEF AnswerTypes
  <2>3. ClientTypes /\ ResultTypes
    <3>1. /\ set = None /\ sent = None /\ body = << >> /\ failed = FALSE
          /\ logged = << >> /\ credited = FALSE
      BY <1>3 DEF Init
    <3>2. Len(logged) <= 1
      BY <3>1
    <3>3. QED
      BY <1>1, <3>1, <3>2 DEF ClientTypes, ResultTypes, Codes
  <2>4. QED
    BY <1>3, <2>1, <2>2, <2>3 DEF Init, TypeInv, TypeOK
<1>4. QED
  BY <1>3

\* Steps that forward nothing leave the log alone.
LEMMA RoutingTypes ==
    ASSUME TypeInv, Refuse \/ Route \/ Prepare
    PROVE  TypeInv'
<1>1. at \in {"arrived", "prepare"} /\ UNCHANGED <<asked, upstream, gone, results>>
  BY DEF Refuse, Route, Prepare
<1>2. at' \in {"ended", "prepare", "send"} /\ lines = << >> /\ logged = << >>
  BY <1>1 DEF Refuse, Route, Prepare, TypeInv, Unread
<1>3. ClientTypes'
  <2>1. CASE UNCHANGED client
    BY <2>1 DEF client, TypeInv, TypeOK, ClientTypes
  <2>2. ASSUME NEW status \in Codes, RespondOwn(status)
        PROVE  ClientTypes'
    BY <2>2, RespondTypes DEF TypeInv, TypeOK
  <2>3. CASE set' = 500 /\ sent' = 500 /\ UNCHANGED <<body, failed>>
    BY <2>3 DEF TypeInv, TypeOK, ClientTypes, Codes
  <2>4. 400 \in Codes /\ 500 \in Codes /\ 502 \in Codes
    BY DEF Codes
  <2>5. CASE Refuse
    BY <2>2, <2>4, <2>5 DEF Refuse
  <2>6. CASE Route
    BY <2>1, <2>2, <2>4, <2>6 DEF Route
  <2>7. CASE Prepare
    BY <2>1, <2>2, <2>3, <2>4, <2>7 DEF Prepare
  <2>8. QED
    BY <2>5, <2>6, <2>7
<1>4. /\ DOMAIN target' = {"provider", "model"}
      /\ target'.provider \subseteq Range(profile.providers) /\ Cardinality(target'.provider) <= 1
  <2>1. CASE target' = target
    BY <2>1 DEF TypeInv, TypeOK, RequestTypes
  <2>2. CASE Refuse
    BY <2>1, <2>2 DEF Refuse
  <2>3. CASE Route /\ target' # target
    <3>1. PICK name : target' = [provider |-> ResolveProvider(profile, name, model), model |-> << >>]
      BY <2>3 DEF Route
    <3>2. profile \in Profiles
      BY DEF TypeInv, TypeOK, RequestTypes
    <3>3. QED
      BY <3>1, <3>2, ResolveFits
  <2>4. CASE Prepare /\ target' # target
    <3>1. PICK effective : target' = [target EXCEPT !.model = effective]
      BY <2>4 DEF Prepare
    <3>2. DOMAIN target = {"provider", "model"}
      BY DEF TypeInv
    <3>3. target'.provider = target.provider /\ DOMAIN target' = DOMAIN target
      BY <3>1, <3>2
    <3>4. QED
      BY <3>2, <3>3 DEF TypeInv, TypeOK, RequestTypes
  <2>5. QED
    BY <2>1, <2>2, <2>3, <2>4
<1>5. RequestTypes'
  BY <1>1, <1>2, <1>4 DEF TypeInv, TypeOK, RequestTypes, asked, Phases
<1>6. AnswerTypes' /\ ResultTypes'
  BY <1>1 DEF TypeInv, TypeOK, AnswerTypes, ResultTypes, upstream, results
<1>7. QED
  BY <1>1, <1>2, <1>3, <1>4, <1>5, <1>6 DEF TypeInv, TypeOK, upstream, results

\* Lines are read while a bound holds, and added to those of before.
LEMMA LinesGrow ==
    ASSUME AnswerTypes, NEW kinds \in Seq(Kinds), lines' = lines \o kinds,
           Len(lines) + Len(kinds) <= MaxLines + 1
    PROVE  lines' \in Seq(Kinds) /\ Len(lines') = Len(lines) + Len(kinds)
<1>1. lines \in Seq(Kinds)
  BY DEF AnswerTypes
<1>2. QED
  BY <1>1

\* A step that reads some of the answer.
LEMMA Reads ==
    ASSUME TypeInv, NEW kinds \in Seq(Kinds), Write(kinds), lines' = lines \o kinds,
           at \in {"buffered", "first", "stream"}, at' \in {"stream", "return"},
           Len(lines) + Len(kinds) <= MaxLines + 1, at' = "stream" => Len(lines) + Len(kinds) <= MaxLines,
           set' = answer.status, UNCHANGED <<asked, target, answer, gone, results>>,
           end' \in {"open", "eof", "broken", "canceled"},
           outcome' \in {"pending", "completed", "failed"}
    PROVE  TypeInv'
<1>1. AnswerTypes /\ ClientTypes
  BY DEF TypeInv, TypeOK
<1>2. lines' \in Seq(Kinds) /\ Len(lines') = Len(lines) + Len(kinds)
  BY <1>1, LinesGrow
<1>3. AnswerTypes'
  BY <1>1, <1>2 DEF AnswerTypes
<1>4. ClientTypes'
  <2>1. answer.status \in Codes
    BY <1>1 DEF AnswerTypes, Codes
  <2>2. QED
    BY <1>1, <2>1, WriteTypes
<1>5. RequestTypes' /\ ResultTypes'
  BY DEF TypeInv, TypeOK, RequestTypes, ResultTypes, asked, results, Phases
<1>6. QED
  BY <1>2, <1>3, <1>4, <1>5 DEF TypeInv, TypeOK, Unread, results

LEMMA ObservedType ==
    ASSUME NEW before, NEW kinds \in Seq(Kinds), before \in {"pending", "completed", "failed"}
    PROVE  Observed(before, kinds) \in {"pending", "completed", "failed"}
<1>1. CASE before # "pending"
  BY <1>1 DEF Observed
<1>2. CASE before = "pending" /\ codex
  BY <1>2, ObservedFirst DEF Says
<1>4. CASE ~codex
  BY <1>4 DEF Observed
<1>3. QED
  BY <1>1, <1>2, <1>4

LEMMA OneLine ==
    ASSUME NEW kind \in Kinds, NEW s \in {<< >>, <<kind>>}
    PROVE  s \in Seq(Kinds) /\ Len(s) <= 1 /\ Len(s) \in Nat
<1>1. CASE s = << >>
  BY <1>1
<1>2. CASE s = <<kind>>
  BY <1>2
<1>3. QED
  BY <1>1, <1>2

LEMMA ReadingTypes ==
    ASSUME TypeInv, Buffered \/ FirstFails \/ Pseudo \/ ReadLine \/ StreamEnds
    PROVE  TypeInv'
<1>1. /\ lines \in Seq(Kinds) /\ Len(lines) \in Nat /\ AnswerTypes /\ MaxLines \in Nat
      /\ end \in {"open", "eof", "broken", "canceled"}
      /\ outcome \in {"pending", "completed", "failed"}
      /\ << >> \in Seq(Kinds) /\ "part" \in Kinds /\ "json" \in Kinds /\ Lines \subseteq Kinds
  BY RelayConstants DEF TypeInv, TypeOK, AnswerTypes, Kinds
<1>2. Ends \subseteq {"open", "eof", "broken", "canceled"}
  BY DEF Ends
<1>3. at = "first" => lines = << >>
  BY DEF TypeInv, Unread
<1>4. CASE Buffered
  <2>1. /\ at = "buffered" /\ at' = "return" /\ set' = answer.status /\ end' \in Ends
        /\ UNCHANGED <<asked, target, answer, gone, results>>
    BY <1>4 DEF Buffered
  <2>2. PICK n \in 0..MaxLines :
            \E kinds \in [1..n -> IF answer.stream THEN Lines ELSE {"json"}] :
              /\ lines' = kinds
              /\ outcome' = IF answer.status = 200 THEN Observed(outcome, kinds) ELSE outcome
              /\ Write(kinds)
    BY <1>4 DEF Buffered
  <2>3. PICK kinds \in [1..n -> IF answer.stream THEN Lines ELSE {"json"}] :
            /\ lines' = kinds
            /\ outcome' = IF answer.status = 200 THEN Observed(outcome, kinds) ELSE outcome
            /\ Write(kinds)
    BY <2>2
  <2>4. kinds \in Seq(Kinds) /\ Len(kinds) = n /\ n \in Nat
    <3>1. kinds \in [1..n -> Kinds] /\ n \in Nat
      BY <1>1
    <3>2. QED
      BY <3>1
  <2>5. lines = << >>
    BY <2>1 DEF TypeInv, Unread
  <2>6. lines' = lines \o kinds
    BY <2>3, <2>4, <2>5
  <2>7. Len(lines) + Len(kinds) <= MaxLines + 1
    BY <1>1, <2>4, <2>5
  <2>8. outcome' \in {"pending", "completed", "failed"}
    BY <1>1, <2>3, <2>4, ObservedType
  <2>9. QED
    BY <1>2, <2>1, <2>3, <2>4, <2>6, <2>7, <2>8, Reads
<1>5. CASE FirstFails
  <2>1. /\ at = "first" /\ at' = "return" /\ end' \in Ends
        /\ UNCHANGED <<asked, target, answer, lines, outcome, client, gone, results>>
    BY <1>5 DEF FirstFails
  <2>2. AnswerTypes' /\ ClientTypes' /\ RequestTypes' /\ ResultTypes'
    BY <1>2, <2>1 DEF TypeInv, TypeOK, AnswerTypes, ClientTypes, RequestTypes, ResultTypes,
                      asked, client, results, Phases
  <2>3. QED
    BY <2>1, <2>2 DEF TypeInv, TypeOK, Unread, results
<1>6. CASE Pseudo
  <2>1. /\ at = "first" /\ at' = "return" /\ set' = answer.status /\ end' = "eof"
        /\ lines' \in {<< >>, <<"json">>} /\ Write(lines')
        /\ UNCHANGED <<asked, target, answer, outcome, gone, results>>
    BY <1>6 DEF Pseudo
  <2>2. PICK kinds : kinds = lines'
    OBVIOUS
  <2>3. kinds \in Seq(Kinds) /\ Len(kinds) <= 1 /\ Len(kinds) \in Nat
    BY <1>1, <2>1, <2>2, OneLine
  <2>4. lines' = lines \o kinds /\ Len(lines) = 0
    BY <1>3, <2>1, <2>2, <2>3
  <2>5. Len(lines) + Len(kinds) <= MaxLines + 1
    BY <1>1, <2>3, <2>4
  <2>6. QED
    BY <1>1, <2>1, <2>2, <2>3, <2>4, <2>5, Reads
<1>7. CASE ReadLine
  <2>1. /\ at \in {"first", "stream"} /\ at' \in {"return", "stream"} /\ set' = answer.status
        /\ Len(lines) < MaxLines
        /\ UNCHANGED <<asked, target, answer, end, gone, results>>
    BY <1>7 DEF ReadLine
  <2>2. PICK kind \in Lines :
            /\ lines' = Append(lines, kind)
            /\ outcome' = Observed(outcome, IF kind = "blank" THEN << >> ELSE <<kind>>)
            /\ Write(<<kind>>)
    BY <1>7 DEF ReadLine
  <2>3. <<kind>> \in Seq(Kinds) /\ Len(<<kind>>) = 1
    BY <1>1
  <2>4. lines' = lines \o <<kind>>
    BY <1>1, <2>2, <2>3
  <2>5. Len(lines) + Len(<<kind>>) <= MaxLines + 1 /\ Len(lines) + Len(<<kind>>) <= MaxLines
    BY <1>1, <2>1, <2>3
  <2>6. outcome' \in {"pending", "completed", "failed"}
    BY <1>1, <2>2, <2>3, ObservedType
  <2>7. QED
    BY <1>1, <2>1, <2>2, <2>3, <2>4, <2>5, <2>6, Reads
<1>8. CASE StreamEnds
  <2>1. /\ at \in {"first", "stream"} /\ at' = "return" /\ set' = answer.status /\ end' \in Ends
        /\ UNCHANGED <<asked, target, answer, outcome, gone, results>>
    BY <1>8 DEF StreamEnds
  <2>2. PICK part \in {<< >>, <<"part">>} : lines' = lines \o part /\ Write(part)
    BY <1>8 DEF StreamEnds
  <2>3. part \in Seq(Kinds) /\ Len(part) <= 1 /\ Len(part) \in Nat
    BY <1>1, OneLine
  <2>4. Len(lines) <= MaxLines
    BY <1>1, <1>3, <2>1 DEF TypeInv
  <2>5. Len(lines) + Len(part) <= MaxLines + 1
    BY <1>1, <2>3, <2>4
  <2>6. QED
    BY <1>1, <1>2, <2>1, <2>2, <2>3, <2>5, Reads
<1>9. QED
  BY <1>4, <1>5, <1>6, <1>7, <1>8

\* The handler returns: one log record if the request was forwarded.
LEMMA ReturnTypes ==
    ASSUME TypeInv, NEW ok \in BOOLEAN, Return(ok), at # "ended"
    PROVE  TypeInv'
<1>1. /\ logged' = Append(logged, answer.status) /\ credited' = ok /\ at' = "ended"
      /\ UNCHANGED <<asked, target, upstream, gone>>
  BY DEF Return
<1>2. ResultTypes'
  <2>1. logged = << >> /\ answer.status \in {None, 200, 429}
    BY DEF TypeInv, TypeOK, AnswerTypes
  <2>2. logged' = <<answer.status>>
    BY <1>1, <2>1
  <2>3. logged' \in Seq({None, 200, 429}) /\ Len(logged') <= 1
    BY <2>1, <2>2
  <2>4. QED
    BY <1>1, <2>3 DEF ResultTypes
<1>3. ClientTypes'
  <2>1. CASE sent' = set /\ UNCHANGED <<set, body, failed>>
    BY <2>1 DEF TypeInv, TypeOK, ClientTypes
  <2>2. CASE RespondOwn(502)
    <3>1. 502 \in Codes /\ ClientTypes
      BY DEF Codes, TypeInv, TypeOK
    <3>2. QED
      BY <2>2, <3>1, RespondTypes
  <2>3. QED
    BY <2>1, <2>2 DEF Return
<1>4. RequestTypes' /\ AnswerTypes'
  BY <1>1 DEF TypeInv, TypeOK, RequestTypes, AnswerTypes, asked, upstream, Phases
<1>5. QED
  BY <1>1, <1>2, <1>3, <1>4 DEF TypeInv, TypeOK, Unread

\* A step that only the client sees.
LEMMA TypesStay ==
    ASSUME TypeInv, gone' \in BOOLEAN, UNCHANGED <<asked, at, target, upstream, client, results>>
    PROVE  TypeInv'
<1>1. RequestTypes'
  BY DEF TypeInv, TypeOK, RequestTypes, asked
<1>2. AnswerTypes'
  BY DEF TypeInv, TypeOK, AnswerTypes, upstream
<1>3. ClientTypes'
  BY DEF TypeInv, TypeOK, ClientTypes, client
<1>4. ResultTypes'
  BY DEF TypeInv, TypeOK, ResultTypes, results
<1>5. /\ DOMAIN target' = {"provider", "model"}
      /\ at' \in Unread => lines' = << >>
      /\ at' = "stream" => Len(lines') <= MaxLines
      /\ at' # "ended" => logged' = << >>
  BY DEF TypeInv, upstream, results
<1>6. QED
  BY <1>1, <1>2, <1>3, <1>4, <1>5 DEF TypeInv, TypeOK, Unread

LEMMA TypeStep == TypeInv /\ [Next]_vars => TypeInv'
<1>1. SUFFICES ASSUME TypeInv, [Next]_vars PROVE TypeInv'
  OBVIOUS
<1>2. CASE SendFails
  BY <1>1, <1>2, ReturnTypes DEF SendFails
<1>3. CASE Finish
  <2>1. Succeeded \in BOOLEAN /\ Return(Succeeded) /\ at = "return"
    BY <1>3 DEF Finish, Succeeded
  <2>2. QED
    BY <1>1, <2>1, ReturnTypes
<1>4. CASE Answered
  <2>1. /\ at = "send" /\ at' \in {"first", "buffered"}
        /\ UNCHANGED <<asked, target, lines, end, outcome, client, gone, results>>
    BY <1>4 DEF Answered
  <2>2. answer'.status \in {None, 200, 429} /\ answer'.stream \in BOOLEAN
    BY <1>4 DEF Answered
  <2>3. AnswerTypes' /\ ClientTypes' /\ RequestTypes' /\ ResultTypes'
    BY <1>1, <2>1, <2>2 DEF TypeInv, TypeOK, AnswerTypes, ClientTypes, RequestTypes, ResultTypes,
                            asked, client, results, Phases
  <2>4. QED
    BY <1>1, <2>1, <2>3 DEF TypeInv, TypeOK, Unread, results
<1>5. CASE ClientLeaves
  <2>1. gone' = TRUE /\ UNCHANGED <<asked, at, target, upstream, client, results>>
    BY <1>5 DEF ClientLeaves
  <2>2. QED
    BY <1>1, <2>1, TypesStay
<1>6. CASE UNCHANGED vars
  <2>1. gone' \in BOOLEAN
    BY <1>1, <1>6 DEF vars, TypeInv, TypeOK
  <2>2. UNCHANGED <<asked, at, target, upstream, client, results>>
    BY <1>6 DEF vars, asked, upstream, client, results
  <2>3. QED
    BY <1>1, <2>1, <2>2, TypesStay
<1>7. QED
  BY <1>1, <1>2, <1>3, <1>4, <1>5, <1>6, RoutingTypes, ReadingTypes DEF Next

\* Type correctness; one of the clauses is that a request is logged at most
\* once, another that it is sent to at most one provider.
THEOREM TypeCorrect == Spec => []TypeOK
<1>1. Spec => []TypeInv
  BY TypeInit, TypeStep, PTL DEF Spec
<1>2. TypeInv => TypeOK
  BY DEF TypeInv
<1>3. QED
  BY <1>1, <1>2, PTL

-----------------------------------------------------------------------------
(* The order of patterns is a strict total one.                             *)

LEMMA HasLeast ==
    ASSUME NEW S \in SUBSET Nat, S # {}
    PROVE  \E x \in S : \A y \in S : x <= y
<1>1. PICK x \in S : \A y \in S : <<y, x>> \notin OpToRel(<, Nat)
  BY NatLessThanWellFounded, WFMin
<1>2. \A y \in S : ~(y < x)
  BY <1>1 DEF OpToRel
<1>3. QED
  BY <1>2

LEMMA MinOfTwo ==
    ASSUME NEW m \in Nat, NEW n \in Nat
    PROVE  Min({m, n}) \in {m, n} /\ Min({m, n}) <= m /\ Min({m, n}) <= n
<1>1. \E x \in {m, n} : \A y \in {m, n} : x <= y
  <2>1. CASE m <= n
    BY <2>1
  <2>2. CASE n <= m
    BY <2>2
  <2>3. QED
    BY <2>1, <2>2
<1>2. Min({m, n}) \in {m, n} /\ \A y \in {m, n} : Min({m, n}) <= y
  BY <1>1 DEF Min
<1>3. QED
  BY <1>2

\* Where a and b part: after k characters, at a's end or at a smaller character.
PartAt(a, b, k) ==
    /\ k <= Len(a) /\ k < Len(b)
    /\ \A i \in 1..k : a[i] = b[i]
    /\ k < Len(a) => a[k + 1] < b[k + 1]

\* The byte-wise order of Go's strings, by the place where two of them part.
LEMMA PrecedesParts ==
    ASSUME NEW a \in Seq(Nat), NEW b \in Seq(Nat)
    PROVE  Precedes(a, b) <=> \E k \in Nat : PartAt(a, b, k)
<1> DEFINE short == Min({Len(a), Len(b)})
<1>1. short \in {Len(a), Len(b)} /\ short <= Len(a) /\ short <= Len(b) /\ short \in Nat
  <2>1. Len(a) \in Nat /\ Len(b) \in Nat
    OBVIOUS
  <2>2. short \in {Len(a), Len(b)} /\ short <= Len(a) /\ short <= Len(b)
    BY <2>1, MinOfTwo
  <2>3. QED
    BY <2>1, <2>2
<1> HIDE DEF short
<1>2. ASSUME Precedes(a, b) PROVE \E k \in Nat : PartAt(a, b, k)
  <2>1. CASE Len(a) < Len(b) /\ IsPrefix(a, b)
    <3>1. \A i \in 1..Len(a) : SubSeq(a, 1, Len(a))[i] = a[i] /\ SubSeq(b, 1, Len(a))[i] = b[i]
      BY <2>1
    <3>2. \A i \in 1..Len(a) : a[i] = b[i]
      BY <2>1, <3>1 DEF IsPrefix
    <3>3. PartAt(a, b, Len(a))
      BY <2>1, <3>2 DEF PartAt
    <3>4. QED
      BY <3>3
  <2>2. CASE \E i \in 1..short : a[i] < b[i] /\ SubSeq(a, 1, i - 1) = SubSeq(b, 1, i - 1)
    <3>1. PICK i \in 1..short : a[i] < b[i] /\ SubSeq(a, 1, i - 1) = SubSeq(b, 1, i - 1)
      BY <2>2
    <3>2. i - 1 \in Nat /\ i - 1 < Len(a) /\ i - 1 < Len(b) /\ (i - 1) + 1 = i
      BY <1>1, <3>1
    <3>3. \A j \in 1..(i - 1) :
             SubSeq(a, 1, i - 1)[j] = a[j] /\ SubSeq(b, 1, i - 1)[j] = b[j]
      BY <3>2
    <3>4. PartAt(a, b, i - 1)
      BY <3>1, <3>2, <3>3 DEF PartAt
    <3>5. QED
      BY <3>2, <3>4
  <2>3. QED
    BY <1>2, <2>1, <2>2 DEF Precedes, short
<1>3. ASSUME NEW k \in Nat, PartAt(a, b, k) PROVE Precedes(a, b)
  <2>1. CASE k < Len(a)
    <3>1. k + 1 \in 1..short /\ a[k + 1] < b[k + 1] /\ (k + 1) - 1 = k
      BY <1>1, <1>3, <2>1 DEF PartAt
    <3>2. SubSeq(a, 1, k) = SubSeq(b, 1, k)
      BY <1>3, <2>1 DEF PartAt
    <3>3. QED
      BY <3>1, <3>2 DEF Precedes, short
  <2>2. CASE k = Len(a)
    <3>1. SubSeq(a, 1, Len(a)) = SubSeq(b, 1, Len(a))
      BY <1>3, <2>2 DEF PartAt
    <3>2. QED
      BY <1>3, <2>2, <3>1 DEF Precedes, PartAt, IsPrefix
  <2>3. QED
    BY <1>3, <2>1, <2>2 DEF PartAt
<1>4. QED
  BY <1>2, <1>3

LEMMA PrecedesAsym ==
    ASSUME NEW a \in Seq(Nat), NEW b \in Seq(Nat), Precedes(a, b)
    PROVE  ~Precedes(b, a)
<1>1. SUFFICES ASSUME Precedes(b, a) PROVE FALSE
  OBVIOUS
<1>2. PICK k \in Nat : PartAt(a, b, k)
  BY PrecedesParts
<1>3. PICK j \in Nat : PartAt(b, a, j)
  BY <1>1, PrecedesParts
<1>4. CASE k < j
  <2>1. k < Len(a) /\ k + 1 \in 1..j
    BY <1>3, <1>4 DEF PartAt
  <2>2. a[k + 1] < b[k + 1] /\ b[k + 1] = a[k + 1]
    BY <1>2, <1>3, <2>1 DEF PartAt
  <2>3. a[k + 1] \in Nat
    BY <2>1
  <2>4. QED
    BY <2>2, <2>3
<1>5. CASE j < k
  <2>1. j < Len(b) /\ j + 1 \in 1..k
    BY <1>2, <1>5 DEF PartAt
  <2>2. b[j + 1] < a[j + 1] /\ a[j + 1] = b[j + 1]
    BY <1>2, <1>3, <2>1 DEF PartAt
  <2>3. b[j + 1] \in Nat
    BY <2>1
  <2>4. QED
    BY <2>2, <2>3
<1>6. CASE j = k
  <2>1. k < Len(a) /\ k < Len(b)
    BY <1>2, <1>3, <1>6 DEF PartAt
  <2>2. a[k + 1] < b[k + 1] /\ b[k + 1] < a[k + 1] /\ a[k + 1] \in Nat /\ b[k + 1] \in Nat
    BY <1>2, <1>3, <1>6, <2>1 DEF PartAt
  <2>3. QED
    BY <2>2
<1>7. QED
  BY <1>4, <1>5, <1>6

LEMMA PrecedesTrans ==
    ASSUME NEW a \in Seq(Nat), NEW b \in Seq(Nat), NEW c \in Seq(Nat),
           Precedes(a, b), Precedes(b, c)
    PROVE  Precedes(a, c)
<1>1. PICK k \in Nat : PartAt(a, b, k)
  BY PrecedesParts
<1>2. PICK j \in Nat : PartAt(b, c, j)
  BY PrecedesParts
<1>3. CASE k < j
  <2>1. k + 1 \in 1..j /\ \A i \in 1..k : i \in 1..j
    BY <1>3
  <2>2. PartAt(a, c, k)
    BY <1>1, <1>2, <1>3, <2>1 DEF PartAt
  <2>3. QED
    BY <2>2, PrecedesParts
<1>4. CASE j < k
  <2>1. j + 1 \in 1..k /\ \A i \in 1..j : i \in 1..k
    BY <1>4
  <2>2. j < Len(a) /\ j < Len(b) /\ a[j + 1] = b[j + 1] /\ b[j + 1] < c[j + 1]
    BY <1>1, <1>2, <1>4, <2>1 DEF PartAt
  <2>3. PartAt(a, c, j)
    BY <1>1, <1>2, <1>4, <2>1, <2>2 DEF PartAt
  <2>4. QED
    BY <2>3, PrecedesParts
<1>5. CASE j = k
  <2>1. k < Len(b) /\ k < Len(c) /\ k <= Len(a) /\ b[k + 1] < c[k + 1]
    BY <1>1, <1>2, <1>5 DEF PartAt
  <2>2. k < Len(a) => a[k + 1] < c[k + 1]
    <3>1. HAVE k < Len(a)
    <3>2. a[k + 1] < b[k + 1]
      BY <1>1, <3>1 DEF PartAt
    <3>3. a[k + 1] \in Nat /\ b[k + 1] \in Nat /\ c[k + 1] \in Nat
      BY <2>1, <3>1
    <3>4. QED
      BY <2>1, <3>2, <3>3
  <2>3. PartAt(a, c, k)
    BY <1>1, <1>2, <1>5, <2>1, <2>2 DEF PartAt
  <2>4. QED
    BY <2>3, PrecedesParts
<1>6. QED
  BY <1>3, <1>4, <1>5

LEMMA PrecedesTotal ==
    ASSUME NEW a \in Seq(Nat), NEW b \in Seq(Nat), a # b
    PROVE  Precedes(a, b) \/ Precedes(b, a)
<1> DEFINE differ == {k \in Nat : k >= Len(a) \/ k >= Len(b) \/ a[k + 1] # b[k + 1]}
<1>1. Len(a) \in differ /\ Len(b) \in differ
  OBVIOUS
<1>2. PICK k \in differ : \A y \in differ : k <= y
  BY <1>1, HasLeast
<1>3. /\ k \in Nat /\ k <= Len(a) /\ k <= Len(b)
      /\ k >= Len(a) \/ k >= Len(b) \/ a[k + 1] # b[k + 1]
  BY <1>1, <1>2
<1>4. \A i \in 1..k : a[i] = b[i]
  <2>1. TAKE i \in 1..k
  <2>2. i - 1 \in Nat /\ i - 1 < k /\ (i - 1) + 1 = i
    BY <1>3
  <2>3. ~(k <= i - 1)
    BY <1>3, <2>2
  <2>4. i - 1 \notin differ
    <3> HIDE DEF differ
    <3>1. QED
      BY <1>2, <2>3
  <2>5. QED
    BY <2>2, <2>4
<1>5. CASE k < Len(a) /\ k < Len(b)
  <2>1. a[k + 1] \in Nat /\ b[k + 1] \in Nat /\ a[k + 1] # b[k + 1]
    BY <1>3, <1>5
  <2>2. PartAt(a, b, k) \/ PartAt(b, a, k)
    BY <1>3, <1>4, <1>5, <2>1 DEF PartAt
  <2>3. QED
    BY <1>3, <2>2, PrecedesParts
<1>6. CASE k = Len(a) /\ k < Len(b)
  <2>1. PartAt(a, b, k)
    BY <1>3, <1>4, <1>6 DEF PartAt
  <2>2. QED
    BY <1>3, <2>1, PrecedesParts
<1>7. CASE k < Len(a) /\ k = Len(b)
  <2>1. PartAt(b, a, k)
    BY <1>3, <1>4, <1>7 DEF PartAt
  <2>2. QED
    BY <1>3, <2>1, PrecedesParts
<1>8. CASE k = Len(a) /\ k = Len(b)
  <2>1. Len(a) = Len(b) /\ \A i \in 1..Len(a) : a[i] = b[i]
    BY <1>4, <1>8
  <2>2. a \in [1..Len(a) -> Nat] /\ b \in [1..Len(b) -> Nat]
    OBVIOUS
  <2>3. a = [i \in 1..Len(a) |-> a[i]] /\ b = [i \in 1..Len(a) |-> b[i]]
    BY <2>1, <2>2, Zenon
  <2>4. a = b
    BY <2>1, <2>3, Zenon
  <2>5. QED
    BY <2>4
<1>9. QED
  BY <1>3, <1>5, <1>6, <1>7, <1>8

\* A pattern has finitely many stars, so its literal characters can be counted.
LEMMA LiteralsInt ==
    ASSUME NEW a \in Seq(Nat)
    PROVE  Literals(a) \in Int
<1>1. Len(a) \in Nat /\ Stars(a) \in SUBSET (1..Len(a))
  BY DEF Stars
<1>2. IsFiniteSet(1..Len(a))
  BY <1>1, FS_Interval
<1>3. IsFiniteSet(Stars(a))
  BY <1>1, <1>2, FS_Subset
<1>4. Cardinality(Stars(a)) \in Nat
  BY <1>3, FS_CardinalityType
<1>5. QED
  BY <1>1, <1>4 DEF Literals

LEMMA SpecificAsym ==
    ASSUME NEW a \in Seq(Nat), NEW b \in Seq(Nat), WildcardMoreSpecific(a, b)
    PROVE  ~WildcardMoreSpecific(b, a)
<1>1. Literals(a) \in Int /\ Literals(b) \in Int
  BY LiteralsInt
<1>2. QED
  BY <1>1, PrecedesAsym DEF WildcardMoreSpecific

LEMMA SpecificTrans ==
    ASSUME NEW a \in Seq(Nat), NEW b \in Seq(Nat), NEW c \in Seq(Nat),
           WildcardMoreSpecific(a, b), WildcardMoreSpecific(b, c)
    PROVE  WildcardMoreSpecific(a, c)
<1>1. Literals(a) \in Int /\ Literals(b) \in Int /\ Literals(c) \in Int
  BY LiteralsInt
<1>2. Precedes(a, b) /\ Precedes(b, c) => Precedes(a, c)
  BY PrecedesTrans
<1>3. QED
  BY <1>1, <1>2 DEF WildcardMoreSpecific

LEMMA SpecificTotal ==
    ASSUME NEW a \in Seq(Nat), NEW b \in Seq(Nat), a # b
    PROVE  WildcardMoreSpecific(a, b) \/ WildcardMoreSpecific(b, a)
<1>1. Literals(a) \in Int /\ Literals(b) \in Int
  BY LiteralsInt
<1>2. Precedes(a, b) \/ Precedes(b, a)
  BY PrecedesTotal
<1>3. QED
  BY <1>1, <1>2 DEF WildcardMoreSpecific

-----------------------------------------------------------------------------
(* The search finds the most specific pattern, in whatever order it goes.    *)

\* What the search holds after pattern i, from what it held before.
Better(matching, order, i, before) ==
    IF order[i] \in matching /\ (before = << >> \/ WildcardMoreSpecific(order[i], before))
    THEN order[i] ELSE before

IsSearch(b, matching, order, n) ==
    b = [i \in 0..n |-> IF i = 0 THEN << >> ELSE Better(matching, order, i, b[i - 1])]

LEMMA SearchGrows ==
    ASSUME NEW matching, NEW order, NEW n \in Nat, NEW f, IsSearch(f, matching, order, n)
    PROVE  \E g : IsSearch(g, matching, order, n + 1)
<1> DEFINE g == [i \in 0..(n + 1) |-> IF i = n + 1 THEN Better(matching, order, n + 1, f[n]) ELSE f[i]]
           step == [i \in 0..(n + 1) |->
                      IF i = 0 THEN << >> ELSE Better(matching, order, i, g[i - 1])]
<1>1. \A i \in 0..n : f[i] = IF i = 0 THEN << >> ELSE Better(matching, order, i, f[i - 1])
  BY DEF IsSearch
<1>2. \A i \in 0..n : g[i] = f[i]
  OBVIOUS
<1>3. g[n + 1] = Better(matching, order, n + 1, f[n])
  OBVIOUS
<1> HIDE DEF g
<1>4. ASSUME NEW i \in 0..(n + 1)
      PROVE  g[i] = IF i = 0 THEN << >> ELSE Better(matching, order, i, g[i - 1])
  <2>1. CASE i = 0
    <3>1. i \in 0..n
      BY <2>1
    <3>2. QED
      BY <1>1, <1>2, <2>1, <3>1
  <2>2. CASE i = n + 1
    <3>1. i # 0 /\ i - 1 = n /\ n \in 0..n
      BY <2>2
    <3>2. QED
      BY <1>2, <1>3, <2>2, <3>1
  <2>3. CASE i # 0 /\ i # n + 1
    <3>1. i \in 0..n /\ i - 1 \in 0..n
      BY <2>3
    <3>2. f[i] = Better(matching, order, i, f[i - 1])
      BY <1>1, <2>3, <3>1
    <3>3. QED
      BY <1>2, <2>3, <3>1, <3>2
  <2>4. QED
    BY <2>1, <2>2, <2>3
<1>5. g = [i \in 0..(n + 1) |-> g[i]]
  BY DEF g
<1>6. g = step
  BY <1>4, <1>5, Zenon
<1>7. QED
  BY <1>6 DEF IsSearch

\* The recursion has a solution: there is no first n without one.
LEMMA SearchExists ==
    ASSUME NEW matching, NEW order, NEW n \in Nat
    PROVE  \E g : IsSearch(g, matching, order, n)
<1> DEFINE without == {k \in Nat : ~\E g : IsSearch(g, matching, order, k)}
<1>1. SUFFICES ASSUME without # {} PROVE FALSE
  OBVIOUS
<1>2. PICK k \in without : \A y \in without : k <= y
  BY <1>1, HasLeast
<1>3. k \in Nat /\ ~\E g : IsSearch(g, matching, order, k)
  BY <1>2
<1>4. CASE k = 0
  <2> DEFINE g == [i \in 0..0 |-> << >>]
  <2>1. g = [i \in 0..0 |-> IF i = 0 THEN << >> ELSE Better(matching, order, i, g[i - 1])]
    OBVIOUS
  <2>2. IsSearch(g, matching, order, 0)
    BY <2>1 DEF IsSearch
  <2>3. QED
    BY <1>3, <1>4, <2>2
<1>5. CASE k # 0
  <2>1. k - 1 \in Nat /\ ~(k <= k - 1) /\ (k - 1) + 1 = k
    BY <1>3, <1>5
  <2>2. k - 1 \notin without
    <3> HIDE DEF without
    <3>1. QED
      BY <1>2, <2>1
  <2>3. PICK f : IsSearch(f, matching, order, k - 1)
    BY <2>1, <2>2
  <2>4. QED
    BY <1>3, <2>1, <2>3, SearchGrows
<1>6. QED
  BY <1>4, <1>5

\* What the search holds after i patterns is the best of them that match.
Leads(b, matching, order, i) ==
    /\ b[i] # << >> => b[i] \in matching /\ \E j \in 1..i : order[j] = b[i]
    /\ \A j \in 1..i : order[j] \in matching =>
          b[i] # << >> /\ (order[j] = b[i] \/ WildcardMoreSpecific(b[i], order[j]))

\* The patterns that match, and the order of the map: nothing but patterns.
Searchable(matching, order) ==
    /\ << >> \notin matching
    /\ \A i \in 1..Len(order) : order[i] \in Seq(Nat)
    /\ Len(order) \in Nat

LEMMA LeadsNext ==
    ASSUME NEW matching, NEW order, Searchable(matching, order),
           NEW b, IsSearch(b, matching, order, Len(order)),
           NEW i \in 1..Len(order), Leads(b, matching, order, i - 1)
    PROVE  Leads(b, matching, order, i)
<1>1. /\ i \in 0..Len(order) /\ i # 0 /\ i \in 1..i /\ order[i] \in Seq(Nat)
      /\ \A j \in 1..i : j = i \/ j \in 1..(i - 1)
      /\ \A j \in 1..(i - 1) : j \in 1..i /\ j \in 1..Len(order)
  BY DEF Searchable
<1>2. b[i] = Better(matching, order, i, b[i - 1])
  BY <1>1 DEF IsSearch
<1>3. CASE order[i] \notin matching
  <2>1. b[i] = b[i - 1]
    BY <1>2, <1>3 DEF Better
  <2>2. QED
    BY <1>1, <1>3, <2>1 DEF Leads
<1>4. CASE order[i] \in matching /\ b[i - 1] = << >>
  <2>1. b[i] = order[i] /\ b[i] # << >>
    BY <1>2, <1>4 DEF Better, Searchable
  <2>2. \A j \in 1..(i - 1) : order[j] \notin matching
    BY <1>4 DEF Leads
  <2>3. QED
    BY <1>1, <1>4, <2>1, <2>2 DEF Leads
<1>5. CASE order[i] \in matching /\ b[i - 1] # << >> /\ WildcardMoreSpecific(order[i], b[i - 1])
  <2>1. b[i] = order[i] /\ b[i] # << >>
    BY <1>2, <1>5 DEF Better, Searchable
  <2>2. b[i - 1] \in Seq(Nat)
    BY <1>1, <1>5 DEF Leads, Searchable
  <2>3. ASSUME NEW j \in 1..(i - 1), order[j] \in matching
        PROVE  WildcardMoreSpecific(b[i], order[j])
    <3>1. order[j] = b[i - 1] \/ WildcardMoreSpecific(b[i - 1], order[j])
      BY <2>3 DEF Leads
    <3>2. order[j] \in Seq(Nat)
      BY <1>1 DEF Searchable
    <3>3. QED
      BY <1>1, <1>5, <2>1, <2>2, <3>1, <3>2, SpecificTrans
  <2>4. QED
    BY <1>1, <1>5, <2>1, <2>3 DEF Leads
<1>6. CASE order[i] \in matching /\ b[i - 1] # << >> /\ ~WildcardMoreSpecific(order[i], b[i - 1])
  <2>1. b[i] = b[i - 1]
    BY <1>2, <1>6 DEF Better
  <2>2. b[i - 1] \in Seq(Nat)
    BY <1>1, <1>6 DEF Leads, Searchable
  <2>3. order[i] = b[i - 1] \/ WildcardMoreSpecific(b[i - 1], order[i])
    BY <1>1, <1>6, <2>2, SpecificTotal
  <2>4. QED
    BY <1>1, <1>6, <2>1, <2>3 DEF Leads
<1>7. QED
  BY <1>3, <1>4, <1>5, <1>6

LEMMA LeadsAlways ==
    ASSUME NEW matching, NEW order, Searchable(matching, order),
           NEW b, IsSearch(b, matching, order, Len(order))
    PROVE  Leads(b, matching, order, Len(order))
<1> DEFINE fails == {i \in 0..Len(order) : ~Leads(b, matching, order, i)}
<1>1. SUFFICES ASSUME fails # {} PROVE FALSE
  BY DEF Searchable
<1>2. fails \in SUBSET Nat
  OBVIOUS
<1>3. PICK i \in fails : \A y \in fails : i <= y
  BY <1>1, <1>2, HasLeast
<1>4. i \in 0..Len(order) /\ ~Leads(b, matching, order, i) /\ Len(order) \in Nat
  BY <1>3 DEF Searchable
<1>5. CASE i = 0
  <2>1. b[0] = << >>
    BY <1>4 DEF IsSearch
  <2>2. Leads(b, matching, order, 0)
    BY <2>1 DEF Leads
  <2>3. QED
    BY <1>4, <1>5, <2>2
<1>6. CASE i # 0
  <2>1. i \in 1..Len(order) /\ i - 1 \in 0..Len(order) /\ ~(i <= i - 1)
    BY <1>4, <1>6
  <2>2. i - 1 \notin fails
    <3> HIDE DEF fails
    <3>1. QED
      BY <1>3, <2>1
  <2>3. Leads(b, matching, order, i - 1)
    BY <2>1, <2>2
  <2>4. QED
    BY <1>4, <2>1, <2>3, LeadsNext
<1>7. QED
  BY <1>5, <1>6

\* q is the pattern of matching that is more specific than all the others.
Foremost(q, matching) == q \in matching /\ \A o \in matching \ {q} : WildcardMoreSpecific(q, o)

LEMMA BestIsForemost ==
    ASSUME NEW matching, NEW order, Searchable(matching, order), matching # {},
           \A q \in matching : \E i \in 1..Len(order) : order[i] = q
    PROVE  Foremost(Best(matching, order), matching)
<1> DEFINE b == CHOOSE b : IsSearch(b, matching, order, Len(order))
<1>1. Len(order) \in Nat
  BY DEF Searchable
<1>2. \E g : IsSearch(g, matching, order, Len(order))
  BY <1>1, SearchExists
<1>3. IsSearch(b, matching, order, Len(order))
  BY <1>2
<1>4. Best(matching, order) = b[Len(order)]
  BY DEF Best, IsSearch, Better
<1> HIDE DEF b
<1>5. Leads(b, matching, order, Len(order))
  BY <1>3, LeadsAlways
<1>6. QED
  BY <1>4, <1>5 DEF Leads, Foremost

LEMMA OneForemost ==
    ASSUME NEW matching \in SUBSET Seq(Nat), NEW q, NEW r, Foremost(q, matching), Foremost(r, matching)
    PROVE  q = r
<1>1. SUFFICES ASSUME q # r PROVE FALSE
  OBVIOUS
<1>2. /\ q \in Seq(Nat) /\ r \in Seq(Nat)
      /\ WildcardMoreSpecific(q, r) /\ WildcardMoreSpecific(r, q)
  BY <1>1 DEF Foremost
<1>3. QED
  BY <1>2, SpecificAsym

-----------------------------------------------------------------------------
(* A request is sent for one model.                                         *)

MatchingOf(p, m) == {q \in DOMAIN p.mapping : MatchWildcard(q, m)}

\* The model p is sent for m, as OneTarget has it.
Sent(p, m) ==
    LET best == CHOOSE q \in MatchingOf(p, m) : \A o \in MatchingOf(p, m) \ {q} :
                    \/ Literals(q) > Literals(o)
                    \/ Literals(q) = Literals(o) /\ Precedes(q, o)
    IN  IF m \in DOMAIN p.mapping THEN p.mapping[m]
        ELSE IF MatchingOf(p, m) = {} THEN m
        ELSE ApplyWildcardMapping(best, p.mapping[best], m)

\* Go goes through the map, whose keys are patterns, in this order.
GoesThrough(order, mapping) ==
    /\ IsFiniteSet(DOMAIN mapping) /\ DOMAIN mapping \subseteq Seq(Nat)
    /\ order \in SetToAllKPermutations(DOMAIN mapping)
    /\ Len(order) = Cardinality(DOMAIN mapping)

\* An order of a map goes through all of it.
LEMMA OrderCovers ==
    ASSUME NEW D, IsFiniteSet(D), NEW order \in SetToAllKPermutations(D), Len(order) = Cardinality(D)
    PROVE  /\ Len(order) \in Nat
           /\ \A i \in 1..Len(order) : order[i] \in D
           /\ \A q \in D : \E i \in 1..Len(order) : order[i] = q
<1>1. PICK s \in SUBSET D : order \in SetToSeqs(s)
  BY DEF SetToAllKPermutations
<1>2. /\ order \in [1..Cardinality(s) -> s]
      /\ \A i, j \in 1..Cardinality(s) : i # j => order[i] # order[j]
  BY <1>1 DEF SetToSeqs
<1>3. IsFiniteSet(s) /\ Cardinality(s) \in Nat /\ Cardinality(D) \in Nat
  BY FS_Subset, FS_CardinalityType
<1>4. Len(order) = Cardinality(s)
  BY <1>2, <1>3
<1>5. s = D
  BY <1>4, FS_Subset
<1>6. order \in Injection(1..Cardinality(D), D)
  BY <1>2, <1>5 DEF Injection, IsInjective
<1>7. Cardinality(1..Cardinality(D)) = Cardinality(D)
  BY <1>3, FS_Interval
<1>8. order \in Surjection(1..Cardinality(D), D)
  BY <1>6, <1>7, FS_Injection
<1>9. \A q \in D : \E i \in 1..Cardinality(D) : order[i] = q
  BY <1>8 DEF Surjection
<1>10. QED
  BY <1>2, <1>3, <1>5, <1>9

LEMMA MatchingBest ==
    ASSUME NEW p, NEW m, NEW order, GoesThrough(order, p.mapping),
           m \notin DOMAIN p.mapping, MatchingOf(p, m) # {}
    PROVE  /\ MatchingOf(p, m) \in SUBSET Seq(Nat)
           /\ Foremost(Best(MatchingOf(p, m), order), MatchingOf(p, m))
<1> DEFINE matching == MatchingOf(p, m)
<1>1. << >> \notin matching
  <2>1. SUFFICES ASSUME << >> \in DOMAIN p.mapping, MatchWildcard(<< >>, m) PROVE FALSE
    BY DEF MatchingOf
  <2>2. ~Wild(<< >>)
    BY DEF Wild, Contains
  <2>3. << >> = m
    BY <2>1, <2>2 DEF MatchWildcard
  <2>4. QED
    BY <2>1, <2>3
<1>2. matching \subseteq DOMAIN p.mapping
  BY DEF MatchingOf
<1>3. /\ Len(order) \in Nat
      /\ \A i \in 1..Len(order) : order[i] \in DOMAIN p.mapping
      /\ \A q \in DOMAIN p.mapping : \E i \in 1..Len(order) : order[i] = q
  BY OrderCovers DEF GoesThrough
<1>4. Searchable(matching, order)
  BY <1>1, <1>3 DEF Searchable, GoesThrough
<1>5. QED
  BY <1>2, <1>3, <1>4, BestIsForemost DEF GoesThrough

LEMMA EffectiveIsSent ==
    ASSUME NEW p, NEW m, NEW order, GoesThrough(order, p.mapping)
    PROVE  GetEffectiveModel(p, m, order) = Sent(p, m)
<1> DEFINE matching == MatchingOf(p, m)
<1>1. CASE m \in DOMAIN p.mapping \/ matching = {}
  BY <1>1 DEF GetEffectiveModel, Sent, MatchingOf
<1>2. CASE m \notin DOMAIN p.mapping /\ matching # {}
  <2> DEFINE best == CHOOSE q \in matching : \A o \in matching \ {q} :
                        \/ Literals(q) > Literals(o)
                        \/ Literals(q) = Literals(o) /\ Precedes(q, o)
  <2>1. matching \in SUBSET Seq(Nat) /\ Foremost(Best(matching, order), matching)
    BY <1>2, MatchingBest
  <2>2. Foremost(best, matching)
    BY <2>1 DEF Foremost, WildcardMoreSpecific
  <2>3. Best(matching, order) = best
    BY <2>1, <2>2, OneForemost
  <2>4. GetEffectiveModel(p, m, order) = ApplyWildcardMapping(best, p.mapping[best], m)
    BY <1>2, <2>3 DEF GetEffectiveModel, MatchingOf
  <2>5. QED
    BY <1>2, <2>4 DEF Sent
<1>3. QED
  BY <1>1, <1>2

\* A fixed name that a valid provider is sent is one that it lists.
LEMMA SentIsListed ==
    ASSUME NEW p, NEW m, NEW order, GoesThrough(order, p.mapping),
           IsModelSupported(p, m), ValidConfiguration(p), p.supported # << >>
    PROVE  LET t == GetEffectiveModel(p, m, order) IN
           \/ \E s \in DOMAIN p.supported : p.supported[s] /\ (s = t \/ MatchWildcard(s, t))
           \/ \E q \in DOMAIN p.mapping :
                 Wild(p.mapping[q]) /\ (q = m \/ MatchWildcard(q, m))
<1> DEFINE matching == MatchingOf(p, m)
           t == GetEffectiveModel(p, m, order)
           best == Best(matching, order)
<1>1. CASE m \in DOMAIN p.mapping
  <2>1. t = p.mapping[m]
    BY <1>1 DEF GetEffectiveModel
  <2>2. CASE Wild(p.mapping[m])
    BY <1>1, <2>2
  <2>3. CASE ~Wild(p.mapping[m])
    BY <1>1, <2>1, <2>3 DEF ValidConfiguration
  <2>4. QED
    BY <2>2, <2>3
<1>2. CASE m \notin DOMAIN p.mapping /\ matching = {}
  <2>1. t = m
    BY <1>2 DEF GetEffectiveModel, MatchingOf
  <2>2. \E s \in DOMAIN p.supported : p.supported[s] /\ (s = m \/ MatchWildcard(s, m))
    BY <1>2 DEF IsModelSupported, MatchingOf
  <2>3. QED
    BY <2>1, <2>2
<1>3. CASE m \notin DOMAIN p.mapping /\ matching # {}
  <2>1. t = ApplyWildcardMapping(best, p.mapping[best], m)
    BY <1>3 DEF GetEffectiveModel, MatchingOf
  <2>2. best \in DOMAIN p.mapping /\ MatchWildcard(best, m)
    <3>1. Foremost(best, matching)
      BY <1>3, MatchingBest
    <3>2. QED
      BY <3>1 DEF Foremost, MatchingOf
  <2>3. CASE Wild(p.mapping[best])
    BY <2>2, <2>3
  <2>4. CASE ~Wild(p.mapping[best])
    <3>1. t = p.mapping[best]
      BY <2>1, <2>4 DEF ApplyWildcardMapping
    <3>2. QED
      BY <2>2, <2>4, <3>1 DEF ValidConfiguration
  <2>5. QED
    BY <2>3, <2>4
<1>4. QED
  BY <1>1, <1>2, <1>3

\* The provider of a request serves the model, and what it is sent is fixed by
\* the configuration.
TargetFits ==
    /\ at = "arrived" => target.provider = {}
    /\ \A p, q \in target.provider : p = q
    /\ \A p \in target.provider : model # << >> => IsModelSupported(p, model)
    /\ at \notin {"arrived", "prepare", "ended"} =>
          \A p \in target.provider :
              /\ target.model = Sent(p, Requested(p))
              /\ \E order \in SetToAllKPermutations(DOMAIN p.mapping) :
                    GoesThrough(order, p.mapping)

\* What a provider is asked for does not change.
LEMMA RequestedStays ==
    ASSUME UNCHANGED <<profile, model, field>>, NEW p PROVE Requested(p)' = Requested(p)
BY DEF Requested, claude

LEMMA FitsInit == Init => TargetFits
<1>1. ASSUME Init PROVE at = "arrived" /\ target = [provider |-> {}, model |-> << >>]
  BY <1>1 DEF Init
<1>2. ASSUME Init PROVE target.provider = {}
  BY <1>1, <1>2
<1>3. QED
  BY <1>1, <1>2 DEF TargetFits

LEMMA FitsRoute ==
    ASSUME TypeInv, TargetFits, Route
    PROVE  TargetFits'
<1>1. UNCHANGED <<model, profile>> /\ profile \in Profiles
  BY DEF Route, asked, TypeInv, TypeOK, RequestTypes
<1>2. CASE at' = "ended" /\ target' = target
  BY <1>1, <1>2 DEF Route, TargetFits
<1>3. CASE at' # "ended" \/ target' # target
  <2>1. PICK name : /\ target' = [provider |-> ResolveProvider(profile, name, model), model |-> << >>]
                    /\ at' = "prepare"
    BY <1>3 DEF Route
  <2>2. target'.provider = ResolveProvider(profile, name, model)
    BY <2>1
  <2>3. /\ \A p, q \in target'.provider : p = q
        /\ \A p \in target'.provider : model # << >> => IsModelSupported(p, model)
    BY <1>1, <2>2, ResolveFits
  <2>4. QED
    BY <1>1, <2>1, <2>3 DEF TargetFits
<1>4. QED
  BY <1>2, <1>3

LEMMA FitsPrepare ==
    ASSUME TypeInv, TargetFits, Prepare
    PROVE  TargetFits'
<1> DEFINE chosen == CHOOSE p \in target.provider : TRUE
<1>1. at = "prepare" /\ UNCHANGED <<model, field, profile>>
  BY DEF Prepare, asked
<1>2. CASE at' = "ended" /\ target' = target
  BY <1>1, <1>2 DEF TargetFits
<1>3. CASE at' # "ended" \/ target' # target
  <2>1. PICK order \in SetToAllKPermutations(DOMAIN chosen.mapping) :
            /\ Len(order) = Cardinality(DOMAIN chosen.mapping)
            /\ target' = [target EXCEPT !.model = GetEffectiveModel(chosen, Requested(chosen), order)]
            /\ at' = "send"
    BY <1>3 DEF Prepare
  <2>2. DOMAIN target = {"provider", "model"}
    BY DEF TypeInv
  <2>3. /\ target'.provider = target.provider
        /\ target'.model = GetEffectiveModel(chosen, Requested(chosen), order)
    BY <2>1, <2>2
  <2>4. ASSUME NEW p \in target.provider
        PROVE  target'.model = Sent(p, Requested(p)) /\ GoesThrough(order, p.mapping)
    <3>1. p = chosen
      BY DEF TargetFits
    <3>2. p \in Range(profile.providers) /\ profile \in Profiles
      BY DEF TypeInv, TypeOK, RequestTypes
    <3>3. IsFiniteSet(DOMAIN p.mapping) /\ DOMAIN p.mapping \subseteq Seq(Nat)
      BY <3>2, RelayConstants
    <3>4. GoesThrough(order, p.mapping)
      BY <2>1, <3>1, <3>3 DEF GoesThrough
    <3>5. QED
      BY <2>3, <3>1, <3>4, EffectiveIsSent
  <2>5. QED
    BY <1>1, <2>1, <2>3, <2>4, RequestedStays DEF TargetFits
<1>4. QED
  BY <1>2, <1>3

LEMMA FitsStep == TypeInv /\ TargetFits /\ [Next]_vars => TargetFits'
<1>1. SUFFICES ASSUME TypeInv, TargetFits, [Next]_vars PROVE TargetFits'
  OBVIOUS
<1>2. CASE Refuse
  BY <1>1, <1>2 DEF Refuse, TargetFits, asked
<1>3. CASE Route
  BY <1>1, <1>3, FitsRoute
<1>4. CASE Prepare
  BY <1>1, <1>4, FitsPrepare
<1>5. CASE UNCHANGED <<asked, target>> /\ (at \in {"arrived", "prepare", "ended"} => at' = at)
                                      /\ (at' = "arrived" => at = "arrived")
  BY <1>1, <1>5, RequestedStays DEF TargetFits, asked
<1>6. CASE SendFails \/ Finish
  <2>1. /\ at \in {"send", "return"} /\ at' = "ended" /\ UNCHANGED <<asked, target>>
    BY <1>6 DEF SendFails, Finish, Return, asked
  <2>2. QED
    BY <1>5, <2>1
<1>7. CASE Answered \/ Buffered \/ FirstFails \/ Pseudo
  <2>1. /\ at \in {"send", "buffered", "first"} /\ at' \in {"first", "buffered", "return"}
        /\ UNCHANGED <<asked, target>>
    BY <1>7 DEF Answered, Buffered, FirstFails, Pseudo, asked
  <2>2. QED
    BY <1>5, <2>1
<1>8. CASE ReadLine \/ StreamEnds
  <2>1. /\ at \in {"first", "stream"} /\ at' \in {"stream", "return"}
        /\ UNCHANGED <<asked, target>>
    BY <1>8 DEF ReadLine, StreamEnds, asked
  <2>2. QED
    BY <1>5, <2>1
<1>9. CASE ClientLeaves
  BY <1>5, <1>9 DEF ClientLeaves, asked
<1>10. CASE UNCHANGED vars
  BY <1>5, <1>10 DEF vars, asked
<1>11. QED
  BY <1>1, <1>2, <1>3, <1>4, <1>6, <1>7, <1>8, <1>9, <1>10 DEF Next

LEMMA FitsOneTarget == TargetFits => OneTarget
<1>1. SUFFICES ASSUME TargetFits, NEW p \in target.provider, at \notin {"prepare", "ended"}
               PROVE  /\ target.model = Sent(p, Requested(p))
                      /\ ValidConfiguration(p) /\ p.supported # << >>
                             /\ Requested(p) = model /\ model # << >> =>
                           \/ \E s \in DOMAIN p.supported :
                                 p.supported[s] /\ (s = target.model \/ MatchWildcard(s, target.model))
                           \/ \E q \in DOMAIN p.mapping :
                                 Wild(p.mapping[q]) /\ (q = model \/ MatchWildcard(q, model))
  BY DEF OneTarget, Sent, MatchingOf
<1>2. at # "arrived"
  BY <1>1 DEF TargetFits
<1>3. target.model = Sent(p, Requested(p)) /\ (model # << >> => IsModelSupported(p, model))
  BY <1>1, <1>2 DEF TargetFits
<1>4. PICK order : GoesThrough(order, p.mapping)
  BY <1>1, <1>2 DEF TargetFits
<1>5. target.model = GetEffectiveModel(p, Requested(p), order)
  BY <1>3, <1>4, EffectiveIsSent
<1>6. QED
  BY <1>3, <1>4, <1>5, SentIsListed

\* A request is sent for one model: the one its configuration gives, by the
\* most specific pattern, to the model in the body after its replacements, in
\* whatever order the maps of patterns are gone through, for every set of
\* patterns and any replacements; and, where these leave the model alone, under
\* a fixed name only for a model that its provider, if valid, lists.
THEOREM OneModelWhateverOrder == Spec => []OneTarget
<1>1. Init => TypeInv /\ TargetFits
  BY TypeInit, FitsInit
<1>2. (TypeInv /\ TargetFits) /\ [Next]_vars => (TypeInv /\ TargetFits)'
  BY TypeStep, FitsStep
<1>3. Spec => [](TypeInv /\ TargetFits)
  BY <1>1, <1>2, PTL DEF Spec
<1>4. QED
  BY <1>3, FitsOneTarget, PTL
============================================================================
