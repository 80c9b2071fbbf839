------------------------ MODULE ConfigEditingProofs ------------------------
(***************************************************************************)
(* The takeover of a .env (gemini.go, env_edit.go), for files of any       *)
(* number of lines, any lines, any number of the user's edits and of       *)
(* cycles.  Two editors of lines carry it: setEnvField and restoreEnvField *)
(* change the lines of one key and leave the view of all others as it was. *)
(* What they compute is a recursion over the lines; the lemmas go up from  *)
(* line to line (CountUp), and see a file through the lines of some keys   *)
(* (Of) or through what those lines say (View).                            *)
(*                                                                         *)
(* Types hold for every .env.  The rest is about files whose last line has *)
(* its newline, LastLineEnded \subseteq {TRUE}: without it a line that     *)
(* Disable restores can run into the next one.                             *)
(***************************************************************************)
EXTENDS ConfigEditing, SequenceTheorems, NaturalsInduction, WellFoundedInduction, TLAPS

\* What a line of a .env can be: the user's, and what Enable makes of it.
Keys == {line.key : line \in EnvLines} \union {"GEMINI_API_KEY", "GOOGLE_GEMINI_BASE_URL"}
Meanings == {line.means : line \in EnvLines} \union {"relay", Garbled}
Trims == {line.trim : line \in EnvLines} \union {"bare"}
Line == [key : Keys, means : Meanings, quoted : BOOLEAN, trim : Trims, sound : BOOLEAN, ended : BOOLEAN]

-----------------------------------------------------------------------------
(* Counting up.                                                             *)

LEMMA HasLeast ==
    ASSUME NEW S \in SUBSET Nat, S # {}
    PROVE  \E x \in S : \A y \in S : x <= y
<1>1. PICK x \in S : \A y \in S : <<y, x>> \notin OpToRel(<, Nat)
  BY NatLessThanWellFounded, WFMin
<1>2. \A y \in S : ~(y < x)
  BY <1>1 DEF OpToRel
<1>3. QED
  BY <1>2

\* A set with 0 and, with each number up to n, the next one, has them all.
LEMMA CountUp ==
    ASSUME NEW n \in Nat, NEW S, 0 \in S, \A i \in 1 .. n : i - 1 \in S => i \in S
    PROVE  \A i \in 0 .. n : i \in S
<1> DEFINE missing == {i \in 0 .. n : i \notin S}
<1>1. SUFFICES ASSUME missing # {} PROVE FALSE
  OBVIOUS
<1>2. missing \in SUBSET Nat
  OBVIOUS
<1>3. PICK i \in missing : \A y \in missing : i <= y
  BY <1>1, <1>2, HasLeast
<1>4. i \in 0 .. n /\ i \notin S /\ i # 0
  BY <1>3
<1>5. i \in 1 .. n /\ i - 1 \in 0 .. n /\ ~(i <= i - 1)
  BY <1>4
<1>6. i - 1 \notin missing
  <2> HIDE DEF missing
  <2>1. QED
    BY <1>3, <1>5
<1>7. QED
  BY <1>4, <1>5, <1>6

-----------------------------------------------------------------------------
(* Keeping some of the lines.                                               *)

\* What is kept after line n, from what was kept before it.
KeepNext(lines, numbers, n, before) == IF n \in numbers THEN Append(before, lines[n]) ELSE before

IsKeeping(f, lines, numbers, n) ==
    f = [i \in 0 .. n |-> IF i = 0 THEN <<>> ELSE KeepNext(lines, numbers, i, f[i - 1])]

LEMMA KeepingGrows ==
    ASSUME NEW lines, NEW numbers, NEW n \in Nat, NEW f, IsKeeping(f, lines, numbers, n)
    PROVE  \E g : IsKeeping(g, lines, numbers, n + 1)
<1> DEFINE g == [i \in 0 .. n + 1 |-> IF i = n + 1 THEN KeepNext(lines, numbers, n + 1, f[n]) ELSE f[i]]
           step == [i \in 0 .. n + 1 |-> IF i = 0 THEN <<>> ELSE KeepNext(lines, numbers, i, g[i - 1])]
<1>1. \A i \in 0 .. n : f[i] = IF i = 0 THEN <<>> ELSE KeepNext(lines, numbers, i, f[i - 1])
  BY DEF IsKeeping
<1>2. \A i \in 0 .. n : g[i] = f[i]
  OBVIOUS
<1>3. g[n + 1] = KeepNext(lines, numbers, n + 1, f[n])
  OBVIOUS
<1> HIDE DEF g
<1>4. ASSUME NEW i \in 0 .. n + 1
      PROVE  g[i] = IF i = 0 THEN <<>> ELSE KeepNext(lines, numbers, i, g[i - 1])
  <2>1. CASE i = 0
    BY <1>1, <1>2, <2>1
  <2>2. CASE i = n + 1
    <3>1. i # 0 /\ i - 1 = n /\ n \in 0 .. n
      BY <2>2
    <3>2. QED
      BY <1>2, <1>3, <2>2, <3>1
  <2>3. CASE i # 0 /\ i # n + 1
    <3>1. i \in 0 .. n /\ i - 1 \in 0 .. n
      BY <2>3
    <3>2. QED
      BY <1>1, <1>2, <2>3, <3>1
  <2>4. QED
    BY <2>1, <2>2, <2>3
<1>5. g = [i \in 0 .. n + 1 |-> g[i]]
  BY DEF g
<1>6. g = step
  BY <1>4, <1>5, Zenon
<1>7. QED
  BY <1>6 DEF IsKeeping

LEMMA KeepingExists ==
    ASSUME NEW lines, NEW numbers, NEW n \in Nat
    PROVE  \E g : IsKeeping(g, lines, numbers, n)
<1> DEFINE S == {k \in Nat : \E g : IsKeeping(g, lines, numbers, k)}
<1>1. 0 \in S
  <2> DEFINE g == [i \in 0 .. 0 |-> <<>>]
  <2>1. g = [i \in 0 .. 0 |-> IF i = 0 THEN <<>> ELSE KeepNext(lines, numbers, i, g[i - 1])]
    OBVIOUS
  <2>2. QED
    BY <2>1 DEF IsKeeping
<1>2. ASSUME NEW i \in 1 .. n, i - 1 \in S PROVE i \in S
  <2>1. PICK f : IsKeeping(f, lines, numbers, i - 1)
    BY <1>2
  <2>2. i - 1 \in Nat /\ (i - 1) + 1 = i /\ i \in Nat
    OBVIOUS
  <2>3. \E g : IsKeeping(g, lines, numbers, i)
    BY <2>1, <2>2, KeepingGrows
  <2>4. QED
    BY <2>2, <2>3
<1> HIDE DEF S
<1>3. n \in S
  BY <1>1, <1>2, CountUp
<1>4. QED
  BY <1>3 DEF S

LEMMA KeepingSteps ==
    ASSUME NEW lines, Len(lines) \in Nat, NEW numbers
    PROVE  /\ Keeping(lines, numbers)[0] = <<>>
           /\ \A n \in 1 .. Len(lines) :
                 Keeping(lines, numbers)[n] = KeepNext(lines, numbers, n, Keeping(lines, numbers)[n - 1])
<1> DEFINE f == CHOOSE f : IsKeeping(f, lines, numbers, Len(lines))
<1>1. IsKeeping(f, lines, numbers, Len(lines))
  BY KeepingExists
<1>2. Keeping(lines, numbers) = f
  BY DEF Keeping, IsKeeping, KeepNext
<1> HIDE DEF f
<1>3. \A i \in 0 .. Len(lines) : f[i] = IF i = 0 THEN <<>> ELSE KeepNext(lines, numbers, i, f[i - 1])
  BY <1>1 DEF IsKeeping
<1>4. QED
  BY <1>2, <1>3

LEMMA KeepingType ==
    ASSUME NEW T, NEW lines \in Seq(T), NEW numbers
    PROVE  \A n \in 0 .. Len(lines) : Keeping(lines, numbers)[n] \in Seq(T)
<1> DEFINE K == Keeping(lines, numbers)
           S == {n \in 0 .. Len(lines) : K[n] \in Seq(T)}
<1>1. /\ K[0] = <<>>
      /\ \A n \in 1 .. Len(lines) : K[n] = KeepNext(lines, numbers, n, K[n - 1])
  BY KeepingSteps
<1> HIDE DEF K
<1>2. 0 \in S
  <2>1. 0 \in 0 .. Len(lines) /\ <<>> \in Seq(T)
    OBVIOUS
  <2>2. QED
    BY <1>1, <2>1
<1>3. ASSUME NEW n \in 1 .. Len(lines), n - 1 \in S PROVE n \in S
  <2>1. K[n] = KeepNext(lines, numbers, n, K[n - 1]) /\ K[n - 1] \in Seq(T) /\ lines[n] \in T
    BY <1>1, <1>3
  <2>2. K[n] \in Seq(T)
    BY <2>1 DEF KeepNext
  <2>3. QED
    BY <2>2
<1> HIDE DEF S
<1>4. Len(lines) \in Nat
  OBVIOUS
<1>5. \A n \in 0 .. Len(lines) : n \in S
  BY <1>2, <1>3, <1>4, CountUp
<1>6. QED
  BY <1>5 DEF S, K

\* The line that is kept from number i is at the place that many have been kept.
LEMMA KeepingPlace ==
    ASSUME NEW T, NEW lines \in Seq(T), NEW numbers, NEW i \in 1 .. Len(lines), i \in numbers
    PROVE  \A n \in 0 .. Len(lines) : n >= i =>
              /\ Len(Keeping(lines, numbers)[i]) \in 1 .. Len(Keeping(lines, numbers)[n])
              /\ Keeping(lines, numbers)[n][Len(Keeping(lines, numbers)[i])] = lines[i]
<1> DEFINE K == Keeping(lines, numbers)
           S == {n \in 0 .. Len(lines) : n >= i => Len(K[i]) \in 1 .. Len(K[n]) /\ K[n][Len(K[i])] = lines[i]}
<1>1. \A n \in 1 .. Len(lines) : K[n] = KeepNext(lines, numbers, n, K[n - 1])
  BY KeepingSteps
<1>2. \A n \in 0 .. Len(lines) : K[n] \in Seq(T)
  BY KeepingType
<1>3. Len(lines) \in Nat /\ 0 \in 0 .. Len(lines) /\ ~(0 >= i)
  OBVIOUS
<1> HIDE DEF K
<1>4. 0 \in S
  BY <1>3
<1>5. ASSUME NEW n \in 1 .. Len(lines), n - 1 \in S PROVE n \in S
  <2>1. K[n] = KeepNext(lines, numbers, n, K[n - 1]) /\ K[n - 1] \in Seq(T) /\ lines[n] \in T /\ n - 1 \in 0 .. Len(lines)
    BY <1>1, <1>2
  <2>2. SUFFICES ASSUME n >= i PROVE Len(K[i]) \in 1 .. Len(K[n]) /\ K[n][Len(K[i])] = lines[i]
    OBVIOUS
  <2>3. CASE n = i
    <3>1. K[i] = Append(K[i - 1], lines[i]) /\ K[i - 1] \in Seq(T) /\ lines[i] \in T
      BY <2>1, <2>3 DEF KeepNext
    <3>2. Len(K[i]) = Len(K[i - 1]) + 1 /\ K[i][Len(K[i - 1]) + 1] = lines[i] /\ Len(K[i - 1]) \in Nat
      BY <3>1
    <3>3. QED
      BY <2>3, <3>2
  <2>4. CASE n # i
    <3>1. n - 1 >= i
      BY <2>2, <2>4
    <3>2. Len(K[i]) \in 1 .. Len(K[n - 1]) /\ K[n - 1][Len(K[i])] = lines[i]
      BY <1>5, <3>1
    <3>3. Len(K[n]) >= Len(K[n - 1]) /\ \A j \in 1 .. Len(K[n - 1]) : K[n][j] = K[n - 1][j]
      BY <2>1 DEF KeepNext
    <3>4. K[n] \in Seq(T)
      BY <1>2
    <3>5. Len(K[n]) \in Nat /\ Len(K[n - 1]) \in Nat
      BY <2>1, <3>4
    <3>6. QED
      BY <3>2, <3>3, <3>5
  <2>5. QED
    BY <2>3, <2>4
<1> HIDE DEF S
<1>6. \A n \in 0 .. Len(lines) : n \in S
  BY <1>3, <1>4, <1>5, CountUp
<1>7. QED
  BY <1>6 DEF S, K

\* Every place is that of a line.
LEMMA KeepingOnto ==
    ASSUME NEW T, NEW lines \in Seq(T), NEW numbers
    PROVE  \A n \in 0 .. Len(lines) : \A j \in 1 .. Len(Keeping(lines, numbers)[n]) :
              \E i \in 1 .. n : i \in numbers /\ Len(Keeping(lines, numbers)[i]) = j
<1> DEFINE K == Keeping(lines, numbers)
           S == {n \in 0 .. Len(lines) : \A j \in 1 .. Len(K[n]) : \E i \in 1 .. n : i \in numbers /\ Len(K[i]) = j}
<1>1. K[0] = <<>> /\ \A n \in 1 .. Len(lines) : K[n] = KeepNext(lines, numbers, n, K[n - 1])
  BY KeepingSteps
<1>2. \A n \in 0 .. Len(lines) : K[n] \in Seq(T)
  BY KeepingType
<1>3. Len(lines) \in Nat /\ 0 \in 0 .. Len(lines)
  OBVIOUS
<1> HIDE DEF K
<1>4. 0 \in S
  BY <1>1, <1>3
<1>5. ASSUME NEW n \in 1 .. Len(lines), n - 1 \in S PROVE n \in S
  <2>1. K[n] = KeepNext(lines, numbers, n, K[n - 1]) /\ K[n - 1] \in Seq(T) /\ lines[n] \in T /\ n - 1 \in 0 .. Len(lines)
    BY <1>1, <1>2
  <2>2. \A i \in 1 .. n - 1 : i \in 1 .. n
    OBVIOUS
  <2>3. SUFFICES ASSUME NEW j \in 1 .. Len(K[n]) PROVE \E i \in 1 .. n : i \in numbers /\ Len(K[i]) = j
    OBVIOUS
  <2>4. CASE j \in 1 .. Len(K[n - 1])
    BY <1>5, <2>2, <2>4
  <2>5. CASE j \notin 1 .. Len(K[n - 1])
    <3>1. n \in numbers
      BY <2>1, <2>5 DEF KeepNext
    <3>2. Len(K[n]) = Len(K[n - 1]) + 1 /\ Len(K[n - 1]) \in Nat
      BY <2>1, <3>1 DEF KeepNext
    <3>3. Len(K[n]) = j
      BY <2>5, <3>2
    <3>4. QED
      BY <3>1, <3>3
  <2>6. QED
    BY <2>4, <2>5
<1> HIDE DEF S
<1>6. \A n \in 0 .. Len(lines) : n \in S
  BY <1>3, <1>4, <1>5, CountUp
<1>7. QED
  BY <1>6 DEF S, K

\* What is kept are the lines with these numbers.
LEMMA KeptElements ==
    ASSUME NEW T, NEW lines \in Seq(T), NEW numbers
    PROVE  /\ Kept(lines, numbers) \in Seq(T)
           /\ ToSet(Kept(lines, numbers)) = {lines[i] : i \in numbers \intersect DOMAIN lines}
<1> DEFINE K == Keeping(lines, numbers)
           n == Len(lines)
<1>1. n \in 0 .. n /\ DOMAIN lines = 1 .. n
  OBVIOUS
<1>2. K[n] \in Seq(T)
  BY <1>1, KeepingType
<1>3. \A i \in 1 .. n : i \in numbers => Len(K[i]) \in 1 .. Len(K[n]) /\ K[n][Len(K[i])] = lines[i]
  <2>1. SUFFICES ASSUME NEW i \in 1 .. n, i \in numbers
                 PROVE  Len(K[i]) \in 1 .. Len(K[n]) /\ K[n][Len(K[i])] = lines[i]
    OBVIOUS
  <2>2. n >= i
    OBVIOUS
  <2>3. QED
    BY <1>1, <2>1, <2>2, KeepingPlace
<1>4. \A j \in 1 .. Len(K[n]) : \E i \in 1 .. n : i \in numbers /\ Len(K[i]) = j
  BY <1>1, KeepingOnto
<1> HIDE DEF K, n
<1>5. ToSet(K[n]) = {lines[i] : i \in numbers \intersect (1 .. n)}
  <2>1. DOMAIN K[n] = 1 .. Len(K[n])
    BY <1>2
  <2>2. QED
    BY <1>3, <1>4, <2>1 DEF ToSet
<1>6. QED
  BY <1>1, <1>2, <1>5 DEF Kept, K, n

\* Alike up to line m: as many lines, and the same if those kept are the same.
KeepsAlike(a, numbers, b, others, m) ==
    /\ \A n \in 0 .. m : Len(Keeping(a, numbers)[n]) = Len(Keeping(b, others)[n])
    /\ (\A i \in 1 .. m : i \in numbers => a[i] = b[i]) =>
          \A n \in 0 .. m : Keeping(a, numbers)[n] = Keeping(b, others)[n]

\* What is kept depends on the lines with these numbers only, how many on the numbers.
LEMMA KeepingAgrees ==
    ASSUME NEW T, NEW a \in Seq(T), NEW b \in Seq(T), NEW m \in Nat, m <= Len(a), m <= Len(b),
           NEW numbers, NEW others, \A i \in 1 .. m : i \in numbers <=> i \in others
    PROVE  KeepsAlike(a, numbers, b, others, m)
<1> DEFINE K == Keeping(a, numbers)
           L == Keeping(b, others)
           S == {n \in 0 .. m : Len(K[n]) = Len(L[n])}
           R == {n \in 0 .. m : K[n] = L[n]}
<1>1. /\ K[0] = <<>> /\ \A n \in 1 .. Len(a) : K[n] = KeepNext(a, numbers, n, K[n - 1])
      /\ L[0] = <<>> /\ \A n \in 1 .. Len(b) : L[n] = KeepNext(b, others, n, L[n - 1])
  BY KeepingSteps
<1>2. /\ \A n \in 0 .. Len(a) : K[n] \in Seq(T)
      /\ \A n \in 0 .. Len(b) : L[n] \in Seq(T)
  BY KeepingType
<1>3. /\ 0 \in 0 .. m
      /\ \A n \in 1 .. m : n \in 1 .. Len(a) /\ n \in 1 .. Len(b)
                           /\ n - 1 \in 0 .. Len(a) /\ n - 1 \in 0 .. Len(b) /\ n - 1 \in 0 .. m
  OBVIOUS
<1> HIDE DEF K, L
<1>4. 0 \in S /\ 0 \in R
  BY <1>1, <1>3
<1>5. ASSUME NEW n \in 1 .. m PROVE /\ n - 1 \in S => n \in S
                                    /\ n - 1 \in R /\ (n \in numbers => a[n] = b[n]) => n \in R
  <2>1. /\ K[n] = KeepNext(a, numbers, n, K[n - 1]) /\ K[n - 1] \in Seq(T)
        /\ L[n] = KeepNext(b, others, n, L[n - 1]) /\ L[n - 1] \in Seq(T)
        /\ a[n] \in T /\ b[n] \in T
        /\ n \in numbers <=> n \in others
    BY <1>1, <1>2, <1>3
  <2>2. n \in 0 .. m
    OBVIOUS
  <2>3. ASSUME Len(K[n - 1]) = Len(L[n - 1]) PROVE Len(K[n]) = Len(L[n])
    BY <2>1, <2>3 DEF KeepNext
  <2>4. ASSUME K[n - 1] = L[n - 1], n \in numbers => a[n] = b[n] PROVE K[n] = L[n]
    BY <2>1, <2>4 DEF KeepNext
  <2>5. QED
    BY <2>2, <2>3, <2>4
<1> HIDE DEF S, R
<1>6. \A n \in 0 .. m : n \in S
  BY <1>4, <1>5, CountUp
<1>7. ASSUME \A i \in 1 .. m : i \in numbers => a[i] = b[i] PROVE \A n \in 0 .. m : n \in R
  BY <1>4, <1>5, <1>7, CountUp
<1>8. QED
  BY <1>6, <1>7 DEF S, R, K, L, KeepsAlike

-----------------------------------------------------------------------------
(* The lines of some keys.                                                  *)

Of(lines, keys) == Kept(lines, {i \in DOMAIN lines : lines[i].key \in keys})

LEMMA OfElements ==
    ASSUME NEW lines \in Seq(Line), NEW keys
    PROVE  /\ Of(lines, keys) \in Seq(Line)
           /\ ToSet(Of(lines, keys)) = {lines[i] : i \in {j \in DOMAIN lines : lines[j].key \in keys}}
<1> DEFINE S == {j \in DOMAIN lines : lines[j].key \in keys}
<1>1. S \intersect DOMAIN lines = S
  OBVIOUS
<1> HIDE DEF S
<1>2. /\ Kept(lines, S) \in Seq(Line)
      /\ ToSet(Kept(lines, S)) = {lines[i] : i \in S \intersect DOMAIN lines}
  BY KeptElements
<1>3. QED
  BY <1>1, <1>2 DEF Of, S

LEMMA OfNone ==
    ASSUME NEW lines \in Seq(Line), NEW keys, \A i \in DOMAIN lines : lines[i].key \notin keys
    PROVE  Of(lines, keys) = <<>>
<1> DEFINE s == Of(lines, keys)
<1>1. s \in Seq(Line) /\ ToSet(s) = {lines[i] : i \in {j \in DOMAIN lines : lines[j].key \in keys}}
  BY OfElements
<1> HIDE DEF s
<1>2. ToSet(s) = {}
  BY <1>1
<1>3. \A i \in DOMAIN s : s[i] \in ToSet(s)
  BY DEF ToSet
<1>4. s = <<>>
  BY <1>1, <1>2, <1>3
<1>5. QED
  BY <1>4 DEF s

LEMMA OfEmpty == ASSUME NEW keys PROVE Of(<<>>, keys) = <<>>
<1>1. <<>> \in Seq(Line) /\ DOMAIN <<>> = {}
  OBVIOUS
<1>2. QED
  BY <1>1, OfNone

LEMMA OfAppend ==
    ASSUME NEW lines \in Seq(Line), NEW e \in Line, NEW keys
    PROVE  Of(Append(lines, e), keys) =
              IF e.key \in keys THEN Append(Of(lines, keys), e) ELSE Of(lines, keys)
<1> DEFINE more == Append(lines, e)
           n == Len(lines)
           S == {i \in DOMAIN lines : lines[i].key \in keys}
           R == {i \in DOMAIN more : more[i].key \in keys}
<1>1. /\ more \in Seq(Line) /\ Len(more) = n + 1 /\ n \in Nat /\ DOMAIN lines = 1 .. n /\ DOMAIN more = 1 .. n + 1
      /\ more[n + 1] = e /\ \A i \in 1 .. n : more[i] = lines[i]
  OBVIOUS
<1>2. \A i \in 1 .. n : (i \in R <=> i \in S) /\ more[i] = lines[i]
  BY <1>1
<1>3. n + 1 \in R <=> e.key \in keys
  BY <1>1
<1> HIDE DEF more, n, R, S
<1>4. n <= Len(more) /\ n <= Len(lines) /\ n \in 0 .. n /\ n + 1 \in 1 .. Len(more) /\ (n + 1) - 1 = n
  BY <1>1 DEF n
<1>5. Keeping(more, R)[n] = Keeping(lines, S)[n]
  <2>1. KeepsAlike(more, R, lines, S, n)
    BY <1>1, <1>2, <1>4, KeepingAgrees
  <2>2. QED
    BY <1>2, <1>4, <2>1 DEF KeepsAlike
<1>6. Keeping(more, R)[n + 1] = KeepNext(more, R, n + 1, Keeping(more, R)[n])
  BY <1>1, <1>4, KeepingSteps
<1>7. Kept(more, R) = IF e.key \in keys THEN Append(Kept(lines, S), e) ELSE Kept(lines, S)
  BY <1>1, <1>3, <1>5, <1>6 DEF KeepNext, Kept, n
<1>8. QED
  BY <1>7 DEF Of, more, R, S

LEMMA SubSeqGrows ==
    ASSUME NEW T, NEW s \in Seq(T), NEW n \in 1 .. Len(s)
    PROVE  /\ SubSeq(s, 1, n - 1) \in Seq(T)
           /\ SubSeq(s, 1, n) = Append(SubSeq(s, 1, n - 1), s[n])
  OBVIOUS

LEMMA SubSeqStart ==
    ASSUME NEW T, NEW s \in Seq(T), NEW n \in 0 .. Len(s)
    PROVE  /\ SubSeq(s, 1, n) \in Seq(T) /\ Len(SubSeq(s, 1, n)) = n
           /\ \A i \in 1 .. n : SubSeq(s, 1, n)[i] = s[i]
  OBVIOUS

LEMMA ConcatPlaces ==
    ASSUME NEW T, NEW s \in Seq(T), NEW t \in Seq(T)
    PROVE  /\ s \o t \in Seq(T) /\ Len(s \o t) = Len(s) + Len(t)
           /\ \A i \in 1 .. Len(s) : (s \o t)[i] = s[i]
           /\ \A i \in 1 .. Len(s) + Len(t) :
                 i \notin 1 .. Len(s) => i - Len(s) \in 1 .. Len(t) /\ (s \o t)[i] = t[i - Len(s)]
  OBVIOUS

LEMMA AppendConcat ==
    ASSUME NEW T, NEW s \in Seq(T), NEW t \in Seq(T), NEW e \in T
    PROVE  s \o Append(t, e) = Append(s \o t, e)
  OBVIOUS

LEMMA OfConcat ==
    ASSUME NEW a \in Seq(Line), NEW b \in Seq(Line), NEW keys
    PROVE  Of(a \o b, keys) = Of(a, keys) \o Of(b, keys)
<1> DEFINE S == {n \in 0 .. Len(b) : Of(a \o SubSeq(b, 1, n), keys) = Of(a, keys) \o Of(SubSeq(b, 1, n), keys)}
<1>1. 0 \in S
  <2>1. SubSeq(b, 1, 0) = <<>> /\ a \o <<>> = a /\ 0 \in 0 .. Len(b) /\ <<>> \in Seq(Line)
    OBVIOUS
  <2>2. Of(<<>>, keys) = <<>>
    BY OfEmpty
  <2>3. Of(a, keys) \o <<>> = Of(a, keys)
    BY OfElements
  <2>4. QED
    BY <2>1, <2>2, <2>3
<1>2. ASSUME NEW n \in 1 .. Len(b), n - 1 \in S PROVE n \in S
  <2> DEFINE before == SubSeq(b, 1, n - 1)
             e == b[n]
  <2>1. before \in Seq(Line) /\ SubSeq(b, 1, n) = Append(before, e) /\ e \in Line
    BY SubSeqGrows
  <2>2. Of(a \o before, keys) = Of(a, keys) \o Of(before, keys)
    BY <1>2
  <2> HIDE DEF before, e
  <2>3. a \o Append(before, e) = Append(a \o before, e) /\ a \o before \in Seq(Line)
    BY <2>1, AppendConcat
  <2>4. Of(a, keys) \in Seq(Line) /\ Of(before, keys) \in Seq(Line)
    BY <2>1, OfElements
  <2>5. Of(a, keys) \o Append(Of(before, keys), e) = Append(Of(a, keys) \o Of(before, keys), e)
    BY <2>1, <2>4, AppendConcat
  <2>6. Of(Append(a \o before, e), keys) =
          IF e.key \in keys THEN Append(Of(a \o before, keys), e) ELSE Of(a \o before, keys)
    BY <2>1, <2>3, OfAppend
  <2>7. Of(Append(before, e), keys) =
          IF e.key \in keys THEN Append(Of(before, keys), e) ELSE Of(before, keys)
    BY <2>1, OfAppend
  <2>8. Of(a \o Append(before, e), keys) = Of(a, keys) \o Of(Append(before, e), keys)
    BY <2>2, <2>3, <2>5, <2>6, <2>7
  <2>9. n \in 0 .. Len(b)
    OBVIOUS
  <2>10. QED
    BY <2>1, <2>8, <2>9
<1> HIDE DEF S
<1>3. Len(b) \in Nat /\ Len(b) \in 0 .. Len(b) /\ SubSeq(b, 1, Len(b)) = b
  OBVIOUS
<1>4. Len(b) \in S
  BY <1>1, <1>2, <1>3, CountUp
<1>5. QED
  BY <1>3, <1>4 DEF S

\* The lines of other keys, when those of one key have been taken out.
LEMMA OfTwice ==
    ASSUME NEW lines \in Seq(Line), NEW keys, NEW key, key \notin keys
    PROVE  /\ Kept(lines, DOMAIN lines \ Assigns(lines, key)) \in Seq(Line)
           /\ Of(Kept(lines, DOMAIN lines \ Assigns(lines, key)), keys) = Of(lines, keys)
<1> DEFINE R == DOMAIN lines \ Assigns(lines, key)
           Q == {i \in DOMAIN lines : lines[i].key \in keys}
           K == Keeping(lines, R)
           L == Keeping(lines, Q)
           S == {n \in 0 .. Len(lines) : Of(K[n], keys) = L[n]}
<1>1. /\ K[0] = <<>> /\ \A n \in 1 .. Len(lines) : K[n] = KeepNext(lines, R, n, K[n - 1])
      /\ L[0] = <<>> /\ \A n \in 1 .. Len(lines) : L[n] = KeepNext(lines, Q, n, L[n - 1])
  BY KeepingSteps
<1>2. \A n \in 0 .. Len(lines) : K[n] \in Seq(Line)
  BY KeepingType
<1>3. \A n \in 1 .. Len(lines) : /\ n \in R <=> lines[n].key # key
                                 /\ n \in Q <=> lines[n].key \in keys
  BY DEF Assigns
<1> HIDE DEF K, L, R, Q
<1>4. 0 \in S
  <2>1. <<>> \in Seq(Line) /\ 0 \in 0 .. Len(lines)
    OBVIOUS
  <2>2. Of(<<>>, keys) = <<>>
    BY OfEmpty
  <2>3. QED
    BY <1>1, <2>1, <2>2
<1>5. ASSUME NEW n \in 1 .. Len(lines), n - 1 \in S PROVE n \in S
  <2>1. /\ K[n] = KeepNext(lines, R, n, K[n - 1]) /\ L[n] = KeepNext(lines, Q, n, L[n - 1])
        /\ n - 1 \in 0 .. Len(lines) /\ lines[n] \in Line /\ n \in 0 .. Len(lines)
    BY <1>1
  <2>2. K[n - 1] \in Seq(Line) /\ Of(K[n - 1], keys) = L[n - 1]
    BY <1>2, <1>5, <2>1
  <2>3. Of(Append(K[n - 1], lines[n]), keys) =
          IF lines[n].key \in keys THEN Append(L[n - 1], lines[n]) ELSE L[n - 1]
    BY <2>1, <2>2, OfAppend
  <2>4. Of(K[n], keys) = L[n]
    BY <1>3, <2>1, <2>2, <2>3 DEF KeepNext
  <2>5. QED
    BY <2>1, <2>4
<1> HIDE DEF S
<1>6. Len(lines) \in Nat /\ Len(lines) \in 0 .. Len(lines)
  OBVIOUS
<1>7. Len(lines) \in S
  BY <1>4, <1>5, <1>6, CountUp
<1>8. Of(K[Len(lines)], keys) = L[Len(lines)] /\ K[Len(lines)] \in Seq(Line)
  BY <1>2, <1>6, <1>7 DEF S
<1>9. QED
  BY <1>8 DEF Of, Kept, K, L, R, Q

-----------------------------------------------------------------------------
(* What a line shows, whether or not it has its newline.                    *)

Shown(line) == <<line.key, line.means, line.trim>>
Showing(lines) == [i \in DOMAIN lines |-> Shown(lines[i])]
View(lines, keys) == Showing(Of(lines, keys))

LEMMA ShowingAppend ==
    ASSUME NEW lines \in Seq(Line), NEW e \in Line
    PROVE  Showing(Append(lines, e)) = Append(Showing(lines), Shown(e))
  BY DEF Showing

LEMMA ShowingConcat ==
    ASSUME NEW a \in Seq(Line), NEW b \in Seq(Line)
    PROVE  Showing(a \o b) = Showing(a) \o Showing(b)
<1> DEFINE ab == a \o b
           s == Showing(a) \o Showing(b)
<1>1. ab \in Seq(Line) /\ Len(ab) = Len(a) + Len(b) /\ DOMAIN ab = 1 .. Len(a) + Len(b)
  OBVIOUS
<1>2. /\ Showing(a) \in Seq({Shown(e) : e \in Line}) /\ Len(Showing(a)) = Len(a)
      /\ Showing(b) \in Seq({Shown(e) : e \in Line}) /\ Len(Showing(b)) = Len(b)
  BY DEF Showing
<1>3. s \in Seq({Shown(e) : e \in Line}) /\ DOMAIN s = 1 .. Len(a) + Len(b)
  BY <1>2
<1>4. ASSUME NEW i \in 1 .. Len(a) + Len(b) PROVE s[i] = Shown(ab[i])
  <2>1. CASE i \in 1 .. Len(a)
    <3>1. s[i] = Showing(a)[i] /\ ab[i] = a[i]
      BY <1>2, <2>1
    <3>2. QED
      BY <2>1, <3>1 DEF Showing
  <2>2. CASE i \notin 1 .. Len(a)
    <3>1. s[i] = Showing(b)[i - Len(a)] /\ ab[i] = b[i - Len(a)] /\ i - Len(a) \in 1 .. Len(b)
      BY <1>2, <2>2
    <3>2. QED
      BY <3>1 DEF Showing
  <2>3. QED
    BY <2>1, <2>2
<1>5. s = [i \in 1 .. Len(a) + Len(b) |-> s[i]]
  <2> HIDE DEF s
  <2>1. QED
    BY <1>3
<1> HIDE DEF s, ab
<1>6. Showing(ab) = [i \in 1 .. Len(a) + Len(b) |-> Shown(ab[i])]
  BY <1>1 DEF Showing
<1>7. Showing(ab) = s
  BY <1>4, <1>5, <1>6, Zenon
<1>8. QED
  BY <1>7 DEF s, ab

LEMMA ViewConcat ==
    ASSUME NEW a \in Seq(Line), NEW b \in Seq(Line), NEW keys
    PROVE  View(a \o b, keys) = View(a, keys) \o View(b, keys)
<1>1. Of(a, keys) \in Seq(Line) /\ Of(b, keys) \in Seq(Line)
  BY OfElements
<1>2. Of(a \o b, keys) = Of(a, keys) \o Of(b, keys)
  BY OfConcat
<1>3. Showing(Of(a, keys) \o Of(b, keys)) = Showing(Of(a, keys)) \o Showing(Of(b, keys))
  BY <1>1, ShowingConcat
<1>4. QED
  BY <1>2, <1>3 DEF View

\* Lines that show the same, if they show these keys at all, give the same view.
LEMMA ViewAlike ==
    ASSUME NEW a \in Seq(Line), NEW b \in Seq(Line), Len(a) = Len(b), NEW keys,
           \A i \in 1 .. Len(a) : a[i].key \in keys \/ b[i].key \in keys => Shown(a[i]) = Shown(b[i])
    PROVE  View(a, keys) = View(b, keys)
<1> DEFINE S == {n \in 0 .. Len(a) : View(SubSeq(a, 1, n), keys) = View(SubSeq(b, 1, n), keys)}
<1>1. 0 \in S
  <2>1. SubSeq(a, 1, 0) = <<>> /\ SubSeq(b, 1, 0) = <<>> /\ 0 \in 0 .. Len(a)
    OBVIOUS
  <2>2. QED
    BY <2>1
<1>2. ASSUME NEW n \in 1 .. Len(a), n - 1 \in S PROVE n \in S
  <2> DEFINE x == SubSeq(a, 1, n - 1)
             y == SubSeq(b, 1, n - 1)
  <2>1. /\ x \in Seq(Line) /\ SubSeq(a, 1, n) = Append(x, a[n]) /\ a[n] \in Line
        /\ y \in Seq(Line) /\ SubSeq(b, 1, n) = Append(y, b[n]) /\ b[n] \in Line
    BY SubSeqGrows
  <2>2. View(x, keys) = View(y, keys)
    BY <1>2
  <2> HIDE DEF x, y
  <2>3. /\ Of(x, keys) \in Seq(Line) /\ Of(y, keys) \in Seq(Line)
        /\ Of(Append(x, a[n]), keys) = IF a[n].key \in keys THEN Append(Of(x, keys), a[n]) ELSE Of(x, keys)
        /\ Of(Append(y, b[n]), keys) = IF b[n].key \in keys THEN Append(Of(y, keys), b[n]) ELSE Of(y, keys)
    <3>1. Of(x, keys) \in Seq(Line) /\ Of(y, keys) \in Seq(Line)
      BY <2>1, OfElements
    <3>2. Of(Append(x, a[n]), keys) = IF a[n].key \in keys THEN Append(Of(x, keys), a[n]) ELSE Of(x, keys)
      BY <2>1, OfAppend
    <3>3. Of(Append(y, b[n]), keys) = IF b[n].key \in keys THEN Append(Of(y, keys), b[n]) ELSE Of(y, keys)
      BY <2>1, OfAppend
    <3>4. QED
      BY <3>1, <3>2, <3>3
  <2>4. ASSUME a[n].key \in keys \/ b[n].key \in keys
        PROVE  View(Append(x, a[n]), keys) = View(Append(y, b[n]), keys)
    <3>1. Shown(a[n]) = Shown(b[n])
      BY <2>4
    <3>2. a[n].key \in keys /\ b[n].key \in keys
      BY <2>4, <3>1 DEF Shown
    <3>3. View(Append(x, a[n]), keys) = Append(View(x, keys), Shown(a[n]))
      BY <2>1, <2>3, <3>2, ShowingAppend DEF View
    <3>4. View(Append(y, b[n]), keys) = Append(View(y, keys), Shown(b[n]))
      BY <2>1, <2>3, <3>2, ShowingAppend DEF View
    <3>5. QED
      BY <2>2, <3>1, <3>3, <3>4
  <2>5. ASSUME ~(a[n].key \in keys \/ b[n].key \in keys)
        PROVE  View(Append(x, a[n]), keys) = View(Append(y, b[n]), keys)
    <3>1. View(Append(x, a[n]), keys) = View(x, keys) /\ View(Append(y, b[n]), keys) = View(y, keys)
      BY <2>3, <2>5 DEF View
    <3>2. QED
      BY <2>2, <3>1
  <2>6. View(Append(x, a[n]), keys) = View(Append(y, b[n]), keys)
    BY <2>4, <2>5
  <2>7. n \in 0 .. Len(a)
    OBVIOUS
  <2>8. QED
    BY <2>1, <2>6, <2>7
<1> HIDE DEF S
<1>3. /\ Len(a) \in Nat /\ Len(a) \in 0 .. Len(a)
      /\ SubSeq(a, 1, Len(a)) = a /\ SubSeq(b, 1, Len(a)) = b
  OBVIOUS
<1>4. Len(a) \in S
  BY <1>1, <1>2, <1>3, CountUp
<1>5. QED
  BY <1>3, <1>4 DEF S

-----------------------------------------------------------------------------
(* Newlines: lines that all have theirs do not run together.                *)

\* All lines have their newline, but perhaps a last one of these keys.
EndedBut(lines, keys) ==
    \A i \in 1 .. Len(lines) : lines[i].ended \/ (i = Len(lines) /\ lines[i].key \in keys)

JoinNext(lines, n, before) ==
    IF before # <<>> /\ ~Last(before).ended
    THEN Append(Front(before), RunTogether(Last(before), lines[n]))
    ELSE Append(before, lines[n])

IsJoining(f, lines) ==
    f = [n \in 0 .. Len(lines) |-> IF n = 0 THEN <<>> ELSE JoinNext(lines, n, f[n - 1])]

LEMMA JoinNothing ==
    ASSUME NEW lines \in Seq(Line), NEW keys, EndedBut(lines, keys), NEW n \in 1 .. Len(lines)
    PROVE  JoinNext(lines, n, SubSeq(lines, 1, n - 1)) = SubSeq(lines, 1, n)
<1> DEFINE before == SubSeq(lines, 1, n - 1)
<1>1. before \in Seq(Line) /\ SubSeq(lines, 1, n) = Append(before, lines[n])
  BY SubSeqGrows
<1>2. ASSUME before # <<>> PROVE Last(before).ended
  <2>1. Len(before) = n - 1 /\ n - 1 \in 1 .. Len(lines) /\ n - 1 # Len(lines)
    BY <1>2
  <2>2. before[n - 1] = lines[n - 1]
    BY <2>1
  <2>3. lines[n - 1].ended
    BY <2>1 DEF EndedBut
  <2>4. QED
    BY <2>1, <2>2, <2>3 DEF Last
<1> HIDE DEF before
<1>3. JoinNext(lines, n, before) = SubSeq(lines, 1, n)
  BY <1>1, <1>2 DEF JoinNext
<1>4. QED
  BY <1>3 DEF before

LEMMA JoinedSame ==
    ASSUME NEW lines \in Seq(Line), NEW keys, EndedBut(lines, keys)
    PROVE  Joined(lines) = lines
<1> DEFINE g == [n \in 0 .. Len(lines) |-> SubSeq(lines, 1, n)]
           step == [n \in 0 .. Len(lines) |-> IF n = 0 THEN <<>> ELSE JoinNext(lines, n, g[n - 1])]
           f == CHOOSE h : IsJoining(h, lines)
           S == {n \in 0 .. Len(lines) : f[n] = SubSeq(lines, 1, n)}
<1>1. /\ Len(lines) \in Nat /\ SubSeq(lines, 1, 0) = <<>> /\ 0 \in 0 .. Len(lines)
      /\ Len(lines) \in 0 .. Len(lines) /\ SubSeq(lines, 1, Len(lines)) = lines
      /\ \A n \in 0 .. Len(lines) : n # 0 => n \in 1 .. Len(lines) /\ n - 1 \in 0 .. Len(lines)
  OBVIOUS
<1>2. ASSUME NEW n \in 0 .. Len(lines)
      PROVE  SubSeq(lines, 1, n) = IF n = 0 THEN <<>> ELSE JoinNext(lines, n, g[n - 1])
  <2>1. CASE n = 0
    BY <1>1, <2>1
  <2>2. CASE n # 0
    <3>1. n \in 1 .. Len(lines) /\ g[n - 1] = SubSeq(lines, 1, n - 1)
      BY <1>1, <2>2
    <3>2. QED
      BY <2>2, <3>1, JoinNothing
  <2>3. QED
    BY <2>1, <2>2
<1>3. g = step
  BY <1>2, Zenon
<1>4. IsJoining(g, lines)
  BY <1>3 DEF IsJoining
<1>5. IsJoining(f, lines)
  BY <1>4
<1>6. Joining(lines) = f
  BY DEF Joining, IsJoining, JoinNext
<1> HIDE DEF f, g
<1>7. \A n \in 0 .. Len(lines) : f[n] = IF n = 0 THEN <<>> ELSE JoinNext(lines, n, f[n - 1])
  BY <1>5 DEF IsJoining
<1>8. 0 \in S
  BY <1>1, <1>7
<1>9. ASSUME NEW n \in 1 .. Len(lines), n - 1 \in S PROVE n \in S
  <2>1. n \in 0 .. Len(lines) /\ n # 0 /\ f[n - 1] = SubSeq(lines, 1, n - 1)
    BY <1>9
  <2>2. f[n] = SubSeq(lines, 1, n)
    BY <1>7, <2>1, JoinNothing
  <2>3. QED
    BY <2>1, <2>2
<1> HIDE DEF S
<1>10. Len(lines) \in S
  BY <1>1, <1>8, <1>9, CountUp
<1>11. QED
  BY <1>1, <1>6, <1>10 DEF Joined, S

LEMMA EndedLine ==
    ASSUME NEW line \in Line
    PROVE  /\ Ended(line) \in Line /\ Ended(line).ended
           /\ Ended(line).key = line.key /\ Ended(line).means = line.means
           /\ Shown(Ended(line)) = Shown(line)
           /\ line.ended => Ended(line) = line
<1>1. /\ Ended(line) \in Line /\ Ended(line).ended
      /\ Ended(line).key = line.key /\ Ended(line).means = line.means /\ Ended(line).trim = line.trim
  BY DEF Ended, Line
<1>2. line.ended => Ended(line) = line
  BY DEF Ended, Line
<1>3. QED
  BY <1>1, <1>2 DEF Shown

-----------------------------------------------------------------------------
(* Appending lines.                                                         *)

\* The file with its last line ended.
Closed(lines) == IF lines = <<>> THEN <<>> ELSE Append(Front(lines), Ended(Last(lines)))
Listed(new) == [i \in DOMAIN new |-> IF i < Len(new) THEN Ended(new[i]) ELSE new[i]]

LEMMA ClosedLines ==
    ASSUME NEW lines \in Seq(Line)
    PROVE  /\ Closed(lines) \in Seq(Line) /\ Len(Closed(lines)) = Len(lines)
           /\ \A i \in 1 .. Len(lines) :
                 Closed(lines)[i] = IF i = Len(lines) THEN Ended(lines[i]) ELSE lines[i]
<1>1. CASE lines = <<>>
  BY <1>1 DEF Closed
<1>2. CASE lines # <<>>
  <2> DEFINE n == Len(lines)
             front == SubSeq(lines, 1, n - 1)
  <2>1. /\ n \in 1 .. n /\ front \in Seq(Line) /\ Len(front) = n - 1 /\ lines[n] \in Line
        /\ \A i \in 1 .. n - 1 : front[i] = lines[i]
    <3>1. n \in 1 .. n
      BY <1>2
    <3>2. n - 1 \in 0 .. n /\ n - 1 <= n
      BY <3>1
    <3>3. front \in Seq(Line) /\ Len(front) = n - 1 /\ \A i \in 1 .. n - 1 : front[i] = lines[i]
      BY <3>1, <3>2, SubSeqStart
    <3>4. QED
      BY <3>1, <3>3
  <2>2. Ended(lines[n]) \in Line
    BY <2>1, EndedLine
  <2>3. Closed(lines) = Append(front, Ended(lines[n]))
    BY <1>2 DEF Closed, Front, Last
  <2> HIDE DEF front
  <2>4. QED
    BY <2>1, <2>2, <2>3
<1>3. QED
  BY <1>1, <1>2

LEMMA ListedLines ==
    ASSUME NEW new \in Seq(Line)
    PROVE  /\ Listed(new) \in Seq(Line) /\ Len(Listed(new)) = Len(new)
           /\ \A i \in 1 .. Len(new) : Listed(new)[i] = IF i < Len(new) THEN Ended(new[i]) ELSE new[i]
<1>1. \A i \in 1 .. Len(new) : Ended(new[i]) \in Line /\ new[i] \in Line
  BY EndedLine
<1>2. QED
  BY <1>1 DEF Listed

LEMMA AppendedLines ==
    ASSUME NEW lines \in Seq(Line), NEW old, EndedBut(lines, old), NEW new \in Seq(Line), new # <<>>
    PROVE  /\ AppendLines(lines, new) \in Seq(Line)
           /\ \A keys : View(AppendLines(lines, new), keys) = View(lines, keys) \o View(new, keys)
           /\ \A keys : EndedBut(new, keys) => EndedBut(AppendLines(lines, new), keys)
<1> DEFINE a == Closed(lines)
           b == Listed(new)
<1>1. AppendLines(lines, new) = a \o b
  BY DEF AppendLines, Closed, Listed
<1>2. /\ a \in Seq(Line) /\ Len(a) = Len(lines)
      /\ \A i \in 1 .. Len(lines) : a[i] = IF i = Len(lines) THEN Ended(lines[i]) ELSE lines[i]
  BY ClosedLines
<1>3. /\ b \in Seq(Line) /\ Len(b) = Len(new)
      /\ \A i \in 1 .. Len(new) : b[i] = IF i < Len(new) THEN Ended(new[i]) ELSE new[i]
  BY ListedLines
<1> HIDE DEF a, b
<1>4. ASSUME NEW keys PROVE View(a \o b, keys) = View(lines, keys) \o View(new, keys)
  <2>1. \A i \in 1 .. Len(a) : Shown(a[i]) = Shown(lines[i])
    BY <1>2, EndedLine
  <2>2. View(a, keys) = View(lines, keys)
    BY <1>2, <2>1, ViewAlike
  <2>3. \A i \in 1 .. Len(b) : Shown(b[i]) = Shown(new[i])
    BY <1>3, EndedLine
  <2>4. View(b, keys) = View(new, keys)
    BY <1>3, <2>3, ViewAlike
  <2>5. QED
    BY <1>2, <1>3, <2>2, <2>4, ViewConcat
<1>5. \A i \in 1 .. Len(a) : a[i].ended
  <2>1. TAKE i \in 1 .. Len(a)
  <2>2. lines[i] \in Line /\ (i # Len(lines) => lines[i].ended)
    BY <1>2 DEF EndedBut
  <2>3. QED
    BY <1>2, <2>2, EndedLine
<1>6. ASSUME NEW keys, EndedBut(new, keys) PROVE EndedBut(a \o b, keys)
  <2>1. ASSUME NEW i \in 1 .. Len(b) PROVE b[i].ended \/ (i = Len(b) /\ b[i].key \in keys)
    <3>1. new[i] \in Line
      BY <1>3
    <3>2. QED
      BY <1>3, <1>6, <3>1, EndedLine DEF EndedBut
  <2>2. ASSUME NEW i \in 1 .. Len(a \o b)
        PROVE  (a \o b)[i].ended \/ (i = Len(a \o b) /\ (a \o b)[i].key \in keys)
    <3>1. CASE i \in 1 .. Len(a)
      BY <1>2, <1>3, <1>5, <3>1
    <3>2. CASE i \notin 1 .. Len(a)
      <4>1. /\ i - Len(a) \in 1 .. Len(b) /\ (a \o b)[i] = b[i - Len(a)]
            /\ i - Len(a) = Len(b) => i = Len(a \o b)
        <5>1. Len(a \o b) = Len(a) + Len(b) /\ Len(a) \in Nat /\ Len(b) \in Nat
          <6>1. a \in Seq(Line) /\ b \in Seq(Line)
            BY <1>2, <1>3
          <6>2. QED
            BY <6>1
        <5>2. i \in 1 .. Len(a) + Len(b)
          BY <5>1
        <5>3. i - Len(a) \in 1 .. Len(b) /\ (a \o b)[i] = b[i - Len(a)]
          BY <1>2, <1>3, <3>2, <5>2, ConcatPlaces
        <5>4. QED
          BY <5>1, <5>2, <5>3
      <4>2. QED
        BY <2>1, <4>1
    <3>3. QED
      BY <3>1, <3>2
  <2>3. QED
    BY <2>2 DEF EndedBut
<1>7. QED
  BY <1>1, <1>2, <1>3, <1>4, <1>6

-----------------------------------------------------------------------------
(* setEnvField and restoreEnvField.                                         *)

LEMMA OriginalLinesOf == ASSUME NEW lines, NEW key PROVE OriginalLines(lines, key) = Of(lines, {key})
<1>1. Assigns(lines, key) = {i \in DOMAIN lines : lines[i].key \in {key}}
  BY DEF Assigns
<1>2. QED
  BY <1>1 DEF OriginalLines, Of

LEMMA ViewNone ==
    ASSUME NEW lines \in Seq(Line), NEW keys, \A i \in DOMAIN lines : lines[i].key \notin keys
    PROVE  View(lines, keys) = <<>>
<1>1. Of(lines, keys) = <<>>
  BY OfNone
<1>2. QED
  BY <1>1 DEF View, Showing

LEMMA OfAll ==
    ASSUME NEW lines \in Seq(Line), NEW keys, \A i \in DOMAIN lines : lines[i].key \in keys
    PROVE  Of(lines, keys) = lines
<1> DEFINE S == {n \in 0 .. Len(lines) : Of(SubSeq(lines, 1, n), keys) = SubSeq(lines, 1, n)}
<1>1. 0 \in S
  <2>1. SubSeq(lines, 1, 0) = <<>> /\ 0 \in 0 .. Len(lines)
    OBVIOUS
  <2>2. QED
    BY <2>1, OfEmpty
<1>2. ASSUME NEW n \in 1 .. Len(lines), n - 1 \in S PROVE n \in S
  <2> DEFINE before == SubSeq(lines, 1, n - 1)
  <2>1. before \in Seq(Line) /\ SubSeq(lines, 1, n) = Append(before, lines[n]) /\ lines[n] \in Line
    BY SubSeqGrows
  <2>2. Of(before, keys) = before /\ lines[n].key \in keys /\ n \in 0 .. Len(lines)
    BY <1>2
  <2> HIDE DEF before
  <2>3. Of(Append(before, lines[n]), keys) = Append(before, lines[n])
    BY <2>1, <2>2, OfAppend
  <2>4. QED
    BY <2>1, <2>2, <2>3
<1> HIDE DEF S
<1>3. Len(lines) \in Nat /\ Len(lines) \in 0 .. Len(lines) /\ SubSeq(lines, 1, Len(lines)) = lines
  OBVIOUS
<1>4. Len(lines) \in S
  BY <1>1, <1>2, <1>3, CountUp
<1>5. QED
  BY <1>3, <1>4 DEF S

MeansOf(lines, key) == {line.means : line \in ToSet(OriginalLines(lines, key))}

\* The meanings can be seen.
LEMMA MeansShown ==
    ASSUME NEW lines \in Seq(Line), NEW key
    PROVE  MeansOf(lines, key) = {View(lines, {key})[i][2] : i \in DOMAIN View(lines, {key})}
<1> DEFINE s == Of(lines, {key})
<1>1. s \in Seq(Line)
  BY OfElements
<1>2. MeansOf(lines, key) = {line.means : line \in ToSet(s)}
  BY OriginalLinesOf DEF MeansOf
<1> HIDE DEF s
<1>3. /\ DOMAIN Showing(s) = DOMAIN s
      /\ \A i \in DOMAIN s : Showing(s)[i][2] = s[i].means
  BY <1>1 DEF Showing, Shown
<1>4. {line.means : line \in ToSet(s)} = {Showing(s)[i][2] : i \in DOMAIN Showing(s)}
  BY <1>3 DEF ToSet
<1>5. QED
  BY <1>2, <1>4 DEF View, s

LEMMA SameMeans ==
    ASSUME NEW a \in Seq(Line), NEW b \in Seq(Line), NEW key, View(a, {key}) = View(b, {key})
    PROVE  MeansOf(a, key) = MeansOf(b, key)
<1>1. MeansOf(a, key) = {View(a, {key})[i][2] : i \in DOMAIN View(a, {key})}
  BY MeansShown
<1>2. MeansOf(b, key) = {View(b, {key})[i][2] : i \in DOMAIN View(b, {key})}
  BY MeansShown
<1>3. QED
  BY <1>1, <1>2, Zenon

LEMMA MeansOfAssigned ==
    ASSUME NEW lines \in Seq(Line), NEW key
    PROVE  MeansOf(lines, key) = {lines[i].means : i \in Assigns(lines, key)}
<1>1. ToSet(Of(lines, {key})) = {lines[i] : i \in {j \in DOMAIN lines : lines[j].key \in {key}}}
  BY OfElements
<1>2. ToSet(OriginalLines(lines, key)) = {lines[i] : i \in Assigns(lines, key)}
  BY <1>1, OriginalLinesOf DEF Assigns
<1>3. QED
  BY <1>2 DEF MeansOf

ManagedKeys == {"GEMINI_API_KEY", "GOOGLE_GEMINI_BASE_URL"}
RelayLine(key) == EnvLine(key, "relay", FALSE, "bare", FALSE)

LEMMA RelayLineType ==
    ASSUME NEW key \in ManagedKeys
    PROVE  /\ RelayLine(key) \in Line /\ RelayLine(key).key = key /\ RelayLine(key).means = "relay"
           /\ ~RelayLine(key).ended
<1>1. key \in Keys /\ "relay" \in Meanings /\ "bare" \in Trims
  BY DEF ManagedKeys, Keys, Meanings, Trims
<1>2. QED
  BY <1>1 DEF RelayLine, EnvLine, Line

\* The value in all assignments of the key.
SetLine(line, key) ==
    IF line.key = key /\ line.means # "relay" THEN [line EXCEPT !.means = "relay", !.quoted = FALSE] ELSE line

LEMMA SetLineType ==
    ASSUME NEW line \in Line, NEW key
    PROVE  /\ SetLine(line, key) \in Line /\ SetLine(line, key).key = line.key
           /\ SetLine(line, key).ended = line.ended
           /\ line.key = key => SetLine(line, key).means = "relay"
           /\ line.key # key => SetLine(line, key) = line
           /\ line.means = "relay" => SetLine(line, key) = line
<1>1. "relay" \in Meanings
  BY DEF Meanings
<1>2. QED
  BY <1>1 DEF SetLine, Line

\* After setEnvField every assignment of the key means the relay, and there is
\* one; the lines of other keys say what they said, in their order.
THEOREM SetEnvSets ==
    ASSUME NEW lines \in Seq(Line), NEW keys, EndedBut(lines, keys), NEW key \in ManagedKeys
    PROVE  /\ SetEnv(lines, key, "relay") \in Seq(Line)
           /\ EndedBut(SetEnv(lines, key, "relay"), keys \union {key})
           /\ \A others : key \notin others => View(SetEnv(lines, key, "relay"), others) = View(lines, others)
           /\ MeansOf(SetEnv(lines, key, "relay"), key) = {"relay"}
<1>1. CASE Assigns(lines, key) = {}
  <2> DEFINE new == <<RelayLine(key)>>
  <2>1. /\ new \in Seq(Line) /\ new # <<>> /\ Len(new) = 1 /\ DOMAIN new = {1}
        /\ new[1].key = key /\ new[1].means = "relay"
    BY RelayLineType
  <2>2. SetEnv(lines, key, "relay") = AppendLines(lines, new)
    BY <1>1 DEF SetEnv, RelayLine
  <2> HIDE DEF new
  <2>3. EndedBut(new, keys \union {key})
    BY <2>1 DEF EndedBut
  <2>4. /\ AppendLines(lines, new) \in Seq(Line)
        /\ \A q : View(AppendLines(lines, new), q) = View(lines, q) \o View(new, q)
        /\ EndedBut(AppendLines(lines, new), keys \union {key})
    BY <2>1, <2>3, AppendedLines
  <2>5. ASSUME NEW others, key \notin others
        PROVE  View(AppendLines(lines, new), others) = View(lines, others)
    <3>1. View(new, others) = <<>>
      BY <2>1, <2>5, ViewNone
    <3>2. View(lines, others) \in Seq({Shown(e) : e \in Line})
      <4>1. Of(lines, others) \in Seq(Line)
        BY OfElements
      <4>2. QED
        BY <4>1 DEF View, Showing
    <3>3. View(lines, others) \o <<>> = View(lines, others)
      BY <3>2
    <3>4. QED
      BY <2>4, <3>1, <3>3
  <2>6. MeansOf(AppendLines(lines, new), key) = {"relay"}
    <3>1. View(lines, {key}) = <<>>
      BY <1>1, ViewNone DEF Assigns
    <3>2. View(new, {key}) = <<Shown(new[1])>>
      <4>1. \A i \in DOMAIN new : new[i].key \in {key}
        BY <2>1
      <4>2. Of(new, {key}) = new
        BY <2>1, <4>1, OfAll
      <4>3. new = <<new[1]>>
        BY <2>1
      <4>4. Showing(<<new[1]>>) = <<Shown(new[1])>>
        BY DEF Showing
      <4>5. QED
        BY <4>2, <4>3, <4>4 DEF View
    <3>3. View(AppendLines(lines, new), {key}) = <<Shown(new[1])>>
      BY <2>4, <3>1, <3>2
    <3>4. Shown(new[1])[2] = "relay"
      BY <2>1 DEF Shown
    <3>5. QED
      BY <2>4, <3>3, <3>4, MeansShown
  <2>7. QED
    BY <2>2, <2>4, <2>5, <2>6
<1>2. CASE Assigns(lines, key) # {}
  <2> DEFINE set == [i \in DOMAIN lines |-> SetLine(lines[i], key)]
  <2>1. SetEnv(lines, key, "relay") = set
    BY <1>2, Zenon DEF SetEnv, SetLine
  <2>2. /\ set \in Seq(Line) /\ Len(set) = Len(lines) /\ DOMAIN set = 1 .. Len(lines) /\ DOMAIN lines = 1 .. Len(lines)
        /\ \A i \in 1 .. Len(lines) :
              /\ lines[i] \in Line
              /\ set[i].key = lines[i].key /\ set[i].ended = lines[i].ended
              /\ lines[i].key = key => set[i].means = "relay"
              /\ lines[i].key # key => set[i] = lines[i]
    BY SetLineType
  <2> HIDE DEF set
  <2>3. EndedBut(set, keys \union {key})
    BY <2>2 DEF EndedBut
  <2>4. ASSUME NEW others, key \notin others PROVE View(set, others) = View(lines, others)
    BY <2>2, <2>4, ViewAlike
  <2>5. MeansOf(set, key) = {set[i].means : i \in Assigns(set, key)}
    BY <2>2, MeansOfAssigned
  <2>6. Assigns(set, key) = Assigns(lines, key)
    BY <2>2 DEF Assigns
  <2>7. \A i \in Assigns(lines, key) : set[i].means = "relay"
    BY <2>2 DEF Assigns
  <2>8. MeansOf(set, key) = {"relay"}
    BY <1>2, <2>5, <2>6, <2>7
  <2>9. QED
    BY <2>1, <2>2, <2>3, <2>4, <2>8
<1>3. QED
  BY <1>1, <1>2

\* Lines that a snapshot may hold: of this key, and with their newline.
Originals(originals, key) ==
    /\ originals \in Seq(Line)
    /\ \A i \in 1 .. Len(originals) : originals[i].key = key /\ originals[i].ended

\* What restoreEnvField is for.
Restores(lines, keys, key, originals, result) ==
    /\ result \in Seq(Line)
    /\ EndedBut(result, keys \ {key})
    /\ \A others : key \notin others => View(result, others) = View(lines, others)
    /\ MeansOf(result, key) = {line.means : line \in ToSet(originals)}

LEMMA OriginalsView ==
    ASSUME NEW key, NEW originals, Originals(originals, key)
    PROVE  /\ View(originals, {key}) = Showing(originals)
           /\ \A others : key \notin others => View(originals, others) = <<>>
           /\ EndedBut(originals, {})
<1>1. originals \in Seq(Line) /\ \A i \in DOMAIN originals : originals[i].key = key
  BY DEF Originals
<1>2. Of(originals, {key}) = originals
  BY <1>1, OfAll
<1>3. \A others : key \notin others => View(originals, others) = <<>>
  BY <1>1, ViewNone
<1>4. QED
  BY <1>2, <1>3 DEF View, Originals, EndedBut

LEMMA ViewIsSeq ==
    ASSUME NEW lines \in Seq(Line), NEW keys
    PROVE  View(lines, keys) \in Seq({Shown(e) : e \in Line})
<1>1. Of(lines, keys) \in Seq(Line)
  BY OfElements
<1>2. QED
  BY <1>1 DEF View, Showing

\* A view that is that of the originals has their meanings.
LEMMA OriginalsMeans ==
    ASSUME NEW key, NEW originals, Originals(originals, key), NEW lines \in Seq(Line),
           View(lines, {key}) = Showing(originals)
    PROVE  MeansOf(lines, key) = {line.means : line \in ToSet(originals)}
<1>1. originals \in Seq(Line)
  BY DEF Originals
<1>2. MeansOf(lines, key) = {Showing(originals)[i][2] : i \in DOMAIN Showing(originals)}
  BY MeansShown
<1>3. /\ DOMAIN Showing(originals) = DOMAIN originals
      /\ \A i \in DOMAIN originals : Showing(originals)[i][2] = originals[i].means
  BY <1>1 DEF Showing, Shown
<1>4. QED
  BY <1>2, <1>3 DEF ToSet

LEMMA RestoreAppends ==
    ASSUME NEW lines \in Seq(Line), NEW keys, EndedBut(lines, keys), NEW key, NEW originals,
           Originals(originals, key), Assigns(lines, key) = {}
    PROVE  Restores(lines, keys, key, originals, RestoreEnv(lines, key, originals))
<1>1. originals \in Seq(Line)
  BY DEF Originals
<1>2. \A i \in DOMAIN lines : lines[i].key # key
  BY DEF Assigns
<1>3. View(lines, {key}) = <<>>
  BY <1>2, ViewNone
<1>4. CASE originals = <<>>
  <2>1. RestoreEnv(lines, key, originals) = lines
    BY <1>4 DEF RestoreEnv
  <2>2. EndedBut(lines, keys \ {key})
    BY <1>2 DEF EndedBut
  <2>3. Showing(originals) = <<>>
    BY <1>4 DEF Showing
  <2>4. MeansOf(lines, key) = {line.means : line \in ToSet(originals)}
    BY <1>3, <2>3, OriginalsMeans
  <2>5. QED
    BY <2>1, <2>2, <2>4 DEF Restores
<1>5. CASE originals # <<>>
  <2> DEFINE result == AppendLines(lines, originals)
  <2>1. RestoreEnv(lines, key, originals) = result
    BY <1>5 DEF RestoreEnv
  <2>2. /\ result \in Seq(Line)
        /\ \A q : View(result, q) = View(lines, q) \o View(originals, q)
        /\ EndedBut(result, {})
    BY <1>1, <1>5, AppendedLines, OriginalsView
  <2> HIDE DEF result
  <2>3. EndedBut(result, keys \ {key})
    BY <2>2 DEF EndedBut
  <2>4. ASSUME NEW others, key \notin others PROVE View(result, others) = View(lines, others)
    <3>1. View(result, others) = View(lines, others) \o <<>>
      <4>1. View(originals, others) = <<>>
        BY <2>4, OriginalsView
      <4>2. View(result, others) = View(lines, others) \o View(originals, others)
        BY <2>2
      <4>3. QED
        BY <4>1, <4>2
    <3>2. View(lines, others) \in Seq({Shown(e) : e \in Line})
      BY ViewIsSeq
    <3>3. QED
      BY <3>1, <3>2
  <2>5. View(result, {key}) = Showing(originals)
    <3>1. View(result, {key}) = <<>> \o Showing(originals)
      BY <1>3, <2>2, OriginalsView
    <3>2. View(originals, {key}) \in Seq({Shown(e) : e \in Line})
      BY <1>1, ViewIsSeq
    <3>3. Showing(originals) \in Seq({Shown(e) : e \in Line})
      BY <3>2, OriginalsView
    <3>4. QED
      BY <3>1, <3>3
  <2>6. MeansOf(result, key) = {line.means : line \in ToSet(originals)}
    BY <2>2, <2>5, OriginalsMeans
  <2>7. QED
    BY <2>1, <2>2, <2>3, <2>4, <2>6 DEF Restores
<1>6. QED
  BY <1>4, <1>5

LEMMA RestoreReplaces ==
    ASSUME NEW lines \in Seq(Line), NEW keys, EndedBut(lines, keys), NEW key, NEW originals,
           Originals(originals, key), Assigns(lines, key) # {},
           Len(OriginalLines(lines, key)) = Len(originals)
    PROVE  /\ RestoreEnv(lines, key, originals) = ReplaceLines(lines, key, originals)
           /\ Restores(lines, keys, key, originals, RestoreEnv(lines, key, originals))
<1> DEFINE A == Assigns(lines, key)
           n == Len(lines)
           place == [i \in 1 .. n |-> Len(Keeping(lines, A)[i])]
           result == [i \in 1 .. n |-> IF lines[i].key # key THEN lines[i] ELSE originals[place[i]]]
<1>1. /\ originals \in Seq(Line) /\ n \in 0 .. n /\ DOMAIN lines = 1 .. n /\ n \in Nat
      /\ \A i \in 1 .. n : n >= i /\ (i \in A <=> lines[i].key = key)
      /\ A \subseteq 1 .. n
  BY DEF Originals, Assigns
<1>2. Len(Keeping(lines, A)[n]) = Len(originals)
  BY DEF OriginalLines, Kept
<1>3. \A i \in 1 .. n : i \in A => place[i] \in 1 .. Len(originals)
  <2>1. TAKE i \in 1 .. n
  <2>2. HAVE i \in A
  <2>3. Len(Keeping(lines, A)[i]) \in 1 .. Len(Keeping(lines, A)[n])
    BY <1>1, <2>2, KeepingPlace
  <2>4. QED
    BY <1>2, <2>3
<1>4. \A j \in 1 .. Len(originals) : \E i \in 1 .. n : i \in A /\ place[i] = j
  <2>1. \A j \in 1 .. Len(Keeping(lines, A)[n]) : \E i \in 1 .. n : i \in A /\ Len(Keeping(lines, A)[i]) = j
    BY <1>1, KeepingOnto
  <2>2. QED
    BY <1>2, <2>1
<1>5. ReplaceLines(lines, key, originals) = result
  BY <1>1 DEF ReplaceLines
<1> HIDE DEF place, A
<1>6. \A i \in 1 .. n : /\ lines[i].key # key => result[i] = lines[i]
                        /\ lines[i].key = key => /\ result[i] = originals[place[i]]
                                                 /\ place[i] \in 1 .. Len(originals)
                                                 /\ result[i].key = key /\ result[i].ended
                        /\ result[i] \in Line
  BY <1>1, <1>3 DEF Originals
<1>7. result \in Seq(Line) /\ Len(result) = n /\ DOMAIN result = 1 .. n
  BY <1>1, <1>6
<1> HIDE DEF result
<1>8. EndedBut(result, keys \ {key}) /\ EndedBut(result, keys)
  BY <1>6, <1>7 DEF EndedBut
<1>9. ASSUME NEW others, key \notin others PROVE View(result, others) = View(lines, others)
  <2>1. \A i \in 1 .. n : result[i].key \in others \/ lines[i].key \in others => Shown(result[i]) = Shown(lines[i])
    BY <1>6, <1>9
  <2>2. QED
    BY <1>7, <2>1, ViewAlike
<1>10. MeansOf(result, key) = {line.means : line \in ToSet(originals)}
  <2>1. MeansOf(result, key) = {result[i].means : i \in Assigns(result, key)}
    BY <1>7, MeansOfAssigned
  <2>2. Assigns(result, key) = A
    BY <1>1, <1>6, <1>7 DEF Assigns
  <2>3. {result[i].means : i \in A} = {originals[place[i]].means : i \in A}
    BY <1>1, <1>6
  <2>4. DOMAIN originals = 1 .. Len(originals)
    BY <1>1
  <2>5. {originals[place[i]].means : i \in A} = {originals[j].means : j \in 1 .. Len(originals)}
    BY <1>1, <1>3, <1>4
  <2>6. {line.means : line \in ToSet(originals)} = {originals[j].means : j \in 1 .. Len(originals)}
    BY <2>4 DEF ToSet
  <2>7. QED
    BY <2>1, <2>2, <2>3, <2>5, <2>6
<1>11. Joined(result) = result
  BY <1>7, <1>8, JoinedSame
<1>12. RestoreEnv(lines, key, originals) = result
  BY <1>5, <1>11 DEF RestoreEnv
<1>13. QED
  BY <1>5, <1>7, <1>8, <1>9, <1>10, <1>12 DEF Restores

LEMMA FirstAssigned ==
    ASSUME NEW lines \in Seq(Line), NEW key, Assigns(lines, key) # {}
    PROVE  /\ Min(Assigns(lines, key)) \in 1 .. Len(lines)
           /\ lines[Min(Assigns(lines, key))].key = key
           /\ \A i \in 1 .. Min(Assigns(lines, key)) - 1 : lines[i].key # key
<1> DEFINE A == Assigns(lines, key)
<1>1. A \in SUBSET Nat /\ A \subseteq 1 .. Len(lines) /\ \A i \in 1 .. Len(lines) : i \in A <=> lines[i].key = key
  BY DEF Assigns
<1> HIDE DEF A
<1>2. \E x \in A : \A y \in A : x <= y
  BY <1>1, HasLeast DEF A
<1>3. Min(A) \in A /\ \A y \in A : Min(A) <= y
  BY <1>2 DEF Min
<1>4. ASSUME NEW i \in 1 .. Min(A) - 1 PROVE lines[i].key # key
  <2>1. PICK m \in 1 .. Len(lines) : m = Min(A)
    BY <1>1, <1>3
  <2>2. i \in 1 .. m - 1 /\ Len(lines) \in Nat
    BY <2>1
  <2>3. i \in 1 .. Len(lines) /\ ~(m <= i)
    BY <2>2
  <2>4. QED
    BY <1>1, <1>3, <2>1, <2>3
<1>5. QED
  BY <1>1, <1>3, <1>4 DEF A

\* The file from a line on.
LEMMA SubSeqRest ==
    ASSUME NEW T, NEW s \in Seq(T), NEW m \in 1 .. Len(s)
    PROVE  /\ SubSeq(s, m, Len(s)) \in Seq(T) /\ Len(SubSeq(s, m, Len(s))) = Len(s) - m + 1
           /\ \A i \in 1 .. Len(s) - m + 1 : SubSeq(s, m, Len(s))[i] = s[m + i - 1]
           /\ SubSeq(s, 1, m - 1) \o SubSeq(s, m, Len(s)) = s
<1> DEFINE n == Len(s)
<1>1. n \in Nat /\ m \in Int /\ n \in Int /\ m <= n /\ \A i \in m .. n : s[i] \in T
  OBVIOUS
<1>2. 1 \in 1 .. n + 1 /\ m - 1 \in 1 - 1 .. n /\ n \in m - 1 .. n /\ (m - 1) + 1 = m
  OBVIOUS
<1>3. SubSeq(s, 1, n) = s
  BY SubSeqFull
<1> HIDE DEF n
<1>4. /\ SubSeq(s, m, n) \in Seq(T) /\ Len(SubSeq(s, m, n)) = n - m + 1
      /\ \A i \in 1 .. n - m + 1 : SubSeq(s, m, n)[i] = s[m + i - 1]
  BY <1>1, SubSeqProperties
<1>5. SubSeq(s, 1, m - 1) \o SubSeq(s, (m - 1) + 1, n) = SubSeq(s, 1, n)
  BY <1>1, <1>2, ConcatAdjacentSubSeq DEF n
<1>6. QED
  BY <1>2, <1>3, <1>4, <1>5 DEF n

Left(lines, key) == Kept(lines, DOMAIN lines \ Assigns(lines, key))

LeavesOthers(lines, keys, key, after) ==
    /\ after \in Seq(Line)
    /\ \A i \in 1 .. Len(after) : after[i].key # key
    /\ EndedBut(after, keys \ {key})
    /\ \A others : key \notin others => View(after, others) = View(lines, others)

\* What is left of some lines when those of a key have been taken out.
LEMMA OthersLeft ==
    ASSUME NEW rest \in Seq(Line), NEW keys, EndedBut(rest, keys), NEW key
    PROVE  LeavesOthers(rest, keys, key, Left(rest, key))
<1> DEFINE R == DOMAIN rest \ Assigns(rest, key)
           n == Len(rest)
           K == Keeping(rest, R)
           after == K[n]
<1>1. /\ n \in Nat /\ n \in 0 .. n /\ DOMAIN rest = 1 .. n /\ \A i \in 1 .. n : n >= i
      /\ \A i \in 1 .. n : i \in R <=> rest[i].key # key
  BY DEF Assigns
<1>2. after \in Seq(Line)
  BY <1>1, KeepingType
<1>3. \A i \in 1 .. n : i \in R => Len(K[i]) \in 1 .. Len(after) /\ after[Len(K[i])] = rest[i]
  <2>1. TAKE i \in 1 .. n
  <2>2. HAVE i \in R
  <2>3. QED
    BY <1>1, <2>2, KeepingPlace
<1>4. \A j \in 1 .. Len(after) : \E i \in 1 .. n : i \in R /\ Len(K[i]) = j
  BY <1>1, KeepingOnto
<1>5. Kept(rest, R) = after
  BY DEF Kept
<1>6. \A others : key \notin others => View(after, others) = View(rest, others)
  <2>1. TAKE others
  <2>2. HAVE key \notin others
  <2>3. Of(Kept(rest, R), others) = Of(rest, others)
    BY <2>2, OfTwice
  <2>4. QED
    BY <1>5, <2>3 DEF View
<1>7. n \in 1 .. n => Len(K[n]) = Len(after)
  OBVIOUS
<1> HIDE DEF R, K, after
<1>8. ASSUME NEW j \in 1 .. Len(after)
      PROVE  after[j].key # key /\ (after[j].ended \/ (j = Len(after) /\ after[j].key \in keys \ {key}))
  <2>1. PICK i \in 1 .. n : i \in R /\ Len(K[i]) = j
    BY <1>4
  <2>2. after[j] = rest[i] /\ rest[i].key # key
    BY <1>1, <1>3, <2>1
  <2>3. rest[i].ended \/ (i = n /\ rest[i].key \in keys)
    BY DEF EndedBut
  <2>4. i = n => j = Len(after)
    BY <1>7, <2>1
  <2>5. QED
    BY <2>2, <2>3, <2>4
<1>9. EndedBut(after, keys \ {key})
  BY <1>8 DEF EndedBut
<1>10. QED
  BY <1>2, <1>5, <1>6, <1>8, <1>9 DEF R, Left, LeavesOthers

\* The file that restoreEnvField puts together from three parts.
LEMMA RestoreMoves ==
    ASSUME NEW lines \in Seq(Line), NEW keys, EndedBut(lines, keys), NEW key, NEW originals,
           Originals(originals, key), Assigns(lines, key) # {},
           Len(OriginalLines(lines, key)) # Len(originals)
    PROVE  /\ RestoreEnv(lines, key, originals) =
                LET first == Min(Assigns(lines, key))
                    rest == SubSeq(lines, first, Len(lines))
                IN  SubSeq(lines, 1, first - 1) \o originals \o Left(rest, key)
           /\ Restores(lines, keys, key, originals, RestoreEnv(lines, key, originals))
<1> DEFINE first == Min(Assigns(lines, key))
           before == SubSeq(lines, 1, first - 1)
           rest == SubSeq(lines, first, Len(lines))
           after == Left(rest, key)
           inserted == IF originals = <<>> \/ after = <<>> THEN originals
                       ELSE Append(Front(originals), Ended(Last(originals)))
<1>1. first \in 1 .. Len(lines) /\ \A i \in 1 .. first - 1 : lines[i].key # key
  BY FirstAssigned
<1>2. MoveLines(lines, key, originals) = before \o inserted \o after
  BY DEF MoveLines, Left
<1> HIDE DEF first
<1>3. /\ before \in Seq(Line) /\ Len(before) = first - 1 /\ \A i \in 1 .. first - 1 : before[i] = lines[i]
  <2>1. first - 1 \in 0 .. Len(lines)
    BY <1>1
  <2>2. QED
    BY <2>1, SubSeqStart
<1>4. /\ rest \in Seq(Line) /\ Len(rest) = Len(lines) - first + 1
      /\ \A i \in 1 .. Len(lines) - first + 1 : rest[i] = lines[first + i - 1]
      /\ before \o rest = lines
  BY <1>1, SubSeqRest
<1> HIDE DEF before, rest
<1>5. EndedBut(rest, keys)
  <2>1. SUFFICES ASSUME NEW i \in 1 .. Len(rest)
                 PROVE  rest[i].ended \/ (i = Len(rest) /\ rest[i].key \in keys)
    BY DEF EndedBut
  <2>2. /\ rest[i] = lines[first + i - 1] /\ first + i - 1 \in 1 .. Len(lines)
        /\ first + i - 1 = Len(lines) => i = Len(rest)
    BY <1>1, <1>4
  <2>3. QED
    BY <2>2 DEF EndedBut
<1>6. /\ after \in Seq(Line) /\ \A i \in 1 .. Len(after) : after[i].key # key
      /\ EndedBut(after, keys \ {key})
      /\ \A others : key \notin others => View(after, others) = View(rest, others)
  <2>1. rest \in Seq(Line)
    BY <1>4
  <2>2. LeavesOthers(rest, keys, key, Left(rest, key))
    BY <1>5, <2>1, OthersLeft
  <2>3. QED
    BY <2>2 DEF LeavesOthers
<1> HIDE DEF after
<1>7. \A i \in 1 .. Len(before) : before[i].ended /\ before[i].key # key
  <2>1. TAKE i \in 1 .. Len(before)
  <2>2. i \in 1 .. first - 1 /\ i \in 1 .. Len(lines) /\ i # Len(lines)
    BY <1>1, <1>3
  <2>3. QED
    BY <1>1, <1>3, <2>2 DEF EndedBut
<1>8. originals \in Seq(Line) /\ \A i \in 1 .. Len(originals) : originals[i].key = key /\ originals[i].ended
  BY DEF Originals
<1>9. inserted = originals
  <2>1. ASSUME originals # <<>> PROVE Append(Front(originals), Ended(Last(originals))) = originals
    <3>1. Len(originals) \in 1 .. Len(originals)
      BY <1>8, <2>1
    <3>2. originals[Len(originals)] \in Line /\ originals[Len(originals)].ended
      BY <1>8, <3>1
    <3>3. Ended(originals[Len(originals)]) = originals[Len(originals)]
      BY <3>2, EndedLine
    <3>4. SubSeq(originals, 1, Len(originals)) = originals
      BY <1>8, SubSeqFull
    <3>5. SubSeq(originals, 1, Len(originals)) =
             Append(SubSeq(originals, 1, Len(originals) - 1), originals[Len(originals)])
      BY <1>8, <3>1, SubSeqGrows
    <3>6. QED
      BY <3>3, <3>4, <3>5 DEF Front, Last
  <2>2. QED
    BY <2>1
<1> HIDE DEF inserted
<1> DEFINE result == before \o originals \o after
<1>10. result \in Seq(Line) /\ before \o originals \in Seq(Line)
  BY <1>3, <1>6, <1>8
<1>11. EndedBut(result, keys \ {key})
  <2> DEFINE start == before \o originals
  <2>1. /\ start \in Seq(Line) /\ Len(start) = Len(before) + Len(originals)
        /\ \A i \in 1 .. Len(before) : start[i] = before[i]
        /\ \A i \in 1 .. Len(before) + Len(originals) :
              i \notin 1 .. Len(before) => i - Len(before) \in 1 .. Len(originals) /\ start[i] = originals[i - Len(before)]
    BY <1>3, <1>8, ConcatPlaces
  <2>2. \A i \in 1 .. Len(start) : start[i].ended
    BY <1>7, <1>8, <2>1
  <2> HIDE DEF start
  <2>3. /\ result = start \o after /\ Len(result) = Len(start) + Len(after)
        /\ \A i \in 1 .. Len(start) : result[i] = start[i]
        /\ \A i \in 1 .. Len(start) + Len(after) :
              i \notin 1 .. Len(start) => i - Len(start) \in 1 .. Len(after) /\ result[i] = after[i - Len(start)]
    <3>1. result = start \o after
      BY DEF start
    <3>2. start \in Seq(Line) /\ after \in Seq(Line)
      BY <1>6, <2>1
    <3> HIDE DEF result, start
    <3>3. /\ Len(start \o after) = Len(start) + Len(after)
          /\ \A i \in 1 .. Len(start) : (start \o after)[i] = start[i]
          /\ \A i \in 1 .. Len(start) + Len(after) :
                i \notin 1 .. Len(start) => i - Len(start) \in 1 .. Len(after) /\ (start \o after)[i] = after[i - Len(start)]
      BY <3>2, ConcatPlaces
    <3>4. QED
      BY <3>1, <3>3
  <2> HIDE DEF result
  <2>4. SUFFICES ASSUME NEW i \in 1 .. Len(result)
                 PROVE  result[i].ended \/ (i = Len(result) /\ result[i].key \in keys \ {key})
    BY DEF EndedBut
  <2>5. CASE i \in 1 .. Len(start)
    BY <2>2, <2>3, <2>5
  <2>6. CASE i \notin 1 .. Len(start)
    <3>1. /\ i - Len(start) \in 1 .. Len(after) /\ result[i] = after[i - Len(start)]
      BY <2>3, <2>6
    <3>2. i - Len(start) = Len(after) => i = Len(result)
      <4>1. Len(start) \in Nat /\ Len(after) \in Nat /\ i \in Int
        BY <1>6, <2>1
      <4>2. QED
        BY <2>3, <4>1
    <3>3. QED
      BY <1>6, <3>1, <3>2 DEF EndedBut
  <2>7. QED
    BY <2>5, <2>6
<1>12. \A q : View(result, q) = View(before, q) \o View(originals, q) \o View(after, q)
  <2>1. TAKE q
  <2>2. View(before \o originals, q) = View(before, q) \o View(originals, q)
    BY <1>3, <1>8, ViewConcat
  <2>3. View((before \o originals) \o after, q) = View(before \o originals, q) \o View(after, q)
    BY <1>6, <1>10, ViewConcat
  <2>4. QED
    BY <2>2, <2>3
<1> HIDE DEF result
<1>13. ASSUME NEW others, key \notin others PROVE View(result, others) = View(lines, others)
  <2>1. View(originals, others) = <<>> /\ View(after, others) = View(rest, others)
    <3>1. View(originals, others) = <<>>
      BY <1>13, OriginalsView
    <3>2. View(after, others) = View(rest, others)
      BY <1>6, <1>13
    <3>3. QED
      BY <3>1, <3>2
  <2>2. View(lines, others) = View(before, others) \o View(rest, others)
    BY <1>3, <1>4, ViewConcat
  <2>3. View(before, others) \in Seq({Shown(e) : e \in Line})
    BY <1>3, ViewIsSeq
  <2>4. View(before, others) \o <<>> = View(before, others)
    BY <2>3
  <2>5. QED
    BY <1>12, <2>1, <2>2, <2>4
<1>14. MeansOf(result, key) = {line.means : line \in ToSet(originals)}
  <2>1. View(before, {key}) = <<>>
    <3>1. \A i \in DOMAIN before : before[i].key \notin {key}
      BY <1>3, <1>7
    <3>2. QED
      BY <1>3, <3>1, ViewNone
  <2>2. View(after, {key}) = <<>>
    <3>1. \A i \in DOMAIN after : after[i].key \notin {key}
      BY <1>6
    <3>2. QED
      BY <1>6, <3>1, ViewNone
  <2>3. View(originals, {key}) = Showing(originals) /\ View(originals, {key}) \in Seq({Shown(e) : e \in Line})
    BY <1>8, OriginalsView, ViewIsSeq
  <2>4. View(result, {key}) = <<>> \o Showing(originals) \o <<>>
    BY <1>12, <2>1, <2>2, <2>3
  <2>5. View(result, {key}) = Showing(originals)
    BY <2>3, <2>4
  <2>6. QED
    BY <1>10, <2>5, OriginalsMeans
<1>15. Joined(result) = result
  BY <1>10, <1>11, JoinedSame
<1>16. RestoreEnv(lines, key, originals) = result
  BY <1>2, <1>9, <1>15 DEF RestoreEnv, result
<1>17. Restores(lines, keys, key, originals, result)
  BY <1>10, <1>11, <1>13, <1>14 DEF Restores
<1>18. QED
  BY <1>16, <1>17 DEF result, before, rest, after, first

\* After restoreEnvField the key has the values of the originals and the lines of
\* all other keys say what they said, whether it appends, replaces or moves.
THEOREM RestoreEnvRestores ==
    ASSUME NEW lines \in Seq(Line), NEW keys, EndedBut(lines, keys), NEW key, NEW originals,
           Originals(originals, key)
    PROVE  Restores(lines, keys, key, originals, RestoreEnv(lines, key, originals))
  BY RestoreAppends, RestoreReplaces, RestoreMoves

\* What is kept when a key is taken out are the lines of the other keys.
LEMMA LeftOf ==
    ASSUME NEW lines \in Seq(Line), NEW key
    PROVE  Left(lines, key) = Of(lines, Keys \ {key})
<1>1. \A i \in DOMAIN lines : lines[i].key \in Keys
  <2>1. \A i \in DOMAIN lines : lines[i] \in Line
    OBVIOUS
  <2>2. QED
    BY <2>1 DEF Line
<1>2. DOMAIN lines \ Assigns(lines, key) = {i \in DOMAIN lines : lines[i].key \in Keys \ {key}}
  BY <1>1 DEF Assigns
<1>3. QED
  BY <1>2 DEF Left, Of

\* A line of the key between lines of other keys is taken out again.
LEMMA RestoreAbsent ==
    ASSUME NEW m \in Seq(Line), NEW e \in Line, NEW c \in Seq(Line), NEW keys,
           EndedBut((m \o <<e>>) \o c, keys),
           \A i \in DOMAIN m : m[i].key # e.key,
           \A i \in DOMAIN c : c[i].key # e.key
    PROVE  RestoreEnv((m \o <<e>>) \o c, e.key, <<>>) = m \o c
<1> DEFINE key == e.key
           one == <<e>>
           lines == (m \o one) \o c
           first == Min(Assigns(lines, key))
           rest == SubSeq(lines, first, Len(lines))
<1>1. /\ one \in Seq(Line) /\ Len(one) = 1 /\ DOMAIN one = {1} /\ one[1] = e /\ m \o one \in Seq(Line)
      /\ lines \in Seq(Line)
  OBVIOUS
<1>2. lines = m \o (one \o c) /\ one \o c \in Seq(Line) /\ (one \o c)[1] = e /\ Len(one \o c) = 1 + Len(c)
  BY <1>1
<1>3. Len(lines) = Len(m) + 1 + Len(c) /\ Len(m) \in Nat /\ Len(c) \in Nat
  <2>1. Len(m \o one) = Len(m) + 1
    BY <1>1
  <2>2. Len(lines) = Len(m \o one) + Len(c)
    <3> HIDE DEF one
    <3>1. QED
      BY <1>1
  <2>3. QED
    BY <2>1, <2>2
<1> DEFINE n == Len(m)
<1> HIDE DEF lines
<1>4. /\ \A i \in 1 .. n : lines[i] = m[i]
      /\ lines[n + 1] = e
  <2>1. lines = m \o (one \o c) /\ m \in Seq(Line) /\ one \o c \in Seq(Line) /\ Len(one \o c) = 1 + Len(c)
    BY <1>2
  <2> HIDE DEF one
  <2>2. \A i \in 1 .. Len(m) : (m \o (one \o c))[i] = m[i]
    BY <2>1, ConcatPlaces
  <2>3. \A i \in 1 .. Len(m) + Len(one \o c) :
            i \notin 1 .. Len(m) => (m \o (one \o c))[i] = (one \o c)[i - Len(m)]
    BY <2>1, ConcatPlaces
  <2>4. /\ n + 1 \in 1 .. Len(m) + Len(one \o c) /\ n + 1 \notin 1 .. Len(m) /\ (n + 1) - Len(m) = 1
    BY <1>3, <2>1
  <2>5. (m \o (one \o c))[n + 1] = (one \o c)[(n + 1) - Len(m)]
    BY <2>3, <2>4
  <2>6. lines[n + 1] = e
    BY <1>2, <2>1, <2>4, <2>5
  <2>7. QED
    BY <2>1, <2>2, <2>6
<1>5. Assigns(lines, key) # {}
  <2>1. n + 1 \in DOMAIN lines
    BY <1>1, <1>3
  <2>2. QED
    BY <1>4, <2>1 DEF Assigns
<1>6. first = n + 1
  <2>1. /\ first \in 1 .. Len(lines) /\ lines[first].key = key
        /\ \A i \in 1 .. first - 1 : lines[i].key # key
    BY <1>1, <1>5, FirstAssigned
  <2> HIDE DEF first
  <2>2. first \notin 1 .. n
    <3>1. DOMAIN m = 1 .. n
      OBVIOUS
    <3>2. QED
      BY <1>4, <2>1, <3>1
  <2>3. n + 1 \notin 1 .. first - 1
    BY <1>4, <2>1
  <2>4. QED
    BY <1>3, <2>1, <2>2, <2>3
<1>7. SubSeq(lines, 1, n) = m
  <2>1. SubSeq(lines, 1, n) = SubSeq(m, 1, n)
    <3>1. 1 \in 1 .. n + 1 /\ n \in 1 - 1 .. n
      BY <1>3
    <3>2. /\ SubSeq(lines, 1, n) \in Seq(Line) /\ Len(SubSeq(lines, 1, n)) = n
          /\ \A i \in 1 .. n : SubSeq(lines, 1, n)[i] = lines[i]
      <4>1. n \in 0 .. Len(lines)
        BY <1>3
      <4>2. QED
        BY <1>1, <4>1, SubSeqStart
    <3>3. SubSeq(lines, 1, n) = m
      <4> DEFINE s == SubSeq(lines, 1, n)
      <4>1. s \in Seq(Line) /\ m \in Seq(Line) /\ Len(s) = Len(m) /\ \A i \in 1 .. Len(m) : s[i] = m[i]
        BY <1>4, <3>2
      <4> HIDE DEF s
      <4>2. s = m
        BY <4>1
      <4>3. QED
        BY <4>2 DEF s
    <3>4. QED
      BY <3>3, SubSeqFull
  <2>2. QED
    BY <2>1, SubSeqFull
<1>8. rest = one \o c
  <2>1. /\ SubSeq(lines, n + 1, Len(lines)) \in Seq(Line) /\ Len(SubSeq(lines, n + 1, Len(lines))) = Len(lines) - (n + 1) + 1
        /\ SubSeq(lines, 1, (n + 1) - 1) \o SubSeq(lines, n + 1, Len(lines)) = lines
    <3>1. n + 1 \in 1 .. Len(lines)
      BY <1>3
    <3>2. QED
      BY <1>1, <3>1, SubSeqRest
  <2> DEFINE r == SubSeq(lines, n + 1, Len(lines))
  <2>2. m \o r = m \o (one \o c) /\ r \in Seq(Line)
    <3>1. (n + 1) - 1 = n
      BY <1>3
    <3>2. QED
      BY <1>2, <1>7, <2>1, <3>1
  <2>3. r = one \o c
    <3> HIDE DEF r, one
    <3>1. one \o c \in Seq(Line) /\ m \in Seq(Line)
      BY <1>2
    <3>2. QED
      BY <2>2, <3>1, ConcatSimplifications
  <2>4. QED
    BY <1>6, <2>3
<1>9. Left(rest, key) = c
  <2>1. Left(one \o c, key) = Of(one \o c, Keys \ {key})
    BY <1>2, LeftOf
  <2>2. Of(one \o c, Keys \ {key}) = Of(one, Keys \ {key}) \o Of(c, Keys \ {key})
    <3> HIDE DEF one
    <3>1. one \in Seq(Line)
      BY <1>1
    <3>2. QED
      BY <3>1, OfConcat
  <2>3. Of(one, Keys \ {key}) = <<>>
    BY <1>1, OfNone
  <2>4. Of(c, Keys \ {key}) = c
    <3>1. \A i \in DOMAIN c : c[i].key \in Keys \ {key}
      <4>1. \A i \in DOMAIN c : c[i] \in Line
        OBVIOUS
      <4>2. \A i \in DOMAIN c : c[i].key \in Keys
        BY <4>1 DEF Line
      <4>3. QED
        BY <4>2
    <3>2. QED
      BY <3>1, OfAll
  <2>5. <<>> \o c = c
    OBVIOUS
  <2>6. QED
    BY <1>8, <2>1, <2>2, <2>3, <2>4, <2>5
<1>10. Len(OriginalLines(lines, key)) # Len(<<>>)
  <2>1. Of(lines, {key}) \in Seq(Line) /\ ToSet(Of(lines, {key})) = {lines[i] : i \in {j \in DOMAIN lines : lines[j].key \in {key}}}
    BY <1>1, OfElements
  <2>2. PICK i \in DOMAIN lines : lines[i].key = key
    BY <1>5 DEF Assigns
  <2>3. lines[i] \in ToSet(Of(lines, {key}))
    BY <2>1, <2>2
  <2>4. Of(lines, {key}) # <<>>
    <3>1. ToSet(<<>>) = {}
      BY DEF ToSet
    <3>2. QED
      BY <2>3, <3>1
  <2>5. QED
    BY <2>1, <2>4, OriginalLinesOf
<1>11. Originals(<<>>, key)
  BY DEF Originals
<1>12. RestoreEnv(lines, key, <<>>) = SubSeq(lines, 1, first - 1) \o <<>> \o Left(rest, key)
  <2>1. EndedBut(lines, keys)
    BY DEF lines
  <2>2. QED
    BY <1>1, <1>5, <1>10, <1>11, <2>1, RestoreMoves
<1>13. SubSeq(lines, 1, first - 1) = m
  <2>1. first - 1 = n
    BY <1>3, <1>6
  <2>2. QED
    BY <1>7, <2>1
<1>14. m \o <<>> = m
  OBVIOUS
<1>15. RestoreEnv(lines, key, <<>>) = m \o c
  BY <1>9, <1>12, <1>13, <1>14
<1>16. QED
  BY <1>15 DEF lines

\* Where the lines of a concatenation are.
Follows(all, a, b) ==
    /\ all \in Seq(Line) /\ Len(all) = Len(a) + Len(b)
    /\ \A i \in 1 .. Len(a) : all[i] = a[i]
    /\ \A i \in 1 .. Len(a) + Len(b) : i \notin 1 .. Len(a) => i - Len(a) \in 1 .. Len(b) /\ all[i] = b[i - Len(a)]

LEMMA LinesFollow ==
    ASSUME NEW a \in Seq(Line), NEW b \in Seq(Line)
    PROVE  Follows(a \o b, a, b)
  BY ConcatPlaces DEF Follows

LEMMA KeepingCounts ==
    ASSUME NEW a \in Seq(Line), NEW b \in Seq(Line), NEW m \in Nat, m <= Len(a), m <= Len(b), NEW numbers
    PROVE  \A k \in 0 .. m : Len(Keeping(a, numbers)[k]) = Len(Keeping(b, numbers)[k])
<1>1. PICK others : others = numbers
  OBVIOUS
<1>2. \A i \in 1 .. m : i \in numbers <=> i \in others
  BY <1>1
<1>3. KeepsAlike(a, numbers, b, others, m)
  BY <1>2, KeepingAgrees
<1>4. QED
  BY <1>1, <1>3 DEF KeepsAlike

\* A snapshot of a file with all its newlines.
LEMMA OriginalsOf ==
    ASSUME NEW lines \in Seq(Line), EndedBut(lines, {}), NEW key
    PROVE  Originals(OriginalLines(lines, key), key)
<1> DEFINE s == Of(lines, {key})
<1>1. s \in Seq(Line) /\ ToSet(s) = {lines[i] : i \in {j \in DOMAIN lines : lines[j].key \in {key}}}
  BY OfElements
<1>2. s = OriginalLines(lines, key)
  BY OriginalLinesOf
<1> HIDE DEF s
<1>3. \A i \in DOMAIN lines : lines[i].ended
  BY DEF EndedBut
<1>4. ASSUME NEW i \in 1 .. Len(s) PROVE s[i].key = key /\ s[i].ended
  <2>1. s[i] \in ToSet(s)
    BY <1>1 DEF ToSet
  <2>2. PICK j \in DOMAIN lines : s[i] = lines[j] /\ lines[j].key = key
    BY <1>1, <2>1
  <2>3. QED
    BY <1>3, <2>2
<1>5. QED
  BY <1>1, <1>2, <1>4 DEF Originals

\* The lines of s, but those of the key as they are in w.
BackIn(s, w, key) == [i \in 1 .. Len(w) |-> IF w[i].key = key THEN w[i] ELSE s[i]]

LEMMA BackInType ==
    ASSUME NEW w \in Seq(Line), NEW s \in Seq(Line), Len(s) = Len(w), NEW key
    PROVE  /\ BackIn(s, w, key) \in Seq(Line) /\ Len(BackIn(s, w, key)) = Len(w)
           /\ \A i \in 1 .. Len(w) : BackIn(s, w, key)[i] = IF w[i].key = key THEN w[i] ELSE s[i]
<1>1. \A i \in 1 .. Len(w) : w[i] \in Line /\ s[i] \in Line
  OBVIOUS
<1>2. QED
  BY <1>1 DEF BackIn

\* The same lines assign the key, and nothing behind them does: each original
\* goes back to its place.
LEMMA RestorePresent ==
    ASSUME NEW w \in Seq(Line), EndedBut(w, {}), NEW s \in Seq(Line), NEW t \in Seq(Line), NEW keys,
           EndedBut(s \o t, keys), NEW key, Assigns(w, key) # {},
           Len(s) = Len(w), \A i \in 1 .. Len(w) : s[i].key = w[i].key,
           \A i \in 1 .. Len(t) : t[i].key # key
    PROVE  RestoreEnv(s \o t, key, OriginalLines(w, key)) = BackIn(s, w, key) \o t
<1> DEFINE lines == s \o t
           n == Len(w)
           A == Assigns(w, key)
           O == OriginalLines(w, key)
           b == BackIn(s, w, key)
           result == b \o t
<1>1. /\ n \in Nat /\ n \in 0 .. n /\ DOMAIN w = 1 .. n /\ DOMAIN s = 1 .. n /\ Len(t) \in Nat
      /\ DOMAIN t = 1 .. Len(t) /\ \A i \in 1 .. n : i \in 0 .. n /\ n >= i
  OBVIOUS
<1>2. /\ lines \in Seq(Line) /\ Len(lines) = n + Len(t)
      /\ \A i \in 1 .. n : lines[i] = s[i]
      /\ \A i \in 1 .. n + Len(t) : i \notin 1 .. n => i - n \in 1 .. Len(t) /\ lines[i] = t[i - n]
  <2>1. Follows(s \o t, s, t)
    BY LinesFollow
  <2>2. QED
    BY <2>1 DEF Follows
<1>3. /\ b \in Seq(Line) /\ Len(b) = n
      /\ \A i \in 1 .. n : b[i] = IF w[i].key = key THEN w[i] ELSE s[i]
  BY BackInType
<1>4. /\ result \in Seq(Line) /\ Len(result) = n + Len(t)
      /\ \A i \in 1 .. n : result[i] = b[i]
      /\ \A i \in 1 .. n + Len(t) : i \notin 1 .. n => i - n \in 1 .. Len(t) /\ result[i] = t[i - n]
  <2> HIDE DEF b
  <2>1. b \in Seq(Line)
    BY <1>3
  <2>2. Follows(b \o t, b, t)
    BY <2>1, LinesFollow
  <2>3. QED
    BY <1>3, <2>2 DEF Follows
<1>5. Originals(O, key)
  BY OriginalsOf
<1>6. DOMAIN lines = 1 .. n + Len(t)
  BY <1>2
<1> HIDE DEF lines, b, result
<1>7. Assigns(lines, key) = A
  <2>1. ASSUME NEW i \in 1 .. n + Len(t) PROVE lines[i].key = key <=> i \in 1 .. n /\ w[i].key = key
    <3>1. CASE i \in 1 .. n
      BY <1>2, <3>1
    <3>2. CASE i \notin 1 .. n
      BY <1>2, <3>2
    <3>3. QED
      BY <3>1, <3>2
  <2>2. 1 .. n \subseteq 1 .. n + Len(t)
    BY <1>1
  <2>3. QED
    BY <1>1, <1>6, <2>1, <2>2 DEF Assigns
<1>8. /\ Assigns(s, key) = A
      /\ \A i \in 1 .. n : i \in A <=> w[i].key = key
  BY <1>1 DEF Assigns
<1> HIDE DEF A
<1>9. Len(OriginalLines(lines, key)) = Len(O)
  <2>1. Of(lines, {key}) = Of(s, {key}) \o Of(t, {key})
    BY OfConcat DEF lines
  <2>2. Of(t, {key}) = <<>>
    BY OfNone
  <2>3. Of(s, {key}) \in Seq(Line)
    BY OfElements
  <2>4. Of(lines, {key}) = Of(s, {key})
    <3>1. Of(s, {key}) \o <<>> = Of(s, {key})
      BY <2>3
    <3>2. QED
      BY <2>1, <2>2, <3>1
  <2>5. Len(Keeping(s, A)[n]) = Len(Keeping(w, A)[n])
    <3>1. n <= Len(s) /\ n <= Len(w)
      BY <1>1
    <3>2. \A k \in 0 .. n : Len(Keeping(s, A)[k]) = Len(Keeping(w, A)[k])
      <4> HIDE DEF n
      <4>1. QED
        BY <1>1, <3>1, KeepingCounts
    <3>3. QED
      BY <1>1, <3>2
  <2>6. OriginalLines(s, key) = Keeping(s, A)[n] /\ O = Keeping(w, A)[n]
    BY <1>8 DEF OriginalLines, Kept, A
  <2>7. QED
    BY <2>4, <2>5, <2>6, OriginalLinesOf
<1>10. \A i \in 1 .. n : Len(Keeping(lines, A)[i]) = Len(Keeping(w, A)[i])
  <2>1. n <= Len(lines) /\ n <= Len(w)
    BY <1>1, <1>2
  <2>2. \A k \in 0 .. n : Len(Keeping(lines, A)[k]) = Len(Keeping(w, A)[k])
    <3> HIDE DEF n
    <3>1. QED
      BY <1>1, <1>2, <2>1, KeepingCounts
  <2>3. QED
    BY <1>1, <2>2
<1>11. \A i \in 1 .. n : i \in A => O[Len(Keeping(w, A)[i])] = w[i]
  <2>1. TAKE i \in 1 .. n
  <2>2. HAVE i \in A
  <2>3. Keeping(w, A)[n][Len(Keeping(w, A)[i])] = w[i]
    BY <1>1, <2>2, KeepingPlace
  <2>4. O = Keeping(w, A)[n]
    BY DEF OriginalLines, Kept, A
  <2>5. QED
    BY <2>3, <2>4
<1> HIDE DEF O
<1>12. ReplaceLines(lines, key, O) =
          [i \in 1 .. n + Len(t) |-> IF lines[i].key # key THEN lines[i] ELSE O[Len(Keeping(lines, A)[i])]]
  BY <1>6, <1>7 DEF ReplaceLines
<1>13. ASSUME NEW i \in 1 .. n + Len(t)
       PROVE  (IF lines[i].key # key THEN lines[i] ELSE O[Len(Keeping(lines, A)[i])]) = result[i]
  <2>1. CASE i \in 1 .. n
    <3>1. lines[i] = s[i] /\ s[i].key = w[i].key /\ (i \in A <=> w[i].key = key)
      BY <1>2, <1>8, <2>1
    <3>2. result[i] = IF w[i].key = key THEN w[i] ELSE s[i]
      BY <1>3, <1>4, <2>1
    <3>3. w[i].key = key => O[Len(Keeping(lines, A)[i])] = w[i]
      BY <1>8, <1>10, <1>11, <2>1
    <3>4. QED
      BY <3>1, <3>2, <3>3
  <2>2. CASE i \notin 1 .. n
    BY <1>2, <1>4, <2>2
  <2>3. QED
    BY <2>1, <2>2
<1>14. result = [i \in 1 .. n + Len(t) |-> result[i]]
  <2> HIDE DEF n
  <2>1. QED
    BY <1>4
<1>15. ReplaceLines(lines, key, O) = result
  BY <1>12, <1>13, <1>14, Zenon
<1>16. RestoreEnv(lines, key, O) = ReplaceLines(lines, key, O)
  <2>1. EndedBut(lines, keys) /\ Assigns(lines, key) # {}
    BY <1>7 DEF lines, A
  <2>2. QED
    BY <1>2, <1>5, <1>9, <2>1, RestoreReplaces
<1>17. QED
  BY <1>15, <1>16 DEF lines, O, result, b

\* What stands behind the user's lines for a key: a line only if he has none himself.
Behind(c, w, key) ==
    IF Assigns(w, key) = {} THEN \E e \in Line : e.key = key /\ c = <<e>> ELSE c = <<>>

LEMMA BackInSame ==
    ASSUME NEW w \in Seq(Line), NEW s \in Seq(Line), Len(s) = Len(w), NEW key, Assigns(w, key) = {}
    PROVE  BackIn(s, w, key) = s
<1>1. \A i \in 1 .. Len(w) : w[i].key # key
  BY DEF Assigns
<1>2. BackIn(s, w, key) = [i \in 1 .. Len(w) |-> s[i]]
  BY <1>1 DEF BackIn
<1>3. s = [i \in 1 .. Len(w) |-> s[i]]
  OBVIOUS
<1>4. QED
  BY <1>2, <1>3

LEMMA RestorePart ==
    ASSUME NEW w \in Seq(Line), EndedBut(w, {}), NEW s \in Seq(Line), NEW c \in Seq(Line), NEW t \in Seq(Line),
           NEW keys, EndedBut((s \o c) \o t, keys), NEW key, Behind(c, w, key),
           Len(s) = Len(w), \A i \in 1 .. Len(w) : s[i].key = w[i].key,
           \A i \in 1 .. Len(t) : t[i].key # key
    PROVE  RestoreEnv((s \o c) \o t, key, OriginalLines(w, key)) = BackIn(s, w, key) \o t
<1>1. CASE Assigns(w, key) = {}
  <2>1. PICK e \in Line : e.key = key /\ c = <<e>>
    BY <1>1 DEF Behind
  <2>2. OriginalLines(w, key) = <<>>
    <3>1. \A i \in DOMAIN w : w[i].key \notin {key}
      BY <1>1 DEF Assigns
    <3>2. QED
      BY <3>1, OfNone, OriginalLinesOf
  <2>3. \A i \in DOMAIN s : s[i].key # e.key
    <3>1. DOMAIN s = 1 .. Len(w) /\ DOMAIN w = 1 .. Len(w)
      OBVIOUS
    <3>2. QED
      BY <1>1, <2>1, <3>1 DEF Assigns
  <2>4. \A i \in DOMAIN t : t[i].key # e.key
    BY <2>1
  <2>5. RestoreEnv((s \o <<e>>) \o t, e.key, <<>>) = s \o t
    BY <2>1, <2>3, <2>4, RestoreAbsent
  <2>6. QED
    BY <1>1, <2>1, <2>2, <2>5, BackInSame
<1>2. CASE Assigns(w, key) # {}
  <2>1. c = <<>>
    BY <1>2 DEF Behind
  <2>2. s \o c = s
    BY <2>1
  <2>3. EndedBut(s \o t, keys)
    BY <2>2
  <2>4. RestoreEnv(s \o t, key, OriginalLines(w, key)) = BackIn(s, w, key) \o t
    BY <1>2, <2>3, RestorePresent
  <2>5. QED
    BY <2>2, <2>4
<1>3. QED
  BY <1>1, <1>2

\* What is said of a file that a cycle with nobody else writing it leaves.
ApiKey == "GEMINI_API_KEY"
BaseUrl == "GOOGLE_GEMINI_BASE_URL"
Taken(lines) == SetEnv(SetEnv(lines, ApiKey, "relay"), BaseUrl, "relay")
Returned(lines, first, second) == RestoreEnv(RestoreEnv(lines, ApiKey, first), BaseUrl, second)

\* The parts of the file after Enable: the user's lines with the managed values
\* in them, then a line for each field he had none for.
Parts(w, s, c, t) ==
    /\ s \in Seq(Line) /\ c \in Seq(Line) /\ t \in Seq(Line)
    /\ Len(s) = Len(w)
    /\ \A i \in 1 .. Len(w) : s[i].key = w[i].key /\ (w[i].key \notin {ApiKey, BaseUrl} => s[i] = w[i])
    /\ Behind(c, w, ApiKey) /\ Behind(t, w, BaseUrl)

LEMMA PartsReturned ==
    ASSUME NEW w \in Seq(Line), EndedBut(w, {}), NEW s, NEW c, NEW t, Parts(w, s, c, t), NEW keys,
           EndedBut((s \o c) \o t, keys)
    PROVE  Returned((s \o c) \o t, OriginalLines(w, ApiKey), OriginalLines(w, BaseUrl)) = w
<1> DEFINE x == (s \o c) \o t
           o == OriginalLines(w, ApiKey)
           b == BackIn(s, w, ApiKey)
           y == b \o t
<1>1. /\ s \in Seq(Line) /\ c \in Seq(Line) /\ t \in Seq(Line) /\ Len(s) = Len(w)
      /\ \A i \in 1 .. Len(w) : s[i].key = w[i].key /\ (w[i].key \notin {ApiKey, BaseUrl} => s[i] = w[i])
      /\ Behind(c, w, ApiKey) /\ Behind(t, w, BaseUrl)
  BY DEF Parts
<1>2. \A i \in 1 .. Len(t) : t[i].key # ApiKey
  <2>1. CASE Assigns(w, BaseUrl) = {}
    <3>1. PICK e \in Line : e.key = BaseUrl /\ t = <<e>>
      BY <1>1, <2>1 DEF Behind
    <3>2. Len(t) = 1 /\ t[1] = e
      BY <3>1
    <3>3. QED
      BY <3>1, <3>2 DEF ApiKey, BaseUrl
  <2>2. CASE Assigns(w, BaseUrl) # {}
    BY <1>1, <2>2 DEF Behind
  <2>3. QED
    BY <2>1, <2>2
<1>3. RestoreEnv(x, ApiKey, o) = y
  BY <1>1, <1>2, RestorePart
<1>4. /\ b \in Seq(Line) /\ Len(b) = Len(w)
      /\ \A i \in 1 .. Len(w) : b[i] = IF w[i].key = ApiKey THEN w[i] ELSE s[i]
  BY <1>1, BackInType
<1>5. EndedBut(y, keys \ {ApiKey}) /\ y \in Seq(Line)
  <2>1. x \in Seq(Line) /\ Originals(o, ApiKey)
    BY <1>1, OriginalsOf
  <2> HIDE DEF x, o, y
  <2>2. Restores(x, keys, ApiKey, o, RestoreEnv(x, ApiKey, o))
    <3>1. EndedBut(x, keys)
      BY DEF x
    <3>2. QED
      BY <2>1, <3>1, RestoreEnvRestores
  <2>3. QED
    BY <1>3, <2>2 DEF Restores
<1> HIDE DEF b
<1>6. (b \o t) \o <<>> = y /\ <<>> \in Seq(Line) /\ Len(<<>>) = 0
  BY <1>1, <1>4
<1>7. RestoreEnv((b \o t) \o <<>>, BaseUrl, OriginalLines(w, BaseUrl)) = BackIn(b, w, BaseUrl) \o <<>>
  <2>1. EndedBut((b \o t) \o <<>>, keys \ {ApiKey})
    BY <1>5, <1>6
  <2>2. \A i \in 1 .. Len(w) : b[i].key = w[i].key
    BY <1>1, <1>4
  <2> DEFINE none == <<>>
  <2>3. none \in Seq(Line) /\ \A i \in 1 .. Len(none) : none[i].key # BaseUrl
    BY <1>6
  <2> HIDE DEF none
  <2>4. EndedBut((b \o t) \o none, keys \ {ApiKey})
    BY <2>1 DEF none
  <2>5. t \in Seq(Line) /\ b \in Seq(Line) /\ Len(b) = Len(w) /\ Behind(t, w, BaseUrl)
    BY <1>1, <1>4
  <2>6. RestoreEnv((b \o t) \o none, BaseUrl, OriginalLines(w, BaseUrl)) = BackIn(b, w, BaseUrl) \o none
    BY <2>2, <2>3, <2>4, <2>5, RestorePart
  <2>7. QED
    BY <2>6 DEF none
<1>8. BackIn(b, w, BaseUrl) = w
  <2> DEFINE r == BackIn(b, w, BaseUrl)
  <2>1. /\ r \in Seq(Line) /\ Len(r) = Len(w)
        /\ \A i \in 1 .. Len(w) : r[i] = IF w[i].key = BaseUrl THEN w[i] ELSE b[i]
    BY <1>4, BackInType
  <2>2. \A i \in 1 .. Len(w) : r[i] = w[i]
    BY <1>1, <1>4, <2>1
  <2> HIDE DEF r
  <2>3. r = w
    BY <2>1, <2>2
  <2>4. QED
    BY <2>3 DEF r
<1>9. w \o <<>> = w
  OBVIOUS
<1>10. RestoreEnv(y, BaseUrl, OriginalLines(w, BaseUrl)) = w
  BY <1>6, <1>7, <1>8, <1>9
<1>11. QED
  BY <1>3, <1>10 DEF Returned

LEMMA ClosedSame ==
    ASSUME NEW lines \in Seq(Line), EndedBut(lines, {})
    PROVE  Closed(lines) = lines
<1> DEFINE r == Closed(lines)
<1>1. /\ r \in Seq(Line) /\ Len(r) = Len(lines)
      /\ \A i \in 1 .. Len(lines) : r[i] = IF i = Len(lines) THEN Ended(lines[i]) ELSE lines[i]
  BY ClosedLines
<1>2. \A i \in 1 .. Len(lines) : lines[i] \in Line /\ lines[i].ended
  BY DEF EndedBut
<1>3. \A i \in 1 .. Len(lines) : Ended(lines[i]) = lines[i]
  BY <1>2, EndedLine
<1> HIDE DEF r
<1>4. r = lines
  BY <1>1, <1>3
<1>5. QED
  BY <1>4 DEF r

LEMMA ClosedOne ==
    ASSUME NEW s \in Seq(Line), NEW e \in Line
    PROVE  Closed(s \o <<e>>) = s \o <<Ended(e)>>
<1> DEFINE x == s \o <<e>>
           y == s \o <<Ended(e)>>
           r == Closed(x)
           n == Len(s)
<1>1. Ended(e) \in Line
  BY EndedLine
<1>2. /\ x \in Seq(Line) /\ Len(x) = n + 1 /\ x[n + 1] = e /\ n \in Nat
      /\ y \in Seq(Line) /\ Len(y) = n + 1 /\ y[n + 1] = Ended(e)
      /\ \A i \in 1 .. n : x[i] = s[i] /\ y[i] = s[i]
  BY <1>1
<1> HIDE DEF x, y
<1>3. /\ r \in Seq(Line) /\ Len(r) = n + 1
      /\ \A i \in 1 .. n + 1 : r[i] = IF i = n + 1 THEN Ended(x[i]) ELSE x[i]
  BY <1>2, ClosedLines
<1> HIDE DEF r, n
<1>4. \A i \in 1 .. n + 1 : r[i] = y[i]
  <2>1. TAKE i \in 1 .. n + 1
  <2>2. CASE i = n + 1
    BY <1>2, <1>3, <2>2
  <2>3. CASE i # n + 1
    <3>1. i \in 1 .. n
      BY <1>2, <2>3
    <3>2. QED
      BY <1>2, <1>3, <2>3, <3>1
  <2>4. QED
    BY <2>2, <2>3
<1>5. r = y
  BY <1>2, <1>3, <1>4
<1>6. QED
  BY <1>5 DEF r, x, y

\* The key is assigned nowhere: its line comes last.
LEMMA SetAppends ==
    ASSUME NEW lines \in Seq(Line), NEW key \in ManagedKeys, Assigns(lines, key) = {}
    PROVE  SetEnv(lines, key, "relay") = Closed(lines) \o <<RelayLine(key)>>
<1> DEFINE new == <<RelayLine(key)>>
<1>1. SetEnv(lines, key, "relay") = AppendLines(lines, new)
  BY DEF SetEnv, RelayLine
<1>2. AppendLines(lines, new) = Closed(lines) \o Listed(new)
  BY DEF AppendLines, Closed, Listed
<1>3. Listed(new) = new
  <2>1. DOMAIN new = 1 .. 1 /\ Len(new) = 1 /\ \A i \in 1 .. 1 : ~(i < 1)
    OBVIOUS
  <2>2. Listed(new) = [i \in 1 .. 1 |-> new[i]]
    BY <2>1 DEF Listed
  <2>3. new = [i \in 1 .. 1 |-> new[i]]
    OBVIOUS
  <2>4. QED
    BY <2>2, <2>3
<1>4. QED
  BY <1>1, <1>2, <1>3

\* It is assigned: the value goes into its lines.
Setting(lines, key) == [i \in 1 .. Len(lines) |-> SetLine(lines[i], key)]

LEMMA SettingType ==
    ASSUME NEW lines \in Seq(Line), NEW key
    PROVE  /\ Setting(lines, key) \in Seq(Line) /\ Len(Setting(lines, key)) = Len(lines)
           /\ \A i \in 1 .. Len(lines) :
                 /\ Setting(lines, key)[i] = SetLine(lines[i], key)
                 /\ Setting(lines, key)[i].key = lines[i].key
                 /\ Setting(lines, key)[i].ended = lines[i].ended
                 /\ lines[i].key # key => Setting(lines, key)[i] = lines[i]
<1>1. \A i \in 1 .. Len(lines) : lines[i] \in Line
  OBVIOUS
<1>2. QED
  BY <1>1, SetLineType DEF Setting

LEMMA SetAll ==
    ASSUME NEW lines \in Seq(Line), NEW key, Assigns(lines, key) # {}
    PROVE  SetEnv(lines, key, "relay") = Setting(lines, key)
<1>1. DOMAIN lines = 1 .. Len(lines)
  OBVIOUS
<1>2. QED
  BY <1>1, Zenon DEF SetEnv, Setting, SetLine

LEMMA SettingConcat ==
    ASSUME NEW s \in Seq(Line), NEW c \in Seq(Line), NEW key, \A i \in 1 .. Len(c) : c[i].key # key
    PROVE  Setting(s \o c, key) = Setting(s, key) \o c
<1> DEFINE x == s \o c
           a == Setting(s, key)
           y == a \o c
           r == Setting(x, key)
<1>1. Follows(x, s, c)
  BY LinesFollow
<1>2. /\ a \in Seq(Line) /\ Len(a) = Len(s)
      /\ \A i \in 1 .. Len(s) : a[i] = SetLine(s[i], key)
  BY SettingType
<1> HIDE DEF a
<1>3. Follows(y, a, c)
  BY <1>2, LinesFollow
<1> HIDE DEF x, y
<1>4. /\ r \in Seq(Line) /\ Len(r) = Len(x)
      /\ \A i \in 1 .. Len(x) : r[i] = SetLine(x[i], key)
  BY <1>1, SettingType DEF Follows
<1> HIDE DEF r
<1>5. Len(x) = Len(s) + Len(c) /\ Len(y) = Len(s) + Len(c) /\ y \in Seq(Line)
  BY <1>1, <1>2, <1>3 DEF Follows
<1>6. ASSUME NEW i \in 1 .. Len(s) + Len(c) PROVE r[i] = y[i]
  <2>1. r[i] = SetLine(x[i], key)
    BY <1>4, <1>5
  <2>2. CASE i \in 1 .. Len(s)
    <3>1. x[i] = s[i] /\ y[i] = a[i]
      BY <1>1, <1>2, <1>3, <2>2 DEF Follows
    <3>2. QED
      BY <1>2, <2>1, <2>2, <3>1
  <2>3. CASE i \notin 1 .. Len(s)
    <3>1. i - Len(s) \in 1 .. Len(c) /\ x[i] = c[i - Len(s)] /\ y[i] = c[i - Len(s)]
      BY <1>1, <1>2, <1>3, <2>3 DEF Follows
    <3>2. c[i - Len(s)] \in Line /\ c[i - Len(s)].key # key
      BY <3>1
    <3>3. QED
      BY <2>1, <3>1, <3>2, SetLineType
  <2>4. QED
    BY <2>2, <2>3
<1>7. r = y
  BY <1>4, <1>5, <1>6
<1>8. QED
  BY <1>7 DEF r, x, y, a

\* The value is in the file already: setEnvField changes nothing.
LEMMA SetSame ==
    ASSUME NEW lines \in Seq(Line), NEW key, MeansOf(lines, key) = {"relay"}
    PROVE  SetEnv(lines, key, "relay") = lines
<1> DEFINE r == Setting(lines, key)
<1>1. {lines[i].means : i \in Assigns(lines, key)} = {"relay"}
  BY MeansOfAssigned
<1>2. Assigns(lines, key) # {} /\ \A i \in Assigns(lines, key) : lines[i].means = "relay"
  BY <1>1
<1>3. SetEnv(lines, key, "relay") = r
  BY <1>2, SetAll
<1>4. /\ r \in Seq(Line) /\ Len(r) = Len(lines)
      /\ \A i \in 1 .. Len(lines) : r[i] = SetLine(lines[i], key)
  BY SettingType
<1>5. \A i \in 1 .. Len(lines) : SetLine(lines[i], key) = lines[i]
  <2>1. TAKE i \in 1 .. Len(lines)
  <2>2. CASE lines[i].key = key
    <3>1. lines[i].means = "relay"
      BY <1>2, <2>2 DEF Assigns
    <3>2. QED
      BY <3>1 DEF SetLine
  <2>3. CASE lines[i].key # key
    BY <2>3 DEF SetLine
  <2>4. QED
    BY <2>2, <2>3
<1> HIDE DEF r
<1>6. r = lines
  BY <1>4, <1>5
<1>7. QED
  BY <1>3, <1>6

\* The first field: the user's lines, and one behind them if he has none.
LEMMA FirstSet ==
    ASSUME NEW w \in Seq(Line), EndedBut(w, {})
    PROVE  \E s \in Seq(Line), c \in Seq(Line) :
              /\ SetEnv(w, ApiKey, "relay") = s \o c
              /\ Len(s) = Len(w) /\ EndedBut(s, {})
              /\ \A i \in 1 .. Len(w) : s[i].key = w[i].key /\ (w[i].key # ApiKey => s[i] = w[i])
              /\ Behind(c, w, ApiKey)
<1>1. ApiKey \in ManagedKeys
  BY DEF ApiKey, ManagedKeys
<1>2. CASE Assigns(w, ApiKey) = {}
  <2> DEFINE c == <<RelayLine(ApiKey)>>
  <2>1. RelayLine(ApiKey) \in Line /\ RelayLine(ApiKey).key = ApiKey
    BY <1>1, RelayLineType
  <2>2. SetEnv(w, ApiKey, "relay") = w \o c
    BY <1>1, <1>2, SetAppends, ClosedSame
  <2>3. c \in Seq(Line) /\ Behind(c, w, ApiKey)
    BY <1>2, <2>1 DEF Behind
  <2> HIDE DEF c
  <2>4. QED
    BY <2>2, <2>3
<1>3. CASE Assigns(w, ApiKey) # {}
  <2> DEFINE s == Setting(w, ApiKey)
  <2>1. SetEnv(w, ApiKey, "relay") = s
    BY <1>3, SetAll
  <2>2. /\ s \in Seq(Line) /\ Len(s) = Len(w)
        /\ \A i \in 1 .. Len(w) :
              s[i].key = w[i].key /\ s[i].ended = w[i].ended /\ (w[i].key # ApiKey => s[i] = w[i])
    BY SettingType
  <2> HIDE DEF s
  <2>3. EndedBut(s, {})
    BY <2>2 DEF EndedBut
  <2>4. <<>> \in Seq(Line) /\ s \o <<>> = s
    BY <2>2
  <2>5. Behind(<<>>, w, ApiKey)
    BY <1>3 DEF Behind
  <2>6. SetEnv(w, ApiKey, "relay") = s \o <<>>
    BY <2>1, <2>4
  <2>7. QED
    BY <2>2, <2>3, <2>4, <2>5, <2>6
<1>4. QED
  BY <1>2, <1>3

LEMMA TakenParts ==
    ASSUME NEW w \in Seq(Line), EndedBut(w, {})
    PROVE  \E s, c, t : Parts(w, s, c, t) /\ Taken(w) = (s \o c) \o t
<1>1. BaseUrl \in ManagedKeys /\ ApiKey # BaseUrl
  BY DEF ApiKey, BaseUrl, ManagedKeys
<1>2. PICK s \in Seq(Line), c \in Seq(Line) :
              /\ SetEnv(w, ApiKey, "relay") = s \o c
              /\ Len(s) = Len(w) /\ EndedBut(s, {})
              /\ \A i \in 1 .. Len(w) : s[i].key = w[i].key /\ (w[i].key # ApiKey => s[i] = w[i])
              /\ Behind(c, w, ApiKey)
  BY FirstSet
<1> DEFINE x == s \o c
<1>3. Taken(w) = SetEnv(x, BaseUrl, "relay") /\ x \in Seq(Line)
  <2>1. SetEnv(w, ApiKey, "relay") = x /\ x \in Seq(Line)
    BY <1>2
  <2>2. QED
    BY <2>1 DEF Taken
<1>4. \A i \in 1 .. Len(c) : c[i].key = ApiKey
  <2>1. CASE Assigns(w, ApiKey) = {}
    <3>1. PICK e \in Line : e.key = ApiKey /\ c = <<e>>
      BY <1>2, <2>1 DEF Behind
    <3>2. Len(c) = 1 /\ c[1] = e
      BY <3>1
    <3>3. QED
      BY <3>1, <3>2
  <2>2. CASE Assigns(w, ApiKey) # {}
    BY <1>2, <2>2 DEF Behind
  <2>3. QED
    BY <2>1, <2>2
<1>5. Follows(x, s, c)
  BY LinesFollow
<1>6. /\ DOMAIN x = 1 .. Len(s) + Len(c) /\ DOMAIN w = 1 .. Len(s) /\ Len(s) \in Nat /\ Len(c) \in Nat
  BY <1>2
<1> HIDE DEF x
<1>7. Assigns(x, BaseUrl) = Assigns(w, BaseUrl)
  <2>1. ASSUME NEW i \in 1 .. Len(s) + Len(c) PROVE x[i].key = BaseUrl <=> i \in 1 .. Len(s) /\ w[i].key = BaseUrl
    <3>1. CASE i \in 1 .. Len(s)
      BY <1>2, <1>5, <3>1 DEF Follows
    <3>2. CASE i \notin 1 .. Len(s)
      BY <1>1, <1>4, <1>5, <3>2 DEF Follows
    <3>3. QED
      BY <3>1, <3>2
  <2>2. 1 .. Len(s) \subseteq 1 .. Len(s) + Len(c)
    BY <1>6
  <2>3. QED
    BY <1>6, <2>1, <2>2 DEF Assigns
<1>8. CASE Assigns(w, BaseUrl) = {}
  <2> DEFINE t == <<RelayLine(BaseUrl)>>
             k == Closed(c)
  <2>1. RelayLine(BaseUrl) \in Line /\ RelayLine(BaseUrl).key = BaseUrl
    BY <1>1, RelayLineType
  <2>2. t \in Seq(Line) /\ Behind(t, w, BaseUrl)
    BY <1>8, <2>1 DEF Behind
  <2>3. SetEnv(x, BaseUrl, "relay") = Closed(x) \o t
    BY <1>1, <1>3, <1>7, <1>8, SetAppends
  <2>4. Closed(x) = s \o k /\ k \in Seq(Line) /\ Behind(k, w, ApiKey)
    <3>1. CASE Assigns(w, ApiKey) = {}
      <4>1. PICK e \in Line : e.key = ApiKey /\ c = <<e>>
        BY <1>2, <3>1 DEF Behind
      <4>2. Ended(e) \in Line /\ Ended(e).key = ApiKey
        BY <4>1, EndedLine
      <4>3. Closed(x) = s \o <<Ended(e)>>
        BY <4>1, ClosedOne DEF x
      <4>4. k = <<Ended(e)>>
        <5>1. Closed(<<>> \o <<e>>) = <<>> \o <<Ended(e)>>
          <6>1. PICK none : none = <<>>
            OBVIOUS
          <6>2. none \in Seq(Line)
            BY <6>1
          <6>3. Closed(none \o <<e>>) = none \o <<Ended(e)>>
            BY <4>1, <6>2, ClosedOne
          <6>4. QED
            BY <6>1, <6>3
        <5>2. <<>> \o <<e>> = <<e>> /\ <<>> \o <<Ended(e)>> = <<Ended(e)>>
          BY <4>2
        <5>3. QED
          BY <4>1, <5>1, <5>2
      <4>5. QED
        BY <3>1, <4>2, <4>3, <4>4 DEF Behind
    <3>2. CASE Assigns(w, ApiKey) # {}
      <4>1. c = <<>> /\ x = s
        BY <1>2, <3>2 DEF Behind, x
      <4>2. k = <<>> /\ Closed(x) = s /\ s \o <<>> = s
        BY <1>2, <4>1, ClosedSame DEF Closed
      <4>3. QED
        BY <3>2, <4>2 DEF Behind
    <3>3. QED
      BY <3>1, <3>2
  <2> HIDE DEF t, k
  <2>5. \A i \in 1 .. Len(w) : s[i].key = w[i].key /\ (w[i].key \notin {ApiKey, BaseUrl} => s[i] = w[i])
    BY <1>2
  <2>6. Parts(w, s, k, t) /\ Taken(w) = (s \o k) \o t
    BY <1>2, <1>3, <2>2, <2>3, <2>4, <2>5 DEF Parts
  <2>7. QED
    BY <2>6
<1>9. CASE Assigns(w, BaseUrl) # {}
  <2> DEFINE r == Setting(s, BaseUrl)
  <2>1. SetEnv(x, BaseUrl, "relay") = Setting(x, BaseUrl)
    BY <1>3, <1>7, <1>9, SetAll
  <2>2. Setting(x, BaseUrl) = r \o c
    <3>1. \A i \in 1 .. Len(c) : c[i].key # BaseUrl
      BY <1>1, <1>4
    <3>2. QED
      BY <3>1, SettingConcat DEF x
  <2>3. /\ r \in Seq(Line) /\ Len(r) = Len(s)
        /\ \A i \in 1 .. Len(s) : r[i].key = s[i].key /\ (s[i].key # BaseUrl => r[i] = s[i])
    BY SettingType
  <2> HIDE DEF r
  <2>4. \A i \in 1 .. Len(w) : r[i].key = w[i].key /\ (w[i].key \notin {ApiKey, BaseUrl} => r[i] = w[i])
    BY <1>2, <2>3
  <2>5. Behind(<<>>, w, BaseUrl) /\ <<>> \in Seq(Line)
    BY <1>9 DEF Behind
  <2>6. (r \o c) \o <<>> = r \o c
    BY <2>3
  <2>7. Parts(w, r, c, <<>>)
    BY <1>2, <2>3, <2>4, <2>5 DEF Parts
  <2>8. Taken(w) = (r \o c) \o <<>>
    BY <1>3, <2>1, <2>2, <2>6
  <2>9. QED
    BY <2>7, <2>8
<1>10. QED
  BY <1>8, <1>9

\* Both fields are set, and nothing else changes.
LEMMA TakenSets ==
    ASSUME NEW lines \in Seq(Line), EndedBut(lines, ManagedKeys)
    PROVE  /\ Taken(lines) \in Seq(Line) /\ EndedBut(Taken(lines), ManagedKeys)
           /\ MeansOf(Taken(lines), ApiKey) = {"relay"} /\ MeansOf(Taken(lines), BaseUrl) = {"relay"}
           /\ View(Taken(lines), Keys \ ManagedKeys) = View(lines, Keys \ ManagedKeys)
<1> DEFINE x == SetEnv(lines, ApiKey, "relay")
           y == SetEnv(x, BaseUrl, "relay")
           rest == Keys \ ManagedKeys
<1>1. /\ ApiKey \in ManagedKeys /\ BaseUrl \in ManagedKeys /\ ApiKey \notin {BaseUrl} /\ BaseUrl \notin {ApiKey}
      /\ ApiKey \notin rest /\ BaseUrl \notin rest
      /\ ManagedKeys \union {ApiKey} = ManagedKeys /\ ManagedKeys \union {BaseUrl} = ManagedKeys
  BY DEF ApiKey, BaseUrl, ManagedKeys
<1>2. /\ x \in Seq(Line) /\ EndedBut(x, ManagedKeys \union {ApiKey})
      /\ \A others : ApiKey \notin others => View(x, others) = View(lines, others)
      /\ MeansOf(x, ApiKey) = {"relay"}
  BY <1>1, SetEnvSets
<1> HIDE DEF x
<1>3. EndedBut(x, ManagedKeys)
  BY <1>1, <1>2
<1>4. /\ y \in Seq(Line) /\ EndedBut(y, ManagedKeys \union {BaseUrl})
      /\ \A others : BaseUrl \notin others => View(y, others) = View(x, others)
      /\ MeansOf(y, BaseUrl) = {"relay"}
  BY <1>1, <1>2, <1>3, SetEnvSets
<1> HIDE DEF y
<1>5. View(y, {ApiKey}) = View(x, {ApiKey})
  BY <1>1, <1>4
<1>6. MeansOf(y, ApiKey) = {"relay"}
  <2>1. MeansOf(y, ApiKey) = MeansOf(x, ApiKey)
    BY <1>2, <1>4, <1>5, SameMeans
  <2>2. QED
    BY <1>2, <2>1
<1>7. View(y, rest) = View(lines, rest)
  <2> HIDE DEF rest
  <2>1. View(y, rest) = View(x, rest)
    BY <1>1, <1>4
  <2>2. View(x, rest) = View(lines, rest)
    BY <1>1, <1>2
  <2>3. QED
    BY <2>1, <2>2
<1>8. EndedBut(y, ManagedKeys)
  BY <1>1, <1>4
<1>9. QED
  BY <1>4, <1>6, <1>7, <1>8 DEF Taken, x, y

\* Nothing else has happened: the file that Enable made is the user's again.
THEOREM CycleLeavesNoTrace ==
    ASSUME NEW w \in Seq(Line), EndedBut(w, {})
    PROVE  Returned(Taken(w), OriginalLines(w, ApiKey), OriginalLines(w, BaseUrl)) = w
<1>1. PICK s, c, t : Parts(w, s, c, t) /\ Taken(w) = (s \o c) \o t
  BY TakenParts
<1>2. EndedBut(w, ManagedKeys)
  BY DEF EndedBut
<1>3. EndedBut((s \o c) \o t, ManagedKeys)
  BY <1>1, <1>2, TakenSets
<1>4. QED
  BY <1>1, <1>3, PartsReturned

\* Both fields have their originals again, and nothing else changes.
LEMMA ReturnedRestores ==
    ASSUME NEW lines \in Seq(Line), EndedBut(lines, ManagedKeys), NEW first, Originals(first, ApiKey),
           NEW second, Originals(second, BaseUrl)
    PROVE  /\ Returned(lines, first, second) \in Seq(Line) /\ EndedBut(Returned(lines, first, second), {})
           /\ MeansOf(Returned(lines, first, second), ApiKey) = {line.means : line \in ToSet(first)}
           /\ MeansOf(Returned(lines, first, second), BaseUrl) = {line.means : line \in ToSet(second)}
           /\ View(Returned(lines, first, second), Keys \ ManagedKeys) = View(lines, Keys \ ManagedKeys)
<1> DEFINE x == RestoreEnv(lines, ApiKey, first)
           y == RestoreEnv(x, BaseUrl, second)
           rest == Keys \ ManagedKeys
<1>1. /\ BaseUrl \notin {ApiKey} /\ ApiKey \notin rest /\ BaseUrl \notin rest
      /\ (ManagedKeys \ {ApiKey}) \ {BaseUrl} = {}
  BY DEF ApiKey, BaseUrl, ManagedKeys
<1>2. Restores(lines, ManagedKeys, ApiKey, first, x)
  BY RestoreEnvRestores
<1> HIDE DEF x
<1>3. /\ x \in Seq(Line) /\ EndedBut(x, ManagedKeys \ {ApiKey})
      /\ \A others : ApiKey \notin others => View(x, others) = View(lines, others)
      /\ MeansOf(x, ApiKey) = {line.means : line \in ToSet(first)}
  BY <1>2 DEF Restores
<1>4. Restores(x, ManagedKeys \ {ApiKey}, BaseUrl, second, y)
  BY <1>3, RestoreEnvRestores
<1> HIDE DEF y
<1>5. /\ y \in Seq(Line) /\ EndedBut(y, (ManagedKeys \ {ApiKey}) \ {BaseUrl})
      /\ \A others : BaseUrl \notin others => View(y, others) = View(x, others)
      /\ MeansOf(y, BaseUrl) = {line.means : line \in ToSet(second)}
  BY <1>4 DEF Restores
<1>6. MeansOf(y, ApiKey) = {line.means : line \in ToSet(first)}
  <2>1. View(y, {ApiKey}) = View(x, {ApiKey})
    BY <1>1, <1>5
  <2>2. MeansOf(y, ApiKey) = MeansOf(x, ApiKey)
    BY <1>3, <1>5, <2>1, SameMeans
  <2>3. QED
    BY <1>3, <2>2
<1>7. View(y, rest) = View(lines, rest)
  <2> HIDE DEF rest
  <2>1. View(y, rest) = View(x, rest)
    BY <1>1, <1>5
  <2>2. View(x, rest) = View(lines, rest)
    BY <1>1, <1>3
  <2>3. QED
    BY <2>1, <2>2
<1>8. EndedBut(y, {})
  BY <1>1, <1>5
<1>9. QED
  BY <1>5, <1>6, <1>7, <1>8 DEF Returned, x, y

-----------------------------------------------------------------------------
(* Enable and Disable go through the two fields.                            *)

LEMMA GeminiTwo == tool = "gemini" => /\ Fields = <<ApiKey, BaseUrl>> /\ Len(Fields) = 2
                                      /\ Fields[1] = ApiKey /\ Fields[2] = BaseUrl
                                      /\ Containers = <<>>
<1>1. tool = "gemini" => Fields = <<ApiKey, BaseUrl>> /\ Containers = <<>>
  BY DEF Fields, GeminiFields, Containers, ApiKey, BaseUrl
<1>2. Len(<<ApiKey, BaseUrl>>) = 2 /\ <<ApiKey, BaseUrl>>[1] = ApiKey /\ <<ApiKey, BaseUrl>>[2] = BaseUrl
  OBVIOUS
<1>3. QED
  BY <1>1, <1>2


\* One step of each: the field is edited unless an earlier one was refused.
TakeStep(n, before) ==
    IF before.ok THEN EditField(before.doc, Fields[n], Desired(Fields[n])) ELSE before
BackStep(n, before) ==
    IF before.ok THEN RestoreField(before.doc, Fields[n], saved.fields[n]) ELSE before

IsTaking(f, file) == f = [n \in 0 .. 2 |-> IF n = 0 THEN Done(file) ELSE TakeStep(n, f[n - 1])]
IsRestoring(f, file) == f = [n \in 0 .. 2 |-> IF n = 0 THEN Done(file) ELSE BackStep(n, f[n - 1])]

LEMMA TakenOverSteps ==
    ASSUME tool = "gemini", NEW file
    PROVE  TakenOver(file) = TakeStep(2, TakeStep(1, Done(file)))
<1> DEFINE a == TakeStep(1, Done(file))
           b == TakeStep(2, a)
           g == [n \in 0 .. 2 |-> IF n = 0 THEN Done(file) ELSE IF n = 1 THEN a ELSE b]
           f == CHOOSE h : IsTaking(h, file)
<1> HIDE DEF a, b
<1>1. g[0] = Done(file) /\ g[1] = a /\ g[2] = b
  OBVIOUS
<1>2. \A n \in 0 .. 2 : g[n] = IF n = 0 THEN Done(file) ELSE TakeStep(n, g[n - 1])
  <2> HIDE DEF g
  <2>1. TAKE n \in 0 .. 2
  <2>2. n = 0 \/ n = 1 \/ n = 2
    OBVIOUS
  <2>3. QED
    BY <1>1, <2>2 DEF a, b
<1>3. g = [n \in 0 .. 2 |-> g[n]]
  OBVIOUS
<1> HIDE DEF g
<1>4. g = [n \in 0 .. 2 |-> IF n = 0 THEN Done(file) ELSE TakeStep(n, g[n - 1])]
  BY <1>2, <1>3, Zenon
<1>5. IsTaking(f, file)
  BY <1>4 DEF IsTaking
<1>6. Len(Fields) = 2
  BY GeminiTwo
<1>7. TakenOver(file) = f[2]
  BY <1>6 DEF TakenOver, IsTaking, TakeStep
<1> HIDE DEF f
<1>8. \A n \in 0 .. 2 : f[n] = IF n = 0 THEN Done(file) ELSE TakeStep(n, f[n - 1])
  BY <1>5 DEF IsTaking
<1>9. f[0] = Done(file) /\ f[1] = TakeStep(1, f[0]) /\ f[2] = TakeStep(2, f[1])
  BY <1>8
<1>10. QED
  BY <1>7, <1>9

LEMMA RestoredSteps ==
    ASSUME tool = "gemini", NEW file
    PROVE  Restored(file) = BackStep(2, BackStep(1, Done(file)))
<1> DEFINE a == BackStep(1, Done(file))
           b == BackStep(2, a)
           g == [n \in 0 .. 2 |-> IF n = 0 THEN Done(file) ELSE IF n = 1 THEN a ELSE b]
           f == CHOOSE h : IsRestoring(h, file)
<1> HIDE DEF a, b
<1>1. g[0] = Done(file) /\ g[1] = a /\ g[2] = b
  OBVIOUS
<1>2. \A n \in 0 .. 2 : g[n] = IF n = 0 THEN Done(file) ELSE BackStep(n, g[n - 1])
  <2> HIDE DEF g
  <2>1. TAKE n \in 0 .. 2
  <2>2. n = 0 \/ n = 1 \/ n = 2
    OBVIOUS
  <2>3. QED
    BY <1>1, <2>2 DEF a, b
<1>3. g = [n \in 0 .. 2 |-> g[n]]
  OBVIOUS
<1> HIDE DEF g
<1>4. g = [n \in 0 .. 2 |-> IF n = 0 THEN Done(file) ELSE BackStep(n, g[n - 1])]
  BY <1>2, <1>3, Zenon
<1>5. IsRestoring(f, file)
  BY <1>4 DEF IsRestoring
<1>6. Len(Fields) = 2
  BY GeminiTwo
<1>7. Restored(file) = f[2]
  BY <1>6 DEF Restored, IsRestoring, BackStep
<1> HIDE DEF f
<1>8. \A n \in 0 .. 2 : f[n] = IF n = 0 THEN Done(file) ELSE BackStep(n, f[n - 1])
  BY <1>5 DEF IsRestoring
<1>9. f[0] = Done(file) /\ f[1] = BackStep(1, f[0]) /\ f[2] = BackStep(2, f[1])
  BY <1>8
<1>10. QED
  BY <1>7, <1>9

\* A .env has no containers: nothing is pruned.
PruneStep(n, before) ==
    IF before.ok /\ Containers[n] \notin saved.containers
    THEN PruneContainer(before.doc, Containers[n]) ELSE before
IsPruning(f, file) == f = [n \in 0 .. 0 |-> IF n = 0 THEN Restored(file) ELSE PruneStep(n, f[n - 1])]

LEMMA PutBackIsRestored ==
    ASSUME tool = "gemini", NEW file
    PROVE  PutBack(file) = Restored(file)
<1> DEFINE g == [n \in 0 .. 0 |-> Restored(file)]
           f == CHOOSE h : IsPruning(h, file)
<1>1. g = [n \in 0 .. 0 |-> IF n = 0 THEN Restored(file) ELSE PruneStep(n, g[n - 1])]
  <2>1. \A n \in 0 .. 0 : n = 0
    OBVIOUS
  <2>2. QED
    BY <2>1, Zenon
<1>2. IsPruning(f, file)
  BY <1>1 DEF IsPruning
<1>3. Len(Containers) = 0
  BY GeminiTwo
<1>4. PutBack(file) = f[0]
  BY <1>3 DEF PutBack, IsPruning, PruneStep
<1> HIDE DEF f
<1>5. \A n \in 0 .. 0 : f[n] = IF n = 0 THEN Restored(file) ELSE PruneStep(n, f[n - 1])
  BY <1>2 DEF IsPruning
<1>6. QED
  BY <1>4, <1>5

\* What comes out, unless a line that cannot be parsed stopped it.
LEMMA TakenOverTakes ==
    ASSUME tool = "gemini", NEW file, TakenOver(file).ok
    PROVE  TakenOver(file).doc = Taken(file)
<1> DEFINE a == TakeStep(1, Done(file))
           b == TakeStep(2, a)
<1>1. Done(file).ok /\ Done(file).doc = file
  BY DEF Done
<1>2. TakenOver(file) = b
  BY TakenOverSteps
<1>3. a = IF Sound(file, ApiKey) THEN Done(SetEnv(file, ApiKey, "relay")) ELSE Refused(file)
  BY <1>1, GeminiTwo DEF TakeStep, EditField
<1> HIDE DEF a
<1>4. b = IF a.ok THEN IF Sound(a.doc, BaseUrl) THEN Done(SetEnv(a.doc, BaseUrl, "relay")) ELSE Refused(a.doc) ELSE a
  BY GeminiTwo DEF TakeStep, EditField
<1> HIDE DEF b
<1>5. \A d : Done(d).ok /\ Done(d).doc = d /\ ~Refused(d).ok
  BY DEF Done, Refused
<1>6. b.ok
  BY <1>2
<1>7. a.ok /\ b = Done(SetEnv(a.doc, BaseUrl, "relay"))
  BY <1>4, <1>5, <1>6
<1>8. a = Done(SetEnv(file, ApiKey, "relay"))
  BY <1>3, <1>5, <1>7
<1>9. QED
  BY <1>2, <1>5, <1>7, <1>8 DEF Taken

LEMMA PutBackReturns ==
    ASSUME tool = "gemini", NEW file, PutBack(file).ok
    PROVE  PutBack(file).doc = Returned(file, saved.fields[1], saved.fields[2])
<1> DEFINE a == BackStep(1, Done(file))
           b == BackStep(2, a)
<1>1. Done(file).ok /\ Done(file).doc = file
  BY DEF Done
<1>2. PutBack(file) = b
  BY RestoredSteps, PutBackIsRestored
<1>3. a = IF Sound(file, ApiKey) THEN Done(RestoreEnv(file, ApiKey, saved.fields[1])) ELSE Refused(file)
  BY <1>1, GeminiTwo DEF BackStep, RestoreField
<1> HIDE DEF a
<1>4. b = IF a.ok THEN IF Sound(a.doc, BaseUrl) THEN Done(RestoreEnv(a.doc, BaseUrl, saved.fields[2]))
                       ELSE Refused(a.doc)
          ELSE a
  BY GeminiTwo DEF BackStep, RestoreField
<1> HIDE DEF b
<1>5. \A d : Done(d).ok /\ Done(d).doc = d /\ ~Refused(d).ok
  BY DEF Done, Refused
<1>6. b.ok
  BY <1>2
<1>7. a.ok /\ b = Done(RestoreEnv(a.doc, BaseUrl, saved.fields[2]))
  BY <1>4, <1>5, <1>6
<1>8. a = Done(RestoreEnv(file, ApiKey, saved.fields[1]))
  BY <1>3, <1>5, <1>7
<1>9. QED
  BY <1>2, <1>5, <1>7, <1>8 DEF Returned

-----------------------------------------------------------------------------
(* The inductive invariant for a .env.                                      *)

LEMMA EnvLinesType == \A line \in EnvLines : line \in Line /\ line.ended
<1>1. TAKE line \in EnvLines
<1>2. /\ line.quoted \in BOOLEAN /\ line.sound \in BOOLEAN
      /\ line = [EnvLine(line.key, line.means, line.quoted, line.trim, TRUE) EXCEPT !.sound = line.sound]
  BY EditingConstants
<1>3. line.key \in Keys /\ line.means \in Meanings /\ line.trim \in Trims
  BY DEF Keys, Meanings, Trims
<1> DEFINE k == line.key
           m == line.means
           q == line.quoted
           t == line.trim
           s == line.sound
<1> HIDE DEF k, m, q, t, s
<1>4. line = [key |-> k, means |-> m, quoted |-> q, trim |-> t, sound |-> s, ended |-> TRUE]
  BY <1>2 DEF EnvLine, k, m, q, t, s
<1>5. k \in Keys /\ m \in Meanings /\ q \in BOOLEAN /\ t \in Trims /\ s \in BOOLEAN
  BY <1>2, <1>3 DEF k, m, q, t, s
<1>6. QED
  BY <1>4, <1>5 DEF Line

EnvTypes ==
    /\ tool = "gemini"
    /\ doc \in Seq(Line)
    /\ exists \in BOOLEAN /\ (~exists => doc = <<>>)
    /\ phase \in {"none", "active", "inactive"}
    /\ last \in {"start", "enable", "disable", "edit", "mcp"}
    /\ touched \in BOOLEAN /\ edits \in 0 .. MaxEdits

\* Only while the relay is in the file may a managed line lack its newline.
EnvNewlines ==
    /\ EndedBut(doc, ManagedKeys)
    /\ phase # "active" => EndedBut(doc, {})

\* The snapshot is that of the file when the cycle began.
EnvCycle ==
    /\ phase # "active" => saved = NothingSaved
    /\ phase = "active" =>
          /\ was.doc \in Seq(Line) /\ EndedBut(was.doc, {})
          /\ was.exists \in BOOLEAN /\ (~was.exists => was.doc = <<>>)
          /\ saved.existed = was.exists
          /\ saved.fields[1] = OriginalLines(was.doc, ApiKey)
          /\ saved.fields[2] = OriginalLines(was.doc, BaseUrl)
          /\ exists
          /\ ~touched => doc = Taken(was.doc)

\* What Enable and Disable have just done.
EnvDone ==
    /\ last = "enable" =>
          phase = "active" /\ MeansOf(doc, ApiKey) = {"relay"} /\ MeansOf(doc, BaseUrl) = {"relay"}
    /\ last = "disable" =>
          /\ MeansOf(doc, ApiKey) = MeansOf(was.doc, ApiKey)
          /\ MeansOf(doc, BaseUrl) = MeansOf(was.doc, BaseUrl)
          /\ ~touched => doc = was.doc /\ exists = was.exists

EnvInv == EnvTypes /\ EnvNewlines /\ EnvCycle /\ EnvDone

LEMMA NoFileIsEmpty ==
    ASSUME NEW lines \in Seq(Line), lines # <<>>
    PROVE  Len(lines) \in 1 .. Len(lines)
  OBVIOUS

LEMMA UserFilesEnded ==
    ASSUME tool = "gemini", LastLineEnded \subseteq {TRUE}, NEW file \in UserFiles
    PROVE  file \in Seq(Line) /\ EndedBut(file, {})
<1>1. UserLines = EnvLines
  BY DEF UserLines
<1>2. CASE file = <<>>
  BY <1>2 DEF EndedBut
<1>3. CASE file # <<>>
  <2>1. PICK f \in BoundedSeq(EnvLines, MaxLines) \ {<<>>}, e \in LastLineEnded :
            file = [f EXCEPT ![Len(f)].ended = e]
    BY <1>1, <1>3 DEF UserFiles
  <2>2. PICK m \in 0 .. MaxLines : f \in [1 .. m -> EnvLines]
    BY <2>1 DEF BoundedSeq, SeqOf
  <2>3. f \in Seq(EnvLines) /\ Len(f) = m /\ m \in Nat
    BY <2>2, EditingConstants
  <2>4. f \in Seq(Line) /\ \A i \in 1 .. m : f[i] \in Line /\ f[i].ended
    BY <2>2, <2>3, EnvLinesType
  <2>5. m \in 1 .. m
    BY <2>1, <2>3
  <2>6. [f[m] EXCEPT !.ended = TRUE] \in Line
    BY <2>4, <2>5 DEF Line
  <2>7. [f[m] EXCEPT !.ended = TRUE].ended
    BY <2>4, <2>5 DEF Line
  <2>8. file = [f EXCEPT ![m] = [f[m] EXCEPT !.ended = TRUE]]
    BY <2>1, <2>3
  <2>9. file \in Seq(Line) /\ Len(file) = m
    BY <2>3, <2>4, <2>6, <2>8
  <2>10. \A i \in 1 .. m : file[i].ended
    BY <2>2, <2>4, <2>7, <2>8
  <2>11. QED
    BY <2>9, <2>10 DEF EndedBut
<1>4. QED
  BY <1>2, <1>3

LEMMA EnvInit ==
    ASSUME Init, tool = "gemini", LastLineEnded \subseteq {TRUE}
    PROVE  EnvInv
<1>1. doc \in Seq(Line) /\ EndedBut(doc, {})
  BY UserFilesEnded DEF Init
<1>2. EndedBut(doc, ManagedKeys)
  BY <1>1 DEF EndedBut
<1>3. EnvTypes
  <2>1. 0 \in 0 .. MaxEdits
    BY EditingConstants
  <2>2. QED
    BY <1>1, <2>1 DEF Init, EnvTypes
<1>4. EnvNewlines
  BY <1>1, <1>2 DEF EnvNewlines
<1>5. EnvCycle
  BY DEF Init, EnvCycle
<1>6. EnvDone
  BY DEF Init, EnvDone
<1>7. QED
  BY <1>3, <1>4, <1>5, <1>6 DEF EnvInv

LEMMA KeysDiffer ==
    /\ ApiKey \in ManagedKeys /\ BaseUrl \in ManagedKeys /\ ManagedKeys = {ApiKey, BaseUrl} /\ ApiKey # BaseUrl
  BY DEF ApiKey, BaseUrl, ManagedKeys

LEMMA CapturedOriginals ==
    ASSUME tool = "gemini"
    PROVE  /\ Captured.existed = exists
           /\ Captured.fields[1] = OriginalLines(doc, ApiKey)
           /\ Captured.fields[2] = OriginalLines(doc, BaseUrl)
<1>1. \A field : Original(doc, field) = OriginalLines(doc, field)
  BY DEF Original
<1>2. DOMAIN Fields = 1 .. 2
  BY GeminiTwo
<1>3. Captured.fields = [i \in 1 .. 2 |-> OriginalLines(doc, Fields[i])]
  BY <1>1, <1>2 DEF Captured
<1>4. Captured.existed = exists
  BY DEF Captured
<1>5. QED
  BY <1>3, <1>4, GeminiTwo

LEMMA EnvEnable ==
    ASSUME EnvInv, Enable
    PROVE  EnvInv'
<1> DEFINE r == TakenOver(doc)
<1>1. /\ r.ok /\ doc' = r.doc /\ exists' = (exists \/ r.doc # doc)
      /\ phase = "active" => UNCHANGED <<saved, was, touched>>
      /\ phase # "active" => saved' = Captured /\ was' = [doc |-> doc, exists |-> exists] /\ touched' = FALSE
      /\ phase' = "active" /\ last' = "enable" /\ tool' = tool /\ edits' = edits
  BY DEF Enable
<1>2. EnvTypes /\ EnvNewlines /\ EnvCycle /\ tool = "gemini"
  BY DEF EnvInv, EnvTypes
<1>3. doc' = Taken(doc)
  BY <1>1, <1>2, TakenOverTakes
<1>4. r.doc = doc'
  BY <1>1
<1> HIDE DEF r
<1>5. doc \in Seq(Line) /\ EndedBut(doc, ManagedKeys)
  BY <1>2 DEF EnvTypes, EnvNewlines
<1>6. /\ doc' \in Seq(Line) /\ EndedBut(doc', ManagedKeys)
      /\ MeansOf(doc', ApiKey) = {"relay"} /\ MeansOf(doc', BaseUrl) = {"relay"}
  BY <1>3, <1>5, TakenSets
<1>7. doc' # <<>>
  <2>1. ASSUME doc' = <<>> PROVE MeansOf(doc', ApiKey) = {}
    <3>1. Assigns(doc', ApiKey) = {}
      BY <2>1 DEF Assigns
    <3>2. MeansOf(doc', ApiKey) = {doc'[i].means : i \in Assigns(doc', ApiKey)}
      BY <1>6, MeansOfAssigned
    <3>3. QED
      BY <3>1, <3>2
  <2>2. QED
    BY <1>6, <2>1
<1>8. exists'
  BY <1>1, <1>2, <1>4, <1>7 DEF EnvTypes
<1>9. EnvTypes'
  BY <1>1, <1>2, <1>6, <1>8 DEF EnvTypes
<1>10. EnvNewlines'
  BY <1>1, <1>6 DEF EnvNewlines
<1>11. EnvCycle'
  <2>1. CASE phase = "active"
    <3>1. UNCHANGED <<saved, was, touched>>
      BY <1>1, <2>1
    <3>2. ASSUME ~touched PROVE Taken(doc) = doc
      <4>1. doc = Taken(was.doc) /\ was.doc \in Seq(Line) /\ EndedBut(was.doc, {})
        BY <1>2, <2>1, <3>2 DEF EnvCycle
      <4>2. EndedBut(was.doc, ManagedKeys)
        BY <4>1 DEF EndedBut
      <4>3. MeansOf(doc, ApiKey) = {"relay"} /\ MeansOf(doc, BaseUrl) = {"relay"}
        BY <4>1, <4>2, TakenSets
      <4>4. SetEnv(doc, ApiKey, "relay") = doc /\ SetEnv(doc, BaseUrl, "relay") = doc
        BY <1>5, <4>3, SetSame
      <4>5. QED
        BY <4>4 DEF Taken
    <3>3. QED
      BY <1>1, <1>2, <1>3, <1>8, <2>1, <3>1, <3>2 DEF EnvCycle
  <2>2. CASE phase # "active"
    <3>1. saved' = Captured /\ was'.doc = doc /\ was'.exists = exists /\ ~touched'
      BY <1>1, <2>2
    <3>2. EndedBut(doc, {}) /\ (~exists => doc = <<>>) /\ exists \in BOOLEAN
      BY <1>2, <2>2 DEF EnvNewlines, EnvTypes
    <3>3. QED
      BY <1>1, <1>2, <1>3, <1>5, <1>8, <3>1, <3>2, CapturedOriginals DEF EnvCycle
  <2>3. QED
    BY <2>1, <2>2
<1>12. EnvDone'
  BY <1>1, <1>6 DEF EnvDone, MeansOf, OriginalLines, Kept, Keeping, Assigns
<1>13. QED
  BY <1>9, <1>10, <1>11, <1>12 DEF EnvInv

LEMMA EnvDisable ==
    ASSUME EnvInv, Disable
    PROVE  EnvInv'
<1> DEFINE r == PutBack(doc)
<1>1. /\ r.ok /\ doc' = r.doc /\ phase = "active"
      /\ exists' = IF ~saved.existed /\ r.doc = <<>> THEN FALSE ELSE exists \/ r.doc # doc
      /\ phase' = "inactive" /\ saved' = NothingSaved /\ last' = "disable"
      /\ UNCHANGED <<tool, was, touched, edits>>
  BY DEF Disable
<1>2. EnvTypes /\ EnvNewlines /\ EnvCycle /\ tool = "gemini"
  BY DEF EnvInv, EnvTypes
<1>3. /\ was.doc \in Seq(Line) /\ EndedBut(was.doc, {})
      /\ was.exists \in BOOLEAN /\ (~was.exists => was.doc = <<>>)
      /\ saved.existed = was.exists
      /\ saved.fields[1] = OriginalLines(was.doc, ApiKey)
      /\ saved.fields[2] = OriginalLines(was.doc, BaseUrl)
      /\ exists
      /\ ~touched => doc = Taken(was.doc)
  BY <1>1, <1>2 DEF EnvCycle
<1> DEFINE first == OriginalLines(was.doc, ApiKey)
           second == OriginalLines(was.doc, BaseUrl)
<1>4. doc' = Returned(doc, first, second) /\ r.doc = doc'
  BY <1>1, <1>2, <1>3, PutBackReturns
<1> HIDE DEF r
<1>5. doc \in Seq(Line) /\ EndedBut(doc, ManagedKeys)
  BY <1>2 DEF EnvTypes, EnvNewlines
<1>6. Originals(first, ApiKey) /\ Originals(second, BaseUrl)
  BY <1>3, OriginalsOf
<1>7. /\ doc' \in Seq(Line) /\ EndedBut(doc', {})
      /\ MeansOf(doc', ApiKey) = {line.means : line \in ToSet(first)}
      /\ MeansOf(doc', BaseUrl) = {line.means : line \in ToSet(second)}
  <2> HIDE DEF first, second
  <2>1. QED
    BY <1>4, <1>5, <1>6, ReturnedRestores
<1>8. MeansOf(doc', ApiKey) = MeansOf(was.doc, ApiKey) /\ MeansOf(doc', BaseUrl) = MeansOf(was.doc, BaseUrl)
  BY <1>7 DEF MeansOf
<1>9. EndedBut(doc', ManagedKeys)
  BY <1>7 DEF EndedBut
<1>10. exists' = IF ~was.exists /\ doc' = <<>> THEN FALSE ELSE TRUE
  BY <1>1, <1>3, <1>4
<1>11. ASSUME ~touched PROVE doc' = was.doc /\ exists' = was.exists
  <2>1. doc' = was.doc
    BY <1>3, <1>4, <1>11, CycleLeavesNoTrace
  <2>2. QED
    BY <1>3, <1>10, <2>1
<1>12. EnvTypes'
  BY <1>1, <1>2, <1>7, <1>10 DEF EnvTypes
<1>13. EnvNewlines'
  BY <1>7, <1>9 DEF EnvNewlines
<1>14. EnvCycle'
  BY <1>1 DEF EnvCycle
<1>15. EnvDone'
  BY <1>1, <1>8, <1>11 DEF EnvDone
<1>16. QED
  BY <1>12, <1>13, <1>14, <1>15 DEF EnvInv

LEMMA EnvDisableWithoutCycle ==
    ASSUME EnvInv, DisableWithoutCycle
    PROVE  EnvInv'
<1>1. /\ phase = "none" /\ phase' = "inactive" /\ last' = "disable"
      /\ was' = [doc |-> doc, exists |-> exists]
      /\ UNCHANGED <<tool, doc, exists, saved, touched, edits>>
  BY DEF DisableWithoutCycle
<1>2. EnvTypes /\ EnvNewlines /\ EnvCycle
  BY DEF EnvInv
<1>3. EnvTypes'
  BY <1>1, <1>2 DEF EnvTypes
<1>4. EnvNewlines'
  BY <1>1, <1>2 DEF EnvNewlines
<1>5. EnvCycle'
  BY <1>1, <1>2 DEF EnvCycle
<1>6. EnvDone'
  <2>1. was'.doc = doc' /\ was'.exists = exists'
    BY <1>1
  <2>2. QED
    BY <1>1, <2>1 DEF EnvDone
<1>7. QED
  BY <1>3, <1>4, <1>5, <1>6 DEF EnvInv

\* Every line that an edit leaves was there, or has its newline.
LEMMA EditedLines ==
    ASSUME NEW lines \in Seq(Line), NEW line \in Line, line.ended
    PROVE  /\ \A i \in 1 .. Len(lines) + 1 :
                 /\ InsertAt(lines, i, line) \in Seq(Line)
                 /\ \A j \in 1 .. Len(InsertAt(lines, i, line)) :
                       InsertAt(lines, i, line)[j] \in ToSet(lines) \union {line}
           /\ \A i \in 1 .. Len(lines) :
                 /\ RemoveAt(lines, i) \in Seq(Line)
                 /\ \A j \in 1 .. Len(RemoveAt(lines, i)) : RemoveAt(lines, i)[j] \in ToSet(lines)
<1>1. \A j \in 1 .. Len(lines) : lines[j] \in ToSet(lines) /\ lines[j] \in Line
  BY DEF ToSet
<1> DEFINE S == ToSet(lines) \union {line}
<1>2. S \subseteq Line /\ lines \in Seq(S) /\ lines \in Seq(ToSet(lines))
  BY <1>1 DEF ToSet
<1>3. \A T : ToSet(lines) \subseteq T => \A m \in 1 .. Len(lines) + 1, n \in 0 .. Len(lines) : SubSeq(lines, m, n) \in Seq(T)
  <2>1. TAKE T
  <2>2. HAVE ToSet(lines) \subseteq T
  <2>3. TAKE m \in 1 .. Len(lines) + 1, n \in 0 .. Len(lines)
  <2>4. \A k \in m .. n : lines[k] \in T
    BY <1>1, <2>2
  <2>5. QED
    BY <2>4, SubSeqProperties
<1> HIDE DEF S
<1>4. ToSet(lines) \subseteq S /\ line \in S
  BY DEF S
<1>5. ASSUME NEW i \in 1 .. Len(lines) + 1 PROVE InsertAt(lines, i, line) \in Seq(S)
  <2>1. i - 1 \in 0 .. Len(lines) /\ 1 \in 1 .. Len(lines) + 1 /\ Len(lines) \in 0 .. Len(lines)
    OBVIOUS
  <2>2. SubSeq(lines, 1, i - 1) \in Seq(S) /\ SubSeq(lines, i, Len(lines)) \in Seq(S)
    BY <1>3, <1>4, <2>1
  <2>3. <<line>> \in Seq(S)
    BY <1>4
  <2>4. QED
    BY <2>2, <2>3 DEF InsertAt
<1>6. ASSUME NEW i \in 1 .. Len(lines) PROVE RemoveAt(lines, i) \in Seq(ToSet(lines))
  <2>1. i - 1 \in 0 .. Len(lines) /\ 1 \in 1 .. Len(lines) + 1 /\ i + 1 \in 1 .. Len(lines) + 1 /\ Len(lines) \in 0 .. Len(lines)
    OBVIOUS
  <2>2. SubSeq(lines, 1, i - 1) \in Seq(ToSet(lines)) /\ SubSeq(lines, i + 1, Len(lines)) \in Seq(ToSet(lines))
    BY <1>3, <2>1
  <2>3. QED
    BY <2>2 DEF RemoveAt
<1>7. ToSet(lines) \subseteq Line
  BY <1>2, <1>4
<1>8. \A i \in 1 .. Len(lines) + 1 :
          /\ InsertAt(lines, i, line) \in Seq(Line)
          /\ \A j \in 1 .. Len(InsertAt(lines, i, line)) : InsertAt(lines, i, line)[j] \in S
  <2>1. TAKE i \in 1 .. Len(lines) + 1
  <2> DEFINE x == InsertAt(lines, i, line)
  <2>2. x \in Seq(S)
    BY <1>5
  <2> HIDE DEF x
  <2>3. x \in Seq(Line) /\ \A j \in 1 .. Len(x) : x[j] \in S
    BY <1>2, <2>2
  <2>4. QED
    BY <2>3 DEF x
<1>9. \A i \in 1 .. Len(lines) :
          /\ RemoveAt(lines, i) \in Seq(Line)
          /\ \A j \in 1 .. Len(RemoveAt(lines, i)) : RemoveAt(lines, i)[j] \in ToSet(lines)
  <2>1. TAKE i \in 1 .. Len(lines)
  <2> DEFINE x == RemoveAt(lines, i)
  <2>2. x \in Seq(ToSet(lines))
    BY <1>6
  <2> HIDE DEF x
  <2>3. x \in Seq(Line) /\ \A j \in 1 .. Len(x) : x[j] \in ToSet(lines)
    BY <1>7, <2>2
  <2>4. QED
    BY <2>3 DEF x
<1>10. QED
  BY <1>8, <1>9 DEF S

\* A user's edit leaves lines that were there, and lines with their newline.
LEMMA UserEditLines ==
    ASSUME tool = "gemini", doc \in Seq(Line), UserEdit
    PROVE  doc' \in Seq(Line) /\ \A j \in 1 .. Len(doc') : doc'[j] \in ToSet(doc) \union EnvLines
<1>1. \/ \E i \in 1 .. Len(doc) + 1, line \in EnvLines : doc' = InsertAt(doc, i, line)
      \/ \E i \in 1 .. Len(doc) : doc' = RemoveAt(doc, i)
  <2>1. InlineTables(doc) = {} /\ UserLines = EnvLines
    BY DEF InlineTables, UserLines
  <2>2. DOMAIN doc = 1 .. Len(doc)
    OBVIOUS
  <2>3. QED
    BY <2>1, <2>2 DEF UserEdit
<1>2. doc' \in Seq(Line) /\ \A j \in 1 .. Len(doc') : doc'[j] \in ToSet(doc) \union EnvLines
  <2>1. CASE \E i \in 1 .. Len(doc) + 1, line \in EnvLines : doc' = InsertAt(doc, i, line)
    <3>1. PICK i \in 1 .. Len(doc) + 1, line \in EnvLines : doc' = InsertAt(doc, i, line)
      BY <2>1
    <3>2. line \in Line /\ line.ended
      BY EnvLinesType
    <3>3. doc' \in Seq(Line) /\ \A j \in 1 .. Len(doc') : doc'[j] \in ToSet(doc) \union {line}
      BY <3>1, <3>2, EditedLines
    <3>4. QED
      BY <3>3
  <2>2. CASE \E i \in 1 .. Len(doc) : doc' = RemoveAt(doc, i)
    <3>1. PICK i \in 1 .. Len(doc) : doc' = RemoveAt(doc, i)
      BY <2>2
    <3>2. Ended(RelayLine(ApiKey)) \in Line /\ Ended(RelayLine(ApiKey)).ended
      BY RelayLineType, EndedLine, KeysDiffer
    <3>3. doc' \in Seq(Line) /\ \A j \in 1 .. Len(doc') : doc'[j] \in ToSet(doc)
      BY <3>1, <3>2, EditedLines
    <3>4. QED
      BY <3>3
  <2>3. QED
    BY <1>1, <2>1, <2>2
<1>3. QED
  BY <1>2

LEMMA EnvUserEdit ==
    ASSUME EnvInv, UserEdit
    PROVE  EnvInv'
<1>1. EnvTypes /\ EnvNewlines /\ EnvCycle /\ tool = "gemini"
  BY DEF EnvInv, EnvTypes
<1>2. /\ phase = "active" /\ edits < MaxEdits /\ WellFormed(doc')
      /\ exists' = TRUE /\ last' = "edit" /\ touched' = TRUE /\ edits' = edits + 1
      /\ UNCHANGED <<tool, phase, saved, was>>
  BY DEF UserEdit, MayEdit
<1>3. doc \in Seq(Line) /\ EndedBut(doc, ManagedKeys)
  BY <1>1 DEF EnvTypes, EnvNewlines
<1>4. doc' \in Seq(Line) /\ \A j \in 1 .. Len(doc') : doc'[j] \in ToSet(doc) \union EnvLines
  BY <1>1, <1>3, UserEditLines
<1>5. EndedBut(doc', ManagedKeys)
  <2>1. /\ doc' \in Seq(Line) /\ \A j \in 1 .. Len(doc') : doc'[j] \in ToSet(doc) \union EnvLines
        /\ \A line \in EnvLines : line.ended
    BY <1>4, EnvLinesType
  <2>2. \A line \in ToSet(doc) : line.ended \/ line.key \in ManagedKeys
    <3>1. DOMAIN doc = 1 .. Len(doc)
      BY <1>3
    <3>2. QED
      BY <1>3, <3>1 DEF ToSet, EndedBut
  <2>3. \A j \in 1 .. Len(doc') : doc'[j].ended \/ j = Len(doc')
    <3>1. DOMAIN doc' = 1 .. Len(doc')
      BY <2>1
    <3>2. QED
      BY <1>1, <1>2, <3>1 DEF WellFormed
  <2>4. QED
    BY <2>1, <2>2, <2>3 DEF EndedBut
<1>6. EnvTypes'
  <2>1. edits' \in 0 .. MaxEdits
    BY <1>1, <1>2, EditingConstants DEF EnvTypes
  <2>2. QED
    BY <1>1, <1>2, <1>4, <2>1 DEF EnvTypes
<1>7. EnvNewlines'
  BY <1>2, <1>5 DEF EnvNewlines
<1>8. EnvCycle'
  BY <1>1, <1>2 DEF EnvCycle
<1>9. EnvDone'
  BY <1>2 DEF EnvDone
<1>10. QED
  BY <1>6, <1>7, <1>8, <1>9 DEF EnvInv

LEMMA EnvUnchanged ==
    ASSUME EnvInv, UNCHANGED vars
    PROVE  EnvInv'
<1>1. EnvTypes /\ EnvNewlines /\ EnvCycle /\ EnvDone
  BY DEF EnvInv
<1>2. /\ tool' = tool /\ doc' = doc /\ exists' = exists /\ phase' = phase /\ saved' = saved
      /\ was' = was /\ last' = last /\ touched' = touched /\ edits' = edits
  BY DEF vars
<1>3. EnvTypes'
  BY <1>1, <1>2 DEF EnvTypes
<1>4. EnvNewlines'
  BY <1>1, <1>2 DEF EnvNewlines
<1>5. EnvCycle'
  BY <1>1, <1>2 DEF EnvCycle
<1>6. EnvDone'
  BY <1>1, <1>2 DEF EnvDone
<1>7. QED
  BY <1>3, <1>4, <1>5, <1>6 DEF EnvInv

LEMMA EnvStep ==
    ASSUME EnvInv, [Next]_vars
    PROVE  EnvInv'
<1>1. ~InjectMcp
  BY DEF EnvInv, EnvTypes, InjectMcp
<1>2. QED
  BY <1>1, EnvEnable, EnvDisable, EnvDisableWithoutCycle, EnvUserEdit, EnvUnchanged DEF Next

LEMMA EnvInvHolds ==
    ASSUME LastLineEnded \subseteq {TRUE}
    PROVE  Spec /\ tool = "gemini" => []EnvInv
<1>1. Init /\ tool = "gemini" => EnvInv
  BY EnvInit
<1>2. EnvInv /\ [Next]_vars => EnvInv'
  BY EnvStep
<1>3. QED
  BY <1>1, <1>2, PTL DEF Spec

-----------------------------------------------------------------------------
(* Newlines or not: a .env that is written is one that can be read.         *)

\* Only the last line of a file may lack its newline.
Whole(lines) == lines \in Seq(Line) /\ EndedBut(lines, Keys)

LEMMA WholeUnless ==
    ASSUME NEW lines \in Seq(Line), \A i \in 1 .. Len(lines) : lines[i].ended \/ i = Len(lines)
    PROVE  Whole(lines)
<1>1. \A i \in 1 .. Len(lines) : lines[i] \in Line
  OBVIOUS
<1>2. \A line \in Line : line.key \in Keys
  BY DEF Line
<1>3. QED
  BY <1>1, <1>2 DEF Whole, EndedBut

LEMMA RunTogetherType ==
    ASSUME NEW line \in Line, NEW next \in Line
    PROVE  RunTogether(line, next) \in Line
<1>1. Garbled \in Meanings
  BY DEF Meanings
<1>2. QED
  BY <1>1 DEF RunTogether, Line

\* A line more: it is run into the last one, or comes after it.
LEMMA JoinNextWhole ==
    ASSUME NEW lines \in Seq(Line), NEW n \in 1 .. Len(lines), NEW before, Whole(before)
    PROVE  Whole(JoinNext(lines, n, before))
<1> DEFINE m == Len(before)
<1>1. lines[n] \in Line /\ before \in Seq(Line) /\ m \in Nat /\ EndedBut(before, Keys)
  BY DEF Whole
<1>2. \A i \in 1 .. m : before[i].ended \/ i = m
  BY <1>1 DEF EndedBut
<1>3. CASE before # <<>> /\ ~Last(before).ended
  <2> DEFINE front == SubSeq(before, 1, m - 1)
             glued == RunTogether(before[m], lines[n])
  <2>1. m \in 1 .. m
    BY <1>1, <1>3
  <2>2. m - 1 \in 0 .. m /\ m - 1 <= m
    BY <2>1
  <2>3. front \in Seq(Line) /\ Len(front) = m - 1 /\ \A i \in 1 .. m - 1 : front[i] = before[i]
    BY <1>1, <2>2, SubSeqStart
  <2>4. before[m] \in Line
    BY <1>1, <2>1
  <2>5. glued \in Line
    BY <1>1, <2>4, RunTogetherType
  <2>6. JoinNext(lines, n, before) = Append(front, glued)
    BY <1>3 DEF JoinNext, Front, Last
  <2> HIDE DEF front, glued
  <2>7. /\ Append(front, glued) \in Seq(Line) /\ Len(Append(front, glued)) = m
        /\ \A i \in 1 .. m - 1 : Append(front, glued)[i] = front[i]
    BY <2>1, <2>3, <2>5
  <2>8. \A i \in 1 .. m : i # m => i \in 1 .. m - 1
    BY <2>1
  <2>9. \A i \in 1 .. m : Append(front, glued)[i].ended \/ i = m
    BY <1>2, <2>3, <2>7, <2>8
  <2>10. QED
    BY <2>6, <2>7, <2>9, WholeUnless
<1>4. CASE ~(before # <<>> /\ ~Last(before).ended)
  <2> DEFINE longer == Append(before, lines[n])
  <2>1. JoinNext(lines, n, before) = longer
    BY <1>4 DEF JoinNext
  <2>2. longer \in Seq(Line) /\ Len(longer) = m + 1 /\ \A i \in 1 .. m : longer[i] = before[i]
    BY <1>1
  <2>3. ASSUME NEW i \in 1 .. m PROVE before[i].ended
    <3>1. CASE i = m
      <4>1. before # <<>> /\ Last(before) = before[i]
        BY <1>1, <3>1 DEF Last
      <4>2. QED
        BY <1>4, <4>1
    <3>2. QED
      BY <1>2, <3>1
  <2>4. \A i \in 1 .. m + 1 : i \in 1 .. m \/ i = m + 1
    BY <1>1
  <2> HIDE DEF longer
  <2>5. \A i \in 1 .. m + 1 : longer[i].ended \/ i = m + 1
    BY <2>2, <2>3, <2>4
  <2>6. QED
    BY <2>1, <2>2, <2>5, WholeUnless
<1>5. QED
  BY <1>3, <1>4

IsJoiningTo(f, lines, n) ==
    f = [i \in 0 .. n |-> IF i = 0 THEN <<>> ELSE JoinNext(lines, i, f[i - 1])]

LEMMA JoiningGrows ==
    ASSUME NEW lines, NEW n \in Nat, NEW f, IsJoiningTo(f, lines, n)
    PROVE  \E g : IsJoiningTo(g, lines, n + 1)
<1> DEFINE g == [i \in 0 .. n + 1 |-> IF i = n + 1 THEN JoinNext(lines, n + 1, f[n]) ELSE f[i]]
           step == [i \in 0 .. n + 1 |-> IF i = 0 THEN <<>> ELSE JoinNext(lines, i, g[i - 1])]
<1>1. \A i \in 0 .. n : f[i] = IF i = 0 THEN <<>> ELSE JoinNext(lines, i, f[i - 1])
  BY DEF IsJoiningTo
<1>2. \A i \in 0 .. n : g[i] = f[i]
  OBVIOUS
<1>3. g[n + 1] = JoinNext(lines, n + 1, f[n])
  OBVIOUS
<1> HIDE DEF g
<1>4. ASSUME NEW i \in 0 .. n + 1
      PROVE  g[i] = IF i = 0 THEN <<>> ELSE JoinNext(lines, i, g[i - 1])
  <2>1. CASE i = 0
    BY <1>1, <1>2, <2>1
  <2>2. CASE i = n + 1
    <3>1. i # 0 /\ i - 1 = n /\ n \in 0 .. n
      BY <2>2
    <3>2. QED
      BY <1>2, <1>3, <2>2, <3>1
  <2>3. CASE i # 0 /\ i # n + 1
    <3>1. i \in 0 .. n /\ i - 1 \in 0 .. n
      BY <2>3
    <3>2. QED
      BY <1>1, <1>2, <2>3, <3>1
  <2>4. QED
    BY <2>1, <2>2, <2>3
<1>5. g = [i \in 0 .. n + 1 |-> g[i]]
  BY DEF g
<1>6. g = step
  BY <1>4, <1>5, Zenon
<1>7. QED
  BY <1>6 DEF IsJoiningTo

LEMMA JoiningExists ==
    ASSUME NEW lines, NEW n \in Nat
    PROVE  \E g : IsJoiningTo(g, lines, n)
<1> DEFINE S == {k \in Nat : \E g : IsJoiningTo(g, lines, k)}
<1>1. 0 \in S
  <2> DEFINE g == [i \in 0 .. 0 |-> <<>>]
  <2>1. g = [i \in 0 .. 0 |-> IF i = 0 THEN <<>> ELSE JoinNext(lines, i, g[i - 1])]
    OBVIOUS
  <2>2. QED
    BY <2>1 DEF IsJoiningTo
<1>2. ASSUME NEW i \in 1 .. n, i - 1 \in S PROVE i \in S
  <2>1. PICK f : IsJoiningTo(f, lines, i - 1)
    BY <1>2
  <2>2. i - 1 \in Nat /\ (i - 1) + 1 = i /\ i \in Nat
    OBVIOUS
  <2>3. \E g : IsJoiningTo(g, lines, i)
    BY <2>1, <2>2, JoiningGrows
  <2>4. QED
    BY <2>2, <2>3
<1> HIDE DEF S
<1>3. n \in S
  BY <1>1, <1>2, CountUp
<1>4. QED
  BY <1>3 DEF S

\* Whatever lines are put together.
LEMMA JoinedWhole ==
    ASSUME NEW lines \in Seq(Line)
    PROVE  Whole(Joined(lines))
<1> DEFINE f == CHOOSE h : IsJoiningTo(h, lines, Len(lines))
           S == {n \in 0 .. Len(lines) : Whole(f[n])}
<1>1. Len(lines) \in Nat /\ 0 \in 0 .. Len(lines) /\ Len(lines) \in 0 .. Len(lines)
  OBVIOUS
<1>2. IsJoiningTo(f, lines, Len(lines))
  BY <1>1, JoiningExists
<1>3. Joining(lines) = f
  BY DEF Joining, IsJoiningTo, JoinNext
<1> HIDE DEF f
<1>4. \A n \in 0 .. Len(lines) : f[n] = IF n = 0 THEN <<>> ELSE JoinNext(lines, n, f[n - 1])
  BY <1>2 DEF IsJoiningTo
<1>5. 0 \in S
  <2>1. Whole(<<>>)
    BY DEF Whole, EndedBut
  <2>2. QED
    BY <1>1, <1>4, <2>1
<1>6. ASSUME NEW n \in 1 .. Len(lines), n - 1 \in S PROVE n \in S
  <2>1. n \in 0 .. Len(lines) /\ n # 0 /\ Whole(f[n - 1])
    BY <1>6
  <2>2. Whole(JoinNext(lines, n, f[n - 1]))
    BY <2>1, JoinNextWhole
  <2>3. f[n] = JoinNext(lines, n, f[n - 1])
    BY <1>4, <2>1
  <2>4. QED
    BY <2>1, <2>2, <2>3
<1> HIDE DEF S
<1>7. Len(lines) \in S
  BY <1>1, <1>5, <1>6, CountUp
<1>8. QED
  BY <1>3, <1>7 DEF Joined, S

\* All but the last of the new lines are ended, whatever they were.
LEMMA AppendLinesWhole ==
    ASSUME NEW lines, Whole(lines), NEW new \in Seq(Line), new # <<>>
    PROVE  Whole(AppendLines(lines, new))
<1> DEFINE b == Listed(new)
<1>1. lines \in Seq(Line) /\ EndedBut(lines, Keys)
  BY DEF Whole
<1>2. /\ b \in Seq(Line) /\ Len(b) = Len(new)
      /\ \A i \in 1 .. Len(new) : b[i] = IF i < Len(new) THEN Ended(new[i]) ELSE new[i]
  BY ListedLines
<1> HIDE DEF b
<1>3. \A i \in 1 .. Len(new) : new[i] \in Line /\ (i < Len(new) \/ i = Len(new))
  OBVIOUS
<1>4. \A i \in 1 .. Len(new) : i < Len(new) => b[i].ended
  BY <1>2, <1>3, EndedLine
<1>5. EndedBut(b, Keys)
  BY <1>2, <1>3, <1>4, WholeUnless DEF Whole
<1>6. Listed(b) = b
  <2>1. \A i \in 1 .. Len(new) : i < Len(new) => Ended(b[i]) = b[i]
    <3>1. \A i \in 1 .. Len(new) : b[i] \in Line
      BY <1>2
    <3>2. QED
      BY <1>4, <3>1, EndedLine
  <2>2. Listed(b) \in Seq(Line) /\ Len(Listed(b)) = Len(b)
        /\ \A i \in 1 .. Len(b) : Listed(b)[i] = IF i < Len(b) THEN Ended(b[i]) ELSE b[i]
    BY <1>2, ListedLines
  <2> DEFINE c == Listed(b)
  <2> HIDE DEF c
  <2>3. c \in Seq(Line) /\ Len(c) = Len(b) /\ \A i \in 1 .. Len(b) : c[i] = b[i]
    BY <1>2, <2>1, <2>2 DEF c
  <2>4. c = b
    BY <1>2, <2>3
  <2>5. QED
    BY <2>4 DEF c
<1>7. AppendLines(lines, new) = AppendLines(lines, b)
  <2>1. \A s : AppendLines(lines, s) = Closed(lines) \o Listed(s)
    BY DEF AppendLines, Closed, Listed
  <2>2. QED
    BY <1>6, <2>1 DEF b
<1>8. b # <<>>
  BY <1>2
<1>9. AppendLines(lines, b) \in Seq(Line) /\ EndedBut(AppendLines(lines, b), Keys)
  BY <1>1, <1>2, <1>5, <1>8, AppendedLines
<1>10. QED
  BY <1>7, <1>9 DEF Whole

LEMMA SetEnvWhole ==
    ASSUME NEW lines, Whole(lines), NEW key \in ManagedKeys
    PROVE  Whole(SetEnv(lines, key, "relay"))
<1>1. lines \in Seq(Line) /\ EndedBut(lines, Keys)
  BY DEF Whole
<1>2. SetEnv(lines, key, "relay") \in Seq(Line) /\ EndedBut(SetEnv(lines, key, "relay"), Keys \union {key})
  BY <1>1, SetEnvSets
<1>3. Keys \union {key} = Keys
  BY DEF Keys, ManagedKeys
<1>4. QED
  BY <1>2, <1>3 DEF Whole

\* Whichever way the originals go back, and whatever they are.
LEMMA RestoreEnvWhole ==
    ASSUME NEW lines, Whole(lines), NEW key, NEW originals \in Seq(Line)
    PROVE  Whole(RestoreEnv(lines, key, originals))
<1> DEFINE A == Assigns(lines, key)
           n == Len(lines)
<1>1. lines \in Seq(Line) /\ n \in Nat /\ n \in 0 .. n /\ DOMAIN lines = 1 .. n
  BY DEF Whole
<1>2. CASE A = {}
  BY <1>2, AppendLinesWhole DEF RestoreEnv
<1>3. CASE A # {} /\ Len(OriginalLines(lines, key)) = Len(originals)
  <2> DEFINE place == [i \in 1 .. n |-> Len(Keeping(lines, A)[i])]
             result == [i \in 1 .. n |-> IF lines[i].key # key THEN lines[i] ELSE originals[place[i]]]
  <2>1. Len(Keeping(lines, A)[n]) = Len(originals)
    BY <1>3 DEF OriginalLines, Kept
  <2>2. \A i \in 1 .. n : i \in A => place[i] \in 1 .. Len(originals)
    <3>1. TAKE i \in 1 .. n
    <3>2. HAVE i \in A
    <3>3. i <= n
      BY <1>1
    <3>4. Len(Keeping(lines, A)[i]) \in 1 .. Len(Keeping(lines, A)[n])
      BY <1>1, <3>2, <3>3, KeepingPlace
    <3>5. QED
      BY <2>1, <3>4
  <2>3. ReplaceLines(lines, key, originals) = result
    BY <1>1 DEF ReplaceLines
  <2>4. \A i \in 1 .. n : i \in A <=> lines[i].key = key
    BY <1>1 DEF Assigns
  <2> HIDE DEF place
  <2>5. \A i \in 1 .. n : result[i] \in Line
    BY <1>1, <2>2, <2>4
  <2>6. result \in Seq(Line)
    BY <1>1, <2>5
  <2>7. RestoreEnv(lines, key, originals) = Joined(result)
    BY <1>3, <2>3 DEF RestoreEnv
  <2>8. QED
    BY <2>6, <2>7, JoinedWhole
<1>4. CASE A # {} /\ Len(OriginalLines(lines, key)) # Len(originals)
  <2> DEFINE first == Min(A)
             before == SubSeq(lines, 1, first - 1)
             rest == SubSeq(lines, first, n)
             after == Left(rest, key)
             inserted == IF originals = <<>> \/ after = <<>> THEN originals
                         ELSE Append(Front(originals), Ended(Last(originals)))
  <2>1. first \in 1 .. n
    BY <1>1, <1>4, FirstAssigned
  <2>2. MoveLines(lines, key, originals) = before \o inserted \o after
    BY DEF MoveLines, Left
  <2> HIDE DEF first
  <2>3. before \in Seq(Line)
    <3>1. first - 1 \in 0 .. n
      BY <2>1
    <3>2. QED
      BY <1>1, <3>1, SubSeqStart
  <2>4. rest \in Seq(Line)
    BY <1>1, <2>1, SubSeqRest
  <2> HIDE DEF before, rest
  <2>5. after \in Seq(Line)
    <3>1. Len(rest) \in 0 .. Len(rest)
      BY <2>4
    <3>2. QED
      BY <2>4, <3>1, KeepingType DEF Left, Kept
  <2> HIDE DEF after
  <2>6. inserted \in Seq(Line)
    <3>1. Closed(originals) \in Seq(Line)
      BY ClosedLines
    <3>2. originals # <<>> => Closed(originals) = Append(Front(originals), Ended(Last(originals)))
      BY DEF Closed
    <3>3. QED
      BY <3>1, <3>2
  <2> HIDE DEF inserted
  <2>7. before \o inserted \o after \in Seq(Line)
    BY <2>3, <2>5, <2>6
  <2>8. RestoreEnv(lines, key, originals) = Joined(before \o inserted \o after)
    BY <1>4, <2>2 DEF RestoreEnv
  <2>9. QED
    BY <2>7, <2>8, JoinedWhole
<1>5. QED
  BY <1>2, <1>3, <1>4

\* What a .env and its snapshot always are.
EnvShape ==
    /\ EnvTypes
    /\ Whole(doc)
    /\ phase # "active" => saved = NothingSaved
    /\ phase = "active" => saved.fields[1] \in Seq(Line) /\ saved.fields[2] \in Seq(Line)

LEMMA UserFilesWhole ==
    ASSUME tool = "gemini", NEW file \in UserFiles
    PROVE  Whole(file)
<1>1. UserLines = EnvLines
  BY DEF UserLines
<1>2. CASE file = <<>>
  BY <1>2 DEF Whole, EndedBut
<1>3. CASE file # <<>>
  <2>1. PICK f \in BoundedSeq(EnvLines, MaxLines) \ {<<>>}, e \in LastLineEnded :
            file = [f EXCEPT ![Len(f)].ended = e]
    BY <1>1, <1>3 DEF UserFiles
  <2>2. PICK m \in 0 .. MaxLines : f \in [1 .. m -> EnvLines]
    BY <2>1 DEF BoundedSeq, SeqOf
  <2>3. f \in Seq(EnvLines) /\ Len(f) = m /\ m \in Nat /\ e \in BOOLEAN
    BY <2>2, EditingConstants
  <2>4. f \in Seq(Line) /\ \A i \in 1 .. m : f[i] \in Line /\ f[i].ended
    BY <2>2, <2>3, EnvLinesType
  <2>5. m \in 1 .. m
    BY <2>1, <2>3
  <2>6. [f[m] EXCEPT !.ended = e] \in Line
    BY <2>3, <2>4, <2>5 DEF Line
  <2>7. file = [f EXCEPT ![m] = [f[m] EXCEPT !.ended = e]]
    BY <2>1, <2>3
  <2>8. file \in Seq(Line) /\ Len(file) = m
    BY <2>3, <2>4, <2>6, <2>7
  <2>9. \A i \in 1 .. m : file[i].ended \/ i = m
    BY <2>2, <2>4, <2>7
  <2>10. QED
    BY <2>8, <2>9, WholeUnless
<1>4. QED
  BY <1>2, <1>3

LEMMA ShapeInit ==
    ASSUME Init, tool = "gemini"
    PROVE  EnvShape
<1>1. Whole(doc) /\ doc \in Seq(Line)
  BY UserFilesWhole DEF Init, Whole
<1>2. 0 \in 0 .. MaxEdits
  BY EditingConstants
<1>3. EnvTypes
  BY <1>1, <1>2 DEF Init, EnvTypes
<1>4. QED
  BY <1>1, <1>3 DEF Init, EnvShape

LEMMA ShapeEnable ==
    ASSUME EnvShape, Enable
    PROVE  EnvShape'
<1> DEFINE r == TakenOver(doc)
<1>1. /\ r.ok /\ doc' = r.doc /\ exists' = (exists \/ r.doc # doc)
      /\ phase = "active" => UNCHANGED <<saved, was, touched>>
      /\ phase # "active" => saved' = Captured /\ was' = [doc |-> doc, exists |-> exists] /\ touched' = FALSE
      /\ phase' = "active" /\ last' = "enable" /\ tool' = tool /\ edits' = edits
  BY DEF Enable
<1>2. EnvTypes /\ tool = "gemini" /\ Whole(doc) /\ doc \in Seq(Line)
  BY DEF EnvShape, EnvTypes
<1>3. doc' = Taken(doc)
  BY <1>1, <1>2, TakenOverTakes
<1>4. exists' = (exists \/ doc' # doc)
  BY <1>1
<1> HIDE DEF r
<1>5. Whole(doc') /\ doc' \in Seq(Line)
  BY <1>2, <1>3, KeysDiffer, SetEnvWhole DEF Taken, Whole
<1>6. EnvTypes'
  BY <1>1, <1>2, <1>4, <1>5 DEF EnvTypes
<1>7. saved'.fields[1] \in Seq(Line) /\ saved'.fields[2] \in Seq(Line)
  <2>1. CASE phase = "active"
    BY <1>1, <2>1 DEF EnvShape
  <2>2. CASE phase # "active"
    <3>1. saved'.fields[1] = OriginalLines(doc, ApiKey) /\ saved'.fields[2] = OriginalLines(doc, BaseUrl)
      BY <1>1, <1>2, <2>2, CapturedOriginals
    <3>2. \A key : OriginalLines(doc, key) \in Seq(Line)
      BY <1>2, OriginalLinesOf, OfElements
    <3>3. QED
      BY <3>1, <3>2
  <2>3. QED
    BY <2>1, <2>2
<1>8. Whole(doc)'
  BY <1>5 DEF Whole, EndedBut
<1>9. QED
  BY <1>1, <1>6, <1>7, <1>8 DEF EnvShape

LEMMA ShapeDisable ==
    ASSUME EnvShape, Disable
    PROVE  EnvShape'
<1> DEFINE r == PutBack(doc)
<1>1. /\ r.ok /\ doc' = r.doc /\ phase = "active"
      /\ exists' = IF ~saved.existed /\ r.doc = <<>> THEN FALSE ELSE exists \/ r.doc # doc
      /\ phase' = "inactive" /\ saved' = NothingSaved /\ last' = "disable"
      /\ UNCHANGED <<tool, was, touched, edits>>
  BY DEF Disable
<1>2. EnvTypes /\ tool = "gemini" /\ Whole(doc) /\ doc \in Seq(Line)
  BY DEF EnvShape, EnvTypes
<1>3. saved.fields[1] \in Seq(Line) /\ saved.fields[2] \in Seq(Line)
  BY <1>1 DEF EnvShape
<1>4. doc' = Returned(doc, saved.fields[1], saved.fields[2])
  BY <1>1, <1>2, PutBackReturns
<1>5. exists' = IF ~saved.existed /\ doc' = <<>> THEN FALSE ELSE exists \/ doc' # doc
  BY <1>1
<1> HIDE DEF r
<1>6. Whole(doc') /\ doc' \in Seq(Line)
  <2>1. Whole(RestoreEnv(doc, ApiKey, saved.fields[1]))
    BY <1>2, <1>3, RestoreEnvWhole
  <2>2. QED
    BY <1>3, <1>4, <2>1, RestoreEnvWhole DEF Returned, Whole
<1>7. EnvTypes'
  BY <1>1, <1>2, <1>5, <1>6 DEF EnvTypes
<1>8. QED
  BY <1>1, <1>6, <1>7 DEF EnvShape, Whole, EndedBut

LEMMA ShapeUserEdit ==
    ASSUME EnvShape, UserEdit
    PROVE  EnvShape'
<1>1. EnvTypes /\ tool = "gemini" /\ doc \in Seq(Line)
  BY DEF EnvShape, EnvTypes
<1>2. /\ phase = "active" /\ edits < MaxEdits /\ WellFormed(doc')
      /\ exists' = TRUE /\ last' = "edit" /\ touched' = TRUE /\ edits' = edits + 1
      /\ UNCHANGED <<tool, phase, saved, was>>
  BY DEF UserEdit, MayEdit
<1>3. doc' \in Seq(Line)
  BY <1>1, UserEditLines
<1>4. \A i \in 1 .. Len(doc') : doc'[i].ended \/ i = Len(doc')
  <2>1. DOMAIN doc' = 1 .. Len(doc')
    BY <1>3
  <2>2. QED
    BY <1>1, <1>2, <2>1 DEF WellFormed
<1>5. Whole(doc')
  BY <1>3, <1>4, WholeUnless
<1>6. edits' \in 0 .. MaxEdits
  BY <1>1, <1>2, EditingConstants DEF EnvTypes
<1>7. EnvTypes'
  BY <1>1, <1>2, <1>3, <1>6 DEF EnvTypes
<1>8. QED
  BY <1>2, <1>5, <1>7 DEF EnvShape, Whole, EndedBut

LEMMA ShapeStep ==
    ASSUME EnvShape, [Next]_vars
    PROVE  EnvShape'
<1>1. EnvTypes /\ Whole(doc) /\ ~InjectMcp
  BY DEF EnvShape, EnvTypes, InjectMcp
<1>2. CASE DisableWithoutCycle \/ UNCHANGED vars
  <2>1. /\ tool' = tool /\ doc' = doc /\ exists' = exists /\ saved' = saved /\ touched' = touched /\ edits' = edits
        /\ \/ phase' = phase /\ last' = last
           \/ phase = "none" /\ phase' = "inactive" /\ last' = "disable"
    BY <1>2 DEF DisableWithoutCycle, vars
  <2>2. EnvTypes'
    BY <1>1, <2>1 DEF EnvTypes
  <2>3. QED
    BY <1>1, <2>1, <2>2 DEF EnvShape, Whole, EndedBut
<1>3. QED
  BY <1>1, <1>2, ShapeEnable, ShapeDisable, ShapeUserEdit DEF Next

-----------------------------------------------------------------------------
(* What follows for a .env.                                                 *)

LEMMA EffectiveRelay ==
    ASSUME NEW lines \in Seq(Line), NEW key, MeansOf(lines, key) = {"relay"}
    PROVE  Effective(lines, key) = <<"relay">>
<1> DEFINE s == OriginalLines(lines, key)
<1>1. MeansOf(lines, key) = {lines[i].means : i \in Assigns(lines, key)}
  BY MeansOfAssigned
<1>2. Assigns(lines, key) # {}
  BY <1>1
<1>3. s \in Seq(Line)
  BY OfElements, OriginalLinesOf
<1>4. {line.means : line \in ToSet(s)} = {"relay"}
  BY DEF MeansOf
<1>5. Effective(lines, key) = <<Last(s).means>>
  BY <1>2 DEF Effective
<1> HIDE DEF s
<1>6. s # <<>>
  BY <1>4 DEF ToSet
<1>7. Len(s) \in DOMAIN s
  BY <1>3, <1>6
<1>8. Last(s) \in ToSet(s)
  BY <1>7 DEF Last, ToSet
<1>9. Last(s).means = "relay"
  BY <1>4, <1>8
<1>10. QED
  BY <1>5, <1>9

LEMMA OriginalMeans ==
    ASSUME tool = "gemini", NEW lines, NEW key
    PROVE  Means(Original(lines, key)) = MeansOf(lines, key)
<1>1. Original(lines, key) = OriginalLines(lines, key)
  BY DEF Original
<1>2. QED
  BY <1>1 DEF Means, MeansOf

LEMMA EnvSetAndPutBack == EnvInv => SetAndPutBack
<1> SUFFICES ASSUME EnvInv PROVE SetAndPutBack
  OBVIOUS
<1>1. EnvTypes /\ EnvDone /\ tool = "gemini"
  BY DEF EnvInv, EnvTypes
<1>2. DOMAIN Fields = {1, 2} /\ Fields[1] = ApiKey /\ Fields[2] = BaseUrl /\ ToSet(Containers) = {}
  <2>1. DOMAIN Fields = 1 .. 2
    BY <1>1, GeminiTwo
  <2>2. ToSet(<<>>) = {}
    BY DEF ToSet
  <2>3. QED
    BY <1>1, <2>1, <2>2, GeminiTwo
<1>3. \A field : {v.means : v \in Desired(field)} = {"relay"}
  BY <1>1 DEF Desired, Scalar
<1>4. ASSUME last = "enable"
      PROVE  \A i \in DOMAIN Fields : Means(Original(doc, Fields[i])) = {v.means : v \in Desired(Fields[i])}
  <2>1. MeansOf(doc, ApiKey) = {"relay"} /\ MeansOf(doc, BaseUrl) = {"relay"}
    BY <1>1, <1>4 DEF EnvDone
  <2>2. QED
    BY <1>1, <1>2, <1>3, <2>1, OriginalMeans
<1>5. ASSUME last = "enable" PROVE ProxyStatus
  <2>1. phase = "active" /\ MeansOf(doc, ApiKey) = {"relay"} /\ MeansOf(doc, BaseUrl) = {"relay"} /\ doc \in Seq(Line)
    BY <1>1, <1>5 DEF EnvDone, EnvTypes
  <2>2. Effective(doc, ApiKey) = <<"relay">> /\ Effective(doc, BaseUrl) = <<"relay">>
    BY <2>1, EffectiveRelay
  <2>3. \A i \in DOMAIN Fields : Effective(doc, Fields[i]) = <<"relay">>
    BY <1>2, <2>2
  <2>4. QED
    BY <1>1, <2>1, <2>3 DEF ProxyStatus
<1>6. ASSUME last = "disable"
      PROVE  \A i \in DOMAIN Fields : Means(Original(doc, Fields[i])) = Means(Original(was.doc, Fields[i]))
  <2>1. MeansOf(doc, ApiKey) = MeansOf(was.doc, ApiKey) /\ MeansOf(doc, BaseUrl) = MeansOf(was.doc, BaseUrl)
    BY <1>1, <1>6 DEF EnvDone
  <2>2. QED
    BY <1>1, <1>2, <2>1, OriginalMeans
<1>7. QED
  BY <1>2, <1>4, <1>5, <1>6 DEF SetAndPutBack

LEMMA EnvTypeOK == EnvShape => TypeOK
<1> SUFFICES ASSUME EnvShape PROVE TypeOK
  OBVIOUS
<1>1. EnvTypes /\ EndedBut(doc, Keys)
  BY DEF EnvShape, Whole
<1>2. WellFormed(doc)
  <2>1. DOMAIN doc = 1 .. Len(doc)
    BY <1>1 DEF EnvTypes
  <2>2. QED
    BY <1>1, <2>1 DEF WellFormed, EnvTypes, EndedBut
<1>3. QED
  BY <1>1, <1>2 DEF TypeOK, EnvTypes, EnvShape

LEMMA EnvRoundTrip == EnvInv => RoundTrip
  BY DEF EnvInv, EnvDone, RoundTrip

\* What is beside the managed fields, as a view of the other keys.
LEMMA RestIsView ==
    ASSUME tool = "gemini", NEW file \in Seq(Line)
    PROVE  Rest(file) = [entries |-> View(file, Keys \ ManagedKeys)]
<1> DEFINE S == {i \in DOMAIN file : file[i].key \notin ToSet(GeminiFields)}
           R == {i \in DOMAIN file : file[i].key \in Keys \ ManagedKeys}
<1>1. ToSet(GeminiFields) = ManagedKeys
  <2>1. DOMAIN GeminiFields = {1, 2} /\ GeminiFields[1] = ApiKey /\ GeminiFields[2] = BaseUrl
    BY DEF GeminiFields, ApiKey, BaseUrl
  <2>2. QED
    BY <2>1, KeysDiffer DEF ToSet
<1>2. \A i \in DOMAIN file : file[i].key \in Keys
  <2>1. \A i \in DOMAIN file : file[i] \in Line
    OBVIOUS
  <2>2. QED
    BY <2>1 DEF Line
<1>3. S = R
  BY <1>1, <1>2
<1>4. Kept(file, S) = Of(file, Keys \ ManagedKeys)
  BY <1>3 DEF Of
<1> DEFINE lines == Of(file, Keys \ ManagedKeys)
<1>5. Rest(file) = [entries |-> [i \in DOMAIN lines |-> <<lines[i].key, lines[i].means, lines[i].trim>>]]
  BY <1>4 DEF Rest
<1>6. QED
  BY <1>5 DEF View, Showing, Shown

LEMMA EnvKeepsTheRest ==
    EnvInv /\ [Next]_vars => [last' \in {"enable", "disable"} => Rest(doc') = Rest(doc)]_vars
<1> SUFFICES ASSUME EnvInv, Next, last' \in {"enable", "disable"} PROVE Rest(doc') = Rest(doc)
  OBVIOUS
<1>1. /\ tool = "gemini" /\ doc \in Seq(Line) /\ EndedBut(doc, ManagedKeys)
      /\ EnvCycle
  BY DEF EnvInv, EnvTypes, EnvNewlines
<1>2. EnvInv'
  BY EnvStep
<1>3. doc' \in Seq(Line)
  BY <1>2 DEF EnvInv, EnvTypes
<1>4. View(doc', Keys \ ManagedKeys) = View(doc, Keys \ ManagedKeys)
  <2>1. CASE Enable
    <3>1. TakenOver(doc).ok /\ doc' = TakenOver(doc).doc
      BY <2>1 DEF Enable
    <3>2. doc' = Taken(doc)
      BY <1>1, <3>1, TakenOverTakes
    <3>3. QED
      BY <1>1, <3>2, TakenSets
  <2>2. CASE Disable
    <3>1. PutBack(doc).ok /\ doc' = PutBack(doc).doc /\ phase = "active"
      BY <2>2 DEF Disable
    <3>2. doc' = Returned(doc, saved.fields[1], saved.fields[2])
      BY <1>1, <3>1, PutBackReturns
    <3>3. Originals(saved.fields[1], ApiKey) /\ Originals(saved.fields[2], BaseUrl)
      BY <1>1, <3>1, OriginalsOf DEF EnvCycle
    <3>4. QED
      BY <1>1, <3>2, <3>3, ReturnedRestores
  <2>3. CASE DisableWithoutCycle
    BY <2>3 DEF DisableWithoutCycle
  <2>4. ~UserEdit /\ ~InjectMcp
    BY DEF UserEdit, InjectMcp
  <2>5. QED
    BY <2>1, <2>2, <2>3, <2>4 DEF Next
<1>5. QED
  BY <1>1, <1>3, <1>4, RestIsView

\* The types, and a .env is well formed after every step: no line in its middle
\* lacks its newline (env_edit.go).
THEOREM EnvTypeOKHolds == Spec /\ tool = "gemini" => []TypeOK
<1>1. Init /\ tool = "gemini" => EnvShape
  BY ShapeInit
<1>2. EnvShape /\ [Next]_vars => EnvShape'
  BY ShapeStep
<1>3. EnvShape => TypeOK
  BY EnvTypeOK
<1>4. QED
  BY <1>1, <1>2, <1>3, PTL DEF Spec

\* Enable points both keys of a .env at the relay, by every assignment there
\* is; Disable gives both their old values again, or none, whatever the user has
\* done to the file in between (setEnvField, restoreEnvField).
THEOREM EnvSetAndPutBackHolds ==
    ASSUME LastLineEnded \subseteq {TRUE}
    PROVE  Spec /\ tool = "gemini" => []SetAndPutBack
<1>1. EnvInv => SetAndPutBack
  BY EnvSetAndPutBack
<1>2. Spec /\ tool = "gemini" => []EnvInv
  BY EnvInvHolds
<1>3. QED
  BY <1>1, <1>2, PTL

\* A cycle in which nobody else writes the .env leaves it as it was, line for
\* line, and leaves no file where there was none.
THEOREM EnvRoundTripHolds ==
    ASSUME LastLineEnded \subseteq {TRUE}
    PROVE  Spec /\ tool = "gemini" => []RoundTrip
<1>1. EnvInv => RoundTrip
  BY EnvRoundTrip
<1>2. Spec /\ tool = "gemini" => []EnvInv
  BY EnvInvHolds
<1>3. QED
  BY <1>1, <1>2, PTL

\* Enable and Disable leave the other lines of a .env as they are, in their
\* order ("其他行及其相对顺序不变", env_edit.go:75).
THEOREM EnvKeepsTheRestHolds ==
    ASSUME LastLineEnded \subseteq {TRUE}
    PROVE  Spec /\ tool = "gemini" => KeepsTheRest
<1>1. EnvInv /\ [Next]_vars => [last' \in {"enable", "disable"} => Rest(doc') = Rest(doc)]_vars
  BY EnvKeepsTheRest
<1>2. Spec /\ tool = "gemini" => []EnvInv
  BY EnvInvHolds
<1>3. QED
  BY <1>1, <1>2, PTL DEF Spec, KeepsTheRest
=============================================================================
