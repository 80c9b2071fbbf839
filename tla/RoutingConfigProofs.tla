------------------------ MODULE RoutingConfigProofs ------------------------
(***************************************************************************)
(* Proofs about RoutingConfig, for any platforms, profiles, files and      *)
(* number of goroutines: type correctness; the cache and the relay agree   *)
(* with the database; the legacy files are imported once; a call that no   *)
(* other overlapped works on the stored configuration.                     *)
(***************************************************************************)
EXTENDS RoutingConfig, TLAPS

-----------------------------------------------------------------------------
(* Sequences of platforms, and profiles.                                   *)

LEMMA SeqParts ==
    ASSUME NEW S, NEW s \in Seq(S), s # <<>>
    PROVE  /\ Head(s) \in S /\ Tail(s) \in Seq(S)
           /\ \A x : x \in Range(s) <=> x = Head(s) \/ x \in Range(Tail(s))
           /\ Tail(s) = <<>> => \A x : x \in Range(s) <=> x = Head(s)
<1>1. Len(s) \in Nat /\ Len(s) > 0 /\ Head(s) \in S /\ Tail(s) \in Seq(S)
  OBVIOUS
<1>3. ASSUME NEW x PROVE x \in Range(s) <=> x = Head(s) \/ x \in Range(Tail(s))
  <2>1. ASSUME x \in Range(s) PROVE x = Head(s) \/ x \in Range(Tail(s))
    <3>1. PICK i \in 1 .. Len(s) : s[i] = x
      BY <2>1 DEF Range
    <3>2. CASE i = 1
      BY <3>1, <3>2
    <3>3. CASE i # 1
      <4>1. i - 1 \in 1 .. Len(Tail(s)) /\ Tail(s)[i - 1] = x
        BY <3>1, <3>3, <1>1
      <4>2. QED
        BY <4>1 DEF Range
    <3>4. QED
      BY <3>2, <3>3
  <2>2. ASSUME x = Head(s) PROVE x \in Range(s)
    BY <2>2, <1>1 DEF Range
  <2>3. ASSUME x \in Range(Tail(s)) PROVE x \in Range(s)
    <3>1. PICK i \in 1 .. Len(Tail(s)) : Tail(s)[i] = x
      BY <2>3, <1>1 DEF Range
    <3>2. i + 1 \in 1 .. Len(s) /\ s[i + 1] = x
      BY <3>1, <1>1
    <3>3. QED
      BY <3>2 DEF Range
  <2>4. QED
    BY <2>1, <2>2, <2>3
<1>4. Range(<<>>) = {}
  BY DEF Range
<1>5. QED
  BY <1>1, <1>3, <1>4

LEMMA OrderParts ==
    /\ PlatformOrder \in Seq(Platforms) /\ PlatformOrder # <<>>
    /\ \A p : p \in Platforms <=> p \in Range(PlatformOrder)
BY RoutingConstants DEF Platforms

\* A profile is its default and its providers, and any two may be mixed.
LEMMA ProfileParts ==
    /\ Empty \in Profiles /\ None \notin Profiles
    /\ \A a \in Profiles : a = [default |-> a.default, providers |-> a.providers]
    /\ \A d \in Defaults, b \in Profiles : [default |-> d, providers |-> b.providers] \in Profiles
<1>1. \A a \in Stored : a = Mixed(a, a)
  <2>1. ASSUME NEW raw PROVE \E ps : Normalize(raw) = [default |-> raw.default, providers |-> ps]
    BY Zenon DEF Normalize
  <2>2. \A raw : Normalize(raw) = Mixed(Normalize(raw), Normalize(raw))
    BY <2>1 DEF Mixed
  <2>3. QED
    BY <2>2 DEF Stored, Submitted, Empty, Mixed
<1>2. \A x \in Profiles : \E a, b \in Stored : x = Mixed(a, b)
  BY <1>1 DEF Profiles
<1>3. \A a, b \in Stored : Mixed(a, b) \in Profiles
  BY DEF Profiles
<1>4. ASSUME NEW d \in Defaults, NEW b \in Profiles
      PROVE  [default |-> d, providers |-> b.providers] \in Profiles
  <2>1. PICK a \in Profiles : d = a.default
    BY DEF Defaults
  <2>2. PICK a1 \in Stored, a2 \in Stored : a = Mixed(a1, a2)
    BY <1>2
  <2>3. PICK b1 \in Stored, b2 \in Stored : b = Mixed(b1, b2)
    BY <1>2
  <2>4. [default |-> d, providers |-> b.providers] = Mixed(a1, b2)
    BY <2>1, <2>2, <2>3 DEF Mixed
  <2>5. QED
    BY <2>4, <1>3
<1>5. \A a \in Profiles : a = [default |-> a.default, providers |-> a.providers]
  BY <1>2 DEF Mixed
<1>6. Empty \in Profiles /\ None \notin Profiles
  BY RoutingConstants DEF Profiles, Stored
<1>7. QED
  BY <1>4, <1>5, <1>6

-----------------------------------------------------------------------------
(* Types.  What a call is for decides which steps it is at and what it has  *)
(* read so far.                                                            *)

ReadSteps == {"look", "default", "providers", "keep"}
ReadsOne == {"get", "save", "saved"}
ReadsAll == {"push", "restore"}

AllProfiles(f) == \A p \in Platforms : f[p] \in Profiles

\* A call of one platform reads that one; one of all platforms has read those
\* that are not left.
GoalFits(j) ==
    /\ j.at = "idle" => j.goal = "none"
    /\ j.at \in ReadSteps => j.goal \in ReadsOne \union ReadsAll
    /\ j.goal \in ReadsOne => j.at \in ReadSteps \union {"commit"} /\ Tail(j.todo) = <<>>
    /\ j.goal = "save" => j.new[Head(j.todo)] \in Profiles
    /\ j.goal = "saved" => j.at \notin {"look", "commit"}
    /\ j.goal = "get" => j.at # "commit"
    /\ j.at \in {"upload", "readPrefs", "rollback", "pull", "replace", "publish"} => j.goal \in ReadsAll
    /\ j.at = "commit" => j.goal = "save"

ValuesRead(j) ==
    /\ j.at = "providers" => j.half \in Defaults
    /\ j.at \in {"keep", "commit"} => j.got[Head(j.todo)] \in Profiles
    /\ j.at \in ReadSteps /\ j.goal \in ReadsAll =>
           /\ j.prefs \in Preferences
           /\ \A p \in Platforms : p \in Range(j.todo) \/ j.got[p] \in Profiles
    /\ j.at \in {"upload", "rollback"} => AllProfiles(j.got)
    /\ j.at \in {"replace", "publish"} => AllProfiles(j.new)
    /\ j.at \in {"upload", "rollback", "replace", "publish", "savePrefs", "notify"} =>
           j.prefs \in Preferences
    /\ j.at = "readPrefs" => j.todo = PlatformOrder

Good(j) == j \in Jobs /\ GoalFits(j) /\ ValuesRead(j) /\ (j.at \in Reading => j.todo # <<>>)

CallsGood == job \in [Callers -> Jobs] /\ \A c \in Callers : Good(job[c])

BootGood ==
    /\ boot.todo # <<>>
    /\ ~Up => \A c \in Callers : at(c) = "idle"
    /\ boot.at \notin {"warm", "up"} => cache = NoCache

DataTyped ==
    /\ db \in [prefs : Preferences, profiles : [Platforms -> Profiles], imported : BOOLEAN]
    /\ cache \in [Platforms -> MaybeProfile]
    /\ relay \in Preferences
    /\ remote \in Snapshots \union {None} /\ rollback \in Snapshots \union {None}
    /\ legacy \in LegacyFiles
    /\ boot \in [at : BootSteps, todo : Seq(Platforms)]
    /\ jobs \in 0..MaxJobs /\ restarts \in 0..MaxRestarts
    /\ slipped \subseteq Platforms \union {"prefs"}
    /\ loaded \subseteq Platforms

TypeInv == DataTyped /\ CallsGood /\ BootGood

LEMMA TypeInvTypes == TypeInv => TypeOK
  BY DEF TypeInv, DataTyped, CallsGood, Good, TypeOK, at

LEMMA IdleGood == Good(Idle) /\ Idle \in Jobs /\ Idle.at = "idle"
<1>1. Idle \in Jobs
  BY ProfileParts DEF Idle, Jobs, Goals, Steps, MaybeProfile
<1>2. QED
  BY <1>1 DEF Good, GoalFits, ValuesRead, Idle, ReadSteps, ReadsOne, Reading

\* The call that is next after one profile has been read.
LEMMA AfterReadGood ==
    ASSUME NEW j \in Jobs, j.at \in ReadSteps, j.todo # <<>>, GoalFits(j),
           j.got[Head(j.todo)] \in Profiles,
           j.goal \in ReadsAll =>
               /\ j.prefs \in Preferences
               /\ \A p \in Platforms : p \in Range(j.todo) \/ j.got[p] \in Profiles
    PROVE  Good(AfterRead(j))
<1> USE DEF ReadSteps, ReadsOne, ReadsAll
<1>0. j.todo \in Seq(Platforms)
  BY DEF Jobs
<1>1. CASE Tail(j.todo) # <<>>
  <2> DEFINE k == [j EXCEPT !.todo = Tail(@), !.at = "look", !.half = None]
  <2>1. AfterRead(j) = k
    BY <1>1 DEF AfterRead
  <2>2. k \in Jobs
    BY <1>0, SeqParts DEF Jobs, Steps
  <2>3. k.at = "look" /\ k.goal = j.goal /\ k.todo = Tail(j.todo) /\ k.prefs = j.prefs /\ k.got = j.got
    BY DEF Jobs
  <2>4. j.goal \in ReadsAll
    BY <1>1 DEF GoalFits
  <2>5. GoalFits(k)
    BY <2>3, <2>4 DEF GoalFits
  <2>6. \A p \in Platforms : p \in Range(k.todo) \/ k.got[p] \in Profiles
    BY <2>3, <2>4, <1>0, SeqParts
  <2>7. ValuesRead(k)
    BY <2>3, <2>4, <2>6 DEF ValuesRead
  <2>8. QED
    BY <2>1, <2>2, <2>3, <2>5, <2>7, <1>1 DEF Good
<1>2. CASE Tail(j.todo) = <<>>
  <2>1. CASE j.goal \in {"get", "saved"}
    BY <2>1, <1>2, IdleGood DEF AfterRead
  <2>2. CASE j.goal = "save"
    <3> DEFINE k == [j EXCEPT !.at = "commit", !.half = None]
    <3>1. AfterRead(j) = k
      BY <1>2, <2>2 DEF AfterRead
    <3>2. k \in Jobs
      BY DEF Jobs, Steps
    <3>3. k.at = "commit" /\ k.goal = "save" /\ k.todo = j.todo /\ k.new = j.new /\ k.got = j.got
      BY <2>2 DEF Jobs
    <3>4. GoalFits(k) /\ ValuesRead(k)
      BY <3>3, <2>2, <1>2 DEF GoalFits, ValuesRead
    <3>5. QED
      BY <3>1, <3>2, <3>3, <3>4 DEF Good
  <2>3. CASE j.goal \in ReadsAll
    <3>1. PICK s \in {"upload", "rollback"} : AfterRead(j) = [j EXCEPT !.at = s, !.half = None]
      BY <1>2, <2>3 DEF AfterRead
    <3> DEFINE k == [j EXCEPT !.at = s, !.half = None]
    <3>2. k \in Jobs
      BY DEF Jobs, Steps
    <3>3. k.at = s /\ k.goal = j.goal /\ k.prefs = j.prefs /\ k.got = j.got
      BY DEF Jobs
    <3>4. AllProfiles(k.got)
      BY <3>3, <2>3, <1>0, <1>2, SeqParts DEF AllProfiles
    <3>5. GoalFits(k) /\ ValuesRead(k)
      BY <3>3, <3>4, <2>3 DEF GoalFits, ValuesRead
    <3>6. QED
      BY <3>1, <3>2, <3>3, <3>5 DEF Good, Reading
  <2>4. QED
    BY <2>1, <2>2, <2>3 DEF GoalFits
<1>3. QED
  BY <1>1, <1>2

-----------------------------------------------------------------------------
(* Types: the steps of a call.                                             *)

LEMMA StepGood ==
    ASSUME CallsGood, NEW c \in Callers, NEW j, Good(j), Step(c, j)
    PROVE  CallsGood'
  BY DEF CallsGood, Step, Good

LEMMA ForgottenGood ==
    ASSUME NEW j, Good(j) PROVE Good([j EXCEPT !.clean = FALSE])
<1> DEFINE k == [j EXCEPT !.clean = FALSE]
<1>1. /\ k \in Jobs /\ k.at = j.at /\ k.goal = j.goal /\ k.todo = j.todo /\ k.prefs = j.prefs
      /\ k.half = j.half /\ k.got = j.got /\ k.new = j.new
  BY DEF Good, Jobs
<1>2. GoalFits(k) /\ ValuesRead(k)
  BY <1>1 DEF Good, GoalFits, ValuesRead
<1>3. QED
  BY <1>1, <1>2 DEF Good

LEMMA CommitGood ==
    ASSUME CallsGood, NEW c \in Callers, NEW j, Good(j), CommitStep(c, j)
    PROVE  CallsGood'
<1>1. \A d \in Callers : Good(job'[d])
  BY ForgottenGood DEF CallsGood, CommitStep
<1>2. QED
  BY <1>1 DEF CallsGood, CommitStep, Good

\* While a call runs the process is up, and what a call does not touch stays.
LEMMA CallRunsUp ==
    ASSUME TypeInv, NEW c \in Callers, at(c) # "idle" PROVE Up
  BY DEF TypeInv, BootGood

LEMMA UpGood ==
    ASSUME Up, boot' = boot, BootGood PROVE BootGood'
  BY DEF Up, BootGood

LEMMA SlipsTyped ==
    ASSUME DataTyped, NEW c \in Callers, NEW values, Slips(c, values)
    PROVE  slipped' \subseteq Platforms \union {"prefs"} /\ slipped \subseteq slipped'
  BY DEF DataTyped, Slips

Begun(goal, step, todo, prefs, new, clean) ==
    [Idle EXCEPT !.goal = goal, !.at = step, !.todo = todo, !.prefs = prefs, !.new = new, !.clean = clean]

LEMMA BeginGood ==
    ASSUME TypeInv, NEW c \in Callers, NEW goal, NEW step, NEW todo, NEW prefs, NEW new,
           Begin(c, goal, step, todo, prefs, new),
           \A clean \in BOOLEAN : Good(Begun(goal, step, todo, prefs, new, clean))
    PROVE  TypeInv'
<1>1. PICK clean \in BOOLEAN : Step(c, Begun(goal, step, todo, prefs, new, clean))
  BY DEF Begin, Begun
<1>2. CallsGood'
  BY <1>1, StepGood DEF TypeInv
<1>3. jobs' \in 0..MaxJobs
  BY RoutingConstants DEF Begin, TypeInv, DataTyped
<1>4. DataTyped'
  BY <1>3 DEF Begin, TypeInv, DataTyped, outside
<1>5. BootGood'
  BY UpGood DEF Begin, TypeInv, outside
<1>6. QED
  BY <1>2, <1>4, <1>5 DEF TypeInv

LEMMA BeginTypes ==
    ASSUME TypeInv, NEW c \in Callers,
           BeginGet(c) \/ BeginSave(c) \/ BeginSavePrefs(c) \/ BeginPush(c) \/ BeginRestore(c)
    PROVE  TypeInv'
<1> USE DEF ReadSteps, ReadsOne, ReadsAll
<1>1. /\ "get" \in Goals /\ "save" \in Goals /\ "prefs" \in Goals /\ \A goal \in ReadsAll : goal \in Goals
      /\ "look" \in Steps /\ "savePrefs" \in Steps /\ "readPrefs" \in Steps
      /\ None \in Preferences \union {None} /\ \A prefs \in Preferences : prefs \in Preferences \union {None}
      /\ <<>> \in Seq(Platforms)
  BY DEF Goals, Steps
<1>2. Idle.new \in [Platforms -> MaybeProfile]
  BY IdleGood DEF Jobs
<1>3. ASSUME NEW p \in Platforms PROVE <<p>> \in Seq(Platforms) /\ <<p>> # <<>> /\ Tail(<<p>>) = <<>> /\ Head(<<p>>) = p
  OBVIOUS
<1>4. CASE BeginGet(c)
  <2>1. PICK p \in Platforms : Begin(c, "get", "look", <<p>>, None, Idle.new)
    BY <1>4 DEF BeginGet
  <2>2. ASSUME NEW clean \in BOOLEAN PROVE Good(Begun("get", "look", <<p>>, None, Idle.new, clean))
    <3> DEFINE j == Begun("get", "look", <<p>>, None, Idle.new, clean)
    <3>1. j \in Jobs /\ j.goal = "get" /\ j.at = "look" /\ j.todo = <<p>>
      BY <1>1, <1>2, <1>3, IdleGood DEF Jobs, Begun
    <3> HIDE DEF j
    <3>2. Good(j)
      BY <3>1, <1>3 DEF Good, GoalFits, ValuesRead
    <3>3. QED
      BY <3>2 DEF j
  <2>3. QED
    BY <2>1, <2>2, BeginGood
<1>5. CASE BeginSave(c)
  <2>1. PICK p \in Platforms, profile \in Valid :
            Begin(c, "save", "look", <<p>>, None, [Idle.new EXCEPT ![p] = profile])
    BY <1>5 DEF BeginSave
  <2> DEFINE new == [Idle.new EXCEPT ![p] = profile]
  <2>2. new \in [Platforms -> MaybeProfile] /\ new[p] \in Profiles
    BY <1>2 DEF Valid, Profiles, Stored, MaybeProfile
  <2>3. ASSUME NEW clean \in BOOLEAN PROVE Good(Begun("save", "look", <<p>>, None, new, clean))
    <3> DEFINE j == Begun("save", "look", <<p>>, None, new, clean)
    <3>1. j \in Jobs /\ j.goal = "save" /\ j.at = "look" /\ j.todo = <<p>> /\ j.new = new
      BY <1>1, <1>3, <2>2, IdleGood DEF Jobs, Begun
    <3> HIDE DEF j
    <3>2. Good(j)
      BY <3>1, <2>2, <1>3 DEF Good, GoalFits, ValuesRead
    <3>3. QED
      BY <3>2 DEF j
  <2>4. QED
    BY <2>1, <2>3, BeginGood
<1>6. CASE BeginSavePrefs(c)
  <2>1. PICK prefs \in Preferences : Begin(c, "prefs", "savePrefs", <<>>, prefs, Idle.new)
    BY <1>6 DEF BeginSavePrefs
  <2>2. ASSUME NEW clean \in BOOLEAN PROVE Good(Begun("prefs", "savePrefs", <<>>, prefs, Idle.new, clean))
    <3> DEFINE j == Begun("prefs", "savePrefs", <<>>, prefs, Idle.new, clean)
    <3>1. j \in Jobs /\ j.goal = "prefs" /\ j.at = "savePrefs" /\ j.prefs = prefs
      BY <1>1, <1>2, IdleGood DEF Jobs, Begun
    <3> HIDE DEF j
    <3>2. Good(j)
      BY <3>1 DEF Good, GoalFits, ValuesRead, Reading
    <3>3. QED
      BY <3>2 DEF j
  <2>3. QED
    BY <2>1, <2>2, BeginGood
<1>7. CASE BeginPush(c) \/ BeginRestore(c)
  <2>1. PICK goal \in ReadsAll : Begin(c, goal, "readPrefs", PlatformOrder, None, Idle.new)
    BY <1>7 DEF BeginPush, BeginRestore
  <2>2. ASSUME NEW clean \in BOOLEAN PROVE Good(Begun(goal, "readPrefs", PlatformOrder, None, Idle.new, clean))
    <3> DEFINE j == Begun(goal, "readPrefs", PlatformOrder, None, Idle.new, clean)
    <3>1. j \in Jobs /\ j.goal = goal /\ j.at = "readPrefs" /\ j.todo = PlatformOrder
      BY <1>1, <1>2, OrderParts, IdleGood DEF Jobs, Begun
    <3> HIDE DEF j
    <3>2. Good(j)
      BY <3>1, OrderParts DEF Good, GoalFits, ValuesRead, Reading
    <3>3. QED
      BY <3>2 DEF j
  <2>3. QED
    BY <2>1, <2>2, BeginGood
<1>8. QED
  BY <1>4, <1>5, <1>6, <1>7

\* What is known of a call that runs.
LEMMA RunningCall ==
    ASSUME TypeInv, NEW c \in Callers, at(c) # "idle"
    PROVE  /\ Up /\ job[c] \in Jobs /\ Good(job[c]) /\ GoalFits(job[c]) /\ ValuesRead(job[c])
           /\ at(c) \in Reading => job[c].todo # <<>>
           /\ at(c) \in Reading => Platform(c) \in Platforms
           /\ UNCHANGED boot => BootGood'
<1>1. Good(job[c]) /\ Up
  BY CallRunsUp DEF TypeInv, CallsGood
<1>2. UNCHANGED boot => BootGood'
  BY <1>1, UpGood DEF TypeInv
<1>3. at(c) \in Reading => job[c].todo # <<>> /\ Platform(c) \in Platforms
  BY <1>1, SeqParts DEF Good, Jobs, at, Platform
<1>4. QED
  BY <1>1, <1>2, <1>3 DEF Good, at

LEMMA ReadTypes ==
    ASSUME TypeInv, NEW c \in Callers,
           Look(c) \/ ReadDefault(c) \/ ReadProviders(c) \/ Keep(c)
    PROVE  TypeInv'
<1> DEFINE p == Platform(c)
<1> USE DEF ReadSteps, ReadsOne, ReadsAll
<1>1. /\ at(c) \in ReadSteps /\ at(c) # "idle" /\ at(c) \in Reading
      /\ UNCHANGED <<db, relay, slipped, jobs, outside>>
  BY DEF Look, ReadDefault, ReadProviders, Keep, Reading
<1>2. /\ job[c] \in Jobs /\ GoalFits(job[c]) /\ ValuesRead(job[c])
      /\ job[c].todo # <<>> /\ job[c].todo \in Seq(Platforms) /\ p \in Platforms /\ BootGood'
  BY <1>1, RunningCall DEF Jobs, outside
<1>3. \A v \in Profiles :
         LET j == [job[c] EXCEPT !.got[p] = v] IN
         /\ j \in Jobs /\ j.at = at(c) /\ j.goal = job[c].goal /\ j.todo = job[c].todo
         /\ j.prefs = job[c].prefs /\ j.new = job[c].new
         /\ \A q \in Platforms : j.got[q] = IF q = p THEN v ELSE job[c].got[q]
  BY <1>2 DEF Jobs, MaybeProfile, at
<1>4. db.profiles[p] \in Profiles /\ cache[p] \in MaybeProfile
  BY <1>2 DEF TypeInv, DataTyped
<1>5. CASE Look(c)
  <2>1. CASE cache[p] = None
    <3> DEFINE j == [job[c] EXCEPT !.at = "default"]
    <3>1. Step(c, j)
      BY <1>5, <2>1 DEF Look
    <3>2. /\ j \in Jobs /\ j.at = "default" /\ j.goal = job[c].goal /\ j.todo = job[c].todo
          /\ j.prefs = job[c].prefs /\ j.new = job[c].new /\ j.got = job[c].got
      BY <1>2 DEF Jobs, Steps
    <3>3. at(c) = "look"
      BY <1>5 DEF Look
    <3>4. Good(j)
      <4> HIDE DEF j
      <4>1. QED
        BY <3>2, <3>3, <1>2 DEF Good, GoalFits, ValuesRead, at
    <3>5. CallsGood'
      BY <3>1, <3>4, StepGood DEF TypeInv
    <3>6. QED
      BY <1>1, <1>2, <1>5, <3>5 DEF TypeInv, DataTyped, Look, outside
  <2>2. CASE cache[p] # None
    <3> DEFINE j == [job[c] EXCEPT !.got[p] = cache[p]]
    <3>1. Step(c, AfterRead(j)) /\ at(c) = "look"
      BY <1>5, <2>2 DEF Look
    <3>2. /\ j \in Jobs /\ j.at = at(c) /\ j.goal = job[c].goal /\ j.todo = job[c].todo
          /\ j.prefs = job[c].prefs /\ j.new = job[c].new
          /\ \A q \in Platforms : j.got[q] = IF q = p THEN cache[p] ELSE job[c].got[q]
      BY <1>3, <1>4, <2>2 DEF MaybeProfile
    <3> HIDE DEF j
    <3>3. GoalFits(j)
      BY <3>1, <3>2, <1>2 DEF GoalFits, at
    <3>4. Good(AfterRead(j))
      <4>1. j.got[Head(j.todo)] \in Profiles
        BY <3>2, <1>2, <1>4, <2>2 DEF MaybeProfile, Platform
      <4>2. ASSUME j.goal \in ReadsAll
            PROVE  j.prefs \in Preferences /\ \A q \in Platforms : q \in Range(j.todo) \/ j.got[q] \in Profiles
        BY <3>1, <3>2, <4>2, <1>2, <1>4, <2>2 DEF ValuesRead, MaybeProfile, at
      <4>3. QED
        BY <3>1, <3>2, <3>3, <4>1, <4>2, <1>2, AfterReadGood
    <3>5. CallsGood'
      BY <3>1, <3>4, StepGood DEF TypeInv
    <3>6. QED
      BY <1>1, <1>2, <1>5, <3>5 DEF TypeInv, DataTyped, Look, outside
  <2>3. QED
    BY <2>1, <2>2
<1>6. CASE ReadDefault(c)
  <2> DEFINE j == [job[c] EXCEPT !.at = "providers", !.half = db.profiles[p].default]
  <2>1. Step(c, j) /\ at(c) = "default"
    BY <1>6 DEF ReadDefault
  <2>2. db.profiles[p].default \in Defaults
    BY <1>4 DEF Defaults
  <2>3. /\ j \in Jobs /\ j.at = "providers" /\ j.goal = job[c].goal /\ j.todo = job[c].todo
        /\ j.prefs = job[c].prefs /\ j.new = job[c].new /\ j.got = job[c].got
        /\ j.half \in Defaults
    BY <1>2, <2>2 DEF Jobs, Steps
  <2>4. Good(j)
    <3> HIDE DEF j
    <3>1. QED
      BY <2>1, <2>3, <1>2 DEF Good, GoalFits, ValuesRead, at
  <2>5. CallsGood'
    BY <2>1, <2>4, StepGood DEF TypeInv
  <2>6. QED
    BY <1>1, <1>2, <1>6, <2>5 DEF TypeInv, DataTyped, ReadDefault, outside
<1>7. CASE ReadProviders(c)
  <2> DEFINE v == [default |-> job[c].half, providers |-> db.profiles[p].providers]
             j == [job[c] EXCEPT !.at = "keep", !.got[p] = v]
  <2>1. Step(c, j) /\ at(c) = "providers"
    BY <1>7 DEF ReadProviders
  <2>2. v \in Profiles
    BY <2>1, <1>2, <1>4, ProfileParts DEF ValuesRead, at
  <2> HIDE DEF v
  <2>3. /\ j \in Jobs /\ j.at = "keep" /\ j.goal = job[c].goal /\ j.todo = job[c].todo
        /\ j.prefs = job[c].prefs /\ j.new = job[c].new
        /\ \A q \in Platforms : j.got[q] = IF q = p THEN v ELSE job[c].got[q]
    BY <1>2, <2>2 DEF Jobs, Steps, MaybeProfile
  <2>4. Good(j)
    <3> HIDE DEF j
    <3>1. QED
      BY <2>1, <2>2, <2>3, <1>2 DEF Good, GoalFits, ValuesRead, at, Platform
  <2>5. CallsGood'
    BY <2>1, <2>4, StepGood DEF TypeInv
  <2>6. QED
    BY <1>1, <1>2, <1>7, <2>5 DEF TypeInv, DataTyped, ReadProviders, outside
<1>8. CASE Keep(c)
  <2>1. Step(c, AfterRead(job[c])) /\ at(c) = "keep" /\ cache' = [cache EXCEPT ![p] = job[c].got[p]]
    BY <1>8 DEF Keep
  <2>2. job[c].got[p] \in Profiles
    BY <2>1, <1>2 DEF ValuesRead, at, Platform
  <2>3. Good(AfterRead(job[c]))
    BY <2>1, <2>2, <1>2, AfterReadGood DEF ValuesRead, at, Platform
  <2>4. CallsGood'
    BY <2>1, <2>3, StepGood DEF TypeInv
  <2>5. cache' \in [Platforms -> MaybeProfile]
    BY <2>1, <2>2, <1>2 DEF TypeInv, DataTyped, MaybeProfile
  <2>6. QED
    BY <1>1, <1>2, <2>4, <2>5 DEF TypeInv, DataTyped, outside
<1>9. QED
  BY <1>5, <1>6, <1>7, <1>8

\* The parts of a profile that is about to be read back after its commit.
LEMMA ReadBackGood ==
    ASSUME NEW p \in Platforms, NEW clean \in BOOLEAN
    PROVE  Good([Idle EXCEPT !.goal = "saved", !.at = "default", !.todo = <<p>>, !.clean = clean])
<1> DEFINE j == [Idle EXCEPT !.goal = "saved", !.at = "default", !.todo = <<p>>, !.clean = clean]
<1>1. <<p>> \in Seq(Platforms) /\ <<p>> # <<>> /\ Tail(<<p>>) = <<>>
  OBVIOUS
<1>2. j \in Jobs /\ j.goal = "saved" /\ j.at = "default" /\ j.todo = <<p>>
  BY <1>1, IdleGood DEF Jobs, Goals, Steps
<1> HIDE DEF j
<1>3. Good(j)
  BY <1>1, <1>2 DEF Good, GoalFits, ValuesRead, ReadSteps, ReadsOne, ReadsAll
<1>4. QED
  BY <1>3 DEF j

LEMMA FailTypes == ASSUME TypeInv, NEW c \in Callers, Fails(c) PROVE TypeInv'
<1>1. at(c) # "idle" /\ UNCHANGED <<db, cache, relay, jobs, outside>>
  BY DEF Fails
<1>2. Debts(c) \subseteq Platforms \union {"prefs"}
  BY DEF Debts
<1>3. CallsGood'
  BY StepGood, IdleGood DEF Fails, TypeInv
<1>4. DataTyped'
  BY <1>1, <1>2 DEF Fails, TypeInv, DataTyped, outside
<1>5. QED
  BY <1>1, <1>3, <1>4, RunningCall DEF TypeInv, outside

LEMMA CommitProfileTypes == ASSUME TypeInv, NEW c \in Callers, CommitProfile(c) PROVE TypeInv'
<1> DEFINE p == Platform(c)
<1>1. at(c) = "commit" /\ UNCHANGED <<cache, relay, jobs, outside>>
  BY DEF CommitProfile
<1>2. /\ job[c] \in Jobs /\ GoalFits(job[c]) /\ p \in Platforms /\ BootGood' /\ job[c].clean \in BOOLEAN
  BY <1>1, RunningCall DEF Reading, Jobs, outside
<1>3. job[c].new[p] \in Profiles
  BY <1>1, <1>2 DEF GoalFits, at, Platform
<1>4. CASE Step(c, Idle) /\ UNCHANGED <<db, slipped>>
  <2>1. CallsGood'
    BY <1>4, StepGood, IdleGood DEF TypeInv
  <2>2. QED
    BY <1>1, <1>2, <1>4, <2>1 DEF TypeInv, DataTyped, outside
<1>5. CASE /\ db' = [db EXCEPT !.profiles[p] = job[c].new[p]]
           /\ CommitStep(c, [Idle EXCEPT !.goal = "saved", !.at = "default",
                                         !.todo = <<p>>, !.clean = job[c].clean])
           /\ Slips(c, {p})
  <2>1. CallsGood'
    BY <1>2, <1>5, CommitGood, ReadBackGood DEF TypeInv
  <2>2. db' \in [prefs : Preferences, profiles : [Platforms -> Profiles], imported : BOOLEAN]
    BY <1>3, <1>5 DEF TypeInv, DataTyped
  <2>3. slipped' \subseteq Platforms \union {"prefs"}
    BY <1>5, SlipsTyped DEF TypeInv
  <2>4. QED
    BY <1>1, <1>2, <2>1, <2>2, <2>3 DEF TypeInv, DataTyped, outside
<1>6. QED
  BY <1>4, <1>5 DEF CommitProfile

LEMMA PrefsTypes ==
    ASSUME TypeInv, NEW c \in Callers,
           SavePrefs(c) \/ RereadPrefs(c) \/ Notify(c) \/ ReadPrefs(c)
    PROVE  TypeInv'
<1> USE DEF ReadSteps, ReadsOne, ReadsAll
<1>1. at(c) # "idle" /\ UNCHANGED <<cache, jobs, outside>>
  BY DEF SavePrefs, RereadPrefs, Notify, ReadPrefs
<1>2. job[c] \in Jobs /\ GoalFits(job[c]) /\ ValuesRead(job[c]) /\ BootGood' /\ db.prefs \in Preferences
  BY <1>1, RunningCall DEF outside, TypeInv, DataTyped
<1>3. CASE SavePrefs(c)
  <2> DEFINE j == [job[c] EXCEPT !.at = "reread"]
  <2>1. /\ CommitStep(c, j) /\ Slips(c, {"prefs"}) /\ at(c) = "savePrefs" /\ UNCHANGED relay
        /\ db' = [db EXCEPT !.prefs = job[c].prefs]
    BY <1>3 DEF SavePrefs
  <2>2. j \in Jobs /\ j.at = "reread" /\ j.goal = job[c].goal
    BY <1>2 DEF Jobs, Steps
  <2>3. Good(j)
    <3> HIDE DEF j
    <3>1. QED
      BY <2>1, <2>2, <1>2 DEF Good, GoalFits, ValuesRead, at, Reading
  <2>4. CallsGood'
    BY <2>1, <2>3, CommitGood DEF TypeInv
  <2>5. job[c].prefs \in Preferences
    BY <2>1, <1>2 DEF ValuesRead, at
  <2>6. db' \in [prefs : Preferences, profiles : [Platforms -> Profiles], imported : BOOLEAN]
    BY <2>1, <2>5 DEF TypeInv, DataTyped
  <2>7. slipped' \subseteq Platforms \union {"prefs"}
    BY <2>1, SlipsTyped DEF TypeInv
  <2>8. QED
    BY <1>1, <1>2, <2>1, <2>4, <2>6, <2>7 DEF TypeInv, DataTyped, outside
<1>4. CASE RereadPrefs(c)
  <2> DEFINE j == [job[c] EXCEPT !.at = "notify", !.prefs = db.prefs]
  <2>1. Step(c, j) /\ at(c) = "reread" /\ UNCHANGED <<db, relay, slipped>>
    BY <1>4 DEF RereadPrefs
  <2>2. j \in Jobs /\ j.at = "notify" /\ j.goal = job[c].goal /\ j.prefs = db.prefs
    BY <1>2 DEF Jobs, Steps
  <2>3. Good(j)
    <3> HIDE DEF j
    <3>1. QED
      BY <2>1, <2>2, <1>2 DEF Good, GoalFits, ValuesRead, at, Reading
  <2>4. CallsGood'
    BY <2>1, <2>3, StepGood DEF TypeInv
  <2>5. QED
    BY <1>1, <1>2, <2>1, <2>4 DEF TypeInv, DataTyped, outside
<1>5. CASE Notify(c)
  <2>1. Step(c, Idle) /\ at(c) = "notify" /\ relay' = job[c].prefs /\ UNCHANGED <<db, slipped>>
    BY <1>5 DEF Notify
  <2>2. CallsGood'
    BY <2>1, StepGood, IdleGood DEF TypeInv
  <2>3. relay' \in Preferences
    BY <2>1, <1>2 DEF ValuesRead, at
  <2>4. QED
    BY <1>1, <1>2, <2>1, <2>2, <2>3 DEF TypeInv, DataTyped, outside
<1>6. CASE ReadPrefs(c)
  <2> DEFINE j == [job[c] EXCEPT !.at = "look", !.prefs = db.prefs]
  <2>1. Step(c, j) /\ at(c) = "readPrefs" /\ UNCHANGED <<db, relay, slipped>>
    BY <1>6 DEF ReadPrefs
  <2>2. j \in Jobs /\ j.at = "look" /\ j.goal = job[c].goal /\ j.prefs = db.prefs /\ j.todo = job[c].todo
    BY <1>2 DEF Jobs, Steps
  <2>3. Good(j)
    <3> HIDE DEF j
    <3>1. QED
      BY <2>1, <2>2, <1>2, OrderParts DEF Good, GoalFits, ValuesRead, at
  <2>4. CallsGood'
    BY <2>1, <2>3, StepGood DEF TypeInv
  <2>5. QED
    BY <1>1, <1>2, <2>1, <2>4 DEF TypeInv, DataTyped, outside
<1>7. QED
  BY <1>3, <1>4, <1>5, <1>6

\* What a call of all platforms has read is a snapshot.
LEMMA SnapshotTyped ==
    ASSUME NEW c \in Callers, job[c] \in Jobs, job[c].prefs \in Preferences, AllProfiles(job[c].got)
    PROVE  Snapshot(c) \in Snapshots
<1>1. job[c].got \in [Platforms -> Profiles]
  BY DEF Jobs, AllProfiles
<1>2. QED
  BY <1>1 DEF Snapshot, Snapshots

LEMMA SyncTypes ==
    ASSUME TypeInv, NEW c \in Callers, Upload(c) \/ WriteRollback(c) \/ Pull(c)
    PROVE  TypeInv'
<1> USE DEF ReadSteps, ReadsOne, ReadsAll
<1>1. /\ at(c) # "idle"
      /\ UNCHANGED <<db, cache, relay, slipped, jobs, legacy, boot, restarts, loaded>>
  BY DEF Upload, WriteRollback, Pull, outside
<1>2. job[c] \in Jobs /\ GoalFits(job[c]) /\ ValuesRead(job[c]) /\ BootGood'
  BY <1>1, RunningCall
<1>3. CASE Upload(c)
  <2>1. at(c) = "upload" /\ Step(c, Idle) /\ remote' \in {Snapshot(c), remote} /\ UNCHANGED rollback
    BY <1>3 DEF Upload
  <2>2. Snapshot(c) \in Snapshots
    BY <2>1, <1>2, SnapshotTyped DEF ValuesRead, at
  <2>3. CallsGood'
    BY <2>1, StepGood, IdleGood DEF TypeInv
  <2>4. QED
    BY <1>1, <1>2, <2>1, <2>2, <2>3 DEF TypeInv, DataTyped
<1>4. CASE WriteRollback(c)
  <2> DEFINE j == [job[c] EXCEPT !.at = "pull"]
  <2>1. at(c) = "rollback" /\ Step(c, j) /\ rollback' = Snapshot(c) /\ UNCHANGED remote
    BY <1>4 DEF WriteRollback
  <2>2. Snapshot(c) \in Snapshots
    BY <2>1, <1>2, SnapshotTyped DEF ValuesRead, at
  <2>3. j \in Jobs /\ j.at = "pull" /\ j.goal = job[c].goal
    BY <1>2 DEF Jobs, Steps
  <2>4. Good(j)
    <3> HIDE DEF j
    <3>1. QED
      BY <2>1, <2>3, <1>2 DEF Good, GoalFits, ValuesRead, at, Reading
  <2>5. CallsGood'
    BY <2>1, <2>4, StepGood DEF TypeInv
  <2>6. QED
    BY <1>1, <1>2, <2>1, <2>2, <2>5 DEF TypeInv, DataTyped
<1>5. CASE Pull(c)
  <2> DEFINE j == [job[c] EXCEPT !.at = "replace", !.prefs = remote.prefs, !.new = remote.profiles]
  <2>1. at(c) = "pull" /\ Step(c, j) /\ remote # None /\ UNCHANGED <<remote, rollback>>
    BY <1>5 DEF Pull, outside
  <2>2. remote.prefs \in Preferences /\ remote.profiles \in [Platforms -> Profiles]
    BY <2>1 DEF TypeInv, DataTyped, Snapshots
  <2>3. remote.profiles \in [Platforms -> MaybeProfile] /\ AllProfiles(remote.profiles)
    BY <2>2 DEF MaybeProfile, AllProfiles
  <2>4. /\ j \in Jobs /\ j.at = "replace" /\ j.goal = job[c].goal
        /\ j.prefs \in Preferences /\ AllProfiles(j.new)
    BY <1>2, <2>2, <2>3 DEF Jobs, Steps
  <2>5. Good(j)
    <3> HIDE DEF j
    <3>1. QED
      BY <2>1, <2>4, <1>2 DEF Good, GoalFits, ValuesRead, at, Reading
  <2>6. CallsGood'
    BY <2>1, <2>5, StepGood DEF TypeInv
  <2>7. QED
    BY <1>1, <1>2, <2>1, <2>6 DEF TypeInv, DataTyped
<1>6. QED
  BY <1>3, <1>4, <1>5

LEMMA RestoreTypes ==
    ASSUME TypeInv, NEW c \in Callers, ApplySnapshot(c) \/ Publish(c)
    PROVE  TypeInv'
<1> DEFINE new == job[c].new
<1> USE DEF ReadSteps, ReadsOne, ReadsAll
<1>1. at(c) \in {"replace", "publish"} /\ UNCHANGED <<relay, jobs, outside>>
  BY DEF ApplySnapshot, Publish
<1>2. job[c] \in Jobs /\ GoalFits(job[c]) /\ ValuesRead(job[c]) /\ BootGood'
  BY <1>1, RunningCall DEF outside
<1>3. new \in [Platforms -> Profiles] /\ job[c].prefs \in Preferences /\ AllProfiles(new)
  BY <1>1, <1>2 DEF ValuesRead, AllProfiles, Jobs, at
<1>4. CASE ApplySnapshot(c)
  <2>1. at(c) = "replace" /\ UNCHANGED cache
    BY <1>4 DEF ApplySnapshot
  <2>2. CASE Step(c, Idle) /\ UNCHANGED <<db, slipped>>
    <3>1. CallsGood'
      BY <2>2, StepGood, IdleGood DEF TypeInv
    <3>2. QED
      BY <1>1, <1>2, <2>1, <2>2, <3>1 DEF TypeInv, DataTyped, outside
  <2>3. CASE /\ db' = [db EXCEPT !.prefs = job[c].prefs, !.profiles = new]
             /\ CommitStep(c, [job[c] EXCEPT !.at = "publish", !.todo = PlatformOrder])
             /\ Slips(c, Platforms \union {"prefs"})
    <3> DEFINE j == [job[c] EXCEPT !.at = "publish", !.todo = PlatformOrder]
    <3>1. /\ j \in Jobs /\ j.at = "publish" /\ j.goal = job[c].goal /\ j.todo = PlatformOrder
          /\ j.prefs = job[c].prefs /\ j.new = new
      BY <1>2, OrderParts DEF Jobs, Steps
    <3>2. Good(j)
      <4> HIDE DEF j
      <4>1. QED
        BY <2>1, <3>1, <1>2, <1>3, OrderParts DEF Good, GoalFits, ValuesRead, at
    <3>3. CallsGood'
      BY <2>3, <3>2, CommitGood DEF TypeInv
    <3>4. db' \in [prefs : Preferences, profiles : [Platforms -> Profiles], imported : BOOLEAN]
      BY <2>3, <1>3 DEF TypeInv, DataTyped
    <3>5. slipped' \subseteq Platforms \union {"prefs"}
      BY <2>3, SlipsTyped DEF TypeInv
    <3>6. QED
      BY <1>1, <1>2, <2>1, <3>3, <3>4, <3>5 DEF TypeInv, DataTyped, outside
  <2>4. QED
    BY <1>4, <2>2, <2>3 DEF ApplySnapshot
<1>5. CASE Publish(c)
  <2> DEFINE p == Platform(c)
  <2>1. at(c) = "publish" /\ cache' = [cache EXCEPT ![p] = new[p]] /\ UNCHANGED <<db, slipped>>
    BY <1>5 DEF Publish
  <2>2. job[c].todo \in Seq(Platforms) /\ job[c].todo # <<>> /\ p \in Platforms
    BY <2>1, RunningCall DEF Reading, Jobs
  <2>3. PICK j : /\ Step(c, j)
                 /\ j = IF Tail(job[c].todo) # <<>> THEN [job[c] EXCEPT !.todo = Tail(@)]
                        ELSE [job[c] EXCEPT !.todo = <<>>, !.at = "notify"]
    BY <1>5 DEF Publish
  <2>4. Tail(job[c].todo) \in Seq(Platforms) /\ <<>> \in Seq(Platforms)
    BY <2>2, SeqParts
  <2>5. /\ j \in Jobs /\ j.goal = job[c].goal /\ j.prefs = job[c].prefs /\ j.new = new
        /\ \/ j.at = "publish" /\ j.todo # <<>>
           \/ j.at = "notify"
    BY <2>1, <2>3, <2>4, <1>2 DEF Jobs, Steps, at
  <2>6. Good(j)
    BY <2>1, <2>5, <1>2, <1>3 DEF Good, GoalFits, ValuesRead, at, Reading
  <2>7. CallsGood'
    BY <2>3, <2>6, StepGood DEF TypeInv
  <2>8. cache' \in [Platforms -> MaybeProfile]
    BY <2>1, <2>2, <1>3 DEF TypeInv, DataTyped, MaybeProfile
  <2>9. QED
    BY <1>1, <1>2, <2>1, <2>7, <2>8 DEF TypeInv, DataTyped, outside
<1>6. QED
  BY <1>4, <1>5

-----------------------------------------------------------------------------
(* Types: the start.                                                       *)

LEMMA BootMoves ==
    ASSUME DataTyped, boot.todo # <<>>
    PROVE  /\ \A step \in BootSteps : BootTo(step) =>
                 boot' \in [at : BootSteps, todo : Seq(Platforms)] /\ boot'.todo # <<>> /\ boot'.at = step
           /\ \A then \in BootSteps : NextPlatform(then) =>
                 /\ boot' \in [at : BootSteps, todo : Seq(Platforms)] /\ boot'.todo # <<>>
                 /\ \/ boot'.at = boot.at /\ boot'.todo = Tail(boot.todo)
                    \/ boot'.at = then /\ Tail(boot.todo) = <<>>
<1>1. Tail(boot.todo) \in Seq(Platforms)
  BY SeqParts DEF DataTyped
<1>2. ASSUME NEW step \in BootSteps, BootTo(step)
      PROVE  boot' \in [at : BootSteps, todo : Seq(Platforms)] /\ boot'.todo # <<>> /\ boot'.at = step
  BY <1>2, OrderParts DEF BootTo
<1>3. ASSUME NEW then \in BootSteps, NextPlatform(then)
      PROVE  /\ boot' \in [at : BootSteps, todo : Seq(Platforms)] /\ boot'.todo # <<>>
             /\ \/ boot'.at = boot.at /\ boot'.todo = Tail(boot.todo)
                \/ boot'.at = then /\ Tail(boot.todo) = <<>>
  BY <1>1, <1>2, <1>3 DEF NextPlatform, DataTyped
<1>4. QED
  BY <1>2, <1>3

LEMMA StartTypes == ASSUME TypeInv, Start \/ Restart \/ OtherDevice PROVE TypeInv'
<1> USE DEF BootSteps
<1>1. /\ DataTyped /\ CallsGood /\ BootGood /\ boot.todo # <<>>
      /\ boot.todo \in Seq(Platforms) /\ Head(boot.todo) \in Platforms
  BY SeqParts DEF TypeInv, BootGood, DataTyped
<1>2. ASSUME ~Up, UNCHANGED job, boot'.todo # <<>>,
             boot'.at \notin {"warm", "up"} => cache' = NoCache
      PROVE  BootGood'
  BY <1>1, <1>2 DEF BootGood, at
<1>3. UNCHANGED job => CallsGood'
  BY <1>1 DEF CallsGood, Good
<1>4. CASE BootCheck
  <2>1. boot.at = "check" /\ UNCHANGED <<db, cache, relay, slipped, loaded, inMemory>>
        /\ \E step \in {"proxy", "prefs"} : BootTo(step)
    BY <1>4 DEF BootCheck
  <2>2. QED
    BY <1>1, <1>2, <1>3, <2>1, BootMoves DEF TypeInv, DataTyped, BootGood, inMemory, Up
<1>5. CASE ImportPrefs
  <2>1. boot.at = "prefs" /\ UNCHANGED <<cache, relay, slipped, loaded, inMemory>> /\ BootTo("profiles")
        /\ db' = [db EXCEPT !.prefs = Off]
    BY <1>5 DEF ImportPrefs
  <2>2. db' \in [prefs : Preferences, profiles : [Platforms -> Profiles], imported : BOOLEAN]
    BY <1>1, <2>1, RoutingConstants DEF DataTyped
  <2>3. QED
    BY <1>1, <1>2, <1>3, <2>1, <2>2, BootMoves DEF TypeInv, DataTyped, BootGood, inMemory, Up
<1>6. CASE ImportProfile
  <2> DEFINE p == Head(boot.todo)
  <2>1. boot.at = "profiles" /\ UNCHANGED <<cache, relay, slipped, inMemory>> /\ NextPlatform("mark")
        /\ legacy[p] # Broken
    BY <1>6 DEF ImportProfile
  <2>2. CASE UNCHANGED <<db, loaded>>
    BY <1>1, <1>2, <1>3, <2>1, <2>2, BootMoves DEF TypeInv, DataTyped, BootGood, inMemory, Up
  <2>3. CASE legacy[p] # Missing
    <3>1. db' = [db EXCEPT !.profiles[p] = Normalize(legacy[p])] /\ loaded' = loaded \union {p}
      BY <1>6, <2>3 DEF ImportProfile
    <3>2. Normalize(legacy[p]) \in Profiles
      BY <1>1, <2>1, <2>3, RoutingConstants DEF DataTyped, Profiles, Stored, Submitted
    <3>3. db' \in [prefs : Preferences, profiles : [Platforms -> Profiles], imported : BOOLEAN]
      BY <1>1, <3>1, <3>2 DEF DataTyped
    <3>4. QED
      BY <1>1, <1>2, <1>3, <2>1, <3>1, <3>3, BootMoves DEF TypeInv, DataTyped, BootGood, inMemory, Up
  <2>4. QED
    BY <1>6, <2>2, <2>3 DEF ImportProfile
<1>7. CASE MarkImported
  <2>1. boot.at = "mark" /\ UNCHANGED <<cache, relay, slipped, loaded, inMemory>> /\ BootTo("proxy")
        /\ db' = [db EXCEPT !.imported = TRUE]
    BY <1>7 DEF MarkImported
  <2>2. db' \in [prefs : Preferences, profiles : [Platforms -> Profiles], imported : BOOLEAN]
    BY <1>1, <2>1 DEF DataTyped
  <2>3. QED
    BY <1>1, <1>2, <1>3, <2>1, <2>2, BootMoves DEF TypeInv, DataTyped, BootGood, inMemory, Up
<1>8. CASE ImportFails
  <2>1. boot.at \notin {"warm", "up"} /\ UNCHANGED <<db, cache, relay, slipped, loaded, inMemory>> /\ BootTo("proxy")
    BY <1>8 DEF ImportFails
  <2>2. QED
    BY <1>1, <1>2, <1>3, <2>1, BootMoves DEF TypeInv, DataTyped, BootGood, inMemory, Up
<1>9. CASE InitProxy
  <2>1. boot.at = "proxy" /\ UNCHANGED <<db, cache, loaded, inMemory>> /\ BootTo("warm")
        /\ relay' \in Preferences /\ slipped' \subseteq slipped \union {"prefs"}
    BY <1>1, <1>9, RoutingConstants DEF InitProxy, DataTyped
  <2>2. QED
    BY <1>1, <1>2, <1>3, <2>1, BootMoves DEF TypeInv, DataTyped, BootGood, inMemory, Up
<1>10. CASE Warm
  <2>1. boot.at = "warm" /\ UNCHANGED <<db, relay, slipped, loaded, inMemory>> /\ NextPlatform("up")
        /\ cache' \in [Platforms -> MaybeProfile]
    BY <1>1, <1>10 DEF Warm, DataTyped, MaybeProfile
  <2>2. QED
    BY <1>1, <1>2, <1>3, <2>1, BootMoves DEF TypeInv, DataTyped, BootGood, inMemory, Up
<1>11. CASE Restart
  <2>1. /\ BootTo("check") /\ cache' = NoCache /\ relay' = Off /\ job' = [c \in Callers |-> Idle]
        /\ slipped' = {} /\ UNCHANGED <<db, remote, rollback, legacy, jobs, loaded>>
    BY <1>11 DEF Restart
  <2>2. restarts' \in 0..MaxRestarts
    BY <1>1, <1>11, RoutingConstants DEF Restart, DataTyped
  <2>3. CallsGood'
    BY <2>1, IdleGood DEF CallsGood
  <2>4. NoCache \in [Platforms -> MaybeProfile] /\ Off \in Preferences
    BY RoutingConstants DEF NoCache, MaybeProfile
  <2>5. BootGood'
    BY <1>1, <2>1, IdleGood, BootMoves DEF BootGood, at
  <2>6. QED
    BY <1>1, <2>1, <2>2, <2>3, <2>4, <2>5, BootMoves DEF TypeInv, DataTyped
<1>12. CASE OtherDevice
  <2>1. Up /\ remote' \in Uploads
        /\ UNCHANGED <<db, cache, relay, rollback, legacy, boot, job, jobs, restarts, slipped, loaded>>
    BY <1>12 DEF OtherDevice
  <2>2. remote' \in Snapshots
    BY <2>1, RoutingConstants DEF Snapshots, Valid, Profiles, Stored
  <2>3. BootGood'
    BY <1>1, <2>1, UpGood
  <2>4. QED
    BY <1>1, <1>3, <2>1, <2>2, <2>3 DEF TypeInv, DataTyped
<1>13. QED
  BY <1>4, <1>5, <1>6, <1>7, <1>8, <1>9, <1>10, <1>11, <1>12 DEF Start

LEMMA InitTypes == Init => TypeInv
<1> SUFFICES ASSUME Init PROVE TypeInv
  OBVIOUS
<1>1. CallsGood
  BY IdleGood DEF Init, CallsGood
<1>2. db \in [prefs : Preferences, profiles : [Platforms -> Profiles], imported : BOOLEAN]
  BY ProfileParts, RoutingConstants DEF Init
<1>3. cache \in [Platforms -> MaybeProfile]
  BY DEF Init, NoCache, MaybeProfile
<1>4. DataTyped
  BY <1>2, <1>3, OrderParts, RoutingConstants DEF Init, DataTyped, BootSteps
<1>5. BootGood
  BY OrderParts, IdleGood DEF Init, BootGood, at
<1>6. QED
  BY <1>1, <1>4, <1>5 DEF TypeInv

LEMMA NextTypes == TypeInv /\ [Next]_vars => TypeInv'
<1> SUFFICES ASSUME TypeInv, [Next]_vars PROVE TypeInv'
  OBVIOUS
<1>1. ASSUME NEW c \in Callers, Call(c) PROVE TypeInv'
  BY <1>1, BeginTypes, ReadTypes, CommitProfileTypes, PrefsTypes, SyncTypes, RestoreTypes, FailTypes DEF Call
<1>2. CASE Start \/ Restart \/ OtherDevice
  BY <1>2, StartTypes
<1>3. CASE UNCHANGED vars
  BY <1>3 DEF vars, TypeInv, DataTyped, CallsGood, Good, BootGood, Up, at
<1>4. QED
  BY <1>1, <1>2, <1>3 DEF Next

\* Every variable keeps its type, and a call that reads profiles has one to
\* go on with.
THEOREM TypeCorrect == Spec => []TypeOK
<1>1. Spec => []TypeInv
  BY InitTypes, NextTypes, PTL DEF Spec
<1>2. QED
  BY <1>1, TypeInvTypes, PTL

-----------------------------------------------------------------------------
(* Agreement.  What a call holds and will put into the cache, or tell the   *)
(* relay, is what is stored, unless a commit has slipped in between; and     *)
(* whoever commits something owes it until the cache, or the relay, has it.  *)

HeldFits(j, d, s) ==
    /\ j.at = "providers" =>
           j.half = d.profiles[Head(j.todo)].default \/ Head(j.todo) \in s
    /\ j.at = "keep" =>
           j.got[Head(j.todo)] = d.profiles[Head(j.todo)] \/ Head(j.todo) \in s
    /\ j.at = "publish" =>
           \A p \in Range(j.todo) : j.new[p] = d.profiles[p] \/ p \in s
    /\ j.at \in {"publish", "notify"} => j.prefs = d.prefs \/ "prefs" \in s

OwedBy(j, p) == (j.goal = "saved" /\ Head(j.todo) = p) \/ (j.at = "publish" /\ p \in Range(j.todo))
PrefsOwedBy(j) == j.at \in {"reread", "publish", "notify"}

HeldAgrees == \A c \in Callers : HeldFits(job[c], db, slipped)
CacheAgrees ==
    \A p \in Platforms :
        cache[p] \in {None, db.profiles[p]} \/ p \in slipped \/ \E c \in Callers : OwedBy(job[c], p)
RelayAgrees ==
    boot.at \in {"warm", "up"} =>
        relay = db.prefs \/ "prefs" \in slipped \/ \E c \in Callers : PrefsOwedBy(job[c])

AgreeInv == HeldAgrees /\ CacheAgrees /\ RelayAgrees

LEMMA AgreeInvAgrees == AgreeInv => Agreement
  BY DEF AgreeInv, CacheAgrees, RelayAgrees, Agreement, Owes, OwesPrefs, OwedBy, PrefsOwedBy, Up, at

\* A step that commits nothing.
LEMMA QuietStep ==
    ASSUME TypeInv, AgreeInv, NEW c \in Callers, NEW j, Step(c, j),
           UNCHANGED <<db, boot>>, slipped \subseteq slipped', HeldFits(j, db', slipped'),
           \A p \in Platforms : cache'[p] = cache[p] \/ cache'[p] = db.profiles[p] \/ p \in slipped',
           \A p \in Platforms : OwedBy(job[c], p) =>
               OwedBy(j, p) \/ p \in slipped' \/ cache'[p] = db.profiles[p],
           relay' = relay \/ relay' = db.prefs \/ "prefs" \in slipped',
           PrefsOwedBy(job[c]) => PrefsOwedBy(j) \/ "prefs" \in slipped' \/ relay' = db.prefs
    PROVE  AgreeInv'
<1>1. job \in [Callers -> Jobs] /\ job' = [job EXCEPT ![c] = j]
  BY DEF TypeInv, CallsGood, Step
<1>2. job'[c] = j /\ \A d \in Callers \ {c} : job'[d] = job[d]
  BY <1>1
<1>3. HeldAgrees'
  <2>1. ASSUME NEW d \in Callers \ {c} PROVE HeldFits(job'[d], db', slipped')
    BY <1>2 DEF AgreeInv, HeldAgrees, HeldFits
  <2>2. HeldFits(job'[c], db', slipped')
    BY <1>2 DEF HeldFits
  <2>3. QED
    BY <2>1, <2>2 DEF HeldAgrees
<1>4. CacheAgrees'
  <2>1. SUFFICES ASSUME NEW p \in Platforms, p \notin slipped', cache'[p] \notin {None, db.profiles[p]}
                 PROVE  \E d \in Callers : OwedBy(job'[d], p)
    BY DEF CacheAgrees, OwedBy
  <2>2. PICK d \in Callers : OwedBy(job[d], p)
    BY <2>1 DEF AgreeInv, CacheAgrees
  <2>3. QED
    BY <1>2, <2>1, <2>2
<1>5. RelayAgrees'
  <2>1. SUFFICES ASSUME boot.at \in {"warm", "up"}, relay' # db.prefs, "prefs" \notin slipped'
                 PROVE  \E d \in Callers : PrefsOwedBy(job'[d])
    BY DEF RelayAgrees, PrefsOwedBy
  <2>2. PICK d \in Callers : PrefsOwedBy(job[d])
    BY <2>1 DEF AgreeInv, RelayAgrees
  <2>3. QED
    BY <1>2, <2>1, <2>2
<1>6. QED
  BY <1>3, <1>4, <1>5 DEF AgreeInv

\* A commit of some values: what the others hold of them has slipped, and the
\* committer owes them.
LEMMA CommittingStep ==
    ASSUME TypeInv, AgreeInv, NEW c \in Callers, NEW j, CommitStep(c, j),
           NEW values, Slips(c, values), UNCHANGED <<cache, relay, boot>>, HeldFits(j, db', slipped'),
           \A p \in Platforms : p \in values \/ db'.profiles[p] = db.profiles[p],
           "prefs" \in values \/ db'.prefs = db.prefs,
           \A p \in Platforms : p \in values \/ OwedBy(job[c], p) => OwedBy(j, p),
           "prefs" \in values \/ PrefsOwedBy(job[c]) => PrefsOwedBy(j)
    PROVE  AgreeInv'
<1>1. job \in [Callers -> Jobs] /\ slipped \subseteq slipped'
  BY DEF TypeInv, CallsGood, Slips
<1>2. job'[c] = j /\ \A d \in Callers \ {c} : job'[d] = [job[d] EXCEPT !.clean = FALSE]
  BY <1>1 DEF CommitStep
<1>3. ASSUME NEW d \in Callers \ {c}
      PROVE  /\ job'[d].goal = job[d].goal /\ job'[d].at = job[d].at /\ job'[d].todo = job[d].todo
             /\ job'[d].half = job[d].half /\ job'[d].got = job[d].got /\ job'[d].new = job[d].new
             /\ job'[d].prefs = job[d].prefs
  BY <1>1, <1>2 DEF Jobs
<1>4. HeldAgrees'
  <2>1. ASSUME NEW d \in Callers \ {c} PROVE HeldFits(job'[d], db', slipped')
    <3>1. HeldFits(job[d], db, slipped) /\ Good(job[d]) /\ job[d].todo \in Seq(Platforms)
      BY DEF AgreeInv, HeldAgrees, TypeInv, CallsGood, Good, Jobs
    <3>2. \A p \in Platforms : Holds(d, p) /\ p \in values => p \in slipped'
      BY DEF Slips
    <3>3. HoldsPrefs(d) /\ "prefs" \in values => "prefs" \in slipped'
      BY DEF Slips
    <3>4. job[d].at \in {"providers", "keep"} =>
              Head(job[d].todo) \in Platforms /\ Holds(d, Head(job[d].todo))
      BY <3>1, SeqParts DEF Good, Reading, Holds
    <3>5. job[d].at = "publish" => \A p \in Range(job[d].todo) : p \in Platforms /\ Holds(d, p)
      <4>1. \A p \in Range(job[d].todo) : p \in Platforms
        BY <3>1 DEF Range
      <4>2. QED
        BY <4>1 DEF Holds
    <3>6. job[d].at \in {"publish", "notify"} => HoldsPrefs(d)
      BY DEF HoldsPrefs
    <3>7. /\ job[d].at = "providers" =>
               job[d].half = db'.profiles[Head(job[d].todo)].default \/ Head(job[d].todo) \in slipped'
          /\ job[d].at = "keep" =>
               job[d].got[Head(job[d].todo)] = db'.profiles[Head(job[d].todo)] \/ Head(job[d].todo) \in slipped'
      BY <1>1, <3>1, <3>2, <3>4 DEF HeldFits
    <3>8. job[d].at = "publish" =>
               \A p \in Range(job[d].todo) : job[d].new[p] = db'.profiles[p] \/ p \in slipped'
      BY <1>1, <3>1, <3>2, <3>5 DEF HeldFits
    <3>9. job[d].at \in {"publish", "notify"} => job[d].prefs = db'.prefs \/ "prefs" \in slipped'
      BY <1>1, <3>1, <3>3, <3>6 DEF HeldFits
    <3>10. QED
      BY <1>3, <3>7, <3>8, <3>9 DEF HeldFits
  <2>2. HeldFits(job'[c], db', slipped')
    BY <1>2 DEF HeldFits
  <2>3. QED
    BY <2>1, <2>2 DEF HeldAgrees
<1>5. ASSUME NEW d \in Callers, NEW p \in Platforms, OwedBy(job[d], p) PROVE OwedBy(job'[d], p)
  BY <1>2, <1>3, <1>5 DEF OwedBy
<1>6. ASSUME NEW d \in Callers, PrefsOwedBy(job[d]) PROVE PrefsOwedBy(job'[d])
  BY <1>2, <1>3, <1>6 DEF PrefsOwedBy
<1>7. CacheAgrees'
  <2>1. ASSUME NEW p \in Platforms
        PROVE  \/ cache[p] \in {None, db'.profiles[p]} \/ p \in slipped'
               \/ \E d \in Callers : OwedBy(job'[d], p)
    BY <1>1, <1>2, <1>5 DEF AgreeInv, CacheAgrees
  <2>2. QED
    BY <2>1 DEF CacheAgrees, OwedBy
<1>8. RelayAgrees'
  <2>1. boot.at \in {"warm", "up"} =>
            relay = db'.prefs \/ "prefs" \in slipped' \/ \E d \in Callers : PrefsOwedBy(job'[d])
    BY <1>1, <1>2, <1>6 DEF AgreeInv, RelayAgrees
  <2>2. QED
    BY <2>1 DEF RelayAgrees, PrefsOwedBy
<1>9. QED
  BY <1>4, <1>7, <1>8 DEF AgreeInv

Unheld == {"idle", "look", "default", "commit", "savePrefs", "reread", "readPrefs",
           "upload", "rollback", "pull", "replace"}

LEMMA UnheldFits ==
    ASSUME NEW j, j.at \in Unheld, NEW d, NEW s PROVE HeldFits(j, d, s)
  BY DEF Unheld, HeldFits

LEMMA AfterReadUnheld ==
    ASSUME NEW j \in Jobs, j.goal \in ReadsOne \union ReadsAll
    PROVE  AfterRead(j).at \in Unheld
<1>1. CASE Tail(j.todo) # <<>>
  BY <1>1 DEF AfterRead, Unheld, Jobs
<1>2. CASE Tail(j.todo) = <<>>
  <2>1. CASE j.goal \in {"get", "saved"}
    BY <1>2, <2>1, IdleGood DEF AfterRead, Unheld
  <2>2. CASE j.goal = "save"
    BY <1>2, <2>2 DEF AfterRead, Unheld, Jobs
  <2>3. CASE j.goal = "push"
    BY <1>2, <2>3 DEF AfterRead, Unheld, Jobs
  <2>4. CASE j.goal = "restore"
    BY <1>2, <2>4 DEF AfterRead, Unheld, Jobs
  <2>5. QED
    BY <2>1, <2>2, <2>3, <2>4 DEF ReadsOne, ReadsAll
<1>3. QED
  BY <1>1, <1>2

LEMMA BegunAgrees ==
    ASSUME TypeInv, AgreeInv, NEW c \in Callers,
           NEW goal, NEW step \in {"look", "savePrefs", "readPrefs"}, NEW todo, NEW prefs, NEW new,
           Begin(c, goal, step, todo, prefs, new)
    PROVE  AgreeInv'
<1>2. PICK clean \in BOOLEAN : Step(c, Begun(goal, step, todo, prefs, new, clean))
  BY DEF Begin, Begun
<1>3. Begun(goal, step, todo, prefs, new, clean).at = step
  BY DEF Begun, Idle
<1>4. job[c].at = "idle" /\ job[c].goal = "none"
  BY DEF Begin, TypeInv, CallsGood, Good, GoalFits, at
<1>5. HeldFits(Begun(goal, step, todo, prefs, new, clean), db', slipped')
  BY <1>3, UnheldFits DEF Unheld
<1>6. \A p \in Platforms : ~OwedBy(job[c], p)
  BY <1>4 DEF OwedBy
<1>7. ~PrefsOwedBy(job[c])
  BY <1>4 DEF PrefsOwedBy
<1>8. QED
  BY <1>2, <1>5, <1>6, <1>7, QuietStep DEF Begin, outside

LEMMA BeginAgrees ==
    ASSUME TypeInv, AgreeInv, NEW c \in Callers,
           BeginGet(c) \/ BeginSave(c) \/ BeginSavePrefs(c) \/ BeginPush(c) \/ BeginRestore(c)
    PROVE  AgreeInv'
<1>1. CASE BeginGet(c)
  <2>1. PICK p \in Platforms : Begin(c, "get", "look", <<p>>, None, Idle.new)
    BY <1>1 DEF BeginGet
  <2>2. QED
    BY <2>1, BegunAgrees
<1>2. CASE BeginSave(c)
  <2>1. PICK p \in Platforms, profile \in Valid :
            Begin(c, "save", "look", <<p>>, None, [Idle.new EXCEPT ![p] = profile])
    BY <1>2 DEF BeginSave
  <2>2. QED
    BY <2>1, BegunAgrees
<1>3. CASE BeginSavePrefs(c)
  <2>1. PICK prefs \in Preferences : Begin(c, "prefs", "savePrefs", <<>>, prefs, Idle.new)
    BY <1>3 DEF BeginSavePrefs
  <2>2. QED
    BY <2>1, BegunAgrees
<1>4. CASE BeginPush(c) \/ BeginRestore(c)
  <2>1. PICK goal \in ReadsAll : Begin(c, goal, "readPrefs", PlatformOrder, None, Idle.new)
    BY <1>4 DEF BeginPush, BeginRestore, ReadsAll
  <2>2. QED
    BY <2>1, BegunAgrees
<1>5. QED
  BY <1>1, <1>2, <1>3, <1>4

LEMMA ReadAgrees ==
    ASSUME TypeInv, AgreeInv, NEW c \in Callers,
           Look(c) \/ ReadDefault(c) \/ ReadProviders(c) \/ Keep(c)
    PROVE  AgreeInv'
<1> DEFINE p == Platform(c)
<1>1. /\ at(c) \in ReadSteps /\ at(c) # "idle" /\ at(c) \in Reading
      /\ UNCHANGED <<db, relay, slipped, boot>>
  BY DEF Look, ReadDefault, ReadProviders, Keep, Reading, ReadSteps, outside
<1>2. /\ job[c] \in Jobs /\ GoalFits(job[c]) /\ ValuesRead(job[c]) /\ p \in Platforms
      /\ job[c].goal \in ReadsOne \union ReadsAll
  BY <1>1, RunningCall DEF GoalFits, at
<1>3. ~PrefsOwedBy(job[c]) /\ at(c) # "publish"
  BY <1>1 DEF PrefsOwedBy, ReadSteps, at
<1>4. HeldFits(job[c], db, slipped)
  BY DEF AgreeInv, HeldAgrees
<1>5. CASE Look(c)
  <2>1. at(c) = "look" /\ UNCHANGED cache
    BY <1>5 DEF Look
  <2>2. PICK j : Step(c, j) /\ j.at \in Unheld
    <3>1. CASE cache[p] = None
      <4>1. [job[c] EXCEPT !.at = "default"].at \in Unheld
        BY <1>2 DEF Jobs, Unheld
      <4>2. QED
        BY <1>5, <3>1, <4>1 DEF Look
    <3>2. CASE cache[p] # None
      <4> DEFINE k == [job[c] EXCEPT !.got[p] = cache[p]]
      <4>1. k \in Jobs /\ k.goal = job[c].goal
        BY <1>2 DEF Jobs, TypeInv, DataTyped
      <4>2. AfterRead(k).at \in Unheld
        BY <4>1, <1>2, AfterReadUnheld
      <4>3. QED
        BY <1>5, <3>2, <4>2 DEF Look
    <3>3. QED
      BY <3>1, <3>2
  <2>3. \A q \in Platforms : ~OwedBy(job[c], q)
    BY <2>1, <1>2 DEF OwedBy, GoalFits, at
  <2>4. HeldFits(j, db', slipped')
    BY <2>2, UnheldFits
  <2>5. QED
    BY <1>1, <1>3, <2>1, <2>2, <2>3, <2>4, QuietStep
<1>6. CASE ReadDefault(c)
  <2> DEFINE j == [job[c] EXCEPT !.at = "providers", !.half = db.profiles[p].default]
  <2>1. Step(c, j) /\ UNCHANGED cache
    BY <1>6 DEF ReadDefault
  <2>2. j.at = "providers" /\ j.half = db.profiles[p].default /\ j.todo = job[c].todo /\ j.goal = job[c].goal
    BY <1>2 DEF Jobs
  <2> HIDE DEF j
  <2>3. HeldFits(j, db', slipped')
    BY <1>1, <2>2 DEF HeldFits, Platform
  <2>4. \A q \in Platforms : OwedBy(job[c], q) => OwedBy(j, q)
    BY <1>3, <2>2 DEF OwedBy, at
  <2>5. QED
    BY <1>1, <1>3, <2>1, <2>3, <2>4, QuietStep
<1>7. CASE ReadProviders(c)
  <2> DEFINE v == [default |-> job[c].half, providers |-> db.profiles[p].providers]
             j == [job[c] EXCEPT !.at = "keep", !.got[p] = v]
  <2>1. Step(c, j) /\ UNCHANGED cache /\ at(c) = "providers"
    BY <1>7 DEF ReadProviders
  <2>2. db.profiles[p] = [default |-> db.profiles[p].default, providers |-> db.profiles[p].providers]
    BY <1>2, ProfileParts DEF TypeInv, DataTyped
  <2>3. v = db.profiles[p] \/ p \in slipped
    BY <1>4, <2>1, <2>2 DEF HeldFits, Platform, at
  <2> HIDE DEF v
  <2>4. j.at = "keep" /\ j.got[p] = v /\ j.todo = job[c].todo /\ j.goal = job[c].goal
    BY <1>2 DEF Jobs
  <2> HIDE DEF j
  <2>5. HeldFits(j, db', slipped')
    BY <1>1, <2>3, <2>4 DEF HeldFits, Platform
  <2>6. \A q \in Platforms : OwedBy(job[c], q) => OwedBy(j, q)
    BY <1>3, <2>4 DEF OwedBy, at
  <2>7. QED
    BY <1>1, <1>3, <2>1, <2>5, <2>6, QuietStep
<1>8. CASE Keep(c)
  <2>1. Step(c, AfterRead(job[c])) /\ cache' = [cache EXCEPT ![p] = job[c].got[p]] /\ at(c) = "keep"
    BY <1>8 DEF Keep
  <2>2. job[c].got[p] = db.profiles[p] \/ p \in slipped
    BY <1>4, <2>1 DEF HeldFits, Platform, at
  <2>3. \A q \in Platforms : cache'[q] = cache[q] \/ cache'[q] = db.profiles[q] \/ q \in slipped'
    BY <1>1, <2>1, <2>2 DEF TypeInv, DataTyped
  <2>4. \A q \in Platforms : OwedBy(job[c], q) => q \in slipped' \/ cache'[q] = db.profiles[q]
    BY <1>1, <1>2, <1>3, <2>1, <2>2 DEF OwedBy, TypeInv, DataTyped, Platform, at
  <2>5. HeldFits(AfterRead(job[c]), db', slipped')
    BY <1>2, AfterReadUnheld, UnheldFits
  <2>6. QED
    BY <1>1, <1>3, <2>1, <2>3, <2>4, <2>5, QuietStep
<1>9. QED
  BY <1>5, <1>6, <1>7, <1>8

LEMMA CommitProfileAgrees ==
    ASSUME TypeInv, AgreeInv, NEW c \in Callers, CommitProfile(c)
    PROVE  AgreeInv'
<1> DEFINE p == Platform(c)
<1>1. at(c) = "commit" /\ UNCHANGED <<cache, relay, boot>>
  BY DEF CommitProfile, outside
<1>2. /\ job[c] \in Jobs /\ p \in Platforms /\ job[c].goal = "save"
      /\ db \in [prefs : Preferences, profiles : [Platforms -> Profiles], imported : BOOLEAN]
  BY <1>1, RunningCall DEF GoalFits, at, Reading, TypeInv, DataTyped
<1>3. (\A q \in Platforms : ~OwedBy(job[c], q)) /\ ~PrefsOwedBy(job[c])
  BY <1>1, <1>2 DEF OwedBy, PrefsOwedBy, at
<1>4. CASE Step(c, Idle) /\ UNCHANGED <<db, slipped>>
  <2>1. HeldFits(Idle, db', slipped')
    BY IdleGood, UnheldFits DEF Unheld
  <2>2. QED
    BY <1>1, <1>3, <1>4, <2>1, QuietStep
<1>5. ASSUME ~(Step(c, Idle) /\ UNCHANGED <<db, slipped>>) PROVE AgreeInv'
  <2> DEFINE j == [Idle EXCEPT !.goal = "saved", !.at = "default", !.todo = <<p>>, !.clean = job[c].clean]
  <2>1. db' = [db EXCEPT !.profiles[p] = job[c].new[p]] /\ CommitStep(c, j) /\ Slips(c, {p})
    BY <1>5 DEF CommitProfile
  <2>2. j.goal = "saved" /\ j.at = "default" /\ Head(j.todo) = p
    BY DEF Idle
  <2> HIDE DEF j
  <2>3. HeldFits(j, db', slipped')
    BY <2>2, UnheldFits DEF Unheld
  <2>4. (\A q \in Platforms : q \in {p} \/ db'.profiles[q] = db.profiles[q]) /\ db'.prefs = db.prefs
    BY <1>2, <2>1
  <2>5. OwedBy(j, p)
    BY <2>2 DEF OwedBy
  <2>6. "prefs" \notin {p}
    BY <1>2, RoutingConstants
  <2>7. QED
    BY <1>1, <1>3, <2>1, <2>3, <2>4, <2>5, <2>6, CommittingStep
<1>6. QED
  BY <1>4, <1>5

LEMMA PrefsAgrees ==
    ASSUME TypeInv, AgreeInv, NEW c \in Callers,
           SavePrefs(c) \/ RereadPrefs(c) \/ Notify(c) \/ ReadPrefs(c)
    PROVE  AgreeInv'
<1>1. /\ at(c) \in {"savePrefs", "reread", "notify", "readPrefs"}
      /\ UNCHANGED <<cache, boot>>
  BY DEF SavePrefs, RereadPrefs, Notify, ReadPrefs, outside
<1>2. /\ job[c] \in Jobs /\ job[c].goal # "saved" /\ HeldFits(job[c], db, slipped)
      /\ db \in [prefs : Preferences, profiles : [Platforms -> Profiles], imported : BOOLEAN]
  BY <1>1, RunningCall DEF GoalFits, at, ReadsOne, ReadSteps, TypeInv, DataTyped, AgreeInv, HeldAgrees
<1>3. \A q \in Platforms : ~OwedBy(job[c], q)
  BY <1>1, <1>2 DEF OwedBy, at
<1>4. CASE SavePrefs(c)
  <2> DEFINE j == [job[c] EXCEPT !.at = "reread"]
  <2>1. /\ db' = [db EXCEPT !.prefs = job[c].prefs] /\ CommitStep(c, j) /\ Slips(c, {"prefs"})
        /\ UNCHANGED relay
    BY <1>4 DEF SavePrefs
  <2>2. j.at = "reread"
    BY <1>2 DEF Jobs
  <2> HIDE DEF j
  <2>3. HeldFits(j, db', slipped')
    BY <2>2, UnheldFits DEF Unheld
  <2>4. \A q \in Platforms : q \notin {"prefs"} /\ db'.profiles[q] = db.profiles[q]
    BY <1>2, <2>1, RoutingConstants
  <2>5. PrefsOwedBy(j)
    BY <2>2 DEF PrefsOwedBy
  <2>6. QED
    BY <1>1, <1>3, <2>1, <2>3, <2>4, <2>5, CommittingStep
<1>5. CASE RereadPrefs(c)
  <2> DEFINE j == [job[c] EXCEPT !.at = "notify", !.prefs = db.prefs]
  <2>1. Step(c, j) /\ UNCHANGED <<db, relay, slipped>>
    BY <1>5 DEF RereadPrefs
  <2>2. j.at = "notify" /\ j.prefs = db.prefs
    BY <1>2 DEF Jobs
  <2> HIDE DEF j
  <2>3. HeldFits(j, db', slipped') /\ PrefsOwedBy(j)
    BY <2>1, <2>2 DEF HeldFits, PrefsOwedBy
  <2>4. QED
    BY <1>1, <1>3, <2>1, <2>3, QuietStep
<1>6. CASE Notify(c)
  <2>1. Step(c, Idle) /\ relay' = job[c].prefs /\ UNCHANGED <<db, slipped>> /\ at(c) = "notify"
    BY <1>6 DEF Notify
  <2>2. job[c].prefs = db.prefs \/ "prefs" \in slipped
    BY <1>2, <2>1 DEF HeldFits, at
  <2>3. HeldFits(Idle, db', slipped')
    BY IdleGood, UnheldFits DEF Unheld
  <2>4. QED
    BY <1>1, <1>3, <2>1, <2>2, <2>3, QuietStep
<1>7. CASE ReadPrefs(c)
  <2> DEFINE j == [job[c] EXCEPT !.at = "look", !.prefs = db.prefs]
  <2>1. Step(c, j) /\ UNCHANGED <<db, relay, slipped>> /\ at(c) = "readPrefs"
    BY <1>7 DEF ReadPrefs
  <2>2. j.at = "look"
    BY <1>2 DEF Jobs
  <2> HIDE DEF j
  <2>3. HeldFits(j, db', slipped')
    BY <2>2, UnheldFits DEF Unheld
  <2>4. ~PrefsOwedBy(job[c])
    BY <2>1 DEF PrefsOwedBy, at
  <2>5. QED
    BY <1>1, <1>3, <2>1, <2>3, <2>4, QuietStep
<1>8. QED
  BY <1>4, <1>5, <1>6, <1>7

LEMMA SyncAgrees ==
    ASSUME TypeInv, AgreeInv, NEW c \in Callers, Upload(c) \/ WriteRollback(c) \/ Pull(c)
    PROVE  AgreeInv'
<1>1. at(c) \in {"upload", "rollback", "pull"} /\ UNCHANGED <<db, cache, relay, slipped, boot>>
  BY DEF Upload, WriteRollback, Pull, outside
<1>2. job[c] \in Jobs /\ job[c].goal # "saved"
  BY <1>1, RunningCall DEF GoalFits, at, ReadsOne, ReadSteps
<1>3. (\A q \in Platforms : ~OwedBy(job[c], q)) /\ ~PrefsOwedBy(job[c])
  BY <1>1, <1>2 DEF OwedBy, PrefsOwedBy, at
<1>4. PICK j : Step(c, j) /\ j.at \in Unheld
  <2>1. Idle.at \in Unheld
    BY IdleGood DEF Unheld
  <2>2. [job[c] EXCEPT !.at = "pull"].at \in Unheld
    BY <1>2 DEF Jobs, Unheld
  <2>3. [job[c] EXCEPT !.at = "replace", !.prefs = remote.prefs, !.new = remote.profiles].at \in Unheld
    BY <1>2 DEF Jobs, Unheld
  <2>4. QED
    BY <2>1, <2>2, <2>3 DEF Upload, WriteRollback, Pull
<1>5. HeldFits(j, db', slipped')
  BY <1>4, UnheldFits
<1>6. QED
  BY <1>1, <1>3, <1>4, <1>5, QuietStep

LEMMA RestoreAgrees ==
    ASSUME TypeInv, AgreeInv, NEW c \in Callers, ApplySnapshot(c) \/ Publish(c)
    PROVE  AgreeInv'
<1>1. /\ at(c) \in {"replace", "publish"} /\ UNCHANGED <<relay, boot>>
  BY DEF ApplySnapshot, Publish, outside
<1>2. /\ job[c] \in Jobs /\ job[c].goal # "saved" /\ HeldFits(job[c], db, slipped)
      /\ AllProfiles(job[c].new) /\ job[c].new \in [Platforms -> MaybeProfile]
      /\ db \in [prefs : Preferences, profiles : [Platforms -> Profiles], imported : BOOLEAN]
      /\ cache \in [Platforms -> MaybeProfile]
  BY <1>1, RunningCall DEF GoalFits, ValuesRead, Jobs, at, ReadsOne, ReadSteps, TypeInv, DataTyped, AgreeInv, HeldAgrees
<1>3. HeldFits(Idle, db', slipped')
  BY IdleGood, UnheldFits DEF Unheld
<1>4. CASE ApplySnapshot(c)
  <2>1. at(c) = "replace" /\ UNCHANGED cache
    BY <1>4 DEF ApplySnapshot
  <2>2. (\A q \in Platforms : ~OwedBy(job[c], q)) /\ ~PrefsOwedBy(job[c])
    BY <1>2, <2>1 DEF OwedBy, PrefsOwedBy, at
  <2>3. CASE Step(c, Idle) /\ UNCHANGED <<db, slipped>>
    BY <1>1, <1>3, <2>1, <2>2, <2>3, QuietStep
  <2>4. ASSUME ~(Step(c, Idle) /\ UNCHANGED <<db, slipped>>) PROVE AgreeInv'
    <3> DEFINE j == [job[c] EXCEPT !.at = "publish", !.todo = PlatformOrder]
    <3>1. /\ db' = [db EXCEPT !.prefs = job[c].prefs, !.profiles = job[c].new]
          /\ CommitStep(c, j) /\ Slips(c, Platforms \union {"prefs"})
      BY <1>4, <2>4 DEF ApplySnapshot
    <3>2. /\ j.at = "publish" /\ j.todo = PlatformOrder /\ j.new = job[c].new /\ j.prefs = job[c].prefs
      BY <1>2 DEF Jobs
    <3> HIDE DEF j
    <3>3. db'.profiles = job[c].new /\ db'.prefs = job[c].prefs
      BY <1>2, <3>1
    <3>4. HeldFits(j, db', slipped') /\ PrefsOwedBy(j)
      BY <3>2, <3>3 DEF HeldFits, PrefsOwedBy
    <3>5. \A q \in Platforms : OwedBy(j, q) /\ q \in Platforms \union {"prefs"}
      BY <3>2, OrderParts DEF OwedBy
    <3>6. QED
      BY <1>1, <2>1, <3>1, <3>4, <3>5, CommittingStep
  <2>5. QED
    BY <2>3, <2>4
<1>5. CASE Publish(c)
  <2> DEFINE p == Platform(c)
  <2>1. /\ at(c) = "publish" /\ cache' = [cache EXCEPT ![p] = job[c].new[p]]
        /\ UNCHANGED <<db, slipped>>
    BY <1>5 DEF Publish
  <2>2. job[c].todo \in Seq(Platforms) /\ job[c].todo # <<>>
    BY <1>2, <2>1 DEF TypeInv, CallsGood, Good, Reading, Jobs, at
  <2>3. /\ p \in Platforms
        /\ \A q : q \in Range(job[c].todo) <=> q = p \/ q \in Range(Tail(job[c].todo))
        /\ Tail(job[c].todo) = <<>> => \A q : q \in Range(job[c].todo) <=> q = p
    BY <2>2, SeqParts DEF Platform
  <2>4. /\ \A q \in Range(job[c].todo) : job[c].new[q] = db.profiles[q] \/ q \in slipped
        /\ job[c].prefs = db.prefs \/ "prefs" \in slipped
    BY <1>2, <2>1 DEF HeldFits, at
  <2>5. \A q \in Platforms : cache'[q] = cache[q] \/ cache'[q] = db.profiles[q] \/ q \in slipped'
    BY <1>2, <2>1, <2>3, <2>4
  <2>6. cache'[p] = db.profiles[p] \/ p \in slipped'
    BY <1>2, <2>1, <2>3, <2>4
  <2>7. \A q \in Platforms : OwedBy(job[c], q) => q \in Range(job[c].todo)
    BY <1>2 DEF OwedBy
  <2>8. CASE Tail(job[c].todo) # <<>>
    <3> DEFINE j == [job[c] EXCEPT !.todo = Tail(@)]
    <3>1. Step(c, j)
      BY <1>5, <2>8 DEF Publish
    <3>2. /\ j.at = "publish" /\ j.todo = Tail(job[c].todo) /\ j.new = job[c].new /\ j.prefs = job[c].prefs
      BY <1>2, <2>1 DEF Jobs, at
    <3> HIDE DEF j
    <3>3. HeldFits(j, db', slipped') /\ PrefsOwedBy(j)
      BY <2>1, <2>3, <2>4, <3>2 DEF HeldFits, PrefsOwedBy
    <3>4. \A q \in Platforms : OwedBy(job[c], q) =>
              OwedBy(j, q) \/ q \in slipped' \/ cache'[q] = db.profiles[q]
      BY <2>3, <2>6, <2>7, <3>2 DEF OwedBy
    <3>5. QED
      BY <1>1, <2>1, <2>5, <3>1, <3>3, <3>4, QuietStep
  <2>9. CASE Tail(job[c].todo) = <<>>
    <3> DEFINE j == [job[c] EXCEPT !.todo = <<>>, !.at = "notify"]
    <3>1. Step(c, j)
      BY <1>5, <2>9 DEF Publish
    <3>2. j.at = "notify" /\ j.prefs = job[c].prefs
      BY <1>2 DEF Jobs
    <3> HIDE DEF j
    <3>3. HeldFits(j, db', slipped') /\ PrefsOwedBy(j)
      BY <2>1, <2>4, <3>2 DEF HeldFits, PrefsOwedBy
    <3>4. \A q \in Platforms : OwedBy(job[c], q) => q \in slipped' \/ cache'[q] = db.profiles[q]
      BY <2>3, <2>6, <2>7, <2>9
    <3>5. QED
      BY <1>1, <2>1, <2>5, <3>1, <3>3, <3>4, QuietStep
  <2>10. QED
    BY <2>8, <2>9
<1>6. QED
  BY <1>4, <1>5

LEMMA FailAgrees ==
    ASSUME TypeInv, AgreeInv, NEW c \in Callers, Fails(c)
    PROVE  AgreeInv'
<1>1. Step(c, Idle) /\ slipped' = slipped \union Debts(c) /\ UNCHANGED <<db, cache, relay, boot>>
  BY DEF Fails, outside
<1>2. HeldFits(Idle, db', slipped')
  BY IdleGood, UnheldFits DEF Unheld
<1>3. \A p \in Platforms : OwedBy(job[c], p) => p \in slipped'
  BY <1>1 DEF OwedBy, Debts, Owes, at
<1>4. PrefsOwedBy(job[c]) => "prefs" \in slipped'
  BY <1>1 DEF PrefsOwedBy, Debts, OwesPrefs, at
<1>5. QED
  BY <1>1, <1>2, <1>3, <1>4, QuietStep

\* During a start no call runs.
LEMMA StartAgrees ==
    ASSUME TypeInv, AgreeInv, Start \/ Restart \/ OtherDevice
    PROVE  AgreeInv'
<1>1. ASSUME \A c \in Callers : job'[c].at = "idle" PROVE HeldAgrees'
  BY <1>1, UnheldFits DEF HeldAgrees, Unheld
<1>2. Start => ~Up
  BY DEF Start, BootCheck, ImportPrefs, ImportProfile, MarkImported, ImportFails, InitProxy, Warm, Up
<1>3. Start => UNCHANGED job
  BY DEF Start, BootCheck, ImportPrefs, ImportProfile, MarkImported, ImportFails, InitProxy, Warm, inMemory
<1>4. Start => \A c \in Callers : job[c].at = "idle" /\ job[c].goal = "none"
  BY <1>2 DEF TypeInv, BootGood, CallsGood, Good, GoalFits, at
<1>5. Start => \A c \in Callers : (\A p \in Platforms : ~OwedBy(job[c], p)) /\ ~PrefsOwedBy(job[c])
  BY <1>4 DEF OwedBy, PrefsOwedBy
<1>6. /\ db \in [prefs : Preferences, profiles : [Platforms -> Profiles], imported : BOOLEAN]
      /\ cache \in [Platforms -> MaybeProfile]
  BY DEF TypeInv, DataTyped
<1>7. CASE BootCheck \/ ImportPrefs \/ ImportProfile \/ MarkImported \/ ImportFails
  <2>1. UNCHANGED <<job, cache, slipped>> /\ boot'.at \notin {"warm", "up"} /\ cache = NoCache
    BY <1>7 DEF TypeInv, BootGood, BootCheck, ImportPrefs, ImportProfile, MarkImported, ImportFails,
                BootTo, NextPlatform, inMemory, DataTyped
  <2>2. HeldAgrees'
    BY <1>1, <1>4, <1>7, <2>1 DEF Start
  <2>3. CacheAgrees' /\ RelayAgrees'
    BY <2>1 DEF CacheAgrees, RelayAgrees, NoCache
  <2>4. QED
    BY <2>2, <2>3 DEF AgreeInv
<1>8. CASE InitProxy
  <2>1. /\ UNCHANGED <<job, cache, db>> /\ slipped \subseteq slipped' /\ cache = NoCache
        /\ relay' = db.prefs \/ "prefs" \in slipped'
    BY <1>8 DEF TypeInv, BootGood, InitProxy, inMemory
  <2>2. HeldAgrees'
    BY <1>1, <1>4, <1>8, <2>1 DEF Start
  <2>3. CacheAgrees' /\ RelayAgrees'
    BY <2>1 DEF CacheAgrees, RelayAgrees, NoCache
  <2>4. QED
    BY <2>2, <2>3 DEF AgreeInv
<1>9. CASE Warm
  <2>1. /\ UNCHANGED <<job, db, relay, slipped>> /\ boot.at = "warm"
        /\ \A p \in Platforms : cache'[p] = cache[p] \/ cache'[p] = db.profiles[p]
    BY <1>6, <1>9 DEF Warm, inMemory
  <2>2. HeldAgrees'
    BY <1>1, <1>4, <1>9, <2>1 DEF Start
  <2>3. CacheAgrees' /\ RelayAgrees'
    BY <1>5, <1>9, <2>1 DEF AgreeInv, CacheAgrees, RelayAgrees, Start
  <2>4. QED
    BY <2>2, <2>3 DEF AgreeInv
<1>10. CASE Restart
  <2>1. cache' = NoCache /\ job' = [c \in Callers |-> Idle] /\ boot'.at = "check"
    BY <1>10 DEF Restart, BootTo
  <2>2. HeldAgrees'
    BY <1>1, <2>1, IdleGood
  <2>3. CacheAgrees' /\ RelayAgrees'
    BY <2>1 DEF CacheAgrees, RelayAgrees, NoCache
  <2>4. QED
    BY <2>2, <2>3 DEF AgreeInv
<1>11. CASE OtherDevice
  BY <1>11 DEF OtherDevice, AgreeInv, HeldAgrees, HeldFits, CacheAgrees, RelayAgrees, OwedBy, PrefsOwedBy
<1>12. QED
  BY <1>7, <1>8, <1>9, <1>10, <1>11 DEF Start

LEMMA InitAgrees == Init => AgreeInv
  BY IdleGood, UnheldFits DEF Init, AgreeInv, HeldAgrees, CacheAgrees, RelayAgrees, NoCache, Unheld

LEMMA NextAgrees == TypeInv /\ AgreeInv /\ [Next]_vars => AgreeInv'
<1> SUFFICES ASSUME TypeInv, AgreeInv, [Next]_vars PROVE AgreeInv'
  OBVIOUS
<1>1. ASSUME NEW c \in Callers, Call(c) PROVE AgreeInv'
  BY <1>1, BeginAgrees, ReadAgrees, CommitProfileAgrees, PrefsAgrees, SyncAgrees, RestoreAgrees, FailAgrees DEF Call
<1>2. CASE UNCHANGED vars
  BY <1>2 DEF vars, AgreeInv, HeldAgrees, HeldFits, CacheAgrees, RelayAgrees, OwedBy, PrefsOwedBy
<1>3. QED
  BY <1>1, <1>2, StartAgrees DEF Next

\* Beside the calls that overlapped or failed, the cache never serves a profile
\* and the relay never a setting other than the stored one, except while the
\* call that committed it has still to tell them (service.go:22-25).
THEOREM CacheAndRelayAgree == Spec => []Agreement
<1>1. Spec => []AgreeInv
  BY InitAgrees, NextAgrees, InitTypes, NextTypes, PTL DEF Spec
<1>2. QED
  BY <1>1, AgreeInvAgrees, PTL

-----------------------------------------------------------------------------
(* The import.  The platforms that are done have gone in, and calls, which  *)
(* run only once the process is up, leave the mark and the files alone.     *)

In(p) == legacy[p] = Missing \/ p \in loaded

ImportInv ==
    /\ boot.at \in {"prefs", "profiles", "mark"} => ~db.imported
    /\ boot.at = "profiles" => \A p \in Platforms : p \in Range(boot.todo) \/ In(p)
    /\ boot.at = "mark" \/ db.imported => \A p \in Platforms : In(p)

LEMMA CallImports ==
    ASSUME TypeInv, NEW c \in Callers, Call(c)
    PROVE  Up /\ UNCHANGED <<boot, legacy, loaded>> /\ db'.imported = db.imported
<1>1. db \in [prefs : Preferences, profiles : [Platforms -> Profiles], imported : BOOLEAN]
  BY DEF TypeInv, DataTyped
<1>2. CASE BeginGet(c) \/ BeginSave(c) \/ BeginSavePrefs(c) \/ BeginPush(c) \/ BeginRestore(c)
  <2>1. Up /\ UNCHANGED <<db, outside>>
    BY <1>2 DEF BeginGet, BeginSave, BeginSavePrefs, BeginPush, BeginRestore, Begin
  <2>2. QED
    BY <2>1 DEF outside
<1>3. CASE Look(c) \/ ReadDefault(c) \/ ReadProviders(c) \/ Keep(c)
  <2>1. at(c) # "idle" /\ UNCHANGED <<db, outside>>
    BY <1>3 DEF Look, ReadDefault, ReadProviders, Keep
  <2>2. QED
    BY <2>1, RunningCall DEF outside
<1>4. CASE CommitProfile(c) \/ SavePrefs(c) \/ ApplySnapshot(c)
  <2>1. at(c) # "idle" /\ UNCHANGED outside
    BY <1>4 DEF CommitProfile, SavePrefs, ApplySnapshot
  <2>2. db'.imported = db.imported
    BY <1>1, <1>4 DEF CommitProfile, SavePrefs, ApplySnapshot
  <2>3. QED
    BY <2>1, <2>2, RunningCall DEF outside
<1>5. CASE RereadPrefs(c) \/ Notify(c) \/ ReadPrefs(c) \/ Upload(c) \/ WriteRollback(c) \/ Pull(c)
           \/ Publish(c) \/ Fails(c)
  <2>1. at(c) # "idle" /\ UNCHANGED <<db, boot, legacy, loaded>>
    BY <1>5 DEF RereadPrefs, Notify, ReadPrefs, Upload, WriteRollback, Pull, Publish, Fails, outside
  <2>2. QED
    BY <2>1, RunningCall
<1>6. QED
  BY <1>2, <1>3, <1>4, <1>5 DEF Call

LEMMA StartImports ==
    ASSUME TypeInv, ImportInv, Start
    PROVE  ImportInv' /\ (db.imported => UNCHANGED db) /\ UNCHANGED legacy
<1> USE DEF In, BootTo, inMemory
<1>1. /\ db \in [prefs : Preferences, profiles : [Platforms -> Profiles], imported : BOOLEAN]
      /\ boot \in [at : BootSteps, todo : Seq(Platforms)] /\ boot.todo # <<>>
  BY DEF TypeInv, DataTyped, BootGood
<1>2. CASE BootCheck
  BY <1>2, OrderParts DEF BootCheck, ImportInv
<1>3. CASE ImportPrefs
  BY <1>1, <1>3, OrderParts DEF ImportPrefs, ImportInv
<1>4. CASE ImportProfile
  <2>0. PICK p : p = Head(boot.todo)
    OBVIOUS
  <2>1. /\ p \in Platforms
        /\ \A q : q \in Range(boot.todo) <=> q = p \/ q \in Range(Tail(boot.todo))
        /\ Tail(boot.todo) = <<>> => \A q : q \in Range(boot.todo) <=> q = p
    BY <1>1, <2>0, SeqParts
  <2>2. In(p)' /\ UNCHANGED legacy /\ loaded \subseteq loaded' /\ boot.at = "profiles"
    BY <1>4, <2>0 DEF ImportProfile
  <2>3. ~db.imported /\ ~db'.imported
    BY <1>1, <1>4 DEF ImportProfile, ImportInv
  <2>4. \A q \in Platforms : q \in Range(boot.todo) \/ In(q)'
    BY <2>2 DEF ImportInv
  <2>5. CASE Tail(boot.todo) # <<>>
    <3>1. boot'.at = "profiles" /\ boot'.todo = Tail(boot.todo)
      BY <1>1, <1>4, <2>2, <2>5 DEF ImportProfile, NextPlatform
    <3>2. \A q \in Platforms : q \in Range(boot'.todo) \/ In(q)'
      BY <2>1, <2>2, <2>4, <3>1
    <3>3. QED
      BY <2>2, <2>3, <3>1, <3>2 DEF ImportInv
  <2>6. CASE Tail(boot.todo) = <<>>
    <3>1. boot'.at = "mark"
      BY <1>4, <2>6 DEF ImportProfile, NextPlatform
    <3>2. \A q \in Platforms : In(q)'
      BY <2>1, <2>2, <2>4, <2>6
    <3>3. QED
      BY <2>2, <2>3, <3>1, <3>2 DEF ImportInv
  <2>7. QED
    BY <2>5, <2>6
<1>5. CASE MarkImported
  BY <1>1, <1>5 DEF MarkImported, ImportInv
<1>6. CASE ImportFails
  BY <1>6 DEF ImportFails, ImportInv
<1>7. CASE InitProxy
  BY <1>7 DEF InitProxy, ImportInv
<1>8. CASE Warm
  <2>1. UNCHANGED <<db, loaded, legacy>> /\ boot.at = "warm"
    BY <1>8 DEF Warm
  <2>2. boot'.at \in {"warm", "up"}
    BY <1>1, <1>8, <2>1 DEF Warm, NextPlatform
  <2>3. QED
    BY <2>1, <2>2 DEF ImportInv
<1>9. QED
  BY <1>2, <1>3, <1>4, <1>5, <1>6, <1>7, <1>8 DEF Start

LEMMA StepImports ==
    ASSUME TypeInv, ImportInv, [Next]_vars
    PROVE  ImportInv' /\ (db.imported /\ db' # db => Up) /\ UNCHANGED legacy
<1>1. ASSUME NEW c \in Callers, Call(c)
      PROVE  ImportInv' /\ Up /\ UNCHANGED legacy
  BY <1>1, CallImports DEF ImportInv, In
<1>2. CASE Restart
  BY <1>2 DEF Restart, BootTo, ImportInv, In
<1>3. CASE OtherDevice
  BY <1>3 DEF OtherDevice, ImportInv, In
<1>4. CASE UNCHANGED vars
  BY <1>4 DEF vars, ImportInv, In
<1>5. QED
  BY <1>1, <1>2, <1>3, <1>4, StartImports DEF Next

\* The import is marked only after every legacy file went in, and no start
\* changes anything once it is marked (storage_initializer.go, legacy_importer.go).
THEOREM ImportsOnce == Spec => ImportedOnce
<1>1. Init => ImportInv
  BY DEF Init, ImportInv
<1>2. TypeInv /\ ImportInv /\ [Next]_vars => ImportInv'
  BY StepImports
<1>3. TypeInv /\ ImportInv /\ [Next]_vars =>
          [/\ db'.imported => \A p \in Platforms : legacy[p] # Missing => p \in loaded'
           /\ db.imported /\ db' # db => Up]_vars
  BY StepImports DEF ImportInv, In
<1>4. QED
  BY <1>1, <1>2, <1>3, InitTypes, NextTypes, PTL DEF Spec, ImportedOnce

-----------------------------------------------------------------------------
(* Calls that no other overlapped.  Until such a call commits nothing has   *)
(* slipped and nobody owes anything, so that what it has read, from the      *)
(* cache too, is what is stored; and it alone writes rollback files.         *)

Uncommitted == {"look", "default", "providers", "keep", "commit", "readPrefs", "upload",
                "rollback", "pull", "replace"}
Works(j) == j.clean /\ j.goal # "saved" /\ j.at \in Uncommitted
Quiet ==
    /\ slipped = {}
    /\ \A c \in Callers : ~PrefsOwedBy(job[c]) /\ \A p \in Platforms : ~OwedBy(job[c], p)

WorkFits(j, d, r) ==
    Works(j) =>
    /\ j.at = "providers" => j.half = d.profiles[Head(j.todo)].default
    /\ j.at \in {"keep", "commit"} => j.got[Head(j.todo)] = d.profiles[Head(j.todo)]
    /\ j.at \in ReadSteps /\ j.goal \in ReadsAll =>
           j.prefs = d.prefs /\ \A p \in Platforms : p \in Range(j.todo) \/ j.got[p] = d.profiles[p]
    /\ j.at \in {"upload", "rollback"} => j.prefs = d.prefs /\ j.got = d.profiles
    /\ j.at \in {"pull", "replace"} => r = [prefs |-> d.prefs, profiles |-> d.profiles]

RestoreSteps(j) == j.at \in {"rollback", "pull", "replace"} => j.goal = "restore"

CleanInv ==
    /\ \A c \in Callers : Works(job[c]) => Quiet
    /\ \A c \in Callers : WorkFits(job[c], db, rollback) /\ RestoreSteps(job[c])
    /\ \A c, d \in Callers : job[c].goal = "restore" /\ job[d].goal = "restore" => c = d

\* What a step may make of a call: it owes nothing new.
Follows(k, j) ==
    /\ PrefsOwedBy(k) => PrefsOwedBy(j)
    /\ \A p \in Platforms : OwedBy(k, p) => OwedBy(j, p)
    /\ RestoreSteps(k)

LEMMA CleanStep ==
    ASSUME TypeInv, CleanInv, NEW c \in Callers, NEW j, Step(c, j), UNCHANGED db,
           Follows(j, job[c]), WorkFits(j, db, rollback'),
           Works(j) => Works(job[c]) \/ Quiet,
           j.goal = "restore" => job[c].goal = "restore" \/ \A d \in Callers : job[d].goal # "restore",
           rollback' = rollback \/ job[c].goal = "restore",
           slipped' \subseteq slipped \union Debts(c)
    PROVE  CleanInv'
<1>1. job \in [Callers -> Jobs] /\ job' = [job EXCEPT ![c] = j]
  BY DEF TypeInv, CallsGood, Step
<1>2. job'[c] = j /\ \A d \in Callers \ {c} : job'[d] = job[d]
  BY <1>1
<1>3. ASSUME Quiet PROVE Quiet'
  <2>1. Debts(c) = {}
    BY <1>3 DEF Quiet, Debts, Owes, OwesPrefs, OwedBy, PrefsOwedBy, at
  <2>2. slipped' = {}
    BY <1>3, <2>1 DEF Quiet
  <2>3. ASSUME NEW d \in Callers
        PROVE  ~PrefsOwedBy(job'[d]) /\ \A p \in Platforms : ~OwedBy(job'[d], p)
    <3>1. CASE d = c
      BY <1>2, <1>3, <3>1 DEF Quiet, Follows
    <3>2. CASE d # c
      BY <1>2, <1>3, <3>2 DEF Quiet
    <3>3. QED
      BY <3>1, <3>2
  <2>4. QED
    BY <2>2, <2>3 DEF Quiet, PrefsOwedBy, OwedBy
<1>4. \A d \in Callers : Works(job'[d]) => Quiet'
  BY <1>2, <1>3 DEF CleanInv
<1>5. ASSUME NEW d \in Callers PROVE WorkFits(job'[d], db', rollback') /\ RestoreSteps(job'[d])
  <2>1. CASE d = c
    BY <1>2, <2>1 DEF Follows
  <2>2. CASE d # c
    <3>1. job'[d] = job[d] /\ WorkFits(job[d], db, rollback) /\ RestoreSteps(job[d])
      BY <1>2, <2>2 DEF CleanInv
    <3>2. job[d].at \in {"pull", "replace"} => rollback' = rollback
      BY <2>2 DEF CleanInv, RestoreSteps
    <3>3. QED
      BY <3>1, <3>2 DEF WorkFits
  <2>3. QED
    BY <2>1, <2>2
<1>6. \A d, e \in Callers : job'[d].goal = "restore" /\ job'[e].goal = "restore" => d = e
  BY <1>2 DEF CleanInv
<1>7. QED
  BY <1>4, <1>5, <1>6 DEF CleanInv, Works, WorkFits, RestoreSteps

\* After a commit no call is clean that works.
LEMMA CleanCommit ==
    ASSUME TypeInv, CleanInv, NEW c \in Callers, NEW j, CommitStep(c, j), ~Works(j), RestoreSteps(j),
           j.goal = "restore" => job[c].goal = "restore"
    PROVE  CleanInv'
<1>1. job \in [Callers -> Jobs]
  BY DEF TypeInv, CallsGood
<1>2. job'[c] = j /\ \A d \in Callers \ {c} : job'[d] = [job[d] EXCEPT !.clean = FALSE]
  BY DEF CommitStep
<1>3. ASSUME NEW d \in Callers \ {c}
      PROVE  job'[d].clean = FALSE /\ job'[d].goal = job[d].goal /\ job'[d].at = job[d].at
  BY <1>1, <1>2 DEF Jobs
<1>4. \A d \in Callers : ~Works(job'[d])
  BY <1>2, <1>3 DEF Works
<1>5. \A d \in Callers : RestoreSteps(job'[d])
  BY <1>2, <1>3 DEF CleanInv, RestoreSteps
<1>6. \A d, e \in Callers : job'[d].goal = "restore" /\ job'[e].goal = "restore" => d = e
  BY <1>2, <1>3 DEF CleanInv
<1>7. QED
  BY <1>4, <1>5, <1>6 DEF CleanInv, WorkFits, RestoreSteps, Works

LEMMA IdleClean ==
    /\ \A j : Follows(Idle, j)
    /\ ~Works(Idle) /\ Idle.goal # "restore" /\ \A d, r : WorkFits(Idle, d, r)
<1>1. Idle.at = "idle" /\ Idle.goal = "none"
  BY DEF Idle
<1>2. QED
  BY <1>1 DEF Follows, Works, WorkFits, PrefsOwedBy, OwedBy, RestoreSteps, Uncommitted

LEMMA AfterReadClean ==
    ASSUME NEW j \in Jobs, j.at \in ReadSteps, j.todo # <<>>, GoalFits(j), NEW d, NEW r,
           d.profiles \in [Platforms -> Profiles],
           Works(j) =>
               /\ j.got[Head(j.todo)] = d.profiles[Head(j.todo)]
               /\ j.goal \in ReadsAll =>
                      /\ j.prefs = d.prefs
                      /\ \A p \in Platforms : p \in Range(j.todo) \/ j.got[p] = d.profiles[p]
    PROVE  /\ WorkFits(AfterRead(j), d, r) /\ Follows(AfterRead(j), j)
           /\ Works(AfterRead(j)) => Works(j)
           /\ AfterRead(j).goal = "restore" => j.goal = "restore"
<1> USE DEF ReadSteps, ReadsOne, ReadsAll
<1>0. j.todo \in Seq(Platforms) /\ j.goal \in ReadsOne \union ReadsAll
  BY DEF Jobs, GoalFits
<1>1. CASE Tail(j.todo) # <<>>
  <2> DEFINE k == [j EXCEPT !.todo = Tail(@), !.at = "look", !.half = None]
  <2>1. AfterRead(j) = k
    BY <1>1 DEF AfterRead
  <2>2. /\ k.at = "look" /\ k.goal = j.goal /\ k.todo = Tail(j.todo) /\ k.prefs = j.prefs
        /\ k.got = j.got /\ k.clean = j.clean
    BY DEF Jobs
  <2>3. j.goal \in ReadsAll
    BY <1>1 DEF GoalFits
  <2> HIDE DEF k
  <2>4. Works(k) => Works(j)
    BY <2>2 DEF Works, Uncommitted
  <2>5. Works(k) => \A p \in Platforms : p \in Range(k.todo) \/ k.got[p] = d.profiles[p]
    BY <2>2, <2>3, <2>4, <1>0, SeqParts
  <2>6. WorkFits(k, d, r)
    BY <2>2, <2>3, <2>4, <2>5 DEF WorkFits
  <2>7. Follows(k, j)
    BY <2>2, <2>3 DEF Follows, PrefsOwedBy, OwedBy, RestoreSteps
  <2>8. QED
    BY <2>1, <2>2, <2>4, <2>6, <2>7
<1>2. CASE Tail(j.todo) = <<>> /\ j.goal \in {"get", "saved"}
  BY <1>2, IdleClean DEF AfterRead
<1>3. CASE Tail(j.todo) = <<>> /\ j.goal \in {"save", "push", "restore"}
  <2>1. PICK s \in {"commit", "upload", "rollback"} :
            /\ AfterRead(j) = [j EXCEPT !.at = s, !.half = None]
            /\ s = "commit" <=> j.goal = "save"
            /\ s = "rollback" <=> j.goal = "restore"
    BY <1>3 DEF AfterRead
  <2> DEFINE k == [j EXCEPT !.at = s, !.half = None]
  <2>2. /\ k.at = s /\ k.goal = j.goal /\ k.todo = j.todo /\ k.prefs = j.prefs
        /\ k.got = j.got /\ k.clean = j.clean
    BY DEF Jobs
  <2> HIDE DEF k
  <2>3. Works(k) => Works(j)
    BY <2>2 DEF Works, Uncommitted
  <2>4. Works(k) /\ j.goal \in ReadsAll => \A p \in Platforms : j.got[p] = d.profiles[p]
    BY <1>0, <1>3, <2>3, SeqParts
  <2>5. Works(k) /\ j.goal \in ReadsAll => k.got = d.profiles
    BY <2>2, <2>4 DEF Jobs
  <2>6. WorkFits(k, d, r)
    BY <1>3, <2>1, <2>2, <2>3, <2>5 DEF WorkFits
  <2>7. Follows(k, j)
    BY <1>3, <2>1, <2>2 DEF Follows, PrefsOwedBy, OwedBy, RestoreSteps
  <2>8. QED
    BY <2>1, <2>2, <2>3, <2>6, <2>7 DEF k
<1>4. QED
  BY <1>0, <1>1, <1>2, <1>3

LEMMA BegunClean ==
    ASSUME TypeInv, CleanInv, NEW c \in Callers, NEW goal, NEW step, NEW todo, NEW prefs, NEW new,
           step \in {"savePrefs", "readPrefs"} \/ (step = "look" /\ goal \in {"get", "save"}),
           goal # "saved",
           goal = "restore" => \A d \in Callers : job[d].goal # "restore",
           Begin(c, goal, step, todo, prefs, new)
    PROVE  CleanInv'
<1>1. PICK clean \in BOOLEAN :
          /\ Step(c, Begun(goal, step, todo, prefs, new, clean))
          /\ clean => slipped = {} /\ \A d \in Callers : Debts(d) = {}
  BY DEF Begin, Begun
<1>2. clean => Quiet
  <2>1. ASSUME NEW d \in Callers, Debts(d) = {}
        PROVE  ~PrefsOwedBy(job[d]) /\ \A p \in Platforms : ~OwedBy(job[d], p)
    BY <2>1 DEF Debts, Owes, OwesPrefs, OwedBy, PrefsOwedBy, at
  <2>2. QED
    BY <1>1, <2>1 DEF Quiet
<1> DEFINE j == Begun(goal, step, todo, prefs, new, clean)
<1>3. j.at = step /\ j.goal = goal /\ j.clean = clean
  BY DEF Begun, Idle
<1> HIDE DEF j
<1>4. Works(j) => Quiet
  BY <1>2, <1>3 DEF Works
<1>5. WorkFits(j, db, rollback') /\ Follows(j, job[c])
  <2>1. CASE step = "look"
    <3>1. WorkFits(j, db, rollback')
      BY <1>3, <2>1 DEF WorkFits, ReadsAll
    <3>2. Follows(j, job[c])
      BY <1>3, <2>1 DEF Follows, RestoreSteps, PrefsOwedBy, OwedBy
    <3>3. QED
      BY <3>1, <3>2
  <2>2. CASE step \in {"savePrefs", "readPrefs"}
    <3>1. WorkFits(j, db, rollback')
      BY <1>3, <2>2 DEF WorkFits, ReadSteps
    <3>2. Follows(j, job[c])
      BY <1>3, <2>2 DEF Follows, RestoreSteps, PrefsOwedBy, OwedBy
    <3>3. QED
      BY <3>1, <3>2
  <2>3. QED
    BY <2>1, <2>2
<1>6. UNCHANGED <<db, rollback, slipped>> /\ Step(c, j)
  BY <1>1 DEF Begin, outside, j
<1>7. j.goal = "restore" => \A d \in Callers : job[d].goal # "restore"
  BY <1>3
<1>8. QED
  BY <1>4, <1>5, <1>6, <1>7, CleanStep

LEMMA BeginClean ==
    ASSUME TypeInv, CleanInv, NEW c \in Callers,
           BeginGet(c) \/ BeginSave(c) \/ BeginSavePrefs(c) \/ BeginPush(c) \/ BeginRestore(c)
    PROVE  CleanInv'
<1>1. CASE BeginGet(c)
  <2>1. PICK p \in Platforms : Begin(c, "get", "look", <<p>>, None, Idle.new)
    BY <1>1 DEF BeginGet
  <2>2. QED
    BY <2>1, BegunClean
<1>2. CASE BeginSave(c)
  <2>1. PICK p \in Platforms, profile \in Valid :
            Begin(c, "save", "look", <<p>>, None, [Idle.new EXCEPT ![p] = profile])
    BY <1>2 DEF BeginSave
  <2>2. QED
    BY <2>1, BegunClean
<1>3. CASE BeginSavePrefs(c)
  <2>1. PICK prefs \in Preferences : Begin(c, "prefs", "savePrefs", <<>>, prefs, Idle.new)
    BY <1>3 DEF BeginSavePrefs
  <2>2. QED
    BY <2>1, BegunClean
<1>4. CASE BeginPush(c)
  <2>1. Begin(c, "push", "readPrefs", PlatformOrder, None, Idle.new)
    BY <1>4 DEF BeginPush
  <2>2. QED
    BY <2>1, BegunClean
<1>5. CASE BeginRestore(c)
  <2>1. /\ Begin(c, "restore", "readPrefs", PlatformOrder, None, Idle.new)
        /\ \A d \in Callers : job[d].goal # "restore"
    BY <1>5 DEF BeginRestore
  <2>2. QED
    BY <2>1, BegunClean
<1>6. QED
  BY <1>1, <1>2, <1>3, <1>4, <1>5

\* A working call sees stored profiles in the cache.
LEMMA CacheStored ==
    ASSUME AgreeInv, CleanInv, NEW c \in Callers, Works(job[c])
    PROVE  \A p \in Platforms : cache[p] # None => cache[p] = db.profiles[p]
  BY DEF AgreeInv, CacheAgrees, CleanInv, Quiet

LEMMA ReadClean ==
    ASSUME TypeInv, AgreeInv, CleanInv, NEW c \in Callers,
           Look(c) \/ ReadDefault(c) \/ ReadProviders(c) \/ Keep(c)
    PROVE  CleanInv'
<1>0. PICK p : p = Platform(c)
  OBVIOUS
<1>1. /\ at(c) \in ReadSteps /\ at(c) # "idle" /\ at(c) \in Reading
      /\ UNCHANGED <<db, slipped, rollback>>
  BY DEF Look, ReadDefault, ReadProviders, Keep, Reading, ReadSteps, outside
<1>2. /\ job[c] \in Jobs /\ GoalFits(job[c]) /\ p \in Platforms /\ p = Head(job[c].todo)
      /\ job[c].todo \in Seq(Platforms) /\ job[c].todo # <<>>
      /\ db \in [prefs : Preferences, profiles : [Platforms -> Profiles], imported : BOOLEAN]
      /\ cache \in [Platforms -> MaybeProfile]
  BY <1>0, <1>1, RunningCall DEF at, Platform, Jobs, TypeInv, DataTyped
<1>3. WorkFits(job[c], db, rollback)
  BY DEF CleanInv
<1>4. CASE Look(c) /\ cache[p] = None
  <2> DEFINE j == [job[c] EXCEPT !.at = "default"]
  <2>1. Step(c, j) /\ at(c) = "look"
    BY <1>0, <1>4 DEF Look
  <2>2. /\ j.at = "default" /\ j.goal = job[c].goal /\ j.todo = job[c].todo /\ j.prefs = job[c].prefs
        /\ j.got = job[c].got /\ j.clean = job[c].clean
    BY <1>2 DEF Jobs
  <2> HIDE DEF j
  <2>3. Works(j) => Works(job[c])
    BY <1>1, <2>1, <2>2 DEF Works, Uncommitted, at
  <2>4. WorkFits(j, db, rollback')
    BY <1>1, <1>3, <2>1, <2>2, <2>3 DEF WorkFits, at, ReadSteps
  <2>5. Follows(j, job[c])
    BY <2>2 DEF Follows, PrefsOwedBy, OwedBy, RestoreSteps
  <2>6. QED
    BY <1>1, <2>1, <2>2, <2>3, <2>4, <2>5, CleanStep
<1>5. CASE Look(c) /\ cache[p] # None
  <2> DEFINE k == [job[c] EXCEPT !.got[p] = cache[p]]
  <2>1. Step(c, AfterRead(k)) /\ at(c) = "look"
    BY <1>0, <1>5 DEF Look
  <2>2. /\ k \in Jobs /\ k.at = job[c].at /\ k.goal = job[c].goal /\ k.todo = job[c].todo
        /\ k.prefs = job[c].prefs /\ k.clean = job[c].clean /\ k.new = job[c].new
        /\ k.got[p] = cache[p] /\ \A q \in Platforms \ {p} : k.got[q] = job[c].got[q]
    BY <1>2 DEF Jobs
  <2> HIDE DEF k
  <2>3. GoalFits(k)
    BY <1>2, <2>2 DEF GoalFits
  <2>4. Works(k) => Works(job[c])
    BY <2>2 DEF Works
  <2>5. Works(k) => cache[p] = db.profiles[p]
    BY <1>2, <1>5, <2>4, CacheStored
  <2>6. Works(k) =>
            /\ k.got[Head(k.todo)] = db.profiles[Head(k.todo)]
            /\ k.goal \in ReadsAll =>
                   k.prefs = db.prefs /\ \A q \in Platforms : q \in Range(k.todo) \/ k.got[q] = db.profiles[q]
    BY <1>1, <1>2, <1>3, <2>2, <2>4, <2>5 DEF WorkFits, at
  <2>7. k.at \in ReadSteps /\ k.todo # <<>> /\ db.profiles \in [Platforms -> Profiles]
    BY <1>1, <1>2, <2>2 DEF at
  <2>8. /\ WorkFits(AfterRead(k), db, rollback') /\ Follows(AfterRead(k), k)
        /\ Works(AfterRead(k)) => Works(k)
        /\ AfterRead(k).goal = "restore" => k.goal = "restore"
    BY <2>2, <2>3, <2>6, <2>7, AfterReadClean
  <2>9. Follows(AfterRead(k), job[c])
    BY <2>2, <2>8 DEF Follows, PrefsOwedBy, OwedBy
  <2>10. QED
    BY <1>1, <2>1, <2>2, <2>4, <2>8, <2>9, CleanStep
<1>6. CASE ReadDefault(c)
  <2> DEFINE j == [job[c] EXCEPT !.at = "providers", !.half = db.profiles[p].default]
  <2>1. Step(c, j) /\ at(c) = "default"
    BY <1>0, <1>6 DEF ReadDefault
  <2>2. /\ j.at = "providers" /\ j.goal = job[c].goal /\ j.todo = job[c].todo /\ j.prefs = job[c].prefs
        /\ j.got = job[c].got /\ j.clean = job[c].clean /\ j.half = db.profiles[p].default
    BY <1>2 DEF Jobs
  <2> HIDE DEF j
  <2>3. Works(j) => Works(job[c])
    BY <1>1, <2>1, <2>2 DEF Works, Uncommitted, at
  <2>4. WorkFits(j, db, rollback')
    BY <1>1, <1>2, <1>3, <2>1, <2>2, <2>3 DEF WorkFits, at, ReadSteps
  <2>5. Follows(j, job[c])
    BY <2>2 DEF Follows, PrefsOwedBy, OwedBy, RestoreSteps
  <2>6. QED
    BY <1>1, <2>1, <2>2, <2>3, <2>4, <2>5, CleanStep
<1>7. CASE ReadProviders(c)
  <2> DEFINE v == [default |-> job[c].half, providers |-> db.profiles[p].providers]
             j == [job[c] EXCEPT !.at = "keep", !.got[p] = v]
  <2>1. Step(c, j) /\ at(c) = "providers"
    BY <1>0, <1>7 DEF ReadProviders
  <2>2. db.profiles[p] = [default |-> db.profiles[p].default, providers |-> db.profiles[p].providers]
    BY <1>2, ProfileParts
  <2>3. Works(job[c]) => v = db.profiles[p]
    BY <1>2, <1>3, <2>1, <2>2 DEF WorkFits, at
  <2> HIDE DEF v
  <2>4. /\ j.at = "keep" /\ j.goal = job[c].goal /\ j.todo = job[c].todo /\ j.prefs = job[c].prefs
        /\ j.got[p] = v /\ j.clean = job[c].clean /\ \A q \in Platforms \ {p} : j.got[q] = job[c].got[q]
    BY <1>2 DEF Jobs
  <2> HIDE DEF j
  <2>5. Works(j) => Works(job[c])
    BY <1>1, <2>1, <2>4 DEF Works, Uncommitted, at
  <2>6. WorkFits(j, db, rollback')
    BY <1>1, <1>2, <1>3, <2>1, <2>3, <2>4, <2>5 DEF WorkFits, at, ReadSteps
  <2>7. Follows(j, job[c])
    BY <2>4 DEF Follows, PrefsOwedBy, OwedBy, RestoreSteps
  <2>8. QED
    BY <1>1, <2>1, <2>4, <2>5, <2>6, <2>7, CleanStep
<1>8. CASE Keep(c)
  <2>1. Step(c, AfterRead(job[c])) /\ at(c) = "keep"
    BY <1>8 DEF Keep
  <2>2. Works(job[c]) =>
            /\ job[c].got[Head(job[c].todo)] = db.profiles[Head(job[c].todo)]
            /\ job[c].goal \in ReadsAll =>
                   /\ job[c].prefs = db.prefs
                   /\ \A q \in Platforms : q \in Range(job[c].todo) \/ job[c].got[q] = db.profiles[q]
    BY <1>1, <1>3, <2>1 DEF WorkFits, at
  <2>3. job[c].at \in ReadSteps /\ db.profiles \in [Platforms -> Profiles]
    BY <1>1, <1>2 DEF at
  <2>4. /\ WorkFits(AfterRead(job[c]), db, rollback') /\ Follows(AfterRead(job[c]), job[c])
        /\ Works(AfterRead(job[c])) => Works(job[c])
        /\ AfterRead(job[c]).goal = "restore" => job[c].goal = "restore"
    BY <1>2, <2>2, <2>3, AfterReadClean
  <2>5. QED
    BY <1>1, <2>1, <2>4, CleanStep
<1>9. QED
  BY <1>4, <1>5, <1>6, <1>7, <1>8

LEMMA CommitClean ==
    ASSUME TypeInv, CleanInv, NEW c \in Callers, CommitProfile(c) \/ SavePrefs(c) \/ ApplySnapshot(c)
    PROVE  CleanInv'
<1>1. /\ at(c) \in {"commit", "savePrefs", "replace"} /\ UNCHANGED rollback
  BY DEF CommitProfile, SavePrefs, ApplySnapshot, outside
<1>2. job[c] \in Jobs
  BY DEF TypeInv, CallsGood
<1>3. CASE Step(c, Idle) /\ UNCHANGED <<db, slipped>>
  BY <1>1, <1>3, IdleClean, CleanStep
<1>4. CASE CommitProfile(c) /\ ~(Step(c, Idle) /\ UNCHANGED <<db, slipped>>)
  <2> DEFINE j == [Idle EXCEPT !.goal = "saved", !.at = "default", !.todo = <<Platform(c)>>,
                               !.clean = job[c].clean]
  <2>1. CommitStep(c, j)
    BY <1>4 DEF CommitProfile
  <2>2. j.goal = "saved" /\ j.at = "default"
    BY DEF Idle
  <2> HIDE DEF j
  <2>3. ~Works(j) /\ RestoreSteps(j) /\ j.goal # "restore"
    BY <2>2 DEF Works, RestoreSteps
  <2>4. QED
    BY <2>1, <2>3, CleanCommit
<1>5. CASE SavePrefs(c)
  <2> DEFINE j == [job[c] EXCEPT !.at = "reread"]
  <2>1. CommitStep(c, j)
    BY <1>5 DEF SavePrefs
  <2>2. j.goal = job[c].goal /\ j.at = "reread"
    BY <1>2 DEF Jobs
  <2> HIDE DEF j
  <2>3. ~Works(j) /\ RestoreSteps(j)
    BY <2>2 DEF Works, RestoreSteps, Uncommitted
  <2>4. QED
    BY <2>1, <2>2, <2>3, CleanCommit
<1>6. CASE ApplySnapshot(c) /\ ~(Step(c, Idle) /\ UNCHANGED <<db, slipped>>)
  <2> DEFINE j == [job[c] EXCEPT !.at = "publish", !.todo = PlatformOrder]
  <2>1. CommitStep(c, j)
    BY <1>6 DEF ApplySnapshot
  <2>2. j.goal = job[c].goal /\ j.at = "publish"
    BY <1>2 DEF Jobs
  <2> HIDE DEF j
  <2>3. ~Works(j) /\ RestoreSteps(j)
    BY <2>2 DEF Works, RestoreSteps, Uncommitted
  <2>4. QED
    BY <2>1, <2>2, <2>3, CleanCommit
<1>7. QED
  BY <1>3, <1>4, <1>5, <1>6

LEMMA SyncClean ==
    ASSUME TypeInv, CleanInv, NEW c \in Callers,
           ReadPrefs(c) \/ Upload(c) \/ WriteRollback(c) \/ Pull(c)
    PROVE  CleanInv'
<1>1. at(c) \in {"readPrefs", "upload", "rollback", "pull"} /\ UNCHANGED <<db, slipped>>
  BY DEF ReadPrefs, Upload, WriteRollback, Pull
<1>2. /\ job[c] \in Jobs /\ job[c].goal \in ReadsAll
      /\ at(c) = "readPrefs" => job[c].todo = PlatformOrder
  BY <1>1, RunningCall DEF GoalFits, ValuesRead, at
<1>3. WorkFits(job[c], db, rollback) /\ RestoreSteps(job[c])
  BY DEF CleanInv
<1>4. CASE ReadPrefs(c)
  <2> DEFINE j == [job[c] EXCEPT !.at = "look", !.prefs = db.prefs]
  <2>1. Step(c, j) /\ at(c) = "readPrefs" /\ UNCHANGED rollback
    BY <1>4 DEF ReadPrefs, outside
  <2>2. /\ j.at = "look" /\ j.prefs = db.prefs /\ j.goal = job[c].goal /\ j.clean = job[c].clean
        /\ j.todo = PlatformOrder
    BY <1>2, <2>1 DEF Jobs
  <2> HIDE DEF j
  <2>3. Works(j) => Works(job[c])
    BY <2>1, <2>2 DEF Works, Uncommitted, at
  <2>4. WorkFits(j, db, rollback')
    BY <2>2, OrderParts DEF WorkFits
  <2>5. Follows(j, job[c])
    BY <1>2, <2>2 DEF Follows, PrefsOwedBy, OwedBy, RestoreSteps, ReadsAll
  <2>6. QED
    BY <1>1, <2>1, <2>2, <2>3, <2>4, <2>5, CleanStep
<1>5. CASE Upload(c)
  <2>1. Step(c, Idle) /\ UNCHANGED rollback
    BY <1>5 DEF Upload
  <2>2. QED
    BY <1>1, <2>1, IdleClean, CleanStep
<1>6. CASE WriteRollback(c)
  <2> DEFINE j == [job[c] EXCEPT !.at = "pull"]
  <2>1. Step(c, j) /\ at(c) = "rollback" /\ rollback' = [prefs |-> job[c].prefs, profiles |-> job[c].got]
    BY <1>6 DEF WriteRollback, Snapshot
  <2>2. j.at = "pull" /\ j.goal = job[c].goal /\ j.clean = job[c].clean
    BY <1>2 DEF Jobs
  <2> HIDE DEF j
  <2>3. Works(j) => Works(job[c])
    BY <2>1, <2>2 DEF Works, Uncommitted, at
  <2>4. WorkFits(j, db, rollback')
    BY <1>3, <2>1, <2>2, <2>3 DEF WorkFits, ReadSteps, at
  <2>5. job[c].goal = "restore"
    BY <1>3, <2>1 DEF RestoreSteps, at
  <2>6. Follows(j, job[c])
    BY <2>2, <2>5 DEF Follows, PrefsOwedBy, OwedBy, RestoreSteps
  <2>7. QED
    BY <1>1, <2>1, <2>3, <2>4, <2>5, <2>6, CleanStep
<1>7. CASE Pull(c)
  <2> DEFINE j == [job[c] EXCEPT !.at = "replace", !.prefs = remote.prefs, !.new = remote.profiles]
  <2>1. Step(c, j) /\ at(c) = "pull" /\ UNCHANGED rollback
    BY <1>7 DEF Pull, outside
  <2>2. j.at = "replace" /\ j.goal = job[c].goal /\ j.clean = job[c].clean
    BY <1>2 DEF Jobs
  <2> HIDE DEF j
  <2>3. Works(j) => Works(job[c])
    BY <2>1, <2>2 DEF Works, Uncommitted, at
  <2>4. WorkFits(j, db, rollback')
    BY <1>3, <2>1, <2>2, <2>3 DEF WorkFits, ReadSteps, at
  <2>5. job[c].goal = "restore"
    BY <1>3, <2>1 DEF RestoreSteps, at
  <2>6. Follows(j, job[c])
    BY <2>2, <2>5 DEF Follows, PrefsOwedBy, OwedBy, RestoreSteps
  <2>7. QED
    BY <1>1, <2>1, <2>3, <2>4, <2>5, <2>6, CleanStep
<1>8. QED
  BY <1>4, <1>5, <1>6, <1>7

LEMMA TellClean ==
    ASSUME TypeInv, CleanInv, NEW c \in Callers,
           RereadPrefs(c) \/ Notify(c) \/ Publish(c) \/ Fails(c)
    PROVE  CleanInv'
<1>1. UNCHANGED <<db, rollback>> /\ slipped' \subseteq slipped \union Debts(c)
  BY DEF RereadPrefs, Notify, Publish, Fails, outside
<1>2. job[c] \in Jobs
  BY DEF TypeInv, CallsGood
<1>3. CASE Step(c, Idle)
  BY <1>1, <1>3, IdleClean, CleanStep
<1>4. CASE RereadPrefs(c)
  <2> DEFINE j == [job[c] EXCEPT !.at = "notify", !.prefs = db.prefs]
  <2>1. Step(c, j) /\ at(c) = "reread"
    BY <1>4 DEF RereadPrefs
  <2>2. j.at = "notify" /\ j.goal = job[c].goal /\ j.todo = job[c].todo
    BY <1>2 DEF Jobs
  <2> HIDE DEF j
  <2>3. ~Works(j)
    BY <2>2 DEF Works, Uncommitted
  <2>4. WorkFits(j, db, rollback') /\ Follows(j, job[c])
    BY <2>1, <2>2, <2>3 DEF WorkFits, Follows, PrefsOwedBy, OwedBy, RestoreSteps, at
  <2>5. QED
    BY <1>1, <2>1, <2>2, <2>3, <2>4, CleanStep
<1>5. CASE Publish(c) /\ Tail(job[c].todo) # <<>>
  <2> DEFINE j == [job[c] EXCEPT !.todo = Tail(@)]
  <2>1. Step(c, j) /\ at(c) = "publish"
    BY <1>5 DEF Publish
  <2>2. j.at = "publish" /\ j.goal = job[c].goal /\ j.todo = Tail(job[c].todo)
    BY <1>2, <2>1 DEF Jobs, at
  <2> HIDE DEF j
  <2>3. ~Works(j)
    BY <2>2 DEF Works, Uncommitted
  <2>4. job[c].todo \in Seq(Platforms) /\ job[c].todo # <<>> /\ job[c].goal # "saved"
    BY <2>1, RunningCall DEF Jobs, Reading, GoalFits, ReadsOne, ReadSteps, at
  <2>5. WorkFits(j, db, rollback') /\ Follows(j, job[c])
    BY <2>1, <2>2, <2>3, <2>4, SeqParts DEF WorkFits, Follows, PrefsOwedBy, OwedBy, RestoreSteps, at
  <2>6. QED
    BY <1>1, <2>1, <2>2, <2>3, <2>5, CleanStep
<1>6. CASE Publish(c) /\ Tail(job[c].todo) = <<>>
  <2> DEFINE j == [job[c] EXCEPT !.todo = <<>>, !.at = "notify"]
  <2>1. Step(c, j) /\ at(c) = "publish"
    BY <1>6 DEF Publish
  <2>2. j.at = "notify" /\ j.goal = job[c].goal
    BY <1>2 DEF Jobs
  <2> HIDE DEF j
  <2>3. ~Works(j) /\ job[c].goal # "saved"
    BY <2>1, <2>2, RunningCall DEF Works, Uncommitted, GoalFits, ReadsOne, ReadSteps, at
  <2>4. WorkFits(j, db, rollback') /\ Follows(j, job[c])
    BY <2>1, <2>2, <2>3 DEF WorkFits, Follows, PrefsOwedBy, OwedBy, RestoreSteps, at
  <2>5. QED
    BY <1>1, <2>1, <2>2, <2>3, <2>4, CleanStep
<1>7. QED
  BY <1>3, <1>4, <1>5, <1>6 DEF Notify, Fails

LEMMA AllIdleClean ==
    ASSUME \A c \in Callers : job[c].at = "idle" /\ job[c].goal = "none"
    PROVE  CleanInv
<1>1. \A c \in Callers : ~Works(job[c]) /\ RestoreSteps(job[c]) /\ job[c].goal # "restore"
  BY DEF Works, RestoreSteps, Uncommitted
<1>2. QED
  BY <1>1 DEF CleanInv, WorkFits

LEMMA StartClean ==
    ASSUME TypeInv, CleanInv, Start \/ Restart \/ OtherDevice
    PROVE  CleanInv'
<1>1. CASE Start
  <2>1. ~Up /\ UNCHANGED job
    BY <1>1 DEF Start, BootCheck, ImportPrefs, ImportProfile, MarkImported, ImportFails, InitProxy, Warm, Up, inMemory
  <2>2. \A c \in Callers : job'[c].at = "idle" /\ job'[c].goal = "none"
    BY <2>1 DEF TypeInv, BootGood, CallsGood, Good, GoalFits, at
  <2>3. \A c \in Callers : ~Works(job'[c]) /\ RestoreSteps(job'[c]) /\ job'[c].goal # "restore"
    BY <2>2 DEF Works, RestoreSteps, Uncommitted
  <2>4. QED
    BY <2>3 DEF CleanInv, WorkFits, Works, RestoreSteps
<1>2. CASE Restart
  <2>1. \A c \in Callers : job'[c] = Idle
    BY <1>2 DEF Restart
  <2>2. RestoreSteps(Idle)
    BY IdleClean DEF Follows
  <2>3. QED
    BY <2>1, <2>2, IdleClean DEF CleanInv, WorkFits, Works, RestoreSteps
<1>3. CASE OtherDevice
  BY <1>3 DEF OtherDevice, CleanInv, WorkFits, Works, Quiet, RestoreSteps, PrefsOwedBy, OwedBy
<1>4. QED
  BY <1>1, <1>2, <1>3

LEMMA NextClean == TypeInv /\ AgreeInv /\ CleanInv /\ [Next]_vars => CleanInv'
<1> SUFFICES ASSUME TypeInv, AgreeInv, CleanInv, [Next]_vars PROVE CleanInv'
  OBVIOUS
<1>1. ASSUME NEW c \in Callers, Call(c) PROVE CleanInv'
  BY <1>1, BeginClean, ReadClean, CommitClean, SyncClean, TellClean DEF Call
<1>2. CASE UNCHANGED vars
  BY <1>2 DEF vars, CleanInv, WorkFits, Works, Quiet, RestoreSteps, PrefsOwedBy, OwedBy
<1>3. QED
  BY <1>1, <1>2, StartClean DEF Next

\* What the property says of one call in one step.
CleanStepOf(c) ==
    job[c].clean =>
    /\ at(c) = "commit" /\ job'[c].goal = "saved" =>
         KeepsNames(db.profiles[Platform(c)], db'.profiles[Platform(c)])
    /\ at(c) = "upload" /\ job'[c] = Idle /\ remote' # remote =>
         remote' = [prefs |-> db.prefs, profiles |-> db.profiles]
    /\ at(c) = "replace" /\ job'[c].at = "publish" =>
         rollback = [prefs |-> db.prefs, profiles |-> db.profiles]

\* A step that is not c's leaves it where it is, unless the process stops.
LEMMA OthersStep ==
    ASSUME TypeInv, NEW c \in Callers,
           Start \/ Restart \/ OtherDevice \/ UNCHANGED vars \/ \E d \in Callers \ {c} : Call(d)
    PROVE  \/ job'[c].goal = job[c].goal /\ job'[c].at = job[c].at
           \/ job'[c] = Idle /\ UNCHANGED remote
<1>1. job \in [Callers -> Jobs]
  BY DEF TypeInv, CallsGood
<1>2. CASE Start \/ OtherDevice \/ UNCHANGED vars
  BY <1>2 DEF Start, BootCheck, ImportPrefs, ImportProfile, MarkImported, ImportFails, InitProxy, Warm,
              inMemory, OtherDevice, vars
<1>3. CASE Restart
  BY <1>3 DEF Restart
<1>4. ASSUME NEW d \in Callers \ {c}, Call(d) PROVE job'[c].goal = job[c].goal /\ job'[c].at = job[c].at
  <2>1. (\E j : Step(d, j)) \/ (\E j : CommitStep(d, j))
    <3>1. CASE BeginGet(d) \/ BeginSave(d) \/ BeginSavePrefs(d) \/ BeginPush(d) \/ BeginRestore(d)
      BY <3>1 DEF BeginGet, BeginSave, BeginSavePrefs, BeginPush, BeginRestore, Begin
    <3>2. CASE Look(d) \/ ReadDefault(d) \/ ReadProviders(d) \/ Keep(d)
      BY <3>2 DEF Look, ReadDefault, ReadProviders, Keep
    <3>3. CASE CommitProfile(d) \/ SavePrefs(d) \/ ApplySnapshot(d)
      BY <3>3 DEF CommitProfile, SavePrefs, ApplySnapshot
    <3>4. CASE ReadPrefs(d) \/ Upload(d) \/ WriteRollback(d) \/ Pull(d)
      BY <3>4 DEF ReadPrefs, Upload, WriteRollback, Pull
    <3>5. CASE RereadPrefs(d) \/ Notify(d) \/ Publish(d) \/ Fails(d)
      BY <3>5 DEF RereadPrefs, Notify, Publish, Fails
    <3>6. QED
      BY <1>4, <3>1, <3>2, <3>3, <3>4, <3>5 DEF Call
  <2>2. job'[c] = job[c] \/ job'[c] = [job[c] EXCEPT !.clean = FALSE]
    BY <1>1, <2>1 DEF Step, CommitStep
  <2>3. QED
    BY <1>1, <2>2 DEF Jobs
<1>5. QED
  BY <1>2, <1>3, <1>4

\* c's own step from the three places the property is about.
LEMMA OwnStep ==
    ASSUME NEW c \in Callers, Call(c)
    PROVE  /\ at(c) = "commit" => CommitProfile(c) \/ Fails(c)
           /\ at(c) = "upload" => Upload(c)
           /\ at(c) = "replace" => ApplySnapshot(c) \/ Fails(c)
<1>1. BeginGet(c) \/ BeginSave(c) \/ BeginSavePrefs(c) \/ BeginPush(c) \/ BeginRestore(c) => at(c) = "idle"
  BY DEF BeginGet, BeginSave, BeginSavePrefs, BeginPush, BeginRestore, Begin, at
<1>2. Look(c) \/ ReadDefault(c) \/ ReadProviders(c) \/ Keep(c) => at(c) \in ReadSteps
  BY DEF Look, ReadDefault, ReadProviders, Keep, ReadSteps
<1>3. RereadPrefs(c) \/ Notify(c) \/ Publish(c) \/ SavePrefs(c) => at(c) \in {"reread", "notify", "publish", "savePrefs"}
  BY DEF RereadPrefs, Notify, Publish, SavePrefs
<1>4. ReadPrefs(c) \/ WriteRollback(c) \/ Pull(c) => at(c) \in {"readPrefs", "rollback", "pull"}
  BY DEF ReadPrefs, WriteRollback, Pull
<1>5. (Upload(c) => at(c) = "upload") /\ (CommitProfile(c) => at(c) = "commit") /\ (ApplySnapshot(c) => at(c) = "replace")
  BY DEF Upload, CommitProfile, ApplySnapshot
<1>6. Fails(c) => at(c) # "upload"
  BY DEF Fails
<1>7. QED
  BY <1>1, <1>2, <1>3, <1>4, <1>5, <1>6 DEF Call, ReadSteps

LEMMA StepClean ==
    ASSUME TypeInv, CleanInv, [Next]_vars, NEW c \in Callers
    PROVE  CleanStepOf(c)
<1>1. /\ Good(job[c]) /\ GoalFits(job[c]) /\ WorkFits(job[c], db, rollback) /\ job \in [Callers -> Jobs]
      /\ db \in [prefs : Preferences, profiles : [Platforms -> Profiles], imported : BOOLEAN]
  BY DEF TypeInv, CallsGood, CleanInv, Good, DataTyped
<1>2. Idle.at = "idle" /\ Idle.goal = "none"
  BY DEF Idle
<1>3. CASE Start \/ Restart \/ OtherDevice \/ UNCHANGED vars \/ \E d \in Callers \ {c} : Call(d)
  <2>1. \/ job'[c].goal = job[c].goal /\ job'[c].at = job[c].at
        \/ job'[c] = Idle /\ UNCHANGED remote
    BY <1>3, OthersStep
  <2>2. QED
    BY <1>1, <1>2, <2>1 DEF CleanStepOf, GoalFits, at
<1>4. CASE Call(c)
  <2>1. ASSUME job[c].clean, at(c) = "commit", job'[c].goal = "saved"
        PROVE  KeepsNames(db.profiles[Platform(c)], db'.profiles[Platform(c)])
    <3>1. job[c].goal = "save" /\ at(c) # "idle" /\ at(c) \in Reading
      BY <1>1, <2>1 DEF GoalFits, at, Reading
    <3>2. Platform(c) \in Platforms
      BY <3>1, RunningCall
    <3>3. Works(job[c])
      BY <2>1, <3>1 DEF Works, Uncommitted, at
    <3>4. job[c].got[Platform(c)] = db.profiles[Platform(c)]
      BY <1>1, <2>1, <3>3 DEF WorkFits, Platform, at
    <3>5. job' # [job EXCEPT ![c] = Idle]
      BY <1>1, <1>2, <2>1
    <3>6. CommitProfile(c)
      BY <1>4, <2>1, <3>5, OwnStep DEF Fails, Step
    <3>7. /\ KeepsNames(job[c].got[Platform(c)], job[c].new[Platform(c)])
          /\ db' = [db EXCEPT !.profiles[Platform(c)] = job[c].new[Platform(c)]]
      BY <3>5, <3>6 DEF CommitProfile, Step
    <3>8. db'.profiles[Platform(c)] = job[c].new[Platform(c)]
      BY <1>1, <3>2, <3>7
    <3>9. QED
      BY <3>4, <3>7, <3>8
  <2>2. ASSUME job[c].clean, at(c) = "upload", remote' # remote
        PROVE  remote' = [prefs |-> db.prefs, profiles |-> db.profiles]
    <3>1. remote' = [prefs |-> job[c].prefs, profiles |-> job[c].got]
      BY <1>4, <2>2, OwnStep DEF Upload, Snapshot
    <3>2. Works(job[c])
      BY <1>1, <2>2 DEF Works, Uncommitted, GoalFits, ReadsAll, at
    <3>3. QED
      BY <1>1, <2>2, <3>1, <3>2 DEF WorkFits, at
  <2>3. ASSUME job[c].clean, at(c) = "replace"
        PROVE  rollback = [prefs |-> db.prefs, profiles |-> db.profiles]
    <3>1. Works(job[c])
      BY <1>1, <2>3 DEF Works, Uncommitted, GoalFits, ReadsAll, at
    <3>2. QED
      BY <1>1, <2>3, <3>1 DEF WorkFits, at
  <2>4. QED
    BY <2>1, <2>2, <2>3 DEF CleanStepOf
<1>5. QED
  BY <1>3, <1>4 DEF Next

\* A call that no other overlapped works on the stored configuration: a save
\* renames no provider, a push uploads what is stored, and a restore replaces
\* what its rollback file holds (service.go of routing and of configsync).
THEOREM CleanCallsWork == Spec => CleanCalls
<1>1. Init => CleanInv
  <2>1. Idle.at = "idle" /\ Idle.goal = "none"
    BY DEF Idle
  <2>2. QED
    BY <2>1, AllIdleClean DEF Init
<1>2. TypeInv /\ CleanInv /\ [Next]_vars => [\A c \in Callers : job[c].clean =>
         /\ at(c) = "commit" /\ job'[c].goal = "saved" =>
              KeepsNames(db.profiles[Platform(c)], db'.profiles[Platform(c)])
         /\ at(c) = "upload" /\ job'[c] = Idle /\ remote' # remote =>
              remote' = [prefs |-> db.prefs, profiles |-> db.profiles]
         /\ at(c) = "replace" /\ job'[c].at = "publish" =>
              rollback = [prefs |-> db.prefs, profiles |-> db.profiles]]_vars
  BY StepClean DEF CleanStepOf
<1>3. QED
  BY <1>1, <1>2, InitTypes, NextTypes, InitAgrees, NextAgrees, NextClean, PTL DEF Spec, CleanCalls

=============================================================================
