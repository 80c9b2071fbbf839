------------------------ MODULE PlatformProxyProofs ------------------------
(***************************************************************************)
(* Proofs about PlatformProxy, for any number of callers and any values a  *)
(* user may have: type correctness, the user's values are never lost, a    *)
(* cycle closes on restored files, the MCP entry is as asked, and Codex's  *)
(* two files are taken over together.                                      *)
(***************************************************************************)
EXTENDS PlatformProxy, TLAPS

-----------------------------------------------------------------------------
(* The inductive invariant.                                                *)

\* The managed fields of a file on disk, and as a caller has read them.
Managed(f) == Content(files[f]).managed
Seen(c, f) == Content(read[c][f]).managed

\* Where a caller's copy of a file is still what is on disk, edits apart.
KnowsConfig == {"enable_auth", "save", "take_config", "rollback_write", "disable_auth", "restore_auth",
                "restore_config", "rollback_auth", "inject_write", "remove_write"}
KnowsAuth == {"save", "take_config", "take_auth", "restore_auth"}
\* Where a cycle is open, and where the second file is in play.
InCycle == {"take_config", "take_auth", "rollback_read", "rollback_write", "disable_config",
            "disable_auth", "restore_auth", "restore_config", "rollback_auth"}
CodexOnly == {"enable_auth", "take_auth", "rollback_read", "rollback_write", "disable_auth",
              "restore_auth", "rollback_auth", "inject", "remove", "inject_write", "remove_write"}

\* A copy of a file is current, or the user has replaced the file.
Current(c, f) == files[f] = read[c][f] \/ (f \in edited /\ Managed(f) # Ours)

Restored(f) ==
    /\ Managed(f) # Ours
    /\ f \notin edited => /\ Managed(f) = snapshot[f].managed
                          /\ ~snapshot[f].existed => files[f] # Blank

Exclusive == \A c, d \in Callers : pc[c] # "idle" /\ pc[d] # "idle" => c = d

IdleReadsNothing == \A c \in Callers : pc[c] = "idle" => read[c] = NothingRead

OneFile ==
    ~codex => /\ files["auth"] = NoFile /\ snapshot["auth"] = Fresh
              /\ \A c \in Callers : read[c]["auth"] = NoFile /\ pc[c] \notin CodexOnly

SnapshotTheirs == \A f \in Files : snapshot[f].managed # Ours

SeenTheirs == phase # "active" => \A c \in Callers, f \in Files : Seen(c, f) # Ours

\* What holds of a caller at each point of its operation.
CycleOpenAt(c) ==
    /\ pc[c] \in InCycle => phase = "active"
    /\ pc[c] = "save" => phase # "active"

CopiesCurrentAt(c) ==
    /\ pc[c] \in KnowsConfig => Current(c, "config")
    /\ pc[c] \in KnowsAuth => Current(c, "auth")

RestoredAt(c) ==
    /\ pc[c] = "restore_config" => Restored("auth")
    /\ pc[c] = "close" /\ phase = "active" => \A f \in Files : Restored(f)

EntrySeenAt(c) == pc[c] \in KnowsConfig => Content(read[c]["config"]).mcp = asked

\* Codex's two files, at every point of an operation.
Together == Managed("config") = Ours <=> Managed("auth") = Ours

TakenAt(c) == pc[c] = "take_auth" => "config" \in edited \/ Managed("config") = Ours

TornByEdit == ~torn => edited = {}

TogetherAt(c) ==
    IF pc[c] = "take_auth" THEN Managed("auth") = Ours <=> Seen(c, "config") = Ours
    ELSE IF pc[c] \in {"rollback_read", "rollback_write"} THEN Managed("auth") # Ours
    ELSE IF pc[c] \in {"restore_config", "rollback_auth"} THEN Managed("config") = Ours <=> Seen(c, "auth") = Ours
    ELSE pc[c] # "idle" => Together

\* The invariant in four parts; each needs only those before it.
Shape == TypeOK /\ Exclusive /\ IdleReadsNothing /\ OneFile

Originals ==
    /\ OriginalsSaved /\ SnapshotTheirs /\ SeenTheirs
    /\ \A c \in Callers : CycleOpenAt(c) /\ CopiesCurrentAt(c) /\ RestoredAt(c)

Entry == McpAsAsked /\ \A c \in Callers : EntrySeenAt(c)

TwoFiles ==
    /\ TornByEdit /\ FilesTogether
    /\ \A c \in Callers : TakenAt(c) /\ (codex /\ ~torn => TogetherAt(c))

IInv == Shape /\ Originals /\ Entry /\ TwoFiles

-----------------------------------------------------------------------------
(* Files.                                                                  *)

\* A missing file counts as a blank one.
LEMMA ContentIsFile ==
    ASSUME NEW file \in File \union {NoFile}
    PROVE  /\ Content(file) \in File
           /\ file = NoFile => Content(file) = Blank
           /\ file # NoFile => Content(file) = file /\ file \in File
BY ProxyConstants DEF Content, File, Blank

\* Changing the managed fields leaves the rest of a file alone.
LEMMA WithManaged ==
    ASSUME NEW file \in File, NEW v \in Values \union {None, Ours}
    PROVE  /\ [file EXCEPT !.managed = v] \in File
           /\ [file EXCEPT !.managed = v].managed = v
           /\ [file EXCEPT !.managed = v].mcp = file.mcp
           /\ [file EXCEPT !.managed = v] = file => file.managed = v
BY DEF File

LEMMA BlankIsBlank == Blank \in File /\ Blank.managed = None /\ Blank.mcp = FALSE /\ NoFile # Blank
<1>1. Blank \in File
  BY DEF Blank, File
<1>2. Blank.managed = None /\ Blank.mcp = FALSE
  BY DEF Blank
<1>3. NoFile # Blank
  BY <1>1, ProxyConstants
<1> QED BY <1>1, <1>2, <1>3

\* What a write leaves on disk (writeConfigFileIfChanged).
LEMMA WrittenEffect ==
    ASSUME files \in [Files -> File \union {NoFile}],
           NEW f \in Files, NEW before, NEW after \in File,
           Written(f, before, after)
    PROVE  /\ files' \in [Files -> File \union {NoFile}]
           /\ \A g \in Files \ {f} : files'[g] = files[g]
           /\ \/ files' = files /\ after = Content(before)
              \/ files'[f] = after
BY DEF Written

\* What restoring a file leaves on disk (codexFileUpdate.apply): the original
\* value, the MCP entry as it was read, and no empty file that was not there.
LEMMA RestoreEffect ==
    ASSUME files \in [Files -> File \union {NoFile}], snapshot \in [Files -> Original],
           NEW f \in Files, NEW before \in File \union {NoFile},
           Restore(f, before)
    PROVE  /\ files' \in [Files -> File \union {NoFile}]
           /\ \A g \in Files \ {f} : files'[g] = files[g]
           /\ \/ /\ files' = files
                 /\ Content(before).managed = snapshot[f].managed
                 /\ ~snapshot[f].existed => before # Blank
              \/ /\ Content(files'[f]).managed = snapshot[f].managed
                 /\ Content(files'[f]).mcp = Content(before).mcp
                 /\ ~snapshot[f].existed => files'[f] # Blank
<1> DEFINE value == snapshot[f].managed
           after == [Content(before) EXCEPT !.managed = value]
<1>1. value \in Values \union {None, Ours} /\ snapshot[f].existed \in BOOLEAN
  BY DEF Original
<1>2. Content(before) \in File
  BY ContentIsFile
<1>3. after \in File /\ after.managed = value /\ after.mcp = Content(before).mcp
      /\ (after = Content(before) => Content(before).managed = value)
  BY <1>1, <1>2, WithManaged
<1>4. CASE Removes(before, snapshot[f])
  <2>1. ~snapshot[f].existed /\ after = Blank
    BY <1>4 DEF Removes
  <2>2. value = None /\ Content(before).mcp = FALSE
    BY <2>1, <1>3, BlankIsBlank
  <2>3. CASE before = NoFile
    BY <2>3, <2>2, <1>4, BlankIsBlank, ContentIsFile DEF Restore
  <2>4. CASE before # NoFile
    <3>1. files' = [files EXCEPT ![f] = NoFile]
      BY <2>4, <1>4 DEF Restore
    <3>2. Content(NoFile) = Blank
      BY DEF Content
    <3> QED BY <3>1, <3>2, <2>2, BlankIsBlank
  <2> QED BY <2>3, <2>4
<1>5. CASE ~Removes(before, snapshot[f])
  <2>1. Written(f, before, after)
    BY <1>5 DEF Restore
  <2>2. ~snapshot[f].existed => after # Blank
    BY <1>5 DEF Removes
  <2>3. CASE files' = files /\ after = Content(before)
    BY <2>3, <2>2, <1>3, ContentIsFile, BlankIsBlank DEF Content
  <2>4. CASE files'[f] = after
    <3>1. Content(files'[f]) = after
      BY <2>4, <1>3, ProxyConstants DEF Content
    <3> HIDE DEF after
    <3> QED BY <3>1, <2>4, <2>2, <1>3, <2>1, WrittenEffect
  <2> QED BY <2>1, <2>3, <2>4, <1>3, WrittenEffect
<1> QED BY <1>4, <1>5

\* A restore with nothing to change finds the original value already.
LEMMA NothingToChange ==
    ASSUME snapshot \in [Files -> Original],
           NEW f \in Files, NEW before \in File \union {NoFile},
           ~Changes(f, before)
    PROVE  Content(before).managed = snapshot[f].managed
<1>1. CASE Removes(before, snapshot[f])
  <2>1. before = NoFile /\ Content(before) = Blank
    BY <1>1 DEF Changes, Content
  <2>2. [Blank EXCEPT !.managed = snapshot[f].managed] = Blank
    BY <1>1, <2>1 DEF Removes
  <2>3. snapshot[f].managed \in Values \union {None, Ours}
    BY DEF Original
  <2> QED BY <2>1, <2>2, <2>3, BlankIsBlank, WithManaged
<1>2. CASE ~Removes(before, snapshot[f])
  BY <1>2 DEF Changes
<1> QED BY <1>1, <1>2

-----------------------------------------------------------------------------
(* The mutex: a step of a caller takes it, keeps it or gives it back.      *)

Control ==
    /\ mu \in BOOLEAN
    /\ pc \in [Callers -> Labels]
    /\ read \in [Callers -> [Files -> File \union {NoFile}]]
    /\ mu <=> \E c \in Callers : pc[c] # "idle"
    /\ Exclusive /\ IdleReadsNothing

Begins(c) ==
    /\ pc[c] = "idle" /\ ~mu /\ mu' = TRUE
    /\ \E label \in Labels \ {"idle"} : pc' = [pc EXCEPT ![c] = label]
    /\ UNCHANGED read

Goes(c) ==
    /\ pc[c] # "idle" /\ UNCHANGED mu
    /\ \E label \in Labels \ {"idle"} : pc' = [pc EXCEPT ![c] = label]
    /\ UNCHANGED read \/ \E f \in Files : Load(c, f)

Ends(c) == pc[c] # "idle" /\ Unlock(c)

CallerStep(c) == Begins(c) \/ Goes(c) \/ Ends(c)

\* The others are idle and stay so.
LEMMA ControlStep ==
    ASSUME Control, files \in [Files -> File \union {NoFile}], NEW c \in Callers, CallerStep(c)
    PROVE  /\ Control'
           /\ \A d \in Callers \ {c} : /\ pc[d] = "idle" /\ pc'[d] = "idle"
                                      /\ read[d] = NothingRead /\ read'[d] = NothingRead
<1> USE DEF Control
<1>1. NothingRead \in [Files -> File \union {NoFile}] /\ "idle" \in Labels
  BY DEF NothingRead, Labels
<1>2. \A d \in Callers \ {c} : pc[d] = "idle" /\ read[d] = NothingRead
  BY DEF CallerStep, Begins, Goes, Ends, Exclusive, IdleReadsNothing
<1>3. CASE Begins(c)
  BY <1>2, <1>3 DEF Begins, Exclusive, IdleReadsNothing
<1>4. CASE Goes(c)
  <2>1. PICK label \in Labels \ {"idle"} : pc' = [pc EXCEPT ![c] = label]
    BY <1>4 DEF Goes
  <2>2. read' \in [Callers -> [Files -> File \union {NoFile}]]
        /\ \A d \in Callers \ {c} : read'[d] = read[d]
    BY <1>4 DEF Goes, Load
  <2> QED BY <1>2, <1>4, <2>1, <2>2 DEF Goes, Exclusive, IdleReadsNothing
<1>5. CASE Ends(c)
  BY <1>1, <1>2, <1>5 DEF Ends, Unlock, Goto, Exclusive, IdleReadsNothing
<1> QED BY <1>3, <1>4, <1>5 DEF CallerStep

\* Every action of a caller is such a step.
LEMMA ActionsAreSteps ==
    ASSUME Control, NEW c \in Callers, Enable(c) \/ Disable(c) \/ Mcp(c)
    PROVE  CallerStep(c)
<1> USE DEF CallerStep, Begins, Goes, Ends, Labels, Lock, Goto, Fails, Files
<1>1. CASE EnableBegin(c)
  BY <1>1 DEF EnableBegin
<1>2. CASE EnableRead(c)
  BY <1>2 DEF EnableRead
<1>3. CASE SaveSnapshot(c)
  BY <1>3 DEF SaveSnapshot
<1>4. CASE TakeConfig(c)
  BY <1>4 DEF TakeConfig
<1>5. CASE TakeAuth(c)
  BY <1>5 DEF TakeAuth
<1>6. CASE RollbackConfig(c)
  BY <1>6 DEF RollbackConfig
<1>7. CASE DisableBegin(c)
  BY <1>7 DEF DisableBegin
<1>8. CASE DisableLoad(c)
  BY <1>8 DEF DisableLoad
<1>9. CASE DisableRead(c)
  BY <1>9 DEF DisableRead
<1>10. CASE RestoreAuth(c)
  BY <1>10 DEF RestoreAuth
<1>11. CASE RestoreConfig(c)
  BY <1>11 DEF RestoreConfig
<1>12. CASE RollbackAuth(c)
  BY <1>12 DEF RollbackAuth
<1>13. CASE CloseCycle(c)
  BY <1>13 DEF CloseCycle
<1>14. CASE McpRead(c)
  BY <1>14 DEF McpRead
<1>15. CASE McpWrite(c)
  BY <1>15 DEF McpWrite
<1>16. CASE McpBegin(c, "inject") \/ McpBegin(c, "remove")
  BY <1>16 DEF McpBegin
<1> QED
  BY <1>1, <1>2, <1>3, <1>4, <1>5, <1>6, <1>7, <1>8, <1>9, <1>10, <1>11, <1>12, <1>13, <1>14, <1>15, <1>16 DEF Enable, Disable, Mcp

-----------------------------------------------------------------------------
(* First part: types, the mutex, and what does not exist without Codex.    *)

Data ==
    /\ codex \in BOOLEAN
    /\ files \in [Files -> File \union {NoFile}]
    /\ phase \in {"none", "active", "inactive"}
    /\ snapshot \in [Files -> Original]
    /\ edited \in SUBSET Files
    /\ torn \in BOOLEAN /\ asked \in BOOLEAN
    /\ phase # "active" => \A f \in Files : snapshot[f] = Fresh

LEMMA ShapeParts == Shape <=> Data /\ Control /\ OneFile
BY DEF Shape, TypeOK, Data, Control

LEMMA ShapeInit == Init => Shape
<1> SUFFICES ASSUME Init PROVE Shape
  OBVIOUS
<1>1. UserFile \subseteq File /\ Fresh \in Original
  BY DEF UserFile, File, Fresh, Original
<1>2. Data
  BY <1>1 DEF Init, Data
<1>3. Control
  BY DEF Init, Control, Exclusive, IdleReadsNothing, NothingRead, Labels
<1>4. OneFile
  BY DEF Init, OneFile, NothingRead, Files, CodexOnly
<1> QED BY <1>2, <1>3, <1>4, ShapeParts

\* A step of a caller changes the data by a write, a restore, or not at all.
LEMMA DataStep ==
    ASSUME Shape, NEW c \in Callers, Enable(c) \/ Disable(c) \/ Mcp(c)
    PROVE  Data'
<1> USE ShapeParts DEF Data
<1>0. read[c] \in [Files -> File \union {NoFile}] /\ "config" \in Files /\ "auth" \in Files
  BY DEF Control, Files
<1> DEFINE config == read[c]["config"]
           auth == read[c]["auth"]
<1>a. /\ config \in File \union {NoFile} /\ Content(config) \in File
      /\ auth \in File \union {NoFile} /\ Content(auth) \in File
  BY <1>0, ContentIsFile
<1>b. TakenOver(config) \in File /\ TakenOver(auth) \in File
  BY <1>a, WithManaged DEF TakenOver
<1>c. \A entry \in BOOLEAN : [Content(config) EXCEPT !.mcp = entry] \in File
  BY <1>a DEF File
<1> HIDE DEF config, auth
<1>1. CASE EnableBegin(c)
  BY <1>1 DEF EnableBegin, history, Fails
<1>2. CASE EnableRead(c)
  BY <1>2 DEF EnableRead, history, Fails
<1>3. CASE SaveSnapshot(c)
  <2>1. \A f \in Files : [existed |-> read[c][f] # NoFile, managed |-> Content(read[c][f]).managed] \in Original
    BY <1>0, ContentIsFile DEF Original, File
  <2> QED BY <2>1, <1>3 DEF SaveSnapshot, history, Fails
<1>4. CASE TakeConfig(c)
  BY <1>4, <1>0, <1>b, WrittenEffect DEF TakeConfig, history, Fails, config, auth
<1>5. CASE TakeAuth(c)
  BY <1>5, <1>0, <1>b, WrittenEffect DEF TakeAuth, history, Fails, config, auth
<1>6. CASE RollbackConfig(c)
  BY <1>6, <1>0, <1>a, RestoreEffect DEF RollbackConfig, history, Fails, config, auth
<1>7. CASE DisableBegin(c)
  BY <1>7 DEF DisableBegin, history, Fails
<1>8. CASE DisableLoad(c)
  BY <1>8 DEF DisableLoad, history, Fails
<1>9. CASE DisableRead(c)
  BY <1>9 DEF DisableRead, history, Fails
<1>10. CASE RestoreAuth(c)
  BY <1>10, <1>0, <1>a, RestoreEffect DEF RestoreAuth, history, Fails, config, auth
<1>11. CASE RestoreConfig(c)
  BY <1>11, <1>0, <1>a, RestoreEffect DEF RestoreConfig, history, Fails, config, auth
<1>12. CASE RollbackAuth(c)
  BY <1>12, <1>0, <1>a DEF RollbackAuth, history, Fails, config, auth
<1>13. CASE CloseCycle(c)
  <2>1. Fresh \in Original
    BY DEF Fresh, Original
  <2> QED BY <2>1, <1>13 DEF CloseCycle, history, Fails
<1>14. CASE McpRead(c)
  BY <1>14 DEF McpRead, history, Fails
<1>15. CASE McpWrite(c)
  BY <1>15, <1>0, <1>c, WrittenEffect DEF McpWrite, history, Fails, config, auth
<1>16. CASE McpBegin(c, "inject") \/ McpBegin(c, "remove")
  BY <1>16 DEF McpBegin, history
<1> QED
  BY <1>1, <1>2, <1>3, <1>4, <1>5, <1>6, <1>7, <1>8, <1>9, <1>10, <1>11, <1>12, <1>13, <1>14, <1>15, <1>16 DEF Enable, Disable, Mcp

\* Without Codex the second file is never read or written.
LEMMA OneFileStep ==
    ASSUME Shape, NEW c \in Callers, Enable(c) \/ Disable(c) \/ Mcp(c)
    PROVE  OneFile'
<1> SUFFICES ASSUME ~codex, codex' = codex PROVE OneFile'
  <2>1. codex' = codex
    BY DEF Enable, Disable, Mcp, EnableBegin, EnableRead, SaveSnapshot, TakeConfig, TakeAuth, RollbackConfig,
           DisableBegin, DisableLoad, DisableRead, RestoreAuth, RestoreConfig, RollbackAuth, CloseCycle,
           McpBegin, McpRead, McpWrite, Fails
  <2> QED BY <2>1 DEF OneFile
<1>0. /\ files \in [Files -> File \union {NoFile}] /\ snapshot \in [Files -> Original]
      /\ read \in [Callers -> [Files -> File \union {NoFile}]] /\ pc \in [Callers -> Labels]
      /\ "config" \in Files /\ "auth" \in Files /\ "config" # "auth" /\ OneFile
  BY ShapeParts DEF Data, Control, Files
<1>a. Control' /\ \A d \in Callers \ {c} : /\ pc'[d] = "idle" /\ read'[d] = NothingRead
  BY ActionsAreSteps, ControlStep, ShapeParts DEF Data
<1>b. pc[c] \notin CodexOnly /\ files["auth"] = NoFile /\ snapshot["auth"] = Fresh /\ read[c]["auth"] = NoFile
  BY <1>0 DEF OneFile
<1>c. ASSUME pc'[c] \notin CodexOnly, read'[c]["auth"] = NoFile, files'["auth"] = NoFile, snapshot'["auth"] = Fresh
      PROVE  OneFile'
  BY <1>0, <1>a, <1>c DEF OneFile, NothingRead, CodexOnly
<1>d. ASSUME files'["auth"] = files["auth"], UNCHANGED snapshot, Unlock(c) PROVE OneFile'
  BY <1>0, <1>b, <1>c, <1>d DEF Unlock, Goto, NothingRead, CodexOnly
<1>e. ASSUME Fails(c) PROVE OneFile'
  BY <1>d, <1>e DEF Fails
<1> DEFINE before == read[c]["config"]
<1>h. before \in File \union {NoFile} /\ Content(before) \in File
  BY <1>0, ContentIsFile
<1>f. TakenOver(before) \in File
  BY <1>h, WithManaged DEF TakenOver
<1> HIDE DEF before
<1>g. ASSUME Written("config", before, TakenOver(before)) \/ Restore("config", before)
      PROVE  files'["auth"] = files["auth"]
  BY <1>0, <1>f, <1>g, <1>h, WrittenEffect, RestoreEffect DEF before
<1> USE DEF Lock, Goto, Load, CodexOnly
<1>1. CASE EnableBegin(c)
  BY <1>1, <1>0, <1>b, <1>c DEF EnableBegin
<1>2. CASE EnableRead(c)
  BY <1>2, <1>0, <1>b, <1>c, <1>e DEF EnableRead
<1>3. CASE SaveSnapshot(c)
  BY <1>3, <1>0, <1>b, <1>c, <1>e DEF SaveSnapshot, Fresh, Content, Blank
<1>4. CASE TakeConfig(c)
  BY <1>4, <1>0, <1>b, <1>c, <1>e, <1>d, <1>g DEF TakeConfig, before
<1>5. CASE TakeAuth(c)
  BY <1>5, <1>0, <1>b, <1>c DEF TakeAuth
<1>6. CASE RollbackConfig(c)
  BY <1>6, <1>0, <1>b, <1>c DEF RollbackConfig
<1>7. CASE DisableBegin(c)
  BY <1>7, <1>0, <1>b, <1>c DEF DisableBegin
<1>8. CASE DisableLoad(c)
  BY <1>8, <1>0, <1>b, <1>c, <1>d DEF DisableLoad
<1>9. CASE DisableRead(c)
  BY <1>9, <1>0, <1>b, <1>c, <1>e DEF DisableRead
<1>10. CASE RestoreAuth(c)
  BY <1>10, <1>0, <1>b, <1>c, <1>e DEF RestoreAuth
<1>11. CASE RestoreConfig(c)
  BY <1>11, <1>0, <1>b, <1>c, <1>d, <1>g DEF RestoreConfig, before
<1>12. CASE RollbackAuth(c)
  BY <1>12, <1>0, <1>b, <1>c DEF RollbackAuth
<1>13. CASE CloseCycle(c)
  BY <1>13, <1>0, <1>b, <1>c, <1>e, <1>d DEF CloseCycle, Unlock, NothingRead
<1>14. CASE McpRead(c)
  BY <1>14, <1>0, <1>b, <1>c, <1>e DEF McpRead
<1>15. CASE McpWrite(c)
  BY <1>15, <1>0, <1>b, <1>c, <1>e DEF McpWrite
<1>16. CASE McpBegin(c, "inject") \/ McpBegin(c, "remove")
  BY <1>16 DEF McpBegin
<1> QED
  BY <1>1, <1>2, <1>3, <1>4, <1>5, <1>6, <1>7, <1>8, <1>9, <1>10, <1>11, <1>12, <1>13, <1>14, <1>15, <1>16 DEF Enable, Disable, Mcp

LEMMA ShapeStep == Shape /\ [Next]_vars => Shape'
<1> SUFFICES ASSUME Shape, [Next]_vars PROVE Shape'
  OBVIOUS
<1>0. Data /\ Control /\ OneFile
  BY ShapeParts
<1>1. ASSUME NEW c \in Callers, Enable(c) \/ Disable(c) \/ Mcp(c) PROVE Shape'
  <2>1. Control'
    BY <1>0, <1>1, ActionsAreSteps, ControlStep DEF Data
  <2> QED BY <1>1, <2>1, DataStep, OneFileStep, ShapeParts DEF Shape, TypeOK, Data, Control
<1>2. ASSUME NEW f \in Files, NEW managed \in Values \union {None}, NEW other \in BOOLEAN, Edit(f, managed, other)
      PROVE Shape'
  <2>1. Content(files[f]) \in File
    BY <1>0, ContentIsFile DEF Data
  <2>2. [Content(files[f]) EXCEPT !.managed = managed, !.other = other] \in File
    BY <2>1 DEF File
  <2>3. files' \in [Files -> File \union {NoFile}]
    BY <1>0, <1>2, <2>2 DEF Edit, Data
  <2>4. Data'
    BY <1>0, <1>2, <2>3 DEF Edit, Data
  <2>5. Control'
    BY <1>0, <1>2 DEF Edit, Control, Exclusive, IdleReadsNothing
  <2>6. OneFile'
    BY <1>0, <1>2 DEF Edit, Data, OneFile, Files
  <2> QED BY <2>4, <2>5, <2>6 DEF Shape, TypeOK, Data, Control
<1>3. CASE Crash
  <2>1. Data'
    BY <1>0, <1>3 DEF Crash, Data
  <2>2. Control'
    BY <1>3 DEF Crash, Control, Exclusive, IdleReadsNothing, NothingRead, Labels
  <2>3. OneFile'
    BY <1>0, <1>3 DEF Crash, OneFile, NothingRead, CodexOnly, Files
  <2> QED BY <2>1, <2>2, <2>3 DEF Shape, TypeOK, Data, Control
<1>4. CASE UNCHANGED vars
  BY <1>4 DEF vars, Shape, TypeOK, Exclusive, IdleReadsNothing, OneFile
<1> QED
  BY <1>1, <1>2, <1>3, <1>4 DEF Next

-----------------------------------------------------------------------------
(* Second part: the originals.                                             *)

\* Taking a file over that was read before: it points at the relay, or the
\* user has replaced it since.
LEMMA TakeoverEffect ==
    ASSUME Shape, NEW c \in Callers, NEW f \in Files, Current(c, f),
           Written(f, read[c][f], TakenOver(read[c][f]))
    PROVE  /\ \A g \in Files \ {f} : files'[g] = files[g]
           /\ Content(files'[f]).mcp = Content(files[f]).mcp \/ Content(files'[f]).mcp = Content(read[c][f]).mcp
           /\ f \in edited \/ Content(files'[f]).managed = Ours
<1>1. files \in [Files -> File \union {NoFile}] /\ read[c][f] \in File \union {NoFile}
  BY ShapeParts DEF Data, Control
<1>2. Content(read[c][f]) \in File
  BY <1>1, ContentIsFile
<1>3. /\ TakenOver(read[c][f]) \in File /\ TakenOver(read[c][f]).managed = Ours
      /\ TakenOver(read[c][f]).mcp = Content(read[c][f]).mcp
  BY <1>2, WithManaged DEF TakenOver
<1>4. TakenOver(read[c][f]) # NoFile /\ Content(TakenOver(read[c][f])) = TakenOver(read[c][f])
  BY <1>3, ProxyConstants DEF Content
<1>5. CASE files' = files /\ TakenOver(read[c][f]) = Content(read[c][f])
  BY <1>3, <1>5 DEF Current
<1>6. CASE files'[f] = TakenOver(read[c][f])
  BY <1>1, <1>3, <1>4, <1>6, WrittenEffect
<1> QED BY <1>1, <1>3, <1>5, <1>6, WrittenEffect

\* Restoring a file that was read before restores it, or the user has
\* replaced it since.
LEMMA RestoreRestores ==
    ASSUME Shape, SnapshotTheirs, NEW c \in Callers, NEW f \in Files, Current(c, f),
           Restore(f, read[c][f]), UNCHANGED <<snapshot, edited>>
    PROVE  /\ Restored(f)'
           /\ \A g \in Files \ {f} : files'[g] = files[g]
           /\ Content(files'[f]).mcp = Content(files[f]).mcp \/ Content(files'[f]).mcp = Content(read[c][f]).mcp
<1>1. /\ files \in [Files -> File \union {NoFile}] /\ snapshot \in [Files -> Original]
      /\ read[c][f] \in File \union {NoFile}
  BY ShapeParts DEF Data, Control
<1>2. snapshot[f].managed # Ours
  BY DEF SnapshotTheirs
<1> QED BY <1>1, <1>2, RestoreEffect DEF Restored, Managed, Current

LEMMA OriginalsInit == Init => Originals
<1> SUFFICES ASSUME Init PROVE Originals
  OBVIOUS
<1>1. \A f \in Files : Content(files[f]).managed # Ours
  <2> SUFFICES ASSUME NEW f \in Files PROVE Content(files[f]).managed # Ours
    OBVIOUS
  <2>1. files[f] \in UserFile \union {NoFile}
    BY DEF Init
  <2> QED BY <2>1, ProxyConstants DEF Content, UserFile, Blank
<1>2. Content(NoFile).managed = None /\ None # Ours
  BY BlankIsBlank, ProxyConstants DEF Content
<1> QED BY <1>1, <1>2 DEF Init, Originals, OriginalsSaved, SnapshotTheirs, SeenTheirs, Seen, Managed, NothingRead,
           Fresh, CycleOpenAt, CopiesCurrentAt, RestoredAt, InCycle, KnowsConfig, KnowsAuth

LEMMA OriginalsStep ==
    ASSUME Shape, Originals, NEW c \in Callers, Enable(c) \/ Disable(c) \/ Mcp(c)
    PROVE  Originals'
<1>0. /\ files \in [Files -> File \union {NoFile}] /\ snapshot \in [Files -> Original]
      /\ read \in [Callers -> [Files -> File \union {NoFile}]] /\ pc \in [Callers -> Labels]
      /\ "config" \in Files /\ "auth" \in Files /\ "config" # "auth" /\ Files = {"config", "auth"}
      /\ OneFile /\ (pc[c] = "idle" => read[c] = NothingRead)
  BY ShapeParts DEF Data, Control, Files, IdleReadsNothing
<1>1. /\ OriginalsSaved /\ SnapshotTheirs /\ SeenTheirs
      /\ CycleOpenAt(c) /\ CopiesCurrentAt(c) /\ RestoredAt(c)
  BY DEF Originals
<1>2. Content(NoFile).managed = None /\ None # Ours /\ NoFile # Blank
  BY BlankIsBlank, ProxyConstants DEF Content
<1>3. \A d \in Callers \ {c} : pc'[d] = "idle" /\ read'[d] = NothingRead
  BY ActionsAreSteps, ControlStep, ShapeParts DEF Data
<1>4. ASSUME OriginalsSaved', SnapshotTheirs', phase' # "active" => \A f \in Files : Seen(c, f)' # Ours,
             CycleOpenAt(c)', CopiesCurrentAt(c)', RestoredAt(c)'
      PROVE  Originals'
  <2>1. \A d \in Callers \ {c} : CycleOpenAt(d)' /\ CopiesCurrentAt(d)' /\ RestoredAt(d)'
    BY <1>3 DEF CycleOpenAt, CopiesCurrentAt, RestoredAt, InCycle, KnowsConfig, KnowsAuth
  <2>2. \A d \in Callers \ {c}, f \in Files : Seen(d, f)' # Ours
    BY <1>2, <1>3 DEF Seen, NothingRead
  <2> QED BY <1>4, <2>1, <2>2 DEF Originals, SeenTheirs
<1>5. ASSUME Unlock(c), OriginalsSaved', SnapshotTheirs' PROVE Originals'
  <2>1. pc'[c] = "idle" /\ read'[c] = NothingRead
    BY <1>0, <1>5 DEF Unlock, Goto
  <2>2. CycleOpenAt(c)' /\ CopiesCurrentAt(c)' /\ RestoredAt(c)'
    BY <2>1 DEF CycleOpenAt, CopiesCurrentAt, RestoredAt, InCycle, KnowsConfig, KnowsAuth
  <2>3. \A f \in Files : Seen(c, f)' # Ours
    BY <1>2, <2>1 DEF Seen, NothingRead
  <2> QED BY <1>4, <1>5, <2>2, <2>3
<1>6. ASSUME UNCHANGED <<files, phase, snapshot>> PROVE OriginalsSaved' /\ SnapshotTheirs'
  BY <1>1, <1>6 DEF OriginalsSaved, SnapshotTheirs
<1>7. ASSUME Fails(c) PROVE Originals'
  BY <1>5, <1>6, <1>7 DEF Fails
<1>8. ASSUME phase = "active", UNCHANGED <<phase, snapshot>> PROVE OriginalsSaved' /\ SnapshotTheirs'
  BY <1>1, <1>8 DEF OriginalsSaved, SnapshotTheirs
<1>9. ASSUME phase # "active" PROVE \A f \in Files : Managed(f) # Ours /\ Seen(c, f) # Ours
  BY <1>1, <1>9 DEF OriginalsSaved, SeenTheirs, Managed
<1> USE DEF CycleOpenAt, InCycle, KnowsConfig, KnowsAuth, CopiesCurrentAt, RestoredAt, Goto, Lock, Load
<1>10. CASE EnableBegin(c)
  <2>1. UNCHANGED <<files, phase, snapshot, read>> /\ pc'[c] = "enable_config"
    BY <1>0, <1>10 DEF EnableBegin
  <2> QED BY <1>4, <1>6, <1>9, <2>1 DEF Seen
<1>11. CASE EnableRead(c)
  <2>1. CASE Fails(c)
    BY <1>7, <2>1
  <2>2. CASE ~Fails(c)
    <3>1. /\ UNCHANGED <<files, phase, snapshot, edited>>
          /\ \/ pc[c] = "enable_config" /\ Load(c, "config")
             \/ pc[c] = "enable_auth" /\ Load(c, "auth")
          /\ \/ pc'[c] = "enable_auth" /\ pc[c] = "enable_config"
             \/ pc'[c] = "take_config" /\ phase = "active"
             \/ pc'[c] = "save" /\ phase # "active"
          /\ pc[c] = "enable_config" /\ pc'[c] # "enable_auth" => ~codex
      BY <1>0, <1>11, <2>2 DEF EnableRead, history
    <3>2. CopiesCurrentAt(c)'
      BY <1>0, <1>1, <3>1 DEF Current, OneFile, Managed
    <3>3. phase' # "active" => \A f \in Files : Seen(c, f)' # Ours
      BY <1>0, <1>9, <3>1 DEF Seen, Managed
    <3> QED BY <1>4, <1>6, <3>1, <3>2, <3>3
  <2> QED BY <2>1, <2>2
<1>12. CASE SaveSnapshot(c)
  <2>1. CASE Fails(c)
    BY <1>7, <2>1
  <2>2. CASE ~Fails(c)
    <3>1. /\ UNCHANGED <<files, read, edited>> /\ phase' = "active" /\ pc'[c] = "take_config"
          /\ pc[c] = "save"
          /\ \A f \in Files : snapshot'[f].managed = Seen(c, f)
      BY <1>0, <1>12, <2>2 DEF SaveSnapshot, history, Seen
    <3>2. OriginalsSaved' /\ SnapshotTheirs'
      BY <1>1, <1>9, <3>1 DEF OriginalsSaved, SnapshotTheirs, Managed
    <3>3. CopiesCurrentAt(c)'
      BY <1>1, <3>1 DEF Current, Managed
    <3> QED BY <1>4, <3>1, <3>2, <3>3
  <2> QED BY <2>1, <2>2
<1>13. CASE TakeConfig(c)
  <2>1. CASE Fails(c)
    BY <1>7, <2>1
  <2>2. CASE ~Fails(c)
    <3>1. /\ pc[c] = "take_config" /\ UNCHANGED <<phase, snapshot, edited>>
          /\ Written("config", read[c]["config"], TakenOver(read[c]["config"]))
          /\ Unlock(c) \/ (pc'[c] = "take_auth" /\ UNCHANGED read)
      BY <1>0, <1>13, <2>2 DEF TakeConfig
    <3>2. phase = "active" /\ Current(c, "config") /\ Current(c, "auth")
      BY <1>1, <3>1
    <3>3. OriginalsSaved' /\ SnapshotTheirs'
      BY <1>8, <3>1, <3>2
    <3>4. CASE Unlock(c)
      BY <1>5, <3>3, <3>4
    <3>5. CASE pc'[c] = "take_auth" /\ UNCHANGED read
      <4>1. files'["auth"] = files["auth"]
        BY <1>0, <3>1, <3>2, TakeoverEffect
      <4>2. CopiesCurrentAt(c)'
        BY <3>1, <3>2, <3>5, <4>1 DEF Current, Managed
      <4> QED BY <1>4, <3>1, <3>2, <3>3, <3>5, <4>2
    <3> QED BY <3>1, <3>4, <3>5
  <2> QED BY <2>1, <2>2
<1>14. CASE TakeAuth(c)
  <2>1. /\ pc[c] = "take_auth" /\ UNCHANGED <<phase, snapshot>>
        /\ Unlock(c) \/ (pc'[c] = "rollback_read" /\ UNCHANGED read)
    BY <1>0, <1>14 DEF TakeAuth
  <2>2. phase = "active" /\ OriginalsSaved' /\ SnapshotTheirs'
    BY <1>1, <1>8, <2>1
  <2>3. CASE Unlock(c)
    BY <1>5, <2>2, <2>3
  <2>4. CASE pc'[c] = "rollback_read" /\ UNCHANGED read
    BY <1>4, <2>1, <2>2, <2>4
  <2> QED BY <2>1, <2>3, <2>4
<1>15. CASE RollbackConfig(c)
  <2>1. /\ pc[c] \in {"rollback_read", "rollback_write"} /\ UNCHANGED <<phase, snapshot>>
        /\ \/ Unlock(c)
           \/ pc'[c] = "rollback_write" /\ Load(c, "config") /\ UNCHANGED <<files, edited>>
    BY <1>0, <1>15 DEF RollbackConfig, history
  <2>2. phase = "active" /\ OriginalsSaved' /\ SnapshotTheirs'
    BY <1>1, <1>8, <2>1
  <2>3. CASE Unlock(c)
    BY <1>5, <2>2, <2>3
  <2>4. CASE pc'[c] = "rollback_write" /\ Load(c, "config") /\ UNCHANGED <<files, edited>>
    <3>1. CopiesCurrentAt(c)'
      BY <1>0, <2>4 DEF Current
    <3> QED BY <1>4, <2>1, <2>2, <2>4, <3>1
  <2> QED BY <2>1, <2>3, <2>4
<1>16. CASE DisableBegin(c)
  <2>1. UNCHANGED <<files, phase, snapshot, read>> /\ pc'[c] = "disable"
    BY <1>0, <1>16 DEF DisableBegin
  <2> QED BY <1>4, <1>6, <1>9, <2>1 DEF Seen
<1>17. CASE DisableLoad(c)
  <2>1. /\ pc[c] = "disable" /\ UNCHANGED <<files, phase, snapshot>>
        /\ \/ Unlock(c)
           \/ pc'[c] = "disable_config" /\ phase = "active" /\ UNCHANGED read
           \/ pc'[c] = "close" /\ phase = "none" /\ UNCHANGED read
    BY <1>0, <1>17 DEF DisableLoad
  <2>2. OriginalsSaved' /\ SnapshotTheirs'
    BY <1>6, <2>1
  <2>3. CASE Unlock(c)
    BY <1>5, <2>2, <2>3
  <2>4. CASE ~Unlock(c)
    BY <1>4, <1>9, <2>1, <2>2, <2>4 DEF Seen
  <2> QED BY <2>3, <2>4
<1>18. CASE DisableRead(c)
  <2>1. CASE Fails(c)
    BY <1>7, <2>1
  <2>2. CASE ~Fails(c)
    <3>1. /\ UNCHANGED <<files, phase, snapshot, edited>>
          /\ \/ pc[c] = "disable_config" /\ Load(c, "config") /\ pc'[c] = "disable_auth"
             \/ pc[c] = "disable_config" /\ Load(c, "config") /\ pc'[c] = "restore_config" /\ ~codex
             \/ pc[c] = "disable_auth" /\ Load(c, "auth") /\ pc'[c] = "restore_auth"
      BY <1>0, <1>18, <2>2 DEF DisableRead, history
    <3>2. CopiesCurrentAt(c)'
      BY <1>0, <1>1, <3>1 DEF Current, Managed
    <3>3. ~codex => Restored("auth")'
      BY <1>0, <1>2, <3>1 DEF OneFile, Restored, Managed, Fresh
    <3> QED BY <1>1, <1>4, <1>6, <3>1, <3>2, <3>3
  <2> QED BY <2>1, <2>2
<1>19. CASE RestoreAuth(c)
  <2>1. CASE Fails(c)
    BY <1>7, <2>1
  <2>2. CASE ~Fails(c)
    <3>1. /\ pc[c] = "restore_auth" /\ UNCHANGED <<phase, snapshot, read, edited>>
          /\ pc'[c] = "restore_config" /\ Restore("auth", read[c]["auth"])
      BY <1>0, <1>19, <2>2 DEF RestoreAuth, history
    <3>2. phase = "active" /\ Current(c, "config") /\ Current(c, "auth")
      BY <1>1, <3>1
    <3>3. OriginalsSaved' /\ SnapshotTheirs'
      BY <1>8, <3>1, <3>2
    <3>4. Restored("auth")' /\ files'["config"] = files["config"]
      BY <1>0, <1>1, <3>1, <3>2, RestoreRestores
    <3>5. CopiesCurrentAt(c)'
      BY <3>1, <3>2, <3>4 DEF Current, Managed
    <3> QED BY <1>4, <3>1, <3>2, <3>3, <3>4, <3>5
  <2> QED BY <2>1, <2>2
<1>20. CASE RestoreConfig(c)
  <2>1. /\ pc[c] = "restore_config" /\ UNCHANGED <<phase, snapshot, edited>>
        /\ \/ Unlock(c)
           \/ pc'[c] = "rollback_auth" /\ UNCHANGED <<files, read>>
           \/ pc'[c] = "close" /\ Restore("config", read[c]["config"]) /\ UNCHANGED read
    BY <1>0, <1>20 DEF RestoreConfig, history
  <2>2. phase = "active" /\ OriginalsSaved' /\ SnapshotTheirs' /\ Current(c, "config") /\ Restored("auth")
    BY <1>1, <1>8, <2>1
  <2>3. CASE Unlock(c)
    BY <1>5, <2>2, <2>3
  <2>4. CASE pc'[c] = "rollback_auth" /\ UNCHANGED <<files, read>>
    <3>1. CopiesCurrentAt(c)'
      BY <2>1, <2>2, <2>4 DEF Current, Managed
    <3> QED BY <1>4, <2>1, <2>2, <2>4, <3>1
  <2>5. CASE pc'[c] = "close" /\ Restore("config", read[c]["config"]) /\ UNCHANGED read
    <3>1. Restored("config")' /\ files'["auth"] = files["auth"]
      BY <1>0, <1>1, <2>1, <2>2, <2>5, RestoreRestores
    <3>2. \A f \in Files : Restored(f)'
      BY <1>0, <2>1, <2>2, <3>1 DEF Restored, Managed
    <3> QED BY <1>4, <2>1, <2>2, <2>5, <3>2
  <2> QED BY <2>1, <2>3, <2>4, <2>5
<1>21. CASE RollbackAuth(c)
  <2>1. pc[c] = "rollback_auth" /\ UNCHANGED <<phase, snapshot>> /\ Unlock(c)
    BY <1>21 DEF RollbackAuth
  <2> QED BY <1>1, <1>5, <1>8, <2>1
<1>22. CASE CloseCycle(c)
  <2>1. CASE Fails(c)
    BY <1>7, <2>1
  <2>2. CASE ~Fails(c)
    <3>1. /\ pc[c] = "close" /\ UNCHANGED files /\ Unlock(c)
          /\ \A f \in Files : snapshot'[f] = Fresh
      BY <1>22, <2>2 DEF CloseCycle
    <3>2. \A f \in Files : Content(files'[f]).managed # Ours
      BY <1>1, <1>9, <3>1 DEF Restored, Managed
    <3>3. OriginalsSaved' /\ SnapshotTheirs'
      BY <1>2, <3>1, <3>2 DEF OriginalsSaved, SnapshotTheirs, Fresh
    <3> QED BY <1>5, <3>1, <3>3
  <2> QED BY <2>1, <2>2
<1>23. CASE McpRead(c)
  <2>1. CASE Fails(c)
    BY <1>7, <2>1
  <2>2. CASE ~Fails(c)
    <3>1. /\ UNCHANGED <<files, phase, snapshot, edited>> /\ Load(c, "config")
          /\ pc'[c] \in {"inject_write", "remove_write"}
      BY <1>0, <1>23, <2>2 DEF McpRead, history
    <3>2. CopiesCurrentAt(c)'
      BY <1>0, <3>1 DEF Current
    <3>3. phase' # "active" => \A f \in Files : Seen(c, f)' # Ours
      BY <1>0, <1>9, <3>1 DEF Seen, Managed
    <3> QED BY <1>4, <1>6, <3>1, <3>2, <3>3
  <2> QED BY <2>1, <2>2
<1>24. CASE McpWrite(c)
  <2>1. CASE Fails(c)
    BY <1>7, <2>1
  <2>2. CASE ~Fails(c)
    <3> DEFINE before == read[c]["config"]
               after == [Content(before) EXCEPT !.mcp = (pc[c] = "inject_write")]
    <3>1. Written("config", before, after) /\ Unlock(c) /\ UNCHANGED <<phase, snapshot>>
      BY <1>24, <2>2 DEF McpWrite
    <3>2. Content(before) \in File
      BY <1>0, ContentIsFile
    <3>3. after \in File /\ after.managed = Seen(c, "config")
      BY <3>2 DEF File, Seen
    <3>4. Content(after) = after
      BY <3>3, ProxyConstants DEF Content
    <3> HIDE DEF before, after
    <3>5. phase # "active" => \A f \in Files : Content(files'[f]).managed # Ours
      BY <1>0, <1>9, <3>1, <3>3, <3>4, WrittenEffect DEF Managed
    <3>6. OriginalsSaved' /\ SnapshotTheirs'
      BY <1>1, <1>8, <3>1, <3>5 DEF OriginalsSaved, SnapshotTheirs
    <3> QED BY <1>5, <3>1, <3>6
  <2> QED BY <2>1, <2>2
<1>25. CASE McpBegin(c, "inject") \/ McpBegin(c, "remove")
  <2>1. UNCHANGED <<files, phase, snapshot, read>> /\ pc'[c] \in {"inject", "remove"}
    BY <1>0, <1>25 DEF McpBegin
  <2> QED BY <1>4, <1>6, <1>9, <2>1 DEF Seen
<1> QED
  BY <1>10, <1>11, <1>12, <1>13, <1>14, <1>15, <1>16, <1>17, <1>18, <1>19, <1>20, <1>21, <1>22, <1>23, <1>24, <1>25 DEF Enable, Disable, Mcp

-----------------------------------------------------------------------------
(* Third part: the MCP entry.                                              *)

LEMMA EntryInit == Init => Entry
<1> SUFFICES ASSUME Init PROVE Entry
  OBVIOUS
<1>1. files["config"] \in UserFile \union {NoFile}
  BY DEF Init, Files
<1>2. Content(files["config"]).mcp = FALSE
  BY <1>1 DEF Content, UserFile, Blank
<1> QED BY <1>2 DEF Init, Entry, McpAsAsked, EntrySeenAt, KnowsConfig

LEMMA EntryStep ==
    ASSUME Shape, Originals, Entry, NEW c \in Callers, Enable(c) \/ Disable(c) \/ Mcp(c)
    PROVE  Entry'
<1>0. /\ files \in [Files -> File \union {NoFile}] /\ snapshot \in [Files -> Original]
      /\ read \in [Callers -> [Files -> File \union {NoFile}]] /\ pc \in [Callers -> Labels]
      /\ "config" \in Files /\ "auth" \in Files /\ "config" # "auth"
      /\ SnapshotTheirs /\ CopiesCurrentAt(c)
      /\ Content(files["config"]).mcp = asked /\ EntrySeenAt(c)
  BY ShapeParts DEF Data, Control, Files, Originals, Entry, McpAsAsked
<1>1. \A d \in Callers \ {c} : pc'[d] = "idle"
  BY ActionsAreSteps, ControlStep, ShapeParts DEF Data
<1>2. ASSUME Content(files'["config"]).mcp = asked', EntrySeenAt(c)' PROVE Entry'
  BY <1>1, <1>2 DEF Entry, McpAsAsked, EntrySeenAt, KnowsConfig
<1>3. ASSUME pc'[c] \notin KnowsConfig, Content(files'["config"]).mcp = asked' PROVE Entry'
  BY <1>2, <1>3 DEF EntrySeenAt
<1>4. ASSUME files'["config"] = files["config"], UNCHANGED asked, pc'[c] \in KnowsConfig => pc[c] \in KnowsConfig /\ read'[c]["config"] = read[c]["config"]
      PROVE  Entry'
  BY <1>0, <1>2, <1>4 DEF EntrySeenAt
<1>5. ASSUME files'["config"] = files["config"], UNCHANGED asked, Load(c, "config") PROVE Entry'
  BY <1>0, <1>2, <1>5 DEF EntrySeenAt, Load
<1>6. ASSUME Fails(c) PROVE Entry'
  BY <1>0, <1>4, <1>6 DEF Fails, Unlock, Goto, history, KnowsConfig
<1>7. ASSUME Restore("auth", read[c]["auth"]) \/ Written("auth", read[c]["auth"], TakenOver(read[c]["auth"])),
             pc[c] \in KnowsAuth, UNCHANGED <<snapshot, edited>>
      PROVE  files'["config"] = files["config"]
  <2>1. Current(c, "auth")
    BY <1>0, <1>7 DEF CopiesCurrentAt
  <2> QED BY <1>0, <1>7, <2>1, TakeoverEffect, RestoreRestores
<1>8. ASSUME Restore("config", read[c]["config"]) \/ Written("config", read[c]["config"], TakenOver(read[c]["config"])),
             pc[c] \in KnowsConfig, UNCHANGED <<snapshot, edited, asked>>
      PROVE  Content(files'["config"]).mcp = asked'
  <2>1. Current(c, "config") /\ Content(read[c]["config"]).mcp = asked
    BY <1>0, <1>8 DEF CopiesCurrentAt, EntrySeenAt
  <2> QED BY <1>0, <1>8, <2>1, TakeoverEffect, RestoreRestores
<1> USE DEF KnowsConfig, KnowsAuth, Goto, Lock, Unlock, history
<1>9. CASE EnableBegin(c)
  BY <1>0, <1>4, <1>9 DEF EnableBegin
<1>10. CASE EnableRead(c)
  BY <1>0, <1>4, <1>5, <1>6, <1>10 DEF EnableRead, Load
<1>11. CASE SaveSnapshot(c)
  BY <1>0, <1>4, <1>6, <1>11 DEF SaveSnapshot
<1>12. CASE TakeConfig(c)
  BY <1>0, <1>3, <1>6, <1>8, <1>12 DEF TakeConfig
<1>13. CASE TakeAuth(c)
  BY <1>0, <1>4, <1>7, <1>13 DEF TakeAuth
<1>14. CASE RollbackConfig(c)
  BY <1>0, <1>3, <1>4, <1>5, <1>8, <1>14 DEF RollbackConfig
<1>15. CASE DisableBegin(c)
  BY <1>0, <1>4, <1>15 DEF DisableBegin
<1>16. CASE DisableLoad(c)
  BY <1>0, <1>4, <1>16 DEF DisableLoad
<1>17. CASE DisableRead(c)
  BY <1>0, <1>4, <1>5, <1>6, <1>17 DEF DisableRead, Load
<1>18. CASE RestoreAuth(c)
  BY <1>0, <1>4, <1>6, <1>7, <1>18 DEF RestoreAuth
<1>19. CASE RestoreConfig(c)
  BY <1>0, <1>3, <1>4, <1>8, <1>19 DEF RestoreConfig
<1>20. CASE RollbackAuth(c)
  BY <1>0, <1>4, <1>20 DEF RollbackAuth
<1>21. CASE CloseCycle(c)
  BY <1>0, <1>4, <1>6, <1>21 DEF CloseCycle
<1>22. CASE McpRead(c)
  BY <1>5, <1>6, <1>22 DEF McpRead
<1>23. CASE McpWrite(c)
  <2>1. CASE Fails(c)
    BY <1>6, <2>1
  <2>2. CASE ~Fails(c)
    <3> DEFINE before == read[c]["config"]
               entry == pc[c] = "inject_write"
               after == [Content(before) EXCEPT !.mcp = entry]
    <3>1. /\ Written("config", before, after) /\ asked' = entry /\ pc'[c] = "idle"
          /\ pc[c] \in KnowsConfig
      BY <1>0, <1>23, <2>2 DEF McpWrite
    <3>2. Content(before) \in File
      BY <1>0, ContentIsFile
    <3>3. after \in File /\ after.mcp = entry /\ (after = Content(before) => Content(before).mcp = entry)
      BY <3>2 DEF File
    <3>4. Content(after) = after
      BY <3>3, ProxyConstants DEF Content
    <3>5. Content(before).mcp = asked
      BY <1>0, <3>1 DEF EntrySeenAt
    <3> HIDE DEF before, after
    <3>6. Content(files'["config"]).mcp = entry
      BY <1>0, <3>1, <3>3, <3>4, <3>5, WrittenEffect
    <3> QED BY <1>3, <3>1, <3>6
  <2> QED BY <2>1, <2>2
<1>24. CASE McpBegin(c, "inject") \/ McpBegin(c, "remove")
  BY <1>0, <1>4, <1>24 DEF McpBegin
<1> QED
  BY <1>9, <1>10, <1>11, <1>12, <1>13, <1>14, <1>15, <1>16, <1>17, <1>18, <1>19, <1>20, <1>21, <1>22, <1>23, <1>24 DEF Enable, Disable, Mcp

-----------------------------------------------------------------------------
(* Fourth part: Codex's two files.                                         *)

LEMMA TwoFilesInit == Init => TwoFiles
<1> SUFFICES ASSUME Init PROVE TwoFiles
  OBVIOUS
<1>1. OriginalsSaved /\ phase # "active"
  BY OriginalsInit DEF Originals, Init
<1> QED BY <1>1 DEF Init, TwoFiles, TornByEdit, FilesTogether, OriginalsSaved, TakenAt, TogetherAt, Files

LEMMA TwoFilesStep ==
    ASSUME Shape, Originals, TwoFiles, NEW c \in Callers, Enable(c) \/ Disable(c) \/ Mcp(c)
    PROVE  TwoFiles'
<1>0. /\ files \in [Files -> File \union {NoFile}] /\ snapshot \in [Files -> Original]
      /\ read \in [Callers -> [Files -> File \union {NoFile}]] /\ pc \in [Callers -> Labels]
      /\ "config" \in Files /\ "auth" \in Files /\ "config" # "auth" /\ Files = {"config", "auth"}
      /\ codex \in BOOLEAN /\ torn \in BOOLEAN /\ edited \in SUBSET Files
      /\ OriginalsSaved /\ SnapshotTheirs /\ CopiesCurrentAt(c) /\ RestoredAt(c) /\ CycleOpenAt(c) /\ OneFile
      /\ TornByEdit /\ FilesTogether /\ TakenAt(c) /\ (codex /\ ~torn => TogetherAt(c))
  BY ShapeParts DEF Data, Control, Files, Originals, TwoFiles
<1>1. \A d \in Callers \ {c} : pc[d] = "idle" /\ pc'[d] = "idle"
  BY ActionsAreSteps, ControlStep, ShapeParts DEF Data
<1>2. mu <=> pc[c] # "idle"
  BY <1>1, ShapeParts DEF Control
<1>3. Control'
  BY ActionsAreSteps, ControlStep, ShapeParts DEF Data
<1>4. mu' <=> pc'[c] # "idle"
  BY <1>1, <1>3 DEF Control
<1>5. ASSUME TornByEdit', TakenAt(c)', codex' /\ ~torn' => IF pc'[c] = "idle" THEN Together' ELSE TogetherAt(c)'
      PROVE  TwoFiles'
  <2>1. FilesTogether'
    BY <1>4, <1>5 DEF FilesTogether, Together, Managed
  <2>2. TogetherAt(c)' \/ ~(codex' /\ ~torn')
    BY <1>5 DEF TogetherAt
  <2> QED BY <1>1, <1>5, <2>1, <2>2 DEF TwoFiles, TakenAt, TogetherAt
\* Before its first write an operation finds the files together.
<1> DEFINE Unwritten == {"idle", "enable_config", "enable_auth", "save", "take_config", "disable", "disable_config",
                         "disable_auth", "restore_auth", "close", "inject", "remove", "inject_write", "remove_write"}
<1>6. ASSUME pc[c] \in Unwritten, codex, ~torn PROVE Together
  BY <1>0, <1>2, <1>6 DEF FilesTogether, TogetherAt, Together, Managed
<1>7. ASSUME pc[c] \in Unwritten, pc'[c] \in Unwritten, UNCHANGED <<codex, files, torn>>,
             UNCHANGED edited \/ edited' = {}
      PROVE  TwoFiles'
  <2>1. Together' = Together
    BY <1>7 DEF Together, Managed
  <2>2. TakenAt(c)' /\ TornByEdit'
    BY <1>0, <1>7 DEF TakenAt, TornByEdit
  <2>3. codex' /\ ~torn' => Together'
    BY <1>6, <1>7, <2>1
  <2> QED BY <1>5, <2>2, <2>3, <1>7 DEF TogetherAt
\* Both files point at the relay, or neither does.
<1>8. ASSUME pc'[c] = "idle", TornByEdit', codex' /\ ~torn' => Together' PROVE TwoFiles'
  BY <1>5, <1>8 DEF TakenAt
<1>9. ASSUME Fails(c), pc[c] \in Unwritten PROVE TwoFiles'
  BY <1>0, <1>7, <1>9 DEF Fails, Unlock, Goto, history
<1>10. ASSUME pc[c] = "close" PROVE Managed("config") # Ours /\ Managed("auth") # Ours
  BY <1>0, <1>10 DEF RestoredAt, Restored, OriginalsSaved, Managed
<1> USE DEF Goto, Lock, Load, Unlock, history
<1> HIDE DEF Unwritten
<1>11. CASE EnableBegin(c)
  <2>1. pc[c] \in Unwritten /\ pc'[c] \in Unwritten /\ UNCHANGED <<codex, files, torn>>
        /\ (UNCHANGED edited \/ edited' = {})
    BY <1>0, <1>11 DEF EnableBegin, Unwritten
  <2> QED BY <1>7, <2>1
<1>12. CASE EnableRead(c)
  <2>1. CASE Fails(c)
    BY <1>9, <1>12, <2>1 DEF EnableRead, Unwritten
  <2>2. CASE ~Fails(c)
    <3>1. pc[c] \in Unwritten /\ pc'[c] \in Unwritten /\ UNCHANGED <<codex, files, torn, edited>>
      BY <1>0, <1>12, <2>2 DEF EnableRead, Unwritten
    <3> QED BY <1>7, <3>1
  <2> QED BY <2>1, <2>2
<1>13. CASE SaveSnapshot(c)
  <2>1. CASE Fails(c)
    BY <1>9, <1>13, <2>1 DEF SaveSnapshot, Unwritten
  <2>2. CASE ~Fails(c)
    <3>1. pc[c] \in Unwritten /\ pc'[c] \in Unwritten /\ UNCHANGED <<codex, files, torn, edited>>
      BY <1>0, <1>13, <2>2 DEF SaveSnapshot, Unwritten
    <3> QED BY <1>7, <3>1
  <2> QED BY <2>1, <2>2
<1>14. CASE TakeConfig(c)
  <2>1. CASE Fails(c)
    BY <1>9, <1>14, <2>1 DEF TakeConfig, Unwritten
  <2>2. CASE ~Fails(c) /\ ~codex
    <3>1. UNCHANGED <<codex, edited>> /\ pc'[c] = "idle" /\ torn' = (edited # {})
      BY <1>0, <1>14, <2>2 DEF TakeConfig
    <3> QED BY <1>8, <2>2, <3>1 DEF TornByEdit
  <2>3. CASE ~Fails(c) /\ codex
    <3>1. /\ pc[c] = "take_config" /\ pc'[c] = "take_auth" /\ UNCHANGED <<codex, edited, torn, read>>
          /\ Written("config", read[c]["config"], TakenOver(read[c]["config"]))
      BY <1>0, <1>14, <2>3 DEF TakeConfig
    <3>2. Current(c, "config")
      BY <1>0, <3>1 DEF CopiesCurrentAt, KnowsConfig
    <3>3. files'["auth"] = files["auth"] /\ ("config" \in edited \/ Content(files'["config"]).managed = Ours)
      BY <1>0, <3>1, <3>2, TakeoverEffect
    <3>4. TakenAt(c)' /\ TornByEdit'
      BY <1>0, <3>1, <3>3 DEF TakenAt, TornByEdit, Managed
    <3>5. ASSUME ~torn PROVE TogetherAt(c)'
      <4>1. Together
        BY <1>6, <2>3, <3>1, <3>5 DEF Unwritten
      <4>2. files["config"] = read[c]["config"]
        BY <1>0, <3>2, <3>5 DEF Current, TornByEdit
      <4> QED BY <3>1, <3>3, <4>1, <4>2 DEF TogetherAt, Together, Managed, Seen
    <3> QED BY <1>0, <1>5, <3>1, <3>4, <3>5
  <2> QED BY <1>0, <2>1, <2>2, <2>3
<1>15. CASE TakeAuth(c)
  <2>1. /\ pc[c] = "take_auth" /\ Current(c, "auth") /\ UNCHANGED <<codex, edited>>
        /\ "config" \in edited \/ Managed("config") = Ours
    BY <1>0, <1>15 DEF TakeAuth, CopiesCurrentAt, KnowsAuth, TakenAt
  <2>2. CASE Written("auth", read[c]["auth"], TakenOver(read[c]["auth"])) /\ Unlock(c) /\ torn' = (edited # {})
    <3>1. files'["config"] = files["config"] /\ ("auth" \in edited \/ Content(files'["auth"]).managed = Ours)
      BY <1>0, <2>1, <2>2, TakeoverEffect
    <3>2. ~torn' => Together'
      BY <2>1, <2>2, <3>1 DEF Together, Managed
    <3> QED BY <1>0, <1>8, <2>1, <2>2, <3>2 DEF TornByEdit
  <2>3. CASE /\ TakenOver(read[c]["auth"]) # Content(read[c]["auth"]) /\ UNCHANGED <<files, torn>>
             /\ \/ pc'[c] = "rollback_read"
                \/ pc'[c] = "idle" /\ TakenOver(read[c]["config"]) = Content(read[c]["config"])
    <3>1. ASSUME codex, ~torn PROVE Managed("auth") # Ours /\ Seen(c, "config") # Ours
      <4>1. Content(read[c]["auth"]) \in File
        BY <1>0, ContentIsFile
      <4>2. Seen(c, "auth") # Ours
        BY <2>3, <4>1 DEF TakenOver, File, Seen
      <4>3. files["auth"] = read[c]["auth"]
        BY <1>0, <2>1, <3>1 DEF Current, TornByEdit
      <4>4. Managed("auth") # Ours
        BY <4>2, <4>3 DEF Managed, Seen
      <4> QED BY <1>0, <2>1, <3>1, <4>4 DEF TogetherAt
    <3>2. CASE pc'[c] = "rollback_read"
      <4>1. codex' /\ ~torn' => TogetherAt(c)'
        BY <2>1, <2>3, <3>1, <3>2 DEF TogetherAt, Managed
      <4> QED BY <1>0, <1>5, <2>1, <2>3, <3>2, <4>1 DEF TakenAt, TornByEdit
    <3>3. CASE pc'[c] = "idle" /\ TakenOver(read[c]["config"]) = Content(read[c]["config"])
      <4>1. Content(read[c]["config"]) \in File
        BY <1>0, ContentIsFile
      <4>2. Seen(c, "config") = Ours
        BY <3>3, <4>1, WithManaged DEF TakenOver, Seen
      <4>3. ~(codex' /\ ~torn')
        BY <2>1, <2>3, <3>1, <4>2
      <4>4. TornByEdit'
        BY <1>0, <2>1, <2>3 DEF TornByEdit
      <4> QED BY <1>8, <3>3, <4>3, <4>4
    <3> QED BY <2>3, <3>2, <3>3
  <2> QED BY <1>0, <1>15, <2>2, <2>3 DEF TakeAuth
<1>16. CASE RollbackConfig(c)
  <2>1. pc[c] \in {"rollback_read", "rollback_write"} /\ UNCHANGED <<codex, edited>>
    BY <1>16 DEF RollbackConfig
  <2>2. codex /\ ~torn => Managed("auth") # Ours
    BY <1>0, <2>1 DEF TogetherAt
  <2>3. CASE torn' = TRUE /\ Unlock(c)
    BY <1>0, <1>8, <2>3 DEF TornByEdit
  <2>4. CASE pc'[c] = "rollback_write" /\ UNCHANGED <<files, torn>>
    <3>1. codex' /\ ~torn' => TogetherAt(c)'
      BY <2>1, <2>2, <2>4 DEF TogetherAt, Managed
    <3> QED BY <1>0, <1>5, <2>1, <2>4, <3>1 DEF TakenAt, TornByEdit
  <2>5. CASE pc[c] = "rollback_write" /\ Restore("config", read[c]["config"]) /\ Unlock(c) /\ UNCHANGED <<snapshot, torn>>
    <3>1. Current(c, "config")
      BY <1>0, <2>5 DEF CopiesCurrentAt, KnowsConfig
    <3>2. Restored("config")' /\ files'["auth"] = files["auth"]
      BY <1>0, <2>1, <2>5, <3>1, RestoreRestores
    <3>3. codex' /\ ~torn' => Together'
      BY <2>1, <2>2, <2>5, <3>2 DEF Together, Restored, Managed
    <3> QED BY <1>0, <1>8, <2>1, <2>5, <3>3 DEF TornByEdit
  <2> QED BY <1>0, <1>16, <2>3, <2>4, <2>5 DEF RollbackConfig
<1>17. CASE DisableBegin(c)
  <2>1. pc[c] \in Unwritten /\ pc'[c] \in Unwritten /\ UNCHANGED <<codex, files, torn>>
        /\ (UNCHANGED edited \/ edited' = {})
    BY <1>0, <1>17 DEF DisableBegin, Unwritten
  <2> QED BY <1>7, <2>1
<1>18. CASE DisableLoad(c)
  <2>1. pc[c] \in Unwritten /\ pc'[c] \in Unwritten /\ UNCHANGED <<codex, files, torn>>
        /\ (UNCHANGED edited \/ edited' = {})
    BY <1>0, <1>18 DEF DisableLoad, Unwritten
  <2> QED BY <1>7, <2>1
<1>19. CASE DisableRead(c)
  <2>1. CASE Fails(c)
    BY <1>9, <1>19, <2>1 DEF DisableRead, Unwritten
  <2>2. CASE ~Fails(c) /\ codex
    <3>1. pc[c] \in Unwritten /\ pc'[c] \in Unwritten /\ UNCHANGED <<codex, files, torn, edited>>
      BY <1>0, <1>19, <2>2 DEF DisableRead, Unwritten
    <3> QED BY <1>7, <3>1
  <2>3. CASE ~Fails(c) /\ ~codex
    <3>1. pc'[c] # "take_auth" /\ UNCHANGED <<codex, torn, edited>>
      BY <1>0, <1>19, <2>3 DEF DisableRead
    <3> QED BY <1>0, <1>5, <2>3, <3>1 DEF TakenAt, TornByEdit
  <2> QED BY <1>0, <2>1, <2>2, <2>3
<1>20. CASE RestoreAuth(c)
  <2>1. CASE Fails(c)
    BY <1>9, <1>20, <2>1 DEF RestoreAuth, Unwritten
  <2>2. CASE ~Fails(c)
    <3>1. /\ pc[c] = "restore_auth" /\ UNCHANGED <<codex, edited, torn, snapshot, read>>
          /\ pc'[c] = "restore_config" /\ Restore("auth", read[c]["auth"])
      BY <1>0, <1>20, <2>2 DEF RestoreAuth
    <3>2. Current(c, "config") /\ Current(c, "auth")
      BY <1>0, <3>1 DEF CopiesCurrentAt, KnowsConfig, KnowsAuth
    <3>3. files'["config"] = files["config"]
      BY <1>0, <3>1, <3>2, RestoreRestores
    <3>4. ASSUME codex, ~torn PROVE TogetherAt(c)'
      <4>1. Together
        BY <1>6, <3>1, <3>4 DEF Unwritten
      <4>2. files["auth"] = read[c]["auth"]
        BY <1>0, <3>2, <3>4 DEF Current, TornByEdit
      <4> QED BY <3>1, <3>3, <4>1, <4>2 DEF TogetherAt, Together, Managed, Seen
    <3> QED BY <1>0, <1>5, <3>1, <3>4 DEF TakenAt, TornByEdit
  <2> QED BY <2>1, <2>2
<1>21. CASE RestoreConfig(c)
  <2>1. /\ pc[c] = "restore_config" /\ UNCHANGED <<codex, edited, torn, snapshot>>
        /\ Current(c, "config") /\ Managed("auth") # Ours
        /\ codex /\ ~torn => (Managed("config") = Ours <=> Seen(c, "auth") = Ours)
    BY <1>0, <1>21 DEF RestoreConfig, CopiesCurrentAt, KnowsConfig, RestoredAt, Restored, TogetherAt
  <2>2. CASE pc'[c] = "close" /\ Restore("config", read[c]["config"])
    <3>1. Restored("config")' /\ files'["auth"] = files["auth"]
      BY <1>0, <2>1, <2>2, RestoreRestores
    <3>2. Together'
      BY <2>1, <3>1 DEF Together, Restored, Managed
    <3> QED BY <1>0, <1>5, <2>1, <2>2, <3>2 DEF TakenAt, TornByEdit, TogetherAt
  <2>3. CASE pc'[c] = "rollback_auth" /\ UNCHANGED <<files, read>>
    <3>1. codex' /\ ~torn' => TogetherAt(c)'
      BY <2>1, <2>3 DEF TogetherAt, Managed, Seen
    <3> QED BY <1>0, <1>5, <2>1, <2>3, <3>1 DEF TakenAt, TornByEdit
  <2>4. CASE pc'[c] = "idle" /\ UNCHANGED files /\ ~(codex /\ Changes("auth", read[c]["auth"]))
    <3>1. codex => Seen(c, "auth") # Ours
      BY <1>0, <2>4, NothingToChange DEF Seen, SnapshotTheirs
    <3>2. codex' /\ ~torn' => Together'
      BY <2>1, <2>4, <3>1 DEF Together, Managed
    <3> QED BY <1>0, <1>8, <2>1, <2>4, <3>2 DEF TornByEdit
  <2> QED BY <1>0, <1>21, <2>2, <2>3, <2>4 DEF RestoreConfig
<1>22. CASE RollbackAuth(c)
  <2>1. /\ pc[c] = "rollback_auth" /\ UNCHANGED <<codex, edited>> /\ pc'[c] = "idle"
        /\ codex /\ ~torn => (Managed("config") = Ours <=> Seen(c, "auth") = Ours)
    BY <1>0, <1>22 DEF RollbackAuth, TogetherAt
  <2>2. CASE torn' = TRUE
    BY <1>0, <1>8, <2>1, <2>2 DEF TornByEdit
  <2>3. CASE UNCHANGED torn /\ files' = [files EXCEPT !["auth"] = Content(read[c]["auth"])]
    <3>1. Content(Content(read[c]["auth"])) = Content(read[c]["auth"])
      BY <1>0, ContentIsFile, ProxyConstants DEF Content
    <3>2. codex' /\ ~torn' => Together'
      BY <1>0, <2>1, <2>3, <3>1 DEF Together, Managed, Seen
    <3> QED BY <1>0, <1>8, <2>1, <2>3, <3>2 DEF TornByEdit
  <2> QED BY <1>22, <2>2, <2>3 DEF RollbackAuth
<1>23. CASE CloseCycle(c)
  <2>1. /\ pc[c] = "close" /\ pc'[c] = "idle" /\ UNCHANGED <<codex, files, edited>>
        /\ UNCHANGED torn \/ torn' = (edited # {})
    BY <1>0, <1>23 DEF CloseCycle, Fails
  <2>2. Together'
    BY <1>10, <2>1 DEF Together, Managed
  <2> QED BY <1>0, <1>8, <2>1, <2>2 DEF TornByEdit
<1>24. CASE McpRead(c)
  <2>1. CASE Fails(c)
    BY <1>9, <1>24, <2>1 DEF McpRead, Unwritten
  <2>2. CASE ~Fails(c)
    <3>1. pc[c] \in Unwritten /\ pc'[c] \in Unwritten /\ UNCHANGED <<codex, files, torn, edited>>
      BY <1>0, <1>24, <2>2 DEF McpRead, Unwritten
    <3> QED BY <1>7, <3>1
  <2> QED BY <2>1, <2>2
<1>25. CASE McpWrite(c)
  <2>1. CASE Fails(c)
    BY <1>9, <1>25, <2>1 DEF McpWrite, Unwritten
  <2>2. CASE ~Fails(c)
    <3> DEFINE before == read[c]["config"]
               after == [Content(before) EXCEPT !.mcp = (pc[c] = "inject_write")]
    <3>1. /\ Written("config", before, after) /\ UNCHANGED <<codex, edited, torn>>
          /\ pc[c] \in {"inject_write", "remove_write"} /\ pc'[c] = "idle"
      BY <1>0, <1>25, <2>2 DEF McpWrite
    <3>2. Content(before) \in File
      BY <1>0, ContentIsFile
    <3>3. after \in File /\ after.managed = Seen(c, "config")
      BY <3>2 DEF File, Seen
    <3>4. Content(after) = after
      BY <3>3, ProxyConstants DEF Content
    <3>5. Current(c, "config")
      BY <1>0, <3>1 DEF CopiesCurrentAt, KnowsConfig
    <3> HIDE DEF before, after
    <3>6. files'["auth"] = files["auth"] /\ (files' = files \/ Content(files'["config"]).managed = Seen(c, "config"))
      BY <1>0, <3>1, <3>3, <3>4, WrittenEffect
    <3>7. ASSUME codex, ~torn PROVE Together'
      <4>1. Together /\ Managed("config") = Seen(c, "config")
        BY <1>0, <1>6, <3>1, <3>5, <3>7 DEF Unwritten, Current, TornByEdit, Managed, Seen
      <4> QED BY <3>6, <4>1 DEF Together, Managed
    <3> QED BY <1>0, <1>8, <3>1, <3>7 DEF TornByEdit
  <2> QED BY <2>1, <2>2
<1>26. CASE McpBegin(c, "inject") \/ McpBegin(c, "remove")
  <2>1. pc[c] \in Unwritten /\ pc'[c] \in Unwritten /\ UNCHANGED <<codex, files, torn, edited>>
    BY <1>0, <1>26 DEF McpBegin, Unwritten
  <2> QED BY <1>7, <2>1
<1> QED
  BY <1>11, <1>12, <1>13, <1>14, <1>15, <1>16, <1>17, <1>18, <1>19, <1>20, <1>21, <1>22, <1>23, <1>24, <1>25, <1>26 DEF Enable, Disable, Mcp

-----------------------------------------------------------------------------
(* The theorems.                                                           *)

\* What the user's editor may do.
LEMMA EditKeeps ==
    ASSUME Shape, NEW f \in Files, NEW managed \in Values \union {None}, NEW other \in BOOLEAN,
           Edit(f, managed, other)
    PROVE  /\ \A g \in Files \ {f} : files'[g] = files[g]
           /\ Content(files'[f]).managed # Ours
           /\ Content(files'[f]).mcp = Content(files[f]).mcp
<1> DEFINE new == [Content(files[f]) EXCEPT !.managed = managed, !.other = other]
<1>1. files \in [Files -> File \union {NoFile}] /\ files' = [files EXCEPT ![f] = new]
  BY ShapeParts DEF Data, Edit
<1>2. Content(files[f]) \in File
  BY <1>1, ContentIsFile
<1>3. new \in File /\ new.managed = managed /\ new.mcp = Content(files[f]).mcp
  BY <1>2 DEF File
<1>4. Content(new) = new
  BY <1>3, ProxyConstants DEF Content
<1> HIDE DEF new
<1> QED BY <1>1, <1>3, <1>4, ProxyConstants

LEMMA Initially == Init => IInv
BY ShapeInit, OriginalsInit, EntryInit, TwoFilesInit DEF IInv

LEMMA Inductive == IInv /\ [Next]_vars => IInv'
<1> SUFFICES ASSUME IInv, [Next]_vars PROVE IInv'
  OBVIOUS
<1>0. Shape /\ Originals /\ Entry /\ TwoFiles /\ Shape'
  BY ShapeStep DEF IInv
<1>1. ASSUME NEW c \in Callers, Enable(c) \/ Disable(c) \/ Mcp(c) PROVE IInv'
  BY <1>0, <1>1, OriginalsStep, EntryStep, TwoFilesStep DEF IInv
<1>2. ASSUME NEW f \in Files, NEW managed \in Values \union {None}, NEW other \in BOOLEAN, Edit(f, managed, other)
      PROVE IInv'
  <2>1. /\ \A g \in Files \ {f} : files'[g] = files[g]
        /\ Content(files'[f]).managed # Ours
        /\ Content(files'[f]).mcp = Content(files[f]).mcp
    BY <1>0, <1>2, EditKeeps
  <2>2. /\ UNCHANGED <<codex, phase, snapshot, mu, pc, read, asked>> /\ torn' = TRUE
        /\ edited' = edited \union {f}
    BY <1>2 DEF Edit
  <2>3. OriginalsSaved' /\ SnapshotTheirs' /\ SeenTheirs'
    BY <1>0, <2>1, <2>2 DEF Originals, OriginalsSaved, SnapshotTheirs, SeenTheirs, Seen
  <2>4. ASSUME NEW c \in Callers PROVE CycleOpenAt(c)' /\ CopiesCurrentAt(c)' /\ RestoredAt(c)'
    <3>1. CycleOpenAt(c) /\ CopiesCurrentAt(c) /\ RestoredAt(c)
      BY <1>0 DEF Originals
    <3>2. \A g \in Files : (Current(c, g) => Current(c, g)') /\ (Restored(g) => Restored(g)')
      BY <2>1, <2>2 DEF Current, Restored, Managed
    <3> QED BY <2>2, <3>1, <3>2 DEF CycleOpenAt, CopiesCurrentAt, RestoredAt, Files
  <2>5. Originals'
    BY <2>3, <2>4 DEF Originals
  <2>6. Entry'
    BY <1>0, <2>1, <2>2 DEF Entry, McpAsAsked, EntrySeenAt, Files
  <2>7. TwoFiles'
    <3>1. \A c \in Callers : TakenAt(c)'
      BY <1>0, <2>1, <2>2 DEF TwoFiles, TakenAt, Managed, Files
    <3> QED BY <2>2, <3>1 DEF TwoFiles, TornByEdit, FilesTogether
  <2> QED BY <1>0, <2>5, <2>6, <2>7 DEF IInv
<1>3. CASE Crash
  <2>1. /\ UNCHANGED <<codex, files, phase, snapshot, edited, asked>> /\ torn' = TRUE
        /\ \A c \in Callers : pc'[c] = "idle" /\ read'[c] = NothingRead
    BY <1>3 DEF Crash
  <2>2. Content(NoFile).managed # Ours
    BY BlankIsBlank, ProxyConstants DEF Content
  <2>3. Originals'
    BY <1>0, <2>1, <2>2 DEF Originals, OriginalsSaved, SnapshotTheirs, SeenTheirs, Seen, NothingRead,
       CycleOpenAt, CopiesCurrentAt, RestoredAt, InCycle, KnowsConfig, KnowsAuth
  <2>4. Entry'
    BY <1>0, <2>1 DEF Entry, McpAsAsked, EntrySeenAt, KnowsConfig
  <2>5. TwoFiles'
    BY <2>1 DEF TwoFiles, TornByEdit, FilesTogether, TakenAt
  <2> QED BY <1>0, <2>3, <2>4, <2>5 DEF IInv
<1>4. CASE UNCHANGED vars
  <2>1. Originals'
    BY <1>0, <1>4 DEF vars, Originals, OriginalsSaved, SnapshotTheirs, SeenTheirs, Seen, CycleOpenAt,
       CopiesCurrentAt, RestoredAt, Current, Restored, Managed
  <2>2. Entry'
    BY <1>0, <1>4 DEF vars, Entry, McpAsAsked, EntrySeenAt
  <2>3. TwoFiles'
    BY <1>0, <1>4 DEF vars, TwoFiles, TornByEdit, FilesTogether, TakenAt, TogetherAt, Together, Managed, Seen
  <2> QED BY <1>0, <2>1, <2>2, <2>3 DEF IInv
<1> QED
  BY <1>1, <1>2, <1>3, <1>4 DEF Next

\* Every variable keeps its type, the mutex is held exactly while a caller is
\* in an operation, and a closed cycle keeps no originals (proxyStateStore.save).
THEOREM TypeCorrect == Spec => []TypeOK
<1>1. IInv => TypeOK
  BY DEF IInv, Shape
<1> QED BY <1>1, Initially, Inductive, PTL DEF Spec

\* Whatever fails, is repeated or cut off by a crash: while a file points at
\* the relay, an active snapshot holds the user's own values.
THEOREM OriginalsNeverLost == Spec => []OriginalsSaved
<1>1. IInv => OriginalsSaved
  BY DEF IInv, Originals
<1> QED BY <1>1, Initially, Inductive, PTL DEF Spec

\* Neither EnableProxy nor DisableProxy adds or removes the MCP entry.
THEOREM EntryIsAsAsked == Spec => []McpAsAsked
<1>1. IInv => McpAsAsked
  BY DEF IInv, Entry
<1> QED BY <1>1, Initially, Inductive, PTL DEF Spec

\* Codex's two files are taken over together or not at all, also when the
\* write of one of them fails.
THEOREM BothOrNone == Spec => []FilesTogether
<1>1. IInv => FilesTogether
  BY DEF IInv, TwoFiles
<1> QED BY <1>1, Initially, Inductive, PTL DEF Spec

\* DisableProxy closes a cycle only when the originals are back.
THEOREM DisableRestores == Spec => ClosesRestored
<1> DEFINE OriginalsBack ==
               \A f \in Files \ edited :
                   /\ Content(files[f]).managed = snapshot[f].managed
                   /\ ~snapshot[f].existed => files[f] # Blank
           Back == phase = "active" /\ phase' # "active" => OriginalsBack
<1>1. IInv /\ [Next]_vars => [Back]_vars
  <2> SUFFICES ASSUME IInv, Next, phase = "active", phase' # "active" PROVE OriginalsBack
    OBVIOUS
  <2>1. PICK c \in Callers : CloseCycle(c)
    BY DEF Next, Enable, Disable, Mcp, EnableBegin, EnableRead, SaveSnapshot, TakeConfig, TakeAuth,
       RollbackConfig, DisableBegin, DisableLoad, DisableRead, RestoreAuth, RestoreConfig, RollbackAuth,
       McpBegin, McpRead, McpWrite, Fails, Edit, Crash
  <2>2. pc[c] = "close"
    BY <2>1 DEF CloseCycle
  <2>3. \A f \in Files : Restored(f)
    BY <2>2 DEF IInv, Originals, RestoredAt
  <2> QED BY <2>3 DEF Restored, Managed
<1> QED BY <1>1, Initially, Inductive, PTL DEF Spec, ClosesRestored
=============================================================================
