--------------------------- MODULE PlatformProxy ---------------------------
(***************************************************************************)
(* How Portico takes over the configuration files of a command line tool   *)
(* (platformproxy/infrastructure): EnableProxy saves a snapshot of the     *)
(* managed fields and points them at the relay, DisableProxy puts them     *)
(* back, InjectMcp and RemoveMcp edit one entry of the same file.  A       *)
(* manager's operations exclude each other by its mutex; the user's editor *)
(* and the tool itself do not know of it.                                  *)
(*                                                                         *)
(* Codex has two files, config.toml and auth.json.  Claude's settings.json *)
(* and Gemini's .env are the one file "config" here.  The managed fields   *)
(* of a file are one value.  Files and snapshot are replaced atomically    *)
(* (atomicWriteFile), so a crash falls between two writes.                 *)
(***************************************************************************)
EXTENDS Naturals

CONSTANTS
    Callers,      \* goroutines that call the facade
    Values,       \* what a user may have in the managed fields
    None,         \* the managed fields are absent
    Ours,         \* they point at the relay
    NoFile        \* there is no such file

Files == {"config", "auth"}
Blank == [managed |-> None, other |-> FALSE, mcp |-> FALSE]

\* A file: its managed fields, whether it holds anything else, its MCP entry.
File == [managed : Values \union {None, Ours}, other : BOOLEAN, mcp : BOOLEAN]
UserFile == [managed : Values \union {None}, other : BOOLEAN, mcp : {FALSE}]
Original == [existed : BOOLEAN, managed : Values \union {None, Ours}]
Fresh == [existed |-> FALSE, managed |-> None]

ASSUME ProxyConstants ==
    /\ None \notin Values /\ Ours \notin Values /\ None # Ours
    /\ NoFile \notin File

VARIABLES
    codex,       \* the platform is Codex, with its second file
    files,       \* what is on disk
    phase,       \* proxyState: "none", "active" or "inactive"
    snapshot,    \* its Files: the original of each file, while active
    mu,          \* the manager's mutex is held
    pc,          \* where each caller is
    read,        \* what each caller has read of the files
    edited,      \* history: files the user has edited since an operation began
    torn,        \* history: why the files may differ: an edit, a crash, a failed rollback
    asked        \* history: the MCP entry the user asked for

vars == <<codex, files, phase, snapshot, mu, pc, read, edited, torn, asked>>
history == <<edited, torn, asked>>

NothingRead == [f \in Files |-> NoFile]

Init ==
    /\ codex \in BOOLEAN
    /\ files \in [Files -> UserFile \union {NoFile}]
    /\ ~codex => files["auth"] = NoFile
    /\ phase = "none"
    /\ snapshot = [f \in Files |-> Fresh]
    /\ mu = FALSE
    /\ pc = [c \in Callers |-> "idle"]
    /\ read = [c \in Callers |-> NothingRead]
    /\ edited = {} /\ torn = FALSE /\ asked = FALSE

-----------------------------------------------------------------------------
(* Pure parts of the operations.                                           *)

Content(file) == IF file = NoFile THEN Blank ELSE file

\* A write that would not change the content is not made.
Written(f, before, after) ==
    files' = IF after = Content(before) THEN files ELSE [files EXCEPT ![f] = after]

TakenOver(file) == [Content(file) EXCEPT !.managed = Ours]

\* Put the original back; a file that Enable created and nobody used goes.
Removes(file, original) ==
    ~original.existed /\ [Content(file) EXCEPT !.managed = original.managed] = Blank

Restore(f, before) ==
    IF Removes(before, snapshot[f])
    THEN files' = IF before = NoFile THEN files ELSE [files EXCEPT ![f] = NoFile]
    ELSE Written(f, before, [Content(before) EXCEPT !.managed = snapshot[f].managed])

\* codexFileUpdate.changesFile.
Changes(f, before) ==
    IF Removes(before, snapshot[f]) THEN before # NoFile
    ELSE Content(before).managed # snapshot[f].managed

Goto(c, label) == pc' = [pc EXCEPT ![c] = label]
Unlock(c) ==
    /\ Goto(c, "idle")
    /\ mu' = FALSE
    /\ read' = [read EXCEPT ![c] = NothingRead]

Lock(c, label) ==
    /\ pc[c] = "idle"
    /\ ~mu
    /\ mu' = TRUE
    /\ Goto(c, label)

Load(c, f) == read' = [read EXCEPT ![c][f] = files[f]]

\* A file that cannot be read or parsed, or a write that fails: the error is
\* returned.
Fails(c) ==
    /\ Unlock(c)
    /\ UNCHANGED <<codex, files, phase, snapshot, history>>

-----------------------------------------------------------------------------
(* EnableProxy.                                                            *)

EnableBegin(c) ==
    /\ Lock(c, "enable_config")
    /\ edited' = {}
    /\ UNCHANGED <<codex, files, phase, snapshot, read, torn, asked>>

\* readConfigFile of config.toml, then of auth.json; load the state.
EnableRead(c) ==
    \/ /\ pc[c] = "enable_config"
       /\ Load(c, "config")
       /\ Goto(c, IF codex THEN "enable_auth" ELSE IF phase = "active" THEN "take_config" ELSE "save")
       /\ UNCHANGED <<codex, files, phase, snapshot, mu, history>>
    \/ /\ pc[c] = "enable_auth"
       /\ Load(c, "auth")
       /\ Goto(c, IF phase = "active" THEN "take_config" ELSE "save")
       /\ UNCHANGED <<codex, files, phase, snapshot, mu, history>>
    \/ /\ pc[c] \in {"enable_config", "enable_auth"}
       /\ Fails(c)

\* Mutant of SaveSnapshot: an unfinished cycle is not seen as one.
SaveSnapshotLate(c) ==
    /\ pc[c] = "save"
    /\ snapshot' = [f \in Files |-> [existed |-> files[f] # NoFile, managed |-> Content(files[f]).managed]]
    /\ Goto(c, "take_config")
    /\ UNCHANGED <<codex, files, phase, mu, read, history>>

\* A new cycle: the originals are saved before anything is changed.
SaveSnapshot(c) ==
    \/ /\ pc[c] = "save"
       /\ phase' = "active"
       /\ snapshot' = [f \in Files |-> [existed |-> read[c][f] # NoFile,
                                        managed |-> Content(read[c][f]).managed]]
       /\ Goto(c, "take_config")
       /\ UNCHANGED <<codex, files, mu, read, history>>
    \/ /\ pc[c] = "save"
       /\ Fails(c)

TakeConfig(c) ==
    \/ /\ pc[c] = "take_config"
       /\ Written("config", read[c]["config"], TakenOver(read[c]["config"]))
       /\ IF codex
          THEN Goto(c, "take_auth") /\ UNCHANGED <<mu, read, torn>>
          ELSE Unlock(c) /\ torn' = (edited # {})
       /\ UNCHANGED <<codex, phase, snapshot, edited, asked>>
    \/ /\ pc[c] = "take_config"
       /\ TakenOver(read[c]["config"]) # Content(read[c]["config"])
       /\ Fails(c)

\* auth.json; when its write fails, a config.toml just changed is rolled back.
TakeAuth(c) ==
    /\ pc[c] = "take_auth"
    /\ \/ /\ Written("auth", read[c]["auth"], TakenOver(read[c]["auth"]))
          /\ Unlock(c)
          /\ torn' = (edited # {})
       \/ /\ TakenOver(read[c]["auth"]) # Content(read[c]["auth"])
          /\ IF TakenOver(read[c]["config"]) # Content(read[c]["config"])
             THEN Goto(c, "rollback_read") /\ UNCHANGED <<mu, read>>
             ELSE Unlock(c)
          /\ UNCHANGED <<files, torn>>
    /\ UNCHANGED <<codex, phase, snapshot, edited, asked>>

\* rollbackCodexConfig: read the file again, restore the snapshot's values.
RollbackConfig(c) ==
    \/ /\ pc[c] = "rollback_read"
       /\ Load(c, "config")
       /\ Goto(c, "rollback_write")
       /\ UNCHANGED <<codex, files, phase, snapshot, mu, history>>
    \/ /\ pc[c] = "rollback_write"
       /\ Restore("config", read[c]["config"])
       /\ Unlock(c)
       /\ UNCHANGED <<codex, phase, snapshot, history>>
    \/ /\ pc[c] \in {"rollback_read", "rollback_write"}
       /\ Unlock(c)
       /\ torn' = TRUE
       /\ UNCHANGED <<codex, files, phase, snapshot, edited, asked>>

-----------------------------------------------------------------------------
(* DisableProxy.                                                           *)

DisableBegin(c) ==
    /\ Lock(c, "disable")
    /\ edited' = {}
    /\ UNCHANGED <<codex, files, phase, snapshot, read, torn, asked>>

\* Load the state: without a cycle there is nothing to put back.
DisableLoad(c) ==
    /\ pc[c] = "disable"
    /\ \/ /\ phase = "active"
          /\ Goto(c, "disable_config")
          /\ UNCHANGED <<mu, read>>
       \/ /\ phase = "none"
          /\ Goto(c, "close")
          /\ UNCHANGED <<mu, read>>
       \/ Unlock(c)      \* inactive already, or the state cannot be loaded
    /\ UNCHANGED <<codex, files, phase, snapshot, history>>

DisableRead(c) ==
    \/ /\ pc[c] = "disable_config"
       /\ Load(c, "config")
       /\ Goto(c, IF codex THEN "disable_auth" ELSE "restore_config")
       /\ UNCHANGED <<codex, files, phase, snapshot, mu, history>>
    \/ /\ pc[c] = "disable_auth"
       /\ Load(c, "auth")
       /\ Goto(c, "restore_auth")
       /\ UNCHANGED <<codex, files, phase, snapshot, mu, history>>
    \/ /\ pc[c] \in {"disable_config", "disable_auth"}
       /\ Fails(c)

RestoreAuth(c) ==
    \/ /\ pc[c] = "restore_auth"
       /\ Restore("auth", read[c]["auth"])
       /\ Goto(c, "restore_config")
       /\ UNCHANGED <<codex, phase, snapshot, mu, read, history>>
    \/ /\ pc[c] = "restore_auth"
       /\ Changes("auth", read[c]["auth"])
       /\ Fails(c)

\* Mutant of RestoreConfig: the state is closed whether or not it succeeded.
RestoreConfigAnyway(c) ==
    /\ pc[c] = "restore_config"
    /\ Restore("config", read[c]["config"]) \/ UNCHANGED files
    /\ Goto(c, "close")
    /\ UNCHANGED <<codex, phase, snapshot, mu, read, history>>

\* Mutant of RestoreConfig: auth.json is not put back when config.toml fails.
RestoreConfigOnly(c) ==
    \/ /\ pc[c] = "restore_config"
       /\ Restore("config", read[c]["config"])
       /\ Goto(c, "close")
       /\ UNCHANGED <<codex, phase, snapshot, mu, read, history>>
    \/ /\ pc[c] = "restore_config"
       /\ Changes("config", read[c]["config"])
       /\ Fails(c)

\* config.toml, which ProxyStatus looks at; when it fails, auth.json is put
\* back as it was before this call.
RestoreConfig(c) ==
    \/ /\ pc[c] = "restore_config"
       /\ Restore("config", read[c]["config"])
       /\ Goto(c, "close")
       /\ UNCHANGED <<codex, phase, snapshot, mu, read, history>>
    \/ /\ pc[c] = "restore_config"
       /\ Changes("config", read[c]["config"])
       /\ IF codex /\ Changes("auth", read[c]["auth"])
          THEN Goto(c, "rollback_auth") /\ UNCHANGED <<mu, read>>
          ELSE Unlock(c)
       /\ UNCHANGED <<codex, files, phase, snapshot, history>>

RollbackAuth(c) ==
    /\ pc[c] = "rollback_auth"
    /\ \/ /\ files' = [files EXCEPT !["auth"] = Content(read[c]["auth"])]
          /\ UNCHANGED torn
       \/ /\ torn' = TRUE
          /\ UNCHANGED files
    /\ Unlock(c)
    /\ UNCHANGED <<codex, phase, snapshot, edited, asked>>

\* Mutant of CloseCycle: the originals stay in the state file.
CloseCycleKeeps(c) ==
    /\ pc[c] = "close"
    /\ phase' = "inactive"
    /\ Unlock(c)
    /\ UNCHANGED <<codex, files, snapshot, history>>

\* Save the inactive state: the originals, which may be API keys, are wiped.
CloseCycle(c) ==
    \/ /\ pc[c] = "close"
       /\ torn' = IF phase = "active" THEN edited # {} ELSE torn
       /\ phase' = "inactive"
       /\ snapshot' = [f \in Files |-> Fresh]
       /\ Unlock(c)
       /\ UNCHANGED <<codex, files, edited, asked>>
    \/ /\ pc[c] = "close"
       /\ Fails(c)

-----------------------------------------------------------------------------
(* InjectMcp and RemoveMcp, of Codex: the entry is in config.toml.         *)

\* Mutant of McpBegin: the mutex is not taken.
McpBeginUnlocked(c, label) ==
    /\ codex /\ pc[c] = "idle"
    /\ Goto(c, label)
    /\ UNCHANGED <<codex, files, phase, snapshot, mu, read, history>>

McpBegin(c, label) ==
    /\ codex
    /\ Lock(c, label)
    /\ UNCHANGED <<codex, files, phase, snapshot, read, history>>

McpRead(c) ==
    \/ /\ pc[c] \in {"inject", "remove"}
       /\ Load(c, "config")
       /\ Goto(c, IF pc[c] = "inject" THEN "inject_write" ELSE "remove_write")
       /\ UNCHANGED <<codex, files, phase, snapshot, mu, history>>
    \/ /\ pc[c] \in {"inject", "remove"}
       /\ Fails(c)

\* The whole file is written again, with or without the entry.
McpWrite(c) ==
    \/ /\ pc[c] \in {"inject_write", "remove_write"}
       /\ LET entry == pc[c] = "inject_write"
          IN  /\ Written("config", read[c]["config"], [Content(read[c]["config"]) EXCEPT !.mcp = entry])
              /\ asked' = entry
       /\ Unlock(c)
       /\ UNCHANGED <<codex, phase, snapshot, edited, torn>>
    \/ /\ pc[c] \in {"inject_write", "remove_write"}
       /\ Content(read[c]["config"]).mcp # (pc[c] = "inject_write")
       /\ Fails(c)

-----------------------------------------------------------------------------
(* The environment.                                                        *)

\* The user, or the tool, rewrites a file at any time.
Edit(f, managed, other) ==
    /\ f = "auth" => codex
    /\ LET new == [Content(files[f]) EXCEPT !.managed = managed, !.other = other]
       IN  files[f] # new /\ files' = [files EXCEPT ![f] = new]
    /\ edited' = edited \union {f}
    /\ torn' = TRUE
    /\ UNCHANGED <<codex, phase, snapshot, mu, pc, read, asked>>

\* Portico ends in the middle of an operation and is started again.
Crash ==
    /\ mu
    /\ mu' = FALSE
    /\ pc' = [c \in Callers |-> "idle"]
    /\ read' = [c \in Callers |-> NothingRead]
    /\ torn' = TRUE
    /\ UNCHANGED <<codex, files, phase, snapshot, edited, asked>>

Enable(c) == EnableBegin(c) \/ EnableRead(c) \/ SaveSnapshot(c) \/ TakeConfig(c) \/ TakeAuth(c) \/ RollbackConfig(c)
Disable(c) ==
    \/ DisableBegin(c) \/ DisableLoad(c) \/ DisableRead(c) \/ RestoreAuth(c) \/ RestoreConfig(c)
    \/ RollbackAuth(c) \/ CloseCycle(c)
Mcp(c) == McpBegin(c, "inject") \/ McpBegin(c, "remove") \/ McpRead(c) \/ McpWrite(c)

Next ==
    \/ \E c \in Callers : Enable(c) \/ Disable(c) \/ Mcp(c)
    \/ \E f \in Files, managed \in Values \union {None}, other \in BOOLEAN : Edit(f, managed, other)
    \/ Crash

Spec == Init /\ [][Next]_vars

-----------------------------------------------------------------------------
Labels == {"idle", "enable_config", "enable_auth", "save", "take_config", "take_auth",
           "rollback_read", "rollback_write", "disable", "disable_config", "disable_auth",
           "restore_auth", "restore_config", "rollback_auth", "close",
           "inject", "remove", "inject_write", "remove_write"}

\* The types of the variables, and two facts of their shape: the mutex is held
\* exactly while a caller is in an operation, and no originals (they may be API
\* keys) outlive their cycle (proxyStateStore.save).
TypeOK ==
    /\ codex \in BOOLEAN
    /\ files \in [Files -> File \union {NoFile}]
    /\ phase \in {"none", "active", "inactive"}
    /\ snapshot \in [Files -> Original]
    /\ mu \in BOOLEAN
    /\ pc \in [Callers -> Labels]
    /\ read \in [Callers -> [Files -> File \union {NoFile}]]
    /\ edited \in SUBSET Files
    /\ torn \in BOOLEAN /\ asked \in BOOLEAN
    /\ mu <=> \E c \in Callers : pc[c] # "idle"
    /\ phase # "active" => \A f \in Files : snapshot[f] = Fresh

\* The user's own values are never lost: while a file points at the relay, the
\* snapshot is active and holds what the user had there, whatever operation
\* failed, was repeated, or was cut off by a crash.
OriginalsSaved ==
    \A f \in Files : Content(files[f]).managed = Ours =>
        phase = "active" /\ snapshot[f].managed # Ours

\* Disable closes a cycle only when both files have their original values
\* again, and those that Enable created are gone unless they are in use.
ClosesRestored ==
    [][phase = "active" /\ phase' # "active" =>
        \A f \in Files \ edited :
            /\ Content(files[f]).managed = snapshot[f].managed
            /\ ~snapshot[f].existed => files[f] # Blank]_vars

\* Codex's two files are taken over together or not at all: an operation that
\* fails half way puts the first file back.  Exempt are files the user edits,
\* a crash, and a rollback that fails itself.
FilesTogether ==
    codex /\ ~mu /\ ~torn =>
        (Content(files["config"]).managed = Ours <=> Content(files["auth"]).managed = Ours)

\* The MCP entry is there if and only if the user asked for it last: neither
\* Enable nor Disable brings it back or takes it away (codex_mcp_test.go).
McpAsAsked == Content(files["config"]).mcp = asked
=============================================================================
