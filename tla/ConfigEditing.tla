--------------------------- MODULE ConfigEditing ---------------------------
(***************************************************************************)
(* What EnableProxy and DisableProxy do to the text of a command line      *)
(* tool's configuration, while the user edits the same file: Codex's       *)
(* config.toml, Claude's settings.json and Gemini's .env.  PlatformProxy   *)
(* has the files, crashes and concurrent callers, with one value for all   *)
(* managed fields; here one caller works on one file, field by field and   *)
(* line by line.                                                           *)
(***************************************************************************)
EXTENDS JsonEdit, EnvEdit

CONSTANTS
    ProviderFields,  \* the fields of a Codex provider that are managed, in order
    TomlLines,       \* lines a user may have in config.toml
    JsonMembers,     \* members a user may have in settings.json
    EnvLines,        \* lines a user may have in .env
    MaxLines,        \* bound: lines of the user's file, and edits to it later
    MaxEdits,        \* bound: edits to the file while the relay is in it
    MoreCycles,      \* bound: whether a closed cycle may be followed by another
    LastLineEnded    \* whether the user's files may, or must, end with a newline

ASSUME EditingConstants ==
    /\ MaxLines \in Nat /\ MaxEdits \in Nat
    /\ MoreCycles \in BOOLEAN
    /\ LastLineEnded \subseteq BOOLEAN
    /\ \A line \in EnvLines :
          /\ line.quoted \in BOOLEAN /\ line.sound \in BOOLEAN
          /\ line = [EnvLine(line.key, line.means, line.quoted, line.trim, TRUE) EXCEPT !.sound = line.sound]

VARIABLES
    tool,     \* whose file it is
    doc,      \* its content; an absent file has none
    exists,   \* whether there is a file
    phase,    \* proxyState: "none", "active" or "inactive"
    saved,    \* the snapshot in it
    was,      \* history: the file when the cycle began
    last,     \* history: what was done last
    touched,  \* history: somebody else has written the file in this cycle
    edits

vars == <<tool, doc, exists, phase, saved, was, last, touched, edits>>

-----------------------------------------------------------------------------
(* The managed fields.                                                     *)

Provider(name) == [i \in DOMAIN ProviderFields |-> <<"model_providers", name, ProviderFields[i]>>]
CodexFields == <<<<"model_provider">>>> \o Provider("portico") \o Provider("code-switch")
CodexTables == <<<<"model_providers", "portico">>, <<"model_providers", "code-switch">>, <<"model_providers">>>>
ClaudeFields == <<<<"env", "ANTHROPIC_AUTH_TOKEN">>, <<"env", "ANTHROPIC_BASE_URL">>>>
GeminiFields == <<"GEMINI_API_KEY", "GOOGLE_GEMINI_BASE_URL">>

Fields == CASE tool = "codex" -> CodexFields [] tool = "claude" -> ClaudeFields [] OTHER -> GeminiFields

\* The old provider goes, everything else points at the relay.
Desired(field) ==
    IF tool = "codex" /\ Len(field) = 3 /\ field[2] = "code-switch" THEN {} ELSE {Scalar("relay", "plain")}

EditField(file, field, vals) ==
    CASE tool = "codex" -> TomlEdited(file, field, vals)
      [] tool = "claude" -> JsonEdited(file, field, vals)
      [] OTHER -> IF Sound(file, field) THEN Done(SetEnv(file, field, "relay")) ELSE Refused(file)

RestoreField(file, field, originals) ==
    IF tool = "gemini"
    THEN IF Sound(file, field) THEN Done(RestoreEnv(file, field, originals)) ELSE Refused(file)
    ELSE EditField(file, field, ToSet(originals))

-----------------------------------------------------------------------------
(* Capturing the originals.                                                *)

IsContainer(file, path) ==
    CASE tool = "codex" -> IsTable(Parsed(file), path)
      [] tool = "claude" -> IsObject(file, path)
      [] OTHER -> FALSE

Containers == CASE tool = "codex" -> CodexTables [] tool = "claude" -> <<<<"env">>>> [] OTHER -> <<>>

\* A field that cannot be read safely stops the Enable.
Capturable(file) ==
    CASE tool = "codex" ->
             LET d == Parsed(file)
             IN  /\ \A i \in DOMAIN CodexFields : Readable(d, CodexFields[i])
                 /\ \A i \in DOMAIN CodexTables : CodexTables[i] \in d.named => IsTable(d, CodexTables[i])
      [] tool = "claude" ->
             /\ \A i \in DOMAIN ClaudeFields : ParentsAreObjects(file, ClaudeFields[i])
             /\ Exists(file, <<"env">>) => IsObject(file, <<"env">>)
      [] OTHER -> \A i \in DOMAIN GeminiFields : Sound(file, GeminiFields[i])

Original(file, field) ==
    CASE tool = "codex" ->
             LET d == Parsed(file) IN IF IsScalar(d, field) THEN <<BindingAt(d, field).val>> ELSE <<>>
      [] tool = "claude" -> IF Exists(file, field) THEN <<MemberAt(file, field).val>> ELSE <<>>
      [] OTHER -> OriginalLines(file, field)

NothingSaved == [existed |-> FALSE, fields |-> <<>>, containers |-> {}]

Captured ==
    [existed |-> exists,
     fields |-> [i \in DOMAIN Fields |-> Original(doc, Fields[i])],
     containers |-> {p \in ToSet(Containers) : IsContainer(doc, p)}]

-----------------------------------------------------------------------------
(* The operations.                                                         *)

TakenOver(file) ==
    LET taken[n \in 0 .. Len(Fields)] ==
            LET before == taken[n - 1]
            IN  IF n = 0 THEN Done(file)
                ELSE IF before.ok THEN EditField(before.doc, Fields[n], Desired(Fields[n]))
                ELSE before
    IN  taken[Len(Fields)]

\* The originals go back, in the order of the fields.
Restored(file) ==
    LET restored[n \in 0 .. Len(Fields)] ==
            LET before == restored[n - 1]
            IN  IF n = 0 THEN Done(file)
                ELSE IF before.ok THEN RestoreField(before.doc, Fields[n], saved.fields[n])
                ELSE before
    IN  restored[Len(Fields)]

PruneContainer(file, path) == IF tool = "codex" THEN TomlPruned(file, path) ELSE JsonPruned(file, path)

\* Then a container that was not there before, and holds nothing, goes.
PutBack(file) ==
    LET pruned[n \in 0 .. Len(Containers)] ==
            LET before == pruned[n - 1]
            IN  IF n = 0 THEN Restored(file)
                ELSE IF before.ok /\ Containers[n] \notin saved.containers
                THEN PruneContainer(before.doc, Containers[n])
                ELSE before
    IN  pruned[Len(Containers)]

\* All edits are computed before the snapshot is saved and the file written.
Enable ==
    LET result == TakenOver(doc)
    IN  /\ phase = "inactive" => MoreCycles
        /\ phase # "active" => Capturable(doc)
        /\ result.ok
        /\ doc' = result.doc
        /\ exists' = (exists \/ result.doc # doc)
        /\ IF phase = "active" THEN UNCHANGED <<saved, was, touched>>
           ELSE /\ saved' = Captured
                /\ was' = [doc |-> doc, exists |-> exists]
                /\ touched' = FALSE
        /\ phase' = "active"
        /\ last' = "enable"
        /\ UNCHANGED <<tool, edits>>

\* A file that Enable created and that is empty again is removed.
Disable ==
    LET result == PutBack(doc)
    IN  /\ phase = "active"
        /\ result.ok
        /\ doc' = result.doc
        /\ exists' = IF ~saved.existed /\ result.doc = <<>> THEN FALSE ELSE exists \/ result.doc # doc
        /\ phase' = "inactive"
        /\ saved' = NothingSaved
        /\ last' = "disable"
        /\ UNCHANGED <<tool, was, touched, edits>>

Means(originals) == {v.means : v \in ToSet(originals)}

\* ProxyStatus: no cycle is closed, and the tool goes through the relay, for
\* Codex by the old provider if the new one is not in the file.
Selects(file, name, value) ==
    /\ Means(Original(file, <<"model_provider">>)) = {value}
    /\ Means(Original(file, <<"model_providers", name, "base_url">>)) = {"relay"}
ProxyStatus ==
    /\ phase # "inactive"
    /\ CASE tool = "codex" ->
               IF IsContainer(doc, <<"model_providers", "portico">>) THEN Selects(doc, "portico", "relay")
               ELSE Selects(doc, "code-switch", "code-switch")
         [] tool = "claude" -> \A i \in DOMAIN Fields : Means(Original(doc, Fields[i])) = {"relay"}
         [] OTHER -> \A i \in DOMAIN Fields : Effective(doc, Fields[i]) = <<"relay">>

\* Without a cycle the file is nobody's business but the user's.
DisableWithoutCycle ==
    /\ phase = "none"
    /\ phase' = "inactive"
    /\ last' = "disable"
    /\ was' = [doc |-> doc, exists |-> exists]
    /\ UNCHANGED <<tool, doc, exists, saved, touched, edits>>

-----------------------------------------------------------------------------
(* The user, and Codex's InjectMcp.                                        *)

WellFormed(file) ==
    CASE tool = "codex" -> Valid(Parsed(file))
      [] tool = "claude" -> \A b, c \in AllMembers(file) : b.path = c.path => b = c
      [] OTHER -> \A i \in DOMAIN file : file[i].ended \/ i = Len(file)

UserLines == CASE tool = "codex" -> TomlLines [] tool = "claude" -> JsonMembers [] OTHER -> EnvLines

InlineTables(file) ==
    CASE tool = "codex" -> {b \in Parsed(file).bindings : b.val.kind = "inline"}
      [] tool = "claude" -> {b \in AllMembers(file) : b.val.kind = "inline"}
      [] OTHER -> {}
MayEdit == phase = "active" /\ edits < MaxEdits /\ Len(was.doc) + edits < MaxLines
UserChild == KeyValue(<<"extra">>, Scalar("user", "plain"))

\* The user inserts or removes a line, or fills an inline table, while the relay is in the file.
UserEdit ==
    /\ MayEdit
    /\ \/ \E i \in 1 .. Len(doc) + 1, line \in UserLines : doc' = InsertAt(doc, i, line)
       \/ \E i \in DOMAIN doc : doc' = RemoveAt(doc, i)
       \/ \E b \in InlineTables(doc) :
              LET owner == At(doc, b.place)
              IN  doc' = Splice(doc, b.place, <<[owner EXCEPT !.val.kvs = Append(@, UserChild)]>>)
    /\ WellFormed(doc')
    /\ exists' = TRUE
    /\ last' = "edit" /\ touched' = TRUE
    /\ edits' = edits + 1
    /\ UNCHANGED <<tool, phase, saved, was>>

\* toml.Marshal of what the document means, in its own layout: the root's
\* values, then each table under its header, without those that
\* stripRedundantTableHeaders takes away; arrays of tables come last here.
Marshalled(file) ==
    LET d == Parsed(file)
        own(path) == {b \in d.bindings : Front(b.path) = path /\ b.val.kind # "inline"}
        lines(path) == SetToSeq({KeyValue(<<Last(b.path)>>, b.val) : b \in own(path)})
        above == UNION {{SubSeq(p, 1, n) : n \in 1 .. Len(p)} : p \in d.named}
        tables == {p \in above : IsTable(d, p) /\ p \notin {<<"model_providers">>, <<"mcp_servers">>}}
        arrays == SelectSeq([i \in DOMAIN file |-> <<i, file[i]>>],
                            LAMBDA l : LET h == IF l[2].kind = "kv" THEN HeaderOf(file, l[1]) ELSE l[1]
                                       IN  InsideArray(file, h))
    IN  lines(<<>>) \o FlattenSeq(SetToSeq({<<Table(p)>> \o lines(p) : p \in tables}))
        \o [i \in DOMAIN arrays |-> arrays[i][2]]

\* InjectMcp decodes config.toml, sets one entry and writes it all again.
InjectMcp ==
    LET entry == <<Table(<<"mcp_servers", "portico">>), KeyValue(<<"url">>, Scalar("relay", "plain"))>>
    IN  /\ tool = "codex" /\ MayEdit
        /\ ~\E i \in DOMAIN doc : doc[i] = entry[1]
        /\ doc' = Marshalled(doc \o entry)
        /\ exists' = TRUE
        /\ last' = "mcp" /\ touched' = TRUE
        /\ edits' = edits + 1
        /\ UNCHANGED <<tool, phase, saved, was>>

\* The user's files before Portico: every well-formed file of so many lines.
UserFiles ==
    IF tool = "gemini"
    THEN {<<>>} \union UNION {{[file EXCEPT ![Len(file)].ended = e] : e \in LastLineEnded} :
                                  file \in BoundedSeq(UserLines, MaxLines) \ {<<>>}}
    ELSE {file \in BoundedSeq(UserLines, MaxLines) : WellFormed(file)}

Init ==
    /\ tool \in {"codex", "claude", "gemini"}
    /\ doc \in UserFiles
    /\ exists \in BOOLEAN
    /\ ~exists => doc = <<>>
    /\ phase = "none" /\ saved = NothingSaved
    /\ was = [doc |-> doc, exists |-> exists]
    /\ last = "start" /\ touched = FALSE /\ edits = 0

Next == Enable \/ Disable \/ DisableWithoutCycle \/ UserEdit \/ InjectMcp

Spec == Init /\ [][Next]_vars

-----------------------------------------------------------------------------
\* The types of the variables; and the file can be read by its tool after
\* every step, whatever was edited.
TypeOK ==
    /\ tool \in {"codex", "claude", "gemini"}
    /\ exists \in BOOLEAN /\ ~exists => doc = <<>>
    /\ phase \in {"none", "active", "inactive"}
    /\ phase # "active" => saved = NothingSaved
    /\ last \in {"start", "enable", "disable", "edit", "mcp"}
    /\ touched \in BOOLEAN /\ edits \in 0 .. MaxEdits
    /\ WellFormed(doc)

Managed(path) == path \in ToSet(Fields)
Told(b) == <<b.path, IF b.val.kind = "inline" THEN "inline" ELSE b.val>>
Foreign(b) == ~Managed(b.path) /\ b.path \notin ToSet(Containers)

\* What a file holds beside the managed fields and their containers, in its
\* order.  Empty tables of the user's count, lines inside arrays of tables too.
Rest(file) ==
    LET entries(reading) == LET own == SelectSeq(reading, Foreign) IN [i \in DOMAIN own |-> Told(own[i])]
        lines == Kept(file, {i \in DOMAIN file : file[i].key \notin ToSet(GeminiFields)})
    IN  CASE tool = "codex" ->
                 [entries |-> entries(Reading(file)),
                  tables |-> {s.path : s \in Parsed(file).scopes} \ ToSet(CodexTables),
                  hidden |-> SelectSeq(Marshalled(file), LAMBDA e : e.kind = "arraytable")]
          [] tool = "claude" -> [entries |-> entries(JsonReading(file))]
          [] OTHER -> [entries |-> [i \in DOMAIN lines |-> <<lines[i].key, lines[i].means, lines[i].trim>>]]

\* Enable and Disable leave everything else in the file as the user has it, in
\* its order: keys, tables, comments, lines of other tools ("其他行及其相对顺序
\* 不变", env_edit.go:75).
KeepsTheRest == [][last' \in {"enable", "disable"} => Rest(doc') = Rest(doc)]_vars

\* A table or object that is not empty.
Holds(file, path) ==
    IF tool = "codex" THEN HasBelow(Parsed(file), path) ELSE MemberAt(file, path).val.kvs # <<>>

\* After Enable the tool goes through the relay and the old provider is gone,
\* which ProxyStatus reports;
\* after Disable every managed field has its original value again, or is absent
\* again, whatever the user has done to the file in between, and a table that
\* came with them is gone unless the user has put something of his own there.
SetAndPutBack ==
    /\ last = "enable" =>
           \A i \in DOMAIN Fields :
               Means(Original(doc, Fields[i])) = {v.means : v \in Desired(Fields[i])}
    /\ last = "enable" => ProxyStatus
    /\ last = "disable" /\ was.doc # doc =>
           /\ \A i \in DOMAIN Fields :
                  Means(Original(doc, Fields[i])) = Means(Original(was.doc, Fields[i]))
           /\ \A p \in ToSet(Containers) :
                  IsContainer(doc, p) /\ ~IsContainer(was.doc, p) => Holds(doc, p)

\* Tables that are only there because there is something below them.
Implicit(file) ==
    {p \in ToSet(Containers) : IsContainer(file, p) /\ ~\E s \in Parsed(file).scopes : s.path = p}

\* A cycle in which nobody else has written the file leaves no trace: every
\* line is where it was, spelled as it was.  Exempt are files with fields of
\* Code Switch, which Enable removes and Disable can only put back somewhere,
\* and those where portico's table was there only by a table inside it: it
\* keeps the header it got.
RoundTrip ==
    last = "disable" /\ ~touched
    /\ (tool = "codex" =>
            /\ \A i \in DOMAIN Provider("code-switch") : Original(was.doc, Provider("code-switch")[i]) = <<>>
            /\ <<"model_providers", "portico">> \notin Implicit(was.doc))
        => doc = was.doc /\ exists = was.exists
=============================================================================
