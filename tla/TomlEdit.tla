------------------------------ MODULE TomlEdit ------------------------------
(***************************************************************************)
(* The source patches of toml_edit.go on a TOML document.  A document is   *)
(* the sequence of its expressions: table headers, headers of arrays of    *)
(* tables, and key/values, whose value is a scalar, an array or an inline  *)
(* table of further key/values.  A scalar has a meaning and a spelling.    *)
(* Blanks, comments, quotes of keys and line endings are left out: a patch *)
(* copies them from its neighbour and never moves them.                    *)
(*                                                                         *)
(* A place is the number of an expression, followed by the numbers of the  *)
(* children that lead into its inline tables.                              *)
(***************************************************************************)
EXTENDS Integers, Sequences, SequencesExt, FiniteSets, FiniteSetsExt

Scalar(means, spelled) == [kind |-> "scalar", means |-> means, spelled |-> spelled]
Inline(kvs) == [kind |-> "inline", kvs |-> kvs]
Array == [kind |-> "array"]
KeyValue(keys, val) == [kind |-> "kv", keys |-> keys, val |-> val]
Table(path) == [kind |-> "table", path |-> path]
ArrayTable(path) == [kind |-> "arraytable", path |-> path]

-----------------------------------------------------------------------------
(* parseTOMLEditDocument: scopes and the bindings in them.                 *)

\* The header a line stands under; 0 is the top of the file.
HeaderOf(exprs, i) == Max({0} \union {j \in 1 .. i - 1 : exprs[j].kind # "kv"})

\* A table header inside an array of tables opens no scope.
InsideArray(exprs, h) ==
    /\ h # 0
    /\ \/ exprs[h].kind = "arraytable"
       \/ \E a \in 1 .. h - 1 : exprs[a].kind = "arraytable" /\ IsPrefix(exprs[a].path, exprs[h].path)

ScopePath(exprs, h) == IF h = 0 THEN <<>> ELSE exprs[h].path

Entry(kv, place, scope, within) ==
    [path |-> scope \o kv.keys, place |-> place, within |-> within, keys |-> kv.keys, val |-> kv.val]

\* indexKeyValue: each inline table at this depth is followed by what is in it.
OpensAt(depth, e) == Len(e.place) = depth /\ e.val.kind = "inline"
OpenedAt(depth, entries) ==
    FlattenSeq([i \in DOMAIN entries |->
        LET e == entries[i]
        IN  <<e>> \o [j \in IF OpensAt(depth, e) THEN DOMAIN e.val.kvs ELSE {} |->
                         Entry(e.val.kvs[j], Append(e.place, j), e.path, e.place)]])

\* Depth by depth, until there is nothing more to open: the key/values and all
\* that is in their inline tables, in the order of the text.
Indexed(entries) ==
    LET opened[depth \in Nat] == IF depth = 0 THEN entries ELSE OpenedAt(depth, opened[depth - 1])
        all[depth \in Nat] ==
            LET orDeeper(found) ==
                    IF \E i \in DOMAIN found : OpensAt(depth + 1, found[i]) THEN all[depth + 1] ELSE found
            IN  orDeeper(opened[depth])
    IN  all[0]

Reading(exprs) ==
    Indexed(FlattenSeq([i \in DOMAIN exprs |->
        LET h == HeaderOf(exprs, i)
        IN  IF exprs[i].kind = "kv" /\ ~InsideArray(exprs, h)
            THEN <<Entry(exprs[i], <<i>>, ScopePath(exprs, h), <<h>>)>> ELSE <<>>]))

Root == [kind |-> "root", path |-> <<>>, place |-> <<0>>]

Parsed(exprs) ==
    LET bindings == ToSet(Reading(exprs))
        open == {h \in DOMAIN exprs : exprs[h].kind = "table" /\ ~InsideArray(exprs, h)}
    IN  [exprs |-> exprs,
         bindings |-> bindings,
         scopes |-> {[kind |-> "table", path |-> exprs[h].path, place |-> <<h>>] : h \in open}
                    \union {[kind |-> "inline", path |-> b.path, place |-> b.place] :
                            b \in {c \in bindings : c.val.kind = "inline"}},
         arrays |-> {exprs[h].path : h \in {j \in DOMAIN exprs : exprs[j].kind = "arraytable"}}
                    \union {b.path : b \in {c \in bindings : c.val.kind = "array"}},
         named |-> {b.path : b \in bindings} \union {exprs[h].path : h \in {j \in DOMAIN exprs : exprs[j].kind # "kv"}}]

\* The bindings whose scope this is.
Members(d, scope) == {b \in d.bindings : b.within = scope.place}

\* The last of the bindings of one scope.
LastOf(bindings) == CHOOSE b \in bindings : \A c \in bindings : Last(c.place) <= Last(b.place)

-----------------------------------------------------------------------------
(* What the document means: lookup in the decoded tree.                    *)

IsArray(d, path) == path \in d.arrays
IsScalar(d, path) == \E b \in d.bindings : b.path = path /\ b.val.kind = "scalar"
HasBelow(d, path) == \E p \in d.named : IsStrictPrefix(path, p)
IsTable(d, path) ==
    /\ ~IsArray(d, path) /\ ~IsScalar(d, path)
    /\ HasBelow(d, path) \/ \E s \in d.scopes : s.path = path
BindingAt(d, path) == CHOOSE b \in d.bindings : b.path = path

\* checkParentContainers: every parent that is there is a table.
ParentsAreTables(d, path) ==
    \A i \in 1 .. Len(path) - 1 :
        LET parent == SubSeq(path, 1, i) IN ~IsArray(d, parent) /\ ~IsScalar(d, parent)

\* toml.Unmarshal accepts the document: nothing is defined twice, an inline
\* table is not extended, a dotted key reaches into no table with a header.
Valid(d) ==
    LET headers == {d.exprs[h].path : h \in {j \in DOMAIN d.exprs : d.exprs[j].kind # "kv"}}
        lines(h) == {i \in DOMAIN d.exprs : d.exprs[i].kind = "kv" /\ HeaderOf(d.exprs, i) = h}
    IN  /\ \A b, c \in d.bindings :
               b # c /\ IsPrefix(b.path, c.path) => b.val.kind = "inline" /\ IsStrictPrefix(b.place, c.place)
        /\ \A b \in d.bindings :
               /\ \A p \in headers : ~IsPrefix(b.path, p)
               /\ \A n \in Len(b.path) - Len(b.keys) + 1 .. Len(b.path) - 1 : SubSeq(b.path, 1, n) \notin headers
        /\ \A h, j \in DOMAIN d.exprs :
               h # j /\ d.exprs[h].kind = "table" /\ d.exprs[j].kind # "kv" => d.exprs[h].path # d.exprs[j].path
        /\ \A h \in DOMAIN d.exprs : d.exprs[h].kind # "kv" /\ InsideArray(d.exprs, h) =>
               \A i, k \in lines(h) : i # k => d.exprs[i].keys # d.exprs[k].keys

-----------------------------------------------------------------------------
(* Patches.                                                                *)

\* The key/values that lead to a place, from the outermost.
Along(kvs, place) ==
    LET at[n \in DOMAIN place] == IF n = 1 THEN kvs[place[1]] ELSE at[n - 1].val.kvs[place[n]] IN at
At(kvs, place) == Along(kvs, place)[Len(place)]

\* Replace the key/value at a place by others.
Exchanged(kvs, i, new) == SubSeq(kvs, 1, i - 1) \o new \o SubSeq(kvs, i + 1, Len(kvs))
Splice(kvs, place, new) ==
    LET spliced[n \in DOMAIN place] ==
            Exchanged(IF n = 1 THEN kvs ELSE Along(kvs, place)[n - 1].val.kvs,
                      place[n],
                      IF n = Len(place) THEN new
                      ELSE <<[Along(kvs, place)[n] EXCEPT !.val.kvs = spliced[n + 1]]>>)
    IN  spliced[1]

\* formatTOMLNestedAssignment: a chain of inline tables of one key each.
Nested(relative, val) ==
    KeyValue(<<relative[1]>>,
             FoldRight(LAMBDA key, inner : Inline(<<KeyValue(<<key>>, inner)>>), Tail(relative), val))

\* Mutant of InsertLine: a line without an exemplar goes to the end of the file.
InsertLineLast(d, scope, kv, exemplars) ==
    InsertAt(d.exprs, (IF exemplars # {} THEN LastOf(exemplars).place[1] ELSE Len(d.exprs)) + 1, kv)

\* insertLine: after the exemplar, or else after the last line of the scope.
InsertLine(d, scope, kv, exemplars) ==
    LET anchors == IF exemplars # {} THEN exemplars ELSE Members(d, scope)
        after == IF anchors # {} THEN LastOf(anchors).place[1] ELSE scope.place[1]
    IN  InsertAt(d.exprs, after + 1, kv)

\* insertInline: before the first child.
InsertInline(d, scope, kv) ==
    Splice(d.exprs, scope.place, <<[At(d.exprs, scope.place) EXCEPT !.val.kvs = <<kv>> \o @]>>)

InsertInto(d, scope, kv, exemplars) ==
    IF scope.kind = "inline" THEN InsertInline(d, scope, kv) ELSE InsertLine(d, scope, kv, exemplars)

Below(path, scope) == SubSeq(path, Len(scope.path) + 1, Len(path))

\* The bindings of a scope that reach into the container by a dotted key.
DottedInto(d, scope, container) ==
    {b \in Members(d, scope) : IsStrictPrefix(Below(container, scope), b.keys)}

\* findDottedScope: the innermost scope above the container that has some.
DottedScopes(d, container) ==
    LET above == {s \in d.scopes \union {Root} :
                     IsStrictPrefix(s.path, container) /\ DottedInto(d, s, container) # {}}
    IN  {s \in above : \A t \in above : Len(t.path) <= Len(s.path)}

\* deepestExistingAncestor.
Ancestor(d, parent) ==
    SubSeq(parent, 1, Max({n \in 0 .. Len(parent) : n = 0 \/ IsTable(d, SubSeq(parent, 1, n))}))

\* insertField below the parent's nearest ancestor: the style of the entries
\* beside it is taken over, dotted keys, else inline tables; a table of its own
\* is the last resort.
InsertByAncestor(d, path, val) ==
    LET ancestor == Ancestor(d, Front(path))
        scopes == {s \in d.scopes : s.path = ancestor}
        scope == CHOOSE s \in scopes : TRUE
        dotted == {b \in Members(d, scope) : Len(b.keys) > 1}
        inline == {b \in Members(d, scope) : Len(b.keys) = 1 /\ b.val.kind = "inline"}
        above == IF ancestor = <<>> THEN {} ELSE DottedScopes(d, ancestor)
        best == CHOOSE s \in above : TRUE
    IN  CASE scopes # {} /\ scope.kind = "inline" -> InsertInline(d, scope, Nested(Below(path, scope), val))
          [] scopes # {} /\ scope.kind = "table" /\ dotted # {} ->
                 InsertLine(d, scope, KeyValue(Below(path, scope), val), dotted)
          [] scopes # {} /\ scope.kind = "table" /\ dotted = {} /\ inline # {} ->
                 InsertLine(d, scope, Nested(Below(path, scope), val), inline)
          [] OTHER ->
                 IF above # {} THEN InsertInto(d, best, KeyValue(Below(path, best), val), DottedInto(d, best, ancestor))
                 ELSE d.exprs \o <<Table(Front(path)), KeyValue(<<Last(path)>>, val)>>

\* insertField: into the parent's own scope, or beside dotted keys into it.
Inserted(d, path, val) ==
    LET parent == Front(path)
        scopes == {s \in d.scopes : s.path = parent}
        scope == CHOOSE s \in scopes : TRUE
        above == DottedScopes(d, parent)
        best == CHOOSE s \in above : TRUE
    IN  CASE parent = <<>> -> InsertLine(d, Root, KeyValue(path, val), {})
          [] parent # <<>> /\ scopes # {} -> InsertInto(d, scope, KeyValue(Below(path, scope), val), {})
          [] parent # <<>> /\ scopes = {} /\ above # {} ->
                 InsertInto(d, best, KeyValue(Below(path, best), val), DottedInto(d, best, parent))
          [] OTHER -> InsertByAncestor(d, path, val)

-----------------------------------------------------------------------------
(* The operations.  A result is a document or an error.                    *)

Done(doc) == [ok |-> TRUE, doc |-> doc]
Refused(doc) == [ok |-> FALSE, doc |-> doc]

\* validateTOMLEditCandidate: an edit that breaks the document is not made.
Checked(doc, candidate) == IF Valid(Parsed(candidate)) THEN Done(candidate) ELSE Refused(doc)

\* readTOMLFieldValues: a managed field is a scalar or absent.
Readable(d, path) == ParentsAreTables(d, path) /\ ~IsTable(d, path) /\ ~IsArray(d, path)

\* applyTOMLFieldEdit.  vals holds the wanted value, or nothing.
EditParsed(d, path, vals) ==
    LET old == BindingAt(d, path)
        val == CHOOSE v \in vals : TRUE
    IN  CASE ~Readable(d, path) -> Refused(d.exprs)
          [] Readable(d, path) /\ vals = {} /\ IsScalar(d, path) ->
                 Checked(d.exprs, Splice(d.exprs, old.place, <<>>))
          [] Readable(d, path) /\ vals # {} /\ IsScalar(d, path) /\ old.val.means # val.means ->
                 Checked(d.exprs, Splice(d.exprs, old.place, <<KeyValue(old.keys, val)>>))
          [] Readable(d, path) /\ vals # {} /\ ~IsScalar(d, path) -> Checked(d.exprs, Inserted(d, path, val))
          [] OTHER -> Done(d.exprs)

TomlEdited(doc, path, vals) == EditParsed(Parsed(doc), path, vals)

\* Mutant of TomlPruned: a table goes whether or not it is empty.
TomlPrunedFull(doc, path) ==
    LET d == Parsed(doc)
        scopes == {s \in d.scopes : s.path = path}
    IN  IF scopes = {} THEN Done(doc)
        ELSE Checked(doc, Splice(doc, (CHOOSE s \in scopes : TRUE).place, <<>>))

\* pruneTOMLContainers, for one path: only an empty table with a source of its
\* own, a header or an inline table, is removed.
PruneParsed(d, path) ==
    LET scopes == {s \in d.scopes : s.path = path}
        scope == CHOOSE s \in scopes : TRUE
    IN  CASE ~ParentsAreTables(d, path) -> Refused(d.exprs)
          [] ParentsAreTables(d, path) /\ scopes # {} /\ ~HasBelow(d, path) ->
                 Checked(d.exprs, Splice(d.exprs, scope.place, <<>>))
          [] OTHER -> Done(d.exprs)

TomlPruned(doc, path) == PruneParsed(Parsed(doc), path)
=============================================================================
