------------------------------ MODULE JsonEdit ------------------------------
(***************************************************************************)
(* The source patches of json_edit.go on a JSON object: the sequence of    *)
(* its members in the order of the text, where a member is a key/value of  *)
(* one key and an object value is an inline table (TomlEdit).  gjson and   *)
(* sjson find, replace, append and delete members in place.                *)
(***************************************************************************)
EXTENDS TomlEdit

\* All members of the object and of the objects in it, in the order of the text.
JsonReading(doc) == Indexed([i \in DOMAIN doc |-> Entry(doc[i], <<i>>, <<>>, <<>>)])
AllMembers(doc) == ToSet(JsonReading(doc))

Exists(doc, path) == \E b \in AllMembers(doc) : b.path = path
MemberAt(doc, path) == CHOOSE b \in AllMembers(doc) : b.path = path
IsObject(doc, path) == Exists(doc, path) /\ MemberAt(doc, path).val.kind = "inline"

\* validateJSONParents.
ParentsAreObjects(doc, path) ==
    \A i \in 1 .. Len(path) - 1 :
        Exists(doc, SubSeq(path, 1, i)) => IsObject(doc, SubSeq(path, 1, i))

\* Mutant of SetMember: a member that exists is not looked for.
SetMemberAgain(doc, path, val) ==
    LET owner == MemberAt(doc, Front(path))
    IN  IF ~Exists(doc, Front(path)) THEN Append(doc, Nested(path, val))
        ELSE Splice(doc, owner.place, <<KeyValue(owner.keys, Inline(Append(owner.val.kvs, KeyValue(<<Last(path)>>, val))))>>)

\* sjson.SetRawBytes: in place, or as the last member of the deepest object
\* that exists; the objects in between are created.
SetMember(doc, path, val) ==
    LET depth == Max({n \in 0 .. Len(path) - 1 : n = 0 \/ Exists(doc, SubSeq(path, 1, n))})
        owner == MemberAt(doc, SubSeq(path, 1, depth))
        new == Nested(SubSeq(path, depth + 1, Len(path)), val)
    IN  IF Exists(doc, path)
        THEN Splice(doc, MemberAt(doc, path).place, <<KeyValue(<<Last(path)>>, val)>>)
        ELSE IF depth = 0 THEN Append(doc, new)
        ELSE Splice(doc, owner.place, <<KeyValue(owner.keys, Inline(Append(owner.val.kvs, new)))>>)

\* sjson.DeleteBytes.
Deleted(doc, path) == Splice(doc, MemberAt(doc, path).place, <<>>)

\* applyJSONFieldEdits, for one field.  vals holds the wanted value, or nothing.
JsonEdited(doc, path, vals) ==
    LET val == CHOOSE v \in vals : TRUE
        old == MemberAt(doc, path).val
        same == Exists(doc, path) /\ old.kind = val.kind /\ (val.kind = "scalar" => old.means = val.means)
                /\ (val.kind # "scalar" => old = val)
    IN  IF ~ParentsAreObjects(doc, path) THEN Refused(doc)
        ELSE Done(IF vals = {} THEN IF Exists(doc, path) THEN Deleted(doc, path) ELSE doc
                  ELSE IF same THEN doc ELSE SetMember(doc, path, val))

\* pruneJSONContainers, for one path.
JsonPruned(doc, path) ==
    IF Exists(doc, path) /\ ~IsObject(doc, path) THEN Refused(doc)
    ELSE Done(IF Exists(doc, path) /\ MemberAt(doc, path).val.kvs = <<>> THEN Deleted(doc, path) ELSE doc)
=============================================================================
