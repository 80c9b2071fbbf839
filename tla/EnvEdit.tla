------------------------------ MODULE EnvEdit ------------------------------
(***************************************************************************)
(* The line patches of env_edit.go on a .env file, the sequence of its     *)
(* lines.  A line assigns a value to a key, or is a comment, a blank or    *)
(* anything else (NoKey).  "means" is the value after its quotes are taken *)
(* off, "trim" the export and the comment around it, "sound" says that the *)
(* value can be parsed, "ended" that the line has its newline: only the    *)
(* last line of a file may lack it, because lines without one run into the *)
(* next when the file is put together (strings.Join).                      *)
(***************************************************************************)
EXTENDS Integers, Sequences, SequencesExt

CONSTANTS
    NoKey,       \* the key of a line that assigns nothing
    Garbled      \* the value of a line that another line has run into

EnvLine(key, means, quoted, trim, ended) ==
    [key |-> key, means |-> means, quoted |-> quoted, trim |-> trim, sound |-> TRUE, ended |-> ended]

Ended(line) == [line EXCEPT !.ended = TRUE]

\* A line without a newline, and the one that follows it in the file.
RunTogether(line, next) ==
    [line EXCEPT !.means = IF line.key = NoKey THEN @ ELSE Garbled,
                 !.sound = line.sound /\ ~line.quoted,
                 !.ended = next.ended]

\* strings.Join, and splitEnvLines of what comes out: after n lines.
Joining(lines) ==
    LET file[n \in 0 .. Len(lines)] ==
            LET before == file[n - 1]
            IN  IF n = 0 THEN <<>>
                ELSE IF before # <<>> /\ ~Last(before).ended
                THEN Append(Front(before), RunTogether(Last(before), lines[n]))
                ELSE Append(before, lines[n])
    IN  file
Joined(lines) == Joining(lines)[Len(lines)]

\* The lines with these numbers, among the first n, in their order.
Keeping(lines, numbers) ==
    LET kept[n \in 0 .. Len(lines)] ==
            IF n = 0 THEN <<>>
            ELSE IF n \in numbers THEN Append(kept[n - 1], lines[n]) ELSE kept[n - 1]
    IN  kept
Kept(lines, numbers) == Keeping(lines, numbers)[Len(lines)]

\* findEnvAssignments; a line of this key that cannot be parsed is an error.
Assigns(lines, key) == {i \in DOMAIN lines : lines[i].key = key}
Sound(lines, key) == \A i \in Assigns(lines, key) : lines[i].sound

\* readEnvFieldValues: the original lines of a key, as they stand.
OriginalLines(lines, key) == Kept(lines, Assigns(lines, key))

\* envEffectiveValues: the last assignment counts.
Effective(lines, key) ==
    IF Assigns(lines, key) = {} THEN <<>> ELSE <<Last(OriginalLines(lines, key)).means>>

\* appendEnvLines: the file's last line and all but the last new one are ended.
AppendLines(lines, new) ==
    (IF lines = <<>> THEN <<>> ELSE Append(Front(lines), Ended(Last(lines))))
    \o [i \in DOMAIN new |-> IF i < Len(new) THEN Ended(new[i]) ELSE new[i]]

\* setEnvField: the value in all assignments of the key, or a new line.
SetEnv(lines, key, means) ==
    IF Assigns(lines, key) = {}
    THEN AppendLines(lines, <<EnvLine(key, means, FALSE, "bare", FALSE)>>)
    ELSE [i \in DOMAIN lines |->
             IF lines[i].key = key /\ lines[i].means # means
             THEN [lines[i] EXCEPT !.means = means, !.quoted = FALSE]
             ELSE lines[i]]

\* As many assignments as before: each original goes where one stands now.
ReplaceLines(lines, key, originals) ==
    [i \in DOMAIN lines |->
        IF lines[i].key # key THEN lines[i]
        ELSE originals[Len(Keeping(lines, Assigns(lines, key))[i])]]

\* More or fewer: all of them go, the originals stand where the first was.
MoveLines(lines, key, originals) ==
    LET first == Min(Assigns(lines, key))
        before == SubSeq(lines, 1, first - 1)
        rest == SubSeq(lines, first, Len(lines))
        after == Kept(rest, DOMAIN rest \ Assigns(rest, key))
        inserted == IF originals = <<>> \/ after = <<>> THEN originals
                    ELSE Append(Front(originals), Ended(Last(originals)))
    IN  before \o inserted \o after

\* Mutant of RestoreEnv: repeated assignments are always brought together.
RestoreEnvMoves(lines, key, originals) ==
    IF Assigns(lines, key) = {}
    THEN IF originals = <<>> THEN lines ELSE AppendLines(lines, originals)
    ELSE Joined(MoveLines(lines, key, originals))

\* restoreEnvField.
RestoreEnv(lines, key, originals) ==
    IF Assigns(lines, key) = {}
    THEN IF originals = <<>> THEN lines ELSE AppendLines(lines, originals)
    ELSE Joined(IF Len(OriginalLines(lines, key)) = Len(originals)
                THEN ReplaceLines(lines, key, originals)
                ELSE MoveLines(lines, key, originals))
=============================================================================
