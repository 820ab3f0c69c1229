----------------------------- MODULE TailInput -----------------------------
(***************************************************************************)
(* The "tail" input (internal/collector/inputs/tail) as gatherOnce of      *)
(* internal/collector/scheduler.go drives it: Gather reads every           *)
(* configured file from its remembered offset, saves the offsets to cursor *)
(* files, and only then do the lines it put into the accumulator reach the *)
(* outputs.  A Gather that fails has its accumulator thrown away, with     *)
(* whatever the files before the failing one had put there.                *)
(*                                                                         *)
(* A file is the sequence of the writes made to it: "line" ends with a     *)
(* newline, "part" does not, "long" is a line longer than max_line_bytes.  *)
(* Offsets count writes.  tst says what became of every write.  A restart  *)
(* stands for a crash and for a reload of the configuration: both make a   *)
(* new TailInput that starts from the cursor files.                        *)
(***************************************************************************)
EXTENDS Integers, Sequences, FiniteSets, Functions

CONSTANTS
    Path,           \* the configured files, as a sequence
    TailCap,        \* bound: writes to each of them
    TailKind,       \* bound: the kinds of write to each of them
    cursorFilename, \* the cursor file of every path
    AccSize         \* capacity of the accumulator

Files == Range(Path)

ASSUME TailAssumption ==
    /\ Path \in Seq(Files)
    /\ AccSize \in Nat \ {0}
    /\ TailCap \in [Files -> Nat]
    /\ TailKind \in [Files -> SUBSET {"line", "part", "long"}]
    /\ Files \subseteq DOMAIN cursorFilename

VARIABLES
    fromBeg,    \* from_beginning
    persists,   \* cursor_persist_path is set
    tfile,      \* the contents of every file
    tgone,      \* the files that do not exist
    toff,       \* t.offsets, 0 where the map has no entry
    tcur,       \* the cursor files: an offset for a path, or none
    tst,        \* what became of every write: "unread", "held", "sent", "again",
                \* "resent", "skipped" or "lost"
    tpc,        \* the gather: the file it is at, saving, delivering
    tacc,       \* metrics in its accumulator
    tcut,       \* the files that were rotated or removed
    tfault      \* what has gone wrong so far: "loss", "restart", "rotated"
                \* (bound: one restart or rotation)

tailVars == <<fromBeg, persists, tfile, tgone, toff, tcur, tst, tpc, tacc,
              tcut, tfault>>
tailConf == <<fromBeg, persists>>

None == [path |-> "none", off |-> 0]
Cursors == {cursorFilename[p] : p \in Files}

FirstFault == tfault \cap {"restart", "rotated"} = {}

\* Between two gathers: the next one begins with the first file.
Idle == 1
Saving == Len(Path) + 1
Delivering == Len(Path) + 2

(***************************************************************************)
(* The processes that write the files.                                     *)
(***************************************************************************)
Append1(p) ==
    \E k \in TailKind[p] :
        /\ Len(tfile[p]) < TailCap[p]
        /\ tfile' = [tfile EXCEPT ![p] = Append(@, k)]
        /\ tst' = [tst EXCEPT ![p] = Append(@, "unread")]
        /\ tgone' = tgone \ {p}
        /\ UNCHANGED <<tailConf, toff, tcur, tpc, tacc, tcut, tfault>>

\* Rotation: the file is emptied in place, or moved away and not back yet.
Rotate(p) ==
    /\ FirstFault
    /\ tfile' = [tfile EXCEPT ![p] = <<>>]
    /\ tst' = [tst EXCEPT ![p] = <<>>]
    /\ tgone' \in {tgone \ {p}, tgone \cup {p}}
    /\ tcut' = tcut \cup {p}
    /\ tfault' = tfault \cup {"rotated"}
    /\ UNCHANGED <<tailConf, toff, tcur, tpc, tacc>>

(***************************************************************************)
(* Gather.                                                                 *)
(***************************************************************************)
Mark(held, again) ==
    [p \in Files |-> [i \in DOMAIN tst[p] |->
        CASE tst[p][i] = "held" -> held [] tst[p][i] = "again" -> again
          [] OTHER -> tst[p][i]]]

\* An error of Gather: gatherOnce drops the accumulator.
GatherFails ==
    /\ tst' = Mark("lost", "sent")
    /\ tpc' = Idle
    /\ tacc' = 0
    /\ tfault' = tfault \cup {"loss"}
    /\ UNCHANGED <<tailConf, tfile, tgone, toff, tcur, tcut>>

\* The writes of p not read yet, and the metric (the scanner's token) that
\* each of them belongs to: a token ends at a newline or at the end of file.
Unread(p) == {i \in DOMAIN tfile[p] : i > toff[p]}
TokenOf(p, i) == 1 + Cardinality({j \in Unread(p) : j < i /\ tfile[p][j] = "line"})
Tokens(p) == {TokenOf(p, i) : i \in Unread(p)}
HasLong(p) == \E i \in Unread(p) : tfile[p][i] = "long"

Move(p, off, st, n) ==
    /\ toff' = [toff EXCEPT ![p] = off]
    /\ tst' = [tst EXCEPT ![p] = st]
    /\ tacc' = n
    /\ tpc' = IF tpc < Len(Path) THEN tpc + 1
              ELSE IF persists THEN Saving ELSE Delivering
    /\ tfault' = IF "lost" \in Range(st) /\ "lost" \notin Range(tst[p])
                 THEN tfault \cup {"loss"} ELSE tfault
    /\ UNCHANGED <<tailConf, tfile, tgone, tcur, tcut>>

\* gatherFile when the offset is 0 and the file is not read from its
\* beginning: nothing is read, the offset moves to the end.
SeekEnd(p) ==
    Move(p, Len(tfile[p]),
         [i \in DOMAIN tst[p] |-> "skipped"], tacc)

\* Variant: the offset is taken one too far.
ScanPast(p) ==
    Move(p, Len(tfile[p]) + 1,
         [i \in DOMAIN tst[p] |-> IF i \in Unread(p) THEN "held" ELSE tst[p][i]],
         AccSize)

\* gatherFile otherwise.  An offset beyond the end of the file reads nothing
\* and stays where it is; a full accumulator drops the newest.
Scan(p) ==
    Move(p, IF toff[p] > Len(tfile[p]) THEN toff[p] ELSE Len(tfile[p]),
         [i \in DOMAIN tst[p] |->
             IF i \notin Unread(p) THEN tst[p][i]
             ELSE IF tacc + TokenOf(p, i) > AccSize THEN "lost"
             ELSE IF tst[p][i] \in {"sent", "resent"} THEN "again" ELSE "held"],
         IF tacc + Cardinality(Tokens(p)) <= AccSize
         THEN tacc + Cardinality(Tokens(p)) ELSE AccSize)

gatherFile(p) ==
    IF p \in tgone THEN GatherFails
    ELSE IF ~fromBeg /\ toff[p] = 0 THEN SeekEnd(p)
    ELSE IF HasLong(p) THEN GatherFails
    ELSE Scan(p)

GatherFile == tpc \in 1 .. Len(Path) /\ gatherFile(Path[tpc])

\* The cursors are saved one file each; an error is ignored and leaves the
\* old file.  Of the paths with the same cursor file name the last one stays:
\* S holds the paths whose cursor is in its file in the end.
Save(S) ==
    [n \in Cursors |->
        IF \E p \in S : cursorFilename[p] = n
        THEN LET p == CHOOSE p \in S : cursorFilename[p] = n IN [path |-> p, off |-> toff[p]]
        ELSE tcur[n]]

Persist ==
    /\ tpc = Saving
    /\ \E S \in SUBSET Files :
           /\ \A p, q \in S : cursorFilename[p] = cursorFilename[q] => p = q
           /\ tcur' = Save(S)
    /\ tpc' = Delivering
    /\ UNCHANGED <<tailConf, tfile, tgone, toff, tst, tacc, tcut, tfault>>

\* gatherOnce hands the accumulator to the processors and the outputs.
Deliver ==
    /\ tpc = Delivering
    /\ tst' = Mark("sent", "resent")
    /\ tpc' = Idle
    /\ tacc' = 0
    /\ UNCHANGED <<tailConf, tfile, tgone, toff, tcur, tcut, tfault>>

(***************************************************************************)
(* A new TailInput: Init loads what cursor files it can read.  A crash     *)
(* while a cursor file is written may leave it unreadable.                 *)
(***************************************************************************)
loadPersistedCursors(cur) ==
    [p \in Files |->
        IF persists /\ \E n \in Cursors : cur[n].path = p
        THEN cur[CHOOSE n \in Cursors : cur[n].path = p].off
        ELSE 0]

Restart ==
    /\ FirstFault
    /\ \E cur \in {tcur} \cup (IF tpc = Saving
                               THEN {[tcur EXCEPT ![n] = None] : n \in Cursors} ELSE {}) :
           /\ tcur' = cur
           /\ toff' = loadPersistedCursors(cur)
           /\ tst' = Mark("lost", "sent")
    /\ tpc' = Idle
    /\ tacc' = 0
    /\ tfault' = tfault \cup {"restart"}
    /\ UNCHANGED <<tailConf, tfile, tgone, tcut>>

TailInit ==
    /\ fromBeg \in BOOLEAN /\ persists \in BOOLEAN
    /\ tfile = [p \in Files |-> <<>>] /\ tst = tfile
    /\ tgone = {}
    /\ toff = [p \in Files |-> 0]
    /\ tcur = [n \in Cursors |-> None]
    /\ tpc = Idle /\ tacc = 0 /\ tcut = {} /\ tfault = {}

TailGather == GatherFile \/ Persist \/ Deliver

TailNext ==
    \/ \E p \in Files : Append1(p) \/ Rotate(p)
    \/ TailGather
    \/ Restart

TailSpec == TailInit /\ [][TailNext]_tailVars

(***************************************************************************)
(* Properties.                                                             *)
(***************************************************************************)

\* While nothing has gone wrong (no restart, no rotation, no failed gather,
\* no overflow of the accumulator) the offset tells exactly what was dealt
\* with: every write behind it is delivered, about to be, or was passed by
\* the seek to the end, and every write after it is still to be read.
OffsetMeansRead ==
    tfault = {} =>
        \A p \in Files : \A i \in DOMAIN tfile[p] :
            IF i <= toff[p] THEN tst[p][i] \in {"held", "sent", "skipped"}
            ELSE tst[p][i] = "unread"

\* No write is delivered a second time by an input that was not restarted.
AtMostOnce ==
    "restart" \notin tfault => \A p \in Files : "resent" \notin Range(tst[p])

\* A cursor file is never ahead of what was read: a restart may read a line
\* again, and it never passes over one that no gather had seen.
CursorNotAhead ==
    \A n \in Cursors :
        tcur[n] # None /\ tcur[n].path \notin tcut =>
            \A i \in DOMAIN tfile[tcur[n].path] :
                i <= tcur[n].off => tst[tcur[n].path][i] # "unread"

\* The positions tail keeps, in memory and on disk, tell what became of every
\* write: the offset separates what was dealt with from what is unread,
\* nothing is delivered twice, and no cursor file is ahead of the reading.
PositionsMeanRead == OffsetMeansRead /\ AtMostOnce /\ CursorNotAhead
============================================================================
