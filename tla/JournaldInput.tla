--------------------------- MODULE JournaldInput ---------------------------
(***************************************************************************)
(* The "journald" input (internal/collector/inputs/journald) as gatherOnce *)
(* drives it.  Every Gather opens the journal anew, seeks to the saved     *)
(* cursor or, without one, to the tail, reads a bounded number of entries, *)
(* saves the cursor of the last and returns; then the entries reach the    *)
(* outputs.  Any error on the way returns before the cursor is saved, and  *)
(* gatherOnce drops what was read.                                         *)
(*                                                                         *)
(* An entry is "ok", "bad" (GetEntry fails on it) or "other" (the filters  *)
(* do not select it).  Which entry Next returns first after SeekCursor,    *)
(* the cursor's own or the one after it, is the journal's choice; the code *)
(* does not look.                                                          *)
(***************************************************************************)
EXTENDS Integers, Sequences, FiniteSets

CONSTANTS
    MaxEntries,         \* bound: entries written to the journal
    GatherLimit,        \* entries per gather (1000)
    maxGetEntryErrors   \* consecutive errors tolerated (10)

ASSUME JournalAssumption ==
    /\ MaxEntries \in Nat
    /\ GatherLimit \in Nat \ {0, 1} /\ maxGetEntryErrors \in Nat \ {0}

VARIABLES
    jpersists,  \* cursor_persist_path is set
    jlog,       \* the journal
    jst,        \* what became of every entry
    jcur,       \* the saved cursor, 0 when there is none
    jpc,        \* where the gather is
    jpos,       \* the entry its journal handle is at
    jlast,      \* lastCursor
    jcount,     \* entries it has added
    jerrs,      \* consecutiveErrors
    jfault      \* a gather was cut short, or the process restarted

jlocals == <<jpos, jlast, jcount, jerrs>>
journalVars == <<jpersists, jlog, jst, jcur, jpc, jlocals, jfault>>

\* The journal grows.  The filters are a disjunction: an entry passes when
\* its unit is listed or its priority is high enough.
Selected(inUnits, inPriority) == inUnits \/ inPriority

Write ==
    /\ Len(jlog) < MaxEntries
    /\ \E u, p, readable \in BOOLEAN :
           jlog' = Append(jlog, IF ~Selected(u, p) THEN "other"
                                ELSE IF readable THEN "ok" ELSE "bad")
    /\ jst' = Append(jst, "unread")
    /\ UNCHANGED <<jpersists, jcur, jpc, jlocals, jfault>>

JMark(to) == [i \in DOMAIN jst |-> IF jst[i] = "held" THEN to ELSE jst[i]]

JOver ==
    jpc' = "idle" /\ jpos' = 0 /\ jlast' = 0 /\ jcount' = 0 /\ jerrs' = 0

\* The seek.  A cursor that the journal no longer knows falls back to the tail.
Seek ==
    /\ jpc = "idle"
    /\ jpos' \in IF jcur = 0 THEN {Len(jlog)} ELSE {jcur - 1, jcur}
    /\ jpc' = "read"
    /\ UNCHANGED <<jpersists, jlog, jst, jcur, jlast, jcount, jerrs, jfault>>

SeekStale ==
    /\ jpc = "idle" /\ jcur # 0 /\ ~jfault
    /\ jpos' = Len(jlog)
    /\ jpc' = "read"
    /\ jst' = [i \in DOMAIN jst |-> IF jst[i] = "unread" THEN "passed" ELSE jst[i]]
    /\ jfault' = TRUE
    /\ UNCHANGED <<jpersists, jlog, jcur, jlast, jcount, jerrs>>

\* Next: the first selected entry after the position.
Following == {i \in DOMAIN jlog : i > jpos /\ jlog[i] # "other"}
NextEntry == CHOOSE i \in Following : \A k \in Following : i <= k

ReadEntry ==
    /\ jpc = "read" /\ jcount < GatherLimit /\ Following # {}
    /\ LET i == NextEntry IN
       IF jlog[i] = "bad"
       THEN IF jerrs + 1 >= maxGetEntryErrors
            THEN JOver /\ jst' = JMark("unread") /\ UNCHANGED jfault
            ELSE /\ jpos' = i /\ jlast' = i /\ jerrs' = jerrs + 1
                 /\ jst' = [jst EXCEPT ![i] = "failed"]
                 /\ UNCHANGED <<jpc, jcount, jfault>>
       ELSE /\ jpos' = i /\ jlast' = i /\ jerrs' = 0 /\ jcount' = jcount + 1
            /\ jst' = [jst EXCEPT ![i] = IF @ \in {"unread", "failed"} THEN "held" ELSE @]
            /\ UNCHANGED <<jpc, jfault>>
    /\ UNCHANGED <<jpersists, jlog, jcur>>

\* Variant: the cursor taken is that of the newest entry of the journal.
ReadEndsNewest ==
    /\ jpc = "read" /\ (jcount = GatherLimit \/ Following = {})
    /\ jpc' = "save"
    /\ jlast' = IF jlast = 0 THEN 0 ELSE Len(jlog)
    /\ UNCHANGED <<jpersists, jlog, jst, jcur, jpos, jcount, jerrs, jfault>>

ReadEnds ==
    /\ jpc = "read" /\ (jcount = GatherLimit \/ Following = {})
    /\ jpc' = "save"
    /\ UNCHANGED <<jpersists, jlog, jst, jcur, jlocals, jfault>>

\* The context ends, or the journal reports an error: nothing is saved.
ReadAborts ==
    /\ jpc = "read" /\ ~jfault
    /\ JOver
    /\ jst' = JMark("unread")
    /\ jfault' = TRUE
    /\ UNCHANGED <<jpersists, jlog, jcur>>

saveCursor ==
    /\ jpc = "save"
    /\ jcur' = IF jpersists /\ jlast # 0 THEN jlast ELSE jcur
    /\ jpc' = "deliver"
    /\ UNCHANGED <<jpersists, jlog, jst, jlocals, jfault>>

\* The cursor file cannot be written: Gather fails after all its reading.
saveCursorFails ==
    /\ jpc = "save" /\ jpersists /\ jlast # 0 /\ ~jfault
    /\ JOver
    /\ jst' = JMark("unread")
    /\ jfault' = TRUE
    /\ UNCHANGED <<jpersists, jlog, jcur>>

JDeliver ==
    /\ jpc = "deliver"
    /\ JOver
    /\ jst' = JMark("sent")
    /\ UNCHANGED <<jpersists, jlog, jcur, jfault>>

JRestart ==
    /\ ~jfault
    /\ JOver
    /\ jst' = JMark(IF jpc = "deliver" THEN "lost" ELSE "unread")
    /\ jfault' = TRUE
    /\ UNCHANGED <<jpersists, jlog, jcur>>

JournalInit ==
    /\ jpersists \in BOOLEAN
    /\ jlog = <<>> /\ jst = <<>> /\ jcur = 0 /\ jpc = "idle"
    /\ jpos = 0 /\ jlast = 0 /\ jcount = 0 /\ jerrs = 0
    /\ jfault = FALSE

JournalGather == Seek \/ ReadEntry \/ ReadEnds \/ saveCursor \/ JDeliver

JournalNext ==
    \/ Write \/ JournalGather
    \/ SeekStale \/ ReadAborts \/ saveCursorFails \/ JRestart

JournalSpec == JournalInit /\ [][JournalNext]_journalVars

(***************************************************************************)
(* Properties.                                                             *)
(***************************************************************************)

\* Between the first entry ever delivered and the saved cursor no readable
\* entry is passed over, except those the process went down with after it
\* had saved the cursor, and those a stale cursor jumped.
JournalNoGap ==
    \A i, k \in DOMAIN jlog :
        i < k /\ k <= jcur /\ jst[i] = "sent" /\ jlog[k] = "ok"
            => jst[k] \in {"sent", "held", "lost", "passed"}
============================================================================
