------------------------------ MODULE Updater ------------------------------
(***************************************************************************)
(* The self-update (internal/updater): Apply downloads a binary, checks    *)
(* it, writes it to a temporary file and swaps it in with two renames;     *)
(* Rollback puts the backup back.  The process can be killed between any   *)
(* two of these steps, and every rename can fail (the download directory   *)
(* may be on another file system).                                         *)
(*                                                                         *)
(* A binary is the number of its version; 0 is no file and -1 a download   *)
(* that was damaged on the way.                                            *)
(***************************************************************************)
EXTENDS Integers

CONSTANTS MaxVersion    \* bound: versions offered

ASSUME UpdaterAssumption == MaxVersion \in Nat

VARIABLES
    cur,        \* the file at currentPath
    bak,        \* the file at backupPath
    tmp,        \* the temporary file
    upc,        \* where Apply is
    data,       \* what it downloaded
    request,    \* the version it was asked for
    was,        \* the version that was current when the call began
    uresult     \* what it returned

updaterVars == <<cur, bak, tmp, upc, data, request, was, uresult>>

\* The platform offers a version newer than any before it.
Apply ==
    /\ upc = "idle" /\ request < MaxVersion
    /\ request' = request + 1
    /\ was' = cur /\ upc' = "verify" /\ uresult' = "none"
    /\ data' \in {request + 1, -1, 0}               \* 0: the download failed
    /\ UNCHANGED <<cur, bak, tmp>>

ApplyReturns(r) == upc' = "idle" /\ uresult' = r /\ data' = 0 /\ UNCHANGED <<request, was>>
Go(l) == upc' = l /\ UNCHANGED <<data, request, was, uresult>>

\* verifyChecksum and verifySignature
verify ==
    /\ upc = "verify"
    /\ IF data = request THEN Go("write") ELSE ApplyReturns("error")
    /\ UNCHANGED <<cur, bak, tmp>>

\* A failed write takes its file away again.
writeTemp ==
    /\ upc = "write"
    /\ \/ tmp' = data /\ Go("backup")
       \/ tmp' = 0 /\ ApplyReturns("error")
    /\ UNCHANGED <<cur, bak>>

\* The first rename of swap; it fails when there is no current binary.
swapBackup ==
    /\ upc = "backup"
    /\ \/ cur # 0 /\ bak' = cur /\ cur' = 0 /\ Go("install")
       \/ ApplyReturns("error") /\ UNCHANGED <<cur, bak>>
    /\ UNCHANGED tmp

\* The second rename.
swapInstall ==
    /\ upc = "install"
    /\ \/ cur' = tmp /\ tmp' = 0 /\ ApplyReturns("nil")
       \/ Go("restore") /\ UNCHANGED <<cur, tmp>>
    /\ UNCHANGED bak

\* Variant: no attempt to put the old binary back.
swapRestoreNot ==
    /\ upc = "restore"
    /\ ApplyReturns("error")
    /\ UNCHANGED <<cur, bak, tmp>>

\* The third, after a failed second; a failure of this one too is reported.
swapRestore ==
    /\ upc = "restore"
    /\ \/ cur' = bak /\ bak' = 0 /\ ApplyReturns("error")
       \/ ApplyReturns("error_twice") /\ UNCHANGED <<cur, bak>>
    /\ UNCHANGED tmp

Killed ==
    /\ upc # "idle"
    /\ ApplyReturns("killed")
    /\ UNCHANGED <<cur, bak, tmp>>

Rollback ==
    /\ upc = "idle" /\ bak # 0
    /\ cur' = bak /\ bak' = 0
    /\ uresult' = "none"
    /\ UNCHANGED <<tmp, upc, data, request, was>>

UpdaterInit ==
    /\ cur = 1 /\ bak = 0 /\ tmp = 0 /\ upc = "idle" /\ data = 0
    /\ request = 1 /\ was = 1 /\ uresult = "none"

UpdaterNext ==
    \/ Apply \/ verify \/ writeTemp \/ swapBackup \/ swapInstall \/ swapRestore
    \/ Killed \/ Rollback

UpdaterSpec == UpdaterInit /\ [][UpdaterNext]_updaterVars

(***************************************************************************)
(* Properties.                                                             *)
(***************************************************************************)

\* Whatever fails, and wherever the process is killed, a whole binary that was
\* once current stays at currentPath or at backupPath, and no damaged download
\* gets to either of them.
AlwaysABinary == (cur > 0 \/ bak > 0) /\ cur # -1 /\ bak # -1

\* What Apply returns says where the binaries are: nil, the requested one is
\* current and the one before it the backup; an error, the one before it is
\* current still, unless putting it back failed as well.
ApplyResultTrue ==
    upc = "idle" =>
        /\ uresult = "nil" => cur = request /\ bak = was
        /\ uresult = "error" => cur = was

\* No failure and no kill costs the agent its binary, and what Apply returns
\* says which binaries there are.
BinariesAsReported == AlwaysABinary /\ ApplyResultTrue
============================================================================
