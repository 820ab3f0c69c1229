---------------------------- MODULE Marketplace ----------------------------
(***************************************************************************)
(* The plugin marketplace (internal/marketplace and the plugin command of  *)
(* internal/app/commands.go): install, remove and list of one plugin by    *)
(* command-line processes, one at a time, which can be killed at any step, *)
(* while the registry publishes new versions.  A process keeps the entry   *)
(* it looked up in the index for the rest of its run.                      *)
(*                                                                         *)
(* The plugin's directory holds the binary and installed.yaml, the         *)
(* metadata that List reads; os.WriteFile truncates first, so a killed     *)
(* process or a full disk leaves a file cut off: -1.  0 is no file.        *)
(***************************************************************************)
EXTENDS Integers

CONSTANTS MaxRelease    \* bound: versions published

ASSUME MarketAssumption == MaxRelease \in Nat

VARIABLES
    release,    \* the version in the registry's index
    binary,     \* the plugin's binary
    meta,       \* installed.yaml
    dir,        \* the plugin's directory exists
    mpc,        \* where the install is
    entry,      \* the version it looked up
    got,        \* what it downloaded
    complete    \* versions whose binary was once written whole

marketVars == <<release, binary, meta, dir, mpc, entry, got, complete>>

Publish ==
    /\ release < MaxRelease
    /\ release' = release + 1
    /\ UNCHANGED <<binary, meta, dir, mpc, entry, got, complete>>

At(l) == mpc' = l
Quit == At("idle") /\ entry' = 0 /\ got' = 0

\* Registry.Get: the first call fetches the index, which can fail.
Get ==
    /\ mpc = "idle"
    /\ entry' = release
    /\ At("mkdir")
    /\ UNCHANGED <<release, binary, meta, dir, got, complete>>

MkdirAll ==
    /\ mpc = "mkdir"
    /\ dir' = TRUE
    /\ At("download")
    /\ UNCHANGED <<release, binary, meta, entry, got, complete>>

\* Variant: a body that ended early is taken as it is.
DownloadUnchecked ==
    /\ mpc = "download"
    /\ \/ At("write") /\ got' \in {entry, -1} /\ UNCHANGED entry
       \/ Quit
    /\ UNCHANGED <<release, binary, meta, dir, complete>>

\* The download and its checksum; what is damaged is refused.  (An entry without
\* a checksum has only the length of the body to go by.)
Download ==
    /\ mpc = "download"
    /\ \/ At("write") /\ got' = entry /\ UNCHANGED entry
       \/ Quit
    /\ UNCHANGED <<release, binary, meta, dir, complete>>

\* os.WriteFile of the binary: truncated, then written; it can fail half way.
WriteBinary ==
    /\ \/ /\ mpc = "write"
          /\ binary' = -1 /\ At("writing") /\ UNCHANGED <<entry, got, complete>>
       \/ /\ mpc = "writing"
          /\ binary' = got
          /\ complete' = complete \cup {got}
          /\ At("meta") /\ UNCHANGED <<entry, got>>
       \/ mpc = "writing" /\ Quit /\ UNCHANGED <<binary, complete>>
    /\ UNCHANGED <<release, meta, dir>>

\* os.WriteFile of the metadata, the last step of Install.
WriteMeta ==
    /\ \/ mpc = "meta" /\ meta' = -1 /\ At("meta_writing") /\ UNCHANGED <<entry, got>>
       \/ mpc = "meta_writing" /\ meta' = entry /\ Quit
    /\ UNCHANGED <<release, binary, dir, complete>>

KilledInstall ==
    /\ mpc # "idle"
    /\ Quit
    /\ UNCHANGED <<release, binary, meta, dir, complete>>

\* RemovePlugin: the directory with all that is in it.
RemovePlugin ==
    /\ mpc = "idle" /\ dir
    /\ dir' = FALSE /\ binary' = 0 /\ meta' = 0
    /\ UNCHANGED <<release, mpc, entry, got, complete>>

\* List skips a directory without metadata and metadata it cannot read.
Listed == IF meta > 0 THEN {meta} ELSE {}

MarketInit ==
    /\ release = 1 /\ binary = 0 /\ meta = 0 /\ dir = FALSE
    /\ mpc = "idle"
    /\ entry = 0 /\ got = 0 /\ complete = {}

MarketNext ==
    \/ Publish \/ RemovePlugin
    \/ Get \/ MkdirAll \/ Download \/ WriteBinary \/ WriteMeta \/ KilledInstall

MarketSpec == MarketInit /\ [][MarketNext]_marketVars

(***************************************************************************)
(* Properties.                                                             *)
(***************************************************************************)

\* A version List shows was once installed whole, and its binary is there:
\* metadata is written only behind a complete, verified binary of its version,
\* and goes with it.
ListedWasInstalled ==
    Listed # {} => Listed \subseteq complete /\ -1 \notin complete /\ binary # 0
============================================================================
