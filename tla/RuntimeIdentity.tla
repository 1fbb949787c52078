---------------------------- MODULE RuntimeIdentity ----------------------------
(***************************************************************************)
(* The identity of the runtime: which CLI a server resolves, what it       *)
(* observes of it and of its own package, how two observations compare,    *)
(* and the guard that pins the first one for the life of the process       *)
(* (runtime_identity.py, _resolve_cli).                                    *)
(*                                                                         *)
(* The outside world is a record: at, the binary at each path (or None),   *)
(* and the installed package.  A binary is a file with an identity of its  *)
(* own (device, inode, size, times) and a version.  What cannot differ     *)
(* within a process (its pid and start, the schema revision, the name of   *)
(* the package) is left out.  No variables.                                *)
(***************************************************************************)
EXTENDS Naturals, Sequences, SequencesExt

CONSTANTS
  Paths,         \* where the CLI is looked for, in order
  NoFile         \* nothing is there; nothing was observed

ASSUME PathsAssumption == NoFile \notin ToSet(Paths)

-----------------------------------------------------------------------------
(* An operator whose name ends in Broken is a plausible bug in the one that *)
(* follows it; nothing uses it.                                             *)

(* _resolve_cli: the configured path, the local installation, PATH.         *)
Resolve(world) ==
  LET there(i) == world.at[Paths[i]] # NoFile
      first == {i \in DOMAIN Paths : there(i) /\ \A j \in 1 .. i - 1 : ~there(j)}
  IN IF first = {} THEN NoFile ELSE Paths[CHOOSE i \in first : TRUE]

(* capture_runtime_identity of a path and a version probed before.  A file  *)
(* whose status cannot be read is known by its path alone.                  *)
Identity(state, path, binary, version, package) ==
  [state |-> state, path |-> path, binary |-> binary, version |-> version,
   package |-> package]

Capture(world, path, version, readable) ==
  IF world.at[path] = NoFile THEN Identity("missing", NoFile, NoFile, NoFile, world.package)
  ELSE IF ~readable THEN Identity("unreadable", path, NoFile, NoFile, world.package)
  ELSE Identity("ready", path, world.at[path].file, version, world.package)

DriftBroken(baseline, observed) ==   \* by name and version alone
  (IF baseline.package # observed.package THEN {"package_version_drift"} ELSE {})
  \cup IF baseline.state # observed.state THEN {"cli_availability_drift"}
       ELSE IF baseline.path # observed.path THEN {"cli_path_drift"}
       ELSE IF baseline.version # observed.version THEN {"cli_version_drift"} ELSE {}

(* compare_runtime_identities.  Paths are compared when both are known.     *)
Drift(baseline, observed) ==
  LET differ(field, reason) == IF baseline[field] # observed[field] THEN {reason} ELSE {}
  IN differ("package", "package_version_drift")
     \cup IF baseline.state # observed.state THEN {"cli_availability_drift"}
          ELSE IF baseline.state # "ready" THEN {}
          ELSE IF baseline.path # observed.path THEN {"cli_path_drift"}
          ELSE differ("binary", "cli_binary_drift") \cup differ("version", "cli_version_drift")

(* RuntimeSnapshotGuard.observe: the first observation wins.                *)
Pinned(baseline, observed) == IF baseline = NoFile THEN observed ELSE baseline
=============================================================================
