-------------------------------- MODULE Home --------------------------------
(***************************************************************************)
(* The HOME userland of aura/home: packages, tracked processes and the     *)
(* file tree.  The lock covers the tables: stop() unmounts outside it, and *)
(* git runs outside it, while other threads go on using the layer, which   *)
(* never asks whether it is running.                                       *)
(***************************************************************************)
CONSTANTS
  Process,    \* ids of HOME processes
  Package,    \* names of packages
  Default,    \* those that start() installs
  Repo        \* those that can be cloned into opt/

ASSUME HomeAssumption == Default \cup Repo \subseteq Package

VARIABLES
  running,    \* HOMELayer._running
  entering,   \* whether start() is in progress
  todo,       \* the defaults that start() has not looked at yet
  absent,     \* the default it has found absent and is about to install, or none
  stopping,   \* whether stop() is between the processes and the file tree
  process,    \* _processes: the state of each process
  package,    \* _packages: what is installed
  opt,        \* the clones under opt/
  tmp,        \* "absent", "empty" or "used": tmp/
  git,        \* the packages git is at work on
  late,       \* history: processes spawned since stop() last marked them
  replaced,   \* history: packages that start() installed over something
  raced,      \* history: packages installed while start() held them for absent
  deleted     \* history: clones deleted through the file tree

startVars == <<entering, todo, absent>>
homeVars == <<running, startVars, stopping, process, package, opt, tmp, git, late, replaced, raced, deleted>>

HomeInit ==
  /\ running = FALSE /\ stopping = FALSE /\ process = [p \in Process |-> "none"]
  /\ package = [n \in Package |-> "none"] /\ tmp = "absent"
  /\ opt = {} /\ git = {} /\ late = {} /\ replaced = {} /\ deleted = {}
  /\ entering = FALSE /\ todo = {} /\ absent = {} /\ raced = {}

\* Mutant of Missing: the defaults are installed whatever is there.
MissingAny(n) == TRUE

\* Does _install_default_packages find no such package?
Missing(n) == package[n] = "none"

\* mount() makes the tree; unmount() empties tmp/, and an OSError half-way
\* leaves the rest of it, or none.
Mounted == IF tmp = "absent" THEN "empty" ELSE tmp
Flushed(t) == {t, "absent"} \cup (IF t = "used" THEN {"empty"} ELSE {})

\* start(), of one thread at a time: the file tree, then the defaults one by one,
\* each looked for without the lock and then installed, while others use the
\* layer.
HomeOn ==
  /\ ~running /\ ~stopping /\ ~entering /\ entering' = TRUE
  /\ tmp' = Mounted /\ todo' = Default
  /\ UNCHANGED <<running, absent, stopping, process, package, opt, git, late, replaced, raced, deleted>>
HomeLooks(n) ==
  /\ n \in todo /\ absent = {} /\ todo' = todo \ {n}
  /\ absent' = IF Missing(n) THEN {n} ELSE {}
  /\ UNCHANGED <<running, entering, stopping, process, package, opt, tmp, git, late, replaced, raced, deleted>>
HomeInstalls(n) ==
  /\ n \in absent /\ absent' = {} /\ package' = [package EXCEPT ![n] = "1.2.0"]
  /\ replaced' = IF package[n] # "none" THEN replaced \cup {n} ELSE replaced
  /\ UNCHANGED <<running, entering, todo, stopping, process, opt, tmp, git, late, raced, deleted>>
HomeReady ==
  /\ entering /\ todo = {} /\ absent = {} /\ entering' = FALSE /\ running' = TRUE
  /\ UNCHANGED <<todo, absent, stopping, process, package, opt, tmp, git, late, replaced, raced, deleted>>

\* Mutant of StopProcesses: one process is enough.
StopProcessesFirst ==
  /\ running /\ ~stopping /\ stopping' = TRUE
  /\ LET up == {p \in Process : process[p] = "running"}
     IN  process' = [p \in Process |->
           IF up # {} /\ p = CHOOSE q \in up : TRUE THEN "stopped" ELSE process[p]]
  /\ late' = {} /\ UNCHANGED <<running, package, opt, tmp, git, replaced, raced, deleted, startVars>>

StopProcesses ==
  /\ running /\ ~stopping /\ stopping' = TRUE
  /\ process' = [p \in Process |-> IF process[p] = "none" THEN "none" ELSE "stopped"]
  /\ late' = {} /\ UNCHANGED <<running, package, opt, tmp, git, replaced, raced, deleted, startVars>>

StopUnmount ==
  /\ stopping /\ stopping' = FALSE /\ running' = FALSE /\ tmp' \in Flushed(tmp)
  /\ UNCHANGED <<process, package, opt, git, late, replaced, raced, deleted, startVars>>

InstallPackage(n) ==
  /\ package' = [package EXCEPT ![n] = "1.0.0"] /\ raced' = raced \cup ({n} \cap absent)
  /\ UNCHANGED <<running, stopping, process, opt, tmp, git, late, replaced, deleted, startVars>>
RemovePackage(n) ==
  /\ package[n] # "none" /\ package' = [package EXCEPT ![n] = "none"]
  /\ UNCHANGED <<running, stopping, process, opt, tmp, git, late, replaced, raced, deleted, startVars>>

\* git_install(): git clones, or pulls what is there; without git it raises.
GitBegin(n) == /\ n \notin git /\ git' = git \cup {n}
               /\ UNCHANGED <<running, stopping, process, package, opt, tmp, late, replaced, raced, deleted, startVars>>

\* Mutant of GitFails: the return code is not looked at.
GitFailsUnseen(n) ==
  /\ n \in git /\ git' = git \ {n} /\ package' = [package EXCEPT ![n] = "git"]
  /\ UNCHANGED <<running, stopping, process, opt, tmp, late, replaced, raced, deleted, startVars>>
GitFails(n) == /\ n \in git /\ git' = git \ {n}
               /\ UNCHANGED <<running, stopping, process, package, opt, tmp, late, replaced, raced, deleted, startVars>>
GitDone(n)  == /\ n \in git /\ git' = git \ {n} /\ opt' = opt \cup {n}
               /\ package' = [package EXCEPT ![n] = "git"] /\ deleted' = deleted \ {n}
               /\ raced' = raced \cup ({n} \cap absent)
               /\ UNCHANGED <<running, stopping, process, tmp, late, replaced, startVars>>

Spawn(p) == /\ process[p] = "none" /\ process' = [process EXCEPT ![p] = "running"]
            /\ late' = late \cup {p}
            /\ UNCHANGED <<running, stopping, package, opt, tmp, git, replaced, raced, deleted, startVars>>
KillHome(p) == /\ process[p] # "none" /\ process' = [process EXCEPT ![p] = "stopped"]
               /\ UNCHANGED <<running, stopping, package, opt, tmp, git, late, replaced, raced, deleted, startVars>>

\* write() makes the directory; delete() answers False for what is not there.
WriteTmp == /\ tmp' = "used"
            /\ UNCHANGED <<running, stopping, process, package, opt, git, late, replaced, raced, deleted, startVars>>
DeleteTmp == /\ tmp # "absent" /\ tmp' = "absent"
             /\ UNCHANGED <<running, stopping, process, package, opt, git, late, replaced, raced, deleted, startVars>>
DeleteOpt(n) == /\ n \in opt /\ opt' = opt \ {n} /\ deleted' = deleted \cup {n}
                /\ UNCHANGED <<running, stopping, process, package, tmp, git, late, replaced, raced, startVars>>

HomeNext == \/ HomeOn \/ HomeReady \/ StopProcesses \/ StopUnmount \/ WriteTmp \/ DeleteTmp
            \/ \E n \in Default : HomeLooks(n) \/ HomeInstalls(n)
            \/ \E n \in Package : InstallPackage(n) \/ RemovePackage(n)
            \/ \E n \in Repo : GitBegin(n) \/ GitFails(n) \/ GitDone(n) \/ DeleteOpt(n)
            \/ \E p \in Process : Spawn(p) \/ KillHome(p)

-----------------------------------------------------------------------------
(* Properties. *)

HomeTypeOK ==
  /\ running \in BOOLEAN /\ stopping \in BOOLEAN /\ tmp \in {"absent", "empty", "used"}
  /\ entering \in BOOLEAN /\ todo \subseteq Default /\ absent \subseteq Default
  /\ process \in [Process -> {"none", "running", "stopped"}]
  /\ package \in [Package -> {"none", "1.0.0", "1.2.0", "git"}]

\* While HOME is offline no process of before is shown as running: only one
\* that was spawned after stop() had marked them (stop, spawn).
OfflineIsStopped ==
  ~running => \A p \in Process : process[p] = "running" => p \in late

\* What git installed is there until it is deleted as files, and a restart
\* replaces what a user installed under a default's name only if that happened
\* between its look and its install (git_install, _install_default_packages).
PackagesAreThere ==
  /\ \A n \in Package : package[n] = "git" => n \in opt \cup deleted
  /\ replaced \subseteq raced
=============================================================================
