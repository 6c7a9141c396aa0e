------------------------------- MODULE Files -------------------------------
(***************************************************************************)
(* The virtual file tree and the path map of aura/fs, and the package      *)
(* registry and installer of aura/pkg.                                     *)
(***************************************************************************)
EXTENDS Integers, Sequences, FiniteSets, SequencesExt

CONSTANTS
  Part,       \* names of files and directories
  MaxDepth,   \* bound on the depth of the tree
  Target,     \* AURa paths that FHS paths are mapped to
  MaxMaps,    \* bound on the mappings
  Pkg,        \* names of packages
  Admin,      \* threads that install and upgrade
  MaxVersion  \* bound on the versions registered, numbered as registered

ASSUME FilesAssumption == {MaxDepth, MaxMaps, MaxVersion} \subseteq Nat

VARIABLES
  tree,       \* VirtualFileSystem._root: the kind of every node, by path
  bare,       \* the nodes that have no "_meta" any more
  mapping,    \* FHSMapper._mapping: the mappings in the order they were made
  registry,   \* PackageRegistry._packages: the version of each package, or 0
  installed,  \* PackageInstaller._installed: the same
  admin,      \* what each thread looked up and what for
  versions,   \* history: the versions registered
  newest,     \* history: the latest version installed since it was absent
  raced       \* history: packages whose registration changed under a call

treeVars == <<tree, bare>>
pkgVars  == <<registry, installed, admin, versions, newest, raced>>

-----------------------------------------------------------------------------
(* Files.  A path is the sequence of its parts; ".." is dropped from it. *)

Path == UNION {[1..d -> Part] : d \in 1..MaxDepth}
Above(path) == {SubSeq(path, 1, d) : d \in 0..Len(path) - 1}

VfsInit == tree = [q \in {<<>>} |-> "dir"] /\ bare = {}

\* Mutant of Passable: files are not told from directories.
PassableAny(path) == \A q \in Above(path) \cap DOMAIN tree : q \notin bare \/ q = <<>>

\* Directories on the way, except the root, are asked for their type, in
\* "_meta": without it the call raises, like on a file.
Passable(path) ==
  \A q \in Above(path) \cap DOMAIN tree : tree[q] = "dir" /\ (q \notin bare \/ q = <<>>)

\* The tree with a node made, and the directories on the way that were missing.
Grown(path, kind) ==
  [q \in DOMAIN tree \cup Above(path) \cup {path} |->
     IF q \in DOMAIN tree THEN tree[q] ELSE IF q = path THEN kind ELSE "dir"]

Mkdir(path) ==
  /\ Passable(path) /\ (path \in DOMAIN tree => tree[path] = "dir" /\ path \notin bare)
  /\ tree' = Grown(path, "dir") /\ UNCHANGED bare
WriteFile(path) ==
  /\ Passable(path) /\ (path \in DOMAIN tree => tree[path] = "file" /\ path \notin bare)
  /\ tree' = Grown(path, "file") /\ UNCHANGED bare

\* Mutant of Delete: what is below stays.
DeleteOnly(path) ==
  /\ path \in DOMAIN tree
  /\ tree' = [q \in DOMAIN tree \ {path} |-> tree[q]] /\ bare' = bare \ {path}

Delete(path) ==
  /\ path \in DOMAIN tree
  /\ LET gone == {q \in DOMAIN tree : IsPrefix(path, q)}
     IN  tree' = [q \in DOMAIN tree \ gone |-> tree[q]] /\ bare' = bare \ gone
\* Metadata is kept among the children: a path may name it, and so delete it.
DeleteMeta(path) == path \in DOMAIN tree \ bare /\ bare' = bare \cup {path} /\ UNCHANGED tree

VfsNext == \/ \E path \in Path : Mkdir(path) \/ WriteFile(path) \/ Delete(path)
           \/ \E path \in Path \cup {<<>>} : DeleteMeta(path)

-----------------------------------------------------------------------------
(* FHS paths: the longest prefix that is mapped. *)

FhsInit == mapping = <<>>

\* A mapping that is made again keeps its place in the table.
AddMapping(path, target) ==
  LET at == {i \in DOMAIN mapping : mapping[i].path = path}
  IN  /\ at = {} => Len(mapping) < MaxMaps
      /\ mapping' = IF at = {} THEN Append(mapping, [path |-> path, target |-> target])
                    ELSE [i \in DOMAIN mapping |->
                            IF i \in at THEN [path |-> path, target |-> target] ELSE mapping[i]]

\* Mutant of Longer: the last prefix wins.
LongerLast(best, m, path) == IF IsPrefix(m.path, path) THEN m.path ELSE best
Longer(best, m, path) ==
  IF IsPrefix(m.path, path) /\ Len(m.path) > Len(best) THEN m.path ELSE best

\* resolve(): the loop over the table; <<>> if nothing matches.
BestPrefix(path) == FoldLeft(LAMBDA best, m : Longer(best, m, path), <<>>, mapping)

FhsNext == \E path \in Path, target \in Target : AddMapping(path, target)

-----------------------------------------------------------------------------
(* Packages.  The registry and the installer have a lock each. *)

NoLook == [op |-> "none", pkg |-> CHOOSE n \in Pkg : TRUE, version |-> 0]
PkgInit == /\ registry = [n \in Pkg |-> 0] /\ installed = [n \in Pkg |-> 0] /\ versions = 0
           /\ admin = [a \in Admin |-> NoLook] /\ newest = [n \in Pkg |-> 0] /\ raced = {}

Raced(n) == IF \E a \in Admin : admin[a].op # "none" /\ admin[a].pkg = n THEN raced \cup {n} ELSE raced

RegisterPkg(n) ==
  /\ versions < MaxVersion /\ versions' = versions + 1
  /\ registry' = [registry EXCEPT ![n] = versions + 1] /\ raced' = Raced(n)
  /\ UNCHANGED <<installed, admin, newest>>
Unregister(n) ==
  /\ registry[n] > 0 /\ registry' = [registry EXCEPT ![n] = 0] /\ raced' = Raced(n)
  /\ UNCHANGED <<installed, admin, versions, newest>>

\* Mutant of LookUp: get() answers from a cache.
LookUpCached(a, n, op) ==
  /\ admin[a] = NoLook /\ registry[n] > 0
  /\ \E v \in 1..registry[n] : admin' = [admin EXCEPT ![a] = [op |-> op, pkg |-> n, version |-> v]]
  /\ UNCHANGED <<registry, installed, versions, newest, raced>>

\* install() and upgrade() look the package up, and then take their lock.
LookUp(a, n, op) ==
  /\ admin[a] = NoLook /\ registry[n] > 0
  /\ admin' = [admin EXCEPT ![a] = [op |-> op, pkg |-> n, version |-> registry[n]]]
  /\ UNCHANGED <<registry, installed, versions, newest, raced>>

\* install() refuses what is installed; upgrade() installs what is not.
Commit(a) ==
  LET now == admin[a] n == now.pkg
      to  == IF installed[n] > 0 /\ now.op = "install" THEN installed[n] ELSE now.version
  IN  /\ now.op # "none" /\ installed' = [installed EXCEPT ![n] = to]
      /\ newest' = [newest EXCEPT ![n] = IF to > @ THEN to ELSE @]
      /\ admin' = [admin EXCEPT ![a] = NoLook] /\ UNCHANGED <<registry, versions, raced>>
Uninstall(n) ==
  /\ installed[n] > 0 /\ installed' = [installed EXCEPT ![n] = 0]
  /\ newest' = [newest EXCEPT ![n] = 0] /\ UNCHANGED <<registry, admin, versions, raced>>

PkgNext ==
  \/ \E n \in Pkg : \/ RegisterPkg(n) \/ Unregister(n) \/ Uninstall(n)
                    \/ \E a \in Admin, op \in {"install", "upgrade"} : LookUp(a, n, op)
  \/ \E a \in Admin : Commit(a)

-----------------------------------------------------------------------------
(* Properties. *)

\* Whatever is created and deleted in whatever order, every node hangs on a
\* directory that exists (mkdir, write, delete).
TreeSound ==
  /\ \A q \in DOMAIN tree \ {<<>>} : Front(q) \in DOMAIN tree /\ tree[Front(q)] = "dir"
  /\ bare \subseteq DOMAIN tree

\* The loop over the table finds the longest mapped prefix, in whatever order
\* the mappings were made or made again (resolve, add_mapping).
LongestPrefixWins ==
  \A path \in Path :
    LET fit == {mapping[i].path : i \in {j \in DOMAIN mapping : IsPrefix(mapping[j].path, path)}}
    IN  /\ fit = {} => BestPrefix(path) = <<>>
        /\ fit # {} => BestPrefix(path) \in fit /\ \A q \in fit : Len(q) <= Len(BestPrefix(path))

\* A package is never replaced by an older version, unless its registration
\* changed between the lookup and the commit of a call (install, upgrade).
NeverOlder == \A n \in Pkg \ raced : installed[n] = newest[n] /\ installed[n] <= versions
=============================================================================
