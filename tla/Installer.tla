---- MODULE Installer ----
(***************************************************************************)
(* The package installer (crates/bun-install/src/lib.rs): a worklist of    *)
(* dependencies, taken from its end; each name is installed once per run,  *)
(* with the range popped first, into a flat node_modules.  A package whose *)
(* package.json is on disk is not unpacked again, but its own dependencies *)
(* are still walked.  Runs may fail or be killed at every step and are     *)
(* simply started again: what they left on disk is all that survives.      *)
(***************************************************************************)
EXTENDS Naturals, Sequences, FiniteSets, SequencesExt, Subsequences

CONSTANTS Package, Version,
          latest,       \* the dist-tag every registry has
          Torn,         \* a package.json that does not parse, cut off or written so
          None,
          MaxListed,    \* dependencies of one package, in one of its lists
          MaxRuns

\* A range: an optional operator (^, ~, >=, v) before a version or a tag.
PkgRange == [op : BOOLEAN, spec : Version \cup {latest}]
Dependency == Package \X PkgRange
DepLists == SeqOf(Dependency, MaxListed)

ASSUME InstallBounds == MaxListed \in Nat /\ MaxRuns \in Nat
\* What stands for a package.json that is not there, or does not parse.
ASSUME NotLists == None \notin DepLists /\ Torn \notin DepLists /\ Torn # None

\* The registry's answer for a name: the published versions and the tag.
Manifest == [versions : SUBSET Version, latest : Version \cup {None}]

VARIABLES
    pc,         \* "idle", "walk", "unpack", "nested", "done"
    runs,       \* runs so far (bound)
    root,       \* the project's package.json: dependencies and devDependencies
    production, \* the flag of this run
    deps,       \* the worklist
    current,    \* the dependency being installed and the version picked for it
    installed,  \* name -> version, of this run
    disk,       \* node_modules: name -> its package.json, and is it all there
    lock        \* bun-rs.lock.json

installVars == <<pc, runs, root, production, deps, current, installed, disk, lock>>

\* package.json is missing, does not parse, or is a list of dependencies;
\* `whole` says that every other file is there.
Missing == [manifest |-> None, whole |-> FALSE]
HasManifest(name) == disk[name].manifest # None
Populated(name) == HasManifest(name) \/ disk[name].whole

----------------------------------------------------------------------------

\* pick_version: an exact version, else a tag, else the version behind the
\* operator, else whatever latest names.
pick_version(m, r) ==
    IF ~r.op /\ r.spec \in m.versions THEN r.spec
    ELSE IF ~r.op /\ r.spec = latest /\ m.latest # None THEN m.latest
    ELSE IF r.spec \in m.versions THEN r.spec
    ELSE m.latest

collect_top_deps(pkg, prod) ==
    IF prod THEN pkg.dependencies ELSE pkg.dependencies \o pkg.devDependencies

\* A run reads the project's package.json, which may have changed.
Start ==
    /\ pc \in {"idle", "done"} /\ runs < MaxRuns
    /\ runs' = runs + 1
    /\ root' \in [dependencies : DepLists, devDependencies : DepLists]
    /\ production' \in BOOLEAN
    /\ deps' = collect_top_deps(root', production')
    /\ pc' = "walk"
    /\ installed' = [p \in {} |-> None]
    /\ UNCHANGED <<current, disk, lock>>

\* A name that this run has installed is dropped, whatever its range.
PopInstalled ==
    /\ pc = "walk" /\ deps # <<>> /\ Last(deps)[1] \in DOMAIN installed
    /\ deps' = Front(deps)
    /\ UNCHANGED <<pc, runs, root, production, current, installed, disk, lock>>

\* install_one: ask the registry, pick a version, and unpack the tarball
\* unless package.json exists.
install_one ==
    /\ pc = "walk" /\ deps # <<>> /\ Last(deps)[1] \notin DOMAIN installed
    /\ deps' = Front(deps)
    /\ \E m \in Manifest :
          LET name == Last(deps)[1]
              version == pick_version(m, Last(deps)[2])
          IN  /\ version \in m.versions
              /\ current' = [name |-> name, version |-> version]
              /\ pc' = IF HasManifest(name) THEN "nested" ELSE "unpack"
    /\ UNCHANGED <<runs, root, production, installed, disk, lock>>

\* extract_tarball writes entry after entry, package.json before, between or
\* after the others and in pieces.  It ends with the archive, whether or not
\* the archive had a package.json under package/, or one that parses.
Unpack ==
    /\ pc = "unpack"
    /\ LET d == disk[current.name] IN
       \/ d.manifest = None /\ disk' = [disk EXCEPT ![current.name].manifest = Torn] /\ pc' = pc
       \/ /\ d.manifest = Torn /\ pc' = pc
          /\ \E ds \in DepLists : disk' = [disk EXCEPT ![current.name].manifest = ds]
       \/ ~d.whole /\ disk' = [disk EXCEPT ![current.name].whole = TRUE] /\ pc' = pc
       \/ d.whole /\ pc' = "nested" /\ UNCHANGED disk
    /\ UNCHANGED <<runs, root, production, deps, current, installed, lock>>

\* The dependencies that the package.json on disk lists, as it can be read.
OnDisk(name) == IF disk[name].manifest \in {None, Torn} THEN <<>> ELSE disk[name].manifest

\* Those of them that this run has not installed.
NotInstalled(name) == {i \in DOMAIN OnDisk(name) : OnDisk(name)[i][1] \notin DOMAIN installed}

\* Nested, but the walk stops at a package that was on disk already.
NestedOfNew(name) == IF disk[name].whole THEN <<>> ELSE Picked(OnDisk(name), NotInstalled(name))

\* Back in the loop: push the package's own dependencies (never its dev ones)
\* that are not installed yet, and note the package.
Nested(name) == Picked(OnDisk(name), NotInstalled(name))

WalkOn ==
    /\ pc = "nested"
    /\ deps' = deps \o Nested(current.name)
    /\ installed' = [p \in DOMAIN installed \cup {current.name} |->
                       IF p = current.name THEN current.version ELSE installed[p]]
    /\ pc' = "walk"
    /\ UNCHANGED <<runs, root, production, current, disk, lock>>

\* The lockfile is written once, at the end.
WriteLock ==
    /\ pc = "walk" /\ deps = <<>>
    /\ lock' = installed
    /\ pc' = "done"
    /\ UNCHANGED <<runs, root, production, deps, current, installed, disk>>

\* An HTTP or registry error, a name without a matching version, a full disk
\* or a kill: the run ends and leaves the disk as it is.
Dies ==
    /\ pc \in {"walk", "unpack", "nested"}
    /\ pc' = "idle"
    /\ deps' = <<>> /\ installed' = [p \in {} |-> None]
    /\ UNCHANGED <<runs, root, production, current, disk, lock>>

InstallInit ==
    /\ pc = "idle" /\ runs = 0 /\ production = FALSE
    /\ root = [dependencies |-> <<>>, devDependencies |-> <<>>]
    /\ deps = <<>> /\ current = [name |-> None, version |-> None]
    /\ installed = [p \in {} |-> None] /\ lock = [p \in {} |-> None]
    /\ disk = [p \in Package |-> Missing]

InstallNext ==
    Start \/ PopInstalled \/ install_one \/ Unpack \/ WalkOn \/ WriteLock \/ Dies

InstallSpec == InstallInit /\ [][InstallNext]_installVars

----------------------------------------------------------------------------

\* A run that succeeds leaves a closed tree, also when earlier runs died half
\* way: every dependency the project asks for is in the lockfile, and so is
\* every dependency that the package.json of a locked package lists, if there
\* is one and it can be read.  A locked package has a package.json, or its
\* archive was unpacked to the end and had none at the place it is looked for:
\* its dependencies are then unknown and neither installed nor locked.
InstalledClosed ==
    pc = "done" =>
        LET locked == DOMAIN lock
            names(ds) == {ds[i][1] : i \in DOMAIN ds}
        IN  /\ names(collect_top_deps(root, production)) \subseteq locked
            /\ \A p \in locked : Populated(p) /\ names(OnDisk(p)) \subseteq locked
====
