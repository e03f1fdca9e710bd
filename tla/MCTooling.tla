----------------------------- MODULE MCTooling ------------------------------
(* The test runner, the installer, node:path, the bundler, node:fs,         *)
(* bun:sqlite or the bindings, one of them at a time: they share no state.  *)
EXTENDS TestRunner, Installer, Paths, Bundler, Files, Sqlite, Bindings

MCCwd == <<"x", "w">>

(* outer_dir/inner_dir/inner_file, and another path outside of them.        *)
CONSTANTS outer_dir, inner_dir, inner_file
MCParentOf ==
    [p \in Path |-> IF p = inner_file THEN inner_dir ELSE IF p = inner_dir THEN outer_dir ELSE Top]

(* An insert by name, of NaN and of no value for the primary key, and one   *)
(* by position that fails because it has a value too many.                  *)
MCInsert ==
    {[params |-> <<"a", "b">>, args |-> <<[type |-> "object", props |-> "a" :> "nan"]>>,
      columns |-> <<"numeric", "rowid">>],
     [params |-> <<"b">>, columns |-> <<"none">>,
      args |-> <<[type |-> "string", props |-> <<>>], [type |-> "number", props |-> <<>>]>>]}

(* Names come in pairs, and a part knows only its own: all pairs are        *)
(* exchanged at once, or none.                                              *)
Exchange(S) == CHOOSE p \in Permutations(S) : \A x \in S : p[x] # x
Exchanged ==
    Exchange(Name) @@ Exchange(Package) @@ Exchange(Module \ {Entry})
      @@ Exchange(Database) @@ Exchange(Function)
Names == {[x \in DOMAIN Exchanged |-> IF kept THEN x ELSE Exchanged[x]] : kept \in BOOLEAN}

VARIABLE part

vars == <<testVars, installVars, asked, bundleVars, fileVars, databaseVars, bindingsVars, part>>

(* The files come in two parts: with descriptors on two levels, of which    *)
(* the lower is the file inner_dir, and without on three.                   *)
FilesParts == {"files", "descriptors"}
FilesStep ==
    /\ FilesNext
    /\ IF part = "files" THEN fdCalls' = 0
       ELSE tree'[inner_file] = Absent /\ \A o \in DOMAIN op' : op'[o].path # inner_file

(* A database of one thread and the other of the same or of another.        *)
Init ==
    /\ TestInit /\ InstallInit /\ PathsInit /\ BundleInit /\ FilesInit /\ DatabaseInit /\ BindingsInit
    /\ part \in {"test", "install", "path", "bundle", "database", "bindings"} \cup FilesParts
    /\ LET t == CHOOSE t \in Thread : TRUE IN
       IF part = "database" THEN \E d \in Database : home[d] = t ELSE home = [d \in Database |-> t]
    /\ \A p \in Path : Isfile(p) => Children(p) = {}
    /\ part = "descriptors" => tree[inner_dir] = 1
    /\ part \notin FilesParts => tree[inner_file] = 1

Next ==
    /\ UNCHANGED part
    /\ \/ /\ part = "test" /\ TestNext
          /\ UNCHANGED <<installVars, asked, bundleVars, fileVars, databaseVars, bindingsVars>>
       \/ /\ part = "install" /\ InstallNext
          /\ UNCHANGED <<testVars, asked, bundleVars, fileVars, databaseVars, bindingsVars>>
       \/ /\ part = "path" /\ PathsNext
          /\ UNCHANGED <<testVars, installVars, bundleVars, fileVars, databaseVars, bindingsVars>>
       \/ /\ part = "bundle" /\ BundleNext
          /\ UNCHANGED <<testVars, installVars, asked, fileVars, databaseVars, bindingsVars>>
       \/ /\ part \in FilesParts /\ FilesStep
          /\ UNCHANGED <<testVars, installVars, asked, bundleVars, databaseVars, bindingsVars>>
       \/ /\ part = "database" /\ DatabaseNext
          /\ UNCHANGED <<testVars, installVars, asked, bundleVars, fileVars, bindingsVars>>
       \/ /\ part = "bindings" /\ BindingsNext
          /\ UNCHANGED <<testVars, installVars, asked, bundleVars, fileVars, databaseVars>>

Spec == Init /\ [][Next]_vars
=============================================================================
