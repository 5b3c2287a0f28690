------------------------------ MODULE Modules ------------------------------
(***************************************************************************)
(* The modules of one runtime: require looks a name up in the caches, then *)
(* among the native modules, the files and the directories, and runs the   *)
(* body of the file it finds, which may require others, its requirer too,  *)
(* or throw.                                                               *)
(*                                                                         *)
(* A path is a directory (the names from the directory of the process) and *)
(* a name with its extension; the name of a native module is a path        *)
(* without directory, or in the directory "node:".  A table maps paths to  *)
(* numbers of objects.                                                     *)
(***************************************************************************)
EXTENDS Naturals, Sequences, FiniteSets, Functions

CONSTANTS
    Files,           \* paths of the files there are at first
    Broken,          \* those that do not compile
    Mains,           \* directory -> path named in its package.json
    GlobalFolders,   \* sequence of directories
    Native,          \* names of the native modules
    Core,            \* names of the core modules
    Requests,        \* arguments of require: [path, name, prefixed]
    ScriptDir,       \* directory of the script
    MaxObjects       \* bound on the module objects created

VARIABLES
    modules,         \* RequireModule.modules
    nodeModules,     \* RequireModule.nodeModules
    objs,            \* the module objects: file, status and whether an entry was made while the body ran
    stack,           \* the bodies that run, with the cache entry that require makes when the body returns
    compiled,        \* Registry.compiled: the files compiled so far
    files            \* the files there are

moduleVars == <<modules, nodeModules, objs, stack, compiled, files>>

Path(dir, name) == [dir |-> dir, name |-> name]
Set(table, key, id) == [k \in DOMAIN table \cup {key} |-> IF k = key THEN id ELSE table[k]]

\* [nodejs/require/module.go NewRegistry..Enable]
ModulesInit ==
    /\ modules = <<>> /\ nodeModules = <<>>
    /\ objs = <<>> /\ stack = <<>>
    /\ compiled = {} /\ files = Files

---------------------------------------------------------------------------
(* Where a name is looked for, in this order.                              *)

\* [nodejs/require/resolve.go loadAsFile]
loadAsFile(p) == <<p, Path(p.dir, p.name \o ".js"), Path(p.dir, p.name \o ".json")>>
\* [nodejs/require/resolve.go loadIndex]
loadIndex(dir) == <<Path(dir, "index.js"), Path(dir, "index.json")>>
\* [nodejs/require/resolve.go loadAsDirectory] behind the file that package.json names only the directory of that name
loadAsDirectory(p) ==
    LET dir == Append(p.dir, p.name)
        main == Mains[dir]
    IN IF dir \in DOMAIN Mains THEN loadAsFile(main) \o loadIndex(Append(main.dir, main.name)) ELSE loadIndex(dir)
\* [nodejs/require/resolve.go loadAsFileOrDirectory]
loadAsFileOrDirectory(p) == loadAsFile(p) \o loadAsDirectory(p)

\* The directory and those above it
Above(dir) == [i \in 1..(Len(dir) + 1) |-> SubSeq(dir, 1, Len(dir) + 1 - i)]
Under(dir) == IF dir # <<>> /\ dir[Len(dir)] = "node_modules" THEN dir ELSE Append(dir, "node_modules")
\* [nodejs/require/resolve.go loadNodeModule..loadNodeModules]
loadNodeModules(name, start) ==
    LET up == Above(start)
        dirs == GlobalFolders \o [i \in DOMAIN up |-> Under(up[i])]
    IN [i \in DOMAIN dirs |-> loadAsFileOrDirectory(Path(dirs[i], name))]

\* The directory of the code that calls require, which need not be the body that runs: a file's functions are called by any other code once its body
\* has begun.  Called by no code, by native code or by eval's, require starts in the directory of the process.
\* [nodejs/require/resolve.go getCurrentModulePath]
CurrentModulePaths == {ScriptDir, <<>>} \cup {f.dir : f \in compiled}

\* The first of the paths that is cached, compiled or a file
Found(paths) ==
    LET there == {i \in DOMAIN paths : paths[i] \in DOMAIN modules \cup compiled \cup files}
    IN IF there = {} THEN <<>> ELSE <<paths[CHOOSE i \in there : \A j \in there : i <= j]>>

---------------------------------------------------------------------------
(* Loading.                                                                *)

\* resolve makes the entry of the name it was given.
Enter(table, key, id) ==
    /\ modules' = IF table = "modules" THEN Set(modules, key, id) ELSE modules
    /\ nodeModules' = IF table = "nodeModules" THEN Set(nodeModules, key, id) ELSE nodeModules

\* [nodejs/require/resolve.go createModuleObject]
NewObject(file, status) == Append(objs, [file |-> file, status |-> status, cyclic |-> FALSE])

\* A body that is still running may be required again; the entry is made before it is done.
\* [nodejs/require/resolve.go loadModule]
loadModule(path, table, key) ==
    IF path \in DOMAIN modules
    THEN LET id == modules[path] IN
         /\ Enter(table, key, id)
         /\ objs' = IF objs[id].status = "loading" THEN [objs EXCEPT ![id].cyclic = TRUE] ELSE objs
         /\ UNCHANGED <<stack, compiled>>
    ELSE IF path \in Broken THEN UNCHANGED <<modules, nodeModules, objs, stack, compiled>>
    ELSE /\ Len(objs) < MaxObjects
         /\ objs' = NewObject(path, "loading")
         /\ modules' = Set(modules, path, Len(objs) + 1)
         /\ stack' = Append(stack, [id |-> Len(objs) + 1, table |-> table, key |-> key])
         /\ compiled' = compiled \cup {path}
         /\ UNCHANGED nodeModules

\* Its entries are made before the loader runs, and stay when it panics.
\* [nodejs/require/resolve.go loadNative]
loadNative(req, key) ==
    /\ Len(objs) < MaxObjects
    /\ \E status \in {"loaded", "failed"} :
         LET id == Len(objs) + 1
             other == Path(IF req.prefixed THEN <<>> ELSE <<"node:">>, req.name)
         IN /\ objs' = NewObject(key, status)
            /\ modules' = IF req.name \in Native /\ ~req.prefixed THEN Set(modules, key, id) ELSE Set(Set(modules, key, id), other, id)
    /\ UNCHANGED <<nodeModules, stack, compiled>>

\* A name that is not found, and a cached one, change nothing.
Unchanged == UNCHANGED <<modules, nodeModules, objs, stack, compiled>>

\* [nodejs/require/resolve.go resolve]
Resolve(req, start) ==
    LET p == Path(start, req.name)
        key == Path(IF req.prefixed THEN <<"node:">> ELSE <<>>, req.name)
        load(paths, table) == IF Found(paths) = <<>> THEN Unchanged ELSE loadModule(Found(paths)[1], table, p)
        places == loadNodeModules(req.name, start)
        has == {i \in DOMAIN places : Found(places[i]) # <<>>}
    IN /\ IF req.path
          THEN IF p \in DOMAIN modules THEN Unchanged ELSE load(loadAsFileOrDirectory(p), "modules")
          ELSE IF key \in DOMAIN modules THEN Unchanged
          ELSE IF (req.name \in Native /\ ~req.prefixed) \/ req.name \in Core THEN loadNative(req, key)
          ELSE IF req.prefixed \/ p \in DOMAIN nodeModules \/ has = {} THEN Unchanged
          ELSE load(places[CHOOSE i \in has : \A j \in has : i <= j], "nodeModules")
       /\ UNCHANGED files
Require(req) == \E start \in CurrentModulePaths : Resolve(req, start)

\* [nodejs/require/resolve.go:235-272 loadModuleFile]
Finish ==
    /\ stack # <<>>
    /\ LET top == stack[Len(stack)] IN
       /\ objs' = [objs EXCEPT ![top.id].status = "loaded"]
       /\ Enter(top.table, top.key, top.id)
    /\ stack' = SubSeq(stack, 1, Len(stack) - 1)
    /\ UNCHANGED <<compiled, files>>

\* Mutant: the entry of a body that throws is kept
ThrowKeeps ==
    /\ stack # <<>>
    /\ LET top == stack[Len(stack)] IN objs' = [objs EXCEPT ![top.id].status = "failed"]
    /\ stack' = SubSeq(stack, 1, Len(stack) - 1)
    /\ UNCHANGED <<modules, nodeModules, compiled, files>>

\* The error goes to the body or script that called require, which catches it or throws too
\* [nodejs/require/module.go require]
Throw ==
    /\ stack # <<>>
    /\ LET top == stack[Len(stack)] IN
       /\ objs' = [objs EXCEPT ![top.id].status = "failed"]
       /\ modules' = [k \in DOMAIN modules \ {objs[top.id].file} |-> modules[k]]
    /\ stack' = SubSeq(stack, 1, Len(stack) - 1)
    /\ UNCHANGED <<nodeModules, compiled, files>>

\* A compiled file need not be there any more
\* [nodejs/require/module.go getSource..getCompiledSource]
FileGoes ==
    /\ \E f \in files : files' = files \ {f}
    /\ UNCHANGED <<modules, nodeModules, objs, stack, compiled>>

ModulesNext == (\E req \in Requests : Require(req)) \/ Finish \/ Throw \/ FileGoes

---------------------------------------------------------------------------

ModulesSpec == ModulesInit /\ [][ModulesNext]_moduleVars

---------------------------------------------------------------------------

\* A file has one module object at a time, whatever the names and the cycles it is required through; an object in the caches is loaded, or its body
\* is running, or it failed.  One that failed is not found under its path again, so that the next require runs the file again; only the entries
\* that were made in a cycle while it ran keep it.  (The entries of a native module stay when its loader panics; a file without extension in
\* node_modules that requires itself by its name has an entry of its own path in nodeModules, which is not removed.)
ModulesShared ==
    /\ \A i, j \in DOMAIN objs : objs[i].file = objs[j].file /\ objs[i].status # "failed" /\ objs[j].status # "failed" => i = j
    /\ \A i \in DOMAIN objs : objs[i].status = "loading" <=> \E n \in DOMAIN stack : stack[n].id = i
    /\ \A k \in DOMAIN modules :
          LET o == objs[modules[k]] IN o.status = "failed" => o.file.name \in Native \cup Core \/ (o.cyclic /\ o.file # k)
    /\ \A k \in DOMAIN nodeModules :
          LET o == objs[nodeModules[k]] IN o.status = "failed" => o.file.name \in Native \cup Core \/ o.cyclic

=============================================================================
