--------------------------- MODULE ModulesProofs ---------------------------
(***************************************************************************)
(* That require hands out one module object per file, for every set of     *)
(* files, requests and names of native modules: nothing is assumed of the  *)
(* constants.                                                              *)
(*                                                                         *)
(* The argument: an object that did not fail is in the cache under its     *)
(* own path, and a file gets an object only when its path is not there.    *)
(* What makes the entries right when a body throws is that an entry under  *)
(* another name can only have been made by a require in a cycle (Kept),    *)
(* and that a path that names a compiled file finds just that file.        *)
(***************************************************************************)
EXTENDS Modules, TLAPS

(* What Append, SubSeq and EXCEPT do with a sequence whose elements have   *)
(* no common type: of the records of code of the user in a stack or a list *)
(* the model says only that they form a sequence.                          *)
IsSeq(s) == s \in Seq({s[i] : i \in DOMAIN s})

(* A sequence is one of its elements.                                      *)
LEMMA IsSequence ==
  ASSUME NEW q, NEW S, q \in Seq(S)
  PROVE  IsSeq(q)
<1> DEFINE T == {q[i] : i \in DOMAIN q}
<1>1. Len(q) \in Nat /\ DOMAIN q = 1..Len(q) /\ q \in [1..Len(q) -> S] OBVIOUS
<1>2. q \in [1..Len(q) -> T] BY <1>1
<1> HIDE DEF T
<1>3. q \in Seq(T) BY <1>1, <1>2
<1> QED BY <1>3 DEF T, IsSeq

(* One element is appended.                                                *)
LEMMA AppendIs ==
  ASSUME NEW s, NEW e, IsSeq(s)
  PROVE  /\ IsSeq(Append(s, e))
         /\ Len(s) \in Nat /\ DOMAIN s = 1..Len(s)
         /\ DOMAIN Append(s, e) = 1..(Len(s) + 1)
         /\ Append(s, e)[Len(s) + 1] = e
         /\ \A i \in DOMAIN s : Append(s, e)[i] = s[i]
<1> DEFINE S == {s[i] : i \in DOMAIN s} \cup {e}
<1>1. s \in Seq(S) BY DEF IsSeq
<1>2. /\ Len(s) \in Nat /\ DOMAIN s = 1..Len(s)
      /\ Append(s, e) \in Seq(S) /\ Len(Append(s, e)) = Len(s) + 1
      /\ Append(s, e)[Len(s) + 1] = e
      /\ \A i \in DOMAIN s : Append(s, e)[i] = s[i]
  <2> HIDE DEF S
  <2> e \in S BY DEF S
  <2> QED BY <1>1
<1>3. DOMAIN Append(s, e) = 1..(Len(s) + 1) BY <1>2
<1>4. IsSeq(Append(s, e))
  <2> HIDE DEF S
  <2> QED BY <1>2, IsSequence
<1> QED BY <1>2, <1>3, <1>4

(* The last element is taken off.                                          *)
LEMMA PopIs ==
  ASSUME NEW s, IsSeq(s), s # <<>>
  PROVE  /\ Len(s) \in Nat \ {0} /\ DOMAIN s = 1..Len(s)
         /\ IsSeq(SubSeq(s, 1, Len(s) - 1))
         /\ DOMAIN SubSeq(s, 1, Len(s) - 1) = 1..(Len(s) - 1)
         /\ \A i \in 1..(Len(s) - 1) : SubSeq(s, 1, Len(s) - 1)[i] = s[i]
<1> DEFINE S == {s[i] : i \in DOMAIN s}
           q == SubSeq(s, 1, Len(s) - 1)
<1>1. s \in Seq(S) BY DEF IsSeq
<1>2. Len(s) \in Nat \ {0} /\ DOMAIN s = 1..Len(s)
  <2> HIDE DEF S
  <2> QED BY <1>1
<1>3. /\ q \in Seq(S) /\ Len(q) = Len(s) - 1
      /\ DOMAIN q = 1..(Len(s) - 1)
      /\ \A i \in 1..(Len(s) - 1) : q[i] = s[i]
  <2> HIDE DEF S
  <2> QED BY <1>1, <1>2
<1>4. IsSeq(q)
  <2> HIDE DEF S, q
  <2> QED BY <1>3, IsSequence
<1> QED BY <1>2, <1>3, <1>4

(* Elements change, none comes or goes.                                    *)
LEMMA SameShape ==
  ASSUME NEW s, NEW t, IsSeq(s), DOMAIN t = DOMAIN s, t = [i \in DOMAIN t |-> t[i]]
  PROVE  IsSeq(t)
<1> DEFINE S == {s[i] : i \in DOMAIN s}
           T == {t[i] : i \in DOMAIN t}
<1>1. s \in Seq(S) BY DEF IsSeq
<1>2. Len(s) \in Nat /\ DOMAIN s = 1..Len(s)
  <2> HIDE DEF S
  <2> QED BY <1>1
<1>3. t \in [1..Len(s) -> T] BY <1>2
<1> HIDE DEF T, S
<1>4. t \in Seq(T) BY <1>2, <1>3
<1> QED BY <1>4 DEF T, IsSeq

-----------------------------------------------------------------------------
Status == {"loading", "loaded", "failed"}
IsTable(t) == t \in [DOMAIN t -> DOMAIN objs]

Shapes ==
  /\ IsSeq(objs) /\ IsSeq(stack)
  /\ \A i \in DOMAIN objs : objs[i] \in [file : {objs[i].file}, status : Status, cyclic : BOOLEAN]
  /\ IsTable(modules) /\ IsTable(nodeModules)

(* The bodies that run are those of the objects that are loading, each once. *)
Running ==
  /\ \A n \in DOMAIN stack : stack[n].id \in DOMAIN objs
  /\ \A m, n \in DOMAIN stack : stack[m].id = stack[n].id => m = n
  /\ \A i \in DOMAIN objs : objs[i].status = "loading" <=> \E n \in DOMAIN stack : stack[n].id = i

(* A file that is in use is in the cache, and has one object.              *)
Cached ==
  /\ \A i \in DOMAIN objs : objs[i].status # "failed" => objs[i].file \in DOMAIN modules
  /\ \A i, j \in DOMAIN objs :
       objs[i].file = objs[j].file /\ objs[i].status # "failed" /\ objs[j].status # "failed" => i = j

IsNative(o) == o.file.name \in Native \cup Core
Compiled == \A i \in DOMAIN objs : objs[i].file \in compiled \/ IsNative(objs[i])

(* What an entry of an object may be, while its body runs and later.       *)
MayBe(o, k) ==
  \/ o.status = "loaded"
  \/ IsNative(o)
  \/ o.status = "loading" /\ (o.cyclic \/ k = o.file)
  \/ o.status = "failed" /\ o.cyclic /\ k # o.file
MayBeNamed(o) == o.status = "loaded" \/ IsNative(o) \/ o.cyclic
Kept ==
  /\ \A k \in DOMAIN modules : MayBe(objs[modules[k]], k)
  /\ \A k \in DOMAIN nodeModules : MayBeNamed(objs[nodeModules[k]])

MInv == Shapes /\ Running /\ Cached /\ Compiled /\ Kept
-----------------------------------------------------------------------------
(* Tables and paths.                                                       *)

(* An entry is added to a table or replaced.                               *)
LEMMA SetIs ==
  ASSUME NEW table, NEW key, NEW S, NEW id \in S, table \in [DOMAIN table -> S]
  PROVE  Set(table, key, id) \in [DOMAIN Set(table, key, id) -> S]
BY DEF Set

(* The first place is taken when something is there: a path that names a   *)
(* compiled file is not looked for under other names.                      *)
LEMMA FoundFirst ==
  ASSUME NEW paths, NEW S, paths \in Seq(S), paths # <<>>, paths[1] \in compiled
  PROVE  Found(paths) = <<paths[1]>>
<1> DEFINE there == {i \in DOMAIN paths : paths[i] \in DOMAIN modules \cup compiled \cup files}
           first == CHOOSE i \in there : \A j \in there : i <= j
<1>1. DOMAIN paths = 1..Len(paths) /\ Len(paths) \in Nat \ {0} OBVIOUS
<1>2. 1 \in there /\ there \subseteq Nat \ {0} BY <1>1
<1>3. \A j \in there : 1 <= j BY <1>2
<1>4. first \in there /\ \A j \in there : first <= j
  <2> HIDE DEF there
  <2> QED BY <1>2, <1>3
<1>5. first = 1
  <2> HIDE DEF there, first
  <2> QED BY <1>2, <1>4
<1>6. there # {} BY <1>2
<1>7. Found(paths) = <<paths[first]>> BY <1>6 DEF Found
<1> QED BY <1>5, <1>7

LEMMA PlacesAre ==
  ASSUME NEW p
  PROVE  \E S : loadAsFileOrDirectory(p) \in Seq(S) /\ loadAsFileOrDirectory(p) # <<>> /\ loadAsFileOrDirectory(p)[1] = p
<1>1. \A q : \E S : loadAsFile(q) \in Seq(S) /\ loadAsFile(q) # <<>> /\ loadAsFile(q)[1] = q
  <2> TAKE q
  <2> DEFINE a == Path(q.dir, q.name \o ".js")
             b == Path(q.dir, q.name \o ".json")
  <2>1. loadAsFile(q) = <<q, a, b>> BY DEF loadAsFile
  <2> HIDE DEF a, b
  <2>2. <<q, a, b>> \in Seq({q, a, b}) OBVIOUS
  <2>3. <<q, a, b>>[1] = q /\ <<q, a, b>> # <<>> OBVIOUS
  <2> QED BY <2>1, <2>2, <2>3
<1>2. \A d : \E S : loadIndex(d) \in Seq(S)
  <2> TAKE d
  <2> DEFINE a == Path(d, "index.js")
             b == Path(d, "index.json")
  <2>1. loadIndex(d) = <<a, b>> BY DEF loadIndex
  <2> HIDE DEF a, b
  <2>2. <<a, b>> \in Seq({a, b}) OBVIOUS
  <2> QED BY <2>1, <2>2
<1>3. ASSUME NEW s, NEW t, \E S : s \in Seq(S), \E S : t \in Seq(S)
      PROVE  /\ \E S : s \o t \in Seq(S)
             /\ s # <<>> => s \o t # <<>> /\ (s \o t)[1] = s[1]
  <2>1. PICK S : s \in Seq(S) BY <1>3
  <2>2. PICK T : t \in Seq(T) BY <1>3
  <2>3. s \in Seq(S \cup T) /\ t \in Seq(S \cup T) BY <2>1, <2>2
  <2> DEFINE U == S \cup T
  <2> HIDE DEF U
  <2>4. s \in Seq(U) /\ t \in Seq(U) BY <2>3 DEF U
  <2>5. s \o t \in Seq(U) BY <2>4
  <2>6. ASSUME s # <<>> PROVE s \o t # <<>> /\ (s \o t)[1] = s[1]
    <3>1. Len(s) \in Nat \ {0} /\ Len(s \o t) = Len(s) + Len(t) /\ Len(t) \in Nat BY <2>4, <2>6
    <3>2. 1 \in 1..Len(s) /\ 1 \in 1..Len(s \o t) BY <3>1
    <3> QED BY <2>4, <2>5, <3>2
  <2> QED BY <2>5, <2>6
<1>4. \E S : loadAsDirectory(p) \in Seq(S)
  <2> DEFINE dir == Append(p.dir, p.name)
             main == Mains[dir]
  <2>1. loadAsDirectory(p) = loadAsFile(main) \o loadIndex(Append(main.dir, main.name)) \/ loadAsDirectory(p) = loadIndex(dir) BY DEF loadAsDirectory
  <2> HIDE DEF main, dir
  <2> QED BY <2>1, <1>1, <1>2, <1>3
<1>5. loadAsFileOrDirectory(p) = loadAsFile(p) \o loadAsDirectory(p) BY DEF loadAsFileOrDirectory
<1> QED BY <1>1, <1>3, <1>4, <1>5-----------------------------------------------------------------------------
(* What each step does with the objects and the entries.                   *)

(* The fields of one object change.                                        *)
LEMMA ObjectIs ==
  ASSUME Shapes, NEW id \in DOMAIN objs, NEW o,
         o \in [file : {objs[id].file}, status : Status, cyclic : BOOLEAN],
         objs' = [objs EXCEPT ![id] = o]
  PROVE  /\ IsSeq(objs)' /\ DOMAIN objs' = DOMAIN objs
         /\ objs'[id] = o /\ o.file = objs[id].file
         /\ \A i \in DOMAIN objs \ {id} : objs'[i] = objs[i]
         /\ \A i \in DOMAIN objs : objs'[i].file = objs[i].file
         /\ \A i \in DOMAIN objs : objs'[i] \in [file : {objs'[i].file}, status : Status, cyclic : BOOLEAN]
<1>1. DOMAIN objs' = DOMAIN objs /\ objs' = [i \in DOMAIN objs' |-> objs'[i]] OBVIOUS
<1>2. IsSeq(objs') BY <1>1, SameShape DEF Shapes
<1>3. objs'[id] = o /\ \A i \in DOMAIN objs \ {id} : objs'[i] = objs[i] OBVIOUS
<1>4. o.file = objs[id].file OBVIOUS
<1>5. \A i \in DOMAIN objs : objs'[i].file = objs[i].file BY <1>3, <1>4
<1>6. ASSUME NEW i \in DOMAIN objs PROVE objs'[i] \in [file : {objs'[i].file}, status : Status, cyclic : BOOLEAN]
  BY <1>3, <1>4 DEF Shapes
<1> QED BY <1>1, <1>2, <1>3, <1>4, <1>5, <1>6

(* resolve makes one entry.                                                *)
Entered(table, key, id) ==
  /\ DOMAIN modules \subseteq DOMAIN modules'
  /\ \A k \in DOMAIN modules' :
       \/ k \in DOMAIN modules /\ modules'[k] = modules[k]
       \/ k = key /\ modules'[k] = id /\ table = "modules"
  /\ \A k \in DOMAIN nodeModules' :
       \/ k \in DOMAIN nodeModules /\ nodeModules'[k] = nodeModules[k]
       \/ nodeModules'[k] = id
Tabled == IsTable(modules) /\ IsTable(nodeModules)
LEMMA EnterIs ==
  ASSUME Tabled, NEW table, NEW key, NEW id \in DOMAIN objs,
         DOMAIN objs' = DOMAIN objs, Enter(table, key, id)
  PROVE  Tabled' /\ Entered(table, key, id)
<1> USE DEF Tabled, Entered
<1>1. CASE table = "modules"
  <2>1. modules' = Set(modules, key, id) BY <1>1 DEF Enter
  <2>2. nodeModules' = nodeModules BY <1>1 DEF Enter
  <2>3. IsTable(modules)' BY <2>1, SetIs DEF IsTable
  <2>4. IsTable(nodeModules)' BY <2>2 DEF IsTable
  <2>5. /\ DOMAIN modules' = DOMAIN modules \cup {key} /\ modules'[key] = id
        /\ \A k \in DOMAIN modules \ {key} : modules'[k] = modules[k]
    BY <2>1 DEF Set
  <2> QED BY <1>1, <2>2, <2>3, <2>4, <2>5
<1>2. CASE table # "modules"
  <2>1. modules' = modules BY <1>2 DEF Enter
  <2>2. CASE nodeModules' = nodeModules BY <2>1, <2>2 DEF IsTable
  <2>3. CASE nodeModules' = Set(nodeModules, key, id)
    <3>1. IsTable(nodeModules)' BY <2>3, SetIs DEF IsTable
    <3>2. IsTable(modules)' BY <2>1 DEF IsTable
    <3>3. /\ DOMAIN nodeModules' = DOMAIN nodeModules \cup {key} /\ nodeModules'[key] = id
          /\ \A k \in DOMAIN nodeModules \ {key} : nodeModules'[k] = nodeModules[k]
      BY <2>3 DEF Set
    <3> QED BY <2>1, <3>1, <3>2, <3>3
  <2> QED BY <1>2, <2>2, <2>3 DEF Enter
<1> QED BY <1>1, <1>2

(* A module that is in the cache is found: its body may be running.        *)
LEMMA FindsCached ==
  ASSUME MInv, NEW path \in DOMAIN modules, NEW table, NEW key, loadModule(path, table, key),
         table = "modules" => objs[modules[path]].file # key \/ IsNative(objs[modules[path]])
  PROVE  MInv'
<1> DEFINE id == modules[path]
           running == objs[id].status = "loading"
<1>1. id \in DOMAIN objs /\ objs[id] \in [file : {objs[id].file}, status : Status, cyclic : BOOLEAN]
  BY DEF MInv, Shapes, IsTable
<1>2. /\ Enter(table, key, id)
      /\ objs' = IF running THEN [objs EXCEPT ![id].cyclic = TRUE] ELSE objs
      /\ UNCHANGED <<stack, compiled>>
  BY DEF loadModule
<1>3. /\ IsSeq(objs)' /\ DOMAIN objs' = DOMAIN objs
      /\ \A i \in DOMAIN objs : objs'[i].file = objs[i].file /\ objs'[i].status = objs[i].status
      /\ \A i \in DOMAIN objs : objs[i].cyclic => objs'[i].cyclic
      /\ \A i \in DOMAIN objs : objs'[i] \in [file : {objs'[i].file}, status : Status, cyclic : BOOLEAN]
      /\ running => objs'[id].cyclic
  <2>1. CASE running
    <3> DEFINE o == [objs[id] EXCEPT !.cyclic = TRUE]
    <3>1. o \in [file : {objs[id].file}, status : Status, cyclic : BOOLEAN] /\ o.cyclic /\ o.status = objs[id].status BY <1>1
    <3>2. objs' = [objs EXCEPT ![id] = o] BY <1>2, <2>1
    <3> HIDE DEF o, id
    <3> QED BY <1>1, <3>1, <3>2, ObjectIs DEF MInv
  <2>2. CASE ~running
    <3>1. objs' = objs BY <1>2, <2>2
    <3> QED BY <2>2, <3>1 DEF MInv, Shapes, IsSeq
  <2> QED BY <2>1, <2>2
<1>4. Tabled' /\ Entered(table, key, id)
  <2>1. Tabled BY DEF MInv, Shapes, Tabled
  <2>2. Enter(table, key, id) /\ id \in DOMAIN objs /\ DOMAIN objs' = DOMAIN objs BY <1>1, <1>2, <1>3
  <2> HIDE DEF id
  <2> QED BY <2>1, <2>2, EnterIs
<1> USE DEF Tabled, Entered
<1> HIDE DEF running
<1>5. Shapes' BY <1>2, <1>3, <1>4 DEF MInv, Shapes
<1>6. Running' BY <1>2, <1>3 DEF MInv, Running
<1>7. Cached' BY <1>3, <1>4 DEF MInv, Cached
<1>8. Compiled' BY <1>2, <1>3 DEF MInv, Compiled, IsNative
<1>9. Kept'
  <2>1. MayBe(objs[id], path) BY DEF MInv, Kept
  <2>2. ASSUME NEW k, MayBe(objs[id], path), k = key, table = "modules" PROVE MayBe(objs'[id], k)
    BY <1>1, <1>3, <2>2 DEF MayBe, IsNative, running
  <2>3. MayBeNamed(objs'[id]) BY <1>1, <1>3, <2>1 DEF MayBe, MayBeNamed, IsNative, running
  <2>4. \A i \in DOMAIN objs, k \in DOMAIN modules : MayBe(objs[i], k) => MayBe(objs'[i], k) BY <1>3 DEF MayBe, IsNative
  <2>5. \A i \in DOMAIN objs : MayBeNamed(objs[i]) => MayBeNamed(objs'[i]) BY <1>3 DEF MayBeNamed, IsNative
  <2> HIDE DEF id
  <2>6. \A k \in DOMAIN modules' : MayBe(objs'[modules'[k]], k) BY <1>4, <2>1, <2>2, <2>4 DEF MInv, Shapes, IsTable, Kept
  <2>7. \A k \in DOMAIN nodeModules' : MayBeNamed(objs'[nodeModules'[k]]) BY <1>4, <2>3, <2>5 DEF MInv, Shapes, IsTable, Kept
  <2> QED BY <2>6, <2>7 DEF Kept
<1> QED BY <1>5, <1>6, <1>7, <1>8, <1>9 DEF MInv
(* An object is made.                                                      *)
LEMMA NewIs ==
  ASSUME Shapes, NEW file, NEW status \in Status, objs' = NewObject(file, status)
  PROVE  /\ IsSeq(objs)' /\ Len(objs) + 1 \notin DOMAIN objs
         /\ DOMAIN objs' = DOMAIN objs \cup {Len(objs) + 1}
         /\ objs'[Len(objs) + 1] = [file |-> file, status |-> status, cyclic |-> FALSE]
         /\ \A i \in DOMAIN objs : objs'[i] = objs[i]
         /\ \A i \in DOMAIN objs' : objs'[i] \in [file : {objs'[i].file}, status : Status, cyclic : BOOLEAN]
<1> DEFINE o == [file |-> file, status |-> status, cyclic |-> FALSE]
<1>1. o \in [file : {o.file}, status : Status, cyclic : BOOLEAN] OBVIOUS
<1>2. objs' = Append(objs, o) BY DEF NewObject
<1> HIDE DEF o
<1>3. /\ IsSeq(objs') /\ Len(objs) \in Nat /\ DOMAIN objs = 1..Len(objs)
      /\ DOMAIN objs' = 1..(Len(objs) + 1) /\ objs'[Len(objs) + 1] = o
      /\ \A i \in DOMAIN objs : objs'[i] = objs[i]
  BY <1>2, AppendIs DEF Shapes
<1>4. Len(objs) + 1 \notin DOMAIN objs /\ DOMAIN objs' = DOMAIN objs \cup {Len(objs) + 1} BY <1>3
<1>5. IsSeq(objs)' BY <1>3 DEF IsSeq
<1>6. ASSUME NEW i \in DOMAIN objs' PROVE objs'[i] \in [file : {objs'[i].file}, status : Status, cyclic : BOOLEAN]
  BY <1>1, <1>3, <1>4 DEF Shapes
<1> QED BY <1>3, <1>4, <1>5, <1>6 DEF o

(* The body of a file that is not in the cache begins.                     *)
LEMMA BeginsBody ==
  ASSUME MInv, NEW path, path \notin DOMAIN modules, NEW frame, frame.id = Len(objs) + 1,
         objs' = NewObject(path, "loading"), modules' = Set(modules, path, Len(objs) + 1),
         stack' = Append(stack, frame), compiled' = compiled \cup {path}, UNCHANGED nodeModules
  PROVE  MInv'
<1> DEFINE id == Len(objs) + 1
           o == [file |-> path, status |-> "loading", cyclic |-> FALSE]
<1>1. /\ IsSeq(objs)' /\ id \notin DOMAIN objs
      /\ DOMAIN objs' = DOMAIN objs \cup {id} /\ objs'[id] = o
      /\ \A i \in DOMAIN objs : objs'[i] = objs[i]
      /\ \A i \in DOMAIN objs' : objs'[i] \in [file : {objs'[i].file}, status : Status, cyclic : BOOLEAN]
  BY NewIs DEF MInv, Status
<1>2. o.file = path /\ o.status = "loading" OBVIOUS
<1> HIDE DEF id, o
<1>3. /\ DOMAIN modules' = DOMAIN modules \cup {path} /\ modules'[path] = id
      /\ \A k \in DOMAIN modules : modules'[k] = modules[k]
      /\ IsTable(modules)'
  <2>1. modules' = Set(modules, path, id) BY DEF id
  <2>2. /\ DOMAIN modules' = DOMAIN modules \cup {path} /\ modules'[path] = id
        /\ \A k \in DOMAIN modules : modules'[k] = modules[k]
    BY <2>1 DEF Set
  <2>3. modules \in [DOMAIN modules -> DOMAIN objs'] BY <1>1 DEF MInv, Shapes, IsTable
  <2>4. modules' \in [DOMAIN modules' -> DOMAIN objs'] BY <1>1, <2>1, <2>3, SetIs
  <2> QED BY <2>2, <2>4 DEF IsTable
<1>4. IsTable(nodeModules)' BY <1>1 DEF MInv, Shapes, IsTable
<1> DEFINE n == Len(stack) + 1
<1>5. /\ IsSeq(stack)' /\ n \notin DOMAIN stack
      /\ DOMAIN stack' = DOMAIN stack \cup {n} /\ stack'[n].id = id
      /\ \A m \in DOMAIN stack : stack'[m] = stack[m]
  <2>1. /\ IsSeq(stack') /\ Len(stack) \in Nat /\ DOMAIN stack = 1..Len(stack)
        /\ DOMAIN stack' = 1..(Len(stack) + 1) /\ stack'[Len(stack) + 1] = frame
        /\ \A m \in DOMAIN stack : stack'[m] = stack[m]
    BY AppendIs DEF MInv, Shapes
  <2>2. IsSeq(stack)' BY <2>1 DEF IsSeq
  <2>3. n \notin DOMAIN stack /\ DOMAIN stack' = DOMAIN stack \cup {n} BY <2>1
  <2>4. stack'[n].id = id BY <2>1 DEF id
  <2> QED BY <2>1, <2>2, <2>3, <2>4
<1> HIDE DEF n
<1>6. Shapes' BY <1>1, <1>3, <1>4, <1>5 DEF Shapes
<1>7. Running'
  <2>1. \A m \in DOMAIN stack' : stack'[m].id \in DOMAIN objs' BY <1>1, <1>5 DEF MInv, Running
  <2>2. \A m \in DOMAIN stack : stack'[m].id # id BY <1>1, <1>5 DEF MInv, Running
  <2>3. \A l, m \in DOMAIN stack' : stack'[l].id = stack'[m].id => l = m BY <1>5, <2>2 DEF MInv, Running
  <2>4. \A i \in DOMAIN objs' : objs'[i].status = "loading" <=> \E m \in DOMAIN stack' : stack'[m].id = i
    BY <1>1, <1>2, <1>5, <2>2 DEF MInv, Running
  <2> QED BY <2>1, <2>3, <2>4 DEF Running
<1>8. Cached' BY <1>1, <1>2, <1>3 DEF MInv, Cached
<1>9. Compiled' BY <1>1, <1>2 DEF MInv, Compiled, IsNative
<1>10. Kept'
  <2>1. MayBe(objs'[id], path) BY <1>1, <1>2 DEF MayBe
  <2>2. \A k \in DOMAIN modules' : MayBe(objs'[modules'[k]], k) BY <1>1, <1>3, <2>1 DEF MInv, Shapes, IsTable, Kept
  <2>3. \A k \in DOMAIN nodeModules' : MayBeNamed(objs'[nodeModules'[k]]) BY <1>1 DEF MInv, Shapes, IsTable, Kept
  <2> QED BY <2>2, <2>3 DEF Kept
<1> QED BY <1>6, <1>7, <1>8, <1>9, <1>10 DEF MInv

(* A native module is made, whatever its loader does.                      *)
LEMMA MakesNative ==
  ASSUME MInv, NEW req, NEW key, key.name = req.name, req.name \in Native \cup Core, key \notin DOMAIN modules,
         loadNative(req, key)
  PROVE  MInv'
<1> DEFINE id == Len(objs) + 1
           other == Path(IF req.prefixed THEN <<>> ELSE <<"node:">>, req.name)
<1>1. PICK status \in {"loaded", "failed"} :
        /\ objs' = NewObject(key, status)
        /\ modules' = IF req.name \in Native /\ ~req.prefixed THEN Set(modules, key, id) ELSE Set(Set(modules, key, id), other, id)
  BY DEF loadNative
<1>2. UNCHANGED <<nodeModules, stack, compiled>> BY DEF loadNative
<1> DEFINE o == [file |-> key, status |-> status, cyclic |-> FALSE]
<1>3. /\ IsSeq(objs)' /\ id \notin DOMAIN objs
      /\ DOMAIN objs' = DOMAIN objs \cup {id} /\ objs'[id] = o
      /\ \A i \in DOMAIN objs : objs'[i] = objs[i]
      /\ \A i \in DOMAIN objs' : objs'[i] \in [file : {objs'[i].file}, status : Status, cyclic : BOOLEAN]
  <2>1. status \in Status /\ objs' = NewObject(key, status) BY <1>1 DEF Status
  <2>2. Shapes BY DEF MInv
  <2> QED BY <2>1, <2>2, NewIs
<1>4. o.file = key /\ o.status # "loading" /\ IsNative(o) BY DEF IsNative
<1> HIDE DEF id, o, other
<1>5. /\ DOMAIN modules \subseteq DOMAIN modules' /\ key \in DOMAIN modules'
      /\ \A k \in DOMAIN modules' : (k \in DOMAIN modules /\ modules'[k] = modules[k]) \/ modules'[k] = id
      /\ IsTable(modules)'
  <2>1. modules \in [DOMAIN modules -> DOMAIN objs'] BY <1>3 DEF MInv, Shapes, IsTable
  <2>2. Set(modules, key, id) \in [DOMAIN Set(modules, key, id) -> DOMAIN objs'] BY <1>3, <2>1, SetIs
  <2>3. Set(Set(modules, key, id), other, id) \in [DOMAIN Set(Set(modules, key, id), other, id) -> DOMAIN objs'] BY <1>3, <2>2, SetIs
  <2>4. modules' \in [DOMAIN modules' -> DOMAIN objs'] BY <1>1, <2>2, <2>3
  <2>5. CASE modules' = Set(modules, key, id) BY <2>4, <2>5 DEF Set, IsTable
  <2>6. CASE modules' = Set(Set(modules, key, id), other, id) BY <2>4, <2>6 DEF Set, IsTable
  <2> QED BY <1>1, <2>5, <2>6
<1>6. Shapes'
  <2>1. IsTable(nodeModules)' BY <1>2, <1>3 DEF MInv, Shapes, IsTable
  <2>2. IsSeq(stack)' BY <1>2 DEF MInv, Shapes, IsSeq
  <2> QED BY <1>3, <1>5, <2>1, <2>2 DEF Shapes
<1>7. Running' BY <1>2, <1>3, <1>4 DEF MInv, Running
<1>8. Cached' BY <1>3, <1>4, <1>5 DEF MInv, Cached
<1>9. Compiled' BY <1>2, <1>3, <1>4 DEF MInv, Compiled, IsNative
<1>10. Kept'
  <2>1. \A k : MayBe(objs'[id], k) BY <1>3, <1>4 DEF MayBe
  <2>2. \A k \in DOMAIN modules' : MayBe(objs'[modules'[k]], k) BY <1>3, <1>5, <2>1 DEF MInv, Shapes, IsTable, Kept
  <2>3. \A k \in DOMAIN nodeModules' : MayBeNamed(objs'[nodeModules'[k]]) BY <1>2, <1>3 DEF MInv, Shapes, IsTable, Kept
  <2> QED BY <2>2, <2>3 DEF Kept
<1> QED BY <1>6, <1>7, <1>8, <1>9, <1>10 DEF MInv
-----------------------------------------------------------------------------
(* A body ends.                                                            *)

(* The status of the object changes and its frame is taken off.            *)
LEMMA EndsBody ==
  ASSUME MInv, stack # <<>>, NEW status \in {"loaded", "failed"},
         objs' = [objs EXCEPT ![stack[Len(stack)].id].status = status],
         stack' = SubSeq(stack, 1, Len(stack) - 1)
  PROVE  LET id == stack[Len(stack)].id IN
         /\ id \in DOMAIN objs /\ objs[id].status = "loading"
         /\ IsSeq(objs)' /\ IsSeq(stack)' /\ Running' /\ DOMAIN objs' = DOMAIN objs
         /\ objs'[id].status = status /\ objs'[id].cyclic = objs[id].cyclic
         /\ \A i \in DOMAIN objs \ {id} : objs'[i] = objs[i]
         /\ \A i \in DOMAIN objs : objs'[i].file = objs[i].file
         /\ \A i \in DOMAIN objs : objs'[i] \in [file : {objs'[i].file}, status : Status, cyclic : BOOLEAN]
<1> DEFINE n == Len(stack)
           id == stack[n].id
           o == [objs[id] EXCEPT !.status = status]
<1>1. /\ n \in DOMAIN stack /\ IsSeq(stack')
      /\ DOMAIN stack' = DOMAIN stack \ {n}
      /\ \A m \in DOMAIN stack' : stack'[m] = stack[m]
  <2>1. /\ n \in Nat \ {0} /\ DOMAIN stack = 1..n
        /\ IsSeq(stack') /\ DOMAIN stack' = 1..(n - 1)
        /\ \A i \in 1..(n - 1) : stack'[i] = stack[i]
    BY PopIs DEF MInv, Shapes
  <2> HIDE DEF n
  <2> QED BY <2>1
<1> HIDE DEF n
<1>2. id \in DOMAIN objs /\ objs[id].status = "loading" BY <1>1 DEF MInv, Running
<1>3. o \in [file : {objs[id].file}, status : Status, cyclic : BOOLEAN] /\ o.status = status /\ o.cyclic = objs[id].cyclic
  BY <1>2 DEF MInv, Shapes, Status
<1>4. objs' = [objs EXCEPT ![id] = o] BY DEF n
<1> HIDE DEF id, o
<1>5. /\ IsSeq(objs)' /\ DOMAIN objs' = DOMAIN objs
      /\ objs'[id] = o
      /\ \A i \in DOMAIN objs \ {id} : objs'[i] = objs[i]
      /\ \A i \in DOMAIN objs : objs'[i].file = objs[i].file
      /\ \A i \in DOMAIN objs : objs'[i] \in [file : {objs'[i].file}, status : Status, cyclic : BOOLEAN]
  BY <1>2, <1>3, <1>4, ObjectIs DEF MInv
<1>6. Running'
  <2>1. id = stack[n].id BY DEF id
  <2>2. \A m \in DOMAIN stack' : stack'[m].id # id BY <1>1, <2>1 DEF MInv, Running
  <2>3. \A m \in DOMAIN stack' : stack'[m].id \in DOMAIN objs' BY <1>1, <1>5 DEF MInv, Running
  <2>4. \A l, m \in DOMAIN stack' : stack'[l].id = stack'[m].id => l = m BY <1>1 DEF MInv, Running
  <2>5. ASSUME NEW i \in DOMAIN objs'
        PROVE  objs'[i].status = "loading" <=> \E m \in DOMAIN stack' : stack'[m].id = i
    <3>1. CASE i = id BY <1>3, <1>5, <2>2, <3>1
    <3>2. CASE i # id
      <4>1. objs'[i].status = "loading" <=> \E m \in DOMAIN stack : stack[m].id = i BY <1>5, <3>2 DEF MInv, Running
      <4>2. \A m \in DOMAIN stack : stack[m].id = i => m \in DOMAIN stack' BY <1>1, <2>1, <3>2
      <4>3. (\E m \in DOMAIN stack : stack[m].id = i) <=> \E m \in DOMAIN stack' : stack'[m].id = i BY <1>1, <4>2
      <4> QED BY <4>1, <4>3
    <3> QED BY <3>1, <3>2
  <2> QED BY <2>3, <2>4, <2>5 DEF Running
<1>7. IsSeq(stack)' BY <1>1 DEF IsSeq
<1> QED BY <1>2, <1>3, <1>5, <1>6, <1>7 DEF id, n

(* The body returns; resolve makes the entry of the name it was given.     *)
LEMMA FinishStep == ASSUME MInv, Finish PROVE MInv'
<1> DEFINE top == stack[Len(stack)]
           id == top.id
<1>1. /\ stack # <<>> /\ Enter(top.table, top.key, id)
      /\ objs' = [objs EXCEPT ![stack[Len(stack)].id].status = "loaded"]
      /\ stack' = SubSeq(stack, 1, Len(stack) - 1) /\ UNCHANGED compiled
  BY DEF Finish
<1>2. /\ id \in DOMAIN objs /\ objs[id].status = "loading"
      /\ IsSeq(objs)' /\ IsSeq(stack)' /\ Running' /\ DOMAIN objs' = DOMAIN objs
      /\ objs'[id].status = "loaded"
      /\ \A i \in DOMAIN objs \ {id} : objs'[i] = objs[i]
      /\ \A i \in DOMAIN objs : objs'[i].file = objs[i].file
      /\ \A i \in DOMAIN objs : objs'[i] \in [file : {objs'[i].file}, status : Status, cyclic : BOOLEAN]
  BY <1>1, EndsBody
<1>3. Tabled' /\ Entered(top.table, top.key, id)
  <2>1. Tabled BY DEF MInv, Shapes, Tabled
  <2> HIDE DEF top, id
  <2> QED BY <1>1, <1>2, <2>1, EnterIs
<1> HIDE DEF top, id
<1> USE DEF Tabled, Entered
<1>4. Shapes' BY <1>2, <1>3 DEF Shapes
<1>5. Cached'
  <2>1. \A i \in DOMAIN objs : objs'[i].status # "failed" => objs[i].status # "failed" BY <1>2
  <2> QED BY <1>2, <1>3, <2>1 DEF MInv, Cached
<1>6. Compiled' BY <1>1, <1>2 DEF MInv, Compiled, IsNative
<1>7. Kept'
  <2>1. \A i \in DOMAIN objs, k \in DOMAIN modules : MayBe(objs[i], k) => MayBe(objs'[i], k) BY <1>2 DEF MayBe
  <2>2. \A i \in DOMAIN objs : MayBeNamed(objs[i]) => MayBeNamed(objs'[i]) BY <1>2 DEF MayBeNamed
  <2>3. MayBeNamed(objs'[id]) /\ \A k : MayBe(objs'[id], k) BY <1>2 DEF MayBe, MayBeNamed
  <2>4. \A k \in DOMAIN modules' : MayBe(objs'[modules'[k]], k) BY <1>3, <2>1, <2>3 DEF MInv, Shapes, IsTable, Kept
  <2>5. \A k \in DOMAIN nodeModules' : MayBeNamed(objs'[nodeModules'[k]]) BY <1>3, <2>2, <2>3 DEF MInv, Shapes, IsTable, Kept
  <2> QED BY <2>4, <2>5 DEF Kept
<1> QED BY <1>2, <1>4, <1>5, <1>6, <1>7 DEF MInv

(* The body throws: loadModule takes the entry of its path away.  No other *)
(* object in use has that path, and the entries that stay were made in a   *)
(* cycle.                                                                  *)
LEMMA ThrowStep == ASSUME MInv, Throw PROVE MInv'
<1> DEFINE id == stack[Len(stack)].id
           file == objs[id].file
<1>1. /\ stack # <<>> /\ modules' = [k \in DOMAIN modules \ {file} |-> modules[k]]
      /\ objs' = [objs EXCEPT ![stack[Len(stack)].id].status = "failed"]
      /\ stack' = SubSeq(stack, 1, Len(stack) - 1) /\ UNCHANGED <<nodeModules, compiled>>
  BY DEF Throw
<1>2. /\ id \in DOMAIN objs /\ objs[id].status = "loading"
      /\ IsSeq(objs)' /\ IsSeq(stack)' /\ Running' /\ DOMAIN objs' = DOMAIN objs
      /\ objs'[id].status = "failed" /\ objs'[id].cyclic = objs[id].cyclic
      /\ \A i \in DOMAIN objs \ {id} : objs'[i] = objs[i]
      /\ \A i \in DOMAIN objs : objs'[i].file = objs[i].file
      /\ \A i \in DOMAIN objs : objs'[i] \in [file : {objs'[i].file}, status : Status, cyclic : BOOLEAN]
  BY <1>1, EndsBody
<1>3. file = objs[id].file OBVIOUS
<1> HIDE DEF id, file
<1>4. DOMAIN modules' = DOMAIN modules \ {file} /\ \A k \in DOMAIN modules' : modules'[k] = modules[k] BY <1>1
<1>5. Shapes'
  <2>1. IsTable(modules)' BY <1>1, <1>2 DEF MInv, Shapes, IsTable
  <2>2. IsTable(nodeModules)' BY <1>1, <1>2 DEF MInv, Shapes, IsTable
  <2> QED BY <1>2, <2>1, <2>2 DEF Shapes
<1>6. Cached'
  <2>1. \A i \in DOMAIN objs : objs'[i].status # "failed" => i # id /\ objs'[i] = objs[i] BY <1>2
  <2>2. \A i \in DOMAIN objs : objs'[i].status # "failed" => objs[i].file # file BY <1>2, <1>3, <2>1 DEF MInv, Cached
  <2> QED BY <1>2, <1>4, <2>1, <2>2 DEF MInv, Cached
<1>7. Compiled' BY <1>1, <1>2 DEF MInv, Compiled, IsNative
<1>8. Kept'
  <2>1. \A k \in DOMAIN modules' : MayBe(objs[id], k) => MayBe(objs'[id], k) BY <1>2, <1>3, <1>4 DEF MayBe, IsNative
  <2>2. MayBeNamed(objs[id]) => MayBeNamed(objs'[id]) BY <1>2 DEF MayBeNamed, IsNative
  <2>3. \A i \in DOMAIN objs, k \in DOMAIN modules' : MayBe(objs[i], k) => MayBe(objs'[i], k) BY <1>2, <2>1
  <2>4. \A i \in DOMAIN objs : MayBeNamed(objs[i]) => MayBeNamed(objs'[i]) BY <1>2, <2>2
  <2>5. \A k \in DOMAIN modules' : MayBe(objs'[modules'[k]], k) BY <1>4, <2>3 DEF MInv, Shapes, IsTable, Kept
  <2>6. \A k \in DOMAIN nodeModules' : MayBeNamed(objs'[nodeModules'[k]]) BY <1>1, <2>4 DEF MInv, Shapes, IsTable, Kept
  <2> QED BY <2>5, <2>6 DEF Kept
<1> QED BY <1>2, <1>5, <1>6, <1>7, <1>8 DEF MInv
-----------------------------------------------------------------------------
(* require, and the theorem.                                               *)

(* loadModule finds the file in the cache, cannot compile it, or runs it.  *)
LEMMA LoadStep ==
  ASSUME MInv, NEW path, NEW table, NEW key, loadModule(path, table, key),
         path \in DOMAIN modules /\ table = "modules" => objs[modules[path]].file # key \/ IsNative(objs[modules[path]])
  PROVE  MInv'
<1>1. CASE path \in DOMAIN modules BY <1>1, FindsCached
<1>2. CASE path \notin DOMAIN modules /\ path \in Broken
  <2>1. UNCHANGED <<modules, nodeModules, objs, stack, compiled>> BY <1>2 DEF loadModule
  <2> QED BY <2>1 DEF MInv, Shapes, Running, Cached, Compiled, Kept, IsSeq, IsTable, MayBe, MayBeNamed, IsNative
<1>3. CASE path \notin DOMAIN modules /\ path \notin Broken
  <2> DEFINE frame == [id |-> Len(objs) + 1, table |-> table, key |-> key]
  <2>1. /\ objs' = NewObject(path, "loading") /\ modules' = Set(modules, path, Len(objs) + 1)
        /\ stack' = Append(stack, frame) /\ compiled' = compiled \cup {path} /\ UNCHANGED nodeModules
    BY <1>3 DEF loadModule
  <2>2. frame.id = Len(objs) + 1 OBVIOUS
  <2> HIDE DEF frame
  <2> QED BY <1>3, <2>1, <2>2, BeginsBody
<1> QED BY <1>1, <1>2, <1>3

(* A path that is not in the cache but the file of an object there is one  *)
(* that was compiled, and is found first.                                  *)
LEMMA OtherName ==
  ASSUME MInv, NEW p, p \notin DOMAIN modules, Found(loadAsFileOrDirectory(p))[1] \in DOMAIN modules
  PROVE  LET o == objs[modules[Found(loadAsFileOrDirectory(p))[1]]] IN o.file # p \/ IsNative(o)
<1> DEFINE path == Found(loadAsFileOrDirectory(p))[1]
           o == objs[modules[path]]
<1>1. modules[path] \in DOMAIN objs BY DEF MInv, Shapes, IsTable
<1>2. o.file \in compiled \/ IsNative(o) BY <1>1 DEF MInv, Compiled
<1>3. ASSUME p \in compiled PROVE FALSE
  <2>1. PICK S : loadAsFileOrDirectory(p) \in Seq(S) /\ loadAsFileOrDirectory(p) # <<>> /\ loadAsFileOrDirectory(p)[1] = p BY PlacesAre
  <2>2. Found(loadAsFileOrDirectory(p)) = <<loadAsFileOrDirectory(p)[1]>> BY <1>3, <2>1, FoundFirst
  <2>3. path = p BY <2>1, <2>2
  <2> QED BY <2>3
<1> QED BY <1>2, <1>3

(* Wherever the code that calls it was loaded from.                        *)
LEMMA RequireStep == ASSUME MInv, NEW req \in Requests, NEW start, Resolve(req, start) PROVE MInv'
<1> DEFINE p == Path(start, req.name)
           key == Path(IF req.prefixed THEN <<"node:">> ELSE <<>>, req.name)
           places == loadNodeModules(req.name, start)
           has == {i \in DOMAIN places : Found(places[i]) # <<>>}
           place == places[CHOOSE i \in has : \A j \in has : i <= j]
           file == Found(loadAsFileOrDirectory(p))[1]
<1>1. \/ Unchanged
      \/ p \notin DOMAIN modules /\ loadModule(file, "modules", p)
      \/ key \notin DOMAIN modules /\ req.name \in Native \cup Core /\ loadNative(req, key)
      \/ loadModule(Found(place)[1], "nodeModules", p)
  BY DEF Resolve
<1>2. CASE Unchanged
  BY <1>2 DEF Unchanged, MInv, Shapes, Running, Cached, Compiled, Kept, IsSeq, IsTable, MayBe, MayBeNamed, IsNative
<1>3. CASE p \notin DOMAIN modules /\ loadModule(file, "modules", p)
  <2> HIDE DEF p
  <2>1. file \in DOMAIN modules => objs[modules[file]].file # p \/ IsNative(objs[modules[file]]) BY <1>3, OtherName
  <2> HIDE DEF file
  <2> QED BY <1>3, <2>1, LoadStep
<1>4. CASE key \notin DOMAIN modules /\ req.name \in Native \cup Core /\ loadNative(req, key)
  <2>1. key.name = req.name BY DEF Path
  <2> HIDE DEF key
  <2> QED BY <1>4, <2>1, MakesNative
<1>5. CASE loadModule(Found(place)[1], "nodeModules", p)
  <2> DEFINE path == Found(place)[1]
  <2> HIDE DEF place, p
  <2>1. loadModule(path, "nodeModules", p) BY <1>5
  <2> HIDE DEF path
  <2> QED BY <2>1, LoadStep
<1> QED BY <1>1, <1>2, <1>3, <1>4, <1>5

LEMMA ModulesInitially == ModulesInit => MInv
<1> SUFFICES ASSUME ModulesInit PROVE MInv OBVIOUS
<1>1. modules = <<>> /\ nodeModules = <<>> /\ objs = <<>> /\ stack = <<>> BY DEF ModulesInit
<1>2. DOMAIN <<>> = {} OBVIOUS
<1>3. IsSeq(<<>>)
  <2>1. {<<>>[i] : i \in DOMAIN <<>>} = {} BY <1>2
  <2> QED BY <2>1 DEF IsSeq
<1>4. <<>> \in [DOMAIN <<>> -> {}] OBVIOUS
<1>5. Shapes BY <1>1, <1>2, <1>3, <1>4 DEF Shapes, IsTable
<1> QED BY <1>1, <1>2, <1>5 DEF MInv, Running, Cached, Compiled, Kept

LEMMA ModulesStep == MInv /\ [ModulesNext]_moduleVars => MInv'
<1> SUFFICES ASSUME MInv, [ModulesNext]_moduleVars PROVE MInv' OBVIOUS
<1>1. ASSUME UNCHANGED <<modules, nodeModules, objs, stack, compiled>> PROVE MInv'
  BY <1>1 DEF MInv, Shapes, Running, Cached, Compiled, Kept, IsSeq, IsTable, MayBe, MayBeNamed, IsNative
<1>2. CASE FileGoes BY <1>1, <1>2 DEF FileGoes
<1>3. CASE UNCHANGED moduleVars BY <1>1, <1>3 DEF moduleVars
<1>4. CASE \E req \in Requests : Require(req) BY <1>4, RequireStep DEF Require
<1>5. CASE Finish BY <1>5, FinishStep
<1>6. CASE Throw BY <1>6, ThrowStep
<1> QED BY <1>2, <1>3, <1>4, <1>5, <1>6 DEF ModulesNext

(* The cache keeps its tables in order: MInv is an invariant of every      *)
(* sequence of requires, returns and throws of bodies, and removed files.  *)
THEOREM ModulesInvariant == ModulesSpec => []MInv
<1> QED BY ModulesInitially, ModulesStep, PTL DEF ModulesSpec

(* One module object per file at a time, in the caches until its body has  *)
(* failed: what loadModule's entry before the body runs, and its delete    *)
(* when it throws, are for.                                                *)
THEOREM ModulesSharedHold == ModulesSpec => []ModulesShared
<1>1. ASSUME MInv PROVE ModulesShared
  <2>1. \A k \in DOMAIN modules : objs[modules[k]].status = "failed" =>
          IsNative(objs[modules[k]]) \/ (objs[modules[k]].cyclic /\ objs[modules[k]].file # k)
    BY <1>1 DEF MInv, Kept, MayBe
  <2>2. \A k \in DOMAIN nodeModules : objs[nodeModules[k]].status = "failed" => IsNative(objs[nodeModules[k]]) \/ objs[nodeModules[k]].cyclic
    BY <1>1 DEF MInv, Kept, MayBeNamed
  <2> QED BY <1>1, <2>1, <2>2 DEF ModulesShared, MInv, Running, Cached, IsNative
<1> QED BY <1>1, ModulesInvariant, PTL
=============================================================================
