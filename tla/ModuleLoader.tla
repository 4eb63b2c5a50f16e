---------------------------- MODULE ModuleLoader -----------------------------
(***************************************************************************)
(* The loader (compiler/module.go): from the entry module on, every module *)
(* named by a top-level import is located, read, parsed and scanned for    *)
(* imports of its own, depth first. loadModule, loadSpec and scan call one *)
(* another; calls holds their frames, ret what the last one returned.      *)
(***************************************************************************)
EXTENDS ModuleNames, FiniteSets

CONSTANTS
  Names,    \* the module names a program may mention, Main among them
  Worlds    \* what the search path may hold

Kinds == {"none", "module", "package", "native", "unreadable"}

\* A world is what findSpec finds under a name, and the body of each source
\* module as its import statements. "unreadable" is a file that is there
\* (fs.Stat) and cannot be read (fs.ReadFile).
ASSUME NamesAssumption ==
  /\ Main \in Names
  /\ \A n \in Names :
       /\ n \in Seq(STRING) \ {NoName}
       /\ Len(n) > 1 => ParentName(n) \in Names

ASSUME WorldsAssumption ==
  \A w \in Worlds : \A n \in Names :
    /\ w.kind[n] \in Kinds
    /\ Len(w.body[n]) \in Nat
    /\ DOMAIN w.body[n] = 1 .. Len(w.body[n])
    /\ \A i \in 1 .. Len(w.body[n]) :
         LET stmt == w.body[n][i]
         IN  /\ stmt.op \in {"import", "from", "if"}
             /\ stmt.op = "import" => stmt.module \in Names /\ stmt = Import(stmt.module)
             /\ stmt.op = "from" =>
                  /\ stmt.level \in Nat /\ stmt.module \in Seq(STRING)
                  /\ RelativeBase(n, w.kind[n] = "package", stmt) \in Names \cup {NoName}

VARIABLES
  world,
  status,   \* ld.modules: "absent", "loading", "ready", "native", or "dead",
            \* registered with no syntax tree
  stack,    \* ld.stack, the names being loaded
  calls,    \* frames of loadModule and, once step is "scan", of loadSpec
  ret,      \* the module last returned, NoName for nil
  errs,     \* ld.errs
  reads     \* history: the files read, in order

loaderVars == << world, status, stack, calls, ret, errs, reads >>

\* at is auxiliary: the length of the stack while the frame is on top.
LoadFrame(name, step, at) ==
  [fn |-> "load", name |-> name, step |-> step, i |-> 1, at |-> at]

Top == calls[Len(calls)]

Loads(step) == calls # << >> /\ Top.fn = "load" /\ Top.step = step

IsPackage(n) == world.kind[n] = "package"

Error(code, path) == [code |-> code, path |-> path]

\* cycle(): the stack from name on, and name again.
CycleFrom(name) ==
  LET at    == {i \in 1 .. Len(stack) : stack[i] = name}
      start == IF at = {} THEN 1 ELSE CHOOSE i \in at : \A j \in at : i <= j
  IN  Append(SubSeq(stack, start, Len(stack)), name)

IsOnTop(name) == stack # << >> /\ stack[Len(stack)] = name

IsLoading(name) == status[name] = "loading"

Report(error) == errs' = Append(errs, error)

Return(name) ==
  /\ calls' = SubSeq(calls, 1, Len(calls) - 1)
  /\ ret' = name

Step(frame) == [calls EXCEPT ![Len(calls)] = frame]

Call(frame, name) ==
  calls' = Append(Step(frame), LoadFrame(name, "enter", Len(stack)))

-------------------------------------------------------------------------------
Init ==
  /\ world \in Worlds
  /\ status = [n \in Names |-> IF n = Main THEN "ready" ELSE "absent"]
  /\ stack = << >>
  /\ calls = << LoadFrame(Main, "scan", 0) >>
  /\ ret = NoName
  /\ errs = << >>
  /\ reads = << >>

\* loadModule of a module that is there, perhaps still loading.
Known ==
  /\ Loads("enter") /\ status[Top.name] # "absent"
  /\ IF IsLoading(Top.name)
     THEN Report(Error("circular", CycleFrom(Top.name)))
     ELSE UNCHANGED errs
  /\ Return(Top.name)
  /\ UNCHANGED << world, status, stack, reads >>

AskParent ==
  /\ Loads("enter") /\ status[Top.name] = "absent" /\ Len(Top.name) > 1
  /\ Call([Top EXCEPT !.step = "parent"], ParentName(Top.name))
  /\ UNCHANGED << world, status, stack, ret, errs, reads >>

ParentFails ==
  /\ Loads("parent")
  /\ \/ ret = NoName /\ UNCHANGED errs
     \/ /\ ret # NoName /\ ~ IsPackage(ret)
        /\ Report(Error("not a package", Top.name))
  /\ Return(NoName)
  /\ UNCHANGED << world, status, stack, reads >>

\* findSpec: a top-level name, or a child of a package that was loaded.
Locates ==
  \/ Loads("enter") /\ status[Top.name] = "absent" /\ Len(Top.name) = 1
  \/ Loads("parent") /\ ret # NoName /\ IsPackage(ret)

NotFound ==
  /\ Locates /\ world.kind[Top.name] = "none"
  /\ Report(Error("not found", Top.name))
  /\ Return(NoName)
  /\ UNCHANGED << world, status, stack, reads >>

LoadBuiltin ==
  /\ Locates /\ world.kind[Top.name] = "native"
  /\ status' = [status EXCEPT ![Top.name] = "native"]
  /\ Return(Top.name)
  /\ UNCHANGED << world, stack, errs, reads >>

\* loadSpec registers the module before it reads the file.
ReadFails ==
  /\ Locates /\ world.kind[Top.name] = "unreadable"
  /\ status' = [status EXCEPT ![Top.name] = "dead"]
  /\ reads' = Append(reads, Top.name)
  /\ Report(Error("not found", Top.name))
  /\ Return(NoName)
  /\ UNCHANGED << world, stack >>

ReadSource ==
  /\ Locates /\ world.kind[Top.name] \in {"module", "package"}
  /\ status' = [status EXCEPT ![Top.name] = "loading"]
  /\ stack' = Append(stack, Top.name)
  /\ reads' = Append(reads, Top.name)
  /\ calls' = Step(LoadFrame(Top.name, "scan", Len(stack) + 1))
  /\ UNCHANGED << world, ret, errs >>

StmtsButLast ==
  SubSeq(world.body[Top.name], 1, Len(world.body[Top.name]) - 1)

Stmts == world.body[Top.name]

Scans(op) == Loads("scan") /\ Top.i <= Len(Stmts) /\ Stmts[Top.i].op = op

Base == RelativeBase(Top.name, IsPackage(Top.name), Stmts[Top.i])

SameStmt == Top

NextStmt == [Top EXCEPT !.i = @ + 1]

ScanImport ==
  /\ Scans("import")
  /\ Call(NextStmt, Stmts[Top.i].module)
  /\ UNCHANGED << world, status, stack, ret, errs, reads >>

\* An import of the module itself is left alone.
ScanFrom ==
  /\ Scans("from")
  /\ IF Base \in {NoName, Top.name}
     THEN calls' = Step(NextStmt)
     ELSE Call(NextStmt, Base)
  /\ IF Base = NoName
     THEN Report(Error("no parent", Top.name))
     ELSE UNCHANGED errs
  /\ UNCHANGED << world, status, stack, ret, reads >>

\* Imports under an if are not scanned.
ScanOther ==
  /\ Scans("if")
  /\ calls' = Step(NextStmt)
  /\ UNCHANGED << world, status, stack, ret, errs, reads >>

Loaded(name) == [status EXCEPT ![name] = "ready"]

NothingPopped == stack

Popped == SubSeq(stack, 1, Len(stack) - 1)

ScanDone ==
  /\ Loads("scan") /\ Top.i > Len(Stmts)
  /\ IF Top.name = Main
     THEN UNCHANGED << status, stack >>
     ELSE /\ status' = Loaded(Top.name)
          /\ stack' = Popped
  /\ Return(Top.name)
  /\ UNCHANGED << world, errs, reads >>

LoaderNext ==
  \/ Known
  \/ AskParent
  \/ ParentFails
  \/ NotFound
  \/ LoadBuiltin
  \/ ReadFails
  \/ ReadSource
  \/ ScanImport
  \/ ScanFrom
  \/ ScanOther
  \/ ScanDone

Spec == Init /\ [][LoaderNext]_loaderVars

FairSpec == Spec /\ WF_loaderVars(LoaderNext)

-------------------------------------------------------------------------------
(* Properties *)

LoadingNames == {n \in Names : status[n] = "loading"}

\* The loading flags and the stack say the same, and no module is loading
\* twice: what the circular-import test and cycle() both rest on.
StackIsLoading ==
  /\ {stack[i] : i \in DOMAIN stack} = LoadingNames
  /\ \A i, j \in DOMAIN stack : stack[i] = stack[j] => i = j

(***************************************************************************)
(* What the modules of a world need, as Python imports them: the module a  *)
(* statement names and the packages it is in, apart from the entry, which  *)
(* is running, and from the packages of the module itself, which are there *)
(* already.                                                                *)
(***************************************************************************)
Sources == {n \in Names : world.kind[n] \in {"module", "package"}} \cup {Main}

ImportsOf(m) == {i \in DOMAIN world.body[m] : world.body[m][i].op # "if"}

Target(m, i) == PythonBase(m, IsPackage(m), world.body[m][i])

Targets(m) == {Target(m, i) : i \in ImportsOf(m)} \ {NoName}

ImportsItself(m) == \E i \in ImportsOf(m) : world.body[m][i] = Import(m)

Needs(m) ==
  IF m \notin Sources THEN {}
  ELSE ((UNION {{t} \cup (Prefixes(t) \ Prefixes(m)) : t \in Targets(m) \ {m}})
        \cup {n \in {m} : ImportsItself(m)})
       \ {Main}

Ended == calls = << >>

\* No module in no package imports a name relative to itself: relativeBase
\* resolves it as if it were absolute, where Python refuses it.
AnchoredImports ==
  \A w \in Worlds : \A m \in Names : \A i \in DOMAIN w.body[m] :
    LET stmt == w.body[m][i]
    IN  stmt.op = "from" /\ stmt.level = 1 /\ stmt.module # NoName
          => m = Main \/ w.kind[m] = "package" \/ Len(m) > 1

\* No package imports a module of its own by name: loadModule finds the package
\* loading and reports a circle, where Python goes on with what is there of it.
NoOwnImports ==
  \A w \in Worlds : \A m \in Names : \A i \in DOMAIN w.body[m] :
    LET stmt == w.body[m][i]
        t    == PythonBase(m, w.kind[m] = "package", stmt)
    IN  stmt.op # "if" /\ m \in Prefixes(t) => t = m

\* No module of a circular set can be run before the others of it.
Circular(S) == S # {} /\ \A n \in S : Needs(n) \cap S # {}

\* A program is rejected as circular only if some of its modules need one
\* another in a circle, and no such circle goes unreported, wherever the scan
\* enters it (loadModule).
CyclesAreReported ==
  /\ (\E e \in DOMAIN errs : errs[e].code = "circular")
       => \E S \in SUBSET Names : Circular(S)
  /\ Ended /\ errs = << >> =>
    \A S \in SUBSET {n \in Names : status[n] # "absent"} : ~ Circular(S)

\* A relative import loads what Python resolves it to, or nothing, and without
\* import errors exactly the modules the entry needs, directly or not, are loaded,
\* and all of them have been read (relativeBase, scan, loadModule).
LoadsWhatIsNeeded ==
  /\ Scans("from") => Base = PythonBase(Top.name, IsPackage(Top.name), Stmts[Top.i])
  /\ Ended /\ errs = << >> =>
       LET loaded == {n \in Names : status[n] # "absent"}
       IN  /\ \A n \in loaded : status[n] \in {"ready", "native"} /\ Needs(n) \subseteq loaded
           /\ \A S \in SUBSET loaded :
                Main \in S /\ (\A n \in S : Needs(n) \subseteq S) => S = loaded

\* Loading ends, circular imports included.
LoadingEnds == <>Ended
==============================================================================
