---------------------------- MODULE ImportPhases -----------------------------
(***************************************************************************)
(* One compilation of a program with imports: the loader scans from the    *)
(* entry, the checker walks the modules again, loading what the scan could *)
(* not see (names imported from packages, imports under if), and, when     *)
(* nothing was reported, the lowerer emits the bodies of imported modules  *)
(* at the imports that first need them, one after another in one frame.    *)
(* compilation.check and lower (compiler.go), checkModule, importStmt and  *)
(* importFromStmt (check.go, check_stmt.go), emitModule and                *)
(* emitImportChain (lower.go, lower_stmt.go).                              *)
(*                                                                         *)
(* A name imported from a module is one it defines (Attributes) or one of  *)
(* its submodules.                                                         *)
(***************************************************************************)
EXTENDS ModuleLoader

CONSTANT Attributes   \* the names every source module defines

VARIABLES
  phase,     \* "scan", "check", "emit", "done", "rejected" or "panic"
  checked,   \* checker.checked
  emitted,   \* lowerer.emitted
  code       \* what was emitted: where a body begins, and where one is used

vars == << loaderVars, phase, checked, emitted, code >>

\* Work left in a frame of the checker or the lowerer. path is the branches
\* the work is under, outermost first: << statement, branch >>.
Todo(op, stmt, path) == [op |-> op, stmt |-> stmt, path |-> path]

BodyTodo(name, body, path) ==
  [i \in DOMAIN body |->
     Todo(body[i].op, body[i], path)]

CheckFrame(name) ==
  [fn |-> "check", name |-> name,
   work |-> BodyTodo(name, world.body[name], << >>), at |-> Len(stack)]

EmitFrame(name, path) ==
  [fn |-> "emit", name |-> name,
   work |-> BodyTodo(name, world.body[name], path), at |-> Len(stack)]

Runs(fn) == calls # << >> /\ Top.fn = fn

Work == Top.work

First(op) == Work # << >> /\ Head(Work).op = op

Stmt == Head(Work).stmt

ThenAgain(work) ==
  [Top EXCEPT !.work = IF work = << >> THEN Work ELSE work \o Tail(Work)]

Then(work) == [Top EXCEPT !.work = work \o Tail(Work)]

BaseOf(stmt) == RelativeBase(Top.name, IsPackage(Top.name), stmt)

-------------------------------------------------------------------------------
(* The checker *)

\* checkModule of a module that has no syntax tree dereferences nil.
CheckModule(frame, name) ==
  IF name = NoName \/ name \in checked
  THEN calls' = Step(frame) /\ UNCHANGED << checked, phase >>
  ELSE IF status[name] = "dead"
  THEN calls' = << >> /\ phase' = "panic" /\ UNCHANGED checked
  ELSE /\ checked' = checked \cup {name}
       /\ calls' = IF status[name] = "native" THEN Step(frame)
                   ELSE Append(Step(frame), CheckFrame(name))
       /\ UNCHANGED phase

BeginCheck ==
  /\ phase = "scan" /\ calls = << >>
  /\ phase' = "check"
  /\ checked' = {Main}
  /\ calls' = << CheckFrame(Main) >>
  /\ UNCHANGED << world, status, stack, ret, errs, reads, emitted, code >>

\* importStmt: the module named is loaded and checked, its packages are not.
CheckImport ==
  /\ Runs("check") /\ First("import")
  /\ Call(Then(<< [Head(Work) EXCEPT !.op = "imported"] >>), Stmt.module)
  /\ UNCHANGED << world, status, stack, ret, errs, reads, phase, checked,
                  emitted, code >>

CheckImported ==
  /\ Runs("check") /\ First("imported")
  /\ CheckModule(Then(<< >>), ret)
  /\ UNCHANGED << world, status, stack, ret, errs, reads, emitted, code >>

CheckFrom ==
  /\ Runs("check") /\ First("from")
  /\ IF BaseOf(Stmt) = NoName
     THEN calls' = Step(Then(<< >>)) /\ Report(Error("no parent", Top.name))
     ELSE /\ Call(Then(<< [Head(Work) EXCEPT !.op = "base"] >>), BaseOf(Stmt))
          /\ UNCHANGED errs
  /\ UNCHANGED << world, status, stack, ret, reads, phase, checked, emitted, code >>

NamesOf(stmt) ==
  [i \in DOMAIN stmt.names |->
     [Head(Work) EXCEPT !.op = "name",
        !.stmt = [base |-> BaseOf(stmt), name |-> stmt.names[i]]]]

BaseUnchecked ==
  /\ Runs("check") /\ First("base")
  /\ calls' = Step(Then(IF ret = NoName THEN << >> ELSE NamesOf(Stmt)))
  /\ UNCHANGED << world, status, stack, ret, errs, reads, phase, checked,
                  emitted, code >>

CheckBase ==
  /\ Runs("check") /\ First("base")
  /\ CheckModule(Then(IF ret = NoName THEN << >> ELSE NamesOf(Stmt)), ret)
  /\ UNCHANGED << world, status, stack, ret, errs, reads, emitted, code >>

Sub(stmt) == Append(stmt.base, stmt.name)

Resolves(stmt) ==
  stmt.name \in Attributes \/ (Sub(stmt) \in Names /\ status[Sub(stmt)] # "absent")

\* resolveModuleAttr finds the name, or it may be a submodule. What its
\* loading reports is dropped when it fails.
CheckName ==
  /\ Runs("check") /\ First("name")
  /\ IF Resolves(Stmt)
     THEN calls' = Step(Then(<< >>))
     ELSE Call(Then(<< [Head(Work) EXCEPT !.op = "submodule",
                          !.stmt = [base |-> Stmt.base, name |-> Stmt.name,
                                    mark |-> Len(errs)]] >>), Sub(Stmt))
  /\ UNCHANGED << world, status, stack, ret, errs, reads, phase, checked,
                  emitted, code >>

ErrorDropped == SubSeq(errs, 1, Stmt.mark)

ErrorReplaced == Append(SubSeq(errs, 1, Stmt.mark), Error("no name", Sub(Stmt)))

CheckSubmodule ==
  /\ Runs("check") /\ First("submodule")
  /\ errs' = IF ret = NoName THEN ErrorReplaced ELSE errs
  /\ CheckModule(Then(<< >>), ret)
  /\ UNCHANGED << world, status, stack, ret, reads, emitted, code >>

\* ifStmt checks both branches.
CheckIf ==
  /\ Runs("check") /\ First("if")
  /\ calls' = Step(Then(BodyTodo(Top.name, Stmt.body, << >>)
                          \o BodyTodo(Top.name, Stmt.orelse, << >>)))
  /\ UNCHANGED << world, status, stack, ret, errs, reads, phase, checked,
                  emitted, code >>

CheckDone ==
  /\ Runs("check") /\ Work = << >>
  /\ Return(Top.name)
  /\ UNCHANGED << world, status, stack, errs, reads, phase, checked, emitted, code >>

-------------------------------------------------------------------------------
(* The lowerer *)

Mark(op, name, path) == [op |-> op, name |-> name, path |-> path]

Lower ==
  /\ phase = "check" /\ calls = << >>
  /\ IF errs # << >>
     THEN phase' = "rejected" /\ UNCHANGED << calls, emitted, code >>
     ELSE /\ phase' = "emit"
          /\ emitted' = {Main}
          /\ code' = << Mark("body", Main, << >>) >>
          /\ calls' = << EmitFrame(Main, << >>) >>
  /\ UNCHANGED << world, status, stack, ret, errs, reads, checked >>

\* emitImportChain: the module's packages, outermost first, and the module.
Chain(name) == [n \in 1 .. Len(name) |-> Prefix(name, n)]

\* The submodules among the names of a from-import.
NoSubmodules(base, names) == << >>

Submodules(base, names) ==
  SelectSeq([i \in DOMAIN names |-> Append(base, names[i])],
            LAMBDA sub : sub \in Names /\ status[sub] # "absent")

\* The modules an import statement emits, in order.
EmitsNamesOnly(stmt) ==
  IF stmt.op = "import" THEN Chain(stmt.module)
  ELSE Submodules(BaseOf(stmt), stmt.names)

Emits(stmt) ==
  IF stmt.op = "import" THEN Chain(stmt.module)
  ELSE Chain(BaseOf(stmt)) \o Submodules(BaseOf(stmt), stmt.names)

\* One entry for each module, then one that uses the module.
EmitImport ==
  /\ Runs("emit") /\ (First("import") \/ First("from"))
  /\ LET modules == Emits(Stmt)
         path    == Head(Work).path
         used    == IF Stmt.op = "import" THEN Stmt.module ELSE BaseOf(Stmt)
     IN  calls' = Step(Then([i \in DOMAIN modules |-> Todo("module", modules[i], path)]
                              \o << Todo("use", used, path) >>))
  /\ UNCHANGED << world, status, stack, ret, errs, reads, phase, checked,
                  emitted, code >>

\* emitModule: the body is emitted where it is first imported.
EmitModule ==
  /\ Runs("emit") /\ First("module")
  /\ IF Stmt \in emitted \/ status[Stmt] = "native"
     THEN calls' = Step(Then(<< >>)) /\ UNCHANGED << emitted, code >>
     ELSE /\ emitted' = emitted \cup {Stmt}
          /\ code' = Append(code, Mark("body", Stmt, Head(Work).path))
          /\ calls' = Append(Step(Then(<< >>)), EmitFrame(Stmt, Head(Work).path))
  /\ UNCHANGED << world, status, stack, ret, errs, reads, phase, checked >>

EmitUse ==
  /\ Runs("emit") /\ First("use")
  /\ code' = Append(code, Mark("use", Stmt, Head(Work).path))
  /\ calls' = Step(Then(<< >>))
  /\ UNCHANGED << world, status, stack, ret, errs, reads, phase, checked, emitted >>

\* emitIf: the work of a branch is under that branch of this statement.
EmitIf ==
  /\ Runs("emit") /\ First("if")
  /\ LET path == Head(Work).path
         at   == << Top.name, Len(Work) >>
     IN  calls' = Step(Then(BodyTodo(Top.name, Stmt.body, Append(path, << at, "body" >>))
                      \o BodyTodo(Top.name, Stmt.orelse, Append(path, << at, "orelse" >>))))
  /\ UNCHANGED << world, status, stack, ret, errs, reads, phase, checked,
                  emitted, code >>

EmitDone ==
  /\ Runs("emit") /\ Work = << >>
  /\ Return(Top.name)
  /\ phase' = IF Top.name = Main THEN "done" ELSE phase
  /\ UNCHANGED << world, status, stack, errs, reads, checked, emitted, code >>

-------------------------------------------------------------------------------
CompileInit ==
  /\ Init
  /\ phase = "scan"
  /\ checked = {}
  /\ emitted = {}
  /\ code = << >>

Load == LoaderNext /\ UNCHANGED << phase, checked, emitted, code >>

Next ==
  \/ Load
  \/ BeginCheck
  \/ CheckImport
  \/ CheckImported
  \/ CheckFrom
  \/ CheckBase
  \/ CheckName
  \/ CheckSubmodule
  \/ CheckIf
  \/ CheckDone
  \/ Lower
  \/ EmitImport
  \/ EmitModule
  \/ EmitUse
  \/ EmitIf
  \/ EmitDone

CompileSpec == CompileInit /\ [][Next]_vars /\ WF_vars(Next)

-------------------------------------------------------------------------------
(* Properties *)

BodyMarks == {i \in DOMAIN code : code[i].op = "body"}

IsPrefixOf(p, q) == Len(p) <= Len(q) /\ SubSeq(q, 1, Len(p)) = p

\* No body is lowered without having been checked: the lowerer finds its
\* types and bindings (checkModule, emitModule).
EmittedAreChecked == phase = "done" => emitted \subseteq checked

\* Whatever branches a run takes, the body of a module has run when an import
\* of it has (emitImportChain, emitModule).
BodiesBeforeUses ==
  \A i \in DOMAIN code :
    code[i].op = "use" /\ status[code[i].name] # "native" =>
      \E j \in BodyMarks :
        j < i /\ code[j].name = code[i].name /\ IsPrefixOf(code[j].path, code[i].path)

\* Bodies are emitted in the order Python would run them, were every branch
\* taken: each package before its modules, each when an importer reaches it
\* first (emitModule, emitImportChain, importFromStmt).
RECURSIVE Started(_, _), StartedFrom(_, _, _)

Wanted(m, stmt) ==
  LET base == PythonBase(m, IsPackage(m), stmt)
      subs == SelectSeq(stmt.names, LAMBDA x : x \notin Attributes)
  IN  Chain(base) \o [i \in DOMAIN subs |-> Append(base, subs[i])]

\* done, with the modules that starting those of todo adds to it.
Started(done, todo) ==
  IF todo = << >> THEN done
  ELSE LET m    == Head(todo)
           here == IF (\E i \in DOMAIN done : done[i] = m) \/ status[m] = "native"
                   THEN done
                   ELSE StartedFrom(Append(done, m), m, world.body[m])
       IN  Started(here, Tail(todo))

StartedFrom(done, m, body) ==
  IF body = << >> THEN done
  ELSE IF Head(body).op = "if"
       THEN StartedFrom(done, m, Head(body).body \o Head(body).orelse \o Tail(body))
       ELSE StartedFrom(Started(done, Wanted(m, Head(body))), m, Tail(body))

ImportsRunInOrder ==
  phase = "done" =>
    LET bodies == SelectSeq(code, LAMBDA mark : mark.op = "body")
    IN  [i \in DOMAIN bodies |-> bodies[i].name] = Started(<< >>, << Main >>)

Statements(m) ==
  LET top == {world.body[m][i] : i \in DOMAIN world.body[m]}
  IN  {s \in top : s.op # "if"}
      \cup UNION {{s.body[i] : i \in DOMAIN s.body}
                   \cup {s.orelse[i] : i \in DOMAIN s.orelse} :
                    s \in {t \in top : t.op = "if"}}

\* In a program the checker accepts every import of a checked module names
\* modules that were loaded and checked, those the scan did not see and those
\* whose errors were dropped included (importStmt, importFromStmt).
AcceptedImportsLoad ==
  phase \in {"emit", "done"} =>
    \A m \in checked \cap Sources : \A s \in Statements(m) :
      LET base == IF s.op = "import" THEN s.module
                  ELSE RelativeBase(m, IsPackage(m), s)
      IN  /\ base \in checked
          /\ \A i \in DOMAIN s.names :
               s.names[i] \notin Attributes => Append(base, s.names[i]) \in checked

\* No program makes the compiler dereference a syntax tree that is not there.
NeverPanics == phase # "panic"

CompilationEnds == <>(phase \in {"done", "rejected", "panic"})
==============================================================================
