----------------------------- MODULE ModuleNames -----------------------------
(***************************************************************************)
(* Dotted module names as sequences of their parts, the import statements  *)
(* of a module body (ast.Import, ast.ImportFrom, and If around them), and  *)
(* what a relative import resolves to (relativeBase, compiler/module.go).  *)
(***************************************************************************)
EXTENDS Integers, Sequences

Main == << "__main__" >>
NoName == << >>           \* "", the name of no module

Import(name) == [op |-> "import", level |-> 0, module |-> name, names |-> << >>]
From(level, name, names) ==
  [op |-> "from", level |-> level, module |-> name, names |-> names]
IfElse(body, orelse) == [op |-> "if", body |-> body, orelse |-> orelse]

Prefix(name, n) == SubSeq(name, 1, n)

\* The package a dotted name says it is in; NoName for a top-level name.
ParentName(name) == Prefix(name, Len(name) - 1)

Prefixes(name) == {Prefix(name, n) : n \in 1 .. Len(name)}

-------------------------------------------------------------------------------
(***************************************************************************)
(* relativeBase: the module a from-import in m loads, NoName when the      *)
(* import is illegal. strings.Split("", ".") is one empty part, so a       *)
(* top-level module, whose parent is "", is anchored at NoName and still   *)
(* has one part to go up from.                                             *)
(***************************************************************************)
Anchor(m, isPackage) == IF isPackage THEN m ELSE ParentName(m)

PartsOf(anchor) == IF anchor = NoName THEN 1 ELSE Len(anchor)

RelativeBase(m, isPackage, stmt) ==
  LET anchor == Anchor(m, isPackage)
      up     == stmt.level - 1
  IN  IF stmt.level = 0 THEN stmt.module
      ELSE IF m = Main \/ up > PartsOf(anchor) - 1 THEN NoName
      ELSE Prefix(anchor, Len(anchor) - up) \o stmt.module

(***************************************************************************)
(* What Python resolves it to: up from the package the module is in, which *)
(* a top-level module that is not a package does not have.                 *)
(***************************************************************************)
PackageOf(m, isPackage) ==
  IF m = Main THEN NoName ELSE IF isPackage THEN m ELSE ParentName(m)

PythonBase(m, isPackage, stmt) ==
  LET package == PackageOf(m, isPackage)
  IN  IF stmt.level = 0 THEN stmt.module
      ELSE IF Len(package) < stmt.level THEN NoName
      ELSE Prefix(package, Len(package) - (stmt.level - 1)) \o stmt.module
==============================================================================
