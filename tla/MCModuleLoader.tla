--------------------------- MODULE MCModuleLoader ----------------------------
(***************************************************************************)
(* Programs for ModuleLoader: every graph of imports over three plain      *)
(* modules, and packages, natives and missing or unreadable files in the   *)
(* layouts where they matter.                                              *)
(***************************************************************************)
EXTENDS ModuleLoader, TLC

Plain == {<< "a" >>, << "b" >>, << "c" >>}

\* At most two imports, of different modules.
Imports ==
  {<< >>} \cup {<< Import(x) >> : x \in Plain}
          \cup {<< Import(x), From(0, y, << "x" >>) >> : x, y \in Plain}

InPackage == {<< "p" >>, << "p", "q" >>, << "r" >>, << "p", "r" >>}

MCNames == {Main} \cup Plain \cup InPackage

World(kind, body) ==
  [kind |-> kind @@ [n \in MCNames |-> "none"],
   body |-> body @@ [n \in MCNames |-> << >>]]

Graphs ==
  {World([n \in Plain \cup {Main} |-> "module"],
         Main :> << Import(<< "a" >>) >> @@ body) : body \in [Plain -> Imports]}

-------------------------------------------------------------------------------
P == << "p" >>
Q == << "p", "q" >>
R == << "r" >>
PR == << "p", "r" >>

\* r is at the top level and never in the package.
Layout(p, q, r, body) ==
  World(Main :> "module" @@ P :> p @@ Q :> q @@ R :> r, body)

Bodies ==
  {Main :> << m >> @@ P :> p @@ Q :> q @@ R :> r :
     m \in {Import(P), Import(Q), From(0, P, << "q" >>), From(1, R, << "x" >>)},
     p \in {<< >>, << From(1, << >>, << "q" >>) >>, << From(2, R, << "x" >>) >>,
            << Import(R) >>},
     q \in {<< >>, << From(1, << >>, << "x" >>) >>, << From(1, R, << "x" >>) >>,
            << Import(R), IfElse(<< Import(Q) >>, << >>) >>},
     r \in {<< >>, << Import(Q) >>, << From(0, P, << "q" >>) >>, << Import(R) >>,
            << Import(Main) >>}}

Layouts ==
  {Layout(p, q, r, body) :
     p \in {"package", "module", "native"}, q \in {"module", "none", "unreadable"},
     r \in {"module", "unreadable", "native"}, body \in Bodies}

MCWorlds == Graphs \cup Layouts

\* The theorems about the loader's results are about worlds like these.
ASSUME ResultsAssumption == AnchoredImports /\ NoOwnImports

-------------------------------------------------------------------------------
\* A package whose body imports from a module of its own.
OwnModules ==
  {Layout("package", "module", "module",
          Main :> << Import(P) >> @@ P :> << p >>) :
     p \in {Import(Q), From(1, << "q" >>, << "x" >>)}}

\* A relative import in a module that is in no package.
NoPackage ==
  {Layout("package", "module", "module",
          Main :> << Import(R) >> @@ R :> << From(1, P, << "x" >>) >>)}
==============================================================================
