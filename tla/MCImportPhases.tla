--------------------------- MODULE MCImportPhases ----------------------------
(***************************************************************************)
(* Programs for ImportPhases: imports among plain modules, some of them    *)
(* under an if, and packages whose modules are imported from them.         *)
(***************************************************************************)
EXTENDS ImportPhases, TLC

A == << "a" >>
B == << "b" >>
C == << "c" >>
P == << "p" >>
Q == << "p", "q" >>
S == << "p", "s" >>
R == << "p", "q", "r" >>

MCNames == {Main, A, B, C, P, Q, S, R}
MCAttributes == {"x"}

World(kinds, bodies) ==
  [kind |-> kinds @@ [n \in MCNames |-> "none"],
   body |-> bodies @@ [n \in MCNames |-> << >>]]

X(name) == From(0, name, << "x" >>)

Source(names) == [n \in names |-> "module"]

Plain ==
  {World(C :> c @@ Source({A, B}), Main :> m @@ A :> a @@ B :> b) :
     c \in {"module", "none", "native"},
     m \in {<< Import(A) >>, << X(B), Import(A) >>, << X(C), Import(B), X(A) >>,
            << Import(C), IfElse(<< X(A), X(C) >>, << X(C) >>) >>},
     a \in {<< >>, << Import(B) >>, << X(C), X(B) >>,
            << X(C), IfElse(<< Import(B) >>, << Import(C) >>) >>},
     b \in {<< >>, << Import(C) >>, << Import(A) >>}}

Packages ==
  {World(P :> "package" @@ Q :> q @@ Source({S, A}),
         Main :> m @@ P :> p @@ Q :> body @@ A :> a) :
     q \in {"module", "none", "unreadable"},
     m \in {<< From(0, P, << "q" >>) >>, << From(0, P, << "x", "s" >>), Import(Q) >>,
            << Import(P) >>, << Import(A), From(0, P, << "q", "s" >>) >>},
     p \in {<< >>, << From(1, << >>, << "q" >>) >>, << Import(A) >>,
            << From(1, << >>, << "x", "s" >>) >>},
     body \in {<< >>, << From(1, << >>, << "x" >>) >>, << Import(A) >>,
               << From(1, << "s" >>, << "x" >>) >>},
     a \in {<< >>, << From(0, P, << "q" >>) >>, << X(P) >>}}

MCWorlds == Plain \cup Packages

-------------------------------------------------------------------------------
\* A module of a package that nothing else imports.
OnlyTheModule == {World(P :> "package" @@ Source({Q}), Main :> << Import(Q) >>)}

\* The package q is loaded for its module, and its name found in p without checking it.
NestedPackage ==
  {World(P :> "package" @@ Q :> "package" @@ Source({R}),
         Main :> << Import(R), From(0, P, << "q" >>) >>)}

\* A module imported on both branches.
OnBothBranches ==
  {World(Source({A}), Main :> << IfElse(<< Import(A) >>, << Import(A) >>) >>)}

\* A file that is there and cannot be read.
Unreadable == {World(A :> "unreadable", Main :> << Import(A) >>)}
==============================================================================
