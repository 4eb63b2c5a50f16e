---------------------------- MODULE MCTryMachine -----------------------------
(***************************************************************************)
(* Bodies for TryMachine. Labels are made from the position of a statement *)
(* so that no two events of a body are alike.                              *)
(***************************************************************************)
EXTENDS TryMachine

When(x, exit) == << Call(x), If(x, << exit >>, << >>) >>

Leaves == {Return, Break, Continue}

\* try statements with a finalizer that, like their handlers and else, does
\* not raise; the body raises, falls through or leaves the loop.
Guarded(x, exits) ==
  {Try(b, hs, o, << Quiet(x \o "f") >>) :
     b \in {When(x \o "b", e) : e \in exits \cup {Raise("A")}},
     hs \in {<< >>}
            \cup {<< Handler("A", << h >>), Handler(Any, << Quiet(x \o "g") >>) >> :
                    h \in exits \cup {Quiet(x \o "h")}},
     o \in {<< >>} \cup {<< e >> : e \in exits}}

\* try statements without a finalizer: handlers and else may raise.
Caught(x, exits) ==
  {Try(b, << Handler("A", << Call(x \o "h"), h >>) >>, o, << >>) :
     b \in {When(x \o "b", e) : e \in exits \cup {Raise("B")}},
     h \in exits \cup {Reraise},
     o \in {<< >>, << Call(x \o "o") >>}}

\* A finalizer that raises, where no exit has it inlined in its own region.
Failing(x) ==
  {Try(b, << >>, << >>, << Call(x \o "f") >>) : b \in {<< Call(x \o "b") >>}}

InLoop(s) ==
  << While("w", << Quiet("p"), s, Quiet("q") >>, << Quiet("e") >>), Quiet("z") >>

InTry(s) ==
  << Try(<< s, Call("q") >>, << Handler("A", << Quiet("h") >>) >>, << >>,
         << Quiet("f") >>) >>

InWith(s) == << With("m", << s, Call("q") >>) >>

\* finally that returns or breaks, with nothing pending but exceptions.
Leaving(x, exits) ==
  {Try(<< Call(x \o "b") >>, << >>, << >>, << Quiet(x \o "f"), e >>) : e \in exits}

\* Bodies lowered as written.
AsWritten ==
  {InLoop(s) : s \in Guarded("t", Leaves) \cup Caught("t", Leaves)
                          \cup Leaving("t", Leaves)}
  \cup {InTry(s) : s \in Guarded("t", {Return}) \cup Caught("t", {Return})
                         \cup Failing("t") \cup Leaving("t", {Return})}
  \cup {InWith(s) : s \in Guarded("t", {Return}) \cup Caught("t", {Return})
                          \cup Failing("t") \cup Leaving("t", {Return})}
  \cup {InLoop(Match(<< Case("1", << Call("a"), a >>), Case("2", << b >>) >>)) :
           a, b \in Leaves}
  \cup {InLoop(While("i", << Quiet("b"), If("c", << a >>, << b >>) >>, << Quiet("n") >>)) :
           a, b \in Leaves}

-------------------------------------------------------------------------------
\* Bodies about flow: what is assigned, and whether the end is reached.
Part == {<< >>, << Assign("x") >>, << Return >>, << Call("c") >>, << Raise("A") >>}

Silent == {<< >>, << Assign("x") >>, << Return >>}

\* A finalizer that raises or returns stands only where nothing inlines it.
Branching ==
  {If("i", p, q) : p \in Part \cup {<< Delete("x") >>}, q \in Part}
  \cup {Match(<< Case("1", p), [Case("2", q) EXCEPT !.e = e] >>) :
           p, q \in Part, e \in {<< "test", "2" >>, Irrefutable}}
  \cup {Try(<< Call("b") >> \o p, << Handler("A", q) >>, << >>, << >>) :
           p, q \in Part}
  \cup {Try(<< Call("b") >> \o p, << Handler("A", q) >>, << >>, << Assign("y") >>) :
           p \in Part, q \in Silent}
  \cup {Try(<< Call("b") >> \o p, << Handler("A", q) >>, << >>, r) :
           p, q \in {<< >>, << Assign("x") >>}, r \in Part}
  \cup {With("m", p) : p \in Part}

FlowBodies ==
  {<< s >> : s \in Branching}
  \cup {<< Assign("x"), s, Use("x") >> : s \in Branching}
  \cup {<< s, Use("x"), Return >> : s \in Branching}
  \cup {<< If("o", << s >>, << Return >>) >> : s \in Branching}

MCBodies == AsWritten \cup FlowBodies

-------------------------------------------------------------------------------
\* Bodies that are not run as written, one set for each reason.
LeavesInnerLoop ==
  {InTry(While("w", << Quiet("p"), If("c", << e >>, << >>) >>, << >>)) :
     e \in {Break, Continue}}

RaisesAfterBody ==
  {<< Try(<< Quiet("b") >>, << Handler("A", << Quiet("g") >>) >>,
          << Call("o") >>, << Quiet("f") >>) >>,
   << Try(<< Call("b") >>, << Handler(Any, << Call("h") >>) >>,
          << >>, << Quiet("f") >>) >>}

RaisesInlined ==
  {<< Try(<< Quiet("b"), Return >>, << >>, << >>, << Call("f") >>) >>}

ReturnsInFinally ==
  {<< Try(<< Quiet("b"), Return >>, << >>, << >>, << Return >>) >>}

NestedFunctions ==
  {<< While("w", << Def(<< Break >>) >>, << >>) >>,
   << Try(<< Call("b") >>, << Handler(Any, << Def(<< Reraise >>) >>) >>,
          << >>, << >>) >>}

SwallowedInside ==
  {<< Try(<< Try(<< Call("b"), Return >>, << Handler("A", << >>) >>, << >>, << >>) >>,
          << Handler("B", << Return >>) >>, << >>, << >>) >>}

AssignedInLoop == {<< While("w", << Assign("x") >>, << >>), Use("x") >>}

AssignedInTry ==
  {<< Try(<< Call("b"), Assign("x") >>, << Handler(Any, << Use("x") >>) >>,
          << >>, << >>) >>}

DeletedInBranch ==
  {<< Assign("x"), Match(<< Case("1", << Delete("x") >>) >>), Use("x") >>,
   << Assign("x"), Try(<< Delete("x") >>, << >>, << >>, << Quiet("f") >>),
      Use("x") >>}
==============================================================================
