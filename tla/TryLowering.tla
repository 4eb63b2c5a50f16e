----------------------------- MODULE TryLowering -----------------------------
(***************************************************************************)
(* Lowering of the compound statements (compiler/lower_stmt.go): a body    *)
(* becomes straight code with labels, branches and protected regions.      *)
(* break, continue and return leave the statements around them by emitting *)
(* the pending finalizers inline, once more at every exit; an exception    *)
(* leaves them through the region that covers the instruction.             *)
(*                                                                         *)
(* c is the lowerer of one function body. A label is its index in c.at,    *)
(* which holds the address it is bound to.                                 *)
(***************************************************************************)
EXTENDS PyStmts

NewLowerer ==
  [code    |-> << >>,
   at      |-> << >>,    \* labels: address bound, 0 while unbound
   loops   |-> << >>,    \* loopLabels of the enclosing loops
   finally |-> << >>,    \* finalizer bodies of the enclosing statements
   excepts |-> << >>,    \* errSlots of the enclosing handlers
   tries   |-> << >>,    \* regions in recording order
   slots   |-> 0,
   inlining |-> FALSE,   \* inside inlineFinalizers
   failed  |-> "no"]     \* "panic": an empty stack is indexed; "endless"

Here(c) == Len(c.code) + 1

Emit(c, ins) == [c EXCEPT !.code = Append(@, ins)]

\* label(): a new label; the labels made last are the highest.
Labels(c, n) == [c EXCEPT !.at = @ \o [i \in 1 .. n |-> 0]]

Bind(c, l) == [c EXCEPT !.at[l] = Here(c)]

Eval(c, e, raises) == Emit(c, [op |-> "eval", e |-> e, raises |-> raises])
Br(c, l) == Emit(c, [op |-> "br", to |-> l])
BrWhen(c, e, r, l) == Emit(c, [op |-> "brif", e |-> e, when |-> r, to |-> l])
SetErr(c, slot) == Emit(c, [op |-> "set", slot |-> slot])
Test(c, slot, type, l) ==
  Emit(c, [op |-> "test", slot |-> slot, type |-> type, to |-> l])
Throw(c, slot) == Emit(c, [op |-> "throw", slot |-> slot])

Push(c, body) ==
  IF body = << >> THEN c ELSE [c EXCEPT !.finally = Append(@, body)]

Kept(c, body) == c

Pop(c, body) ==
  IF body = << >> THEN c
  ELSE [c EXCEPT !.finally = SubSeq(@, 1, Len(@) - 1)]

\* The label made two after end is the statement's after.
RegionOfStatement(c, start, end, catch) ==
  [c EXCEPT !.tries = Append(@, [start |-> start, end |-> end + 2, catch |-> catch])]

TryRegion(c, start, end, catch) ==
  [c EXCEPT !.tries = Append(@, [start |-> start, end |-> end, catch |-> catch])]

RECURSIVE Block(_, _), Stmt(_, _), InlineFrom(_, _), Cases(_, _, _),
          Handlers(_, _, _, _, _)

\* block(): nothing more is emitted once lowering has failed.
Block(c, body) ==
  IF c.failed # "no" \/ body = << >> THEN c
  ELSE Block(Stmt(c, Head(body)), Tail(body))

InlineFrom(c, i) ==
  IF i = 0 THEN c ELSE InlineFrom(Block(c, c.finally[i]), i - 1)

\* inlineFinalizers(): every pending finalizer, innermost first, with the
\* finalizers still pending. One that meets break, continue or return itself
\* starts over from the innermost, and so without end.
InlineFinalizers(c) ==
  IF c.finally = << >> THEN c
  ELSE IF c.inlining THEN [c EXCEPT !.failed = "endless"]
  ELSE [InlineFrom([c EXCEPT !.inlining = TRUE], Len(c.finally))
          EXCEPT !.inlining = FALSE]

LeaveAtOnce(c, isBreak) ==
  IF c.loops = << >> THEN [c EXCEPT !.failed = "panic"]
  ELSE Br(c, IF isBreak THEN c.loops[Len(c.loops)].brk
             ELSE c.loops[Len(c.loops)].cont)

\* break and continue: the label is that of the innermost loop.
Leave(c, isBreak) ==
  LET d == InlineFinalizers(c)
  IN  IF d.failed # "no" THEN d
      ELSE IF d.loops = << >> THEN [d EXCEPT !.failed = "panic"]
      ELSE Br(d, IF isBreak THEN d.loops[Len(d.loops)].brk
                 ELSE d.loops[Len(d.loops)].cont)

ReturnStmt(c) == Emit(InlineFinalizers(c), [op |-> "ret"])

EmitRaise(c, s) ==
  IF s.op = "raise" THEN Emit(c, [op |-> "raise", exc |-> s.exc])
  ELSE IF c.excepts = << >> THEN [c EXCEPT !.failed = "panic"]
  ELSE Throw(c, c.excepts[Len(c.excepts)])

EmitIf(c, s) ==
  LET n  == Len(c.at)
      c1 == BrWhen(Labels(c, 2), s.e, No, n + 1)
      c2 == Br(Block(c1, s.body), n + 2)
  IN  Bind(Block(Bind(c2, n + 1), s.orelse), n + 2)

\* The body first, the test at the bottom; continue goes to the test.
EmitWhile(c, s) ==
  LET n     == Len(c.at)
      body  == n + 1
      test  == n + 2
      end   == n + 3
      c1    == Bind(Br(Labels(c, 3), test), body)
      c2    == Block([c1 EXCEPT !.loops = Append(@, [cont |-> test, brk |-> end])],
                     s.body)
      c3    == Bind([c2 EXCEPT !.loops = c.loops], test)
      c4    == BrWhen(c3, s.e, Yes, body)
  IN  Bind(Block(c4, s.orelse), end)

Cases(c, cases, end) ==
  IF cases = << >> THEN c
  ELSE LET next == Len(c.at) + 1
           arm  == Head(cases)
           c1   == Labels(c, 1)
           c2   == IF arm.e = Irrefutable THEN c1 ELSE BrWhen(c1, arm.e, No, next)
           c3   == Br(Block(c2, arm.body), end)
       IN  Cases(Bind(c3, next), Tail(cases), end)

EmitMatch(c, s) ==
  LET end == Len(c.at) + 1
  IN  Bind(Cases(Labels(c, 1), s.cases, end), end)

\* The chain of except clauses, each with its own copy of the finalizer.
Handlers(c, s, hs, errSlot, after) ==
  IF hs = << >> THEN c
  ELSE LET next == Len(c.at) + 1
           h    == Head(hs)
           c1   == Labels(c, 1)
           c2   == IF h.type = Any THEN c1 ELSE Test(c1, errSlot, h.type, next)
           c3   == Push(c2, s.final)
           c4   == Block([c3 EXCEPT !.excepts = Append(@, errSlot)], h.body)
           c5   == Pop([c4 EXCEPT !.excepts = c.excepts], s.final)
           c6   == Br(Block(c5, s.final), after)
       IN  Handlers(Bind(c6, next), s, Tail(hs), errSlot, after)

\* emitTry(): the region covers the body alone.
EmitTry(c, s) ==
  LET n     == Len(c.at)
      start == n + 1
      end   == n + 2
      catch == n + 3
      after == n + 4
      c1 == Push(Bind(Labels(c, 4), start), s.final)
      c2 == Emit(Block(c1, s.body), [op |-> "nop"])
      c3 == Pop(Block(Bind(c2, end), s.orelse), s.final)
      c4 == Br(Block(c3, s.final), after)
      errSlot == c4.slots + 1
      c5 == SetErr(Bind([c4 EXCEPT !.slots = errSlot], catch), errSlot)
      c6 == Handlers(c5, s, s.handlers, errSlot, after)
      c7 == Throw(Block(c6, s.final), errSlot)
  IN  TryRegion(Bind(c7, after), start, end, catch)

\* emitTryFinally(): a with statement's body and its __exit__ call.
EmitTryFinally(c, body, finalizer) ==
  LET n     == Len(c.at)
      start == n + 1
      end   == n + 2
      catch == n + 3
      after == n + 4
      c1 == Push(Bind(Labels(c, 4), start), finalizer)
      c2 == Emit(Pop(Block(c1, body), finalizer), [op |-> "nop"])
      c3 == Br(Block(Bind(c2, end), finalizer), after)
      errSlot == c3.slots + 1
      c4 == SetErr(Bind([c3 EXCEPT !.slots = errSlot], catch), errSlot)
      c5 == Throw(Block(c4, finalizer), errSlot)
  IN  TryRegion(Bind(c5, after), start, end, catch)

EmitWith(c, s) == EmitTryFinally(Eval(c, s.e, Exceptions), s.body, s.exit)

\* A nested function is lowered by a child with empty stacks; only its first
\* failure comes back.
FuncValue(c, body) == [c EXCEPT !.failed = Block(NewLowerer, body).failed]

Stmt(c, s) ==
  CASE s.op \in Simple  -> Eval(c, s.e, s.raises)
    [] s.op \in {"raise", "reraise"} -> EmitRaise(c, s)
    [] s.op = "break"   -> Leave(c, TRUE)
    [] s.op = "continue" -> Leave(c, FALSE)
    [] s.op = "return"  -> ReturnStmt(c)
    [] s.op = "def"     -> FuncValue(c, s.body)
    [] s.op = "if"      -> EmitIf(c, s)
    [] s.op = "while"   -> EmitWhile(c, s)
    [] s.op = "match"   -> EmitMatch(c, s)
    [] s.op = "try"     -> EmitTry(c, s)
    [] s.op = "with"    -> EmitWith(c, s)

\* A function's body ends in a return of its own (emitNoneReturn).
Lower(body) == Emit(Block(NewLowerer, body), [op |-> "fall"])

\* A region is declared with addresses; the end of one is the first it spares.
Regions(c) ==
  [i \in DOMAIN c.tries |->
     [start |-> c.at[c.tries[i].start], end |-> c.at[c.tries[i].end],
      catch |-> c.at[c.tries[i].catch]]]
==============================================================================
