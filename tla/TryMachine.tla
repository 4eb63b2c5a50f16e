----------------------------- MODULE TryMachine ------------------------------
(***************************************************************************)
(* A body that passed the checker, lowered, and run on the VM: the code of *)
(* TryLowering, the regions flushTries declares, and every way the body's  *)
(* calls and conditions may come out. The VM is not part of the            *)
(* repository; its instructions are modelled from how the lowerer uses     *)
(* them: an exception goes to the first declared region that covers the    *)
(* instruction, and out of the function when none does.                    *)
(***************************************************************************)
EXTENDS TryLowering, FlowChecks

CONSTANTS Bodies,    \* the function bodies to run
          MaxTrace   \* bound on the events of one run

VARIABLES
  body,     \* the body being run, one the checker accepts
  unit,     \* what lowering made of it: the lowerer, and the declared regions
  pc,       \* the address of the next instruction
  errs,     \* the errSlots
  trace,    \* the events so far
  outcome   \* how the function ended: "running", "return", "fall" or "raise"

vars == << body, unit, pc, errs, trace, outcome >>

Accepted == {b \in Bodies : Accepts(b)}

Running == outcome.kind = "running"

Ended(kind, exc) == [kind |-> kind, exc |-> exc]

Ins == unit.low.code[pc]

Target(l) == unit.low.at[l]

Compile(b) ==
  LET low == Lower(b)
  IN  [low     |-> low,
       regions |-> IF low.failed = "no" THEN Regions(low) ELSE << >>]

Covers(region) == region.start <= pc /\ pc < region.end

-------------------------------------------------------------------------------
Init ==
  /\ body \in Accepted
  /\ unit = Compile(body)
  /\ pc = 1
  /\ errs = [slot \in 1 .. unit.low.slots + 1 |-> Ok]
  /\ trace = << >>
  /\ outcome = Ended(IF unit.low.failed = "no" THEN "running" ELSE "failed", Ok)

\* The exception is left where SetErr at the catch address finds it: errs[1]
\* stands for the operand stack, errSlot n for errs[n + 1].
Unwind(exc) ==
  LET covering == {i \in DOMAIN unit.regions : Covers(unit.regions[i])}
  IN  IF covering = {}
      THEN outcome' = Ended("raise", exc) /\ UNCHANGED << pc, errs >>
      ELSE LET first == CHOOSE i \in covering : \A j \in covering : i <= j
           IN  /\ pc' = unit.regions[first].catch
               /\ errs' = [errs EXCEPT ![1] = exc]
               /\ UNCHANGED outcome

\* A call, or the evaluation a statement begins with, returns or raises. The
\* second bound on the trace stops a run that goes in circles; no other run
\* meets it (RunsEnd).
Evaluate ==
  /\ Running /\ Ins.op = "eval"
  /\ Len(trace) < 3 * MaxTrace
  /\ \/ trace' = Append(trace, Event(Ins.e, Ok)) /\ pc' = pc + 1
        /\ UNCHANGED << errs, outcome >>
     \/ \E exc \in Ins.raises :
          trace' = Append(trace, Event(Ins.e, exc)) /\ Unwind(exc)
  /\ UNCHANGED << body, unit >>

\* A condition holds or does not; a loop that would outlast the trace leaves.
Decide ==
  /\ Running /\ Ins.op = "brif"
  /\ \E r \in (IF Len(trace) < MaxTrace THEN {Yes, No} ELSE {No}) :
       /\ trace' = Append(trace, Event(Ins.e, r))
       /\ pc' = IF r = Ins.when THEN Target(Ins.to) ELSE pc + 1
  /\ UNCHANGED << body, unit, errs, outcome >>

Branch ==
  /\ Running /\ Ins.op \in {"br", "nop"}
  /\ pc' = IF Ins.op = "br" THEN Target(Ins.to) ELSE pc + 1
  /\ UNCHANGED << body, unit, errs, trace, outcome >>

\* Entering a catch: the exception moves to the try's errSlot.
Catch ==
  /\ Running /\ Ins.op = "set"
  /\ errs' = [errs EXCEPT ![Ins.slot + 1] = errs[1]]
  /\ pc' = pc + 1
  /\ UNCHANGED << body, unit, trace, outcome >>

\* An except clause's class test.
TestHandler ==
  /\ Running /\ Ins.op = "test"
  /\ pc' = IF errs[Ins.slot + 1] = Ins.type THEN pc + 1 ELSE Target(Ins.to)
  /\ UNCHANGED << body, unit, errs, trace, outcome >>

ThrowIt ==
  /\ Running /\ Ins.op \in {"raise", "throw"}
  /\ Unwind(IF Ins.op = "raise" THEN Ins.exc ELSE errs[Ins.slot + 1])
  /\ UNCHANGED << body, unit, trace >>

ReturnIt ==
  /\ Running /\ Ins.op \in {"ret", "fall"}
  /\ outcome' = Ended(IF Ins.op = "ret" THEN "return" ELSE "fall", Ok)
  /\ UNCHANGED << body, unit, pc, errs, trace >>

Next ==
  \/ Evaluate
  \/ Decide
  \/ Branch
  \/ Catch
  \/ TestHandler
  \/ ThrowIt
  \/ ReturnIt

Spec == Init /\ [][Next]_vars /\ WF_vars(Next)

-------------------------------------------------------------------------------
(* Properties *)

Meant == Meaning(body, trace, 0, Ok)

\* The lowered body does what Python says the body does: every event it shows
\* is the next one of the body's meaning, finalizers included, and it ends the
\* way the body ends (emitTry, emitWith, inlineFinalizers, emitWhile).
RunsAsWritten ==
  outcome.kind # "failed" =>
    /\ Meant.kind # "wrong"
    /\ Meant.at = Len(trace)
    /\ outcome.kind = "return" => Meant.kind = "return"
    /\ outcome.kind = "fall"   => Meant.kind = "next"
    /\ outcome.kind = "raise"  => Meant.kind = "raise" /\ Meant.exc = outcome.exc

\* A body the checker accepts is one the lowerer can lower: it never indexes
\* an empty loops or excepts stack, and inlining finalizers comes to an end.
AcceptedBodiesLower == outcome.kind # "failed"

\* A name the checker lets the body read has been assigned by then, and not
\* deleted since (snapshotInits, restoreInits, mergeInits, deleteName), and a body
\* judged to return on every path never runs off its end (blockReturns).
ReadsAreInitialized ==
  /\ outcome.kind = "fall" => ~ BlockReturns(body)
  /\ \A i \in DOMAIN trace :
       trace[i].e[1] \in {"use", "del"} =>
         \E j \in 1 .. i - 1 :
           /\ trace[j].e = << "assign", trace[i].e[2] >>
           /\ \A m \in j + 1 .. i - 1 : trace[m].e # << "del", trace[i].e[2] >>

\* Every run ends: no branch and no region sends it in circles, such as an
\* exception from a handler back to the same handler (tryRegion).
RunsEnd == <>(outcome.kind # "running")
==============================================================================
