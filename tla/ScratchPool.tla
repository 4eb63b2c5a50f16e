----------------------------- MODULE ScratchPool -----------------------------
(***************************************************************************)
(* The scratch-slot pool of the lowerer (compiler/lower.go): temporaries   *)
(* of the frame being lowered, released when the statement that reserved   *)
(* them ends, reused for the same kind, never reused in a frame holding a  *)
(* protected region; and the protected regions themselves, buffered while  *)
(* the body is lowered because their entry depth is the frame's final      *)
(* local count, declared by flushTries when the frame closes. The VM hands *)
(* an exception to the first declared region that covers the instruction,  *)
(* so the order in which nested statements record theirs matters.          *)
(*                                                                         *)
(* One record per lowerer: the entry frame, and one more for each function *)
(* or specialization body lowered inside it (child/adopt).                 *)
(***************************************************************************)
EXTENDS Naturals, Sequences, FiniteSets

CONSTANTS
  Kinds,      \* VM kinds of scratch slots (slotType)
  Units,      \* kinds of compilation unit (see AllUnits)
  Bases,      \* named locals a function frame may have (frameBase)
  MaxFrames,  \* bound on nested functions
  MaxNest,    \* bound on nested statements of one frame
  MaxSlots,   \* bound on the slots of one frame
  MaxTries,   \* bound on the try and with statements of one frame
  MaxCode     \* bound on the code up to which such a frame reserves slots

(***************************************************************************)
(* A program whose protected regions stand in the entry module's body; one *)
(* whose regions may come from an imported module's body, lowered into the *)
(* same entry frame; the sources of exec() and of eval().                  *)
(***************************************************************************)
AllUnits == {"program", "importing", "exec", "eval"}

ASSUME BoundsAssumption ==
  /\ Units \subseteq AllUnits
  /\ Bases \subseteq Nat
  /\ MaxFrames \in Nat /\ MaxNest \in Nat /\ MaxSlots \in Nat
  /\ MaxTries \in Nat /\ MaxCode \in Nat

VARIABLES
  unit,    \* the kind of unit being lowered
  frames,  \* the lowerers at work, the innermost last
  closed   \* the code and the declared regions of a frame that was closed just now

vars == << unit, frames, closed >>

(***************************************************************************)
(* guarded: the frame's code holds a protected region; protected: the      *)
(* lowerer's flag of that name. idx counts slots from 0, so slot idx is    *)
(* declared at scratch[idx + 1].                                           *)
(* trying: the try and with statements being lowered, the innermost last;  *)
(* emitTry keeps their labels while it lowers what is inside. The label of *)
(* the handler names the statement, end is 0 while its body is lowered.    *)
(* Two parts are history. peak: the most slots of each kind held at once.  *)
(* code: of a guarded frame, the locals each instruction uses and the      *)
(* handler of the innermost statement whose body it was emitted in.        *)
(***************************************************************************)
NewFrame(guarded, protected, base) ==
  [guarded   |-> guarded,
   protected |-> protected,
   base      |-> base,
   scratch   |-> << >>,
   free      |-> [k \in Kinds |-> {}],
   live      |-> << >>,
   open      |-> << >>,
   trying    |-> << >>,
   labels    |-> 0,
   tries     |-> << >>,
   code      |-> << >>,
   peak      |-> [k \in Kinds |-> 0]]

Top == frames[Len(frames)]

WithTop(frame) == [frames EXCEPT ![Len(frames)] = frame]

Slots(f) == 0 .. Len(f.scratch) - 1

KindOf(f, idx) == f.scratch[idx + 1]

Held(f) == {f.live[i] : i \in DOMAIN f.live}

HeldOf(f, k) == {idx \in Held(f) : KindOf(f, idx) = k}

FrameDepth(f) == f.base + Len(f.scratch)

NeverProtected(guarded) == FALSE

\* lower() sets the flag from the entry module's body alone, whatever the
\* bodies emitModule adds to the frame; compileCode never sets it.
EntryProtected(guarded) == unit = "program" /\ guarded

\* Statements open a scope; eval lowers one expression outside any statement.
InStatement(f) ==
  \/ f.protected
  \/ f.open # << >>
  \/ unit = "eval" /\ Len(frames) = 1

NothingClosed == [code |-> << >>, declared |-> << >>, locals |-> 0]

Here(f) == Len(f.code) + 1

NoHandler == 0

\* What the source says of the code emitted now: the handler of the innermost
\* statement whose body is still being lowered.
HandlerHere(f) ==
  LET bodies == {n \in DOMAIN f.trying : f.trying[n].end = 0}
  IN  IF bodies = {} THEN NoHandler
      ELSE f.trying[CHOOSE n \in bodies : \A m \in bodies : m <= n].catch

Emit(f, uses) ==
  [f EXCEPT !.code = Append(@, [uses |-> uses, handler |-> HandlerHere(f)])]

\* The instruction that a slot is reserved for.
EmitUse(f, idx) == IF f.guarded THEN Emit(f, {f.base + idx}) ELSE f

-------------------------------------------------------------------------------
Init ==
  /\ unit \in Units
  /\ \E guarded \in (IF unit = "eval" THEN {FALSE} ELSE BOOLEAN) :
       frames = << NewFrame(guarded, EntryProtected(guarded), 0) >>
  /\ closed = NothingClosed

MarkAtStart(f) == 0

Mark(f) == Len(f.live)

\* stmt() of a frame that pools: the scope of one statement.
EnterScratch ==
  /\ frames # << >>
  /\ ~ Top.protected
  /\ ~ (unit = "eval" /\ Len(frames) = 1)
  /\ Len(Top.open) < MaxNest
  /\ frames' = WithTop([Top EXCEPT !.open = Append(@, Mark(Top))])
  /\ closed' = NothingClosed /\ UNCHANGED unit

Released(f) ==
  {f.live[i] : i \in (f.open[Len(f.open)] + 1) .. Len(f.live)}

\* Nothing is left open of a try statement in the innermost scope.
TriesAround(f) == \A n \in DOMAIN f.trying : f.trying[n].scope < Len(f.open)

\* The deferred leaveScratch: everything reserved since the mark goes back.
LeaveScratch ==
  /\ frames # << >>
  /\ Top.open # << >>
  /\ TriesAround(Top)
  /\ frames' = WithTop(
       [Top EXCEPT
          !.open = SubSeq(@, 1, Len(@) - 1),
          !.free = [k \in Kinds |->
                      @[k] \cup {idx \in Released(Top) : KindOf(Top, idx) = k}],
          !.live = SubSeq(@, 1, Top.open[Len(Top.open)])])
  /\ closed' = NothingClosed /\ UNCHANGED unit

Peak(f, k) ==
  LET held == Cardinality(HeldOf(f, k))
  IN  [f.peak EXCEPT ![k] = IF held > @ THEN held ELSE @]

WithPeak(f, k) == [f EXCEPT !.peak = Peak(f, k)]

ReuseKeepingFree(f, k, idx) == [f EXCEPT !.live = Append(@, idx)]

\* reuse(): a released slot of the same kind. The code takes the one released
\* last; any of them serves, and the model lets it be any.
Reuse(f, k, idx) ==
  [f EXCEPT !.free[k] = @ \ {idx}, !.live = Append(@, idx)]

Grow(f, k) ==
  [f EXCEPT !.scratch = Append(@, k), !.live = Append(@, Len(f.scratch))]

\* tmp(): a released slot when there is one, a new one otherwise.
Tmp(k) ==
  /\ frames # << >>
  /\ InStatement(Top)
  /\ Len(Top.code) < MaxCode
  /\ \/ \E idx \in Top.free[k] :
          frames' = WithTop(EmitUse(WithPeak(Reuse(Top, k, idx), k), idx))
     \/ /\ Top.free[k] = {}
        /\ Len(Top.scratch) < MaxSlots
        /\ frames' = WithTop(EmitUse(WithPeak(Grow(Top, k), k), Len(Top.scratch)))
  /\ closed' = NothingClosed /\ UNCHANGED unit

Innermost(f) == f.trying[Len(f.trying)]

\* A try or a with statement begins, in a scope of its own where there are any.
BeginTry(f) ==
  [f EXCEPT !.labels = @ + 1,
            !.trying = Append(@, [start |-> Here(f), end |-> 0,
                                  catch |-> f.labels + 1, scope |-> Len(f.open)])]

EnterTry ==
  /\ frames # << >>
  /\ Top.guarded
  /\ Top.protected \/ (Top.open # << >> /\ TriesAround(Top))
  /\ Top.labels < MaxTries
  /\ frames' = WithTop(BeginTry(Top))
  /\ closed' = NothingClosed /\ UNCHANGED unit

\* Its body is lowered: a NOP, so that the region is not empty, and the end label.
EndBody(f) ==
  LET g == Emit(f, {})
  IN  [g EXCEPT !.trying[Len(g.trying)].end = Here(g)]

LeaveBody ==
  /\ frames # << >>
  /\ Top.trying # << >>
  /\ Innermost(Top).end = 0 /\ Innermost(Top).scope = Len(Top.open)
  /\ frames' = WithTop(EndBody(Top))
  /\ closed' = NothingClosed /\ UNCHANGED unit

RegionOf(try) == [start |-> try.start, end |-> try.end, catch |-> try.catch]

RecordedFirst(tries, region) == << region >> \o tries

Recorded(tries, region) == Append(tries, region)

\* tryRegion(): else, handlers and finalizers are lowered as well, a slot for the
\* exception among them. The region is buffered; its depth is not known yet.
EndTry(f) ==
  [f EXCEPT !.tries = Recorded(@, RegionOf(Innermost(f))),
            !.trying = SubSeq(@, 1, Len(@) - 1)]

TryRegion ==
  /\ frames # << >>
  /\ Top.trying # << >>
  /\ Innermost(Top).end # 0 /\ Innermost(Top).end <= Len(Top.code)
  /\ Innermost(Top).scope = Len(Top.open)
  /\ frames' = WithTop(EndTry(Top))
  /\ closed' = NothingClosed /\ UNCHANGED unit

\* child(): funcValue and buildSpec lower a body into a frame of its own.
EnterFunction(guarded, base) ==
  /\ frames # << >>
  /\ Len(frames) < MaxFrames
  /\ frames' = Append(frames, NewFrame(guarded, guarded, base))
  /\ closed' = NothingClosed /\ UNCHANGED unit

Declared(region, depth) ==
  [start |-> region.start, end |-> region.end, catch |-> region.catch, depth |-> depth]

\* flushTries(): every buffered region is declared with the final depth.
FlushTries(f) ==
  [code     |-> f.code,
   declared |-> [i \in DOMAIN f.tries |-> Declared(f.tries[i], FrameDepth(f))],
   locals   |-> f.base + Len(f.scratch)]

\* What compileCode does instead: the regions stay buffered.
DropTries(f) ==
  [code |-> f.code, declared |-> << >>, locals |-> f.base + Len(f.scratch)]

\* A body is lowered to its end: flushTries, Locals, adopt.
LeaveFunction ==
  /\ Len(frames) > 1
  /\ Top.open = << >> /\ Top.trying = << >>
  /\ closed' = FlushTries(Top)
  /\ frames' = SubSeq(frames, 1, Len(frames) - 1)
  /\ UNCHANGED unit

\* The unit itself: lower() flushes its regions, compileCode does not.
LeaveUnit ==
  /\ Len(frames) = 1
  /\ Top.open = << >> /\ Top.trying = << >>
  /\ closed' = IF unit \in {"program", "importing"} THEN FlushTries(Top)
               ELSE DropTries(Top)
  /\ frames' = << >>
  /\ UNCHANGED unit

Next ==
  \/ EnterScratch
  \/ LeaveScratch
  \/ \E k \in Kinds : Tmp(k)
  \/ EnterTry
  \/ LeaveBody
  \/ TryRegion
  \/ \E guarded \in BOOLEAN, base \in Bases : EnterFunction(guarded, base)
  \/ LeaveFunction
  \/ LeaveUnit

Spec == Init /\ [][Next]_vars

-------------------------------------------------------------------------------
(* Properties *)

TryType == [start : Nat, end : Nat, catch : Nat, scope : Nat]

RegionType == [start : Nat, end : Nat, catch : Nat]

CodeType == Seq([uses : SUBSET Nat, handler : Nat])

FrameType ==
  [guarded : BOOLEAN, protected : BOOLEAN, base : Nat, scratch : Seq(Kinds),
   free : [Kinds -> SUBSET Nat], live : Seq(Nat), open : Seq(Nat),
   trying : Seq(TryType), labels : Nat, tries : Seq(RegionType),
   code : CodeType, peak : [Kinds -> Nat]]

ClosedType ==
  [code : CodeType, locals : Nat,
   declared : Seq([start : Nat, end : Nat, catch : Nat, depth : Nat])]

\* The shape of the lowerer's pool state.
TypeOK ==
  /\ unit \in Units
  /\ frames \in Seq(FrameType)
  /\ closed \in ClosedType

HoldersDistinct(f) ==
  \A i, j \in DOMAIN f.live : f.live[i] = f.live[j] => i = j

FreeNotHeld(f) ==
  \A k \in Kinds : \A idx \in f.free[k] :
    /\ idx \in Slots(f) \ Held(f)
    /\ KindOf(f, idx) = k

\* No two reservations hold one slot, and the free lists hold only slots that
\* nobody holds, each under the kind it is declared with: a value parked in a
\* slot survives until its reservation ends (tmp, reuse, leaveScratch), and a
\* nested body never draws on the pool of the frame around it (child).
HeldSlotsAreExclusive ==
  \A n \in DOMAIN frames :
    HoldersDistinct(frames[n]) /\ FreeNotHeld(frames[n])

\* A frame whose body holds a protected region gives every reservation site a
\* slot of its own: a handler may resume while any of them is still live
\* (reusable, docs/spec/05-codegen.md "Scratch slots"). A frame that pools declares
\* no more slots of a kind than were once held together: it grows with nesting,
\* not with the number of sites.
GuardedFramesKeepOneSlotPerSite ==
  \A n \in DOMAIN frames : LET f == frames[n] IN
    /\ f.guarded => \A idx \in Slots(f) : idx \in Held(f)
    /\ ~ f.protected => \A k \in Kinds :
         Cardinality({idx \in Slots(f) : KindOf(f, idx) = k}) = f.peak[k]

Covers(region, pc) == region.start <= pc /\ pc < region.end

\* The handler that the VM finds for the instruction: that of the first region
\* declared among those that cover it.
Meets(declared, pc, handler) ==
  \/ /\ handler = NoHandler
     /\ \A i \in DOMAIN declared : ~ Covers(declared[i], pc)
  \/ \E i \in DOMAIN declared :
       /\ Covers(declared[i], pc) /\ declared[i].catch = handler
       /\ \A j \in DOMAIN declared : j < i => ~ Covers(declared[j], pc)

\* An exception meets the handler of the innermost try or with statement in whose
\* body the instruction stands, or none where it stands in no body (else, handlers
\* and finalizers belong to the statements around); and that handler is entered
\* above every local which the frame's code uses, the slots reserved after the
\* region was recorded included, and above no more than the frame declares
\* (emitTry, emitTryFinally, tryRegion, flushTries; 05-codegen.md:87).
RegionsGuardTheirBodies ==
  \A pc \in DOMAIN closed.code :
    /\ Meets(closed.declared, pc, closed.code[pc].handler)
    /\ \A i \in DOMAIN closed.declared : \A used \in closed.code[pc].uses :
         used < closed.declared[i].depth /\ closed.declared[i].depth <= closed.locals

\* The statement that holds slot idx, counting the frame itself as one.
OwnerOf(f, idx) ==
  IF idx \notin Held(f) THEN 0
  ELSE LET at == CHOOSE i \in DOMAIN f.live : f.live[i] = idx
       IN  1 + Cardinality({n \in DOMAIN f.open : f.open[n] < at})

Lease == INSTANCE SlotLease WITH
  leases <- [n \in DOMAIN frames |->
               [kind  |-> frames[n].scratch,
                owner |-> [i \in DOMAIN frames[n].scratch |->
                             OwnerOf(frames[n], i - 1)],
                depth |-> 1 + Len(frames[n].open)]]

\* The pool with its marks and free lists implements exclusive leases that end
\* with the statement that took them, in the innermost frame only.
ImplementsLeases == Lease!Spec
==============================================================================
