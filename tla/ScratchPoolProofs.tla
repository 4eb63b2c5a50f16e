-------------------------- MODULE ScratchPoolProofs --------------------------
(***************************************************************************)
(* ScratchPool for every number of kinds, frames, statements and slots.    *)
(* Exclusivity is not inductive by itself: leaving a scope splits the      *)
(* reservations at its mark, so the marks have to be ordered and within    *)
(* the reservations (ScopesNest), and a slot that grows the frame is new   *)
(* only because every held slot is a declared one (HeldDeclared). That a   *)
(* guarded frame keeps its slots needs that no slot is lost and that the   *)
(* peak counts them (PoolInv). That the declared regions guard the bodies  *)
(* they were recorded for needs to say, while a frame is lowered, which    *)
(* statement guards each instruction, recorded or not (RegionsInv). Last,  *)
(* the pool implements the leases of SlotLease.                            *)
(***************************************************************************)
EXTENDS ScratchPool, FiniteSetTheorems, WellFoundedInduction, TLAPS

HeldDeclared(f) == \A i \in DOMAIN f.live : f.live[i] \in Slots(f)

ScopesNest(f) ==
  /\ \A n \in DOMAIN f.open : f.open[n] <= Len(f.live)
  /\ \A m, n \in DOMAIN f.open : m <= n => f.open[m] <= f.open[n]

FrameOK(f) ==
  /\ f \in FrameType
  /\ HeldDeclared(f)
  /\ ScopesNest(f)
  /\ HoldersDistinct(f)
  /\ FreeNotHeld(f)

IInv ==
  /\ unit \in Units
  /\ frames \in Seq({f \in FrameType : FrameOK(f)})
  /\ closed \in ClosedType

-------------------------------------------------------------------------------
\* A fresh lowerer's frame satisfies the invariant (Init, child).
LEMMA NewFrameOK ==
  ASSUME NEW guarded \in BOOLEAN, NEW protected \in BOOLEAN, NEW base \in Nat
  PROVE  FrameOK(NewFrame(guarded, protected, base))
<1>1. << >> \in CodeType
  BY DEF CodeType
<1>2. QED
  BY <1>1 DEF FrameOK, NewFrame, FrameType, HeldDeclared, ScopesNest, HoldersDistinct,
              FreeNotHeld, Slots, Held, KindOf

\* Cutting a sequence back keeps what is before the cut.
LEMMA SubSeqKept ==
  ASSUME NEW S, NEW s \in Seq(S), NEW m \in Nat, m <= Len(s)
  PROVE  /\ SubSeq(s, 1, m) \in Seq(S)
         /\ DOMAIN SubSeq(s, 1, m) = 1 .. m /\ Len(SubSeq(s, 1, m)) = m
         /\ \A i \in 1 .. m : SubSeq(s, 1, m)[i] = s[i]
OBVIOUS

\* What emitting code and recording regions leave alone: slots, scopes and flags.
SameSlots(f, g) ==
  /\ g.guarded = f.guarded /\ g.protected = f.protected /\ g.base = f.base
  /\ g.scratch = f.scratch /\ g.free = f.free /\ g.live = f.live
  /\ g.open = f.open /\ g.peak = f.peak

LEMMA SameSlotsOK ==
  ASSUME NEW f, FrameOK(f), NEW g \in FrameType, SameSlots(f, g)
  PROVE  FrameOK(g)
<1>1. /\ g.scratch = f.scratch /\ g.free = f.free
      /\ g.live = f.live /\ g.open = f.open
  BY DEF SameSlots
<1>2. QED
  BY <1>1 DEF FrameOK, HeldDeclared, ScopesNest, HoldersDistinct, FreeNotHeld,
              Slots, Held, KindOf

\* The statements whose bodies are being lowered.
Bodies(f) == {n \in DOMAIN f.trying : f.trying[n].end = 0}

\* Of finitely many statements one is the innermost.
LEMMA LastBody ==
  ASSUME NEW n \in Nat, NEW S \in SUBSET (1 .. n), S # {}
  PROVE  \E last \in S : \A m \in S : m <= last
<1> DEFINE Bounds == {b \in Nat : \A m \in S : m <= b}
           Less == {p \in Nat \X Nat : p[1] < p[2]}
<1>1. n \in Bounds /\ Bounds \subseteq Nat
  OBVIOUS
<1>2. IsWellFoundedOn(Less, Nat)
  BY NatLessThanWellFounded DEF OpToRel
<1>3. \A x, y \in Nat : << y, x >> \in Less <=> y < x
  OBVIOUS
<1>4. PICK b \in Bounds : \A c \in Bounds : ~ (<< c, b >> \in Less)
  <2> HIDE DEF Bounds, Less
  <2>1. QED
    BY <1>1, <1>2, WFMin
<1>5. \A c \in Bounds : b <= c
  <2> TAKE c \in Bounds
  <2>1. b \in Nat /\ c \in Nat /\ ~ (<< c, b >> \in Less)
    BY <1>4
  <2>2. ~ (c < b)
    BY <1>3, <2>1
  <2>3. QED
    BY <2>1, <2>2
<1>6. b \in S
  <2> SUFFICES ASSUME b \notin S PROVE FALSE
    OBVIOUS
  <2>1. b # 0
    <3>1. PICK m : m \in S
      OBVIOUS
    <3>2. m \in 1 .. n /\ m <= b /\ b \in Nat
      BY <3>1
    <3>3. QED
      BY <3>2
  <2>2. b - 1 \in Nat /\ \A m \in S : m <= b - 1
    BY <2>1
  <2>3. b <= b - 1
    BY <1>5, <2>2
  <2>4. QED
    BY <1>1, <2>3
<1>7. QED
  BY <1>6

\* The handler an instruction is emitted under: that of the innermost statement
\* whose body is being lowered, or none.
LEMMA HandlerIs ==
  ASSUME NEW f \in FrameType
  PROVE  /\ HandlerHere(f) \in Nat
         /\ \/ Bodies(f) = {} /\ HandlerHere(f) = NoHandler
            \/ \E n \in Bodies(f) : /\ \A m \in Bodies(f) : m <= n
                                    /\ HandlerHere(f) = f.trying[n].catch
<1>1. /\ f.trying \in Seq(TryType)
      /\ Len(f.trying) \in Nat /\ DOMAIN f.trying = 1 .. Len(f.trying)
  BY DEF FrameType
<1>2. CASE Bodies(f) = {}
  BY <1>2 DEF HandlerHere, Bodies, NoHandler
<1>3. CASE Bodies(f) # {}
  <2>1. \E n \in Bodies(f) : \A m \in Bodies(f) : m <= n
    BY <1>1, <1>3, LastBody DEF Bodies
  <2> DEFINE n == CHOOSE n \in Bodies(f) : \A m \in Bodies(f) : m <= n
  <2>2. n \in Bodies(f) /\ \A m \in Bodies(f) : m <= n
    BY <2>1
  <2>3. HandlerHere(f) = f.trying[n].catch
    BY <1>3 DEF HandlerHere, Bodies
  <2> HIDE DEF n
  <2>4. f.trying[n] \in TryType
    BY <1>1, <2>2 DEF Bodies
  <2>5. QED
    BY <2>2, <2>3, <2>4 DEF TryType
<1>4. QED
  BY <1>2, <1>3

\* An instruction is added to the code and nothing else changes.
LEMMA EmitFacts ==
  ASSUME NEW f \in FrameType, NEW uses \in SUBSET Nat
  PROVE  LET g == Emit(f, uses)
         IN  /\ g \in FrameType /\ SameSlots(f, g)
             /\ g.trying = f.trying /\ g.labels = f.labels /\ g.tries = f.tries
             /\ g.code = Append(f.code, [uses |-> uses, handler |-> HandlerHere(f)])
<1> PICK h \in Nat : h = HandlerHere(f)
  BY HandlerIs
<1> PICK entry : entry = [uses |-> uses, handler |-> h]
  OBVIOUS
<1>1. f.code \in CodeType
  BY DEF FrameType
<1>2. Append(f.code, entry) \in CodeType
  BY <1>1 DEF CodeType
<1> PICK code : code = Append(f.code, entry)
  OBVIOUS
<1>3. Emit(f, uses) = [f EXCEPT !.code = code]
  BY DEF Emit
<1>4. code \in CodeType
  BY <1>2
<1>5. QED
  BY <1>3, <1>4 DEF FrameType, SameSlots

\* The same of the instruction a slot is reserved for, which only the code of a
\* guarded frame keeps a record of.
LEMMA EmitUseFacts ==
  ASSUME NEW f \in FrameType, NEW idx \in Nat
  PROVE  LET g == EmitUse(f, idx)
         IN  /\ g \in FrameType /\ SameSlots(f, g)
             /\ g.trying = f.trying /\ g.labels = f.labels /\ g.tries = f.tries
             /\ g.code = IF f.guarded
                         THEN Append(f.code, [uses |-> {f.base + idx},
                                              handler |-> HandlerHere(f)])
                         ELSE f.code
<1>1. {f.base + idx} \in SUBSET Nat
  BY DEF FrameType
<1>2. QED
  BY <1>1, EmitFacts DEF EmitUse, SameSlots

\* A statement begins at the code emitted next.
LEMMA BeginFacts ==
  ASSUME NEW f \in FrameType
  PROVE  LET g == BeginTry(f)
         IN  /\ g \in FrameType /\ SameSlots(f, g)
             /\ g.code = f.code /\ g.tries = f.tries
             /\ g.trying = Append(f.trying,
                  [start |-> Len(f.code) + 1, end |-> 0,
                   catch |-> f.labels + 1, scope |-> Len(f.open)])
<1> PICK try : try = [start |-> Len(f.code) + 1, end |-> 0,
                      catch |-> f.labels + 1, scope |-> Len(f.open)]
  OBVIOUS
<1>1. try \in TryType
  BY DEF FrameType, CodeType, TryType
<1> PICK trying : trying = Append(f.trying, try)
  OBVIOUS
<1>2. trying \in Seq(TryType)
  BY <1>1 DEF FrameType
<1> PICK label : label = f.labels + 1
  OBVIOUS
<1> PICK g : g = BeginTry(f)
  OBVIOUS
<1>3. g = [f EXCEPT !.labels = label, !.trying = trying]
  BY DEF BeginTry, Here
<1>4. label \in Nat
  BY DEF FrameType
<1>5. g \in FrameType
  BY <1>2, <1>3, <1>4 DEF FrameType
<1>6. SameSlots(f, g) /\ g.code = f.code /\ g.tries = f.tries /\ g.trying = trying
  BY <1>3 DEF FrameType, SameSlots
<1>7. QED
  BY <1>5, <1>6

\* A body ends with a NOP of its own.
LEMMA EndBodyFacts ==
  ASSUME NEW f \in FrameType, f.trying # << >>
  PROVE  LET g == EndBody(f)
         IN  /\ g \in FrameType /\ SameSlots(f, g) /\ g.tries = f.tries
             /\ g.code = Append(f.code, [uses |-> {}, handler |-> HandlerHere(f)])
             /\ g.trying = [f.trying EXCEPT ![Len(f.trying)] =
                              [f.trying[Len(f.trying)] EXCEPT !.end = Len(f.code) + 2]]
<1> PICK e : e = Emit(f, {})
  OBVIOUS
<1>1. /\ e \in FrameType /\ SameSlots(f, e)
      /\ e.trying = f.trying /\ e.labels = f.labels /\ e.tries = f.tries
      /\ e.code = Append(f.code, [uses |-> {}, handler |-> HandlerHere(f)])
  BY EmitFacts
<1>2. Here(e) = Len(f.code) + 2 /\ Here(e) \in Nat
  <2> PICK entry : entry = [uses |-> {}, handler |-> HandlerHere(f)]
    OBVIOUS
  <2>1. f.code \in CodeType /\ e.code = Append(f.code, entry)
    BY <1>1 DEF FrameType
  <2>2. QED
    BY <2>1 DEF Here, CodeType
<1> PICK end \in Nat : end = Here(e)
  BY <1>2
<1> PICK trying : trying = [e.trying EXCEPT ![Len(e.trying)].end = end]
  OBVIOUS
<1>3. trying \in Seq(TryType)
  <2>1. e.trying \in Seq(TryType)
    BY <1>1 DEF FrameType
  <2>2. Len(e.trying) \in DOMAIN e.trying
    BY <1>1, <2>1
  <2> PICK try : try = e.trying[Len(e.trying)]
    OBVIOUS
  <2> PICK ended : ended = [try EXCEPT !.end = end]
    OBVIOUS
  <2>3. ended \in TryType
    <3>1. try \in TryType
      BY <2>1, <2>2
    <3>2. QED
      BY <3>1 DEF TryType
  <2>4. trying = [e.trying EXCEPT ![Len(e.trying)] = ended]
    OBVIOUS
  <2>5. QED
    BY <2>1, <2>2, <2>3, <2>4
<1> PICK g : g = EndBody(f)
  OBVIOUS
<1>4. g = [e EXCEPT !.trying = trying]
  BY DEF EndBody
<1>5. g \in FrameType /\ SameSlots(e, g)
  BY <1>1, <1>3, <1>4 DEF FrameType, SameSlots
<1>6. g.tries = e.tries /\ g.code = e.code /\ g.trying = trying
  BY <1>1, <1>4 DEF FrameType
<1>7. SameSlots(f, g)
  BY <1>1, <1>5 DEF SameSlots
<1>8. trying = [f.trying EXCEPT ![Len(f.trying)] =
                  [f.trying[Len(f.trying)] EXCEPT !.end = Len(f.code) + 2]]
  BY <1>1, <1>2
<1>9. QED
  BY <1>1, <1>5, <1>6, <1>7, <1>8

\* The statement's region is recorded behind those recorded before it.
LEMMA EndTryFacts ==
  ASSUME NEW f \in FrameType, f.trying # << >>
  PROVE  LET g == EndTry(f)
         IN  /\ g \in FrameType /\ SameSlots(f, g) /\ g.code = f.code
             /\ g.tries = Append(f.tries, RegionOf(f.trying[Len(f.trying)]))
             /\ g.trying = SubSeq(f.trying, 1, Len(f.trying) - 1)
<1>1. /\ f.trying \in Seq(TryType)
      /\ f.tries \in Seq(RegionType)
      /\ Len(f.trying) \in DOMAIN f.trying
  BY DEF FrameType
<1> PICK try : try = f.trying[Len(f.trying)]
  OBVIOUS
<1> PICK region : region = RegionOf(try)
  OBVIOUS
<1>2. region \in RegionType
  <2>1. try \in TryType
    BY <1>1
  <2>2. QED
    BY <2>1 DEF RegionOf, TryType, RegionType
<1> PICK tries : tries = Append(f.tries, region)
  OBVIOUS
<1>3. tries \in Seq(RegionType)
  BY <1>1, <1>2
<1> PICK trying : trying = SubSeq(f.trying, 1, Len(f.trying) - 1)
  OBVIOUS
<1>4. trying \in Seq(TryType)
  <2>1. Len(f.trying) - 1 \in Nat /\ Len(f.trying) - 1 <= Len(f.trying)
    BY <1>1
  <2>2. QED
    BY <1>1, <2>1, SubSeqKept
<1>5. EndTry(f) = [f EXCEPT !.tries = tries, !.trying = trying]
  BY DEF EndTry, Recorded, Innermost
<1>6. QED
  BY <1>3, <1>4, <1>5 DEF FrameType, SameSlots

\* A new scope's mark is the number of reservations, the largest mark yet.
LEMMA EnterOK ==
  ASSUME NEW f, FrameOK(f)
  PROVE  FrameOK([f EXCEPT !.open = Append(@, Len(f.live))])
<1> DEFINE g == [f EXCEPT !.open = Append(@, Len(f.live))]
<1>1. g \in FrameType
  <2>1. f.open \in Seq(Nat) /\ f.live \in Seq(Nat)
    BY DEF FrameOK, FrameType
  <2>2. Append(f.open, Len(f.live)) \in Seq(Nat)
    BY <2>1
  <2>3. QED
    BY <2>2 DEF FrameOK, FrameType
<1>2. /\ g.scratch = f.scratch /\ g.free = f.free /\ g.live = f.live
      /\ g.open = Append(f.open, Len(f.live))
  BY DEF FrameOK, FrameType
<1>3. f.open \in Seq(Nat) /\ Len(f.live) \in Nat
  BY DEF FrameOK, FrameType
<1> HIDE DEF g
<1>4. ScopesNest(g)
  BY <1>2, <1>3 DEF FrameOK, ScopesNest
<1>5. HeldDeclared(g) /\ HoldersDistinct(g) /\ FreeNotHeld(g)
  BY <1>2 DEF FrameOK, HeldDeclared, HoldersDistinct, FreeNotHeld, Slots, Held, KindOf
<1>6. QED
  BY <1>1, <1>4, <1>5 DEF FrameOK, g

\* A grown frame holds one slot more, past every slot held or free before.
LEMMA GrowOK ==
  ASSUME NEW f, FrameOK(f), NEW k \in Kinds
  PROVE  FrameOK(Grow(f, k))
<1> DEFINE g == Grow(f, k)
<1>1. g \in FrameType
  <2>1. f.scratch \in Seq(Kinds) /\ f.live \in Seq(Nat)
    BY DEF FrameOK, FrameType
  <2>2. /\ Append(f.scratch, k) \in Seq(Kinds)
        /\ Append(f.live, Len(f.scratch)) \in Seq(Nat)
    BY <2>1
  <2>3. QED
    BY <2>2 DEF FrameOK, FrameType, Grow
<1>2. /\ g.scratch = Append(f.scratch, k) /\ g.free = f.free
      /\ g.live = Append(f.live, Len(f.scratch)) /\ g.open = f.open
  BY DEF FrameOK, FrameType, Grow
<1>3. /\ f.open \in Seq(Nat) /\ f.live \in Seq(Nat)
      /\ f.scratch \in Seq(Kinds) /\ f.free \in [Kinds -> SUBSET Nat]
  BY DEF FrameOK, FrameType
<1> HIDE DEF g
<1>4. ScopesNest(g)
  BY <1>2, <1>3 DEF FrameOK, ScopesNest
<1>5. HeldDeclared(g)
  BY <1>2, <1>3 DEF FrameOK, HeldDeclared, Slots
<1>6. HoldersDistinct(g)
  BY <1>2, <1>3, SMTT(30) DEF FrameOK, HeldDeclared, HoldersDistinct, Slots
<1>7. FreeNotHeld(g)
  <2> SUFFICES ASSUME NEW q \in Kinds, NEW idx \in f.free[q]
               PROVE  idx \in Slots(g) \ Held(g) /\ KindOf(g, idx) = q
    BY <1>2 DEF FreeNotHeld
  <2>1. idx \in Slots(f) \ Held(f) /\ KindOf(f, idx) = q
    BY DEF FrameOK, FreeNotHeld
  <2>2. idx \in Slots(g) /\ KindOf(g, idx) = q
    BY <2>1, <1>2, <1>3 DEF Slots, KindOf
  <2>3. idx \notin Held(g)
    BY <2>1, <1>2, <1>3 DEF Held, Slots
  <2>4. QED
    BY <2>2, <2>3
<1>8. QED
  BY <1>1, <1>4, <1>5, <1>6, <1>7 DEF FrameOK, g

\* A released slot is held by nobody, so handing it out again is exclusive.
LEMMA ReuseOK ==
  ASSUME NEW f, FrameOK(f), NEW k \in Kinds, NEW idx \in f.free[k]
  PROVE  FrameOK(Reuse(f, k, idx))
<1> DEFINE g == Reuse(f, k, idx)
<1>1. /\ f.open \in Seq(Nat) /\ f.live \in Seq(Nat)
      /\ f.scratch \in Seq(Kinds) /\ f.free \in [Kinds -> SUBSET Nat]
  BY DEF FrameOK, FrameType
<1>2. /\ g.scratch = f.scratch /\ g.free = [f.free EXCEPT ![k] = @ \ {idx}]
      /\ g.live = Append(f.live, idx) /\ g.open = f.open
  BY DEF FrameOK, FrameType, Reuse
<1>3. idx \in Slots(f) /\ idx \notin Held(f) /\ KindOf(f, idx) = k
  BY DEF FrameOK, FreeNotHeld
<1>4. g \in FrameType
  <2>1. [f.free EXCEPT ![k] = @ \ {idx}] \in [Kinds -> SUBSET Nat]
    BY <1>1
  <2>2. Append(f.live, idx) \in Seq(Nat)
    BY <1>1
  <2>3. QED
    BY <2>1, <2>2 DEF FrameOK, FrameType, Reuse
<1> HIDE DEF g
<1>5. ScopesNest(g)
  BY <1>1, <1>2 DEF FrameOK, ScopesNest
<1>6. HeldDeclared(g)
  BY <1>1, <1>2, <1>3, SMTT(30) DEF FrameOK, HeldDeclared, Slots
<1>7. HoldersDistinct(g)
  BY <1>1, <1>2, <1>3 DEF FrameOK, HoldersDistinct, Held
<1>8. FreeNotHeld(g)
  <2> SUFFICES ASSUME NEW q \in Kinds, NEW jdx \in g.free[q]
               PROVE  jdx \in Slots(g) \ Held(g) /\ KindOf(g, jdx) = q
    BY DEF FreeNotHeld
  <2>1. jdx \in f.free[q]
    BY <1>1, <1>2
  <2>2. jdx \in Slots(f) \ Held(f) /\ KindOf(f, jdx) = q
    BY <2>1 DEF FrameOK, FreeNotHeld
  <2>3. jdx # idx
    BY <1>1, <1>2, <1>3, <2>2
  <2>4. QED
    BY <1>1, <1>2, <2>2, <2>3 DEF Slots, Held, KindOf
<1>9. QED
  BY <1>4, <1>5, <1>6, <1>7, <1>8 DEF FrameOK, g

\* Leaving a scope: the mark splits the reservations in those kept and those
\* released, and the marks of the scopes around it stay within the kept ones.
LEMMA LeaveOK ==
  ASSUME NEW f, FrameOK(f), f.open # << >>,
         NEW g, g = [f EXCEPT
          !.open = SubSeq(@, 1, Len(@) - 1),
          !.free = [k \in Kinds |->
                      @[k] \cup {idx \in Released(f) : KindOf(f, idx) = k}],
          !.live = SubSeq(@, 1, f.open[Len(f.open)])]
  PROVE  FrameOK(g)
<1> DEFINE mark == f.open[Len(f.open)]
<1>1. /\ f.open \in Seq(Nat) /\ f.live \in Seq(Nat)
      /\ f.scratch \in Seq(Kinds) /\ f.free \in [Kinds -> SUBSET Nat]
  BY DEF FrameOK, FrameType
<1>2. /\ Len(f.open) \in DOMAIN f.open /\ mark \in Nat /\ mark <= Len(f.live)
      /\ \A n \in DOMAIN f.open : f.open[n] <= mark
  <2>1. Len(f.open) \in DOMAIN f.open
    BY <1>1
  <2>2. mark \in Nat
    BY <1>1, <2>1
  <2>3. ScopesNest(f)
    BY DEF FrameOK
  <2>4. \A n \in DOMAIN f.open : n <= Len(f.open)
    BY <1>1
  <2> HIDE DEF mark
  <2>5. QED
    BY <2>1, <2>2, <2>3, <2>4 DEF ScopesNest, mark
<1>3. /\ g.scratch = f.scratch
      /\ g.open = SubSeq(f.open, 1, Len(f.open) - 1)
      /\ g.live = SubSeq(f.live, 1, mark)
      /\ g.free = [k \in Kinds |->
           f.free[k] \cup {idx \in Released(f) : KindOf(f, idx) = k}]
  BY DEF FrameOK, FrameType
<1>4. Released(f) \subseteq Held(f) /\ Released(f) \subseteq Slots(f)
  BY <1>1, <1>2, SMTT(30) DEF Released, Held, FrameOK, HeldDeclared
<1>5. g \in FrameType
  <2>1. g.open \in Seq(Nat) /\ g.live \in Seq(Nat)
    BY <1>1, <1>2, <1>3, SMTT(30)
  <2>2. Released(f) \subseteq Nat
    BY <1>1, <1>4 DEF Slots
  <2>3. g.free \in [Kinds -> SUBSET Nat]
    BY <1>1, <1>3, <2>2
  <2>4. QED
    BY <2>1, <2>3 DEF FrameOK, FrameType
<1>6. /\ DOMAIN g.live = 1 .. mark /\ \A i \in 1 .. mark : g.live[i] = f.live[i]
      /\ DOMAIN g.open = 1 .. Len(f.open) - 1
      /\ \A n \in DOMAIN g.open : g.open[n] = f.open[n]
      /\ Len(g.live) = mark
  BY <1>1, <1>2, <1>3, SMTT(30)
<1> HIDE DEF mark
<1>7. ScopesNest(g)
  <2>1. ScopesNest(f) /\ DOMAIN g.open \subseteq DOMAIN f.open
    BY <1>1, <1>6 DEF FrameOK
  <2>2. QED
    BY <1>2, <1>6, <2>1 DEF ScopesNest
<1>8. HeldDeclared(g)
  BY <1>1, <1>2, <1>3, <1>6, SMTT(30) DEF FrameOK, HeldDeclared, Slots
<1>9. HoldersDistinct(g)
  <2>1. HoldersDistinct(f) /\ DOMAIN g.live \subseteq DOMAIN f.live
    BY <1>1, <1>2, <1>6 DEF FrameOK
  <2>2. QED
    BY <1>6, <2>1 DEF HoldersDistinct
<1>10. Held(g) \subseteq Held(f)
  BY <1>1, <1>2, <1>6 DEF Held
<1>11. Released(f) \cap Held(g) = {}
  <2> SUFFICES ASSUME NEW i \in (mark + 1) .. Len(f.live), NEW j \in 1 .. mark,
                      f.live[i] = f.live[j]
               PROVE  FALSE
    <3>1. Released(f) = {f.live[i] : i \in (mark + 1) .. Len(f.live)}
      BY DEF Released, mark
    <3>2. Held(g) \subseteq {f.live[j] : j \in 1 .. mark}
      <4>1. ASSUME NEW idx \in Held(g) PROVE \E j \in 1 .. mark : idx = f.live[j]
        <5>1. PICK j \in DOMAIN g.live : idx = g.live[j]
          BY DEF Held
        <5>2. QED
          BY <1>6, <5>1
      <4>2. QED
        BY <4>1
    <3>3. QED
      BY <3>1, <3>2
  <2>1. i \in DOMAIN f.live /\ j \in DOMAIN f.live /\ i # j
    BY <1>1, <1>2, SMTT(30)
  <2>2. QED
    BY <2>1 DEF FrameOK, HoldersDistinct
<1>12. FreeNotHeld(g)
  <2> SUFFICES ASSUME NEW q \in Kinds, NEW idx \in g.free[q]
               PROVE  idx \in Slots(g) \ Held(g) /\ KindOf(g, idx) = q
    BY DEF FreeNotHeld
  <2>1. CASE idx \in f.free[q]
    <3>1. idx \in Slots(f) \ Held(f) /\ KindOf(f, idx) = q
      BY <2>1 DEF FrameOK, FreeNotHeld
    <3>2. QED
      BY <1>3, <1>10, <3>1 DEF Slots, KindOf
  <2>2. CASE idx \in Released(f) /\ KindOf(f, idx) = q
    BY <1>3, <1>4, <1>11, <2>2 DEF Slots, KindOf
  <2>3. QED
    BY <1>3, <2>1, <2>2
<1>13. QED
  BY <1>5, <1>7, <1>8, <1>9, <1>12 DEF FrameOK

\* The slots a frame holds are finitely many, so peak stays a number.
LEMMA PeakOK ==
  ASSUME NEW f, FrameOK(f), NEW k \in Kinds
  PROVE  FrameOK(WithPeak(f, k))
<1> DEFINE g == WithPeak(f, k)
<1>1. f.scratch \in Seq(Kinds) /\ f.peak \in [Kinds -> Nat] /\ f.live \in Seq(Nat)
  BY DEF FrameOK, FrameType
<1>2. IsFiniteSet(Slots(f))
  BY <1>1, FS_Interval, SMTT(30) DEF Slots
<1>3. HeldOf(f, k) \subseteq Slots(f)
  BY DEF HeldOf, Held, FrameOK, HeldDeclared
<1>4. Cardinality(HeldOf(f, k)) \in Nat
  BY <1>2, <1>3, FS_Subset, FS_CardinalityType
<1>5. Peak(f, k) \in [Kinds -> Nat]
  BY <1>1, <1>4 DEF Peak
<1>6. g \in FrameType
  BY <1>5 DEF FrameOK, FrameType, WithPeak
<1>7. /\ g.scratch = f.scratch /\ g.free = f.free
      /\ g.live = f.live /\ g.open = f.open
  BY DEF FrameOK, FrameType, WithPeak
<1> HIDE DEF g
<1>8. QED
  BY <1>6, <1>7 DEF FrameOK, HeldDeclared, ScopesNest, HoldersDistinct,
                    FreeNotHeld, Slots, Held, KindOf, g

-------------------------------------------------------------------------------
\* Whatever an action makes of the innermost frame, the others are untouched.
LEMMA WithTopOK ==
  ASSUME IInv, frames # << >>, NEW f, FrameOK(f)
  PROVE  WithTop(f) \in Seq({g \in FrameType : FrameOK(g)})
<1>1. f \in {g \in FrameType : FrameOK(g)}
  BY DEF FrameOK
<1>2. QED
  BY <1>1 DEF IInv, WithTop

\* The frame being lowered is one of the frames.
LEMMA TopOK ==
  ASSUME IInv, frames # << >>
  PROVE  FrameOK(Top)
BY DEF IInv, Top

\* A reservation takes a slot of the pool, and its instruction is emitted.
LEMMA TmpSteps ==
  ASSUME IInv, NEW k \in Kinds, Tmp(k)
  PROVE  /\ frames # << >> /\ FrameOK(Top) /\ unit' = unit /\ closed' = NothingClosed
         /\ \E h, g, idx : /\ frames' = WithTop(g) /\ g = EmitUse(h, idx)
                           /\ FrameOK(h) /\ FrameOK(g) /\ SameSlots(h, g)
                           /\ idx \in Slots(h)
                           /\ \/ /\ idx \in Top.free[k]
                                 /\ h = WithPeak(Reuse(Top, k, idx), k)
                              \/ /\ Top.free[k] = {} /\ idx = Len(Top.scratch)
                                 /\ h = WithPeak(Grow(Top, k), k)
<1>1. frames # << >> /\ FrameOK(Top) /\ unit' = unit /\ closed' = NothingClosed
  BY TopOK DEF Tmp
<1>2. ASSUME NEW h, FrameOK(h), NEW idx \in Slots(h)
      PROVE  FrameOK(EmitUse(h, idx)) /\ SameSlots(h, EmitUse(h, idx))
  <2>1. h \in FrameType /\ idx \in Nat
    BY <1>2 DEF FrameOK, FrameType, Slots
  <2>2. EmitUse(h, idx) \in FrameType /\ SameSlots(h, EmitUse(h, idx))
    BY <2>1, EmitUseFacts
  <2>3. QED
    BY <1>2, <2>2, SameSlotsOK
<1>3. CASE \E idx \in Top.free[k] :
             frames' = WithTop(EmitUse(WithPeak(Reuse(Top, k, idx), k), idx))
  <2>1. PICK idx \in Top.free[k] :
          frames' = WithTop(EmitUse(WithPeak(Reuse(Top, k, idx), k), idx))
    BY <1>3
  <2> PICK h : h = WithPeak(Reuse(Top, k, idx), k)
    OBVIOUS
  <2>2. FrameOK(h)
    BY <1>1, ReuseOK, PeakOK
  <2>3. idx \in Slots(h)
    <3>1. h.scratch = Top.scratch
      BY <1>1 DEF FrameOK, FrameType, WithPeak, Reuse
    <3>2. idx \in Slots(Top)
      BY <1>1 DEF FrameOK, FreeNotHeld
    <3>3. QED
      BY <3>1, <3>2 DEF Slots
  <2>4. QED
    BY <1>1, <1>2, <2>1, <2>2, <2>3
<1>4. CASE /\ Top.free[k] = {}
           /\ frames' = WithTop(EmitUse(WithPeak(Grow(Top, k), k), Len(Top.scratch)))
  <2> PICK h : h = WithPeak(Grow(Top, k), k)
    OBVIOUS
  <2> PICK idx : idx = Len(Top.scratch)
    OBVIOUS
  <2>1. FrameOK(h)
    BY <1>1, GrowOK, PeakOK
  <2>2. idx \in Slots(h)
    <3>1. Top.scratch \in Seq(Kinds) /\ h.scratch = Append(Top.scratch, k)
      BY <1>1 DEF FrameOK, FrameType, WithPeak, Grow
    <3>2. Len(h.scratch) = idx + 1 /\ idx \in Nat
      BY <3>1
    <3>3. QED
      BY <3>2 DEF Slots
  <2>3. QED
    BY <1>1, <1>2, <1>4, <2>1, <2>2
<1>5. QED
  BY <1>3, <1>4 DEF Tmp

\* Statements that begin, end their body and record their region take no slot.
LEMMA TrySteps ==
  ASSUME IInv, EnterTry \/ LeaveBody \/ TryRegion
  PROVE  /\ frames # << >> /\ FrameOK(Top) /\ unit' = unit /\ closed' = NothingClosed
         /\ \E g : frames' = WithTop(g) /\ FrameOK(g) /\ SameSlots(Top, g)
<1>1. frames # << >> /\ FrameOK(Top) /\ unit' = unit /\ closed' = NothingClosed
  BY TopOK DEF EnterTry, LeaveBody, TryRegion
<1>2. Top \in FrameType
  BY <1>1 DEF FrameOK
<1>3. CASE EnterTry
  BY <1>1, <1>2, <1>3, BeginFacts, SameSlotsOK DEF EnterTry
<1>4. CASE LeaveBody
  BY <1>1, <1>2, <1>4, EndBodyFacts, SameSlotsOK DEF LeaveBody
<1>5. CASE TryRegion
  BY <1>1, <1>2, <1>5, EndTryFacts, SameSlotsOK DEF TryRegion
<1>6. QED
  BY <1>3, <1>4, <1>5

\* What a closing frame leaves behind: its code and regions with a depth.
LEMMA ClosedOK ==
  ASSUME NEW f, FrameOK(f)
  PROVE  FlushTries(f) \in ClosedType /\ DropTries(f) \in ClosedType
<1>1. /\ f.tries \in Seq(RegionType) /\ f.code \in CodeType
      /\ f.base \in Nat /\ f.scratch \in Seq(Kinds)
  BY DEF FrameOK, FrameType
<1> PICK depth : depth = FrameDepth(f)
  OBVIOUS
<1>2. depth \in Nat /\ f.base + Len(f.scratch) \in Nat
  BY <1>1 DEF FrameDepth
<1> DEFINE D == [start : Nat, end : Nat, catch : Nat, depth : Nat]
<1>3. \A i \in DOMAIN f.tries : Declared(f.tries[i], depth) \in D
  <2> TAKE i \in DOMAIN f.tries
  <2> PICK region : region = f.tries[i]
    OBVIOUS
  <2>1. region \in RegionType
    BY <1>1
  <2>2. QED
    BY <1>2, <2>1 DEF Declared, RegionType
<1> HIDE DEF D
<1>4. [i \in DOMAIN f.tries |-> Declared(f.tries[i], depth)] \in Seq(D)
  BY <1>1, <1>3
<1>5. QED
  BY <1>1, <1>2, <1>4 DEF FlushTries, DropTries, ClosedType, D

\* No frame was closed.
LEMMA NothingClosedOK == NothingClosed \in ClosedType
BY DEF NothingClosed, ClosedType, CodeType

\* A unit starts with one empty frame.
LEMMA InitIInv == Init => IInv
<1> SUFFICES ASSUME Init PROVE IInv
  OBVIOUS
<1>1. PICK guarded \in BOOLEAN :
        frames = << NewFrame(guarded, EntryProtected(guarded), 0) >>
  BY DEF Init
<1>2. EntryProtected(guarded) \in BOOLEAN
  BY DEF EntryProtected
<1>3. FrameOK(NewFrame(guarded, EntryProtected(guarded), 0))
  BY <1>2, NewFrameOK
<1>4. frames \in Seq({f \in FrameType : FrameOK(f)})
  BY <1>1, <1>3 DEF FrameOK
<1>5. closed \in ClosedType
  BY NothingClosedOK DEF Init
<1>6. QED
  BY <1>4, <1>5 DEF Init, IInv

\* Every operation of the pool keeps the frames in order.
LEMMA NextIInv == IInv /\ [Next]_vars => IInv'
<1> SUFFICES ASSUME IInv, [Next]_vars PROVE IInv'
  OBVIOUS
<1> USE BoundsAssumption
<1>1. CASE EnterScratch
  <2>1. FrameOK([Top EXCEPT !.open = Append(@, Len(Top.live))])
    BY <1>1, TopOK, EnterOK DEF EnterScratch
  <2>2. frames' \in Seq({f \in FrameType : FrameOK(f)})
    BY <1>1, <2>1, WithTopOK DEF EnterScratch, Mark
  <2>3. QED
    BY <1>1, <2>2, NothingClosedOK DEF EnterScratch, IInv
<1>2. CASE LeaveScratch
  <2> DEFINE g == [Top EXCEPT
          !.open = SubSeq(@, 1, Len(@) - 1),
          !.free = [k \in Kinds |->
                      @[k] \cup {idx \in Released(Top) : KindOf(Top, idx) = k}],
          !.live = SubSeq(@, 1, Top.open[Len(Top.open)])]
  <2>1. FrameOK(g)
    BY <1>2, TopOK, LeaveOK DEF LeaveScratch
  <2>2. frames' \in Seq({f \in FrameType : FrameOK(f)})
    BY <1>2, <2>1, WithTopOK DEF LeaveScratch
  <2>3. QED
    BY <1>2, <2>2, NothingClosedOK DEF LeaveScratch, IInv
<1>3. ASSUME NEW k \in Kinds, Tmp(k) PROVE IInv'
  <2>1. PICK g : frames' = WithTop(g) /\ FrameOK(g)
    BY <1>3, TmpSteps
  <2>2. QED
    BY <1>3, <2>1, TmpSteps, WithTopOK, NothingClosedOK DEF IInv
<1>4. CASE EnterTry \/ LeaveBody \/ TryRegion
  <2>1. PICK g : frames' = WithTop(g) /\ FrameOK(g)
    BY <1>4, TrySteps
  <2>2. QED
    BY <1>4, <2>1, TrySteps, WithTopOK, NothingClosedOK DEF IInv
<1>5. ASSUME NEW guarded \in BOOLEAN, NEW base \in Bases,
             EnterFunction(guarded, base)
      PROVE  IInv'
  <2>1. NewFrame(guarded, guarded, base) \in {f \in FrameType : FrameOK(f)}
    BY NewFrameOK DEF FrameOK
  <2>2. QED
    BY <1>5, <2>1, NothingClosedOK DEF EnterFunction, IInv
<1>6. CASE LeaveFunction
  <2>1. frames # << >>
    BY <1>6 DEF LeaveFunction
  <2>2. closed' \in ClosedType
    BY <1>6, <2>1, TopOK, ClosedOK DEF LeaveFunction
  <2>3. frames' \in Seq({f \in FrameType : FrameOK(f)})
    BY <1>6 DEF LeaveFunction, IInv
  <2>4. QED
    BY <1>6, <2>2, <2>3 DEF LeaveFunction, IInv
<1>7. CASE LeaveUnit
  <2>1. frames # << >>
    BY <1>7 DEF LeaveUnit
  <2>2. closed' \in ClosedType
    BY <1>7, <2>1, TopOK, ClosedOK DEF LeaveUnit
  <2>3. frames' \in Seq({f \in FrameType : FrameOK(f)})
    BY <1>7 DEF LeaveUnit, IInv
  <2>4. QED
    BY <1>7, <2>2, <2>3 DEF LeaveUnit, IInv
<1>8. CASE UNCHANGED vars
  BY <1>8 DEF vars, IInv, FrameOK, HeldDeclared, ScopesNest, HoldersDistinct,
              FreeNotHeld, Slots, Held, KindOf, FrameType, ClosedType
<1>9. QED
  BY <1>1, <1>2, <1>3, <1>4, <1>5, <1>6, <1>7, <1>8 DEF Next

\* The pool state of every unit, frame and statement keeps its shape: marks,
\* free lists and slot numbers are the ones lower.go can hold.
THEOREM PoolTypeCorrect == Spec => []TypeOK
<1>1. IInv => TypeOK
  BY DEF IInv, TypeOK, ClosedType
<1>2. QED
  BY <1>1, InitIInv, NextIInv, PTL DEF Spec

\* No two reservations of a frame hold one slot, and no free list offers a
\* slot that is held or of another kind (tmp, reuse, leaveScratch, child).
THEOREM SlotsExclusive == Spec => []HeldSlotsAreExclusive
<1>1. IInv => HeldSlotsAreExclusive
  BY DEF IInv, HeldSlotsAreExclusive, FrameOK
<1>2. QED
  BY <1>1, InitIInv, NextIInv, PTL DEF Spec

-------------------------------------------------------------------------------
(***************************************************************************)
(* How many slots a frame declares. A slot is never lost: each one is held *)
(* or offered by the free list of its kind, so the slots of a kind number  *)
(* what that kind has held at once when it last grew. Where the flag is    *)
(* set from the body of the frame, it is set for every frame with a        *)
(* protected region, and such a frame releases nothing.                    *)
(***************************************************************************)
SlotsOf(f, k) == {idx \in Slots(f) : KindOf(f, idx) = k}

NothingLost(f) ==
  \A idx \in Slots(f) : idx \in Held(f) \/ idx \in f.free[KindOf(f, idx)]

PeakIsSlots(f) == \A k \in Kinds : Cardinality(SlotsOf(f, k)) = f.peak[k]

ProtectedKeeps(f) ==
  f.protected => f.open = << >> /\ \A k \in Kinds : f.free[k] = {}

PoolOK(f) ==
  /\ NothingLost(f)
  /\ PeakIsSlots(f)
  /\ ProtectedKeeps(f)
  /\ f.guarded => f.protected

\* The units whose entry frame is flagged from all the code it holds.
FlaggedUnits == {"program", "eval"}

PoolInv ==
  /\ IInv
  /\ unit \in FlaggedUnits
  /\ \A n \in DOMAIN frames : PoolOK(frames[n])

\* A fresh frame has no slots, so none is lost.
LEMMA NewPoolOK ==
  ASSUME NEW guarded \in BOOLEAN, NEW protected \in BOOLEAN, NEW base \in Nat,
         guarded => protected
  PROVE  PoolOK(NewFrame(guarded, protected, base))
<1> DEFINE f == NewFrame(guarded, protected, base)
<1>1. /\ f.scratch = << >> /\ f.open = << >> /\ f.live = << >>
      /\ f.guarded = guarded /\ f.protected = protected
      /\ f.peak = [k \in Kinds |-> 0] /\ f.free = [k \in Kinds |-> {}]
  BY DEF NewFrame
<1> HIDE DEF f
<1>2. Slots(f) = {}
  BY <1>1 DEF Slots
<1>3. \A k \in Kinds : Cardinality(SlotsOf(f, k)) = 0
  BY <1>2, FS_EmptySet DEF SlotsOf
<1>4. QED
  BY <1>1, <1>2, <1>3 DEF PoolOK, NothingLost, PeakIsSlots, ProtectedKeeps, f

\* A frame that agrees on the slots keeps them (tryRegion, a new scope).
LEMMA SamePoolOK ==
  ASSUME NEW f, NEW g, PoolOK(f),
         g.scratch = f.scratch, g.free = f.free, g.live = f.live, g.peak = f.peak,
         g.guarded = f.guarded, g.protected = f.protected,
         g.protected => g.open = << >>
  PROVE  PoolOK(g)
BY DEF PoolOK, NothingLost, PeakIsSlots, ProtectedKeeps, SlotsOf, Slots, Held, KindOf

\* The slots of a kind are finitely many, those held among them.
LEMMA SlotsFinite ==
  ASSUME NEW f, FrameOK(f), NEW k \in Kinds
  PROVE  /\ IsFiniteSet(SlotsOf(f, k))
         /\ Cardinality(SlotsOf(f, k)) \in Nat
         /\ HeldOf(f, k) \subseteq SlotsOf(f, k)
         /\ Cardinality(HeldOf(f, k)) \in Nat
         /\ Cardinality(HeldOf(f, k)) <= Cardinality(SlotsOf(f, k))
<1>1. Len(f.scratch) \in Nat
  BY DEF FrameOK, FrameType
<1>2. IsFiniteSet(Slots(f))
  BY <1>1, FS_Interval DEF Slots
<1>3. IsFiniteSet(SlotsOf(f, k))
  BY <1>2, FS_Subset DEF SlotsOf
<1>4. HeldOf(f, k) \subseteq SlotsOf(f, k)
  BY DEF HeldOf, Held, FrameOK, HeldDeclared, SlotsOf
<1>5. QED
  BY <1>3, <1>4, FS_Subset, FS_CardinalityType

\* One reservation more holds one slot more.
LEMMA HeldAppend ==
  ASSUME NEW f, NEW g, NEW idx \in Nat, f.live \in Seq(Nat),
         g.live = Append(f.live, idx)
  PROVE  Held(g) = Held(f) \cup {idx}
<1>1. /\ DOMAIN g.live = DOMAIN f.live \cup {Len(f.live) + 1}
      /\ \A i \in DOMAIN f.live : g.live[i] = f.live[i]
      /\ g.live[Len(f.live) + 1] = idx
  OBVIOUS
<1>2. Held(g) = {g.live[i] : i \in DOMAIN f.live} \cup {g.live[Len(f.live) + 1]}
  BY <1>1 DEF Held
<1>3. {g.live[i] : i \in DOMAIN f.live} = {f.live[i] : i \in DOMAIN f.live}
  BY <1>1
<1>4. QED
  BY <1>1, <1>2, <1>3 DEF Held

\* A slot handed out again leaves the free list for the reservations, and the
\* frame never holds more slots of its kind than it has.
LEMMA ReusePoolOK ==
  ASSUME NEW f, FrameOK(f), PoolOK(f), NEW k \in Kinds, NEW idx \in f.free[k]
  PROVE  PoolOK(WithPeak(Reuse(f, k, idx), k))
<1> DEFINE h == Reuse(f, k, idx)
           g == WithPeak(h, k)
<1>1. /\ f.live \in Seq(Nat) /\ f.scratch \in Seq(Kinds)
      /\ f.free \in [Kinds -> SUBSET Nat] /\ f.peak \in [Kinds -> Nat]
  BY DEF FrameOK, FrameType
<1>2. /\ h.scratch = f.scratch /\ h.peak = f.peak
      /\ h.free = [f.free EXCEPT ![k] = @ \ {idx}]
      /\ h.live = Append(f.live, idx) /\ h.open = f.open
      /\ h.guarded = f.guarded /\ h.protected = f.protected
  BY DEF FrameOK, FrameType, Reuse
<1>3. /\ g.scratch = h.scratch /\ g.free = h.free /\ g.live = h.live
      /\ g.open = h.open /\ g.guarded = h.guarded /\ g.protected = h.protected
      /\ g.peak = Peak(h, k)
  BY DEF FrameOK, FrameType, Reuse, WithPeak
<1>4. FrameOK(h)
  BY ReuseOK
<1> HIDE DEF h, g
<1>5. \A q \in Kinds : SlotsOf(h, q) = SlotsOf(f, q) /\ SlotsOf(g, q) = SlotsOf(f, q)
  BY <1>2, <1>3 DEF SlotsOf, Slots, KindOf
<1>6. g.peak = f.peak
  <2>1. Cardinality(HeldOf(h, k)) <= Cardinality(SlotsOf(h, k))
    BY <1>4, SlotsFinite
  <2>2. Cardinality(SlotsOf(h, k)) = f.peak[k]
    BY <1>5 DEF PoolOK, PeakIsSlots
  <2>3. Cardinality(HeldOf(h, k)) \in Nat /\ f.peak[k] \in Nat
    BY <1>1, <1>4, SlotsFinite
  <2>4. Peak(h, k) = [f.peak EXCEPT ![k] = @]
    BY <1>1, <1>2, <2>1, <2>2, <2>3 DEF Peak
  <2>5. QED
    BY <1>1, <1>3, <2>4
<1>7. PeakIsSlots(g)
  BY <1>5, <1>6 DEF PoolOK, PeakIsSlots
<1>8. Held(g) = Held(f) \cup {idx}
  <2>1. idx \in Nat /\ g.live = Append(f.live, idx)
    BY <1>1, <1>2, <1>3
  <2>2. QED
    BY <1>1, <2>1, HeldAppend
<1>9. NothingLost(g)
  <2> SUFFICES ASSUME NEW jdx \in Slots(g)
               PROVE  jdx \in Held(g) \/ jdx \in g.free[KindOf(g, jdx)]
    BY DEF NothingLost
  <2>1. jdx \in Slots(f) /\ KindOf(g, jdx) = KindOf(f, jdx) /\ KindOf(f, jdx) \in Kinds
    BY <1>1, <1>2, <1>3 DEF Slots, KindOf
  <2>2. jdx \in Held(f) \/ jdx \in f.free[KindOf(f, jdx)]
    BY <2>1 DEF PoolOK, NothingLost
  <2>3. QED
    BY <1>1, <1>2, <1>3, <1>8, <2>1, <2>2
<1>10. ProtectedKeeps(g) /\ (g.guarded => g.protected)
  BY <1>1, <1>2, <1>3 DEF PoolOK, ProtectedKeeps
<1>11. QED
  BY <1>7, <1>9, <1>10 DEF PoolOK, g, h

\* A frame grows only when its slots of that kind are all held.
LEMMA GrowPoolOK ==
  ASSUME NEW f, FrameOK(f), PoolOK(f), NEW k \in Kinds, f.free[k] = {}
  PROVE  PoolOK(WithPeak(Grow(f, k), k))
<1> DEFINE h == Grow(f, k)
           g == WithPeak(h, k)
<1>1. /\ f.live \in Seq(Nat) /\ f.scratch \in Seq(Kinds)
      /\ f.free \in [Kinds -> SUBSET Nat] /\ f.peak \in [Kinds -> Nat]
  BY DEF FrameOK, FrameType
<1>2. /\ h.scratch = Append(f.scratch, k) /\ h.peak = f.peak /\ h.free = f.free
      /\ h.live = Append(f.live, Len(f.scratch)) /\ h.open = f.open
      /\ h.guarded = f.guarded /\ h.protected = f.protected
  BY DEF FrameOK, FrameType, Grow
<1>3. /\ g.scratch = h.scratch /\ g.free = h.free /\ g.live = h.live
      /\ g.open = h.open /\ g.guarded = h.guarded /\ g.protected = h.protected
      /\ g.peak = Peak(h, k)
  BY DEF FrameOK, FrameType, Grow, WithPeak
<1>4. FrameOK(h)
  BY GrowOK
<1> HIDE DEF h, g
<1>5. /\ Slots(h) = Slots(f) \cup {Len(f.scratch)} /\ Len(f.scratch) \notin Slots(f)
      /\ KindOf(h, Len(f.scratch)) = k
      /\ \A jdx \in Slots(f) : KindOf(h, jdx) = KindOf(f, jdx) /\ KindOf(f, jdx) \in Kinds
      /\ Slots(g) = Slots(h) /\ \A jdx \in Slots(h) : KindOf(g, jdx) = KindOf(h, jdx)
  BY <1>1, <1>2, <1>3 DEF Slots, KindOf
<1>6. Held(h) = Held(f) \cup {Len(f.scratch)} /\ Held(g) = Held(h)
  <2>1. Len(f.scratch) \in Nat
    BY <1>1
  <2>2. Held(h) = Held(f) \cup {Len(f.scratch)}
    BY <1>1, <1>2, <2>1, HeldAppend
  <2>3. QED
    BY <1>3, <2>2 DEF Held
<1>7. NothingLost(g)
  <2> SUFFICES ASSUME NEW jdx \in Slots(g)
               PROVE  jdx \in Held(g) \/ jdx \in g.free[KindOf(g, jdx)]
    BY DEF NothingLost
  <2>1. CASE jdx = Len(f.scratch)
    BY <1>6, <2>1
  <2>2. CASE jdx \in Slots(f)
    BY <1>2, <1>3, <1>5, <1>6, <2>2 DEF PoolOK, NothingLost
  <2>3. QED
    BY <1>5, <2>1, <2>2
<1>8. ProtectedKeeps(g) /\ (g.guarded => g.protected)
  BY <1>2, <1>3 DEF PoolOK, ProtectedKeeps
<1>9. PeakIsSlots(g)
  <2>1. ASSUME NEW q \in Kinds, q # k
        PROVE  SlotsOf(g, q) = SlotsOf(f, q) /\ g.peak[q] = f.peak[q]
    BY <1>1, <1>2, <1>3, <1>5, <2>1 DEF SlotsOf, Peak
  <2>2. SlotsOf(g, k) = SlotsOf(f, k) \cup {Len(f.scratch)}
    BY <1>5 DEF SlotsOf
  <2>3. HeldOf(h, k) = SlotsOf(g, k)
    <3>1. HeldOf(h, k) \subseteq SlotsOf(g, k)
      <4>1. HeldOf(h, k) \subseteq SlotsOf(h, k)
        BY <1>4, SlotsFinite
      <4>2. SlotsOf(h, k) = SlotsOf(g, k)
        BY <1>5 DEF SlotsOf
      <4>3. QED
        BY <4>1, <4>2
    <3>2. ASSUME NEW jdx \in SlotsOf(f, k) PROVE jdx \in HeldOf(h, k)
      BY <1>5, <1>6, <3>2 DEF SlotsOf, HeldOf, PoolOK, NothingLost
    <3>3. Len(f.scratch) \in HeldOf(h, k)
      BY <1>5, <1>6 DEF HeldOf
    <3>4. QED
      BY <2>2, <3>1, <3>2, <3>3
  <2>4. Cardinality(SlotsOf(g, k)) = f.peak[k] + 1
    <3>1. Len(f.scratch) \notin SlotsOf(f, k)
      BY <1>5 DEF SlotsOf
    <3>2. IsFiniteSet(SlotsOf(f, k)) /\ Cardinality(SlotsOf(f, k)) = f.peak[k]
      BY SlotsFinite DEF PoolOK, PeakIsSlots
    <3>3. QED
      BY <2>2, <3>1, <3>2, FS_AddElement
  <2>5. g.peak[k] = Cardinality(SlotsOf(g, k))
    BY <1>1, <1>2, <1>3, <2>3, <2>4 DEF Peak
  <2>6. QED
    BY <2>1, <2>5 DEF PeakIsSlots, PoolOK
<1>10. QED
  BY <1>7, <1>8, <1>9 DEF PoolOK, g, h

\* A slot whose reservation ends with the statement is offered again.
LEMMA LeavePoolOK ==
  ASSUME NEW f, FrameOK(f), PoolOK(f), f.open # << >>,
         NEW g, g = [f EXCEPT
          !.open = SubSeq(@, 1, Len(@) - 1),
          !.free = [k \in Kinds |->
                      @[k] \cup {idx \in Released(f) : KindOf(f, idx) = k}],
          !.live = SubSeq(@, 1, f.open[Len(f.open)])]
  PROVE  PoolOK(g)
<1> DEFINE mark == f.open[Len(f.open)]
<1>1. /\ f.open \in Seq(Nat) /\ f.live \in Seq(Nat)
      /\ f.scratch \in Seq(Kinds) /\ f.free \in [Kinds -> SUBSET Nat]
  BY DEF FrameOK, FrameType
<1>2. mark \in Nat /\ mark <= Len(f.live)
  BY <1>1 DEF FrameOK, ScopesNest
<1>3. /\ g.scratch = f.scratch /\ g.peak = f.peak
      /\ g.live = SubSeq(f.live, 1, mark)
      /\ g.free = [k \in Kinds |->
           f.free[k] \cup {idx \in Released(f) : KindOf(f, idx) = k}]
      /\ g.guarded = f.guarded /\ g.protected = f.protected
  BY DEF FrameOK, FrameType
<1> HIDE DEF mark
<1>4. DOMAIN g.live = 1 .. mark /\ \A i \in 1 .. mark : g.live[i] = f.live[i]
  <2>1. f.live \in Seq(Nat) /\ mark \in Nat /\ mark <= Len(f.live)
    BY <1>1, <1>2
  <2>2. /\ DOMAIN SubSeq(f.live, 1, mark) = 1 .. mark
        /\ \A i \in 1 .. mark : SubSeq(f.live, 1, mark)[i] = f.live[i]
    BY <2>1, SubSeqKept
  <2>3. g.live = SubSeq(f.live, 1, mark)
    BY <1>3
  <2>4. QED
    BY <2>2, <2>3
<1>5. ASSUME NEW k \in Kinds, NEW idx
       PROVE  idx \in g.free[k] <=>
                idx \in f.free[k] \/ (idx \in Released(f) /\ KindOf(f, idx) = k)
  <2>1. g.free[k] = f.free[k] \cup {jdx \in Released(f) : KindOf(f, jdx) = k}
    BY <1>3
  <2>2. QED
    BY <2>1
<1>6. ~ f.protected
  BY DEF PoolOK, ProtectedKeeps
<1>7. \A i \in DOMAIN f.live : f.live[i] \in Held(g) \/ f.live[i] \in Released(f)
  <2> SUFFICES ASSUME NEW i \in DOMAIN f.live
               PROVE  f.live[i] \in Held(g) \/ f.live[i] \in Released(f)
    OBVIOUS
  <2>1. CASE i <= mark
    <3>1. i \in 1 .. mark
      BY <1>1, <1>2, <2>1
    <3>2. i \in DOMAIN g.live /\ g.live[i] = f.live[i]
      BY <1>4, <3>1
    <3>3. QED
      BY <3>2 DEF Held
  <2>2. CASE ~ (i <= mark)
    <3>1. i \in (mark + 1) .. Len(f.live)
      BY <1>1, <1>2, <2>2
    <3>2. QED
      BY <3>1 DEF Released, mark
  <2>3. QED
    BY <2>1, <2>2
<1>8. NothingLost(g)
  <2> SUFFICES ASSUME NEW idx \in Slots(g)
               PROVE  idx \in Held(g) \/ idx \in g.free[KindOf(g, idx)]
    BY DEF NothingLost
  <2>1. idx \in Slots(f) /\ KindOf(g, idx) = KindOf(f, idx) /\ KindOf(f, idx) \in Kinds
    BY <1>1, <1>3 DEF Slots, KindOf
  <2>2. CASE idx \in f.free[KindOf(f, idx)]
    BY <1>5, <2>1, <2>2
  <2>3. CASE idx \in Held(f)
    <3>1. PICK i \in DOMAIN f.live : idx = f.live[i]
      BY <2>3 DEF Held
    <3>2. QED
      BY <1>7, <1>5, <2>1, <3>1
  <2>4. QED
    BY <2>1, <2>2, <2>3 DEF PoolOK, NothingLost
<1>9. PeakIsSlots(g)
  BY <1>3 DEF PoolOK, PeakIsSlots, SlotsOf, Slots, KindOf
<1>10. ProtectedKeeps(g) /\ (g.guarded => g.protected)
  BY <1>3, <1>6 DEF ProtectedKeeps, PoolOK
<1>11. QED
  BY <1>8, <1>9, <1>10 DEF PoolOK

\* Only the innermost frame changes, so only it has to be looked at.
LEMMA WithTopPoolOK ==
  ASSUME PoolInv, frames # << >>, NEW f, PoolOK(f), frames' = WithTop(f)
  PROVE  \A n \in DOMAIN frames' : PoolOK(frames'[n])
BY DEF PoolInv, IInv, WithTop

\* The innermost frame is one of those in order.
LEMMA TopPoolOK ==
  ASSUME PoolInv, frames # << >>
  PROVE  FrameOK(Top) /\ PoolOK(Top)
<1>1. Len(frames) \in DOMAIN frames
  BY DEF PoolInv, IInv
<1>2. QED
  BY <1>1, TopOK DEF PoolInv, Top

\* The flag of the entry frame of these units answers for all its code.
LEMMA InitPoolInv == Init /\ unit \in FlaggedUnits => PoolInv
<1> SUFFICES ASSUME Init, unit \in FlaggedUnits PROVE PoolInv
  OBVIOUS
<1>1. PICK guarded \in (IF unit = "eval" THEN {FALSE} ELSE BOOLEAN) :
        frames = << NewFrame(guarded, EntryProtected(guarded), 0) >>
  BY DEF Init
<1>2. /\ guarded \in BOOLEAN /\ EntryProtected(guarded) \in BOOLEAN
      /\ guarded => EntryProtected(guarded)
  BY <1>1 DEF EntryProtected, FlaggedUnits
<1>3. PoolOK(NewFrame(guarded, EntryProtected(guarded), 0))
  BY <1>2, NewPoolOK
<1>4. QED
  BY <1>1, <1>3, InitIInv DEF PoolInv

\* Every operation of the pool keeps every slot held or offered.
LEMMA NextPoolInv == PoolInv /\ [Next]_vars => PoolInv'
<1> SUFFICES ASSUME PoolInv, [Next]_vars PROVE PoolInv'
  OBVIOUS
<1> USE BoundsAssumption
<1>1. IInv'
  BY NextIInv DEF PoolInv
<1>2. unit' \in FlaggedUnits
  BY DEF PoolInv, Next, vars, EnterScratch, LeaveScratch, Tmp, EnterTry, LeaveBody,
         TryRegion, EnterFunction, LeaveFunction, LeaveUnit
<1> SUFFICES \A n \in DOMAIN frames' : PoolOK(frames'[n])
  BY <1>1, <1>2 DEF PoolInv, PoolOK, NothingLost, PeakIsSlots, ProtectedKeeps,
                    SlotsOf, Slots, KindOf, Held
<1>3. CASE EnterScratch
  <2>1. frames # << >> /\ ~ Top.protected
    BY <1>3 DEF EnterScratch
  <2>2. FrameOK(Top) /\ PoolOK(Top)
    BY <2>1, TopPoolOK
  <2> DEFINE g == [Top EXCEPT !.open = Append(@, Mark(Top))]
  <2>3. /\ g.scratch = Top.scratch /\ g.free = Top.free /\ g.live = Top.live
        /\ g.peak = Top.peak /\ g.guarded = Top.guarded
        /\ g.protected = Top.protected
    BY <2>2 DEF FrameOK, FrameType
  <2> HIDE DEF g
  <2>4. PoolOK(g)
    BY <2>1, <2>2, <2>3, SamePoolOK
  <2>5. QED
    BY <1>3, <2>1, <2>4, WithTopPoolOK DEF EnterScratch, g
<1>4. CASE LeaveScratch
  <2>1. frames # << >> /\ Top.open # << >>
    BY <1>4 DEF LeaveScratch
  <2> DEFINE g == [Top EXCEPT
          !.open = SubSeq(@, 1, Len(@) - 1),
          !.free = [k \in Kinds |->
                      @[k] \cup {idx \in Released(Top) : KindOf(Top, idx) = k}],
          !.live = SubSeq(@, 1, Top.open[Len(Top.open)])]
  <2>2. PoolOK(g)
    BY <2>1, TopPoolOK, LeavePoolOK
  <2>3. QED
    BY <1>4, <2>1, <2>2, WithTopPoolOK DEF LeaveScratch
<1>5. ASSUME NEW k \in Kinds, Tmp(k)
      PROVE  \A n \in DOMAIN frames' : PoolOK(frames'[n])
  <2>1. IInv
    BY DEF PoolInv
  <2>2. PICK h, g, idx :
          /\ frames' = WithTop(g) /\ SameSlots(h, g)
          /\ \/ idx \in Top.free[k] /\ h = WithPeak(Reuse(Top, k, idx), k)
             \/ Top.free[k] = {} /\ h = WithPeak(Grow(Top, k), k)
    BY <1>5, <2>1, TmpSteps
  <2>3. frames # << >> /\ FrameOK(Top) /\ PoolOK(Top)
    BY <1>5, TopPoolOK DEF Tmp
  <2>4. PoolOK(h)
    BY <2>2, <2>3, ReusePoolOK, GrowPoolOK
  <2>5. PoolOK(g)
    BY <2>2, <2>4, SamePoolOK DEF SameSlots, PoolOK, ProtectedKeeps
  <2>6. QED
    BY <2>2, <2>3, <2>5, WithTopPoolOK
<1>6. CASE EnterTry \/ LeaveBody \/ TryRegion
  <2>1. IInv
    BY DEF PoolInv
  <2>2. PICK g : frames' = WithTop(g) /\ SameSlots(Top, g) /\ frames # << >>
    BY <1>6, <2>1, TrySteps
  <2>3. PoolOK(Top)
    BY <2>2, TopPoolOK
  <2>4. PoolOK(g)
    BY <2>2, <2>3, SamePoolOK DEF SameSlots, PoolOK, ProtectedKeeps
  <2>5. QED
    BY <2>2, <2>4, WithTopPoolOK
<1>7. ASSUME NEW guarded \in BOOLEAN, NEW base \in Bases,
             EnterFunction(guarded, base)
      PROVE  \A n \in DOMAIN frames' : PoolOK(frames'[n])
  <2>1. PoolOK(NewFrame(guarded, guarded, base))
    BY NewPoolOK
  <2>2. QED
    BY <1>7, <2>1 DEF EnterFunction, PoolInv, IInv
<1>8. CASE LeaveFunction
  <2>1. DOMAIN frames' \subseteq DOMAIN frames
        /\ \A n \in DOMAIN frames' : frames'[n] = frames[n]
    BY <1>8 DEF LeaveFunction, PoolInv, IInv
  <2>2. QED
    BY <2>1 DEF PoolInv
<1>9. CASE LeaveUnit
  BY <1>9 DEF LeaveUnit
<1>10. CASE UNCHANGED vars
  BY <1>10 DEF vars, PoolInv
<1>11. QED
  BY <1>3, <1>4, <1>5, <1>6, <1>7, <1>8, <1>9, <1>10 DEF Next

\* In a unit flagged from all its code, a frame with a protected region gives
\* every reservation a slot of its own, and a frame that pools declares no more
\* slots of a kind than it once held together (reusable, tmp, leaveScratch).
THEOREM GuardedFramesKeepSlots ==
  Spec /\ unit \in FlaggedUnits => []GuardedFramesKeepOneSlotPerSite
<1>1. PoolInv => GuardedFramesKeepOneSlotPerSite
  <2> SUFFICES ASSUME PoolInv, NEW n \in DOMAIN frames
               PROVE  LET f == frames[n] IN
                 /\ f.guarded => \A idx \in Slots(f) : idx \in Held(f)
                 /\ ~ f.protected => \A k \in Kinds :
                      Cardinality({idx \in Slots(f) : KindOf(f, idx) = k}) = f.peak[k]
    BY DEF GuardedFramesKeepOneSlotPerSite
  <2> DEFINE f == frames[n]
  <2>1. FrameOK(f) /\ PoolOK(f)
    BY DEF PoolInv, IInv
  <2>2. \A idx \in Slots(f) : KindOf(f, idx) \in Kinds
    BY <2>1 DEF FrameOK, FrameType, Slots, KindOf
  <2> HIDE DEF f
  <2>3. f.guarded => \A idx \in Slots(f) : idx \in Held(f)
    BY <2>1, <2>2 DEF PoolOK, NothingLost, ProtectedKeeps
  <2>4. \A k \in Kinds :
          Cardinality({idx \in Slots(f) : KindOf(f, idx) = k}) = f.peak[k]
    BY <2>1 DEF PoolOK, PeakIsSlots, SlotsOf
  <2>5. QED
    BY <2>3, <2>4 DEF f
<1>2. QED
  BY <1>1, InitPoolInv, NextPoolInv, PTL DEF Spec

-------------------------------------------------------------------------------
(***************************************************************************)
(* The protected regions. While a frame is lowered, the statement that     *)
(* guards an instruction is either recorded already, and then it is the    *)
(* first region recorded that covers the instruction, or still being       *)
(* lowered, and then it is the innermost one around it. Recording appends  *)
(* the innermost statement's region, so that it comes behind those inside  *)
(* it and before those around it. Only the frame of exec() source is       *)
(* closed with its regions dropped and code that needs them.               *)
(***************************************************************************)
NoneCovers(regions, pc) == \A i \in DOMAIN regions : ~ Covers(regions[i], pc)

\* The first recorded region that covers the instruction.
IsFirst(regions, pc, i) ==
  /\ i \in DOMAIN regions /\ Covers(regions[i], pc)
  /\ \A j \in DOMAIN regions : j < i => ~ Covers(regions[j], pc)

\* The instruction is in the body of statement n, which may not have ended yet.
InBody(f, n, pc) ==
  /\ f.trying[n].start <= pc
  /\ f.trying[n].end = 0 \/ pc < f.trying[n].end

\* The innermost such statement.
IsLast(f, pc, n) ==
  /\ n \in DOMAIN f.trying /\ InBody(f, n, pc)
  /\ \A m \in DOMAIN f.trying : InBody(f, m, pc) => m <= n

HandledBy(f, pc, handler) ==
  \/ \E i : IsFirst(f.tries, pc, i) /\ f.tries[i].catch = handler
  \/ /\ NoneCovers(f.tries, pc)
     /\ \/ \E n : IsLast(f, pc, n) /\ f.trying[n].catch = handler
        \/ /\ \A n \in DOMAIN f.trying : ~ InBody(f, n, pc)
           /\ handler = NoHandler

\* No region reaches beyond the code.
WithinCode(f) ==
  /\ \A i \in DOMAIN f.tries : f.tries[i].end <= Here(f)
  /\ \A n \in DOMAIN f.trying : /\ f.trying[n].start <= Here(f)
                                /\ f.trying[n].end <= Here(f)

UsesLocals(f) ==
  \A pc \in DOMAIN f.code : \A used \in f.code[pc].uses : used < FrameDepth(f)

CodeOK(f) ==
  /\ WithinCode(f)
  /\ UsesLocals(f)
  /\ \A pc \in DOMAIN f.code : HandledBy(f, pc, f.code[pc].handler)
  /\ ~ f.guarded => f.trying = << >> /\ f.code = << >>

EvalUnguarded == unit = "eval" /\ frames # << >> => ~ frames[1].guarded

RegionsInv ==
  /\ IInv
  /\ unit # "exec"
  /\ \A n \in DOMAIN frames : CodeOK(frames[n])
  /\ EvalUnguarded
  /\ RegionsGuardTheirBodies

\* What the frames keep of code and statements, as sequences of their types.
LEMMA CodeTypes ==
  ASSUME NEW f \in FrameType
  PROVE  /\ f.trying \in Seq(TryType) /\ f.tries \in Seq(RegionType)
         /\ f.code \in Seq([uses : SUBSET Nat, handler : Nat])
         /\ Len(f.code) \in Nat /\ DOMAIN f.code = 1 .. Len(f.code)
         /\ Here(f) = Len(f.code) + 1
         /\ f.base \in Nat /\ Len(f.scratch) \in Nat /\ FrameDepth(f) \in Nat
         /\ \A n \in DOMAIN f.trying : /\ f.trying[n].start \in Nat
                                       /\ f.trying[n].end \in Nat
         /\ \A i \in DOMAIN f.tries : f.tries[i].end \in Nat
<1>1. /\ f.trying \in Seq(TryType) /\ f.tries \in Seq(RegionType)
      /\ f.code \in Seq([uses : SUBSET Nat, handler : Nat])
      /\ f.base \in Nat /\ f.scratch \in Seq(Kinds)
  BY DEF FrameType, CodeType
<1>2. FrameDepth(f) \in Nat /\ Len(f.code) \in Nat /\ DOMAIN f.code = 1 .. Len(f.code)
  BY <1>1 DEF FrameDepth
<1>3. \A n \in DOMAIN f.trying : f.trying[n].start \in Nat /\ f.trying[n].end \in Nat
  <2> TAKE n \in DOMAIN f.trying
  <2>1. f.trying[n] \in TryType
    BY <1>1
  <2>2. QED
    BY <2>1 DEF TryType
<1>4. \A i \in DOMAIN f.tries : f.tries[i].end \in Nat
  <2> TAKE i \in DOMAIN f.tries
  <2>1. f.tries[i] \in RegionType
    BY <1>1
  <2>2. QED
    BY <2>1 DEF RegionType
<1>5. QED
  BY <1>1, <1>2, <1>3, <1>4 DEF Here

\* A frame that differs in its slots alone, and has no fewer (a reservation, the
\* scope of a statement).
LEMMA SameCodeOK ==
  ASSUME NEW f, NEW g, CodeOK(f), FrameDepth(f) \in Nat, FrameDepth(g) \in Nat,
         f.code \in Seq([uses : SUBSET Nat, handler : Nat]),
         g.guarded = f.guarded, g.trying = f.trying, g.tries = f.tries,
         g.code = f.code, FrameDepth(f) <= FrameDepth(g)
  PROVE  CodeOK(g)
<1>1. WithinCode(g)
  BY DEF CodeOK, WithinCode, Here
<1>2. UsesLocals(g)
  <2> SUFFICES ASSUME NEW pc \in DOMAIN f.code, NEW used \in f.code[pc].uses
               PROVE  used < FrameDepth(g)
    BY DEF UsesLocals
  <2>1. used < FrameDepth(f)
    BY DEF CodeOK, UsesLocals
  <2>2. used \in Nat
    <3> DEFINE Entries == [uses : SUBSET Nat, handler : Nat]
    <3>1. f.code \in Seq(Entries)
      OBVIOUS
    <3>2. \A entry \in Entries : entry.uses \subseteq Nat
      OBVIOUS
    <3> HIDE DEF Entries
    <3>3. f.code[pc] \in Entries
      BY <3>1
    <3>4. QED
      BY <3>2, <3>3
  <2>3. QED
    BY <2>1, <2>2
<1>3. \A pc \in DOMAIN g.code : HandledBy(g, pc, g.code[pc].handler)
  BY DEF CodeOK, HandledBy, IsLast, InBody
<1>4. QED
  BY <1>1, <1>2, <1>3 DEF CodeOK

\* An instruction more: no recorded region covers it, and of the statements being
\* lowered those whose body has not ended are around it.
LEMMA EmitCodeOK ==
  ASSUME NEW f \in FrameType, CodeOK(f), f.guarded, NEW uses \in SUBSET Nat,
         \A used \in uses : used < FrameDepth(f),
         NEW g \in FrameType, SameSlots(f, g), g.trying = f.trying, g.tries = f.tries,
         g.code = Append(f.code, [uses |-> uses, handler |-> HandlerHere(f)])
  PROVE  CodeOK(g)
<1> PICK h : h = HandlerHere(f)
  OBVIOUS
<1> PICK pc0 : pc0 = Len(f.code) + 1
  OBVIOUS
<1>1. /\ Len(f.code) \in Nat /\ pc0 \in Nat
      /\ DOMAIN g.code = DOMAIN f.code \cup {pc0}
      /\ \A pc \in DOMAIN f.code : g.code[pc] = f.code[pc] /\ pc \in Nat /\ pc < pc0
      /\ g.code[pc0].uses = uses /\ g.code[pc0].handler = h
      /\ Here(f) = pc0 /\ Here(g) = pc0 + 1
  <2> PICK entry : entry = [uses |-> uses, handler |-> HandlerHere(f)]
    OBVIOUS
  <2>1. f.code \in Seq([uses : SUBSET Nat, handler : Nat]) /\ g.code = Append(f.code, entry)
    BY CodeTypes
  <2>2. entry.uses = uses /\ entry.handler = h
    OBVIOUS
  <2>3. QED
    BY <2>1, <2>2 DEF Here
<1>2. FrameDepth(g) = FrameDepth(f)
  BY DEF FrameDepth, SameSlots
<1>3. WithinCode(g)
  <2>1. /\ \A i \in DOMAIN f.tries : f.tries[i].end \in Nat /\ f.tries[i].end <= pc0
        /\ \A n \in DOMAIN f.trying : /\ f.trying[n].start \in Nat /\ f.trying[n].start <= pc0
                                      /\ f.trying[n].end \in Nat /\ f.trying[n].end <= pc0
    BY <1>1, CodeTypes DEF CodeOK, WithinCode
  <2>2. \A x \in Nat : x <= pc0 => x <= Here(g)
    BY <1>1
  <2>3. QED
    BY <2>1, <2>2 DEF WithinCode
<1>4. UsesLocals(g)
  BY <1>1, <1>2 DEF UsesLocals, CodeOK
<1>5. \A pc \in DOMAIN f.code : HandledBy(g, pc, g.code[pc].handler)
  BY <1>1 DEF CodeOK, HandledBy, IsLast, InBody
<1>6. NoneCovers(g.tries, pc0)
  <2>1. \A i \in DOMAIN f.tries : f.tries[i].end \in Nat /\ f.tries[i].end <= pc0
    BY <1>1, CodeTypes DEF CodeOK, WithinCode
  <2>2. QED
    BY <1>1, <2>1 DEF NoneCovers, Covers
<1>7. \A n \in DOMAIN g.trying : InBody(g, n, pc0) <=> n \in Bodies(f)
  <2>1. \A n \in DOMAIN f.trying : /\ f.trying[n].start <= pc0
                                   /\ f.trying[n].end \in Nat /\ f.trying[n].end <= pc0
    BY <1>1, CodeTypes DEF CodeOK, WithinCode
  <2>2. QED
    BY <1>1, <2>1 DEF InBody, Bodies
<1>8. HandledBy(g, pc0, h)
  <2>1. CASE Bodies(f) = {} /\ h = NoHandler
    BY <1>6, <1>7, <2>1 DEF HandledBy
  <2>2. CASE \E n \in Bodies(f) : /\ \A m \in Bodies(f) : m <= n
                                  /\ h = f.trying[n].catch
    <3>1. PICK n \in Bodies(f) : (\A m \in Bodies(f) : m <= n) /\ h = f.trying[n].catch
      BY <2>2
    <3>2. IsLast(g, pc0, n) /\ g.trying[n].catch = h
      BY <1>7, <3>1 DEF IsLast, Bodies
    <3>3. QED
      BY <1>6, <3>2 DEF HandledBy
  <2>3. QED
    BY <2>1, <2>2, HandlerIs
<1>9. g.guarded
  BY DEF SameSlots
<1>10. \A pc \in DOMAIN g.code : HandledBy(g, pc, g.code[pc].handler)
  BY <1>1, <1>5, <1>8
<1>11. QED
  BY <1>3, <1>4, <1>9, <1>10 DEF CodeOK

\* A statement that begins has no code yet.
LEMMA BeginCodeOK ==
  ASSUME NEW f \in FrameType, CodeOK(f), f.guarded
  PROVE  CodeOK(BeginTry(f))
<1> PICK g : g = BeginTry(f)
  OBVIOUS
<1> PICK try : try = [start |-> Len(f.code) + 1, end |-> 0,
                      catch |-> f.labels + 1, scope |-> Len(f.open)]
  OBVIOUS
<1>1. /\ g \in FrameType /\ SameSlots(f, g) /\ g.code = f.code /\ g.tries = f.tries
      /\ g.trying = Append(f.trying, try)
  BY BeginFacts
<1> PICK last : last = Len(f.trying) + 1
  OBVIOUS
<1>2. /\ DOMAIN g.trying = DOMAIN f.trying \cup {last}
      /\ g.trying[last] = try
      /\ \A n \in DOMAIN f.trying : g.trying[n] = f.trying[n]
  BY <1>1, CodeTypes
<1>3. /\ try.start = Here(f) /\ try.end = 0 /\ Here(g) = Here(f) /\ Here(f) \in Nat
      /\ \A pc \in DOMAIN f.code : pc \in Nat /\ pc < Here(f)
  BY <1>1, CodeTypes DEF Here
<1>4. WithinCode(g)
  BY <1>1, <1>2, <1>3 DEF WithinCode, CodeOK
<1>5. \A pc \in DOMAIN f.code : \A n \in DOMAIN g.trying :
        InBody(g, n, pc) <=> n \in DOMAIN f.trying /\ InBody(f, n, pc)
  <2> TAKE pc \in DOMAIN f.code
  <2>1. \A n \in DOMAIN f.trying : InBody(g, n, pc) <=> InBody(f, n, pc)
    BY <1>2 DEF InBody
  <2>2. ~ InBody(g, last, pc)
    <3>1. g.trying[last].start = Here(f) /\ ~ (Here(f) <= pc)
      BY <1>2, <1>3
    <3>2. QED
      BY <3>1 DEF InBody
  <2>3. last \notin DOMAIN f.trying
    BY CodeTypes
  <2>4. QED
    BY <1>2, <2>1, <2>2, <2>3
<1>6. \A pc \in DOMAIN g.code : HandledBy(g, pc, g.code[pc].handler)
  BY <1>1, <1>2, <1>5 DEF CodeOK, HandledBy, IsLast
<1>7. UsesLocals(g) /\ g.guarded
  BY <1>1 DEF UsesLocals, CodeOK, SameSlots, FrameDepth
<1>8. QED
  BY <1>4, <1>6, <1>7 DEF CodeOK

\* The end of a body: the same instructions are in it, the NOP the last of them.
LEMMA EndBodyCodeOK ==
  ASSUME NEW f \in FrameType, CodeOK(f), f.guarded, f.trying # << >>,
         f.trying[Len(f.trying)].end = 0
  PROVE  CodeOK(EndBody(f))
<1> PICK e : e = Emit(f, {})
  OBVIOUS
<1> PICK g : g = EndBody(f)
  OBVIOUS
<1>1. /\ e \in FrameType /\ SameSlots(f, e) /\ e.trying = f.trying /\ e.tries = f.tries
      /\ e.code = Append(f.code, [uses |-> {}, handler |-> HandlerHere(f)])
  BY EmitFacts
<1>2. CodeOK(e)
  BY <1>1, EmitCodeOK
<1> PICK last : last = Len(f.trying)
  OBVIOUS
<1> PICK try : try = [f.trying[last] EXCEPT !.end = Len(f.code) + 2]
  OBVIOUS
<1>3. /\ g \in FrameType /\ SameSlots(f, g) /\ g.tries = e.tries /\ g.code = e.code
      /\ g.trying = [f.trying EXCEPT ![last] = try]
  BY <1>1, EndBodyFacts
<1>4. /\ DOMAIN g.trying = DOMAIN e.trying /\ last \in DOMAIN f.trying
      /\ g.trying[last] = try
      /\ \A n \in DOMAIN f.trying : n # last => g.trying[n] = e.trying[n]
  BY <1>1, <1>3, CodeTypes
<1>5. Here(e) = Len(f.code) + 2 /\ Here(g) = Here(e) /\ Here(e) \in Nat
  <2> PICK entry : entry = [uses |-> {}, handler |-> HandlerHere(f)]
    OBVIOUS
  <2>1. f.code \in Seq([uses : SUBSET Nat, handler : Nat]) /\ e.code = Append(f.code, entry)
    BY <1>1, CodeTypes
  <2>2. QED
    BY <1>3, <2>1 DEF Here
<1>6. /\ try.start = e.trying[last].start /\ try.end = Here(e)
      /\ try.catch = e.trying[last].catch /\ e.trying[last].end = 0
  <2>1. f.trying[last] \in TryType
    BY <1>4, CodeTypes
  <2>2. QED
    BY <1>1, <1>5, <2>1 DEF TryType
<1>7. \A n \in DOMAIN e.trying : g.trying[n].start = e.trying[n].start
                               /\ g.trying[n].catch = e.trying[n].catch
  <2> TAKE n \in DOMAIN e.trying
  <2>1. CASE n = last
    BY <1>4, <1>6, <2>1
  <2>2. CASE n # last
    BY <1>1, <1>4, <2>2
  <2>3. QED
    BY <2>1, <2>2
<1>8. WithinCode(g)
  BY <1>1, <1>2, <1>3, <1>4, <1>5, <1>6, <1>7 DEF WithinCode, CodeOK
<1>9. \A pc \in DOMAIN e.code : \A n \in DOMAIN e.trying :
        InBody(g, n, pc) <=> InBody(e, n, pc)
  <2> TAKE pc \in DOMAIN e.code
  <2> TAKE n \in DOMAIN e.trying
  <2>1. CASE n # last
    BY <1>1, <1>4, <2>1 DEF InBody
  <2>2. CASE n = last
    <3>1. pc < Here(e)
      BY <1>1, CodeTypes
    <3>2. g.trying[n].start = e.trying[n].start /\ g.trying[n].end = Here(e)
      BY <1>4, <1>6, <2>2
    <3>3. e.trying[n].end = 0
      BY <1>6, <2>2
    <3>4. QED
      BY <3>1, <3>2, <3>3 DEF InBody
  <2>3. QED
    BY <2>1, <2>2
<1>10. \A pc \in DOMAIN g.code : HandledBy(g, pc, g.code[pc].handler)
  BY <1>2, <1>3, <1>4, <1>7, <1>9 DEF CodeOK, HandledBy, IsLast
<1>11. UsesLocals(g) /\ g.guarded
  BY <1>1, <1>2, <1>3 DEF UsesLocals, CodeOK, SameSlots, FrameDepth
<1>12. QED
  BY <1>8, <1>10, <1>11 DEF CodeOK

\* A region is recorded when every statement inside its own has been: it guards
\* the instructions that no recorded region covers.
LEMMA EndTryCodeOK ==
  ASSUME NEW f \in FrameType, CodeOK(f), f.guarded, f.trying # << >>,
         f.trying[Len(f.trying)].end # 0
  PROVE  CodeOK(EndTry(f))
<1> PICK g : g = EndTry(f)
  OBVIOUS
<1> PICK last : last = Len(f.trying)
  OBVIOUS
<1> PICK region : region = RegionOf(f.trying[last])
  OBVIOUS
<1> PICK next : next = Len(f.tries) + 1
  OBVIOUS
<1>1. /\ g \in FrameType /\ SameSlots(f, g) /\ g.code = f.code
      /\ g.tries = Append(f.tries, region)
      /\ g.trying = SubSeq(f.trying, 1, last - 1)
  BY EndTryFacts
<1>2. /\ DOMAIN g.tries = DOMAIN f.tries \cup {next} /\ g.tries[next] = region
      /\ next \notin DOMAIN f.tries /\ next \in Nat
      /\ \A i \in DOMAIN f.tries : g.tries[i] = f.tries[i] /\ i \in Nat /\ i < next
  BY <1>1, CodeTypes
<1>3. /\ last \in Nat \ {0} /\ DOMAIN f.trying = DOMAIN g.trying \cup {last}
      /\ last \notin DOMAIN g.trying
      /\ \A n \in DOMAIN g.trying : g.trying[n] = f.trying[n] /\ n \in Nat /\ n < last
  <2>1. last \in Nat \ {0} /\ last - 1 \in Nat /\ last - 1 <= Len(f.trying)
    BY CodeTypes
  <2>2. /\ DOMAIN g.trying = 1 .. last - 1
        /\ \A n \in 1 .. last - 1 : g.trying[n] = f.trying[n]
    <3>1. f.trying \in Seq(TryType)
      BY CodeTypes
    <3>2. QED
      BY <1>1, <2>1, <3>1, SubSeqKept
  <2>3. DOMAIN f.trying = 1 .. last
    BY CodeTypes
  <2>4. QED
    BY <2>1, <2>2, <2>3
<1>4. /\ region.start = f.trying[last].start /\ region.end = f.trying[last].end
      /\ region.catch = f.trying[last].catch
  BY DEF RegionOf
<1>5. Here(g) = Here(f)
  BY <1>1 DEF Here
<1>6. WithinCode(g)
  BY <1>2, <1>3, <1>4, <1>5 DEF WithinCode, CodeOK
<1>7. \A pc : Covers(region, pc) <=> InBody(f, last, pc)
  BY <1>4 DEF Covers, InBody
<1>8. \A pc : \A n \in DOMAIN g.trying : InBody(g, n, pc) <=> InBody(f, n, pc)
  BY <1>3 DEF InBody
<1>9. ASSUME NEW pc, NEW h, HandledBy(f, pc, h) PROVE HandledBy(g, pc, h)
  <2>1. CASE \E i : IsFirst(f.tries, pc, i) /\ f.tries[i].catch = h
    <3>1. PICK i : IsFirst(f.tries, pc, i) /\ f.tries[i].catch = h
      BY <2>1
    <3>2. IsFirst(g.tries, pc, i) /\ g.tries[i].catch = h
      BY <1>2, <3>1 DEF IsFirst
    <3>3. QED
      BY <3>2 DEF HandledBy
  <2>2. CASE NoneCovers(f.tries, pc) /\ InBody(f, last, pc)
    <3>1. IsFirst(g.tries, pc, next)
      BY <1>2, <1>7, <2>2 DEF IsFirst, NoneCovers
    <3>2. ASSUME NEW n, IsLast(f, pc, n) PROVE n = last
      BY <1>3, <2>2, <3>2 DEF IsLast
    <3>3. ~ (\E i : IsFirst(f.tries, pc, i))
      BY <2>2 DEF IsFirst, NoneCovers
    <3>4. h = f.trying[last].catch
      BY <1>3, <1>9, <2>2, <3>2, <3>3 DEF HandledBy
    <3>5. QED
      BY <1>2, <1>4, <3>1, <3>4 DEF HandledBy
  <2>3. CASE NoneCovers(f.tries, pc) /\ ~ InBody(f, last, pc)
    <3>1. NoneCovers(g.tries, pc)
      BY <1>2, <1>7, <2>3 DEF NoneCovers
    <3>2. ~ (\E i : IsFirst(f.tries, pc, i))
      BY <2>3 DEF IsFirst, NoneCovers
    <3>3. CASE \E n : IsLast(f, pc, n) /\ f.trying[n].catch = h
      <4>1. PICK n : IsLast(f, pc, n) /\ f.trying[n].catch = h
        BY <3>3
      <4>2. IsLast(g, pc, n) /\ g.trying[n].catch = h
        BY <1>3, <1>8, <2>3, <4>1 DEF IsLast
      <4>3. QED
        BY <3>1, <4>2 DEF HandledBy
    <3>4. CASE (\A n \in DOMAIN f.trying : ~ InBody(f, n, pc)) /\ h = NoHandler
      BY <1>3, <1>8, <3>1, <3>4 DEF HandledBy
    <3>5. QED
      BY <1>9, <3>2, <3>3, <3>4 DEF HandledBy
  <2>4. QED
    BY <1>9, <2>1, <2>2, <2>3 DEF HandledBy
<1>10. UsesLocals(g) /\ g.guarded
  BY <1>1 DEF UsesLocals, CodeOK, SameSlots, FrameDepth
<1>11. QED
  BY <1>1, <1>6, <1>9, <1>10 DEF CodeOK

\* flushTries declares the regions in the order they were recorded, with a depth
\* above all the locals of the frame.
LEMMA FlushedGuards ==
  ASSUME NEW f, FrameOK(f), CodeOK(f), f.trying = << >>, closed' = FlushTries(f)
  PROVE  RegionsGuardTheirBodies'
<1>1. /\ closed'.code = f.code /\ closed'.locals = FrameDepth(f)
      /\ DOMAIN closed'.declared = DOMAIN f.tries
      /\ \A i \in DOMAIN f.tries :
           closed'.declared[i] = Declared(f.tries[i], FrameDepth(f))
  BY DEF FlushTries, FrameDepth
<1>2. \A i \in DOMAIN f.tries :
        /\ closed'.declared[i].catch = f.tries[i].catch
        /\ closed'.declared[i].depth = FrameDepth(f)
        /\ \A pc : Covers(closed'.declared[i], pc) <=> Covers(f.tries[i], pc)
  <2> TAKE i \in DOMAIN f.tries
  <2> PICK region : region = f.tries[i]
    OBVIOUS
  <2> PICK declared : declared = closed'.declared[i]
    OBVIOUS
  <2>1. declared = Declared(region, FrameDepth(f))
    BY <1>1
  <2>2. /\ declared.start = region.start /\ declared.end = region.end
        /\ declared.catch = region.catch /\ declared.depth = FrameDepth(f)
    BY <2>1 DEF Declared
  <2>3. QED
    BY <2>2 DEF Covers
<1>3. ASSUME NEW pc \in DOMAIN f.code
      PROVE  Meets(closed'.declared, pc, f.code[pc].handler)
  <2>1. HandledBy(f, pc, f.code[pc].handler) /\ DOMAIN f.trying = {}
    BY DEF CodeOK
  <2>2. CASE \E i : IsFirst(f.tries, pc, i) /\ f.tries[i].catch = f.code[pc].handler
    BY <1>1, <1>2, <2>2 DEF IsFirst, Meets
  <2>3. CASE NoneCovers(f.tries, pc) /\ f.code[pc].handler = NoHandler
    BY <1>1, <1>2, <2>3 DEF NoneCovers, Meets
  <2>4. QED
    BY <2>1, <2>2, <2>3 DEF HandledBy, IsLast
<1>4. FrameDepth(f) \in Nat
  BY CodeTypes DEF FrameOK
<1>5. QED
  BY <1>1, <1>2, <1>3, <1>4 DEF RegionsGuardTheirBodies, CodeOK, UsesLocals

\* A step that closes no frame leaves nothing to guard.
LEMMA NothingToGuard == closed' = NothingClosed => RegionsGuardTheirBodies'
BY DEF NothingClosed, RegionsGuardTheirBodies

\* The frame a step changes is still the innermost one, and as guarded as it was.
LEMMA TopCodeOK ==
  ASSUME RegionsInv, frames # << >>, NEW f, frames' = WithTop(f),
         f.guarded = Top.guarded, CodeOK(f), unit' = unit
  PROVE  /\ \A n \in DOMAIN frames' : CodeOK(frames'[n])
         /\ EvalUnguarded'
<1>1. /\ DOMAIN frames' = DOMAIN frames /\ Len(frames) \in DOMAIN frames
      /\ 1 \in DOMAIN frames /\ frames' # << >>
      /\ \A n \in DOMAIN frames :
           frames'[n] = IF n = Len(frames) THEN f ELSE frames[n]
  BY DEF RegionsInv, IInv, WithTop
<1>2. QED
  BY <1>1 DEF RegionsInv, EvalUnguarded, Top

\* A fresh frame has no code.
LEMMA NewCodeOK ==
  ASSUME NEW guarded, NEW protected, NEW base
  PROVE  /\ CodeOK(NewFrame(guarded, protected, base))
         /\ NewFrame(guarded, protected, base).guarded = guarded
BY DEF NewFrame, CodeOK, WithinCode, UsesLocals

\* A unit starts with no region recorded or declared.
LEMMA InitRegionsInv == Init /\ unit # "exec" => RegionsInv
<1> SUFFICES ASSUME Init, unit # "exec" PROVE RegionsInv
  OBVIOUS
<1>1. PICK guarded \in (IF unit = "eval" THEN {FALSE} ELSE BOOLEAN) :
        frames = << NewFrame(guarded, EntryProtected(guarded), 0) >>
  BY DEF Init
<1>2. CodeOK(frames[1]) /\ frames[1].guarded = guarded /\ DOMAIN frames = {1}
  BY <1>1, NewCodeOK
<1>3. RegionsGuardTheirBodies
  BY DEF Init, NothingClosed, RegionsGuardTheirBodies
<1>4. EvalUnguarded
  BY <1>1, <1>2 DEF EvalUnguarded
<1>5. QED
  BY <1>2, <1>3, <1>4, InitIInv DEF RegionsInv

\* Every operation keeps each instruction with its statement.
LEMMA NextRegionsInv == RegionsInv /\ [Next]_vars => RegionsInv'
<1> SUFFICES ASSUME RegionsInv, [Next]_vars PROVE RegionsInv'
  OBVIOUS
<1> USE BoundsAssumption
<1>1. IInv' /\ unit' # "exec"
  <2>1. unit' = unit
    BY DEF Next, vars, EnterScratch, LeaveScratch, Tmp, EnterTry, LeaveBody,
           TryRegion, EnterFunction, LeaveFunction, LeaveUnit
  <2>2. QED
    BY <2>1, NextIInv DEF RegionsInv
<1> SUFFICES /\ \A n \in DOMAIN frames' : CodeOK(frames'[n])
             /\ EvalUnguarded' /\ RegionsGuardTheirBodies'
  <2>1. RegionsInv' <=> /\ IInv' /\ unit' # "exec"
                        /\ \A n \in DOMAIN frames' : CodeOK(frames'[n])
                        /\ EvalUnguarded' /\ RegionsGuardTheirBodies'
    BY DEF RegionsInv, CodeOK, WithinCode, UsesLocals, HandledBy, IsFirst, IsLast,
           InBody, NoneCovers, Covers, Here, FrameDepth
  <2>2. QED
    BY <1>1, <2>1
<1>2. IInv
  BY DEF RegionsInv
<1>3. frames # << >> => FrameOK(Top) /\ Top \in FrameType /\ CodeOK(Top)
  <2>1. frames # << >> => Len(frames) \in DOMAIN frames
    BY DEF RegionsInv, IInv
  <2>2. QED
    BY <1>2, <2>1, TopOK DEF RegionsInv, Top, FrameOK
<1>4. CASE EnterScratch
  <2> PICK g : g = [Top EXCEPT !.open = Append(@, Mark(Top))]
    OBVIOUS
  <2>1. /\ frames # << >> /\ frames' = WithTop(g) /\ unit' = unit
        /\ closed' = NothingClosed
    BY <1>4 DEF EnterScratch
  <2>2. /\ g.guarded = Top.guarded /\ g.tries = Top.tries /\ g.trying = Top.trying
        /\ g.code = Top.code /\ g.base = Top.base /\ g.scratch = Top.scratch
    BY <1>3, <2>1 DEF FrameType
  <2>3. CodeOK(g)
    <3>1. FrameDepth(g) = FrameDepth(Top) /\ FrameDepth(Top) \in Nat
      BY <1>3, <2>1, <2>2, CodeTypes DEF FrameDepth
    <3>2. FrameDepth(g) \in Nat /\ FrameDepth(Top) <= FrameDepth(g)
      BY <3>1
    <3>3. Top.code \in Seq([uses : SUBSET Nat, handler : Nat]) /\ CodeOK(Top)
      BY <1>3, <2>1, CodeTypes
    <3>4. QED
      BY <2>2, <3>1, <3>2, <3>3, SameCodeOK
  <2>4. QED
    BY <2>1, <2>2, <2>3, TopCodeOK, NothingToGuard
<1>5. CASE LeaveScratch
  <2> PICK g : g = [Top EXCEPT
          !.open = SubSeq(@, 1, Len(@) - 1),
          !.free = [k \in Kinds |->
                      @[k] \cup {idx \in Released(Top) : KindOf(Top, idx) = k}],
          !.live = SubSeq(@, 1, Top.open[Len(Top.open)])]
    OBVIOUS
  <2>1. /\ frames # << >> /\ frames' = WithTop(g) /\ unit' = unit
        /\ closed' = NothingClosed
    BY <1>5 DEF LeaveScratch
  <2>2. /\ g.guarded = Top.guarded /\ g.tries = Top.tries /\ g.trying = Top.trying
        /\ g.code = Top.code /\ g.base = Top.base /\ g.scratch = Top.scratch
    BY <1>3, <2>1 DEF FrameType
  <2>3. CodeOK(g)
    <3>1. FrameDepth(g) = FrameDepth(Top) /\ FrameDepth(Top) \in Nat
      BY <1>3, <2>1, <2>2, CodeTypes DEF FrameDepth
    <3>2. FrameDepth(g) \in Nat /\ FrameDepth(Top) <= FrameDepth(g)
      BY <3>1
    <3>3. Top.code \in Seq([uses : SUBSET Nat, handler : Nat]) /\ CodeOK(Top)
      BY <1>3, <2>1, CodeTypes
    <3>4. QED
      BY <2>2, <3>1, <3>2, <3>3, SameCodeOK
  <2>4. QED
    BY <2>1, <2>2, <2>3, TopCodeOK, NothingToGuard
<1>6. ASSUME NEW k \in Kinds, Tmp(k)
      PROVE  /\ \A n \in DOMAIN frames' : CodeOK(frames'[n])
             /\ EvalUnguarded' /\ RegionsGuardTheirBodies'
  <2>1. PICK h, g, idx : /\ frames' = WithTop(g) /\ g = EmitUse(h, idx)
                         /\ FrameOK(h) /\ FrameOK(g) /\ SameSlots(h, g)
                         /\ idx \in Slots(h)
                         /\ \/ h = WithPeak(Reuse(Top, k, idx), k)
                            \/ h = WithPeak(Grow(Top, k), k)
    BY <1>2, <1>6, TmpSteps
  <2>2. frames # << >> /\ unit' = unit /\ closed' = NothingClosed
    BY <1>2, <1>6, TmpSteps
  <2>3. /\ h.guarded = Top.guarded /\ h.tries = Top.tries /\ h.trying = Top.trying
        /\ h.code = Top.code /\ h.base = Top.base
        /\ h.scratch = Top.scratch \/ h.scratch = Append(Top.scratch, k)
    BY <1>3, <2>1, <2>2 DEF FrameType, WithPeak, Reuse, Grow
  <2>4. h \in FrameType /\ g \in FrameType /\ idx \in Nat
    <3>1. h \in FrameType /\ g \in FrameType
      BY <2>1 DEF FrameOK
    <3>2. QED
      BY <2>1, <3>1, CodeTypes DEF Slots
  <2>5. CodeOK(h)
    <3>1. FrameDepth(Top) <= FrameDepth(h)
      BY <1>3, <2>2, <2>3 DEF FrameDepth, FrameType
    <3>2. QED
      BY <1>3, <2>2, <2>3, <2>4, <3>1, CodeTypes, SameCodeOK
  <2>6. /\ g.trying = h.trying /\ g.tries = h.tries
        /\ g.code = IF h.guarded
                    THEN Append(h.code, [uses |-> {h.base + idx},
                                         handler |-> HandlerHere(h)])
                    ELSE h.code
    BY <2>1, <2>4, EmitUseFacts
  <2>7. g.guarded = h.guarded /\ FrameDepth(g) = FrameDepth(h)
    BY <2>1 DEF SameSlots, FrameDepth
  <2>8. CodeOK(g)
    <3>1. CASE h.guarded
      <4>1. {h.base + idx} \in SUBSET Nat /\ h.base + idx < FrameDepth(h)
        BY <2>1, <2>4, CodeTypes DEF FrameDepth, Slots
      <4>2. QED
        BY <2>1, <2>4, <2>5, <2>6, <3>1, <4>1, EmitCodeOK
    <3>2. CASE ~ h.guarded
      BY <2>4, <2>5, <2>6, <2>7, <3>2, CodeTypes, SameCodeOK
    <3>3. QED
      BY <3>1, <3>2
  <2>9. QED
    BY <2>1, <2>2, <2>3, <2>7, <2>8, TopCodeOK, NothingToGuard
<1>7. CASE EnterTry \/ LeaveBody \/ TryRegion
  <2>1. frames # << >> /\ unit' = unit /\ closed' = NothingClosed
    BY <1>2, <1>7, TrySteps
  <2>2. Top \in FrameType /\ CodeOK(Top)
    BY <1>3, <2>1
  <2>3. LeaveBody \/ TryRegion => Top.guarded /\ Top.trying # << >>
    BY <2>2 DEF LeaveBody, TryRegion, CodeOK
  <2>4. PICK g : frames' = WithTop(g) /\ CodeOK(g) /\ SameSlots(Top, g)
    <3>1. CASE EnterTry
      BY <2>2, <3>1, BeginFacts, BeginCodeOK DEF EnterTry
    <3>2. CASE LeaveBody
      BY <2>2, <2>3, <3>2, EndBodyFacts, EndBodyCodeOK DEF LeaveBody, Innermost
    <3>3. CASE TryRegion
      BY <2>2, <2>3, <3>3, EndTryFacts, EndTryCodeOK DEF TryRegion, Innermost
    <3>4. QED
      BY <1>7, <3>1, <3>2, <3>3
  <2>5. QED
    BY <2>1, <2>4, TopCodeOK, NothingToGuard DEF SameSlots
<1>8. ASSUME NEW guarded \in BOOLEAN, NEW base \in Bases,
             EnterFunction(guarded, base)
      PROVE  /\ \A n \in DOMAIN frames' : CodeOK(frames'[n])
             /\ EvalUnguarded' /\ RegionsGuardTheirBodies'
  <2>1. CodeOK(NewFrame(guarded, guarded, base))
    BY NewCodeOK
  <2>2. /\ DOMAIN frames' = DOMAIN frames \cup {Len(frames) + 1}
        /\ frames'[Len(frames) + 1] = NewFrame(guarded, guarded, base)
        /\ \A n \in DOMAIN frames : frames'[n] = frames[n]
        /\ 1 \in DOMAIN frames
    BY <1>8 DEF EnterFunction, RegionsInv, IInv
  <2>3. frames # << >> /\ unit' = unit /\ closed' = NothingClosed
    BY <1>8 DEF EnterFunction
  <2>4. \A n \in DOMAIN frames' : CodeOK(frames'[n])
    BY <2>1, <2>2 DEF RegionsInv
  <2>5. QED
    BY <2>2, <2>3, <2>4, NothingToGuard DEF RegionsInv, EvalUnguarded
<1>9. CASE LeaveFunction
  <2>1. /\ DOMAIN frames' \subseteq DOMAIN frames /\ frames # << >>
        /\ \A n \in DOMAIN frames' : frames'[n] = frames[n]
        /\ frames' # << >> => 1 \in DOMAIN frames'
    BY <1>9 DEF LeaveFunction, RegionsInv, IInv
  <2>2. RegionsGuardTheirBodies'
    BY <1>3, <1>9, <2>1, FlushedGuards DEF LeaveFunction
  <2>3. unit' = unit
    BY <1>9 DEF LeaveFunction
  <2>4. QED
    BY <2>1, <2>2, <2>3 DEF RegionsInv, EvalUnguarded
<1>10. CASE LeaveUnit
  <2>1. frames # << >> /\ frames' = << >> /\ Top = frames[1] /\ Top.trying = << >>
    BY <1>10 DEF LeaveUnit, Top
  <2>2. CASE unit \in {"program", "importing"}
    <3>1. closed' = FlushTries(Top)
      BY <1>10, <2>2 DEF LeaveUnit
    <3>2. RegionsGuardTheirBodies'
      BY <1>3, <2>1, <3>1, FlushedGuards
    <3>3. QED
      BY <2>1, <3>2 DEF EvalUnguarded
  <2>3. CASE unit = "eval"
    <3>1. closed' = DropTries(Top)
      BY <1>10, <2>3 DEF LeaveUnit
    <3>2. Top.code = << >>
      BY <1>3, <2>1, <2>3 DEF RegionsInv, EvalUnguarded, CodeOK
    <3>3. closed'.code = << >>
      BY <3>1, <3>2 DEF DropTries
    <3>4. QED
      BY <2>1, <3>3 DEF RegionsGuardTheirBodies, EvalUnguarded
  <2>4. unit \in AllUnits
    BY DEF RegionsInv, IInv
  <2>5. QED
    BY <2>2, <2>3, <2>4 DEF AllUnits, RegionsInv
<1>11. CASE UNCHANGED vars
  BY <1>11 DEF vars, RegionsInv, EvalUnguarded, RegionsGuardTheirBodies
<1>12. QED
  BY <1>4, <1>5, <1>6, <1>7, <1>8, <1>9, <1>10, <1>11 DEF Next

\* Outside the sources of exec(), when a frame closes, each of its instructions
\* meets the handler of the innermost statement whose body it stands in, however
\* many try and with statements there are and however they are nested, and that
\* handler is entered above every local the frame's code uses (emitTry, tryRegion,
\* flushTries).
THEOREM RegionsGuard ==
  Spec /\ unit # "exec" => []RegionsGuardTheirBodies
<1>1. RegionsInv => RegionsGuardTheirBodies
  BY DEF RegionsInv
<1>2. QED
  BY <1>1, InitRegionsInv, NextRegionsInv, PTL DEF Spec

-------------------------------------------------------------------------------
(* The leases of SlotLease *)

\* The statement that holds a slot is not written down in lower.go: it is where the
\* reservation stands among the marks of the open scopes, which are in order
\* (ScopesNest). So a scope that closes ends exactly the leases of its statement, and
\* a mark set later never changes the owner of a slot.

MarksBelow(f, at) == {n \in DOMAIN f.open : f.open[n] < at}

LeaseOf(f) ==
  [kind  |-> f.scratch,
   owner |-> [i \in DOMAIN f.scratch |-> OwnerOf(f, i - 1)],
   depth |-> 1 + Len(f.open)]

Leases == [n \in DOMAIN frames |-> LeaseOf(frames[n])]

\* What a step of SlotLease makes of the innermost record.
Opened(r) == [r EXCEPT !.depth = @ + 1]

Ended(r) ==
  [r EXCEPT !.depth = @ - 1,
            !.owner = [i \in DOMAIN r.owner |->
                         IF r.owner[i] = r.depth THEN 0 ELSE r.owner[i]]]

LeasedAgain(r, i) == [r EXCEPT !.owner[i] = r.depth]

LeasedFresh(r, k) == [r EXCEPT !.kind = Append(@, k), !.owner = Append(@, r.depth)]

-------------------------------------------------------------------------------
\* The first n numbers are n.
LEMMA UpTo ==
  ASSUME NEW n \in Nat
  PROVE  IsFiniteSet(1 .. n) /\ Cardinality(1 .. n) = n
BY FS_Interval

\* Appending, written as the function it makes.
LEMMA AppendIs ==
  ASSUME NEW S, NEW s \in Seq(S), NEW e \in S
  PROVE  Append(s, e) = [i \in 1 .. Len(s) + 1 |-> IF i = Len(s) + 1 THEN e ELSE s[i]]
<1>1. /\ Append(s, e) \in Seq(S) /\ Len(Append(s, e)) = Len(s) + 1
      /\ Append(s, e)[Len(s) + 1] = e
      /\ \A i \in 1 .. Len(s) : Append(s, e)[i] = s[i]
  OBVIOUS
<1>2. Append(s, e) \in [1 .. Len(s) + 1 -> S]
  <2>1. \A q \in Seq(S) : q \in [1 .. Len(q) -> S]
    OBVIOUS
  <2>2. QED
    BY <1>1, <2>1
<1>3. ASSUME NEW i \in 1 .. Len(s) + 1
      PROVE  Append(s, e)[i] = IF i = Len(s) + 1 THEN e ELSE s[i]
  BY <1>1
<1>4. QED
  BY <1>2, <1>3

\* The owner of a held slot is read off the marks below its reservation.
LEMMA OwnerAt ==
  ASSUME NEW f, HoldersDistinct(f), NEW i \in DOMAIN f.live
  PROVE  OwnerOf(f, f.live[i]) = 1 + Cardinality(MarksBelow(f, i))
<1> DEFINE at == CHOOSE j \in DOMAIN f.live : f.live[j] = f.live[i]
<1>1. at \in DOMAIN f.live /\ f.live[at] = f.live[i]
  OBVIOUS
<1>2. at = i
  BY <1>1 DEF HoldersDistinct
<1>3. f.live[i] \in Held(f)
  BY DEF Held
<1> HIDE DEF at
<1>4. OwnerOf(f, f.live[i]) = 1 + Cardinality({n \in DOMAIN f.open : f.open[n] < at})
  BY <1>3 DEF OwnerOf, at
<1>5. QED
  BY <1>2, <1>4 DEF MarksBelow

\* The marks below a reservation are some of the frame's open scopes.
LEMMA MarksFinite ==
  ASSUME NEW f, FrameOK(f), NEW at
  PROVE  /\ IsFiniteSet(MarksBelow(f, at))
         /\ Cardinality(MarksBelow(f, at)) \in Nat
<1>1. Len(f.open) \in Nat /\ DOMAIN f.open = 1 .. Len(f.open)
  BY DEF FrameOK, FrameType
<1>2. IsFiniteSet(1 .. Len(f.open))
  BY <1>1, FS_Interval
<1>3. QED
  BY <1>1, <1>2, FS_Subset, FS_CardinalityType DEF MarksBelow

\* A reservation past every mark belongs to the innermost statement.
LEMMA InnermostMarks ==
  ASSUME NEW f, FrameOK(f), NEW at,
         \A n \in DOMAIN f.open : f.open[n] < at
  PROVE  Cardinality(MarksBelow(f, at)) = Len(f.open)
<1>1. Len(f.open) \in Nat /\ DOMAIN f.open = 1 .. Len(f.open)
  BY DEF FrameOK, FrameType
<1>2. MarksBelow(f, at) = 1 .. Len(f.open)
  BY <1>1 DEF MarksBelow
<1>3. QED
  BY <1>1, <1>2, FS_Interval

\* A reservation within the innermost mark belongs to a statement around it.
LEMMA OuterMarks ==
  ASSUME NEW f, FrameOK(f), f.open # << >>, NEW at,
         ~ (f.open[Len(f.open)] < at)
  PROVE  Cardinality(MarksBelow(f, at)) # Len(f.open)
<1>1. /\ Len(f.open) \in Nat \ {0} /\ DOMAIN f.open = 1 .. Len(f.open)
  BY DEF FrameOK, FrameType
<1>2. MarksBelow(f, at) \subseteq 1 .. Len(f.open) - 1
  <2> SUFFICES ASSUME NEW n \in MarksBelow(f, at) PROVE n \in 1 .. Len(f.open) - 1
    OBVIOUS
  <2>1. n \in 1 .. Len(f.open) /\ f.open[n] < at
    BY <1>1 DEF MarksBelow
  <2>2. n # Len(f.open)
    BY <2>1
  <2>3. QED
    BY <1>1, <2>1, <2>2
<1>3. /\ IsFiniteSet(1 .. Len(f.open) - 1)
      /\ Cardinality(1 .. Len(f.open) - 1) = Len(f.open) - 1
  <2>1. Len(f.open) - 1 \in Nat
    BY <1>1
  <2>2. QED
    BY <2>1, UpTo
<1>4. Cardinality(MarksBelow(f, at)) <= Len(f.open) - 1
  BY <1>2, <1>3, FS_Subset
<1>5. Cardinality(MarksBelow(f, at)) \in Nat
  BY MarksFinite
<1>6. QED
  BY <1>1, <1>4, <1>5

-------------------------------------------------------------------------------
\* A fresh frame leases nothing.
LEMMA NewLease ==
  ASSUME NEW guarded, NEW protected, NEW base
  PROVE  LeaseOf(NewFrame(guarded, protected, base)) = Lease!EmptyFrame
BY DEF LeaseOf, NewFrame, Lease!EmptyFrame

\* What keeps slots, reservations and scopes keeps the leases (tryRegion, peak).
LEMMA SameLease ==
  ASSUME NEW f, NEW g, g.scratch = f.scratch, g.live = f.live, g.open = f.open
  PROVE  LeaseOf(g) = LeaseOf(f)
BY DEF LeaseOf, OwnerOf, Held

\* A new scope stands past every reservation: no slot changes its owner.
LEMMA OpenLease ==
  ASSUME NEW f, FrameOK(f), NEW g,
         g.scratch = f.scratch, g.live = f.live, g.open = Append(f.open, Len(f.live))
  PROVE  LeaseOf(g) = Opened(LeaseOf(f))
<1>1. f.open \in Seq(Nat) /\ f.live \in Seq(Nat) /\ f.scratch \in Seq(Kinds)
  BY DEF FrameOK, FrameType
<1>2. Held(g) = Held(f) /\ HoldersDistinct(f) /\ HoldersDistinct(g)
  BY DEF Held, FrameOK, HoldersDistinct
<1>3. ASSUME NEW i \in DOMAIN f.live PROVE MarksBelow(g, i) = MarksBelow(f, i)
  BY <1>1 DEF MarksBelow
<1>4. ASSUME NEW idx PROVE OwnerOf(g, idx) = OwnerOf(f, idx)
  <2>1. CASE idx \in Held(f)
    <3>1. PICK i \in DOMAIN f.live : idx = f.live[i]
      BY <2>1 DEF Held
    <3>2. OwnerOf(f, idx) = 1 + Cardinality(MarksBelow(f, i))
      BY <1>2, <3>1, OwnerAt
    <3>3. OwnerOf(g, idx) = 1 + Cardinality(MarksBelow(g, i))
      BY <1>2, <3>1, OwnerAt
    <3>4. QED
      BY <1>3, <3>2, <3>3
  <2>2. CASE idx \notin Held(f)
    BY <1>2, <2>2 DEF OwnerOf
  <2>3. QED
    BY <2>1, <2>2
<1>5. Len(g.open) = Len(f.open) + 1
  BY <1>1
<1>6. LeaseOf(g).owner = LeaseOf(f).owner
  BY <1>4 DEF LeaseOf
<1>7. LeaseOf(g).depth = LeaseOf(f).depth + 1
  BY <1>1, <1>5 DEF LeaseOf
<1>8. QED
  <2> DEFINE owner == LeaseOf(f).owner
             depth == LeaseOf(f).depth
  <2>1. /\ LeaseOf(f) = [kind |-> f.scratch, owner |-> owner, depth |-> depth]
        /\ LeaseOf(g) = [kind |-> f.scratch, owner |-> owner, depth |-> depth + 1]
    BY <1>6, <1>7 DEF LeaseOf
  <2> HIDE DEF owner, depth
  <2>2. QED
    BY <2>1 DEF Opened

\* A scope that closes ends the leases past its mark and no other.
LEMMA CloseLease ==
  ASSUME NEW f, FrameOK(f), f.open # << >>, NEW g, g.scratch = f.scratch,
         NEW mark, mark = f.open[Len(f.open)],
         DOMAIN g.live = 1 .. mark, \A i \in 1 .. mark : g.live[i] = f.live[i],
         Len(g.open) = Len(f.open) - 1, DOMAIN g.open = 1 .. Len(f.open) - 1,
         \A n \in DOMAIN g.open : g.open[n] = f.open[n]
  PROVE  /\ LeaseOf(f).depth > 1
         /\ LeaseOf(g) = Ended(LeaseOf(f))
<1>1. /\ f.open \in Seq(Nat) /\ f.live \in Seq(Nat) /\ f.scratch \in Seq(Kinds)
      /\ HoldersDistinct(f) /\ ScopesNest(f)
  BY DEF FrameOK, FrameType
<1>2. /\ Len(f.open) \in Nat \ {0} /\ Len(f.open) \in DOMAIN f.open
      /\ DOMAIN f.open = 1 .. Len(f.open)
      /\ Len(f.live) \in Nat /\ DOMAIN f.live = 1 .. Len(f.live)
  BY <1>1
<1>3. mark \in Nat /\ mark <= Len(f.live) /\ \A n \in DOMAIN f.open : f.open[n] <= mark
  <2>1. \A n \in DOMAIN f.open : n <= Len(f.open)
    BY <1>2
  <2>2. mark \in Nat
    BY <1>1, <1>2
  <2>3. mark <= Len(f.live)
    BY <1>1, <1>2 DEF ScopesNest
  <2>4. \A n \in DOMAIN f.open : f.open[n] <= mark
    BY <1>1, <1>2, <2>1 DEF ScopesNest
  <2>5. QED
    BY <2>2, <2>3, <2>4
<1>4. HoldersDistinct(g)
  <2>1. /\ DOMAIN g.live \subseteq DOMAIN f.live
        /\ \A i \in DOMAIN g.live : g.live[i] = f.live[i]
    BY <1>2, <1>3
  <2>2. QED
    BY <1>1, <2>1 DEF HoldersDistinct
<1>5. ASSUME NEW i \in 1 .. mark PROVE MarksBelow(g, i) = MarksBelow(f, i)
  <2>1. Len(f.open) \notin MarksBelow(f, i)
    BY <1>3 DEF MarksBelow
  <2>2. QED
    BY <1>2, <2>1 DEF MarksBelow
<1>6. ASSUME NEW idx
      PROVE  OwnerOf(g, idx) = IF OwnerOf(f, idx) = 1 + Len(f.open) THEN 0
                               ELSE OwnerOf(f, idx)
  <2>1. CASE idx \notin Held(f)
    <3>1. idx \notin Held(g)
      <4>1. \A j \in DOMAIN g.live : j \in DOMAIN f.live /\ g.live[j] = f.live[j]
        BY <1>2, <1>3
      <4>2. QED
        BY <2>1, <4>1 DEF Held
    <3>2. QED
      BY <2>1, <3>1 DEF OwnerOf
  <2>2. CASE idx \in Held(f)
    <3>1. PICK i \in DOMAIN f.live : idx = f.live[i]
      BY <2>2 DEF Held
    <3>2. OwnerOf(f, idx) = 1 + Cardinality(MarksBelow(f, i))
      BY <1>1, <3>1, OwnerAt
    <3>3. Cardinality(MarksBelow(f, i)) \in Nat
      BY MarksFinite
    <3>4. CASE i <= mark
      <4>1. i \in 1 .. mark
        BY <1>2, <1>3, <3>4
      <4>2. OwnerOf(g, idx) = 1 + Cardinality(MarksBelow(g, i))
        BY <1>4, <3>1, <4>1, OwnerAt
      <4>3. Cardinality(MarksBelow(f, i)) # Len(f.open)
        BY <1>2, <1>3, <3>4, OuterMarks
      <4>4. QED
        BY <1>2, <1>5, <3>2, <3>3, <4>1, <4>2, <4>3
    <3>5. CASE ~ (i <= mark)
      <4>1. Cardinality(MarksBelow(f, i)) = Len(f.open)
        <5>1. \A n \in DOMAIN f.open : f.open[n] < i
          BY <1>1, <1>2, <1>3, <3>5, SMTT(30)
        <5>2. QED
          BY <5>1, InnermostMarks
      <4>2. idx \notin Held(g)
        <5>1. \A j \in DOMAIN g.live : g.live[j] # idx
          <6>1. \A j \in DOMAIN g.live :
                  j \in DOMAIN f.live /\ j # i /\ g.live[j] = f.live[j]
            BY <1>2, <1>3, <3>1, <3>5
          <6>2. QED
            BY <1>1, <3>1, <6>1 DEF HoldersDistinct
        <5>2. QED
          BY <5>1 DEF Held
      <4>3. QED
        BY <3>2, <4>1, <4>2 DEF OwnerOf
    <3>6. QED
      BY <3>4, <3>5
  <2>3. QED
    BY <2>1, <2>2
<1>7. LeaseOf(f).depth > 1
  BY <1>2 DEF LeaseOf
<1>8. /\ LeaseOf(f).owner = [i \in DOMAIN f.scratch |-> OwnerOf(f, i - 1)]
       /\ LeaseOf(f).depth = 1 + Len(f.open)
  BY DEF LeaseOf
<1>9. LeaseOf(g).owner =
         [i \in DOMAIN LeaseOf(f).owner |->
            IF LeaseOf(f).owner[i] = LeaseOf(f).depth THEN 0 ELSE LeaseOf(f).owner[i]]
  BY <1>6, <1>8 DEF LeaseOf
<1>10. LeaseOf(g).depth = LeaseOf(f).depth - 1 /\ LeaseOf(g).kind = LeaseOf(f).kind
  BY <1>2 DEF LeaseOf
<1>11. QED
  <2> DEFINE owner == LeaseOf(g).owner
             depth == LeaseOf(g).depth
             owner0 == LeaseOf(f).owner
             depth0 == LeaseOf(f).depth
  <2>1. LeaseOf(g) = [kind |-> f.scratch, owner |-> owner, depth |-> depth]
    BY <1>10 DEF LeaseOf
  <2>2. LeaseOf(f) = [kind |-> f.scratch, owner |-> owner0, depth |-> depth0]
    BY DEF LeaseOf
  <2> HIDE DEF owner, depth, owner0, depth0
  <2>3. [LeaseOf(f) EXCEPT !.depth = depth, !.owner = owner]
          = [kind |-> f.scratch, owner |-> owner, depth |-> depth]
    <3>1. [LeaseOf(f) EXCEPT !.depth = depth]
            = [kind |-> f.scratch, owner |-> owner0, depth |-> depth]
      BY <2>2
    <3>2. [LeaseOf(f) EXCEPT !.depth = depth, !.owner = owner]
            = [[LeaseOf(f) EXCEPT !.depth = depth] EXCEPT !.owner = owner]
      BY <2>2
    <3>3. [[kind |-> f.scratch, owner |-> owner0, depth |-> depth] EXCEPT !.owner = owner]
            = [kind |-> f.scratch, owner |-> owner, depth |-> depth]
      OBVIOUS
    <3>4. QED
      BY <3>1, <3>2, <3>3
  <2>4. QED
    BY <1>7, <1>9, <1>10, <2>1, <2>3 DEF owner, depth, Ended

\* A new reservation belongs to the innermost statement, and every other slot
\* stays with the statement that holds it.
LEMMA ReservedOwner ==
  ASSUME NEW f, FrameOK(f), NEW idx \in Nat, idx \notin Held(f),
         NEW g, g.live = Append(f.live, idx), g.open = f.open, HoldersDistinct(g)
  PROVE  /\ OwnerOf(g, idx) = 1 + Len(f.open)
         /\ \A jdx : jdx # idx => OwnerOf(g, jdx) = OwnerOf(f, jdx)
<1>1. /\ f.open \in Seq(Nat) /\ f.live \in Seq(Nat)
      /\ HoldersDistinct(f) /\ ScopesNest(f)
  BY DEF FrameOK, FrameType
<1>2. /\ Len(f.live) + 1 \in DOMAIN g.live /\ g.live[Len(f.live) + 1] = idx
      /\ DOMAIN f.live \subseteq DOMAIN g.live
      /\ \A i \in DOMAIN f.live : g.live[i] = f.live[i]
  BY <1>1
<1>3. Held(g) = Held(f) \cup {idx}
  BY <1>1, HeldAppend
<1>4. \A at : MarksBelow(g, at) = MarksBelow(f, at)
  BY DEF MarksBelow
<1>5. OwnerOf(g, idx) = 1 + Len(f.open)
  <2>1. \A n \in DOMAIN f.open : f.open[n] < Len(f.live) + 1
    BY <1>1 DEF ScopesNest
  <2>2. Cardinality(MarksBelow(f, Len(f.live) + 1)) = Len(f.open)
    BY <2>1, InnermostMarks
  <2>3. OwnerOf(g, idx) = 1 + Cardinality(MarksBelow(g, Len(f.live) + 1))
    BY <1>2, OwnerAt
  <2>4. QED
    BY <1>4, <2>2, <2>3
<1>6. ASSUME NEW jdx, jdx # idx PROVE OwnerOf(g, jdx) = OwnerOf(f, jdx)
  <2>1. CASE jdx \in Held(f)
    <3>1. PICK i \in DOMAIN f.live : jdx = f.live[i]
      BY <2>1 DEF Held
    <3>2. OwnerOf(f, jdx) = 1 + Cardinality(MarksBelow(f, i))
      BY <1>1, <3>1, OwnerAt
    <3>3. OwnerOf(g, jdx) = 1 + Cardinality(MarksBelow(g, i))
      BY <1>2, <3>1, OwnerAt
    <3>4. QED
      BY <1>4, <3>2, <3>3
  <2>2. CASE jdx \notin Held(f)
    <3>1. jdx \notin Held(g)
      BY <1>3, <1>6, <2>2
    <3>2. QED
      BY <2>2, <3>1 DEF OwnerOf
  <2>3. QED
    BY <2>1, <2>2
<1>7. QED
  BY <1>5, <1>6

\* A slot handed out again was nobody's and is the innermost statement's.
LEMMA AgainLease ==
  ASSUME NEW f, FrameOK(f), NEW k \in Kinds, NEW idx \in f.free[k]
  PROVE  /\ idx + 1 \in DOMAIN LeaseOf(f).owner
         /\ LeaseOf(f).owner[idx + 1] = 0
         /\ LeaseOf(f).kind[idx + 1] = k
         /\ LeaseOf(WithPeak(Reuse(f, k, idx), k)) =
              LeasedAgain(LeaseOf(f), idx + 1)
<1> DEFINE h == Reuse(f, k, idx)
           g == WithPeak(h, k)
<1>1. f.scratch \in Seq(Kinds) /\ f.free \in [Kinds -> SUBSET Nat]
  BY DEF FrameOK, FrameType
<1>2. /\ h.scratch = f.scratch /\ h.live = Append(f.live, idx) /\ h.open = f.open
  BY DEF FrameOK, FrameType, Reuse
<1>3. g.scratch = h.scratch /\ g.live = h.live /\ g.open = h.open
  BY DEF FrameOK, FrameType, Reuse, WithPeak
<1>4. FrameOK(h)
  BY ReuseOK
<1> HIDE DEF h, g
<1>5. LeaseOf(g) = LeaseOf(h)
  BY <1>3, SameLease
<1>6. idx \in Nat /\ idx \in Slots(f) /\ idx \notin Held(f) /\ KindOf(f, idx) = k
  BY <1>1 DEF FrameOK, FreeNotHeld
<1>7. /\ OwnerOf(h, idx) = 1 + Len(f.open)
      /\ \A jdx : jdx # idx => OwnerOf(h, jdx) = OwnerOf(f, jdx)
  BY <1>2, <1>4, <1>6, ReservedOwner DEF FrameOK
<1>8. idx + 1 \in DOMAIN f.scratch /\ DOMAIN f.scratch = 1 .. Len(f.scratch)
  BY <1>1, <1>6 DEF Slots
<1>9. LeaseOf(f).owner[idx + 1] = 0 /\ LeaseOf(f).kind[idx + 1] = k
  <2>1. OwnerOf(f, idx) = 0
    BY <1>6 DEF OwnerOf
  <2>2. (idx + 1) - 1 = idx
    BY <1>6
  <2>3. QED
    BY <1>6, <1>8, <2>1, <2>2 DEF LeaseOf, KindOf
<1>10. LeaseOf(h).owner = [LeaseOf(f).owner EXCEPT ![idx + 1] = LeaseOf(f).depth]
  <2>1. ASSUME NEW i \in DOMAIN f.scratch
        PROVE  OwnerOf(h, i - 1) = IF i = idx + 1 THEN 1 + Len(f.open)
                                   ELSE OwnerOf(f, i - 1)
    <3>1. i - 1 = idx <=> i = idx + 1
      BY <1>6, <1>8
    <3>2. QED
      BY <1>7, <3>1
  <2>2. QED
    BY <1>2, <1>8, <2>1 DEF LeaseOf
<1>11. LeaseOf(h) = [LeaseOf(f) EXCEPT !.owner[idx + 1] = LeaseOf(f).depth]
  <2> DEFINE owner == LeaseOf(f).owner
             depth == LeaseOf(f).depth
  <2>1. LeaseOf(f) = [kind |-> f.scratch, owner |-> owner, depth |-> depth]
    BY DEF LeaseOf
  <2>2. LeaseOf(h) = [kind  |-> f.scratch,
                      owner |-> [owner EXCEPT ![idx + 1] = depth],
                      depth |-> depth]
    BY <1>2, <1>10 DEF LeaseOf
  <2> HIDE DEF owner, depth
  <2>3. [LeaseOf(f) EXCEPT !.owner[idx + 1] = depth] =
          [kind |-> f.scratch, owner |-> [owner EXCEPT ![idx + 1] = depth],
           depth |-> depth]
    BY <2>1
  <2>4. QED
    BY <2>2, <2>3 DEF depth
<1>12. idx + 1 \in DOMAIN LeaseOf(f).owner
  BY <1>8 DEF LeaseOf
<1>13. QED
  BY <1>5, <1>9, <1>11, <1>12 DEF g, h, LeasedAgain

\* A grown frame leases its new slot to the innermost statement.
LEMMA FreshLease ==
  ASSUME NEW f, FrameOK(f), NEW k \in Kinds
  PROVE  LeaseOf(WithPeak(Grow(f, k), k)) = LeasedFresh(LeaseOf(f), k)
<1> DEFINE h == Grow(f, k)
           g == WithPeak(h, k)
<1>1. f.scratch \in Seq(Kinds) /\ Len(f.scratch) \in Nat
  BY DEF FrameOK, FrameType
<1>2. /\ h.scratch = Append(f.scratch, k) /\ h.open = f.open
      /\ h.live = Append(f.live, Len(f.scratch))
  BY DEF FrameOK, FrameType, Grow
<1>3. g.scratch = h.scratch /\ g.live = h.live /\ g.open = h.open
  BY DEF FrameOK, FrameType, Grow, WithPeak
<1>4. FrameOK(h)
  BY GrowOK
<1> HIDE DEF h, g
<1>5. LeaseOf(g) = LeaseOf(h)
  BY <1>3, SameLease
<1>6. Len(f.scratch) \notin Held(f)
  BY <1>1 DEF FrameOK, HeldDeclared, Held, Slots
<1>7. /\ OwnerOf(h, Len(f.scratch)) = 1 + Len(f.open)
      /\ \A jdx : jdx # Len(f.scratch) => OwnerOf(h, jdx) = OwnerOf(f, jdx)
  BY <1>1, <1>2, <1>4, <1>6, ReservedOwner DEF FrameOK
<1> DEFINE owner == LeaseOf(f).owner
           depth == LeaseOf(f).depth
<1>8. owner = [i \in 1 .. Len(f.scratch) |-> OwnerOf(f, i - 1)] /\ depth = 1 + Len(f.open)
  BY <1>1 DEF LeaseOf
<1>9. LeaseOf(h).owner = [i \in 1 .. Len(f.scratch) + 1 |-> OwnerOf(h, i - 1)]
  BY <1>1, <1>2 DEF LeaseOf
<1>10. LeaseOf(f) = [kind |-> f.scratch, owner |-> owner, depth |-> depth]
  BY DEF LeaseOf
<1> HIDE DEF owner, depth
<1>11. LeaseOf(h).owner = Append(owner, depth)
  <2>1. /\ Len(owner) = Len(f.scratch) /\ DOMAIN owner = 1 .. Len(f.scratch)
    BY <1>1, <1>8
  <2>2. Append(owner, depth) =
          [i \in 1 .. Len(f.scratch) + 1 |->
             IF i = Len(f.scratch) + 1 THEN depth ELSE owner[i]]
    <3> DEFINE S == {owner[i] : i \in 1 .. Len(f.scratch)} \cup {depth}
    <3>1. owner \in Seq(S) /\ depth \in S
      BY <1>1, <1>8
    <3> HIDE DEF S
    <3>2. QED
      BY <2>1, <3>1, AppendIs
  <2>3. ASSUME NEW i \in 1 .. Len(f.scratch) + 1
        PROVE  OwnerOf(h, i - 1) = IF i = Len(f.scratch) + 1 THEN depth ELSE owner[i]
    <3>1. i - 1 = Len(f.scratch) <=> i = Len(f.scratch) + 1
      BY <1>1
    <3>2. CASE i = Len(f.scratch) + 1
      BY <1>7, <1>8, <3>1, <3>2
    <3>3. CASE i # Len(f.scratch) + 1
      <4>1. i \in 1 .. Len(f.scratch)
        BY <1>1, <3>3
      <4>2. QED
        BY <1>7, <1>8, <3>1, <3>3, <4>1
    <3>4. QED
      BY <3>2, <3>3
  <2>4. QED
    BY <1>9, <2>2, <2>3
<1>12. LeaseOf(h) = [kind |-> Append(f.scratch, k), owner |-> Append(owner, depth),
                     depth |-> depth]
  BY <1>2, <1>11 DEF LeaseOf, depth
<1>13. [LeaseOf(f) EXCEPT !.kind = Append(@, k), !.owner = Append(@, depth)] =
         [kind |-> Append(f.scratch, k), owner |-> Append(owner, depth),
          depth |-> depth]
  <2> DEFINE kind1 == Append(f.scratch, k)
             owner1 == Append(owner, depth)
  <2>1. LeaseOf(f).kind = f.scratch /\ LeaseOf(f).owner = owner
    BY <1>10
  <2>2. [LeaseOf(f) EXCEPT !.kind = Append(@, k), !.owner = Append(@, depth)] =
          [LeaseOf(f) EXCEPT !.kind = kind1, !.owner = owner1]
    BY <2>1
  <2> HIDE DEF kind1, owner1
  <2>3. [LeaseOf(f) EXCEPT !.kind = kind1] =
          [kind |-> kind1, owner |-> owner, depth |-> depth]
    BY <1>10
  <2>4. [LeaseOf(f) EXCEPT !.kind = kind1, !.owner = owner1] =
          [[LeaseOf(f) EXCEPT !.kind = kind1] EXCEPT !.owner = owner1]
    BY <1>10
  <2>5. [[kind |-> kind1, owner |-> owner, depth |-> depth] EXCEPT !.owner = owner1] =
          [kind |-> kind1, owner |-> owner1, depth |-> depth]
    OBVIOUS
  <2>6. QED
    BY <2>2, <2>3, <2>4, <2>5 DEF kind1, owner1
<1>14. QED
  BY <1>5, <1>12, <1>13 DEF g, h, depth, LeasedFresh

-------------------------------------------------------------------------------
\* There is one lease record per frame, the innermost last.
LEMMA LeasesTop ==
  ASSUME IInv, frames # << >>
  PROVE  /\ Leases # << >> /\ Len(Leases) = Len(frames)
         /\ Leases[Len(Leases)] = LeaseOf(Top)
<1>1. Len(frames) \in Nat \ {0} /\ DOMAIN frames = 1 .. Len(frames)
  BY DEF IInv
<1>2. Leases = [n \in 1 .. Len(frames) |-> LeaseOf(frames[n])]
  BY <1>1 DEF Leases
<1>3. Len(Leases) = Len(frames)
  BY <1>1, <1>2
<1>4. Leases # << >>
  BY <1>1, <1>3
<1>5. QED
  BY <1>1, <1>2, <1>3, <1>4 DEF Top

\* A step on the innermost frame is a step on the innermost leases.
LEMMA LeasesWithTop ==
  ASSUME IInv, frames # << >>, NEW g, frames' = WithTop(g)
  PROVE  Leases' = [Leases EXCEPT ![Len(Leases)] = LeaseOf(g)]
<1>1. Len(frames) \in Nat \ {0} /\ DOMAIN frames = 1 .. Len(frames)
  BY DEF IInv
<1>2. /\ DOMAIN frames' = DOMAIN frames
      /\ \A n \in DOMAIN frames :
           frames'[n] = IF n = Len(frames) THEN g ELSE frames[n]
  BY <1>1 DEF WithTop
<1>3. Leases' = [n \in DOMAIN frames |->
                   IF n = Len(frames) THEN LeaseOf(g) ELSE LeaseOf(frames[n])]
  BY <1>2 DEF Leases
<1>4. Len(Leases) = Len(frames)
  BY LeasesTop
<1>5. QED
  BY <1>3, <1>4 DEF Leases

\* The steps of SlotLease on the innermost record, with Leases for its state.
LEMMA LeaseSteps ==
  ASSUME NEW k
  PROVE  LET top  == Leases[Len(Leases)]
             To(r) == Leases' = [Leases EXCEPT ![Len(Leases)] = r]
         IN  Leases # << >> =>
               /\ To(Opened(top)) => Lease!Open
               /\ top.depth > 1 /\ To(Ended(top)) => Lease!Close
               /\ (\E i \in DOMAIN top.owner :
                     top.owner[i] = 0 /\ top.kind[i] = k /\ To(LeasedAgain(top, i)))
                  => Lease!LeaseAgain(k)
               /\ To(LeasedFresh(top, k)) => Lease!LeaseFresh(k)
BY DEF Lease!Open, Lease!Close, Lease!LeaseAgain, Lease!LeaseFresh, Lease!WithTop,
       Lease!Top, Leases, LeaseOf, Opened, Ended, LeasedAgain, LeasedFresh

\* The first frame of a unit leases nothing.
LEMMA InitLeases == Init => Lease!Init
<1> SUFFICES ASSUME Init PROVE Lease!Init
  OBVIOUS
<1>1. PICK guarded : frames = << NewFrame(guarded, EntryProtected(guarded), 0) >>
  BY DEF Init
<1>2. Leases = << Lease!EmptyFrame >>
  BY <1>1, NewLease DEF Leases
<1>3. QED
  BY <1>2 DEF Lease!Init, Leases, LeaseOf

\* What an action of the pool does to its frames is a step of the leases or
\* leaves them as they are.
LEMMA StepLeases ==
  ASSUME IInv, Next \/ UNCHANGED vars
  PROVE  Lease!Next \/ Leases' = Leases
<1> USE BoundsAssumption
<1>1. CASE EnterScratch
  <2> DEFINE g == [Top EXCEPT !.open = Append(@, Len(Top.live))]
  <2>1. frames # << >> /\ frames' = WithTop(g) /\ FrameOK(Top)
    BY <1>1, TopOK DEF EnterScratch, Mark
  <2>2. /\ g.scratch = Top.scratch /\ g.live = Top.live
        /\ g.open = Append(Top.open, Len(Top.live))
    BY <2>1 DEF FrameOK, FrameType
  <2> HIDE DEF g
  <2>3. LeaseOf(g) = Opened(LeaseOf(Top))
    BY <2>1, <2>2, OpenLease
  <2>4. Lease!Open
    BY <2>1, <2>3, LeasesTop, LeasesWithTop, LeaseSteps
  <2>5. QED
    BY <2>4 DEF Lease!Next
<1>2. CASE LeaveScratch
  <2> DEFINE mark == Top.open[Len(Top.open)]
             g == [Top EXCEPT
                     !.open = SubSeq(@, 1, Len(@) - 1),
                     !.free = [k \in Kinds |->
                                 @[k] \cup {idx \in Released(Top) : KindOf(Top, idx) = k}],
                     !.live = SubSeq(@, 1, Top.open[Len(Top.open)])]
  <2>1. frames # << >> /\ frames' = WithTop(g) /\ FrameOK(Top) /\ Top.open # << >>
    BY <1>2, TopOK DEF LeaveScratch
  <2>2. /\ g.scratch = Top.scratch
        /\ g.live = SubSeq(Top.live, 1, mark)
        /\ g.open = SubSeq(Top.open, 1, Len(Top.open) - 1)
    BY <2>1 DEF FrameOK, FrameType
  <2> HIDE DEF g
  <2>3. Top.open \in Seq(Nat) /\ Top.live \in Seq(Nat)
    BY <2>1 DEF FrameOK, FrameType
  <2>4. mark \in Nat /\ mark <= Len(Top.live)
    BY <2>1, <2>3 DEF FrameOK, ScopesNest
  <2> HIDE DEF mark
  <2>5. DOMAIN g.live = 1 .. mark /\ \A i \in 1 .. mark : g.live[i] = Top.live[i]
    BY <2>2, <2>3, <2>4, SubSeqKept
  <2>6. /\ Len(g.open) = Len(Top.open) - 1
        /\ DOMAIN g.open = 1 .. Len(Top.open) - 1
        /\ \A n \in DOMAIN g.open : g.open[n] = Top.open[n]
    <3>1. Len(Top.open) - 1 \in Nat /\ Len(Top.open) - 1 <= Len(Top.open)
      BY <2>1, <2>3
    <3>2. QED
      BY <2>2, <2>3, <3>1, SubSeqKept
  <2>7. /\ LeaseOf(Top).depth > 1
        /\ LeaseOf(g) = Ended(LeaseOf(Top))
    <3>1. mark = Top.open[Len(Top.open)]
      BY DEF mark
    <3>2. QED
      BY <2>1, <2>2, <2>5, <2>6, <3>1, CloseLease
  <2>8. Lease!Close
    BY <2>1, <2>7, LeasesTop, LeasesWithTop, LeaseSteps
  <2>9. QED
    BY <2>8 DEF Lease!Next
<1>3. ASSUME NEW k \in Kinds, Tmp(k) PROVE Lease!Next
  <2>1. PICK h, g, idx :
          /\ frames' = WithTop(g) /\ SameSlots(h, g)
          /\ \/ idx \in Top.free[k] /\ h = WithPeak(Reuse(Top, k, idx), k)
             \/ Top.free[k] = {} /\ h = WithPeak(Grow(Top, k), k)
    BY <1>3, TmpSteps
  <2>2. frames # << >> /\ FrameOK(Top)
    BY <1>3, TmpSteps
  <2>3. LeaseOf(g) = LeaseOf(h)
    BY <2>1, SameLease DEF SameSlots
  <2>4. CASE idx \in Top.free[k] /\ h = WithPeak(Reuse(Top, k, idx), k)
    <3> DEFINE i == idx + 1
    <3>1. /\ i \in DOMAIN LeaseOf(Top).owner
          /\ LeaseOf(Top).owner[i] = 0 /\ LeaseOf(Top).kind[i] = k
          /\ LeaseOf(h) = LeasedAgain(LeaseOf(Top), i)
      BY <2>2, <2>4, AgainLease
    <3> HIDE DEF i
    <3>2. Lease!LeaseAgain(k)
      BY <2>1, <2>2, <2>3, <3>1, LeasesTop, LeasesWithTop, LeaseSteps
    <3>3. QED
      BY <3>2 DEF Lease!Next
  <2>5. CASE h = WithPeak(Grow(Top, k), k)
    <3>1. LeaseOf(h) = LeasedFresh(LeaseOf(Top), k)
      BY <2>2, <2>5, FreshLease
    <3>2. Lease!LeaseFresh(k)
      BY <2>1, <2>2, <2>3, <3>1, LeasesTop, LeasesWithTop, LeaseSteps
    <3>3. QED
      BY <3>2 DEF Lease!Next
  <2>6. QED
    BY <2>1, <2>4, <2>5
<1>4. CASE EnterTry \/ LeaveBody \/ TryRegion
  <2>1. PICK g : frames' = WithTop(g) /\ SameSlots(Top, g)
    BY <1>4, TrySteps
  <2>2. frames # << >>
    BY <1>4, TrySteps
  <2>3. LeaseOf(g) = LeaseOf(Top)
    BY <2>1, SameLease DEF SameSlots
  <2>4. Leases' = [Leases EXCEPT ![Len(Leases)] = Leases[Len(Leases)]]
    BY <2>1, <2>2, <2>3, LeasesTop, LeasesWithTop
  <2>5. QED
    BY <2>4 DEF Leases
<1>5. ASSUME NEW guarded \in BOOLEAN, NEW base \in Bases,
             EnterFunction(guarded, base)
      PROVE  Lease!Next
  <2>1. frames # << >> /\ frames' = Append(frames, NewFrame(guarded, guarded, base))
    BY <1>5 DEF EnterFunction
  <2>2. Leases' = Append(Leases, Lease!EmptyFrame)
    <3>1. Leases = [n \in 1 .. Len(frames) |-> LeaseOf(frames[n])]
      BY DEF Leases, IInv
    <3>2. Leases' = [n \in 1 .. Len(frames) + 1 |->
                       IF n = Len(frames) + 1 THEN Lease!EmptyFrame
                       ELSE LeaseOf(frames[n])]
      <4>1. /\ DOMAIN frames' = 1 .. Len(frames) + 1
            /\ \A n \in 1 .. Len(frames) + 1 :
                 frames'[n] = IF n = Len(frames) + 1
                              THEN NewFrame(guarded, guarded, base) ELSE frames[n]
        BY <2>1 DEF IInv
      <4>2. QED
        BY <4>1, NewLease DEF Leases
    <3> DEFINE S == {Leases[n] : n \in 1 .. Len(frames)} \cup {Lease!EmptyFrame}
    <3>3. Len(frames) \in Nat
      BY DEF IInv
    <3>4. Leases \in Seq(S) /\ Len(Leases) = Len(frames) /\ Lease!EmptyFrame \in S
      BY <3>1, <3>3
    <3> HIDE DEF S
    <3>5. Append(Leases, Lease!EmptyFrame) =
            [n \in 1 .. Len(Leases) + 1 |->
               IF n = Len(Leases) + 1 THEN Lease!EmptyFrame ELSE Leases[n]]
      BY <3>4, AppendIs
    <3>6. QED
      BY <3>1, <3>2, <3>3, <3>4, <3>5
  <2>3. Lease!EnterFrame
    <3>1. Leases # << >>
      BY <2>1, LeasesTop
    <3>2. QED
      BY ONLY <2>2, <3>1 DEF Lease!EnterFrame, Leases, LeaseOf
  <2>4. QED
    BY <2>3 DEF Lease!Next
<1>6. CASE LeaveFunction \/ LeaveUnit
  <2>1. frames # << >> /\ Len(frames) \in Nat \ {0}
    <3>1. Len(frames) > 1 \/ Len(frames) = 1
      BY <1>6 DEF LeaveFunction, LeaveUnit
    <3>2. frames \in Seq({f \in FrameType : FrameOK(f)})
      BY DEF IInv
    <3>3. QED
      BY <3>1, <3>2
  <2>2. frames' = SubSeq(frames, 1, Len(frames) - 1)
    <3>1. CASE LeaveFunction
      BY <3>1 DEF LeaveFunction
    <3>2. CASE LeaveUnit
      <4>1. Len(frames) = 1 /\ frames' = << >>
        BY <3>2 DEF LeaveUnit
      <4>2. SubSeq(frames, 1, 0) = << >>
        BY DEF IInv
      <4>3. QED
        BY <4>1, <4>2
    <3>3. QED
      BY <1>6, <3>1, <3>2
  <2> DEFINE n == Len(frames) - 1
  <2>3. n \in Nat /\ n <= Len(frames)
    BY <2>1
  <2>4. DOMAIN frames' = 1 .. n /\ \A m \in 1 .. n : frames'[m] = frames[m]
    BY <2>2, <2>3, SubSeqKept DEF IInv
  <2>5. Leases' = [m \in 1 .. n |-> LeaseOf(frames[m])]
    BY <2>4 DEF Leases
  <2>6. Leases = [m \in 1 .. Len(frames) |-> LeaseOf(frames[m])]
    BY DEF Leases, IInv
  <2>7. Leases' = SubSeq(Leases, 1, Len(Leases) - 1)
    BY <2>1, <2>3, <2>5, <2>6, LeasesTop
  <2>8. Lease!LeaveFrame
    BY <2>1, <2>7, LeasesTop DEF Lease!LeaveFrame, Leases, LeaseOf
  <2>9. QED
    BY <2>8 DEF Lease!Next
<1>7. CASE UNCHANGED vars
  BY <1>7 DEF vars, Leases, LeaseOf, OwnerOf, Held
<1>8. QED
  BY <1>1, <1>2, <1>3, <1>4, <1>5, <1>6, <1>7 DEF Next

\* The pool implements exclusive leases: a slot belongs to one statement, its
\* lease ends when that statement ends, and a body lowered inside another
\* touches no slot of the frames around it (tmp, reuse, leaveScratch, child).
THEOREM PoolImplementsLeases == Spec => ImplementsLeases
<1>1. IInv /\ [Next]_vars => [Lease!Next]_Leases
  BY StepLeases
<1>2. QED
  BY <1>1, InitLeases, InitIInv, NextIInv, PTL
     DEF Spec, ImplementsLeases, Lease!Spec, Leases, LeaseOf
==============================================================================
