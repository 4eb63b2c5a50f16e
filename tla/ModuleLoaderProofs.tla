------------------------- MODULE ModuleLoaderProofs --------------------------
(***************************************************************************)
(* ModuleLoader for every set of names and every world: the stack holds    *)
(* exactly the modules that are loading, each once. By itself this is not  *)
(* inductive: a module is pushed while frames below may be waiting for it, *)
(* so a frame that waits for its parent package must not be on the stack   *)
(* already (WaitingNotLoading), and a module popped must be the one that   *)
(* finished (FramesPlaced).                                                *)
(***************************************************************************)
EXTENDS ModuleLoader, SequenceTheorems, TLAPS

Statuses == {"absent", "loading", "ready", "native", "dead"}

Frame == [fn : {"load"}, name : Names, step : {"enter", "parent", "scan"},
          i : Nat \ {0}, at : Nat]

Started(frame) == frame.step \in {"parent", "scan"}

EntryFirst(c) ==
  c # << >> => c[1].name = Main /\ c[1].step = "scan" /\ c[1].at = 0

EntryOnce(c) == \A k \in 2 .. Len(c) : Started(c[k]) => c[k].name # Main

\* at counts the scanning frames up to a frame, the entry's left out.
Depths(c) ==
  \A k \in 2 .. Len(c) :
    c[k].at = IF c[k].step = "scan" THEN c[k - 1].at + 1 ELSE c[k - 1].at

Deepen(c) ==
  \A j, k \in 1 .. Len(c) : j < k =>
    c[j].at <= c[k].at /\ (c[k].step = "scan" => c[j].at < c[k].at)

FramesCounted(c) == EntryFirst(c) /\ EntryOnce(c) /\ Depths(c) /\ Deepen(c)

StackDeep(c, s) == Len(s) = IF c = << >> THEN 0 ELSE c[Len(c)].at

Placed(c, s) ==
  \A k \in 2 .. Len(c) : c[k].step = "scan" => s[c[k].at] = c[k].name

FramesPlaced(c, s) == StackDeep(c, s) /\ Placed(c, s)

WaitingNotLoading(c, s) ==
  \A k \in 2 .. Len(c) : c[k].step = "parent" =>
    \A n \in 1 .. c[k].at : s[n] # c[k].name

StackExact(s, st) ==
  /\ \A m, n \in 1 .. Len(s) : s[m] = s[n] => m = n
  /\ \A x \in Names : st[x] = "loading" <=> \E n \in 1 .. Len(s) : s[n] = x

FramesOK(c, s) ==
  /\ c \in Seq(Frame)
  /\ FramesCounted(c)
  /\ FramesPlaced(c, s)
  /\ WaitingNotLoading(c, s)

IInv ==
  /\ world \in Worlds
  /\ status \in [Names -> Statuses] /\ status[Main] = "ready"
  /\ stack \in Seq(Names)
  /\ FramesOK(calls, stack)
  /\ StackExact(stack, status)

-------------------------------------------------------------------------------
\* The top frame goes on, at the same depth (ScanOther, ScanFrom).
LEMMA FramesGoOn ==
  ASSUME NEW c, NEW s \in Seq(Names), FramesOK(c, s), c # << >>,
         NEW f \in Frame,
         f.name = c[Len(c)].name, f.step = c[Len(c)].step, f.at = c[Len(c)].at
  PROVE  FramesOK([c EXCEPT ![Len(c)] = f], s)
<1> DEFINE d == [c EXCEPT ![Len(c)] = f]
<1>1. c \in Seq(Frame) /\ Len(c) \in Nat \ {0}
  BY DEF FramesOK
<1>2. /\ d \in Seq(Frame) /\ Len(d) = Len(c)
      /\ \A k \in 1 .. Len(c) :
           d[k].name = c[k].name /\ d[k].step = c[k].step /\ d[k].at = c[k].at
  BY <1>1
<1> HIDE DEF d
<1>3. FramesCounted(d)
  <2>1. EntryFirst(d)
    BY <1>1, <1>2 DEF FramesOK, FramesCounted, EntryFirst
  <2>2. EntryOnce(d)
    BY <1>1, <1>2 DEF FramesOK, FramesCounted, EntryOnce, Started
  <2>3. Depths(d)
    <3> SUFFICES ASSUME NEW k \in 2 .. Len(d)
                 PROVE  d[k].at = IF d[k].step = "scan" THEN d[k - 1].at + 1
                                  ELSE d[k - 1].at
      BY DEF Depths
    <3>1. k \in 1 .. Len(d) /\ k - 1 \in 1 .. Len(d)
      BY <1>2
    <3>2. QED
      BY <1>1, <1>2, <3>1 DEF FramesOK, FramesCounted, Depths
  <2>4. Deepen(d)
    <3> SUFFICES ASSUME NEW j \in 1 .. Len(d), NEW k \in 1 .. Len(d), j < k
                 PROVE  d[j].at <= d[k].at /\ (d[k].step = "scan" => d[j].at < d[k].at)
      BY DEF Deepen
    <3>1. QED
      BY <1>1, <1>2 DEF FramesOK, FramesCounted, Deepen
  <2>5. QED
    BY <2>1, <2>2, <2>3, <2>4 DEF FramesCounted
<1>4. FramesPlaced(d, s)
  <2>1. StackDeep(d, s)
    BY <1>1, <1>2 DEF FramesOK, FramesPlaced, StackDeep
  <2>2. Placed(d, s)
    BY <1>1, <1>2 DEF FramesOK, FramesPlaced, Placed
  <2>3. QED
    BY <2>1, <2>2 DEF FramesPlaced
<1>5. WaitingNotLoading(d, s)
  BY <1>1, <1>2 DEF FramesOK, WaitingNotLoading
<1>6. QED
  BY <1>2, <1>3, <1>4, <1>5 DEF FramesOK, d

\* A frame that waits for its parent package is not on the stack (AskParent).
LEMMA FramesWait ==
  ASSUME NEW c, NEW s \in Seq(Names), FramesOK(c, s), c # << >>,
         NEW f \in Frame,
         c[Len(c)].step = "enter", f.step = "parent", f.name # Main,
         f.at = c[Len(c)].at,
         \A n \in 1 .. Len(s) : s[n] # f.name
  PROVE  FramesOK([c EXCEPT ![Len(c)] = f], s)
<1> DEFINE d == [c EXCEPT ![Len(c)] = f]
<1>1. c \in Seq(Frame) /\ Len(c) \in Nat \ {0}
  BY DEF FramesOK
<1>2. /\ d \in Seq(Frame) /\ Len(d) = Len(c) /\ d[Len(c)] = f
      /\ \A k \in 1 .. Len(c) - 1 : d[k] = c[k]
  BY <1>1
<1> HIDE DEF d
<1>3. Len(c) # 1
  BY <1>1 DEF FramesOK, FramesCounted, EntryFirst
<1>4. FramesCounted(d)
  <2>1. EntryFirst(d)
    BY <1>1, <1>2, <1>3, SMTT(30) DEF FramesOK, FramesCounted, EntryFirst
  <2>2. EntryOnce(d)
    BY <1>1, <1>2, <1>3 DEF FramesOK, FramesCounted, EntryOnce, Started
  <2>3. Depths(d)
    <3> SUFFICES ASSUME NEW k \in 2 .. Len(d)
                 PROVE  d[k].at = IF d[k].step = "scan" THEN d[k - 1].at + 1
                                  ELSE d[k - 1].at
      BY DEF Depths
    <3>1. k \in 1 .. Len(d) /\ k - 1 \in 1 .. Len(d)
      BY <1>2
    <3>2. QED
      BY <1>1, <1>2, <1>3, <3>1 DEF FramesOK, FramesCounted, Depths
  <2>4. Deepen(d)
    <3> SUFFICES ASSUME NEW j \in 1 .. Len(d), NEW k \in 1 .. Len(d), j < k
                 PROVE  d[j].at <= d[k].at /\ (d[k].step = "scan" => d[j].at < d[k].at)
      BY DEF Deepen
    <3>1. QED
      BY <1>1, <1>2, <1>3, SMTT(30) DEF FramesOK, FramesCounted, Deepen
  <2>5. QED
    BY <2>1, <2>2, <2>3, <2>4 DEF FramesCounted
<1>5. Len(s) = f.at
  BY <1>1 DEF FramesOK, FramesPlaced, StackDeep
<1>6. FramesPlaced(d, s)
  <2>1. StackDeep(d, s)
    BY <1>1, <1>2, <1>5 DEF FramesOK, FramesPlaced, StackDeep
  <2>2. Placed(d, s)
    BY <1>1, <1>2, <1>5 DEF FramesOK, FramesPlaced, Placed
  <2>3. QED
    BY <2>1, <2>2 DEF FramesPlaced
<1>7. WaitingNotLoading(d, s)
  BY <1>1, <1>2, <1>5 DEF FramesOK, WaitingNotLoading
<1>8. QED
  BY <1>2, <1>4, <1>6, <1>7 DEF FramesOK, d

\* A call of loadModule (AskParent, ScanImport, ScanFrom).
LEMMA FramesCall ==
  ASSUME NEW c, NEW s \in Seq(Names), FramesOK(c, s), c # << >>,
         NEW f \in Frame, f.step = "enter", f.at = Len(s)
  PROVE  FramesOK(Append(c, f), s)
<1> DEFINE d == Append(c, f)
<1>1. c \in Seq(Frame) /\ Len(c) \in Nat \ {0}
  BY DEF FramesOK
<1>2. /\ d \in Seq(Frame) /\ Len(d) = Len(c) + 1 /\ d[Len(c) + 1] = f
      /\ \A k \in 1 .. Len(c) : d[k] = c[k]
  BY <1>1
<1> HIDE DEF d
<1>3. c[Len(c)].at = Len(s)
  BY <1>1 DEF FramesOK, FramesPlaced, StackDeep
<1>4. \A j \in 1 .. Len(c) : c[j].at <= Len(s)
  <2> SUFFICES ASSUME NEW j \in 1 .. Len(c) PROVE c[j].at <= Len(s)
    OBVIOUS
  <2>1. CASE j = Len(c)
    BY <1>1, <1>3, <2>1
  <2>2. CASE j < Len(c)
    BY <1>1, <1>3, <2>2 DEF FramesOK, FramesCounted, Deepen
  <2>3. QED
    BY <1>1, <2>1, <2>2
<1>5. FramesCounted(d)
  <2>1. EntryFirst(d)
    BY <1>1, <1>2, <1>3, <1>4 DEF FramesOK, FramesCounted, EntryFirst
  <2>2. EntryOnce(d)
    BY <1>1, <1>2, <1>3, <1>4 DEF FramesOK, FramesCounted, EntryOnce, Started
  <2>3. Depths(d)
    <3> SUFFICES ASSUME NEW k \in 2 .. Len(d)
                 PROVE  d[k].at = IF d[k].step = "scan" THEN d[k - 1].at + 1
                                  ELSE d[k - 1].at
      BY DEF Depths
    <3>1. k \in 1 .. Len(d) /\ k - 1 \in 1 .. Len(d)
      BY <1>2
    <3>2. QED
      BY <1>1, <1>2, <1>3, <1>4, <3>1, SMTT(30) DEF FramesOK, FramesCounted, Depths
  <2>4. Deepen(d)
    <3> SUFFICES ASSUME NEW j \in 1 .. Len(d), NEW k \in 1 .. Len(d), j < k
                 PROVE  d[j].at <= d[k].at /\ (d[k].step = "scan" => d[j].at < d[k].at)
      BY DEF Deepen
    <3>1. QED
      BY <1>1, <1>2, <1>3, <1>4 DEF FramesOK, FramesCounted, Deepen
  <2>5. QED
    BY <2>1, <2>2, <2>3, <2>4 DEF FramesCounted
<1>6. FramesPlaced(d, s)
  <2>1. StackDeep(d, s)
    BY <1>1, <1>2 DEF FramesOK, FramesPlaced, StackDeep
  <2>2. Placed(d, s)
    BY <1>1, <1>2 DEF FramesOK, FramesPlaced, Placed
  <2>3. QED
    BY <2>1, <2>2 DEF FramesPlaced
<1>7. WaitingNotLoading(d, s)
  BY <1>1, <1>2 DEF FramesOK, WaitingNotLoading
<1>8. QED
  BY <1>2, <1>5, <1>6, <1>7 DEF FramesOK, d

\* A sequence without its last element.
LEMMA Shortened ==
  ASSUME NEW S, NEW c \in Seq(S), c # << >>
  PROVE  /\ SubSeq(c, 1, Len(c) - 1) \in Seq(S)
         /\ Len(SubSeq(c, 1, Len(c) - 1)) = Len(c) - 1
         /\ \A k \in 1 .. Len(c) - 1 : SubSeq(c, 1, Len(c) - 1)[k] = c[k]
<1>1. Len(c) \in Nat \ {0} /\ 1 \in Int /\ Len(c) - 1 \in Int
  OBVIOUS
<1>2. \A k \in 1 .. Len(c) - 1 : c[k] \in S
  BY <1>1
<1>3. SubSeq(c, 1, Len(c) - 1) = [k \in 1 .. Len(c) - 1 |-> c[k]]
  BY <1>1 DEF SubSeq
<1>4. [k \in 1 .. Len(c) - 1 |-> c[k]] \in Seq(S)
  BY <1>1, <1>2
<1>5. Len([k \in 1 .. Len(c) - 1 |-> c[k]]) = Len(c) - 1
  BY <1>1
<1>6. QED
  BY <1>3, <1>4, <1>5

\* A frame is no deeper than the one above it, and the top as deep as the stack.
LEMMA DepthsBounded ==
  ASSUME NEW c, NEW s \in Seq(Names), FramesOK(c, s), c # << >>
  PROVE  /\ c[Len(c)].at = Len(s)
         /\ \A j \in 1 .. Len(c) : c[j].at <= Len(s)
         /\ \A j \in 1 .. Len(c) - 1 :
              /\ c[j].at <= c[Len(c) - 1].at
              /\ c[Len(c)].step # "scan" => c[Len(c) - 1].at = Len(s)
              /\ c[Len(c)].step = "scan" => c[Len(c) - 1].at = Len(s) - 1
<1>0. c \in Seq(Frame)
  BY DEF FramesOK
<1>1. Len(c) \in Nat \ {0} /\ \A k \in 1 .. Len(c) : c[k].at \in Nat
  <2>1. Len(c) \in Nat \ {0} /\ \A k \in 1 .. Len(c) : c[k] \in Frame
    BY <1>0
  <2>2. \A f \in Frame : f.at \in Nat
    BY DEF Frame
  <2>3. QED
    BY <2>1, <2>2
<1>2. c[Len(c)].at = Len(s)
  BY <1>1 DEF FramesOK, FramesPlaced, StackDeep
<1>3. \A j \in 1 .. Len(c) : c[j].at <= Len(s)
  <2> SUFFICES ASSUME NEW j \in 1 .. Len(c) PROVE c[j].at <= Len(s)
    OBVIOUS
  <2>1. CASE j = Len(c)
    BY <1>1, <1>2, <2>1
  <2>2. CASE j < Len(c)
    BY <1>1, <1>2, <2>2 DEF FramesOK, FramesCounted, Deepen
  <2>3. QED
    BY <1>1, <2>1, <2>2
<1>4. ASSUME NEW j \in 1 .. Len(c) - 1
      PROVE  /\ c[j].at <= c[Len(c) - 1].at
             /\ c[Len(c)].step # "scan" => c[Len(c) - 1].at = Len(s)
             /\ c[Len(c)].step = "scan" => c[Len(c) - 1].at = Len(s) - 1
  <2>1. /\ Len(c) \in 2 .. Len(c) /\ Len(c) - 1 \in 1 .. Len(c)
        /\ j \in 1 .. Len(c)
    BY <1>1
  <2>2. c[j].at <= c[Len(c) - 1].at
    <3>1. CASE j = Len(c) - 1
      BY <1>1, <2>1, <3>1
    <3>2. CASE j < Len(c) - 1
      BY <1>1, <2>1, <3>2 DEF FramesOK, FramesCounted, Deepen
    <3>3. QED
      BY <1>1, <3>1, <3>2
  <2>3. c[Len(c)].at = IF c[Len(c)].step = "scan" THEN c[Len(c) - 1].at + 1
                       ELSE c[Len(c) - 1].at
    BY <2>1 DEF FramesOK, FramesCounted, Depths
  <2>4. QED
    BY <1>1, <1>2, <2>1, <2>2, <2>3
<1>5. QED
  BY <1>2, <1>3, <1>4

\* Whatever loadModule returns, the frames below keep their depths.
LEMMA CountedReturn ==
  ASSUME NEW c \in Seq(Frame), FramesCounted(c), c # << >>
  PROVE  FramesCounted(SubSeq(c, 1, Len(c) - 1))
<1> DEFINE d == SubSeq(c, 1, Len(c) - 1)
<1>1. Len(c) \in Nat /\ Len(c) > 0
  OBVIOUS
<1>2. /\ d \in Seq(Frame) /\ Len(d) = Len(c) - 1
      /\ \A k \in 1 .. Len(c) - 1 : d[k] = c[k]
  BY <1>1, Shortened
<1> HIDE DEF d
<1>3. EntryFirst(d)
  BY <1>1, <1>2 DEF FramesCounted, EntryFirst
<1>4. EntryOnce(d)
  BY <1>1, <1>2 DEF FramesCounted, EntryOnce, Started
<1>5. Depths(d)
  <2> SUFFICES ASSUME NEW k \in 2 .. Len(d)
               PROVE  d[k].at = IF d[k].step = "scan" THEN d[k - 1].at + 1
                                ELSE d[k - 1].at
    BY DEF Depths
  <2>1. k \in 1 .. Len(d) /\ k - 1 \in 1 .. Len(d)
    BY <1>2
  <2>2. QED
    BY <1>1, <1>2, <2>1 DEF FramesCounted, Depths
<1>6. Deepen(d)
  <2> SUFFICES ASSUME NEW j \in 1 .. Len(d), NEW k \in 1 .. Len(d), j < k
               PROVE  d[j].at <= d[k].at /\ (d[k].step = "scan" => d[j].at < d[k].at)
    BY DEF Deepen
  <2>1. j \in 1 .. Len(c) /\ k \in 1 .. Len(c) /\ d[j] = c[j] /\ d[k] = c[k]
    BY <1>1, <1>2
  <2>2. QED
    BY <2>1 DEF FramesCounted, Deepen
<1>7. QED
  BY <1>3, <1>4, <1>5, <1>6 DEF FramesCounted, d

\* loadModule returns without having scanned (Known, ParentFails and others).
LEMMA FramesReturn ==
  ASSUME NEW c, NEW s \in Seq(Names), FramesOK(c, s), c # << >>,
         c[Len(c)].step # "scan"
  PROVE  FramesOK(SubSeq(c, 1, Len(c) - 1), s)
<1> DEFINE d == SubSeq(c, 1, Len(c) - 1)
<1>0. c \in Seq(Frame) /\ EntryFirst(c)
  BY DEF FramesOK, FramesCounted
<1>1. c \in Seq(Frame) /\ Len(c) \in Nat /\ Len(c) > 1
  BY <1>0 DEF EntryFirst
<1>2. /\ d \in Seq(Frame) /\ Len(d) = Len(c) - 1
      /\ \A k \in 1 .. Len(c) - 1 : d[k] = c[k]
  BY <1>1, Shortened
<1>3. FramesCounted(d)
  BY <1>1, CountedReturn DEF FramesOK
<1> HIDE DEF d
<1>4. c[Len(c) - 1].at = Len(s)
  <2>1. Len(c) - 1 \in 1 .. Len(c) - 1
    BY <1>1
  <2>2. QED
    BY <2>1, DepthsBounded
<1>5. FramesPlaced(d, s)
  <2>1. StackDeep(d, s)
    BY <1>1, <1>2, <1>4 DEF FramesOK, FramesPlaced, StackDeep
  <2>2. Placed(d, s)
    <3> SUFFICES ASSUME NEW k \in 2 .. Len(d), d[k].step = "scan"
                 PROVE  s[d[k].at] = d[k].name
      BY DEF Placed
    <3>1. k \in 2 .. Len(c) /\ d[k] = c[k]
      BY <1>1, <1>2
    <3>2. QED
      BY <3>1 DEF FramesOK, FramesPlaced, Placed
  <2>3. QED
    BY <2>1, <2>2 DEF FramesPlaced
<1>6. WaitingNotLoading(d, s)
  <2> SUFFICES ASSUME NEW k \in 2 .. Len(d), d[k].step = "parent"
               PROVE  \A n \in 1 .. d[k].at : s[n] # d[k].name
    BY DEF WaitingNotLoading
  <2>1. k \in 2 .. Len(c) /\ d[k] = c[k]
    BY <1>1, <1>2
  <2>2. QED
    BY <2>1 DEF FramesOK, WaitingNotLoading
<1>7. QED
  BY <1>2, <1>3, <1>5, <1>6 DEF FramesOK, d

\* The scan of a module ends: the module is on top of the stack, and the
\* frames below describe what is left of it (ScanDone).
LEMMA FramesPop ==
  ASSUME NEW c, NEW s \in Seq(Names), FramesOK(c, s), c # << >>,
         c[Len(c)].step = "scan", Len(c) # 1
  PROVE  /\ s # << >> /\ s[Len(s)] = c[Len(c)].name
         /\ FramesOK(SubSeq(c, 1, Len(c) - 1), SubSeq(s, 1, Len(s) - 1))
<1> DEFINE d == SubSeq(c, 1, Len(c) - 1)
           r == SubSeq(s, 1, Len(s) - 1)
<1>0. c \in Seq(Frame)
  BY DEF FramesOK
<1>1. c \in Seq(Frame) /\ Len(c) \in Nat /\ Len(c) > 1
  <2> DEFINE n == Len(c)
  <2>1. n \in Nat /\ n # 0 /\ n # 1
    BY <1>0
  <2> HIDE DEF n
  <2>2. n > 1
    BY <2>1
  <2>3. QED
    BY <1>0, <2>1, <2>2 DEF n
<1>2. /\ d \in Seq(Frame) /\ Len(d) = Len(c) - 1
      /\ \A k \in 1 .. Len(c) - 1 : d[k] = c[k]
  BY <1>1, Shortened
<1>3. FramesCounted(d)
  BY <1>1, CountedReturn DEF FramesOK
<1>4. Len(s) \in Nat /\ c[Len(c)].at = Len(s) /\ c[Len(c) - 1].at = Len(s) - 1
  <2>1. Len(c) - 1 \in 1 .. Len(c) - 1
    BY <1>1
  <2>2. QED
    BY <2>1, DepthsBounded
<1>5. \A k \in 1 .. Len(c) - 1 : c[k].at \in Nat /\ c[k].at <= Len(s) - 1
  <2> SUFFICES ASSUME NEW k \in 1 .. Len(c) - 1
               PROVE  c[k].at \in Nat /\ c[k].at <= Len(s) - 1
    OBVIOUS
  <2>1. c[k] \in Frame
    BY <1>1
  <2>2. c[k].at <= c[Len(c) - 1].at
    BY DepthsBounded
  <2>3. QED
    BY <1>4, <2>1, <2>2 DEF Frame
<1>6. s # << >>
  <2>1. 1 \in 1 .. Len(c) - 1
    BY <1>1
  <2>2. Len(s) > 0
    BY <1>4, <1>5, <2>1
  <2>3. QED
    BY <2>2
<1>7. s[Len(s)] = c[Len(c)].name
  <2>1. Len(c) \in 2 .. Len(c)
    BY <1>1
  <2>2. QED
    BY <1>4, <2>1 DEF FramesOK, FramesPlaced, Placed
<1>8. /\ r \in Seq(Names) /\ Len(r) = Len(s) - 1
      /\ \A n \in 1 .. Len(s) - 1 : r[n] = s[n]
  BY <1>6, Shortened
<1> HIDE DEF d, r
<1>9. FramesPlaced(d, r)
  <2>1. StackDeep(d, r)
    BY <1>1, <1>2, <1>4, <1>8 DEF StackDeep
  <2>2. Placed(d, r)
    <3> SUFFICES ASSUME NEW k \in 2 .. Len(d), d[k].step = "scan"
                 PROVE  r[d[k].at] = d[k].name
      BY DEF Placed
    <3>1. /\ k \in 2 .. Len(c) /\ k \in 1 .. Len(c) - 1 /\ k \in 1 .. Len(c)
          /\ 1 \in 1 .. Len(c) /\ 1 \in 1 .. Len(c) - 1 /\ 1 < k /\ d[k] = c[k]
      BY <1>1, <1>2
    <3>2. c[1].at < c[k].at
      BY <3>1 DEF FramesOK, FramesCounted, Deepen
    <3>3. c[k].at \in 1 .. Len(s) - 1
      BY <1>4, <1>5, <3>1, <3>2
    <3>4. s[c[k].at] = c[k].name
      BY <3>1 DEF FramesOK, FramesPlaced, Placed
    <3>5. QED
      BY <1>8, <3>1, <3>3, <3>4
  <2>3. QED
    BY <2>1, <2>2 DEF FramesPlaced
<1>10. WaitingNotLoading(d, r)
  <2> SUFFICES ASSUME NEW k \in 2 .. Len(d), d[k].step = "parent",
                      NEW n \in 1 .. d[k].at
               PROVE  r[n] # d[k].name
    BY DEF WaitingNotLoading
  <2>1. k \in 2 .. Len(c) /\ k \in 1 .. Len(c) - 1 /\ d[k] = c[k]
    BY <1>1, <1>2
  <2>2. n \in 1 .. c[k].at /\ n \in 1 .. Len(s) - 1
    BY <1>4, <1>5, <2>1
  <2>3. s[n] # c[k].name
    BY <2>1, <2>2 DEF FramesOK, WaitingNotLoading
  <2>4. QED
    BY <1>8, <2>1, <2>2, <2>3
<1>11. QED
  BY <1>2, <1>3, <1>6, <1>7, <1>9, <1>10 DEF FramesOK, d, r

\* A module is read: its frame scans one deeper than before (ReadSource).
LEMMA FramesRead ==
  ASSUME NEW c, NEW s \in Seq(Names), FramesOK(c, s), c # << >>,
         NEW f \in Frame,
         c[Len(c)].step # "scan", f.step = "scan", f.name # Main,
         f.at = Len(s) + 1
  PROVE  FramesOK([c EXCEPT ![Len(c)] = f], Append(s, f.name))
<1> DEFINE d == [c EXCEPT ![Len(c)] = f]
           r == Append(s, f.name)
<1>0. c \in Seq(Frame) /\ EntryFirst(c)
  BY DEF FramesOK, FramesCounted
<1>1. c \in Seq(Frame) /\ Len(c) \in Nat /\ Len(c) > 1
  BY <1>0 DEF EntryFirst
<1>2. /\ d \in Seq(Frame) /\ Len(d) = Len(c) /\ d[Len(c)] = f
      /\ \A k \in 1 .. Len(c) - 1 : d[k] = c[k]
  BY <1>1
<1>3. /\ Len(r) = Len(s) + 1 /\ r[Len(s) + 1] = f.name /\ Len(s) \in Nat
      /\ \A n \in 1 .. Len(s) : r[n] = s[n]
  BY DEF Frame
<1> HIDE DEF d, r
<1>4. \A k \in 1 .. Len(c) : c[k].at \in Nat /\ c[k].at <= Len(s)
  <2> SUFFICES ASSUME NEW k \in 1 .. Len(c)
               PROVE  c[k].at \in Nat /\ c[k].at <= Len(s)
    OBVIOUS
  <2>1. c[k] \in Frame
    BY <1>1
  <2>2. c[k].at <= Len(s)
    BY DepthsBounded
  <2>3. QED
    BY <2>1, <2>2 DEF Frame
<1>5. c[Len(c) - 1].at = Len(s)
  <2>1. Len(c) - 1 \in 1 .. Len(c) - 1
    BY <1>1
  <2>2. QED
    BY <2>1, DepthsBounded
<1>6. FramesCounted(d)
  <2>1. EntryFirst(d)
    BY <1>0, <1>1, <1>2 DEF EntryFirst
  <2>2. EntryOnce(d)
    <3> SUFFICES ASSUME NEW k \in 2 .. Len(d), Started(d[k])
                 PROVE  d[k].name # Main
      BY DEF EntryOnce
    <3>1. CASE k = Len(c)
      BY <1>2, <3>1
    <3>2. CASE k # Len(c)
      BY <1>1, <1>2, <3>2 DEF FramesOK, FramesCounted, EntryOnce
    <3>3. QED
      BY <3>1, <3>2
  <2>3. Depths(d)
    <3> SUFFICES ASSUME NEW k \in 2 .. Len(d)
                 PROVE  d[k].at = IF d[k].step = "scan" THEN d[k - 1].at + 1
                                  ELSE d[k - 1].at
      BY DEF Depths
    <3>1. /\ k \in 2 .. Len(c) /\ k - 1 \in 1 .. Len(c) - 1
          /\ d[k - 1] = c[k - 1]
      BY <1>1, <1>2
    <3>2. CASE k = Len(c)
      BY <1>2, <1>5, <3>1, <3>2
    <3>3. CASE k # Len(c)
      <4>1. d[k] = c[k]
        BY <1>1, <1>2, <3>1, <3>3
      <4>2. QED
        BY <3>1, <4>1 DEF FramesOK, FramesCounted, Depths
    <3>4. QED
      BY <3>2, <3>3
  <2>4. Deepen(d)
    <3> SUFFICES ASSUME NEW j \in 1 .. Len(d), NEW k \in 1 .. Len(d), j < k
                 PROVE  d[j].at <= d[k].at /\ (d[k].step = "scan" => d[j].at < d[k].at)
      BY DEF Deepen
    <3>1. j \in 1 .. Len(c) /\ k \in 1 .. Len(c) /\ d[j] = c[j]
      BY <1>1, <1>2
    <3>2. CASE k = Len(c)
      BY <1>2, <1>3, <1>4, <3>1, <3>2
    <3>3. CASE k # Len(c)
      <4>1. d[k] = c[k]
        BY <1>1, <1>2, <3>1, <3>3
      <4>2. QED
        BY <3>1, <4>1 DEF FramesOK, FramesCounted, Deepen
    <3>4. QED
      BY <3>2, <3>3
  <2>5. QED
    BY <2>1, <2>2, <2>3, <2>4 DEF FramesCounted
<1>7. FramesPlaced(d, r)
  <2>1. StackDeep(d, r)
    BY <1>1, <1>2, <1>3 DEF StackDeep
  <2>2. Placed(d, r)
    <3> SUFFICES ASSUME NEW k \in 2 .. Len(d), d[k].step = "scan"
                 PROVE  r[d[k].at] = d[k].name
      BY DEF Placed
    <3>1. CASE k = Len(c)
      BY <1>2, <1>3, <3>1
    <3>2. CASE k # Len(c)
      <4>1. /\ k \in 2 .. Len(c) /\ k \in 1 .. Len(c) /\ 1 \in 1 .. Len(c)
            /\ 1 < k /\ d[k] = c[k]
        BY <1>1, <1>2, <3>2
      <4>2. c[1].at < c[k].at
        BY <4>1 DEF FramesOK, FramesCounted, Deepen
      <4>3. c[k].at \in 1 .. Len(s)
        BY <1>3, <1>4, <4>1, <4>2
      <4>4. s[c[k].at] = c[k].name
        BY <4>1 DEF FramesOK, FramesPlaced, Placed
      <4>5. QED
        BY <1>3, <4>1, <4>3, <4>4
    <3>3. QED
      BY <3>1, <3>2
  <2>3. QED
    BY <2>1, <2>2 DEF FramesPlaced
<1>8. WaitingNotLoading(d, r)
  <2> SUFFICES ASSUME NEW k \in 2 .. Len(d), d[k].step = "parent",
                      NEW n \in 1 .. d[k].at
               PROVE  r[n] # d[k].name
    BY DEF WaitingNotLoading
  <2>1. k # Len(c)
    BY <1>2
  <2>2. k \in 2 .. Len(c) /\ k \in 1 .. Len(c) /\ d[k] = c[k]
    BY <1>1, <1>2, <2>1
  <2>3. n \in 1 .. c[k].at /\ n \in 1 .. Len(s)
    BY <1>3, <1>4, <2>2
  <2>4. s[n] # c[k].name
    BY <2>2, <2>3 DEF FramesOK, WaitingNotLoading
  <2>5. QED
    BY <1>3, <2>2, <2>3, <2>4
<1>9. QED
  BY <1>2, <1>6, <1>7, <1>8 DEF FramesOK, d, r

-------------------------------------------------------------------------------
\* A module that is not loading, and stays so, changes its status.
LEMMA ExactElsewhere ==
  ASSUME NEW s \in Seq(Names), NEW st \in [Names -> Statuses],
         StackExact(s, st),
         NEW x \in Names, \A n \in 1 .. Len(s) : s[n] # x,
         NEW v \in Statuses, v # "loading"
  PROVE  StackExact(s, [st EXCEPT ![x] = v])
<1>1. ASSUME NEW y \in Names
      PROVE  [st EXCEPT ![x] = v][y] = "loading" <=> \E n \in 1 .. Len(s) : s[n] = y
  <2>1. CASE y = x
    BY <2>1
  <2>2. CASE y # x
    BY <2>2 DEF StackExact
  <2>3. QED
    BY <2>1, <2>2
<1>2. QED
  BY <1>1 DEF StackExact

\* A module is pushed as it is marked (ReadSource).
LEMMA ExactPush ==
  ASSUME NEW s \in Seq(Names), NEW st \in [Names -> Statuses],
         StackExact(s, st),
         NEW x \in Names, \A n \in 1 .. Len(s) : s[n] # x
  PROVE  StackExact(Append(s, x), [st EXCEPT ![x] = "loading"])
<1> DEFINE r == Append(s, x)
<1>1. /\ Len(s) \in Nat /\ Len(r) = Len(s) + 1 /\ r[Len(s) + 1] = x
      /\ \A n \in 1 .. Len(s) : r[n] = s[n]
  OBVIOUS
<1> HIDE DEF r
<1>2. ASSUME NEW m \in 1 .. Len(r), NEW n \in 1 .. Len(r), r[m] = r[n]
      PROVE  m = n
  <2>1. CASE m = Len(r) \/ n = Len(r)
    BY <1>1, <1>2, <2>1
  <2>2. CASE m # Len(r) /\ n # Len(r)
    <3>1. /\ m \in 1 .. Len(s) /\ n \in 1 .. Len(s)
      BY <1>1, <2>2
    <3>2. s[m] = s[n]
      BY <1>1, <1>2, <3>1
    <3>3. QED
      BY <3>1, <3>2 DEF StackExact
  <2>3. QED
    BY <2>1, <2>2
<1>3. ASSUME NEW y \in Names
      PROVE  [st EXCEPT ![x] = "loading"][y] = "loading"
               <=> \E n \in 1 .. Len(r) : r[n] = y
  <2>1. CASE y = x
    <3>1. Len(r) \in 1 .. Len(r) /\ r[Len(r)] = y
      BY <1>1, <2>1
    <3>2. QED
      BY <2>1, <3>1
  <2>2. CASE y # x
    <3>1. st[y] = "loading" <=> \E n \in 1 .. Len(s) : s[n] = y
      BY DEF StackExact
    <3>2. (\E n \in 1 .. Len(r) : r[n] = y) <=> \E n \in 1 .. Len(s) : s[n] = y
      BY <1>1, <2>2
    <3>3. QED
      BY <2>2, <3>1, <3>2
  <2>3. QED
    BY <2>1, <2>2
<1>4. QED
  BY <1>2, <1>3 DEF StackExact, r

\* The top of the stack is popped as it is marked (ScanDone).
LEMMA ExactPop ==
  ASSUME NEW s \in Seq(Names), NEW st \in [Names -> Statuses],
         StackExact(s, st), s # << >>, NEW x \in Names, s[Len(s)] = x
  PROVE  StackExact(SubSeq(s, 1, Len(s) - 1), [st EXCEPT ![x] = "ready"])
<1> DEFINE r == SubSeq(s, 1, Len(s) - 1)
<1>1. /\ Len(s) \in Nat /\ Len(s) > 0 /\ Len(r) = Len(s) - 1
      /\ \A n \in 1 .. Len(s) - 1 : r[n] = s[n]
  BY Shortened
<1> HIDE DEF r
<1>2. ASSUME NEW m \in 1 .. Len(r), NEW n \in 1 .. Len(r), r[m] = r[n]
      PROVE  m = n
  <2>1. m \in 1 .. Len(s) /\ n \in 1 .. Len(s) /\ s[m] = s[n]
    BY <1>1, <1>2
  <2>2. QED
    BY <2>1 DEF StackExact
<1>3. ASSUME NEW n \in 1 .. Len(r)
      PROVE  r[n] # x
  <2>1. n \in 1 .. Len(s) /\ Len(s) \in 1 .. Len(s) /\ n # Len(s) /\ r[n] = s[n]
    BY <1>1
  <2>2. QED
    BY <2>1 DEF StackExact
<1>4. ASSUME NEW y \in Names
      PROVE  [st EXCEPT ![x] = "ready"][y] = "loading"
               <=> \E n \in 1 .. Len(r) : r[n] = y
  <2>1. CASE y = x
    BY <1>3, <2>1
  <2>2. CASE y # x
    <3>1. st[y] = "loading" <=> \E n \in 1 .. Len(s) : s[n] = y
      BY DEF StackExact
    <3>2. (\E n \in 1 .. Len(r) : r[n] = y) <=> \E n \in 1 .. Len(s) : s[n] = y
      BY <1>1, <2>2
    <3>3. QED
      BY <2>2, <3>1, <3>2
  <2>3. QED
    BY <2>1, <2>2
<1>5. QED
  BY <1>2, <1>4 DEF StackExact, r

-------------------------------------------------------------------------------
\* The frame at work.
LEMMA TopFrame ==
  ASSUME IInv, calls # << >>
  PROVE  /\ calls \in Seq(Frame) /\ Len(calls) \in Nat \ {0}
         /\ Top \in Frame /\ Top.name \in Names
         /\ Top.at = Len(stack)
<1>1. calls \in Seq(Frame)
  BY DEF IInv, FramesOK
<1>2. Len(calls) \in Nat \ {0} /\ Len(calls) \in 1 .. Len(calls)
  BY <1>1
<1>3. Top \in Frame
  BY <1>1, <1>2 DEF Top
<1>4. Top.at = Len(stack)
  BY <1>2 DEF Top, IInv, FramesOK, FramesPlaced, StackDeep
<1>5. QED
  BY <1>1, <1>2, <1>3, <1>4 DEF Frame

\* A frame that has not begun to scan is not the entry's.
LEMMA NotTheEntry ==
  ASSUME IInv, calls # << >>, Top.step # "scan"
  PROVE  Len(calls) \in 2 .. Len(calls)
<1>1. Len(calls) \in Nat \ {0}
  BY TopFrame
<1>2. Len(calls) # 1
  BY DEF IInv, FramesOK, FramesCounted, EntryFirst, Top
<1> DEFINE n == Len(calls)
<1>3. n \in Nat /\ n # 0 /\ n # 1
  BY <1>1, <1>2
<1> HIDE DEF n
<1>4. n \in 2 .. n
  BY <1>3
<1>5. QED
  BY <1>4 DEF n

\* What is about to be located is neither the entry nor being loaded.
LEMMA LocatesNew ==
  ASSUME IInv, Locates
  PROVE  /\ calls # << >> /\ Top.step # "scan" /\ Top.name # Main
         /\ \A n \in 1 .. Len(stack) : stack[n] # Top.name
<1>1. calls # << >> /\ Top.step # "scan"
  BY DEF Locates, Loads
<1>2. Top.name \in Names /\ Top.at = Len(stack)
  BY <1>1, TopFrame
<1>3. Len(calls) \in 2 .. Len(calls)
  BY <1>1, NotTheEntry
<1>4. CASE Loads("enter") /\ status[Top.name] = "absent"
  BY <1>1, <1>2, <1>4 DEF IInv, StackExact
<1>5. CASE Loads("parent")
  <2>1. Top.step = "parent"
    BY <1>5 DEF Loads
  <2>2. Top.name # Main
    BY <1>3, <2>1 DEF IInv, FramesOK, FramesCounted, EntryOnce, Started, Top
  <2>3. \A n \in 1 .. Top.at : stack[n] # Top.name
    BY <1>3, <2>1 DEF IInv, FramesOK, WaitingNotLoading, Top
  <2>4. QED
    BY <1>1, <1>2, <2>2, <2>3
<1>6. QED
  BY <1>4, <1>5 DEF Locates

\* loadModule returns, and nothing that IInv speaks of changes but calls.
LEMMA ReturnKeeps ==
  ASSUME IInv, NEW x, calls # << >>, Top.step # "scan", Return(x)
  PROVE  FramesOK(calls', stack)
BY FramesReturn DEF IInv, Return, Top

\* Nothing at all changes.
LEMMA StutterKeeps ==
  ASSUME IInv, UNCHANGED loaderVars
  PROVE  IInv'
BY DEF IInv, loaderVars

-------------------------------------------------------------------------------
LEMMA InitHolds == Init => IInv
<1> SUFFICES ASSUME Init PROVE IInv
  OBVIOUS
<1> DEFINE f == LoadFrame(Main, "scan", 0)
<1>1. /\ f \in Frame /\ f.name = Main /\ f.step = "scan" /\ f.at = 0
  BY NamesAssumption DEF LoadFrame, Frame
<1> HIDE DEF f
<1>2. calls = << f >> /\ stack = << >>
  BY DEF Init, f
<1>3. calls \in Seq(Frame) /\ Len(calls) = 1 /\ calls[1] = f
  BY <1>1, <1>2
<1>4. stack \in Seq(Names) /\ Len(stack) = 0
  BY <1>2
<1>5. FramesCounted(calls)
  <2>1. EntryFirst(calls)
    BY <1>1, <1>3 DEF EntryFirst
  <2>2. EntryOnce(calls)
    BY <1>3 DEF EntryOnce
  <2>3. Depths(calls)
    BY <1>3 DEF Depths
  <2>4. Deepen(calls)
    BY <1>3 DEF Deepen
  <2>5. QED
    BY <2>1, <2>2, <2>3, <2>4 DEF FramesCounted
<1>6. FramesPlaced(calls, stack)
  BY <1>1, <1>2, <1>3, <1>4 DEF FramesPlaced, StackDeep, Placed
<1>7. WaitingNotLoading(calls, stack)
  BY <1>3 DEF WaitingNotLoading
<1>8. status \in [Names -> Statuses] /\ status[Main] = "ready"
  BY NamesAssumption DEF Init, Statuses
<1>9. StackExact(stack, status)
  BY <1>4, <1>8 DEF StackExact, Init
<1>10. world \in Worlds
  BY DEF Init
<1>11. QED
  BY <1>3, <1>4, <1>5, <1>6, <1>7, <1>8, <1>9, <1>10 DEF IInv, FramesOK

\* The statement scanned next.
LEMMA NextStmtGoesOn ==
  ASSUME IInv, calls # << >>
  PROVE  /\ NextStmt \in Frame
         /\ NextStmt.name = Top.name /\ NextStmt.step = Top.step
         /\ NextStmt.at = Top.at
<1>1. Top \in Frame
  BY TopFrame
<1>2. Top.i + 1 \in Nat \ {0}
  BY <1>1 DEF Frame
<1>3. NextStmt = [Top EXCEPT !.i = Top.i + 1]
  BY DEF NextStmt
<1>4. QED
  BY <1>1, <1>2, <1>3 DEF Frame

LEMMA ScanKeeps ==
  ASSUME IInv, calls # << >>, calls' = Step(NextStmt)
  PROVE  FramesOK(calls', stack)
<1>1. FramesOK(calls, stack) /\ stack \in Seq(Names)
  BY DEF IInv
<1>2. QED
  BY <1>1, NextStmtGoesOn, FramesGoOn DEF Step, Top

LEMMA CallKeeps ==
  ASSUME stack \in Seq(Names), NEW c, FramesOK(c, stack), c # << >>,
         NEW x \in Names
  PROVE  FramesOK(Append(c, LoadFrame(x, "enter", Len(stack))), stack)
<1>1. /\ LoadFrame(x, "enter", Len(stack)) \in Frame
      /\ LoadFrame(x, "enter", Len(stack)).step = "enter"
      /\ LoadFrame(x, "enter", Len(stack)).at = Len(stack)
  BY DEF LoadFrame, Frame
<1>2. QED
  BY <1>1, FramesCall

LEMMA ScanCallKeeps ==
  ASSUME IInv, calls # << >>, NEW x \in Names, Call(NextStmt, x)
  PROVE  FramesOK(calls', stack)
<1>1. FramesOK(Step(NextStmt), stack)
  <2>1. FramesOK(calls, stack) /\ stack \in Seq(Names)
    BY DEF IInv
  <2>2. QED
    BY <2>1, NextStmtGoesOn, FramesGoOn DEF Step, Top
<1>2. Step(NextStmt) # << >>
  BY TopFrame DEF Step
<1>3. stack \in Seq(Names)
  BY DEF IInv
<1>4. QED
  BY <1>1, <1>2, <1>3, CallKeeps DEF Call

\* A frame does not scan past the end of its module.
LEMMA StmtInBody ==
  ASSUME IInv, calls # << >>, Top.i <= Len(Stmts)
  PROVE  Top.i \in 1 .. Len(Stmts)
<1>1. Top.i \in Nat \ {0} /\ Top.name \in Names
  BY TopFrame DEF Frame
<1>2. Len(Stmts) \in Nat
  BY <1>1, WorldsAssumption DEF IInv, Stmts
<1>3. QED
  BY <1>1, <1>2

\* The modules that statements name.
LEMMA NamedInWorld ==
  ASSUME IInv, calls # << >>, Top.i \in 1 .. Len(Stmts)
  PROVE  /\ Stmts[Top.i].op = "import" => Stmts[Top.i].module \in Names
         /\ Stmts[Top.i].op = "from" => Base \in Names \cup {NoName}
BY TopFrame, WorldsAssumption DEF IInv, Stmts, Base, IsPackage

LEMMA StepKeeps == IInv /\ [LoaderNext]_loaderVars => IInv'
<1> SUFFICES ASSUME IInv, [LoaderNext]_loaderVars PROVE IInv'
  OBVIOUS
<1>0. CASE UNCHANGED loaderVars
  BY <1>0, StutterKeeps
<1>1. CASE Known
  <2>1. calls # << >> /\ Top.step # "scan"
    BY <1>1 DEF Known, Loads
  <2>2. FramesOK(calls', stack)
    BY <1>1, <2>1, ReturnKeeps DEF Known
  <2>3. QED
    BY <1>1, <2>2 DEF IInv, Known
<1>2. CASE AskParent
  <2> DEFINE f == [Top EXCEPT !.step = "parent"]
  <2>1. calls # << >> /\ Top.step = "enter" /\ status[Top.name] = "absent"
    BY <1>2 DEF AskParent, Loads
  <2>2. /\ f \in Frame /\ f.step = "parent" /\ f.name = Top.name /\ f.at = Top.at
    BY <2>1, TopFrame DEF Frame
  <2>3. f.name # Main
    BY <2>1, <2>2 DEF IInv
  <2>4. \A n \in 1 .. Len(stack) : stack[n] # f.name
    BY <2>1, <2>2, TopFrame DEF IInv, StackExact
  <2> HIDE DEF f
  <2>5. FramesOK(Step(f), stack)
    <3>1. FramesOK(calls, stack) /\ stack \in Seq(Names)
      BY DEF IInv
    <3>2. QED
      BY <2>1, <2>2, <2>3, <2>4, <3>1, FramesWait DEF Step, Top
  <2>6. Step(f) # << >>
    BY <2>1, TopFrame DEF Step
  <2>7. ParentName(Top.name) \in Names
    BY <1>2, <2>1, TopFrame, NamesAssumption DEF AskParent
  <2>8. calls' = Append(Step(f), LoadFrame(ParentName(Top.name), "enter", Len(stack)))
    BY <1>2 DEF AskParent, Call, f
  <2>9. FramesOK(calls', stack)
    BY <2>5, <2>6, <2>7, <2>8, CallKeeps DEF IInv
  <2>10. QED
    BY <1>2, <2>9 DEF IInv, AskParent
<1>3. CASE ParentFails
  <2>1. calls # << >> /\ Top.step # "scan"
    BY <1>3 DEF ParentFails, Loads
  <2>2. FramesOK(calls', stack)
    BY <1>3, <2>1, ReturnKeeps DEF ParentFails
  <2>3. QED
    BY <1>3, <2>2 DEF IInv, ParentFails
<1>4. CASE NotFound
  <2>1. calls # << >> /\ Top.step # "scan"
    BY <1>4, LocatesNew DEF NotFound
  <2>2. FramesOK(calls', stack)
    BY <1>4, <2>1, ReturnKeeps DEF NotFound
  <2>3. QED
    BY <1>4, <2>2 DEF IInv, NotFound
<1>5. CASE LoadBuiltin
  <2>1. /\ calls # << >> /\ Top.step # "scan" /\ Top.name # Main
        /\ \A n \in 1 .. Len(stack) : stack[n] # Top.name
        /\ status' = [status EXCEPT ![Top.name] = "native"]
    BY <1>5, LocatesNew DEF LoadBuiltin
  <2>2. FramesOK(calls', stack)
    BY <1>5, <2>1, ReturnKeeps DEF LoadBuiltin
  <2>3. StackExact(stack, status')
    BY <2>1, TopFrame, ExactElsewhere DEF IInv, Statuses
  <2>4. status' \in [Names -> Statuses] /\ status'[Main] = "ready"
    BY <2>1, TopFrame, NamesAssumption DEF IInv, Statuses
  <2>5. QED
    BY <1>5, <2>2, <2>3, <2>4 DEF IInv, LoadBuiltin
<1>6. CASE ReadFails
  <2>1. /\ calls # << >> /\ Top.step # "scan" /\ Top.name # Main
        /\ \A n \in 1 .. Len(stack) : stack[n] # Top.name
        /\ status' = [status EXCEPT ![Top.name] = "dead"]
    BY <1>6, LocatesNew DEF ReadFails
  <2>2. FramesOK(calls', stack)
    BY <1>6, <2>1, ReturnKeeps DEF ReadFails
  <2>3. StackExact(stack, status')
    BY <2>1, TopFrame, ExactElsewhere DEF IInv, Statuses
  <2>4. status' \in [Names -> Statuses] /\ status'[Main] = "ready"
    BY <2>1, TopFrame, NamesAssumption DEF IInv, Statuses
  <2>5. QED
    BY <1>6, <2>2, <2>3, <2>4 DEF IInv, ReadFails
<1>7. CASE ReadSource
  <2> DEFINE f == LoadFrame(Top.name, "scan", Len(stack) + 1)
  <2>1. /\ calls # << >> /\ Top.step # "scan" /\ Top.name # Main
        /\ \A n \in 1 .. Len(stack) : stack[n] # Top.name
        /\ status' = [status EXCEPT ![Top.name] = "loading"]
        /\ stack' = Append(stack, Top.name)
        /\ calls' = Step(f)
    BY <1>7, LocatesNew DEF ReadSource
  <2>2. Top.name \in Names /\ stack \in Seq(Names)
    BY <2>1, TopFrame DEF IInv
  <2>3. f \in Frame /\ f.step = "scan" /\ f.name = Top.name /\ f.at = Len(stack) + 1
    BY <2>2 DEF LoadFrame, Frame
  <2> HIDE DEF f
  <2>4. FramesOK(calls', stack')
    <3>1. FramesOK(calls, stack)
      BY DEF IInv
    <3>2. calls[Len(calls)].step # "scan"
      BY <2>1 DEF Top
    <3>3. FramesOK([calls EXCEPT ![Len(calls)] = f], Append(stack, f.name))
      BY <2>1, <2>2, <2>3, <3>1, <3>2, FramesRead
    <3>4. QED
      BY <2>1, <2>3, <3>3 DEF Step
  <2>5. StackExact(stack', status')
    BY <2>1, <2>2, ExactPush DEF IInv
  <2>6. status' \in [Names -> Statuses] /\ status'[Main] = "ready"
    BY <2>1, <2>2, NamesAssumption DEF IInv, Statuses
  <2>7. stack' \in Seq(Names)
    BY <2>1, <2>2
  <2>8. QED
    BY <1>7, <2>4, <2>5, <2>6, <2>7 DEF IInv, ReadSource
<1>8. CASE ScanImport
  <2>1. calls # << >> /\ Top.i \in 1 .. Len(Stmts) /\ Stmts[Top.i].op = "import"
    BY <1>8, StmtInBody DEF ScanImport, Scans, Loads
  <2>2. FramesOK(calls', stack)
    BY <1>8, <2>1, NamedInWorld, ScanCallKeeps DEF ScanImport
  <2>3. QED
    BY <1>8, <2>2 DEF IInv, ScanImport
<1>9. CASE ScanFrom
  <2>1. calls # << >> /\ Top.i \in 1 .. Len(Stmts) /\ Stmts[Top.i].op = "from"
    BY <1>9, StmtInBody DEF ScanFrom, Scans, Loads
  <2>2. FramesOK(calls', stack)
    <3>1. CASE Base \in {NoName, Top.name}
      BY <1>9, <2>1, <3>1, ScanKeeps DEF ScanFrom
    <3>2. CASE Base \notin {NoName, Top.name}
      BY <1>9, <2>1, <3>2, NamedInWorld, ScanCallKeeps DEF ScanFrom
    <3>3. QED
      BY <3>1, <3>2
  <2>3. QED
    BY <1>9, <2>2 DEF IInv, ScanFrom
<1>10. CASE ScanOther
  <2>1. FramesOK(calls', stack)
    BY <1>10, ScanKeeps DEF ScanOther, Scans, Loads
  <2>2. QED
    BY <1>10, <2>1 DEF IInv, ScanOther
<1>11. CASE ScanDone
  <2>1. calls # << >> /\ Top.step = "scan" /\ calls' = SubSeq(calls, 1, Len(calls) - 1)
    BY <1>11 DEF ScanDone, Loads, Return
  <2>2. CASE Len(calls) = 1
    <3>1. Top.name = Main /\ Top.at = 0
      BY <2>1, <2>2 DEF IInv, FramesOK, FramesCounted, EntryFirst, Top
    <3>2. UNCHANGED << world, status, stack >>
      BY <1>11, <3>1 DEF ScanDone
    <3>3. Len(stack) = 0
      BY <2>1, <3>1, TopFrame
    <3>4. calls' \in Seq(Frame) /\ Len(calls') = 0
      BY <2>1, <2>2, TopFrame, Shortened
    <3>5. calls' = << >>
      BY <3>4
    <3>6. FramesCounted(calls')
      BY <3>4, <3>5 DEF FramesCounted, EntryFirst, EntryOnce, Depths, Deepen
    <3>7. FramesPlaced(calls', stack)
      BY <3>3, <3>4, <3>5 DEF FramesPlaced, StackDeep, Placed
    <3>8. WaitingNotLoading(calls', stack)
      BY <3>4 DEF WaitingNotLoading
    <3>9. QED
      BY <3>2, <3>4, <3>6, <3>7, <3>8 DEF IInv, FramesOK
  <2>3. CASE Len(calls) # 1
    <3>1. Len(calls) \in 2 .. Len(calls)
      <4> DEFINE n == Len(calls)
      <4>1. n \in Nat /\ n # 0 /\ n # 1
        BY <2>1, <2>3, TopFrame
      <4> HIDE DEF n
      <4>2. n \in 2 .. n
        BY <4>1
      <4>3. QED
        BY <4>2 DEF n
    <3>2. Top.name \in Names /\ Top.name # Main
      BY <2>1, <3>1, TopFrame
         DEF IInv, FramesOK, FramesCounted, EntryOnce, Started, Top
    <3>3. /\ status' = [status EXCEPT ![Top.name] = "ready"]
          /\ stack' = SubSeq(stack, 1, Len(stack) - 1)
          /\ UNCHANGED world
      BY <1>11, <3>2 DEF ScanDone, Loaded, Popped
    <3>4. FramesOK(calls, stack) /\ stack \in Seq(Names) /\ calls[Len(calls)].step = "scan"
      BY <2>1 DEF IInv, Top
    <3>5. /\ stack # << >> /\ stack[Len(stack)] = Top.name
          /\ FramesOK(calls', stack')
      BY <2>1, <2>3, <3>3, <3>4, FramesPop DEF Top
    <3>6. StackExact(stack', status')
      BY <3>2, <3>3, <3>5, ExactPop DEF IInv
    <3>7. stack' \in Seq(Names)
      BY <3>3, <3>4, <3>5, Shortened
    <3>8. status' \in [Names -> Statuses] /\ status'[Main] = "ready"
      BY <3>2, <3>3, NamesAssumption DEF IInv, Statuses
    <3>9. QED
      BY <3>3, <3>5, <3>6, <3>7, <3>8 DEF IInv
  <2>4. QED
    BY <2>2, <2>3
<1>12. QED
  BY <1>0, <1>1, <1>2, <1>3, <1>4, <1>5, <1>6, <1>7, <1>8, <1>9, <1>10, <1>11
     DEF LoaderNext

LEMMA ExactImplies == IInv => StackIsLoading
<1> SUFFICES ASSUME IInv PROVE StackIsLoading
  OBVIOUS
<1>1. DOMAIN stack = 1 .. Len(stack) /\ \A i \in DOMAIN stack : stack[i] \in Names
  BY DEF IInv
<1>2. \A x \in Names : x \in LoadingNames <=> \E n \in 1 .. Len(stack) : stack[n] = x
  BY DEF IInv, StackExact, LoadingNames
<1>3. {stack[i] : i \in DOMAIN stack} = LoadingNames
  BY <1>1, <1>2 DEF LoadingNames
<1>4. \A i, j \in DOMAIN stack : stack[i] = stack[j] => i = j
  BY <1>1 DEF IInv, StackExact
<1>5. QED
  BY <1>3, <1>4 DEF StackIsLoading

\* The loading flags and the stack of names agree at every step of every load,
\* each module is on the stack once, and so a circular import is always found
\* and its path always starts at the module imported again (loadModule, cycle).
THEOREM StackAlwaysIsLoading == Spec => []StackIsLoading
BY InitHolds, StepKeeps, ExactImplies, PTL DEF Spec
==============================================================================
