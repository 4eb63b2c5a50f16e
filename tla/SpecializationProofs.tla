------------------------- MODULE SpecializationProofs -------------------------
(***************************************************************************)
(* Specialization for every program, cap and depth. That no two instances  *)
(* are of one type is inductive with the bodies being checked: a clone's   *)
(* key is not an instance yet, nor another clone's (FramesOK). What an     *)
(* instance calls was finished before it, so the instances being built     *)
(* decrease (BuildOK) and none waits for one that waits for it. An error   *)
(* of a clone lies past the clone's mark, and no other does (ErrsOK).      *)
(***************************************************************************)
EXTENDS Specialization, SequenceTheorems, TLAPS

IsSeq(s) == s \in Seq({s[n] : n \in DOMAIN s})

IsFrame(fr) ==
  fr = [fun |-> fr.fun, clone |-> fr.clone, typ |-> fr.typ, at |-> fr.at,
        returns |-> fr.returns, calls |-> fr.calls, mark |-> fr.mark,
        temps |-> fr.temps, skip |-> fr.skip]

FramesOK(fs, ms) ==
  /\ IsSeq(fs) /\ fs # << >>
  /\ ~fs[1].clone /\ fs[1].fun = "module"
  /\ \A n \in 1 .. Len(fs) : IsFrame(fs[n])
  /\ \A n \in 1 .. Len(fs) : \A c \in fs[n].calls : c.to \in 1 .. Len(ms)
  /\ \A n \in 1 .. Len(fs) : fs[n].clone =>
       \A i \in 1 .. Len(ms) : ~(ms[i].fun = fs[n].fun /\ ms[i].key = fs[n].typ)
  /\ \A m, n \in 1 .. Len(fs) :
       fs[m].clone /\ fs[n].clone /\ fs[m].fun = fs[n].fun /\ fs[m].typ = fs[n].typ => m = n

MadeOK(ms) ==
  /\ IsSeq(ms)
  /\ \A i \in 1 .. Len(ms) : \A c \in ms[i].calls : c.to \in 1 .. (i - 1)
  /\ \A i, j \in 1 .. Len(ms) : ms[i].fun = ms[j].fun /\ ms[i].key = ms[j].key => i = j

ErrsOK(fs, es) ==
  /\ es \in Seq(BOOLEAN)
  /\ \A n \in 1 .. Len(fs) : fs[n].mark \in 0 .. Len(es)
  /\ \A m, n \in 1 .. Len(fs) : m <= n => fs[m].mark <= fs[n].mark
  /\ \A k \in 1 .. Len(es) :
       IF es[k] THEN \E n \in 1 .. Len(fs) : fs[n].clone /\ fs[n].mark < k
       ELSE \A n \in 1 .. Len(fs) : fs[n].clone => k <= fs[n].mark

BuildOK ==
  /\ phase = "check" => built = << >> /\ building = << >>
  /\ IsSeq(built) /\ IsSeq(building)
  /\ \A n \in 1 .. Len(building) : building[n] \in 1 .. Len(made)
  /\ \A m, n \in 1 .. Len(building) : m < n => building[n] < building[m]
  /\ CalleesBuiltFirst

LinkedOK == \A c \in linked : c.to \in 1 .. Len(made)

IInv ==
  /\ FramesOK(frames, made)
  /\ MadeOK(made)
  /\ ErrsOK(frames, errs)
  /\ BuildOK
  /\ LinkedOK

-------------------------------------------------------------------------------
(* Sequences *)

\* Every sequence is one of its own elements, so nothing else need be known of them.
LEMMA SeqOf ==
  ASSUME NEW S, NEW s \in Seq(S)
  PROVE  IsSeq(s) /\ Len(s) \in Nat /\ DOMAIN s = 1 .. Len(s)
BY DEF IsSeq

LEMMA AppendSeq ==
  ASSUME NEW s, IsSeq(s), NEW e
  PROVE  /\ IsSeq(Append(s, e)) /\ Append(s, e) # << >>
         /\ Len(s) \in Nat /\ Len(Append(s, e)) = Len(s) + 1
         /\ \A i \in 1 .. Len(s) : Append(s, e)[i] = s[i]
         /\ Append(s, e)[Len(s) + 1] = e
<1> DEFINE S == {s[n] : n \in DOMAIN s} \cup {e}
<1>1. s \in Seq(S) /\ e \in S
  BY SeqMonotonic, Z3 DEF IsSeq
<1> HIDE DEF S
<1>2. /\ Append(s, e) \in Seq(S) /\ Append(s, e) # << >>
      /\ Len(Append(s, e)) = Len(s) + 1
      /\ \A i \in 1 .. Len(s) : Append(s, e)[i] = s[i]
      /\ Append(s, e)[Len(s) + 1] = e
  BY ONLY <1>1, AppendProperties
<1>3. IsSeq(Append(s, e)) /\ Len(s) \in Nat
  BY ONLY <1>1, <1>2, SeqOf, Zenon
<1>4. QED
  BY ONLY <1>2, <1>3, Zenon

LEMMA PrefixSeq ==
  ASSUME NEW s, IsSeq(s), NEW k \in 0 .. Len(s)
  PROVE  /\ IsSeq(SubSeq(s, 1, k))
         /\ Len(SubSeq(s, 1, k)) = k
         /\ \A i \in 1 .. k : SubSeq(s, 1, k)[i] = s[i]
<1> DEFINE S == {s[n] : n \in DOMAIN s}
<1>1. s \in Seq(S)
  BY DEF IsSeq
<1> HIDE DEF S
<1>2. Len(s) \in Nat /\ k \in Nat /\ \A i \in 1 .. k : s[i] \in S
  BY <1>1
<1>3. /\ SubSeq(s, 1, k) \in Seq(S)
      /\ Len(SubSeq(s, 1, k)) = IF 1 <= k THEN k - 1 + 1 ELSE 0
      /\ \A i \in 1 .. k - 1 + 1 : SubSeq(s, 1, k)[i] = s[1 + i - 1]
  <2>1. 1 \in Int /\ k \in Int
    BY <1>2
  <2>2. QED
    BY ONLY <1>2, <2>1, SubSeqProperties
<1>4. IsSeq(SubSeq(s, 1, k))
  BY ONLY <1>3, SeqOf, Zenon
<1>5. k - 1 + 1 = k /\ \A i \in 1 .. k : 1 + i - 1 = i
  BY <1>2
<1>6. Len(SubSeq(s, 1, k)) = k
  BY ONLY <1>2, <1>3, SMT
<1>7. QED
  BY ONLY <1>3, <1>4, <1>5, <1>6, Zenon

LEMMA LastSeq ==
  ASSUME NEW s, IsSeq(s), s # << >>, NEW e
  PROVE  /\ IsSeq([s EXCEPT ![Len(s)] = e]) /\ [s EXCEPT ![Len(s)] = e] # << >>
         /\ Len(s) \in Nat \ {0} /\ Len([s EXCEPT ![Len(s)] = e]) = Len(s)
         /\ \A i \in 1 .. Len(s) : i # Len(s) => [s EXCEPT ![Len(s)] = e][i] = s[i]
         /\ [s EXCEPT ![Len(s)] = e][Len(s)] = e
<1> DEFINE S == {s[n] : n \in DOMAIN s} \cup {e}
           r == [s EXCEPT ![Len(s)] = e]
<1>1. s \in Seq(S) /\ e \in S
  BY SeqMonotonic, Z3 DEF IsSeq
<1> HIDE DEF S
<1>2. r \in Seq(S) /\ Len(r) = Len(s) /\ Len(s) \in Nat \ {0}
  BY ONLY <1>1, s # << >>, EmptySeq, ExceptSeq, SMT
<1>3. \A i \in 1 .. Len(s) : r[i] = IF i = Len(s) THEN e ELSE s[i]
  BY ONLY <1>1, <1>2, ExceptSeq, SMT
<1>4. IsSeq(r)
  BY ONLY <1>2, SeqOf, Zenon
<1>5. r # << >>
  BY ONLY <1>2, SMT
<1>6. Len(s) \in 1 .. Len(s)
  BY ONLY <1>2, SMT
<1>7. QED
  BY ONLY <1>2, <1>3, <1>4, <1>5, <1>6, Zenon

-------------------------------------------------------------------------------
(* The stack of bodies *)

SameBody(fr, gr) ==
  /\ IsFrame(fr)
  /\ fr.fun = gr.fun /\ fr.clone = gr.clone /\ fr.typ = gr.typ /\ fr.mark = gr.mark

Known(calls, ms) == \A c \in calls : c.to \in 1 .. Len(ms)

\* The body on top goes on (Simple, Define, Call, and a call after its clone failed).
LEMMA TopGoesOn ==
  ASSUME NEW fs, NEW ms, FramesOK(fs, ms), NEW fr,
         SameBody(fr, fs[Len(fs)]), Known(fr.calls, ms)
  PROVE  FramesOK([fs EXCEPT ![Len(fs)] = fr], ms)
<1> DEFINE gs == [fs EXCEPT ![Len(fs)] = fr]
<1>1. /\ IsSeq(gs) /\ gs # << >> /\ Len(fs) \in Nat \ {0} /\ Len(gs) = Len(fs)
      /\ \A i \in 1 .. Len(fs) : i # Len(fs) => gs[i] = fs[i]
      /\ gs[Len(fs)] = fr
  BY LastSeq, SMT DEF FramesOK
<1> HIDE DEF gs
<1>2. \A i \in 1 .. Len(fs) :
        gs[i].fun = fs[i].fun /\ gs[i].clone = fs[i].clone /\ gs[i].typ = fs[i].typ
  BY <1>1 DEF SameBody
<1>3. \A i \in 1 .. Len(fs) : IsFrame(gs[i])
  BY <1>1 DEF SameBody, FramesOK
<1>4. \A i \in 1 .. Len(fs) : \A c \in gs[i].calls : c.to \in 1 .. Len(ms)
  BY <1>1 DEF Known, FramesOK
<1>5. FramesOK(gs, ms)
  BY <1>1, <1>2, <1>3, <1>4 DEF FramesOK
<1>6. QED
  BY <1>5 DEF gs

\* A body is put on the stack (Define, Specialize).
LEMMA BodyPushed ==
  ASSUME NEW fs, NEW ms, FramesOK(fs, ms), NEW fr, IsFrame(fr), fr.calls = {},
         fr.clone =>
           /\ \A i \in 1 .. Len(ms) : ~(ms[i].fun = fr.fun /\ ms[i].key = fr.typ)
           /\ \A n \in 1 .. Len(fs) :
                ~(fs[n].clone /\ fs[n].fun = fr.fun /\ fs[n].typ = fr.typ)
  PROVE  FramesOK(Append(fs, fr), ms)
<1> DEFINE gs == Append(fs, fr)
<1>1. /\ IsSeq(gs) /\ gs # << >> /\ Len(fs) \in Nat /\ Len(gs) = Len(fs) + 1
      /\ \A i \in 1 .. Len(fs) : gs[i] = fs[i]
      /\ gs[Len(fs) + 1] = fr
  BY AppendSeq DEF FramesOK
<1>2. Len(fs) # 0
  BY LastSeq DEF FramesOK
<1> HIDE DEF gs
<1>3. \A i \in 1 .. Len(gs) : i = Len(gs) \/ i \in 1 .. Len(fs)
  BY <1>1
<1>4. FramesOK(gs, ms)
  BY <1>1, <1>2, <1>3 DEF FramesOK
<1>5. QED
  BY <1>4 DEF gs

\* The body on top is done with (FinishFunction, Keep, Discard).
LEMMA BodyPopped ==
  ASSUME NEW fs, NEW ms, FramesOK(fs, ms),
         fs[Len(fs)].clone \/ fs[Len(fs)].fun # "module"
  PROVE  /\ FramesOK(SubSeq(fs, 1, Len(fs) - 1), ms)
         /\ Len(fs) \in Nat \ {0, 1}
         /\ Len(SubSeq(fs, 1, Len(fs) - 1)) = Len(fs) - 1
         /\ \A i \in 1 .. Len(fs) - 1 : SubSeq(fs, 1, Len(fs) - 1)[i] = fs[i]
<1> DEFINE gs == SubSeq(fs, 1, Len(fs) - 1)
<1>1. Len(fs) \in Nat \ {0, 1}
  <2>1. Len(fs) \in Nat \ {0}
    BY LastSeq, Zenon DEF FramesOK
  <2>2. Len(fs) # 1
    BY DEF FramesOK
  <2>3. QED
    BY <2>1, <2>2
<1>2. Len(fs) - 1 \in 0 .. Len(fs)
  BY <1>1
<1>3. /\ IsSeq(gs) /\ Len(gs) = Len(fs) - 1
      /\ \A i \in 1 .. Len(fs) - 1 : gs[i] = fs[i]
  BY <1>2, PrefixSeq, Zenon DEF FramesOK
<1> HIDE DEF gs
<1>4. gs # << >>
  BY <1>1, <1>3
<1>5. FramesOK(gs, ms)
  BY <1>1, <1>3, <1>4, SMTT(30) DEF FramesOK
<1>6. QED
  BY <1>1, <1>3, <1>5 DEF gs

\* A clone becomes an instance (Keep): what it calls was finished before.
LEMMA CloneKept ==
  ASSUME NEW fs, NEW ms, FramesOK(fs, ms), MadeOK(ms), NEW m,
         fs[Len(fs)].clone, m.fun = fs[Len(fs)].fun, m.key = fs[Len(fs)].typ,
         m.calls = fs[Len(fs)].calls
  PROVE  FramesOK(SubSeq(fs, 1, Len(fs) - 1), Append(ms, m)) /\ MadeOK(Append(ms, m))
<1> DEFINE gs == SubSeq(fs, 1, Len(fs) - 1)
           ns == Append(ms, m)
<1>1. /\ FramesOK(gs, ms) /\ Len(fs) \in Nat \ {0, 1} /\ Len(gs) = Len(fs) - 1
      /\ \A i \in 1 .. Len(fs) - 1 : gs[i] = fs[i]
  BY BodyPopped, Zenon
<1>2. /\ IsSeq(ns) /\ Len(ms) \in Nat /\ Len(ns) = Len(ms) + 1
      /\ \A i \in 1 .. Len(ms) : ns[i] = ms[i]
      /\ ns[Len(ms) + 1] = m
  BY AppendSeq DEF MadeOK
<1> HIDE DEF gs, ns
<1>3. \A i \in 1 .. Len(ns) : i = Len(ns) \/ i \in 1 .. Len(ms)
  BY <1>2
<1>4. Len(fs) \in 1 .. Len(fs) /\ \A n \in 1 .. Len(gs) : n \in 1 .. Len(fs) /\ n # Len(fs)
  BY <1>1
<1>5. \A n \in 1 .. Len(gs) : gs[n].clone =>
        \A i \in 1 .. Len(ns) : ~(ns[i].fun = gs[n].fun /\ ns[i].key = gs[n].typ)
  <2>1. SUFFICES ASSUME NEW n \in 1 .. Len(gs), gs[n].clone, NEW i \in 1 .. Len(ns)
                 PROVE  ~(ns[i].fun = gs[n].fun /\ ns[i].key = gs[n].typ)
    OBVIOUS
  <2>2. CASE i \in 1 .. Len(ms)
    BY <2>1, <2>2, <1>1, <1>2, SMTT(30) DEF FramesOK
  <2>3. CASE i = Len(ns)
    <3>1. ns[i] = m
      BY <2>3, <1>2
    <3>2. n \in 1 .. Len(fs) /\ n # Len(fs) /\ gs[n] = fs[n]
      BY <1>1, <1>4
    <3>3. QED
      BY <2>1, <3>1, <3>2, <1>4 DEF FramesOK
  <2>4. QED
    BY <2>2, <2>3, <1>3
<1>6. \A n \in 1 .. Len(gs) : \A c \in gs[n].calls : c.to \in 1 .. Len(ns)
  BY <1>1, <1>2 DEF FramesOK
<1>7. FramesOK(gs, ns)
  BY <1>1, <1>5, <1>6 DEF FramesOK
<1>8. \A i \in 1 .. Len(ns) : \A c \in ns[i].calls : c.to \in 1 .. (i - 1)
  <2>1. \A c \in m.calls : c.to \in 1 .. Len(ms)
    BY <1>4 DEF FramesOK
  <2>2. QED
    BY <2>1, <1>2, <1>3 DEF MadeOK
<1>9. \A i \in 1 .. Len(ms) : ~(ms[i].fun = m.fun /\ ms[i].key = m.key)
  BY <1>4 DEF FramesOK
<1>10. \A i, j \in 1 .. Len(ns) : ns[i].fun = ns[j].fun /\ ns[i].key = ns[j].key => i = j
  BY <1>2, <1>3, <1>9 DEF MadeOK
<1>11. MadeOK(ns)
  BY <1>2, <1>8, <1>10 DEF MadeOK
<1>12. QED
  BY <1>7, <1>11 DEF gs, ns

-------------------------------------------------------------------------------
(* The errors and the marks of the clones *)

\* Only the bodies' marks and which are clones matter to the errors.
LEMMA ErrsSame ==
  ASSUME NEW fs, NEW gs, NEW es, ErrsOK(fs, es), Len(gs) = Len(fs),
         \A n \in 1 .. Len(fs) : gs[n].clone = fs[n].clone /\ gs[n].mark = fs[n].mark
  PROVE  ErrsOK(gs, es)
BY DEF ErrsOK

\* Errors are added with whether an instance is being checked.
LEMMA ErrsAdded ==
  ASSUME NEW fs, NEW es, ErrsOK(fs, es), NEW j \in Nat, NEW b \in BOOLEAN,
         b <=> \E n \in 1 .. Len(fs) : fs[n].clone
  PROVE  /\ ErrsOK(fs, es \o [i \in 1 .. j |-> b])
         /\ Own(es) \subseteq Own(es \o [i \in 1 .. j |-> b])
<1> DEFINE ds == [i \in 1 .. j |-> b]
           rs == es \o ds
<1>1. ds \in Seq(BOOLEAN) /\ Len(ds) = j /\ \A i \in 1 .. j : ds[i] = b
  OBVIOUS
<1>2. es \in Seq(BOOLEAN) /\ Len(es) \in Nat /\ DOMAIN es = 1 .. Len(es)
  BY DEF ErrsOK
<1> HIDE DEF ds
<1>3. /\ rs \in Seq(BOOLEAN) /\ Len(rs) = Len(es) + j
      /\ \A i \in 1 .. Len(es) + j :
           rs[i] = IF i <= Len(es) THEN es[i] ELSE ds[i - Len(es)]
  BY <1>1, <1>2, ConcatProperties
<1> HIDE DEF rs
<1>4. DOMAIN rs = 1 .. Len(rs)
  BY <1>3
<1>5. \A i \in 1 .. Len(rs) :
        IF i \in 1 .. Len(es) THEN rs[i] = es[i] ELSE rs[i] = b /\ i > Len(es)
  BY <1>1, <1>2, <1>3
<1>6. \A n \in 1 .. Len(fs) : fs[n].mark \in 0 .. Len(es)
  BY DEF ErrsOK
<1>7. \A k \in 1 .. Len(rs) :
       IF rs[k] THEN \E n \in 1 .. Len(fs) : fs[n].clone /\ fs[n].mark < k
       ELSE \A n \in 1 .. Len(fs) : fs[n].clone => k <= fs[n].mark
  <2>1. SUFFICES ASSUME NEW k \in 1 .. Len(rs)
                 PROVE  IF rs[k] THEN \E n \in 1 .. Len(fs) : fs[n].clone /\ fs[n].mark < k
                        ELSE \A n \in 1 .. Len(fs) : fs[n].clone => k <= fs[n].mark
    OBVIOUS
  <2>2. CASE k \in 1 .. Len(es)
    BY <2>2, <1>5 DEF ErrsOK
  <2>3. CASE k \notin 1 .. Len(es)
    <3>1. rs[k] = b /\ k > Len(es) /\ k \in Nat /\ Len(es) \in Nat
      BY <2>3, <1>2, <1>5
    <3>2. CASE b
      <4>1. PICK n \in 1 .. Len(fs) : fs[n].clone
        BY <3>2
      <4>2. fs[n].mark < k
        BY <1>6, <3>1
      <4>3. QED
        BY <3>1, <3>2, <4>1, <4>2
    <3>3. CASE ~b
      BY <3>1, <3>3
    <3>4. QED
      BY <3>2, <3>3
  <2>4. QED
    BY <2>2, <2>3
<1>8. ErrsOK(fs, rs)
  <2>1. \A n \in 1 .. Len(fs) : fs[n].mark \in 0 .. Len(rs)
    BY <1>2, <1>3, <1>6
  <2>2. \A m, n \in 1 .. Len(fs) : m <= n => fs[m].mark <= fs[n].mark
    BY DEF ErrsOK
  <2>3. rs \in Seq(BOOLEAN)
    BY <1>3
  <2>4. QED
    BY <1>7, <2>1, <2>2, <2>3, Zenon DEF ErrsOK
<1>9. Own(es) \subseteq Own(rs)
  BY <1>2, <1>3, <1>4, <1>5 DEF Own
<1>10. QED
  BY <1>8, <1>9 DEF rs, ds

\* The errors of a body on top stay when it is done with.
LEMMA ErrsPopped ==
  ASSUME NEW fs, NEW es, ErrsOK(fs, es), Len(fs) \in Nat \ {0, 1},
         NEW gs, Len(gs) = Len(fs) - 1,
         \A n \in 1 .. Len(fs) - 1 : gs[n].clone = fs[n].clone /\ gs[n].mark = fs[n].mark,
         fs[Len(fs)].clone => fs[Len(fs)].mark = Len(es)
  PROVE  ErrsOK(gs, es)
<1>1. Len(fs) \in 1 .. Len(fs) /\ \A n \in 1 .. Len(fs) : n = Len(fs) \/ n \in 1 .. Len(gs)
  OBVIOUS
<1>2. \A n \in 1 .. Len(gs) : n \in 1 .. Len(fs)
  OBVIOUS
<1>3. es \in Seq(BOOLEAN) /\ Len(es) \in Nat
  BY DEF ErrsOK
<1>4. \A k \in 1 .. Len(es) : es[k] =>
        \E n \in 1 .. Len(gs) : gs[n].clone /\ gs[n].mark < k
  <2>1. SUFFICES ASSUME NEW k \in 1 .. Len(es), es[k]
                 PROVE  \E n \in 1 .. Len(gs) : gs[n].clone /\ gs[n].mark < k
    OBVIOUS
  <2>2. PICK n \in 1 .. Len(fs) : fs[n].clone /\ fs[n].mark < k
    BY <2>1 DEF ErrsOK
  <2>3. n # Len(fs)
    BY <2>2, <1>3
  <2>4. QED
    BY <2>2, <2>3, <1>1
<1>5. QED
  BY <1>1, <1>2, <1>3, <1>4 DEF ErrsOK

\* A clone's errors go with it, and no other does.
LEMMA ErrsDropped ==
  ASSUME NEW fs, NEW es, ErrsOK(fs, es), Len(fs) \in Nat \ {0, 1},
         NEW gs, Len(gs) = Len(fs) - 1,
         \A n \in 1 .. Len(fs) - 1 : gs[n].clone = fs[n].clone /\ gs[n].mark = fs[n].mark,
         fs[Len(fs)].clone
  PROVE  /\ ErrsOK(gs, SubSeq(es, 1, fs[Len(fs)].mark))
         /\ Own(es) \subseteq Own(SubSeq(es, 1, fs[Len(fs)].mark))
<1> DEFINE mark == fs[Len(fs)].mark
           rs == SubSeq(es, 1, mark)
<1>1. Len(fs) \in 1 .. Len(fs) /\ \A n \in 1 .. Len(gs) : n \in 1 .. Len(fs) /\ n <= Len(fs)
  OBVIOUS
<1>2. es \in Seq(BOOLEAN) /\ Len(es) \in Nat /\ DOMAIN es = 1 .. Len(es) /\ mark \in 0 .. Len(es)
  BY <1>1 DEF ErrsOK
<1>3. rs \in Seq(BOOLEAN) /\ Len(rs) = mark /\ \A i \in 1 .. mark : rs[i] = es[i]
  BY <1>2, SubSeqProperties
<1>4. DOMAIN rs = 1 .. mark
  BY <1>3
<1>5. \A n \in 1 .. Len(gs) : gs[n].mark \in 0 .. mark
  <2>1. SUFFICES ASSUME NEW n \in 1 .. Len(gs)
                 PROVE  gs[n].mark \in 0 .. mark
    OBVIOUS
  <2>2. n \in 1 .. Len(fs) /\ n <= Len(fs) /\ gs[n].mark = fs[n].mark
    BY <1>1
  <2>3. fs[n].mark \in 0 .. Len(es) /\ fs[n].mark <= mark
    BY <2>2, <1>1 DEF ErrsOK
  <2>4. QED
    BY <2>2, <2>3, <1>2
<1> HIDE DEF rs
<1>6. \A k \in 1 .. mark :
       IF rs[k] THEN \E n \in 1 .. Len(gs) : gs[n].clone /\ gs[n].mark < k
       ELSE \A n \in 1 .. Len(gs) : gs[n].clone => k <= gs[n].mark
  <2>1. SUFFICES ASSUME NEW k \in 1 .. mark
                 PROVE  IF rs[k] THEN \E n \in 1 .. Len(gs) : gs[n].clone /\ gs[n].mark < k
                        ELSE \A n \in 1 .. Len(gs) : gs[n].clone => k <= gs[n].mark
    OBVIOUS
  <2>2. k \in 1 .. Len(es) /\ rs[k] = es[k]
    BY <1>2, <1>3
  <2>3. CASE rs[k]
    <3>1. PICK n \in 1 .. Len(fs) : fs[n].clone /\ fs[n].mark < k
      BY <2>2, <2>3 DEF ErrsOK
    <3>2. n # Len(fs)
      BY <3>1, <1>2
    <3>3. QED
      BY <2>3, <3>1, <3>2
  <2>4. CASE ~rs[k]
    BY <2>2, <2>4, <1>1 DEF ErrsOK
  <2>5. QED
    BY <2>3, <2>4
<1>7. ErrsOK(gs, rs)
  BY <1>1, <1>2, <1>3, <1>5, <1>6 DEF ErrsOK
<1>8. Own(es) \subseteq Own(rs)
  <2>1. SUFFICES ASSUME NEW k \in 1 .. Len(es), ~es[k]
                 PROVE  k \in 1 .. mark /\ ~rs[k]
    BY <1>2, <1>4 DEF Own
  <2>2. k <= mark
    BY <2>1, <1>1 DEF ErrsOK
  <2>3. QED
    BY <2>1, <2>2, <1>2, <1>3
<1>9. QED
  BY <1>7, <1>8 DEF rs

-------------------------------------------------------------------------------
(* The steps *)

\* What a statement leaves of its body is the same body.
LEMMA SameBodies ==
  ASSUME NEW fr, IsFrame(fr)
  PROVE  /\ SameBody([fr EXCEPT !.at = @ + 1], fr) /\ [fr EXCEPT !.at = @ + 1].calls = fr.calls
         /\ SameBody([fr EXCEPT !.skip = TRUE], fr) /\ [fr EXCEPT !.skip = TRUE].calls = fr.calls
<1>1. SameBody([fr EXCEPT !.at = @ + 1], fr) /\ [fr EXCEPT !.at = @ + 1].calls = fr.calls
  BY DEF IsFrame, SameBody
<1>2. ASSUME NEW v
      PROVE  SameBody([fr EXCEPT !.skip = v], fr) /\ [fr EXCEPT !.skip = v].calls = fr.calls
  BY DEF IsFrame, SameBody
<1>3. QED
  BY <1>1, <1>2

LEMMA ReturningSame ==
  ASSUME NEW fr, IsFrame(fr), NEW t
  PROVE  SameBody(Returning(fr, t), fr) /\ Returning(fr, t).calls = fr.calls
<1>1. PICK rs : Returning(fr, t) = [fr EXCEPT !.at = @ + 1, !.skip = FALSE, !.returns = rs]
  BY DEF Returning
<1>2. QED
  BY <1>1 DEF IsFrame, SameBody

LEMMA LinkingSame ==
  ASSUME NEW fr, IsFrame(fr), NEW t, NEW cs
  PROVE  /\ SameBody([Returning(fr, t) EXCEPT !.calls = cs], fr)
         /\ [Returning(fr, t) EXCEPT !.calls = cs].calls = cs
<1> DEFINE gr == Returning(fr, t)
<1>1. SameBody(gr, fr) /\ gr.calls = fr.calls
  BY ReturningSame
<1> HIDE DEF gr
<1>2. SameBody([gr EXCEPT !.calls = cs], fr) /\ [gr EXCEPT !.calls = cs].calls = cs
  BY <1>1 DEF SameBody, IsFrame
<1>3. QED
  BY <1>2 DEF gr

LEMMA TopKnown ==
  ASSUME FramesOK(frames, made)
  PROVE  /\ Len(frames) \in Nat \ {0} /\ DOMAIN frames = 1 .. Len(frames)
         /\ Len(frames) \in 1 .. Len(frames)
         /\ IsFrame(Top) /\ Known(Top.calls, made)
<1>1. Len(frames) \in Nat \ {0}
  BY LastSeq, Zenon DEF FramesOK
<1>2. DOMAIN frames = 1 .. Len(frames)
  BY DEF FramesOK, IsSeq
<1>3. Len(frames) \in 1 .. Len(frames)
  BY <1>1
<1>4. QED
  BY <1>1, <1>2, <1>3 DEF FramesOK, Known, Top

\* The top body's statement is done, with some errors (Simple, Call).
LEMMA GoesOn ==
  ASSUME FramesOK(frames, made), ErrsOK(frames, errs),
         NEW fr, SameBody(fr, Top), Known(fr.calls, made),
         NEW j \in Nat, frames' = Replace(fr), errs' = errs \o Errors(j)
  PROVE  /\ FramesOK(frames', made)
         /\ ErrsOK(frames', errs')
         /\ Own(errs) \subseteq Own(errs')
<1>1. FramesOK(frames', made)
  BY TopGoesOn DEF Replace, Top
<1>2. /\ Len(frames') = Len(frames)
      /\ \A n \in 1 .. Len(frames) :
           frames'[n].clone = frames[n].clone /\ frames'[n].mark = frames[n].mark
  <2>1. /\ Len(frames') = Len(frames)
        /\ \A n \in 1 .. Len(frames) : n # Len(frames) => frames'[n] = frames[n]
        /\ frames'[Len(frames)] = fr
    BY LastSeq DEF FramesOK, Replace
  <2>2. QED
    BY <2>1 DEF SameBody, Top
<1>3. InClone \in BOOLEAN /\ (InClone <=> \E n \in 1 .. Len(frames) : frames[n].clone)
  BY TopKnown DEF InClone
<1>4. ErrsOK(frames, errs') /\ Own(errs) \subseteq Own(errs')
  BY <1>3, ErrsAdded DEF Errors
<1>5. ErrsOK(frames', errs')
  BY <1>2, <1>4, ErrsSame
<1>6. QED
  BY <1>1, <1>4, <1>5

CheckOK ==
  /\ FramesOK(frames, made) /\ MadeOK(made) /\ ErrsOK(frames, errs) /\ LinkedOK

LEMMA SimpleOK ==
  ASSUME CheckOK, Simple
  PROVE  CheckOK' /\ Own(errs) \subseteq Own(errs')
<1>1. PICK t : /\ frames' = Replace(Returning(Top, t))
               /\ \E j \in {0, 1} : errs' = errs \o Errors(j)
  BY DEF Simple
<1>2. SameBody(Returning(Top, t), Top) /\ Known(Returning(Top, t).calls, made)
  BY TopKnown, ReturningSame DEF CheckOK
<1>3. FramesOK(frames', made) /\ ErrsOK(frames', errs') /\ Own(errs) \subseteq Own(errs')
  BY <1>1, <1>2, GoesOn DEF CheckOK
<1>4. made' = made /\ linked' = linked
  BY DEF Simple
<1>5. QED
  BY <1>3, <1>4 DEF CheckOK, LinkedOK

LEMMA CallOK ==
  ASSUME CheckOK, Call
  PROVE  CheckOK' /\ Own(errs) \subseteq Own(errs')
<1>1. made' = made
  BY DEF Call
<1>2. DOMAIN made = 1 .. Len(made)
  BY SeqOf, Zenon DEF CheckOK, MadeOK, IsSeq
<1>3. CASE \E i \in Instance(Callee, ArgType) : Link(i)
  <2>1. PICK i \in Instance(Callee, ArgType) : Link(i)
    BY <1>3
  <2>2. i \in 1 .. Len(made)
    BY <1>2 DEF Instance, InstancesOf
  <2>3. PICK cs : /\ frames' = Replace([Returning(Top, made[i].result) EXCEPT !.calls = cs])
                  /\ cs \in {Top.calls, Top.calls \cup {[at |-> Top.at, to |-> i]}}
    <3>1. Returning(Top, made[i].result).calls = Top.calls
      BY TopKnown, ReturningSame DEF CheckOK
    <3>2. QED
      BY <2>1, <3>1 DEF Link
  <2>4. Known(cs, made)
    BY <2>2, <2>3, TopKnown DEF Known, CheckOK
  <2>5. \E j \in {0, 1} : errs' = errs \o Errors(j)
    BY <2>1 DEF Link
  <2>6. FramesOK(frames', made) /\ ErrsOK(frames', errs') /\ Own(errs) \subseteq Own(errs')
    <3> DEFINE fr == [Returning(Top, made[i].result) EXCEPT !.calls = cs]
    <3>1. SameBody(fr, Top) /\ fr.calls = cs
      <4>1. IsFrame(Top)
        BY TopKnown DEF CheckOK
      <4>2. QED
        BY <4>1, LinkingSame
    <3>2. frames' = Replace(fr)
      BY <2>3
    <3> HIDE DEF fr
    <3>3. QED
      BY <3>1, <3>2, <2>4, <2>5, GoesOn DEF CheckOK
  <2>7. linked' = linked \/ linked' = linked \cup {[fun |-> Top.fun, at |-> Top.at, to |-> i]}
    BY <2>1 DEF Link
  <2>8. LinkedOK'
    BY <2>2, <2>7, <1>1 DEF LinkedOK, CheckOK
  <2>9. QED
    BY <2>6, <2>8, <1>1 DEF CheckOK
<1>4. CASE FallBack
  <2>1. PICK j \in {0, 1, 2} : errs' = errs \o Errors(j)
    <3> DEFINE a == IF AssignableTo(ArgType, Def(Callee).param) THEN 0 ELSE 1
               b == IF BadReturn(results[Callee]) THEN 1 ELSE 0
    <3>1. errs' = errs \o Errors(a + b)
      BY <1>4 DEF FallBack
    <3>2. a \in {0, 1} /\ b \in {0, 1}
      OBVIOUS
    <3> HIDE DEF a, b
    <3>3. a + b \in {0, 1, 2}
      BY <3>2
    <3>4. QED
      BY <3>1, <3>3
  <2>2. frames' = Replace(Returning(Top, results[Callee])) /\ linked' = linked
    BY <1>4 DEF FallBack
  <2>3. /\ SameBody(Returning(Top, results[Callee]), Top)
        /\ Known(Returning(Top, results[Callee]).calls, made)
    BY TopKnown, ReturningSame DEF CheckOK
  <2>4. FramesOK(frames', made) /\ ErrsOK(frames', errs') /\ Own(errs) \subseteq Own(errs')
    BY <2>1, <2>2, <2>3, GoesOn DEF CheckOK
  <2>5. QED
    BY <2>2, <2>4, <1>1 DEF CheckOK, LinkedOK
<1>5. QED
  BY <1>3, <1>4 DEF Call

\* A new body's mark is the number of errors, at least every mark below.
LEMMA ErrsPushed ==
  ASSUME NEW fs, NEW es, ErrsOK(fs, es), NEW gs, Len(fs) \in Nat, Len(gs) = Len(fs) + 1,
         \A n \in 1 .. Len(fs) : gs[n].clone = fs[n].clone /\ gs[n].mark = fs[n].mark,
         gs[Len(fs) + 1].mark = Len(es)
  PROVE  ErrsOK(gs, es)
<1>1. es \in Seq(BOOLEAN) /\ Len(es) \in Nat
  BY DEF ErrsOK
<1>2. \A n \in 1 .. Len(gs) : n = Len(gs) \/ n \in 1 .. Len(fs)
  OBVIOUS
<1>3. \A n \in 1 .. Len(gs) : gs[n].mark \in 0 .. Len(es)
  BY <1>1, <1>2 DEF ErrsOK
<1>4. \A m, n \in 1 .. Len(gs) : m <= n => gs[m].mark <= gs[n].mark
  <2>1. SUFFICES ASSUME NEW m \in 1 .. Len(gs), NEW n \in 1 .. Len(gs), m <= n
                 PROVE  gs[m].mark <= gs[n].mark
    OBVIOUS
  <2>2. CASE n = Len(gs)
    BY <2>2, <1>1, <1>3
  <2>3. CASE n # Len(gs)
    BY <2>1, <2>3, <1>2 DEF ErrsOK
  <2>4. QED
    BY <2>2, <2>3
<1>5. \A n \in 1 .. Len(fs) : n \in 1 .. Len(gs)
  OBVIOUS
<1>6. \A k \in 1 .. Len(es) :
       IF es[k] THEN \E n \in 1 .. Len(gs) : gs[n].clone /\ gs[n].mark < k
       ELSE \A n \in 1 .. Len(gs) : gs[n].clone => k <= gs[n].mark
  <2>1. SUFFICES ASSUME NEW k \in 1 .. Len(es)
                 PROVE  IF es[k] THEN \E n \in 1 .. Len(gs) : gs[n].clone /\ gs[n].mark < k
                        ELSE \A n \in 1 .. Len(gs) : gs[n].clone => k <= gs[n].mark
    OBVIOUS
  <2>2. CASE es[k]
    BY <2>2, <1>5 DEF ErrsOK
  <2>3. CASE ~es[k]
    BY <2>3, <1>1, <1>2 DEF ErrsOK
  <2>4. QED
    BY <2>2, <2>3
<1>7. QED
  BY <1>1, <1>3, <1>4, <1>6 DEF ErrsOK

LEMMA SpecializeOK ==
  ASSUME CheckOK, Specialize
  PROVE  CheckOK' /\ Own(errs) \subseteq Own(errs')
<1> DEFINE fr == Frame(Callee, TRUE, ArgType, Len(errs))
<1>1. /\ IsFrame(fr) /\ fr.calls = {} /\ fr.clone /\ fr.fun = Callee /\ fr.typ = ArgType
      /\ fr.mark = Len(errs)
  BY DEF Frame, IsFrame
<1>2. frames' = Append(frames, fr) /\ made' = made /\ linked' = linked /\ errs' = errs
  BY DEF Specialize
<1>3. DOMAIN made = 1 .. Len(made)
  BY SeqOf, Zenon DEF CheckOK, MadeOK, IsSeq
<1> HIDE DEF fr
<1>4. \A i \in 1 .. Len(made) : ~(made[i].fun = fr.fun /\ made[i].key = fr.typ)
  BY <1>1, <1>3 DEF Specialize, Fresh, Instance, InstancesOf
<1>5. \A n \in 1 .. Len(frames) :
        ~(frames[n].clone /\ frames[n].fun = fr.fun /\ frames[n].typ = fr.typ)
  BY <1>1, TopKnown DEF Specialize, Fresh, Active, CheckOK
<1>6. FramesOK(frames', made)
  BY <1>1, <1>2, <1>4, <1>5, BodyPushed DEF CheckOK
<1>7. /\ Len(frames) \in Nat /\ Len(frames') = Len(frames) + 1
      /\ \A n \in 1 .. Len(frames) : frames'[n] = frames[n]
      /\ frames'[Len(frames) + 1] = fr
  BY <1>2, AppendSeq DEF CheckOK, FramesOK
<1>8. ErrsOK(frames', errs)
  BY <1>1, <1>7, ErrsPushed DEF CheckOK
<1>9. QED
  BY <1>2, <1>6, <1>8 DEF CheckOK, LinkedOK

LEMMA DefineOK ==
  ASSUME CheckOK, Define
  PROVE  CheckOK' /\ Own(errs) \subseteq Own(errs')
<1> DEFINE fs == Replace([Top EXCEPT !.at = @ + 1])
           fr == Frame(Stmt.fun, FALSE, Def(Stmt.fun).param, Len(errs))
<1>1. IsFrame(fr) /\ fr.calls = {} /\ fr.mark = Len(errs)
  BY DEF Frame, IsFrame
<1>2. ~fr.clone
  BY DEF Frame
<1>3. frames' = Append(fs, fr) /\ made' = made /\ linked' = linked /\ errs' = errs
  BY DEF Define
<1>4. /\ SameBody([Top EXCEPT !.at = @ + 1], Top)
      /\ Known([Top EXCEPT !.at = @ + 1].calls, made)
  BY TopKnown, SameBodies DEF CheckOK
<1> HIDE DEF fr
<1>5. FramesOK(fs, made)
  BY <1>4, TopGoesOn DEF Replace, Top, CheckOK
<1>6. /\ Len(fs) = Len(frames)
      /\ \A n \in 1 .. Len(frames) : fs[n].clone = frames[n].clone /\ fs[n].mark = frames[n].mark
  <2>1. /\ Len(fs) = Len(frames)
        /\ \A n \in 1 .. Len(frames) : n # Len(frames) => fs[n] = frames[n]
        /\ fs[Len(frames)] = [Top EXCEPT !.at = @ + 1]
    BY LastSeq DEF CheckOK, FramesOK, Replace
  <2>2. QED
    BY <2>1, <1>4 DEF SameBody, Top
<1> HIDE DEF fs
<1>7. ErrsOK(fs, errs)
  BY <1>6, ErrsSame DEF CheckOK
<1>8. FramesOK(frames', made)
  BY <1>1, <1>2, <1>3, <1>5, BodyPushed
<1>9. /\ Len(fs) \in Nat /\ Len(frames') = Len(fs) + 1
      /\ \A n \in 1 .. Len(fs) : frames'[n] = fs[n]
      /\ frames'[Len(fs) + 1] = fr
  BY <1>3, <1>5, AppendSeq DEF FramesOK
<1>10. ErrsOK(frames', errs)
  BY <1>1, <1>7, <1>9, ErrsPushed
<1>11. QED
  BY <1>3, <1>8, <1>10 DEF CheckOK, LinkedOK

LEMMA FinishFunctionOK ==
  ASSUME CheckOK, FinishFunction
  PROVE  CheckOK' /\ Own(errs) \subseteq Own(errs')
<1>1. /\ frames' = SubSeq(frames, 1, Len(frames) - 1) /\ Top.fun # "module" /\ ~Top.clone
      /\ made' = made /\ linked' = linked
  BY DEF FinishFunction, Pop
<1>2. PICK j \in Nat : errs' = errs \o Errors(j)
  BY DEF FinishFunction
<1>3. InClone \in BOOLEAN /\ (InClone <=> \E n \in 1 .. Len(frames) : frames[n].clone)
  BY TopKnown DEF InClone, CheckOK
<1>4. ErrsOK(frames, errs') /\ Own(errs) \subseteq Own(errs')
  <2>1. ErrsOK(frames, errs)
    BY DEF CheckOK
  <2>2. QED
    BY <1>2, <1>3, <2>1, ErrsAdded DEF Errors
<1>5. /\ FramesOK(frames', made) /\ Len(frames) \in Nat \ {0, 1}
      /\ Len(frames') = Len(frames) - 1
      /\ \A i \in 1 .. Len(frames) - 1 : frames'[i] = frames[i]
  BY <1>1, BodyPopped, Zenon DEF CheckOK, Top
<1>6. ErrsOK(frames', errs')
  BY <1>1, <1>4, <1>5, ErrsPopped DEF Top
<1>7. QED
  BY <1>1, <1>4, <1>5, <1>6 DEF CheckOK, LinkedOK

LEMMA KeepOK ==
  ASSUME CheckOK, Keep
  PROVE  CheckOK' /\ Own(errs) \subseteq Own(errs')
<1> DEFINE m == [fun |-> Top.fun, key |-> Top.typ, result |-> Inferred, calls |-> Top.calls]
<1>1. /\ frames' = SubSeq(frames, 1, Len(frames) - 1) /\ made' = Append(made, m)
      /\ Top.clone /\ Len(errs) = Top.mark /\ linked' = linked /\ errs' = errs
  BY DEF Keep, Pop
<1>2. m.fun = Top.fun /\ m.key = Top.typ /\ m.calls = Top.calls
  OBVIOUS
<1> HIDE DEF m
<1>3. FramesOK(frames', made') /\ MadeOK(made')
  BY <1>1, <1>2, CloneKept DEF CheckOK, Top
<1>4. /\ Len(frames) \in Nat \ {0, 1} /\ Len(frames') = Len(frames) - 1
      /\ \A i \in 1 .. Len(frames) - 1 : frames'[i] = frames[i]
  BY <1>1, BodyPopped, Zenon DEF CheckOK, Top
<1>5. ErrsOK(frames', errs')
  BY <1>1, <1>4, ErrsPopped DEF Top, CheckOK
<1>6. Len(made) \in Nat /\ Len(made') = Len(made) + 1
  BY <1>1, AppendSeq DEF CheckOK, MadeOK
<1>7. LinkedOK'
  BY <1>1, <1>6 DEF CheckOK, LinkedOK
<1>8. QED
  BY <1>1, <1>3, <1>5, <1>7 DEF CheckOK

LEMMA DiscardOK ==
  ASSUME CheckOK, Discard
  PROVE  CheckOK' /\ Own(errs) \subseteq Own(errs')
<1> DEFINE gs == SubSeq(frames, 1, Len(frames) - 1)
           fr == [gs[Len(gs)] EXCEPT !.skip = TRUE]
<1>1. /\ frames' = [gs EXCEPT ![Len(gs)].skip = TRUE] /\ Top.clone
      /\ errs' = SubSeq(errs, 1, Top.mark) /\ made' = made /\ linked' = linked
  BY DEF Discard, Pop
<1>2. /\ FramesOK(gs, made) /\ Len(frames) \in Nat \ {0, 1} /\ Len(gs) = Len(frames) - 1
      /\ \A i \in 1 .. Len(frames) - 1 : gs[i] = frames[i]
  BY <1>1, BodyPopped, Zenon DEF CheckOK, Top
<1>3. frames' = [gs EXCEPT ![Len(gs)] = fr]
  BY <1>1
<1> HIDE DEF gs
<1>4. Len(gs) \in 1 .. Len(gs)
  BY <1>2
<1>5. IsFrame(gs[Len(gs)]) /\ Known(gs[Len(gs)].calls, made)
  BY <1>2, <1>4 DEF FramesOK, Known
<1>6. SameBody(fr, gs[Len(gs)]) /\ fr.calls = gs[Len(gs)].calls
  BY <1>5, SameBodies
<1> HIDE DEF fr
<1>7. FramesOK(frames', made)
  BY <1>2, <1>3, <1>5, <1>6, TopGoesOn
<1>8. /\ Len(frames') = Len(gs)
      /\ \A n \in 1 .. Len(gs) : n # Len(gs) => frames'[n] = gs[n]
      /\ frames'[Len(gs)] = fr
  BY <1>2, <1>3, LastSeq DEF FramesOK
<1>9. \A n \in 1 .. Len(frames) - 1 :
        frames'[n].clone = frames[n].clone /\ frames'[n].mark = frames[n].mark
  BY <1>2, <1>6, <1>8 DEF SameBody
<1>10. ErrsOK(frames', errs') /\ Own(errs) \subseteq Own(errs')
  BY <1>1, <1>2, <1>8, <1>9, ErrsDropped DEF Top, CheckOK
<1>11. QED
  BY <1>1, <1>7, <1>10 DEF CheckOK, LinkedOK

-------------------------------------------------------------------------------
(* Building the instances *)

LEMMA BuildCalleeOK ==
  ASSUME CheckOK, BuildOK, BuildCallee
  PROVE  BuildOK'
<1>1. PICK j \in Waiting : building' = Append(building, j)
  BY DEF BuildCallee
<1>2. UNCHANGED << made, built, phase >> /\ phase # "check"
  BY DEF BuildCallee, checkVars
<1>3. Len(building) \in Nat \ {0} /\ Inner \in 1 .. Len(made)
  BY LastSeq DEF BuildCallee, BuildOK, Inner
<1>4. j \in 1 .. (Inner - 1)
  BY <1>3 DEF Waiting, Calls, CheckOK, MadeOK
<1>5. /\ IsSeq(building') /\ Len(building') = Len(building) + 1
      /\ \A n \in 1 .. Len(building) : building'[n] = building[n]
      /\ building'[Len(building) + 1] = j
  BY <1>1, AppendSeq DEF BuildOK
<1>6. \A n \in 1 .. Len(building') : n = Len(building') \/ n \in 1 .. Len(building)
  BY <1>3, <1>5
<1>7. Len(made) \in Nat
  BY <1>3, SeqOf, Zenon DEF CheckOK, MadeOK, IsSeq
<1>8. \A n \in 1 .. Len(building') : building'[n] \in 1 .. Len(made')
  BY <1>2, <1>3, <1>4, <1>5, <1>6, <1>7 DEF BuildOK
<1>9. \A n \in 1 .. Len(building) : Inner <= building[n] /\ building[n] \in 1 .. Len(made)
  BY <1>3, <1>7 DEF BuildOK, Inner
<1>10. \A m, n \in 1 .. Len(building') : m < n => building'[n] < building'[m]
  <2>1. SUFFICES ASSUME NEW m \in 1 .. Len(building'), NEW n \in 1 .. Len(building'), m < n
                 PROVE  building'[n] < building'[m]
    OBVIOUS
  <2>2. m \in 1 .. Len(building)
    BY <2>1, <1>3, <1>5
  <2>3. CASE n = Len(building')
    BY <2>2, <2>3, <1>3, <1>4, <1>5, <1>7, <1>9
  <2>4. CASE n \in 1 .. Len(building)
    BY <2>1, <2>2, <2>4, <1>5 DEF BuildOK
  <2>5. QED
    BY <2>3, <2>4, <1>6
<1>11. CalleesBuiltFirst'
  BY <1>2 DEF BuildOK, CalleesBuiltFirst, Calls
<1>12. QED
  BY <1>2, <1>5, <1>8, <1>10, <1>11 DEF BuildOK

\* Nothing the innermost instance calls is being built: it would be smaller.
LEMMA BuildBodyOK ==
  ASSUME CheckOK, BuildOK, Build
  PROVE  BuildOK'
<1>1. /\ building # << >> /\ Waiting = {} /\ built' = Append(built, Inner)
      /\ building' = SubSeq(building, 1, Len(building) - 1)
      /\ UNCHANGED << made, phase >> /\ phase # "check"
  BY DEF Build, checkVars
<1>2. Len(building) \in Nat \ {0} /\ Inner \in 1 .. Len(made)
  BY <1>1, LastSeq DEF BuildOK, Inner
<1>3. Len(building) - 1 \in 0 .. Len(building)
  BY <1>2
<1>4. /\ IsSeq(building') /\ Len(building') = Len(building) - 1
      /\ \A n \in 1 .. Len(building) - 1 : building'[n] = building[n]
  BY <1>1, <1>3, PrefixSeq, Zenon DEF BuildOK
<1>5. /\ IsSeq(built') /\ Len(built) \in Nat /\ Len(built') = Len(built) + 1
      /\ \A n \in 1 .. Len(built) : built'[n] = built[n]
      /\ built'[Len(built) + 1] = Inner
  BY <1>1, AppendSeq DEF BuildOK
<1>6. /\ \A n \in 1 .. Len(building') : building'[n] \in 1 .. Len(made')
      /\ \A m, n \in 1 .. Len(building') : m < n => building'[n] < building'[m]
  <2>1. \A n \in 1 .. Len(building') : n \in 1 .. Len(building) /\ building'[n] = building[n]
    BY <1>2, <1>4
  <2>2. QED
    BY <2>1, <1>1 DEF BuildOK
<1>7. Calls(Inner) \subseteq Elements(built)
  <2>1. SUFFICES ASSUME NEW j \in Calls(Inner)
                 PROVE  j \notin Elements(building)
    BY <1>1 DEF Waiting
  <2>2. j \in 1 .. (Inner - 1)
    BY <1>2 DEF Calls, CheckOK, MadeOK
  <2>3. SUFFICES ASSUME NEW n \in 1 .. Len(building), j = building[n]
                 PROVE  FALSE
    BY SeqOf DEF Elements, BuildOK, IsSeq
  <2>4. Len(made) \in Nat
    BY SeqOf, Zenon DEF CheckOK, MadeOK, IsSeq
  <2>5. Inner <= building[n] /\ building[n] \in 1 .. Len(made)
    BY <1>2, <2>4 DEF BuildOK, Inner
  <2>6. QED
    BY <2>2, <2>3, <2>4, <2>5, <1>2
<1>8. CalleesBuiltFirst'
  <2>1. DOMAIN built = 1 .. Len(built) /\ DOMAIN built' = 1 .. Len(built')
    BY <1>5 DEF BuildOK, IsSeq
  <2>2. SUFFICES ASSUME NEW n \in 1 .. Len(built'), NEW j \in Calls(built'[n])
                 PROVE  \E m \in 1 .. (n - 1) : built'[m] = j
    BY <2>1, <1>1 DEF CalleesBuiltFirst, Calls
  <2>3. CASE n \in 1 .. Len(built)
    <3>1. PICK m \in 1 .. (n - 1) : built[m] = j
      BY <2>1, <2>2, <2>3, <1>5 DEF BuildOK, CalleesBuiltFirst
    <3>2. QED
      BY <2>3, <3>1, <1>5
  <2>4. CASE n = Len(built) + 1
    <3>1. PICK m \in 1 .. Len(built) : built[m] = j
      BY <2>1, <2>2, <2>4, <1>5, <1>7 DEF Elements
    <3>2. QED
      BY <2>4, <3>1, <1>5
  <2>5. QED
    BY <2>3, <2>4, <1>5
<1>9. QED
  BY <1>1, <1>4, <1>5, <1>6, <1>8 DEF BuildOK

LEMMA BuildNextOK ==
  ASSUME CheckOK, BuildOK, BuildNext
  PROVE  BuildOK'
<1>1. PICK i \in Unbuilt : building' = << i >>
  BY DEF BuildNext
<1>2. UNCHANGED << made, built, phase >> /\ phase # "check"
  BY DEF BuildNext, checkVars
<1>3. i \in 1 .. Len(made)
  <2>1. DOMAIN made = 1 .. Len(made)
    BY SeqOf, Zenon DEF CheckOK, MadeOK, IsSeq
  <2>2. {c.to : c \in linked} \subseteq 1 .. Len(made)
    BY DEF CheckOK, LinkedOK
  <2>3. QED
    BY <2>1, <2>2 DEF Unbuilt
<1>4. /\ IsSeq(building') /\ Len(building') = 1 /\ building'[1] = i
  <2>1. building' \in Seq({i}) /\ Len(building') = 1 /\ building'[1] = i
    BY <1>1
  <2>2. QED
    BY <2>1, SeqOf
<1>5. CalleesBuiltFirst'
  BY <1>2 DEF BuildOK, CalleesBuiltFirst, Calls
<1>6. QED
  BY <1>2, <1>3, <1>4, <1>5 DEF BuildOK

LEMMA Initially == Init => IInv
<1> SUFFICES ASSUME Init PROVE IInv
  OBVIOUS
<1> DEFINE fr == [fun |-> "module", clone |-> FALSE, typ |-> NoneType, at |-> 1,
                  returns |-> {}, calls |-> {}, mark |-> 0, temps |-> {}, skip |-> FALSE]
<1>1. /\ frames = << fr >> /\ made = << >> /\ errs = << >> /\ linked = {}
      /\ built = << >> /\ building = << >>
  BY DEF Init
<1>2. /\ IsFrame(fr) /\ fr.calls = {} /\ fr.fun = "module" /\ fr.mark = 0
  BY DEF IsFrame
<1>3. ~fr.clone
  OBVIOUS
<1> HIDE DEF fr
<1>4. << fr >> \in Seq({fr}) /\ Len(<< fr >>) = 1 /\ << fr >>[1] = fr /\ << fr >> # << >>
  OBVIOUS
<1>5. \A s : s = << >> => IsSeq(s) /\ Len(s) = 0
  BY EmptySeq DEF IsSeq
<1>6. IsSeq(frames)
  BY <1>1, <1>4, SeqOf
<1>7. FramesOK(frames, made)
  BY <1>1, <1>2, <1>3, <1>4, <1>6 DEF FramesOK
<1>8. MadeOK(made)
  BY <1>1, <1>5 DEF MadeOK
<1>9. ErrsOK(frames, errs)
  BY <1>1, <1>2, <1>4 DEF ErrsOK
<1>10. BuildOK
  BY <1>1, <1>5 DEF BuildOK, CalleesBuiltFirst
<1>11. QED
  BY <1>1, <1>7, <1>8, <1>9, <1>10 DEF IInv, LinkedOK

LEMMA Stepwise ==
  ASSUME IInv, [Next]_vars
  PROVE  IInv' /\ Own(errs) \subseteq Own(errs')
<1> USE DEF IInv
<1>1. CheckOK /\ BuildOK
  BY DEF CheckOK
<1>2. CASE Simple \/ Define \/ Call \/ Specialize \/ FinishFunction \/ Keep \/ Discard
  <2>1. CheckOK' /\ Own(errs) \subseteq Own(errs')
    BY <1>1, <1>2, SimpleOK, DefineOK, CallOK, SpecializeOK, FinishFunctionOK, KeepOK, DiscardOK
  <2>2. phase = "check" /\ built' = built /\ building' = building
    BY <1>2 DEF Simple, Define, Call, Specialize, FinishFunction, Keep, Discard, buildVars
  <2>3. built' = << >> /\ building' = << >>
    BY <1>1, <2>2 DEF BuildOK
  <2>4. \A s : s = << >> => IsSeq(s) /\ Len(s) = 0
    BY EmptySeq DEF IsSeq
  <2>5. BuildOK'
    BY <2>3, <2>4 DEF BuildOK, CalleesBuiltFirst
  <2>6. QED
    BY <2>1, <2>5 DEF CheckOK
<1>3. CASE FinishModule \/ Finish \/ UNCHANGED vars
  <2>1. UNCHANGED << frames, made, errs, linked, built, building >>
        /\ (phase' = "check" => phase = "check")
    BY <1>3 DEF FinishModule, Finish, vars, checkVars, buildVars
  <2>2. CheckOK' /\ Own(errs) = Own(errs')
    BY <1>1, <2>1 DEF CheckOK, LinkedOK
  <2>3. BuildOK'
    BY <1>1, <2>1 DEF BuildOK, CalleesBuiltFirst, Calls
  <2>4. QED
    BY <2>2, <2>3 DEF CheckOK
<1>4. CASE BuildCallee \/ Build \/ BuildNext
  <2>1. BuildOK'
    BY <1>1, <1>4, BuildCalleeOK, BuildBodyOK, BuildNextOK
  <2>2. UNCHANGED << frames, made, errs, linked >>
    BY <1>4 DEF BuildCallee, Build, BuildNext, checkVars
  <2>3. CheckOK' /\ Own(errs) = Own(errs')
    BY <1>1, <2>2 DEF CheckOK, LinkedOK
  <2>4. QED
    BY <2>1, <2>3 DEF CheckOK
<1>5. QED
  BY <1>2, <1>3, <1>4 DEF Next

\* Instances refer to earlier ones only and none is made twice, for every
\* program, cap and depth (specialize).
THEOREM Ordered == Spec => []InstancesAreOrdered
<1>1. IInv => InstancesAreOrdered
  <2>1. IInv => DOMAIN made = 1 .. Len(made)
    BY SeqOf, Zenon DEF IInv, MadeOK, IsSeq
  <2>2. QED
    BY <2>1 DEF IInv, MadeOK, InstancesAreOrdered
<1>2. IInv /\ [Next]_vars => IInv'
  BY Stepwise
<1>3. QED
  BY <1>1, <1>2, Initially, PTL DEF Spec

\* An instance's code is made after that of everything it calls: the chain of
\* instances being built decreases, so buildSpec's guard against building one
\* twice at a time never leaves a call without its constant (buildSpec).
THEOREM CalleesFirst == Spec => []CalleesBuiltFirst
<1>1. IInv => CalleesBuiltFirst
  BY DEF IInv, BuildOK
<1>2. IInv /\ [Next]_vars => IInv'
  BY Stepwise
<1>3. QED
  BY <1>1, <1>2, Initially, PTL DEF Spec

\* A failed instance takes its own errors with it and no others, however deeply
\* instances are nested (specialize).
THEOREM RolledBack == Spec => ErrorsRolledBack
<1>1. ASSUME IInv, ~InClone
      PROVE  Own(errs) = DOMAIN errs
  <2>1. DOMAIN errs = 1 .. Len(errs) /\ errs \in Seq(BOOLEAN)
    BY <1>1 DEF IInv, ErrsOK
  <2>2. \A n \in 1 .. Len(frames) : ~frames[n].clone
    BY <1>1, TopKnown DEF IInv, InClone
  <2>3. \A k \in 1 .. Len(errs) : ~errs[k]
    BY <1>1, <2>2 DEF IInv, ErrsOK
  <2>4. QED
    BY <2>1, <2>3 DEF Own
<1>2. IInv /\ ~InClone => Own(errs) = DOMAIN errs
  BY <1>1
<1>3. (IInv /\ ~InClone => Own(errs) = DOMAIN errs)'
  BY <1>2, PTL
<1>4. ASSUME IInv, [Next]_vars
      PROVE  /\ Own(errs) \subseteq Own(errs')
             /\ ~InClone' => Own(errs') = DOMAIN errs'
  BY <1>3, <1>4, Stepwise
<1>5. IInv /\ [Next]_vars => IInv'
  BY Stepwise
<1>6. IInv /\ [Next]_vars => [RollsBack]_vars
  BY <1>4 DEF RollsBack
<1>7. QED
  BY <1>5, <1>6, Initially, PTL DEF Spec, ErrorsRolledBack
===============================================================================
