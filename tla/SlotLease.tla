------------------------------ MODULE SlotLease ------------------------------
(***************************************************************************)
(* What a lowerer promises about the scratch slots of the frames it is     *)
(* building, with no free lists, marks or counters: a slot is leased to at *)
(* most one reservation, a lease ends with the statement that took it, and *)
(* a frame being lowered never disturbs the frames it is nested in.        *)
(* ScratchPool (compiler/lower.go) is shown to implement this module.      *)
(***************************************************************************)
EXTENDS Naturals, Sequences

CONSTANTS Kinds      \* the VM kinds a slot can be declared with

VARIABLE leases      \* one record per open frame, innermost last

(***************************************************************************)
(* kind[i] is the declared kind of slot i; owner[i] is the depth of the    *)
(* statement that holds it, 0 when nobody does; depth is the number of     *)
(* statements of the frame being lowered, plus one for the frame itself.   *)
(***************************************************************************)
EmptyFrame == [kind |-> << >>, owner |-> << >>, depth |-> 1]

Top == leases[Len(leases)]

WithTop(frame) == [leases EXCEPT ![Len(leases)] = frame]

Init == leases = << EmptyFrame >>

Open ==
  /\ leases # << >>
  /\ leases' = WithTop([Top EXCEPT !.depth = @ + 1])

Close ==
  /\ leases # << >>
  /\ Top.depth > 1
  /\ leases' = WithTop(
       [Top EXCEPT !.depth = @ - 1,
                   !.owner = [i \in DOMAIN Top.owner |->
                                IF Top.owner[i] = Top.depth THEN 0 ELSE Top.owner[i]]])

\* A slot nobody holds is leased to the innermost statement ...
LeaseAgain(k) ==
  /\ leases # << >>
  /\ \E i \in DOMAIN Top.owner :
       /\ Top.owner[i] = 0
       /\ Top.kind[i] = k
       /\ leases' = WithTop([Top EXCEPT !.owner[i] = Top.depth])

\* ... or the frame grows by one slot.
LeaseFresh(k) ==
  /\ leases # << >>
  /\ leases' = WithTop([Top EXCEPT !.kind = Append(@, k),
                                   !.owner = Append(@, Top.depth)])

EnterFrame ==
  /\ leases # << >>
  /\ leases' = Append(leases, EmptyFrame)

LeaveFrame ==
  /\ leases # << >>
  /\ leases' = SubSeq(leases, 1, Len(leases) - 1)

Next ==
  \/ Open
  \/ Close
  \/ \E k \in Kinds : LeaseAgain(k) \/ LeaseFresh(k)
  \/ EnterFrame
  \/ LeaveFrame

Spec == Init /\ [][Next]_leases
==============================================================================
