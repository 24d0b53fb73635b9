----------------------------- MODULE MCDelivery -----------------------------
(***************************************************************************)
(* Delivery on a small instance.  Manifests are numbered: they are         *)
(* compared for equality only, so it is enough to let the unused ones be   *)
(* taken in order.                                                         *)
(***************************************************************************)
EXTENDS Delivery, TLC

CONSTANTS plain, proven, k, a, b

Known(d) ==
  ConsumedIn(d) \union {d.tests[ph] : ph \in TestPhases} \union {d.current}

InOrder ==
  \A m \in Manifests \intersect (Known(dom') \ Known(dom)) :
    1..(m - 1) \subseteq Known(dom)

\* Bound: in the second iteration one process delivers, and nothing is damaged.
Focused ==
  dom'.iteration > 1 =>
    tampers' = 0 /\ \A c, e \in Clients : draft'[c] # Idle /\ draft'[e] # Idle => c = e

\* plain declares that no test was run, proven that the tests passed.
Labels == [x \in Snapshots |-> CASE x = plain -> "untested" [] x = proven -> "validated" [] OTHER -> None]

\* Two archives of one tree.
TwoTimes == {[compat |-> k, at |-> 1], [compat |-> k, at |-> 2]}

AllFitting == Snapshots \X Compats \X Reports

\* Two approvals of one package of plain.
TwoApprovals == {[id |-> x, snapshot |-> plain, variant |-> [compat |-> k, at |-> 1]] : x \in {a, b}}

AllDeliveries == [snapshot : Snapshots, approval : TwoApprovals \union {None}]

Symmetric == Permutations(Clients) \union Permutations(Reports)
=============================================================================
