----------------------------- MODULE MCFrontEnds -----------------------------
(* Two calls at a time, over two accounts and one token. *)
EXTENDS FrontEnds, TLC

CONSTANTS ann, bob, t1, c1, c2

(* Of the routes, those that another one does not cover: it is called by   *)
(* as many, and its handler can do all the other's can.                    *)
Covers(f, e) ==
    /\ f.audited = e.audited /\ f.last = e.last
    /\ \/ f.act = e.act /\ f.floor < e.floor
       \/ e.act = "change" /\ f.act \in {"import", "long", "own"} /\ f.floor <= e.floor

MCRoutes == {e \in RestRoutes : ~\E f \in RestRoutes : Covers(f, e)}

(* The service calls do the same whoever asks, so of the commands only     *)
(* those that go a way of their own, the one that changes roles, and one   *)
(* of the others, which announces.                                         *)
MCCommands ==
    {e \in DesktopCommands : e.floor = Public \/ e.act = "demote"}
    \cup At(Editor, {LongChange("announce")})

MCStored ==
    {[u \in Users |-> Gone], [u \in Users |-> Admin]}

MCGranted == {Editor}

MCLocalRole == Editor

Symmetry == Permutations(Calls) \cup Permutations(Users)
=============================================================================
