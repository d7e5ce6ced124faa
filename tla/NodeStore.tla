----------------------------- MODULE NodeStore -----------------------------
(***************************************************************************)
(* What the storage of a parse tree promises: nodes are only added while   *)
(* the tree is built, the finished tree is read whole before anything of   *)
(* it is freed, each node is freed once, and none is left at the end.      *)
(* A process that exits gives up its nodes as they are.                    *)
(***************************************************************************)
VARIABLES
    live,   \* the nodes allocated and not freed
    phase   \* building, reading, releasing, closed, or abandoned

vars == <<live, phase>>

Init == live = {} /\ phase = "building"

Build ==
    /\ phase = "building"
    /\ live \subseteq live'
    /\ phase' \in {"building", "reading"}

Read ==
    /\ phase = "reading"
    /\ phase' = "releasing"
    /\ live' = live

Release ==
    /\ phase = "releasing"
    /\ \E node \in live : live' = live \ {node}
    /\ phase' = phase

Close ==
    /\ phase = "releasing" /\ live = {}
    /\ phase' = "closed"
    /\ live' = live

Abandon ==
    /\ phase \in {"building", "reading"}
    /\ phase' = "abandoned"
    /\ live' = live

Next == Build \/ Read \/ Release \/ Close \/ Abandon

Spec == Init /\ [][Next]_vars
=============================================================================
