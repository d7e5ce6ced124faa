------------------------------- MODULE Scope -------------------------------
(***************************************************************************)
(* class Scope (include/builder.hpp) as a state machine: any sequence of   *)
(* the calls the visitor makes.  CminusBuilder's constructor enters the    *)
(* global block and every visit that enters a block exits it, so exit() is *)
(* never called on the global block.                                       *)
(***************************************************************************)
EXTENDS ScopeOps

CONSTANT MaxDepth   \* bound on the open blocks, for model checking

ASSUME MaxDepthIsPositive == MaxDepth \in Nat \ {0}

VARIABLES
    inner,  \* the vector of maps
    result, \* what the last find() returned
    call    \* the arguments of the last push() or find()

vars == <<inner, result, call>>

TypeOK ==
    /\ inner \in Seq(Block)
    /\ inner # << >>
    /\ result \in Vals \cup {NULL}
    /\ call \in [name : Names \cup {NULL}, val : Vals \cup {NULL}]

Init ==
    /\ inner = Entered(<< >>)
    /\ result = NULL
    /\ call = [name |-> NULL, val |-> NULL]

Enter ==
    /\ Len(inner) < MaxDepth
    /\ inner' = Entered(inner)
    /\ UNCHANGED <<result, call>>

(* A mutant lets the global block be closed. *)
ExitAlways ==
    /\ inner' = Exited(inner)
    /\ UNCHANGED <<result, call>>
Exit ==
    /\ ~InGlobal(inner)
    /\ inner' = Exited(inner)
    /\ UNCHANGED <<result, call>>

Push(name, val) ==
    /\ call' = [name |-> name, val |-> val]
    /\ inner' = Pushed(inner, name, val)
    /\ UNCHANGED result

Lookup(name) ==
    /\ call' = [name |-> name, val |-> NULL]
    /\ result' = Find(inner, name)
    /\ UNCHANGED inner

Next ==
    \/ Enter
    \/ Exit
    \/ \E name \in Names, val \in Vals : Push(name, val)
    \/ \E name \in Names : Lookup(name)

Spec == Init /\ [][Next]_vars

-----------------------------------------------------------------------------
(* The environment the first k blocks of s define, and what has to be     *)
(* remembered of every block but the innermost.                            *)
EnvUpTo(s, k) == [n \in Names |-> FindUpTo(s, k, n)]
OuterOf(s) == [i \in 1..(Len(s) - 1) |->
                  [env |-> EnvUpTo(s, i), own |-> DOMAIN s[i]]]

Static == INSTANCE StaticScope WITH
    env <- EnvUpTo(inner, Len(inner)),
    own <- DOMAIN inner[Len(inner)],
    outer <- OuterOf(inner)

(* The reverse search over a vector of maps is static scoping: every       *)
(* lookup answers as the language's environment would, a closed block      *)
(* leaves no trace and a shadowed name gets its old meaning back.          *)
IsStaticScope == Static!Spec
=============================================================================
