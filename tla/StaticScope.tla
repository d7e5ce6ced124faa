----------------------------- MODULE StaticScope -----------------------------
(***************************************************************************)
(* What a symbol table owes the language (docs/cminus.md: static scoping,  *)
(* a local declaration takes precedence over any declaration of the same   *)
(* name further out).  There is one environment; opening a block           *)
(* remembers it, closing the block brings exactly that one back, and a     *)
(* declaration changes the meaning of its own name alone, once per block.  *)
(***************************************************************************)
EXTENDS Naturals, Sequences

CONSTANTS Names, Vals, NULL

VARIABLES
    env,    \* the value every name denotes here, NULL when it denotes none
    own,    \* the names declared in the innermost open block
    outer,  \* the remembered [env, own] of the enclosing blocks
    result, \* the answer to the last lookup
    call    \* what the last declaration or lookup was about

vars == <<env, own, outer, result, call>>

Init ==
    /\ env = [n \in Names |-> NULL]
    /\ own = {}
    /\ outer = << >>
    /\ result = NULL
    /\ call = [name |-> NULL, val |-> NULL]

Open ==
    /\ outer' = Append(outer, [env |-> env, own |-> own])
    /\ own' = {}
    /\ UNCHANGED <<env, result, call>>

Close ==
    /\ outer # << >>
    /\ env' = outer[Len(outer)].env
    /\ own' = outer[Len(outer)].own
    /\ outer' = SubSeq(outer, 1, Len(outer) - 1)
    /\ UNCHANGED <<result, call>>

Declare(name, val) ==
    /\ call' = [name |-> name, val |-> val]
    /\ env' = IF name \in own THEN env ELSE [env EXCEPT ![name] = val]
    /\ own' = own \cup {name}
    /\ UNCHANGED <<outer, result>>

Lookup(name) ==
    /\ call' = [name |-> name, val |-> NULL]
    /\ result' = env[name]
    /\ UNCHANGED <<env, own, outer>>

Next ==
    \/ Open
    \/ Close
    \/ \E name \in Names, val \in Vals : Declare(name, val)
    \/ \E name \in Names : Lookup(name)

Spec == Init /\ [][Next]_vars
=============================================================================
