------------------------------ MODULE ScopeOps ------------------------------
(***************************************************************************)
(* The symbol table of the code generator, class Scope of                  *)
(* include/builder.hpp: a vector of maps, one map per open block, the      *)
(* global block first.  These are its methods as operators on the vector;  *)
(* Scope.tla runs them as a state machine and StmtGen.tla applies them.    *)
(***************************************************************************)
EXTENDS Naturals, Sequences, FiniteSetsExt

CONSTANTS
    Names,  \* identifiers
    Vals,   \* what a name can be bound to (llvm::Value *)
    NULL    \* nullptr, what find() answers for a name with no binding

ASSUME NullIsNoValue == NULL \notin Vals

(* One std::map<std::string, llvm::Value *>. *)
Block == UNION {[D -> Vals] : D \in SUBSET Names}

EmptyBlock == [n \in {} |-> NULL]

(* Scope::enter pushes an empty map, Scope::exit drops the innermost one. *)
Entered(s) == Append(s, EmptyBlock)
Exited(s) == SubSeq(s, 1, Len(s) - 1)

(* Scope::in_global: only the block opened by the constructor is there. *)
InGlobal(s) == Len(s) = 1

(* std::map::insert keeps the binding a name already has. *)
Inserted(block, name, val) ==
    [n \in DOMAIN block \cup {name} |->
        IF n \in DOMAIN block THEN block[n] ELSE val]

(* Scope::push inserts into the innermost map (no caller looks at its      *)
(* answer, whether the name was new there).                                *)
Pushed(s, name, val) == [s EXCEPT ![Len(s)] = Inserted(@, name, val)]

(* Scope::find walks from the innermost map out: the first hit is the one  *)
(* with the largest index.  A mutant walks the other way.                  *)
FindOutermost(s, k, name) ==
    LET hits == {i \in 1..k : name \in DOMAIN s[i]}
    IN  IF hits = {} THEN NULL ELSE s[Min(hits)][name]
FindUpTo(s, k, name) ==
    LET hits == {i \in 1..k : name \in DOMAIN s[i]}
    IN  IF hits = {} THEN NULL ELSE s[Max(hits)][name]

Find(s, name) == FindUpTo(s, Len(s), name)
=============================================================================
