------------------------------ MODULE Grammar ------------------------------
(***************************************************************************)
(* The grammar of parser/parser.y, and what bison makes of it.             *)
(*                                                                         *)
(* Rules is shared by Transform, which reads the trees the grammar builds, *)
(* and ParseTree, which builds them.  The second half is the automaton     *)
(* bison generates, by its definition: sets of items, with the follow sets *)
(* for lookahead.  The grammar has one conflict, the dangling else, which  *)
(* ParseTree resolves as bison does.                                       *)
(***************************************************************************)
EXTENDS Naturals, Sequences, FiniteSets, TLC

(* Every rule builds a node with its name and one child per symbol; an     *)
(* empty rule builds the child epsilon.                                    *)
DeclarationRules(name) ==
    CASE name = "program"            -> {<<"declaration-list">>}
      [] name = "declaration-list"   -> {<<"declaration">>, <<"declaration-list", "declaration">>}
      [] name = "declaration"        -> {<<"var-declaration">>, <<"fun-declaration">>}
      [] name = "var-declaration"    -> {<<"type-specifier", "ID", ";">>,
                                         <<"type-specifier", "ID", "[", "NUM", "]", ";">>}
      [] name = "fun-declaration"    -> {<<"type-specifier", "ID", "(", "params", ")", "compound-stmt">>}
      [] name = "params"             -> {<<"void">>, <<"param-list">>}
      [] name = "param-list"         -> {<<"param">>, <<"param-list", ",", "param">>}
      [] name = "param"              -> {<<"type-specifier", "ID">>, <<"type-specifier", "ID", "[]">>}
      [] name = "type-specifier"     -> {<<"int">>, <<"void">>, <<"char">>}
      [] OTHER -> {}

StatementRules(name) ==
    CASE name = "compound-stmt"      -> {<<"{", "local-declarations", "statement-list", "}">>}
      [] name = "local-declarations" -> {<<"epsilon">>, <<"local-declarations", "var-declaration">>}
      [] name = "statement-list"     -> {<<"epsilon">>, <<"statement-list", "statement">>}
      [] name = "statement"          -> {<<"expression-stmt">>, <<"compound-stmt">>, <<"selection-stmt">>,
                                         <<"iteration-stmt">>, <<"return-stmt">>}
      [] name = "expression-stmt"    -> {<<";">>, <<"expression", ";">>}
      [] name = "selection-stmt"     -> {<<"if", "(", "expression", ")", "statement">>,
                                         <<"if", "(", "expression", ")", "statement", "else", "statement">>}
      [] name = "iteration-stmt"     -> {<<"while", "(", "expression", ")", "statement">>}
      [] name = "return-stmt"        -> {<<"return", ";">>, <<"return", "expression", ";">>}
      [] OTHER -> {}

ExpressionRules(name) ==
    CASE name = "expression"          -> {<<"simple-expression">>, <<"var", "=", "expression">>}
      [] name = "var"                 -> {<<"ID">>, <<"ID", "[", "expression", "]">>}
      [] name = "simple-expression"   -> {<<"additive-expression">>,
                                          <<"additive-expression", "relop", "additive-expression">>}
      [] name = "additive-expression" -> {<<"term">>, <<"additive-expression", "addop", "term">>}
      [] name = "term"                -> {<<"factor">>, <<"term", "mulop", "factor">>}
      [] name = "relop"               -> {<<"<=">>, <<"<">>, <<">">>, <<">=">>, <<"==">>, <<"!=">>}
      [] name = "addop"               -> {<<"+">>, <<"-">>}
      [] name = "mulop"               -> {<<"*">>, <<"/">>}
      [] OTHER -> {}

FactorRules(name) ==
    CASE name = "factor"   -> {<<"NUM">>, <<"(", "expression", ")">>, <<"var">>, <<"call">>, <<"CHAR">>}
      [] name = "call"     -> {<<"ID", "(", "args", ")">>}
      [] name = "args"     -> {<<"epsilon">>, <<"arg-list">>}
      [] name = "arg-list" -> {<<"expression">>, <<"arg-list", ",", "expression">>}
      [] OTHER -> {}

NonTerminals ==
    {"program", "declaration-list", "declaration", "var-declaration",
     "fun-declaration", "params", "param-list", "param", "type-specifier",
     "compound-stmt", "local-declarations", "statement-list", "statement",
     "expression-stmt", "selection-stmt", "iteration-stmt", "return-stmt",
     "expression", "var", "simple-expression", "additive-expression",
     "term", "relop", "addop", "mulop", "factor", "call", "args",
     "arg-list"}

Rules ==
    [name \in NonTerminals |->
        DeclarationRules(name) \cup StatementRules(name)
            \cup ExpressionRules(name) \cup FactorRules(name)]

-----------------------------------------------------------------------------
(* The generated parser.  An empty rule has no symbols to reduce. *)
Productions ==
    UNION {{[lhs |-> name, rhs |-> IF r = <<"epsilon">> THEN << >> ELSE r] :
               r \in Rules[name]} : name \in NonTerminals}
Symbols == UNION {{p.lhs} \cup {p.rhs[k] : k \in DOMAIN p.rhs} : p \in Productions}
Terminals == Symbols \ NonTerminals

Nullable == {p.lhs : p \in {q \in Productions : q.rhs = << >>}}

(* The symbols a right-hand side can start and end with. *)
StartsWith(r) == {r[j] : j \in {k \in DOMAIN r : \A l \in 1..(k - 1) : r[l] \in Nullable}}
EndsWith(r) == {r[j] : j \in {k \in DOMAIN r : \A l \in (k + 1)..Len(r) : r[l] \in Nullable}}

(* The symbols reached from s, from a left-hand side to Part of each of    *)
(* its right-hand sides.                                                   *)
Reached(s, Part(_)) ==
    LET grown[n \in Nat] ==
            IF n = 0 THEN {s}
            ELSE LET found == grown[n - 1]
                 IN  found \cup UNION {Part(p.rhs) : p \in {q \in Productions : q.lhs \in found}}
    IN  grown[Cardinality(NonTerminals)]

FirstOf == [s \in Symbols |-> Reached(s, StartsWith)]
LastOf == [s \in Symbols |-> Reached(s, EndsWith)]

(* The tokens that can follow a nonterminal; $end is the end of the file.  *)
Follow ==
    [name \in NonTerminals |->
        (IF name \in LastOf["program"] THEN {"$end"} ELSE {}) \cup
        UNION {LET after == SubSeq(o.p.rhs, o.k + 1, Len(o.p.rhs))
               IN  Terminals \cap UNION {FirstOf[s] : s \in StartsWith(after)} :
               o \in {q \in [p : Productions, k : 1..7] :
                        q.k \in DOMAIN q.p.rhs /\ name \in LastOf[q.p.rhs[q.k]]}}]

-----------------------------------------------------------------------------
(* An item is a production with a dot; a state of the automaton is the set *)
(* of its items with the dot behind a symbol, and state 0.                 *)
ItemOf(p, dot) == [lhs |-> p.lhs, rhs |-> p.rhs, dot |-> dot]
AtEnd(item) == item.dot = Len(item.rhs)

(* The nonterminals that can start where s is expected, with s, and the    *)
(* items that then start.                                                  *)
Opening(r) == IF r = << >> THEN {} ELSE {r[1]}
Expected == [s \in Symbols |-> Reached(s, Opening)]
Leftmost == [s \in Symbols |-> {ItemOf(p, 0) : p \in {q \in Productions : q.lhs \in Expected[s]}}]

Closure(items) ==
    items \cup UNION {Leftmost[item.rhs[item.dot + 1]] : item \in {i \in items : ~AtEnd(i)}}

State0 == {ItemOf(p, 0) : p \in {q \in Productions : q.lhs = "program"}}

Goto(items, symbol) ==
    {[item EXCEPT !.dot = @ + 1] :
        item \in {i \in Closure(items) : ~AtEnd(i) /\ i.rhs[i.dot + 1] = symbol}}

(* The productions a state can reduce before the token. *)
Reductions(items, token) ==
    {i \in Closure(items) : AtEnd(i) /\ token \in Follow[i.lhs]}

(* What the parser relies on of this grammar: its rules are sequences of   *)
(* symbols, program is in none of them and ends with the text.             *)
ASSUME RulesAreStrings == \A p \in Productions : p.rhs \in Seq(Symbols)
ASSUME ProgramIsOnTop ==
    /\ \A p \in Productions : \A k \in DOMAIN p.rhs : p.rhs[k] # "program"
    /\ \A s \in Symbols \ {"program"} : \A item \in Leftmost[s] : item.lhs # "program"
    /\ Follow["program"] = {"$end"}
ASSUME NoSuchSymbols == {"$end", "error", "empty", "epsilon"} \cap Symbols = {}
=============================================================================
