----------------------------- MODULE Transform -----------------------------
(***************************************************************************)
(* From the parse tree to the syntax tree (syntax_tree/syntax_tree.cpp):   *)
(* transform_node_iter walks the tree the parser built, finds children by  *)
(* their positions, and static_casts what each call returns.  Nothing at   *)
(* run time checks a position or a cast against the grammar.               *)
(*                                                                         *)
(* The parse tree is chosen on the way down: a node's production is chosen *)
(* when the walk first looks at the node.  The frames are the activations  *)
(* of transform_node_iter; a `return transform_node_iter(...)` replaces    *)
(* the frame.                                                              *)
(***************************************************************************)
EXTENDS Grammar, SequencesExt

CONSTANT MaxNodes  \* bound on the productions that are not the shortest of
                   \* their nonterminal, for model checking

ASSUME MaxNodesIsNat == MaxNodes \in Nat

(* The productions that end every derivation. *)
Shortest == {<<"declaration">>, <<"var-declaration">>, <<"type-specifier", "ID", ";">>,
             <<"void">>, <<"param">>, <<"type-specifier", "ID">>, <<"epsilon">>,
             <<"expression-stmt">>, <<";">>, <<"if", "(", "expression", ")", "statement">>,
             <<"return", ";">>, <<"simple-expression">>,
             <<"ID">>, <<"additive-expression">>, <<"term">>, <<"factor">>, <<"NUM">>,
             <<"expression">>}
             \cup UNION {Rules[name] : name \in
                           {"program", "fun-declaration", "compound-stmt", "iteration-stmt", "call"}}

-----------------------------------------------------------------------------
(* The classes of include/syntax_tree.hpp, each with the class it extends. *)
Statement == {"syntax_compound_stmt", "syntax_expression_stmt", "syntax_selection_stmt",
              "syntax_iteration_stmt", "syntax_return_stmt"}
Classes == {"syntax_tree_node", "syntax_program", "syntax_declaration",
            "syntax_var_declaration", "syntax_fun_declaration", "syntax_param",
            "syntax_statement", "syntax_factor", "syntax_expression",
            "syntax_assign_expression", "syntax_simple_expression",
            "syntax_additive_expression", "syntax_term", "syntax_num", "syntax_var",
            "syntax_call", "syntax_a_char"} \cup Statement
Base(c) ==
    CASE c \in {"syntax_var_declaration", "syntax_fun_declaration"} -> "syntax_declaration"
      [] c \in Statement -> "syntax_statement"
      [] c \in {"syntax_expression", "syntax_num", "syntax_var", "syntax_call",
                "syntax_a_char"} -> "syntax_factor"
      [] c \in {"syntax_assign_expression", "syntax_simple_expression"} -> "syntax_expression"
      [] OTHER -> "syntax_tree_node"

IsA(c, d) == d \in {c, Base(c), Base(Base(c)), Base(Base(Base(c)))}

(* What a branch of transform_node_iter does: the class it creates, none   *)
(* if it returns what a child becomes, and its recursive calls in order.   *)
(* pos is an index of children, counted from 1.                            *)
Visit(pos, cast, field) == [kind |-> "visit", pos |-> pos, cast |-> cast, field |-> field]
Queue(pos, cast, field) == [kind |-> "list", pos |-> pos, cast |-> cast, field |-> field]
Node(class, todo) == [class |-> class, pass |-> 0, todo |-> todo]
Pass(pos) == [class |-> "none", pass |-> pos, todo |-> << >>]

ReturnBranchAlways(n) == Node("syntax_return_stmt",   \* a mutant: n->child_num == 2
                              <<Visit(2, "syntax_expression", "expression")>>)
ReturnBranch(n) == Node("syntax_return_stmt",
                        IF n = 3 THEN <<Visit(2, "syntax_expression", "expression")>> ELSE << >>)

LoopBranchSimple == Node("syntax_iteration_stmt",     \* a mutant: too narrow a cast
                         <<Visit(3, "syntax_simple_expression", "expression"),
                           Visit(5, "syntax_statement", "statement")>>)
LoopBranch == Node("syntax_iteration_stmt",
                   <<Visit(3, "syntax_expression", "expression"),
                     Visit(5, "syntax_statement", "statement")>>)

StatementBranch(name, n) ==
    CASE name = "statement" -> Pass(1)
      [] name = "compound-stmt" ->
            Node("syntax_compound_stmt",
                 <<Queue(2, "syntax_var_declaration", "local_declarations"),
                   Queue(3, "syntax_statement", "statement_list")>>)
      [] name = "expression-stmt" ->
            Node("syntax_expression_stmt",
                 IF n = 2 THEN <<Visit(1, "syntax_expression", "expression")>> ELSE << >>)
      [] name = "selection-stmt" ->
            Node("syntax_selection_stmt",
                 IF n = 7
                 THEN <<Visit(3, "syntax_expression", "expression"),
                        Visit(5, "syntax_statement", "if_statement"),
                        Visit(7, "syntax_statement", "else_statement")>>
                 ELSE <<Visit(3, "syntax_expression", "expression"),
                        Visit(5, "syntax_statement", "if_statement")>>)
      [] name = "iteration-stmt" -> LoopBranch
      [] name = "return-stmt" -> ReturnBranch(n)

DeclarationBranch(name) ==
    CASE name = "program" ->
            Node("syntax_program", <<Queue(1, "syntax_declaration", "declarations")>>)
      [] name = "declaration" -> Pass(1)
      [] name = "var-declaration" -> Node("syntax_var_declaration", << >>)
      [] name = "fun-declaration" ->
            Node("syntax_fun_declaration",
                 <<Queue(4, "syntax_param", "params"),
                   Visit(6, "syntax_compound_stmt", "compound_stmt")>>)
      [] name = "param" -> Node("syntax_param", << >>)

(* A mutant forgets that the operands are in other places than the operand.*)
TermBranchFirst(n) ==
    Node("syntax_term",
         IF n = 3 THEN <<Visit(1, "syntax_term", "term"), Visit(3, "syntax_factor", "factor")>>
         ELSE <<Visit(1, "syntax_term", "term")>>)
TermBranch(n) ==
    Node("syntax_term",
         IF n = 3 THEN <<Visit(1, "syntax_term", "term"), Visit(3, "syntax_factor", "factor")>>
         ELSE <<Visit(1, "syntax_factor", "factor")>>)

(* NUM and CHAR are the factors that make no recursive call. *)
FactorBranch(kids) ==
    LET at == IF Len(kids) = 3 THEN 2 ELSE 1
    IN  CASE kids[at] \in {"expression", "var", "call"} -> Pass(at)
          [] kids[at] = "NUM" -> Node("syntax_num", << >>)
          [] OTHER -> Node("syntax_a_char", << >>)

ExpressionBranch(name, n) ==
    CASE name = "expression" ->
            IF n = 1 THEN Pass(1)
            ELSE Node("syntax_assign_expression",
                      <<Visit(1, "syntax_var", "var"),
                        Visit(3, "syntax_expression", "expression")>>)
      [] name = "var" ->
            Node("syntax_var",
                 IF n = 4 THEN <<Visit(3, "syntax_expression", "expression")>> ELSE << >>)
      [] name = "simple-expression" ->
            Node("syntax_simple_expression",
                 IF n = 3
                 THEN <<Visit(1, "syntax_additive_expression", "additive_expression_l"),
                        Visit(3, "syntax_additive_expression", "additive_expression_r")>>
                 ELSE <<Visit(1, "syntax_additive_expression", "additive_expression_l")>>)
      [] name = "additive-expression" ->
            Node("syntax_additive_expression",
                 IF n = 3
                 THEN <<Visit(1, "syntax_additive_expression", "additive_expression"),
                        Visit(3, "syntax_term", "term")>>
                 ELSE <<Visit(1, "syntax_term", "term")>>)
      [] name = "term" -> TermBranch(n)
      [] name = "call" ->
            Node("syntax_call", <<Queue(3, "syntax_expression", "args")>>)

Declarations == {"program", "declaration", "var-declaration", "fun-declaration", "param"}
Statements == {"statement", "compound-stmt", "expression-stmt", "selection-stmt",
               "iteration-stmt", "return-stmt"}
Expressions == {"expression", "var", "simple-expression", "additive-expression",
                "term", "call"}

(* The names transform_node_iter has a branch for. *)
Branches == Declarations \cup Statements \cup Expressions \cup {"factor"}

Branch(name, kids) ==
    CASE name \in Declarations -> DeclarationBranch(name)
      [] name \in Statements -> StatementBranch(name, Len(kids))
      [] name \in Expressions -> ExpressionBranch(name, Len(kids))
      [] name = "factor" -> FactorBranch(kids)

(* The children of a list node that has a list below it. *)
Wide(list) == IF list \in {"param-list", "arg-list"} THEN 3 ELSE 2

-----------------------------------------------------------------------------
VARIABLES
    frames,  \* the activations of transform_node_iter
    status,  \* run, done, or how the compiler stopped
    nodes    \* productions left that are not the shortest

vars == <<frames, status, nodes>>

Walks == {"declaration-list", "params", "param-list", "local-declarations",
          "statement-list", "args", "arg-list"}

Fields == {"root", "declarations", "params", "compound_stmt", "local_declarations",
           "statement_list", "expression", "statement", "if_statement",
           "else_statement", "var", "additive_expression_l", "additive_expression_r",
           "additive_expression", "term", "factor", "args"}

(* step counts the recursive calls made, set the fields they filled.  list *)
(* is the name of *list_ptr while the walk is on its way down, stack the   *)
(* std::stack of list elements, taken the elements already transformed.    *)
(* met counts the elements of the source list that list_ptr has come past, *)
(* whatever the walk does with them: an element is numbered by how far it  *)
(* is from the end of the source list.                                     *)
Frame == [name  : DOMAIN Rules,
          kids  : UNION {Rules[name] : name \in DOMAIN Rules},
          cast  : Classes,
          field : Fields,
          step  : Nat \ {0},
          set   : SUBSET Fields,
          list  : Walks \cup {"none", "bottom"},
          met   : Nat,
          stack : Seq([name : DOMAIN Rules, nth : Nat]),
          taken : Seq(Nat)]

TypeOK ==
    /\ frames \in Seq(Frame)
    /\ \A k \in 1..Len(frames) :
          LET f == frames[k]
          IN  f.kids \in Rules[f.name] /\ f.step <= Len(Branch(f.name, f.kids).todo) + 1
    /\ status \in {"run", "done", "error", "abort", "panic"}
    /\ nodes \in 0..MaxNodes

Top == frames[Len(frames)]
Rest == Front(frames)
Plan == Branch(Top.name, Top.kids)
Running == status = "run"
More == Running /\ Plan.pass = 0 /\ Top.step <= Len(Plan.todo)
Entry == Plan.todo[Top.step]
AtKind(kind) == More /\ Entry.kind = kind

Spend(kids) ==
    /\ kids \in Shortest \/ nodes > 0
    /\ nodes' = IF kids \in Shortest THEN nodes ELSE nodes - 1

(* A call for a child called name: PANIC if there is no branch for it.     *)
Transform(name, cast, field, below) ==
    IF name \notin Branches
    THEN status' = "panic" /\ UNCHANGED <<frames, nodes>>
    ELSE \E kids \in Rules[name] :
            /\ Spend(kids)
            /\ frames' = Append(below,
                   [name |-> name, kids |-> kids, cast |-> cast, field |-> field,
                    step |-> 1, set |-> {}, list |-> "none", met |-> 0,
                    stack |-> << >>, taken |-> << >>])
            /\ UNCHANGED status

Update(frame) == frames' = Append(Rest, frame)

-----------------------------------------------------------------------------
VisitChild ==
    /\ AtKind("visit")
    /\ Transform(Top.kids[Entry.pos], Entry.cast, Entry.field, frames)

(* return transform_node_iter(n->children[...]) *)
PassOn ==
    /\ Running /\ Plan.pass # 0
    /\ Transform(Top.kids[Plan.pass], Top.cast, Top.field, Rest)

(* list_ptr.  params and args have the list, if any, one level down. *)
StartList ==
    /\ AtKind("list") /\ Top.list = "none"
    /\ \/ /\ Top.kids[Entry.pos] \notin {"params", "args"}
          /\ Update([Top EXCEPT !.list = Top.kids[Entry.pos]])
          /\ UNCHANGED nodes
       \/ /\ Top.kids[Entry.pos] \in {"params", "args"}
          /\ \E kids \in Rules[Top.kids[Entry.pos]] :
                /\ Spend(kids)
                /\ Update([Top EXCEPT !.list = IF kids[1] \in Walks THEN kids[1]
                                               ELSE "bottom"])
    /\ UNCHANGED status

(* The grammar's elements of lists, and how many of them a production of a *)
(* list adds to those met.                                                 *)
Elements == {"declaration", "param", "var-declaration", "statement", "expression"}
Met(kids) == IF \E k \in DOMAIN kids : kids[k] \in Elements THEN Top.met + 1 ELSE Top.met

(* s.push() *)
Push(child) == Append(Top.stack, [name |-> child, nth |-> Top.met + 1])

(* One turn of the loop that goes down the list, or the line after it: the *)
(* lists of compound-stmt have no element at the bottom.  Mutants push the *)
(* comma, and forget the line after the loop.                              *)
FastForwardComma ==
    /\ AtKind("list") /\ Top.list \in Walks
    /\ \E kids \in Rules[Top.list] :
          /\ Spend(kids)
          /\ IF Len(kids) = Wide(Top.list)
             THEN Update([Top EXCEPT !.met = Met(kids), !.stack = Push(kids[2])])
             ELSE Update([Top EXCEPT !.met = Met(kids), !.list = "bottom",
                                     !.stack = IF kids = <<"epsilon">> THEN @ ELSE Push(kids[1])])
    /\ UNCHANGED status
FastForwardOnly ==
    /\ AtKind("list") /\ Top.list \in Walks
    /\ \E kids \in Rules[Top.list] :
          /\ Spend(kids)
          /\ IF Len(kids) = Wide(Top.list)
             THEN Update([Top EXCEPT !.met = Met(kids), !.stack = Push(Last(kids))])
             ELSE Update([Top EXCEPT !.met = Met(kids), !.list = "bottom"])
    /\ UNCHANGED status
FastForward ==
    /\ AtKind("list") /\ Top.list \in Walks
    /\ \E kids \in Rules[Top.list] :
          /\ Spend(kids)
          /\ IF Len(kids) = Wide(Top.list)
             THEN Update([Top EXCEPT !.met = Met(kids), !.stack = Push(Last(kids))])
             ELSE Update([Top EXCEPT !.met = Met(kids), !.list = "bottom",
                                     !.stack = IF Top.list \in {"local-declarations",
                                                                "statement-list"}
                                               THEN @ ELSE Push(kids[1])])
    /\ UNCHANGED status

VisitElement ==
    /\ AtKind("list") /\ Top.list = "bottom" /\ Top.stack # << >>
    /\ Transform(Last(Top.stack).name, Entry.cast, Entry.field, frames)

EndList ==
    /\ AtKind("list") /\ Top.list = "bottom" /\ Top.stack = << >>
    /\ Update([Top EXCEPT !.step = @ + 1, !.set = @ \cup {Entry.field},
                          !.list = "none", !.met = 0, !.taken = << >>])
    /\ UNCHANGED <<status, nodes>>

(* The last test of var-declaration, behind those of its type: PANIC.      *)
Misshapen == Top.name = "var-declaration" /\ Len(Top.kids) \notin {3, 6}

(* The call returns its node, whose class the caller takes for granted.    *)
Return ==
    /\ Running /\ Plan.pass = 0 /\ Top.step = Len(Plan.todo) + 1
    /\ Plan.class # "syntax_a_char"
    /\ IF Misshapen \/ Rest = << >>
       THEN status' = (IF Misshapen THEN "panic" ELSE "done") /\ UNCHANGED frames
       ELSE LET f == Last(Rest)
            IN  /\ frames' = Append(Front(Rest),
                      IF f.list = "none"
                      THEN [f EXCEPT !.step = @ + 1, !.set = @ \cup {Top.field}]
                      ELSE [f EXCEPT !.taken = Append(@, Last(f.stack).nth),
                                     !.stack = Front(@)])
                /\ UNCHANGED status
    /\ UNCHANGED nodes

(* ERROR: a variable or parameter of another type than int, a character    *)
(* constant.                                                               *)
Refuse ==
    /\ Running
    /\ Top.name \in {"var-declaration", "param"} \/ Plan.class = "syntax_a_char"
    /\ status' = "error"
    /\ UNCHANGED <<frames, nodes>>

(* std::stoi throws on a number too large for an int, and on a character   *)
(* constant in double quotes; nothing catches it.                          *)
Unreadable ==
    /\ Running
    /\ ToSet(Top.kids) \cap {"NUM", "CHAR"} # {}
    /\ status' = "abort"
    /\ UNCHANGED <<frames, nodes>>

Stopped == ~Running /\ UNCHANGED vars

Init ==
    /\ frames = <<[name |-> "program", kids |-> <<"declaration-list">>,
                   cast |-> "syntax_program", field |-> "root", step |-> 1, set |-> {},
                   list |-> "none", met |-> 0, stack |-> << >>, taken |-> << >>]>>
    /\ status = "run"
    /\ nodes = MaxNodes

Next == VisitChild \/ PassOn \/ StartList \/ FastForward \/ VisitElement \/ EndList
        \/ Return \/ Refuse \/ Unreadable \/ Stopped

Spec == Init /\ [][Next]_vars

-----------------------------------------------------------------------------
(* Every static_cast is to a class the node has: what a branch creates is  *)
(* of the class its caller casts to, for every production the parser may   *)
(* have put at that position.                                              *)
CastsAreSound ==
    \A k \in 1..Len(frames) :
        LET f == frames[k]
        IN  Branch(f.name, f.kids).pass = 0 => IsA(Branch(f.name, f.kids).class, f.cast)

(* No position leads to a node without a branch: no punctuation, no        *)
(* epsilon, no list is ever passed to transform_node_iter; and no variable *)
(* is declared in a form that has neither 3 nor 6 children.                *)
NeverPanics == status # "panic"

(* The left-recursive lists are walked from their last element, and still  *)
(* fill their vectors in the order of the source, with no element left out:*)
(* every element of the source list that the walk has come past is on the  *)
(* stack or in the vector, and the vector has the first of them, in order. *)
ListsKeepSourceOrder ==
    \A k \in 1..Len(frames) :
        LET f == frames[k]
        IN  /\ Len(f.taken) + Len(f.stack) = f.met
            /\ \A j \in 1..Len(f.taken) : f.taken[j] = f.met - j + 1

(* The pointers that builder.cpp follows without a test are set in every   *)
(* node that is returned.                                                  *)
Followed(class) ==
    CASE class = "syntax_fun_declaration" -> {"compound_stmt"}
      [] class = "syntax_selection_stmt" -> {"expression", "if_statement"}
      [] class = "syntax_iteration_stmt" -> {"expression", "statement"}
      [] class = "syntax_assign_expression" -> {"var", "expression"}
      [] class = "syntax_simple_expression" -> {"additive_expression_l"}
      [] class = "syntax_additive_expression" -> {"term"}
      [] class = "syntax_term" -> {"factor"}
      [] OTHER -> {}

ReturnsWholeNodes ==
    (Running /\ Plan.pass = 0 /\ Top.step = Len(Plan.todo) + 1)
        => Followed(Plan.class) \subseteq Top.set
=============================================================================
