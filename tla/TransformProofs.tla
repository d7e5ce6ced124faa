-------------------------- MODULE TransformProofs --------------------------
(***************************************************************************)
(* The positions and the casts of transform_node_iter, for every parse     *)
(* tree of the grammar.  First the tables: every branch fits every rule of *)
(* its nonterminal.  Then the walk: what it keeps of that at every depth.  *)
(***************************************************************************)
EXTENDS Transform, TLAPS

(* The class of what a nonterminal becomes, and the elements of a list.    *)
Kind(name) ==
    CASE name = "program" -> "syntax_program"
      [] name = "declaration" -> "syntax_declaration"
      [] name = "var-declaration" -> "syntax_var_declaration"
      [] name = "fun-declaration" -> "syntax_fun_declaration"
      [] name = "param" -> "syntax_param"
      [] name = "statement" -> "syntax_statement"
      [] name = "compound-stmt" -> "syntax_compound_stmt"
      [] name = "expression-stmt" -> "syntax_expression_stmt"
      [] name = "selection-stmt" -> "syntax_selection_stmt"
      [] name = "iteration-stmt" -> "syntax_iteration_stmt"
      [] name = "return-stmt" -> "syntax_return_stmt"
      [] name = "expression" -> "syntax_expression"
      [] name = "var" -> "syntax_var"
      [] name = "simple-expression" -> "syntax_simple_expression"
      [] name = "additive-expression" -> "syntax_additive_expression"
      [] name = "term" -> "syntax_term"
      [] name = "call" -> "syntax_call"
      [] OTHER -> "syntax_factor"

Element(list) ==
    CASE list = "declaration-list" -> "declaration"
      [] list \in {"params", "param-list"} -> "param"
      [] list = "local-declarations" -> "var-declaration"
      [] list = "statement-list" -> "statement"
      [] OTHER -> "expression"

(* A recursive call that its caller may make, and cast the result of. *)
CallFits(e, kids) ==
    /\ e.cast \in Classes /\ e.field \in Fields /\ e.kind \in {"visit", "list"}
    /\ e.kind = "visit" =>
          kids[e.pos] \in Branches /\ IsA(Kind(kids[e.pos]), e.cast)
    /\ e.kind = "list" =>
          kids[e.pos] \in Walks /\ IsA(Kind(Element(kids[e.pos])), e.cast)

Fits(name, kids) ==
    LET b == Branch(name, kids)
    IN  /\ Len(b.todo) \in Nat
        /\ \A k \in 1..Len(b.todo) : CallFits(b.todo[k], kids)
        /\ b.pass # 0 =>
              Len(b.todo) = 0 /\ kids[b.pass] \in Branches /\ IsA(Kind(kids[b.pass]), Kind(name))
        /\ b.pass = 0 =>
              /\ IsA(b.class, Kind(name))
              /\ \A field \in Followed(b.class) :
                    \E k \in 1..Len(b.todo) : b.todo[k].field = field

LEMMA IsATransitive ==
    ASSUME NEW c, NEW d, NEW e, IsA(c, d), IsA(d, e) PROVE IsA(c, e)
BY DEF IsA, Base, Statement


LEMMA VisitFits ==
    ASSUME NEW pos, NEW cast \in Classes, NEW field \in Fields, NEW kids,
           kids[pos] \in Branches, IsA(Kind(kids[pos]), cast)
    PROVE  CallFits(Visit(pos, cast, field), kids)
BY DEF CallFits, Visit

LEMMA QueueFits ==
    ASSUME NEW pos, NEW cast \in Classes, NEW field \in Fields, NEW kids,
           kids[pos] \in Walks, IsA(Kind(Element(kids[pos])), cast)
    PROVE  CallFits(Queue(pos, cast, field), kids)
BY DEF CallFits, Queue

LEMMA NodeFits ==
    ASSUME NEW name, NEW kids, NEW class, NEW todo, Branch(name, kids) = Node(class, todo),
           Len(todo) \in Nat, \A k \in 1..Len(todo) : CallFits(todo[k], kids),
           IsA(class, Kind(name)),
           \A field \in Followed(class) : \E k \in 1..Len(todo) : todo[k].field = field
    PROVE  Fits(name, kids)
BY DEF Fits, Node

LEMMA PassFits ==
    ASSUME NEW name, NEW kids, NEW pos \in Nat \ {0}, Branch(name, kids) = Pass(pos),
           kids[pos] \in Branches, IsA(Kind(kids[pos]), Kind(name))
    PROVE  Fits(name, kids)
BY DEF Fits, Pass

-----------------------------------------------------------------------------
(* The rules and the branches agree. *)
LEMMA Tuples ==
    ASSUME NEW a, NEW b, NEW c
    PROVE  /\ Len(<<a>>) = 1 /\ Len(<<a, b>>) = 2 /\ Len(<<a, b, c>>) = 3
           /\ <<a, b>>[1] = a /\ <<a, b, c>>[2] = b
OBVIOUS

LEMMA RulesAre ==
    /\ Rules["program"] = {<<"declaration-list">>}
    /\ Rules["declaration"] = {<<"var-declaration">>, <<"fun-declaration">>}
    /\ Rules["var-declaration"] = {<<"type-specifier", "ID", ";">>,
                                   <<"type-specifier", "ID", "[", "NUM", "]", ";">>}
    /\ Rules["fun-declaration"] = {
                                   <<"type-specifier", "ID", "(", "params", ")", "compound-stmt">>}
    /\ Rules["param"] = {<<"type-specifier", "ID">>, <<"type-specifier", "ID", "[]">>}
    /\ Rules["statement"] = {<<"expression-stmt">>, <<"compound-stmt">>, <<"selection-stmt">>,
                             <<"iteration-stmt">>, <<"return-stmt">>}
    /\ Rules["compound-stmt"] = {<<"{", "local-declarations", "statement-list", "}">>}
    /\ Rules["expression-stmt"] = {<<";">>, <<"expression", ";">>}
    /\ Rules["selection-stmt"] = {<<"if", "(", "expression", ")", "statement">>,
                                  <<"if", "(", "expression", ")", "statement", "else", "statement">>}
    /\ Rules["iteration-stmt"] = {<<"while", "(", "expression", ")", "statement">>}
    /\ Rules["return-stmt"] = {<<"return", ";">>, <<"return", "expression", ";">>}
    /\ Rules["expression"] = {<<"simple-expression">>, <<"var", "=", "expression">>}
    /\ Rules["var"] = {<<"ID">>, <<"ID", "[", "expression", "]">>}
    /\ Rules["simple-expression"] = {<<"additive-expression">>,
                                     <<"additive-expression", "relop", "additive-expression">>}
    /\ Rules["additive-expression"] = {<<"term">>, <<"additive-expression", "addop", "term">>}
    /\ Rules["term"] = {<<"factor">>, <<"term", "mulop", "factor">>}
    /\ Rules["call"] = {<<"ID", "(", "args", ")">>}
    /\ Rules["factor"] = {<<"NUM">>, <<"(", "expression", ")">>, <<"var">>, <<"call">>,
                          <<"CHAR">>}
BY DEF Rules, NonTerminals, DeclarationRules, StatementRules, ExpressionRules, FactorRules

LEMMA Classified ==
    /\ Kind("program") = "syntax_program"
    /\ Kind("declaration") = "syntax_declaration"
    /\ Kind("var-declaration") = "syntax_var_declaration"
    /\ Kind("fun-declaration") = "syntax_fun_declaration"
    /\ Kind("param") = "syntax_param"
    /\ Kind("statement") = "syntax_statement"
    /\ Kind("compound-stmt") = "syntax_compound_stmt"
    /\ Kind("expression-stmt") = "syntax_expression_stmt"
    /\ Kind("selection-stmt") = "syntax_selection_stmt"
    /\ Kind("iteration-stmt") = "syntax_iteration_stmt"
    /\ Kind("return-stmt") = "syntax_return_stmt"
    /\ Kind("expression") = "syntax_expression"
    /\ Kind("var") = "syntax_var"
    /\ Kind("simple-expression") = "syntax_simple_expression"
    /\ Kind("additive-expression") = "syntax_additive_expression"
    /\ Kind("term") = "syntax_term"
    /\ Kind("call") = "syntax_call"
    /\ Kind("factor") = "syntax_factor"
    /\ Element("declaration-list") = "declaration" /\ Element("params") = "param"
    /\ Element("local-declarations") = "var-declaration" /\ Element("statement-list") = "statement"
    /\ Element("args") = "expression"
    /\ \A c : IsA(c, c)
    /\ \A c \in {"syntax_var_declaration", "syntax_fun_declaration"} : IsA(c, "syntax_declaration")
    /\ \A c \in {"syntax_compound_stmt", "syntax_expression_stmt", "syntax_selection_stmt",
                "syntax_iteration_stmt", "syntax_return_stmt"} : IsA(c, "syntax_statement")
    /\ \A c \in {"syntax_assign_expression", "syntax_simple_expression"} : IsA(c, "syntax_expression")
    /\ \A c \in {"syntax_expression", "syntax_num", "syntax_var", "syntax_call", "syntax_a_char"} :
          IsA(c, "syntax_factor")
BY DEF Kind, Element, IsA, Base, Statement

(* A visit of a child by its name, cast to the class of that name. *)
LEMMA NamedVisitFits ==
    ASSUME NEW pos, NEW kids, NEW field \in Fields
    PROVE  /\ kids[pos] = "compound-stmt" => CallFits(Visit(pos, "syntax_compound_stmt", field), kids)
           /\ kids[pos] = "statement" => CallFits(Visit(pos, "syntax_statement", field), kids)
           /\ kids[pos] = "expression" => CallFits(Visit(pos, "syntax_expression", field), kids)
           /\ kids[pos] = "var" => CallFits(Visit(pos, "syntax_var", field), kids)
           /\ kids[pos] = "additive-expression" => CallFits(Visit(pos, "syntax_additive_expression", field), kids)
           /\ kids[pos] = "term" => CallFits(Visit(pos, "syntax_term", field), kids)
           /\ kids[pos] = "factor" => CallFits(Visit(pos, "syntax_factor", field), kids)
<1>1. kids[pos] = "compound-stmt" => CallFits(Visit(pos, "syntax_compound_stmt", field), kids)
    <2>1. "compound-stmt" \in Branches /\ "syntax_compound_stmt" \in Classes
        BY DEF Branches, Declarations, Statements, Expressions, Classes, Statement
    <2> QED BY <2>1, VisitFits, Classified
<1>2. kids[pos] = "statement" => CallFits(Visit(pos, "syntax_statement", field), kids)
    <2>1. "statement" \in Branches /\ "syntax_statement" \in Classes
        BY DEF Branches, Declarations, Statements, Expressions, Classes, Statement
    <2> QED BY <2>1, VisitFits, Classified
<1>3. kids[pos] = "expression" => CallFits(Visit(pos, "syntax_expression", field), kids)
    <2>1. "expression" \in Branches /\ "syntax_expression" \in Classes
        BY DEF Branches, Declarations, Statements, Expressions, Classes, Statement
    <2> QED BY <2>1, VisitFits, Classified
<1>4. kids[pos] = "var" => CallFits(Visit(pos, "syntax_var", field), kids)
    <2>1. "var" \in Branches /\ "syntax_var" \in Classes
        BY DEF Branches, Declarations, Statements, Expressions, Classes, Statement
    <2> QED BY <2>1, VisitFits, Classified
<1>5. kids[pos] = "additive-expression" => CallFits(Visit(pos, "syntax_additive_expression", field), kids)
    <2>1. "additive-expression" \in Branches /\ "syntax_additive_expression" \in Classes
        BY DEF Branches, Declarations, Statements, Expressions, Classes, Statement
    <2> QED BY <2>1, VisitFits, Classified
<1>6. kids[pos] = "term" => CallFits(Visit(pos, "syntax_term", field), kids)
    <2>1. "term" \in Branches /\ "syntax_term" \in Classes
        BY DEF Branches, Declarations, Statements, Expressions, Classes, Statement
    <2> QED BY <2>1, VisitFits, Classified
<1>7. kids[pos] = "factor" => CallFits(Visit(pos, "syntax_factor", field), kids)
    <2>1. "factor" \in Branches /\ "syntax_factor" \in Classes
        BY DEF Branches, Declarations, Statements, Expressions, Classes, Statement
    <2> QED BY <2>1, VisitFits, Classified
<1> QED BY <1>1, <1>2, <1>3, <1>4, <1>5, <1>6, <1>7


LEMMA DeclarationsFit ==
    \A name \in Declarations : \A kids \in Rules[name] : Fits(name, kids)
<1> USE DEF Branches, Declarations, Statements, Expressions
<1>1. ASSUME NEW kids \in Rules["program"] PROVE Fits("program", kids)
  <2>1. kids = <<"declaration-list">>
      BY RulesAre
  <2> DEFINE todo == <<Queue(1, "syntax_declaration", "declarations")>>
  <2>2. Branch("program", kids) = Node("syntax_program", todo)
      BY <2>1 DEF Branch, DeclarationBranch
  <2>3. CallFits(todo[1], kids)
      BY <2>1, QueueFits, Classified DEF Fields, Classes, Walks
  <2>4. \A k \in 1..Len(todo) : CallFits(todo[k], kids)
      BY <2>3
  <2>5. \A field \in Followed("syntax_program") :
           \E k \in 1..Len(todo) : todo[k].field = field
      BY DEF Followed, Visit, Queue
  <2> QED BY <2>2, <2>4, <2>5, NodeFits, Classified
<1>2. ASSUME NEW kids \in Rules["declaration"] PROVE Fits("declaration", kids)
  <2>1. CASE kids = <<"var-declaration">>
    <3>1. Branch("declaration", kids) = Pass(1)
        BY <2>1 DEF Branch, DeclarationBranch
    <3> QED BY <2>1, <3>1, PassFits, Classified
  <2>2. CASE kids = <<"fun-declaration">>
    <3>1. Branch("declaration", kids) = Pass(1)
        BY <2>2 DEF Branch, DeclarationBranch
    <3> QED BY <2>2, <3>1, PassFits, Classified
  <2> QED BY <2>1, <2>2, RulesAre
<1>3. ASSUME NEW kids \in Rules["var-declaration"] PROVE Fits("var-declaration", kids)
  <2>1. CASE kids = <<"type-specifier", "ID", ";">>
    <3> DEFINE todo == << >>
    <3>1. Branch("var-declaration", kids) = Node("syntax_var_declaration", todo)
        BY <2>1 DEF Branch, DeclarationBranch
    <3> QED BY <3>1, NodeFits, Classified DEF Followed
  <2>2. CASE kids = <<"type-specifier", "ID", "[", "NUM", "]", ";">>
    <3> DEFINE todo == << >>
    <3>1. Branch("var-declaration", kids) = Node("syntax_var_declaration", todo)
        BY <2>2 DEF Branch, DeclarationBranch
    <3> QED BY <3>1, NodeFits, Classified DEF Followed
  <2> QED BY <2>1, <2>2, RulesAre
<1>4. ASSUME NEW kids \in Rules["fun-declaration"] PROVE Fits("fun-declaration", kids)
  <2>1. kids = <<"type-specifier", "ID", "(", "params", ")", "compound-stmt">>
      BY RulesAre
  <2> DEFINE todo == <<Queue(4, "syntax_param", "params"),
                      Visit(6, "syntax_compound_stmt", "compound_stmt")>>
  <2>2. Branch("fun-declaration", kids) = Node("syntax_fun_declaration", todo)
      BY <2>1 DEF Branch, DeclarationBranch
  <2>3. CallFits(todo[1], kids)
      BY <2>1, QueueFits, Classified DEF Fields, Classes, Walks
  <2>4. CallFits(todo[2], kids)
      BY <2>1, NamedVisitFits DEF Fields
  <2>5. \A k \in 1..Len(todo) : CallFits(todo[k], kids)
      BY <2>3, <2>4
  <2>6. \A field \in Followed("syntax_fun_declaration") :
           \E k \in 1..Len(todo) : todo[k].field = field
      BY DEF Followed, Visit, Queue
  <2> QED BY <2>2, <2>5, <2>6, NodeFits, Classified
<1>5. ASSUME NEW kids \in Rules["param"] PROVE Fits("param", kids)
  <2>1. CASE kids = <<"type-specifier", "ID">>
    <3> DEFINE todo == << >>
    <3>1. Branch("param", kids) = Node("syntax_param", todo)
        BY <2>1 DEF Branch, DeclarationBranch
    <3> QED BY <3>1, NodeFits, Classified DEF Followed
  <2>2. CASE kids = <<"type-specifier", "ID", "[]">>
    <3> DEFINE todo == << >>
    <3>1. Branch("param", kids) = Node("syntax_param", todo)
        BY <2>2 DEF Branch, DeclarationBranch
    <3> QED BY <3>1, NodeFits, Classified DEF Followed
  <2> QED BY <2>1, <2>2, RulesAre
<1> QED BY <1>1, <1>2, <1>3, <1>4, <1>5

LEMMA StatementsFit ==
    \A name \in Statements : \A kids \in Rules[name] : Fits(name, kids)
<1> USE DEF Branches, Declarations, Statements, Expressions
<1>1. ASSUME NEW kids \in Rules["statement"] PROVE Fits("statement", kids)
  <2>1. CASE kids = <<"expression-stmt">>
    <3>1. Branch("statement", kids) = Pass(1)
        BY <2>1 DEF Branch, StatementBranch, LoopBranch, ReturnBranch
    <3> QED BY <2>1, <3>1, PassFits, Classified
  <2>2. CASE kids = <<"compound-stmt">>
    <3>1. Branch("statement", kids) = Pass(1)
        BY <2>2 DEF Branch, StatementBranch, LoopBranch, ReturnBranch
    <3> QED BY <2>2, <3>1, PassFits, Classified
  <2>3. CASE kids = <<"selection-stmt">>
    <3>1. Branch("statement", kids) = Pass(1)
        BY <2>3 DEF Branch, StatementBranch, LoopBranch, ReturnBranch
    <3> QED BY <2>3, <3>1, PassFits, Classified
  <2>4. CASE kids = <<"iteration-stmt">>
    <3>1. Branch("statement", kids) = Pass(1)
        BY <2>4 DEF Branch, StatementBranch, LoopBranch, ReturnBranch
    <3> QED BY <2>4, <3>1, PassFits, Classified
  <2>5. CASE kids = <<"return-stmt">>
    <3>1. Branch("statement", kids) = Pass(1)
        BY <2>5 DEF Branch, StatementBranch, LoopBranch, ReturnBranch
    <3> QED BY <2>5, <3>1, PassFits, Classified
  <2> QED BY <2>1, <2>2, <2>3, <2>4, <2>5, RulesAre
<1>2. ASSUME NEW kids \in Rules["compound-stmt"] PROVE Fits("compound-stmt", kids)
  <2>1. kids = <<"{", "local-declarations", "statement-list", "}">>
      BY RulesAre
  <2> DEFINE todo == <<Queue(2, "syntax_var_declaration", "local_declarations"),
                      Queue(3, "syntax_statement", "statement_list")>>
  <2>2. Branch("compound-stmt", kids) = Node("syntax_compound_stmt", todo)
      BY <2>1 DEF Branch, StatementBranch, LoopBranch, ReturnBranch
  <2>3. CallFits(todo[1], kids)
    <3>1. kids[2] = "local-declarations"
        BY <2>1
    <3> QED BY <3>1, QueueFits, Classified DEF Fields, Classes, Walks
  <2>4. CallFits(todo[2], kids)
    <3>1. kids[3] = "statement-list"
        BY <2>1
    <3> QED BY <3>1, QueueFits, Classified DEF Fields, Classes, Walks
  <2>5. \A k \in 1..Len(todo) : CallFits(todo[k], kids)
      BY <2>3, <2>4
  <2>6. \A field \in Followed("syntax_compound_stmt") :
           \E k \in 1..Len(todo) : todo[k].field = field
      BY DEF Followed, Visit, Queue
  <2> QED BY <2>2, <2>5, <2>6, NodeFits, Classified
<1>3. ASSUME NEW kids \in Rules["expression-stmt"] PROVE Fits("expression-stmt", kids)
  <2>1. CASE kids = <<";">>
    <3>1. Len(kids) = 1
        BY <2>1, Tuples, Zenon
    <3> DEFINE todo == << >>
    <3>2. Branch("expression-stmt", kids) = Node("syntax_expression_stmt", todo)
        BY <3>1 DEF Branch, StatementBranch, LoopBranch, ReturnBranch
    <3> QED BY <3>2, NodeFits, Classified DEF Followed
  <2>2. CASE kids = <<"expression", ";">>
    <3>1. Len(kids) = 2 /\ kids[1] = "expression"
        BY <2>2, Tuples, Zenon
    <3> DEFINE todo == <<Visit(1, "syntax_expression", "expression")>>
    <3>2. Branch("expression-stmt", kids) = Node("syntax_expression_stmt", todo)
        BY <3>1 DEF Branch, StatementBranch, LoopBranch, ReturnBranch
    <3>3. CallFits(todo[1], kids)
        BY <3>1, NamedVisitFits DEF Fields
    <3>4. \A k \in 1..Len(todo) : CallFits(todo[k], kids)
        BY <3>3
    <3>5. \A field \in Followed("syntax_expression_stmt") :
             \E k \in 1..Len(todo) : todo[k].field = field
        BY DEF Followed, Visit, Queue
    <3> QED BY <3>2, <3>4, <3>5, NodeFits, Classified
  <2> QED BY <2>1, <2>2, RulesAre
<1>4. ASSUME NEW kids \in Rules["selection-stmt"] PROVE Fits("selection-stmt", kids)
  <2>1. CASE kids = <<"if", "(", "expression", ")", "statement">>
    <3> DEFINE todo == <<Visit(3, "syntax_expression", "expression"),
                        Visit(5, "syntax_statement", "if_statement")>>
    <3>1. Branch("selection-stmt", kids) = Node("syntax_selection_stmt", todo)
        BY <2>1 DEF Branch, StatementBranch, LoopBranch, ReturnBranch
    <3>2. CallFits(todo[1], kids)
        BY <2>1, NamedVisitFits DEF Fields
    <3>3. CallFits(todo[2], kids)
        BY <2>1, NamedVisitFits DEF Fields
    <3>4. \A k \in 1..Len(todo) : CallFits(todo[k], kids)
        BY <3>2, <3>3
    <3>5. \A field \in Followed("syntax_selection_stmt") :
             \E k \in 1..Len(todo) : todo[k].field = field
        BY DEF Followed, Visit, Queue
    <3> QED BY <3>1, <3>4, <3>5, NodeFits, Classified
  <2>2. CASE kids = <<"if", "(", "expression", ")", "statement", "else", "statement">>
    <3> DEFINE todo == <<Visit(3, "syntax_expression", "expression"),
                        Visit(5, "syntax_statement", "if_statement"),
                        Visit(7, "syntax_statement", "else_statement")>>
    <3>1. Branch("selection-stmt", kids) = Node("syntax_selection_stmt", todo)
        BY <2>2 DEF Branch, StatementBranch, LoopBranch, ReturnBranch
    <3>2. CallFits(todo[1], kids)
        BY <2>2, NamedVisitFits DEF Fields
    <3>3. CallFits(todo[2], kids)
        BY <2>2, NamedVisitFits DEF Fields
    <3>4. CallFits(todo[3], kids)
        BY <2>2, NamedVisitFits DEF Fields
    <3>5. \A k \in 1..Len(todo) : CallFits(todo[k], kids)
        BY <3>2, <3>3, <3>4
    <3>6. \A field \in Followed("syntax_selection_stmt") :
             \E k \in 1..Len(todo) : todo[k].field = field
        BY DEF Followed, Visit, Queue
    <3> QED BY <3>1, <3>5, <3>6, NodeFits, Classified
  <2> QED BY <2>1, <2>2, RulesAre
<1>5. ASSUME NEW kids \in Rules["iteration-stmt"] PROVE Fits("iteration-stmt", kids)
  <2>1. kids = <<"while", "(", "expression", ")", "statement">>
      BY RulesAre
  <2> DEFINE todo == <<Visit(3, "syntax_expression", "expression"),
                      Visit(5, "syntax_statement", "statement")>>
  <2>2. Branch("iteration-stmt", kids) = Node("syntax_iteration_stmt", todo)
      BY <2>1 DEF Branch, StatementBranch, LoopBranch, ReturnBranch
  <2>3. CallFits(todo[1], kids)
      BY <2>1, NamedVisitFits DEF Fields
  <2>4. CallFits(todo[2], kids)
      BY <2>1, NamedVisitFits DEF Fields
  <2>5. \A k \in 1..Len(todo) : CallFits(todo[k], kids)
      BY <2>3, <2>4
  <2>6. \A field \in Followed("syntax_iteration_stmt") :
           \E k \in 1..Len(todo) : todo[k].field = field
      BY DEF Followed, Visit, Queue
  <2> QED BY <2>2, <2>5, <2>6, NodeFits, Classified
<1>6. ASSUME NEW kids \in Rules["return-stmt"] PROVE Fits("return-stmt", kids)
  <2>1. CASE kids = <<"return", ";">>
    <3>1. Len(kids) = 2
        BY <2>1, Tuples, Zenon
    <3> DEFINE todo == << >>
    <3>2. Branch("return-stmt", kids) = Node("syntax_return_stmt", todo)
        BY <3>1 DEF Branch, StatementBranch, LoopBranch, ReturnBranch
    <3> QED BY <3>2, NodeFits, Classified DEF Followed
  <2>2. CASE kids = <<"return", "expression", ";">>
    <3>1. Len(kids) = 3 /\ kids[2] = "expression"
        BY <2>2, Tuples, Zenon
    <3> DEFINE todo == <<Visit(2, "syntax_expression", "expression")>>
    <3>2. Branch("return-stmt", kids) = Node("syntax_return_stmt", todo)
        BY <3>1 DEF Branch, StatementBranch, LoopBranch, ReturnBranch
    <3>3. CallFits(todo[1], kids)
        BY <3>1, NamedVisitFits DEF Fields
    <3>4. \A k \in 1..Len(todo) : CallFits(todo[k], kids)
        BY <3>3
    <3>5. \A field \in Followed("syntax_return_stmt") :
             \E k \in 1..Len(todo) : todo[k].field = field
        BY DEF Followed, Visit, Queue
    <3> QED BY <3>2, <3>4, <3>5, NodeFits, Classified
  <2> QED BY <2>1, <2>2, RulesAre
<1> QED BY <1>1, <1>2, <1>3, <1>4, <1>5, <1>6

LEMMA ExpressionsFit ==
    \A name \in Expressions : \A kids \in Rules[name] : Fits(name, kids)
<1> USE DEF Branches, Declarations, Statements, Expressions
<1>1. ASSUME NEW kids \in Rules["expression"] PROVE Fits("expression", kids)
  <2>1. CASE kids = <<"simple-expression">>
    <3>1. Branch("expression", kids) = Pass(1)
        BY <2>1 DEF Branch, ExpressionBranch, TermBranch
    <3> QED BY <2>1, <3>1, PassFits, Classified
  <2>2. CASE kids = <<"var", "=", "expression">>
    <3> DEFINE todo == <<Visit(1, "syntax_var", "var"),
                        Visit(3, "syntax_expression", "expression")>>
    <3>1. Branch("expression", kids) = Node("syntax_assign_expression", todo)
        BY <2>2 DEF Branch, ExpressionBranch, TermBranch
    <3>2. CallFits(todo[1], kids)
        BY <2>2, NamedVisitFits DEF Fields
    <3>3. CallFits(todo[2], kids)
        BY <2>2, NamedVisitFits DEF Fields
    <3>4. \A k \in 1..Len(todo) : CallFits(todo[k], kids)
        BY <3>2, <3>3
    <3>5. \A field \in Followed("syntax_assign_expression") :
             \E k \in 1..Len(todo) : todo[k].field = field
        BY DEF Followed, Visit, Queue
    <3> QED BY <3>1, <3>4, <3>5, NodeFits, Classified
  <2> QED BY <2>1, <2>2, RulesAre
<1>2. ASSUME NEW kids \in Rules["var"] PROVE Fits("var", kids)
  <2>1. CASE kids = <<"ID">>
    <3> DEFINE todo == << >>
    <3>1. Branch("var", kids) = Node("syntax_var", todo)
        BY <2>1 DEF Branch, ExpressionBranch, TermBranch
    <3> QED BY <3>1, NodeFits, Classified DEF Followed
  <2>2. CASE kids = <<"ID", "[", "expression", "]">>
    <3> DEFINE todo == <<Visit(3, "syntax_expression", "expression")>>
    <3>1. Branch("var", kids) = Node("syntax_var", todo)
        BY <2>2 DEF Branch, ExpressionBranch, TermBranch
    <3>2. CallFits(todo[1], kids)
        BY <2>2, NamedVisitFits DEF Fields
    <3>3. \A k \in 1..Len(todo) : CallFits(todo[k], kids)
        BY <3>2
    <3>4. \A field \in Followed("syntax_var") :
             \E k \in 1..Len(todo) : todo[k].field = field
        BY DEF Followed, Visit, Queue
    <3> QED BY <3>1, <3>3, <3>4, NodeFits, Classified
  <2> QED BY <2>1, <2>2, RulesAre
<1>3. ASSUME NEW kids \in Rules["simple-expression"] PROVE Fits("simple-expression", kids)
  <2>1. CASE kids = <<"additive-expression">>
    <3> DEFINE todo == <<Visit(1, "syntax_additive_expression", "additive_expression_l")>>
    <3>1. Branch("simple-expression", kids) = Node("syntax_simple_expression", todo)
        BY <2>1 DEF Branch, ExpressionBranch, TermBranch
    <3>2. CallFits(todo[1], kids)
        BY <2>1, NamedVisitFits DEF Fields
    <3>3. \A k \in 1..Len(todo) : CallFits(todo[k], kids)
        BY <3>2
    <3>4. \A field \in Followed("syntax_simple_expression") :
             \E k \in 1..Len(todo) : todo[k].field = field
        BY DEF Followed, Visit, Queue
    <3> QED BY <3>1, <3>3, <3>4, NodeFits, Classified
  <2>2. CASE kids = <<"additive-expression", "relop", "additive-expression">>
    <3> DEFINE todo == <<Visit(1, "syntax_additive_expression", "additive_expression_l"),
                        Visit(3, "syntax_additive_expression", "additive_expression_r")>>
    <3>1. Branch("simple-expression", kids) = Node("syntax_simple_expression", todo)
        BY <2>2 DEF Branch, ExpressionBranch, TermBranch
    <3>2. CallFits(todo[1], kids)
        BY <2>2, NamedVisitFits DEF Fields
    <3>3. CallFits(todo[2], kids)
        BY <2>2, NamedVisitFits DEF Fields
    <3>4. \A k \in 1..Len(todo) : CallFits(todo[k], kids)
        BY <3>2, <3>3
    <3>5. \A field \in Followed("syntax_simple_expression") :
             \E k \in 1..Len(todo) : todo[k].field = field
        BY DEF Followed, Visit, Queue
    <3> QED BY <3>1, <3>4, <3>5, NodeFits, Classified
  <2> QED BY <2>1, <2>2, RulesAre
<1>4. ASSUME NEW kids \in Rules["additive-expression"] PROVE Fits("additive-expression", kids)
  <2>1. CASE kids = <<"term">>
    <3> DEFINE todo == <<Visit(1, "syntax_term", "term")>>
    <3>1. Branch("additive-expression", kids) = Node("syntax_additive_expression", todo)
        BY <2>1 DEF Branch, ExpressionBranch, TermBranch
    <3>2. CallFits(todo[1], kids)
        BY <2>1, NamedVisitFits DEF Fields
    <3>3. \A k \in 1..Len(todo) : CallFits(todo[k], kids)
        BY <3>2
    <3>4. \A field \in Followed("syntax_additive_expression") :
             \E k \in 1..Len(todo) : todo[k].field = field
        BY DEF Followed, Visit, Queue
    <3> QED BY <3>1, <3>3, <3>4, NodeFits, Classified
  <2>2. CASE kids = <<"additive-expression", "addop", "term">>
    <3> DEFINE todo == <<Visit(1, "syntax_additive_expression", "additive_expression"),
                        Visit(3, "syntax_term", "term")>>
    <3>1. Branch("additive-expression", kids) = Node("syntax_additive_expression", todo)
        BY <2>2 DEF Branch, ExpressionBranch, TermBranch
    <3>2. CallFits(todo[1], kids)
        BY <2>2, NamedVisitFits DEF Fields
    <3>3. CallFits(todo[2], kids)
        BY <2>2, NamedVisitFits DEF Fields
    <3>4. \A k \in 1..Len(todo) : CallFits(todo[k], kids)
        BY <3>2, <3>3
    <3>5. \A field \in Followed("syntax_additive_expression") :
             \E k \in 1..Len(todo) : todo[k].field = field
        BY DEF Followed, Visit, Queue
    <3> QED BY <3>1, <3>4, <3>5, NodeFits, Classified
  <2> QED BY <2>1, <2>2, RulesAre
<1>5. ASSUME NEW kids \in Rules["term"] PROVE Fits("term", kids)
  <2>1. CASE kids = <<"factor">>
    <3> DEFINE todo == <<Visit(1, "syntax_factor", "factor")>>
    <3>1. Branch("term", kids) = Node("syntax_term", todo)
        BY <2>1 DEF Branch, ExpressionBranch, TermBranch
    <3>2. CallFits(todo[1], kids)
        BY <2>1, NamedVisitFits DEF Fields
    <3>3. \A k \in 1..Len(todo) : CallFits(todo[k], kids)
        BY <3>2
    <3>4. \A field \in Followed("syntax_term") :
             \E k \in 1..Len(todo) : todo[k].field = field
        BY DEF Followed, Visit, Queue
    <3> QED BY <3>1, <3>3, <3>4, NodeFits, Classified
  <2>2. CASE kids = <<"term", "mulop", "factor">>
    <3> DEFINE todo == <<Visit(1, "syntax_term", "term"),
                        Visit(3, "syntax_factor", "factor")>>
    <3>1. Branch("term", kids) = Node("syntax_term", todo)
        BY <2>2 DEF Branch, ExpressionBranch, TermBranch
    <3>2. CallFits(todo[1], kids)
        BY <2>2, NamedVisitFits DEF Fields
    <3>3. CallFits(todo[2], kids)
        BY <2>2, NamedVisitFits DEF Fields
    <3>4. \A k \in 1..Len(todo) : CallFits(todo[k], kids)
        BY <3>2, <3>3
    <3>5. \A field \in Followed("syntax_term") :
             \E k \in 1..Len(todo) : todo[k].field = field
        BY DEF Followed, Visit, Queue
    <3> QED BY <3>1, <3>4, <3>5, NodeFits, Classified
  <2> QED BY <2>1, <2>2, RulesAre
<1>6. ASSUME NEW kids \in Rules["call"] PROVE Fits("call", kids)
  <2>1. kids = <<"ID", "(", "args", ")">>
      BY RulesAre
  <2> DEFINE todo == <<Queue(3, "syntax_expression", "args")>>
  <2>2. Branch("call", kids) = Node("syntax_call", todo)
      BY <2>1 DEF Branch, ExpressionBranch, TermBranch
  <2>3. CallFits(todo[1], kids)
      BY <2>1, QueueFits, Classified DEF Fields, Classes, Walks
  <2>4. \A k \in 1..Len(todo) : CallFits(todo[k], kids)
      BY <2>3
  <2>5. \A field \in Followed("syntax_call") :
           \E k \in 1..Len(todo) : todo[k].field = field
      BY DEF Followed, Visit, Queue
  <2> QED BY <2>2, <2>4, <2>5, NodeFits, Classified
<1> QED BY <1>1, <1>2, <1>3, <1>4, <1>5, <1>6

LEMMA FactorsFit ==
    \A name \in {"factor"} : \A kids \in Rules[name] : Fits(name, kids)
<1> USE DEF Branches, Declarations, Statements, Expressions
<1>1. ASSUME NEW kids \in Rules["factor"] PROVE Fits("factor", kids)
  <2>1. CASE kids = <<"NUM">>
    <3> DEFINE todo == << >>
    <3>1. Branch("factor", kids) = Node("syntax_num", todo)
        BY <2>1 DEF Branch, FactorBranch
    <3> QED BY <3>1, NodeFits, Classified DEF Followed
  <2>2. CASE kids = <<"(", "expression", ")">>
    <3>1. Branch("factor", kids) = Pass(2)
        BY <2>2 DEF Branch, FactorBranch
    <3> QED BY <2>2, <3>1, PassFits, Classified
  <2>3. CASE kids = <<"var">>
    <3>1. Branch("factor", kids) = Pass(1)
        BY <2>3 DEF Branch, FactorBranch
    <3> QED BY <2>3, <3>1, PassFits, Classified
  <2>4. CASE kids = <<"call">>
    <3>1. Branch("factor", kids) = Pass(1)
        BY <2>4 DEF Branch, FactorBranch
    <3> QED BY <2>4, <3>1, PassFits, Classified
  <2>5. CASE kids = <<"CHAR">>
    <3> DEFINE todo == << >>
    <3>1. Branch("factor", kids) = Node("syntax_a_char", todo)
        BY <2>5 DEF Branch, FactorBranch
    <3> QED BY <3>1, NodeFits, Classified DEF Followed
  <2> QED BY <2>1, <2>2, <2>3, <2>4, <2>5, RulesAre
<1> QED BY <1>1

LEMMA BranchesFit ==
    ASSUME NEW name \in Branches, NEW kids \in Rules[name]
    PROVE  Fits(name, kids)
BY DeclarationsFit, StatementsFit, ExpressionsFit, FactorsFit DEF Branches

LEMMA NamesAreRight ==
    /\ Branches \subseteq DOMAIN Rules /\ Walks \subseteq DOMAIN Rules
    /\ "program" \in Branches /\ <<"declaration-list">> \in Rules["program"]
    /\ \A list : Element(list) \in Branches
<1>1. \A list : Element(list) \in Branches
    BY DEF Element, Branches, Declarations, Statements, Expressions
<1> QED BY <1>1, RulesAre DEF Rules, NonTerminals, Branches, Walks, Declarations, Statements,
            Expressions

(* The element of a list is where FastForward looks for it. *)
ElementFits(list, kids) ==
    IF list \in {"params", "args"}
    THEN kids[1] \in Walks =>
            kids[1] \notin {"params", "args"} /\ Element(kids[1]) = Element(list)
    ELSE /\ Len(kids) = Wide(list) => Last(kids) = Element(list)
         /\ Len(kids) # Wide(list) /\ list \notin {"local-declarations", "statement-list"} =>
               kids[1] = Element(list)
         /\ (\E k \in DOMAIN kids : kids[k] \in Elements) <=>
               \/ Len(kids) = Wide(list)
               \/ list \notin {"local-declarations", "statement-list"}

LEMMA ListRulesAre ==
    /\ Rules["declaration-list"] = {<<"declaration">>, <<"declaration-list", "declaration">>}
    /\ Rules["params"] = {<<"void">>, <<"param-list">>}
    /\ Rules["param-list"] = {<<"param">>, <<"param-list", ",", "param">>}
    /\ Rules["local-declarations"] = {<<"epsilon">>, <<"local-declarations", "var-declaration">>}
    /\ Rules["statement-list"] = {<<"epsilon">>, <<"statement-list", "statement">>}
    /\ Rules["args"] = {<<"epsilon">>, <<"arg-list">>}
    /\ Rules["arg-list"] = {<<"expression">>, <<"arg-list", ",", "expression">>}
BY DEF Rules, NonTerminals, DeclarationRules, StatementRules, ExpressionRules, FactorRules

LEMMA Ends ==
    ASSUME NEW a, NEW b, NEW c
    PROVE  /\ Len(<<a>>) = 1 /\ Len(<<a, b>>) = 2 /\ Len(<<a, b, c>>) = 3
           /\ <<a>>[1] = a /\ Last(<<a, b>>) = b /\ Last(<<a, b, c>>) = c
BY DEF Last

LEMMA ListsFit ==
    ASSUME NEW list \in Walks, NEW kids \in Rules[list]
    PROVE  ElementFits(list, kids)
<1>1. CASE list = "declaration-list"
  <2>1. kids = <<"declaration">> \/ kids = <<"declaration-list", "declaration">>
      BY <1>1, ListRulesAre
  <2>2. (Len(kids) = 1 /\ kids[1] = "declaration") \/ (Len(kids) = 2 /\ Last(kids) = "declaration")
      BY <2>1 DEF Last
  <2>3. Wide(list) = 2 /\ Element(list) = "declaration"
      BY <1>1 DEF Wide, Element
  <2>4. list \notin {"params", "args"}
      BY <1>1
  <2>5. \E k \in DOMAIN kids : kids[k] \in Elements
      BY <2>1 DEF Elements
  <2>6. list \notin {"local-declarations", "statement-list"}
      BY <1>1
  <2> QED BY <2>2, <2>3, <2>4, <2>5, <2>6 DEF ElementFits
<1>2. CASE list = "params"
  <2>1. kids[1] = "void" \/ kids[1] = "param-list"
      BY <1>2, ListRulesAre, Ends, Zenon
  <2> QED BY <1>2, <2>1 DEF ElementFits, Element, Walks
<1>3. CASE list = "param-list"
  <2>1. kids = <<"param">> \/ \E comma : kids = <<"param-list", comma, "param">>
      BY <1>3, ListRulesAre
  <2>2. (Len(kids) = 1 /\ kids[1] = "param") \/ (Len(kids) = 3 /\ Last(kids) = "param")
      BY <2>1 DEF Last
  <2>3. Wide(list) = 3 /\ Element(list) = "param"
      BY <1>3 DEF Wide, Element
  <2>4. list \notin {"params", "args"}
      BY <1>3
  <2>5. \E k \in DOMAIN kids : kids[k] \in Elements
      BY <2>1 DEF Elements
  <2>6. list \notin {"local-declarations", "statement-list"}
      BY <1>3
  <2> QED BY <2>2, <2>3, <2>4, <2>5, <2>6 DEF ElementFits
<1>4. CASE list = "local-declarations"
  <2>1. kids = <<"epsilon">> \/ kids = <<"local-declarations", "var-declaration">>
      BY <1>4, ListRulesAre
  <2>2. (Len(kids) = 1) \/ (Len(kids) = 2 /\ Last(kids) = "var-declaration")
      BY <2>1 DEF Last
  <2>3. Wide(list) = 2 /\ Element(list) = "var-declaration"
      BY <1>4 DEF Wide, Element
  <2>4. list \notin {"params", "args"} /\ list \in {"local-declarations", "statement-list"}
      BY <1>4
  <2>5. (\E k \in DOMAIN kids : kids[k] \in Elements) <=> Len(kids) = 2
    <3>1. CASE kids = <<"epsilon">>
      <4>1. Len(kids) = 1 /\ \A k \in DOMAIN kids : kids[k] = "epsilon"
          BY <3>1
      <4> QED BY <4>1 DEF Elements
    <3>2. CASE kids # <<"epsilon">>
      <4>1. Len(kids) = 2 /\ 2 \in DOMAIN kids /\ kids[2] \in Elements
          BY <2>1, <3>2 DEF Elements
      <4> QED BY <4>1
    <3> QED BY <3>1, <3>2
  <2> QED BY <2>2, <2>3, <2>4, <2>5 DEF ElementFits
<1>5. CASE list = "statement-list"
  <2>1. kids = <<"epsilon">> \/ kids = <<"statement-list", "statement">>
      BY <1>5, ListRulesAre
  <2>2. (Len(kids) = 1) \/ (Len(kids) = 2 /\ Last(kids) = "statement")
      BY <2>1 DEF Last
  <2>3. Wide(list) = 2 /\ Element(list) = "statement"
      BY <1>5 DEF Wide, Element
  <2>4. list \notin {"params", "args"} /\ list \in {"local-declarations", "statement-list"}
      BY <1>5
  <2>5. (\E k \in DOMAIN kids : kids[k] \in Elements) <=> Len(kids) = 2
    <3>1. CASE kids = <<"epsilon">>
      <4>1. Len(kids) = 1 /\ \A k \in DOMAIN kids : kids[k] = "epsilon"
          BY <3>1
      <4> QED BY <4>1 DEF Elements
    <3>2. CASE kids # <<"epsilon">>
      <4>1. Len(kids) = 2 /\ 2 \in DOMAIN kids /\ kids[2] \in Elements
          BY <2>1, <3>2 DEF Elements
      <4> QED BY <4>1
    <3> QED BY <3>1, <3>2
  <2> QED BY <2>2, <2>3, <2>4, <2>5 DEF ElementFits
<1>6. CASE list = "args"
  <2>1. kids[1] = "epsilon" \/ kids[1] = "arg-list"
      BY <1>6, ListRulesAre, Ends, Zenon
  <2> QED BY <1>6, <2>1 DEF ElementFits, Element, Walks
<1>7. CASE list = "arg-list"
  <2>1. kids = <<"expression">> \/ \E comma : kids = <<"arg-list", comma, "expression">>
      BY <1>7, ListRulesAre
  <2>2. (Len(kids) = 1 /\ kids[1] = "expression") \/ (Len(kids) = 3 /\ Last(kids) = "expression")
      BY <2>1 DEF Last
  <2>3. Wide(list) = 3 /\ Element(list) = "expression"
      BY <1>7 DEF Wide, Element
  <2>4. list \notin {"params", "args"}
      BY <1>7
  <2>5. \E k \in DOMAIN kids : kids[k] \in Elements
      BY <2>1 DEF Elements
  <2>6. list \notin {"local-declarations", "statement-list"}
      BY <1>7
  <2> QED BY <2>2, <2>3, <2>4, <2>5, <2>6 DEF ElementFits
<1> QED BY <1>1, <1>2, <1>3, <1>4, <1>5, <1>6, <1>7 DEF Walks

-----------------------------------------------------------------------------
(* What the walk keeps of an activation. *)
Todo(f) == Branch(f.name, f.kids).todo
Doing(f) == Todo(f)[f.step]
ElementOf(f) == Element(f.kids[Doing(f).pos])

Placed(f) ==
    /\ f.name \in Branches /\ f.kids \in Rules[f.name]
    /\ f.step <= Len(Todo(f)) + 1
    /\ IsA(Kind(f.name), f.cast)
Filled(f) == \A k \in 1..f.step - 1 : Todo(f)[k].field \in f.set
Walking(f) ==
    /\ IF f.list = "none" THEN f.stack = << >> /\ f.taken = << >>
       ELSE f.step <= Len(Todo(f)) /\ Doing(f).kind = "list"
    /\ f.list \in Walks => /\ f.list \notin {"params", "args"} /\ f.taken = << >>
                           /\ Element(f.list) = ElementOf(f)
    /\ \A k \in 1..Len(f.stack) : f.stack[k].name = ElementOf(f) /\ f.stack[k].nth = k
Ordered(f) ==
    /\ Len(f.taken) + Len(f.stack) = f.met
    /\ \A j \in 1..Len(f.taken) : f.taken[j] = f.met - j + 1

FrameOK(f) == f \in Frame /\ Placed(f) /\ Filled(f) /\ Walking(f) /\ Ordered(f)

(* An activation that is not the last one waits for what the next returns. *)
Waiting(f) ==
    /\ f.step <= Len(Todo(f))
    /\ IF f.list = "none" THEN Doing(f).kind = "visit"
       ELSE f.list = "bottom" /\ Doing(f).kind = "list" /\ f.stack # << >>

FramesOK ==
    /\ frames \in Seq(Frame) /\ frames # << >>
    /\ \A k \in 1..Len(frames) : FrameOK(frames[k])
    /\ \A k \in 1..Len(frames) - 1 :
          Waiting(frames[k]) /\ frames[k + 1].field = Doing(frames[k]).field

IInv ==
    /\ FramesOK
    /\ status \in {"run", "done", "error", "abort"}
    /\ nodes \in 0..MaxNodes

LEMMA TodoIs ==
    ASSUME NEW f \in Frame, Placed(f)
    PROVE  /\ Len(Todo(f)) \in Nat /\ f.step \in Nat \ {0}
           /\ \A k \in 1..Len(Todo(f)) : CallFits(Todo(f)[k], f.kids)
           /\ Fits(f.name, f.kids)
<1>1. Fits(f.name, f.kids)
    BY BranchesFit DEF Placed
<1> QED BY <1>1 DEF Fits, Todo, Frame

(* A new activation. *)
NewFrame(name, kids, cast, field) ==
    [name |-> name, kids |-> kids, cast |-> cast, field |-> field,
     step |-> 1, set |-> {}, list |-> "none", met |-> 0, stack |-> << >>, taken |-> << >>]

LEMMA NewFrameOK ==
    ASSUME NEW name \in Branches, NEW kids \in Rules[name], NEW cast \in Classes,
           NEW field \in Fields, IsA(Kind(name), cast)
    PROVE  FrameOK(NewFrame(name, kids, cast, field))
<1> DEFINE f == NewFrame(name, kids, cast, field)
<1>1. f.name = name /\ f.kids = kids /\ f.cast = cast /\ f.step = 1 /\ f.set = {}
      /\ f.list = "none" /\ f.met = 0 /\ f.stack = << >> /\ f.taken = << >>
    BY DEF NewFrame
<1>2. f \in Frame
  <2>1. name \in DOMAIN Rules
      BY NamesAreRight
  <2>2. kids \in UNION {Rules[n] : n \in DOMAIN Rules}
      BY <2>1
  <2> QED BY <2>1, <2>2 DEF Frame, NewFrame
<1> HIDE DEF f
<1>3. Len(Todo(f)) \in Nat
  <2>1. Fits(name, kids)
      BY BranchesFit
  <2> QED BY <1>1, <2>1 DEF Fits, Todo
<1>4. Placed(f)
    BY <1>1, <1>3 DEF Placed
<1>5. Filled(f) /\ Ordered(f)
    BY <1>1 DEF Filled, Ordered
<1>6. Walking(f)
    BY <1>1 DEF Walking, Walks
<1> QED BY <1>2, <1>4, <1>5, <1>6 DEF FrameOK, f

-----------------------------------------------------------------------------
(* What one step does to its activation. *)
LEMMA FrontIs ==
    ASSUME NEW S, NEW s \in Seq(S), s # << >>
    PROVE  /\ Front(s) \in Seq(S) /\ Len(Front(s)) = Len(s) - 1 /\ Len(s) \in Nat \ {0}
           /\ \A k \in 1..Len(s) - 1 : Front(s)[k] = s[k]
           /\ Last(s) = s[Len(s)] /\ Last(s) \in S
<1> DEFINE n == Len(s)
           front == SubSeq(s, 1, n - 1)
<1>1. n \in Nat \ {0} /\ n = Len(s)
    OBVIOUS
<1>2. Front(s) = front /\ Last(s) = s[n]
    BY DEF Front, Last
<1> HIDE DEF n
<1>3. front \in Seq(S) /\ Len(front) = n - 1 /\ \A k \in 1..n - 1 : front[k] = s[k]
    BY <1>1
<1>4. s[n] \in S
    BY <1>1
<1> QED BY <1>1, <1>2, <1>3, <1>4

LEMMA SameBranch ==
    ASSUME NEW f, NEW g, g.name = f.name, g.kids = f.kids
    PROVE  /\ Todo(g) = Todo(f)
           /\ g.step = f.step => Doing(g) = Doing(f) /\ ElementOf(g) = ElementOf(f)
BY DEF Todo, Doing, ElementOf

LEMMA ListChanges ==
    ASSUME NEW f, FrameOK(f), f.step <= Len(Todo(f)), Doing(f).kind = "list",
           NEW l \in Walks \cup {"bottom"}, f.taken = << >>,
           l \in Walks => l \notin {"params", "args"} /\ Element(l) = ElementOf(f)
    PROVE  FrameOK([f EXCEPT !.list = l]) /\ [f EXCEPT !.list = l].field = f.field
<1> DEFINE g == [f EXCEPT !.list = l]
<1>1. /\ f \in Frame /\ g \in Frame
      /\ g.name = f.name /\ g.kids = f.kids /\ g.cast = f.cast /\ g.field = f.field
      /\ g.step = f.step /\ g.set = f.set /\ g.list = l /\ g.met = f.met
      /\ g.stack = f.stack /\ g.taken = f.taken
    BY DEF FrameOK, Frame
<1> HIDE DEF g
<1>2. Todo(g) = Todo(f) /\ Doing(g) = Doing(f) /\ ElementOf(g) = ElementOf(f)
    BY <1>1, SameBranch
<1>3. Placed(g) /\ Filled(g) /\ Ordered(g)
    BY <1>1, <1>2 DEF FrameOK, Placed, Filled, Ordered
<1>4. l # "none"
    BY DEF Walks
<1>5. Walking(g)
    BY <1>1, <1>2, <1>4 DEF FrameOK, Walking
<1> QED BY <1>1, <1>3, <1>5 DEF FrameOK, g

LEMMA ElementPushed ==
    ASSUME NEW f, FrameOK(f), f.list \in Walks
    PROVE  LET e == [name |-> ElementOf(f), nth |-> f.met + 1]
               g == [f EXCEPT !.met = f.met + 1, !.stack = Append(f.stack, e)]
           IN  FrameOK(g) /\ g.field = f.field
<1> DEFINE e == [name |-> ElementOf(f), nth |-> f.met + 1]
           g == [f EXCEPT !.met = f.met + 1, !.stack = Append(f.stack, e)]
           T == [name : DOMAIN Rules, nth : Nat]
<1>1. f \in Frame /\ f.stack \in Seq(T) /\ f.met \in Nat /\ f.met = Len(f.stack)
  <2>1. f.taken = << >> /\ Len(f.stack) \in Nat /\ Len(f.taken) + Len(f.stack) = f.met
      BY DEF FrameOK, Frame, Walking, Ordered
  <2> QED BY <2>1 DEF FrameOK, Frame
<1>2. e \in T
  <2>1. ElementOf(f) \in DOMAIN Rules
      BY NamesAreRight DEF ElementOf
  <2> QED BY <1>1, <2>1
<1>3. e.name = ElementOf(f) /\ e.nth = Len(f.stack) + 1
    BY <1>1
<1> HIDE DEF e, T
<1>4. /\ Append(f.stack, e) \in Seq(T) /\ Len(Append(f.stack, e)) = Len(f.stack) + 1
      /\ Len(f.stack) \in Nat
      /\ \A k \in 1..Len(f.stack) + 1 :
            Append(f.stack, e)[k] = IF k = Len(f.stack) + 1 THEN e ELSE f.stack[k]
    BY <1>1, <1>2
<1>5. /\ g \in Frame
      /\ g.name = f.name /\ g.kids = f.kids /\ g.cast = f.cast /\ g.field = f.field
      /\ g.step = f.step /\ g.set = f.set /\ g.list = f.list /\ g.stack = Append(f.stack, e)
      /\ g.met = f.met + 1 /\ g.taken = f.taken
  <2>1. f.met + 1 \in Nat
      BY <1>1
  <2> QED BY <1>1, <1>4, <2>1 DEF Frame, T
<1> HIDE DEF g
<1>6. Todo(g) = Todo(f) /\ Doing(g) = Doing(f) /\ ElementOf(g) = ElementOf(f)
    BY <1>5, SameBranch
<1>7. f.taken = << >> /\ f.list # "none"
    BY DEF FrameOK, Walking, Walks
<1>8. Placed(g) /\ Filled(g)
    BY <1>5, <1>6 DEF FrameOK, Placed, Filled
<1>9. Ordered(g)
    BY <1>1, <1>4, <1>5, <1>7 DEF Ordered
<1>10. Walking(g)
  <2>1. ASSUME NEW k \in 1..Len(g.stack)
        PROVE  g.stack[k].name = ElementOf(g) /\ g.stack[k].nth = k
    <3>1. k \in 1..Len(f.stack) + 1
        BY <1>4, <1>5
    <3>2. CASE k = Len(f.stack) + 1
        BY <1>3, <1>4, <1>5, <1>6, <3>1, <3>2
    <3>3. CASE k # Len(f.stack) + 1
      <4>1. k \in 1..Len(f.stack)
          BY <1>4, <3>1, <3>3
      <4>2. f.stack[k].name = ElementOf(f) /\ f.stack[k].nth = k
          BY <4>1 DEF FrameOK, Walking
      <4> QED BY <1>4, <1>5, <1>6, <3>1, <3>3, <4>2
    <3> QED BY <3>2, <3>3
  <2> QED BY <1>5, <1>6, <1>7, <2>1 DEF FrameOK, Walking
<1> QED BY <1>5, <1>8, <1>9, <1>10 DEF FrameOK, g, e

LEMMA StepDone ==
    ASSUME NEW f, FrameOK(f), f.step <= Len(Todo(f)), f.stack = << >>,
           NEW g, g = [f EXCEPT !.step = f.step + 1, !.set = f.set \cup {Doing(f).field},
                                !.list = "none", !.met = 0, !.taken = << >>]
    PROVE  FrameOK(g) /\ g.field = f.field
<1>1. f \in Frame /\ Placed(f)
    BY DEF FrameOK
<1>2. /\ Len(Todo(f)) \in Nat /\ f.step \in Nat \ {0} /\ Doing(f).field \in Fields
  <2>1. Len(Todo(f)) \in Nat /\ f.step \in Nat \ {0}
        /\ \A k \in 1..Len(Todo(f)) : CallFits(Todo(f)[k], f.kids)
      BY <1>1, TodoIs
  <2>2. CallFits(Doing(f), f.kids)
      BY <2>1 DEF Doing
  <2> QED BY <2>1, <2>2 DEF CallFits
<1>3. /\ g \in Frame
      /\ g.name = f.name /\ g.kids = f.kids /\ g.cast = f.cast /\ g.field = f.field
      /\ g.step = f.step + 1 /\ g.set = f.set \cup {Doing(f).field}
      /\ g.list = "none" /\ g.met = 0 /\ g.stack = << >> /\ g.taken = << >>
  <2>1. f.step + 1 \in Nat \ {0} /\ << >> \in Seq(Nat)
      BY <1>2
  <2>2. f.set \cup {Doing(f).field} \in SUBSET Fields
      BY <1>1, <1>2 DEF Frame
  <2> QED BY <1>1, <2>1, <2>2 DEF Frame
<1>4. Todo(g) = Todo(f)
    BY <1>3, SameBranch
<1>5. Placed(g)
    BY <1>2, <1>3, <1>4 DEF FrameOK, Placed
<1>6. Filled(g)
  <2> SUFFICES ASSUME NEW k \in 1..f.step PROVE Todo(f)[k].field \in g.set
      BY <1>2, <1>3, <1>4 DEF Filled
  <2>1. CASE k = f.step
      BY <1>3, <2>1 DEF Doing
  <2>2. CASE k # f.step
    <3>1. k \in 1..f.step - 1
        BY <1>2, <2>2
    <3> QED BY <1>3, <3>1 DEF FrameOK, Filled
  <2> QED BY <2>1, <2>2
<1>7. Walking(g) /\ Ordered(g)
    BY <1>3 DEF Walking, Ordered, Walks
<1> QED BY <1>3, <1>5, <1>6, <1>7 DEF FrameOK

LEMMA ElementReturned ==
    ASSUME NEW f, FrameOK(f), f.list = "bottom", f.stack # << >>,
           NEW g, g = [f EXCEPT !.taken = Append(f.taken, Last(f.stack).nth),
                                !.stack = Front(f.stack)]
    PROVE  FrameOK(g) /\ g.field = f.field
<1> DEFINE T == [name : DOMAIN Rules, nth : Nat]
           n == Len(f.stack)
           t == Len(f.taken)
<1>1. f \in Frame /\ f.stack \in Seq(T) /\ f.taken \in Seq(Nat)
    BY DEF FrameOK, Frame
<1>2. /\ Front(f.stack) \in Seq(T) /\ Len(Front(f.stack)) = n - 1 /\ n \in Nat \ {0}
      /\ \A k \in 1..n - 1 : Front(f.stack)[k] = f.stack[k]
      /\ Last(f.stack) = f.stack[n]
  <2> HIDE DEF T
  <2> QED BY <1>1, FrontIs
<1>3. Last(f.stack).nth = n /\ f.list # "none" /\ f.list \notin Walks
    BY <1>2 DEF FrameOK, Walking, Walks
<1>4. /\ Append(f.taken, n) \in Seq(Nat) /\ Len(Append(f.taken, n)) = t + 1 /\ t \in Nat
      /\ \A k \in 1..t + 1 : Append(f.taken, n)[k] = IF k = t + 1 THEN n ELSE f.taken[k]
    BY <1>1, <1>2
<1>5. /\ g \in Frame
      /\ g.name = f.name /\ g.kids = f.kids /\ g.cast = f.cast /\ g.field = f.field
      /\ g.step = f.step /\ g.set = f.set /\ g.list = f.list
      /\ g.met = f.met /\ g.stack = Front(f.stack) /\ g.taken = Append(f.taken, n)
    BY <1>1, <1>2, <1>3, <1>4 DEF Frame
<1>6. Todo(g) = Todo(f) /\ Doing(g) = Doing(f) /\ ElementOf(g) = ElementOf(f)
    BY <1>5, SameBranch
<1>7. Placed(g) /\ Filled(g)
    BY <1>5, <1>6 DEF FrameOK, Placed, Filled
<1>8. Walking(g)
  <2>1. \A k \in 1..n - 1 : f.stack[k].name = ElementOf(f) /\ f.stack[k].nth = k
      BY <1>2 DEF FrameOK, Walking
  <2>2. \A k \in 1..Len(g.stack) : g.stack[k].name = ElementOf(g) /\ g.stack[k].nth = k
    <3>1. Len(g.stack) = n - 1 /\ \A k \in 1..n - 1 : g.stack[k] = f.stack[k]
        BY <1>2, <1>5
    <3> QED BY <1>6, <2>1, <3>1
  <2> QED BY <1>3, <1>5, <1>6, <2>2 DEF FrameOK, Walking
<1>9. Ordered(g)
  <2>1. t + n = f.met /\ f.met \in Nat /\ \A j \in 1..t : f.taken[j] = f.met - j + 1
    <3>1. Ordered(f) /\ f.met \in Nat
        BY DEF FrameOK, Frame
    <3> QED BY <3>1 DEF Ordered
  <2> DEFINE c == f.met
  <2> HIDE DEF n, t, c
  <2>2. ASSUME NEW j \in 1..t + 1
        PROVE  g.taken[j] = c - j + 1
    <3>1. g.taken[j] = IF j = t + 1 THEN n ELSE f.taken[j]
        BY <1>4, <1>5
    <3>2. CASE j = t + 1
      <4>1. c - (t + 1) + 1 = n
          BY <1>2, <1>4, <2>1 DEF c
      <4> QED BY <3>1, <3>2, <4>1
    <3>3. CASE j # t + 1
      <4>1. j \in 1..t
          BY <1>4, <3>3
      <4> QED BY <2>1, <3>1, <3>3, <4>1 DEF c
    <3> QED BY <3>2, <3>3
  <2>3. Len(g.taken) = t + 1 /\ Len(g.stack) = n - 1 /\ g.met = c
      BY <1>2, <1>4, <1>5 DEF c
  <2>4. (t + 1) + (n - 1) = c
      BY <1>2, <1>4, <2>1 DEF c
  <2> QED BY <2>2, <2>3, <2>4 DEF Ordered
<1> QED BY <1>5, <1>7, <1>8, <1>9 DEF FrameOK

-----------------------------------------------------------------------------
(* The stack of activations. *)
LEMMA TopIs ==
    ASSUME FramesOK
    PROVE  /\ Top = frames[Len(frames)] /\ FrameOK(Top) /\ Top \in Frame
           /\ Rest \in Seq(Frame) /\ Len(Rest) = Len(frames) - 1 /\ Len(frames) \in Nat \ {0}
           /\ \A k \in 1..Len(frames) - 1 : Rest[k] = frames[k]
<1>1. frames \in Seq(Frame) /\ frames # << >>
    BY DEF FramesOK
<1>2. /\ Rest \in Seq(Frame) /\ Len(Rest) = Len(frames) - 1 /\ Len(frames) \in Nat \ {0}
      /\ \A k \in 1..Len(frames) - 1 : Rest[k] = frames[k]
    BY <1>1, FrontIs DEF Rest
<1>3. FrameOK(frames[Len(frames)])
    BY <1>2 DEF FramesOK
<1> QED BY <1>2, <1>3 DEF Top, FrameOK

(* What stands on top of frames that wait. *)
LEMMA Stacked ==
    ASSUME NEW s \in Seq(Frame), NEW g, FrameOK(g),
           \A k \in 1..Len(s) : FrameOK(s[k]) /\ Waiting(s[k]),
           \A k \in 1..Len(s) - 1 : s[k + 1].field = Doing(s[k]).field,
           s # << >> => g.field = Doing(s[Len(s)]).field,
           frames' = Append(s, g)
    PROVE  FramesOK'
<1> DEFINE n == Len(s)
           t == Append(s, g)
<1>1. g \in Frame /\ n \in Nat /\ n = Len(s)
    BY DEF FrameOK
<1>2. /\ t \in Seq(Frame) /\ Len(t) = n + 1 /\ t # << >> /\ t[n + 1] = g
      /\ \A k \in 1..n : t[k] = s[k]
    BY <1>1
<1>3. s # << >> <=> n # 0
    BY <1>1
<1> HIDE DEF n
<1>4. \A k \in 1..n + 1 : FrameOK(t[k])
  <2>1. \A k \in 1..n + 1 : k \in 1..n \/ k = n + 1
      BY <1>1
  <2> QED BY <1>1, <1>2, <2>1
<1>5. \A k \in 1..(n + 1) - 1 : Waiting(t[k]) /\ t[k + 1].field = Doing(t[k]).field
  <2> SUFFICES ASSUME NEW k \in 1..n PROVE Waiting(t[k]) /\ t[k + 1].field = Doing(t[k]).field
      BY <1>1
  <2>1. t[k] = s[k] /\ Waiting(s[k])
      BY <1>1, <1>2
  <2>2. CASE k = n
      BY <1>1, <1>2, <1>3, <2>1, <2>2
  <2>3. CASE k # n
    <3>1. k \in 1..n - 1 /\ k + 1 \in 1..n
        BY <1>1, <2>3
    <3> QED BY <1>1, <1>2, <2>1, <3>1
  <2> QED BY <2>1, <2>2, <2>3
<1> HIDE DEF t
<1>6. frames' = t
    BY DEF t
<1> QED BY <1>2, <1>4, <1>5, <1>6 DEF FramesOK

LEMMA RestWaits ==
    ASSUME FramesOK
    PROVE  /\ \A k \in 1..Len(Rest) : FrameOK(Rest[k]) /\ Waiting(Rest[k])
           /\ \A k \in 1..Len(Rest) - 1 : Rest[k + 1].field = Doing(Rest[k]).field
           /\ Rest # << >> => Top.field = Doing(Rest[Len(Rest)]).field
<1> DEFINE n == Len(frames)
           r == Rest
<1>1. n \in Nat \ {0} /\ r \in Seq(Frame) /\ Len(r) = n - 1 /\ Top = frames[n]
      /\ \A k \in 1..n - 1 : r[k] = frames[k]
    BY TopIs
<1>2. /\ \A k \in 1..n : FrameOK(frames[k])
      /\ \A k \in 1..n - 1 : Waiting(frames[k]) /\ frames[k + 1].field = Doing(frames[k]).field
    BY DEF FramesOK
<1>3. r # << >> => Len(r) # 0
    BY <1>1
<1> HIDE DEF n, r
<1>4. \A k \in 1..Len(r) : k \in 1..n /\ k \in 1..n - 1
    BY <1>1
<1>5. \A k \in 1..Len(r) - 1 : k \in 1..n - 1 /\ k + 1 \in 1..n - 1
    BY <1>1
<1>6. r # << >> => n - 1 \in 1..n - 1 /\ (n - 1) + 1 = n
    BY <1>1, <1>3
<1>7. \A k \in 1..Len(r) : FrameOK(r[k]) /\ Waiting(r[k])
    BY <1>1, <1>2, <1>4
<1>8. \A k \in 1..Len(r) - 1 : r[k + 1].field = Doing(r[k]).field
    BY <1>1, <1>2, <1>5
<1>9. r # << >> => Top.field = Doing(r[Len(r)]).field
    BY <1>1, <1>2, <1>6
<1> QED BY <1>7, <1>8, <1>9 DEF r

LEMMA Updated ==
    ASSUME FramesOK, NEW g, FrameOK(g), g.field = Top.field, frames' = Append(Rest, g)
    PROVE  FramesOK'
BY TopIs, RestWaits, Stacked

LEMMA Called ==
    ASSUME FramesOK, Waiting(Top), NEW g, FrameOK(g), g.field = Doing(Top).field,
           frames' = Append(frames, g)
    PROVE  FramesOK'
<1> DEFINE n == Len(frames)
<1>1. frames \in Seq(Frame) /\ n \in Nat \ {0} /\ Top = frames[n] /\ n = Len(frames)
    BY TopIs DEF FramesOK
<1>2. /\ \A k \in 1..n : FrameOK(frames[k])
      /\ \A k \in 1..n - 1 : Waiting(frames[k]) /\ frames[k + 1].field = Doing(frames[k]).field
    BY DEF FramesOK
<1> HIDE DEF n
<1>3. \A k \in 1..n : k \in 1..n - 1 \/ k = n
    BY <1>1
<1>4. \A k \in 1..n : FrameOK(frames[k]) /\ Waiting(frames[k])
    BY <1>1, <1>2, <1>3
<1> QED BY <1>1, <1>2, <1>4, Stacked

LEMMA Returned ==
    ASSUME FramesOK, Rest # << >>, NEW g, FrameOK(g), g.field = Last(Rest).field,
           frames' = Append(Front(Rest), g)
    PROVE  FramesOK'
<1> DEFINE r == Rest
           m == Len(Rest)
           b == Front(Rest)
<1>1. r \in Seq(Frame) /\ r # << >> /\ m = Len(r)
    BY TopIs
<1>2. /\ b \in Seq(Frame) /\ Len(b) = m - 1 /\ m \in Nat \ {0}
      /\ (\A k \in 1..m - 1 : b[k] = r[k]) /\ Last(r) = r[m]
    BY <1>1, FrontIs
<1>3. /\ \A k \in 1..m : FrameOK(r[k]) /\ Waiting(r[k])
      /\ \A k \in 1..m - 1 : r[k + 1].field = Doing(r[k]).field
    BY RestWaits
<1>4. b # << >> => m - 1 \in 1..m - 1 /\ (m - 1) + 1 = m
  <2>1. b # << >> => Len(b) # 0
      BY <1>2
  <2> HIDE DEF m, b
  <2> QED BY <1>2, <2>1
<1>5. frames' = Append(b, g) /\ g.field = Last(r).field
    OBVIOUS
<1> HIDE DEF m, b, r
<1>6. \A k \in 1..m - 1 : k \in 1..m
    BY <1>2
<1>7. \A k \in 1..Len(b) : FrameOK(b[k]) /\ Waiting(b[k])
    BY <1>2, <1>3, <1>6
<1>8. \A k \in 1..Len(b) - 1 : b[k + 1].field = Doing(b[k]).field
  <2>1. \A k \in 1..Len(b) - 1 : k \in 1..m - 1 /\ k + 1 \in 1..m - 1
      BY <1>2
  <2> QED BY <1>2, <1>3, <2>1
<1>9. b # << >> => g.field = Doing(b[Len(b)]).field
    BY <1>2, <1>3, <1>4, <1>5
<1> QED BY <1>2, <1>5, <1>7, <1>8, <1>9, Stacked

-----------------------------------------------------------------------------
(* The steps of the walk. *)
LEMMA SpendIs ==
    ASSUME nodes \in 0..MaxNodes, NEW kids, Spend(kids) PROVE nodes' \in 0..MaxNodes
BY MaxNodesIsNat DEF Spend

LEMMA TransformIs ==
    ASSUME NEW name \in Branches, NEW cast, NEW field, NEW below,
           Transform(name, cast, field, below)
    PROVE  /\ status' = status
           /\ \E kids \in Rules[name] :
                 Spend(kids) /\ frames' = Append(below, NewFrame(name, kids, cast, field))
BY DEF Transform, NewFrame

LEMMA FramesStay == ASSUME FramesOK, frames' = frames PROVE FramesOK'
BY DEF FramesOK

LEMMA PlanIs ==
    ASSUME FramesOK
    PROVE  /\ Plan.todo = Todo(Top) /\ Fits(Top.name, Top.kids)
           /\ More => Entry = Doing(Top) /\ CallFits(Entry, Top.kids)
                      /\ Top.step <= Len(Todo(Top))
<1>1. FrameOK(Top) /\ Top \in Frame /\ Placed(Top)
    BY TopIs DEF FrameOK
<1>2. /\ Len(Todo(Top)) \in Nat /\ Top.step \in Nat \ {0} /\ Fits(Top.name, Top.kids)
      /\ \A k \in 1..Len(Todo(Top)) : CallFits(Todo(Top)[k], Top.kids)
    BY <1>1, TodoIs
<1>3. Plan.todo = Todo(Top)
    BY DEF Plan, Todo
<1>4. ASSUME More
      PROVE  Entry = Doing(Top) /\ CallFits(Entry, Top.kids) /\ Top.step <= Len(Todo(Top))
  <2>1. Top.step <= Len(Todo(Top)) /\ Entry = Todo(Top)[Top.step]
      BY <1>3, <1>4 DEF More, Entry
  <2>2. Top.step \in 1..Len(Todo(Top))
      BY <1>2, <2>1
  <2> QED BY <1>2, <2>1, <2>2 DEF Doing
<1> QED BY <1>2, <1>3, <1>4

LEMMA VisitNext == ASSUME IInv, VisitChild PROVE IInv'
<1> DEFINE name == Top.kids[Entry.pos]
<1>1. FramesOK /\ More /\ Entry.kind = "visit" /\ Transform(name, Entry.cast, Entry.field, frames)
    BY DEF IInv, VisitChild, AtKind
<1>2. Entry = Doing(Top) /\ CallFits(Entry, Top.kids) /\ Top.step <= Len(Todo(Top))
    BY <1>1, PlanIs
<1>3. name \in Branches /\ IsA(Kind(name), Entry.cast) /\ Entry.cast \in Classes
      /\ Entry.field \in Fields
    BY <1>1, <1>2 DEF CallFits
<1>4. Waiting(Top)
  <2>1. Walking(Top)
      BY <1>1, TopIs DEF FrameOK
  <2> QED BY <1>1, <1>2, <2>1 DEF Walking, Waiting
<1> HIDE DEF name
<1>5. status' = status
      /\ \E kids \in Rules[name] :
            Spend(kids) /\ frames' = Append(frames, NewFrame(name, kids, Entry.cast, Entry.field))
    BY <1>1, <1>3, TransformIs
<1>6. PICK kids \in Rules[name] :
         Spend(kids) /\ frames' = Append(frames, NewFrame(name, kids, Entry.cast, Entry.field))
    BY <1>5
<1> DEFINE g == NewFrame(name, kids, Entry.cast, Entry.field)
<1>7. FrameOK(g) /\ g.field = Entry.field
    BY <1>3, NewFrameOK DEF NewFrame
<1>8. frames' = Append(frames, g)
    BY <1>6
<1> HIDE DEF g
<1>9. FramesOK'
    BY <1>1, <1>2, <1>4, <1>7, <1>8, Called
<1> QED BY <1>5, <1>6, <1>9, SpendIs DEF IInv

LEMMA PassNext == ASSUME IInv, PassOn PROVE IInv'
<1> DEFINE name == Top.kids[Plan.pass]
<1>1. FramesOK /\ Plan.pass # 0 /\ Transform(name, Top.cast, Top.field, Rest)
    BY DEF IInv, PassOn
<1>2. FrameOK(Top) /\ Top \in Frame
    BY <1>1, TopIs
<1>3. name \in Branches /\ IsA(Kind(name), Top.cast) /\ Top.cast \in Classes /\ Top.field \in Fields
  <2>1. Fits(Top.name, Top.kids)
      BY <1>1, PlanIs
  <2>2. name \in Branches /\ IsA(Kind(name), Kind(Top.name))
      BY <1>1, <2>1 DEF Fits, Plan
  <2>3. IsA(Kind(Top.name), Top.cast)
      BY <1>2 DEF FrameOK, Placed
  <2> QED BY <1>2, <2>2, <2>3, IsATransitive DEF Frame
<1> HIDE DEF name
<1>4. status' = status
      /\ \E kids \in Rules[name] :
            Spend(kids) /\ frames' = Append(Rest, NewFrame(name, kids, Top.cast, Top.field))
    BY <1>1, <1>3, TransformIs
<1>5. PICK kids \in Rules[name] :
         Spend(kids) /\ frames' = Append(Rest, NewFrame(name, kids, Top.cast, Top.field))
    BY <1>4
<1> DEFINE g == NewFrame(name, kids, Top.cast, Top.field)
<1>6. FrameOK(g) /\ g.field = Top.field
    BY <1>3, NewFrameOK DEF NewFrame
<1>7. frames' = Append(Rest, g)
    BY <1>5
<1> HIDE DEF g
<1>8. FramesOK'
    BY <1>1, <1>6, <1>7, Updated
<1> QED BY <1>4, <1>5, <1>8, SpendIs DEF IInv

LEMMA StartListNext == ASSUME IInv, StartList PROVE IInv'
<1> DEFINE child == Top.kids[Entry.pos]
<1>1. FramesOK /\ More /\ Entry.kind = "list" /\ Top.list = "none" /\ status' = status
    BY DEF IInv, StartList, AtKind
<1>2. Entry = Doing(Top) /\ CallFits(Entry, Top.kids) /\ Top.step <= Len(Todo(Top))
    BY <1>1, PlanIs
<1>3. child \in Walks /\ FrameOK(Top) /\ ElementOf(Top) = Element(child)
    BY <1>1, <1>2, TopIs DEF CallFits, ElementOf
<1>4. Top.taken = << >>
    BY <1>1, <1>3 DEF FrameOK, Walking
<1>5. ASSUME NEW l \in Walks \cup {"bottom"},
             l \in Walks => l \notin {"params", "args"} /\ Element(l) = Element(child),
             frames' = Append(Rest, [Top EXCEPT !.list = l])
      PROVE  FramesOK'
  <2>1. FrameOK([Top EXCEPT !.list = l]) /\ [Top EXCEPT !.list = l].field = Top.field
      BY <1>1, <1>2, <1>3, <1>4, <1>5, ListChanges
  <2> QED BY <1>1, <1>5, <2>1, Updated
<1>6. CASE child \notin {"params", "args"}
  <2>1. frames' = Append(Rest, [Top EXCEPT !.list = child]) /\ nodes' = nodes
      BY <1>6 DEF StartList, Update
  <2>2. FramesOK'
      BY <1>3, <1>5, <1>6, <2>1
  <2> QED BY <1>1, <2>1, <2>2 DEF IInv
<1>7. CASE child \in {"params", "args"}
  <2>1. PICK kids \in Rules[child] :
           /\ Spend(kids)
           /\ frames' = Append(Rest, [Top EXCEPT !.list = IF kids[1] \in Walks THEN kids[1]
                                                          ELSE "bottom"])
      BY <1>7 DEF StartList, Update
  <2>2. ElementFits(child, kids)
      BY <1>3, ListsFit
  <2>3. kids[1] \in Walks => kids[1] \notin {"params", "args"} /\ Element(kids[1]) = Element(child)
      BY <1>7, <2>2 DEF ElementFits
  <2>4. "bottom" \notin Walks
      BY DEF Walks
  <2> DEFINE l == IF kids[1] \in Walks THEN kids[1] ELSE "bottom"
  <2>5. l \in Walks \cup {"bottom"} /\ frames' = Append(Rest, [Top EXCEPT !.list = l])
        /\ (l \in Walks => l \notin {"params", "args"} /\ Element(l) = Element(child))
      BY <2>1, <2>3, <2>4
  <2> HIDE DEF l
  <2>6. FramesOK'
      BY <1>5, <2>5
  <2> QED BY <1>1, <2>1, <2>6, SpendIs DEF IInv
<1> QED BY <1>6, <1>7

LEMMA FastForwardNext == ASSUME IInv, FastForward PROVE IInv'
<1>1. FramesOK /\ More /\ Entry.kind = "list" /\ Top.list \in Walks /\ status' = status
    BY DEF IInv, FastForward, AtKind
<1>2. Entry = Doing(Top) /\ Top.step <= Len(Todo(Top)) /\ FrameOK(Top) /\ Top \in Frame
    BY <1>1, PlanIs, TopIs
<1>3. Top.list \notin {"params", "args"} /\ Top.taken = << >> /\ Element(Top.list) = ElementOf(Top)
    BY <1>1, <1>2 DEF FrameOK, Walking
<1> DEFINE pushed == [Top EXCEPT !.met = Top.met + 1, !.stack = Push(ElementOf(Top))]
           low == [Top EXCEPT !.list = "bottom"]
           last == [pushed EXCEPT !.list = "bottom"]
<1>4. FrameOK(pushed) /\ pushed.field = Top.field
  <2>1. Push(ElementOf(Top)) =
           Append(Top.stack, [name |-> ElementOf(Top), nth |-> Top.met + 1])
      BY DEF Push
  <2> QED BY <1>1, <1>2, <2>1, ElementPushed
<1>5. "bottom" \notin Walks /\ "bottom" \in Walks \cup {"bottom"}
    BY DEF Walks
<1>6. FrameOK(low) /\ low.field = Top.field
    BY <1>1, <1>2, <1>3, <1>5, ListChanges
<1>7. FrameOK(last) /\ last.field = Top.field
  <2>1. /\ pushed.name = Top.name /\ pushed.kids = Top.kids /\ pushed.step = Top.step
        /\ pushed.taken = Top.taken
      BY <1>2 DEF Frame
  <2> HIDE DEF pushed
  <2>2. pushed.step <= Len(Todo(pushed)) /\ Doing(pushed).kind = "list"
      BY <1>1, <1>2, <2>1, SameBranch
  <2> QED BY <1>3, <1>4, <1>5, <2>1, <2>2, ListChanges
<1>8. PICK kids \in Rules[Top.list] :
         /\ Spend(kids)
         /\ IF Len(kids) = Wide(Top.list)
            THEN Update([Top EXCEPT !.met = Met(kids), !.stack = Push(Last(kids))])
            ELSE Update([Top EXCEPT !.met = Met(kids), !.list = "bottom",
                                    !.stack = IF Top.list \in {"local-declarations",
                                                               "statement-list"}
                                              THEN @ ELSE Push(kids[1])])
    BY DEF FastForward
<1>9. ElementFits(Top.list, kids)
    BY <1>1, ListsFit
<1>10. \E g \in {pushed, low, last} : frames' = Append(Rest, g)
  <2>1. CASE Len(kids) = Wide(Top.list)
    <3>1. Last(kids) = ElementOf(Top) /\ Met(kids) = Top.met + 1
        BY <1>3, <1>9, <2>1 DEF ElementFits, Met
    <3> QED BY <1>8, <2>1, <3>1 DEF Update
  <2>2. CASE Len(kids) # Wide(Top.list) /\ Top.list \in {"local-declarations", "statement-list"}
    <3>1. Met(kids) = Top.met
        BY <1>3, <1>9, <2>2 DEF ElementFits, Met
    <3>2. frames' = Append(Rest, [Top EXCEPT !.met = Top.met, !.list = "bottom", !.stack = Top.stack])
        BY <1>8, <2>2, <3>1 DEF Update
    <3>3. [Top EXCEPT !.met = Top.met, !.list = "bottom", !.stack = Top.stack] = low
        BY <1>2 DEF Frame
    <3> QED BY <3>2, <3>3
  <2>3. CASE Len(kids) # Wide(Top.list) /\ Top.list \notin {"local-declarations", "statement-list"}
    <3>1. kids[1] = ElementOf(Top) /\ Met(kids) = Top.met + 1
        BY <1>3, <1>9, <2>3 DEF ElementFits, Met
    <3>2. frames' = Append(Rest, [Top EXCEPT !.met = Top.met + 1, !.list = "bottom",
                                             !.stack = Push(ElementOf(Top))])
        BY <1>8, <2>3, <3>1 DEF Update
    <3>3. [Top EXCEPT !.met = Top.met + 1, !.list = "bottom", !.stack = Push(ElementOf(Top))] = last
        BY <1>2 DEF Frame
    <3> QED BY <3>2, <3>3
  <2> QED BY <2>1, <2>2, <2>3
<1> HIDE DEF pushed, low, last
<1>11. FramesOK'
    BY <1>1, <1>4, <1>6, <1>7, <1>10, Updated
<1> QED BY <1>1, <1>8, <1>11, SpendIs DEF IInv

LEMMA VisitElementNext == ASSUME IInv, VisitElement PROVE IInv'
<1> DEFINE name == Last(Top.stack).name
<1>1. /\ FramesOK /\ More /\ Entry.kind = "list" /\ Top.list = "bottom" /\ Top.stack # << >>
      /\ Transform(name, Entry.cast, Entry.field, frames)
    BY DEF IInv, VisitElement, AtKind
<1>2. /\ Entry = Doing(Top) /\ CallFits(Entry, Top.kids) /\ Top.step <= Len(Todo(Top))
      /\ FrameOK(Top) /\ Top \in Frame
    BY <1>1, PlanIs, TopIs
<1>3. name = ElementOf(Top)
  <2> DEFINE T == [name : DOMAIN Rules, nth : Nat]
             n == Len(Top.stack)
  <2>1. Top.stack \in Seq(T)
      BY <1>2 DEF Frame
  <2> HIDE DEF T
  <2>2. Last(Top.stack) = Top.stack[n] /\ n \in Nat \ {0}
      BY <1>1, <2>1, FrontIs
  <2>3. \A k \in 1..n : Top.stack[k].name = ElementOf(Top)
      BY <1>2 DEF FrameOK, Walking
  <2> HIDE DEF n
  <2> QED BY <2>2, <2>3
<1>4. name \in Branches /\ IsA(Kind(name), Entry.cast) /\ Entry.cast \in Classes
      /\ Entry.field \in Fields
    BY <1>1, <1>2, <1>3, NamesAreRight DEF CallFits, ElementOf
<1>5. Waiting(Top)
    BY <1>1, <1>2 DEF Waiting
<1> HIDE DEF name
<1>6. status' = status
      /\ \E kids \in Rules[name] :
            Spend(kids) /\ frames' = Append(frames, NewFrame(name, kids, Entry.cast, Entry.field))
    BY <1>1, <1>4, TransformIs
<1>7. PICK kids \in Rules[name] :
         Spend(kids) /\ frames' = Append(frames, NewFrame(name, kids, Entry.cast, Entry.field))
    BY <1>6
<1> DEFINE g == NewFrame(name, kids, Entry.cast, Entry.field)
<1>8. FrameOK(g) /\ g.field = Entry.field
    BY <1>4, NewFrameOK DEF NewFrame
<1>9. frames' = Append(frames, g)
    BY <1>7
<1> HIDE DEF g
<1>10. FramesOK'
    BY <1>1, <1>2, <1>5, <1>8, <1>9, Called
<1> QED BY <1>6, <1>7, <1>10, SpendIs DEF IInv

LEMMA EndListNext == ASSUME IInv, EndList PROVE IInv'
<1> DEFINE g == [Top EXCEPT !.step = Top.step + 1, !.set = Top.set \cup {Doing(Top).field},
                            !.list = "none", !.met = 0, !.taken = << >>]
<1>1. FramesOK /\ More /\ Top.stack = << >> /\ status' = status /\ nodes' = nodes
    BY DEF IInv, EndList, AtKind
<1>2. Entry = Doing(Top) /\ Top.step <= Len(Todo(Top)) /\ FrameOK(Top)
    BY <1>1, PlanIs, TopIs
<1>3. frames' = Append(Rest, g)
    BY <1>2 DEF EndList, Update
<1>4. FrameOK(g) /\ g.field = Top.field
    BY <1>1, <1>2, StepDone
<1> HIDE DEF g
<1>5. FramesOK'
    BY <1>1, <1>3, <1>4, Updated
<1> QED BY <1>1, <1>5 DEF IInv

LEMMA ReturnNext == ASSUME IInv, Return PROVE IInv'
<1>1. FramesOK /\ nodes' = nodes
    BY DEF IInv, Return
<1>4. ~Misshapen
  <2> SUFFICES ASSUME Top.name = "var-declaration" PROVE Len(Top.kids) \in {3, 6}
      BY DEF Misshapen
  <2>1. Top.kids \in Rules["var-declaration"]
      BY <1>1, TopIs DEF FrameOK, Placed
  <2>2. CASE Top.kids = <<"type-specifier", "ID", ";">>
      BY <2>2
  <2>3. CASE Top.kids = <<"type-specifier", "ID", "[", "NUM", "]", ";">>
      BY <2>3
  <2> QED BY <2>1, <2>2, <2>3, RulesAre
<1>2. CASE Rest = << >>
  <2>1. frames' = frames /\ status' = "done"
      BY <1>2, <1>4 DEF Return
  <2> QED BY <1>1, <2>1, FramesStay DEF IInv
<1>3. CASE Rest # << >>
  <2> DEFINE f == Last(Rest)
             done == [f EXCEPT !.step = f.step + 1, !.set = f.set \cup {Doing(f).field},
                               !.list = "none", !.met = 0, !.taken = << >>]
             next == [f EXCEPT !.taken = Append(f.taken, Last(f.stack).nth),
                               !.stack = Front(f.stack)]
  <2>1. f = Rest[Len(Rest)] /\ Len(Rest) \in Nat \ {0} /\ Rest \in Seq(Frame)
      BY <1>1, <1>3, TopIs, FrontIs
  <2>2. FrameOK(f) /\ Waiting(f) /\ Top.field = Doing(f).field /\ f \in Frame
    <3>1. Len(Rest) \in 1..Len(Rest)
        BY <2>1
    <3> QED BY <1>1, <1>3, <2>1, <3>1, RestWaits DEF FrameOK
  <2>3. status' = status /\
        frames' = Append(Front(Rest),
                      IF f.list = "none" THEN [f EXCEPT !.step = @ + 1, !.set = @ \cup {Top.field}]
                      ELSE [f EXCEPT !.taken = Append(@, Last(f.stack).nth), !.stack = Front(@)])
      BY <1>3, <1>4 DEF Return
  <2> HIDE DEF f
  <2>4. CASE f.list = "none"
    <3>1. f.stack = << >> /\ f.taken = << >> /\ f.met = 0 /\ f.step <= Len(Todo(f))
      <4>1. f.stack = << >> /\ f.taken = << >> /\ f.step <= Len(Todo(f)) /\ Ordered(f)
          BY <2>2, <2>4 DEF FrameOK, Walking, Waiting
      <4> QED BY <4>1 DEF Ordered
    <3>2. [f EXCEPT !.step = f.step + 1, !.set = f.set \cup {Top.field}] = done
        BY <2>2, <2>4, <3>1 DEF Frame
    <3>3. frames' = Append(Front(Rest), done)
        BY <2>3, <2>4, <3>2
    <3>4. FrameOK(done) /\ done.field = f.field
        BY <2>2, <3>1, StepDone
    <3> HIDE DEF done
    <3>5. FramesOK'
        BY <1>1, <1>3, <3>3, <3>4, Returned DEF f
    <3> QED BY <1>1, <2>3, <3>5 DEF IInv
  <2>5. CASE f.list # "none"
    <3>1. f.list = "bottom" /\ f.stack # << >>
        BY <2>2, <2>5 DEF Waiting
    <3>2. frames' = Append(Front(Rest), next)
        BY <2>3, <2>5
    <3>3. FrameOK(next) /\ next.field = f.field
        BY <2>2, <3>1, ElementReturned
    <3> HIDE DEF next
    <3>4. FramesOK'
        BY <1>1, <1>3, <3>2, <3>3, Returned DEF f
    <3> QED BY <1>1, <2>3, <3>4 DEF IInv
  <2> QED BY <2>4, <2>5
<1> QED BY <1>2, <1>3

LEMMA InitIInv == Init => IInv
<1> SUFFICES ASSUME Init PROVE IInv
    OBVIOUS
<1> DEFINE g == NewFrame("program", <<"declaration-list">>, "syntax_program", "root")
<1>1. frames = <<g>> /\ status = "run" /\ nodes \in 0..MaxNodes
    BY MaxNodesIsNat DEF Init, NewFrame
<1>2. FrameOK(g)
  <2>1. "syntax_program" \in Classes /\ "root" \in Fields /\ IsA(Kind("program"), "syntax_program")
      BY Classified DEF Classes, Fields
  <2> QED BY <2>1, NamesAreRight, NewFrameOK
<1> HIDE DEF g
<1>3. frames \in Seq(Frame) /\ frames # << >> /\ Len(frames) = 1 /\ frames[1] = g
    BY <1>1, <1>2 DEF FrameOK
<1>4. FramesOK
    BY <1>2, <1>3 DEF FramesOK
<1> QED BY <1>1, <1>4 DEF IInv

LEMMA SpecIInv == Spec => []IInv
<1>1. ASSUME IInv, [Next]_vars PROVE IInv'
  <2>1. CASE Refuse \/ Unreadable \/ Stopped \/ UNCHANGED vars
    <3>1. frames' = frames /\ nodes' = nodes /\ status' \in {status, "error", "abort"}
        BY <2>1 DEF Refuse, Unreadable, Stopped, vars
    <3> QED BY <1>1, <3>1, FramesStay DEF IInv
  <2> QED BY <1>1, <2>1, VisitNext, PassNext, StartListNext, FastForwardNext, VisitElementNext,
             EndListNext, ReturnNext DEF Next
<1> QED BY InitIInv, <1>1, PTL DEF Spec

-----------------------------------------------------------------------------
(* The activations of transform_node_iter are well-formed: each at a rule  *)
(* of its nonterminal, none behind the last of its calls.                  *)
THEOREM TypesAreRight == Spec => []TypeOK
<1>1. IInv => TypeOK
    BY DEF IInv, FramesOK, FrameOK, Placed, TypeOK, Todo
<1> QED BY SpecIInv, <1>1, PTL

(* No static_cast of syntax_tree.cpp is to a class its object has not, in  *)
(* a tree of whatever depth.                                               *)
THEOREM NoCastIsWrong == Spec => []CastsAreSound
<1>1. ASSUME NEW f, FrameOK(f), Branch(f.name, f.kids).pass = 0
      PROVE  IsA(Branch(f.name, f.kids).class, f.cast)
  <2>1. IsA(Branch(f.name, f.kids).class, Kind(f.name))
      BY <1>1, BranchesFit DEF FrameOK, Placed, Fits
  <2> QED BY <1>1, <2>1, IsATransitive DEF FrameOK, Placed
<1>2. IInv => CastsAreSound
    BY <1>1 DEF IInv, FramesOK, CastsAreSound
<1> QED BY SpecIInv, <1>2, PTL

(* transform_node_iter never reaches its PANIC. *)
THEOREM ThereIsNoPanic == Spec => []NeverPanics
<1>1. IInv => NeverPanics
    BY DEF IInv, NeverPanics
<1> QED BY SpecIInv, <1>1, PTL

(* The vectors filled from the std::stack are in source order and complete *)
(* for a list of whatever length.                                          *)
THEOREM ListsAreInOrder == Spec => []ListsKeepSourceOrder
<1>1. IInv => ListsKeepSourceOrder
    BY DEF IInv, FramesOK, FrameOK, Ordered, ListsKeepSourceOrder
<1> QED BY SpecIInv, <1>1, PTL

(* No node is returned without the children that builder.cpp follows.      *)
THEOREM NodesAreWhole == Spec => []ReturnsWholeNodes
<1>1. ASSUME IInv, Plan.pass = 0, Top.step = Len(Plan.todo) + 1
      PROVE  Followed(Plan.class) \subseteq Top.set
  <2>1. FramesOK /\ FrameOK(Top) /\ Plan.todo = Todo(Top) /\ Fits(Top.name, Top.kids)
      BY <1>1, TopIs, PlanIs DEF IInv
  <2>2. \A field \in Followed(Plan.class) : \E k \in 1..Len(Todo(Top)) : Todo(Top)[k].field = field
      BY <1>1, <2>1 DEF Fits, Plan, Todo
  <2>3. Len(Todo(Top)) \in Nat
      BY <2>1 DEF Fits, Todo
  <2>4. \A k \in 1..Len(Todo(Top)) : Todo(Top)[k].field \in Top.set
    <3>1. Top.step - 1 = Len(Todo(Top))
        BY <1>1, <2>1, <2>3
    <3> QED BY <2>1, <3>1 DEF FrameOK, Filled
  <2> QED BY <2>2, <2>4
<1>2. IInv => ReturnsWholeNodes
    BY <1>1 DEF ReturnsWholeNodes
<1> QED BY SpecIInv, <1>2, PTL
=============================================================================
