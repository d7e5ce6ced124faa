------------------------------ MODULE ExprGen ------------------------------
(***************************************************************************)
(* Code generation for expressions (cminusc/builder.cpp).  A visit hands   *)
(* its result to the visit that called it through the global value_stack;  *)
(* the statements take the result of a whole expression from it.           *)
(*                                                                         *)
(* As in StmtGen.tla the C++ call stack is the sequence frames and the     *)
(* syntax tree is chosen on the way down.  Values are abstracted to their  *)
(* LLVM types, and instructions to the types of their operands.            *)
(***************************************************************************)
EXTENDS Naturals, Sequences

CONSTANTS
    Symbols,  \* what the names in scope are bound to
    Strict,   \* only programs that keep the rules of docs/cminus.md on the kinds
              \* of names, arguments and results, and whose assignments are
              \* expression statements
    MaxNodes  \* bound on the nodes that branch, for model checking

(* What declared a name, whether it is an array, and, for a function, what *)
(* it takes and returns.                                                   *)
Symbol == [decl    : {"variable", "parameter", "function"},
           array   : BOOLEAN,
           params  : Seq({"i32", "i32*"}),
           returns : {"i32", "void"}]

ASSUME SymbolsAreSymbols == Symbols \subseteq Symbol
ASSUME StrictIsBoolean == Strict \in BOOLEAN
ASSUME NodesAreCounted == MaxNodes \in Nat

(* scope.find() found nothing. *)
NoSymbol == [decl |-> "nothing", array |-> FALSE, params |-> << >>,
             returns |-> "void"]

(* A bound name is a pointer to this. *)
Pointee(sym) ==
    CASE sym.decl = "function"                -> "function"
      [] sym.decl # "function" /\ ~sym.array  -> "i32"
      [] sym.decl = "parameter" /\ sym.array  -> "i32*"
      [] sym.decl = "variable" /\ sym.array   -> "array"
      [] OTHER                                -> "nothing"

(* Its name contains "fun_param": visit(syntax_param) calls every alloca   *)
(* fun_param_ and a number; the others have no name or an identifier, and  *)
(* no identifier has an underscore.  A mutant names scalars only.          *)
TaggedIfScalar(sym) == sym.decl = "parameter" /\ ~sym.array
Tagged(sym) == sym.decl = "parameter"

(* A value is abstracted to its LLVM type; of is no part of it in the      *)
(* code, but the place of the child whose visit pushed it for its parent,  *)
(* an argument with the number of those before it.                         *)
Type == {"i32", "i1", "i32*", "void", "function"}
Place == {"expression", "subscript", "additive_l", "additive_r",
          "additive", "term", "factor", "args"}
Value == [ty : Type, of : Place \X Nat]
NoValue == [ty |-> "no type", of |-> <<"no place", 0>>]

VARIABLES
    frames,   \* the activation records of the running visits
    values,   \* value_stack
    emitted,  \* the instructions created by the last step
    status,   \* run, or how the compiler died
    nodes,    \* nodes left for the program to branch with
    nested,   \* the program has an assignment inside an expression
    mixed     \* under Strict, it has a comparison as a number or a number as
              \* a condition

program == <<nodes, nested, mixed>>
vars == <<frames, values, emitted, status, program>>

(* at says which child the visit is at, back whether that child has been   *)
(* visited.  base, want and the count of arguments are no variables of the *)
(* code: the height of value_stack when the visit began, and, under        *)
(* Strict, the role the node plays for its parent.                         *)
Frame == [kind  : {"expression_stmt", "condition", "return", "assign", "simple",
                   "additive", "term", "var", "call"},
          at    : Place,
          back  : BOOLEAN,
          base  : Nat,
          want  : {"stmt", "cond", "i32", "i32*"},
          two   : BOOLEAN,                     \* the node has two operands
          held  : Value \cup {NoValue},        \* the popped first operand
          argc  : Nat,                         \* node.args.size()
          args  : Seq(Value),                  \* call_args
          sym   : Symbols \cup {NoSymbol}]     \* what the node's name is bound to

(* An operand is a value, or it is known from a name or is a constant. *)
Known(ty) == [ty |-> ty, of |-> <<"known", 0>>]
Operand == Value \cup {Known(ty) : ty \in Type \cup {"array"}}

TypeOK ==
    /\ frames \in Seq(Frame)
    /\ values \in Seq(Value)
    /\ \A i \in emitted : i.operands \in Seq(Operand)
    /\ status \in {"run", "null", "underflow"}
    /\ nodes \in 0..MaxNodes
    /\ nested \in BOOLEAN
    /\ mixed \in BOOLEAN

-----------------------------------------------------------------------------
Top == frames[Len(frames)]
Idle == status = "run" /\ frames = << >>

(* The child the running visit is about to accept(), by the grammar. *)
AtChild(ats) == status = "run" /\ frames # << >> /\ ~Top.back /\ Top.at \in ats
AtExpression ==
    /\ AtChild({"expression", "subscript", "args"})
    /\ Top.kind = "call" => Len(Top.args) < Top.argc
AtAdditive == AtChild({"additive_l", "additive_r", "additive"})
AtTerm == AtChild({"term"})
AtFactor == AtChild({"factor"})

(* A child of the running visit has been visited. *)
Back(kind, at) == status = "run" /\ frames # << >> /\ Top.back
                  /\ Top.kind = kind /\ Top.at = at

(* The role the next child of f plays, when it matters. *)
ChildRole(f) ==
    IF f.kind = "expression_stmt" \/ ~Strict THEN "stmt"
    ELSE
    CASE f.kind = "condition" -> "cond"
      [] f.kind = "call" /\ Len(f.args) < Len(f.sym.params)
            -> f.sym.params[Len(f.args) + 1]
      [] f.kind \in {"simple", "additive", "term"} /\ ~f.two -> f.want
      [] OTHER -> "i32"

Role == ChildRole(Top)

(* A visit begins; cost is what it takes from the nodes left. *)
Enter(kind, at, role, two, sym, argc, cost) ==
    /\ cost <= nodes
    /\ nodes' = nodes - cost
    /\ frames' = Append(frames,
           [kind |-> kind, at |-> at, back |-> FALSE, base |-> Len(values),
            want |-> role, two |-> two, held |-> NoValue, argc |-> argc,
            args |-> << >>, sym |-> sym])
    /\ emitted' = {}
    /\ UNCHANGED <<values, status>>

(* The running visit goes on to its next child. *)
GoneOn(frame) == [frames EXCEPT ![Len(frames)] = [frame EXCEPT !.back = FALSE]]

(* A visit is over: its caller, if it has one, goes on. *)
Resumed(fs) == IF fs = << >> THEN fs ELSE [fs EXCEPT ![Len(fs)].back = TRUE]
Returned == Resumed(SubSeq(frames, 1, Len(frames) - 1))

(* value_stack without its k topmost values; the topmost one. *)
Popped(k) == SubSeq(values, 1, Len(values) - k)
TopValue == values[Len(values)]

(* The value of a visit, as its caller f gets it. *)
PlaceAt(f) == <<f.at, Len(f.args)>>
Handed(ty, f) == [ty |-> ty, of |-> PlaceAt(f)]
Result(ty) == Handed(ty, frames[Len(frames) - 1])

(* An instruction, with the operands it should have: the types are those   *)
(* docs/cminus.md and LLVM ask for, the places those of the syntax.        *)
Instr(op, operands, like) == [op |-> op, operands |-> operands, like |-> like]
Wanted(ty, at) == [ty |-> ty, of |-> <<at, 0>>]

Load(ty) ==
    Instr("load", <<Known(ty)>>, <<Known(IF ty = "function" THEN "i32" ELSE ty)>>)

(* The address of an element: through the loaded pointer if the name says  *)
(* that it is a parameter, in the allocated array otherwise.               *)
ElementAddress(sym, index, like) ==
    {Instr("gep", <<Known(Pointee(sym)), index>>,
           <<Known(IF Tagged(sym) THEN "i32*" ELSE "array"), like>>)}
    \cup (IF Tagged(sym) THEN {Load(Pointee(sym))} ELSE {})

HasElements(sym) == Pointee(sym) \in {"array", "i32*"}

(* How many values the running visit pops next.  A mutant has expression   *)
(* statements pop theirs.                                                  *)
PopsEverywhere(f) ==
    IF ~f.back THEN 0
    ELSE IF f.kind = "simple" /\ f.two THEN IF f.at = "additive_l" THEN 0 ELSE 2
    ELSE 1
Pops(f) ==
    IF ~f.back \/ f.kind = "expression_stmt" THEN 0
    ELSE IF f.kind = "simple" /\ f.two THEN IF f.at = "additive_l" THEN 0 ELSE 2
    ELSE 1

Enough == Len(values) >= Pops(Top)

-----------------------------------------------------------------------------
(* The statements that visit an expression; only the last two take its     *)
(* value.                                                                  *)
VisitStatement(kind) ==
    /\ Idle
    /\ Enter(kind, "expression", "stmt", FALSE, NoSymbol, 0, 1)
    /\ UNCHANGED <<nested, mixed>>

LeaveExpressionStmt ==
    /\ Back("expression_stmt", "expression")
    /\ frames' = Returned
    /\ emitted' = {}
    /\ UNCHANGED <<values, status, program>>

(* CreateCondBr of selection_stmt and iteration_stmt.  A mutant clears the *)
(* stack at the end of the condition.                                      *)
LeaveConditionClearing ==
    /\ Back("condition", "expression") /\ Enough
    /\ emitted' = {Instr("br", <<TopValue>>, <<Wanted("i1", "expression")>>)}
    /\ values' = << >>
    /\ frames' = Returned
    /\ UNCHANGED <<status, program>>
LeaveCondition ==
    /\ Back("condition", "expression") /\ Enough
    /\ emitted' = {Instr("br", <<TopValue>>, <<Wanted("i1", "expression")>>)}
    /\ values' = Popped(1)
    /\ frames' = Returned
    /\ UNCHANGED <<status, program>>

LeaveReturn ==
    /\ Back("return", "expression") /\ Enough
    /\ emitted' = {Instr("ret", <<TopValue>>, <<Wanted("i32", "expression")>>)}
    /\ values' = Popped(1)
    /\ frames' = Returned
    /\ UNCHANGED <<status, program>>

(* visit(syntax_assign_expression): the right-hand side first. *)
VisitAssign(sym, subscripted) ==
    /\ AtExpression \/ AtFactor
    /\ Strict => /\ Top.kind = "expression_stmt"
                 /\ sym # NoSymbol
                 /\ sym.decl # "function"
                 /\ subscripted <=> HasElements(sym)
    /\ Enter("assign", "expression", Role, subscripted, sym, 0, 1)
    /\ nested' = (nested \/ Top.kind # "expression_stmt")
    /\ UNCHANGED mixed

AssignSubscript ==
    /\ Back("assign", "expression") /\ Enough
    /\ Top.two
    /\ values' = Popped(1)
    /\ frames' = GoneOn([Top EXCEPT !.held = TopValue, !.at = "subscript"])
    /\ emitted' = {}
    /\ UNCHANGED <<status, program>>

(* The store is the end of the visit: nothing is pushed. *)
LeaveAssign ==
    /\ \/ Back("assign", "subscript")
       \/ Back("assign", "expression") /\ ~Top.two
    /\ Enough
    /\ Top.sym # NoSymbol
    /\ values' = Popped(1)
    /\ emitted' =
           IF Top.two
           THEN ElementAddress(Top.sym, TopValue, Wanted("i32", "subscript"))
                \cup {Instr("store", <<Top.held>>, <<Wanted("i32", "expression")>>)}
           ELSE {Instr("store", <<TopValue>>, <<Wanted(Pointee(Top.sym), "expression")>>)}
    /\ frames' = Returned
    /\ UNCHANGED <<status, program>>

(* visit(syntax_simple_expression), as an expression or in parentheses:    *)
(* both operands are on the stack when they are popped.                    *)
VisitSimple(two) ==
    /\ AtExpression \/ AtFactor
    /\ Strict /\ two => Role # "i32*"
    /\ Enter("simple", "additive_l", Role, two, NoSymbol, 0,
             (IF two THEN 1 ELSE 0) + (IF AtFactor THEN 1 ELSE 0))
    /\ mixed' = (mixed \/ (two /\ Role = "i32"))
    /\ UNCHANGED nested

SimpleRight ==
    /\ Back("simple", "additive_l") /\ Enough
    /\ Top.two
    /\ frames' = GoneOn([Top EXCEPT !.at = "additive_r"])
    /\ emitted' = {}
    /\ UNCHANGED <<values, status, program>>

(* A mutant takes the value popped first for the left operand. *)
LeaveSimpleSwapped ==
    /\ \/ Back("simple", "additive_r")
       \/ Back("simple", "additive_l") /\ ~Top.two
    /\ Enough
    /\ IF Top.two
       THEN /\ emitted' = {Instr("icmp", <<TopValue, values[Len(values) - 1]>>,
                                 <<Wanted("i32", "additive_l"), Wanted("i32", "additive_r")>>)}
            /\ values' = Append(Popped(2), Result("i1"))
       ELSE /\ emitted' = {}
            /\ values' = Append(Popped(1), Result(TopValue.ty))
    /\ frames' = Returned
    /\ UNCHANGED <<status, program>>
LeaveSimple ==
    /\ \/ Back("simple", "additive_r")
       \/ Back("simple", "additive_l") /\ ~Top.two
    /\ Enough
    /\ IF Top.two
       THEN /\ emitted' = {Instr("icmp", <<values[Len(values) - 1], TopValue>>,
                                 <<Wanted("i32", "additive_l"), Wanted("i32", "additive_r")>>)}
            /\ values' = Append(Popped(2), Result("i1"))
       ELSE /\ emitted' = {}
            /\ values' = Append(Popped(1), Result(TopValue.ty))
    /\ frames' = Returned
    /\ UNCHANGED <<status, program>>

(* visit(syntax_additive_expression) and visit(syntax_term): the first     *)
(* child visited, the left operand or the factor, is popped before the     *)
(* second child is visited.                                                *)
VisitAdditive(two) ==
    /\ AtAdditive
    /\ Strict /\ two => Role # "i32*"
    /\ Enter("additive", IF two THEN "additive" ELSE "term", Role, two, NoSymbol, 0,
             IF two THEN 1 ELSE 0)
    /\ mixed' = (mixed \/ (two /\ Role = "cond"))
    /\ UNCHANGED nested

VisitTerm(two) ==
    /\ AtTerm
    /\ Strict /\ two => Role # "i32*"
    /\ Enter("term", "factor", Role, two, NoSymbol, 0, IF two THEN 1 ELSE 0)
    /\ mixed' = (mixed \/ (two /\ Role = "cond"))
    /\ UNCHANGED nested

SecondOperandNotPopped ==   \* a mutant: top() for pop()
    /\ Back("additive", "additive") \/ (Back("term", "factor") /\ Top.two)
    /\ Enough
    /\ frames' = GoneOn([Top EXCEPT !.held = TopValue, !.at = "term"])
    /\ emitted' = {}
    /\ UNCHANGED <<values, status, program>>
SecondOperand ==
    /\ Back("additive", "additive") \/ (Back("term", "factor") /\ Top.two)
    /\ Enough
    /\ values' = Popped(1)
    /\ frames' = GoneOn([Top EXCEPT !.held = TopValue, !.at = "term"])
    /\ emitted' = {}
    /\ UNCHANGED <<status, program>>

(* A mutant leaves result unset where there is only one operand. *)
LeaveArithmeticUnset ==
    /\ \/ Back("additive", "term")
       \/ Back("term", "term")
       \/ Back("term", "factor") /\ ~Top.two
    /\ Enough
    /\ emitted' = {}
    /\ values' = Append(Popped(1), Result(Top.held.ty))
    /\ frames' = Returned
    /\ UNCHANGED <<status, program>>
LeaveArithmetic ==
    /\ \/ Back("additive", "term")
       \/ Back("term", "term")
       \/ Back("term", "factor") /\ ~Top.two
    /\ Enough
    /\ LET left == IF Top.kind = "additive" THEN Top.held ELSE TopValue
           right == IF Top.kind = "additive" THEN TopValue ELSE Top.held
           like == IF Top.kind = "additive"
                   THEN <<Wanted("i32", "additive"), Wanted("i32", "term")>>
                   ELSE <<Wanted("i32", "term"), Wanted("i32", "factor")>>
       IN  IF Top.two
           THEN /\ emitted' = {Instr("arith", <<left, right>>, like)}
                /\ values' = Append(Popped(1), Result(left.ty))
           ELSE /\ emitted' = {}
                /\ values' = Append(Popped(1), Result(TopValue.ty))
    /\ frames' = Returned
    /\ UNCHANGED <<status, program>>

(* The factors that visit nothing push their value and return at once. *)
Leaf(instrs, ty) ==
    /\ values' = Append(values, Handed(ty, Top))
    /\ emitted' = instrs
    /\ frames' = Resumed(frames)
    /\ mixed' = (mixed \/ Role = "cond")
    /\ UNCHANGED <<status, nodes, nested>>

VisitNum ==
    /\ AtFactor
    /\ Strict => Role # "i32*"
    /\ Leaf({}, "i32")

(* visit(syntax_var).  A variable that is no array is loaded, whatever     *)
(* subscript it has; an array without a subscript is its address.          *)
VisitScalar(sym, subscripted) ==
    /\ AtFactor
    /\ ~HasElements(sym)
    /\ Strict => Role # "i32*" /\ ~subscripted /\ sym.decl # "function"
    /\ Leaf({Load(Pointee(sym))}, Pointee(sym))

VisitArrayName(sym) ==
    /\ AtFactor
    /\ HasElements(sym)
    /\ Strict => Role \in {"i32*", "stmt"}
    /\ Leaf(ElementAddress(sym, Known("i32"), Known("i32")), "i32*")

VisitElement(sym) ==
    /\ AtFactor
    /\ HasElements(sym)
    /\ Strict => Role # "i32*"
    /\ Enter("var", "subscript", Role, TRUE, sym, 0, 1)
    /\ mixed' = (mixed \/ Role = "cond")
    /\ UNCHANGED nested

LeaveElement ==
    /\ Back("var", "subscript") /\ Enough
    /\ emitted' = ElementAddress(Top.sym, TopValue, Wanted("i32", "subscript"))
                  \cup {Load("i32")}
    /\ values' = Append(Popped(1), Result("i32"))
    /\ frames' = Returned
    /\ UNCHANGED <<status, program>>

(* visit(syntax_call): every argument is popped before the next is         *)
(* visited; the function is looked up after them.                          *)
VisitCall(sym, argc) ==
    /\ AtFactor
    /\ Strict => /\ sym # NoSymbol
                 /\ sym.decl = "function"
                 /\ argc = Len(sym.params)
                 /\ Role # "i32*"
                 /\ sym.returns = "void" => Role = "stmt"
    /\ Enter("call", "args", Role, FALSE, sym, argc, 1 + argc)
    /\ mixed' = (mixed \/ Role = "cond")
    /\ UNCHANGED nested

CallArgument ==
    /\ Back("call", "args") /\ Enough
    /\ values' = Popped(1)
    /\ frames' = GoneOn([Top EXCEPT !.args = Append(@, TopValue)])
    /\ emitted' = {}
    /\ UNCHANGED <<status, program>>

Parameters(sym) ==
    [n \in 1..Len(sym.params) |-> [ty |-> sym.params[n], of |-> <<"args", n - 1>>]]

AtCall == AtChild({"args"}) /\ Len(Top.args) = Top.argc

LeaveCall ==
    /\ AtCall
    /\ Top.sym # NoSymbol
    /\ Top.sym.decl = "function"
    /\ emitted' = {Instr("call", Top.args, Parameters(Top.sym))}
    /\ values' = Append(values, Result(Top.sym.returns))
    /\ frames' = Returned
    /\ UNCHANGED <<status, program>>

-----------------------------------------------------------------------------
(* How the compiler dies: nothing checks what find() and dyn_cast return,  *)
(* and pop() takes the back of an empty vector.                            *)
Die(how) ==
    /\ status' = how
    /\ emitted' = {}
    /\ UNCHANGED <<frames, values, program>>

NullDereference ==
    /\ \/ AtFactor /\ ~Strict   \* visit(syntax_var) with an undeclared name
       \/ /\ Back("assign", IF Top.two THEN "subscript" ELSE "expression") /\ Enough
          /\ Top.sym = NoSymbol
       \/ /\ AtCall
          /\ Top.sym = NoSymbol \/ Top.sym.decl # "function"
    /\ Die("null")

PopEmpty ==
    /\ status = "run" /\ frames # << >> /\ ~Enough
    /\ Die("underflow")

(* The program has no more statements, or the compiler is dead. *)
Stopped ==
    /\ status # "run" \/ (Idle /\ nodes = 0)
    /\ UNCHANGED vars

Init ==
    /\ frames = << >>
    /\ values = << >>
    /\ emitted = {}
    /\ status = "run"
    /\ nodes = MaxNodes
    /\ nested = FALSE
    /\ mixed = FALSE

Next ==
    \/ \E kind \in {"expression_stmt", "condition", "return"} : VisitStatement(kind)
    \/ LeaveExpressionStmt
    \/ LeaveCondition
    \/ LeaveReturn
    \/ \E sym \in Symbols \cup {NoSymbol}, subscripted \in BOOLEAN :
          VisitAssign(sym, subscripted)
    \/ AssignSubscript
    \/ LeaveAssign
    \/ \E two \in BOOLEAN : VisitSimple(two)
    \/ SimpleRight
    \/ LeaveSimple
    \/ \E two \in BOOLEAN : VisitAdditive(two)
    \/ \E two \in BOOLEAN : VisitTerm(two)
    \/ SecondOperand
    \/ LeaveArithmetic
    \/ VisitNum
    \/ \E sym \in Symbols, subscripted \in BOOLEAN : VisitScalar(sym, subscripted)
    \/ \E sym \in Symbols : VisitArrayName(sym)
    \/ \E sym \in Symbols : VisitElement(sym)
    \/ LeaveElement
    \/ \E sym \in Symbols \cup {NoSymbol}, argc \in 0..nodes : VisitCall(sym, argc)
    \/ CallArgument
    \/ LeaveCall
    \/ NullDereference
    \/ PopEmpty
    \/ Stopped

Spec == Init /\ [][Next]_vars

-----------------------------------------------------------------------------
(* The values a visit pops were pushed for it: the stack is exactly that   *)
(* much higher than when the visit began, so an operand is never a value   *)
(* some earlier statement left behind.                                     *)
Popping == status = "run" /\ frames # << >> /\ Top.back /\ Pops(Top) > 0

OperandsAreOwn ==
    (~nested /\ Popping) => Len(values) = Top.base + Pops(Top)

(* No program without an assignment inside an expression makes value_stack *)
(* pop when it is empty.                                                   *)
NoUnderflowUnlessNested == ~nested => status # "underflow"

(* docs/cminus.md gives every assignment a value, so nesting is no excuse. *)
NoUnderflow == status # "underflow"

(* An expression statement does not pop its value.  What it leaves on the  *)
(* stack is never touched by the statements that follow.                   *)
LeftoversStay ==
    [][~nested' /\ frames # << >> =>
          /\ Len(values') >= frames[1].base
          /\ SubSeq(values', 1, frames[1].base) = SubSeq(values, 1, frames[1].base)]_vars

(* Every operand is the value of the child in whose place it stands,       *)
(* although a term visits its factor first, an assignment its subscript    *)
(* last, and the operands of a comparison are popped from right to left.   *)
OperandsInPlace ==
    ~nested => \A i \in emitted : \A n \in DOMAIN i.operands \cap DOMAIN i.like :
                  i.operands[n].of = i.like[n].of

(* Every instruction gets as many operands as it needs, of the types it    *)
(* needs; only where a comparison is used as a number, or a number as a    *)
(* condition, has the program an i1 for an i32 or the reverse.             *)
Number == {"i1", "i32"}
Fits(ty, like) == ty = like \/ (mixed /\ {ty, like} \subseteq Number)

WellTyped ==
    \A i \in emitted :
        /\ Len(i.operands) = Len(i.like)
        /\ \A n \in 1..Len(i.like) : Fits(i.operands[n].ty, i.like[n].ty)

(* Docs: the expression of an if or a while is any integer.                *)
BranchesOnAnyInteger == \A i \in emitted : i.op = "br" => i.operands[1].ty # "i32"
=============================================================================
