----------------------------- MODULE MCExprGen -----------------------------
EXTENDS ExprGen

Declared(decl, array) ==
    [decl |-> decl, array |-> array, params |-> << >>, returns |-> "void"]
Function(params, returns) ==
    [decl |-> "function", array |-> FALSE, params |-> params, returns |-> returns]

(* int x; int a[n]; a parameter int b[]; int f(int c[], int, int);         *)
(* void g(void).                                                           *)
MCSymbols == {Declared("variable", FALSE), Declared("variable", TRUE),
              Declared("parameter", TRUE),
              Function(<<"i32*", "i32", "i32">>, "i32"), Function(<< >>, "void")}

(* int a[n]; void g(void). *)
MCFewSymbols == {Declared("variable", TRUE), Function(<< >>, "void")}
=============================================================================
