---------------------------- MODULE MCParseTree ----------------------------
(***************************************************************************)
(* Constants for checking ParseTree with TLC.                              *)
(***************************************************************************)
EXTENDS ParseTree

(* A function begins with an if, so that five pieces hold two ifs with one *)
(* else, what ends the function and a declaration before it.               *)
MCPieces == {
    <<"int", "ID", ";">>,
    <<"void", "ID", "(", "void", ")", "{", "if", "(", "ID", ")">>,
    <<"char", "ID", "(", "int", "ID", ",", "int", "ID", "[]", ")", "{", "}">>,
    <<"if", "(", "ID", ")", ";">>, <<"else", ";">>,
    <<"while", "(", "ID", ")", "{">>, <<"}">>,
    <<"ID", "[", "NUM", "]", "=", "ID", "(", "ID", ",", "ID", ")", ";">>,
    <<"return", "ID", "*", "CHAR", "<", "ID", "+", "ID", ";">>,
    <<"error">>}
=============================================================================
