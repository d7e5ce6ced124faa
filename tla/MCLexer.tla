------------------------------ MODULE MCLexer ------------------------------
(***************************************************************************)
(* Constants for checking Lexer with TLC.                                  *)
(***************************************************************************)
EXTENDS Lexer

(* What comments are about, what words are about, quotes, and signs of two *)
(* characters; then every keyword, alone and with letters around it.       *)
MCTexts ==
    BoundedSeq({"/", "*", "a"}, 5) \cup
    BoundedSeq({"/", "*", "\n"}, 5) \cup
    BoundedSeq({"i", "f", "1", " "}, 4) \cup
    BoundedSeq({"'", "\"", "!", "a", " "}, 3) \cup
    BoundedSeq({"<", "=", "!", "[", "]", "_"}, 3) \cup
    UNION {{Keywords[w], <<"x">> \o Keywords[w], Append(Keywords[w], "x"),
            Keywords[w] \o <<"\n">> \o Keywords[w]} : w \in DOMAIN Keywords} \cup
    {<<"/", "*", "*", "a", "*", "\n", "*", "/", "a">>,
     <<"/", "*", "/", "*", "*", "/", "*", "/", "a">>,
     <<"+", "-", "(", ")", "{", "}", ";", ",", ">", "=", ">", "\t", "1", "9">>}
=============================================================================
