------------------------------- MODULE Lexer -------------------------------
(***************************************************************************)
(* The scanner of lexer/lexer.l: its rules as regular expressions, flex's  *)
(* choice among them, and the program that tests it, lex_main, which scans *)
(* the test cases one after the other and prints every token with its      *)
(* line and columns.  The compiler's scanner has the same rules; it goes   *)
(* on by itself after a comment, a blank and the end of a line, which is   *)
(* all that analyzer does with them.                                       *)
(*                                                                         *)
(* The line counter of flex and the positions are globals of the scanner   *)
(* that no file has for itself.  Left out of what is printed: the lexeme,  *)
(* the name of the token, and the name of the file.                        *)
(***************************************************************************)
EXTENDS Grammar, FiniteSetsExt, SequencesExt

CONSTANTS
    Texts,      \* what a file can hold: sequences of characters
    MaxFiles    \* bound on the number of test cases

VARIABLES
    pc,         \* main: between two files; scan; done; exit: PANIC
    files,      \* files scanned
    rest,       \* what yylex has not matched of the file
    matched,    \* what it has matched, in a sequence of lexemes
    token,      \* the token of the last lexeme
    yylineno, lines, prev_line, pos_start, pos_end,
    printed     \* line and columns of the last token, if it was printed

globals == <<yylineno, lines, prev_line, pos_start, pos_end>>
vars == <<pc, files, rest, matched, token, globals, printed>>

-----------------------------------------------------------------------------
(* Characters, as far as the rules tell them apart. *)
Letters == {"a", "b", "c", "d", "e", "f", "g", "h", "i", "j", "k", "l", "m",
            "n", "o", "p", "q", "r", "s", "t", "u", "v", "w", "x", "y", "z", "A", "Z"}
Digits == {"0", "1", "9"}
Signs == {"+", "-", "*", "/", "<", ">", "=", "!", ";", ",", "(", ")", "[", "]", "{", "}",
          "\"", "'", "_"}
Chars == Letters \cup Digits \cup Signs \cup {" ", "\t", "\n"}

ASSUME TextsAreText == Texts \subseteq Seq(Chars)
ASSUME MaxFilesIsNat == MaxFiles \in Nat

(* Regular expressions, on a text: for each place of it the places where a *)
(* match that begins there can end.                                        *)
Places(text) == 1..(Len(text) + 1)
Class(text, set) ==
    [from \in Places(text) |-> {to \in Places(text) : to = from + 1 /\ text[from] \in set}]
Then(r, s) == [from \in DOMAIN r |-> UNION {s[i] : i \in r[from]}]
Or(r, s) == [from \in DOMAIN r |-> r[from] \cup s[from]]
Star(r) ==
    LET star[from \in DOMAIN r] == {from} \cup UNION {star[i] : i \in r[from] \ {from}}
    IN  star
Quoted(text, word) ==
    [from \in Places(text) |->
        {to \in Places(text) : /\ to = from + Len(word)
                               /\ \A k \in DOMAIN word : text[from + k - 1] = word[k]}]

-----------------------------------------------------------------------------
(* The rules.  A token has the name its node gets; what matches /* and     *)
(* never ends is no comment.                                               *)
CommentBody(text, block) ==
    LET stars == Star(Class(text, {"*"}))
    IN  Then(Star(Or(Class(text, Chars \ {"*"}), Then(stars, block))),
             Then(stars, Quoted(text, <<"*", "/">>)))
CommentPatternPastSlash(text) ==    \* a mutant: [^\*] for [^\*/]
    Then(Quoted(text, <<"/", "*">>), CommentBody(text, Class(text, Chars \ {"*"})))
CommentPattern(text) ==
    Then(Quoted(text, <<"/", "*">>), CommentBody(text, Class(text, Chars \ {"*", "/"})))

Keywords == [else |-> <<"e", "l", "s", "e">>, if |-> <<"i", "f">>, int |-> <<"i", "n", "t">>,
             char |-> <<"c", "h", "a", "r">>, return |-> <<"r", "e", "t", "u", "r", "n">>,
             void |-> <<"v", "o", "i", "d">>, while |-> <<"w", "h", "i", "l", "e">>]
Spelling(name) ==
    CASE name = "[]" -> <<"[", "]">>
      [] name = "<=" -> <<"<", "=">>
      [] name = ">=" -> <<">", "=">>
      [] name = "==" -> <<"=", "=">>
      [] name = "!=" -> <<"!", "=">>
      [] name \in DOMAIN Keywords -> Keywords[name]
      [] OTHER -> <<name>>

Plus(r) == Then(r, Star(r))

(* In a class the double quotes of "'" and " " are characters like any     *)
(* other, and "-~ is a range, which the blank is before and ! is not in.   *)
Quotes == {"\"", "'"}
Blanks == {"\"", " ", "\t"}
CharPattern(text) ==
    LET quote == Class(text, Quotes)
    IN  Then(quote, Then(Class(text, Chars \ {"!", "\n", "\t"}), quote))
Pattern(name, text) ==
    CASE name = "comment" -> CommentPattern(text)
      [] name = "ID" -> Plus(Class(text, Letters))
      [] name = "NUM" -> Plus(Class(text, Digits))
      [] name = "eol" -> Class(text, {"\n"})
      [] name = "blank" -> Class(text, Blanks)
      [] name = "CHAR" -> CharPattern(text)
      [] name = "error" -> Class(text, Chars \ {"\n"})
      [] OTHER -> Quoted(text, Spelling(name))

(* Their order. *)
SignRules == <<"comment", "[]", "+", "-", "*", "/", "<", "<=", ">", ">=", "==", "!=", "=",
               ";", ",", "(", ")", "[", "]", "{", "}">>
KeywordRules == <<"else", "if", "int", "char", "return", "void", "while">>
OtherRules == <<"ID", "NUM", "eol", "blank", "CHAR", "error">>
LexRulesNamesFirst == SignRules \o OtherRules \o KeywordRules   \* a mutant
LexRules == SignRules \o KeywordRules \o OtherRules

Tokens == Range(LexRules)

(* The scanner and the parser agree on what there is to read. *)
ASSUME TokensAreTerminals == Tokens \ {"comment", "eol", "blank", "error"} = Terminals

(* flex takes the longest match, and of several rules the first. *)
Longest(text) ==
    LET ends == [k \in DOMAIN LexRules |-> Pattern(LexRules[k], text)[1]]
        to == Max(UNION Range(ends))
        first == Min({k \in DOMAIN LexRules : to \in ends[k]})
    IN  [token |-> LexRules[first], length |-> to - 1]

-----------------------------------------------------------------------------
Lexemes == Seq(Chars) \ {<< >>}
Nowhere == [line |-> 0, from |-> 0, to |-> 0]

(* One type: of the positions, no column is past the end of the file. *)
TypeOK ==
    /\ pc \in {"main", "scan", "done", "exit"}
    /\ files \in 0..MaxFiles
    /\ rest \in Seq(Chars) /\ matched \in Seq(Lexemes)
    /\ token \in Tokens \cup {"none"}
    /\ yylineno \in Nat /\ lines \in Nat /\ prev_line \in Nat
    /\ pos_start \in 0..pos_end
    /\ pos_end <= Len(FlattenSeq(matched)) + 1
    /\ printed \in [line : Nat, from : Nat, to : Nat]

(* Globals are zero at first, but for the line counter of flex. *)
Init ==
    /\ pc = "main" /\ files = 0
    /\ rest = << >> /\ matched = << >> /\ token = "none"
    /\ yylineno = 1 /\ lines = 0 /\ prev_line = 0
    /\ pos_start = 0 /\ pos_end = 0
    /\ printed = Nowhere

(* A turn of the loop of lex_main, to the loop of analyzer. *)
Analyzed ==
    /\ pc = "main" /\ files < MaxFiles
    /\ pc' = "scan" /\ files' = files + 1
    /\ lines' = 1
    /\ rest' \in Texts
    /\ matched' = << >> /\ token' = "none" /\ printed' = Nowhere
    /\ UNCHANGED yylineno
AnalyzeNoReset ==               \* a mutant: prev_line is that of the last file
    /\ Analyzed
    /\ pos_start' = 1 /\ pos_end' = 1
    /\ UNCHANGED prev_line
AnalyzeFromEnd ==               \* a mutant: the positions are those of the last file
    /\ Analyzed
    /\ prev_line' = yylineno
    /\ UNCHANGED <<pos_start, pos_end>>
Analyze ==
    /\ Analyzed
    /\ prev_line' = yylineno
    /\ pos_start' = 1 /\ pos_end' = 1

AnalyzeFails ==
    /\ pc = "main" /\ files < MaxFiles
    /\ pc' = "exit"
    /\ UNCHANGED <<files, rest, matched, token, globals, printed>>

(* A turn of the loop of analyzer.  pos_end counts over the lexeme and     *)
(* starts again after the end of a line, which also moves pos_start.       *)
Newlines(lexeme) == Cardinality({k \in DOMAIN lexeme : lexeme[k] = "\n"})
Counted(lexeme, from) ==
    LET at[k \in 0..Len(lexeme)] ==
            IF k = 0 THEN from
            ELSE IF lexeme[k] = "\n" THEN [start |-> at[k - 1].start + 1, end |-> 1]
            ELSE [at[k - 1] EXCEPT !.end = @ + 1]
    IN  at[Len(lexeme)]

Turn ==
    /\ pc = "scan" /\ rest # << >>
    /\ LET next == Longest(rest)
           lexeme == SubSeq(rest, 1, next.length)
           at == Counted(lexeme, [start |-> pos_start, end |-> pos_end])
       IN  /\ token' = next.token
           /\ rest' = SubSeq(rest, next.length + 1, Len(rest))
           /\ matched' = Append(matched, lexeme)
           /\ yylineno' = yylineno + Newlines(lexeme)
           /\ lines' = lines + yylineno' - prev_line
           /\ printed' = IF next.token \in {"eol", "comment", "blank"} THEN Nowhere
                         ELSE [line |-> lines', from |-> at.start, to |-> at.end]
           /\ prev_line' = yylineno'
           /\ pos_start' = at.end /\ pos_end' = at.end
    /\ UNCHANGED <<pc, files>>

EndOfFile ==
    /\ pc = "scan" /\ rest = << >>
    /\ pc' = "main"
    /\ UNCHANGED <<files, rest, matched, token, globals, printed>>

(* There are files test cases. *)
Return ==
    /\ pc = "main"
    /\ pc' = "done"
    /\ UNCHANGED <<files, rest, matched, token, globals, printed>>

Stop == pc \in {"done", "exit"} /\ UNCHANGED vars

Next == Analyze \/ AnalyzeFails \/ Turn \/ EndOfFile \/ Return \/ Stop

Spec == Init /\ [][Next]_vars

-----------------------------------------------------------------------------
Lexeme == Last(matched)
Before == FlattenSeq(Front(matched))

(* The line and the columns that are printed with a token are where it     *)
(* stands in its file: after comments over several lines, and in a file    *)
(* that is not the first.                                                  *)
PositionsAreTrue ==
    printed # Nowhere =>
    LET ends == {k \in DOMAIN Before : Before[k] = "\n"}
        column == Len(Before) + 1 - Max(ends \cup {0})
    IN  printed = [line |-> Cardinality(ends) + 1, from |-> column, to |-> column + Len(Lexeme)]

(* A comment goes from its opening to the first closing after it, and to   *)
(* no other, whatever stars and slashes are in it; where there is a        *)
(* closing there is a comment.                                             *)
CommentsEndAtFirstClose ==
    matched # << >> =>
    LET text == Lexeme \o rest
        closes == {k \in 4..Len(text) : text[k - 1] = "*" /\ text[k] = "/"}
    IN  IF IsPrefix(<<"/", "*">>, text) /\ closes # {}
        THEN token = "comment" /\ Len(Lexeme) = Min(closes)
        ELSE token # "comment"

(* A run of letters is one token, reserved if it is a reserved word and a  *)
(* name if it is not: intx is no int, and if is no name.                   *)
WordsAreWhole ==
    matched # << >> /\ Head(Lexeme) \in Letters =>
    /\ Range(Lexeme) \subseteq Letters
    /\ rest # << >> => Head(rest) \notin Letters
    /\ IF \E word \in DOMAIN Keywords : Keywords[word] = Lexeme
       THEN token # "ID" /\ Keywords[token] = Lexeme
       ELSE token = "ID"
=============================================================================
