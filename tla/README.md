# A verification of the cminusc compiler

cminusc compiles C-minus (`docs/cminus.md`) to LLVM IR, and on to an object file
and a program. A flex scanner and a bison parser build a parse tree of C structs;
`syntax_tree.cpp` turns it into a tree of C++ classes; a visitor, `CminusBuilder`
in `builder.cpp`, walks that tree and emits IR; `main.cpp` drives all of it and
calls `ld`.

The program is sequential. What is hard about it is not concurrency but long
protocols between calls that nothing checks: the visits of the code generator
talk to each other through globals (`bb_now`, `func_now`, `value_stack`), through
the insertion point of the LLVM builder and through the symbol table, and each is
right only if every visit of every other node kind keeps to rules that are
written down nowhere. The nesting of statements and expressions is unbounded, the
test suite has a handful of programs and no assertion looks at the generated IR
(`verifyModule` is never called). So the models let the *program being compiled*
be chosen freely, one node at a time, and follow the compiler through it.

## Components

| component | state | operations | model |
|---|---|---|---|
| symbol table (`include/builder.hpp`, class `Scope`) | a vector of maps | `enter`, `exit`, `in_global`, `push`, `find` | `ScopeOps`, `Scope`, `StaticScope` |
| statements (`builder.cpp`) | `bb_now`, `func_now`, the builder's insertion point, the blocks of the module, the locals of each running visit (`all_ret`, the out blocks) | the visits of declarations, parameters, compound, expression, `if`, `while` and `return` statements | `StmtGen` |
| expressions (`builder.cpp`) | `value_stack`, popped operands held by running visits | the visits of assignments, comparisons, sums, products, variables, numbers and calls | `ExprGen` |
| tree transformation (`syntax_tree/syntax_tree.cpp`) | activations of `transform_node_iter`, their stacks of list elements | one branch per grammar name | `Transform` |
| grammar (`parser/parser.y`) | the parser's stack, the lookahead | shift, reduce, accept, `yyerror` | tables and automaton in `Grammar`, the parser in `ParseTree` |
| driver (`cminusc/main.cpp`) | paths and flags, the file system | argument scan, output path, pipeline, exit codes | `Driver` |
| parse tree storage (`syntax_tree.c`, `syntree_parser.c`) | the global tree, malloc'ed nodes, the activations of `synTreeNodeDelChild` | create, add a child, delete | `ParseTree`, `NodeStore` |
| lexer (`lexer/lexer.l`) | the text not matched, line counter and positions | the rules; `analyzer` and `lex_main`, which test them | `Lexer` |
| printer, helpers, test harness, `start.asm`, Makefile | | output, logging, build | not modelled: no logic of the compiler |

How they interact. `main` calls `syn_parser`, which fills the global parse tree
through the lexer, then the constructor of `syntax_tree` (which transforms and
then frees the parse tree), then `run_visitor`. A visit calls `accept` on the
children, which calls back the visit of the child's class. Statements visit
expressions and take the result from `value_stack`; declarations bind names in
`Scope`, expressions look them up.

What makes each correct:

* symbol table: static scoping, whatever the sequence of calls;
* statements: every block of a finished function is terminated once, reachable
  and branches to existing blocks; instructions never land in another block than
  the visit means; the symbol table's nesting is the program's;
* expressions: what a visit pops was pushed for it; each operand is the value of the child it
  stands for; operand types fit;
* transformation: casts and positions agree with the grammar for every program,
  lists keep their order, pointers the visitors follow are set;
* lexer: a word is one token, a comment ends where it should, the positions
  printed with a token are where it stands;
* parser and storage: the parse tree is a tree, spells its source and gives an `else`
  to the nearest `if`; it is freed once, node by node, after it was read;
* driver: argv is read as documented; no refusal, and no failure before the output is opened
  or `ld` is called, loses an earlier output; the source survives.

## Modules

`ScopeOps` has the methods of `Scope` as operators on the vector of maps.
`Scope` runs them as a state machine: `Enter`, `Exit`, `Push`, `Lookup`.
`StaticScope` is the abstract specification, an environment that maps each name to
its meaning, remembered when a block opens and restored when it closes. `Scope`
instantiates it with a refinement mapping (`env` is what `find` would answer for
each name, `outer` the same for each prefix of the vector) and checks
`Static!Spec`.

`StmtGen` is the code generator on declarations and statements. `frames` is the
C++ call stack: one record per running visit, with the program point, the blocks
the visit holds in local variables and `all_ret`. An action runs from one
`accept` on a statement to the next; which child is visited is chosen then, so a
behaviour is a program and its compilation. Expressions are an arbitrary choice
of appends (`Evaluated`: at the builder's insertion point, at `bb_now`, or
nothing). The IR is reduced to what control flow needs: which blocks exist, what
each ends with, where it branches. `ScopeOps` supplies the symbol table.

`ExprGen` is the code generator on expressions. A value is its LLVM type together with
the place of the child whose visit pushed it (`of`), which is no part of the code: it lets a
property ask whether an operand is the right one of two of the same type. An instruction
has its operands and, next to them, what the syntax and LLVM ask for (`like`). The
frames record the child a visit is at; a call has any number of arguments that the nodes
allow. What a name denotes is chosen from `Symbols` (and "not declared"): what declared it, whether
it is an array, and a function's parameters and result; the type of its alloca and
whether the alloca's name has `fun_param` follow from that (`Pointee`, `Tagged`). With `Strict`
only programs are generated that use names, arguments and results by the kinds
`docs/cminus.md` gives them and whose assignments are statements; without it everything
the grammar allows. Under `Strict` a comparison may still stand for a number and a number for a condition,
as the documentation allows; `mixed` records that the program does so.

`Grammar` has the rules of `parser.y` as tables, which `Transform` and `ParseTree`
share, and the automaton that bison generates, by its definition: states are sets of items, and
a state may reduce a rule before a token that can follow the rule's left-hand
side. This is the SLR automaton; for this grammar it differs from bison's (LALR, with default
reductions, taken without reading a token where there is no choice) only in how
many rules are reduced before a syntax error is noticed and in whether the next
token's node is made before or after a reduction's. No property tells these apart.

`ParseTree` is the life of the parse tree. The source text is chosen piece by piece as the scanner
reaches it (a piece is a sequence of tokens, `error` for a
character that no rule matches). `Read` makes the token's node and leaves it in
`yylval`, `Shift` moves it to the stack of `yyparse`, `Reduce` runs
the action of a rule, `Accept` the action of `program`, which sets the root; `Yyerror`
exits. Then `Use` is the constructor of `class syntax_tree`, which reads the
whole tree (module `Transform` says how) and may end the compiler (`UseFails`),
and `DeleteChild`, `FreeNode`, `EndDelete` are `deleteSynTree`: `walk` holds the activations of
the recursive `synTreeNodeDelChild` with their `i`. `NodeStore` is the abstract
specification: nodes are added while the tree is built, the whole of it is
read, then each node is released, and at the end none is left. `ParseTree`
instantiates it with `live` for the nodes not freed and checks `Store!Spec`. The actions that `parser.y`
spells out for each rule are one operator (`Children`: the node of a rule gets the nodes of its
symbols in order), as they are all alike today. So what is checked is the protocol around
them; a forgotten or swapped `synTreeNodeAddChild` in one rule would not show here.

`Lexer` has the rules of `lexer.l` as regular expressions, flex's choice among them
(the longest match, then the first rule), and the program that tests them: one
file after the other, tokens with line and columns.

`Transform` has the class hierarchy, and for each
name the calls its branch of `transform_node_iter` makes (`Branch`): which child, cast to
what, into which field. The productions of the parse tree are chosen as the walk
reaches them. Lists are walked to the bottom with a stack, as the code does; `met` counts the
elements of the source list that the walk has gone past, so that one left out would be missed.

`Driver` is `main`: an argument per step, then the pipeline, with every failure
the code has a branch for, on a file system of paths and contents, where earlier runs may have
left outputs. Opening an output, which truncates it, and printing into it are two steps, and either can
fail; so is the object file's write, whose failure the code does not notice before `ld`.

`MCStmtGen`, `MCExprGen`, `MCDriver`, `MCParseTree` and `MCLexer` define constants for TLC. Some modules have
definitions marked as mutants: an operation with a plausible mistake,
unused in the specification, for testing that a property can fail.

## Runs

| run | bounds | shows |
|---|---|---|
| `Scope` | 2 names, 2 values, 3 blocks | `IsStaticScope`: `Scope` implements `StaticScope` |
| `StmtGen` | 6 basic blocks, 5 nested visits, 1 name | the well-formedness of the generated control flow (below) |
| `StmtGenEarlyReturn` | same | violated: `NoDanglingBranch` |
| `ExprGen` | 3 branching nodes, all kinds of symbols | stack discipline for every expression the grammar allows |
| `ExprGenStrict` | 6 branching nodes, all kinds of symbols | operand types, and each operand is the value of the child it stands for, for programs that use names by their kinds |
| `ExprGenNested`, `ExprGenCondition` | 4 branching nodes, an array and a void function | violated: `NoUnderflow`, `BranchesOnAnyInteger` |
| `Driver` | argv of up to 4 out of 10 arguments | reading of argv; which outputs can be lost, and that inputs are not |
| `DriverUsage` | argv of up to 3 | violated: `DocumentedOptionsAreOptions` |
| `Transform` | 7 productions that are not the shortest | casts, positions, list order, fields |
| `ParseTree` | texts of up to 5 of 10 pieces, a parser stack 20 deep | one owner per node, nothing read after it was freed, the tree follows the grammar and spells its text, the dangling else, `NodeStore`, and that it all ends |
| `Lexer` | 2 files, texts of up to 5 characters out of chosen sets, keywords with letters around them | comments, words, positions |

The bounds. Six blocks are an entry block and, for instance, an `if`-`else` in
which another `if` is nested, a loop in an `if`, or two functions; five frames are a function,
its body and three nested statements, and any number of them in sequence. All properties of
`StmtGen` speak of a block and the visit that created it, so two nested branching
visits already show every interplay of a visit's end with the end of its parent;
the theorems below hold for any number. In `ExprGen` a node that only passes the
value of its single child on is free, so three branching nodes give nesting three
deep, a call with an argument within a subscript or a comparison of two sums; the
operands that wait on the stack and in local variables meet in these already, and the theorems hold for
any number. Under `Strict` fewer programs are left, so that six are within reach: a call with three
arguments of which one is an array, with an operator in or around it. `MaxNodes` in `Transform` counts the productions that are
not the shortest of their nonterminal, so that every derivation ends; seven reach a
function with a parameter list and a branching body, or a call with three
arguments. In `Driver` the scan looks at two arguments at a time at most; four
hold `-o`, its value, a flag and the input in every order.

In `ParseTree` the pieces are what a program of C-minus is made of: a declaration, the heads of
two functions, `if`, `else`, `while`, `}`, a return, an assignment to an element and a
character of no token. Five of them are enough for two `if`s with one `else` in a
function behind a declaration, and for a syntax error after each of them. Most rules are
reduced (not those of the other operators, of parentheses, of an array's declaration and of a
call without arguments, which have the shape of others). The texts are right and
wrong: every prefix of a right one is followed by every piece. A stack of 20 is
filled by nested statements and expressions, so that the error of a full stack is reached as well.
In `Lexer` two files suffice for what one leaves behind to meet the next; a comment, two words or
two signs with what is around them fit into five characters, and two longer comments with
inner stars and slashes and a line end are added.

Fairness and liveness. The compiler is one thread that waits for nobody, so its next step is taken:
`WF_vars(Next)`, assumed in `ParseTree` only. There `Ends` says that the life of the tree
comes to an end: a text is finite, the parser does not reduce for ever
before a token, and the walk that frees visits every node once. In `StmtGen`, `ExprGen` and
`Transform` the tree that is compiled is chosen on the way and need not be finite, so no
liveness is stated. Deadlock is checked in every run: a state with no step would be a child
or a list the model forgot.

## What the runs found

1. `builder.cpp:298`, `builder.cpp:344`. If the body of a `while`, or of an `if` without
   `else`, always returns, the out block is erased although the conditional branch
   names it. `StmtGenEarlyReturn` shows it in a function of one `while`. All properties that
   depend on it say "unless the program returns early" (variable `early`,
   which also covers statements behind a `return`: their code follows a
   terminator).
2. `builder.cpp:451`. An assignment pushes no value, though `docs/cminus.md:130`
   gives it one: `ExprGenNested`.
3. `builder.cpp:257`. Conditions that are no comparison give the branch an `i32`,
   though `docs/cminus.md:105` allows any: `ExprGenCondition`.
4. `main.cpp:90`. The usage line says `-emit-llvm` and `--analyze`, the code reads
   `--emit-llvm` and `--analyse`: `DriverUsage`.

Seen while modelling, without a run:

* a comparison is an `i1` (`builder.cpp:471`), which nothing extends, though
  `docs/cminus.md:137` calls it an integer of value 1 or 0: as an operand, an argument, a subscript, an
  assigned or a returned value it makes invalid IR. It is the same confusion of types as in 3,
  the other way round; `WellTyped` excuses both by `mixed` and nothing else;
* a name that is declared twice in a block keeps its first meaning, without a message
  (`builder.hpp:28`); `StaticScope` states it so;
* code generation: the right-hand side of an assignment is evaluated before the subscript
  (`docs/cminus.md:130` says the reverse, and `docs/cminus.md:128` wants a negative subscript to end
  the program, for which no code is generated); parameters live in a scope of their own
  around the body's; `input` and `output` are not declared to programs any more; a function
  of type `char` becomes `void`;
* driver: `/dir/f.cminus` is compiled from `.//dir/f.cminus` (`ScanReadsArgv` excludes
  absolute paths); the exit code is 0 when `ld` fails and after usage errors; `--emit-llvm`
  truncates the output before it prints (`main.cpp:232`), so a print that fails loses the earlier
  one; a failing `ld` may remove it as well; an object file whose write failed is still
  linked (`main.cpp:273` comes before the stream's error is looked at);
* scanner: in `["'"][" "-~]["'"]` and `[" "\t]` the double quotes are characters of the class, so a
  single `"` is skipped like a blank, `"a"` is a character constant (which `std::stoi`
  then throws at), and `'!'` is none; a comment that is not closed is read as `/` and `*`;
* the scanner's test: `token_to_str` expects the negative numbers of `lexer.h` but gets bison's
  (`lexer.l` includes `parser.tab.h`), so that it reads outside of `tokens`; the output file is not checked
  to be open; `lex_main` and `parser_main` copy a name without its terminator into an uninitialised
  buffer and take at most 50 test cases without a check;
* storage: an identifier or a number of 30 characters or more runs over the 30 bytes
  of a node's name.

## Theorems

The proofs hold for every value of the constants: any number of names, blocks,
nested visits, arguments and nodes.

`ScopeProofs` proves
`ScopeTypeCorrect` and `ScopeIsStatic`, the refinement of `StaticScope`: the
initial states agree, and each of the four operations maps to the abstract one. It rests on what
`FindUpTo` answers for each prefix of the vector before and after an operation.

`StmtGenProofs` proves, from one inductive invariant:

* `StmtGenTypeCorrect`, `InsertionPointsAgree`, `ScopeIsBalanced`,
  `FinishedFunctionsAreClosed`;
* the action properties `BlocksLeftStayAsTheyAre` and `ErasedBlocksAreEmpty`.

The properties are not inductive by themselves. `FunctionsAreClosed` speaks of
the end of a function only; during it, some blocks are open. The invariant says
which: every live block is terminated unless it is `bb_now` or *pending*, that is,
created by a running visit that has not come to it yet (its out block, or the
else block before the true branch is done). It also says that the pending blocks are
empty, live, different from each other and from `bb_now`, that frames are nested
as visits can be (a function at the bottom, compound bodies at their program points),
and that the symbol table has a block per function or compound frame with bindings
of the current function only. Each action then moves a
pending block to be current, or erases it, and nothing else. Early returns are no exception: they break the
edges between blocks, not this.

The second half of the module proves, of the programs that do not return early,
`NoCodeFollowsATerminator`, `NoBranchDanglesUnlessEarly` and `TerminatorIsWhatReturns`.
The invariant of the first half says nothing of edges, because early returns
break them; `Agreement`, added to it while `early` is false, has three parts:

* `TopAgrees`, `RetsAgree`: what the topmost visit knows of returns is what the
  terminator of `bb_now` says; an `if` that is at its else branch has `all_ret = 1`
  exactly if the true branch returned; no waiting compound has a returning
  statement behind it. So a statement always begins in a block without terminator;
* `BlocksAgree`: a visit's blocks are fit for what it will do with them. The out
  block of an `if`-`else` whose true branch is not finished, or returned
  (`MayErase`), is named by no branch, so it can be erased; the comparison block
  of a loop is live and finished, so the loop can go back to it;
* `Edges`: branches lead from live blocks to live blocks, and never to a
  number not yet given to a block.

The work is in `BlocksAgree`: an inner visit adds edges to its own blocks, to new ones
and to comparison blocks only, and pending blocks belong to one visit each (`Tidy`,
from the first invariant), so an inner statement never jumps to an outer out block.

The module also proves `FinishedBlocksAreReached`, of every program, early returns
included. That a block is reached is stated without recursion: it is in every set that has the
entry blocks and is closed under branches (`ClosedUnderBranches`). At the end of a
function this holds of all live blocks; the invariant `Reaching` says what is missing
while visits run, namely the out blocks of `MayErase`, which nothing jumps to yet. As
`bb_now` is none of them (they are pending), it is reached itself, and so are the blocks a
statement branches to from it. An out block leaves `MayErase` when a branch that did not
return jumps to it, or when it is erased; that `all_ret` tells these cases apart is what a
mutant breaks.

`ExprGenProofs` proves `ExprTypeCorrect` and, for programs without an assignment
inside an expression, the stack discipline of `value_stack`, for calls with any number of arguments:

* `ExprOperandsAreOwn`, `ExprNoUnderflow`, `ExprOperandsInPlace`;
* the action property `ExprLeftoversStay`.

`OperandsAreOwn` speaks of the visit that pops; that nothing else is lost or left
between two pops is a property of all running visits at once. The invariant
(`Balanced`) has one equation per visit: while a visit waits for a child, the stack
is as high as when it began, plus one if it is a comparison waiting for its right operand
(the only operand that waits on the stack and not in a local variable), and its
child began at that height. So a child that pushes one value gives its
parent the height it needs, by whatever path it was reached. Assignments push
nothing; that is harmless exactly below an expression statement, which pops nothing,
and this is where `~nested` enters. That an expression statement pops nothing also
means that the heights never come back to zero: the invariant is relative to
`base`, never absolute. `FramesOK` says which children each kind of visit has, that
only the topmost visit can be back from a child and which first operands are held.

A second invariant, `TInv`, follows the values themselves. It says of each value where it
came from: what the topmost visit is back with was pushed for the place of the child it
visited (`TopTyped`), a held first operand for the first place (`FrameInPlace`), the left operand of a
comparison for its own, just below the stack of the visits above it (`LeftTyped`), and the
k-th argument of a call for the k-th place. As a visit hands its result to its caller's place
only, each operand is that of the child it stands for: `ExprOperandsInPlace`.

Under `Strict`, which leaves the programs that use names, arguments and results by the kinds of
`docs/cminus.md`, the same invariant gives the operand types:

* `ExprWellTyped`.

Each visit's `want` is the role its parent has for the child
(`FramesTyped`), and what comes back suits that role (`Answers`, `FrameSuits`); the arguments so far
suit the first parameters. While the program has not used a comparison as a number or
a number as a condition (`mixed`) the types are equal; after that an `i1` may be where an `i32` is wanted or the
reverse, and nothing else may be.
Whether an element is addressed through a loaded pointer or in an allocated array is
decided in `builder.cpp:392` by the *name* of the alloca. That this fits its type is derived from
what declared the name: `visit(syntax_param)` names every parameter's alloca `fun_param_` and a number
(`builder.cpp:189`), and no other, as an identifier of the language has no underscore. A
mutant that names only the scalars breaks it.

`ParseTreeProofs` proves, for every text, every depth of the parser's stack and every
number of places for children that the rules fit into:

* `TypesAreRight`, `EveryNodeHasOneOwner`, `TheRootIsAProgram`, `NoUseAfterFree`;
* `TheStorageIsANodeStore`, the refinement of `NodeStore`.

The invariant has three layers. The first is about the parser (`StackOK`): the i-th
state on the stack has only items whose dot is less than i symbols behind the
start of their rule, and exactly i - 1 if the rule is that of `program`. So a reduction
never pops the bottom of the stack, each `$k` is a node, and when
`program` is recognised nothing is left on the stack that would be lost. The
second is ownership (`OneOwner`): each step passes nodes from one owner to one other. Its
hard cases are the reductions, which take the topmost nodes off the stack and put them
under a new one. At the end of parsing the root is the only node nobody has as a child (`IsTree`).
The third is the walk that frees (`WalkOK`): the activations are a
path from the root, each one's children before its `i` are freed, except the
one its callee is at, and those from `i` on are neither freed nor
active; a freed node has freed children only; a node not yet visited has children not yet visited.
Children have smaller addresses than their parent (`ChildrenOlder`), so when the
walk is over and the root is freed, a largest node that is not freed would have a freed
parent: there is none (`AllFreed`, by well-founded induction), and the storage
closes empty.

`ParseTreeTextProofs` goes on from that invariant and proves what the finished tree says, whatever
was parsed:

* `TheTreeFollowsTheGrammar`: the children of every node are the symbols of a rule with its name;
* `TheTreeIsTheText`: its leaves are the tokens of the text, in their order;
* `ElseGoesToTheNearestIf`: the choice between shift and reduce resolves the dangling else as
  `docs/cminus.md:107` says.

The first part of its invariant ties the automaton to the stack. Each state is the one reached from
the state below by the name of the node between them (`Linked`), so the symbols before the dot of
an item are the names of the topmost nodes (`Spelled`, by induction on the height of the stack), so a
reduction has a rule's symbols in its hands (`Grammatical`). `Text` is the property itself,
at every moment of the parse: the leaves of the stack from the bottom to the top, then the token
looked at. A reduction changes neither, as flattening a sequence of sequences
does not ask how it is bracketed (`ConcatAppended`, `SplitAt`).

The dangling else takes two facts. First, a state that is at some point of an `if` without `else` is at the same
point of one with `else` (`Twins`: the two rules begin alike), so where the short `if` could be
reduced before an `else`, the `else` can be shifted, and bison shifts
(`IfBeforeNoElse`). Second, a statement on the stack that ends in an open `if` is
not followed by an `else`, neither as the next token nor as the next entry of the stack
(`OpenStack`); so the statement before the `else` of a finished `if` is closed (`Nested`).

`Yield` and `EndsOpen` are recursive functions on the nodes. That they are defined, and that a node
keeps its value while the heap grows, is proved by induction on the number of nodes (`YieldDef`,
`YieldStays`, `OpenDef`, `OpenStays`): the numbers up to which the claim holds are put in a
set, and the least one outside of it contradicts the step (`UpTo`).

`TransformProofs` proves, for every parse tree of the grammar, of whatever depth and with
lists of whatever length:

* `TypesAreRight`, `NoCastIsWrong`, `ThereIsNoPanic`, `ListsAreInOrder`, `NodesAreWhole`.

The first half is about the tables: for each nonterminal and each of its rules, the
branch of `transform_node_iter` visits children that the rule has at that position,
casts each to a class that what comes back is of, and fills every field that the visitors
follow (`Fits`; the walks down lists find their elements where `FastForward`
looks; the two PANICs are behind no rule). This is what a change of `parser.y` or of a position in `syntax_tree.cpp` would break. The
second half is the walk: an activation is at one of its calls, its fields so far are
set (`Filled`), an unfinished list has its elements on the stack in reverse (`Walking`, `Ordered`), and
all activations but the last wait for what the next returns, in the field it
is for (`FramesOK`). A list's vector and stack together have as many elements as the walk has met
(`met`), so none is left out.

`DriverProofs` proves, for every argv and whichever step of the pipeline fails:

* `TypesAreRight`, `TheScanReadsArgv`, `TheOutputOutlivesRefusal`, `TheInputSurvives`.

The invariant says what the scan has read when it is at argument `i`: `i` is an argument in
its own right, not the value of an `-o` (`IsOwn`), and the flags and paths are those of
the arguments before it, the last of each kind (`ScanOK`); behind the scan the
output path is the one given or made from the input's (`OutputOK`). A pipeline past its first phase has
read a source (`SourceOK`) and was asked for by argv, so that only an asked-for compilation opens an output. The files then differ because
their last extensions do, and `./` in front of a path names another file only if the path
is absolute.

`LexerProofs` proves, for any files of any length:

* `TypeCorrect`, `CommentsEnd`, `WordsHold`, `PositionsHold`.

Regular expressions are functions from the place where a match begins to the places where it can
end, so that the lemmas on them are about sets of numbers. `StarIs` unfolds a loop once (a recursive function
over the places, from the end of the text); with it, what every turn of the loop keeps the loop keeps
(`StarStays`), and the loop can take one more turn (`StarGoesOn`). For comments these are the two
directions of the property: no turn over the inside ends behind a closing, so a match
ends at the first one (`CommentStops`); and from the opening, turns reach the last place
before the stars of that closing, so there is a match (`CommentGoesOn`). That the inner class is
`[^\*/]` and not `[^\*]` decides the first; a mutant has the latter. What else begins with a slash has one
character (`SlashEnds`), so the comment is the longest match. A word is the longest match of
`identifierPattern`; reserved words come first in the file and win where they are as long (`LongestWord`).

For the positions the invariant is that `lines` and the columns agree with the text scanned so far
(`Counting`): the line counter of flex goes on from file to file, and only the difference to `prev_line`
counts; the two columns are equal between two lexemes, and measured from the last end of a line
(`ColumnAt`). Inside a lexeme `analyzer` counts wrongly at the end of a line (it also moves
`pos_start`); only comments and the end of a line itself have one in them (`LinesEnd`), and these are not printed.

ASSUMEd of the constants: bounds are natural numbers, `NULL` is no value,
`Vals` contains the bindings the generator makes, `Symbols` are symbols, `Pieces` are texts, the stems and extensions of `Driver` contain those that `main`
compares with, `Arguments` are paths, `Texts` are made of characters. Of the grammar's tables, which are no parameters, the proofs use
three facts that TLC evaluates: `RulesAreStrings`, `ProgramIsOnTop`, `NoSuchSymbols`.

Only model-checked: `Ends` (liveness). The violated properties are shown by their runs.

## Not modelled

The printers (`printSynTree`, the debugging printer of `syntax_tree.cpp`): output only.
The helpers: logging, the names of tokens, and the list of test cases. The test
harness, `start.asm` and the Makefile. Values: what the generated program computes, so neither
the order of evaluation nor the growth of its stack.

## Plan

1. done: `Scope`, `StmtGen`, `ExprGen`, `Transform`, `Driver`, `Grammar`, `ParseTree`, `Lexer`, their
   runs, and the proofs on all of them.
2. a module on the meaning of expressions: the order in which operands, subscripts and right-hand sides
   are evaluated, against the documentation's.
3. `CodeGen`, composing `StmtGen` and `ExprGen`: the conditions of statements
   use the stack the expressions leave.
