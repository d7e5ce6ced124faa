----------------------------- MODULE ParseTree -----------------------------
(***************************************************************************)
(* The life of a parse tree: syn_parser (parser/syntree_parser.c) makes    *)
(* the global syntax_tree, the scanner mallocs a node per token, the       *)
(* actions of parser/parser.y malloc one per rule and hang its symbols     *)
(* below it, and the constructor of class syntax_tree reads the tree and   *)
(* frees it (syntax_tree/syntax_tree.c).  Nobody counts references: the    *)
(* walk that frees is right only if the nodes are a tree, whatever was     *)
(* parsed, and is run once.                                                *)
(*                                                                         *)
(* Addresses are numbers in the order of allocation, the epsilon below an  *)
(* empty rule's node being numbered first; 0 is no node.                   *)
(***************************************************************************)
EXTENDS Grammar, SequencesExt

CONSTANTS
    Pieces,     \* what a source text is made of: sequences of tokens
    MaxPieces,  \* bound on the length of the text, for model checking
    MaxDepth,   \* YYMAXDEPTH, the depth of the parser's stack
    Slots       \* the places in tree_node's children

ASSUME BoundsAreNat == MaxPieces \in Nat /\ MaxDepth \in Nat \ {0} /\ Slots \in Nat \ {0}
ASSUME PiecesAreText == Pieces \subseteq Seq(Terminals \cup {"error"}) \ {<< >>}
ASSUME RulesFit == \A p \in Productions : Len(p.rhs) <= Slots

VARIABLES
    pc,      \* open, parse, use, delete, done, or exit: exit(1)
    input,   \* tokens of the current piece the scanner has not reached
    pieces,  \* pieces scanned
    seen,    \* the tokens the parser got, in order
    yychar,  \* the token looked at: "empty" if there is none
    yylval,  \* the node of the last token that has one
    stack,   \* of yyparse: states with the node of the symbol before them
    heap,    \* the nodes malloced: names and children
    freed,   \* the nodes given to free
    root,    \* syntax_tree->root; 0 until it is set
    walk     \* the activations of synTreeNodeDelChild, each with its i

source == <<input, pieces, seen>>
parser == <<yychar, yylval, stack>>
store  == <<heap, freed, root>>
vars   == <<pc, source, parser, store, walk>>

Node == DOMAIN heap

(* One type: of the heap a node has at most Slots children, all of them    *)
(* allocated, and of the stack only the bottom has no node.                *)
TypeOK ==
    /\ pc \in {"open", "parse", "use", "delete", "done", "exit"}
    /\ pieces \in 0..MaxPieces
    /\ heap \in Seq([name : Symbols \cup {"epsilon"}, kids : Seq(Nat \ {0})])
    /\ \A n \in Node : Len(heap[n].kids) <= Slots /\ Range(heap[n].kids) \subseteq Node
    /\ yylval \in Node \cup {0} /\ root \in Node \cup {0}
    /\ freed \subseteq Node
    /\ Len(stack) <= MaxDepth
    /\ \A i \in 2..Len(stack) : stack[i].node \in Node
    /\ walk \in Seq([node : Node, i : Nat \ {0}])

-----------------------------------------------------------------------------
Init ==
    /\ pc = "open"
    /\ input = << >> /\ pieces = 0 /\ seen = << >>
    /\ yychar = "empty" /\ yylval = 0 /\ stack = << >>
    /\ heap = << >> /\ freed = {} /\ root = 0
    /\ walk = << >>

(* newSynTree, and PANIC if fopen fails. *)
Open ==
    /\ pc = "open"
    /\ \/ pc' = "parse" /\ stack' = <<[items |-> State0, node |-> 0]>>
       \/ pc' = "exit" /\ stack' = stack
    /\ UNCHANGED <<source, yychar, yylval, store, walk>>

Tree(name, kids) == [name |-> name, kids |-> kids]
Top == stack[Len(stack)].items
Room == pc = "parse" /\ Len(stack) < MaxDepth
Looking == Room /\ yychar # "empty"

(* yylex: every token has a node, except what no rule of the scanner       *)
(* matches: that leaves yylval as it is.  So does the end of the file.     *)
Scan(text) ==
    /\ input' = Tail(text)
    /\ yychar' = Head(text)
    /\ IF Head(text) \in {"$end", "error"}
       THEN UNCHANGED <<yylval, heap, seen>>
       ELSE /\ heap' = Append(heap, Tree(Head(text), << >>))
            /\ yylval' = Len(heap) + 1
            /\ seen' = Append(seen, Head(text))
    /\ UNCHANGED <<pc, stack, freed, root, walk>>

Read ==
    /\ Room /\ yychar = "empty"
    /\ \/ input # << >> /\ Scan(input) /\ UNCHANGED pieces
       \/ /\ input = << >> /\ pieces < MaxPieces
          /\ \E piece \in Pieces : Scan(piece)
          /\ pieces' = pieces + 1
       \/ input = << >> /\ Scan(<<"$end">>) /\ UNCHANGED pieces

Shift ==
    /\ Looking /\ Goto(Top, yychar) # {}
    /\ stack' = Append(stack, [items |-> Goto(Top, yychar), node |-> yylval])
    /\ yychar' = "empty"
    /\ UNCHANGED <<pc, source, yylval, store, walk>>

-----------------------------------------------------------------------------
(* An action of parser.y.  bison prefers to shift: an else goes to the     *)
(* innermost if.  The symbols of the rule leave the stack; their nodes     *)
(* become the children of a new one, in order.                             *)
ReducibleAny(item) == item \in Reductions(Top, yychar)     \* a mutant: no preference
Reducible(item) == Goto(Top, yychar) = {} /\ item \in Reductions(Top, yychar)

Symbol(item, k) == stack[Len(stack) - item.dot + k].node
Popped(item) == SubSeq(stack, 1, Len(stack) - item.dot)

SymbolsSwapped(item) ==         \* a mutant: $2 is added before $1
    [k \in 1..item.dot |-> Symbol(item, IF item.dot = 2 THEN 3 - k ELSE k)]
SymbolsTwice(item) ==           \* a mutant: $1 is added for $3
    [k \in 1..item.dot |-> Symbol(item, IF k = 3 THEN 1 ELSE k)]
Children(item) == [k \in 1..item.dot |-> Symbol(item, k)]

(* The nodes of a rule: $$ is the last of them. *)
BuiltWithoutEpsilon(item) ==    \* a mutant: an empty rule gets no child
    Append(heap, Tree(item.lhs, Children(item)))
Built(item) ==
    IF item.dot = 0
    THEN heap \o <<Tree("epsilon", << >>), Tree(item.lhs, <<Len(heap) + 1>>)>>
    ELSE Append(heap, Tree(item.lhs, Children(item)))

Reduce ==
    /\ Looking
    /\ \E item \in Closure(Top) :
          /\ Reducible(item) /\ item.lhs # "program"
          /\ heap' = Built(item)
          /\ LET below == Popped(item)
             IN  stack' = Append(below,
                     [items |-> Goto(below[Len(below)].items, item.lhs), node |-> Len(heap')])
    /\ UNCHANGED <<pc, source, yychar, yylval, freed, root, walk>>

(* program: declaration-list, and the return of yyparse and syn_parser. *)
AcceptWithoutRoot ==            \* a mutant
    /\ Looking
    /\ \E item \in Closure(Top) :
          /\ Reducible(item) /\ item.lhs = "program"
          /\ heap' = Built(item)
    /\ stack' = << >> /\ pc' = "use"
    /\ UNCHANGED <<source, yychar, yylval, freed, root, walk>>
Accept ==
    /\ Looking
    /\ \E item \in Closure(Top) :
          /\ Reducible(item) /\ item.lhs = "program"
          /\ heap' = Built(item)
          /\ root' = Len(heap')
    /\ stack' = << >> /\ pc' = "use"
    /\ UNCHANGED <<source, yychar, yylval, freed, walk>>

(* yyerror, for a token that fits nowhere and for a full stack, exits: a   *)
(* yyparse that came back would leave the root unset (a mutant).           *)
Stuck ==
    \/ Looking /\ Goto(Top, yychar) = {} /\ \A item \in Closure(Top) : ~Reducible(item)
    \/ pc = "parse" /\ Len(stack) = MaxDepth
YyerrorReturns ==
    /\ Stuck
    /\ pc' = "use" /\ stack' = << >>
    /\ UNCHANGED <<source, yychar, yylval, store, walk>>
Yyerror ==
    /\ Stuck
    /\ pc' = "exit"
    /\ UNCHANGED <<source, parser, store, walk>>

-----------------------------------------------------------------------------
(* The constructor of class syntax_tree: transform_node_iter over all of   *)
(* the tree (module Transform), which ends the compiler on a character, on *)
(* a variable that is no int, and on a number too large; deleteSynTree.    *)
TypeOf(n) == heap[heap[heap[n].kids[1]].kids[1]].name
Refused ==
    \E n \in Node : \/ heap[n].name = "CHAR"
                    \/ heap[n].name \in {"var-declaration", "param"} /\ TypeOf(n) # "int"

UseFails ==
    /\ pc = "use"
    /\ Refused \/ \E n \in Node : heap[n].name = "NUM"
    /\ pc' = "exit"
    /\ UNCHANGED <<source, parser, store, walk>>

Use ==
    /\ pc = "use" /\ ~Refused
    /\ pc' = "delete"
    /\ walk' = <<[node |-> root, i |-> 1]>>
    /\ UNCHANGED <<source, parser, store>>

Deepest == walk[Len(walk)]
Deleting == pc = "delete" /\ walk # << >>

(* A turn of the loop of synTreeNodeDelChild: i counts on when the call is *)
(* back, which nothing reads before.                                       *)
DeleteChildAgain ==             \* a mutant: i is not incremented
    /\ Deleting /\ Deepest.i <= Len(heap[Deepest.node].kids)
    /\ walk' = Append(walk, [node |-> heap[Deepest.node].kids[Deepest.i], i |-> 1])
    /\ UNCHANGED <<pc, source, parser, store>>
DeleteChild ==
    /\ Deleting /\ Deepest.i <= Len(heap[Deepest.node].kids)
    /\ walk' = Append([walk EXCEPT ![Len(walk)].i = @ + 1],
                      [node |-> heap[Deepest.node].kids[Deepest.i], i |-> 1])
    /\ UNCHANGED <<pc, source, parser, store>>

FreeNodeNoRecur ==              \* a mutant: synTreeNodeDelChild_noRecur
    /\ Deleting
    /\ freed' = freed \cup {Deepest.node}
    /\ walk' = Front(walk)
    /\ UNCHANGED <<pc, source, parser, heap, root>>
FreeNode ==
    /\ Deleting /\ Deepest.i > Len(heap[Deepest.node].kids)
    /\ freed' = freed \cup {Deepest.node}
    /\ walk' = Front(walk)
    /\ UNCHANGED <<pc, source, parser, heap, root>>

(* free(tree), and the constructor goes on. *)
EndDelete ==
    /\ pc = "delete" /\ walk = << >>
    /\ pc' = "done"
    /\ UNCHANGED <<source, parser, store, walk>>

Stop == pc \in {"done", "exit"} /\ UNCHANGED vars

Next ==
    \/ Open \/ Read \/ Shift \/ Reduce \/ Accept \/ Yyerror
    \/ Use \/ UseFails \/ DeleteChild \/ FreeNode \/ EndDelete \/ Stop

Spec == Init /\ [][Next]_vars

(* The compiler is one thread that nothing waits for: it takes its next    *)
(* step.                                                                   *)
FairSpec == Spec /\ WF_vars(Next)
-----------------------------------------------------------------------------
InTree(n) == \E m \in Node : \E k \in DOMAIN heap[m].kids : heap[m].kids[k] = n
OnStack(n) == \E i \in 2..Len(stack) : stack[i].node = n
InLookahead(n) == yychar \notin {"empty", "$end", "error"} /\ n = yylval

(* Every node has one owner: a place among the children of one node, an    *)
(* entry of the parser's stack, yylval before it is shifted, or the root   *)
(* of the finished tree.  Freeing a tree recursively needs this, and no    *)
(* line of the scanner or of the hundred actions of the grammar says it.   *)
OneOwner ==
    pc \in {"parse", "use"} =>
    /\ \A m, n \in Node : \A k \in DOMAIN heap[m].kids, l \in DOMAIN heap[n].kids :
          heap[m].kids[k] = heap[n].kids[l] => m = n /\ k = l
    /\ \A i, j \in 2..Len(stack) : stack[i].node = stack[j].node => i = j
    /\ \A n \in Node : /\ InTree(n) \/ OnStack(n) \/ InLookahead(n) \/ n = root
                       /\ ~(OnStack(n) /\ InLookahead(n))
                       /\ InTree(n) => ~OnStack(n) /\ ~InLookahead(n) /\ n # root

(* What the transformation and the walk that frees read is not freed: the  *)
(* activations of synTreeNodeDelChild are of different nodes, none of them *)
(* freed, and neither is a child still to be visited.                      *)
NothingFreedIsRead ==
    /\ pc = "use" => freed = {}
    /\ \A p \in DOMAIN walk :
          /\ walk[p].node \notin freed
          /\ \A q \in DOMAIN walk : walk[p].node = walk[q].node => p = q
          /\ \A k \in walk[p].i..Len(heap[walk[p].node].kids) :
                heap[walk[p].node].kids[k] \notin freed

(* The result of yyparse is ignored and newSynTree leaves the root as      *)
(* malloc found it; whoever uses the tree finds a program all the same,    *)
(* because no failure comes back from yyparse.                             *)
RootIsProgram == pc \in {"use", "delete"} => root \in Node /\ heap[root].name = "program"

(* Whoever reads a finished tree counts on its rules: the children of a    *)
(* node are, in number and order, the symbols of one of the rules with its *)
(* name, an empty rule's the one epsilon.  transform_node_iter tells rules *)
(* apart by child_num alone and reads children[i] unchecked.               *)
FollowsGrammar ==
    pc = "use" =>
    \A n \in Node :
        IF heap[n].name \in NonTerminals
        THEN [k \in DOMAIN heap[n].kids |-> heap[heap[n].kids[k]].name] \in Rules[heap[n].name]
        ELSE heap[n].kids = << >>

(* The leaves of a node, epsilon apart, from left to right. *)
Yield ==
    LET yield[n \in Node] ==
            IF heap[n].name = "epsilon" THEN << >>
            ELSE IF heap[n].kids = << >> THEN <<heap[n].name>>
            ELSE FlattenSeq([k \in DOMAIN heap[n].kids |-> yield[heap[n].kids[k]]])
    IN  yield

(* The tree is the text: at every moment the leaves of what is on the      *)
(* parser's stack, then the token looked at, are the tokens so far; so no  *)
(* action drops, repeats or reorders a symbol.                             *)
YieldIsSource ==
    /\ pc = "parse" =>
          seen = FlattenSeq([i \in 1..Len(Tail(stack)) |-> Yield[Tail(stack)[i].node]])
                 \o (IF yychar \in {"empty", "$end", "error"} THEN << >> ELSE <<yychar>>)
    /\ pc = "use" => seen = Yield[root]

(* A statement ends in an if without else. *)
EndsOpen ==
    LET open[n \in Node] ==
            LET kids == heap[n].kids
            IN  CASE heap[n].name = "selection-stmt" -> Len(kids) = 5 \/ open[kids[7]]
                  [] heap[n].name = "iteration-stmt" -> open[kids[5]]
                  [] heap[n].name = "statement" -> open[kids[1]]
                  [] OTHER -> FALSE
    IN  open

(* docs/cminus.md:107: an else belongs to the nearest if.  The grammar     *)
(* does not say so; the choice bison makes for its only conflict does.     *)
ElseBelongsToNearestIf ==
    pc = "use" =>
    \A n \in Node : heap[n].name = "selection-stmt" /\ Len(heap[n].kids) = 7
                    => ~EndsOpen[heap[n].kids[5]]

-----------------------------------------------------------------------------
(* The storage implements NodeStore: nothing is freed before the tree is   *)
(* transformed, each node is freed once, and none is left behind.          *)
Phase == CASE pc \in {"open", "parse"} -> "building" [] pc = "use" -> "reading"
           [] pc = "delete" -> "releasing" [] pc = "done" -> "closed"
           [] pc = "exit" -> "abandoned"
Store == INSTANCE NodeStore WITH live <- Node \ freed, phase <- Phase
IsNodeStore == Store!Spec

(* The compiler comes to an end of this part: a text is finite, the parser *)
(* never reduces forever before a token, and the walk that frees visits    *)
(* every node once.                                                        *)
Ends == <>(pc \in {"done", "exit"})
=============================================================================
