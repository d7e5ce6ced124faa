-------------------------- MODULE ParseTreeProofs --------------------------
(***************************************************************************)
(* A parse tree is a tree and is freed once, whatever is parsed.           *)
(***************************************************************************)
EXTENDS ParseTree, TLAPS, WellFoundedInduction

Item == [lhs : Symbols, rhs : Seq(Symbols), dot : Nat]
Entry == [items : SUBSET Item, node : Nat]

(* The items of the i-th state on the stack: a symbol before the dot is    *)
(* below it on the stack, and program is recognised from the bottom.       *)
ItemOK(i, item) ==
    \E p \in Productions :
        /\ item = ItemOf(p, item.dot)
        /\ item.dot \in 0..Len(p.rhs) /\ item.dot < i
        /\ p.lhs = "program" => item.dot = i - 1
ItemsOK(i, items) == \A item \in items : ItemOK(i, item)

-----------------------------------------------------------------------------
(* The automaton. *)
LEMMA ProductionsHaveSymbols ==
    \A p \in Productions : p.lhs \in Symbols /\ p.rhs \in Seq(Symbols)
BY RulesAreStrings DEF Symbols

LEMMA ItemsAreItems ==
    ASSUME NEW i \in Nat, NEW item, ItemOK(i, item)
    PROVE  item \in Item
BY ProductionsHaveSymbols DEF ItemOK, ItemOf, Item

LEMMA LeftmostOK ==
    ASSUME NEW i \in Nat \ {0}, NEW s \in Symbols, s # "program"
    PROVE  ItemsOK(i, Leftmost[s])
<1> SUFFICES ASSUME NEW item \in Leftmost[s] PROVE ItemOK(i, item)
    BY DEF ItemsOK
<1>1. PICK p \in Productions : item = ItemOf(p, 0)
    BY DEF Leftmost
<1>2. item.lhs # "program"
    BY ProgramIsOnTop
<1>3. p.rhs \in Seq(Symbols)
    BY ProductionsHaveSymbols
<1> QED BY <1>1, <1>2, <1>3 DEF ItemOK, ItemOf

LEMMA ClosureOK ==
    ASSUME NEW i \in Nat \ {0}, NEW items, ItemsOK(i, items)
    PROVE  ItemsOK(i, Closure(items))
<1> SUFFICES ASSUME NEW item \in Closure(items), item \notin items
             PROVE  ItemOK(i, item)
    BY DEF ItemsOK
<1>1. PICK k \in items : ~AtEnd(k) /\ item \in Leftmost[k.rhs[k.dot + 1]]
    BY DEF Closure
<1>2. PICK p \in Productions : k = ItemOf(p, k.dot) /\ k.dot \in 0..Len(p.rhs)
    BY DEF ItemsOK, ItemOK
<1>3. p.rhs \in Seq(Symbols) /\ p.rhs = k.rhs
    BY <1>2, ProductionsHaveSymbols DEF ItemOf
<1>4. k.dot + 1 \in DOMAIN p.rhs
    BY <1>1, <1>2, <1>3 DEF AtEnd
<1>5. p.rhs[k.dot + 1] \in Symbols /\ p.rhs[k.dot + 1] # "program"
    BY <1>3, <1>4, ProgramIsOnTop
<1> QED BY <1>1, <1>3, <1>5, LeftmostOK DEF ItemsOK

LEMMA GotoOK ==
    ASSUME NEW i \in Nat \ {0}, NEW items, NEW s, ItemsOK(i, items)
    PROVE  ItemsOK(i + 1, Goto(items, s)) /\ (Goto(items, s) # {} => s \in Symbols)
<1>1. ItemsOK(i, Closure(items))
    BY ClosureOK
<1>2. ASSUME NEW item \in Closure(items), ~AtEnd(item), item.rhs[item.dot + 1] = s
      PROVE  s \in Symbols /\ ItemOK(i + 1, [item EXCEPT !.dot = @ + 1])
  <2>1. PICK p \in Productions :
            /\ item = ItemOf(p, item.dot) /\ item.dot \in 0..Len(p.rhs) /\ item.dot < i
            /\ p.lhs = "program" => item.dot = i - 1
      BY <1>1 DEF ItemsOK, ItemOK
  <2>2. p.rhs \in Seq(Symbols) /\ item.rhs = p.rhs
      BY <2>1, ProductionsHaveSymbols DEF ItemOf
  <2>3. item.dot + 1 \in 1..Len(p.rhs)
      BY <1>2, <2>1, <2>2 DEF AtEnd
  <2>4. [item EXCEPT !.dot = @ + 1] = ItemOf(p, item.dot + 1)
      BY <2>1 DEF ItemOf
  <2>5. s \in Symbols
      BY <1>2, <2>2, <2>3
  <2> DEFINE moved == [item EXCEPT !.dot = @ + 1]
  <2>6. moved.dot = item.dot + 1
      BY <2>4 DEF ItemOf
  <2>7. ItemOK(i + 1, moved)
      BY <2>1, <2>3, <2>4, <2>6 DEF ItemOK
  <2> QED BY <2>5, <2>7
<1> QED BY <1>2 DEF Goto, ItemsOK

LEMMA State0OK == ItemsOK(1, State0)
<1> SUFFICES ASSUME NEW p \in Productions PROVE ItemOK(1, ItemOf(p, 0))
    BY DEF ItemsOK, State0
<1> QED BY ProductionsHaveSymbols DEF ItemOK, ItemOf

LEMMA ItemSets ==
    ASSUME NEW i \in Nat, NEW items, ItemsOK(i, items)
    PROVE  items \in SUBSET Item
BY ItemsAreItems DEF ItemsOK

(* Only an item that came up the stack recognises the program. *)
LEMMA ReductionsOK ==
    ASSUME NEW i \in Nat \ {0}, NEW items, ItemsOK(i, items), NEW token,
           NEW item \in Reductions(items, token)
    PROVE  /\ item \in Item /\ item.dot = Len(item.rhs) /\ item.dot < i
           /\ item.dot <= Slots
           /\ item.lhs = "program" => item.dot = i - 1 /\ token = "$end"
<1>1. item \in Closure(items) /\ AtEnd(item) /\ token \in Follow[item.lhs]
    BY DEF Reductions
<1>2. ItemOK(i, item)
    BY <1>1, ClosureOK DEF ItemsOK
<1>3. PICK p \in Productions :
            /\ item = ItemOf(p, item.dot) /\ item.dot \in 0..Len(p.rhs) /\ item.dot < i
            /\ p.lhs = "program" => item.dot = i - 1
    BY <1>2 DEF ItemOK
<1>4. item.lhs = p.lhs /\ item.rhs = p.rhs
    BY <1>3 DEF ItemOf
<1>5. item.lhs = "program" => token = "$end"
    BY <1>1, ProgramIsOnTop
<1> QED BY <1>1, <1>2, <1>3, <1>4, <1>5, RulesFit, ItemsAreItems DEF AtEnd

-----------------------------------------------------------------------------
(* The inductive invariant. *)
Types ==
    /\ TypeOK
    /\ input \in Seq(Terminals \cup {"error"})
    /\ yychar \in Terminals \cup {"empty", "$end", "error"}
    /\ stack \in Seq(Entry)

(* What is not in use at each stage. *)
Stages ==
    /\ pc \in {"open", "parse", "use", "exit"} => freed = {} /\ walk = << >>
    /\ pc = "done" => walk = << >>
    /\ pc \in {"open", "parse"} => root = 0
    /\ pc = "open" => heap = << >> /\ stack = << >> /\ yychar = "empty"
    /\ pc = "use" => stack = << >> /\ yychar = "$end"
    /\ pc \in {"use", "delete"} => root \in Node /\ heap[root].name = "program"

StackOK ==
    /\ pc = "parse" => Len(stack) > 0
    /\ \A i \in 1..Len(stack) : ItemsOK(i, stack[i].items)
    /\ yychar \in Terminals => yylval \in Node

(* Children are allocated before their parent. *)
ChildrenOlder == \A m \in Node : \A k \in DOMAIN heap[m].kids : heap[m].kids[k] < m

IsTree ==
    pc \in {"use", "delete"} =>
    /\ \A m, n \in Node : \A k \in DOMAIN heap[m].kids, l \in DOMAIN heap[n].kids :
          heap[m].kids[k] = heap[n].kids[l] => m = n /\ k = l
    /\ \A n \in Node : InTree(n) <=> n # root

(* The walk that frees: the activations are a path from the root; a node   *)
(* is visited after its parent, the children in their order, and freed     *)
(* before it.                                                              *)
Kid(m, k) == heap[m].kids[k]
Active(w, n) == \E p \in DOMAIN w : w[p].node = n
Path ==
    /\ walk = << >> => root \in freed
    /\ walk # << >> => walk[1].node = root
    /\ \A p, q \in DOMAIN walk : walk[p].node = walk[q].node => p = q
    /\ \A p \in DOMAIN walk :
          /\ walk[p].node \notin freed
          /\ walk[p].i \in 1..(Len(heap[walk[p].node].kids) + 1)
    /\ \A p \in 1..(Len(walk) - 1) :
          walk[p].i > 1 /\ walk[p + 1].node = heap[walk[p].node].kids[walk[p].i - 1]
Visited(w, f) ==
    /\ \A p \in DOMAIN w : \A k \in DOMAIN heap[w[p].node].kids :
          /\ k < w[p].i /\ (p = Len(w) \/ k < w[p].i - 1) => Kid(w[p].node, k) \in f
          /\ k >= w[p].i => Kid(w[p].node, k) \notin f /\ ~Active(w, Kid(w[p].node, k))
    /\ \A m \in Node : \A k \in DOMAIN heap[m].kids :
          /\ m \in f => Kid(m, k) \in f
          /\ m \notin f /\ ~Active(w, m) => Kid(m, k) \notin f /\ ~Active(w, Kid(m, k))
Visits == Visited(walk, freed)
WalkOK == pc = "delete" => Path /\ Visits

IInv == Types /\ Stages /\ StackOK /\ ChildrenOlder /\ OneOwner /\ IsTree /\ WalkOK

-----------------------------------------------------------------------------
(* What the actions do to the heap. *)
NodeType == [name : Symbols \cup {"epsilon"}, kids : Seq(Nat \ {0})]

LEMMA NodeIsRange == Types => Node = 1..Len(heap) /\ heap \in Seq(NodeType)
BY DEF Types, TypeOK, Node, NodeType

LEMMA KidsAreNodes ==
    ASSUME Types, NEW m \in Node
    PROVE  /\ heap[m].kids \in Seq(Nat \ {0})
           /\ DOMAIN heap[m].kids = 1..Len(heap[m].kids)
           /\ \A k \in DOMAIN heap[m].kids : heap[m].kids[k] \in Node
<1>1. heap[m] \in NodeType
    BY NodeIsRange
<1>2. Range(heap[m].kids) \subseteq Node
    BY DEF Types, TypeOK
<1> QED BY <1>1, <1>2 DEF NodeType, Range

LEMMA StackNodes ==
    ASSUME Types, NEW i \in 2..Len(stack)
    PROVE  stack[i].node \in Node
BY DEF Types, TypeOK

(* The item of an action, and the nodes of its symbols. *)
LEMMA ReducedItem ==
    ASSUME Types, StackOK, Looking, NEW item, Reducible(item)
    PROVE  /\ item \in Item /\ item.dot = Len(item.rhs)
           /\ item.dot \in 0..(Len(stack) - 1) /\ item.dot <= Slots
           /\ item.lhs = "program" => item.dot = Len(stack) - 1 /\ yychar = "$end"
           /\ \A k \in 1..item.dot :
                 /\ Len(stack) - item.dot + k \in 2..Len(stack)
                 /\ Symbol(item, k) = stack[Len(stack) - item.dot + k].node
                 /\ Symbol(item, k) \in Node
<1> DEFINE n == Len(stack)
<1>1. n \in Nat /\ n > 0 /\ Len(stack) = n
    BY DEF Types, StackOK, Looking, Room
<1>2. ItemsOK(n, Top) /\ item \in Reductions(Top, yychar)
    BY <1>1 DEF StackOK, Top, Reducible
<1> HIDE DEF n
<1>3. /\ item \in Item /\ item.dot = Len(item.rhs) /\ item.dot < n /\ item.dot <= Slots
      /\ item.lhs = "program" => item.dot = n - 1 /\ yychar = "$end"
    BY <1>1, <1>2, ReductionsOK
<1>4. item.dot \in Nat
    BY <1>3 DEF Item
<1>5. \A k \in 1..item.dot : n - item.dot + k \in 2..n
    BY <1>1, <1>3, <1>4
<1>6. item.dot \in 0..(n - 1)
    BY <1>1, <1>3, <1>4
<1>7. \A k \in 1..item.dot : Symbol(item, k) = stack[n - item.dot + k].node
    BY <1>1 DEF Symbol
<1>8. \A j \in 2..n : stack[j].node \in Node
    BY <1>1, StackNodes
<1>9. \A k \in 1..item.dot : stack[n - item.dot + k].node \in Node
    BY <1>5, <1>8
<1>10. n = Len(stack)
    BY <1>1
<1> HIDE <1>1
<1> QED BY <1>3, <1>5, <1>6, <1>7, <1>9, <1>10

LEMMA ChildrenAre ==
    ASSUME Types, StackOK, Looking, NEW item, Reducible(item)
    PROVE  /\ Children(item) \in Seq(Nat \ {0}) /\ Len(Children(item)) = item.dot
           /\ DOMAIN Children(item) = 1..item.dot
           /\ \A k \in 1..item.dot :
                 Children(item)[k] = stack[Len(stack) - item.dot + k].node /\ Children(item)[k] \in Node
<1>1. item.dot \in Nat
    BY ReducedItem
<1>2. \A k \in 1..item.dot : Children(item)[k] = Symbol(item, k)
    BY DEF Children
<1>3. Node \subseteq Nat \ {0}
    BY NodeIsRange
<1>4. \A k \in 1..item.dot : Symbol(item, k) \in Node /\ Symbol(item, k) = stack[Len(stack) - item.dot + k].node
    BY ReducedItem
<1>5. Children(item) \in [1..item.dot -> Nat \ {0}]
    BY <1>3, <1>4 DEF Children
<1>6. /\ Children(item) \in Seq(Nat \ {0}) /\ Len(Children(item)) = item.dot
      /\ DOMAIN Children(item) = 1..item.dot
    <2> DEFINE f == Children(item)
               d == item.dot
    <2>1. f \in [1..d -> Nat \ {0}] /\ d \in Nat
        BY <1>1, <1>5
    <2> HIDE DEF f, d
    <2>2. f \in Seq(Nat \ {0}) /\ Len(f) = d /\ DOMAIN f = 1..d
        BY <2>1
    <2> QED BY <2>2 DEF f, d
<1>7. \A k \in 1..item.dot :
         Children(item)[k] = stack[Len(stack) - item.dot + k].node /\ Children(item)[k] \in Node
    BY <1>2, <1>4, Zenon
<1> QED BY <1>6, <1>7

(* A rule with symbols makes a node of theirs, an empty one makes two. *)
LEMMA BuiltByRule ==
    ASSUME Types, StackOK, Looking, NEW item, Reducible(item), item.dot > 0,
           heap' = Built(item)
    PROVE  /\ heap' \in Seq(NodeType) /\ Len(heap') = Len(heap) + 1
           /\ Node' = Node \cup {Len(heap')}
           /\ \A n \in Node : heap'[n] = heap[n]
           /\ heap'[Len(heap')] = [name |-> item.lhs, kids |-> Children(item)]
<1>1. heap \in Seq(NodeType) /\ Node = 1..Len(heap)
    BY NodeIsRange
<1> DEFINE node == [name |-> item.lhs, kids |-> Children(item)]
<1>2. node \in NodeType
    BY ReducedItem, ChildrenAre DEF Item, NodeType
<1>3. heap' = Append(heap, node)
    BY ReducedItem DEF Built, Tree
<1> HIDE DEF node
<1>4. heap' \in Seq(NodeType) /\ Len(heap') = Len(heap) + 1 /\ heap'[Len(heap) + 1] = node
      /\ \A n \in 1..Len(heap) : heap'[n] = heap[n]
    BY <1>1, <1>2, <1>3
<1>5. Node' = 1..Len(heap')
    BY <1>4 DEF Node
<1> QED BY <1>1, <1>4, <1>5 DEF node

LEMMA BuiltByEmptyRule ==
    ASSUME Types, StackOK, Looking, NEW item, Reducible(item), item.dot = 0,
           heap' = Built(item)
    PROVE  /\ heap' \in Seq(NodeType) /\ Len(heap') = Len(heap) + 2
           /\ Node' = Node \cup {Len(heap) + 1, Len(heap')}
           /\ \A n \in Node : heap'[n] = heap[n]
           /\ heap'[Len(heap) + 1] = [name |-> "epsilon", kids |-> << >>]
           /\ heap'[Len(heap')] = [name |-> item.lhs, kids |-> <<Len(heap) + 1>>]
<1>1. heap \in Seq(NodeType) /\ Node = 1..Len(heap)
    BY NodeIsRange
<1> DEFINE epsilon == [name |-> "epsilon", kids |-> << >>]
           node == [name |-> item.lhs, kids |-> <<Len(heap) + 1>>]
<1>2. epsilon \in NodeType
    BY DEF NodeType
<1>3. node \in NodeType
  <2>1. Len(heap) + 1 \in Nat \ {0}
      BY <1>1
  <2>2. <<Len(heap) + 1>> \in Seq(Nat \ {0})
      BY <2>1
  <2> QED BY <2>2, ReducedItem DEF NodeType, Item
<1>4. heap' = heap \o <<epsilon, node>>
    BY DEF Built, Tree
<1> HIDE DEF epsilon, node
<1>5. /\ heap' \in Seq(NodeType) /\ Len(heap') = Len(heap) + 2
      /\ heap'[Len(heap) + 1] = epsilon /\ heap'[Len(heap) + 2] = node
      /\ \A n \in 1..Len(heap) : heap'[n] = heap[n]
    BY <1>1, <1>2, <1>3, <1>4
<1>6. Node' = 1..Len(heap')
    BY <1>5 DEF Node
<1> QED BY <1>1, <1>5, <1>6 DEF epsilon, node

LEMMA ReadScans ==
    ASSUME Types, Read
    PROVE  /\ pc = "parse" /\ yychar = "empty" /\ pieces' \in 0..MaxPieces
           /\ \E text : /\ Scan(text) /\ Tail(text) \in Seq(Terminals \cup {"error"})
                        /\ Head(text) \in Terminals \cup {"error", "$end"}
<1> DEFINE S == Terminals \cup {"error"}
<1>1. pc = "parse" /\ yychar = "empty"
    BY DEF Read, Room
<1>2. ASSUME NEW text \in Seq(S), text # << >>
      PROVE  Tail(text) \in Seq(S) /\ Head(text) \in S
    BY <1>2
<1>3. CASE input # << >> /\ Scan(input) /\ UNCHANGED pieces
    BY <1>1, <1>2, <1>3 DEF Types, TypeOK
<1>4. CASE \E piece \in Pieces : Scan(piece) /\ pieces < MaxPieces /\ pieces' = pieces + 1
  <2>1. PICK piece \in Pieces : Scan(piece)
      BY <1>4
  <2>2. piece \in Seq(S) /\ piece # << >>
      BY PiecesAreText
  <2>3. pieces' \in 0..MaxPieces
      BY <1>4, BoundsAreNat DEF Types, TypeOK
  <2> QED BY <1>1, <1>2, <2>1, <2>2, <2>3
<1>5. CASE Scan(<<"$end">>) /\ UNCHANGED pieces
  <2>1. Head(<<"$end">>) = "$end" /\ Tail(<<"$end">>) \in Seq(S)
      OBVIOUS
  <2> QED BY <1>1, <1>5, <2>1 DEF Types, TypeOK
<1> QED BY <1>3, <1>4, <1>5 DEF Read

(* A scanned token has a new node, or there is none. *)
LEMMA Scanned ==
    ASSUME Types, NEW text, Scan(text), Head(text) \in Terminals \cup {"error", "$end"}
    PROVE  /\ yychar' = Head(text) /\ UNCHANGED <<pc, stack, freed, root, walk>>
           /\ \/ yychar' \in {"error", "$end"} /\ UNCHANGED <<yylval, heap>>
              \/ /\ yychar' \in Terminals /\ yychar' \notin {"error", "$end"}
                 /\ heap' \in Seq(NodeType) /\ Len(heap') = Len(heap) + 1
                 /\ Node' = Node \cup {Len(heap')}
                 /\ \A n \in Node : heap'[n] = heap[n]
                 /\ heap'[Len(heap')].kids = << >>
                 /\ heap'[Len(heap')] = [name |-> yychar', kids |-> << >>]
                 /\ yylval' = Len(heap')
<1>1. CASE Head(text) \in {"error", "$end"}
    BY <1>1 DEF Scan
<1>2. CASE Head(text) \notin {"error", "$end"}
  <2> DEFINE node == Tree(Head(text), << >>)
  <2>1. Head(text) \in Terminals /\ Terminals \subseteq Symbols
      BY <1>2 DEF Terminals
  <2>2. /\ node \in NodeType /\ node.kids = << >>
        /\ node = [name |-> Head(text), kids |-> << >>]
      BY <2>1 DEF NodeType, Tree
  <2>3. heap' = Append(heap, node) /\ yylval' = Len(heap) + 1
      BY <1>2 DEF Scan
  <2>4. heap \in Seq(NodeType) /\ Node = 1..Len(heap)
      BY NodeIsRange
  <2> HIDE DEF node
  <2>5. /\ heap' \in Seq(NodeType) /\ Len(heap') = Len(heap) + 1 /\ heap'[Len(heap) + 1] = node
        /\ \A n \in 1..Len(heap) : heap'[n] = heap[n]
      BY <2>2, <2>3, <2>4
  <2>6. Node' = 1..Len(heap')
      BY <2>5 DEF Node
  <2>7. yychar' = Head(text) /\ UNCHANGED <<pc, stack, freed, root, walk>>
      BY DEF Scan
  <2> QED BY <1>2, <2>1, <2>2, <2>3, <2>4, <2>5, <2>6, <2>7
<1> QED BY <1>1, <1>2

(* New nodes leave the heap well-typed if their children are nodes. *)
HeapOK ==
    /\ heap \in Seq(NodeType)
    /\ \A n \in Node : Len(heap[n].kids) <= Slots /\ Range(heap[n].kids) \subseteq Node

LEMMA BuiltOK ==
    ASSUME Types, StackOK, Looking, NEW item, Reducible(item), heap' = Built(item)
    PROVE  HeapOK' /\ Node \subseteq Node' /\ Len(heap') \in Node'
<1>1. HeapOK
    BY DEF Types, TypeOK, HeapOK, NodeType
<1>2. CASE item.dot > 0
  <2>1. DOMAIN Children(item) = 1..item.dot /\ Len(Children(item)) <= Slots
      BY ReducedItem, ChildrenAre
  <2>2. Range(Children(item)) \subseteq Node
      BY <2>1, ChildrenAre DEF Range
  <2>3. /\ heap' \in Seq(NodeType) /\ Node' = Node \cup {Len(heap')}
        /\ \A n \in Node : heap'[n] = heap[n]
        /\ heap'[Len(heap')] = [name |-> item.lhs, kids |-> Children(item)]
      BY <1>2, BuiltByRule
  <2>4. \A n \in Node' : Len(heap'[n].kids) <= Slots /\ Range(heap'[n].kids) \subseteq Node'
      BY <1>1, <2>1, <2>2, <2>3 DEF HeapOK
  <2> QED BY <2>3, <2>4 DEF HeapOK
<1>3. CASE item.dot = 0
  <2>1. Range(<< >>) = {} /\ Range(<<Len(heap) + 1>>) = {Len(heap) + 1}
      BY DEF Range
  <2>2. Len(<< >>) <= Slots /\ Len(<<Len(heap) + 1>>) <= Slots
      BY BoundsAreNat
  <2>3. /\ heap' \in Seq(NodeType) /\ Node' = Node \cup {Len(heap) + 1, Len(heap')}
        /\ \A n \in Node : heap'[n] = heap[n]
        /\ heap'[Len(heap) + 1] = [name |-> "epsilon", kids |-> << >>]
        /\ heap'[Len(heap')] = [name |-> item.lhs, kids |-> <<Len(heap) + 1>>]
      BY <1>3, BuiltByEmptyRule
  <2>4. ASSUME NEW n \in Node'
        PROVE  Len(heap'[n].kids) <= Slots /\ Range(heap'[n].kids) \subseteq Node'
    <3>1. CASE n \in Node
        BY <1>1, <2>3, <3>1 DEF HeapOK
    <3>2. CASE n = Len(heap) + 1
      <4>1. heap'[n].kids = << >>
          BY <2>3, <3>2
      <4> QED BY <2>1, <2>2, <4>1
    <3>3. CASE n = Len(heap')
      <4>1. heap'[n].kids = <<Len(heap) + 1>> /\ Len(heap) + 1 \in Node'
          BY <2>3, <3>3
      <4> QED BY <2>1, <2>2, <4>1
    <3> QED BY <2>3, <3>1, <3>2, <3>3
  <2> QED BY <2>3, <2>4 DEF HeapOK
<1> QED BY <1>2, <1>3, ReducedItem

LEMMA ScannedOK ==
    ASSUME Types, NEW text, Scan(text), Head(text) \in Terminals \cup {"error", "$end"}
    PROVE  HeapOK' /\ Node \subseteq Node' /\ yylval' \in Node' \cup {0}
<1>1. HeapOK /\ yylval \in Node \cup {0}
    BY DEF Types, TypeOK, HeapOK, NodeType
<1>2. CASE UNCHANGED <<yylval, heap>>
    BY <1>1, <1>2 DEF HeapOK, Node
<1>3. CASE ~UNCHANGED <<yylval, heap>>
  <2>1. Range(<< >>) = {} /\ Len(<< >>) = 0
      BY DEF Range
  <2> QED BY <1>1, <1>3, <2>1, Scanned, BoundsAreNat DEF HeapOK
<1> QED BY <1>2, <1>3

-----------------------------------------------------------------------------
(* The stack. *)
LEMMA Pushed ==
    ASSUME Types, StackOK, NEW below \in Seq(Entry), NEW s, NEW node \in Nat \ {0},
           below # << >>,
           \A i \in 1..Len(below) : ItemsOK(i, below[i].items),
           stack' = Append(below, [items |-> Goto(below[Len(below)].items, s), node |-> node])
    PROVE  /\ stack' \in Seq(Entry) /\ Len(stack') = Len(below) + 1
           /\ \A i \in 1..Len(below) : stack'[i] = below[i]
           /\ stack'[Len(stack')].node = node
           /\ stack'[Len(stack')].items = Goto(below[Len(below)].items, s)
           /\ \A i \in 1..Len(stack') : ItemsOK(i, stack'[i].items)
<1> DEFINE n == Len(below)
           entry == [items |-> Goto(below[n].items, s), node |-> node]
<1>1. n \in Nat \ {0} /\ n = Len(below)
    OBVIOUS
<1>2. ItemsOK(n, below[n].items)
    BY <1>1
<1>3. /\ ItemsOK(n + 1, entry.items) /\ entry.node = node
      /\ entry.items = Goto(below[n].items, s)
    BY <1>1, <1>2, GotoOK
<1>4. entry \in Entry
  <2>1. entry.items \in SUBSET Item
      BY <1>1, <1>3, ItemSets
  <2> QED BY <2>1 DEF Entry
<1>5. stack' = Append(below, entry)
    OBVIOUS
<1> HIDE DEF n, entry
<1>6. /\ stack' \in Seq(Entry) /\ Len(stack') = n + 1 /\ stack'[n + 1] = entry
      /\ \A i \in 1..n : stack'[i] = below[i]
    BY <1>1, <1>4, <1>5
<1>7. ASSUME NEW i \in 1..Len(stack') PROVE ItemsOK(i, stack'[i].items)
  <2>1. CASE i = n + 1
      BY <1>3, <1>6, <2>1
  <2>2. CASE i \in 1..n
      BY <1>1, <1>6, <2>2
  <2> QED BY <1>1, <1>6, <2>1, <2>2
<1> QED BY <1>1, <1>3, <1>6, <1>7

LEMMA PoppedIs ==
    ASSUME Types, StackOK, Looking, NEW item, Reducible(item)
    PROVE  /\ Popped(item) \in Seq(Entry) /\ Popped(item) # << >>
           /\ Len(Popped(item)) = Len(stack) - item.dot
           /\ \A i \in 1..(Len(stack) - item.dot) : Popped(item)[i] = stack[i]
           /\ \A i \in 1..Len(Popped(item)) : ItemsOK(i, Popped(item)[i].items)
<1> DEFINE n == Len(stack)
           d == item.dot
           below == SubSeq(stack, 1, n - d)
<1>1. stack \in Seq(Entry) /\ n \in Nat /\ n = Len(stack)
    BY DEF Types
<1>2. d \in 0..(n - 1) /\ d = item.dot
    BY ReducedItem
<1>3. Popped(item) = below
    BY DEF Popped
<1> HIDE DEF n, d
<1>4. /\ below \in Seq(Entry) /\ Len(below) = n - d /\ below # << >>
      /\ \A i \in 1..(n - d) : below[i] = stack[i]
    BY <1>1, <1>2
<1>5. \A i \in 1..(n - d) : i \in 1..n
    BY <1>1, <1>2
<1>6. \A i \in 1..(n - d) : ItemsOK(i, below[i].items)
    BY <1>1, <1>4, <1>5 DEF StackOK
<1> HIDE DEF below
<1> QED BY <1>1, <1>2, <1>3, <1>4, <1>6

LEMMA Reduced ==
    ASSUME Types, StackOK, Reduce
    PROVE  \E item :
           /\ Looking /\ Reducible(item) /\ item.lhs # "program" /\ heap' = Built(item)
           /\ stack' \in Seq(Entry) /\ Len(stack') = Len(stack) - item.dot + 1
           /\ \A i \in 1..(Len(stack) - item.dot) : stack'[i] = stack[i]
           /\ stack'[Len(stack')].node = Len(heap')
           /\ stack'[Len(stack')].items = Goto(stack[Len(stack) - item.dot].items, item.lhs)
           /\ \A i \in 1..Len(stack') : ItemsOK(i, stack'[i].items)
<1>1. PICK item \in Closure(Top) :
          /\ Reducible(item) /\ item.lhs # "program" /\ heap' = Built(item)
          /\ stack' = Append(Popped(item),
                 [items |-> Goto(Popped(item)[Len(Popped(item))].items, item.lhs),
                  node |-> Len(heap')])
    BY DEF Reduce
<1>2. Looking
    BY DEF Reduce
<1>3. Len(heap') \in Nat \ {0}
  <2>1. heap' \in Seq(NodeType) /\ Len(heap') \in Node' /\ Node' = DOMAIN heap'
      BY <1>1, <1>2, BuiltOK DEF HeapOK, Node
  <2> QED BY <2>1
<1> DEFINE below == Popped(item)
<1>4. /\ below \in Seq(Entry) /\ below # << >>
      /\ Len(below) = Len(stack) - item.dot
      /\ \A i \in 1..(Len(stack) - item.dot) : below[i] = stack[i]
      /\ \A i \in 1..Len(below) : ItemsOK(i, below[i].items)
    BY <1>1, <1>2, PoppedIs
<1>5. stack' = Append(below, [items |-> Goto(below[Len(below)].items, item.lhs), node |-> Len(heap')])
    BY <1>1
<1> HIDE DEF below
<1>6. /\ stack' \in Seq(Entry) /\ Len(stack') = Len(below) + 1
      /\ \A i \in 1..Len(below) : stack'[i] = below[i]
      /\ stack'[Len(stack')].node = Len(heap')
      /\ stack'[Len(stack')].items = Goto(below[Len(below)].items, item.lhs)
      /\ \A i \in 1..Len(stack') : ItemsOK(i, stack'[i].items)
    BY <1>3, <1>4, <1>5, Pushed
<1> DEFINE m == Len(stack) - item.dot
<1>7. m \in 1..m
    BY <1>1, <1>2, ReducedItem DEF Types
<1>8. below[Len(below)] = stack[m]
    BY <1>4, <1>7
<1> QED BY <1>1, <1>2, <1>4, <1>6, <1>8

LEMMA Shifted ==
    ASSUME Types, StackOK, Shift
    PROVE  /\ pc = "parse" /\ yychar \in Terminals /\ yylval \in Node
           /\ Len(stack) < MaxDepth
           /\ stack' \in Seq(Entry) /\ Len(stack') = Len(stack) + 1
           /\ \A i \in 1..Len(stack) : stack'[i] = stack[i]
           /\ stack'[Len(stack')].node = yylval
           /\ stack'[Len(stack')].items = Goto(stack[Len(stack)].items, yychar)
           /\ \A i \in 1..Len(stack') : ItemsOK(i, stack'[i].items)
<1>1. pc = "parse" /\ Len(stack) < MaxDepth /\ yychar # "empty" /\ Goto(Top, yychar) # {}
    BY DEF Shift, Looking, Room
<1> DEFINE n == Len(stack)
<1>2. n \in Nat \ {0} /\ n = Len(stack) /\ stack # << >> /\ stack \in Seq(Entry)
    BY <1>1 DEF Types, StackOK
<1>3. \A i \in 1..n : ItemsOK(i, stack[i].items)
    BY DEF StackOK
<1>4. ItemsOK(n, Top)
    BY <1>2, <1>3 DEF Top
<1> HIDE DEF n
<1>5. yychar \in Symbols
    BY <1>1, <1>2, <1>4, GotoOK
<1>6. yychar \in Terminals
    BY <1>5, NoSuchSymbols DEF Types
<1>7. yylval \in Node /\ yylval \in Nat \ {0}
  <2>1. yylval \in Node
      BY <1>6 DEF StackOK
  <2> QED BY <2>1, NodeIsRange
<1>8. stack' = Append(stack, [items |-> Goto(stack[Len(stack)].items, yychar), node |-> yylval])
    BY DEF Shift, Top
<1>9. /\ stack' \in Seq(Entry) /\ Len(stack') = Len(stack) + 1
      /\ \A i \in 1..Len(stack) : stack'[i] = stack[i]
      /\ stack'[Len(stack')].node = yylval
      /\ stack'[Len(stack')].items = Goto(stack[Len(stack)].items, yychar)
      /\ \A i \in 1..Len(stack') : ItemsOK(i, stack'[i].items)
    BY <1>2, <1>3, <1>7, <1>8, Pushed
<1> QED BY <1>1, <1>6, <1>7, <1>9

LEMMA Accepted ==
    ASSUME Types, StackOK, Accept
    PROVE  /\ pc = "parse" /\ pc' = "use" /\ yychar = "$end" /\ stack' = << >>
           /\ root' = Len(heap') /\ heap'[root'].name = "program"
           /\ UNCHANGED <<source, yychar, yylval, freed, walk>>
           /\ \E item : /\ Looking /\ Reducible(item) /\ heap' = Built(item)
                        /\ item.dot = Len(stack) - 1
<1>1. PICK item \in Closure(Top) :
          Reducible(item) /\ item.lhs = "program" /\ heap' = Built(item) /\ root' = Len(heap')
    BY DEF Accept
<1>2. /\ Looking /\ pc = "parse" /\ pc' = "use" /\ stack' = << >>
      /\ UNCHANGED <<source, yychar, yylval, freed, walk>>
    BY DEF Accept, Looking, Room
<1>3. item.dot = Len(stack) - 1 /\ yychar = "$end" /\ (item.dot > 0 \/ item.dot = 0)
    BY <1>1, <1>2, ReducedItem
<1>4. heap'[Len(heap')].name = "program"
  <2>1. CASE item.dot > 0
    <3>1. heap'[Len(heap')] = [name |-> item.lhs, kids |-> Children(item)]
        BY <1>1, <1>2, <2>1, BuiltByRule
    <3> QED BY <1>1, <3>1
  <2>2. CASE item.dot = 0
    <3>1. heap'[Len(heap')] = [name |-> item.lhs, kids |-> <<Len(heap) + 1>>]
        BY <1>1, <1>2, <2>2, BuiltByEmptyRule
    <3> QED BY <1>1, <3>1
  <2> QED BY <1>3, <2>1, <2>2
<1> QED BY <1>1, <1>2, <1>3, <1>4

-----------------------------------------------------------------------------
(* The types. *)
LEMMA TypesFrom ==
    ASSUME Types, HeapOK', Node \subseteq Node', UNCHANGED <<freed, walk>>,
           pc' \in {"parse", "use"}, pieces' \in 0..MaxPieces,
           yylval' \in Node' \cup {0}, root' \in Node' \cup {0},
           input' \in Seq(Terminals \cup {"error"}),
           yychar' \in Terminals \cup {"empty", "$end", "error"},
           stack' \in Seq(Entry), Len(stack') <= MaxDepth,
           \A i \in 2..Len(stack') : stack'[i].node \in Node'
    PROVE  Types'
<1>1. freed' \subseteq Node'
    BY DEF Types, TypeOK
<1>2. walk' \in Seq([node : Node', i : Nat \ {0}])
  <2> DEFINE A == [node : Node, i : Nat \ {0}]
             B == [node : Node', i : Nat \ {0}]
  <2>1. walk \in Seq(A) /\ walk' = walk
      BY DEF Types, TypeOK
  <2>2. A \subseteq B
      OBVIOUS
  <2> HIDE DEF A, B
  <2>3. walk' \in Seq(B)
      BY <2>1, <2>2
  <2> QED BY <2>3 DEF B
<1> QED BY <1>1, <1>2 DEF Types, TypeOK, HeapOK, NodeType

LEMMA TypesRead ==
    ASSUME Types, Read PROVE Types'
<1>1. PICK text : /\ Scan(text) /\ Tail(text) \in Seq(Terminals \cup {"error"})
                  /\ Head(text) \in Terminals \cup {"error", "$end"}
    BY ReadScans
<1>2. HeapOK' /\ Node \subseteq Node' /\ yylval' \in Node' \cup {0}
    BY <1>1, ScannedOK
<1>3. /\ input' \in Seq(Terminals \cup {"error"})
      /\ yychar' \in Terminals \cup {"empty", "$end", "error"}
      /\ UNCHANGED <<pc, stack, freed, root, walk>>
    BY <1>1 DEF Scan
<1>4. pc = "parse" /\ pieces' \in 0..MaxPieces
    BY ReadScans
<1>5. /\ stack' \in Seq(Entry) /\ Len(stack') <= MaxDepth /\ root' \in Node' \cup {0}
      /\ \A i \in 2..Len(stack') : stack'[i].node \in Node'
    BY <1>2, <1>3 DEF Types, TypeOK
<1> QED BY <1>2, <1>3, <1>4, <1>5, TypesFrom

LEMMA TypesShift ==
    ASSUME Types, StackOK, Shift PROVE Types'
<1>1. UNCHANGED <<heap, freed, root, walk, pc, input, pieces, yylval>> /\ yychar' = "empty"
    BY DEF Shift, source, store
<1>2. HeapOK' /\ Node' = Node
    BY <1>1 DEF Types, TypeOK, HeapOK, NodeType, Node
<1> DEFINE n == Len(stack)
<1>3. /\ pc = "parse" /\ yylval \in Node /\ n < MaxDepth
      /\ stack' \in Seq(Entry) /\ Len(stack') = n + 1
      /\ \A i \in 1..n : stack'[i] = stack[i]
      /\ stack'[Len(stack')].node = yylval
    BY Shifted
<1>4. n \in Nat /\ \A i \in 2..n : stack[i].node \in Node
    BY StackNodes DEF Types
<1> HIDE DEF n
<1>5. Len(stack') <= MaxDepth /\ \A i \in 2..Len(stack') : stack'[i].node \in Node'
    BY <1>2, <1>3, <1>4, BoundsAreNat
<1>6. /\ pieces' \in 0..MaxPieces /\ yylval' \in Node' \cup {0} /\ root' \in Node' \cup {0}
      /\ input' \in Seq(Terminals \cup {"error"})
    BY <1>1, <1>2 DEF Types, TypeOK
<1> QED BY <1>1, <1>2, <1>3, <1>5, <1>6, TypesFrom

LEMMA TypesReduce ==
    ASSUME Types, StackOK, Reduce PROVE Types'
<1>1. PICK item :
           /\ Looking /\ Reducible(item) /\ heap' = Built(item)
           /\ stack' \in Seq(Entry) /\ Len(stack') = Len(stack) - item.dot + 1
           /\ \A i \in 1..(Len(stack) - item.dot) : stack'[i] = stack[i]
           /\ stack'[Len(stack')].node = Len(heap')
    BY Reduced
<1>2. UNCHANGED <<pc, input, pieces, yychar, yylval, freed, root, walk>>
    BY DEF Reduce, source
<1>3. HeapOK' /\ Node \subseteq Node' /\ Len(heap') \in Node'
    BY <1>1, BuiltOK
<1> DEFINE n == Len(stack)
           d == item.dot
<1>4. n \in Nat /\ d \in 0..(n - 1) /\ n < MaxDepth /\ pc = "parse"
    BY <1>1, ReducedItem DEF Types, Looking, Room
<1>5. \A i \in 2..n : stack[i].node \in Node
    BY StackNodes
<1>6. Len(stack') = n - d + 1 /\ \A i \in 1..(n - d) : stack'[i] = stack[i]
    BY <1>1
<1> HIDE DEF n, d
<1>7. Len(stack') <= MaxDepth
    BY <1>4, <1>6, BoundsAreNat
<1>8. ASSUME NEW i \in 2..Len(stack') PROVE stack'[i].node \in Node'
  <2>1. CASE i = Len(stack')
      BY <1>1, <1>3, <2>1
  <2>2. CASE i # Len(stack')
    <3>1. i \in 1..(n - d) /\ i \in 2..n
        BY <1>4, <1>6, <2>2
    <3> QED BY <1>3, <1>5, <1>6, <3>1
  <2> QED BY <2>1, <2>2
<1>9. /\ pieces' \in 0..MaxPieces /\ yylval' \in Node' \cup {0} /\ root' \in Node' \cup {0}
      /\ input' \in Seq(Terminals \cup {"error"})
      /\ yychar' \in Terminals \cup {"empty", "$end", "error"}
    BY <1>2, <1>3 DEF Types, TypeOK
<1> QED BY <1>1, <1>2, <1>3, <1>4, <1>7, <1>8, <1>9, TypesFrom

LEMMA TypesAccept ==
    ASSUME Types, StackOK, Accept PROVE Types'
<1>1. PICK item : Looking /\ Reducible(item) /\ heap' = Built(item)
    BY Accepted
<1>2. HeapOK' /\ Node \subseteq Node' /\ Len(heap') \in Node'
    BY <1>1, BuiltOK
<1>3. /\ pc' = "use" /\ stack' = << >> /\ root' = Len(heap')
      /\ UNCHANGED <<input, pieces, yychar, yylval, freed, walk>>
    BY Accepted DEF source
<1>4. /\ stack' \in Seq(Entry) /\ Len(stack') <= MaxDepth
      /\ \A i \in 2..Len(stack') : stack'[i].node \in Node'
  <2>1. Len(stack') = 0 /\ stack' \in Seq(Entry)
      BY <1>3
  <2> QED BY <2>1, BoundsAreNat
<1>5. /\ pieces' \in 0..MaxPieces /\ yylval' \in Node' \cup {0} /\ root' \in Node' \cup {0}
      /\ input' \in Seq(Terminals \cup {"error"})
      /\ yychar' \in Terminals \cup {"empty", "$end", "error"}
    BY <1>2, <1>3 DEF Types, TypeOK
<1> QED BY <1>2, <1>3, <1>4, <1>5, TypesFrom

Activation == [node : Node, i : Nat \ {0}]

(* The steps of synTreeNodeDelChild. *)
LEMMA Descended ==
    ASSUME Types, DeleteChild
    PROVE  /\ pc = "delete" /\ UNCHANGED <<pc, source, parser, store>>
           /\ Len(walk) \in Nat \ {0} /\ Len(walk') = Len(walk) + 1
           /\ walk' \in Seq(Activation)
           /\ \A p \in 1..(Len(walk) - 1) : walk'[p] = walk[p]
           /\ walk'[Len(walk)] = [node |-> Deepest.node, i |-> Deepest.i + 1]
           /\ Deepest \in Activation
           /\ Deepest.i \in DOMAIN heap[Deepest.node].kids
           /\ walk'[Len(walk')] = [node |-> heap[Deepest.node].kids[Deepest.i], i |-> 1]
<1> DEFINE n == Len(walk)
           old == walk[n]
           top == [node |-> heap[Deepest.node].kids[Deepest.i], i |-> 1]
           again == [node |-> old.node, i |-> old.i + 1]
<1>1. walk \in Seq(Activation) /\ n \in Nat \ {0} /\ n = Len(walk) /\ old = Deepest
    BY DEF Types, TypeOK, Activation, DeleteChild, Deleting, Deepest
<1>2. old \in Activation
    BY <1>1
<1>3. old.i \in DOMAIN heap[old.node].kids
    BY <1>1, <1>2, KidsAreNodes DEF DeleteChild, Activation
<1>4. top \in Activation
    BY <1>1, <1>2, <1>3, KidsAreNodes DEF Activation
<1>5. again \in Activation
    BY <1>2 DEF Activation
<1>6. [old EXCEPT !.i = @ + 1] = again
    BY <1>2 DEF Activation
<1>7. walk' = Append([walk EXCEPT ![n] = again], top)
    BY <1>6 DEF DeleteChild
<1>8. pc = "delete" /\ UNCHANGED <<pc, source, parser, store>>
    BY DEF DeleteChild, Deleting
<1> HIDE DEF n, top, again, old
<1>9. [walk EXCEPT ![n] = again] \in Seq(Activation) /\ Len([walk EXCEPT ![n] = again]) = n
    BY <1>1, <1>5
<1>10. /\ Len(walk') = n + 1 /\ walk' \in Seq(Activation)
       /\ walk'[n + 1] = top /\ walk'[n] = again
       /\ \A p \in 1..(n - 1) : walk'[p] = walk[p]
    BY <1>1, <1>4, <1>5, <1>7, <1>9
<1> QED BY <1>1, <1>2, <1>3, <1>8, <1>10 DEF top, again

LEMMA Ascended ==
    ASSUME Types, FreeNode
    PROVE  /\ pc = "delete" /\ UNCHANGED <<pc, source, parser, heap, root>>
           /\ Len(walk) \in Nat \ {0} /\ Len(walk') = Len(walk) - 1
           /\ walk' \in Seq(Activation)
           /\ \A p \in 1..(Len(walk) - 1) : walk'[p] = walk[p]
           /\ Deepest \in Activation /\ Deepest.i > Len(heap[Deepest.node].kids)
           /\ freed' = freed \cup {Deepest.node}
<1> DEFINE n == Len(walk)
<1>1. walk \in Seq(Activation) /\ n \in Nat \ {0} /\ n = Len(walk) /\ Deepest = walk[n]
    BY DEF Types, TypeOK, Activation, FreeNode, Deleting, Deepest
<1>2. walk' = SubSeq(walk, 1, n - 1)
    BY DEF FreeNode, Front
<1>3. /\ pc = "delete" /\ UNCHANGED <<pc, source, parser, heap, root>>
      /\ Deepest.i > Len(heap[Deepest.node].kids)
      /\ freed' = freed \cup {Deepest.node}
    BY DEF FreeNode, Deleting
<1> HIDE DEF n
<1>4. Deepest \in Activation
    BY <1>1
<1>5. Len(walk') = n - 1 /\ walk' \in Seq(Activation) /\ \A p \in 1..(n - 1) : walk'[p] = walk[p]
    BY <1>1, <1>2
<1> QED BY <1>1, <1>3, <1>4, <1>5

LEMMA TypesNext ==
    ASSUME Types, Stages, StackOK, [Next]_vars PROVE Types'
<1>1. CASE Open
  <2> DEFINE bottom == [items |-> State0, node |-> 0]
  <2>1. bottom \in Entry
    <3>1. State0 \in SUBSET Item
        BY State0OK, ItemSets
    <3> QED BY <3>1 DEF Entry
  <2>2. UNCHANGED <<source, yychar, yylval, store, walk>>
      BY <1>1 DEF Open
  <2>3. CASE pc' = "parse" /\ stack' = <<bottom>>
    <3> HIDE DEF bottom
    <3>1. stack' \in Seq(Entry) /\ Len(stack') = 1
        BY <2>1, <2>3
    <3> QED BY <2>2, <2>3, <3>1, BoundsAreNat DEF Types, TypeOK, source, store, Node
  <2>4. CASE pc' = "exit" /\ stack' = stack
      BY <2>2, <2>4 DEF Types, TypeOK, source, store, Node
  <2> QED BY <1>1, <2>3, <2>4 DEF Open
<1>2. CASE Yyerror \/ UseFails \/ EndDelete \/ Stop \/ UNCHANGED vars
    BY <1>2 DEF Yyerror, UseFails, EndDelete, Stop, vars, source, parser, store, Types, TypeOK, Node
<1>3. CASE Use
  <2>1. walk' = <<[node |-> root, i |-> 1]>> /\ pc' = "delete" /\ UNCHANGED <<source, parser, store>>
      BY <1>3 DEF Use
  <2>2. root \in Node
      BY <1>3 DEF Use, Stages
  <2> DEFINE call == [node |-> root, i |-> 1]
  <2>3. call \in Activation
      BY <2>2 DEF Activation
  <2> HIDE DEF call
  <2>4. <<call>> \in Seq(Activation)
      BY <2>3
  <2>5. walk' \in Seq(Activation)
      BY <2>1, <2>4 DEF call
  <2> QED BY <2>1, <2>5 DEF source, parser, store, Types, TypeOK, Node, Activation
<1>4. CASE DeleteChild
    BY <1>4, Descended DEF source, parser, store, Types, TypeOK, Node, Activation
<1>5. CASE FreeNode
  <2>1. freed' \subseteq Node /\ walk' \in Seq(Activation)
      BY <1>5, Ascended DEF Types, TypeOK, Activation
  <2>2. pc = "delete" /\ UNCHANGED <<pc, source, parser, heap, root>>
      BY <1>5, Ascended
  <2> QED BY <2>1, <2>2 DEF source, parser, Types, TypeOK, Node, Activation
<1> QED BY <1>1, <1>2, <1>3, <1>4, <1>5, TypesRead, TypesShift, TypesReduce, TypesAccept DEF Next

-----------------------------------------------------------------------------
(* The stages, the stack, and the order of allocation. *)
LEMMA NamesDiffer == {"$end", "error", "empty"} \cap Terminals = {}
BY NoSuchSymbols DEF Terminals

LEMMA StagesNext ==
    ASSUME Types, Stages, StackOK, [Next]_vars PROVE Stages'
<1>1. CASE Open
    BY <1>1 DEF Open, store, Stages
<1>2. CASE Read
  <2>1. pc = "parse"
      BY <1>2 DEF Read, Room
  <2>2. UNCHANGED <<pc, freed, walk, root>>
      BY <1>2 DEF Read, Scan
  <2> QED BY <2>1, <2>2 DEF Stages
<1>3. CASE Shift
    BY <1>3 DEF Shift, Looking, Room, store, Stages
<1>4. CASE Reduce
    BY <1>4 DEF Reduce, Looking, Room, Stages
<1>5. CASE Accept
  <2>1. PICK item : Looking /\ Reducible(item) /\ heap' = Built(item)
      BY <1>5, Accepted
  <2>2. Len(heap') \in Node'
      BY <2>1, BuiltOK
  <2> QED BY <1>5, <2>2, Accepted DEF Stages
<1>6. CASE Yyerror
    BY <1>6 DEF Yyerror, Stuck, Looking, Room, parser, store, Stages
<1>7. CASE UseFails
    BY <1>7 DEF UseFails, parser, store, Stages
<1>8. CASE Use
    BY <1>8 DEF Use, parser, store, Stages, Node
<1>9. CASE DeleteChild
    BY <1>9 DEF DeleteChild, Deleting, parser, store, Stages, Node
<1>10. CASE FreeNode
    BY <1>10 DEF FreeNode, Deleting, parser, Stages, Node
<1>11. CASE EndDelete
    BY <1>11 DEF EndDelete, parser, store, Stages, Node
<1>12. CASE Stop \/ UNCHANGED vars
    BY <1>12 DEF Stop, vars, parser, store, Stages, Node
<1> QED
    BY <1>1, <1>2, <1>3, <1>4, <1>5, <1>6, <1>7, <1>8, <1>9, <1>10, <1>11, <1>12 DEF Next

LEMMA StackNext ==
    ASSUME Types, Stages, StackOK, [Next]_vars PROVE StackOK'
<1>1. CASE Open
  <2>1. yychar' = "empty" /\ yychar' \notin Terminals
      BY <1>1, NamesDiffer DEF Open, Stages
  <2>2. CASE stack' = <<[items |-> State0, node |-> 0]>>
    <3>1. Len(stack') = 1 /\ stack'[1].items = State0
        BY <2>2
    <3> QED BY <2>1, <3>1, State0OK DEF StackOK
  <2>3. CASE pc' = "exit" /\ stack' = stack
      BY <2>1, <2>3 DEF StackOK
  <2> QED BY <1>1, <2>2, <2>3 DEF Open
<1>2. CASE Read
  <2>1. PICK text : Scan(text) /\ Head(text) \in Terminals \cup {"error", "$end"}
      BY <1>2, ReadScans
  <2>2. UNCHANGED <<pc, stack>> /\ (yychar' \in Terminals => yylval' \in Node')
    <3>1. CASE yychar' \in {"error", "$end"} /\ UNCHANGED <<yylval, heap>>
        BY <2>1, <3>1, Scanned, NamesDiffer
    <3>2. CASE yylval' = Len(heap') /\ Node' = Node \cup {Len(heap')}
        BY <2>1, <3>2, Scanned
    <3> QED BY <2>1, <3>1, <3>2, Scanned
  <2> QED BY <2>2 DEF StackOK
<1>3. CASE Shift
  <2>1. yychar' \notin Terminals
      BY <1>3, NamesDiffer DEF Shift
  <2>2. Len(stack') > 0
      BY <1>3, Shifted DEF Types
  <2> QED BY <1>3, <2>1, <2>2, Shifted DEF StackOK
<1>4. CASE Reduce
  <2>1. PICK item :
           /\ Looking /\ Reducible(item) /\ heap' = Built(item)
           /\ Len(stack') = Len(stack) - item.dot + 1
           /\ \A i \in 1..Len(stack') : ItemsOK(i, stack'[i].items)
      BY <1>4, Reduced
  <2> DEFINE n == Len(stack)
             d == item.dot
  <2>2. n \in Nat /\ d \in 0..(n - 1) /\ Len(stack') = n - d + 1
      BY <2>1, ReducedItem DEF Types
  <2> HIDE DEF n, d
  <2>3. Len(stack') > 0
      BY <2>2
  <2>4. Node \subseteq Node' /\ UNCHANGED <<yychar, yylval>>
      BY <1>4, <2>1, BuiltOK DEF Reduce
  <2> QED BY <2>1, <2>3, <2>4 DEF StackOK
<1>5. CASE Accept
  <2>1. stack' = << >> /\ pc' = "use" /\ yychar' = "$end"
      BY <1>5, Accepted
  <2>2. Len(stack') = 0
      BY <2>1
  <2> QED BY <2>1, <2>2, NamesDiffer DEF StackOK
<1>6. CASE Yyerror \/ UseFails \/ Use \/ DeleteChild \/ FreeNode \/ EndDelete \/ Stop \/ UNCHANGED vars
  <2>1. UNCHANGED <<stack, yychar, yylval, heap>> /\ (pc' = "parse" => pc = "parse")
      BY <1>6 DEF Yyerror, UseFails, Use, DeleteChild, FreeNode, EndDelete, Stop, vars, parser, store
  <2> QED BY <2>1 DEF StackOK, Node
<1> QED BY <1>1, <1>2, <1>3, <1>4, <1>5, <1>6 DEF Next

(* What the actions that add nodes have in common. *)
LEMMA Grown ==
    ASSUME Types, StackOK, Read \/ Reduce \/ Accept
    PROVE  /\ Node \subseteq Node' /\ \A n \in Node : heap'[n] = heap[n]
           /\ \A n \in Node' \ Node : \A k \in DOMAIN heap'[n].kids :
                 heap'[n].kids[k] \in Nat /\ heap'[n].kids[k] < n
<1>1. Node = 1..Len(heap) /\ Len(heap) \in Nat
    BY NodeIsRange
<1>2. CASE Read
  <2>1. PICK text : Scan(text) /\ Head(text) \in Terminals \cup {"error", "$end"}
      BY <1>2, ReadScans
  <2>2. CASE UNCHANGED heap
      BY <2>2 DEF Node
  <2>3. CASE ~UNCHANGED heap
    <3>1. /\ Node' = Node \cup {Len(heap')} /\ heap'[Len(heap')].kids = << >>
          /\ \A n \in Node : heap'[n] = heap[n]
        BY <2>1, <2>3, Scanned
    <3> QED BY <3>1
  <2> QED BY <2>2, <2>3
<1>3. CASE Reduce \/ Accept
  <2>1. PICK item : Looking /\ Reducible(item) /\ heap' = Built(item)
      BY <1>3, Reduced, Accepted
  <2>2. CASE item.dot > 0
    <3>1. /\ Len(heap') = Len(heap) + 1 /\ Node' = Node \cup {Len(heap')}
          /\ \A n \in Node : heap'[n] = heap[n]
          /\ heap'[Len(heap')] = [name |-> item.lhs, kids |-> Children(item)]
        BY <2>1, <2>2, BuiltByRule
    <3>2. \A k \in DOMAIN Children(item) : Children(item)[k] \in 1..Len(heap)
        BY <1>1, <2>1, ChildrenAre
    <3> HIDE DEF Node
    <3> QED BY <1>1, <3>1, <3>2
  <2>3. CASE item.dot = 0
    <3>0. /\ Len(heap') = Len(heap) + 2 /\ Node' = Node \cup {Len(heap) + 1, Len(heap')}
          /\ \A n \in Node : heap'[n] = heap[n]
          /\ heap'[Len(heap) + 1] = [name |-> "epsilon", kids |-> << >>]
          /\ heap'[Len(heap')] = [name |-> item.lhs, kids |-> <<Len(heap) + 1>>]
        BY <2>1, <2>3, BuiltByEmptyRule
    <3>1. /\ Len(heap') = Len(heap) + 2 /\ Node' = Node \cup {Len(heap) + 1, Len(heap')}
          /\ \A n \in Node : heap'[n] = heap[n]
          /\ heap'[Len(heap) + 1].kids = << >>
          /\ heap'[Len(heap')].kids = <<Len(heap) + 1>>
        BY <3>0
    <3> DEFINE l == Len(heap)
    <3>2. l \in Nat /\ Len(heap') = l + 2
        BY <1>1, <3>1
    <3>3. /\ heap'[l + 1].kids = << >> /\ heap'[l + 2].kids = <<l + 1>>
          /\ Node' = Node \cup {l + 1, l + 2}
        BY <3>1
    <3> HIDE DEF l
    <3>4. \A n \in {l + 1, l + 2} : \A k \in DOMAIN heap'[n].kids :
             heap'[n].kids[k] \in Nat /\ heap'[n].kids[k] < n
        BY <3>2, <3>3
    <3> QED BY <3>1, <3>3, <3>4
  <2> QED BY <2>1, <2>2, <2>3, ReducedItem
<1> QED BY <1>2, <1>3

LEMMA OlderNext ==
    ASSUME Types, StackOK, ChildrenOlder, [Next]_vars PROVE ChildrenOlder'
<1>1. CASE Read \/ Reduce \/ Accept
    BY <1>1, Grown DEF ChildrenOlder
<1>2. CASE ~(Read \/ Reduce \/ Accept)
  <2>1. UNCHANGED heap
      BY <1>2 DEF Next, Open, Shift, Yyerror, UseFails, Use, DeleteChild, FreeNode, EndDelete, Stop,
                  vars, store
  <2> QED BY <2>1 DEF ChildrenOlder, Node
<1> QED BY <1>1, <1>2

-----------------------------------------------------------------------------
(* One owner for every node. *)
Unique ==
    \A m, n \in Node : \A k \in DOMAIN heap[m].kids, l \in DOMAIN heap[n].kids :
        heap[m].kids[k] = heap[n].kids[l] => m = n /\ k = l
StackDistinct == \A i, j \in 2..Len(stack) : stack[i].node = stack[j].node => i = j
Owned ==
    \A n \in Node : /\ InTree(n) \/ OnStack(n) \/ InLookahead(n) \/ n = root
                    /\ ~(OnStack(n) /\ InLookahead(n))
                    /\ InTree(n) => ~OnStack(n) /\ ~InLookahead(n) /\ n # root

LEMMA OneOwnerIs == OneOwner <=> (pc \in {"parse", "use"} => Unique /\ StackDistinct /\ Owned)
BY DEF OneOwner, Unique, StackDistinct, Owned

LEMMA OnlyNodesInTree ==
    ASSUME Types, NEW n, InTree(n) PROVE n \in Node
BY KidsAreNodes DEF InTree

LEMMA OnlyNodesOnStack ==
    ASSUME Types, NEW n, OnStack(n) PROVE n \in Node
BY StackNodes DEF OnStack

LEMMA OwnerRead ==
    ASSUME Types, Stages, StackOK, OneOwner, Read PROVE OneOwner'
<1>1. PICK text : Scan(text) /\ Head(text) \in Terminals \cup {"error", "$end"}
    BY ReadScans
<1>2. /\ pc = "parse" /\ yychar = "empty" /\ root = 0 /\ Unique /\ StackDistinct /\ Owned
      /\ UNCHANGED <<pc, stack, root>>
    BY <1>1, ReadScans, Scanned, OneOwnerIs DEF Stages
<1>3. \A n : OnStack(n)' <=> OnStack(n)
    BY <1>2 DEF OnStack
<1>4. \A n \in Node : ~InLookahead(n)
    BY <1>2 DEF InLookahead
<1>5. StackDistinct'
    BY <1>2 DEF StackDistinct
<1>6. CASE yychar' \in {"error", "$end"} /\ UNCHANGED <<yylval, heap>>
  <2>1. Node' = Node /\ Unique' /\ \A n : InTree(n)' <=> InTree(n)
      BY <1>2, <1>6 DEF Unique, InTree, Node
  <2>2. \A n : ~InLookahead(n)'
      BY <1>6 DEF InLookahead
  <2>3. Owned'
      BY <1>2, <1>3, <1>4, <2>1, <2>2 DEF Owned
  <2> QED BY <1>5, <2>1, <2>3 DEF OneOwner, Unique, StackDistinct, Owned
<1>7. CASE yychar' \in Terminals /\ ~UNCHANGED <<yylval, heap>>
  <2> DEFINE N == Len(heap')
  <2>1. /\ Node' = Node \cup {N} /\ heap'[N].kids = << >> /\ yylval' = N
        /\ \A n \in Node : heap'[n] = heap[n]
      BY <1>1, <1>7, Scanned
  <2>2. N \notin Node /\ N # 0
      BY <1>1, <1>7, Scanned, NodeIsRange
  <2> HIDE DEF N
  <2>3. Unique'
      BY <1>2, <2>1 DEF Unique
  <2>4. \A n : InTree(n)' <=> InTree(n)
      BY <2>1 DEF InTree
  <2>5. \A n : InLookahead(n)' <=> n = N
      BY <1>7, <2>1, NamesDiffer DEF InLookahead
  <2>6. ~InTree(N) /\ ~OnStack(N)
      BY <2>2, OnlyNodesInTree, OnlyNodesOnStack
  <2>7. Owned'
    <3> SUFFICES ASSUME NEW n \in Node'
                 PROVE  /\ InTree(n)' \/ OnStack(n)' \/ InLookahead(n)' \/ n = root'
                        /\ ~(OnStack(n)' /\ InLookahead(n)')
                        /\ InTree(n)' => ~OnStack(n)' /\ ~InLookahead(n)' /\ n # root'
        BY DEF Owned
    <3>1. CASE n = N
        BY <1>3, <2>4, <2>5, <2>6, <3>1
    <3>2. CASE n \in Node
        BY <1>2, <1>3, <1>4, <2>2, <2>4, <2>5, <3>2 DEF Owned
    <3> QED BY <2>1, <3>1, <3>2
  <2> QED BY <1>5, <2>3, <2>7 DEF OneOwner, Unique, StackDistinct, Owned
<1> QED BY <1>1, <1>6, <1>7, Scanned

LEMMA OwnerShift ==
    ASSUME Types, Stages, StackOK, OneOwner, Shift PROVE OneOwner'
<1> DEFINE s == Len(stack)
<1>1. /\ pc = "parse" /\ yychar \in Terminals /\ yylval \in Node
      /\ Len(stack') = s + 1
      /\ \A i \in 1..s : stack'[i] = stack[i]
      /\ stack'[Len(stack')].node = yylval
    BY Shifted
<1>2. /\ yychar \notin {"empty", "$end", "error"} /\ yychar' = "empty" /\ root = 0
      /\ UNCHANGED <<pc, heap, root>> /\ Unique /\ StackDistinct /\ Owned /\ s \in Nat
    BY <1>1, NamesDiffer, OneOwnerIs DEF Shift, store, Stages, Types
<1>3. \A i, j \in 2..s : stack[i].node = stack[j].node => i = j
    BY <1>2 DEF StackDistinct
<1>4. \A n : OnStack(n) <=> \E i \in 2..s : stack[i].node = n
    BY DEF OnStack
<1> HIDE DEF s
<1>5. \A n : InTree(n)' <=> InTree(n)
    BY <1>2 DEF InTree, Node
<1>6. s > 0
    BY <1>1 DEF StackOK, s
<1>7. \A n : OnStack(n)' <=> OnStack(n) \/ n = yylval
  <2>1. \A n : OnStack(n)' <=> \E i \in 2..(s + 1) : stack'[i].node = n
      BY <1>1 DEF OnStack
  <2>2. \A i \in 2..(s + 1) : i = s + 1 \/ i \in 2..s
      BY <1>2
  <2>3. s + 1 \in 2..(s + 1) /\ stack'[s + 1].node = yylval
      BY <1>1, <1>2, <1>6
  <2>4. \A i \in 2..s : i \in 2..(s + 1) /\ stack'[i] = stack[i]
      BY <1>1, <1>2
  <2> QED BY <1>4, <2>1, <2>2, <2>3, <2>4
<1>8. ~OnStack(yylval) /\ ~InTree(yylval)
    BY <1>1, <1>2 DEF Owned, InLookahead
<1>9. \A n : ~InLookahead(n)'
    BY <1>2 DEF InLookahead
<1>10. \A n : InLookahead(n) <=> n = yylval
    BY <1>2 DEF InLookahead
<1>11. Node' = Node /\ Unique' /\ \A n \in Node : n # 0
    BY <1>2, NodeIsRange DEF Unique, Node
<1>12. Owned'
    BY <1>2, <1>5, <1>7, <1>8, <1>9, <1>10, <1>11 DEF Owned
<1>13. StackDistinct'
  <2>1. \A i \in 2..s : stack[i].node # yylval
      BY <1>4, <1>8
  <2> QED BY <1>1, <1>2, <1>3, <2>1 DEF StackDistinct
<1> QED BY <1>11, <1>12, <1>13 DEF OneOwner, Unique, StackDistinct, Owned

(* The symbols an action takes from the stack. *)
Taken(item) == {stack[i].node : i \in (Len(stack) - item.dot + 1)..Len(stack)}

LEMMA TakenIs ==
    ASSUME Types, StackOK, Looking, NEW item, Reducible(item)
    PROVE  /\ \A k \in DOMAIN Children(item) : Children(item)[k] \in Taken(item)
           /\ \A n \in Taken(item) : OnStack(n) /\ \E k \in DOMAIN Children(item) : Children(item)[k] = n
<1> DEFINE s == Len(stack)
           d == item.dot
<1>1. s \in Nat /\ d \in 0..(s - 1) /\ DOMAIN Children(item) = 1..d
    BY ReducedItem, ChildrenAre DEF Types
<1>2. \A k \in 1..d : Children(item)[k] = stack[s - d + k].node
    BY ChildrenAre
<1>3. /\ \A n : n \in Taken(item) <=> \E i \in (s - d + 1)..s : stack[i].node = n
      /\ \A n : OnStack(n) <=> \E i \in 2..s : stack[i].node = n
    BY DEF Taken, OnStack
<1> HIDE DEF s, d
<1>4. \A k \in 1..d : s - d + k \in (s - d + 1)..s
    BY <1>1
<1>5. \A i \in (s - d + 1)..s : i \in 2..s /\ i - (s - d) \in 1..d /\ s - d + (i - (s - d)) = i
    BY <1>1
<1>6. \A k \in DOMAIN Children(item) : Children(item)[k] \in Taken(item)
    BY <1>1, <1>2, <1>3, <1>4
<1>7. ASSUME NEW n \in Taken(item)
      PROVE  OnStack(n) /\ \E k \in DOMAIN Children(item) : Children(item)[k] = n
  <2>1. PICK i \in (s - d + 1)..s : stack[i].node = n
      BY <1>3
  <2>2. i \in 2..s /\ i - (s - d) \in 1..d /\ s - d + (i - (s - d)) = i
      BY <1>1, <1>5
  <2>3. Children(item)[i - (s - d)] = n
      BY <1>2, <2>1, <2>2
  <2> QED BY <1>1, <1>3, <2>1, <2>2, <2>3
<1> QED BY <1>6, <1>7

LEMMA NextNodes ==
    ASSUME Types
    PROVE  Len(heap) + 1 \notin Node /\ Len(heap) + 2 \notin Node /\ Len(heap) + 1 # Len(heap) + 2
<1> DEFINE l == Len(heap)
<1>1. l \in Nat /\ Node = 1..l
    BY NodeIsRange
<1> HIDE DEF l
<1>2. l + 1 \notin Node /\ l + 2 \notin Node /\ l + 1 # l + 2
    BY <1>1
<1> QED BY <1>2 DEF l

LEMMA BuiltTree ==
    ASSUME Types, StackOK, Looking, NEW item, Reducible(item), heap' = Built(item),
           Unique, StackDistinct, Owned
    PROVE  /\ Unique'
           /\ \A n : InTree(n)' <=> \/ InTree(n) \/ n \in Taken(item)
                                    \/ item.dot = 0 /\ n = Len(heap) + 1
           /\ item.dot = 0 => Taken(item) = {}
<1> DEFINE N == Len(heap')
<1>1. \A n \in Taken(item) : ~InTree(n)
    BY TakenIs, OnlyNodesOnStack DEF Owned
<1>2. CASE item.dot > 0
  <2> DEFINE kids == Children(item)
  <2>1. /\ Node' = Node \cup {N} /\ \A n \in Node : heap'[n] = heap[n]
        /\ heap'[N] = [name |-> item.lhs, kids |-> kids]
      BY <1>2, BuiltByRule
  <2>2. heap'[N].kids = kids
      BY <2>1
  <2>3. \A k \in DOMAIN kids : kids[k] \in Taken(item)
      BY TakenIs
  <2>4. \A n \in Taken(item) : \E k \in DOMAIN kids : kids[k] = n
      BY TakenIs
  <2>5. N \notin Node
    <3>1. N = Len(heap) + 1
        BY <1>2, BuiltByRule
    <3> QED BY <3>1, NextNodes
  <2>6. \A k, l \in DOMAIN kids : kids[k] = kids[l] => k = l
    <3> DEFINE s == Len(stack)
               d == item.dot
    <3>1. s \in Nat /\ d \in 0..(s - 1) /\ DOMAIN kids = 1..d
          /\ \A k \in 1..d : kids[k] = stack[s - d + k].node /\ s - d + k \in 2..s
        BY ReducedItem, ChildrenAre DEF Types
    <3>2. \A i, j \in 2..s : stack[i].node = stack[j].node => i = j
        BY DEF StackDistinct
    <3> HIDE DEF s, d, kids
    <3> QED BY <3>1, <3>2
  <2> HIDE DEF N, kids
  <2>7. Unique'
    <3> SUFFICES ASSUME NEW m \in Node', NEW n \in Node',
                        NEW k \in DOMAIN heap'[m].kids, NEW l \in DOMAIN heap'[n].kids,
                        heap'[m].kids[k] = heap'[n].kids[l]
                 PROVE  m = n /\ k = l
        BY DEF Unique
    <3>1. CASE m \in Node /\ n \in Node
        BY <2>1, <3>1 DEF Unique
    <3>2. CASE m = N /\ n = N
        BY <2>2, <2>6, <3>2
    <3>3. CASE m \in Node /\ n = N
      <4>1. InTree(heap'[m].kids[k])
          BY <2>1, <3>3 DEF InTree
      <4>2. heap'[n].kids[l] \in Taken(item)
          BY <2>2, <2>3, <3>3
      <4> QED BY <1>1, <4>1, <4>2
    <3>4. CASE m = N /\ n \in Node
      <4>1. InTree(heap'[n].kids[l])
          BY <2>1, <3>4 DEF InTree
      <4>2. heap'[m].kids[k] \in Taken(item)
          BY <2>2, <2>3, <3>4
      <4> QED BY <1>1, <4>1, <4>2
    <3> QED BY <2>1, <3>1, <3>2, <3>3, <3>4
  <2>8. \A n : InTree(n)' <=> InTree(n) \/ n \in Taken(item)
    <3>1. \A n : InTree(n)' <=> \/ \E m \in Node : \E k \in DOMAIN heap'[m].kids : heap'[m].kids[k] = n
                                \/ \E k \in DOMAIN kids : kids[k] = n
        BY <2>1, <2>2 DEF InTree
    <3>2. \A n : InTree(n) <=> \E m \in Node : \E k \in DOMAIN heap'[m].kids : heap'[m].kids[k] = n
        BY <2>1 DEF InTree
    <3>3. \A n : n \in Taken(item) <=> \E k \in DOMAIN kids : kids[k] = n
        BY <2>3, <2>4
    <3> QED BY <3>1, <3>2, <3>3
  <2> QED BY <1>2, <2>7, <2>8
<1>3. CASE item.dot = 0
  <2> DEFINE E == Len(heap) + 1
  <2>1. /\ Node' = Node \cup {E, N} /\ \A n \in Node : heap'[n] = heap[n]
        /\ heap'[E] = [name |-> "epsilon", kids |-> << >>]
        /\ heap'[N] = [name |-> item.lhs, kids |-> <<E>>]
      BY <1>3, BuiltByEmptyRule
  <2>2. E \notin Node /\ N \notin Node /\ E # N
    <3>1. N = Len(heap) + 2
        BY <1>3, BuiltByEmptyRule
    <3> QED BY <3>1, NextNodes
  <2>3. heap'[E].kids = << >> /\ heap'[N].kids = <<E>>
      BY <2>1
  <2>4. ~InTree(E) /\ E = Len(heap) + 1
      BY <2>2, OnlyNodesInTree
  <2>5. Taken(item) = {}
    <3>1. DOMAIN Children(item) = {}
        BY <1>3, ChildrenAre
    <3> QED BY <3>1, TakenIs
  <2> HIDE DEF E, N
  <2>6. DOMAIN heap'[E].kids = {} /\ DOMAIN heap'[N].kids = {1} /\ heap'[N].kids[1] = E
      BY <2>3
  <2>7. \A n : InTree(n)' <=> InTree(n) \/ n = E
    <3>1. \A n : InTree(n)' <=> \/ \E m \in Node : \E k \in DOMAIN heap'[m].kids : heap'[m].kids[k] = n
                                \/ n = E
        BY <2>1, <2>6 DEF InTree
    <3>2. \A n : InTree(n) <=> \E m \in Node : \E k \in DOMAIN heap'[m].kids : heap'[m].kids[k] = n
        BY <2>1 DEF InTree
    <3> QED BY <3>1, <3>2
  <2>8. Unique'
    <3> SUFFICES ASSUME NEW m \in Node', NEW n \in Node',
                        NEW k \in DOMAIN heap'[m].kids, NEW l \in DOMAIN heap'[n].kids,
                        heap'[m].kids[k] = heap'[n].kids[l]
                 PROVE  m = n /\ k = l
        BY DEF Unique
    <3>1. m # E /\ n # E
        BY <2>6
    <3>2. CASE m \in Node /\ n \in Node
        BY <2>1, <3>2 DEF Unique
    <3>3. CASE m = N /\ n = N
        BY <2>6, <3>3
    <3>4. CASE m \in Node /\ n = N
      <4>1. InTree(heap'[m].kids[k])
          BY <2>1, <3>4 DEF InTree
      <4> QED BY <2>4, <2>6, <3>4, <4>1
    <3>5. CASE m = N /\ n \in Node
      <4>1. InTree(heap'[n].kids[l])
          BY <2>1, <3>5 DEF InTree
      <4> QED BY <2>4, <2>6, <3>5, <4>1
    <3> QED BY <2>1, <3>1, <3>2, <3>3, <3>4, <3>5
  <2> QED BY <1>3, <2>4, <2>5, <2>7, <2>8
<1> QED BY <1>2, <1>3, ReducedItem

(* The new node of an action, and the epsilon below it. *)
LEMMA BuiltNodes ==
    ASSUME Types, StackOK, Looking, NEW item, Reducible(item), heap' = Built(item)
    PROVE  /\ Len(heap') \in Node' /\ Len(heap') \notin Node /\ Len(heap') # 0
           /\ Node \subseteq Node'
           /\ \A n \in Node' : n \in Node \/ n = Len(heap') \/ (item.dot = 0 /\ n = Len(heap) + 1)
           /\ Len(heap) + 1 \notin Node
           /\ item.dot = 0 => Len(heap') # Len(heap) + 1
<1>1. Len(heap) + 1 \notin Node /\ Len(heap) + 2 \notin Node /\ Len(heap) + 1 # Len(heap) + 2
    BY NextNodes
<1>2. Len(heap) \in Nat
    BY NodeIsRange
<1>3. Len(heap) + 1 # 0 /\ Len(heap) + 2 # 0
    BY <1>2
<1>4. Node \subseteq Node' /\ Len(heap') \in Node'
    BY BuiltOK
<1>5. CASE item.dot > 0
  <2>1. Len(heap') = Len(heap) + 1 /\ Node' = Node \cup {Len(heap')}
      BY <1>5, BuiltByRule
  <2> QED BY <1>1, <1>3, <1>4, <1>5, <2>1
<1>6. CASE item.dot = 0
  <2>1. Len(heap') = Len(heap) + 2 /\ Node' = Node \cup {Len(heap) + 1, Len(heap')}
      BY <1>6, BuiltByEmptyRule
  <2> QED BY <1>1, <1>3, <1>4, <1>6, <2>1
<1> QED BY <1>5, <1>6, ReducedItem

LEMMA OwnerReduce ==
    ASSUME Types, Stages, StackOK, OneOwner, Reduce PROVE OneOwner'
<1> DEFINE s == Len(stack)
           N == Len(heap')
<1>1. PICK item :
           /\ Looking /\ Reducible(item) /\ heap' = Built(item)
           /\ Len(stack') = s - item.dot + 1
           /\ \A i \in 1..(s - item.dot) : stack'[i] = stack[i]
           /\ stack'[Len(stack')].node = N
    BY Reduced
<1>2. /\ pc = "parse" /\ root = 0 /\ UNCHANGED <<pc, root, yychar, yylval>>
      /\ Unique /\ StackDistinct /\ Owned
    BY <1>1, OneOwnerIs DEF Reduce, Looking, Room, Stages
<1> DEFINE d == item.dot
<1>3. s \in Nat /\ d \in 0..(s - 1)
    BY <1>1, ReducedItem DEF Types
<1>4. /\ N \in Node' /\ N \notin Node /\ N # 0 /\ Node \subseteq Node'
      /\ \A n \in Node' : n \in Node \/ n = N \/ (d = 0 /\ n = Len(heap) + 1)
      /\ Len(heap) + 1 \notin Node /\ (d = 0 => N # Len(heap) + 1)
    BY <1>1, BuiltNodes
<1>5. /\ Unique'
      /\ \A n : InTree(n)' <=> InTree(n) \/ n \in Taken(item) \/ (d = 0 /\ n = Len(heap) + 1)
    BY <1>1, <1>2, BuiltTree
<1>6. \A n \in Taken(item) : OnStack(n)
    BY <1>1, TakenIs
<1>7. /\ \A n : n \in Taken(item) <=> \E i \in (s - d + 1)..s : stack[i].node = n
      /\ \A n : OnStack(n) <=> \E i \in 2..s : stack[i].node = n
      /\ \A n : OnStack(n)' <=> \E i \in 2..(s - d + 1) : stack'[i].node = n
      /\ \A i, j \in 2..s : stack[i].node = stack[j].node => i = j
      /\ \A i \in 2..s : stack[i].node \in Node
    BY <1>1, <1>2, StackNodes DEF Taken, OnStack, StackDistinct
<1>8. /\ Len(stack') = s - d + 1 /\ \A i \in 1..(s - d) : stack'[i] = stack[i]
      /\ stack'[s - d + 1].node = N
    BY <1>1
<1> HIDE DEF s, d, N
<1>9. \A n : OnStack(n)' <=> (OnStack(n) /\ n \notin Taken(item)) \/ n = N
  <2>1. ASSUME NEW n, OnStack(n)', n # N PROVE OnStack(n) /\ n \notin Taken(item)
    <3>1. PICK i \in 2..(s - d + 1) : stack'[i].node = n
        BY <1>7, <2>1
    <3>2. i \in 2..(s - d) /\ stack[i].node = n /\ i \in 2..s
        BY <1>3, <1>8, <2>1, <3>1
    <3>3. \A j \in (s - d + 1)..s : j \in 2..s /\ j # i
        BY <1>3, <3>2
    <3> QED BY <1>7, <3>2, <3>3
  <2>2. ASSUME NEW n, OnStack(n), n \notin Taken(item) PROVE OnStack(n)'
    <3>1. PICK i \in 2..s : stack[i].node = n
        BY <1>7, <2>2
    <3>2. i \notin (s - d + 1)..s
        BY <1>7, <2>2, <3>1
    <3>3. i \in 2..(s - d + 1) /\ stack'[i].node = n
        BY <1>3, <1>8, <3>1, <3>2
    <3> QED BY <1>7, <3>3
  <2>3. \A n : n = N => OnStack(n)'
    <3>1. s - d + 1 \in 2..(s - d + 1)
        BY <1>3
    <3> QED BY <1>7, <1>8, <3>1
  <2> QED BY <2>1, <2>2, <2>3
<1>10. StackDistinct'
  <2> SUFFICES ASSUME NEW i \in 2..(s - d + 1), NEW j \in 2..(s - d + 1),
                      stack'[i].node = stack'[j].node
               PROVE  i = j
      BY <1>8 DEF StackDistinct
  <2>1. \A k \in 2..(s - d + 1) : k = s - d + 1 \/ (k \in 2..s /\ stack'[k] = stack[k])
      BY <1>3, <1>8
  <2> QED BY <1>4, <1>7, <1>8, <2>1
<1>11. /\ \A n : InLookahead(n)' <=> InLookahead(n)
       /\ \A n : InLookahead(n) => n \in Node \cup {0}
    BY <1>2 DEF InLookahead, Types, TypeOK
<1>12. \A n : InTree(n) \/ OnStack(n) => n \in Node
    BY OnlyNodesInTree, OnlyNodesOnStack
<1>13. Len(heap) + 1 # 0 /\ 0 \notin Node
    BY NodeIsRange
<1>14. Owned'
  <2> SUFFICES ASSUME NEW n \in Node'
               PROVE  /\ InTree(n)' \/ OnStack(n)' \/ InLookahead(n)' \/ n = root'
                      /\ ~(OnStack(n)' /\ InLookahead(n)')
                      /\ InTree(n)' => ~OnStack(n)' /\ ~InLookahead(n)' /\ n # root'
      BY DEF Owned
  <2>1. CASE n \in Node
      BY <1>2, <1>4, <1>5, <1>6, <1>9, <1>11, <1>13, <2>1 DEF Owned
  <2>2. CASE n = N
    <3>1. ~InTree(n)'
        BY <1>4, <1>5, <1>6, <1>12, <2>2
    <3>2. OnStack(n)' /\ ~InLookahead(n)'
        BY <1>4, <1>9, <1>11, <2>2
    <3> QED BY <3>1, <3>2
  <2>3. CASE d = 0 /\ n = Len(heap) + 1
    <3>1. ~OnStack(n)' /\ ~InLookahead(n)'
        BY <1>4, <1>9, <1>11, <1>12, <1>13, <2>3
    <3>2. InTree(n)' /\ n # root'
        BY <1>2, <1>5, <1>13, <2>3
    <3> QED BY <3>1, <3>2
  <2> QED BY <1>4, <2>1, <2>2, <2>3
<1> QED BY <1>5, <1>10, <1>14 DEF OneOwner, Unique, StackDistinct, Owned

LEMMA OwnerAccept ==
    ASSUME Types, Stages, StackOK, OneOwner, Accept PROVE OneOwner'
<1> DEFINE N == Len(heap')
<1>1. PICK item : Looking /\ Reducible(item) /\ heap' = Built(item) /\ item.dot = Len(stack) - 1
    BY Accepted
<1>2. /\ pc = "parse" /\ root = 0 /\ yychar = "$end" /\ stack' = << >> /\ root' = N
      /\ UNCHANGED yychar /\ Unique /\ StackDistinct /\ Owned
    BY Accepted, OneOwnerIs DEF Stages
<1>3. /\ N \in Node' /\ N \notin Node /\ N # 0 /\ Node \subseteq Node'
      /\ \A n \in Node' : n \in Node \/ n = N \/ (item.dot = 0 /\ n = Len(heap) + 1)
      /\ Len(heap) + 1 \notin Node /\ (item.dot = 0 => N # Len(heap) + 1)
    BY <1>1, BuiltNodes
<1>4. /\ Unique'
      /\ \A n : InTree(n)' <=> InTree(n) \/ n \in Taken(item) \/ (item.dot = 0 /\ n = Len(heap) + 1)
    BY <1>1, <1>2, BuiltTree
<1>5. \A n : OnStack(n) <=> n \in Taken(item)
  <2>1. Len(stack) - item.dot + 1 = 2
      BY <1>1 DEF Types
  <2> QED BY <2>1 DEF OnStack, Taken
<1>6. \A n : ~OnStack(n)' /\ ~InLookahead(n) /\ ~InLookahead(n)'
  <2>1. Len(stack') = 0
      BY <1>2
  <2> QED BY <1>2, <2>1 DEF OnStack, InLookahead
<1>7. \A n : InTree(n) \/ OnStack(n) => n \in Node
    BY OnlyNodesInTree, OnlyNodesOnStack
<1>8. StackDistinct'
  <2>1. Len(stack') = 0
      BY <1>2
  <2> QED BY <2>1 DEF StackDistinct
<1>9. 0 \notin Node
    BY NodeIsRange
<1> HIDE DEF N
<1>10. Owned'
  <2> SUFFICES ASSUME NEW n \in Node'
               PROVE  /\ InTree(n)' \/ OnStack(n)' \/ InLookahead(n)' \/ n = root'
                      /\ ~(OnStack(n)' /\ InLookahead(n)')
                      /\ InTree(n)' => ~OnStack(n)' /\ ~InLookahead(n)' /\ n # root'
      BY DEF Owned
  <2>1. CASE n \in Node
      BY <1>2, <1>3, <1>4, <1>5, <1>6, <1>9, <2>1 DEF Owned
  <2>2. CASE n = N
      BY <1>2, <1>3, <1>4, <1>5, <1>6, <1>7, <2>2
  <2>3. CASE item.dot = 0 /\ n = Len(heap) + 1
      BY <1>2, <1>3, <1>4, <1>6, <2>3
  <2> QED BY <1>3, <2>1, <2>2, <2>3
<1> QED BY <1>4, <1>8, <1>10 DEF OneOwner, Unique, StackDistinct, Owned

LEMMA OwnerNext ==
    ASSUME Types, Stages, StackOK, OneOwner, [Next]_vars PROVE OneOwner'
<1>1. CASE Open
  <2>1. Node' = {}
      BY <1>1 DEF Open, Stages, store, Node
  <2>2. CASE stack' = <<[items |-> State0, node |-> 0]>>
    <3>1. Len(stack') = 1
        BY <2>2
    <3> QED BY <2>1, <3>1 DEF OneOwner
  <2>3. CASE pc' = "exit"
      BY <2>3 DEF OneOwner
  <2> QED BY <1>1, <2>2, <2>3 DEF Open
<1>2. CASE Yyerror \/ UseFails \/ Use \/ DeleteChild \/ FreeNode \/ EndDelete
    BY <1>2 DEF Yyerror, UseFails, Use, DeleteChild, FreeNode, EndDelete, Deleting, OneOwner
<1>3. CASE Stop \/ UNCHANGED vars
    BY <1>3 DEF Stop, vars, parser, store, OneOwner, InTree, OnStack, InLookahead, Node
<1> QED BY <1>1, <1>2, <1>3, OwnerRead, OwnerShift, OwnerReduce, OwnerAccept DEF Next

-----------------------------------------------------------------------------
(* The finished tree, and the walk that frees it. *)
LEMMA TreeNext ==
    ASSUME Types, Stages, StackOK, OneOwner, IsTree, [Next]_vars PROVE IsTree'
<1>1. CASE pc' = "use"
  <2>1. stack' = << >> /\ yychar' = "$end"
      BY <1>1, StagesNext DEF Stages
  <2>2. (Unique /\ Owned)'
      BY <1>1, OwnerNext DEF OneOwner, Unique, Owned
  <2>3. \A n : ~OnStack(n)' /\ ~InLookahead(n)'
    <3>1. Len(stack') = 0
        BY <2>1
    <3> QED BY <2>1, <3>1 DEF OnStack, InLookahead
  <2> QED BY <2>2, <2>3 DEF IsTree, Unique, Owned
<1>2. CASE pc' = "delete"
  <2>1. pc \in {"use", "delete"} /\ UNCHANGED <<heap, root>>
      BY <1>2 DEF Next, Open, Read, Scan, Shift, Reduce, Accept, Yyerror, UseFails, Use, DeleteChild,
                  FreeNode, EndDelete, Stop, Deleting, Looking, Room, vars, store
  <2> QED BY <2>1 DEF IsTree, InTree, Node
<1> QED BY <1>1, <1>2 DEF IsTree

LEMMA UniqueKids ==
    ASSUME IsTree, pc \in {"use", "delete"},
           NEW m \in Node, NEW n \in Node,
           NEW k \in DOMAIN heap[m].kids, NEW l \in DOMAIN heap[n].kids,
           Kid(m, k) = Kid(n, l)
    PROVE  m = n /\ k = l
BY DEF IsTree, Kid

(* What the walk knows of the nodes, after a step that leaves the heap. *)
LEMMA VisitsThen ==
    ASSUME heap' = heap, Visited(walk', freed')
    PROVE  Visits'
BY DEF Visits, Visited, Node, Kid

LEMMA WalkUse ==
    ASSUME Types, Stages, IsTree, Use PROVE WalkOK'
<1>1. /\ pc = "use" /\ freed = {} /\ root \in Node
      /\ walk' = <<[node |-> root, i |-> 1]>> /\ UNCHANGED <<heap, root, freed>>
    BY DEF Use, Stages, store
<1>2. Len(walk') = 1 /\ DOMAIN walk' = {1} /\ walk'[1].node = root /\ walk'[1].i = 1
    BY <1>1
<1>3. \A m \in Node : \A k \in DOMAIN heap[m].kids : Kid(m, k) # root
    BY <1>1, KidsAreNodes DEF IsTree, InTree, Kid
<1>4. \A n : Active(walk', n) <=> n = root
    BY <1>2 DEF Active
<1>5. Len(heap[root].kids) \in Nat
    BY <1>1, KidsAreNodes
<1>6. Path'
  <2>1. 1 \in 1..(Len(heap[root].kids) + 1)
      BY <1>5
  <2> QED BY <1>1, <1>2, <2>1 DEF Path
<1>7. Visits'
  <2>1. \A k \in DOMAIN heap[root].kids : ~(k < 1)
      BY <1>1, KidsAreNodes
  <2>2. Visited(walk', freed')
      BY <1>1, <1>2, <1>3, <1>4, <2>1 DEF Visited, Kid
  <2> QED BY <1>1, <2>2, VisitsThen
<1> QED BY <1>6, <1>7 DEF WalkOK

LEMMA WalkIs ==
    ASSUME Types
    PROVE  /\ walk \in Seq(Activation) /\ Len(walk) \in Nat /\ DOMAIN walk = 1..Len(walk)
           /\ \A p \in 1..Len(walk) : walk[p].node \in Node /\ walk[p].i \in Nat \ {0}
<1>1. walk \in Seq(Activation)
    BY DEF Types, TypeOK, Activation
<1>2. \A p \in 1..Len(walk) : walk[p] \in Activation
    BY <1>1
<1> QED BY <1>1, <1>2 DEF Activation

(* The child an activation is about to visit. *)
LEMMA WalkDeleteChild ==
    ASSUME Types, ChildrenOlder, IsTree, WalkOK, DeleteChild PROVE WalkOK'
<1> DEFINE n == Len(walk)
           m0 == walk[n].node
           i0 == walk[n].i
           c == Kid(m0, i0)
<1>1. /\ pc = "delete" /\ UNCHANGED <<pc, heap, root, freed>>
      /\ n \in Nat \ {0} /\ Len(walk') = n + 1 /\ DOMAIN walk' = 1..(n + 1)
      /\ \A p \in 1..(n - 1) : walk'[p] = walk[p]
      /\ walk'[n].node = m0 /\ walk'[n].i = i0 + 1
      /\ walk'[n + 1].node = c /\ walk'[n + 1].i = 1
      /\ i0 \in DOMAIN heap[m0].kids
    BY Descended DEF Deepest, store, Kid
<1>2. /\ DOMAIN walk = 1..n
      /\ \A p \in 1..n : walk[p].node \in Node /\ walk[p].i \in Nat \ {0}
    BY WalkIs
<1>3. m0 \in Node /\ i0 \in Nat \ {0} /\ n \in 1..n
    BY <1>1, <1>2
<1>4. c \in Node
    BY <1>1, <1>3, KidsAreNodes DEF Kid
<1>5. Path /\ Visited(walk, freed)
    BY <1>1 DEF WalkOK, Visits
<1>6. \A m \in Node : \A k \in DOMAIN heap[m].kids : k \in Nat \ {0} /\ Kid(m, k) \in Node
    BY KidsAreNodes DEF Kid
<1>7. ASSUME NEW m \in Node, NEW k \in DOMAIN heap[m].kids, Kid(m, k) = c
      PROVE  m = m0 /\ k = i0
    BY <1>1, <1>3, <1>7, UniqueKids
<1>8. \A k \in DOMAIN heap[c].kids : Kid(c, k) # c
    <2> HIDE DEF c
    <2>1. ASSUME NEW k \in DOMAIN heap[c].kids
          PROVE  Kid(c, k) # c
        <3>1. heap[c].kids[k] \in Node /\ heap[c].kids[k] < c
            BY <1>4, <2>1, KidsAreNodes DEF ChildrenOlder
        <3>2. heap[c].kids[k] \in Nat /\ c \in Nat
            BY <1>4, <3>1, NodeIsRange
        <3> QED BY <3>1, <3>2 DEF Kid
    <2> QED BY <2>1
<1>9. \A p, q \in 1..n : walk[p].node = walk[q].node => p = q
    BY <1>2, <1>5 DEF Path
<1>10. /\ walk[n].node = m0 /\ walk[n].i = i0 /\ c = Kid(m0, i0) /\ n = Len(walk)
    OBVIOUS
<1> HIDE DEF n, m0, i0, c
<1>11. c \notin freed /\ ~Active(walk, c)
  <2>1. n \in DOMAIN walk /\ i0 \in DOMAIN heap[walk[n].node].kids /\ i0 >= walk[n].i
      BY <1>1, <1>2, <1>3, <1>10
  <2>2. Kid(walk[n].node, i0) \notin freed /\ ~Active(walk, Kid(walk[n].node, i0))
      BY <1>5, <2>1 DEF Visited
  <2> QED BY <1>10, <2>2
<1>12. \A p \in 1..n : Active(walk, walk[p].node)
    BY <1>2 DEF Active
<1>13. \A p \in 1..(n + 1) : p \in 1..(n - 1) \/ p = n \/ p = n + 1
    BY <1>1
<1>14. /\ \A p \in 1..(n - 1) : p \in 1..n /\ p # n /\ p # n + 1
       /\ \A p \in 1..n : p \in 1..(n + 1) /\ (p \in 1..(n - 1) \/ p = n)
       /\ \A p \in 1..(n + 1) : p \in 1..n \/ p = n + 1
       /\ n + 1 \in 1..(n + 1)
    BY <1>1
<1>15. \A p \in 1..n : walk'[p].node = walk[p].node
    BY <1>1, <1>10, <1>14
<1>16. \A x : Active(walk', x) <=> Active(walk, x) \/ x = c
  <2>1. \A x : Active(walk', x) <=> \E p \in 1..(n + 1) : walk'[p].node = x
      BY <1>1 DEF Active
  <2>2. \A x : Active(walk, x) <=> \E p \in 1..n : walk[p].node = x
      BY <1>2 DEF Active
  <2> QED BY <1>1, <1>14, <1>15, <2>1, <2>2
<1>17. Path'
  <2>1. \A p, q \in 1..(n + 1) : walk'[p].node = walk'[q].node => p = q
    <3>1. \A p \in 1..n : walk[p].node # c
        BY <1>11, <1>12
    <3> QED BY <1>1, <1>9, <1>14, <1>15, <3>1
  <2>2. ASSUME NEW p \in 1..(n + 1)
        PROVE  /\ walk'[p].node \notin freed
               /\ walk'[p].i \in 1..(Len(heap[walk'[p].node].kids) + 1)
    <3>1. CASE p \in 1..(n - 1)
      <4>1. p \in DOMAIN walk /\ walk'[p] = walk[p]
          BY <1>1, <1>2, <1>14, <3>1
      <4> QED BY <1>5, <4>1 DEF Path
    <3>2. CASE p = n
      <4>1. m0 \notin freed
          BY <1>2, <1>3, <1>5, <1>10 DEF Path
      <4>2. i0 + 1 \in 1..(Len(heap[m0].kids) + 1)
          BY <1>1, <1>3, KidsAreNodes
      <4> QED BY <1>1, <3>2, <4>1, <4>2
    <3>3. CASE p = n + 1
      <4>1. 1 \in 1..(Len(heap[c].kids) + 1)
          BY <1>4, KidsAreNodes
      <4> QED BY <1>1, <1>11, <3>3, <4>1
    <3> QED BY <1>13, <3>1, <3>2, <3>3
  <2>3. ASSUME NEW p \in 1..n
        PROVE  walk'[p].i > 1 /\ walk'[p + 1].node = heap[walk'[p].node].kids[walk'[p].i - 1]
    <3>1. CASE p = n
      <4>1. walk'[p].i = i0 + 1 /\ (i0 + 1) - 1 = i0 /\ i0 + 1 > 1
          BY <1>1, <1>3, <3>1
      <4>2. walk'[p].node = m0 /\ walk'[p + 1].node = heap[m0].kids[i0]
          BY <1>1, <1>10, <3>1 DEF Kid
      <4>3. heap[m0].kids[walk'[p].i - 1] = heap[m0].kids[i0]
          BY <4>1
      <4> QED BY <4>1, <4>2, <4>3
    <3>2. CASE p # n
      <4>1. p \in 1..(n - 1) /\ p + 1 \in 1..n
          BY <1>1, <3>2
      <4>2. walk[p].i > 1 /\ walk[p + 1].node = heap[walk[p].node].kids[walk[p].i - 1]
          BY <1>5, <1>10, <4>1 DEF Path
      <4> QED BY <1>1, <1>15, <4>1, <4>2
    <3> QED BY <3>1, <3>2
  <2>4. walk' # << >> /\ walk'[1].node = root
    <3>1. 1 \in 1..n /\ walk # << >> /\ walk' # << >>
        BY <1>1, <1>10
    <3>2. walk[1].node = root
        BY <1>5, <3>1 DEF Path
    <3> QED BY <1>15, <3>1, <3>2
  <2>5. Len(walk') - 1 = n
      BY <1>1
  <2> QED BY <1>1, <2>1, <2>2, <2>3, <2>4, <2>5 DEF Path
<1>18. ASSUME NEW p \in 1..(n + 1), NEW k \in DOMAIN heap[walk'[p].node].kids
       PROVE  LET kid == Kid(walk'[p].node, k)
              IN  /\ k < walk'[p].i /\ (p = n + 1 \/ k < walk'[p].i - 1) => kid \in freed
                  /\ k >= walk'[p].i => kid \notin freed /\ ~Active(walk, kid) /\ kid # c
  <2>1. CASE p \in 1..(n - 1)
    <3>1. p \in 1..n /\ p # n /\ p # n + 1 /\ walk'[p] = walk[p] /\ walk[p].node # m0
        BY <1>1, <1>3, <1>9, <1>10, <1>14, <2>1
    <3>2. Kid(walk[p].node, k) # c
        BY <1>2, <1>7, <3>1
    <3>3. /\ k < walk[p].i /\ k < walk[p].i - 1 => Kid(walk[p].node, k) \in freed
          /\ k >= walk[p].i => /\ Kid(walk[p].node, k) \notin freed
                               /\ ~Active(walk, Kid(walk[p].node, k))
        BY <1>2, <1>5, <3>1 DEF Visited
    <3> QED BY <3>1, <3>2, <3>3
  <2>2. CASE p = n
    <3>1. k \in DOMAIN heap[m0].kids /\ k \in Nat \ {0} /\ p # n + 1
        BY <1>1, <1>3, <1>6, <2>2
    <3>2. /\ k < i0 => Kid(m0, k) \in freed
          /\ k >= i0 => Kid(m0, k) \notin freed /\ ~Active(walk, Kid(m0, k))
        BY <1>2, <1>3, <1>5, <1>10, <3>1 DEF Visited
    <3>3. k # i0 => Kid(m0, k) # c
        BY <1>3, <1>7, <3>1
    <3>4. walk'[p].node = m0 /\ walk'[p].i = i0 + 1
        BY <1>1, <2>2
    <3> QED BY <1>3, <3>1, <3>2, <3>3, <3>4
  <2>3. CASE p = n + 1
    <3>1. walk'[p].node = c /\ walk'[p].i = 1 /\ k \in DOMAIN heap[c].kids /\ k \in Nat \ {0}
        BY <1>1, <1>4, <1>6, <2>3
    <3>2. Kid(c, k) \notin freed /\ ~Active(walk, Kid(c, k)) /\ Kid(c, k) # c
        BY <1>4, <1>5, <1>8, <1>11, <3>1 DEF Visited
    <3>3. ~(k < 1)
        BY <3>1
    <3> QED BY <3>1, <3>2, <3>3
  <2> QED BY <1>13, <2>1, <2>2, <2>3
<1>19. ASSUME NEW m \in Node, NEW k \in DOMAIN heap[m].kids
       PROVE  /\ m \in freed => Kid(m, k) \in freed
              /\ m \notin freed /\ ~Active(walk, m) /\ m # c =>
                    Kid(m, k) \notin freed /\ ~Active(walk, Kid(m, k)) /\ Kid(m, k) # c
  <2>1. ~Active(walk, m) => m # m0
      BY <1>3, <1>10, <1>12
  <2>2. ~Active(walk, m) => Kid(m, k) # c
      BY <1>7, <2>1
  <2> QED BY <1>5, <2>2 DEF Visited
<1>20. Visited(walk', freed')
    BY <1>1, <1>16, <1>18, <1>19 DEF Visited
<1> QED BY <1>1, <1>17, <1>20, VisitsThen DEF WalkOK

(* The children of a node are freed when it is. *)
LEMMA WalkFreeNode ==
    ASSUME Types, IsTree, WalkOK, FreeNode PROVE WalkOK'
<1> DEFINE n == Len(walk)
           m0 == walk[n].node
           i0 == walk[n].i
<1>1. /\ pc = "delete" /\ UNCHANGED <<pc, heap, root>>
      /\ n \in Nat \ {0} /\ Len(walk') = n - 1 /\ DOMAIN walk' = 1..(n - 1)
      /\ \A p \in 1..(n - 1) : walk'[p] = walk[p]
      /\ i0 > Len(heap[m0].kids)
      /\ freed' = freed \cup {m0}
    BY Ascended DEF Deepest
<1>2. /\ DOMAIN walk = 1..n
      /\ \A p \in 1..n : walk[p].node \in Node /\ walk[p].i \in Nat \ {0}
    BY WalkIs
<1>3. m0 \in Node /\ i0 \in Nat \ {0} /\ n \in 1..n
    BY <1>1, <1>2
<1>4. Path /\ Visited(walk, freed)
    BY <1>1 DEF WalkOK, Visits
<1>5. \A m \in Node : \A k \in DOMAIN heap[m].kids : k \in Nat \ {0}
    BY KidsAreNodes
<1>6. \A p, q \in 1..n : walk[p].node = walk[q].node => p = q
    BY <1>2, <1>4 DEF Path
<1>7. walk[n].node = m0 /\ walk[n].i = i0 /\ n = Len(walk)
    OBVIOUS
<1>8. Len(heap[m0].kids) \in Nat /\ DOMAIN heap[m0].kids = 1..Len(heap[m0].kids)
    BY <1>3, KidsAreNodes
<1> HIDE DEF n, m0, i0
<1>9. \A k \in DOMAIN heap[m0].kids : Kid(m0, k) \in freed
  <2> SUFFICES ASSUME NEW k \in DOMAIN heap[m0].kids PROVE Kid(m0, k) \in freed
      OBVIOUS
  <2>1. n \in DOMAIN walk /\ k \in DOMAIN heap[walk[n].node].kids /\ k < walk[n].i
      BY <1>1, <1>2, <1>3, <1>7, <1>8
  <2>2. Kid(walk[n].node, k) \in freed
      BY <1>4, <1>7, <2>1 DEF Visited
  <2> QED BY <1>7, <2>2
<1>10. \A p \in 1..(n - 1) : p \in 1..n /\ p # n /\ walk[p].node # m0
  <2>1. \A p \in 1..(n - 1) : p \in 1..n /\ p # n
      BY <1>1
  <2> QED BY <1>3, <1>6, <1>7, <2>1
<1>11. \A x : Active(walk', x) <=> Active(walk, x) /\ x # m0
  <2>1. \A x : Active(walk', x) <=> \E p \in 1..(n - 1) : walk[p].node = x
      BY <1>1 DEF Active
  <2>2. \A x : Active(walk, x) <=> \E p \in 1..n : walk[p].node = x
      BY <1>2 DEF Active
  <2>3. \A p \in 1..n : p \in 1..(n - 1) \/ p = n
      BY <1>1
  <2> QED BY <1>7, <1>10, <2>1, <2>2, <2>3
<1>12. Active(walk, m0)
    BY <1>2, <1>3, <1>7 DEF Active
<1>13. Path'
  <2>1. walk' = << >> => root \in freed'
    <3> SUFFICES ASSUME walk' = << >> PROVE root \in freed'
        OBVIOUS
    <3>1. Len(walk') = 0
        OBVIOUS
    <3>2. n = 1
        BY <1>1, <3>1
    <3>3. Len(walk) = 1
        BY <1>7, <3>2
    <3>4. walk # << >>
        BY <3>3
    <3> QED BY <1>1, <1>4, <1>7, <3>2, <3>4 DEF Path
  <2>2. walk' # << >> => walk'[1].node = root
    <3> SUFFICES ASSUME walk' # << >> PROVE walk'[1].node = root
        OBVIOUS
    <3>1. walk' \in Seq(Activation)
        BY Ascended
    <3>2. Len(walk') # 0
        BY <3>1
    <3>3. 1 \in 1..(n - 1) /\ walk # << >>
        BY <1>1, <1>7, <3>2
    <3> QED BY <1>1, <1>4, <3>3 DEF Path
  <2>3. \A p, q \in 1..(n - 1) : walk'[p].node = walk'[q].node => p = q
      BY <1>1, <1>6, <1>10
  <2>4. ASSUME NEW p \in 1..(n - 1)
        PROVE  /\ walk'[p].node \notin freed'
               /\ walk'[p].i \in 1..(Len(heap[walk'[p].node].kids) + 1)
    <3>1. p \in DOMAIN walk /\ walk'[p] = walk[p] /\ walk[p].node # m0
        BY <1>1, <1>2, <1>10
    <3>2. walk[p].node \notin freed /\ walk[p].i \in 1..(Len(heap[walk[p].node].kids) + 1)
        BY <1>4, <3>1 DEF Path
    <3> QED BY <1>1, <3>1, <3>2
  <2>5. ASSUME NEW p \in 1..((n - 1) - 1)
        PROVE  walk'[p].i > 1 /\ walk'[p + 1].node = heap[walk'[p].node].kids[walk'[p].i - 1]
    <3>1. p \in 1..(n - 1) /\ p + 1 \in 1..(n - 1)
        BY <1>1
    <3>2. walk[p].i > 1 /\ walk[p + 1].node = heap[walk[p].node].kids[walk[p].i - 1]
        BY <1>4, <1>7, <3>1 DEF Path
    <3> QED BY <1>1, <3>1, <3>2
  <2> QED BY <1>1, <2>1, <2>2, <2>3, <2>4, <2>5 DEF Path
<1>14. ASSUME NEW p \in 1..(n - 1), NEW k \in DOMAIN heap[walk[p].node].kids
       PROVE  LET kid == Kid(walk[p].node, k)
              IN  /\ k < walk[p].i /\ (p = n - 1 \/ k < walk[p].i - 1) => kid \in freed \cup {m0}
                  /\ k >= walk[p].i => kid \notin freed \cup {m0} /\ ~Active(walk, kid)
  <2>1. /\ k < walk[p].i /\ k < walk[p].i - 1 => Kid(walk[p].node, k) \in freed
        /\ k >= walk[p].i => Kid(walk[p].node, k) \notin freed /\ ~Active(walk, Kid(walk[p].node, k))
    <3>1. p \in DOMAIN walk
        BY <1>2, <1>10
    <3> QED BY <1>4, <3>1 DEF Visited
  <2>2. p = n - 1 /\ k = walk[p].i - 1 => Kid(walk[p].node, k) = m0
    <3> SUFFICES ASSUME p = n - 1, k = walk[p].i - 1 PROVE Kid(walk[p].node, k) = m0
        OBVIOUS
    <3>1. p + 1 = n
        BY <1>1
    <3>2. walk[p + 1].node = heap[walk[p].node].kids[walk[p].i - 1]
        BY <1>4, <1>7 DEF Path
    <3> QED BY <1>7, <3>1, <3>2 DEF Kid
  <2>3. k \in Nat /\ walk[p].i \in Nat \ {0}
      BY <1>2, <1>5, <1>10
  <2>4. k < walk[p].i => k < walk[p].i - 1 \/ k = walk[p].i - 1
      BY <2>3
  <2> QED BY <1>12, <2>1, <2>2, <2>4
<1>15. ASSUME NEW m \in Node, NEW k \in DOMAIN heap[m].kids
       PROVE  /\ m \in freed \cup {m0} => Kid(m, k) \in freed
              /\ m \notin freed \cup {m0} /\ ~Active(walk, m) =>
                    Kid(m, k) \notin freed \cup {m0} /\ ~Active(walk, Kid(m, k))
  <2>1. /\ m \in freed => Kid(m, k) \in freed
        /\ m \notin freed /\ ~Active(walk, m) => Kid(m, k) \notin freed /\ ~Active(walk, Kid(m, k))
      BY <1>4 DEF Visited
  <2> QED BY <1>9, <1>12, <2>1
<1>16. Visited(walk', freed')
    BY <1>1, <1>11, <1>14, <1>15 DEF Visited
<1> QED BY <1>1, <1>13, <1>16, VisitsThen DEF WalkOK

LEMMA WalkNext ==
    ASSUME Types, Stages, ChildrenOlder, IsTree, WalkOK, [Next]_vars PROVE WalkOK'
<1>1. CASE Open \/ Read \/ Shift \/ Reduce \/ Accept \/ Yyerror \/ UseFails \/ EndDelete
  <2>1. pc' # "delete"
      BY <1>1 DEF Open, Read, Scan, Shift, Reduce, Accept, Yyerror, UseFails, EndDelete, Looking, Room
  <2> QED BY <2>1 DEF WalkOK
<1>2. CASE Stop \/ UNCHANGED vars
  <2>1. UNCHANGED <<pc, heap, freed, root, walk>>
      BY <1>2 DEF Stop, vars, store
  <2>2. Path' <=> Path
      BY <2>1 DEF Path
  <2>3. Visits => Visits'
      BY <2>1, VisitsThen DEF Visits
  <2> QED BY <2>1, <2>2, <2>3 DEF WalkOK
<1> QED BY <1>1, <1>2, WalkUse, WalkDeleteChild, WalkFreeNode DEF Next

(* When the walk is over the root is freed, so its children are, and so    *)
(* on down to the last node.                                               *)
LEMMA AllFreed ==
    ASSUME Types, ChildrenOlder, IsTree, WalkOK, pc = "delete", walk = << >>
    PROVE  Node \subseteq freed
<1>1. root \in freed /\ Visited(walk, freed)
    BY DEF WalkOK, Path, Visits
<1>2. Node = 1..Len(heap) /\ Len(heap) \in Nat
    BY NodeIsRange
<1> DEFINE n == Len(heap)
           T == {u \in 0..n : n - u \in Node \ freed}
<1>3. SUFFICES ASSUME NEW x \in Node \ freed PROVE FALSE
    OBVIOUS
<1>4. Node = 1..n /\ n \in Nat
    BY <1>2
<1> HIDE DEF n
<1>5. T \subseteq Nat /\ n - x \in T
  <2>1. n - x \in 0..n /\ n - (n - x) = x
      BY <1>3, <1>4
  <2> QED BY <1>3, <1>4, <2>1
<1>6. T # {}
    BY <1>5
<1>7. PICK u \in T : \A v \in T : <<v, u>> \notin OpToRel(<, Nat)
    BY <1>5, <1>6, NatLessThanWellFounded, WFMin
<1>8. \A v \in T : ~(v < u)
    BY <1>5, <1>7 DEF OpToRel
<1>9. n - u \in Node \ freed /\ u \in 0..n
    OBVIOUS
<1>10. PICK m \in Node : \E k \in DOMAIN heap[m].kids : heap[m].kids[k] = n - u
    BY <1>1, <1>9 DEF IsTree, InTree
<1>11. PICK k \in DOMAIN heap[m].kids : Kid(m, k) = n - u
    BY <1>10 DEF Kid
<1>12. m \notin freed
    BY <1>1, <1>9, <1>11 DEF Visited
<1>13. n - u < m /\ m \in 1..n
    BY <1>4, <1>11 DEF ChildrenOlder, Kid
<1>14. n - m \in 0..n /\ n - (n - m) = m /\ n - m < u
    BY <1>4, <1>9, <1>13
<1>15. n - m \in T
    BY <1>12, <1>14
<1> QED BY <1>8, <1>14, <1>15

-----------------------------------------------------------------------------
(* The invariant is inductive. *)
LEMMA InitIInv == Init => IInv
<1> SUFFICES ASSUME Init PROVE IInv
    OBVIOUS
<1>1. /\ pc = "open" /\ input = << >> /\ pieces = 0 /\ yychar = "empty" /\ yylval = 0
      /\ stack = << >> /\ heap = << >> /\ freed = {} /\ root = 0 /\ walk = << >>
    BY DEF Init
<1>2. /\ Node = {} /\ Len(stack) = 0 /\ stack \in Seq(Entry)
      /\ heap \in Seq([name : Symbols \cup {"epsilon"}, kids : Seq(Nat \ {0})])
      /\ input \in Seq(Terminals \cup {"error"})
      /\ walk \in Seq([node : Node, i : Nat \ {0}])
    BY <1>1 DEF Node
<1>3. Types
    BY <1>1, <1>2, BoundsAreNat DEF Types, TypeOK
<1>4. StackOK
    BY <1>1, <1>2, NamesDiffer DEF StackOK
<1> QED BY <1>1, <1>2, <1>3, <1>4
        DEF IInv, Stages, ChildrenOlder, OneOwner, IsTree, WalkOK

LEMMA NextIInv == IInv /\ [Next]_vars => IInv'
BY TypesNext, StagesNext, StackNext, OlderNext, OwnerNext, TreeNext, WalkNext DEF IInv

LEMMA SpecIInv == Spec => []IInv
BY InitIInv, NextIInv, PTL DEF Spec
-----------------------------------------------------------------------------
(* Whatever is parsed, the values have their types: of a tree node's places *)
(* for children none is filled beyond the last, and what is freed is what   *)
(* was allocated.                                                           *)
THEOREM TypesAreRight == Spec => []TypeOK
<1>1. IInv => TypeOK
    BY DEF IInv, Types
<1> QED BY <1>1, SpecIInv, PTL

(* Whatever is parsed, no node is hung in two places or lost: what the      *)
(* actions of parser.y build is a tree.                                     *)
THEOREM EveryNodeHasOneOwner == Spec => []OneOwner
<1>1. IInv => OneOwner
    BY DEF IInv
<1> QED BY <1>1, SpecIInv, PTL

(* Whatever is parsed, nothing is read after it was freed, neither by the   *)
(* transformation nor by synTreeNodeDelChild itself.                        *)
THEOREM NoUseAfterFree == Spec => []NothingFreedIsRead
<1>1. IInv => NothingFreedIsRead
  <2> SUFFICES ASSUME IInv PROVE NothingFreedIsRead
      OBVIOUS
  <2>1. Types /\ Stages /\ WalkOK
      BY DEF IInv
  <2>2. CASE pc = "delete"
    <3>1. Path /\ Visited(walk, freed)
        BY <2>1, <2>2 DEF WalkOK, Visits
    <3>2. ASSUME NEW p \in DOMAIN walk, NEW k \in walk[p].i..Len(heap[walk[p].node].kids)
          PROVE  heap[walk[p].node].kids[k] \notin freed
      <4>1. walk[p].node \in Node /\ walk[p].i \in Nat \ {0}
          BY <2>1, WalkIs
      <4>2. Len(heap[walk[p].node].kids) \in Nat
          BY <2>1, <4>1, KidsAreNodes
      <4>3. k \in DOMAIN heap[walk[p].node].kids /\ k >= walk[p].i
          BY <2>1, <4>1, <4>2, KidsAreNodes
      <4> QED BY <3>1, <4>3 DEF Visited, Kid
    <3> QED BY <2>2, <3>1, <3>2 DEF NothingFreedIsRead, Path
  <2>3. CASE pc = "done"
    <3>1. walk = << >>
        BY <2>1, <2>3 DEF Stages
    <3>2. DOMAIN walk = {}
        BY <3>1
    <3> QED BY <2>3, <3>2 DEF NothingFreedIsRead
  <2>4. CASE pc \notin {"delete", "done"}
    <3>1. freed = {} /\ walk = << >>
        BY <2>1, <2>4 DEF Stages, Types, TypeOK
    <3>2. DOMAIN walk = {}
        BY <3>1
    <3> QED BY <3>1, <3>2 DEF NothingFreedIsRead
  <2> QED BY <2>2, <2>3, <2>4
<1> QED BY <1>1, SpecIInv, PTL

(* Whoever uses the tree finds a program at its root, although nobody looks *)
(* at the result of yyparse.                                                *)
THEOREM TheRootIsAProgram == Spec => []RootIsProgram
<1>1. IInv => RootIsProgram
    BY DEF IInv, Stages, RootIsProgram
<1> QED BY <1>1, SpecIInv, PTL

(* What a step does to the storage. *)
LEMMA StoreStep ==
    ASSUME IInv, [Next]_vars PROVE [Store!Next]_(Store!vars)
<1> DEFINE live == Node \ freed
<1>1. Types /\ Stages /\ StackOK /\ ChildrenOlder /\ IsTree /\ WalkOK
    BY DEF IInv
<1>2. CASE Open
  <2>1. Node' = Node /\ freed' = freed /\ pc = "open" /\ pc' \in {"parse", "exit"}
      BY <1>2 DEF Open, store, Node
  <2> QED BY <2>1 DEF Store!Next, Store!Abandon, Store!vars, Phase
<1>3. CASE Read
  <2>1. PICK text : Scan(text) /\ Head(text) \in Terminals \cup {"error", "$end"}
      BY <1>1, <1>3, ReadScans
  <2>2. Node \subseteq Node'
    <3>1. CASE UNCHANGED heap
        BY <3>1 DEF Node
    <3>2. CASE Node' = Node \cup {Len(heap')}
        BY <3>2
    <3> QED BY <1>1, <2>1, <3>1, <3>2, Scanned
  <2>3. pc = "parse" /\ pc' = "parse" /\ freed' = freed
      BY <1>3 DEF Read, Room, Scan
  <2> QED BY <2>2, <2>3 DEF Store!Next, Store!Build, Phase
<1>4. CASE Shift
  <2>1. UNCHANGED <<pc, heap, freed>>
      BY <1>4 DEF Shift, store
  <2> QED BY <2>1 DEF Store!vars, Phase, Node
<1>5. CASE Reduce
  <2>1. PICK item : Looking /\ Reducible(item) /\ heap' = Built(item)
      BY <1>1, <1>5, Reduced
  <2>2. Node \subseteq Node'
      BY <1>1, <2>1, BuiltOK
  <2>3. pc = "parse" /\ pc' = "parse" /\ freed' = freed
      BY <1>5 DEF Reduce, Looking, Room
  <2> QED BY <2>2, <2>3 DEF Store!Next, Store!Build, Phase
<1>6. CASE Accept
  <2>1. PICK item : Looking /\ Reducible(item) /\ heap' = Built(item)
      BY <1>1, <1>6, Accepted
  <2>2. Node \subseteq Node'
      BY <1>1, <2>1, BuiltOK
  <2>3. pc = "parse" /\ pc' = "use" /\ freed' = freed
      BY <1>6 DEF Accept, Looking, Room
  <2> QED BY <2>2, <2>3 DEF Store!Next, Store!Build, Phase
<1>7. CASE Yyerror \/ UseFails
  <2>1. UNCHANGED <<heap, freed>> /\ pc \in {"parse", "use"} /\ pc' = "exit"
      BY <1>7 DEF Yyerror, UseFails, Stuck, Looking, Room, store
  <2> QED BY <2>1 DEF Store!Next, Store!Abandon, Phase, Node
<1>8. CASE Use
  <2>1. UNCHANGED <<heap, freed>> /\ pc = "use" /\ pc' = "delete"
      BY <1>8 DEF Use, store
  <2> QED BY <2>1 DEF Store!Next, Store!Read, Phase, Node
<1>9. CASE DeleteChild
  <2>1. UNCHANGED <<pc, heap, freed>>
      BY <1>9 DEF DeleteChild, store
  <2> QED BY <2>1 DEF Store!vars, Phase, Node
<1>10. CASE FreeNode
  <2>1. /\ pc = "delete" /\ UNCHANGED <<pc, heap>> /\ freed' = freed \cup {Deepest.node}
        /\ Len(walk) \in Nat \ {0}
      BY <1>1, <1>10, Ascended
  <2>2. Len(walk) \in DOMAIN walk /\ Deepest.node \in Node
      BY <1>1, <2>1, WalkIs DEF Deepest
  <2>3. Deepest.node \notin freed
      BY <1>1, <2>1, <2>2 DEF WalkOK, Path, Deepest
  <2>4. live' = live \ {Deepest.node}
      BY <2>1 DEF Node
  <2>5. Deepest.node \in live
      BY <2>2, <2>3
  <2> QED BY <2>1, <2>4, <2>5 DEF Store!Next, Store!Release, Phase
<1>11. CASE EndDelete
  <2>1. UNCHANGED <<heap, freed>> /\ pc = "delete" /\ walk = << >> /\ pc' = "done"
      BY <1>11 DEF EndDelete, store
  <2>2. Node \subseteq freed
      BY <1>1, <2>1, AllFreed
  <2> QED BY <2>1, <2>2 DEF Store!Next, Store!Close, Phase, Node
<1>12. CASE Stop \/ UNCHANGED vars
  <2>1. UNCHANGED <<pc, heap, freed>>
      BY <1>12 DEF Stop, vars, store
  <2> QED BY <2>1 DEF Store!vars, Phase, Node
<1> QED
    BY <1>2, <1>3, <1>4, <1>5, <1>6, <1>7, <1>8, <1>9, <1>10, <1>11, <1>12 DEF Next

(* The storage implements NodeStore, whatever is parsed: no node is freed   *)
(* before the tree is transformed, each is freed once, and when the         *)
(* compiler goes on none is left.                                           *)
THEOREM TheStorageIsANodeStore == Spec => IsNodeStore
<1>1. Init => Store!Init
  <2>1. Init => Node = {} /\ pc = "open"
      BY DEF Init, Node
  <2> QED BY <2>1 DEF Store!Init, Phase
<1>2. IInv /\ [Next]_vars => [Store!Next]_(Store!vars)
    BY StoreStep
<1> QED BY <1>1, <1>2, SpecIInv, PTL DEF Spec, IsNodeStore, Store!Spec
=============================================================================
