------------------------ MODULE ParseTreeTextProofs ------------------------
(***************************************************************************)
(* A parse tree is the text that was parsed, whatever it was: it follows   *)
(* the grammar, its leaves are the tokens, and every else is at the        *)
(* nearest if.                                                             *)
(***************************************************************************)
EXTENDS ParseTreeProofs, SequenceTheorems

(* Induction, with the set of the numbers it holds of. *)
LEMMA UpTo ==
    ASSUME NEW n \in Nat, NEW S, 0 \in S, \A k \in 0..(n - 1) : k \in S => k + 1 \in S
    PROVE  \A k \in 0..n : k \in S
<1> SUFFICES ASSUME NEW j \in 0..n, j \notin S PROVE FALSE
    OBVIOUS
<1> DEFINE T == (0..n) \ S
<1>1. T \subseteq Nat /\ T # {}
    OBVIOUS
<1>2. \E x \in T : \A y \in T : ~(<<y, x>> \in OpToRel(<, Nat))
    <2> HIDE DEF T
    <2> QED BY <1>1, NatLessThanWellFounded, WFMin
<1>3. PICK x \in T : \A y \in T : ~(y < x)
    BY <1>1, <1>2 DEF OpToRel
<1>4. x # 0 /\ x - 1 \in 0..(n - 1) /\ x - 1 \notin T
    BY <1>3
<1> QED BY <1>3, <1>4

LEMMA Associative ==
    \A S : \A a, b, c \in Seq(S) : (a \o b) \o c = a \o (b \o c)
BY ConcatAssociative

LEMMA ConcatAppended ==
    ASSUME NEW S, NEW a \in Seq(S), NEW b \in Seq(S), NEW x \in S
    PROVE  a \o b \in Seq(S) /\ a \o Append(b, x) = Append(a \o b, x)
<1> DEFINE l == a \o Append(b, x)
           r == Append(a \o b, x)
<1>1. a \o b \in Seq(S) /\ Len(a \o b) = Len(a) + Len(b) /\ Append(b, x) \in Seq(S)
    OBVIOUS
<1>2. l \in Seq(S) /\ r \in Seq(S) /\ Len(l) = Len(r)
    BY <1>1
<1>3. ASSUME NEW i \in 1..Len(l) PROVE l[i] = r[i]
    BY <1>1
<1> HIDE DEF l, r
<1>4. l = r
    BY <1>2, <1>3, SeqEqual
<1> QED BY <1>1, <1>4 DEF l, r

-----------------------------------------------------------------------------
(* FlattenSeq. *)
FlatStep(s, f, i) == IF i = 1 THEN s[i] ELSE f[i - 1] \o s[i]
FlatFcn(s, n) == CHOOSE f : f = [i \in 1..n |-> FlatStep(s, f, i)]

LEMMA FlatFcnIs ==
    ASSUME NEW s, NEW n \in Nat
    PROVE  FlatFcn(s, n) = [i \in 1..n |-> FlatStep(s, FlatFcn(s, n), i)]
<1> DEFINE Good == {k \in Nat : \E f : f = [i \in 1..k |-> FlatStep(s, f, i)]}
<1>1. 0 \in Good
    <2> DEFINE f == [i \in 1..0 |-> 0]
    <2>1. f = [i \in 1..0 |-> FlatStep(s, f, i)]
        OBVIOUS
    <2> QED BY <2>1
<1>2. ASSUME NEW k \in 0..(n - 1), k \in Good
      PROVE  k + 1 \in Good
    <2>1. PICK f : f = [i \in 1..k |-> FlatStep(s, f, i)]
        BY <1>2
    <2> DEFINE g == [i \in 1..(k + 1) |-> IF i = k + 1 THEN FlatStep(s, f, i) ELSE f[i]]
    <2>2. ASSUME NEW i \in 1..(k + 1)
          PROVE  g[i] = FlatStep(s, g, i)
        <3>1. i # 1 => g[i - 1] = f[i - 1]
            OBVIOUS
        <3>2. FlatStep(s, g, i) = FlatStep(s, f, i)
            BY <3>1 DEF FlatStep
        <3>3. CASE i = k + 1
            BY <3>2, <3>3
        <3>4. CASE i # k + 1
            <4>1. i \in 1..k
                BY <3>4
            <4>2. f[i] = FlatStep(s, f, i)
                BY <2>1, <4>1
            <4> QED BY <3>2, <3>4, <4>2
        <3> QED BY <3>3, <3>4
    <2>3. g = [i \in 1..(k + 1) |-> FlatStep(s, g, i)]
        BY <2>2
    <2> HIDE DEF g
    <2> QED BY <2>3
<1>3. n \in Good
    <2> HIDE DEF Good
    <2> QED BY <1>1, <1>2, UpTo
<1> QED BY <1>3 DEF FlatFcn

LEMMA FlatDef ==
    ASSUME NEW s
    PROVE  FlattenSeq(s) = IF Len(s) = 0 THEN s ELSE FlatFcn(s, Len(s))[Len(s)]
BY DEF FlattenSeq, FlatFcn, FlatStep

(* What has been put together up to j depends on nothing behind it. *)
LEMMA FlatPrefix ==
    ASSUME NEW s, NEW t, NEW n \in Nat, NEW m \in Nat, NEW j \in Nat \ {0}, j <= n, j <= m,
           \A i \in 1..j : s[i] = t[i]
    PROVE  FlatFcn(s, n)[j] = FlatFcn(t, m)[j]
<1> DEFINE f == FlatFcn(s, n)
           g == FlatFcn(t, m)
           Good == {k \in Nat : k = 0 \/ f[k] = g[k]}
<1>1. /\ \A i \in 1..n : f[i] = FlatStep(s, f, i)
      /\ \A i \in 1..m : g[i] = FlatStep(t, g, i)
    <2>1. f = [i \in 1..n |-> FlatStep(s, f, i)]
        BY FlatFcnIs
    <2>2. g = [i \in 1..m |-> FlatStep(t, g, i)]
        BY FlatFcnIs
    <2> HIDE DEF f, g
    <2> QED BY <2>1, <2>2
<1> HIDE DEF f, g
<1>2. 0 \in Good
    OBVIOUS
<1>3. ASSUME NEW k \in 0..(j - 1), k \in Good
      PROVE  k + 1 \in Good
    <2>1. k + 1 \in 1..n /\ k + 1 \in 1..m /\ k + 1 \in 1..j /\ k + 1 - 1 = k
        OBVIOUS
    <2>2. f[k + 1] = FlatStep(s, f, k + 1) /\ g[k + 1] = FlatStep(t, g, k + 1)
        BY <1>1, <2>1
    <2>3. s[k + 1] = t[k + 1]
        BY <2>1
    <2>4. f[k + 1] = g[k + 1]
        BY <1>3, <2>1, <2>2, <2>3 DEF FlatStep
    <2> QED BY <2>1, <2>4
<1>4. \A k \in 0..j : k \in Good
    <2> HIDE DEF Good
    <2> QED BY <1>2, <1>3, UpTo
<1>5. f[j] = g[j]
    <2>1. j \in 0..j /\ j # 0
        OBVIOUS
    <2> QED BY <1>4, <2>1
<1> QED BY <1>5 DEF f, g

LEMMA FlattenEmpty == FlattenSeq(<< >>) = << >>
<1>1. Len(<< >>) = 0
    OBVIOUS
<1> QED BY <1>1, FlatDef

LEMMA FlattenAppend ==
    ASSUME NEW S, NEW s \in Seq(Seq(S)), NEW x \in Seq(S), FlattenSeq(s) \in Seq(S)
    PROVE  FlattenSeq(Append(s, x)) = FlattenSeq(s) \o x
<1> DEFINE n == Len(s)
           t == Append(s, x)
<1>1. n \in Nat /\ Len(t) = n + 1 /\ t[n + 1] = x /\ \A i \in 1..n : t[i] = s[i]
    OBVIOUS
<1> HIDE DEF t
<1>2. FlattenSeq(t) = FlatFcn(t, n + 1)[n + 1]
    BY <1>1, FlatDef
<1> DEFINE g == FlatFcn(t, n + 1)
<1>3. g = [i \in 1..(n + 1) |-> FlatStep(t, g, i)]
    BY <1>1, FlatFcnIs
<1>4. g[n + 1] = FlatStep(t, g, n + 1)
    <2> HIDE DEF g
    <2>1. n + 1 \in 1..(n + 1)
        BY <1>1
    <2> QED BY <1>3, <2>1
<1>5. CASE n = 0
    <2>1. g[n + 1] = x
        BY <1>1, <1>4, <1>5 DEF FlatStep
    <2>2. s = << >>
        BY <1>5
    <2>3. FlattenSeq(s) \o x = x
        BY <2>2, FlattenEmpty
    <2> QED BY <1>2, <2>1, <2>3 DEF t
<1>6. CASE n # 0
    <2>1. FlattenSeq(s) = FlatFcn(s, n)[n]
        BY <1>6, FlatDef
    <2>2. FlatFcn(t, n + 1)[n] = FlatFcn(s, n)[n]
        <3> DEFINE m == n + 1
        <3>1. n \in Nat \ {0} /\ m \in Nat /\ n <= n /\ n <= m /\ \A i \in 1..n : t[i] = s[i]
            BY <1>1, <1>6
        <3> HIDE DEF n, g, m
        <3>2. FlatFcn(t, m)[n] = FlatFcn(s, n)[n]
            BY <3>1, FlatPrefix
        <3> QED BY <3>2 DEF m
    <2>3. n \in 1..n /\ n + 1 # 1 /\ n + 1 - 1 = n
        BY <1>1, <1>6
    <2>4. g[n + 1] = g[n] \o x
        BY <1>1, <1>4, <2>3 DEF FlatStep
    <2>5. g[n] = FlatFcn(s, n)[n]
        BY <2>2, <2>3
    <2> QED BY <1>2, <2>1, <2>4, <2>5 DEF t
<1> QED BY <1>5, <1>6

(* Any induction over sequences: over their prefixes. *)
LEMMA FlattenPrefix ==
    ASSUME NEW S, NEW s \in Seq(Seq(S))
    PROVE  \A k \in 0..Len(s) : FlattenSeq(SubSeq(s, 1, k)) \in Seq(S)
<1> DEFINE Good == {k \in Nat : FlattenSeq(SubSeq(s, 1, k)) \in Seq(S)}
<1>1. 0 \in Good
    <2>1. SubSeq(s, 1, 0) = << >> /\ << >> \in Seq(S)
        OBVIOUS
    <2> QED BY <2>1, FlattenEmpty
<1>2. ASSUME NEW k \in 0..(Len(s) - 1), k \in Good
      PROVE  k + 1 \in Good
    <2>1. /\ SubSeq(s, 1, k) \in Seq(Seq(S)) /\ s[k + 1] \in Seq(S)
          /\ SubSeq(s, 1, k + 1) = Append(SubSeq(s, 1, k), s[k + 1])
        OBVIOUS
    <2>2. FlattenSeq(SubSeq(s, 1, k + 1)) = FlattenSeq(SubSeq(s, 1, k)) \o s[k + 1]
        BY <1>2, <2>1, FlattenAppend
    <2>3. FlattenSeq(SubSeq(s, 1, k + 1)) \in Seq(S)
        BY <1>2, <2>1, <2>2, ConcatProperties
    <2> QED BY <2>3
<1>3. Len(s) \in Nat
    OBVIOUS
<1> HIDE DEF Good
<1>4. \A k \in 0..Len(s) : k \in Good
    BY <1>1, <1>2, <1>3, UpTo
<1> QED BY <1>4 DEF Good

LEMMA FlattenType ==
    ASSUME NEW S, NEW s \in Seq(Seq(S))
    PROVE  FlattenSeq(s) \in Seq(S)
<1>1. SubSeq(s, 1, Len(s)) = s /\ Len(s) \in 0..Len(s)
    OBVIOUS
<1> QED BY <1>1, FlattenPrefix

Lists(S, s) == s \in Seq(Seq(S))
Splits(s, u) == FlattenSeq(s \o u) = FlattenSeq(s) \o FlattenSeq(u)

LEMMA FlattenConcatStep ==
    ASSUME NEW S, NEW s, NEW u, NEW x, Lists(S, s), Lists(S, u), x \in Seq(S), Splits(s, u)
    PROVE  Splits(s, Append(u, x))
<1> DEFINE a == FlattenSeq(s)
           b == FlattenSeq(u)
           l == FlattenSeq(s \o u)
<1>1. Lists(S, s \o u) /\ s \o Append(u, x) = Append(s \o u, x)
    <2> DEFINE SS == Seq(S)
    <2>1. s \in Seq(SS) /\ u \in Seq(SS) /\ x \in SS
        BY DEF Lists
    <2>2. (s \o u \in Seq(SS)) = Lists(S, s \o u)
        BY DEF Lists
    <2> HIDE DEF SS
    <2>3. s \o u \in Seq(SS) /\ s \o Append(u, x) = Append(s \o u, x)
        BY <2>1, ConcatAppended
    <2> QED BY <2>2, <2>3
<1>2. l \in Seq(S) /\ a \in Seq(S) /\ b \in Seq(S) /\ l = a \o b
    BY <1>1, FlattenType DEF Lists, Splits
<1>3. FlattenSeq(Append(s \o u, x)) = l \o x
    BY <1>1, <1>2, FlattenAppend DEF Lists
<1>4. FlattenSeq(Append(u, x)) = b \o x
    BY <1>2, FlattenAppend DEF Lists
<1> HIDE DEF a, b, l
<1>5. (a \o b) \o x = a \o (b \o x)
    BY <1>2, Associative
<1>6. FlattenSeq(s \o Append(u, x)) = a \o FlattenSeq(Append(u, x))
    BY <1>1, <1>2, <1>3, <1>4, <1>5
<1> QED BY <1>6 DEF Splits, a

LEMMA FlattenConcat ==
    ASSUME NEW S, NEW s, NEW t, Lists(S, s), Lists(S, t)
    PROVE  Splits(s, t)
<1> DEFINE Good == {k \in Nat : Splits(s, SubSeq(t, 1, k))}
<1>1. 0 \in Good
    <2>1. SubSeq(t, 1, 0) = << >> /\ s \o << >> = s
        BY DEF Lists
    <2>2. FlattenSeq(s) \in Seq(S)
        BY FlattenType DEF Lists
    <2>3. FlattenSeq(s) \o << >> = FlattenSeq(s)
        BY <2>2
    <2> QED BY <2>1, <2>3, FlattenEmpty DEF Splits
<1>2. ASSUME NEW k \in 0..(Len(t) - 1), k \in Good
      PROVE  k + 1 \in Good
    <2> DEFINE u == SubSeq(t, 1, k)
               x == t[k + 1]
    <2>1. Lists(S, u) /\ x \in Seq(S) /\ SubSeq(t, 1, k + 1) = Append(u, x)
        BY DEF Lists
    <2>2. Splits(s, u)
        BY <1>2
    <2> HIDE DEF u, x, Good
    <2>3. Splits(s, Append(u, x))
        BY <2>1, <2>2, FlattenConcatStep
    <2>4. Splits(s, SubSeq(t, 1, k + 1))
        BY <2>1, <2>3, Zenon
    <2>5. k + 1 \in Nat
        OBVIOUS
    <2> QED BY <2>4, <2>5 DEF Good
<1>3. Len(t) \in Nat /\ SubSeq(t, 1, Len(t)) = t /\ Len(t) \in 0..Len(t)
    BY DEF Lists
<1>4. \A k \in 0..Len(t) : k \in Good
    <2> HIDE DEF Good
    <2> QED BY <1>1, <1>2, <1>3, UpTo
<1> QED BY <1>3, <1>4

-----------------------------------------------------------------------------
(* A state of the stack is the one bison reaches from the state below it   *)
(* by the symbol of the node between them.                                 *)
Linked ==
    /\ pc = "parse" => stack[1].items = State0
    /\ \A i \in 2..Len(stack) :
          stack[i].items = Goto(stack[i - 1].items, heap[stack[i].node].name)
    /\ yychar \in Terminals => heap[yylval] = [name |-> yychar, kids |-> << >>]

LEMMA LinkedRead == ASSUME Types, StackOK, Linked, Read PROVE Linked'
<1>1. PICK text : Scan(text) /\ Head(text) \in Terminals \cup {"error", "$end"}
    BY ReadScans
<1>2. UNCHANGED <<pc, stack>> /\ \A n \in Node : heap'[n] = heap[n]
    BY <1>1, Scanned, Grown
<1>3. yychar' \in Terminals => heap'[yylval'] = [name |-> yychar', kids |-> << >>]
  <2>1. CASE yychar' \in {"error", "$end"}
      BY <2>1, NamesDiffer
  <2>2. CASE yychar' \notin {"error", "$end"}
      BY <1>1, <2>2, Scanned
  <2> QED BY <2>1, <2>2
<1>4. \A i \in 2..Len(stack) : stack[i].node \in Node
    BY StackNodes
<1> QED BY <1>2, <1>3, <1>4 DEF Linked

LEMMA LinkedShift == ASSUME Types, StackOK, Linked, Shift PROVE Linked'
<1> DEFINE n == Len(stack)
<1>1. /\ pc = "parse" /\ yychar \in Terminals
      /\ Len(stack') = n + 1 /\ \A i \in 1..n : stack'[i] = stack[i]
      /\ stack'[Len(stack')].node = yylval
      /\ stack'[Len(stack')].items = Goto(stack[n].items, yychar)
    BY Shifted
<1>2. UNCHANGED <<pc, heap>> /\ yychar' = "empty" /\ yychar' \notin Terminals
    BY NamesDiffer DEF Shift, store
<1>3. n \in Nat /\ n > 0 /\ n = Len(stack)
    BY <1>1 DEF Types, StackOK
<1> HIDE DEF n
<1>4. ASSUME NEW i \in 2..Len(stack')
      PROVE  stack'[i].items = Goto(stack'[i - 1].items, heap'[stack'[i].node].name)
  <2>1. CASE i = n + 1
    <3>1. i - 1 = n /\ n \in 1..n
        BY <1>3, <2>1
    <3> QED BY <1>1, <1>2, <2>1, <3>1 DEF Linked
  <2>2. CASE i # n + 1
    <3>1. i \in 2..n /\ i \in 1..n /\ i - 1 \in 1..n
        BY <1>1, <1>3, <2>2
    <3> QED BY <1>1, <1>2, <1>3, <3>1 DEF Linked
  <2> QED BY <2>1, <2>2
<1>5. stack'[1].items = State0
    BY <1>1, <1>3 DEF Linked
<1> QED BY <1>2, <1>4, <1>5 DEF Linked

(* The node of an action has the name of its rule. *)
LEMMA BuiltName ==
    ASSUME Types, StackOK, Looking, NEW item, Reducible(item), heap' = Built(item)
    PROVE  /\ heap'[Len(heap')].name = item.lhs /\ Len(heap') \in Node'
           /\ \A n \in Node : heap'[n] = heap[n]
<1>1. CASE item.dot > 0
  <2>1. /\ heap'[Len(heap')] = [name |-> item.lhs, kids |-> Children(item)]
        /\ \A n \in Node : heap'[n] = heap[n]
      BY <1>1, BuiltByRule
  <2> QED BY <2>1, BuiltOK
<1>2. CASE item.dot = 0
  <2>1. /\ heap'[Len(heap')] = [name |-> item.lhs, kids |-> <<Len(heap) + 1>>]
        /\ \A n \in Node : heap'[n] = heap[n]
      BY <1>2, BuiltByEmptyRule
  <2> QED BY <2>1, BuiltOK
<1>3. item.dot \in 0..(Len(stack) - 1)
    BY ReducedItem
<1> QED BY <1>1, <1>2, <1>3

LEMMA LinkedReduce == ASSUME Types, StackOK, Linked, Reduce PROVE Linked'
<1>1. PICK item :
           /\ Looking /\ Reducible(item) /\ item.lhs # "program" /\ heap' = Built(item)
           /\ stack' \in Seq(Entry) /\ Len(stack') = Len(stack) - item.dot + 1
           /\ \A i \in 1..(Len(stack) - item.dot) : stack'[i] = stack[i]
           /\ stack'[Len(stack')].node = Len(heap')
           /\ stack'[Len(stack')].items = Goto(stack[Len(stack) - item.dot].items, item.lhs)
    BY Reduced
<1> DEFINE n == Len(stack)
           m == n - item.dot
<1>2. UNCHANGED <<pc, yychar, yylval>> /\ pc = "parse"
    BY DEF Reduce, Looking, Room
<1>3. n \in Nat /\ m \in 1..n /\ n = Len(stack)
    BY <1>1, ReducedItem DEF Types
<1>4. heap'[Len(heap')].name = item.lhs /\ \A k \in Node : heap'[k] = heap[k]
    BY <1>1, BuiltName
<1>5. /\ Len(stack') = m + 1 /\ \A i \in 1..m : stack'[i] = stack[i]
      /\ stack'[m + 1].node = Len(heap') /\ stack'[m + 1].items = Goto(stack[m].items, item.lhs)
    BY <1>1
<1>6. \A i \in 2..n : stack[i].node \in Node
    BY StackNodes
<1> HIDE DEF n, m
<1>7. ASSUME NEW i \in 2..Len(stack')
      PROVE  stack'[i].items = Goto(stack'[i - 1].items, heap'[stack'[i].node].name)
  <2>1. CASE i = m + 1
    <3>1. i - 1 = m /\ m \in 1..m
        BY <1>3, <2>1
    <3> QED BY <1>4, <1>5, <2>1, <3>1
  <2>2. CASE i # m + 1
    <3>1. i \in 2..n /\ i \in 1..m /\ i - 1 \in 1..m
        BY <1>3, <1>5, <2>2
    <3>2. stack[i].items = Goto(stack[i - 1].items, heap[stack[i].node].name)
        BY <1>3, <3>1 DEF Linked
    <3>3. heap'[stack[i].node] = heap[stack[i].node]
        BY <1>4, <1>6, <3>1
    <3> QED BY <1>5, <3>1, <3>2, <3>3
  <2> QED BY <2>1, <2>2
<1>8. stack'[1].items = State0
    BY <1>2, <1>3, <1>5 DEF Linked
<1>9. yychar \in Terminals => heap'[yylval] = heap[yylval]
    BY <1>4 DEF StackOK
<1> QED BY <1>2, <1>7, <1>8, <1>9 DEF Linked

LEMMA LinkedNext ==
    ASSUME Types, Stages, StackOK, Linked, [Next]_vars PROVE Linked'
<1>1. CASE Open
  <2>1. yychar' = "empty" /\ yychar' \notin Terminals
      BY <1>1, NamesDiffer DEF Open, Stages
  <2>2. CASE stack' = <<[items |-> State0, node |-> 0]>>
    <3>1. Len(stack') = 1 /\ stack'[1].items = State0
        BY <2>2
    <3> QED BY <2>1, <3>1 DEF Linked
  <2>3. CASE pc' = "exit" /\ stack' = stack
    <3>1. heap' = heap
        BY <1>1 DEF Open, store
    <3> QED BY <2>1, <2>3, <3>1 DEF Linked
  <2> QED BY <1>1, <2>2, <2>3 DEF Open
<1>2. CASE Accept
  <2>1. stack' = << >> /\ pc' = "use" /\ yychar' = "$end"
      BY <1>2, Accepted
  <2>2. Len(stack') = 0
      BY <2>1
  <2> QED BY <2>1, <2>2, NamesDiffer DEF Linked
<1>3. CASE Yyerror \/ UseFails \/ Use \/ DeleteChild \/ FreeNode \/ EndDelete \/ Stop \/ UNCHANGED vars
  <2>1. UNCHANGED <<stack, yychar, yylval, heap>> /\ (pc' = "parse" => pc = "parse")
      BY <1>3 DEF Yyerror, UseFails, Use, DeleteChild, FreeNode, EndDelete, Stop, vars, parser, store
  <2> QED BY <2>1 DEF Linked
<1> QED BY <1>1, <1>2, <1>3, LinkedRead, LinkedShift, LinkedReduce DEF Next

-----------------------------------------------------------------------------
(* What the items know of the stack. *)
LEMMA ClosureItem ==
    ASSUME NEW i \in Nat \ {0}, NEW items, ItemsOK(i, items),
           NEW c \in Closure(items), c \notin items
    PROVE  c.dot = 0 /\ \E s \in Symbols : c \in Leftmost[s] /\ Leftmost[s] \subseteq Closure(items)
<1>1. PICK k \in items : ~AtEnd(k) /\ c \in Leftmost[k.rhs[k.dot + 1]]
    BY DEF Closure
<1>2. PICK p \in Productions : k = ItemOf(p, k.dot) /\ k.dot \in 0..Len(p.rhs)
    BY DEF ItemsOK, ItemOK
<1>3. p.rhs \in Seq(Symbols) /\ p.rhs = k.rhs
    BY <1>2, ProductionsHaveSymbols DEF ItemOf
<1>4. k.dot + 1 \in DOMAIN p.rhs
    BY <1>1, <1>2, <1>3 DEF AtEnd
<1>5. k.rhs[k.dot + 1] \in Symbols
    BY <1>3, <1>4
<1> DEFINE s == k.rhs[k.dot + 1]
<1>6. s \in Symbols /\ c \in Leftmost[s]
    BY <1>1, <1>5
<1>8. Leftmost[s] \subseteq Closure(items)
    BY <1>1 DEF Closure
<1> HIDE DEF s
<1>7. \E q \in Productions : c = ItemOf(q, 0)
    BY <1>6 DEF Leftmost
<1> QED BY <1>6, <1>7, <1>8 DEF ItemOf

LEMMA GotoItem ==
    ASSUME NEW i \in Nat \ {0}, NEW items, ItemsOK(i, items), NEW s, NEW item \in Goto(items, s)
    PROVE  \E c \in Closure(items) :
              /\ c \in Item /\ item.lhs = c.lhs /\ item.rhs = c.rhs /\ item.dot = c.dot + 1
              /\ ~AtEnd(c) /\ c.rhs[c.dot + 1] = s
              /\ c \in items \/ c.dot = 0
<1>1. PICK c \in Closure(items) :
          item = [c EXCEPT !.dot = @ + 1] /\ ~AtEnd(c) /\ c.rhs[c.dot + 1] = s
    BY DEF Goto
<1>2. c \in Item
    BY ClosureOK, ItemsAreItems DEF ItemsOK
<1>3. item.lhs = c.lhs /\ item.rhs = c.rhs /\ item.dot = c.dot + 1
    BY <1>1, <1>2 DEF Item
<1> QED BY <1>1, <1>2, <1>3, ClosureItem

(* The symbols before the dot of an item are the names of the nodes on top *)
(* of the stack.                                                           *)
SpelledAt(i) ==
    \A item \in stack[i].items : \A k \in 1..item.dot :
        item.rhs[k] = heap[stack[i - item.dot + k].node].name

LEMMA SpelledNext ==
    ASSUME Types, StackOK, Linked, pc = "parse", NEW i \in 1..(Len(stack) - 1), SpelledAt(i)
    PROVE  SpelledAt(i + 1)
<1> DEFINE s == heap[stack[i + 1].node].name
<1>1. /\ i \in Nat \ {0} /\ i \in 1..Len(stack) /\ i + 1 \in 2..Len(stack)
      /\ i + 1 - 1 = i
    BY DEF Types
<1>2. stack[i + 1].items = Goto(stack[i].items, s)
    BY <1>1 DEF Linked
<1> HIDE DEF s
<1> DEFINE j == i + 1
<1> SUFFICES SpelledAt(j)
    OBVIOUS
<1>9. j = i + 1
    OBVIOUS
<1> HIDE DEF j
<1> SUFFICES ASSUME NEW item \in stack[j].items, NEW k \in 1..item.dot
             PROVE  item.rhs[k] = heap[stack[j - item.dot + k].node].name
    BY DEF SpelledAt
<1> DEFINE items == stack[i].items
<1>3. ItemsOK(i, items)
    BY <1>1 DEF StackOK
<1>4. item \in Goto(items, s)
    BY <1>2, <1>9
<1> HIDE DEF items
<1>5. PICK c \in Closure(items) :
              /\ c \in Item /\ item.lhs = c.lhs /\ item.rhs = c.rhs /\ item.dot = c.dot + 1
              /\ ~AtEnd(c) /\ c.rhs[c.dot + 1] = s
              /\ c \in items \/ c.dot = 0
    BY <1>1, <1>3, <1>4, GotoItem
<1>6. c.dot \in Nat
    BY <1>5 DEF Item
<1>7. CASE k = c.dot + 1
  <2>1. j - item.dot + k = i + 1
      BY <1>1, <1>5, <1>6, <1>7, <1>9
  <2> QED BY <1>5, <1>7, <2>1 DEF s
<1>8. CASE k # c.dot + 1
  <2>1. k \in 1..c.dot /\ c.dot # 0 /\ j - item.dot + k = i - c.dot + k
      BY <1>1, <1>5, <1>6, <1>8, <1>9
  <2>2. c.rhs[k] = heap[stack[i - c.dot + k].node].name
      BY <1>5, <2>1 DEF SpelledAt, items
  <2> QED BY <1>5, <2>1, <2>2
<1> QED BY <1>7, <1>8

LEMMA Spelled ==
    ASSUME Types, StackOK, Linked, pc = "parse"
    PROVE  \A i \in 1..Len(stack) : SpelledAt(i)
<1> DEFINE n == Len(stack)
           Good == {i \in Nat : i = 0 \/ SpelledAt(i)}
<1>1. n \in Nat /\ n = Len(stack)
    BY DEF Types
<1>2. ASSUME NEW i \in 0..(n - 1), i \in Good PROVE i + 1 \in Good
  <2>1. CASE i = 0
    <3>1. \A item \in stack[1].items : item.dot = 0
        BY DEF Linked, State0, ItemOf
    <3>2. SpelledAt(1)
        BY <3>1 DEF SpelledAt
    <3> QED BY <2>1, <3>2
  <2>2. CASE i # 0
    <3>1. i \in 1..(Len(stack) - 1)
        BY <1>1, <2>2
    <3>2. SpelledAt(i + 1)
        BY <1>2, <2>2, <3>1, SpelledNext
    <3> QED BY <3>2
  <2> QED BY <2>1, <2>2
<1>3. \A i \in 0..n : i \in Good
  <2> HIDE DEF Good, n
  <2>1. 0 \in Good
      BY DEF Good
  <2> QED BY <1>1, <1>2, <2>1, UpTo
<1> QED BY <1>1, <1>3

-----------------------------------------------------------------------------
(* The tree follows the grammar. *)
LEMMA NoEmptyRule == \A name \in NonTerminals : << >> \notin Rules[name]
<1> SUFFICES ASSUME NEW name \in NonTerminals, << >> \in Rules[name] PROVE FALSE
    OBVIOUS
<1>1. CASE << >> \in DeclarationRules(name)
    BY <1>1 DEF DeclarationRules
<1>2. CASE << >> \in StatementRules(name)
    BY <1>2 DEF StatementRules
<1>3. CASE << >> \in ExpressionRules(name)
    BY <1>3 DEF ExpressionRules
<1>4. CASE << >> \in FactorRules(name)
    BY <1>4 DEF FactorRules
<1> QED BY <1>1, <1>2, <1>3, <1>4 DEF Rules

LEMMA EpsilonIsNoName == "epsilon" \notin NonTerminals
BY DEF NonTerminals

(* The rule of an action. *)
LEMMA ReducedRule ==
    ASSUME Types, StackOK, Linked, Looking, NEW item, Reducible(item)
    PROVE  /\ item.lhs \in NonTerminals
           /\ item.dot > 0 => /\ item.rhs \in Rules[item.lhs] /\ item.rhs \in Seq(Symbols)
                              /\ item \in Top
                              /\ \A k \in 1..item.dot : item.rhs[k] = heap[Symbol(item, k)].name
           /\ item.dot = 0 => <<"epsilon">> \in Rules[item.lhs]
<1> DEFINE n == Len(stack)
<1>1. n \in Nat \ {0} /\ pc = "parse" /\ n = Len(stack) /\ n \in 1..Len(stack)
    BY DEF Types, StackOK, Looking, Room
<1>2. ItemsOK(n, Top) /\ item \in Closure(Top)
    BY <1>1 DEF StackOK, Top, Reducible, Reductions
<1> HIDE DEF n
<1>3. ItemOK(n, item)
    BY <1>1, <1>2, ClosureOK DEF ItemsOK
<1>4. item.dot = Len(item.rhs) /\ item.dot \in 0..(n - 1)
    BY <1>1, ReducedItem
<1>5. PICK p \in Productions : item.lhs = p.lhs /\ item.rhs = p.rhs
    BY <1>3 DEF ItemOK, ItemOf
<1>10. PICK name \in NonTerminals : \E r \in Rules[name] :
          p = [lhs |-> name, rhs |-> IF r = <<"epsilon">> THEN << >> ELSE r]
    BY DEF Productions
<1>6. PICK r \in Rules[name] :
          p = [lhs |-> name, rhs |-> IF r = <<"epsilon">> THEN << >> ELSE r]
    BY <1>10
<1>7. item.lhs = name /\ item.rhs = (IF r = <<"epsilon">> THEN << >> ELSE r)
    BY <1>5, <1>6
<1>8. item.dot = 0 => r = <<"epsilon">>
  <2>1. item.rhs \in Seq(Symbols)
      BY <1>5, ProductionsHaveSymbols
  <2>2. item.dot = 0 => item.rhs = << >>
      BY <1>4, <2>1, EmptySeq
  <2> QED BY <1>6, <1>7, <2>2, NoEmptyRule
<1>9. ASSUME item.dot > 0
      PROVE  /\ item.rhs \in Rules[item.lhs] /\ item.rhs \in Seq(Symbols) /\ item \in Top
             /\ \A k \in 1..item.dot : item.rhs[k] = heap[Symbol(item, k)].name
  <2>1. item.rhs # << >> /\ item.rhs \in Seq(Symbols)
    <3>1. Len(<< >>) = 0
        OBVIOUS
    <3> QED BY <1>4, <1>5, <1>9, <3>1, ProductionsHaveSymbols
  <2>2. item.rhs \in Rules[item.lhs]
      BY <1>6, <1>7, <2>1
  <2>3. item \in Top
      BY <1>1, <1>2, <1>4, <1>9, ClosureItem
  <2>4. SpelledAt(n)
      BY <1>1, Spelled
  <2>5. \A k \in 1..item.dot : item.rhs[k] = heap[stack[n - item.dot + k].node].name
      BY <1>1, <2>3, <2>4 DEF SpelledAt, Top
  <2> QED BY <1>1, <2>1, <2>2, <2>3, <2>5 DEF Symbol
<1> QED BY <1>6, <1>7, <1>8, <1>9

KidNames(h, n) == [k \in DOMAIN h[n].kids |-> h[h[n].kids[k]].name]
RuleOf(h, n) ==
    IF h[n].name \in NonTerminals
    THEN KidNames(h, n) \in Rules[h[n].name]
    ELSE h[n].kids = << >>
Grammatical == \A n \in Node : RuleOf(heap, n)

(* An old node keeps its rule. *)
LEMMA RuleStays ==
    ASSUME Types, NEW n \in Node, RuleOf(heap, n), NEW h, \A m \in Node : h[m] = heap[m]
    PROVE  RuleOf(h, n)
<1>1. h[n] = heap[n] /\ \A k \in DOMAIN heap[n].kids : h[heap[n].kids[k]] = heap[heap[n].kids[k]]
    BY KidsAreNodes
<1>2. KidNames(h, n) = KidNames(heap, n)
    BY <1>1 DEF KidNames
<1> QED BY <1>1, <1>2 DEF RuleOf

LEMMA BuiltRule ==
    ASSUME Types, StackOK, Linked, Grammatical, Looking, NEW item, Reducible(item),
           heap' = Built(item)
    PROVE  Grammatical'
<1> DEFINE h == heap'
<1>1. CASE item.dot > 0
  <2> DEFINE m == Len(heap')
  <2>1. /\ Node' = Node \cup {m} /\ \A n \in Node : h[n] = heap[n]
        /\ h[m] = [name |-> item.lhs, kids |-> Children(item)]
      BY <1>1, BuiltByRule
  <2>2. /\ item.lhs \in NonTerminals /\ item.rhs \in Rules[item.lhs] /\ item.rhs \in Seq(Symbols)
        /\ \A k \in 1..item.dot : item.rhs[k] = heap[Symbol(item, k)].name
      BY <1>1, ReducedRule
  <2>3. /\ DOMAIN Children(item) = 1..item.dot /\ item.dot = Len(item.rhs)
        /\ \A k \in 1..item.dot : Children(item)[k] \in Node /\ Children(item)[k] = Symbol(item, k)
      BY ChildrenAre, ReducedItem DEF Children
  <2> HIDE DEF h, m
  <2>4. KidNames(h, m) = [k \in 1..item.dot |-> heap[Symbol(item, k)].name]
      BY <2>1, <2>3 DEF KidNames
  <2>5. item.rhs = [k \in 1..item.dot |-> item.rhs[k]]
      BY <2>2, <2>3
  <2>6. KidNames(h, m) = item.rhs
      BY <2>2, <2>4, <2>5
  <2>7. RuleOf(h, m)
      BY <2>1, <2>2, <2>6 DEF RuleOf
  <2>8. \A n \in Node : RuleOf(h, n)
      BY <2>1, RuleStays DEF Grammatical
  <2>9. \A n \in Node \cup {m} : RuleOf(h, n)
      BY <2>7, <2>8
  <2> QED BY <2>1, <2>9 DEF Grammatical, h
<1>2. CASE item.dot = 0
  <2> DEFINE m == Len(heap')
             e == Len(heap) + 1
  <2>1. /\ Node' = Node \cup {e, m} /\ \A n \in Node : h[n] = heap[n]
        /\ h[e] = [name |-> "epsilon", kids |-> << >>]
        /\ h[m] = [name |-> item.lhs, kids |-> <<e>>]
      BY <1>2, BuiltByEmptyRule
  <2>2. item.lhs \in NonTerminals /\ <<"epsilon">> \in Rules[item.lhs]
      BY <1>2, ReducedRule
  <2> HIDE DEF h, m, e
  <2>3. KidNames(h, m) = <<"epsilon">>
      BY <2>1 DEF KidNames
  <2>4. RuleOf(h, m) /\ RuleOf(h, e)
      BY <2>1, <2>2, <2>3, EpsilonIsNoName DEF RuleOf
  <2>5. \A n \in Node : RuleOf(h, n)
      BY <2>1, RuleStays DEF Grammatical
  <2>6. \A n \in Node \cup {e, m} : RuleOf(h, n)
      BY <2>4, <2>5
  <2> QED BY <2>1, <2>6 DEF Grammatical, h
<1>3. item.dot \in 0..(Len(stack) - 1)
    BY ReducedItem
<1> QED BY <1>1, <1>2, <1>3

LEMMA GrammaticalNext ==
    ASSUME Types, Stages, StackOK, Linked, Grammatical, [Next]_vars PROVE Grammatical'
<1>1. CASE Read
  <2>1. PICK text : Scan(text) /\ Head(text) \in Terminals \cup {"error", "$end"}
      BY <1>1, ReadScans
  <2>2. CASE UNCHANGED heap
      BY <2>2 DEF Grammatical, Node
  <2>3. CASE ~UNCHANGED heap
    <3> DEFINE h == heap'
               m == Len(heap')
    <3>1. /\ yychar' \in Terminals /\ Node' = Node \cup {m}
          /\ \A n \in Node : h[n] = heap[n]
          /\ h[m] = [name |-> yychar', kids |-> << >>]
        BY <2>1, <2>3, Scanned
    <3>2. yychar' \notin NonTerminals
        BY <3>1 DEF Terminals
    <3> HIDE DEF h, m
    <3>3. RuleOf(h, m)
        BY <3>1, <3>2 DEF RuleOf
    <3>4. \A n \in Node : RuleOf(h, n)
        BY <3>1, RuleStays DEF Grammatical
    <3>5. \A n \in Node \cup {m} : RuleOf(h, n)
        BY <3>3, <3>4
    <3> QED BY <3>1, <3>5 DEF Grammatical, h
  <2> QED BY <2>2, <2>3
<1>2. CASE Reduce \/ Accept
  <2>1. PICK item : Looking /\ Reducible(item) /\ heap' = Built(item)
      BY <1>2, Reduced, Accepted
  <2> QED BY <2>1, BuiltRule
<1>3. CASE Open \/ Shift \/ Yyerror \/ UseFails \/ Use \/ DeleteChild \/ FreeNode
           \/ EndDelete \/ Stop \/ UNCHANGED vars
  <2>1. UNCHANGED heap
      BY <1>3 DEF Open, Shift, Yyerror, UseFails, Use, DeleteChild, FreeNode, EndDelete, Stop, vars, store
  <2> QED BY <2>1 DEF Grammatical, Node
<1> QED BY <1>1, <1>2, <1>3 DEF Next

-----------------------------------------------------------------------------
(* Yield, of any heap whose children are older than their parents. *)
OldKids(h) ==
    /\ h \in Seq(NodeType)
    /\ \A n \in DOMAIN h : \A k \in DOMAIN h[n].kids : h[n].kids[k] \in 1..(n - 1)

YieldStep(h, f, n) ==
    IF h[n].name = "epsilon" THEN << >>
    ELSE IF h[n].kids = << >> THEN <<h[n].name>>
    ELSE FlattenSeq([k \in DOMAIN h[n].kids |-> f[h[n].kids[k]]])
YieldOf(h) == CHOOSE f : f = [n \in DOMAIN h |-> YieldStep(h, f, n)]

LEMMA YieldIs == Yield = YieldOf(heap) /\ Yield' = YieldOf(heap')
<1>1. Yield = YieldOf(heap)
    BY DEF Yield, YieldOf, YieldStep, Node
<1>2. Yield' = YieldOf(heap')
    BY DEF Yield, YieldOf, YieldStep, Node
<1> QED BY <1>1, <1>2

(* The step at n reads f at its children only. *)
LEMMA YieldReads ==
    ASSUME NEW h, NEW g, NEW f, NEW e, NEW n, h[n] = g[n],
           \A k \in DOMAIN h[n].kids : f[h[n].kids[k]] = e[h[n].kids[k]]
    PROVE  YieldStep(h, f, n) = YieldStep(g, e, n)
<1>1. [k \in DOMAIN h[n].kids |-> f[h[n].kids[k]]] = [k \in DOMAIN h[n].kids |-> e[h[n].kids[k]]]
    OBVIOUS
<1> QED BY <1>1 DEF YieldStep

LEMMA YieldDef ==
    ASSUME NEW h, OldKids(h)
    PROVE  YieldOf(h) = [n \in DOMAIN h |-> YieldStep(h, YieldOf(h), n)]
<1> DEFINE Good == {k \in Nat : \E f : f = [n \in 1..k |-> YieldStep(h, f, n)]}
<1>1. 0 \in Good
  <2> DEFINE f == [n \in 1..0 |-> 0]
  <2>1. f = [n \in 1..0 |-> YieldStep(h, f, n)]
      OBVIOUS
  <2> QED BY <2>1
<1>2. DOMAIN h = 1..Len(h) /\ Len(h) \in Nat
    BY DEF OldKids
<1>3. ASSUME NEW k \in 0..(Len(h) - 1), k \in Good
      PROVE  k + 1 \in Good
  <2>1. PICK f : f = [n \in 1..k |-> YieldStep(h, f, n)]
      BY <1>3
  <2> DEFINE g == [n \in 1..(k + 1) |-> IF n = k + 1 THEN YieldStep(h, f, n) ELSE f[n]]
  <2>2. ASSUME NEW n \in 1..(k + 1)
        PROVE  g[n] = YieldStep(h, g, n)
    <3>1. n \in DOMAIN h
        BY <1>2
    <3>2. \A j \in DOMAIN h[n].kids : h[n].kids[j] \in 1..(n - 1)
        BY <3>1 DEF OldKids
    <3>3. \A m \in 1..(n - 1) : m \in 1..(k + 1) /\ m # k + 1
        OBVIOUS
    <3>4. \A m \in 1..(n - 1) : g[m] = f[m]
        BY <3>3
    <3>5. g[n] = IF n = k + 1 THEN YieldStep(h, f, n) ELSE f[n]
        OBVIOUS
    <3> HIDE DEF g
    <3>6. YieldStep(h, g, n) = YieldStep(h, f, n)
        BY <3>2, <3>4, YieldReads
    <3>7. CASE n = k + 1
        BY <3>5, <3>6, <3>7
    <3>8. CASE n # k + 1
      <4>1. n \in 1..k
          BY <3>8
      <4>2. f[n] = YieldStep(h, f, n)
          BY <2>1, <4>1
      <4> QED BY <3>5, <3>6, <3>8, <4>2
    <3> QED BY <3>7, <3>8
  <2>3. g = [n \in 1..(k + 1) |-> YieldStep(h, g, n)]
      BY <2>2
  <2> HIDE DEF g
  <2> QED BY <2>3
<1>4. Len(h) \in Good
  <2> HIDE DEF Good
  <2>1. \A k \in 0..Len(h) : k \in Good
      BY <1>1, <1>2, <1>3, UpTo
  <2>2. Len(h) \in 0..Len(h)
      BY <1>2
  <2> QED BY <2>1, <2>2
<1> QED BY <1>2, <1>4 DEF YieldOf

(* What was a node keeps its leaves. *)
LEMMA YieldStays ==
    ASSUME NEW h, NEW g, OldKids(h), OldKids(g), Len(h) <= Len(g),
           \A n \in DOMAIN h : h[n] = g[n]
    PROVE  \A n \in DOMAIN h : YieldOf(g)[n] = YieldOf(h)[n]
<1> DEFINE yh == YieldOf(h)
           yg == YieldOf(g)
           Good == {k \in Nat : \A n \in 1..k : yh[n] = yg[n]}
<1>1. DOMAIN h = 1..Len(h) /\ DOMAIN g = 1..Len(g) /\ Len(h) \in Nat /\ Len(g) \in Nat
    BY DEF OldKids
<1>2. /\ yh = [n \in DOMAIN h |-> YieldStep(h, yh, n)]
      /\ yg = [n \in DOMAIN g |-> YieldStep(g, yg, n)]
    BY YieldDef
<1> HIDE DEF yh, yg
<1>3. ASSUME NEW k \in 0..(Len(h) - 1), k \in Good
      PROVE  k + 1 \in Good
  <2> DEFINE m == k + 1
  <2>1. m \in DOMAIN h /\ m \in DOMAIN g /\ m \in Nat /\ \A j \in 1..m : j = m \/ j \in 1..k
      BY <1>1
  <2>2. \A j \in DOMAIN h[m].kids : h[m].kids[j] \in 1..k
    <3>1. m - 1 = k
        OBVIOUS
    <3> HIDE DEF m
    <3> QED BY <2>1, <3>1 DEF OldKids
  <2> HIDE DEF m
  <2>3. \A j \in DOMAIN h[m].kids : yh[h[m].kids[j]] = yg[h[m].kids[j]]
      BY <1>3, <2>2
  <2>4. YieldStep(h, yh, m) = YieldStep(g, yg, m)
      BY <2>1, <2>3, YieldReads
  <2>5. yh[m] = YieldStep(h, yh, m) /\ yg[m] = YieldStep(g, yg, m)
      BY <1>2, <2>1
  <2>6. \A j \in 1..m : yh[j] = yg[j]
      BY <1>3, <2>1, <2>4, <2>5
  <2>7. m \in Good
      BY <2>1, <2>6
  <2> QED BY <2>7 DEF m
<1>4. 0 \in Good
    OBVIOUS
<1>5. Len(h) \in Good
  <2> HIDE DEF Good
  <2>1. \A k \in 0..Len(h) : k \in Good
      BY <1>1, <1>3, <1>4, UpTo
  <2>2. Len(h) \in 0..Len(h)
      BY <1>1
  <2> QED BY <2>1, <2>2
<1> QED BY <1>1, <1>5 DEF yh, yg

LEMMA YieldType ==
    ASSUME NEW h, OldKids(h)
    PROVE  \A n \in DOMAIN h : YieldOf(h)[n] \in Seq(Symbols)
<1> DEFINE y == YieldOf(h)
           Good == {k \in Nat : \A n \in 1..k : y[n] \in Seq(Symbols)}
<1>1. DOMAIN h = 1..Len(h) /\ Len(h) \in Nat
    BY DEF OldKids
<1>2. y = [n \in DOMAIN h |-> YieldStep(h, y, n)]
    BY YieldDef
<1> HIDE DEF y
<1>3. ASSUME NEW k \in 0..(Len(h) - 1), k \in Good
      PROVE  k + 1 \in Good
  <2> DEFINE m == k + 1
  <2>1. m \in DOMAIN h /\ m \in Nat /\ \A j \in 1..m : j = m \/ j \in 1..k
      BY <1>1
  <2>2. \A j \in DOMAIN h[m].kids : h[m].kids[j] \in 1..k
    <3>1. m - 1 = k
        OBVIOUS
    <3> HIDE DEF m
    <3> QED BY <2>1, <3>1 DEF OldKids
  <2> HIDE DEF m
  <2>3. y[m] = YieldStep(h, y, m)
      BY <1>2, <2>1
  <2>4. h[m] \in NodeType
      BY <2>1 DEF OldKids
  <2>5. y[m] \in Seq(Symbols)
    <3>1. CASE h[m].name = "epsilon"
        BY <2>3, <3>1 DEF YieldStep
    <3>2. CASE h[m].name # "epsilon" /\ h[m].kids = << >>
      <4>1. h[m].name \in Symbols
          BY <2>4, <3>2 DEF NodeType
      <4>2. y[m] = <<h[m].name>>
          BY <2>3, <3>2 DEF YieldStep
      <4> QED BY <4>1, <4>2
    <3>3. CASE h[m].name # "epsilon" /\ h[m].kids # << >>
      <4> DEFINE kids == h[m].kids
                 s == [j \in DOMAIN kids |-> y[kids[j]]]
      <4>1. y[m] = FlattenSeq(s)
          BY <2>3, <3>3 DEF YieldStep
      <4>2. \A j \in DOMAIN kids : y[kids[j]] \in Seq(Symbols)
          BY <1>3, <2>2
      <4>3. kids \in Seq(Nat \ {0})
          BY <2>4 DEF NodeType
      <4>4. DOMAIN kids = 1..Len(kids) /\ Len(kids) \in Nat
          BY <4>3
      <4> HIDE DEF kids
      <4>5. s \in Seq(Seq(Symbols))
          BY <4>2, <4>4
      <4> HIDE DEF s
      <4> QED BY <4>1, <4>5, FlattenType
    <3> QED BY <3>1, <3>2, <3>3
  <2>6. \A j \in 1..m : y[j] \in Seq(Symbols)
      BY <1>3, <2>1, <2>5
  <2>7. m \in Good
      BY <2>1, <2>6
  <2> QED BY <2>7 DEF m
<1>4. 0 \in Good
    OBVIOUS
<1>5. Len(h) \in Good
  <2> HIDE DEF Good
  <2>1. \A k \in 0..Len(h) : k \in Good
      BY <1>1, <1>3, <1>4, UpTo
  <2>2. Len(h) \in 0..Len(h)
      BY <1>1
  <2> QED BY <2>1, <2>2
<1> QED BY <1>1, <1>5 DEF y

-----------------------------------------------------------------------------
(* The leaves of the stack. *)
LEMMA SplitAt ==
    ASSUME NEW V, NEW s \in Seq(V), NEW m \in 0..Len(s)
    PROVE  /\ SubSeq(s, 1, m) \in Seq(V) /\ SubSeq(s, m + 1, Len(s)) \in Seq(V)
           /\ s = SubSeq(s, 1, m) \o SubSeq(s, m + 1, Len(s))
           /\ Len(SubSeq(s, 1, m)) = m /\ Len(SubSeq(s, m + 1, Len(s))) = Len(s) - m
           /\ \A k \in 1..m : SubSeq(s, 1, m)[k] = s[k]
           /\ \A k \in 1..(Len(s) - m) : SubSeq(s, m + 1, Len(s))[k] = s[m + k]
<1> DEFINE a == SubSeq(s, 1, m)
           b == SubSeq(s, m + 1, Len(s))
           l == a \o b
<1>1. /\ a \in Seq(V) /\ b \in Seq(V) /\ Len(a) = m /\ Len(b) = Len(s) - m
      /\ \A k \in 1..m : a[k] = s[k]
      /\ \A k \in 1..(Len(s) - m) : b[k] = s[m + k]
    OBVIOUS
<1> HIDE DEF a, b
<1>2. l \in Seq(V) /\ Len(l) = Len(s)
  <2>1. Len(s) \in Nat /\ m \in Nat /\ m + (Len(s) - m) = Len(s)
      OBVIOUS
  <2>2. l \in Seq(V) /\ Len(l) = Len(a) + Len(b)
      BY <1>1, ConcatProperties
  <2> QED BY <1>1, <2>1, <2>2
<1>3. ASSUME NEW i \in 1..Len(s) PROVE l[i] = s[i]
    BY <1>1
<1> HIDE DEF l
<1>4. l = s
    BY <1>2, <1>3, SeqEqual
<1> QED BY <1>1, <1>4 DEF l, a, b

Yields(y, s) == [i \in 1..(Len(s) - 1) |-> y[s[i + 1].node]]

LEMMA YieldsAre ==
    ASSUME NEW y, NEW s \in Seq(Entry), s # << >>
    PROVE  [i \in 1..Len(Tail(s)) |-> y[Tail(s)[i].node]] = Yields(y, s)
<1>1. Len(Tail(s)) = Len(s) - 1 /\ \A i \in 1..(Len(s) - 1) : Tail(s)[i] = s[i + 1]
    OBVIOUS
<1> QED BY <1>1 DEF Yields

Leaves(V, y, s) == s \in Seq(Entry) /\ s # << >> /\ \A i \in 2..Len(s) : y[s[i].node] \in V
YieldsIn(V, y, s) ==
    /\ Yields(y, s) \in Seq(V) /\ Len(Yields(y, s)) = Len(s) - 1
    /\ \A i \in 1..(Len(s) - 1) : Yields(y, s)[i] = y[s[i + 1].node]

LEMMA YieldsType ==
    ASSUME NEW V, NEW y, NEW s, Leaves(V, y, s)
    PROVE  YieldsIn(V, y, s)
<1>0. s \in Seq(Entry) /\ s # << >> /\ \A i \in 2..Len(s) : y[s[i].node] \in V
    BY DEF Leaves
<1>1. Len(s) - 1 \in Nat
    BY <1>0, EmptySeq
<1>2. \A i \in 1..(Len(s) - 1) : i + 1 \in 2..Len(s)
    BY <1>1
<1>3. \A i \in 1..(Len(s) - 1) : y[s[i + 1].node] \in V
    BY <1>0, <1>2
<1> DEFINE n == Len(s) - 1
<1>4. Yields(y, s) = [i \in 1..n |-> y[s[i + 1].node]]
    BY DEF Yields
<1>5. n \in Nat /\ \A i \in 1..n : y[s[i + 1].node] \in V
    BY <1>1, <1>3
<1> HIDE DEF n
<1>6. /\ Yields(y, s) \in Seq(V) /\ Len(Yields(y, s)) = n
      /\ \A i \in 1..n : Yields(y, s)[i] = y[s[i + 1].node]
    BY <1>4, <1>5
<1> QED BY <1>6 DEF n, YieldsIn

(* A node is put on the lowest m entries of the stack. *)
PushedOn(V, y, z, s, t, m) ==
    /\ s \in Seq(Entry) /\ t \in Seq(Entry) /\ m \in 1..Len(s)
    /\ \A i \in 2..Len(s) : y[s[i].node] \in V /\ z[s[i].node] = y[s[i].node]
    /\ Len(t) = m + 1 /\ \A i \in 1..m : t[i] = s[i]
    /\ z[t[m + 1].node] \in V
YieldsGrow(y, z, s, t, m) ==
    Yields(z, t) = Append(SubSeq(Yields(y, s), 1, m - 1), z[t[m + 1].node])

LEMMA YieldsPushed ==
    ASSUME NEW V, NEW y, NEW z, NEW s, NEW t, NEW m, PushedOn(V, y, z, s, t, m)
    PROVE  YieldsGrow(y, z, s, t, m)
<1> SUFFICES
        ASSUME s \in Seq(Entry), t \in Seq(Entry), m \in 1..Len(s),
               \A i \in 2..Len(s) : y[s[i].node] \in V /\ z[s[i].node] = y[s[i].node],
               Len(t) = m + 1, \A i \in 1..m : t[i] = s[i], z[t[m + 1].node] \in V
        PROVE  Yields(z, t) = Append(SubSeq(Yields(y, s), 1, m - 1), z[t[m + 1].node])
    BY DEF PushedOn, YieldsGrow
<1>1. s # << >> /\ t # << >> /\ m \in Nat \ {0} /\ Len(s) \in Nat
    OBVIOUS
<1>2. \A i \in 2..Len(t) : z[t[i].node] \in V
  <2>1. \A i \in 2..Len(t) : i = m + 1 \/ (i \in 1..m /\ i \in 2..Len(s))
      OBVIOUS
  <2> QED BY <2>1
<1> DEFINE a == SubSeq(Yields(y, s), 1, m - 1)
           x == z[t[m + 1].node]
           l == Yields(z, t)
           r == Append(a, x)
<1> HIDE DEF a, x, l, r
<1>3. /\ Yields(y, s) \in Seq(V) /\ Len(Yields(y, s)) = Len(s) - 1
      /\ \A i \in 1..(Len(s) - 1) : Yields(y, s)[i] = y[s[i + 1].node]
  <2>1. Leaves(V, y, s)
      BY <1>1 DEF Leaves
  <2> QED BY <2>1, YieldsType DEF YieldsIn
<1>4. /\ l \in Seq(V) /\ Len(l) = m /\ \A i \in 1..m : l[i] = z[t[i + 1].node]
  <2>1. Len(t) - 1 = m
      BY <1>1
  <2>2. /\ Yields(z, t) \in Seq(V) /\ Len(Yields(z, t)) = Len(t) - 1
        /\ \A i \in 1..(Len(t) - 1) : Yields(z, t)[i] = z[t[i + 1].node]
    <3>1. Leaves(V, z, t)
        BY <1>1, <1>2 DEF Leaves
    <3> QED BY <3>1, YieldsType DEF YieldsIn
  <2> QED BY <2>1, <2>2 DEF l
<1>5. m - 1 \in 0..Len(Yields(y, s))
    BY <1>3
<1>6. a \in Seq(V) /\ Len(a) = m - 1 /\ \A k \in 1..(m - 1) : a[k] = y[s[k + 1].node]
  <2>1. a \in Seq(V) /\ Len(a) = m - 1 /\ \A k \in 1..(m - 1) : a[k] = Yields(y, s)[k]
      BY <1>3, <1>5, SplitAt DEF a
  <2>2. \A k \in 1..(m - 1) : k \in 1..(Len(s) - 1)
      BY <1>1
  <2> QED BY <1>3, <2>1, <2>2
<1>7. x \in V
    BY DEF x
<1>8. r \in Seq(V) /\ Len(r) = m /\ r[m] = x /\ \A i \in 1..(m - 1) : r[i] = a[i]
    BY <1>1, <1>6, <1>7 DEF r
<1>9. ASSUME NEW i \in 1..m PROVE l[i] = r[i]
  <2>1. CASE i = m
      BY <1>4, <1>8, <2>1 DEF x
  <2>2. CASE i # m
    <3>1. i \in 1..(m - 1) /\ i + 1 \in 1..m /\ i + 1 \in 2..Len(s)
        BY <1>1, <2>2
    <3>2. l[i] = z[s[i + 1].node] /\ r[i] = y[s[i + 1].node]
        BY <1>4, <1>6, <1>8, <3>1
    <3> QED BY <3>1, <3>2
  <2> QED BY <2>1, <2>2
<1>10. l = r
    BY <1>4, <1>8, <1>9, SeqEqual
<1> QED BY <1>10 DEF l, r, a, x

-----------------------------------------------------------------------------
(* The tree is the text. *)
TextAt(y, s, c) ==
    FlattenSeq(Yields(y, s)) \o (IF c \in {"empty", "$end", "error"} THEN << >> ELSE <<c>>)

LEMMA TextForm ==
    ASSUME NEW y, NEW s \in Seq(Entry), s # << >>, NEW c
    PROVE  FlattenSeq([i \in 1..Len(Tail(s)) |-> y[Tail(s)[i].node]])
               \o (IF c \in {"empty", "$end", "error"} THEN << >> ELSE <<c>>) = TextAt(y, s, c)
<1>1. [i \in 1..Len(Tail(s)) |-> y[Tail(s)[i].node]] = Yields(y, s)
    BY YieldsAre
<1> QED BY <1>1 DEF TextAt

LEMMA HeapIsOld == Types /\ ChildrenOlder => OldKids(heap)
<1> SUFFICES ASSUME Types, ChildrenOlder PROVE OldKids(heap)
    OBVIOUS
<1>1. heap \in Seq(NodeType) /\ Node = 1..Len(heap) /\ Node = DOMAIN heap
    BY NodeIsRange DEF Node
<1>2. ASSUME NEW n \in Node, NEW k \in DOMAIN heap[n].kids
      PROVE  heap[n].kids[k] \in 1..(n - 1)
  <2>1. heap[n].kids[k] \in Node /\ heap[n].kids[k] < n
      BY KidsAreNodes DEF ChildrenOlder
  <2>2. n \in Nat /\ heap[n].kids[k] \in Nat \ {0}
      BY <1>1, <2>1
  <2> QED BY <2>1, <2>2
<1> QED BY <1>1, <1>2 DEF OldKids

LEMMA HeapIsOldThen == Types' /\ ChildrenOlder' => OldKids(heap')
<1>1. (Types /\ ChildrenOlder => OldKids(heap))'
    BY HeapIsOld, PTL
<1> QED BY <1>1 DEF OldKids

(* The heap only grows while the text is read, and an old node keeps its   *)
(* leaves.                                                                 *)
LEMMA OldLeaves ==
    ASSUME Types, ChildrenOlder, Types', ChildrenOlder',
           \A n \in Node : heap'[n] = heap[n], Node \subseteq Node'
    PROVE  /\ \A n \in Node : YieldOf(heap')[n] = YieldOf(heap)[n]
           /\ \A n \in Node : YieldOf(heap)[n] \in Seq(Symbols)
           /\ \A n \in Node' : YieldOf(heap')[n] \in Seq(Symbols)
<1>1. OldKids(heap) /\ OldKids(heap')
    BY HeapIsOld, HeapIsOldThen
<1>2. Node = DOMAIN heap /\ Node' = DOMAIN heap'
    BY DEF Node
<1>3. Len(heap) <= Len(heap')
  <2>1. DOMAIN heap = 1..Len(heap) /\ DOMAIN heap' = 1..Len(heap') /\ Len(heap) \in Nat /\ Len(heap') \in Nat
      BY <1>1 DEF OldKids
  <2>2. Len(heap) # 0 => Len(heap) \in 1..Len(heap')
      BY <1>2, <2>1
  <2> QED BY <2>1, <2>2
<1>4. \A n \in DOMAIN heap : YieldOf(heap')[n] = YieldOf(heap)[n]
    BY <1>1, <1>2, <1>3, YieldStays
<1>5. \A n \in DOMAIN heap : YieldOf(heap)[n] \in Seq(Symbols)
    BY <1>1, YieldType
<1>6. \A n \in DOMAIN heap' : YieldOf(heap')[n] \in Seq(Symbols)
    BY <1>1, YieldType
<1> QED BY <1>2, <1>4, <1>5, <1>6

(* The text of the stack is a text. *)
LEMMA StackText ==
    ASSUME Types, StackOK, ChildrenOlder, pc = "parse"
    PROVE  /\ Leaves(Seq(Symbols), YieldOf(heap), stack)
           /\ Lists(Symbols, Yields(YieldOf(heap), stack))
           /\ FlattenSeq(Yields(YieldOf(heap), stack)) \in Seq(Symbols)
<1>1. OldKids(heap)
    BY HeapIsOld
<1>2. \A n \in Node : YieldOf(heap)[n] \in Seq(Symbols)
    BY <1>1, YieldType DEF Node
<1>3. stack \in Seq(Entry) /\ stack # << >>
  <2>1. Len(<< >>) = 0
      OBVIOUS
  <2> QED BY <2>1 DEF Types, StackOK
<1>4. \A i \in 2..Len(stack) : stack[i].node \in Node
    BY StackNodes
<1>5. Leaves(Seq(Symbols), YieldOf(heap), stack)
    BY <1>2, <1>3, <1>4 DEF Leaves
<1>6. Lists(Symbols, Yields(YieldOf(heap), stack))
    BY <1>5, YieldsType DEF Lists, YieldsIn
<1> QED BY <1>5, <1>6, FlattenType DEF Lists

Text ==
    /\ pc = "open" => seen = << >>
    /\ pc = "parse" => seen = TextAt(YieldOf(heap), stack, yychar)
    /\ pc = "use" => seen = YieldOf(heap)[root]

LEMMA TextRead ==
    ASSUME Types, StackOK, ChildrenOlder, Types', ChildrenOlder', Text, Read
    PROVE  Text'
<1>1. PICK text : Scan(text) /\ Head(text) \in Terminals \cup {"error", "$end"}
    BY ReadScans
<1>2. pc = "parse" /\ pc' = "parse" /\ yychar = "empty" /\ stack' = stack
    BY <1>1, ReadScans DEF Scan
<1> DEFINE y == YieldOf(heap)
           z == YieldOf(heap')
           f == FlattenSeq(Yields(y, stack))
<1>3. f \in Seq(Symbols)
    BY <1>2, StackText
<1>4. seen = f
  <2>1. seen = f \o << >>
      BY <1>2 DEF Text, TextAt
  <2> HIDE DEF f
  <2> QED BY <1>3, <2>1
<1>5. CASE Head(text) \in {"error", "$end"}
  <2>1. heap' = heap /\ seen' = seen /\ yychar' \in {"error", "$end"}
      BY <1>1, <1>5 DEF Scan
  <2>2. seen' = f \o << >>
    <3> HIDE DEF f
    <3> QED BY <1>3, <1>4, <2>1
  <2> QED BY <1>2, <2>1, <2>2 DEF Text, TextAt
<1>6. CASE Head(text) \notin {"error", "$end"}
  <2>1. /\ seen' = Append(seen, Head(text)) /\ yychar' = Head(text) /\ Head(text) \in Terminals
      BY <1>1, <1>6 DEF Scan
  <2>2. Head(text) \in Symbols /\ yychar' \notin {"empty", "$end", "error"}
      BY <2>1, NamesDiffer DEF Terminals
  <2>3. Node \subseteq Node' /\ \A n \in Node : heap'[n] = heap[n]
      BY Grown
  <2>4. \A n \in Node : z[n] = y[n]
      BY <2>3, OldLeaves
  <2>5. \A i \in 2..Len(stack) : stack[i].node \in Node
      BY StackNodes
  <2> HIDE DEF y, z
  <2>6. Yields(z, stack) = Yields(y, stack)
    <3>1. Len(stack) \in Nat
        BY DEF Types
    <3>2. \A i \in 1..(Len(stack) - 1) : i + 1 \in 2..Len(stack)
        BY <3>1
    <3>3. \A i \in 1..(Len(stack) - 1) : z[stack[i + 1].node] = y[stack[i + 1].node]
        BY <2>4, <2>5, <3>2
    <3> QED BY <3>3 DEF Yields
  <2>7. seen' = f \o <<yychar'>>
    <3> HIDE DEF f
    <3> QED BY <1>3, <1>4, <2>1, <2>2
  <2>8. seen' = TextAt(z, stack', yychar')
      BY <1>2, <2>2, <2>6, <2>7 DEF TextAt
  <2> QED BY <1>2, <2>8 DEF Text, z
<1> QED BY <1>5, <1>6

LEMMA TextShift ==
    ASSUME Types, StackOK, ChildrenOlder, Types', Linked, Text, Shift
    PROVE  Text'
<1> DEFINE n == Len(stack)
           y == YieldOf(heap)
           w == Yields(y, stack)
<1>1. /\ pc = "parse" /\ yychar \in Terminals /\ yylval \in Node
      /\ stack' \in Seq(Entry) /\ Len(stack') = n + 1 /\ \A i \in 1..n : stack'[i] = stack[i]
      /\ stack'[Len(stack')].node = yylval
    BY Shifted
<1>2. UNCHANGED <<pc, heap, seen>> /\ yychar' = "empty"
    BY DEF Shift, store, source
<1>3. y[yylval] = <<yychar>> /\ <<yychar>> \in Seq(Symbols)
  <2>1. heap[yylval] = [name |-> yychar, kids |-> << >>] /\ yychar \in Symbols /\ yychar # "epsilon"
      BY <1>1, NoSuchSymbols DEF Linked, Terminals
  <2>2. y = [m \in Node |-> YieldStep(heap, y, m)]
      BY HeapIsOld, YieldDef DEF Node
  <2> HIDE DEF y
  <2>3. y[yylval] = YieldStep(heap, y, yylval)
      BY <1>1, <2>2
  <2> QED BY <2>1, <2>3 DEF YieldStep
<1>4. /\ Leaves(Seq(Symbols), y, stack) /\ Lists(Symbols, w) /\ FlattenSeq(w) \in Seq(Symbols)
    BY <1>1, StackText
<1>5. n \in 1..Len(stack) /\ n \in Nat /\ n = Len(stack)
    BY <1>1 DEF Types, StackOK
<1> DEFINE V == Seq(Symbols)
<1>6. Yields(y, stack') = Append(SubSeq(w, 1, n - 1), y[stack'[n + 1].node])
  <2>1. stack \in Seq(Entry) /\ \A i \in 2..Len(stack) : y[stack[i].node] \in V
      BY <1>4 DEF Leaves
  <2>2. y[stack'[n + 1].node] \in V
      BY <1>1, <1>3
  <2>3. PushedOn(V, y, y, stack, stack', n)
      BY <1>1, <1>5, <2>1, <2>2 DEF PushedOn
  <2> HIDE DEF V, y, n, w
  <2>4. YieldsGrow(y, y, stack, stack', n)
      BY <2>3, YieldsPushed
  <2> QED BY <2>4 DEF YieldsGrow, w
<1>7. SubSeq(w, 1, n - 1) = w
  <2>1. w \in Seq(V) /\ Len(w) = n - 1
      BY <1>4, YieldsType DEF YieldsIn
  <2> HIDE DEF V, w, n
  <2> QED BY <2>1
<1>8. Yields(y, stack') = Append(w, <<yychar>>)
    BY <1>1, <1>3, <1>6, <1>7
<1> DEFINE f == FlattenSeq(w)
<1> HIDE DEF w, y
<1>9. FlattenSeq(Append(w, <<yychar>>)) = f \o <<yychar>>
    BY <1>3, <1>4, FlattenAppend DEF Lists
<1>10. seen = f \o <<yychar>>
  <2>1. yychar \notin {"empty", "$end", "error"}
      BY <1>1, NamesDiffer
  <2> QED BY <1>1, <2>1 DEF Text, TextAt, w, y
<1>11. FlattenSeq(Yields(y, stack')) \o << >> = seen
  <2>1. f \o <<yychar>> \in Seq(Symbols)
    <3> HIDE DEF f
    <3> QED BY <1>3, <1>4, ConcatProperties DEF f
  <2>2. seen \in Seq(Symbols)
      BY <1>10, <2>1
  <2>3. FlattenSeq(Yields(y, stack')) = seen
      BY <1>8, <1>9, <1>10
  <2>4. seen \o << >> = seen
      BY <2>2
  <2> QED BY <2>3, <2>4
<1>12. seen' = TextAt(YieldOf(heap'), stack', yychar')
    BY <1>2, <1>11 DEF TextAt, y
<1> QED BY <1>1, <1>2, <1>12 DEF Text

LEMMA FlattenNothing == FlattenSeq(Append(<< >>, << >>)) = << >>
<1> DEFINE V == Seq({})
<1>1. << >> \in V /\ << >> \o << >> = << >>
    OBVIOUS
<1>2. << >> \in Seq(V)
  <2> HIDE DEF V
  <2> QED OBVIOUS
<1>3. FlattenSeq(Append(<< >>, << >>)) = FlattenSeq(<< >>) \o << >>
    BY <1>1, <1>2, FlattenAppend, FlattenEmpty
<1> QED BY <1>1, <1>3, FlattenEmpty

(* The node of an action has the leaves of the symbols of its rule. *)
TakenYields(y, m) == SubSeq(Yields(y, stack), m, Len(stack) - 1)
LeftYields(y, m) == SubSeq(Yields(y, stack), 1, m - 1)

LEMMA TakenLeft ==
    ASSUME NEW y, Leaves(Seq(Symbols), y, stack), NEW m \in 1..Len(stack)
    PROVE  /\ Lists(Symbols, LeftYields(y, m)) /\ Lists(Symbols, TakenYields(y, m))
           /\ Yields(y, stack) = LeftYields(y, m) \o TakenYields(y, m)
           /\ Len(TakenYields(y, m)) = Len(stack) - m
           /\ \A k \in 1..(Len(stack) - m) : TakenYields(y, m)[k] = y[stack[m + k].node]
<1> DEFINE V == Seq(Symbols)
           w == Yields(y, stack)
           n == Len(stack)
<1>1. w \in Seq(V) /\ Len(w) = n - 1 /\ \A i \in 1..(n - 1) : w[i] = y[stack[i + 1].node]
    BY YieldsType DEF YieldsIn
<1>2. n \in Nat /\ m \in 1..n
    BY DEF Leaves
<1>3. LeftYields(y, m) = SubSeq(w, 1, m - 1) /\ TakenYields(y, m) = SubSeq(w, m, n - 1)
    BY DEF LeftYields, TakenYields
<1> HIDE DEF w, n, V
<1>4. m - 1 \in 0..Len(w) /\ m - 1 + 1 = m /\ Len(w) - (m - 1) = n - m
    BY <1>1, <1>2
<1> DEFINE l == m - 1
<1>5. /\ SubSeq(w, 1, l) \in Seq(V) /\ SubSeq(w, l + 1, Len(w)) \in Seq(V)
      /\ w = SubSeq(w, 1, l) \o SubSeq(w, l + 1, Len(w))
      /\ Len(SubSeq(w, l + 1, Len(w))) = Len(w) - l
      /\ \A k \in 1..(Len(w) - l) : SubSeq(w, l + 1, Len(w))[k] = w[l + k]
  <2>1. l \in 0..Len(w)
      BY <1>4
  <2> HIDE DEF l
  <2> QED BY <1>1, <2>1, SplitAt
<1>6. /\ LeftYields(y, m) \in Seq(V) /\ TakenYields(y, m) \in Seq(V) /\ w = LeftYields(y, m) \o TakenYields(y, m)
      /\ Len(TakenYields(y, m)) = n - m
      /\ \A k \in 1..(n - m) : TakenYields(y, m)[k] = w[m - 1 + k]
    BY <1>1, <1>3, <1>4, <1>5
<1>7. ASSUME NEW k \in 1..(n - m) PROVE TakenYields(y, m)[k] = y[stack[m + k].node]
  <2>1. m - 1 + k \in 1..(n - 1) /\ m - 1 + k + 1 = m + k
      BY <1>2
  <2> DEFINE j == m - 1 + k
  <2>2. w[j] = y[stack[j + 1].node]
    <3> HIDE DEF j
    <3>1. j \in 1..(n - 1)
        BY <2>1 DEF j
    <3> QED BY <1>1, <3>1
  <2>3. TakenYields(y, m)[k] = w[j]
      BY <1>6
  <2> QED BY <2>1, <2>2, <2>3
<1> QED BY <1>6, <1>7 DEF w, n, V, Lists

LEMMA BuiltText ==
    ASSUME Types, StackOK, ChildrenOlder, Types', ChildrenOlder', Linked,
           Looking, NEW item, Reducible(item), heap' = Built(item), pc = "parse"
    PROVE  YieldOf(heap')[Len(heap')] = FlattenSeq(TakenYields(YieldOf(heap), Len(stack) - item.dot))
<1> DEFINE y == YieldOf(heap)
           z == YieldOf(heap')
           n == Len(stack)
           d == item.dot
           m == n - d
           new == Len(heap')
           h == heap'
           kids == Children(item)
<1>1. n \in Nat /\ d \in 0..(n - 1) /\ m \in 1..n /\ n - m = d
  <2>1. n \in Nat /\ d \in 0..(n - 1)
      BY ReducedItem DEF Types
  <2> HIDE DEF n, d
  <2> QED BY <2>1
<1>2. Leaves(Seq(Symbols), y, stack)
    BY StackText
<1>3. /\ Len(TakenYields(y, m)) = d /\ Lists(Symbols, TakenYields(y, m))
      /\ \A k \in 1..d : TakenYields(y, m)[k] = y[stack[m + k].node]
  <2> HIDE DEF y, m
  <2>1. /\ Len(TakenYields(y, m)) = Len(stack) - m /\ Lists(Symbols, TakenYields(y, m))
        /\ \A k \in 1..(Len(stack) - m) : TakenYields(y, m)[k] = y[stack[m + k].node]
      BY <1>1, <1>2, TakenLeft
  <2> QED BY <1>1, <2>1
<1>4. Node \subseteq Node' /\ new \in Node' /\ \A k \in Node : h[k] = heap[k]
    BY BuiltName, BuiltOK
<1>5. \A k \in Node : z[k] = y[k]
    BY <1>4, OldLeaves
<1>6. \A k \in Node' : z[k] = YieldStep(h, z, k)
  <2>1. OldKids(h)
      BY HeapIsOldThen
  <2>2. z = [k \in DOMAIN h |-> YieldStep(h, z, k)]
      BY <2>1, YieldDef
  <2>3. Node' = DOMAIN h
      BY DEF Node
  <2> HIDE DEF z, h
  <2> QED BY <2>2, <2>3
<1>7. item.lhs # "epsilon"
    BY ReducedRule, EpsilonIsNoName
<1>8. CASE d > 0
  <2>1. h[new] = [name |-> item.lhs, kids |-> kids]
      BY <1>8, BuiltByRule
  <2>2. /\ DOMAIN kids = 1..d /\ \A k \in 1..d : kids[k] = stack[m + k].node /\ kids[k] \in Node
      BY ChildrenAre
  <2>3. kids # << >>
    <3>1. 1 \in 1..d
        BY <1>1, <1>8
    <3>2. DOMAIN << >> = {}
        OBVIOUS
    <3> QED BY <2>2, <3>1, <3>2
  <2> DEFINE s == [k \in DOMAIN kids |-> z[kids[k]]]
  <2>4. z[new] = FlattenSeq(s)
    <3>1. z[new] = YieldStep(h, z, new)
        BY <1>4, <1>6
    <3> HIDE DEF z, h, new, kids
    <3> QED BY <1>7, <2>1, <2>3, <3>1 DEF YieldStep
  <2>5. s = TakenYields(y, m)
    <3> DEFINE t == TakenYields(y, m)
               V == Seq(Symbols)
    <3>1. t \in Seq(V) /\ Len(t) = d /\ \A k \in 1..d : t[k] = y[stack[m + k].node]
        BY <1>3 DEF Lists
    <3>2. \A k \in 1..d : z[kids[k]] = t[k]
        BY <1>5, <2>2, <3>1
    <3>3. s = [k \in 1..d |-> t[k]]
      <4> HIDE DEF t, z, kids, d
      <4> QED BY <2>2, <3>2
    <3> HIDE DEF t, V, s, d
    <3>4. s = t
        BY <3>1, <3>3
    <3> QED BY <3>4 DEF t
  <2> QED BY <2>4, <2>5
<1>9. CASE d = 0
  <2> DEFINE e == Len(heap) + 1
  <2>1. /\ h[e] = [name |-> "epsilon", kids |-> << >>] /\ e \in Node'
        /\ h[new] = [name |-> item.lhs, kids |-> <<e>>]
      BY <1>9, BuiltByEmptyRule
  <2> HIDE DEF e, h, z, new
  <2>2. z[e] = << >>
    <3>1. z[e] = YieldStep(h, z, e) /\ h[e].name = "epsilon"
        BY <1>6, <2>1
    <3> QED BY <3>1 DEF YieldStep
  <2> DEFINE s == [k \in DOMAIN <<e>> |-> z[<<e>>[k]]]
  <2>3. z[new] = FlattenSeq(s)
    <3>1. <<e>> # << >>
        OBVIOUS
    <3>2. z[new] = YieldStep(h, z, new)
        BY <1>4, <1>6
    <3> QED BY <1>7, <2>1, <3>1, <3>2 DEF YieldStep
  <2>4. s = Append(<< >>, << >>)
    <3>1. s = <<z[e]>>
        OBVIOUS
    <3> QED BY <2>2, <3>1
  <2>5. FlattenSeq(Append(<< >>, << >>)) = << >>
      BY FlattenNothing
  <2>6. TakenYields(y, m) = << >>
    <3> DEFINE t == TakenYields(y, m)
               V == Seq(Symbols)
    <3>1. t \in Seq(V) /\ Len(t) = 0
        BY <1>3, <1>9 DEF Lists
    <3> HIDE DEF t, V
    <3>2. t = << >>
        BY <3>1, EmptySeq
    <3> QED BY <3>2 DEF t
  <2>7. z[new] = << >>
      BY <2>3, <2>4, <2>5
  <2>8. FlattenSeq(TakenYields(y, m)) = << >>
      BY <2>6, FlattenEmpty
  <2> QED BY <2>7, <2>8 DEF z, new, h
<1>10. d > 0 \/ d = 0
    BY <1>1
<1> QED BY <1>8, <1>9, <1>10

LEMMA TextReduce ==
    ASSUME Types, StackOK, ChildrenOlder, Types', ChildrenOlder', Linked, Text, Reduce
    PROVE  Text'
<1>1. PICK item :
           /\ Looking /\ Reducible(item) /\ item.lhs # "program" /\ heap' = Built(item)
           /\ stack' \in Seq(Entry) /\ Len(stack') = Len(stack) - item.dot + 1
           /\ \A i \in 1..(Len(stack) - item.dot) : stack'[i] = stack[i]
           /\ stack'[Len(stack')].node = Len(heap')
    BY Reduced
<1>2. UNCHANGED <<pc, yychar, seen>> /\ pc = "parse"
    BY DEF Reduce, Looking, Room, source
<1> DEFINE y == YieldOf(heap)
           z == YieldOf(heap')
           m == Len(stack) - item.dot
           new == Len(heap')
           a == FlattenSeq(LeftYields(y, m))
           b == FlattenSeq(TakenYields(y, m))
<1>3. m \in 1..Len(stack) /\ Len(stack') = m + 1
    BY <1>1, ReducedItem DEF Types
<1>4. Leaves(Seq(Symbols), y, stack)
    BY <1>2, StackText
<1>5. /\ Lists(Symbols, LeftYields(y, m)) /\ Lists(Symbols, TakenYields(y, m))
      /\ Yields(y, stack) = LeftYields(y, m) \o TakenYields(y, m)
  <2> HIDE DEF y, m
  <2> QED BY <1>3, <1>4, TakenLeft
<1>6. FlattenSeq(Yields(y, stack)) = a \o b
  <2> HIDE DEF y, m
  <2>1. Splits(LeftYields(y, m), TakenYields(y, m))
      BY <1>5, FlattenConcat
  <2> QED BY <1>5, <2>1 DEF Splits
<1>7. z[new] = b
    BY <1>1, <1>2, BuiltText
<1>8. b \in Seq(Symbols) /\ a \in Seq(Symbols)
    BY <1>5, FlattenType DEF Lists
<1>9. Node \subseteq Node' /\ \A k \in Node : heap'[k] = heap[k]
    BY Grown
<1>10. \A k \in Node : z[k] = y[k]
    BY <1>9, OldLeaves
<1>11. Yields(z, stack') = Append(LeftYields(y, m), z[new])
  <2> DEFINE V == Seq(Symbols)
  <2>1. \A i \in 2..Len(stack) : y[stack[i].node] \in V /\ z[stack[i].node] = y[stack[i].node]
      BY <1>4, <1>10, StackNodes DEF Leaves
  <2>2. stack'[m + 1].node = new /\ z[new] \in V /\ stack \in Seq(Entry)
      BY <1>1, <1>3, <1>7, <1>8 DEF Types
  <2>3. \A i \in 1..m : stack'[i] = stack[i]
      BY <1>1
  <2> HIDE DEF y, z, m, new, V
  <2>4. PushedOn(V, y, z, stack, stack', m)
      BY <1>1, <1>3, <2>1, <2>2, <2>3 DEF PushedOn
  <2>5. YieldsGrow(y, z, stack, stack', m)
      BY <2>4, YieldsPushed
  <2> QED BY <2>2, <2>5 DEF YieldsGrow, LeftYields
<1>12. FlattenSeq(Append(LeftYields(y, m), z[new])) = a \o z[new]
  <2>1. z[new] \in Seq(Symbols)
      BY <1>7, <1>8
  <2> HIDE DEF y, m, z, new
  <2> QED BY <1>5, <1>8, <2>1, FlattenAppend DEF Lists
<1>13. FlattenSeq(Yields(z, stack')) = FlattenSeq(Yields(y, stack))
    BY <1>6, <1>7, <1>11, <1>12
<1>14. seen = TextAt(y, stack, yychar)
    BY <1>2 DEF Text
<1>15. seen' = TextAt(z, stack', yychar')
    BY <1>2, <1>13, <1>14 DEF TextAt
<1> QED BY <1>2, <1>15 DEF Text

LEMMA TextAccept ==
    ASSUME Types, StackOK, ChildrenOlder, Types', ChildrenOlder', Linked, Text, Accept
    PROVE  Text'
<1>1. PICK item : Looking /\ Reducible(item) /\ heap' = Built(item) /\ item.dot = Len(stack) - 1
    BY Accepted
<1>2. pc = "parse" /\ pc' = "use" /\ yychar = "$end" /\ root' = Len(heap') /\ seen' = seen
    BY Accepted DEF source
<1> DEFINE y == YieldOf(heap)
<1>3. Leaves(Seq(Symbols), y, stack) /\ FlattenSeq(Yields(y, stack)) \in Seq(Symbols)
    BY <1>2, StackText
<1>4. Len(stack) - item.dot = 1
    BY <1>1 DEF Types
<1>5. TakenYields(y, 1) = Yields(y, stack)
  <2> DEFINE w == Yields(y, stack)
             V == Seq(Symbols)
  <2>1. w \in Seq(V) /\ Len(w) = Len(stack) - 1
      BY <1>3, YieldsType DEF YieldsIn
  <2> HIDE DEF w, V
  <2>2. SubSeq(w, 1, Len(stack) - 1) = w
      BY <2>1
  <2> QED BY <2>2 DEF TakenYields, w
<1>6. YieldOf(heap')[root'] = FlattenSeq(Yields(y, stack))
  <2>1. YieldOf(heap')[Len(heap')] = FlattenSeq(TakenYields(y, Len(stack) - item.dot))
      BY <1>1, <1>2, BuiltText
  <2> QED BY <1>2, <1>4, <1>5, <2>1
<1>7. seen = FlattenSeq(Yields(y, stack))
  <2> DEFINE f == FlattenSeq(Yields(y, stack))
  <2>1. seen = f \o << >>
      BY <1>2 DEF Text, TextAt
  <2> HIDE DEF f
  <2>2. f \in Seq(Symbols)
      BY <1>3 DEF f
  <2>3. seen = f
      BY <2>1, <2>2
  <2> QED BY <2>3 DEF f
<1> QED BY <1>2, <1>6, <1>7 DEF Text

LEMMA TextNext ==
    ASSUME Types, Stages, StackOK, ChildrenOlder, Types', ChildrenOlder', Linked, Text, [Next]_vars
    PROVE  Text'
<1>1. CASE Open
  <2>1. UNCHANGED <<seen, yychar>> /\ pc = "open" /\ seen = << >> /\ yychar = "empty"
      BY <1>1 DEF Open, source, Stages, Text
  <2>2. CASE pc' = "parse" /\ stack' = <<[items |-> State0, node |-> 0]>>
    <3> DEFINE z == YieldOf(heap')
    <3>1. Len(stack') - 1 = 0
        BY <2>2
    <3>2. Yields(z, stack') = << >>
      <4>1. stack' \in Seq(Entry) /\ Len(stack') = 1 /\ stack' # << >>
          BY <2>2 DEF Types
      <4> HIDE DEF z
      <4>2. Leaves({}, z, stack')
          BY <4>1 DEF Leaves
      <4>3. Yields(z, stack') \in Seq({}) /\ Len(Yields(z, stack')) = 0
          BY <3>1, <4>2, YieldsType DEF YieldsIn
      <4> QED BY <4>3, EmptySeq
    <3>3. TextAt(z, stack', yychar') = << >>
        BY <2>1, <3>2, FlattenEmpty DEF TextAt
    <3> QED BY <2>1, <2>2, <3>3 DEF Text
  <2>3. CASE pc' = "exit"
      BY <2>3 DEF Text
  <2> QED BY <1>1, <2>2, <2>3 DEF Open
<1>2. CASE Yyerror \/ UseFails \/ Use \/ DeleteChild \/ FreeNode \/ EndDelete
  <2>1. pc' \notin {"open", "parse", "use"}
      BY <1>2 DEF Yyerror, UseFails, Use, DeleteChild, FreeNode, EndDelete, Deleting
  <2> QED BY <2>1 DEF Text
<1>3. CASE Stop \/ UNCHANGED vars
    BY <1>3 DEF Stop, vars, source, parser, store, Text
<1> QED BY <1>1, <1>2, <1>3, TextRead, TextShift, TextReduce, TextAccept DEF Next

LEMMA TextIsSource == Types /\ StackOK /\ Text => YieldIsSource
<1> SUFFICES ASSUME Types, StackOK, Text PROVE YieldIsSource
    OBVIOUS
<1>1. Yield = YieldOf(heap)
    BY YieldIs
<1> DEFINE y == YieldOf(heap)
<1>2. CASE pc = "parse"
  <2>1. stack \in Seq(Entry) /\ stack # << >>
    <3>1. Len(<< >>) = 0
        OBVIOUS
    <3> QED BY <1>2, <3>1 DEF Types, StackOK
  <2>2. seen = TextAt(y, stack, yychar)
      BY <1>2 DEF Text
  <2> HIDE DEF y
  <2>3. FlattenSeq([i \in 1..Len(Tail(stack)) |-> y[Tail(stack)[i].node]])
           \o (IF yychar \in {"empty", "$end", "error"} THEN << >> ELSE <<yychar>>)
        = TextAt(y, stack, yychar)
      BY <2>1, TextForm
  <2> QED BY <1>1, <1>2, <2>2, <2>3 DEF YieldIsSource, y
<1>3. CASE pc = "use"
    BY <1>1, <1>3 DEF Text, YieldIsSource
<1>4. CASE pc \notin {"parse", "use"}
    BY <1>4 DEF YieldIsSource
<1> QED BY <1>2, <1>3, <1>4

-----------------------------------------------------------------------------
(* An if without else and an if with one begin with the same symbols, so   *)
(* a state that is in the one is in the other.                             *)
If == [lhs |-> "selection-stmt", rhs |-> <<"if", "(", "expression", ")", "statement">>]
IfElse == [lhs |-> "selection-stmt",
           rhs |-> <<"if", "(", "expression", ")", "statement", "else", "statement">>]
Twinned(items) == \A d \in 0..5 : ItemOf(If, d) \in items => ItemOf(IfElse, d) \in items

LEMMA StatementRulesAre ==
    /\ {"selection-stmt", "iteration-stmt", "statement"} \subseteq NonTerminals
    /\ Rules["selection-stmt"] = {<<"if", "(", "expression", ")", "statement">>,
                                  <<"if", "(", "expression", ")", "statement", "else", "statement">>}
    /\ Rules["iteration-stmt"] = {<<"while", "(", "expression", ")", "statement">>}
    /\ Rules["statement"] = {<<"expression-stmt">>, <<"compound-stmt">>, <<"selection-stmt">>,
                             <<"iteration-stmt">>, <<"return-stmt">>}
BY DEF Rules, NonTerminals, DeclarationRules, StatementRules, ExpressionRules, FactorRules

LEMMA IfElseIsRule == IfElse \in Productions
<1> DEFINE r == <<"if", "(", "expression", ")", "statement", "else", "statement">>
<1>1. r \in Rules["selection-stmt"] /\ "selection-stmt" \in NonTerminals
    BY StatementRulesAre
<1>2. r # <<"epsilon">>
  <2>1. Len(r) = 7 /\ Len(<<"epsilon">>) = 1
      OBVIOUS
  <2> HIDE DEF r
  <2> QED BY <2>1
<1>3. IfElse = [lhs |-> "selection-stmt", rhs |-> IF r = <<"epsilon">> THEN << >> ELSE r]
    BY <1>2 DEF IfElse
<1> HIDE DEF r
<1> QED BY <1>1, <1>3 DEF Productions

LEMMA TwinsClosed ==
    ASSUME NEW i \in Nat \ {0}, NEW items, ItemsOK(i, items), Twinned(items)
    PROVE  Twinned(Closure(items))
<1> SUFFICES ASSUME NEW d \in 0..5, ItemOf(If, d) \in Closure(items)
             PROVE  ItemOf(IfElse, d) \in Closure(items)
    BY DEF Twinned
<1> DEFINE c == ItemOf(If, d)
<1>1. CASE c \in items
    BY <1>1 DEF Twinned, Closure
<1>2. CASE c \notin items
  <2>1. c.dot = d /\ c.lhs = "selection-stmt"
      BY DEF ItemOf, If
  <2> HIDE DEF c
  <2>2. c \in Closure(items)
      BY DEF c
  <2>3. c.dot = 0
      BY <1>2, <2>2, ClosureItem
  <2>4. PICK s \in Symbols : c \in Leftmost[s] /\ Leftmost[s] \subseteq Closure(items)
      BY <1>2, <2>2, ClosureItem
  <2>5. PICK p \in Productions : p.lhs \in Expected[s] /\ c = ItemOf(p, 0)
      BY <2>4 DEF Leftmost
  <2>6. p.lhs = "selection-stmt" /\ IfElse.lhs = "selection-stmt"
      BY <2>1, <2>5 DEF ItemOf, IfElse
  <2>7. ItemOf(IfElse, 0) \in Leftmost[s]
      BY <2>5, <2>6, IfElseIsRule DEF Leftmost
  <2> QED BY <2>1, <2>3, <2>4, <2>7
<1> QED BY <1>1, <1>2

LEMMA TwinsMoved ==
    ASSUME NEW i \in Nat \ {0}, NEW items, ItemsOK(i, items), Twinned(items), NEW s
    PROVE  Twinned(Goto(items, s))
<1> SUFFICES ASSUME NEW d \in 0..5, ItemOf(If, d) \in Goto(items, s)
             PROVE  ItemOf(IfElse, d) \in Goto(items, s)
    BY DEF Twinned
<1> DEFINE item == ItemOf(If, d)
           twin == ItemOf(IfElse, d - 1)
<1>1. item.lhs = If.lhs /\ item.rhs = If.rhs /\ item.dot = d
    BY DEF ItemOf
<1> HIDE DEF item
<1>2. PICK c \in Closure(items) :
              /\ c \in Item /\ item.lhs = c.lhs /\ item.rhs = c.rhs /\ item.dot = c.dot + 1
              /\ ~AtEnd(c) /\ c.rhs[c.dot + 1] = s
              /\ c \in items \/ c.dot = 0
  <2>1. item \in Goto(items, s)
      BY DEF item
  <2> QED BY <2>1, GotoItem
<1>3. c = ItemOf(If, d - 1) /\ d \in 1..5 /\ d - 1 \in 0..5
    BY <1>1, <1>2 DEF Item, ItemOf
<1>4. twin \in Closure(items)
    BY <1>2, <1>3, TwinsClosed DEF Twinned
<1>5. /\ twin.dot = d - 1 /\ twin.rhs = IfElse.rhs /\ Len(IfElse.rhs) = 7
      /\ IfElse.rhs[d] = If.rhs[d] /\ d - 1 + 1 = d
    BY <1>3 DEF ItemOf, IfElse, If
<1>6. ~AtEnd(twin) /\ twin.rhs[twin.dot + 1] = s
    BY <1>1, <1>2, <1>3, <1>5 DEF AtEnd
<1>7. [twin EXCEPT !.dot = @ + 1] = ItemOf(IfElse, d)
    BY <1>3 DEF ItemOf
<1> HIDE DEF twin
<1> QED BY <1>4, <1>6, <1>7 DEF Goto

LEMMA Twins ==
    ASSUME Types, StackOK, Linked, pc = "parse"
    PROVE  \A i \in 1..Len(stack) : Twinned(stack[i].items)
<1> DEFINE n == Len(stack)
           Good == {i \in Nat : i = 0 \/ Twinned(stack[i].items)}
<1>1. n \in Nat /\ n = Len(stack)
    BY DEF Types
<1>2. ASSUME NEW i \in 0..(n - 1), i \in Good PROVE i + 1 \in Good
  <2>1. CASE i = 0
    <3>1. \A item \in stack[1].items : item.lhs = "program"
        BY DEF Linked, State0, ItemOf
    <3>2. \A d \in 0..5 : ItemOf(If, d).lhs # "program"
        BY DEF ItemOf, If
    <3>3. Twinned(stack[1].items)
        BY <3>1, <3>2 DEF Twinned
    <3> QED BY <2>1, <3>3
  <2>2. CASE i # 0
    <3>1. /\ i \in Nat \ {0} /\ i \in 1..Len(stack) /\ i + 1 \in 2..Len(stack)
          /\ i + 1 - 1 = i
        BY <1>1, <2>2
    <3>2. stack[i + 1].items = Goto(stack[i].items, heap[stack[i + 1].node].name)
        BY <3>1 DEF Linked
    <3>3. ItemsOK(i, stack[i].items) /\ Twinned(stack[i].items)
        BY <1>2, <3>1 DEF StackOK
    <3>4. Twinned(stack[i + 1].items)
        BY <3>1, <3>2, <3>3, TwinsMoved
    <3> QED BY <3>4
  <2> QED BY <2>1, <2>2
<1>3. \A i \in 0..n : i \in Good
  <2> HIDE DEF Good, n
  <2>1. 0 \in Good
      BY DEF Good
  <2> QED BY <1>1, <1>2, <2>1, UpTo
<1> QED BY <1>1, <1>3

(* An if without else is reduced only before another token than else. *)
LEMMA IfBeforeNoElse ==
    ASSUME Types, StackOK, Linked, Looking, NEW item, Reducible(item),
           item.lhs = "selection-stmt", item.dot = 5
    PROVE  yychar # "else"
<1> DEFINE n == Len(stack)
<1>1. pc = "parse" /\ n \in Nat \ {0} /\ n \in 1..Len(stack) /\ Top = stack[n].items
    BY DEF Types, StackOK, Looking, Room, Top
<1> HIDE DEF n
<1>2. Twinned(Top) /\ ItemsOK(n, Top)
    BY <1>1, Twins DEF StackOK
<1>3. item \in Item /\ item \in Top /\ item.rhs \in Rules["selection-stmt"] /\ Len(item.rhs) = 5
  <2>1. item \in Item /\ item.dot = Len(item.rhs)
      BY ReducedItem
  <2>2. item \in Top /\ item.rhs \in Rules[item.lhs]
      BY ReducedRule
  <2> QED BY <2>1, <2>2
<1>4. item.rhs = If.rhs
  <2>1. Len(<<"if", "(", "expression", ")", "statement", "else", "statement">>) = 7
      OBVIOUS
  <2> QED BY <1>3, <2>1, StatementRulesAre DEF If
<1>5. item = ItemOf(If, 5)
    BY <1>3, <1>4 DEF Item, ItemOf, If
<1> DEFINE twin == ItemOf(IfElse, 5)
<1>6. twin \in Top
    BY <1>2, <1>3, <1>5 DEF Twinned
<1>7. ~AtEnd(twin) /\ twin.rhs[twin.dot + 1] = "else" /\ twin \in Closure(Top)
    BY <1>6 DEF AtEnd, ItemOf, IfElse, Closure
<1> HIDE DEF twin
<1>8. Goto(Top, "else") # {}
    BY <1>7 DEF Goto
<1> QED BY <1>8 DEF Reducible

-----------------------------------------------------------------------------
(* EndsOpen, of any heap that follows the grammar. *)
OpenStep(h, f, n) ==
    LET kids == h[n].kids
    IN  CASE h[n].name = "selection-stmt" -> Len(kids) = 5 \/ f[kids[7]]
          [] h[n].name = "iteration-stmt" -> f[kids[5]]
          [] h[n].name = "statement" -> f[kids[1]]
          [] OTHER -> FALSE
OpenOf(h) == CHOOSE f : f = [n \in DOMAIN h |-> OpenStep(h, f, n)]

LEMMA OpenIs == EndsOpen = OpenOf(heap)
BY DEF EndsOpen, OpenOf, OpenStep, Node

(* The children the step looks for are there. *)
KidsThere(h) ==
    \A n \in DOMAIN h :
        /\ h[n].name = "selection-stmt" => Len(h[n].kids) \in {5, 7}
        /\ h[n].name = "iteration-stmt" => Len(h[n].kids) = 5
        /\ h[n].name = "statement" => Len(h[n].kids) = 1

LEMMA KidsAreThere == Types /\ Grammatical => KidsThere(heap)
<1> SUFFICES ASSUME Types, Grammatical, NEW n \in Node,
                    heap[n].name \in {"selection-stmt", "iteration-stmt", "statement"}
             PROVE  /\ heap[n].name = "selection-stmt" => Len(heap[n].kids) \in {5, 7}
                    /\ heap[n].name = "iteration-stmt" => Len(heap[n].kids) = 5
                    /\ heap[n].name = "statement" => Len(heap[n].kids) = 1
    BY DEF KidsThere, Node
<1> DEFINE r == KidNames(heap, n)
           kids == heap[n].kids
<1>1. r \in Rules[heap[n].name]
    BY StatementRulesAre DEF Grammatical, RuleOf
<1>2. DOMAIN r = 1..Len(kids) /\ Len(kids) \in Nat
    BY KidsAreNodes DEF KidNames
<1>3. \A l \in Nat : DOMAIN r = 1..l => Len(kids) = l
  <2> HIDE DEF kids, r
  <2> QED BY <1>2
<1> HIDE DEF r, kids
<1>4. /\ DOMAIN <<"if", "(", "expression", ")", "statement">> = 1..5
      /\ DOMAIN <<"if", "(", "expression", ")", "statement", "else", "statement">> = 1..7
      /\ DOMAIN <<"while", "(", "expression", ")", "statement">> = 1..5
      /\ \A x : DOMAIN <<x>> = 1..1
    OBVIOUS
<1>5. CASE heap[n].name = "selection-stmt"
    BY <1>1, <1>3, <1>4, <1>5, StatementRulesAre DEF kids
<1>6. CASE heap[n].name = "iteration-stmt"
    BY <1>1, <1>3, <1>4, <1>6, StatementRulesAre DEF kids
<1>7. CASE heap[n].name = "statement"
  <2>1. \E x : r = <<x>>
      BY <1>1, <1>7, StatementRulesAre
  <2>2. DOMAIN r = 1..1
      BY <1>4, <2>1
  <2> QED BY <1>3, <1>7, <2>2 DEF kids
<1> QED BY <1>5, <1>6, <1>7

LEMMA KidsAreThereThen == Types' /\ Grammatical' => KidsThere(heap')
<1>1. (Types /\ Grammatical => KidsThere(heap))'
    BY KidsAreThere, PTL
<1> QED BY <1>1 DEF KidsThere

OpenHeap(h) == OldKids(h) /\ KidsThere(h)

Agree(h, g, f, e, n) ==
    /\ n \in DOMAIN h /\ h[n] = g[n]
    /\ \A k \in DOMAIN h[n].kids : f[h[n].kids[k]] = e[h[n].kids[k]]

LEMMA OpenReads ==
    ASSUME NEW h, NEW g, NEW f, NEW e, NEW n, OpenHeap(h), Agree(h, g, f, e, n)
    PROVE  OpenStep(h, f, n) = OpenStep(g, e, n)
<1> SUFFICES ASSUME n \in DOMAIN h, h[n] = g[n],
                    \A k \in DOMAIN h[n].kids : f[h[n].kids[k]] = e[h[n].kids[k]]
             PROVE  OpenStep(h, f, n) = OpenStep(g, e, n)
    BY DEF Agree
<1> DEFINE kids == h[n].kids
<1>1. DOMAIN kids = 1..Len(kids)
  <2>1. h[n] \in NodeType
      BY DEF OpenHeap, OldKids
  <2> QED BY <2>1 DEF NodeType
<1>2. /\ h[n].name = "selection-stmt" => Len(kids) \in {5, 7}
      /\ h[n].name = "iteration-stmt" => Len(kids) = 5
      /\ h[n].name = "statement" => Len(kids) = 1
    BY DEF OpenHeap, KidsThere
<1>3. \A k \in 1..Len(kids) : f[kids[k]] = e[kids[k]]
    BY <1>1
<1>4. g[n].kids = kids /\ g[n].name = h[n].name
    OBVIOUS
<1> HIDE DEF kids
<1>5. CASE h[n].name = "selection-stmt"
  <2>1. OpenStep(h, f, n) = (Len(kids) = 5 \/ f[kids[7]])
      BY <1>5 DEF OpenStep, kids
  <2>2. OpenStep(g, e, n) = (Len(kids) = 5 \/ e[kids[7]])
      BY <1>4, <1>5 DEF OpenStep
  <2>3. CASE Len(kids) = 5
      BY <2>1, <2>2, <2>3
  <2>4. CASE Len(kids) = 7
    <3>1. f[kids[7]] = e[kids[7]]
        BY <1>3, <2>4
    <3> QED BY <2>1, <2>2, <3>1
  <2> QED BY <1>2, <1>5, <2>3, <2>4
<1>6. CASE h[n].name = "iteration-stmt"
  <2>1. OpenStep(h, f, n) = f[kids[5]]
      BY <1>6 DEF OpenStep, kids
  <2>2. OpenStep(g, e, n) = e[kids[5]]
      BY <1>4, <1>6 DEF OpenStep
  <2>5. Len(kids) = 5
      BY <1>2, <1>6, Zenon
  <2>3. 5 \in 1..Len(kids)
      BY <2>5
  <2>4. f[kids[5]] = e[kids[5]]
      BY <1>3, <2>3
  <2> QED BY <2>1, <2>2, <2>4
<1>7. CASE h[n].name = "statement"
  <2>1. OpenStep(h, f, n) = f[kids[1]]
      BY <1>7 DEF OpenStep, kids
  <2>2. OpenStep(g, e, n) = e[kids[1]]
      BY <1>4, <1>7 DEF OpenStep
  <2>4. Len(kids) = 1
      BY <1>2, <1>7, Zenon
  <2>5. 1 \in 1..Len(kids)
      BY <2>4
  <2>3. f[kids[1]] = e[kids[1]]
      BY <1>3, <2>5
  <2> QED BY <2>1, <2>2, <2>3
<1>8. CASE h[n].name \notin {"selection-stmt", "iteration-stmt", "statement"}
  <2>1. OpenStep(h, f, n) = FALSE
      BY <1>8 DEF OpenStep
  <2>2. OpenStep(g, e, n) = FALSE
      BY <1>4, <1>8 DEF OpenStep
  <2> QED BY <2>1, <2>2
<1> QED BY <1>5, <1>6, <1>7, <1>8

LEMMA OpenDef ==
    ASSUME NEW h, OpenHeap(h)
    PROVE  OpenOf(h) = [n \in DOMAIN h |-> OpenStep(h, OpenOf(h), n)]
<1> DEFINE Good == {k \in Nat : \E f : f = [n \in 1..k |-> OpenStep(h, f, n)]}
<1>1. 0 \in Good
  <2> DEFINE f == [n \in 1..0 |-> 0]
  <2>1. f = [n \in 1..0 |-> OpenStep(h, f, n)]
      OBVIOUS
  <2> QED BY <2>1
<1>2. DOMAIN h = 1..Len(h) /\ Len(h) \in Nat
    BY DEF OpenHeap, OldKids
<1>3. ASSUME NEW k \in 0..(Len(h) - 1), k \in Good
      PROVE  k + 1 \in Good
  <2>1. PICK f : f = [n \in 1..k |-> OpenStep(h, f, n)]
      BY <1>3
  <2> DEFINE g == [n \in 1..(k + 1) |-> IF n = k + 1 THEN OpenStep(h, f, n) ELSE f[n]]
  <2>2. ASSUME NEW n \in 1..(k + 1)
        PROVE  g[n] = OpenStep(h, g, n)
    <3>1. n \in DOMAIN h
        BY <1>2
    <3>2. \A j \in DOMAIN h[n].kids : h[n].kids[j] \in 1..(n - 1)
        BY <3>1 DEF OpenHeap, OldKids
    <3>3. \A m \in 1..(n - 1) : m \in 1..(k + 1) /\ m # k + 1
        OBVIOUS
    <3>4. \A m \in 1..(n - 1) : g[m] = f[m]
        BY <3>3
    <3>5. g[n] = IF n = k + 1 THEN OpenStep(h, f, n) ELSE f[n]
        OBVIOUS
    <3> HIDE DEF g
    <3>6. OpenStep(h, g, n) = OpenStep(h, f, n)
      <4>1. Agree(h, h, g, f, n)
          BY <3>1, <3>2, <3>4 DEF Agree
      <4> QED BY <4>1, OpenReads
    <3>7. CASE n = k + 1
        BY <3>5, <3>6, <3>7
    <3>8. CASE n # k + 1
      <4>1. n \in 1..k
          BY <3>8
      <4>2. f[n] = OpenStep(h, f, n)
          BY <2>1, <4>1
      <4> QED BY <3>5, <3>6, <3>8, <4>2
    <3> QED BY <3>7, <3>8
  <2>3. g = [n \in 1..(k + 1) |-> OpenStep(h, g, n)]
      BY <2>2
  <2> HIDE DEF g
  <2> QED BY <2>3
<1>4. Len(h) \in Good
  <2> HIDE DEF Good
  <2>1. \A k \in 0..Len(h) : k \in Good
      BY <1>1, <1>2, <1>3, UpTo
  <2>2. Len(h) \in 0..Len(h)
      BY <1>2
  <2> QED BY <2>1, <2>2
<1> QED BY <1>2, <1>4 DEF OpenOf

LEMMA OpenStays ==
    ASSUME NEW h, NEW g, OpenHeap(h), OpenHeap(g), Len(h) <= Len(g),
           \A n \in DOMAIN h : h[n] = g[n]
    PROVE  \A n \in DOMAIN h : OpenOf(g)[n] = OpenOf(h)[n]
<1> DEFINE yh == OpenOf(h)
           yg == OpenOf(g)
           Good == {k \in Nat : \A n \in 1..k : yh[n] = yg[n]}
<1>1. DOMAIN h = 1..Len(h) /\ DOMAIN g = 1..Len(g) /\ Len(h) \in Nat /\ Len(g) \in Nat
    BY DEF OpenHeap, OldKids
<1>2. /\ yh = [n \in DOMAIN h |-> OpenStep(h, yh, n)]
      /\ yg = [n \in DOMAIN g |-> OpenStep(g, yg, n)]
    BY OpenDef
<1> HIDE DEF yh, yg
<1>3. ASSUME NEW k \in 0..(Len(h) - 1), k \in Good
      PROVE  k + 1 \in Good
  <2> DEFINE m == k + 1
  <2>1. m \in DOMAIN h /\ m \in DOMAIN g /\ m \in Nat /\ \A j \in 1..m : j = m \/ j \in 1..k
      BY <1>1
  <2>2. \A j \in DOMAIN h[m].kids : h[m].kids[j] \in 1..k
    <3>1. m - 1 = k
        OBVIOUS
    <3> HIDE DEF m
    <3> QED BY <2>1, <3>1 DEF OpenHeap, OldKids
  <2> HIDE DEF m
  <2>3. \A j \in DOMAIN h[m].kids : yh[h[m].kids[j]] = yg[h[m].kids[j]]
      BY <1>3, <2>2
  <2>4. OpenStep(h, yh, m) = OpenStep(g, yg, m)
    <3>1. Agree(h, g, yh, yg, m)
        BY <2>1, <2>3 DEF Agree
    <3> QED BY <3>1, OpenReads
  <2>5. yh[m] = OpenStep(h, yh, m) /\ yg[m] = OpenStep(g, yg, m)
      BY <1>2, <2>1
  <2>6. \A j \in 1..m : yh[j] = yg[j]
      BY <1>3, <2>1, <2>4, <2>5
  <2>7. m \in Good
      BY <2>1, <2>6
  <2> QED BY <2>7 DEF m
<1>4. 0 \in Good
    OBVIOUS
<1>5. Len(h) \in Good
  <2> HIDE DEF Good
  <2>1. \A k \in 0..Len(h) : k \in Good
      BY <1>1, <1>3, <1>4, UpTo
  <2>2. Len(h) \in 0..Len(h)
      BY <1>1
  <2> QED BY <2>1, <2>2
<1> QED BY <1>1, <1>5 DEF yh, yg

-----------------------------------------------------------------------------
(* No if without else is left open before an else. *)
Nested ==
    \A n \in Node : heap[n].name = "selection-stmt" /\ Len(heap[n].kids) = 7
                    => ~OpenOf(heap)[heap[n].kids[5]]
ShutAt(i, open, s, h, c) ==
    open[s[i].node] => IF i = Len(s) THEN c \notin {"else", "empty"} ELSE h[s[i + 1].node].name # "else"
OpenStack == pc = "parse" => \A i \in 2..Len(stack) : ShutAt(i, OpenOf(heap), stack, heap, yychar)

LEMMA OldOpen ==
    ASSUME Types, ChildrenOlder, Grammatical, Types', ChildrenOlder', Grammatical',
           \A n \in Node : heap'[n] = heap[n], Node \subseteq Node'
    PROVE  /\ \A n \in Node : OpenOf(heap')[n] = OpenOf(heap)[n]
           /\ \A n \in Node' : OpenOf(heap')[n] = OpenStep(heap', OpenOf(heap'), n)
           /\ KidsThere(heap')
<1>1. OldKids(heap) /\ OldKids(heap') /\ OpenHeap(heap) /\ OpenHeap(heap')
    BY HeapIsOld, HeapIsOldThen, KidsAreThere, KidsAreThereThen DEF OpenHeap
<1>2. Node = DOMAIN heap /\ Node' = DOMAIN heap'
    BY DEF Node
<1>3. Len(heap) <= Len(heap')
  <2>1. DOMAIN heap = 1..Len(heap) /\ DOMAIN heap' = 1..Len(heap') /\ Len(heap) \in Nat /\ Len(heap') \in Nat
      BY <1>1 DEF OldKids
  <2>2. Len(heap) # 0 => Len(heap) \in 1..Len(heap')
      BY <1>2, <2>1
  <2> QED BY <2>1, <2>2
<1>4. \A n \in DOMAIN heap : OpenOf(heap')[n] = OpenOf(heap)[n]
    BY <1>1, <1>2, <1>3, OpenStays
<1>5. OpenOf(heap') = [n \in DOMAIN heap' |-> OpenStep(heap', OpenOf(heap'), n)]
    BY <1>1, OpenDef
<1> DEFINE z == OpenOf(heap')
<1> HIDE DEF z
<1>6. \A n \in DOMAIN heap' : z[n] = OpenStep(heap', z, n)
    BY <1>5 DEF z
<1> QED BY <1>1, <1>2, <1>4, <1>6 DEF z, OpenHeap

(* Old nodes stay closed. *)
LEMMA NestedStays ==
    ASSUME Types, ChildrenOlder, Nested, NEW z, NEW h, \A n \in Node : h[n] = heap[n] /\ z[n] = OpenOf(heap)[n]
    PROVE  \A n \in Node : h[n].name = "selection-stmt" /\ Len(h[n].kids) = 7 => ~z[h[n].kids[5]]
<1> SUFFICES ASSUME NEW n \in Node, h[n].name = "selection-stmt", Len(h[n].kids) = 7
             PROVE  ~z[h[n].kids[5]]
    OBVIOUS
<1>1. h[n] = heap[n]
    OBVIOUS
<1>2. 5 \in DOMAIN heap[n].kids
  <2>1. DOMAIN heap[n].kids = 1..Len(heap[n].kids)
      BY KidsAreNodes
  <2> QED BY <1>1, <2>1
<1>3. heap[n].kids[5] \in Node
    BY <1>2, KidsAreNodes
<1>4. ~OpenOf(heap)[heap[n].kids[5]]
    BY <1>1 DEF Nested
<1> QED BY <1>1, <1>3, <1>4

(* The node of an action. *)
LEMMA BuiltOpen ==
    ASSUME Types, StackOK, ChildrenOlder, Grammatical, Types', ChildrenOlder', Grammatical', Linked,
           OpenStack, Nested, Looking, NEW item, Reducible(item), heap' = Built(item)
    PROVE  /\ Nested'
           /\ OpenOf(heap')[Len(heap')] => yychar \notin {"else", "empty"}
<1> DEFINE y == OpenOf(heap)
           z == OpenOf(heap')
           n == Len(stack)
           d == item.dot
           new == Len(heap')
           h == heap'
           kids == Children(item)
<1>1. n \in Nat \ {0} /\ d \in 0..(n - 1) /\ pc = "parse" /\ yychar # "empty" /\ n = Len(stack)
    BY ReducedItem DEF Types, StackOK, Looking, Room
<1>2. /\ Node \subseteq Node' /\ new \in Node' /\ \A k \in Node : h[k] = heap[k]
      /\ h[new].name = item.lhs
    BY BuiltName, BuiltOK
<1>3. /\ \A k \in Node : z[k] = y[k]
      /\ \A k \in Node' : z[k] = OpenStep(h, z, k)
      /\ KidsThere(h) /\ Node' = DOMAIN h
    BY <1>2, OldOpen DEF Node
<1>4. \A i \in 2..n : ShutAt(i, y, stack, heap, yychar)
    BY <1>1 DEF OpenStack
<1>5. CASE d > 0
  <2>1. h[new] = [name |-> item.lhs, kids |-> kids] /\ Node' = Node \cup {new}
      BY <1>5, BuiltByRule
  <2>2. /\ Len(kids) = d
        /\ \A k \in 1..d : kids[k] = stack[n - d + k].node /\ kids[k] \in Node
      BY ChildrenAre
  <2>3. /\ item.lhs = "selection-stmt" => d \in {5, 7}
        /\ item.lhs = "iteration-stmt" => d = 5
        /\ item.lhs = "statement" => d = 1
    <3> HIDE DEF h, new, kids, d, z, n, y
    <3>1. h[new].name = item.lhs /\ h[new].kids = kids
        BY <2>1
    <3> QED BY <1>2, <1>3, <2>2, <3>1 DEF KidsThere
  <2>4. n - d + d = n /\ d \in 1..d /\ n \in 2..n
      BY <1>1, <1>5
  <2>5. kids[d] = stack[n].node /\ kids[d] \in Node
      BY <2>2, <2>4
  <2>6. y[kids[d]] => yychar # "else"
      BY <1>1, <1>4, <2>4, <2>5 DEF ShutAt
  <2>7. item.lhs = "selection-stmt" /\ d = 5 => yychar # "else"
      BY IfBeforeNoElse
  <2>8. z[new] => (item.lhs = "selection-stmt" /\ d = 5) \/ z[kids[d]]
    <3>1. z[new] = OpenStep(h, z, new)
        BY <1>2, <1>3
    <3> HIDE DEF z, h, kids, d, new
    <3>2. z[new] =
            CASE item.lhs = "selection-stmt" -> Len(kids) = 5 \/ z[kids[7]]
              [] item.lhs = "iteration-stmt" -> z[kids[5]]
              [] item.lhs = "statement" -> z[kids[1]]
              [] OTHER -> FALSE
        BY <2>1, <3>1 DEF OpenStep
    <3>3. CASE item.lhs = "selection-stmt"
        BY <2>2, <2>3, <3>2, <3>3
    <3>4. CASE item.lhs = "iteration-stmt"
        BY <2>2, <2>3, <3>2, <3>4
    <3>5. CASE item.lhs = "statement"
        BY <2>2, <2>3, <3>2, <3>5
    <3>6. CASE item.lhs \notin {"selection-stmt", "iteration-stmt", "statement"}
        BY <3>2, <3>6
    <3> QED BY <3>3, <3>4, <3>5, <3>6
  <2>9. z[new] => yychar \notin {"else", "empty"}
    <3>1. z[kids[d]] = y[kids[d]]
        BY <1>3, <2>5
    <3> HIDE DEF z, y, kids, d, new
    <3> QED BY <1>1, <2>6, <2>7, <2>8, <3>1
  <2>10. item.lhs = "selection-stmt" /\ d = 7 => ~z[kids[5]]
    <3> SUFFICES ASSUME item.lhs = "selection-stmt", d = 7 PROVE ~z[kids[5]]
        OBVIOUS
    <3>1. n - 2 \in 2..n /\ n - 2 # n /\ n - 2 + 1 = n - 1 /\ n - 7 + 5 = n - 2 /\ n - 7 + 6 = n - 1
        BY <1>1
    <3>2. kids[5] = stack[n - 2].node /\ kids[5] \in Node
      <4>1. 5 \in 1..d
          OBVIOUS
      <4>2. kids[5] = stack[n - d + 5].node /\ kids[5] \in Node
          BY <2>2, <4>1
      <4> QED BY <3>1, <4>2
    <3>3. heap[stack[n - 1].node].name = "else"
      <4>1. 6 \in 1..d
          OBVIOUS
      <4>2. item.rhs[6] = heap[Symbol(item, 6)].name
          BY <1>5, <4>1, ReducedRule
      <4>3. Symbol(item, 6) = stack[n - 1].node
          BY <3>1 DEF Symbol
      <4>4. item.rhs \in Rules["selection-stmt"] /\ Len(item.rhs) = 7
        <5>1. item.rhs \in Rules[item.lhs]
            BY <1>5, ReducedRule
        <5>2. d = Len(item.rhs)
            BY ReducedItem
        <5> QED BY <5>1, <5>2
      <4>5. item.rhs[6] = "else"
        <5>1. /\ Len(<<"if", "(", "expression", ")", "statement">>) = 5
              /\ <<"if", "(", "expression", ")", "statement", "else", "statement">>[6] = "else"
            OBVIOUS
        <5> QED BY <4>4, <5>1, StatementRulesAre
      <4> QED BY <4>2, <4>3, <4>5
    <3>4. ShutAt(n - 2, y, stack, heap, yychar)
        BY <1>4, <3>1
    <3>5. ~y[stack[n - 2].node]
      <4> HIDE DEF y
      <4> QED BY <1>1, <3>1, <3>3, <3>4 DEF ShutAt
    <3>6. z[kids[5]] = y[kids[5]]
        BY <1>3, <3>2
    <3> HIDE DEF z, y, kids
    <3> QED BY <3>2, <3>5, <3>6
  <2>11. \A k \in Node : h[k].name = "selection-stmt" /\ Len(h[k].kids) = 7 => ~z[h[k].kids[5]]
    <3> HIDE DEF z, h
    <3>1. \A k \in Node : h[k] = heap[k] /\ z[k] = OpenOf(heap)[k]
        BY <1>2, <1>3
    <3> QED BY <3>1, NestedStays
  <2>12. h[new].name = "selection-stmt" /\ Len(h[new].kids) = 7 => ~z[h[new].kids[5]]
    <3> HIDE DEF h, new, kids, d, z, n, y
    <3>1. h[new].name = item.lhs /\ h[new].kids = kids
        BY <2>1
    <3> QED BY <2>2, <2>10, <3>1
  <2>13. Nested'
      BY <2>1, <2>11, <2>12 DEF Nested
  <2> QED BY <2>9, <2>13
<1>6. CASE d = 0
  <2> DEFINE e == Len(heap) + 1
  <2>1. /\ h[e] = [name |-> "epsilon", kids |-> << >>] /\ Node' = Node \cup {e, new}
        /\ h[new] = [name |-> item.lhs, kids |-> <<e>>]
      BY <1>6, BuiltByEmptyRule
  <2>2. Len(<<e>>) = 1 /\ <<e>>[1] = e
      OBVIOUS
  <2>3. item.lhs \notin {"selection-stmt", "iteration-stmt"}
    <3> HIDE DEF h, new, z, e
    <3>1. h[new].name = item.lhs /\ h[new].kids = <<e>>
        BY <2>1
    <3> QED BY <1>2, <1>3, <2>2, <3>1 DEF KidsThere
  <2> HIDE DEF e, z, h, new
  <2>4. ~z[e]
    <3>1. z[e] = OpenStep(h, z, e) /\ h[e].name = "epsilon"
        BY <1>3, <2>1
    <3> QED BY <3>1 DEF OpenStep
  <2>5. ~z[new]
    <3>1. z[new] = OpenStep(h, z, new)
        BY <1>2, <1>3
    <3>2. h[new].name = item.lhs /\ h[new].kids[1] = e
        BY <2>1, <2>2
    <3>3. CASE item.lhs = "statement"
      <4>1. OpenStep(h, z, new) = z[e]
          BY <3>2, <3>3 DEF OpenStep
      <4> QED BY <2>4, <3>1, <4>1
    <3>4. CASE item.lhs # "statement"
      <4>1. OpenStep(h, z, new) = FALSE
          BY <2>3, <3>2, <3>4 DEF OpenStep
      <4> QED BY <3>1, <4>1
    <3> QED BY <3>3, <3>4
  <2>6. \A k \in Node : h[k].name = "selection-stmt" /\ Len(h[k].kids) = 7 => ~z[h[k].kids[5]]
    <3>1. \A k \in Node : h[k] = heap[k] /\ z[k] = OpenOf(heap)[k]
        BY <1>2, <1>3
    <3> QED BY <3>1, NestedStays
  <2>7. h[new].name # "selection-stmt" /\ h[e].name # "selection-stmt"
      BY <2>1, <2>3
  <2>8. \A k \in Node' : h[k].name = "selection-stmt" /\ Len(h[k].kids) = 7 => ~z[h[k].kids[5]]
      BY <2>1, <2>6, <2>7
  <2>9. Nested'
      BY <2>8 DEF Nested, z, h
  <2> QED BY <2>5, <2>9 DEF z, new
<1> QED BY <1>1, <1>5, <1>6

LEMMA TokensAreNoRules ==
    /\ Terminals \cap {"selection-stmt", "iteration-stmt", "statement"} = {}
    /\ "else" \notin NonTerminals
BY DEF Terminals, NonTerminals

(* A token's node is no statement. *)
LEMMA TokenShut ==
    ASSUME NEW h, NEW f, NEW n, NEW token \in Terminals, h[n] = [name |-> token, kids |-> << >>]
    PROVE  OpenStep(h, f, n) = FALSE
<1>1. h[n].name \notin {"selection-stmt", "iteration-stmt", "statement"}
    BY TokensAreNoRules
<1> QED BY <1>1 DEF OpenStep

LEMMA OpenRead ==
    ASSUME Types, StackOK, ChildrenOlder, Grammatical, Types', ChildrenOlder', Grammatical',
           OpenStack, Nested, Read
    PROVE  OpenStack' /\ Nested'
<1>1. PICK text : Scan(text) /\ Head(text) \in Terminals \cup {"error", "$end"}
    BY ReadScans
<1>2. pc = "parse" /\ pc' = "parse" /\ yychar = "empty" /\ stack' = stack
    BY <1>1, ReadScans DEF Scan
<1> DEFINE y == OpenOf(heap)
           z == OpenOf(heap')
           h == heap'
<1>3. Node \subseteq Node' /\ \A n \in Node : h[n] = heap[n]
    BY Grown
<1>4. \A n \in Node : z[n] = y[n]
    BY <1>3, OldOpen
<1>5. \A i \in 2..Len(stack) : stack[i].node \in Node /\ ShutAt(i, y, stack, heap, yychar)
    BY <1>2, StackNodes DEF OpenStack
<1>6. OpenStack'
  <2> SUFFICES ASSUME NEW i \in 2..Len(stack) PROVE ShutAt(i, z, stack, h, yychar')
      BY <1>2 DEF OpenStack
  <2> HIDE DEF y, z, h
  <2>1. CASE i = Len(stack)
      BY <1>2, <1>4, <1>5, <2>1 DEF ShutAt
  <2>2. CASE i # Len(stack)
    <3>1. Len(stack) \in Nat
        BY DEF Types
    <3>2. i + 1 \in 2..Len(stack)
        BY <2>2, <3>1
    <3>3. stack[i].node \in Node /\ stack[i + 1].node \in Node /\ ShutAt(i, y, stack, heap, yychar)
        BY <1>5, <3>2
    <3>4. z[stack[i].node] = y[stack[i].node] /\ h[stack[i + 1].node] = heap[stack[i + 1].node]
        BY <1>3, <1>4, <3>3
    <3> QED BY <2>2, <3>3, <3>4 DEF ShutAt
  <2> QED BY <2>1, <2>2
<1>7. Nested'
  <2>1. \A n \in Node : h[n].name = "selection-stmt" /\ Len(h[n].kids) = 7 => ~z[h[n].kids[5]]
    <3> HIDE DEF z, h
    <3>1. \A n \in Node : h[n] = heap[n] /\ z[n] = OpenOf(heap)[n]
        BY <1>3, <1>4
    <3> QED BY <3>1, NestedStays
  <2>2. \A n \in Node' : n \in Node \/ h[n].name # "selection-stmt"
    <3>1. CASE heap' = heap
        BY <3>1 DEF Node
    <3>2. CASE heap' # heap
      <4>1. /\ Node' = Node \cup {Len(heap')} /\ yychar' \in Terminals
            /\ heap'[Len(heap')] = [name |-> yychar', kids |-> << >>]
          BY <1>1, <3>2, Scanned
      <4> QED BY <4>1, TokensAreNoRules
    <3> QED BY <3>1, <3>2
  <2> QED BY <2>1, <2>2 DEF Nested
<1> QED BY <1>6, <1>7

LEMMA OpenShift ==
    ASSUME Types, StackOK, ChildrenOlder, Grammatical, Types', ChildrenOlder', Grammatical',
           Linked, OpenStack, Nested, Shift
    PROVE  OpenStack' /\ Nested'
<1> DEFINE n == Len(stack)
           y == OpenOf(heap)
<1>1. /\ pc = "parse" /\ yychar \in Terminals /\ yylval \in Node
      /\ Len(stack') = n + 1 /\ \A i \in 1..n : stack'[i] = stack[i]
      /\ stack'[Len(stack')].node = yylval
    BY Shifted
<1>2. heap' = heap /\ yychar' = "empty" /\ pc' = "parse"
    BY <1>1 DEF Shift, store
<1>3. n \in Nat \ {0} /\ n = Len(stack)
    BY <1>1 DEF Types, StackOK
<1>4. heap[yylval] = [name |-> yychar, kids |-> << >>]
    BY <1>1 DEF Linked
<1>5. \A i \in 2..n : ShutAt(i, y, stack, heap, yychar)
    BY <1>1 DEF OpenStack
<1>6. ~y[yylval]
  <2>1. y[yylval] = OpenStep(heap, y, yylval)
    <3>1. OpenHeap(heap)
        BY HeapIsOld, KidsAreThere DEF OpenHeap
    <3>2. y = [k \in DOMAIN heap |-> OpenStep(heap, y, k)]
        BY <3>1, OpenDef
    <3> HIDE DEF y
    <3>3. \A k \in Node : y[k] = OpenStep(heap, y, k)
        BY <3>2 DEF Node
    <3> QED BY <1>1, <3>3
  <2> HIDE DEF y
  <2>2. OpenStep(heap, y, yylval) = FALSE
      BY <1>1, <1>4, TokenShut
  <2> QED BY <2>1, <2>2
<1> HIDE DEF n
<1>7. ASSUME NEW i \in 2..Len(stack') PROVE ShutAt(i, y, stack', heap, "empty")
  <2> HIDE DEF y
  <2>1. CASE i = n + 1
    <3>1. stack'[i].node = yylval
        BY <1>1, <2>1
    <3> QED BY <1>6, <3>1 DEF ShutAt
  <2>2. CASE i = n
    <3>1. n \in 1..n /\ n \in 2..n
        BY <1>3, <2>2
    <3>2. ShutAt(n, y, stack, heap, yychar) /\ stack'[n] = stack[n]
        BY <1>1, <1>5, <3>1
    <3>3. stack'[n + 1].node = yylval /\ n # Len(stack') /\ heap[yylval].name = yychar
        BY <1>1, <1>3, <1>4
    <3> QED BY <1>3, <2>2, <3>2, <3>3 DEF ShutAt
  <2>3. CASE i \notin {n, n + 1}
    <3>1. i \in 2..n /\ i \in 1..n /\ i + 1 \in 1..n /\ i # Len(stack) /\ i # Len(stack')
        BY <1>1, <1>3, <2>3
    <3>2. ShutAt(i, y, stack, heap, yychar) /\ stack'[i] = stack[i] /\ stack'[i + 1] = stack[i + 1]
        BY <1>1, <1>5, <3>1
    <3> QED BY <3>1, <3>2 DEF ShutAt
  <2> QED BY <2>1, <2>2, <2>3
<1>8. OpenStack'
    BY <1>2, <1>7 DEF OpenStack
<1> QED BY <1>2, <1>8 DEF Nested, Node

LEMMA OpenReduce ==
    ASSUME Types, StackOK, ChildrenOlder, Grammatical, Types', ChildrenOlder', Grammatical',
           Linked, OpenStack, Nested, Reduce
    PROVE  OpenStack' /\ Nested'
<1>1. PICK item :
           /\ Looking /\ Reducible(item) /\ item.lhs # "program" /\ heap' = Built(item)
           /\ stack' \in Seq(Entry) /\ Len(stack') = Len(stack) - item.dot + 1
           /\ \A i \in 1..(Len(stack) - item.dot) : stack'[i] = stack[i]
           /\ stack'[Len(stack')].node = Len(heap')
           /\ stack'[Len(stack')].items = Goto(stack[Len(stack) - item.dot].items, item.lhs)
    BY Reduced
<1> DEFINE n == Len(stack)
           m == n - item.dot
           y == OpenOf(heap)
           z == OpenOf(heap')
           h == heap'
<1>2. UNCHANGED <<pc, yychar>> /\ pc = "parse"
    BY DEF Reduce, Looking, Room
<1>3. n \in Nat /\ m \in 1..n /\ n = Len(stack)
    BY <1>1, ReducedItem DEF Types
<1>4. h[Len(h)].name = item.lhs /\ \A k \in Node : h[k] = heap[k]
    BY <1>1, BuiltName
<1>5. Nested' /\ (z[Len(h)] => yychar \notin {"else", "empty"})
    BY <1>1, BuiltOpen
<1>6. \A k \in Node : z[k] = y[k]
  <2>1. Node \subseteq Node'
      BY Grown
  <2> QED BY <1>4, <2>1, OldOpen
<1>7. \A i \in 2..n : stack[i].node \in Node /\ ShutAt(i, y, stack, heap, yychar)
    BY <1>2, StackNodes DEF OpenStack
<1>8. item.lhs # "else"
    BY <1>1, ReducedRule, TokensAreNoRules
<1>9. /\ Len(stack') = m + 1 /\ \A i \in 1..m : stack'[i] = stack[i]
      /\ stack'[m + 1].node = Len(h)
    BY <1>1
<1>14. yychar # "empty"
    BY <1>1 DEF Looking
<1> HIDE DEF n, m, y, z, h
<1>10. ASSUME NEW i \in 2..Len(stack') PROVE ShutAt(i, z, stack', h, yychar)
  <2>1. CASE i = m + 1
      BY <1>5, <1>9, <2>1 DEF ShutAt
  <2>2. CASE i = m
    <3>1. m # Len(stack') /\ h[stack'[m + 1].node].name # "else"
        BY <1>3, <1>4, <1>8, <1>9
    <3> QED BY <2>2, <3>1 DEF ShutAt
  <2>3. CASE i \notin {m, m + 1}
    <3>1. /\ i \in 2..n /\ i + 1 \in 2..n /\ i \in 1..m /\ i + 1 \in 1..m
          /\ i # Len(stack) /\ i # Len(stack')
        BY <1>3, <1>9, <2>3
    <3>2. /\ stack[i].node \in Node /\ stack[i + 1].node \in Node
          /\ ShutAt(i, y, stack, heap, yychar)
          /\ stack'[i] = stack[i] /\ stack'[i + 1] = stack[i + 1]
        BY <1>7, <1>9, <3>1
    <3>3. z[stack[i].node] = y[stack[i].node] /\ h[stack[i + 1].node] = heap[stack[i + 1].node]
        BY <1>4, <1>6, <3>2
    <3> QED BY <3>1, <3>2, <3>3 DEF ShutAt
  <2> QED BY <2>1, <2>2, <2>3
<1>11. OpenStack'
    BY <1>2, <1>10 DEF OpenStack, z, h
<1> QED BY <1>5, <1>11

LEMMA OpenNext ==
    ASSUME Types, Stages, StackOK, ChildrenOlder, Grammatical, Types', ChildrenOlder', Grammatical',
           Linked, OpenStack, Nested, [Next]_vars
    PROVE  OpenStack' /\ Nested'
<1>1. CASE Open
  <2>1. heap' = heap
      BY <1>1 DEF Open, store
  <2>2. CASE stack' = <<[items |-> State0, node |-> 0]>>
    <3>1. Len(stack') = 1
        BY <2>2
    <3>2. 2..1 = {}
        OBVIOUS
    <3> QED BY <2>1, <3>1, <3>2 DEF OpenStack, Nested, Node
  <2>3. CASE pc' = "exit"
      BY <2>1, <2>3 DEF OpenStack, Nested, Node
  <2> QED BY <1>1, <2>2, <2>3 DEF Open
<1>2. CASE Accept
  <2>1. pc' = "use" /\ \E item : Looking /\ Reducible(item) /\ heap' = Built(item)
      BY <1>2, Accepted
  <2>2. Nested'
      BY <2>1, BuiltOpen
  <2> QED BY <2>1, <2>2 DEF OpenStack
<1>3. CASE Yyerror \/ UseFails \/ Use \/ DeleteChild \/ FreeNode \/ EndDelete \/ Stop \/ UNCHANGED vars
  <2>1. UNCHANGED <<stack, yychar, yylval, heap>> /\ (pc' = "parse" => pc = "parse")
      BY <1>3 DEF Yyerror, UseFails, Use, DeleteChild, FreeNode, EndDelete, Stop, vars, parser, store
  <2> QED BY <2>1 DEF OpenStack, Nested, Node
<1> QED BY <1>1, <1>2, <1>3, OpenRead, OpenShift, OpenReduce DEF Next

-----------------------------------------------------------------------------
(* What the parser knows of the text: its stack, and the trees on it.      *)
TextInv == Linked /\ Grammatical /\ Text /\ OpenStack /\ Nested

LEMMA InitTextInv == Init => TextInv
<1> SUFFICES ASSUME Init PROVE TextInv
    OBVIOUS
<1>1. Len(stack) = 0 /\ Node = {} /\ pc = "open" /\ yychar \notin Terminals /\ seen = << >>
    BY NamesDiffer DEF Init, Node
<1>2. 2..0 = {}
    OBVIOUS
<1> QED BY <1>1, <1>2 DEF TextInv, Linked, Grammatical, Text, OpenStack, Nested

LEMMA NextTextInv == IInv /\ TextInv /\ [Next]_vars => TextInv'
<1> SUFFICES ASSUME IInv, TextInv, [Next]_vars PROVE TextInv'
    OBVIOUS
<1>1. IInv'
    BY NextIInv
<1>2. /\ Types /\ Stages /\ StackOK /\ ChildrenOlder /\ Types' /\ ChildrenOlder'
      /\ Linked /\ Grammatical /\ Text /\ OpenStack /\ Nested
    BY <1>1 DEF IInv, TextInv
<1>3. Linked' /\ Grammatical'
    BY <1>2, LinkedNext, GrammaticalNext
<1>4. Text'
    BY <1>2, TextNext
<1>5. OpenStack' /\ Nested'
    BY <1>2, <1>3, OpenNext
<1> QED BY <1>3, <1>4, <1>5 DEF TextInv

LEMMA SpecTextInv == Spec => [](IInv /\ TextInv)
BY InitIInv, NextIInv, InitTextInv, NextTextInv, PTL DEF Spec

(* Whatever was parsed, the children of a node are the symbols of one of   *)
(* the rules with its name: what transform_node_iter reads is there.       *)
THEOREM TheTreeFollowsTheGrammar == Spec => []FollowsGrammar
<1>1. TextInv => FollowsGrammar
    BY DEF TextInv, Grammatical, RuleOf, KidNames, FollowsGrammar
<1> QED BY <1>1, SpecTextInv, PTL

(* No action of parser.y drops, repeats or reorders a symbol: the leaves   *)
(* of the finished tree are the tokens of the text, in their order.        *)
THEOREM TheTreeIsTheText == Spec => []YieldIsSource
<1>1. IInv /\ TextInv => YieldIsSource
    BY TextIsSource DEF IInv, TextInv
<1> QED BY <1>1, SpecTextInv, PTL

(* bison's choice for the one conflict of the grammar gives every else to  *)
(* the nearest if, as docs/cminus.md:107 says.                             *)
THEOREM ElseGoesToTheNearestIf == Spec => []ElseBelongsToNearestIf
<1>1. TextInv => ElseBelongsToNearestIf
    BY OpenIs DEF TextInv, Nested, ElseBelongsToNearestIf
<1> QED BY <1>1, SpecTextInv, PTL
=============================================================================
