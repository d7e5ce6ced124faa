---------------------------- MODULE ExprGenProofs ----------------------------
(***************************************************************************)
(* The stack discipline of expression code generation, for every set of    *)
(* symbols and every expression: a visit pops what was pushed for it, each *)
(* operand goes where the syntax wants it, and in a well-typed program it  *)
(* has the type it needs.                                                  *)
(***************************************************************************)
EXTENDS ExprGen, TLAPS, SequenceTheorems

StatementKinds == {"expression_stmt", "condition", "return"}

AtsOf == [expression_stmt |-> {"expression"}, condition |-> {"expression"},
          return |-> {"expression"}, assign |-> {"expression", "subscript"},
          simple |-> {"additive_l", "additive_r"}, additive |-> {"additive", "term"},
          term |-> {"factor", "term"}, var |-> {"subscript"}, call |-> {"args"}]

(* Where a visit of each kind can be, when it holds a first operand, and   *)
(* that only a name which is bound has a subscript visited.                *)
FrameOK(f) ==
    /\ f \in Frame
    /\ f.at \in AtsOf[f.kind]
    /\ f.at \in {"additive", "additive_r"} => f.two
    /\ f.at = "subscript" /\ f.kind = "assign" => f.two
    /\ f.kind = "term" /\ f.at = "term" => f.two
    /\ f.two /\ (f.at = "term" \/ (f.at = "subscript" /\ f.kind = "assign"))
         => f.held \in Value
    /\ f.kind = "var" => f.sym \in Symbols

(* A statement visits first, and only the topmost visit is back from a     *)
(* child.                                                                  *)
FramesOK(fs) ==
    /\ fs \in Seq(Frame)
    /\ \A i \in 1..Len(fs) :
          /\ FrameOK(fs[i])
          /\ fs[i].kind \in StatementKinds <=> i = 1
          /\ i < Len(fs) => ~fs[i].back

(* The height of the stack while f visits the child it is at: only the     *)
(* left operand of a comparison waits on it.                               *)
Height(f) == f.base + (IF f.at = "additive_r" THEN 1 ELSE 0)

(* The height of the stack as the topmost visit f needs it. *)
TopBalanced(f, n) ==
    IF ~f.back THEN n = Height(f)
    ELSE IF f.kind = "expression_stmt" THEN n >= f.base
    ELSE n = Height(f) + 1

(* Without nested assignments the running visits account for every value. *)
Balanced(fs, n) ==
    /\ \A i \in 1..Len(fs) :
          /\ i < Len(fs) => fs[i + 1].base = Height(fs[i])
          /\ fs[i].base >= fs[1].base
          /\ fs[i].kind = "assign" => i = 2 /\ fs[1].kind = "expression_stmt"
    /\ fs # << >> => TopBalanced(fs[Len(fs)], n)

IInv ==
    /\ TypeOK
    /\ FramesOK(frames)
    /\ ~nested => Balanced(frames, Len(values)) /\ status # "underflow"

-----------------------------------------------------------------------------
(* What pop() and push() do to value_stack. *)
LEMMA PoppedShape ==
    ASSUME values \in Seq(Value), NEW k \in Nat, k <= Len(values)
    PROVE  /\ Popped(k) \in Seq(Value)
           /\ Len(Popped(k)) = Len(values) - k
           /\ \A i \in 1..(Len(values) - k) : Popped(k)[i] = values[i]
<1> DEFINE n == Len(values)
           m == Len(values) - k
<1>1. n \in Nat /\ m \in Nat /\ m <= n
    OBVIOUS
<1>2. \A i \in 1..m : values[i] \in Value
    BY <1>1
<1>3. /\ SubSeq(values, 1, m) \in Seq(Value)
      /\ Len(SubSeq(values, 1, m)) = IF 1 <= m THEN m ELSE 0
      /\ \A i \in 1..m : SubSeq(values, 1, m)[i] = values[1 + i - 1]
    BY <1>1, <1>2, SubSeqProperties
<1>4. Len(SubSeq(values, 1, m)) = m
    BY <1>1, <1>3
<1>5. \A i \in 1..m : SubSeq(values, 1, m)[i] = values[i]
    <2> TAKE i \in 1..m
    <2>1. 1 + i - 1 = i
        OBVIOUS
    <2> QED BY <2>1, <1>3
<1> QED BY <1>3, <1>4, <1>5 DEF Popped

LEMMA PushedShape ==
    ASSUME NEW vs \in Seq(Value), NEW v \in Value
    PROVE  /\ Append(vs, v) \in Seq(Value)
           /\ Len(Append(vs, v)) = Len(vs) + 1
           /\ \A i \in 1..Len(vs) : Append(vs, v)[i] = vs[i]
OBVIOUS

(* The topmost record replaced by one of the same visit. *)
LEMMA ReplacedFrames ==
    ASSUME NEW fs, FramesOK(fs), fs # << >>, NEW g, FrameOK(g),
           g.kind = fs[Len(fs)].kind
    PROVE  FramesOK([fs EXCEPT ![Len(fs)] = g])
<1> DEFINE n == Len(fs)
           hs == [fs EXCEPT ![n] = g]
<1>1. n \in Nat /\ n >= 1
    BY DEF FramesOK
<1>2. hs \in Seq(Frame) /\ Len(hs) = n
    BY <1>1 DEF FramesOK, FrameOK
<1>3. \A i \in 1..n : hs[i] = IF i = n THEN g ELSE fs[i]
    BY <1>1 DEF FramesOK
<1> HIDE DEF hs
<1>4. \A i \in 1..n : /\ FrameOK(hs[i])
                      /\ hs[i].kind \in StatementKinds <=> i = 1
                      /\ i < n => ~hs[i].back
    <2> TAKE i \in 1..n
    <2>1. CASE i = n
        BY <2>1, <1>1, <1>3 DEF FramesOK
    <2>2. CASE i # n
        BY <2>2, <1>1, <1>3 DEF FramesOK
    <2> QED BY <2>1, <2>2
<1>5. FramesOK(hs)
    BY <1>2, <1>4 DEF FramesOK
<1> QED BY <1>5 DEF hs

LEMMA ReplacedBalanced ==
    ASSUME NEW fs, FramesOK(fs), fs # << >>, NEW g, FrameOK(g),
           g.kind = fs[Len(fs)].kind, g.base = fs[Len(fs)].base,
           NEW n \in Nat, Balanced(fs, n),
           NEW m \in Nat, TopBalanced(g, m)
    PROVE  Balanced([fs EXCEPT ![Len(fs)] = g], m)
<1> DEFINE l == Len(fs)
           hs == [fs EXCEPT ![l] = g]
<1>1. l \in Nat /\ l >= 1
    BY DEF FramesOK
<1>2. Len(hs) = l
    BY <1>1 DEF FramesOK
<1>3. \A i \in 1..l : hs[i] = IF i = l THEN g ELSE fs[i]
    BY <1>1 DEF FramesOK
<1>4. hs[l] = g /\ hs # << >>
    BY <1>1, <1>2, <1>3
<1>5. /\ \A i \in 1..l : /\ hs[i].base = fs[i].base
                         /\ hs[i].kind = fs[i].kind
      /\ \A i \in 1..l : i < l => hs[i] = fs[i]
    BY <1>1, <1>3
<1> HIDE DEF hs, l
<1>6. \A i \in 1..l : /\ i < l => fs[i + 1].base = Height(fs[i])
                      /\ fs[i].base >= fs[1].base
                      /\ fs[i].kind = "assign" => i = 2 /\ fs[1].kind = "expression_stmt"
    BY DEF Balanced, l
<1>7. \A i \in 1..l : i < l => hs[i + 1].base = Height(hs[i])
    <2> SUFFICES ASSUME NEW i \in 1..l, i < l
                 PROVE  hs[i + 1].base = Height(hs[i])
        OBVIOUS
    <2>1. i + 1 \in 1..l
        BY <1>1
    <2>2. hs[i + 1].base = fs[i + 1].base /\ hs[i] = fs[i]
        BY <2>1, <1>5
    <2> QED BY <2>2, <1>6
<1>8. \A i \in 1..l : /\ hs[i].base >= hs[1].base
                      /\ hs[i].kind = "assign" => i = 2 /\ hs[1].kind = "expression_stmt"
    <2>1. 1 \in 1..l
        BY <1>1
    <2> QED BY <2>1, <1>5, <1>6
<1>9. Balanced(hs, m)
    BY <1>2, <1>4, <1>7, <1>8 DEF Balanced
<1> QED BY <1>9 DEF hs, l

(* A visit begins. *)
LEMMA EnteredFrames ==
    ASSUME NEW fs, FramesOK(fs), NEW g, FrameOK(g),
           fs = << >> \/ ~fs[Len(fs)].back,
           g.kind \in StatementKinds <=> fs = << >>
    PROVE  FramesOK(Append(fs, g))
<1> DEFINE n == Len(fs)
           hs == Append(fs, g)
<1>1. n \in Nat /\ (n = 0 <=> fs = << >>)
    BY DEF FramesOK
<1>2. hs \in Seq(Frame) /\ Len(hs) = n + 1 /\ hs[n + 1] = g
      /\ \A i \in 1..n : hs[i] = fs[i]
    BY <1>1 DEF FramesOK, FrameOK
<1> HIDE DEF hs
<1>3. \A i \in 1..(n + 1) :
          /\ FrameOK(hs[i])
          /\ hs[i].kind \in StatementKinds <=> i = 1
          /\ i < n + 1 => ~hs[i].back
    <2> TAKE i \in 1..(n + 1)
    <2>1. CASE i = n + 1
        BY <2>1, <1>1, <1>2
    <2>2. CASE i \in 1..n
        BY <2>2, <1>1, <1>2 DEF FramesOK
    <2> QED BY <2>1, <2>2, <1>1
<1> QED BY <1>2, <1>3 DEF FramesOK, hs

LEMMA EnteredBalanced ==
    ASSUME NEW fs, FramesOK(fs), NEW g, FrameOK(g), NEW n \in Nat, Balanced(fs, n),
           fs = << >> \/ ~fs[Len(fs)].back,
           g.base = n, ~g.back, g.at # "additive_r",
           g.kind = "assign" => Len(fs) = 1 /\ fs[1].kind = "expression_stmt"
    PROVE  Balanced(Append(fs, g), n)
<1> DEFINE l == Len(fs)
           hs == Append(fs, g)
<1>1. l \in Nat /\ (l = 0 <=> fs = << >>)
    BY DEF FramesOK
<1>2. Len(hs) = l + 1 /\ hs[l + 1] = g /\ \A i \in 1..l : hs[i] = fs[i]
    BY <1>1 DEF FramesOK, FrameOK
<1>3. l # 0 => /\ n = Height(fs[l])
               /\ fs[l].base \in Nat /\ fs[1].base \in Nat
               /\ Height(fs[l]) >= fs[l].base
    <2> HAVE l # 0
    <2>1. 1 \in 1..l /\ l \in 1..l /\ fs # << >>
        BY <1>1
    <2>2. fs[1] \in Frame /\ fs[l] \in Frame
        BY <2>1 DEF FramesOK, FrameOK
    <2>3. fs[1].base \in Nat /\ fs[l].base \in Nat
        BY <2>2 DEF Frame
    <2>4. TopBalanced(fs[l], n) /\ ~fs[l].back
        BY <2>1 DEF Balanced
    <2> HIDE DEF l
    <2> QED BY <2>3, <2>4 DEF TopBalanced, Height
<1> HIDE DEF hs
<1>4. \A i \in 1..(l + 1) :
          /\ i < l + 1 => hs[i + 1].base = Height(hs[i])
          /\ hs[i].base >= hs[1].base
          /\ hs[i].kind = "assign" => i = 2 /\ hs[1].kind = "expression_stmt"
    <2> TAKE i \in 1..(l + 1)
    <2>1. CASE i = l + 1
        <3>1. l = 0 => hs[1] = g
            BY <1>2
        <3>2. l # 0 => hs[1] = fs[1] /\ fs[l].base >= fs[1].base
            BY <1>1, <1>2 DEF Balanced
        <3> QED BY <2>1, <3>1, <3>2, <1>1, <1>2, <1>3
    <2>2. CASE i = l /\ l # 0
        <3>1. hs[i] = fs[l] /\ hs[i + 1] = g /\ hs[1] = fs[1]
            BY <2>2, <1>1, <1>2
        <3> QED BY <2>2, <3>1, <1>1, <1>3 DEF Balanced
    <2>3. CASE i \in 1..l /\ i < l
        <3>1. hs[i] = fs[i] /\ hs[i + 1] = fs[i + 1] /\ hs[1] = fs[1]
            BY <2>3, <1>1, <1>2
        <3> QED BY <2>3, <3>1, <1>1 DEF Balanced
    <2> QED BY <2>1, <2>2, <2>3, <1>1
<1>5. TopBalanced(g, n)
    BY DEF TopBalanced, Height, FrameOK, Frame
<1>6. hs # << >>
    BY <1>1, <1>2
<1>7. Balanced(hs, n)
    BY <1>2, <1>4, <1>5, <1>6 DEF Balanced
<1> QED BY <1>7 DEF hs

(* A visit is over and its record is gone. *)
LEMMA CallerFrames ==
    ASSUME NEW fs, FramesOK(fs), fs # << >>
    PROVE  LET hs == SubSeq(fs, 1, Len(fs) - 1)
           IN  /\ hs \in Seq(Frame)
               /\ Len(hs) = Len(fs) - 1
               /\ \A i \in 1..(Len(fs) - 1) : hs[i] = fs[i]
               /\ FramesOK(hs)
<1> DEFINE n == Len(fs)
           m == n - 1
           hs == SubSeq(fs, 1, m)
<1>1. n \in Nat /\ n >= 1 /\ m \in Nat /\ m < n
    BY DEF FramesOK
<1>2. \A i \in 1..m : fs[i] \in Frame
    BY <1>1 DEF FramesOK
<1> HIDE DEF m
<1>3. /\ hs \in Seq(Frame)
      /\ Len(hs) = IF 1 <= m THEN m ELSE 0
      /\ \A i \in 1..m : hs[i] = fs[1 + i - 1]
    <2>1. fs \in Seq(Frame)
        BY DEF FramesOK
    <2>2. /\ Len(hs) = IF 1 <= m THEN m - 1 + 1 ELSE 0
          /\ hs \in Seq(Frame)
          /\ \A i \in 1..(m - 1 + 1) : hs[i] = fs[1 + i - 1]
        BY <2>1, <1>1, <1>2, SubSeqProperties
    <2>3. m - 1 + 1 = m
        BY <1>1
    <2> QED BY <2>2, <2>3
<1>4. Len(hs) = m /\ \A i \in 1..m : hs[i] = fs[i]
    <2>1. \A i \in 1..m : 1 + i - 1 = i
        OBVIOUS
    <2> QED BY <2>1, <1>1, <1>3
<1> HIDE DEF hs
<1>5. \A i \in 1..m : /\ FrameOK(hs[i])
                      /\ hs[i].kind \in StatementKinds <=> i = 1
                      /\ i < m => ~hs[i].back
    <2> TAKE i \in 1..m
    <2>1. i \in 1..n /\ i < n /\ hs[i] = fs[i]
        BY <1>1, <1>4
    <2> QED BY <2>1 DEF FramesOK
<1>6. FramesOK(hs)
    BY <1>3, <1>4, <1>5 DEF FramesOK
<1> QED BY <1>3, <1>4, <1>6 DEF hs, m

LEMMA CallerBalanced ==
    ASSUME NEW fs, FramesOK(fs), fs # << >>, NEW n \in Nat, Balanced(fs, n)
    PROVE  Balanced(SubSeq(fs, 1, Len(fs) - 1), fs[Len(fs)].base)
<1> DEFINE l == Len(fs)
           m == l - 1
           hs == SubSeq(fs, 1, m)
<1>1. /\ l \in Nat /\ l >= 1 /\ m \in Nat /\ m < l /\ m + 1 = l
      /\ hs \in Seq(Frame) /\ Len(hs) = m /\ \A i \in 1..m : hs[i] = fs[i]
    BY CallerFrames DEF FramesOK
<1>2. \A i \in 1..l : /\ i < l => fs[i + 1].base = Height(fs[i]) /\ ~fs[i].back
                      /\ fs[i].base >= fs[1].base
                      /\ fs[i].kind = "assign" => i = 2 /\ fs[1].kind = "expression_stmt"
    BY DEF Balanced, FramesOK
<1> HIDE DEF hs, m, l
<1>3. \A i \in 1..m :
          /\ i < m => hs[i + 1].base = Height(hs[i])
          /\ hs[i].base >= hs[1].base
          /\ hs[i].kind = "assign" => i = 2 /\ hs[1].kind = "expression_stmt"
    <2> TAKE i \in 1..m
    <2>1. i \in 1..l /\ i < l /\ hs[i] = fs[i] /\ hs[1] = fs[1]
        BY <1>1
    <2>2. i < m => hs[i + 1] = fs[i + 1]
        BY <1>1
    <2> QED BY <2>1, <2>2, <1>2
<1>4. hs # << >> => TopBalanced(hs[m], fs[l].base)
    <2> HAVE hs # << >>
    <2>1. m \in 1..m /\ m \in 1..l
        BY <1>1
    <2>2. hs[m] = fs[m] /\ fs[m + 1].base = Height(fs[m]) /\ ~fs[m].back
        BY <2>1, <1>1, <1>2
    <2> QED BY <2>2, <1>1 DEF TopBalanced
<1>5. Balanced(hs, fs[l].base)
    BY <1>1, <1>3, <1>4 DEF Balanced
<1> QED BY <1>5 DEF hs, m, l

(* The caller goes on, with the value of the child on the stack unless the *)
(* child was an assignment.                                                *)
LEMMA BackFrame ==
    ASSUME NEW f, FrameOK(f)
    PROVE  LET g == [f EXCEPT !.back = TRUE]
           IN  /\ FrameOK(g)
               /\ g.kind = f.kind /\ g.at = f.at /\ g.back
               /\ g.base = f.base /\ g.base \in Nat
<1> DEFINE g == [f EXCEPT !.back = TRUE]
<1>1. f \in Frame
    BY DEF FrameOK
<1>2. /\ g \in Frame
      /\ g.kind = f.kind /\ g.at = f.at /\ g.back
      /\ g.base = f.base /\ g.base \in Nat
      /\ g.two = f.two /\ g.held = f.held /\ g.sym = f.sym
    BY <1>1 DEF Frame
<1> HIDE DEF g
<1>3. FrameOK(g)
    BY <1>2 DEF FrameOK
<1> QED BY <1>2, <1>3 DEF g

LEMMA ResumedFrames ==
    ASSUME NEW fs, FramesOK(fs)
    PROVE  FramesOK(Resumed(fs))
<1>1. CASE fs = << >>
    BY <1>1 DEF Resumed
<1>2. CASE fs # << >>
    <2> DEFINE n == Len(fs)
               g == [fs[n] EXCEPT !.back = TRUE]
    <2>1. n \in 1..n /\ fs \in Seq(Frame)
        BY <1>2 DEF FramesOK
    <2>2. FrameOK(fs[n])
        BY <2>1 DEF FramesOK
    <2>3. FrameOK(g) /\ g.kind = fs[n].kind
        BY <2>2, BackFrame
    <2>4. FramesOK([fs EXCEPT ![n] = g])
        BY <1>2, <2>3, ReplacedFrames
    <2> QED BY <1>2, <2>4 DEF Resumed
<1> QED BY <1>1, <1>2

LEMMA ResumedBalanced ==
    ASSUME NEW fs, FramesOK(fs), NEW n \in Nat, Balanced(fs, n),
           fs = << >> \/ ~fs[Len(fs)].back,
           NEW m \in Nat,
           m = n + 1 \/ (m = n /\ fs # << >> /\ fs[Len(fs)].kind = "expression_stmt")
    PROVE  Balanced(Resumed(fs), m)
<1>1. CASE fs = << >>
    BY <1>1 DEF Resumed, Balanced
<1>2. CASE fs # << >>
    <2> DEFINE l == Len(fs)
               g == [fs[l] EXCEPT !.back = TRUE]
    <2>1. l \in 1..l /\ fs \in Seq(Frame)
        BY <1>2 DEF FramesOK
    <2>2. FrameOK(fs[l]) /\ fs[l] \in Frame
        BY <2>1 DEF FramesOK, FrameOK
    <2>3. FrameOK(g) /\ g.kind = fs[l].kind /\ g.base = fs[l].base
          /\ g.back /\ g.at = fs[l].at /\ g.base \in Nat
        BY <2>2, BackFrame
    <2>4. TopBalanced(fs[l], n) /\ ~fs[l].back
        BY <1>2 DEF Balanced
    <2>5. g.kind = "expression_stmt" => g.at = "expression"
        BY <2>3 DEF FrameOK, AtsOf
    <2>6. Height(g) = Height(fs[l]) /\ Height(g) = n
        BY <2>3, <2>4 DEF TopBalanced, Height
    <2>7. TopBalanced(g, m)
        <3> HIDE DEF g
        <3>1. CASE g.kind = "expression_stmt"
            <4>1. g.base = n
                BY <3>1, <2>3, <2>5, <2>6 DEF Height
            <4>2. m >= n
                OBVIOUS
            <4> QED BY <3>1, <4>1, <4>2, <2>3 DEF TopBalanced
        <3>2. CASE g.kind # "expression_stmt"
            BY <1>2, <3>2, <2>3, <2>6 DEF TopBalanced
        <3> QED BY <3>1, <3>2
    <2>8. Balanced([fs EXCEPT ![l] = g], m)
        BY <1>2, <2>3, <2>7, ReplacedBalanced
    <2> QED BY <1>2, <2>8 DEF Resumed
<1> QED BY <1>1, <1>2

-----------------------------------------------------------------------------
(* What the invariant says of the topmost visit and of the stack. *)
LEMMA TopFacts ==
    ASSUME IInv, frames # << >>
    PROVE  /\ FrameOK(Top) /\ Top \in Frame
           /\ Len(frames) \in Nat /\ Len(frames) >= 1
           /\ Top.kind \in StatementKinds <=> Len(frames) = 1
           /\ ~nested => /\ TopBalanced(Top, Len(values))
                         /\ Top.kind = "assign" => /\ Len(frames) = 2
                                                   /\ frames[1].kind = "expression_stmt"
           /\ values \in Seq(Value) /\ Len(values) \in Nat
<1>1. /\ frames \in Seq(Frame) /\ values \in Seq(Value)
      /\ FramesOK(frames)
      /\ ~nested => Balanced(frames, Len(values))
    BY DEF IInv, TypeOK
<1> DEFINE n == Len(frames)
<1>2. n \in Nat /\ n >= 1 /\ n \in 1..n
    BY <1>1
<1>3. FrameOK(frames[n]) /\ (frames[n].kind \in StatementKinds <=> n = 1)
    BY <1>1, <1>2 DEF FramesOK
<1>4. ~nested => /\ TopBalanced(frames[n], Len(values))
                 /\ frames[n].kind = "assign" => n = 2 /\ frames[1].kind = "expression_stmt"
    BY <1>1, <1>2 DEF Balanced
<1> QED BY <1>1, <1>2, <1>3, <1>4 DEF Top, FrameOK

LEMMA PopFacts ==
    ASSUME IInv, frames # << >>, Enough, Pops(Top) \in {1, 2}
    PROVE  /\ Len(values) >= 1
           /\ TopValue \in Value
           /\ Popped(1) \in Seq(Value)
           /\ Len(Popped(1)) = Len(values) - 1
           /\ \A i \in 1..(Len(values) - 1) : Popped(1)[i] = values[i]
<1> DEFINE n == Len(values)
<1>1. values \in Seq(Value) /\ n \in Nat
    BY TopFacts
<1>2. n >= 1
    BY <1>1 DEF Enough
<1>3. values[n] \in Value
    BY <1>1, <1>2
<1>4. 1 \in Nat /\ 1 <= n
    BY <1>2
<1> QED BY <1>1, <1>2, <1>3, <1>4, PoppedShape DEF TopValue

-----------------------------------------------------------------------------
(* The shapes of a step.  A visit begins: *)
LEMMA EnterKeepsIInv ==
    ASSUME IInv, status = "run", frames = << >> \/ ~Top.back,
           NEW g, FrameOK(g), ~g.back, g.base = Len(values), g.at # "additive_r",
           g.kind \in StatementKinds <=> frames = << >>,
           frames' = Append(frames, g), values' = values, emitted' = {},
           status' = status, nodes' \in 0..MaxNodes, nested' \in BOOLEAN,
           mixed' \in BOOLEAN,
           ~nested' => /\ ~nested
                       /\ g.kind = "assign" => /\ Len(frames) = 1
                                               /\ frames[1].kind = "expression_stmt"
    PROVE  IInv'
<1>1. FramesOK(frames) /\ values \in Seq(Value) /\ Len(values) \in Nat
    BY DEF IInv, TypeOK
<1>2. FramesOK(Append(frames, g))
    BY <1>1, EnteredFrames DEF Top
<1>3. ~nested' => Balanced(Append(frames, g), Len(values))
    BY <1>1, EnteredBalanced DEF IInv, Top
<1>4. Append(frames, g) \in Seq(Frame)
    BY <1>2 DEF FramesOK
<1> QED BY <1>1, <1>2, <1>3, <1>4 DEF IInv, TypeOK

(* the running visit goes on to its next child: *)
LEMMA GoOnKeepsIInv ==
    ASSUME IInv, status = "run", frames # << >>,
           NEW g, FrameOK(g), g.kind = Top.kind, g.base = Top.base,
           frames' = [frames EXCEPT ![Len(frames)] = g], values' \in Seq(Value),
           ~nested => TopBalanced(g, Len(values')),
           emitted' = {}, UNCHANGED <<status, program>>
    PROVE  IInv'
<1>1. FramesOK(frames) /\ values \in Seq(Value) /\ Len(values) \in Nat /\ Len(values') \in Nat
    BY DEF IInv, TypeOK
<1> DEFINE hs == [frames EXCEPT ![Len(frames)] = g]
<1>2. FramesOK(hs)
    BY <1>1, ReplacedFrames DEF Top
<1>3. ASSUME ~nested PROVE Balanced(hs, Len(values'))
    <2> DEFINE m == Len(values')
    <2>1. m \in Nat /\ TopBalanced(g, m) /\ Balanced(frames, Len(values))
        BY <1>1, <1>3 DEF IInv
    <2> HIDE DEF m
    <2>2. Balanced(hs, m)
        BY <1>1, <2>1, ReplacedBalanced DEF Top
    <2> QED BY <2>2 DEF m
<1>4. hs \in Seq(Frame)
    BY <1>2 DEF FramesOK
<1> HIDE DEF hs
<1>5. frames' = hs
    BY DEF hs
<1> QED BY <1>1, <1>2, <1>3, <1>4, <1>5 DEF IInv, TypeOK, program

(* and a visit ends. *)
LEMMA ReturnKeepsIInv ==
    ASSUME IInv, status = "run", frames # << >>, frames' = Returned,
           values' \in Seq(Value),
           Top.kind \notin StatementKinds /\ ~nested =>
               Len(values') = Top.base + (IF Top.kind = "assign" THEN 0 ELSE 1),
           \A i \in emitted' : i.operands \in Seq(Operand),
           UNCHANGED <<status, program>>
    PROVE  IInv'
<1>1. FramesOK(frames) /\ values \in Seq(Value) /\ Len(values) \in Nat /\ Len(values') \in Nat
    BY DEF IInv, TypeOK
<1> DEFINE hs == SubSeq(frames, 1, Len(frames) - 1)
<1>2. /\ hs \in Seq(Frame) /\ Len(hs) = Len(frames) - 1
      /\ \A i \in 1..(Len(frames) - 1) : hs[i] = frames[i]
      /\ FramesOK(hs)
    BY <1>1, CallerFrames
<1>3. /\ Top \in Frame /\ Len(frames) \in Nat /\ Len(frames) >= 1
      /\ Len(frames) = 1 \/ (Len(frames) > 1 /\ Top.kind \notin StatementKinds)
    <2> DEFINE l == Len(frames)
    <2>1. Top \in Frame /\ l \in Nat /\ l >= 1 /\ (Top.kind \in StatementKinds <=> l = 1)
        BY TopFacts
    <2> HIDE DEF l
    <2>2. l = 1 \/ (l > 1 /\ Top.kind \notin StatementKinds)
        BY <2>1
    <2> QED BY <2>1, <2>2 DEF l
<1> HIDE DEF hs
<1>4. FramesOK(Resumed(hs))
    BY <1>2, ResumedFrames
<1>5. ASSUME ~nested PROVE Balanced(Resumed(hs), Len(values'))
    <2>1. CASE Len(frames) = 1
        <3>1. hs = << >>
            BY <2>1, <1>2
        <3> QED BY <3>1 DEF Resumed, Balanced
    <2>2. CASE Len(frames) > 1 /\ Top.kind \notin StatementKinds
        <3> DEFINE b == Top.base
                   m == Len(values')
        <3>1. b \in Nat /\ m \in Nat
            BY <1>1, <1>3 DEF Frame
        <3>2. Balanced(hs, b)
            BY <1>1, <1>5, CallerBalanced DEF hs, IInv, Top
        <3>3. m = b + (IF Top.kind = "assign" THEN 0 ELSE 1)
            BY <2>2, <1>5
        <3>4. Len(hs) \in 1..(Len(frames) - 1) /\ hs # << >>
            BY <2>2, <1>2, <1>3
        <3>5. hs[Len(hs)] = frames[Len(hs)] /\ ~hs[Len(hs)].back
            BY <3>4, <1>1, <1>2, <1>3 DEF FramesOK
        <3>6. Top.kind = "assign" => hs[Len(hs)].kind = "expression_stmt"
            <4> HAVE Top.kind = "assign"
            <4>1. Len(frames) = 2 /\ frames[1].kind = "expression_stmt"
                BY <1>5, TopFacts
            <4>2. Len(hs) = 1
                BY <4>1, <1>2
            <4> QED BY <4>1, <4>2, <3>5
        <3>7. m = b + 1 \/ (m = b /\ hs # << >> /\ hs[Len(hs)].kind = "expression_stmt")
            BY <3>1, <3>3, <3>4, <3>6
        <3> HIDE DEF b, m
        <3>8. Balanced(Resumed(hs), m)
            BY <3>1, <3>2, <3>5, <3>7, <1>2, ResumedBalanced
        <3> QED BY <3>8 DEF m
    <2> QED BY <2>1, <2>2, <1>3
<1>6. Resumed(hs) \in Seq(Frame)
    BY <1>4 DEF FramesOK
<1>7. frames' = Resumed(hs)
    BY DEF Returned, hs
<1> QED BY <1>1, <1>4, <1>5, <1>6, <1>7 DEF IInv, TypeOK, program

-----------------------------------------------------------------------------
(* The visits that begin. *)
Roles == {"stmt", "cond", "i32", "i32*"}

LEMMA SymbolFields ==
    ASSUME NEW sym \in Symbols \cup {NoSymbol}
    PROVE  /\ sym.params \in Seq({"i32", "i32*"})
           /\ sym.returns \in Type
           /\ sym # NoSymbol => Pointee(sym) \in {"i32", "array", "i32*", "function"}
<1>1. CASE sym = NoSymbol
    <2>1. << >> \in Seq({"i32", "i32*"})
        OBVIOUS
    <2> QED BY <1>1, <2>1 DEF NoSymbol, Type
<1>2. CASE sym \in Symbol
    BY <1>2 DEF Symbol, Type, Pointee
<1> QED BY <1>1, <1>2, SymbolsAreSymbols

LEMMA RoleType ==
    ASSUME IInv, frames # << >>
    PROVE  Role \in Roles
<1>1. Top \in Frame
    BY TopFacts
<1>2. Top.want \in Roles /\ Top.args \in Seq(Value) /\ Top.sym \in Symbols \cup {NoSymbol}
    BY <1>1 DEF Frame, Roles
<1>3. Top.sym.params \in Seq({"i32", "i32*"})
    BY <1>2, SymbolFields
<1> DEFINE n == Len(Top.args)
           m == Len(Top.sym.params)
<1>4. n \in Nat /\ m \in Nat
    BY <1>2, <1>3
<1>5. n < m => n + 1 \in 1..m
    BY <1>4
<1>6. n < m => Top.sym.params[n + 1] \in {"i32", "i32*"}
    BY <1>3, <1>5
<1>7. ChildRole(Top) \in Roles
    BY <1>2, <1>6 DEF ChildRole, Roles
<1> QED BY <1>7 DEF Role

LEMMA EnterStep ==
    ASSUME IInv, status = "run", frames = << >> \/ ~Top.back,
           NEW kind \in DOMAIN AtsOf, NEW at \in AtsOf[kind], NEW role \in Roles,
           NEW two \in BOOLEAN, NEW sym \in Symbols \cup {NoSymbol},
           NEW argc \in Nat, NEW cost \in Nat,
           Enter(kind, at, role, two, sym, argc, cost),
           kind \in StatementKinds <=> frames = << >>,
           at # "additive_r", kind = "assign" => at = "expression",
           kind = "term" => at = "factor", kind = "var" => sym \in Symbols,
           kind = "additive" => (at = "additive" <=> two),
           nested' \in BOOLEAN, mixed' \in BOOLEAN, ~nested' => ~nested,
           kind = "assign" /\ ~nested' =>
               Len(frames) = 1 /\ frames[1].kind = "expression_stmt"
    PROVE  IInv'
<1> DEFINE g == [kind |-> kind, at |-> at, back |-> FALSE, base |-> Len(values),
                 want |-> role, two |-> two, held |-> NoValue, argc |-> argc,
                 args |-> << >>, sym |-> sym]
<1>1. Len(values) \in Nat /\ nodes \in 0..MaxNodes /\ status = "run"
    BY DEF IInv, TypeOK
<1>2. /\ kind \in {"expression_stmt", "condition", "return", "assign", "simple",
                   "additive", "term", "var", "call"}
      /\ at \in {"expression", "subscript", "additive_l", "additive_r",
                 "additive", "term", "factor", "args"}
    BY DEF AtsOf
<1>3. << >> \in Seq(Value)
    OBVIOUS
<1>4. g \in Frame
    BY <1>1, <1>2, <1>3 DEF Frame, Roles, Place
<1>5. at = "additive" => kind = "additive"
    BY <1>2 DEF AtsOf
<1>6. at = "term" => kind = "additive"
    BY <1>2 DEF AtsOf
<1>7. FrameOK(g)
    BY <1>4, <1>5, <1>6 DEF FrameOK
<1>8. /\ ~g.back /\ g.base = Len(values) /\ g.at = at /\ g.kind = kind
    OBVIOUS
<1> HIDE DEF g
<1>9. frames' = Append(frames, g) /\ values' = values /\ emitted' = {} /\ status' = status
    BY DEF Enter, g
<1>10. nodes' \in 0..MaxNodes
    BY <1>1, NodesAreCounted DEF Enter
<1> QED BY <1>7, <1>8, <1>9, <1>10, EnterKeepsIInv

LEMMA VisitsKeepIInv ==
    ASSUME IInv,
           \/ \E kind \in StatementKinds : VisitStatement(kind)
           \/ \E sym \in Symbols \cup {NoSymbol}, subscripted \in BOOLEAN :
                 VisitAssign(sym, subscripted)
           \/ \E two \in BOOLEAN : VisitSimple(two)
           \/ \E two \in BOOLEAN : VisitAdditive(two)
           \/ \E two \in BOOLEAN : VisitTerm(two)
           \/ \E sym \in Symbols : VisitElement(sym)
           \/ \E sym \in Symbols \cup {NoSymbol}, argc \in 0..nodes : VisitCall(sym, argc)
    PROVE  IInv'
<1>1. nested \in BOOLEAN /\ mixed \in BOOLEAN /\ nodes \in Nat
    BY NodesAreCounted DEF IInv, TypeOK
<1>2. ASSUME frames # << >>, ~Top.back
      PROVE  Role \in Roles
    BY <1>2, RoleType
<1>3. NoSymbol \in Symbols \cup {NoSymbol}
    OBVIOUS
<1>4. ASSUME NEW kind \in StatementKinds, VisitStatement(kind)
      PROVE  IInv'
    <2>1. kind \in DOMAIN AtsOf /\ "expression" \in AtsOf[kind] /\ "stmt" \in Roles
          /\ 1 \in Nat /\ 0 \in Nat /\ kind \notin {"assign", "term", "additive", "var"}
        BY DEF StatementKinds, AtsOf, Roles
    <2>2. /\ status = "run" /\ frames = << >> /\ nested' = nested /\ mixed' = mixed
          /\ Enter(kind, "expression", "stmt", FALSE, NoSymbol, 0, 1)
        BY <1>4 DEF VisitStatement, Idle
    <2> QED BY <1>1, <1>3, <2>1, <2>2, EnterStep
<1>5. ASSUME NEW sym \in Symbols \cup {NoSymbol}, NEW subscripted \in BOOLEAN,
             VisitAssign(sym, subscripted)
      PROVE  IInv'
    <2>1. /\ status = "run" /\ frames # << >> /\ ~Top.back
          /\ nested' = (nested \/ Top.kind # "expression_stmt")
          /\ Enter("assign", "expression", Role, subscripted, sym, 0, 1)
        BY <1>5 DEF VisitAssign, AtExpression, AtFactor, AtChild
    <2>2. /\ "assign" \in DOMAIN AtsOf /\ "expression" \in AtsOf["assign"]
          /\ "assign" \notin StatementKinds /\ "expression_stmt" \in StatementKinds
        BY DEF StatementKinds, AtsOf
    <2>3. ~nested' => Len(frames) = 1 /\ frames[1].kind = "expression_stmt"
        BY <2>1, <2>2, TopFacts DEF Top
    <2>4. nested' \in BOOLEAN /\ (~nested' => ~nested) /\ mixed' \in BOOLEAN
        BY <1>1, <1>5, <2>1 DEF VisitAssign
    <2> QED BY <1>2, <2>1, <2>2, <2>3, <2>4, EnterStep
<1>6. ASSUME NEW two \in BOOLEAN, VisitSimple(two)
      PROVE  IInv'
    <2> DEFINE cost == (IF two THEN 1 ELSE 0) + (IF AtFactor THEN 1 ELSE 0)
    <2>1. /\ status = "run" /\ frames # << >> /\ ~Top.back /\ nested' = nested
          /\ mixed' \in BOOLEAN
          /\ Enter("simple", "additive_l", Role, two, NoSymbol, 0, cost)
        BY <1>1, <1>6 DEF VisitSimple, AtExpression, AtFactor, AtChild
    <2>2. /\ "simple" \in DOMAIN AtsOf /\ "additive_l" \in AtsOf["simple"]
          /\ "simple" \notin StatementKinds /\ cost \in Nat
        BY DEF StatementKinds, AtsOf
    <2> HIDE DEF cost
    <2> QED BY <1>1, <1>2, <1>3, <2>1, <2>2, EnterStep
<1>7. ASSUME NEW two \in BOOLEAN, VisitAdditive(two)
      PROVE  IInv'
    <2> DEFINE cost == IF two THEN 1 ELSE 0
               at == IF two THEN "additive" ELSE "term"
    <2>1. /\ status = "run" /\ frames # << >> /\ ~Top.back /\ nested' = nested
          /\ mixed' \in BOOLEAN
          /\ Enter("additive", at, Role, two, NoSymbol, 0, cost)
        BY <1>1, <1>7 DEF VisitAdditive, AtAdditive, AtChild
    <2>2. /\ "additive" \in DOMAIN AtsOf /\ at \in AtsOf["additive"]
          /\ at # "additive_r" /\ (at = "additive" <=> two)
          /\ "additive" \notin StatementKinds /\ cost \in Nat
        BY DEF StatementKinds, AtsOf
    <2> HIDE DEF cost, at
    <2> QED BY <1>1, <1>2, <1>3, <2>1, <2>2, EnterStep
<1>8. ASSUME NEW two \in BOOLEAN, VisitTerm(two)
      PROVE  IInv'
    <2> DEFINE cost == IF two THEN 1 ELSE 0
    <2>1. /\ status = "run" /\ frames # << >> /\ ~Top.back /\ nested' = nested
          /\ mixed' \in BOOLEAN
          /\ Enter("term", "factor", Role, two, NoSymbol, 0, cost)
        BY <1>1, <1>8 DEF VisitTerm, AtTerm, AtChild
    <2>2. /\ "term" \in DOMAIN AtsOf /\ "factor" \in AtsOf["term"]
          /\ "term" \notin StatementKinds /\ cost \in Nat
        BY DEF StatementKinds, AtsOf
    <2> HIDE DEF cost
    <2> QED BY <1>1, <1>2, <1>3, <2>1, <2>2, EnterStep
<1>9. ASSUME NEW sym \in Symbols, VisitElement(sym)
      PROVE  IInv'
    <2>1. /\ status = "run" /\ frames # << >> /\ ~Top.back /\ nested' = nested
          /\ mixed' \in BOOLEAN
          /\ Enter("var", "subscript", Role, TRUE, sym, 0, 1)
        BY <1>1, <1>9 DEF VisitElement, AtFactor, AtChild
    <2>2. /\ "var" \in DOMAIN AtsOf /\ "subscript" \in AtsOf["var"]
          /\ "var" \notin StatementKinds /\ sym \in Symbols \cup {NoSymbol}
        BY DEF StatementKinds, AtsOf
    <2> QED BY <1>1, <1>2, <2>1, <2>2, EnterStep
<1>10. ASSUME NEW sym \in Symbols \cup {NoSymbol}, NEW argc \in 0..nodes, VisitCall(sym, argc)
      PROVE  IInv'
    <2> DEFINE cost == 1 + argc
    <2>1. /\ status = "run" /\ frames # << >> /\ ~Top.back /\ nested' = nested
          /\ mixed' \in BOOLEAN
          /\ Enter("call", "args", Role, FALSE, sym, argc, cost)
        BY <1>1, <1>10 DEF VisitCall, AtFactor, AtChild
    <2>2. /\ "call" \in DOMAIN AtsOf /\ "args" \in AtsOf["call"]
          /\ "call" \notin StatementKinds /\ cost \in Nat /\ argc \in Nat
        BY <1>1 DEF StatementKinds, AtsOf
    <2> HIDE DEF cost
    <2> QED BY <1>1, <1>2, <2>1, <2>2, EnterStep
<1> QED BY <1>4, <1>5, <1>6, <1>7, <1>8, <1>9, <1>10

-----------------------------------------------------------------------------
(* Where the running visit pops, the stack holds its operands and, without *)
(* nested assignments, nothing else above the height at which it began.    *)
LEMMA OwnOperands ==
    ASSUME IInv, frames # << >>, Top.back, Pops(Top) > 0, ~nested
    PROVE  Len(values) = Top.base + Pops(Top)
<1>1. /\ FrameOK(Top) /\ TopBalanced(Top, Len(values)) /\ Len(values) \in Nat
      /\ Top.base \in Nat
    BY TopFacts DEF Frame
<1>2. Top.kind # "expression_stmt"
    BY DEF Pops
<1>3. Len(values) = Height(Top) + 1
    BY <1>1, <1>2 DEF TopBalanced
<1>4. CASE Top.kind = "simple" /\ Top.two
    <2>1. Top.at = "additive_r" /\ Pops(Top) = 2
        BY <1>1, <1>4 DEF FrameOK, AtsOf, Pops
    <2> QED BY <2>1, <1>1, <1>3 DEF Height
<1>5. CASE ~(Top.kind = "simple" /\ Top.two)
    <2>1. Top.at # "additive_r"
        BY <1>1, <1>5 DEF FrameOK, AtsOf, Frame
    <2>2. Pops(Top) = 1
        BY <1>2, <1>5 DEF Pops
    <2> QED BY <2>1, <2>2, <1>1, <1>3 DEF Height
<1> QED BY <1>4, <1>5

LEMMA EnoughIfNotNested ==
    ASSUME IInv, frames # << >>, ~nested
    PROVE  Enough
<1>1. /\ Top \in Frame /\ Len(values) \in Nat /\ Top.base \in Nat /\ Top.back \in BOOLEAN
    BY TopFacts DEF Frame
<1>2. Pops(Top) \in Nat /\ (~Top.back => Pops(Top) = 0)
    BY DEF Pops
<1>3. CASE Pops(Top) = 0
    BY <1>1, <1>3 DEF Enough
<1>4. CASE Pops(Top) > 0
    <2>1. Len(values) = Top.base + Pops(Top)
        BY <1>1, <1>2, <1>4, OwnOperands
    <2> QED BY <2>1, <1>1, <1>2 DEF Enough
<1> QED BY <1>2, <1>3, <1>4

(* The visits that go on to their second child. *)
LEMMA GoingOnKeepsIInv ==
    ASSUME IInv,
           AssignSubscript \/ SimpleRight \/ SecondOperand \/ CallArgument
    PROVE  IInv'
<1>1. status = "run" /\ frames # << >> /\ Top.back /\ Enough
      /\ Top.kind \notin StatementKinds
    BY DEF AssignSubscript, SimpleRight, SecondOperand, CallArgument, Back, StatementKinds
<1>2. FrameOK(Top) /\ Top \in Frame /\ Top.base \in Nat
      /\ values \in Seq(Value) /\ Len(values) \in Nat
    BY <1>1, TopFacts DEF Frame
<1>3. ASSUME Pops(Top) \in {1, 2}
      PROVE  /\ TopValue \in Value /\ Popped(1) \in Seq(Value)
             /\ Len(Popped(1)) = Len(values) - 1
    BY <1>1, <1>3, PopFacts
<1>4. ASSUME Pops(Top) > 0, ~nested
      PROVE  Len(values) = Top.base + Pops(Top)
    BY <1>1, <1>4, OwnOperands
<1>5. CASE AssignSubscript
    <2> DEFINE g == [[Top EXCEPT !.held = TopValue, !.at = "subscript"] EXCEPT !.back = FALSE]
    <2>1. Top.kind = "assign" /\ Top.two /\ Pops(Top) = 1 /\ values' = Popped(1)
          /\ frames' = [frames EXCEPT ![Len(frames)] = g]
          /\ emitted' = {} /\ UNCHANGED <<status, program>>
        BY <1>1, <1>5 DEF AssignSubscript, Back, Pops, GoneOn
    <2>2. /\ g \in Frame /\ g.kind = "assign" /\ g.at = "subscript" /\ g.two
          /\ g.held \in Value /\ g.base = Top.base /\ ~g.back
        BY <2>1, <1>2, <1>3 DEF Frame, Place
    <2> HIDE DEF g
    <2>3. FrameOK(g)
        BY <2>2 DEF FrameOK, AtsOf
    <2>4. ~nested => TopBalanced(g, Len(Popped(1)))
        BY <2>1, <2>2, <1>2, <1>3, <1>4 DEF TopBalanced, Height
    <2> QED BY <2>1, <2>2, <2>3, <2>4, <1>1, <1>3, GoOnKeepsIInv
<1>6. CASE SimpleRight
    <2> DEFINE g == [[Top EXCEPT !.at = "additive_r"] EXCEPT !.back = FALSE]
    <2>1. Top.kind = "simple" /\ Top.at = "additive_l" /\ Top.two /\ values' = values
          /\ frames' = [frames EXCEPT ![Len(frames)] = g]
          /\ emitted' = {} /\ UNCHANGED <<status, program>>
        BY <1>1, <1>6 DEF SimpleRight, Back, GoneOn
    <2>2. /\ g \in Frame /\ g.kind = "simple" /\ g.at = "additive_r" /\ g.two
          /\ g.base = Top.base /\ ~g.back
        BY <2>1, <1>2 DEF Frame, Place
    <2> HIDE DEF g
    <2>3. FrameOK(g)
        BY <2>2 DEF FrameOK, AtsOf
    <2>4. ~nested => Len(values) = Top.base + 1
        BY <2>1, <1>1, <1>2, TopFacts DEF TopBalanced, Height
    <2>5. ~nested => TopBalanced(g, Len(values))
        BY <2>2, <2>4, <1>2 DEF TopBalanced, Height
    <2> QED BY <2>1, <2>2, <2>3, <2>5, <1>1, <1>2, GoOnKeepsIInv
<1>7. CASE SecondOperand
    <2> DEFINE g == [[Top EXCEPT !.held = TopValue, !.at = "term"] EXCEPT !.back = FALSE]
    <2>1. \/ Top.kind = "additive" /\ Top.at = "additive"
          \/ Top.kind = "term" /\ Top.two
        BY <1>7 DEF SecondOperand, Back
    <2>2. Top.two /\ Pops(Top) = 1
        BY <2>1, <1>1, <1>2 DEF FrameOK, Pops
    <2>3. values' = Popped(1)
          /\ frames' = [frames EXCEPT ![Len(frames)] = g]
          /\ emitted' = {} /\ UNCHANGED <<status, program>>
        BY <1>7 DEF SecondOperand, GoneOn
    <2>4. /\ g \in Frame /\ g.kind = Top.kind /\ g.at = "term" /\ g.two
          /\ g.held \in Value /\ g.base = Top.base /\ ~g.back
        BY <2>2, <1>2, <1>3 DEF Frame, Place
    <2> HIDE DEF g
    <2>5. FrameOK(g)
        BY <2>1, <2>4 DEF FrameOK, AtsOf
    <2>6. ~nested => TopBalanced(g, Len(Popped(1)))
        BY <2>2, <2>4, <1>2, <1>3, <1>4 DEF TopBalanced, Height
    <2> QED BY <2>2, <2>3, <2>4, <2>5, <2>6, <1>1, <1>3, GoOnKeepsIInv
<1>8. CASE CallArgument
    <2> DEFINE g == [[Top EXCEPT !.args = Append(@, TopValue)] EXCEPT !.back = FALSE]
    <2>1. Top.kind = "call" /\ Top.at = "args" /\ Pops(Top) = 1 /\ values' = Popped(1)
          /\ frames' = [frames EXCEPT ![Len(frames)] = g]
          /\ emitted' = {} /\ UNCHANGED <<status, program>>
        BY <1>1, <1>8 DEF CallArgument, Back, Pops, GoneOn
    <2>2. Append(Top.args, TopValue) \in Seq(Value)
        BY <2>1, <1>2, <1>3 DEF Frame
    <2>3. /\ g \in Frame /\ g.kind = "call" /\ g.at = "args"
          /\ g.base = Top.base /\ ~g.back
        BY <2>1, <2>2, <1>2 DEF Frame
    <2> HIDE DEF g
    <2>4. FrameOK(g)
        BY <2>3 DEF FrameOK, AtsOf
    <2>5. ~nested => TopBalanced(g, Len(Popped(1)))
        BY <2>1, <2>3, <1>2, <1>3, <1>4 DEF TopBalanced, Height
    <2> QED BY <2>1, <2>3, <2>4, <2>5, <1>1, <1>3, GoOnKeepsIInv
<1> QED BY <1>5, <1>6, <1>7, <1>8

-----------------------------------------------------------------------------
(* The visits that end. *)
LEMMA ValueIsOperand ==
    ASSUME NEW v \in Value
    PROVE  v \in Operand
BY DEF Operand

LEMMA KnownIsOperand ==
    ASSUME NEW ty \in Type \cup {"array"}
    PROVE  Known(ty) \in Operand
BY DEF Operand

(* What a visit hands to its caller. *)
LEMMA HandedTyped ==
    ASSUME NEW ty \in Type, NEW f \in Frame
    PROVE  Handed(ty, f) \in Value
<1>1. f.at \in Place /\ f.args \in Seq(Value)
    BY DEF Frame
<1>2. Len(f.args) \in Nat
    BY <1>1
<1> QED BY <1>1, <1>2 DEF Handed, PlaceAt, Value

LEMMA ResultTyped ==
    ASSUME IInv, frames # << >>, Top.kind \notin StatementKinds, NEW ty \in Type
    PROVE  Result(ty) \in Value
<1> DEFINE l == Len(frames)
<1>4. FramesOK(frames) /\ l \in Nat /\ l >= 1 /\ l # 1
    BY TopFacts DEF IInv
<1> HIDE DEF l
<1>5. l > 1
    BY <1>4
<1>1. FramesOK(frames) /\ Len(frames) \in Nat /\ Len(frames) > 1
    BY <1>4, <1>5 DEF l
<1>2. Len(frames) - 1 \in 1..Len(frames)
    BY <1>1
<1>3. frames[Len(frames) - 1] \in Frame
    BY <1>1, <1>2 DEF FramesOK, FrameOK
<1> QED BY <1>3, HandedTyped DEF Result

LEMMA InstrTyped ==
    ASSUME NEW op, NEW operands \in Seq(Operand), NEW like
    PROVE  Instr(op, operands, like).operands \in Seq(Operand)
BY DEF Instr

LEMMA OneOperand ==
    ASSUME NEW a \in Operand
    PROVE  <<a>> \in Seq(Operand)
OBVIOUS

LEMMA TwoOperands ==
    ASSUME NEW a \in Operand, NEW b \in Operand
    PROVE  <<a, b>> \in Seq(Operand)
OBVIOUS

LEMMA LoadTyped ==
    ASSUME NEW ty \in Type \cup {"array"}
    PROVE  Load(ty).operands \in Seq(Operand)
<1>1. <<Known(ty)>> \in Seq(Operand)
    BY KnownIsOperand, OneOperand
<1> QED BY <1>1 DEF Load, Instr

LEMMA ElementAddressTyped ==
    ASSUME NEW sym \in Symbols, NEW index \in Operand, NEW like
    PROVE  \A i \in ElementAddress(sym, index, like) : i.operands \in Seq(Operand)
<1>1. Pointee(sym) \in Type \cup {"array"}
    BY SymbolsAreSymbols DEF Symbol, Pointee, Type
<1>2. <<Known(Pointee(sym)), index>> \in Seq(Operand)
    BY <1>1, KnownIsOperand, TwoOperands
<1>3. Load(Pointee(sym)).operands \in Seq(Operand)
    BY <1>1, LoadTyped
<1> DEFINE gep == Instr("gep", <<Known(Pointee(sym)), index>>,
                        <<Known(IF Tagged(sym) THEN "i32*" ELSE "array"), like>>)
<1>4. gep.operands \in Seq(Operand)
    BY <1>2, InstrTyped
<1>5. ElementAddress(sym, index, like) =
        {gep} \cup (IF Tagged(sym) THEN {Load(Pointee(sym))} ELSE {})
    BY DEF ElementAddress
<1> HIDE DEF gep
<1> QED BY <1>3, <1>4, <1>5

(* LeaveSimple takes both operands off the stack. *)
LEMMA PopTwoFacts ==
    ASSUME IInv, frames # << >>, Enough, Pops(Top) = 2
    PROVE  /\ values[Len(values) - 1] \in Value
           /\ Popped(2) \in Seq(Value)
           /\ Len(Popped(2)) = Len(values) - 2
           /\ \A i \in 1..(Len(values) - 2) : Popped(2)[i] = values[i]
<1> DEFINE n == Len(values)
<1>1. values \in Seq(Value) /\ n \in Nat
    BY TopFacts
<1>2. n >= 2
    BY <1>1 DEF Enough
<1>3. n - 1 \in 1..n
    BY <1>1, <1>2
<1>4. values[n - 1] \in Value
    BY <1>1, <1>3
<1>5. 2 \in Nat /\ 2 <= n
    BY <1>2
<1> QED BY <1>1, <1>4, <1>5, PoppedShape

LEMMA ReturnsKeepIInv ==
    ASSUME IInv,
           \/ LeaveExpressionStmt \/ LeaveCondition \/ LeaveReturn \/ LeaveAssign
           \/ LeaveSimple \/ LeaveArithmetic \/ LeaveElement
    PROVE  IInv'
<1>1. status = "run" /\ frames # << >> /\ Top.back
    BY DEF LeaveExpressionStmt, LeaveCondition, LeaveReturn, LeaveAssign,
           LeaveSimple, LeaveArithmetic, LeaveElement, Back
<1>2. FrameOK(Top) /\ Top \in Frame /\ Top.base \in Nat
      /\ values \in Seq(Value) /\ Len(values) \in Nat
    BY <1>1, TopFacts DEF Frame
<1>3. ASSUME Pops(Top) \in {1, 2}, Enough
      PROVE  /\ TopValue \in Value /\ Popped(1) \in Seq(Value)
             /\ Len(Popped(1)) = Len(values) - 1
    BY <1>1, <1>3, PopFacts
<1>4. ASSUME Pops(Top) > 0, ~nested
      PROVE  Len(values) = Top.base + Pops(Top)
    BY <1>1, <1>4, OwnOperands
<1>5. ASSUME Pops(Top) = 1, Enough, Top.kind \notin StatementKinds, NEW ty \in Type
      PROVE  /\ Append(Popped(1), Result(ty)) \in Seq(Value)
             /\ ~nested => Len(Append(Popped(1), Result(ty))) = Top.base + 1
    <2>1. Result(ty) \in Value
        BY <1>1, <1>5, ResultTyped
    <2>2. Append(Popped(1), Result(ty)) \in Seq(Value)
          /\ Len(Append(Popped(1), Result(ty))) = Len(Popped(1)) + 1
        BY <2>1, <1>3, <1>5
    <2> QED BY <2>2, <1>2, <1>3, <1>4, <1>5
<1>6. \A v \in Value : v \in Operand /\ v.ty \in Type
    BY ValueIsOperand DEF Value
<1>7. CASE LeaveExpressionStmt
    <2>1. /\ Top.kind \in StatementKinds /\ frames' = Returned /\ emitted' = {}
          /\ values' = values /\ UNCHANGED <<status, program>>
        BY <1>7 DEF LeaveExpressionStmt, Back, StatementKinds
    <2> QED BY <2>1, <1>1, <1>2, ReturnKeepsIInv
<1>8. CASE LeaveCondition \/ LeaveReturn
    <2>1. /\ Top.kind \in StatementKinds /\ Enough /\ Pops(Top) = 1
          /\ frames' = Returned /\ values' = Popped(1)
          /\ UNCHANGED <<status, program>>
        BY <1>1, <1>8 DEF LeaveCondition, LeaveReturn, Back, StatementKinds, Pops
    <2>2. \E op, like : emitted' = {Instr(op, <<TopValue>>, like)}
        BY <1>8 DEF LeaveCondition, LeaveReturn
    <2>3. <<TopValue>> \in Seq(Operand)
        BY <2>1, <1>3, <1>6, OneOperand
    <2>4. \A i \in emitted' : i.operands \in Seq(Operand)
        BY <2>2, <2>3, InstrTyped
    <2> QED BY <2>1, <2>4, <1>1, <1>3, <1>6, ReturnKeepsIInv
<1>9. CASE LeaveAssign
    <2>1. /\ Top.kind = "assign" /\ Top.kind \notin StatementKinds /\ Enough /\ Pops(Top) = 1
          /\ Top.two => Top.at = "subscript"
          /\ Top.sym \in Symbols
          /\ frames' = Returned /\ values' = Popped(1)
          /\ UNCHANGED <<status, program>>
        BY <1>1, <1>2, <1>9 DEF LeaveAssign, Back, StatementKinds, Pops, Frame
    <2>2. /\ ~nested => Len(Popped(1)) = Top.base
          /\ Popped(1) \in Seq(Value)
        BY <2>1, <1>2, <1>3, <1>4
    <2>3. \A i \in emitted' : i.operands \in Seq(Operand)
        <3>1. CASE Top.two
            <4>1. Top.held \in Value /\ TopValue \in Value
                BY <3>1, <2>1, <1>2, <1>3 DEF FrameOK
            <4>2. <<Top.held>> \in Seq(Operand)
                BY <4>1, <1>6, OneOperand
            <4> DEFINE address == ElementAddress(Top.sym, TopValue, Wanted("i32", "subscript"))
            <4>3. \A i \in address : i.operands \in Seq(Operand)
                BY <4>1, <2>1, <1>6, ElementAddressTyped
            <4>4. emitted' = address
                     \cup {Instr("store", <<Top.held>>, <<Wanted("i32", "expression")>>)}
                BY <3>1, <1>9 DEF LeaveAssign
            <4> HIDE DEF address
            <4> QED BY <4>2, <4>3, <4>4, InstrTyped
        <3>2. CASE ~Top.two
            <4>1. <<TopValue>> \in Seq(Operand)
                BY <2>1, <1>3, <1>6, OneOperand
            <4>2. \E like : emitted' = {Instr("store", <<TopValue>>, like)}
                BY <3>2, <1>9 DEF LeaveAssign
            <4> QED BY <4>1, <4>2, InstrTyped
        <3> QED BY <3>1, <3>2
    <2>4. ~nested => Len(values') = Top.base + (IF Top.kind = "assign" THEN 0 ELSE 1)
        BY <2>1, <2>2, <1>2
    <2> QED BY <2>1, <2>2, <2>3, <2>4, <1>1, <1>6, ReturnKeepsIInv
<1>10. CASE LeaveSimple
    <2>1. /\ Top.kind = "simple" /\ Top.kind \notin StatementKinds /\ Enough
          /\ Top.two => Top.at = "additive_r"
          /\ Pops(Top) = IF Top.two THEN 2 ELSE 1
          /\ frames' = Returned /\ UNCHANGED <<status, program>>
        BY <1>1, <1>10 DEF LeaveSimple, Back, StatementKinds, Pops
    <2>2. TopValue \in Value
        BY <2>1, <1>3
    <2>3. CASE Top.two
        <3>1. /\ values[Len(values) - 1] \in Value /\ Popped(2) \in Seq(Value)
              /\ Len(Popped(2)) = Len(values) - 2
            BY <2>1, <2>3, <1>1, PopTwoFacts
        <3>2. /\ values' = Append(Popped(2), Result("i1"))
              /\ \E like : emitted' = {Instr("icmp", <<values[Len(values) - 1], TopValue>>,
                                             like)}
            BY <2>3, <1>10 DEF LeaveSimple
        <3>3. <<values[Len(values) - 1], TopValue>> \in Seq(Operand)
            BY <3>1, <2>2, <1>6, TwoOperands
        <3>4. \A i \in emitted' : i.operands \in Seq(Operand)
            BY <3>2, <3>3, InstrTyped
        <3>7. Result("i1") \in Value
            BY <2>1, <1>1, ResultTyped DEF Type
        <3>5. values' \in Seq(Value) /\ Len(values') = Len(Popped(2)) + 1
            BY <3>1, <3>2, <3>7
        <3>6. ~nested => Len(values') = Top.base + 1
            BY <3>1, <3>5, <2>1, <2>3, <1>2, <1>4
        <3> QED BY <3>4, <3>5, <3>6, <2>1, <1>1, <1>6, ReturnKeepsIInv
    <2>4. CASE ~Top.two
        <3>1. values' = Append(Popped(1), Result(TopValue.ty)) /\ emitted' = {}
            BY <2>4, <1>10 DEF LeaveSimple
        <3>2. /\ values' \in Seq(Value)
              /\ ~nested => Len(values') = Top.base + 1
            BY <3>1, <2>1, <2>2, <2>4, <1>5, <1>6
        <3> QED BY <3>1, <3>2, <2>1, <1>1, ReturnKeepsIInv
    <2> QED BY <2>3, <2>4
<1>11. CASE LeaveArithmetic
    <2>1. /\ Top.kind \in {"additive", "term"} /\ Top.kind \notin StatementKinds /\ Enough
          /\ Top.kind # "assign"
          /\ Top.two => Top.at = "term"
          /\ Pops(Top) = 1
          /\ frames' = Returned /\ UNCHANGED <<status, program>>
        BY <1>1, <1>11 DEF LeaveArithmetic, Back, StatementKinds, Pops
    <2>2. TopValue \in Value
        BY <2>1, <1>3
    <2>3. CASE Top.two
        <3> DEFINE left == IF Top.kind = "additive" THEN Top.held ELSE TopValue
                   right == IF Top.kind = "additive" THEN TopValue ELSE Top.held
        <3>1. left \in Value /\ right \in Value
            BY <2>1, <2>2, <2>3, <1>2 DEF FrameOK
        <3>2. /\ \E like : emitted' = {Instr("arith", <<left, right>>, like)}
              /\ values' = Append(Popped(1), Result(left.ty))
            BY <2>3, <1>11 DEF LeaveArithmetic
        <3> HIDE DEF left, right
        <3>3. <<left, right>> \in Seq(Operand)
            BY <3>1, <1>6, TwoOperands
        <3>4. \A i \in emitted' : i.operands \in Seq(Operand)
            BY <3>2, <3>3, InstrTyped
        <3>5. /\ values' \in Seq(Value)
              /\ ~nested => Len(values') = Top.base + 1
            BY <3>1, <3>2, <2>1, <1>5, <1>6
        <3> QED BY <3>4, <3>5, <2>1, <1>1, <1>6, ReturnKeepsIInv
    <2>4. CASE ~Top.two
        <3>1. values' = Append(Popped(1), Result(TopValue.ty)) /\ emitted' = {}
            BY <2>4, <1>11 DEF LeaveArithmetic
        <3>2. /\ values' \in Seq(Value)
              /\ ~nested => Len(values') = Top.base + 1
            BY <3>1, <2>1, <2>2, <1>5, <1>6
        <3> QED BY <3>1, <3>2, <2>1, <1>1, ReturnKeepsIInv
    <2> QED BY <2>3, <2>4
<1>12. CASE LeaveElement
    <2>1. /\ Top.kind = "var" /\ Top.kind \notin StatementKinds /\ Enough /\ Pops(Top) = 1
          /\ frames' = Returned /\ values' = Append(Popped(1), Result("i32"))
          /\ emitted' = ElementAddress(Top.sym, TopValue, Wanted("i32", "subscript"))
                        \cup {Load("i32")}
          /\ UNCHANGED <<status, program>>
        BY <1>1, <1>12 DEF LeaveElement, Back, StatementKinds, Pops
    <2>2. /\ values' \in Seq(Value)
          /\ ~nested => Len(values') = Top.base + 1
        BY <2>1, <1>5 DEF Type
    <2>3. \A i \in emitted' : i.operands \in Seq(Operand)
        <3>1. Top.sym \in Symbols /\ TopValue \in Operand /\ "i32" \in Type
            BY <2>1, <1>2, <1>3, <1>6 DEF FrameOK, Type
        <3>2. Load("i32").operands \in Seq(Operand)
            BY <3>1, LoadTyped
        <3> QED BY <3>1, <3>2, <2>1, ElementAddressTyped
    <2> QED BY <2>1, <2>2, <2>3, <1>1, <1>6, ReturnKeepsIInv
<1> QED BY <1>7, <1>8, <1>9, <1>10, <1>11, <1>12

LEMMA LeaveCallKeepsIInv ==
    ASSUME IInv, LeaveCall
    PROVE  IInv'
<1>1. /\ status = "run" /\ frames # << >> /\ ~Top.back /\ Top.at = "args"
      /\ Top.sym # NoSymbol
      /\ frames' = Returned /\ values' = Append(values, Result(Top.sym.returns))
      /\ emitted' = {Instr("call", Top.args, Parameters(Top.sym))}
      /\ UNCHANGED <<status, program>>
    BY DEF LeaveCall, AtCall, AtChild
<1>2. /\ FrameOK(Top) /\ Top \in Frame /\ Top.base \in Nat
      /\ Top.args \in Seq(Value) /\ Top.sym \in Symbols \cup {NoSymbol}
      /\ values \in Seq(Value) /\ Len(values) \in Nat
    BY <1>1, TopFacts DEF Frame
<1>3. Top.kind = "call" /\ Top.kind \notin StatementKinds
    <2>1. Top.kind \in {"expression_stmt", "condition", "return", "assign", "simple",
                        "additive", "term", "var", "call"}
        BY <1>2 DEF Frame
    <2>2. "args" \in AtsOf[Top.kind]
        BY <1>1, <1>2 DEF FrameOK
    <2> QED BY <2>1, <2>2 DEF AtsOf, StatementKinds
<1>4. Result(Top.sym.returns) \in Value
    BY <1>1, <1>2, <1>3, SymbolFields, ResultTyped
<1>5. values' \in Seq(Value) /\ Len(values') = Len(values) + 1
    BY <1>1, <1>2, <1>4
<1>6. ~nested => Len(values) = Top.base
    BY <1>1, <1>2, TopFacts DEF TopBalanced, Height
<1>7. ~nested => Len(values') = Top.base + 1
    BY <1>2, <1>5, <1>6
<1>8. Top.args \in Seq(Operand)
    <2>1. Value \subseteq Operand
        BY ValueIsOperand
    <2> QED BY <2>1, <1>2, SeqMonotonic
<1>9. \A i \in emitted' : i.operands \in Seq(Operand)
    BY <1>1, <1>8, InstrTyped
<1> QED BY <1>1, <1>3, <1>5, <1>7, <1>9, ReturnKeepsIInv

LEMMA LeafStep ==
    ASSUME IInv, AtFactor, NEW instrs, NEW ty \in Type, Leaf(instrs, ty),
           \A i \in instrs : i.operands \in Seq(Operand)
    PROVE  IInv'
<1>1. /\ status = "run" /\ frames # << >> /\ ~Top.back
      /\ FramesOK(frames) /\ values \in Seq(Value) /\ Len(values) \in Nat
      /\ nodes \in 0..MaxNodes /\ nested \in BOOLEAN
    BY DEF AtFactor, AtChild, IInv, TypeOK
<1>2. /\ frames' = Resumed(frames) /\ values' = Append(values, Handed(ty, Top))
      /\ emitted' = instrs /\ UNCHANGED <<status, nodes, nested>>
      /\ mixed' \in BOOLEAN
    BY DEF Leaf, IInv, TypeOK
<1>6. Handed(ty, Top) \in Value
    BY <1>1, TopFacts, HandedTyped
<1>3. values' \in Seq(Value) /\ Len(values') = Len(values) + 1
    BY <1>1, <1>2, <1>6
<1>4. FramesOK(Resumed(frames)) /\ Resumed(frames) \in Seq(Frame)
    BY <1>1, ResumedFrames DEF FramesOK
<1>5. ASSUME ~nested PROVE Balanced(Resumed(frames), Len(values'))
    <2> DEFINE n == Len(values)
               m == Len(values')
    <2>1. n \in Nat /\ m \in Nat /\ m = n + 1 /\ Balanced(frames, n)
        BY <1>1, <1>3, <1>5 DEF IInv
    <2>2. ~frames[Len(frames)].back
        BY <1>1 DEF Top
    <2> HIDE DEF n, m
    <2>3. Balanced(Resumed(frames), m)
        BY <2>1, <2>2, <1>1, ResumedBalanced
    <2> QED BY <2>3 DEF m
<1> QED BY <1>1, <1>2, <1>3, <1>4, <1>5 DEF IInv, TypeOK

LEMMA LeavesKeepIInv ==
    ASSUME IInv,
           \/ VisitNum
           \/ \E sym \in Symbols, subscripted \in BOOLEAN : VisitScalar(sym, subscripted)
           \/ \E sym \in Symbols : VisitArrayName(sym)
    PROVE  IInv'
<1>1. CASE VisitNum
    <2>1. "i32" \in Type
        BY DEF Type
    <2> QED BY <1>1, <2>1, LeafStep DEF VisitNum
<1>2. ASSUME NEW sym \in Symbols, NEW subscripted \in BOOLEAN,
             VisitScalar(sym, subscripted)
      PROVE  IInv'
    <2>1. AtFactor /\ ~HasElements(sym) /\ Leaf({Load(Pointee(sym))}, Pointee(sym))
        BY <1>2 DEF VisitScalar
    <2>2. Pointee(sym) \in Type
        BY <2>1, SymbolsAreSymbols DEF Symbol, Pointee, HasElements, Type
    <2>3. \A i \in {Load(Pointee(sym))} : i.operands \in Seq(Operand)
        BY <2>2, LoadTyped
    <2> QED BY <2>1, <2>2, <2>3, LeafStep
<1>3. ASSUME NEW sym \in Symbols, VisitArrayName(sym)
      PROVE  IInv'
    <2>1. AtFactor /\ Leaf(ElementAddress(sym, Known("i32"), Known("i32")), "i32*")
        BY <1>3 DEF VisitArrayName
    <2>2. Known("i32") \in Operand /\ "i32*" \in Type
        BY KnownIsOperand DEF Type
    <2>3. \A i \in ElementAddress(sym, Known("i32"), Known("i32")) : i.operands \in Seq(Operand)
        BY <2>2, ElementAddressTyped
    <2> QED BY <2>1, <2>2, <2>3, LeafStep
<1> QED BY <1>1, <1>2, <1>3

LEMMA DeathsKeepIInv ==
    ASSUME IInv, NullDereference \/ PopEmpty
    PROVE  IInv'
<1>1. /\ status' \in {"null", "underflow"} /\ emitted' = {}
      /\ UNCHANGED <<frames, values, program>>
    BY DEF NullDereference, PopEmpty, Die
<1>2. ~nested => status' # "underflow"
    BY EnoughIfNotNested DEF NullDereference, PopEmpty, Die
<1> QED BY <1>1, <1>2 DEF IInv, TypeOK, program

-----------------------------------------------------------------------------
LEMMA InitIInv ==
    ASSUME Init
    PROVE  IInv
<1>1. << >> \in Seq(Frame) /\ << >> \in Seq(Value) /\ MaxNodes \in 0..MaxNodes
    BY NodesAreCounted
<1>2. FramesOK(<< >>)
    BY <1>1 DEF FramesOK
<1>3. Balanced(<< >>, 0)
    BY DEF Balanced
<1> QED BY <1>1, <1>2, <1>3 DEF Init, IInv, TypeOK

LEMMA StepKeepsIInv ==
    ASSUME IInv, [Next]_vars
    PROVE  IInv'
<1>1. CASE Next
    <2>1. CASE Stopped
        BY <2>1 DEF Stopped, vars, program, IInv, TypeOK
    <2>2. CASE ~Stopped
        BY <1>1, <2>2, VisitsKeepIInv, GoingOnKeepsIInv, ReturnsKeepIInv,
           LeaveCallKeepsIInv, LeavesKeepIInv, DeathsKeepIInv
           DEF Next, StatementKinds
    <2> QED BY <2>1, <2>2
<1>2. CASE UNCHANGED vars
    BY <1>2 DEF vars, program, IInv, TypeOK
<1> QED BY <1>1, <1>2

THEOREM SpecIInv == Spec => []IInv
<1>1. Init => IInv
    BY InitIInv
<1>2. IInv /\ [Next]_vars => IInv'
    BY StepKeepsIInv
<1> QED BY <1>1, <1>2, PTL DEF Spec

(* The variables have their types, whatever program is compiled. *)
THEOREM ExprTypeCorrect == Spec => []TypeOK
<1>1. IInv => TypeOK
    BY DEF IInv
<1> QED BY <1>1, SpecIInv, PTL

(* What a visit pops was pushed for it: no operand of an instruction is a  *)
(* value that an earlier statement left on value_stack.                    *)
THEOREM ExprOperandsAreOwn == Spec => []OperandsAreOwn
<1>1. IInv => OperandsAreOwn
    BY OwnOperands DEF OperandsAreOwn, Popping
<1> QED BY <1>1, SpecIInv, PTL

(* pop() never takes the back of an empty value_stack unless the program   *)
(* has an assignment inside an expression.                                 *)
THEOREM ExprNoUnderflow == Spec => []NoUnderflowUnlessNested
<1>1. IInv => NoUnderflowUnlessNested
    BY DEF IInv, NoUnderflowUnlessNested
<1> QED BY <1>1, SpecIInv, PTL

-----------------------------------------------------------------------------
(* How a step changes value_stack. *)
LEMMA AppendedPrefix ==
    ASSUME NEW vs \in Seq(Value), NEW ty
    PROVE  /\ Len(Append(vs, ty)) = Len(vs) + 1
           /\ \A i \in 1..Len(vs) : Append(vs, ty)[i] = vs[i]
<1>1. vs \in Seq(Value \cup {ty})
    OBVIOUS
<1> QED BY <1>1, AppendProperties

LEMMA SamePrefix ==
    ASSUME NEW vs, NEW ws, NEW b \in Nat,
           \A i \in 1..b : vs[i] = ws[i]
    PROVE  SubSeq(vs, 1, b) = SubSeq(ws, 1, b)
OBVIOUS

(* The lowest b values stay when some above them are popped and at most    *)
(* one is pushed.                                                          *)
Kept(b) == Len(values') >= b /\ SubSeq(values', 1, b) = SubSeq(values, 1, b)

LEMMA KeptAbove ==
    ASSUME NEW ws \in Seq(Value), NEW b \in Nat, b <= Len(ws),
           \A i \in 1..Len(ws) : ws[i] = values[i],
           values' = ws \/ \E ty : values' = Append(ws, ty)
    PROVE  Kept(b)
<1>1. Len(values') >= Len(ws) /\ \A i \in 1..Len(ws) : values'[i] = ws[i]
    <2>1. CASE values' = ws
        BY <2>1
    <2>2. CASE \E ty : values' = Append(ws, ty)
        <3>1. PICK ty : values' = Append(ws, ty)
            BY <2>2
        <3> QED BY <3>1, AppendedPrefix
    <2> QED BY <2>1, <2>2
<1> DEFINE n == Len(ws)
           m == Len(values')
<1>2. n \in Nat /\ m >= n /\ m \in Nat
    <2>1. values' = ws => m = n
        OBVIOUS
    <2>2. (\E ty : values' = Append(ws, ty)) => m = n + 1
        BY AppendedPrefix
    <2> QED BY <2>1, <2>2
<1> HIDE DEF m
<1>3. m >= b
    BY <1>2
<1>4. \A i \in 1..b : values'[i] = values[i]
    BY <1>1, <1>2
<1> QED BY <1>3, <1>4, SamePrefix DEF Kept, m

LEMMA StepKeepsLeftovers ==
    ASSUME IInv, Next, ~nested', frames # << >>
    PROVE  Kept(frames[1].base)
<1> DEFINE b == frames[1].base
           n == Len(values)
<1>1. ~nested
    BY DEF Next, VisitStatement, LeaveExpressionStmt, LeaveCondition, LeaveReturn,
           VisitAssign, AssignSubscript, LeaveAssign, VisitSimple, SimpleRight,
           LeaveSimple, VisitAdditive, VisitTerm, SecondOperand, LeaveArithmetic,
           VisitNum, VisitScalar, VisitArrayName, Leaf, VisitElement, LeaveElement,
           VisitCall, CallArgument, LeaveCall, NullDereference, PopEmpty, Die,
           Stopped, program, vars
<1>2. /\ values \in Seq(Value) /\ n \in Nat /\ Top.base \in Nat /\ Top \in Frame
      /\ TopBalanced(Top, n)
    BY <1>1, TopFacts DEF Frame
<1>3. b \in Nat /\ Top.base >= b
    <2>1. FramesOK(frames) /\ Balanced(frames, n)
        BY <1>1 DEF IInv
    <2>2. 1 \in 1..Len(frames) /\ Len(frames) \in 1..Len(frames)
        BY <2>1 DEF FramesOK
    <2>3. frames[1] \in Frame
        BY <2>1, <2>2 DEF FramesOK, FrameOK
    <2> QED BY <2>1, <2>2, <2>3 DEF Balanced, Top, Frame
<1> HIDE DEF b, n
<1>4. n >= Top.base
    BY <1>2 DEF TopBalanced, Height
<1>5. ASSUME values' = values \/ \E ty : values' = Append(values, ty)
      PROVE  Kept(b)
    BY <1>2, <1>3, <1>4, <1>5, KeptAbove DEF n
<1>6. ASSUME Enough, Top.back, Pops(Top) = 1,
             values' = Popped(1) \/ \E ty : values' = Append(Popped(1), ty)
      PROVE  Kept(b)
    <2>1. /\ Popped(1) \in Seq(Value) /\ Len(Popped(1)) = n - 1
          /\ \A i \in 1..(n - 1) : Popped(1)[i] = values[i]
        BY <1>6, PopFacts DEF n
    <2>2. n = Top.base + 1
        BY <1>1, <1>6, OwnOperands DEF n
    <2>3. b <= Len(Popped(1))
        BY <2>1, <2>2, <1>2, <1>3
    <2> QED BY <2>1, <2>3, <1>3, <1>6, KeptAbove
<1>7. ASSUME Enough, Top.back, Pops(Top) = 2, \E ty : values' = Append(Popped(2), ty)
      PROVE  Kept(b)
    <2>1. /\ Popped(2) \in Seq(Value) /\ Len(Popped(2)) = n - 2
          /\ \A i \in 1..(n - 2) : Popped(2)[i] = values[i]
        BY <1>7, PopTwoFacts DEF n
    <2>2. n = Top.base + 2
        BY <1>1, <1>7, OwnOperands DEF n
    <2>3. b <= Len(Popped(2))
        BY <2>1, <2>2, <1>2, <1>3
    <2> QED BY <2>1, <2>3, <1>3, <1>7, KeptAbove
<1>8. CASE values' = values
    BY <1>8, <1>5 DEF b
<1>9. CASE LeaveCondition \/ LeaveReturn \/ AssignSubscript \/ LeaveAssign
           \/ SecondOperand \/ LeaveElement \/ CallArgument \/ LeaveArithmetic
    <2>1. Enough /\ Top.back /\ Top.kind \notin {"expression_stmt", "simple"}
        BY <1>9 DEF LeaveCondition, LeaveReturn, AssignSubscript, LeaveAssign, SecondOperand,
               LeaveElement, CallArgument, LeaveArithmetic, Back
    <2>2. Pops(Top) = 1
        BY <2>1 DEF Pops
    <2>3. values' = Popped(1) \/ \E ty : values' = Append(Popped(1), ty)
        BY <1>9 DEF LeaveCondition, LeaveReturn, AssignSubscript, LeaveAssign, SecondOperand,
               LeaveElement, CallArgument, LeaveArithmetic
    <2> QED BY <2>1, <2>2, <2>3, <1>6 DEF b
<1>10. CASE LeaveSimple
    <2>1. Enough /\ Top.back /\ Top.kind = "simple" /\ (Top.two => Top.at = "additive_r")
        BY <1>10 DEF LeaveSimple, Back
    <2>2. CASE Top.two
        <3>1. Pops(Top) = 2 /\ \E ty : values' = Append(Popped(2), ty)
            BY <2>1, <2>2, <1>10 DEF Pops, LeaveSimple
        <3> QED BY <2>1, <3>1, <1>7 DEF b
    <2>3. CASE ~Top.two
        <3>1. Pops(Top) = 1 /\ \E ty : values' = Append(Popped(1), ty)
            BY <2>1, <2>3, <1>10 DEF Pops, LeaveSimple
        <3> QED BY <2>1, <3>1, <1>6 DEF b
    <2> QED BY <2>2, <2>3
<1>11. CASE \/ VisitNum \/ LeaveCall
            \/ \E sym \in Symbols, subscripted \in BOOLEAN : VisitScalar(sym, subscripted)
            \/ \E sym \in Symbols : VisitArrayName(sym)
    <2>1. \E ty : values' = Append(values, ty)
        BY <1>11 DEF VisitNum, LeaveCall, VisitScalar, VisitArrayName, Leaf
    <2> QED BY <2>1, <1>5 DEF b
<1> QED
    BY <1>8, <1>9, <1>10, <1>11
       DEF Next, VisitStatement, LeaveExpressionStmt, VisitAssign, VisitSimple,
           SimpleRight, VisitAdditive, VisitTerm, VisitElement, VisitCall, Enter,
           NullDereference, PopEmpty, Die, Stopped, program, vars

(* What an expression statement leaves on value_stack is not touched by    *)
(* the statements that follow.                                             *)
THEOREM ExprLeftoversStay == Spec => LeftoversStay
<1>1. IInv /\ [Next]_vars =>
        [~nested' /\ frames # << >> =>
          /\ Len(values') >= frames[1].base
          /\ SubSeq(values', 1, frames[1].base) = SubSeq(values, 1, frames[1].base)]_vars
    BY StepKeepsLeftovers DEF Kept
<1> QED BY <1>1, SpecIInv, PTL DEF Spec, LeftoversStay

-----------------------------------------------------------------------------
(* What values and operands are in the programs without a nested           *)
(* assignment: each is in its place, and under Strict its type fits.  m    *)
(* says that the program is mixed.                                         *)
Alike(ty, like, m) == ty = like \/ (m /\ ty \in Number /\ like \in Number)

(* What a visit hands to its parent suits the role its node plays there    *)
(* and is what the parent f waits for.                                     *)
Suits(ty, role, m) ==
    role = "stmt" \/ Alike(ty, IF role = "cond" THEN "i1" ELSE role, m)
Answers(v, f, m) == v.of = PlaceAt(f) /\ (Strict => Suits(v.ty, ChildRole(f), m))

(* f has popped its first operand and visits the second. *)
Holds(f) == f.two /\ (f.at = "term" \/ (f.at = "subscript" /\ f.kind = "assign"))
FirstPlace == [additive |-> "additive", term |-> "factor", assign |-> "expression"]

(* What is popped already, and what the role of a node says of its visit.  *)
FrameInPlace(f) ==
    /\ f.kind # "call" => f.args = << >>
    /\ \A i \in 1..Len(f.args) : f.args[i].of = <<"args", i - 1>>
    /\ Holds(f) => f.held.of = <<FirstPlace[f.kind], 0>>

FrameSuits(f, m) ==
    /\ f.kind = "simple" /\ f.two => Suits("i1", f.want, m)
    /\ f.kind \in {"additive", "term"} /\ f.two => Suits("i32", f.want, m)
    /\ f.kind = "var" => HasElements(f.sym) /\ Suits("i32", f.want, m)
    /\ f.kind = "assign" => /\ f.sym \in Symbols
                            /\ f.sym.decl # "function"
                            /\ f.two <=> HasElements(f.sym)
    /\ f.kind = "call" => /\ Suits(f.sym.returns, f.want, m)
                          /\ f.argc = Len(f.sym.params)
                          /\ \A i \in 1..Len(f.args) :
                                i <= Len(f.sym.params)
                                  => Alike(f.args[i].ty, f.sym.params[i], m)
    /\ Holds(f) => Alike(f.held.ty, "i32", m)

FrameTyped(f, m) == FrameInPlace(f) /\ (Strict => FrameSuits(f, m))

(* The left operand of a comparison that waits on the stack. *)
LeftTyped(f, vs, m) ==
    f.at = "additive_r" => /\ vs[f.base + 1].of = <<"additive_l", 0>>
                           /\ Strict => Alike(vs[f.base + 1].ty, "i32", m)

(* The lowest b values are the same. *)
Same(vs, ws, b) == \A k \in 1..b : ws[k] = vs[k]

(* Every running visit, with the left operand that waits on the stack and  *)
(* the visit of its child.                                                 *)
FramesTyped(fs, vs, m) ==
    \A i \in 1..Len(fs) :
        /\ FrameTyped(fs[i], m)
        /\ LeftTyped(fs[i], vs, m)
        /\ \A j \in 1..Len(fs) :
              /\ j = i + 1 => fs[j].want = ChildRole(fs[i])
              /\ i < j => fs[j].base >= Height(fs[i])

(* The value the topmost visit is about to pop. *)
TopTyped(fs, vs, m) ==
    (fs # << >> /\ fs[Len(fs)].back /\ fs[Len(fs)].kind # "expression_stmt")
        => Answers(vs[Len(vs)], fs[Len(fs)], m)

(* An instruction has its operands. *)
Right(i, m) ==
    /\ \A n \in DOMAIN i.operands \cap DOMAIN i.like : i.operands[n].of = i.like[n].of
    /\ Strict => /\ Len(i.operands) = Len(i.like)
                 /\ \A n \in 1..Len(i.like) : Alike(i.operands[n].ty, i.like[n].ty, m)

Typed ==
    /\ FramesTyped(frames, values, mixed)
    /\ TopTyped(frames, values, mixed)
    /\ \A i \in emitted : Right(i, mixed)

TInv ==
    /\ Strict => ~nested
    /\ ~nested => Typed

(* What suits a program goes on to suit it when it turns out to be mixed.  *)
LEMMA FramesStayTyped ==
    ASSUME NEW fs, NEW vs, NEW m, NEW o, m => o, FramesTyped(fs, vs, m)
    PROVE  FramesTyped(fs, vs, o)
<1>1. \A ty, like : Alike(ty, like, m) => Alike(ty, like, o)
    BY DEF Alike
<1>2. \A ty, role : Suits(ty, role, m) => Suits(ty, role, o)
    BY <1>1 DEF Suits
<1>3. ASSUME NEW f, FrameSuits(f, m) PROVE FrameSuits(f, o)
    BY <1>1, <1>2, <1>3 DEF FrameSuits
<1>4. \A f : FrameTyped(f, m) => FrameTyped(f, o)
    BY <1>3 DEF FrameTyped
<1>5. \A f : LeftTyped(f, vs, m) => LeftTyped(f, vs, o)
    BY <1>1 DEF LeftTyped
<1> QED BY <1>4, <1>5 DEF FramesTyped

LEMMA HeightBounds ==
    ASSUME NEW f \in Frame
    PROVE  f.base \in Nat /\ Height(f) \in Nat /\ Height(f) >= f.base
           /\ Height(f) <= f.base + 1 /\ (f.at = "additive_r" => Height(f) = f.base + 1)
BY DEF Frame, Height

(* The topmost visit goes on, or is back from its child. *)
LEMMA ReplacedTyped ==
    ASSUME NEW m, NEW fs, FramesOK(fs), fs # << >>, NEW vs, NEW ws, FramesTyped(fs, vs, m),
           NEW g, FrameTyped(g, m), g \in Frame,
           g.base = fs[Len(fs)].base, g.want = fs[Len(fs)].want,
           LeftTyped(g, ws, m),
           Same(vs, ws, g.base)
    PROVE  FramesTyped([fs EXCEPT ![Len(fs)] = g], ws, m)
<1> DEFINE n == Len(fs)
           hs == [fs EXCEPT ![n] = g]
<1>1. n \in Nat /\ n >= 1 /\ fs \in Seq(Frame)
    BY DEF FramesOK
<1>2. Len(hs) = n /\ \A i \in 1..n : hs[i] = IF i = n THEN g ELSE fs[i]
    BY <1>1
<1>3. \A i \in 1..n : fs[i] \in Frame
    BY <1>1
<1>4. g.base = fs[n].base /\ g.want = fs[n].want
    OBVIOUS
<1>5. \A i \in 1..n :
        /\ FrameTyped(fs[i], m)
        /\ LeftTyped(fs[i], vs, m)
        /\ \A j \in 1..n : /\ j = i + 1 => fs[j].want = ChildRole(fs[i])
                           /\ i < j => fs[j].base >= Height(fs[i])
    BY DEF FramesTyped
<1> HIDE DEF n, hs
<1>6. ASSUME NEW i \in 1..n
      PROVE  /\ FrameTyped(hs[i], m)
             /\ LeftTyped(hs[i], ws, m)
             /\ \A j \in 1..n : /\ j = i + 1 => hs[j].want = ChildRole(hs[i])
                                /\ i < j => hs[j].base >= Height(hs[i])
    <2>1. CASE i = n
        <3>1. hs[i] = g /\ \A j \in 1..n : ~(j = i + 1) /\ ~(i < j)
            BY <2>1, <1>1, <1>2
        <3> QED BY <3>1
    <2>2. CASE i # n
        <3>1. hs[i] = fs[i] /\ i < n /\ n \in 1..n
            BY <2>2, <1>1, <1>2
        <3>2. \A j \in 1..n : hs[j].want = fs[j].want /\ hs[j].base = fs[j].base
            BY <1>2, <1>4
        <3>3. fs[n].base >= Height(fs[i])
            BY <3>1, <1>5
        <3>4. fs[i].at = "additive_r" => fs[i].base + 1 \in 1..g.base
            BY <3>1, <3>3, <1>3, <1>4, HeightBounds
        <3>5. LeftTyped(fs[i], ws, m)
            BY <3>4, <1>5 DEF LeftTyped, Same
        <3> QED BY <3>1, <3>2, <3>5, <1>5
    <2> QED BY <2>1, <2>2
<1>7. FramesTyped(hs, ws, m)
    BY <1>2, <1>6 DEF FramesTyped
<1> QED BY <1>7 DEF hs, n

(* A visit begins. *)
LEMMA EnteredTyped ==
    ASSUME NEW m, NEW fs, FramesOK(fs), NEW vs, FramesTyped(fs, vs, m),
           NEW g, FrameTyped(g, m), g \in Frame, g.at # "additive_r",
           fs # << >> => /\ g.want = ChildRole(fs[Len(fs)])
                         /\ g.base = Height(fs[Len(fs)])
    PROVE  FramesTyped(Append(fs, g), vs, m)
<1> DEFINE n == Len(fs)
           hs == Append(fs, g)
<1>1. n \in Nat /\ fs \in Seq(Frame) /\ (n = 0 <=> fs = << >>)
    BY DEF FramesOK
<1>2. Len(hs) = n + 1 /\ hs[n + 1] = g /\ \A i \in 1..n : hs[i] = fs[i]
    BY <1>1
<1>3. \A i \in 1..n : fs[i] \in Frame
    BY <1>1
<1>4. n # 0 => g.want = ChildRole(fs[n]) /\ g.base = Height(fs[n])
    BY <1>1
<1>5. \A i \in 1..n :
        /\ FrameTyped(fs[i], m)
        /\ LeftTyped(fs[i], vs, m)
        /\ \A j \in 1..n : /\ j = i + 1 => fs[j].want = ChildRole(fs[i])
                           /\ i < j => fs[j].base >= Height(fs[i])
    BY DEF FramesTyped
<1> HIDE DEF n, hs
<1>6. ASSUME NEW i \in 1..(n + 1)
      PROVE  /\ FrameTyped(hs[i], m)
             /\ LeftTyped(hs[i], vs, m)
             /\ \A j \in 1..(n + 1) : /\ j = i + 1 => hs[j].want = ChildRole(hs[i])
                                      /\ i < j => hs[j].base >= Height(hs[i])
    <2>1. CASE i = n + 1
        <3>1. hs[i] = g /\ \A j \in 1..(n + 1) : ~(j = i + 1) /\ ~(i < j)
            BY <2>1, <1>1, <1>2
        <3> QED BY <3>1 DEF LeftTyped
    <2>2. CASE i # n + 1
        <3>1. i \in 1..n /\ hs[i] = fs[i] /\ n \in 1..n /\ n # 0
            BY <2>2, <1>1, <1>2
        <3>2. ASSUME NEW j \in 1..(n + 1)
              PROVE  /\ j = i + 1 => hs[j].want = ChildRole(hs[i])
                     /\ i < j => hs[j].base >= Height(hs[i])
            <4>1. CASE j \in 1..n
                BY <4>1, <3>1, <1>2, <1>5
            <4>2. CASE j = n + 1
                <5>1. hs[j] = g /\ fs[n] \in Frame /\ fs[i] \in Frame
                    BY <4>2, <3>1, <1>2, <1>3
                <5>2. j = i + 1 => i = n
                    BY <4>2, <3>1, <1>1
                <5>3. i < n => fs[n].base >= Height(fs[i])
                    BY <3>1, <1>5
                <5>4. Height(fs[n]) >= Height(fs[i])
                    BY <5>1, <5>3, <3>1, <1>1, HeightBounds
                <5> QED BY <5>1, <5>2, <5>4, <3>1, <1>4
            <4> QED BY <4>1, <4>2, <1>1
        <3> QED BY <3>1, <3>2, <1>5
    <2> QED BY <2>1, <2>2
<1>7. FramesTyped(hs, vs, m)
    BY <1>2, <1>6 DEF FramesTyped
<1> QED BY <1>7 DEF hs, n

(* A visit is over and its record is gone. *)
LEMMA CallerTyped ==
    ASSUME NEW m, NEW fs, FramesOK(fs), fs # << >>, NEW vs, NEW ws, FramesTyped(fs, vs, m),
           Same(vs, ws, fs[Len(fs)].base)
    PROVE  FramesTyped(SubSeq(fs, 1, Len(fs) - 1), ws, m)
<1> DEFINE n == Len(fs)
           k == n - 1
           hs == SubSeq(fs, 1, k)
<1>1. /\ n \in Nat /\ n >= 1 /\ k \in Nat /\ k < n /\ fs \in Seq(Frame)
      /\ Len(hs) = k /\ \A i \in 1..k : hs[i] = fs[i]
    BY CallerFrames DEF FramesOK
<1>2. \A i \in 1..n : fs[i] \in Frame
    BY <1>1
<1>3. \A i \in 1..n :
        /\ FrameTyped(fs[i], m)
        /\ LeftTyped(fs[i], vs, m)
        /\ \A j \in 1..n : /\ j = i + 1 => fs[j].want = ChildRole(fs[i])
                           /\ i < j => fs[j].base >= Height(fs[i])
    BY DEF FramesTyped
<1>4. Same(vs, ws, fs[n].base)
    OBVIOUS
<1> HIDE DEF n, k, hs
<1>5. ASSUME NEW i \in 1..k
      PROVE  LeftTyped(hs[i], ws, m)
    <2>1. i \in 1..n /\ n \in 1..n /\ i < n /\ hs[i] = fs[i]
        BY <1>1
    <2>2. fs[n].base >= Height(fs[i])
        BY <2>1, <1>3
    <2>3. fs[i].at = "additive_r" => fs[i].base + 1 \in 1..fs[n].base
        BY <2>1, <2>2, <1>2, HeightBounds
    <2> QED BY <2>1, <2>3, <1>3, <1>4 DEF LeftTyped, Same
<1>6. \A i \in 1..k : i \in 1..n
    BY <1>1
<1>7. FramesTyped(hs, ws, m)
    BY <1>1, <1>3, <1>5, <1>6 DEF FramesTyped
<1> QED BY <1>7 DEF hs, k, n

(* The caller goes on with the value of the child. *)
LEMMA ResumedTyped ==
    ASSUME NEW m, NEW fs, FramesOK(fs), NEW vs, NEW ws, FramesTyped(fs, vs, m),
           fs # << >> => /\ Same(vs, ws, Height(fs[Len(fs)]))
                         /\ fs[Len(fs)].kind # "expression_stmt" =>
                               Answers(ws[Len(ws)], fs[Len(fs)], m)
    PROVE  FramesTyped(Resumed(fs), ws, m) /\ TopTyped(Resumed(fs), ws, m)
<1>1. CASE fs = << >>
    BY <1>1 DEF Resumed, FramesTyped, TopTyped
<1>2. CASE fs # << >>
    <2> DEFINE n == Len(fs)
               f == fs[n]
               g == [f EXCEPT !.back = TRUE]
               hs == [fs EXCEPT ![n] = g]
    <2>1. n \in 1..n /\ n \in Nat /\ n >= 1 /\ fs \in Seq(Frame) /\ f \in Frame
        BY <1>2 DEF FramesOK, FrameOK
    <2>2. /\ g \in Frame /\ g.kind = f.kind /\ g.at = f.at /\ g.base = f.base
          /\ g.want = f.want /\ g.two = f.two /\ g.held = f.held /\ g.argc = f.argc
          /\ g.args = f.args /\ g.sym = f.sym
        BY <2>1 DEF Frame
    <2>3. FrameTyped(f, m) /\ LeftTyped(f, vs, m)
        BY <2>1 DEF FramesTyped
    <2>4. Same(vs, ws, Height(f))
        BY <1>2
    <2>5. f.kind # "expression_stmt" => Answers(ws[Len(ws)], f, m)
        BY <1>2
    <2>7. Resumed(fs) = hs
        BY <1>2 DEF Resumed
    <2>8. f.base \in Nat /\ Height(f) \in Nat /\ Height(f) >= f.base
          /\ (f.at = "additive_r" => Height(f) = f.base + 1)
        BY <2>1, HeightBounds
    <2>9. g.base = fs[Len(fs)].base /\ g.want = fs[Len(fs)].want
        BY <2>2
    <2> HIDE DEF g, f
    <2>6. Len(hs) = n /\ hs[n] = g /\ hs # << >>
        BY <2>1
    <2> HIDE DEF hs
    <2>10. FrameTyped(g, m)
        BY <2>2, <2>3 DEF FrameTyped, FrameInPlace, FrameSuits, Holds
    <2>11. Same(vs, ws, g.base)
        BY <2>2, <2>4, <2>8 DEF Same
    <2>12. LeftTyped(g, ws, m)
        <3> SUFFICES ASSUME g.at = "additive_r" PROVE LeftTyped(g, ws, m)
            BY DEF LeftTyped
        <3>1. f.base + 1 \in 1..Height(f)
            BY <2>2, <2>8
        <3>2. ws[g.base + 1] = vs[f.base + 1]
            BY <3>1, <2>2, <2>4 DEF Same
        <3> QED BY <3>2, <2>2, <2>3 DEF LeftTyped
    <2>13. FramesTyped(hs, ws, m)
        BY <1>2, <2>2, <2>9, <2>10, <2>11, <2>12, ReplacedTyped DEF hs
    <2>14. ChildRole(g) = ChildRole(f) /\ PlaceAt(g) = PlaceAt(f)
        BY <2>2 DEF ChildRole, PlaceAt
    <2>15. TopTyped(hs, ws, m)
        BY <2>2, <2>5, <2>6, <2>14 DEF TopTyped, Answers
    <2> QED BY <2>7, <2>13, <2>15
<1> QED BY <1>1, <1>2

(* The shapes of a step.  A visit begins: *)
LEMMA EnterKeepsTyped ==
    ASSUME IInv, Typed, ~nested, status = "run", frames = << >> \/ ~Top.back,
           NEW kind, NEW at, NEW role, NEW two, NEW sym, NEW argc, NEW cost,
           Enter(kind, at, role, two, sym, argc, cost), IInv',
           at # "additive_r", mixed => mixed',
           frames # << >> => role = Role,
           FrameTyped([kind |-> kind, at |-> at, back |-> FALSE, base |-> Len(values),
                       want |-> role, two |-> two, held |-> NoValue, argc |-> argc,
                       args |-> << >>, sym |-> sym], mixed')
    PROVE  Typed'
<1> DEFINE g == [kind |-> kind, at |-> at, back |-> FALSE, base |-> Len(values),
                 want |-> role, two |-> two, held |-> NoValue, argc |-> argc,
                 args |-> << >>, sym |-> sym]
           o == mixed'
<1>1. /\ g.base = Len(values) /\ g.want = role /\ g.at = at /\ ~g.back /\ FrameTyped(g, o)
    OBVIOUS
<1> HIDE DEF g
<1>2. /\ frames' = Append(frames, g) /\ values' = values /\ emitted' = {}
    BY DEF Enter, g
<1>3. FramesOK(frames) /\ frames \in Seq(Frame) /\ frames' \in Seq(Frame)
    BY DEF IInv, TypeOK
<1>4. Len(frames') = Len(frames) + 1 /\ frames'[Len(frames')] = g /\ frames' # << >>
    BY <1>2, <1>3
<1>5. g \in Frame
    <2>1. Len(frames') \in 1..Len(frames')
        BY <1>3, <1>4
    <2> QED BY <2>1, <1>3, <1>4
<1>6. frames # << >> => g.base = Height(frames[Len(frames)])
    BY <1>1, TopFacts DEF TopBalanced, Top
<1>7. frames # << >> => g.want = ChildRole(frames[Len(frames)])
    BY <1>1 DEF Role, Top
<1>8. FramesTyped(frames, values, o)
    BY FramesStayTyped DEF Typed
<1> HIDE DEF o
<1>9. FramesTyped(Append(frames, g), values, o)
    BY <1>1, <1>3, <1>5, <1>6, <1>7, <1>8, EnteredTyped
<1>10. TopTyped(frames', values', o)
    BY <1>1, <1>4 DEF TopTyped
<1> QED BY <1>2, <1>9, <1>10 DEF Typed, o

(* the running visit goes on to its next child: *)
LEMMA GoOnKeepsTyped ==
    ASSUME IInv, Typed, frames # << >>,
           NEW g \in Frame, FrameTyped(g, mixed), g.base = Top.base, g.want = Top.want,
           ~g.back,
           frames' = [frames EXCEPT ![Len(frames)] = g],
           LeftTyped(g, values', mixed), Same(values, values', Top.base),
           emitted' = {}, mixed' = mixed
    PROVE  Typed'
<1>1. FramesOK(frames) /\ frames \in Seq(Frame) /\ FramesTyped(frames, values, mixed)
    BY DEF IInv, TypeOK, Typed
<1> DEFINE hs == [frames EXCEPT ![Len(frames)] = g]
           ws == values'
<1>2. FramesTyped(hs, ws, mixed)
    BY <1>1, ReplacedTyped DEF Top
<1>3. Len(hs) = Len(frames) /\ hs[Len(hs)] = g
    BY <1>1
<1> HIDE DEF hs
<1>4. TopTyped(hs, ws, mixed)
    BY <1>3 DEF TopTyped
<1>5. frames' = hs
    BY DEF hs
<1> QED BY <1>2, <1>4, <1>5 DEF Typed

(* a visit ends: *)
LEMMA ReturnKeepsTyped ==
    ASSUME IInv, Typed, ~nested, frames # << >>, frames' = Returned,
           Same(values, values', Top.base),
           Top.kind \notin StatementKinds \cup {"assign"} =>
               \E ty : /\ values'[Len(values')] = Result(ty)
                       /\ Strict => Suits(ty, Top.want, mixed),
           \A i \in emitted' : Right(i, mixed), mixed' = mixed
    PROVE  Typed'
<1> DEFINE n == Len(frames)
           hs == SubSeq(frames, 1, n - 1)
           ws == values'
<1>1. /\ FramesOK(frames) /\ frames \in Seq(Frame) /\ FramesTyped(frames, values, mixed)
      /\ Balanced(frames, Len(values)) /\ n \in Nat /\ n >= 1
    BY DEF IInv, TypeOK, Typed
<1>2. /\ Len(hs) = n - 1 /\ FramesOK(hs)
      /\ \A i \in 1..(n - 1) : hs[i] = frames[i]
    BY <1>1, CallerFrames
<1>3. FramesTyped(hs, ws, mixed)
    BY <1>1, CallerTyped DEF Top
<1> HIDE DEF hs
<1>4. ASSUME hs # << >>
      PROVE  /\ Same(ws, ws, Height(hs[Len(hs)]))
             /\ hs[Len(hs)].kind # "expression_stmt" =>
                   Answers(ws[Len(ws)], hs[Len(hs)], mixed)
    <2>1. n > 1 /\ n - 1 \in 1..n /\ n \in 1..n /\ n = (n - 1) + 1
          /\ Len(hs) = n - 1 /\ hs[Len(hs)] = frames[n - 1]
        <3>1. n # 1
            BY <1>2, <1>4 DEF FramesOK
        <3> QED BY <3>1, <1>1, <1>2
    <2>2. Top.want = ChildRole(frames[n - 1])
        BY <2>1, <1>1 DEF FramesTyped, Top
    <2>3. Top.kind \notin StatementKinds
        BY <2>1, <1>1 DEF FramesOK, Top
    <2>4. Top.kind = "assign" => hs[Len(hs)].kind = "expression_stmt"
        <3> HAVE Top.kind = "assign"
        <3>1. n = 2 /\ frames[1].kind = "expression_stmt"
            BY <2>1, <1>1 DEF Balanced, Top
        <3> QED BY <3>1, <2>1
    <2>5. hs[Len(hs)].kind # "expression_stmt" => Answers(ws[Len(ws)], hs[Len(hs)], mixed)
        <3> HAVE hs[Len(hs)].kind # "expression_stmt"
        <3>1. PICK ty : /\ values'[Len(values')] = Result(ty)
                        /\ Strict => Suits(ty, Top.want, mixed)
            BY <2>3, <2>4
        <3>2. /\ ws[Len(ws)].ty = ty
              /\ ws[Len(ws)].of = PlaceAt(hs[Len(hs)])
            BY <3>1, <2>1 DEF Result, Handed
        <3> QED BY <3>1, <3>2, <2>1, <2>2 DEF Answers
    <2> QED BY <2>5 DEF Same
<1>5. FramesTyped(Resumed(hs), ws, mixed) /\ TopTyped(Resumed(hs), ws, mixed)
    BY <1>2, <1>3, <1>4, ResumedTyped
<1>6. frames' = Resumed(hs)
    BY DEF Returned, hs
<1> QED BY <1>5, <1>6 DEF Typed

(* or a factor that visits nothing leaves its value. *)
LEMMA LeafKeepsTyped ==
    ASSUME IInv, Typed, ~nested, AtFactor, NEW instrs, NEW ty \in Type, Leaf(instrs, ty),
           Strict => Suits(ty, Role, mixed'), \A i \in instrs : Right(i, mixed')
    PROVE  Typed'
<1>1. /\ frames # << >> /\ ~Top.back /\ FramesOK(frames)
      /\ values \in Seq(Value) /\ Len(values) \in Nat /\ Handed(ty, Top) \in Value
    BY TopFacts, HandedTyped DEF AtFactor, AtChild, IInv, TypeOK
<1>2. /\ frames' = Resumed(frames) /\ values' = Append(values, Handed(ty, Top))
      /\ emitted' = instrs /\ (mixed => mixed')
    BY DEF Leaf
<1>3. Height(Top) = Len(values)
    BY <1>1, TopFacts DEF TopBalanced
<1> DEFINE ws == values'
           o == mixed'
<1>4. /\ Len(ws) = Len(values) + 1 /\ ws[Len(ws)] = Handed(ty, Top)
      /\ Same(values, ws, Len(values))
    BY <1>1, <1>2 DEF Same
<1>7. FramesTyped(frames, values, o)
    BY <1>2, FramesStayTyped DEF Typed
<1>8. Strict => Suits(ty, Role, o)
    OBVIOUS
<1> HIDE DEF ws, o
<1>5. Same(values, ws, Height(Top)) /\ Answers(ws[Len(ws)], Top, o)
    BY <1>3, <1>4, <1>8 DEF Role, Answers, Handed
<1>6. FramesTyped(Resumed(frames), ws, o) /\ TopTyped(Resumed(frames), ws, o)
    BY <1>1, <1>5, <1>7, ResumedTyped DEF Top
<1> QED BY <1>2, <1>6 DEF Typed, ws, o

-----------------------------------------------------------------------------
(* The instructions, from their operands. *)
LEMMA RightOne ==
    ASSUME NEW op, NEW v, NEW w, NEW m, v.of = w.of, Strict => Alike(v.ty, w.ty, m)
    PROVE  Right(Instr(op, <<v>>, <<w>>), m)
BY DEF Right, Instr

LEMMA RightTwo ==
    ASSUME NEW op, NEW v1, NEW v2, NEW w1, NEW w2, NEW m,
           v1.of = w1.of, v2.of = w2.of,
           Strict => Alike(v1.ty, w1.ty, m) /\ Alike(v2.ty, w2.ty, m)
    PROVE  Right(Instr(op, <<v1, v2>>, <<w1, w2>>), m)
BY DEF Right, Instr

LEMMA LoadIsRight ==
    ASSUME NEW ty, NEW m, Strict => ty # "function"
    PROVE  Right(Load(ty), m)
<1>1. /\ Known(ty).of = Known(IF ty = "function" THEN "i32" ELSE ty).of
      /\ Strict => Alike(Known(ty).ty, Known(IF ty = "function" THEN "i32" ELSE ty).ty, m)
    BY DEF Known, Alike
<1> QED BY <1>1, RightOne DEF Load

(* visit(syntax_param) names what is passed as a pointer, and only a       *)
(* parameter has such a name.                                              *)
LEMMA NamesTellParameters ==
    ASSUME NEW sym \in Symbols, HasElements(sym)
    PROVE  Pointee(sym) = IF Tagged(sym) THEN "i32*" ELSE "array"
BY SymbolsAreSymbols DEF Symbol, HasElements, Pointee, Tagged

(* The address of an element of a named array. *)
LEMMA ElementAddressIsRight ==
    ASSUME NEW sym \in Symbols, NEW v, NEW w, NEW m, v.of = w.of,
           Strict => HasElements(sym) /\ Alike(v.ty, w.ty, m)
    PROVE  \A i \in ElementAddress(sym, v, w) : Right(i, m)
<1> DEFINE base == Known(Pointee(sym))
           like == Known(IF Tagged(sym) THEN "i32*" ELSE "array")
           gep == Instr("gep", <<base, v>>, <<like, w>>)
<1>1. base.of = like.of /\ (Strict => Alike(base.ty, like.ty, m))
    BY NamesTellParameters DEF Known, Alike
<1> HIDE DEF base, like
<1>2. Right(gep, m)
    BY <1>1, RightTwo
<1>3. Strict => Pointee(sym) # "function"
    BY DEF HasElements
<1>4. Right(Load(Pointee(sym)), m)
    BY <1>3, LoadIsRight
<1>5. ElementAddress(sym, v, w) = {gep} \cup (IF Tagged(sym) THEN {Load(Pointee(sym))} ELSE {})
    BY DEF ElementAddress, base, like
<1> HIDE DEF gep
<1> QED BY <1>2, <1>4, <1>5

-----------------------------------------------------------------------------
(* A number suits every role but the address of an array, and a condition  *)
(* once the program is mixed; a comparison serves as a number then.         *)
LEMMA NumberSuits ==
    ASSUME NEW role \in Roles, role # "i32*", NEW m \in BOOLEAN, role = "cond" => m
    PROVE  Suits("i32", role, m)
BY DEF Suits, Alike, Roles, Number

LEMMA ComparisonSuits ==
    ASSUME NEW role \in Roles, role # "i32*", NEW m \in BOOLEAN, role = "i32" => m
    PROVE  Suits("i1", role, m)
BY DEF Suits, Alike, Roles, Number

(* The visits that begin. *)
LEMMA VisitsKeepTyped ==
    ASSUME IInv, Typed, ~nested', IInv',
           \/ \E kind \in StatementKinds : VisitStatement(kind)
           \/ \E sym \in Symbols \cup {NoSymbol}, subscripted \in BOOLEAN :
                 VisitAssign(sym, subscripted)
           \/ \E two \in BOOLEAN : VisitSimple(two)
           \/ \E two \in BOOLEAN : VisitAdditive(two)
           \/ \E two \in BOOLEAN : VisitTerm(two)
           \/ \E sym \in Symbols : VisitElement(sym)
           \/ \E sym \in Symbols \cup {NoSymbol}, argc \in 0..nodes : VisitCall(sym, argc)
    PROVE  Typed'
<1> DEFINE Entered(kind, at, role, two, sym, argc) ==
               [kind |-> kind, at |-> at, back |-> FALSE, base |-> Len(values),
                want |-> role, two |-> two, held |-> NoValue, argc |-> argc,
                args |-> << >>, sym |-> sym]
<1>1. /\ ~nested /\ mixed' \in BOOLEAN
      /\ frames # << >> => Role \in Roles
    BY RoleType DEF IInv, TypeOK, VisitStatement, VisitAssign, VisitSimple, VisitAdditive, VisitTerm,
           VisitElement, VisitCall
<1>2. ASSUME NEW kind \in StatementKinds, VisitStatement(kind)
      PROVE  Typed'
    <2>1. Enter(kind, "expression", "stmt", FALSE, NoSymbol, 0, 1)
        BY <1>2 DEF VisitStatement
    <2>2. FrameTyped(Entered(kind, "expression", "stmt", FALSE, NoSymbol, 0), mixed')
        BY DEF FrameTyped, FrameInPlace, FrameSuits, Holds, StatementKinds
    <2>3. status = "run" /\ frames = << >> /\ mixed' = mixed
        BY <1>2 DEF VisitStatement, Idle
    <2> QED BY <1>1, <2>1, <2>2, <2>3, EnterKeepsTyped
<1>3. ASSUME NEW sym \in Symbols \cup {NoSymbol}, NEW two \in BOOLEAN,
             VisitAssign(sym, two)
      PROVE  Typed'
    <2>1. /\ Enter("assign", "expression", Role, two, sym, 0, 1)
          /\ status = "run" /\ frames # << >> /\ ~Top.back /\ mixed' = mixed
          /\ Strict => sym \in Symbols /\ sym.decl # "function"
        BY <1>3 DEF VisitAssign, AtExpression, AtFactor, AtChild
    <2>2. Strict => (two <=> HasElements(sym))
        BY <1>3, Zenon DEF VisitAssign
    <2>3. FrameTyped(Entered("assign", "expression", Role, two, sym, 0), mixed')
        BY <2>1, <2>2 DEF FrameTyped, FrameInPlace, FrameSuits, Holds
    <2> QED BY <1>1, <2>1, <2>3, EnterKeepsTyped
<1>4. ASSUME NEW two \in BOOLEAN, VisitSimple(two)
      PROVE  Typed'
    <2>1. /\ status = "run" /\ frames # << >> /\ ~Top.back
          /\ Strict /\ two => Role # "i32*"
          /\ (mixed => mixed') /\ (two /\ Role = "i32" => mixed')
        BY <1>4 DEF VisitSimple, AtExpression, AtFactor, AtChild
    <2>2. PICK cost : Enter("simple", "additive_l", Role, two, NoSymbol, 0, cost)
        BY <1>4 DEF VisitSimple
    <2>3. Strict /\ two => Suits("i1", Role, mixed')
        BY <1>1, <2>1, ComparisonSuits
    <2>4. FrameTyped(Entered("simple", "additive_l", Role, two, NoSymbol, 0), mixed')
        BY <2>3 DEF FrameTyped, FrameInPlace, FrameSuits, Holds
    <2> QED BY <1>1, <2>1, <2>2, <2>4, EnterKeepsTyped
<1>5. ASSUME NEW two \in BOOLEAN, VisitAdditive(two)
      PROVE  Typed'
    <2> DEFINE at == IF two THEN "additive" ELSE "term"
    <2>1. /\ status = "run" /\ frames # << >> /\ ~Top.back
          /\ Strict /\ two => Role # "i32*"
          /\ (mixed => mixed') /\ (two /\ Role = "cond" => mixed')
        BY <1>5 DEF VisitAdditive, AtAdditive, AtChild
    <2>2. PICK cost : Enter("additive", at, Role, two, NoSymbol, 0, cost)
        BY <1>5 DEF VisitAdditive
    <2>3. Strict /\ two => Suits("i32", Role, mixed')
        BY <1>1, <2>1, NumberSuits
    <2>5. at \in {"additive", "term"} /\ (at = "term" => ~two)
        OBVIOUS
    <2> HIDE DEF at
    <2>4. FrameTyped(Entered("additive", at, Role, two, NoSymbol, 0), mixed')
        BY <2>3, <2>5 DEF FrameTyped, FrameInPlace, FrameSuits, Holds
    <2> QED BY <1>1, <2>1, <2>2, <2>4, <2>5, EnterKeepsTyped
<1>6. ASSUME NEW two \in BOOLEAN, VisitTerm(two)
      PROVE  Typed'
    <2>1. /\ status = "run" /\ frames # << >> /\ ~Top.back
          /\ Strict /\ two => Role # "i32*"
          /\ (mixed => mixed') /\ (two /\ Role = "cond" => mixed')
        BY <1>6 DEF VisitTerm, AtTerm, AtChild
    <2>2. PICK cost : Enter("term", "factor", Role, two, NoSymbol, 0, cost)
        BY <1>6 DEF VisitTerm
    <2>3. Strict /\ two => Suits("i32", Role, mixed')
        BY <1>1, <2>1, NumberSuits
    <2>4. FrameTyped(Entered("term", "factor", Role, two, NoSymbol, 0), mixed')
        BY <2>3 DEF FrameTyped, FrameInPlace, FrameSuits, Holds
    <2> QED BY <1>1, <2>1, <2>2, <2>4, EnterKeepsTyped
<1>7. ASSUME NEW sym \in Symbols, VisitElement(sym)
      PROVE  Typed'
    <2>1. /\ Enter("var", "subscript", Role, TRUE, sym, 0, 1)
          /\ status = "run" /\ frames # << >> /\ ~Top.back
          /\ HasElements(sym) /\ (Strict => Role # "i32*")
          /\ (mixed => mixed') /\ (Role = "cond" => mixed')
        BY <1>7 DEF VisitElement, AtFactor, AtChild
    <2>2. Strict => Suits("i32", Role, mixed')
        BY <1>1, <2>1, NumberSuits
    <2>3. FrameTyped(Entered("var", "subscript", Role, TRUE, sym, 0), mixed')
        BY <2>1, <2>2 DEF FrameTyped, FrameInPlace, FrameSuits, Holds
    <2> QED BY <1>1, <2>1, <2>3, EnterKeepsTyped
<1>8. ASSUME NEW sym \in Symbols \cup {NoSymbol}, NEW argc \in 0..nodes,
             VisitCall(sym, argc)
      PROVE  Typed'
    <2>1. /\ Enter("call", "args", Role, FALSE, sym, argc, 1 + argc)
          /\ status = "run" /\ frames # << >> /\ ~Top.back
          /\ Strict => /\ sym \in Symbols /\ argc = Len(sym.params) /\ Role # "i32*"
                       /\ sym.returns = "void" => Role = "stmt"
          /\ (mixed => mixed') /\ (Role = "cond" => mixed')
        BY <1>8 DEF VisitCall, AtFactor, AtChild
    <2>2. Strict => sym.returns \in {"i32", "void"}
        BY <2>1, SymbolsAreSymbols DEF Symbol
    <2>3. Strict => Suits(sym.returns, Role, mixed')
        BY <1>1, <2>1, <2>2, NumberSuits DEF Suits
    <2>4. Len(<< >>) = 0
        OBVIOUS
    <2>5. FrameTyped(Entered("call", "args", Role, FALSE, sym, argc), mixed')
        BY <2>1, <2>3, <2>4 DEF FrameTyped, FrameInPlace, FrameSuits, Holds
    <2> QED BY <1>1, <2>1, <2>5, EnterKeepsTyped
<1> QED BY <1>2, <1>3, <1>4, <1>5, <1>6, <1>7, <1>8

(* What a visit finds and leaves when it pops one value, *)
LEMMA PopOneTyped ==
    ASSUME IInv, Typed, ~nested, frames # << >>, Top.back, Pops(Top) = 1
    PROVE  /\ TopValue \in Value /\ Answers(TopValue, Top, mixed)
           /\ Popped(1) \in Seq(Value) /\ Same(values, Popped(1), Top.base)
           /\ \A v \in Value : LET ws == Append(Popped(1), v)
                               IN  ws[Len(ws)] = v /\ Same(values, ws, Top.base)
<1>1. Enough /\ Len(values) = Top.base + 1 /\ Top.base \in Nat /\ Top.kind # "expression_stmt"
    BY EnoughIfNotNested, OwnOperands, TopFacts DEF Frame, Pops
<1>2. /\ TopValue \in Value /\ Popped(1) \in Seq(Value)
      /\ Len(Popped(1)) = Len(values) - 1
      /\ \A i \in 1..(Len(values) - 1) : Popped(1)[i] = values[i]
    BY <1>1, PopFacts
<1>3. Answers(TopValue, Top, mixed)
    BY <1>1 DEF Typed, TopTyped, TopValue, Top
<1>4. Len(Popped(1)) = Top.base /\ Same(values, Popped(1), Top.base)
    BY <1>1, <1>2 DEF Same
<1>5. ASSUME NEW v \in Value
      PROVE  LET ws == Append(Popped(1), v)
             IN  ws[Len(ws)] = v /\ Same(values, ws, Top.base)
    BY <1>1, <1>2, <1>4 DEF Same
<1> QED BY <1>2, <1>3, <1>4, <1>5

(* and when a comparison pops both operands. *)
LEMMA PopTwoTyped ==
    ASSUME IInv, Typed, ~nested, frames # << >>, Top.back, Pops(Top) = 2
    PROVE  /\ TopValue \in Value /\ Answers(TopValue, Top, mixed)
           /\ values[Len(values) - 1].of = <<"additive_l", 0>>
           /\ Strict => Alike(values[Len(values) - 1].ty, "i32", mixed)
           /\ \A v \in Value : LET ws == Append(Popped(2), v)
                               IN  ws[Len(ws)] = v /\ Same(values, ws, Top.base)
<1>1. /\ Enough /\ Len(values) = Top.base + 2 /\ Top.base \in Nat
      /\ Top.kind = "simple" /\ Top.two /\ Top.at = "additive_r"
    BY EnoughIfNotNested, OwnOperands, TopFacts DEF Frame, FrameOK, AtsOf, Pops
<1>2. /\ Popped(2) \in Seq(Value)
      /\ Len(Popped(2)) = Len(values) - 2
      /\ \A i \in 1..(Len(values) - 2) : Popped(2)[i] = values[i]
    BY <1>1, PopTwoFacts
<1>3. TopValue \in Value
    BY <1>1, PopFacts
<1>4. Answers(TopValue, Top, mixed)
    BY <1>1 DEF Typed, TopTyped, TopValue, Top
<1>5. LeftTyped(Top, values, mixed)
    BY TopFacts DEF Typed, FramesTyped, Top
<1>6. /\ values[Len(values) - 1].of = <<"additive_l", 0>>
      /\ Strict => Alike(values[Len(values) - 1].ty, "i32", mixed)
    <2>1. Top.base + 1 = Len(values) - 1
        BY <1>1
    <2> QED BY <2>1, <1>1, <1>5 DEF LeftTyped
<1>7. ASSUME NEW v \in Value
      PROVE  LET ws == Append(Popped(2), v)
             IN  ws[Len(ws)] = v /\ Same(values, ws, Top.base)
    BY <1>1, <1>2 DEF Same
<1> QED BY <1>3, <1>4, <1>6, <1>7

(* What is known of the topmost visit and of the roles of its children.    *)
LEMMA TopFrameTyped ==
    ASSUME IInv, Typed, frames # << >>
    PROVE  /\ FrameTyped(Top, mixed) /\ Top.want \in Roles
           /\ Top.kind # "call" => PlaceAt(Top) = <<Top.at, 0>>
<1>1. FrameTyped(Top, mixed)
    BY TopFacts DEF Typed, FramesTyped, Top
<1>2. Top.want \in Roles
    BY TopFacts DEF Frame, Roles
<1>3. Len(<< >>) = 0
    OBVIOUS
<1> QED BY <1>1, <1>2, <1>3 DEF FrameTyped, FrameInPlace, PlaceAt

LEMMA NumberAsked ==
    ASSUME NEW v, NEW f, NEW m, Answers(v, f, m), Strict,
           \/ f.kind \in {"return", "assign", "var"}
           \/ f.kind \in {"simple", "additive", "term"} /\ f.two
    PROVE  Alike(v.ty, "i32", m)
<1>1. ChildRole(f) = "i32"
    BY DEF ChildRole
<1> QED BY <1>1 DEF Answers, Suits

(* The visits that go on to their second child. *)
LEMMA GoingOnKeepsTyped ==
    ASSUME IInv, Typed, ~nested,
           AssignSubscript \/ SimpleRight \/ SecondOperand \/ CallArgument
    PROVE  Typed'
<1>1. status = "run" /\ frames # << >> /\ Top.back
    BY DEF AssignSubscript, SimpleRight, SecondOperand, CallArgument, Back
<1>2. FrameOK(Top) /\ Top \in Frame /\ Len(frames) \in 1..Len(frames)
      /\ values \in Seq(Value) /\ Len(values) \in Nat
    BY <1>1, TopFacts
<1>3. /\ FrameInPlace(Top) /\ (Strict => FrameSuits(Top, mixed))
      /\ Top.kind # "call" => PlaceAt(Top) = <<Top.at, 0>>
    BY <1>1, TopFrameTyped DEF FrameTyped
<1>4. CASE AssignSubscript
    <2> DEFINE g == [[Top EXCEPT !.held = TopValue, !.at = "subscript"] EXCEPT !.back = FALSE]
    <2>1. Top.kind = "assign" /\ Top.at = "expression" /\ Top.two /\ Pops(Top) = 1
          /\ values' = Popped(1) /\ frames' = [frames EXCEPT ![Len(frames)] = g]
          /\ emitted' = {} /\ mixed' = mixed
        BY <1>1, <1>4 DEF AssignSubscript, Back, Pops, GoneOn, program
    <2>2. TopValue \in Value /\ Answers(TopValue, Top, mixed) /\ Same(values, values', Top.base)
        BY <2>1, <1>1, PopOneTyped
    <2>3. TopValue.of = <<"expression", 0>> /\ (Strict => Alike(TopValue.ty, "i32", mixed))
        BY <2>1, <2>2, <1>3, NumberAsked DEF Answers
    <2>4. /\ g \in Frame /\ g.kind = "assign" /\ g.at = "subscript" /\ g.two = Top.two
          /\ g.held = TopValue /\ g.base = Top.base /\ g.want = Top.want /\ g.sym = Top.sym
          /\ ~g.back /\ g.args = Top.args
        BY <2>1, <2>2, <1>2 DEF Frame, Place
    <2> HIDE DEF g
    <2>5. FrameInPlace(g)
        BY <2>1, <2>3, <2>4, <1>3 DEF FrameInPlace, FirstPlace
    <2>6. Strict => FrameSuits(g, mixed)
        BY <2>1, <2>3, <2>4, <1>3 DEF FrameSuits
    <2>7. FrameTyped(g, mixed) /\ LeftTyped(g, values', mixed)
        BY <2>4, <2>5, <2>6 DEF FrameTyped, LeftTyped
    <2> QED BY <2>1, <2>2, <2>4, <2>7, <1>1, GoOnKeepsTyped
<1>5. CASE SimpleRight
    <2> DEFINE g == [[Top EXCEPT !.at = "additive_r"] EXCEPT !.back = FALSE]
    <2>1. Top.kind = "simple" /\ Top.at = "additive_l" /\ Top.two /\ values' = values
          /\ frames' = [frames EXCEPT ![Len(frames)] = g]
          /\ emitted' = {} /\ mixed' = mixed
        BY <1>1, <1>5 DEF SimpleRight, Back, GoneOn, program
    <2>2. Answers(values[Len(values)], Top, mixed)
        BY <2>1, <1>1 DEF Typed, TopTyped, Top
    <2>3. Len(values) = Top.base + 1
        BY <2>1, <1>1, <1>2, TopFacts DEF TopBalanced, Height, Frame
    <2>4. /\ values[Top.base + 1].of = <<"additive_l", 0>>
          /\ Strict => Alike(values[Top.base + 1].ty, "i32", mixed)
        BY <2>1, <2>2, <2>3, <1>3, NumberAsked DEF Answers
    <2>5. /\ g \in Frame /\ g.kind = Top.kind /\ g.at = "additive_r" /\ g.two = Top.two
          /\ g.base = Top.base /\ g.want = Top.want /\ ~g.back /\ g.args = Top.args
        BY <1>2 DEF Frame, Place
    <2> HIDE DEF g
    <2>6. ~Holds(g)
        BY <2>1, <2>5 DEF Holds
    <2>7. FrameTyped(g, mixed) /\ LeftTyped(g, values', mixed)
        BY <2>1, <2>4, <2>5, <2>6, <1>3
           DEF FrameTyped, FrameInPlace, FrameSuits, LeftTyped
    <2>8. Same(values, values', Top.base)
        BY <2>1 DEF Same
    <2> QED BY <2>1, <2>5, <2>7, <2>8, <1>1, GoOnKeepsTyped
<1>6. CASE SecondOperand
    <2> DEFINE g == [[Top EXCEPT !.held = TopValue, !.at = "term"] EXCEPT !.back = FALSE]
    <2>1. \/ Top.kind = "additive" /\ Top.at = "additive"
          \/ Top.kind = "term" /\ Top.at = "factor" /\ Top.two
        BY <1>6 DEF SecondOperand, Back
    <2>2. Top.two /\ Pops(Top) = 1 /\ Top.kind \in {"additive", "term"}
        BY <2>1, <1>1, <1>2 DEF FrameOK, Pops
    <2>3. values' = Popped(1)
          /\ frames' = [frames EXCEPT ![Len(frames)] = g]
          /\ emitted' = {} /\ mixed' = mixed
        BY <1>6 DEF SecondOperand, GoneOn, program
    <2>4. TopValue \in Value /\ Answers(TopValue, Top, mixed) /\ Same(values, values', Top.base)
        BY <2>2, <2>3, <1>1, PopOneTyped
    <2>5. TopValue.of = <<Top.at, 0>> /\ (Strict => Alike(TopValue.ty, "i32", mixed))
        BY <2>2, <2>4, <1>3, NumberAsked DEF Answers
    <2>6. Top.at = FirstPlace[Top.kind]
        BY <2>1 DEF FirstPlace
    <2>7. /\ g \in Frame /\ g.kind = Top.kind /\ g.at = "term" /\ g.two = Top.two
          /\ g.held = TopValue /\ g.base = Top.base /\ g.want = Top.want /\ ~g.back
          /\ g.args = Top.args
        BY <2>4, <1>2 DEF Frame, Place
    <2> HIDE DEF g
    <2>8. FrameInPlace(g)
        BY <2>2, <2>5, <2>6, <2>7, <1>3 DEF FrameInPlace
    <2>9. Strict => FrameSuits(g, mixed)
        BY <2>2, <2>5, <2>7, <1>3 DEF FrameSuits
    <2>10. FrameTyped(g, mixed) /\ LeftTyped(g, values', mixed)
        BY <2>7, <2>8, <2>9 DEF FrameTyped, LeftTyped
    <2> QED BY <2>3, <2>4, <2>7, <2>10, <1>1, GoOnKeepsTyped
<1>7. CASE CallArgument
    <2> DEFINE g == [[Top EXCEPT !.args = Append(@, TopValue)] EXCEPT !.back = FALSE]
               n == Len(Top.args)
               k == Len(Top.sym.params)
    <2>1. Top.kind = "call" /\ Top.at = "args" /\ Pops(Top) = 1 /\ values' = Popped(1)
          /\ frames' = [frames EXCEPT ![Len(frames)] = g]
          /\ emitted' = {} /\ mixed' = mixed
        BY <1>1, <1>7 DEF CallArgument, Back, Pops, GoneOn, program
    <2>2. TopValue \in Value /\ Answers(TopValue, Top, mixed) /\ Same(values, values', Top.base)
        BY <2>1, <1>1, PopOneTyped
    <2>3. /\ Top.args \in Seq(Value) /\ n \in Nat /\ Top.sym \in Symbols \cup {NoSymbol}
        BY <1>2 DEF Frame
    <2>4. Top.sym.params \in Seq({"i32", "i32*"}) /\ k \in Nat
        BY <2>3, SymbolFields
    <2>5. TopValue.of = <<"args", n>>
        BY <2>1, <2>2 DEF Answers, PlaceAt
    <2>6. ASSUME Strict, n < k
          PROVE  Alike(TopValue.ty, Top.sym.params[n + 1], mixed)
        <3>1. n + 1 \in 1..k
            BY <2>3, <2>4, <2>6
        <3>2. Top.sym.params[n + 1] \in {"i32", "i32*"}
            BY <3>1, <2>4
        <3>3. ChildRole(Top) = Top.sym.params[n + 1]
            BY <2>1, <2>6 DEF ChildRole
        <3> QED BY <2>2, <2>6, <3>2, <3>3 DEF Answers, Suits
    <2>7. /\ Append(Top.args, TopValue) \in Seq(Value)
          /\ Len(Append(Top.args, TopValue)) = n + 1
          /\ \A i \in 1..(n + 1) : Append(Top.args, TopValue)[i] =
                                      IF i = n + 1 THEN TopValue ELSE Top.args[i]
        BY <2>2, <2>3
    <2>8. /\ g \in Frame /\ g.kind = "call" /\ g.at = "args" /\ g.argc = Top.argc
          /\ g.args = Append(Top.args, TopValue) /\ g.sym = Top.sym
          /\ g.base = Top.base /\ g.want = Top.want /\ ~g.back
        BY <2>1, <2>7, <1>2 DEF Frame
    <2> HIDE DEF g
    <2>9. \A i \in 1..n : Top.args[i].of = <<"args", i - 1>>
        BY <1>3 DEF FrameInPlace
    <2>10. Strict => /\ Suits(Top.sym.returns, Top.want, mixed) /\ Top.argc = k
                     /\ \A i \in 1..n : i <= k
                            => Alike(Top.args[i].ty, Top.sym.params[i], mixed)
        BY <2>1, <1>3 DEF FrameSuits
    <2> HIDE DEF n, k
    <2>11. ~Holds(g)
        BY <2>8 DEF Holds
    <2>12. FrameInPlace(g)
        <3>1. ASSUME NEW i \in 1..(n + 1) PROVE g.args[i].of = <<"args", i - 1>>
            <4>1. CASE i = n + 1
                BY <4>1, <2>3, <2>5, <2>7, <2>8
            <4>2. CASE i # n + 1
                <5>1. i \in 1..n
                    BY <4>2, <2>3
                <5> QED BY <5>1, <4>2, <2>7, <2>8, <2>9
            <4> QED BY <4>1, <4>2
        <3> QED BY <3>1, <2>7, <2>8, <2>11 DEF FrameInPlace
    <2>13. ASSUME Strict PROVE FrameSuits(g, mixed)
        <3>1. ASSUME NEW i \in 1..(n + 1), i <= k
              PROVE  Alike(g.args[i].ty, Top.sym.params[i], mixed)
            <4>1. CASE i = n + 1
                <5>1. n < k
                    BY <4>1, <3>1, <2>3, <2>4
                <5> QED BY <5>1, <4>1, <2>6, <2>7, <2>8, <2>13
            <4>2. CASE i # n + 1
                <5>1. i \in 1..n
                    BY <4>2, <2>3
                <5> QED BY <5>1, <4>2, <3>1, <2>7, <2>8, <2>10, <2>13
            <4> QED BY <4>1, <4>2
        <3>2. \A i \in 1..Len(g.args) : i <= Len(g.sym.params)
                  => Alike(g.args[i].ty, g.sym.params[i], mixed)
            BY <3>1, <2>7, <2>8 DEF k
        <3>3. Suits(g.sym.returns, g.want, mixed) /\ g.argc = Len(g.sym.params)
            BY <2>8, <2>10, <2>13 DEF k
        <3> QED BY <3>2, <3>3, <2>8, <2>11 DEF FrameSuits
    <2>14. FrameTyped(g, mixed) /\ LeftTyped(g, values', mixed)
        BY <2>8, <2>12, <2>13 DEF FrameTyped, LeftTyped
    <2> QED BY <2>1, <2>2, <2>8, <2>14, <1>1, GoOnKeepsTyped
<1> QED BY <1>4, <1>5, <1>6, <1>7


LEMMA PassedOn ==
    ASSUME NEW v, NEW f, NEW m, Answers(v, f, m), Strict, ~f.two,
           f.kind \in {"simple", "additive", "term"}
    PROVE  Suits(v.ty, f.want, m)
<1>1. ChildRole(f) = f.want
    BY DEF ChildRole
<1> QED BY <1>1 DEF Answers

(* The result of arithmetic has the type of its left operand. *)
LEMMA NumberFor ==
    ASSUME NEW ty, NEW role \in Roles, NEW m, Alike(ty, "i32", m), Suits("i32", role, m)
    PROVE  Suits(ty, role, m)
BY DEF Suits, Alike, Roles, Number

(* The visits that end. *)
LEMMA ReturnsKeepTyped ==
    ASSUME IInv, Typed, ~nested,
           \/ LeaveExpressionStmt \/ LeaveCondition \/ LeaveReturn \/ LeaveAssign
           \/ LeaveSimple \/ LeaveArithmetic \/ LeaveElement
    PROVE  Typed'
<1>1. status = "run" /\ frames # << >> /\ Top.back /\ frames' = Returned /\ mixed' = mixed
    BY DEF LeaveExpressionStmt, LeaveCondition, LeaveReturn, LeaveAssign, LeaveSimple,
           LeaveArithmetic, LeaveElement, Back, program
<1>2. FrameOK(Top) /\ Top \in Frame /\ Top.want \in Roles
    BY <1>1, TopFacts, TopFrameTyped
<1>3. /\ FrameInPlace(Top) /\ (Strict => FrameSuits(Top, mixed))
      /\ Top.kind # "call" => PlaceAt(Top) = <<Top.at, 0>>
    BY <1>1, TopFrameTyped DEF FrameTyped
<1>4. CASE LeaveExpressionStmt
    <2>1. Top.kind \in StatementKinds /\ values' = values /\ emitted' = {}
        BY <1>4 DEF LeaveExpressionStmt, Back, StatementKinds
    <2>2. Same(values, values', Top.base)
        BY <2>1 DEF Same
    <2> QED BY <2>1, <2>2, <1>1, ReturnKeepsTyped
<1>5. CASE LeaveCondition
    <2>1. /\ Top.kind = "condition" /\ Top.at = "expression" /\ Pops(Top) = 1
          /\ values' = Popped(1)
          /\ emitted' = {Instr("br", <<TopValue>>, <<Wanted("i1", "expression")>>)}
        BY <1>1, <1>5 DEF LeaveCondition, Back, Pops
    <2>2. Answers(TopValue, Top, mixed) /\ Same(values, values', Top.base)
        BY <2>1, <1>1, PopOneTyped
    <2>3. Strict => ChildRole(Top) = "cond"
        BY <2>1 DEF ChildRole
    <2>4. /\ TopValue.of = Wanted("i1", "expression").of
          /\ Strict => Alike(TopValue.ty, Wanted("i1", "expression").ty, mixed)
        BY <2>1, <2>2, <2>3, <1>3 DEF Answers, Suits, Wanted
    <2>5. \A i \in emitted' : Right(i, mixed)
        BY <2>1, <2>4, RightOne
    <2>6. Top.kind \in StatementKinds
        BY <2>1 DEF StatementKinds
    <2> QED BY <2>2, <2>5, <2>6, <1>1, ReturnKeepsTyped
<1>6. CASE LeaveReturn
    <2>1. /\ Top.kind = "return" /\ Top.at = "expression" /\ Pops(Top) = 1
          /\ values' = Popped(1)
          /\ emitted' = {Instr("ret", <<TopValue>>, <<Wanted("i32", "expression")>>)}
        BY <1>1, <1>6 DEF LeaveReturn, Back, Pops
    <2>2. Answers(TopValue, Top, mixed) /\ Same(values, values', Top.base)
        BY <2>1, <1>1, PopOneTyped
    <2>3. /\ TopValue.of = Wanted("i32", "expression").of
          /\ Strict => Alike(TopValue.ty, Wanted("i32", "expression").ty, mixed)
        BY <2>1, <2>2, <1>3, NumberAsked DEF Answers, Wanted
    <2>4. \A i \in emitted' : Right(i, mixed)
        BY <2>1, <2>3, RightOne
    <2>5. Top.kind \in StatementKinds
        BY <2>1 DEF StatementKinds
    <2> QED BY <2>2, <2>4, <2>5, <1>1, ReturnKeepsTyped
<1>7. CASE LeaveAssign
    <2>1. /\ Top.kind = "assign" /\ Pops(Top) = 1 /\ values' = Popped(1)
          /\ Top.sym \in Symbols
        BY <1>1, <1>2, <1>7 DEF LeaveAssign, Back, Pops, Frame
    <2>2. Answers(TopValue, Top, mixed) /\ Same(values, values', Top.base)
        BY <2>1, <1>1, PopOneTyped
    <2>3. /\ TopValue.of = <<Top.at, 0>>
          /\ Strict => Alike(TopValue.ty, "i32", mixed)
        BY <2>1, <2>2, <1>3, NumberAsked DEF Answers
    <2>4. Strict => Top.sym.decl # "function" /\ (Top.two <=> HasElements(Top.sym))
        BY <2>1, <1>3 DEF FrameSuits
    <2>5. \A i \in emitted' : Right(i, mixed)
        <3>1. CASE Top.two
            <4>1. Top.at = "subscript"
                BY <3>1, <1>7 DEF LeaveAssign, Back
            <4>2. /\ TopValue.of = Wanted("i32", "subscript").of
                  /\ Strict => /\ HasElements(Top.sym)
                               /\ Alike(TopValue.ty, Wanted("i32", "subscript").ty, mixed)
                BY <3>1, <4>1, <2>3, <2>4 DEF Wanted
            <4>3. /\ Top.held.of = Wanted("i32", "expression").of
                  /\ Strict => Alike(Top.held.ty, Wanted("i32", "expression").ty, mixed)
                BY <3>1, <4>1, <2>1, <1>3
                   DEF FrameInPlace, FrameSuits, Holds, FirstPlace, Wanted
            <4>4. \A i \in ElementAddress(Top.sym, TopValue, Wanted("i32", "subscript")) :
                     Right(i, mixed)
                BY <4>2, <2>1, ElementAddressIsRight
            <4>5. Right(Instr("store", <<Top.held>>, <<Wanted("i32", "expression")>>), mixed)
                BY <4>3, RightOne
            <4>6. emitted' = ElementAddress(Top.sym, TopValue, Wanted("i32", "subscript"))
                    \cup {Instr("store", <<Top.held>>, <<Wanted("i32", "expression")>>)}
                BY <3>1, <1>7 DEF LeaveAssign
            <4> QED BY <4>4, <4>5, <4>6
        <3>2. CASE ~Top.two
            <4>1. Top.at = "expression"
                BY <3>2, <1>2, <1>7 DEF LeaveAssign, Back, FrameOK
            <4>2. Strict => Pointee(Top.sym) = "i32"
                BY <3>2, <2>1, <2>4, SymbolsAreSymbols DEF Symbol, HasElements, Pointee
            <4>3. /\ TopValue.of = Wanted(Pointee(Top.sym), "expression").of
                  /\ Strict => Alike(TopValue.ty, Wanted(Pointee(Top.sym), "expression").ty, mixed)
                BY <4>1, <4>2, <2>3 DEF Wanted
            <4>4. emitted' = {Instr("store", <<TopValue>>,
                                    <<Wanted(Pointee(Top.sym), "expression")>>)}
                BY <3>2, <1>7 DEF LeaveAssign
            <4> QED BY <4>3, <4>4, RightOne
        <3> QED BY <3>1, <3>2
    <2> QED BY <2>1, <2>2, <2>5, <1>1, ReturnKeepsTyped
<1>8. CASE LeaveSimple
    <2>1. Top.kind = "simple" /\ Top.kind \notin StatementKinds
        BY <1>8 DEF LeaveSimple, Back, StatementKinds
    <2>2. CASE Top.two
        <3>1. /\ Top.at = "additive_r" /\ Pops(Top) = 2
              /\ values' = Append(Popped(2), Result("i1"))
              /\ emitted' = {Instr("icmp", <<values[Len(values) - 1], TopValue>>,
                                 <<Wanted("i32", "additive_l"), Wanted("i32", "additive_r")>>)}
            BY <2>2, <1>1, <1>8 DEF LeaveSimple, Back, Pops
        <3>2. Result("i1") \in Value
            BY <2>1, <1>1, ResultTyped DEF Type
        <3>3. /\ Answers(TopValue, Top, mixed)
              /\ values[Len(values) - 1].of = <<"additive_l", 0>>
              /\ Strict => Alike(values[Len(values) - 1].ty, "i32", mixed)
              /\ values'[Len(values')] = Result("i1") /\ Same(values, values', Top.base)
            BY <3>1, <3>2, <1>1, PopTwoTyped
        <3>4. /\ TopValue.of = <<"additive_r", 0>>
              /\ Strict => Alike(TopValue.ty, "i32", mixed)
            BY <3>1, <3>3, <2>1, <2>2, <1>3, NumberAsked DEF Answers
        <3>5. Strict => Suits("i1", Top.want, mixed)
            BY <2>1, <2>2, <1>3 DEF FrameSuits
        <3> DEFINE left == values[Len(values) - 1]
                   wl == Wanted("i32", "additive_l")
                   wr == Wanted("i32", "additive_r")
        <3>6. /\ left.of = wl.of /\ TopValue.of = wr.of
              /\ Strict => Alike(left.ty, wl.ty, mixed) /\ Alike(TopValue.ty, wr.ty, mixed)
            BY <3>3, <3>4 DEF Wanted
        <3>7. \A i \in emitted' : Right(i, mixed)
            <4>1. emitted' = {Instr("icmp", <<left, TopValue>>, <<wl, wr>>)}
                BY <3>1
            <4> HIDE DEF left, wl, wr
            <4> QED BY <4>1, <3>6, RightTwo
        <3> QED BY <3>3, <3>5, <3>7, <1>1, ReturnKeepsTyped
    <2>3. CASE ~Top.two
        <3>1. /\ Pops(Top) = 1 /\ emitted' = {}
              /\ values' = Append(Popped(1), Result(TopValue.ty))
            BY <2>1, <2>3, <1>1, <1>8 DEF LeaveSimple, Pops
        <3>2. TopValue \in Value /\ Answers(TopValue, Top, mixed)
            BY <3>1, <1>1, PopOneTyped
        <3>3. Result(TopValue.ty) \in Value
            BY <3>2, <2>1, <1>1, ResultTyped DEF Value
        <3>4. values'[Len(values')] = Result(TopValue.ty) /\ Same(values, values', Top.base)
            BY <3>1, <3>3, <1>1, PopOneTyped
        <3>5. Strict => Suits(TopValue.ty, Top.want, mixed)
            BY <3>2, <2>1, <2>3, PassedOn
        <3> QED BY <3>1, <3>4, <3>5, <1>1, ReturnKeepsTyped
    <2> QED BY <2>2, <2>3
<1>9. CASE LeaveArithmetic
    <2>1. Top.kind \in {"additive", "term"} /\ Top.kind \notin StatementKinds /\ Pops(Top) = 1
          /\ (Top.at = "term" \/ (Top.kind = "term" /\ Top.at = "factor" /\ ~Top.two))
        BY <1>1, <1>9 DEF LeaveArithmetic, Back, StatementKinds, Pops
    <2>2. TopValue \in Value /\ Answers(TopValue, Top, mixed)
        BY <2>1, <1>1, PopOneTyped
    <2>3. CASE Top.two
        <3> DEFINE left == IF Top.kind = "additive" THEN Top.held ELSE TopValue
                   right == IF Top.kind = "additive" THEN TopValue ELSE Top.held
                   wl == IF Top.kind = "additive" THEN Wanted("i32", "additive")
                                                  ELSE Wanted("i32", "term")
                   wr == IF Top.kind = "additive" THEN Wanted("i32", "term")
                                                  ELSE Wanted("i32", "factor")
        <3>1. Top.at = "term" /\ Holds(Top) /\ Top.held \in Value
            BY <2>1, <2>3, <1>2 DEF Holds, FrameOK
        <3>2. /\ TopValue.of = <<"term", 0>>
              /\ Strict => Alike(TopValue.ty, "i32", mixed)
            BY <3>1, <2>1, <2>2, <2>3, <1>3, NumberAsked DEF Answers
        <3>3. /\ Top.held.of = <<FirstPlace[Top.kind], 0>>
              /\ Strict => Alike(Top.held.ty, "i32", mixed)
            BY <3>1, <1>3 DEF FrameInPlace, FrameSuits
        <3>4. /\ left.of = wl.of /\ right.of = wr.of
              /\ Strict => Alike(left.ty, wl.ty, mixed) /\ Alike(right.ty, wr.ty, mixed)
            BY <3>2, <3>3, <2>1 DEF FirstPlace, Wanted
        <3>5. left \in Value /\ wl.ty = "i32"
            BY <3>1, <2>2 DEF Wanted
        <3>6. /\ emitted' = {Instr("arith", <<left, right>>, <<wl, wr>>)}
              /\ values' = Append(Popped(1), Result(left.ty))
            <4>1. CASE Top.kind = "additive"
                BY <4>1, <2>3, <1>9 DEF LeaveArithmetic
            <4>2. CASE Top.kind = "term"
                BY <4>2, <2>3, <1>9 DEF LeaveArithmetic
            <4> QED BY <4>1, <4>2, <2>1
        <3> HIDE DEF left, right, wl, wr
        <3>7. Result(left.ty) \in Value
            BY <3>5, <2>1, <1>1, ResultTyped DEF Value
        <3>8. values'[Len(values')] = Result(left.ty) /\ Same(values, values', Top.base)
            BY <3>6, <3>7, <2>1, <1>1, PopOneTyped
        <3>9. Strict => Suits("i32", Top.want, mixed)
            BY <2>1, <2>3, <1>3 DEF FrameSuits
        <3>10. Strict => Suits(left.ty, Top.want, mixed)
            BY <3>4, <3>5, <3>9, <1>2, NumberFor
        <3>11. \A i \in emitted' : Right(i, mixed)
            BY <3>4, <3>6, RightTwo
        <3> QED BY <3>8, <3>10, <3>11, <1>1, ReturnKeepsTyped
    <2>4. CASE ~Top.two
        <3>1. values' = Append(Popped(1), Result(TopValue.ty)) /\ emitted' = {}
            BY <2>4, <1>9 DEF LeaveArithmetic
        <3>2. Result(TopValue.ty) \in Value
            BY <2>1, <2>2, <1>1, ResultTyped DEF Value
        <3>3. values'[Len(values')] = Result(TopValue.ty) /\ Same(values, values', Top.base)
            BY <3>1, <3>2, <2>1, <1>1, PopOneTyped
        <3>4. Strict => Suits(TopValue.ty, Top.want, mixed)
            BY <2>1, <2>2, <2>4, PassedOn
        <3> QED BY <3>1, <3>3, <3>4, <1>1, ReturnKeepsTyped
    <2> QED BY <2>3, <2>4
<1>10. CASE LeaveElement
    <2>1. /\ Top.kind = "var" /\ Top.kind \notin StatementKinds /\ Top.at = "subscript"
          /\ Pops(Top) = 1 /\ values' = Append(Popped(1), Result("i32"))
          /\ emitted' = ElementAddress(Top.sym, TopValue, Wanted("i32", "subscript"))
                        \cup {Load("i32")}
        BY <1>1, <1>10 DEF LeaveElement, Back, StatementKinds, Pops
    <2>2. Answers(TopValue, Top, mixed)
        BY <2>1, <1>1, PopOneTyped
    <2>3. Result("i32") \in Value
        BY <2>1, <1>1, ResultTyped DEF Type
    <2>4. values'[Len(values')] = Result("i32") /\ Same(values, values', Top.base)
        BY <2>1, <2>3, <1>1, PopOneTyped
    <2>5. Strict => HasElements(Top.sym) /\ Suits("i32", Top.want, mixed)
        BY <2>1, <1>3 DEF FrameSuits
    <2>6. /\ TopValue.of = Wanted("i32", "subscript").of
          /\ Strict => Alike(TopValue.ty, Wanted("i32", "subscript").ty, mixed)
        BY <2>1, <2>2, <1>3, NumberAsked DEF Answers, Wanted
    <2>7. Top.sym \in Symbols
        BY <2>1, <1>2 DEF FrameOK
    <2>8. Right(Load("i32"), mixed)
        BY LoadIsRight
    <2>9. \A i \in ElementAddress(Top.sym, TopValue, Wanted("i32", "subscript")) :
             Right(i, mixed)
        BY <2>5, <2>6, <2>7, ElementAddressIsRight
    <2>10. \A i \in emitted' : Right(i, mixed)
        BY <2>1, <2>8, <2>9
    <2> QED BY <2>4, <2>5, <2>10, <1>1, ReturnKeepsTyped
<1> QED BY <1>4, <1>5, <1>6, <1>7, <1>8, <1>9, <1>10

LEMMA LeaveCallKeepsTyped ==
    ASSUME IInv, Typed, ~nested, LeaveCall
    PROVE  Typed'
<1>1. /\ frames # << >> /\ ~Top.back /\ Top.at = "args"
      /\ Len(Top.args) = Top.argc /\ Top.sym # NoSymbol
      /\ frames' = Returned /\ values' = Append(values, Result(Top.sym.returns))
      /\ emitted' = {Instr("call", Top.args, Parameters(Top.sym))}
      /\ mixed' = mixed
    BY DEF LeaveCall, AtCall, AtChild, program
<1>2. /\ FrameOK(Top) /\ Top \in Frame /\ Top.base \in Nat
      /\ Top.args \in Seq(Value) /\ Top.sym \in Symbols \cup {NoSymbol}
      /\ values \in Seq(Value) /\ Len(values) \in Nat
      /\ TopBalanced(Top, Len(values))
    BY <1>1, TopFacts DEF Frame
<1>3. Top.kind = "call" /\ Top.kind \notin StatementKinds
    <2>1. Top.kind \in {"expression_stmt", "condition", "return", "assign", "simple",
                        "additive", "term", "var", "call"}
        BY <1>2 DEF Frame
    <2>2. "args" \in AtsOf[Top.kind]
        BY <1>1, <1>2 DEF FrameOK
    <2> QED BY <2>1, <2>2 DEF AtsOf, StatementKinds
<1>4. Result(Top.sym.returns) \in Value
    BY <1>1, <1>2, <1>3, SymbolFields, ResultTyped
<1>5. values'[Len(values')] = Result(Top.sym.returns)
    BY <1>1, <1>2, <1>4
<1>6. Same(values, values', Top.base)
    <2>1. Len(values) = Top.base
        BY <1>1, <1>2 DEF TopBalanced, Height
    <2> QED BY <2>1, <1>1, <1>2, <1>4 DEF Same
<1>7. FrameInPlace(Top) /\ (Strict => FrameSuits(Top, mixed))
    BY <1>1, TopFrameTyped DEF FrameTyped
<1>8. Strict => Suits(Top.sym.returns, Top.want, mixed)
    BY <1>3, <1>7 DEF FrameSuits
<1>9. Right(Instr("call", Top.args, Parameters(Top.sym)), mixed)
    <2> DEFINE args == Top.args
               like == Parameters(Top.sym)
               k == Len(Top.sym.params)
    <2>1. Top.sym.params \in Seq({"i32", "i32*"}) /\ k \in Nat
        BY <1>2, SymbolFields
    <2>2. /\ Len(like) = k /\ DOMAIN like = 1..k
          /\ \A n \in 1..k : like[n].of = <<"args", n - 1>> /\ like[n].ty = Top.sym.params[n]
        BY <2>1 DEF Parameters
    <2>3. args \in Seq(Value) /\ DOMAIN args = 1..Len(args)
        BY <1>2
    <2>4. \A n \in 1..Len(args) : args[n].of = <<"args", n - 1>>
        BY <1>7 DEF FrameInPlace
    <2>5. Strict => /\ Len(args) = k
                    /\ \A n \in 1..Len(args) : n <= k => Alike(args[n].ty, Top.sym.params[n], mixed)
        BY <1>1, <1>3, <1>7 DEF FrameSuits
    <2> DEFINE i == Instr("call", args, like)
    <2>6. i.operands = args /\ i.like = like
        BY DEF Instr
    <2> HIDE DEF args, like, k, i
    <2>7. \A n \in DOMAIN i.operands \cap DOMAIN i.like : i.operands[n].of = i.like[n].of
        BY <2>2, <2>3, <2>4, <2>6
    <2>8. Strict => /\ Len(i.operands) = Len(i.like)
                    /\ \A n \in 1..Len(i.like) : Alike(i.operands[n].ty, i.like[n].ty, mixed)
        <3> HAVE Strict
        <3>1. \A n \in 1..k : n \in 1..Len(args) /\ n <= k
            BY <2>1, <2>5
        <3> QED BY <3>1, <2>2, <2>5, <2>6
    <2>9. Right(i, mixed)
        BY <2>7, <2>8 DEF Right
    <2> QED BY <2>9 DEF i, args, like
<1>10. \A i \in emitted' : Right(i, mixed)
    BY <1>1, <1>9
<1> QED BY <1>1, <1>5, <1>6, <1>8, <1>10, ReturnKeepsTyped

LEMMA LeavesKeepTyped ==
    ASSUME IInv, Typed, ~nested,
           \/ VisitNum
           \/ \E sym \in Symbols, subscripted \in BOOLEAN : VisitScalar(sym, subscripted)
           \/ \E sym \in Symbols : VisitArrayName(sym)
    PROVE  Typed'
<1>1. AtFactor /\ frames # << >> /\ Role \in Roles
    BY RoleType DEF VisitNum, VisitScalar, VisitArrayName, AtFactor, AtChild
<1>2. /\ mixed' \in BOOLEAN /\ (Role = "cond" => mixed')
    BY DEF VisitNum, VisitScalar, VisitArrayName, Leaf, IInv, TypeOK
<1>3. CASE VisitNum
    <2>1. Strict => Suits("i32", Role, mixed')
        BY <1>1, <1>2, <1>3, NumberSuits DEF VisitNum
    <2>2. "i32" \in Type /\ Leaf({}, "i32")
        BY <1>3 DEF Type, VisitNum
    <2> QED BY <2>1, <2>2, <1>1, LeafKeepsTyped
<1>4. ASSUME NEW sym \in Symbols, NEW subscripted \in BOOLEAN,
             VisitScalar(sym, subscripted)
      PROVE  Typed'
    <2>1. /\ ~HasElements(sym) /\ Leaf({Load(Pointee(sym))}, Pointee(sym))
          /\ Strict => Role # "i32*" /\ sym.decl # "function"
        BY <1>4 DEF VisitScalar
    <2>2. /\ Pointee(sym) \in Type
          /\ Strict => Pointee(sym) = "i32"
        BY <2>1, SymbolsAreSymbols DEF Symbol, Pointee, HasElements, Type
    <2>3. Strict => Suits(Pointee(sym), Role, mixed')
        BY <1>1, <1>2, <2>1, <2>2, NumberSuits
    <2>4. Right(Load(Pointee(sym)), mixed')
        BY <2>2, LoadIsRight
    <2> QED BY <2>1, <2>2, <2>3, <2>4, <1>1, LeafKeepsTyped
<1>5. ASSUME NEW sym \in Symbols, VisitArrayName(sym)
      PROVE  Typed'
    <2>1. /\ HasElements(sym) /\ Leaf(ElementAddress(sym, Known("i32"), Known("i32")), "i32*")
          /\ Strict => Role \in {"i32*", "stmt"}
        BY <1>5 DEF VisitArrayName
    <2>2. Strict => Suits("i32*", Role, mixed')
        BY <2>1 DEF Suits, Alike
    <2>3. \A i \in ElementAddress(sym, Known("i32"), Known("i32")) : Right(i, mixed')
        BY <2>1, ElementAddressIsRight DEF Alike
    <2>4. "i32*" \in Type
        BY DEF Type
    <2> QED BY <2>1, <2>2, <2>3, <2>4, <1>1, LeafKeepsTyped
<1> QED BY <1>3, <1>4, <1>5

-----------------------------------------------------------------------------
(* A program that has a nested assignment goes on to have it, and under    *)
(* Strict there is none.                                                   *)
LEMMA NestedStays ==
    ASSUME [Next]_vars
    PROVE  /\ nested => nested'
           /\ Strict /\ ~nested => ~nested'
<1>1. CASE \E sym \in Symbols \cup {NoSymbol}, subscripted \in BOOLEAN :
             VisitAssign(sym, subscripted)
    <2>1. /\ nested' = (nested \/ Top.kind # "expression_stmt")
          /\ Strict => Top.kind = "expression_stmt"
        BY <1>1 DEF VisitAssign
    <2> QED BY <2>1
<1>2. CASE nested' = nested
    BY <1>2
<1>3. [Next]_vars => \/ nested' = nested
                    \/ \E sym \in Symbols \cup {NoSymbol}, subscripted \in BOOLEAN :
                          VisitAssign(sym, subscripted)
    BY DEF Next, VisitStatement, LeaveExpressionStmt, LeaveCondition, LeaveReturn,
           AssignSubscript, LeaveAssign, VisitSimple, SimpleRight,
           LeaveSimple, VisitAdditive, VisitTerm, SecondOperand, LeaveArithmetic,
           VisitNum, VisitScalar, VisitArrayName, Leaf, VisitElement, LeaveElement,
           VisitCall, CallArgument, LeaveCall, NullDereference, PopEmpty, Die,
           Stopped, program, vars
<1> QED BY <1>1, <1>2, <1>3

LEMMA NothingKeepsTyped ==
    ASSUME Typed, UNCHANGED <<frames, values, mixed>>, emitted' = {} \/ emitted' = emitted
    PROVE  Typed'
BY DEF Typed

LEMMA StepKeepsTyped ==
    ASSUME IInv, TInv, [Next]_vars
    PROVE  TInv'
<1>1. IInv'
    BY StepKeepsIInv
<1>2. Strict => ~nested'
    BY NestedStays DEF TInv
<1>3. ASSUME ~nested' PROVE Typed'
    <2>1. ~nested /\ Typed
        BY <1>3, NestedStays DEF TInv
    <2>2. CASE UNCHANGED vars \/ Stopped \/ NullDereference \/ PopEmpty
        <3>1. UNCHANGED <<frames, values, mixed>> /\ (emitted' = {} \/ emitted' = emitted)
            BY <2>2 DEF Stopped, NullDereference, PopEmpty, Die, vars, program
        <3> QED BY <3>1, <2>1, NothingKeepsTyped
    <2>3. CASE Next /\ ~(Stopped \/ NullDereference \/ PopEmpty)
        BY <1>1, <1>3, <2>1, <2>3, VisitsKeepTyped, GoingOnKeepsTyped, ReturnsKeepTyped,
           LeaveCallKeepsTyped, LeavesKeepTyped DEF Next, StatementKinds
    <2> QED BY <2>2, <2>3
<1> QED BY <1>2, <1>3 DEF TInv

THEOREM SpecTInv == Spec => []TInv
<1>1. Init => TInv
    BY DEF Init, TInv, Typed, FramesTyped, TopTyped
<1>2. IInv /\ TInv /\ [Next]_vars => TInv'
    BY StepKeepsTyped
<1> QED BY <1>1, <1>2, SpecIInv, PTL DEF Spec

(* Whatever is compiled without a nested assignment, each operand of each  *)
(* instruction is the value of the child that stands in its place: the     *)
(* operands of a comparison, of arithmetic, of a store and of a subscript  *)
(* are not mixed up, and the arguments of a call keep their order.         *)
THEOREM ExprOperandsInPlace == Spec => []OperandsInPlace
<1>1. TInv => OperandsInPlace
    BY DEF TInv, Typed, Right, OperandsInPlace
<1> QED BY <1>1, SpecTInv, PTL

(* In every program that keeps the rules on names, arguments, results and  *)
(* assignments, each instruction has as many operands as it needs, of the  *)
(* types it needs; where the program uses a comparison as a number, or a   *)
(* number as a condition, an i1 may stand for an i32 or the reverse, and   *)
(* nothing else may.                                                       *)
THEOREM ExprWellTyped == ASSUME Strict PROVE Spec => []WellTyped
<1>1. ASSUME TInv PROVE WellTyped
    <2>1. \A i \in emitted : Right(i, mixed)
        BY <1>1 DEF TInv, Typed
    <2>2. \A ty, like : Alike(ty, like, mixed) => Fits(ty, like)
        BY DEF Alike, Fits
    <2> QED BY <2>1, <2>2 DEF Right, WellTyped
<1> QED BY <1>1, SpecTInv, PTL
=============================================================================
