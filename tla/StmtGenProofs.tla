---------------------------- MODULE StmtGenProofs ----------------------------
(***************************************************************************)
(* What holds of the statement generator for every program and every       *)
(* nesting: its types and the discipline of its basic blocks, and then     *)
(* what its returns and branches do to the code.                           *)
(***************************************************************************)
EXTENDS StmtGen, TLAPS, SequenceTheorems, WellFoundedInduction, FiniteSetTheorems

-----------------------------------------------------------------------------
(* The shape of the updates of the symbol table. *)
LEMMA EmptyBlockType == EmptyBlock \in Block /\ DOMAIN EmptyBlock = {}
<1>1. EmptyBlock \in [{} -> Vals]
    BY DEF EmptyBlock
<1> QED BY <1>1 DEF Block, EmptyBlock

(* insert() keeps a map a map, and adds no name but its own. *)
LEMMA InsertedType ==
    ASSUME NEW b \in Block, NEW name \in Names, NEW val \in Vals
    PROVE  /\ Inserted(b, name, val) \in Block
           /\ DOMAIN Inserted(b, name, val) = DOMAIN b \cup {name}
<1>1. PICK D \in SUBSET Names : b \in [D -> Vals]
    BY DEF Block
<1>2. Inserted(b, name, val) \in [D \cup {name} -> Vals]
    BY <1>1 DEF Inserted
<1> QED BY <1>1, <1>2 DEF Block, Inserted

(* The shape of the three updates of the vector. *)
LEMMA EnteredShape ==
    ASSUME NEW s \in Seq(Block)
    PROVE  /\ Entered(s) \in Seq(Block)
           /\ Len(Entered(s)) = Len(s) + 1
           /\ \A i \in 1..Len(s) : Entered(s)[i] = s[i]
           /\ Entered(s)[Len(s) + 1] = EmptyBlock
BY EmptyBlockType DEF Entered

LEMMA ExitedShape ==
    ASSUME NEW s \in Seq(Block), s # << >>
    PROVE  /\ Exited(s) \in Seq(Block)
           /\ Len(Exited(s)) = Len(s) - 1
           /\ \A i \in 1..(Len(s) - 1) : Exited(s)[i] = s[i]
<1>1. Len(s) \in Nat /\ Len(s) >= 1
    OBVIOUS
<1>2. \A i \in 1..(Len(s) - 1) : s[i] \in Block
    OBVIOUS
<1>3. /\ Exited(s) \in Seq(Block)
      /\ Len(Exited(s)) = IF 1 <= Len(s) - 1 THEN Len(s) - 1 ELSE 0
      /\ \A i \in 1..(Len(s) - 1) : Exited(s)[i] = s[1 + i - 1]
    BY <1>1, <1>2, SubSeqProperties DEF Exited
<1>4. Len(Exited(s)) = Len(s) - 1
    <2> DEFINE n == Len(s)
               m == Len(Exited(s))
    <2>1. n \in Nat /\ n >= 1 /\ m = IF 1 <= n - 1 THEN n - 1 ELSE 0
        BY <1>1, <1>3
    <2> HIDE DEF n, m
    <2>2. m = n - 1
        BY <2>1
    <2> QED BY <2>2 DEF n, m
<1>5. ASSUME NEW i \in 1..(Len(s) - 1) PROVE Exited(s)[i] = s[i]
    <2>1. 1 + i - 1 = i
        OBVIOUS
    <2> QED BY <1>3, <2>1
<1> QED BY <1>3, <1>4, <1>5

LEMMA PushedShape ==
    ASSUME NEW s \in Seq(Block), s # << >>,
           NEW name \in Names, NEW val \in Vals
    PROVE  /\ Pushed(s, name, val) \in Seq(Block)
           /\ Len(Pushed(s, name, val)) = Len(s)
           /\ \A i \in 1..(Len(s) - 1) : Pushed(s, name, val)[i] = s[i]
           /\ Pushed(s, name, val)[Len(s)] = Inserted(s[Len(s)], name, val)
<1> DEFINE new == Inserted(s[Len(s)], name, val)
<1>1. Len(s) \in 1..Len(s) /\ s[Len(s)] \in Block
    OBVIOUS
<1>2. new \in Block
    BY <1>1, InsertedType
<1>3. Pushed(s, name, val) = [s EXCEPT ![Len(s)] = new]
    BY DEF Pushed
<1> HIDE DEF new
<1>4. /\ [s EXCEPT ![Len(s)] = new] \in Seq(Block)
      /\ Len([s EXCEPT ![Len(s)] = new]) = Len(s)
      /\ \A j \in 1..Len(s) : [s EXCEPT ![Len(s)] = new][j] =
                                 IF j = Len(s) THEN new ELSE s[j]
    BY <1>1, <1>2, ExceptSeq
<1>5. /\ Pushed(s, name, val) \in Seq(Block)
      /\ Len(Pushed(s, name, val)) = Len(s)
    BY <1>3, <1>4
<1>6. Pushed(s, name, val)[Len(s)] = new
    BY <1>1, <1>3, <1>4
<1>7. ASSUME NEW i \in 1..(Len(s) - 1) PROVE Pushed(s, name, val)[i] = s[i]
    <2>1. i \in 1..Len(s) /\ i # Len(s)
        BY <1>1
    <2> QED BY <1>3, <1>4, <2>1
<1> QED BY <1>5, <1>6, <1>7 DEF new

-----------------------------------------------------------------------------

Waiting == {"params", "decls", "stmts", "true", "else", "body"}

KindOfPc == [params |-> "fun", leave |-> "fun", decls |-> "comp", stmts |-> "comp",
             true |-> "if", after_true |-> "if", else |-> "if", after_else |-> "if",
             body |-> "while", after_body |-> "while"]

(* What an activation record of each kind holds. *)
FrameOK(f) ==
    /\ f.kind = KindOfPc[f.pc]
    /\ f.kind \in {"if", "while"} <=> f.out_bb # NoBB
    /\ f.kind = "while" => f.cmp_bb # NoBB
    /\ f.else_bb # NoBB => f.kind = "if" /\ f.else_bb # f.out_bb
    /\ f.pc \in {"else", "after_else"} => f.else_bb # NoBB
    /\ f.pc \in {"true", "after_true"} => f.all_ret = 0
    /\ f.all_ret <= 1

(* Every record but the topmost one waits for a child statement, and the   *)
(* outermost one is that of the function.                                  *)
ShapeOf(fs) ==
    \A i \in 1..Len(fs) :
        /\ FrameOK(fs[i])
        /\ fs[i].kind = "fun" <=> i = 1
        /\ i < Len(fs) => fs[i].pc \in Waiting

Shape ==
    /\ ShapeOf(frames)
    /\ InFunction => insertAt = bb_now /\ bb_now \in BB /\ func_now \in BB

TInv == TypeOK /\ Shape /\ ScopeMatchesNesting

(* Pending blocks are live, empty and owned by one visit; the current      *)
(* block is none of them; every other block has its terminator.  Here n    *)
(* visits run, and p[i] are the blocks pending in the i-th.                *)
Tidy(n, p, r, now) ==
    /\ r.live \subseteq 1..r.used
    /\ \A b \in BB : b > r.used => r.last[b] = "none"
    /\ n # 0 => now \in r.live
    /\ \A i \in 1..n :
          /\ now \notin p[i]
          /\ \A b \in p[i] : b \in r.live /\ r.last[b] = "none"
          /\ \A j \in 1..n : i # j => p[i] \cap p[j] = {}
    /\ \A b \in r.live :
          \/ r.last[b] = "term"
          \/ n # 0 /\ b = now
          \/ \E i \in 1..n : b \in p[i]

PendingIn(fs) == [i \in 1..Len(fs) |-> PendingOf(fs[i])]

Discipline == Tidy(Len(frames), PendingIn(frames), ir, bb_now)

IInv == TInv /\ Discipline

-----------------------------------------------------------------------------
(* What the operations on the basic blocks change, and what they keep. *)
LEMMA PutShape ==
    ASSUME NEW r \in IR, NEW b \in BB, NEW what \in {"none", "plain", "term"},
           NEW targets \in SUBSET BB
    PROVE  LET q == Put(r, b, what, targets)
           IN  /\ q \in IR
               /\ q.used = r.used /\ q.entry = r.entry /\ q.live = r.live
               /\ \A c \in BB : q.last[c] = IF c = b THEN what ELSE r.last[c]
               /\ \A c \in BB : q.succ[c] = IF c = b THEN r.succ[c] \cup targets
                                            ELSE r.succ[c]
               /\ q.broken <=> (r.broken \/ r.last[b] = "term")
BY DEF Put, IR

LEMMA CreatedShape ==
    ASSUME NEW r \in IR, NEW n \in Nat, r.used + n <= MaxBlocks
    PROVE  LET q == Created(r, n)
           IN  /\ q \in IR
               /\ q.used = r.used + n
               /\ q.live = r.live \cup (r.used + 1)..(r.used + n)
               /\ q.entry = r.entry /\ q.last = r.last /\ q.succ = r.succ
               /\ q.broken = r.broken
<1> DEFINE new == (r.used + 1)..(r.used + n)
           count == r.used + n
<1>1. r.used \in 0..MaxBlocks /\ MaxBlocks \in Nat
    BY BoundsAreNatural DEF IR
<1>2. new \subseteq BB /\ count \in 0..MaxBlocks
    BY <1>1 DEF BB
<1>3. Created(r, n) = [r EXCEPT !.used = count, !.live = r.live \cup new]
    BY DEF Created
<1> HIDE DEF new, count
<1>4. LET q == Created(r, n)
      IN  /\ q \in IR
          /\ q.used = count /\ q.live = r.live \cup new
          /\ q.entry = r.entry /\ q.last = r.last /\ q.succ = r.succ
          /\ q.broken = r.broken
    BY <1>2, <1>3 DEF IR
<1> QED BY <1>4 DEF new, count

LEMMA ErasedShape ==
    ASSUME NEW r \in IR, NEW b
    PROVE  LET q == Erased(r, b)
           IN  /\ q \in IR
               /\ q.live = r.live \ {b}
               /\ q.used = r.used /\ q.entry = r.entry
               /\ q.last = r.last /\ q.succ = r.succ /\ q.broken = r.broken
BY DEF Erased, IR

(* An expression visited while both insertion points agree adds to that    *)
(* block only, and no terminator.                                          *)
LEMMA EvaluatedShape ==
    ASSUME NEW r \in IR, NEW at \in BB, NEW q \in Evaluated(r, at, at)
    PROVE  /\ q \in IR
           /\ q.used = r.used /\ q.entry = r.entry /\ q.live = r.live
           /\ \A c \in BB : q.succ[c] = r.succ[c]
           /\ \A c \in BB : c # at => q.last[c] = r.last[c]
           /\ q.last[at] = r.last[at] \/ q.last[at] = "plain"
           /\ r.last[at] # "term" => (q.broken <=> r.broken)
<1> DEFINE p == Plain(r, at)
<1>1. /\ p \in IR
      /\ p.used = r.used /\ p.entry = r.entry /\ p.live = r.live
      /\ \A c \in BB : p.last[c] = IF c = at THEN "plain" ELSE r.last[c]
      /\ \A c \in BB : p.succ[c] = IF c = at THEN r.succ[c] \cup {} ELSE r.succ[c]
      /\ p.broken <=> (r.broken \/ r.last[at] = "term")
    BY PutShape DEF Plain
<1> HIDE DEF p
<1> DEFINE t == Plain(p, at)
<1>2. /\ t \in IR
      /\ t.used = p.used /\ t.entry = p.entry /\ t.live = p.live
      /\ \A c \in BB : t.last[c] = IF c = at THEN "plain" ELSE p.last[c]
      /\ \A c \in BB : t.succ[c] = IF c = at THEN p.succ[c] \cup {} ELSE p.succ[c]
      /\ t.broken <=> (p.broken \/ p.last[at] = "term")
    BY <1>1, PutShape DEF Plain
<1>3. q \in {r, p, t}
    BY DEF Evaluated, p
<1> HIDE DEF t
<1>4. CASE q = r
    BY <1>4
<1>5. CASE q = p
    BY <1>1, <1>5
<1>6. CASE q = t
    BY <1>1, <1>2, <1>6
<1> QED BY <1>3, <1>4, <1>5, <1>6

(* What a visit's record looks like after a child statement. *)
LEMMA ResumedShape ==
    ASSUME NEW f \in Frame, FrameOK(f), f.pc \in Waiting, NEW returns \in BOOLEAN
    PROVE  LET g == Resumed(f, returns)
           IN  /\ g \in Frame
               /\ FrameOK(g)
               /\ g.kind = f.kind /\ g.pc = NextPc[f.pc]
               /\ g.else_bb = f.else_bb /\ g.out_bb = f.out_bb
               /\ g.cmp_bb = f.cmp_bb /\ g.all_ret = f.all_ret
               /\ PendingOf(g) = PendingOf(f)
<1> DEFINE g == Resumed(f, returns)
           newRets == CASE f.kind = "comp" -> f.rets \/ returns
                        [] f.pc = "else"   -> f.rets /\ returns
                        [] OTHER           -> returns
<1>1. newRets \in BOOLEAN /\ NextPc[f.pc] \in
         {"leave", "stmts", "after_true", "after_else", "after_body"}
    BY DEF Frame, NextPc, Waiting
<1>2. g = [f EXCEPT !.pc = NextPc[f.pc], !.rets = newRets]
    BY DEF Resumed
<1> HIDE DEF newRets, g
<1>3. /\ g \in Frame
      /\ g.kind = f.kind /\ g.pc = NextPc[f.pc]
      /\ g.else_bb = f.else_bb /\ g.out_bb = f.out_bb
      /\ g.cmp_bb = f.cmp_bb /\ g.all_ret = f.all_ret
    BY <1>1, <1>2 DEF Frame
<1>4. FrameOK(g)
    BY <1>3 DEF FrameOK, KindOfPc, NextPc, Waiting
<1>5. PendingOf(g) = PendingOf(f)
    BY <1>3 DEF PendingOf, NextPc, Waiting
<1> QED BY <1>3, <1>4, <1>5 DEF g

(* Replacing the topmost record. *)
LEMMA ReplaceTop ==
    ASSUME NEW fs \in Seq(Frame), fs # << >>, NEW g \in Frame
    PROVE  LET t == [fs EXCEPT ![Len(fs)] = g]
           IN  /\ t \in Seq(Frame)
               /\ Len(t) = Len(fs)
               /\ t[Len(fs)] = g
               /\ \A i \in 1..Len(fs) : i # Len(fs) => t[i] = fs[i]
<1>1. Len(fs) \in 1..Len(fs)
    OBVIOUS
<1>2. LET t == [fs EXCEPT ![Len(fs)] = g]
      IN  /\ t \in Seq(Frame)
          /\ Len(t) = Len(fs)
          /\ \A j \in 1..Len(fs) : t[j] = IF j = Len(fs) THEN g ELSE fs[j]
    BY <1>1, ExceptSeq
<1> QED BY <1>1, <1>2

(* Returning from the topmost visit. *)
LEMMA BelowShape ==
    ASSUME NEW fs \in Seq(Frame), fs # << >>
    PROVE  LET t == SubSeq(fs, 1, Len(fs) - 1)
           IN  /\ t \in Seq(Frame)
               /\ Len(t) = Len(fs) - 1
               /\ \A i \in 1..(Len(fs) - 1) : t[i] = fs[i]
<1> DEFINE t == SubSeq(fs, 1, Len(fs) - 1)
           n == Len(fs)
<1>1. n \in Nat /\ n >= 1
    OBVIOUS
<1>2. \A i \in 1..(n - 1) : fs[i] \in Frame
    OBVIOUS
<1>3. /\ t \in Seq(Frame)
      /\ Len(t) = IF 1 <= n - 1 THEN n - 1 ELSE 0
      /\ \A i \in 1..(n - 1) : t[i] = fs[1 + i - 1]
    BY <1>1, <1>2, SubSeqProperties
<1> HIDE DEF t, n
<1>4. Len(t) = n - 1
    BY <1>1, <1>3
<1>5. ASSUME NEW i \in 1..(n - 1) PROVE t[i] = fs[i]
    <2>1. 1 + i - 1 = i
        BY <1>1
    <2> QED BY <1>3, <2>1
<1> QED BY <1>3, <1>4, <1>5 DEF t, n

-----------------------------------------------------------------------------
(* The three ways in which a visit changes the records. *)
LEMMA FrameFacts ==
    ASSUME TypeOK, Shape, InFunction
    PROVE  /\ Len(frames) \in Nat /\ Len(frames) >= 1
           /\ \A i \in 1..Len(frames) : frames[i] \in Frame /\ FrameOK(frames[i])
           /\ Top \in Frame /\ FrameOK(Top)
           /\ Top.kind = "fun" <=> Len(frames) = 1
           /\ \A i \in 1..(Len(frames) - 1) : frames[i].pc \in Waiting
<1>1. Len(frames) \in Nat /\ Len(frames) >= 1
    BY DEF TypeOK, InFunction
<1>2. \A i \in 1..Len(frames) : frames[i] \in Frame /\ FrameOK(frames[i])
    BY DEF TypeOK, Shape, ShapeOf
<1>3. Len(frames) \in 1..Len(frames)
    BY <1>1
<1>4. Top.kind = "fun" <=> Len(frames) = 1
    BY <1>3 DEF Shape, ShapeOf, Top
<1>5. \A i \in 1..(Len(frames) - 1) : frames[i].pc \in Waiting
    BY <1>1 DEF Shape, ShapeOf
<1> QED BY <1>1, <1>2, <1>3, <1>4, <1>5 DEF Top

LEMMA AfterStatement ==
    ASSUME TypeOK, Shape, InFunction, Top.pc \in Waiting, NEW returns \in BOOLEAN
    PROVE  LET fs == ResumedAll(frames, returns)
           IN  /\ fs \in Seq(Frame) /\ ShapeOf(fs)
               /\ Len(fs) = Len(frames)
               /\ fs[Len(fs)] = Resumed(Top, returns)
               /\ \A i \in 1..(Len(frames) - 1) : fs[i] = frames[i]
               /\ \A i \in 1..Len(frames) : fs[i].kind = frames[i].kind
               /\ \A i \in 1..Len(frames) : PendingOf(fs[i]) = PendingOf(frames[i])
<1> DEFINE g == Resumed(Top, returns)
           n == Len(frames)
           fs == [frames EXCEPT ![n] = g]
<1>1. /\ n \in Nat /\ n >= 1 /\ Top \in Frame /\ FrameOK(Top)
      /\ Top.kind = "fun" <=> n = 1
    BY FrameFacts
<1>2. /\ g \in Frame /\ FrameOK(g) /\ g.kind = Top.kind
      /\ PendingOf(g) = PendingOf(Top)
    BY <1>1, ResumedShape
<1>3. ResumedAll(frames, returns) = fs
    BY DEF ResumedAll, Top
<1>4. frames \in Seq(Frame) /\ frames # << >>
    BY DEF TypeOK, InFunction
<1> HIDE DEF g
<1>5. /\ fs \in Seq(Frame) /\ Len(fs) = n /\ fs[n] = g
      /\ \A i \in 1..n : i # n => fs[i] = frames[i]
    BY <1>2, <1>4, ReplaceTop
<1> HIDE DEF fs
<1>6. \A i \in 1..n : fs[i].kind = frames[i].kind
    BY <1>2, <1>5 DEF Top
<1>7. \A i \in 1..n : PendingOf(fs[i]) = PendingOf(frames[i])
    BY <1>2, <1>5 DEF Top
<1>8. ShapeOf(fs)
    BY <1>1, <1>2, <1>5, <1>6 DEF Shape, ShapeOf
<1>9. \A i \in 1..(n - 1) : fs[i] = frames[i]
    BY <1>1, <1>5
<1> QED BY <1>3, <1>5, <1>6, <1>7, <1>8, <1>9 DEF g

LEMMA AfterVisit ==
    ASSUME TypeOK, Shape, InFunction, Top.kind # "fun", NEW returns \in BOOLEAN
    PROVE  LET fs == ResumedAll(Below, returns)
               m == Len(frames) - 1
           IN  /\ fs \in Seq(Frame) /\ ShapeOf(fs)
               /\ m \in Nat \ {0} /\ Len(fs) = m
               /\ fs[m] = Resumed(frames[m], returns)
               /\ frames[m] \in Frame /\ FrameOK(frames[m]) /\ frames[m].pc \in Waiting
               /\ \A i \in 1..(m - 1) : fs[i] = frames[i]
               /\ \A i \in 1..m : fs[i].kind = frames[i].kind
               /\ \A i \in 1..m : PendingOf(fs[i]) = PendingOf(frames[i])
<1> DEFINE m == Len(frames) - 1
           g == Resumed(frames[m], returns)
<1>1. /\ Len(frames) \in Nat /\ Len(frames) > 1
      /\ \A i \in 1..Len(frames) : frames[i] \in Frame /\ FrameOK(frames[i])
      /\ \A i \in 1..(Len(frames) - 1) : frames[i].pc \in Waiting
    <2>1. /\ Len(frames) \in Nat /\ Len(frames) >= 1 /\ Len(frames) # 1
          /\ \A i \in 1..Len(frames) : frames[i] \in Frame /\ FrameOK(frames[i])
          /\ \A i \in 1..(Len(frames) - 1) : frames[i].pc \in Waiting
        BY FrameFacts
    <2>2. Len(frames) > 1
        <3> DEFINE n == Len(frames)
        <3>1. n \in Nat /\ n >= 1 /\ n # 1
            BY <2>1
        <3> HIDE DEF n
        <3>2. n > 1
            BY <3>1
        <3> QED BY <3>2 DEF n
    <2> QED BY <2>1, <2>2
<1>2. m \in Nat \ {0} /\ m < Len(frames)
    BY <1>1
<1>3. frames[m] \in Frame /\ FrameOK(frames[m]) /\ frames[m].pc \in Waiting
    BY <1>1, <1>2
<1>4. /\ g \in Frame /\ FrameOK(g) /\ g.kind = frames[m].kind
      /\ PendingOf(g) = PendingOf(frames[m])
    BY <1>3, ResumedShape
<1>5. Below \in Seq(Frame) /\ Len(Below) = m /\ \A i \in 1..m : Below[i] = frames[i]
    <2>1. frames \in Seq(Frame) /\ frames # << >>
        BY DEF TypeOK, InFunction
    <2> QED BY <2>1, BelowShape DEF Below
<1> DEFINE fs == [Below EXCEPT ![Len(Below)] = g]
<1>6. ResumedAll(Below, returns) = fs
    <2>1. Below[Len(Below)] = frames[m]
        BY <1>2, <1>5
    <2> QED BY <2>1 DEF ResumedAll
<1> HIDE DEF g
<1>7. /\ fs \in Seq(Frame) /\ Len(fs) = Len(Below) /\ fs[Len(Below)] = g
      /\ \A i \in 1..Len(Below) : i # Len(Below) => fs[i] = Below[i]
    <2>1. Below # << >>
        BY <1>2, <1>5
    <2> QED BY <1>4, <1>5, <2>1, ReplaceTop
<1> HIDE DEF fs, m
<1>8. /\ fs \in Seq(Frame) /\ Len(fs) = m /\ fs[m] = g
      /\ \A i \in 1..m : i # m => fs[i] = frames[i]
    BY <1>5, <1>7
<1>9. \A i \in 1..m : fs[i].kind = frames[i].kind
    BY <1>4, <1>8
<1>10. \A i \in 1..m : PendingOf(fs[i]) = PendingOf(frames[i])
    BY <1>4, <1>8
<1>11. ShapeOf(fs)
    <2>1. \A i \in 1..m : i \in 1..Len(frames) /\ i < Len(frames)
        BY <1>1, <1>2
    <2> QED BY <1>2, <1>4, <1>8, <1>9, <2>1 DEF Shape, ShapeOf
<1>12. \A i \in 1..(m - 1) : fs[i] = frames[i]
    BY <1>2, <1>8
<1> QED BY <1>2, <1>3, <1>6, <1>8, <1>9, <1>10, <1>11, <1>12 DEF g, m

LEMMA AfterCall ==
    ASSUME TypeOK, Shape, InFunction, Top.pc \in Waiting,
           NEW f \in Frame, FrameOK(f), f.kind # "fun"
    PROVE  LET fs == Append(frames, f)
               n == Len(frames)
           IN  /\ fs \in Seq(Frame) /\ ShapeOf(fs)
               /\ n \in Nat \ {0} /\ Len(fs) = n + 1
               /\ fs[n + 1] = f
               /\ \A i \in 1..n : fs[i] = frames[i]
<1> DEFINE n == Len(frames)
           fs == Append(frames, f)
<1>1. /\ n \in Nat \ {0} /\ frames \in Seq(Frame)
      /\ \A i \in 1..(n - 1) : frames[i].pc \in Waiting
    BY FrameFacts DEF TypeOK
<1>2. /\ fs \in Seq(Frame) /\ Len(fs) = n + 1 /\ fs[n + 1] = f
      /\ \A i \in 1..n : fs[i] = frames[i]
    BY <1>1, AppendProperties
<1> HIDE DEF fs
<1>3. ShapeOf(fs)
    BY <1>1, <1>2 DEF Shape, ShapeOf, Top
<1> QED BY <1>1, <1>2, <1>3 DEF fs

(* How many blocks of the symbol table the records hold open. *)
LEMMA OpenBlocksFinite ==
    ASSUME NEW fs \in Seq(Frame)
    PROVE  IsFiniteSet(OpenBlocks(fs)) /\ Cardinality(OpenBlocks(fs)) \in Nat
<1>1. OpenBlocks(fs) \subseteq 1..Len(fs) /\ Len(fs) \in Nat
    BY DEF OpenBlocks
<1>2. IsFiniteSet(1..Len(fs))
    BY <1>1, FS_Interval
<1> QED BY <1>1, <1>2, FS_Subset, FS_CardinalityType

LEMMA OpenBlocksSame ==
    ASSUME NEW fs \in Seq(Frame), NEW gs \in Seq(Frame), Len(gs) = Len(fs),
           \A i \in 1..Len(fs) : gs[i].kind = fs[i].kind
    PROVE  OpenBlocks(gs) = OpenBlocks(fs)
BY DEF OpenBlocks

LEMMA OpenBlocksOneMore ==
    ASSUME NEW fs \in Seq(Frame), NEW gs \in Seq(Frame), Len(gs) = Len(fs) + 1,
           \A i \in 1..Len(fs) : gs[i].kind = fs[i].kind
    PROVE  Cardinality(OpenBlocks(gs)) = Cardinality(OpenBlocks(fs))
               + IF gs[Len(gs)].kind \in {"fun", "comp"} THEN 1 ELSE 0
<1> DEFINE n == Len(fs)
<1>1. n \in Nat /\ DOMAIN fs = 1..n /\ DOMAIN gs = 1..(n + 1)
    OBVIOUS
<1>2. IsFiniteSet(OpenBlocks(fs)) /\ Cardinality(OpenBlocks(fs)) \in Nat
    BY OpenBlocksFinite
<1>3. CASE gs[Len(gs)].kind \in {"fun", "comp"}
    <2>1. OpenBlocks(gs) = OpenBlocks(fs) \cup {n + 1}
        BY <1>1, <1>3 DEF OpenBlocks
    <2>2. n + 1 \notin OpenBlocks(fs)
        BY <1>1 DEF OpenBlocks
    <2> QED BY <1>2, <1>3, <2>1, <2>2, FS_AddElement
<1>4. CASE gs[Len(gs)].kind \notin {"fun", "comp"}
    <2>1. OpenBlocks(gs) = OpenBlocks(fs)
        BY <1>1, <1>4 DEF OpenBlocks
    <2> QED BY <1>2, <1>4, <2>1
<1> QED BY <1>3, <1>4

-----------------------------------------------------------------------------
(* Whose allocas the symbol table holds. *)
ScopeOwned(s, fn) ==
    /\ \A n \in DOMAIN s[1] : s[1][n].kind \in {"global", "function"}
    /\ \A i \in 2..Len(s) : \A n \in DOMAIN s[i] :
          s[i][n] \in [kind : {"param", "local"}, fn : {fn}]

LEMMA OwnedPushed ==
    ASSUME NEW s \in Seq(Block), s # << >>, NEW name \in Names, NEW val \in Vals,
           NEW fn, ScopeOwned(s, fn),
           IF Len(s) = 1 THEN val.kind \in {"global", "function"}
           ELSE val \in [kind : {"param", "local"}, fn : {fn}]
    PROVE  LET t == Pushed(s, name, val)
           IN  t \in Seq(Block) /\ Len(t) = Len(s) /\ ScopeOwned(t, fn)
<1> DEFINE t == Pushed(s, name, val)
           m == Len(s)
<1>1. m \in Nat /\ m >= 1
    OBVIOUS
<1>2. /\ t \in Seq(Block) /\ Len(t) = m
      /\ \A i \in 1..(m - 1) : t[i] = s[i]
      /\ t[m] = Inserted(s[m], name, val)
    BY PushedShape
<1> HIDE DEF t
<1>3. \A n \in DOMAIN t[m] : t[m][n] = val \/ (n \in DOMAIN s[m] /\ t[m][n] = s[m][n])
    BY <1>2 DEF Inserted
<1>4. CASE m = 1
    <2>1. \A n \in DOMAIN t[1] : t[1][n].kind \in {"global", "function"}
        BY <1>3, <1>4 DEF ScopeOwned
    <2>2. 2..Len(t) = {}
        BY <1>2, <1>4
    <2> QED BY <1>2, <2>1, <2>2 DEF ScopeOwned, t
<1>5. CASE m # 1
    <2>1. 1 \in 1..(m - 1) /\ m \in 2..m
        <3> HIDE DEF m
        <3> QED BY <1>1, <1>5
    <2>2. t[1] = s[1]
        BY <1>2, <2>1
    <2>3. ASSUME NEW i \in 2..m, NEW n \in DOMAIN t[i]
          PROVE  t[i][n] \in [kind : {"param", "local"}, fn : {fn}]
        <3>1. CASE i = m
            BY <1>3, <1>5, <2>1, <2>3, <3>1 DEF ScopeOwned
        <3>2. CASE i # m
            <4>1. i \in 1..(m - 1)
                BY <1>1, <3>2
            <4> QED BY <1>2, <2>3, <4>1 DEF ScopeOwned
        <3> QED BY <3>1, <3>2
    <2> QED BY <1>2, <2>2, <2>3 DEF ScopeOwned, t
<1> QED BY <1>4, <1>5

LEMMA OwnedEntered ==
    ASSUME NEW s \in Seq(Block), s # << >>, NEW fn, ScopeOwned(s, fn)
    PROVE  ScopeOwned(Entered(s), fn)
<1> DEFINE t == Entered(s)
           m == Len(s)
<1>1. /\ m \in Nat /\ m >= 1 /\ Len(t) = m + 1
      /\ \A i \in 1..m : t[i] = s[i]
      /\ t[m + 1] = EmptyBlock
    BY EnteredShape
<1> HIDE DEF t
<1>2. DOMAIN t[m + 1] = {}
    BY <1>1, EmptyBlockType
<1>3. t[1] = s[1]
    BY <1>1
<1>4. ASSUME NEW i \in 2..Len(t), NEW n \in DOMAIN t[i]
      PROVE  t[i][n] \in [kind : {"param", "local"}, fn : {fn}]
    <2>1. i # m + 1
        BY <1>2, <1>4
    <2>2. i \in 1..m /\ i \in 2..m
        BY <1>1, <2>1
    <2> QED BY <1>1, <1>4, <2>2 DEF ScopeOwned
<1> QED BY <1>3, <1>4 DEF ScopeOwned, t

LEMMA OwnedExited ==
    ASSUME NEW s \in Seq(Block), Len(s) > 1, NEW fn, ScopeOwned(s, fn)
    PROVE  ScopeOwned(Exited(s), fn)
<1> DEFINE t == Exited(s)
           m == Len(s) - 1
<1>1. s # << >> /\ Len(s) \in Nat /\ m \in Nat /\ m >= 1
    OBVIOUS
<1>2. Len(t) = m /\ \A i \in 1..m : t[i] = s[i]
    BY <1>1, ExitedShape
<1> HIDE DEF t
<1>3. t[1] = s[1]
    BY <1>1, <1>2
<1>4. ASSUME NEW i \in 2..m, NEW n \in DOMAIN t[i]
      PROVE  t[i][n] \in [kind : {"param", "local"}, fn : {fn}]
    <2>1. i \in 1..m /\ i \in 2..Len(s)
        BY <1>1
    <2> QED BY <1>2, <1>4, <2>1 DEF ScopeOwned
<1> QED BY <1>2, <1>3, <1>4 DEF ScopeOwned, t

-----------------------------------------------------------------------------
(* Type correctness, the shape of the records and the balance of the       *)
(* symbol table are preserved by every visit.                              *)
LEMMA ScopeFacts ==
    ASSUME TInv
    PROVE  /\ scope \in Seq(Block) /\ scope # << >> /\ ScopeOwned(scope, func_now)
           /\ InGlobal(scope) <=> ~InFunction
           /\ InFunction => Len(scope) > 1
           /\ Cardinality(OpenBlocks(frames)) \in Nat
           /\ Len(scope) = 1 + Cardinality(OpenBlocks(frames))
<1>1. /\ scope \in Seq(Block) /\ ScopeOwned(scope, func_now)
      /\ Len(scope) = 1 + Cardinality(OpenBlocks(frames))
      /\ frames \in Seq(Frame)
    BY DEF TInv, TypeOK, ScopeMatchesNesting, ScopeOwned
<1>2. /\ IsFiniteSet(OpenBlocks(frames)) /\ Cardinality(OpenBlocks(frames)) \in Nat
    BY <1>1, OpenBlocksFinite
<1>3. ~InFunction => Cardinality(OpenBlocks(frames)) = 0
    <2> SUFFICES ASSUME ~InFunction PROVE Cardinality(OpenBlocks(frames)) = 0
        OBVIOUS
    <2>1. OpenBlocks(frames) = {}
        BY <1>1 DEF OpenBlocks, InFunction
    <2> QED BY <2>1, FS_EmptySet
<1>4. InFunction => Cardinality(OpenBlocks(frames)) # 0
    <2> SUFFICES ASSUME InFunction PROVE Cardinality(OpenBlocks(frames)) # 0
        OBVIOUS
    <2>1. 1 \in 1..Len(frames) /\ DOMAIN frames = 1..Len(frames)
        BY <1>1 DEF InFunction
    <2>2. frames[1].kind = "fun"
        BY <2>1 DEF TInv, Shape, ShapeOf
    <2>3. 1 \in OpenBlocks(frames)
        BY <2>1, <2>2 DEF OpenBlocks
    <2> QED BY <1>2, <2>3, FS_EmptySet
<1> DEFINE c == Cardinality(OpenBlocks(frames))
           l == Len(scope)
<1>5. c \in Nat /\ l = 1 + c /\ (~InFunction => c = 0) /\ (InFunction => c # 0)
    BY <1>1, <1>2, <1>3, <1>4
<1> HIDE DEF c, l
<1>6. (l = 1 <=> ~InFunction) /\ (InFunction => l > 1) /\ l # 0
    BY <1>5
<1>7. scope # << >>
    BY <1>6 DEF l
<1> QED BY <1>1, <1>5, <1>6, <1>7 DEF c, l, InGlobal

-----------------------------------------------------------------------------
(* How the discipline of the blocks survives the changes visits make.      *)

(* Instructions are appended to the current block. *)
SameButAt(q, r, b) ==
    /\ q \in IR
    /\ q.used = r.used /\ q.live = r.live /\ q.entry = r.entry
    /\ \A c \in BB : c # b => q.last[c] = r.last[c] /\ q.succ[c] = r.succ[c]

LEMMA TidyAppended ==
    ASSUME NEW n \in Nat, NEW p, NEW r \in IR, NEW now, Tidy(n, p, r, now),
           n # 0, NEW q, SameButAt(q, r, now)
    PROVE  Tidy(n, p, q, now)
<1>1. r.live \subseteq BB /\ MaxBlocks \in Nat
    BY BoundsAreNatural DEF IR
<1>2. now \in r.live /\ now \in 1..r.used /\ r.used \in Nat
    BY DEF Tidy, IR
<1> QED BY <1>1, <1>2 DEF Tidy, SameButAt, BB

(* Visits without pending blocks begin or end. *)
LEMMA TidyReframed ==
    ASSUME NEW n \in Nat, NEW p, NEW r, NEW now, Tidy(n, p, r, now),
           NEW m \in Nat, NEW pp, n = 0 <=> m = 0,
           \A i \in 1..m : IF i <= n THEN pp[i] = p[i] ELSE pp[i] = {},
           \A i \in 1..n : i > m => p[i] = {}
    PROVE  Tidy(m, pp, r, now)
<1>1. \A i \in 1..n : p[i] # {} => i \in 1..m /\ pp[i] = p[i]
    OBVIOUS
<1>2. \A i \in 1..m : pp[i] # {} => i \in 1..n /\ pp[i] = p[i]
    OBVIOUS
<1>3. \A i \in 1..m : now \notin pp[i]
    BY <1>2 DEF Tidy
<1>4. \A i \in 1..m : \A b \in pp[i] : b \in r.live /\ r.last[b] = "none"
    BY <1>2 DEF Tidy
<1>5. \A i \in 1..m, j \in 1..m : i # j => pp[i] \cap pp[j] = {}
    BY <1>2 DEF Tidy
<1>6. \A b \in r.live : \/ r.last[b] = "term"
                        \/ m # 0 /\ b = now
                        \/ \E i \in 1..m : b \in pp[i]
    <2> SUFFICES ASSUME NEW b \in r.live, r.last[b] # "term", ~(m # 0 /\ b = now)
                 PROVE  \E i \in 1..m : b \in pp[i]
        OBVIOUS
    <2>1. PICK i \in 1..n : b \in p[i]
        BY DEF Tidy
    <2> QED BY <1>1, <2>1
<1> QED BY <1>3, <1>4, <1>5, <1>6 DEF Tidy

(* A pending block of the topmost visit becomes the current one. *)
LEMMA TidyProceeded ==
    ASSUME NEW n \in Nat, NEW p, NEW r, NEW now, Tidy(n, p, r, now),
           n # 0, r.last[now] = "term", NEW b \in p[n],
           NEW m \in Nat \ {0}, NEW pp, m = n \/ (m = n - 1 /\ p[n] = {b}),
           \A i \in 1..m : pp[i] = p[i] \ {b}
    PROVE  Tidy(m, pp, r, b)
<1>1. b \in r.live /\ n \in 1..n
    BY DEF Tidy
<1>2. \A i \in 1..m : i \in 1..n
    OBVIOUS
<1>3. ASSUME NEW i \in 1..m
      PROVE  /\ b \notin pp[i]
             /\ \A c \in pp[i] : c \in r.live /\ r.last[c] = "none"
             /\ \A j \in 1..m : i # j => pp[i] \cap pp[j] = {}
    BY <1>2, <1>3 DEF Tidy
<1>4. ASSUME NEW c \in r.live, r.last[c] # "term", c # b
      PROVE  \E i \in 1..m : c \in pp[i]
    <2>1. PICK i \in 1..n : c \in p[i]
        BY <1>4 DEF Tidy
    <2>2. i \in 1..m
        BY <1>4, <2>1
    <2> QED BY <1>4, <2>1, <2>2
<1> QED BY <1>1, <1>3, <1>4 DEF Tidy

(* A pending block of the topmost visit is erased. *)
LEMMA TidyErased ==
    ASSUME NEW n \in Nat, NEW p, NEW r, NEW now, Tidy(n, p, r, now),
           n # 0, NEW b \in p[n],
           NEW m \in Nat \ {0}, NEW pp, m = n \/ (m = n - 1 /\ p[n] = {b}),
           \A i \in 1..m : pp[i] = p[i] \ {b},
           NEW q, q.live = r.live \ {b}, q.used = r.used, q.last = r.last
    PROVE  Tidy(m, pp, q, now)
<1>1. b \in r.live /\ n \in 1..n /\ b # now /\ now \in r.live
    BY DEF Tidy
<1>2. \A i \in 1..m : i \in 1..n
    OBVIOUS
<1>3. ASSUME NEW i \in 1..m
      PROVE  /\ now \notin pp[i]
             /\ \A c \in pp[i] : c \in q.live /\ q.last[c] = "none"
             /\ \A j \in 1..m : i # j => pp[i] \cap pp[j] = {}
    BY <1>2, <1>3 DEF Tidy
<1>4. ASSUME NEW c \in q.live, q.last[c] # "term", c # now
      PROVE  \E i \in 1..m : c \in pp[i]
    <2>1. PICK i \in 1..n : c \in p[i]
        BY <1>4 DEF Tidy
    <2>2. i \in 1..m
        BY <1>4, <2>1
    <2> QED BY <1>4, <2>1, <2>2
<1> QED BY <1>1, <1>3, <1>4 DEF Tidy

(* A visit creates blocks, of which one becomes the current block and some *)
(* are pending in its own record.                                          *)
LEMMA TidyOpened ==
    ASSUME NEW n \in Nat, NEW p, NEW r \in IR, NEW now, Tidy(n, p, r, now),
           NEW k \in Nat, NEW q \in IR, q.used = r.used + k,
           q.live = r.live \cup (r.used + 1)..(r.used + k),
           \A c \in 1..r.used : (n = 0 \/ c # now) => q.last[c] = r.last[c],
           n # 0 => q.last[now] = "term",
           \A c \in BB : c > q.used => q.last[c] = "none",
           NEW here \in (r.used + 1)..(r.used + k),
           NEW P \in SUBSET ((r.used + 1)..(r.used + k)), here \notin P,
           \A c \in P : q.last[c] = "none",
           \A c \in (r.used + 1)..(r.used + k) :
               c \in P \/ c = here \/ q.last[c] = "term",
           NEW pp, \A i \in 1..n : pp[i] = p[i], pp[n + 1] = P
    PROVE  Tidy(n + 1, pp, q, here)
<1> DEFINE new == (r.used + 1)..(r.used + k)
<1>1. r.used \in Nat /\ r.live \subseteq 1..r.used /\ \A c \in new : c \notin 1..r.used
    BY DEF Tidy, IR
<1>2. q.live \subseteq 1..q.used
    BY <1>1
<1> DEFINE u == r.used
           N == n + 1
<1>3. N \in Nat \ {0} /\ \A i \in 1..N : i \in 1..n \/ i = N
    OBVIOUS
<1>4. \A i \in 1..n : \A c \in p[i] : c \in r.live /\ r.last[c] = "none" /\ c # now
    BY DEF Tidy
<1>5. \A i \in 1..n : \A c \in p[i] : c \in q.live /\ q.last[c] = "none" /\ c # here
    BY <1>1, <1>4
<1>6. \A i \in 1..n : p[i] \cap P = {}
    BY <1>1, <1>4
<1>7. ASSUME NEW i \in 1..N
      PROVE  /\ here \notin pp[i]
             /\ \A c \in pp[i] : c \in q.live /\ q.last[c] = "none"
    <2>1. CASE i \in 1..n
        BY <1>5, <2>1
    <2>2. CASE i = N
        BY <2>2
    <2> QED BY <1>3, <2>1, <2>2
<1>8. ASSUME NEW i \in 1..N, NEW j \in 1..N, i # j
      PROVE  pp[i] \cap pp[j] = {}
    <2>1. CASE i \in 1..n /\ j \in 1..n
        BY <1>8, <2>1 DEF Tidy
    <2>2. CASE i \in 1..n /\ j = N
        BY <1>6, <2>2
    <2>3. CASE i = N /\ j \in 1..n
        BY <1>6, <2>3
    <2> QED BY <1>3, <1>8, <2>1, <2>2, <2>3
<1>9. ASSUME NEW c \in q.live, q.last[c] # "term", c # here
      PROVE  \E i \in 1..N : c \in pp[i]
    <2>1. CASE c \in new
        BY <1>3, <1>9, <2>1
    <2>2. CASE c \notin new
        <3>1. c \in r.live /\ c \in 1..r.used
            BY <1>1, <1>9, <2>2
        <3>2. r.last[c] # "term" /\ ~(n # 0 /\ c = now)
            BY <1>9, <3>1
        <3>3. PICK i \in 1..n : c \in p[i]
            BY <3>1, <3>2 DEF Tidy
        <3>4. i \in 1..N
            OBVIOUS
        <3> QED BY <3>3, <3>4
    <2> QED BY <2>1, <2>2
<1>10. here \in q.live
    OBVIOUS
<1> HIDE DEF N
<1>11. Tidy(N, pp, q, here)
    BY <1>2, <1>3, <1>7, <1>8, <1>9, <1>10 DEF Tidy
<1> QED BY <1>11 DEF N

-----------------------------------------------------------------------------
(* Every visit preserves the types, the shape of the records, the balance  *)
(* of the symbol table and the discipline of the blocks; what it may do to *)
(* the blocks that are already there is StepOK.                            *)
StepOK == KeepsLeftBlocks /\ ErasesEmpty

LEMMA BlocksAreNamed == NoBB \notin BB /\ BB = 1..MaxBlocks /\ MaxBlocks \in Nat
BY BoundsAreNatural DEF NoBB, BB

LEMMA Assembled ==
    ASSUME frames' \in Seq(Frame), ShapeOf(frames'), ir' \in IR,
           frames' # << >> => insertAt' = bb_now' /\ bb_now' \in BB /\ func_now' \in BB,
           bb_now' \in BB \cup {NoBB}, insertAt' \in BB \cup {NoBB},
           func_now' \in BB \cup {NoBB}, early' \in BOOLEAN,
           scope' \in Seq(Block), ScopeOwned(scope', func_now'),
           Len(scope') = 1 + Cardinality(OpenBlocks(frames')),
           Tidy(Len(frames'), PendingIn(frames'), ir', bb_now')
    PROVE  IInv'
BY DEF IInv, TInv, TypeOK, Shape, InFunction, ScopeMatchesNesting, ScopeOwned, Discipline

LEMMA Known ==
    ASSUME IInv
    PROVE  /\ frames \in Seq(Frame) /\ ShapeOf(frames) /\ ir \in IR
           /\ Len(frames) \in Nat /\ (InFunction <=> Len(frames) # 0)
           /\ bb_now \in BB \cup {NoBB} /\ insertAt \in BB \cup {NoBB}
           /\ func_now \in BB \cup {NoBB} /\ early \in BOOLEAN
           /\ InFunction => /\ insertAt = bb_now /\ bb_now \in BB /\ func_now \in BB
                            /\ bb_now \in ir.live
           /\ Tidy(Len(frames), PendingIn(frames), ir, bb_now)
           /\ ir.live \subseteq BB
<1>1. /\ frames \in Seq(Frame) /\ ShapeOf(frames) /\ ir \in IR
      /\ bb_now \in BB \cup {NoBB} /\ insertAt \in BB \cup {NoBB}
      /\ func_now \in BB \cup {NoBB} /\ early \in BOOLEAN
      /\ InFunction => insertAt = bb_now /\ bb_now \in BB /\ func_now \in BB
      /\ Tidy(Len(frames), PendingIn(frames), ir, bb_now)
    BY DEF IInv, TInv, TypeOK, Shape, Discipline
<1>2. Len(frames) \in Nat /\ (InFunction <=> Len(frames) # 0)
    BY <1>1 DEF InFunction
<1>3. ir.live \subseteq BB
    BY <1>1 DEF IR
<1>4. InFunction => bb_now \in ir.live
    BY <1>1, <1>2 DEF Tidy
<1> QED BY <1>1, <1>2, <1>3, <1>4

(* Every instruction goes to the current block. *)
LEMMA AppendsToCurrent ==
    ASSUME IInv, InFunction
    PROVE  /\ \A what \in {"none", "plain", "term"}, targets \in SUBSET BB, r \in IR :
                 SameButAt(r, ir, bb_now) =>
                     SameButAt(Put(r, insertAt, what, targets), ir, bb_now)
           /\ \A r \in IR : \A q \in Evaluated(r, insertAt, bb_now) :
                 SameButAt(q, r, bb_now)
           /\ SameButAt(ir, ir, bb_now)
<1>1. insertAt = bb_now /\ bb_now \in BB /\ ir \in IR
    BY Known
<1>2. ASSUME NEW what \in {"none", "plain", "term"}, NEW targets \in SUBSET BB,
             NEW r \in IR, SameButAt(r, ir, bb_now)
      PROVE  SameButAt(Put(r, insertAt, what, targets), ir, bb_now)
    <2> DEFINE q == Put(r, bb_now, what, targets)
    <2>1. /\ q \in IR
          /\ q.used = r.used /\ q.entry = r.entry /\ q.live = r.live
          /\ \A c \in BB : q.last[c] = IF c = bb_now THEN what ELSE r.last[c]
          /\ \A c \in BB : q.succ[c] = IF c = bb_now THEN r.succ[c] \cup targets
                                        ELSE r.succ[c]
        BY <1>1 DEF Put, IR
    <2> HIDE DEF q
    <2>2. SameButAt(q, ir, bb_now)
        BY <1>2, <2>1 DEF SameButAt
    <2> QED BY <1>1, <2>2 DEF q
<1>3. ASSUME NEW r \in IR, NEW q \in Evaluated(r, insertAt, bb_now)
      PROVE  SameButAt(q, r, bb_now)
    BY <1>1, EvaluatedShape DEF SameButAt
<1> QED BY <1>1, <1>2, <1>3 DEF SameButAt

LEMMA AppendingIsOK ==
    ASSUME IInv, InFunction, SameButAt(ir', ir, bb_now)
    PROVE  StepOK
BY Known DEF StepOK, KeepsLeftBlocks, ErasesEmpty, SameButAt

LEMMA VarDeclarationStep ==
    ASSUME IInv, NEW name \in Names, NEW isArray \in BOOLEAN,
           VisitVarDeclaration(name, isArray)
    PROVE  IInv' /\ StepOK
<1>1. CASE InGlobal(scope)
    <2>1. ~InFunction /\ Len(scope) = 1 /\ scope \in Seq(Block) /\ scope # << >>
          /\ ScopeOwned(scope, func_now)
        BY <1>1, ScopeFacts DEF IInv, InGlobal
    <2>2. [kind |-> "global", fn |-> NoBB] \in Vals
        BY BindingsAreValues DEF Binding
    <2>3. /\ scope' \in Seq(Block) /\ Len(scope') = Len(scope)
          /\ ScopeOwned(scope', func_now)
        BY <1>1, <2>1, <2>2, OwnedPushed DEF VisitVarDeclaration
    <2>4. UNCHANGED <<frames, ir, bb_now, insertAt, func_now, early>>
        BY <1>1 DEF VisitVarDeclaration
    <2>5. IInv'
        BY <2>3, <2>4, Known, ScopeFacts, Assembled DEF IInv, InFunction
    <2> QED BY <2>4, <2>5 DEF StepOK, KeepsLeftBlocks, ErasesEmpty
<1>2. CASE ~InGlobal(scope)
    <2>1. InFunction /\ Len(scope) > 1 /\ scope \in Seq(Block) /\ scope # << >>
          /\ ScopeOwned(scope, func_now)
        BY <1>2, ScopeFacts DEF IInv
    <2> DEFINE val == [kind |-> "local", fn |-> func_now]
    <2>2. /\ val \in Vals /\ val \in [kind : {"param", "local"}, fn : {func_now}]
          /\ Len(scope) # 1 /\ scope' = Pushed(scope, name, val)
        BY <1>2, <2>1, Known, BindingsAreValues DEF Binding, InGlobal, VisitVarDeclaration
    <2> HIDE DEF val
    <2>3. /\ scope' \in Seq(Block) /\ Len(scope') = Len(scope)
          /\ ScopeOwned(scope', func_now)
        BY <2>1, <2>2, OwnedPushed
    <2>4. UNCHANGED <<frames, bb_now, insertAt, func_now, early>>
        BY <1>2 DEF VisitVarDeclaration
    <2>5. SameButAt(ir', ir, bb_now)
        <3>1. ir' = Put(ir, insertAt, "plain", {})
            BY <1>2, <2>1, Known DEF VisitVarDeclaration, AllocaBlock, Plain
        <3> QED BY <2>1, <3>1, Known, AppendsToCurrent
    <2>6. Tidy(Len(frames), PendingIn(frames), ir', bb_now)
        BY <2>1, <2>5, Known, TidyAppended
    <2>7. IInv'
        BY <2>3, <2>4, <2>5, <2>6, Known, ScopeFacts, Assembled
           DEF IInv, InFunction, SameButAt
    <2> QED BY <2>1, <2>5, <2>7, AppendingIsOK
<1> QED BY <1>1, <1>2

LEMMA ParamStep ==
    ASSUME IInv, NEW name \in Names, VisitParam(name)
    PROVE  IInv' /\ StepOK
<1>1. InFunction /\ Len(scope) > 1 /\ scope \in Seq(Block) /\ scope # << >>
      /\ ScopeOwned(scope, func_now)
    BY ScopeFacts DEF IInv, VisitParam, Running, InFunction
<1> DEFINE val == [kind |-> "param", fn |-> func_now]
<1>2. /\ val \in Vals /\ val \in [kind : {"param", "local"}, fn : {func_now}]
      /\ Len(scope) # 1 /\ scope' = Pushed(scope, name, val)
    <2>1. val \in Binding /\ val \in [kind : {"param", "local"}, fn : {func_now}]
        BY <1>1, Known DEF Binding
    <2>2. ~InGlobal(scope)
        BY <1>1, ScopeFacts DEF IInv
    <2> QED BY <2>1, <2>2, BindingsAreValues DEF VisitParam, InGlobal
<1> HIDE DEF val
<1>3. /\ scope' \in Seq(Block) /\ Len(scope') = Len(scope)
      /\ ScopeOwned(scope', func_now)
    BY <1>1, <1>2, OwnedPushed
<1>4. UNCHANGED <<frames, bb_now, insertAt, func_now, early>>
    BY DEF VisitParam
<1>5. SameButAt(ir', ir, bb_now)
    <2>1. ir' = Put(ir, insertAt, "plain", {})
        BY DEF VisitParam, Plain
    <2> QED BY <1>1, <2>1, Known, AppendsToCurrent
<1>6. Tidy(Len(frames), PendingIn(frames), ir', bb_now)
    BY <1>1, <1>5, Known, TidyAppended
<1>7. IInv'
    BY <1>3, <1>4, <1>5, <1>6, Known, ScopeFacts, Assembled DEF IInv, InFunction, SameButAt
<1> QED BY <1>1, <1>5, <1>7, AppendingIsOK

(* A statement that is neither compound nor a branch or loop: it appends   *)
(* to the current block, and the visit it belongs to resumes.              *)
LEMMA SimpleStatementStep ==
    ASSUME IInv, AtStatement, NEW returns \in BOOLEAN,
           frames' = ResumedAll(frames, returns), SameButAt(ir', ir, bb_now),
           early' \in BOOLEAN, UNCHANGED <<bb_now, insertAt, func_now, scope>>
    PROVE  IInv' /\ StepOK
<1>1. InFunction /\ Top.pc \in Waiting
    BY DEF AtStatement, InFunction, Waiting
<1>2. /\ frames' \in Seq(Frame) /\ ShapeOf(frames') /\ Len(frames') = Len(frames)
      /\ \A i \in 1..Len(frames) : frames'[i].kind = frames[i].kind
      /\ \A i \in 1..Len(frames) : PendingOf(frames'[i]) = PendingOf(frames[i])
    BY <1>1, AfterStatement DEF IInv, TInv
<1>3. PendingIn(frames') = PendingIn(frames)
    BY <1>2 DEF PendingIn
<1>4. Tidy(Len(frames'), PendingIn(frames'), ir', bb_now')
    <2>1. Tidy(Len(frames), PendingIn(frames), ir', bb_now)
        BY <1>1, Known, TidyAppended
    <2> QED BY <1>2, <1>3, <2>1
<1>5. OpenBlocks(frames') = OpenBlocks(frames)
    BY <1>2, Known, OpenBlocksSame
<1>6. IInv'
    BY <1>1, <1>2, <1>4, <1>5, Known, ScopeFacts, Assembled DEF IInv, InFunction, SameButAt
<1> QED BY <1>1, <1>6, AppendingIsOK

LEMMA ExpressionStmtStep ==
    ASSUME IInv, VisitExpressionStmt
    PROVE  IInv' /\ StepOK
<1>1. SameButAt(ir', ir, bb_now)
    BY Known, AppendsToCurrent DEF VisitExpressionStmt, AtStatement, InFunction
<1>2. early' \in BOOLEAN
    BY Known DEF VisitExpressionStmt, Unreachable, Top, FrameOK
<1> QED BY <1>1, <1>2, SimpleStatementStep DEF VisitExpressionStmt

LEMMA ReturnStep ==
    ASSUME IInv, VisitReturn
    PROVE  IInv' /\ StepOK
<1>1. SameButAt(ir', ir, bb_now)
    <2>1. InFunction
        BY DEF VisitReturn, AtStatement, InFunction
    <2>2. PICK r \in Evaluated(ir, insertAt, bb_now) :
              ir' = Put(r, insertAt, "term", {})
        BY DEF VisitReturn, Ret
    <2>3. SameButAt(r, ir, bb_now) /\ r \in IR
        BY <2>1, Known, AppendsToCurrent DEF SameButAt
    <2> QED BY <2>1, <2>2, <2>3, AppendsToCurrent
<1>2. early' \in BOOLEAN
    BY Known DEF VisitReturn, Unreachable
<1> QED BY <1>1, <1>2, SimpleStatementStep DEF VisitReturn

(* Where the visits that open a record stand. *)
LEMMA AtStatementFacts ==
    ASSUME IInv, AtStatement
    PROVE  InFunction /\ Top.pc \in Waiting
BY DEF AtStatement, InFunction, Waiting

LEMMA PendingAppended ==
    ASSUME NEW n \in Nat, NEW fs \in Seq(Frame), Len(fs) = n,
           NEW gs \in Seq(Frame), Len(gs) = n + 1, \A i \in 1..n : gs[i] = fs[i]
    PROVE  /\ \A i \in 1..n : PendingIn(gs)[i] = PendingIn(fs)[i]
           /\ PendingIn(gs)[n + 1] = PendingOf(gs[n + 1])
BY DEF PendingIn

LEMMA CompoundStep ==
    ASSUME IInv, VisitCompound
    PROVE  IInv' /\ StepOK
<1> DEFINE f == Call("comp", "decls")
           n == Len(frames)
<1>1. InFunction /\ Top.pc \in Waiting
    BY AtStatementFacts DEF VisitCompound, Running, InFunction, Waiting
<1>2. f \in Frame /\ FrameOK(f) /\ f.kind = "comp" /\ PendingOf(f) = {}
    BY BlocksAreNamed DEF Call, Branching, Frame, FrameOK, KindOfPc, PendingOf
<1>3. frames' = Append(frames, f)
    BY DEF VisitCompound
<1> HIDE DEF f
<1>4. /\ frames' \in Seq(Frame) /\ ShapeOf(frames')
      /\ n \in Nat \ {0} /\ Len(frames') = n + 1
      /\ frames'[n + 1] = f
      /\ \A i \in 1..n : frames'[i] = frames[i]
    BY <1>1, <1>2, <1>3, AfterCall DEF IInv, TInv
<1>5. Cardinality(OpenBlocks(frames')) = Cardinality(OpenBlocks(frames)) + 1
    BY <1>2, <1>4, Known, OpenBlocksOneMore
<1>6. /\ scope' \in Seq(Block) /\ Len(scope') = Len(scope) + 1
      /\ ScopeOwned(scope', func_now)
    BY ScopeFacts, EnteredShape, OwnedEntered DEF VisitCompound, IInv
<1>7. Len(scope') = 1 + Cardinality(OpenBlocks(frames'))
    BY <1>5, <1>6, ScopeFacts DEF IInv
<1>8. UNCHANGED <<ir, bb_now, insertAt, func_now>> /\ early' \in BOOLEAN
    BY Known DEF VisitCompound, Unreachable
<1>9. Tidy(Len(frames'), PendingIn(frames'), ir', bb_now')
    <2> DEFINE p == PendingIn(frames)
               pp == PendingIn(frames')
               m == Len(frames')
    <2>1. (\A i \in 1..n : pp[i] = p[i]) /\ pp[n + 1] = {}
        BY <1>2, <1>4, Known, PendingAppended
    <2>2. Tidy(n, p, ir, bb_now) /\ m = n + 1 /\ n \in Nat \ {0}
        BY <1>4, Known
    <2> HIDE DEF p, pp, n, m
    <2>3. /\ \A i \in 1..m : IF i <= n THEN pp[i] = p[i] ELSE pp[i] = {}
          /\ \A i \in 1..n : i > m => p[i] = {}
          /\ m \in Nat /\ (n = 0 <=> m = 0)
        BY <2>1, <2>2
    <2>4. Tidy(m, pp, ir, bb_now)
        BY <2>2, <2>3, TidyReframed
    <2> QED BY <1>8, <2>4 DEF pp, m
<1>10. IInv'
    BY <1>1, <1>4, <1>6, <1>7, <1>8, <1>9, Known, Assembled
<1> QED BY <1>8, <1>10 DEF StepOK, KeepsLeftBlocks, ErasesEmpty

LEMMA LeaveCompoundStep ==
    ASSUME IInv, LeaveCompound
    PROVE  IInv' /\ StepOK
<1> DEFINE m == Len(frames) - 1
<1>1. InFunction /\ Top.kind = "comp" /\ Top \in Frame /\ FrameOK(Top)
    BY FrameFacts DEF LeaveCompound, Running, InFunction, IInv, TInv
<1>2. Top.rets \in BOOLEAN /\ PendingOf(Top) = {}
    BY <1>1, BlocksAreNamed DEF Frame, FrameOK, KindOfPc, PendingOf
<1>3. frames' = ResumedAll(Below, Top.rets)
    BY DEF LeaveCompound
<1>4. /\ frames' \in Seq(Frame) /\ ShapeOf(frames')
      /\ m \in Nat \ {0} /\ Len(frames') = m
      /\ \A i \in 1..m : frames'[i].kind = frames[i].kind
      /\ \A i \in 1..m : PendingOf(frames'[i]) = PendingOf(frames[i])
    BY <1>1, <1>2, <1>3, AfterVisit DEF IInv, TInv
<1>5. /\ Len(frames) = m + 1 /\ frames[m + 1] = Top
    BY Known DEF Top
<1>6. Cardinality(OpenBlocks(frames)) = Cardinality(OpenBlocks(frames')) + 1
    BY <1>1, <1>4, <1>5, Known, OpenBlocksOneMore
<1>7. Cardinality(OpenBlocks(frames')) \in Nat
    BY <1>4, OpenBlocksFinite
<1>8. /\ scope' \in Seq(Block) /\ Len(scope') = Len(scope) - 1
      /\ ScopeOwned(scope', func_now)
    BY <1>1, ScopeFacts, ExitedShape, OwnedExited DEF LeaveCompound, IInv
<1>9. Len(scope') = 1 + Cardinality(OpenBlocks(frames'))
    BY <1>6, <1>7, <1>8, ScopeFacts DEF IInv
<1>10. UNCHANGED <<ir, bb_now, insertAt, func_now, early>>
    BY DEF LeaveCompound
<1>11. Tidy(Len(frames'), PendingIn(frames'), ir', bb_now')
    <2> DEFINE p == PendingIn(frames)
               pp == PendingIn(frames')
               n == Len(frames)
    <2>1. (\A i \in 1..m : pp[i] = p[i]) /\ p[m + 1] = {}
        BY <1>2, <1>4, <1>5 DEF PendingIn
    <2>2. Tidy(n, p, ir, bb_now) /\ n = m + 1 /\ m \in Nat \ {0}
        BY <1>4, <1>5, Known
    <2> HIDE DEF p, pp, n, m
    <2>3. /\ \A i \in 1..m : IF i <= n THEN pp[i] = p[i] ELSE pp[i] = {}
          /\ \A i \in 1..n : i > m => p[i] = {}
          /\ n \in Nat /\ (n = 0 <=> m = 0)
        BY <2>1, <2>2
    <2>4. Tidy(m, pp, ir, bb_now)
        BY <2>2, <2>3, TidyReframed
    <2> QED BY <1>4, <1>10, <2>4 DEF pp, m
<1>12. IInv'
    BY <1>1, <1>4, <1>8, <1>9, <1>10, <1>11, Known, Assembled
<1> QED BY <1>10, <1>12 DEF StepOK, KeepsLeftBlocks, ErasesEmpty

LEMMA FunDeclarationStep ==
    ASSUME IInv, NEW name \in Names, VisitFunDeclaration(name)
    PROVE  IInv' /\ StepOK
<1> DEFINE theBB == ir.used + 1
           f == Call("fun", "params")
           val == [kind |-> "function", fn |-> theBB]
           r == Created(ir, 1)
<1>1. /\ frames = << >> /\ ~InFunction /\ Len(frames) = 0
      /\ ir \in IR /\ ir.used \in Nat /\ theBB \in BB /\ theBB <= MaxBlocks
    <2>1. frames = << >> /\ theBB <= MaxBlocks /\ ir \in IR
        BY Known DEF VisitFunDeclaration
    <2>2. ir.used \in Nat
        BY <2>1, BlocksAreNamed DEF IR
    <2> QED BY <2>1, <2>2, BlocksAreNamed DEF InFunction
<1>2. f \in Frame /\ FrameOK(f) /\ f.kind = "fun" /\ PendingOf(f) = {}
    BY BlocksAreNamed DEF Call, Branching, Frame, FrameOK, KindOfPc, PendingOf
<1>3. /\ frames' = <<f>> /\ bb_now' = theBB /\ insertAt' = theBB /\ func_now' = theBB
      /\ ir' = [r EXCEPT !.entry = @ \cup {theBB}]
      /\ scope' = Entered(Pushed(scope, name, val))
      /\ early' = early
    BY DEF VisitFunDeclaration, ContinueIn
<1>4. /\ r \in IR /\ r.used = ir.used + 1
      /\ r.live = ir.live \cup (ir.used + 1)..(ir.used + 1)
      /\ r.last = ir.last /\ r.succ = ir.succ
    BY <1>1, CreatedShape
<1> HIDE DEF f, r
<1>5. /\ ir' \in IR /\ ir'.used = ir.used + 1
      /\ ir'.live = ir.live \cup (ir.used + 1)..(ir.used + 1)
      /\ ir'.last = ir.last /\ ir'.succ = ir.succ
    BY <1>1, <1>3, <1>4 DEF IR
<1>6. frames' \in Seq(Frame) /\ Len(frames') = 1 /\ frames'[1] = f /\ ShapeOf(frames')
    BY <1>2, <1>3 DEF ShapeOf
<1>7. Cardinality(OpenBlocks(frames')) = 1
    <2>1. OpenBlocks(frames') = {1}
        BY <1>2, <1>6 DEF OpenBlocks
    <2> QED BY <2>1, FS_Singleton
<1>8. /\ scope' \in Seq(Block) /\ Len(scope') = 2 /\ ScopeOwned(scope', func_now')
    <2> DEFINE s == Pushed(scope, name, val)
    <2>1. /\ scope \in Seq(Block) /\ scope # << >> /\ ScopeOwned(scope, func_now)
          /\ Len(scope) = 1
        BY <1>1, ScopeFacts DEF IInv, InGlobal
    <2>2. ScopeOwned(scope, theBB)
        BY <2>1 DEF ScopeOwned
    <2>3. val \in Vals /\ val.kind \in {"global", "function"}
        BY <1>1, BindingsAreValues DEF Binding
    <2> HIDE DEF val, theBB
    <2>4. s \in Seq(Block) /\ Len(s) = 1 /\ ScopeOwned(s, theBB)
        BY <2>1, <2>2, <2>3, OwnedPushed
    <2>5. scope' = Entered(s) /\ func_now' = theBB
        BY <1>3
    <2> HIDE DEF s
    <2>6. s # << >>
        BY <2>4
    <2>7. Entered(s) \in Seq(Block) /\ Len(Entered(s)) = 2
        <3> DEFINE l == Len(s)
                   e == Len(Entered(s))
        <3>1. Entered(s) \in Seq(Block) /\ e = l + 1 /\ l = 1
            BY <2>4, EnteredShape
        <3> HIDE DEF l, e
        <3>2. e = 2
            BY <3>1
        <3> QED BY <3>1, <3>2 DEF e
    <2> QED BY <2>4, <2>5, <2>6, <2>7, OwnedEntered
<1>9. Tidy(1, PendingIn(frames'), ir', theBB)
    <2> DEFINE p == PendingIn(frames)
               pp == PendingIn(frames')
    <2>1. Tidy(0, p, ir, bb_now) /\ pp[1] = {}
        BY <1>1, <1>2, <1>6, Known DEF PendingIn
    <2>2. /\ \A c \in BB : c > ir'.used => ir'.last[c] = "none"
          /\ \A c \in 1..ir.used : ir'.last[c] = ir.last[c]
        BY <1>1, <1>5, <2>1 DEF Tidy, BB
    <2>3. /\ theBB \in (ir.used + 1)..(ir.used + 1)
          /\ \A c \in (ir.used + 1)..(ir.used + 1) : c = theBB
        BY <1>1
    <2> DEFINE q == ir'
               n == 0
               k == 1
               P == {}
               new == (ir.used + 1)..(ir.used + k)
    <2>4. /\ n \in Nat /\ k \in Nat /\ n + 1 = 1 /\ q.used = ir.used + k
          /\ Tidy(n, p, ir, bb_now) /\ ir \in IR
          /\ q \in IR /\ q.live = ir.live \cup new
          /\ \A c \in 1..ir.used : (n = 0 \/ c # bb_now) => q.last[c] = ir.last[c]
          /\ n # 0 => q.last[bb_now] = "term"
          /\ \A c \in BB : c > q.used => q.last[c] = "none"
        BY <1>1, <1>5, <2>1, <2>2
    <2>5. /\ theBB \in new /\ P \in SUBSET new /\ theBB \notin P
          /\ \A c \in P : q.last[c] = "none"
          /\ \A c \in new : c \in P \/ c = theBB \/ q.last[c] = "term"
          /\ \A i \in 1..n : pp[i] = p[i]
          /\ pp[n + 1] = P
        BY <2>1, <2>3
    <2> HIDE DEF p, pp, theBB, q, n, k, P
    <2>6. Tidy(n + 1, pp, q, theBB)
        BY <2>4, <2>5, TidyOpened
    <2> QED BY <2>4, <2>6 DEF pp, q
<1>10. IInv'
    BY <1>1, <1>3, <1>5, <1>6, <1>7, <1>8, <1>9, Known, Assembled
<1>11. StepOK
    <2>1. \A b \in ir.live : b \in BB
        BY Known
    <2> QED BY <1>5, <2>1 DEF StepOK, KeepsLeftBlocks, ErasesEmpty
<1> QED BY <1>10, <1>11

LEMMA LeaveFunDeclarationStep ==
    ASSUME IInv, LeaveFunDeclaration
    PROVE  IInv' /\ StepOK
<1>1. /\ InFunction /\ Top.kind = "fun" /\ Top \in Frame /\ FrameOK(Top)
      /\ Len(frames) = 1
    BY FrameFacts DEF LeaveFunDeclaration, Running, InFunction, IInv, TInv
<1>2. PendingOf(Top) = {}
    BY <1>1, BlocksAreNamed DEF Frame, FrameOK, KindOfPc, PendingOf
<1>3. frames' = Below /\ UNCHANGED <<bb_now, insertAt, func_now, early>>
    BY DEF LeaveFunDeclaration
<1>4. frames' \in Seq(Frame) /\ Len(frames') = 0 /\ frames' = << >> /\ ShapeOf(frames')
    <2>1. frames' \in Seq(Frame) /\ Len(frames') = 0
        BY <1>1, <1>3, Known, BelowShape DEF Below, InFunction
    <2> QED BY <2>1 DEF ShapeOf
<1>5. SameButAt(ir', ir, bb_now) /\ ir'.last[bb_now] = "term"
    <2>1. CASE Terminated(ir, bb_now)
        BY <1>1, <2>1, AppendsToCurrent DEF LeaveFunDeclaration, Terminated
    <2>2. CASE ~Terminated(ir, bb_now)
        <3>1. ir' = Put(ir, insertAt, "term", {}) /\ insertAt = bb_now /\ bb_now \in BB
            BY <1>1, <2>2, Known DEF LeaveFunDeclaration, Ret
        <3>2. SameButAt(ir', ir, bb_now)
            BY <1>1, <3>1, Known, AppendsToCurrent
        <3>3. ir'.last[bb_now] = "term"
            BY <3>1, Known DEF Put, IR
        <3> QED BY <3>2, <3>3
    <2> QED BY <2>1, <2>2
<1>6. Tidy(0, PendingIn(frames'), ir', bb_now)
    <2>1. Tidy(1, PendingIn(frames), ir', bb_now)
        BY <1>1, <1>5, Known, TidyAppended
    <2>2. PendingIn(frames)[1] = {}
        BY <1>1, <1>2 DEF PendingIn, Top
    <2> QED BY <1>5, <2>1, <2>2 DEF Tidy
<1>7. OpenBlocks(frames') = {} /\ Cardinality(OpenBlocks(frames')) = 0
    BY <1>4, FS_EmptySet DEF OpenBlocks
<1>8. Len(scope) = 2
    <2>1. OpenBlocks(frames) = {1}
        BY <1>1, Known DEF OpenBlocks, Top
    <2>2. Cardinality(OpenBlocks(frames)) = 1
        BY <2>1, FS_Singleton
    <2>3. Len(scope) = 1 + Cardinality(OpenBlocks(frames))
        BY ScopeFacts DEF IInv
    <2> QED BY <2>2, <2>3
<1>9. scope' \in Seq(Block) /\ Len(scope') = 1 /\ ScopeOwned(scope', func_now)
    <2>1. scope \in Seq(Block) /\ scope # << >> /\ ScopeOwned(scope, func_now)
        BY ScopeFacts DEF IInv
    <2>2. scope' = Exited(scope)
        BY DEF LeaveFunDeclaration
    <2>3. /\ Exited(scope) \in Seq(Block) /\ Len(Exited(scope)) = Len(scope) - 1
        BY <2>1, ExitedShape
    <2>4. Len(scope) > 1 /\ Len(scope) - 1 = 1
        BY <1>8
    <2>5. ScopeOwned(Exited(scope), func_now)
        BY <2>1, <2>4, OwnedExited
    <2> QED BY <2>2, <2>3, <2>4, <2>5
<1>10. IInv'
    BY <1>3, <1>4, <1>5, <1>6, <1>7, <1>9, Known, Assembled DEF SameButAt
<1> QED BY <1>1, <1>5, <1>10, AppendingIsOK

(* The end of a branch or of a loop's body puts a terminator at its end. *)
LEMMA BranchEndShape ==
    ASSUME IInv, InFunction, Top.out_bb \in BB
    PROVE  SameButAt(BranchEnd, ir, bb_now) /\ BranchEnd.last[bb_now] = "term"
<1>1. CASE Terminated(ir, bb_now)
    BY <1>1, AppendsToCurrent DEF BranchEnd, Terminated
<1>2. CASE ~Terminated(ir, bb_now)
    <2>1. BranchEnd = Put(ir, insertAt, "term", {Top.out_bb})
          /\ insertAt = bb_now /\ bb_now \in BB /\ ir \in IR
        BY <1>2, Known DEF BranchEnd, Branch
    <2>2. SameButAt(BranchEnd, ir, bb_now)
        BY <2>1, AppendsToCurrent
    <2>3. BranchEnd.last[bb_now] = "term"
        BY <2>1 DEF Put, IR
    <2> QED BY <2>2, <2>3
<1> QED BY <1>1, <1>2

(* Only the topmost visit owns its pending blocks. *)
LEMMA OwnPending ==
    ASSUME NEW n \in Nat, NEW p, NEW r, NEW now, Tidy(n, p, r, now), n # 0,
           NEW b \in p[n]
    PROVE  \A i \in 1..n : i # n => p[i] \ {b} = p[i]
BY DEF Tidy

LEMMA TopPending ==
    ASSUME IInv, InFunction
    PROVE  /\ PendingIn(frames)[Len(frames)] = PendingOf(Top)
           /\ PendingOf(Top) \subseteq Pending
           /\ Len(frames) \in Nat \ {0}
BY Known DEF PendingIn, Pending, Top

(* The visit of an if or a while ends, in its out block or without it. *)
LEMMA BranchingLeft ==
    ASSUME IInv, InFunction, PendingOf(Top) = {Top.out_bb},
           Top.kind \in {"if", "while"}, NEW returns \in BOOLEAN,
           frames' = ResumedAll(Below, returns),
           NEW q, SameButAt(q, ir, bb_now), q.last[bb_now] = "term",
           \/ ir' = Erased(q, Top.out_bb) /\ UNCHANGED <<bb_now, insertAt>>
           \/ ir' = q /\ bb_now' = Top.out_bb /\ insertAt' = Top.out_bb,
           early' \in BOOLEAN, UNCHANGED <<func_now, scope>>
    PROVE  IInv' /\ StepOK
<1> DEFINE n == Len(frames)
           m == n - 1
           p == PendingIn(frames)
           pp == PendingIn(frames')
           out == Top.out_bb
<1>1. /\ Top \in Frame /\ FrameOK(Top) /\ out \in BB
      /\ n \in Nat \ {0} /\ p[n] = {out} /\ out \in Pending
    BY FrameFacts, TopPending DEF IInv, TInv, FrameOK, Frame
<1>2. /\ frames' \in Seq(Frame) /\ ShapeOf(frames')
      /\ m \in Nat \ {0} /\ Len(frames') = m
      /\ \A i \in 1..m : frames'[i].kind = frames[i].kind
      /\ \A i \in 1..m : PendingOf(frames'[i]) = PendingOf(frames[i])
    BY AfterVisit DEF IInv, TInv
<1>3. frames' # << >>
    BY <1>2
<1>4. \A i \in 1..m : pp[i] = p[i] \ {out}
    <2>1. \A i \in 1..m : pp[i] = p[i]
        BY <1>1, <1>2 DEF PendingIn
    <2>2. Tidy(n, p, ir, bb_now) /\ out \in p[n] /\ n \in Nat /\ n # 0
        BY <1>1, Known
    <2> HIDE DEF p, pp, out, n
    <2>3. \A i \in 1..n : i # n => p[i] \ {out} = p[i]
        BY <2>2, OwnPending
    <2>4. \A i \in 1..m : i \in 1..n /\ i # n
        BY <1>1
    <2> QED BY <2>1, <2>3, <2>4
<1>5. Tidy(n, p, q, bb_now) /\ q \in IR
    BY <1>1, Known, TidyAppended DEF SameButAt
<1>6. /\ ir' \in IR /\ bb_now' \in BB /\ insertAt' = bb_now'
      /\ Tidy(m, pp, ir', bb_now')
    <2>1. CASE ir' = Erased(q, out) /\ UNCHANGED <<bb_now, insertAt>>
        <3>1. /\ ir' \in IR /\ ir'.live = q.live \ {out} /\ ir'.used = q.used
              /\ ir'.last = q.last
            BY <1>5, <2>1, ErasedShape
        <3> DEFINE s == ir'
        <3> HIDE DEF p, pp, out, n, s
        <3>2. out \in p[n] /\ n # 0 /\ (m = n \/ (m = n - 1 /\ p[n] = {out}))
            BY <1>1
        <3>3. /\ s.live = q.live \ {out} /\ s.used = q.used /\ s.last = q.last
            BY <3>1 DEF s
        <3> HIDE DEF m
        <3>4. m \in Nat \ {0} /\ n \in Nat /\ Tidy(n, p, q, bb_now)
            BY <1>1, <1>2, <1>5
        <3>5. Tidy(m, pp, s, bb_now)
            BY <1>4, <3>2, <3>3, <3>4, TidyErased, SMTT(60)
        <3> QED BY <2>1, <3>1, <3>5, Known DEF s
    <2>2. CASE ir' = q /\ bb_now' = out /\ insertAt' = out
        <3> HIDE DEF p, pp, out, n
        <3>1. out \in p[n] /\ n # 0 /\ (m = n \/ (m = n - 1 /\ p[n] = {out}))
            BY <1>1
        <3>2. n \in Nat /\ m \in Nat \ {0} /\ Tidy(n, p, q, bb_now)
            BY <1>1, <1>2, <1>5
        <3> HIDE DEF m
        <3>3. Tidy(m, pp, q, out)
            BY <1>4, <3>1, <3>2, TidyProceeded, SMTT(60)
        <3> QED BY <1>1, <1>5, <2>2, <3>3
    <2> QED BY <2>1, <2>2
<1>7. Cardinality(OpenBlocks(frames')) = Cardinality(OpenBlocks(frames))
    <2>1. Len(frames) = m + 1 /\ frames[m + 1] = Top
        BY <1>1 DEF Top
    <2>2. Cardinality(OpenBlocks(frames)) = Cardinality(OpenBlocks(frames')) + 0
        BY <1>2, <2>1, Known, OpenBlocksOneMore
    <2> QED BY <1>2, <2>2, OpenBlocksFinite
<1>8. IInv'
    BY <1>2, <1>3, <1>6, <1>7, Known, ScopeFacts, Assembled DEF IInv
<1>9. StepOK
    <2>1. /\ \A b \in BB : b # bb_now => ir'.last[b] = ir.last[b] /\ ir'.succ[b] = ir.succ[b]
          /\ ir'.live = ir.live \/ (ir'.live = ir.live \ {out} /\ bb_now' = bb_now)
        BY <1>5, ErasedShape DEF SameButAt
    <2>2. ir.last[out] = "none" /\ out # bb_now
        BY <1>1, Known DEF Tidy
    <2> QED BY <1>1, <2>1, <2>2, Known DEF StepOK, KeepsLeftBlocks, ErasesEmpty
<1> QED BY <1>8, <1>9

LEMMA LeaveSelectionStep ==
    ASSUME IInv, LeaveSelection
    PROVE  IInv' /\ StepOK
<1>1. InFunction /\ Top.kind = "if" /\ Top.pc \in {"after_true", "after_else"}
      /\ (Top.else_bb # NoBB => Top.pc = "after_else")
    BY DEF LeaveSelection, Running, InFunction
<1>2. Top \in Frame /\ FrameOK(Top) /\ Top.out_bb \in BB
    BY <1>1, FrameFacts DEF IInv, TInv, FrameOK, Frame
<1>3. PendingOf(Top) = {Top.out_bb}
    BY <1>1, <1>2, BlocksAreNamed DEF PendingOf, Frame
<1>4. SameButAt(BranchEnd, ir, bb_now) /\ BranchEnd.last[bb_now] = "term"
    BY <1>1, <1>2, BranchEndShape
<1> DEFINE returns == Top.else_bb # NoBB /\ Top.rets
<1>5. returns \in BOOLEAN /\ frames' = ResumedAll(Below, returns)
    BY <1>2 DEF LeaveSelection, Frame
<1>6. early' \in BOOLEAN /\ UNCHANGED <<func_now, scope>>
    BY Known DEF LeaveSelection
<1>7. \/ ir' = Erased(BranchEnd, Top.out_bb) /\ UNCHANGED <<bb_now, insertAt>>
      \/ ir' = BranchEnd /\ bb_now' = Top.out_bb /\ insertAt' = Top.out_bb
    BY DEF LeaveSelection, ContinueIn
<1> HIDE DEF returns
<1> QED BY <1>1, <1>3, <1>4, <1>5, <1>6, <1>7, BranchingLeft

LEMMA LeaveIterationStep ==
    ASSUME IInv, LeaveIteration
    PROVE  IInv' /\ StepOK
<1>1. InFunction /\ Top.kind = "while" /\ Top.pc = "after_body"
    BY DEF LeaveIteration, Running, InFunction
<1>2. Top \in Frame /\ FrameOK(Top) /\ Top.out_bb \in BB /\ Top.cmp_bb \in BB
    BY <1>1, FrameFacts DEF IInv, TInv, FrameOK, Frame
<1>3. PendingOf(Top) = {Top.out_bb}
    BY <1>1, <1>2, BlocksAreNamed DEF PendingOf, Frame
<1>4. frames' = ResumedAll(Below, FALSE) /\ UNCHANGED <<func_now, scope>>
      /\ early' \in BOOLEAN
    BY Known, <1>2 DEF LeaveIteration, Frame
<1>5. CASE Terminated(ir, bb_now)
    <2>1. /\ SameButAt(ir, ir, bb_now) /\ ir.last[bb_now] = "term"
          /\ ir' = Erased(ir, Top.out_bb) /\ UNCHANGED <<bb_now, insertAt>>
        BY <1>1, <1>5, AppendsToCurrent DEF LeaveIteration, Terminated
    <2> QED BY <1>1, <1>3, <1>4, <2>1, BranchingLeft
<1>6. CASE ~Terminated(ir, bb_now)
    <2> DEFINE q == Put(ir, insertAt, "term", {Top.cmp_bb})
    <2>1. ir' = q /\ bb_now' = Top.out_bb /\ insertAt' = Top.out_bb
        BY <1>6 DEF LeaveIteration, ContinueIn, Branch
    <2>2. insertAt = bb_now /\ bb_now \in BB /\ ir \in IR
        BY <1>1, Known
    <2>3. SameButAt(q, ir, bb_now)
        BY <1>1, <1>2, <2>2, AppendsToCurrent
    <2>4. q.last[bb_now] = "term"
        BY <2>2 DEF Put, IR
    <2> HIDE DEF q
    <2> QED BY <1>1, <1>3, <1>4, <2>1, <2>3, <2>4, BranchingLeft
<1> QED BY <1>5, <1>6

LEMMA SelectionElseFrames ==
    ASSUME IInv, SelectionElse
    PROVE  LET n == Len(frames)
           IN  /\ InFunction /\ n \in Nat \ {0} /\ Top \in Frame /\ FrameOK(Top)
               /\ Top.kind = "if" /\ Top.pc = "after_true"
               /\ Top.else_bb \in BB /\ Top.out_bb \in BB /\ Top.else_bb # Top.out_bb
               /\ AllRet \in {0, 1}
               /\ frames' \in Seq(Frame) /\ ShapeOf(frames') /\ Len(frames') = n
               /\ frames'[n] = [Top EXCEPT !.pc = "else", !.all_ret = AllRet]
               /\ \A i \in 1..n : i # n => frames'[i] = frames[i]
<1> DEFINE n == Len(frames)
           g == [Top EXCEPT !.pc = "else", !.all_ret = AllRet]
<1>1. InFunction /\ Top.kind = "if" /\ Top.pc = "after_true" /\ Top.else_bb # NoBB
    BY DEF SelectionElse, Running, InFunction
<1>2. /\ Top \in Frame /\ FrameOK(Top) /\ n \in Nat \ {0}
      /\ Top.kind = "fun" <=> n = 1
    BY <1>1, FrameFacts DEF IInv, TInv
<1>3. Top.else_bb \in BB /\ Top.out_bb \in BB /\ Top.else_bb # Top.out_bb
    BY <1>1, <1>2 DEF FrameOK, Frame
<1>4. AllRet \in {0, 1}
    BY <1>1, <1>2 DEF AllRet, FrameOK
<1>5. g \in Frame /\ FrameOK(g) /\ g.kind = "if"
    <2> DEFINE t == Top
               a == AllRet
    <2>1. /\ t \in Frame /\ FrameOK(t) /\ t.kind = "if" /\ t.else_bb # NoBB
          /\ a \in {0, 1} /\ g = [t EXCEPT !.pc = "else", !.all_ret = a]
        BY <1>1, <1>2, <1>4
    <2> HIDE DEF t, a, g
    <2> DEFINE h == [t EXCEPT !.pc = "else"]
    <2>2. /\ h \in Frame
          /\ h.kind = t.kind /\ h.pc = "else" /\ h.else_bb = t.else_bb
          /\ h.cmp_bb = t.cmp_bb /\ h.out_bb = t.out_bb
        BY <2>1 DEF Frame
    <2>3. g = [h EXCEPT !.all_ret = a] /\ a \in 0..2
        BY <2>1
    <2> HIDE DEF h
    <2>4. /\ g \in Frame
          /\ g.kind = t.kind /\ g.pc = "else" /\ g.else_bb = t.else_bb
          /\ g.cmp_bb = t.cmp_bb /\ g.out_bb = t.out_bb /\ g.all_ret = a
        BY <2>2, <2>3 DEF Frame
    <2>5. KindOfPc[g.pc] = "if"
        BY <2>4 DEF KindOfPc
    <2> QED BY <2>1, <2>4, <2>5 DEF FrameOK
<1>6. frames' = [frames EXCEPT ![n] = g]
    <2>1. n \in DOMAIN frames
        BY <1>1, <1>2, Known
    <2> QED BY <2>1 DEF SelectionElse, Top
<1> HIDE DEF g
<1>7. /\ frames' \in Seq(Frame) /\ Len(frames') = n /\ frames'[n] = g
      /\ \A i \in 1..n : i # n => frames'[i] = frames[i]
    BY <1>1, <1>5, <1>6, Known, ReplaceTop DEF InFunction
<1>8. ShapeOf(frames')
    BY <1>1, <1>2, <1>5, <1>7, Known DEF ShapeOf, Top
<1> QED BY <1>1, <1>2, <1>3, <1>4, <1>7, <1>8 DEF g

LEMMA SelectionElseStep ==
    ASSUME IInv, SelectionElse
    PROVE  IInv' /\ StepOK
<1> DEFINE n == Len(frames)
           p == PendingIn(frames)
           pp == PendingIn(frames')
           else == Top.else_bb
           q == BranchEnd
<1>1. /\ InFunction /\ n \in Nat \ {0} /\ Top \in Frame
      /\ Top.kind = "if" /\ Top.pc = "after_true"
      /\ else \in BB /\ Top.out_bb \in BB /\ else # Top.out_bb
      /\ frames' \in Seq(Frame) /\ ShapeOf(frames') /\ Len(frames') = n
      /\ frames'[n] = [Top EXCEPT !.pc = "else", !.all_ret = AllRet]
      /\ \A i \in 1..n : i # n => frames'[i] = frames[i]
    BY SelectionElseFrames
<1>2. /\ ir' = q /\ bb_now' = else /\ insertAt' = else
      /\ UNCHANGED <<func_now, scope, early>>
    BY DEF SelectionElse, ContinueIn
<1>3. SameButAt(q, ir, bb_now) /\ q.last[bb_now] = "term"
    BY <1>1, BranchEndShape
<1> HIDE DEF q
<1>4. PendingOf(Top) = {else, Top.out_bb} /\ PendingOf(frames'[n]) = {Top.out_bb}
    BY <1>1, BlocksAreNamed DEF PendingOf, Frame
<1>5. p[n] = {else, Top.out_bb} /\ else \in Pending /\ Tidy(n, p, ir, bb_now)
    BY <1>1, <1>4, Known, TopPending
<1>6. \A i \in 1..n : pp[i] = p[i] \ {else}
    <2>1. /\ pp[n] = {Top.out_bb}
          /\ \A i \in 1..n : i # n => pp[i] = p[i]
        BY <1>1, <1>4 DEF PendingIn
    <2>2. Tidy(n, p, ir, bb_now) /\ else \in p[n] /\ n \in Nat /\ n # 0
        BY <1>1, <1>5
    <2> HIDE DEF p, pp, else, n
    <2>3. \A i \in 1..n : i # n => p[i] \ {else} = p[i]
        BY <2>2, OwnPending
    <2> QED BY <1>1, <1>5, <2>1, <2>3
<1>7. Tidy(n, pp, q, else)
    <2>1. Tidy(n, p, q, bb_now)
        BY <1>1, <1>3, <1>5, Known, TidyAppended
    <2> HIDE DEF p, pp, else, n
    <2> QED BY <1>1, <1>3, <1>5, <1>6, <2>1, TidyProceeded
<1>8. OpenBlocks(frames') = OpenBlocks(frames)
    <2>1. \A i \in 1..n : frames'[i].kind = frames[i].kind
        BY <1>1 DEF Top, Frame
    <2> QED BY <1>1, <2>1, Known, OpenBlocksSame
<1>9. IInv'
    BY <1>1, <1>2, <1>3, <1>7, <1>8, Known, ScopeFacts, Assembled DEF IInv, SameButAt
<1>10. StepOK
    BY <1>1, <1>2, <1>3, AppendingIsOK
<1> QED BY <1>9, <1>10

(* The visit of an if or a while creates k blocks, ends the current one    *)
(* and goes on in one of the new ones; those in P are left pending, the    *)
(* others are already finished.                                            *)
Opened(q, r, now, k, here, P) ==
    LET new == (r.used + 1)..(r.used + k)
    IN  /\ k \in Nat
        /\ q \in IR
        /\ q.used = r.used + k
        /\ q.live = r.live \cup new
        /\ \A c \in 1..r.used : c # now => q.last[c] = r.last[c] /\ q.succ[c] = r.succ[c]
        /\ q.last[now] = "term"
        /\ \A c \in BB : c > q.used => q.last[c] = r.last[c]
        /\ here \in new /\ P \in SUBSET new /\ here \notin P
        /\ \A c \in P : q.last[c] = r.last[c]
        /\ \A c \in new : c \in P \/ c = here \/ q.last[c] = "term"

LEMMA OpenedTidy ==
    ASSUME NEW n \in Nat \ {0}, NEW p, NEW r \in IR, NEW now, Tidy(n, p, r, now),
           NEW q, NEW k, NEW here, NEW P, Opened(q, r, now, k, here, P),
           NEW pp, \A i \in 1..n : pp[i] = p[i], pp[n + 1] = P
    PROVE  Tidy(n + 1, pp, q, here) /\ here \in BB
<1> DEFINE new == (r.used + 1)..(r.used + k)
<1>1. /\ k \in Nat /\ q \in IR /\ q.used = r.used + k /\ q.live = r.live \cup new
      /\ here \in new /\ P \in SUBSET new /\ here \notin P
      /\ \A c \in new : c \in P \/ c = here \/ q.last[c] = "term"
      /\ \A c \in 1..r.used : (n = 0 \/ c # now) => q.last[c] = r.last[c]
      /\ n # 0 => q.last[now] = "term"
    BY DEF Opened
<1>2. r.used \in Nat /\ q.used \in 0..MaxBlocks /\ MaxBlocks \in Nat
    BY <1>1, BlocksAreNamed DEF IR
<1>3. \A c \in new : c \in BB /\ r.last[c] = "none"
    BY <1>1, <1>2 DEF Tidy, BB
<1>4. \A c \in BB : c > q.used => q.last[c] = "none"
    <2>1. \A c \in BB : c > q.used => c > r.used
        BY <1>1, <1>2 DEF BB
    <2> QED BY <2>1 DEF Opened, Tidy
<1>5. \A c \in P : q.last[c] = "none"
    BY <1>1, <1>3 DEF Opened
<1>6. n \in Nat
    OBVIOUS
<1>7. Tidy(n + 1, pp, q, here)
    BY <1>1, <1>4, <1>5, <1>6, TidyOpened
<1> QED BY <1>1, <1>3, <1>7

LEMMA BranchingOpened ==
    ASSUME IInv, AtStatement, NEW f \in Frame, FrameOK(f), f.kind \in {"if", "while"},
           frames' = Append(frames, f), NEW k,
           Opened(ir', ir, bb_now, k, bb_now', PendingOf(f)), insertAt' = bb_now',
           early' \in BOOLEAN, UNCHANGED <<func_now, scope>>
    PROVE  IInv' /\ StepOK
<1> DEFINE n == Len(frames)
           p == PendingIn(frames)
           pp == PendingIn(frames')
<1>1. InFunction /\ Top.pc \in Waiting
    BY AtStatementFacts
<1>2. /\ frames' \in Seq(Frame) /\ ShapeOf(frames')
      /\ n \in Nat \ {0} /\ Len(frames') = n + 1
      /\ frames'[n + 1] = f
      /\ \A i \in 1..n : frames'[i] = frames[i]
    BY <1>1, AfterCall DEF IInv, TInv
<1>3. (\A i \in 1..n : pp[i] = p[i]) /\ pp[n + 1] = PendingOf(f)
    BY <1>2 DEF PendingIn
<1>4. ir \in IR /\ Tidy(n, p, ir, bb_now)
    BY Known
<1>5. Tidy(n + 1, pp, ir', bb_now') /\ bb_now' \in BB
    <2> DEFINE q == ir'
               here == bb_now'
    <2>1. Opened(q, ir, bb_now, k, here, PendingOf(f))
        OBVIOUS
    <2> HIDE DEF n, p, pp, q, here
    <2>2. Tidy(n + 1, pp, q, here) /\ here \in BB
        BY <1>2, <1>3, <1>4, <2>1, OpenedTidy
    <2> QED BY <2>2 DEF q, here
<1>6. Cardinality(OpenBlocks(frames')) = Cardinality(OpenBlocks(frames))
    <2>1. frames \in Seq(Frame) /\ Cardinality(OpenBlocks(frames)) \in Nat
        BY Known, OpenBlocksFinite
    <2>2. \A i \in 1..n : frames'[i].kind = frames[i].kind
        BY <1>2
    <2>3. frames'[Len(frames')].kind \notin {"fun", "comp"}
        BY <1>2
    <2>4. Cardinality(OpenBlocks(frames')) = Cardinality(OpenBlocks(frames)) + 0
        BY <1>2, <2>1, <2>2, <2>3, OpenBlocksOneMore
    <2> QED BY <2>1, <2>4
<1>7. frames' # << >> /\ ir' \in IR
    BY <1>2 DEF Opened
<1>8. IInv'
    BY <1>1, <1>2, <1>5, <1>6, <1>7, Known, ScopeFacts, Assembled DEF IInv
<1>9. StepOK
    <2>1. \A b \in ir.live : b \in 1..ir.used
        BY <1>4 DEF Tidy
    <2> QED BY <1>1, <2>1 DEF StepOK, KeepsLeftBlocks, ErasesEmpty, Opened
<1> QED BY <1>8, <1>9

(* The records these visits open. *)
LEMMA SelectionRecord ==
    ASSUME NEW e \in BB \cup {NoBB}, NEW o \in BB, e # o
    PROVE  LET f == Branching("if", "true", e, NoBB, o)
           IN  /\ f \in Frame /\ FrameOK(f) /\ f.kind = "if" /\ f.pc = "true"
               /\ ~f.rets /\ f.out_bb = o /\ f.else_bb = e
               /\ PendingOf(f) = {o, e} \ {NoBB}
<1> DEFINE f == Branching("if", "true", e, NoBB, o)
<1>1. f = [kind |-> "if", pc |-> "true", else_bb |-> e, cmp_bb |-> NoBB,
           out_bb |-> o, all_ret |-> 0, rets |-> FALSE]
    BY DEF Branching
<1> HIDE DEF f
<1>2. f \in Frame
    BY <1>1 DEF Frame
<1>3. FrameOK(f)
    BY <1>1, BlocksAreNamed DEF FrameOK, KindOfPc
<1>4. PendingOf(f) = {o, e} \ {NoBB}
    BY <1>1 DEF PendingOf
<1> QED BY <1>1, <1>2, <1>3, <1>4 DEF f

LEMMA IterationRecord ==
    ASSUME NEW c \in BB, NEW o \in BB
    PROVE  LET f == Branching("while", "body", NoBB, c, o)
           IN  /\ f \in Frame /\ FrameOK(f) /\ f.kind = "while" /\ f.pc = "body"
               /\ ~f.rets /\ f.out_bb = o /\ f.cmp_bb = c
               /\ f.else_bb = NoBB
               /\ PendingOf(f) = {o}
<1> DEFINE f == Branching("while", "body", NoBB, c, o)
<1>1. f = [kind |-> "while", pc |-> "body", else_bb |-> NoBB, cmp_bb |-> c,
           out_bb |-> o, all_ret |-> 0, rets |-> FALSE]
    BY DEF Branching
<1> HIDE DEF f
<1>2. f \in Frame
    BY <1>1 DEF Frame
<1>3. FrameOK(f)
    BY <1>1, BlocksAreNamed DEF FrameOK, KindOfPc
<1>4. PendingOf(f) = {o}
    BY <1>1, BlocksAreNamed DEF PendingOf
<1> QED BY <1>1, <1>2, <1>3, <1>4 DEF f

LEMMA SelectionOpened ==
    ASSUME NEW r \in IR, NEW now \in BB, now \in 1..r.used,
           NEW k \in {2, 3}, r.used + k <= MaxBlocks,
           NEW e \in Evaluated(Created(r, k), now, now),
           NEW targets \in SUBSET BB,
           NEW P, P = IF k = 3 THEN {r.used + 2, r.used + 3} ELSE {r.used + 2}
    PROVE  Opened(Branch(e, now, targets), r, now, k, r.used + 1, P)
<1> DEFINE c == Created(r, k)
           q == Branch(e, now, targets)
           new == (r.used + 1)..(r.used + k)
<1>1. /\ c \in IR /\ c.used = r.used + k /\ c.live = r.live \cup new
      /\ c.last = r.last /\ c.succ = r.succ
    BY CreatedShape
<1> HIDE DEF c
<1>2. /\ e \in IR /\ e.used = c.used /\ e.live = c.live
      /\ \A x \in BB : e.succ[x] = c.succ[x]
      /\ \A x \in BB : x # now => e.last[x] = c.last[x]
    BY <1>1, EvaluatedShape DEF c
<1>3. /\ q \in IR /\ q.used = e.used /\ q.live = e.live
      /\ \A x \in BB : q.last[x] = IF x = now THEN "term" ELSE e.last[x]
      /\ \A x \in BB : x # now => q.succ[x] = e.succ[x]
    BY <1>2 DEF Branch, Put, IR
<1> HIDE DEF q
<1>4. r.used \in Nat /\ MaxBlocks \in Nat
    BY BlocksAreNamed DEF IR
<1>5. /\ r.used + 1 \in new /\ P \in SUBSET new /\ r.used + 1 \notin P
      /\ \A x \in new : x \in P \/ x = r.used + 1
      /\ \A x \in new : x \in BB /\ x # now
      /\ \A x \in 1..r.used : x \in BB
    BY <1>4 DEF BB
<1>6. \A x \in BB : x > q.used => x # now
    BY <1>1, <1>2, <1>3, <1>4 DEF BB
<1>7. /\ \A x \in 1..r.used : x # now => q.last[x] = r.last[x] /\ q.succ[x] = r.succ[x]
      /\ q.last[now] = "term"
      /\ \A x \in BB : x > q.used => q.last[x] = r.last[x]
      /\ \A x \in P : q.last[x] = r.last[x]
    BY <1>1, <1>2, <1>3, <1>5, <1>6
<1> QED BY <1>1, <1>2, <1>3, <1>5, <1>7 DEF Opened, q

LEMMA SelectionStep ==
    ASSUME IInv, NEW hasElse \in BOOLEAN, VisitSelection(hasElse)
    PROVE  IInv' /\ StepOK
<1> DEFINE k == IF hasElse THEN 3 ELSE 2
           u == ir.used
           if_true_bb == u + 1
           if_else_bb == IF hasElse THEN u + 2 ELSE NoBB
           if_out_bb == u + k
           otherwise == Otherwise(if_else_bb, if_out_bb)
           f == Branching("if", "true", if_else_bb, NoBB, if_out_bb)
<1>1. /\ AtStatement /\ InFunction /\ bb_now \in BB /\ insertAt = bb_now
      /\ ir \in IR /\ u \in Nat /\ MaxBlocks \in Nat /\ bb_now \in 1..u
    <2>1. AtStatement /\ InFunction
        BY AtStatementFacts DEF VisitSelection
    <2>2. ir \in IR /\ MaxBlocks \in Nat /\ u \in Nat
        BY Known, BlocksAreNamed DEF IR
    <2>3. bb_now \in ir.live /\ ir.live \subseteq 1..u
        BY <2>1, Known DEF Tidy
    <2> QED BY <2>1, <2>2, <2>3, Known
<1>2. /\ u + k <= MaxBlocks /\ frames' = Append(frames, f)
      /\ insertAt' = u + 1 /\ bb_now' = u + 1 /\ UNCHANGED <<func_now, scope>>
    BY DEF VisitSelection, ContinueIn, Otherwise
<1>3. PICK e \in Evaluated(Created(ir, k), insertAt, bb_now) :
          ir' = Branch(e, insertAt, {if_true_bb, otherwise})
    BY DEF VisitSelection, ContinueIn, Otherwise
<1>4. early' \in BOOLEAN
    BY Known DEF VisitSelection, Unreachable
<1>5. /\ k \in {2, 3} /\ if_true_bb \in BB /\ otherwise \in BB
      /\ if_else_bb \in BB \cup {NoBB} /\ if_out_bb \in BB
      /\ if_else_bb # if_out_bb /\ if_out_bb # NoBB /\ if_true_bb # if_out_bb
      /\ if_else_bb # if_true_bb
    BY <1>1, <1>2 DEF BB, NoBB, Otherwise
<1>6. /\ f \in Frame /\ FrameOK(f) /\ f.kind = "if"
      /\ PendingOf(f) = {if_out_bb, if_else_bb} \ {NoBB}
    <2> HIDE DEF if_out_bb, if_else_bb
    <2> QED BY <1>5, SelectionRecord
<1>7. PendingOf(f) = IF k = 3 THEN {u + 2, u + 3} ELSE {u + 2}
    <2> HIDE DEF u, f
    <2>1. u + 2 # NoBB /\ u + 3 # NoBB
        BY <1>1 DEF NoBB
    <2> QED BY <1>6, <2>1
<1>8. Opened(ir', ir, bb_now, k, u + 1, PendingOf(f))
    <2> DEFINE targets == {if_true_bb, otherwise}
               P == PendingOf(f)
    <2>1. /\ targets \in SUBSET BB /\ ir' = Branch(e, bb_now, targets)
          /\ e \in Evaluated(Created(ir, k), bb_now, bb_now)
        BY <1>1, <1>3, <1>5
    <2>2. k \in {2, 3} /\ ir.used + k <= MaxBlocks
          /\ P = IF k = 3 THEN {ir.used + 2, ir.used + 3} ELSE {ir.used + 2}
        BY <1>2, <1>5, <1>7
    <2> HIDE DEF targets, k, P
    <2>3. Opened(Branch(e, bb_now, targets), ir, bb_now, k, ir.used + 1, P)
        BY <1>1, <2>1, <2>2, SelectionOpened
    <2> QED BY <2>1, <2>3 DEF P
<1> HIDE DEF f, k
<1> QED BY <1>1, <1>2, <1>4, <1>6, <1>8, BranchingOpened

LEMMA IterationOpened ==
    ASSUME NEW r \in IR, NEW now \in BB, now \in 1..r.used, r.used + 3 <= MaxBlocks,
           NEW cmp, cmp = r.used + 1,
           NEW e \in Evaluated(Branch(Created(r, 3), now, {cmp}), cmp, cmp),
           NEW targets \in SUBSET BB
    PROVE  Opened(Branch(e, cmp, targets), r, now, 3, r.used + 2, {r.used + 3})
<1> DEFINE c == Created(r, 3)
           b == Branch(c, now, {cmp})
           q == Branch(e, cmp, targets)
           new == (r.used + 1)..(r.used + 3)
<1>1. /\ c \in IR /\ c.used = r.used + 3 /\ c.live = r.live \cup new
      /\ c.last = r.last /\ c.succ = r.succ
    BY CreatedShape
<1>2. r.used \in Nat /\ MaxBlocks \in Nat /\ cmp \in BB /\ cmp # now /\ cmp \in new
    BY BlocksAreNamed DEF IR, BB
<1> HIDE DEF c
<1>3. /\ b \in IR /\ b.used = c.used /\ b.live = c.live
      /\ \A x \in BB : b.last[x] = IF x = now THEN "term" ELSE c.last[x]
      /\ \A x \in BB : x # now => b.succ[x] = c.succ[x]
    BY <1>1, <1>2 DEF Branch, Put, IR
<1> HIDE DEF b
<1>4. e \in Evaluated(b, cmp, cmp)
    BY DEF b, c
<1>5. /\ e \in IR /\ e.used = b.used /\ e.live = b.live
      /\ \A x \in BB : e.succ[x] = b.succ[x]
      /\ \A x \in BB : x # cmp => e.last[x] = b.last[x]
    BY <1>2, <1>3, <1>4, EvaluatedShape
<1>6. /\ q \in IR /\ q.used = e.used /\ q.live = e.live
      /\ \A x \in BB : q.last[x] = IF x = cmp THEN "term" ELSE e.last[x]
      /\ \A x \in BB : x # cmp => q.succ[x] = e.succ[x]
    BY <1>2, <1>5 DEF Branch, Put, IR
<1> HIDE DEF q
<1>7. /\ r.used + 2 \in new /\ {r.used + 3} \in SUBSET new /\ r.used + 2 # r.used + 3
      /\ \A x \in new : x = cmp \/ x = r.used + 2 \/ x = r.used + 3
      /\ \A x \in new : x \in BB /\ x # now
      /\ r.used + 3 # cmp
      /\ \A x \in 1..r.used : x \in BB /\ x # cmp
    BY <1>2 DEF BB
<1>8. \A x \in BB : x > q.used => x # now /\ x # cmp
    BY <1>1, <1>2, <1>3, <1>5, <1>6 DEF BB
<1>9. /\ \A x \in 1..r.used : x # now => q.last[x] = r.last[x] /\ q.succ[x] = r.succ[x]
      /\ q.last[now] = "term" /\ q.last[cmp] = "term"
      /\ \A x \in BB : x > q.used => q.last[x] = r.last[x]
      /\ q.last[r.used + 3] = r.last[r.used + 3]
    <2>1. \A x \in BB : (x # now /\ x # cmp) =>
              q.last[x] = r.last[x] /\ q.succ[x] = r.succ[x]
        BY <1>1, <1>3, <1>5, <1>6
    <2>2. q.last[now] = "term" /\ q.last[cmp] = "term"
        BY <1>2, <1>3, <1>5, <1>6
    <2> QED BY <1>2, <1>7, <1>8, <2>1, <2>2
<1>10. q.used = r.used + 3 /\ q.live = r.live \cup new
    BY <1>1, <1>3, <1>5, <1>6
<1> QED BY <1>6, <1>7, <1>9, <1>10 DEF Opened, q

LEMMA IterationStep ==
    ASSUME IInv, VisitIteration
    PROVE  IInv' /\ StepOK
<1> DEFINE u == ir.used
           cmp == u + 1
           f == Branching("while", "body", NoBB, cmp, u + 3)
<1>1. /\ AtStatement /\ InFunction /\ bb_now \in BB /\ insertAt = bb_now
      /\ ir \in IR /\ u \in Nat /\ MaxBlocks \in Nat /\ bb_now \in 1..u
    <2>1. AtStatement /\ InFunction
        BY AtStatementFacts DEF VisitIteration
    <2>2. ir \in IR /\ MaxBlocks \in Nat /\ u \in Nat
        BY Known, BlocksAreNamed DEF IR
    <2>3. bb_now \in ir.live /\ ir.live \subseteq 1..u
        BY <2>1, Known DEF Tidy
    <2> QED BY <2>1, <2>2, <2>3, Known
<1>2. /\ u + 3 <= MaxBlocks /\ frames' = Append(frames, f)
      /\ insertAt' = u + 2 /\ bb_now' = u + 2 /\ UNCHANGED <<func_now, scope>>
    BY DEF VisitIteration, ContinueIn
<1>3. PICK e \in Evaluated(Branch(Created(ir, 3), insertAt, {cmp}), cmp, cmp) :
          ir' = Branch(e, cmp, {u + 2, u + 3})
    BY DEF VisitIteration, ContinueIn
<1>4. early' \in BOOLEAN
    BY Known DEF VisitIteration, Unreachable
<1>5. cmp \in BB /\ u + 2 \in BB /\ u + 3 \in BB
    BY <1>1, <1>2 DEF BB
<1>6. f \in Frame /\ FrameOK(f) /\ f.kind = "while" /\ PendingOf(f) = {u + 3}
    <2> DEFINE out == u + 3
    <2>1. out \in BB
        BY <1>5
    <2> HIDE DEF cmp, out
    <2>2. LET g == Branching("while", "body", NoBB, cmp, out)
          IN  g \in Frame /\ FrameOK(g) /\ g.kind = "while" /\ PendingOf(g) = {out}
        BY <1>5, <2>1, IterationRecord
    <2> QED BY <2>2 DEF out
<1>7. Opened(ir', ir, bb_now, 3, u + 2, PendingOf(f))
    <2> DEFINE targets == {u + 2, u + 3}
    <2>1. /\ targets \in SUBSET BB /\ ir' = Branch(e, cmp, targets)
          /\ e \in Evaluated(Branch(Created(ir, 3), bb_now, {cmp}), cmp, cmp)
        BY <1>1, <1>3, <1>5
    <2>2. cmp = ir.used + 1 /\ ir.used + 3 <= MaxBlocks
        BY <1>2
    <2> HIDE DEF targets, cmp
    <2>3. Opened(Branch(e, cmp, targets), ir, bb_now, 3, ir.used + 2, {ir.used + 3})
        BY <1>1, <2>1, <2>2, IterationOpened
    <2> QED BY <1>6, <2>1, <2>3
<1> HIDE DEF f
<1> QED BY <1>1, <1>2, <1>4, <1>6, <1>7, BranchingOpened

-----------------------------------------------------------------------------
(* The invariant holds initially and every visit preserves it. *)
LEMMA InitIInv == Init => IInv
<1> SUFFICES ASSUME Init PROVE IInv
    OBVIOUS
<1>1. ir \in IR /\ ir.used = 0 /\ ir.live = {} /\ \A b \in BB : ir.last[b] = "none"
    BY BlocksAreNamed DEF Init, IR
<1>2. scope \in Seq(Block) /\ Len(scope) = 1 /\ scope[1] = EmptyBlock
    BY EmptyBlockType DEF Init, Entered
<1>3. frames = << >> /\ Len(frames) = 0 /\ frames \in Seq(Frame) /\ ~InFunction
    BY DEF Init, InFunction
<1>4. TypeOK
    BY <1>1, <1>2, <1>3 DEF Init, TypeOK
<1>5. Shape
    BY <1>3 DEF Shape, ShapeOf
<1>6. ScopeMatchesNesting
    <2>1. Cardinality(OpenBlocks(frames)) = 0
        <3>1. OpenBlocks(frames) = {}
            BY <1>3 DEF OpenBlocks
        <3> QED BY <3>1, FS_EmptySet
    <2> QED BY <1>2, <2>1, EmptyBlockType DEF ScopeMatchesNesting
<1>7. Discipline
    BY <1>1, <1>3 DEF Discipline, Tidy
<1> QED BY <1>4, <1>5, <1>6, <1>7 DEF IInv, TInv

LEMMA NextIInv == IInv /\ [Next]_vars => IInv' /\ (StepOK \/ UNCHANGED vars)
<1> SUFFICES ASSUME IInv, [Next]_vars PROVE IInv' /\ (StepOK \/ UNCHANGED vars)
    OBVIOUS
<1>1. CASE UNCHANGED vars
    BY <1>1 DEF vars, IInv, TInv, TypeOK, Shape, InFunction, ScopeMatchesNesting, Discipline
<1>2. CASE Next
    <2>1. CASE \E name \in Names, isArray \in BOOLEAN : VisitVarDeclaration(name, isArray)
        BY <2>1, VarDeclarationStep
    <2>2. CASE \E name \in Names : VisitFunDeclaration(name)
        BY <2>2, FunDeclarationStep
    <2>3. CASE \E name \in Names : VisitParam(name)
        BY <2>3, ParamStep
    <2>4. CASE LeaveFunDeclaration
        BY <2>4, LeaveFunDeclarationStep
    <2>5. CASE VisitCompound
        BY <2>5, CompoundStep
    <2>6. CASE LeaveCompound
        BY <2>6, LeaveCompoundStep
    <2>7. CASE VisitExpressionStmt
        BY <2>7, ExpressionStmtStep
    <2>8. CASE VisitReturn
        BY <2>8, ReturnStep
    <2>9. CASE \E hasElse \in BOOLEAN : VisitSelection(hasElse)
        BY <2>9, SelectionStep
    <2>10. CASE SelectionElse
        BY <2>10, SelectionElseStep
    <2>11. CASE LeaveSelection
        BY <2>11, LeaveSelectionStep
    <2>12. CASE VisitIteration
        BY <2>12, IterationStep
    <2>13. CASE LeaveIteration
        BY <2>13, LeaveIterationStep
    <2> QED BY <1>2, <2>1, <2>2, <2>3, <2>4, <2>5, <2>6, <2>7, <2>8, <2>9, <2>10,
               <2>11, <2>12, <2>13 DEF Next
<1> QED BY <1>1, <1>2

LEMMA InvariantHolds == Spec => []IInv
<1>1. Init => IInv
    BY InitIInv
<1>2. IInv /\ [Next]_vars => IInv'
    BY NextIInv
<1> QED BY <1>1, <1>2, PTL DEF Spec

(* The statement generator is type correct for every program and nesting. *)
THEOREM StmtGenTypeCorrect == Spec => []TypeOK
<1>1. IInv => TypeOK
    BY DEF IInv, TInv
<1> QED BY <1>1, InvariantHolds, PTL

(* Instructions go through the builder and through bb_now; for every       *)
(* program both write to the same block, and it has not been erased.       *)
THEOREM InsertionPointsAgree == Spec => []InsertInSync
<1>1. IInv => InsertInSync
    BY Known DEF InsertInSync
<1> QED BY <1>1, InvariantHolds, PTL

(* The blocks of the symbol table are balanced over any nesting of visits, *)
(* and hold no alloca of another function.                                 *)
THEOREM ScopeIsBalanced == Spec => []ScopeMatchesNesting
<1>1. IInv => ScopeMatchesNesting
    BY DEF IInv, TInv
<1> QED BY <1>1, InvariantHolds, PTL

(* No basic block of a finished function lacks a terminator.               *)
THEOREM FinishedFunctionsAreClosed == Spec => []FunctionsAreClosed
<1>1. IInv => FunctionsAreClosed
    <2> SUFFICES ASSUME IInv, ~InFunction, NEW b \in ir.live
                 PROVE  Terminated(ir, b)
        BY DEF FunctionsAreClosed
    <2>1. Len(frames) = 0 /\ Tidy(Len(frames), PendingIn(frames), ir, bb_now)
        BY Known
    <2> QED BY <2>1 DEF Tidy, Terminated
<1> QED BY <1>1, InvariantHolds, PTL

(* Nothing is added to a block that has been left, and it stays.           *)
THEOREM BlocksLeftStayAsTheyAre == Spec => LeftBlocksAreFinal
<1>1. IInv /\ [Next]_vars => [KeepsLeftBlocks]_vars
    BY NextIInv DEF StepOK
<1> QED BY <1>1, InvariantHolds, PTL DEF Spec, LeftBlocksAreFinal

(* eraseFromParent() only ever throws away an empty block that is not the  *)
(* current one.                                                            *)
THEOREM ErasedBlocksAreEmpty == Spec => ErasesOnlyEmptyBlocks
<1>1. IInv /\ [Next]_vars => [ErasesEmpty]_vars
    BY NextIInv DEF StepOK
<1> QED BY <1>1, InvariantHolds, PTL DEF Spec, ErasesOnlyEmptyBlocks

-----------------------------------------------------------------------------
(***************************************************************************)
(* What holds of the programs that do not return early, whatever their     *)
(* nesting: no code follows a terminator, no branch dangles, and the       *)
(* terminator of the current block says what the statements say.  And what *)
(* holds of every program: the blocks of a finished function are reached.  *)
(***************************************************************************)
(* Branches name blocks that have been created and not erased. *)
Edges(r) ==
    /\ ~r.broken
    /\ \A b \in r.live : r.succ[b] \subseteq r.live
    /\ \A b \in BB : r.succ[b] \subseteq 1..r.used
    /\ \A b \in BB : b > r.used => r.succ[b] = {}

(* What the topmost visit f knows of returns when the current block has a  *)
(* terminator, or has none.                                                *)
TopAgrees(f, term) ==
    /\ f.pc \in {"params", "decls", "true", "else", "body"} => ~term
    /\ f.pc \in {"params", "decls"} => ~f.rets
    /\ f.pc = "after_else" => (f.rets <=> (term /\ f.all_ret = 1))
    /\ f.pc \in {"leave", "stmts", "after_true", "after_body"} => (f.rets <=> term)

(* all_ret counts what the statements say, and no visit goes on behind a   *)
(* statement that returns.                                                 *)
RetsAgree(f, waits) ==
    /\ f.pc = "else" => (f.rets <=> f.all_ret = 1)
    /\ waits /\ f.kind = "comp" => ~f.rets

(* The out block of an if may still be erased; nothing must jump to it. *)
MayErase(f) ==
    f.else_bb # NoBB /\ (f.pc \in {"true", "after_true"} \/ f.all_ret = 1)

(* The blocks a running visit will jump to, or erase. *)
BlocksAgree(f, r, now) ==
    /\ MayErase(f) => \A b \in BB : f.out_bb \notin r.succ[b]
    /\ f.kind = "while" => /\ f.cmp_bb \in r.live /\ f.cmp_bb # now
                           /\ r.last[f.cmp_bb] = "term"

Agreement ==
    /\ Edges(ir)
    /\ InFunction => TopAgrees(Top, Terminated(ir, bb_now))
    /\ \A i \in 1..Len(frames) :
          /\ RetsAgree(frames[i], i < Len(frames))
          /\ BlocksAgree(frames[i], ir, bb_now)

WInv == IInv /\ (~early => Agreement)

-----------------------------------------------------------------------------
(* What the operations on the blocks do to the edges. *)
LEMMA EdgesPut ==
    ASSUME NEW r \in IR, Edges(r), NEW b \in BB, r.last[b] # "term", b \in 1..r.used,
           r.live \subseteq 1..r.used,
           NEW what \in {"none", "plain", "term"}, NEW targets, targets \subseteq r.live
    PROVE  LET q == Put(r, b, what, targets)
           IN  /\ Edges(q) /\ q \in IR
               /\ q.live = r.live /\ q.used = r.used
               /\ \A c \in BB : q.last[c] = IF c = b THEN what ELSE r.last[c]
               /\ \A c \in BB : q.succ[c] \subseteq r.succ[c] \cup targets
<1> DEFINE q == Put(r, b, what, targets)
<1>1. r.live \subseteq BB /\ targets \in SUBSET BB /\ r.used \in Nat
    BY BlocksAreNamed DEF IR
<1>2. /\ q \in IR
      /\ q.used = r.used /\ q.live = r.live
      /\ \A c \in BB : q.last[c] = IF c = b THEN what ELSE r.last[c]
      /\ \A c \in BB : q.succ[c] = IF c = b THEN r.succ[c] \cup targets ELSE r.succ[c]
      /\ q.broken <=> (r.broken \/ r.last[b] = "term")
    BY <1>1 DEF Put, IR
<1> HIDE DEF q
<1>3. Edges(q)
    <2>1. ~q.broken
        BY <1>2 DEF Edges
    <2>2. \A c \in q.live : q.succ[c] \subseteq q.live
        BY <1>1, <1>2 DEF Edges
    <2>3. \A c \in BB : q.succ[c] \subseteq 1..q.used
        BY <1>1, <1>2 DEF Edges
    <2>4. \A c \in BB : c > q.used => q.succ[c] = {}
        BY <1>1, <1>2 DEF Edges
    <2> QED BY <2>1, <2>2, <2>3, <2>4 DEF Edges
<1> QED BY <1>2, <1>3 DEF q

LEMMA EdgesCreated ==
    ASSUME NEW r \in IR, Edges(r), NEW n \in Nat, r.used + n <= MaxBlocks
    PROVE  Edges(Created(r, n))
<1> DEFINE q == Created(r, n)
           new == (r.used + 1)..(r.used + n)
<1>1. /\ q \in IR /\ q.used = r.used + n /\ q.live = r.live \cup new
      /\ q.last = r.last /\ q.succ = r.succ /\ q.broken = r.broken
    BY CreatedShape
<1>2. r.used \in Nat /\ MaxBlocks \in Nat /\ r.live \subseteq BB
    BY BlocksAreNamed DEF IR
<1>3. \A b \in new : b \in BB /\ b > r.used
    BY <1>2 DEF BB
<1> HIDE DEF q
<1>4. \A b \in q.live : q.succ[b] \subseteq q.live
    BY <1>1, <1>3 DEF Edges
<1>5. \A b \in BB : q.succ[b] \subseteq 1..q.used
    BY <1>1, <1>2 DEF Edges
<1>6. \A b \in BB : b > q.used => q.succ[b] = {}
    BY <1>1, <1>2 DEF Edges, BB
<1>7. Edges(q)
    BY <1>1, <1>4, <1>5, <1>6 DEF Edges
<1> QED BY <1>7 DEF q

LEMMA EdgesEvaluated ==
    ASSUME NEW r \in IR, Edges(r), NEW at \in BB, r.last[at] # "term",
           NEW q \in Evaluated(r, at, at)
    PROVE  Edges(q) /\ q.last[at] # "term"
<1>1. /\ q \in IR
      /\ q.used = r.used /\ q.live = r.live
      /\ \A c \in BB : q.succ[c] = r.succ[c]
      /\ q.last[at] = r.last[at] \/ q.last[at] = "plain"
      /\ q.broken <=> r.broken
    BY EvaluatedShape
<1>2. r.live \subseteq BB
    BY DEF IR
<1> QED BY <1>1, <1>2 DEF Edges

(* An expression is evaluated, and then a terminator ends its block. *)
LEMMA EdgesTerminated ==
    ASSUME NEW r \in IR, Edges(r), r.live \subseteq 1..r.used,
           NEW at \in BB, at \in r.live, r.last[at] # "term",
           NEW e \in Evaluated(r, at, at), NEW targets, targets \subseteq r.live
    PROVE  LET q == Branch(e, at, targets)
           IN  /\ q \in IR /\ Edges(q) /\ q.live = r.live
               /\ q.last[at] = "term"
               /\ \A b \in BB : b # at => q.last[b] = r.last[b]
               /\ \A b \in BB : q.succ[b] \subseteq r.succ[b] \cup targets
<1>1. Edges(e) /\ e.last[at] # "term"
    BY EdgesEvaluated
<1>2. /\ e \in IR /\ e.used = r.used /\ e.live = r.live
      /\ \A b \in BB : e.succ[b] = r.succ[b]
      /\ \A b \in BB : b # at => e.last[b] = r.last[b]
    BY EvaluatedShape
<1>3. at \in 1..e.used /\ e.live \subseteq 1..e.used /\ targets \subseteq e.live
    BY <1>2
<1>4. LET q == Put(e, at, "term", targets)
      IN  /\ Edges(q) /\ q \in IR
          /\ q.live = e.live /\ q.used = e.used
          /\ \A b \in BB : q.last[b] = IF b = at THEN "term" ELSE e.last[b]
          /\ \A b \in BB : q.succ[b] \subseteq e.succ[b] \cup targets
    <2>1. e \in IR /\ Edges(e) /\ e.last[at] # "term"
        BY <1>1, <1>2
    <2> QED BY <1>3, <2>1, EdgesPut, Zenon
<1> QED BY <1>2, <1>4 DEF Branch

LEMMA EdgesErased ==
    ASSUME NEW r \in IR, Edges(r), NEW o, \A b \in BB : o \notin r.succ[b]
    PROVE  Edges(Erased(r, o))
<1>1. LET q == Erased(r, o)
      IN  /\ q.live = r.live \ {o}
          /\ q.used = r.used
          /\ q.succ = r.succ /\ q.broken = r.broken
    BY ErasedShape
<1>2. r.live \subseteq BB
    BY DEF IR
<1> QED BY <1>1, <1>2 DEF Edges

-----------------------------------------------------------------------------
(* What the visits know, carried from a state to the next. *)
LEMMA ResumedAgrees ==
    ASSUME NEW f \in Frame, FrameOK(f), f.pc \in Waiting, RetsAgree(f, TRUE),
           NEW returns \in BOOLEAN
    PROVE  LET g == Resumed(f, returns)
           IN  /\ TopAgrees(g, returns)
               /\ RetsAgree(g, FALSE)
               /\ MayErase(g) => MayErase(f)
<1> DEFINE g == Resumed(f, returns)
           newRets == CASE f.kind = "comp" -> f.rets \/ returns
                        [] f.pc = "else"   -> f.rets /\ returns
                        [] OTHER           -> returns
<1>1. /\ g.pc = NextPc[f.pc] /\ g.all_ret = f.all_ret /\ g.else_bb = f.else_bb
    BY ResumedShape
<1>2. g.rets = newRets
    BY DEF Resumed, Frame
<1> HIDE DEF g
<1>3. f.kind = "comp" <=> f.pc \in {"decls", "stmts"}
    BY DEF FrameOK, KindOfPc, Waiting
<1>4. CASE f.pc \in {"decls", "stmts"}
    <2>1. ~f.rets /\ f.rets \in BOOLEAN
        BY <1>3, <1>4 DEF RetsAgree, Frame
    <2>2. g.rets <=> returns
        BY <1>2, <1>3, <1>4, <2>1
    <2>3. g.pc = "stmts"
        BY <1>1, <1>4 DEF NextPc
    <2> QED BY <2>2, <2>3, <1>1 DEF TopAgrees, RetsAgree, MayErase, g
<1>5. CASE f.pc = "else"
    <2>1. g.rets <=> (returns /\ f.all_ret = 1)
        BY <1>2, <1>3, <1>5 DEF RetsAgree
    <2>2. g.pc = "after_else"
        BY <1>1, <1>5 DEF NextPc
    <2> QED BY <2>1, <2>2, <1>1 DEF TopAgrees, RetsAgree, MayErase, g
<1>6. CASE f.pc \in {"params", "true", "body"}
    <2>1. g.rets <=> returns
        BY <1>2, <1>3, <1>6
    <2>2. /\ g.pc \in {"leave", "after_true", "after_body"}
          /\ g.pc = "after_true" => f.pc = "true"
        BY <1>1, <1>6 DEF NextPc
    <2> QED BY <2>1, <2>2, <1>1 DEF TopAgrees, RetsAgree, MayErase, g
<1> QED BY <1>4, <1>5, <1>6 DEF Waiting

(* A step adds only edges to blocks in T, and keeps the blocks left; then  *)
(* the blocks that a visit holds are as before.                            *)
LEMMA BlocksKept ==
    ASSUME IInv, Agreement, StepOK, ir' \in IR,
           NEW i \in 1..Len(frames), NEW T,
           \A b \in BB : ir'.succ[b] \subseteq ir.succ[b] \cup T,
           MayErase(frames[i]) => frames[i].out_bb \notin T,
           bb_now' = bb_now \/ bb_now' \in Pending \/ bb_now' \notin ir.live,
           NEW g, g.kind = frames[i].kind, g.out_bb = frames[i].out_bb,
           g.cmp_bb = frames[i].cmp_bb, MayErase(g) => MayErase(frames[i])
    PROVE  BlocksAgree(g, ir', bb_now')
<1> DEFINE f == frames[i]
<1>1. BlocksAgree(f, ir, bb_now)
    BY DEF Agreement
<1>2. MayErase(g) => \A b \in BB : g.out_bb \notin ir'.succ[b]
    BY <1>1 DEF BlocksAgree
<1>3. ASSUME g.kind = "while"
      PROVE  /\ g.cmp_bb \in ir'.live /\ g.cmp_bb # bb_now'
             /\ ir'.last[g.cmp_bb] = "term"
    <2>1. f.cmp_bb \in ir.live /\ f.cmp_bb # bb_now /\ ir.last[f.cmp_bb] = "term"
        BY <1>1, <1>3 DEF BlocksAgree
    <2>2. f.cmp_bb \notin Pending
        <3>1. \A j \in 1..Len(frames) : \A b \in PendingIn(frames)[j] : ir.last[b] = "none"
            BY Known DEF Tidy
        <3>2. \A j \in 1..Len(frames) : \A b \in PendingOf(frames[j]) : ir.last[b] = "none"
            BY <3>1 DEF PendingIn
        <3>3. DOMAIN frames = 1..Len(frames)
            BY Known
        <3> QED BY <2>1, <3>2, <3>3 DEF Pending
    <2>3. f.cmp_bb \in ir'.live /\ ir'.last[f.cmp_bb] = ir.last[f.cmp_bb]
        BY <2>1, <2>2 DEF StepOK, KeepsLeftBlocks
    <2> QED BY <2>1, <2>2, <2>3
<1> QED BY <1>2, <1>3 DEF BlocksAgree

(* Where a statement begins, the current block has no terminator, unless   *)
(* it stands behind one that returns.                                      *)
LEMMA CurrentIsOpen ==
    ASSUME IInv, Agreement, InFunction,
           Top.pc \in {"params", "decls", "stmts", "true", "else", "body"}, ~Unreachable
    PROVE  /\ ir.last[bb_now] # "term"
           /\ RetsAgree(Top, TRUE)
<1>1. /\ Top \in Frame /\ FrameOK(Top) /\ Len(frames) \in 1..Len(frames)
    BY FrameFacts DEF IInv, TInv
<1>2. TopAgrees(Top, Terminated(ir, bb_now)) /\ RetsAgree(Top, FALSE)
    <2>1. TopAgrees(Top, Terminated(ir, bb_now))
        BY DEF Agreement
    <2>2. RetsAgree(Top, Len(frames) < Len(frames))
        BY <1>1 DEF Agreement, Top
    <2> QED BY <2>1, <2>2 DEF RetsAgree
<1>3. Top.kind = "comp" => ~Top.rets
    BY DEF Unreachable
<1>4. Top.pc = "stmts" => Top.kind = "comp"
    BY <1>1 DEF FrameOK, KindOfPc
<1>5. ~Terminated(ir, bb_now)
    BY <1>2, <1>3, <1>4 DEF TopAgrees
<1> QED BY <1>2, <1>3, <1>5 DEF Terminated, RetsAgree

-----------------------------------------------------------------------------
(* How the agreement is put together again after a step. *)
LEMMA Agreed ==
    ASSUME Edges(ir'),
           frames' # << >> =>
               TopAgrees(frames'[Len(frames')], Terminated(ir', bb_now')),
           \A i \in 1..Len(frames') :
               /\ RetsAgree(frames'[i], i < Len(frames'))
               /\ BlocksAgree(frames'[i], ir', bb_now')
    PROVE  Agreement'
BY DEF Agreement, InFunction, Top

LEMMA OutIsPending ==
    ASSUME IInv, NEW i \in 1..Len(frames), frames[i].kind \in {"if", "while"}
    PROVE  /\ frames[i].out_bb \in PendingIn(frames)[i]
           /\ frames[i].out_bb \in ir.live
           /\ ir.last[frames[i].out_bb] = "none"
           /\ frames[i].out_bb # bb_now
<1>1. FrameOK(frames[i])
    BY Known DEF ShapeOf
<1>2. frames[i].out_bb \in PendingOf(frames[i])
    BY <1>1 DEF FrameOK, PendingOf
<1>3. frames[i].out_bb \in PendingIn(frames)[i]
    BY <1>2 DEF PendingIn
<1> QED BY <1>3, Known DEF Tidy

(* No block of T can be erased by one of the visits up to the m-th. *)
Spares(T, m) == \A i \in 1..m : MayErase(frames[i]) => frames[i].out_bb \notin T

(* A statement is over, and the m-th visit, then the topmost, resumes. *)
LEMMA ResumptionAgrees ==
    ASSUME IInv, Agreement, StepOK, ir' \in IR, Edges(ir'),
           NEW m \in 1..Len(frames), frames' \in Seq(Frame), Len(frames') = m,
           NEW returns \in BOOLEAN, frames'[m] = Resumed(frames[m], returns),
           frames[m] \in Frame, FrameOK(frames[m]), frames[m].pc \in Waiting,
           RetsAgree(frames[m], TRUE),
           \A i \in 1..(m - 1) : frames'[i] = frames[i],
           NEW T, \A b \in BB : ir'.succ[b] \subseteq ir.succ[b] \cup T, Spares(T, m),
           bb_now' = bb_now \/ bb_now' \in Pending,
           ir'.last[bb_now'] = "term" <=> returns
    PROVE  Agreement'
<1> DEFINE f == frames[m]
           g == frames'[m]
<1>0. /\ f \in Frame /\ FrameOK(f) /\ f.pc \in Waiting /\ RetsAgree(f, TRUE)
      /\ g = Resumed(f, returns)
    OBVIOUS
<1>3. Len(frames) \in Nat /\ m \in Nat /\ m \in 1..m
    BY Known
<1> HIDE DEF f, g
<1>1. /\ TopAgrees(g, returns)
      /\ RetsAgree(g, FALSE)
      /\ MayErase(g) => MayErase(f)
      /\ g.kind = f.kind /\ g.out_bb = f.out_bb /\ g.cmp_bb = f.cmp_bb
    <2>1. LET h == Resumed(f, returns)
          IN  /\ TopAgrees(h, returns)
              /\ RetsAgree(h, FALSE)
              /\ MayErase(h) => MayErase(f)
        BY <1>0, ResumedAgrees
    <2>2. LET h == Resumed(f, returns)
          IN  h.kind = f.kind /\ h.out_bb = f.out_bb /\ h.cmp_bb = f.cmp_bb
        BY <1>0, ResumedShape
    <2> QED BY <1>0, <2>1, <2>2
<1>2. TopAgrees(g, Terminated(ir', bb_now'))
    BY <1>1 DEF Terminated, TopAgrees
<1>4. BlocksAgree(g, ir', bb_now')
    <2>1. MayErase(f) => f.out_bb \notin T
        BY <1>3 DEF Spares, f
    <2>2. bb_now' = bb_now \/ bb_now' \in Pending \/ bb_now' \notin ir.live
        OBVIOUS
    <2> QED BY <1>1, <2>1, <2>2, BlocksKept DEF f
<1>5. ASSUME NEW i \in 1..(m - 1)
      PROVE  /\ RetsAgree(frames'[i], TRUE)
             /\ BlocksAgree(frames'[i], ir', bb_now')
    <2>1. i \in 1..Len(frames) /\ i < Len(frames) /\ i \in 1..m
        BY <1>3
    <2>2. RetsAgree(frames[i], i < Len(frames))
        BY <2>1 DEF Agreement
    <2>3. RetsAgree(frames[i], TRUE)
        BY <2>1, <2>2 DEF RetsAgree
    <2>4. BlocksAgree(frames[i], ir', bb_now')
        BY <2>1, BlocksKept DEF Spares
    <2> QED BY <2>3, <2>4
<1>6. ASSUME NEW i \in 1..m
      PROVE  /\ RetsAgree(frames'[i], i < m)
             /\ BlocksAgree(frames'[i], ir', bb_now')
    <2>1. CASE i = m
        BY <2>1, <1>1, <1>4 DEF RetsAgree, g
    <2>2. CASE i # m
        <3>1. i \in 1..(m - 1)
            BY <2>2, <1>3
        <3> QED BY <3>1, <1>5 DEF RetsAgree
    <2> QED BY <2>1, <2>2
<1> QED BY <1>2, <1>6, Agreed DEF g

(* A visit begins. *)
LEMMA BeginningAgrees ==
    ASSUME IInv, Agreement, StepOK, ir' \in IR, Edges(ir'),
           NEW f \in Frame, frames' = Append(frames, f),
           frames # << >> => RetsAgree(Top, TRUE),
           RetsAgree(f, FALSE), TopAgrees(f, Terminated(ir', bb_now')),
           BlocksAgree(f, ir', bb_now'),
           NEW T, \A b \in BB : ir'.succ[b] \subseteq ir.succ[b] \cup T,
           Spares(T, Len(frames)), bb_now' = bb_now \/ bb_now' \notin ir.live
    PROVE  Agreement'
<1> DEFINE n == Len(frames)
<1>1. /\ n \in Nat /\ Len(frames') = n + 1 /\ frames'[n + 1] = f
      /\ \A i \in 1..n : frames'[i] = frames[i]
    BY Known
<1>2. ASSUME NEW i \in 1..n
      PROVE  /\ RetsAgree(frames[i], TRUE)
             /\ BlocksAgree(frames[i], ir', bb_now')
    <2>1. RetsAgree(frames[i], i < n)
        BY DEF Agreement
    <2>2. CASE i = n
        <3>1. frames # << >>
            BY <2>2, <1>1
        <3> QED BY <2>2, <3>1, BlocksKept DEF Spares, Top
    <2>3. CASE i # n
        <3>1. i < n
            BY <2>3, <1>1
        <3> QED BY <2>1, <3>1, BlocksKept DEF Spares, RetsAgree
    <2> QED BY <2>2, <2>3
<1>3. ASSUME NEW i \in 1..(n + 1)
      PROVE  /\ RetsAgree(frames'[i], i < n + 1)
             /\ BlocksAgree(frames'[i], ir', bb_now')
    <2>1. CASE i = n + 1
        BY <2>1, <1>1 DEF RetsAgree
    <2>2. CASE i \in 1..n
        BY <2>2, <1>1, <1>2 DEF RetsAgree
    <2> QED BY <2>1, <2>2, <1>1
<1> QED BY <1>1, <1>3, Agreed

-----------------------------------------------------------------------------
(* One lemma per visit.  Declarations and the function itself: *)
LEMMA PlainAgrees ==
    ASSUME IInv, Agreement, InFunction, Top.pc \in {"params", "decls"},
           ir' = Plain(ir, bb_now), UNCHANGED <<frames, bb_now>>
    PROVE  Agreement'
<1>1. /\ ir \in IR /\ bb_now \in BB /\ bb_now \in ir.live /\ ir.live \subseteq 1..ir.used
      /\ Edges(ir)
    BY Known DEF Tidy, Agreement
<1>2. TopAgrees(Top, Terminated(ir, bb_now))
    BY DEF Agreement
<1>3. ~Terminated(ir, bb_now)
    BY <1>2 DEF TopAgrees
<1>4. /\ Edges(ir') /\ ir'.live = ir.live
      /\ \A c \in BB : ir'.last[c] = IF c = bb_now THEN "plain" ELSE ir.last[c]
      /\ \A c \in BB : ir'.succ[c] \subseteq ir.succ[c]
    <2> DEFINE q == Put(ir, bb_now, "plain", {})
    <2>1. ir.last[bb_now] # "term" /\ bb_now \in 1..ir.used
        BY <1>1, <1>3 DEF Terminated
    <2>2. /\ Edges(q) /\ q.live = ir.live
          /\ \A c \in BB : q.last[c] = IF c = bb_now THEN "plain" ELSE ir.last[c]
          /\ \A c \in BB : q.succ[c] \subseteq ir.succ[c] \cup {}
        BY <1>1, <2>1, EdgesPut
    <2> QED BY <2>2 DEF Plain
<1>5. Terminated(ir', bb_now') <=> Terminated(ir, bb_now)
    BY <1>1, <1>3, <1>4 DEF Terminated
<1>6. TopAgrees(Top, Terminated(ir', bb_now'))
    BY <1>2, <1>5 DEF TopAgrees
<1>7. ASSUME NEW i \in 1..Len(frames)
      PROVE  BlocksAgree(frames[i], ir', bb_now')
    <2>1. BlocksAgree(frames[i], ir, bb_now)
        BY DEF Agreement
    <2>2. ir.live \subseteq BB
        BY Known
    <2> QED BY <1>4, <2>1, <2>2 DEF BlocksAgree
<1> QED BY <1>4, <1>6, <1>7, Agreed DEF Agreement, Top

LEMMA VarDeclarationAgrees ==
    ASSUME IInv, Agreement, NEW name \in Names, NEW isArray \in BOOLEAN,
           VisitVarDeclaration(name, isArray)
    PROVE  Agreement'
<1>1. CASE InGlobal(scope)
    BY <1>1 DEF VisitVarDeclaration, Agreement, InFunction, Top
<1>2. CASE ~InGlobal(scope)
    <2>1. InFunction /\ insertAt = bb_now
        BY <1>2, ScopeFacts, Known DEF IInv
    <2>2. Top.pc = "decls"
        BY <2>1 DEF VisitVarDeclaration, Running, InFunction
    <2>3. ir' = Plain(ir, bb_now) /\ UNCHANGED <<frames, bb_now>>
        BY <1>2, <2>1 DEF VisitVarDeclaration, AllocaBlock
    <2> QED BY <2>1, <2>2, <2>3, PlainAgrees
<1> QED BY <1>1, <1>2

LEMMA ParamAgrees ==
    ASSUME IInv, Agreement, NEW name \in Names, VisitParam(name)
    PROVE  Agreement'
<1>1. InFunction /\ Top.pc = "params"
    BY DEF VisitParam, Running, InFunction
<1>2. ir' = Plain(ir, bb_now) /\ UNCHANGED <<frames, bb_now>>
    BY <1>1, Known DEF VisitParam
<1> QED BY <1>1, <1>2, PlainAgrees

LEMMA FunDeclarationAgrees ==
    ASSUME IInv, Agreement, NEW name \in Names, VisitFunDeclaration(name)
    PROVE  Agreement'
<1> DEFINE theBB == ir.used + 1
           c == Created(ir, 1)
           f == Call("fun", "params")
<1>1. /\ ir \in IR /\ ir.used \in Nat /\ MaxBlocks \in Nat /\ theBB <= MaxBlocks
      /\ theBB \in BB
    BY Known, BlocksAreNamed DEF VisitFunDeclaration, IR, BB
<1>2. Edges(c) /\ c \in IR /\ c.last = ir.last
    BY <1>1, EdgesCreated, CreatedShape DEF Agreement
<1> HIDE DEF c
<1>3. ir' = [c EXCEPT !.entry = @ \cup {theBB}] /\ bb_now' = theBB /\ frames' = <<f>>
    BY DEF VisitFunDeclaration, ContinueIn, c
<1>4. /\ ir'.live = c.live /\ ir'.used = c.used /\ ir'.succ = c.succ
      /\ ir'.broken = c.broken /\ ir'.last = c.last
    BY <1>2, <1>3 DEF IR
<1>5. Edges(ir')
    BY <1>2, <1>4 DEF Edges
<1>6. ~Terminated(ir', bb_now')
    <2>1. theBB > ir.used
        BY <1>1
    <2>2. ir.last[theBB] = "none"
        BY <1>1, <2>1, Known DEF Tidy
    <2> QED BY <1>2, <1>3, <1>4, <2>2 DEF Terminated
<1>7. f.pc = "params" /\ ~f.rets /\ f.kind = "fun" /\ f.else_bb = NoBB
    BY DEF Call, Branching
<1> HIDE DEF f
<1>8. TopAgrees(f, FALSE) /\ RetsAgree(f, FALSE) /\ BlocksAgree(f, ir', bb_now')
    BY <1>7 DEF TopAgrees, RetsAgree, BlocksAgree, MayErase
<1>9. Len(frames') = 1 /\ frames'[1] = f
    BY <1>3
<1>10. ASSUME NEW i \in 1..Len(frames')
       PROVE  /\ RetsAgree(frames'[i], i < Len(frames'))
              /\ BlocksAgree(frames'[i], ir', bb_now')
    <2>1. i = 1
        BY <1>9
    <2> QED BY <1>8, <1>9, <2>1 DEF RetsAgree
<1>11. TopAgrees(frames'[Len(frames')], Terminated(ir', bb_now'))
    BY <1>6, <1>8, <1>9 DEF TopAgrees
<1> QED BY <1>5, <1>10, <1>11, Agreed

LEMMA LeaveFunDeclarationAgrees ==
    ASSUME IInv, Agreement, LeaveFunDeclaration
    PROVE  Agreement'
<1>1. InFunction /\ Len(frames) = 1
    BY FrameFacts DEF LeaveFunDeclaration, Running, InFunction, IInv, TInv
<1>2. Len(frames') = 0
    BY <1>1, Known, BelowShape DEF LeaveFunDeclaration, Below, InFunction
<1>3. frames' = << >>
    <2>1. frames \in Seq(Frame) /\ frames # << >>
        BY <1>1, Known DEF InFunction
    <2>2. frames' \in Seq(Frame)
        BY <2>1, BelowShape DEF LeaveFunDeclaration, Below
    <2> QED BY <1>2, <2>2
<1>4. Edges(ir')
    <2>1. CASE Terminated(ir, bb_now)
        BY <2>1 DEF LeaveFunDeclaration, Agreement
    <2>2. CASE ~Terminated(ir, bb_now)
        <3>1. ir' = Put(ir, bb_now, "term", {})
            BY <1>1, <2>2, Known DEF LeaveFunDeclaration, Ret
        <3>2. /\ ir \in IR /\ bb_now \in BB /\ bb_now \in 1..ir.used
              /\ ir.live \subseteq 1..ir.used /\ ir.last[bb_now] # "term" /\ Edges(ir)
            BY <1>1, <2>2, Known DEF Tidy, Terminated, Agreement
        <3>3. Edges(Put(ir, bb_now, "term", {}))
            BY <3>2, EdgesPut
        <3> QED BY <3>1, <3>3
    <2> QED BY <2>1, <2>2
<1> QED BY <1>2, <1>3, <1>4, Agreed

-----------------------------------------------------------------------------
(* Statements that stay in the current block. *)
LEMMA StatementBegins ==
    ASSUME IInv, Agreement, AtStatement \/ Running("fun", {"params"}), ~Unreachable
    PROVE  /\ InFunction /\ Top \in Frame /\ FrameOK(Top) /\ Top.pc \in Waiting
           /\ Top = frames[Len(frames)] /\ Len(frames) \in 1..Len(frames)
           /\ insertAt = bb_now /\ bb_now \in BB /\ bb_now \in 1..ir.used
           /\ ir \in IR /\ Edges(ir) /\ ir.live \subseteq 1..ir.used
           /\ ir.used \in Nat /\ MaxBlocks \in Nat
           /\ ir.last[bb_now] # "term" /\ RetsAgree(Top, TRUE)
<1>1. InFunction /\ Top.pc \in {"params", "decls", "stmts", "true", "else", "body"}
    BY DEF AtStatement, Running, InFunction
<1>2. Top \in Frame /\ FrameOK(Top) /\ Len(frames) \in 1..Len(frames)
    BY <1>1, FrameFacts DEF IInv, TInv
<1>3. /\ bb_now \in ir.live /\ ir.live \subseteq 1..ir.used /\ ir \in IR
      /\ insertAt = bb_now /\ bb_now \in BB
    BY <1>1, Known DEF Tidy
<1>4. ir.used \in Nat /\ MaxBlocks \in Nat
    BY <1>3, BlocksAreNamed DEF IR
<1> QED BY <1>1, <1>2, <1>3, <1>4, CurrentIsOpen DEF Agreement, Waiting, Top

LEMMA SimpleStatementAgrees ==
    ASSUME IInv, Agreement, AtStatement, ~Unreachable, StepOK, ir' \in IR, Edges(ir'),
           NEW returns \in BOOLEAN, frames' = ResumedAll(frames, returns),
           \A b \in BB : ir'.succ[b] \subseteq ir.succ[b],
           bb_now' = bb_now, ir'.last[bb_now] = "term" <=> returns
    PROVE  Agreement'
<1> DEFINE n == Len(frames)
<1>1. /\ InFunction /\ Top \in Frame /\ FrameOK(Top) /\ Top.pc \in Waiting
      /\ Top = frames[n] /\ n \in 1..n /\ RetsAgree(Top, TRUE)
    BY StatementBegins
<1>2. /\ frames' \in Seq(Frame) /\ Len(frames') = n
      /\ frames'[n] = Resumed(frames[n], returns)
      /\ \A i \in 1..(n - 1) : frames'[i] = frames[i]
    BY <1>1, AfterStatement DEF IInv, TInv
<1>3. \A b \in BB : ir'.succ[b] \subseteq ir.succ[b] \cup {}
    OBVIOUS
<1>4. Spares({}, n)
    BY DEF Spares
<1> QED BY <1>1, <1>2, <1>3, <1>4, ResumptionAgrees

LEMMA ExpressionStmtAgrees ==
    ASSUME IInv, Agreement, VisitExpressionStmt, ~early'
    PROVE  Agreement'
<1>1. AtStatement /\ ~Unreachable /\ StepOK
    BY ExpressionStmtStep DEF VisitExpressionStmt
<1>2. /\ ir \in IR /\ Edges(ir) /\ bb_now \in BB /\ ir.last[bb_now] # "term"
      /\ ir' \in Evaluated(ir, bb_now, bb_now)
    BY <1>1, StatementBegins DEF VisitExpressionStmt
<1>3. /\ ir' \in IR /\ Edges(ir') /\ ir'.last[bb_now] # "term"
      /\ \A b \in BB : ir'.succ[b] = ir.succ[b]
    BY <1>2, EdgesEvaluated, EvaluatedShape
<1>4. frames' = ResumedAll(frames, FALSE) /\ bb_now' = bb_now
    BY DEF VisitExpressionStmt
<1> QED BY <1>1, <1>3, <1>4, SimpleStatementAgrees

LEMMA ReturnAgrees ==
    ASSUME IInv, Agreement, VisitReturn, ~early'
    PROVE  Agreement'
<1>1. AtStatement /\ ~Unreachable /\ StepOK
    BY ReturnStep DEF VisitReturn
<1>2. /\ ir \in IR /\ Edges(ir) /\ bb_now \in BB /\ ir.last[bb_now] # "term"
      /\ bb_now \in 1..ir.used /\ ir.live \subseteq 1..ir.used
    BY <1>1, StatementBegins
<1>3. PICK r \in Evaluated(ir, bb_now, bb_now) : ir' = Branch(r, bb_now, {})
    BY <1>1, StatementBegins DEF VisitReturn, Ret, Branch
<1>4. bb_now \in ir.live /\ {} \subseteq ir.live
    BY <1>1, StatementBegins, Known
<1>5. /\ ir' \in IR /\ Edges(ir') /\ ir'.last[bb_now] = "term"
      /\ \A b \in BB : ir'.succ[b] \subseteq ir.succ[b]
    <2>1. LET q == Branch(r, bb_now, {})
          IN  /\ q \in IR /\ Edges(q) /\ q.live = ir.live
              /\ q.last[bb_now] = "term"
              /\ \A b \in BB : b # bb_now => q.last[b] = ir.last[b]
              /\ \A b \in BB : q.succ[b] \subseteq ir.succ[b] \cup {}
        BY <1>2, <1>4, EdgesTerminated, Zenon
    <2> QED BY <1>3, <2>1
<1>6. frames' = ResumedAll(frames, TRUE) /\ bb_now' = bb_now
    BY DEF VisitReturn
<1> QED BY <1>1, <1>5, <1>6, SimpleStatementAgrees

(* A compound statement. *)
LEMMA CompoundAgrees ==
    ASSUME IInv, Agreement, VisitCompound, ~early'
    PROVE  Agreement'
<1> DEFINE f == Call("comp", "decls")
<1>1. /\ AtStatement \/ Running("fun", {"params"})
      /\ ~Unreachable /\ StepOK /\ UNCHANGED <<ir, bb_now>> /\ frames' = Append(frames, f)
    BY CompoundStep DEF VisitCompound
<1>2. /\ ir \in IR /\ Edges(ir) /\ ir.last[bb_now] # "term" /\ RetsAgree(Top, TRUE)
    BY <1>1, StatementBegins
<1>3. /\ f \in Frame /\ f.pc = "decls" /\ ~f.rets /\ f.kind = "comp" /\ f.else_bb = NoBB
    BY BlocksAreNamed DEF Call, Branching, Frame
<1> HIDE DEF f
<1>4. /\ RetsAgree(f, FALSE) /\ TopAgrees(f, Terminated(ir', bb_now'))
      /\ BlocksAgree(f, ir', bb_now')
    BY <1>1, <1>2, <1>3 DEF RetsAgree, TopAgrees, BlocksAgree, MayErase, Terminated
<1>5. Spares({}, Len(frames)) /\ \A b \in BB : ir'.succ[b] \subseteq ir.succ[b] \cup {}
    BY <1>1 DEF Spares
<1>6. ir' \in IR /\ Edges(ir') /\ bb_now' = bb_now
    BY <1>1, <1>2
<1> QED BY <1>1, <1>2, <1>3, <1>4, <1>5, <1>6, BeginningAgrees

(* A visit other than that of the function ends. *)
LEMMA VisitLeft ==
    ASSUME IInv, Agreement, StepOK, ir' \in IR, Edges(ir'),
           InFunction, Top.kind # "fun", NEW returns \in BOOLEAN,
           frames' = ResumedAll(Below, returns),
           NEW T, \A b \in BB : ir'.succ[b] \subseteq ir.succ[b] \cup T,
           Spares(T, Len(frames) - 1),
           bb_now' = bb_now \/ bb_now' \in Pending,
           ir'.last[bb_now'] = "term" <=> returns
    PROVE  Agreement'
<1> DEFINE m == Len(frames) - 1
<1>1. /\ frames' \in Seq(Frame) /\ m \in Nat \ {0} /\ Len(frames') = m
      /\ frames'[m] = Resumed(frames[m], returns)
      /\ frames[m] \in Frame /\ FrameOK(frames[m]) /\ frames[m].pc \in Waiting
      /\ \A i \in 1..(m - 1) : frames'[i] = frames[i]
    BY AfterVisit DEF IInv, TInv
<1>2. m \in 1..Len(frames) /\ m < Len(frames)
    BY <1>1, Known
<1>3. RetsAgree(frames[m], TRUE)
    <2>1. RetsAgree(frames[m], m < Len(frames))
        BY <1>2 DEF Agreement
    <2> QED BY <1>2, <2>1 DEF RetsAgree
<1>4. Spares(T, m)
    OBVIOUS
<1> HIDE DEF m
<1> QED BY <1>1, <1>2, <1>3, <1>4, ResumptionAgrees

LEMMA LeaveCompoundAgrees ==
    ASSUME IInv, Agreement, LeaveCompound
    PROVE  Agreement'
<1> DEFINE returns == Top.rets
<1>1. /\ InFunction /\ Top.kind = "comp" /\ Top.pc \in {"decls", "stmts"} /\ StepOK
      /\ frames' = ResumedAll(Below, returns) /\ UNCHANGED <<ir, bb_now>>
    BY LeaveCompoundStep DEF LeaveCompound, Running, InFunction
<1>2. returns \in BOOLEAN
    BY <1>1, FrameFacts DEF IInv, TInv, Frame
<1>3. ir.last[bb_now] = "term" <=> returns
    <2>1. TopAgrees(Top, Terminated(ir, bb_now))
        BY <1>1 DEF Agreement
    <2> QED BY <1>1, <2>1 DEF TopAgrees, Terminated
<1> HIDE DEF returns
<1>4. /\ ir' \in IR /\ Edges(ir') /\ bb_now' = bb_now
      /\ ir'.last[bb_now'] = "term" <=> returns
      /\ \A b \in BB : ir'.succ[b] \subseteq ir.succ[b] \cup {}
    BY <1>1, <1>3, Known DEF Agreement
<1>5. Spares({}, Len(frames) - 1)
    BY DEF Spares
<1> QED BY <1>1, <1>2, <1>4, <1>5, VisitLeft

-----------------------------------------------------------------------------
(* The ends of an if and of a while. *)
LEMMA OwnIsSpared ==
    ASSUME IInv, InFunction, NEW b \in PendingOf(Top)
    PROVE  Spares({b}, Len(frames) - 1)
<1> DEFINE n == Len(frames)
<1>1. n \in Nat \ {0} /\ PendingIn(frames)[n] = PendingOf(Top)
    BY TopPending
<1>2. ASSUME NEW i \in 1..(n - 1), MayErase(frames[i]), frames[i].out_bb = b
      PROVE  FALSE
    <2>1. i \in 1..n /\ i # n /\ n \in 1..n
        BY <1>1
    <2>2. frames[i].kind \in {"if", "while"}
        BY <1>2, <2>1, Known DEF MayErase, ShapeOf, FrameOK
    <2>3. b \in PendingIn(frames)[i]
        BY <1>2, <2>1, <2>2, OutIsPending
    <2>4. PendingIn(frames)[i] \cap PendingIn(frames)[n] = {}
        BY <2>1, Known DEF Tidy
    <2> QED BY <1>1, <2>3, <2>4
<1> QED BY <1>2 DEF Spares

LEMMA BranchEndAgrees ==
    ASSUME IInv, Agreement, InFunction, Top.kind = "if"
    PROVE  LET term == Terminated(ir, bb_now)
           IN  /\ BranchEnd \in IR /\ Edges(BranchEnd)
               /\ \A c \in BB : c # bb_now => BranchEnd.last[c] = ir.last[c]
               /\ term => BranchEnd = ir
               /\ \A c \in BB : BranchEnd.succ[c] \subseteq
                                    ir.succ[c] \cup (IF term THEN {} ELSE {Top.out_bb})
<1> DEFINE out == Top.out_bb
           q == Put(ir, bb_now, "term", {out})
<1>1. /\ ir \in IR /\ bb_now \in BB /\ insertAt = bb_now /\ bb_now \in 1..ir.used
      /\ ir.live \subseteq 1..ir.used /\ Edges(ir)
    BY Known DEF Tidy, Agreement
<1>2. out \in ir.live
    <2>1. Len(frames) \in 1..Len(frames)
        BY FrameFacts DEF IInv, TInv
    <2>2. frames[Len(frames)].kind \in {"if", "while"}
        BY DEF Top
    <2> QED BY <2>1, <2>2, OutIsPending DEF Top
<1>3. CASE Terminated(ir, bb_now)
    BY <1>1, <1>3 DEF BranchEnd
<1>4. CASE ~Terminated(ir, bb_now)
    <2>1. BranchEnd = q
        BY <1>1, <1>4 DEF BranchEnd, Branch
    <2>2. ir.last[bb_now] # "term" /\ {out} \subseteq ir.live
        BY <1>2, <1>4 DEF Terminated
    <2>3. /\ Edges(q) /\ q \in IR
          /\ \A c \in BB : q.last[c] = IF c = bb_now THEN "term" ELSE ir.last[c]
          /\ \A c \in BB : q.succ[c] \subseteq ir.succ[c] \cup {out}
        <3> HIDE DEF out
        <3> QED BY <1>1, <2>2, EdgesPut
    <2> HIDE DEF q
    <2> QED BY <1>4, <2>1, <2>3
<1> QED BY <1>3, <1>4

LEMMA LeaveSelectionAgrees ==
    ASSUME IInv, Agreement, LeaveSelection, ~early'
    PROVE  Agreement'
<1> DEFINE out == Top.out_bb
           hasElse == Top.else_bb # NoBB
           term == Terminated(ir, bb_now)
           returns == hasElse /\ Top.rets
           n == Len(frames)
<1>1. /\ InFunction /\ Top.kind = "if" /\ Top.pc \in {"after_true", "after_else"}
      /\ hasElse <=> Top.pc = "after_else"
      /\ Top \in Frame /\ FrameOK(Top) /\ n \in 1..n /\ StepOK /\ Top = frames[n]
    <2>1. /\ InFunction /\ Top.kind = "if" /\ Top.pc \in {"after_true", "after_else"}
          /\ hasElse => Top.pc = "after_else"
        BY DEF LeaveSelection, Running, InFunction
    <2>2. Top \in Frame /\ FrameOK(Top) /\ n \in 1..n
        BY <2>1, FrameFacts DEF IInv, TInv
    <2> QED BY <2>1, <2>2, LeaveSelectionStep DEF FrameOK, Top
<1>2. TopAgrees(Top, term) /\ BlocksAgree(Top, ir, bb_now)
    BY <1>1 DEF Agreement
<1>3. ~hasElse => ~Top.rets /\ ~term
    <2>1. ~hasElse => ~Top.rets
        BY DEF LeaveSelection
    <2> QED BY <1>1, <1>2, <2>1 DEF TopAgrees
<1>4. Top.all_ret \in {0, 1} /\ (~hasElse => Top.all_ret = 0)
    BY <1>1 DEF Frame, FrameOK
<1>5. hasElse => (Top.rets <=> (term /\ Top.all_ret = 1))
    BY <1>1, <1>2 DEF TopAgrees
<1>6. (AllRet = (IF hasElse THEN 2 ELSE 1)) <=> returns
    BY <1>3, <1>4, <1>5 DEF AllRet
<1>7. /\ BranchEnd \in IR /\ Edges(BranchEnd)
      /\ \A c \in BB : c # bb_now => BranchEnd.last[c] = ir.last[c]
      /\ term => BranchEnd = ir
      /\ \A c \in BB : BranchEnd.succ[c] \subseteq
                           ir.succ[c] \cup (IF term THEN {} ELSE {out})
    BY <1>1, BranchEndAgrees
<1>8. frames' = ResumedAll(Below, returns) /\ returns \in BOOLEAN
    BY <1>1 DEF LeaveSelection, Frame
<1>9. /\ out \in PendingOf(Top) /\ out \in Pending /\ out \in BB
      /\ ir.last[out] = "none" /\ out # bb_now
    <2>1. frames[n].kind \in {"if", "while"} /\ n \in 1..Len(frames)
        BY <1>1
    <2>2. out \in PendingIn(frames)[n] /\ out \in ir.live /\ ir.last[out] = "none"
          /\ out # bb_now
        BY <1>1, <2>1, OutIsPending
    <2> QED BY <1>1, <2>2, Known, TopPending
<1>10. CASE returns
    <2>1. ir' = Erased(ir, out) /\ bb_now' = bb_now
        BY <1>5, <1>6, <1>7, <1>10 DEF LeaveSelection
    <2>2. \A b \in BB : out \notin ir.succ[b]
        BY <1>2, <1>5, <1>10 DEF BlocksAgree, MayErase
    <2>3. /\ ir \in IR /\ Edges(ir)
        BY Known DEF Agreement
    <2>4. /\ Edges(ir') /\ ir' \in IR /\ ir'.last = ir.last /\ ir'.succ = ir.succ
        BY <2>1, <2>2, <2>3, EdgesErased, ErasedShape
    <2>5. ir'.last[bb_now'] = "term" <=> returns
        BY <1>5, <1>10, <2>1, <2>4 DEF Terminated
    <2>6. \A b \in BB : ir'.succ[b] \subseteq ir.succ[b] \cup {}
        BY <2>4
    <2>7. Spares({}, Len(frames) - 1)
        BY DEF Spares
    <2> HIDE DEF returns
    <2> QED BY <1>1, <1>8, <2>1, <2>4, <2>5, <2>6, <2>7, VisitLeft
<1>11. CASE ~returns
    <2>1. ir' = BranchEnd /\ bb_now' = out
        BY <1>6, <1>11 DEF LeaveSelection, ContinueIn
    <2>2. ir'.last[bb_now'] = "term" <=> returns
        BY <1>7, <1>9, <1>11, <2>1
    <2>3. \A b \in BB : ir'.succ[b] \subseteq ir.succ[b] \cup {out}
        BY <1>7, <2>1
    <2>4. Spares({out}, Len(frames) - 1)
        BY <1>1, <1>9, OwnIsSpared
    <2>5. ir' \in IR /\ Edges(ir')
        BY <1>7, <2>1
    <2>6. bb_now' \in Pending
        BY <1>9, <2>1
    <2> HIDE DEF returns, out
    <2> QED BY <1>1, <1>8, <2>2, <2>3, <2>4, <2>5, <2>6, VisitLeft
<1> QED BY <1>10, <1>11

LEMMA LeaveIterationAgrees ==
    ASSUME IInv, Agreement, LeaveIteration, ~early'
    PROVE  Agreement'
<1> DEFINE out == Top.out_bb
           cmp == Top.cmp_bb
           n == Len(frames)
           q == Put(ir, bb_now, "term", {cmp})
<1>1. /\ InFunction /\ Top.kind = "while" /\ Top.pc = "after_body" /\ ~Top.rets
      /\ n \in 1..n /\ StepOK /\ Top = frames[n]
    <2>1. InFunction /\ Top.kind = "while" /\ Top.pc = "after_body" /\ ~Top.rets
        BY DEF LeaveIteration, Running, InFunction
    <2>2. n \in 1..n
        BY <2>1, FrameFacts DEF IInv, TInv
    <2> QED BY <2>1, <2>2, LeaveIterationStep DEF Top
<1>2. TopAgrees(Top, Terminated(ir, bb_now)) /\ BlocksAgree(Top, ir, bb_now)
    BY <1>1 DEF Agreement
<1>3. ~Terminated(ir, bb_now) /\ insertAt = bb_now
    BY <1>1, <1>2, Known DEF TopAgrees
<1>4. ir' = q /\ bb_now' = out /\ frames' = ResumedAll(Below, FALSE)
    BY <1>3 DEF LeaveIteration, ContinueIn, Branch
<1>5. cmp \in ir.live /\ ir.last[cmp] = "term"
    BY <1>1, <1>2 DEF BlocksAgree
<1>6. /\ out \in Pending /\ out \in BB /\ ir.last[out] = "none" /\ out # bb_now
    <2>1. frames[n].kind \in {"if", "while"} /\ n \in 1..Len(frames)
        BY <1>1
    <2>2. out \in PendingIn(frames)[n] /\ out \in ir.live /\ ir.last[out] = "none"
          /\ out # bb_now
        BY <1>1, <2>1, OutIsPending
    <2> QED BY <1>1, <2>2, Known, TopPending
<1>7. /\ ir \in IR /\ Edges(ir) /\ bb_now \in BB /\ bb_now \in 1..ir.used
      /\ ir.live \subseteq 1..ir.used /\ ir.last[bb_now] # "term" /\ {cmp} \subseteq ir.live
    BY <1>1, <1>3, <1>5, Known DEF Tidy, Agreement, Terminated
<1>8. Spares({cmp}, n - 1)
    <2>1. ASSUME NEW i \in 1..(n - 1), MayErase(frames[i]), frames[i].out_bb = cmp
          PROVE  FALSE
        <3>1. i \in 1..Len(frames)
            BY <1>1
        <3>2. frames[i].kind \in {"if", "while"}
            BY <2>1, <3>1, Known DEF MayErase, ShapeOf, FrameOK
        <3>3. ir.last[frames[i].out_bb] = "none"
            BY <3>1, <3>2, OutIsPending
        <3> QED BY <1>5, <2>1, <3>3
    <2> QED BY <2>1 DEF Spares
<1> HIDE DEF cmp, out
<1>9. /\ Edges(q) /\ q \in IR
      /\ \A c \in BB : q.last[c] = IF c = bb_now THEN "term" ELSE ir.last[c]
      /\ \A c \in BB : q.succ[c] \subseteq ir.succ[c] \cup {cmp}
    BY <1>7, EdgesPut
<1> HIDE DEF q
<1>10. ir'.last[bb_now'] # "term" /\ bb_now' \in Pending
    BY <1>4, <1>6, <1>9
<1>11. /\ Edges(ir') /\ ir' \in IR
       /\ \A c \in BB : ir'.succ[c] \subseteq ir.succ[c] \cup {cmp}
    BY <1>4, <1>9
<1> QED BY <1>1, <1>4, <1>8, <1>10, <1>11, VisitLeft

LEMMA SelectionElseAgrees ==
    ASSUME IInv, Agreement, SelectionElse
    PROVE  Agreement'
<1> DEFINE n == Len(frames)
           g == frames'[n]
           else == Top.else_bb
           out == Top.out_bb
           term == Terminated(ir, bb_now)
           T == IF term THEN {} ELSE {out}
<1>1. /\ InFunction /\ n \in Nat \ {0} /\ Top \in Frame /\ FrameOK(Top)
      /\ Top.kind = "if" /\ Top.pc = "after_true" /\ else \in BB /\ else # NoBB
      /\ frames' \in Seq(Frame) /\ Len(frames') = n
      /\ g = [Top EXCEPT !.pc = "else", !.all_ret = AllRet]
      /\ \A i \in 1..n : i # n => frames'[i] = frames[i]
      /\ Top = frames[n] /\ n \in 1..n
    BY SelectionElseFrames, BlocksAreNamed DEF Top
<1>2. TopAgrees(Top, term) /\ BlocksAgree(Top, ir, bb_now)
    BY <1>1 DEF Agreement
<1>3. AllRet = IF term THEN 1 ELSE 0
    BY <1>1 DEF AllRet, FrameOK
<1>4. /\ g.kind = "if" /\ g.pc = "else" /\ g.out_bb = out /\ g.rets = Top.rets
      /\ g.all_ret = IF term THEN 1 ELSE 0
    BY <1>1, <1>3 DEF Frame
<1>5. Top.rets <=> term
    BY <1>1, <1>2 DEF TopAgrees
<1>6. ir' = BranchEnd /\ bb_now' = else /\ StepOK
    BY SelectionElseStep DEF SelectionElse, ContinueIn
<1>7. /\ ir' \in IR /\ Edges(ir')
      /\ \A c \in BB : c # bb_now => ir'.last[c] = ir.last[c]
      /\ term => ir' = ir
      /\ \A c \in BB : ir'.succ[c] \subseteq ir.succ[c] \cup T
    BY <1>1, <1>6, BranchEndAgrees
<1>8. else \in PendingOf(Top) /\ out \in PendingOf(Top) /\ else \in Pending
    <2>1. else \in PendingOf(Top) /\ out \in PendingOf(Top)
        BY <1>1 DEF PendingOf, FrameOK
    <2> QED BY <1>1, <2>1, TopPending
<1>9. ir.last[else] = "none" /\ else # bb_now
    BY <1>1, <1>8, TopPending, Known DEF Tidy
<1>10. ~Terminated(ir', bb_now')
    BY <1>1, <1>6, <1>7, <1>9 DEF Terminated
<1>11. /\ TopAgrees(g, Terminated(ir', bb_now')) /\ RetsAgree(g, FALSE)
    BY <1>4, <1>5, <1>10 DEF TopAgrees, RetsAgree
<1>12. BlocksAgree(g, ir', bb_now')
    <2>1. MayErase(g) => term
        BY <1>4 DEF MayErase
    <2>2. term => \A b \in BB : out \notin ir'.succ[b]
        BY <1>1, <1>2, <1>7 DEF BlocksAgree, MayErase
    <2> QED BY <1>4, <2>1, <2>2 DEF BlocksAgree
<1>13. Spares(T, n - 1)
    BY <1>1, <1>8, OwnIsSpared DEF Spares
<1> HIDE DEF g, T
<1>14. ASSUME NEW i \in 1..n, i # n
       PROVE  RetsAgree(frames[i], TRUE) /\ BlocksAgree(frames[i], ir', bb_now')
    <2>1. i < n /\ i \in 1..(n - 1) /\ i \in 1..Len(frames)
        BY <1>1, <1>14
    <2>2. RetsAgree(frames[i], i < n)
        BY DEF Agreement
    <2>3. RetsAgree(frames[i], TRUE)
        BY <2>1, <2>2 DEF RetsAgree
    <2>4. MayErase(frames[i]) => frames[i].out_bb \notin T
        BY <1>13, <2>1 DEF Spares
    <2>5. bb_now' = bb_now \/ bb_now' \in Pending \/ bb_now' \notin ir.live
        BY <1>6, <1>8
    <2>6. BlocksAgree(frames[i], ir', bb_now')
        BY <1>6, <1>7, <2>1, <2>4, <2>5, BlocksKept
    <2> QED BY <2>3, <2>6
<1>15. ASSUME NEW i \in 1..n
       PROVE  RetsAgree(frames'[i], i < n) /\ BlocksAgree(frames'[i], ir', bb_now')
    <2>1. CASE i = n
        BY <1>11, <1>12, <2>1 DEF RetsAgree, g
    <2>2. CASE i # n
        BY <1>1, <1>14, <2>2 DEF RetsAgree
    <2> QED BY <2>1, <2>2
<1>16. Len(frames') = n
    BY <1>1
<1>17. TopAgrees(frames'[n], Terminated(ir', bb_now'))
    BY <1>11 DEF g
<1> HIDE DEF n
<1> QED BY <1>7, <1>15, <1>16, <1>17, Agreed

-----------------------------------------------------------------------------
(* The beginnings of an if and of a while. *)
LEMMA NewIsSpared ==
    ASSUME IInv, NEW T, \A b \in T : b > ir.used
    PROVE  Spares(T, Len(frames))
<1>1. ASSUME NEW i \in 1..Len(frames), MayErase(frames[i])
      PROVE  frames[i].out_bb \notin T
    <2>1. frames[i].kind \in {"if", "while"}
        BY <1>1, Known DEF MayErase, ShapeOf, FrameOK
    <2>2. frames[i].out_bb \in ir.live
        BY <2>1, OutIsPending
    <2>3. frames[i].out_bb \in 1..ir.used /\ ir.used \in Nat
        BY <2>2, Known DEF Tidy, IR
    <2> QED BY <2>3
<1> QED BY <1>1 DEF Spares

LEMMA SelectionAgrees ==
    ASSUME IInv, Agreement, NEW hasElse \in BOOLEAN, VisitSelection(hasElse), ~early'
    PROVE  Agreement'
<1> DEFINE k == IF hasElse THEN 3 ELSE 2
           u == ir.used
           else == IF hasElse THEN u + 2 ELSE NoBB
           out == u + k
           T == {u + 1, Otherwise(else, out)}
           f == Branching("if", "true", else, NoBB, out)
<1>1. /\ AtStatement /\ ~Unreachable /\ StepOK /\ ir' \in IR
    BY SelectionStep, Known DEF VisitSelection, IInv, TInv, TypeOK
<1>2. /\ InFunction /\ ir \in IR /\ Edges(ir) /\ bb_now \in BB /\ insertAt = bb_now
      /\ bb_now \in 1..u /\ ir.last[bb_now] # "term" /\ ir.live \subseteq 1..u
      /\ u \in Nat /\ MaxBlocks \in Nat /\ RetsAgree(Top, TRUE)
    BY <1>1, StatementBegins
<1>3. /\ u + k <= MaxBlocks /\ frames' = Append(frames, f) /\ bb_now' = u + 1
    BY DEF VisitSelection, ContinueIn, Otherwise
<1>4. PICK e \in Evaluated(Created(ir, k), bb_now, bb_now) : ir' = Branch(e, bb_now, T)
    BY <1>2 DEF VisitSelection, ContinueIn, Otherwise
<1>5. /\ k \in {2, 3} /\ out \in BB /\ else \in BB \cup {NoBB} /\ else # out
      /\ T \subseteq (u + 1)..(u + k) /\ \A b \in T : b > u
      /\ else # NoBB => out \notin T /\ out > u
    BY <1>2, <1>3 DEF BB, NoBB, Otherwise
<1>6. /\ f \in Frame /\ f.kind = "if" /\ f.pc = "true" /\ f.out_bb = out /\ f.else_bb = else
    <2> HIDE DEF else, out
    <2>1. out # NoBB /\ out \in BB
        BY <1>5, BlocksAreNamed
    <2> QED BY <1>5, <2>1, SelectionRecord
<1>7. /\ Edges(ir') /\ ir'.last[u + 1] = "none"
      /\ \A b \in BB : ir'.succ[b] \subseteq ir.succ[b] \cup T
    <2> DEFINE c == Created(ir, k)
               b1 == u + 1
    <2>1. /\ c \in IR /\ Edges(c) /\ c.used = u + k /\ c.live = ir.live \cup (u + 1)..(u + k)
          /\ c.last = ir.last /\ c.succ = ir.succ
        BY <1>2, <1>3, <1>5, CreatedShape, EdgesCreated
    <2>2. /\ c.live \subseteq 1..c.used /\ T \subseteq c.live /\ bb_now \in c.live
          /\ b1 \in BB /\ b1 > u /\ b1 # bb_now
        <3>1. b1 \in BB /\ b1 > u /\ b1 # bb_now
            BY <1>2, <1>3, <1>5 DEF BB
        <3>2. bb_now \in ir.live
            BY <1>2, Known
        <3>3. (\A b \in 1..u : b \in 1..(u + k)) /\ \A b \in (u + 1)..(u + k) : b \in 1..(u + k)
            BY <1>2, <1>5
        <3> HIDE DEF c, T, b1, k
        <3> QED BY <1>2, <1>5, <2>1, <3>1, <3>2, <3>3
    <2>3. ir.last[b1] = "none"
        BY <2>2, Known DEF Tidy
    <2>4. e \in Evaluated(c, bb_now, bb_now)
        BY <1>4
    <2> HIDE DEF c, T, b1, k
    <2>5. LET q == Branch(e, bb_now, T)
          IN  /\ Edges(q)
              /\ \A b \in BB : b # bb_now => q.last[b] = c.last[b]
              /\ \A b \in BB : q.succ[b] \subseteq c.succ[b] \cup T
        BY <1>2, <2>1, <2>2, <2>4, EdgesTerminated
    <2>6. ir'.last[b1] = "none"
        BY <1>4, <2>1, <2>2, <2>3, <2>5
    <2> QED BY <1>4, <2>1, <2>5, <2>6 DEF b1
<1> HIDE DEF f, k, T, else, out
<1>8. TopAgrees(f, Terminated(ir', bb_now')) /\ RetsAgree(f, FALSE)
    BY <1>3, <1>6, <1>7 DEF TopAgrees, RetsAgree, Terminated
<1>9. BlocksAgree(f, ir', bb_now')
    <2>1. ASSUME else # NoBB, NEW b \in BB
          PROVE  out \notin ir'.succ[b]
        <3>1. ir.succ[b] \subseteq 1..u
            BY <1>2 DEF Edges
        <3>2. out \notin 1..u
            BY <1>2, <1>5, <2>1
        <3> QED BY <1>5, <1>7, <2>1, <3>1, <3>2
    <2> QED BY <1>6, <2>1 DEF BlocksAgree, MayErase
<1>10. Spares(T, Len(frames))
    BY <1>5, NewIsSpared
<1>11. bb_now' \notin ir.live
    BY <1>2, <1>3
<1> QED BY <1>1, <1>2, <1>3, <1>6, <1>7, <1>8, <1>9, <1>10, <1>11, BeginningAgrees

LEMMA IterationAgrees ==
    ASSUME IInv, Agreement, VisitIteration, ~early'
    PROVE  Agreement'
<1> DEFINE u == ir.used
           cmp == u + 1
           out == u + 3
           targets == {u + 2, u + 3}
           T == {cmp} \cup targets
           f == Branching("while", "body", NoBB, cmp, out)
<1>1. /\ AtStatement /\ ~Unreachable /\ StepOK /\ ir' \in IR
    BY IterationStep, Known DEF VisitIteration, IInv, TInv, TypeOK
<1>2. /\ InFunction /\ ir \in IR /\ Edges(ir) /\ bb_now \in BB /\ insertAt = bb_now
      /\ bb_now \in 1..u /\ ir.last[bb_now] # "term" /\ ir.live \subseteq 1..u
      /\ u \in Nat /\ MaxBlocks \in Nat /\ RetsAgree(Top, TRUE)
    BY <1>1, StatementBegins
<1>3. /\ u + 3 <= MaxBlocks /\ frames' = Append(frames, f) /\ bb_now' = u + 2
    BY DEF VisitIteration, ContinueIn
<1>4. PICK e \in Evaluated(Branch(Created(ir, 3), bb_now, {cmp}), cmp, cmp) :
          ir' = Branch(e, cmp, targets)
    BY <1>2 DEF VisitIteration, ContinueIn
<1>5. cmp \in BB /\ out \in BB /\ bb_now' # cmp /\ \A b \in T : b > u
    BY <1>2, <1>3 DEF BB
<1>6. /\ f \in Frame /\ f.kind = "while" /\ f.pc = "body" /\ f.cmp_bb = cmp
      /\ f.else_bb = NoBB
    <2> HIDE DEF cmp, out
    <2> QED BY <1>5, IterationRecord
<1>7. /\ Edges(ir') /\ ir'.last[u + 2] = "none" /\ ir'.last[cmp] = "term"
      /\ cmp \in ir'.live
      /\ \A b \in BB : ir'.succ[b] \subseteq ir.succ[b] \cup T
    <2> DEFINE c == Created(ir, 3)
               j == Put(c, bb_now, "term", {cmp})
               loop == u + 2
    <2>1. /\ c \in IR /\ Edges(c) /\ c.used = u + 3 /\ c.live = ir.live \cup (u + 1)..(u + 3)
          /\ c.last = ir.last /\ c.succ = ir.succ
        BY <1>2, <1>3, CreatedShape, EdgesCreated
    <2>2. /\ c.live \subseteq 1..c.used /\ {cmp} \subseteq c.live /\ targets \subseteq c.live
          /\ bb_now \in c.live /\ bb_now \in 1..c.used /\ c.last[bb_now] # "term"
          /\ cmp # bb_now /\ cmp > u /\ cmp \in BB
          /\ loop # bb_now /\ loop # cmp /\ loop > u /\ loop \in BB
        <3>1. \A b \in 1..(u + 3) : b \in BB
            BY <1>2, <1>3 DEF BB
        <3>2. bb_now \in ir.live
            BY <1>2, Known
        <3>3. /\ {cmp} \subseteq (u + 1)..(u + 3) /\ targets \subseteq (u + 1)..(u + 3)
              /\ cmp # bb_now /\ cmp > u /\ cmp \in 1..(u + 3)
              /\ loop # bb_now /\ loop # cmp /\ loop > u /\ loop \in 1..(u + 3)
            BY <1>2
        <3>4. \A b \in 1..u : b \in 1..(u + 3)
            BY <1>2
        <3>5. \A b \in (u + 1)..(u + 3) : b \in 1..(u + 3)
            BY <1>2
        <3> HIDE DEF c, cmp, targets, loop
        <3> QED BY <1>2, <2>1, <3>1, <3>2, <3>3, <3>4, <3>5
    <2>3. ir.last[cmp] = "none" /\ ir.last[loop] = "none"
        BY <2>2, Known DEF Tidy
    <2>4. e \in Evaluated(j, cmp, cmp)
        BY <1>4 DEF Branch
    <2> HIDE DEF c, cmp, targets, loop
    <2>5. /\ Edges(j) /\ j \in IR /\ j.live = c.live /\ j.used = c.used
          /\ \A b \in BB : j.last[b] = IF b = bb_now THEN "term" ELSE c.last[b]
          /\ \A b \in BB : j.succ[b] \subseteq c.succ[b] \cup {cmp}
        BY <1>2, <2>1, <2>2, EdgesPut
    <2> HIDE DEF j
    <2>6. j.last[cmp] # "term" /\ cmp \in j.live /\ j.live \subseteq 1..j.used
          /\ targets \subseteq j.live
        BY <2>1, <2>2, <2>3, <2>5
    <2>7. LET q == Branch(e, cmp, targets)
          IN  /\ Edges(q) /\ q.live = j.live /\ q.last[cmp] = "term"
              /\ \A b \in BB : b # cmp => q.last[b] = j.last[b]
              /\ \A b \in BB : q.succ[b] \subseteq j.succ[b] \cup targets
        BY <2>2, <2>4, <2>5, <2>6, EdgesTerminated
    <2>8. Edges(ir') /\ ir'.last[cmp] = "term" /\ cmp \in ir'.live
        BY <1>4, <2>6, <2>7
    <2>9. ir'.last[loop] = "none"
        BY <1>4, <2>1, <2>2, <2>3, <2>5, <2>7
    <2>10. \A b \in BB : ir'.succ[b] \subseteq ir.succ[b] \cup T
        BY <1>4, <2>1, <2>5, <2>7
    <2> QED BY <2>8, <2>9, <2>10 DEF loop
<1> HIDE DEF f, T, cmp, out
<1>8. TopAgrees(f, Terminated(ir', bb_now')) /\ RetsAgree(f, FALSE)
    BY <1>3, <1>6, <1>7 DEF TopAgrees, RetsAgree, Terminated
<1>9. BlocksAgree(f, ir', bb_now')
    BY <1>5, <1>6, <1>7 DEF BlocksAgree, MayErase
<1>10. Spares(T, Len(frames))
    BY <1>5, NewIsSpared
<1>11. bb_now' \notin ir.live
    BY <1>2, <1>3
<1> QED BY <1>1, <1>2, <1>3, <1>6, <1>7, <1>8, <1>9, <1>10, <1>11, BeginningAgrees

-----------------------------------------------------------------------------
(* The agreement holds initially and every visit preserves it. *)
LEMMA InitAgreement == Init => Agreement
<1> SUFFICES ASSUME Init PROVE Agreement
    OBVIOUS
<1>1. frames = << >> /\ Len(frames) = 0
    BY DEF Init
<1>2. /\ ir.used = 0 /\ ir.live = {} /\ ir.broken = FALSE
      /\ \A b \in BB : ir.succ[b] = {}
    BY DEF Init
<1>3. Edges(ir)
    BY <1>2 DEF Edges
<1> QED BY <1>1, <1>3 DEF Agreement, InFunction

LEMMA EarlyStays == [Next]_vars /\ early => early'
BY DEF Next, vars, VisitVarDeclaration, VisitFunDeclaration, VisitParam,
       LeaveFunDeclaration, VisitCompound, LeaveCompound, VisitExpressionStmt,
       VisitReturn, VisitSelection, SelectionElse, LeaveSelection, VisitIteration,
       LeaveIteration

LEMMA NextAgreement == IInv /\ Agreement /\ [Next]_vars /\ ~early' => Agreement'
<1> SUFFICES ASSUME IInv, Agreement, [Next]_vars, ~early' PROVE Agreement'
    OBVIOUS
<1>1. CASE UNCHANGED vars
    BY <1>1 DEF vars, Agreement, InFunction, Top
<1>2. CASE Next
    <2>1. CASE \E name \in Names, isArray \in BOOLEAN : VisitVarDeclaration(name, isArray)
        BY <2>1, VarDeclarationAgrees
    <2>2. CASE \E name \in Names : VisitFunDeclaration(name)
        BY <2>2, FunDeclarationAgrees
    <2>3. CASE \E name \in Names : VisitParam(name)
        BY <2>3, ParamAgrees
    <2>4. CASE LeaveFunDeclaration
        BY <2>4, LeaveFunDeclarationAgrees
    <2>5. CASE VisitCompound
        BY <2>5, CompoundAgrees
    <2>6. CASE LeaveCompound
        BY <2>6, LeaveCompoundAgrees
    <2>7. CASE VisitExpressionStmt
        BY <2>7, ExpressionStmtAgrees
    <2>8. CASE VisitReturn
        BY <2>8, ReturnAgrees
    <2>9. CASE \E hasElse \in BOOLEAN : VisitSelection(hasElse)
        BY <2>9, SelectionAgrees
    <2>10. CASE SelectionElse
        BY <2>10, SelectionElseAgrees
    <2>11. CASE LeaveSelection
        BY <2>11, LeaveSelectionAgrees
    <2>12. CASE VisitIteration
        BY <2>12, IterationAgrees
    <2>13. CASE LeaveIteration
        BY <2>13, LeaveIterationAgrees
    <2> QED BY <1>2, <2>1, <2>2, <2>3, <2>4, <2>5, <2>6, <2>7, <2>8, <2>9, <2>10,
               <2>11, <2>12, <2>13 DEF Next
<1> QED BY <1>1, <1>2

LEMMA AgreementHolds == Spec => []WInv
<1>1. Init => WInv
    BY InitIInv, InitAgreement DEF WInv
<1>2. WInv /\ [Next]_vars => WInv'
    BY NextIInv, NextAgreement, EarlyStays DEF WInv
<1> QED BY <1>1, <1>2, PTL DEF Spec

(* Unless the program returns early, BranchEnd and the final ret never add *)
(* an instruction behind a terminator, whatever the nesting.               *)
THEOREM NoCodeFollowsATerminator == Spec => []NoCodeAfterTerminator
<1>1. WInv => NoCodeAfterTerminator
    BY DEF WInv, Agreement, Edges, NoCodeAfterTerminator
<1> QED BY <1>1, AgreementHolds, PTL

(* Unless the program returns early, no branch names an erased block.      *)
THEOREM NoBranchDanglesUnlessEarly == Spec => []NoDanglingBranchUnlessEarly
<1>1. WInv => NoDanglingBranchUnlessEarly
    BY DEF WInv, Agreement, Edges, NoDanglingBranchUnlessEarly, NoDanglingBranch
<1> QED BY <1>1, AgreementHolds, PTL

(* Unless the program returns early, getTerminator() on the current block  *)
(* says exactly whether the statements visited always return.              *)
THEOREM TerminatorIsWhatReturns == Spec => []TerminatorTracksReturns
<1>1. WInv => TerminatorTracksReturns
    <2> SUFFICES ASSUME WInv, ~early, InFunction,
                        Top.pc \notin {"true", "else", "after_else", "body"}
                 PROVE  Top.rets <=> Terminated(ir, bb_now)
        BY DEF TerminatorTracksReturns
    <2>1. TopAgrees(Top, Terminated(ir, bb_now))
        BY DEF WInv, Agreement
    <2>2. Top \in Frame
        BY FrameFacts DEF WInv, IInv, TInv
    <2>3. CASE Top.pc \in {"params", "decls"}
        BY <2>1, <2>3 DEF TopAgrees
    <2>4. CASE Top.pc \in {"leave", "stmts", "after_true", "after_body"}
        BY <2>1, <2>4 DEF TopAgrees
    <2> QED BY <2>2, <2>3, <2>4 DEF Frame
<1> QED BY <1>1, AgreementHolds, PTL

-----------------------------------------------------------------------------
(* The out blocks that nothing jumps to yet, and that may be erased. *)
MaybeOut(fs) == {fs[i].out_bb : i \in {j \in 1..Len(fs) : MayErase(fs[j])}}

(* Every other block is reached, also while visits run and whether or not  *)
(* the program returns early.                                              *)
Reaching ==
    \A S \in SUBSET BB : ClosedUnderBranches(S) => ir.live \subseteq S \cup MaybeOut(frames)

(* Entry blocks stay and branches are never taken away. *)
Grows(q, r) == r.entry \subseteq q.entry /\ \A b \in BB : r.succ[b] \subseteq q.succ[b]

LEMMA CurrentIsNotErased ==
    ASSUME IInv, InFunction
    PROVE  bb_now \notin MaybeOut(frames)
<1>1. ASSUME NEW i \in 1..Len(frames), MayErase(frames[i])
      PROVE  frames[i].out_bb # bb_now
    <2>1. frames[i].kind \in {"if", "while"}
        BY <1>1, Known DEF MayErase, ShapeOf, FrameOK
    <2> QED BY <2>1, OutIsPending
<1> QED BY <1>1 DEF MaybeOut

(* A step that only adds branches keeps the blocks reached, if it reaches  *)
(* the new ones, and those of X, whose visits do not hold them any more.   *)
LEMMA ReachedStill ==
    ASSUME IInv, Reaching, Grows(ir', ir), NEW X,
           MaybeOut(frames) \subseteq MaybeOut(frames') \cup X,
           \A S \in SUBSET BB : ClosedUnderBranches(S)' /\ (InFunction => bb_now \in S) =>
               \A b \in ir'.live : b \in X \/ b \notin ir.live =>
                   b \in S \/ b \in MaybeOut(frames')
    PROVE  Reaching'
<1>1. ASSUME NEW S \in SUBSET BB, ClosedUnderBranches(S)'
      PROVE  ir'.live \subseteq S \cup MaybeOut(frames')
    <2>1. ClosedUnderBranches(S)
        BY <1>1 DEF ClosedUnderBranches, Grows
    <2>2. ir.live \subseteq S \cup MaybeOut(frames)
        BY <2>1 DEF Reaching
    <2>3. InFunction => bb_now \in S
        BY <2>2, CurrentIsNotErased, Known
    <2>4. \A b \in ir'.live : b \in X \/ b \notin ir.live => b \in S \/ b \in MaybeOut(frames')
        BY <1>1, <2>3
    <2> QED BY <2>2, <2>4
<1> QED BY <1>1 DEF Reaching

(* A step that keeps the blocks, and the visits that may erase one. *)
LEMMA ReachedAsBefore ==
    ASSUME IInv, Reaching, Grows(ir', ir), ir'.live \subseteq ir.live,
           MaybeOut(frames) \subseteq MaybeOut(frames')
    PROVE  Reaching'
<1>1. /\ MaybeOut(frames) \subseteq MaybeOut(frames') \cup {}
      /\ \A b \in ir'.live : b \in {} \/ b \notin ir.live => FALSE
    OBVIOUS
<1> QED BY <1>1, ReachedStill

(* Which visits may erase their out block after a step. *)
LEMMA MaybeOutKept ==
    ASSUME NEW fs, NEW gs, NEW X, Len(fs) \in Nat, Len(gs) \in Nat,
           \A i \in 1..Len(fs) : MayErase(fs[i]) =>
               \/ fs[i].out_bb \in X
               \/ i \in 1..Len(gs) /\ MayErase(gs[i]) /\ gs[i].out_bb = fs[i].out_bb
    PROVE  MaybeOut(fs) \subseteq MaybeOut(gs) \cup X
<1>1. ASSUME NEW i \in 1..Len(fs), MayErase(fs[i])
      PROVE  fs[i].out_bb \in MaybeOut(gs) \cup X
    <2>1. CASE fs[i].out_bb \in X
        BY <2>1
    <2>2. CASE i \in 1..Len(gs) /\ MayErase(gs[i]) /\ gs[i].out_bb = fs[i].out_bb
        BY <2>2 DEF MaybeOut
    <2> QED BY <1>1, <2>1, <2>2
<1> QED BY <1>1 DEF MaybeOut

LEMMA ResumedMayErase ==
    ASSUME NEW f \in Frame, FrameOK(f), f.pc \in Waiting, NEW returns \in BOOLEAN
    PROVE  MayErase(f) => /\ MayErase(Resumed(f, returns))
                          /\ Resumed(f, returns).out_bb = f.out_bb
<1> DEFINE g == Resumed(f, returns)
<1>1. /\ g.pc = NextPc[f.pc] /\ g.else_bb = f.else_bb /\ g.out_bb = f.out_bb
      /\ g.all_ret = f.all_ret
    BY ResumedShape
<1> HIDE DEF g
<1>2. MayErase(f) => MayErase(g)
    BY <1>1 DEF MayErase, NextPc, Waiting
<1> QED BY <1>1, <1>2 DEF g

LEMMA MaybeOutAfterStatement ==
    ASSUME IInv, InFunction, Top.pc \in Waiting, NEW returns \in BOOLEAN,
           frames' = ResumedAll(frames, returns)
    PROVE  MaybeOut(frames) \subseteq MaybeOut(frames')
<1> DEFINE n == Len(frames)
<1>1. /\ Len(frames') = n /\ frames'[n] = Resumed(Top, returns)
      /\ \A i \in 1..(n - 1) : frames'[i] = frames[i]
    BY AfterStatement DEF IInv, TInv
<1>2. n \in Nat /\ Top \in Frame /\ FrameOK(Top) /\ Top = frames[n]
    BY FrameFacts DEF IInv, TInv, Top
<1> HIDE DEF n
<1>3. ASSUME NEW i \in 1..n, MayErase(frames[i])
      PROVE  MayErase(frames'[i]) /\ frames'[i].out_bb = frames[i].out_bb
    <2>1. CASE i = n
        BY <1>1, <1>2, <1>3, <2>1, ResumedMayErase
    <2>2. CASE i # n
        <3>1. i \in 1..(n - 1)
            BY <1>2, <2>2
        <3> QED BY <1>1, <1>3, <3>1
    <2> QED BY <2>1, <2>2
<1>4. MaybeOut(frames) \subseteq MaybeOut(frames') \cup {}
    <2>1. /\ Len(frames) \in Nat /\ Len(frames') \in Nat
          /\ \A i \in 1..Len(frames) : MayErase(frames[i]) =>
                 /\ i \in 1..Len(frames') /\ MayErase(frames'[i])
                 /\ frames'[i].out_bb = frames[i].out_bb
        BY <1>1, <1>2, <1>3 DEF n
    <2> QED BY <2>1, MaybeOutKept
<1> QED BY <1>4

LEMMA MaybeOutAppended ==
    ASSUME IInv, NEW f \in Frame, frames' = Append(frames, f)
    PROVE  /\ MaybeOut(frames) \subseteq MaybeOut(frames')
           /\ MayErase(f) => f.out_bb \in MaybeOut(frames')
<1> DEFINE n == Len(frames)
<1>1. /\ n \in Nat /\ Len(frames') = n + 1 /\ frames'[n + 1] = f
      /\ \A i \in 1..n : frames'[i] = frames[i]
    BY Known
<1> HIDE DEF n
<1>2. n + 1 \in 1..(n + 1) /\ \A i \in 1..n : i \in 1..(n + 1)
    BY <1>1
<1>3. MaybeOut(frames) \subseteq MaybeOut(frames') \cup {}
    <2>1. n = Len(frames) /\ Len(frames') \in Nat
        BY <1>1 DEF n
    <2>2. \A i \in 1..Len(frames) : MayErase(frames[i]) =>
              /\ i \in 1..Len(frames') /\ MayErase(frames'[i])
              /\ frames'[i].out_bb = frames[i].out_bb
        BY <1>1, <1>2, <2>1
    <2> HIDE DEF MayErase
    <2> QED BY <1>1, <2>1, <2>2, MaybeOutKept
<1> QED BY <1>1, <1>2, <1>3 DEF MaybeOut

LEMMA MaybeOutBelow ==
    ASSUME IInv, InFunction, Top.kind # "fun", NEW returns \in BOOLEAN,
           frames' = ResumedAll(Below, returns), NEW X, MayErase(Top) => Top.out_bb \in X
    PROVE  MaybeOut(frames) \subseteq MaybeOut(frames') \cup X
<1> DEFINE m == Len(frames) - 1
<1>1. /\ m \in Nat \ {0} /\ Len(frames') = m
      /\ frames'[m] = Resumed(frames[m], returns)
      /\ frames[m] \in Frame /\ FrameOK(frames[m]) /\ frames[m].pc \in Waiting
      /\ \A i \in 1..(m - 1) : frames'[i] = frames[i]
    BY AfterVisit DEF IInv, TInv
<1>2. Len(frames) = m + 1 /\ Top = frames[m + 1]
    BY Known DEF Top
<1> HIDE DEF m
<1>3. ASSUME NEW i \in 1..(m + 1), MayErase(frames[i])
      PROVE  \/ frames[i].out_bb \in X
             \/ i \in 1..m /\ MayErase(frames'[i]) /\ frames'[i].out_bb = frames[i].out_bb
    <2>1. CASE i = m + 1
        BY <1>2, <1>3, <2>1
    <2>2. CASE i = m
        BY <1>1, <1>3, <2>2, ResumedMayErase
    <2>3. CASE i \in 1..(m - 1)
        BY <1>1, <1>3, <2>3
    <2> QED BY <1>1, <2>1, <2>2, <2>3
<1>4. /\ Len(frames) \in Nat /\ Len(frames') \in Nat
      /\ \A i \in 1..Len(frames) : MayErase(frames[i]) =>
             \/ frames[i].out_bb \in X
             \/ /\ i \in 1..Len(frames') /\ MayErase(frames'[i])
                /\ frames'[i].out_bb = frames[i].out_bb
    BY <1>1, <1>2, <1>3
<1> QED BY <1>4, MaybeOutKept

-----------------------------------------------------------------------------
(* What the operations on the blocks add. *)
LEMMA GrowsPut ==
    ASSUME NEW r \in IR, NEW b \in BB, NEW what \in {"none", "plain", "term"},
           NEW targets \in SUBSET BB
    PROVE  LET q == Put(r, b, what, targets)
           IN  /\ q \in IR /\ Grows(q, r)
               /\ q.live = r.live /\ targets \subseteq q.succ[b]
<1> DEFINE q == Put(r, b, what, targets)
<1>1. /\ q \in IR /\ q.entry = r.entry /\ q.live = r.live
      /\ \A c \in BB : q.succ[c] = IF c = b THEN r.succ[c] \cup targets ELSE r.succ[c]
    BY DEF Put, IR
<1> HIDE DEF q
<1>2. Grows(q, r) /\ targets \subseteq q.succ[b]
    BY <1>1 DEF Grows
<1> QED BY <1>1, <1>2 DEF q

LEMMA GrowsEvaluated ==
    ASSUME NEW r \in IR, NEW at \in BB, NEW q \in Evaluated(r, at, at)
    PROVE  q \in IR /\ Grows(q, r) /\ q.live = r.live
BY EvaluatedShape DEF Grows

(* One lemma per visit: declarations and the function itself. *)
LEMMA VarDeclarationReaches ==
    ASSUME IInv, Reaching, NEW name \in Names, NEW isArray \in BOOLEAN,
           VisitVarDeclaration(name, isArray)
    PROVE  Reaching'
<1>1. CASE InGlobal(scope)
    BY <1>1 DEF VisitVarDeclaration, Reaching, ClosedUnderBranches
<1>2. CASE ~InGlobal(scope)
    <2>1. InFunction /\ insertAt = bb_now /\ bb_now \in BB /\ ir \in IR
        BY <1>2, ScopeFacts, Known DEF IInv
    <2>2. ir' = Put(ir, bb_now, "plain", {}) /\ UNCHANGED frames
        BY <1>2, <2>1 DEF VisitVarDeclaration, AllocaBlock, Plain
    <2>3. Grows(ir', ir) /\ ir'.live = ir.live
        BY <2>1, <2>2, GrowsPut
    <2> QED BY <2>2, <2>3, ReachedAsBefore
<1> QED BY <1>1, <1>2

LEMMA ParamReaches ==
    ASSUME IInv, Reaching, NEW name \in Names, VisitParam(name)
    PROVE  Reaching'
<1>1. InFunction /\ insertAt = bb_now /\ bb_now \in BB /\ ir \in IR
    BY Known DEF VisitParam, Running, InFunction
<1>2. ir' = Put(ir, bb_now, "plain", {}) /\ UNCHANGED frames
    BY <1>1 DEF VisitParam, Plain
<1>3. Grows(ir', ir) /\ ir'.live = ir.live
    BY <1>1, <1>2, GrowsPut
<1> QED BY <1>2, <1>3, ReachedAsBefore

LEMMA FunDeclarationReaches ==
    ASSUME IInv, Reaching, NEW name \in Names, VisitFunDeclaration(name)
    PROVE  Reaching'
<1> DEFINE theBB == ir.used + 1
           c == Created(ir, 1)
<1>1. ir \in IR /\ ir.used \in Nat /\ theBB <= MaxBlocks
    BY Known DEF VisitFunDeclaration, IR
<1>2. /\ c \in IR /\ c.live = ir.live \cup (ir.used + 1)..(ir.used + 1)
      /\ c.entry = ir.entry /\ c.succ = ir.succ
    BY <1>1, CreatedShape
<1> HIDE DEF c
<1>3. ir' = [c EXCEPT !.entry = @ \cup {theBB}]
    BY DEF VisitFunDeclaration, c
<1>4. /\ ir'.live = c.live /\ ir'.succ = c.succ /\ ir'.entry = c.entry \cup {theBB}
    BY <1>2, <1>3 DEF IR
<1>5. Grows(ir', ir)
    BY <1>2, <1>4 DEF Grows
<1>6. MaybeOut(frames) = {}
    <2>1. Len(frames) = 0
        BY DEF VisitFunDeclaration
    <2> QED BY <2>1 DEF MaybeOut
<1>7. ASSUME NEW S \in SUBSET BB, ClosedUnderBranches(S)',
             NEW b \in ir'.live, b \notin ir.live
      PROVE  b \in S
    <2>1. b = theBB
        BY <1>1, <1>2, <1>4, <1>7
    <2> QED BY <1>4, <1>7, <2>1 DEF ClosedUnderBranches
<1>8. MaybeOut(frames) \subseteq MaybeOut(frames') \cup {}
    BY <1>6
<1> QED BY <1>5, <1>7, <1>8, ReachedStill

LEMMA LeaveFunDeclarationReaches ==
    ASSUME IInv, Reaching, LeaveFunDeclaration
    PROVE  Reaching'
<1>1. InFunction /\ Top.kind = "fun" /\ Len(frames) = 1
    BY FrameFacts DEF LeaveFunDeclaration, Running, InFunction, IInv, TInv
<1>2. MaybeOut(frames) = {}
    <2>1. ~MayErase(Top)
        BY <1>1, FrameFacts DEF MayErase, FrameOK, IInv, TInv
    <2> QED BY <1>1, <2>1 DEF MaybeOut, Top
<1>3. ir \in IR /\ bb_now \in BB /\ insertAt = bb_now
    BY <1>1, Known
<1>4. Grows(ir', ir) /\ ir'.live = ir.live
    <2>1. CASE Terminated(ir, bb_now)
        BY <2>1 DEF LeaveFunDeclaration, Grows
    <2>2. CASE ~Terminated(ir, bb_now)
        <3>1. ir' = Put(ir, bb_now, "term", {})
            BY <1>3, <2>2 DEF LeaveFunDeclaration, Ret
        <3> QED BY <1>3, <3>1, GrowsPut
    <2> QED BY <2>1, <2>2
<1> QED BY <1>2, <1>4, ReachedAsBefore

(* Statements that stay in the current block. *)
LEMMA ExpressionStmtReaches ==
    ASSUME IInv, Reaching, VisitExpressionStmt
    PROVE  Reaching'
<1>1. InFunction /\ Top.pc \in Waiting
    BY AtStatementFacts DEF VisitExpressionStmt
<1>2. /\ ir \in IR /\ bb_now \in BB /\ ir' \in Evaluated(ir, bb_now, bb_now)
    BY <1>1, Known DEF VisitExpressionStmt
<1>3. Grows(ir', ir) /\ ir'.live = ir.live
    BY <1>2, GrowsEvaluated
<1>4. MaybeOut(frames) \subseteq MaybeOut(frames')
    BY <1>1, MaybeOutAfterStatement DEF VisitExpressionStmt
<1> QED BY <1>3, <1>4, ReachedAsBefore

LEMMA GrowsOnwards ==
    ASSUME NEW q, NEW r, NEW s, Grows(r, q), Grows(s, r)
    PROVE  Grows(s, q)
BY DEF Grows

LEMMA ReturnReaches ==
    ASSUME IInv, Reaching, VisitReturn
    PROVE  Reaching'
<1>1. InFunction /\ Top.pc \in Waiting
    BY AtStatementFacts DEF VisitReturn
<1>2. ir \in IR /\ bb_now \in BB /\ insertAt = bb_now
    BY <1>1, Known
<1>3. PICK r \in Evaluated(ir, bb_now, bb_now) : ir' = Put(r, bb_now, "term", {})
    BY <1>2 DEF VisitReturn, Ret
<1>4. r \in IR /\ Grows(r, ir) /\ r.live = ir.live
    BY <1>2, GrowsEvaluated
<1>5. Grows(ir', r) /\ ir'.live = r.live
    BY <1>2, <1>3, <1>4, GrowsPut
<1>6. Grows(ir', ir) /\ ir'.live = ir.live
    BY <1>4, <1>5, GrowsOnwards
<1>7. MaybeOut(frames) \subseteq MaybeOut(frames')
    BY <1>1, MaybeOutAfterStatement DEF VisitReturn
<1> QED BY <1>6, <1>7, ReachedAsBefore

LEMMA CompoundReaches ==
    ASSUME IInv, Reaching, VisitCompound
    PROVE  Reaching'
<1> DEFINE f == Call("comp", "decls")
<1>1. f \in Frame
    BY BlocksAreNamed DEF Call, Branching, Frame
<1> HIDE DEF f
<1>2. frames' = Append(frames, f) /\ UNCHANGED ir
    BY DEF VisitCompound, f
<1>3. MaybeOut(frames) \subseteq MaybeOut(frames')
    BY <1>1, <1>2, MaybeOutAppended
<1>4. Grows(ir', ir) /\ ir'.live = ir.live
    BY <1>2 DEF Grows
<1> QED BY <1>3, <1>4, ReachedAsBefore

LEMMA LeaveCompoundReaches ==
    ASSUME IInv, Reaching, LeaveCompound
    PROVE  Reaching'
<1>1. InFunction /\ Top.kind = "comp"
    BY DEF LeaveCompound, Running, InFunction
<1>2. Top.rets \in BOOLEAN /\ ~MayErase(Top)
    BY <1>1, FrameFacts DEF IInv, TInv, Frame, MayErase, FrameOK
<1>3. MaybeOut(frames) \subseteq MaybeOut(frames') \cup {}
    BY <1>1, <1>2, MaybeOutBelow DEF LeaveCompound
<1>4. Grows(ir', ir) /\ ir'.live = ir.live
    BY DEF LeaveCompound, Grows
<1> QED BY <1>3, <1>4, ReachedAsBefore

-----------------------------------------------------------------------------
(* The beginnings of an if and of a while. *)
LEMMA GrowsCreated ==
    ASSUME NEW r \in IR, NEW n \in Nat, r.used + n <= MaxBlocks
    PROVE  LET q == Created(r, n)
           IN  q \in IR /\ Grows(q, r) /\ q.live = r.live \cup (r.used + 1)..(r.used + n)
<1> DEFINE q == Created(r, n)
<1>1. /\ q \in IR /\ q.live = r.live \cup (r.used + 1)..(r.used + n)
      /\ q.entry = r.entry /\ q.succ = r.succ
    BY CreatedShape
<1> HIDE DEF q
<1>2. Grows(q, r)
    BY <1>1 DEF Grows
<1> QED BY <1>1, <1>2 DEF q

LEMMA SelectionReaches ==
    ASSUME IInv, Reaching, NEW hasElse \in BOOLEAN, VisitSelection(hasElse)
    PROVE  Reaching'
<1> DEFINE u == ir.used
           k == IF hasElse THEN 3 ELSE 2
           else == IF hasElse THEN u + 2 ELSE NoBB
           out == u + k
           otherwise == Otherwise(else, out)
           T == {u + 1, otherwise}
           f == Branching("if", "true", else, NoBB, out)
           c == Created(ir, k)
<1>1. /\ InFunction /\ ir \in IR /\ bb_now \in BB /\ insertAt = bb_now
      /\ u \in Nat /\ MaxBlocks \in Nat
    BY AtStatementFacts, Known, BlocksAreNamed DEF VisitSelection, IR
<1>2. u + k <= MaxBlocks /\ frames' = Append(frames, f)
    BY DEF VisitSelection, Otherwise
<1>3. PICK e \in Evaluated(c, bb_now, bb_now) : ir' = Put(e, bb_now, "term", T)
    BY <1>1 DEF VisitSelection, Otherwise, Branch
<1>4. /\ k \in {2, 3} /\ out \in BB /\ else \in BB \cup {NoBB} /\ else # out
      /\ T \in SUBSET BB
    BY <1>1, <1>2 DEF BB, NoBB, Otherwise
<1>5. f \in Frame /\ f.out_bb = out /\ (hasElse => MayErase(f))
    <2>1. hasElse => else # NoBB
        BY <1>1 DEF NoBB
    <2> HIDE DEF else, out
    <2>2. /\ f \in Frame /\ f.pc = "true" /\ f.out_bb = out /\ f.else_bb = else
        BY <1>4, SelectionRecord
    <2> HIDE DEF f
    <2> QED BY <2>1, <2>2 DEF MayErase
<1>6. /\ Grows(ir', ir) /\ ir'.live = ir.live \cup (u + 1)..(u + k)
      /\ T \subseteq ir'.succ[bb_now]
    <2>1. c \in IR /\ Grows(c, ir) /\ c.live = ir.live \cup (u + 1)..(u + k)
        BY <1>1, <1>2, <1>4, GrowsCreated
    <2> HIDE DEF c, T
    <2>2. e \in IR /\ Grows(e, c) /\ e.live = c.live
        BY <1>1, <2>1, GrowsEvaluated
    <2>3. Grows(ir', e) /\ ir'.live = e.live /\ T \subseteq ir'.succ[bb_now]
        BY <1>1, <1>3, <1>4, <2>2, GrowsPut
    <2> QED BY <2>1, <2>2, <2>3, GrowsOnwards
<1>7. /\ MaybeOut(frames) \subseteq MaybeOut(frames')
      /\ hasElse => out \in MaybeOut(frames')
    BY <1>2, <1>5, MaybeOutAppended
<1>8. ASSUME NEW S \in SUBSET BB, ClosedUnderBranches(S)', bb_now \in S,
             NEW b \in ir'.live, b \notin ir.live
      PROVE  b \in S \/ b \in MaybeOut(frames')
    <2>1. u + 1 \in S /\ otherwise \in S
        BY <1>6, <1>8 DEF ClosedUnderBranches
    <2>2. b \in (u + 1)..(u + k)
        BY <1>6, <1>8
    <2>3. CASE hasElse
        <3>1. otherwise = u + 2
            BY <1>1, <2>3 DEF Otherwise, NoBB
        <3>2. b \in {u + 1, u + 2, out}
            BY <1>1, <2>2, <2>3
        <3> QED BY <1>7, <2>1, <2>3, <3>1, <3>2
    <2>4. CASE ~hasElse
        <3>1. otherwise = u + 2
            BY <2>4 DEF Otherwise
        <3>2. b \in {u + 1, u + 2}
            BY <1>1, <2>2, <2>4
        <3> QED BY <2>1, <3>1, <3>2
    <2> QED BY <2>3, <2>4
<1> HIDE DEF f, k, T, else, out
<1>9. MaybeOut(frames) \subseteq MaybeOut(frames') \cup {}
    BY <1>7
<1> QED BY <1>1, <1>6, <1>8, <1>9, ReachedStill

LEMMA IterationReaches ==
    ASSUME IInv, Reaching, VisitIteration
    PROVE  Reaching'
<1> DEFINE u == ir.used
           cmp == u + 1
           loop == u + 2
           out == u + 3
           f == Branching("while", "body", NoBB, cmp, out)
           c == Created(ir, 3)
           j == Put(c, bb_now, "term", {cmp})
<1>1. /\ InFunction /\ ir \in IR /\ bb_now \in BB /\ insertAt = bb_now
      /\ u \in Nat /\ MaxBlocks \in Nat
    BY AtStatementFacts, Known, BlocksAreNamed DEF VisitIteration, IR
<1>2. out <= MaxBlocks /\ frames' = Append(frames, f)
    BY DEF VisitIteration
<1>3. PICK e \in Evaluated(j, cmp, cmp) : ir' = Put(e, cmp, "term", {loop, out})
    BY <1>1 DEF VisitIteration, Branch
<1>4. cmp \in BB /\ loop \in BB /\ out \in BB
    BY <1>1, <1>2 DEF BB
<1>5. f \in Frame
    <2> HIDE DEF cmp, out
    <2> QED BY <1>4, IterationRecord
<1>6. /\ Grows(ir', ir) /\ ir'.live = ir.live \cup (u + 1)..(u + 3)
      /\ cmp \in ir'.succ[bb_now] /\ loop \in ir'.succ[cmp] /\ out \in ir'.succ[cmp]
    <2>1. c \in IR /\ Grows(c, ir) /\ c.live = ir.live \cup (u + 1)..(u + 3)
        BY <1>1, <1>2, GrowsCreated
    <2> HIDE DEF c, cmp, loop, out
    <2>2. j \in IR /\ Grows(j, c) /\ j.live = c.live /\ cmp \in j.succ[bb_now]
        <3>1. {cmp} \in SUBSET BB
            BY <1>4
        <3>2. {cmp} \subseteq j.succ[bb_now] /\ j \in IR /\ Grows(j, c) /\ j.live = c.live
            BY <1>1, <2>1, <3>1, GrowsPut
        <3> QED BY <3>2
    <2> HIDE DEF j
    <2>3. e \in IR /\ Grows(e, j) /\ e.live = j.live
        BY <1>4, <2>2, GrowsEvaluated
    <2>4. Grows(ir', e) /\ ir'.live = e.live /\ {loop, out} \subseteq ir'.succ[cmp]
        <3>1. {loop, out} \in SUBSET BB
            BY <1>4
        <3> QED BY <1>3, <1>4, <2>3, <3>1, GrowsPut
    <2>5. Grows(ir', j)
        BY <2>3, <2>4, GrowsOnwards
    <2>6. Grows(ir', ir)
        BY <2>1, <2>2, <2>5, GrowsOnwards
    <2>7. cmp \in ir'.succ[bb_now]
        BY <1>1, <2>2, <2>5 DEF Grows
    <2> QED BY <2>1, <2>2, <2>3, <2>4, <2>6, <2>7
<1>7. MaybeOut(frames) \subseteq MaybeOut(frames') \cup {}
    BY <1>2, <1>5, MaybeOutAppended
<1>8. ASSUME NEW S \in SUBSET BB, ClosedUnderBranches(S)', bb_now \in S,
             NEW b \in ir'.live, b \notin ir.live
      PROVE  b \in S
    <2>1. cmp \in S
        BY <1>6, <1>8 DEF ClosedUnderBranches
    <2>2. loop \in S /\ out \in S
        BY <1>6, <1>8, <2>1 DEF ClosedUnderBranches
    <2>3. b \in {cmp, loop, out}
        BY <1>1, <1>6, <1>8
    <2> QED BY <2>1, <2>2, <2>3
<1> QED BY <1>1, <1>6, <1>7, <1>8, ReachedStill

-----------------------------------------------------------------------------
(* The ends of the branches, and of the loop. *)
LEMMA BranchEndGrows ==
    ASSUME IInv, InFunction, Top.out_bb \in BB
    PROVE  /\ BranchEnd \in IR /\ Grows(BranchEnd, ir) /\ BranchEnd.live = ir.live
           /\ ~Terminated(ir, bb_now) => Top.out_bb \in BranchEnd.succ[bb_now]
<1>1. ir \in IR /\ bb_now \in BB /\ insertAt = bb_now
    BY Known
<1>2. CASE Terminated(ir, bb_now)
    BY <1>1, <1>2 DEF BranchEnd, Grows
<1>3. CASE ~Terminated(ir, bb_now)
    <2> DEFINE out == Top.out_bb
               q == Put(ir, bb_now, "term", {out})
    <2>1. BranchEnd = q /\ {out} \in SUBSET BB
        BY <1>1, <1>3 DEF BranchEnd, Branch
    <2> HIDE DEF out
    <2>2. q \in IR /\ Grows(q, ir) /\ q.live = ir.live /\ {out} \subseteq q.succ[bb_now]
        BY <1>1, <2>1, GrowsPut
    <2> HIDE DEF q
    <2> QED BY <1>3, <2>1, <2>2 DEF out
<1> QED BY <1>2, <1>3

LEMMA SelectionElseReaches ==
    ASSUME IInv, Reaching, SelectionElse
    PROVE  Reaching'
<1> DEFINE n == Len(frames)
           g == [Top EXCEPT !.pc = "else", !.all_ret = AllRet]
           term == Terminated(ir, bb_now)
           X == IF term THEN {} ELSE {Top.out_bb}
<1>1. /\ InFunction /\ n \in Nat \ {0} /\ Top \in Frame /\ FrameOK(Top)
      /\ Top.pc = "after_true" /\ Top.else_bb \in BB /\ Top.out_bb \in BB
      /\ Len(frames') = n /\ frames'[n] = g
      /\ \A i \in 1..n : i # n => frames'[i] = frames[i]
    BY SelectionElseFrames
<1>2. AllRet = IF term THEN 1 ELSE 0
    BY <1>1 DEF AllRet, FrameOK
<1>3. g.else_bb = Top.else_bb /\ g.out_bb = Top.out_bb /\ g.all_ret = AllRet
    BY <1>1, <1>2 DEF Frame
<1> HIDE DEF g
<1>4. term => MayErase(g)
    BY <1>1, <1>2, <1>3, BlocksAreNamed DEF MayErase
<1>5. ir' = BranchEnd
    BY DEF SelectionElse
<1>6. /\ Grows(ir', ir) /\ ir'.live = ir.live
      /\ ~term => Top.out_bb \in ir'.succ[bb_now]
    BY <1>1, <1>5, BranchEndGrows
<1>7. MaybeOut(frames) \subseteq MaybeOut(frames') \cup X
    <2>1. \A i \in 1..Len(frames) : MayErase(frames[i]) =>
              \/ frames[i].out_bb \in X
              \/ /\ i \in 1..Len(frames') /\ MayErase(frames'[i])
                 /\ frames'[i].out_bb = frames[i].out_bb
        BY <1>1, <1>3, <1>4 DEF Top
    <2>2. Len(frames) \in Nat /\ Len(frames') \in Nat
        BY <1>1
    <2> HIDE DEF X, n
    <2> QED BY <2>1, <2>2, MaybeOutKept
<1>8. ASSUME NEW S \in SUBSET BB, ClosedUnderBranches(S)', bb_now \in S,
             NEW b \in ir'.live, b \in X \/ b \notin ir.live
      PROVE  b \in S
    BY <1>6, <1>8 DEF ClosedUnderBranches
<1> HIDE DEF X
<1> QED BY <1>1, <1>6, <1>7, <1>8, ReachedStill

LEMMA LeaveSelectionReaches ==
    ASSUME IInv, Reaching, LeaveSelection
    PROVE  Reaching'
<1> DEFINE out == Top.out_bb
           hasElse == Top.else_bb # NoBB
           term == Terminated(ir, bb_now)
           returns == hasElse /\ Top.rets
           X == IF MayErase(Top) THEN {out} ELSE {}
           erases == AllRet = (IF hasElse THEN 2 ELSE 1)
<1>1. /\ InFunction /\ Top.kind = "if" /\ Top.pc \in {"after_true", "after_else"}
      /\ hasElse => Top.pc = "after_else"
    BY DEF LeaveSelection, Running, InFunction
<1>2. Top \in Frame /\ FrameOK(Top) /\ out \in BB
    BY <1>1, FrameFacts DEF IInv, TInv, FrameOK, Frame
<1>3. /\ BranchEnd \in IR /\ Grows(BranchEnd, ir) /\ BranchEnd.live = ir.live
      /\ ~term => out \in BranchEnd.succ[bb_now]
    BY <1>1, <1>2, BranchEndGrows
<1>4. ir' = IF erases THEN Erased(BranchEnd, out) ELSE BranchEnd
    BY DEF LeaveSelection
<1>5. /\ Grows(ir', ir) /\ ir'.live \subseteq ir.live
      /\ erases => out \notin ir'.live
      /\ ~term => out \in ir'.succ[bb_now]
    <2>1. CASE ~erases
        BY <1>3, <1>4, <2>1
    <2>2. CASE erases
        <3>1. /\ ir'.live = BranchEnd.live \ {out}
              /\ ir'.entry = BranchEnd.entry /\ ir'.succ = BranchEnd.succ
            BY <1>3, <1>4, <2>2, ErasedShape
        <3> QED BY <1>3, <3>1 DEF Grows
    <2> QED BY <2>1, <2>2
<1>6. MayErase(Top) /\ term => erases
    BY <1>1, <1>2 DEF MayErase, AllRet, FrameOK
<1>7. frames' = ResumedAll(Below, returns) /\ returns \in BOOLEAN
    BY <1>2 DEF LeaveSelection, Frame
<1> HIDE DEF returns
<1>8. MaybeOut(frames) \subseteq MaybeOut(frames') \cup X
    BY <1>1, <1>7, MaybeOutBelow
<1>9. ASSUME NEW S \in SUBSET BB, ClosedUnderBranches(S)', bb_now \in S,
             NEW b \in ir'.live, b \in X \/ b \notin ir.live
      PROVE  b \in S
    BY <1>5, <1>6, <1>9 DEF ClosedUnderBranches
<1> HIDE DEF X
<1> QED BY <1>1, <1>5, <1>8, <1>9, ReachedStill

LEMMA LeaveIterationReaches ==
    ASSUME IInv, Reaching, LeaveIteration
    PROVE  Reaching'
<1> DEFINE cmp == Top.cmp_bb
<1>1. InFunction /\ Top.kind = "while"
    BY DEF LeaveIteration, Running, InFunction
<1>2. cmp \in BB /\ ~MayErase(Top)
    BY <1>1, FrameFacts DEF IInv, TInv, FrameOK, Frame, MayErase
<1>3. ir \in IR /\ bb_now \in BB /\ insertAt = bb_now
    BY <1>1, Known
<1>4. Grows(ir', ir) /\ ir'.live \subseteq ir.live
    <2>1. CASE Terminated(ir, bb_now)
        <3>1. ir' = Erased(ir, Top.out_bb)
            BY <2>1 DEF LeaveIteration
        <3> QED BY <1>3, <3>1, ErasedShape DEF Grows
    <2>2. CASE ~Terminated(ir, bb_now)
        <3>1. ir' = Put(ir, bb_now, "term", {cmp}) /\ {cmp} \in SUBSET BB
            BY <1>2, <1>3, <2>2 DEF LeaveIteration, Branch
        <3> HIDE DEF cmp
        <3> QED BY <1>3, <3>1, GrowsPut
    <2> QED BY <2>1, <2>2
<1>5. frames' = ResumedAll(Below, FALSE)
    BY DEF LeaveIteration
<1>6. MaybeOut(frames) \subseteq MaybeOut(frames') \cup {}
    BY <1>1, <1>2, <1>5, MaybeOutBelow
<1> QED BY <1>4, <1>6, ReachedAsBefore

-----------------------------------------------------------------------------
(* The blocks are reached initially and every visit keeps it so. *)
LEMMA InitReaching == Init => Reaching
BY DEF Init, Reaching

LEMMA NextReaching == IInv /\ Reaching /\ [Next]_vars => Reaching'
<1> SUFFICES ASSUME IInv, Reaching, [Next]_vars PROVE Reaching'
    OBVIOUS
<1>1. CASE UNCHANGED vars
    BY <1>1 DEF vars, Reaching, ClosedUnderBranches
<1>2. CASE Next
    <2>1. CASE \E name \in Names, isArray \in BOOLEAN : VisitVarDeclaration(name, isArray)
        BY <2>1, VarDeclarationReaches
    <2>2. CASE \E name \in Names : VisitFunDeclaration(name)
        BY <2>2, FunDeclarationReaches
    <2>3. CASE \E name \in Names : VisitParam(name)
        BY <2>3, ParamReaches
    <2>4. CASE LeaveFunDeclaration
        BY <2>4, LeaveFunDeclarationReaches
    <2>5. CASE VisitCompound
        BY <2>5, CompoundReaches
    <2>6. CASE LeaveCompound
        BY <2>6, LeaveCompoundReaches
    <2>7. CASE VisitExpressionStmt
        BY <2>7, ExpressionStmtReaches
    <2>8. CASE VisitReturn
        BY <2>8, ReturnReaches
    <2>9. CASE \E hasElse \in BOOLEAN : VisitSelection(hasElse)
        BY <2>9, SelectionReaches
    <2>10. CASE SelectionElse
        BY <2>10, SelectionElseReaches
    <2>11. CASE LeaveSelection
        BY <2>11, LeaveSelectionReaches
    <2>12. CASE VisitIteration
        BY <2>12, IterationReaches
    <2>13. CASE LeaveIteration
        BY <2>13, LeaveIterationReaches
    <2> QED BY <1>2, <2>1, <2>2, <2>3, <2>4, <2>5, <2>6, <2>7, <2>8, <2>9, <2>10,
               <2>11, <2>12, <2>13 DEF Next
<1> QED BY <1>1, <1>2

(* No block that the generator leaves in a finished function is out of     *)
(* reach, whatever the nesting and also if the program returns early.      *)
THEOREM FinishedBlocksAreReached == Spec => []EveryBlockIsReached
<1>1. IInv /\ Reaching => EveryBlockIsReached
    <2> SUFFICES ASSUME Reaching, ~InFunction PROVE EveryBlockIsReached
        BY DEF EveryBlockIsReached
    <2>1. MaybeOut(frames) = {}
        <3>1. Len(frames) = 0
            BY DEF InFunction
        <3> QED BY <3>1 DEF MaybeOut
    <2> QED BY <2>1 DEF Reaching, EveryBlockIsReached
<1>2. Init => IInv /\ Reaching
    BY InitIInv, InitReaching
<1>3. IInv /\ Reaching /\ [Next]_vars => (IInv /\ Reaching)'
    BY NextIInv, NextReaching
<1> QED BY <1>1, <1>2, <1>3, PTL DEF Spec
=============================================================================
