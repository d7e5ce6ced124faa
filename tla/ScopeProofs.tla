----------------------------- MODULE ScopeProofs -----------------------------
(***************************************************************************)
(* The symbol table is static scoping, for every set of names and values   *)
(* and every depth: Scope implements StaticScope.                          *)
(***************************************************************************)
EXTENDS Scope, TLAPS, SequenceTheorems, WellFoundedInduction

-----------------------------------------------------------------------------
(* The methods of class Scope, for every vector of maps. *)

(* Every open block is a map from some names to values. *)
LEMMA BlockType ==
    ASSUME NEW s \in Seq(Block), NEW i \in 1..Len(s)
    PROVE  /\ s[i] = [n \in DOMAIN s[i] |-> s[i][n]]
           /\ DOMAIN s[i] \subseteq Names
           /\ \A n \in DOMAIN s[i] : s[i][n] \in Vals
<1>1. s[i] \in Block
    OBVIOUS
<1> QED BY <1>1 DEF Block

LEMMA EmptyBlockType == EmptyBlock \in Block /\ DOMAIN EmptyBlock = {}
<1>1. EmptyBlock \in [{} -> Vals]
    BY DEF EmptyBlock
<1> QED BY <1>1 DEF Block, EmptyBlock

(* insert() keeps a map a map, and adds no name but its own. *)
LEMMA InsertedType ==
    ASSUME NEW b \in Block, NEW name \in Names, NEW val \in Vals
    PROVE  /\ Inserted(b, name, val) \in Block
           /\ DOMAIN Inserted(b, name, val) = DOMAIN b \cup {name}
<1>1. PICK D \in SUBSET Names : b \in [D -> Vals]
    BY DEF Block
<1>2. Inserted(b, name, val) \in [D \cup {name} -> Vals]
    BY <1>1 DEF Inserted
<1> QED BY <1>1, <1>2 DEF Block, Inserted

(* The shape of the three updates of the vector. *)
LEMMA EnteredShape ==
    ASSUME NEW s \in Seq(Block)
    PROVE  /\ Entered(s) \in Seq(Block)
           /\ Len(Entered(s)) = Len(s) + 1
           /\ \A i \in 1..Len(s) : Entered(s)[i] = s[i]
           /\ Entered(s)[Len(s) + 1] = EmptyBlock
BY EmptyBlockType DEF Entered

LEMMA ExitedShape ==
    ASSUME NEW s \in Seq(Block), s # << >>
    PROVE  /\ Exited(s) \in Seq(Block)
           /\ Len(Exited(s)) = Len(s) - 1
           /\ \A i \in 1..(Len(s) - 1) : Exited(s)[i] = s[i]
<1>1. Len(s) \in Nat /\ Len(s) >= 1
    OBVIOUS
<1>2. \A i \in 1..(Len(s) - 1) : s[i] \in Block
    OBVIOUS
<1>3. /\ Exited(s) \in Seq(Block)
      /\ Len(Exited(s)) = IF 1 <= Len(s) - 1 THEN Len(s) - 1 ELSE 0
      /\ \A i \in 1..(Len(s) - 1) : Exited(s)[i] = s[1 + i - 1]
    BY <1>1, <1>2, SubSeqProperties DEF Exited
<1>4. Len(Exited(s)) = Len(s) - 1
    <2> DEFINE n == Len(s)
               m == Len(Exited(s))
    <2>1. n \in Nat /\ n >= 1 /\ m = IF 1 <= n - 1 THEN n - 1 ELSE 0
        BY <1>1, <1>3
    <2> HIDE DEF n, m
    <2>2. m = n - 1
        BY <2>1
    <2> QED BY <2>2 DEF n, m
<1>5. ASSUME NEW i \in 1..(Len(s) - 1) PROVE Exited(s)[i] = s[i]
    <2>1. 1 + i - 1 = i
        OBVIOUS
    <2> QED BY <1>3, <2>1
<1> QED BY <1>3, <1>4, <1>5

LEMMA PushedShape ==
    ASSUME NEW s \in Seq(Block), s # << >>,
           NEW name \in Names, NEW val \in Vals
    PROVE  /\ Pushed(s, name, val) \in Seq(Block)
           /\ Len(Pushed(s, name, val)) = Len(s)
           /\ \A i \in 1..(Len(s) - 1) : Pushed(s, name, val)[i] = s[i]
           /\ Pushed(s, name, val)[Len(s)] = Inserted(s[Len(s)], name, val)
<1> DEFINE new == Inserted(s[Len(s)], name, val)
<1>1. Len(s) \in 1..Len(s) /\ s[Len(s)] \in Block
    OBVIOUS
<1>2. new \in Block
    BY <1>1, InsertedType
<1>3. Pushed(s, name, val) = [s EXCEPT ![Len(s)] = new]
    BY DEF Pushed
<1> HIDE DEF new
<1>4. /\ [s EXCEPT ![Len(s)] = new] \in Seq(Block)
      /\ Len([s EXCEPT ![Len(s)] = new]) = Len(s)
      /\ \A j \in 1..Len(s) : [s EXCEPT ![Len(s)] = new][j] =
                                 IF j = Len(s) THEN new ELSE s[j]
    BY <1>1, <1>2, ExceptSeq
<1>5. /\ Pushed(s, name, val) \in Seq(Block)
      /\ Len(Pushed(s, name, val)) = Len(s)
    BY <1>3, <1>4
<1>6. Pushed(s, name, val)[Len(s)] = new
    BY <1>1, <1>3, <1>4
<1>7. ASSUME NEW i \in 1..(Len(s) - 1) PROVE Pushed(s, name, val)[i] = s[i]
    <2>1. i \in 1..Len(s) /\ i # Len(s)
        BY <1>1
    <2> QED BY <1>3, <1>4, <2>1
<1> QED BY <1>5, <1>6, <1>7 DEF new

(* A non-empty set of indices has a largest one. *)
LessThan == {p \in Nat \X Nat : p[1] < p[2]}

LEMMA LessThanWellFounded == IsWellFoundedOn(LessThan, Nat)
BY NatLessThanWellFounded DEF OpToRel, LessThan

LEMMA MaxOfIndices ==
    ASSUME NEW k \in Nat, NEW S \in SUBSET (1..k), S # {}
    PROVE  Max(S) \in S /\ \A y \in S : Max(S) >= y
<1> DEFINE T == {k - x : x \in S}
<1>1. T \subseteq Nat
    OBVIOUS
<1>2. T # {}
    <2>1. PICK x \in S : TRUE
        OBVIOUS
    <2>2. k - x \in T
        OBVIOUS
    <2> QED BY <2>2
<1>3. \E m \in T : \A y \in T : ~(<<y, m>> \in LessThan)
    <2> HIDE DEF T
    <2> QED BY <1>1, <1>2, LessThanWellFounded, WFMin
<1>4. PICK m \in T : \A y \in T : ~(y < m)
    BY <1>1, <1>3 DEF LessThan
<1>5. PICK x \in S : m = k - x
    OBVIOUS
<1>6. \A y \in S : x >= y
    <2> TAKE y \in S
    <2>1. k - y \in T
        OBVIOUS
    <2>2. ~(k - y < m)
        BY <2>1, <1>4
    <2> QED BY <2>2, <1>5
<1> QED BY <1>5, <1>6 DEF Max

(* find() over k blocks looks at nothing but those blocks. *)
LEMMA FindDependsOnPrefix ==
    ASSUME NEW s, NEW t, NEW k \in Nat, NEW name,
           \A i \in 1..k : s[i] = t[i]
    PROVE  FindUpTo(s, k, name) = FindUpTo(t, k, name)
<1> DEFINE hits(u) == {i \in 1..k : name \in DOMAIN u[i]}
<1>1. hits(s) = hits(t)
    OBVIOUS
<1>2. \A u : FindUpTo(u, k, name) =
                IF hits(u) = {} THEN NULL ELSE u[Max(hits(u))][name]
    BY DEF FindUpTo
<1>3. hits(s) # {} => Max(hits(s)) \in 1..k
    <2> SUFFICES ASSUME hits(s) # {} PROVE Max(hits(s)) \in 1..k
        OBVIOUS
    <2>1. hits(s) \in SUBSET (1..k)
        OBVIOUS
    <2> HIDE DEF hits
    <2> QED BY <2>1, MaxOfIndices
<1> HIDE DEF hits
<1> QED BY <1>1, <1>2, <1>3

(* The innermost block decides for its names and defers for the others. *)
LEMMA FindInnermost ==
    ASSUME NEW s, NEW k \in Nat \ {0}, NEW name
    PROVE  FindUpTo(s, k, name) = IF name \in DOMAIN s[k] THEN s[k][name]
                                  ELSE FindUpTo(s, k - 1, name)
<1> DEFINE hits(j) == {i \in 1..j : name \in DOMAIN s[i]}
<1>1. \A j : FindUpTo(s, j, name) =
                IF hits(j) = {} THEN NULL ELSE s[Max(hits(j))][name]
    BY DEF FindUpTo
<1>2. CASE name \in DOMAIN s[k]
    <2>1. hits(k) \in SUBSET (1..k) /\ k \in hits(k)
        BY <1>2
    <2>2. Max(hits(k)) \in 1..k /\ Max(hits(k)) >= k
        <3> HIDE DEF hits
        <3> QED BY <2>1, MaxOfIndices
    <2>3. Max(hits(k)) = k
        BY <2>2
    <2> HIDE DEF hits
    <2> QED BY <1>1, <1>2, <2>1, <2>3
<1>3. CASE name \notin DOMAIN s[k]
    <2>1. hits(k) = hits(k - 1)
        BY <1>3
    <2> HIDE DEF hits
    <2> QED BY <1>1, <1>3, <2>1
<1> QED BY <1>2, <1>3

(* What find() answers is a bound value or NULL. *)
LEMMA FindType ==
    ASSUME NEW s \in Seq(Block), NEW k \in 0..Len(s), NEW name \in Names
    PROVE  FindUpTo(s, k, name) \in Vals \cup {NULL}
<1> DEFINE hits == {i \in 1..k : name \in DOMAIN s[i]}
<1>1. FindUpTo(s, k, name) =
          IF hits = {} THEN NULL ELSE s[Max(hits)][name]
    BY DEF FindUpTo
<1>2. CASE hits # {}
    <2>1. hits \in SUBSET (1..k) /\ k \in Nat
        OBVIOUS
    <2>2. Max(hits) \in hits
        <3> HIDE DEF hits
        <3> QED BY <1>2, <2>1, MaxOfIndices
    <2>3. Max(hits) \in 1..Len(s) /\ name \in DOMAIN s[Max(hits)]
        BY <2>2
    <2>4. s[Max(hits)][name] \in Vals
        BY <2>3, BlockType
    <2> HIDE DEF hits
    <2> QED BY <1>1, <1>2, <2>4
<1>3. CASE hits = {}
    BY <1>1, <1>3
<1> QED BY <1>2, <1>3

-----------------------------------------------------------------------------

(* The vector always holds at least the global block, every block maps     *)
(* names to values, and a lookup answers with one of them or with NULL:    *)
(* push() and find() never index an empty vector.                          *)
THEOREM ScopeTypeCorrect == Spec => []TypeOK
<1>1. Init => TypeOK
    <2> SUFFICES ASSUME Init PROVE TypeOK
        OBVIOUS
    <2>1. << >> \in Seq(Block) /\ Len(<< >>) = 0
        OBVIOUS
    <2>2. /\ Entered(<< >>) \in Seq(Block)
          /\ Len(Entered(<< >>)) = Len(<< >>) + 1
        BY <2>1, EnteredShape
    <2>3. inner \in Seq(Block) /\ Len(inner) = 1
        BY <2>1, <2>2 DEF Init
    <2>4. inner # << >>
        BY <2>3
    <2> QED BY <2>3, <2>4 DEF Init, TypeOK
<1>2. TypeOK /\ [Next]_vars => TypeOK'
    <2> SUFFICES ASSUME TypeOK, [Next]_vars PROVE TypeOK'
        OBVIOUS
    <2> USE DEF TypeOK
    <2>1. CASE Enter
        BY <2>1, EnteredShape DEF Enter
    <2>2. CASE Exit
        <3>1. /\ Exited(inner) \in Seq(Block)
              /\ Len(Exited(inner)) = Len(inner) - 1
            BY ExitedShape
        <3>2. Len(inner) # 1 /\ Len(inner) \in Nat
            BY <2>2 DEF Exit, InGlobal
        <3>3. Exited(inner) # << >>
            BY <3>1, <3>2
        <3> QED BY <2>2, <3>1, <3>3 DEF Exit
    <2>3. ASSUME NEW name \in Names, NEW val \in Vals, Push(name, val)
          PROVE  TypeOK'
        BY <2>3, PushedShape DEF Push
    <2>4. ASSUME NEW name \in Names, Lookup(name)
          PROVE  TypeOK'
        BY <2>4, FindType DEF Lookup, Find
    <2>5. CASE UNCHANGED vars
        BY <2>5 DEF vars
    <2> QED BY <2>1, <2>2, <2>3, <2>4, <2>5 DEF Next
<1> QED BY <1>1, <1>2, PTL DEF Spec

-----------------------------------------------------------------------------
(* Lengthening and shortening a function on 1..n. *)
LEMMA OneMore ==
    ASSUME NEW n \in Nat, NEW f, NEW g,
           f = [i \in 1..n |-> f[i]],
           g = [i \in 1..(n + 1) |-> g[i]],
           \A i \in 1..n : g[i] = f[i]
    PROVE  /\ g = Append(f, g[n + 1])
           /\ f = SubSeq(g, 1, n)
<1> DEFINE S == {f[i] : i \in 1..n} \cup {g[n + 1]}
<1>1. f \in Seq(S) /\ Len(f) = n /\ g[n + 1] \in S
    OBVIOUS
<1>2. \A i \in 1..(n + 1) : g[i] \in S
    <2> TAKE i \in 1..(n + 1)
    <2>1. i \in 1..n \/ i = n + 1
        OBVIOUS
    <2> QED BY <2>1
<1> HIDE DEF S
<1>3. g \in Seq(S) /\ Len(g) = n + 1
    BY <1>2
<1>4. g = Append(f, g[n + 1])
    <2>1. /\ Append(f, g[n + 1]) \in Seq(S)
          /\ Len(Append(f, g[n + 1])) = n + 1
          /\ \A i \in 1..n : Append(f, g[n + 1])[i] = f[i]
          /\ Append(f, g[n + 1])[n + 1] = g[n + 1]
        BY <1>1, AppendProperties
    <2>2. \A i \in 1..(n + 1) : g[i] = Append(f, g[n + 1])[i]
        <3> TAKE i \in 1..(n + 1)
        <3>1. i \in 1..n \/ i = n + 1
            OBVIOUS
        <3> QED BY <2>1, <3>1
    <2> QED BY <1>3, <2>1, <2>2, SeqEqual
<1>5. f = SubSeq(g, 1, n)
    <2>1. /\ SubSeq(g, 1, n) \in Seq(S)
          /\ Len(SubSeq(g, 1, n)) = IF 1 <= n THEN n ELSE 0
          /\ \A i \in 1..n : SubSeq(g, 1, n)[i] = g[1 + i - 1]
        BY <1>2, <1>3, SubSeqProperties
    <2>2. Len(SubSeq(g, 1, n)) = n
        BY <2>1
    <2>3. \A i \in 1..n : f[i] = SubSeq(g, 1, n)[i]
        <3> TAKE i \in 1..n
        <3>1. 1 + i - 1 = i
            OBVIOUS
        <3> QED BY <2>1, <3>1
    <2> QED BY <1>1, <2>1, <2>2, <2>3, SeqEqual
<1> QED BY <1>4, <1>5

(* Equal blocks give equal environments. *)
LEMMA EnvDependsOnPrefix ==
    ASSUME NEW s, NEW t, NEW k \in Nat, \A i \in 1..k : s[i] = t[i]
    PROVE  EnvUpTo(s, k) = EnvUpTo(t, k)
<1>1. \A n \in Names : FindUpTo(s, k, n) = FindUpTo(t, k, n)
    BY FindDependsOnPrefix
<1> QED BY <1>1 DEF EnvUpTo

LEMMA OuterDependsOnPrefix ==
    ASSUME NEW s \in Seq(Block), NEW t \in Seq(Block),
           NEW m \in Nat, m <= Len(s) - 1, m <= Len(t) - 1,
           \A i \in 1..m : s[i] = t[i]
    PROVE  \A i \in 1..m : OuterOf(s)[i] = OuterOf(t)[i]
<1> TAKE i \in 1..m
<1>1. i \in Nat /\ \A j \in 1..i : s[j] = t[j]
    OBVIOUS
<1>2. EnvUpTo(s, i) = EnvUpTo(t, i)
    BY <1>1, EnvDependsOnPrefix
<1>3. i \in 1..(Len(s) - 1) /\ i \in 1..(Len(t) - 1) /\ s[i] = t[i]
    OBVIOUS
<1> QED BY <1>2, <1>3 DEF OuterOf

(* What the constructor's global block, enter(), exit() and push() are in  *)
(* the language's terms.                                                   *)
LEMMA GlobalView ==
    /\ EnvUpTo(Entered(<< >>), 1) = [n \in Names |-> NULL]
    /\ DOMAIN Entered(<< >>)[1] = {}
    /\ Len(Entered(<< >>)) = 1
    /\ OuterOf(Entered(<< >>)) = << >>
<1>1. << >> \in Seq(Block) /\ Len(<< >>) = 0
    OBVIOUS
<1> DEFINE g == Entered(<< >>)
<1>2. /\ Len(Entered(<< >>)) = Len(<< >>) + 1
      /\ Entered(<< >>)[Len(<< >>) + 1] = EmptyBlock
    BY <1>1, EnteredShape
<1>3. Len(g) = 1 /\ g[1] = EmptyBlock
    BY <1>1, <1>2
<1> HIDE DEF g
<1>4. \A n \in Names : FindUpTo(g, 1, n) = NULL
    <2> TAKE n \in Names
    <2>1. n \notin DOMAIN g[1]
        BY <1>3, EmptyBlockType
    <2>2. FindUpTo(g, 1 - 1, n) = NULL
        BY DEF FindUpTo
    <2> QED BY <2>1, <2>2, FindInnermost
<1>5. EnvUpTo(g, 1) = [n \in Names |-> NULL]
    BY <1>4 DEF EnvUpTo
<1>6. OuterOf(g) = << >>
    BY <1>3 DEF OuterOf
<1> QED BY <1>3, <1>5, <1>6, EmptyBlockType DEF g

LEMMA EnteredView ==
    ASSUME NEW s \in Seq(Block), s # << >>
    PROVE  /\ EnvUpTo(Entered(s), Len(Entered(s))) = EnvUpTo(s, Len(s))
           /\ DOMAIN Entered(s)[Len(Entered(s))] = {}
           /\ OuterOf(Entered(s)) =
                 Append(OuterOf(s), [env |-> EnvUpTo(s, Len(s)),
                                     own |-> DOMAIN s[Len(s)]])
<1> DEFINE t == Entered(s)
           m == Len(s)
<1>1. /\ t \in Seq(Block) /\ m \in Nat /\ m >= 1
      /\ Len(t) = m + 1
      /\ \A i \in 1..m : t[i] = s[i]
      /\ t[m + 1] = EmptyBlock
    BY EnteredShape
<1> HIDE DEF t
<1>2. DOMAIN t[m + 1] = {}
    BY <1>1, EmptyBlockType
<1>3. \A n \in Names : FindUpTo(t, m + 1, n) = FindUpTo(s, m, n)
    <2> TAKE n \in Names
    <2>1. FindUpTo(t, m + 1, n) = FindUpTo(t, (m + 1) - 1, n)
        <3>1. m + 1 \in Nat \ {0} /\ n \notin DOMAIN t[m + 1]
            BY <1>1, <1>2
        <3> HIDE DEF m
        <3> QED BY <3>1, FindInnermost
    <2>2. (m + 1) - 1 = m
        BY <1>1
    <2>3. FindUpTo(t, m, n) = FindUpTo(s, m, n)
        BY <1>1, FindDependsOnPrefix
    <2> QED BY <2>1, <2>2, <2>3
<1>4. EnvUpTo(t, m + 1) = EnvUpTo(s, m)
    BY <1>3 DEF EnvUpTo
<1>5. OuterOf(t) = Append(OuterOf(s), OuterOf(t)[m])
    <2> DEFINE n == m - 1
               f == OuterOf(s)
               g == OuterOf(t)
    <2>1. n \in Nat /\ n + 1 = m /\ n <= Len(s) - 1 /\ n <= Len(t) - 1
        BY <1>1
    <2>2. f = [i \in 1..n |-> f[i]]
        BY DEF OuterOf
    <2>3. g = [i \in 1..(n + 1) |-> g[i]]
        BY <1>1 DEF OuterOf
    <2>4. \A i \in 1..n : t[i] = s[i]
        BY <1>1
    <2>5. \A i \in 1..n : g[i] = f[i]
        BY <1>1, <2>1, <2>4, OuterDependsOnPrefix
    <2> HIDE DEF n, f, g
    <2>6. g = Append(f, g[n + 1])
        BY <2>1, <2>2, <2>3, <2>5, OneMore
    <2> QED BY <2>1, <2>6 DEF f, g
<1>6. OuterOf(t)[m] = [env |-> EnvUpTo(s, m), own |-> DOMAIN s[m]]
    <2>1. m \in 1..(Len(t) - 1) /\ t[m] = s[m]
        BY <1>1
    <2>2. EnvUpTo(t, m) = EnvUpTo(s, m)
        BY <1>1, EnvDependsOnPrefix
    <2> QED BY <2>1, <2>2 DEF OuterOf
<1> QED BY <1>1, <1>2, <1>4, <1>5, <1>6 DEF t

LEMMA ExitedView ==
    ASSUME NEW s \in Seq(Block), Len(s) > 1
    PROVE  /\ OuterOf(s) # << >>
           /\ EnvUpTo(Exited(s), Len(Exited(s))) =
                 OuterOf(s)[Len(OuterOf(s))].env
           /\ DOMAIN Exited(s)[Len(Exited(s))] =
                 OuterOf(s)[Len(OuterOf(s))].own
           /\ OuterOf(Exited(s)) = SubSeq(OuterOf(s), 1, Len(OuterOf(s)) - 1)
<1> DEFINE t == Exited(s)
           m == Len(s) - 1
<1>1. s # << >>
    OBVIOUS
<1>2. /\ t \in Seq(Block) /\ m \in Nat /\ m >= 1
      /\ Len(t) = m /\ Len(s) = m + 1
      /\ \A i \in 1..m : t[i] = s[i]
    BY <1>1, ExitedShape
<1> HIDE DEF t
<1>3. OuterOf(s) = [i \in 1..m |-> OuterOf(s)[i]]
    BY DEF OuterOf
<1>4. Len(OuterOf(s)) = m /\ OuterOf(s) # << >>
    <2> HIDE DEF m
    <2>1. Len(OuterOf(s)) = m
        BY <1>2, <1>3
    <2> QED BY <1>2, <2>1
<1>5. OuterOf(s)[m] = [env |-> EnvUpTo(s, m), own |-> DOMAIN s[m]]
    BY <1>2 DEF OuterOf
<1>6. EnvUpTo(t, m) = EnvUpTo(s, m) /\ t[m] = s[m]
    BY <1>2, EnvDependsOnPrefix
<1>7. OuterOf(t) = SubSeq(OuterOf(s), 1, m - 1)
    <2> DEFINE n == m - 1
               f == OuterOf(t)
               g == OuterOf(s)
    <2>1. n \in Nat /\ n + 1 = m /\ n <= Len(s) - 1 /\ n <= Len(t) - 1
        BY <1>2
    <2>2. f = [i \in 1..n |-> f[i]]
        BY <1>2 DEF OuterOf
    <2>3. g = [i \in 1..(n + 1) |-> g[i]]
        BY <1>2 DEF OuterOf
    <2>4. \A i \in 1..n : t[i] = s[i]
        BY <1>2
    <2>5. \A i \in 1..n : g[i] = f[i]
        BY <1>2, <2>1, <2>4, OuterDependsOnPrefix
    <2> HIDE DEF n, f, g
    <2>6. f = SubSeq(g, 1, n)
        BY <2>1, <2>2, <2>3, <2>5, OneMore
    <2> QED BY <2>6 DEF n, f, g
<1> HIDE DEF m
<1>8. /\ EnvUpTo(t, m) = OuterOf(s)[m].env
      /\ DOMAIN t[m] = OuterOf(s)[m].own
    BY <1>5, <1>6
<1> QED BY <1>2, <1>4, <1>7, <1>8 DEF t

LEMMA PushedView ==
    ASSUME NEW s \in Seq(Block), s # << >>,
           NEW name \in Names, NEW val \in Vals
    PROVE  LET t == Pushed(s, name, val)
               own == DOMAIN s[Len(s)]
               env == EnvUpTo(s, Len(s))
           IN  /\ EnvUpTo(t, Len(t)) =
                     IF name \in own THEN env ELSE [env EXCEPT ![name] = val]
               /\ DOMAIN t[Len(t)] = own \cup {name}
               /\ OuterOf(t) = OuterOf(s)
<1> DEFINE t == Pushed(s, name, val)
           m == Len(s)
           own == DOMAIN s[m]
           env == EnvUpTo(s, m)
<1>1. /\ t \in Seq(Block) /\ m \in Nat \ {0}
      /\ Len(t) = m
      /\ \A i \in 1..(m - 1) : t[i] = s[i]
      /\ t[m] = Inserted(s[m], name, val)
      /\ s[m] \in Block
    BY PushedShape
<1> HIDE DEF t, m
<1>2. DOMAIN t[m] = own \cup {name}
    <2>1. DOMAIN Inserted(s[m], name, val) = own \cup {name}
        BY <1>1, InsertedType
    <2> HIDE DEF own
    <2> QED BY <1>1, <2>1
<1>3. \A n \in own \cup {name} :
          t[m][n] = IF n \in own THEN s[m][n] ELSE val
    BY <1>1 DEF Inserted
<1>4. \A n \in Names : FindUpTo(t, m, n) =
          IF n = name /\ name \notin own THEN val ELSE FindUpTo(s, m, n)
    <2> TAKE n \in Names
    <2>1. FindUpTo(t, m - 1, n) = FindUpTo(s, m - 1, n)
        <3>1. m - 1 \in Nat
            BY <1>1
        <3> QED BY <1>1, <3>1, FindDependsOnPrefix
    <2>2. FindUpTo(t, m, n) = IF n \in DOMAIN t[m] THEN t[m][n]
                              ELSE FindUpTo(t, m - 1, n)
        BY <1>1, FindInnermost
    <2>3. FindUpTo(s, m, n) = IF n \in own THEN s[m][n]
                              ELSE FindUpTo(s, m - 1, n)
        BY <1>1, FindInnermost
    <2> HIDE DEF own
    <2> QED BY <1>2, <1>3, <2>1, <2>2, <2>3
<1>5. EnvUpTo(t, m) =
          IF name \in own THEN env ELSE [env EXCEPT ![name] = val]
    <2> HIDE DEF own
    <2> QED BY <1>4 DEF EnvUpTo
<1>6. OuterOf(t) = OuterOf(s)
    <2>1. m - 1 \in Nat /\ m - 1 <= Len(s) - 1 /\ m - 1 <= Len(t) - 1
        BY <1>1 DEF m
    <2>2. \A i \in 1..(m - 1) : OuterOf(t)[i] = OuterOf(s)[i]
        BY <1>1, <2>1, OuterDependsOnPrefix
    <2>3. /\ OuterOf(t) = [i \in 1..(m - 1) |-> OuterOf(t)[i]]
          /\ OuterOf(s) = [i \in 1..(m - 1) |-> OuterOf(s)[i]]
        BY <1>1 DEF OuterOf, m
    <2> QED BY <2>2, <2>3
<1> QED BY <1>1, <1>2, <1>5, <1>6 DEF t, m

-----------------------------------------------------------------------------
(* Whatever calls enter(), exit() and push() came before, find() answers   *)
(* as static scoping prescribes, for every set of names and any depth: the *)
(* class implements StaticScope.                                           *)
THEOREM ScopeIsStatic == Spec => IsStaticScope
<1>1. Init => Static!Init
    BY GlobalView DEF Init, Static!Init
<1>2. TypeOK /\ [Next]_vars => [Static!Next]_(Static!vars)
    <2> SUFFICES ASSUME TypeOK, [Next]_vars
                 PROVE  [Static!Next]_(Static!vars)
        OBVIOUS
    <2>1. CASE Enter
        <3>1. Static!Open
            BY <2>1, EnteredView DEF Enter, TypeOK, Static!Open
        <3> QED BY <3>1 DEF Static!Next
    <2>2. CASE Exit
        <3>1. Len(inner) > 1
            <4>1. Len(inner) \in Nat /\ Len(inner) # 0
                BY DEF TypeOK
            <4>2. Len(inner) # 1
                BY <2>2 DEF Exit, InGlobal
            <4> QED BY <4>1, <4>2
        <3>2. Static!Close
            BY <2>2, <3>1, ExitedView DEF Exit, TypeOK, Static!Close
        <3> QED BY <3>2 DEF Static!Next
    <2>3. ASSUME NEW name \in Names, NEW val \in Vals, Push(name, val)
          PROVE  Static!Next
        <3>1. Static!Declare(name, val)
            BY <2>3, PushedView DEF Push, TypeOK, Static!Declare
        <3> QED BY <3>1 DEF Static!Next
    <2>4. ASSUME NEW name \in Names, Lookup(name)
          PROVE  Static!Next
        <3>1. Static!Lookup(name)
            BY <2>4 DEF Lookup, Find, EnvUpTo, Static!Lookup
        <3> QED BY <3>1 DEF Static!Next
    <2>5. CASE UNCHANGED vars
        BY <2>5 DEF vars, Static!vars
    <2> QED BY <2>1, <2>2, <2>3, <2>4, <2>5 DEF Next
<1> QED BY <1>1, <1>2, ScopeTypeCorrect, PTL DEF Spec, IsStaticScope, Static!Spec
=============================================================================
