------------------------------ MODULE StmtGen ------------------------------
(***************************************************************************)
(* Code generation for declarations and statements (cminusc/builder.cpp):  *)
(* which basic block the visitor writes to, how blocks are created, ended, *)
(* linked and erased, and which blocks of the symbol table are open.       *)
(*                                                                         *)
(* The syntax tree is not built beforehand: the C++ call stack of the      *)
(* visitor is the sequence frames, and every accept() on a child chooses   *)
(* the child then.  An action runs from one visit of a child statement to  *)
(* the next.  Expressions only add instructions to the current block       *)
(* (ExprGen.tla models their visits).                                      *)
(***************************************************************************)
EXTENDS ScopeOps, FiniteSets

CONSTANTS
    MaxBlocks,  \* bound on the basic blocks of a module, for model checking
    MaxFrames   \* bound on the nesting of visits, for model checking

ASSUME BoundsAreNatural == MaxBlocks \in Nat /\ MaxFrames \in Nat

BB == 1..MaxBlocks
NoBB == 0

(* What the names of a program denote: an llvm::GlobalVariable, an         *)
(* llvm::Function, or an alloca in the function with entry block fn.       *)
Binding == [kind : {"global", "function", "param", "local"}, fn : BB \cup {NoBB}]

ASSUME BindingsAreValues == Binding \subseteq Vals

VARIABLES
    frames,    \* the activation records of the running visits
    ir,        \* the basic blocks of the module
    bb_now,    \* the global bb_now
    insertAt,  \* the insertion point of builder, always the end of a block
    func_now,  \* the global func_now, named by its entry block
    scope,     \* the member scope
    early      \* the program returns early (see below)

vars == <<frames, ir, bb_now, insertAt, func_now, scope, early>>

Frame == [kind    : {"fun", "comp", "if", "while"},
          pc      : {"params", "leave", "decls", "stmts", "true", "after_true",
                     "else", "after_else", "body", "after_body"},
          else_bb : BB \cup {NoBB},
          cmp_bb  : BB \cup {NoBB},
          out_bb  : BB \cup {NoBB},
          all_ret : 0..2,
          rets    : BOOLEAN]  \* no variable of the code: the statements
                              \* visited so far always return

Branching(kind, pc, else_bb, cmp_bb, out_bb) ==
    [kind |-> kind, pc |-> pc, else_bb |-> else_bb, cmp_bb |-> cmp_bb,
     out_bb |-> out_bb, all_ret |-> 0, rets |-> FALSE]
Call(kind, pc) == Branching(kind, pc, NoBB, NoBB, NoBB)

(* The basic blocks of the module: how many have been created, the entry   *)
(* blocks, those not erased, the kind of the last instruction of each, the *)
(* blocks its branches name; broken says that an instruction was put       *)
(* behind a terminator.                                                    *)
IR == [used   : 0..MaxBlocks,
       entry  : SUBSET BB,
       live   : SUBSET BB,
       last   : [BB -> {"none", "plain", "term"}],
       succ   : [BB -> SUBSET BB],
       broken : BOOLEAN]

TypeOK ==
    /\ frames \in Seq(Frame)
    /\ ir \in IR
    /\ bb_now \in BB \cup {NoBB}
    /\ insertAt \in BB \cup {NoBB}
    /\ func_now \in BB \cup {NoBB}
    /\ scope \in Seq(Block)
    /\ early \in BOOLEAN

-----------------------------------------------------------------------------
(* Blocks are numbered in the order in which they are created. *)
Created(r, n) ==
    [r EXCEPT !.used = @ + n, !.live = @ \cup (r.used + 1)..(r.used + n)]

Put(r, b, what, targets) ==
    [r EXCEPT !.last[b] = what,
              !.succ[b] = @ \cup targets,
              !.broken = @ \/ r.last[b] = "term"]

Plain(r, b) == Put(r, b, "plain", {})
Branch(r, b, targets) == Put(r, b, "term", targets)
Ret(r, b) == Put(r, b, "term", {})

(* eraseFromParent: the block is gone, branches to it are not rewritten. *)
Erased(r, b) == [r EXCEPT !.live = @ \ {b}]

(* bb_now->getTerminator() looks at the last instruction only. *)
Terminated(r, b) == r.last[b] = "term"

(* An expression appends at the builder's insertion point, and its address *)
(* computations (GetElementPtrInst::CreateInBounds) at bb_now; a constant  *)
(* appends nothing.                                                        *)
Evaluated(r, at, now) ==
    {r, Plain(r, at), Plain(r, now), Plain(Plain(r, at), now)}

-----------------------------------------------------------------------------
Top == frames[Len(frames)]
Below == SubSeq(frames, 1, Len(frames) - 1)
Running(kind, pcs) == frames # << >> /\ Top.kind = kind /\ Top.pc \in pcs

(* The accept() of a child statement is next. *)
AtStatement == frames # << >> /\ Top.pc \in {"decls", "stmts", "true", "else", "body"}

NextPc == [params |-> "leave", decls |-> "stmts", stmts |-> "stmts",
           true |-> "after_true", else |-> "after_else", body |-> "after_body"]

(* A child statement has been visited, and always returns or not. *)
Resumed(f, returns) ==
    [f EXCEPT !.pc = NextPc[@],
              !.rets = CASE f.kind = "comp" -> @ \/ returns
                         [] f.pc = "else"   -> @ /\ returns
                         [] OTHER           -> returns]

ResumedAll(fs, returns) == [fs EXCEPT ![Len(fs)] = Resumed(@, returns)]

(* The programs that return early have a statement behind one that always  *)
(* returns, or an else-less if or a while whose body always returns.       *)
Unreachable == Top.kind = "comp" /\ Top.rets

(* builder.SetInsertPoint(b) and bb_now = b, which the code always writes  *)
(* side by side.  A mutant forgets the second.                             *)
ContinueInBuilderOnly(b) == insertAt' = b /\ UNCHANGED bb_now
ContinueIn(b) == insertAt' = b /\ bb_now' = b

(* An array is allocated through bb_now, a scalar through builder.  A      *)
(* mutant puts every alloca in the entry block.                            *)
AllocaAtEntry(isArray) == func_now
AllocaBlock(isArray) == IF isArray THEN bb_now ELSE insertAt

(* visit(syntax_var_declaration).                                          *)
VisitVarDeclaration(name, isArray) ==
    /\ frames = << >> \/ Running("comp", {"decls"})
    /\ IF InGlobal(scope)
       THEN /\ scope' = Pushed(scope, name, [kind |-> "global", fn |-> NoBB])
            /\ UNCHANGED ir
       ELSE /\ ir' = Plain(ir, AllocaBlock(isArray))
            /\ scope' = Pushed(scope, name, [kind |-> "local", fn |-> func_now])
    /\ UNCHANGED <<frames, bb_now, insertAt, func_now, early>>

(* visit(syntax_fun_declaration), up to the arguments. *)
VisitFunDeclaration(name) ==
    LET theBB == ir.used + 1
    IN  /\ frames = << >>
        /\ theBB <= MaxBlocks
        /\ MaxFrames >= 2
        /\ frames' = <<Call("fun", "params")>>
        /\ ir' = [Created(ir, 1) EXCEPT !.entry = @ \cup {theBB}]
        /\ ContinueIn(theBB)
        /\ func_now' = theBB
        /\ scope' = Entered(Pushed(scope, name,
                                   [kind |-> "function", fn |-> theBB]))
        /\ UNCHANGED early

(* visit(syntax_param): alloca and store. *)
VisitParam(name) ==
    /\ Running("fun", {"params"})
    /\ ir' = Plain(ir, insertAt)
    /\ scope' = Pushed(scope, name, [kind |-> "param", fn |-> func_now])
    /\ UNCHANGED <<frames, bb_now, insertAt, func_now, early>>

(* The rest of visit(syntax_fun_declaration), after the body.  A mutant    *)
(* leaves the function's block of the symbol table open.                   *)
LeaveFunDeclarationInScope ==
    /\ Running("fun", {"leave"})
    /\ ir' = IF Terminated(ir, bb_now) THEN ir ELSE Ret(ir, insertAt)
    /\ frames' = Below
    /\ UNCHANGED <<bb_now, insertAt, func_now, scope, early>>
LeaveFunDeclaration ==
    /\ Running("fun", {"leave"})
    /\ ir' = IF Terminated(ir, bb_now) THEN ir ELSE Ret(ir, insertAt)
    /\ scope' = Exited(scope)
    /\ frames' = Below
    /\ UNCHANGED <<bb_now, insertAt, func_now, early>>

(* visit(syntax_compound_stmt), as a statement or as the body. *)
VisitCompound ==
    /\ AtStatement \/ Running("fun", {"params"})
    /\ Len(frames) < MaxFrames
    /\ frames' = Append(frames, Call("comp", "decls"))
    /\ scope' = Entered(scope)
    /\ early' = (early \/ Unreachable)
    /\ UNCHANGED <<ir, bb_now, insertAt, func_now>>

LeaveCompound ==
    /\ Running("comp", {"decls", "stmts"})
    /\ frames' = ResumedAll(Below, Top.rets)
    /\ scope' = Exited(scope)
    /\ UNCHANGED <<ir, bb_now, insertAt, func_now, early>>

VisitExpressionStmt ==
    /\ AtStatement
    /\ ir' \in Evaluated(ir, insertAt, bb_now)
    /\ frames' = ResumedAll(frames, FALSE)
    /\ early' = (early \/ Unreachable)
    /\ UNCHANGED <<bb_now, insertAt, func_now, scope>>

VisitReturn ==
    /\ AtStatement
    /\ \E r \in Evaluated(ir, insertAt, bb_now) : ir' = Ret(r, insertAt)
    /\ frames' = ResumedAll(frames, TRUE)
    /\ early' = (early \/ Unreachable)
    /\ UNCHANGED <<bb_now, insertAt, func_now, scope>>

(* Where an if goes when its condition is false.  A mutant takes the else  *)
(* block even if there is none.                                            *)
OtherwiseElse(else_bb, out_bb) == else_bb
Otherwise(else_bb, out_bb) == IF else_bb # NoBB THEN else_bb ELSE out_bb

(* visit(syntax_selection_stmt), up to the visit of if_statement. *)
VisitSelection(hasElse) ==
    LET if_true_bb == ir.used + 1
        if_else_bb == IF hasElse THEN ir.used + 2 ELSE NoBB
        count == IF hasElse THEN 3 ELSE 2
        if_out_bb == ir.used + count
    IN  /\ AtStatement
        /\ if_out_bb <= MaxBlocks
        /\ Len(frames) < MaxFrames
        /\ \E r \in Evaluated(Created(ir, count), insertAt, bb_now) :
               ir' = Branch(r, insertAt, {if_true_bb, Otherwise(if_else_bb, if_out_bb)})
        /\ ContinueIn(if_true_bb)
        /\ frames' = Append(frames,
                            Branching("if", "true", if_else_bb, NoBB, if_out_bb))
        /\ early' = (early \/ Unreachable)
        /\ UNCHANGED <<func_now, scope>>

(* Each branch ends by jumping to the out block unless it has a terminator *)
(* (mutants: it always jumps, it never does).  all_ret counts the branches *)
(* that have one (mutants: it counts all of them, all but the last).       *)
BranchEndAlways == Branch(ir, insertAt, {Top.out_bb})
BranchEndNever == ir
BranchEnd == IF Terminated(ir, bb_now) THEN ir ELSE Branch(ir, insertAt, {Top.out_bb})

AllRetAlways == Top.all_ret + 1
AllRetBeforeLast == Top.all_ret
AllRet == Top.all_ret + (IF Terminated(ir, bb_now) THEN 1 ELSE 0)

(* The end of the true branch, when there is an else branch to visit. *)
SelectionElse ==
    /\ Running("if", {"after_true"})
    /\ Top.else_bb # NoBB
    /\ ir' = BranchEnd
    /\ frames' = [frames EXCEPT ![Len(frames)].pc = "else",
                                ![Len(frames)].all_ret = AllRet]
    /\ ContinueIn(Top.else_bb)
    /\ UNCHANGED <<func_now, scope, early>>

(* The end of the last branch, and the out block. *)
LeaveSelection ==
    LET hasElse == Top.else_bb # NoBB
    IN  /\ Running("if", {"after_true", "after_else"})
        /\ hasElse => Top.pc = "after_else"
        /\ IF AllRet = (IF hasElse THEN 2 ELSE 1)
           THEN /\ ir' = Erased(BranchEnd, Top.out_bb)
                /\ UNCHANGED <<bb_now, insertAt>>
           ELSE /\ ir' = BranchEnd
                /\ ContinueIn(Top.out_bb)
        /\ frames' = ResumedAll(Below, hasElse /\ Top.rets)
        /\ early' = (early \/ (~hasElse /\ Top.rets))
        /\ UNCHANGED <<func_now, scope>>

(* visit(syntax_iteration_stmt), up to the visit of the body. *)
VisitIteration ==
    LET while_cmp_bb == ir.used + 1
        while_loop_bb == ir.used + 2
        while_out_bb == ir.used + 3
        entered == Branch(Created(ir, 3), insertAt, {while_cmp_bb})
    IN  /\ AtStatement
        /\ while_out_bb <= MaxBlocks
        /\ Len(frames) < MaxFrames
        /\ \E r \in Evaluated(entered, while_cmp_bb, while_cmp_bb) :
               ir' = Branch(r, while_cmp_bb, {while_loop_bb, while_out_bb})
        /\ ContinueIn(while_loop_bb)
        /\ frames' = Append(frames,
                            Branching("while", "body", NoBB, while_cmp_bb, while_out_bb))
        /\ early' = (early \/ Unreachable)
        /\ UNCHANGED <<func_now, scope>>

(* The end of the loop: back to the comparison, and the out block.  A      *)
(* mutant erases the wrong block of a loop whose body has returned.        *)
LeaveIterationErasingCmp ==
    /\ Running("while", {"after_body"})
    /\ IF Terminated(ir, bb_now)
       THEN ir' = Erased(ir, Top.cmp_bb) /\ UNCHANGED <<bb_now, insertAt>>
       ELSE ir' = Branch(ir, insertAt, {Top.cmp_bb}) /\ ContinueIn(Top.out_bb)
    /\ frames' = ResumedAll(Below, FALSE)
    /\ early' = (early \/ Top.rets)
    /\ UNCHANGED <<func_now, scope>>
LeaveIteration ==
    /\ Running("while", {"after_body"})
    /\ IF Terminated(ir, bb_now)
       THEN ir' = Erased(ir, Top.out_bb) /\ UNCHANGED <<bb_now, insertAt>>
       ELSE ir' = Branch(ir, insertAt, {Top.cmp_bb}) /\ ContinueIn(Top.out_bb)
    /\ frames' = ResumedAll(Below, FALSE)
    /\ early' = (early \/ Top.rets)
    /\ UNCHANGED <<func_now, scope>>

-----------------------------------------------------------------------------
(* The globals are zero before the constructor enters the global block. *)
Init ==
    /\ frames = << >>
    /\ ir = [used |-> 0, entry |-> {}, live |-> {}, last |-> [b \in BB |-> "none"],
             succ |-> [b \in BB |-> {}], broken |-> FALSE]
    /\ bb_now = NoBB
    /\ insertAt = NoBB
    /\ func_now = NoBB
    /\ scope = Entered(<< >>)
    /\ early = FALSE

Next ==
    \/ \E name \in Names, isArray \in BOOLEAN : VisitVarDeclaration(name, isArray)
    \/ \E name \in Names : VisitFunDeclaration(name)
    \/ \E name \in Names : VisitParam(name)
    \/ LeaveFunDeclaration
    \/ VisitCompound
    \/ LeaveCompound
    \/ VisitExpressionStmt
    \/ VisitReturn
    \/ \E hasElse \in BOOLEAN : VisitSelection(hasElse)
    \/ SelectionElse
    \/ LeaveSelection
    \/ VisitIteration
    \/ LeaveIteration

Spec == Init /\ [][Next]_vars

-----------------------------------------------------------------------------
InFunction == frames # << >>

(* Instructions go to two places, the builder's insertion point and the    *)
(* end of bb_now, and getTerminator() asks only bb_now: inside a function  *)
(* they are always one and the same block, and it has not been erased.     *)
InsertInSync == InFunction => insertAt = bb_now /\ bb_now \in ir.live

(* The records whose visits have entered a block of the symbol table. *)
OpenBlocks(fs) == {i \in DOMAIN fs : fs[i].kind \in {"fun", "comp"}}

(* enter() and exit() are balanced over all visits, in_global() is true    *)
(* outside of functions only, and the symbol table holds no alloca of      *)
(* another function, where loading it would be invalid.                    *)
ScopeMatchesNesting ==
    /\ Len(scope) = 1 + Cardinality(OpenBlocks(frames))
    /\ \A n \in DOMAIN scope[1] : scope[1][n].kind \in {"global", "function"}
    /\ \A i \in 2..Len(scope) : \A n \in DOMAIN scope[i] :
           scope[i][n] \in [kind : {"param", "local"}, fn : {func_now}]

(* The generator leaves no basic block of a finished function without a    *)
(* terminator, whatever the nesting of branches, loops and returns was.    *)
FunctionsAreClosed ==
    ~InFunction => \A b \in ir.live : Terminated(ir, b)

(* A set that holds the entry blocks and whatever their branches lead to. *)
ClosedUnderBranches(reached) ==
    ir.entry \subseteq reached /\ \A b \in reached : ir.succ[b] \subseteq reached

(* Every block it leaves in a finished function can be reached from an     *)
(* entry block: no out block survives that nothing jumps to.               *)
EveryBlockIsReached ==
    ~InFunction => \A reached \in SUBSET BB :
        ClosedUnderBranches(reached) => ir.live \subseteq reached

(* Unless the program returns early, no instruction follows a terminator   *)
(* in its block: BranchEnd and the final ret look before they add one.     *)
NoCodeAfterTerminator == ~early => ~ir.broken

(* A branch never names a block that has been erased.                      *)
NoDanglingBranch == \A b \in ir.live : ir.succ[b] \subseteq ir.live

(* That holds of the programs that do not return early: there an out block *)
(* is erased only when no branch or loop reaches it.                       *)
NoDanglingBranchUnlessEarly == ~early => NoDanglingBranch

(* Whether the current block has a terminator is all the generator knows   *)
(* about returns; it agrees with what the statements say.                  *)
TerminatorTracksReturns ==
    (~early /\ InFunction /\ Top.pc \notin {"true", "else", "after_else", "body"})
        => (Top.rets <=> Terminated(ir, bb_now))

(* The blocks some running visit has created and not come to yet. *)
PendingOf(f) ==
    ({f.out_bb} \cup IF f.pc \in {"true", "after_true"} THEN {f.else_bb} ELSE {})
        \ {NoBB}
Pending == UNION {PendingOf(frames[i]) : i \in DOMAIN frames}

(* A block that is neither current nor pending is finished: no later visit *)
(* adds to it, and it stays in the module.                                 *)
KeepsLeftBlocks ==
    \A b \in ir.live \ Pending : ~(InFunction /\ b = bb_now) =>
        b \in ir'.live /\ ir'.last[b] = ir.last[b] /\ ir'.succ[b] = ir.succ[b]

LeftBlocksAreFinal == [][KeepsLeftBlocks]_vars

(* Erasing a block throws no code away, and never the current block. *)
ErasesEmpty == \A b \in ir.live \ ir'.live : ir.last[b] = "none" /\ b # bb_now'

ErasesOnlyEmptyBlocks == [][ErasesEmpty]_vars
=============================================================================
