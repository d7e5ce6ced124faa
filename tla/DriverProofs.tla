---------------------------- MODULE DriverProofs ----------------------------
(***************************************************************************)
(* How main reads argv and what it does to files, for every argv.          *)
(***************************************************************************)
EXTENDS Driver, TLAPS, FiniteSetTheorems

(* Paths. *)
LEMMA WordsArePaths ==
    /\ \A s \in Stems : Word(s) \in Path
    /\ Empty \in Path /\ Empty.dir = "" /\ Empty.ext = << >>
<1>1. << >> \in Seq(Extensions)
    OBVIOUS
<1>2. \A s \in Stems : Word(s) \in Path
    BY <1>1 DEF Word, Path
<1>3. "" \in Stems
    BY NamesAreNames
<1>4. Empty.dir = "" /\ Empty.ext = << >>
    BY DEF Empty, Word
<1> QED BY <1>2, <1>3, <1>4 DEF Empty

LEMMA Appended ==
    ASSUME NEW e \in Seq(Extensions), NEW x \in Extensions
    PROVE  /\ Append(e, x) \in Seq(Extensions)
           /\ Len(Append(e, x)) # Len(e)
           /\ Append(e, x)[Len(Append(e, x))] = x
           /\ <<x>> \in Seq(Extensions) /\ <<x>>[Len(<<x>>)] = x
OBVIOUS

LEMMA FileIs ==
    ASSUME NEW p \in Path
    PROVE  /\ File(p) \in Path
           /\ File(p).stem = p.stem /\ File(p).ext = p.ext
           /\ File(p).dir = CASE p.dir \in {"./", ".//"} -> ""
                              [] p.dir = "./lib/" -> "lib/"
                              [] OTHER -> p.dir
           /\ File(File(p)) = File(p)
BY DEF File, Path

LEMMA FilesDiffer ==
    ASSUME NEW p \in Path, NEW q \in Path, p.ext # q.ext
    PROVE  File(p) # File(q)
<1>1. File(p).ext = p.ext /\ File(q).ext = q.ext
    BY FileIs
<1> QED BY <1>1

(* "./" before a path names another file only if the path is absolute. *)
LEMMA PrefixedIs ==
    ASSUME NEW p \in Path, NEW q \in Prefixed(p)
    PROVE  q \in Path /\ (p.dir # "/" => File(q) = File(p))
<1> DEFINE dotted == [p EXCEPT !.dir = CASE @ = "" -> "./" [] @ = "/" -> ".//" [] @ = "lib/" -> "./lib/"]
<1>1. CASE p = Empty
  <2>1. q = Empty \/ q = [Empty EXCEPT !.dir = "./"]
      BY <1>1 DEF Prefixed
  <2>2. Empty = [dir |-> "", stem |-> "", ext |-> << >>]
      BY DEF Empty, Word
  <2> QED BY <1>1, <2>1, <2>2 DEF File, Path
<1>2. CASE p # Empty /\ p.dir \in {"", "/", "lib/"}
  <2>1. q = dotted
      BY <1>2 DEF Prefixed
  <2> QED BY <1>2, <2>1 DEF File, Path
<1>3. CASE p # Empty /\ p.dir \notin {"", "/", "lib/"}
    BY <1>3 DEF Prefixed
<1> QED BY <1>1, <1>2, <1>3

(* The files that are written have other names than the input. *)
LEMMA DefaultOutputIs ==
    ASSUME NEW p \in Path, IsCminus(p), NEW llvm \in BOOLEAN
    PROVE  /\ DefaultOutput(p, llvm) \in Path
           /\ File(DefaultOutput(p, llvm)) # File(p)
           /\ File(ObjectName(DefaultOutput(p, llvm))) # File(p)
<1> DEFINE e == p.ext
           o == DefaultOutput(p, llvm)
<1>1. e \in Seq(Extensions) /\ e # << >> /\ e[Len(e)] = ".cminus"
    BY DEF Path, IsCminus, Last
<1>2. Front(e) \in Seq(Extensions)
    BY <1>1 DEF Front
<1> DEFINE ll == Append(Front(e), ".ll")
           out == <<".out">>
<1>3. ll \in Seq(Extensions) /\ ll[Len(ll)] = ".ll"
    BY <1>2, NamesAreNames, Appended
<1>4. out \in Seq(Extensions) /\ out[Len(out)] = ".out"
    BY <1>2, NamesAreNames, Appended
<1>5. o = IF llvm THEN [p EXCEPT !.ext = ll] ELSE [p EXCEPT !.stem = "a", !.ext = out]
    BY DEF DefaultOutput
<1> HIDE DEF e, o, ll, out
<1>6. o \in Path /\ o.ext = IF llvm THEN ll ELSE out
    BY <1>3, <1>4, <1>5, NamesAreNames DEF Path
<1>7. o.ext \in Seq(Extensions) /\ o.ext[Len(o.ext)] # ".cminus"
    BY <1>3, <1>4, <1>6
<1> DEFINE oo == Append(o.ext, ".o")
<1>8. oo \in Seq(Extensions) /\ oo[Len(oo)] = ".o"
    BY <1>7, NamesAreNames, Appended
<1> HIDE DEF oo
<1>9. ObjectName(o) \in Path /\ ObjectName(o).ext = oo
    BY <1>6, <1>8 DEF ObjectName, Path, oo
<1>10. o.ext # p.ext /\ ObjectName(o).ext # p.ext
    BY <1>1, <1>7, <1>8, <1>9 DEF e
<1> QED BY <1>6, <1>9, <1>10, FilesDiffer DEF o

LEMMA ObjectNameIs ==
    ASSUME NEW p \in Path
    PROVE  ObjectName(p) \in Path /\ File(ObjectName(p)) # File(p)
<1> DEFINE e == p.ext
           oo == Append(e, ".o")
<1>1. e \in Seq(Extensions)
    BY DEF Path
<1> HIDE DEF e
<1>2. oo \in Seq(Extensions) /\ Len(oo) # Len(e)
    BY <1>1, NamesAreNames, Appended
<1> HIDE DEF oo
<1>3. ObjectName(p) \in Path /\ ObjectName(p).ext = oo
    BY <1>2 DEF ObjectName, Path, e, oo
<1>4. ObjectName(p).ext # p.ext
    BY <1>2, <1>3 DEF e
<1> QED BY <1>3, <1>4, FilesDiffer

LEMMA PutKeeps ==
    ASSUME NEW p, NEW c \in Content, \A f \in DOMAIN disk : disk[f] \in Content
    PROVE  \A f \in DOMAIN Put(p, c) : Put(p, c)[f] \in Content
BY DEF Put

(* Writing to one file leaves what another one holds. *)
At(d, f) == IF f \in DOMAIN d THEN d[f] ELSE "nothing"

LEMMA PutElsewhere ==
    ASSUME NEW p, NEW c, disk' = Put(p, c), NEW f, f # File(p)
    PROVE  At(disk', f) = At(disk, f)
BY DEF Put, At

LEMMA PutThere ==
    ASSUME NEW p, NEW c, disk' = Put(p, c)
    PROVE  At(disk', File(p)) = c
BY DEF Put, At

LEMMA HoldsIs ==
    /\ Holds(input_path) = At(disk, File(input_path))
    /\ Holds(ObjectName(output_path)) = At(disk, File(ObjectName(output_path)))
BY DEF Holds, At

LEMMA HoldsNext ==
    ASSUME input_path' = input_path, output_path' = output_path
    PROVE  /\ Holds(input_path)' = At(disk', File(input_path))
           /\ Holds(ObjectName(output_path))' = At(disk', File(ObjectName(output_path)))
           /\ File(input_path)' = File(input_path) /\ File(output_path)' = File(output_path)
BY DEF Holds, At, File, ObjectName

(* The object file has not the name of a source. *)
LEMMA ObjectIsNoSource ==
    ASSUME NEW p \in Path, NEW q \in Path, IsCminus(q)
    PROVE  File(q) # File(ObjectName(p))
<1> DEFINE e == p.ext
           oo == Append(e, ".o")
<1>1. e \in Seq(Extensions)
    BY DEF Path
<1>2. oo[Len(oo)] = ".o" /\ oo \in Seq(Extensions)
    BY <1>1, NamesAreNames, Appended
<1> HIDE DEF oo
<1>3. ObjectName(p) \in Path /\ ObjectName(p).ext = oo
    BY <1>2 DEF ObjectName, Path, oo
<1>4. q.ext[Len(q.ext)] = ".cminus"
    BY DEF IsCminus, Last
<1>5. q.ext # ObjectName(p).ext
    BY <1>2, <1>3, <1>4
<1> QED BY <1>3, <1>5, FilesDiffer

-----------------------------------------------------------------------------
(* Which arguments are on their own. *)
IsOwn(j) == Cardinality(Prior(j)) % 2 = 0

LEMMA PriorIsFinite ==
    ASSUME NEW j \in Nat \ {0}
    PROVE  IsFiniteSet(Prior(j)) /\ Cardinality(Prior(j)) \in Nat /\ j \notin Prior(j)
<1>1. Prior(j) \subseteq 1..(j - 1) /\ IsFiniteSet(1..(j - 1))
    BY FS_Interval DEF Prior
<1>2. IsFiniteSet(Prior(j))
    BY <1>1, FS_Subset
<1>3. j \notin 1..(j - 1)
    OBVIOUS
<1> QED BY <1>1, <1>2, <1>3, FS_CardinalityType

LEMMA FirstIsOwn == IsOwn(1)
<1>1. Prior(1) = {}
    BY DEF Prior
<1> QED BY <1>1, FS_EmptySet DEF IsOwn

(* What follows an argument on its own is its value if it is a "-o". *)
LEMMA NextIsOwn ==
    ASSUME NEW j \in Nat \ {0}
    PROVE  IsOwn(j + 1) <=> argv[j] # Word("-o") \/ ~IsOwn(j)
<1>1. CASE argv[j] = Word("-o")
  <2>1. Prior(j + 1) = Prior(j) \cup {j}
    <3>1. ASSUME NEW k \in Prior(j + 1) PROVE k \in Prior(j) \cup {j}
      <4>1. k \in 1..j /\ \A m \in k..j : argv[m] = Word("-o")
          BY <3>1 DEF Prior
      <4>2. k # j => k \in 1..(j - 1) /\ \A m \in k..(j - 1) : m \in k..j
          BY <4>1
      <4> QED BY <4>1, <4>2 DEF Prior
    <3>2. ASSUME NEW k \in Prior(j) PROVE k \in Prior(j + 1)
      <4>1. k \in 1..(j - 1) /\ \A m \in k..(j - 1) : argv[m] = Word("-o")
          BY <3>2 DEF Prior
      <4>2. k \in 1..j /\ \A m \in k..j : m \in k..(j - 1) \/ m = j
          BY <4>1
      <4>3. \A m \in k..j : argv[m] = Word("-o")
          BY <1>1, <4>1, <4>2
      <4>4. (j + 1) - 1 = j
          OBVIOUS
      <4> QED BY <4>2, <4>3, <4>4 DEF Prior
    <3>3. j \in Prior(j + 1)
      <4>1. j \in 1..j /\ (j + 1) - 1 = j /\ \A m \in j..j : m = j
          OBVIOUS
      <4>2. \A m \in j..j : argv[m] = Word("-o")
          BY <1>1, <4>1
      <4> QED BY <4>1, <4>2 DEF Prior
    <3> QED BY <3>1, <3>2, <3>3
  <2>2. Cardinality(Prior(j + 1)) = Cardinality(Prior(j)) + 1
      BY <2>1, PriorIsFinite, FS_AddElement
  <2>3. \A c \in Nat : (c + 1) % 2 = 0 <=> c % 2 # 0
      OBVIOUS
  <2> QED BY <1>1, <2>2, <2>3, PriorIsFinite DEF IsOwn
<1>2. CASE argv[j] # Word("-o")
  <2>1. Prior(j + 1) = {}
    <3> SUFFICES ASSUME NEW k \in Prior(j + 1) PROVE FALSE
        OBVIOUS
    <3>1. k \in 1..j /\ \A m \in k..j : argv[m] = Word("-o")
        BY DEF Prior
    <3>2. j \in k..j
        BY <3>1
    <3> QED BY <1>2, <3>1, <3>2
  <2> QED BY <1>2, <2>1, FS_EmptySet DEF IsOwn
<1> QED BY <1>1, <1>2

LEMMA OwnIs == \A j : j \in Own <=> j \in 1..Len(argv) /\ IsOwn(j)
BY DEF Own, IsOwn
-----------------------------------------------------------------------------
(* What main knows of the arguments before j. *)
Seen(j, word) == \E k \in Own : k < j /\ argv[k] = word

ReadSoFar ==
    /\ \A k \in Own : k < i => argv[k] \notin Help
    /\ emit <=> Seen(i, Word("--emit-llvm"))
    /\ analyse <=> Seen(i, Word("--analyse"))
OutputSoFar ==
    /\ \A j, k \in Outputs : j < i /\ k < i => j = k
    /\ \A j \in Outputs : j < i => output_path = argv[j + 1]
    /\ at \in {"scan", "output"} /\ output_path # Empty => \E j \in Outputs : j < i
InputSoFar ==
    input_path # Empty =>
    \E j \in Inputs : /\ j < i /\ input_path \in Prefixed(argv[j])
                      /\ \A k \in Inputs : k < i => k <= j

ScanOK ==
    at # "done" =>
    /\ at = "scan" => IsOwn(i)
    /\ at # "scan" => i = Len(argv) + 1 /\ input_path # Empty
    /\ ReadSoFar /\ OutputSoFar /\ InputSoFar

(* Behind the scan the output path is the one given, or the default. *)
OutputOK ==
    at \notin {"scan", "output", "done"} /\ Outputs = {} =>
    IsCminus(input_path) /\ output_path = DefaultOutput(input_path, emit)

(* Nothing that main writes is a source, and it gets beyond the earlier    *)
(* phases only with one: that still stands when the output is written,     *)
(* unless the output took its place.                                       *)
SourceOK ==
    /\ \A f \in DOMAIN disk : disk[f] = "source" => IsCminus(f)
    /\ at \in {"target", "emit", "object", "link"} => Holds(input_path) = "source"
    /\ at = "print" => Holds(input_path) = "source" \/ File(input_path) = File(output_path)
    /\ at \in {"emit", "print"} => emit /\ ~analyse
    /\ at \in {"object", "link"} => ~emit /\ ~analyse
    /\ at = "link" => Holds(ObjectName(output_path)) \in {"object", "broken"}

IInv == TypeOK /\ ScanOK /\ OutputOK /\ SourceOK

LEMMA ArgvIs ==
    ASSUME TypeOK
    PROVE  /\ Len(argv) \in Nat /\ i \in Nat \ {0} /\ i <= Len(argv) + 1
           /\ \A j \in 1..Len(argv) : argv[j] \in Path
           /\ \A j \in Own : j \in Nat \ {0} /\ j <= Len(argv)
           /\ Inputs \subseteq Own /\ Outputs \subseteq Own
<1>1. argv \in Seq(Arguments) /\ i \in 1..Len(argv) + 1
    BY DEF TypeOK
<1>2. Len(argv) \in Nat /\ i \in Nat \ {0} /\ i <= Len(argv) + 1
    BY <1>1
<1>3. \A j \in 1..Len(argv) : argv[j] \in Path
    BY <1>1, ArgumentsArePaths
<1>4. \A j \in Own : j \in Nat \ {0} /\ j <= Len(argv)
    BY <1>2, OwnIs
<1> QED BY <1>2, <1>3, <1>4 DEF Inputs, Outputs

LEMMA InitIInv == Init => IInv
<1> SUFFICES ASSUME Init PROVE IInv
    OBVIOUS
<1>1. PICK n \in 0..MaxArgs : argv \in [1..n -> Arguments]
    BY DEF Init
<1>2. n \in Nat
    BY MaxArgsIsNat
<1>3. argv \in Seq(Arguments) /\ Len(argv) = n
    BY <1>1, <1>2
<1>4. i = 1 /\ i \in 1..Len(argv) + 1
    BY <1>2, <1>3 DEF Init
<1>10. \A f \in DOMAIN disk : (disk[f] = "source" /\ f \in Sources) \/ disk[f] = "old"
    BY DEF Init
<1>5. TypeOK
    BY <1>3, <1>4, <1>10, WordsArePaths DEF Init, TypeOK, NoCode, Content
<1>11. \A f \in Sources : IsCminus(f)
    <2> SUFFICES ASSUME NEW a \in Arguments, IsCminus(a) PROVE IsCminus(File(a))
        BY DEF Sources
    <2>1. File(a).ext = a.ext
        BY ArgumentsArePaths, FileIs
    <2> QED BY <2>1 DEF IsCminus
<1>12. SourceOK
    BY <1>10, <1>11 DEF SourceOK, Init
<1>6. \A j \in Own : ~(j < i)
    BY <1>4, <1>5, ArgvIs
<1>7. ReadSoFar
    BY <1>6 DEF ReadSoFar, Seen, Init
<1>8. OutputSoFar /\ InputSoFar
    BY <1>5, <1>6, ArgvIs DEF OutputSoFar, InputSoFar, Init
<1>9. IsOwn(i)
    BY <1>4, FirstIsOwn
<1> QED BY <1>5, <1>7, <1>8, <1>9, <1>12 DEF IInv, ScanOK, OutputOK, Init

-----------------------------------------------------------------------------
LEMMA TypesNext ==
    ASSUME TypeOK, [Next]_vars PROVE TypeOK'
<1> USE DEF TypeOK
<1>1. Len(argv) \in Nat /\ i \in 1..Len(argv) + 1 /\ \A j \in 1..Len(argv) : argv[j] \in Path
    BY ArgvIs
<1>2. CASE PrintHelp \/ EndScan \/ WrongExtension \/ Compile \/ CompileFails \/ TargetReady
           \/ TargetFails \/ CannotOpen
    BY <1>2 DEF PrintHelp, EndScan, WrongExtension, Compile, CompileFails, TargetReady,
                TargetFails, CannotOpen, Exit, Going, Settings, Scanning, NoCode
<1>3. CASE ScanOutput
  <2>1. i < Len(argv) /\ argv[i + 1] \in Path /\ i + 2 \in 1..Len(argv) + 1
      BY <1>1, <1>3 DEF ScanOutput
  <2> QED BY <1>3, <2>1 DEF ScanOutput, Skip, Scanning
<1>4. CASE ScanFlag
  <2>1. i + 1 \in 1..Len(argv) + 1
      BY <1>1, <1>4 DEF ScanFlag, Scanning
  <2> QED BY <1>4, <2>1 DEF ScanFlag, Skip, Scanning
<1>5. CASE ScanInput
  <2>1. i + 1 \in 1..Len(argv) + 1 /\ Arg \in Path
      BY <1>1, <1>5 DEF ScanInput, Scanning, Arg
  <2>2. input_path' \in Path
      BY <1>5, <2>1, PrefixedIs DEF ScanInput
  <2> QED BY <1>5, <2>1, <2>2 DEF ScanInput, Skip, Scanning
<1>6. CASE ChooseOutput
  <2>1. output_path' \in Path
      BY <1>6, DefaultOutputIs DEF ChooseOutput
  <2> QED BY <1>6, <2>1 DEF ChooseOutput, Going
<1>7. \A p : \A c \in Content : disk' = Put(p, c) => \A f \in DOMAIN disk' : disk'[f] \in Content
    BY PutKeeps
<1>8. CASE OpenLlvm \/ PrintLlvm \/ PrintFails
  <2>1. \A f \in DOMAIN disk' : disk'[f] \in Content
    <3>1. \E c \in Content : disk' = Put(output_path, c)
        BY <1>8 DEF OpenLlvm, PrintLlvm, PrintFails, Content
    <3> QED BY <1>7, <3>1
  <2> QED BY <1>8, <2>1 DEF OpenLlvm, PrintLlvm, PrintFails, Exit, Going, Settings, NoCode
<1>9. CASE EmitObject \/ CannotEmit
  <2>1. \A f \in DOMAIN disk' : disk'[f] \in Content
    <3>1. \E c \in Content : disk' = Put(ObjectName(output_path), c)
        BY <1>9 DEF EmitObject, CannotEmit, Content
    <3> QED BY <1>7, <3>1
  <2> QED BY <1>9, <2>1 DEF EmitObject, CannotEmit, Exit, Going, Settings, NoCode
<1>10. CASE Link
  <2>1. \A f \in DOMAIN disk' : disk'[f] \in Content
    <3>1. CASE disk' = disk
        BY <3>1
    <3>2. CASE disk' = Put(output_path, "program") \/ disk' = Put(output_path, "nothing")
        BY <1>7, <3>2 DEF Content
    <3> QED BY <1>10, <3>1, <3>2 DEF Link
  <2> QED BY <1>10, <2>1 DEF Link, Exit, Settings, NoCode
<1>11. CASE Exited \/ UNCHANGED vars
    BY <1>11 DEF Exited, vars
<1> QED BY <1>2, <1>3, <1>4, <1>5, <1>6, <1>8, <1>9, <1>10, <1>11 DEF Next

-----------------------------------------------------------------------------
(* One step of the scan. *)
LEMMA WordsDiffer ==
    /\ Word("-o") \in Options /\ Word("-o") \notin Help
    /\ Word("-o") \notin {Word("--emit-llvm"), Word("--analyse")}
    /\ Word("--emit-llvm") # Word("--analyse")
    /\ Word("--emit-llvm") \in Options \ Help /\ Word("--analyse") \in Options \ Help
<1>1. \A s, t : Word(s) = Word(t) => s = t
    BY DEF Word
<1> QED BY <1>1 DEF Options, Help

LEMMA SameArgv ==
    ASSUME argv' = argv
    PROVE  /\ Own' = Own /\ Inputs' = Inputs /\ Outputs' = Outputs
           /\ \A j : IsOwn(j)' = IsOwn(j)
BY DEF Own, Inputs, Outputs, IsOwn, Prior

(* The scan goes from one argument on its own to the next. *)
LEMMA Stepped ==
    ASSUME TypeOK, IsOwn(i), i <= Len(argv)
    PROVE  /\ i \in Own
           /\ argv[i] # Word("-o") => IsOwn(i + 1) /\ \A k \in Own : k < i + 1 <=> k < i \/ k = i
           /\ argv[i] = Word("-o") => IsOwn(i + 2) /\ \A k \in Own : k < i + 2 <=> k < i \/ k = i
<1>1. Len(argv) \in Nat /\ i \in Nat \ {0} /\ \A j \in Own : j \in Nat
    BY ArgvIs
<1>2. i \in Own
    BY <1>1, OwnIs
<1>3. \A k \in Own : k < i + 1 <=> k < i \/ k = i
    BY <1>1
<1>4. argv[i] # Word("-o") => IsOwn(i + 1)
    BY <1>1, NextIsOwn
<1>5. ASSUME argv[i] = Word("-o")
      PROVE  IsOwn(i + 2) /\ \A k \in Own : k < i + 2 <=> k < i \/ k = i
  <2>1. ~IsOwn(i + 1)
      BY <1>1, <1>5, NextIsOwn
  <2>2. i + 1 \in Nat \ {0} /\ (i + 1) + 1 = i + 2
      BY <1>1
  <2>3. IsOwn(i + 2)
      BY <2>1, <2>2, NextIsOwn
  <2>4. i + 1 \notin Own
      BY <2>1, OwnIs
  <2> QED BY <1>1, <2>3, <2>4
<1> QED BY <1>2, <1>3, <1>4, <1>5

LEMMA ScanSteps ==
    ASSUME TypeOK, ScanOK, ScanOutput \/ ScanFlag \/ ScanInput
    PROVE  ScanOK'
<1>1. argv' = argv /\ at = "scan" /\ at' = "scan" /\ i <= Len(argv)
    BY DEF ScanOutput, ScanFlag, ScanInput, Scanning
<1>2. Own' = Own /\ Inputs' = Inputs /\ Outputs' = Outputs /\ \A j : IsOwn(j)' = IsOwn(j)
    BY <1>1, SameArgv
<1>3. IsOwn(i) /\ ReadSoFar /\ OutputSoFar /\ InputSoFar
    BY <1>1 DEF ScanOK
<1>4. /\ i \in Own
      /\ argv[i] # Word("-o") => IsOwn(i + 1) /\ \A k \in Own : k < i + 1 <=> k < i \/ k = i
      /\ argv[i] = Word("-o") => IsOwn(i + 2) /\ \A k \in Own : k < i + 2 <=> k < i \/ k = i
    BY <1>1, <1>3, Stepped
<1>5. argv[i] = Word("-o") <=> ScanOutput
    BY WordsDiffer DEF ScanOutput, ScanFlag, ScanInput, Arg
<1>6. i' = (IF ScanOutput THEN i + 2 ELSE i + 1)
    BY <1>5 DEF ScanOutput, ScanFlag, ScanInput, Skip, Arg
<1>7. \A k \in Own : k < i' <=> k < i \/ k = i
    BY <1>4, <1>5, <1>6
<1>8. IsOwn(i')
    BY <1>4, <1>5, <1>6
<1>9. IsOwn(i)'
    BY <1>1, <1>8 DEF IsOwn, Prior
<1>10. Outputs \subseteq Own /\ Inputs \subseteq Own
    BY DEF Outputs, Inputs
<1>11. ReadSoFar'
  <2>1. argv[i] \notin Help
      BY WordsDiffer DEF ScanOutput, ScanFlag, ScanInput, Arg, Options
  <2>2. \A k \in Own : k < i' => argv[k] \notin Help
      BY <1>3, <1>7, <2>1 DEF ReadSoFar
  <2>3. \A w : Seen(i, w)' <=> Seen(i, w) \/ argv[i] = w
      BY <1>1, <1>2, <1>4, <1>7 DEF Seen
  <2>4. /\ emit' = (emit \/ argv[i] = Word("--emit-llvm"))
        /\ analyse' = (analyse \/ argv[i] = Word("--analyse"))
    <3>1. CASE ScanFlag
        BY <3>1 DEF ScanFlag, Arg
    <3>2. CASE ScanOutput \/ ScanInput
      <4>1. argv[i] # Word("--emit-llvm") /\ argv[i] # Word("--analyse")
          BY <3>2, WordsDiffer DEF ScanOutput, ScanInput, Arg
      <4>2. emit' = emit /\ analyse' = analyse
          BY <3>2 DEF ScanOutput, ScanInput
      <4> QED BY <4>1, <4>2 DEF TypeOK
    <3> QED BY <3>1, <3>2
  <2> QED BY <1>1, <1>2, <1>3, <2>2, <2>3, <2>4 DEF ReadSoFar
<1>12. OutputSoFar'
  <2>1. CASE ScanOutput
    <3>1. output_path = Empty /\ output_path' = argv[i + 1] /\ i < Len(argv)
        BY <2>1 DEF ScanOutput
    <3>2. \A j \in Outputs : ~(j < i)
        BY <1>3, <3>1 DEF OutputSoFar, Outputs
    <3>3. \A j \in Outputs : j < i' => j = i
        BY <1>7, <1>10, <3>2
    <3>4. argv[i + 1] # Empty => i \in Outputs /\ i < i'
        BY <1>4, <1>5, <1>7, <2>1, <3>1 DEF Outputs
    <3> QED BY <1>1, <1>2, <3>1, <3>3, <3>4 DEF OutputSoFar
  <2>2. CASE ScanFlag \/ ScanInput
    <3>1. i \notin Outputs
        BY <1>5, <2>2, WordsDiffer DEF Outputs, ScanFlag, ScanInput, Arg
    <3>2. \A j \in Outputs : j < i' <=> j < i
        BY <1>7, <1>10, <3>1
    <3>3. output_path' = output_path
        BY <2>2 DEF ScanFlag, ScanInput
    <3> QED BY <1>1, <1>2, <1>3, <3>2, <3>3 DEF OutputSoFar
  <2> QED BY <2>1, <2>2
<1>13. InputSoFar'
  <2>1. CASE ScanInput
    <3>1. i \in Inputs /\ i < i' /\ input_path = Empty /\ input_path' \in Prefixed(argv[i])
        BY <1>4, <1>7, <2>1 DEF Inputs, ScanInput, Arg
    <3>2. \A k \in Inputs : k < i' => k <= i
      <4>1. \A k \in Inputs : k \in Nat
          BY ArgvIs
      <4>2. i \in Nat
          BY ArgvIs
      <4> QED BY <1>7, <1>10, <4>1, <4>2
    <3> QED BY <1>1, <1>2, <3>1, <3>2 DEF InputSoFar
  <2>2. CASE ScanFlag \/ ScanOutput
    <3>1. argv[i] \in Options
        BY <2>2, WordsDiffer DEF ScanFlag, ScanOutput, Arg
    <3>2. \A j \in Inputs : j < i' <=> j < i
        BY <1>7, <1>10, <3>1 DEF Inputs
    <3>3. input_path' = input_path
        BY <2>2 DEF ScanFlag, ScanOutput
    <3> QED BY <1>1, <1>2, <1>3, <3>2, <3>3 DEF InputSoFar
  <2> QED BY <2>1, <2>2
<1> QED BY <1>1, <1>9, <1>11, <1>12, <1>13 DEF ScanOK

(* Behind the scan only ChooseOutput changes a setting. *)
LEMMA ScanNext ==
    ASSUME TypeOK, ScanOK, [Next]_vars
    PROVE  ScanOK'
<1>1. CASE ScanOutput \/ ScanFlag \/ ScanInput
    BY <1>1, ScanSteps
<1>2. CASE at' = "done"
    BY <1>2 DEF ScanOK
<1>3. CASE EndScan \/ ChooseOutput \/ Compile \/ TargetReady \/ OpenLlvm \/ EmitObject
           \/ UNCHANGED vars
  <2>1. /\ argv' = argv /\ i' = i /\ input_path' = input_path
        /\ emit' = emit /\ analyse' = analyse
        /\ output_path' = output_path \/ ChooseOutput
      BY <1>3 DEF EndScan, ChooseOutput, Compile, TargetReady, OpenLlvm, EmitObject, vars, Settings
  <2>2. Own' = Own /\ Inputs' = Inputs /\ Outputs' = Outputs /\ \A j : IsOwn(j)' = IsOwn(j)
      BY <2>1, SameArgv
  <2>3. SUFFICES ASSUME at # "done" PROVE ScanOK'
    <3>1. CASE at = "done"
        BY <1>3, <3>1 DEF EndScan, ChooseOutput, Compile, TargetReady, OpenLlvm, EmitObject, vars, ScanOK
    <3> QED BY <3>1
  <2>4. ReadSoFar /\ OutputSoFar /\ InputSoFar
      BY <2>3 DEF ScanOK
  <2>5. ReadSoFar'
      BY <2>1, <2>2, <2>4 DEF ReadSoFar, Seen
  <2>6. InputSoFar'
      BY <2>1, <2>2, <2>4 DEF InputSoFar
  <2>7. OutputSoFar'
    <3>1. CASE ChooseOutput
      <4>1. at' \notin {"scan", "output"} /\ output_path # Empty => output_path' = output_path
          BY <3>1 DEF ChooseOutput, Going
      <4>2. \A j \in Outputs : j < i => output_path # Empty /\ output_path = argv[j + 1]
          BY <2>4 DEF OutputSoFar, Outputs
      <4>3. at' \notin {"scan", "output"}
          BY <3>1 DEF ChooseOutput, Going
      <4> QED BY <2>1, <2>2, <2>4, <4>1, <4>2, <4>3 DEF OutputSoFar
    <3>2. CASE ~ChooseOutput
      <4>1. at' \in {"scan", "output"} => at \in {"scan", "output"}
          BY <1>3, <3>2 DEF EndScan, Compile, TargetReady, OpenLlvm, EmitObject, Going, vars
      <4> QED BY <2>1, <2>2, <2>4, <3>2, <4>1 DEF OutputSoFar
    <3> QED BY <3>1, <3>2
  <2>8. at' = "scan" => at = "scan" /\ IsOwn(i)'
    <3>1. at' = "scan" => at = "scan"
        BY <1>3 DEF EndScan, ChooseOutput, Compile, TargetReady, OpenLlvm, EmitObject, Going, vars
    <3>2. at = "scan" => IsOwn(i)
        BY <2>3 DEF ScanOK
    <3>3. IsOwn(i)' <=> IsOwn(i)
        BY <2>1 DEF IsOwn, Prior
    <3> QED BY <3>1, <3>2, <3>3
  <2>9. at' # "scan" => i' = Len(argv') + 1 /\ input_path' # Empty
    <3>1. CASE EndScan
        BY <3>1, <2>1, ArgvIs DEF EndScan
    <3>2. CASE ~EndScan
      <4>1. at' # "scan" => at # "scan"
          BY <1>3, <3>2 DEF ChooseOutput, Compile, TargetReady, OpenLlvm, EmitObject, Going, vars
      <4> QED BY <2>1, <2>3, <4>1 DEF ScanOK
    <3> QED BY <3>1, <3>2
  <2> QED BY <2>5, <2>6, <2>7, <2>8, <2>9 DEF ScanOK
<1>4. at' = "done" \/ Exited \/ EndScan \/ ChooseOutput \/ Compile \/ TargetReady
      \/ OpenLlvm \/ EmitObject \/ UNCHANGED vars \/ ScanOutput \/ ScanFlag \/ ScanInput
    BY DEF Next, PrintHelp, WrongExtension, CompileFails, TargetFails, PrintLlvm, PrintFails,
           CannotOpen, CannotEmit, Link, Exit
<1>5. CASE Exited
    BY <1>5, <1>3 DEF Exited
<1> QED BY <1>1, <1>2, <1>3, <1>4, <1>5

LEMMA OutputNext ==
    ASSUME TypeOK, ScanOK, OutputOK, [Next]_vars
    PROVE  OutputOK'
<1>1. CASE ChooseOutput
  <2>1. argv' = argv /\ input_path' = input_path /\ emit' = emit /\ at = "output"
      BY <1>1 DEF ChooseOutput
  <2>2. Outputs' = Outputs
      BY <2>1, SameArgv
  <2>3. ASSUME Outputs = {} PROVE output_path = Empty
      BY <2>1, <2>3 DEF ScanOK, OutputSoFar
  <2>4. ASSUME Outputs = {}
        PROVE  IsCminus(input_path) /\ output_path' = DefaultOutput(input_path, emit)
      BY <1>1, <2>3, <2>4 DEF ChooseOutput
  <2> QED BY <2>1, <2>2, <2>4 DEF OutputOK, IsCminus
<1>2. CASE Compile \/ TargetReady \/ OpenLlvm \/ EmitObject \/ UNCHANGED vars
  <2>1. /\ argv' = argv /\ input_path' = input_path /\ emit' = emit /\ output_path' = output_path
        /\ at' \notin {"scan", "output", "done"} => at \notin {"scan", "output", "done"}
      BY <1>2 DEF Compile, TargetReady, OpenLlvm, EmitObject, vars, Settings, Going
  <2>2. Outputs' = Outputs
      BY <2>1, SameArgv
  <2> QED BY <2>1, <2>2 DEF OutputOK, IsCminus
<1>3. CASE at' \in {"scan", "output", "done"}
    BY <1>3 DEF OutputOK
<1>4. at' \in {"scan", "output", "done"} \/ ChooseOutput \/ Compile \/ TargetReady
      \/ OpenLlvm \/ EmitObject \/ UNCHANGED vars
    BY DEF Next, PrintHelp, ScanOutput, ScanFlag, ScanInput, Scanning, EndScan, WrongExtension,
           CompileFails, TargetFails, PrintLlvm, PrintFails, CannotOpen, CannotEmit, Link,
           Exited, Exit, Going
<1> QED BY <1>1, <1>2, <1>3, <1>4

LEMMA SourceNext ==
    ASSUME TypeOK, SourceOK, [Next]_vars
    PROVE  SourceOK'
<1>1. /\ input_path \in Path /\ output_path \in Path
      /\ \A f \in DOMAIN disk : disk[f] = "source" => IsCminus(f)
    BY DEF TypeOK, SourceOK
<1>2. ASSUME NEW p, NEW c, c # "source", disk' = Put(p, c)
      PROVE  \A f \in DOMAIN disk' : disk'[f] = "source" => IsCminus(f)
  <2>1. \A f \in DOMAIN disk' : disk'[f] = IF f = File(p) THEN c ELSE disk[f]
      BY <1>2 DEF Put
  <2>2. \A f \in DOMAIN disk' : f = File(p) \/ f \in DOMAIN disk
      BY <1>2 DEF Put
  <2> QED BY <1>1, <1>2, <2>1, <2>2
<1>3. \A f \in DOMAIN disk' : disk'[f] = "source" => IsCminus(f)
  <2>1. CASE disk' = disk
      BY <1>1, <2>1
  <2>2. CASE OpenLlvm \/ PrintLlvm \/ PrintFails \/ EmitObject \/ CannotEmit
    <3>1. \E p, c : c # "source" /\ disk' = Put(p, c)
        BY <2>2 DEF OpenLlvm, PrintLlvm, PrintFails, EmitObject, CannotEmit
    <3> QED BY <1>2, <3>1
  <2>3. CASE Link
    <3>1. disk' = disk \/ \E p, c : c # "source" /\ disk' = Put(p, c)
        BY <2>3 DEF Link
    <3> QED BY <1>2, <2>1, <3>1
  <2>4. disk' = disk \/ OpenLlvm \/ PrintLlvm \/ PrintFails \/ EmitObject \/ CannotEmit \/ Link
      BY DEF Next, PrintHelp, ScanOutput, ScanFlag, ScanInput, EndScan, ChooseOutput,
             WrongExtension, Compile, CompileFails, TargetReady, TargetFails, CannotOpen,
             Exited, vars
  <2> QED BY <2>1, <2>2, <2>3, <2>4
<1>4. CASE at' \in {"scan", "output", "compile", "done"}
    BY <1>3, <1>4 DEF SourceOK, IsCminus
<1>5. CASE Compile \/ TargetReady \/ UNCHANGED vars
  <2>1. /\ input_path' = input_path /\ output_path' = output_path /\ emit' = emit
        /\ analyse' = analyse /\ disk' = disk
      BY <1>5 DEF Compile, TargetReady, Settings, vars
  <2>2. /\ Holds(input_path)' = Holds(input_path)
        /\ Holds(ObjectName(output_path))' = Holds(ObjectName(output_path))
        /\ File(input_path)' = File(input_path) /\ File(output_path)' = File(output_path)
      BY <2>1, HoldsIs, HoldsNext
  <2>3. CASE Compile
      BY <1>3, <2>1, <2>2, <2>3 DEF Compile, Going, SourceOK, IsCminus
  <2>4. CASE TargetReady
    <3>1. at' = (IF emit THEN "emit" ELSE "object") /\ ~analyse /\ Holds(input_path) = "source"
        BY <2>4 DEF TargetReady, Going, SourceOK
    <3> QED BY <1>3, <2>1, <2>2, <3>1 DEF SourceOK, IsCminus
  <2>5. CASE UNCHANGED vars
    <3>1. at' = at
        BY <2>5 DEF vars
    <3> QED BY <1>3, <2>1, <2>2, <3>1 DEF SourceOK, IsCminus
  <2> QED BY <1>5, <2>3, <2>4, <2>5
<1>6. CASE OpenLlvm
  <2>1. /\ at = "emit" /\ at' = "print" /\ disk' = Put(output_path, "empty")
        /\ input_path' = input_path /\ output_path' = output_path /\ emit' = emit
        /\ analyse' = analyse
      BY <1>6 DEF OpenLlvm, Going, Settings
  <2>2. Holds(input_path) = "source" /\ emit /\ ~analyse
      BY <2>1 DEF SourceOK
  <2>3. File(input_path)' = File(input_path) /\ File(output_path)' = File(output_path)
      BY <2>1, HoldsNext
  <2>4. File(input_path) # File(output_path) => Holds(input_path)' = "source"
      BY <2>1, <2>2, HoldsIs, HoldsNext, PutElsewhere
  <2> QED BY <1>3, <2>1, <2>2, <2>3, <2>4 DEF SourceOK, IsCminus
<1>7. CASE EmitObject
  <2>1. PICK c \in {"object", "broken"} : disk' = Put(ObjectName(output_path), c)
      BY <1>7 DEF EmitObject
  <2>2. /\ at = "object" /\ at' = "link"
        /\ input_path' = input_path /\ output_path' = output_path /\ emit' = emit
        /\ analyse' = analyse
      BY <1>7 DEF EmitObject, Going, Settings
  <2>3. Holds(input_path) = "source" /\ ~emit /\ ~analyse
      BY <2>2 DEF SourceOK
  <2>4. IsCminus(input_path)
    <3>1. File(input_path) \in DOMAIN disk /\ disk[File(input_path)] = "source"
        BY <2>3 DEF Holds
    <3>2. IsCminus(File(input_path)) /\ File(input_path).ext = input_path.ext
        BY <1>1, <3>1, FileIs
    <3> QED BY <3>2 DEF IsCminus
  <2>5. Holds(input_path)' = "source"
    <3>1. File(input_path) # File(ObjectName(output_path))
        BY <1>1, <2>4, ObjectIsNoSource
    <3> QED BY <2>1, <2>2, <2>3, <3>1, HoldsIs, HoldsNext, PutElsewhere
  <2>6. Holds(ObjectName(output_path))' = c
      BY <2>1, <2>2, HoldsNext, PutThere
  <2> QED BY <1>3, <2>1, <2>2, <2>3, <2>5, <2>6 DEF SourceOK, IsCminus
<1>8. at' \in {"scan", "output", "compile", "done"} \/ Compile \/ TargetReady \/ OpenLlvm
      \/ EmitObject \/ UNCHANGED vars
    BY DEF Next, PrintHelp, ScanOutput, ScanFlag, ScanInput, Scanning, EndScan, ChooseOutput,
           WrongExtension, CompileFails, TargetFails, PrintLlvm, PrintFails, CannotOpen,
           CannotEmit, Link, Exited, Exit, Going
<1> QED BY <1>4, <1>5, <1>6, <1>7, <1>8

LEMMA SpecIInv == Spec => []IInv
<1>1. IInv /\ [Next]_vars => IInv'
    BY TypesNext, ScanNext, OutputNext, SourceNext DEF IInv
<1> QED BY InitIInv, <1>1, PTL DEF Spec

-----------------------------------------------------------------------------
(* Every variable of main keeps its type, and main has a code to return    *)
(* exactly when it is done.                                                *)
THEOREM TypesAreRight == Spec => []TypeOK
BY SpecIInv, PTL DEF IInv

(* The scan of main.cpp ends with the settings that argv asks for, however *)
(* long it is and in whatever order.                                       *)
THEOREM TheScanReadsArgv == Spec => []ScanReadsArgv
<1>1. ASSUME IInv, at \notin {"scan", "done"}
      PROVE  /\ \A word \in Help : ~Given(word)
             /\ emit <=> Given(Word("--emit-llvm"))
             /\ analyse <=> Given(Word("--analyse"))
             /\ \A j, k \in Outputs : j = k
             /\ \A j \in Outputs : output_path = argv[j + 1]
             /\ \E j \in Inputs : input_path \in Prefixed(argv[j]) /\ \A k \in Inputs : k <= j
  <2>1. TypeOK /\ i = Len(argv) + 1 /\ input_path # Empty /\ ReadSoFar /\ OutputSoFar /\ InputSoFar
      BY <1>1 DEF IInv, ScanOK
  <2>2. \A k \in Own : k < i
    <3>1. Len(argv) \in Nat /\ \A k \in Own : k \in Nat /\ k <= Len(argv)
        BY <2>1, ArgvIs
    <3> QED BY <2>1, <3>1
  <2>3. \A word : Seen(i, word) <=> Given(word)
      BY <2>2 DEF Seen, Given
  <2>4. Outputs \subseteq Own /\ Inputs \subseteq Own
      BY DEF Outputs, Inputs
  <2> QED BY <2>1, <2>2, <2>3, <2>4 DEF ReadSoFar, OutputSoFar, InputSoFar, Given
<1>2. ASSUME TypeOK, NEW j \in Inputs, input_path \in Prefixed(argv[j]), \A k \in Inputs : k <= j
      PROVE  LET named == argv[CHOOSE l \in Inputs : \A k \in Inputs : k <= l]
             IN  named.dir # "/" => File(input_path) = File(named)
  <2> DEFINE last == CHOOSE l \in Inputs : \A k \in Inputs : k <= l
  <2>1. last \in Inputs /\ \A k \in Inputs : k <= last
      BY <1>2
  <2>2. last \in Nat /\ j \in Nat
      BY <1>2, <2>1, ArgvIs
  <2>3. last = j
      BY <1>2, <2>1, <2>2
  <2>4. argv[j] \in Path
    <3>1. j \in 1..Len(argv)
        BY <1>2 DEF Inputs, Own
    <3> QED BY <1>2, <3>1, ArgvIs
  <2>5. argv[j].dir # "/" => File(input_path) = File(argv[j])
      BY <1>2, <2>4, PrefixedIs
  <2> QED BY <2>3, <2>5
<1>3. IInv => ScanReadsArgv
  <2> SUFFICES ASSUME IInv, at \notin {"scan", "done"} PROVE ScanReadsArgv
      BY DEF ScanReadsArgv
  <2>1. PICK j \in Inputs : input_path \in Prefixed(argv[j]) /\ \A k \in Inputs : k <= j
      BY <1>1
  <2>2. LET named == argv[CHOOSE l \in Inputs : \A k \in Inputs : k <= l]
        IN  named.dir # "/" => File(input_path) = File(named)
      BY <1>2, <2>1 DEF IInv
  <2> QED BY <1>1, <2>1, <2>2 DEF ScanReadsArgv
<1> QED BY SpecIInv, <1>3, PTL

(* What the output path held is lost only to a compilation that argv asks  *)
(* for, of a source, and not before the object file is written unless the  *)
(* module itself is printed: a refused input, --analyse and a failure of   *)
(* any phase before main.cpp:232 or :273 leave it alone.                   *)
THEOREM TheOutputOutlivesRefusal == Spec => OutputOutlivesRefusal
<1> DEFINE f == File(output_path)
           Lost == f \in DOMAIN disk /\ disk'[f] # disk[f]
           Deserved == /\ \A word \in Help \cup {Word("--analyse")} : ~Given(word)
                       /\ Holds(input_path) = "source" \/ File(input_path) = f
                       /\ \/ Given(Word("--emit-llvm"))
                          \/ Holds(ObjectName(output_path)) \in {"object", "broken"}
<1>1. ASSUME IInv, ScanReadsArgv, Next, Lost
      PROVE  Deserved
  <2>1. output_path \in Path
      BY <1>1 DEF IInv, TypeOK
  <2>2. \A c : disk' # Put(ObjectName(output_path), c)
    <3> SUFFICES ASSUME NEW c, disk' = Put(ObjectName(output_path), c) PROVE FALSE
        OBVIOUS
    <3>1. File(ObjectName(output_path)) # f
        BY <2>1, ObjectNameIs
    <3> QED BY <1>1, <3>1 DEF Put
  <2>3. OpenLlvm \/ PrintLlvm \/ PrintFails \/ Link
    <3>1. disk' # disk
        BY <1>1
    <3>2. ~EmitObject /\ ~CannotEmit
        BY <2>2 DEF EmitObject, CannotEmit
    <3> QED BY <1>1, <3>1, <3>2
            DEF Next, PrintHelp, ScanOutput, ScanFlag, ScanInput, EndScan, ChooseOutput,
                WrongExtension, Compile, CompileFails, TargetReady, TargetFails, CannotOpen,
                Exited, vars
  <2>4. at \in {"emit", "print", "link"}
      BY <2>3 DEF OpenLlvm, PrintLlvm, PrintFails, Link
  <2>5. /\ \A word \in Help : ~Given(word)
        /\ emit <=> Given(Word("--emit-llvm"))
        /\ analyse <=> Given(Word("--analyse"))
      BY <1>1, <2>4 DEF ScanReadsArgv
  <2>6. ~analyse /\ (Holds(input_path) = "source" \/ File(input_path) = f)
      BY <1>1, <2>4 DEF IInv, SourceOK
  <2>7. emit \/ Holds(ObjectName(output_path)) \in {"object", "broken"}
      BY <1>1, <2>4 DEF IInv, SourceOK
  <2> QED BY <2>5, <2>6, <2>7
<1>2. IInv /\ ScanReadsArgv /\ [Next]_vars => [Lost => Deserved]_vars
    BY <1>1
<1> QED BY SpecIInv, TheScanReadsArgv, <1>2, PTL DEF Spec, OutputOutlivesRefusal

(* The default output path of main.cpp and the object file beside it are   *)
(* never the input file.                                                   *)
THEOREM TheInputSurvives == Spec => InputSurvives
<1> DEFINE f == File(input_path)
<1>1. ASSUME IInv, Next, Outputs = {}, f \in DOMAIN disk
      PROVE  disk'[f] = disk[f]
  <2>1. input_path \in Path /\ emit \in BOOLEAN
      BY <1>1 DEF IInv, TypeOK
  <2>2. ASSUME at \in {"emit", "print", "object", "link"}
        PROVE  f # File(output_path) /\ f # File(ObjectName(output_path))
    <3>1. IsCminus(input_path) /\ output_path = DefaultOutput(input_path, emit)
        BY <1>1, <2>2 DEF IInv, OutputOK
    <3> QED BY <2>1, <3>1, DefaultOutputIs
  <2>3. ASSUME NEW p, NEW c, f # File(p), disk' = Put(p, c)
        PROVE  disk'[f] = disk[f]
      BY <1>1, <2>3 DEF Put
  <2>4. CASE OpenLlvm \/ PrintLlvm \/ PrintFails
      BY <2>2, <2>3, <2>4 DEF OpenLlvm, PrintLlvm, PrintFails
  <2>5. CASE EmitObject \/ CannotEmit
      BY <2>2, <2>3, <2>5 DEF EmitObject, CannotEmit
  <2>6. CASE Link
      BY <2>2, <2>3, <2>6 DEF Link
  <2>7. OpenLlvm \/ PrintLlvm \/ PrintFails \/ Link \/ EmitObject \/ CannotEmit \/ disk' = disk
      BY <1>1 DEF Next, PrintHelp, ScanOutput, ScanFlag, ScanInput, EndScan, ChooseOutput,
                  WrongExtension, Compile, CompileFails, TargetReady, TargetFails, CannotOpen,
                  Exited, vars
  <2> QED BY <2>4, <2>5, <2>6, <2>7
<1>2. IInv /\ [Next]_vars =>
      [(Outputs = {} /\ f \in DOMAIN disk) => disk'[f] = disk[f]]_vars
    BY <1>1
<1> QED BY SpecIInv, <1>2, PTL DEF Spec, InputSurvives
=============================================================================
