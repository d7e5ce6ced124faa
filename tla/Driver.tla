------------------------------- MODULE Driver -------------------------------
(***************************************************************************)
(* The compiler driver (cminusc/main.cpp): the scan of argv, one argument  *)
(* per step, the choice of the output path, and the pipeline from the      *)
(* input file to the file written for it.  The file system, what the       *)
(* earlier phases make of the input and LLVM are the environment: each may *)
(* fail where the code has a branch for it.                                *)
(*                                                                         *)
(* A path is a directory, a stem and its extensions; an option is the path *)
(* its characters spell.                                                   *)
(***************************************************************************)
EXTENDS Naturals, Sequences, FiniteSets, SequencesExt

CONSTANTS
    Stems,      \* what names can be without
    Extensions, \* their extensions
    Arguments,  \* what an element of argv may be
    MaxArgs     \* bound on argc - 1, for model checking

Path == [dir  : {"", "./", "../", "d/", "lib/", "./lib/", "/", ".//"},
         stem : Stems,
         ext  : Seq(Extensions)]
Word(stem) == [dir |-> "", stem |-> stem, ext |-> << >>]
Empty == Word("")
Help == {Word("-h"), Word("--help")}
Options == Help \cup {Word("-o"), Word("--emit-llvm"), Word("--analyse")}

ASSUME NamesAreNames ==
    /\ {"", "a", "-h", "--help", "-o", "--emit-llvm", "--analyse"} \subseteq Stems
    /\ {".cminus", ".ll", ".out", ".o"} \subseteq Extensions
ASSUME ArgumentsArePaths == Arguments \subseteq Path
ASSUME MaxArgsIsNat == MaxArgs \in Nat

VARIABLES
    argv,         \* argv[1] to argv[argc - 1]
    i,            \* the argument the scan is at
    input_path, output_path, emit, analyse,
    at,           \* what main does next
    code,         \* what it returns or exits with
    disk          \* the files, by where they are: what they hold

vars == <<argv, i, input_path, output_path, emit, analyse, at, code, disk>>

(* The file a path names: a leading "./" says nothing, nor do the slashes  *)
(* that follow it.                                                         *)
File(path) == [path EXCEPT !.dir = CASE @ \in {"./", ".//"} -> ""
                                     [] @ = "./lib/" -> "lib/"
                                     [] OTHER -> @]

NoCode == 256
Content == {"source", "old", "empty", "broken", "llvm", "object", "program", "nothing"}
Holds(path) == IF File(path) \in DOMAIN disk THEN disk[File(path)] ELSE "nothing"
Put(path, content) ==
    [f \in DOMAIN disk \cup {File(path)} |-> IF f = File(path) THEN content ELSE disk[f]]

TypeOK ==
    /\ argv \in Seq(Arguments)
    /\ i \in 1..Len(argv) + 1
    /\ {input_path, output_path} \subseteq Path
    /\ emit \in BOOLEAN /\ analyse \in BOOLEAN
    /\ at \in {"scan", "output", "compile", "target", "emit", "print", "object", "link",
           "done"}
    /\ code \in {0, 1, 255, NoCode}
    /\ code # NoCode <=> at = "done"
    /\ \A f \in DOMAIN disk : disk[f] \in Content

-----------------------------------------------------------------------------
Scanning == at = "scan" /\ i <= Len(argv)
Arg == argv[i]
Skip(k) == i' = i + k
Going(next) == at' = next /\ code' = code
Exit(c) == at' = "done" /\ code' = c
Settings == <<input_path, output_path, emit, analyse>>

(* print_help and return 0: asked for, or the TODO "should panic here".    *)
PrintHelp ==
    /\ \/ Scanning /\ Arg \in Help
       \/ Scanning /\ Arg = Word("-o") /\ (output_path # Empty \/ i = Len(argv))
       \/ Scanning /\ Arg \notin Options /\ input_path # Empty
       \/ at = "scan" /\ i > Len(argv) /\ input_path = Empty
    /\ Exit(0)
    /\ UNCHANGED <<argv, i, Settings, disk>>

(* Mutants forget to skip the output path, and to check that there is one. *)
ScanOutputUnchecked ==
    /\ Scanning /\ Arg = Word("-o") /\ output_path = Empty
    /\ output_path' = IF i < Len(argv) THEN argv[i + 1] ELSE Empty
    /\ Skip(2)
    /\ UNCHANGED <<argv, input_path, emit, analyse, at, code, disk>>
ScanOutputNotSkipped ==
    /\ Scanning /\ Arg = Word("-o") /\ output_path = Empty /\ i < Len(argv)
    /\ output_path' = argv[i + 1]
    /\ Skip(1)
    /\ UNCHANGED <<argv, input_path, emit, analyse, at, code, disk>>
ScanOutput ==
    /\ Scanning /\ Arg = Word("-o") /\ output_path = Empty /\ i < Len(argv)
    /\ output_path' = argv[i + 1]
    /\ Skip(2)
    /\ UNCHANGED <<argv, input_path, emit, analyse, at, code, disk>>

ScanFlag ==
    /\ Scanning /\ Arg \in {Word("--emit-llvm"), Word("--analyse")}
    /\ emit' = (emit \/ Arg = Word("--emit-llvm"))
    /\ analyse' = (analyse \/ Arg = Word("--analyse"))
    /\ Skip(1)
    /\ UNCHANGED <<argv, input_path, output_path, at, code, disk>>

(* The "Linux convention": "./" goes before a path unless it starts with   *)
(* '.' or has '/' as its second character, which in an empty string may be *)
(* anything.                                                               *)
Prefixed(path) ==
    CASE path = Empty -> {Empty, [Empty EXCEPT !.dir = "./"]}
      [] path # Empty /\ path.dir \in {"", "/", "lib/"} ->
            {[path EXCEPT !.dir = CASE @ = "" -> "./" [] @ = "/" -> ".//" [] @ = "lib/" -> "./lib/"]}
      [] OTHER -> {path}

ScanInput ==
    /\ Scanning /\ Arg \notin Options /\ input_path = Empty
    /\ \E path \in Prefixed(Arg) : input_path' = path
    /\ Skip(1)
    /\ UNCHANGED <<argv, output_path, emit, analyse, at, code, disk>>

EndScan ==
    /\ at = "scan" /\ i > Len(argv) /\ input_path # Empty
    /\ Going("output")
    /\ UNCHANGED <<argv, i, Settings, disk>>

-----------------------------------------------------------------------------
(* Only a default output path needs an input called ".cminus".  A mutant   *)
(* keeps the extension it should replace.                                  *)
IsCminus(path) == path.ext # << >> /\ Last(path.ext) = ".cminus"

DefaultOutputKept(path, llvm) ==
    IF llvm THEN path ELSE [path EXCEPT !.stem = "a", !.ext = <<".out">>]
DefaultOutput(path, llvm) ==
    IF llvm THEN [path EXCEPT !.ext = Append(Front(@), ".ll")]
    ELSE [path EXCEPT !.stem = "a", !.ext = <<".out">>]

ChooseOutput ==
    /\ at = "output"
    /\ output_path # Empty \/ IsCminus(input_path)
    /\ output_path' = IF output_path # Empty THEN output_path
                      ELSE DefaultOutput(input_path, emit)
    /\ Going("compile")
    /\ UNCHANGED <<argv, i, input_path, emit, analyse, disk>>

WrongExtension ==
    /\ at = "output" /\ output_path = Empty /\ ~IsCminus(input_path)
    /\ Exit(1)
    /\ UNCHANGED <<argv, i, Settings, disk>>

(* syn_parser, syntax_tree and run_visitor: only a source can pass.  They  *)
(* exit with 1 or are killed, which counts as 1 here.                      *)
Compile ==
    /\ at = "compile"
    /\ Holds(input_path) = "source"
    /\ Going("target")
    /\ UNCHANGED <<argv, i, Settings, disk>>

CompileFails ==
    /\ at = "compile"
    /\ Exit(1)
    /\ UNCHANGED <<argv, i, Settings, disk>>

TargetReady ==
    /\ at = "target" /\ ~analyse
    /\ Going(IF emit THEN "emit" ELSE "object")
    /\ UNCHANGED <<argv, i, Settings, disk>>

(* No target, no CPU features, or --analyse. *)
TargetFails ==
    /\ at = "target"
    /\ Exit(1)
    /\ UNCHANGED <<argv, i, Settings, disk>>

(* ToolOutputFile opens the output, and so truncates it, before the module *)
(* is printed into it.                                                     *)
OpenLlvm ==
    /\ at = "emit"
    /\ disk' = Put(output_path, "empty")
    /\ Going("print")
    /\ UNCHANGED <<argv, i, Settings>>

PrintLlvm ==
    /\ at = "print"
    /\ disk' = Put(output_path, "llvm")
    /\ Exit(0)
    /\ UNCHANGED <<argv, i, Settings>>

(* The print is killed or meets a full disk: what it has written so far    *)
(* stays, unless LLVM still removes it.                                    *)
PrintFails ==
    /\ at = "print"
    /\ \E rest \in {"empty", "broken", "nothing"} : disk' = Put(output_path, rest)
    /\ Exit(1)
    /\ UNCHANGED <<argv, i, Settings>>

CannotOpen ==   \* return -1, return 1
    /\ at \in {"emit", "object"}
    /\ Exit(IF at = "emit" THEN 255 ELSE 1)
    /\ UNCHANGED <<argv, i, Settings, disk>>

(* output_path + ".o"; a mutant writes the object where the program goes.  *)
ObjectNameBare(path) == path
ObjectName(path) == [path EXCEPT !.ext = Append(@, ".o")]

(* A failed write is kept in dest, which speaks up when it is destroyed,   *)
(* and that is after ld.                                                   *)
EmitObject ==
    /\ at = "object"
    /\ \E object \in {"object", "broken"} : disk' = Put(ObjectName(output_path), object)
    /\ Going("link")
    /\ UNCHANGED <<argv, i, Settings>>

(* addPassesToEmitFile fails or the pass is killed: the file has been      *)
(* opened, and so truncated.                                               *)
CannotEmit ==
    /\ at = "object"
    /\ \E rest \in {"empty", "broken"} : disk' = Put(ObjectName(output_path), rest)
    /\ Exit(1)
    /\ UNCHANGED <<argv, i, Settings>>

(* std::system("ld ..."), whose result nobody looks at: a failing ld       *)
(* leaves the output alone or removes it.                                  *)
Link ==
    /\ at = "link"
    /\ LET written == Holds(ObjectName(output_path)) = "object"
       IN  /\ \/ written /\ disk' = Put(output_path, "program")
              \/ disk' = Put(output_path, "nothing")
              \/ disk' = disk
           /\ Exit(IF written THEN 0 ELSE 1)
    /\ UNCHANGED <<argv, i, Settings>>

Exited == at = "done" /\ UNCHANGED vars

(* The files there are when main begins: the sources, and perhaps what     *)
(* earlier runs have made of them.                                         *)
Sources == {File(a) : a \in {b \in Arguments : IsCminus(b)}}
Earlier == {DefaultOutput(f, llvm) : f \in Sources, llvm \in BOOLEAN}

Init ==
    /\ argv \in UNION {[1..n -> Arguments] : n \in 0..MaxArgs}
    /\ i = 1
    /\ input_path = Empty /\ output_path = Empty
    /\ emit = FALSE /\ analyse = FALSE
    /\ at = "scan" /\ code = NoCode
    /\ \/ disk = [f \in Sources |-> "source"]
       \/ disk = [f \in Sources \cup Earlier |-> IF f \in Sources THEN "source" ELSE "old"]

Next ==
    \/ PrintHelp \/ ScanOutput \/ ScanFlag \/ ScanInput \/ EndScan
    \/ ChooseOutput \/ WrongExtension
    \/ Compile \/ CompileFails
    \/ TargetReady \/ TargetFails
    \/ OpenLlvm \/ PrintLlvm \/ PrintFails \/ CannotOpen
    \/ EmitObject \/ CannotEmit \/ Link
    \/ Exited

Spec == Init /\ [][Next]_vars

-----------------------------------------------------------------------------
(* argv as a reader of the usage line reads it: an element is on its own   *)
(* unless it is the value of a "-o", and a "-o" may itself be such a value.*)
Prior(j) == {k \in 1..j - 1 : \A m \in k..j - 1 : argv[m] = Word("-o")}
Own == {j \in 1..Len(argv) : Cardinality(Prior(j)) % 2 = 0}
Given(word) == \E j \in Own : argv[j] = word
Inputs == {j \in Own : argv[j] \notin Options}
Outputs == {j \in Own : argv[j] = Word("-o") /\ j < Len(argv)
                         /\ argv[j + 1] # Empty}

(* A compilation starts only with the settings argv asks for, in whatever  *)
(* order it asks: one input and at most one output, and no plea for help.  *)
(* The input is the file that was named, unless its path was absolute      *)
(* (main.cpp:106 makes it relative).                                       *)
ScanReadsArgv ==
    at \notin {"scan", "done"} =>
        /\ \A word \in Help : ~Given(word)
        /\ emit <=> Given(Word("--emit-llvm"))
        /\ analyse <=> Given(Word("--analyse"))
        /\ \A j, k \in Outputs : j = k
        /\ \A j \in Outputs : output_path = argv[j + 1]
        /\ Inputs # {}
        /\ LET named == argv[CHOOSE j \in Inputs : \A k \in Inputs : k <= j]
           IN  named.dir # "/" => File(input_path) = File(named)

(* What the output path held before is lost only when argv asks for a      *)
(* compilation, the input is a source (the output itself may have been     *)
(* it), and the object file is written unless argv wants LLVM's language   *)
(* instead: by no refused input, no --analyse and no phase before ld.      *)
(* Behind that nothing saves it: a failing print or a failing ld may leave *)
(* no output at all.                                                       *)
OutputOutlivesRefusal ==
    [][LET f == File(output_path)
       IN  (f \in DOMAIN disk /\ disk'[f] # disk[f]) =>
              /\ \A word \in Help \cup {Word("--analyse")} : ~Given(word)
              /\ Holds(input_path) = "source" \/ File(input_path) = f
              /\ \/ Given(Word("--emit-llvm"))
                 \/ Holds(ObjectName(output_path)) \in {"object", "broken"}]_vars

(* Without -o, no file the compiler writes is its input. *)
InputSurvives ==
    [][LET f == File(input_path)
       IN  (Outputs = {} /\ f \in DOMAIN disk) => disk'[f] = disk[f]]_vars

(* The usage line of print_help lists -emit-llvm and --analyze among the   *)
(* options: neither is taken for the input file.                           *)
DocumentedOptionsAreOptions ==
    File(input_path) \notin {Word("-emit-llvm"), Word("--analyze")}
=============================================================================
