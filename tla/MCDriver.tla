------------------------------ MODULE MCDriver ------------------------------
EXTENDS Driver

Named(dir, stem, ext) == [dir |-> dir, stem |-> stem, ext |-> ext]

MCStems == {"", "a", "f", "-h", "--help", "-o", "--emit-llvm", "--analyse",
            "-emit-llvm", "--analyze"}
MCExtensions == {".cminus", ".txt", ".ll", ".out", ".o"}

(* f.cminus as a shell user may spell it, one file with another name, an   *)
(* absolute path, "" and every option.                                     *)
MCArguments == Options \cup
    {Empty, Named("", "f", <<".cminus">>), Named("../", "f", <<".cminus">>),
     Named("/", "f", <<".cminus">>), Named("", "f", <<".cminus", ".txt">>)}

(* The options as the usage line spells them. *)
MCUsage == {Word("-h"), Word("-o"), Word("-emit-llvm"), Word("--analyze"),
            Named("lib/", "f", <<".cminus">>), Named("d/", "f", <<".cminus">>)}
=============================================================================
