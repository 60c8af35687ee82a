----------------------------- MODULE MCCompile -----------------------------
(* Three languages for Compile, one of each kind, and Go, which has a group  *)
(* and no initialisation.  Class 4 is a final class, and 3 has no main.      *)
EXTENDS Compile

MCOrder == <<"cpp", "python", "java">>
MCKind == [l \in {"cpp", "python", "java", "go"} |->
            CASE l = "cpp" -> "simple" [] l = "java" -> "java" [] OTHER -> "none"]
=============================================================================
