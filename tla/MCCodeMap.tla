----------------------------- MODULE MCCodeMap -----------------------------
(* Instances of CodeMap for TLC: a module of two good functions, one whose *)
(* function does not validate and one whose function does not translate,   *)
(* loaded in any order while threads call what is ready.                   *)
EXTENDS CodeMap

CONSTANTS f1, f2, f3, f4

MCFuncs == {f1, f2, f3, f4}
MCModules == {{f1, f2}, {f3}, {f4}}
MCValid == {f1, f2, f4}
MCTranslatable == {f1, f2, f3}
=============================================================================
