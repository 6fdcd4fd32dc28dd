------------------------------- MODULE MCClosure -------------------------------
(***************************************************************************)
(* Two Lua functions, a closure, a variable of C++ and a coroutine.        *)
(***************************************************************************)
EXTENDS Closure

CONSTANT co
================================================================================
