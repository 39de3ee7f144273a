----------------------------- MODULE MCKeyboard -----------------------------
(* Instances of Keyboard.  In SafeSessions a program that waits for keys   *)
(* meets keys whose release drops nothing, and the keys that drop meet the *)
(* readers that turn interrupts off.                                       *)
EXTENDS Keyboard

Typing  == [keys |-> {"up", "a", "shift"}, readers |-> {"getchar", "try"}]
Dropping == [keys |-> {"a", "space"}, readers |-> {"try", "flush", "discard"}]

SafeSessions  == {Typing, Dropping}
=============================================================================
