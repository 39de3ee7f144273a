----------------------------- MODULE MCTerminal -----------------------------
(***************************************************************************)
(* A text screen of three rows and a framebuffer of four, each with a ring *)
(* of five rows: printing and scrolling back on either, in fast mode and   *)
(* not; the editor on the framebuffer and, briefly, on the text screen.    *)
(***************************************************************************)
EXTENDS Terminal

World(fast, want, file, acts, uses) ==
  [fast |-> fast, want |-> want, works |-> {"VESA"}, file |-> file, acts |-> acts, uses |-> uses]

MCTexts == {<<"a", NL>>, <<"b", "b", "a">>, <<"a", BS, BS, "b", CR>>, <<TAB, "a">>}

MCWorlds ==
  {World(FALSE, want, NoFile, 5, {"print", "scroll"}) : want \in {"VESA", "BGA"}}
    \cup {World(fast, want, NoFile, 4, {"print", "clear", "color", "scroll"}) : fast \in BOOLEAN, want \in {"VESA", "BGA"}}
    \cup {World(FALSE, "VESA", file, 6, {"edit"}) : file \in {NoFile, <<"a", "\t", NL, "b">>, <<" ", "a", NL, NL, NL, "b">>}}
    \cup {World(FALSE, "BGA", <<"a", NL, "b", "b", "b", "b", "b">>, 2, {"edit"})}
    \cup {World(FALSE, "VESA", [i \in 1..9 |-> "a"], 1, {"edit"})}

MCTypedKeys == {"a", NL, BS, TAB, "esc"}
MCCommands == {"w", "q", "q!", "wq", "set linenumbers", "set tabwidth", "set autoindent"}
=============================================================================
