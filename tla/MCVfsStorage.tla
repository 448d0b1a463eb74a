---------------------------- MODULE MCVfsStorage -----------------------------
(* TLC instance of VfsStorage: two directories with a file each, and what is asked for. *)
EXTENDS VfsStorage

A  == <<"a">>
AX == <<"a", "x">>
B  == <<"b">>
BX == <<"b", "x">>

MCPaths == {A, AX, B, BX}

Ask(op, path) == [op |-> op, path |-> path, to |-> path, content |-> None, recursive |-> FALSE]

MCRequested ==
  {[Ask("put", AX) EXCEPT !.content = c] : c \in Contents}
    \cup {[Ask("put", BX) EXCEPT !.content = c] : c \in Large}
    \cup {[Ask("put", B) EXCEPT !.content = c] : c \in Small}
    \cup {Ask("mkdir", A), Ask("delete", A), [Ask("delete", A) EXCEPT !.recursive = TRUE]}
    \cup {[Ask("move", A) EXCEPT !.to = B], [Ask("move", BX) EXCEPT !.to = AX]}
=============================================================================
