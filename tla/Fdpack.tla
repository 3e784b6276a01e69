------------------------------- MODULE Fdpack -------------------------------
(***************************************************************************)
(* The life of one end of the pipe (struct fdpack_s of fdpack.h): what the *)
(* constructors of fdpack.c leave in it, when fd_open() can work at all,   *)
(* and what fd_close() and fd_dtor() undo.  The descriptor is open or not; *)
(* for a socket that is the field s.fds, otherwise the field fd.           *)
(***************************************************************************)

\* "none" is an fdpack_s no constructor has filled yet.
Kinds == {"none", "fd", "file", "sock"}

Fdpack == [type: Kinds, open: BOOLEAN, path: BOOLEAN]

NoFdpack == [type |-> "none", open |-> FALSE, path |-> FALSE]

\* fd_ctor(), fd_ctor_f() and fd_ctor_s() once they accept their argument:
\* a direct descriptor comes open, a file or a socket is opened later.
FdCtor(kind) ==
  [type |-> kind, open |-> kind = "fd", path |-> kind = "file"]

\* fd_open_() wants its descriptor still open; fd_open_f() and fd_open_s()
\* want theirs closed (and open() needs the path, which fd_dtor_f() frees).
Openable(f) ==
  CASE f.type = "fd"   -> f.open
    [] f.type = "file" -> ~f.open /\ f.path
    [] f.type = "sock" -> ~f.open
    [] OTHER           -> FALSE

FdOpen(f) == [f EXCEPT !.open = TRUE]

FdClose(f) == [f EXCEPT !.open = FALSE]

FdDtorKeepsPath(f) == FdClose(f)
FdDtor(f) == [FdClose(f) EXCEPT !.path = FALSE]

\* Nothing is left to release.
Released(f) == ~f.open /\ ~f.path
=============================================================================
