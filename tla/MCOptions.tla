----------------------------- MODULE MCOptions ------------------------------
(* Plain words, and addresses with every kind of port or with up to two    *)
(* socket options.                                                         *)
EXTENDS Options

Word(w) == [word |-> w, port |-> Absent, items |-> << >>]

Ports == {[x |-> 0, tail |-> "none"], [x |-> 3, tail |-> "k"],
          [x |-> 16, tail |-> "none"], [x |-> 18, tail |-> "b"],
          [x |-> 18, tail |-> "m"], [x |-> 3, tail |-> "x"]}

Items == {[name |-> "SO_SNDBUF", vals |-> <<"2", "">>],
          [name |-> "IP_TOS", vals |-> <<"IPTOS_LOWDELAY">>],
          [name |-> "TCP_NODELAY", vals |-> << >>],
          [name |-> "SO_REUSEADDR", vals |-> <<"no">>],
          [name |-> "IP_TOS", vals |-> <<"long">>],
          [name |-> "SO_OTHER", vals |-> << >>]}

MCTexts ==
  {Word(w) : w \in {"", "5", "name", "long"}}
    \union {[Word("name") EXCEPT !.port = p] : p \in Ports}
    \union {[Word("") EXCEPT !.port = [x |-> 3, tail |-> "none"], !.items = is] :
              is \in [1 .. 1 -> Items] \union [1 .. 2 -> Items]}
=============================================================================
