------------------------------ MODULE Options -------------------------------
(***************************************************************************)
(* From the command line to the two ends: opt_parse() with opt_subparse()  *)
(* (options.c), sp_addr_parse() and the socket options (parse.c), get_ul() *)
(* (common.c) and setup_fds() with the constructors of fdpack.c.  The      *)
(* numeric limits are the subject of BufSetup.                             *)
(*                                                                         *)
(* A specification, the argument of -i or -o, is what opt_subparse() and   *)
(* sp_addr_parse() look for in it: the character in front of a colon, if   *)
(* there is one, and the rest, which as a text is the word of a path,      *)
(* descriptor or host with a port and a list of socket options.            *)
(***************************************************************************)
EXTENDS Integers, SequencesExt, FiniteSetsExt

CONSTANTS
  Texts,               \* what specifications are made of
  UlongSize, IntSize, ShortSize,  \* 2 to the width of the C types
  DEF_PORT, SOPT_CNT,
  MaxArgs              \* bound: options on the command line

\* opts_by_str; a table of SOPT_CNT never fills up.
Known == {"SO_REUSEADDR", "IP_TOS", "SO_SNDBUF", "TCP_NODELAY"}

ASSUME TextsAssumption ==
  \A t \in Texts :
    /\ t.port \in [x: Nat, tail: STRING]
    /\ t.items \in Seq([name: STRING, vals: Seq(STRING)])
ASSUME WidthAssumption ==
  /\ {UlongSize, IntSize, ShortSize} \subseteq Nat \ {0}
  /\ IntSize % ShortSize = 0 /\ UlongSize % IntSize = 0
  /\ DEF_PORT \in 1 .. ShortSize - 1
ASSUME TableAssumption == Cardinality(Known) < SOPT_CNT
ASSUME ArgsAssumption == MaxArgs \in Nat

Dirs == {"in", "out"}
NULL == "NULL"
Absent == [x |-> 0, tail |-> "absent"]

VARIABLES
  pc, taken,           \* where main() is; options taken so far
  dir,                 \* the direction setup_fds() is at
  mode, flags,         \* g_opts.mode; what is switched on
  fd, file, sock,      \* g_opts, for each direction
  end,                 \* g_fdi and g_fdo
  refused,             \* descriptors fcntl() has found unusable
  last                 \* history: the specification given last

opts == <<mode, flags, fd, file, sock>>
vars == <<pc, taken, dir, opts, end, refused, last>>

IsEmpty(t) == t.word = "" /\ t.port = Absent

\* One letter alone or in front of a colon, or none; a path and a descriptor
\* are one word.
Specs ==
  {s \in [letter: {"", "t", "u", "d", "f", "-"}, colon: BOOLEAN, text: Texts] :
     /\ s.letter = "" \/ s.colon \/ IsEmpty(s.text)
     /\ s.letter = "-" => ~s.colon
     /\ s.letter \in {"t", "u"} \/ (s.text.port = Absent /\ s.text.items = << >>)}
NoSpec == [letter |-> "none", colon |-> FALSE, text |-> NULL]

NoSock == [dom |-> "none", host |-> "", port |-> 0, opts |-> << >>]
NoEnd == [type |-> "none", arg |-> NULL, sync |-> FALSE, waitall |-> FALSE]

Init ==
  /\ pc = "parse" /\ taken = 0 /\ dir = "in"
  /\ mode = "mp" /\ flags = {}
  /\ fd = [d \in Dirs |-> NULL] /\ file = [d \in Dirs |-> NULL]
  /\ sock = [d \in Dirs |-> NoSock]
  /\ end = [d \in Dirs |-> NoEnd] /\ refused = [d \in Dirs |-> {}]
  /\ last = [d \in Dirs |-> NoSpec]

-----------------------------------------------------------------------------
(* common.c                                                                *)

\* get_ul(): a number written as digits and a suffix, of which only these
\* are known (scaled like the types, by 4 and 16); the product wraps.
Scale == [none |-> 1, b |-> 1, k |-> 4, m |-> 16]
Converts(n) == n.tail \in DOMAIN Scale /\ n.x < UlongSize
Written(n) == n.x * Scale[n.tail]
GetUl(n) == Written(n) % UlongSize

-----------------------------------------------------------------------------
(* parse.c                                                                 *)

\* sp_getvalbystr(): a value as the set of its bits; none is 1, and what
\* cannot be converted is 0.
Val(v) == CASE v = ""                 -> {0}
            [] v = "2"                -> {1}
            [] v = "IPTOS_THROUGHPUT" -> {3}
            [] v = "IPTOS_LOWDELAY"   -> {4}
            [] OTHER                  -> {}

\* The values of an option are or-ed; an option without any is switched on.
Vals(item) == IF item.vals = << >> THEN {0}
              ELSE UNION {Val(item.vals[i]) : i \in DOMAIN item.vals}

\* sp_addsobyint()
AddSo(so, o, v, ovr) ==
  IF \E i \in DOMAIN so : so[i].opt = o
  THEN [i \in DOMAIN so |->
          IF so[i].opt = o /\ ovr THEN [opt |-> o, val |-> v] ELSE so[i]]
  ELSE Append(so, [opt |-> o, val |-> v])

\* The options that are set when the user is silent, and their values.
Default ==
  [SO_REUSEADDR |-> {0}, IP_TOS |-> {3}, SO_SNDBUF |-> {14}, TCP_NODELAY |-> {}]
DefaultNames(dom) ==
  {"SO_REUSEADDR", "IP_TOS"} \union (IF dom = "udp" THEN {"SO_SNDBUF"} ELSE {})

\* sp_addsodefs() (first overriding what the user has set)
AddDef(so, o, ovr) == AddSo(so, o, Default[o], ovr)
AddsDefs(so, dom, ovr) ==
  LET both == AddDef(AddDef(so, "SO_REUSEADDR", ovr), "IP_TOS", ovr)
  IN  IF dom = "udp" THEN AddDef(both, "SO_SNDBUF", ovr) ELSE both
AddDefsOver(so, dom) == AddsDefs(so, dom, TRUE)
AddDefs(so, dom) == AddsDefs(so, dom, FALSE)

\* The options of an address are set in the order they are written.
AddItem(so, item) == AddSo(so, item.name, Vals(item), TRUE)
AddItems(items) ==
  LET so[i \in 0 .. Len(items)] ==
        IF i = 0 THEN << >> ELSE AddItem(so[i - 1], items[i])
  IN  so[Len(items)]

\* sp_addr_parse() gives up: a bad number, a long host, an unknown option, or
\* a name or value too long for ostr.
Refuses(t) ==
  \/ t.port # Absent /\ ~Converts(t.port)
  \/ t.word = "long"
  \/ \E i \in DOMAIN t.items :
       \/ t.items[i].name \notin Known
       \/ \E j \in DOMAIN t.items[i].vals : t.items[i].vals[j] = "long"

\* The conversions to int and to unsigned short; a zero is no port.
Port(n) ==
  IF n = Absent \/ GetUl(n) % IntSize = 0 THEN DEF_PORT ELSE GetUl(n) % ShortSize

Addr(t, dom) ==
  [dom |-> dom, host |-> IF t.word = "" THEN "*" ELSE t.word, port |-> Port(t.port),
   opts |-> AddDefs(AddItems(t.items), dom)]

-----------------------------------------------------------------------------
(* options.c                                                               *)

Short(s) == ~s.colon /\ IsEmpty(s.text)    \* at most one character

\* strncasecmp() of the first two characters, or of as many as there are.
Begins(s, l) ==
  \/ s.letter = l /\ (s.colon \/ IsEmpty(s.text))
  \/ s.letter = "" /\ Short(s)

\* What spec + 2 may point to: behind a short specification, at anything.
Skipped(s) == IF Short(s) THEN Texts ELSE {s.text}

\* unset_in(), unset_out() (first without the path): what -i and -o start from
UnsetKeepsFile(d) ==
  [fd |-> NULL, file |-> file[d], sock |-> [sock[d] EXCEPT !.dom = "none"]]
Unset(d) ==
  [fd |-> NULL, file |-> NULL, sock |-> [sock[d] EXCEPT !.dom = "none"]]

Dash(d) == IF d = "in" THEN "0" ELSE "1"

\* opt_subparse(): what it may set; nothing if it refuses the specification.
Asks(s, d) ==
  IF Begins(s, "t") \/ Begins(s, "u")
  THEN LET dom == IF Begins(s, "t") THEN "tcp" ELSE "udp"
       IN  {[Unset(d) EXCEPT !.sock = Addr(t, dom)] :
              t \in {t \in Skipped(s) : ~Refuses(t)}}
  ELSE IF (s.letter = "" /\ s.colon) \/ Begins(s, "d")
  THEN {[Unset(d) EXCEPT !.fd = s.text.word]}
  ELSE IF s.letter = "-" /\ Short(s)
  THEN {[Unset(d) EXCEPT !.fd = Dash(d)]}
  ELSE {[Unset(d) EXCEPT !.file = t.word] :
          t \in IF Begins(s, "f") THEN Skipped(s) ELSE {s.text}}

\* getopt() has another option.
Takes(to) ==
  /\ pc = "parse" /\ pc' = to
  /\ taken < MaxArgs /\ taken' = taken + 1
  /\ UNCHANGED <<dir, end, refused>>

TakesEnd(d, s) ==
  /\ Takes("parse")
  /\ \E e \in Asks(s, d) :
       /\ fd' = [fd EXCEPT ![d] = e.fd]
       /\ file' = [file EXCEPT ![d] = e.file]
       /\ sock' = [sock EXCEPT ![d] = e.sock]
  /\ last' = [last EXCEPT ![d] = s]
  /\ UNCHANGED <<mode, flags>>

\* A bad specification; a number out of its limits, -h, an unknown option.
RefusesArg ==
  /\ Takes("failed")
  /\ UNCHANGED <<opts, last>>

TakesMode ==
  /\ Takes("parse")
  /\ mode' \in {"mt", "sp"}
  /\ UNCHANGED <<flags, fd, file, sock, last>>

TakesFlag ==
  /\ Takes("parse")
  /\ \E f \in {"fsync", "strict", "rline", "wline", "rcrc", "wcrc", "loop"} :
       flags' = flags \union {f}
  /\ UNCHANGED <<mode, fd, file, sock, last>>

EndOfArgs ==
  /\ pc = "parse"
  /\ pc' = IF {"wline", "strict"} \subseteq flags THEN "failed" ELSE "fd"
  /\ UNCHANGED <<taken, dir, opts, end, refused, last>>

OptParse ==
  \/ \E d \in Dirs, s \in Specs : TakesEnd(d, s)
  \/ RefusesArg \/ TakesMode \/ TakesFlag \/ EndOfArgs

-----------------------------------------------------------------------------
(* setup_fds(): for each direction the descriptor, the file, the socket    *)
(* and the standard descriptor are tried in turn.                          *)

Becomes(e) ==
  /\ end' = [end EXCEPT ![dir] = e]
  /\ dir' = "out" /\ pc' = IF dir = "in" THEN "fd" ELSE "ready"
  /\ UNCHANGED <<taken, opts, refused, last>>

FallsTo(to) == pc' = to /\ UNCHANGED <<taken, dir, opts, end, last>>

\* The number a descriptor is given by, or NULL if it is none.
Fdnbr(w) == CASE w \in {"", "0"} -> "0" [] w \in {"1", "5"} -> w [] OTHER -> NULL

\* Only an output is synced.
Synced == dir = "out" /\ "fsync" \in flags

\* fd_ctor(): fcntl() must know the descriptor, and for this direction.
TriesFd(w, to) ==
  \/ /\ Fdnbr(w) \notin refused[dir] \union {NULL}
     /\ Becomes([type |-> "fd", arg |-> Fdnbr(w), sync |-> Synced, waitall |-> FALSE])
  \/ /\ FallsTo(to)
     /\ refused' = [refused EXCEPT ![dir] = @ \union {Fdnbr(w)}]

SetupFd ==
  /\ pc = "fd"
  /\ \/ fd[dir] = NULL /\ FallsTo("file") /\ UNCHANGED refused
     \/ fd[dir] # NULL /\ TriesFd(fd[dir], "file")

\* fd_ctor_f(): the path may be too long.
SetupFile ==
  /\ pc = "file"
  /\ \/ FallsTo("sock") /\ UNCHANGED refused
     \/ /\ file[dir] # NULL
        /\ Becomes([type |-> "file", arg |-> file[dir], sync |-> Synced,
                    waitall |-> FALSE])

\* fd_ctor_s(): the host must be known, and one that can be sent to.
SetupSock ==
  /\ pc = "sock"
  /\ \/ FallsTo("std") /\ UNCHANGED refused
     \/ /\ sock[dir].dom # "none" /\ (dir = "out" => sock[dir].host # "*")
        /\ Becomes([type |-> sock[dir].dom, arg |-> sock[dir].host, sync |-> FALSE,
                    waitall |-> dir = "in" /\ "rline" \notin flags])

SetupStandard == pc = "std" /\ TriesFd(Dash(dir), "out")

\* The input is let go again when there is no output.
NoStandard ==
  /\ pc = "out" /\ pc' = "failed"
  /\ end' = [d \in Dirs |-> NoEnd]
  /\ UNCHANGED <<taken, dir, opts, refused, last>>

Over == pc \in {"ready", "failed"} /\ UNCHANGED vars

SetupFds == SetupFd \/ SetupFile \/ SetupSock \/ SetupStandard \/ NoStandard

Next == OptParse \/ SetupFds \/ Over

Spec == Init /\ [][Next]_vars

-----------------------------------------------------------------------------
\* What the help text says a specification stands for (options.c:109-119),
\* when it has more than one character: those of one are read otherwise
\* (options.c:139), a path "t" as a socket, say.
Proper(s) == ~Short(s) \/ s.letter = "-"

Means(s, d) ==
  CASE s.letter = "t"        -> <<"tcp", IF s.text.word = "" THEN "*" ELSE s.text.word>>
    [] s.letter = "u"        -> <<"udp", IF s.text.word = "" THEN "*" ELSE s.text.word>>
    [] s.letter = "-"        -> <<"fd", Dash(d)>>
    [] s.letter = "f"        -> <<"file", s.text.word>>
    [] s.letter = "d"        -> <<"fd", Fdnbr(s.text.word)>>
    [] s.letter = "" /\ s.colon -> <<"fd", Fdnbr(s.text.word)>>
    [] OTHER                 -> <<"file", s.text.word>>

\* Of several -i (or -o) only the last counts, whatever kinds they are of and
\* whichever of them cannot be used: setup_fds() (yancat.c:463) takes what
\* that one means or the standard descriptor, never anything else.
FromLastSpecOrStandard ==
  pc = "ready" =>
    \A d \in Dirs :
      \/ end[d].type = "fd" /\ end[d].arg = Dash(d)
      \/ last[d] # NoSpec /\
           (Proper(last[d]) => <<end[d].type, end[d].arg>> = Means(last[d], d))

\* A socket gets each option once, with the value of its last mention, or the
\* default where the user is silent (parse.c:213, 357), and the port that was
\* written if it is one that exists; a larger number is cut off (parse.c:267).
AsWritten(a, t) ==
  LET so    == a.opts
      At(o) == {i \in DOMAIN t.items : t.items[i].name = o}
      Names == {so[i].opt : i \in DOMAIN so}
  IN  /\ Cardinality(Names) = Len(so)
      /\ Names = {t.items[i].name : i \in DOMAIN t.items} \union DefaultNames(a.dom)
      /\ \A i \in DOMAIN so :
           so[i].val = IF At(so[i].opt) = {} THEN Default[so[i].opt]
                       ELSE Vals(t.items[Max(At(so[i].opt))])
      /\ t.port = Absent \/ Written(t.port) = 0 => a.port = DEF_PORT
      /\ t.port # Absent /\ Written(t.port) \in 1 .. ShortSize - 1
           => a.port = Written(t.port)

SocketAsAsked ==
  \A d \in Dirs :
    sock[d].dom # "none" /\ Proper(last[d]) => AsWritten(sock[d], last[d].text)
=============================================================================
