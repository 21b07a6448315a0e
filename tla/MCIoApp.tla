------------------------------- MODULE MCIoApp -------------------------------
(* Eight words of memory with two mappings, and calls with up to four arguments. *)
EXTENDS IoApp

MapA == <<<<8, 12>>, <<4>>>>
MCCpuMap == <<<<0, 12>>, <<20, 8>>>>

Opt(o) == [opt |-> o, map |-> <<>>, num |-> 0]
Map(m) == [opt |-> "no", map |-> m, num |-> m[1][1]]
Num(n) == [opt |-> "no", map |-> <<>>, num |-> n]

Numbers == {<<Num(a), Num(b)>> : a \in {0, 8, 16, 20}, b \in {0, 1, 2, 7, 9}}

\* Numbers alone, after an option, and calls that lack something.
MCArgvs ==
  Numbers
    \cup {<<Num(8)>>, <<>>, <<Num(20), Num(3), Num(1)>>, <<Opt("-m")>>, <<Opt("-?"), Num(8)>>}
    \cup {<<Opt(o), Map(MapA)>> \o n : o \in {"-m", "-c"}, n \in {<<>>, <<Num(1)>>, <<Num(16), Num(1)>>}}
    \cup {<<Opt("-m"), Opt("-c"), Map(MapA), Num(8)>>}

Cmd(f, a, n) == [fn |-> f, addr |-> a, len |-> n]
MCLines ==
  {<<Cmd("md", 8, 1), Cmd("mw", 20, 1)>>, <<Cmd("mw", 0, 2), Cmd("bad", 0, 0), Cmd("md", 4, 1)>>,
   <<Cmd("md", 20, 4)>>, <<Cmd("q", 0, 0)>>}

=============================================================================
