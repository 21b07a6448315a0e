-------------------------------- MODULE IoApp --------------------------------
(***************************************************************************)
(* io-app: the commands md, mw and io, which read and write words of       *)
(* physical memory through mappings of /dev/mem (io-app.c).  One process,  *)
(* from its command line to its exit; every allocation, open and mmap may  *)
(* fail.                                                                   *)
(*                                                                         *)
(* Addresses and lengths are numbers modulo Size, as unsigned long and     *)
(* size_t are modulo 2^32.                                                 *)
(***************************************************************************)
EXTENDS Integers, Sequences, FiniteSets

CONSTANTS Size,     \* number of addresses: 2^32
          Word,     \* sizeof(uint32_t)
          mdLen,    \* words md shows unless it is told: 0x40
          Exes,     \* the names it is called by
          Argvs,    \* the arguments it is called with
          CpuMap,   \* the map string of the known processor
          Lines,    \* the lines a user of the shell types
          MaxLines  \* bound on their number

Ulong == 0..(Size - 1)

\* An argument.  opt: an option, or "no".  map: the entries it has as a map string or
\* as the name of a file, each an address and, if it is not malformed, a length.
\* num: its value as a number: strtoul reads the first one of a map string.
Argument == [opt : {"no", "-m", "-c", "-?"}, map : Seq(Seq(Ulong)), num : Ulong]

\* A command of the shell; "bad" is one that does not parse.
Command == [fn : {"md", "mw", "bad", "q"}, addr : Ulong, len : Ulong]

ASSUME IoAppAssumption ==
  /\ Size \in Nat /\ Word \in 1..(Size - 1) /\ mdLen \in Ulong /\ MaxLines \in Nat
  /\ Exes \subseteq {"md", "mw", "io"}
  /\ Argvs \subseteq Seq(Argument) /\ Lines \subseteq Seq(Command)
  /\ CpuMap \in Seq(Seq(Ulong))

NoPhys == Size - 1   \* -1, for the mapping of a configuration file

VARIABLES
  stage,     \* where the program is
  exe, argv, \* how it was called
  i,         \* the argument main looks at
  map_str, cfg_file, first_arg,  \* what it has found: arguments by their number, or 0
  todo,      \* the entries load_maps has yet to map
  maps,      \* the mappings: phys, len, whether virt is set
  unmapped,  \* history: how often each was unmapped
  line, lines, \* the commands left of a line of the shell; lines so far
  access,    \* the md or mw at work: fn, addr, len, the mapping, words done
  ret        \* what main returns

vars == <<stage, exe, argv, i, map_str, cfg_file, first_arg, todo, maps, unmapped,
          line, lines, access, ret>>

NoAccess == [fn |-> "none", addr |-> 0, len |-> 0, map |-> 0, j |-> 0]

Init ==
  /\ stage = "args" /\ exe \in Exes /\ argv \in Argvs
  /\ i = 1 /\ map_str = 0 /\ cfg_file = 0 /\ first_arg = 1
  /\ todo = <<>> /\ maps = <<>> /\ unmapped = <<>>
  /\ line = <<>> /\ lines = 0 /\ access = NoAccess /\ ret = 0

\* Leave the program as it is but for what is at hand.
Called == <<exe, argv, i, map_str, cfg_file, first_arg>>
Shell == <<line, lines>>

-----------------------------------------------------------------------------
(* The command line *)

\* One turn of the loop over the arguments.  The argument of an option is looked at
\* again in the next turn.
ParseArgument ==
  /\ stage = "args" /\ i <= Len(argv)
  /\ LET opt == argv[i].opt
         last == i = Len(argv)
     IN \/ /\ opt = "no" /\ first_arg' = i /\ stage' = "map"
           /\ UNCHANGED <<i, map_str, cfg_file>>
        \/ /\ opt = "-m" /\ ~last /\ i' = i + 1 /\ map_str' = i + 1
           /\ UNCHANGED <<stage, cfg_file, first_arg>>
        \/ /\ opt = "-c" /\ ~last /\ i' = i + 1 /\ cfg_file' = i + 1
           /\ UNCHANGED <<stage, map_str, first_arg>>
        \/ /\ opt = "-?" \/ (opt # "no" /\ last)
           /\ stage' = "usage" /\ UNCHANGED <<i, map_str, cfg_file, first_arg>>
  /\ UNCHANGED <<exe, argv, todo, maps, unmapped, Shell, access, ret>>

NoArgument ==
  /\ stage = "args" /\ i > Len(argv) /\ stage' = "map"
  /\ UNCHANGED <<Called, todo, maps, unmapped, Shell, access, ret>>

-----------------------------------------------------------------------------
(* The mappings *)

\* Mutation of unmap_all: virt is not reset.
unmap_all_kept ==
  /\ unmapped' = [k \in DOMAIN maps |-> IF maps[k].virt THEN unmapped[k] + 1 ELSE unmapped[k]]
  /\ UNCHANGED maps

unmap_all ==
  /\ unmapped' = [k \in DOMAIN maps |-> IF maps[k].virt THEN unmapped[k] + 1 ELSE unmapped[k]]
  /\ maps' = [k \in DOMAIN maps |-> [maps[k] EXCEPT !.virt = FALSE]]

\* A mapping is entered in the table.
add_a_map(phys, len) ==
  /\ maps' = Append(maps, [phys |-> phys, len |-> len, virt |-> TRUE])
  /\ unmapped' = Append(unmapped, 0)

\* The map string: an argument, the contents of a file, or that of the processor.  A
\* file that cannot be mapped makes the string an invalid pointer: load_maps uses it
\* once it has opened /dev/mem, and fails if it cannot open it.  Before all that, the
\* copy of the program's name may fail, and main returns.
FindMaps ==
  /\ stage = "map"
  /\ \/ /\ map_str # 0 /\ todo' = argv[map_str].map /\ stage' = "load"
        /\ UNCHANGED <<maps, unmapped>>
     \/ /\ map_str = 0 /\ cfg_file = 0 /\ todo' \in {CpuMap, <<>>} /\ stage' = "load"
        /\ UNCHANGED <<maps, unmapped>>
     \/ /\ map_str = 0 /\ cfg_file # 0 /\ todo' = argv[cfg_file].map /\ stage' = "load"
        /\ add_a_map(NoPhys, Len(argv[cfg_file].map))
     \/ /\ map_str = 0 /\ cfg_file # 0 /\ stage' \in {"crash", "cleanup"}
        /\ UNCHANGED <<todo, maps, unmapped>>
     \/ /\ stage' = "exit" /\ UNCHANGED <<todo, maps, unmapped>>
  /\ UNCHANGED <<Called, Shell, access, ret>>

\* One turn of load_maps: an entry of addr and len.
LoadMap ==
  /\ stage = "load" /\ todo # <<>> /\ Len(Head(todo)) = 2
  /\ add_a_map(Head(todo)[1], Head(todo)[2])
  /\ todo' = Tail(todo)
  /\ UNCHANGED <<stage, Called, Shell, access, ret>>

\* An entry without a length is passed over.
SkipMap ==
  /\ stage = "load" /\ todo # <<>> /\ Len(Head(todo)) = 1
  /\ todo' = Tail(todo)
  /\ UNCHANGED <<stage, Called, maps, unmapped, Shell, access, ret>>

\* What main does when load_maps fails.
LoadFailed == stage' = "cleanup" /\ UNCHANGED ret

\* /dev/mem, a number or mmap fails; or the table cannot grow, and then all that is
\* mapped is unmapped.
LoadError ==
  /\ stage = "load"
  /\ LoadFailed /\ todo' = <<>>
  /\ (todo # <<>> /\ unmap_all) \/ UNCHANGED <<maps, unmapped>>
  /\ UNCHANGED <<Called, Shell, access>>

Loaded ==
  /\ stage = "load" /\ todo = <<>> /\ stage' = "run"
  /\ UNCHANGED <<Called, todo, maps, unmapped, Shell, access, ret>>

-----------------------------------------------------------------------------
(* md and mw *)

\* Mutation of InRange: the length is taken for bytes.
InRangeBytes(m, addr, len) ==
  m.phys # NoPhys /\ m.phys <= addr /\ (addr + len) % Size < (m.phys + m.len) % Size

\* The test of md and mw.
InRange(m, addr, len) ==
  m.phys # NoPhys /\ m.phys <= addr /\ (addr + len * Word) % Size < (m.phys + m.len) % Size

\* The first mapping that passes the test, or 0.
FindMap(addr, len) ==
  LET fits == {k \in DOMAIN maps : InRange(maps[k], addr, len)} IN
  IF fits = {} THEN 0 ELSE CHOOSE k \in fits : \A l \in fits : k <= l

Start(fn, addr, len) ==
  /\ access' = [fn |-> fn, addr |-> addr, len |-> len, map |-> FindMap(addr, len),
                j |-> 0]
  /\ stage' = "access"

\* main calls md or mw.  Without an address strtoul gets a null pointer.
RunOnce ==
  /\ stage = "run" /\ exe \in {"md", "mw"}
  /\ LET rest == Len(argv) - first_arg
         lenAt == IF exe = "md" THEN first_arg + 1 ELSE first_arg + 2
     IN \/ rest < 0 /\ stage' = "crash" /\ UNCHANGED access
        \/ /\ exe = "mw" /\ rest = 0 /\ stage' = "usage" /\ UNCHANGED access
        \/ /\ rest >= (IF exe = "md" THEN 0 ELSE 1)
           /\ Start(exe, argv[first_arg].num,
                    IF lenAt <= Len(argv) THEN argv[lenAt].num
                    ELSE IF exe = "md" THEN mdLen ELSE 1)
  /\ UNCHANGED <<Called, todo, maps, unmapped, Shell, ret>>

\* md reads the words from its address on; mw writes its address again and again.
WordAt(a) == IF a.fn = "md" THEN (a.addr + a.j * Word) % Size ELSE a.addr

AccessWord ==
  /\ stage = "access" /\ access.map # 0 /\ access.j < access.len
  /\ access' = [access EXCEPT !.j = @ + 1]
  /\ UNCHANGED <<stage, Called, todo, maps, unmapped, Shell, ret>>

\* The word lies in the mapping.
WithinMap(a, m) == WordAt(a) \in m.phys..(m.phys + m.len - Word)

\* md's buffer has room for the word: its size is a product modulo Size.
WithinBuffer(a) == a.fn = "md" => (a.j + 1) * Word <= (a.len * Word) % Size

\* A word outside the mapping, or one too many for md's buffer.  What happens is
\* undefined: the program goes on (AccessWord), or it dies.
Stray ==
  /\ stage = "access" /\ access.map # 0 /\ access.j < access.len
  /\ ~WithinMap(access, maps[access.map]) \/ ~WithinBuffer(access)
  /\ stage' = "crash"
  /\ UNCHANGED <<Called, todo, maps, unmapped, Shell, access, ret>>

\* md or mw returns; its result is what main returns, but not in the shell.
Return(ok) ==
  /\ IF exe = "io" THEN stage' = "shell" /\ UNCHANGED ret
     ELSE stage' = "cleanup" /\ ret' = IF ok THEN 0 ELSE 1
  /\ UNCHANGED <<Called, todo, maps, unmapped, Shell, access>>

\* All words are done, or no mapping has them.
Returned ==
  /\ stage = "access" /\ (access.map = 0 \/ access.j = access.len)
  /\ Return(access.map # 0)

\* md has no memory for its buffer.
NoBuffer ==
  /\ stage = "access" /\ access.fn = "md" /\ access.map # 0 /\ access.j = 0
  /\ Return(FALSE)

-----------------------------------------------------------------------------
(* The shell *)

RunShell ==
  /\ stage = "run" /\ exe = "io" /\ stage' = "shell"
  /\ UNCHANGED <<Called, todo, maps, unmapped, Shell, access, ret>>

\* The next line, or its end.
readline ==
  /\ stage = "shell" /\ line = <<>>
  /\ \/ lines < MaxLines /\ lines' = lines + 1 /\ line' \in Lines /\ UNCHANGED stage
     \/ stage' = "cleanup" /\ UNCHANGED Shell
  /\ UNCHANGED <<Called, todo, maps, unmapped, access, ret>>

\* The next command of a line; one that does not parse ends the line.
io ==
  /\ stage = "shell" /\ line # <<>>
  /\ LET c == Head(line) IN
       \/ /\ c.fn \in {"md", "mw"} /\ Start(c.fn, c.addr, c.len) /\ line' = Tail(line)
       \/ /\ c.fn = "bad" /\ line' = <<>> /\ UNCHANGED <<stage, access>>
       \/ /\ c.fn = "q" /\ stage' = "cleanup" /\ UNCHANGED <<line, access>>
  /\ UNCHANGED <<lines, Called, todo, maps, unmapped, ret>>

Cleanup ==
  /\ stage = "cleanup" /\ stage' = "exit" /\ unmap_all
  /\ UNCHANGED <<Called, todo, Shell, access, ret>>

Next ==
  \/ ParseArgument \/ NoArgument
  \/ FindMaps \/ LoadMap \/ SkipMap \/ LoadError \/ Loaded
  \/ RunOnce \/ AccessWord \/ Stray \/ Returned \/ NoBuffer
  \/ RunShell \/ readline \/ io \/ Cleanup

Spec == Init /\ [][Next]_vars

-----------------------------------------------------------------------------
(* Properties *)

\* A command whose range does not wrap around the address space.
Straight(a) == a.addr + a.len * Word < Size

\* md and mw work on a region of memory, not a configuration file, that is still
\* mapped, whatever failed before, and that begins at or below their address; and every
\* word of a range that does not wrap around the address space lies in that region
\* and in md's buffer.  Of a range that wraps nothing more is claimed: its end and the
\* size of the buffer are computed modulo Size, the test passes, and words outside are
\* touched (io-app.c:246, 250 and 275).
StraightAccessInside ==
  stage = "access" /\ access.map # 0 /\ access.j < access.len =>
    LET m == maps[access.map] IN
    /\ m.virt /\ m.phys # NoPhys /\ m.phys <= access.addr
    /\ Straight(access) => WithinMap(access, m) /\ WithinBuffer(access)

\* No mapping is unmapped twice, and after the clean-up none is left, also when the
\* table could not grow and was emptied on the way.
UnmappedOnce ==
  /\ \A k \in DOMAIN maps : unmapped[k] <= 1
  /\ stage = "exit" => \A k \in DOMAIN maps : unmapped[k] = 1

=============================================================================
