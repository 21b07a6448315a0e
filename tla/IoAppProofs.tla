----------------------------- MODULE IoAppProofs -----------------------------
(***************************************************************************)
(* StraightAccessInside and UnmappedOnce for any size of the address       *)
(* space, any word size, any command lines and any maps.                   *)
(***************************************************************************)
EXTENDS IoApp, WellFoundedInduction, SequenceTheorems, TLAPS

Mapping == [phys : Ulong, len : Nat, virt : BOOLEAN]

\* The types of what the proofs follow.
TypeInv ==
  /\ argv \in Seq(Argument)
  /\ i \in Nat \ {0} /\ first_arg \in Nat \ {0}
  /\ map_str \in 0..Len(argv) /\ cfg_file \in 0..Len(argv)
  /\ todo \in Seq(Seq(Ulong)) /\ line \in Seq(Command)
  /\ maps \in Seq(Mapping)
  /\ access \in [fn : {"none", "md", "mw"}, addr : Ulong, len : Ulong, map : Nat, j : Nat]

\* A mapping is there, or it has been unmapped once.
MapInv ==
  /\ unmapped \in [DOMAIN maps -> {0, 1}]
  /\ \A k \in DOMAIN maps : maps[k].virt = (unmapped[k] = 0)
  /\ stage \in {"args", "map"} => maps = <<>>
  /\ stage \in {"load", "run", "access", "shell"} => \A k \in DOMAIN maps : unmapped[k] = 0
  /\ stage = "exit" => \A k \in DOMAIN maps : unmapped[k] = 1

\* The mapping that md or mw uses has passed its test.
AccessInv ==
  stage = "access" /\ access.map # 0 =>
    access.map \in DOMAIN maps /\ InRange(maps[access.map], access.addr, access.len)

-----------------------------------------------------------------------------
(* The test of the range *)

\* A set of numbers that is not empty has a least element.
LEMMA Least ==
  ASSUME NEW S \in SUBSET Nat, S # {}
  PROVE  \E x \in S : \A y \in S : x <= y
<1>1. PICK x \in S : \A y \in S : ~(<<y, x>> \in OpToRel(<, Nat))
  BY NatLessThanWellFounded, WFMin, Zenon
<1>2. \A y \in S : y < x => <<y, x>> \in {ss \in Nat \X Nat : ss[1] < ss[2]}
  OBVIOUS
<1>3. \A y \in S : ~(y < x)
  BY <1>1, <1>2, Zenon DEF OpToRel
<1> QED BY <1>3

LEMMA FindMapFits ==
  ASSUME maps \in Seq(Mapping), NEW addr, NEW len
  PROVE  /\ FindMap(addr, len) \in Nat
         /\ FindMap(addr, len) # 0 => /\ FindMap(addr, len) \in DOMAIN maps
                                      /\ InRange(maps[FindMap(addr, len)], addr, len)
<1> DEFINE fits == {k \in DOMAIN maps : InRange(maps[k], addr, len)}
<1>1. fits \in SUBSET Nat
  BY LenProperties
<1>2. CASE fits = {}
  BY <1>2 DEF FindMap
<1>3. CASE fits # {}
  <2>1. \E k \in fits : \A l \in fits : k <= l
    BY <1>1, <1>3, Least
  <2>2. FindMap(addr, len) = CHOOSE k \in fits : \A l \in fits : k <= l
    BY <1>3 DEF FindMap
  <2>3. FindMap(addr, len) \in fits
    <3> HIDE DEF fits
    <3> QED BY <2>1, <2>2, Zenon
  <2> QED BY <1>1, <2>3
<1> QED BY <1>2, <1>3

LEMMA ModIdentity == \A x \in Nat, s \in Nat : x < s => x % s = x
OBVIOUS

LEMMA ModBelow == \A x \in Nat, s \in Nat \ {0} : x % s <= x /\ x % s \in Nat
OBVIOUS

LEMMA WordsBelow ==
  ASSUME NEW j \in Nat, NEW len \in Nat, j < len, NEW w \in Nat
  PROVE  j * w + w <= len * w /\ j * w \in Nat /\ len * w \in Nat
<1>1. PICK d \in Nat : len = j + 1 + d
  <2>1. len - j - 1 \in Nat /\ len = j + 1 + (len - j - 1)
    OBVIOUS
  <2> QED BY <2>1
<1>2. d * w \in Nat /\ j * w \in Nat
  OBVIOUS
<1>3. len * w = j * w + w + d * w
  BY <1>1
<1> QED BY <1>2, <1>3

\* A range that passes the test and does not wrap around lies in the mapping, word by
\* word.
LEMMA TestIsRight ==
  ASSUME NEW m \in Mapping, NEW addr \in Ulong, NEW len \in Ulong, NEW j \in Nat, j < len,
         InRange(m, addr, len), addr + len * Word < Size
  PROVE  /\ (addr + j * Word) % Size \in m.phys..(m.phys + m.len - Word)
         /\ addr \in m.phys..(m.phys + m.len - Word)
         /\ (j + 1) * Word <= (len * Word) % Size
<1>1. /\ Size \in Nat \ {0} /\ Word \in Nat \ {0} /\ addr \in Nat /\ len \in Nat
      /\ m.phys \in Nat /\ m.len \in Nat
  BY IoAppAssumption DEF Ulong, Mapping
<1>2. j * Word + Word <= len * Word /\ j * Word \in Nat /\ len * Word \in Nat
  BY <1>1, WordsBelow
<1>3. (addr + len * Word) % Size = addr + len * Word
  BY <1>1, <1>2, ModIdentity
<1>4. (m.phys + m.len) % Size <= m.phys + m.len /\ (m.phys + m.len) % Size \in Nat
  <2>1. m.phys + m.len \in Nat
    BY <1>1
  <2> QED BY <1>1, <2>1, ModBelow
<1>5. m.phys <= addr /\ addr + len * Word < m.phys + m.len
  <2>1. m.phys <= addr /\ (addr + len * Word) % Size < (m.phys + m.len) % Size
    BY DEF InRange
  <2> QED BY <1>1, <1>2, <1>3, <1>4, <2>1
<1>6. (addr + j * Word) % Size = addr + j * Word
  <2>1. addr + j * Word \in Nat /\ addr + j * Word < Size
    BY <1>1, <1>2
  <2> QED BY <1>1, <2>1, ModIdentity
<1> HIDE DEF InRange
<1>7. addr + j * Word \in m.phys..(m.phys + m.len - Word)
  BY <1>1, <1>2, <1>5
<1>8. addr \in m.phys..(m.phys + m.len - Word)
  BY <1>1, <1>2, <1>5
<1>9. (j + 1) * Word <= (len * Word) % Size
  <2>1. len * Word < Size
    BY <1>1, <1>2
  <2>2. (len * Word) % Size = len * Word
    BY <1>1, <1>2, <2>1, ModIdentity
  <2>3. (j + 1) * Word = j * Word + Word
    BY <1>1
  <2> QED BY <1>2, <2>2, <2>3
<1> QED BY <1>6, <1>7, <1>8, <1>9

-----------------------------------------------------------------------------
(* The invariant *)

IoInv == TypeInv /\ MapInv /\ AccessInv

LEMMA InitIo == Init => IoInv
<1> SUFFICES ASSUME Init PROVE IoInv
  OBVIOUS
<1>1. TypeInv
  <2>1. argv \in Seq(Argument)
    BY IoAppAssumption DEF Init
  <2>2. Len(argv) \in Nat
    BY <2>1, LenProperties
  <2>3. 0 \in Ulong
    BY IoAppAssumption DEF Ulong
  <2> QED BY <2>1, <2>2, <2>3, EmptySeq DEF Init, TypeInv, NoAccess
<1>2. MapInv
  <2>1. DOMAIN maps = {}
    BY DEF Init
  <2> QED BY <2>1 DEF Init, MapInv
<1>3. AccessInv
  BY DEF Init, AccessInv
<1> QED BY <1>1, <1>2, <1>3 DEF IoInv

\* The command line does not touch the mappings.
LEMMA ArgumentsIo ==
  ASSUME IoInv, ParseArgument \/ NoArgument
  PROVE  IoInv'
<1>1. /\ UNCHANGED <<argv, todo, maps, unmapped, line, access>>
      /\ stage = "args" /\ stage' \in {"args", "map", "usage"}
  BY DEF ParseArgument, NoArgument, Called, Shell
<1>2. argv \in Seq(Argument) /\ Len(argv) \in Nat /\ i \in Nat \ {0}
  BY LenProperties DEF IoInv, TypeInv
<1>3. /\ i' \in Nat \ {0} /\ first_arg' \in Nat \ {0}
      /\ map_str' \in 0..Len(argv) /\ cfg_file' \in 0..Len(argv)
  <2>1. CASE ParseArgument
    BY <1>2, <2>1 DEF ParseArgument, IoInv, TypeInv
  <2>2. CASE NoArgument
    BY <2>2 DEF NoArgument, Called, IoInv, TypeInv
  <2> QED BY <2>1, <2>2
<1>4. TypeInv'
  BY <1>1, <1>3 DEF IoInv, TypeInv
<1>5. MapInv'
  BY <1>1 DEF IoInv, MapInv
<1>6. AccessInv'
  BY <1>1 DEF AccessInv
<1> QED BY <1>4, <1>5, <1>6 DEF IoInv

\* A mapping that is added has not been unmapped.
LEMMA AddIo ==
  ASSUME IoInv, NEW phys \in Ulong, NEW len \in Nat, add_a_map(phys, len),
         stage \in {"map", "load"}
  PROVE  /\ maps' \in Seq(Mapping) /\ unmapped' \in [DOMAIN maps' -> {0, 1}]
         /\ \A k \in DOMAIN maps' : maps'[k].virt = (unmapped'[k] = 0) /\ unmapped'[k] = 0
<1> DEFINE m == [phys |-> phys, len |-> len, virt |-> TRUE]
<1>1. m \in Mapping
  BY DEF Mapping
<1>2. maps \in Seq(Mapping) /\ Len(maps) \in Nat /\ DOMAIN maps = 1..Len(maps)
  BY LenProperties DEF IoInv, TypeInv
<1>3. /\ unmapped \in [1..Len(maps) -> {0, 1}]
      /\ \A k \in 1..Len(maps) : maps[k].virt = (unmapped[k] = 0) /\ unmapped[k] = 0
  <2>1. stage = "map" => 1..Len(maps) = {}
    BY DEF IoInv, MapInv
  <2> QED BY <1>2, <2>1 DEF IoInv, MapInv
<1>4. unmapped \in Seq({0, 1}) /\ Len(unmapped) = Len(maps)
  BY <1>2, <1>3, SeqDef
<1>5. /\ maps' \in Seq(Mapping) /\ DOMAIN maps' = 1..(Len(maps) + 1)
      /\ \A k \in 1..Len(maps) : maps'[k] = maps[k]
      /\ maps'[Len(maps) + 1] = m
  BY <1>1, <1>2, AppendProperties DEF add_a_map
<1>6. /\ unmapped' \in Seq({0, 1}) /\ DOMAIN unmapped' = 1..(Len(maps) + 1)
      /\ \A k \in 1..Len(maps) : unmapped'[k] = unmapped[k]
      /\ unmapped'[Len(maps) + 1] = 0
  BY <1>2, <1>4, AppendProperties DEF add_a_map
<1>7. unmapped' \in [DOMAIN maps' -> {0, 1}]
  BY <1>5, <1>6, LenProperties
<1>8. ASSUME NEW k \in DOMAIN maps'
      PROVE  maps'[k].virt = (unmapped'[k] = 0) /\ unmapped'[k] = 0
  <2>1. CASE k \in 1..Len(maps)
    <3>1. maps'[k] = maps[k] /\ unmapped'[k] = unmapped[k]
      BY <2>1, <1>5, <1>6
    <3> QED BY <1>3, <2>1, <3>1
  <2>2. CASE k = Len(maps) + 1
    <3>1. maps'[k].virt = TRUE /\ unmapped'[k] = 0
      BY <2>2, <1>5, <1>6
    <3> QED BY <3>1, Zenon
  <2> QED BY <1>2, <1>5, <2>1, <2>2
<1> QED BY <1>5, <1>7, <1>8

\* unmap_all passes over what has been unmapped.
LEMMA UnmapIo ==
  ASSUME IoInv, unmap_all
  PROVE  /\ maps' \in Seq(Mapping) /\ unmapped' \in [DOMAIN maps' -> {0, 1}]
         /\ \A k \in DOMAIN maps' : maps'[k].virt = (unmapped'[k] = 0) /\ unmapped'[k] = 1
<1>1. /\ maps \in Seq(Mapping) /\ Len(maps) \in Nat /\ DOMAIN maps = 1..Len(maps)
      /\ maps \in [1..Len(maps) -> Mapping]
  BY LenProperties DEF IoInv, TypeInv
<1>2. maps' = [k \in 1..Len(maps) |-> [maps[k] EXCEPT !.virt = FALSE]]
  BY <1>1 DEF unmap_all
<1>3. \A k \in 1..Len(maps) : maps'[k] \in Mapping /\ maps'[k].virt = FALSE
  BY <1>1, <1>2 DEF Mapping
<1>4. maps' \in [1..Len(maps) -> Mapping] /\ DOMAIN maps' = 1..Len(maps)
  BY <1>2, <1>3
<1>5. maps' \in Seq(Mapping)
  BY <1>1, <1>4, SeqDef
<1>6. ASSUME NEW k \in 1..Len(maps) PROVE unmapped'[k] = 1
  <2>1. unmapped'[k] = IF maps[k].virt THEN unmapped[k] + 1 ELSE unmapped[k]
    BY <1>1 DEF unmap_all
  <2>2. maps[k].virt = (unmapped[k] = 0) /\ unmapped[k] \in {0, 1}
    BY <1>1 DEF IoInv, MapInv
  <2>3. CASE unmapped[k] = 0
    <3>1. maps[k].virt = TRUE
      BY <2>2, <2>3, Zenon
    <3> QED BY <2>1, <2>3, <3>1
  <2>4. CASE unmapped[k] = 1
    <3>1. (unmapped[k] = 0) = FALSE
      BY <2>4
    <3>2. maps[k].virt = FALSE
      BY <2>2, <3>1, Zenon
    <3> QED BY <2>1, <2>4, <3>2
  <2> QED BY <2>2, <2>3, <2>4
<1>7. unmapped' \in [1..Len(maps) -> {0, 1}]
  BY <1>1, <1>6 DEF unmap_all
<1>8. ASSUME NEW k \in 1..Len(maps) PROVE maps'[k].virt = (unmapped'[k] = 0)
  <2>1. (unmapped'[k] = 0) = FALSE
    BY <1>6
  <2> QED BY <1>3, <2>1, Zenon
<1> QED BY <1>4, <1>5, <1>6, <1>7, <1>8

\* A step that leaves the mappings alone, outside an access and before the clean-up.
LEMMA MapsKept ==
  ASSUME IoInv, UNCHANGED <<maps, unmapped>>, stage' # "exit",
         stage' \in {"args", "map"} => stage \in {"args", "map"},
         stage' \in {"load", "run", "access", "shell"} =>
           stage \in {"args", "map", "load", "run", "access", "shell"}
  PROVE  MapInv'
<1>1. maps = <<>> => DOMAIN maps = {}
  OBVIOUS
<1> QED BY <1>1 DEF IoInv, MapInv

LEMMA LoadIo ==
  ASSUME IoInv, FindMaps \/ LoadMap \/ SkipMap \/ LoadError \/ Loaded
  PROVE  IoInv'
<1>1. /\ UNCHANGED <<argv, i, first_arg, map_str, cfg_file, line, access>>
      /\ stage' # "access"
  BY DEF FindMaps, LoadMap, SkipMap, LoadError, Loaded, LoadFailed, Called, Shell
<1>2. /\ argv \in Seq(Argument) /\ map_str \in 0..Len(argv) /\ cfg_file \in 0..Len(argv)
      /\ todo \in Seq(Seq(Ulong)) /\ Len(argv) \in Nat /\ maps \in Seq(Mapping)
  BY LenProperties DEF IoInv, TypeInv
<1>3. \A k \in 1..Len(argv) : argv[k].map \in Seq(Seq(Ulong))
  <2>1. \A k \in 1..Len(argv) : argv[k] \in Argument
    BY <1>2, ElementOfSeq
  <2> QED BY <2>1 DEF Argument
<1>q. ASSUME todo' \in Seq(Seq(Ulong)), maps' \in Seq(Mapping), MapInv' PROVE IoInv'
  <2>1. TypeInv'
    BY <1>1, <1>q DEF IoInv, TypeInv
  <2>2. AccessInv'
    BY <1>1 DEF AccessInv
  <2> QED BY <1>q, <2>1, <2>2 DEF IoInv
<1>4. CASE FindMaps
  <2>1. todo' \in Seq(Seq(Ulong))
    <3>1. map_str # 0 => argv[map_str].map \in Seq(Seq(Ulong))
      BY <1>2, <1>3
    <3>2. cfg_file # 0 => argv[cfg_file].map \in Seq(Seq(Ulong))
      BY <1>2, <1>3
    <3>3. CpuMap \in Seq(Seq(Ulong)) /\ <<>> \in Seq(Seq(Ulong))
      BY EmptySeq, IoAppAssumption
    <3>4. todo' \in {todo, CpuMap, <<>>} \/ (map_str # 0 /\ todo' = argv[map_str].map)
            \/ (cfg_file # 0 /\ todo' = argv[cfg_file].map)
      BY <1>4 DEF FindMaps
    <3> QED BY <1>2, <3>1, <3>2, <3>3, <3>4, Zenon
  <2>2. CASE UNCHANGED <<maps, unmapped>> /\ stage' # "exit"
    <3>1. stage = "map" /\ stage' \in {"load", "crash", "cleanup"}
      BY <1>4, <2>2 DEF FindMaps
    <3>2. MapInv'
      BY <2>2, <3>1, MapsKept
    <3> QED BY <1>2, <1>q, <2>1, <2>2, <3>2
  <2>3. CASE stage' = "exit"
    <3>1. UNCHANGED <<maps, unmapped>> /\ maps = <<>>
      BY <1>4, <2>3 DEF FindMaps, IoInv, MapInv
    <3>2. DOMAIN maps = {}
      BY <3>1
    <3>3. MapInv'
      BY <2>3, <3>1, <3>2 DEF IoInv, MapInv
    <3> QED BY <1>2, <1>q, <2>1, <3>1, <3>3
  <2>4. CASE /\ cfg_file # 0 /\ stage' = "load"
             /\ add_a_map(NoPhys, Len(argv[cfg_file].map))
    <3>1. NoPhys \in Ulong
      BY IoAppAssumption DEF NoPhys, Ulong
    <3>2. Len(argv[cfg_file].map) \in Nat
      BY <1>2, <1>3, <2>4, LenProperties
    <3>3. stage = "map"
      BY <1>4 DEF FindMaps
    <3>4. /\ maps' \in Seq(Mapping) /\ unmapped' \in [DOMAIN maps' -> {0, 1}]
          /\ \A k \in DOMAIN maps' : maps'[k].virt = (unmapped'[k] = 0) /\ unmapped'[k] = 0
      BY <2>4, <3>1, <3>2, <3>3, AddIo
    <3>5. MapInv'
      BY <2>4, <3>4 DEF MapInv
    <3> QED BY <1>q, <2>1, <3>4, <3>5
  <2> QED BY <1>4, <2>2, <2>3, <2>4 DEF FindMaps
<1>5. CASE LoadMap
  <2>1. stage = "load" /\ stage' = "load" /\ todo # <<>> /\ Len(Head(todo)) = 2
    BY <1>5 DEF LoadMap
  <2>2. Head(todo) \in Seq(Ulong) /\ Tail(todo) \in Seq(Seq(Ulong))
    BY <1>2, <2>1, HeadTailProperties
  <2>3. Head(todo)[1] \in Ulong /\ Head(todo)[2] \in Ulong
    BY <2>1, <2>2, ElementOfSeq
  <2>4. Head(todo)[2] \in Nat
    BY <2>3, IoAppAssumption DEF Ulong
  <2>5. /\ maps' \in Seq(Mapping) /\ unmapped' \in [DOMAIN maps' -> {0, 1}]
        /\ \A k \in DOMAIN maps' : maps'[k].virt = (unmapped'[k] = 0) /\ unmapped'[k] = 0
    BY <1>5, <2>1, <2>3, <2>4, AddIo DEF LoadMap
  <2>6. MapInv'
    BY <2>1, <2>5 DEF MapInv
  <2> QED BY <1>5, <1>q, <2>2, <2>5, <2>6 DEF LoadMap
<1>6. CASE SkipMap
  <2>1. Tail(todo) \in Seq(Seq(Ulong))
    BY <1>2, <1>6, HeadTailProperties DEF SkipMap
  <2>2. MapInv'
    BY <1>6, MapsKept DEF SkipMap
  <2> QED BY <1>2, <1>6, <1>q, <2>1, <2>2 DEF SkipMap
<1>7. CASE LoadError
  <2>1. stage = "load" /\ stage' = "cleanup" /\ todo' \in Seq(Seq(Ulong))
    BY <1>7, EmptySeq DEF LoadError, LoadFailed
  <2>2. CASE unmap_all
    BY <1>q, <2>1, <2>2, UnmapIo DEF MapInv
  <2>3. CASE UNCHANGED <<maps, unmapped>>
    BY <1>2, <1>q, <2>1, <2>3, MapsKept
  <2> QED BY <1>7, <2>2, <2>3 DEF LoadError
<1>8. CASE Loaded
  <2>1. MapInv'
    BY <1>8, MapsKept DEF Loaded
  <2> QED BY <1>2, <1>8, <1>q, <2>1 DEF Loaded
<1> QED BY <1>4, <1>5, <1>6, <1>7, <1>8

\* md or mw starts with the mapping that its test has found.
LEMMA StartIo ==
  ASSUME IoInv, NEW fn \in {"md", "mw"}, NEW addr \in Ulong, NEW len \in Ulong,
         Start(fn, addr, len), stage \in {"run", "shell"},
         UNCHANGED <<Called, todo, maps, unmapped>>, line' \in Seq(Command)
  PROVE  IoInv'
<1>1. /\ FindMap(addr, len) \in Nat
      /\ FindMap(addr, len) # 0 => /\ FindMap(addr, len) \in DOMAIN maps
                                   /\ InRange(maps[FindMap(addr, len)], addr, len)
  BY FindMapFits DEF IoInv, TypeInv
<1>2. /\ access' = [fn |-> fn, addr |-> addr, len |-> len, map |-> FindMap(addr, len), j |-> 0]
      /\ stage' = "access"
  BY DEF Start
<1>3. TypeInv'
  BY <1>1, <1>2 DEF IoInv, TypeInv, Called
<1>4. MapInv'
  BY <1>2, MapsKept
<1>5. AccessInv'
  BY <1>1, <1>2 DEF AccessInv, InRange
<1> QED BY <1>3, <1>4, <1>5 DEF IoInv

\* A step between the accesses.
LEMMA BetweenIo ==
  ASSUME IoInv, UNCHANGED <<Called, todo, maps, unmapped, access>>, line' \in Seq(Command),
         stage \in {"run", "access", "shell"},
         stage' \in {"crash", "usage", "shell", "cleanup"}
  PROVE  IoInv'
<1>1. TypeInv'
  BY DEF IoInv, TypeInv, Called
<1>2. MapInv'
  BY MapsKept
<1>3. AccessInv'
  BY DEF AccessInv
<1> QED BY <1>1, <1>2, <1>3 DEF IoInv

LEMMA RunIo ==
  ASSUME IoInv, RunOnce \/ AccessWord \/ Stray \/ Returned \/ NoBuffer \/ RunShell
  PROVE  IoInv'
<1>1. line \in Seq(Command) /\ argv \in Seq(Argument) /\ first_arg \in Nat \ {0}
  BY DEF IoInv, TypeInv
<1>2. CASE RunOnce
  <2>1. /\ UNCHANGED <<Called, todo, maps, unmapped>> /\ line' \in Seq(Command)
        /\ stage = "run" /\ exe \in {"md", "mw"}
    BY <1>1, <1>2 DEF RunOnce, Shell
  <2>2. CASE stage' \in {"crash", "usage"} /\ UNCHANGED access
    BY <2>1, <2>2, BetweenIo
  <2> DEFINE lenAt == IF exe = "md" THEN first_arg + 1 ELSE first_arg + 2
             len == IF lenAt <= Len(argv) THEN argv[lenAt].num
                    ELSE IF exe = "md" THEN mdLen ELSE 1
  <2>3. CASE first_arg <= Len(argv) /\ Start(exe, argv[first_arg].num, len)
    <3>1. \A k \in 1..Len(argv) : argv[k] \in Argument
      BY <1>1, ElementOfSeq
    <3>2. Len(argv) \in Nat /\ \A k \in 1..Len(argv) : argv[k].num \in Ulong
      BY <1>1, <3>1, LenProperties DEF Argument
    <3>3. argv[first_arg].num \in Ulong
      BY <1>1, <2>3, <3>2
    <3>4. len \in Ulong
      <4>1. lenAt \in Nat \ {0}
        BY <1>1
      <4>2. mdLen \in Ulong
        BY IoAppAssumption
      <4>3. CASE lenAt <= Len(argv)
        <5> HIDE DEF lenAt
        <5>1. lenAt \in 1..Len(argv)
          BY <3>2, <4>1, <4>3
        <5> QED BY <3>2, <4>3, <5>1
      <4>4. CASE ~(lenAt <= Len(argv)) /\ exe = "md"
        <5> HIDE DEF lenAt
        <5> QED BY <4>2, <4>4
      <4>5. CASE ~(lenAt <= Len(argv)) /\ exe # "md"
        <5> HIDE DEF lenAt
        <5> QED BY <4>5, IoAppAssumption DEF Ulong
      <4> QED BY <4>3, <4>4, <4>5
    <3> QED BY <2>1, <2>3, <3>3, <3>4, StartIo
  <2>4. Len(argv) \in Nat
    BY <1>1, LenProperties
  <2> QED BY <1>1, <1>2, <2>2, <2>3, <2>4 DEF RunOnce
<1>3. CASE AccessWord
  <2>1. /\ stage = "access" /\ UNCHANGED <<stage, Called, todo, maps, unmapped, line>>
        /\ access' = [access EXCEPT !.j = @ + 1]
    BY <1>3 DEF AccessWord, Shell
  <2>2. TypeInv'
    <3>1. access' \in [fn : {"none", "md", "mw"}, addr : Ulong, len : Ulong, map : Nat, j : Nat]
      <4> DEFINE A == [fn : {"none", "md", "mw"}, addr : Ulong, len : Ulong, map : Nat, j : Nat]
      <4>1. access \in A /\ access.j + 1 \in Nat
        BY DEF IoInv, TypeInv
      <4>2. access' = [fn |-> access.fn, addr |-> access.addr, len |-> access.len,
                       map |-> access.map, j |-> access.j + 1]
        BY <2>1, <4>1
      <4> QED BY <4>1, <4>2
    <3> QED BY <2>1, <3>1 DEF IoInv, TypeInv, Called
  <2>3. MapInv'
    BY <2>1, MapsKept
  <2>4. access'.map = access.map /\ access'.addr = access.addr /\ access'.len = access.len
    BY <2>1 DEF IoInv, TypeInv
  <2>5. AccessInv'
    BY <2>1, <2>4 DEF IoInv, AccessInv, InRange
  <2> QED BY <2>2, <2>3, <2>5 DEF IoInv
<1>4. CASE Returned \/ NoBuffer
  <2>1. /\ stage = "access" /\ stage' \in {"shell", "cleanup"}
        /\ UNCHANGED <<Called, todo, maps, unmapped, line, access>>
    BY <1>4 DEF Returned, NoBuffer, Return, Shell
  <2> QED BY <1>1, <2>1, BetweenIo
<1>5. CASE RunShell
  <2>1. stage = "run" /\ stage' = "shell" /\ UNCHANGED <<Called, todo, maps, unmapped, line, access>>
    BY <1>5 DEF RunShell, Shell
  <2> QED BY <1>1, <2>1, BetweenIo
<1>6. CASE Stray
  <2>1. /\ stage = "access" /\ stage' = "crash"
        /\ UNCHANGED <<Called, todo, maps, unmapped, line, access>>
    BY <1>6 DEF Stray, Shell
  <2> QED BY <1>1, <2>1, BetweenIo
<1> QED BY <1>2, <1>3, <1>4, <1>5, <1>6

LEMMA ShellIo ==
  ASSUME IoInv, readline \/ io \/ Cleanup
  PROVE  IoInv'
<1>1. line \in Seq(Command)
  BY DEF IoInv, TypeInv
<1>2. CASE readline
  <2>1. /\ stage = "shell" /\ stage' \in {"shell", "cleanup"}
        /\ UNCHANGED <<Called, todo, maps, unmapped, access>> /\ line' \in Seq(Command)
    BY <1>1, <1>2, IoAppAssumption DEF readline, Shell
  <2> QED BY <2>1, BetweenIo
<1>3. CASE io
  <2>1. /\ stage = "shell" /\ line # <<>>
        /\ UNCHANGED <<Called, todo, maps, unmapped>>
    BY <1>3 DEF io
  <2>2. Head(line) \in Command /\ Tail(line) \in Seq(Command) /\ <<>> \in Seq(Command)
    BY <1>1, <2>1, HeadTailProperties, EmptySeq
  <2>3. CASE /\ Head(line).fn \in {"md", "mw"} /\ line' = Tail(line)
             /\ Start(Head(line).fn, Head(line).addr, Head(line).len)
    <3>1. Head(line).addr \in Ulong /\ Head(line).len \in Ulong
      BY <2>2 DEF Command
    <3> QED BY <2>1, <2>2, <2>3, <3>1, StartIo
  <2>4. CASE line' \in {<<>>, line} /\ stage' \in {"shell", "cleanup"} /\ UNCHANGED access
    BY <1>1, <2>1, <2>2, <2>4, BetweenIo
  <2> QED BY <1>3, <2>1, <2>3, <2>4 DEF io
<1>4. CASE Cleanup
  <2>1. /\ stage' = "exit" /\ unmap_all /\ UNCHANGED <<Called, todo, line, access>>
    BY <1>4 DEF Cleanup, Shell
  <2>2. maps' \in Seq(Mapping) /\ MapInv'
    BY <2>1, UnmapIo DEF MapInv
  <2>3. TypeInv'
    BY <2>1, <2>2 DEF IoInv, TypeInv, Called
  <2>4. AccessInv'
    BY <2>1 DEF AccessInv
  <2> QED BY <2>2, <2>3, <2>4 DEF IoInv
<1> QED BY <1>2, <1>3, <1>4

LEMMA NextIo == IoInv /\ [Next]_vars => IoInv'
<1>1. ASSUME IoInv, UNCHANGED vars PROVE IoInv'
  BY <1>1 DEF vars, IoInv, TypeInv, MapInv, AccessInv, InRange
<1> QED BY <1>1, ArgumentsIo, LoadIo, RunIo, ShellIo DEF Next

LEMMA IoInvariant == Spec => []IoInv
BY InitIo, NextIo, PTL DEF Spec

\* md and mw work on a region of memory that is still mapped and begins at or below
\* their address, for every address space, word size, map and command; and every word
\* of a range that does not wrap around the address space is inside that region and
\* md's buffer.  The words of a range that wraps need not be: the test of io-app.c:246
\* is one modulo Size.
THEOREM StraightAlwaysInside == Spec => []StraightAccessInside
<1>1. IoInv => StraightAccessInside
  <2> SUFFICES ASSUME IoInv, stage = "access", access.map # 0, access.j < access.len
               PROVE  LET m == maps[access.map] IN
                      /\ m.virt /\ m.phys # NoPhys /\ m.phys <= access.addr
                      /\ Straight(access) => WithinMap(access, m) /\ WithinBuffer(access)
    BY DEF StraightAccessInside
  <2> DEFINE m == maps[access.map]
  <2>1. /\ access.map \in DOMAIN maps /\ InRange(m, access.addr, access.len)
        /\ maps \in Seq(Mapping)
        /\ access.addr \in Ulong /\ access.len \in Ulong /\ access.j \in Nat
    BY DEF IoInv, TypeInv, AccessInv
  <2>2. m \in Mapping
    BY <2>1, LenProperties
  <2>3. unmapped[access.map] = 0 /\ m.virt = (unmapped[access.map] = 0)
    BY <2>1 DEF IoInv, MapInv
  <2>4. m.virt
    BY <2>3
  <2>5. m.phys # NoPhys /\ m.phys <= access.addr
    BY <2>1 DEF InRange
  <2>6. ASSUME Straight(access) PROVE WithinMap(access, m) /\ WithinBuffer(access)
    <3>1. access.addr + access.len * Word < Size
      BY <2>6 DEF Straight
    <3> HIDE DEF m
    <3>2. /\ (access.addr + access.j * Word) % Size \in m.phys..(m.phys + m.len - Word)
          /\ access.addr \in m.phys..(m.phys + m.len - Word)
          /\ (access.j + 1) * Word <= (access.len * Word) % Size
      BY <2>1, <2>2, <3>1, TestIsRight
    <3>3. \/ WordAt(access) = (access.addr + access.j * Word) % Size
          \/ WordAt(access) = access.addr
      BY DEF WordAt
    <3>4. WithinMap(access, m)
      BY <3>2, <3>3, Zenon DEF WithinMap
    <3> QED BY <3>2, <3>4, Zenon DEF WithinBuffer
  <2> QED BY <2>4, <2>5, <2>6
<1> QED BY <1>1, IoInvariant, PTL

\* No mapping is unmapped twice and none is left at the exit, whatever fails on the way.
THEOREM AlwaysUnmappedOnce == Spec => []UnmappedOnce
<1>1. IoInv => UnmappedOnce
  BY DEF IoInv, MapInv, UnmappedOnce
<1> QED BY <1>1, IoInvariant, PTL

=============================================================================
