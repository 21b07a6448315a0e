------------------------------ MODULE LanHostname ------------------------------
(***************************************************************************)
(* The OEM LAN parameter for the host name (transporthandler_oem.cpp).  A  *)
(* session writes the name in blocks that setLanOem collects in one static *)
(* array, and reads it in blocks with getLanOem.  The handlers do not      *)
(* yield: a command is one step.  An answer may be lost, and the session   *)
(* then repeats the command.                                               *)
(*                                                                         *)
(* A byte is NUL, Bad (not in validHostnameChars) or a valid character,    *)
(* which is told by who sends it and for which place of a name.            *)
(***************************************************************************)
EXTENDS Integers, Sequences, FiniteSets, SequencesExt

CONSTANTS Sessions,        \* users of the parameter
          NUL, Bad,        \* the zero byte; a byte that is not valid
          Authors,         \* whose names there are
          Other,           \* a command outside a transfer
          Names,           \* the names that are written
          Strays,          \* commands outside a transfer: block, complete, size
          IpmiHostnameLen, \* bytes of a block
          MaxFaults        \* bound on the lost answers, the commands outside a
                           \* transfer and the names set by other programs

lanOemHostnameLength == 4 * IpmiHostnameLen
Chars == [by : Authors \cup {Other}, place : 1..lanOemHostnameLength]
Bytes == Chars \cup {NUL, Bad}

ASSUME LanHostnameAssumption ==
  /\ NUL \notin Chars /\ Bad \notin Chars /\ NUL # Bad
  /\ IpmiHostnameLen \in Nat \ {0}
  /\ \A n \in Names :
       /\ n \in Seq(Bytes \ {NUL}) /\ Len(n) <= lanOemHostnameLength
       /\ \A i \in DOMAIN n : n[i] = Bad \/ n[i].place = i
  /\ Strays \subseteq [block : Nat, complete : Nat, size : Nat]
  /\ MaxFaults \in Nat

\* What programs on the BMC set.
ValidNames == {n \in Names : Bad \notin ToSet(n)}

VARIABLES
  blockData, \* the static array of setLanOem
  hostName,  \* the D-Bus property
  session,   \* session -> its transfer
  faults     \* lost answers and others so far

vars == <<blockData, hostName, session, faults>>

\* next: the block to send.  value: the name to write, or what was read.  out: what
\* became of the transfer, none while it goes on.  alone: history, nobody else has used
\* the parameter or set the name since the transfer began.
Idle == [kind |-> "none", value |-> <<>>, next |-> 1, out |-> "none", alone |-> TRUE]

Init ==
  /\ blockData = [i \in 1..lanOemHostnameLength |-> NUL]
  /\ hostName \in ValidNames
  /\ session = [s \in Sessions |-> Idle]
  /\ faults = 0

\* The string before the first zero byte: what the D-Bus property gets.
UpToNull(f) ==
  LET nulls == {i \in DOMAIN f : f[i] = NUL}
      firstNull == IF nulls = {} THEN Len(f) + 1
                   ELSE CHOOSE i \in nulls : \A j \in nulls : i <= j
  IN SubSeq(f, 1, firstNull - 1)

-----------------------------------------------------------------------------
(* The handlers *)

\* The checks of length and fields that end setLanOem early.
setLanOemError(block, complete, data) ==
  \/ Len(data) > IpmiHostnameLen
  \/ complete = 0 /\ Len(data) < IpmiHostnameLen
  \/ block \notin 1..4 \/ complete \notin {0, 1}

\* Mutation of Collected: the array is not cleared by the first block.
CollectedUncleared(block, data) ==
  [i \in 1..lanOemHostnameLength |->
     LET k == i - (block - 1) * IpmiHostnameLen IN
     IF k \in DOMAIN data THEN data[k] ELSE blockData[i]]

\* The array after a block: the first one clears it.
Collected(block, data) ==
  [i \in 1..lanOemHostnameLength |->
     LET k == i - (block - 1) * IpmiHostnameLen IN
     IF k \in DOMAIN data THEN data[k] ELSE IF block = 1 THEN NUL ELSE blockData[i]]

\* The last byte of a complete name is made zero.
Completed(buf) == [buf EXCEPT ![lanOemHostnameLength] = NUL]

\* The check of the characters before the first zero byte.
Printable(buf) == Bad \notin ToSet(UpToNull(buf))

\* setLanOem with its completion code, and whether it set the property.  Setting it
\* may fail, before or after it took effect.
setLanOem(block, complete, data, cc, set) ==
  LET buf == Collected(block, data)
      whole == Completed(buf)
  IN \/ /\ setLanOemError(block, complete, data)
        /\ cc = "invalid" /\ ~set /\ UNCHANGED <<blockData, hostName>>
     \/ /\ ~setLanOemError(block, complete, data) /\ complete = 0
        /\ blockData' = buf /\ cc = "success" /\ ~set /\ UNCHANGED hostName
     \/ /\ ~setLanOemError(block, complete, data) /\ complete = 1
        /\ blockData' = whole
        /\ IF Printable(whole)
           THEN /\ cc = "unspecified" \/ (cc = "success" /\ set)
                /\ hostName' = IF set THEN UpToNull(whole) ELSE hostName
           ELSE cc = "unprintable" /\ ~set /\ UNCHANGED hostName

CompletionCodes == {"success", "invalid", "unprintable", "unspecified"}

\* The bytes getLanOem answers with.
getLanOem(block) ==
  LET head == (block - 1) * IpmiHostnameLen IN
  [k \in 1..IpmiHostnameLen |-> IF head + k <= Len(hostName) THEN hostName[head + k] ELSE NUL]

-----------------------------------------------------------------------------
(* Sessions *)

\* The transfers that go on are no longer alone.
Disturbed == [s \in Sessions |->
  IF session[s].kind = "none" THEN session[s] ELSE [session[s] EXCEPT !.alone = FALSE]]

Begin(s, kind, n) ==
  /\ session[s].kind = "none"
  /\ session' = [Disturbed EXCEPT ![s] =
       [Idle EXCEPT !.kind = kind, !.value = n, !.alone = \A q \in Sessions : session[q].kind = "none"]]
  /\ UNCHANGED <<blockData, hostName, faults>>

\* The part of a name that a block carries, and whether it is the last.
Block(n, block) ==
  SubSeq(n, (block - 1) * IpmiHostnameLen + 1,
         IF block * IpmiHostnameLen <= Len(n) THEN block * IpmiHostnameLen ELSE Len(n))
LastBlock(n, block) == IF block * IpmiHostnameLen >= Len(n) THEN 1 ELSE 0

\* A session sends the next block of its name and gets an answer, or loses it and
\* will repeat the block.
SendBlock(s) ==
  LET t == session[s]
      complete == LastBlock(t.value, t.next)
  IN /\ t.kind = "write" /\ t.out \in {"none", "written"} /\ t.next \in 1..4
     /\ \E cc \in CompletionCodes, set, lost \in BOOLEAN :
          /\ setLanOem(t.next, complete, Block(t.value, t.next), cc, set)
          /\ lost => faults < MaxFaults
          /\ faults' = IF lost THEN faults + 1 ELSE faults
          /\ session' = [session EXCEPT ![s] =
               [t EXCEPT !.out = IF set THEN "written" ELSE @,
                         !.next = IF lost THEN @
                                  ELSE IF cc = "success" /\ complete = 0 THEN @ + 1 ELSE 5]]

\* A session reads the next block.
ReadBlock(s) ==
  LET t == session[s] IN
  /\ t.kind = "read" /\ t.next \in 1..4
  /\ LET got == t.value \o getLanOem(t.next) IN
     session' = [session EXCEPT ![s] =
       IF t.next = 4 THEN [t EXCEPT !.value = UpToNull(got), !.next = 5, !.out = "read"]
       ELSE [t EXCEPT !.value = got, !.next = @ + 1]]
  /\ UNCHANGED <<blockData, hostName, faults>>

\* A transfer is over, or given up.
End(s) ==
  /\ session[s].kind # "none"
  /\ session' = [session EXCEPT ![s] = Idle]
  /\ UNCHANGED <<blockData, hostName, faults>>

\* A command that is not part of a transfer.
Stray ==
  /\ faults < MaxFaults /\ faults' = faults + 1
  /\ \E m \in Strays, cc \in CompletionCodes, set \in BOOLEAN :
       LET data == [k \in 1..m.size |->
                      [by |-> Other, place |-> (m.block - 1) * IpmiHostnameLen + k]]
       IN setLanOem(m.block, m.complete, data, cc, set)
  /\ session' = Disturbed

\* Another program sets the host name.
OtherSet ==
  /\ faults < MaxFaults /\ faults' = faults + 1
  /\ hostName' \in ValidNames
  /\ session' = Disturbed
  /\ UNCHANGED blockData

Next ==
  \/ \E s \in Sessions :
       \/ \E n \in Names : Begin(s, "write", n)
       \/ Begin(s, "read", <<>>)
       \/ SendBlock(s) \/ ReadBlock(s) \/ End(s)
  \/ Stray \/ OtherSet

Spec == Init /\ [][Next]_vars

-----------------------------------------------------------------------------
(* Properties *)

\* A transfer that nothing disturbs writes or reads the name as a whole, whatever was sent
\* before it and however often a block is repeated; one that others disturb may mix
\* names, but never shifts them or makes up characters: the parameter implements the
\* register.
Register == INSTANCE HostNameRegister WITH
  MaxStored <- lanOemHostnameLength - 1,
  name <- hostName,
  op <- [s \in Sessions |->
           [kind |-> session[s].kind,
            value |-> IF session[s].kind = "read" /\ session[s].out = "none" THEN <<>>
                      ELSE session[s].value,
            out |-> session[s].out, alone |-> session[s].alone]]

\* The refinement of HostNameRegister by setLanOem and getLanOem.
ImplementsRegister == Register!Spec

=============================================================================
