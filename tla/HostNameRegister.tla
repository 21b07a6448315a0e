--------------------------- MODULE HostNameRegister ---------------------------
(***************************************************************************)
(* What the OEM LAN parameter for the host name promises its users: a      *)
(* register that a session writes and reads as a whole, as long as nobody  *)
(* else uses it or sets the name meanwhile.  The parameter moves the name  *)
(* in blocks; a write takes effect at once or not at all, and keeps at     *)
(* most MaxStored characters.  A transfer that is disturbed still puts     *)
(* every character in its place.                                           *)
(***************************************************************************)
EXTENDS Integers, Sequences

CONSTANTS Sessions,  \* users of the parameter
          Names,     \* names that are written, here or elsewhere
          Chars,     \* characters of a name, each with its place
          MaxStored  \* longest name a write keeps

VARIABLES name,      \* the host name
          op         \* session -> what it is doing: kind, value, out, alone

regVars == <<name, op>>

Idle == [kind |-> "none", value |-> <<>>, out |-> "none", alone |-> TRUE]

\* A name as a write keeps it.
Stored(n) == SubSeq(n, 1, IF Len(n) <= MaxStored THEN Len(n) ELSE MaxStored)

\* A name in which every character has its place: what a mixture of names is.
Mixed(n) == \A i \in DOMAIN n : n[i] \in Chars /\ n[i].place = i

\* All that are not idle are no longer alone.
Disturbed == [s \in Sessions |-> IF op[s] = Idle THEN Idle ELSE [op[s] EXCEPT !.alone = FALSE]]

Init ==
  /\ name \in Names
  /\ op = [s \in Sessions |-> Idle]

Begin(s, kind, n) ==
  /\ op[s] = Idle
  /\ op' = [Disturbed EXCEPT ![s] =
       [kind |-> kind, value |-> n, out |-> "none", alone |-> \A q \in Sessions : op[q] = Idle]]
  /\ UNCHANGED name

\* The write takes effect; whether its user hears of it is another matter.  One that was
\* disturbed may be repeated with another effect.
Write(s) ==
  /\ op[s].kind = "write"
  /\ Mixed(name') /\ Len(name') <= MaxStored
  /\ op[s].alone => op[s].out = "none" /\ name' = Stored(op[s].value)
  /\ op' = [op EXCEPT ![s].out = "written"]

\* What a read finds.
Read(s) ==
  LET n == op'[s].value IN
  /\ op[s].kind = "read" /\ op[s].out = "none"
  /\ op' = [op EXCEPT ![s].value = n, ![s].out = "read"]
  /\ IF op[s].alone THEN n = name ELSE Mixed(n)
  /\ UNCHANGED name

\* The session is done, with or without success.
End(s) ==
  /\ op[s] # Idle
  /\ op' = [op EXCEPT ![s] = Idle]
  /\ UNCHANGED name

\* The parameter is used, or the name set, by others.
Others ==
  /\ name' = name \/ Mixed(name')
  /\ op' = Disturbed

Next ==
  \/ \E s \in Sessions :
       \/ \E n \in Names : Begin(s, "write", n)
       \/ Begin(s, "read", <<>>) \/ Write(s) \/ Read(s) \/ End(s)
  \/ Others

Spec == Init /\ [][Next]_regVars

=============================================================================
