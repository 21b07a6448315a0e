---------------------------- MODULE MCPowerControl ----------------------------
(* Small platforms and PATCH bodies for the Power routes.                  *)
EXTENDS PowerControl

Platform(acc, cpu, mem) ==
  [d \in Domains |-> CASE d = pcieDomainId -> acc
                       [] d = cpuDomainId -> cpu
                       [] d = memoryDomainId -> mem]

Power(watts, exception, correction) ==
  [NoEntry EXCEPT !.power = [p \in LimitProps |->
     CASE p = "LimitInWatts" -> watts
       [] p = "LimitException" -> exception
       [] p = "CorrectionInMs" -> correction]]

\* A processor, with or without an accelerator before it.
MCPlatforms == {Platform(<<>>, <<0>>, <<>>), Platform(<<2>>, <<0>>, <<>>)}

MCNames == {root}

\* Bodies that set a limit and its correction time, that reset it, and that are refused
\* for a value or as a whole.
MCEntries ==
  {Power("value", "absent", "value"), [Power("null", "absent", "absent") EXCEPT !.oem = "value"],
   Power("value", "invalid", "absent"), [NoEntry EXCEPT !.reads = FALSE]}

\* Requests only differ in what arrives.
Symmetry == Permutations(Requests)

=============================================================================
