----------------------------- MODULE MCWorkers -----------------------------
(***************************************************************************)
(* Workers for TLC.                                                        *)
(***************************************************************************)
EXTENDS Workers

\* A level for each sink: one that fails on the way is among them.
MCAlertConfigs == {<<"severe", "off">>, <<"malformed", "all">>}

\* Of two hosts, one answers ARP and is in the NetBIOS cache, and the other answers mDNS.
MCReach == [arp |-> {"a"}, ssdp |-> {}, mdns |-> {"b"}, netbios |-> {"a"}]

\* What is queued, told to stop, started or asked, by number: a finding and a task have
\* one, and 0 is whatever there is one of.  Of two processes, which are interchangeable,
\* it is either.
Pending(i) ==
  \/ Dispatch!Pending(i) \/ Window!Pending(i)
  \/ i = 0 /\ (Service!Stopped \/ Lan!Asked \/ Machine!Quits("p"))

Settled(i) ==
  /\ Dispatch!Settled(i) /\ Window!Settled(i)
  /\ i = 0 => Service!Ended /\ Lan!Answered /\ Machine!Gone("p")

\* All of it comes to an end, in the part that moves; in the others nothing is pending.
\* A queued finding is handled and a stop ends the worker; a reader told to stop ends;
\* every task is answered and the Scan button comes back; a discovery is answered and a
\* process that was told to shut down ends, whatever hangs; and probing resumes.
NothingWaitsForEver ==
  /\ \A i \in 0..MaxItems : Pending(i) ~> Settled(i)
  /\ (focus = "probe" => Prober!ProbingResumes)
=============================================================================
