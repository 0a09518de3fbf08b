----------------------------- MODULE MCFooting -----------------------------
(* A small estate and all hunts of four findings in it.  An instant is five *)
(* minutes.                                                                 *)
EXTENDS Footing, TLC

CONSTANTS
  shell, rerun, tool, script, stray, desktop, office, mail, chat,   \* instances
  alice, bob, desk, server, cloud, sysmon, start,
  agent, oddity, word,   \* process names: a signed product, an impersonated one, an office one
  portal              \* a popular address

FourIds == 1 .. 4
AllInstances == {shell, rerun, tool, script, stray, desktop, office, mail, chat}
BothSchemes == {sysmon, start}
ThreeDevices == {desk, server, cloud}
TwoUsers == {alice, bob}

\* A second run of the shell got the first one's pid.
Slots == [i \in AllInstances |-> IF i = rerun THEN <<desk, shell>> ELSE <<desk, i>>]

By(scheme, i) == [instance |-> i, scheme |-> scheme]
Started(p, q, t) == [process |-> p, parent |-> q, created |-> TRUE, time |-> t, names |-> {alice}]
Seen(p, t, who) == [process |-> p, parent |-> None, created |-> FALSE, time |-> t, names |-> {who}]

Rows ==
  [tool    |-> Started(By(sysmon, tool), By(sysmon, shell), 0),
   script  |-> Started(By(sysmon, script), By(sysmon, rerun), 1),
   stray   |-> Started(By(start, stray), By(None, rerun), 1),
   shell   |-> Started(By(sysmon, shell), None, 0),
   talk    |-> Seen(By(None, rerun), 1, alice),
   flow    |-> Seen(By(None, tool), 2, alice),
   office  |-> Started(By(sysmon, office), By(sysmon, desktop), 0),
   mail    |-> Started(By(sysmon, mail), By(sysmon, desktop), 2),
   chat    |-> Started(By(sysmon, chat), By(sysmon, desktop), 9),
   logon   |-> Seen(None, 0, alice),
   console |-> Seen(None, 2, alice),
   later   |-> Seen(None, 3, bob)]

ThreeNames == {agent, oddity, word}
Office == {word}
OneAddress == {portal}
Estate ==
  agent :> [product |-> TRUE, signers |-> 1, statuses |-> {"valid"}, estate |-> TRUE]
    @@ oddity :> [product |-> TRUE, signers |-> 1, statuses |-> {"valid", "other"}, estate |-> TRUE]
    @@ word :> [product |-> FALSE, signers |-> 1, statuses |-> {"valid"}, estate |-> TRUE]
Reached == [address \in OneAddress |-> [popular |-> TRUE, established |-> TRUE]]
ServerPolls == {<<server, portal>>}

Unremarkable ==
  [parent |-> Absent, process |-> Absent, evasion |-> Absent, download |-> Absent,
   address |-> Absent, contacts |-> 0, tlsOnly |-> FALSE, cleartext |-> FALSE]
Reassuring == [Unremarkable EXCEPT !.parent = agent, !.evasion = "none", !.download = "none"]
ToPortal == [Unremarkable EXCEPT !.address = portal, !.tlsOnly = TRUE]

On(event, rule, device, families, t, metadata) ==
  [rule |-> rule, events |-> {event}, device |-> device, hosts |-> {}, user |-> alice,
   severity |-> 2, first |-> t, last |-> t, families |-> families, metadata |-> metadata]

Templates ==
  << On("tool", 1, desk, {"endpoint"}, 0, Reassuring),
     [On("script", 1, desk, {"endpoint"}, 1, [Reassuring EXCEPT !.evasion = "some"])
        EXCEPT !.events = {"script", "talk"}],
     On("stray", 2, desk, {"endpoint"}, 1, [Reassuring EXCEPT !.parent = oddity]),
     On("shell", 2, desk, {"endpoint"}, 0, [Reassuring EXCEPT !.parent = word]),
     [On("flow", 1, desk, {"network"}, 2, ToPortal) EXCEPT !.user = bob],
     [On("flow", 3, desk, {"network"}, 2, [ToPortal EXCEPT !.contacts = 5]) EXCEPT !.user = bob],
     On("office", 3, desk, {"endpoint"}, 0, Reassuring),
     [On("mail", 2, desk, {"endpoint"}, 2, Reassuring) EXCEPT !.severity = 3],
     [On("logon", 1, desk, {"identity"}, 0, Unremarkable) EXCEPT !.user = bob],
     [On("console", 1, cloud, {"control_plane"}, 2, Unremarkable) EXCEPT !.severity = 4],
     [On("later", 1, server, {"network"}, 13, ToPortal) EXCEPT !.first = 3, !.hosts = {desk}] >>

\* Any four of them, and two that share an id.
FourFindings ==
  { {[id |-> n] @@ Templates[pick[n]] : n \in 1 .. 4} :
      pick \in {q \in [1 .. 4 -> DOMAIN Templates] : \A n \in 1 .. 3 : q[n] <= q[n + 1]} }
  \cup {{[id |-> 1] @@ Templates[1], [id |-> 1] @@ Templates[2]}}

=============================================================================
