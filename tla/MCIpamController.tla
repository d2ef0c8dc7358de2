-------------------------- MODULE MCIpamController --------------------------
(* Instances of IpamController: addresses of 2 bits in both families.  A    *)
(* Service that requests the address of the first AddressPool set competes  *)
(* for it with a Gateway that takes any; the second set has a pool that     *)
(* does not parse and a sparse IPv6 prefix.                                 *)
EXTENDS IpamController

MCBits == (4 :> 2) @@ (6 :> 2)

V4(n) == [fam |-> 4, n |-> n]
V6(n) == [fam |-> 6, n |-> n]

MCKey == [o \in {"s1", "g1"} |-> o]

MCWant == ("s1" :> [pool |-> "", pin |-> V4(1)]) @@ ("g1" :> [pool |-> "", pin |-> NoAddr])

Served(ip) == [st |-> "live", managed |-> TRUE, fin |-> TRUE, ip |-> ip]
Fresh == [Absent EXCEPT !.st = "live", !.managed = TRUE]

OneEach == ("s1" :> Fresh) @@ ("g1" :> Served(V4(1)))

(* With avoidBuggyIPs the /31 keeps .1 only.                                *)
Small  == [entries |-> <<Cidr(V4(1), 1)>>, avoid |-> TRUE, auto |-> TRUE]
Manual == [entries |-> <<One(V4(2))>>, avoid |-> FALSE, auto |-> FALSE]
Sparse == [entries |-> <<Cidr(V6(1), 0)>>, avoid |-> FALSE, auto |-> TRUE]
Bad    == [entries |-> <<Span(V4(2), V4(1))>>, avoid |-> FALSE, auto |-> TRUE]

MCPoolSets == <<("small" :> Small) @@ ("manual" :> Manual),
                ("small" :> Bad) @@ ("sparse" :> Sparse)>>
=============================================================================
