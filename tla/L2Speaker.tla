------------------------------ MODULE L2Speaker -----------------------------
(***************************************************************************)
(* The L2 speaker (internal/speaker): the nodes elect one leader through a  *)
(* Lease, and only the leader answers ARP and NDP for the NAT VIPs.         *)
(*                                                                          *)
(* The elector (client-go) is external.  A leader that reaches the API      *)
(* renews every RetryPeriod; one that could not for RenewDeadline gives up: *)
(* it releases the lease (ReleaseOnCancel), then cancels lead's context,    *)
(* and Run returns, once and for all.  A candidate takes a lease that is    *)
(* free, its own, or unrenewed for LeaseDuration.  Time is in seconds; all  *)
(* clocks run at the same rate.  arp is what the LAN believes.              *)
(***************************************************************************)
EXTENDS Integers, FiniteSets

CONSTANTS Nodes, Nobody,
          LeaseDuration, RenewDeadline, RetryPeriod,   \* speaker.go's constants
          ReadTimeout                                  \* respondLoop's read deadline

VARIABLES lease,     \* [holder, age]: age is the time since its last renewal
          mode,      \* per node: campaign, lead, release, cancelled, gone
          clock,     \* per node: time since its last renewal, or since the cancel
          reach,     \* nodes that can reach the API server
          freed,     \* nodes that released the lease when they gave up
          arp,       \* address -> the node the LAN sends it to
          trouble    \* outages and restarts still to come

l2Vars == <<lease, mode, clock, reach, freed, arp, trouble>>

L2Init ==
  /\ lease = [holder |-> Nobody, age |-> 0]
  /\ mode = [n \in Nodes |-> "campaign"] /\ clock = [n \in Nodes |-> 0]
  /\ reach = Nodes /\ freed = {} /\ arp = <<>>

Answering(n) == mode[n] \in {"lead", "release", "cancelled"}

(* The elector gets the lease and starts lead, whose announceLoop begins    *)
(* with a round of gratuitous ARP (announceAll, below).                     *)
Acquire(n) ==
  /\ mode[n] = "campaign" /\ n \in reach
  /\ lease.holder \in {Nobody, n} \/ lease.age >= LeaseDuration
  /\ lease' = [holder |-> n, age |-> 0]
  /\ mode' = [mode EXCEPT ![n] = "lead"]
  /\ clock' = [clock EXCEPT ![n] = 0]
  /\ UNCHANGED <<reach, freed, arp, trouble>>

Renew(n) ==
  /\ mode[n] = "lead" /\ n \in reach /\ lease.holder = n
  /\ lease' = [lease EXCEPT !.age = 0]
  /\ clock' = [clock EXCEPT ![n] = 0]
  /\ UNCHANGED <<mode, reach, freed, arp, trouble>>

(* renew returns; release() succeeds if the API answers by then.            *)
GiveUpLease(n) ==
  /\ mode[n] = "lead" /\ clock[n] >= RenewDeadline
  /\ mode' = [mode EXCEPT ![n] = "release"]
  /\ IF n \in reach THEN lease' = [holder |-> Nobody, age |-> 0] /\ freed' = freed \cup {n}
                    ELSE UNCHANGED <<lease, freed>>
  /\ UNCHANGED <<clock, reach, arp, trouble>>

(* Run's deferred cancel: announceLoop ends, respondLoop has a read pending.*)
Cancel(n) ==
  /\ mode[n] = "release"
  /\ mode' = [mode EXCEPT ![n] = "cancelled"]
  /\ clock' = [clock EXCEPT ![n] = 0]
  /\ UNCHANGED <<lease, reach, freed, arp, trouble>>

(* respondLoop's read returns and it sees the cancelled context.            *)
RespondEnds(n) ==
  /\ mode[n] = "cancelled"
  /\ mode' = [mode EXCEPT ![n] = "gone"]
  /\ freed' = freed \ {n}
  /\ UNCHANGED <<lease, clock, reach, arp, trouble>>

\* Gratuitous ARP only for the addresses not announced before.
announceNew(n, vips) ==
  /\ mode[n] \in {"lead", "release"}
  /\ arp' = [a \in vips |-> IF a \in DOMAIN arp THEN arp[a] ELSE n]
  /\ UNCHANGED <<lease, mode, clock, reach, freed, trouble>>

(* announceAll: gratuitous ARP for every NAT VIP, when leading starts, on   *)
(* the ticker and on AnnounceNow.                                           *)
announceAll(n, vips) ==
  /\ mode[n] \in {"lead", "release"}
  /\ arp' = [a \in vips |-> n]
  /\ UNCHANGED <<lease, mode, clock, reach, freed, trouble>>

(* respondLoop answers a request for an address the node owns.              *)
Reply(n, vips) ==
  /\ Answering(n)
  /\ \E a \in vips : arp' = [x \in DOMAIN arp \cup {a} |-> IF x = a THEN n ELSE arp[x]]
  /\ UNCHANGED <<lease, mode, clock, reach, freed, trouble>>

Outage(n) ==
  /\ trouble.outages > 0 /\ n \in reach
  /\ reach' = reach \ {n}
  /\ trouble' = [trouble EXCEPT !.outages = @ - 1]
  /\ UNCHANGED <<lease, mode, clock, freed, arp>>

Heal(n) ==
  /\ n \notin reach /\ reach' = reach \cup {n}
  /\ UNCHANGED <<lease, mode, clock, freed, arp, trouble>>

(* The process dies with its sockets and starts again as the same identity. *)
Dies(n) ==
  /\ mode' = [mode EXCEPT ![n] = "campaign"]
  /\ clock' = [clock EXCEPT ![n] = 0]
  /\ freed' = freed \ {n}
  /\ UNCHANGED <<lease, reach, arp>>

Reboot(n) ==
  /\ trouble.reboots > 0
  /\ trouble' = [trouble EXCEPT !.reboots = @ - 1]
  /\ Dies(n)


(* A node with something to do before time goes on: renew, give up, cancel, *)
(* or end its read.                                                         *)
Hurries(n) ==
  CASE mode[n] = "lead" -> clock[n] >= IF n \in reach THEN RetryPeriod ELSE RenewDeadline
    [] mode[n] = "release" -> TRUE
    [] mode[n] = "cancelled" -> clock[n] >= ReadTimeout
    [] OTHER -> FALSE

Second ==
  /\ \A n \in Nodes : ~Hurries(n)
  /\ lease' = [lease EXCEPT !.age = IF @ < LeaseDuration THEN @ + 1 ELSE @]
  /\ clock' = [n \in Nodes |-> IF mode[n] \in {"lead", "cancelled"} /\ clock[n] < LeaseDuration
                                 THEN clock[n] + 1 ELSE clock[n]]
  /\ UNCHANGED <<mode, reach, freed, arp, trouble>>

Elect(n) == Acquire(n) \/ Renew(n) \/ GiveUpLease(n) \/ Cancel(n) \/ RespondEnds(n)

Time == Second \/ \E n \in Nodes : Elect(n)

L2Next(vips) ==
  \/ Time
  \/ \E n \in Nodes : announceAll(n, vips) \/ Reply(n, vips) \/ Outage(n) \/ Heal(n) \/ Reboot(n)
-----------------------------------------------------------------------------
L2TypeOK ==
  /\ lease.holder \in Nodes \cup {Nobody} /\ lease.age \in 0 .. LeaseDuration
  /\ mode \in [Nodes -> {"campaign", "lead", "release", "cancelled", "gone"}]
  /\ reach \subseteq Nodes /\ freed \subseteq Nodes


(* The LAN ends up sending every VIP to the leader, whatever an old leader  *)
(* answered late, unless every node has left the election for good or is    *)
(* cut off from the API server.                                             *)
Reachable(vips) ==
  \/ \A n \in Nodes : mode[n] = "gone" \/ n \notin reach
  \/ \E n \in Nodes : /\ mode[n] = "lead" /\ lease.holder = n
                      /\ \A a \in vips : a \in DOMAIN arp /\ arp[a] = n
=============================================================================
