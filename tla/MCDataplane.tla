---------------------------- MODULE MCDataplane ----------------------------
(***************************************************************************)
(* Small instances of Dataplane: two VIPs that share two or three backends *)
(* and a table of five or eight slots, in which one VIP at the larger size *)
(* class leaves room for one at the smaller class only.                    *)
(***************************************************************************)
EXTENDS Dataplane, TLC

CONSTANTS b1, b2, b3

MCVip == {1, 2}
MCWeight == 0 .. 5
MCSizeClasses == <<3, 5>>

\* A table that gives each backend its weight in turns, over and over.
MCBuildTable(weights, m) ==
  LET order == CHOOSE o \in Listings(DOMAIN weights) : TRUE
      upto(i) == FoldFunction(+, 0, [j \in 1 .. i |-> NormalizeWeight(weights[order[j]])])
      total == upto(Len(order))
  IN [s \in 0 .. m - 1 |->
        order[CHOOSE i \in DOMAIN order : upto(i - 1) <= s % total /\ s % total < upto(i)]]

\* A backend, that and another, a third with a weight no table is large enough
\* for, and a spec that needs a tunnel source; three backends for two ids.
KubeSpecs == {b1 :> 1, (b1 :> 1) @@ (b2 :> 1), b3 :> 5, b2 :> 5}
KubeRefused == {b2 :> 5}
KubeSizeClasses == <<2, 3>>

StaticSpecs == {b1 :> 1, (b1 :> 1) @@ (b2 :> 2), b1 :> 5}
StaticConfigs ==
  {1 :> (b1 :> 1),
   1 :> (b1 :> 5),
   1 :> ((b1 :> 1) @@ (b2 :> 2)),
   (1 :> (b1 :> 1)) @@ (2 :> (b1 :> 1)),
   (1 :> ((b1 :> 1) @@ (b2 :> 2))) @@ (2 :> (b1 :> 1))}

=============================================================================
