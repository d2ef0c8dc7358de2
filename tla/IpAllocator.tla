---------------------------- MODULE IpAllocator -----------------------------
(***************************************************************************)
(* ipam.Allocator (internal/ipam/allocator.go) as operators on its value:   *)
(*   pools      name -> [addrs, prefixes, auto]                             *)
(*   addrOwner  address -> key,   ownerAddr  key -> address                 *)
(* Every method holds a.mu from its first line to its last, so each is one  *)
(* step of whoever calls it.  addrPool only feeds the counts shown in       *)
(* AddressPool.status and is left out.                                      *)
(***************************************************************************)
EXTENDS AddressPools, Functions

CONSTANT NoAddr     \* the empty string where an address may stand

NewAllocator == [pools |-> <<>>, addrOwner |-> <<>>, ownerAddr |-> <<>>]

Put(f, k, v) == [x \in DOMAIN f \cup {k} |-> IF x = k THEN v ELSE f[x]]

Drop(f, k) == Restrict(f, DOMAIN f \ {k})

InPool(spec, ip) == ip \in ToSet(spec.addrs) \/ \E pfx \in spec.prefixes : InPrefix(pfx, ip)


SetPools(a, pools) == [a EXCEPT !.pools = pools]

Taken(a, ip)   == ip \in DOMAIN a.addrOwner
Owns(a, k, ip) == k \in DOMAIN a.ownerAddr /\ a.ownerAddr[k] = ip

commit(a, key, ip) ==
  [a EXCEPT !.addrOwner = Put(@, ip, key), !.ownerAddr = Put(@, key, ip)]


(* Reserve fails, and changes nothing, when another key has the address.    *)
Reserve(a, ip, key) ==
  IF Taken(a, ip) /\ a.addrOwner[ip] # key THEN a ELSE commit(a, key, ip)

Release(a, key) ==
  IF key \notin DOMAIN a.ownerAddr
    THEN a
    ELSE [a EXCEPT !.ownerAddr = Drop(@, key),
                   !.addrOwner = Drop(@, a.ownerAddr[key])]

(* poolFor # "": some pool has the address.                                 *)
Pooled(a, ip) == \E p \in DOMAIN a.pools : InPool(a.pools[p], ip)

candidatePools(a, preferred) ==
  IF preferred # ""
    THEN {preferred} \cap DOMAIN a.pools
    ELSE {p \in DOMAIN a.pools : a.pools[p].auto}

(* allocFromPrefix: a random address other than the network's own that is   *)
(* free; 64 draws that all meet a taken one, or the network's, find none.   *)
FromPrefix(a, pfx) ==
  {ip \in Address : /\ InPrefix(pfx, ip)
                    /\ HostBits(pfx) > 0 => ip # pfx.addr
                    /\ ~Taken(a, ip)}

DrawsMayFail(a, pfx) ==
  HostBits(pfx) > 0 \/ FromPrefix(a, pfx) = {}

Free(a, spec) == SelectSeq(spec.addrs, LAMBDA ip : ~Taken(a, ip))

(* What one pool may give: its first free expanded address, else one drawn  *)
(* from its prefixes.                                                       *)
FromPool(a, spec) ==
  IF Free(a, spec) # <<>>
    THEN {Head(Free(a, spec))}
    ELSE UNION {FromPrefix(a, pfx) : pfx \in spec.prefixes}

PoolMayFail(a, spec) ==
  Free(a, spec) = <<>> /\ \A pfx \in spec.prefixes : DrawsMayFail(a, pfx)

(* Allocate may return an error: the key has no address yet, and the pinned *)
(* one is taken or in no pool, or no candidate pool has one to give.        *)
MayFail(a, key, preferred, pin) ==
  /\ key \notin DOMAIN a.ownerAddr
  /\ IF pin # NoAddr
       THEN Taken(a, pin) \/ ~Pooled(a, pin)
       ELSE \A p \in candidatePools(a, preferred) : PoolMayFail(a, a.pools[p])

(* The addresses Allocate may return.  Candidate pools are tried in the     *)
(* random order of a Go map.                                                *)
Allocate(a, key, preferred, pin) ==
  IF key \in DOMAIN a.ownerAddr
    THEN {a.ownerAddr[key]}
    ELSE IF pin # NoAddr
      THEN {ip \in {pin} : ~Taken(a, ip) /\ Pooled(a, ip)}
      ELSE UNION {FromPool(a, a.pools[p]) : p \in candidatePools(a, preferred)}

(* The allocator after Allocate returned ip.                                *)
Granted(a, key, ip) ==
  IF key \in DOMAIN a.ownerAddr THEN a ELSE commit(a, key, ip)
=============================================================================
