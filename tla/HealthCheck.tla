---------------------------- MODULE HealthCheck ----------------------------
(***************************************************************************)
(* internal/healthcheck with the two parts of rivorad it talks to: the     *)
(* backend ids of the dataplane, and the reconcilers' OnChange, which      *)
(* hands the checker the backends to probe.                                *)
(*                                                                         *)
(* Three kinds of goroutines meet here and no lock spans two of their      *)
(* steps: a reconciler changes the dataplane, reads its targets and passes *)
(* them on; a round of probes runs one goroutine per target and each       *)
(* judges its own result; a transition is reported back to the dataplane   *)
(* after the checker's lock is released.  All of them name a backend by    *)
(* its id, which the dataplane gives to another backend once it is free.   *)
(*                                                                         *)
(* Each worker stands for the VIP it reconciles.  A probe is a TCP connect *)
(* or an HTTP GET: it passes when the backend answers at that moment.      *)
(* IdAlloc's capacity is no limit here.                                    *)
(***************************************************************************)
EXTENDS IdAlloc, FiniteSets, SequencesExt

CONSTANTS
  Backend,                          \* backend names, "addr:port"
  Worker,                           \* reconciler workers, one VIP each
  Specs(_),                         \* the sets of backends a worker's VIP is given
  FailThreshold, SuccessThreshold,
  MaxChanges,                       \* bound: changes of a VIP's backends
  MaxFlips                          \* bound: backends going up or down

ASSUME ThresholdAssumption == FailThreshold \in Nat \ {0} /\ SuccessThreshold \in Nat \ {0}
ASSUME SpecsAssumption ==
  IsFiniteSet(Backend) /\ \A w \in Worker : Specs(w) \subseteq SUBSET Backend

VARIABLES
  \* the dataplane
  vips,       \* worker -> the backends its VIP lists
  bids,       \* backendAlloc
  probed,     \* backendStates, of each entry its name and probeHealthy
  \* the reconcilers
  refresh,    \* worker -> where its OnChange is: [pc, read]
  \* the checker
  targets,    \* the backends to probe: [id, name]
  states,     \* id -> [healthy, consecutive]
  round,      \* the probes under way: [id, name, pc, ok]
  \* the world
  up,         \* backend -> it accepts connections
  \* bookkeeping of the model
  log,        \* id -> the last results judged under it, oldest first
  muddled,    \* an id has changed hands, or an outdated list was installed
  changes, flips

plane == <<vips, bids, probed>>
checker == <<targets, states, log>>
bounds == <<changes, flips>>
vars == <<vips, bids, probed, refresh, targets, states, round, up, log, muddled,
          changes, flips>>

BackendId == 0 .. Cardinality(Backend) - 1
Empty == [x \in {} |-> 0]

\* The orders in which a set can be gone through.
Listings(S) == {s \in [1 .. Cardinality(S) -> S] : Image(s) = S}

Init ==
  /\ vips = [w \in Worker |-> {}]
  /\ bids = NewIds(Cardinality(Backend)) /\ probed = Empty
  /\ refresh = [w \in Worker |-> [pc |-> "idle", read |-> {}]]
  /\ targets = {} /\ states = Empty /\ round = {}
  /\ up = [b \in Backend |-> TRUE]
  /\ log = Empty /\ muddled = FALSE
  /\ changes = 0 /\ flips = 0

-----------------------------------------------------------------------------
(* A reconciler: UpsertVIP or RemoveVIP, then OnChange. *)

\* The dataplane's backends become those of the VIPs in now: what no VIP lists
\* any more is released before what is new is acquired, and starts healthy.
SyncBackends(now) ==
  LET listed == UNION {now[w] : w \in Worker}
      held == DOMAIN bids.ids
  IN \E gone \in Listings(held \ listed), new \in Listings(listed \ held) :
       LET after == FoldLeft(Alloc, FoldLeft(Release, bids, gone), new)
       IN /\ bids' = after
          /\ probed' = [id \in Image(after.ids) |->
                          IF \E b \in listed \cap held : bids.ids[b] = id THEN probed[id]
                          ELSE [name |-> CHOOSE b \in listed : after.ids[b] = id, ok |-> TRUE]]
          /\ muddled' = (muddled \/ after.next < bids.next + Len(new))

\* One reconcile; no backends is no VIP.  OnChange follows unless there was
\* nothing to upsert and nothing to remove.
Reconcile(w, spec) ==
  /\ refresh[w].pc = "idle"
  /\ IF spec = vips[w] THEN UNCHANGED changes
     ELSE changes < MaxChanges /\ changes' = changes + 1
  /\ vips' = [vips EXCEPT ![w] = spec]
  /\ SyncBackends(vips')
  /\ refresh' = [refresh EXCEPT ![w].pc = IF spec \cup vips[w] = {} THEN "idle" ELSE "read"]
  /\ UNCHANGED <<checker, round, up, flips>>

\* plane.Targets()
current == {[id |-> id, name |-> probed[id].name] : id \in DOMAIN probed}

\* onChange reads plane.Targets(), which takes and releases the dataplane's lock.
ReadTargets(w) ==
  /\ refresh[w].pc = "read"
  /\ refresh' = [refresh EXCEPT ![w] = [pc |-> "set", read |-> current]]
  /\ UNCHANGED <<plane, checker, round, up, muddled, bounds>>

\* Mutant: the states of backends that left are kept.
KeepStates(read) ==
  LET ids == {t.id : t \in read} \cup DOMAIN states
      init == [healthy |-> TRUE, consecutive |-> 0]
  IN /\ targets' = read
     /\ states' = [id \in ids |-> IF id \in DOMAIN states THEN states[id] ELSE init]
     /\ log' = [id \in ids |-> IF id \in DOMAIN log THEN log[id] ELSE << >>]

\* SetTargets: a known id keeps its state, a new one starts healthy.
Replace(read) ==
  LET ids == {t.id : t \in read}
      init == [healthy |-> TRUE, consecutive |-> 0]
  IN /\ targets' = read
     /\ states' = [id \in ids |-> IF id \in DOMAIN states THEN states[id] ELSE init]
     /\ log' = [id \in ids |-> IF id \in DOMAIN log THEN log[id] ELSE << >>]

SetTargets(w) ==
  /\ refresh[w].pc = "set"
  /\ Replace(refresh[w].read)
  /\ refresh' = [refresh EXCEPT ![w] = [pc |-> "idle", read |-> {}]]
  /\ muddled' = (muddled \/ refresh[w].read # current)
  /\ UNCHANGED <<plane, round, up, bounds>>

-----------------------------------------------------------------------------
(* A round of probes: probeAll waits for all of them before the next tick. *)

probeAll ==
  /\ round = {} /\ targets # {}
  /\ round' = {[id |-> t.id, name |-> t.name, pc |-> "dial", ok |-> FALSE] : t \in targets}
  /\ UNCHANGED <<plane, refresh, checker, up, muddled, bounds>>

Move(p, q) == round' = (round \ {p}) \cup {q}

probe(p) ==
  /\ p.pc = "dial"
  /\ Move(p, [p EXCEPT !.pc = "judge", !.ok = up[p.name]])
  /\ UNCHANGED <<plane, refresh, checker, up, muddled, bounds>>

Threshold(ok) == IF ok THEN SuccessThreshold ELSE FailThreshold

\* Mutant: a result that agrees does not end the streak.
JudgedStreak(s, ok) ==
  IF ok = s.healthy THEN s
  ELSE IF s.consecutive + 1 >= Threshold(ok) THEN [healthy |-> ok, consecutive |-> 0]
  ELSE [s EXCEPT !.consecutive = @ + 1]

\* A backend's state after one more result.
Judged(s, ok) ==
  IF ok = s.healthy THEN [s EXCEPT !.consecutive = 0]
  ELSE IF s.consecutive + 1 >= Threshold(ok) THEN [healthy |-> ok, consecutive |-> 0]
  ELSE [s EXCEPT !.consecutive = @ + 1]

Longest == IF FailThreshold > SuccessThreshold THEN FailThreshold ELSE SuccessThreshold

\* The last Longest elements of s.
Recent(s) == SubSeq(s, IF Len(s) > Longest THEN Len(s) - Longest + 1 ELSE 1, Len(s))

\* Mutant: the state is compared with itself, so no transition is reported.
probeOneSilent(p) ==
  /\ p.pc = "judge"
  /\ round' = round \ {p}
  /\ IF p.id \in DOMAIN states
     THEN /\ states' = [states EXCEPT ![p.id] = Judged(@, p.ok)]
          /\ log' = [log EXCEPT ![p.id] = Recent(Append(@, p.ok))]
     ELSE UNCHANGED <<states, log>>
  /\ UNCHANGED <<plane, refresh, targets, up, muddled, bounds>>

\* probeOne under the checker's lock; the result of an id that is no longer
\* probed is dropped, a transition is left to be reported.
probeOne(p) ==
  /\ p.pc = "judge"
  /\ IF p.id \in DOMAIN states
     THEN LET s == Judged(states[p.id], p.ok)
          IN /\ states' = [states EXCEPT ![p.id] = s]
             /\ log' = [log EXCEPT ![p.id] = Recent(Append(@, p.ok))]
             /\ IF s.healthy # states[p.id].healthy
                THEN Move(p, [p EXCEPT !.pc = "report", !.ok = s.healthy])
                ELSE round' = round \ {p}
     ELSE round' = round \ {p} /\ UNCHANGED <<states, log>>
  /\ UNCHANGED <<plane, refresh, targets, up, muddled, bounds>>

\* The callback: plane.SetBackendHealth, which ignores an id that is free.
OnChange(p) ==
  /\ p.pc = "report"
  /\ probed' = IF p.id \in DOMAIN probed THEN [probed EXCEPT ![p.id].ok = p.ok] ELSE probed
  /\ round' = round \ {p}
  /\ UNCHANGED <<vips, bids, refresh, checker, up, muddled, bounds>>

-----------------------------------------------------------------------------

\* A backend starts or stops accepting connections.
Flip(b) ==
  /\ flips < MaxFlips /\ flips' = flips + 1
  /\ up' = [up EXCEPT ![b] = ~@]
  /\ UNCHANGED <<plane, refresh, checker, round, muddled, changes>>

Next ==
  \/ \E w \in Worker : ReadTargets(w) \/ SetTargets(w) \/ \E s \in Specs(w) : Reconcile(w, s)
  \/ probeAll
  \/ \E p \in round : probe(p) \/ probeOne(p) \/ OnChange(p)
  \/ \E b \in Backend : Flip(b)

Probing == probeAll \/ \E p \in round : probe(p) \/ probeOne(p) \/ OnChange(p)
Refreshing(w) == ReadTargets(w) \/ SetTargets(w) \/ Reconcile(w, vips[w])

\* The ticker goes on, a probe ends by its timeout, and the informers resync
\* every 30 seconds, which reconciles every Service again, changed or not.
Spec ==
  /\ Init /\ [][Next]_vars
  /\ WF_vars(Probing)
  /\ \A w \in Worker : WF_vars(Refreshing(w))

-----------------------------------------------------------------------------

TargetType == [id : BackendId, name : Backend]

\* Every part has its type; a count never reaches the larger threshold.
TypeOK ==
  /\ vips \in [Worker -> SUBSET Backend]
  /\ DOMAIN probed \subseteq BackendId
  /\ \A id \in DOMAIN probed : probed[id] \in [name : Backend, ok : BOOLEAN]
  /\ refresh \in [Worker -> [pc : {"idle", "read", "set"}, read : SUBSET TargetType]]
  /\ targets \subseteq TargetType
  /\ DOMAIN states \subseteq BackendId /\ DOMAIN log = DOMAIN states
  /\ \A id \in DOMAIN states : states[id] \in [healthy : BOOLEAN, consecutive : 0 .. Longest - 1]
  /\ round \subseteq [id : BackendId, name : Backend, pc : {"dial", "judge", "report"}, ok : BOOLEAN]
  /\ up \in [Backend -> BOOLEAN]

\* The checker's state is well formed (TypeOK), it keeps a state for exactly the ids it probes, and every state is
\* short of its next transition, however refreshes and late results interleave.
StatesOfTargets ==
  /\ TypeOK
  /\ DOMAIN states = {t.id : t \in targets}
  /\ \A id \in DOMAIN states : states[id].consecutive < Threshold(~states[id].healthy)

\* "a single dropped probe doesn't flap a backend out of rotation": a state turns
\* only on as many results in a row as its threshold asks for, the last ones judged
\* under its id, whatever refreshes come between.
TurnsAreEarned ==
  [][\A id \in DOMAIN states \cap DOMAIN states' :
       states[id].healthy # states'[id].healthy =>
         LET n == Threshold(states'[id].healthy)
             l == log'[id]
         IN /\ Len(l) >= n
            /\ \A i \in Len(l) - n + 1 .. Len(l) : l[i] = states'[id].healthy]_vars

Listed(b) == b \in UNION {vips[w] : w \in Worker}
InMaps(b, ok) == Listed(b) /\ probed[bids.ids[b]].ok = ok

\* So long as no id changes hands and no outdated list is installed, a backend that
\* stays listed and stays up, or stays down, is eventually shown so in the maps for
\* good: no interleaving of refreshes, rounds and reports loses the transition.
ProbesReachMaps ==
  \A b \in Backend, ok \in BOOLEAN :
    <>[](Listed(b) /\ up[b] = ok) => <>[](muddled \/ InMaps(b, ok))

-----------------------------------------------------------------------------
(* A statement of the source that the model refutes. *)

\* SetTargets says "Backends start healthy [...]; the first failed probe will take
\* them out".  A listed backend that stays down is eventually marked down.
DeadTakenOut ==
  \A b \in Backend : <>[](Listed(b) /\ ~up[b]) => <>[]InMaps(b, FALSE)

=============================================================================
