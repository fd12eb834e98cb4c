---------------------------- MODULE Clients_proofs ----------------------------
(***************************************************************************)
(* Proofs about the two clients whose callers share one thing they wait    *)
(* for: the schema registry's probe, for any number of decodes, pages and  *)
(* schemas, and the federated broker token, for any callers, lifetimes,    *)
(* margin and timeout.  The two share no state; each part below is about   *)
(* one of them.                                                            *)
(***************************************************************************)
EXTENDS SchemaRegistry, FederatedToken, TLAPS, FiniteSetTheorems

(***************************************************************************)
(* The schema registry's client: what an outage costs the registry in      *)
(* probes.                                                                 *)
(*                                                                         *)
(* The argument: from the first failed probe of a backoff on nobody gets   *)
(* past `ready`, because the health is not ready and the last outcome not  *)
(* a success until the burst is over.  A failed probe closes the probe for *)
(* the rest of the backoff, and only a straggler that gives up opens it    *)
(* again, which it does once, on leaving.  So the failed probes, those     *)
(* still past `ready` and an open probe together never grow (Budget).      *)
(***************************************************************************)
Past == {e \in Decodes : at[e] \in PastReady}

Outcomes == {"none", "ok", "unreachable", "misconfigured"}

\* A probe may be sent, or is under way, although the backoff has not passed.
Open == IF outcome = "none" THEN 1 ELSE 0

\* Who probes holds the mutex, and had a reason to.
Probers ==
  \A d \in Decodes :
    at[d] = "probing" => holder = d /\ (outcome = "none" \/ (outcome \in Faults /\ rested))

Budget ==
  burst.failed # 0 =>
    /\ health # "ready" /\ outcome # "ok"
    /\ outcome \in Faults => ~rested
    /\ burst.failed + Cardinality(Past) + Open <= 1 + burst.stragglers

SchemaInv ==
  /\ DOMAIN at = Decodes \cup Pages
  /\ outcome \in Outcomes
  /\ burst \in [failed : Nat, stragglers : Nat]
  /\ Probers
  /\ Budget

-----------------------------------------------------------------------------
(***************************************************************************)
(* Sets of stragglers                                                      *)
(***************************************************************************)

LEMMA PastIsFinite == IsFiniteSet(Past) /\ Cardinality(Past) \in Nat
BY ActorsAssumption, FS_Subset, FS_CardinalityType DEF Past

\* Nobody joins the stragglers who was not one.
LEMMA FewerIsLess ==
  ASSUME NEW more, IsFiniteSet(more), NEW fewer \in SUBSET more
  PROVE  /\ Cardinality(fewer) \in Nat /\ Cardinality(more) \in Nat
         /\ Cardinality(fewer) <= Cardinality(more)
BY FS_Subset, FS_CardinalityType

\* What moving one actor does to them.
LEMMA WaitsElsewhere ==
  ASSUME SchemaInv, NEW a \in Decodes \cup Pages, NEW where, Waits(a, where)
  PROVE  /\ DOMAIN at' = Decodes \cup Pages
         /\ at'[a] = where
         /\ \A b \in Decodes \cup Pages : b # a => at'[b] = at[b]
         /\ where \notin PastReady => Past' = Past \ {a}
         /\ a \in Pages \/ at[a] \in PastReady => Past' \subseteq Past
<1>1. /\ DOMAIN at' = Decodes \cup Pages
      /\ at'[a] = where
      /\ \A b \in Decodes \cup Pages : b # a => at'[b] = at[b]
  BY DEF SchemaInv, Waits
<1>2. where \notin PastReady => Past' = Past \ {a}
  BY <1>1 DEF Past
<1>3. a \in Pages \/ at[a] \in PastReady => Past' \subseteq Past
  BY <1>1, ActorsAssumption DEF Past
<1> QED BY <1>1, <1>2, <1>3

(***************************************************************************)
(* Steps                                                                   *)
(***************************************************************************)

\* A step that leaves the probe and the burst alone, with nobody new past
\* `ready` and no success recorded.
LEMMA SpendsNothing ==
  ASSUME SchemaInv,
         UNCHANGED <<outcome, rested, holder, burst>>,
         DOMAIN at' = Decodes \cup Pages,
         burst.failed # 0 => health' # "ready" /\ Past' \subseteq Past,
         \A d \in Decodes : at'[d] = "probing" => at[d] = "probing"
  PROVE  SchemaInv'
<1>1. Probers'
  BY DEF SchemaInv, Probers
<1>2. Budget'
  <2> SUFFICES ASSUME burst.failed # 0 PROVE Budget'
    BY DEF Budget
  <2>1. /\ Cardinality(Past') \in Nat /\ Cardinality(Past) \in Nat
        /\ Cardinality(Past') <= Cardinality(Past)
    BY PastIsFinite, FewerIsLess
  <2>2. Open' = Open /\ Open \in Nat
    BY DEF Open
  <2>3. burst.failed \in Nat /\ burst.stragglers \in Nat
    BY DEF SchemaInv
  <2>4. burst.failed + Cardinality(Past') + Open' <= 1 + burst.stragglers
    BY <2>1, <2>2, <2>3 DEF SchemaInv, Budget
  <2> QED BY <2>4 DEF SchemaInv, Budget
<1> QED BY <1>1, <1>2 DEF SchemaInv

\* The burst is over.
LEMMA QuietIsInBudget ==
  ASSUME burst' = Quiet
  PROVE  Budget' /\ burst' \in [failed : Nat, stragglers : Nat]
BY DEF Budget, Quiet

LEMMA BeginInvariant ==
  ASSUME SchemaInv, NEW d \in Decodes, NEW s \in Schemas, Begin(d, s)
  PROVE  SchemaInv'
<1>1. PICK where \in {"admitted", "queued"} :
        /\ Waits(d, where)
        /\ health # "ready" => where = "queued"
  BY DEF Begin
<1>2. /\ DOMAIN at' = Decodes \cup Pages
      /\ at'[d] = where
      /\ \A b \in Decodes \cup Pages : b # d => at'[b] = at[b]
      /\ where \notin PastReady => Past' = Past \ {d}
  BY <1>1, WaitsElsewhere
<1>3. burst.failed # 0 => health' # "ready" /\ Past' \subseteq Past
  BY <1>1, <1>2 DEF Begin, SchemaInv, Budget, PastReady
<1>4. UNCHANGED <<outcome, rested, holder, burst>>
  BY DEF Begin, probe
<1>5. \A e \in Decodes : at'[e] = "probing" => at[e] = "probing"
  BY <1>1, <1>2
<1> QED BY <1>2, <1>3, <1>4, <1>5, SpendsNothing

LEMMA ReadyInvariant ==
  ASSUME SchemaInv, NEW d \in Decodes, Ready(d)
  PROVE  SchemaInv'
<1>1. CASE TrustProbe(d)
  <2>1. burst.failed = 0
    BY <1>1 DEF TrustProbe, SchemaInv, Budget
  <2>2. /\ Waits(d, "admitted")
        /\ UNCHANGED <<outcome, rested, holder, burst>>
    BY <1>1 DEF TrustProbe, probe
  <2>3. /\ DOMAIN at' = Decodes \cup Pages
        /\ \A e \in Decodes : at'[e] = "probing" => at[e] = "probing"
    BY <2>2, WaitsElsewhere
  <2> QED BY <2>1, <2>2, <2>3, SpendsNothing
<1>2. CASE BackOff(d)
  <2>1. /\ Waits(d, "idle")
        /\ UNCHANGED <<outcome, rested, holder, burst, health>>
    BY <1>2 DEF BackOff, EndsAs, probe
  <2>2. /\ DOMAIN at' = Decodes \cup Pages
        /\ \A e \in Decodes : at'[e] = "probing" => at[e] = "probing"
        /\ Past' \subseteq Past
    BY <2>1, WaitsElsewhere DEF PastReady
  <2>3. burst.failed # 0 => health' # "ready"
    BY <2>1 DEF SchemaInv, Budget
  <2> QED BY <2>1, <2>2, <2>3, SpendsNothing
<1>3. CASE ProbeStarts(d)
  <2>1. /\ Waits(d, "probing") /\ holder = Nobody /\ holder' = d
        /\ UNCHANGED <<outcome, rested, burst, health>>
        /\ outcome = "none" \/ (outcome \in Faults /\ rested)
    BY <1>3 DEF ProbeStarts
  <2>2. /\ DOMAIN at' = Decodes \cup Pages
        /\ at'[d] = "probing"
        /\ \A b \in Decodes \cup Pages : b # d => at'[b] = at[b]
        /\ Past' \subseteq Past
    BY <2>1, WaitsElsewhere DEF PastReady
  <2>3. Probers'
    <3>1. \A e \in Decodes : at[e] # "probing"
      BY <2>1, ActorsAssumption DEF SchemaInv, Probers
    <3> QED BY <2>1, <2>2, <3>1 DEF Probers
  <2>4. Budget'
    <3> SUFFICES ASSUME burst.failed # 0 PROVE Budget'
      BY <2>1 DEF Budget
    <3>1. /\ Cardinality(Past') \in Nat /\ Cardinality(Past) \in Nat
          /\ Cardinality(Past') <= Cardinality(Past)
      BY <2>2, PastIsFinite, FewerIsLess
    <3>2. Open' = Open /\ Open \in Nat
      BY <2>1 DEF Open
    <3>3. burst.failed \in Nat /\ burst.stragglers \in Nat
      BY DEF SchemaInv
    <3>4. burst.failed + Cardinality(Past') + Open' <= 1 + burst.stragglers
      BY <3>1, <3>2, <3>3 DEF SchemaInv, Budget
    <3> QED BY <2>1, <3>4 DEF SchemaInv, Budget
  <2> QED BY <2>1, <2>2, <2>3, <2>4 DEF SchemaInv
<1> QED BY <1>1, <1>2, <1>3 DEF Ready

\* A probe that ends lets go of the mutex; nobody else was probing.
LEMMA OnlyProber ==
  ASSUME SchemaInv, NEW d \in Decodes, at[d] = "probing",
         NEW where \in {"idle", "admitted"}, Waits(d, where)
  PROVE  Probers' /\ DOMAIN at' = Decodes \cup Pages
<1>1. \A e \in Decodes : at[e] = "probing" => e = d
  BY DEF SchemaInv, Probers
<1>2. /\ DOMAIN at' = Decodes \cup Pages
      /\ at'[d] = where
      /\ \A b \in Decodes \cup Pages : b # d => at'[b] = at[b]
  BY WaitsElsewhere
<1> QED BY <1>1, <1>2 DEF Probers

LEMMA ProbeInvariant ==
  ASSUME SchemaInv, NEW d \in Decodes, ProbeSucceeds(d) \/ ProbeFails(d)
  PROVE  SchemaInv'
<1>1. CASE ProbeSucceeds(d)
  <2>1. /\ Probers' /\ DOMAIN at' = Decodes \cup Pages
    BY <1>1, OnlyProber DEF ProbeSucceeds
  <2>2. outcome' \in Outcomes /\ burst' = Quiet
    BY <1>1 DEF ProbeSucceeds, Outcomes
  <2> QED BY <2>1, <2>2, QuietIsInBudget DEF SchemaInv
<1>2. CASE ProbeFails(d)
  <2>1. /\ at[d] = "probing" /\ Waits(d, "idle")
        /\ outcome' \in Faults /\ health' \in Faults /\ rested' = FALSE
    BY <1>2 DEF ProbeFails, EndsAs, Faults
  <2>2. Probers' /\ DOMAIN at' = Decodes \cup Pages
    BY <2>1, OnlyProber
  <2>3. Past' = Past
    <3>1. Past' = Past \ {d} /\ d \notin Past
      BY <2>1, WaitsElsewhere DEF PastReady, Past
    <3> QED BY <3>1
  <2>4. Open' = 0
    BY <2>1 DEF Open, Faults
  <2>5. Cardinality(Past) \in Nat /\ burst.failed \in Nat /\ burst.stragglers \in Nat
    BY PastIsFinite DEF SchemaInv
  <2>6. /\ burst' \in [failed : Nat, stragglers : Nat]
        /\ burst'.failed + Cardinality(Past) <= 1 + burst'.stragglers
    <3>1. CASE burst.failed = 0
      <4>1. burst' = [failed |-> 1, stragglers |-> Cardinality(Past)]
        BY <1>2, <3>1 DEF ProbeFails, Past
      <4> QED BY <2>5, <4>1
    <3>2. CASE burst.failed # 0
      <4>1. burst' = [burst EXCEPT !.failed = burst.failed + 1]
        BY <1>2, <3>2 DEF ProbeFails
      <4>2. burst = [failed |-> burst.failed, stragglers |-> burst.stragglers]
        BY DEF SchemaInv
      <4>3. burst' = [failed |-> burst.failed + 1, stragglers |-> burst.stragglers]
        BY <4>1, <4>2
      <4>4. outcome = "none"
        BY <2>1, <3>2 DEF SchemaInv, Probers, Budget
      <4>5. burst.failed + Cardinality(Past) + 1 <= 1 + burst.stragglers
        BY <3>2, <4>4 DEF SchemaInv, Budget, Open
      <4> QED BY <2>5, <4>3, <4>5
    <3> QED BY <3>1, <3>2
  <2>7. Budget'
    <3>1. health' # "ready" /\ outcome' # "ok" /\ ~rested'
      BY <2>1 DEF Faults
    <3>2. burst'.failed + Cardinality(Past') + Open' <= 1 + burst'.stragglers
      BY <2>3, <2>4, <2>5, <2>6
    <3> QED BY <3>1, <3>2 DEF Budget
  <2> QED BY <2>1, <2>2, <2>6, <2>7 DEF SchemaInv, Outcomes, Faults
<1> QED BY <1>1, <1>2

\* A straggler that gives up opens the probe, if it does, as it leaves.
LEMMA ForgetInvariant ==
  ASSUME SchemaInv, NEW d \in Decodes, Forget(d)
  PROVE  SchemaInv'
<1>1. /\ at[d] = "forgetting" /\ Waits(d, "idle")
      /\ UNCHANGED <<health, holder, burst>>
  BY DEF Forget, EndsAs
<1>2. /\ DOMAIN at' = Decodes \cup Pages
      /\ Past' = Past \ {d} /\ d \in Past
      /\ \A e \in Decodes : at'[e] = "probing" => at[e] = "probing"
  BY <1>1, WaitsElsewhere DEF PastReady, Past
<1>3. CASE UNCHANGED <<outcome, rested>>
  BY <1>1, <1>2, <1>3, SpendsNothing DEF SchemaInv, Budget
<1>4. CASE holder = Nobody /\ outcome' = "none" /\ rested' = TRUE
  <2>1. Probers'
    BY <1>2, <1>4, ActorsAssumption DEF SchemaInv, Probers
  <2>2. Budget'
    <3> SUFFICES ASSUME burst.failed # 0 PROVE Budget'
      BY <1>1 DEF Budget
    <3>1. /\ Cardinality(Past') = Cardinality(Past) - 1
          /\ Cardinality(Past) \in Nat /\ Cardinality(Past') \in Nat
      BY <1>2, PastIsFinite, FS_RemoveElement, FS_Subset, FS_CardinalityType
    <3>2. Open' = 1 /\ Open \in Nat
      BY <1>4 DEF Open
    <3>3. burst.failed \in Nat /\ burst.stragglers \in Nat
      BY DEF SchemaInv
    <3>4. burst.failed + Cardinality(Past) + Open <= 1 + burst.stragglers
      BY DEF SchemaInv, Budget
    <3>5. burst.failed + Cardinality(Past') + Open' <= 1 + burst.stragglers
      BY <3>1, <3>2, <3>3, <3>4
    <3> QED BY <1>1, <1>4, <3>5 DEF SchemaInv, Budget, Faults
  <2> QED BY <1>1, <1>2, <1>4, <2>1, <2>2 DEF SchemaInv, Outcomes
<1> QED BY <1>3, <1>4 DEF Forget

\* Past `ready` a decode moves from await to await, or fails.
LEMMA DecodeInvariant ==
  ASSUME SchemaInv, NEW d \in Decodes,
         \/ Resolve(d) \/ Resolved(d) \/ ResolveFails(d) \/ Labelled(d)
         \/ AskConverter(d) \/ Decoded(d) \/ DecodeFails(d)
  PROVE  SchemaInv'
<1>1. /\ UNCHANGED <<outcome, rested, holder, burst>>
      /\ health' \in {health, "unreachable"}
      /\ at[d] \in PastReady
      /\ at' = at \/ \E where \in PastReady \cup {"idle"} : Waits(d, where)
  BY DEF Resolve, Resolved, ResolveFails, Labelled, AskConverter, Decoded, DecodeFails,
         WentAway, EndsAs, probe, PastReady
<1>2. burst.failed # 0 => health' # "ready"
  BY <1>1 DEF SchemaInv, Budget
<1>3. CASE at' = at
  BY <1>1, <1>2, <1>3, SpendsNothing DEF SchemaInv, Past
<1>4. CASE \E where \in PastReady \cup {"idle"} : Waits(d, where)
  <2>1. PICK where \in PastReady \cup {"idle"} : Waits(d, where)
    BY <1>4
  <2>2. /\ DOMAIN at' = Decodes \cup Pages /\ Past' \subseteq Past
        /\ \A e \in Decodes : at'[e] = "probing" => at[e] = "probing"
    BY <1>1, <2>1, WaitsElsewhere DEF PastReady
  <2> QED BY <1>1, <1>2, <2>2, SpendsNothing
<1> QED BY <1>1, <1>3, <1>4

LEMMA PageInvariant ==
  ASSUME SchemaInv, NEW p \in Pages, PageAsks(p) \/ PageAnswered(p) \/ PageFails(p)
  PROVE  SchemaInv'
<1>1. /\ UNCHANGED <<outcome, rested, holder>>
      /\ \E where \in {"listing", "reading", "idle"} : Waits(p, where)
      /\ \/ burst' = burst /\ health' \in {health, "unreachable"}
         \/ burst' = Quiet
  BY DEF PageAsks, PageAnswered, PageFails, probe
<1>2. /\ DOMAIN at' = Decodes \cup Pages /\ Past' \subseteq Past
      /\ \A e \in Decodes : at'[e] = "probing" => at[e] = "probing"
  BY <1>1, WaitsElsewhere
<1>3. CASE burst' = burst /\ health' \in {health, "unreachable"}
  BY <1>1, <1>2, <1>3, SpendsNothing DEF SchemaInv, Budget
<1>4. CASE burst' = Quiet
  <2>1. Probers'
    BY <1>1, <1>2 DEF SchemaInv, Probers
  <2> QED BY <1>1, <1>2, <1>4, <2>1, QuietIsInBudget DEF SchemaInv
<1> QED BY <1>1, <1>3, <1>4

\* Whoever waits for the converter was past `ready` and still is.
LEMMA ConverterInvariant ==
  ASSUME SchemaInv, NEW s \in Schemas, ConverterAnswers(s)
  PROVE  SchemaInv'
<1>1. UNCHANGED <<outcome, rested, holder, burst, health>>
  BY DEF ConverterAnswers, probe
<1>2. at' = at \/ at' = [a \in DOMAIN at |-> IF a \in Waiting(s) THEN "failed" ELSE at[a]]
  BY DEF ConverterAnswers
<1>3. CASE at' = at
  BY <1>1, <1>3, SpendsNothing DEF SchemaInv, Past, Budget
<1>4. CASE at' = [a \in DOMAIN at |-> IF a \in Waiting(s) THEN "failed" ELSE at[a]]
  <2>1. DOMAIN at' = Decodes \cup Pages
    BY <1>4 DEF SchemaInv
  <2>2. \A d \in Decodes : at'[d] = at[d] \/ (at'[d] = "failed" /\ at[d] = "waiting")
    BY <1>4 DEF SchemaInv, Waiting
  <2>3. Past' \subseteq Past
    BY <2>2 DEF Past, PastReady
  <2>4. \A d \in Decodes : at'[d] = "probing" => at[d] = "probing"
    BY <2>2
  <2> QED BY <1>1, <2>1, <2>3, <2>4, SpendsNothing DEF SchemaInv, Budget
<1> QED BY <1>2, <1>3, <1>4

LEMMA CancelInvariant ==
  ASSUME SchemaInv, NEW a \in Decodes \cup Pages, Cancel(a)
  PROVE  SchemaInv'
<1>1. /\ Waits(a, "idle") /\ UNCHANGED <<health, outcome, rested, burst>>
      /\ holder' = IF holder = a THEN Nobody ELSE holder
  BY DEF Cancel
<1>2. /\ DOMAIN at' = Decodes \cup Pages
      /\ Past' \subseteq Past
      /\ at'[a] = "idle"
      /\ \A b \in Decodes \cup Pages : b # a => at'[b] = at[b]
  BY <1>1, WaitsElsewhere DEF PastReady
<1>3. Probers'
  BY <1>1, <1>2 DEF SchemaInv, Probers
<1>4. Budget'
  <2> SUFFICES ASSUME burst.failed # 0 PROVE Budget'
    BY <1>1 DEF Budget
  <2>1. /\ Cardinality(Past') \in Nat /\ Cardinality(Past) \in Nat
        /\ Cardinality(Past') <= Cardinality(Past)
    BY <1>2, PastIsFinite, FewerIsLess
  <2>2. Open' = Open /\ Open \in Nat
    BY <1>1 DEF Open
  <2>3. burst.failed \in Nat /\ burst.stragglers \in Nat
    BY DEF SchemaInv
  <2>4. burst.failed + Cardinality(Past') + Open' <= 1 + burst.stragglers
    BY <2>1, <2>2, <2>3 DEF SchemaInv, Budget
  <2> QED BY <1>1, <2>4 DEF SchemaInv, Budget
<1> QED BY <1>1, <1>2, <1>3, <1>4 DEF SchemaInv

LEMMA SchemaNextInvariant == SchemaInv /\ [SchemaNext]_vars => SchemaInv'
<1> SUFFICES ASSUME SchemaInv, [SchemaNext]_vars PROVE SchemaInv'
  OBVIOUS
<1>1. ASSUME NEW d \in Decodes,
             (\E s \in Schemas : Begin(d, s)) \/ Ready(d) \/ Decode(d)
      PROVE  SchemaInv'
  BY <1>1, BeginInvariant, ReadyInvariant, ProbeInvariant, ForgetInvariant, DecodeInvariant
     DEF Decode
<1>2. CASE \E p \in Pages : PageAsks(p) \/ PageAnswered(p) \/ PageFails(p)
  BY <1>2, PageInvariant
<1>3. CASE \E a \in Decodes \cup Pages : Cancel(a)
  BY <1>3, CancelInvariant
<1>4. CASE Elapse
  <2>1. Probers'
    BY <1>4 DEF Elapse, SchemaInv, Probers
  <2> QED BY <1>4, <2>1, QuietIsInBudget DEF Elapse, SchemaInv
<1>5. CASE GoesDown \/ ComesUp \/ UNCHANGED vars
  <2>1. UNCHANGED <<outcome, rested, holder, burst, at, health>>
    BY <1>5 DEF GoesDown, ComesUp, vars, probe
  <2> QED BY <2>1, SpendsNothing DEF SchemaInv, Past, Budget
<1>6. CASE \E s \in Schemas : ConverterAnswers(s)
  BY <1>6, ConverterInvariant
<1> QED BY <1>1, <1>2, <1>3, <1>4, <1>5, <1>6 DEF SchemaNext

(***************************************************************************)
(* Theorems                                                                *)
(***************************************************************************)

\* In every behaviour who probes holds the mutex, and a burst of failed
\* probes is paid for by those that were past `ready` at its first.
THEOREM SchemaInvariant == SchemaSpec => []SchemaInv
<1>1. SchemaInit => SchemaInv
  <2> SUFFICES ASSUME SchemaInit PROVE SchemaInv
    OBVIOUS
  <2>1. burst.failed = 0 /\ burst \in [failed : Nat, stragglers : Nat]
    BY DEF SchemaInit, Quiet
  <2>2. DOMAIN at = Decodes \cup Pages /\ \A d \in Decodes : at[d] # "probing"
    BY DEF SchemaInit
  <2> QED BY <2>1, <2>2 DEF SchemaInit, SchemaInv, Budget, Probers, Outcomes
<1> QED BY <1>1, SchemaNextInvariant, PTL DEF SchemaSpec

\* An outage costs the registry one probe per backoff and at most one more
\* for each decode that was past `ready` when the first of them failed.
THEOREM ProbesArePaidFor == SchemaSpec => []StragglersPayForProbes
<1>1. SchemaInv => StragglersPayForProbes
  <2> SUFFICES ASSUME SchemaInv PROVE StragglersPayForProbes
    OBVIOUS
  <2>1. /\ burst.failed \in Nat /\ burst.stragglers \in Nat
        /\ Cardinality(Past) \in Nat /\ Open \in Nat
    BY PastIsFinite DEF SchemaInv, Open
  <2>2. burst.failed # 0 => burst.failed + Cardinality(Past) + Open <= 1 + burst.stragglers
    BY DEF SchemaInv, Budget
  <2> QED BY <2>1, <2>2 DEF StragglersPayForProbes
<1> QED BY <1>1, SchemaInvariant, PTL

(***************************************************************************)
(* The broker token: a token is given out late by at most one exchange,    *)
(* and no caller is given an older token than one that was given before.   *)
(*                                                                         *)
(* Neither is inductive alone.  Both rest on the Mutex being held across   *)
(* the exchange (Queued): the token in hand is then older than any         *)
(* exchange under way, and an answer newer than the exchange it is of.     *)
(***************************************************************************)
Token       == [minted : Nat, life : Nat]
CachedToken == [minted : Nat, life : Nat, refresh : Nat, expires : Nat]
GivenToken  == [minted : Nat, life : Nat, at : Nat]

TokenTypeOK ==
  /\ now \in Nat
  /\ waiting \subseteq Callers
  /\ ahead \in [Callers -> SUBSET Callers]
  /\ exchange \in [Callers -> Nat \cup {None}]
  /\ minted \in [Callers -> Token \cup {None}]
  /\ cached \in CachedToken \cup {None}
  /\ given \in GivenToken \cup {None}

\* Of two callers one is behind the other, and who exchanges holds the Mutex.
Queued ==
  /\ \A c, d \in waiting : c # d => c \in ahead[d] \/ d \in ahead[c]
  /\ \A c \in Callers : Exchanging(c) => HoldsLock(c)

\* An exchange is within its deadline, and is answered with a token minted
\* while it was under way.
InTime(c) ==
  /\ minted[c] # None => Exchanging(c)
  /\ Exchanging(c) =>
       /\ exchange[c] <= now /\ now <= exchange[c] + Timeout
       /\ minted[c] # None => exchange[c] <= minted[c].minted /\ minted[c].minted <= now

\* The token in hand is not believed for longer than its life and an
\* exchange, and is older than any exchange under way.
HandInTime ==
  cached # None =>
    /\ cached.refresh <= cached.expires
    /\ cached.expires <= cached.minted + cached.life + Timeout
    /\ cached.minted <= now
    /\ \A c \in Callers : Exchanging(c) => cached.minted <= exchange[c]

\* What was given last is the token in hand or an older one.
GivenInHand ==
  given # None =>
    /\ cached # None /\ given.minted <= cached.minted
    /\ given.at <= given.minted + given.life + Timeout

Times == (\A c \in Callers : InTime(c)) /\ HandInTime /\ GivenInHand

IInv == TokenTypeOK /\ Queued /\ Times

-----------------------------------------------------------------------------
\* A token is due for a refresh before it ends.
LEMMA UsableIsWithinLife ==
  ASSUME NEW life \in Nat
  PROVE  UsableLifetime(life) \in Nat /\ UsableLifetime(life) <= life
<1>1. (8 * life) \div 10 \in Nat /\ (8 * life) \div 10 <= life
  OBVIOUS
<1>2. life \div 2 \in Nat /\ life \div 2 <= life
  OBVIOUS
<1>3. (IF life < Margin THEN 0 ELSE life - Margin) \in Nat
  BY MarginIsATime
<1> QED
  BY <1>1, <1>2, <1>3 DEF UsableLifetime, Smaller, Larger

\* Only one caller exchanges at a time.
LEMMA OneExchange ==
  ASSUME Queued, NEW c \in Callers, NEW d \in Callers, Exchanging(c), Exchanging(d)
  PROVE  c = d
BY DEF Queued, HoldsLock

\* Whoever leaves the queue, on whatever grounds, leaves it in order.
LEMMA LeaveKeepsOrder ==
  ASSUME TokenTypeOK, Queued, NEW c \in Callers, Leave(c)
  PROVE  /\ waiting' \subseteq Callers
         /\ ahead' \in [Callers -> SUBSET Callers]
         /\ exchange' \in [Callers -> Nat \cup {None}]
         /\ minted' \in [Callers -> Token \cup {None}]
         /\ Queued'
         /\ \A d \in Callers : Exchanging(d)' =>
              d # c /\ Exchanging(d) /\ exchange'[d] = exchange[d] /\ minted'[d] = minted[d]
         /\ \A d \in Callers : minted'[d] # None => d # c /\ minted'[d] = minted[d] /\ exchange'[d] = exchange[d]
<1>1. /\ waiting' \subseteq Callers
      /\ ahead' \in [Callers -> SUBSET Callers]
      /\ exchange' \in [Callers -> Nat \cup {None}]
      /\ minted' \in [Callers -> Token \cup {None}]
  BY DEF TokenTypeOK, Leave
<1>2. \A d \in Callers : Exchanging(d)' =>
        d # c /\ Exchanging(d) /\ exchange'[d] = exchange[d] /\ minted'[d] = minted[d]
  BY DEF TokenTypeOK, Leave, Exchanging
<1>3. \A d, e \in waiting' : d # e => d \in ahead'[e] \/ e \in ahead'[d]
  BY DEF TokenTypeOK, Queued, Leave
<1>4. ASSUME NEW d \in Callers, Exchanging(d)' PROVE HoldsLock(d)'
  BY <1>2, <1>4 DEF TokenTypeOK, Queued, HoldsLock, Leave
<1>5. \A d \in Callers : minted'[d] # None => d # c /\ minted'[d] = minted[d] /\ exchange'[d] = exchange[d]
  BY DEF TokenTypeOK, Leave
<1> QED
  BY <1>1, <1>2, <1>3, <1>4, <1>5 DEF Queued

\* What Times asks of the exchanges and the token in hand outlives a caller's
\* leaving.
LEMMA LeaveKeepsTimes ==
  ASSUME IInv, NEW c \in Callers, Leave(c), UNCHANGED <<now, cached>>
  PROVE  (\A d \in Callers : InTime(d)') /\ HandInTime'
BY LeaveKeepsOrder DEF IInv, Times, InTime, HandInTime, Exchanging

-----------------------------------------------------------------------------
LEMMA Initially == TokenInit => IInv
BY DEF TokenInit, IInv, TokenTypeOK, Queued, Times, InTime, HandInTime, GivenInHand, Exchanging

LEMMA AskKeeps == ASSUME IInv, NEW c \in Callers, Ask(c) PROVE IInv'
<1>1. TokenTypeOK'
  BY DEF IInv, TokenTypeOK, Ask
<1>2. Queued'
  <2>1. \A d, e \in waiting' : d # e => d \in ahead'[e] \/ e \in ahead'[d]
    BY DEF IInv, TokenTypeOK, Queued, Ask
  <2>2. \A d \in Callers : Exchanging(d)' => HoldsLock(d)'
    BY DEF IInv, TokenTypeOK, Queued, Ask, Exchanging, HoldsLock
  <2> QED
    BY <2>1, <2>2 DEF Queued
<1>3. Times'
  BY DEF IInv, Ask, Times, InTime, HandInTime, GivenInHand, Exchanging
<1> QED
  BY <1>1, <1>2, <1>3 DEF IInv

LEMMA ServeKeeps == ASSUME IInv, NEW c \in Callers, ServeCached(c) PROVE IInv'
<1>1. cached \in CachedToken /\ cached # None /\ now < cached.refresh
  BY DEF IInv, TokenTypeOK, ServeCached, Due, CachedToken
<1>2. given' \in GivenToken
  BY <1>1 DEF IInv, TokenTypeOK, ServeCached, Give, CachedToken, GivenToken
<1>3. TokenTypeOK' /\ Queued'
  BY <1>2, LeaveKeepsOrder DEF IInv, TokenTypeOK, ServeCached
<1>4. GivenInHand'
  BY <1>1, TimeoutIsATime
     DEF IInv, TokenTypeOK, Times, HandInTime, GivenInHand, ServeCached, Give, CachedToken
<1> QED
  BY <1>3, <1>4, LeaveKeepsTimes DEF IInv, Times, ServeCached

LEMMA BeginExchangeKeeps == ASSUME IInv, NEW c \in Callers, BeginExchange(c) PROVE IInv'
<1>1. TokenTypeOK'
  BY DEF IInv, TokenTypeOK, BeginExchange
<1>2. Queued'
  BY DEF IInv, TokenTypeOK, Queued, BeginExchange, Exchanging, HoldsLock
<1>3. \A d \in Callers : InTime(d)'
  BY TimeoutIsATime DEF IInv, TokenTypeOK, Times, InTime, BeginExchange, Exchanging
<1>4. HandInTime' /\ GivenInHand'
  BY DEF IInv, TokenTypeOK, Times, HandInTime, GivenInHand, BeginExchange, Exchanging
<1> QED
  BY <1>1, <1>2, <1>3, <1>4 DEF IInv, Times
LEMMA MintKeeps == ASSUME IInv, NEW c \in Callers, Mint(c) PROVE IInv'
<1> PICK life \in Lifetimes : minted' = [minted EXCEPT ![c] = [minted |-> now, life |-> life]]
  BY DEF Mint
<1>1. [minted |-> now, life |-> life] \in Token
  BY LifetimesAreTimes DEF IInv, TokenTypeOK, Token
<1>2. TokenTypeOK'
  BY <1>1 DEF IInv, TokenTypeOK, Mint
<1>3. Queued'
  BY DEF IInv, Queued, Mint, Exchanging, HoldsLock
<1>4. \A d \in Callers : InTime(d)'
  BY <1>1 DEF IInv, TokenTypeOK, Times, InTime, Mint, Exchanging
<1>5. HandInTime' /\ GivenInHand'
  BY DEF IInv, Times, HandInTime, GivenInHand, Mint, Exchanging
<1> QED
  BY <1>2, <1>3, <1>4, <1>5 DEF IInv, Times

\* An answer: it was minted after the exchange began, so after everything that
\* was given before.
LEMMA AnsweredIsNewer ==
  ASSUME IInv, NEW c \in Callers, Answered(c)
  PROVE  /\ minted[c] \in Token /\ minted[c].minted <= now
         /\ now <= minted[c].minted + Timeout
         /\ given # None => given.minted <= minted[c].minted
<1>1. minted[c] \in Token /\ exchange[c] \in Nat /\ Exchanging(c)
  BY DEF IInv, TokenTypeOK, Answered, Exchanging
<1>2. /\ exchange[c] <= minted[c].minted /\ minted[c].minted <= now
      /\ now <= exchange[c] + Timeout
  BY <1>1 DEF IInv, Times, InTime, Answered
<1>3. now <= minted[c].minted + Timeout
  BY <1>1, <1>2, TimeoutIsATime DEF IInv, TokenTypeOK, Token
<1>4. given # None => given.minted <= minted[c].minted
  <2> SUFFICES ASSUME given # None PROVE given.minted <= minted[c].minted
    OBVIOUS
  <2>1. given \in GivenToken /\ cached \in CachedToken /\ cached # None
    BY DEF IInv, TokenTypeOK, Times, GivenInHand
  <2>2. given.minted <= cached.minted /\ cached.minted <= exchange[c]
    BY <1>1, <2>1 DEF IInv, Times, GivenInHand, HandInTime
  <2> QED
    BY <1>1, <1>2, <2>1, <2>2 DEF Token, CachedToken, GivenToken
<1> QED
  BY <1>1, <1>2, <1>3, <1>4

LEMMA AnsweredKeeps == ASSUME IInv, NEW c \in Callers, Answered(c) PROVE IInv'
<1>1. minted[c] \in Token /\ minted[c].minted \in Nat /\ minted[c].life \in Nat /\ now \in Nat
  BY AnsweredIsNewer DEF IInv, TokenTypeOK, Token
<1>2. /\ cached' = Fresh(minted[c]) /\ cached' \in CachedToken
      /\ cached'.refresh <= cached'.expires
      /\ cached'.expires = now + minted[c].life
      /\ cached'.minted = minted[c].minted /\ cached'.life = minted[c].life
  BY <1>1, UsableIsWithinLife DEF Answered, Fresh, CachedToken
<1>3. /\ given' \in GivenToken
      /\ given'.minted = minted[c].minted /\ given'.life = minted[c].life /\ given'.at = now
  BY <1>1 DEF Answered, Give, GivenToken
<1>4. TokenTypeOK' /\ Queued'
  BY <1>1, <1>2, <1>3, LeaveKeepsOrder DEF IInv, TokenTypeOK, Answered
<1>5. \A d \in Callers : ~Exchanging(d)'
  BY LeaveKeepsOrder, OneExchange DEF IInv, Answered
<1>6. \A d \in Callers : InTime(d)'
  <2>1. \A d \in Callers : minted'[d] # None => Exchanging(d)'
    BY LeaveKeepsOrder DEF IInv, Times, InTime, Answered, Exchanging
  <2> QED
    BY <1>5, <2>1 DEF InTime
<1>7. HandInTime'
  BY <1>1, <1>2, <1>5, AnsweredIsNewer, TimeoutIsATime DEF HandInTime, Answered
<1>8. GivenInHand'
  BY <1>1, <1>2, <1>3, AnsweredIsNewer, TimeoutIsATime, NoneIsNothing DEF GivenInHand, CachedToken
<1> QED
  BY <1>4, <1>6, <1>7, <1>8 DEF IInv, Times

LEMMA FailsKeeps == ASSUME IInv, NEW c \in Callers, Fails(c) PROVE IInv'
<1>1. CASE cached # None /\ now < cached.expires
  <2>1. cached \in CachedToken /\ given' = [minted |-> cached.minted, life |-> cached.life, at |-> now]
    BY <1>1 DEF IInv, TokenTypeOK, Fails, FallBack, Give
  <2>2. given' \in GivenToken
    BY <2>1 DEF IInv, TokenTypeOK, CachedToken, GivenToken
  <2>3. TokenTypeOK' /\ Queued'
    BY <2>2, LeaveKeepsOrder DEF IInv, TokenTypeOK, Fails
  <2>4. GivenInHand'
    BY <1>1, <2>1, TimeoutIsATime DEF IInv, TokenTypeOK, Times, HandInTime, GivenInHand, Fails, CachedToken
  <2> QED
    BY <2>3, <2>4, LeaveKeepsTimes DEF IInv, Times, Fails
<1>2. CASE ~(cached # None /\ now < cached.expires)
  <2>1. given' = given
    BY <1>2 DEF Fails, FallBack
  <2>2. TokenTypeOK' /\ Queued'
    BY <2>1, LeaveKeepsOrder DEF IInv, TokenTypeOK, Fails
  <2>3. GivenInHand'
    BY <2>1 DEF IInv, Times, GivenInHand, Fails
  <2> QED
    BY <2>2, <2>3, LeaveKeepsTimes DEF IInv, Times, Fails
<1> QED
  BY <1>1, <1>2

LEMMA DroppedKeeps == ASSUME IInv, NEW c \in Callers, Dropped(c) PROVE IInv'
<1>1. TokenTypeOK' /\ Queued'
  BY LeaveKeepsOrder DEF IInv, TokenTypeOK, Dropped
<1>2. GivenInHand'
  BY DEF IInv, Times, GivenInHand, Dropped
<1> QED
  BY <1>1, <1>2, LeaveKeepsTimes DEF IInv, Times, Dropped

LEMMA TickKeeps == ASSUME IInv, Tick PROVE IInv'
<1>1. TokenTypeOK' /\ Queued'
  BY DEF IInv, TokenTypeOK, Queued, Tick, Exchanging, HoldsLock
<1>2. ASSUME NEW c \in Callers PROVE InTime(c)'
  <2>1. Exchanging(c) => exchange[c] \in Nat /\ now \in Nat /\ now < exchange[c] + Timeout
    BY DEF IInv, TokenTypeOK, Tick, Exchanging, Deadline
  <2>2. Exchanging(c) /\ minted[c] # None => minted[c].minted \in Nat
    BY DEF IInv, TokenTypeOK, Token
  <2> QED
    BY <2>1, <2>2, TimeoutIsATime DEF IInv, Times, InTime, Tick, Exchanging
<1>3. HandInTime' /\ GivenInHand'
  BY DEF IInv, TokenTypeOK, Times, HandInTime, GivenInHand, Tick, Exchanging, CachedToken
<1> QED
  BY <1>1, <1>2, <1>3 DEF IInv, Times

-----------------------------------------------------------------------------
LEMMA StepKeeps == IInv /\ [TokenNext]_tokenVars => IInv'
<1> SUFFICES ASSUME IInv, [TokenNext]_tokenVars PROVE IInv'
  OBVIOUS
<1>1. CASE UNCHANGED tokenVars
  BY <1>1 DEF tokenVars, IInv, TokenTypeOK, Queued, Times, InTime, HandInTime, GivenInHand, Exchanging, HoldsLock
<1>2. CASE Tick
  BY <1>2, TickKeeps
<1>3. ASSUME NEW c \in Callers, Ask(c) \/ CurrentToken(c) \/ Mint(c) \/ Dropped(c) PROVE IInv'
  BY <1>3, AskKeeps, ServeKeeps, BeginExchangeKeeps, AnsweredKeeps, FailsKeeps, MintKeeps, DroppedKeeps DEF CurrentToken
<1> QED
  BY <1>1, <1>2, <1>3 DEF TokenNext

LEMMA Invariance == TokenSpec => []IInv
BY Initially, StepKeeps, PTL DEF TokenSpec

\* The state keeps its type.
THEOREM TokenTypeCorrect == TokenSpec => []TokenTypeOK
BY Invariance, PTL DEF IInv

\* Whatever fails, and however late the issuer answers, a token that a caller
\* is given ended at most one timeout ago by the issuer's count: current_token
\* and the two instants it keeps.
THEOREM GivenInTime == TokenSpec => []LateByTransitOnly
<1>1. IInv => LateByTransitOnly
  BY DEF IInv, Times, GivenInHand, LateByTransitOnly
<1> QED
  BY <1>1, Invariance, PTL

\* No step gives a caller an older token than the last one given: the Mutex
\* held across fetch.
LEMMA StepNotBack ==
  IInv /\ [TokenNext]_tokenVars => [given # None => given.minted <= given'.minted]_tokenVars
<1> SUFFICES ASSUME IInv, TokenNext, given # None PROVE given.minted <= given'.minted
  BY DEF tokenVars
<1>1. given \in GivenToken /\ given.minted <= given.minted
  BY DEF IInv, TokenTypeOK, GivenToken
<1>2. CASE UNCHANGED given
  BY <1>1, <1>2
<1>3. cached # None => given.minted <= cached.minted
  BY DEF IInv, Times, GivenInHand
<1>4. ASSUME NEW c \in Callers, Answered(c) PROVE given.minted <= given'.minted
  BY <1>4, AnsweredIsNewer DEF Answered, Give
<1>5. ASSUME NEW c \in Callers, ServeCached(c) PROVE given.minted <= given'.minted
  BY <1>3, <1>5 DEF ServeCached, Due, Give
<1>6. ASSUME NEW c \in Callers, Fails(c) PROVE given.minted <= given'.minted
  BY <1>1, <1>3, <1>6 DEF Fails, FallBack, Give
<1> QED
  BY <1>2, <1>4, <1>5, <1>6 DEF TokenNext, CurrentToken, Tick, Ask, BeginExchange, Mint, Dropped

\* No caller is given a token older than one given before: what is cached only
\* moves on, and the fall-back is what is cached.
THEOREM TokensNeverGoBack == TokenSpec => NeverBack
BY Invariance, StepNotBack, PTL DEF TokenSpec, NeverBack
===============================================================================
