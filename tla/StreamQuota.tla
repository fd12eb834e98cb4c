----------------------------- MODULE StreamQuota -----------------------------
(***************************************************************************)
(* What the stream governor promises its callers, with no counter, no      *)
(* queues and no permits: each key has a set of open streams, a stream is  *)
(* opened when the process has room, a distinguishable caller at its       *)
(* ceiling trades its oldest stream for the new one, and any stream may    *)
(* close.                                                                  *)
(***************************************************************************)
EXTENDS Naturals, FiniteSets

CONSTANTS Principals, MaxPerPrincipal, MaxTotal, MaxStreams

VARIABLES
  open,    \* key -> the streams it holds
  opened   \* how many streams have been opened so far

quotaVars == <<open, opened>>

AllOpen == UNION {open[k] : k \in DOMAIN open}

Init ==
  /\ open = [k \in {p.key : p \in Principals} |-> {}]
  /\ opened = 0

\* The oldest stream of a set: streams are numbered in the order they open.
Oldest(S) == {i \in S : \A j \in S : i <= j}

Open(p) ==
  /\ opened < MaxStreams
  /\ Cardinality(AllOpen) < MaxTotal
  /\ open' = [open EXCEPT ![p.key] =
       (IF p.distinguishable /\ Cardinality(@) >= MaxPerPrincipal
        THEN @ \ Oldest(@) ELSE @) \cup {opened}]
  /\ opened' = opened + 1

Close(k, i) ==
  /\ i \in open[k]
  /\ open' = [open EXCEPT ![k] = @ \ {i}]
  /\ UNCHANGED opened

Next ==
  \/ \E p \in Principals : Open(p)
  \/ \E k \in DOMAIN open : \E i \in open[k] : Close(k, i)

Spec == Init /\ [][Next]_quotaVars

=============================================================================
