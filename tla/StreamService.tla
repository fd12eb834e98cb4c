---------------------------- MODULE StreamService ----------------------------
(***************************************************************************)
(* The two SSE routes over the stream governor: the message stream         *)
(* (routes/messages/stream.rs) and the topic analysis (routes/analysis.rs),*)
(* the one-analysis-per-cluster slot (lib.rs) and the shutdown latch.      *)
(*                                                                         *)
(* A request that fails before `acquire`, or is refused by it, changes     *)
(* nothing and is not a step.  From `acquire` on a stream is its id:       *)
(*   admitted   the handler holds the permit, the pump is not spawned;     *)
(*   running    the spawned task is in its select;                         *)
(*   ending     the select has ended, the permits are still held;          *)
(*   slotFreed  an analysis that has dropped its AnalysisPermit;           *)
(*   released   the StreamPermit is dropped.                               *)
(***************************************************************************)
EXTENDS StreamGovernor

CONSTANTS
  Callers,   \* [subject, hop]: who signed in, and the first X-Forwarded-For hop
  Nobody,    \* no subject, or no hop
  Peer,      \* the key of requests that name nobody: the proxy's address
  Clusters

Kinds  == {"messages", "analysis"}
States == {"admitted", "running", "ending", "slotFreed", "released"}

\* Principal::from_request_parts: the forwarded hop, or the peer address.
Forwarded(c) ==
  IF c.hop # Nobody
  THEN [key |-> c.hop, distinguishable |-> TRUE]
  ELSE [key |-> Peer, distinguishable |-> FALSE]

\* The message stream charges a signed-in caller by subject; the analysis
\* charges everyone by what they forwarded.
ChargedTo(kind, c) ==
  IF kind = "messages" /\ c.subject # Nobody
  THEN [key |-> <<"sub", c.subject>>, distinguishable |-> TRUE]
  ELSE Forwarded(c)

ASSUME ChargesAssumption ==
  \A kind \in Kinds, c \in Callers : ChargedTo(kind, c) \in Principals

VARIABLES
  stream,    \* id -> [kind, caller, cluster, state]
  analyses,  \* AppState.analyses: the clusters an analysis is running on
  gone,      \* the live streams whose response has been dropped
  stopping   \* the shutdown latch

serviceVars == <<stream, analyses, gone, stopping>>
vars == <<governorVars, serviceVars>>

Streams == DOMAIN stream
InState(i, s) == i \in Streams /\ stream[i].state = s
Live(i) == i \in Streams /\ stream[i].state # "released"
PermitOf(i) ==
  [id |-> i, principal |-> ChargedTo(stream[i].kind, stream[i].caller).key]

Moves(i, s) == stream' = [stream EXCEPT ![i].state = s]

ServiceInit ==
  /\ Init
  /\ stream = [i \in {} |-> <<>>]
  /\ analyses = {}
  /\ gone = {}
  /\ stopping = FALSE

(***************************************************************************)
(* The handlers                                                            *)
(***************************************************************************)
Open(kind, c, cluster) ==
  /\ Acquire(ChargedTo(kind, c))
  /\ stream' = [i \in Streams \cup {nextId} |->
       IF i = nextId
       THEN [kind |-> kind, caller |-> c, cluster |-> cluster,
             state |-> "admitted"]
       ELSE stream[i]]
  /\ UNCHANGED <<analyses, gone, stopping>>

\* payload_filter() accepted the needle: the pump is spawned.
StartMessages(i) ==
  /\ InState(i, "admitted")
  /\ stream[i].kind = "messages"
  /\ Moves(i, "running")
  /\ UNCHANGED <<governorVars, analyses, gone, stopping>>

\* payload_filter() is a 400, after the permit was taken.
FilterRefused(i) ==
  /\ InState(i, "admitted")
  /\ stream[i].kind = "messages"
  /\ DropPermit(PermitOf(i))
  /\ Moves(i, "released")
  /\ UNCHANGED <<analyses, gone, stopping>>

\* begin_analysis() found the cluster free.
StartAnalysis(i) ==
  /\ InState(i, "admitted")
  /\ stream[i].kind = "analysis"
  /\ stream[i].cluster \notin analyses
  /\ analyses' = analyses \cup {stream[i].cluster}
  /\ Moves(i, "running")
  /\ UNCHANGED <<governorVars, gone, stopping>>

\* Mutant of AnalysisRefused: the early return forgets the stream permit.
AnalysisRefusedLeaks(i) ==
  /\ InState(i, "admitted")
  /\ stream[i].kind = "analysis"
  /\ stream[i].cluster \in analyses
  /\ Moves(i, "released")
  /\ UNCHANGED <<governorVars, analyses, gone, stopping>>

\* begin_analysis() is a 429, after the stream permit was taken.
AnalysisRefused(i) ==
  /\ InState(i, "admitted")
  /\ stream[i].kind = "analysis"
  /\ stream[i].cluster \in analyses
  /\ DropPermit(PermitOf(i))
  /\ Moves(i, "released")
  /\ UNCHANGED <<analyses, gone, stopping>>

Handler(i) ==
  \/ StartMessages(i) \/ FilterRefused(i)
  \/ StartAnalysis(i) \/ AnalysisRefused(i)

(***************************************************************************)
(* The pump task's biased select.  An arm is taken when it is ready and    *)
(* the latches polled before it are not.  (A latch tripped between two     *)
(* polls of one pass is one that trips just after this step.)              *)
(***************************************************************************)
ReaderGone(i) ==
  /\ i \in gone
  /\ Moves(i, "ending")

\* Mutant of ShutdownArm: an analysis does not watch the latch.
ShutdownMissed(i) ==
  /\ i \notin gone
  /\ stopping
  /\ stream[i].kind = "messages"
  /\ Moves(i, "ending")

ShutdownArm(i) ==
  /\ i \notin gone
  /\ stopping
  /\ Moves(i, "ending")

\* Mutant of EvictedArm: a message stream does not watch its eviction.
EvictionMissed(i) ==
  /\ i \notin gone
  /\ ~stopping
  /\ i \in stopped
  /\ stream[i].kind = "analysis"
  /\ Moves(i, "ending")

EvictedArm(i) ==
  /\ i \notin gone
  /\ ~stopping
  /\ i \in stopped
  /\ Moves(i, "ending")

NoLatch(i) == i \notin gone /\ ~stopping /\ i \notin stopped

\* Mutant of LifetimeArm: a message stream has no lifetime.
LifetimeMissed(i) ==
  /\ NoLatch(i)
  /\ FALSE
  /\ Moves(i, "ending")

\* MAX_LIFETIME, which only the message stream's select has.
LifetimeArm(i) ==
  /\ NoLatch(i)
  /\ stream[i].kind = "messages"
  /\ Moves(i, "ending")

\* The pump returned: the window ended, the scan failed, or (an analysis)
\* its deadline passed.
PumpReturns(i) ==
  /\ NoLatch(i)
  /\ Moves(i, "ending")

Latched(i) ==
  /\ InState(i, "running")
  /\ ReaderGone(i) \/ ShutdownArm(i) \/ EvictedArm(i)
  /\ UNCHANGED <<governorVars, analyses, gone, stopping>>

TimesOut(i) ==
  /\ InState(i, "running")
  /\ LifetimeArm(i)
  /\ UNCHANGED <<governorVars, analyses, gone, stopping>>

Finishes(i) ==
  /\ InState(i, "running")
  /\ PumpReturns(i)
  /\ UNCHANGED <<governorVars, analyses, gone, stopping>>

\* drop(analysis_permit)
FreeSlot(i) ==
  /\ InState(i, "ending")
  /\ stream[i].kind = "analysis"
  /\ analyses' = analyses \ {stream[i].cluster}
  /\ Moves(i, "slotFreed")
  /\ UNCHANGED <<governorVars, gone, stopping>>

\* drop(permit) of a message stream, drop(stream_permit) of an analysis.
FreePermit(i) ==
  /\ InState(i, IF i \in Streams /\ stream[i].kind = "analysis" THEN "slotFreed" ELSE "ending")
  /\ DropPermit(PermitOf(i))
  /\ Moves(i, "released")
  /\ gone' = gone \ {i}
  /\ UNCHANGED <<analyses, stopping>>

(***************************************************************************)
(* The world outside                                                       *)
(***************************************************************************)
\* The browser goes away and the server notices: the Receiver is dropped.
ReaderLeaves(i) ==
  /\ Live(i) /\ ~InState(i, "admitted")
  /\ i \notin gone
  /\ gone' = gone \cup {i}
  /\ UNCHANGED <<governorVars, stream, analyses, stopping>>

\* SIGTERM.  Requests already accepted may still open streams after it.
Stop ==
  /\ ~stopping
  /\ stopping' = TRUE
  /\ UNCHANGED <<governorVars, stream, analyses, gone>>

Task(i) ==
  Latched(i) \/ TimesOut(i) \/ Finishes(i) \/ FreeSlot(i) \/ FreePermit(i)

ServiceNext ==
  \/ \E kind \in Kinds, c \in Callers, cluster \in Clusters : Open(kind, c, cluster)
  \/ \E i \in Streams : Handler(i) \/ Task(i) \/ ReaderLeaves(i)
  \/ Stop

\* A handler runs to its end without an await, and a task is polled once a
\* latch it waits on trips; nothing says that a scan ever returns.
ServiceFairness ==
  \A i \in Ids :
    /\ WF_vars(Handler(i))
    /\ WF_vars(Latched(i))
    /\ WF_vars(FreeSlot(i))
    /\ WF_vars(FreePermit(i))

\* What the clock adds: MAX_LIFETIME fires for a message stream, and an
\* analysis passes the deadline inside its pump.
TimersFire ==
  \A i \in Ids :
    /\ WF_vars(TimesOut(i))
    /\ WF_vars(i \in Streams /\ stream[i].kind = "analysis" /\ Finishes(i))

ServiceSafety == ServiceInit /\ [][ServiceNext]_vars
ServiceSpec   == ServiceSafety /\ ServiceFairness

-----------------------------------------------------------------------------
(***************************************************************************)
(* Properties                                                              *)
(***************************************************************************)

\* A permit is held exactly while its handler or its task is alive, under
\* the key the request was charged to: nothing is served uncounted except
\* what was evicted, and no early return or ended task keeps a slot.
TasksHoldPermits == permits = {PermitOf(i) : i \in {j \in Streams : Live(j)}}

\* A stream that was told to stop (evicted, its reader gone, or the process
\* stopping) gives its slots back, however long its scan would have run.
ToldToStopReleases ==
  \A i \in Ids :
    i \in Streams /\ (stopping \/ i \in stopped \/ i \in gone) ~> InState(i, "released")

\* Once the latch trips the process drains: streams admitted after it stop
\* too, and nothing is left holding a permit or a cluster.
DrainCompletes == stopping ~> permits = {} /\ analyses = {}

\* With the timers, every stream gives its slots back even when the server
\* never notices that its reader left.
EveryStreamGivesBack ==
  TimersFire => \A i \in Ids : i \in Streams ~> InState(i, "released")

=============================================================================
