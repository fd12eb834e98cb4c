------------------------- MODULE ConnectWrites_proofs -------------------------
(***************************************************************************)
(* Proofs about ConnectWrites, for any requests, readers and values: the   *)
(* state keeps its type, nothing reaches the worker unrecorded, the audit  *)
(* log is true, and the connector list shows the writes it should.         *)
(*                                                                         *)
(* None of the last three is inductive alone.  What a request that is not  *)
(* over may have done (Pending) is what makes the log's truth carry over a *)
(* step, and a list on its way has to be as good as a cached one           *)
(* (EveryListShows) before it may be stored.                               *)
(***************************************************************************)
EXTENDS ConnectWrites, TLAPS

\* A request that is not over has no outcome and no answer, and one that has
\* not reached the writer has sent nothing.
Pending(r) ==
  /\ at[r] # "over" => /\ answer[r] = "none"
                       /\ Worked(r) \notin log
                       /\ Failed(r) \notin log
  /\ at[r] \in {"idle", "preparing", "describing"} => wire[r] = "unsent"

\* NothingSentUnrecorded and LogIsTrue, of one request.
Recorded(r) == wire[r] # "unsent" => Intent(r) \in log

Truthful(r) ==
  /\ Worked(r) \in log => wire[r] = "applied" /\ Failed(r) \notin log
  /\ answer[r] = "done" => Worked(r) \in log
  /\ answer[r] \in {"failed", "unreachable", "unmade"} => Worked(r) \notin log
  /\ answer[r] \in {"denied", "verdict", "unmade", "failed"} => wire[r] \in {"unsent", "refused"}

\* The inductive invariant: one request at a time.
RequestOK(r) == Pending(r) /\ Recorded(r) /\ Truthful(r)

LogInv == WritesTypeOK /\ \A r \in Requests : RequestOK(r)

\* ListShowsWrites, of the lists on their way as well.
ShowsWrites(l) ==
  \A r \in Requests : (wire[r] = "applied" /\ answer[r] = "done") => r \in l.seen \cup l.across

EveryListShows ==
  /\ \A l \in cached : ShowsWrites(l)
  /\ \A x \in Readers : \A l \in reading[x] : ShowsWrites(l)

-----------------------------------------------------------------------------
\* What is recorded is a line of the log, and lines of different requests,
\* phases or verdicts are different.
LEMMA LinesOf ==
  ASSUME NEW r \in Requests
  PROVE  Intent(r) \in Lines /\ Worked(r) \in Lines /\ Failed(r) \in Lines
BY DEF Intent, Worked, Failed, Lines

LEMMA LinesDiffer ==
  ASSUME NEW r \in Requests, NEW q \in Requests
  PROVE  /\ Intent(r) # Worked(q) /\ Intent(r) # Failed(q)
         /\ Worked(r) # Failed(q)
         /\ r # q => /\ Intent(r) # Intent(q)
                    /\ Worked(r) # Worked(q)
                    /\ Failed(r) # Failed(q)
BY DEF Intent, Worked, Failed

\* What sending may come to, and what telling the outcome may.
LEMMA SendMeans ==
  ASSUME NEW r \in Requests, Send(r)
  PROVE  \/ /\ log' = log \cup {Intent(r)}
            /\ wire' = [wire EXCEPT ![r] = "sent"]
            /\ at' = [at EXCEPT ![r] = "sending"]
            /\ answer' = answer
         \/ /\ log' = log \cup {Intent(r)} \/ log' = log \cup {}
            /\ wire' = wire
            /\ at' = [at EXCEPT ![r] = "over"]
            /\ answer' = [answer EXCEPT ![r] = "unmade"]
BY DEF Send, Answer

LEMMA ToldMeans ==
  ASSUME NEW r \in Requests, NEW line, NEW a, Told(r, line, a)
  PROVE  /\ at' = [at EXCEPT ![r] = "over"]
         /\ \/ /\ log' = log \cup {line} \/ log' = log \cup {}
               /\ answer' = [answer EXCEPT ![r] = "unrecorded"]
            \/ /\ log' = log \cup {line}
               /\ answer' = [answer EXCEPT ![r] = a]
BY DEF Told, Answer

\* The initial state has its type.
LEMMA TypeInit == WritesInit => WritesTypeOK
BY WritesAssumption DEF WritesInit, WritesTypeOK, Places, Asks, Keep, Operate, Destroy, Sets, Creates, Answers, Lists, Lines

\* Sending keeps what it touches in its type.
LEMMA SendType ==
  ASSUME WritesTypeOK, NEW r \in Requests, Send(r)
  PROVE  /\ at' \in [Requests -> Places]
         /\ wire' \in [Requests -> {"unsent", "sent", "applied", "refused"}]
         /\ log' \subseteq Lines
         /\ answer' \in [Requests -> Answers]
<1>1. Intent(r) \in Lines
  BY LinesOf
<1>2. CASE /\ log' = log \cup {Intent(r)}
           /\ wire' = [wire EXCEPT ![r] = "sent"]
           /\ at' = [at EXCEPT ![r] = "sending"]
           /\ UNCHANGED answer
  BY <1>1, <1>2 DEF WritesTypeOK, Places
<1>3. CASE /\ log' = log \cup {Intent(r)} \/ log' = log \cup {}
           /\ wire' = wire
           /\ at' = [at EXCEPT ![r] = "over"]
           /\ answer' = [answer EXCEPT ![r] = "unmade"]
  BY <1>1, <1>3 DEF WritesTypeOK, Places, Answers
<1> QED BY <1>2, <1>3, SendMeans

\* So does forgetting the list.
LEMMA InvalidateType ==
  ASSUME WritesTypeOK, NEW r \in Requests, Invalidate(r)
  PROVE  cached' \subseteq Lists /\ reading' \in [Readers -> SUBSET Lists]
BY DEF WritesTypeOK, Invalidate, Lists

\* And a step of perform.
LEMMA PerformType ==
  ASSUME WritesTypeOK, NEW r \in Requests, Perform(r)
  PROVE  WritesTypeOK'
<1>1. CASE Denied(r)
  BY <1>1 DEF WritesTypeOK, Denied, Answer, Places, Answers, listVars
<1>2. CASE Prepared(r)
  BY <1>2, WritesAssumption DEF WritesTypeOK, Prepared, Places, Asks, Keep, Operate, Destroy, Sets, Creates, listVars
<1>3. CASE NotPrepared(r)
  BY <1>3 DEF WritesTypeOK, NotPrepared, Answer, Places, Answers, listVars
<1>4. CASE Described(r)
  <2>1. CASE Send(r)
    BY <1>4, <2>1, SendType DEF WritesTypeOK, Described, listVars
  <2>2. CASE ~Send(r)
    <3>1. cached' = {} \/ cached' = cached
      BY <1>4, <2>2 DEF Described
    <3> QED BY <1>4, <2>2, <3>1 DEF WritesTypeOK, Described, Answer, Places, Answers
  <2> QED BY <2>1, <2>2
<1>5. CASE Answered(r)
  <2>1. PICK line \in {Worked(r), Failed(r)}, a \in {"done", "failed"} : Told(r, line, a)
    BY <1>5 DEF Answered
  <2>2. log' \subseteq Lines /\ at' \in [Requests -> Places] /\ answer' \in [Requests -> Answers]
    BY <2>1, ToldMeans, LinesOf DEF WritesTypeOK, Places, Answers
  <2>3. cached' \subseteq Lists /\ reading' \in [Readers -> SUBSET Lists]
    BY <1>5, InvalidateType DEF Answered
  <2> QED BY <1>5, <2>2, <2>3 DEF WritesTypeOK, Answered
<1>6. CASE TimesOut(r)
  <2>1. log' \subseteq Lines /\ at' \in [Requests -> Places] /\ answer' \in [Requests -> Answers]
    BY <1>6, ToldMeans, LinesOf DEF TimesOut, WritesTypeOK, Places, Answers
  <2>2. cached' \subseteq Lists /\ reading' \in [Readers -> SUBSET Lists]
    BY <1>6, InvalidateType DEF TimesOut, listVars, WritesTypeOK
  <2> QED BY <1>6, <2>1, <2>2 DEF WritesTypeOK, TimesOut
<1>7. CASE Dropped(r)
  BY <1>7 DEF WritesTypeOK, Dropped, Places, listVars
<1>8. ASSUME NEW a \in Asks, Begin(r, a) \/ BeginEdit(r, a) \/ BeginCreate(r, a)
      PROVE  WritesTypeOK'
  <2>1. CASE Begin(r, a)
    BY <2>1, SendType DEF WritesTypeOK, Begin, listVars
  <2>2. CASE BeginEdit(r, a)
    BY <2>2 DEF WritesTypeOK, BeginEdit, Places, listVars
  <2>3. CASE BeginCreate(r, a)
    <3>1. a.value \in Secrets
      BY <2>3 DEF BeginCreate, Asks, Keep, Operate, Destroy, Sets, Creates
    <3> QED BY <2>3, <3>1 DEF WritesTypeOK, BeginCreate, Places, listVars
  <2> QED BY <1>8, <2>1, <2>2, <2>3
<1> QED BY <1>1, <1>2, <1>3, <1>4, <1>5, <1>6, <1>7, <1>8 DEF Perform

\* And every other step.
LEMMA TypeStep == WritesTypeOK /\ [WritesNext]_vars => WritesTypeOK'
<1> SUFFICES ASSUME WritesTypeOK, [WritesNext]_vars
             PROVE  WritesTypeOK'
  OBVIOUS
<1>1. CASE \E r \in Requests : Perform(r)
  BY <1>1, PerformType
<1>2. ASSUME NEW r \in Requests, Applies(r)
      PROVE  WritesTypeOK'
  <2>1. Effect(r) \in Secrets \cup {"gone"}
    BY DEF WritesTypeOK, Effect, Asks, Keep, Operate, Destroy, Sets, Creates
  <2> QED BY <1>2, <2>1 DEF WritesTypeOK, Applies, listVars
<1>3. ASSUME NEW r \in Requests, Refuses(r)
      PROVE  WritesTypeOK'
  BY <1>3 DEF WritesTypeOK, Refuses, listVars
<1>4. ASSUME NEW x \in Readers, Fetch(x) \/ Store(x)
      PROVE  WritesTypeOK'
  BY <1>4 DEF WritesTypeOK, Fetch, Store, Lists, Applied, reqVars
<1>5. CASE Expire
  BY <1>5 DEF WritesTypeOK, Expire, reqVars
<1>6. CASE UNCHANGED vars
  BY <1>6 DEF WritesTypeOK, vars, reqVars, listVars
<1> QED BY <1>1, <1>2, <1>3, <1>4, <1>5, <1>6 DEF WritesNext

\* The state keeps its type, whatever the requests, readers and values.
THEOREM WritesTypeCorrect == WritesSpec => []WritesTypeOK
BY TypeInit, TypeStep, PTL DEF WritesSpec

-----------------------------------------------------------------------------
(***************************************************************************)
(* The audit log.                                                          *)
(***************************************************************************)

\* A request none of whose state a step changes stays as it should be.
LEMMA Undisturbed ==
  ASSUME NEW q \in Requests, RequestOK(q),
         at'[q] = at[q], wire'[q] = wire[q], answer'[q] = answer[q],
         Intent(q) \in log' <=> Intent(q) \in log,
         Worked(q) \in log' <=> Worked(q) \in log,
         Failed(q) \in log' <=> Failed(q) \in log
  PROVE  RequestOK(q)'
BY DEF RequestOK, Pending, Recorded, Truthful, Intent, Worked, Failed

\* Adding lines of one request adds none of another's.
LEMMA OthersLines ==
  ASSUME NEW r \in Requests, NEW q \in Requests, q # r,
         NEW L \in SUBSET {Intent(r), Worked(r), Failed(r)}, log' = log \cup L
  PROVE  /\ Intent(q) \in log' <=> Intent(q) \in log
         /\ Worked(q) \in log' <=> Worked(q) \in log
         /\ Failed(q) \in log' <=> Failed(q) \in log
BY LinesDiffer

\* A step of perform changes one request and adds lines of that request only.
LEMMA PerformChanges ==
  ASSUME WritesTypeOK, NEW r \in Requests, Perform(r)
  PROVE  /\ \A q \in Requests \ {r} :
              at'[q] = at[q] /\ wire'[q] = wire[q] /\ answer'[q] = answer[q]
         /\ \E L \in SUBSET {Intent(r), Worked(r), Failed(r)} : log' = log \cup L
<1>1. Send(r) => /\ \A q \in Requests \ {r} :
                      at'[q] = at[q] /\ wire'[q] = wire[q] /\ answer'[q] = answer[q]
                 /\ log' = log \cup {Intent(r)} \/ log' = log \cup {}
  BY SendMeans DEF WritesTypeOK
<1>2. CASE \E a \in Asks : Begin(r, a)
  BY <1>1, <1>2 DEF Begin
<1>3. CASE Described(r)
  <2>1. CASE Send(r)
    BY <1>1, <2>1
  <2>2. CASE ~Send(r)
    <3>1. log' = log \cup {}
      BY <1>3, <2>2 DEF Described
    <3> QED BY <1>3, <2>2, <3>1 DEF Described, Answer, WritesTypeOK
  <2> QED BY <2>1, <2>2
<1>4. CASE Answered(r) \/ TimesOut(r)
  <2>1. PICK line \in {Worked(r), Failed(r)}, a \in {"done", "failed", "unreachable"} :
          Told(r, line, a)
    BY <1>4 DEF Answered, TimesOut
  <2>2. log' = log \cup {} \/ log' = log \cup {Worked(r)} \/ log' = log \cup {Failed(r)}
    BY <2>1, ToldMeans
  <2>3. \A q \in Requests \ {r} : at'[q] = at[q] /\ answer'[q] = answer[q]
    BY <2>1, ToldMeans DEF WritesTypeOK
  <2> QED BY <1>4, <2>2, <2>3 DEF Answered, TimesOut
<1>5. CASE Denied(r) \/ Prepared(r) \/ NotPrepared(r) \/ Dropped(r)
           \/ \E a \in Asks : BeginEdit(r, a) \/ BeginCreate(r, a)
  <2>1. log' = log \cup {}
    BY <1>5 DEF Denied, Prepared, NotPrepared, Dropped, BeginEdit, BeginCreate
  <2> QED BY <1>5, <2>1 DEF Denied, Prepared, NotPrepared, Dropped, BeginEdit, BeginCreate,
                            Answer, WritesTypeOK
<1> QED BY <1>2, <1>3, <1>4, <1>5 DEF Perform

\* Sending, from a request that has sent nothing.
LEMMA SendRequest ==
  ASSUME WritesTypeOK, NEW r \in Requests, RequestOK(r), at[r] \in {"idle", "describing"}, Send(r)
  PROVE  RequestOK(r)'
<1>1. /\ wire[r] = "unsent" /\ answer[r] = "none"
      /\ Worked(r) \notin log /\ Failed(r) \notin log
  BY DEF RequestOK, Pending
<1>2. Intent(r) # Worked(r) /\ Intent(r) # Failed(r)
  BY LinesDiffer
<1>3. CASE log' = log \cup {Intent(r)} /\ wire' = [wire EXCEPT ![r] = "sent"]
           /\ at' = [at EXCEPT ![r] = "sending"] /\ UNCHANGED answer
  BY <1>1, <1>2, <1>3 DEF RequestOK, Pending, Recorded, Truthful, WritesTypeOK, Intent, Worked, Failed
<1>4. CASE /\ log' = log \cup {Intent(r)} \/ log' = log \cup {}
           /\ wire' = wire
           /\ at' = [at EXCEPT ![r] = "over"]
           /\ answer' = [answer EXCEPT ![r] = "unmade"]
  BY <1>1, <1>2, <1>4 DEF RequestOK, Pending, Recorded, Truthful, WritesTypeOK, Intent, Worked, Failed
<1> QED BY <1>3, <1>4, SendMeans

\* Telling the outcome of a write that has none yet.
LEMMA ToldRequest ==
  ASSUME WritesTypeOK, NEW r \in Requests, RequestOK(r), at[r] = "sending",
         Worked(r) \notin log, Failed(r) \notin log, wire' = wire,
         \/ wire[r] = "applied" /\ Told(r, Worked(r), "done")
         \/ wire[r] = "refused" /\ Told(r, Failed(r), "failed")
         \/ Told(r, Failed(r), "unreachable")
  PROVE  RequestOK(r)'
<1>1. Intent(r) # Worked(r) /\ Intent(r) # Failed(r) /\ Worked(r) # Failed(r)
  BY LinesDiffer
<1>2. ASSUME NEW line \in {Worked(r), Failed(r)}, NEW b,
             log' = log \cup {line} \/ (log' = log \cup {} /\ b = "unrecorded"),
             at' = [at EXCEPT ![r] = "over"],
             answer' = [answer EXCEPT ![r] = b],
             \/ line = Worked(r) /\ wire[r] = "applied" /\ b \in {"done", "unrecorded"}
             \/ line = Failed(r) /\ wire[r] = "refused" /\ b \in {"failed", "unrecorded"}
             \/ line = Failed(r) /\ b \in {"unreachable", "unrecorded"}
      PROVE  RequestOK(r)'
  <2>1. at'[r] = "over" /\ answer'[r] = b
    BY <1>2 DEF WritesTypeOK
  <2>2. Pending(r)'
    BY <2>1 DEF Pending
  <2>3. Recorded(r)'
    BY <1>2 DEF RequestOK, Recorded, Intent
  <2>4. Truthful(r)'
    BY <1>1, <1>2, <2>1 DEF Truthful, Worked, Failed
  <2> QED BY <2>2, <2>3, <2>4 DEF RequestOK
<1>3. CASE wire[r] = "applied" /\ Told(r, Worked(r), "done")
  <2>1. PICK b \in {"done", "unrecorded"} :
          /\ log' = log \cup {Worked(r)} \/ (log' = log \cup {} /\ b = "unrecorded")
          /\ at' = [at EXCEPT ![r] = "over"]
          /\ answer' = [answer EXCEPT ![r] = b]
    BY <1>3, ToldMeans
  <2> QED BY <1>2, <1>3, <2>1
<1>4. CASE wire[r] = "refused" /\ Told(r, Failed(r), "failed")
  <2>1. PICK b \in {"failed", "unrecorded"} :
          /\ log' = log \cup {Failed(r)} \/ (log' = log \cup {} /\ b = "unrecorded")
          /\ at' = [at EXCEPT ![r] = "over"]
          /\ answer' = [answer EXCEPT ![r] = b]
    BY <1>4, ToldMeans
  <2> QED BY <1>2, <1>4, <2>1
<1>5. CASE Told(r, Failed(r), "unreachable")
  <2>1. PICK b \in {"unreachable", "unrecorded"} :
          /\ log' = log \cup {Failed(r)} \/ (log' = log \cup {} /\ b = "unrecorded")
          /\ at' = [at EXCEPT ![r] = "over"]
          /\ answer' = [answer EXCEPT ![r] = b]
    BY <1>5, ToldMeans
  <2> QED BY <1>2, <2>1
<1> QED BY <1>3, <1>4, <1>5

\* Every step of perform leaves its own request as it should be.
LEMMA PerformRequest ==
  ASSUME LogInv, NEW r \in Requests, Perform(r)
  PROVE  RequestOK(r)'
<1> USE DEF LogInv
<1>1. WritesTypeOK /\ RequestOK(r)
  OBVIOUS
<1>2. ASSUME at[r] # "over"
      PROVE  /\ answer[r] = "none" /\ Worked(r) \notin log /\ Failed(r) \notin log
             /\ at[r] # "sending" => wire[r] = "unsent"
  BY <1>1, <1>2 DEF RequestOK, Pending, WritesTypeOK, Places
<1>3. CASE \E a \in Asks : Begin(r, a)
  BY <1>1, <1>3, SendRequest DEF Begin
<1>4. CASE Described(r)
  <2>1. CASE Send(r)
    BY <1>1, <1>4, <2>1, SendRequest DEF Described
  <2>2. ASSUME NEW a \in {"verdict", "failed", "unreachable"}, Answer(r, a), UNCHANGED <<log, wire>>
        PROVE  RequestOK(r)'
    BY <1>1, <1>2, <1>4, <2>2
       DEF Described, RequestOK, Pending, Recorded, Truthful, Answer, WritesTypeOK, Intent, Worked, Failed
  <2> QED BY <1>4, <2>1, <2>2 DEF Described
<1>5. CASE Answered(r)
  <2>1. CASE wire[r] = "applied" /\ Told(r, Worked(r), "done")
    BY <1>1, <1>2, <1>5, <2>1, ToldRequest DEF Answered
  <2>2. CASE wire[r] = "refused" /\ Told(r, Failed(r), "failed")
    BY <1>1, <1>2, <1>5, <2>2, ToldRequest DEF Answered
  <2> QED BY <1>5, <2>1, <2>2 DEF Answered
<1>6. CASE TimesOut(r)
  BY <1>1, <1>2, <1>6, ToldRequest DEF TimesOut
<1>7. CASE Denied(r) \/ NotPrepared(r)
  BY <1>1, <1>2, <1>7
     DEF Denied, NotPrepared, RequestOK, Pending, Recorded, Truthful, Answer, WritesTypeOK, Intent, Worked, Failed
<1>8. CASE Prepared(r) \/ Dropped(r)
  BY <1>1, <1>2, <1>8
     DEF Prepared, Dropped, RequestOK, Pending, Recorded, Truthful, WritesTypeOK, Intent, Worked, Failed
<1>9. CASE \E a \in Asks : BeginEdit(r, a) \/ BeginCreate(r, a)
  BY <1>1, <1>2, <1>9
     DEF BeginEdit, BeginCreate, RequestOK, Pending, Recorded, Truthful, WritesTypeOK, Intent, Worked, Failed
<1> QED BY <1>3, <1>4, <1>5, <1>6, <1>7, <1>8, <1>9 DEF Perform

LEMMA LogInit == WritesInit => LogInv
<1>1. WritesInit => WritesTypeOK
  BY TypeInit
<1>2. ASSUME WritesInit, NEW r \in Requests
      PROVE  RequestOK(r)
  BY <1>2 DEF WritesInit, RequestOK, Pending, Recorded, Truthful
<1> QED BY <1>1, <1>2 DEF LogInv

LEMMA LogStep == LogInv /\ [WritesNext]_vars => LogInv'
<1> SUFFICES ASSUME LogInv, [WritesNext]_vars, NEW q \in Requests
             PROVE  RequestOK(q)'
  BY TypeStep DEF LogInv
<1>0. WritesTypeOK /\ RequestOK(q)
  BY DEF LogInv
<1>1. ASSUME NEW r \in Requests, Perform(r)
      PROVE  RequestOK(q)'
  <2>1. CASE q = r
    BY <1>1, <2>1, PerformRequest
  <2>2. CASE q # r
    BY <1>0, <1>1, <2>2, PerformChanges, OthersLines, Undisturbed
  <2> QED BY <2>1, <2>2
<1>2. ASSUME NEW r \in Requests, Applies(r) \/ Refuses(r)
      PROVE  RequestOK(q)'
  <2>1. CASE q = r
    <3>1. /\ wire[q] = "sent" /\ wire'[q] \in {"applied", "refused"}
          /\ at' = at /\ log' = log /\ answer' = answer
      BY <1>0, <1>2, <2>1 DEF Applies, Refuses, WritesTypeOK
    <3>2. Intent(q) \in log /\ Worked(q) \notin log
      BY <1>0, <3>1 DEF RequestOK, Recorded, Truthful
    <3> QED
      BY <1>0, <3>1, <3>2 DEF RequestOK, Pending, Recorded, Truthful, Intent, Worked, Failed
  <2>2. CASE q # r
    BY <1>0, <1>2, <2>2, Undisturbed DEF Applies, Refuses, WritesTypeOK
  <2> QED BY <2>1, <2>2
<1>3. CASE (\E x \in Readers : Fetch(x) \/ Store(x)) \/ Expire \/ UNCHANGED vars
  BY <1>0, <1>3, Undisturbed DEF Fetch, Store, Expire, vars, reqVars
<1> QED BY <1>1, <1>2, <1>3 DEF WritesNext

LEMMA LogInvariant == WritesSpec => []LogInv
BY LogInit, LogStep, PTL DEF WritesSpec

\* A change that cannot be recorded is not made: whatever reaches the worker
\* has its intent in the log first.
THEOREM SentIsRecorded == WritesSpec => []NothingSentUnrecorded
<1>1. LogInv => NothingSentUnrecorded
  BY DEF LogInv, RequestOK, Recorded, NothingSentUnrecorded
<1> QED BY <1>1, LogInvariant, PTL

\* The audit log is true, and so is what the callers are told of it.
THEOREM AuditIsTrue == WritesSpec => []LogIsTrue
<1>1. LogInv => LogIsTrue
  BY DEF LogInv, RequestOK, Truthful, LogIsTrue
<1> QED BY <1>1, LogInvariant, PTL

-----------------------------------------------------------------------------
(***************************************************************************)
(* The connector list.                                                     *)
(***************************************************************************)

ListInv == LogInv /\ EveryListShows

\* A list goes on showing the writes it should as long as no further write is
\* answered as done.
LEMMA StillShows ==
  ASSUME NEW l, ShowsWrites(l),
         \A q \in Requests : (wire'[q] = "applied" /\ answer'[q] = "done")
                               => wire[q] = "applied" /\ answer[q] = "done"
  PROVE  ShowsWrites(l)'
BY DEF ShowsWrites

\* Forgetting the list leaves no cached one, and marks those on their way.
LEMMA InvalidateMarks ==
  ASSUME WritesTypeOK, NEW r \in Requests, Invalidate(r)
  PROVE  /\ cached' = {}
         /\ \A x \in Readers : \A m \in reading'[x] : \E l \in reading[x] :
              m.seen = l.seen /\ m.across = l.across \cup {r}
<1>1. ASSUME NEW x \in Readers, NEW m \in reading'[x]
      PROVE  \E l \in reading[x] : m.seen = l.seen /\ m.across = l.across \cup {r}
  <2>1. reading'[x] = {[l EXCEPT !.across = @ \cup {r}] : l \in reading[x]}
    BY DEF Invalidate
  <2>2. PICK l \in reading[x] : m = [l EXCEPT !.across = @ \cup {r}]
    BY <1>1, <2>1
  <2>3. l \in Lists
    BY <2>2 DEF WritesTypeOK
  <2> QED BY <2>2, <2>3 DEF Lists
<1> QED BY <1>1 DEF Invalidate

\* So an answered write shows where it has to.
LEMMA AnsweredShows ==
  ASSUME ListInv, NEW r \in Requests, Invalidate(r),
         \A q \in Requests \ {r} : wire'[q] = wire[q] /\ answer'[q] = answer[q]
  PROVE  EveryListShows'
<1>1. cached' = {}
  BY InvalidateMarks DEF ListInv, LogInv
<1>2. ASSUME NEW x \in Readers, NEW m \in reading'[x]
      PROVE  ShowsWrites(m)'
  <2>1. PICK l \in reading[x] : m.seen = l.seen /\ m.across = l.across \cup {r}
    BY <1>2, InvalidateMarks DEF ListInv, LogInv
  <2>2. ShowsWrites(l)
    BY <2>1 DEF ListInv, EveryListShows
  <2> QED BY <2>1, <2>2 DEF ShowsWrites
<1> QED BY <1>1, <1>2 DEF EveryListShows

LEMMA ListStep == ListInv /\ [WritesNext]_vars => ListInv'
<1> SUFFICES ASSUME ListInv, [WritesNext]_vars
             PROVE  EveryListShows'
  BY LogStep DEF ListInv
<1>0. WritesTypeOK /\ \A r \in Requests : RequestOK(r)
  BY DEF ListInv, LogInv
<1>1. ASSUME cached' \subseteq cached, reading' = reading,
             \A q \in Requests : (wire'[q] = "applied" /\ answer'[q] = "done")
                                   => wire[q] = "applied" /\ answer[q] = "done"
      PROVE  EveryListShows'
  BY <1>1, StillShows DEF ListInv, EveryListShows
<1>2. ASSUME NEW r \in Requests, Perform(r)
      PROVE  EveryListShows'
  <2>1. CASE Invalidate(r)
    BY <1>0, <1>2, <2>1, AnsweredShows, PerformChanges
  <2>2. CASE ~Invalidate(r)
    <3>1. cached' \subseteq cached /\ reading' = reading
      BY <1>2, <2>2 DEF Perform, Denied, Prepared, NotPrepared, Described, Answered, TimesOut,
                        Dropped, Begin, BeginEdit, BeginCreate, listVars
    <3>2. answer'[r] = "done" => answer[r] = "done"
      <4>1. Send(r) => answer'[r] # "done" \/ answer'[r] = answer[r]
        BY <1>0, SendMeans DEF WritesTypeOK
      <4>2. TimesOut(r) => answer'[r] # "done"
        BY <1>0, ToldMeans DEF TimesOut, WritesTypeOK
      <4>3. Described(r) /\ ~Send(r) => answer'[r] # "done"
        BY <1>0 DEF Described, Answer, WritesTypeOK
      <4>4. Denied(r) \/ NotPrepared(r) => answer'[r] # "done"
        BY <1>0 DEF Denied, NotPrepared, Answer, WritesTypeOK
      <4>5. ~Answered(r)
        BY <2>2 DEF Answered
      <4>6. (Prepared(r) \/ Dropped(r) \/ \E a \in Asks : BeginEdit(r, a) \/ BeginCreate(r, a))
              => answer' = answer
        BY DEF Prepared, Dropped, BeginEdit, BeginCreate
      <4>7. (\E a \in Asks : Begin(r, a)) => Send(r)
        BY DEF Begin
      <4> QED BY <1>2, <4>1, <4>2, <4>3, <4>4, <4>5, <4>6, <4>7 DEF Perform
    <3>3. answer[r] = "done" => wire[r] = "applied"
      BY <1>0 DEF RequestOK, Truthful
    <3>4. ASSUME NEW q \in Requests, wire'[q] = "applied", answer'[q] = "done"
          PROVE  wire[q] = "applied" /\ answer[q] = "done"
      BY <1>0, <1>2, <3>2, <3>3, <3>4, PerformChanges
    <3> QED BY <1>1, <3>1, <3>4
  <2> QED BY <2>1, <2>2
<1>3. ASSUME NEW r \in Requests, Applies(r) \/ Refuses(r)
      PROVE  EveryListShows'
  <2>1. wire[r] = "sent" /\ UNCHANGED <<cached, reading>> /\ answer' = answer
        /\ \A q \in Requests \ {r} : wire'[q] = wire[q]
    BY <1>0, <1>3 DEF Applies, Refuses, WritesTypeOK, listVars
  <2>2. answer[r] # "done"
    BY <1>0, <2>1 DEF RequestOK, Truthful
  <2> QED BY <1>1, <2>1, <2>2
<1>4. ASSUME NEW x \in Readers, Fetch(x)
      PROVE  EveryListShows'
  <2>1. \A l \in reading'[x] : ShowsWrites(l)'
    BY <1>0, <1>4 DEF Fetch, Applied, ShowsWrites, reqVars, WritesTypeOK
  <2>2. ASSUME NEW y \in Readers \ {x}
        PROVE  \A l \in reading'[y] : ShowsWrites(l)'
    BY <1>0, <1>4, <2>2, StillShows DEF Fetch, ListInv, EveryListShows, reqVars, WritesTypeOK
  <2>3. cached' = {}
    BY <1>4 DEF Fetch
  <2> QED BY <2>1, <2>2, <2>3 DEF EveryListShows
<1>5. ASSUME NEW x \in Readers, Store(x)
      PROVE  EveryListShows'
  <2>1. \A l \in reading[x] : ShowsWrites(l)'
    BY <1>5, StillShows DEF Store, ListInv, EveryListShows, reqVars
  <2>2. \A y \in Readers : \A l \in reading'[y] : ShowsWrites(l)'
    BY <1>0, <1>5, StillShows DEF Store, ListInv, EveryListShows, reqVars, WritesTypeOK
  <2> QED BY <1>5, <2>1, <2>2 DEF Store, EveryListShows
<1>6. CASE Expire
  BY <1>6, StillShows DEF Expire, ListInv, EveryListShows, reqVars
<1>7. CASE UNCHANGED vars
  BY <1>1, <1>7 DEF vars, reqVars, listVars
<1> QED BY <1>2, <1>3, <1>4, <1>5, <1>6, <1>7 DEF WritesNext

\* A cached list shows every write answered as done that did not cross it.
THEOREM ListIsCurrent == WritesSpec => []ListShowsWrites
<1>1. WritesInit => ListInv
  BY LogInit DEF WritesInit, ListInv, EveryListShows
<1>2. ListInv => ListShowsWrites
  BY DEF ListInv, EveryListShows, ShowsWrites, ListShowsWrites, Applied
<1> QED BY <1>1, <1>2, ListStep, PTL DEF WritesSpec

=============================================================================
