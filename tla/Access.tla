------------------------------- MODULE Access -------------------------------
(***************************************************************************)
(* Requests of the browser, each made by whoever its session cookie says:  *)
(* the Caller extractor of auth.rs, the lookups of Fleet, the grants of    *)
(* Policy and the audit of disclosures, while Login goes on.               *)
(*                                                                         *)
(* A question is [kind, env, id, topic, operation, name]; a page (tail,    *)
(* page, one record) is read before it is recorded, a stream or analysis   *)
(* is recorded before it is opened, and both before anything is shown.     *)
(* What a granted write does next is ConnectWrites.                        *)
(***************************************************************************)
EXTENDS Login, Fleet

CONSTANT Questions

ASSUME QuestionsAssumption ==
  \A asked \in Questions : asked.kind \in {"page", "stream", "write", "registry", "connect"}

VARIABLE request

allVars == <<vars, request>>

(***************************************************************************)
(* Who is asking                                                           *)
(***************************************************************************)
\* The Caller extractor: a session's person has no aliases and no groups
\* here, only the role names the login was resolved to.
Caller ==
  IF Live(jar.session)
  THEN [ who    |-> [subject |-> jar.session.who.subject, identifiers |-> {jar.session.who.subject}],
         access |-> AccessForRoles(InForce.roles, InForce.enforcing, jar.session.roles) ]
  ELSE [ who    |-> Anonymous,
         access |-> AccessOf(InForce.roles, InForce.enforcing, Anonymous) ]

(***************************************************************************)
(* What a handler answers before its first await                           *)
(***************************************************************************)
TopicAnswer(caller, asked) ==
  LET found == ClusterFor(caller.access, asked.env, asked.id)
  IN  IF found = {} THEN "not found"
      ELSE IF \A cluster \in found : MayReadTopic(caller.access, cluster, asked.topic)
      THEN "admitted" ELSE "forbidden"

WriteAnswer(caller, asked) ==
  LET found == ConnectFor(caller.access, asked.env, asked.id)
  IN  IF found = {} THEN "not found"
      ELSE LET connect == CHOOSE connect \in found : TRUE
           IN  Authorize(caller.access, caller.who, asked.operation,
                         Target(connect, asked.name), connect.ceiling)

Shown(found) == IF found = {} THEN "not found" ELSE "shown"

AnswerTo(caller, asked) ==
  CASE asked.kind \in {"page", "stream"} -> TopicAnswer(caller, asked)
    [] asked.kind = "write"              -> WriteAnswer(caller, asked)
    [] asked.kind = "registry" -> Shown(RegistryFor(caller.access, asked.env, asked.id))
    [] asked.kind = "connect"  -> Shown(ConnectFor(caller.access, asked.env, asked.id))

\* Who is behind a request: the person of a login whose time is not up, made
\* in the process that is asked; anybody else is nobody.  What the handler
\* takes the caller for is Caller.
Behind ==
  LET session == jar.session
  IN  IF session = Absent THEN Anonymous
      ELSE IF session.epoch = epoch /\ session.until > now THEN session.who ELSE Anonymous

NoRequest == [stage |-> "idle"]

Ask(asked) ==
  /\ request.stage = "idle"
  /\ request' = [ stage |-> AnswerTo(Caller, asked), asked |-> asked, caller |-> Caller.who,
                  behind |-> Behind, epoch |-> epoch, lines |-> {} ]
  /\ UNCHANGED vars

(***************************************************************************)
(* Recording it and sending it                                             *)
(***************************************************************************)
\* Caller::reading: a line names the cluster by its id, not its environment.
Line == [subject |-> request.caller.subject, id |-> request.asked.id, topic |-> request.asked.topic]

\* Mutant of Record: an audit that fails is only logged.
RecordShrugging ==
  /\ request.stage = "admitted"
  /\ \E lines \in {{Line}, {}} : request' = [request EXCEPT !.stage = "disclosed", !.lines = lines]
  /\ UNCHANGED vars

\* record_read: a line written and flushed, or the request fails, whether or
\* not the line got out.
Record ==
  /\ request.stage = "admitted"
  /\ \/ request' = [request EXCEPT !.stage = "disclosed", !.lines = {Line}]
     \/ \E lines \in {{Line}, {}} : request' = [request EXCEPT !.stage = "failed", !.lines = lines]
  /\ UNCHANGED vars

\* Answered, or dropped with its connection.
Done == request.stage # "idle" /\ request' = NoRequest /\ UNCHANGED vars

AccessInit == LoginInit /\ request = NoRequest

\* A restart drops what is being answered with the process.
Cut == IF epoch' = epoch THEN UNCHANGED request ELSE request' = NoRequest

AccessNext ==
  \/ LoginNext /\ Cut
  \/ \E asked \in Questions : Ask(asked)
  \/ Record
  \/ Done

AccessSpec == AccessInit /\ [][AccessNext]_allVars

(***************************************************************************)
(* Properties                                                              *)
(***************************************************************************)
\* What roles give.
Grants(roles, cluster, resource, action, name) ==
  \E role \in roles :
    /\ Selects(role, cluster)
    /\ \E permission \in role.permissions : Covers(permission, resource, action, name)

\* The roles a policy gives somebody, and those that have the name of one: a
\* session carries no more than names, and nothing validates that roles of one
\* policy are named apart.
OwnRoles(policy, who) == {role \in policy.roles : Applies(role, who)}

NamedRoles(policy, who) ==
  {role \in policy.roles : \/ Applies(role, who)
                          \/ /\ who \in People
                             /\ \E own \in OwnRoles(policy, who) : own.name = role.name}

NamedApart(roles) == \A a, b \in roles : a.name = b.name => a = b

AskedFor(asked) == {cluster \in Clusters : cluster.env = asked.env /\ cluster.id = asked.id}

\* Nothing is answered that these roles do not give: payloads are read where one
\* permits that topic; a write is granted to somebody signed in with a role for
\* it, within the ceiling, and never by an open policy; and a request is told it
\* is forbidden, instead of not found, only where they show something.
AnsweredWithin(policy, roles, who, asked, stage) ==
  /\ policy.enforcing /\ stage \in {"admitted", "disclosed", "failed"} =>
       \A cluster \in AskedFor(asked) : Grants(roles, cluster, "topic", "messages_read", asked.topic)
  /\ stage = "granted" =>
       /\ policy.enforcing /\ IsAuthenticated(who)
       /\ \E connect \in Connects :
            LET target == Target(connect, asked.name)
                needed == PermissionFor(asked.operation)
            IN  /\ connect.env = asked.env /\ connect.id = asked.id
                /\ asked.operation \in connect.ceiling
                /\ Grants(roles, target.cluster, needed[1], needed[2], Named(target, needed[1]))
  /\ stage = "forbidden" /\ asked.kind # "write" =>
       \E cluster \in AskedFor(asked), role \in roles : Selects(role, cluster) /\ role.permissions # {}

\* And no payload is refused that these roles do give, nor under an open policy.
NothingIsKeptFrom(policy, roles, asked, stage) ==
  asked.kind \in {"page", "stream"} /\ stage \in {"not found", "forbidden"} =>
    \A cluster \in AskedFor(asked) :
      policy.enforcing /\ ~Grants(roles, cluster, "topic", "messages_read", asked.topic)

\* Every request is answered as the policy this process was started with
\* answers the person behind it, although the session only carries the names of
\* roles, possibly from before a restart: what the person's own roles permit is
\* not refused, nothing is answered beyond the roles that are named like one of
\* theirs, and where no two roles share a name nothing beyond their own.
AnsweredByPolicy ==
  request.stage # "idle" =>
    LET policy == Policies[request.epoch]
        own    == OwnRoles(policy, request.behind)
        within(roles) == AnsweredWithin(policy, roles, request.behind, request.asked, request.stage)
    IN  /\ within(NamedRoles(policy, request.behind))
        /\ NamedApart(policy.roles) => within(own)
        /\ NothingIsKeptFrom(policy, own, request.asked, request.stage)

\* No payload is shown that the audit does not have a line for, with the
\* person behind the request in it.  (In which environment that cluster is,
\* the line does not say.)
DisclosedIsRecorded ==
  request.stage = "disclosed" =>
    \E line \in request.lines :
      /\ line.subject = request.behind.subject
      /\ line.id = request.asked.id /\ line.topic = request.asked.topic
=============================================================================
