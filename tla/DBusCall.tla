------------------------------ MODULE DBusCall ------------------------------
(***************************************************************************)
(* DBusCallTool::call (src/tools/dbustools.cpp), with what it goes through *)
(* of DBusBridge::callMethod (src/dbus/dbusbridge.cpp) and resolveMethod   *)
(* (src/dbus/interfaceresolver.cpp): one dbus_call on a worker, against a  *)
(* bus where names change hands, and services change what they declare or  *)
(* stop answering, between two round trips.                                *)
(*                                                                         *)
(* What a service answers to an introspection is the set of interfaces     *)
(* that declare the method, any set at any time; an error is the empty one.*)
(***************************************************************************)
EXTENDS CallPolicy, Sequences

CONSTANTS
    PolicyChoices,   \* the policies the bridge may be started with
    MaxChanges       \* bound: changes of the bus during the call

ASSUME CallAssumption ==
    /\ PolicyChoices \subseteq Policies
    /\ MaxChanges \in Nat

VARIABLES
    owner,      \* the bus: the owner of each name
    changes,    \* how often the bus changed
    moved,      \* history: since the first look-up, the bus changed or gave no answer
    policy,     \* m_policy
    asked,      \* the arguments: bus, service, interface, method
    pc,         \* where the worker is
    target,     \* the CallTarget the policy judges
    seen,       \* the owners found by the evaluation
    looked,     \* the names looked up by it
    decision,   \* what the policy decided, "none" before that
    audit,      \* the audit lines
    sent,       \* the method call, or NoMessage
    contacted,  \* history: some message was sent to the destination
    timeouts,   \* history: round trips that lasted the whole timeout
    result      \* "none", "ok" or why the call failed

busVars == <<owner, changes, moved>>
callVars == <<policy, asked, pc, target, seen, looked, decision, audit, sent,
              contacted, timeouts, result>>
vars == <<busVars, callVars>>

\* A method call: the interface it carries, the names of the connection the bus
\* delivers it to, and whether the bus is as the evaluation found it.
Messages == [interface : Interfaces \cup {NoInterface}, names : SUBSET Names, stable : BOOLEAN]
NoMessage == [interface |-> NoInterface, names |-> {}, stable |-> FALSE, none |-> TRUE]

Lines == [rule : {"allow", "deny"}, interface : Interfaces \cup {NoInterface}]

\* The refusing rules for which matches() has to see through the names.
Candidates ==
    {g \in policy.deny \cup policy.builtin :
        /\ DestinationAllowed(policy, target.bus, target.service)
        /\ g.literal /\ target.service \notin g.services
        /\ target.method \in g.methods
        /\ InterfaceMatches(g, target.interface, TRUE)}

\* The names the evaluation looks up; when a rule decides before the last of them
\* is needed, its answer is of no consequence.
AskedNames ==
    IF Candidates = {} THEN {}
    ELSE {target.service} \cup UNION {g.services : g \in Candidates}

Init ==
    /\ owner \in {o \in Owners : \A c \in Connections : o[c] = c}
    /\ changes = 0
    /\ moved = FALSE
    /\ policy \in PolicyChoices
    /\ asked \in Targets
    /\ pc = "start"
    /\ target = asked
    /\ seen = [n \in Names |-> NoOwner]
    /\ looked = {}
    /\ decision = "none"
    /\ audit = <<>>
    /\ sent = NoMessage
    /\ contacted = FALSE
    /\ timeouts = 0
    /\ result = "none"

Fails(why) == pc' = "done" /\ result' = why

-----------------------------------------------------------------------------
(* The bus. *)

Change ==
    /\ pc # "done"
    /\ changes < MaxChanges
    /\ changes' = changes + 1
    /\ moved' = (moved \/ looked # {})
    /\ UNCHANGED callVars

\* A connection takes a well-known name, from another one perhaps.
Acquire(n, c) ==
    /\ Change
    /\ owner[c] = c
    /\ owner' = [owner EXCEPT ![n] = c]

\* A connection is closed, with all its names.
Disconnect(c) ==
    /\ Change
    /\ owner' = [n \in Names |-> IF owner[n] = c THEN NoOwner ELSE owner[n]]

-----------------------------------------------------------------------------
(* DBusCallTool::call. *)

\* An argument is missing or malformed.
BadArguments ==
    /\ pc = "start"
    /\ Fails("arguments")
    /\ UNCHANGED <<busVars, policy, asked, target, seen, looked, decision, audit,
                   sent, contacted, timeouts>>

\* Mutant of NeedsResolving: the destination is contacted before it is judged.
ResolvesAlways == target.interface = NoInterface

\* Without an interface, the destination is introspected first; one that the
\* policy refuses whatever the interface is not contacted at all.
NeedsResolving ==
    /\ target.interface = NoInterface
    /\ DestinationAllowed(policy, target.bus, target.service)

Begin ==
    /\ pc = "start"
    /\ pc' = IF NeedsResolving THEN "resolve" ELSE "lookup"
    /\ contacted' = NeedsResolving
    /\ UNCHANGED <<busVars, policy, asked, target, seen, looked, decision, audit,
                   sent, timeouts, result>>

\* resolveMethod(): the interface of its own a call gets from introspection data
\* that declare the method in those of D; none when they are not exactly one.
Resolution(i, D) ==
    LET candidates == IF i = NoInterface THEN D ELSE D \cap {i} IN
    IF \E j \in Interfaces : candidates = {j}
    THEN CHOOSE j \in Interfaces : candidates = {j}
    ELSE i

Resolve(D) ==
    /\ pc = "resolve"
    /\ target' = [target EXCEPT !.interface = Resolution(NoInterface, D)]
    /\ pc' = "lookup"
    /\ UNCHANGED <<busVars, policy, asked, seen, looked, decision, audit, sent,
                   contacted, timeouts, result>>

\* Mutant of ResolveTimesOut: a hung service is taken for one without data.
ResolveGoesOn ==
    /\ pc = "resolve"
    /\ pc' = "lookup"
    /\ timeouts' = timeouts + 1
    /\ UNCHANGED <<busVars, policy, asked, target, seen, looked, decision, audit,
                   sent, contacted, result>>

ResolveTimesOut ==
    /\ pc = "resolve"
    /\ timeouts' = timeouts + 1
    /\ Fails("no reply")
    /\ UNCHANGED <<busVars, policy, asked, target, seen, looked, decision, audit,
                   sent, contacted>>

\* ownerOf() asks the bus daemon, the destination first, once for each name.
LookUp(n) ==
    /\ pc = "lookup"
    /\ n \in AskedNames \ looked
    /\ n = target.service \/ target.service \in looked
    /\ seen' = [seen EXCEPT ![n] = owner[n]]
    /\ looked' = looked \cup {n}
    /\ UNCHANGED <<busVars, policy, asked, pc, target, decision, audit, sent,
                   contacted, timeouts, result>>

\* An answer that is not valid counts as no owner.
LookUpFails(n) ==
    /\ pc = "lookup"
    /\ n \in AskedNames \ looked
    /\ n = target.service \/ target.service \in looked
    /\ looked' = looked \cup {n}
    /\ moved' = TRUE
    /\ UNCHANGED <<owner, changes, policy, asked, pc, target, seen, decision, audit,
                   sent, contacted, timeouts, result>>

Passes == Allowed(policy, target, seen)

Decision == IF Passes THEN "allow" ELSE "deny"

AuditLine == [rule |-> Decision, interface |-> target.interface]

\* Mutant of Judge: a refusal returns before its audit line is written.
JudgeUnaudited ==
    /\ pc = "lookup"
    /\ AskedNames \subseteq looked
    /\ decision' = Decision
    /\ audit' = IF Passes THEN Append(audit, AuditLine) ELSE audit
    /\ IF Passes THEN pc' = "call" /\ UNCHANGED result ELSE Fails("refused")
    /\ contacted' = (contacted \/ Passes)
    /\ UNCHANGED <<busVars, policy, asked, target, seen, looked, sent, timeouts>>

\* The policy judges the target and the decision is audited; a call that passes
\* goes to the bridge, which introspects the destination, again perhaps.
Judge ==
    /\ pc = "lookup"
    /\ AskedNames \subseteq looked
    /\ decision' = Decision
    /\ audit' = Append(audit, AuditLine)
    /\ IF Passes THEN pc' = "call" /\ UNCHANGED result ELSE Fails("refused")
    /\ contacted' = (contacted \/ Passes)
    /\ UNCHANGED <<busVars, policy, asked, target, seen, looked, sent, timeouts>>

-----------------------------------------------------------------------------
(* DBusBridge::callMethod. *)

CallTimesOut ==
    /\ pc = "call"
    /\ timeouts' = timeouts + 1
    /\ Fails("no reply")
    /\ UNCHANGED <<busVars, policy, asked, target, seen, looked, decision, audit,
                   sent, contacted>>

\* The bus is gone, or the arguments do not fit the signature.
CallFails ==
    /\ pc = "call"
    /\ \E why \in {"not connected", "argument"} : Fails(why)
    /\ UNCHANGED <<busVars, policy, asked, target, seen, looked, decision, audit,
                   sent, contacted, timeouts>>

\* The call is sent with the interface the introspection names, else with the
\* one given; the bus delivers it to the connection that owns the name by then.
Send(D) ==
    /\ pc = "call"
    /\ pc' = "reply"
    /\ sent' = [interface |-> Resolution(target.interface, D),
                names |-> {n \in Names : owner[n] # NoOwner /\ owner[n] = owner[target.service]},
                stable |-> ~moved]
    /\ UNCHANGED <<busVars, policy, asked, target, seen, looked, decision, audit,
                   contacted, timeouts, result>>

\* The service answers, with values or an error.
Reply ==
    /\ pc = "reply"
    /\ pc' = "done"
    /\ result' \in {"ok", "error"}
    /\ UNCHANGED <<busVars, policy, asked, target, seen, looked, decision, audit,
                   sent, contacted, timeouts>>

\* Mutant of ReplyTimesOut: the call is made without its timeout.
WaitsForever ==
    /\ pc = "reply" /\ sent.names = {}
    /\ timeouts' = timeouts + 1
    /\ Fails("no reply")
    /\ UNCHANGED <<busVars, policy, asked, target, seen, looked, decision, audit,
                   sent, contacted>>

ReplyTimesOut ==
    /\ pc = "reply"
    /\ timeouts' = timeouts + 1
    /\ Fails("no reply")
    /\ UNCHANGED <<busVars, policy, asked, target, seen, looked, decision, audit,
                   sent, contacted>>

Bus ==
    \/ \E n \in WellKnown, c \in Connections : Acquire(n, c)
    \/ \E c \in Connections : Disconnect(c)

\* What the worker does without the service.
Worker ==
    \/ Begin
    \/ ResolveTimesOut
    \/ \E n \in Names : LookUp(n)
    \/ Judge
    \/ CallTimesOut
    \/ ReplyTimesOut

Next ==
    \/ Bus
    \/ Worker
    \/ BadArguments
    \/ \E D \in SUBSET Interfaces : Resolve(D) \/ Send(D)
    \/ \E n \in Names : LookUpFails(n)
    \/ CallFails
    \/ Reply

Spec == Init /\ [][Next]_vars

\* The worker runs, the bus daemon answers and timeouts expire; a service may
\* never answer.
FairSpec == Spec /\ WF_vars(Worker)

-----------------------------------------------------------------------------
(* Properties. *)

\* Every variable has its type; a call is audited once at most.
TypeOK ==
    /\ owner \in Owners /\ seen \in Owners
    /\ changes \in 0..MaxChanges /\ moved \in BOOLEAN
    /\ policy \in PolicyChoices
    /\ asked \in Targets /\ target \in Targets
    /\ pc \in {"start", "resolve", "lookup", "call", "reply", "done"}
    /\ looked \subseteq Names
    /\ decision \in {"none", "allow", "deny"}
    /\ audit = <<>> \/ \E a \in Lines : audit = <<a>>
    /\ sent \in Messages \cup {NoMessage}
    /\ contacted \in BOOLEAN
    /\ timeouts \in Nat

WasSent == sent # NoMessage

\* The interfaces on which the method may run: without one in the message, the
\* service takes any that declares it.
RunsOn == IF sent.interface = NoInterface THEN Interfaces ELSE {sent.interface}

\* The call that leaves is one the policy allows, on whatever interface it runs,
\* although the interface is resolved twice and the service may declare another
\* one the second time: the decision was made before that.
ReachedIsAllowed ==
    WasSent => \A i \in RunsOn : Allowed(policy, [target EXCEPT !.interface = i], seen)

\* The rule is about the method on interface i, and its service is literal.
NamesLiterally(g, i) == g.literal /\ target.method \in g.methods /\ i \in g.interfaces

\* As long as the bus answers and names stay where they were found, a call never
\* reaches, by any name, a connection that owns one --deny refuses, even when
\* --allow lets the call through; nor one that a built-in rule refuses, or any
\* connection under --default-deny, when no --allow lets it through.
RefusedNotReached ==
    WasSent /\ sent.stable => \A i \in RunsOn :
        LET lets == \E h \in policy.allow : Allows(h, [target EXCEPT !.interface = i])
            reached(g) == NamesLiterally(g, i) /\ g.services \cap sent.names # {}
        IN  /\ \A g \in policy.deny : ~reached(g)
            /\ (policy.defaultDeny \/ \E g \in policy.builtin : reached(g)) => lets

\* A destination the policy refuses by itself gets no message, not even the
\* introspection that would name the interface.
RefusedUntouched == contacted => DestinationAllowed(policy, asked.bus, asked.service)

\* Every call that was judged, however it went on or ended (refused, sent, failed or
\* timed out before it was sent), has left exactly one audit line, with its decision;
\* no other call has one. Only a call whose line says "allow" is sent, and a call is
\* refused exactly when its line says "deny".
AuditTellsAll ==
    /\ decision = "none" => audit = <<>>
    /\ decision # "none" =>
            audit = <<[rule |-> decision, interface |-> target.interface]>>
    /\ pc \in {"call", "reply"} \/ WasSent => decision = "allow"
    /\ result = "refused" <=> decision = "deny"

\* "timeout_ms bounds the whole call on a hung service, not each round-trip": no
\* call waits for the whole timeout twice.
HungOnce == timeouts <= 1

\* "The policy judges the interface the call will carry [...] so what is checked
\* is what is sent."
JudgedIsSent == WasSent => sent.interface = target.interface

\* Every call ends, although the service may never answer.
Ends == <>(pc = "done")
=============================================================================
