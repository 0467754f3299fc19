--------------------------- MODULE DBusCall_proofs ---------------------------
(***************************************************************************)
(* What a dbus_call may reach, for every policy, bus and set of interfaces.*)
(* The argument: the decision on an unknown interface is at least as       *)
(* strict as on any interface (StrictestReading), so that it stands        *)
(* whatever the second introspection says; and the owners it was made from *)
(* are those at delivery as long as no name moved.                         *)
(***************************************************************************)
EXTENDS DBusCall, TLAPS

\* A refusing rule that matches one interface matches an unknown one; an allowing
\* rule that matches an unknown one matches every interface.
LEMMA ReadingOfRules ==
    ASSUME NEW g \in Patterns, NEW t \in Targets, t.interface = NoInterface,
           NEW o \in Owners, NEW i \in Interfaces
    PROVE  /\ Refuses(g, [t EXCEPT !.interface = i], o) => Refuses(g, t, o)
           /\ Allows(g, t) => Allows(g, [t EXCEPT !.interface = i])
<1> DEFINE u == [t EXCEPT !.interface = i]
<1>1. u.interface = i /\ u.service = t.service /\ u.method = t.method /\ i # NoInterface
    BY NamesAssumption DEF Targets
<1>2. g.any => g.interfaces = Interfaces
    BY DEF Patterns
<1> QED
    BY <1>1, <1>2 DEF Refuses, Allows, InterfaceMatches

\* "An unknown interface gets the strictest reading": what passes without an
\* interface passes with each one, in every policy.
THEOREM StrictestReading ==
    ASSUME NEW p \in Policies, NEW t \in Targets, t.interface = NoInterface,
           NEW o \in Owners, NEW i \in Interfaces, Allowed(p, t, o)
    PROVE  Allowed(p, [t EXCEPT !.interface = i], o)
<1> DEFINE u == [t EXCEPT !.interface = i]
<1>1. u.bus = t.bus /\ u.service = t.service
    BY DEF Targets
<1>2. p.deny \subseteq Patterns /\ p.allow \subseteq Patterns /\ p.builtin \subseteq Patterns
    BY DEF Policies
<1>3. \A g \in p.deny \cup p.builtin : Refuses(g, u, o) => Refuses(g, t, o)
    BY <1>2, ReadingOfRules
<1>4. \A g \in p.allow : Allows(g, t) => Allows(g, u)
    BY <1>2, ReadingOfRules
<1> SUFFICES Allowed(p, u, o)
    OBVIOUS
<1> HIDE DEF u
<1>5. DestinationAllowed(p, u.bus, u.service) /\ ~\E g \in p.deny : Refuses(g, t, o)
    BY <1>1 DEF Allowed, Rule, DestinationAllowed
<1>6. ~\E g \in p.deny : Refuses(g, u, o)
    BY <1>3, <1>5
<1>7. CASE \E g \in p.allow : Allows(g, t)
    <2>1. \E g \in p.allow : Allows(g, u)
        BY <1>4, <1>7
    <2> QED
        BY <1>5, <1>6, <2>1 DEF Allowed, Rule, DestinationAllowed
<1>8. CASE ~\E g \in p.allow : Allows(g, t)
    <2>1. ~p.defaultDeny /\ ~\E g \in p.builtin : Refuses(g, t, o)
        BY <1>8 DEF Allowed, Rule
    <2>2. ~\E g \in p.builtin : Refuses(g, u, o)
        BY <1>3, <2>1
    <2> QED
        BY <1>5, <1>6, <2>1, <2>2 DEF Allowed, Rule, DestinationAllowed
<1> QED
    BY <1>7, <1>8

-----------------------------------------------------------------------------

\* What holds at each place of the call.
Places ==
    /\ target = [asked EXCEPT !.interface = target.interface]
    /\ asked.interface # NoInterface => target.interface = asked.interface
    /\ pc = "start" => looked = {} /\ ~contacted
    /\ pc \in {"start", "resolve"} => target.interface = NoInterface \/ pc = "start"
    /\ pc \in {"start", "resolve", "lookup", "call"} => sent = NoMessage /\ result = "none"
    /\ pc \in {"start", "resolve", "lookup"} => decision = "none" /\ audit = <<>>
    /\ pc \in {"start", "resolve", "lookup", "call", "reply"} => timeouts = 0
    /\ pc \in {"call", "reply"} => Passes
    /\ pc = "reply" => result = "none"
    /\ pc \in {"call", "reply"} => AskedNames \subseteq looked
    /\ pc = "resolve" => contacted

\* What the evaluation found is so as long as nothing moved.
Fresh == ~moved => \A n \in looked : seen[n] = owner[n]

\* A message carries the interface that was judged, or any when none was, and
\* its connection is the one the evaluation found.
Carried ==
    WasSent =>
        /\ Passes /\ AskedNames \subseteq looked
        /\ sent.interface = target.interface \/ target.interface = NoInterface
        /\ sent.stable => \A n \in AskedNames :
                n \in sent.names <=> seen[n] # NoOwner /\ seen[n] = seen[target.service]

IInv ==
    /\ TypeOK /\ Places /\ Fresh /\ Carried
    /\ RefusedUntouched /\ AuditTellsAll /\ HungOnce

-----------------------------------------------------------------------------

\* A call starts without any trace.
LEMMA InitInv == Init => IInv
<1> SUFFICES ASSUME Init PROVE IInv
    OBVIOUS
<1>1. TypeOK
    <2>1. owner \in Owners /\ seen \in Owners
        BY DEF Init, Owners
    <2>2. changes \in 0..MaxChanges /\ timeouts \in Nat
        BY CallAssumption DEF Init
    <2> QED
        BY <2>1, <2>2 DEF Init, TypeOK
<1>2. Places
    <2>1. target = [asked EXCEPT !.interface = target.interface]
        BY DEF Init, Targets
    <2> QED
        BY <2>1 DEF Init, Places
<1>3. Fresh /\ Carried /\ RefusedUntouched /\ AuditTellsAll /\ HungOnce
    BY DEF Init, Fresh, Carried, WasSent, RefusedUntouched, AuditTellsAll, HungOnce
<1> QED
    BY <1>1, <1>2, <1>3 DEF IInv

\* The bus changes: what was found may be stale, and nothing else is touched.
LEMMA BusInv == IInv /\ Bus => IInv'
<1> SUFFICES ASSUME IInv, Bus PROVE IInv'
    OBVIOUS
<1>1. Change /\ owner' \in Owners
    BY DEF Bus, Acquire, Disconnect, IInv, TypeOK, Owners, Names
<1>2. UNCHANGED callVars /\ changes' \in 0..MaxChanges /\ moved' = (moved \/ looked # {})
    BY <1>1, CallAssumption DEF Change, IInv, TypeOK
<1>3. TypeOK'
    BY <1>1, <1>2 DEF IInv, TypeOK, callVars
<1>0. (Passes' <=> Passes) /\ AskedNames' = AskedNames
    BY <1>2 DEF callVars, Passes, AskedNames, Candidates
<1>4. Places'
    BY <1>0, <1>2 DEF IInv, Places, callVars
<1>5. Fresh'
    BY <1>2 DEF Fresh, callVars
<1>6. Carried'
    BY <1>0, <1>2 DEF IInv, Carried, WasSent, callVars
<1>7. RefusedUntouched' /\ AuditTellsAll' /\ HungOnce'
    BY <1>2 DEF IInv, RefusedUntouched, AuditTellsAll, HungOnce, WasSent, callVars
<1> QED
    BY <1>3, <1>4, <1>5, <1>6, <1>7 DEF IInv

\* A call that fails before it sent anything keeps what was established.
LEMMA FailInv ==
    ASSUME IInv, NEW why, why # "refused", Fails(why),
           pc \in {"start", "resolve", "call", "reply"},
           timeouts' \in {0, 1},
           UNCHANGED <<busVars, policy, asked, target, seen, looked, decision, audit, sent,
                       contacted>>
    PROVE  IInv'
<1> USE DEF Fails, busVars
<1>1. TypeOK'
    BY DEF IInv, TypeOK
<1>2. Places'
    BY DEF IInv, Places
<1>0. (Passes' <=> Passes) /\ AskedNames' = AskedNames
    BY DEF Passes, AskedNames, Candidates
<1>3. Fresh' /\ Carried'
    BY <1>0 DEF IInv, Fresh, Carried, WasSent
<1>4. RefusedUntouched' /\ AuditTellsAll' /\ HungOnce'
    BY DEF IInv, Places, RefusedUntouched, AuditTellsAll, HungOnce, WasSent
<1> QED
    BY <1>1, <1>2, <1>3, <1>4 DEF IInv

\* The destination is contacted before the judgement only when it is allowed.
LEMMA BeginInv == IInv /\ Begin => IInv'
<1> SUFFICES ASSUME IInv, Begin PROVE IInv'
    OBVIOUS
<1> USE DEF Begin, busVars
<1>1. TypeOK'
    BY DEF IInv, TypeOK, NeedsResolving, DestinationAllowed
<1>2. Places'
    BY DEF IInv, Places, NeedsResolving
<1>0. (Passes' <=> Passes) /\ AskedNames' = AskedNames
    BY DEF Passes, AskedNames, Candidates
<1>3. Fresh' /\ Carried'
    BY <1>0 DEF IInv, Fresh, Carried, WasSent
<1>4. target.bus = asked.bus /\ target.service = asked.service
    BY DEF IInv, Places, TypeOK, Targets
<1>5. RefusedUntouched' /\ AuditTellsAll' /\ HungOnce'
    BY <1>4 DEF IInv, RefusedUntouched, AuditTellsAll, HungOnce, WasSent, NeedsResolving,
                DestinationAllowed
<1> QED
    BY <1>1, <1>2, <1>3, <1>5 DEF IInv

\* Introspection data give the interface of their own, or the one already there.
LEMMA ResolutionFacts ==
    ASSUME NEW i \in Interfaces \cup {NoInterface}, NEW D \in SUBSET Interfaces
    PROVE  /\ Resolution(i, D) \in Interfaces \cup {NoInterface}
           /\ i # NoInterface => Resolution(i, D) = i
BY NamesAssumption DEF Resolution

\* The first introspection touches the target only.
LEMMA ResolveInv == \A D \in SUBSET Interfaces : IInv /\ Resolve(D) => IInv'
<1> SUFFICES ASSUME NEW D \in SUBSET Interfaces, IInv, Resolve(D) PROVE IInv'
    OBVIOUS
<1> USE DEF Resolve, busVars
<1>0. Resolution(NoInterface, D) \in Interfaces \cup {NoInterface}
    BY ResolutionFacts
<1>1. TypeOK'
    BY <1>0 DEF IInv, TypeOK, Targets
<1>2. Places'
    BY <1>0 DEF IInv, Places, TypeOK, Targets
<1>3. Fresh' /\ Carried'
    BY DEF IInv, Places, Fresh, Carried, WasSent
<1>4. RefusedUntouched' /\ AuditTellsAll' /\ HungOnce'
    BY DEF IInv, Places, RefusedUntouched, AuditTellsAll, HungOnce, WasSent
<1> QED
    BY <1>1, <1>2, <1>3, <1>4 DEF IInv

\* A look-up finds the owner of the moment.
LEMMA LookUpInv == \A n \in Names : IInv /\ LookUp(n) => IInv'
<1> SUFFICES ASSUME NEW n \in Names, IInv, LookUp(n) PROVE IInv'
    OBVIOUS
<1> USE DEF LookUp, busVars
<1>1. TypeOK'
    BY DEF IInv, TypeOK, Owners
<1>2. Places'
    BY DEF IInv, Places
<1>3. Fresh'
    BY DEF IInv, TypeOK, Fresh, Owners
<1>4. Carried'
    BY DEF IInv, Places, Carried, WasSent
<1>5. RefusedUntouched' /\ AuditTellsAll' /\ HungOnce'
    BY DEF IInv, RefusedUntouched, AuditTellsAll, HungOnce, WasSent
<1> QED
    BY <1>1, <1>2, <1>3, <1>4, <1>5 DEF IInv

\* A look-up without an answer leaves no claim on what was found.
LEMMA LookUpFailsInv == \A n \in Names : IInv /\ LookUpFails(n) => IInv'
<1> SUFFICES ASSUME NEW n \in Names, IInv, LookUpFails(n) PROVE IInv'
    OBVIOUS
<1> USE DEF LookUpFails, busVars
<1>1. TypeOK'
    BY DEF IInv, TypeOK
<1>2. Places'
    BY DEF IInv, Places
<1>3. Fresh' /\ Carried'
    BY DEF IInv, Places, Fresh, Carried, WasSent
<1>4. RefusedUntouched' /\ AuditTellsAll' /\ HungOnce'
    BY DEF IInv, RefusedUntouched, AuditTellsAll, HungOnce, WasSent
<1> QED
    BY <1>1, <1>2, <1>3, <1>4 DEF IInv

\* A destination that is refused by itself never passes.
LEMMA PassesDestination ==
    ASSUME NEW p \in Policies, NEW t \in Targets, NEW o \in Owners, Allowed(p, t, o)
    PROVE  DestinationAllowed(p, t.bus, t.service)
BY DEF Allowed, Rule, DestinationAllowed, Policies

\* The judgement is audited, and lets through what passes.
LEMMA JudgeInv == IInv /\ Judge => IInv'
<1> SUFFICES ASSUME IInv, Judge PROVE IInv'
    OBVIOUS
<1> USE DEF Judge, busVars, Fails
<1>0. audit = <<>> /\ sent = NoMessage /\ result = "none" /\ timeouts = 0
    BY DEF IInv, Places
<1>1. audit' = <<AuditLine>> /\ AuditLine \in Lines /\ Decision \in {"allow", "deny"}
    BY <1>0 DEF AuditLine, Decision, Lines, IInv, TypeOK, Targets
<1>2. audit' = <<[rule |-> decision', interface |-> target'.interface]>>
    BY <1>1 DEF AuditLine
<1>3. Passes' <=> Passes
    BY DEF Passes
<1>4. AskedNames' = AskedNames
    BY DEF AskedNames, Candidates
<1>5. TypeOK'
    BY <1>1 DEF IInv, TypeOK
<1>6. Places'
    BY <1>0, <1>3, <1>4 DEF IInv, Places
<1>7. Fresh' /\ Carried'
    BY <1>0 DEF IInv, Fresh, Carried, WasSent
<1>8. RefusedUntouched'
    <2>1. target.bus = asked.bus /\ target.service = asked.service
        BY DEF IInv, Places, TypeOK, Targets
    <2>2. Passes => DestinationAllowed(policy, asked.bus, asked.service)
        BY <2>1, PassesDestination, CallAssumption DEF Passes, IInv, TypeOK
    <2> QED
        BY <2>2 DEF IInv, RefusedUntouched, DestinationAllowed
<1>9. AuditTellsAll' /\ HungOnce'
    BY <1>0, <1>1, <1>2 DEF AuditTellsAll, Decision, HungOnce, WasSent
<1> QED
    BY <1>5, <1>6, <1>7, <1>8, <1>9 DEF IInv

\* The call carries the interface that was judged, if any was.
LEMMA SendInv == \A D \in SUBSET Interfaces : IInv /\ Send(D) => IInv'
<1> SUFFICES ASSUME NEW D \in SUBSET Interfaces, IInv, Send(D) PROVE IInv'
    OBVIOUS
<1> USE DEF Send, busVars
<1>0. /\ target.interface \in Interfaces \cup {NoInterface}
      /\ Resolution(target.interface, D) \in Interfaces \cup {NoInterface}
      /\ target.interface # NoInterface => Resolution(target.interface, D) = target.interface
    BY ResolutionFacts DEF IInv, TypeOK, Targets
<1>1. /\ sent'.interface = Resolution(target.interface, D)
      /\ sent'.stable = ~moved
      /\ sent'.names = {n \in Names : owner[n] # NoOwner /\ owner[n] = owner[target.service]}
    OBVIOUS
<1>2. sent' \in Messages
    BY <1>0 DEF Messages, IInv, TypeOK
<1>3. TypeOK'
    BY <1>2 DEF IInv, TypeOK
<1>4. (Passes' <=> Passes) /\ AskedNames' = AskedNames
    BY DEF Passes, AskedNames, Candidates
<1>5. Places'
    BY <1>4 DEF IInv, Places
<1>6. Fresh'
    BY DEF IInv, Fresh
<1>7. Carried'
    <2>1. Passes /\ AskedNames \subseteq looked
        BY DEF IInv, Places
    <2>2. ASSUME ~moved, NEW n \in AskedNames
          PROVE  n \in sent'.names <=> seen[n] # NoOwner /\ seen[n] = seen[target.service]
        <3>1. n \in looked /\ target.service \in looked /\ looked \subseteq Names
            BY <2>1 DEF AskedNames, Candidates, IInv, TypeOK
        <3>2. seen[n] = owner[n] /\ seen[target.service] = owner[target.service]
            BY <3>1, <2>2 DEF IInv, Fresh
        <3> QED
            BY <3>1, <3>2, <1>1
    <2> QED
        BY <1>0, <1>1, <1>4, <2>1, <2>2 DEF Carried
<1>8. RefusedUntouched' /\ AuditTellsAll' /\ HungOnce'
    BY DEF IInv, Places, RefusedUntouched, AuditTellsAll, HungOnce
<1> QED
    BY <1>3, <1>5, <1>6, <1>7, <1>8 DEF IInv

\* The invariant of a call is inductive.
LEMMA StepInv == IInv /\ [Next]_vars => IInv'
<1> SUFFICES ASSUME IInv, [Next]_vars PROVE IInv'
    OBVIOUS
<1>0. pc \in {"start", "resolve", "call", "reply"} => timeouts = 0
    BY DEF IInv, Places
<1>1. CASE BadArguments \/ ResolveTimesOut \/ CallTimesOut \/ ReplyTimesOut
    <2>1. CASE BadArguments
        BY <1>0, <2>1, FailInv DEF BadArguments
    <2>2. CASE ResolveTimesOut
        <3>0. pc \in {"start", "resolve", "call", "reply"} /\ timeouts' = timeouts + 1
            BY <2>2 DEF ResolveTimesOut
        <3>1. timeouts' \in {0, 1}
            BY <1>0, <3>0
        <3>2. Fails("no reply") /\ UNCHANGED <<busVars, policy, asked, target, seen,
                                              looked, decision, audit, sent, contacted>>
            BY <2>2 DEF ResolveTimesOut
        <3> QED
            BY <3>0, <3>1, <3>2, FailInv, "no reply" # "refused"
    <2>3. CASE CallTimesOut
        <3>0. pc \in {"start", "resolve", "call", "reply"} /\ timeouts' = timeouts + 1
            BY <2>3 DEF CallTimesOut
        <3>1. timeouts' \in {0, 1}
            BY <1>0, <3>0
        <3>2. Fails("no reply") /\ UNCHANGED <<busVars, policy, asked, target, seen,
                                              looked, decision, audit, sent, contacted>>
            BY <2>3 DEF CallTimesOut
        <3> QED
            BY <3>0, <3>1, <3>2, FailInv, "no reply" # "refused"
    <2>4. CASE ReplyTimesOut
        <3>0. pc \in {"start", "resolve", "call", "reply"} /\ timeouts' = timeouts + 1
            BY <2>4 DEF ReplyTimesOut
        <3>1. timeouts' \in {0, 1}
            BY <1>0, <3>0
        <3>2. Fails("no reply") /\ UNCHANGED <<busVars, policy, asked, target, seen,
                                              looked, decision, audit, sent, contacted>>
            BY <2>4 DEF ReplyTimesOut
        <3> QED
            BY <3>0, <3>1, <3>2, FailInv, "no reply" # "refused"
    <2> QED
        BY <1>1, <2>1, <2>2, <2>3, <2>4
<1>2. CASE CallFails
    <2>1. PICK why \in {"not connected", "argument"} : Fails(why)
        BY <1>2 DEF CallFails
    <2> QED
        BY <1>0, <1>2, <2>1, FailInv DEF CallFails
<1>3. CASE Reply
    <2>1. Fails(result') /\ result' # "refused"
        BY <1>3 DEF Reply, Fails
    <2> QED
        BY <1>0, <1>3, <2>1, FailInv DEF Reply
<1>4. CASE UNCHANGED vars
    <2>1. (Passes' <=> Passes) /\ AskedNames' = AskedNames
        BY <1>4 DEF vars, callVars, Passes, AskedNames, Candidates
    <2>2. TypeOK' /\ Fresh' /\ Places' /\ Carried'
        BY <1>4, <2>1 DEF vars, busVars, callVars, IInv, TypeOK, Fresh, Places, Carried, WasSent
    <2>3. RefusedUntouched' /\ AuditTellsAll' /\ HungOnce'
        BY <1>4 DEF vars, callVars, IInv, RefusedUntouched, AuditTellsAll, HungOnce, WasSent
    <2> QED
        BY <2>2, <2>3 DEF IInv
<1> QED
    BY <1>1, <1>2, <1>3, <1>4, BusInv, BeginInv, ResolveInv, LookUpInv,
       LookUpFailsInv, JudgeInv, SendInv
    DEF Next, Worker

-----------------------------------------------------------------------------

\* The invariant holds in every reachable state.
THEOREM CallInvariant == Spec => []IInv
BY InitInv, StepInv, PTL DEF Spec

\* A message may only run on interfaces the policy allows.
LEMMA RunsOnAllowed ==
    ASSUME IInv, WasSent, NEW i \in RunsOn
    PROVE  i \in Interfaces /\ Allowed(policy, [target EXCEPT !.interface = i], seen)
<1>1. /\ policy \in Policies /\ target \in Targets /\ seen \in Owners
      /\ Allowed(policy, target, seen)
      /\ sent \in Messages
    BY CallAssumption DEF IInv, TypeOK, Carried, Passes, WasSent
<1>2. sent.interface = target.interface \/ target.interface = NoInterface
    BY DEF IInv, Carried
<1>3. i \in Interfaces
    BY <1>1 DEF RunsOn, Messages
<1>4. CASE target.interface = NoInterface
    BY <1>1, <1>3, <1>4, StrictestReading
<1>5. CASE target.interface # NoInterface
    <2>1. i = target.interface
        BY <1>2, <1>5 DEF RunsOn
    <2>2. [target EXCEPT !.interface = i] = target
        BY <1>1, <2>1 DEF Targets
    <2> QED
        BY <1>1, <1>3, <2>2
<1> QED
    BY <1>4, <1>5

\* Every variable has its type, for any names, policies and changes.
THEOREM CallTypes == Spec => []TypeOK
<1>1. IInv => TypeOK
    BY DEF IInv
<1> QED
    BY <1>1, CallInvariant, PTL

\* Whatever the services declare at each introspection, a call that leaves is one
\* the policy allows.
THEOREM CallsAreAllowed == Spec => []ReachedIsAllowed
<1>1. IInv => ReachedIsAllowed
    BY RunsOnAllowed DEF ReachedIsAllowed
<1> QED
    BY <1>1, CallInvariant, PTL

\* As long as names do not move, no name hides a refused connection.
THEOREM RefusedAreNotReached == Spec => []RefusedNotReached
<1>1. IInv => RefusedNotReached
    <2> SUFFICES ASSUME IInv, WasSent, sent.stable, NEW i \in RunsOn
                 PROVE  LET lets == \E h \in policy.allow :
                                        Allows(h, [target EXCEPT !.interface = i])
                            reached(g) == NamesLiterally(g, i) /\ g.services \cap sent.names # {}
                        IN  /\ \A g \in policy.deny : ~reached(g)
                            /\ (policy.defaultDeny \/ \E g \in policy.builtin : reached(g)) => lets
        BY DEF RefusedNotReached
    <2> DEFINE t == [target EXCEPT !.interface = i]
               reached(g) == NamesLiterally(g, i) /\ g.services \cap sent.names # {}
    <2>1. i \in Interfaces /\ Allowed(policy, t, seen)
        BY RunsOnAllowed
    <2>2. t.interface = i /\ t.service = target.service /\ t.method = target.method
        BY DEF IInv, TypeOK, Targets
    <2>4. DestinationAllowed(policy, target.bus, target.service)
        BY CallAssumption, PassesDestination DEF IInv, TypeOK, Carried, Passes
    <2>5. ASSUME NEW g \in policy.deny \cup policy.builtin, reached(g)
          PROVE  Refuses(g, t, seen)
        <3>1. PICK n \in g.services : n \in sent.names
            BY <2>5
        <3>2. g.literal /\ target.method \in g.methods /\ i \in g.interfaces
            BY <2>5 DEF NamesLiterally
        <3>3. InterfaceMatches(g, t.interface, TRUE) /\ t.method \in g.methods
            BY <2>1, <2>2, <3>2, NamesAssumption DEF InterfaceMatches
        <3>4. CASE target.service \in g.services
            BY <2>2, <3>3, <3>4 DEF Refuses
        <3>5. CASE target.service \notin g.services
            <4>1. InterfaceMatches(g, target.interface, TRUE)
                BY <2>1, <3>2, NamesAssumption DEF InterfaceMatches, IInv, Carried, RunsOn
            <4>2. g \in Candidates
                BY <2>4, <3>2, <3>5, <4>1 DEF Candidates
            <4>3. n \in AskedNames
                BY <3>1, <4>2 DEF AskedNames
            <4>4. seen[n] # NoOwner /\ seen[n] = seen[target.service]
                BY <3>1, <4>3 DEF IInv, Carried
            <4>5. SameConnection(g, t.service, seen)
                BY <3>1, <3>2, <4>4, <2>2 DEF SameConnection
            <4> QED
                BY <3>3, <4>5 DEF Refuses
        <3> QED
            BY <3>4, <3>5
    <2> HIDE DEF t, reached
    <2>6. \A g \in policy.deny : ~Refuses(g, t, seen)
        BY <2>1 DEF Allowed, Rule
    <2>7. policy.defaultDeny \/ (\E g \in policy.builtin : Refuses(g, t, seen))
            => \E h \in policy.allow : Allows(h, t)
        BY <2>1 DEF Allowed, Rule
    <2> QED
        BY <2>5, <2>6, <2>7 DEF t, reached
<1> QED
    BY <1>1, CallInvariant, PTL

\* A destination that is refused by itself gets no message at all.
THEOREM RefusedAreUntouched == Spec => []RefusedUntouched
<1>1. IInv => RefusedUntouched
    BY DEF IInv
<1> QED
    BY <1>1, CallInvariant, PTL

\* A hung service costs one timeout, although up to three round trips are made.
THEOREM CallsHangOnce == Spec => []HungOnce
<1>1. IInv => HungOnce
    BY DEF IInv
<1> QED
    BY <1>1, CallInvariant, PTL

\* Every call that was judged, however it went on or ended, has left exactly one audit
\* line, with its decision, and no other call has one; what is sent was let through, and
\* what is refused was not.
THEOREM AuditsTellAll == Spec => []AuditTellsAll
<1>1. IInv => AuditTellsAll
    BY DEF IInv
<1> QED
    BY <1>1, CallInvariant, PTL
=============================================================================
