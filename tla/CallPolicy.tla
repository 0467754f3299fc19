----------------------------- MODULE CallPolicy -----------------------------
(***************************************************************************)
(* CallPolicy (src/core/callpolicy.cpp): which dbus_call the bridge lets   *)
(* through.  A policy is immutable once configured, hence pure operators.  *)
(*                                                                         *)
(* A glob is the set of names it matches (module GlobMatch is about the    *)
(* matching itself), with a flag where the code looks at its text: whether *)
(* the service has no star, whether the interface is just "*".             *)
(***************************************************************************)
EXTENDS Naturals

CONSTANTS
    Connections,   \* unique connection names, which are destinations too
    WellKnown,     \* well-known bus names
    Interfaces,
    Methods,
    NoInterface,   \* the empty interface of a target: unknown
    NoOwner        \* the empty answer to a look-up

Names == Connections \cup WellKnown

ASSUME NamesAssumption ==
    /\ Connections \cap WellKnown = {}
    /\ NoInterface \notin Interfaces
    /\ NoOwner \notin Connections

Buses == {"session", "system"}

Patterns ==
    {g \in [services : SUBSET Names, literal : BOOLEAN,
            interfaces : SUBSET Interfaces, any : BOOLEAN, methods : SUBSET Methods] :
        /\ g.literal => \E s \in Names : g.services = {s}
        /\ g.any => g.interfaces = Interfaces}

\* m_allowSystemBus, m_allowUniqueNames, m_defaultDeny and the pattern lists.
\* The order within a list only decides which pattern the message names.
Policies ==
    [allowSystemBus : BOOLEAN, allowUniqueNames : BOOLEAN, defaultDeny : BOOLEAN,
     deny : SUBSET Patterns, allow : SUBSET Patterns, builtin : SUBSET Patterns]

\* CallTarget, without the path, which no rule looks at.
Targets == [bus : Buses, service : Names,
            interface : Interfaces \cup {NoInterface}, method : Methods]

\* The owner of each name, as far as the look-ups of one evaluation tell.
Owners == [Names -> Connections \cup {NoOwner}]

\* Mutant of InterfaceMatches: an unknown interface escapes refusing rules.
UnknownNeverMatches(g, i, refusing) ==
    IF i = NoInterface THEN g.any ELSE i \in g.interfaces

\* An unknown interface gets the strictest reading.
InterfaceMatches(g, i, refusing) ==
    IF i = NoInterface THEN refusing \/ g.any ELSE i \in g.interfaces

\* Mutant of SameConnection: only unique names are seen through.
SameUniqueName(g, s, owner) == g.literal /\ s \in {owner[n] : n \in g.services}

\* A literal service also matches any name of the connection that owns it.
SameConnection(g, s, owner) ==
    /\ g.literal
    /\ owner[s] # NoOwner
    /\ \E n \in g.services : owner[s] = owner[n]

\* matches(), for a refusing rule (which sees through names) or an allowing one.
Refuses(g, target, owner) ==
    /\ target.method \in g.methods
    /\ InterfaceMatches(g, target.interface, TRUE)
    /\ target.service \in g.services \/ SameConnection(g, target.service, owner)

Allows(g, target) ==
    /\ target.method \in g.methods
    /\ InterfaceMatches(g, target.interface, FALSE)
    /\ target.service \in g.services

\* destinationAllowed().
DestinationAllowed(policy, bus, service) ==
    /\ bus = "system" => policy.allowSystemBus
    /\ service \in Connections => policy.allowUniqueNames

\* evaluate(): the kind of the rule that decides, "none" when no rule does.
Rule(policy, target, owner) ==
    IF target.bus = "system" /\ ~policy.allowSystemBus THEN "system-bus"
    ELSE IF target.service \in Connections /\ ~policy.allowUniqueNames THEN "unique-name"
    ELSE IF \E g \in policy.deny : Refuses(g, target, owner) THEN "deny"
    ELSE IF \E g \in policy.allow : Allows(g, target) THEN "allow"
    ELSE IF \E g \in policy.builtin : Refuses(g, target, owner) THEN "builtin"
    ELSE IF policy.defaultDeny THEN "default-deny" ELSE "none"

Allowed(policy, target, owner) == Rule(policy, target, owner) \in {"allow", "none"}
=============================================================================
