----------------------------- MODULE MCDBusCall -----------------------------
(* Small instances of DBusCall: policies with at most one rule of each kind. *)
EXTENDS DBusCall

CONSTANTS kwin, other, c1, c2, i1, i2, call

\* Every kind of rule: literal or not, for one interface or any.
Rules ==
    {[services |-> s.services, literal |-> s.literal,
      interfaces |-> f.interfaces, any |-> f.any, methods |-> {call}] :
        s \in {[services |-> {kwin}, literal |-> TRUE], [services |-> Names, literal |-> FALSE]},
        f \in {[interfaces |-> {i1}, any |-> FALSE], [interfaces |-> Interfaces, any |-> TRUE]}}

AtMostOne(S) == {{}} \cup {{e} : e \in S}

\* The built-in list always has its entry.
Chosen ==
    {[allowSystemBus |-> o.system, allowUniqueNames |-> o.unique, defaultDeny |-> o.closed,
      deny |-> d, allow |-> a,
      builtin |-> {[services |-> {other}, literal |-> TRUE, interfaces |-> {i1},
                    any |-> FALSE, methods |-> {call}]}] :
        o \in [system : {FALSE}, unique : BOOLEAN, closed : BOOLEAN],
        d \in AtMostOne(Rules), a \in AtMostOne(Rules)}

\* A closed bridge that lets kwin through, but refuses one interface of other.
Closed ==
    {[allowSystemBus |-> FALSE, allowUniqueNames |-> TRUE, defaultDeny |-> TRUE,
      deny |-> {[services |-> {other}, literal |-> TRUE, interfaces |-> {i1},
                 any |-> FALSE, methods |-> {call}]},
      allow |-> {[services |-> {kwin}, literal |-> TRUE, interfaces |-> Interfaces,
                  any |-> TRUE, methods |-> {call}]},
      builtin |-> {}]}
=============================================================================
