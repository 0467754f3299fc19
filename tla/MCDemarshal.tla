----------------------------- MODULE MCDemarshal -----------------------------
(***************************************************************************)
(* Every reply of up to MaxElements elements.                              *)
(***************************************************************************)
EXTENDS Demarshal, FiniteSets

CONSTANT MaxElements

\* Element n + 1, of kind k, after the elements of r, in container c of those.
Extended(r, c, k) ==
    LET n == Len(r.kind) + 1 IN
    [kind |-> Append(r.kind, k),
     up   |-> Append(r.up, c),
     last |-> [i \in 1 .. n |-> IF i = n \/ (i <= c /\ c <= r.last[i]) THEN n ELSE r.last[i]]]

Held(r, c) == {n \in Elements(r) : r.up[n] = c}

\* Container c can take an element of kind k behind the last one.
Takes(r, c, k) ==
    /\ r.kind[c] \in Containers
    /\ r.last[c] = Len(r.kind)
    /\ r.kind[c] = "map" <=> k = "entry"
    /\ r.kind[c] = "variant" => Held(r, c) = {}
    /\ r.kind[c] = "entry" =>
        /\ Cardinality(Held(r, c)) < 2
        /\ Held(r, c) = {} => k \in Leaves

Kinds == Leaves \cup Containers

RECURSIVE Grown(_)
Grown(n) ==
    IF n = 1
    THEN {[kind |-> <<k>>, up |-> <<0>>, last |-> <<1>>] : k \in Kinds \ {"entry"}}
    ELSE {Extended(x[1], x[2], x[3]) :
             x \in {y \in Grown(n - 1) \X (1 .. n - 1) \X Kinds : Takes(y[1], y[2], y[3])}}

Whole(n) == {r \in Grown(n) : IsReply(r)}

\* A structure of a map of two entries and of another element.
TwoEntries ==
    {[kind |-> <<"array", "map", "entry", k, v, "entry", l, w, "basic">>,
      up   |-> <<0, 1, 2, 3, 3, 2, 6, 6, 1>>,
      last |-> <<9, 8, 5, 4, 5, 8, 7, 8, 9>>] : k \in Leaves, v \in Leaves, l \in Leaves, w \in Leaves}

Short == TwoEntries \cup UNION {Whole(n) : n \in 1 .. MaxElements}
=============================================================================
