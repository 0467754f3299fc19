-------------------------- MODULE ResponseContract --------------------------
(***************************************************************************)
(* What the bridge promises to its client about request ids, without the   *)
(* threads, queues, streams and timers that keep the promise: an accepted  *)
(* request is pending until its one answer, a cancelled one is muted (its  *)
(* id is taken but no answer will come) until its id is released, and only *)
(* a broken output excuses the bridge from answering.                      *)
(***************************************************************************)
EXTENDS FiniteSets

CONSTANT Ids

VARIABLES
    state,   \* of each id: "idle", "pending" or "muted"
    wire,    \* the ids answered by the last step
    up       \* the output still works

contractVars == <<state, wire, up>>

Pending == {i \in Ids : state[i] = "pending"}

Init ==
    /\ state = [i \in Ids |-> "idle"]
    /\ wire = {}
    /\ up = TRUE

\* A request is taken and will be answered later.
Accept(i) ==
    /\ up
    /\ state[i] = "idle"
    /\ state' = [state EXCEPT ![i] = "pending"]
    /\ wire' = {}
    /\ UNCHANGED up

\* A request is answered on the spot: only under an id that is not in use.
AnswerAtOnce(i) ==
    /\ up
    /\ state[i] = "idle"
    /\ wire' = {i}
    /\ UNCHANGED <<state, up>>

\* Pending requests get their answers, which frees their ids.
Answer(S) ==
    /\ up
    /\ S # {} /\ S \subseteq Pending
    /\ state' = [i \in Ids |-> IF i \in S THEN "idle" ELSE state[i]]
    /\ wire' = S
    /\ UNCHANGED up

\* The client gives up on a request: its id is free at once, or when the
\* bridge is done with it.
Cancel(i) ==
    /\ state[i] = "pending"
    /\ \E s \in {"idle", "muted"} : state' = [state EXCEPT ![i] = s]
    /\ wire' = {}
    /\ UNCHANGED up

Release(i) ==
    /\ state[i] = "muted"
    /\ state' = [state EXCEPT ![i] = "idle"]
    /\ wire' = {}
    /\ UNCHANGED up

\* The output breaks: some answers may still have left, others are lost.
BreakDown(answered, lost) ==
    /\ up /\ up' = FALSE
    /\ answered \cup lost \subseteq Pending
    /\ state' = [i \in Ids |-> IF i \in answered \cup lost THEN "idle" ELSE state[i]]
    /\ wire' = answered

\* An answer that can no longer be written.
Drop(i) ==
    /\ ~up
    /\ state[i] = "pending"
    /\ state' = [state EXCEPT ![i] = "idle"]
    /\ wire' = {}
    /\ UNCHANGED up

\* Nothing happens to any id.
Quiet == wire' = {} /\ UNCHANGED <<state, up>>

Next ==
    \/ Quiet
    \/ \E i \in Ids : \/ Accept(i) \/ AnswerAtOnce(i)
                      \/ Cancel(i) \/ Release(i) \/ Drop(i)
    \/ \E S \in SUBSET Ids : Answer(S)
    \/ \E S, L \in SUBSET Ids : BreakDown(S, L)

Spec == Init /\ [][Next]_contractVars
=============================================================================
