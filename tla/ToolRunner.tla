----------------------------- MODULE ToolRunner -----------------------------
(***************************************************************************)
(* ToolRunner (src/mcp/toolrunner.cpp): runs tools/call off the main       *)
(* thread.  The main thread submits, cancels and finishes calls; the       *)
(* workers of two QThreadPools take them from the pool's queue, run the    *)
(* tool and post a finish() to the main thread's event queue.              *)
(*                                                                         *)
(* A call is named by its rank in the sequence of accepted submissions:    *)
(* 1, 2, 3...  The rank also stands for the shared cancel flag allocated   *)
(* for the call: the hash m_inFlight maps an id (its idText) to a call,    *)
(* and the flag of c is set when c is in cancelled.                        *)
(***************************************************************************)
EXTENDS Naturals, Sequences, FiniteSets

CONSTANTS
    Ids,          \* the request ids a client uses (their idText)
    PoolThreads,  \* threads of the pool of built-in tools: 4 in the code
    MaxCalls      \* bound: the calls accepted in a behaviour

ASSUME ConstantsAssumption ==
    /\ PoolThreads \in Nat \ {0}
    /\ MaxCalls \in Nat

None == 0                         \* the null flag of m_inFlight.take()

Pools == {"pool", "serialPool"}   \* m_pool, m_serialPool

\* Mutant of MaxThreads: plugins run on several threads too.
SameThreads(p) == PoolThreads

\* setMaxThreadCount() of each pool.
MaxThreads(p) == IF p = "pool" THEN PoolThreads ELSE 1

VARIABLES
    calls,       \* the calls accepted by submit(), with their id and pool
    inFlight,    \* m_inFlight: the call holding each id, or None
    cancelled,   \* the calls whose cancel flag is set
    queue,       \* of each pool: the calls no thread has taken yet
    running,     \* the calls a worker is running
    posted,      \* the main thread's event queue: the calls to finish()
    delivered    \* history: the calls whose resultReady was emitted

runnerVars == <<calls, inFlight, cancelled, queue, running, posted, delivered>>

InSeq(s) == {s[k] : k \in DOMAIN s}

Submitted == DOMAIN calls
Active(p) == {c \in running : calls[c].pool = p}

\* The calls that submit() accepted and finish() has not ended.
Live == InSeq(queue["pool"]) \cup InSeq(queue["serialPool"])
            \cup running \cup InSeq(posted)
Done == Submitted \ Live

\* inFlight() == 0: the condition under which finish() emits idle().
NoneInFlight == \A i \in Ids : inFlight[i] = None

RunnerInit ==
    /\ calls = <<>>
    /\ inFlight = [i \in Ids |-> None]
    /\ cancelled = {}
    /\ queue = [p \in Pools |-> <<>>]
    /\ running = {}
    /\ posted = <<>>
    /\ delivered = {}

-----------------------------------------------------------------------------
(* The main thread. *)

\* Mutant of Submit: built-in calls wait in the queue of the plugins.
SubmitToOnePool(i, p) ==
    LET c == Len(calls) + 1 IN
    /\ Len(calls) < MaxCalls
    /\ inFlight[i] = None
    /\ calls' = Append(calls, [id |-> i, pool |-> p])
    /\ inFlight' = [inFlight EXCEPT ![i] = c]
    /\ queue' = [queue EXCEPT !["serialPool"] = Append(@, c)]
    /\ UNCHANGED <<cancelled, running, posted, delivered>>

\* submit(): the id is free, a flag is allocated and the call is queued.  When
\* the id is still in flight submit() returns false and changes nothing.
Submit(i, p) ==
    LET c == Len(calls) + 1 IN
    /\ Len(calls) < MaxCalls
    /\ inFlight[i] = None
    /\ calls' = Append(calls, [id |-> i, pool |-> p])
    /\ inFlight' = [inFlight EXCEPT ![i] = c]
    /\ queue' = [queue EXCEPT ![p] = Append(@, c)]
    /\ UNCHANGED <<cancelled, running, posted, delivered>>

\* Mutant of Cancel: a cancelled call frees its id before its finish().
CancelForgetsId(i) ==
    /\ inFlight[i] # None
    /\ cancelled' = cancelled \cup {inFlight[i]}
    /\ inFlight' = [inFlight EXCEPT ![i] = None]
    /\ UNCHANGED <<calls, queue, running, posted, delivered>>

\* cancel(): sets the flag of the call that holds the id, which keeps the id
\* until its finish().  Returns false, and changes nothing, for a free id.
Cancel(i) ==
    /\ inFlight[i] # None
    /\ cancelled' = cancelled \cup {inFlight[i]}
    /\ UNCHANGED <<calls, inFlight, queue, running, posted, delivered>>

\* Mutant of EmitsResult: the flag is not read when the result comes back.
EmitsWheneverFound(c) == inFlight[calls[c].id] # None

\* finish() emits resultReady(): the flag it takes from the hash under the
\* call's id exists and is not set.
EmitsResult(c) ==
    LET flag == inFlight[calls[c].id] IN flag # None /\ flag \notin cancelled

\* finish(), dispatched by the event loop for the oldest posted event: frees
\* the id, and emits the result of a call that was not cancelled.
Finish ==
    /\ posted # <<>>
    /\ LET c == Head(posted) IN
        /\ inFlight' = [inFlight EXCEPT ![calls[c].id] = None]
        /\ delivered' = IF EmitsResult(c) THEN delivered \cup {c} ELSE delivered
    /\ posted' = Tail(posted)
    /\ UNCHANGED <<calls, cancelled, queue, running>>

-----------------------------------------------------------------------------
(* The workers. *)

\* Mutant of ThreadFree: one thread of each pool is never used.
ThreadFreeOffByOne(p) == queue[p] # <<>> /\ Cardinality(Active(p)) + 1 < MaxThreads(p)

\* A thread of the pool is free and its queue is not empty.
ThreadFree(p) == queue[p] # <<>> /\ Cardinality(Active(p)) < MaxThreads(p)

\* A worker takes the oldest call and finds its flag clear: the tool starts.
Start(p) ==
    /\ ThreadFree(p)
    /\ Head(queue[p]) \notin cancelled
    /\ running' = running \cup {Head(queue[p])}
    /\ queue' = [queue EXCEPT ![p] = Tail(@)]
    /\ UNCHANGED <<calls, inFlight, cancelled, posted, delivered>>

\* The call was cancelled while it waited: its tool never starts.
Skip(p) ==
    /\ ThreadFree(p)
    /\ Head(queue[p]) \in cancelled
    /\ posted' = Append(posted, Head(queue[p]))
    /\ queue' = [queue EXCEPT ![p] = Tail(@)]
    /\ UNCHANGED <<calls, inFlight, cancelled, running, delivered>>

\* The tool returns: the worker posts finish() to the main thread.
Complete(c) ==
    /\ c \in running
    /\ running' = running \ {c}
    /\ posted' = Append(posted, c)
    /\ UNCHANGED <<calls, inFlight, cancelled, queue, delivered>>

Worker ==
    \/ \E p \in Pools : Start(p) \/ Skip(p)
    \/ \E c \in running : Complete(c)

-----------------------------------------------------------------------------

RunnerNext ==
    \/ \E i \in Ids, p \in Pools : Submit(i, p)
    \/ \E i \in Ids : Cancel(i)
    \/ Finish
    \/ Worker

RunnerSpec == RunnerInit /\ [][RunnerNext]_runnerVars

\* What the event loop and the thread pools guarantee: a free thread takes a
\* waiting call, and the main thread dispatches the events posted to it.
RunnerFairness ==
    /\ \A p \in Pools : WF_runnerVars(Start(p)) /\ WF_runnerVars(Skip(p))
    /\ WF_runnerVars(Finish)

-----------------------------------------------------------------------------
(* Properties. *)

\* Every variable has its type: calls are named by their rank of submission.
RunnerTypeOK ==
    /\ calls \in Seq([id : Ids, pool : Pools])
    /\ inFlight \in [Ids -> {None} \cup Submitted]
    /\ cancelled \subseteq Submitted
    /\ queue \in [Pools -> Seq(Submitted)]
    /\ running \subseteq Submitted
    /\ posted \in Seq(Submitted)
    /\ delivered \subseteq Submitted

\* An id belongs to one call from submit() to the end of its finish(), although
\* the client may cancel it and use the id again: the flag found under the id of
\* a call in flight is that call's own, and no id outlives its call.  Otherwise a
\* late finish() would free, or answer for, a newer call with the same id.
FlagOwner ==
    /\ \A c \in Live : inFlight[calls[c].id] = c
    /\ \A i \in Ids : inFlight[i] # None =>
            inFlight[i] \in Live /\ calls[inFlight[i]].id = i

\* "Not emitted for a cancelled call", and for every other one: a call that left
\* the runner gave a result exactly when nobody cancelled it first, whatever the
\* order of cancel(), the worker's reading of the flag and finish().
Settled ==
    /\ delivered \cap Live = {}
    /\ \A c \in Done : c \in delivered <=> c \notin cancelled

\* Calls to plugin tools give their results in arrival order: no later one is
\* delivered while an earlier one, not cancelled, still has to be.
SerialResultsInOrder ==
    \A c, d \in Submitted :
        /\ calls[c].pool = "serialPool" /\ calls[d].pool = "serialPool"
        /\ c < d /\ d \in delivered
        => c \in delivered \/ c \in cancelled

\* A built-in call always leaves the runner, even when a plugin tool never
\* returns: plugins cannot starve the built-in tools of a thread.
BuiltinCallsSettle ==
    \A c \in 1..MaxCalls :
        (c \in Submitted /\ calls[c].pool = "pool") ~> c \in Done
=============================================================================
