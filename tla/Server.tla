------------------------------- MODULE Server -------------------------------
(***************************************************************************)
(* The main thread of the bridge: Server (src/mcp/server.cpp) on top of    *)
(* StdioTransport (src/mcp/stdiotransport.cpp), with the ToolRunner it     *)
(* hands tools/call to, inside the event loop of main().                   *)
(*                                                                         *)
(* A chunk read from stdin holds some lines; one action handles one line,  *)
(* and nothing else of the main thread runs until the chunk is empty.      *)
(* Workers run beside it.  A message is the part of a request the handlers *)
(* look at; `out' keeps the responses that carry a request id.             *)
(***************************************************************************)
EXTENDS ToolRunner

CONSTANT MaxLines     \* bound: the lines of one chunk

ASSUME MaxLinesAssumption == MaxLines \in Nat \ {0}

VARIABLES
    reading,      \* the stdin notifier is enabled
    buffered,     \* lines of the chunk onReadable() still has to handle
    broken,       \* m_broken: a write to stdout has failed
    listens,      \* m_listens: the open subscriptions/listen
    modernCalls,  \* m_modernCalls: ids of the modern tools/call in flight
    closing,      \* m_closing
    draining,     \* the kDrainMs timer is armed
    phase,        \* "exec", "quit" (app.quit() called), "returned", "exited"
    era,          \* history: the era of each call of the runner
    out           \* the responses written by the last step

sessionVars == <<reading, buffered, broken, listens, modernCalls, closing,
                 draining, phase, era>>
vars == <<runnerVars, sessionVars, out>>

-----------------------------------------------------------------------------
(* Messages. *)

Methods == {"initialize", "ping", "tools/list", "tools/call",
            "server/discover", "subscriptions/listen", "other"}
Eras == {"legacy", "modern"}

\* What can be wrong with a request: the version or the client capabilities
\* of a modern one; the arguments of tools/call (or its tool, unknown), the
\* cursor of a modern tools/list.
Faults == {"none", "meta", "params"}

\* era: whether params._meta names a protocol version, which an initialize is
\* not asked for.  pool: the tool named by a sound tools/call is a built-in one
\* or is in m_serializedTools.
Requests ==
    {r \in [id : Ids, method : Methods, era : Eras, fault : Faults, pool : Pools] :
        /\ r.fault = "meta" => r.era = "modern" /\ r.method # "initialize"
        /\ r.fault = "params" => \/ r.method = "tools/call"
                                 \/ r.method = "tools/list" /\ r.era = "modern"
        /\ r.pool = "serialPool" => r.method = "tools/call" /\ r.fault = "none"}

Forms == {"legacy", "modern", "error", "invalid"}

\* The result of tools/call number call, or any other response (call = None):
\* a result in the shape of an era, an error, or the error for a message that
\* is not a JSON-RPC request at all.
Response == [id : Ids, form : Forms, call : Nat]

Reply(i, form) == [id |-> i, form |-> form, call |-> None]

\* isModernRequest(): an initialize never is one.
Modern(r) == r.era = "modern" /\ r.method # "initialize"

-----------------------------------------------------------------------------

Init ==
    /\ RunnerInit
    /\ reading = TRUE
    /\ buffered = 0
    /\ broken = FALSE
    /\ listens = {}
    /\ modernCalls = {}
    /\ closing = FALSE
    /\ draining = FALSE
    /\ phase = "exec"
    /\ era = <<>>
    /\ out = {}

Alive == phase \in {"exec", "quit"}

\* Between two handlers, in the event loop.
InLoop == Alive /\ buffered = 0

\* onReadable() emits the next line of the chunk.
TakeLine ==
    /\ Alive
    /\ buffered > 0
    /\ buffered' = buffered - 1

\* Mutant of Shutdown: the timer is never armed.
ShutdownWithoutTimer(open) ==
    IF closing
    THEN listens' = open /\ UNCHANGED <<closing, draining>>
    ELSE /\ closing' = TRUE
         /\ listens' = {}
         /\ UNCHANGED draining

\* shutdown(), when the streams in `open' are the open ones: ends them, then
\* either finishes at once or arms the timer.  A second call does nothing.
Shutdown(open) ==
    IF closing
    THEN listens' = open /\ UNCHANGED <<closing, draining>>
    ELSE /\ closing' = TRUE
         /\ listens' = {}
         /\ draining' = ~NoneInFlight'

\* shutdown() ran for the first time in this step and emitted finished().
ShutdownFinished == ~closing /\ closing' /\ NoneInFlight'

\* send() of the responses in msgs (and of messages without a request id).
\* A failing write disables the notifier and emits closed(), which runs
\* shutdown() inside the handler that writes; later writes do nothing.
Send(msgs, open) ==
    \/ /\ ~broken
       /\ out' = msgs
       /\ listens' = open
       /\ UNCHANGED <<broken, reading, closing, draining>>
    \/ /\ ~broken
       /\ broken' = TRUE
       /\ reading' = FALSE
       /\ out' = {}
       /\ Shutdown(open)
    \/ /\ broken
       /\ out' = {}
       /\ listens' = open
       /\ UNCHANGED <<broken, reading, closing, draining>>

\* finished() is connected to QCoreApplication::quit().
QuitIf(finished) == phase' = IF finished THEN "quit" ELSE phase

\* A handler that only writes.
Answering(msgs) ==
    /\ UNCHANGED <<runnerVars, modernCalls, era>>
    /\ Send(msgs, listens)
    /\ QuitIf(ShutdownFinished)

\* A handler that changes nothing and writes nothing.
Ignoring ==
    /\ out' = {}
    /\ UNCHANGED <<runnerVars, reading, broken, listens, modernCalls,
                   closing, draining, phase, era>>

-----------------------------------------------------------------------------
(* One line of the chunk: requests. *)

\* Mutant of IdInUse: an open subscription does not hold its id.
IdHeldByCall(i) == inFlight[i] # None

\* The id of a request still in flight or of an open subscription: "exactly
\* one response per id".
IdInUse(i) == inFlight[i] # None \/ i \in listens

\* Mutant of Dispatched: a modern request skips the check.
FreeUnlessModern(r) == TakeLine /\ (~Modern(r) => ~IdInUse(r.id))

\* onMessage() passes the request on to its handler.
Dispatched(r) == TakeLine /\ ~IdInUse(r.id)

\* Any request under an id in use.
IgnoreDuplicate(i) == TakeLine /\ IdInUse(i) /\ Ignoring

IsToolsCall(r) == r.method = "tools/call" /\ r.fault # "meta"
IsListen(r) == r.method = "subscriptions/listen" /\ Modern(r) /\ r.fault # "meta"

\* The methods answered on the spot with a result, in each era.
Served(r) == IF Modern(r) THEN {"server/discover", "tools/list"}
                          ELSE {"initialize", "ping", "tools/list"}

\* handleModernRequest() checks _meta, then the method, then its params; the
\* legacy methods take any params.
ReplyForm(r) ==
    IF r.method \in Served(r) /\ (Modern(r) => r.fault = "none")
    THEN IF Modern(r) THEN "modern" ELSE "legacy"
    ELSE "error"

AnswerNow(r) ==
    /\ Dispatched(r)
    /\ ~IsToolsCall(r) /\ ~IsListen(r)
    /\ Answering({Reply(r.id, ReplyForm(r))})

\* Mutant of Listen: the acknowledgment is sent before the stream is recorded.
ListenAckFirst(r) ==
    /\ Dispatched(r)
    /\ IsListen(r)
    /\ IF closing
       THEN Ignoring
       ELSE /\ UNCHANGED <<runnerVars, modernCalls, era>>
            /\ \/ ~broken /\ UNCHANGED <<broken, reading, closing, draining>>
               \/ /\ ~broken /\ broken' = TRUE /\ reading' = FALSE
                  /\ closing' = TRUE /\ draining' = ~NoneInFlight'
            /\ listens' = listens \cup {r.id}
            /\ out' = {}
            /\ QuitIf(ShutdownFinished)

\* handleListen(): records the stream, then acknowledges it; the stream gets
\* no response until the bridge shuts down.
Listen(r) ==
    /\ Dispatched(r)
    /\ IsListen(r)
    /\ IF closing
       THEN Ignoring
       ELSE /\ UNCHANGED <<runnerVars, modernCalls, era>>
            /\ Send({}, listens \cup {r.id})
            /\ QuitIf(ShutdownFinished)

\* Mutant of AcceptsCalls: tools/call is accepted while the bridge shuts down.
AcceptsAlways == TRUE

\* handleToolsCall() accepts calls until the bridge shuts down.
AcceptsCalls == ~closing

RefuseToolsCall(r) ==
    /\ Dispatched(r)
    /\ IsToolsCall(r)
    /\ \/ ~AcceptsCalls /\ Ignoring
       \/ AcceptsCalls /\ r.fault = "params" /\ Answering({Reply(r.id, "error")})

\* handleToolsCall() of a known tool: the call goes to the runner, whose
\* submit() finds the id free since the request was dispatched.
ToolsCall(r) ==
    /\ Dispatched(r)
    /\ IsToolsCall(r)
    /\ AcceptsCalls /\ r.fault = "none"
    /\ Submit(r.id, r.pool)
    /\ modernCalls' = IF Modern(r) THEN modernCalls \cup {r.id} ELSE modernCalls
    /\ era' = Append(era, IF Modern(r) THEN "modern" ELSE "legacy")
    /\ out' = {}
    /\ UNCHANGED <<reading, broken, listens, closing, draining, phase>>

-----------------------------------------------------------------------------
(* One line of the chunk: everything else. *)

\* Mutant of Cancelled: the era of a cancelled call is kept.
CancelledKeepsEra(i) ==
    /\ TakeLine
    /\ out' = {}
    /\ UNCHANGED <<reading, broken, closing, draining, phase, era>>
    /\ \/ /\ i \in listens
          /\ listens' = listens \ {i}
          /\ UNCHANGED <<runnerVars, modernCalls>>
       \/ /\ i \notin listens
          /\ Cancel(i)
          /\ UNCHANGED <<listens, modernCalls>>
       \/ /\ i \notin listens /\ inFlight[i] = None
          /\ UNCHANGED <<runnerVars, listens, modernCalls>>

\* handleNotification() of notifications/cancelled for id i: closes the stream
\* i, else cancels the call i and forgets its era, else does nothing.
Cancelled(i) ==
    /\ TakeLine
    /\ out' = {}
    /\ UNCHANGED <<reading, broken, closing, draining, phase, era>>
    /\ \/ /\ i \in listens
          /\ listens' = listens \ {i}
          /\ UNCHANGED <<runnerVars, modernCalls>>
       \/ /\ i \notin listens
          /\ Cancel(i)
          /\ modernCalls' = modernCalls \ {i}
          /\ UNCHANGED listens
       \/ /\ i \notin listens /\ inFlight[i] = None
          /\ UNCHANGED <<runnerVars, listens, modernCalls>>

\* A blank line, a stray response or any other notification.
IgnoredLine == TakeLine /\ Ignoring

\* onInvalidFrame(), and a message without a usable method or id: an error,
\* under the null id ...
InvalidLine == TakeLine /\ Answering({})

\* ... or under the id of the message when that one is valid.
InvalidRequest(i) == TakeLine /\ Answering({Reply(i, "invalid")})

Line ==
    \/ \E r \in Requests :
        AnswerNow(r) \/ Listen(r) \/ RefuseToolsCall(r) \/ ToolsCall(r)
    \/ \E i \in Ids : IgnoreDuplicate(i) \/ Cancelled(i) \/ InvalidRequest(i)
    \/ IgnoredLine
    \/ InvalidLine

-----------------------------------------------------------------------------
(* The event loop. *)

\* onReadable(): a chunk arrives and completes n lines.
Read(n) ==
    /\ InLoop
    /\ reading
    /\ buffered' = n
    /\ Ignoring

\* Mutant of CloseResults: the streams are dropped without their results.
NoCloseResults(S) == {}

\* The results closeSubscriptions() writes for the streams in S.
CloseResults(S) == {Reply(i, "modern") : i \in S}

\* onReadable() at the end of stdin: closed(), hence shutdown(), whose writes
\* may fail after the results of some streams have left.
Eof ==
    /\ InLoop
    /\ reading
    /\ reading' = FALSE
    /\ UNCHANGED <<runnerVars, buffered, modernCalls, era>>
    /\ Shutdown(listens)
    /\ \/ out' = CloseResults(listens) /\ UNCHANGED broken
       \/ /\ listens # {}
          /\ \E S \in SUBSET listens : out' = CloseResults(S)
          /\ broken' = TRUE
    /\ QuitIf(ShutdownFinished)

\* The result of call c in the shape of its era (sendToolResult()).
ToolResult(c) ==
    LET i == calls[c].id IN
    [id |-> i, form |-> IF i \in modernCalls THEN "modern" ELSE "legacy", call |-> c]

\* Mutant of Idle: finished() at any finish() while closing, the last one or not.
IdleAtAnyFinish == TRUE

\* finish() emits idle() when no call is left in flight.
Idle == NoneInFlight

\* The runner's finish(), with sendToolResult() when it emits a result and the
\* quit of an idle runner while the bridge shuts down.
HandleFinish ==
    /\ InLoop
    /\ Finish
    /\ UNCHANGED <<buffered, era>>
    /\ LET c == Head(posted) IN
        \/ /\ EmitsResult(c)
           /\ modernCalls' = modernCalls \ {calls[c].id}
           /\ Send({ToolResult(c)}, listens)
        \/ /\ ~EmitsResult(c)
           /\ out' = {}
           /\ UNCHANGED <<reading, broken, listens, modernCalls, closing, draining>>
    /\ QuitIf(ShutdownFinished \/ (Idle' /\ closing'))

\* exec() returns after quit(): main() destroys the server, the runner with its
\* pools, and the registry.
Return ==
    /\ InLoop
    /\ phase = "quit"
    /\ phase' = "returned"
    /\ out' = {}
    /\ UNCHANGED <<runnerVars, reading, buffered, broken, listens, modernCalls,
                   closing, draining, era>>

\* The timer of shutdown() fires: _Exit(), whatever the workers do.
DrainTimeout ==
    /\ InLoop
    /\ draining
    /\ phase' = "exited"
    /\ out' = {}
    /\ UNCHANGED <<runnerVars, reading, buffered, broken, listens, modernCalls,
                   closing, draining, era>>

\* A step of a worker, as long as the process lives.
WorkerStep ==
    /\ Alive
    /\ Worker
    /\ out' = {}
    /\ UNCHANGED sessionVars

Ended == phase \in {"returned", "exited"}

Terminated == Ended /\ UNCHANGED vars

Next ==
    \/ Line
    \/ \E n \in 1..MaxLines : Read(n)
    \/ Eof
    \/ HandleFinish
    \/ Return
    \/ DrainTimeout
    \/ WorkerStep
    \/ Terminated

Spec == Init /\ [][Next]_vars

-----------------------------------------------------------------------------
(* Fairness. *)

\* Qt's event loop hands out what it finds at each turn: the lines of a chunk
\* are taken in one go, a timer that is due fires, and posted events are
\* dispatched however busy stdin is (hence SF: a chunk that is being handled
\* suspends them).  Free threads take waiting calls.  Nothing is assumed of the
\* client, nor that a tool ever returns.
LoopFairness ==
    /\ WF_buffered(TakeLine)
    /\ WF_vars(Return)
    /\ WF_vars(DrainTimeout)
    /\ SF_vars(HandleFinish)
    /\ \A p \in Pools :
        WF_vars(Alive /\ (Start(p) \/ Skip(p)) /\ out' = {} /\ UNCHANGED sessionVars)

FairSpec == Spec /\ LoopFairness

\* Every tool returns, the bus calls of the built-in ones having a timeout.
ToolsReturn ==
    \A c \in 1..MaxCalls :
        WF_vars(Alive /\ Complete(c) /\ out' = {} /\ UNCHANGED sessionVars)

-----------------------------------------------------------------------------
(* Properties. *)

\* Every variable has its type.
TypeOK ==
    /\ RunnerTypeOK
    /\ reading \in BOOLEAN /\ broken \in BOOLEAN
    /\ closing \in BOOLEAN /\ draining \in BOOLEAN
    /\ buffered \in 0..MaxLines
    /\ listens \subseteq Ids /\ modernCalls \subseteq Ids
    /\ phase \in {"exec", "quit", "returned", "exited"}
    /\ era \in Seq(Eras) /\ Len(era) = Len(calls)
    /\ out \subseteq Response

\* m_modernCalls holds exactly the ids whose call in flight is a modern one that
\* nobody cancelled: a stale id would dress the result of the next legacy call
\* with the same id in the modern shape.
ModernCallsExact ==
    modernCalls = {i \in Ids : /\ inFlight[i] # None
                               /\ inFlight[i] \notin cancelled
                               /\ era[inFlight[i]] = "modern"}

\* The result of a call has the shape of the era it was requested in, whatever
\* used its id before and whatever was cancelled in between.
EraKept == \A r \in out : r.call # None => r.form = era[r.call]

\* The event loop is left by quit() exactly when the bridge shuts down and no
\* call is in flight, and until then the timer that ends a shutdown is armed:
\* closed() may come from stdin or from a write inside any handler, including
\* the one that writes the last result.
QuitExactlyWhenDrained ==
    /\ phase \in {"quit", "returned"} => closing /\ NoneInFlight
    /\ closing /\ NoneInFlight => phase # "exec"
    /\ closing /\ ~NoneInFlight => draining

\* When main() returns and destroys the pools and the registry, no worker runs
\* or will run a tool, and no finish() is left behind.
SafeTeardown == phase = "returned" => Live = {}

\* No stream survives the start of the shutdown, although the failing write may
\* be the acknowledgment of the stream itself, or a result of another stream.
StreamsClosed == closing => listens = {}

\* An id is the id of a call or of a stream, never of both.
OneUsePerId == \A i \in listens : inFlight[i] = None

\* The responses rs may leave: one under the id of a call in flight is the
\* result of that call, not cancelled; one under the id of a stream closes it.
OwnResponses(rs) ==
    \A r \in rs :
        /\ inFlight[r.id] # None =>
                r.call = inFlight[r.id] /\ r.call \notin cancelled
        /\ r.id \in listens => r.id \notin listens'

\* The responses to requests; the error for a message that is not one apart.
Answers(rs) == {r \in rs : r.form # "invalid"}

\* A response to a request, under an id that is in use, is the answer of the
\* request that holds the id.
OwnResponse == [][OwnResponses(Answers(out'))]_vars

\* "Exactly one response per id: the call already running keeps it."
OneResponsePerId == [][OwnResponses(out')]_vars

\* Requests that wait for their answer.
Open == {i \in Ids : \/ inFlight[i] # None /\ inFlight[i] \notin cancelled
                     \/ i \in listens}

\* A request stops waiting only by its answer, by the client's own cancellation
\* of it, or because stdout is broken: neither the end of stdin nor a shutdown
\* in progress loses the result of a call that returns in time.
NeverForgotten ==
    [][\A i \in Open \ Open' :
            (\E r \in Answers(out') : r.id = i) \/ broken' \/ Cancelled(i)]_vars

\* A shutdown ends the process, even with a tool that never returns.
Terminates == closing ~> Ended

\* As long as the process lives, every accepted call leaves the runner, however
\* much the client sends meanwhile, provided that tools return.
EveryCallSettles ==
    ToolsReturn => \A c \in 1..MaxCalls : c \in Submitted ~> (c \in Done \/ Ended)

-----------------------------------------------------------------------------
(* The server implements the contract on ids and contains the runner. *)

IdState == [i \in Ids |-> IF i \in Open THEN "pending"
                          ELSE IF inFlight[i] # None THEN "muted" ELSE "idle"]

Contract == INSTANCE ResponseContract WITH
    state <- IdState,
    wire  <- {r.id : r \in Answers(out)},
    up    <- ~broken

\* Each step of the server is a step of the contract on request ids.
ImplementsContract == Contract!Spec

\* The server uses its runner only through submit(), cancel() and finish().
UsesRunner == RunnerSpec
=============================================================================
