--------------------------- MODULE Server_proofs ---------------------------
(***************************************************************************)
(* Proofs about Server, for any set of ids, any number of threads, calls   *)
(* and lines.  The server only drives its runner through the runner's own  *)
(* actions, so that what ToolRunner_proofs shows of the runner holds here. *)
(***************************************************************************)
EXTENDS Server, ToolRunner_proofs

-----------------------------------------------------------------------------
(* The server contains a runner. *)

\* What each step of the server does to the variables of the runner.
LEMMA RunnerStep == [Next]_vars => [RunnerNext]_runnerVars
<1> SUFFICES ASSUME [Next]_vars PROVE [RunnerNext]_runnerVars
    OBVIOUS
<1>1. CASE Line
    <2>1. ASSUME NEW r \in Requests, ToolsCall(r)
          PROVE  RunnerNext
        <3>1. r.id \in Ids /\ r.pool \in Pools
            BY DEF Requests
        <3>2. Submit(r.id, r.pool)
            BY <2>1 DEF ToolsCall
        <3> QED
            BY <3>1, <3>2 DEF RunnerNext
    <2>2. ASSUME NEW r \in Requests, AnswerNow(r) \/ Listen(r) \/ RefuseToolsCall(r)
          PROVE  UNCHANGED runnerVars
        BY <2>2 DEF AnswerNow, Listen, RefuseToolsCall, Answering, Ignoring
    <2>3. ASSUME NEW i \in Ids, Cancelled(i)
          PROVE  RunnerNext \/ UNCHANGED runnerVars
        BY <2>3 DEF Cancelled, RunnerNext
    <2>4. ASSUME NEW i \in Ids, IgnoreDuplicate(i) \/ InvalidRequest(i)
          PROVE  UNCHANGED runnerVars
        BY <2>4 DEF IgnoreDuplicate, InvalidRequest, Answering, Ignoring
    <2>5. CASE IgnoredLine \/ InvalidLine
        BY <2>5 DEF IgnoredLine, InvalidLine, Answering, Ignoring
    <2> QED
        BY <1>1, <2>1, <2>2, <2>3, <2>4, <2>5 DEF Line
<1>2. CASE \E n \in 1..MaxLines : Read(n)
    BY <1>2 DEF Read, Ignoring
<1>3. CASE Eof
    BY <1>3 DEF Eof
<1>4. CASE HandleFinish
    BY <1>4 DEF HandleFinish, RunnerNext
<1>5. CASE Return \/ DrainTimeout \/ Terminated
    BY <1>5 DEF Return, DrainTimeout, Terminated, vars
<1>6. CASE WorkerStep
    BY <1>6 DEF WorkerStep, RunnerNext
<1>7. CASE UNCHANGED vars
    BY <1>7 DEF vars
<1> QED
    BY <1>1, <1>2, <1>3, <1>4, <1>5, <1>6, <1>7 DEF Next

\* Every behaviour of the server is one of its runner.
THEOREM ServerUsesRunner == Spec => RunnerSpec
<1>1. Init => RunnerInit
    BY DEF Init
<1> QED
    BY <1>1, RunnerStep, PTL DEF Spec, RunnerSpec

\* What is proved of the runner holds in the server.
THEOREM RunnerInServer ==
    Spec => [](RunnerInv /\ FlagOwner /\ Settled /\ SerialResultsInOrder)
BY ServerUsesRunner, RunnerInvariant, FlagsAreOwned, CallsSettle, SerialResults, PTL

-----------------------------------------------------------------------------
(* The inductive invariant of the session. *)

SessionTypes ==
    /\ reading \in BOOLEAN /\ broken \in BOOLEAN
    /\ closing \in BOOLEAN /\ draining \in BOOLEAN
    /\ buffered \in 0..MaxLines
    /\ listens \subseteq Ids /\ modernCalls \subseteq Ids
    /\ phase \in {"exec", "quit", "returned", "exited"}
    /\ era \in Seq(Eras) /\ Len(era) = Len(calls)
    /\ out \subseteq Response

\* The results among the last responses are those of calls, in their form.
ResultsKept == \A r \in out : r.call # None => r.call \in Submitted /\ r.form = era[r.call]

SessionInv ==
    /\ SessionTypes
    /\ ModernCallsExact
    /\ ResultsKept
    /\ QuitExactlyWhenDrained
    /\ StreamsClosed
    /\ OneUsePerId

-----------------------------------------------------------------------------
(* What the handlers have in common. *)

\* What a write may do to the transport, the streams and the shutdown.
LEMMA SendFacts ==
    ASSUME NEW msgs, NEW open, SessionTypes, Send(msgs, open)
    PROVE  /\ reading' \in BOOLEAN /\ broken' \in BOOLEAN
           /\ closing' \in BOOLEAN /\ draining' \in BOOLEAN
           /\ closing => closing' /\ listens' = open /\ draining' = draining
           /\ ~closing /\ closing' => listens' = {} /\ (~NoneInFlight' => draining')
           /\ ~closing' => listens' = open /\ draining' = draining
           /\ out' = msgs \/ out' = {}
<1>1. CASE ~broken /\ out' = msgs /\ listens' = open
            /\ UNCHANGED <<broken, reading, closing, draining>>
    BY <1>1 DEF SessionTypes
<1>2. CASE ~broken /\ broken' = TRUE /\ reading' = FALSE /\ out' = {} /\ Shutdown(open)
    <2>1. CASE closing
        BY <1>2, <2>1 DEF SessionTypes, Shutdown
    <2>2. CASE ~closing
        BY <1>2, <2>2 DEF SessionTypes, Shutdown
    <2> QED
        BY <2>1, <2>2
<1>3. CASE broken /\ out' = {} /\ listens' = open
            /\ UNCHANGED <<broken, reading, closing, draining>>
    BY <1>3 DEF SessionTypes
<1> QED
    BY <1>1, <1>2, <1>3 DEF Send

\* A step that accepts no call quits exactly when it should.
LEMMA QuitKept ==
    ASSUME NEW X \in BOOLEAN, QuitExactlyWhenDrained,
           SessionTypes, closing' \in BOOLEAN, draining' \in BOOLEAN,
           phase \in {"exec", "quit"},
           closing => closing' /\ draining' = draining,
           ~closing /\ closing' /\ ~NoneInFlight' => draining',
           NoneInFlight => NoneInFlight',
           X => NoneInFlight' /\ closing',
           closing /\ ~NoneInFlight /\ NoneInFlight' => X,
           QuitIf(ShutdownFinished \/ X)
    PROVE  QuitExactlyWhenDrained' /\ phase' \in {"exec", "quit"}
<1>1. CASE ShutdownFinished \/ X
    BY <1>1 DEF QuitIf, QuitExactlyWhenDrained, ShutdownFinished
<1>2. CASE ~(ShutdownFinished \/ X)
    BY <1>2 DEF QuitIf, QuitExactlyWhenDrained, ShutdownFinished
<1> QED
    BY <1>1, <1>2

\* A line comes out of the chunk.
LEMMA LineTaken ==
    ASSUME SessionTypes, TakeLine
    PROVE  buffered' \in 0..MaxLines /\ phase \in {"exec", "quit"}
BY MaxLinesAssumption DEF SessionTypes, TakeLine, Alive

\* The modern calls depend on the runner and on the eras only.
LEMMA ModernUnchanged ==
    ASSUME ModernCallsExact, inFlight' = inFlight, cancelled' = cancelled,
           era' = era, modernCalls' = modernCalls
    PROVE  ModernCallsExact'
BY DEF ModernCallsExact

\* A handler that does nothing keeps the invariant of the session.
LEMMA IgnoringInv ==
    ASSUME SessionInv, Ignoring, buffered' \in 0..MaxLines
    PROVE  SessionInv'
<1>1. /\ out' = {} /\ UNCHANGED runnerVars
      /\ UNCHANGED <<reading, broken, listens, modernCalls, closing, draining, phase, era>>
    BY DEF Ignoring
<1>2. calls' = calls /\ inFlight' = inFlight /\ cancelled' = cancelled
    BY <1>1 DEF runnerVars
<1>3. SessionTypes' /\ ResultsKept'
    BY <1>1, <1>2 DEF SessionInv, SessionTypes, ResultsKept
<1>4. ModernCallsExact'
    BY <1>1, <1>2, ModernUnchanged DEF SessionInv
<1>5. QuitExactlyWhenDrained' /\ StreamsClosed' /\ OneUsePerId'
    BY <1>1, <1>2 DEF SessionInv, QuitExactlyWhenDrained, NoneInFlight, StreamsClosed,
                      OneUsePerId
<1> QED
    BY <1>3, <1>4, <1>5 DEF SessionInv

\* So does a handler that only writes, even when the write fails.
LEMMA AnsweringInv ==
    ASSUME SessionInv, NEW msgs \in SUBSET Response, \A r \in msgs : r.call = None,
           Answering(msgs), TakeLine
    PROVE  SessionInv'
<1>1. /\ UNCHANGED runnerVars /\ modernCalls' = modernCalls /\ era' = era
      /\ Send(msgs, listens)
      /\ QuitIf(ShutdownFinished)
    BY DEF Answering
<1>2. calls' = calls /\ inFlight' = inFlight /\ cancelled' = cancelled
    BY <1>1 DEF runnerVars
<1>3. /\ reading' \in BOOLEAN /\ broken' \in BOOLEAN
      /\ closing' \in BOOLEAN /\ draining' \in BOOLEAN
      /\ closing => closing' /\ listens' = listens /\ draining' = draining
      /\ ~closing /\ closing' => listens' = {} /\ (~NoneInFlight' => draining')
      /\ ~closing' => listens' = listens
      /\ out' = msgs \/ out' = {}
    BY <1>1, SendFacts DEF SessionInv
<1>4. buffered' \in 0..MaxLines /\ phase \in {"exec", "quit"}
    BY LineTaken DEF SessionInv
<1>5. NoneInFlight' = NoneInFlight
    BY <1>2 DEF NoneInFlight
<1>6. QuitExactlyWhenDrained' /\ phase' \in {"exec", "quit"}
    <2>1. QuitIf(ShutdownFinished \/ FALSE)
        BY <1>1 DEF QuitIf
    <2> QED
        BY <1>3, <1>4, <1>5, <2>1, QuitKept DEF SessionInv
<1>7. SessionTypes'
    BY <1>1, <1>2, <1>3, <1>4, <1>6 DEF SessionInv, SessionTypes
<1>8. ResultsKept'
    BY <1>3 DEF ResultsKept
<1>9. ModernCallsExact'
    BY <1>1, <1>2, ModernUnchanged DEF SessionInv
<1>10. StreamsClosed' /\ OneUsePerId'
    BY <1>2, <1>3 DEF SessionInv, SessionTypes, StreamsClosed, OneUsePerId
<1> QED
    BY <1>6, <1>7, <1>8, <1>9, <1>10 DEF SessionInv

\* So does the opening of a stream, even when its acknowledgment fails.
LEMMA ListenInv ==
    ASSUME SessionInv, NEW r \in Requests, Listen(r)
    PROVE  SessionInv'
<1>0. buffered' \in 0..MaxLines /\ phase \in {"exec", "quit"}
    BY LineTaken DEF SessionInv, Listen, Dispatched
<1>1. CASE closing
    BY <1>0, <1>1, IgnoringInv DEF Listen
<1>2. CASE ~closing
    <2> DEFINE open == listens \cup {r.id}
    <2>1. /\ UNCHANGED runnerVars /\ modernCalls' = modernCalls /\ era' = era
          /\ Send({}, open) /\ QuitIf(ShutdownFinished)
          /\ r.id \in Ids /\ inFlight[r.id] = None
        BY <1>2 DEF Listen, Dispatched, IdInUse, Requests
    <2>2. calls' = calls /\ inFlight' = inFlight /\ cancelled' = cancelled
        BY <2>1 DEF runnerVars
    <2>3. /\ reading' \in BOOLEAN /\ broken' \in BOOLEAN
          /\ closing' \in BOOLEAN /\ draining' \in BOOLEAN
          /\ closing' => listens' = {} /\ (~NoneInFlight' => draining')
          /\ ~closing' => listens' = open
          /\ out' = {}
        BY <1>2, <2>1, SendFacts DEF SessionInv
    <2>4. NoneInFlight' = NoneInFlight
        BY <2>2 DEF NoneInFlight
    <2>5. QuitExactlyWhenDrained' /\ phase' \in {"exec", "quit"}
        <3>1. QuitIf(ShutdownFinished \/ FALSE)
            BY <2>1 DEF QuitIf
        <3> QED
            BY <1>0, <1>2, <2>3, <2>4, <3>1, QuitKept DEF SessionInv
    <2>6. SessionTypes' /\ ResultsKept'
        BY <1>0, <2>1, <2>2, <2>3, <2>5 DEF SessionInv, SessionTypes, ResultsKept
    <2>7. ModernCallsExact'
        BY <2>1, <2>2, ModernUnchanged DEF SessionInv
    <2>8. StreamsClosed' /\ OneUsePerId'
        BY <2>1, <2>2, <2>3 DEF SessionInv, StreamsClosed, OneUsePerId
    <2> QED
        BY <2>5, <2>6, <2>7, <2>8 DEF SessionInv
<1> QED
    BY <1>1, <1>2

\* So does the acceptance of a call.
LEMMA ToolsCallInv ==
    ASSUME SessionInv, RunnerInv, NEW r \in Requests, ToolsCall(r)
    PROVE  SessionInv'
<1> DEFINE c == Len(calls) + 1
           e == IF Modern(r) THEN "modern" ELSE "legacy"
<1>1. /\ TakeLine /\ ~closing /\ r.id \notin listens
      /\ Submit(r.id, r.pool)
      /\ modernCalls' = IF Modern(r) THEN modernCalls \cup {r.id} ELSE modernCalls
      /\ era' = Append(era, e)
      /\ out' = {}
      /\ UNCHANGED <<reading, broken, listens, closing, draining, phase>>
    BY DEF ToolsCall, Dispatched, IdInUse, AcceptsCalls
<1>2. r.id \in Ids /\ r.pool \in Pools
    BY DEF Requests
<1>3. /\ inFlight[r.id] = None
      /\ inFlight' = [inFlight EXCEPT ![r.id] = c]
      /\ cancelled' = cancelled /\ Len(calls') = c
      /\ Len(calls) \in Nat /\ Submitted = 1..Len(calls)
    <2>1. RunnerTypeOK
        BY DEF RunnerInv
    <2>2. Len(calls) \in Nat /\ Submitted = 1..Len(calls)
        BY <1>1, <1>2, <2>1, SubmitCalls
    <2>3. /\ inFlight[r.id] = None
          /\ inFlight' = [inFlight EXCEPT ![r.id] = c]
          /\ cancelled' = cancelled
          /\ calls' = Append(calls, [id |-> r.id, pool |-> r.pool])
        BY <1>1 DEF Submit
    <2>4. Len(calls') = c
        <3> DEFINE CallSet == [id : Ids, pool : Pools]
                   call == [id |-> r.id, pool |-> r.pool]
        <3>1. calls \in Seq(CallSet) /\ call \in CallSet
            BY <1>2, <2>1 DEF RunnerTypeOK
        <3>2. calls' = Append(calls, call)
            BY <2>3
        <3> HIDE DEF CallSet, call
        <3> QED
            BY <3>1, <3>2
    <2> QED
        BY <2>2, <2>3, <2>4
<1>4. buffered' \in 0..MaxLines /\ phase \in {"exec", "quit"}
    BY <1>1, LineTaken DEF SessionInv
<1>5. /\ era' \in Seq(Eras) /\ Len(era') = c /\ era'[c] = e
      /\ \A d \in 1..Len(calls) : era'[d] = era[d]
    <2>1. era \in Seq(Eras) /\ Len(era) = Len(calls) /\ e \in Eras
        BY DEF SessionInv, SessionTypes, Eras
    <2> QED
        BY <1>1, <1>3, <2>1
<1>6. SessionTypes' /\ ResultsKept'
    BY <1>1, <1>2, <1>3, <1>4, <1>5 DEF SessionInv, SessionTypes, ResultsKept
<1>7. ModernCallsExact'
    <2>1. /\ cancelled \subseteq 1..Len(calls)
          /\ inFlight \in [Ids -> {None} \cup 1..Len(calls)]
        BY <1>3 DEF RunnerInv, RunnerTypeOK
    <2>2. c # None /\ c \notin cancelled
        BY <1>3, <2>1 DEF None
    <2>3. \A j \in Ids : j # r.id =>
            (j \in modernCalls' <=> /\ inFlight'[j] # None
                                    /\ inFlight'[j] \notin cancelled'
                                    /\ era'[inFlight'[j]] = "modern")
        BY <1>1, <1>3, <1>5, <2>1 DEF SessionInv, ModernCallsExact
    <2>4. r.id \notin modernCalls
        BY <1>3 DEF SessionInv, ModernCallsExact
    <2>5. inFlight'[r.id] = c
        BY <1>2, <1>3, <2>1
    <2>6. r.id \in modernCalls' <=> era'[inFlight'[r.id]] = "modern"
        BY <1>1, <1>5, <2>4, <2>5
    <2>7. modernCalls' \subseteq Ids
        BY <1>6 DEF SessionTypes
    <2> QED
        BY <1>3, <2>2, <2>3, <2>5, <2>6, <2>7 DEF ModernCallsExact
<1>8. QuitExactlyWhenDrained' /\ StreamsClosed'
    BY <1>1 DEF SessionInv, QuitExactlyWhenDrained, StreamsClosed
<1>9. OneUsePerId'
    BY <1>1, <1>3 DEF SessionInv, OneUsePerId, SessionTypes
<1> QED
    BY <1>6, <1>7, <1>8, <1>9 DEF SessionInv

\* So does a cancellation, of a stream or of a call.
LEMMA CancelledInv ==
    ASSUME SessionInv, RunnerInv, NEW i \in Ids, Cancelled(i)
    PROVE  SessionInv'
<1>1. /\ TakeLine /\ out' = {}
      /\ UNCHANGED <<reading, broken, closing, draining, phase, era>>
    BY DEF Cancelled
<1>2. buffered' \in 0..MaxLines /\ phase \in {"exec", "quit"}
    BY <1>1, LineTaken DEF SessionInv
<1>3. CASE i \in listens /\ listens' = listens \ {i} /\ UNCHANGED <<runnerVars, modernCalls>>
    <2>1. /\ calls' = calls /\ inFlight' = inFlight /\ cancelled' = cancelled
          /\ modernCalls' = modernCalls
        BY <1>3 DEF runnerVars
    <2>2. SessionTypes' /\ ResultsKept'
        BY <1>1, <1>2, <1>3, <2>1 DEF SessionInv, SessionTypes, ResultsKept
    <2>3. ModernCallsExact'
        BY <1>1, <2>1, ModernUnchanged DEF SessionInv
    <2>4. QuitExactlyWhenDrained' /\ StreamsClosed' /\ OneUsePerId'
        BY <1>1, <1>3, <2>1 DEF SessionInv, QuitExactlyWhenDrained, NoneInFlight,
                                StreamsClosed, OneUsePerId
    <2> QED
        BY <2>2, <2>3, <2>4 DEF SessionInv
<1>4. CASE i \notin listens /\ Cancel(i) /\ modernCalls' = modernCalls \ {i}
            /\ UNCHANGED listens
    <2>1. /\ calls' = calls /\ inFlight' = inFlight
          /\ cancelled' = cancelled \cup {inFlight[i]}
          /\ modernCalls' = modernCalls \ {i} /\ listens' = listens
        BY <1>4 DEF Cancel
    <2>2. SessionTypes' /\ ResultsKept'
        BY <1>1, <1>2, <2>1 DEF SessionInv, SessionTypes, ResultsKept
    <2>3. \A j \in Ids : inFlight[j] # None /\ inFlight[j] = inFlight[i] => j = i
        BY DEF RunnerInv, FlagOwner
    <2>4. ModernCallsExact'
        BY <1>1, <2>1, <2>3 DEF SessionInv, ModernCallsExact
    <2>5. QuitExactlyWhenDrained' /\ StreamsClosed' /\ OneUsePerId'
        BY <1>1, <2>1 DEF SessionInv, QuitExactlyWhenDrained, NoneInFlight,
                          StreamsClosed, OneUsePerId
    <2> QED
        BY <2>2, <2>4, <2>5 DEF SessionInv
<1>5. CASE UNCHANGED <<runnerVars, listens, modernCalls>>
    <2>1. Ignoring
        BY <1>1, <1>5 DEF Ignoring
    <2> QED
        BY <1>2, <2>1, IgnoringInv
<1> QED
    BY <1>3, <1>4, <1>5 DEF Cancelled

\* So does the handling of any line.
LEMMA LineInv ==
    ASSUME SessionInv, RunnerInv, Line
    PROVE  SessionInv'
<1>1. ASSUME TakeLine, Ignoring PROVE SessionInv'
    BY <1>1, LineTaken, IgnoringInv DEF SessionInv
<1>2. ASSUME NEW i \in Ids, NEW form \in Forms
      PROVE  /\ {Reply(i, form)} \in SUBSET Response
             /\ \A r \in {Reply(i, form)} : r.call = None
    BY DEF Reply, Response, None
<1>3. ASSUME NEW r \in Requests, AnswerNow(r) PROVE SessionInv'
    <2>1. r.id \in Ids /\ ReplyForm(r) \in Forms
        BY DEF Requests, ReplyForm, Forms
    <2> QED
        BY <1>2, <1>3, <2>1, AnsweringInv DEF AnswerNow, Dispatched
<1>4. ASSUME NEW r \in Requests, RefuseToolsCall(r) PROVE SessionInv'
    <2>1. r.id \in Ids /\ "error" \in Forms
        BY DEF Requests, Forms
    <2>2. TakeLine /\ (Ignoring \/ Answering({Reply(r.id, "error")}))
        BY <1>4 DEF RefuseToolsCall, Dispatched
    <2> QED
        BY <1>1, <1>2, <2>1, <2>2, AnsweringInv
<1>5. ASSUME NEW i \in Ids, IgnoreDuplicate(i) PROVE SessionInv'
    BY <1>1, <1>5 DEF IgnoreDuplicate
<1>6. ASSUME NEW i \in Ids, InvalidRequest(i) PROVE SessionInv'
    <2>1. "invalid" \in Forms
        BY DEF Forms
    <2> QED
        BY <1>2, <1>6, <2>1, AnsweringInv DEF InvalidRequest
<1>7. CASE IgnoredLine
    BY <1>1, <1>7 DEF IgnoredLine
<1>8. CASE InvalidLine
    <2>1. {} \in SUBSET Response /\ \A r \in {} : r.call = None
        OBVIOUS
    <2> QED
        BY <1>8, <2>1, AnsweringInv DEF InvalidLine
<1> QED
    BY <1>3, <1>4, <1>5, <1>6, <1>7, <1>8, ListenInv, ToolsCallInv, CancelledInv DEF Line

\* So does the end of stdin.
LEMMA EofInv ==
    ASSUME SessionInv, Eof
    PROVE  SessionInv'
<1>1. /\ phase \in {"exec", "quit"} /\ reading' = FALSE
      /\ UNCHANGED runnerVars /\ buffered' = buffered
      /\ modernCalls' = modernCalls /\ era' = era
      /\ Shutdown(listens)
      /\ QuitIf(ShutdownFinished)
      /\ broken' \in BOOLEAN
      /\ \E S \in SUBSET listens : out' = CloseResults(S)
    BY DEF Eof, InLoop, Alive, SessionInv, SessionTypes
<1>2. calls' = calls /\ inFlight' = inFlight /\ cancelled' = cancelled
    BY <1>1 DEF runnerVars
<1>3. /\ closing => closing' /\ listens' = listens /\ draining' = draining
      /\ ~closing => closing' /\ listens' = {} /\ (~NoneInFlight' => draining')
      /\ closing' \in BOOLEAN /\ draining' \in BOOLEAN
    <2>1. CASE closing
        BY <1>1, <2>1 DEF Shutdown, SessionInv, SessionTypes
    <2>2. CASE ~closing
        BY <1>1, <2>2 DEF Shutdown
    <2> QED
        BY <2>1, <2>2
<1>4. NoneInFlight' = NoneInFlight
    BY <1>2 DEF NoneInFlight
<1>5. QuitExactlyWhenDrained' /\ phase' \in {"exec", "quit"}
    <2>1. QuitIf(ShutdownFinished \/ FALSE)
        BY <1>1 DEF QuitIf
    <2> QED
        BY <1>1, <1>3, <1>4, <2>1, QuitKept DEF SessionInv
<1>6. out' \subseteq Response /\ \A r \in out' : r.call = None
    BY <1>1 DEF CloseResults, Reply, Response, Forms, None, SessionInv, SessionTypes
<1>7. SessionTypes' /\ ResultsKept'
    BY <1>1, <1>2, <1>3, <1>5, <1>6 DEF SessionInv, SessionTypes, ResultsKept
<1>8. ModernCallsExact'
    BY <1>1, <1>2, ModernUnchanged DEF SessionInv
<1>9. StreamsClosed' /\ OneUsePerId'
    BY <1>2, <1>3 DEF SessionInv, StreamsClosed, OneUsePerId
<1> QED
    BY <1>5, <1>7, <1>8, <1>9 DEF SessionInv

\* So does finish() with all that its signals trigger.
LEMMA HandleFinishInv ==
    ASSUME SessionInv, RunnerInv, HandleFinish
    PROVE  SessionInv'
<1> DEFINE c == Head(posted)
           i == calls[c].id
<1>1. /\ phase \in {"exec", "quit"} /\ Finish
      /\ buffered' = buffered /\ era' = era
      /\ QuitIf(ShutdownFinished \/ (NoneInFlight' /\ closing'))
      /\ \/ /\ EmitsResult(c)
            /\ modernCalls' = modernCalls \ {i}
            /\ Send({ToolResult(c)}, listens)
         \/ /\ ~EmitsResult(c)
            /\ out' = {}
            /\ UNCHANGED <<reading, broken, listens, modernCalls, closing, draining>>
    BY DEF HandleFinish, InLoop, Alive, Idle
<1>2. /\ c \in Submitted /\ inFlight[i] = c
      /\ EmitsResult(c) <=> c \notin cancelled
    BY <1>1, FinishMoves
<1>3. i \in Ids /\ c \in Nat \ {0} /\ c \in 1..Len(calls)
    BY <1>2, CallTypes, Members DEF RunnerInv, Submitted, RunnerTypeOK
<1>4. /\ inFlight' = [inFlight EXCEPT ![i] = None]
      /\ calls' = calls /\ cancelled' = cancelled
      /\ inFlight \in [Ids -> {None} \cup Submitted]
    BY <1>1 DEF Finish, RunnerInv, RunnerTypeOK
<1>5. NoneInFlight => NoneInFlight'
    BY <1>4 DEF NoneInFlight
<1>6. i \in modernCalls <=> c \notin cancelled /\ era[c] = "modern"
    BY <1>2, <1>3 DEF SessionInv, ModernCallsExact, None
<1>7. /\ reading' \in BOOLEAN /\ broken' \in BOOLEAN
      /\ closing' \in BOOLEAN /\ draining' \in BOOLEAN
      /\ closing => closing' /\ listens' = listens /\ draining' = draining
      /\ ~closing /\ closing' => listens' = {} /\ (~NoneInFlight' => draining')
      /\ ~closing' => listens' = listens
      /\ modernCalls' = modernCalls \ {i}
      /\ out' = {} \/ (out' = {ToolResult(c)} /\ c \notin cancelled)
    <2>1. CASE EmitsResult(c)
        BY <1>1, <1>2, <2>1, SendFacts DEF SessionInv
    <2>2. CASE ~EmitsResult(c)
        BY <1>1, <1>2, <1>6, <2>2 DEF SessionInv, SessionTypes
    <2> QED
        BY <2>1, <2>2
<1>8. QuitExactlyWhenDrained' /\ phase' \in {"exec", "quit"}
    <2> DEFINE X == NoneInFlight' /\ closing'
    <2>1. X \in BOOLEAN
        OBVIOUS
    <2>2. /\ X => NoneInFlight' /\ closing'
          /\ closing /\ ~NoneInFlight /\ NoneInFlight' => X
          /\ QuitIf(ShutdownFinished \/ X)
        BY <1>1, <1>7
    <2> HIDE DEF X
    <2> QED
        BY <1>1, <1>5, <1>7, <2>1, <2>2, QuitKept DEF SessionInv
<1>9. \A r \in out' : r \in Response /\ r.call = c /\ r.form = era[c]
    <2>1. era \in Seq(Eras) /\ Len(era) = Len(calls)
        BY DEF SessionInv, SessionTypes
    <2>2. c \in DOMAIN era
        BY <1>3, <2>1
    <2>3. era[c] \in Eras
        BY <2>1, <2>2, SeqElement
    <2>4. c \notin cancelled => ToolResult(c).form = era[c]
        BY <1>6, <2>3 DEF ToolResult, Eras
    <2>5. ToolResult(c) \in Response /\ ToolResult(c).call = c
        BY <1>3 DEF ToolResult, Response, Forms
    <2> QED
        BY <1>7, <2>4, <2>5
<1>10. ResultsKept'
    BY <1>1, <1>2, <1>4, <1>9 DEF ResultsKept, Submitted
<1>11. SessionTypes'
    BY <1>1, <1>4, <1>7, <1>8, <1>9 DEF SessionInv, SessionTypes
<1>12. ModernCallsExact'
    BY <1>1, <1>3, <1>4, <1>7 DEF SessionInv, ModernCallsExact
<1>13. StreamsClosed' /\ OneUsePerId'
    BY <1>3, <1>4, <1>7 DEF SessionInv, SessionTypes, StreamsClosed, OneUsePerId
<1> QED
    BY <1>8, <1>10, <1>11, <1>12, <1>13 DEF SessionInv

-----------------------------------------------------------------------------
(* The invariant and its consequences. *)

\* The invariant of the session holds at the start.
LEMMA SessionInit == Init => SessionInv
<1> SUFFICES ASSUME Init PROVE SessionInv
    OBVIOUS
<1>1. /\ reading = TRUE /\ buffered = 0 /\ broken = FALSE /\ listens = {}
      /\ modernCalls = {} /\ closing = FALSE /\ draining = FALSE /\ phase = "exec"
      /\ era = <<>> /\ out = {} /\ calls = <<>> /\ \A i \in Ids : inFlight[i] = None
    BY DEF Init, RunnerInit
<1>2. SessionTypes /\ ResultsKept
    <2>1. 0 \in 0..MaxLines
        BY MaxLinesAssumption
    <2>2. era \in Seq(Eras) /\ Len(era) = Len(calls)
        BY <1>1
    <2>3. ResultsKept
        BY <1>1 DEF ResultsKept
    <2> QED
        BY <1>1, <2>1, <2>2, <2>3 DEF SessionTypes
<1>3. ModernCallsExact /\ QuitExactlyWhenDrained /\ StreamsClosed /\ OneUsePerId
    BY <1>1 DEF ModernCallsExact, QuitExactlyWhenDrained, StreamsClosed, OneUsePerId
<1> QED
    BY <1>2, <1>3 DEF SessionInv

\* Steps after which the session is as before, but for the phase and the output.
LEMMA QuietInv ==
    ASSUME SessionInv, calls' = calls, inFlight' = inFlight, cancelled' = cancelled,
           out' \in {{}, out},
           UNCHANGED <<reading, buffered, broken, listens, modernCalls, closing,
                       draining, era>>,
           \/ phase' = phase
           \/ phase' = "exited"
           \/ phase = "quit" /\ phase' = "returned"
    PROVE  SessionInv'
<1>1. SessionTypes' /\ ResultsKept'
    BY DEF SessionInv, SessionTypes, ResultsKept, Submitted
<1>2. ModernCallsExact'
    BY ModernUnchanged DEF SessionInv
<1>3. QuitExactlyWhenDrained' /\ StreamsClosed' /\ OneUsePerId'
    BY DEF SessionInv, QuitExactlyWhenDrained, NoneInFlight, StreamsClosed, OneUsePerId
<1> QED
    BY <1>1, <1>2, <1>3 DEF SessionInv

\* The invariant of the session is inductive, given that of the runner.
LEMMA SessionStep == SessionInv /\ RunnerInv /\ [Next]_vars => SessionInv'
<1> SUFFICES ASSUME SessionInv, RunnerInv, [Next]_vars PROVE SessionInv'
    OBVIOUS
<1>1. CASE Line
    BY <1>1, LineInv
<1>2. ASSUME NEW n \in 1..MaxLines, Read(n) PROVE SessionInv'
    <2>1. Ignoring /\ buffered' \in 0..MaxLines
        BY <1>2, MaxLinesAssumption DEF Read
    <2> QED
        BY <2>1, IgnoringInv
<1>3. CASE Eof
    BY <1>3, EofInv
<1>4. CASE HandleFinish
    BY <1>4, HandleFinishInv
<1>5. CASE Return
    BY <1>5, QuietInv DEF Return, runnerVars
<1>6. CASE DrainTimeout
    BY <1>6, QuietInv DEF DrainTimeout, runnerVars
<1>7. CASE WorkerStep
    <2>1. calls' = calls /\ inFlight' = inFlight /\ cancelled' = cancelled
        BY <1>7 DEF WorkerStep, Worker, Start, Skip, Complete
    <2> QED
        BY <1>7, <2>1, QuietInv DEF WorkerStep, sessionVars
<1>8. CASE Terminated \/ UNCHANGED vars
    BY <1>8, QuietInv DEF Terminated, vars, runnerVars, sessionVars
<1> QED
    BY <1>1, <1>2, <1>3, <1>4, <1>5, <1>6, <1>7, <1>8 DEF Next

\* The invariants of the runner and of the session hold together.
THEOREM SessionInvariant == Spec => [](RunnerInv /\ SessionInv)
<1>1. Init => SessionInv
    BY SessionInit
<1>2. SessionInv /\ RunnerInv /\ [Next]_vars => SessionInv'
    BY SessionStep
<1>3. Spec => []RunnerInv
    BY ServerUsesRunner, RunnerInvariant, PTL
<1> QED
    BY <1>1, <1>2, <1>3, PTL DEF Spec

\* The server is well typed.
THEOREM ServerTypes == Spec => []TypeOK
<1>1. RunnerInv /\ SessionInv => TypeOK
    BY DEF RunnerInv, SessionInv, SessionTypes, TypeOK
<1> QED
    BY <1>1, SessionInvariant, PTL

\* The bookkeeping of eras follows the calls in flight.
THEOREM ModernCallsAreExact == Spec => []ModernCallsExact
<1>1. RunnerInv /\ SessionInv => ModernCallsExact
    BY DEF SessionInv
<1> QED
    BY <1>1, SessionInvariant, PTL

\* A result has the shape of the request's era.
THEOREM ErasAreKept == Spec => []EraKept
<1>1. RunnerInv /\ SessionInv => EraKept
    BY DEF SessionInv, ResultsKept, EraKept
<1> QED
    BY <1>1, SessionInvariant, PTL

\* quit() is called exactly when a shutdown has nothing left to wait for.
THEOREM QuitsWhenDrained == Spec => []QuitExactlyWhenDrained
<1>1. RunnerInv /\ SessionInv => QuitExactlyWhenDrained
    BY DEF SessionInv
<1> QED
    BY <1>1, SessionInvariant, PTL

\* main() never destroys a pool with a call in it.
THEOREM TeardownIsSafe == Spec => []SafeTeardown
<1>1. ASSUME RunnerInv, SessionInv, phase = "returned"
      PROVE  Live = {}
    <2>1. \A i \in Ids : inFlight[i] = None
        BY <1>1 DEF SessionInv, QuitExactlyWhenDrained, NoneInFlight
    <2>2. ASSUME NEW c \in Live PROVE FALSE
        <3>1. c \in Submitted /\ calls[c].id \in Ids /\ c # None
            BY <1>1, <2>2, Members, CallTypes DEF RunnerInv, None
        <3>2. inFlight[calls[c].id] = c
            BY <1>1, <2>2 DEF RunnerInv, FlagOwner
        <3> QED
            BY <2>1, <3>1, <3>2
    <2> QED
        BY <2>2
<1>2. RunnerInv /\ SessionInv => SafeTeardown
    BY <1>1 DEF SafeTeardown
<1> QED
    BY <1>2, SessionInvariant, PTL

\* No stream outlives the start of the shutdown.
THEOREM StreamsAreClosed == Spec => []StreamsClosed
<1>1. RunnerInv /\ SessionInv => StreamsClosed
    BY DEF SessionInv
<1> QED
    BY <1>1, SessionInvariant, PTL

\* No stream shares its id with a call in flight.
THEOREM IdsHaveOneUse == Spec => []OneUsePerId
<1>1. RunnerInv /\ SessionInv => OneUsePerId
    BY DEF SessionInv
<1> QED
    BY <1>1, SessionInvariant, PTL

-----------------------------------------------------------------------------
(* The responses. *)

\* The response of each kind of step that writes one.
LEMMA OutFacts ==
    ASSUME SessionInv, RunnerInv, Next
    PROVE  \/ out' = {}
           \/ UNCHANGED vars
           \/ \E r \in Requests, form \in Forms :
                    out' = {Reply(r.id, form)} /\ ~IdInUse(r.id)
           \/ \E i \in Ids : out' = {Reply(i, "invalid")}
           \/ Eof
           \/ HandleFinish
<1>0. ASSUME Ignoring PROVE out' = {}
    BY <1>0 DEF Ignoring
<1>1. ASSUME NEW msgs, Answering(msgs) PROVE out' = msgs \/ out' = {}
    BY <1>1, SendFacts DEF Answering, SessionInv
<1>2. CASE Line
    <2>1. ASSUME NEW r \in Requests, AnswerNow(r)
          PROVE  \/ out' = {}
                 \/ \E form \in Forms : out' = {Reply(r.id, form)} /\ ~IdInUse(r.id)
        <3>1. ReplyForm(r) \in Forms
            BY DEF ReplyForm, Forms
        <3> QED
            BY <1>1, <2>1, <3>1 DEF AnswerNow, Dispatched
    <2>2. ASSUME NEW r \in Requests, RefuseToolsCall(r)
          PROVE  \/ out' = {}
                 \/ \E form \in Forms : out' = {Reply(r.id, form)} /\ ~IdInUse(r.id)
        <3>1. "error" \in Forms
            BY DEF Forms
        <3> QED
            BY <1>0, <1>1, <2>2, <3>1 DEF RefuseToolsCall, Dispatched
    <2>3. ASSUME NEW r \in Requests, Listen(r) \/ ToolsCall(r)
          PROVE  out' = {}
        <3>1. CASE Listen(r) /\ ~closing
            BY <3>1, SendFacts DEF Listen, SessionInv
        <3> QED
            BY <1>0, <2>3, <3>1 DEF Listen, ToolsCall
    <2>4. ASSUME NEW i \in Ids, IgnoreDuplicate(i) \/ Cancelled(i) \/ InvalidRequest(i)
          PROVE  out' = {} \/ out' = {Reply(i, "invalid")}
        BY <1>0, <1>1, <2>4 DEF IgnoreDuplicate, Cancelled, InvalidRequest
    <2>5. CASE IgnoredLine \/ InvalidLine
        BY <1>0, <1>1, <2>5 DEF IgnoredLine, InvalidLine
    <2> QED
        BY <1>2, <2>1, <2>2, <2>3, <2>4, <2>5 DEF Line
<1>3. CASE \E n \in 1..MaxLines : Read(n)
    BY <1>0, <1>3 DEF Read
<1>4. CASE Return \/ DrainTimeout \/ WorkerStep
    BY <1>4 DEF Return, DrainTimeout, WorkerStep
<1>5. CASE Terminated
    BY <1>5 DEF Terminated
<1> QED
    BY <1>2, <1>3, <1>4, <1>5 DEF Next

\* The end of stdin closes every stream, and writes results of streams only.
LEMMA EofFacts ==
    ASSUME SessionInv, Eof
    PROVE  /\ listens' = {} /\ UNCHANGED runnerVars
           /\ \/ out' = CloseResults(listens) /\ broken' = broken
              \/ broken' /\ \E S \in SUBSET listens : out' = CloseResults(S)
<1>1. listens' = {}
    BY DEF Eof, Shutdown, SessionInv, StreamsClosed
<1> QED
    BY <1>1 DEF Eof

\* A response under an id in use is the answer of the request that holds the id.
THEOREM ResponsesAreOwn == Spec => OwnResponse
<1>1. ASSUME RunnerInv, SessionInv, [Next]_vars
      PROVE  [OwnResponses(Answers(out'))]_vars
    <2>1. CASE out' = {}
        BY <2>1 DEF OwnResponses, Answers
    <2>2. CASE UNCHANGED vars
        BY <2>2
    <2>3. ASSUME NEW r \in Requests, NEW form \in Forms,
                 out' = {Reply(r.id, form)}, ~IdInUse(r.id)
          PROVE  OwnResponses(Answers(out'))
        BY <2>3 DEF OwnResponses, Answers, IdInUse, Reply
    <2>4. ASSUME NEW i \in Ids, out' = {Reply(i, "invalid")}
          PROVE  OwnResponses(Answers(out'))
        BY <2>4 DEF OwnResponses, Answers, Reply
    <2>5. CASE Eof
        <3>1. \A r \in out' : r.id \in listens
            BY <1>1, <2>5, EofFacts DEF CloseResults, Reply
        <3>2. \A r \in out' : inFlight[r.id] = None /\ r.id \notin listens'
            BY <1>1, <2>5, <3>1, EofFacts DEF SessionInv, OneUsePerId
        <3> QED
            BY <3>2 DEF OwnResponses, Answers
    <2>6. CASE HandleFinish
        <3> DEFINE c == Head(posted)
        <3>1. inFlight[calls[c].id] = c /\ (EmitsResult(c) <=> c \notin cancelled)
            BY <1>1, <2>6, FinishMoves DEF HandleFinish
        <3>2. c # None /\ calls[c].id \in Ids
            BY <1>1, <2>6, FinishMoves, Members, CallTypes DEF HandleFinish, RunnerInv, None
        <3>3. out' = {} \/ (out' = {ToolResult(c)} /\ c \notin cancelled)
            BY <1>1, <2>6, <3>1, SendFacts DEF HandleFinish, SessionInv
        <3>4. calls[c].id \notin listens
            BY <1>1, <3>1, <3>2 DEF SessionInv, OneUsePerId
        <3> QED
            BY <3>1, <3>3, <3>4 DEF OwnResponses, Answers, ToolResult
    <2> QED
        BY <1>1, <2>1, <2>2, <2>3, <2>4, <2>5, <2>6, OutFacts
<1> QED
    BY <1>1, SessionInvariant, PTL DEF Spec, OwnResponse

-----------------------------------------------------------------------------
(* The contract on request ids. *)

\* Once a write has failed nothing more is read and the bridge is closing.
LinkDown == broken => closing /\ ~reading

\* The link between the transport and the shutdown is kept by every step.
LEMMA LinkStep == SessionInv /\ LinkDown /\ [Next]_vars => LinkDown'
<1> SUFFICES ASSUME SessionInv, LinkDown, [Next]_vars PROVE LinkDown'
    OBVIOUS
<1>1. ASSUME UNCHANGED <<reading, broken, closing>> PROVE LinkDown'
    BY <1>1 DEF LinkDown
<1>2. ASSUME NEW msgs, NEW open, Send(msgs, open) PROVE LinkDown'
    <2>1. CASE broken' = TRUE /\ reading' = FALSE /\ Shutdown(open)
        BY <2>1 DEF Shutdown, LinkDown
    <2> QED
        BY <1>1, <1>2, <2>1 DEF Send
<1>3. CASE Line
    <2>1. ASSUME NEW r \in Requests, AnswerNow(r) \/ RefuseToolsCall(r) PROVE LinkDown'
        BY <1>1, <1>2, <2>1 DEF AnswerNow, RefuseToolsCall, Ignoring, Answering
    <2>2. ASSUME NEW r \in Requests, Listen(r) \/ ToolsCall(r)
          PROVE  LinkDown'
        BY <1>1, <1>2, <2>2 DEF Listen, ToolsCall, Ignoring
    <2>3. ASSUME NEW i \in Ids, IgnoreDuplicate(i) \/ Cancelled(i) \/ InvalidRequest(i)
          PROVE  LinkDown'
        BY <1>1, <1>2, <2>3 DEF IgnoreDuplicate, Cancelled, InvalidRequest, Answering,
                                Ignoring
    <2>4. CASE IgnoredLine \/ InvalidLine
        BY <1>1, <1>2, <2>4 DEF IgnoredLine, InvalidLine, Ignoring, Answering
    <2> QED
        BY <1>3, <2>1, <2>2, <2>3, <2>4 DEF Line
<1>4. CASE \E n \in 1..MaxLines : Read(n)
    BY <1>1, <1>4 DEF Read, Ignoring
<1>5. CASE Eof
    BY <1>5 DEF Eof, Shutdown, LinkDown
<1>6. CASE HandleFinish
    BY <1>1, <1>2, <1>6 DEF HandleFinish
<1>7. CASE Return \/ DrainTimeout \/ WorkerStep \/ Terminated \/ UNCHANGED vars
    BY <1>1, <1>7 DEF Return, DrainTimeout, WorkerStep, Terminated, vars, sessionVars
<1> QED
    BY <1>3, <1>4, <1>5, <1>6, <1>7 DEF Next

\* The invariant the refinement rests on.
ServerInv == RunnerInv /\ SessionInv /\ LinkDown

\* The invariants of the runner, of the session and their link hold together.
THEOREM ServerInvariant == Spec => []ServerInv
<1>1. Init => LinkDown
    BY DEF Init, LinkDown
<1>2. SessionInv /\ LinkDown /\ [Next]_vars => LinkDown'
    BY LinkStep
<1> QED
    BY <1>1, <1>2, SessionInvariant, PTL DEF Spec, ServerInv

Wire(rs) == {r.id : r \in Answers(rs)}

\* An answered id.
LEMMA WireFacts ==
    /\ Wire({}) = {}
    /\ \A i \in Ids : Wire({Reply(i, "invalid")}) = {}
    /\ \A i \in Ids, form \in Forms \ {"invalid"} : Wire({Reply(i, form)}) = {i}
    /\ \A S \in SUBSET Ids : Wire(CloseResults(S)) = S
    /\ \A c \in Submitted : Wire({ToolResult(c)}) = {calls[c].id}
<1>1. ASSUME NEW r
      PROVE  Wire({r}) = IF r.form = "invalid" THEN {} ELSE {r.id}
    BY DEF Wire, Answers
<1>2. Wire({}) = {}
    BY DEF Wire, Answers
<1>3. ASSUME NEW i \in Ids, NEW form \in Forms
      PROVE  Wire({Reply(i, form)}) = IF form = "invalid" THEN {} ELSE {i}
    BY <1>1 DEF Reply
<1>4. ASSUME NEW S \in SUBSET Ids
      PROVE  Wire(CloseResults(S)) = S
    <2>1. \A i \in S : /\ Reply(i, "modern").id = i
                       /\ Reply(i, "modern").form # "invalid"
        BY DEF Reply
    <2>2. Answers(CloseResults(S)) = CloseResults(S)
        BY <2>1 DEF Answers, CloseResults
    <2> QED
        BY <2>1, <2>2 DEF Wire, CloseResults
<1>5. ASSUME NEW c \in Submitted
      PROVE  Wire({ToolResult(c)}) = {calls[c].id}
    BY <1>1 DEF ToolResult
<1> QED
    BY <1>2, <1>3, <1>4, <1>5 DEF Forms

\* The state of an id in the contract is read off the session.
LEMMA IdStateFacts ==
    ASSUME OneUsePerId, NEW i \in Ids
    PROVE  /\ IdState[i] = "pending" <=> i \in Open
           /\ IdState[i] = "muted" <=> inFlight[i] # None /\ inFlight[i] \in cancelled
           /\ IdState[i] = "idle" <=> ~IdInUse(i)
BY DEF IdState, Open, IdInUse, OneUsePerId

\* Steps that leave the ids alone, or only answer one that is free.
LEMMA QuietStep ==
    ASSUME inFlight' = inFlight, cancelled' = cancelled, listens' = listens,
           broken' = broken, Wire(out') = {}
    PROVE  Contract!Quiet
<1>1. Open' = Open
    BY DEF Open
<1>2. IdState' = IdState
    BY <1>1 DEF IdState
<1> QED
    BY <1>2 DEF Contract!Quiet, Wire

\* A failing write ends the streams, and the call it was to answer, if any.
LEMMA BreakStep ==
    ASSUME ServerInv, ~broken, broken' = TRUE, out' = {}, cancelled' = cancelled,
           listens' = {}, NEW L, L \subseteq Open, listens \subseteq L,
           \A i \in Ids \ L : inFlight'[i] = inFlight[i],
           \A i \in L : inFlight'[i] = None
    PROVE  [Contract!Next]_(Contract!contractVars)
<1>1. \A i \in Ids : i \in Open' <=> i \in Open /\ i \notin L
    BY DEF Open
<1>2. IdState' = [i \in Ids |-> IF i \in {} \cup L THEN "idle" ELSE IdState[i]]
    BY <1>1 DEF IdState
<1>3. {} \cup L \subseteq Contract!Pending
    BY DEF Contract!Pending, IdState, Open
<1>4. Contract!BreakDown({}, L)
    BY <1>2, <1>3, WireFacts DEF Contract!BreakDown, Wire
<1>5. \E S, T \in SUBSET Ids : Contract!BreakDown(S, T)
    <2>1. {} \in SUBSET Ids /\ L \in SUBSET Ids
        BY DEF Open
    <2> QED
        BY <1>4, <2>1
<1> QED
    BY <1>5 DEF Contract!Next

\* A handler that only writes: quiet, an answer at once, or a broken output.
LEMMA AnsweringRefines ==
    ASSUME ServerInv, NEW msgs, Answering(msgs),
           \/ Wire(msgs) = {}
           \/ \E i \in Ids : Wire(msgs) = {i} /\ ~IdInUse(i)
    PROVE  [Contract!Next]_(Contract!contractVars)
<1>1. /\ inFlight' = inFlight /\ cancelled' = cancelled
      /\ Send(msgs, listens)
    BY DEF Answering, runnerVars
<1>2. CASE ~broken /\ broken' = broken /\ out' = msgs /\ listens' = listens
    <2>1. CASE Wire(msgs) = {}
        BY <1>1, <1>2, <2>1, QuietStep DEF Contract!Next
    <2>2. ASSUME NEW i \in Ids, Wire(msgs) = {i}, ~IdInUse(i)
          PROVE  Contract!AnswerAtOnce(i)
        <3>1. IdState[i] = "idle"
            BY <2>2, IdStateFacts DEF ServerInv, SessionInv
        <3>2. IdState' = IdState
            BY <1>1, <1>2 DEF IdState, Open
        <3> QED
            BY <1>2, <2>2, <3>1, <3>2 DEF Contract!AnswerAtOnce, Wire
    <2> QED
        BY <2>1, <2>2 DEF Contract!Next
<1>3. CASE broken /\ broken' = broken /\ out' = {} /\ listens' = listens
    BY <1>1, <1>3, WireFacts, QuietStep DEF Contract!Next
<1>4. CASE ~broken /\ broken' = TRUE /\ out' = {} /\ Shutdown(listens)
    <2>1. listens' = {}
        BY <1>4 DEF Shutdown, ServerInv, SessionInv, StreamsClosed
    <2>2. /\ listens \subseteq Open
          /\ \A i \in Ids \ listens : inFlight'[i] = inFlight[i]
          /\ \A i \in listens : inFlight'[i] = None
        BY <1>1 DEF Open, ServerInv, SessionInv, SessionTypes, OneUsePerId
    <2> QED
        BY <1>1, <1>4, <2>1, <2>2, BreakStep
<1> QED
    BY <1>1, <1>2, <1>3, <1>4 DEF Send

\* A handler that does nothing.
LEMMA IgnoringRefines ==
    ASSUME Ignoring
    PROVE  [Contract!Next]_(Contract!contractVars)
BY WireFacts, QuietStep DEF Ignoring, runnerVars, Contract!Next

\* A stream is opened: its id is pending from then on.
LEMMA ListenRefines ==
    ASSUME ServerInv, NEW r \in Requests, Listen(r)
    PROVE  [Contract!Next]_(Contract!contractVars)
<1>1. CASE closing
    BY <1>1, IgnoringRefines DEF Listen
<1>2. CASE ~closing
    <2> DEFINE open == listens \cup {r.id}
    <2>1. /\ inFlight' = inFlight /\ cancelled' = cancelled
          /\ Send({}, open) /\ ~broken
          /\ r.id \in Ids /\ ~IdInUse(r.id)
        BY <1>2 DEF Listen, Dispatched, Requests, runnerVars, ServerInv, LinkDown
    <2>2. CASE broken' = broken /\ out' = {} /\ listens' = open
        <3>1. IdState[r.id] = "idle"
            BY <2>1, IdStateFacts DEF ServerInv, SessionInv
        <3>2. Open' = Open \cup {r.id}
            BY <2>1, <2>2 DEF Open
        <3>3. IdState' = [IdState EXCEPT ![r.id] = "pending"]
            BY <2>1, <3>2 DEF IdState
        <3>4. Contract!Accept(r.id)
            BY <2>1, <2>2, <3>1, <3>3, WireFacts DEF Contract!Accept, Wire
        <3> QED
            BY <2>1, <3>4 DEF Contract!Next
    <2>3. CASE broken' = TRUE /\ out' = {} /\ Shutdown(open)
        <3>1. listens' = {}
            BY <1>2, <2>3 DEF Shutdown
        <3>2. /\ listens \subseteq Open
              /\ \A i \in Ids \ listens : inFlight'[i] = inFlight[i]
              /\ \A i \in listens : inFlight'[i] = None
            BY <2>1 DEF Open, ServerInv, SessionInv, SessionTypes, OneUsePerId
        <3> QED
            BY <2>1, <2>3, <3>1, <3>2, BreakStep
    <2> QED
        BY <2>1, <2>2, <2>3 DEF Send
<1> QED
    BY <1>1, <1>2

\* A call is accepted: its id is pending from then on.
LEMMA ToolsCallRefines ==
    ASSUME ServerInv, NEW r \in Requests, ToolsCall(r)
    PROVE  [Contract!Next]_(Contract!contractVars)
<1> DEFINE c == Len(calls) + 1
<1>1. /\ ~broken /\ broken' = broken /\ out' = {} /\ listens' = listens
      /\ r.id \in Ids /\ ~IdInUse(r.id) /\ r.pool \in Pools
      /\ Submit(r.id, r.pool)
    BY DEF ToolsCall, AcceptsCalls, Dispatched, Requests, ServerInv, LinkDown
<1>2. /\ inFlight' = [inFlight EXCEPT ![r.id] = c] /\ cancelled' = cancelled
      /\ c # None /\ c \notin cancelled
      /\ inFlight \in [Ids -> {None} \cup Submitted]
    <2>1. RunnerTypeOK
        BY DEF ServerInv, RunnerInv
    <2>2. c \in Nat \ {0} /\ c \notin Submitted
        <3>1. Len(calls) \in Nat /\ c \notin Submitted
            BY <1>1, <2>1, SubmitCalls
        <3> QED
            BY <3>1
    <2> QED
        BY <1>1, <2>1, <2>2 DEF Submit, RunnerTypeOK, None
<1>3. IdState[r.id] = "idle"
    BY <1>1, IdStateFacts DEF ServerInv, SessionInv
<1>4. Open' = Open \cup {r.id}
    BY <1>1, <1>2 DEF Open
<1>5. IdState' = [IdState EXCEPT ![r.id] = "pending"]
    BY <1>1, <1>2, <1>4 DEF IdState
<1>6. Contract!Accept(r.id)
    BY <1>1, <1>3, <1>5, WireFacts DEF Contract!Accept, Wire
<1> QED
    BY <1>1, <1>6 DEF Contract!Next

\* The client gives up: a stream's id is free, a call's id is muted.
LEMMA CancelledRefines ==
    ASSUME ServerInv, NEW i \in Ids, Cancelled(i)
    PROVE  [Contract!Next]_(Contract!contractVars)
<1>1. out' = {} /\ broken' = broken /\ OneUsePerId
    BY DEF Cancelled, ServerInv, SessionInv
<1>2. CASE i \in listens /\ listens' = listens \ {i} /\ UNCHANGED runnerVars
    <2>1. inFlight' = inFlight /\ cancelled' = cancelled /\ inFlight[i] = None
        BY <1>1, <1>2 DEF runnerVars, OneUsePerId
    <2>2. IdState[i] = "pending"
        BY <1>1, <1>2, IdStateFacts DEF Open
    <2>3. Open' = Open \ {i}
        BY <1>2, <2>1 DEF Open
    <2>4. IdState' = [IdState EXCEPT ![i] = "idle"]
        BY <2>1, <2>3 DEF IdState
    <2>5. Contract!Cancel(i)
        BY <1>1, <2>2, <2>4, WireFacts DEF Contract!Cancel, Wire
    <2> QED
        BY <2>5 DEF Contract!Next
<1>3. CASE i \notin listens /\ Cancel(i) /\ UNCHANGED listens
    <2>1. /\ inFlight[i] # None /\ cancelled' = cancelled \cup {inFlight[i]}
          /\ inFlight' = inFlight /\ listens' = listens
        BY <1>3 DEF Cancel
    <2>2. CASE inFlight[i] \in cancelled
        <3>1. cancelled' = cancelled
            BY <2>1, <2>2
        <3> QED
            BY <1>1, <2>1, <3>1, WireFacts, QuietStep DEF Contract!Next
    <2>3. CASE inFlight[i] \notin cancelled
        <3>1. IdState[i] = "pending"
            BY <1>1, <2>1, <2>3, IdStateFacts DEF Open
        <3>2. \A j \in Ids : inFlight[j] # None /\ inFlight[j] = inFlight[i] => j = i
            BY DEF ServerInv, RunnerInv, FlagOwner
        <3>3. Open' = Open \ {i}
            BY <1>3, <2>1, <3>2 DEF Open
        <3>4. IdState' = [IdState EXCEPT ![i] = "muted"]
            BY <2>1, <3>3 DEF IdState
        <3>5. Contract!Cancel(i)
            BY <1>1, <3>1, <3>4, WireFacts DEF Contract!Cancel, Wire
        <3> QED
            BY <3>5 DEF Contract!Next
    <2> QED
        BY <2>2, <2>3
<1>4. CASE UNCHANGED <<runnerVars, listens>>
    BY <1>1, <1>4, WireFacts, QuietStep DEF runnerVars, Contract!Next
<1> QED
    BY <1>2, <1>3, <1>4 DEF Cancelled

\* The end of stdin answers every stream, or those a failing write lets out.
LEMMA EofRefines ==
    ASSUME ServerInv, Eof
    PROVE  [Contract!Next]_(Contract!contractVars)
<1>1. /\ listens' = {} /\ inFlight' = inFlight /\ cancelled' = cancelled
      /\ reading /\ ~broken
      /\ listens \subseteq Ids /\ OneUsePerId
    BY EofFacts DEF ServerInv, SessionInv, SessionTypes, LinkDown, Eof, runnerVars
<1>2. listens \subseteq Open /\ \A i \in Ids : i \in Open' <=> i \in Open /\ i \notin listens
    BY <1>1 DEF Open, OneUsePerId
<1>3. IdState' = [i \in Ids |-> IF i \in listens THEN "idle" ELSE IdState[i]]
    BY <1>1, <1>2 DEF IdState, OneUsePerId
<1>4. listens \subseteq Contract!Pending
    BY <1>1, <1>2, IdStateFacts DEF Contract!Pending
<1>5. CASE out' = CloseResults(listens) /\ broken' = broken
    <2>1. Wire(out') = listens
        BY <1>1, <1>5, WireFacts
    <2>2. CASE listens = {}
        BY <1>1, <1>5, <2>1, <2>2, QuietStep DEF Contract!Next
    <2>3. CASE listens # {}
        <3>1. PICK S \in SUBSET Ids : S = listens
            BY <1>1
        <3>2. Contract!Answer(S)
            BY <1>1, <1>3, <1>4, <1>5, <2>1, <2>3, <3>1 DEF Contract!Answer, Wire
        <3> QED
            BY <3>2 DEF Contract!Next
    <2> QED
        BY <2>2, <2>3
<1>6. ASSUME NEW S \in SUBSET listens, broken', out' = CloseResults(S)
      PROVE  [Contract!Next]_(Contract!contractVars)
    <2>0. PICK L \in SUBSET Ids : L = listens \ S
        BY <1>1
    <2>1. Wire(out') = S /\ S \cup L = listens /\ S \in SUBSET Ids
        BY <1>1, <1>6, <2>0, WireFacts
    <2>2. IdState' = [i \in Ids |-> IF i \in S \cup L THEN "idle" ELSE IdState[i]]
        BY <1>3, <2>1
    <2>3. /\ S \cup L \subseteq Contract!Pending
          /\ {r.id : r \in Answers(out)}' = S
        BY <1>4, <2>1 DEF Wire
    <2>4. Contract!BreakDown(S, L)
        BY <1>1, <1>6, <2>2, <2>3 DEF Contract!BreakDown
    <2> QED
        BY <2>1, <2>4 DEF Contract!Next
<1> QED
    BY <1>5, <1>6, EofFacts DEF ServerInv

\* finish() answers the call that holds the id, or releases the id of a muted one.
LEMMA HandleFinishRefines ==
    ASSUME ServerInv, HandleFinish
    PROVE  [Contract!Next]_(Contract!contractVars)
<1> DEFINE c == Head(posted)
<1>0. PICK i : i = calls[c].id
    OBVIOUS
<1>1. /\ Finish
      /\ \/ EmitsResult(c) /\ Send({ToolResult(c)}, listens)
         \/ ~EmitsResult(c) /\ out' = {} /\ UNCHANGED <<broken, listens>>
    BY DEF HandleFinish
<1>2. /\ c \in Submitted /\ inFlight[i] = c
      /\ EmitsResult(c) <=> c \notin cancelled
    BY <1>0, <1>1, FinishMoves DEF ServerInv
<1>3. /\ i \in Ids /\ c # None /\ OneUsePerId
      /\ listens \subseteq Ids
    BY <1>0, <1>2, CallTypes, Members DEF ServerInv, RunnerInv, SessionInv, SessionTypes, None
<1>4. /\ inFlight' = [inFlight EXCEPT ![i] = None] /\ cancelled' = cancelled
      /\ inFlight \in [Ids -> {None} \cup Submitted]
    BY <1>0, <1>1 DEF Finish, ServerInv, RunnerInv, RunnerTypeOK
<1>5. i \notin listens
    BY <1>2, <1>3 DEF OneUsePerId
<1>6. CASE ~EmitsResult(c) /\ out' = {} /\ UNCHANGED <<broken, listens>>
    <2>1. IdState[i] = "muted" /\ i \notin Open
        BY <1>2, <1>3, <1>5, <1>6, IdStateFacts DEF Open
    <2>2. Open' = Open
        BY <1>2, <1>3, <1>4, <1>6, <2>1 DEF Open
    <2>3. IdState' = [IdState EXCEPT ![i] = "idle"]
        BY <1>3, <1>4, <2>1, <2>2 DEF IdState
    <2>4. Contract!Release(i)
        BY <1>6, <2>1, <2>3, WireFacts DEF Contract!Release, Wire
    <2> QED
        BY <1>3, <2>4 DEF Contract!Next
<1>7. CASE EmitsResult(c) /\ Send({ToolResult(c)}, listens)
    <2>1. i \in Open /\ IdState[i] = "pending"
        BY <1>2, <1>3, <1>7, IdStateFacts DEF Open
    <2>2. CASE broken' = broken /\ listens' = listens
        <3>1. \A j \in Ids : j \in Open' <=> j \in Open /\ j # i
            BY <1>3, <1>4, <1>5, <2>2 DEF Open
        <3>2. IdState' = [j \in Ids |-> IF j \in {i} THEN "idle" ELSE IdState[j]]
            BY <1>3, <1>4, <3>1 DEF IdState
        <3>3. CASE ~broken /\ out' = {ToolResult(c)}
            <4>1. Wire(out') = {i}
                BY <1>0, <1>2, <3>3, WireFacts
            <4>2. {i} \subseteq Contract!Pending /\ {i} # {} /\ {i} \in SUBSET Ids
                BY <1>3, <2>1 DEF Contract!Pending
            <4>3. Contract!Answer({i})
                BY <2>2, <3>2, <3>3, <4>1, <4>2 DEF Contract!Answer, Wire
            <4> QED
                BY <4>2, <4>3 DEF Contract!Next
        <3>4. CASE broken /\ out' = {}
            <4>1. IdState' = [IdState EXCEPT ![i] = "idle"]
                BY <1>3, <3>2 DEF IdState
            <4>2. Contract!Drop(i)
                BY <2>1, <2>2, <3>4, <4>1, WireFacts DEF Contract!Drop, Wire
            <4> QED
                BY <1>3, <4>2 DEF Contract!Next
        <3> QED
            BY <1>7, <2>2, <3>3, <3>4 DEF Send
    <2>3. CASE ~broken /\ broken' = TRUE /\ out' = {} /\ Shutdown(listens)
        <3>1. listens' = {}
            BY <2>3 DEF Shutdown, ServerInv, SessionInv, StreamsClosed
        <3> DEFINE L == listens \cup {i}
        <3>2. L \subseteq Open /\ listens \subseteq L
            BY <1>3, <2>1 DEF Open
        <3>3. /\ \A j \in Ids \ L : inFlight'[j] = inFlight[j]
              /\ \A j \in L : inFlight'[j] = None
            BY <1>3, <1>4 DEF OneUsePerId
        <3> HIDE DEF L
        <3> QED
            BY <1>4, <2>3, <3>1, <3>2, <3>3, BreakStep
    <2> QED
        BY <1>7, <2>2, <2>3 DEF Send
<1> QED
    BY <1>1, <1>6, <1>7

\* Every step of the server is a step of the contract, or a stutter.
LEMMA ContractStep ==
    ServerInv /\ [Next]_vars => [Contract!Next]_(Contract!contractVars)
<1> SUFFICES ASSUME ServerInv, [Next]_vars
             PROVE  [Contract!Next]_(Contract!contractVars)
    OBVIOUS
<1>1. CASE Line
    <2>1. ASSUME NEW r \in Requests, AnswerNow(r)
          PROVE  [Contract!Next]_(Contract!contractVars)
        <3>1. PICK i \in Ids : i = r.id
            BY DEF Requests
        <3>2. PICK form \in Forms \ {"invalid"} : form = ReplyForm(r)
            BY DEF ReplyForm, Forms
        <3>3. Wire({Reply(i, form)}) = {i} /\ ~IdInUse(i)
            BY <2>1, <3>1, WireFacts DEF AnswerNow, Dispatched
        <3>4. Answering({Reply(i, form)})
            BY <2>1, <3>1, <3>2 DEF AnswerNow
        <3> QED
            BY <3>3, <3>4, AnsweringRefines
    <2>2. ASSUME NEW r \in Requests, RefuseToolsCall(r)
          PROVE  [Contract!Next]_(Contract!contractVars)
        <3>1. PICK i \in Ids : i = r.id
            BY DEF Requests
        <3>2. Wire({Reply(i, "error")}) = {i} /\ ~IdInUse(i)
            BY <2>2, <3>1, WireFacts DEF RefuseToolsCall, Dispatched, Forms
        <3>3. Ignoring \/ Answering({Reply(i, "error")})
            BY <2>2, <3>1 DEF RefuseToolsCall
        <3> QED
            BY <3>2, <3>3, AnsweringRefines, IgnoringRefines
    <2>3. ASSUME NEW i \in Ids, InvalidRequest(i)
          PROVE  [Contract!Next]_(Contract!contractVars)
        BY <2>3, WireFacts, AnsweringRefines DEF InvalidRequest
    <2>4. CASE InvalidLine
        BY <2>4, WireFacts, AnsweringRefines DEF InvalidLine
    <2> QED
        BY <1>1, <2>1, <2>2, <2>3, <2>4, IgnoringRefines, ListenRefines,
           ToolsCallRefines, CancelledRefines
        DEF Line, IgnoreDuplicate, IgnoredLine
<1>2. CASE \E n \in 1..MaxLines : Read(n)
    BY <1>2, IgnoringRefines DEF Read
<1>3. CASE Eof
    BY <1>3, EofRefines
<1>4. CASE HandleFinish
    BY <1>4, HandleFinishRefines
<1>5. CASE Return \/ DrainTimeout
    BY <1>5, WireFacts, QuietStep DEF Return, DrainTimeout, runnerVars, Contract!Next
<1>6. CASE WorkerStep
    <2>1. inFlight' = inFlight /\ cancelled' = cancelled
        BY <1>6 DEF WorkerStep, Worker, Start, Skip, Complete
    <2> QED
        BY <1>6, <2>1, WireFacts, QuietStep DEF WorkerStep, sessionVars, Contract!Next
<1>7. CASE Terminated \/ UNCHANGED vars
    BY <1>7 DEF Terminated, vars, runnerVars, sessionVars, Contract!contractVars,
                IdState, Open, Answers
<1> QED
    BY <1>1, <1>2, <1>3, <1>4, <1>5, <1>6, <1>7 DEF Next

\* The server implements the contract on request ids: an accepted request gets
\* one answer or is given up by the client, and only a free id is answered at once.
THEOREM ServerImplementsContract == Spec => ImplementsContract
<1>1. Init => Contract!Init
    <2>1. ASSUME Init PROVE Open = {} /\ Wire(out) = {} /\ ~broken /\ \A i \in Ids : inFlight[i] = None
        BY <2>1 DEF Init, RunnerInit, Open, Wire, Answers
    <2> QED
        BY <2>1 DEF Contract!Init, IdState, Wire
<1>2. ServerInv /\ [Next]_vars => [Contract!Next]_(Contract!contractVars)
    BY ContractStep
<1> QED
    BY <1>1, <1>2, ServerInvariant, PTL DEF Spec, ImplementsContract, Contract!Spec

\* A request stops waiting only by its answer, by the client's cancellation of
\* it, or by a broken output.
THEOREM RequestsAreNotForgotten == Spec => NeverForgotten
<1> DEFINE Kept == \A i \in Open \ Open' :
                (\E r \in Answers(out') : r.id = i) \/ broken' \/ Cancelled(i)
<1>1. ASSUME ServerInv, [Next]_vars PROVE [Kept]_vars
    <2>1. ASSUME inFlight' = inFlight, cancelled' = cancelled,
                 listens \subseteq listens' \/ broken'
          PROVE  Kept
        BY <2>1 DEF Open
    <2>2. ASSUME NEW msgs, NEW open, Send(msgs, open) PROVE listens' = open \/ broken'
        BY <2>2 DEF Send
    <2>3. CASE Line
        <3>1. ASSUME NEW r \in Requests, ToolsCall(r) PROVE Kept
            <4>1. /\ inFlight' = [inFlight EXCEPT ![r.id] = Len(calls) + 1]
                  /\ inFlight[r.id] = None /\ cancelled' = cancelled /\ listens' = listens
                BY <3>1 DEF ToolsCall, Submit
            <4>2. inFlight \in [Ids -> {None} \cup Submitted] /\ r.id \in Ids /\ r.pool \in Pools
                BY <1>1 DEF ServerInv, RunnerInv, RunnerTypeOK, Requests
            <4>3. \A i \in Open : i # r.id => i \in Open'
                BY <4>1, <4>2 DEF Open
            <4>4. r.id \notin listens
                BY <3>1 DEF ToolsCall, Dispatched, IdInUse
            <4>5. r.id \notin Open
                BY <4>1, <4>4 DEF Open
            <4> QED
                BY <4>3, <4>5
        <3>2. ASSUME NEW r \in Requests, AnswerNow(r) \/ Listen(r) \/ RefuseToolsCall(r)
              PROVE  Kept
            BY <2>1, <2>2, <3>2 DEF AnswerNow, Listen, RefuseToolsCall, Answering, Ignoring,
                                    runnerVars
        <3>3. ASSUME NEW i \in Ids, Cancelled(i) PROVE Kept
            <4>1. ASSUME NEW j \in Open \ Open' PROVE j = i
                <5>1. inFlight' = inFlight /\ listens' \in {listens, listens \ {i}}
                    BY <3>3 DEF Cancelled, Cancel, runnerVars
                <5>2. cancelled' = cancelled \/ cancelled' = cancelled \cup {inFlight[i]}
                    BY <3>3 DEF Cancelled, Cancel, runnerVars
                <5>3. \A k \in Ids : inFlight[k] # None /\ inFlight[k] = inFlight[i] => k = i
                    BY <1>1 DEF ServerInv, RunnerInv, FlagOwner
                <5> QED
                    BY <5>1, <5>2, <5>3 DEF Open
            <4> QED
                BY <3>3, <4>1
        <3>4. ASSUME NEW i \in Ids, IgnoreDuplicate(i) \/ InvalidRequest(i) PROVE Kept
            BY <2>1, <2>2, <3>4 DEF IgnoreDuplicate, InvalidRequest, Answering, Ignoring,
                                    runnerVars
        <3>5. CASE IgnoredLine \/ InvalidLine
            BY <2>1, <2>2, <3>5 DEF IgnoredLine, InvalidLine, Answering, Ignoring, runnerVars
        <3> QED
            BY <2>3, <3>1, <3>2, <3>3, <3>4, <3>5 DEF Line
    <2>4. CASE Eof
        <3>1. inFlight' = inFlight /\ cancelled' = cancelled
            BY <1>1, <2>4, EofFacts DEF ServerInv, runnerVars
        <3>2. CASE out' = CloseResults(listens)
            <4>1. Wire(out') = listens
                BY <1>1, <3>2, WireFacts DEF ServerInv, SessionInv, SessionTypes
            <4>2. \A i \in listens : \E r \in Answers(out') : r.id = i
                BY <4>1 DEF Wire
            <4>3. Open \ Open' \subseteq listens
                BY <3>1 DEF Open
            <4> QED
                BY <4>2, <4>3
        <3> QED
            BY <1>1, <2>4, <3>2, EofFacts DEF ServerInv
    <2>5. CASE HandleFinish
        <3> DEFINE c == Head(posted)
        <3>0. PICK i : i = calls[c].id
            OBVIOUS
        <3>1. inFlight[i] = c /\ (EmitsResult(c) <=> c \notin cancelled) /\ c \in Submitted
            BY <1>1, <2>5, <3>0, FinishMoves DEF HandleFinish, ServerInv
        <3>2. inFlight' = [inFlight EXCEPT ![i] = None] /\ cancelled' = cancelled
            BY <2>5, <3>0 DEF HandleFinish, Finish
        <3>3. listens' = listens \/ broken'
            BY <2>2, <2>5 DEF HandleFinish
        <3>4. inFlight \in [Ids -> {None} \cup Submitted]
            BY <1>1 DEF ServerInv, RunnerInv, RunnerTypeOK
        <3>5. ASSUME NEW j \in Open \ Open', ~broken' PROVE j = i /\ EmitsResult(c)
            BY <3>1, <3>2, <3>3, <3>4, <3>5 DEF Open
        <3>6. ASSUME EmitsResult(c), ~broken' PROVE \E r \in Answers(out') : r.id = i
            <4>1. out' = {ToolResult(c)}
                BY <1>1, <2>5, <3>6 DEF HandleFinish, Send, ServerInv, SessionInv, SessionTypes
            <4>2. Wire(out') = {i}
                BY <3>0, <3>1, <4>1, WireFacts
            <4> QED
                BY <4>2 DEF Wire
        <3> QED
            BY <3>5, <3>6
    <2>6. CASE (\E n \in 1..MaxLines : Read(n)) \/ Return \/ DrainTimeout
        BY <2>1, <2>6 DEF Read, Ignoring, Return, DrainTimeout, runnerVars
    <2>7. CASE WorkerStep
        <3>1. inFlight' = inFlight /\ cancelled' = cancelled
            BY <2>7 DEF WorkerStep, Worker, Start, Skip, Complete
        <3> QED
            BY <2>1, <2>7, <3>1 DEF WorkerStep, sessionVars
    <2>8. CASE Terminated \/ UNCHANGED vars
        BY <2>8 DEF Terminated
    <2> HIDE DEF Kept
    <2> QED
        BY <1>1, <2>3, <2>4, <2>5, <2>6, <2>7, <2>8 DEF Next
<1> QED
    BY <1>1, ServerInvariant, PTL DEF Spec, NeverForgotten
=============================================================================
