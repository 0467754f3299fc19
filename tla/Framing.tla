------------------------------- MODULE Framing -------------------------------
(***************************************************************************)
(* StdioTransport (src/mcp/stdiotransport.cpp): bytes of stdin become      *)
(* lines, and lines become events.  The kernel hands out what the client   *)
(* wrote in chunks cut anywhere; m_buffer keeps what has no newline yet.   *)
(* The handlers of an event run inside the loop over the lines of a chunk  *)
(* and write responses; a failing write closes the transport under it.     *)
(*                                                                         *)
(* A JSON text is what is left of a line without blanks: <<"{", "}">> is   *)
(* an object, <<"array">> an array, anything else is malformed.            *)
(***************************************************************************)
EXTENDS Integers, Sequences

CONSTANTS
    Streams,        \* what a client may write before it stops
    ChunkSize       \* sizeof(chunk)

Blanks == {"space", "return"}
Bytes  == {"newline", "{", "}", "array"} \cup Blanks

ASSUME StreamsAssumption == Streams \subseteq Seq(Bytes)
ASSUME ChunkAssumption == ChunkSize \in Nat \ {0}

VARIABLES
    stream,     \* what the client writes
    received,   \* how many bytes of it read() has returned
    buffer,     \* m_buffer
    handling,   \* the loop over the lines of the chunk is running
    enabled,    \* m_notifier->isEnabled()
    broken,     \* m_broken
    events      \* what became of each line, in order

vars == <<stream, received, buffer, handling, enabled, broken, events>>

Init ==
    /\ stream \in Streams
    /\ received = 0
    /\ buffer = <<>>
    /\ handling = FALSE
    /\ enabled = TRUE
    /\ broken = FALSE
    /\ events = <<>>

-----------------------------------------------------------------------------
(* The line. *)

\* line.chop(1) of a carriage return.
Chopped(line) ==
    IF line # <<>> /\ line[Len(line)] = "return"
    THEN SubSeq(line, 1, Len(line) - 1) ELSE line

NotBlank(b) == b \notin Blanks

\* The signal emitted for a line: none for a blank one.
EventOf(line) ==
    LET text == SelectSeq(Chopped(line), NotBlank) IN
    CASE text = <<>>          -> "none"
      [] text = <<"{", "}">>  -> "messageReceived"
      [] text = <<"array">>   -> "InvalidRequest"
      [] OTHER                -> "ParseError"

HasNewline(bytes) == \E i \in 1 .. Len(bytes) : bytes[i] = "newline"

\* n is m_buffer.indexOf('\n'), counted from 1.
FirstNewline(bytes, n) ==
    /\ bytes[n] = "newline"
    /\ \A i \in 1 .. n - 1 : bytes[i] # "newline"

-----------------------------------------------------------------------------
(* Reading. *)

\* Mutant of Handling: only a chunk that ends with a newline is handled.
HandlingAtEnd(bytes) == bytes # <<>> /\ bytes[Len(bytes)] = "newline"

\* The loop goes on while a newline is left.
Handling(bytes) == HasNewline(bytes)

\* onReadable() with n bytes.  A read() that fails changes nothing.
Receive(n) ==
    /\ ~handling /\ enabled
    /\ n <= ChunkSize
    /\ received' = received + n
    /\ buffer' = buffer \o SubSeq(stream, received + 1, received + n)
    /\ handling' = Handling(buffer')
    /\ UNCHANGED <<stream, enabled, broken, events>>

\* onReadable() at the end of stdin: a line that was never ended stays in
\* m_buffer, and nothing reads it any more.  closed() goes to Server.
EndOfInput ==
    /\ ~handling /\ enabled
    /\ received = Len(stream)
    /\ enabled' = FALSE
    /\ UNCHANGED <<stream, received, buffer, handling, broken, events>>

\* send(): the first failing write disables the notifier and emits closed(),
\* whose handler is in Server; one that succeeds, and any later one, changes
\* nothing here.
WriteFails ==
    /\ ~broken
    /\ broken' = TRUE
    /\ enabled' = FALSE

\* Mutant of NoWriteFails: the notifier is off after each event.
NotifierOff == enabled' = FALSE /\ UNCHANGED broken

NoWriteFails == UNCHANGED <<broken, enabled>>

\* Mutant of After: the newline itself stays in the buffer.
AfterOffByOne(bytes, n) == SubSeq(bytes, n, Len(bytes))

\* m_buffer.remove(0, newline + 1).
After(bytes, n) == SubSeq(bytes, n + 1, Len(bytes))

\* One turn of the loop: the line leaves the buffer before its handlers run,
\* and the handlers of an event may write.
HandleLine ==
    /\ handling
    /\ \E n \in 1 .. Len(buffer) :
        /\ FirstNewline(buffer, n)
        /\ buffer' = After(buffer, n)
        /\ LET event == EventOf(SubSeq(buffer, 1, n - 1)) IN
            /\ events' = Append(events, event)
            /\ \/ NoWriteFails
               \/ event # "none" /\ WriteFails
    /\ handling' = Handling(buffer')
    /\ UNCHANGED <<stream, received>>

\* A result of a worker is written from the event loop, even after the end of
\* stdin, and the write fails.
ResultFails ==
    /\ ~handling
    /\ WriteFails
    /\ UNCHANGED <<stream, received, buffer, handling, events>>

Next ==
    \/ \E n \in 1 .. Len(stream) - received : Receive(n)
    \/ EndOfInput
    \/ HandleLine
    \/ ResultFails

Spec == Init /\ [][Next]_vars

\* The notifier fires as long as bytes wait, and the loop over the lines of a
\* chunk runs to its end.
FairSpec ==
    /\ Spec
    /\ WF_vars(\E n \in 1 .. Len(stream) - received : Receive(n))
    /\ WF_vars(HandleLine)

-----------------------------------------------------------------------------
(* Properties. *)

\* The bytes that have left the buffer.
Handled == received - Len(buffer)

\* Whenever the event loop runs, no complete line waits in the buffer, and the
\* buffer is the part of the stream behind the last line handled: nothing was
\* lost, kept or moved, wherever the chunks were cut.
NothingWaits ==
    /\ received \in 0 .. Len(stream) /\ Len(buffer) <= received
    /\ buffer = SubSeq(stream, Handled + 1, received)
    /\ handling <=> HasNewline(buffer)

Lines == INSTANCE ByteLines WITH handled <- Handled

\* Every line is handled once, whole and in order, as if the stream had been
\* read in one piece.
ImplementsLines == Lines!Spec

\* Every line the client ended is handled in the end, unless writing fails.
EveryLineHandled == <>(broken \/ ~HasNewline(After(stream, Handled)))
=============================================================================
