------------------------------ MODULE ByteLines ------------------------------
(***************************************************************************)
(* What a client of the stdio transport may rely on: the bytes it writes   *)
(* are lines, and each complete line is handled once, in order and whole,  *)
(* however the bytes travel.  Framing implements this specification.       *)
(***************************************************************************)
EXTENDS Naturals, Sequences

CONSTANTS
    Streams,        \* what a client may write: sequences of bytes
    EventOf(_)      \* what handling a line amounts to

VARIABLES
    stream,     \* the bytes the client writes
    handled,    \* how many of them belong to lines handled so far
    events      \* what was done, line by line

vars == <<stream, handled, events>>

Init ==
    /\ stream \in Streams
    /\ handled = 0
    /\ events = <<>>

\* Position e ends the first line that is not handled yet.
EndsLine(e) ==
    /\ e \in handled + 1 .. Len(stream)
    /\ stream[e] = "newline"
    /\ \A i \in handled + 1 .. e - 1 : stream[i] # "newline"

\* The next line is handled, without its end.
HandleLine ==
    \E e \in 1 .. Len(stream) :
        /\ EndsLine(e)
        /\ events' = Append(events, EventOf(SubSeq(stream, handled + 1, e - 1)))
        /\ handled' = e
        /\ UNCHANGED stream

Next == HandleLine

Spec == Init /\ [][Next]_vars
=============================================================================
