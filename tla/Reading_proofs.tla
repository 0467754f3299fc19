--------------------------- MODULE Reading_proofs ---------------------------
(***************************************************************************)
(* Proofs about what the program reads from outside: the bytes of a client *)
(* (Framing), for every stream and every chunk size, and the replies of    *)
(* services (Demarshal), whatever they hold.                               *)
(***************************************************************************)
EXTENDS Framing, Demarshal, TLAPS

-----------------------------------------------------------------------------
(* Framing implements ByteLines. *)

FramingTypes ==
    /\ stream \in Seq(Bytes)
    /\ received \in 0 .. Len(stream)
    /\ buffer \in Seq(Bytes)
    /\ handling \in BOOLEAN

\* NothingWaits, byte by byte.
BufferIsRest ==
    /\ Len(buffer) <= received
    /\ \A i \in 1 .. Len(buffer) : buffer[i] = stream[Handled + i]

FramingInv ==
    /\ FramingTypes
    /\ BufferIsRest
    /\ handling <=> HasNewline(buffer)

LEMMA InvIsNothingWaits ==
    ASSUME FramingInv
    PROVE  NothingWaits
<1> DEFINE rest == SubSeq(stream, Handled + 1, received)
<1>1. /\ buffer \in Seq(Bytes) /\ Len(buffer) <= received
      /\ received \in 0 .. Len(stream) /\ stream \in Seq(Bytes)
      /\ Handled = received - Len(buffer)
      /\ \A i \in 1 .. Len(buffer) : buffer[i] = stream[Handled + i]
  BY DEF FramingInv, FramingTypes, BufferIsRest, Handled
<1>2. Handled \in Nat /\ Handled <= received
  BY <1>1
<1>3. /\ rest \in Seq(Bytes) /\ Len(rest) = Len(buffer)
      /\ \A i \in 1 .. Len(buffer) : rest[i] = stream[Handled + i]
  BY <1>1, <1>2
<1> HIDE DEF rest
<1>4. \A i \in 1 .. Len(buffer) : buffer[i] = rest[i]
  BY <1>1, <1>3
<1>5. buffer = rest
  BY <1>1, <1>3, <1>4
<1> QED
  BY <1>1, <1>5 DEF rest, FramingInv, FramingTypes, BufferIsRest, NothingWaits

LEMMA InitFraming == Init => FramingInv
<1> SUFFICES ASSUME Init PROVE FramingInv
  OBVIOUS
<1>1. buffer \in Seq(Bytes) /\ Len(buffer) = 0
  BY DEF Init
<1>2. /\ stream \in Seq(Bytes) /\ Len(stream) \in Nat
      /\ received = 0 /\ handling = FALSE
  BY StreamsAssumption DEF Init
<1>3. \A i \in 1 .. Len(buffer) : FALSE
  BY <1>1
<1>4. BufferIsRest
  BY <1>1, <1>2, <1>3 DEF BufferIsRest
<1>5. ~HasNewline(buffer)
  BY <1>3 DEF HasNewline
<1>6. 0 \in 0 .. Len(stream)
  BY <1>2
<1>7. FramingTypes
  BY <1>1, <1>2, <1>6, Zenon DEF FramingTypes
<1> QED
  BY <1>2, <1>4, <1>5, <1>7 DEF FramingInv

LEMMA ConcatProperties ==
    ASSUME NEW S, NEW s \in Seq(S), NEW t \in Seq(S)
    PROVE  /\ s \o t \in Seq(S) /\ Len(s \o t) = Len(s) + Len(t)
           /\ \A i \in 1 .. Len(s \o t) :
                (s \o t)[i] = IF i <= Len(s) THEN s[i] ELSE t[i - Len(s)]
  OBVIOUS

\* The bytes of a chunk continue the buffer.
LEMMA ReceiveKeeps ==
    ASSUME FramingInv, NEW n \in 1 .. Len(stream) - received, Receive(n)
    PROVE  FramingInv'
<1> DEFINE chunk == SubSeq(stream, received + 1, received + n)
<1>1. /\ chunk \in Seq(Bytes) /\ Len(chunk) = n
      /\ \A i \in 1 .. n : chunk[i] = stream[received + i]
  BY DEF FramingInv, FramingTypes
<1>2. buffer' = buffer \o chunk /\ received' = received + n /\ UNCHANGED stream
  BY DEF Receive
<1> HIDE DEF chunk
<1>3. /\ buffer' \in Seq(Bytes) /\ Len(buffer') = Len(buffer) + n
      /\ \A i \in 1 .. Len(buffer') :
            buffer'[i] = IF i <= Len(buffer) THEN buffer[i] ELSE chunk[i - Len(buffer)]
  <2>1. buffer \in Seq(Bytes)
    BY DEF FramingInv, FramingTypes
  <2> QED
    BY <1>1, <1>2, <2>1, ConcatProperties
<1>4. Handled' = Handled
  BY <1>2, <1>3 DEF Handled, FramingInv, FramingTypes
<1>5. ASSUME NEW i \in 1 .. Len(buffer')
      PROVE  buffer'[i] = stream[Handled + i]
  <2>1. CASE i <= Len(buffer)
    BY <1>3, <2>1 DEF FramingInv, FramingTypes, BufferIsRest
  <2>2. CASE i > Len(buffer)
    <3>1. buffer'[i] = chunk[i - Len(buffer)] /\ i - Len(buffer) \in 1 .. n
      BY <1>3, <2>2 DEF FramingInv, FramingTypes
    <3>2. buffer'[i] = stream[received + (i - Len(buffer))]
      BY <1>1, <3>1
    <3> QED
      BY <3>2 DEF Handled, FramingInv, FramingTypes
  <2> QED
    BY <2>1, <2>2 DEF FramingInv, FramingTypes
<1>6. FramingTypes'
  BY <1>2, <1>3 DEF FramingInv, FramingTypes, Receive, Handling, HasNewline
<1>7. BufferIsRest'
  BY <1>2, <1>3, <1>4, <1>5 DEF FramingInv, FramingTypes, BufferIsRest
<1> QED
  BY <1>6, <1>7 DEF FramingInv, Receive, Handling

\* What HandleLine leaves of the buffer, and what it takes.
LEMMA TakenLine ==
    ASSUME FramingInv, NEW n \in 1 .. Len(buffer), buffer' = After(buffer, n),
           UNCHANGED <<stream, received>>
    PROVE  /\ buffer' \in Seq(Bytes) /\ Len(buffer') = Len(buffer) - n
           /\ Handled' = Handled + n
           /\ \A i \in 1 .. Len(buffer') : buffer'[i] = stream[Handled' + i]
           /\ SubSeq(buffer, 1, n - 1) = SubSeq(stream, Handled + 1, Handled + n - 1)
<1>1. /\ buffer \in Seq(Bytes) /\ n \in 1 .. Len(buffer) /\ Len(buffer) <= received
      /\ received \in 0 .. Len(stream) /\ stream \in Seq(Bytes)
      /\ \A i \in 1 .. Len(buffer) : buffer[i] = stream[Handled + i]
  BY DEF FramingInv, FramingTypes, BufferIsRest
<1>2. /\ buffer' \in Seq(Bytes) /\ Len(buffer') = Len(buffer) - n
      /\ \A i \in 1 .. Len(buffer') : buffer'[i] = buffer[n + i]
  BY <1>1 DEF After
<1>3. Handled' = Handled + n /\ Handled \in Nat /\ Handled + Len(buffer) <= Len(stream)
  <2>1. /\ Len(buffer) \in Nat /\ Len(stream) \in Nat /\ received' = received
        /\ received \in Nat /\ received <= Len(stream) /\ Len(buffer) <= received
        /\ n \in Nat /\ Len(buffer') = Len(buffer) - n
    BY <1>1, <1>2
  <2>2. Handled = received - Len(buffer) /\ Handled' = received' - Len(buffer')
    BY DEF Handled
  <2> QED
    BY <2>1, <2>2
<1>4. ASSUME NEW i \in 1 .. Len(buffer')
      PROVE  buffer'[i] = stream[Handled' + i]
  <2>1. n + i \in 1 .. Len(buffer)
    BY <1>1, <1>2
  <2>2. buffer'[i] = stream[Handled + (n + i)]
    BY <1>1, <1>2, <2>1
  <2> QED
    BY <1>1, <1>3, <2>2
<1>5. SubSeq(buffer, 1, n - 1) = SubSeq(stream, Handled + 1, Handled + n - 1)
  <2> DEFINE s == SubSeq(buffer, 1, n - 1)
             t == SubSeq(stream, Handled + 1, Handled + n - 1)
  <2>1. s \in Seq(Bytes) /\ Len(s) = n - 1 /\ \A i \in 1 .. n - 1 : s[i] = buffer[i]
    BY <1>1
  <2>2. t \in Seq(Bytes) /\ Len(t) = n - 1 /\ \A i \in 1 .. n - 1 : t[i] = stream[Handled + i]
    BY <1>1, <1>3
  <2> HIDE DEF s, t
  <2>3. \A i \in 1 .. n - 1 : s[i] = t[i]
    BY <1>1, <2>1, <2>2
  <2>4. s = t
    BY <2>1, <2>2, <2>3
  <2> QED
    BY <2>4 DEF s, t
<1> QED
  BY <1>2, <1>3, <1>4, <1>5

LEMMA HandleLineKeeps ==
    ASSUME FramingInv, HandleLine
    PROVE  FramingInv'
<1>1. PICK n \in 1 .. Len(buffer) : buffer' = After(buffer, n)
  BY DEF HandleLine
<1>2. UNCHANGED <<stream, received>> /\ handling' = Handling(buffer')
  BY DEF HandleLine
<1>3. /\ buffer' \in Seq(Bytes) /\ Len(buffer') = Len(buffer) - n
      /\ \A i \in 1 .. Len(buffer') : buffer'[i] = stream[Handled' + i]
  BY <1>1, <1>2, TakenLine
<1> QED
  BY <1>2, <1>3 DEF FramingInv, FramingTypes, BufferIsRest, Handling, HasNewline

LEMMA NextKeepsFraming == FramingInv /\ [Next]_vars => FramingInv'
<1> SUFFICES ASSUME FramingInv, [Next]_vars PROVE FramingInv'
  OBVIOUS
<1>1. CASE \E n \in 1 .. Len(stream) - received : Receive(n)
  BY <1>1, ReceiveKeeps
<1>2. CASE HandleLine
  BY <1>2, HandleLineKeeps
<1>3. CASE EndOfInput \/ ResultFails \/ UNCHANGED vars
  BY <1>3 DEF EndOfInput, ResultFails, vars, FramingInv, FramingTypes, BufferIsRest,
              HasNewline, Handled
<1> QED
  BY <1>1, <1>2, <1>3 DEF Next

\* However the chunks are cut, the buffer is always the part of the stream behind
\* the last line handled, and the event loop never runs with a complete line in it.
THEOREM NoLineWaits == Spec => []NothingWaits
<1>1. Spec => []FramingInv
  BY InitFraming, NextKeepsFraming, PTL DEF Spec
<1> QED
  BY <1>1, InvIsNothingWaits, PTL

-----------------------------------------------------------------------------
(* Refinement. *)

\* A turn of the loop handles the next line of the stream.
LEMMA HandleLineImplements ==
    ASSUME FramingInv, HandleLine
    PROVE  Lines!HandleLine
<1>1. PICK n \in 1 .. Len(buffer) :
        /\ FirstNewline(buffer, n)
        /\ buffer' = After(buffer, n)
        /\ events' = Append(events, EventOf(SubSeq(buffer, 1, n - 1)))
  BY DEF HandleLine
<1>2. UNCHANGED <<stream, received>>
  BY DEF HandleLine
<1> DEFINE e == Handled + n
<1>3. /\ Handled' = e
      /\ SubSeq(buffer, 1, n - 1) = SubSeq(stream, Handled + 1, Handled + n - 1)
  BY <1>1, <1>2, TakenLine
<1>4. /\ Handled \in Nat /\ e \in Handled + 1 .. Len(stream) /\ e \in 1 .. Len(stream)
      /\ \A i \in 1 .. Len(buffer) : buffer[i] = stream[Handled + i]
  BY DEF FramingInv, FramingTypes, BufferIsRest, Handled
<1>5. ASSUME NEW i \in Handled + 1 .. e - 1
      PROVE  stream[i] # "newline"
  <2>1. i - Handled \in 1 .. n - 1 /\ i - Handled \in 1 .. Len(buffer)
    BY <1>4
  <2>2. buffer[i - Handled] = stream[Handled + (i - Handled)]
    BY <1>4, <2>1
  <2> QED
    BY <1>1, <1>4, <2>1, <2>2 DEF FirstNewline
<1>6. stream[e] = "newline"
  BY <1>1, <1>4 DEF FirstNewline
<1>7. Lines!EndsLine(e)
  BY <1>4, <1>5, <1>6 DEF Lines!EndsLine
<1>8. e - 1 = Handled + n - 1
  BY <1>4
<1> HIDE DEF e
<1>9. events' = Append(events, EventOf(SubSeq(stream, Handled + 1, e - 1)))
  BY <1>1, <1>3, <1>8
<1> QED
  BY <1>2, <1>3, <1>4, <1>7, <1>9 DEF Lines!HandleLine

\* Every other step is a stutter: reading a chunk handles nothing by itself.
LEMMA NextImplements ==
    ASSUME FramingInv, FramingInv', [Next]_vars
    PROVE  [Lines!Next]_(Lines!vars)
<1>1. CASE HandleLine
  BY <1>1, HandleLineImplements DEF Lines!Next
<1>2. CASE \E n \in 1 .. Len(stream) - received : Receive(n)
  <2>1. PICK n \in 1 .. Len(stream) - received : Receive(n)
    BY <1>2
  <2>2. /\ Len(SubSeq(stream, received + 1, received + n)) = n
        /\ SubSeq(stream, received + 1, received + n) \in Seq(Bytes)
    BY DEF FramingInv, FramingTypes
  <2>3. Len(buffer') = Len(buffer) + n /\ received' = received + n
    BY <2>1, <2>2 DEF Receive, FramingInv, FramingTypes
  <2> QED
    BY <2>1, <2>3 DEF Receive, Lines!vars, Handled, FramingInv, FramingTypes
<1>3. CASE EndOfInput \/ ResultFails \/ UNCHANGED vars
  BY <1>3 DEF EndOfInput, ResultFails, vars, Lines!vars, Handled
<1> QED
  BY <1>1, <1>2, <1>3 DEF Next

\* Every complete line is handled once, whole and in order, for every stream,
\* every chunk size and every way of cutting the stream into chunks.
THEOREM FramingImplementsLines == Spec => ImplementsLines
<1>1. Spec => []FramingInv
  BY InitFraming, NextKeepsFraming, PTL DEF Spec
<1>2. Init => Lines!Init
  <2> SUFFICES ASSUME Init PROVE Lines!Init
    OBVIOUS
  <2>1. Len(buffer) = 0 /\ received = 0
    BY DEF Init
  <2>2. 0 - 0 = 0
    OBVIOUS
  <2>3. Handled = 0
    BY <2>1, <2>2, Zenon DEF Handled
  <2> QED
    BY <2>3 DEF Init, Lines!Init
<1>3. FramingInv /\ FramingInv' /\ [Next]_vars => [Lines!Next]_(Lines!vars)
  BY NextImplements
<1> QED
  BY <1>1, <1>2, <1>3, PTL DEF Spec, ImplementsLines, Lines!Spec

-----------------------------------------------------------------------------
(* A reply is read in order, and loses only what is behind an element that  *)
(* cannot be read, in the container of that one.                            *)

Size == Len(reply.kind)

DemarshalTypes ==
    /\ reply \in Replies
    /\ inside \in 0 .. Size
    /\ at \in [0 .. Size -> Int]
    /\ consumed \in BOOLEAN /\ done \in BOOLEAN
    /\ json \in Seq(Elements(reply))

\* The containers that are open.
Open(c) == c \in 1 .. Size /\ (c = inside \/ Holds(reply, c, inside))

\* An iterator is past the container that is being read below it, and on an
\* element of its own otherwise.
IteratorsStand ==
    /\ inside # 0 =>
        /\ reply.kind[inside] \in Containers
        /\ inside < at[inside] /\ at[inside] <= reply.last[inside] + 1
        /\ at[inside] <= reply.last[inside] => reply.up[at[inside]] = inside
    /\ inside = 0 /\ ~done => at[0] = 1 /\ consumed
    /\ done => inside = 0
    /\ \A c \in 1 .. Size : Open(c) => at[reply.up[c]] = reply.last[c] + 1

\* Everything before the frontier has been read or will never be.
Frontier ==
    IF inside = 0 THEN (IF done THEN Size + 1 ELSE 1)
    ELSE IF consumed THEN at[inside] ELSE reply.last[inside] + 1

\* The loop of an entry ended, and the one of its map has yet to.
EntryEnds == ~consumed /\ inside # 0 /\ reply.kind[inside] = "entry"

\* An unknown element before the frontier has ended its loop.
UnknownsAreOver ==
    \A u \in 2 .. Size :
        reply.kind[u] = "unknown" /\ u < Frontier =>
            \/ reply.last[Ends(reply, u)] < Frontier
            \/ EntryEnds /\ Ends(reply, u) = reply.up[inside]

\* A loop that ended did so because of an unknown element.
UnknownMet ==
    ~consumed /\ inside # 0 =>
        \E u \in 2 .. Size :
            /\ reply.kind[u] = "unknown" /\ u < Frontier
            /\ Ends(reply, u) = (IF reply.kind[inside] = "entry"
                                 THEN reply.up[inside] ELSE inside)

InJson(n) == \E i \in 1 .. Len(json) : json[i] = n

KeptSoFar ==
    /\ InOrder
    /\ \A n \in 1 .. Size : InJson(n) <=> n < Frontier /\ ~Lost(reply, n)

DemarshalInv ==
    /\ DemarshalTypes
    /\ IteratorsStand
    /\ UnknownsAreOver
    /\ UnknownMet
    /\ KeptSoFar

-----------------------------------------------------------------------------
(* Replies. *)

\* What is used of the shape of a reply, with the quantifiers instantiated.
LEMMA Shape ==
    ASSUME NEW r, IsReply(r)
    PROVE  /\ Len(r.kind) \in Nat \ {0}
           /\ \A n \in 1 .. Len(r.kind) :
                /\ r.last[n] \in 1 .. Len(r.kind) /\ n <= r.last[n]
                /\ r.up[n] \in 0 .. n - 1
                /\ n > 1 => r.up[n] \in 1 .. n - 1
                /\ n > 1 => n <= r.last[r.up[n]]
                /\ r.kind[n] \in Leaves \cup Containers
                /\ r.kind[n] \in Leaves => r.last[n] = n
           /\ r.up[1] = 0 /\ r.last[1] = Len(r.kind) /\ r.kind[1] # "entry"
  BY DEF IsReply, IsNested, Elements, Holds

\* A container nests what it holds.
LEMMA Nested ==
    ASSUME NEW r, IsReply(r), NEW n \in 1 .. Len(r.kind), NEW c \in 1 .. Len(r.kind),
           c < n, n <= r.last[c]
    PROVE  c <= r.up[n] /\ r.last[n] <= r.last[c] /\ r.kind[c] \in Containers
  BY DEF IsReply, IsNested, Elements, Holds

LEMMA EntryInMap ==
    ASSUME NEW r, IsReply(r), NEW n \in 2 .. Len(r.kind)
    PROVE  r.kind[n] = "entry" <=> r.kind[r.up[n]] = "map"
  BY DEF IsReply, IsSpelled, Elements

\* The element behind one in container p is in p, as long as p goes on.
LEMMA NextSibling ==
    ASSUME NEW r, IsReply(r), NEW c \in 2 .. Len(r.kind),
           r.last[c] + 1 <= r.last[r.up[c]]
    PROVE  r.up[r.last[c] + 1] = r.up[c]
<1> DEFINE p == r.up[c]
           m == r.last[c] + 1
           q == r.up[m]
<1>1. /\ p \in 1 .. c - 1 /\ c <= r.last[p] /\ c <= r.last[c]
      /\ r.last[c] \in 1 .. Len(r.kind) /\ r.last[p] \in 1 .. Len(r.kind)
      /\ Len(r.kind) \in Nat
  BY Shape
<1>2. m \in 2 .. Len(r.kind) /\ p < m /\ m <= r.last[p] /\ p \in 1 .. Len(r.kind)
  BY <1>1
<1>3. p <= q /\ q \in 1 .. m - 1 /\ m <= r.last[q]
  <2>1. p <= q
    BY <1>2, Nested
  <2>2. m \in 1 .. Len(r.kind) /\ m > 1
    BY <1>2
  <2> HIDE DEF m
  <2>3. r.up[m] \in 1 .. m - 1 /\ m <= r.last[r.up[m]]
    BY <2>2, Shape
  <2> QED
    BY <2>1, <2>3
<1>4. CASE q = c
  BY <1>1, <1>3, <1>4
<1>5. CASE q < c /\ q # p
  <2>1. q \in 1 .. Len(r.kind)
    BY <1>1, <1>2, <1>3
  <2>2. r.last[q] \in Nat
    BY <2>1, Shape
  <2>3. q < c /\ c <= r.last[q]
    BY <1>1, <1>2, <1>3, <1>5, <2>2
  <2>4. q <= p
    BY <2>1, <2>3, Nested
  <2> QED
    BY <1>1, <1>2, <1>3, <1>5, <2>4
<1>6. CASE q > c
  <2>1. q \in 1 .. Len(r.kind) /\ c < q /\ q <= r.last[c]
    BY <1>1, <1>2, <1>3, <1>6
  <2>2. r.last[q] <= r.last[c]
    BY <2>1, Nested
  <2>3. r.last[q] \in Nat
    BY <2>1, Shape
  <2> QED
    BY <1>1, <1>2, <1>3, <2>2, <2>3
<1> QED
  BY <1>1, <1>2, <1>3, <1>4, <1>5, <1>6

\* The first element of a container is in it.
LEMMA FirstInside ==
    ASSUME NEW r, IsReply(r), NEW c \in 1 .. Len(r.kind), c + 1 <= r.last[c]
    PROVE  r.up[c + 1] = c
<1>1. c + 1 \in 2 .. Len(r.kind) /\ c < c + 1
  BY Shape
<1>2. c <= r.up[c + 1]
  BY <1>1, Nested
<1> QED
  BY <1>1, <1>2, Shape

\* An unknown element ends a loop of its own entry's map, of the container it is
\* in, or further inside.
LEMMA EndsWithin ==
    ASSUME NEW r, IsReply(r), NEW u \in 1 .. Len(r.kind), NEW c \in 1 .. Len(r.kind),
           c < u, u <= r.last[c]
    PROVE  /\ Ends(r, u) \in 1 .. Len(r.kind)
           /\ \/ r.last[Ends(r, u)] <= r.last[c]
              \/ r.kind[c] = "entry" /\ Ends(r, u) = r.up[c]
<1> DEFINE p == r.up[u]
           q == r.up[p]
<1>1. u > 1 /\ p \in 1 .. u - 1 /\ c <= p /\ u <= r.last[p] /\ p \in 1 .. Len(r.kind)
  BY Shape, Nested
<1>2. r.last[c] \in Nat /\ r.last[p] \in Nat
  <2>1. r.last[c] \in 1 .. Len(r.kind) /\ r.last[p] \in 1 .. Len(r.kind)
    BY Zenon, <1>1, Shape
  <2>2. \A k \in 1 .. Len(r.kind) : k \in Nat
    OBVIOUS
  <2> QED
    BY Zenon, <2>1, <2>2
<1>3. r.last[p] <= r.last[c]
  <2>1. CASE p = c
    BY <1>2, <2>1
  <2>2. CASE p # c
    BY <1>1, <1>2, <2>2, Nested
  <2> QED
    BY <2>1, <2>2
<1>4. CASE r.kind[p] # "entry"
  BY <1>1, <1>3, <1>4 DEF Ends
<1>5. CASE r.kind[p] = "entry"
  <2>1. Ends(r, u) = q
    BY <1>1, <1>5 DEF Ends
  <2>2. p > 1 /\ q \in 1 .. p - 1 /\ q \in 1 .. Len(r.kind) /\ p <= r.last[q]
    <3>1. p # 1
      BY <1>5, Shape
    <3>2. p > 1
      BY <1>1, <3>1
    <3> HIDE DEF p
    <3>3. r.up[p] \in 1 .. p - 1 /\ p <= r.last[r.up[p]]
      BY <1>1, <3>2, Shape
    <3> QED
      BY <1>1, <3>2, <3>3
  <2>3. CASE p = c
    BY <1>5, <2>1, <2>2, <2>3
  <2>4. CASE p # c
    <3>1. c < p /\ p <= r.last[c]
      BY <1>1, <1>2, <2>4, <1>3, Shape
    <3>2. c <= q
      BY <1>1, <3>1, Nested
    <3>3. CASE c = q
      BY <1>2, <2>1, <2>2, <3>3
    <3>4. CASE c # q
      <4>1. c < q /\ q <= r.last[c]
        BY <1>1, <1>2, <2>2, <3>1, <3>2, <3>4
      <4>2. r.last[q] <= r.last[c]
        BY <2>2, <4>1, Nested
      <4> QED
        BY <2>1, <2>2, <4>2
    <3> QED
      BY <3>3, <3>4
  <2> QED
    BY <2>3, <2>4
<1> QED
  BY <1>4, <1>5

-----------------------------------------------------------------------------
(* Steps. *)

LEMMA ReplyIsReply ==
    ASSUME DemarshalTypes
    PROVE  /\ IsReply(reply) /\ Size \in Nat \ {0} /\ Size = Len(reply.kind)
           /\ Elements(reply) = 1 .. Size
  BY RepliesAssumption, Shape DEF DemarshalTypes, Size, Elements

LEMMA AppendInJson ==
    ASSUME NEW e \in 1 .. Size, DemarshalTypes, json' = Append(json, e), UNCHANGED reply
    PROVE  /\ json' \in Seq(Elements(reply))'
           /\ \A n \in 1 .. Size : InJson(n)' <=> InJson(n) \/ n = e
<1>1. json \in Seq(1 .. Size) /\ Size \in Nat
  BY ReplyIsReply DEF DemarshalTypes
<1>2. /\ json' \in Seq(1 .. Size) /\ Len(json') = Len(json) + 1
      /\ \A i \in 1 .. Len(json') : json'[i] = IF i <= Len(json) THEN json[i] ELSE e
  BY <1>1
<1>3. ASSUME NEW n \in 1 .. Size
      PROVE  InJson(n)' <=> InJson(n) \/ n = e
  <2>1. InJson(n) => InJson(n)'
    BY <1>1, <1>2 DEF InJson
  <2>2. n = e => InJson(n)'
    <3>1. Len(json) + 1 \in 1 .. Len(json') /\ ~(Len(json) + 1 <= Len(json))
      BY <1>1, <1>2
    <3> QED
      BY <1>2, <3>1 DEF InJson
  <2>3. InJson(n)' => InJson(n) \/ n = e
    <3> SUFFICES ASSUME NEW i \in 1 .. Len(json'), json'[i] = n, n # e PROVE InJson(n)
      BY DEF InJson
    <3>1. i <= Len(json) /\ i \in 1 .. Len(json)
      BY <1>1, <1>2
    <3> QED
      BY <1>2, <3>1 DEF InJson
  <2> QED
    BY <2>1, <2>2, <2>3
<1> QED
  BY <1>2, <1>3, ReplyIsReply DEF Elements

\* Adding the element at the frontier keeps what was kept, in order.
LEMMA AppendKeeps ==
    ASSUME DemarshalInv, NEW e \in 1 .. Size, json' = Append(json, e), UNCHANGED reply,
           e = Frontier, ~Lost(reply, e), Frontier' \in Int, e < Frontier',
           \A n \in e + 1 .. Size : n < Frontier' => Lost(reply, n)
    PROVE  KeptSoFar'
<1>1. json \in Seq(1 .. Size) /\ Size \in Nat /\ Size' = Size
  BY ReplyIsReply DEF DemarshalInv, DemarshalTypes, Size
<1>2. /\ Len(json') = Len(json) + 1
      /\ \A i \in 1 .. Len(json') : json'[i] = IF i <= Len(json) THEN json[i] ELSE e
  BY <1>1
<1>3. \A i \in 1 .. Len(json) : json[i] < e
  BY <1>1 DEF DemarshalInv, KeptSoFar, InJson
<1>4. InOrder'
  BY <1>1, <1>2, <1>3 DEF InOrder, DemarshalInv, KeptSoFar
<1>5. ASSUME NEW n \in 1 .. Size
      PROVE  InJson(n)' <=> n < Frontier' /\ ~Lost(reply, n)
  <2>1. InJson(n)' <=> InJson(n) \/ n = e
    BY AppendInJson DEF DemarshalInv
  <2>2. InJson(n) <=> n < e /\ ~Lost(reply, n)
    BY DEF DemarshalInv, KeptSoFar
  <2>3. CASE n < e
    BY <2>1, <2>2, <2>3
  <2>4. CASE n = e
    BY <2>1, <2>4
  <2>5. CASE n > e
    BY <2>1, <2>2, <2>5
  <2> QED
    BY <2>3, <2>4, <2>5
<1> QED
  BY <1>1, <1>4, <1>5 DEF KeptSoFar

\* As long as the loop goes on, the current element is not lost.
LEMMA CurrentIsKept ==
    ASSUME DemarshalInv, Reading
    PROVE  /\ Current \in 1 .. Size /\ Current = Frontier /\ ~Lost(reply, Current)
           /\ reply.up[Current] = inside
           /\ inside # 0 => inside < Current /\ Current <= reply.last[inside]
           /\ inside = 0 => Current = 1
<1>1. CASE inside = 0
  <2>1. Current = 1 /\ Frontier = 1 /\ reply.up[1] = 0
    BY <1>1, ReplyIsReply, Shape
    DEF DemarshalInv, DemarshalTypes, IteratorsStand, Reading, Current, Frontier
  <2>2. ~Lost(reply, 1)
    BY ReplyIsReply DEF Lost, DemarshalInv
  <2> QED
    BY <1>1, <2>1, <2>2, ReplyIsReply DEF DemarshalInv
<1>2. CASE inside # 0
  <2>1. inside \in 1 .. Size /\ reply.last[inside] \in 1 .. Size /\ Size \in Nat
    BY <1>2, ReplyIsReply, Shape DEF DemarshalInv, DemarshalTypes
  <2>2. at[inside] \in Int /\ at[inside] <= reply.last[inside]
    BY <1>2, <2>1 DEF Reading, AtEnd, DemarshalInv, DemarshalTypes
  <2>3. /\ Current = Frontier /\ reply.up[Current] = inside
        /\ inside < Current /\ Current <= reply.last[inside]
    BY <1>2, <2>2 DEF Reading, Current, Frontier, DemarshalInv, IteratorsStand
  <2>4. Current \in 1 .. Size
    BY <2>1, <2>2, <2>3 DEF Current
  <2>5. ~Lost(reply, Current)
    <3> SUFFICES ASSUME NEW u \in 1 .. Size, reply.kind[u] = "unknown", u > 1, u < Current,
                        Current <= reply.last[Ends(reply, u)]
                 PROVE  FALSE
      BY ReplyIsReply DEF Lost, DemarshalInv
    <3>1. u \in 2 .. Size /\ u < Frontier /\ ~EntryEnds
      BY <2>1, <2>3 DEF Reading, EntryEnds
    <3>2. reply.last[Ends(reply, u)] < Frontier
      BY <3>1 DEF DemarshalInv, UnknownsAreOver
    <3>3. inside < u \/ u <= inside
      BY <2>1
    <3>4. reply.last[Ends(reply, u)] \in Int
      <4>1. 1 < u /\ u <= reply.last[1] /\ 1 \in 1 .. Size
        BY <2>1, <3>1, ReplyIsReply, Shape DEF DemarshalInv
      <4>2. Ends(reply, u) \in 1 .. Size
        BY <4>1, EndsWithin, ReplyIsReply DEF DemarshalInv
      <4> QED
        BY <4>2, Shape, ReplyIsReply DEF DemarshalInv
    <3> QED
      BY <2>3, <2>4, <3>2, <3>4
  <2> QED
    BY <1>2, <2>3, <2>4, <2>5
<1> QED
  BY <1>1, <1>2

LEMMA InitDemarshal == ReplyInit => DemarshalInv
<1> SUFFICES ASSUME ReplyInit PROVE DemarshalInv
  OBVIOUS
<1>1. reply \in Replies /\ IsReply(reply) /\ Size \in Nat \ {0}
  BY RepliesAssumption, Shape DEF ReplyInit, Size
<1>2. inside = 0 /\ done = FALSE /\ consumed = TRUE /\ json = <<>>
  BY DEF ReplyInit
<1>3. at = [n \in 0 .. Size |-> 1] /\ 0 \in 0 .. Size
  BY <1>1 DEF ReplyInit, Size
<1>4. DemarshalTypes
  <2>1. at \in [0 .. Size -> Int]
    BY <1>1, <1>3
  <2>2. json \in Seq(Elements(reply))
    BY <1>2
  <2> QED
    BY <1>1, <1>2, <1>3, <2>1, <2>2, Zenon DEF DemarshalTypes
<1>5. Frontier = 1
  BY <1>2 DEF Frontier
<1>6. IteratorsStand
  <2>1. \A c \in 1 .. Size : ~Open(c)
    BY <1>1, <1>2 DEF Open, Holds
  <2> QED
    BY <1>2, <1>3, <2>1 DEF IteratorsStand
<1>7. UnknownsAreOver /\ UnknownMet
  BY <1>2, <1>5 DEF UnknownsAreOver, UnknownMet
<1>8. KeptSoFar
  <2>1. Len(json) = 0
    BY <1>2
  <2>2. \A i \in 1 .. Len(json) : FALSE
    BY <2>1
  <2> QED
    BY <1>5, <2>2 DEF KeptSoFar, InOrder, InJson
<1> QED
  BY <1>4, <1>6, <1>7, <1>8 DEF DemarshalInv

\* The iterators above the current one are untouched by what happens in it.
LEMMA OpenAbove ==
    ASSUME DemarshalInv, NEW c \in 1 .. Size, Open(c)
    PROVE  /\ reply.up[c] \in 0 .. Size /\ reply.up[c] < inside /\ c <= inside
           /\ at[reply.up[c]] = reply.last[c] + 1
<1>1. IsReply(reply) /\ Size = Len(reply.kind) /\ inside \in 0 .. Size /\ Size \in Nat
  BY ReplyIsReply DEF DemarshalInv, DemarshalTypes
<1>2. reply.up[c] \in 0 .. c - 1
  BY <1>1, Shape
<1>3. c <= inside
  BY <1>1 DEF Open, Holds
<1> QED
  BY <1>1, <1>2, <1>3 DEF DemarshalInv, IteratorsStand

LEMMA ReadBasicKeeps ==
    ASSUME DemarshalInv, ReadBasic
    PROVE  DemarshalInv'
<1> DEFINE e == Current
<1>1. /\ e \in 1 .. Size /\ e = Frontier /\ ~Lost(reply, e) /\ reply.up[e] = inside
      /\ inside # 0 => inside < e /\ e <= reply.last[inside]
      /\ inside = 0 => e = 1
  BY CurrentIsKept DEF ReadBasic
<1>2. /\ IsReply(reply) /\ Size = Len(reply.kind) /\ Size \in Nat \ {0}
      /\ inside \in 0 .. Size /\ at \in [0 .. Size -> Int]
      /\ Elements(reply) = 1 .. Size
  BY ReplyIsReply DEF DemarshalInv, DemarshalTypes
<1>3. /\ UNCHANGED <<reply, inside, consumed>> /\ consumed /\ ~done
      /\ json' = Append(json, e) /\ done' = (inside = 0)
      /\ at' = [at EXCEPT ![inside] = e + 1]
      /\ reply.kind[e] = "basic"
  BY DEF ReadBasic, Reading, Step
<1>4. reply.last[e] = e
  BY <1>1, <1>2, <1>3, Shape DEF Leaves
<1> HIDE DEF e
<1>5. Size' = Size /\ at'[inside] = e + 1 /\ at' \in [0 .. Size -> Int]
  BY <1>1, <1>2, <1>3 DEF Size
<1>6. Frontier' = e + 1
  <2>1. CASE inside = 0
    <3>1. Size = 1
      BY <1>1, <1>2, <1>4, <2>1, Shape
    <3> QED
      BY <1>1, <1>3, <1>5, <2>1, <3>1 DEF Frontier
  <2>2. CASE inside # 0
    BY <1>3, <1>5, <2>2 DEF Frontier
  <2> QED
    BY <2>1, <2>2
<1>7. DemarshalTypes'
  BY <1>1, <1>2, <1>3, <1>5, AppendInJson DEF DemarshalInv, DemarshalTypes
<1>8. KeptSoFar'
  BY <1>1, <1>2, <1>3, <1>6, AppendKeeps
<1>9. IteratorsStand'
  <2>1. ASSUME inside # 0
        PROVE  /\ reply.kind[inside] \in Containers
               /\ inside < at'[inside] /\ at'[inside] <= reply.last[inside] + 1
               /\ at'[inside] <= reply.last[inside] => reply.up[at'[inside]] = inside
    <3>1. reply.last[inside] \in 1 .. Size
      BY <1>2, <2>1, Shape
    <3>2. e \in 2 .. Len(reply.kind)
      BY <1>1, <1>2, <2>1
    <3>3. e + 1 <= reply.last[inside] => reply.up[e + 1] = inside
      BY <1>1, <1>2, <1>4, <3>2, NextSibling
    <3> QED
      BY <1>1, <1>2, <1>5, <2>1, <3>1, <3>3 DEF DemarshalInv, IteratorsStand
  <2>2. ASSUME NEW c \in 1 .. Size, Open(c)
        PROVE  at'[reply.up[c]] = reply.last[c] + 1
    BY <1>2, <1>3, <2>2, OpenAbove
  <2>3. \A c \in 1 .. Size : Open(c)' <=> Open(c)
    BY <1>3, <1>5 DEF Open
  <2> QED
    BY <1>3, <1>5, <2>1, <2>2, <2>3 DEF IteratorsStand
<1>10. UnknownsAreOver'
  <2> SUFFICES ASSUME NEW u \in 2 .. Size, reply.kind[u] = "unknown", u < e + 1
               PROVE  reply.last[Ends(reply, u)] < e + 1
    BY <1>3, <1>5, <1>6 DEF UnknownsAreOver
  <2>1. u < Frontier /\ ~EntryEnds
    BY <1>1, <1>3 DEF EntryEnds
  <2>2. reply.last[Ends(reply, u)] < e
    BY <1>1, <2>1 DEF DemarshalInv, UnknownsAreOver
  <2>3. reply.last[Ends(reply, u)] \in Int
    <3>1. 1 < u /\ u <= reply.last[1] /\ 1 \in 1 .. Size /\ u \in 1 .. Size
      BY <1>2, Shape
    <3> QED
      BY <1>2, <3>1, EndsWithin, Shape
  <2> QED
    BY <1>1, <2>2, <2>3
<1>11. UnknownMet'
  BY <1>3 DEF UnknownMet
<1> QED
  BY <1>7, <1>8, <1>9, <1>10, <1>11 DEF DemarshalInv

LEMMA BeginKeeps ==
    ASSUME DemarshalInv, Begin
    PROVE  DemarshalInv'
<1> DEFINE e == Current
<1>1. /\ e \in 1 .. Size /\ e = Frontier /\ ~Lost(reply, e) /\ reply.up[e] = inside
      /\ inside # 0 => inside < e /\ e <= reply.last[inside]
      /\ inside = 0 => e = 1
  BY CurrentIsKept DEF Begin
<1>2. /\ IsReply(reply) /\ Size = Len(reply.kind) /\ Size \in Nat \ {0}
      /\ inside \in 0 .. Size /\ at \in [0 .. Size -> Int]
      /\ Elements(reply) = 1 .. Size
  BY ReplyIsReply DEF DemarshalInv, DemarshalTypes
<1>3. /\ UNCHANGED <<reply, consumed, done>> /\ consumed /\ ~done
      /\ json' = Append(json, e) /\ inside' = e
      /\ at' = [at EXCEPT ![inside] = reply.last[e] + 1, ![e] = e + 1]
      /\ reply.kind[e] \in Containers
  BY DEF Begin, Reading, Recurse
<1> HIDE DEF e
<1>4. reply.last[e] \in 1 .. Size /\ e <= reply.last[e]
  BY <1>1, <1>2, Shape
<1>5. /\ Size' = Size /\ at' \in [0 .. Size -> Int] /\ inside < e
      /\ at'[e] = e + 1 /\ at'[inside] = reply.last[e] + 1
      /\ \A n \in 0 .. Size : n # e /\ n # inside => at'[n] = at[n]
  BY <1>1, <1>2, <1>3, <1>4 DEF Size
<1>6. Frontier' = e + 1
  BY <1>1, <1>3, <1>5 DEF Frontier
<1>7. DemarshalTypes'
  BY <1>1, <1>2, <1>3, <1>5, AppendInJson DEF DemarshalInv, DemarshalTypes
<1>8. KeptSoFar'
  BY <1>1, <1>2, <1>3, <1>6, AppendKeeps
<1>9. IteratorsStand'
  <2>1. e + 1 <= reply.last[e] => reply.up[e + 1] = e
    BY <1>1, <1>2, FirstInside
  <2>2. ASSUME NEW c \in 1 .. Size, Open(c)'
        PROVE  at'[reply.up[c]] = reply.last[c] + 1
    <3>1. CASE c = e
      BY <1>1, <1>5, <3>1
    <3>2. CASE c # e
      <4>1. c < e /\ e <= reply.last[c]
        BY <1>3, <2>2, <3>2 DEF Open, Holds
      <4>2. c <= inside /\ reply.last[c] \in 1 .. Size
        BY <1>1, <1>2, <4>1, Nested, Shape
      <4>3. Open(c)
        BY <1>1, <1>2, <1>5, <4>1, <4>2 DEF Open, Holds
      <4> QED
        BY <1>1, <1>2, <1>5, <4>3, OpenAbove
    <3> QED
      BY <3>1, <3>2
  <2>3. inside' = e /\ e # 0 /\ done' = FALSE /\ reply' = reply /\ Size' = Size
    BY <1>1, <1>3, <1>5
  <2>4. /\ inside' < at'[inside'] /\ at'[inside'] <= reply.last[inside'] + 1
        /\ at'[inside'] <= reply.last[inside'] => reply.up[at'[inside']] = inside'
        /\ reply.kind[inside'] \in Containers
    BY <1>1, <1>3, <1>4, <1>5, <2>1, <2>3
  <2> QED
    BY <2>2, <2>3, <2>4 DEF IteratorsStand
<1>10. UnknownsAreOver'
  <2> SUFFICES ASSUME NEW u \in 2 .. Size, reply.kind[u] = "unknown", u < e + 1
               PROVE  reply.last[Ends(reply, u)] < e + 1
    BY <1>3, <1>5, <1>6 DEF UnknownsAreOver
  <2>1. u < Frontier /\ ~EntryEnds
    BY <1>1, <1>3 DEF EntryEnds, Containers
  <2>2. reply.last[Ends(reply, u)] < e
    BY <1>1, <2>1 DEF DemarshalInv, UnknownsAreOver
  <2>3. reply.last[Ends(reply, u)] \in Int
    <3>1. 1 < u /\ u <= reply.last[1] /\ 1 \in 1 .. Size /\ u \in 1 .. Size
      BY <1>2, Shape
    <3> QED
      BY <1>2, <3>1, EndsWithin, Shape
  <2> QED
    BY <1>1, <2>2, <2>3
<1>11. UnknownMet'
  BY <1>3 DEF UnknownMet
<1> QED
  BY <1>7, <1>8, <1>9, <1>10, <1>11 DEF DemarshalInv

LEMMA MeetUnknownKeeps ==
    ASSUME DemarshalInv, MeetUnknown
    PROVE  DemarshalInv'
<1> DEFINE e == Current
<1>1. /\ e \in 1 .. Size /\ e = Frontier /\ ~Lost(reply, e) /\ reply.up[e] = inside
      /\ inside # 0 => inside < e /\ e <= reply.last[inside]
      /\ inside = 0 => e = 1
  BY CurrentIsKept DEF MeetUnknown
<1>2. /\ IsReply(reply) /\ Size = Len(reply.kind) /\ Size \in Nat \ {0}
      /\ inside \in 0 .. Size /\ at \in [0 .. Size -> Int]
      /\ Elements(reply) = 1 .. Size
  BY ReplyIsReply DEF DemarshalInv, DemarshalTypes
<1>3. /\ UNCHANGED <<reply, inside, at>> /\ consumed' = FALSE /\ ~done
      /\ json' = Append(json, e) /\ done' = (inside = 0)
      /\ reply.kind[e] = "unknown" /\ consumed
  BY DEF MeetUnknown, Reading
<1> HIDE DEF e
<1>4. Size' = Size /\ (\A c \in 1 .. Size : Open(c)' <=> Open(c))
  BY <1>3 DEF Size, Open
<1>5. DemarshalTypes'
  BY <1>1, <1>2, <1>3, <1>4, AppendInJson DEF DemarshalInv, DemarshalTypes
<1>6. IteratorsStand'
  BY <1>3, <1>4 DEF DemarshalInv, IteratorsStand
<1>7. CASE inside = 0
  <2>1. Size = 1 /\ e = 1
    <3>1. reply.last[e] = e
      BY <1>1, <1>2, <1>3, Shape DEF Leaves
    <3> QED
      BY <1>1, <1>2, <1>7, <3>1, Shape
  <2>2. Frontier' = 2
    <3>1. inside' = 0 /\ done' = TRUE /\ Size' = 1
      BY <1>3, <1>4, <1>7, <2>1
    <3>2. Frontier' = Size' + 1
      BY <3>1 DEF Frontier
    <3> QED
      BY <3>1, <3>2
  <2>3. KeptSoFar'
    BY <1>1, <1>2, <1>3, <2>1, <2>2, AppendKeeps
  <2>4. UnknownsAreOver'
    BY <1>4, <2>1 DEF UnknownsAreOver
  <2>5. UnknownMet'
    BY <1>3, <1>7 DEF UnknownMet
  <2> QED
    BY <1>5, <1>6, <2>3, <2>4, <2>5 DEF DemarshalInv
<1>8. CASE inside # 0
  <2>1. inside \in 1 .. Size /\ reply.last[inside] \in 1 .. Size
    BY <1>2, <1>8, Shape
  <2>2. Frontier' = reply.last[inside] + 1 /\ e < Frontier'
    BY <1>1, <1>3, <1>8, <2>1 DEF Frontier
  <2>3. e > 1 /\ e \in 2 .. Size
    BY <1>1, <1>2, <1>8, <2>1
  <2>4. Ends(reply, e) = IF reply.kind[inside] = "entry" THEN reply.up[inside] ELSE inside
    BY <1>1, <2>3 DEF Ends
  <2>5. UnknownMet'
    BY <1>3, <1>4, <2>2, <2>3, <2>4 DEF UnknownMet
  <2>6. reply.last[inside] <= reply.last[Ends(reply, e)] /\ reply.last[Ends(reply, e)] \in Int
    <3>1. CASE reply.kind[inside] # "entry"
      BY <2>1, <2>4, <3>1
    <3>2. CASE reply.kind[inside] = "entry"
      <4>1. inside # 1 /\ inside > 1
        BY <1>2, <2>1, <3>2, Shape
      <4> DEFINE m == reply.up[inside]
      <4>2. m \in 1 .. inside - 1 /\ inside <= reply.last[m] /\ m \in 1 .. Len(reply.kind)
        BY <1>2, <2>1, <4>1, Shape
      <4>3. reply.last[inside] <= reply.last[m]
        BY <1>2, <2>1, <4>2, Nested
      <4>4. reply.last[m] \in Int
        BY <1>2, <4>2, Shape
      <4> QED
        BY <2>4, <3>2, <4>3, <4>4
    <3> QED
      BY <3>1, <3>2
  <2>7. ASSUME NEW n \in e + 1 .. Size, n < Frontier'
        PROVE  Lost(reply, n)
    <3>1. e < n /\ n <= reply.last[Ends(reply, e)]
      BY <1>1, <2>1, <2>2, <2>6, <2>7
    <3> QED
      BY <1>1, <1>2, <1>3, <2>3, <3>1 DEF Lost
  <2>8. KeptSoFar'
    BY <1>1, <1>2, <1>3, <2>1, <2>2, <2>7, AppendKeeps
  <2>9. UnknownsAreOver'
    <3> SUFFICES ASSUME NEW u \in 2 .. Size, reply.kind[u] = "unknown", u < Frontier'
                 PROVE  \/ reply.last[Ends(reply, u)] < Frontier'
                        \/ EntryEnds' /\ Ends(reply, u) = reply.up[inside]
      BY <1>3, <1>4 DEF UnknownsAreOver
    <3>1. CASE u < e
      <4>1. reply.last[Ends(reply, u)] < e
        BY <1>1, <1>3, <3>1 DEF DemarshalInv, UnknownsAreOver, EntryEnds
      <4>2. reply.last[Ends(reply, u)] \in Int
        <5>1. 1 < u /\ u <= reply.last[1] /\ 1 \in 1 .. Size /\ u \in 1 .. Size
          BY <1>2, Shape
        <5> QED
          BY <1>2, <5>1, EndsWithin, Shape
      <4> QED
        BY <1>1, <2>1, <2>2, <4>1, <4>2
    <3>2. CASE e <= u
      <4>1. inside < u /\ u <= reply.last[inside] /\ u \in 1 .. Size
        BY <1>1, <1>2, <1>8, <2>1, <2>2, <3>2
      <4>2. /\ Ends(reply, u) \in 1 .. Size
            /\ \/ reply.last[Ends(reply, u)] <= reply.last[inside]
               \/ reply.kind[inside] = "entry" /\ Ends(reply, u) = reply.up[inside]
        BY <1>2, <2>1, <4>1, EndsWithin
      <4>3. reply.last[Ends(reply, u)] \in Int
        BY <1>2, <4>2, Shape
      <4> QED
        BY <1>3, <1>8, <2>1, <2>2, <4>2, <4>3 DEF EntryEnds
    <3> QED
      BY <1>1, <3>1, <3>2
  <2> QED
    BY <1>5, <1>6, <2>5, <2>8, <2>9 DEF DemarshalInv
<1> QED
  BY <1>7, <1>8

LEMMA EndKeeps ==
    ASSUME DemarshalInv, End
    PROVE  DemarshalInv'
<1>1. /\ IsReply(reply) /\ Size = Len(reply.kind) /\ Size \in Nat \ {0}
      /\ inside \in 1 .. Size /\ at \in [0 .. Size -> Int]
      /\ Elements(reply) = 1 .. Size
  BY ReplyIsReply DEF DemarshalInv, DemarshalTypes, End
<1>2. /\ UNCHANGED <<reply, at, json>> /\ ~done /\ inside # 0
      /\ inside' = reply.up[inside]
      /\ consumed' = ConsumedBy(inside)
      /\ done' = (inside' = 0)
      /\ AtEnd \/ ~consumed
  BY DEF End
<1> DEFINE p == reply.up[inside]
           l == reply.last[inside]
<1>3. /\ l \in 1 .. Size /\ inside <= l /\ p \in 0 .. inside - 1
      /\ p = 0 => inside = 1
  BY <1>1, Shape
<1>4. Size' = Size /\ at[p] = l + 1 /\ p \in 0 .. Size
  BY <1>1, <1>2, <1>3, OpenAbove DEF Size, Open
<1>5. Frontier = l + 1
  <2>1. CASE ~consumed
    BY <1>2, <2>1 DEF Frontier
  <2>2. CASE consumed
    <3>1. at[inside] > l /\ at[inside] \in Int /\ at[inside] <= l + 1
      BY <1>1, <1>2, <2>2 DEF AtEnd, DemarshalInv, IteratorsStand
    <3> QED
      BY <1>2, <1>3, <2>2, <3>1 DEF Frontier
  <2> QED
    BY <2>1, <2>2
<1>6. ASSUME NEW u \in 2 .. Size
      PROVE  Ends(reply, u) \in 1 .. Size /\ reply.last[Ends(reply, u)] \in Int
  <2>1. 1 < u /\ u <= reply.last[1] /\ 1 \in 1 .. Size /\ u \in 1 .. Size
    BY <1>1, Shape
  <2>2. Ends(reply, u) \in 1 .. Size
    BY <1>1, <2>1, EndsWithin
  <2> QED
    BY <1>1, <2>2, Shape
<1>7. ASSUME p # 0
      PROVE  /\ p \in 1 .. Size /\ p < inside /\ inside <= reply.last[p]
             /\ reply.last[p] \in 1 .. Size /\ l <= reply.last[p]
             /\ reply.kind[p] \in Containers
             /\ reply.kind[inside] = "entry" <=> reply.kind[p] = "map"
             /\ l + 1 <= reply.last[p] => reply.up[l + 1] = p
  <2>1. inside \in 2 .. Size /\ p \in 1 .. Size /\ p < inside
    BY <1>1, <1>3, <1>7
  <2>2. inside <= reply.last[p] /\ reply.last[p] \in 1 .. Size
    <3>1. inside > 1 /\ inside \in 1 .. Len(reply.kind) /\ p \in 1 .. Len(reply.kind)
      BY <1>1, <2>1
    <3>2. inside <= reply.last[p] /\ reply.last[p] \in 1 .. Len(reply.kind)
      BY Zenon, <1>1, <3>1, Shape
    <3> QED
      BY Zenon, <1>1, <3>2
  <2>3. l <= reply.last[p] /\ reply.kind[p] \in Containers
    BY <1>1, <2>1, <2>2, Nested
  <2>4. inside \in 2 .. Len(reply.kind)
    BY <1>1, <2>1
  <2>5. reply.kind[inside] = "entry" <=> reply.kind[p] = "map"
    BY Zenon, <1>1, <2>4, EntryInMap
  <2>6. l + 1 <= reply.last[p] => reply.up[l + 1] = p
    BY Zenon, <1>1, <2>4, NextSibling
  <2> QED
    BY Zenon, <2>1, <2>2, <2>3, <2>5, <2>6
<1>8. consumed' = (reply.kind[inside] = "entry" => consumed) /\ consumed' \in BOOLEAN
  BY <1>2 DEF ConsumedBy, DemarshalInv, DemarshalTypes
<1> HIDE DEF l
<1>9. DemarshalTypes'
  BY <1>1, <1>2, <1>4, <1>8 DEF DemarshalInv, DemarshalTypes
<1>10. \A c \in 1 .. Size : Open(c)' => Open(c)
  <2> SUFFICES ASSUME NEW c \in 1 .. Size, Open(c)' PROVE Open(c)
    OBVIOUS
  <2>1. p # 0 /\ c <= p
    BY <1>2, <1>3 DEF Open, Holds
  <2>2. p \in 1 .. Size /\ p < inside /\ inside <= reply.last[p] /\ reply.last[p] \in 1 .. Size
    BY <1>7, <2>1
  <2>3. reply.last[p] <= reply.last[c] /\ reply.last[c] \in 1 .. Size
    <3>1. CASE c = p
      BY <2>2, <3>1
    <3>2. CASE c # p
      BY <1>1, <1>2, <2>1, <2>2, <2>2, <3>2, Nested, Shape DEF Open, Holds
    <3> QED
      BY <3>1, <3>2
  <2>4. c < inside /\ inside <= reply.last[c]
    BY <1>1, <2>1, <2>2, <2>3
  <2> QED
    BY <2>4 DEF Open, Holds
<1>11. IteratorsStand'
  <2>1. ASSUME p # 0
        PROVE  /\ reply.kind[p] \in Containers
               /\ p < at[p] /\ at[p] <= reply.last[p] + 1
               /\ at[p] <= reply.last[p] => reply.up[at[p]] = p
    BY <1>1, <1>3, <1>4, <1>7, <2>1
  <2>2. ASSUME NEW c \in 1 .. Size, Open(c)'
        PROVE  at[reply.up[c]] = reply.last[c] + 1
    BY <1>10, <2>2 DEF DemarshalInv, IteratorsStand
  <2> QED
    BY <1>2, <1>4, <2>1, <2>2 DEF IteratorsStand
<1>12. CASE consumed' /\ (p = 0 => consumed')
  <2>1. Frontier' = l + 1
    <3>1. CASE p = 0
      <4>1. l = Size
        BY <1>1, <1>3, <3>1, Shape DEF l
      <4> QED
        BY <1>2, <1>4, <3>1, <4>1 DEF Frontier
    <3>2. CASE p # 0
      BY <1>2, <1>4, <1>12, <3>2 DEF Frontier
    <3> QED
      BY <3>1, <3>2
  <2>2. KeptSoFar'
    BY <1>2, <1>4, <1>5, <2>1 DEF DemarshalInv, KeptSoFar, InOrder, InJson
  <2>3. ~EntryEnds
    BY <1>8, <1>12 DEF EntryEnds
  <2>4. UnknownsAreOver'
    BY <1>2, <1>4, <1>5, <2>1, <2>3 DEF DemarshalInv, UnknownsAreOver
  <2>5. UnknownMet'
    BY <1>12 DEF UnknownMet
  <2> QED
    BY <1>9, <1>11, <2>2, <2>4, <2>5 DEF DemarshalInv
<1>13. CASE ~consumed'
  <2>1. reply.kind[inside] = "entry" /\ ~consumed
    BY <1>8, <1>13
  <2>2. p # 0
    <3>1. inside # 1
      BY <1>1, <2>1, Shape
    <3> QED
      BY <1>3, <3>1
  <2>3. reply.kind[p] = "map" /\ p \in 1 .. Size /\ reply.last[p] \in 1 .. Size
        /\ l <= reply.last[p] /\ p < inside
    BY <1>7, <2>1, <2>2
  <2>4. Frontier' = reply.last[p] + 1
    BY <1>2, <1>13, <2>2 DEF Frontier
  <2>5. PICK w \in 2 .. Size :
            reply.kind[w] = "unknown" /\ w < Frontier /\ Ends(reply, w) = p
    BY <1>2, <2>1 DEF DemarshalInv, UnknownMet
  <2>6. UnknownMet'
    <3>1. w < Frontier'
      BY <1>3, <1>5, <2>3, <2>4, <2>5
    <3>2. reply.kind[p] # "entry"
      BY <2>3
    <3> QED
      BY <1>2, <1>4, <2>5, <3>1, <3>2 DEF UnknownMet
  <2>7. UnknownsAreOver'
    <3> SUFFICES ASSUME NEW u \in 2 .. Size, reply.kind[u] = "unknown", u < Frontier'
                 PROVE  reply.last[Ends(reply, u)] < Frontier'
      BY <1>2, <1>4 DEF UnknownsAreOver
    <3>1. CASE u < Frontier
      <4>1. \/ reply.last[Ends(reply, u)] < Frontier
            \/ Ends(reply, u) = p
        BY <3>1 DEF DemarshalInv, UnknownsAreOver
      <4> QED
        BY <1>3, <1>5, <1>6, <2>3, <2>4, <4>1
    <3>2. CASE ~(u < Frontier)
      <4>1. p < u /\ u <= reply.last[p] /\ u \in 1 .. Size
        BY <1>1, <1>3, <1>5, <2>3, <2>4, <3>2
      <4>2. reply.last[Ends(reply, u)] <= reply.last[p]
        BY <1>1, <2>3, <4>1, EndsWithin
      <4> QED
        BY <1>6, <2>3, <2>4, <4>2
    <3> QED
      BY <3>1, <3>2
  <2>8. KeptSoFar'
    <3>1. ASSUME NEW n \in 1 .. Size
          PROVE  n < Frontier' /\ ~Lost(reply, n) <=> n < Frontier /\ ~Lost(reply, n)
      <4>1. n < Frontier => n < Frontier'
        BY <1>3, <1>5, <2>3, <2>4
      <4>2. n < Frontier' /\ ~(n < Frontier) => Lost(reply, n)
        <5> SUFFICES ASSUME n < Frontier', ~(n < Frontier) PROVE Lost(reply, n)
          OBVIOUS
        <5>1. w < n /\ n <= reply.last[p]
          BY <1>3, <1>5, <2>3, <2>4, <2>5
        <5> QED
          BY <1>1, <2>5, <5>1 DEF Lost
      <4> QED
        BY <4>1, <4>2
    <3> QED
      BY <1>2, <1>4, <3>1 DEF DemarshalInv, KeptSoFar, InOrder, InJson
  <2> QED
    BY <1>9, <1>11, <2>6, <2>7, <2>8 DEF DemarshalInv
<1>14. p = 0 => consumed'
  BY <1>1, <1>3, <1>8, Shape
<1> QED
  BY <1>12, <1>13, <1>14

-----------------------------------------------------------------------------
LEMMA NextKeepsDemarshal == DemarshalInv /\ [ReplyNext]_replyVars => DemarshalInv'
<1> SUFFICES ASSUME DemarshalInv, [ReplyNext]_replyVars PROVE DemarshalInv'
  OBVIOUS
<1>1. CASE ReadBasic
  BY <1>1, ReadBasicKeeps
<1>2. CASE MeetUnknown
  BY <1>2, MeetUnknownKeeps
<1>3. CASE Begin
  BY <1>3, BeginKeeps
<1>4. CASE End
  BY <1>4, EndKeeps
<1>5. CASE UNCHANGED replyVars
  BY <1>5 DEF replyVars, DemarshalInv, DemarshalTypes, IteratorsStand, UnknownsAreOver, UnknownMet,
              KeptSoFar, InOrder, InJson, Frontier, EntryEnds, Open, Size
<1> QED
  BY <1>1, <1>2, <1>3, <1>4, <1>5 DEF ReplyNext

LEMMA InvKeepsTheRest == DemarshalInv => KeepsTheRest
<1> SUFFICES ASSUME DemarshalInv PROVE KeepsTheRest
  OBVIOUS
<1>1. Elements(reply) = 1 .. Size /\ Size \in Nat /\ json \in Seq(1 .. Size)
  BY ReplyIsReply DEF DemarshalInv, DemarshalTypes
<1>2. \A i \in 1 .. Len(json) : json[i] \in Kept(reply)
  BY <1>1 DEF DemarshalInv, KeptSoFar, InJson, Kept
<1>3. ASSUME done, NEW n \in Kept(reply)
      PROVE  \E i \in 1 .. Len(json) : json[i] = n
  <2>1. inside = 0
    BY <1>3 DEF DemarshalInv, IteratorsStand
  <2>2. Frontier = Size + 1
    BY <1>3, <2>1 DEF Frontier
  <2> QED
    BY <1>1, <1>3, <2>2 DEF DemarshalInv, KeptSoFar, InJson, Kept
<1> QED
  BY <1>2, <1>3 DEF KeepsTheRest, DemarshalInv, KeptSoFar

\* Every reply is read in order, without what is behind an unknown element in its
\* container, and with everything else.
THEOREM RepliesAreKept == ReplySpec => []KeepsTheRest
  BY InitDemarshal, NextKeepsDemarshal, InvKeepsTheRest, PTL DEF ReplySpec
=============================================================================
