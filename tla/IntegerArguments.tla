-------------------------- MODULE IntegerArguments --------------------------
(***************************************************************************)
(* Integers on their way from a JSON argument to D-Bus and back:           *)
(* coerceInteger (src/dbus/typecoercer.cpp), then variantToJson            *)
(* (src/dbus/dbusbridge.cpp) for a service that echoes its argument.       *)
(* The widths are parameters: Half[w] is 2^(w - 1) for the width w.        *)
(***************************************************************************)
EXTENDS Integers

CONSTANTS
    Half,       \* half the number of values of each width
    ExactLimit, \* 2^53: up to there a JSON number is exact for every client
    Step,       \* the distance of two doubles from 2^63 on
    Numbers     \* the integers a client may write

Widths == {8, 16, 32, 64}

ASSUME IntegersAssumption ==
    /\ Half \in [Widths -> Nat \ {0}]
    /\ Half[8] <= Half[16] /\ Half[16] <= Half[32]
    /\ ExactLimit \in Nat
    /\ 2 * Half[32] <= ExactLimit /\ ExactLimit < Half[64]
    /\ Step \in Nat \ {0}
    /\ Numbers \subseteq Int

Unsigned == {"y", "q", "u", "t"}
Types == Unsigned \cup {"n", "i", "x"}

WidthOf(type) ==
    CASE type = "y" -> 8
      [] type \in {"n", "q"} -> 16
      [] type \in {"i", "u"} -> 32
      [] type \in {"x", "t"} -> 64

\* Conversions to the integer types of C++ with half h.
ToUnsigned(n, h) == n % (2 * h)
ToSigned(n, h) == LET u == n % (2 * h) IN IF u < h THEN u ELSE u - 2 * h

QuInt64(n) == ToUnsigned(n, Half[64])
QInt64(n) == ToSigned(n, Half[64])

-----------------------------------------------------------------------------
(* JSON values: a number or a string that writes an integer, "-0", the rest. *)

Values ==
    [kind : {"number", "string"}, number : Numbers]
        \cup [kind : {"minus zero", "fraction", "text", "other"}, number : {0}]

\* The double a JSON number beyond int64 is read as: the nearest one.
Nearest(n) ==
    LET q == n \div Step
        r == n % Step
    IN  Step * (IF 2 * r < Step \/ (2 * r = Step /\ q % 2 = 0) THEN q ELSE q + 1)

FitsInt64(n) == -Half[64] <= n /\ n < Half[64]

\* The number as QJsonDocument holds it: exact when it fits in int64.
Read(n) == IF FitsInt64(n) THEN n ELSE Nearest(n)

NoInteger == [ok |-> FALSE, negative |-> FALSE, magnitude |-> 0]

Abs(n) == IF n < 0 THEN -n ELSE n

SignMagnitude(exact) ==
    [ok |-> TRUE, negative |-> exact < 0,
     magnitude |-> IF exact < 0 THEN QuInt64(QuInt64(-(exact + 1)) + 1) ELSE QuInt64(exact)]

\* toULongLong() refuses what does not fit; a number is what its reading is.
ParseInteger(v) ==
    CASE v.kind = "minus zero" -> [ok |-> TRUE, negative |-> TRUE, magnitude |-> 0]
      [] v.kind = "string" /\ Abs(v.number) < 2 * Half[64] ->
            [ok |-> TRUE, negative |-> v.number < 0, magnitude |-> Abs(v.number)]
      [] v.kind = "number" /\ FitsInt64(Read(v.number)) -> SignMagnitude(Read(v.number))
      [] OTHER -> NoInteger

IntegerRange(type) ==
    LET h == Half[WidthOf(type)] IN
    IF type \in Unsigned THEN [min |-> 0, max |-> 2 * h - 1] ELSE [min |-> -h, max |-> h - 1]

\* Mutant of InRange: the magnitude of the minimum is taken for that of the maximum.
InRangeSymmetric(n, range) ==
    IF ~n.negative \/ n.magnitude = 0 THEN n.magnitude <= range.max
    ELSE range.min < 0 /\ n.magnitude <= range.max

InRange(n, range) ==
    IF ~n.negative \/ n.magnitude = 0 THEN n.magnitude <= range.max
    ELSE range.min < 0 /\ n.magnitude <= QuInt64(QuInt64(-(range.min + 1)) + 1)

\* Mutant of SignedValue: the magnitude loses one on its way to the sign.
SignedOffByOne(n) ==
    IF ~n.negative \/ n.magnitude = 0 THEN QInt64(n.magnitude)
    ELSE QInt64(-QInt64(n.magnitude - 1))

SignedValue(n) ==
    IF ~n.negative \/ n.magnitude = 0 THEN QInt64(n.magnitude)
    ELSE QInt64(-QInt64(n.magnitude - 1) - 1)

IntegerVariant(type, n) ==
    LET h == Half[WidthOf(type)] IN
    IF type \in Unsigned THEN ToUnsigned(n.magnitude, h) ELSE ToSigned(SignedValue(n), h)

\* coerceInteger(): what is written on the bus, unless the value is refused.
CoerceInteger(v, type) ==
    LET n == ParseInteger(v)
        ok == n.ok /\ InRange(n, IntegerRange(type))
    IN  [ok |-> ok, value |-> IF ok THEN IntegerVariant(type, n) ELSE 0]

\* Mutant of VariantToJson: 64 bits in a JSON number whatever the value.
AlwaysNumber(type, n) == [kind |-> "number", number |-> n]

\* variantToJson(): beyond 2^53 a 64-bit integer is written as a string.
VariantToJson(type, n) ==
    [kind |-> IF WidthOf(type) = 64 /\ Abs(n) > ExactLimit THEN "string" ELSE "number",
     number |-> n]

\* jsonToVariant(): the type of a number without a signature.
NaturalType(n) ==
    IF ~FitsInt64(Read(n)) THEN "d"
    ELSE IF -Half[32] <= Read(n) /\ Read(n) < Half[32] THEN "i" ELSE "x"

-----------------------------------------------------------------------------

VARIABLES
    value,   \* the JSON argument
    type,    \* the type of its parameter, then the one it is sent as
    phase,   \* "argument", then "refused", or "sent" and "back"
    sent,    \* the integer on the bus
    back     \* the JSON value the client gets back

vars == <<value, type, phase, sent, back>>

NoValue == [kind |-> "other", number |-> 0]

Init ==
    /\ value \in Values
    /\ type \in Types \cup {"v"}
    /\ phase = "argument"
    /\ sent = 0
    /\ back = NoValue

\* The argument of a parameter with an integer type.
Coerce ==
    /\ phase = "argument" /\ type # "v"
    /\ LET r == CoerceInteger(value, type) IN
        /\ phase' = IF r.ok THEN "sent" ELSE "refused"
        /\ sent' = r.value
    /\ UNCHANGED <<value, type, back>>

\* A number in a variant or without a signature: the natural mapping.
Natural ==
    /\ phase = "argument" /\ type = "v"
    /\ value.kind = "number" /\ NaturalType(value.number) # "d"
    /\ type' = NaturalType(value.number)
    /\ phase' = "sent"
    /\ sent' = Read(value.number)
    /\ UNCHANGED <<value, back>>

\* The service sends the integer back.
Echo ==
    /\ phase = "sent"
    /\ phase' = "back"
    /\ back' = VariantToJson(type, sent)
    /\ UNCHANGED <<value, type, sent>>

Next == Coerce \/ Natural \/ Echo

Spec == Init /\ [][Next]_vars

-----------------------------------------------------------------------------
(* Properties. *)

\* The integer a JSON value stands for, once it is read.
Meant(v) == IF v.kind = "number" THEN Read(v.number) ELSE v.number

InType(n, t) == IntegerRange(t).min <= n /\ n <= IntegerRange(t).max

\* Every variable has its type, and what is sent fits its D-Bus type.
TypeOK ==
    /\ value \in Values
    /\ type \in Types \cup {"v"}
    /\ phase \in {"argument", "refused", "sent", "back"}
    /\ sent \in Int
    /\ phase \in {"sent", "back"} => type \in Types /\ InType(sent, type)

\* An argument is sent as the very integer it stands for, at every edge of every
\* type: no sign, wrap or truncation on the way through sign and magnitude.
SentAsMeant == phase \in {"sent", "back"} => sent = Meant(value)

\* Only what is no integer of the type is refused; a number must moreover fit in
\* int64 to be sent as one, a string need not.
RefusedRightly ==
    phase = "refused" =>
        \/ value.kind \notin {"number", "string", "minus zero"}
        \/ ~InType(Meant(value), type)
        \/ value.kind = "number" /\ ~FitsInt64(Read(value.number))

\* What a client gets back is no number that it would round, and it may send it
\* again under the same type: the same integer leaves.
EchoIsExact ==
    phase = "back" =>
        /\ back.number = sent
        /\ back.kind = "number" => Abs(back.number) <= ExactLimit
        /\ back.number \in Numbers => CoerceInteger(back, type) = [ok |-> TRUE, value |-> sent]
=============================================================================
