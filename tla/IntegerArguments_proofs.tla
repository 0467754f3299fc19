---------------------- MODULE IntegerArguments_proofs ----------------------
(***************************************************************************)
(* The conversion of integers is exact for all widths.  The argument: sign *)
(* and magnitude lose nothing (ParsedIsMeant), the range check on them is  *)
(* the check on the integer (RangeIsExact), and an integer of the range is *)
(* a fixed point of the conversion to its type (VariantIsExact).           *)
(***************************************************************************)
EXTENDS IntegerArguments, TLAPS

\* The half of each width is at most that of the widest.
LEMMA Halves ==
    ASSUME NEW t \in Types
    PROVE  /\ WidthOf(t) \in Widths
           /\ Half[WidthOf(t)] \in Nat \ {0} /\ Half[WidthOf(t)] <= Half[64]
           /\ Half[64] \in Nat \ {0}
           /\ WidthOf(t) # 64 => 2 * Half[WidthOf(t)] <= ExactLimit
<1>1. WidthOf(t) \in Widths
    BY DEF WidthOf, Widths, Types, Unsigned
<1>2. Half[8] \in Nat \ {0} /\ Half[16] \in Nat \ {0} /\ Half[32] \in Nat \ {0} /\ Half[64] \in Nat \ {0}
    BY IntegersAssumption DEF Widths
<1>3. Half[8] <= Half[16] /\ Half[16] <= Half[32] /\ 2 * Half[32] <= ExactLimit
      /\ ExactLimit < Half[64] /\ ExactLimit \in Nat
    BY IntegersAssumption
<1>4. CASE WidthOf(t) = 8
    BY <1>1, <1>2, <1>3, <1>4
<1>5. CASE WidthOf(t) = 16
    BY <1>1, <1>2, <1>3, <1>5
<1>6. CASE WidthOf(t) = 32
    BY <1>1, <1>2, <1>3, <1>6
<1>7. CASE WidthOf(t) = 64
    BY <1>1, <1>2, <1>3, <1>7
<1> QED
    BY <1>1, <1>4, <1>5, <1>6, <1>7 DEF Widths

\* The remainder of an integer between -b and b.
LEMMA Remainder ==
    ASSUME NEW b \in Nat, b > 0, NEW n \in Int, -b <= n, n < b
    PROVE  n % b = IF n < 0 THEN n + b ELSE n
OBVIOUS

\* A conversion to an integer type keeps the integers of the type.
LEMMA UnsignedKeeps ==
    ASSUME NEW h \in Nat \ {0}, NEW n \in Int, 0 <= n, n < 2 * h
    PROVE  ToUnsigned(n, h) = n
<1>1. 2 * h \in Nat /\ 2 * h > 0 /\ -(2 * h) <= n
    OBVIOUS
<1> QED
    BY <1>1, Remainder DEF ToUnsigned

LEMMA SignedKeeps ==
    ASSUME NEW h \in Nat \ {0}, NEW n \in Int, -h <= n, n < h
    PROVE  ToSigned(n, h) = n
<1>1. 2 * h \in Nat /\ 2 * h > 0 /\ -(2 * h) <= n /\ n < 2 * h
    OBVIOUS
<1>2. n % (2 * h) = IF n < 0 THEN n + 2 * h ELSE n
    BY <1>1, Remainder
<1> QED
    BY <1>1, <1>2 DEF ToSigned

\* What a parsed integer stands for.
Number(n) == IF n.negative THEN 0 - n.magnitude ELSE n.magnitude

Parsed(n) == n.ok \in BOOLEAN /\ n.negative \in BOOLEAN /\ n.magnitude \in Nat

-----------------------------------------------------------------------------

\* An integer of the int64 range has an exact sign and magnitude, its least one too.
LEMMA SignMagnitudeExact ==
    ASSUME NEW e \in Int, FitsInt64(e)
    PROVE  LET n == SignMagnitude(e) IN
           /\ Parsed(n) /\ n.ok /\ Number(n) = e
           /\ n.magnitude < 2 * Half[64]
<1> DEFINE h == Half[64]
           n == SignMagnitude(e)
<1>1. h \in Nat \ {0} /\ -h <= e /\ e < h
    BY IntegersAssumption DEF FitsInt64, Widths
<1>2. CASE e < 0
    <2>1. QuInt64(-(e + 1)) = -(e + 1)
        BY <1>1, <1>2, UnsignedKeeps DEF QuInt64
    <2>2. QuInt64(-(e + 1) + 1) = -e
        BY <1>1, <1>2, UnsignedKeeps, -(e + 1) + 1 = -e DEF QuInt64
    <2>3. n = [ok |-> TRUE, negative |-> TRUE, magnitude |-> -e]
        BY <1>2, <2>1, <2>2 DEF SignMagnitude
    <2> HIDE DEF n
    <2>4. n.ok \in BOOLEAN /\ n.negative \in BOOLEAN /\ n.ok /\ n.negative
        BY <2>3
    <2>5. n.magnitude = -e /\ -e \in Nat /\ -e < 2 * h /\ -(-e) = e
        BY <1>1, <1>2, <2>3
    <2> QED
        BY <2>4, <2>5 DEF Parsed, Number, n
<1>3. CASE e >= 0
    <2>1. QuInt64(e) = e
        BY <1>1, <1>3, UnsignedKeeps DEF QuInt64
    <2>0. (e < 0) = FALSE
        BY <1>1, <1>3
    <2>2. n = [ok |-> TRUE, negative |-> FALSE, magnitude |-> e]
        BY <2>0, <2>1 DEF SignMagnitude
    <2> HIDE DEF n
    <2>3. n.ok \in BOOLEAN /\ n.negative \in BOOLEAN /\ n.ok /\ ~n.negative
        BY <2>2
    <2>4. n.magnitude = e /\ e \in Nat /\ e < 2 * h
        BY <1>1, <1>3, <2>2
    <2> QED
        BY <2>3, <2>4 DEF Parsed, Number, n
<1> QED
    BY <1>1, <1>2, <1>3

\* A reading is an integer.
LEMMA ReadIsInt == ASSUME NEW n \in Int PROVE Read(n) \in Int
<1>1. n \div Step \in Int /\ n % Step \in Int
    BY IntegersAssumption
<1> QED
    BY <1>1, IntegersAssumption DEF Read, Nearest

\* An integer is its absolute value up to the sign.
LEMMA AbsFacts ==
    ASSUME NEW n \in Int
    PROVE  Abs(n) \in Nat /\ n = IF n < 0 THEN 0 - Abs(n) ELSE Abs(n)
BY DEF Abs

\* The values that parseInteger() accepts.
IsInteger(v) ==
    \/ v.kind = "minus zero"
    \/ v.kind = "string" /\ Abs(v.number) < 2 * Half[64]
    \/ v.kind = "number" /\ FitsInt64(Read(v.number))

\* A JSON value has a kind, and an integer.
LEMMA ValueFacts ==
    ASSUME NEW v \in Values
    PROVE  /\ v.number \in Int
           /\ v.kind \in {"number", "string", "minus zero", "fraction", "text", "other"}
           /\ v.kind = "minus zero" => v.number = 0
<1>1. CASE v \in [kind : {"number", "string"}, number : Numbers]
    <2>1. v.number \in Numbers /\ v.kind \in {"number", "string"}
        BY <1>1
    <2> QED
        BY <2>1, IntegersAssumption
<1>2. CASE v \in [kind : {"minus zero", "fraction", "text", "other"}, number : {0}]
    <2>1. v.number \in {0} /\ v.kind \in {"minus zero", "fraction", "text", "other"}
        BY <1>2
    <2>2. v.number \in {0}
        BY <2>1
    <2>3. v.number \in Int
        BY <2>2
    <2> QED
        BY <2>1, <2>3
<1> QED
    BY <1>1, <1>2 DEF Values

\* Parsing succeeds on these values exactly, and keeps the integer they stand for.
LEMMA ParsedIsMeant ==
    ASSUME NEW v \in Values
    PROVE  LET n == ParseInteger(v) IN
           /\ Parsed(n) /\ (n.ok <=> IsInteger(v))
           /\ n.ok => Number(n) = Meant(v) /\ n.magnitude < 2 * Half[64]
<1> DEFINE n == ParseInteger(v)
<1>1. v.number \in Int /\ v.kind \in {"number", "string", "minus zero", "fraction", "text", "other"}
      /\ (v.kind = "minus zero" => v.number = 0)
    BY ValueFacts
<1>2. Half[64] \in Nat \ {0}
    BY IntegersAssumption DEF Widths
<1>3. CASE v.kind = "minus zero"
    <2>1. n = [ok |-> TRUE, negative |-> TRUE, magnitude |-> 0]
        BY <1>3 DEF ParseInteger
    <2> HIDE DEF n
    <2>2. n.ok \in BOOLEAN /\ n.negative \in BOOLEAN /\ n.ok /\ n.negative /\ n.magnitude = 0
        BY <2>1
    <2>3. Meant(v) = 0 /\ IsInteger(v)
        <3>1. v.number = 0 /\ v.kind # "number"
            BY <1>1, <1>3
        <3> QED
            BY <1>3, <3>1 DEF Meant, IsInteger
    <2>4. 0 < 2 * Half[64]
        BY <1>2
    <2> QED
        BY <2>2, <2>3, <2>4 DEF Parsed, Number, n
<1>4. CASE v.kind = "string" /\ Abs(v.number) < 2 * Half[64]
    <2>1. n = [ok |-> TRUE, negative |-> v.number < 0, magnitude |-> Abs(v.number)]
        BY <1>4 DEF ParseInteger
    <2> HIDE DEF n
    <2>2. n.ok \in BOOLEAN /\ n.negative \in BOOLEAN /\ n.ok /\ n.magnitude = Abs(v.number)
        BY <2>1
    <2>3. n.negative = (v.number < 0)
        BY <2>1
    <2>5. Abs(v.number) \in Nat
          /\ v.number = IF v.number < 0 THEN 0 - Abs(v.number) ELSE Abs(v.number)
        BY <1>1, AbsFacts
    <2>4. Meant(v) = v.number /\ IsInteger(v)
        BY <1>4 DEF Meant, IsInteger
    <2>6. Number(n) = v.number
        <3>1. CASE v.number < 0
            <4>1. n.negative
                BY <2>3, <3>1
            <4>2. v.number = 0 - Abs(v.number)
                BY <2>5, <3>1
            <4>3. v.number = 0 - n.magnitude
                BY <2>2, <4>2
            <4> QED
                BY <4>1, <4>3 DEF Number
        <3>2. CASE ~(v.number < 0)
            <4>1. ~n.negative /\ v.number = n.magnitude
                BY <2>2, <2>3, <2>5, <3>2
            <4> QED
                BY <4>1 DEF Number
        <3> QED
            BY <3>1, <3>2
    <2> QED
        BY <1>4, <2>2, <2>4, <2>5, <2>6 DEF Parsed, n
<1>5. CASE v.kind = "number" /\ FitsInt64(Read(v.number))
    <2>1. n = SignMagnitude(Read(v.number))
        BY <1>5 DEF ParseInteger
    <2>2. Meant(v) = Read(v.number) /\ IsInteger(v)
        BY <1>5 DEF Meant, IsInteger
    <2> HIDE DEF n
    <2>3. Parsed(n) /\ n.ok /\ Number(n) = Read(v.number) /\ n.magnitude < 2 * Half[64]
        BY <1>1, <1>5, <2>1, ReadIsInt, SignMagnitudeExact
    <2> QED
        BY <2>2, <2>3 DEF n
<1>6. CASE ~IsInteger(v)
    <2>1. n = [ok |-> FALSE, negative |-> FALSE, magnitude |-> 0]
        BY <1>1, <1>6 DEF ParseInteger, IsInteger, NoInteger
    <2> HIDE DEF n
    <2>2. n.ok \in BOOLEAN /\ n.negative \in BOOLEAN /\ ~n.ok /\ n.magnitude = 0
        BY <2>1
    <2> QED
        BY <1>6, <2>2 DEF Parsed, n
<1> QED
    BY <1>3, <1>4, <1>5, <1>6 DEF IsInteger

\* The check on sign and magnitude is the check on the integer.
LEMMA RangeIsExact ==
    ASSUME NEW t \in Types, NEW n, Parsed(n)
    PROVE  InRange(n, IntegerRange(t)) <=> InType(Number(n), t)
<1> DEFINE h == Half[WidthOf(t)]
           r == IntegerRange(t)
<1>1. h \in Nat \ {0} /\ h <= Half[64] /\ Half[64] \in Nat \ {0}
    BY Halves
<1>2. CASE t \in Unsigned
    <2>1. r.min = 0 /\ r.max = 2 * h - 1
        BY <1>2 DEF IntegerRange
    <2> QED
        BY <1>1, <2>1 DEF Parsed, InRange, InType, Number
<1>3. CASE t \notin Unsigned
    <2>1. r.min = -h /\ r.max = h - 1
        BY <1>3 DEF IntegerRange
    <2>2. QuInt64(-(r.min + 1)) = h - 1
        BY <1>1, <2>1, UnsignedKeeps, -(-h + 1) = h - 1 DEF QuInt64
    <2>3. QuInt64(QuInt64(-(r.min + 1)) + 1) = h
        BY <1>1, <2>2, UnsignedKeeps, (h - 1) + 1 = h DEF QuInt64
    <2> QED
        BY <1>1, <2>1, <2>3 DEF Parsed, InRange, InType, Number
<1> QED
    BY <1>2, <1>3

\* The signed value of what fits in int64.
LEMMA SignedValueExact ==
    ASSUME NEW n, Parsed(n), -Half[64] <= Number(n), Number(n) < Half[64]
    PROVE  SignedValue(n) = Number(n)
<1> DEFINE h == Half[64]
           m == n.magnitude
<1>1. h \in Nat \ {0} /\ m \in Nat
    BY IntegersAssumption DEF Widths, Parsed
<1>2. CASE ~n.negative \/ m = 0
    <2>1. m < h /\ -h <= m /\ Number(n) = m
        BY <1>1, <1>2 DEF Number
    <2>2. QInt64(m) = m
        BY <1>1, <2>1, SignedKeeps DEF QInt64
    <2> QED
        BY <1>2, <2>1, <2>2 DEF SignedValue
<1>3. CASE n.negative /\ m # 0
    <2>1. Number(n) = -m /\ 0 <= m - 1 /\ m - 1 < h /\ -(m - 1) - 1 = -m
        BY <1>1, <1>3 DEF Number
    <2>2. QInt64(m - 1) = m - 1
        BY <1>1, <2>1, SignedKeeps DEF QInt64
    <2>3. QInt64(-(m - 1) - 1) = -m
        BY <1>1, <2>1, SignedKeeps DEF QInt64
    <2> QED
        BY <1>3, <2>1, <2>2, <2>3 DEF SignedValue
<1> QED
    BY <1>2, <1>3

\* An integer of the range of its type is written as it is.
LEMMA VariantIsExact ==
    ASSUME NEW t \in Types, NEW n, Parsed(n), InType(Number(n), t)
    PROVE  IntegerVariant(t, n) = Number(n)
<1> DEFINE h == Half[WidthOf(t)]
<1>1. h \in Nat \ {0} /\ h <= Half[64] /\ Half[64] \in Nat \ {0}
    BY Halves
<1>2. n.magnitude \in Nat /\ Number(n) \in Int
    BY DEF Parsed, Number
<1>3. CASE t \in Unsigned
    <2>1. 0 <= Number(n) /\ Number(n) < 2 * h
        BY <1>1, <1>2, <1>3 DEF InType, IntegerRange
    <2>2. Number(n) = n.magnitude
        BY <1>2, <2>1 DEF Number, Parsed
    <2>3. ToUnsigned(n.magnitude, h) = n.magnitude
        BY <1>1, <1>2, <2>1, <2>2, UnsignedKeeps
    <2> QED
        BY <1>3, <2>2, <2>3 DEF IntegerVariant
<1>4. CASE t \notin Unsigned
    <2>1. -h <= Number(n) /\ Number(n) < h
        BY <1>1, <1>2, <1>4 DEF InType, IntegerRange
    <2>2. SignedValue(n) = Number(n)
        BY <1>1, <1>2, <2>1, SignedValueExact
    <2>3. ToSigned(Number(n), h) = Number(n)
        BY <1>1, <1>2, <2>1, SignedKeeps
    <2> QED
        BY <1>4, <2>2, <2>3 DEF IntegerVariant
<1> QED
    BY <1>3, <1>4

\* What coerceInteger() does, for every JSON value, every type and all widths: it
\* accepts the integers of the type, and sends them as they are.
THEOREM CoerceIsExact ==
    ASSUME NEW v \in Values, NEW t \in Types
    PROVE  LET r == CoerceInteger(v, t) IN
           /\ r.ok <=> IsInteger(v) /\ InType(Meant(v), t)
           /\ r.ok => r.value = Meant(v)
           /\ ~r.ok => r.value = 0
<1> DEFINE n == ParseInteger(v)
           r == CoerceInteger(v, t)
<1>1. Parsed(n) /\ (n.ok <=> IsInteger(v)) /\ (n.ok => Number(n) = Meant(v))
    BY ParsedIsMeant
<1>2. InRange(n, IntegerRange(t)) <=> InType(Number(n), t)
    BY <1>1, RangeIsExact
<1>3. r.ok <=> n.ok /\ InRange(n, IntegerRange(t))
    BY DEF CoerceInteger
<1>4. r.value = IF r.ok THEN IntegerVariant(t, n) ELSE 0
    BY DEF CoerceInteger
<1>5. r.ok => IntegerVariant(t, n) = Number(n)
    BY <1>1, <1>2, <1>3, VariantIsExact
<1> QED
    BY <1>1, <1>2, <1>3, <1>4, <1>5

-----------------------------------------------------------------------------

\* An integer of a type is below 2^63 in absolute value unless it is unsigned,
\* below 2^64 anyhow, and exact for a client when it has less than 64 bits.
LEMMA TypeBounds ==
    ASSUME NEW t \in Types, NEW n \in Int, InType(n, t)
    PROVE  /\ Abs(n) < 2 * Half[64]
           /\ WidthOf(t) # 64 => Abs(n) <= ExactLimit
<1> DEFINE h == Half[WidthOf(t)]
<1>1. h \in Nat \ {0} /\ h <= Half[64] /\ Half[64] \in Nat \ {0}
      /\ (WidthOf(t) # 64 => 2 * h <= ExactLimit)
    BY Halves
<1>2. IntegerRange(t).min \in {0, -h} /\ IntegerRange(t).max \in {2 * h - 1, h - 1}
    BY DEF IntegerRange
<1>3. -h <= n /\ n < 2 * h
    BY <1>1, <1>2 DEF InType
<1>4. Abs(n) < 2 * h
    BY <1>1, <1>3 DEF Abs
<1>5. ExactLimit \in Int /\ Abs(n) \in Int
    BY IntegersAssumption DEF Abs
<1> QED
    BY <1>1, <1>4, <1>5

\* The JSON value of an integer of a type is exact, and read as that integer.
LEMMA BackIsExact ==
    ASSUME NEW t \in Types, NEW n \in Int, InType(n, t)
    PROVE  LET b == VariantToJson(t, n) IN
           /\ b.number = n
           /\ b.kind = "number" => Abs(b.number) <= ExactLimit
           /\ b.number \in Numbers => CoerceInteger(b, t) = [ok |-> TRUE, value |-> n]
<1> DEFINE b == VariantToJson(t, n)
<1>1. b.number = n /\ b.kind \in {"number", "string"}
      /\ (b.kind = "number" => ~(WidthOf(t) = 64 /\ Abs(n) > ExactLimit))
    BY DEF VariantToJson
<1>2. ExactLimit \in Nat /\ Abs(n) \in Int /\ ExactLimit < Half[64] /\ Half[64] \in Nat \ {0}
    BY IntegersAssumption DEF Abs, Widths
<1>3. b.kind = "number" => Abs(n) <= ExactLimit
    BY <1>1, <1>2, TypeBounds
<1>4. ASSUME n \in Numbers
      PROVE  CoerceInteger(b, t) = [ok |-> TRUE, value |-> n]
    <2>1. b \in Values
        BY <1>4, <1>1 DEF Values, VariantToJson
    <2>2. b.kind = "number" => FitsInt64(n) /\ Read(n) = n
        BY <1>2, <1>3 DEF FitsInt64, Read, Abs
    <2>3. Meant(b) = n
        BY <1>1, <2>2 DEF Meant
    <2>4. IsInteger(b)
        BY <1>1, <2>2, TypeBounds DEF IsInteger
    <2>5. CoerceInteger(b, t).ok /\ CoerceInteger(b, t).value = n
        BY <2>1, <2>3, <2>4, CoerceIsExact
    <2>6. CoerceInteger(b, t) = [ok |-> CoerceInteger(b, t).ok, value |-> CoerceInteger(b, t).value]
          /\ CoerceInteger(b, t).ok \in BOOLEAN
        BY <2>5 DEF CoerceInteger, ParseInteger, NoInteger, SignMagnitude
    <2> QED
        BY <2>5, <2>6
<1> QED
    BY <1>1, <1>3, <1>4

IInv == TypeOK /\ SentAsMeant /\ RefusedRightly /\ EchoIsExact

\* The parameter of an integer type.
LEMMA CoerceInv == IInv /\ Coerce => IInv'
<1> SUFFICES ASSUME IInv, Coerce PROVE IInv'
    OBVIOUS
<1> DEFINE r == CoerceInteger(value, type)
<1>1. value \in Values /\ type \in Types
    BY DEF IInv, TypeOK, Coerce
<1>2. /\ r.ok <=> IsInteger(value) /\ InType(Meant(value), type)
      /\ r.ok => r.value = Meant(value)
      /\ ~r.ok => r.value = 0
    BY <1>1, CoerceIsExact
<1>3. /\ phase' = IF r.ok THEN "sent" ELSE "refused"
      /\ sent' = r.value /\ value' = value /\ type' = type
    BY DEF Coerce
<1>4. Meant(value) \in Int
    BY <1>1, ReadIsInt, ValueFacts DEF Meant
<1> HIDE DEF r
<1>5. TypeOK'
    BY <1>1, <1>2, <1>3, <1>4 DEF TypeOK
<1>6. SentAsMeant' /\ EchoIsExact'
    BY <1>2, <1>3 DEF SentAsMeant, EchoIsExact
<1>7. RefusedRightly'
    <2> SUFFICES ASSUME phase' = "refused", value.kind \in {"number", "string", "minus zero"},
                        InType(Meant(value), type)
                 PROVE  value.kind = "number" /\ ~FitsInt64(Read(value.number))
        BY <1>3 DEF RefusedRightly
    <2>1. ~IsInteger(value)
        BY <1>2, <1>3
    <2>2. Abs(Meant(value)) < 2 * Half[64]
        BY <1>1, <1>4, TypeBounds
    <2>3. value.kind # "string"
        BY <2>1, <2>2 DEF IsInteger, Meant
    <2> QED
        BY <2>1, <2>3 DEF IsInteger
<1> QED
    BY <1>5, <1>6, <1>7 DEF IInv

\* The natural mapping of a number.
LEMMA NaturalInv == IInv /\ Natural => IInv'
<1> SUFFICES ASSUME IInv, Natural PROVE IInv'
    OBVIOUS
<1> DEFINE m == Read(value.number)
<1>1. m \in Int /\ value.kind = "number" /\ value \in Values
    BY ReadIsInt, IntegersAssumption DEF IInv, TypeOK, Natural, Values
<1>2. type' = NaturalType(value.number) /\ phase' = "sent" /\ sent' = m /\ value' = value
      /\ FitsInt64(m)
    BY DEF Natural, NaturalType
<1>3. \/ type' = "i" /\ -Half[32] <= m /\ m < Half[32]
      \/ type' = "x" /\ -Half[64] <= m /\ m < Half[64]
    BY <1>2 DEF NaturalType, FitsInt64
<1>4. Half[32] \in Nat /\ Half[64] \in Nat
    BY IntegersAssumption DEF Widths
<1> HIDE DEF m
<1>5. type' \in Types /\ InType(m, type')
    BY <1>1, <1>3, <1>4 DEF Types, Unsigned, InType, IntegerRange, WidthOf
<1>6. TypeOK'
    BY <1>1, <1>2, <1>5 DEF TypeOK
<1>7. SentAsMeant' /\ RefusedRightly' /\ EchoIsExact'
    BY <1>1, <1>2 DEF SentAsMeant, RefusedRightly, EchoIsExact, Meant, m
<1> QED
    BY <1>6, <1>7 DEF IInv

\* The integer comes back.
LEMMA EchoInv == IInv /\ Echo => IInv'
<1> SUFFICES ASSUME IInv, Echo PROVE IInv'
    OBVIOUS
<1>1. type \in Types /\ sent \in Int /\ InType(sent, type)
    BY DEF IInv, TypeOK, Echo
<1>2. TypeOK' /\ SentAsMeant' /\ RefusedRightly'
    BY <1>1 DEF IInv, TypeOK, SentAsMeant, RefusedRightly, Echo
<1>3. EchoIsExact'
    BY <1>1, BackIsExact DEF EchoIsExact, Echo
<1> QED
    BY <1>2, <1>3 DEF IInv

\* The inductive invariant is the three properties and the types.
THEOREM IntegerInvariant == Spec => []IInv
<1>1. Init => IInv
    BY DEF Init, IInv, TypeOK, SentAsMeant, RefusedRightly, EchoIsExact
<1>2. IInv /\ UNCHANGED vars => IInv'
    BY DEF IInv, TypeOK, SentAsMeant, RefusedRightly, EchoIsExact, vars
<1>3. IInv /\ [Next]_vars => IInv'
    BY <1>2, CoerceInv, NaturalInv, EchoInv DEF Next
<1> QED
    BY <1>1, <1>3, PTL DEF Spec

\* What is sent is the integer the client meant, for all widths.
THEOREM IntegersAreSentAsMeant == Spec => []SentAsMeant
<1>1. IInv => SentAsMeant
    BY DEF IInv
<1> QED
    BY <1>1, IntegerInvariant, PTL

\* No integer is refused that the type can hold, for all widths.
THEOREM IntegersAreRefusedRightly == Spec => []RefusedRightly
<1>1. IInv => RefusedRightly
    BY DEF IInv
<1> QED
    BY <1>1, IntegerInvariant, PTL

\* An integer of a reply comes back as it was, for all widths.
THEOREM EchoesAreExact == Spec => []EchoIsExact
<1>1. IInv => EchoIsExact
    BY DEF IInv
<1> QED
    BY <1>1, IntegerInvariant, PTL
=============================================================================
