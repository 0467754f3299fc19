---------------------------- MODULE Coercer_proofs ----------------------------
(***************************************************************************)
(* Proofs about Coercer, for arguments of any nesting, any signatures and  *)
(* any limits.                                                             *)
(*                                                                         *)
(* The invariant says of what is sent that pass 2, or the natural mapping, *)
(* made it of an argument that pass 1, or naturalDepth(), found fine, and  *)
(* of a refusal for the depth that the verdict was "depth".  What follows  *)
(* from that is shown by induction over values: JSON values and D-Bus      *)
(* values come in levels, and each function of Coercer is recursive along  *)
(* a rank that falls from a value to its items.  For each of them there is *)
(*   - a lemma that unfolds it once, on the values it is meant for,        *)
(*   - a lemma for each kind of type that says what is checked, built or   *)
(*     read, given the same of the items, and                              *)
(*   - the induction, along the rank.                                      *)
(* What is known of types and of their depths comes from Parsing_proofs.   *)
(***************************************************************************)
EXTENDS Coercer, Parsing_proofs


-----------------------------------------------------------------------------
(* The types that a type is made of.                                        *)

\* What a single complete type is.
LEMMA SingleCases ==
    ASSUME NEW s \in Seq(Chars), NEW n \in Nat, n = Len(s), IsSingleCompleteType(s)
    PROVE  \/ n = 1 /\ s[1] \in Basic \cup {"v"} /\ TypeDepth(s) = 0
           \/ /\ n > 4 /\ s[1] = "a" /\ s[2] = "{" /\ s[3] \in Basic
              /\ Inside(DictValue(s), s, 2)
           \/ /\ n > 1 /\ s[1] = "a" /\ s[2] # "{" /\ Inside(Tail(s), s, 1)
           \/ /\ n > 1 /\ s[1] = "("
              /\ s[2] # ")" /\ s[n] = ")"
              /\ 1 \in 0 .. MaxStructDepth /\ 0 \in 0 .. MaxArrayDepth
              /\ Scan(s)[<<"fields", 2, 0, 1>>].end = n + 1
              /\ Scan(s)[<<"fields", 2, 0, 1>>].depth = TypeDepth(s)
<1>1. /\ n > 0 /\ n <= MaxSignatureLength
      /\ Scan(s)[<<"type", 1, 0, 0>>].end = n + 1
      /\ TypeDepth(s) = Scan(s)[<<"type", 1, 0, 0>>].depth
      /\ TypeDepth(s) \in Nat
      /\ 0 \in 0 .. MaxArrayDepth /\ 0 \in 0 .. MaxStructDepth /\ 1 \in 1 .. n + 1
    BY SingleScan
<1>2. PICK g : g = Scan(s)
    OBVIOUS
<1>3. g[<<"type", 1, 0, 0>>].end > 0
    BY <1>1, <1>2
<1>r. PICK r : r = g[<<"type", 1, 0, 0>>]
    OBVIOUS
<1>v. PICK v : v = g[<<"type", 4, 1, 1>>]
    OBVIOUS
<1>e. PICK e : e = g[<<"type", 2, 1, 0>>]
    OBVIOUS
<1>f. PICK f : f = g[<<"fields", 2, 0, 1>>]
    OBVIOUS
<1>4. 1 + 3 = 4 /\ 1 + 1 = 2 /\ 1 + 2 = 3 /\ 0 + 1 = 1
    OBVIOUS
<1>5. IsTypeFound(s, n, 1, 0, 0, g[<<"type", 1, 0, 0>>], g[<<"type", 1 + 3, 0 + 1, 0 + 1>>],
                       g[<<"type", 1 + 1, 0 + 1, 0>>], g[<<"fields", 1 + 1, 0, 0 + 1>>])
    BY <1>1, <1>2, <1>3, TypeFound
<1>6. IsTypeFound(s, n, 1, 0, 0, r, v, e, f)
    BY Zenon, <1>4, <1>5, <1>r, <1>v, <1>e, <1>f
<1>7. r.end = n + 1 /\ r.depth = TypeDepth(s)
    BY <1>1, <1>2, <1>r
<1>8. At(s, 1) = s[1] /\ (n > 1 => At(s, 2) = s[2]) /\ (n > 2 => At(s, 3) = s[3])
    BY <1>1, AtFacts
<1>9. CASE At(s, 1) \in Basic \cup {"v"} /\ r = [end |-> 1 + 1, depth |-> 0]
    <2>1. r.end = 2 /\ r.depth = 0
        BY <1>9
    <2>2. n = 1
        BY <1>7, <2>1
    <2> QED
        BY Zenon, <1>7, <1>8, <1>9, <2>1, <2>2
<1>10. CASE /\ At(s, 1) = "a" /\ At(s, 2) = "{" /\ At(s, 3) \in Basic
            /\ 4 \in 1 .. n + 1 /\ 1 \in 0 .. MaxArrayDepth /\ 1 \in 0 .. MaxStructDepth
            /\ v.end > 0 /\ At(s, v.end) = "}" /\ r = [end |-> v.end + 1, depth |-> v.depth + 2]
    <2>1. v.end \in 4 + 1 .. n + 1 /\ v.depth \in Nat
        BY <1>2, <1>v, <1>10, ScanTyped
    <2>2. r.end = v.end + 1 /\ r.depth = v.depth + 2
        BY <1>10
    <2>3. v.end = n
        BY <1>7, <2>1, <2>2
    <2>4. n > 4 /\ n \in 4 + 1 .. n + 1
        BY <2>1, <2>3
    <2>5. s[1] = "a" /\ s[2] = "{" /\ s[3] \in Basic
        <3>1. n > 1 /\ n > 2
            BY <2>4
        <3> QED
            BY Zenon, <1>8, <1>10, <3>1
    <2>6. Scan(s)[<<"type", 4, 1, 1>>].end = n /\ Scan(s)[<<"type", 4, 1, 1>>].depth + 2 = TypeDepth(s)
        BY Zenon, <1>2, <1>v, <1>7, <2>2, <2>3
    <2>7. /\ DictValue(s) \in Seq(Chars) /\ IsSingleCompleteType(DictValue(s))
          /\ TypeDepth(DictValue(s)) = v.depth
        <3>1. DictValue(s) = SubSeq(s, 4, n - 1)
            BY DEF DictValue
        <3>2. /\ 4 \in 1 .. n + 1 /\ 1 \in 0 .. MaxArrayDepth /\ 1 \in 0 .. MaxStructDepth
              /\ n <= MaxSignatureLength
            BY Zenon, <1>1, <1>10
        <3>3. /\ SubSeq(s, 4, n - 1) \in Seq(Chars) /\ IsSingleCompleteType(SubSeq(s, 4, n - 1))
              /\ TypeDepth(SubSeq(s, 4, n - 1)) = Scan(s)[<<"type", 4, 1, 1>>].depth
            BY <2>4, <2>6, <3>2, ScannedPart
        <3> QED
            BY Zenon, <1>2, <1>v, <3>1, <3>3
    <2>8. TypeDepth(DictValue(s)) \in Nat /\ TypeDepth(DictValue(s)) + 2 <= TypeDepth(s)
        BY <1>7, <2>1, <2>2, <2>7
    <2> QED
        BY Zenon, <2>4, <2>5, <2>7, <2>8 DEF Inside
<1>11. CASE /\ At(s, 1) = "a" /\ At(s, 2) # "{"
            /\ 2 \in 1 .. n + 1 /\ 1 \in 0 .. MaxArrayDepth
            /\ e.end > 0 /\ r = [end |-> e.end, depth |-> e.depth + 1]
    <2>1. e.end \in 2 + 1 .. n + 1 /\ e.depth \in Nat
        BY <1>1, <1>2, <1>e, <1>11, ScanTyped
    <2>2. r.end = e.end /\ r.depth = e.depth + 1
        BY <1>11
    <2>3. e.end = n + 1 /\ n > 1
        BY <1>7, <2>1, <2>2
    <2>4. s[1] = "a" /\ s[2] # "{"
        BY <1>8, <1>11, <2>3
    <2>5. PICK m \in Nat : m = n + 1 /\ m - 1 = n
        OBVIOUS
    <2>6. Tail(s) = SubSeq(s, 2, n)
        BY <2>3
    <2>7. Tail(s) \in Seq(Chars) /\ IsSingleCompleteType(Tail(s)) /\ TypeDepth(Tail(s)) = e.depth
        <3>1. /\ 2 \in 1 .. n + 1 /\ 1 \in 0 .. MaxArrayDepth /\ 0 \in 0 .. MaxStructDepth
              /\ n <= MaxSignatureLength
            BY Zenon, <1>1, <1>11
        <3>2. Scan(s)[<<"type", 2, 1, 0>>] = e
            BY Zenon, <1>2, <1>e
        <3>3. m \in 2 + 1 .. n + 1 /\ Scan(s)[<<"type", 2, 1, 0>>].end = m
            BY <2>3, <2>5, <3>2
        <3>4. /\ SubSeq(s, 2, m - 1) \in Seq(Chars) /\ IsSingleCompleteType(SubSeq(s, 2, m - 1))
              /\ TypeDepth(SubSeq(s, 2, m - 1)) = Scan(s)[<<"type", 2, 1, 0>>].depth
            BY <3>1, <3>3, ScannedPart
        <3> QED
            BY Zenon, <2>5, <2>6, <3>2, <3>4
    <2>8. TypeDepth(Tail(s)) \in Nat /\ TypeDepth(Tail(s)) + 1 <= TypeDepth(s)
        BY <1>7, <2>1, <2>2, <2>7
    <2> QED
        BY Zenon, <2>3, <2>4, <2>7, <2>8 DEF Inside
<1>12. CASE /\ At(s, 1) = "(" /\ At(s, 2) # ")"
            /\ 2 \in 1 .. n + 1 /\ 1 \in 0 .. MaxStructDepth /\ r = f
    <2>1. f.end = n + 1 /\ f.depth = TypeDepth(s)
        BY Zenon, <1>7, <1>12
    <2>2. f.end \in 2 + 1 .. n + 1
        <3>1. f.end > 0
            BY <2>1
        <3> QED
            BY <1>1, <1>2, <1>f, <1>12, <3>1, ScanTyped
    <2>3. n > 1
        BY <2>1, <2>2
    <2>4. s[1] = "(" /\ s[2] # ")"
        BY <1>8, <1>12, <2>3
    <2>5. s[n] = ")"
        <3>1. FieldsDecided(s, 2, 0, 1)
            BY <1>1, <1>12, AllDecided DEF DecidedFrom
        <3>2. n + 1 \in 2 + 1 .. n + 1 /\ n + 1 - 1 = n
            BY <2>3
        <3>3. FieldsEnd(s, 2, 0, 1) = n + 1
            BY <1>2, <1>f, <2>1 DEF FieldsEnd
        <3> QED
            BY <3>1, <3>2, <3>3 DEF FieldsDecided
    <2> QED
        BY Zenon, <1>1, <1>2, <1>f, <1>12, <2>1, <2>3, <2>4, <2>5
<1> QED
    BY Zenon, <1>4, <1>6, <1>9, <1>10, <1>11, <1>12 DEF IsTypeFound

\* A loop over the fields of a struct s, n characters long, without the outer ones: it is at
\* a field or at the end, and those it passed are single types inside s.
FieldsOK(s, n, loop) ==
    /\ loop.next \in 1 .. n - 1 /\ loop.types \in Seq(Seq(Chars))
    /\ Scan(s)[<<"fields", loop.next + 1, 0, 1>>].end = n + 1
    /\ Scan(s)[<<"fields", loop.next + 1, 0, 1>>].depth <= TypeDepth(s)
    /\ \A t \in Range(loop.types) : Inside(t, s, 1)

\* What a sequence holds with one more element.
LEMMA AppendedRange ==
    ASSUME NEW S, NEW ts \in Seq(S), NEW t \in S
    PROVE  Range(Append(ts, t)) = Range(ts) \cup {t} /\ Append(ts, t) # <<>> /\ Append(ts, t) \in Seq(S)
<1>1. PICK n \in Nat : n = Len(ts)
    OBVIOUS
<1>2. DOMAIN Append(ts, t) = 1 .. n + 1 /\ DOMAIN ts = 1 .. n
    BY <1>1
<1>3. \A k \in 1 .. n + 1 : Append(ts, t)[k] = IF k = n + 1 THEN t ELSE ts[k]
    BY <1>1
<1>4. 1 .. n + 1 = (1 .. n) \cup {n + 1} /\ n + 1 \notin 1 .. n
    BY <1>1
<1>5. Append(ts, t) \in Seq(S) /\ Append(ts, t) # <<>>
    <2>1. Append(ts, t) \in Seq(S) /\ Len(Append(ts, t)) = n + 1
        BY <1>1
    <2>2. Append(ts, t) = <<>> => Len(Append(ts, t)) = 0
        OBVIOUS
    <2>3. n + 1 # 0
        OBVIOUS
    <2> QED
        BY Zenon, <2>1, <2>2, <2>3
<1>6. \A u : u \in Range(Append(ts, t)) <=> u \in Range(ts) \cup {t}
    <2>1. ASSUME NEW u \in Range(Append(ts, t)) PROVE u \in Range(ts) \cup {t}
        <3>1. PICK k \in 1 .. n + 1 : u = Append(ts, t)[k]
            BY <1>2 DEF Range
        <3> QED
            BY <1>2, <1>3, <1>4, <3>1 DEF Range
    <2>2. ASSUME NEW u \in Range(ts) PROVE u \in Range(Append(ts, t))
        <3>1. PICK k \in 1 .. n : u = ts[k]
            BY <1>2 DEF Range
        <3> QED
            BY <1>2, <1>3, <1>4, <3>1 DEF Range
    <2>3. t \in Range(Append(ts, t))
        BY <1>2, <1>3, <1>4 DEF Range
    <2> QED
        BY <2>1, <2>2, <2>3
<1> QED
    BY <1>5, <1>6

\* One turn of the loop over the fields of a struct.
LEMMA FieldsTurn ==
    ASSUME NEW s \in Seq(Chars), NEW n \in Nat, n = Len(s), n > 1, n <= MaxSignatureLength,
           TypeDepth(s) \in Nat, 1 \in 0 .. MaxStructDepth, 0 \in 0 .. MaxArrayDepth,
           NEW i \in Nat, NEW ts, FieldsOK(s, n, [next |-> i, types |-> ts])
    PROVE  LET new == SplitNext(SubSeq(s, 2, n - 1), [next |-> i, types |-> ts])
           IN  FieldsOK(s, n, new) /\ (ts # <<>> \/ (i = 1 /\ At(s, 2) # ")") => new.types # <<>>)
<1>0. MaxArrayDepth \in Nat /\ MaxStructDepth \in Nat
    BY SignaturesAssumption
<1> DEFINE u == SubSeq(s, 2, n - 1)
           loop == [next |-> i, types |-> ts]
           new == SplitNext(u, loop)
<1>1. /\ i \in 1 .. n - 1 /\ ts \in Seq(Seq(Chars))
      /\ Scan(s)[<<"fields", i + 1, 0, 1>>].end = n + 1
      /\ Scan(s)[<<"fields", i + 1, 0, 1>>].depth <= TypeDepth(s)
      /\ \A t \in Range(ts) : Inside(t, s, 1)
    <2>1. loop.next = i /\ loop.types = ts
        OBVIOUS
    <2> HIDE DEF loop
    <2>2. FieldsOK(s, n, loop)
        BY DEF loop
    <2> QED
        BY Zenon, <2>1, <2>2 DEF FieldsOK
<1>2. PICK l \in Nat : l = n - 2
    OBVIOUS
<1>3. u \in Seq(Chars) /\ Len(u) = l /\ i \in Nat /\ i \in 0 .. l + 1 /\ i \in 1 .. l + 1
    <2>1. 2 \in 1 .. n + 1 /\ n - 1 \in 2 - 1 .. n
        OBVIOUS
    <2>2. u \in Seq(Chars) /\ Len(u) = n - 1 - 2 + 1
        BY <2>1, PartFacts
    <2>3. n - 1 - 2 + 1 = l /\ i \in Nat /\ i \in 0 .. l + 1 /\ i \in 1 .. l + 1
        BY <1>1, <1>2
    <2> QED
        BY <2>2, <2>3
<1>4. IsTurn(u, l, i, ts, new)
    <2> HIDE DEF u
    <2> QED
        BY <1>1, <1>3, SplitNextIs
<1>5. CASE i \notin 1 .. l
    <2>1. new = loop
        BY <1>4, <1>5 DEF IsTurn
    <2>2. ~(i = 1 /\ At(s, 2) # ")")
        <3> SUFFICES ASSUME i = 1, At(s, 2) # ")" PROVE FALSE
            OBVIOUS
        <3>1. n = 2 /\ 2 \in 1 .. n + 1
            BY <1>2, <1>5
        <3>2. Scan(s)[<<"fields", 2, 0, 1>>].end = 3
            BY <1>1, <3>1
        <3>3. PICK g : g = Scan(s)
            OBVIOUS
        <3>4. g[<<"fields", 2, 0, 1>>].end > 0
            BY <3>2, <3>3
        <3> DEFINE f == g[<<"type", 2, 0, 1>>]
                   o == g[<<"fields", f.end, 0, 1>>]
        <3>5. IsFieldsFound(s, n, 2, g[<<"fields", 2, 0, 1>>], f, o)
            BY <3>1, <3>3, <3>4, FieldsFound
        <3>6. /\ f.end \in 2 + 1 .. n + 1 /\ o.end > 0
              /\ g[<<"fields", 2, 0, 1>>] = [end |-> o.end, depth |-> Max({f.depth + 1, o.depth})]
            BY Zenon, <3>5 DEF IsFieldsFound
        <3>7. f.end = 3
            <4> HIDE DEF f
            <4> QED
                BY <3>1, <3>6
        <3>8. o = g[<<"fields", 3, 0, 1>>]
            BY Zenon, <3>7
        <3>9. o.end \in 3 + 1 .. n + 1
            <4>1. 3 \in 1 .. n + 1
                BY <3>1
            <4>2. g[<<"fields", 3, 0, 1>>].end > 0
                BY Zenon, <3>6, <3>8
            <4>3. g[<<"fields", 3, 0, 1>>].end \in 3 + 1 .. n + 1
                BY <3>3, <4>1, <4>2, ScanTyped
            <4> QED
                BY Zenon, <3>8, <4>3
        <3> HIDE DEF o
        <3> QED
            BY <3>1, <3>9
    <2>3. new.types = ts
        <3>1. loop.types = ts
            OBVIOUS
        <3> QED
            BY Zenon, <2>1, <3>1
    <2> QED
        BY Zenon, <2>1, <2>2, <2>3
<1>6. CASE i \in 1 .. l
    <2>0. i + 1 \in 1 .. n + 1 /\ i + 1 \in Nat
        BY <1>2, <1>6
    <2>1. PICK g : g = Scan(s)
        OBVIOUS
    <2> DEFINE f == g[<<"type", i + 1, 0, 1>>]
               o == g[<<"fields", f.end, 0, 1>>]
    <2>2. IsFieldsFound(s, n, i + 1, g[<<"fields", i + 1, 0, 1>>], f, o)
        <3>1. g[<<"fields", i + 1, 0, 1>>].end > 0
            BY <1>1, <2>1
        <3> QED
            BY <2>0, <2>1, <3>1, FieldsFound
    <2>3. /\ f.end \in i + 1 + 1 .. n + 1 /\ o.end > 0
          /\ g[<<"fields", i + 1, 0, 1>>] = [end |-> o.end, depth |-> Max({f.depth + 1, o.depth})]
        <3>1. g[<<"fields", i + 1, 0, 1>>] # [end |-> i + 1 + 1, depth |-> 1]
            <4> SUFFICES ASSUME g[<<"fields", i + 1, 0, 1>>] = [end |-> i + 1 + 1, depth |-> 1]
                         PROVE  FALSE
                OBVIOUS
            <4>1. n + 1 = i + 1 + 1
                BY <1>1, <2>1
            <4> QED
                BY <1>2, <1>6, <4>1
        <3> QED
            BY Zenon, <2>2, <3>1 DEF IsFieldsFound
    <2>l. i <= l /\ n = l + 2
        BY <1>2, <1>6
    <2>4. PICK j \in Nat : j = f.end /\ j \in i + 1 + 1 .. n + 1
        <3>1. PICK j \in i + 1 + 1 .. n + 1 : j = f.end
            BY Zenon, <2>3
        <3>2. j \in Nat
            OBVIOUS
        <3> QED
            BY Zenon, <3>1, <3>2
    <2>5. PICK a \in Nat, b \in Nat : a = f.depth /\ b = o.depth
        <3>1. f.depth \in Nat
            BY <2>0, <2>1, ScanTyped
        <3>2. j \in 1 .. n + 1
            <4>1. j \in i + 1 + 1 .. n + 1
                BY Zenon, <2>4
            <4> QED
                BY <4>1
        <3>3. g[<<"fields", j, 0, 1>>].depth \in Nat
            BY <2>1, <3>2, ScanTyped
        <3> QED
            BY Zenon, <2>4, <3>1, <3>3
    <2>6. o.end = n + 1 /\ Max({a + 1, b}) <= TypeDepth(s)
        <3>1. PICK m : m = Max({a + 1, b})
            OBVIOUS
        <3>2. PICK e : e = o.end
            OBVIOUS
        <3>3. Scan(s)[<<"fields", i + 1, 0, 1>>] = [end |-> e, depth |-> m]
            BY Zenon, <2>1, <2>3, <2>5, <3>1, <3>2
        <3>4. e = n + 1 /\ m <= TypeDepth(s)
            BY <1>1, <3>3
        <3> QED
            BY Zenon, <3>1, <3>2, <3>4
    <2>7. a + 1 <= TypeDepth(s) /\ b <= TypeDepth(s)
        <3>1. PICK m : m = Max({a + 1, b})
            OBVIOUS
        <3>2. a + 1 \in Nat
            BY <2>5
        <3>3. m \in {a + 1, b} /\ a + 1 <= m /\ b <= m
            BY Zenon, <3>1, <3>2, MaxOfTwo
        <3>4. m <= TypeDepth(s)
            BY Zenon, <2>6, <3>1
        <3> QED
            BY <3>3, <3>4
    <2>8. j <= n /\ j - 1 \in i + 1 .. l + 1
        <3>0. j \in i + 1 + 1 .. n + 1
            BY Zenon, <2>4
        <3>1. g[<<"fields", j, 0, 1>>].end = n + 1 /\ j \in 1 .. n + 1 /\ n + 1 > 0
            <4>1. g[<<"fields", j, 0, 1>>].end = n + 1
                BY Zenon, <2>4, <2>6
            <4>2. j \in 1 .. n + 1 /\ n + 1 > 0
                BY <3>0
            <4> QED
                BY Zenon, <4>1, <4>2
        <3> HIDE DEF f, o
        <3>2. n + 1 \in j + 1 .. n + 1
            <4>1. g[<<"fields", j, 0, 1>>].end > 0
                BY Zenon, <3>1
            <4>2. 1 \in 0 .. MaxStructDepth /\ 0 \in 0 .. MaxArrayDepth
                OBVIOUS
            <4>3. g[<<"fields", j, 0, 1>>].end \in j + 1 .. n + 1
                BY <2>1, <3>1, <4>1, <4>2, ScanTyped
            <4> QED
                BY Zenon, <3>1, <4>3
        <3>3. j <= n
            BY <3>2
        <3> QED
            BY <1>2, <3>0, <3>3
    <2> DEFINE t == SubSeq(s, i + 1, j - 1)
    <2>9. /\ t \in Seq(Chars) /\ IsType(t, MaxArrayDepth, MaxStructDepth)
          /\ IsSingleCompleteType(t) /\ TypeDepth(t) = a
        <3>1. Scan(s)[<<"type", i + 1, 0, 1>>].end = j /\ Scan(s)[<<"type", i + 1, 0, 1>>].depth = a
            BY Zenon, <2>1, <2>4, <2>5
        <3>2. j \in i + 1 + 1 .. n + 1
            BY Zenon, <2>4
        <3> HIDE DEF f, o
        <3> QED
            BY <2>0, <3>1, <3>2, ScannedPart
    <2>10. Inside(t, s, 1)
        BY Zenon, <2>5, <2>7, <2>9 DEF Inside
    <2>11. SubSeq(u, i, j - 1 - 1) = t
        <3>0. j \in i + 1 + 1 .. n + 1 /\ j <= n
            BY Zenon, <2>4, <2>8
        <3> HIDE DEF f, o
        <3> PICK d \in Nat : d = n - 1
            <4>1. l + 1 \in Nat /\ l + 1 = n - 1
                BY <2>l
            <4> QED
                BY Zenon, <4>1
        <3> PICK m \in Nat : m = j - 1 - 1
            BY <3>0
        <3>1. /\ 2 \in 1 .. Len(s) + 1 /\ d \in 2 - 1 .. Len(s)
              /\ i \in 1 .. d - 2 + 2 /\ m \in i - 1 .. d - 2 + 1
            BY <1>1, <2>l, <3>0
        <3>2. SubSeq(SubSeq(s, 2, d), i, m) = SubSeq(s, 2 + i - 1, 2 + m - 1)
            <4> HIDE DEF u, t
            <4> QED
                BY <3>1, PartOfPart
        <3>3. 2 + i - 1 = i + 1 /\ 2 + m - 1 = j - 1
            BY <3>0
        <3> QED
            BY Zenon, <3>2, <3>3
    <2>p. Scan(s)[<<"fields", j, 0, 1>>] = o
        BY Zenon, <2>1, <2>4
    <2> HIDE DEF t, f, o
    <2>12. TypeAt(u, i).end = j - 1
        <3>1. PICK k \in Nat : k = j - 1 /\ k \in i + 1 .. l + 1 /\ k \in i .. l + 1
            BY <2>8
        <3>2. TypeBetween(u, i, k, MaxArrayDepth, MaxStructDepth)
            BY Zenon, <2>9, <2>11, <3>1 DEF TypeBetween
        <3> HIDE DEF u
        <3>3. TypeAt(u, i).end = k
            BY <1>3, <3>1, <3>2, TopType
        <3> QED
            BY <3>1, <3>3
    <2>13. new = [next |-> j - 1, types |-> Append(ts, t)]
        BY Zenon, <1>4, <1>6, <2>8, <2>11, <2>12 DEF IsTurn
    <2>14. new.next = j - 1 /\ new.types = Append(ts, t)
        <3> HIDE DEF new
        <3> QED
            BY <2>13
    <2>15. j - 1 \in 1 .. n - 1 /\ j - 1 + 1 = j
        BY <2>8
    <2>16. FieldsOK(s, n, new)
        <3> HIDE DEF new
        <3>1. Append(ts, t) \in Seq(Seq(Chars)) /\ Range(Append(ts, t)) = Range(ts) \cup {t}
            BY <1>1, <2>9, AppendedRange
        <3>2. \A v \in Range(Append(ts, t)) : Inside(v, s, 1)
            BY Zenon, <1>1, <2>10, <3>1
        <3>3. /\ Scan(s)[<<"fields", j, 0, 1>>].end = n + 1
              /\ Scan(s)[<<"fields", j, 0, 1>>].depth <= TypeDepth(s)
            BY Zenon, <2>p, <2>5, <2>6, <2>7
        <3> QED
            BY Zenon, <2>14, <2>15, <3>1, <3>2, <3>3 DEF FieldsOK
    <2>17. new.types # <<>>
        <3> HIDE DEF new
        <3>0. ts \in Seq(Seq(Chars)) /\ t \in Seq(Chars)
            BY Zenon, <1>1, <2>9
        <3>1. Append(ts, t) # <<>>
            BY <3>0, AppendedRange
        <3> QED
            BY Zenon, <2>14, <3>1
    <2> QED
        BY <2>16, <2>17
<1> QED
    BY <1>3, <1>5, <1>6

\* The fields of a struct are types inside it, and there are some.
LEMMA StructFieldsAre ==
    ASSUME NEW s \in Seq(Chars), NEW n \in Nat, n = Len(s), n > 1, n <= MaxSignatureLength,
           TypeDepth(s) \in Nat, 1 \in 0 .. MaxStructDepth, 0 \in 0 .. MaxArrayDepth,
           At(s, 2) # ")", s[n] = ")",
           Scan(s)[<<"fields", 2, 0, 1>>].end = n + 1,
           Scan(s)[<<"fields", 2, 0, 1>>].depth = TypeDepth(s)
    PROVE  /\ StructFields(s) \in Seq(Seq(Chars)) /\ StructFields(s) # <<>>
           /\ \A t \in Range(StructFields(s)) : Inside(t, s, 1)
<1> DEFINE u == SubSeq(s, 2, n - 1)
           S == Splits(u)
<1>1. PICK l \in Nat : l = n - 2 /\ n = l + 2
    OBVIOUS
<1>2. u \in Seq(Chars) /\ Len(u) = l
    <2>1. 2 \in 1 .. n + 1 /\ n - 1 \in 2 - 1 .. n
        OBVIOUS
    <2>2. u \in Seq(Chars) /\ Len(u) = n - 1 - 2 + 1
        BY <2>1, PartFacts
    <2>3. n - 1 - 2 + 1 = l
        BY <1>1
    <2> QED
        BY <2>2, <2>3
<1>3. l > 0
    <2> SUFFICES ASSUME n = 2 PROVE FALSE
        BY <1>1
    <2>1. At(s, 2) = s[2]
        <3>1. 2 \in Nat /\ 2 > 0 /\ 2 <= n
            OBVIOUS
        <3> QED
            BY <3>1, AtFacts
    <2>2. s[2] = ")"
        OBVIOUS
    <2> QED
        BY Zenon, <2>1, <2>2
<1>4. /\ S \in [Nat -> Loops(u)]
      /\ S[0] = [next |-> 1, types |-> <<>>]
      /\ \A k \in Nat : S[k + 1] = SplitNext(u, S[k])
    <2> HIDE DEF u
    <2> QED
        BY <1>2, SplitsIs
<1>5. \A k \in Nat : S[k] = [next |-> S[k].next, types |-> S[k].types]
                        /\ S[k].next \in Nat
    <2> SUFFICES ASSUME NEW k \in Nat
                 PROVE  S[k] = [next |-> S[k].next, types |-> S[k].types] /\ S[k].next \in Nat
        OBVIOUS
    <2> HIDE DEF S, u
    <2>1. S[k] \in Loops(u)
        BY <1>4
    <2> QED
        BY <1>2, <2>1 DEF Loops
<1> DEFINE Q == {k \in Nat : FieldsOK(s, n, S[k + 1]) /\ S[k + 1].types # <<>>}
<1> HIDE DEF S
<1>6. FieldsOK(s, n, S[0])
    <2>1. S[0].next = 1 /\ S[0].types = <<>>
        <3> PICK o : o = S[0]
            OBVIOUS
        <3>1. o = [next |-> 1, types |-> <<>>]
            BY Zenon, <1>4
        <3> QED
            BY <3>1
    <2>2. 1 \in 1 .. n - 1 /\ 1 + 1 = 2 /\ <<>> \in Seq(Seq(Chars)) /\ Range(<<>>) = {}
        BY DEF Range
    <2>3. Scan(s)[<<"fields", 2, 0, 1>>].depth <= TypeDepth(s)
        OBVIOUS
    <2> QED
        <3> PICK o : o = S[0]
            OBVIOUS
        <3>1. o.next = 1 /\ o.types = <<>>
            BY Zenon, <2>1
        <3>2. FieldsOK(s, n, o)
            <4>1. o.types \in Seq(Seq(Chars)) /\ Range(o.types) = {}
                BY Zenon, <2>2, <3>1
            <4> QED
                BY Zenon, <2>2, <2>3, <3>1, <4>1 DEF FieldsOK
        <3> QED
            BY Zenon, <3>2
<1>7. \A k \in Nat : FieldsOK(s, n, S[k]) /\ (S[k].types # <<>> \/ k = 0)
                        => FieldsOK(s, n, S[k + 1]) /\ S[k + 1].types # <<>>
    <2> SUFFICES ASSUME NEW k \in Nat, FieldsOK(s, n, S[k]), S[k].types # <<>> \/ k = 0
                 PROVE  FieldsOK(s, n, S[k + 1]) /\ S[k + 1].types # <<>>
        OBVIOUS
    <2>0. PICK o : o = S[k]
        OBVIOUS
    <2>1. PICK i, ts : i \in Nat /\ S[k] = [next |-> i, types |-> ts]
        <3>1. o.next \in Nat /\ S[k] = [next |-> o.next, types |-> o.types]
            BY <1>5, <2>0
        <3> QED
            BY Zenon, <3>1
    <2>2. i \in Nat /\ FieldsOK(s, n, [next |-> i, types |-> ts])
        BY Zenon, <2>1
    <2>3. ts # <<>> \/ (i = 1 /\ At(s, 2) # ")")
        <3>1. S[k].types = ts /\ S[k].next = i
            BY <2>1
        <3>2. k = 0 => i = 1
            <4>1. k = 0 => o = [next |-> 1, types |-> <<>>]
                BY Zenon, <1>4, <2>0
            <4>2. o.next = i
                BY Zenon, <2>0, <3>1
            <4> QED
                BY <4>1, <4>2
        <3> QED
            BY Zenon, <3>1, <3>2
    <2>4. S[k + 1] = SplitNext(u, [next |-> i, types |-> ts])
        BY Zenon, <1>4, <2>1
    <2>5. LET new == SplitNext(u, [next |-> i, types |-> ts])
          IN  FieldsOK(s, n, new) /\ (ts # <<>> \/ (i = 1 /\ At(s, 2) # ")") => new.types # <<>>)
        BY <2>2, FieldsTurn
    <2> HIDE DEF u
    <2> QED
        BY Zenon, <2>3, <2>4, <2>5
<1>8. Q = Nat
    <2>1. 0 \in Q
        <3>1. FieldsOK(s, n, S[0 + 1]) /\ S[0 + 1].types # <<>>
            BY Zenon, <1>6, <1>7
        <3> QED
            BY <3>1
    <2>2. ASSUME NEW k \in Q PROVE k + 1 \in Q
        <3>1. k + 1 \in Nat
            OBVIOUS
        <3>2. FieldsOK(s, n, S[k + 1 + 1]) /\ S[k + 1 + 1].types # <<>>
            BY Zenon, <1>7, <3>1
        <3> QED
            BY <3>1, <3>2
    <2>3. Q \in SUBSET Nat
        OBVIOUS
    <2> HIDE DEF Q
    <2> QED
        BY <2>1, <2>2, <2>3, SetInduction
<1>9. FieldsOK(s, n, S[l]) /\ S[l].types # <<>>
    <2>1. PICK k \in Nat : l = k + 1
        <3>1. l - 1 \in Nat /\ l = l - 1 + 1
            BY <1>3
        <3> QED
            BY Zenon, <3>1
    <2>2. k \in Q
        BY <1>8
    <2> QED
        BY <2>1, <2>2
<1>10. StructFields(s) = S[l].types
    <2>1. StructFields(s) = SplitTypes(u)
        BY DEF StructFields
    <2>2. l <= MaxSignatureLength
        <3>1. MaxSignatureLength \in Nat
            BY SignaturesAssumption
        <3> QED
            BY <1>1, <3>1
    <2> HIDE DEF u
    <2> QED
        BY <1>2, <2>1, <2>2 DEF SplitTypes, S
<1> QED
    BY Zenon, <1>9, <1>10 DEF FieldsOK

\* Which complete types there are, each with the types inside it.
LEMMA TypeCases ==
    ASSUME NEW s \in Seq(Chars), IsSingleCompleteType(s)
    PROVE  \/ Len(s) = 1 /\ s[1] \in Basic \cup {"v"} /\ TypeDepth(s) = 0
           \/ /\ Len(s) > 4 /\ s[1] = "a" /\ s[2] = "{" /\ s[3] \in Basic
              /\ Inside(DictValue(s), s, 2)
           \/ Len(s) > 1 /\ s[1] = "a" /\ s[2] # "{" /\ Inside(Tail(s), s, 1)
           \/ /\ Len(s) > 1 /\ s[1] = "("
              /\ StructFields(s) \in Seq(Seq(Chars)) /\ StructFields(s) # <<>>
              /\ \A t \in Range(StructFields(s)) : Inside(t, s, 1)
<1>1. PICK n \in Nat : n = Len(s)
    OBVIOUS
<1>2. n <= MaxSignatureLength /\ TypeDepth(s) \in Nat
    BY Zenon, <1>1, SingleScan
<1>3. ASSUME /\ n > 1 /\ s[1] = "(" /\ s[2] # ")" /\ s[n] = ")"
             /\ 1 \in 0 .. MaxStructDepth /\ 0 \in 0 .. MaxArrayDepth
             /\ Scan(s)[<<"fields", 2, 0, 1>>].end = n + 1
             /\ Scan(s)[<<"fields", 2, 0, 1>>].depth = TypeDepth(s)
      PROVE  /\ StructFields(s) \in Seq(Seq(Chars)) /\ StructFields(s) # <<>>
             /\ \A t \in Range(StructFields(s)) : Inside(t, s, 1)
    <2>1. At(s, 2) = s[2]
        BY <1>1, <1>3, AtFacts
    <2> QED
        BY Zenon, <1>1, <1>2, <1>3, <2>1, StructFieldsAre
<1> QED
    BY Zenon, <1>1, <1>3, SingleCases

\* The depth of any text is a number.
LEMMA DepthTyped ==
    ASSUME NEW s \in Seq(Chars)
    PROVE  TypeDepth(s) \in Nat
<1>0. PICK n \in Nat : n = Len(s)
    OBVIOUS
<1>1. 1 \in 1 .. n + 1 /\ 0 \in 0 .. MaxArrayDepth /\ 0 \in 0 .. MaxStructDepth
    <2>1. MaxArrayDepth \in Nat /\ MaxStructDepth \in Nat
        BY SignaturesAssumption
    <2> QED
        BY <2>1
<1>2. Scan(s)[<<"type", 1, 0, 0>>].depth \in Nat
    BY <1>0, <1>1, ScanTyped
<1> QED
    BY Zenon, <1>2 DEF TypeDepth, TypeAt

-----------------------------------------------------------------------------
(* The levels of JSON values and of D-Bus values. *)

\* The values whose items are in U, of JSON and of D-Bus.
ValuesOver(U) ==
    {v \in [kind : Kinds, keys : Seq(Keys), text : Seq(Chars), items : U] : IsValue(v)}

\* The D-Bus values whose items are in U; ValuesOver is the same of JSON.
MessagesOver(U) ==
    {w \in [type : Seq(Chars), content : {"none", "text", "numeral", "integer", "@dbus"},
            items : U] : IsMessage(w)}

\* One level of JSON values or of D-Bus values over the items in U.
Over(c, U) == IF c = "JSON" THEN ValuesOver(U) ELSE MessagesOver(U)

\* The levels up to n.
Levels(c, n, f) ==
    /\ DOMAIN f = 0 .. n
    /\ \A k \in 0 .. n : f[k] = Over(c, IF k = 0 THEN {<<>>} ELSE Seq(f[k - 1]))

\* Two accounts of the levels agree as far as both go.
LEMMA LevelsAgree ==
    ASSUME NEW c, NEW m \in Nat, NEW n \in Nat, NEW f, NEW g, Levels(c, m, f), Levels(c, n, g),
           NEW k \in Nat, k <= m, k <= n
    PROVE  f[k] = g[k]
<1> DEFINE Q == {j \in Nat : j <= m /\ j <= n => f[j] = g[j]}
<1>1. 0 \in Q
    <2>1. 0 \in 0 .. m /\ 0 \in 0 .. n
        OBVIOUS
    <2>2. f[0] = Over(c, {<<>>}) /\ g[0] = Over(c, {<<>>})
        BY Zenon, <2>1 DEF Levels
    <2> QED
        BY Zenon, <2>2
<1>2. ASSUME NEW j \in Q PROVE j + 1 \in Q
    <2>1. PICK i \in Nat : i = j + 1 /\ i - 1 = j /\ i # 0
        OBVIOUS
    <2>2. ASSUME i <= m, i <= n PROVE f[i] = g[i]
        <3>1. i \in 0 .. m /\ i \in 0 .. n /\ j <= m /\ j <= n
            BY <2>1, <2>2
        <3>2. f[j] = g[j]
            BY <3>1
        <3>3. f[i] = Over(c, Seq(f[j])) /\ g[i] = Over(c, Seq(g[j]))
            BY Zenon, <2>1, <3>1 DEF Levels
        <3> QED
            BY Zenon, <3>2, <3>3
    <2> QED
        BY <2>1, <2>2
<1>3. Q = Nat
    <2>1. Q \in SUBSET Nat
        OBVIOUS
    <2> HIDE DEF Q
    <2> QED
        BY <1>1, <1>2, <2>1, SetInduction
<1> QED
    BY <1>3

\* There are the levels up to any.
LEMMA LevelsExist ==
    ASSUME NEW c, NEW n \in Nat
    PROVE  \E f : Levels(c, n, f)
<1> DEFINE Q == {j \in Nat : \E f : Levels(c, j, f)}
<1>1. 0 \in Q
    <2> DEFINE f == [k \in 0 .. 0 |-> Over(c, {<<>>})]
    <2>1. \A k \in 0 .. 0 : k = 0 /\ f[k] = Over(c, {<<>>})
        OBVIOUS
    <2>2. DOMAIN f = 0 .. 0
        OBVIOUS
    <2> HIDE DEF f
    <2>3. Levels(c, 0, f)
        BY Zenon, <2>1, <2>2 DEF Levels
    <2> QED
        BY <2>3
<1>2. ASSUME NEW j \in Q PROVE j + 1 \in Q
    <2>1. PICK i \in Nat : i = j + 1 /\ i - 1 = j /\ i # 0 /\ i \notin 0 .. j /\ j \in 0 .. j
        OBVIOUS
    <2>2. PICK g : Levels(c, j, g)
        OBVIOUS
    <2> DEFINE f == [k \in 0 .. i |-> IF k = i THEN Over(c, Seq(g[j])) ELSE g[k]]
    <2>3. DOMAIN f = 0 .. i
        OBVIOUS
    <2>4. f[i] = Over(c, Seq(g[j])) /\ \A k \in 0 .. j : f[k] = g[k]
        <3>1. i \in 0 .. i /\ \A k \in 0 .. j : k \in 0 .. i /\ k # i
            BY <2>1
        <3> QED
            BY Zenon, <3>1
    <2>5. \A k \in 0 .. i : k = i \/ k \in 0 .. j
        BY <2>1
    <2> HIDE DEF f
    <2>6. ASSUME NEW k \in 0 .. i
          PROVE  f[k] = Over(c, IF k = 0 THEN {<<>>} ELSE Seq(f[k - 1]))
        <3>1. CASE k = i
            <4>1. f[k - 1] = g[j]
                BY Zenon, <2>1, <2>4, <3>1
            <4>2. f[k] = Over(c, Seq(g[j])) /\ k # 0
                BY Zenon, <2>1, <2>4, <3>1
            <4> QED
                BY Zenon, <4>1, <4>2
        <3>2. CASE k \in 0 .. j
            <4>1. f[k] = g[k] /\ g[k] = Over(c, IF k = 0 THEN {<<>>} ELSE Seq(g[k - 1]))
                BY Zenon, <2>2, <2>4, <3>2 DEF Levels
            <4>2. k # 0 => k - 1 \in 0 .. j
                BY <3>2
            <4>3. k # 0 => f[k - 1] = g[k - 1]
                BY Zenon, <2>4, <4>2
            <4> QED
                BY Zenon, <4>1, <4>3
        <3> QED
            BY <2>5, <3>1, <3>2
    <2>7. Levels(c, i, f)
        BY Zenon, <2>3, <2>6 DEF Levels
    <2> QED
        BY <2>1, <2>7
<1>3. Q = Nat
    <2>1. Q \in SUBSET Nat
        OBVIOUS
    <2> HIDE DEF Q
    <2> QED
        BY <1>1, <1>2, <2>1, SetInduction
<1> QED
    BY <1>3

\* There are all levels.
LEMMA AllLevels ==
    ASSUME NEW c
    PROVE  \E f : f = [n \in Nat |-> Over(c, IF n = 0 THEN {<<>>} ELSE Seq(f[n - 1]))]
<1> DEFINE Level(n) == CHOOSE f : Levels(c, n, f)
           G == [n \in Nat |-> Level(n)[n]]
<1>1. \A n \in Nat : Levels(c, n, Level(n))
    BY LevelsExist
<1> HIDE DEF Level
<1>2. ASSUME NEW n \in Nat
      PROVE  G[n] = Over(c, IF n = 0 THEN {<<>>} ELSE Seq(G[n - 1]))
    <2>1. n \in 0 .. n /\ n <= n
        OBVIOUS
    <2>2. G[n] = Over(c, IF n = 0 THEN {<<>>} ELSE Seq(Level(n)[n - 1]))
        <3>1. G[n] = Level(n)[n]
            OBVIOUS
        <3>2. Levels(c, n, Level(n))
            BY <1>1
        <3> HIDE DEF G
        <3> QED
            BY Zenon, <2>1, <3>1, <3>2 DEF Levels
    <2>3. ASSUME n # 0 PROVE Level(n)[n - 1] = G[n - 1]
        <3>1. PICK m \in Nat : m = n - 1 /\ m <= n /\ m <= m
            BY <2>3
        <3>2. Levels(c, n, Level(n)) /\ Levels(c, m, Level(m))
            BY <1>1
        <3>3. Level(n)[m] = Level(m)[m]
            BY <3>1, <3>2, LevelsAgree
        <3>4. G[m] = Level(m)[m]
            OBVIOUS
        <3> HIDE DEF G
        <3> QED
            BY Zenon, <3>1, <3>3, <3>4
    <2> HIDE DEF G
    <2> QED
        BY Zenon, <2>2, <2>3
<1>3. G = [n \in Nat |-> Over(c, IF n = 0 THEN {<<>>} ELSE Seq(G[n - 1]))]
    <2>1. DOMAIN G = Nat /\ G = [n \in Nat |-> G[n]]
        OBVIOUS
    <2> HIDE DEF G
    <2> QED
        BY <1>2, <2>1
<1> HIDE DEF G
<1> QED
    BY <1>3

\* The levels of JSON values are what their definition says.
LEMMA ValuesAre ==
    /\ Values[0] = ValuesOver({<<>>})
    /\ \A n \in Nat : Values[n + 1] = ValuesOver(Seq(Values[n]))
<1>1. \A U : Over("JSON", U) = ValuesOver(U)
    BY DEF Over
<1>2. PICK g : g = [n \in Nat |-> Over("JSON", IF n = 0 THEN {<<>>} ELSE Seq(g[n - 1]))]
    BY AllLevels
<1>3. g = [n \in Nat |-> ValuesOver(IF n = 0 THEN {<<>>} ELSE Seq(g[n - 1]))]
    BY <1>1, <1>2
<1>4. Values = CHOOSE f : f = [n \in Nat |-> ValuesOver(IF n = 0 THEN {<<>>} ELSE Seq(f[n - 1]))]
    BY DEF Values, ValuesOver
<1>5. Values = [n \in Nat |-> ValuesOver(IF n = 0 THEN {<<>>} ELSE Seq(Values[n - 1]))]
    BY Zenon, <1>3, <1>4
<1>6. \A n \in Nat : Values[n] = ValuesOver(IF n = 0 THEN {<<>>} ELSE Seq(Values[n - 1]))
    BY <1>5
<1>7. ASSUME NEW n \in Nat PROVE Values[n + 1] = ValuesOver(Seq(Values[n]))
    <2>1. PICK m \in Nat : m = n + 1 /\ m # 0 /\ m - 1 = n
        OBVIOUS
    <2> QED
        BY Zenon, <1>6, <2>1
<1>8. 0 \in Nat
    OBVIOUS
<1> QED
    BY Zenon, <1>6, <1>7, <1>8

\* Those of D-Bus values are.
LEMMA MessagesAre ==
    /\ Messages[0] = MessagesOver({<<>>})
    /\ \A n \in Nat : Messages[n + 1] = MessagesOver(Seq(Messages[n]))
<1>1. \A U : Over("D-Bus", U) = MessagesOver(U)
    BY DEF Over
<1>2. PICK g : g = [n \in Nat |-> Over("D-Bus", IF n = 0 THEN {<<>>} ELSE Seq(g[n - 1]))]
    BY AllLevels
<1>3. g = [n \in Nat |-> MessagesOver(IF n = 0 THEN {<<>>} ELSE Seq(g[n - 1]))]
    BY <1>1, <1>2
<1>4. Messages = CHOOSE f : f = [n \in Nat |-> MessagesOver(IF n = 0 THEN {<<>>} ELSE Seq(f[n - 1]))]
    BY DEF Messages, MessagesOver
<1>5. Messages = [n \in Nat |-> MessagesOver(IF n = 0 THEN {<<>>} ELSE Seq(Messages[n - 1]))]
    BY Zenon, <1>3, <1>4
<1>6. \A n \in Nat : Messages[n] = MessagesOver(IF n = 0 THEN {<<>>} ELSE Seq(Messages[n - 1]))
    BY <1>5
<1>7. ASSUME NEW n \in Nat PROVE Messages[n + 1] = MessagesOver(Seq(Messages[n]))
    <2>1. PICK m \in Nat : m = n + 1 /\ m # 0 /\ m - 1 = n
        OBVIOUS
    <2> QED
        BY Zenon, <1>6, <2>1
<1>8. 0 \in Nat
    OBVIOUS
<1> QED
    BY Zenon, <1>6, <1>7, <1>8

\* L[n] are values that nest n containers at most.
IsLevelled(L) ==
    \A n \in Nat :
        /\ L[n] \subseteq L[n + 1]
        /\ \A v \in L[0] : v.items = <<>>
        /\ \A v \in L[n + 1] : v.items \in Seq(L[n])

\* A sequence over a set is one over a larger set.
LEMMA SeqGrows ==
    ASSUME NEW S, NEW T, S \subseteq T, NEW s \in Seq(S)
    PROVE  s \in Seq(T)
OBVIOUS

\* JSON values are so, and are made so.
LEMMA ValuesLevelled ==
    /\ IsLevelled(Values)
    /\ \A n \in Nat : \A v \in Values[n] :
        /\ v = [kind |-> v.kind, keys |-> v.keys, text |-> v.text, items |-> v.items]
        /\ v.kind \in Kinds /\ v.keys \in Seq(Keys) /\ v.text \in Seq(Chars)
        /\ IsValue(v)
    /\ \A n \in Nat : \A k \in Kinds, s \in Seq(Keys), t \in Seq(Chars), i \in Seq(Values[n]) :
        LET v == [kind |-> k, keys |-> s, items |-> i, text |-> t]
        IN  IsValue(v) => v \in Values[n + 1]
    /\ \A n \in Nat : \A k \in Kinds, s \in Seq(Keys), t \in Seq(Chars) :
        LET v == [kind |-> k, keys |-> s, items |-> <<>>, text |-> t]
        IN  IsValue(v) => v \in Values[n]
<1>1. Values[0] = ValuesOver({<<>>}) /\ \A n \in Nat : Values[n + 1] = ValuesOver(Seq(Values[n]))
    BY ValuesAre
<1>2. \A U, V : U \subseteq V => ValuesOver(U) \subseteq ValuesOver(V)
    BY DEF ValuesOver
<1>3. \A n \in Nat : Values[n] \subseteq Values[n + 1]
    <2> DEFINE Q == {n \in Nat : Values[n] \subseteq Values[n + 1]}
    <2>1. 0 \in Q
        <3>1. {<<>>} \subseteq Seq(Values[0])
            OBVIOUS
        <3>2. Values[0] \subseteq Values[0 + 1]
            <4>1. 0 \in Nat
                OBVIOUS
            <4>2. ValuesOver({<<>>}) \subseteq ValuesOver(Seq(Values[0]))
                BY <1>2, <3>1
            <4>3. Values[0] = ValuesOver({<<>>}) /\ Values[0 + 1] = ValuesOver(Seq(Values[0]))
                BY Zenon, <1>1, <4>1
            <4> QED
                BY Zenon, <4>2, <4>3
        <3> QED
            BY <3>2
    <2>2. ASSUME NEW n \in Q PROVE n + 1 \in Q
        <3>1. PICK m \in Nat : m = n + 1
            OBVIOUS
        <3>2. Values[n] \subseteq Values[m]
            BY <3>1
        <3>3. Seq(Values[n]) \subseteq Seq(Values[m])
            BY Zenon, <3>2, SeqGrows
        <3>4. Values[m] \subseteq Values[m + 1]
            <4>1. Values[m] = ValuesOver(Seq(Values[n])) /\ Values[m + 1] = ValuesOver(Seq(Values[m]))
                BY Zenon, <1>1, <3>1
            <4> QED
                BY <1>2, <3>3, <4>1
        <3> QED
            BY <3>1, <3>4
    <2>3. Q = Nat
        <3>1. Q \in SUBSET Nat
            OBVIOUS
        <3> HIDE DEF Q
        <3> QED
            BY <2>1, <2>2, <3>1, SetInduction
    <2> QED
        BY <2>3
<1>4. \A U : \A v \in ValuesOver(U) :
        /\ v = [kind |-> v.kind, keys |-> v.keys, text |-> v.text, items |-> v.items]
        /\ v.kind \in Kinds /\ v.keys \in Seq(Keys) /\ v.text \in Seq(Chars)
        /\ IsValue(v) /\ v.items \in U
    BY DEF ValuesOver
<1>5. \A n \in Nat : n = 0 \/ \E m \in Nat : n = m + 1
    <2> SUFFICES ASSUME NEW n \in Nat, n # 0 PROVE \E m \in Nat : n = m + 1
        OBVIOUS
    <2>1. n - 1 \in Nat /\ n = n - 1 + 1
        OBVIOUS
    <2> QED
        BY Zenon, <2>1
<1>6. \A n \in Nat : \E U : Values[n] = ValuesOver(U) /\ <<>> \in U
    <2> SUFFICES ASSUME NEW n \in Nat PROVE \E U : Values[n] = ValuesOver(U) /\ <<>> \in U
        OBVIOUS
    <2>1. \A m \in Nat : <<>> \in Seq(Values[m])
        OBVIOUS
    <2> QED
        BY Zenon, <1>1, <1>5, <2>1
<1>7. \A U : \A k \in Kinds, s \in Seq(Keys), t \in Seq(Chars), i \in U :
        LET v == [kind |-> k, keys |-> s, items |-> i, text |-> t]
        IN  IsValue(v) => v \in ValuesOver(U)
    BY DEF ValuesOver
<1>8. IsLevelled(Values)
    <2>1. \A v \in Values[0] : v.items = <<>>
        <3>1. \A v \in Values[0] : v.items \in {<<>>}
            BY Zenon, <1>1, <1>4
        <3> QED
            BY <3>1
    <2>2. \A n \in Nat : \A v \in Values[n + 1] : v.items \in Seq(Values[n])
        BY Zenon, <1>1, <1>4
    <2> QED
        BY Zenon, <1>3, <2>1, <2>2 DEF IsLevelled
<1>9. \A n \in Nat : \A v \in Values[n] :
        /\ v = [kind |-> v.kind, keys |-> v.keys, text |-> v.text, items |-> v.items]
        /\ v.kind \in Kinds /\ v.keys \in Seq(Keys) /\ v.text \in Seq(Chars)
        /\ IsValue(v)
    BY <1>4, <1>6
<1>10. \A n \in Nat : \A k \in Kinds, s \in Seq(Keys), t \in Seq(Chars), i \in Seq(Values[n]) :
        LET v == [kind |-> k, keys |-> s, items |-> i, text |-> t]
        IN  IsValue(v) => v \in Values[n + 1]
    <2> SUFFICES ASSUME NEW n \in Nat, NEW k \in Kinds, NEW s \in Seq(Keys), NEW t \in Seq(Chars),
                        NEW i \in Seq(Values[n]),
                        IsValue([kind |-> k, keys |-> s, items |-> i, text |-> t])
                 PROVE  [kind |-> k, keys |-> s, items |-> i, text |-> t] \in Values[n + 1]
        OBVIOUS
    <2>1. [kind |-> k, keys |-> s, items |-> i, text |-> t] \in ValuesOver(Seq(Values[n]))
        BY <1>7
    <2>2. Values[n + 1] = ValuesOver(Seq(Values[n]))
        BY Zenon, <1>1
    <2> QED
        BY Zenon, <2>1, <2>2
<1>11. \A n \in Nat : \A k \in Kinds, s \in Seq(Keys), t \in Seq(Chars) :
        LET v == [kind |-> k, keys |-> s, items |-> <<>>, text |-> t]
        IN  IsValue(v) => v \in Values[n]
    BY Zenon, <1>6, <1>7
<1> QED
    BY Zenon, <1>8, <1>9, <1>10, <1>11

\* What a D-Bus value may hold as content.
ContentKinds == {"none", "text", "numeral", "integer", "@dbus"}

\* D-Bus values are so, and are made so.
LEMMA MessagesLevelled ==
    /\ IsLevelled(Messages)
    /\ \A n \in Nat : \A w \in Messages[n] :
        /\ w = [type |-> w.type, items |-> w.items, content |-> w.content]
        /\ w.type \in Seq(Chars) /\ w.content \in ContentKinds
        /\ IsMessage(w)
    /\ \A n \in Nat : \A t \in Seq(Chars), c \in ContentKinds, i \in Seq(Messages[n]) :
        LET w == [type |-> t, items |-> i, content |-> c]
        IN  IsMessage(w) => w \in Messages[n + 1]
    /\ \A n \in Nat : \A t \in Seq(Chars), c \in ContentKinds :
        LET w == [type |-> t, items |-> <<>>, content |-> c]
        IN  IsMessage(w) => w \in Messages[n]
<1>1. Messages[0] = MessagesOver({<<>>}) /\ \A n \in Nat : Messages[n + 1] = MessagesOver(Seq(Messages[n]))
    BY MessagesAre
<1>2. \A U, V : U \subseteq V => MessagesOver(U) \subseteq MessagesOver(V)
    BY DEF MessagesOver
<1>3. \A n \in Nat : Messages[n] \subseteq Messages[n + 1]
    <2> DEFINE Q == {n \in Nat : Messages[n] \subseteq Messages[n + 1]}
    <2>1. 0 \in Q
        <3>1. {<<>>} \subseteq Seq(Messages[0])
            OBVIOUS
        <3>2. Messages[0] \subseteq Messages[0 + 1]
            <4>1. 0 \in Nat
                OBVIOUS
            <4>2. MessagesOver({<<>>}) \subseteq MessagesOver(Seq(Messages[0]))
                BY <1>2, <3>1
            <4>3. Messages[0] = MessagesOver({<<>>}) /\ Messages[0 + 1] = MessagesOver(Seq(Messages[0]))
                BY Zenon, <1>1, <4>1
            <4> QED
                BY Zenon, <4>2, <4>3
        <3> QED
            BY <3>2
    <2>2. ASSUME NEW n \in Q PROVE n + 1 \in Q
        <3>1. PICK m \in Nat : m = n + 1
            OBVIOUS
        <3>2. Messages[n] \subseteq Messages[m]
            BY <3>1
        <3>3. Seq(Messages[n]) \subseteq Seq(Messages[m])
            BY Zenon, <3>2, SeqGrows
        <3>4. Messages[m] \subseteq Messages[m + 1]
            <4>1. Messages[m] = MessagesOver(Seq(Messages[n])) /\ Messages[m + 1] = MessagesOver(Seq(Messages[m]))
                BY Zenon, <1>1, <3>1
            <4> QED
                BY <1>2, <3>3, <4>1
        <3> QED
            BY <3>1, <3>4
    <2>3. Q = Nat
        <3>1. Q \in SUBSET Nat
            OBVIOUS
        <3> HIDE DEF Q
        <3> QED
            BY <2>1, <2>2, <3>1, SetInduction
    <2> QED
        BY <2>3
<1>4. \A U : \A w \in MessagesOver(U) :
        /\ w = [type |-> w.type, items |-> w.items, content |-> w.content]
        /\ w.type \in Seq(Chars) /\ w.content \in ContentKinds
        /\ IsMessage(w) /\ w.items \in U
    BY DEF MessagesOver, ContentKinds
<1>5. \A n \in Nat : n = 0 \/ \E m \in Nat : n = m + 1
    <2> SUFFICES ASSUME NEW n \in Nat, n # 0 PROVE \E m \in Nat : n = m + 1
        OBVIOUS
    <2>1. n - 1 \in Nat /\ n = n - 1 + 1
        OBVIOUS
    <2> QED
        BY Zenon, <2>1
<1>6. \A n \in Nat : \E U : Messages[n] = MessagesOver(U) /\ <<>> \in U
    <2> SUFFICES ASSUME NEW n \in Nat PROVE \E U : Messages[n] = MessagesOver(U) /\ <<>> \in U
        OBVIOUS
    <2>1. \A m \in Nat : <<>> \in Seq(Messages[m])
        OBVIOUS
    <2> QED
        BY Zenon, <1>1, <1>5, <2>1
<1>7. \A U : \A t \in Seq(Chars), c \in ContentKinds, i \in U :
        LET w == [type |-> t, items |-> i, content |-> c]
        IN  IsMessage(w) => w \in MessagesOver(U)
    BY DEF MessagesOver, ContentKinds
<1>8. IsLevelled(Messages)
    <2>1. \A w \in Messages[0] : w.items = <<>>
        <3>1. \A w \in Messages[0] : w.items \in {<<>>}
            BY Zenon, <1>1, <1>4
        <3> QED
            BY <3>1
    <2>2. \A n \in Nat : \A w \in Messages[n + 1] : w.items \in Seq(Messages[n])
        BY Zenon, <1>1, <1>4
    <2> QED
        BY Zenon, <1>3, <2>1, <2>2 DEF IsLevelled
<1>9. \A n \in Nat : \A w \in Messages[n] :
        /\ w = [type |-> w.type, items |-> w.items, content |-> w.content]
        /\ w.type \in Seq(Chars) /\ w.content \in ContentKinds
        /\ IsMessage(w)
    BY <1>4, <1>6
<1>10. \A n \in Nat : \A t \in Seq(Chars), c \in ContentKinds, i \in Seq(Messages[n]) :
        LET w == [type |-> t, items |-> i, content |-> c]
        IN  IsMessage(w) => w \in Messages[n + 1]
    <2> SUFFICES ASSUME NEW n \in Nat, NEW t \in Seq(Chars), NEW c \in ContentKinds,
                        NEW i \in Seq(Messages[n]),
                        IsMessage([type |-> t, items |-> i, content |-> c])
                 PROVE  [type |-> t, items |-> i, content |-> c] \in Messages[n + 1]
        OBVIOUS
    <2>1. [type |-> t, items |-> i, content |-> c] \in MessagesOver(Seq(Messages[n]))
        BY <1>7
    <2>2. Messages[n + 1] = MessagesOver(Seq(Messages[n]))
        BY Zenon, <1>1
    <2> QED
        BY Zenon, <2>1, <2>2
<1>11. \A n \in Nat : \A t \in Seq(Chars), c \in ContentKinds :
        LET w == [type |-> t, items |-> <<>>, content |-> c]
        IN  IsMessage(w) => w \in Messages[n]
    BY Zenon, <1>6, <1>7
<1> QED
    BY Zenon, <1>8, <1>9, <1>10, <1>11

\* Higher levels hold the lower ones.
LEMMA LevelUp ==
    ASSUME NEW L, IsLevelled(L), NEW m \in Nat, NEW n \in Nat, m <= n
    PROVE  L[m] \subseteq L[n]
<1> DEFINE Q == {k \in Nat : m <= k => L[m] \subseteq L[k]}
<1>1. 0 \in Q
    <2>1. m <= 0 => m = 0
        OBVIOUS
    <2> QED
        BY <2>1
<1>2. ASSUME NEW k \in Q PROVE k + 1 \in Q
    <2>1. L[k] \subseteq L[k + 1]
        BY DEF IsLevelled
    <2>2. m <= k + 1 => m = k + 1 \/ m <= k
        OBVIOUS
    <2> QED
        BY <2>1, <2>2
<1>3. Q = Nat
    <2>1. Q \in SUBSET Nat
        OBVIOUS
    <2> HIDE DEF Q
    <2> QED
        BY <1>1, <1>2, <2>1, SetInduction
<1> QED
    BY <1>3

\* The containers a value nests: the first level it is on.
Height(L, v) == CHOOSE n \in Nat : v \in L[n] /\ \A m \in Nat : v \in L[m] => n <= m

\* Items nest less.
LEMMA HeightFacts ==
    ASSUME NEW L, IsLevelled(L), NEW n \in Nat, NEW v \in L[n]
    PROVE  /\ Height(L, v) \in Nat /\ v \in L[Height(L, v)]
           /\ v.items \in Seq(L[n])
           /\ \A k \in DOMAIN v.items : v.items[k] \in L[n] /\ Height(L, v.items[k]) < Height(L, v)
           /\ v.items # <<>> => n > 0 /\ v.items \in Seq(L[n - 1])
<1>1. \A w : (\E m \in Nat : w \in L[m]) =>
            Height(L, w) \in Nat /\ w \in L[Height(L, w)]
                /\ \A m \in Nat : w \in L[m] => Height(L, w) <= m
    <2> SUFFICES ASSUME NEW w, NEW m \in Nat, w \in L[m]
                 PROVE  \E k \in Nat : w \in L[k] /\ \A j \in Nat : w \in L[j] => k <= j
        BY DEF Height
    <2> DEFINE R == {k \in Nat : w \in L[k]}
    <2>1. R \in SUBSET Nat /\ R # {}
        OBVIOUS
    <2>2. PICK k \in R : \A j \in R : k <= j
        BY <2>1, LeastElement
    <2> QED
        BY <2>2
<1>2. \A m \in Nat : \A w \in L[m] : w.items # <<>> => m > 0 /\ w.items \in Seq(L[m - 1])
    <2> SUFFICES ASSUME NEW m \in Nat, NEW w \in L[m], w.items # <<>>
                 PROVE  m > 0 /\ w.items \in Seq(L[m - 1])
        OBVIOUS
    <2>1. m # 0
        BY DEF IsLevelled
    <2>2. PICK k \in Nat : m = k + 1 /\ m - 1 = k /\ m > 0
        <3>1. m - 1 \in Nat /\ m = m - 1 + 1 /\ m > 0
            BY <2>1
        <3> QED
            BY Zenon, <3>1
    <2>3. w.items \in Seq(L[k])
        BY <2>2 DEF IsLevelled
    <2> QED
        BY Zenon, <2>2, <2>3
<1>3. PICK h \in Nat : h = Height(L, v) /\ v \in L[h] /\ h <= n
    BY Zenon, <1>1
<1>4. CASE v.items = <<>>
    <2>1. <<>> \in Seq(L[n]) /\ \A k \in DOMAIN <<>> : FALSE
        OBVIOUS
    <2> QED
        BY Zenon, <1>3, <1>4, <2>1
<1>5. CASE v.items # <<>>
    <2>1. h > 0 /\ v.items \in Seq(L[h - 1])
        BY Zenon, <1>2, <1>3, <1>5
    <2>2. PICK m \in Nat : m = h - 1 /\ m <= n /\ m < h
        BY <1>3, <2>1
    <2>3. L[m] \subseteq L[n]
        BY <2>2, LevelUp
    <2>4. v.items \in Seq(L[m])
        BY Zenon, <2>1, <2>2
    <2>5. ASSUME NEW k \in DOMAIN v.items
          PROVE  v.items[k] \in L[n] /\ Height(L, v.items[k]) < h
        <3>1. PICK i : i = v.items[k] /\ i \in L[m]
            BY <2>4
        <3>2. PICK g \in Nat : g = Height(L, i) /\ g <= m
            BY Zenon, <1>1, <3>1
        <3>3. g < h
            BY <2>2, <3>2
        <3> QED
            BY Zenon, <2>3, <3>1, <3>2, <3>3
    <2>6. v.items \in Seq(L[n])
        BY Zenon, <2>3, <2>4, SeqGrows
    <2> QED
        BY Zenon, <1>2, <1>3, <1>5, <2>5, <2>6
<1> QED
    BY <1>4, <1>5

\* What a JSON value is made of.
LEMMA ValueFacts ==
    ASSUME NEW n \in Nat, NEW v \in Values[n]
    PROVE  /\ v = [kind |-> v.kind, keys |-> v.keys, text |-> v.text, items |-> v.items]
           /\ v.kind \in Kinds /\ v.keys \in Seq(Keys) /\ v.text \in Seq(Chars)
           /\ v.items \in Seq(Values[n])
           /\ v.items # <<>> => n > 0 /\ v.items \in Seq(Values[n - 1])
           /\ v.kind \notin {"array", "object"} => v.items = <<>>
           /\ v.kind = "object" => IsKeys(v.keys) /\ Len(v.keys) = Len(v.items)
           /\ IsTyped(v) => /\ v.items # <<>> /\ 1 \in DOMAIN v.items /\ 2 \in DOMAIN v.items
                            /\ NamedType(v) \in Seq(Chars) /\ Inner(v) = v.items[2]
<1>1. /\ v = [kind |-> v.kind, keys |-> v.keys, text |-> v.text, items |-> v.items]
      /\ v.kind \in Kinds /\ v.keys \in Seq(Keys) /\ v.text \in Seq(Chars)
      /\ IsValue(v)
    BY ValuesLevelled
<1>2. /\ v.items \in Seq(Values[n])
      /\ v.items # <<>> => n > 0 /\ v.items \in Seq(Values[n - 1])
    <2>1. IsLevelled(Values)
        BY ValuesLevelled
    <2> QED
        BY Zenon, <2>1, HeightFacts
<1>3. /\ v.kind \notin {"array", "object"} => v.items = <<>>
      /\ v.kind = "object" => IsKeys(v.keys) /\ Len(v.keys) = Len(v.items)
    BY Zenon, <1>1 DEF IsValue
<1>4. ASSUME IsTyped(v)
      PROVE  /\ v.items # <<>> /\ 1 \in DOMAIN v.items /\ 2 \in DOMAIN v.items
             /\ NamedType(v) \in Seq(Chars) /\ Inner(v) = v.items[2]
    <2>1. v.kind = "object" /\ v.keys = <<"@dbus", "text">>
        BY Zenon, <1>3, <1>4 DEF IsTyped, IsKeys
    <2>2. Len(v.items) = 2
        <3>1. Len(v.keys) = Len(v.items)
            BY Zenon, <1>3, <2>1
        <3> QED
            BY <2>1, <3>1
    <2>3. v.items # <<>> /\ 1 \in DOMAIN v.items /\ 2 \in DOMAIN v.items
        BY <1>2, <2>2
    <2>4. PICK i \in Values[n] : i = v.items[1]
        BY <1>2, <2>3
    <2>5. i.text \in Seq(Chars)
        BY ValuesLevelled
    <2> QED
        BY Zenon, <2>3, <2>4, <2>5 DEF NamedType, Inner
<1> QED
    BY Zenon, <1>1, <1>2, <1>3, <1>4

\* What a D-Bus value is made of.
LEMMA MessageFacts ==
    ASSUME NEW n \in Nat, NEW w \in Messages[n]
    PROVE  /\ w = [type |-> w.type, items |-> w.items, content |-> w.content]
           /\ w.type \in Seq(Chars) /\ w.content \in ContentKinds
           /\ w.items \in Seq(Messages[n])
           /\ w.items # <<>> => n > 0 /\ w.items \in Seq(Messages[n - 1])
           /\ IsMessage(w)
<1>1. IsLevelled(Messages)
    BY MessagesLevelled
<1>2. /\ w.items \in Seq(Messages[n])
      /\ w.items # <<>> => n > 0 /\ w.items \in Seq(Messages[n - 1])
    BY Zenon, <1>1, HeightFacts
<1>3. /\ w = [type |-> w.type, items |-> w.items, content |-> w.content]
      /\ w.type \in Seq(Chars) /\ w.content \in ContentKinds
      /\ IsMessage(w)
    BY MessagesLevelled
<1> QED
    BY Zenon, <1>2, <1>3

\* The JSON values, by height.
LEMMA JsonFacts ==
    ASSUME NEW v \in JSON
    PROVE  /\ MaxWraps \in Nat /\ Height(Values, v) \in Nat
           /\ v.items \in Seq(JSON)
           /\ \A k \in DOMAIN v.items :
                v.items[k] \in JSON /\ Height(Values, v.items[k]) \in Nat
                    /\ Height(Values, v.items[k]) < Height(Values, v)
           /\ IsTyped(v) => /\ Inner(v) \in JSON /\ Height(Values, Inner(v)) \in Nat
                            /\ Height(Values, Inner(v)) < Height(Values, v)
                            /\ NamedType(v) \in Seq(Chars)
<1>1. MaxWraps \in Nat /\ v \in Values[MaxWraps]
    BY CoercerAssumption DEF JSON
<1>2. IsLevelled(Values)
    BY ValuesLevelled
<1>3. /\ Height(Values, v) \in Nat /\ v.items \in Seq(JSON)
      /\ \A k \in DOMAIN v.items :
            v.items[k] \in JSON /\ Height(Values, v.items[k]) < Height(Values, v)
    BY Zenon, <1>1, <1>2, HeightFacts DEF JSON
<1>4. \A u \in JSON : Height(Values, u) \in Nat
    BY Zenon, <1>1, <1>2, HeightFacts DEF JSON
<1>5. IsTyped(v) => /\ 2 \in DOMAIN v.items
                    /\ NamedType(v) \in Seq(Chars) /\ Inner(v) = v.items[2]
    BY Zenon, <1>1, ValueFacts
<1> QED
    BY Zenon, <1>1, <1>3, <1>4, <1>5

\* The D-Bus values, by height.
LEMMA WireFacts ==
    ASSUME NEW w \in Wire
    PROVE  /\ 3 * MaxWraps + 1 \in Nat /\ Height(Messages, w) \in Nat
           /\ w.items \in Seq(Wire)
           /\ \A k \in DOMAIN w.items :
                w.items[k] \in Wire /\ Height(Messages, w.items[k]) \in Nat
                    /\ Height(Messages, w.items[k]) < Height(Messages, w)
<1>1. PICK n \in Nat : n = 3 * MaxWraps + 1
    <2>1. MaxWraps \in Nat
        BY CoercerAssumption
    <2> QED
        BY <2>1
<1>2. IsLevelled(Messages) /\ Wire = Messages[n]
    BY <1>1, MessagesLevelled DEF Wire
<1>3. /\ Height(Messages, w) \in Nat /\ w.items \in Seq(Wire)
      /\ \A k \in DOMAIN w.items :
            w.items[k] \in Wire /\ Height(Messages, w.items[k]) < Height(Messages, w)
    BY Zenon, <1>1, <1>2, HeightFacts
<1>4. \A u \in Wire : Height(Messages, u) \in Nat
    BY Zenon, <1>1, <1>2, HeightFacts
<1> QED
    BY Zenon, <1>1, <1>3, <1>4

-----------------------------------------------------------------------------
(* How D-Bus values are made. *)

\* The characters that types are told by.
LEMMA CharsAre ==
    /\ {"s", "i", "h", "v", "a", "(", ")", "{", "}"} \subseteq Chars
    /\ {"s", "i", "h"} \subseteq Basic /\ Basic \subseteq Chars
    /\ "v" \notin Basic /\ "a" \notin Basic /\ "(" \notin Basic /\ "{" \notin Basic
    /\ <<"s">> \in Seq(Chars) /\ <<"i">> \in Seq(Chars) /\ <<"v">> \in Seq(Chars)
    /\ <<"a", "v">> \in Seq(Chars) /\ <<"a", "s">> \in Seq(Chars) /\ AnyMap \in Seq(Chars)
    /\ <<"{">> \in Seq(Chars) /\ <<>> \in Seq(Chars)
    /\ IsDict(AnyMap) /\ DictKey(AnyMap) = "s"
<1>1. {"s", "i", "h"} \subseteq Basic
    BY CoercerAssumption
<1>2. /\ {"s", "i", "h", "v", "a", "(", ")", "{", "}"} \subseteq Chars /\ Basic \subseteq Chars
    BY <1>1 DEF Chars
<1>3. "v" \notin Basic /\ "a" \notin Basic /\ "(" \notin Basic /\ "{" \notin Basic
    BY SignaturesAssumption
<1>4. /\ <<"s">> \in Seq(Chars) /\ <<"i">> \in Seq(Chars) /\ <<"v">> \in Seq(Chars)
      /\ <<"a", "v">> \in Seq(Chars) /\ <<"a", "s">> \in Seq(Chars)
      /\ <<"{">> \in Seq(Chars) /\ <<>> \in Seq(Chars)
    <2>1. "s" \in Chars /\ "i" \in Chars /\ "v" \in Chars /\ "a" \in Chars /\ "{" \in Chars
        BY <1>2
    <2>2. \A c \in Chars : <<c>> \in Seq(Chars)
        OBVIOUS
    <2>3. \A c, d \in Chars : <<c, d>> \in Seq(Chars)
        OBVIOUS
    <2>4. <<>> \in Seq(Chars)
        OBVIOUS
    <2> QED
        BY Zenon, <2>1, <2>2, <2>3, <2>4
<1>5. AnyMap \in Seq(Chars)
    <2>1. \A c, d, e, f, g \in Chars : <<c, d, e, f, g>> \in Seq(Chars)
        OBVIOUS
    <2>2. "s" \in Chars /\ "v" \in Chars /\ "a" \in Chars /\ "{" \in Chars /\ "}" \in Chars
        BY <1>2
    <2> QED
        BY Zenon, <2>1, <2>2 DEF AnyMap
<1>6. IsDict(AnyMap) /\ DictKey(AnyMap) = "s"
    BY DEF AnyMap, IsDict, DictKey
<1> QED
    BY Zenon, <1>1, <1>2, <1>3, <1>4, <1>5, <1>6

\* Fields that fit make a value on any level above that of the items.
LEMMA MessageMade ==
    ASSUME NEW m \in Nat, NEW n \in Nat, NEW t \in Seq(Chars), NEW c \in ContentKinds,
           NEW items \in Seq(Messages[m]), items = <<>> \/ m + 1 <= n,
           IsMessage([type |-> t, items |-> items, content |-> c])
    PROVE  [type |-> t, items |-> items, content |-> c] \in Messages[n]
<1> DEFINE w == [type |-> t, items |-> items, content |-> c]
<1>1. CASE items = <<>>
    <2>1. w = [type |-> t, items |-> <<>>, content |-> c] /\ IsMessage(w)
        BY <1>1
    <2> HIDE DEF w
    <2>2. w \in Messages[n]
        BY <2>1, MessagesLevelled
    <2> QED
        BY <2>2 DEF w
<1>2. CASE m + 1 <= n
    <2>1. w \in Messages[m + 1]
        BY MessagesLevelled
    <2>2. PICK l \in Nat : l = m + 1
        OBVIOUS
    <2>3. Messages[l] \subseteq Messages[n]
        <3>1. IsLevelled(Messages)
            BY MessagesLevelled
        <3>2. l <= n
            BY <1>2, <2>2
        <3> QED
            BY Zenon, <3>1, <3>2, LevelUp
    <2> HIDE DEF w
    <2>4. w \in Messages[n]
        BY <2>1, <2>2, <2>3
    <2> QED
        BY <2>4 DEF w
<1> QED
    BY <1>1, <1>2

\* w is on level n, with those fields.
Made(w, n, type, items, content) ==
    w \in Messages[n] /\ w.type = type /\ w.items = items /\ w.content = content

\* A container of D-Bus values that is neither a variant nor a map is a D-Bus
\* value one level up.
LEMMA ContentsMade ==
    ASSUME NEW m \in Nat, NEW n \in Nat, NEW t \in Seq(Chars), NEW items \in Seq(Messages[m]),
           items = <<>> \/ m + 1 <= n, t # <<"v">>, ~IsDict(t)
    PROVE  Made(Contents(t, items), n, t, items, "none")
<1> DEFINE w == Contents(t, items)
<1>1. w.type = t /\ w.items = items /\ w.content = "none"
    BY DEF Contents
<1>2. w = [type |-> t, items |-> items, content |-> "none"] /\ "none" \in ContentKinds
    BY DEF Contents, ContentKinds
<1> HIDE DEF w
<1>3. IsMessage(w)
    BY <1>1 DEF IsMessage
<1>4. w \in Messages[n]
    BY <1>2, <1>3, MessageMade
<1> QED
    BY Zenon, <1>1, <1>4 DEF w, Made

\* An empty container is on every level.
LEMMA EmptyMade ==
    ASSUME NEW m \in Nat, NEW t \in Seq(Chars), NEW c \in ContentKinds, t # <<"v">>, ~IsDict(t)
    PROVE  Made(Scalar(t, c), m, t, <<>>, c)
<1> DEFINE w == Scalar(t, c)
<1>1. w.type = t /\ w.items = <<>> /\ w.content = c
    BY DEF Scalar
<1>2. w = [type |-> t, items |-> <<>>, content |-> c]
    BY DEF Scalar
<1> HIDE DEF w
<1>3. IsMessage(w)
    BY <1>1 DEF IsMessage
<1>4. w \in Messages[m]
    BY <1>2, <1>3, MessagesLevelled
<1> QED
    BY Zenon, <1>1, <1>4 DEF w, Made

\* So is a variant that holds one.
LEMMA VariantMade ==
    ASSUME NEW m \in Nat, NEW n \in Nat, m + 1 <= n, NEW w \in Messages[m]
    PROVE  Made(InVariant(w), n, <<"v">>, <<w>>, "none")
<1> DEFINE u == InVariant(w)
<1>1. u.type = <<"v">> /\ u.items = <<w>> /\ u.content = "none"
    BY DEF InVariant, Contents
<1>2. u = [type |-> <<"v">>, items |-> <<w>>, content |-> "none"] /\ "none" \in ContentKinds
    BY DEF InVariant, Contents, ContentKinds
<1> HIDE DEF u
<1>3. IsMessage(u)
    <2>1. ~IsDict(<<"v">>) /\ Len(<<w>>) = 1
        BY DEF IsDict
    <2> QED
        BY Zenon, <1>1, <2>1 DEF IsMessage
<1>4. <<w>> \in Seq(Messages[m]) /\ <<"v">> \in Seq(Chars)
    <2>1. \A S : \A x \in S : <<x>> \in Seq(S)
        OBVIOUS
    <2> QED
        BY Zenon, <2>1, CharsAre
<1>5. u \in Messages[n]
    <2>1. PICK i, t : i = <<w>> /\ t = <<"v">>
        OBVIOUS
    <2>2. u = [type |-> t, items |-> i, content |-> "none"]
        BY <1>2, <2>1
    <2>3. i \in Seq(Messages[m]) /\ t \in Seq(Chars)
        BY Zenon, <1>4, <2>1
    <2> QED
        BY <1>2, <1>3, <2>2, <2>3, MessageMade
<1> QED
    BY Zenon, <1>1, <1>5 DEF u, Made

\* A basic value: its type tells whether it could be coerced.
LEMMA BasicMade ==
    ASSUME NEW m \in Nat, NEW v, NEW type \in Chars
    PROVE  /\ BasicValue(v, type) \in Messages[m]
           /\ BasicValue(v, type).items = <<>>
           /\ CoerceBasic(v, type) =>
                /\ type \in {"s", "i"} /\ BasicValue(v, type).type = <<type>>
                /\ BasicValue(v, type).content = IF type = "i" THEN "integer" ELSE v.kind
                /\ BasicValue(v, type).content \in {"text", "numeral", "integer"}
                /\ v.kind \in {"text", "numeral", "integer"}
           /\ ~CoerceBasic(v, type) => BasicValue(v, type) = NoVariant /\ NoVariant.type = <<>>
<1>1. CASE ~CoerceBasic(v, type)
    <2>1. BasicValue(v, type) = NoVariant
        BY <1>1 DEF BasicValue
    <2>2. <<>> # <<"v">> /\ ~IsDict(<<>>) /\ "none" \in ContentKinds /\ <<>> \in Seq(Chars)
        BY DEF IsDict, ContentKinds
    <2>3. NoVariant \in Messages[m] /\ NoVariant.items = <<>> /\ NoVariant.type = <<>>
        BY <2>2, EmptyMade DEF NoVariant, Made
    <2> QED
        BY Zenon, <1>1, <2>1, <2>3
<1>2. CASE CoerceBasic(v, type)
    <2>1. type \in {"s", "i"} /\ v.kind \in {"text", "numeral", "integer"}
            /\ (type = "s" => v.kind \in {"text", "numeral"})
        BY <1>2 DEF CoerceBasic
    <2>2. PICK c : c = IF type = "i" THEN "integer" ELSE v.kind
        OBVIOUS
    <2>3. BasicValue(v, type) = Scalar(<<type>>, c)
        BY <1>2, <2>2 DEF BasicValue
    <2>4. c \in {"text", "numeral", "integer"} /\ c \in ContentKinds
        BY <2>1, <2>2 DEF ContentKinds
    <2>5. <<type>> # <<"v">> /\ ~IsDict(<<type>>) /\ <<type>> \in Seq(Chars)
        BY <2>1 DEF IsDict
    <2>6. /\ Scalar(<<type>>, c) \in Messages[m]
          /\ Scalar(<<type>>, c).type = <<type>> /\ Scalar(<<type>>, c).items = <<>>
          /\ Scalar(<<type>>, c).content = c
        BY Zenon, <2>4, <2>5, EmptyMade DEF Made
    <2> QED
        BY Zenon, <1>2, <2>1, <2>2, <2>3, <2>4, <2>6
<1> QED
    BY <1>1, <1>2

\* A key of a map.
LEMMA KeyMade ==
    ASSUME NEW m \in Nat, NEW key \in Keys, NEW type \in Chars
    PROVE  /\ KeyScalar(key, type) \in Messages[m]
           /\ KeyScalar(key, type).items = <<>>
           /\ KeyScalar(key, type).content = IF type = "i" THEN "numeral" ELSE key
           /\ KeyScalar(key, type).content \in {"text", "numeral", "@dbus"}
           /\ CoerceBasic(KeyValue(key), type) => KeyScalar(key, type).type = <<type>>
           /\ KeyScalar(key, type).type \in {<<"s">>, <<"i">>, <<>>}
<1>1. PICK b : b = BasicValue(KeyValue(key), type)
    OBVIOUS
<1>2. b \in Messages[m] /\ b.items = <<>>
        /\ (CoerceBasic(KeyValue(key), type) => b.type = <<type>> /\ type \in {"s", "i"})
        /\ (~CoerceBasic(KeyValue(key), type) => b.type = <<>>)
    BY Zenon, <1>1, BasicMade
<1>3. b = [type |-> b.type, items |-> b.items, content |-> b.content]
    BY <1>2, MessageFacts
<1>4. b.type \in {<<"s">>, <<"i">>, <<>>}
    BY <1>2
<1>5. PICK c : c = IF type = "i" THEN "numeral" ELSE key
    OBVIOUS
<1>6. c \in {"text", "numeral", "@dbus"} /\ c \in ContentKinds
    BY <1>5 DEF Keys, ContentKinds
<1>7. PICK t : t = b.type
    OBVIOUS
<1>8. KeyScalar(key, type) = Scalar(t, c)
    <2>1. KeyScalar(key, type) = [b EXCEPT !.content = c]
        BY <1>1, <1>5 DEF KeyScalar
    <2>2. [b EXCEPT !.content = c] = [type |-> t, items |-> <<>>, content |-> c]
        BY <1>2, <1>3, <1>7
    <2> QED
        BY Zenon, <2>1, <2>2 DEF Scalar
<1>9. t # <<"v">> /\ ~IsDict(t) /\ t \in Seq(Chars)
    <2>1. t \in {<<"s">>, <<"i">>, <<>>}
        BY Zenon, <1>4, <1>7
    <2>2. t # <<"v">> /\ ~IsDict(t)
        <3>1. Len(<<"s">>) = 1 /\ Len(<<"i">>) = 1 /\ Len(<<>>) = 0
            OBVIOUS
        <3>2. <<"s">> # <<"v">> /\ <<"i">> # <<"v">> /\ <<>> # <<"v">>
            OBVIOUS
        <3>3. ~(0 > 1) /\ ~(1 > 1)
            OBVIOUS
        <3> QED
            BY Zenon, <2>1, <3>1, <3>2, <3>3 DEF IsDict
    <2>3. t \in Seq(Chars)
        BY <2>1, CharsAre
    <2> QED
        BY <2>2, <2>3
<1>10. /\ Scalar(t, c) \in Messages[m]
       /\ Scalar(t, c).type = t /\ Scalar(t, c).items = <<>> /\ Scalar(t, c).content = c
    BY Zenon, <1>6, <1>9, EmptyMade DEF Made
<1> QED
    BY Zenon, <1>2, <1>4, <1>5, <1>6, <1>7, <1>8, <1>10

\* The entries of a map.
AreEntries(E, m, n, v, type, values) ==
    /\ E \in Seq(Messages[m + 1]) /\ Len(E) = n /\ DOMAIN E = 1 .. n
    /\ \A k \in 1 .. n :
        /\ E[k].type = <<"{">> /\ E[k].content = "none"
        /\ E[k].items = <<KeyScalar(v.keys[k], DictKey(type)), values[k]>>

\* The entries of a map: a key and a value each.
LEMMA EntriesMade ==
    ASSUME NEW m \in Nat, NEW n \in Nat, NEW v, DOMAIN v.items = 1 .. n,
           NEW type, DictKey(type) \in Chars,
           \A k \in 1 .. n : v.keys[k] \in Keys,
           NEW values, \A k \in 1 .. n : values[k] \in Messages[m]
    PROVE  AreEntries(Entries(v, type, values), m, n, v, type, values)
<1> DEFINE e(k) == Contents(<<"{">>, <<KeyScalar(v.keys[k], DictKey(type)), values[k]>>)
           E == Entries(v, type, values)
<1>1. E = [k \in 1 .. n |-> e(k)]
    BY DEF Entries
<1>2. \A S : \A x, y \in S : <<x, y>> \in Seq(S)
    OBVIOUS
<1>3. <<"{">> # <<"v">> /\ ~IsDict(<<"{">>) /\ <<"{">> \in Seq(Chars)
    <2>1. <<"{">> # <<"v">> /\ ~IsDict(<<"{">>)
        BY DEF IsDict
    <2> QED
        BY Zenon, <2>1, CharsAre
<1>4. ASSUME NEW k \in 1 .. n
      PROVE  /\ e(k) \in Messages[m + 1] /\ e(k).type = <<"{">> /\ e(k).content = "none"
             /\ e(k).items = <<KeyScalar(v.keys[k], DictKey(type)), values[k]>>
    <2>1. KeyScalar(v.keys[k], DictKey(type)) \in Messages[m]
        BY KeyMade
    <2>2. values[k] \in Messages[m]
        OBVIOUS
    <2>3. PICK i : i = <<KeyScalar(v.keys[k], DictKey(type)), values[k]>>
        OBVIOUS
    <2>4. i \in Seq(Messages[m])
        BY Zenon, <1>2, <2>1, <2>2, <2>3
    <2> QED
        <3>1. PICK t \in Seq(Chars) : t = <<"{">> /\ t # <<"v">> /\ ~IsDict(t)
            BY Zenon, <1>3
        <3>2. PICK l \in Nat : l = m + 1 /\ m + 1 <= l
            OBVIOUS
        <3>3. Made(Contents(t, i), l, t, i, "none")
            BY <2>4, <3>1, <3>2, ContentsMade
        <3> QED
            BY Zenon, <2>3, <3>1, <3>2, <3>3 DEF Made
<1> HIDE DEF e, E
<1>5. E \in [1 .. n -> Messages[m + 1]] /\ \A k \in 1 .. n : E[k] = e(k)
    BY <1>1, <1>4
<1>6. E \in Seq(Messages[m + 1]) /\ Len(E) = n /\ DOMAIN E = 1 .. n
    BY <1>5
<1>7. \A k \in 1 .. n : /\ E[k].type = <<"{">> /\ E[k].content = "none"
                        /\ E[k].items = <<KeyScalar(v.keys[k], DictKey(type)), values[k]>>
    BY Zenon, <1>4, <1>5
<1> QED
    BY Zenon, <1>6, <1>7 DEF E, AreEntries

\* w is a map on level l, of what v holds.
IsMap(w, l, m, n, v, type, values) ==
    /\ w \in Messages[l] /\ w.type = type /\ w.content = "none" /\ DOMAIN w.items = 1 .. n
    /\ AreEntries(w.items, m, n, v, type, values)
    /\ \A k \in 1 .. n : v.keys[k] \in Keys
    /\ KeysOf(w) = [k \in 1 .. n |-> IF DictKey(type) = "i" THEN "numeral" ELSE v.keys[k]]

\* A map made of keys and values is a D-Bus value, two levels above its
\* values.
LEMMA MapMade ==
    ASSUME NEW m \in Nat, NEW n \in Nat, NEW l \in Nat, NEW v, DOMAIN v.items = 1 .. n,
           NEW type \in Seq(Chars), IsDict(type), DictKey(type) \in Chars,
           n = 0 \/ m + 2 <= l, n = 0 \/ (IsKeys(v.keys) /\ Len(v.keys) = n),
           NEW values, \A k \in 1 .. n : values[k] \in Messages[m]
    PROVE  IsMap(Contents(type, Entries(v, type, values)), l, m, n, v, type, values)
<1> DEFINE E == Entries(v, type, values)
           w == Contents(type, E)
<1>1. \A k \in 1 .. n : v.keys[k] \in Keys
    <2>1. n # 0 => v.keys \in Seq(Keys) /\ Len(v.keys) = n
        BY DEF IsKeys
    <2> QED
        BY <2>1
<1>2. /\ E \in Seq(Messages[m + 1]) /\ Len(E) = n /\ DOMAIN E = 1 .. n
      /\ \A k \in 1 .. n :
            /\ E[k].type = <<"{">> /\ E[k].content = "none"
            /\ E[k].items = <<KeyScalar(v.keys[k], DictKey(type)), values[k]>>
    <2>1. AreEntries(Entries(v, type, values), m, n, v, type, values)
        BY <1>1, EntriesMade
    <2> QED
        BY Zenon, <2>1 DEF AreEntries
<1> HIDE DEF E
<1>3. w.type = type /\ w.items = E /\ w.content = "none"
      /\ w = [type |-> type, items |-> E, content |-> "none"]
    BY DEF Contents
<1> HIDE DEF w
<1>4. ASSUME NEW k \in 1 .. n
      PROVE  w.items[k].items[1].content = IF DictKey(type) = "i" THEN "numeral" ELSE v.keys[k]
    <2>1. w.items[k].items[1] = KeyScalar(v.keys[k], DictKey(type))
        <3>1. w.items[k].items = <<KeyScalar(v.keys[k], DictKey(type)), values[k]>>
            BY Zenon, <1>2, <1>3
        <3> QED
            BY <3>1
    <2>2. v.keys[k] \in Keys
        BY <1>1
    <2>3. KeyScalar(v.keys[k], DictKey(type)).content = IF DictKey(type) = "i" THEN "numeral" ELSE v.keys[k]
        BY <2>2, KeyMade
    <2> QED
        BY Zenon, <2>1, <2>3
<1>5. KeysOf(w) = [k \in 1 .. n |-> IF DictKey(type) = "i" THEN "numeral" ELSE v.keys[k]]
    <2>1. KeysOf(w) = [k \in 1 .. n |-> w.items[k].items[1].content]
        BY <1>2, <1>3 DEF KeysOf
    <2> QED
        BY <1>4, <2>1
<1>6. IsKeys(KeysOf(w))
    <2> DEFINE K == KeysOf(w)
    <2>1. K \in Seq(Keys) /\ Len(K) = n /\ DOMAIN K = 1 .. n
        <3>1. K \in [1 .. n -> Keys]
            BY <1>1, <1>5 DEF Keys
        <3> HIDE DEF K
        <3> QED
            BY <3>1
    <2>2. ASSUME Contains(K, "@dbus") PROVE K = <<"@dbus", "text">>
        <3>1. PICK k \in 1 .. n : K[k] = "@dbus"
            <4> HIDE DEF K
            <4> QED
                BY <2>1, <2>2 DEF Contains
        <3>2. DictKey(type) # "i" /\ v.keys[k] = "@dbus"
            BY <1>5, <3>1
        <3>3. n # 0
            OBVIOUS
        <3>4. IsKeys(v.keys) /\ Len(v.keys) = n
            BY <3>3
        <3>5. Contains(v.keys, "@dbus")
            BY <3>2, <3>4 DEF Contains
        <3>6. v.keys = <<"@dbus", "text">> /\ n = 2
            BY <3>4, <3>5 DEF IsKeys
        <3>7. K = [k_1 \in 1 .. n |-> v.keys[k_1]]
            BY <1>5, <3>2
        <3>8. K = [k_1 \in 1 .. 2 |-> <<"@dbus", "text">>[k_1]]
            BY Zenon, <3>6, <3>7
        <3> HIDE DEF K
        <3> QED
            BY <2>1, <3>6, <3>8
    <2> QED
        BY Zenon, <2>1, <2>2 DEF IsKeys
<1>7. \A k \in DOMAIN w.items : Len(w.items[k].items) = 2
    <2> SUFFICES ASSUME NEW k \in 1 .. n PROVE Len(w.items[k].items) = 2
        BY <1>2, <1>3
    <2>1. w.items[k].items = <<KeyScalar(v.keys[k], DictKey(type)), values[k]>>
        BY Zenon, <1>2, <1>3
    <2> QED
        BY <2>1
<1>8. IsMessage(w)
    <2>1. type # <<"v">>
        <3>1. Len(type) > 1
            BY Zenon DEF IsDict
        <3>2. ~(Len(<<"v">>) > 1)
            OBVIOUS
        <3> QED
            BY Zenon, <3>1, <3>2
    <2> QED
        BY Zenon, <1>3, <1>6, <1>7, <2>1 DEF IsMessage
<1>9. w \in Messages[l]
    <2>1. PICK o \in Nat : o = m + 1 /\ o + 1 = m + 2
        OBVIOUS
    <2>2. E \in Seq(Messages[o]) /\ "none" \in ContentKinds
        BY <1>2, <2>1 DEF ContentKinds
    <2>3. E = <<>> \/ o + 1 <= l
        <3>1. \A S : \A s \in Seq(S) : Len(s) = 0 => s = <<>>
            OBVIOUS
        <3>2. n = 0 => E = <<>>
            BY Zenon, <1>2, <3>1
        <3> QED
            BY Zenon, <2>1, <3>2
    <2> QED
        BY <1>3, <1>8, <2>2, <2>3, MessageMade
<1>10. AreEntries(E, m, n, v, type, values)
    BY Zenon, <1>2 DEF AreEntries
<1> QED
    BY Zenon, <1>1, <1>2, <1>3, <1>5, <1>9, <1>10 DEF w, E, IsMap

\* The items of v as variants, of the values g.
Variants(v, g) == [k \in DOMAIN v.items |-> InVariant(g[k])]

\* They are variants on level m + 1, of values on level m.
AreVariants(vs, m, n, g) ==
    /\ vs \in Seq(Messages[m + 1]) /\ DOMAIN vs = 1 .. n
    /\ n = 0 => vs = <<>>
    /\ \A k \in 1 .. n : /\ g[k] \in Messages[m] /\ vs[k] = InVariant(g[k])
                         /\ vs[k] \in Messages[m + 1]
                         /\ vs[k].type = <<"v">> /\ vs[k].items = <<g[k]>>
                         /\ vs[k].content = "none"

\* What an array and an object are made into without a type.
LEMMA ContainersMade ==
    ASSUME NEW m \in Nat, NEW n \in Nat, NEW l \in Nat, NEW v, DOMAIN v.items = 1 .. n,
           n = 0 \/ m + 3 <= l, NEW g, \A k \in 1 .. n : g[k] \in Messages[m]
    PROVE  /\ AreVariants(Variants(v, g), m, n, g)
           /\ Made(Contents(<<"a", "v">>, Variants(v, g)), l, <<"a", "v">>, Variants(v, g), "none")
           /\ n = 0 \/ (IsKeys(v.keys) /\ Len(v.keys) = n) =>
                IsMap(Contents(AnyMap, Entries(v, AnyMap, Variants(v, g))), l, m + 1, n, v, AnyMap,
                      Variants(v, g))
<1> DEFINE vs == Variants(v, g)
<1>1. vs = [k \in 1 .. n |-> InVariant(g[k])]
    BY DEF Variants
<1>2. PICK o \in Nat : o = m + 1 /\ m + 1 <= o
    OBVIOUS
<1>3. ASSUME NEW k \in 1 .. n PROVE Made(InVariant(g[k]), o, <<"v">>, <<g[k]>>, "none")
    <2>1. PICK u \in Messages[m] : u = g[k]
        OBVIOUS
    <2>2. Made(InVariant(u), o, <<"v">>, <<u>>, "none")
        BY <1>2, VariantMade
    <2> QED
        BY Zenon, <2>1, <2>2
<1> HIDE DEF vs
<1>4. vs \in [1 .. n -> Messages[o]] /\ \A k \in 1 .. n : vs[k] = InVariant(g[k])
    BY <1>1, <1>3 DEF Made
<1>5. vs \in Seq(Messages[o]) /\ DOMAIN vs = 1 .. n /\ (n = 0 => vs = <<>>)
    <2>1. vs \in Seq(Messages[o]) /\ DOMAIN vs = 1 .. n /\ Len(vs) = n
        BY <1>4
    <2>2. \A S : \A s \in Seq(S) : Len(s) = 0 => s = <<>>
        OBVIOUS
    <2> QED
        BY Zenon, <2>1, <2>2
<1>6. AreVariants(vs, m, n, g)
    <2>1. ASSUME NEW k \in 1 .. n
          PROVE  /\ vs[k].type = <<"v">> /\ vs[k].items = <<g[k]>>
                 /\ vs[k] \in Messages[o] /\ vs[k].content = "none" /\ vs[k] = InVariant(g[k])
        BY Zenon, <1>3, <1>4 DEF Made
    <2> QED
        BY Zenon, <1>2, <1>5, <2>1 DEF AreVariants
<1>7. Made(Contents(<<"a", "v">>, vs), l, <<"a", "v">>, vs, "none")
    <2>1. PICK t \in Seq(Chars) : t = <<"a", "v">> /\ t # <<"v">> /\ ~IsDict(t)
        <3>1. <<"a", "v">> # <<"v">> /\ ~IsDict(<<"a", "v">>)
            BY DEF IsDict
        <3> QED
            BY Zenon, <3>1, CharsAre
    <2>2. vs = <<>> \/ o + 1 <= l
        BY <1>2, <1>5
    <2>3. Made(Contents(t, vs), l, t, vs, "none")
        BY <1>5, <2>1, <2>2, ContentsMade
    <2> QED
        BY Zenon, <2>1, <2>3
<1>8. ASSUME n = 0 \/ (IsKeys(v.keys) /\ Len(v.keys) = n)
      PROVE  IsMap(Contents(AnyMap, Entries(v, AnyMap, vs)), l, o, n, v, AnyMap, vs)
    <2>1. PICK t \in Seq(Chars) : t = AnyMap /\ IsDict(t) /\ DictKey(t) \in Chars
        BY CharsAre
    <2>2. n = 0 \/ o + 2 <= l
        BY <1>2
    <2>3. \A k \in 1 .. n : vs[k] \in Messages[o]
        BY <1>4
    <2>4. IsMap(Contents(t, Entries(v, t, vs)), l, o, n, v, t, vs)
        BY <1>8, <2>1, <2>2, <2>3, MapMade
    <2> QED
        BY Zenon, <2>1, <2>4
<1> QED
    BY Zenon, <1>2, <1>6, <1>7, <1>8 DEF vs

-----------------------------------------------------------------------------
(* The natural mapping. *)

\* One level of Natural, over what f says of the items.
NaturalOf(f, v) ==
    LET items == [n \in DOMAIN v.items |-> InVariant(f[v.items[n]])] IN
    CASE v.kind = "array" -> Contents(<<"a", "v">>, items)
      [] v.kind = "object" -> Contents(AnyMap, Entries(v, AnyMap, items))
      [] v.kind = "integer" -> Scalar(<<"i">>, "integer")
      [] v.kind = "null" -> NoVariant
      [] OTHER -> Scalar(<<"s">>, v.kind)

\* What v is made into, when its items are made into g, on level l.
IsNatural(w, l, m, n, v, g) ==
    /\ w \in Messages[l]
    /\ v.kind \in {"array", "object"} => AreVariants(Variants(v, g), m, n, g)
    /\ v.kind = "array" => Made(w, l, <<"a", "v">>, Variants(v, g), "none")
    /\ v.kind = "object" => IsMap(w, l, m + 1, n, v, AnyMap, Variants(v, g))
    /\ v.kind = "integer" => Made(w, l, <<"i">>, <<>>, "integer")
    /\ v.kind = "null" => Made(w, l, <<>>, <<>>, "none")
    /\ v.kind \in {"text", "numeral"} => Made(w, l, <<"s">>, <<>>, v.kind)

\* The natural mapping of a value is a D-Bus value, three levels above those
\* of its items.
LEMMA NaturalMade ==
    ASSUME NEW o \in Nat, NEW v \in Values[o], NEW m \in Nat, NEW n \in Nat, n = Len(v.items),
           NEW l \in Nat, n = 0 \/ m + 3 <= l,
           NEW f, \A k \in 1 .. n : f[v.items[k]] \in Messages[m]
    PROVE  IsNatural(NaturalOf(f, v), l, m, n, v, [k \in DOMAIN v.items |-> f[v.items[k]]])
<1> DEFINE g == [k \in DOMAIN v.items |-> f[v.items[k]]]
<1>1. /\ v.kind \in Kinds /\ DOMAIN v.items = 1 .. n
      /\ v.kind = "object" => IsKeys(v.keys) /\ Len(v.keys) = n
    <2>1. /\ v.kind \in Kinds /\ v.items \in Seq(Values[o])
          /\ v.kind = "object" => IsKeys(v.keys) /\ Len(v.keys) = Len(v.items)
        BY Zenon, ValueFacts
    <2> QED
        BY <2>1
<1>2. \A k \in 1 .. n : g[k] = f[v.items[k]] /\ g[k] \in Messages[m]
    BY <1>1
<1>3. [k \in DOMAIN v.items |-> InVariant(f[v.items[k]])] = Variants(v, g)
    BY DEF Variants
<1> HIDE DEF g
<1>4. /\ AreVariants(Variants(v, g), m, n, g)
      /\ Made(Contents(<<"a", "v">>, Variants(v, g)), l, <<"a", "v">>, Variants(v, g), "none")
      /\ v.kind = "object" =>
            IsMap(Contents(AnyMap, Entries(v, AnyMap, Variants(v, g))), l, m + 1, n, v, AnyMap,
                  Variants(v, g))
    BY <1>1, <1>2, ContainersMade
<1>5. NaturalOf(f, v) =
        CASE v.kind = "array" -> Contents(<<"a", "v">>, Variants(v, g))
          [] v.kind = "object" -> Contents(AnyMap, Entries(v, AnyMap, Variants(v, g)))
          [] v.kind = "integer" -> Scalar(<<"i">>, "integer")
          [] v.kind = "null" -> NoVariant
          [] OTHER -> Scalar(<<"s">>, v.kind)
    BY Zenon, <1>3 DEF NaturalOf
<1>6. CASE v.kind = "array"
    <2>1. NaturalOf(f, v) = Contents(<<"a", "v">>, Variants(v, g))
        BY <1>5, <1>6
    <2>2. NaturalOf(f, v) \in Messages[l]
        BY Zenon, <1>4, <2>1 DEF Made
    <2>3. v.kind \notin {"object", "integer", "null", "text", "numeral"}
        BY <1>6
    <2> QED
        BY Zenon, <1>4, <2>1, <2>2, <2>3 DEF IsNatural, g
<1>7. CASE v.kind = "object"
    <2>1. NaturalOf(f, v) = Contents(AnyMap, Entries(v, AnyMap, Variants(v, g)))
        BY <1>5, <1>7
    <2>2. NaturalOf(f, v) \in Messages[l]
        BY Zenon, <1>4, <1>7, <2>1 DEF IsMap
    <2>3. v.kind \notin {"array", "integer", "null", "text", "numeral"}
        BY <1>7
    <2> QED
        BY Zenon, <1>4, <1>7, <2>1, <2>2, <2>3 DEF IsNatural, g
<1>8. CASE v.kind \in {"integer", "null", "text", "numeral"}
    <2>1. PICK t, c : /\ NaturalOf(f, v) = Scalar(t, c)
                      /\ v.kind = "integer" => t = <<"i">> /\ c = "integer"
                      /\ v.kind = "null" => t = <<>> /\ c = "none"
                      /\ v.kind \in {"text", "numeral"} => t = <<"s">> /\ c = v.kind
        <3>1. v.kind = "integer" => NaturalOf(f, v) = Scalar(<<"i">>, "integer")
            BY <1>5
        <3>2. v.kind = "null" => NaturalOf(f, v) = Scalar(<<>>, "none")
            BY <1>5 DEF NoVariant
        <3>3. v.kind \in {"text", "numeral"} => NaturalOf(f, v) = Scalar(<<"s">>, v.kind)
            BY <1>5
        <3>4. "integer" # "null" /\ "integer" \notin {"text", "numeral"} /\ "null" \notin {"text", "numeral"}
            OBVIOUS
        <3> QED
            BY Zenon, <1>8, <3>1, <3>2, <3>3, <3>4
    <2>2. t \in Seq(Chars) /\ t # <<"v">> /\ ~IsDict(t) /\ c \in ContentKinds
        <3>1. t \in {<<"s">>, <<"i">>, <<>>}
            BY Zenon, <1>8, <2>1
        <3>2. t \in Seq(Chars)
            BY Zenon, <3>1, CharsAre
        <3>3. Len(<<"s">>) = 1 /\ Len(<<"i">>) = 1 /\ Len(<<>>) = 0 /\ ~(0 > 1) /\ ~(1 > 1)
            OBVIOUS
        <3>4. <<"s">> # <<"v">> /\ <<"i">> # <<"v">> /\ <<>> # <<"v">>
            OBVIOUS
        <3>5. c \in ContentKinds
            BY <1>8, <2>1 DEF ContentKinds
        <3> QED
            BY Zenon, <3>1, <3>2, <3>3, <3>4, <3>5 DEF IsDict
    <2>3. Made(NaturalOf(f, v), l, t, <<>>, c)
        BY Zenon, <2>1, <2>2, EmptyMade
    <2>4. v.kind \notin {"array", "object"} /\ NaturalOf(f, v) \in Messages[l]
        BY <1>8, <2>3 DEF Made
    <2> QED
        BY Zenon, <2>1, <2>3, <2>4 DEF IsNatural
<1> QED
    BY <1>1, <1>6, <1>7, <1>8 DEF Kinds

\* The levels of JSON and of what it is made into.
LEMMA JsonLevels ==
    /\ MaxWraps \in Nat
    /\ \A n \in Nat : n <= MaxWraps => /\ Values[n] \subseteq JSON /\ 3 * n \in Nat
                                       /\ 3 * n + 1 \in Nat /\ Messages[3 * n] \subseteq Wire
                                       /\ Messages[3 * n + 1] \subseteq Wire
    /\ JSON = Values[MaxWraps]
<1>1. MaxWraps \in Nat
    BY CoercerAssumption
<1>2. ASSUME NEW n \in Nat, n <= MaxWraps
      PROVE  /\ Values[n] \subseteq JSON /\ 3 * n \in Nat
             /\ 3 * n + 1 \in Nat /\ Messages[3 * n] \subseteq Wire
             /\ Messages[3 * n + 1] \subseteq Wire
    <2>1. IsLevelled(Values) /\ IsLevelled(Messages)
        BY ValuesLevelled, MessagesLevelled
    <2>2. Values[n] \subseteq JSON
        BY <1>1, <1>2, <2>1, LevelUp DEF JSON
    <2>3. PICK l \in Nat, h \in Nat, a \in Nat :
            l = 3 * n /\ h = 3 * n + 1 /\ a = 3 * MaxWraps + 1 /\ l <= a /\ h <= a
        BY <1>1, <1>2
    <2>4. Messages[l] \subseteq Messages[a] /\ Messages[h] \subseteq Messages[a]
        BY <2>1, <2>3, LevelUp
    <2> QED
        BY Zenon, <2>2, <2>3, <2>4 DEF Wire
<1> QED
    BY <1>1, <1>2 DEF JSON

\* Level by level, the natural mapping is defined.
LEMMA NaturalLevels ==
    ASSUME NEW f, \A v \in JSON : NaturalOf(f, v) \in Wire => f[v] = NaturalOf(f, v)
    PROVE  \A n \in Nat : n <= MaxWraps =>
            \A v \in Values[n] : f[v] = NaturalOf(f, v) /\ f[v] \in Messages[3 * n]
<1> DEFINE OK(n) == n <= MaxWraps =>
                \A v \in Values[n] : f[v] = NaturalOf(f, v) /\ f[v] \in Messages[3 * n]
           Q == {n \in Nat : OK(n)}
<1>1. ASSUME NEW n \in Nat, n = 0 \/ OK(n - 1) PROVE OK(n)
    <2> SUFFICES ASSUME n <= MaxWraps, NEW v \in Values[n]
                 PROVE  f[v] = NaturalOf(f, v) /\ f[v] \in Messages[3 * n]
        OBVIOUS
    <2>1. v.items \in Seq(Values[n]) /\ (v.items # <<>> => n > 0 /\ v.items \in Seq(Values[n - 1]))
        BY Zenon, ValueFacts
    <2>2. PICK c \in Nat : c = Len(v.items) /\ DOMAIN v.items = 1 .. c
        BY <2>1
    <2>3. PICK l \in Nat : l = 3 * n
        OBVIOUS
    <2>4. PICK m \in Nat : n > 0 => m = 3 * (n - 1) /\ m + 3 = l
        <3>1. CASE n > 0
            <4>1. 3 * (n - 1) \in Nat /\ 3 * (n - 1) + 3 = l
                BY <2>3, <3>1
            <4> QED
                BY Zenon, <4>1
        <3>2. CASE ~(n > 0)
            BY <3>2
        <3> QED
            BY <3>1, <3>2
    <2>5. ASSUME NEW k \in 1 .. c PROVE n > 0 /\ f[v.items[k]] \in Messages[m]
        <3>1. v.items # <<>>
            BY <2>2
        <3>2. n > 0 /\ v.items \in Seq(Values[n - 1])
            BY Zenon, <2>1, <3>1
        <3>3. v.items[k] \in Values[n - 1]
            BY <2>2, <3>2
        <3>4. n - 1 \in Nat /\ n - 1 <= MaxWraps /\ n # 0
            BY <3>2, JsonLevels
        <3>5. OK(n - 1)
            BY <1>1, <3>4
        <3>6. f[v.items[k]] \in Messages[3 * (n - 1)]
            BY Zenon, <3>3, <3>4, <3>5
        <3> QED
            BY Zenon, <2>4, <3>2, <3>6
    <2>6. c = 0 \/ m + 3 <= l
        <3>1. c # 0 => n > 0
            <4>1. c # 0 => 1 \in 1 .. c
                OBVIOUS
            <4> QED
                BY Zenon, <2>5, <4>1
        <3> QED
            BY <2>4, <3>1
    <2>7. IsNatural(NaturalOf(f, v), l, m, c, v, [k \in DOMAIN v.items |-> f[v.items[k]]])
        BY <2>2, <2>5, <2>6, NaturalMade
    <2>8. NaturalOf(f, v) \in Messages[l]
        BY Zenon, <2>7 DEF IsNatural
    <2>9. v \in JSON /\ Messages[l] \subseteq Wire
        BY <2>3, JsonLevels
    <2> QED
        BY <2>3, <2>8, <2>9
<1> HIDE DEF OK
<1>2. 0 \in Q
    BY <1>1
<1>3. ASSUME NEW n \in Q PROVE n + 1 \in Q
    <2>1. PICK m \in Nat : m = n + 1 /\ m - 1 = n
        OBVIOUS
    <2>2. OK(m)
        BY <1>1, <2>1
    <2> QED
        BY <2>1, <2>2
<1>4. Q = Nat
    <2>1. Q \in SUBSET Nat
        OBVIOUS
    <2> HIDE DEF Q
    <2> QED
        BY <1>2, <1>3, <2>1, SetInduction
<1> QED
    BY <1>4 DEF OK

\* The natural mapping is what its definition says.
LEMMA NaturalIs ==
    /\ \A v \in JSON : Natural[v] = NaturalOf(Natural, v)
    /\ \A n \in Nat : n <= MaxWraps => \A v \in Values[n] : Natural[v] \in Messages[3 * n]
<1> DEFINE S == JSON
           T == Wire
           rank == [v \in JSON |-> Height(Values, v)]
           F == [p \in S \X [S -> T] |->
                    IF NaturalOf(p[2], p[1]) \in Wire THEN NaturalOf(p[2], p[1]) ELSE NoVariant]
<1>1. NoVariant \in Wire
    <2>1. 3 * MaxWraps + 1 \in Nat
        BY JsonLevels
    <2>2. PICK n \in Nat : n = 3 * MaxWraps + 1
        BY <2>1
    <2>3. "s" \in Chars
        BY CharsAre
    <2>4. ~CoerceBasic(Leaf("null", <<>>), "s")
        BY DEF CoerceBasic, Leaf
    <2>5. NoVariant \in Messages[n]
        <3>1. BasicValue(Leaf("null", <<>>), "s") \in Messages[n]
            BY <2>3, BasicMade
        <3> QED
            BY <2>4, <3>1 DEF BasicValue
    <2> QED
        BY Zenon, <2>2, <2>5 DEF Wire
<1>2. \A v \in S : \A g, h \in [S -> T] :
        (\A u \in S : rank[u] < rank[v] => g[u] = h[u]) => NaturalOf(g, v) = NaturalOf(h, v)
    <2> SUFFICES ASSUME NEW v \in S, NEW g \in [S -> T], NEW h \in [S -> T],
                        \A u \in S : rank[u] < rank[v] => g[u] = h[u]
                 PROVE  NaturalOf(g, v) = NaturalOf(h, v)
        BY Zenon
    <2>1. \A k \in DOMAIN v.items : g[v.items[k]] = h[v.items[k]]
        BY JsonFacts
    <2>2. [n \in DOMAIN v.items |-> InVariant(g[v.items[n]])]
            = [n \in DOMAIN v.items |-> InVariant(h[v.items[n]])]
        BY Zenon, <2>1
    <2> QED
        BY Zenon, <2>2 DEF NaturalOf
<1>3. rank \in [S -> Nat]
    BY JsonFacts
<1>4. F \in [S \X [S -> T] -> T]
    BY <1>1
<1>5. \A x \in S, g \in [S -> T] :
        F[<<x, g>>] = IF NaturalOf(g, x) \in Wire THEN NaturalOf(g, x) ELSE NoVariant
    OBVIOUS
<1>6. IsRecursion(S, T, rank, F)
    <2>1. T # {}
        BY <1>1
    <2> HIDE DEF S, T, rank, F
    <2>2. \A x \in S : \A g, h \in [S -> T] :
            (\A y \in S : rank[y] < rank[x] => g[y] = h[y]) => F[<<x, g>>] = F[<<x, h>>]
        BY <1>2, <1>5
    <2> QED
        BY Zenon, <1>3, <1>4, <2>1, <2>2 DEF IsRecursion
<1> HIDE DEF rank, F
<1>7. PICK f \in [S -> T] : \A x \in S : f[x] = F[<<x, f>>]
    <2> HIDE DEF S, T
    <2> QED
        BY <1>6, RecursionExists
<1>8. \A v \in JSON : NaturalOf(f, v) \in Wire => f[v] = NaturalOf(f, v)
    BY <1>5, <1>7
<1>9. \A v \in JSON : f[v] = NaturalOf(f, v)
    <2>1. \A n \in Nat : n <= MaxWraps =>
            \A v \in Values[n] : f[v] = NaturalOf(f, v) /\ f[v] \in Messages[3 * n]
        BY Zenon, <1>8, NaturalLevels
    <2>2. MaxWraps \in Nat /\ MaxWraps <= MaxWraps /\ JSON = Values[MaxWraps]
        BY JsonLevels
    <2> QED
        BY Zenon, <2>1, <2>2
<1>10. f = [v \in JSON |-> NaturalOf(f, v)]
    <2>1. f = [v \in JSON |-> f[v]]
        BY <1>7
    <2> QED
        BY Zenon, <1>9, <2>1
<1>11. Natural = CHOOSE g : g = [v \in JSON |-> NaturalOf(g, v)]
    BY DEF Natural, NaturalOf
<1>12. Natural = [v \in JSON |-> NaturalOf(Natural, v)]
    BY Zenon, <1>10, <1>11
<1>13. \A v \in JSON : Natural[v] = NaturalOf(Natural, v)
    BY <1>12
<1> QED
    BY Zenon, <1>13, NaturalLevels

\* The types of arrays that are no maps, and of structs.
IsList(type) == Len(type) > 1 /\ type[1] = "a" /\ ~IsDict(type)

\* The type of a struct.
IsStruct(type) == Len(type) > 1 /\ type[1] = "("

\* A complete type is of one kind, and no two are confused.
OfKind(type) ==
    \/ /\ IsBasic(type) /\ type[1] \in Basic /\ TypeDepth(type) = 0
       /\ type # <<"v">> /\ type # <<"a", "s">> /\ ~IsDict(type) /\ ~IsList(type) /\ ~IsStruct(type)
    \/ /\ type = <<"v">> /\ TypeDepth(type) = 0
       /\ ~IsBasic(type) /\ type # <<"a", "s">> /\ ~IsDict(type) /\ ~IsList(type) /\ ~IsStruct(type)
    \/ /\ IsDict(type) /\ DictKey(type) \in Basic /\ Inside(DictValue(type), type, 2)
       /\ ~IsBasic(type) /\ type # <<"v">> /\ type # <<"a", "s">> /\ ~IsList(type) /\ ~IsStruct(type)
    \/ /\ IsList(type) /\ type[1] = "a" /\ Inside(Tail(type), type, 1)
       /\ ~IsBasic(type) /\ type # <<"v">> /\ ~IsDict(type) /\ ~IsStruct(type)
    \/ /\ IsStruct(type) /\ type[1] # "a"
       /\ StructFields(type) \in Seq(Seq(Chars)) /\ StructFields(type) # <<>>
       /\ \A t \in Range(StructFields(type)) : Inside(t, type, 1)
       /\ ~IsBasic(type) /\ type # <<"v">> /\ type # <<"a", "s">> /\ ~IsDict(type) /\ ~IsList(type)

\* A single complete type is a basic type, a variant, a map, an array or a
\* struct.
LEMMA KindOfType ==
    ASSUME NEW s \in Seq(Chars), IsSingleCompleteType(s)
    PROVE  OfKind(s)
<1>1. PICK n \in Nat : n = Len(s)
    OBVIOUS
<1>2. s = <<"v">> <=> n = 1 /\ s[1] = "v"
    BY <1>1
<1>3. s = <<"a", "s">> => n = 2 /\ s[1] = "a" /\ s[2] = "s"
    BY <1>1
<1>4. "a" \notin Basic /\ "v" \notin Basic /\ "(" \notin Basic /\ "v" # "a" /\ "v" # "("
        /\ "s" # "{" /\ "a" # "("
    BY CharsAre
<1>5. CASE n = 1 /\ s[1] \in Basic \cup {"v"} /\ TypeDepth(s) = 0
    <2>1. ~(n > 1) /\ n # 2
        BY <1>5
    <2>2. ~IsDict(s) /\ ~IsList(s) /\ ~IsStruct(s) /\ s # <<"a", "s">>
        BY Zenon, <1>1, <1>3, <2>1 DEF IsDict, IsList, IsStruct
    <2>3. CASE s[1] = "v"
        BY Zenon, <1>1, <1>2, <1>4, <1>5, <2>2, <2>3 DEF OfKind, IsBasic
    <2>4. CASE s[1] \in Basic
        <3>1. s[1] # "v"
            BY Zenon, <1>4, <2>4
        <3> QED
            BY Zenon, <1>1, <1>2, <1>5, <2>2, <2>4, <3>1 DEF OfKind, IsBasic
    <2> QED
        BY <1>5, <2>3, <2>4
<1>6. CASE /\ n > 4 /\ s[1] = "a" /\ s[2] = "{" /\ s[3] \in Basic
           /\ Inside(DictValue(s), s, 2)
    <2>1. n > 1 /\ n # 1
        <3>1. n > 4
            BY Zenon, <1>6
        <3> QED
            BY <3>1
    <2>2. IsDict(s) /\ DictKey(s) \in Basic
        BY Zenon, <1>1, <1>6, <2>1 DEF IsDict, DictKey
    <2>3. ~IsBasic(s) /\ s # <<"v">> /\ s # <<"a", "s">>
        BY Zenon, <1>1, <1>2, <1>3, <1>4, <1>6, <2>1 DEF IsBasic
    <2>4. ~IsList(s) /\ ~IsStruct(s)
        BY Zenon, <1>4, <1>6, <2>2 DEF IsList, IsStruct
    <2> QED
        BY Zenon, <1>6, <2>2, <2>3, <2>4 DEF OfKind
<1>7. CASE n > 1 /\ s[1] = "a" /\ s[2] # "{" /\ Inside(Tail(s), s, 1)
    <2>1. n # 1
        <3>1. n > 1
            BY Zenon, <1>7
        <3> QED
            BY <3>1
    <2>2. IsList(s) /\ ~IsDict(s)
        BY Zenon, <1>1, <1>7 DEF IsDict, IsList
    <2>3. ~IsBasic(s) /\ s # <<"v">> /\ ~IsStruct(s)
        BY Zenon, <1>1, <1>2, <1>4, <1>7, <2>1 DEF IsBasic, IsStruct
    <2> QED
        BY Zenon, <1>7, <2>2, <2>3 DEF OfKind
<1>8. CASE /\ n > 1 /\ s[1] = "("
           /\ StructFields(s) \in Seq(Seq(Chars)) /\ StructFields(s) # <<>>
           /\ \A t \in Range(StructFields(s)) : Inside(t, s, 1)
    <2>1. n # 1
        BY <1>8
    <2>2. s[1] # "a" /\ s # <<"a", "s">>
        BY Zenon, <1>3, <1>4, <1>8
    <2>3. IsStruct(s) /\ ~IsDict(s) /\ ~IsList(s) /\ ~IsBasic(s) /\ s # <<"v">>
        BY Zenon, <1>1, <1>2, <1>8, <2>1, <2>2 DEF IsStruct, IsDict, IsList, IsBasic
    <2> QED
        BY Zenon, <1>8, <2>2, <2>3 DEF OfKind
<1> QED
    BY Zenon, <1>1, <1>5, <1>6, <1>7, <1>8, TypeCases

\* What the types inside a struct are.
LEMMA FieldFacts ==
    ASSUME NEW type, StructFields(type) \in Seq(Seq(Chars)),
           \A t \in Range(StructFields(type)) : Inside(t, type, 1),
           NEW k \in DOMAIN StructFields(type)
    PROVE  Inside(StructFields(type)[k], type, 1)
BY DEF Range

-----------------------------------------------------------------------------
(* What is built of a value. *)

\* What a variant is made to hold, of the values that f gives its items.
IsHeld(w, l, m, n, v, f) ==
    /\ w \in Messages[l]
    /\ IsTyped(v) => w = f[<<"value", Inner(v), NamedType(v)>>]
    /\ ~IsTyped(v) =>
        IsNatural(w, l, m, n, v, [k \in DOMAIN v.items |-> f[<<"variant", v.items[k], <<>>>>]])

\* What is put in a variant is a D-Bus value, three levels above what its
\* items became.
LEMMA VariantContentMade ==
    ASSUME NEW o \in Nat, NEW v \in Values[o], v \in JSON, NEW m \in Nat, NEW n \in Nat,
           n = Len(v.items),
           NEW l \in Nat, n = 0 \/ m + 3 <= l,
           NEW f, \A k \in 1 .. n : f[<<"variant", v.items[k], <<>>>>] \in Messages[m],
           IsTyped(v) => f[<<"value", Inner(v), NamedType(v)>>] \in Messages[l]
    PROVE  IsHeld(VariantContent(f, v), l, m, n, v, f)
<1> DEFINE g == [k \in DOMAIN v.items |-> f[<<"variant", v.items[k], <<>>>>]]
           w == VariantContent(f, v)
<1>1. /\ v.kind \in Kinds /\ DOMAIN v.items = 1 .. n
      /\ v.kind = "object" => IsKeys(v.keys) /\ Len(v.keys) = n
      /\ v.kind \notin {"array", "object"} => v.items = <<>>
    <2>1. /\ v.kind \in Kinds /\ v.items \in Seq(Values[o])
          /\ v.kind = "object" => IsKeys(v.keys) /\ Len(v.keys) = Len(v.items)
          /\ v.kind \notin {"array", "object"} => v.items = <<>>
        BY Zenon, ValueFacts
    <2> QED
        BY <2>1
<1>2. \A k \in 1 .. n : g[k] = f[<<"variant", v.items[k], <<>>>>] /\ g[k] \in Messages[m]
    BY <1>1
<1>3. [k \in DOMAIN v.items |-> InVariant(f[<<"variant", v.items[k], <<>>>>])] = Variants(v, g)
    BY DEF Variants
<1> HIDE DEF g
<1>4. /\ AreVariants(Variants(v, g), m, n, g)
      /\ Made(Contents(<<"a", "v">>, Variants(v, g)), l, <<"a", "v">>, Variants(v, g), "none")
      /\ v.kind = "object" =>
            IsMap(Contents(AnyMap, Entries(v, AnyMap, Variants(v, g))), l, m + 1, n, v, AnyMap,
                  Variants(v, g))
    BY <1>1, <1>2, ContainersMade
<1>5. w = IF IsTyped(v) THEN f[<<"value", Inner(v), NamedType(v)>>]
          ELSE IF v.kind = "array" THEN Contents(<<"a", "v">>, Variants(v, g))
          ELSE IF v.kind = "object" THEN Contents(AnyMap, Entries(v, AnyMap, Variants(v, g)))
          ELSE Natural[v]
    BY Zenon, <1>3 DEF VariantContent
<1> HIDE DEF w
<1>6. CASE IsTyped(v)
    <2>1. w = f[<<"value", Inner(v), NamedType(v)>>]
        BY Zenon, <1>5, <1>6
    <2> QED
        BY Zenon, <1>6, <2>1 DEF IsHeld, w
<1>7. CASE ~IsTyped(v) /\ v.kind = "array"
    <2>1. w = Contents(<<"a", "v">>, Variants(v, g))
        BY Zenon, <1>5, <1>7
    <2>2. w \in Messages[l]
        BY Zenon, <1>4, <2>1 DEF Made
    <2>3. v.kind \notin {"object", "integer", "null", "text", "numeral"}
        BY <1>7
    <2>4. IsNatural(w, l, m, n, v, g)
        BY Zenon, <1>4, <2>1, <2>2, <2>3 DEF IsNatural
    <2> QED
        BY Zenon, <1>7, <2>2, <2>4 DEF IsHeld, g, w
<1>8. CASE ~IsTyped(v) /\ v.kind = "object"
    <2>1. w = Contents(AnyMap, Entries(v, AnyMap, Variants(v, g)))
        <3>1. v.kind # "array"
            BY <1>8
        <3> QED
            BY Zenon, <1>5, <1>8, <3>1
    <2>2. w \in Messages[l]
        BY Zenon, <1>4, <1>8, <2>1 DEF IsMap
    <2>3. v.kind \notin {"array", "integer", "null", "text", "numeral"}
        BY <1>8
    <2>4. IsNatural(w, l, m, n, v, g)
        BY Zenon, <1>4, <1>8, <2>1, <2>2, <2>3 DEF IsNatural
    <2> QED
        BY Zenon, <1>8, <2>2, <2>4 DEF IsHeld, g, w
<1>9. CASE ~IsTyped(v) /\ v.kind \notin {"array", "object"}
    <2>1. w = NaturalOf(Natural, v)
        <3>1. v.kind # "array" /\ v.kind # "object"
            BY <1>9
        <3>2. w = Natural[v]
            BY Zenon, <1>5, <1>9, <3>1
        <3> QED
            BY Zenon, <3>2, NaturalIs
    <2>2. Len(v.items) = 0 /\ n = 0 /\ \A k \in 1 .. n : FALSE
        BY <1>1, <1>9
    <2>3. IsNatural(w, l, m, n, v, [k \in DOMAIN v.items |-> Natural[v.items[k]]])
        BY Zenon, <2>1, <2>2, NaturalMade
    <2>4. w \in Messages[l]
        BY Zenon, <2>3 DEF IsNatural
    <2>5. v.kind # "array" /\ v.kind # "object"
        BY <1>9
    <2>6. IsNatural(w, l, m, n, v, g)
        BY Zenon, <1>9, <2>3, <2>5 DEF IsNatural
    <2> QED
        BY Zenon, <1>9, <2>4, <2>6 DEF IsHeld, g, w
<1> QED
    BY Zenon, <1>6, <1>7, <1>8, <1>9

\* What is built of v for the type type, of the values that f gives its items.
IsBuilt(w, l, m, n, v, type, f) ==
    /\ w \in Messages[l]
    /\ IsBasic(type) => w = BasicValue(v, type[1])
    /\ type = <<"v">> => Made(w, l, <<"v">>, <<f[<<"variant", v, <<>>>>]>>, "none")
    /\ IsDict(type) /\ v.kind = "object" =>
        IsMap(w, l, m, n, v, type, [k \in 1 .. n |-> f[<<"value", v.items[k], DictValue(type)>>]])
    /\ IsList(type) /\ v.kind = "array" =>
        Made(w, l, type, [k \in 1 .. n |-> f[<<"value", v.items[k], Tail(type)>>]], "none")
    /\ IsStruct(type) /\ v.kind = "array" /\ Len(StructFields(type)) = n =>
        Made(w, l, type, [k \in 1 .. n |-> f[<<"value", v.items[k], StructFields(type)[k]>>]], "none")

\* What the lemmas on the kinds of types take for granted.
BuildGiven(o, v, m, h, n, l, f, type) ==
    /\ o \in Nat /\ m \in Nat /\ h \in Nat /\ n \in Nat /\ l \in Nat
    /\ v \in Values[o] /\ n = Len(v.items) /\ DOMAIN v.items = 1 .. n
    /\ h + 1 <= l /\ m + 1 <= l /\ (n = 0 \/ m + 2 <= l)
    /\ \A k \in 1 .. n : \A t \in Seq(Chars) : f[<<"value", v.items[k], t>>] \in Messages[m]
    /\ f[<<"variant", v, <<>>>>] \in Messages[h]
    /\ type \in Seq(Chars) /\ IsSingleCompleteType(type)

\* An invalid QVariant counts as a D-Bus value of no type.
LEMMA NoVariantMade ==
    ASSUME NEW m \in Nat
    PROVE  NoVariant \in Messages[m]
<1>1. <<>> # <<"v">> /\ ~IsDict(<<>>) /\ "none" \in ContentKinds /\ <<>> \in Seq(Chars)
    BY DEF IsDict, ContentKinds
<1> QED
    BY <1>1, EmptyMade DEF NoVariant, Made

\* What BuildMap() makes: a D-Bus value in any case, and a map of the items of
\* an object.
MapFits(w, l, m, n, v, type, f) ==
    /\ w \in Messages[l]
    /\ v.kind = "object" =>
        IsMap(w, l, m, n, v, type, [k \in 1 .. n |-> f[<<"value", v.items[k], DictValue(type)>>]])

\* The branch of a map.
LEMMA MapBuilt ==
    ASSUME NEW o, NEW v, NEW m, NEW h, NEW n, NEW l, NEW f, NEW type,
           BuildGiven(o, v, m, h, n, l, f, type), IsDict(type), DictKey(type) \in Basic,
           DictValue(type) \in Seq(Chars)
    PROVE  MapFits(BuildMap(f, v, type), l, m, n, v, type, f)
<1> USE DEF BuildGiven
<1> DEFINE items == ItemsOf(v, "object")
           u == [v EXCEPT !.items = items]
           values == [k \in DOMAIN items |-> f[<<"value", items[k], DictValue(type)>>]]
<1>1. /\ v = [kind |-> v.kind, keys |-> v.keys, text |-> v.text, items |-> v.items]
      /\ v.kind = "object" => IsKeys(v.keys) /\ Len(v.keys) = n
    BY Zenon, ValueFacts
<1>2. BuildMap(f, v, type) = Contents(type, Entries(u, type, values))
    BY Zenon DEF BuildMap
<1>3. CASE v.kind = "object"
    <2>1. items = v.items
        BY <1>3 DEF ItemsOf
    <2>2. u = v
        BY <1>1, <2>1
    <2>3. values = [k \in 1 .. n |-> f[<<"value", v.items[k], DictValue(type)>>]]
        BY Zenon, <2>1
    <2> HIDE DEF items, u, values
    <2>4. ASSUME NEW k \in 1 .. n PROVE values[k] \in Messages[m]
        <3>1. values[k] = f[<<"value", v.items[k], DictValue(type)>>]
            BY <2>3
        <3> QED
            BY Zenon, <3>1
    <2>5. DictKey(type) \in Chars
        BY CharsAre
    <2>6. IsMap(Contents(type, Entries(v, type, values)), l, m, n, v, type, values)
        BY <1>1, <1>3, <2>4, <2>5, MapMade
    <2>7. IsMap(BuildMap(f, v, type), l, m, n, v, type, values)
        BY Zenon, <1>2, <2>2, <2>6
    <2> QED
        BY Zenon, <2>3, <2>7 DEF IsMap, MapFits
<1>4. CASE v.kind # "object"
    <2>1. items = <<>>
        BY <1>4 DEF ItemsOf
    <2>2. DOMAIN u.items = 1 .. 0 /\ \A k \in 1 .. 0 : values[k] \in Messages[m]
        <3>1. u.items = items
            BY <1>1
        <3> QED
            BY <2>1, <3>1
    <2> HIDE DEF items, u, values
    <2>3. DictKey(type) \in Chars
        BY CharsAre
    <2>4. IsMap(Contents(type, Entries(u, type, values)), l, m, 0, u, type, values)
        BY <2>2, <2>3, MapMade
    <2> QED
        BY Zenon, <1>2, <1>4, <2>4 DEF IsMap, MapFits
<1> QED
    BY <1>3, <1>4

\* The branch of an array: toArray() gives nothing when the value is no array.
LEMMA ListBuilt ==
    ASSUME NEW o, NEW v, NEW m, NEW h, NEW n, NEW l, NEW f, NEW type,
           BuildGiven(o, v, m, h, n, l, f, type), IsList(type), type # <<"v">>, Tail(type) \in Seq(Chars)
    PROVE  /\ BuildArray(f, v, type) \in Messages[l]
           /\ v.kind = "array" =>
                Made(BuildArray(f, v, type), l, type,
                     [k \in 1 .. n |-> f[<<"value", v.items[k], Tail(type)>>]], "none")
<1> USE DEF BuildGiven
<1> DEFINE items == ItemsOf(v, "array")
           values == [k \in DOMAIN items |-> f[<<"value", items[k], Tail(type)>>]]
<1>1. BuildArray(f, v, type) = Contents(type, values)
    BY Zenon DEF BuildArray
<1>2. values \in Seq(Messages[m]) /\ (v.kind = "array" => values = [k \in 1 .. n |-> f[<<"value", v.items[k], Tail(type)>>]])
    <2>1. CASE v.kind = "array"
        <3>1. items = v.items
            BY <2>1 DEF ItemsOf
        <3>2. values = [k \in 1 .. n |-> f[<<"value", v.items[k], Tail(type)>>]]
            BY Zenon, <3>1
        <3> HIDE DEF items, values
        <3>3. values \in [1 .. n -> Messages[m]]
            BY <3>2
        <3>4. values \in Seq(Messages[m])
            <4>1. \A S, s : \A c \in Nat : s \in [1 .. c -> S] => s \in Seq(S)
                OBVIOUS
            <4> QED
                BY Zenon, <3>3, <4>1
        <3> QED
            BY Zenon, <3>2, <3>4
    <2>2. CASE v.kind # "array"
        <3>1. items = <<>>
            BY <2>2 DEF ItemsOf
        <3>2. values = <<>>
            BY <3>1
        <3> HIDE DEF items, values
        <3> QED
            BY <2>2, <3>2
    <2> QED
        BY <2>1, <2>2
<1> HIDE DEF items, values
<1>3. Made(Contents(type, values), l, type, values, "none")
    <2>1. ~IsDict(type)
        BY Zenon DEF IsList
    <2> QED
        BY <1>2, <2>1, ContentsMade
<1> QED
    BY Zenon, <1>1, <1>2, <1>3 DEF Made

\* The branch of a struct: toArray() gives nothing, and a missing field is
\* invalid.
LEMMA StructBuilt ==
    ASSUME NEW o, NEW v, NEW m, NEW h, NEW n, NEW l, NEW f, NEW type,
           BuildGiven(o, v, m, h, n, l, f, type), IsStruct(type), type # <<"v">>, ~IsDict(type),
           StructFields(type) \in Seq(Seq(Chars))
    PROVE  /\ BuildStruct(f, v, type) \in Messages[l]
           /\ v.kind = "array" /\ Len(StructFields(type)) = n =>
                Made(BuildStruct(f, v, type), l, type,
                     [k \in 1 .. n |-> f[<<"value", v.items[k], StructFields(type)[k]>>]], "none")
<1> USE DEF BuildGiven
<1> DEFINE items == ItemsOf(v, "array")
           values == [k \in DOMAIN StructFields(type) |->
                        IF k \in DOMAIN items THEN f[<<"value", items[k], StructFields(type)[k]>>]
                        ELSE NoVariant]
<1>1. BuildStruct(f, v, type) = Contents(type, values)
    BY Zenon DEF BuildStruct
<1>2. PICK c \in Nat : c = Len(StructFields(type)) /\ DOMAIN StructFields(type) = 1 .. c
    OBVIOUS
<1>3. NoVariant \in Messages[m]
    BY NoVariantMade
<1>4. DOMAIN items \subseteq 1 .. n /\ \A k \in DOMAIN items : items[k] = v.items[k]
    <2>1. items = IF v.kind = "array" THEN v.items ELSE <<>>
        BY Zenon DEF ItemsOf
    <2> HIDE DEF items
    <2>2. DOMAIN <<>> = {}
        OBVIOUS
    <2> QED
        BY Zenon, <2>1, <2>2
<1>5. v.kind = "array" => items = v.items
    BY DEF ItemsOf
<1> HIDE DEF items
<1>6. values \in Seq(Messages[m])
    <2>1. values = [k \in 1 .. c |->
                        IF k \in DOMAIN items THEN f[<<"value", items[k], StructFields(type)[k]>>]
                        ELSE NoVariant]
        BY Zenon, <1>2
    <2>2. ASSUME NEW k \in 1 .. c PROVE values[k] \in Messages[m]
        <3>1. StructFields(type)[k] \in Seq(Chars)
            BY <1>2
        <3>2. CASE k \in DOMAIN items
            <4>1. k \in 1 .. n /\ items[k] = v.items[k]
                BY <1>4, <3>2
            <4>2. values[k] = f[<<"value", v.items[k], StructFields(type)[k]>>]
                BY <2>1, <3>2, <4>1
            <4> QED
                BY Zenon, <3>1, <4>1, <4>2
        <3>3. CASE k \notin DOMAIN items
            <4>1. values[k] = NoVariant
                BY <2>1, <3>3
            <4> QED
                BY Zenon, <1>3, <4>1
        <3> QED
            BY <3>2, <3>3
    <2> HIDE DEF values
    <2>3. values \in [1 .. c -> Messages[m]]
        BY <2>1, <2>2
    <2> QED
        BY <2>3
<1>7. v.kind = "array" /\ c = n => values = [k \in 1 .. n |-> f[<<"value", v.items[k], StructFields(type)[k]>>]]
    BY <1>2, <1>5
<1> HIDE DEF values
<1>8. Made(Contents(type, values), l, type, values, "none")
    BY <1>6, ContentsMade
<1> QED
    BY Zenon, <1>1, <1>2, <1>7, <1>8 DEF Made

\* The branches of pass 2 together.
LEMMA BuildValueMade ==
    ASSUME NEW o, NEW v, NEW m, NEW h, NEW n, NEW l, NEW f, NEW type,
           BuildGiven(o, v, m, h, n, l, f, type)
    PROVE  IsBuilt(BuildValue(f, v, type), l, m, n, v, type, f)
<1> DEFINE w == BuildValue(f, v, type)
<1>1. OfKind(type) /\ type \in Seq(Chars) /\ IsSingleCompleteType(type) /\ l \in Nat
    BY KindOfType DEF BuildGiven
<1>2. w = IF IsBasic(type) THEN BasicValue(v, type[1])
          ELSE IF type = <<"v">> THEN InVariant(f[<<"variant", v, <<>>>>])
          ELSE IF IsDict(type) THEN BuildMap(f, v, type)
          ELSE IF type[1] = "a" THEN BuildArray(f, v, type)
          ELSE BuildStruct(f, v, type)
    BY Zenon, <1>1 DEF BuildValue
<1> HIDE DEF w
<1>3. CASE IsBasic(type) /\ type # <<"v">> /\ ~IsDict(type) /\ ~IsList(type) /\ ~IsStruct(type) /\ type[1] \in Basic
    <2>1. type[1] \in Chars
        BY <1>3, CharsAre
    <2>2. w = BasicValue(v, type[1])
        BY Zenon, <1>2, <1>3
    <2>3. BasicValue(v, type[1]) \in Messages[l]
        BY <1>1, <2>1, BasicMade
    <2> QED
        BY Zenon, <1>3, <2>2, <2>3 DEF IsBuilt, w
<1>4. CASE type = <<"v">> /\ ~IsBasic(type) /\ ~IsDict(type) /\ ~IsList(type) /\ ~IsStruct(type)
    <2>1. w = InVariant(f[<<"variant", v, <<>>>>])
        BY Zenon, <1>2, <1>4
    <2>2. PICK u : u = f[<<"variant", v, <<>>>>]
        OBVIOUS
    <2>3. h \in Nat /\ h + 1 <= l /\ u \in Messages[h]
        BY Zenon, <2>2 DEF BuildGiven
    <2>4. Made(InVariant(u), l, <<"v">>, <<u>>, "none")
        BY <1>1, <2>3, VariantMade
    <2> QED
        BY Zenon, <1>4, <2>1, <2>2, <2>4 DEF IsBuilt, Made, w
<1>5. CASE /\ IsDict(type) /\ DictKey(type) \in Basic /\ Inside(DictValue(type), type, 2)
           /\ ~IsBasic(type) /\ type # <<"v">> /\ ~IsList(type) /\ ~IsStruct(type)
    <2>1. w = BuildMap(f, v, type)
        BY Zenon, <1>2, <1>5
    <2>2. DictValue(type) \in Seq(Chars)
        BY Zenon, <1>5 DEF Inside
    <2>3. MapFits(BuildMap(f, v, type), l, m, n, v, type, f)
        <3>1. DictKey(type) \in Basic /\ IsDict(type)
            BY Zenon, <1>5
        <3> QED
            BY <2>2, <3>1, MapBuilt
    <2> QED
        BY Zenon, <1>5, <2>1, <2>3 DEF IsBuilt, MapFits, w
<1>6. CASE /\ IsList(type) /\ type[1] = "a" /\ Inside(Tail(type), type, 1)
           /\ ~IsBasic(type) /\ type # <<"v">> /\ ~IsDict(type) /\ ~IsStruct(type)
    <2>1. w = BuildArray(f, v, type)
        BY Zenon, <1>2, <1>6
    <2>2. Tail(type) \in Seq(Chars)
        BY Zenon, <1>6 DEF Inside
    <2>3. /\ BuildArray(f, v, type) \in Messages[l]
          /\ v.kind = "array" =>
                Made(BuildArray(f, v, type), l, type,
                     [k \in 1 .. n |-> f[<<"value", v.items[k], Tail(type)>>]], "none")
        BY Zenon, <1>6, <2>2, ListBuilt
    <2> QED
        BY Zenon, <1>6, <2>1, <2>3 DEF IsBuilt, w
<1>7. CASE /\ IsStruct(type) /\ type[1] # "a" /\ StructFields(type) \in Seq(Seq(Chars))
           /\ ~IsBasic(type) /\ type # <<"v">> /\ ~IsDict(type) /\ ~IsList(type)
    <2>1. w = BuildStruct(f, v, type)
        BY Zenon, <1>2, <1>7
    <2>2. /\ BuildStruct(f, v, type) \in Messages[l]
          /\ v.kind = "array" /\ Len(StructFields(type)) = n =>
                Made(BuildStruct(f, v, type), l, type,
                     [k \in 1 .. n |-> f[<<"value", v.items[k], StructFields(type)[k]>>]], "none")
        BY Zenon, <1>7, StructBuilt
    <2> QED
        BY Zenon, <1>7, <2>1, <2>2 DEF IsBuilt, w
<1> QED
    BY Zenon, <1>1, <1>3, <1>4, <1>5, <1>6, <1>7 DEF OfKind

\* One step of Build, over what f says of the smaller values.
BuildOf(f, x) == IF x[1] = "value" THEN BuildValue(f, x[2], x[3]) ELSE VariantContent(f, x[2])

\* What is built of v depends on what is built of its items, and of it as a variant.
LEMMA BuildValueLocal ==
    ASSUME NEW v, NEW type \in Seq(Chars), NEW g, NEW h,
           \A k \in DOMAIN v.items : \A t \in Seq(Chars) :
                g[<<"value", v.items[k], t>>] = h[<<"value", v.items[k], t>>],
           g[<<"variant", v, <<>>>>] = h[<<"variant", v, <<>>>>]
    PROVE  BuildValue(g, v, type) = BuildValue(h, v, type)
<1>1. CASE ~IsSingleCompleteType(type)
    BY Zenon, <1>1 DEF BuildValue
<1>2. CASE IsSingleCompleteType(type)
    <2>0. OfKind(type)
        BY Zenon, <1>2, KindOfType
    <2>i. \A kind : \A k \in DOMAIN ItemsOf(v, kind) : \A t \in Seq(Chars) :
            g[<<"value", ItemsOf(v, kind)[k], t>>] = h[<<"value", ItemsOf(v, kind)[k], t>>]
        <3> SUFFICES ASSUME NEW kind, NEW k \in DOMAIN ItemsOf(v, kind), NEW t \in Seq(Chars)
                     PROVE  g[<<"value", ItemsOf(v, kind)[k], t>>] = h[<<"value", ItemsOf(v, kind)[k], t>>]
            OBVIOUS
        <3>1. ItemsOf(v, kind) = v.items \/ ItemsOf(v, kind) = <<>>
            BY DEF ItemsOf
        <3>2. DOMAIN <<>> = {}
            OBVIOUS
        <3> QED
            BY Zenon, <3>1, <3>2
    <2>1. CASE IsBasic(type)
        BY Zenon, <1>2, <2>1 DEF BuildValue
    <2>2. CASE ~IsBasic(type) /\ type = <<"v">>
        BY Zenon, <1>2, <2>2 DEF BuildValue
    <2>3. CASE ~IsBasic(type) /\ type # <<"v">> /\ IsDict(type) /\ Inside(DictValue(type), type, 2)
        <3>1. DictValue(type) \in Seq(Chars)
            BY Zenon, <2>3 DEF Inside
        <3>2. [n \in DOMAIN ItemsOf(v, "object") |-> g[<<"value", ItemsOf(v, "object")[n], DictValue(type)>>]]
                = [n \in DOMAIN ItemsOf(v, "object") |-> h[<<"value", ItemsOf(v, "object")[n], DictValue(type)>>]]
            BY Zenon, <2>i, <3>1
        <3>3. BuildMap(g, v, type) = BuildMap(h, v, type)
            BY Zenon, <3>2 DEF BuildMap
        <3> QED
            BY Zenon, <1>2, <2>3, <3>3 DEF BuildValue
    <2>4. CASE ~IsBasic(type) /\ type # <<"v">> /\ ~IsDict(type) /\ type[1] = "a" /\ Inside(Tail(type), type, 1)
        <3>1. Tail(type) \in Seq(Chars)
            BY Zenon, <2>4 DEF Inside
        <3>2. [n \in DOMAIN ItemsOf(v, "array") |-> g[<<"value", ItemsOf(v, "array")[n], Tail(type)>>]]
                = [n \in DOMAIN ItemsOf(v, "array") |-> h[<<"value", ItemsOf(v, "array")[n], Tail(type)>>]]
            BY Zenon, <2>i, <3>1
        <3>3. BuildArray(g, v, type) = BuildArray(h, v, type)
            BY Zenon, <3>2 DEF BuildArray
        <3> QED
            BY Zenon, <1>2, <2>4, <3>3 DEF BuildValue
    <2>5. CASE ~IsBasic(type) /\ type # <<"v">> /\ ~IsDict(type) /\ type[1] # "a"
               /\ StructFields(type) \in Seq(Seq(Chars))
        <3>1. \A k \in DOMAIN StructFields(type) : StructFields(type)[k] \in Seq(Chars)
            BY <2>5
        <3>2. [n \in DOMAIN StructFields(type) |->
                    IF n \in DOMAIN ItemsOf(v, "array")
                    THEN g[<<"value", ItemsOf(v, "array")[n], StructFields(type)[n]>>] ELSE NoVariant]
                = [n \in DOMAIN StructFields(type) |->
                    IF n \in DOMAIN ItemsOf(v, "array")
                    THEN h[<<"value", ItemsOf(v, "array")[n], StructFields(type)[n]>>] ELSE NoVariant]
            BY Zenon, <2>i, <3>1
        <3>3. BuildStruct(g, v, type) = BuildStruct(h, v, type)
            BY Zenon, <3>2 DEF BuildStruct
        <3> QED
            BY Zenon, <1>2, <2>5, <3>3 DEF BuildValue
    <2> QED
        BY Zenon, <2>0, <2>1, <2>2, <2>3, <2>4, <2>5 DEF OfKind
<1> QED
    BY <1>1, <1>2

\* VariantContent() looks at the items, or at the value next to a declared
\* type, only.
LEMMA VariantContentLocal ==
    ASSUME NEW v, NEW g, NEW h,
           \A k \in DOMAIN v.items : g[<<"variant", v.items[k], <<>>>>] = h[<<"variant", v.items[k], <<>>>>],
           IsTyped(v) => g[<<"value", Inner(v), NamedType(v)>>] = h[<<"value", Inner(v), NamedType(v)>>]
    PROVE  VariantContent(g, v) = VariantContent(h, v)
<1>1. [n \in DOMAIN v.items |-> InVariant(g[<<"variant", v.items[n], <<>>>>])]
        = [n \in DOMAIN v.items |-> InVariant(h[<<"variant", v.items[n], <<>>>>])]
    BY Zenon
<1> QED
    BY Zenon, <1>1 DEF VariantContent

\* What is checked and built is smaller inside.
Larger(x) == 2 * Height(Values, x[2]) + (IF x[1] = "value" THEN 1 ELSE 0)

\* The rank by which Build and Check are recursive: an item or a value next to
\* a type is smaller, and a variant is smaller than the value that is put in
\* it.
LEMMA LargerFacts ==
    ASSUME NEW v \in JSON
    PROVE  /\ \A r : /\ Larger(<<"value", v, r>>) \in Nat /\ Larger(<<"variant", v, r>>) \in Nat
                     /\ \A q : Larger(<<"variant", v, r>>) < Larger(<<"value", v, q>>)
           /\ \A k \in DOMAIN v.items : \A r, q :
                /\ Larger(<<"value", v.items[k], r>>) < Larger(<<"value", v, q>>)
                /\ Larger(<<"value", v.items[k], r>>) < Larger(<<"variant", v, q>>)
                /\ Larger(<<"variant", v.items[k], r>>) < Larger(<<"variant", v, q>>)
           /\ IsTyped(v) => \A r, q : Larger(<<"value", Inner(v), r>>) < Larger(<<"variant", v, q>>)
<1>1. PICK a \in Nat : a = Height(Values, v)
    BY JsonFacts
<1>2. \A u, r : /\ Larger(<<"value", u, r>>) = 2 * Height(Values, u) + 1
                /\ Larger(<<"variant", u, r>>) = 2 * Height(Values, u) + 0
    BY DEF Larger
<1>3. \A k \in DOMAIN v.items : \E b \in Nat : b = Height(Values, v.items[k]) /\ b < a
    BY <1>1, JsonFacts
<1>4. IsTyped(v) => \E b \in Nat : b = Height(Values, Inner(v)) /\ b < a
    BY <1>1, JsonFacts
<1>5. \A b \in Nat : b < a => 2 * b + 1 < 2 * a + 1 /\ 2 * b + 1 < 2 * a + 0 /\ 2 * b + 0 < 2 * a + 0
    BY <1>1
<1>6. 2 * a + 1 \in Nat /\ 2 * a + 0 \in Nat /\ 2 * a + 0 < 2 * a + 1
    BY <1>1
<1> QED
    BY Zenon, <1>1, <1>2, <1>3, <1>4, <1>5, <1>6

\* Level by level, what is built is defined.
BuildsOn(f, n) ==
    \A v \in Values[n] : \A type \in Seq(Chars) :
        /\ f[<<"variant", v, type>>] = VariantContent(f, v)
        /\ f[<<"variant", v, type>>] \in Messages[3 * n]
        /\ f[<<"value", v, type>>] = BuildValue(f, v, type)
        /\ f[<<"value", v, type>>] \in Messages[3 * n + 1]

\* What the items of v are made into, below what v is.
LEMMA BuildSteps ==
    ASSUME NEW f, NEW n \in Nat, n <= MaxWraps, n = 0 \/ BuildsOn(f, n - 1), NEW v \in Values[n]
    PROVE  /\ v \in JSON
           /\ \E c \in Nat, m \in Nat, p \in Nat, l \in Nat :
                /\ c = Len(v.items) /\ DOMAIN v.items = 1 .. c /\ l = 3 * n
                /\ c = 0 \/ (m + 3 <= l /\ p + 2 <= l + 1)
                /\ p + 1 <= l + 1 /\ (c = 0 \/ p <= l)
                /\ \A k \in 1 .. c : f[<<"variant", v.items[k], <<>>>>] \in Messages[m]
                /\ \A k \in 1 .. c : \A t \in Seq(Chars) : f[<<"value", v.items[k], t>>] \in Messages[p]
                /\ IsTyped(v) => f[<<"value", Inner(v), NamedType(v)>>] \in Messages[l]
<1>1. /\ v.items \in Seq(Values[n])
      /\ v.items # <<>> => n > 0 /\ v.items \in Seq(Values[n - 1])
      /\ IsTyped(v) => /\ v.items # <<>> /\ 2 \in DOMAIN v.items
                       /\ NamedType(v) \in Seq(Chars) /\ Inner(v) = v.items[2]
    BY Zenon, ValueFacts
<1>2. PICK c \in Nat : c = Len(v.items) /\ DOMAIN v.items = 1 .. c
    BY <1>1
<1>3. v \in JSON
    BY JsonLevels
<1>4. PICK l \in Nat : l = 3 * n
    OBVIOUS
<1>5. CASE v.items = <<>>
    <2>1. c = 0 /\ 1 .. c = {} /\ 0 \in Nat /\ 0 + 1 <= l + 1
        BY <1>1, <1>2, <1>5
    <2>2. ~IsTyped(v)
        BY Zenon, <1>1, <1>5
    <2>3. \A k : k \notin 1 .. c
        BY Zenon, <2>1
    <2>4. \E m \in Nat, p \in Nat :
                /\ c = 0 \/ (m + 3 <= l /\ p + 2 <= l + 1)
                /\ p + 1 <= l + 1 /\ (c = 0 \/ p <= l)
                /\ \A k \in 1 .. c : f[<<"variant", v.items[k], <<>>>>] \in Messages[m]
                /\ \A k \in 1 .. c : \A t \in Seq(Chars) : f[<<"value", v.items[k], t>>] \in Messages[p]
                /\ IsTyped(v) => f[<<"value", Inner(v), NamedType(v)>>] \in Messages[l]
        <3> WITNESS 0 \in Nat, 0 \in Nat
        <3> QED
            BY Zenon, <2>1, <2>2, <2>3
    <2> QED
        BY Zenon, <1>2, <1>3, <1>4, <2>4
<1>6. CASE v.items # <<>>
    <2>1. n > 0 /\ v.items \in Seq(Values[n - 1]) /\ n # 0
        <3>1. n > 0 /\ v.items \in Seq(Values[n - 1])
            BY Zenon, <1>1, <1>6
        <3> QED
            BY <3>1
    <2>2. BuildsOn(f, n - 1)
        BY Zenon, <2>1
    <2>3. PICK m \in Nat, p \in Nat : m = 3 * (n - 1) /\ p = 3 * (n - 1) + 1 /\ m + 3 <= l /\ p + 2 <= l + 1
                                        /\ p + 1 <= l + 1 /\ p <= l
        <3>1. /\ 3 * (n - 1) \in Nat /\ 3 * (n - 1) + 1 \in Nat /\ 3 * (n - 1) + 3 <= l
              /\ 3 * (n - 1) + 1 + 2 <= l + 1 /\ 3 * (n - 1) + 1 + 1 <= l + 1 /\ 3 * (n - 1) + 1 <= l
            BY <1>4, <2>1
        <3> QED
            BY Zenon, <3>1
    <2>4. ASSUME NEW k \in 1 .. c PROVE v.items[k] \in Values[n - 1]
        BY <1>2, <2>1
    <2>5. \A k \in 1 .. c : f[<<"variant", v.items[k], <<>>>>] \in Messages[m]
        <3>1. <<>> \in Seq(Chars)
            OBVIOUS
        <3> QED
            BY Zenon, <2>2, <2>3, <2>4, <3>1 DEF BuildsOn
    <2>6. \A k \in 1 .. c : \A t \in Seq(Chars) : f[<<"value", v.items[k], t>>] \in Messages[p]
        BY Zenon, <2>2, <2>3, <2>4 DEF BuildsOn
    <2>7. IsTyped(v) => f[<<"value", Inner(v), NamedType(v)>>] \in Messages[l]
        <3>1. IsTyped(v) => f[<<"value", Inner(v), NamedType(v)>>] \in Messages[p]
            BY Zenon, <1>1, <1>2, <2>6
        <3>2. Messages[p] \subseteq Messages[l]
            BY <2>3, MessagesLevelled, LevelUp
        <3> QED
            BY <3>1, <3>2
    <2> QED
        BY Zenon, <1>2, <1>3, <1>4, <2>3, <2>5, <2>6, <2>7
<1> QED
    BY <1>5, <1>6

\* Induction from what comes before.
LEMMA Climb ==
    ASSUME NEW Q \in SUBSET Nat, \A n \in Nat : n = 0 \/ n - 1 \in Q => n \in Q
    PROVE  Q = Nat
<1>1. 0 \in Q
    OBVIOUS
<1>2. ASSUME NEW n \in Q PROVE n + 1 \in Q
    <2>1. PICK m \in Nat : m = n + 1 /\ m - 1 = n
        OBVIOUS
    <2> QED
        BY <2>1
<1> QED
    BY <1>1, <1>2, SetInduction

\* What is built of v, when its items are on the levels below.
LEMMA BuildStep ==
    ASSUME NEW f, NEW n \in Nat, n <= MaxWraps, n = 0 \/ BuildsOn(f, n - 1), NEW v \in Values[n]
    PROVE  /\ v \in JSON
           /\ \E c \in Nat, m \in Nat, p \in Nat, l \in Nat :
                /\ c = Len(v.items) /\ DOMAIN v.items = 1 .. c /\ l = 3 * n
                /\ IsHeld(VariantContent(f, v), l, m, c, v, f)
                /\ f[<<"variant", v, <<>>>>] \in Messages[l] =>
                    \A type \in Seq(Chars) : IsSingleCompleteType(type) =>
                        IsBuilt(BuildValue(f, v, type), l + 1, p, c, v, type, f)
<1>1. /\ v \in JSON
      /\ \E c \in Nat, m \in Nat, p \in Nat, l \in Nat :
            /\ c = Len(v.items) /\ DOMAIN v.items = 1 .. c /\ l = 3 * n
            /\ c = 0 \/ (m + 3 <= l /\ p + 2 <= l + 1)
            /\ p + 1 <= l + 1 /\ (c = 0 \/ p <= l)
            /\ \A k \in 1 .. c : f[<<"variant", v.items[k], <<>>>>] \in Messages[m]
            /\ \A k \in 1 .. c : \A t \in Seq(Chars) : f[<<"value", v.items[k], t>>] \in Messages[p]
            /\ IsTyped(v) => f[<<"value", Inner(v), NamedType(v)>>] \in Messages[l]
    BY Zenon, BuildSteps
<1>2. PICK c \in Nat, m \in Nat, p \in Nat, l \in Nat :
            /\ c = Len(v.items) /\ DOMAIN v.items = 1 .. c /\ l = 3 * n
            /\ c = 0 \/ (m + 3 <= l /\ p + 2 <= l + 1)
            /\ p + 1 <= l + 1 /\ (c = 0 \/ p <= l)
            /\ \A k \in 1 .. c : f[<<"variant", v.items[k], <<>>>>] \in Messages[m]
            /\ \A k \in 1 .. c : \A t \in Seq(Chars) : f[<<"value", v.items[k], t>>] \in Messages[p]
            /\ IsTyped(v) => f[<<"value", Inner(v), NamedType(v)>>] \in Messages[l]
    BY Zenon, <1>1
<1>3. IsHeld(VariantContent(f, v), l, m, c, v, f)
    BY Zenon, <1>1, <1>2, VariantContentMade
<1>4. ASSUME f[<<"variant", v, <<>>>>] \in Messages[l], NEW type \in Seq(Chars), IsSingleCompleteType(type)
      PROVE  IsBuilt(BuildValue(f, v, type), l + 1, p, c, v, type, f)
    <2>1. l + 1 \in Nat /\ l + 1 <= l + 1
        OBVIOUS
    <2>2. BuildGiven(n, v, p, l, c, l + 1, f, type)
        BY Zenon, <1>2, <1>4, <2>1 DEF BuildGiven
    <2> QED
        BY Zenon, <2>2, BuildValueMade
<1> QED
    BY Zenon, <1>1, <1>2, <1>3, <1>4

\* Level by level, what is built is defined.
LEMMA BuildLevels ==
    ASSUME NEW f, \A x \in Builds : BuildOf(f, x) \in Wire => f[x] = BuildOf(f, x)
    PROVE  \A n \in Nat : n <= MaxWraps => BuildsOn(f, n)
<1> DEFINE Q == {n \in Nat : n <= MaxWraps => BuildsOn(f, n)}
<1>1. ASSUME NEW n \in Nat, n = 0 \/ n - 1 \in Q PROVE n \in Q
    <2> SUFFICES ASSUME n <= MaxWraps, NEW v \in Values[n], NEW type \in Seq(Chars)
                 PROVE  /\ f[<<"variant", v, type>>] = VariantContent(f, v)
                        /\ f[<<"variant", v, type>>] \in Messages[3 * n]
                        /\ f[<<"value", v, type>>] = BuildValue(f, v, type)
                        /\ f[<<"value", v, type>>] \in Messages[3 * n + 1]
        BY DEF BuildsOn
    <2>1. n = 0 \/ BuildsOn(f, n - 1)
        <3>1. n # 0 => n - 1 <= MaxWraps
            BY JsonLevels
        <3> QED
            BY <1>1, <3>1
    <2>2. v \in JSON
        BY Zenon, <2>1, BuildStep
    <2>3. PICK c \in Nat, m \in Nat, p \in Nat, l \in Nat :
                /\ l = 3 * n
                /\ IsHeld(VariantContent(f, v), l, m, c, v, f)
                /\ f[<<"variant", v, <<>>>>] \in Messages[l] =>
                    \A t \in Seq(Chars) : IsSingleCompleteType(t) =>
                        IsBuilt(BuildValue(f, v, t), l + 1, p, c, v, t, f)
        BY Zenon, <2>1, BuildStep
    <2>4. l + 1 \in Nat /\ Messages[l] \subseteq Wire /\ Messages[l + 1] \subseteq Wire
        BY Zenon, <2>3, JsonLevels
    <2>5. VariantContent(f, v) \in Messages[l]
        BY Zenon, <2>3 DEF IsHeld
    <2>6. VariantContent(f, v) \in Wire
        BY <2>4, <2>5
    <2>7. \A t \in Seq(Chars) : f[<<"variant", v, t>>] = VariantContent(f, v)
        <3> SUFFICES ASSUME NEW t \in Seq(Chars) PROVE f[<<"variant", v, t>>] = VariantContent(f, v)
            OBVIOUS
        <3>1. <<"variant", v, t>> \in Builds
            BY <2>2 DEF Builds
        <3>2. BuildOf(f, <<"variant", v, t>>) = VariantContent(f, v)
            BY DEF BuildOf
        <3> QED
            BY Zenon, <2>6, <3>1, <3>2
    <2>8. BuildValue(f, v, type) \in Messages[l + 1]
        <3>1. CASE IsSingleCompleteType(type)
            <4>1. f[<<"variant", v, <<>>>>] \in Messages[l]
                BY Zenon, <2>5, <2>7, CharsAre
            <4>2. IsBuilt(BuildValue(f, v, type), l + 1, p, c, v, type, f)
                BY Zenon, <2>3, <3>1, <4>1
            <4> QED
                BY Zenon, <4>2 DEF IsBuilt
        <3>2. CASE ~IsSingleCompleteType(type)
            <4>1. BuildValue(f, v, type) = NoVariant
                BY Zenon, <3>2 DEF BuildValue
            <4> QED
                BY Zenon, <2>4, <4>1, NoVariantMade
        <3> QED
            BY <3>1, <3>2
    <2>9. f[<<"value", v, type>>] = BuildValue(f, v, type)
        <3>1. <<"value", v, type>> \in Builds
            BY <2>2 DEF Builds
        <3>2. BuildOf(f, <<"value", v, type>>) = BuildValue(f, v, type)
            BY DEF BuildOf
        <3>3. BuildValue(f, v, type) \in Wire
            BY <2>4, <2>8
        <3> QED
            BY Zenon, <3>1, <3>2, <3>3
    <2> QED
        BY Zenon, <2>3, <2>5, <2>7, <2>8, <2>9
<1>2. Q = Nat
    <2>1. Q \in SUBSET Nat
        OBVIOUS
    <2> HIDE DEF Q
    <2> QED
        BY <1>1, <2>1, Climb
<1> QED
    BY <1>2

\* What is built is what its definition says.
LEMMA BuildIs ==
    \A n \in Nat : n <= MaxWraps => BuildsOn(Build, n)
<1> DEFINE S == Builds
           T == Wire
           rank == [x \in S |-> Larger(x)]
           F == [p \in S \X [S -> T] |->
                    IF BuildOf(p[2], p[1]) \in Wire THEN BuildOf(p[2], p[1]) ELSE NoVariant]
<1>1. NoVariant \in Wire
    <2>1. PICK n \in Nat : n = 3 * MaxWraps + 1
        BY JsonLevels
    <2> QED
        BY Zenon, <2>1, NoVariantMade DEF Wire
<1>b. ASSUME NEW x \in S
      PROVE  \E k \in {"value", "variant"}, v \in JSON, t \in Seq(Chars) : x = <<k, v, t>>
    BY <1>b DEF Builds
<1>2. \A x \in S : \A g, h \in [S -> T] :
        (\A y \in S : rank[y] < rank[x] => g[y] = h[y]) => BuildOf(g, x) = BuildOf(h, x)
    <2> SUFFICES ASSUME NEW x \in S, NEW g \in [S -> T], NEW h \in [S -> T],
                        \A y \in S : rank[y] < rank[x] => g[y] = h[y]
                 PROVE  BuildOf(g, x) = BuildOf(h, x)
        BY Zenon
    <2>1. PICK k \in {"value", "variant"}, v \in JSON, t \in Seq(Chars) : x = <<k, v, t>>
        BY Zenon, <1>b
    <2>2. \A i \in {"value", "variant"}, u \in JSON, s \in Seq(Chars) :
            Larger(<<i, u, s>>) < Larger(<<k, v, t>>) => g[<<i, u, s>>] = h[<<i, u, s>>]
        <3> SUFFICES ASSUME NEW i \in {"value", "variant"}, NEW u \in JSON, NEW s \in Seq(Chars),
                            Larger(<<i, u, s>>) < Larger(<<k, v, t>>)
                     PROVE  g[<<i, u, s>>] = h[<<i, u, s>>]
            OBVIOUS
        <3>1. <<i, u, s>> \in S /\ x \in S
            BY DEF Builds
        <3>2. rank[<<i, u, s>>] = Larger(<<i, u, s>>) /\ rank[x] = Larger(<<k, v, t>>)
            BY Zenon, <2>1, <3>1
        <3> QED
            BY Zenon, <3>1, <3>2
    <2>3. <<>> \in Seq(Chars)
        OBVIOUS
    <2>4. CASE k = "value"
        <3>1. \A n \in DOMAIN v.items : \A s \in Seq(Chars) :
                g[<<"value", v.items[n], s>>] = h[<<"value", v.items[n], s>>]
            BY Zenon, <2>2, <2>4, LargerFacts, JsonFacts
        <3>2. g[<<"variant", v, <<>>>>] = h[<<"variant", v, <<>>>>]
            BY Zenon, <2>2, <2>3, <2>4, LargerFacts
        <3>3. BuildValue(g, v, t) = BuildValue(h, v, t)
            BY Zenon, <3>1, <3>2, BuildValueLocal
        <3>4. x[1] = "value" /\ x[2] = v /\ x[3] = t
            BY <2>1, <2>4
        <3> QED
            BY Zenon, <3>3, <3>4 DEF BuildOf
    <2>5. CASE k = "variant"
        <3>1. \A n \in DOMAIN v.items :
                g[<<"variant", v.items[n], <<>>>>] = h[<<"variant", v.items[n], <<>>>>]
            BY Zenon, <2>2, <2>3, <2>5, LargerFacts, JsonFacts
        <3>2. IsTyped(v) => g[<<"value", Inner(v), NamedType(v)>>] = h[<<"value", Inner(v), NamedType(v)>>]
            BY Zenon, <2>2, <2>5, LargerFacts, JsonFacts
        <3>3. VariantContent(g, v) = VariantContent(h, v)
            BY Zenon, <3>1, <3>2, VariantContentLocal
        <3>4. x[1] # "value" /\ x[2] = v
            BY <2>1, <2>5
        <3> QED
            BY Zenon, <3>3, <3>4 DEF BuildOf
    <2> QED
        BY <2>4, <2>5
<1>3. rank \in [S -> Nat]
    <2>1. ASSUME NEW x \in S PROVE Larger(x) \in Nat
        <3>1. PICK k \in {"value", "variant"}, v \in JSON, t \in Seq(Chars) : x = <<k, v, t>>
            BY Zenon, <1>b
        <3>2. k = "value" \/ k = "variant"
            OBVIOUS
        <3> QED
            BY Zenon, <3>1, <3>2, LargerFacts
    <2> QED
        BY <2>1
<1>4. F \in [S \X [S -> T] -> T]
    BY <1>1
<1>5. \A x \in S, g \in [S -> T] :
        F[<<x, g>>] = IF BuildOf(g, x) \in Wire THEN BuildOf(g, x) ELSE NoVariant
    OBVIOUS
<1>6. IsRecursion(S, T, rank, F)
    <2>1. T # {}
        BY <1>1
    <2> HIDE DEF S, T, rank, F
    <2>2. \A x \in S : \A g, h \in [S -> T] :
            (\A y \in S : rank[y] < rank[x] => g[y] = h[y]) => F[<<x, g>>] = F[<<x, h>>]
        BY <1>2, <1>5
    <2> QED
        BY Zenon, <1>3, <1>4, <2>1, <2>2 DEF IsRecursion
<1> HIDE DEF rank, F
<1>7. PICK f \in [S -> T] : \A x \in S : f[x] = F[<<x, f>>]
    <2> HIDE DEF S, T
    <2> QED
        BY <1>6, RecursionExists
<1>8. \A x \in Builds : BuildOf(f, x) \in Wire => f[x] = BuildOf(f, x)
    BY <1>5, <1>7
<1>9. \A x \in Builds : f[x] = BuildOf(f, x)
    <2>1. BuildsOn(f, MaxWraps)
        <3>1. MaxWraps \in Nat /\ MaxWraps <= MaxWraps
            BY JsonLevels
        <3> QED
            BY Zenon, <1>8, <3>1, BuildLevels
    <2> SUFFICES ASSUME NEW x \in S PROVE f[x] = BuildOf(f, x)
        OBVIOUS
    <2>2. PICK k \in {"value", "variant"}, v \in JSON, t \in Seq(Chars) : x = <<k, v, t>>
        BY Zenon, <1>b
    <2>3. x[1] = k /\ x[2] = v /\ x[3] = t
        BY <2>2
    <2>4. v \in Values[MaxWraps]
        BY Zenon, JsonLevels
    <2>5. "variant" # "value"
        OBVIOUS
    <2> QED
        BY Zenon, <2>1, <2>2, <2>3, <2>4, <2>5 DEF BuildsOn, BuildOf
<1>10. f = [x \in Builds |-> BuildOf(f, x)]
    <2>1. f = [x \in Builds |-> f[x]]
        BY <1>7
    <2> QED
        BY Zenon, <1>9, <2>1
<1>11. Build = CHOOSE g : g = [x \in Builds |-> BuildOf(g, x)]
    BY DEF Build, BuildOf
<1>12. Build = [x \in Builds |-> BuildOf(Build, x)]
    BY Zenon, <1>10, <1>11
<1>13. \A x \in Builds : Build[x] = BuildOf(Build, x)
    BY <1>12
<1> QED
    BY Zenon, <1>13, BuildLevels

-----------------------------------------------------------------------------
(* What is checked. *)

\* What pass 1 may answer.
Verdicts == {"fine", "type", "depth"}

\* r is the first problem among n, or there is none.
IsFirst(r, problems, n) ==
    \/ r = "fine" /\ \A k \in 1 .. n : problems[k] = "fine"
    \/ r # "fine" /\ \E k \in 1 .. n : problems[k] = r

\* FirstProblem is the first verdict that is not fine.
LEMMA FirstIs ==
    ASSUME NEW p, NEW n \in Nat, DOMAIN p = 1 .. n
    PROVE  IsFirst(FirstProblem(p), p, n)
<1>1. CASE \A k \in 1 .. n : p[k] = "fine"
    BY Zenon, <1>1 DEF FirstProblem, IsFirst
<1>2. CASE \E k \in 1 .. n : p[k] # "fine"
    <2> DEFINE S == {k \in DOMAIN p : p[k] # "fine"}
    <2>1. S \in SUBSET Nat /\ S # {}
        BY <1>2
    <2>2. PICK m \in S : \A k \in S : m <= k
        BY <2>1, LeastElement
    <2>3. Min(S) \in S
        <3> HIDE DEF S
        <3> QED
            BY <2>2 DEF Min
    <2>4. FirstProblem(p) = p[Min(S)]
        BY Zenon, <1>2 DEF FirstProblem
    <2>5. Min(S) \in 1 .. n /\ p[Min(S)] # "fine"
        BY <2>3
    <2> QED
        BY Zenon, <2>4, <2>5 DEF IsFirst
<1> QED
    BY <1>1, <1>2

\* The types that are checked inside types.
LEMMA InnerTypes ==
    /\ ElementTypes \subseteq Seq(Chars)
    /\ \A s \in Seq(Chars) : StructFields(s) \in Seq(Seq(Chars))
    /\ \A s \in Seq(Chars) : \A k \in DOMAIN StructFields(s) : StructFields(s)[k] \in Seq(Chars)
<1>1. {"s", "i", "v", "a", "(", ")", "{", "}"} \subseteq Chars
    BY CharsAre
<1>2. AnyMap \in Seq(Chars)
    BY CharsAre
<1>c. \A S : /\ \A x \in S : <<x>> \in Seq(S)
             /\ \A x, y \in S : <<x, y>> \in Seq(S)
             /\ \A x, y, z \in S : <<x, y, z>> \in Seq(S)
             /\ \A x, y, z, a \in S : <<x, y, z, a>> \in Seq(S)
             /\ \A p, q \in Seq(S) : p \o q \in Seq(S)
    OBVIOUS
<1>d. \A S : \A x, y, z, a, b \in S : <<x, y, z, a, b>> \in Seq(S)
    OBVIOUS
<1>e. /\ "s" \in Chars /\ "i" \in Chars /\ "v" \in Chars /\ "a" \in Chars /\ "(" \in Chars
      /\ ")" \in Chars /\ "{" \in Chars /\ "}" \in Chars
    BY <1>1
<1>3. /\ <<"a", "{", "s">> \in Seq(Chars) /\ <<"}">> \in Seq(Chars) /\ <<"a">> \in Seq(Chars)
    BY Zenon, <1>c, <1>e
<1>4. <<"a">> \o AnyMap \in Seq(Chars) /\ <<"a", "{", "s">> \o AnyMap \o <<"}">> \in Seq(Chars)
    BY Zenon, <1>2, <1>3, <1>c
<1>5. /\ <<"s">> \in Seq(Chars) /\ <<"i">> \in Seq(Chars) /\ <<"v">> \in Seq(Chars)
      /\ <<"a", "s">> \in Seq(Chars) /\ <<"a", "i">> \in Seq(Chars) /\ <<"a", "v">> \in Seq(Chars)
    BY Zenon, <1>c, <1>e
<1>6. /\ <<"a", "{", "s", "s", "}">> \in Seq(Chars)
      /\ <<"a", "a", "s">> \in Seq(Chars) /\ <<"a", "a", "i">> \in Seq(Chars)
    BY Zenon, <1>c, <1>d, <1>e
<1>7. /\ <<"(", "s", "i", ")">> \in Seq(Chars) /\ <<"(", "s", "s", ")">> \in Seq(Chars)
      /\ <<"(", "i", "i", ")">> \in Seq(Chars) /\ <<"(", "a", "i", ")">> \in Seq(Chars)
    BY Zenon, <1>c, <1>e
<1>8. ElementTypes \subseteq Seq(Chars)
    BY Zenon, <1>2, <1>4, <1>5, <1>6, <1>7 DEF ElementTypes
<1>9. ASSUME NEW s \in Seq(Chars) PROVE StructFields(s) \in Seq(Seq(Chars))
    <2>1. SubSeq(s, 2, Len(s) - 1) \in Seq(Chars)
        OBVIOUS
    <2> QED
        BY <2>1, SplitTyped DEF StructFields
<1>10. ASSUME NEW s \in Seq(Chars), NEW k \in DOMAIN StructFields(s)
       PROVE  StructFields(s)[k] \in Seq(Chars)
    BY <1>9
<1> QED
    BY <1>8, <1>9, <1>10

\* g and h give the same verdict on x.
Agree(g, h, x) == g[x] = h[x] /\ g[x] \in Verdicts

\* A loop over the items of v.
IsLoop(p, v) == DOMAIN p = DOMAIN v.items /\ p = [k \in DOMAIN v.items |-> p[k]]

\* Loops that agree on each item agree on the first problem.
LEMMA LoopAgrees ==
    ASSUME NEW v \in JSON, NEW p, NEW q, IsLoop(p, v), IsLoop(q, v),
           \A k \in DOMAIN v.items : p[k] = q[k] /\ p[k] \in Verdicts
    PROVE  FirstProblem(p) = FirstProblem(q) /\ FirstProblem(p) \in Verdicts
<1>1. PICK n \in Nat : DOMAIN v.items = 1 .. n
    <2>1. v.items \in Seq(JSON)
        BY JsonFacts
    <2> QED
        BY <2>1
<1>2. p = q
    <2> USE DEF IsLoop
    <2>1. [k \in DOMAIN v.items |-> p[k]] = [k \in DOMAIN v.items |-> q[k]]
        BY Zenon
    <2> QED
        BY Zenon, <2>1
<1>3. IsFirst(FirstProblem(p), p, n)
    BY <1>1, FirstIs DEF IsLoop
<1> QED
    BY Zenon, <1>1, <1>2, <1>3 DEF IsFirst, Verdicts

\* The verdict on v depends on those on its items, and on it as a variant.
LEMMA CheckValueLocal ==
    ASSUME NEW v \in JSON, NEW t \in Seq(Chars), NEW d \in Nat, NEW g, NEW h,
           \A k \in DOMAIN v.items : \A s \in Seq(Chars), e \in Nat :
                Agree(g, h, <<"value", v.items[k], s, e>>),
           \A e \in Nat : Agree(g, h, <<"variant", v, <<>>, e>>)
    PROVE  CheckValue(g, v, t, d) = CheckValue(h, v, t, d) /\ CheckValue(g, v, t, d) \in Verdicts
<1>0. "fine" \in Verdicts /\ "type" \in Verdicts /\ "depth" \in Verdicts
    BY DEF Verdicts
<1>n. d + 1 \in Nat /\ d + 2 \in Nat
    OBVIOUS
<1>1. CheckMap(g, v, t, d) = CheckMap(h, v, t, d) /\ CheckMap(g, v, t, d) \in Verdicts
    <2> DEFINE P(f) == [n \in DOMAIN v.items |->
                            IF ~CoerceBasic(KeyValue(v.keys[n]), DictKey(t)) THEN "type"
                            ELSE f[<<"value", v.items[n], DictValue(t), d + 2>>]]
    <2>1. CASE DictValue(t) \in ElementTypes
        <3>1. DictValue(t) \in Seq(Chars)
            BY <2>1, InnerTypes
        <3>2. \A k \in DOMAIN v.items : Agree(g, h, <<"value", v.items[k], DictValue(t), d + 2>>)
            BY Zenon, <1>n, <3>1
        <3>3. \A k \in DOMAIN v.items : P(g)[k] = P(h)[k] /\ P(g)[k] \in Verdicts
            BY Zenon, <1>0, <3>2 DEF Agree
        <3>4. FirstProblem(P(g)) = FirstProblem(P(h)) /\ FirstProblem(P(g)) \in Verdicts
            <4>1. PICK p, q : p = P(g) /\ q = P(h)
                OBVIOUS
            <4>2. IsLoop(p, v) /\ IsLoop(q, v)
                BY <4>1 DEF IsLoop
            <4>3. \A k \in DOMAIN v.items : p[k] = q[k] /\ p[k] \in Verdicts
                BY Zenon, <3>3, <4>1
            <4>4. FirstProblem(p) = FirstProblem(q) /\ FirstProblem(p) \in Verdicts
                BY Zenon, <4>2, <4>3, LoopAgrees
            <4> QED
                BY Zenon, <4>1, <4>4
        <3> QED
            BY Zenon, <1>0, <3>4 DEF CheckMap
    <2>2. CASE DictValue(t) \notin ElementTypes
        BY Zenon, <1>0, <2>2 DEF CheckMap
    <2> QED
        BY <2>1, <2>2
<1>2. CheckArray(g, v, t, d) = CheckArray(h, v, t, d) /\ CheckArray(g, v, t, d) \in Verdicts
    <2> DEFINE P(f) == [n \in DOMAIN v.items |-> f[<<"value", v.items[n], Tail(t), d + 1>>]]
    <2>1. CASE Tail(t) \in ElementTypes
        <3>1. Tail(t) \in Seq(Chars)
            BY <2>1, InnerTypes
        <3>2. \A k \in DOMAIN v.items : Agree(g, h, <<"value", v.items[k], Tail(t), d + 1>>)
            BY Zenon, <1>n, <3>1
        <3>3. \A k \in DOMAIN v.items : P(g)[k] = P(h)[k] /\ P(g)[k] \in Verdicts
            BY Zenon, <1>0, <3>2 DEF Agree
        <3>4. FirstProblem(P(g)) = FirstProblem(P(h)) /\ FirstProblem(P(g)) \in Verdicts
            <4>1. PICK p, q : p = P(g) /\ q = P(h)
                OBVIOUS
            <4>2. IsLoop(p, v) /\ IsLoop(q, v)
                BY <4>1 DEF IsLoop
            <4>3. \A k \in DOMAIN v.items : p[k] = q[k] /\ p[k] \in Verdicts
                BY Zenon, <3>3, <4>1
            <4>4. FirstProblem(p) = FirstProblem(q) /\ FirstProblem(p) \in Verdicts
                BY Zenon, <4>2, <4>3, LoopAgrees
            <4> QED
                BY Zenon, <4>1, <4>4
        <3> QED
            BY Zenon, <1>0, <3>4 DEF CheckArray
    <2>2. CASE Tail(t) \notin ElementTypes
        BY Zenon, <1>0, <2>2 DEF CheckArray
    <2> QED
        BY <2>1, <2>2
<1>3. CheckStruct(g, v, t, d) = CheckStruct(h, v, t, d) /\ CheckStruct(g, v, t, d) \in Verdicts
    <2> DEFINE P(f) == [n \in DOMAIN v.items |-> f[<<"value", v.items[n], StructFields(t)[n], d + 1>>]]
    <2>1. CASE Len(v.items) = Len(StructFields(t))
        <3>1. \A k \in DOMAIN v.items : StructFields(t)[k] \in Seq(Chars)
            <4>1. StructFields(t) \in Seq(Seq(Chars)) /\ v.items \in Seq(JSON)
                BY JsonFacts, InnerTypes
            <4>2. DOMAIN v.items = DOMAIN StructFields(t)
                BY <2>1, <4>1
            <4> QED
                BY Zenon, <4>2, InnerTypes
        <3>2. \A k \in DOMAIN v.items : Agree(g, h, <<"value", v.items[k], StructFields(t)[k], d + 1>>)
            BY Zenon, <1>n, <3>1
        <3>3. \A k \in DOMAIN v.items : P(g)[k] = P(h)[k] /\ P(g)[k] \in Verdicts
            BY Zenon, <1>0, <3>2 DEF Agree
        <3>4. FirstProblem(P(g)) = FirstProblem(P(h)) /\ FirstProblem(P(g)) \in Verdicts
            <4>1. PICK p, q : p = P(g) /\ q = P(h)
                OBVIOUS
            <4>2. IsLoop(p, v) /\ IsLoop(q, v)
                BY <4>1 DEF IsLoop
            <4>3. \A k \in DOMAIN v.items : p[k] = q[k] /\ p[k] \in Verdicts
                BY Zenon, <3>3, <4>1
            <4>4. FirstProblem(p) = FirstProblem(q) /\ FirstProblem(p) \in Verdicts
                BY Zenon, <4>2, <4>3, LoopAgrees
            <4> QED
                BY Zenon, <4>1, <4>4
        <3> QED
            BY Zenon, <1>0, <3>4 DEF CheckStruct
    <2>2. CASE Len(v.items) # Len(StructFields(t))
        BY Zenon, <1>0, <2>2 DEF CheckStruct
    <2> QED
        BY <2>1, <2>2
<1>4. Agree(g, h, <<"variant", v, <<>>, d + 1>>)
    BY Zenon, <1>n
<1>5. CheckStrings(v) \in Verdicts
    BY Zenon, <1>0 DEF CheckStrings
<1> QED
    BY Zenon, <1>0, <1>1, <1>2, <1>3, <1>4, <1>5 DEF CheckValue, Agree

\* CheckVariant() looks at the items, or at the value next to a declared type,
\* only.
LEMMA CheckVariantLocal ==
    ASSUME NEW v \in JSON, NEW d \in Nat, NEW g, NEW h,
           \A k \in DOMAIN v.items : \A e \in Nat : Agree(g, h, <<"variant", v.items[k], <<>>, e>>),
           IsTyped(v) => \A e \in Nat : Agree(g, h, <<"value", Inner(v), NamedType(v), e>>)
    PROVE  CheckVariant(g, v, d) = CheckVariant(h, v, d) /\ CheckVariant(g, v, d) \in Verdicts
<1>0. "fine" \in Verdicts /\ "type" \in Verdicts /\ "depth" \in Verdicts
    BY DEF Verdicts
<1> DEFINE e == d + (IF v.kind = "array" THEN 2 ELSE 3)
           P(f) == [n \in DOMAIN v.items |-> f[<<"variant", v.items[n], <<>>, e>>]]
<1>1. e \in Nat
    OBVIOUS
<1>2. FirstProblem(P(g)) = FirstProblem(P(h)) /\ FirstProblem(P(g)) \in Verdicts
    <2> HIDE DEF e
    <2>1. \A k \in DOMAIN v.items : P(g)[k] = P(h)[k] /\ P(g)[k] \in Verdicts
        BY Zenon, <1>1 DEF Agree
    <2>2. PICK p, q : p = P(g) /\ q = P(h)
        OBVIOUS
    <2>3. IsLoop(p, v) /\ IsLoop(q, v)
        BY <2>2 DEF IsLoop
    <2>4. \A k \in DOMAIN v.items : p[k] = q[k] /\ p[k] \in Verdicts
        BY Zenon, <2>1, <2>2
    <2>5. FirstProblem(p) = FirstProblem(q) /\ FirstProblem(p) \in Verdicts
        BY Zenon, <2>3, <2>4, LoopAgrees
    <2> QED
        BY Zenon, <2>2, <2>5
<1>3. IsTyped(v) => CheckTyped(g, v, d) = CheckTyped(h, v, d) /\ CheckTyped(g, v, d) \in Verdicts
    BY Zenon, <1>0 DEF CheckTyped, Agree
<1> QED
    BY Zenon, <1>0, <1>2, <1>3 DEF CheckVariant

\* One step of Check, over what f says of the smaller values.
CheckOf(f, x) == IF x[1] = "value" THEN CheckValue(f, x[2], x[3], x[4]) ELSE CheckVariant(f, x[2], x[4])

\* What is checked is what its definition says.
LEMMA CheckIs ==
    ASSUME NEW v \in JSON, NEW t \in Seq(Chars), NEW d \in Nat
    PROVE  /\ Check[<<"value", v, t, d>>] = CheckValue(Check, v, t, d)
           /\ Check[<<"variant", v, t, d>>] = CheckVariant(Check, v, d)
           /\ Check[<<"value", v, t, d>>] \in Verdicts
           /\ Check[<<"variant", v, t, d>>] \in Verdicts
<1> DEFINE S == Checks
           T == Verdicts
           rank == [x \in S |-> Larger(<<x[1], x[2], x[3]>>)]
           F == [p \in S \X [S -> T] |-> CheckOf(p[2], p[1])]
<1>b. ASSUME NEW x \in S
      PROVE  \E k \in {"value", "variant"}, u \in JSON, s \in Seq(Chars), e \in Nat :
                x = <<k, u, s, e>> /\ rank[x] = Larger(<<k, u, s>>)
    <2>1. PICK k \in {"value", "variant"}, u \in JSON, s \in Seq(Chars), e \in Nat : x = <<k, u, s, e>>
        BY <1>b DEF Checks
    <2>2. x[1] = k /\ x[2] = u /\ x[3] = s
        BY <2>1
    <2> QED
        BY Zenon, <2>1, <2>2
<1>c. ASSUME NEW k \in {"value", "variant"}, NEW u \in JSON, NEW s \in Seq(Chars), NEW e \in Nat
      PROVE  <<k, u, s, e>> \in S /\ rank[<<k, u, s, e>>] = Larger(<<k, u, s>>)
    <2>1. PICK x : x = <<k, u, s, e>>
        OBVIOUS
    <2>2. x \in S /\ x[1] = k /\ x[2] = u /\ x[3] = s
        BY <2>1 DEF Checks
    <2> QED
        BY Zenon, <2>1, <2>2
<1> HIDE DEF rank
<1>2. ASSUME NEW x \in S, NEW g, NEW h, \A y \in S : rank[y] < rank[x] => Agree(g, h, y)
      PROVE  CheckOf(g, x) = CheckOf(h, x) /\ CheckOf(g, x) \in T
    <2>1. PICK k \in {"value", "variant"}, u \in JSON, s \in Seq(Chars), e \in Nat :
                x = <<k, u, s, e>> /\ rank[x] = Larger(<<k, u, s>>)
        BY Zenon, <1>b
    <2>2. ASSUME NEW i \in {"value", "variant"}, NEW w \in JSON, NEW q \in Seq(Chars), NEW a \in Nat,
                 Larger(<<i, w, q>>) < Larger(<<k, u, s>>)
          PROVE  Agree(g, h, <<i, w, q, a>>)
        <3>1. <<i, w, q, a>> \in S /\ rank[<<i, w, q, a>>] = Larger(<<i, w, q>>)
            BY Zenon, <1>c
        <3> QED
            BY Zenon, <1>2, <2>1, <2>2, <3>1
    <2>3. <<>> \in Seq(Chars)
        OBVIOUS
    <2>4. CASE k = "value"
        <3>1. \A n \in DOMAIN u.items : \A q \in Seq(Chars), a \in Nat :
                Agree(g, h, <<"value", u.items[n], q, a>>)
            BY Zenon, <2>2, <2>4, LargerFacts, JsonFacts
        <3>2. \A a \in Nat : Agree(g, h, <<"variant", u, <<>>, a>>)
            BY Zenon, <2>2, <2>3, <2>4, LargerFacts
        <3>3. CheckValue(g, u, s, e) = CheckValue(h, u, s, e) /\ CheckValue(g, u, s, e) \in Verdicts
            BY Zenon, <3>1, <3>2, CheckValueLocal
        <3>4. x[1] = "value" /\ x[2] = u /\ x[3] = s /\ x[4] = e
            BY <2>1, <2>4
        <3> QED
            BY Zenon, <3>3, <3>4 DEF CheckOf
    <2>5. CASE k = "variant"
        <3>1. \A n \in DOMAIN u.items : \A a \in Nat :
                Agree(g, h, <<"variant", u.items[n], <<>>, a>>)
            BY Zenon, <2>2, <2>3, <2>5, LargerFacts, JsonFacts
        <3>2. IsTyped(u) => \A a \in Nat : Agree(g, h, <<"value", Inner(u), NamedType(u), a>>)
            BY Zenon, <2>2, <2>5, LargerFacts, JsonFacts
        <3>3. CheckVariant(g, u, e) = CheckVariant(h, u, e) /\ CheckVariant(g, u, e) \in Verdicts
            BY Zenon, <3>1, <3>2, CheckVariantLocal
        <3>4. x[1] # "value" /\ x[2] = u /\ x[4] = e
            BY <2>1, <2>5
        <3> QED
            BY Zenon, <3>3, <3>4 DEF CheckOf
    <2> QED
        BY <2>4, <2>5
<1>3. rank \in [S -> Nat]
    <2>1. ASSUME NEW x \in S PROVE rank[x] \in Nat
        <3>1. PICK k \in {"value", "variant"}, u \in JSON, s \in Seq(Chars), e \in Nat :
                x = <<k, u, s, e>> /\ rank[x] = Larger(<<k, u, s>>)
            BY Zenon, <1>b
        <3>2. k = "value" \/ k = "variant"
            OBVIOUS
        <3> QED
            BY Zenon, <3>1, <3>2, LargerFacts
    <2>2. rank = [x \in S |-> rank[x]]
        BY DEF rank
    <2> QED
        BY <2>1, <2>2
<1>a. \A x \in S : \A g, h \in [S -> T] :
        (\A y \in S : rank[y] < rank[x] => g[y] = h[y]) =>
            CheckOf(g, x) = CheckOf(h, x) /\ CheckOf(g, x) \in T
    <2> SUFFICES ASSUME NEW x \in S, NEW g \in [S -> T], NEW h \in [S -> T],
                        \A y \in S : rank[y] < rank[x] => g[y] = h[y]
                 PROVE  CheckOf(g, x) = CheckOf(h, x) /\ CheckOf(g, x) \in T
        BY Zenon
    <2>1. \A y \in S : rank[y] < rank[x] => Agree(g, h, y)
        BY DEF Agree
    <2> QED
        BY Zenon, <1>2, <2>1
<1>4. F \in [S \X [S -> T] -> T]
    <2>1. \A x \in S, g \in [S -> T] : CheckOf(g, x) \in T
        BY Zenon, <1>a
    <2>2. \A p \in S \X [S -> T] : p[1] \in S /\ p[2] \in [S -> T]
        OBVIOUS
    <2>3. \A p \in S \X [S -> T] : CheckOf(p[2], p[1]) \in T
        BY Zenon, <2>1, <2>2
    <2> QED
        BY <2>3
<1>5. \A x \in S, g \in [S -> T] : F[<<x, g>>] = CheckOf(g, x)
    OBVIOUS
<1>6. IsRecursion(S, T, rank, F)
    <2>1. T # {}
        BY DEF Verdicts
    <2> HIDE DEF S, T, rank, F
    <2>2. \A x \in S : \A g, h \in [S -> T] :
            (\A y \in S : rank[y] < rank[x] => g[y] = h[y]) => F[<<x, g>>] = F[<<x, h>>]
        BY <1>a, <1>5
    <2> QED
        BY Zenon, <1>3, <1>4, <2>1, <2>2 DEF IsRecursion
<1> HIDE DEF rank, F
<1>7. PICK f \in [S -> T] : \A x \in S : f[x] = F[<<x, f>>]
    <2> HIDE DEF S, T
    <2> QED
        BY <1>6, RecursionExists
<1>8. \A x \in Checks : f[x] = CheckOf(f, x)
    BY <1>5, <1>7
<1>9. f = [x \in Checks |-> CheckOf(f, x)]
    <2>1. f = [x \in Checks |-> f[x]]
        BY <1>7
    <2> QED
        BY Zenon, <1>8, <2>1
<1>10. Check = CHOOSE g : g = [x \in Checks |-> CheckOf(g, x)]
    BY DEF Check, CheckOf
<1>11. Check = [x \in Checks |-> CheckOf(Check, x)]
    BY Zenon, <1>9, <1>10
<1>12. \A x \in Checks : Check[x] = CheckOf(Check, x)
    BY <1>11
<1>13. \A x \in S : Check[x] \in T
    <2> DEFINE Q == {n \in Nat : \A x \in S : rank[x] < n => Check[x] \in T}
    <2>1. 0 \in Q
        BY <1>3
    <2>2. ASSUME NEW n \in Q PROVE n + 1 \in Q
        <3> SUFFICES ASSUME NEW x \in S, rank[x] < n + 1 PROVE Check[x] \in T
            OBVIOUS
        <3>1. \A y \in S : rank[y] < rank[x] => Check[y] \in T
            <4> SUFFICES ASSUME NEW y \in S, rank[y] < rank[x] PROVE Check[y] \in T
                OBVIOUS
            <4>1. PICK a \in Nat, b \in Nat : a = rank[x] /\ b = rank[y]
                BY <1>3
            <4>2. b < n
                BY <4>1
            <4> QED
                BY Zenon, <4>1, <4>2
        <3>2. \A y \in S : rank[y] < rank[x] => Agree(Check, Check, y)
            BY Zenon, <3>1 DEF Agree
        <3>3. CheckOf(Check, x) \in T
            BY Zenon, <1>2, <3>2
        <3> QED
            BY Zenon, <1>12, <3>3
    <2>3. Q = Nat
        <3>1. Q \in SUBSET Nat
            OBVIOUS
        <3> HIDE DEF Q
        <3> QED
            BY <2>1, <2>2, <3>1, SetInduction
    <2> SUFFICES ASSUME NEW x \in S PROVE Check[x] \in T
        OBVIOUS
    <2>4. PICK m \in Nat : m = rank[x] + 1 /\ rank[x] < m
        BY <1>3
    <2> QED
        BY Zenon, <2>3, <2>4
<1>14. \A k \in {"value", "variant"} : <<k, v, t, d>> \in S
    BY Zenon, <1>c
<1>15. CheckOf(Check, <<"value", v, t, d>>) = CheckValue(Check, v, t, d)
    BY DEF CheckOf
<1>16. CheckOf(Check, <<"variant", v, t, d>>) = CheckVariant(Check, v, d)
    BY DEF CheckOf
<1>17. "value" \in {"value", "variant"} /\ "variant" \in {"value", "variant"}
    OBVIOUS
<1> QED
    BY Zenon, <1>12, <1>13, <1>14, <1>15, <1>16, <1>17

-----------------------------------------------------------------------------
(* How deep the natural mapping nests. *)

\* Finitely many numbers have a bound.
LEMMA NumbersBounded ==
    ASSUME NEW n \in Nat, NEW f, \A k \in 1 .. n : f[k] \in Nat
    PROVE  \E b \in Nat : \A k \in 1 .. n : f[k] <= b
<1> DEFINE Q == {m \in Nat : m <= n => \E b \in Nat : \A k \in 1 .. m : f[k] <= b}
<1>1. 0 \in Q
    <2>1. \A k \in 1 .. 0 : f[k] <= 0
        OBVIOUS
    <2> QED
        BY <2>1
<1>2. ASSUME NEW m \in Q PROVE m + 1 \in Q
    <2> SUFFICES ASSUME m + 1 <= n PROVE \E b \in Nat : \A k \in 1 .. m + 1 : f[k] <= b
        OBVIOUS
    <2>1. PICK b \in Nat : \A k \in 1 .. m : f[k] <= b
        OBVIOUS
    <2>2. PICK c \in Nat : c = f[m + 1]
        OBVIOUS
    <2>3. \A k \in 1 .. m + 1 : k \in 1 .. m \/ k = m + 1
        OBVIOUS
    <2>4. \A k \in 1 .. m + 1 : f[k] <= b + c
        <3> SUFFICES ASSUME NEW k \in 1 .. m + 1 PROVE f[k] <= b + c
            OBVIOUS
        <3>1. PICK x \in Nat : x = f[k]
            OBVIOUS
        <3>2. x <= b \/ x = c
            BY <2>1, <2>2, <2>3, <3>1
        <3>3. x <= b + c
            BY <3>2
        <3> QED
            BY <3>1, <3>3
    <2> QED
        BY <2>4
<1>3. Q = Nat
    <2>1. Q \in SUBSET Nat
        OBVIOUS
    <2> HIDE DEF Q
    <2> QED
        BY <1>1, <1>2, <2>1, SetInduction
<1>4. n \in Q /\ n <= n
    BY <1>3
<1> QED
    BY Zenon, <1>4

\* One step of NaturalDepth, over what f says of the items.
NaturalDepthOf(f, x) ==
    LET step == IF x[1].kind = "array" THEN 2 ELSE 3 IN
    IF x[2] > MaxMessageDepth \/ x[1].items = <<>> THEN x[2]
    ELSE Max({f[<<i, x[2] + step>>] : i \in Range(x[1].items)})

\* r is the greatest of the depths f of the items of v, which are e deep.
IsDeepest(r, f, v, d, e) ==
    /\ r \in Nat
    /\ d > MaxMessageDepth \/ v.items = <<>> => r = d
    /\ ~(d > MaxMessageDepth \/ v.items = <<>>) =>
        /\ \E k \in DOMAIN v.items : r = f[<<v.items[k], e>>]
        /\ \A k \in DOMAIN v.items : f[<<v.items[k], e>>] <= r

\* How deep the items of v are in its natural mapping: an object is an array,
\* an entry and a variant.
Deeper(v, d) == d + (IF v.kind = "array" THEN 2 ELSE 3)

\* The depths f finds of the items of v.
Depths(f, v, e) == {f[<<i, e>>] : i \in Range(v.items)}

\* The depths below the items of v.
AreDepths(depths, f, v, e) ==
    /\ \A k \in DOMAIN v.items : f[<<v.items[k], e>>] \in depths
    /\ \A x \in depths : \E k \in DOMAIN v.items : x = f[<<v.items[k], e>>]

\* They are told by the items.
LEMMA DepthsOf ==
    ASSUME NEW f, NEW v, NEW e
    PROVE  AreDepths(Depths(f, v, e), f, v, e)
BY Zenon DEF Depths, Range, AreDepths

\* What a depth is depends on those of the items, and is the greatest of them.
LEMMA NaturalDepthLocal ==
    ASSUME NEW v \in JSON, NEW d \in Nat, NEW g, NEW h,
           \A k \in DOMAIN v.items : \A e \in Nat :
                g[<<v.items[k], e>>] = h[<<v.items[k], e>>] /\ g[<<v.items[k], e>>] \in Nat
    PROVE  /\ NaturalDepthOf(g, <<v, d>>) = NaturalDepthOf(h, <<v, d>>)
           /\ IsDeepest(NaturalDepthOf(g, <<v, d>>), g, v, d, Deeper(v, d))
<1>1. PICK e \in Nat : e = Deeper(v, d)
    BY DEF Deeper
<1>2. PICK n \in Nat : DOMAIN v.items = 1 .. n /\ (v.items # <<>> => n > 0)
    <2>1. v.items \in Seq(JSON)
        BY JsonFacts
    <2> QED
        BY <2>1
<1>3. PICK depths : depths = Depths(g, v, e)
    OBVIOUS
<1>4. /\ \A k \in DOMAIN v.items : g[<<v.items[k], e>>] \in depths
      /\ \A x \in depths : \E k \in DOMAIN v.items : x = g[<<v.items[k], e>>]
    <2>1. AreDepths(depths, g, v, e)
        BY Zenon, <1>3, DepthsOf
    <2> QED
        BY Zenon, <2>1 DEF AreDepths
<1>5. depths = Depths(h, v, e)
    <2>1. \A k \in DOMAIN v.items : g[<<v.items[k], e>>] = h[<<v.items[k], e>>]
        BY Zenon, <1>1
    <2>2. \A i \in Range(v.items) : g[<<i, e>>] = h[<<i, e>>]
        BY Zenon, <2>1 DEF Range
    <2> QED
        BY <1>3, <2>2 DEF Depths
<1>6. \A f : NaturalDepthOf(f, <<v, d>>) =
                IF d > MaxMessageDepth \/ v.items = <<>> THEN d ELSE Max(Depths(f, v, e))
    BY <1>1 DEF NaturalDepthOf, Deeper, Depths
<1>7. CASE d > MaxMessageDepth \/ v.items = <<>>
    BY Zenon, <1>1, <1>6, <1>7 DEF IsDeepest
<1>8. CASE ~(d > MaxMessageDepth \/ v.items = <<>>)
    <2>1. PICK s : s = [k \in 1 .. n |-> g[<<v.items[k], e>>]]
        OBVIOUS
    <2>2. \A k \in 1 .. n : s[k] = g[<<v.items[k], e>>] /\ s[k] \in Nat
        BY <1>2, <2>1
    <2>3. PICK b \in Nat : \A k \in 1 .. n : s[k] <= b
        BY Zenon, <2>2, NumbersBounded
    <2>4. ASSUME NEW x, x \in depths PROVE \E k \in 1 .. n : x = s[k]
        <3>1. PICK k \in DOMAIN v.items : x = g[<<v.items[k], e>>]
            BY Zenon, <1>4, <2>4
        <3>2. k \in 1 .. n
            BY Zenon, <1>2
        <3>3. x = s[k]
            BY Zenon, <2>2, <3>1, <3>2
        <3> QED
            BY Zenon, <3>2, <3>3
    <2>5. depths \in SUBSET Nat /\ \A x \in depths : x <= b
        <3>1. ASSUME NEW x, x \in depths PROVE x \in Nat /\ x <= b
            <4>1. PICK k \in 1 .. n : x = s[k]
                BY Zenon, <2>4, <3>1
            <4> QED
                BY Zenon, <2>2, <2>3, <4>1
        <3> QED
            BY <3>1
    <2>6. depths # {}
        <3>1. 1 \in 1 .. n
            <4>1. v.items # <<>>
                BY Zenon, <1>8
            <4> QED
                BY <1>2, <4>1
        <3> QED
            BY Zenon, <1>2, <1>4, <3>1
    <2>7. Max(depths) \in depths /\ \A x \in depths : x <= Max(depths)
        BY <2>5, <2>6, GreatestElement
    <2>8. Max(depths) \in Nat
        BY <2>5, <2>7
    <2>9. \E k \in DOMAIN v.items : Max(depths) = g[<<v.items[k], e>>]
        <3>1. PICK y : y = Max(depths)
            OBVIOUS
        <3>2. y \in depths
            BY Zenon, <2>7, <3>1
        <3>3. \E k \in DOMAIN v.items : y = g[<<v.items[k], e>>]
            BY Zenon, <1>4, <3>2
        <3> QED
            BY Zenon, <3>1, <3>3
    <2>10. \A k \in DOMAIN v.items : g[<<v.items[k], e>>] <= Max(depths)
        BY Zenon, <1>4, <2>7
    <2>11. NaturalDepthOf(g, <<v, d>>) = Max(depths) /\ NaturalDepthOf(h, <<v, d>>) = Max(depths)
        BY Zenon, <1>3, <1>5, <1>6, <1>8
    <2> QED
        BY Zenon, <1>1, <1>8, <2>8, <2>9, <2>10, <2>11 DEF IsDeepest
<1> QED
    BY <1>7, <1>8

\* naturalDepth() is the largest of the depths below the items.
LEMMA NaturalDepthIs ==
    ASSUME NEW v \in JSON, NEW d \in Nat
    PROVE  IsDeepest(NaturalDepth[<<v, d>>], NaturalDepth, v, d, Deeper(v, d))
<1> DEFINE S == JSON \X Nat
           T == Nat
           rank == [x \in S |-> Height(Values, x[1])]
           F == [p \in S \X [S -> T] |-> NaturalDepthOf(p[2], p[1])]
<1>b. ASSUME NEW x \in S
      PROVE  \E u \in JSON, e \in Nat : x = <<u, e>> /\ rank[x] = Height(Values, u)
    <2>1. x = <<x[1], x[2]>> /\ x[1] \in JSON /\ x[2] \in Nat
        OBVIOUS
    <2> QED
        BY Zenon, <2>1
<1>c. ASSUME NEW u \in JSON, NEW e \in Nat
      PROVE  <<u, e>> \in S /\ rank[<<u, e>>] = Height(Values, u)
    OBVIOUS
<1> HIDE DEF rank
<1>2. ASSUME NEW x \in S, NEW g, NEW h,
             \A y \in S : rank[y] < rank[x] => g[y] = h[y] /\ g[y] \in Nat
      PROVE  NaturalDepthOf(g, x) = NaturalDepthOf(h, x) /\ NaturalDepthOf(g, x) \in Nat
    <2>1. PICK u \in JSON, e \in Nat : x = <<u, e>> /\ rank[x] = Height(Values, u)
        BY Zenon, <1>b
    <2>2. \A k \in DOMAIN u.items : \A a \in Nat :
            g[<<u.items[k], a>>] = h[<<u.items[k], a>>] /\ g[<<u.items[k], a>>] \in Nat
        <3>1. ASSUME NEW k \in DOMAIN u.items, NEW a \in Nat
              PROVE  /\ <<u.items[k], a>> \in S /\ rank[<<u.items[k], a>>] < rank[x]
            <4>1. u.items[k] \in JSON /\ Height(Values, u.items[k]) < Height(Values, u)
                BY JsonFacts
            <4> QED
                BY Zenon, <1>c, <2>1, <4>1
        <3> QED
            BY Zenon, <1>2, <3>1
    <2>3. /\ NaturalDepthOf(g, <<u, e>>) = NaturalDepthOf(h, <<u, e>>)
          /\ IsDeepest(NaturalDepthOf(g, <<u, e>>), g, u, e, Deeper(u, e))
        BY Zenon, <2>2, NaturalDepthLocal
    <2> QED
        BY Zenon, <2>1, <2>3 DEF IsDeepest
<1>3. rank \in [S -> Nat]
    <2>1. ASSUME NEW x \in S PROVE rank[x] \in Nat
        BY Zenon, <1>b, JsonFacts
    <2>2. rank = [x \in S |-> rank[x]]
        BY DEF rank
    <2> QED
        BY <2>1, <2>2
<1>a. \A x \in S : \A g, h \in [S -> T] :
        (\A y \in S : rank[y] < rank[x] => g[y] = h[y]) =>
            NaturalDepthOf(g, x) = NaturalDepthOf(h, x) /\ NaturalDepthOf(g, x) \in T
    <2> SUFFICES ASSUME NEW x \in S, NEW g \in [S -> T], NEW h \in [S -> T],
                        \A y \in S : rank[y] < rank[x] => g[y] = h[y]
                 PROVE  NaturalDepthOf(g, x) = NaturalDepthOf(h, x) /\ NaturalDepthOf(g, x) \in T
        BY Zenon
    <2>1. \A y \in S : rank[y] < rank[x] => g[y] = h[y] /\ g[y] \in Nat
        OBVIOUS
    <2> QED
        BY Zenon, <1>2, <2>1
<1>4. F \in [S \X [S -> T] -> T]
    <2>1. \A x \in S, g \in [S -> T] : NaturalDepthOf(g, x) \in T
        BY Zenon, <1>a
    <2>2. \A p \in S \X [S -> T] : p[1] \in S /\ p[2] \in [S -> T]
        OBVIOUS
    <2>3. \A p \in S \X [S -> T] : NaturalDepthOf(p[2], p[1]) \in T
        BY Zenon, <2>1, <2>2
    <2> QED
        BY <2>3
<1>5. \A x \in S, g \in [S -> T] : F[<<x, g>>] = NaturalDepthOf(g, x)
    OBVIOUS
<1>6. IsRecursion(S, T, rank, F)
    <2>1. T # {}
        OBVIOUS
    <2> HIDE DEF S, T, rank, F
    <2>2. \A x \in S : \A g, h \in [S -> T] :
            (\A y \in S : rank[y] < rank[x] => g[y] = h[y]) => F[<<x, g>>] = F[<<x, h>>]
        BY <1>a, <1>5
    <2> QED
        BY Zenon, <1>3, <1>4, <2>1, <2>2 DEF IsRecursion
<1> HIDE DEF rank, F
<1>7. PICK f \in [S -> T] : \A x \in S : f[x] = F[<<x, f>>]
    <2> HIDE DEF S, T
    <2> QED
        BY <1>6, RecursionExists
<1>9. f = [x \in S |-> NaturalDepthOf(f, x)]
    <2>1. f = [x \in S |-> f[x]]
        BY <1>7
    <2>2. \A x \in S : f[x] = NaturalDepthOf(f, x)
        BY <1>5, <1>7
    <2> QED
        BY Zenon, <2>1, <2>2
<1>10. NaturalDepth = CHOOSE g : g = [x \in S |-> NaturalDepthOf(g, x)]
    BY DEF NaturalDepth, NaturalDepthOf
<1>11. NaturalDepth = [x \in S |-> NaturalDepthOf(NaturalDepth, x)]
    BY Zenon, <1>9, <1>10
<1>12. \A x \in S : NaturalDepth[x] = NaturalDepthOf(NaturalDepth, x)
    BY <1>11
<1>13. \A x \in S : NaturalDepth[x] \in Nat
    <2> DEFINE Q == {n \in Nat : \A x \in S : rank[x] < n => NaturalDepth[x] \in T}
    <2>1. 0 \in Q
        BY <1>3
    <2>2. ASSUME NEW n \in Q PROVE n + 1 \in Q
        <3> SUFFICES ASSUME NEW x \in S, rank[x] < n + 1 PROVE NaturalDepth[x] \in T
            OBVIOUS
        <3>1. \A y \in S : rank[y] < rank[x] => NaturalDepth[y] \in T
            <4> SUFFICES ASSUME NEW y \in S, rank[y] < rank[x] PROVE NaturalDepth[y] \in T
                OBVIOUS
            <4>1. PICK a \in Nat, b \in Nat : a = rank[x] /\ b = rank[y]
                BY <1>3
            <4>2. b < n
                BY <4>1
            <4> QED
                BY Zenon, <4>1, <4>2
        <3>3. NaturalDepthOf(NaturalDepth, x) \in T
            BY Zenon, <1>2, <3>1
        <3> QED
            BY Zenon, <1>12, <3>3
    <2>3. Q = Nat
        <3>1. Q \in SUBSET Nat
            OBVIOUS
        <3> HIDE DEF Q
        <3> QED
            BY <2>1, <2>2, <3>1, SetInduction
    <2> SUFFICES ASSUME NEW x \in S PROVE NaturalDepth[x] \in T
        OBVIOUS
    <2>4. PICK m \in Nat : m = rank[x] + 1 /\ rank[x] < m
        BY <1>3
    <2>5. m \in Q
        BY <2>3
    <2> QED
        BY Zenon, <2>4, <2>5
<1>14. NaturalDepth[<<v, d>>] = NaturalDepthOf(NaturalDepth, <<v, d>>)
    BY <1>12
<1>15. \A k \in DOMAIN v.items : \A e \in Nat : NaturalDepth[<<v.items[k], e>>] \in Nat
    BY Zenon, <1>13, <1>c, JsonFacts
<1> QED
    BY Zenon, <1>14, <1>15, NaturalDepthLocal

-----------------------------------------------------------------------------
(* The parts of a D-Bus value. *)

\* One step of Parts, over what f says of the items.
PartsOf(f, w) == {<<0, w>>} \cup UNION {{<<p[1] + 1, p[2]>> : p \in f[i]} : i \in Range(w.items)}

\* p is w itself, or a part of one of its items, of the parts f.
IsPart(p, f, w) ==
    \/ p = <<0, w>>
    \/ \E k \in DOMAIN w.items : \E q \in f[w.items[k]] : p = <<q[1] + 1, q[2]>>

\* A part is the value itself or a part of an item, one container deeper.
LEMMA PartsOfAre ==
    ASSUME NEW w, NEW f, NEW p
    PROVE  p \in PartsOf(f, w) <=> IsPart(p, f, w)
<1>1. \A i : i \in Range(w.items) <=> \E k \in DOMAIN w.items : i = w.items[k]
    BY DEF Range
<1>2. p \in PartsOf(f, w) <=>
        p = <<0, w>> \/ \E i \in Range(w.items) : p \in {<<q[1] + 1, q[2]>> : q \in f[i]}
    BY DEF PartsOf
<1>3. \A i : p \in {<<q[1] + 1, q[2]>> : q \in f[i]} <=> \E q \in f[i] : p = <<q[1] + 1, q[2]>>
    OBVIOUS
<1>4. ASSUME NEW i \in Range(w.items), p \in {<<q[1] + 1, q[2]>> : q \in f[i]}
      PROVE  \E k \in DOMAIN w.items : \E q \in f[w.items[k]] : p = <<q[1] + 1, q[2]>>
    <2>1. PICK k \in DOMAIN w.items : i = w.items[k]
        BY Zenon, <1>1
    <2>2. PICK q : q \in f[i] /\ p = <<q[1] + 1, q[2]>>
        BY Zenon, <1>3, <1>4
    <2>3. q \in f[w.items[k]]
        BY Zenon, <2>1, <2>2
    <2> QED
        BY Zenon, <2>2, <2>3
<1>5. ASSUME NEW k \in DOMAIN w.items, NEW q \in f[w.items[k]], p = <<q[1] + 1, q[2]>>
      PROVE  \E i \in Range(w.items) : p \in {<<r[1] + 1, r[2]>> : r \in f[i]}
    <2>1. PICK i \in Range(w.items) : i = w.items[k]
        BY Zenon, <1>1
    <2>2. q \in f[i]
        BY Zenon, <2>1
    <2>3. p \in {<<r[1] + 1, r[2]>> : r \in f[i]}
        BY Zenon, <1>3, <1>5, <2>2
    <2> QED
        BY Zenon, <2>3
<1> QED
    BY Zenon, <1>2, <1>4, <1>5 DEF IsPart

\* PartsOf looks at the items only.
LEMMA PartsLocal ==
    ASSUME NEW w \in Wire, NEW g, NEW h,
           \A k \in DOMAIN w.items : g[w.items[k]] = h[w.items[k]] /\ g[w.items[k]] \in SUBSET (Nat \X Wire)
    PROVE  PartsOf(g, w) = PartsOf(h, w) /\ PartsOf(g, w) \in SUBSET (Nat \X Wire)
<1>1. ASSUME NEW p, IsPart(p, g, w) PROVE IsPart(p, h, w) /\ p \in Nat \X Wire
    <2>1. CASE p = <<0, w>>
        BY <2>1 DEF IsPart
    <2>2. CASE \E k \in DOMAIN w.items : \E q \in g[w.items[k]] : p = <<q[1] + 1, q[2]>>
        <3>1. PICK k \in DOMAIN w.items : \E q \in g[w.items[k]] : p = <<q[1] + 1, q[2]>>
            BY Zenon, <2>2
        <3>2. PICK S : S = g[w.items[k]]
            OBVIOUS
        <3>3. S = h[w.items[k]] /\ S \in SUBSET (Nat \X Wire)
            BY Zenon, <3>2
        <3>4. PICK q \in S : p = <<q[1] + 1, q[2]>>
            BY Zenon, <3>1, <3>2
        <3>5. q \in Nat \X Wire
            BY <3>3
        <3>6. p \in Nat \X Wire
            BY <3>4, <3>5
        <3>7. IsPart(p, h, w)
            BY Zenon, <3>3, <3>4 DEF IsPart
        <3> QED
            BY Zenon, <3>6, <3>7
    <2> QED
        BY Zenon, <1>1, <2>1, <2>2 DEF IsPart
<1>2. ASSUME NEW p, IsPart(p, h, w) PROVE IsPart(p, g, w)
    <2>1. CASE p = <<0, w>>
        BY Zenon, <2>1 DEF IsPart
    <2>2. CASE \E k \in DOMAIN w.items : \E q \in h[w.items[k]] : p = <<q[1] + 1, q[2]>>
        <3>1. PICK k \in DOMAIN w.items : \E q \in h[w.items[k]] : p = <<q[1] + 1, q[2]>>
            BY Zenon, <2>2
        <3>2. h[w.items[k]] = g[w.items[k]]
            BY Zenon
        <3> QED
            BY Zenon, <3>1, <3>2 DEF IsPart
    <2> QED
        BY Zenon, <1>2, <2>1, <2>2 DEF IsPart
<1>3. \A p : p \in PartsOf(g, w) <=> p \in PartsOf(h, w)
    BY Zenon, <1>1, <1>2, PartsOfAre
<1>4. \A p : p \in PartsOf(g, w) => p \in Nat \X Wire
    BY Zenon, <1>1, PartsOfAre
<1> QED
    BY <1>3, <1>4

\* The parts of a value are what their definition says.
LEMMA PartsAre ==
    ASSUME NEW w \in Wire
    PROVE  Parts[w] = PartsOf(Parts, w) /\ Parts[w] \in SUBSET (Nat \X Wire)
<1> DEFINE S == Wire
           T == SUBSET (Nat \X Wire)
           rank == [x \in S |-> Height(Messages, x)]
           F == [p \in S \X [S -> T] |-> PartsOf(p[2], p[1])]
<1>2. ASSUME NEW x \in S, NEW g, NEW h, \A y \in S : rank[y] < rank[x] => g[y] = h[y] /\ g[y] \in T
      PROVE  PartsOf(g, x) = PartsOf(h, x) /\ PartsOf(g, x) \in T
    <2>1. ASSUME NEW k \in DOMAIN x.items PROVE g[x.items[k]] = h[x.items[k]] /\ g[x.items[k]] \in T
        <3>1. PICK y \in S : y = x.items[k] /\ Height(Messages, y) < Height(Messages, x)
            BY WireFacts
        <3>2. rank[y] < rank[x]
            BY <3>1
        <3> QED
            BY Zenon, <1>2, <3>1, <3>2
    <2> QED
        BY Zenon, <2>1, PartsLocal
<1>3. rank \in [S -> Nat]
    BY WireFacts
<1>a. \A x \in S : \A g, h \in [S -> T] :
        (\A y \in S : rank[y] < rank[x] => g[y] = h[y]) => PartsOf(g, x) = PartsOf(h, x) /\ PartsOf(g, x) \in T
    <2> SUFFICES ASSUME NEW x \in S, NEW g \in [S -> T], NEW h \in [S -> T],
                        \A y \in S : rank[y] < rank[x] => g[y] = h[y]
                 PROVE  PartsOf(g, x) = PartsOf(h, x) /\ PartsOf(g, x) \in T
        BY Zenon
    <2> HIDE DEF S, T, rank
    <2>1. \A y \in S : rank[y] < rank[x] => g[y] = h[y] /\ g[y] \in T
        OBVIOUS
    <2> QED
        BY Zenon, <1>2, <2>1
<1>4. F \in [S \X [S -> T] -> T]
    <2> HIDE DEF S, T, rank
    <2>1. \A x \in S, g \in [S -> T] : PartsOf(g, x) \in T
        BY Zenon, <1>a
    <2>2. \A p \in S \X [S -> T] : p[1] \in S /\ p[2] \in [S -> T]
        OBVIOUS
    <2>3. \A p \in S \X [S -> T] : PartsOf(p[2], p[1]) \in T
        BY Zenon, <2>1, <2>2
    <2> QED
        BY <2>3
<1>5. \A x \in S, g \in [S -> T] : F[<<x, g>>] = PartsOf(g, x)
    <2> HIDE DEF S, T
    <2> QED
        OBVIOUS
<1>6. IsRecursion(S, T, rank, F)
    <2>1. T # {}
        OBVIOUS
    <2> HIDE DEF S, T, rank, F
    <2>2. \A x \in S : \A g, h \in [S -> T] :
            (\A y \in S : rank[y] < rank[x] => g[y] = h[y]) => F[<<x, g>>] = F[<<x, h>>]
        BY <1>a, <1>5
    <2> QED
        BY Zenon, <1>3, <1>4, <2>1, <2>2 DEF IsRecursion
<1> HIDE DEF F
<1>7. PICK f \in [S -> T] : \A x \in S : f[x] = F[<<x, f>>]
    <2> HIDE DEF S, T, rank
    <2> QED
        BY <1>6, RecursionExists
<1>9. f = [x \in S |-> PartsOf(f, x)]
    <2> HIDE DEF S, T
    <2>1. f = [x \in S |-> f[x]]
        BY <1>7
    <2>2. \A x \in S : f[x] = PartsOf(f, x)
        BY <1>5, <1>7
    <2> QED
        BY Zenon, <2>1, <2>2
<1>10. Parts = CHOOSE g : g = [x \in S |-> PartsOf(g, x)]
    BY DEF Parts, PartsOf
<1>11. Parts = [x \in S |-> PartsOf(Parts, x)]
    BY Zenon, <1>9, <1>10
<1>12. \A x \in S : Parts[x] = PartsOf(Parts, x)
    BY <1>11
<1>13. \A x \in S : Parts[x] \in T
    <2> HIDE DEF S, T, rank
    <2> DEFINE Q == {n \in Nat : \A x \in S : rank[x] < n => Parts[x] \in T}
    <2>1. 0 \in Q
        BY <1>3
    <2>2. ASSUME NEW n \in Q PROVE n + 1 \in Q
        <3> SUFFICES ASSUME NEW x \in S, rank[x] < n + 1 PROVE Parts[x] \in T
            OBVIOUS
        <3>1. \A y \in S : rank[y] < rank[x] => Parts[y] \in T
            <4> SUFFICES ASSUME NEW y \in S, rank[y] < rank[x] PROVE Parts[y] \in T
                OBVIOUS
            <4>1. PICK a \in Nat, b \in Nat : a = rank[x] /\ b = rank[y]
                BY <1>3
            <4>2. b < n
                BY <4>1
            <4> QED
                BY Zenon, <4>1, <4>2
        <3>3. PartsOf(Parts, x) \in T
            BY Zenon, <1>2, <3>1
        <3> QED
            BY Zenon, <1>12, <3>3
    <2>3. Q = Nat
        <3>1. Q \in SUBSET Nat
            OBVIOUS
        <3> HIDE DEF Q
        <3> QED
            BY <2>1, <2>2, <3>1, SetInduction
    <2> SUFFICES ASSUME NEW x \in S PROVE Parts[x] \in T
        OBVIOUS
    <2>4. PICK m \in Nat : m = rank[x] + 1 /\ rank[x] < m
        BY <1>3
    <2>5. m \in Q
        BY <2>3
    <2> QED
        BY Zenon, <2>4, <2>5
<1> QED
    BY Zenon, <1>12, <1>13

\* The parts of w are w, and the parts of its items, one container deeper.
HasParts(w) ==
    /\ <<0, w>> \in Parts[w]
    /\ \A k \in DOMAIN w.items : \A q \in Parts[w.items[k]] : <<q[1] + 1, q[2]>> \in Parts[w]
    /\ \A p \in Parts[w] : p[1] \in Nat /\ p[2] \in Wire
    /\ \A p \in Parts[w] :
        \/ p = <<0, w>>
        \/ \E k \in DOMAIN w.items : \E q \in Parts[w.items[k]] :
            p[1] = q[1] + 1 /\ p[2] = q[2] /\ q[1] \in Nat

\* The parts of a D-Bus value are D-Bus values at some depth, itself at none.
LEMMA PartsHave ==
    ASSUME NEW w \in Wire
    PROVE  HasParts(w)
<1>1. Parts[w] \in SUBSET (Nat \X Wire)
    BY PartsAre
<1>2. ASSUME NEW p PROVE p \in Parts[w] <=> IsPart(p, Parts, w)
    BY Zenon, PartsAre, PartsOfAre
<1>3. <<0, w>> \in Parts[w]
    BY Zenon, <1>2 DEF IsPart
<1>4. ASSUME NEW k \in DOMAIN w.items, NEW q, q \in Parts[w.items[k]]
      PROVE  <<q[1] + 1, q[2]>> \in Parts[w]
    BY Zenon, <1>2, <1>4 DEF IsPart
<1>5. ASSUME NEW p \in Parts[w]
      PROVE  /\ p[1] \in Nat /\ p[2] \in Wire
             /\ \/ p = <<0, w>>
                \/ \E k \in DOMAIN w.items : \E q \in Parts[w.items[k]] :
                    p[1] = q[1] + 1 /\ p[2] = q[2] /\ q[1] \in Nat
    <2>1. p[1] \in Nat /\ p[2] \in Wire
        BY <1>1
    <2>2. p = <<0, w>> \/ \E k \in DOMAIN w.items : \E q \in Parts[w.items[k]] : p = <<q[1] + 1, q[2]>>
        BY Zenon, <1>2 DEF IsPart
    <2>3. ASSUME NEW k \in DOMAIN w.items, NEW q, q \in Parts[w.items[k]], p = <<q[1] + 1, q[2]>>
          PROVE  p[1] = q[1] + 1 /\ p[2] = q[2] /\ q[1] \in Nat
        <3>1. w.items[k] \in Wire
            BY WireFacts
        <3>2. Parts[w.items[k]] \in SUBSET (Nat \X Wire)
            BY <3>1, PartsAre
        <3>4. q[1] \in Nat
            BY <2>3, <3>2
        <3> QED
            BY <2>3, <3>4
    <2> QED
        BY Zenon, <2>1, <2>2, <2>3
<1> QED
    BY Zenon, <1>3, <1>4, <1>5 DEF HasParts

-----------------------------------------------------------------------------
(* What a client reads. *)

\* One step of Demarshall, over what f says of the items.
DemarshallOf(f, w) ==
    IF w.type = <<"v">> THEN f[w.items[1]]
    ELSE IF IsDict(w.type) THEN DemarshallMap(f, w)
    ELSE IF w.content = "none" THEN DemarshallItems(f, w)
    ELSE Leaf(IF w.content = "@dbus" THEN "text" ELSE w.content, <<>>)

\* What is inside w, one or two containers deep.
LEMMA InsideMessage ==
    ASSUME NEW n \in Nat, NEW w \in Messages[n]
    PROVE  /\ w.type = <<"v">> => n > 0 /\ 1 \in DOMAIN w.items
           /\ \A k \in DOMAIN w.items : n > 0 /\ w.items[k] \in Messages[n - 1]
           /\ IsDict(w.type) => \A k \in DOMAIN w.items :
                2 \in DOMAIN w.items[k].items /\ w.items[k].items[2] \in Messages[n - 1]
<1>1. /\ w.items \in Seq(Messages[n])
      /\ w.items # <<>> => n > 0 /\ w.items \in Seq(Messages[n - 1])
      /\ IsMessage(w)
    BY Zenon, MessageFacts
<1>2. ASSUME NEW k \in DOMAIN w.items PROVE n > 0 /\ w.items[k] \in Messages[n - 1]
    <2>1. w.items # <<>>
        BY <1>1
    <2>2. n > 0 /\ w.items \in Seq(Messages[n - 1])
        BY Zenon, <1>1, <2>1
    <2> QED
        BY <2>2
<1>3. ASSUME IsDict(w.type), NEW k \in DOMAIN w.items
      PROVE  2 \in DOMAIN w.items[k].items /\ w.items[k].items[2] \in Messages[n - 1]
    <2>1. PICK m \in Nat : m = n - 1
        BY <1>2
    <2>2. PICK e \in Messages[m] : e = w.items[k]
        BY <1>2, <2>1
    <2>3. e.items \in Seq(Messages[m])
        BY Zenon, MessageFacts
    <2>4. Len(e.items) = 2
        BY Zenon, <1>1, <1>3, <2>2 DEF IsMessage
    <2>5. 2 \in DOMAIN e.items /\ e.items[2] \in Messages[m]
        BY <2>3, <2>4
    <2> QED
        BY Zenon, <2>1, <2>2, <2>5
<1>4. ASSUME w.type = <<"v">> PROVE n > 0 /\ 1 \in DOMAIN w.items
    <2>1. Len(w.items) = 1
        BY Zenon, <1>1, <1>4 DEF IsMessage
    <2>2. 1 \in DOMAIN w.items
        BY <1>1, <2>1
    <2> QED
        BY <1>2, <2>2
<1> QED
    BY Zenon, <1>2, <1>3, <1>4

\* What is read of w nests as w does at most.
LEMMA DemarshallMade ==
    ASSUME NEW n \in Nat, NEW w \in Messages[n], NEW f,
           n > 0 => \A u \in Messages[n - 1] : f[u] \in Values[n - 1]
    PROVE  DemarshallOf(f, w) \in Values[n]
<1>1. /\ w.items \in Seq(Messages[n]) /\ w.content \in ContentKinds
      /\ w.items # <<>> => n > 0 /\ w.items \in Seq(Messages[n - 1])
      /\ IsMessage(w)
    BY Zenon, MessageFacts
<1>2. PICK c \in Nat : c = Len(w.items) /\ DOMAIN w.items = 1 .. c
    BY <1>1
<1>4. \A g : (\A k \in 1 .. c : n > 0 /\ g[k] \in Values[n - 1]) =>
        [k \in 1 .. c |-> g[k]] = <<>> \/ (n > 0 /\ [k \in 1 .. c |-> g[k]] \in Seq(Values[n - 1]))
    <2> SUFFICES ASSUME NEW g, \A k \in 1 .. c : n > 0 /\ g[k] \in Values[n - 1]
                 PROVE  [k \in 1 .. c |-> g[k]] = <<>>
                            \/ (n > 0 /\ [k \in 1 .. c |-> g[k]] \in Seq(Values[n - 1]))
        BY Zenon
    <2>1. CASE c = 0
        BY <2>1
    <2>2. CASE c # 0
        <3>1. 1 \in 1 .. c
            BY <2>2
        <3>2. n > 0
            BY <3>1
        <3>3. [k \in 1 .. c |-> g[k]] \in Seq(Values[n - 1])
            OBVIOUS
        <3> QED
            BY <3>2, <3>3
    <2> QED
        BY <2>1, <2>2
<1>5. CASE w.type = <<"v">>
    <2>1. n > 0 /\ w.items[1] \in Messages[n - 1]
        BY Zenon, <1>5, InsideMessage
    <2>2. f[w.items[1]] \in Values[n - 1]
        BY <2>1
    <2>3. Values[n - 1] \subseteq Values[n]
        <3>1. PICK m \in Nat : m = n - 1 /\ m <= n
            BY <2>1
        <3> QED
            BY <3>1, ValuesLevelled, LevelUp
    <2>4. f[w.items[1]] \in Values[n]
        BY <2>2, <2>3
    <2> QED
        BY Zenon, <1>5, <2>4 DEF DemarshallOf
<1>6. CASE w.type # <<"v">> /\ IsDict(w.type)
    <2>1. PICK i : i = [k \in 1 .. c |-> f[w.items[k].items[2]]]
        OBVIOUS
    <2>2. \A k \in 1 .. c : n > 0 /\ i[k] \in Values[n - 1]
        <3> SUFFICES ASSUME NEW k \in 1 .. c PROVE n > 0 /\ i[k] \in Values[n - 1]
            OBVIOUS
        <3>1. n > 0 /\ w.items[k].items[2] \in Messages[n - 1]
            BY Zenon, <1>2, <1>6, InsideMessage
        <3>2. i[k] = f[w.items[k].items[2]]
            BY <2>1
        <3> QED
            BY <3>1, <3>2
    <2>3. i = [k \in 1 .. c |-> i[k]]
        BY <2>1
    <2>4. i = <<>> \/ (n > 0 /\ i \in Seq(Values[n - 1]))
        BY Zenon, <1>4, <2>2, <2>3
    <2>5. PICK s \in Seq(Keys) : s = KeysOf(w) /\ IsKeys(s)
        BY Zenon, <1>1, <1>6 DEF IsMessage, IsKeys
    <2>6. Len(s) = Len(i)
        <3>1. DOMAIN s = 1 .. c
            BY Zenon, <1>2, <2>5 DEF KeysOf
        <3>2. Len(s) = c
            BY <3>1
        <3>3. Len(i) = c
            BY <2>1
        <3> QED
            BY <3>2, <3>3
    <2>7. "object" \in Kinds /\ <<>> \in Seq(Chars)
        BY DEF Kinds
    <2>8. IsValue([kind |-> "object", keys |-> s, items |-> i, text |-> <<>>])
        BY <2>5, <2>6 DEF IsValue
    <2>9. [kind |-> "object", keys |-> s, items |-> i, text |-> <<>>] \in Values[n]
        <3>1. CASE i = <<>>
            BY Zenon, <2>7, <2>8, <3>1, ValuesLevelled
        <3>2. CASE n > 0 /\ i \in Seq(Values[n - 1])
            <4>1. PICK m \in Nat : m = n - 1 /\ m + 1 = n
                BY <3>2
            <4> QED
                BY Zenon, <2>7, <2>8, <3>2, <4>1, ValuesLevelled
        <3> QED
            BY <2>4, <3>1, <3>2
    <2>10. DemarshallMap(f, w) = [kind |-> "object", keys |-> s, items |-> i, text |-> <<>>]
        BY <1>2, <2>1, <2>5 DEF DemarshallMap, Object
    <2> QED
        BY Zenon, <1>6, <2>9, <2>10 DEF DemarshallOf
<1>7. CASE w.type # <<"v">> /\ ~IsDict(w.type) /\ w.content = "none"
    <2>1. PICK i : i = [k \in 1 .. c |-> f[w.items[k]]]
        OBVIOUS
    <2>2. \A k \in 1 .. c : n > 0 /\ i[k] \in Values[n - 1]
        <3> SUFFICES ASSUME NEW k \in 1 .. c PROVE n > 0 /\ i[k] \in Values[n - 1]
            OBVIOUS
        <3>1. n > 0 /\ w.items[k] \in Messages[n - 1]
            BY Zenon, <1>2, InsideMessage
        <3>2. i[k] = f[w.items[k]]
            BY <2>1
        <3> QED
            BY <3>1, <3>2
    <2>3. i = [k \in 1 .. c |-> i[k]]
        BY <2>1
    <2>4. i = <<>> \/ (n > 0 /\ i \in Seq(Values[n - 1]))
        BY Zenon, <1>4, <2>2, <2>3
    <2>5. "array" \in Kinds /\ <<>> \in Seq(Chars) /\ <<>> \in Seq(Keys)
        BY DEF Kinds
    <2>6. IsValue([kind |-> "array", keys |-> <<>>, items |-> i, text |-> <<>>])
        BY DEF IsValue
    <2>7. [kind |-> "array", keys |-> <<>>, items |-> i, text |-> <<>>] \in Values[n]
        <3>1. CASE i = <<>>
            BY Zenon, <2>5, <2>6, <3>1, ValuesLevelled
        <3>2. CASE n > 0 /\ i \in Seq(Values[n - 1])
            <4>1. PICK m \in Nat : m = n - 1 /\ m + 1 = n
                BY <3>2
            <4> QED
                BY Zenon, <2>5, <2>6, <3>2, <4>1, ValuesLevelled
        <3> QED
            BY <2>4, <3>1, <3>2
    <2>8. DemarshallItems(f, w) = [kind |-> "array", keys |-> <<>>, items |-> i, text |-> <<>>]
        BY <1>2, <2>1 DEF DemarshallItems, Array
    <2> QED
        BY Zenon, <1>7, <2>7, <2>8 DEF DemarshallOf
<1>8. CASE w.type # <<"v">> /\ ~IsDict(w.type) /\ w.content # "none"
    <2>1. PICK k : k = IF w.content = "@dbus" THEN "text" ELSE w.content
        OBVIOUS
    <2>2. k \in Kinds /\ k \notin {"array", "object"} /\ <<>> \in Seq(Chars) /\ <<>> \in Seq(Keys)
        BY <1>1, <1>8, <2>1 DEF Kinds, ContentKinds
    <2>3. IsValue([kind |-> k, keys |-> <<>>, items |-> <<>>, text |-> <<>>])
        BY <2>2 DEF IsValue
    <2>4. [kind |-> k, keys |-> <<>>, items |-> <<>>, text |-> <<>>] \in Values[n]
        BY Zenon, <2>2, <2>3, ValuesLevelled
    <2> QED
        BY Zenon, <1>8, <2>1, <2>4 DEF DemarshallOf, Leaf
<1> QED
    BY Zenon, <1>5, <1>6, <1>7, <1>8

\* Level by level, what is read is defined.
ReadsOn(f, n) ==
    \A w \in Messages[n] : f[w] = DemarshallOf(f, w) /\ f[w] \in Values[n]

\* Reading keeps the levels: a D-Bus value is read as JSON that nests no more.
LEMMA DemarshallLevels ==
    ASSUME NEW f, NEW m \in Nat,
           \A n \in Nat : n <= m => \A w \in Messages[n] :
                DemarshallOf(f, w) \in Values[n] => f[w] = DemarshallOf(f, w)
    PROVE  \A n \in Nat : n <= m => ReadsOn(f, n)
<1> DEFINE Q == {n \in Nat : n <= m => ReadsOn(f, n)}
<1>1. ASSUME NEW n \in Nat, n = 0 \/ n - 1 \in Q PROVE n \in Q
    <2> SUFFICES ASSUME n <= m, NEW w \in Messages[n]
                 PROVE  f[w] = DemarshallOf(f, w) /\ f[w] \in Values[n]
        BY DEF ReadsOn
    <2>1. n > 0 => \A u \in Messages[n - 1] : f[u] \in Values[n - 1]
        <3> SUFFICES ASSUME n > 0 PROVE \A u \in Messages[n - 1] : f[u] \in Values[n - 1]
            OBVIOUS
        <3>1. n # 0 /\ n - 1 <= m
            OBVIOUS
        <3>2. ReadsOn(f, n - 1)
            BY <1>1, <3>1
        <3> QED
            BY Zenon, <3>2 DEF ReadsOn
    <2>2. DemarshallOf(f, w) \in Values[n]
        BY Zenon, <2>1, DemarshallMade
    <2> QED
        BY Zenon, <2>2
<1>2. Q = Nat
    <2>1. Q \in SUBSET Nat
        OBVIOUS
    <2> HIDE DEF Q
    <2> QED
        BY <1>1, <2>1, Climb
<1> QED
    BY <1>2

\* What is read is what its definition says.
LEMMA DemarshallIs ==
    /\ 3 * MaxWraps + 1 \in Nat
    /\ \A n \in Nat : n <= 3 * MaxWraps + 1 => ReadsOn(Demarshall, n)
<1>0. PICK m \in Nat : m = 3 * MaxWraps + 1
    BY JsonLevels
<1> DEFINE S == Wire
           T == Values[m]
           none == [kind |-> "null", keys |-> <<>>, items |-> <<>>, text |-> <<>>]
           rank == [w \in S |-> Height(Messages, w)]
           F == [p \in S \X [S -> T] |->
                    IF DemarshallOf(p[2], p[1]) \in T THEN DemarshallOf(p[2], p[1]) ELSE none]
<1>1. none \in T
    <2>1. "null" \in Kinds /\ <<>> \in Seq(Chars) /\ <<>> \in Seq(Keys)
        BY DEF Kinds
    <2>2. IsValue(none)
        BY DEF IsValue
    <2> QED
        BY Zenon, <2>1, <2>2, ValuesLevelled
<1> HIDE DEF none
<1>2. \A w \in S : \A g, h \in [S -> T] :
        (\A u \in S : rank[u] < rank[w] => g[u] = h[u]) => DemarshallOf(g, w) = DemarshallOf(h, w)
    <2> SUFFICES ASSUME NEW w \in S, NEW g \in [S -> T], NEW h \in [S -> T],
                        \A u \in S : rank[u] < rank[w] => g[u] = h[u]
                 PROVE  DemarshallOf(g, w) = DemarshallOf(h, w)
        BY Zenon
    <2>1. \A k \in DOMAIN w.items :
            /\ w.items[k] \in S /\ Height(Messages, w.items[k]) \in Nat
            /\ Height(Messages, w.items[k]) < Height(Messages, w)
        BY WireFacts
    <2>2. \A k \in DOMAIN w.items : g[w.items[k]] = h[w.items[k]]
        BY <2>1
    <2>3. w \in Messages[m] /\ Height(Messages, w) \in Nat
        BY <1>0, WireFacts DEF Wire
    <2>4. CASE w.type = <<"v">>
        <3>1. 1 \in DOMAIN w.items
            BY Zenon, <2>3, <2>4, InsideMessage
        <3> QED
            BY Zenon, <2>2, <2>4, <3>1 DEF DemarshallOf
    <2>5. CASE w.type # <<"v">> /\ IsDict(w.type)
        <3>1. ASSUME NEW k \in DOMAIN w.items
              PROVE  g[w.items[k].items[2]] = h[w.items[k].items[2]]
            <4>1. 2 \in DOMAIN w.items[k].items
                BY Zenon, <2>3, <2>5, InsideMessage
            <4>2. PICK e \in S : e = w.items[k] /\ Height(Messages, e) < Height(Messages, w)
                BY Zenon, <2>1
            <4>3. PICK u \in S : u = e.items[2] /\ Height(Messages, u) < Height(Messages, e)
                BY Zenon, <4>1, <4>2, WireFacts
            <4>4. PICK a \in Nat, b \in Nat, c \in Nat :
                    a = Height(Messages, w) /\ b = Height(Messages, e) /\ c = Height(Messages, u)
                BY WireFacts
            <4>5. c < a
                BY <4>2, <4>3, <4>4
            <4>6. g[u] = h[u]
                BY <4>4, <4>5
            <4> QED
                BY Zenon, <4>2, <4>3, <4>6
        <3>2. DemarshallMap(g, w) = DemarshallMap(h, w)
            BY Zenon, <3>1 DEF DemarshallMap
        <3> QED
            BY Zenon, <2>5, <3>2 DEF DemarshallOf
    <2>6. CASE w.type # <<"v">> /\ ~IsDict(w.type)
        <3>1. DemarshallItems(g, w) = DemarshallItems(h, w)
            BY Zenon, <2>2 DEF DemarshallItems
        <3> QED
            BY Zenon, <2>6, <3>1 DEF DemarshallOf
    <2> QED
        BY <2>4, <2>5, <2>6
<1>3. rank \in [S -> Nat]
    BY WireFacts
<1>4. F \in [S \X [S -> T] -> T]
    BY <1>1
<1>5. \A x \in S, g \in [S -> T] :
        F[<<x, g>>] = IF DemarshallOf(g, x) \in T THEN DemarshallOf(g, x) ELSE none
    OBVIOUS
<1>6. IsRecursion(S, T, rank, F)
    <2>1. T # {}
        BY <1>1
    <2> HIDE DEF S, T, rank, F
    <2>2. \A x \in S : \A g, h \in [S -> T] :
            (\A y \in S : rank[y] < rank[x] => g[y] = h[y]) => F[<<x, g>>] = F[<<x, h>>]
        BY <1>2, <1>5
    <2> QED
        BY Zenon, <1>3, <1>4, <2>1, <2>2 DEF IsRecursion
<1> HIDE DEF rank, F
<1>7. PICK f \in [S -> T] : \A x \in S : f[x] = F[<<x, f>>]
    <2> HIDE DEF S, T
    <2> QED
        BY <1>6, RecursionExists
<1>8. \A w \in Wire : DemarshallOf(f, w) \in Values[m] => f[w] = DemarshallOf(f, w)
    BY <1>5, <1>7
<1>l. ASSUME NEW g, \A w \in Wire : DemarshallOf(g, w) \in Values[m] => g[w] = DemarshallOf(g, w)
      PROVE  \A n \in Nat : n <= m => ReadsOn(g, n)
    <2>1. ASSUME NEW n \in Nat, n <= m, NEW w \in Messages[n], DemarshallOf(g, w) \in Values[n]
          PROVE  g[w] = DemarshallOf(g, w)
        <3>1. Messages[n] \subseteq Messages[m] /\ Values[n] \subseteq Values[m]
            BY <2>1, ValuesLevelled, MessagesLevelled, LevelUp
        <3>2. w \in Wire /\ DemarshallOf(g, w) \in Values[m]
            BY <1>0, <2>1, <3>1 DEF Wire
        <3> QED
            BY Zenon, <1>l, <3>2
    <2> QED
        BY Zenon, <2>1, DemarshallLevels
<1>9. \A w \in Wire : f[w] = DemarshallOf(f, w)
    <2>1. ReadsOn(f, m)
        <3>1. m <= m
            OBVIOUS
        <3> QED
            BY Zenon, <1>8, <1>l, <3>1
    <2> QED
        BY Zenon, <1>0, <2>1 DEF ReadsOn, Wire
<1>10. f = [w \in Wire |-> DemarshallOf(f, w)]
    <2>1. f = [w \in Wire |-> f[w]]
        BY <1>7
    <2> QED
        BY Zenon, <1>9, <2>1
<1>11. Demarshall = CHOOSE g : g = [w \in Wire |-> DemarshallOf(g, w)]
    BY DEF Demarshall, DemarshallOf
<1>12. Demarshall = [w \in Wire |-> DemarshallOf(Demarshall, w)]
    BY Zenon, <1>10, <1>11
<1>13. \A w \in Wire : Demarshall[w] = DemarshallOf(Demarshall, w)
    BY <1>12
<1>14. \A n \in Nat : n <= m => ReadsOn(Demarshall, n)
    BY Zenon, <1>13, <1>l
<1> QED
    BY Zenon, <1>0, <1>14

-----------------------------------------------------------------------------
(* What is checked and built, by the kind of the type. *)

\* r is the verdict on v, for a complete type.
IsChecked(r, v, t, d) ==
    /\ r \in Verdicts
    /\ d > MaxMessageDepth => r = "depth"
    /\ d <= MaxMessageDepth =>
        /\ IsBasic(t) => r = IF CoerceBasic(v, t[1]) THEN "fine" ELSE "type"
        /\ t = <<"v">> => r = Check[<<"variant", v, <<>>, d + 1>>]
        /\ IsDict(t) => r = CheckMap(Check, v, t, d)
        /\ t = <<"a", "s">> => r = CheckStrings(v)
        /\ IsList(t) /\ t # <<"a", "s">> => r = CheckArray(Check, v, t, d)
        /\ IsStruct(t) => r = CheckStruct(Check, v, t, d)

\* The verdict of pass 1 by the kind of the type.
LEMMA CheckCases ==
    ASSUME NEW v \in JSON, NEW t \in Seq(Chars), IsSingleCompleteType(t), NEW d \in Nat
    PROVE  IsChecked(Check[<<"value", v, t, d>>], v, t, d)
<1>1. PICK r \in Verdicts : r = Check[<<"value", v, t, d>>] /\ r = CheckValue(Check, v, t, d)
    BY Zenon, CheckIs
<1>2. OfKind(t)
    BY Zenon, KindOfType
<1>3. MaxMessageDepth \in Nat
    BY CoercerAssumption
<1>4. ASSUME d > MaxMessageDepth PROVE r = "depth"
    BY Zenon, <1>1, <1>4 DEF CheckValue
<1>5. ASSUME ~(d > MaxMessageDepth)
      PROVE  /\ IsBasic(t) => r = IF CoerceBasic(v, t[1]) THEN "fine" ELSE "type"
             /\ t = <<"v">> => r = Check[<<"variant", v, <<>>, d + 1>>]
             /\ IsDict(t) => r = CheckMap(Check, v, t, d)
             /\ t = <<"a", "s">> => r = CheckStrings(v)
             /\ IsList(t) /\ t # <<"a", "s">> => r = CheckArray(Check, v, t, d)
             /\ IsStruct(t) => r = CheckStruct(Check, v, t, d)
    <2>1. r = IF IsBasic(t) THEN (IF CoerceBasic(v, t[1]) THEN "fine" ELSE "type")
              ELSE IF t = <<"v">> THEN Check[<<"variant", v, <<>>, d + 1>>]
              ELSE IF t = <<"a", "s">> THEN CheckStrings(v)
              ELSE IF IsDict(t) THEN CheckMap(Check, v, t, d)
              ELSE IF t[1] = "a" THEN CheckArray(Check, v, t, d)
              ELSE CheckStruct(Check, v, t, d)
        BY Zenon, <1>1, <1>5 DEF CheckValue
    <2>2. CASE IsBasic(t)
        <3>1. t # <<"v">> /\ t # <<"a", "s">> /\ ~IsDict(t) /\ ~IsList(t) /\ ~IsStruct(t)
            BY Zenon, <1>2, <2>2 DEF OfKind
        <3> QED
            BY Zenon, <2>1, <2>2, <3>1
    <2>3. CASE t = <<"v">>
        <3>1. ~IsBasic(t) /\ t # <<"a", "s">> /\ ~IsDict(t) /\ ~IsList(t) /\ ~IsStruct(t)
            BY Zenon, <1>2, <2>3 DEF OfKind
        <3> QED
            BY Zenon, <2>1, <2>3, <3>1
    <2>4. CASE IsDict(t)
        <3>1. ~IsBasic(t) /\ t # <<"v">> /\ t # <<"a", "s">> /\ ~IsList(t) /\ ~IsStruct(t)
            BY Zenon, <1>2, <2>4 DEF OfKind
        <3> QED
            BY Zenon, <2>1, <2>4, <3>1
    <2>5. CASE IsList(t)
        <3>1. ~IsBasic(t) /\ t # <<"v">> /\ t[1] = "a" /\ ~IsDict(t) /\ ~IsStruct(t)
            BY Zenon, <1>2, <2>5 DEF OfKind
        <3> QED
            BY Zenon, <2>1, <2>5, <3>1
    <2>6. CASE IsStruct(t)
        <3>1. ~IsBasic(t) /\ t # <<"v">> /\ t # <<"a", "s">> /\ ~IsDict(t) /\ ~IsList(t) /\ t[1] # "a"
            BY Zenon, <1>2, <2>6 DEF OfKind
        <3> QED
            BY Zenon, <2>1, <2>6, <3>1
    <2> QED
        BY Zenon, <1>2, <2>2, <2>3, <2>4, <2>5, <2>6 DEF OfKind
<1>6. d <= MaxMessageDepth => ~(d > MaxMessageDepth)
    BY <1>3
<1> QED
    BY Zenon, <1>1, <1>4, <1>5, <1>6 DEF IsChecked

\* w is a list of those items.
IsListOf(w, c, t, items) ==
    /\ w \in Wire /\ w.type = t /\ w.content = "none" /\ DOMAIN w.items = 1 .. c
    /\ \A k \in 1 .. c : w.items[k] \in Wire /\ w.items[k] = items[k]

\* e is an entry of a map.
IsEntryOf(e, key, t, u) ==
    /\ e \in Wire /\ e.type = <<"{">> /\ e.content = "none" /\ e.items = <<KeyScalar(key, t), u>>
    /\ DOMAIN e.items = {1, 2} /\ e.items[1] = KeyScalar(key, t) /\ e.items[2] = u
    /\ KeyScalar(key, t) \in Wire /\ u \in Wire /\ key \in Keys

\* w is a map of those values, of the keys of v.
IsMapOf(w, c, v, t, values) ==
    /\ w \in Wire /\ w.type = t /\ w.content = "none" /\ DOMAIN w.items = 1 .. c
    /\ \A k \in 1 .. c : IsEntryOf(w.items[k], v.keys[k], DictKey(t), values[k])
    /\ KeysOf(w) = [k \in 1 .. c |-> IF DictKey(t) = "i" THEN "numeral" ELSE v.keys[k]]

\* Off their level.
LEMMA ListsOnWire ==
    ASSUME NEW w \in Wire, NEW l, NEW t, NEW c \in Nat, NEW items, Made(w, l, t, items, "none"),
           DOMAIN items = 1 .. c
    PROVE  IsListOf(w, c, t, items)
<1>1. \A k \in DOMAIN w.items : w.items[k] \in Wire
    BY WireFacts
<1> QED
    BY Zenon, <1>1 DEF Made, IsListOf

\* What is said of a map at its level holds of it as a D-Bus value; the next
\* lemmas are the same of the other kinds.
LEMMA MapsOnWire ==
    ASSUME NEW w \in Wire, NEW l, NEW m, NEW c \in Nat, NEW v, NEW t, NEW values,
           IsMap(w, l, m, c, v, t, values)
    PROVE  IsMapOf(w, c, v, t, values)
<1>1. \A k \in DOMAIN w.items : w.items[k] \in Wire
    BY WireFacts
<1>2. ASSUME NEW k \in 1 .. c PROVE IsEntryOf(w.items[k], v.keys[k], DictKey(t), values[k])
    <2>1. PICK e : e = w.items[k]
        OBVIOUS
    <2>2. e \in Wire /\ e.type = <<"{">> /\ e.content = "none" /\ v.keys[k] \in Keys
        BY Zenon, <1>1, <2>1 DEF IsMap, AreEntries
    <2>3. e.items = <<KeyScalar(v.keys[k], DictKey(t)), values[k]>>
        BY Zenon, <2>1 DEF IsMap, AreEntries
    <2>4. DOMAIN e.items = {1, 2} /\ e.items[1] = KeyScalar(v.keys[k], DictKey(t)) /\ e.items[2] = values[k]
        BY <2>3
    <2>5. KeyScalar(v.keys[k], DictKey(t)) \in Wire /\ values[k] \in Wire
        <3>1. \A i \in DOMAIN e.items : e.items[i] \in Wire
            BY <2>2, WireFacts
        <3>2. 1 \in DOMAIN e.items /\ 2 \in DOMAIN e.items
            BY <2>4
        <3> QED
            BY Zenon, <2>4, <3>1, <3>2
    <2> QED
        BY Zenon, <2>1, <2>2, <2>3, <2>4, <2>5 DEF IsEntryOf
<1> QED
    BY Zenon, <1>2 DEF IsMap, IsMapOf

\* What is built of v on its level, and on the wire.
LEMMA BuildFacts ==
    ASSUME NEW n \in Nat, n <= MaxWraps, NEW v \in Values[n]
    PROVE  /\ v \in JSON
           /\ \E c \in Nat, m \in Nat, p \in Nat, l \in Nat, h \in Nat :
                /\ c = Len(v.items) /\ DOMAIN v.items = 1 .. c
                /\ Build[<<"variant", v, <<>>>>] \in Wire
                /\ IsHeld(Build[<<"variant", v, <<>>>>], l, m, c, v, Build)
                /\ \A t \in Seq(Chars) : IsSingleCompleteType(t) =>
                    Build[<<"value", v, t>>] \in Wire
                    /\ IsBuilt(Build[<<"value", v, t>>], h, p, c, v, t, Build)
<1>1. n = 0 \/ BuildsOn(Build, n - 1)
    <2>1. n # 0 => n - 1 \in Nat /\ n - 1 <= MaxWraps
        BY JsonLevels
    <2> QED
        BY Zenon, <2>1, BuildIs
<1>2. BuildsOn(Build, n)
    BY Zenon, BuildIs
<1>3. PICK c \in Nat, m \in Nat, p \in Nat, l \in Nat :
        /\ c = Len(v.items) /\ DOMAIN v.items = 1 .. c /\ l = 3 * n
        /\ IsHeld(VariantContent(Build, v), l, m, c, v, Build)
        /\ Build[<<"variant", v, <<>>>>] \in Messages[l] =>
            \A type \in Seq(Chars) : IsSingleCompleteType(type) =>
                IsBuilt(BuildValue(Build, v, type), l + 1, p, c, v, type, Build)
    BY Zenon, <1>1, BuildStep
<1>4. v \in JSON
    BY Zenon, <1>1, BuildStep
<1>5. /\ Messages[3 * n] \subseteq Wire /\ Messages[3 * n + 1] \subseteq Wire
      /\ 3 * n \in Nat /\ 3 * n + 1 \in Nat /\ <<>> \in Seq(Chars)
    BY Zenon, JsonLevels, CharsAre
<1>6. /\ Build[<<"variant", v, <<>>>>] = VariantContent(Build, v)
      /\ Build[<<"variant", v, <<>>>>] \in Messages[l]
    BY Zenon, <1>2, <1>3, <1>5 DEF BuildsOn
<1>7. Build[<<"variant", v, <<>>>>] \in Wire
    BY <1>3, <1>5, <1>6
<1>8. PICK h \in Nat : h = l + 1
    OBVIOUS
<1>9. ASSUME NEW t \in Seq(Chars), IsSingleCompleteType(t)
      PROVE  /\ Build[<<"value", v, t>>] \in Wire
             /\ IsBuilt(Build[<<"value", v, t>>], h, p, c, v, t, Build)
    <2>1. /\ Build[<<"value", v, t>>] = BuildValue(Build, v, t)
          /\ Build[<<"value", v, t>>] \in Messages[3 * n + 1]
        BY Zenon, <1>2 DEF BuildsOn
    <2>2. Build[<<"value", v, t>>] \in Wire
        BY <1>5, <2>1
    <2> QED
        BY Zenon, <1>3, <1>6, <1>8, <1>9, <2>1, <2>2
<1>10. /\ c = Len(v.items) /\ DOMAIN v.items = 1 .. c
       /\ IsHeld(Build[<<"variant", v, <<>>>>], l, m, c, v, Build)
    BY Zenon, <1>3, <1>6
<1>11. \A t \in Seq(Chars) : IsSingleCompleteType(t) =>
                    Build[<<"value", v, t>>] \in Wire
                    /\ IsBuilt(Build[<<"value", v, t>>], h, p, c, v, t, Build)
    BY Zenon, <1>9
<1> QED
    BY Zenon, <1>4, <1>7, <1>10, <1>11

\* w is a value that holds no others.
IsLeafOf(w, t, content) == w \in Wire /\ w.type = t /\ DOMAIN w.items = {} /\ w.content = content

\* w is what v is made into without a type, when its items are made into g.
IsPlain(w, c, v, g) ==
    /\ w \in Wire
    /\ v.kind \in {"array", "object"} =>
        \A k \in 1 .. c : IsListOf(Variants(v, g)[k], 1, <<"v">>, <<g[k]>>)
    /\ v.kind = "array" => IsListOf(w, c, <<"a", "v">>, Variants(v, g))
    /\ v.kind = "object" => IsMapOf(w, c, v, AnyMap, Variants(v, g))
    /\ v.kind = "integer" => IsLeafOf(w, <<"i">>, "integer")
    /\ v.kind = "null" => w.type = <<>>
    /\ v.kind \in {"text", "numeral"} => IsLeafOf(w, <<"s">>, v.kind)

\* A value without items.
LEMMA LeavesOnWire ==
    ASSUME NEW w \in Wire, NEW l, NEW t, NEW content, Made(w, l, t, <<>>, content)
    PROVE  IsLeafOf(w, t, content)
<1>1. w.type = t /\ w.items = <<>> /\ w.content = content
    BY Zenon DEF Made
<1>2. DOMAIN w.items = {}
    BY <1>1
<1> QED
    BY Zenon, <1>1, <1>2 DEF IsLeafOf

\* The items of v as variants are on the wire, when w holds them.
LEMMA VariantsOnWire ==
    ASSUME NEW w \in Wire, NEW l, NEW m, NEW c \in Nat, NEW v, NEW g, IsNatural(w, l, m, c, v, g),
           v.kind \in {"array", "object"}, NEW k \in 1 .. c
    PROVE  Variants(v, g)[k] \in Wire
<1>1. PICK h : h = Variants(v, g)
    OBVIOUS
<1>2. CASE v.kind = "array"
    <2>1. Made(w, l, <<"a", "v">>, h, "none") /\ AreVariants(h, m, c, g)
        BY Zenon, <1>1, <1>2 DEF IsNatural
    <2>2. DOMAIN h = 1 .. c
        BY Zenon, <2>1 DEF AreVariants
    <2>3. IsListOf(w, c, <<"a", "v">>, h)
        BY Zenon, <2>1, <2>2, ListsOnWire
    <2> QED
        BY Zenon, <1>1, <2>3 DEF IsListOf
<1>3. CASE v.kind = "object"
    <2>1. IsMap(w, l, m + 1, c, v, AnyMap, h)
        BY Zenon, <1>1, <1>3 DEF IsNatural
    <2>2. IsMapOf(w, c, v, AnyMap, h)
        BY Zenon, <2>1, MapsOnWire
    <2> QED
        BY Zenon, <1>1, <2>2 DEF IsMapOf, IsEntryOf
<1> QED
    BY Zenon, <1>2, <1>3

\* A natural mapping.
LEMMA PlainOnWire ==
    ASSUME NEW w \in Wire, NEW l, NEW m, NEW c \in Nat, NEW v, NEW g, DOMAIN v.items = 1 .. c,
           IsNatural(w, l, m, c, v, g)
    PROVE  IsPlain(w, c, v, g)
<1>1. ASSUME v.kind \in {"array", "object"}, NEW k \in 1 .. c
      PROVE  IsListOf(Variants(v, g)[k], 1, <<"v">>, <<g[k]>>)
    <2>1. PICK u : u = Variants(v, g)[k]
        OBVIOUS
    <2>2. PICK x : x = g[k]
        OBVIOUS
    <2>3. u \in Wire /\ u.type = <<"v">> /\ u.content = "none" /\ u.items = <<x>>
        <3>1. u \in Wire
            BY Zenon, <1>1, <2>1, VariantsOnWire
        <3>2. AreVariants(Variants(v, g), m, c, g)
            BY Zenon, <1>1 DEF IsNatural
        <3> QED
            BY Zenon, <1>1, <2>1, <2>2, <3>1, <3>2 DEF AreVariants
    <2>4. DOMAIN u.items = 1 .. 1 /\ u.items[1] = x
        BY <2>3
    <2>5. x \in Wire
        <3>1. \A i \in DOMAIN u.items : u.items[i] \in Wire
            BY <2>3, WireFacts
        <3>2. 1 \in DOMAIN u.items
            BY <2>3
        <3> QED
            BY Zenon, <2>4, <3>1, <3>2
    <2>6. \A k1 \in 1 .. 1 : u.items[k1] \in Wire /\ u.items[k1] = <<x>>[k1]
        BY <2>3, <2>5
    <2> QED
        BY Zenon, <2>1, <2>2, <2>3, <2>4, <2>6 DEF IsListOf
<1>2. v.kind = "array" => IsListOf(w, c, <<"a", "v">>, Variants(v, g))
    <2>1. DOMAIN Variants(v, g) = 1 .. c
        BY Zenon DEF Variants
    <2>2. v.kind = "array" => Made(w, l, <<"a", "v">>, Variants(v, g), "none")
        BY Zenon DEF IsNatural
    <2> QED
        BY Zenon, <2>1, <2>2, ListsOnWire
<1>3. v.kind = "object" => IsMapOf(w, c, v, AnyMap, Variants(v, g))
    <2>1. v.kind = "object" => IsMap(w, l, m + 1, c, v, AnyMap, Variants(v, g))
        BY Zenon DEF IsNatural
    <2> QED
        BY Zenon, <2>1, MapsOnWire
<1>4. v.kind = "integer" => IsLeafOf(w, <<"i">>, "integer")
    BY Zenon, LeavesOnWire DEF IsNatural
<1>5. v.kind \in {"text", "numeral"} => IsLeafOf(w, <<"s">>, v.kind)
    BY Zenon, LeavesOnWire DEF IsNatural
<1>6. v.kind = "null" => w.type = <<>>
    BY Zenon DEF IsNatural, Made
<1> QED
    BY Zenon, <1>1, <1>2, <1>3, <1>4, <1>5, <1>6 DEF IsPlain

\* What is built of v for the type t, on the wire.
IsBuiltOf(w, c, v, t) ==
    /\ w \in Wire
    /\ IsBasic(t) => w = BasicValue(v, t[1])
    /\ t = <<"v">> => IsListOf(w, 1, t, <<Build[<<"variant", v, <<>>>>]>>)
    /\ IsDict(t) /\ v.kind = "object" =>
        IsMapOf(w, c, v, t, [k \in 1 .. c |-> Build[<<"value", v.items[k], DictValue(t)>>]])
    /\ IsList(t) /\ v.kind = "array" =>
        IsListOf(w, c, t, [k \in 1 .. c |-> Build[<<"value", v.items[k], Tail(t)>>]])
    /\ IsStruct(t) /\ v.kind = "array" /\ Len(StructFields(t)) = c =>
        IsListOf(w, c, t, [k \in 1 .. c |-> Build[<<"value", v.items[k], StructFields(t)[k]>>]])

\* What pass 2 makes of a type.
LEMMA BuiltOnWire ==
    ASSUME NEW w \in Wire, NEW l, NEW m, NEW c \in Nat, NEW v, NEW t,
           IsBuilt(w, l, m, c, v, t, Build)
    PROVE  IsBuiltOf(w, c, v, t)
<1>1. IsBasic(t) => w = BasicValue(v, t[1])
    BY Zenon DEF IsBuilt
<1>2. t = <<"v">> => IsListOf(w, 1, t, <<Build[<<"variant", v, <<>>>>]>>)
    <2>1. PICK x : x = Build[<<"variant", v, <<>>>>]
        OBVIOUS
    <2>2. t = <<"v">> => Made(w, l, t, <<x>>, "none")
        BY Zenon, <2>1 DEF IsBuilt
    <2>3. DOMAIN <<x>> = 1 .. 1 /\ 1 \in Nat
        OBVIOUS
    <2>4. t = <<"v">> => IsListOf(w, 1, t, <<x>>)
        BY Zenon, <2>2, <2>3, ListsOnWire
    <2> QED
        BY Zenon, <2>1, <2>4
<1>3. ASSUME IsDict(t), v.kind = "object"
      PROVE  IsMapOf(w, c, v, t, [k \in 1 .. c |-> Build[<<"value", v.items[k], DictValue(t)>>]])
    <2>1. PICK h : h = [k \in 1 .. c |-> Build[<<"value", v.items[k], DictValue(t)>>]]
        OBVIOUS
    <2>2. IsMap(w, l, m, c, v, t, h)
        BY Zenon, <1>3, <2>1 DEF IsBuilt
    <2>3. IsMapOf(w, c, v, t, h)
        BY Zenon, <2>2, MapsOnWire
    <2> QED
        BY Zenon, <2>1, <2>3
<1>4. ASSUME IsList(t), v.kind = "array"
      PROVE  IsListOf(w, c, t, [k \in 1 .. c |-> Build[<<"value", v.items[k], Tail(t)>>]])
    <2>1. PICK h : h = [k \in 1 .. c |-> Build[<<"value", v.items[k], Tail(t)>>]]
        OBVIOUS
    <2>2. Made(w, l, t, h, "none") /\ DOMAIN h = 1 .. c
        BY Zenon, <1>4, <2>1 DEF IsBuilt
    <2>3. IsListOf(w, c, t, h)
        BY Zenon, <2>2, ListsOnWire
    <2> QED
        BY Zenon, <2>1, <2>3
<1>5. ASSUME IsStruct(t), v.kind = "array", Len(StructFields(t)) = c
      PROVE  IsListOf(w, c, t, [k \in 1 .. c |-> Build[<<"value", v.items[k], StructFields(t)[k]>>]])
    <2>1. PICK h : h = [k \in 1 .. c |-> Build[<<"value", v.items[k], StructFields(t)[k]>>]]
        OBVIOUS
    <2>2. Made(w, l, t, h, "none") /\ DOMAIN h = 1 .. c
        BY Zenon, <1>5, <2>1 DEF IsBuilt
    <2>3. IsListOf(w, c, t, h)
        BY Zenon, <2>2, ListsOnWire
    <2> QED
        BY Zenon, <2>1, <2>3
<1> QED
    BY Zenon, <1>1, <1>2, <1>3, <1>4, <1>5 DEF IsBuiltOf

\* What a variant is made to hold, on the wire.
IsHeldOf(w, c, v) ==
    /\ w \in Wire
    /\ IsTyped(v) => w = Build[<<"value", Inner(v), NamedType(v)>>]
    /\ ~IsTyped(v) => IsPlain(w, c, v, [k \in DOMAIN v.items |-> Build[<<"variant", v.items[k], <<>>>>]])

\* What is made of v without a type, for a variant and for a type.
HasShapes(v, c) ==
    /\ v \in JSON /\ c \in Nat /\ c = Len(v.items) /\ DOMAIN v.items = 1 .. c
    /\ IsPlain(Natural[v], c, v, [k \in DOMAIN v.items |-> Natural[v.items[k]]])
    /\ IsHeldOf(Build[<<"variant", v, <<>>>>], c, v)
    /\ \A t \in Seq(Chars) : IsSingleCompleteType(t) => IsBuiltOf(Build[<<"value", v, t>>], c, v, t)

\* What Natural is, by the kind of the value.
LEMMA NaturalShape ==
    ASSUME NEW v \in JSON, NEW c \in Nat, c = Len(v.items), DOMAIN v.items = 1 .. c
    PROVE  IsPlain(Natural[v], c, v, [k \in DOMAIN v.items |-> Natural[v.items[k]]])
<1>1. v \in Values[MaxWraps] /\ MaxWraps \in Nat /\ MaxWraps <= MaxWraps
    BY JsonLevels
<1>2. Natural[v] = NaturalOf(Natural, v) /\ Natural[v] \in Messages[3 * MaxWraps]
    BY Zenon, <1>1, NaturalIs
<1>3. 3 * MaxWraps \in Nat /\ Messages[3 * MaxWraps] \subseteq Wire
    BY Zenon, <1>1, JsonLevels
<1>4. PICK w : w = Natural[v]
    OBVIOUS
<1>5. w \in Wire /\ w = NaturalOf(Natural, v)
    BY <1>2, <1>3, <1>4
<1>6. PICK m \in Nat : (c = 0 \/ m + 3 <= 3 * MaxWraps) /\ \A k \in 1 .. c : Natural[v.items[k]] \in Messages[m]
    <2>1. CASE c = 0
        <3>1. \A k \in 1 .. c : Natural[v.items[k]] \in Messages[0]
            BY <2>1
        <3> QED
            BY Zenon, <2>1, <3>1, <1>1, 0 \in Nat
    <2>2. CASE c # 0
        <3>1. v.items # <<>>
            BY <2>2
        <3>2. MaxWraps > 0 /\ v.items \in Seq(Values[MaxWraps - 1])
            BY <1>1, <3>1, ValueFacts
        <3>3. \A k \in 1 .. c : v.items[k] \in Values[MaxWraps - 1]
            BY <3>2
        <3>4. PICK o \in Nat : o = MaxWraps - 1
            BY <1>1, <3>2
        <3>5. o <= MaxWraps /\ 3 * o \in Nat /\ 3 * o + 3 <= 3 * MaxWraps
            BY <1>1, <3>4
        <3>6. \A x \in Values[o] : Natural[x] \in Messages[3 * o]
            BY Zenon, <3>5, NaturalIs
        <3>7. \A k \in 1 .. c : Natural[v.items[k]] \in Messages[3 * o]
            BY Zenon, <3>3, <3>4, <3>6
        <3> QED
            BY Zenon, <3>5, <3>7
    <2> QED
        BY Zenon, <2>1, <2>2
<1>7. PICK g : g = [k \in DOMAIN v.items |-> Natural[v.items[k]]]
    OBVIOUS
<1>8. IsNatural(w, 3 * MaxWraps, m, c, v, g)
    BY Zenon, <1>1, <1>3, <1>5, <1>6, <1>7, NaturalMade
<1>9. IsPlain(w, c, v, g)
    BY Zenon, <1>5, <1>8, PlainOnWire
<1> QED
    BY Zenon, <1>4, <1>7, <1>9

\* What a variant holds, by the kind of the value.
LEMMA HeldShape ==
    ASSUME NEW w \in Wire, NEW l, NEW m, NEW c \in Nat, NEW v, DOMAIN v.items = 1 .. c,
           IsHeld(w, l, m, c, v, Build)
    PROVE  IsHeldOf(w, c, v)
<1>1. PICK g : g = [k \in DOMAIN v.items |-> Build[<<"variant", v.items[k], <<>>>>]]
    OBVIOUS
<1>2. ~IsTyped(v) => IsPlain(w, c, v, g)
    <2>1. ~IsTyped(v) => IsNatural(w, l, m, c, v, g)
        BY Zenon, <1>1 DEF IsHeld
    <2> QED
        BY Zenon, <2>1, PlainOnWire
<1> QED
    BY Zenon, <1>1, <1>2 DEF IsHeld, IsHeldOf

\* There are those shapes of every JSON value.
LEMMA Shapes ==
    ASSUME NEW v \in JSON
    PROVE  \E c \in Nat : HasShapes(v, c)
<1>1. v \in Values[MaxWraps] /\ MaxWraps \in Nat /\ MaxWraps <= MaxWraps
    BY JsonLevels
<1>2. PICK c \in Nat, m \in Nat, p \in Nat, l \in Nat, h \in Nat :
        /\ c = Len(v.items) /\ DOMAIN v.items = 1 .. c
        /\ Build[<<"variant", v, <<>>>>] \in Wire
        /\ IsHeld(Build[<<"variant", v, <<>>>>], l, m, c, v, Build)
        /\ \A t \in Seq(Chars) : IsSingleCompleteType(t) =>
            Build[<<"value", v, t>>] \in Wire
            /\ IsBuilt(Build[<<"value", v, t>>], h, p, c, v, t, Build)
    BY Zenon, <1>1, BuildFacts
<1>3. IsHeldOf(Build[<<"variant", v, <<>>>>], c, v)
    BY Zenon, <1>2, HeldShape
<1>4. ASSUME NEW t \in Seq(Chars), IsSingleCompleteType(t)
      PROVE  IsBuiltOf(Build[<<"value", v, t>>], c, v, t)
    BY Zenon, <1>2, <1>4, BuiltOnWire
<1>5. IsPlain(Natural[v], c, v, [k \in DOMAIN v.items |-> Natural[v.items[k]]])
    BY Zenon, <1>2, NaturalShape
<1> QED
    BY Zenon, <1>2, <1>3, <1>4, <1>5 DEF HasShapes

-----------------------------------------------------------------------------
(* What holds of all parts of a value. *)

\* What IsWellTyped asks of one part.
HoldsItsType(w) == w.type = <<"{">> \/ HoldsWhatItsTypeSays(w)

\* Each part of w holds what its type says, and none is too deep, d containers around w.
Fits(w, d) == \A p \in Parts[w] : HoldsItsType(p[2]) /\ d + p[1] <= MaxMessageDepth

\* A part of w, d containers around w, is too deep by what its type nests.
Deep(w, d) == \E p \in Parts[w] : d + p[1] + TypeDepth(p[2].type) > MaxMessageDepth

\* No key of w reserves its object.
IsFree(w) == \A p \in Parts[w] : p[2].content # "@dbus"

\* A value fits at a depth when it holds what its type says and its items fit
\* one container deeper.
LEMMA FitsUp ==
    ASSUME NEW w \in Wire, NEW d \in Nat, HoldsItsType(w), d <= MaxMessageDepth,
           \A k \in DOMAIN w.items : Fits(w.items[k], d + 1)
    PROVE  Fits(w, d)
<1>1. HasParts(w)
    BY PartsHave
<1>2. ASSUME NEW p \in Parts[w]
      PROVE  HoldsItsType(p[2]) /\ d + p[1] <= MaxMessageDepth
    <2>1. CASE p = <<0, w>>
        <3>1. p[1] = 0 /\ p[2] = w
            BY <2>1
        <3>2. HoldsItsType(p[2])
            BY Zenon, <3>1
        <3>3. d + p[1] <= MaxMessageDepth
            BY <3>1
        <3> QED
            BY Zenon, <3>2, <3>3
    <2>2. CASE \E k \in DOMAIN w.items : \E q \in Parts[w.items[k]] :
                    p[1] = q[1] + 1 /\ p[2] = q[2] /\ q[1] \in Nat
        <3>0. PICK k \in DOMAIN w.items : \E q \in Parts[w.items[k]] :
                    p[1] = q[1] + 1 /\ p[2] = q[2] /\ q[1] \in Nat
            BY Zenon, <2>2
        <3>1. PICK q \in Parts[w.items[k]] : p[1] = q[1] + 1 /\ p[2] = q[2] /\ q[1] \in Nat
            BY Zenon, <3>0
        <3>2. HoldsItsType(q[2]) /\ d + 1 + q[1] <= MaxMessageDepth
            BY Zenon, <3>1 DEF Fits
        <3>3. d + (q[1] + 1) <= MaxMessageDepth
            BY <3>1, <3>2, CoercerAssumption
        <3> QED
            BY Zenon, <3>1, <3>2, <3>3
    <2> QED
        BY Zenon, <1>1, <2>1, <2>2 DEF HasParts
<1> QED
    BY Zenon, <1>2 DEF Fits

\* A value whose type nests too deep is too deep.
LEMMA DeepNow ==
    ASSUME NEW w \in Wire, NEW d \in Nat, d + TypeDepth(w.type) > MaxMessageDepth
    PROVE  Deep(w, d)
<1>1. HasParts(w)
    BY PartsHave
<1>2. PICK p : p = <<0, w>>
    OBVIOUS
<1>3. p \in Parts[w]
    BY Zenon, <1>1, <1>2 DEF HasParts
<1>4. p[1] = 0 /\ p[2] = w
    BY <1>2
<1>5. d + p[1] = d
    BY <1>4
<1>6. d + p[1] + TypeDepth(p[2].type) > MaxMessageDepth
    BY Zenon, <1>4, <1>5
<1> QED
    BY Zenon, <1>3, <1>6 DEF Deep

\* A D-Bus value has a type, of some depth, and a content.
LEMMA WireTyped ==
    ASSUME NEW w \in Wire
    PROVE  w.type \in Seq(Chars) /\ TypeDepth(w.type) \in Nat /\ w.content \in ContentKinds
<1>1. w \in Messages[3 * MaxWraps + 1] /\ 3 * MaxWraps + 1 \in Nat
    BY Zenon, DemarshallIs DEF Wire
<1>2. w.type \in Seq(Chars) /\ w.content \in ContentKinds
    BY Zenon, <1>1, MessageFacts
<1> QED
    BY Zenon, <1>2, DepthTyped

\* A value in more containers than the limit is too deep.
LEMMA DeepAlready ==
    ASSUME NEW w \in Wire, NEW d \in Nat, d > MaxMessageDepth
    PROVE  Deep(w, d)
<1>1. TypeDepth(w.type) \in Nat
    BY Zenon, WireTyped
<1>2. PICK n \in Nat : n = TypeDepth(w.type)
    BY Zenon, <1>1
<1>3. d + n > MaxMessageDepth
    BY CoercerAssumption
<1> QED
    BY Zenon, <1>2, <1>3, DeepNow

\* A value with a part that is too deep is too deep.
LEMMA DeepUp ==
    ASSUME NEW w \in Wire, NEW d \in Nat, NEW k \in DOMAIN w.items, Deep(w.items[k], d + 1)
    PROVE  Deep(w, d)
<1>1. HasParts(w)
    BY PartsHave
<1>2. PICK q \in Parts[w.items[k]] : d + 1 + q[1] + TypeDepth(q[2].type) > MaxMessageDepth
    BY Zenon DEF Deep
<1>3. PICK p : p = <<q[1] + 1, q[2]>>
    OBVIOUS
<1>4. p \in Parts[w]
    BY Zenon, <1>1, <1>3 DEF HasParts
<1>5. p[1] = q[1] + 1 /\ p[2] = q[2]
    BY <1>3
<1>6. q[1] \in Nat
    <2>1. w.items[k] \in Wire
        BY WireFacts
    <2>2. HasParts(w.items[k])
        BY Zenon, <2>1, PartsHave
    <2> QED
        BY Zenon, <2>2 DEF HasParts
<1>7. d + p[1] = d + 1 + q[1]
    BY <1>5, <1>6
<1>8. d + p[1] + TypeDepth(p[2].type) > MaxMessageDepth
    BY Zenon, <1>2, <1>5, <1>7
<1> QED
    BY Zenon, <1>4, <1>8 DEF Deep

\* What is complete and free is so in its parts.
LEMMA PartsInside ==
    ASSUME NEW w \in Wire
    PROVE  /\ IsFree(w) => w.content # "@dbus" /\ \A k \in DOMAIN w.items : IsFree(w.items[k])
           /\ IsComplete(w) => w.type # <<>> /\ \A k \in DOMAIN w.items : IsComplete(w.items[k])
<1>1. HasParts(w)
    BY PartsHave
<1>2. PICK o : o = <<0, w>>
    OBVIOUS
<1>3. o \in Parts[w]
    BY Zenon, <1>1, <1>2 DEF HasParts
<1>4. o[2] = w
    BY <1>2
<1>5. IsFree(w) => w.content # "@dbus"
    BY Zenon, <1>3, <1>4 DEF IsFree
<1>6. IsComplete(w) => w.type # <<>>
    BY Zenon, <1>3, <1>4 DEF IsComplete
<1>7. ASSUME NEW k \in DOMAIN w.items, NEW q \in Parts[w.items[k]]
      PROVE  /\ IsFree(w) => q[2].content # "@dbus"
             /\ IsComplete(w) => q[2].type # <<>>
    <2>1. PICK p : p = <<q[1] + 1, q[2]>>
        OBVIOUS
    <2>2. p \in Parts[w]
        BY Zenon, <1>1, <2>1 DEF HasParts
    <2>3. p[2] = q[2]
        BY <2>1
    <2> QED
        BY Zenon, <2>2, <2>3 DEF IsFree, IsComplete
<1>8. IsFree(w) => \A k \in DOMAIN w.items : IsFree(w.items[k])
    BY Zenon, <1>7 DEF IsFree
<1>9. IsComplete(w) => \A k \in DOMAIN w.items : IsComplete(w.items[k])
    BY Zenon, <1>7 DEF IsComplete
<1> QED
    BY Zenon, <1>5, <1>6, <1>8, <1>9

\* What is inside a list.
LEMMA InsideList ==
    ASSUME NEW w, NEW c \in Nat, NEW t, NEW items, IsListOf(w, c, t, items), NEW k \in 1 .. c
    PROVE  /\ items[k] \in Wire
           /\ IsFree(w) => IsFree(items[k])
           /\ IsComplete(w) => IsComplete(items[k])
           /\ \A d \in Nat : Deep(items[k], d + 1) => Deep(w, d)
<1>1. w \in Wire /\ k \in DOMAIN w.items /\ w.items[k] = items[k] /\ w.items[k] \in Wire
    BY Zenon DEF IsListOf
<1>2. ASSUME NEW d \in Nat, Deep(items[k], d + 1) PROVE Deep(w, d)
    BY Zenon, <1>1, <1>2, DeepUp
<1> QED
    BY Zenon, <1>1, <1>2, PartsInside

\* What is inside a map, two containers deep.
LEMMA InsideMap ==
    ASSUME NEW w, NEW c \in Nat, NEW v, NEW t, NEW values, IsMapOf(w, c, v, t, values), NEW k \in 1 .. c
    PROVE  /\ values[k] \in Wire
           /\ IsFree(w) => IsFree(values[k]) /\ KeyScalar(v.keys[k], DictKey(t)).content # "@dbus"
           /\ IsComplete(w) => IsComplete(values[k])
           /\ \A d \in Nat : Deep(values[k], d + 2) => Deep(w, d)
<1>1. PICK e : e = w.items[k]
    OBVIOUS
<1>2. w \in Wire /\ k \in DOMAIN w.items /\ IsEntryOf(e, v.keys[k], DictKey(t), values[k])
    BY Zenon, <1>1 DEF IsMapOf
<1>3. PICK x : x = KeyScalar(v.keys[k], DictKey(t))
    OBVIOUS
<1>4. /\ e \in Wire /\ 1 \in DOMAIN e.items /\ 2 \in DOMAIN e.items
      /\ e.items[1] = x /\ e.items[2] = values[k] /\ x \in Wire /\ values[k] \in Wire
    <2>1. /\ e \in Wire /\ DOMAIN e.items = {1, 2}
          /\ e.items[1] = x /\ e.items[2] = values[k] /\ x \in Wire /\ values[k] \in Wire
        BY Zenon, <1>2, <1>3 DEF IsEntryOf
    <2> QED
        BY <2>1
<1>5. IsFree(w) => IsFree(values[k]) /\ x.content # "@dbus"
    <2>1. IsFree(w) => IsFree(e)
        BY Zenon, <1>1, <1>2, PartsInside
    <2>2. IsFree(e) => IsFree(x) /\ IsFree(values[k])
        BY Zenon, <1>4, PartsInside
    <2> QED
        BY Zenon, <1>4, <2>1, <2>2, PartsInside
<1>6. IsComplete(w) => IsComplete(values[k])
    <2>1. IsComplete(w) => IsComplete(e)
        BY Zenon, <1>1, <1>2, PartsInside
    <2> QED
        BY Zenon, <1>4, <2>1, PartsInside
<1>7. ASSUME NEW d \in Nat, Deep(values[k], d + 2) PROVE Deep(w, d)
    <2>1. PICK f \in Nat : f = d + 1
        OBVIOUS
    <2>2. f + 1 = d + 2
        BY <2>1
    <2>3. Deep(e, f)
        BY Zenon, <1>4, <1>7, <2>2, DeepUp
    <2> QED
        BY Zenon, <1>1, <1>2, <2>1, <2>3, DeepUp
<1> QED
    BY Zenon, <1>3, <1>4, <1>5, <1>6, <1>7

-----------------------------------------------------------------------------
(* Values that fit are made of values that do. *)

\* A basic value fits wherever the limit allows a value.
LEMMA LeafFits ==
    ASSUME NEW w \in Wire, w.items = <<>>, w.content # "none", w.type \in {<<"s">>, <<"i">>},
           NEW d \in Nat, d <= MaxMessageDepth
    PROVE  Fits(w, d)
<1>1. HoldsItsType(w)
    BY Zenon DEF HoldsItsType, HoldsWhatItsTypeSays
<1>2. \A k \in DOMAIN w.items : Fits(w.items[k], d + 1)
    OBVIOUS
<1> QED
    BY Zenon, <1>1, <1>2, FitsUp

\* The types of a list of items that have types.
TypesOf(w) == [n \in DOMAIN w.items |-> w.items[n].type]

\* HoldsWhatItsTypeSays, with the types of the items named.
LEMMA TypesHeld ==
    ASSUME NEW w
    PROVE  HoldsWhatItsTypeSays(w) <=>
            IF w.content # "none" THEN w.type \in {<<"s">>, <<"i">>}
            ELSE IF w.type = <<"v">> THEN IsSingleCompleteType(TypesOf(w)[1])
            ELSE IF IsDict(w.type) THEN
                /\ DictValue(w.type) \in ElementTypes
                /\ \A n \in DOMAIN w.items :
                    /\ TypesOf(w)[n] = <<"{">>
                    /\ w.items[n].items[1].type = <<DictKey(w.type)>>
                    /\ w.items[n].items[2].type = DictValue(w.type)
            ELSE IF w.type # <<>> /\ w.type[1] = "a" THEN
                Tail(w.type) \in ElementTypes /\ Range(TypesOf(w)) \subseteq {Tail(w.type)}
            ELSE TypesOf(w) # <<>> /\ TypesOf(w) = StructFields(w.type)
BY DEF HoldsWhatItsTypeSays, TypesOf

\* A variant fits when what it holds has a single complete type and fits one
\* container deeper.
LEMMA VariantFits ==
    ASSUME NEW w, NEW x, IsListOf(w, 1, <<"v">>, <<x>>), IsSingleCompleteType(x.type),
           NEW d \in Nat, Fits(x, d + 1), d <= MaxMessageDepth
    PROVE  Fits(w, d)
<1>1. w \in Wire /\ w.type = <<"v">> /\ w.content = "none" /\ DOMAIN w.items = 1 .. 1
    BY Zenon DEF IsListOf
<1>2. \A k \in DOMAIN w.items : w.items[k] = x
    <2>1. \A k \in 1 .. 1 : w.items[k] = <<x>>[k]
        BY Zenon DEF IsListOf
    <2> QED
        BY <1>1, <2>1
<1>3. 1 \in DOMAIN w.items
    BY <1>1
<1>4. TypesOf(w)[1] = x.type
    BY Zenon, <1>2, <1>3 DEF TypesOf
<1>5. HoldsItsType(w)
    BY Zenon, <1>1, <1>4, TypesHeld DEF HoldsItsType
<1> QED
    BY Zenon, <1>1, <1>2, <1>5, FitsUp

\* An array fits when its items have its element type and fit one container
\* deeper.
LEMMA ListFits ==
    ASSUME NEW w, NEW c \in Nat, NEW t, NEW items, IsListOf(w, c, t, items), IsList(t), t # <<"v">>,
           Tail(t) \in ElementTypes, NEW d \in Nat, d <= MaxMessageDepth,
           \A k \in 1 .. c : items[k].type = Tail(t) /\ Fits(items[k], d + 1)
    PROVE  Fits(w, d)
<1>1. w \in Wire /\ w.type = t /\ w.content = "none" /\ DOMAIN w.items = 1 .. c
    BY Zenon DEF IsListOf
<1>2. \A k \in DOMAIN w.items : w.items[k].type = Tail(t) /\ Fits(w.items[k], d + 1)
    BY Zenon DEF IsListOf
<1>3. Range(TypesOf(w)) \subseteq {Tail(t)}
    BY <1>2 DEF TypesOf, Range
<1>4. ~IsDict(t) /\ t[1] = "a" /\ t # <<>>
    <2>1. ~IsDict(t) /\ t[1] = "a" /\ Len(t) > 1
        BY Zenon DEF IsList
    <2> QED
        BY <2>1
<1>5. HoldsItsType(w)
    BY Zenon, <1>1, <1>3, <1>4, TypesHeld DEF HoldsItsType
<1> QED
    BY Zenon, <1>1, <1>2, <1>5, FitsUp

\* t is a struct of c fields.
HasFields(t, c) ==
    /\ IsStruct(t) /\ t # <<"v">> /\ ~IsDict(t) /\ t[1] # "a"
    /\ StructFields(t) \in Seq(Seq(Chars)) /\ StructFields(t) # <<>> /\ Len(StructFields(t)) = c

\* c items fit, of those types, d containers around what holds them.
FitAsTypes(items, c, types, d) == \A k \in 1 .. c : items[k].type = types[k] /\ Fits(items[k], d + 1)

\* A struct fits when its items have the types of its fields and fit one
\* container deeper.
LEMMA StructFits ==
    ASSUME NEW w, NEW c \in Nat, NEW t, NEW items, IsListOf(w, c, t, items), HasFields(t, c),
           NEW d \in Nat, d <= MaxMessageDepth, FitAsTypes(items, c, StructFields(t), d)
    PROVE  Fits(w, d)
<1>1. w \in Wire /\ w.type = t /\ w.content = "none" /\ DOMAIN w.items = 1 .. c
    BY Zenon DEF IsListOf
<1>2. \A k \in DOMAIN w.items : w.items[k].type = StructFields(t)[k] /\ Fits(w.items[k], d + 1)
    BY Zenon DEF IsListOf, FitAsTypes
<1>3. PICK fs : fs = StructFields(t)
    OBVIOUS
<1>4. fs \in Seq(Seq(Chars)) /\ fs # <<>> /\ Len(fs) = c /\ t # <<"v">> /\ ~IsDict(t) /\ t[1] # "a"
    BY Zenon, <1>3 DEF HasFields
<1>5. DOMAIN fs = 1 .. c /\ fs = [k \in 1 .. c |-> fs[k]]
    BY <1>4
<1>6. TypesOf(w) = fs
    BY <1>1, <1>2, <1>3, <1>5 DEF TypesOf
<1>7. HoldsItsType(w)
    BY Zenon, <1>1, <1>3, <1>4, <1>6, TypesHeld DEF HoldsItsType
<1> QED
    BY Zenon, <1>1, <1>2, <1>7, FitsUp

\* The key of an entry fits.
LEMMA KeyFits ==
    ASSUME NEW key \in Keys, NEW ch \in Chars, KeyScalar(key, ch) \in Wire,
           KeyScalar(key, ch).type = <<ch>>, NEW d \in Nat, d <= MaxMessageDepth
    PROVE  Fits(KeyScalar(key, ch), d)
<1>1. PICK w : w = KeyScalar(key, ch)
    OBVIOUS
<1>2. /\ w.items = <<>> /\ w.content \in {"text", "numeral", "@dbus"}
      /\ w.type \in {<<"s">>, <<"i">>, <<>>}
    BY Zenon, <1>1, KeyMade, 0 \in Nat
<1>3. w.content # "none"
    BY <1>2
<1>4. w.type \in {<<"s">>, <<"i">>}
    <2>1. w.type = <<ch>>
        BY Zenon, <1>1
    <2>2. <<ch>> # <<>>
        OBVIOUS
    <2> QED
        BY Zenon, <1>2, <2>1, <2>2
<1> QED
    BY Zenon, <1>1, <1>2, <1>3, <1>4, LeafFits

\* c values, and their keys, are what a map of type t may hold, d containers around it.
FitInMap(v, t, values, c, d) ==
    \A k \in 1 .. c : /\ KeyScalar(v.keys[k], DictKey(t)).type = <<DictKey(t)>>
                     /\ values[k].type = DictValue(t) /\ Fits(values[k], d + 2)

\* A map fits when its keys and values have the types it says and fit two
\* containers deeper.
LEMMA MapNests ==
    ASSUME NEW w, NEW c \in Nat, NEW v, NEW t, NEW values, IsMapOf(w, c, v, t, values), IsDict(t),
           t # <<"v">>, DictKey(t) \in Chars, DictValue(t) \in ElementTypes,
           NEW d \in Nat, d <= MaxMessageDepth, c = 0 \/ d + 2 <= MaxMessageDepth,
           FitInMap(v, t, values, c, d)
    PROVE  Fits(w, d)
<1>1. w \in Wire /\ w.type = t /\ w.content = "none" /\ DOMAIN w.items = 1 .. c
    BY Zenon DEF IsMapOf
<1>2. ASSUME NEW k \in DOMAIN w.items
      PROVE  /\ w.items[k].type = <<"{">> /\ Fits(w.items[k], d + 1)
             /\ w.items[k].items[1].type = <<DictKey(w.type)>>
             /\ w.items[k].items[2].type = DictValue(w.type)
    <2>1. PICK e : e = w.items[k]
        OBVIOUS
    <2>2. k \in 1 .. c
        BY <1>1
    <2>3. IsEntryOf(e, v.keys[k], DictKey(t), values[k])
        BY Zenon, <2>1, <2>2 DEF IsMapOf
    <2>4. PICK x : x = KeyScalar(v.keys[k], DictKey(t))
        OBVIOUS
    <2>5. /\ e \in Wire /\ e.type = <<"{">> /\ DOMAIN e.items = {1, 2}
          /\ e.items[1] = x /\ e.items[2] = values[k] /\ x \in Wire /\ v.keys[k] \in Keys
        BY Zenon, <2>3, <2>4 DEF IsEntryOf
    <2>6. x.type = <<DictKey(t)>> /\ values[k].type = DictValue(t)
        BY Zenon, <2>2, <2>4 DEF FitInMap
    <2>7. PICK f \in Nat : f = d + 1
        OBVIOUS
    <2>8. f <= MaxMessageDepth /\ f + 1 = d + 2 /\ f + 1 \in Nat /\ f + 1 <= MaxMessageDepth
        BY <2>2, <2>7, CoercerAssumption
    <2>9. Fits(x, f + 1)
        BY Zenon, <2>4, <2>5, <2>6, <2>8, KeyFits
    <2>10. Fits(values[k], f + 1)
        BY Zenon, <2>2, <2>8 DEF FitInMap
    <2>11. \A i \in DOMAIN e.items : Fits(e.items[i], f + 1)
        BY Zenon, <2>5, <2>9, <2>10
    <2>12. HoldsItsType(e)
        BY Zenon, <2>5 DEF HoldsItsType
    <2>13. Fits(e, f)
        BY Zenon, <2>5, <2>8, <2>11, <2>12, FitsUp
    <2> QED
        BY Zenon, <1>1, <2>1, <2>5, <2>6, <2>7, <2>13
<1>3. \A k \in DOMAIN w.items : TypesOf(w)[k] = <<"{">>
    BY Zenon, <1>2 DEF TypesOf
<1>4. HoldsItsType(w)
    BY Zenon, <1>1, <1>2, <1>3, TypesHeld DEF HoldsItsType
<1> QED
    BY Zenon, <1>1, <1>2, <1>4, FitsUp

-----------------------------------------------------------------------------
(* The types of the natural mapping. *)

\* How the grammar judges a text.
LEMMA TypeIs ==
    ASSUME NEW s \in Seq(Chars), NEW a \in Nat, NEW b \in Nat
    PROVE  IsType(s, a, b) <=> IsTypeIn(Grammar, s, a, b)
<1>1. <<"type", s, a, b>> \in Phrases
    BY PhraseFacts
<1>2. Grammar[<<"type", s, a, b>>] = Judge(Grammar, <<"type", s, a, b>>)
    BY <1>1, GrammarIs
<1> QED
    BY <1>2 DEF IsType, Judge

\* A basic type and a variant are types of one character, within any limits.
LEMMA CharSingle ==
    ASSUME NEW ch \in Basic \cup {"v"}
    PROVE  \A a, b \in Nat : IsType(<<ch>>, a, b)
<1>1. ch \in Chars
    BY DEF Chars
<1>2. PICK s : s = <<ch>>
    OBVIOUS
<1>3. s \in Seq(Chars) /\ Len(s) = 1 /\ s[1] = ch
    BY <1>1, <1>2
<1>4. ASSUME NEW a \in Nat, NEW b \in Nat PROVE IsType(s, a, b)
    <2>1. IsTypeIn(Grammar, s, a, b)
        BY Zenon, <1>3 DEF IsTypeIn
    <2> QED
        BY Zenon, <1>3, <2>1, TypeIs
<1> QED
    BY Zenon, <1>2, <1>4

\* What the types that the natural mapping gives contain.
LEMMA PlainParts ==
    /\ IsDict(AnyMap) /\ DictKey(AnyMap) = "s" /\ DictValue(AnyMap) = <<"v">> /\ "s" \in Chars
    /\ IsList(<<"a", "v">>) /\ Tail(<<"a", "v">>) = <<"v">> /\ <<"v">> \in ElementTypes
    /\ <<"a", "v">> # <<"v">> /\ AnyMap # <<"v">> /\ ~IsDict(<<"v">>) /\ ~IsDict(<<"s">>)
    /\ ~IsDict(<<"i">>) /\ ~IsDict(<<"a", "v">>)
<1>1. IsDict(AnyMap) /\ DictKey(AnyMap) = "s" /\ "s" \in Chars
    BY CharsAre
<1>2. DictValue(AnyMap) = <<"v">> /\ AnyMap # <<"v">>
    <2>1. PICK s : s = <<"a", "{", "s", "v", "}">>
        OBVIOUS
    <2>2. s \in Seq(Chars)
        BY Zenon, <2>1, CharsAre DEF AnyMap
    <2>5. Len(s) = 5 /\ s[4] = "v"
        <3>1. \A a, b, c, d, e : Len(<<a, b, c, d, e>>) = 5 /\ <<a, b, c, d, e>>[4] = d
            OBVIOUS
        <3> QED
            BY Zenon, <2>1, <3>1
    <2>3. Len(s) = 5 /\ s[4] = "v" /\ s # <<"v">> /\ 4 \in 1 .. Len(s) /\ Len(s) - 1 = 4
        BY <2>5
    <2>4. SubSeq(s, 4, Len(s) - 1) = <<"v">>
        BY Zenon, <2>2, <2>3, SubSeqOne
    <2> QED
        BY Zenon, <2>1, <2>3, <2>4 DEF DictValue, AnyMap
<1>3. IsList(<<"a", "v">>) /\ Tail(<<"a", "v">>) = <<"v">> /\ <<"a", "v">> # <<"v">>
    BY DEF IsList, IsDict
<1>4. ~IsDict(<<"v">>) /\ ~IsDict(<<"s">>) /\ ~IsDict(<<"i">>) /\ ~IsDict(<<"a", "v">>)
    BY DEF IsDict
<1>5. <<"v">> \in ElementTypes
    BY DEF ElementTypes
<1> QED
    BY Zenon, <1>1, <1>2, <1>3, <1>4, <1>5
\* The types that the natural mapping gives.
LEMMA PlainTypes ==
    /\ IsSingleCompleteType(<<"s">>) /\ IsSingleCompleteType(<<"i">>) /\ IsSingleCompleteType(<<"v">>)
    /\ IsSingleCompleteType(<<"a", "v">>) /\ IsSingleCompleteType(AnyMap)
<1>0. MaxArrayDepth - 1 \in Nat /\ MaxStructDepth - 1 \in Nat
    <2>1. MaxArrayDepth > 0 /\ MaxStructDepth > 0 /\ MaxArrayDepth \in Nat /\ MaxStructDepth \in Nat
        BY Zenon, CoercerAssumption, SignaturesAssumption
    <2> QED
        BY <2>1
<1>1. PICK a \in Nat, b \in Nat : a = MaxArrayDepth - 1 /\ b = MaxStructDepth - 1
    BY <1>0
<1>2. /\ MaxArrayDepth \in Nat /\ MaxStructDepth \in Nat /\ MaxArrayDepth > 0 /\ MaxStructDepth > 0
      /\ MaxArrayDepth - 1 = a /\ MaxStructDepth - 1 = b /\ MaxSignatureLength >= 5
      /\ MaxSignatureLength \in Nat
    BY <1>1, CoercerAssumption, SignaturesAssumption
<1>3. \A s \in Seq(Chars) : Len(s) <= 5 /\ IsType(s, MaxArrayDepth, MaxStructDepth)
            => IsSingleCompleteType(s)
    <2> TAKE s \in Seq(Chars)
    <2>1. Len(s) <= 5 => Len(s) <= MaxSignatureLength
        BY <1>2
    <2> QED
        BY Zenon, <2>1, SingleIs
<1>4. "s" \in Basic \cup {"v"} /\ "i" \in Basic \cup {"v"} /\ "v" \in Basic \cup {"v"}
    BY CharsAre
<1>5. ASSUME NEW ch \in Basic \cup {"v"} PROVE IsSingleCompleteType(<<ch>>)
    <2>0. ch \in Chars
        BY DEF Chars
    <2>1. <<ch>> \in Seq(Chars) /\ Len(<<ch>>) <= 5
        BY <2>0
    <2>2. IsType(<<ch>>, MaxArrayDepth, MaxStructDepth)
        BY Zenon, <1>2, CharSingle
    <2> QED
        BY Zenon, <1>3, <2>1, <2>2
<1>6. IsSingleCompleteType(<<"a", "v">>)
    <2>1. PICK s : s = <<"a", "v">>
        OBVIOUS
    <2>6. s \in Seq(Chars)
        BY Zenon, <2>1, CharsAre
    <2>7. Tail(s) = <<"v">>
        BY Zenon, <2>1, PlainParts
    <2>2. s \in Seq(Chars) /\ Len(s) = 2 /\ s[1] = "a" /\ Tail(s) = <<"v">> /\ Len(s) > 1 /\ Len(s) <= 5
        BY <2>1, <2>6, <2>7
    <2>3. Grammar[<<"type", Tail(s), MaxArrayDepth - 1, MaxStructDepth>>]
        BY Zenon, <1>1, <1>2, <1>4, <2>2, CharSingle DEF IsType
    <2>4. IsTypeIn(Grammar, s, MaxArrayDepth, MaxStructDepth)
        BY Zenon, <1>2, <2>2, <2>3 DEF IsTypeIn
    <2>5. IsType(s, MaxArrayDepth, MaxStructDepth)
        BY Zenon, <1>2, <2>2, <2>4, TypeIs
    <2> QED
        BY Zenon, <1>3, <2>1, <2>2, <2>5
<1>7. IsSingleCompleteType(AnyMap)
    <2>1. PICK s : s = AnyMap
        OBVIOUS
    <2>8. s \in Seq(Chars)
        BY Zenon, <2>1, CharsAre
    <2>9. s = <<"a", "{", "s", "v", "}">>
        BY Zenon, <2>1 DEF AnyMap
    <2>10. /\ Len(s) = 5 /\ s[1] = "a" /\ s[2] = "{" /\ s[3] = "s" /\ s[5] = "}"
           /\ Len(s) > 4 /\ Len(s) <= 5
        <3>1. \A o, p, q, r, u : LET l == <<o, p, q, r, u>>
                                IN  Len(l) = 5 /\ l[1] = o /\ l[2] = p /\ l[3] = q /\ l[5] = u
            OBVIOUS
        <3>2. 5 > 4 /\ 5 <= 5
            OBVIOUS
        <3> QED
            BY Zenon, <2>9, <3>1, <3>2
    <2>2. /\ s \in Seq(Chars) /\ Len(s) = 5 /\ s[1] = "a" /\ s[2] = "{" /\ s[3] = "s" /\ Last(s) = "}"
          /\ Len(s) > 4 /\ Len(s) <= 5
        BY Zenon, <2>8, <2>10 DEF Last
    <2>3. SubSeq(s, 4, Len(s) - 1) = <<"v">>
        BY Zenon, <2>1, PlainParts DEF DictValue
    <2>4. Grammar[<<"type", SubSeq(s, 4, Len(s) - 1), MaxArrayDepth - 1, MaxStructDepth - 1>>]
        BY Zenon, <1>1, <1>2, <1>4, <2>3, CharSingle DEF IsType
    <2>5. s[3] \in Basic
        BY <2>2, CharsAre
    <2>6. IsTypeIn(Grammar, s, MaxArrayDepth, MaxStructDepth)
        BY Zenon, <1>2, <2>2, <2>4, <2>5 DEF IsTypeIn
    <2>7. IsType(s, MaxArrayDepth, MaxStructDepth)
        BY Zenon, <1>2, <2>2, <2>6, TypeIs
    <2> QED
        BY Zenon, <1>3, <2>1, <2>2, <2>7
<1> QED
    BY Zenon, <1>4, <1>5, <1>6, <1>7

\* Any key can be written as a string.
LEMMA KeysAreTexts ==
    ASSUME NEW key \in Keys
    PROVE  /\ CoerceBasic(KeyValue(key), "s") /\ KeyScalar(key, "s").type = <<"s">>
           /\ KeyScalar(key, "s").content = key
<1>1. CoerceBasic(KeyValue(key), "s")
    <2>1. KeyValue(key).kind \in {"text", "numeral"}
        BY DEF KeyValue, Leaf
    <2> QED
        BY Zenon, <2>1 DEF CoerceBasic
<1>2. "s" \in Chars /\ "s" # "i" /\ 0 \in Nat
    BY CharsAre
<1> QED
    BY Zenon, <1>1, <1>2, KeyMade

\* A variant around a value that fits does.
LEMMA PlainFits ==
    ASSUME NEW v \in JSON, NEW c \in Nat, c = Len(v.items), DOMAIN v.items = 1 .. c,
           NEW w, NEW g, IsPlain(w, c, v, g), v.kind # "null",
           NEW d \in Nat, d <= MaxMessageDepth, c = 0 \/ Deeper(v, d) <= MaxMessageDepth,
           \A k \in 1 .. c : IsSingleCompleteType(g[k].type) /\ Fits(g[k], Deeper(v, d))
    PROVE  IsSingleCompleteType(w.type) /\ Fits(w, d)
<1>1. PICK h : h = Variants(v, g)
    OBVIOUS
<1>2. w \in Wire
    BY Zenon DEF IsPlain
<1>3. ASSUME NEW e \in Nat, e + 1 = Deeper(v, d), c = 0 \/ e <= MaxMessageDepth,
             v.kind \in {"array", "object"}, NEW k \in 1 .. c
      PROVE  h[k].type = <<"v">> /\ Fits(h[k], e)
    <2>1. IsListOf(h[k], 1, <<"v">>, <<g[k]>>)
        BY Zenon, <1>1, <1>3 DEF IsPlain
    <2>2. e <= MaxMessageDepth
        BY <1>3
    <2>3. IsSingleCompleteType(g[k].type) /\ Fits(g[k], e + 1)
        BY Zenon, <1>3
    <2>4. Fits(h[k], e)
        BY Zenon, <2>1, <2>2, <2>3, VariantFits
    <2> QED
        BY Zenon, <2>1, <2>4 DEF IsListOf
<1>4. CASE v.kind = "array"
    <2>1. IsListOf(w, c, <<"a", "v">>, h)
        BY Zenon, <1>1, <1>4 DEF IsPlain
    <2>2. PICK e \in Nat : e = d + 1
        OBVIOUS
    <2>3. e + 1 = Deeper(v, d) /\ (c = 0 \/ e <= MaxMessageDepth)
        BY <1>4, <2>2, CoercerAssumption DEF Deeper
    <2>4. \A k \in 1 .. c : h[k].type = <<"v">> /\ Fits(h[k], e)
        BY Zenon, <1>3, <1>4, <2>3
    <2>5. Fits(w, d)
        <3>1. PICK t : t = <<"a", "v">>
            OBVIOUS
        <3>2. IsListOf(w, c, t, h) /\ IsList(t) /\ t # <<"v">> /\ Tail(t) \in ElementTypes
            BY Zenon, <2>1, <3>1, PlainParts
        <3>3. \A k \in 1 .. c : h[k].type = Tail(t) /\ Fits(h[k], d + 1)
            BY Zenon, <2>2, <2>4, <3>1, PlainParts
        <3> QED
            BY Zenon, <3>2, <3>3, ListFits
    <2> QED
        BY Zenon, <2>1, <2>5, PlainTypes DEF IsListOf
<1>5. CASE v.kind = "object"
    <2>1. IsMapOf(w, c, v, AnyMap, h)
        BY Zenon, <1>1, <1>5 DEF IsPlain
    <2>2. PICK e \in Nat : e = d + 2
        OBVIOUS
    <2>3. e + 1 = Deeper(v, d) /\ (c = 0 \/ e <= MaxMessageDepth)
        BY <1>5, <2>2, CoercerAssumption DEF Deeper
    <2>4. \A k \in 1 .. c : h[k].type = <<"v">> /\ Fits(h[k], e)
        BY Zenon, <1>3, <1>5, <2>3
    <2>5. \A k \in 1 .. c : KeyScalar(v.keys[k], DictKey(AnyMap)).type = <<DictKey(AnyMap)>>
        <3>1. \A k \in 1 .. c : v.keys[k] \in Keys
            BY Zenon, <2>1 DEF IsMapOf, IsEntryOf
        <3> QED
            BY Zenon, <3>1, KeysAreTexts, PlainParts
    <2>6. Fits(w, d)
        <3>1. PICK t : t = AnyMap
            OBVIOUS
        <3>2. /\ IsMapOf(w, c, v, t, h) /\ IsDict(t) /\ t # <<"v">> /\ DictKey(t) \in Chars
              /\ DictValue(t) \in ElementTypes /\ DictValue(t) = <<"v">>
            BY Zenon, <2>1, <3>1, PlainParts
        <3>3. FitInMap(v, t, h, c, d)
            BY Zenon, <2>2, <2>4, <2>5, <3>1, <3>2 DEF FitInMap
        <3>4. c = 0 \/ d + 2 <= MaxMessageDepth
            BY Zenon, <2>2, <2>3
        <3> QED
            BY Zenon, <3>2, <3>3, <3>4, MapNests
    <2> QED
        BY Zenon, <2>1, <2>6, PlainTypes DEF IsMapOf
<1>6. ASSUME NEW t \in {<<"s">>, <<"i">>}, NEW content, content # "none", IsLeafOf(w, t, content)
      PROVE  IsSingleCompleteType(w.type) /\ Fits(w, d)
    <2>1. w.type = t /\ DOMAIN w.items = {} /\ w.content = content
        BY Zenon, <1>6 DEF IsLeafOf
    <2>2. w.items = <<>>
        <3>1. w.items \in Seq(Wire)
            BY <1>2, WireFacts
        <3> QED
            BY <2>1, <3>1
    <2>3. IsSingleCompleteType(w.type)
        BY Zenon, <2>1, PlainTypes
    <2>4. Fits(w, d)
        BY Zenon, <1>2, <1>6, <2>1, <2>2, LeafFits
    <2> QED
        BY Zenon, <2>3, <2>4
<1>7. CASE v.kind = "integer"
    <2>1. IsLeafOf(w, <<"i">>, "integer") /\ "integer" # "none"
        BY <1>7 DEF IsPlain
    <2> QED
        BY Zenon, <1>6, <2>1
<1>8. CASE v.kind \in {"text", "numeral"}
    <2>1. IsLeafOf(w, <<"s">>, v.kind)
        BY Zenon, <1>8 DEF IsPlain
    <2>2. v.kind # "none"
        BY <1>8
    <2> QED
        BY Zenon, <1>6, <2>1, <2>2
<1>9. v.kind \in Kinds
    BY Zenon, JsonLevels, ValueFacts
<1> QED
    BY Zenon, <1>4, <1>5, <1>7, <1>8, <1>9 DEF Kinds

\* What is inside a value made without a type.
LEMMA PlainInside ==
    ASSUME NEW c \in Nat, NEW v, NEW w, NEW g, IsPlain(w, c, v, g), NEW k \in 1 .. c,
           v.kind \in {"array", "object"}
    PROVE  /\ g[k] \in Wire
           /\ IsFree(w) => IsFree(g[k]) /\ (v.kind = "object" => v.keys[k] # "@dbus")
           /\ IsComplete(w) => IsComplete(g[k])
           /\ \A d \in Nat : Deep(g[k], Deeper(v, d)) => Deep(w, d)
<1>1. PICK h : h = Variants(v, g)
    OBVIOUS
<1>2. IsListOf(h[k], 1, <<"v">>, <<g[k]>>) /\ 1 \in 1 .. 1 /\ 1 \in Nat
    BY <1>1 DEF IsPlain
<1>3. <<g[k]>>[1] = g[k]
    OBVIOUS
<1>4. /\ g[k] \in Wire
      /\ IsFree(h[k]) => IsFree(g[k])
      /\ IsComplete(h[k]) => IsComplete(g[k])
      /\ \A d \in Nat : Deep(g[k], d + 1) => Deep(h[k], d)
    BY Zenon, <1>2, <1>3, InsideList
<1>5. CASE v.kind = "array"
    <2>1. IsListOf(w, c, <<"a", "v">>, h)
        BY Zenon, <1>1, <1>5 DEF IsPlain
    <2>2. ASSUME NEW d \in Nat, Deep(g[k], Deeper(v, d)) PROVE Deep(w, d)
        <3>1. PICK e \in Nat : e = d + 1
            OBVIOUS
        <3>2. Deeper(v, d) = e + 1
            BY <1>5, <3>1 DEF Deeper
        <3>3. Deep(h[k], e)
            BY Zenon, <1>4, <2>2, <3>2
        <3> QED
            BY Zenon, <2>1, <3>1, <3>3, InsideList
    <2>3. v.kind # "object"
        BY <1>5
    <2> QED
        BY Zenon, <1>4, <2>1, <2>2, <2>3, InsideList
<1>6. CASE v.kind = "object"
    <2>1. IsMapOf(w, c, v, AnyMap, h)
        BY Zenon, <1>1, <1>6 DEF IsPlain
    <2>2. ASSUME NEW d \in Nat, Deep(g[k], Deeper(v, d)) PROVE Deep(w, d)
        <3>1. PICK e \in Nat : e = d + 2
            OBVIOUS
        <3>2. Deeper(v, d) = e + 1
            BY <1>6, <3>1 DEF Deeper
        <3>3. Deep(h[k], e)
            BY Zenon, <1>4, <2>2, <3>2
        <3> QED
            BY Zenon, <2>1, <3>1, <3>3, InsideMap
    <2>3. IsFree(w) => v.keys[k] # "@dbus"
        <3>1. v.keys[k] \in Keys
            BY Zenon, <2>1 DEF IsMapOf, IsEntryOf
        <3>2. IsFree(w) => KeyScalar(v.keys[k], DictKey(AnyMap)).content # "@dbus"
            BY Zenon, <2>1, InsideMap
        <3>3. KeyScalar(v.keys[k], DictKey(AnyMap)).content = v.keys[k]
            BY Zenon, <3>1, KeysAreTexts, PlainParts
        <3> QED
            BY Zenon, <3>2, <3>3
    <2> QED
        BY Zenon, <1>4, <2>1, <2>2, <2>3, InsideMap
<1> QED
    BY Zenon, <1>5, <1>6

-----------------------------------------------------------------------------
(* What a verdict says of the items. *)

\* r is a verdict on c items: fine when they are, else that of one of them.
IsVerdictOn(r, c, f) ==
    /\ r = "fine" => \A k \in 1 .. c : f[k] = "fine"
    /\ r = "depth" => \E k \in 1 .. c : f[k] = "depth"
    /\ r = "type" => \E k \in 1 .. c : f[k] = "type"

\* A loop of pass 1 ends with the first problem, or finds every item fine.
LEMMA LoopVerdict ==
    ASSUME NEW c \in Nat, NEW p, DOMAIN p = 1 .. c
    PROVE  IsVerdictOn(FirstProblem(p), c, p)
<1>1. IsFirst(FirstProblem(p), p, c)
    BY Zenon, FirstIs
<1>2. "depth" # "fine" /\ "type" # "fine"
    OBVIOUS
<1> QED
    BY Zenon, <1>1, <1>2 DEF IsFirst, IsVerdictOn

\* What a verdict on a map says.
MapVerdict(r, v, c, t, d) ==
    /\ r = "fine" =>
        /\ v.kind = "object" /\ DictKey(t) # "h" /\ DictValue(t) \in ElementTypes
        /\ \A k \in 1 .. c : /\ CoerceBasic(KeyValue(v.keys[k]), DictKey(t))
                             /\ Check[<<"value", v.items[k], DictValue(t), d + 2>>] = "fine"
    /\ r = "depth" =>
        v.kind = "object" /\ \E k \in 1 .. c : Check[<<"value", v.items[k], DictValue(t), d + 2>>] = "depth"
    /\ r = "type" =>
        \/ v.kind # "object" \/ DictKey(t) = "h" \/ DictValue(t) \notin ElementTypes
        \/ \E k \in 1 .. c : \/ ~CoerceBasic(KeyValue(v.keys[k]), DictKey(t))
                             \/ Check[<<"value", v.items[k], DictValue(t), d + 2>>] = "type"

\* The verdict on a map.
LEMMA MapChecked ==
    ASSUME NEW v, NEW c \in Nat, DOMAIN v.items = 1 .. c, NEW t, NEW d
    PROVE  MapVerdict(CheckMap(Check, v, t, d), v, c, t, d)
<1>1. PICK f : f = [k \in DOMAIN v.items |-> Check[<<"value", v.items[k], DictValue(t), d + 2>>]]
    OBVIOUS
<1>2. PICK p : p = [k \in DOMAIN v.items |->
                        IF ~CoerceBasic(KeyValue(v.keys[k]), DictKey(t)) THEN "type"
                        ELSE Check[<<"value", v.items[k], DictValue(t), d + 2>>]]
    OBVIOUS
<1>3. PICK wrong \in BOOLEAN : wrong <=> DictKey(t) = "h" \/ DictValue(t) \notin ElementTypes \/ v.kind # "object"
    OBVIOUS
<1>4. PICK r : r = CheckMap(Check, v, t, d)
    OBVIOUS
<1>5. r = IF wrong THEN "type" ELSE FirstProblem(p)
    BY Zenon, <1>2, <1>3, <1>4 DEF CheckMap
<1>6. DOMAIN p = 1 .. c /\ IsVerdictOn(FirstProblem(p), c, p)
    <2>1. DOMAIN p = 1 .. c
        BY Zenon, <1>2
    <2> QED
        BY Zenon, <2>1, LoopVerdict
<1>7. ASSUME NEW k \in 1 .. c
      PROVE  /\ p[k] = "fine" => CoerceBasic(KeyValue(v.keys[k]), DictKey(t)) /\ f[k] = "fine"
             /\ p[k] = "depth" => f[k] = "depth"
             /\ p[k] = "type" => ~CoerceBasic(KeyValue(v.keys[k]), DictKey(t)) \/ f[k] = "type"
    <2>1. p[k] = IF ~CoerceBasic(KeyValue(v.keys[k]), DictKey(t)) THEN "type" ELSE f[k]
        BY Zenon, <1>1, <1>2
    <2>2. "type" # "fine" /\ "type" # "depth"
        OBVIOUS
    <2> QED
        BY Zenon, <2>1, <2>2
<1>8. \A k \in 1 .. c : f[k] = Check[<<"value", v.items[k], DictValue(t), d + 2>>]
    BY Zenon, <1>1
<1>9. "type" # "fine" /\ "type" # "depth"
    OBVIOUS
<1>10. CASE wrong
    <2>1. r = "type"
        BY Zenon, <1>5, <1>10
    <2> QED
        BY Zenon, <1>3, <1>4, <1>9, <1>10, <2>1 DEF MapVerdict
<1>11. CASE ~wrong
    <2>1. IsVerdictOn(r, c, p)
        BY Zenon, <1>5, <1>6, <1>11
    <2>2. r = "fine" =>
            /\ v.kind = "object" /\ DictKey(t) # "h" /\ DictValue(t) \in ElementTypes
            /\ \A k \in 1 .. c : /\ CoerceBasic(KeyValue(v.keys[k]), DictKey(t))
                                 /\ Check[<<"value", v.items[k], DictValue(t), d + 2>>] = "fine"
        BY Zenon, <1>3, <1>7, <1>8, <1>11, <2>1 DEF IsVerdictOn
    <2>3. r = "depth" => v.kind = "object"
                /\ \E k \in 1 .. c : Check[<<"value", v.items[k], DictValue(t), d + 2>>] = "depth"
        BY Zenon, <1>3, <1>7, <1>8, <1>11, <2>1 DEF IsVerdictOn
    <2>4. r = "type" => \E k \in 1 .. c : \/ ~CoerceBasic(KeyValue(v.keys[k]), DictKey(t))
                                \/ Check[<<"value", v.items[k], DictValue(t), d + 2>>] = "type"
        BY Zenon, <1>3, <1>7, <1>8, <1>11, <2>1 DEF IsVerdictOn
    <2> QED
        BY Zenon, <1>4, <2>2, <2>3, <2>4 DEF MapVerdict
<1> QED
    BY Zenon, <1>10, <1>11

\* What a verdict on an array or a struct says, when its items have the types u.
ListVerdict(r, v, c, u, d) ==
    /\ r = "fine" => \A k \in 1 .. c : Check[<<"value", v.items[k], u[k], d + 1>>] = "fine"
    /\ r = "depth" => \E k \in 1 .. c : Check[<<"value", v.items[k], u[k], d + 1>>] = "depth"
    /\ r = "type" => \E k \in 1 .. c : Check[<<"value", v.items[k], u[k], d + 1>>] = "type"

\* The verdict on items that have a type each.
LEMMA ItemsChecked ==
    ASSUME NEW v, NEW c \in Nat, DOMAIN v.items = 1 .. c, NEW u, NEW d
    PROVE  ListVerdict(FirstProblem([k \in DOMAIN v.items |-> Check[<<"value", v.items[k], u[k], d + 1>>]]),
                       v, c, u, d)
<1>1. PICK p : p = [k \in DOMAIN v.items |-> Check[<<"value", v.items[k], u[k], d + 1>>]]
    OBVIOUS
<1>2. DOMAIN p = 1 .. c
    BY Zenon, <1>1
<1>3. IsVerdictOn(FirstProblem(p), c, p)
    BY Zenon, <1>2, LoopVerdict
<1>4. \A k \in 1 .. c : p[k] = Check[<<"value", v.items[k], u[k], d + 1>>]
    BY Zenon, <1>1
<1>5. ListVerdict(FirstProblem(p), v, c, u, d)
    BY Zenon, <1>3, <1>4 DEF ListVerdict, IsVerdictOn
<1> QED
    BY Zenon, <1>1, <1>5

\* The types of the items of an array.
Same(c, t) == [k \in 1 .. c |-> Tail(t)]

\* The verdict on an array.
LEMMA ArrayChecked ==
    ASSUME NEW v, NEW c \in Nat, DOMAIN v.items = 1 .. c, NEW t, NEW d
    PROVE  LET r == CheckArray(Check, v, t, d)
               wrong == Tail(t) \notin ElementTypes \/ v.kind # "array"
           IN  IF wrong THEN r = "type" ELSE ListVerdict(r, v, c, Same(c, t), d)
<1>1. PICK p : p = [k \in DOMAIN v.items |-> Check[<<"value", v.items[k], Same(c, t)[k], d + 1>>]]
    OBVIOUS
<1>2. p = [k \in DOMAIN v.items |-> Check[<<"value", v.items[k], Tail(t), d + 1>>]]
    <2>1. \A k \in DOMAIN v.items : Same(c, t)[k] = Tail(t)
        BY Zenon DEF Same
    <2> QED
        BY <1>1, <2>1
<1>3. ListVerdict(FirstProblem(p), v, c, Same(c, t), d)
    BY Zenon, <1>1, ItemsChecked
<1> QED
    BY Zenon, <1>2, <1>3 DEF CheckArray

\* The verdict on a struct.
LEMMA StructChecked ==
    ASSUME NEW v, NEW c \in Nat, c = Len(v.items), DOMAIN v.items = 1 .. c, NEW t, NEW d
    PROVE  LET r == CheckStruct(Check, v, t, d)
               wrong == v.kind # "array" \/ c # Len(StructFields(t))
           IN  IF wrong THEN r = "type" ELSE ListVerdict(r, v, c, StructFields(t), d)
BY Zenon, ItemsChecked DEF CheckStruct

\* What a verdict on a value without a type says.
VariantVerdict(r, v, c, e) ==
    /\ r = "fine" => v.kind # "null" /\ \A k \in 1 .. c : Check[<<"variant", v.items[k], <<>>, e>>] = "fine"
    /\ r = "depth" => \E k \in 1 .. c : Check[<<"variant", v.items[k], <<>>, e>>] = "depth"
    /\ r = "type" => v.kind = "null" \/ \E k \in 1 .. c : Check[<<"variant", v.items[k], <<>>, e>>] = "type"

\* The verdict on a variant without a declared type.
LEMMA VariantChecked ==
    ASSUME NEW v \in JSON, NEW c \in Nat, DOMAIN v.items = 1 .. c, NEW d \in Nat, d <= MaxMessageDepth,
           ~IsTyped(v)
    PROVE  VariantVerdict(Check[<<"variant", v, <<>>, d>>], v, c, Deeper(v, d))
<1>1. PICK p : p = [k \in DOMAIN v.items |-> Check[<<"variant", v.items[k], <<>>, Deeper(v, d)>>]]
    OBVIOUS
<1>2. DOMAIN p = 1 .. c
    BY Zenon, <1>1
<1>3. IsVerdictOn(FirstProblem(p), c, p)
    BY Zenon, <1>2, LoopVerdict
<1>4. \A k \in 1 .. c : p[k] = Check[<<"variant", v.items[k], <<>>, Deeper(v, d)>>]
    BY Zenon, <1>1
<1>5. PICK r : r = Check[<<"variant", v, <<>>, d>>]
    OBVIOUS
<1>6. r = IF v.kind = "null" THEN "type" ELSE FirstProblem(p)
    <2>1. r = CheckVariant(Check, v, d)
        BY Zenon, <1>5, CheckIs, CharsAre
    <2>2. ~(d > MaxMessageDepth)
        BY CoercerAssumption
    <2> QED
        BY Zenon, <1>1, <2>1, <2>2 DEF CheckVariant, Deeper
<1>7. "type" # "fine" /\ "type" # "depth"
    OBVIOUS
<1>8. VariantVerdict(r, v, c, Deeper(v, d))
    BY Zenon, <1>3, <1>4, <1>6, <1>7 DEF VariantVerdict, IsVerdictOn
<1> QED
    BY Zenon, <1>5, <1>8

\* A value that names its type is checked against it.
LEMMA TypedChecked ==
    ASSUME NEW v \in JSON, NEW d \in Nat, d <= MaxMessageDepth, IsTyped(v)
    PROVE  LET r == Check[<<"variant", v, <<>>, d>>]
               t == NamedType(v)
           IN  /\ Inner(v) \in JSON /\ t \in Seq(Chars)
               /\ ~IsSingleCompleteType(t) => r = "type"
               /\ IsSingleCompleteType(t) /\ d + TypeDepth(t) > MaxMessageDepth => r = "depth"
               /\ IsSingleCompleteType(t) /\ ~(d + TypeDepth(t) > MaxMessageDepth) =>
                    r = Check[<<"value", Inner(v), t, d>>]
<1>1. Inner(v) \in JSON /\ NamedType(v) \in Seq(Chars)
    BY Zenon, JsonFacts
<1>2. Check[<<"variant", v, <<>>, d>>] = CheckVariant(Check, v, d)
    BY Zenon, CheckIs, CharsAre
<1>3. ~(d > MaxMessageDepth)
    BY CoercerAssumption
<1>4. Check[<<"variant", v, <<>>, d>>] = CheckTyped(Check, v, d)
    BY Zenon, <1>2, <1>3 DEF CheckVariant
<1> QED
    BY Zenon, <1>1, <1>4 DEF CheckTyped

\* A variant in more containers than the limit is refused for that.
LEMMA VariantTooDeep ==
    ASSUME NEW v \in JSON, NEW d \in Nat, d > MaxMessageDepth
    PROVE  Check[<<"variant", v, <<>>, d>>] = "depth"
<1>1. Check[<<"variant", v, <<>>, d>>] = CheckVariant(Check, v, d)
    BY Zenon, CheckIs, CharsAre
<1> QED
    BY Zenon, <1>1 DEF CheckVariant

\* A list of strings is checked as its items are.
LEMMA StringsChecked ==
    ASSUME NEW v \in JSON, NEW c \in Nat, DOMAIN v.items = 1 .. c, NEW e \in Nat, e <= MaxMessageDepth
    PROVE  /\ Tail(<<"a", "s">>) = <<"s">> /\ <<"s">> \in ElementTypes
           /\ CheckStrings(v) = "fine" =>
                v.kind = "array" /\ \A k \in 1 .. c : Check[<<"value", v.items[k], <<"s">>, e>>] = "fine"
           /\ CheckStrings(v) = "type" =>
                v.kind # "array" \/ \E k \in 1 .. c : Check[<<"value", v.items[k], <<"s">>, e>>] = "type"
           /\ CheckStrings(v) # "depth"
<1>1. Tail(<<"a", "s">>) = <<"s">>
    OBVIOUS
<1>2. <<"s">> \in ElementTypes
    BY DEF ElementTypes
<1>3. PICK t : t = <<"s">>
    OBVIOUS
<1>4. t \in Seq(Chars) /\ IsSingleCompleteType(t) /\ IsBasic(t) /\ t[1] = "s"
    <2>1. t \in Seq(Chars) /\ IsSingleCompleteType(t) /\ "s" \in Basic
        BY Zenon, <1>3, PlainTypes, CharsAre, "s" \in {"s", "i", "h"}
    <2>2. Len(t) = 1 /\ t[1] = "s"
        BY <1>3
    <2> QED
        BY Zenon, <2>1, <2>2 DEF IsBasic
<1>5. ASSUME NEW k \in 1 .. c
      PROVE  Check[<<"value", v.items[k], t, e>>] = IF CoerceBasic(v.items[k], "s") THEN "fine" ELSE "type"
    <2>1. v.items[k] \in JSON
        BY Zenon, JsonFacts
    <2>2. IsChecked(Check[<<"value", v.items[k], t, e>>], v.items[k], t, e)
        BY Zenon, <1>4, <2>1, CheckCases
    <2> QED
        BY Zenon, <1>4, <2>2 DEF IsChecked
<1>6. (\A i \in Range(v.items) : CoerceBasic(i, "s")) <=> (\A k \in 1 .. c : CoerceBasic(v.items[k], "s"))
    BY DEF Range
<1>7. "fine" # "type" /\ "fine" # "depth" /\ "type" # "depth"
    OBVIOUS
<1>8. CASE v.kind = "array" /\ \A k \in 1 .. c : CoerceBasic(v.items[k], "s")
    <2>1. CheckStrings(v) = "fine"
        BY Zenon, <1>6, <1>8 DEF CheckStrings
    <2> QED
        BY Zenon, <1>1, <1>2, <1>3, <1>5, <1>7, <1>8, <2>1
<1>9. CASE ~(v.kind = "array" /\ \A k \in 1 .. c : CoerceBasic(v.items[k], "s"))
    <2>1. CheckStrings(v) = "type"
        BY Zenon, <1>6, <1>9 DEF CheckStrings
    <2>2. v.kind # "array" \/ \E k \in 1 .. c : Check[<<"value", v.items[k], t, e>>] = "type"
        BY Zenon, <1>5, <1>9
    <2> QED
        BY Zenon, <1>1, <1>2, <1>3, <1>7, <2>1, <2>2
<1> QED
    BY Zenon, <1>8, <1>9

\* What it means that v is fine for the type t.
FineAt(v, c, t, d) ==
    /\ IsBasic(t) => CoerceBasic(v, t[1])
    /\ t = <<"v">> => Check[<<"variant", v, <<>>, d + 1>>] = "fine"
    /\ IsDict(t) =>
        /\ v.kind = "object" /\ DictKey(t) # "h" /\ DictValue(t) \in ElementTypes
        /\ \A k \in 1 .. c : /\ CoerceBasic(KeyValue(v.keys[k]), DictKey(t))
                             /\ Check[<<"value", v.items[k], DictValue(t), d + 2>>] = "fine"
    /\ IsList(t) =>
        /\ v.kind = "array" /\ Tail(t) \in ElementTypes
        /\ \E e \in Nat : /\ d + 1 <= MaxMessageDepth => e = d + 1
                          /\ \A k \in 1 .. c : Check[<<"value", v.items[k], Tail(t), e>>] = "fine"
    /\ IsStruct(t) =>
        /\ v.kind = "array" /\ c = Len(StructFields(t))
        /\ \A k \in 1 .. c : Check[<<"value", v.items[k], StructFields(t)[k], d + 1>>] = "fine"

\* What it means that it is too deep for it.
DepthAt(v, c, t, d) ==
    \/ t = <<"v">> /\ Check[<<"variant", v, <<>>, d + 1>>] = "depth"
    \/ /\ IsDict(t) /\ v.kind = "object"
       /\ \E k \in 1 .. c : Check[<<"value", v.items[k], DictValue(t), d + 2>>] = "depth"
    \/ /\ IsList(t) /\ v.kind = "array"
       /\ \E k \in 1 .. c : Check[<<"value", v.items[k], Tail(t), d + 1>>] = "depth"
    \/ /\ IsStruct(t) /\ v.kind = "array" /\ c = Len(StructFields(t))
       /\ \E k \in 1 .. c : Check[<<"value", v.items[k], StructFields(t)[k], d + 1>>] = "depth"

\* What it means that it is of another type.
MisfitAt(v, c, t, d) ==
    \/ IsBasic(t) /\ ~CoerceBasic(v, t[1])
    \/ t = <<"v">> /\ Check[<<"variant", v, <<>>, d + 1>>] = "type"
    \/ /\ IsDict(t)
       /\ \/ v.kind # "object" \/ DictKey(t) = "h" \/ DictValue(t) \notin ElementTypes
          \/ \E k \in 1 .. c : \/ ~CoerceBasic(KeyValue(v.keys[k]), DictKey(t))
                               \/ Check[<<"value", v.items[k], DictValue(t), d + 2>>] = "type"
    \/ /\ IsList(t)
       /\ \/ v.kind # "array" \/ Tail(t) \notin ElementTypes
          \/ \E k \in 1 .. c : \E e \in Nat : Check[<<"value", v.items[k], Tail(t), e>>] = "type"
    \/ /\ IsStruct(t)
       /\ \/ v.kind # "array" \/ c # Len(StructFields(t))
          \/ \E k \in 1 .. c : Check[<<"value", v.items[k], StructFields(t)[k], d + 1>>] = "type"

\* What each verdict of pass 1 says of the value and of its items.
IsExplained(r, v, c, t, d) ==
    /\ r \in Verdicts
    /\ r = "fine" => FineAt(v, c, t, d)
    /\ r = "depth" => DepthAt(v, c, t, d)
    /\ r = "type" => MisfitAt(v, c, t, d)

\* Each verdict, explained.
LEMMA VerdictFacts ==
    ASSUME NEW v \in JSON, NEW c \in Nat, c = Len(v.items), DOMAIN v.items = 1 .. c,
           NEW t \in Seq(Chars), IsSingleCompleteType(t), NEW d \in Nat, d <= MaxMessageDepth
    PROVE  IsExplained(Check[<<"value", v, t, d>>], v, c, t, d)
<1>1. PICK r : r = Check[<<"value", v, t, d>>]
    OBVIOUS
<1>2. IsChecked(r, v, t, d) /\ OfKind(t)
    BY Zenon, <1>1, CheckCases, KindOfType
<1>3. r \in Verdicts /\ "fine" # "type" /\ "fine" # "depth" /\ "type" # "depth"
    BY <1>2 DEF IsChecked
<1>4. CASE IsBasic(t)
    <2>1. r = IF CoerceBasic(v, t[1]) THEN "fine" ELSE "type"
        BY Zenon, <1>2, <1>4 DEF IsChecked
    <2>2. t # <<"v">> /\ ~IsDict(t) /\ ~IsList(t) /\ ~IsStruct(t)
        BY Zenon, <1>2, <1>4 DEF OfKind
    <2> QED
        BY Zenon, <1>1, <1>3, <1>4, <2>1, <2>2 DEF IsExplained, FineAt, DepthAt, MisfitAt
<1>5. CASE t = <<"v">>
    <2>1. r = Check[<<"variant", v, <<>>, d + 1>>]
        BY Zenon, <1>2, <1>5 DEF IsChecked
    <2>2. ~IsBasic(t) /\ ~IsDict(t) /\ ~IsList(t) /\ ~IsStruct(t)
        BY Zenon, <1>2, <1>5 DEF OfKind
    <2> QED
        BY Zenon, <1>1, <1>3, <1>5, <2>1, <2>2 DEF IsExplained, FineAt, DepthAt, MisfitAt
<1>6. CASE IsDict(t)
    <2>1. MapVerdict(r, v, c, t, d)
        BY Zenon, <1>2, <1>6, MapChecked DEF IsChecked
    <2>2. ~IsBasic(t) /\ t # <<"v">> /\ ~IsList(t) /\ ~IsStruct(t)
        BY Zenon, <1>2, <1>6 DEF OfKind
    <2>3. r = "fine" => FineAt(v, c, t, d)
        BY Zenon, <2>1, <2>2 DEF FineAt, MapVerdict
    <2>4. r = "depth" => DepthAt(v, c, t, d)
        BY Zenon, <1>6, <2>1, <2>2 DEF DepthAt, MapVerdict
    <2>5. r = "type" => MisfitAt(v, c, t, d)
        BY Zenon, <1>6, <2>1, <2>2 DEF MisfitAt, MapVerdict
    <2> QED
        BY Zenon, <1>1, <1>3, <2>3, <2>4, <2>5 DEF IsExplained
<1>7. CASE IsList(t)
    <2>2. ~IsBasic(t) /\ t # <<"v">> /\ ~IsDict(t) /\ ~IsStruct(t)
        BY Zenon, <1>2, <1>7 DEF OfKind
    <2>3. CASE t = <<"a", "s">>
        <3>1. PICK e \in Nat : e <= MaxMessageDepth /\ (d + 1 <= MaxMessageDepth => e = d + 1)
            <4>1. CASE d + 1 <= MaxMessageDepth
                <5>1. d + 1 \in Nat
                    OBVIOUS
                <5> QED
                    BY Zenon, <4>1, <5>1
            <4>2. CASE ~(d + 1 <= MaxMessageDepth)
                BY Zenon, <4>2
            <4> QED
                BY Zenon, <4>1, <4>2
        <3>2. r = CheckStrings(v)
            BY Zenon, <1>2, <2>3 DEF IsChecked
        <3>3. /\ Tail(t) \in ElementTypes
              /\ r = "fine" => v.kind = "array"
                    /\ \A k \in 1 .. c : Check[<<"value", v.items[k], Tail(t), e>>] = "fine"
              /\ r = "type" => v.kind # "array"
                    \/ \E k \in 1 .. c : Check[<<"value", v.items[k], Tail(t), e>>] = "type"
              /\ r # "depth"
            <4>1. PICK x : x = CheckStrings(v)
                OBVIOUS
            <4>2. /\ Tail(t) = <<"s">> /\ <<"s">> \in ElementTypes
                  /\ x = "fine" => v.kind = "array"
                        /\ \A k \in 1 .. c : Check[<<"value", v.items[k], <<"s">>, e>>] = "fine"
                  /\ x = "type" => v.kind # "array"
                        \/ \E k \in 1 .. c : Check[<<"value", v.items[k], <<"s">>, e>>] = "type"
                  /\ x # "depth"
                BY <2>3, <3>1, <4>1, StringsChecked
            <4> QED
                BY Zenon, <3>2, <4>1, <4>2
        <3>4. r = "fine" => FineAt(v, c, t, d)
            BY Zenon, <2>2, <3>1, <3>3 DEF FineAt
        <3>5. r = "type" => MisfitAt(v, c, t, d)
            BY Zenon, <1>7, <3>3 DEF MisfitAt
        <3> QED
            BY Zenon, <1>1, <1>3, <3>3, <3>4, <3>5 DEF IsExplained
    <2>4. CASE t # <<"a", "s">>
        <3>1. r = CheckArray(Check, v, t, d)
            BY Zenon, <1>2, <1>7, <2>4 DEF IsChecked
        <3>2. PICK e \in Nat : e = d + 1
            OBVIOUS
        <3>3. PICK wrong \in BOOLEAN : wrong <=> (Tail(t) \notin ElementTypes \/ v.kind # "array")
            OBVIOUS
        <3>4. /\ wrong => r = "type"
              /\ ~wrong => ListVerdict(r, v, c, Same(c, t), d)
            BY Zenon, <3>1, <3>3, ArrayChecked
        <3>5. \A k \in 1 .. c : Same(c, t)[k] = Tail(t)
            BY Zenon DEF Same
        <3>6. ~wrong =>
                /\ r = "fine" => \A k \in 1 .. c : Check[<<"value", v.items[k], Tail(t), e>>] = "fine"
                /\ r = "depth" => \E k \in 1 .. c : Check[<<"value", v.items[k], Tail(t), e>>] = "depth"
                /\ r = "type" => \E k \in 1 .. c : Check[<<"value", v.items[k], Tail(t), e>>] = "type"
            BY Zenon, <3>2, <3>4, <3>5 DEF ListVerdict
        <3>7. r = "fine" => FineAt(v, c, t, d)
            BY Zenon, <1>3, <2>2, <3>2, <3>3, <3>4, <3>6 DEF FineAt
        <3>8. r = "type" => MisfitAt(v, c, t, d)
            BY Zenon, <1>7, <3>2, <3>3, <3>4, <3>6 DEF MisfitAt
        <3>9. r = "depth" => DepthAt(v, c, t, d)
            BY Zenon, <1>3, <1>7, <3>2, <3>3, <3>4, <3>6 DEF DepthAt
        <3> QED
            BY Zenon, <1>1, <1>3, <3>7, <3>8, <3>9 DEF IsExplained
    <2> QED
        BY Zenon, <2>3, <2>4
<1>8. CASE IsStruct(t)
    <2>1. PICK wrong \in BOOLEAN : wrong <=> (v.kind # "array" \/ c # Len(StructFields(t)))
        OBVIOUS
    <2>2. /\ wrong => r = "type"
          /\ ~wrong => ListVerdict(r, v, c, StructFields(t), d)
        <3>1. r = CheckStruct(Check, v, t, d)
            BY Zenon, <1>2, <1>8 DEF IsChecked
        <3> QED
            BY Zenon, <2>1, <3>1, StructChecked
    <2>3. ~IsBasic(t) /\ t # <<"v">> /\ ~IsList(t) /\ ~IsDict(t)
        BY Zenon, <1>2, <1>8 DEF OfKind
    <2>4. r = "fine" => FineAt(v, c, t, d)
        BY Zenon, <1>3, <2>1, <2>2, <2>3 DEF FineAt, ListVerdict
    <2>5. r = "depth" => DepthAt(v, c, t, d)
        BY Zenon, <1>3, <1>8, <2>1, <2>2 DEF DepthAt, ListVerdict
    <2>6. r = "type" => MisfitAt(v, c, t, d)
        BY Zenon, <1>8, <2>1, <2>2 DEF MisfitAt, ListVerdict
    <2> QED
        BY Zenon, <1>1, <1>3, <2>4, <2>5, <2>6 DEF IsExplained
<1> QED
    BY Zenon, <1>2, <1>4, <1>5, <1>6, <1>7, <1>8 DEF OfKind

\* A type inside another leaves room for what it nests.
LEMMA InsideHasRoom ==
    ASSUME NEW u, NEW t, NEW k \in Nat, Inside(u, t, k), NEW n \in Nat, n = TypeDepth(t), NEW d \in Nat,
           d + n <= MaxMessageDepth
    PROVE  /\ u \in Seq(Chars) /\ IsSingleCompleteType(u)
           /\ d + k \in Nat /\ d + k + TypeDepth(u) <= MaxMessageDepth /\ d + k <= MaxMessageDepth
<1>1. PICK m \in Nat : m = TypeDepth(u)
    BY Zenon DEF Inside
<1>2. m + k <= n
    BY Zenon, <1>1 DEF Inside
<1>3. d + k \in Nat /\ d + k + m <= MaxMessageDepth /\ d + k <= MaxMessageDepth
    BY <1>2, CoercerAssumption
<1> QED
    BY Zenon, <1>1, <1>3 DEF Inside

\* What is fine for the type t is built so that it fits.
FitsAs(v, t) ==
    \A d \in Nat : d + TypeDepth(t) <= MaxMessageDepth /\ Check[<<"value", v, t, d>>] = "fine" =>
        Build[<<"value", v, t>>].type = t /\ Fits(Build[<<"value", v, t>>], d)

\* What is fine as a variant is.
FitsHeld(v) ==
    \A d \in Nat : Check[<<"variant", v, <<>>, d>>] = "fine" =>
        /\ IsSingleCompleteType(Build[<<"variant", v, <<>>>>].type)
        /\ Fits(Build[<<"variant", v, <<>>>>], d)

\* A value pass 1 lets through for a basic type is written with that type.
LEMMA BasicFits ==
    ASSUME NEW v, NEW ch \in Chars, CoerceBasic(v, ch), BasicValue(v, ch) \in Wire,
           NEW d \in Nat, d <= MaxMessageDepth
    PROVE  BasicValue(v, ch).type = <<ch>> /\ Fits(BasicValue(v, ch), d)
<1>1. PICK w : w = BasicValue(v, ch)
    OBVIOUS
<1>2. /\ w.type = <<ch>> /\ w.items = <<>> /\ ch \in {"s", "i"}
      /\ w.content \in {"text", "numeral", "integer"}
    BY Zenon, <1>1, BasicMade, 0 \in Nat
<1>3. w.content # "none" /\ w.type \in {<<"s">>, <<"i">>}
    BY <1>2
<1> QED
    BY Zenon, <1>1, <1>2, <1>3, LeafFits

\* A value pass 1 finds fine for a type is written with that type, within the
\* limit, when so are its items.
LEMMA ValueFits ==
    ASSUME NEW v \in JSON, NEW t \in Seq(Chars), IsSingleCompleteType(t),
           \A k \in DOMAIN v.items : \A u \in Seq(Chars) : IsSingleCompleteType(u) => FitsAs(v.items[k], u),
           FitsHeld(v)
    PROVE  FitsAs(v, t)
<1>1. PICK c \in Nat : HasShapes(v, c)
    BY Zenon, Shapes
<1>2. PICK w : w = Build[<<"value", v, t>>]
    OBVIOUS
<1>3. c = Len(v.items) /\ DOMAIN v.items = 1 .. c /\ IsBuiltOf(w, c, v, t)
    BY Zenon, <1>1, <1>2 DEF HasShapes
<1>4. OfKind(t)
    BY Zenon, KindOfType
<1>5. PICK n \in Nat : n = TypeDepth(t)
    BY Zenon, DepthTyped
<1>6. w \in Wire
    BY Zenon, <1>3 DEF IsBuiltOf
<1>7. ASSUME NEW d \in Nat, d + n <= MaxMessageDepth, Check[<<"value", v, t, d>>] = "fine"
      PROVE  w.type = t /\ Fits(w, d)
    <2>1. d <= MaxMessageDepth
        BY <1>7, CoercerAssumption
    <2>2. FineAt(v, c, t, d)
        BY Zenon, <1>3, <1>7, <2>1, VerdictFacts DEF IsExplained
    <2>3. CASE IsBasic(t)
        <3>1. CoerceBasic(v, t[1]) /\ t[1] \in Chars /\ w = BasicValue(v, t[1])
            BY Zenon, <1>3, <2>2, <2>3, CharsAre DEF FineAt, IsBuiltOf, IsBasic, Chars
        <3>2. t = <<t[1]>>
            BY <2>3 DEF IsBasic
        <3> QED
            BY Zenon, <1>6, <2>1, <3>1, <3>2, BasicFits
    <2>4. CASE t = <<"v">>
        <3>1. PICK x : x = Build[<<"variant", v, <<>>>>]
            OBVIOUS
        <3>2. IsListOf(w, 1, <<"v">>, <<x>>)
            BY Zenon, <1>3, <2>4, <3>1 DEF IsBuiltOf
        <3>3. Check[<<"variant", v, <<>>, d + 1>>] = "fine" /\ d + 1 \in Nat
            BY <2>2, <2>4 DEF FineAt
        <3>4. IsSingleCompleteType(x.type) /\ Fits(x, d + 1)
            BY Zenon, <3>1, <3>3 DEF FitsHeld
        <3> QED
            BY Zenon, <2>1, <2>4, <3>2, <3>4, VariantFits DEF IsListOf
    <2>5. CASE IsDict(t)
        <3>1. PICK u : u = DictValue(t)
            OBVIOUS
        <3>2. /\ v.kind = "object" /\ u \in ElementTypes
              /\ \A k \in 1 .. c : /\ CoerceBasic(KeyValue(v.keys[k]), DictKey(t))
                                   /\ Check[<<"value", v.items[k], u, d + 2>>] = "fine"
            BY Zenon, <2>2, <2>5, <3>1 DEF FineAt
        <3>3. PICK h : h = [k \in 1 .. c |-> Build[<<"value", v.items[k], u>>]]
            OBVIOUS
        <3>4. IsMapOf(w, c, v, t, h)
            BY Zenon, <1>3, <2>5, <3>1, <3>2, <3>3 DEF IsBuiltOf
        <3>5. DictKey(t) \in Chars /\ t # <<"v">> /\ Inside(u, t, 2) /\ 2 \in Nat
            <4>1. DictKey(t) \in Basic /\ t # <<"v">> /\ Inside(u, t, 2)
                BY Zenon, <1>4, <2>5, <3>1 DEF OfKind
            <4> QED
                BY <4>1 DEF Chars
        <3>6. /\ u \in Seq(Chars) /\ IsSingleCompleteType(u) /\ d + 2 \in Nat
              /\ d + 2 + TypeDepth(u) <= MaxMessageDepth /\ d + 2 <= MaxMessageDepth
            BY Zenon, <1>5, <1>7, <3>5, InsideHasRoom
        <3>7. ASSUME NEW k \in 1 .. c
              PROVE  /\ KeyScalar(v.keys[k], DictKey(t)).type = <<DictKey(t)>>
                     /\ h[k].type = u /\ Fits(h[k], d + 2)
            <4>1. v.keys[k] \in Keys
                BY Zenon, <3>4 DEF IsMapOf, IsEntryOf
            <4>2. KeyScalar(v.keys[k], DictKey(t)).type = <<DictKey(t)>>
                <5>1. PICK ch \in Chars : ch = DictKey(t)
                    BY Zenon, <3>5
                <5>2. CoerceBasic(KeyValue(v.keys[k]), ch)
                    BY Zenon, <3>2, <5>1
                <5> QED
                    BY Zenon, <4>1, <5>1, <5>2, KeyMade, 0 \in Nat
            <4>3. FitsAs(v.items[k], u)
                BY Zenon, <1>3, <3>6
            <4>4. h[k] = Build[<<"value", v.items[k], u>>]
                BY Zenon, <3>3
            <4> QED
                BY Zenon, <3>2, <3>6, <4>2, <4>3, <4>4 DEF FitsAs
        <3>8. FitInMap(v, t, h, c, d)
            BY Zenon, <3>1, <3>7 DEF FitInMap
        <3>9. Fits(w, d)
            BY Zenon, <2>1, <2>5, <3>1, <3>2, <3>4, <3>5, <3>6, <3>8, MapNests
        <3> QED
            BY Zenon, <3>4, <3>9 DEF IsMapOf
    <2>6. CASE IsList(t)
        <3>1. PICK u : u = Tail(t)
            OBVIOUS
        <3>2. /\ v.kind = "array" /\ u \in ElementTypes
              /\ \E e \in Nat : /\ d + 1 <= MaxMessageDepth => e = d + 1
                                /\ \A k \in 1 .. c : Check[<<"value", v.items[k], u, e>>] = "fine"
            BY Zenon, <2>2, <2>6, <3>1 DEF FineAt
        <3>3. PICK h : h = [k \in 1 .. c |-> Build[<<"value", v.items[k], u>>]]
            OBVIOUS
        <3>4. IsListOf(w, c, t, h)
            BY Zenon, <1>3, <2>6, <3>1, <3>2, <3>3 DEF IsBuiltOf
        <3>5. t # <<"v">> /\ Inside(u, t, 1)
            BY Zenon, <1>4, <2>6, <3>1 DEF OfKind
        <3>6. /\ u \in Seq(Chars) /\ IsSingleCompleteType(u) /\ d + 1 \in Nat
              /\ d + 1 + TypeDepth(u) <= MaxMessageDepth /\ d + 1 <= MaxMessageDepth
            BY Zenon, <1>5, <1>7, <3>5, InsideHasRoom, 1 \in Nat
        <3>7. ASSUME NEW k \in 1 .. c PROVE h[k].type = u /\ Fits(h[k], d + 1)
            <4>1. Check[<<"value", v.items[k], u, d + 1>>] = "fine"
                BY Zenon, <3>2, <3>6
            <4>2. FitsAs(v.items[k], u)
                BY Zenon, <1>3, <3>6
            <4>3. h[k] = Build[<<"value", v.items[k], u>>]
                BY Zenon, <3>3
            <4> QED
                BY Zenon, <3>6, <4>1, <4>2, <4>3 DEF FitsAs
        <3>8. Fits(w, d)
            BY Zenon, <2>1, <2>6, <3>1, <3>2, <3>4, <3>5, <3>7, ListFits
        <3> QED
            BY Zenon, <3>4, <3>8 DEF IsListOf
    <2>7. CASE IsStruct(t)
        <3>1. PICK fs : fs = StructFields(t)
            OBVIOUS
        <3>2. /\ v.kind = "array" /\ c = Len(fs)
              /\ \A k \in 1 .. c : Check[<<"value", v.items[k], fs[k], d + 1>>] = "fine"
            BY Zenon, <2>2, <2>7, <3>1 DEF FineAt
        <3>3. PICK h : h = [k \in 1 .. c |-> Build[<<"value", v.items[k], fs[k]>>]]
            OBVIOUS
        <3>4. IsListOf(w, c, t, h)
            BY Zenon, <1>3, <2>7, <3>1, <3>2, <3>3 DEF IsBuiltOf
        <3>5. /\ t # <<"v">> /\ ~IsDict(t) /\ t[1] # "a" /\ fs \in Seq(Seq(Chars)) /\ fs # <<>>
              /\ \A u \in Range(fs) : Inside(u, t, 1)
            BY Zenon, <1>4, <2>7, <3>1 DEF OfKind
        <3>6. DOMAIN fs = 1 .. c
            BY <3>2, <3>5
        <3>7. ASSUME NEW k \in 1 .. c PROVE h[k].type = fs[k] /\ Fits(h[k], d + 1)
            <4>1. Inside(fs[k], t, 1)
                BY Zenon, <3>1, <3>5, <3>6, FieldFacts
            <4>2. /\ fs[k] \in Seq(Chars) /\ IsSingleCompleteType(fs[k]) /\ d + 1 \in Nat
                  /\ d + 1 + TypeDepth(fs[k]) <= MaxMessageDepth
                BY Zenon, <1>5, <1>7, <4>1, InsideHasRoom, 1 \in Nat
            <4>3. FitsAs(v.items[k], fs[k])
                BY Zenon, <1>3, <4>2
            <4>4. h[k] = Build[<<"value", v.items[k], fs[k]>>]
                BY Zenon, <3>3
            <4> QED
                BY Zenon, <3>2, <4>2, <4>3, <4>4 DEF FitsAs
        <3>8. Fits(w, d)
            <4>1. FitAsTypes(h, c, StructFields(t), d)
                BY Zenon, <3>1, <3>7 DEF FitAsTypes
            <4>2. HasFields(t, c)
                BY Zenon, <2>7, <3>1, <3>2, <3>5 DEF HasFields
            <4> QED
                BY Zenon, <2>1, <3>4, <4>1, <4>2, StructFits
        <3> QED
            BY Zenon, <3>4, <3>8 DEF IsListOf
    <2> QED
        BY Zenon, <1>4, <2>3, <2>4, <2>5, <2>6, <2>7 DEF OfKind
<1> QED
    BY Zenon, <1>2, <1>5, <1>7 DEF FitsAs

\* The same of a value that is put in a variant.
LEMMA HeldFits ==
    ASSUME NEW v \in JSON,
           \A k \in DOMAIN v.items : FitsHeld(v.items[k]),
           IsTyped(v) /\ IsSingleCompleteType(NamedType(v)) => FitsAs(Inner(v), NamedType(v))
    PROVE  FitsHeld(v)
<1>1. PICK c \in Nat : HasShapes(v, c)
    BY Zenon, Shapes
<1>2. PICK w : w = Build[<<"variant", v, <<>>>>]
    OBVIOUS
<1>3. c = Len(v.items) /\ DOMAIN v.items = 1 .. c /\ IsHeldOf(w, c, v)
    BY Zenon, <1>1, <1>2 DEF HasShapes
<1>4. "fine" # "depth" /\ "fine" # "type"
    OBVIOUS
<1>5. ASSUME NEW d \in Nat, Check[<<"variant", v, <<>>, d>>] = "fine"
      PROVE  IsSingleCompleteType(w.type) /\ Fits(w, d)
    <2>1. d <= MaxMessageDepth
        <3>1. ~(d > MaxMessageDepth)
            BY Zenon, <1>4, <1>5, VariantTooDeep
        <3> QED
            BY <3>1, CoercerAssumption
    <2>2. CASE IsTyped(v)
        <3>1. PICK t : t = NamedType(v)
            OBVIOUS
        <3>2. /\ t \in Seq(Chars) /\ IsSingleCompleteType(t) /\ ~(d + TypeDepth(t) > MaxMessageDepth)
              /\ Check[<<"value", Inner(v), t, d>>] = "fine"
            BY Zenon, <1>4, <1>5, <2>1, <2>2, <3>1, TypedChecked
        <3>3. d + TypeDepth(t) <= MaxMessageDepth
            <4>1. PICK n \in Nat : n = TypeDepth(t)
                BY Zenon, <3>2, DepthTyped
            <4>2. ~(d + n > MaxMessageDepth)
                BY Zenon, <3>2, <4>1
            <4>3. d + n <= MaxMessageDepth
                BY <4>2, CoercerAssumption
            <4> QED
                BY Zenon, <4>1, <4>3
        <3>4. w = Build[<<"value", Inner(v), t>>]
            BY Zenon, <1>3, <2>2, <3>1 DEF IsHeldOf
        <3>5. w.type = t /\ Fits(w, d)
            BY Zenon, <2>2, <3>1, <3>2, <3>3, <3>4 DEF FitsAs
        <3> QED
            BY Zenon, <3>2, <3>5
    <2>3. CASE ~IsTyped(v)
        <3>1. PICK g : g = [k \in DOMAIN v.items |-> Build[<<"variant", v.items[k], <<>>>>]]
            OBVIOUS
        <3>2. IsPlain(w, c, v, g)
            BY Zenon, <1>3, <2>3, <3>1 DEF IsHeldOf
        <3>3. v.kind # "null" /\ \A k \in 1 .. c : Check[<<"variant", v.items[k], <<>>, Deeper(v, d)>>] = "fine"
            <4>1. VariantVerdict(Check[<<"variant", v, <<>>, d>>], v, c, Deeper(v, d))
                BY Zenon, <1>3, <2>1, <2>3, VariantChecked
            <4> QED
                BY Zenon, <1>5, <4>1 DEF VariantVerdict
        <3>4. Deeper(v, d) \in Nat
            BY DEF Deeper
        <3>5. \A k \in 1 .. c : IsSingleCompleteType(g[k].type) /\ Fits(g[k], Deeper(v, d))
            BY Zenon, <1>3, <3>1, <3>3, <3>4 DEF FitsHeld
        <3>6. c = 0 \/ Deeper(v, d) <= MaxMessageDepth
            <4>1. c # 0 => 1 \in 1 .. c
                OBVIOUS
            <4>2. c # 0 => v.items[1] \in JSON
                BY Zenon, <1>3, <4>1, JsonFacts
            <4>3. c # 0 => ~(Deeper(v, d) > MaxMessageDepth)
                BY Zenon, <1>4, <3>3, <3>4, <4>1, <4>2, VariantTooDeep
            <4> QED
                BY <3>4, <4>3, CoercerAssumption
        <3> QED
            BY Zenon, <1>3, <2>1, <3>2, <3>3, <3>5, <3>6, PlainFits
    <2> QED
        BY Zenon, <2>2, <2>3
<1> QED
    BY Zenon, <1>2, <1>5 DEF FitsHeld

\* Induction over JSON values, from their items.
LEMMA JsonInduction ==
    ASSUME NEW Q \in SUBSET JSON,
           \A v \in JSON : (\A k \in DOMAIN v.items : v.items[k] \in Q) => v \in Q
    PROVE  Q = JSON
<1>1. PICK rank : rank = [v \in JSON |-> Height(Values, v)]
    OBVIOUS
<1>2. rank \in [JSON -> Nat]
    BY <1>1, JsonFacts
<1>3. ASSUME NEW v \in JSON, \A u \in JSON : rank[u] < rank[v] => u \in Q
      PROVE  v \in Q
    <2>1. \A k \in DOMAIN v.items : v.items[k] \in JSON /\ Height(Values, v.items[k]) < Height(Values, v)
        BY Zenon, JsonFacts
    <2>2. \A k \in DOMAIN v.items : rank[v.items[k]] < rank[v]
        BY Zenon, <1>1, <2>1
    <2> QED
        BY Zenon, <1>3, <2>1, <2>2
<1>4. IsInductive(JSON, rank, Q)
    BY <1>2, <1>3 DEF IsInductive
<1> QED
    BY Zenon, <1>4, RankInduction

\* Induction over D-Bus values, from their items.
LEMMA WireInduction ==
    ASSUME NEW Q \in SUBSET Wire,
           \A w \in Wire : (\A k \in DOMAIN w.items : w.items[k] \in Q) => w \in Q
    PROVE  Q = Wire
<1>1. PICK rank : rank = [w \in Wire |-> Height(Messages, w)]
    OBVIOUS
<1>2. rank \in [Wire -> Nat]
    BY <1>1, WireFacts
<1>3. ASSUME NEW w \in Wire, \A u \in Wire : rank[u] < rank[w] => u \in Q
      PROVE  w \in Q
    <2>1. \A k \in DOMAIN w.items : w.items[k] \in Wire /\ Height(Messages, w.items[k]) < Height(Messages, w)
        BY Zenon, WireFacts
    <2>2. \A k \in DOMAIN w.items : rank[w.items[k]] < rank[w]
        BY Zenon, <1>1, <2>1
    <2> QED
        BY Zenon, <1>3, <2>1, <2>2
<1>4. IsInductive(Wire, rank, Q)
    BY <1>2, <1>3 DEF IsInductive
<1> QED
    BY Zenon, <1>4, RankInduction

\* Inner is an item.
LEMMA InnerIsItem ==
    ASSUME NEW v \in JSON, IsTyped(v)
    PROVE  /\ 2 \in DOMAIN v.items /\ Inner(v) = v.items[2] /\ Inner(v) \in JSON
           /\ NamedType(v) \in Seq(Chars)
<1>1. v \in Values[MaxWraps] /\ MaxWraps \in Nat
    BY Zenon, JsonLevels
<1> QED
    BY Zenon, <1>1, ValueFacts, JsonFacts

\* A value fits as what a variant holds and as every type it is fine for.
AllFit(v) == FitsHeld(v) /\ \A t \in Seq(Chars) : IsSingleCompleteType(t) => FitsAs(v, t)

\* What is checked to be fine fits.
LEMMA FineFits ==
    ASSUME NEW v \in JSON
    PROVE  AllFit(v)
<1>1. PICK Q : Q = {u \in JSON : AllFit(u)}
    OBVIOUS
<1>2. Q \in SUBSET JSON
    BY <1>1
<1>3. ASSUME NEW u \in JSON, \A k \in DOMAIN u.items : u.items[k] \in Q
      PROVE  u \in Q
    <2>1. \A k \in DOMAIN u.items : AllFit(u.items[k])
        BY Zenon, <1>1, <1>3
    <2>2. IsTyped(u) /\ IsSingleCompleteType(NamedType(u)) => FitsAs(Inner(u), NamedType(u))
        BY Zenon, <2>1, InnerIsItem DEF AllFit
    <2>3. FitsHeld(u)
        BY Zenon, <2>1, <2>2, HeldFits DEF AllFit
    <2>4. \A t \in Seq(Chars) : IsSingleCompleteType(t) => FitsAs(u, t)
        BY Zenon, <2>1, <2>3, ValueFits DEF AllFit
    <2> QED
        BY Zenon, <1>1, <2>3, <2>4 DEF AllFit
<1>4. Q = JSON
    BY Zenon, <1>2, <1>3, JsonInduction
<1> QED
    BY Zenon, <1>1, <1>4

\* What is made of v without a type fits, when it is complete and not too deep.
NaturalFitsAt(v) ==
    \A d \in Nat : NaturalDepth[<<v, d>>] <= MaxMessageDepth /\ IsComplete(Natural[v]) =>
        IsSingleCompleteType(Natural[v].type) /\ Fits(Natural[v], d)

\* It is too deep when its depth says so.
NaturalDeepAt(v) == \A d \in Nat : NaturalDepth[<<v, d>>] > MaxMessageDepth => Deep(Natural[v], d)

\* How the depth of v is that of its items.
LEMMA DepthFacts ==
    ASSUME NEW v \in JSON, NEW c \in Nat, c = Len(v.items), DOMAIN v.items = 1 .. c, NEW d \in Nat
    PROVE  /\ Deeper(v, d) \in Nat
           /\ NaturalDepth[<<v, d>>] <= MaxMessageDepth =>
                /\ d <= MaxMessageDepth
                /\ \A k \in 1 .. c : NaturalDepth[<<v.items[k], Deeper(v, d)>>] <= MaxMessageDepth
           /\ NaturalDepth[<<v, d>>] > MaxMessageDepth =>
                \/ d > MaxMessageDepth
                \/ \E k \in 1 .. c : NaturalDepth[<<v.items[k], Deeper(v, d)>>] > MaxMessageDepth
<1>1. Deeper(v, d) \in Nat
    BY DEF Deeper
<1>2. PICK e \in Nat : e = Deeper(v, d)
    BY Zenon, <1>1
<1>3. IsDeepest(NaturalDepth[<<v, d>>], NaturalDepth, v, d, e)
    BY Zenon, <1>2, NaturalDepthIs
<1>4. PICK r : r = NaturalDepth[<<v, d>>]
    OBVIOUS
<1>5. r \in Nat /\ MaxMessageDepth \in Nat
    BY Zenon, <1>3, <1>4, CoercerAssumption DEF IsDeepest
<1>6. CASE d > MaxMessageDepth
    <2>1. r = d
        BY Zenon, <1>3, <1>4, <1>6 DEF IsDeepest
    <2>2. ~(r <= MaxMessageDepth)
        BY <1>5, <1>6, <2>1
    <2> QED
        BY Zenon, <1>1, <1>4, <1>6, <2>2
<1>7. CASE ~(d > MaxMessageDepth)
    <2>1. d <= MaxMessageDepth
        BY <1>5, <1>7
    <2>2. CASE v.items = <<>>
        <3>1. r = d
            BY Zenon, <1>3, <1>4, <2>2 DEF IsDeepest
        <3>2. ~(r > MaxMessageDepth) /\ c = 0
            BY <1>7, <2>2, <3>1
        <3>3. \A k \in 1 .. c : FALSE
            BY <3>2
        <3> QED
            BY Zenon, <1>1, <1>4, <2>1, <3>2, <3>3
    <2>3. CASE v.items # <<>>
        <3>1. /\ \E k \in 1 .. c : r = NaturalDepth[<<v.items[k], e>>]
              /\ \A k \in 1 .. c : NaturalDepth[<<v.items[k], e>>] <= r
            BY Zenon, <1>3, <1>4, <1>7, <2>3 DEF IsDeepest
        <3>2. ASSUME NEW k \in 1 .. c, r <= MaxMessageDepth
              PROVE  NaturalDepth[<<v.items[k], e>>] <= MaxMessageDepth
            <4>1. v.items[k] \in JSON
                BY Zenon, JsonFacts
            <4>2. PICK q \in Nat : q = NaturalDepth[<<v.items[k], e>>]
                BY Zenon, <4>1, NaturalDepthIs DEF IsDeepest
            <4>3. q <= r
                BY Zenon, <3>1, <4>2
            <4>4. q <= MaxMessageDepth
                BY <1>5, <3>2, <4>3
            <4> QED
                BY Zenon, <4>2, <4>4
        <3>3. r > MaxMessageDepth => \E k \in 1 .. c : NaturalDepth[<<v.items[k], e>>] > MaxMessageDepth
            BY Zenon, <3>1
        <3> QED
            BY Zenon, <1>1, <1>2, <1>4, <2>1, <3>2, <3>3
    <2> QED
        BY Zenon, <2>2, <2>3
<1> QED
    BY Zenon, <1>6, <1>7

\* The kinds of values that have items.
LEMMA HasItems ==
    ASSUME NEW v \in JSON, NEW c \in Nat, c = Len(v.items), NEW k \in 1 .. c
    PROVE  v.kind \in {"array", "object"}
<1>1. v \in Values[MaxWraps] /\ MaxWraps \in Nat
    BY Zenon, JsonLevels
<1>2. v.items # <<>>
    OBVIOUS
<1> QED
    BY Zenon, <1>1, <1>2, ValueFacts

\* The natural mapping of a value that naturalDepth() lets through is well
\* typed and within the limit, when so are those of its items.
LEMMA NaturalFits ==
    ASSUME NEW v \in JSON, \A k \in DOMAIN v.items : NaturalFitsAt(v.items[k])
    PROVE  NaturalFitsAt(v)
<1>1. PICK c \in Nat : HasShapes(v, c)
    BY Zenon, Shapes
<1>2. PICK w : w = Natural[v]
    OBVIOUS
<1>3. PICK g : g = [k \in DOMAIN v.items |-> Natural[v.items[k]]]
    OBVIOUS
<1>4. c = Len(v.items) /\ DOMAIN v.items = 1 .. c /\ IsPlain(w, c, v, g)
    BY Zenon, <1>1, <1>2, <1>3 DEF HasShapes
<1>5. \A k \in 1 .. c : g[k] = Natural[v.items[k]]
    BY Zenon, <1>3, <1>4
<1>6. ASSUME NEW d \in Nat, NaturalDepth[<<v, d>>] <= MaxMessageDepth, IsComplete(w)
      PROVE  IsSingleCompleteType(w.type) /\ Fits(w, d)
    <2>1. /\ Deeper(v, d) \in Nat /\ d <= MaxMessageDepth
          /\ \A k \in 1 .. c : NaturalDepth[<<v.items[k], Deeper(v, d)>>] <= MaxMessageDepth
        BY Zenon, <1>4, <1>6, DepthFacts
    <2>2. v.kind # "null"
        BY Zenon, <1>4, <1>6, PartsInside DEF IsPlain
    <2>3. ASSUME NEW k \in 1 .. c
          PROVE  IsSingleCompleteType(g[k].type) /\ Fits(g[k], Deeper(v, d))
        <3>1. IsComplete(g[k])
            BY Zenon, <1>4, <1>6, HasItems, PlainInside
        <3>2. NaturalFitsAt(v.items[k])
            BY Zenon, <1>4
        <3> QED
            BY Zenon, <1>5, <2>1, <3>1, <3>2 DEF NaturalFitsAt
    <2>4. c = 0 \/ Deeper(v, d) <= MaxMessageDepth
        <3>1. c # 0 => 1 \in 1 .. c
            OBVIOUS
        <3>2. ASSUME c # 0 PROVE Deeper(v, d) <= MaxMessageDepth
            <4>1. v.items[1] \in JSON /\ 1 \in 1 .. c
                BY Zenon, <1>4, <3>1, <3>2, JsonFacts
            <4>2. PICK b \in Nat : HasShapes(v.items[1], b)
                BY Zenon, <4>1, Shapes
            <4>3. b = Len(v.items[1].items) /\ DOMAIN v.items[1].items = 1 .. b
                BY Zenon, <4>2 DEF HasShapes
            <4>4. NaturalDepth[<<v.items[1], Deeper(v, d)>>] <= MaxMessageDepth
                BY Zenon, <2>1, <4>1
            <4> QED
                BY Zenon, <2>1, <4>1, <4>3, <4>4, DepthFacts
        <3> QED
            BY Zenon, <3>2
    <2> QED
        BY Zenon, <1>4, <2>1, <2>2, <2>3, <2>4, PlainFits
<1> QED
    BY Zenon, <1>2, <1>6 DEF NaturalFitsAt

\* The natural mapping of a value that naturalDepth() refuses nests too deep,
\* when so do those of its items.
LEMMA NaturalDeep ==
    ASSUME NEW v \in JSON, \A k \in DOMAIN v.items : NaturalDeepAt(v.items[k])
    PROVE  NaturalDeepAt(v)
<1>1. PICK c \in Nat : HasShapes(v, c)
    BY Zenon, Shapes
<1>2. PICK w : w = Natural[v]
    OBVIOUS
<1>3. PICK g : g = [k \in DOMAIN v.items |-> Natural[v.items[k]]]
    OBVIOUS
<1>4. c = Len(v.items) /\ DOMAIN v.items = 1 .. c /\ IsPlain(w, c, v, g)
    BY Zenon, <1>1, <1>2, <1>3 DEF HasShapes
<1>5. \A k \in 1 .. c : g[k] = Natural[v.items[k]]
    BY Zenon, <1>3, <1>4
<1>6. ASSUME NEW d \in Nat, NaturalDepth[<<v, d>>] > MaxMessageDepth
      PROVE  Deep(w, d)
    <2>1. CASE d > MaxMessageDepth
        BY Zenon, <1>4, <2>1, DeepAlready DEF IsPlain
    <2>2. ASSUME NEW k \in 1 .. c, NaturalDepth[<<v.items[k], Deeper(v, d)>>] > MaxMessageDepth
          PROVE  Deep(w, d)
        <3>1. NaturalDeepAt(v.items[k]) /\ Deeper(v, d) \in Nat
            BY Zenon, <1>4, DepthFacts
        <3>2. Deep(g[k], Deeper(v, d))
            BY Zenon, <1>5, <2>2, <3>1 DEF NaturalDeepAt
        <3> QED
            BY Zenon, <1>4, <3>2, HasItems, PlainInside
    <2> QED
        BY Zenon, <1>4, <1>6, <2>1, <2>2, DepthFacts
<1> QED
    BY Zenon, <1>2, <1>6 DEF NaturalDeepAt

\* The natural mapping of any value.
LEMMA NaturalBounds ==
    ASSUME NEW v \in JSON
    PROVE  NaturalFitsAt(v) /\ NaturalDeepAt(v)
<1>1. PICK Q : Q = {u \in JSON : NaturalFitsAt(u) /\ NaturalDeepAt(u)}
    OBVIOUS
<1>2. Q \in SUBSET JSON
    BY <1>1
<1>3. ASSUME NEW u \in JSON, \A k \in DOMAIN u.items : u.items[k] \in Q
      PROVE  u \in Q
    <2>1. \A k \in DOMAIN u.items : NaturalFitsAt(u.items[k]) /\ NaturalDeepAt(u.items[k])
        BY Zenon, <1>1, <1>3
    <2>2. NaturalFitsAt(u) /\ NaturalDeepAt(u)
        BY Zenon, <2>1, NaturalFits, NaturalDeep
    <2> QED
        BY Zenon, <1>1, <2>2
<1>4. Q = JSON
    BY Zenon, <1>2, <1>3, JsonInduction
<1> QED
    BY Zenon, <1>1, <1>4

\* A container is built of the type asked for, whatever is put in it.
LEMMA TypeKept ==
    ASSUME NEW v \in JSON, NEW t \in Seq(Chars), IsSingleCompleteType(t), TypeDepth(t) > 0
    PROVE  Build[<<"value", v, t>>].type = t
<1>1. v \in Values[MaxWraps] /\ MaxWraps \in Nat /\ MaxWraps <= MaxWraps
    BY JsonLevels
<1>2. Build[<<"value", v, t>>] = BuildValue(Build, v, t)
    BY Zenon, <1>1, BuildIs DEF BuildsOn
<1>3. OfKind(t) /\ TypeDepth(t) # 0
    BY KindOfType
<1>4. \A x : Contents(t, x).type = t
    BY DEF Contents
<1>5. /\ BuildMap(Build, v, t).type = t
      /\ BuildArray(Build, v, t).type = t
      /\ BuildStruct(Build, v, t).type = t
    BY Zenon, <1>4 DEF BuildMap, BuildArray, BuildStruct
<1>6. ~IsBasic(t) /\ t # <<"v">>
    BY Zenon, <1>3 DEF OfKind
<1> QED
    BY Zenon, <1>2, <1>5, <1>6 DEF BuildValue

\* What is too deep for the type t is built too deep.
DeepAs(v, t) ==
    \A d \in Nat : Check[<<"value", v, t, d>>] = "depth" => Deep(Build[<<"value", v, t>>], d)

\* A value that is too deep for a variant is written too deep.
DeepHeld(v) ==
    \A d \in Nat : Check[<<"variant", v, <<>>, d>>] = "depth" => Deep(Build[<<"variant", v, <<>>>>], d)

\* A value pass 1 finds too deep for a type would be written too deep, when so
\* would its items.
LEMMA ValueDeep ==
    ASSUME NEW v \in JSON, NEW t \in Seq(Chars), IsSingleCompleteType(t),
           \A k \in DOMAIN v.items : \A u \in Seq(Chars) : IsSingleCompleteType(u) => DeepAs(v.items[k], u),
           DeepHeld(v)
    PROVE  DeepAs(v, t)
<1>1. PICK c \in Nat : HasShapes(v, c)
    BY Zenon, Shapes
<1>2. PICK w : w = Build[<<"value", v, t>>]
    OBVIOUS
<1>3. c = Len(v.items) /\ DOMAIN v.items = 1 .. c /\ IsBuiltOf(w, c, v, t)
    BY Zenon, <1>1, <1>2 DEF HasShapes
<1>4. OfKind(t)
    BY Zenon, KindOfType
<1>6. w \in Wire
    BY Zenon, <1>3 DEF IsBuiltOf
<1>7. ASSUME NEW d \in Nat, d <= MaxMessageDepth, DepthAt(v, c, t, d)
      PROVE  Deep(w, d)
    <2>1. d + 1 \in Nat /\ d + 2 \in Nat
        OBVIOUS
    <2>2. CASE t = <<"v">> /\ Check[<<"variant", v, <<>>, d + 1>>] = "depth"
        <3>1. PICK x : x = Build[<<"variant", v, <<>>>>]
            OBVIOUS
        <3>2. IsListOf(w, 1, <<"v">>, <<x>>)
            BY Zenon, <1>3, <2>2, <3>1 DEF IsBuiltOf
        <3>3. Deep(x, d + 1)
            BY Zenon, <2>1, <2>2, <3>1 DEF DeepHeld
        <3>4. <<x>>[1] = x /\ 1 \in 1 .. 1 /\ 1 \in Nat
            OBVIOUS
        <3> QED
            BY Zenon, <3>2, <3>3, <3>4, InsideList
    <2>3. CASE IsDict(t) /\ v.kind = "object"
               /\ \E k \in 1 .. c : Check[<<"value", v.items[k], DictValue(t), d + 2>>] = "depth"
        <3>1. PICK k \in 1 .. c : Check[<<"value", v.items[k], DictValue(t), d + 2>>] = "depth"
            BY Zenon, <2>3
        <3>2. PICK h : h = [i \in 1 .. c |-> Build[<<"value", v.items[i], DictValue(t)>>]]
            OBVIOUS
        <3>3. IsMapOf(w, c, v, t, h)
            BY Zenon, <1>3, <2>3, <3>2 DEF IsBuiltOf
        <3>4. DictValue(t) \in Seq(Chars) /\ IsSingleCompleteType(DictValue(t))
            BY Zenon, <1>4, <2>3 DEF OfKind, Inside
        <3>5. h[k] = Build[<<"value", v.items[k], DictValue(t)>>]
            BY Zenon, <3>2
        <3>6. Deep(h[k], d + 2)
            BY Zenon, <1>3, <2>1, <3>1, <3>4, <3>5 DEF DeepAs
        <3> QED
            BY Zenon, <3>3, <3>6, InsideMap
    <2>4. CASE IsList(t) /\ v.kind = "array"
               /\ \E k \in 1 .. c : Check[<<"value", v.items[k], Tail(t), d + 1>>] = "depth"
        <3>1. PICK k \in 1 .. c : Check[<<"value", v.items[k], Tail(t), d + 1>>] = "depth"
            BY Zenon, <2>4
        <3>2. PICK h : h = [i \in 1 .. c |-> Build[<<"value", v.items[i], Tail(t)>>]]
            OBVIOUS
        <3>3. IsListOf(w, c, t, h)
            BY Zenon, <1>3, <2>4, <3>2 DEF IsBuiltOf
        <3>4. Tail(t) \in Seq(Chars) /\ IsSingleCompleteType(Tail(t))
            BY Zenon, <1>4, <2>4 DEF OfKind, Inside
        <3>5. h[k] = Build[<<"value", v.items[k], Tail(t)>>]
            BY Zenon, <3>2
        <3>6. Deep(h[k], d + 1)
            BY Zenon, <1>3, <2>1, <3>1, <3>4, <3>5 DEF DeepAs
        <3> QED
            BY Zenon, <3>3, <3>6, InsideList
    <2>5. CASE IsStruct(t) /\ v.kind = "array" /\ c = Len(StructFields(t))
               /\ \E k \in 1 .. c : Check[<<"value", v.items[k], StructFields(t)[k], d + 1>>] = "depth"
        <3>1. PICK k \in 1 .. c : Check[<<"value", v.items[k], StructFields(t)[k], d + 1>>] = "depth"
            BY Zenon, <2>5
        <3>2. PICK h : h = [i \in 1 .. c |-> Build[<<"value", v.items[i], StructFields(t)[i]>>]]
            OBVIOUS
        <3>3. IsListOf(w, c, t, h)
            BY Zenon, <1>3, <2>5, <3>2 DEF IsBuiltOf
        <3>4. PICK u : u = StructFields(t)[k]
            OBVIOUS
        <3>5. u \in Seq(Chars) /\ IsSingleCompleteType(u)
            <4>1. /\ StructFields(t) \in Seq(Seq(Chars)) /\ \A s \in Range(StructFields(t)) : Inside(s, t, 1)
                BY Zenon, <1>4, <2>5 DEF OfKind
            <4>2. DOMAIN StructFields(t) = 1 .. c
                BY <2>5, <4>1
            <4>3. Inside(u, t, 1)
                BY Zenon, <3>4, <4>1, <4>2, FieldFacts
            <4> QED
                BY Zenon, <4>3 DEF Inside
        <3>6. h[k] = Build[<<"value", v.items[k], u>>]
            BY Zenon, <3>2, <3>4
        <3>7. Deep(h[k], d + 1)
            BY Zenon, <1>3, <2>1, <3>1, <3>4, <3>5, <3>6 DEF DeepAs
        <3> QED
            BY Zenon, <3>3, <3>7, InsideList
    <2> QED
        BY Zenon, <1>7, <2>2, <2>3, <2>4, <2>5 DEF DepthAt
<1>8. ASSUME NEW d \in Nat, Check[<<"value", v, t, d>>] = "depth"
      PROVE  Deep(w, d)
    <2>1. CASE d > MaxMessageDepth
        BY Zenon, <1>6, <2>1, DeepAlready
    <2>2. CASE ~(d > MaxMessageDepth)
        <3>1. d <= MaxMessageDepth
            BY <2>2, CoercerAssumption
        <3>2. DepthAt(v, c, t, d)
            BY Zenon, <1>3, <1>8, <3>1, VerdictFacts DEF IsExplained
        <3> QED
            BY Zenon, <1>7, <3>1, <3>2
    <2> QED
        BY Zenon, <2>1, <2>2
<1> QED
    BY Zenon, <1>2, <1>8 DEF DeepAs

\* The same of a value that is put in a variant.
LEMMA VariantDeep ==
    ASSUME NEW v \in JSON,
           \A k \in DOMAIN v.items : DeepHeld(v.items[k]),
           IsTyped(v) /\ IsSingleCompleteType(NamedType(v)) => DeepAs(Inner(v), NamedType(v))
    PROVE  DeepHeld(v)
<1>1. PICK c \in Nat : HasShapes(v, c)
    BY Zenon, Shapes
<1>2. PICK w : w = Build[<<"variant", v, <<>>>>]
    OBVIOUS
<1>3. c = Len(v.items) /\ DOMAIN v.items = 1 .. c /\ IsHeldOf(w, c, v) /\ w \in Wire
    BY Zenon, <1>1, <1>2 DEF HasShapes, IsHeldOf
<1>4. "fine" # "depth" /\ "depth" # "type"
    OBVIOUS
<1>5. ASSUME NEW d \in Nat, Check[<<"variant", v, <<>>, d>>] = "depth"
      PROVE  Deep(w, d)
    <2>1. CASE d > MaxMessageDepth
        BY Zenon, <1>3, <2>1, DeepAlready
    <2>2. CASE ~(d > MaxMessageDepth)
        <3>1. d <= MaxMessageDepth
            BY <2>2, CoercerAssumption
        <3>2. CASE IsTyped(v)
            <4>1. PICK t : t = NamedType(v)
                OBVIOUS
            <4>2. /\ t \in Seq(Chars) /\ IsSingleCompleteType(t) /\ Inner(v) \in JSON
                  /\ ~(d + TypeDepth(t) > MaxMessageDepth) =>
                        Check[<<"value", Inner(v), t, d>>] = "depth"
                BY Zenon, <1>4, <1>5, <3>1, <3>2, <4>1, TypedChecked
            <4>3. w = Build[<<"value", Inner(v), t>>]
                BY Zenon, <1>3, <3>2, <4>1 DEF IsHeldOf
            <4>4. CASE d + TypeDepth(t) > MaxMessageDepth
                <5>1. PICK n \in Nat : n = TypeDepth(t)
                    BY Zenon, <4>2, DepthTyped
                <5>2. d + n > MaxMessageDepth
                    BY Zenon, <4>4, <5>1
                <5>3. n > 0
                    BY <3>1, <5>2, CoercerAssumption
                <5>4. w.type = t
                    BY Zenon, <4>2, <4>3, <5>1, <5>3, TypeKept
                <5> QED
                    BY Zenon, <1>3, <4>4, <5>4, DeepNow
            <4>5. CASE ~(d + TypeDepth(t) > MaxMessageDepth)
                BY Zenon, <3>2, <4>1, <4>2, <4>3, <4>5 DEF DeepAs
            <4> QED
                BY Zenon, <4>4, <4>5
        <3>3. CASE ~IsTyped(v)
            <4>1. PICK g : g = [k \in DOMAIN v.items |-> Build[<<"variant", v.items[k], <<>>>>]]
                OBVIOUS
            <4>2. IsPlain(w, c, v, g)
                BY Zenon, <1>3, <3>3, <4>1 DEF IsHeldOf
            <4>3. VariantVerdict(Check[<<"variant", v, <<>>, d>>], v, c, Deeper(v, d))
                BY Zenon, <1>3, <3>1, <3>3, VariantChecked
            <4>4. PICK k \in 1 .. c : Check[<<"variant", v.items[k], <<>>, Deeper(v, d)>>] = "depth"
                BY Zenon, <1>5, <4>3 DEF VariantVerdict
            <4>5. Deeper(v, d) \in Nat
                BY DEF Deeper
            <4>6. Deep(g[k], Deeper(v, d))
                BY Zenon, <1>3, <4>1, <4>4, <4>5 DEF DeepHeld
            <4> QED
                BY Zenon, <1>3, <4>2, <4>6, HasItems, PlainInside
        <3> QED
            BY Zenon, <3>2, <3>3
    <2> QED
        BY Zenon, <2>1, <2>2
<1> QED
    BY Zenon, <1>2, <1>5 DEF DeepHeld

\* A value that is found too deep, as what a variant holds or as a type, would
\* be written so.
AllDeep(v) == DeepHeld(v) /\ \A t \in Seq(Chars) : IsSingleCompleteType(t) => DeepAs(v, t)

\* What is refused as too deep is.
LEMMA RefusedIsDeep ==
    ASSUME NEW v \in JSON
    PROVE  AllDeep(v)
<1>1. PICK Q : Q = {u \in JSON : AllDeep(u)}
    OBVIOUS
<1>2. Q \in SUBSET JSON
    BY <1>1
<1>3. ASSUME NEW u \in JSON, \A k \in DOMAIN u.items : u.items[k] \in Q
      PROVE  u \in Q
    <2>1. \A k \in DOMAIN u.items : AllDeep(u.items[k])
        BY Zenon, <1>1, <1>3
    <2>2. IsTyped(u) /\ IsSingleCompleteType(NamedType(u)) => DeepAs(Inner(u), NamedType(u))
        BY Zenon, <2>1, InnerIsItem DEF AllDeep
    <2>3. DeepHeld(u)
        BY Zenon, <2>1, <2>2, VariantDeep DEF AllDeep
    <2>4. \A t \in Seq(Chars) : IsSingleCompleteType(t) => DeepAs(u, t)
        BY Zenon, <2>1, <2>3, ValueDeep DEF AllDeep
    <2> QED
        BY Zenon, <1>1, <2>3, <2>4 DEF AllDeep
<1>4. Q = JSON
    BY Zenon, <1>2, <1>3, JsonInduction
<1> QED
    BY Zenon, <1>1, <1>4

-----------------------------------------------------------------------------
(* What is read back of what was built. *)

\* Demarshall by the kind of the D-Bus value.
LEMMA ReadIs ==
    ASSUME NEW w \in Wire
    PROVE  Demarshall[w] = DemarshallOf(Demarshall, w)
<1>1. PICK n \in Nat : n = 3 * MaxWraps + 1
    BY Zenon, DemarshallIs
<1>2. n <= n
    OBVIOUS
<1>3. ReadsOn(Demarshall, n)
    BY Zenon, <1>1, <1>2, DemarshallIs
<1>4. w \in Messages[n]
    BY Zenon, <1>1 DEF Wire
<1> QED
    BY Zenon, <1>3, <1>4 DEF ReadsOn

\* A variant is read as what it holds.
LEMMA ReadVariant ==
    ASSUME NEW w, NEW x, IsListOf(w, 1, <<"v">>, <<x>>)
    PROVE  Demarshall[w] = Demarshall[x]
<1>1. w \in Wire /\ w.type = <<"v">> /\ w.items[1] = <<x>>[1]
    <2>1. 1 \in 1 .. 1
        OBVIOUS
    <2> QED
        BY Zenon, <2>1 DEF IsListOf
<1>2. <<x>>[1] = x
    OBVIOUS
<1> QED
    BY Zenon, <1>1, <1>2, ReadIs DEF DemarshallOf

\* What c values are read as.
ReadAll(h, c) == [k \in 1 .. c |-> Demarshall[h[k]]]

\* A list is read as an array.
LEMMA ReadList ==
    ASSUME NEW w, NEW c \in Nat, NEW t, NEW items, IsListOf(w, c, t, items), t # <<"v">>, ~IsDict(t)
    PROVE  Demarshall[w] = Array(ReadAll(items, c))
<1>1. w \in Wire /\ w.type = t /\ w.content = "none" /\ DOMAIN w.items = 1 .. c
    BY Zenon DEF IsListOf
<1>2. Demarshall[w] = Array([k \in DOMAIN w.items |-> Demarshall[w.items[k]]])
    BY Zenon, <1>1, ReadIs DEF DemarshallOf, DemarshallItems
<1>3. \A k \in 1 .. c : w.items[k] = items[k]
    BY Zenon DEF IsListOf
<1>4. [k \in DOMAIN w.items |-> Demarshall[w.items[k]]] = ReadAll(items, c)
    BY <1>1, <1>3 DEF ReadAll
<1> QED
    BY Zenon, <1>2, <1>4

\* The keys that are read of a map.
ReadKeys(v, t, c) == [k \in 1 .. c |-> IF DictKey(t) = "i" THEN "numeral" ELSE v.keys[k]]

\* w is read as an object of those keys and values.
IsReadMap(w, c, v, t, values) ==
    Demarshall[w] = Object(ReadKeys(v, t, c), ReadAll(values, c))

\* A map is.
LEMMA ReadMap ==
    ASSUME NEW w, NEW c \in Nat, NEW v, NEW t, NEW values, IsMapOf(w, c, v, t, values),
           t # <<"v">>, IsDict(t)
    PROVE  IsReadMap(w, c, v, t, values)
<1>1. w \in Wire /\ w.type = t /\ DOMAIN w.items = 1 .. c /\ KeysOf(w) = ReadKeys(v, t, c)
    BY Zenon DEF IsMapOf, ReadKeys
<1>2. Demarshall[w] = Object(KeysOf(w), [k \in DOMAIN w.items |-> Demarshall[w.items[k].items[2]]])
    BY Zenon, <1>1, ReadIs DEF DemarshallOf, DemarshallMap
<1>3. \A k \in 1 .. c : w.items[k].items[2] = values[k]
    BY Zenon DEF IsMapOf, IsEntryOf
<1>4. [k \in DOMAIN w.items |-> Demarshall[w.items[k].items[2]]] = ReadAll(values, c)
    BY <1>1, <1>3 DEF ReadAll
<1> QED
    BY Zenon, <1>1, <1>2, <1>4 DEF IsReadMap

\* A basic value is read as what it holds.
LEMMA ReadLeaf ==
    ASSUME NEW w \in Wire, w.content \in {"text", "numeral", "integer"}, w.type \in {<<"s">>, <<"i">>}
    PROVE  Demarshall[w] = Leaf(w.content, <<>>)
<1>1. w.content # "none" /\ w.content # "@dbus"
    OBVIOUS
<1>2. w.type # <<"v">> /\ ~IsDict(w.type)
    <2>1. <<"s">> # <<"v">> /\ <<"i">> # <<"v">>
        OBVIOUS
    <2> QED
        BY Zenon, <2>1, PlainParts
<1> QED
    BY Zenon, <1>1, <1>2, ReadIs DEF DemarshallOf

\* The first c keys.
KeysUpTo(keys, c) == [k \in 1 .. c |-> keys[k]]

\* What is read of what v was made into without a type, its items into g.
IsReadOf(b, c, v, g) ==
    /\ v.kind = "array" => b = Array(ReadAll(g, c))
    /\ v.kind = "object" =>
        b = Object(KeysUpTo(v.keys, c), ReadAll(g, c)) /\ \A k \in 1 .. c : v.keys[k] \in Keys
    /\ v.kind \in {"text", "numeral", "integer"} => b = Leaf(v.kind, <<>>)

\* What was made without a type is read so.
LEMMA PlainRead ==
    ASSUME NEW c \in Nat, NEW v, NEW w, NEW g, IsPlain(w, c, v, g)
    PROVE  IsReadOf(Demarshall[w], c, v, g)
<1>1. PICK h : h = Variants(v, g)
    OBVIOUS
<1>2. v.kind \in {"array", "object"} => \A k \in 1 .. c : Demarshall[h[k]] = Demarshall[g[k]]
    BY Zenon, <1>1, ReadVariant DEF IsPlain
<1>3. v.kind \in {"array", "object"} =>
        ReadAll(h, c) = ReadAll(g, c)
    BY <1>2 DEF ReadAll
<1>4. CASE v.kind = "array"
    <2>1. IsListOf(w, c, <<"a", "v">>, h)
        BY Zenon, <1>1, <1>4 DEF IsPlain
    <2>2. Demarshall[w] = Array(ReadAll(h, c))
        <3>1. PICK t : t = <<"a", "v">>
            OBVIOUS
        <3>2. IsListOf(w, c, t, h) /\ t # <<"v">> /\ ~IsDict(t)
            BY Zenon, <2>1, <3>1, PlainParts
        <3> QED
            BY Zenon, <3>2, ReadList
    <2>3. ReadAll(h, c) = ReadAll(g, c)
        BY Zenon, <1>3, <1>4
    <2>4. v.kind # "object" /\ v.kind \notin {"text", "numeral", "integer"}
        BY <1>4
    <2> QED
        BY Zenon, <2>2, <2>3, <2>4 DEF IsReadOf
<1>5. CASE v.kind = "object"
    <2>1. IsMapOf(w, c, v, AnyMap, h)
        BY Zenon, <1>1, <1>5 DEF IsPlain
    <2>2. Demarshall[w] = Object(ReadKeys(v, AnyMap, c), ReadAll(h, c))
        <3>1. PICK t : t = AnyMap
            OBVIOUS
        <3>2. IsMapOf(w, c, v, t, h) /\ t # <<"v">> /\ IsDict(t)
            BY Zenon, <2>1, <3>1, PlainParts
        <3>3. Demarshall[w] = Object(ReadKeys(v, t, c), ReadAll(h, c))
            BY Zenon, <3>2, ReadMap DEF IsReadMap
        <3> QED
            BY Zenon, <3>1, <3>3
    <2>3. ReadAll(h, c) = ReadAll(g, c)
        BY Zenon, <1>3, <1>5
    <2>4. v.kind # "array" /\ v.kind \notin {"text", "numeral", "integer"}
        BY <1>5
    <2>5. ReadKeys(v, AnyMap, c) = KeysUpTo(v.keys, c)
        <3>1. DictKey(AnyMap) # "i"
            BY PlainParts
        <3> QED
            BY Zenon, <3>1 DEF ReadKeys, KeysUpTo
    <2>6. \A k \in 1 .. c : v.keys[k] \in Keys
        BY Zenon, <2>1 DEF IsMapOf, IsEntryOf
    <2> QED
        BY Zenon, <2>2, <2>3, <2>4, <2>5, <2>6 DEF IsReadOf
<1>6. CASE v.kind \in {"text", "numeral", "integer"}
    <2>1. w \in Wire /\ w.content = v.kind /\ w.type \in {<<"s">>, <<"i">>}
        <3>1. w \in Wire
            BY Zenon DEF IsPlain
        <3>2. v.kind = "integer" => IsLeafOf(w, <<"i">>, "integer")
            BY Zenon DEF IsPlain
        <3>3. v.kind # "integer" => IsLeafOf(w, <<"s">>, v.kind)
            BY Zenon, <1>6 DEF IsPlain
        <3> QED
            BY Zenon, <3>1, <3>2, <3>3 DEF IsLeafOf
    <2>2. Demarshall[w] = Leaf(v.kind, <<>>)
        BY Zenon, <1>6, <2>1, ReadLeaf
    <2>3. v.kind # "array" /\ v.kind # "object"
        BY <1>6
    <2> QED
        BY Zenon, <2>2, <2>3 DEF IsReadOf
<1> QED
    BY Zenon, <1>4, <1>5, <1>6 DEF IsReadOf

-----------------------------------------------------------------------------
(* How JSON values are made. *)

\* A value without items is one of every level.
LEMMA LeafMade ==
    ASSUME NEW n \in Nat, NEW kind \in {"text", "numeral", "integer", "null"}
    PROVE  Leaf(kind, <<>>) \in Values[n]
<1>1. kind \in Kinds /\ <<>> \in Seq(Keys) /\ <<>> \in Seq(Chars) /\ kind # "object"
    BY DEF Kinds
<1>2. PICK v : v = [kind |-> kind, keys |-> <<>>, items |-> <<>>, text |-> <<>>]
    OBVIOUS
<1>3. v.kind = kind /\ v.items = <<>>
    BY <1>2
<1>4. IsValue(v)
    BY Zenon, <1>1, <1>3 DEF IsValue
<1>5. v \in Values[n]
    BY Zenon, <1>1, <1>2, <1>4, ValuesLevelled
<1> QED
    BY Zenon, <1>2, <1>5 DEF Leaf

\* The items of a value on level n, or none.
LEMMA ItemsMade ==
    ASSUME NEW n \in Nat, NEW c \in Nat, NEW f, DOMAIN f = 1 .. c, f = [k \in 1 .. c |-> f[k]],
           c = 0 \/ n > 0, \A k \in 1 .. c : f[k] \in Values[n - 1],
           NEW kind \in {"array", "object"}, NEW keys \in Seq(Keys),
           kind = "object" => IsKeys(keys) /\ Len(keys) = c
    PROVE  [kind |-> kind, keys |-> keys, items |-> f, text |-> <<>>] \in Values[n]
<1>1. kind \in Kinds /\ <<>> \in Seq(Chars)
    BY DEF Kinds
<1>2. PICK v : v = [kind |-> kind, keys |-> keys, items |-> f, text |-> <<>>]
    OBVIOUS
<1>3. v.kind = kind /\ v.items = f /\ v.keys = keys /\ Len(f) = c
    BY <1>2
<1>4. IsValue(v)
    BY Zenon, <1>3 DEF IsValue
<1>5. CASE c = 0
    <2>1. f = <<>>
        BY <1>5
    <2> QED
        BY Zenon, <1>1, <1>2, <1>4, <2>1, ValuesLevelled
<1>6. CASE c # 0
    <2>1. PICK m \in Nat : m = n - 1
        BY <1>6
    <2>2. f \in Seq(Values[m])
        BY <2>1
    <2>3. n = m + 1
        BY <2>1
    <2>4. v \in Values[m + 1]
        BY Zenon, <1>1, <1>2, <1>4, <2>2, ValuesLevelled
    <2> QED
        BY Zenon, <1>2, <2>3, <2>4
<1> QED
    BY Zenon, <1>5, <1>6

\* The keys of a map are read as keys.
AreKeys(keys, c) == keys \in Seq(Keys) /\ IsKeys(keys) /\ Len(keys) = c

\* The keys of a map that was built from an object are the keys of that
\* object.
LEMMA KeysRead ==
    ASSUME NEW n \in Nat, NEW v \in Values[n], v.kind = "object", NEW c \in Nat, c = Len(v.items), NEW t
    PROVE  AreKeys(ReadKeys(v, t, c), c) /\ KeysUpTo(v.keys, c) = v.keys
<1>1. v.keys \in Seq(Keys) /\ IsKeys(v.keys) /\ Len(v.keys) = c
    BY Zenon, ValueFacts
<1>2. PICK s : s = v.keys
    OBVIOUS
<1>3. [k \in 1 .. c |-> s[k]] = s
    BY <1>1, <1>2
<1>4. CASE DictKey(t) = "i"
    <2>1. PICK r : r = [k \in 1 .. c |-> "numeral"]
        OBVIOUS
    <2>2. ReadKeys(v, t, c) = r
        BY Zenon, <1>4, <2>1 DEF ReadKeys
    <2>3. "numeral" \in Keys
        BY DEF Keys
    <2>4. r \in Seq(Keys) /\ Len(r) = c
        BY <2>1, <2>3
    <2>5. ~Contains(r, "@dbus")
        BY <2>1 DEF Contains
    <2> QED
        BY Zenon, <1>2, <1>3, <2>2, <2>4, <2>5 DEF IsKeys, AreKeys, KeysUpTo
<1>5. CASE DictKey(t) # "i"
    <2>1. ReadKeys(v, t, c) = [k \in 1 .. c |-> s[k]]
        BY Zenon, <1>2, <1>5 DEF ReadKeys
    <2> QED
        BY Zenon, <1>1, <1>2, <1>3, <2>1 DEF AreKeys, KeysUpTo
<1> QED
    BY Zenon, <1>4, <1>5

\* c values are read as values below level n.
ReadBelow(h, c, n) == (c = 0 \/ n > 0) /\ \A k \in 1 .. c : Demarshall[h[k]] \in Values[n - 1]

\* They are the items of values on that level.
LEMMA ReadMade ==
    ASSUME NEW n \in Nat, NEW c \in Nat, NEW h, ReadBelow(h, c, n), NEW keys, AreKeys(keys, c)
    PROVE  Array(ReadAll(h, c)) \in Values[n] /\ Object(keys, ReadAll(h, c)) \in Values[n]
<1>1. PICK f : f = ReadAll(h, c)
    OBVIOUS
<1>2. DOMAIN f = 1 .. c /\ f = [k \in 1 .. c |-> f[k]] /\ \A k \in 1 .. c : f[k] = Demarshall[h[k]]
    BY <1>1 DEF ReadAll
<1>3. (\A k \in 1 .. c : f[k] \in Values[n - 1]) /\ (c = 0 \/ n > 0)
    BY Zenon, <1>2 DEF ReadBelow
<1>4. "array" \in {"array", "object"} /\ "object" \in {"array", "object"} /\ "array" # "object"
    OBVIOUS
<1>5. PICK none : none = <<>>
    OBVIOUS
<1>6. none \in Seq(Keys)
    BY <1>5
<1>7. [kind |-> "array", keys |-> none, items |-> f, text |-> <<>>] \in Values[n]
    BY Zenon, <1>2, <1>3, <1>4, <1>6, ItemsMade
<1>8. [kind |-> "object", keys |-> keys, items |-> f, text |-> <<>>] \in Values[n]
    BY Zenon, <1>2, <1>3, <1>4, ItemsMade DEF AreKeys
<1> QED
    BY Zenon, <1>1, <1>5, <1>7, <1>8 DEF Array, Object

\* What is built of v for the type t is read as a value of no more containers than v.
ReadAs(v, t) ==
    \A n \in Nat, d \in Nat :
        n <= MaxWraps /\ v \in Values[n] /\ Check[<<"value", v, t, d>>] = "fine" =>
            Demarshall[Build[<<"value", v, t>>]] \in Values[n]

\* What a variant holds is read back as JSON of the level it was written from.
ReadHeld(v) ==
    \A n \in Nat, d \in Nat :
        n <= MaxWraps /\ v \in Values[n] /\ Check[<<"variant", v, <<>>, d>>] = "fine" =>
            Demarshall[Build[<<"variant", v, <<>>>>]] \in Values[n]

\* The items of a value on level n are below it.
LEMMA ItemsBelow ==
    ASSUME NEW n \in Nat, n <= MaxWraps, NEW v \in Values[n], NEW c \in Nat, c = Len(v.items)
    PROVE  \A k \in 1 .. c : n > 0 /\ n - 1 \in Nat /\ n - 1 <= MaxWraps /\ v.items[k] \in Values[n - 1]
<1> TAKE k \in 1 .. c
<1>1. v.items # <<>>
    OBVIOUS
<1>2. n > 0 /\ v.items \in Seq(Values[n - 1])
    BY Zenon, <1>1, ValueFacts
<1>3. v.items[k] \in Values[n - 1]
    BY <1>2
<1>4. MaxWraps \in Nat
    BY Zenon, JsonLevels
<1>5. n - 1 \in Nat /\ n - 1 <= MaxWraps
    BY <1>2, <1>4
<1> QED
    BY Zenon, <1>2, <1>3, <1>5

-----------------------------------------------------------------------------
(* The invariant of the coercer: what is sent was made of the argument, once *)
(* the checks of pass 1 had found it fine.                                   *)

\* w was made of the argument, for the type of its parameter.
IsMadeFor(w) ==
    \/ /\ signature # <<>> /\ IsSingleCompleteType(signature)
       /\ Check[<<"value", value, signature, 0>>] = "fine"
       /\ w = Build[<<"value", value, signature>>]
    \/ /\ signature = <<>>
       /\ ~(NaturalDepth[<<value, 0>>] > MaxMessageDepth)
       /\ IsComplete(Natural[value])
       /\ w = Natural[value]

\* The argument was found too deep.
IsFoundDeep ==
    \/ /\ signature # <<>> /\ IsSingleCompleteType(signature)
       /\ Check[<<"value", value, signature, 0>>] = "depth"
    \/ signature = <<>> /\ NaturalDepth[<<value, 0>>] > MaxMessageDepth

\* What holds in every state: what was sent was made of a value that is fine,
\* what came back is what was sent, and a value is refused for its depth only
\* when it is too deep.
CoercerInv ==
    /\ value \in JSON
    /\ signature \in Seq(Chars)
    /\ phase \in {"argument", "refused", "sent", "back"}
    /\ phase \in {"sent", "back"} => IsMadeFor(sent)
    /\ phase = "back" => back = Demarshall[sent]
    /\ phase = "refused" /\ problem = "depth" => IsFoundDeep

\* The first arguments are JSON values.
LEMMA LeavesAreJson == Leaves \subseteq JSON
<1>1. MaxWraps \in Nat /\ JSON = Values[MaxWraps]
    BY Zenon, JsonLevels
<1>2. \A kind \in {"text", "numeral", "integer", "null"} : Leaf(kind, <<>>) \in JSON
    BY Zenon, <1>1, LeafMade
<1>3. PICK f : f = <<>>
    OBVIOUS
<1>4. DOMAIN f = 1 .. 0 /\ f = [k \in 1 .. 0 |-> f[k]] /\ 0 \in Nat /\ f \in Seq(Keys) /\ Len(f) = 0
      /\ (\A k \in 1 .. 0 : f[k] \in Values[MaxWraps - 1]) /\ IsKeys(f)
    BY <1>3 DEF IsKeys, Contains
<1>5. \A kind \in {"array", "object"} :
        [kind |-> kind, keys |-> f, items |-> f, text |-> <<>>] \in JSON
    BY Zenon, <1>1, <1>4, ItemsMade
<1>6. "array" \in {"array", "object"} /\ "object" \in {"array", "object"}
    OBVIOUS
<1>7. Array(<<>>) \in JSON /\ Object(<<>>, <<>>) \in JSON
    BY Zenon, <1>3, <1>5, <1>6 DEF Array, Object
<1> QED
    BY Zenon, <1>2, <1>7 DEF Leaves

\* The argument is a JSON value from the start, and nothing was sent.
LEMMA CoercerInvInit == CoercerInit => CoercerInv
<1> SUFFICES ASSUME CoercerInit
             PROVE  CoercerInv
    OBVIOUS
<1>1. value \in JSON
    BY Zenon, LeavesAreJson DEF CoercerInit
<1>2. signature \in Seq(Chars)
    BY Zenon, CoercerAssumption, CharsAre DEF CoercerInit
<1>3. phase = "argument" /\ phase \notin {"sent", "back", "refused"}
    BY DEF CoercerInit
<1> QED
    BY <1>1, <1>2, <1>3 DEF CoercerInv

\* Pass 1 lets nothing through that pass 2 writes otherwise, one case for each
\* action.
LEMMA CoercerInvStep == CoercerInv /\ [CoercerNext]_coercerVars => CoercerInv'
<1> SUFFICES ASSUME CoercerInv, [CoercerNext]_coercerVars
             PROVE  CoercerInv'
    OBVIOUS
<1>1. CASE Write
    <2>1. value' \in JSON /\ signature' = signature /\ phase' = "argument"
        BY <1>1 DEF Write
    <2>2. phase' \notin {"sent", "back", "refused"}
        BY <2>1
    <2> QED
        BY <2>1, <2>2 DEF CoercerInv
<1>2. CASE Coerce
    <2>1. CASE Verdict(value, signature) = "fine"
        <3>1. /\ value' = value /\ signature' = signature /\ phase' = "sent"
              /\ sent' = Build[<<"value", value, signature>>] /\ signature # <<>>
            BY Zenon, <1>2, <2>1 DEF Coerce, Send
        <3>2. IsSingleCompleteType(signature) /\ Check[<<"value", value, signature, 0>>] = "fine"
            <4>1. "type" # "fine"
                OBVIOUS
            <4> QED
                BY Zenon, <2>1, <4>1 DEF Verdict
        <3>3. IsMadeFor(sent)'
            BY Zenon, <3>1, <3>2 DEF IsMadeFor
        <3>4. phase' # "back" /\ phase' # "refused" /\ phase' \in {"argument", "refused", "sent", "back"}
            BY <3>1
        <3> QED
            BY Zenon, <3>1, <3>3, <3>4 DEF CoercerInv
    <2>2. CASE Verdict(value, signature) # "fine"
        <3>1. /\ value' = value /\ signature' = signature /\ phase' = "refused"
              /\ problem' = Verdict(value, signature) /\ signature # <<>>
            BY Zenon, <1>2, <2>2 DEF Coerce, Refuse
        <3>2. problem' = "depth" => IsFoundDeep'
            <4>1. "type" # "depth"
                OBVIOUS
            <4> QED
                BY Zenon, <3>1, <4>1 DEF Verdict, IsFoundDeep
        <3>3. phase' \notin {"sent", "back"} /\ phase' # "back" /\ phase' \in {"argument", "refused", "sent", "back"}
            BY <3>1
        <3> QED
            BY Zenon, <3>1, <3>2, <3>3 DEF CoercerInv
    <2> QED
        BY <2>1, <2>2
<1>3. CASE SendNatural
    <2>1. CASE phase' = "sent"
        <3>1. "refused" # "sent"
            OBVIOUS
        <3>2. /\ value' = value /\ signature' = signature /\ signature = <<>>
              /\ sent' = Natural[value]
              /\ ~(NaturalDepth[<<value, 0>>] > MaxMessageDepth) /\ IsComplete(Natural[value])
            BY Zenon, <1>3, <2>1, <3>1 DEF SendNatural, Send, Refuse
        <3>3. IsMadeFor(sent)'
            BY Zenon, <3>2 DEF IsMadeFor
        <3>4. phase' # "back" /\ phase' # "refused" /\ phase' \in {"argument", "refused", "sent", "back"}
            BY <2>1
        <3> QED
            BY Zenon, <3>2, <3>3, <3>4 DEF CoercerInv
    <2>2. CASE phase' # "sent"
        <3>1. "type" # "depth"
            OBVIOUS
        <3>2. /\ value' = value /\ signature' = signature /\ signature = <<>> /\ phase' = "refused"
              /\ problem' = "depth" => NaturalDepth[<<value, 0>>] > MaxMessageDepth
            BY Zenon, <1>3, <2>2, <3>1 DEF SendNatural, Send, Refuse
        <3>3. problem' = "depth" => IsFoundDeep'
            BY Zenon, <3>2 DEF IsFoundDeep
        <3>4. phase' \notin {"sent", "back"} /\ phase' # "back" /\ phase' \in {"argument", "refused", "sent", "back"}
            BY <3>2
        <3> QED
            BY Zenon, <3>2, <3>3, <3>4 DEF CoercerInv
    <2> QED
        BY <2>1, <2>2
<1>4. CASE Echo
    <2>1. /\ phase = "sent" /\ phase' = "back" /\ back' = Demarshall[sent]
          /\ value' = value /\ signature' = signature /\ sent' = sent
        BY <1>4 DEF Echo
    <2>2. phase \in {"sent", "back"} /\ phase' # "refused" /\ phase' \in {"argument", "refused", "sent", "back"}
        BY <2>1
    <2>3. IsMadeFor(sent)
        BY Zenon, <2>2 DEF CoercerInv
    <2>4. IsMadeFor(sent)'
        BY Zenon, <2>1, <2>3 DEF IsMadeFor
    <2> QED
        BY Zenon, <2>1, <2>2, <2>4 DEF CoercerInv
<1>5. CASE UNCHANGED coercerVars
    BY <1>5 DEF CoercerInv, coercerVars, IsMadeFor, IsFoundDeep
<1> QED
    BY <1>1, <1>2, <1>3, <1>4, <1>5 DEF CoercerNext

\* CoercerInv is an invariant for arguments of any nesting, any signatures and
\* any limits.
THEOREM CoercerInvariant == CoercerSpec => []CoercerInv
BY CoercerInvInit, CoercerInvStep, PTL DEF CoercerSpec

-----------------------------------------------------------------------------
(* What the invariant says of what is sent and refused. *)

\* What is sent fits.
LEMMA SentFits ==
    ASSUME CoercerInv, phase \in {"sent", "back"}
    PROVE  /\ sent \in Wire /\ Fits(sent, 0)
           /\ signature # <<>> => sent.type = signature
<1>1. value \in JSON /\ signature \in Seq(Chars) /\ IsMadeFor(sent)
    BY Zenon DEF CoercerInv
<1>2. 0 \in Nat
    OBVIOUS
<1>3. PICK c \in Nat : HasShapes(value, c)
    BY Zenon, <1>1, Shapes
<1>4. CASE signature # <<>>
    <2>1. /\ IsSingleCompleteType(signature) /\ Check[<<"value", value, signature, 0>>] = "fine"
          /\ sent = Build[<<"value", value, signature>>]
        BY Zenon, <1>1, <1>4 DEF IsMadeFor
    <2>2. 0 + TypeDepth(signature) <= MaxMessageDepth
        <3>1. PICK n : n = Len(signature)
            OBVIOUS
        <3>2. n \in Nat
            BY <1>1, <3>1
        <3>3. TypeDepth(signature) \in Nat /\ TypeDepth(signature) <= MaxArrayDepth + MaxStructDepth
            BY Zenon, <1>1, <2>1, <3>1, <3>2, SingleScan
        <3>4. /\ MaxMessageDepth \in Nat /\ MaxArrayDepth + MaxStructDepth <= MaxMessageDepth
              /\ MaxArrayDepth \in Nat /\ MaxStructDepth \in Nat
            BY Zenon, CoercerAssumption, SignaturesAssumption
        <3> QED
            BY <3>3, <3>4
    <2>3. sent \in Wire
        BY Zenon, <1>1, <1>3, <2>1 DEF HasShapes, IsBuiltOf
    <2>4. sent.type = signature /\ Fits(sent, 0)
        BY Zenon, <1>1, <1>2, <2>1, <2>2, FineFits DEF AllFit, FitsAs
    <2> QED
        BY Zenon, <2>3, <2>4
<1>5. CASE signature = <<>>
    <2>1. ~(NaturalDepth[<<value, 0>>] > MaxMessageDepth) /\ IsComplete(Natural[value]) /\ sent = Natural[value]
        BY Zenon, <1>1, <1>5 DEF IsMadeFor
    <2>2. NaturalDepth[<<value, 0>>] \in Nat
        BY Zenon, <1>1, <1>2, NaturalDepthIs DEF IsDeepest
    <2>3. MaxMessageDepth \in Nat
        BY Zenon, CoercerAssumption
    <2>4. NaturalDepth[<<value, 0>>] <= MaxMessageDepth
        BY <2>1, <2>2, <2>3
    <2>5. sent \in Wire
        BY Zenon, <1>3, <2>1 DEF HasShapes, IsPlain
    <2>6. Fits(sent, 0)
        BY Zenon, <1>1, <1>2, <2>1, <2>4, NaturalBounds DEF NaturalFitsAt
    <2> QED
        BY Zenon, <1>5, <2>5, <2>6
<1> QED
    BY <1>4, <1>5

\* What is fine is written as its type says, all the way down.
LEMMA InvWritten == CoercerInv => WrittenAsDeclared
<1> SUFFICES ASSUME CoercerInv, phase = "sent"
             PROVE  IsWellTyped(sent) /\ (signature # <<>> => sent.type = signature)
    BY Zenon DEF WrittenAsDeclared
<1>1. phase \in {"sent", "back"}
    OBVIOUS
<1>2. Fits(sent, 0) /\ (signature # <<>> => sent.type = signature)
    BY Zenon, <1>1, SentFits
<1> QED
    BY Zenon, <1>2 DEF Fits, HoldsItsType, IsWellTyped

\* What is fine is written within the limit.
LEMMA InvNests == CoercerInv => NestsWithinLimit
<1> SUFFICES ASSUME CoercerInv, phase = "sent", NEW p \in Parts[sent]
             PROVE  p[1] <= MaxMessageDepth
    BY Zenon DEF NestsWithinLimit
<1>1. phase \in {"sent", "back"}
    OBVIOUS
<1>2. sent \in Wire /\ Fits(sent, 0)
    BY Zenon, <1>1, SentFits
<1>3. 0 + p[1] <= MaxMessageDepth
    BY Zenon, <1>2 DEF Fits
<1>4. p[1] \in Nat
    BY Zenon, <1>2, PartsHave DEF HasParts
<1> QED
    BY <1>3, <1>4

\* What is refused for its depth would have been written too deep.
LEMMA InvRefused == CoercerInv => RefusedAsDeepRightly
<1> SUFFICES ASSUME CoercerInv, phase = "refused", problem = "depth"
             PROVE  \E p \in Parts[IF signature = <<>> THEN Natural[value]
                                   ELSE Build[<<"value", value, signature>>]] :
                        p[1] + TypeDepth(p[2].type) > MaxMessageDepth
    BY Zenon DEF RefusedAsDeepRightly
<1>1. PICK w : w = IF signature = <<>> THEN Natural[value] ELSE Build[<<"value", value, signature>>]
    OBVIOUS
<1>2. value \in JSON /\ signature \in Seq(Chars) /\ IsFoundDeep
    BY Zenon DEF CoercerInv
<1>3. 0 \in Nat
    OBVIOUS
<1>4. PICK c \in Nat : HasShapes(value, c)
    BY Zenon, <1>2, Shapes
<1>5. w \in Wire
    BY Zenon, <1>1, <1>2, <1>4 DEF HasShapes, IsPlain, IsBuiltOf, IsFoundDeep
<1>6. Deep(w, 0)
    <2>1. CASE signature = <<>>
        BY Zenon, <1>1, <1>2, <1>3, <2>1, NaturalBounds DEF IsFoundDeep, NaturalDeepAt
    <2>2. CASE signature # <<>>
        BY Zenon, <1>1, <1>2, <1>3, <2>2, RefusedIsDeep DEF IsFoundDeep, AllDeep, DeepAs
    <2> QED
        BY <2>1, <2>2
<1>7. PICK p \in Parts[w] : 0 + p[1] + TypeDepth(p[2].type) > MaxMessageDepth
    BY Zenon, <1>6 DEF Deep
<1>8. p[1] \in Nat /\ p[2] \in Wire
    BY Zenon, <1>5, PartsHave DEF HasParts
<1>9. TypeDepth(p[2].type) \in Nat
    BY Zenon, <1>8, WireTyped
<1>10. p[1] + TypeDepth(p[2].type) > MaxMessageDepth
    BY <1>7, <1>8, <1>9
<1> QED
    BY Zenon, <1>1, <1>10

\* Whatever is sent has, at every level, the type it declares: pass 2 of the
\* coercion never writes what pass 1 did not check, and the natural mapping
\* always is of one type.
THEOREM SentIsWrittenAsDeclared == CoercerSpec => []WrittenAsDeclared
BY CoercerInvariant, InvWritten, PTL

\* No value is sent that nests more containers than a D-Bus message may,
\* however its variants declare their types and whatever is in them.
THEOREM SentNestsWithinLimit == CoercerSpec => []NestsWithinLimit
BY CoercerInvariant, InvNests, PTL

\* A value is refused for its depth only if what would be written nests too
\* deep, with what its types declare and it leaves empty.
THEOREM RefusalsAreRight == CoercerSpec => []RefusedAsDeepRightly
BY CoercerInvariant, InvRefused, PTL

\* No keys at all.
LEMMA NoKeys ==
    ASSUME NEW c \in Nat
    PROVE  \E keys : AreKeys(keys, c)
<1>1. PICK r : r = [k \in 1 .. c |-> "numeral"]
    OBVIOUS
<1>2. "numeral" \in Keys
    BY DEF Keys
<1>3. r \in Seq(Keys) /\ Len(r) = c
    BY <1>1, <1>2
<1>4. ~Contains(r, "@dbus")
    BY <1>1 DEF Contains
<1> QED
    BY Zenon, <1>3, <1>4 DEF AreKeys, IsKeys

\* What a list and a map are read as.
LEMMA ListRead ==
    ASSUME NEW n \in Nat, NEW c \in Nat, NEW h, ReadBelow(h, c, n)
    PROVE  Array(ReadAll(h, c)) \in Values[n]
<1>1. PICK keys : AreKeys(keys, c)
    BY Zenon, NoKeys
<1> QED
    BY Zenon, <1>1, ReadMade

\* A value that a variant holds is read as one of no more containers.
LEMMA HeldRead ==
    ASSUME NEW v \in JSON,
           \A k \in DOMAIN v.items : ReadHeld(v.items[k]),
           IsTyped(v) /\ IsSingleCompleteType(NamedType(v)) => ReadAs(Inner(v), NamedType(v))
    PROVE  ReadHeld(v)
<1>1. PICK c \in Nat : HasShapes(v, c)
    BY Zenon, Shapes
<1>2. PICK w : w = Build[<<"variant", v, <<>>>>]
    OBVIOUS
<1>3. c = Len(v.items) /\ DOMAIN v.items = 1 .. c /\ IsHeldOf(w, c, v)
    BY Zenon, <1>1, <1>2 DEF HasShapes
<1>4. "fine" # "depth" /\ "fine" # "type"
    OBVIOUS
<1>5. ASSUME NEW n \in Nat, NEW d \in Nat, n <= MaxWraps, v \in Values[n],
             Check[<<"variant", v, <<>>, d>>] = "fine"
      PROVE  Demarshall[w] \in Values[n]
    <2>1. d <= MaxMessageDepth
        <3>1. ~(d > MaxMessageDepth)
            BY Zenon, <1>4, <1>5, VariantTooDeep
        <3> QED
            BY <3>1, CoercerAssumption
    <2>2. \A k \in 1 .. c : n > 0 /\ n - 1 \in Nat /\ n - 1 <= MaxWraps /\ v.items[k] \in Values[n - 1]
        BY Zenon, <1>3, <1>5, ItemsBelow
    <2>3. CASE IsTyped(v)
        <3>1. PICK t : t = NamedType(v)
            OBVIOUS
        <3>2. IsSingleCompleteType(t) /\ Check[<<"value", Inner(v), t, d>>] = "fine"
            BY Zenon, <1>4, <1>5, <2>1, <2>3, <3>1, TypedChecked
        <3>3. w = Build[<<"value", Inner(v), t>>]
            BY Zenon, <1>3, <2>3, <3>1 DEF IsHeldOf
        <3>4. n > 0 /\ n - 1 \in Nat /\ n - 1 <= MaxWraps /\ Inner(v) \in Values[n - 1]
            BY Zenon, <1>3, <2>2, <2>3, InnerIsItem
        <3>5. Demarshall[w] \in Values[n - 1]
            BY Zenon, <2>3, <3>1, <3>2, <3>3, <3>4 DEF ReadAs
        <3>6. n - 1 <= n
            OBVIOUS
        <3> QED
            BY Zenon, <3>4, <3>5, <3>6, LevelUp, ValuesLevelled
    <2>4. CASE ~IsTyped(v)
        <3>1. PICK g : g = [k \in DOMAIN v.items |-> Build[<<"variant", v.items[k], <<>>>>]]
            OBVIOUS
        <3>2. IsPlain(w, c, v, g)
            BY Zenon, <1>3, <2>4, <3>1 DEF IsHeldOf
        <3>3. v.kind # "null" /\ \A k \in 1 .. c : Check[<<"variant", v.items[k], <<>>, Deeper(v, d)>>] = "fine"
            <4>1. VariantVerdict(Check[<<"variant", v, <<>>, d>>], v, c, Deeper(v, d))
                BY Zenon, <1>3, <2>1, <2>4, VariantChecked
            <4> QED
                BY Zenon, <1>5, <4>1 DEF VariantVerdict
        <3>4. Deeper(v, d) \in Nat
            BY DEF Deeper
        <3>5. \A k \in 1 .. c : Demarshall[g[k]] \in Values[n - 1]
            BY Zenon, <1>3, <2>2, <3>1, <3>3, <3>4 DEF ReadHeld
        <3>6. c = 0 \/ n > 0
            <4>1. c # 0 => 1 \in 1 .. c
                OBVIOUS
            <4> QED
                BY Zenon, <2>2, <4>1
        <3>7. ReadBelow(g, c, n)
            BY Zenon, <3>5, <3>6 DEF ReadBelow
        <3>8. IsReadOf(Demarshall[w], c, v, g)
            BY Zenon, <3>2, PlainRead
        <3>9. CASE v.kind = "array"
            <4>1. Demarshall[w] = Array(ReadAll(g, c))
                BY Zenon, <3>9, <3>8 DEF IsReadOf
            <4> QED
                BY Zenon, <3>7, <4>1, ListRead
        <3>10. CASE v.kind = "object"
            <4>1. AreKeys(v.keys, c) /\ KeysUpTo(v.keys, c) = v.keys
                BY Zenon, <1>3, <1>5, <3>10, ValueFacts, KeysRead DEF AreKeys
            <4>2. Demarshall[w] = Object(KeysUpTo(v.keys, c), ReadAll(g, c))
                BY Zenon, <3>10, <3>8 DEF IsReadOf
            <4>3. Object(v.keys, ReadAll(g, c)) \in Values[n]
                BY Zenon, <3>7, <4>1, ReadMade
            <4> QED
                BY Zenon, <4>1, <4>2, <4>3
        <3>11. CASE v.kind \in {"text", "numeral", "integer"}
            <4>1. Demarshall[w] = Leaf(v.kind, <<>>)
                BY Zenon, <3>11, <3>8 DEF IsReadOf
            <4>2. v.kind \in {"text", "numeral", "integer", "null"}
                BY <3>11
            <4> QED
                BY Zenon, <4>1, <4>2, LeafMade
        <3>12. v.kind \in Kinds
            BY Zenon, <1>5, ValueFacts
        <3> QED
            BY <3>3, <3>9, <3>10, <3>11, <3>12 DEF Kinds
    <2> QED
        BY Zenon, <2>3, <2>4
<1> QED
    BY Zenon, <1>2, <1>5 DEF ReadHeld

-----------------------------------------------------------------------------
(* What is read may be sent again. *)

\* Nothing in b is of a type that a variant cannot hold, and b is read again as it is.
AgainHeld(b) ==
    /\ \A e \in Nat : Check[<<"variant", b, <<>>, e>>] # "type"
    /\ Demarshall[Build[<<"variant", b, <<>>>>]] = b

\* b is made of its items, and of nothing that is not looked at.
IsBare(b, c) ==
    \/ b.kind = "array" /\ b = Array([k \in 1 .. c |-> b.items[k]])
    \/ b.kind = "object" /\ b = Object(b.keys, [k \in 1 .. c |-> b.items[k]])
    \/ b.kind \in {"text", "numeral", "integer"} /\ b = Leaf(b.kind, <<>>)

\* A value without a type is so when its items are.
LEMMA PlainAgain ==
    ASSUME NEW b \in JSON, NEW c \in Nat, c = Len(b.items), IsBare(b, c), ~IsTyped(b),
           \A k \in DOMAIN b.items : AgainHeld(b.items[k])
    PROVE  AgainHeld(b)
<1>1. HasShapes(b, c)
    BY Zenon, Shapes DEF HasShapes
<1>2. PICK w : w = Build[<<"variant", b, <<>>>>]
    OBVIOUS
<1>3. PICK g : g = [k \in DOMAIN b.items |-> Build[<<"variant", b.items[k], <<>>>>]]
    OBVIOUS
<1>4. DOMAIN b.items = 1 .. c /\ IsPlain(w, c, b, g)
    BY Zenon, <1>1, <1>2, <1>3 DEF HasShapes, IsHeldOf
<1>5. Demarshall[w] = b
    <2>1. IsReadOf(Demarshall[w], c, b, g)
        BY Zenon, <1>4, PlainRead
    <2>2. ReadAll(g, c) = [k \in 1 .. c |-> b.items[k]]
        <3>1. \A k \in 1 .. c : Demarshall[g[k]] = b.items[k]
            BY Zenon, <1>3, <1>4 DEF AgainHeld
        <3> QED
            BY <3>1 DEF ReadAll
    <2>3. CASE b.kind = "array" /\ b = Array([k \in 1 .. c |-> b.items[k]])
        BY Zenon, <2>1, <2>2, <2>3 DEF IsReadOf
    <2>4. CASE b.kind = "object" /\ b = Object(b.keys, [k \in 1 .. c |-> b.items[k]])
        <3>1. KeysUpTo(b.keys, c) = b.keys
            BY Zenon, <2>4, KeysRead, JsonLevels
        <3> QED
            BY Zenon, <2>1, <2>2, <2>4, <3>1 DEF IsReadOf
    <2>5. CASE b.kind \in {"text", "numeral", "integer"} /\ b = Leaf(b.kind, <<>>)
        BY Zenon, <2>1, <2>5 DEF IsReadOf
    <2> QED
        BY Zenon, <2>3, <2>4, <2>5 DEF IsBare
<1>6. ASSUME NEW e \in Nat
      PROVE  Check[<<"variant", b, <<>>, e>>] # "type"
    <2>1. CASE e > MaxMessageDepth
        <3>1. "depth" # "type"
            OBVIOUS
        <3> QED
            BY Zenon, <2>1, <3>1, VariantTooDeep
    <2>2. CASE ~(e > MaxMessageDepth)
        <3>1. e <= MaxMessageDepth
            BY <2>2, CoercerAssumption
        <3>2. VariantVerdict(Check[<<"variant", b, <<>>, e>>], b, c, Deeper(b, e))
            BY Zenon, <1>4, <3>1, VariantChecked
        <3>3. Deeper(b, e) \in Nat
            BY DEF Deeper
        <3>4. \A k \in 1 .. c : Check[<<"variant", b.items[k], <<>>, Deeper(b, e)>>] # "type"
            BY Zenon, <1>4, <3>3 DEF AgainHeld
        <3>5. b.kind # "null"
            BY DEF IsBare
        <3> QED
            BY Zenon, <3>2, <3>4, <3>5 DEF VariantVerdict
    <2> QED
        BY Zenon, <2>1, <2>2
<1> QED
    BY Zenon, <1>2, <1>5, <1>6 DEF AgainHeld

\* What is read of w, when no key of w reserves its object, may be sent again.
EchoesFree(w) == IsFree(w) /\ Demarshall[w] \in JSON => AgainHeld(Demarshall[w])

\* An array or a struct without a reserved key is read as an array that can be
\* put in a variant again.
LEMMA FreeList ==
    ASSUME NEW w \in Wire, IsFree(w), Demarshall[w] \in JSON, w.type # <<"v">>, ~IsDict(w.type),
           w.content = "none", \A k \in DOMAIN w.items : EchoesFree(w.items[k])
    PROVE  AgainHeld(Demarshall[w])
<1>1. PICK b : b = Demarshall[w]
    OBVIOUS
<1>2. PICK f : f = [k \in DOMAIN w.items |-> Demarshall[w.items[k]]]
    OBVIOUS
<1>3. b = Array(f)
    BY Zenon, <1>1, <1>2, ReadIs DEF DemarshallOf, DemarshallItems
<1>4. w.items \in Seq(Wire)
    BY Zenon, WireFacts
<1>5. PICK c \in Nat : c = Len(w.items)
    BY <1>4
<1>6. DOMAIN w.items = 1 .. c
    BY <1>4, <1>5
<1>7. /\ b.kind = "array" /\ b.items = f /\ b.keys = <<>>
      /\ f = [k \in 1 .. c |-> f[k]] /\ DOMAIN f = 1 .. c /\ Len(f) = c
    BY <1>2, <1>3, <1>6 DEF Array
<1>8. IsBare(b, c) /\ ~IsTyped(b)
    <2>1. "array" # "object"
        OBVIOUS
    <2> QED
        BY Zenon, <1>3, <1>7, <2>1 DEF IsBare, IsTyped
<1>9. b \in JSON
    BY Zenon, <1>1
<1>10. \A k \in DOMAIN b.items : AgainHeld(b.items[k])
    <2>1. \A k \in 1 .. c : f[k] \in JSON
        BY Zenon, <1>7, <1>9, JsonFacts
    <2>2. \A k \in 1 .. c : f[k] = Demarshall[w.items[k]] /\ IsFree(w.items[k])
        BY Zenon, <1>2, <1>6, PartsInside
    <2> QED
        BY Zenon, <1>6, <1>7, <2>1, <2>2 DEF EchoesFree
<1> QED
    BY Zenon, <1>1, <1>7, <1>8, <1>9, <1>10, PlainAgain

\* The values of a map are two containers deep.
LEMMA FreeMap ==
    ASSUME NEW w \in Wire, IsFree(w), Demarshall[w] \in JSON, w.type # <<"v">>, IsDict(w.type),
           \A k \in DOMAIN w.items : \A i \in DOMAIN w.items[k].items : EchoesFree(w.items[k].items[i])
    PROVE  AgainHeld(Demarshall[w])
<1>1. PICK b : b = Demarshall[w]
    OBVIOUS
<1>2. PICK f : f = [k \in DOMAIN w.items |-> Demarshall[w.items[k].items[2]]]
    OBVIOUS
<1>3. PICK keys : keys = KeysOf(w)
    OBVIOUS
<1>4. b = Object(keys, f)
    BY Zenon, <1>1, <1>2, <1>3, ReadIs DEF DemarshallOf, DemarshallMap
<1>5. w.items \in Seq(Wire)
    BY Zenon, WireFacts
<1>6. PICK c \in Nat : c = Len(w.items)
    BY <1>5
<1>7. DOMAIN w.items = 1 .. c
    BY <1>5, <1>6
<1>8. /\ b.kind = "object" /\ b.items = f /\ b.keys = keys
      /\ f = [k \in 1 .. c |-> f[k]] /\ DOMAIN f = 1 .. c /\ Len(f) = c
    BY <1>2, <1>4, <1>7 DEF Object
<1>9. \A k \in 1 .. c : /\ w.items[k] \in Wire /\ IsFree(w.items[k])
                        /\ 1 \in DOMAIN w.items[k].items /\ 2 \in DOMAIN w.items[k].items
    <2>1. IsMessage(w)
        <3>1. PICK n \in Nat : n = 3 * MaxWraps + 1
            BY Zenon, DemarshallIs
        <3>2. w \in Messages[n]
            BY Zenon, <3>1 DEF Wire
        <3> QED
            BY Zenon, <3>2, MessageFacts
    <2>2. \A k \in 1 .. c : w.items[k] \in Wire /\ IsFree(w.items[k])
        BY Zenon, <1>7, PartsInside, WireFacts
    <2>3. \A k \in 1 .. c : Len(w.items[k].items) = 2
        BY Zenon, <1>7, <2>1 DEF IsMessage
    <2>4. \A k \in 1 .. c : w.items[k].items \in Seq(Wire)
        BY Zenon, <2>2, WireFacts
    <2>5. \A s \in Seq(Wire) : Len(s) = 2 => 1 \in DOMAIN s /\ 2 \in DOMAIN s
        OBVIOUS
    <2> QED
        BY Zenon, <2>2, <2>3, <2>4, <2>5
<1>10. ~IsTyped(b)
    <2>1. \A k \in 1 .. c : keys[k] # "@dbus"
        <3>1. \A k \in 1 .. c : keys[k] = w.items[k].items[1].content
            BY Zenon, <1>3, <1>7 DEF KeysOf
        <3>2. \A k \in 1 .. c : w.items[k].items[1] \in Wire /\ IsFree(w.items[k].items[1])
            BY Zenon, <1>9, PartsInside, WireFacts
        <3>3. \A k \in 1 .. c : w.items[k].items[1].content # "@dbus"
            BY Zenon, <3>2, PartsInside
        <3> QED
            BY Zenon, <3>1, <3>3
    <2>2. DOMAIN keys = 1 .. c
        BY Zenon, <1>3, <1>7 DEF KeysOf
    <2>3. ~Contains(keys, "@dbus")
        BY <2>1, <2>2 DEF Contains
    <2> QED
        BY Zenon, <1>8, <2>3 DEF IsTyped
<1>11. b \in JSON
    BY Zenon, <1>1
<1>12. \A k \in DOMAIN b.items : AgainHeld(b.items[k])
    <2>1. \A k \in 1 .. c : f[k] \in JSON
        BY Zenon, <1>8, <1>11, JsonFacts
    <2>2. \A k \in 1 .. c : f[k] = Demarshall[w.items[k].items[2]] /\ IsFree(w.items[k].items[2])
        BY Zenon, <1>2, <1>7, <1>9, PartsInside
    <2>3. \A k \in 1 .. c : EchoesFree(w.items[k].items[2])
        BY Zenon, <1>7, <1>9
    <2> QED
        BY Zenon, <1>8, <2>1, <2>2, <2>3 DEF EchoesFree
<1>13. IsBare(b, c)
    BY Zenon, <1>4, <1>8 DEF IsBare
<1> QED
    BY Zenon, <1>1, <1>8, <1>10, <1>11, <1>12, <1>13, PlainAgain

\* A basic value.
LEMMA FreeLeaf ==
    ASSUME NEW w \in Wire, IsFree(w), Demarshall[w] \in JSON, w.type # <<"v">>, ~IsDict(w.type),
           w.content # "none"
    PROVE  AgainHeld(Demarshall[w])
<1>1. PICK b : b = Demarshall[w]
    OBVIOUS
<1>2. w.content # "@dbus" /\ w.content \in ContentKinds
    BY Zenon, PartsInside, WireTyped
<1>3. w.content \in {"text", "numeral", "integer"}
    BY <1>2 DEF ContentKinds
<1>4. b = Leaf(w.content, <<>>)
    BY Zenon, <1>1, <1>2, ReadIs DEF DemarshallOf
<1>5. b.kind = w.content /\ b.items = <<>> /\ Len(b.items) = 0 /\ DOMAIN b.items = {} /\ 0 \in Nat
    BY <1>4 DEF Leaf
<1>6. IsBare(b, 0)
    BY Zenon, <1>3, <1>4, <1>5 DEF IsBare
<1>7. ~IsTyped(b)
    BY <1>3, <1>5 DEF IsTyped
<1>8. \A k \in DOMAIN b.items : AgainHeld(b.items[k])
    BY Zenon, <1>5
<1> QED
    BY Zenon, <1>1, <1>5, <1>6, <1>7, <1>8, PlainAgain

\* A variant.
LEMMA FreeVariant ==
    ASSUME NEW w \in Wire, IsFree(w), Demarshall[w] \in JSON, w.type = <<"v">>,
           \A k \in DOMAIN w.items : EchoesFree(w.items[k])
    PROVE  AgainHeld(Demarshall[w])
<1>1. Demarshall[w] = Demarshall[w.items[1]]
    BY Zenon, ReadIs DEF DemarshallOf
<1>2. 1 \in DOMAIN w.items
    <2>1. PICK n \in Nat : n = 3 * MaxWraps + 1
        BY Zenon, DemarshallIs
    <2>2. w \in Messages[n]
        BY Zenon, <2>1 DEF Wire
    <2> QED
        BY Zenon, <2>2, InsideMessage
<1>3. IsFree(w.items[1])
    BY Zenon, <1>2, PartsInside
<1> QED
    BY Zenon, <1>1, <1>2, <1>3 DEF EchoesFree

\* So may any value be that reserves no object.
LEMMA FreeAgain ==
    ASSUME NEW w \in Wire
    PROVE  EchoesFree(w)
<1>1. PICK Q : Q = {u \in Wire : EchoesFree(u) /\ \A k \in DOMAIN u.items : EchoesFree(u.items[k])}
    OBVIOUS
<1>2. Q \in SUBSET Wire
    BY <1>1
<1>3. ASSUME NEW u \in Wire, \A k \in DOMAIN u.items : u.items[k] \in Q
      PROVE  u \in Q
    <2>1. \A k \in DOMAIN u.items : /\ EchoesFree(u.items[k])
                                    /\ \A i \in DOMAIN u.items[k].items : EchoesFree(u.items[k].items[i])
        BY Zenon, <1>1, <1>3
    <2>2. ASSUME IsFree(u), Demarshall[u] \in JSON
          PROVE  AgainHeld(Demarshall[u])
        BY Zenon, <2>1, <2>2, FreeLeaf, FreeVariant, FreeList, FreeMap
    <2> QED
        BY Zenon, <1>1, <2>1, <2>2 DEF EchoesFree
<1>4. Q = Wire
    BY Zenon, <1>2, <1>3, WireInduction
<1> QED
    BY Zenon, <1>1, <1>4

-----------------------------------------------------------------------------
(* What is built of a fine value is read as one that may take its place. *)

\* b may be sent where the type t is asked for, and is read again as it is.
AgainAs(b, t) ==
    /\ \A e \in Nat : Check[<<"value", b, t, e>>] # "type"
    /\ Demarshall[Build[<<"value", b, t>>]] = b

\* What is read of w is below level n and, when w reserves no object, may be sent again.
Returns(w, t, n) ==
    /\ Demarshall[w] \in Values[n]
    /\ IsFree(w) => AgainAs(Demarshall[w], t)

BackAs(v, t) ==
    \A n \in Nat, d \in Nat :
        n <= MaxWraps /\ v \in Values[n] /\ Check[<<"value", v, t, d>>] = "fine" =>
            Returns(Build[<<"value", v, t>>], t, n)

\* No misfit, no refusal for the type.
LEMMA NoMisfit ==
    ASSUME NEW b \in JSON, NEW c \in Nat, c = Len(b.items), DOMAIN b.items = 1 .. c,
           NEW t \in Seq(Chars), IsSingleCompleteType(t), \A e \in Nat : ~MisfitAt(b, c, t, e)
    PROVE  \A e \in Nat : Check[<<"value", b, t, e>>] # "type"
<1> TAKE e \in Nat
<1>1. CASE e > MaxMessageDepth
    <2>1. "depth" # "type"
        OBVIOUS
    <2> QED
        BY Zenon, <1>1, <2>1, CheckCases DEF IsChecked
<1>2. CASE ~(e > MaxMessageDepth)
    <2>1. e <= MaxMessageDepth
        BY <1>2, CoercerAssumption
    <2> QED
        BY Zenon, <2>1, VerdictFacts DEF IsExplained
<1> QED
    BY Zenon, <1>1, <1>2

\* The types of the items of an array or of a struct, of c items.
ItemTypes(t, c, types) ==
    \/ IsList(t) /\ Tail(t) \in ElementTypes /\ types = [k \in 1 .. c |-> Tail(t)]
    \/ IsStruct(t) /\ c = Len(StructFields(t)) /\ types = StructFields(t)

\* A list of values that return does.
LEMMA ListReturns ==
    ASSUME NEW n \in Nat, n <= MaxWraps, NEW c \in Nat, NEW t \in Seq(Chars), IsSingleCompleteType(t),
           NEW types, ItemTypes(t, c, types), NEW w, NEW h, IsListOf(w, c, t, h),
           c = 0 \/ n > 0, \A k \in 1 .. c : Returns(h[k], types[k], n - 1)
    PROVE  Returns(w, t, n)
<1>1. PICK b : b = Demarshall[w]
    OBVIOUS
<1>2. OfKind(t) /\ t # <<"v">> /\ ~IsDict(t)
    BY Zenon, KindOfType DEF ItemTypes, OfKind
<1>3. b = Array(ReadAll(h, c))
    BY Zenon, <1>1, <1>2, ReadList
<1>4. ReadBelow(h, c, n)
    BY Zenon DEF ReadBelow, Returns
<1>5. b \in Values[n] /\ b \in JSON
    BY Zenon, <1>3, <1>4, ListRead, JsonLevels
<1>6. /\ b.kind = "array" /\ Len(b.items) = c /\ DOMAIN b.items = 1 .. c
      /\ \A k \in 1 .. c : b.items[k] = Demarshall[h[k]]
    BY <1>3 DEF Array, ReadAll
<1>7. ASSUME IsFree(w)
      PROVE  AgainAs(b, t)
    <2>1. \A k \in 1 .. c : AgainAs(b.items[k], types[k])
        <3>1. \A k \in 1 .. c : IsFree(h[k])
            BY Zenon, <1>7, InsideList
        <3> QED
            BY Zenon, <1>6, <3>1 DEF Returns
    <2>2. \A e \in Nat : ~MisfitAt(b, c, t, e)
        <3>1. CASE IsStruct(t)
            <4>1. types = StructFields(t) /\ c = Len(StructFields(t)) /\ ~IsList(t)
                BY Zenon, <1>2, <3>1 DEF OfKind, ItemTypes
            <4>2. \A k \in 1 .. c, e \in Nat :
                    Check[<<"value", b.items[k], StructFields(t)[k], e + 1>>] # "type"
                <5>1. \A e \in Nat : e + 1 \in Nat
                    OBVIOUS
                <5> QED
                    BY Zenon, <2>1, <4>1, <5>1 DEF AgainAs
            <4> QED
                BY Zenon, <1>2, <1>6, <3>1, <4>1, <4>2 DEF MisfitAt, OfKind
        <3>2. CASE ~IsStruct(t)
            <4>1. \A k \in 1 .. c : types[k] = Tail(t)
                BY Zenon, <3>2 DEF ItemTypes
            <4> QED
                BY Zenon, <1>2, <1>6, <2>1, <3>2, <4>1 DEF MisfitAt, OfKind, AgainAs, ItemTypes
        <3> QED
            BY <3>1, <3>2
    <2>3. \A e \in Nat : Check[<<"value", b, t, e>>] # "type"
        BY Zenon, <1>5, <1>6, <2>2, NoMisfit
    <2>4. PICK u : u = Build[<<"value", b, t>>]
        OBVIOUS
    <2>5. PICK g : g = [k \in 1 .. c |-> Build[<<"value", b.items[k], types[k]>>]]
        OBVIOUS
    <2>6. IsListOf(u, c, t, g)
        <3>1. HasShapes(b, c)
            BY Zenon, <1>5, <1>6, Shapes DEF HasShapes
        <3>2. IsBuiltOf(u, c, b, t)
            BY Zenon, <2>4, <3>1 DEF HasShapes
        <3>3. CASE IsStruct(t)
            BY Zenon, <1>6, <2>5, <3>2, <3>3 DEF IsBuiltOf, ItemTypes
        <3>4. CASE ~IsStruct(t)
            <4>1. g = [k \in 1 .. c |-> Build[<<"value", b.items[k], Tail(t)>>]]
                BY <2>5, <3>4 DEF ItemTypes
            <4> QED
                BY Zenon, <1>6, <3>2, <3>4, <4>1 DEF IsBuiltOf, ItemTypes
        <3> QED
            BY <3>3, <3>4
    <2>7. Demarshall[u] = Array(ReadAll(g, c))
        BY Zenon, <1>2, <2>6, ReadList
    <2>8. ReadAll(g, c) = ReadAll(h, c)
        <3>1. \A k \in 1 .. c : Demarshall[g[k]] = Demarshall[h[k]]
            BY Zenon, <1>6, <2>1, <2>5 DEF AgainAs
        <3> QED
            BY <3>1 DEF ReadAll
    <2> QED
        BY Zenon, <1>3, <2>3, <2>4, <2>7, <2>8 DEF AgainAs
<1> QED
    BY Zenon, <1>1, <1>5, <1>7 DEF Returns

\* So does a map.
LEMMA MapReturns ==
    ASSUME NEW n \in Nat, n <= MaxWraps, NEW c \in Nat, NEW t \in Seq(Chars), IsSingleCompleteType(t),
           IsDict(t), DictKey(t) # "h", DictValue(t) \in ElementTypes,
           NEW v \in Values[n], v.kind = "object", c = Len(v.items),
           \A k \in 1 .. c : CoerceBasic(KeyValue(v.keys[k]), DictKey(t)),
           NEW w, NEW h, IsMapOf(w, c, v, t, h),
           c = 0 \/ n > 0, \A k \in 1 .. c : Returns(h[k], DictValue(t), n - 1)
    PROVE  Returns(w, t, n)
<1>1. PICK b : b = Demarshall[w]
    OBVIOUS
<1>2. OfKind(t) /\ t # <<"v">> /\ ~IsList(t) /\ ~IsStruct(t) /\ ~IsBasic(t)
    BY Zenon, KindOfType DEF OfKind
<1>3. PICK keys : keys = ReadKeys(v, t, c)
    OBVIOUS
<1>4. b = Object(keys, ReadAll(h, c))
    <2>1. IsReadMap(w, c, v, t, h)
        BY Zenon, <1>2, ReadMap
    <2> QED
        BY Zenon, <1>1, <1>3, <2>1 DEF IsReadMap
<1>5. ReadBelow(h, c, n)
    BY Zenon DEF ReadBelow, Returns
<1>6. AreKeys(keys, c)
    BY Zenon, <1>3, KeysRead
<1>7. b \in Values[n] /\ b \in JSON
    BY Zenon, <1>4, <1>5, <1>6, ReadMade, JsonLevels
<1>8. /\ b.kind = "object" /\ b.keys = keys /\ Len(b.items) = c /\ DOMAIN b.items = 1 .. c
      /\ \A k \in 1 .. c : b.items[k] = Demarshall[h[k]]
    BY <1>4 DEF Object, ReadAll
<1>9. \A k \in 1 .. c : CoerceBasic(KeyValue(b.keys[k]), DictKey(t))
    <2>1. CASE DictKey(t) = "i"
        <3>1. \A k \in 1 .. c : keys[k] = "numeral"
            BY Zenon, <1>3, <2>1 DEF ReadKeys
        <3>2. CoerceBasic(KeyValue("numeral"), "i")
            BY DEF CoerceBasic, KeyValue, Leaf
        <3> QED
            BY Zenon, <1>8, <2>1, <3>1, <3>2
    <2>2. CASE DictKey(t) # "i"
        BY Zenon, <1>3, <1>8, <2>2 DEF ReadKeys
    <2> QED
        BY <2>1, <2>2
<1>10. ASSUME IsFree(w)
      PROVE  AgainAs(b, t)
    <2>1. \A k \in 1 .. c : AgainAs(b.items[k], DictValue(t))
        <3>1. \A k \in 1 .. c : IsFree(h[k])
            BY Zenon, <1>10, InsideMap
        <3> QED
            BY Zenon, <1>8, <3>1 DEF Returns
    <2>2. \A e \in Nat : ~MisfitAt(b, c, t, e)
        <3>1. \A e \in Nat : e + 2 \in Nat
            OBVIOUS
        <3> QED
            BY Zenon, <1>2, <1>8, <1>9, <2>1, <3>1 DEF MisfitAt, AgainAs
    <2>3. \A e \in Nat : Check[<<"value", b, t, e>>] # "type"
        BY Zenon, <1>7, <1>8, <2>2, NoMisfit
    <2>4. PICK u : u = Build[<<"value", b, t>>]
        OBVIOUS
    <2>5. PICK g : g = [k \in 1 .. c |-> Build[<<"value", b.items[k], DictValue(t)>>]]
        OBVIOUS
    <2>6. IsMapOf(u, c, b, t, g)
        <3>1. HasShapes(b, c)
            BY Zenon, <1>7, <1>8, Shapes DEF HasShapes
        <3>2. IsBuiltOf(u, c, b, t)
            BY Zenon, <2>4, <3>1 DEF HasShapes
        <3> QED
            BY Zenon, <1>8, <2>5, <3>2 DEF IsBuiltOf
    <2>7. Demarshall[u] = Object(ReadKeys(b, t, c), ReadAll(g, c))
        <3>1. IsReadMap(u, c, b, t, g)
            BY Zenon, <1>2, <2>6, ReadMap
        <3> QED
            BY Zenon, <3>1 DEF IsReadMap
    <2>8. ReadAll(g, c) = ReadAll(h, c)
        <3>1. \A k \in 1 .. c : Demarshall[g[k]] = Demarshall[h[k]]
            BY Zenon, <1>8, <2>1, <2>5 DEF AgainAs
        <3> QED
            BY <3>1 DEF ReadAll
    <2>9. ReadKeys(b, t, c) = keys
        <3>1. CASE DictKey(t) = "i"
            BY Zenon, <1>3, <3>1 DEF ReadKeys
        <3>2. CASE DictKey(t) # "i"
            <4>1. ReadKeys(b, t, c) = KeysUpTo(b.keys, c)
                BY Zenon, <3>2 DEF ReadKeys, KeysUpTo
            <4> QED
                BY Zenon, <1>7, <1>8, <4>1, KeysRead
        <3> QED
            BY <3>1, <3>2
    <2> QED
        BY Zenon, <1>4, <2>3, <2>4, <2>7, <2>8, <2>9 DEF AgainAs
<1> QED
    BY Zenon, <1>1, <1>7, <1>10 DEF Returns

\* A basic value is read as one that is coerced alike.
LEMMA BasicReturns ==
    ASSUME NEW n \in Nat, n <= MaxWraps, NEW t \in Seq(Chars), IsSingleCompleteType(t), IsBasic(t),
           NEW v, CoerceBasic(v, t[1]), BasicValue(v, t[1]) \in Wire
    PROVE  Returns(BasicValue(v, t[1]), t, n)
<1>1. PICK w : w = BasicValue(v, t[1])
    OBVIOUS
<1>2. PICK ch : ch = t[1]
    OBVIOUS
<1>3. /\ w.type = <<ch>> /\ w.content \in {"text", "numeral", "integer"} /\ ch \in {"s", "i"}
      /\ w = Scalar(<<ch>>, w.content)
      /\ ch = "i" => w.content = "integer"
      /\ ch = "s" => w.content \in {"text", "numeral"}
    <2>1. CoerceBasic(v, ch) /\ w = Scalar(<<ch>>, IF ch = "i" THEN "integer" ELSE v.kind)
        BY Zenon, <1>1, <1>2 DEF BasicValue
    <2>2. w.type = <<ch>> /\ w.content = IF ch = "i" THEN "integer" ELSE v.kind
        BY <2>1 DEF Scalar
    <2>3. ch \in {"s", "i"} /\ (ch = "s" => v.kind \in {"text", "numeral"})
        BY <2>1 DEF CoerceBasic
    <2> QED
        BY <2>1, <2>2, <2>3
<1>4. <<ch>> \in {<<"s">>, <<"i">>}
    BY <1>3
<1>5. PICK b : b = Demarshall[w]
    OBVIOUS
<1>6. b = Leaf(w.content, <<>>)
    BY Zenon, <1>1, <1>2, <1>3, <1>4, <1>5, ReadLeaf
<1>7. w.content \in {"text", "numeral", "integer", "null"}
    BY <1>3
<1>8. b \in Values[n] /\ b \in JSON
    BY Zenon, <1>6, <1>7, LeafMade, JsonLevels
<1>9. b.kind = w.content /\ b.items = <<>> /\ Len(b.items) = 0 /\ DOMAIN b.items = 1 .. 0 /\ 0 \in Nat
    BY <1>6 DEF Leaf
<1>10. CoerceBasic(b, ch)
    BY <1>3, <1>9 DEF CoerceBasic
<1>11. OfKind(t)
    BY Zenon, KindOfType
<1>12. \A e \in Nat : ~MisfitAt(b, 0, t, e)
    BY Zenon, <1>2, <1>10, <1>11 DEF MisfitAt, OfKind
<1>13. \A e \in Nat : Check[<<"value", b, t, e>>] # "type"
    BY Zenon, <1>8, <1>9, <1>12, NoMisfit
<1>14. BasicValue(b, ch) = w
    <2>1. BasicValue(b, ch) = Scalar(<<ch>>, IF ch = "i" THEN "integer" ELSE b.kind)
        BY Zenon, <1>10 DEF BasicValue
    <2>2. (IF ch = "i" THEN "integer" ELSE b.kind) = w.content
        BY <1>3, <1>9
    <2> QED
        BY Zenon, <1>3, <2>1, <2>2
<1>15. Build[<<"value", b, t>>] = w
    <2>1. HasShapes(b, 0)
        BY Zenon, <1>8, <1>9, Shapes DEF HasShapes
    <2> QED
        BY Zenon, <1>2, <1>14, <2>1 DEF HasShapes, IsBuiltOf
<1>16. AgainAs(b, t)
    BY Zenon, <1>5, <1>13, <1>15 DEF AgainAs
<1> QED
    BY Zenon, <1>1, <1>2, <1>5, <1>8, <1>16 DEF Returns

\* A variant is read as what it holds.
LEMMA VariantReturns ==
    ASSUME NEW n \in Nat, n <= MaxWraps, NEW w, NEW x, IsListOf(w, 1, <<"v">>, <<x>>),
           Demarshall[x] \in Values[n]
    PROVE  Returns(w, <<"v">>, n)
<1>1. PICK b : b = Demarshall[x]
    OBVIOUS
<1>2. Demarshall[w] = b
    BY Zenon, <1>1, ReadVariant
<1>3. b \in JSON
    BY Zenon, <1>1, JsonLevels
<1>4. PICK t : t = <<"v">>
    OBVIOUS
<1>5. t \in Seq(Chars) /\ IsSingleCompleteType(t)
    BY Zenon, <1>4, PlainTypes, CharsAre
<1>6. OfKind(t)
    BY Zenon, <1>5, KindOfType
<1>7. PICK c \in Nat : HasShapes(b, c)
    BY Zenon, <1>3, Shapes
<1>8. ASSUME IsFree(w)
      PROVE  AgainAs(b, t)
    <2>1. x \in Wire /\ IsFree(x)
        <3>1. PICK h : h = <<x>>
            OBVIOUS
        <3>2. 1 \in 1 .. 1 /\ 1 \in Nat /\ h[1] = x
            BY <3>1
        <3>3. IsListOf(w, 1, <<"v">>, h)
            BY Zenon, <3>1
        <3> QED
            BY Zenon, <1>8, <3>2, <3>3, InsideList
    <2>2. AgainHeld(b)
        BY Zenon, <1>1, <1>3, <2>1, FreeAgain DEF EchoesFree
    <2>3. \A e \in Nat : e + 1 \in Nat
        OBVIOUS
    <2>4. \A e \in Nat : ~MisfitAt(b, c, t, e)
        BY Zenon, <1>4, <1>6, <2>2, <2>3 DEF MisfitAt, OfKind, AgainHeld
    <2>5. \A e \in Nat : Check[<<"value", b, t, e>>] # "type"
        BY Zenon, <1>3, <1>5, <1>7, <2>4, NoMisfit DEF HasShapes
    <2>6. PICK u : u = Build[<<"value", b, t>>]
        OBVIOUS
    <2>7. PICK y : y = Build[<<"variant", b, <<>>>>]
        OBVIOUS
    <2>8. IsListOf(u, 1, <<"v">>, <<y>>)
        BY Zenon, <1>4, <1>5, <1>7, <2>6, <2>7 DEF HasShapes, IsBuiltOf
    <2>9. Demarshall[u] = b
        BY Zenon, <2>2, <2>7, <2>8, ReadVariant DEF AgainHeld
    <2> QED
        BY Zenon, <2>5, <2>6, <2>9 DEF AgainAs
<1> QED
    BY Zenon, <1>1, <1>2, <1>4, <1>8 DEF Returns

\* What is built of a value returns when what is built of its items does.
LEMMA ValueReturns ==
    ASSUME NEW v \in JSON, NEW t \in Seq(Chars), IsSingleCompleteType(t),
           \A k \in DOMAIN v.items : \A u \in Seq(Chars) : IsSingleCompleteType(u) => BackAs(v.items[k], u),
           ReadHeld(v)
    PROVE  BackAs(v, t)
<1>1. PICK c \in Nat : HasShapes(v, c)
    BY Zenon, Shapes
<1>2. PICK w : w = Build[<<"value", v, t>>]
    OBVIOUS
<1>3. c = Len(v.items) /\ DOMAIN v.items = 1 .. c /\ IsBuiltOf(w, c, v, t) /\ w \in Wire
    BY Zenon, <1>1, <1>2 DEF HasShapes, IsBuiltOf
<1>4. OfKind(t)
    BY Zenon, KindOfType
<1>5. ASSUME NEW n \in Nat, NEW d \in Nat, n <= MaxWraps, v \in Values[n],
             Check[<<"value", v, t, d>>] = "fine"
      PROVE  Returns(w, t, n)
    <2>1. d <= MaxMessageDepth
        <3>1. "depth" # "fine"
            OBVIOUS
        <3>2. ~(d > MaxMessageDepth)
            BY Zenon, <1>5, <3>1, CheckCases DEF IsChecked
        <3> QED
            BY <3>2, CoercerAssumption
    <2>2. FineAt(v, c, t, d)
        BY Zenon, <1>3, <1>5, <2>1, VerdictFacts DEF IsExplained
    <2>3. d + 1 \in Nat /\ d + 2 \in Nat
        OBVIOUS
    <2>4. \A k \in 1 .. c : n > 0 /\ n - 1 \in Nat /\ n - 1 <= MaxWraps /\ v.items[k] \in Values[n - 1]
        BY Zenon, <1>3, <1>5, ItemsBelow
    <2>5. c = 0 \/ n > 0
        <3>1. c # 0 => 1 \in 1 .. c
            OBVIOUS
        <3> QED
            BY Zenon, <2>4, <3>1
    <2>6. ASSUME NEW k \in 1 .. c, NEW u \in Seq(Chars), IsSingleCompleteType(u), NEW e \in Nat,
                 Check[<<"value", v.items[k], u, e>>] = "fine"
          PROVE  Returns(Build[<<"value", v.items[k], u>>], u, n - 1)
        BY Zenon, <1>3, <2>4, <2>6 DEF BackAs
    <2>7. CASE IsBasic(t)
        <3>1. CoerceBasic(v, t[1])
            BY Zenon, <2>2, <2>7 DEF FineAt
        <3>2. w = BasicValue(v, t[1])
            BY Zenon, <1>3, <2>7 DEF IsBuiltOf
        <3> QED
            BY Zenon, <1>3, <1>5, <2>7, <3>1, <3>2, BasicReturns
    <2>8. CASE t = <<"v">>
        <3>1. PICK x : x = Build[<<"variant", v, <<>>>>]
            OBVIOUS
        <3>2. IsListOf(w, 1, <<"v">>, <<x>>)
            BY Zenon, <1>3, <2>8, <3>1 DEF IsBuiltOf
        <3>3. Demarshall[x] \in Values[n]
            BY Zenon, <1>5, <2>2, <2>3, <2>8, <3>1 DEF FineAt, ReadHeld
        <3>4. Returns(w, <<"v">>, n)
            BY Zenon, <1>5, <3>2, <3>3, VariantReturns
        <3> QED
            BY Zenon, <2>8, <3>4
    <2>9. CASE IsDict(t)
        <3>1. PICK u : u = DictValue(t)
            OBVIOUS
        <3>2. /\ v.kind = "object" /\ DictKey(t) # "h" /\ u \in ElementTypes
              /\ \A k \in 1 .. c : CoerceBasic(KeyValue(v.keys[k]), DictKey(t))
              /\ \A k \in 1 .. c : Check[<<"value", v.items[k], u, d + 2>>] = "fine"
            BY Zenon, <2>2, <2>9, <3>1 DEF FineAt
        <3>3. PICK h : h = [k \in 1 .. c |-> Build[<<"value", v.items[k], u>>]]
            OBVIOUS
        <3>4. IsMapOf(w, c, v, t, h)
            BY Zenon, <1>3, <2>9, <3>1, <3>2, <3>3 DEF IsBuiltOf
        <3>5. u \in Seq(Chars) /\ IsSingleCompleteType(u)
            BY Zenon, <1>4, <2>9, <3>1 DEF OfKind, Inside
        <3>6. \A k \in 1 .. c : Returns(h[k], u, n - 1)
            BY Zenon, <2>3, <2>6, <3>2, <3>3, <3>5
        <3> QED
            BY Zenon, <1>3, <1>5, <2>5, <2>9, <3>1, <3>2, <3>4, <3>6, MapReturns
    <2>10. CASE IsList(t)
        <3>1. PICK u : u = Tail(t)
            OBVIOUS
        <3>2. v.kind = "array" /\ u \in ElementTypes
            BY Zenon, <2>2, <2>10, <3>1 DEF FineAt
        <3>3. PICK e \in Nat : \A k \in 1 .. c : Check[<<"value", v.items[k], u, e>>] = "fine"
            BY Zenon, <2>2, <2>10, <3>1 DEF FineAt
        <3>4. PICK h : h = [k \in 1 .. c |-> Build[<<"value", v.items[k], u>>]]
            OBVIOUS
        <3>5. IsListOf(w, c, t, h)
            BY Zenon, <1>3, <2>10, <3>1, <3>2, <3>4 DEF IsBuiltOf
        <3>6. u \in Seq(Chars) /\ IsSingleCompleteType(u)
            BY Zenon, <1>4, <2>10, <3>1 DEF OfKind, Inside
        <3>7. PICK types : types = [k \in 1 .. c |-> u]
            OBVIOUS
        <3>8. ItemTypes(t, c, types)
            BY Zenon, <2>10, <3>1, <3>2, <3>7 DEF ItemTypes
        <3>9. \A k \in 1 .. c : Returns(h[k], types[k], n - 1)
            BY Zenon, <2>6, <3>3, <3>4, <3>6, <3>7
        <3> QED
            BY Zenon, <1>5, <2>5, <3>5, <3>8, <3>9, ListReturns
    <2>11. CASE IsStruct(t)
        <3>1. PICK types : types = StructFields(t)
            OBVIOUS
        <3>2. /\ v.kind = "array" /\ c = Len(types)
              /\ \A k \in 1 .. c : Check[<<"value", v.items[k], types[k], d + 1>>] = "fine"
            BY Zenon, <2>2, <2>11, <3>1 DEF FineAt
        <3>3. PICK h : h = [k \in 1 .. c |-> Build[<<"value", v.items[k], types[k]>>]]
            OBVIOUS
        <3>4. IsListOf(w, c, t, h)
            BY Zenon, <1>3, <2>11, <3>1, <3>2, <3>3 DEF IsBuiltOf
        <3>5. \A k \in 1 .. c : types[k] \in Seq(Chars) /\ IsSingleCompleteType(types[k])
            <4>1. /\ types \in Seq(Seq(Chars)) /\ \A s \in Range(types) : Inside(s, t, 1)
                BY Zenon, <1>4, <2>11, <3>1 DEF OfKind
            <4>2. DOMAIN types = 1 .. c
                BY <3>2, <4>1
            <4>3. \A k \in 1 .. c : Inside(types[k], t, 1)
                BY Zenon, <3>1, <4>1, <4>2, FieldFacts
            <4> QED
                BY Zenon, <4>3 DEF Inside
        <3>6. ItemTypes(t, c, types)
            BY Zenon, <2>11, <3>1, <3>2 DEF ItemTypes
        <3>7. \A k \in 1 .. c : Returns(h[k], types[k], n - 1)
            BY Zenon, <2>3, <2>6, <3>2, <3>3, <3>5
        <3> QED
            BY Zenon, <1>5, <2>5, <3>4, <3>6, <3>7, ListReturns
    <2> QED
        BY Zenon, <1>4, <2>7, <2>8, <2>9, <2>10, <2>11 DEF OfKind
<1> QED
    BY Zenon, <1>2, <1>5 DEF BackAs

\* A value is read back, from a variant or a type, as one that can be written
\* again.
AllBack(v) == ReadHeld(v) /\ \A t \in Seq(Chars) : IsSingleCompleteType(t) => BackAs(v, t)

\* All that is built of a fine value returns.
LEMMA FineReturns ==
    ASSUME NEW v \in JSON
    PROVE  AllBack(v)
<1>1. PICK Q : Q = {u \in JSON : AllBack(u)}
    OBVIOUS
<1>2. Q \in SUBSET JSON
    BY <1>1
<1>3. ASSUME NEW u \in JSON, \A k \in DOMAIN u.items : u.items[k] \in Q
      PROVE  u \in Q
    <2>1. \A k \in DOMAIN u.items : AllBack(u.items[k])
        BY Zenon, <1>1, <1>3
    <2>2. IsTyped(u) /\ IsSingleCompleteType(NamedType(u)) => ReadAs(Inner(u), NamedType(u))
        BY Zenon, <2>1, InnerIsItem DEF AllBack, BackAs, Returns, ReadAs
    <2>3. ReadHeld(u)
        BY Zenon, <2>1, <2>2, HeldRead DEF AllBack
    <2>4. \A t \in Seq(Chars) : IsSingleCompleteType(t) => BackAs(u, t)
        BY Zenon, <2>1, <2>3, ValueReturns DEF AllBack
    <2> QED
        BY Zenon, <1>1, <2>3, <2>4 DEF AllBack
<1>4. Q = JSON
    BY Zenon, <1>2, <1>3, JsonInduction
<1> QED
    BY Zenon, <1>1, <1>4

\* What a client read, it may use as an argument of the same type.
LEMMA InvEchoes == CoercerInv => EchoIsReusable
<1> SUFFICES ASSUME CoercerInv, phase = "back", signature # <<>>, ~HasReservedKey(sent)
             PROVE  \/ Verdict(back, signature) = "depth"
                    \/ /\ Verdict(back, signature) = "fine"
                       /\ Demarshall[Build[<<"value", back, signature>>]] = back
    BY Zenon DEF EchoIsReusable
<1>1. phase \in {"sent", "back"}
    OBVIOUS
<1>2. /\ value \in JSON /\ signature \in Seq(Chars) /\ back = Demarshall[sent]
      /\ IsSingleCompleteType(signature) /\ Check[<<"value", value, signature, 0>>] = "fine"
      /\ sent = Build[<<"value", value, signature>>]
    BY Zenon, <1>1 DEF CoercerInv, IsMadeFor
<1>3. IsFree(sent)
    BY Zenon DEF HasReservedKey, IsFree
<1>4. MaxWraps \in Nat /\ JSON = Values[MaxWraps] /\ 0 \in Nat
    BY Zenon, JsonLevels, CharsAre
<1>5. MaxWraps <= MaxWraps
    BY <1>4
<1>6. Returns(sent, signature, MaxWraps)
    BY Zenon, <1>2, <1>4, <1>5, FineReturns DEF AllBack, BackAs
<1>7. back \in JSON /\ AgainAs(back, signature)
    BY Zenon, <1>2, <1>3, <1>4, <1>6 DEF Returns
<1>8. Verdict(back, signature) \in Verdicts /\ Verdict(back, signature) # "type"
    BY Zenon, <1>2, <1>4, <1>7, CheckCases DEF AgainAs, Verdict, IsChecked
<1> QED
    BY Zenon, <1>7, <1>8 DEF AgainAs, Verdicts

\* What a service echoes can be sent again under the same signature and is
\* then read as the same value, unless it holds the key that is reserved for
\* naming a type.
THEOREM EchoesAreReusable == CoercerSpec => []EchoIsReusable
BY CoercerInvariant, InvEchoes, PTL
=============================================================================
