------------------------------- MODULE Coercer -------------------------------
(***************************************************************************)
(* A JSON argument of a D-Bus call: checked against its type               *)
(* (typecoercer.cpp: checkValue), written as D-Bus containers (build), and *)
(* read back by a client whose service echoes it (dbusbridge.cpp:          *)
(* demarshall).  Basic types are 's', 'i' and 'h' (file descriptors, never *)
(* sent); other basic types are coerced alike.  'ay' is not modelled.      *)
(***************************************************************************)
EXTENDS Signatures

CONSTANTS
    MaxMessageDepth,   \* kMaxMessageDepth: containers of a message
    Declared,          \* the types methods declare and clients name in "@dbus"
    MaxWraps           \* bound: JSON containers around a leaf

ASSUME CoercerAssumption ==
    /\ MaxWraps \in Nat
    /\ Declared \subseteq Seq(Chars)
    /\ {"s", "i", "h"} \subseteq Basic
    /\ MaxArrayDepth > 0 /\ MaxStructDepth > 0 /\ MaxSignatureLength >= 5
    /\ MaxMessageDepth \in Nat /\ MaxArrayDepth + MaxStructDepth <= MaxMessageDepth

-----------------------------------------------------------------------------
(* JSON values.  The type an "@dbus" string names is in text. *)

Leaf(kind, text) == [kind |-> kind, keys |-> <<>>, items |-> <<>>, text |-> text]
Array(items) == [kind |-> "array", keys |-> <<>>, items |-> items, text |-> <<>>]
Object(keys, items) == [kind |-> "object", keys |-> keys, items |-> items, text |-> <<>>]
Typed(type, v) == Object(<<"@dbus", "text">>, <<Leaf("text", type), v>>)

\* A text, a text that writes an integer, an integer, null; empty containers.
Leaves ==
    {Leaf(kind, <<>>) : kind \in {"text", "numeral", "integer", "null"}}
        \cup {Array(<<>>), Object(<<>>, <<>>)}

IsTyped(v) == v.kind = "object" /\ Contains(v.keys, "@dbus")
NamedType(v) == v.items[1].text
Inner(v) == v.items[2]

\* A client puts v in one more container.
Wrapped(v) ==
    {Array(<<v>>), Array(<<v, v>>), Array(<<Leaf("integer", <<>>), v>>)}
        \cup {Object(<<key>>, <<v>>) : key \in {"text", "numeral"}}
        \cup {Typed(type, v) : type \in Declared}

Kinds == {"text", "numeral", "integer", "null", "array", "object"}
Keys == {"text", "numeral", "@dbus"}

\* The keys of an object; one that names a type has its value next to it.
IsKeys(keys) ==
    keys \in Seq(Keys) /\ (Contains(keys, "@dbus") => keys = <<"@dbus", "text">>)

IsValue(v) ==
    /\ v.kind \notin {"array", "object"} => v.items = <<>>
    /\ v.kind = "object" => IsKeys(v.keys) /\ Len(v.keys) = Len(v.items)

\* The JSON values that nest n containers at most.
Values[n \in Nat] ==
    {v \in [kind : Kinds, keys : Seq(Keys), text : Seq(Chars),
            items : IF n = 0 THEN {<<>>} ELSE Seq(Values[n - 1])] : IsValue(v)}

JSON == Values[MaxWraps]

-----------------------------------------------------------------------------
(* Types. *)

IsBasic(sig) == Len(sig) = 1 /\ sig[1] \in Basic
IsDict(sig) == Len(sig) > 1 /\ sig[1] = "a" /\ sig[2] = "{"
DictKey(sig) == sig[3]
DictValue(sig) == SubSeq(sig, 4, Len(sig) - 1)
StructFields(sig) == SplitTypes(SubSeq(sig, 2, Len(sig) - 1))

AnyMap == <<"a", "{", "s", "v", "}">>

\* The array elements and map values QtDBus can be told of.
ElementTypes ==
    {<<"s">>, <<"i">>, <<"v">>, <<"a", "s">>, <<"a", "i">>, <<"a", "v">>, AnyMap,
     <<"a", "{", "s", "s", "}">>, <<"a", "a", "s">>, <<"a", "a", "i">>, <<"a">> \o AnyMap,
     <<"a", "{", "s">> \o AnyMap \o <<"}">>, <<"(", "s", "i", ")">>, <<"(", "s", "s", ")">>,
     <<"(", "i", "i", ")">>, <<"(", "a", "i", ")">>}

\* coerceBasic(): strict, but a string may write an integer.
CoerceBasic(v, type) ==
    \/ type = "s" /\ v.kind \in {"text", "numeral"}
    \/ type = "i" /\ v.kind \in {"integer", "numeral"}

\* keyValue(): a key is read as a string.
KeyValue(key) == Leaf(IF key = "numeral" THEN key ELSE "text", <<>>)

-----------------------------------------------------------------------------
(* Pass 1: check.  "fine", or what is wrong first: the "type" or the "depth". *)

FirstProblem(problems) ==
    IF \A n \in DOMAIN problems : problems[n] = "fine" THEN "fine"
    ELSE problems[Min({n \in DOMAIN problems : problems[n] # "fine"})]

\* What is checked: a value against a type, or a variant; depth counts the containers.
Checks == {"value", "variant"} \X JSON \X Seq(Chars) \X Nat

\* Mutant of CheckTyped: a declared type starts counting afresh.
CheckTypedAfresh(check, v, depth) ==
    IF ~IsSingleCompleteType(NamedType(v)) THEN "type"
    ELSE IF depth + TypeDepth(NamedType(v)) > MaxMessageDepth THEN "depth"
    ELSE check[<<"value", Inner(v), NamedType(v), 0>>]

CheckTyped(check, v, depth) ==
    IF ~IsSingleCompleteType(NamedType(v)) THEN "type"
    ELSE IF depth + TypeDepth(NamedType(v)) > MaxMessageDepth THEN "depth"
    ELSE check[<<"value", Inner(v), NamedType(v), depth>>]

\* What a variant may hold; depth counts the variant.
CheckVariant(check, v, depth) ==
    IF depth > MaxMessageDepth THEN "depth"
    ELSE IF IsTyped(v) THEN CheckTyped(check, v, depth)
    ELSE IF v.kind = "null" THEN "type"
    ELSE FirstProblem([n \in DOMAIN v.items |->
            check[<<"variant", v.items[n], <<>>, depth + (IF v.kind = "array" THEN 2 ELSE 3)>>]])

\* Mutant of CheckMap: a variant value is counted here and in CheckVariant.
CheckMapTwice(check, v, sig, depth) ==
    IF DictKey(sig) = "h" \/ DictValue(sig) \notin ElementTypes \/ v.kind # "object" THEN "type"
    ELSE FirstProblem([n \in DOMAIN v.items |->
            IF ~CoerceBasic(KeyValue(v.keys[n]), DictKey(sig)) THEN "type"
            ELSE check[<<"value", v.items[n], DictValue(sig), depth + 3>>]])

\* An object; each value sits in the array and in its entry.
CheckMap(check, v, sig, depth) ==
    IF DictKey(sig) = "h" \/ DictValue(sig) \notin ElementTypes \/ v.kind # "object" THEN "type"
    ELSE FirstProblem([n \in DOMAIN v.items |->
            IF ~CoerceBasic(KeyValue(v.keys[n]), DictKey(sig)) THEN "type"
            ELSE check[<<"value", v.items[n], DictValue(sig), depth + 2>>]])

\* Mutant of CheckArray: the first item speaks for the others.
CheckArrayFirst(check, v, sig, depth) ==
    IF Tail(sig) \notin ElementTypes \/ v.kind # "array" THEN "type"
    ELSE IF v.items = <<>> THEN "fine" ELSE check[<<"value", v.items[1], Tail(sig), depth + 1>>]

CheckArray(check, v, sig, depth) ==
    IF Tail(sig) \notin ElementTypes \/ v.kind # "array" THEN "type"
    ELSE FirstProblem([n \in DOMAIN v.items |->
            check[<<"value", v.items[n], Tail(sig), depth + 1>>]])

\* A list of strings: its items are no deeper than the list.
CheckStrings(v) ==
    IF v.kind = "array" /\ \A i \in Range(v.items) : CoerceBasic(i, "s") THEN "fine" ELSE "type"

CheckStruct(check, v, sig, depth) ==
    IF v.kind # "array" \/ Len(v.items) # Len(StructFields(sig)) THEN "type"
    ELSE FirstProblem([n \in DOMAIN v.items |->
            check[<<"value", v.items[n], StructFields(sig)[n], depth + 1>>]])

\* v against the complete type sig, inside depth containers.
CheckValue(check, v, sig, depth) ==
    IF depth > MaxMessageDepth THEN "depth"
    ELSE IF IsBasic(sig) THEN (IF CoerceBasic(v, sig[1]) THEN "fine" ELSE "type")
    ELSE IF sig = <<"v">> THEN check[<<"variant", v, <<>>, depth + 1>>]
    ELSE IF sig = <<"a", "s">> THEN CheckStrings(v)
    ELSE IF IsDict(sig) THEN CheckMap(check, v, sig, depth)
    ELSE IF sig[1] = "a" THEN CheckArray(check, v, sig, depth)
    ELSE CheckStruct(check, v, sig, depth)

Check[x \in Checks] ==
    IF x[1] = "value" THEN CheckValue(Check, x[2], x[3], x[4]) ELSE CheckVariant(Check, x[2], x[4])

-----------------------------------------------------------------------------
(* Pass 2: build.  A D-Bus value: its type, what it contains, and for a       *)
(* basic one the JSON kind it is read back as.  NoVariant is QVariant().      *)

Contents(type, items) == [type |-> type, items |-> items, content |-> "none"]
Scalar(type, content) == [type |-> type, items |-> <<>>, content |-> content]
NoVariant == Scalar(<<>>, "none")

BasicValue(v, type) ==
    IF ~CoerceBasic(v, type) THEN NoVariant
    ELSE Scalar(<<type>>, IF type = "i" THEN "integer" ELSE v.kind)

KeyScalar(key, type) == [BasicValue(KeyValue(key), type) EXCEPT
                            !.content = IF type = "i" THEN "numeral" ELSE key]

Entries(v, sig, values) ==
    [n \in DOMAIN v.items |-> Contents(<<"{">>, <<KeyScalar(v.keys[n], DictKey(sig)), values[n]>>)]

KeysOf(w) == [n \in DOMAIN w.items |-> w.items[n].items[1].content]

\* A variant holds one value, and the entries of a map are keys with a value.
IsMessage(w) ==
    /\ w.type = <<"v">> => Len(w.items) = 1
    /\ IsDict(w.type) =>
        (\A n \in DOMAIN w.items : Len(w.items[n].items) = 2) /\ IsKeys(KeysOf(w))

\* The D-Bus values that nest n containers at most.
Messages[n \in Nat] ==
    {w \in [type : Seq(Chars), content : {"none", "text", "numeral", "integer", "@dbus"},
            items : IF n = 0 THEN {<<>>} ELSE Seq(Messages[n - 1])] : IsMessage(w)}

\* Those that JSON values amount to: an object is an array, an entry and a variant.
Wire == Messages[3 * MaxWraps + 1]

InVariant(w) == Contents(<<"v">>, <<w>>)

\* jsonToVariant(): without a type, "@dbus" is a key like another.
Natural[v \in JSON] ==
    LET items == [n \in DOMAIN v.items |-> InVariant(Natural[v.items[n]])] IN
    CASE v.kind = "array" -> Contents(<<"a", "v">>, items)
      [] v.kind = "object" -> Contents(AnyMap, Entries(v, AnyMap, items))
      [] v.kind = "integer" -> Scalar(<<"i">>, "integer")
      [] v.kind = "null" -> NoVariant
      [] OTHER -> Scalar(<<"s">>, v.kind)

\* What is built: a value of a type, or what a variant holds.
Builds == {"value", "variant"} \X JSON \X Seq(Chars)

VariantContent(build, v) ==
    LET items == [n \in DOMAIN v.items |-> InVariant(build[<<"variant", v.items[n], <<>>>>])] IN
    IF IsTyped(v) THEN build[<<"value", Inner(v), NamedType(v)>>]
    ELSE IF v.kind = "array" THEN Contents(<<"a", "v">>, items)
    ELSE IF v.kind = "object" THEN Contents(AnyMap, Entries(v, AnyMap, items))
    ELSE Natural[v]

\* toArray() and toObject(): the items of v, none when it is of another kind.
ItemsOf(v, kind) == IF v.kind = kind THEN v.items ELSE <<>>

BuildMap(build, v, sig) ==
    LET items == ItemsOf(v, "object") IN
    Contents(sig, Entries([v EXCEPT !.items = items], sig,
        [n \in DOMAIN items |-> build[<<"value", items[n], DictValue(sig)>>]]))

BuildArray(build, v, sig) ==
    LET items == ItemsOf(v, "array") IN
    Contents(sig, [n \in DOMAIN items |-> build[<<"value", items[n], Tail(sig)>>]])

BuildStruct(build, v, sig) ==
    LET items == ItemsOf(v, "array") IN
    Contents(sig, [n \in DOMAIN StructFields(sig) |->
        IF n \in DOMAIN items THEN build[<<"value", items[n], StructFields(sig)[n]>>]
        ELSE NoVariant])

\* build() and write(): v as a value of the complete type sig.
BuildValue(build, v, sig) ==
    IF ~IsSingleCompleteType(sig) THEN NoVariant
    ELSE IF IsBasic(sig) THEN BasicValue(v, sig[1])
    ELSE IF sig = <<"v">> THEN InVariant(build[<<"variant", v, <<>>>>])
    ELSE IF IsDict(sig) THEN BuildMap(build, v, sig)
    ELSE IF sig[1] = "a" THEN BuildArray(build, v, sig)
    ELSE BuildStruct(build, v, sig)

Build[x \in Builds] ==
    IF x[1] = "value" THEN BuildValue(Build, x[2], x[3]) ELSE VariantContent(Build, x[2])

\* The values in w, w among them, each with the number of containers around it.
Parts[w \in Wire] ==
    {<<0, w>>} \cup UNION {{<<p[1] + 1, p[2]>> : p \in Parts[i]} : i \in Range(w.items)}

\* QtDBus can write all of w.
IsComplete(w) == \A p \in Parts[w] : p[2].type # <<>>

-----------------------------------------------------------------------------
(* The way back: demarshall() and variantToJson(). *)

\* Mutant of DemarshallItems: the loop over an array or a struct ends after one element.
DemarshallOne(demarshall, w) == Array([n \in DOMAIN w.items \cap {1} |-> demarshall[w.items[n]]])

DemarshallItems(demarshall, w) == Array([n \in DOMAIN w.items |-> demarshall[w.items[n]]])

DemarshallMap(demarshall, w) ==
    Object(KeysOf(w), [n \in DOMAIN w.items |-> demarshall[w.items[n].items[2]]])

\* What a client reads: variants vanish, structs are arrays, keys are strings.
Demarshall[w \in Wire] ==
    IF w.type = <<"v">> THEN Demarshall[w.items[1]]
    ELSE IF IsDict(w.type) THEN DemarshallMap(Demarshall, w)
    ELSE IF w.content = "none" THEN DemarshallItems(Demarshall, w)
    ELSE Leaf(IF w.content = "@dbus" THEN "text" ELSE w.content, <<>>)

\* naturalDepth(): the containers the natural mapping of v nests, from depth on.
NaturalDepth[x \in JSON \X Nat] ==
    LET step == IF x[1].kind = "array" THEN 2 ELSE 3 IN
    IF x[2] > MaxMessageDepth \/ x[1].items = <<>> THEN x[2]
    ELSE Max({NaturalDepth[<<i, x[2] + step>>] : i \in Range(x[1].items)})

-----------------------------------------------------------------------------

VARIABLES
    value,       \* the JSON argument
    signature,   \* the type of its parameter; empty when introspection tells none
    phase,       \* "argument", then "refused", or "sent" and "back"
    problem,     \* why it was refused
    sent,        \* the D-Bus value
    back         \* the JSON value a client gets back

coercerVars == <<value, signature, phase, problem, sent, back>>

Null == Leaf("null", <<>>)

CoercerInit ==
    /\ value \in Leaves
    /\ signature \in Declared \cup {<<>>}
    /\ phase = "argument"
    /\ problem = "fine"
    /\ sent = NoVariant
    /\ back = Null

\* The client writes a larger argument.
Write ==
    /\ phase = "argument"
    /\ \E v \in Wrapped(value) : v \in JSON /\ value' = v
    /\ UNCHANGED <<signature, phase, problem, sent, back>>

Refuse(why) ==
    /\ phase' = "refused"
    /\ problem' = why
    /\ UNCHANGED <<value, signature, sent, back>>

Send(w) ==
    /\ phase' = "sent"
    /\ sent' = w
    /\ UNCHANGED <<value, signature, problem, back>>

\* coerce(): what to answer about v for a parameter of that type.
Verdict(v, type) == IF IsSingleCompleteType(type) THEN Check[<<"value", v, type, 0>>] ELSE "type"

Coerce ==
    /\ phase = "argument" /\ signature # <<>>
    /\ IF Verdict(value, signature) = "fine" THEN Send(Build[<<"value", value, signature>>])
       ELSE Refuse(Verdict(value, signature))

\* The natural mapping: QtDBus refuses to write an invalid QVariant.
SendNatural ==
    /\ phase = "argument" /\ signature = <<>>
    /\ IF NaturalDepth[<<value, 0>>] > MaxMessageDepth THEN Refuse("depth")
       ELSE IF IsComplete(Natural[value]) THEN Send(Natural[value])
       ELSE Refuse("type")

\* The service sends the value back.
Echo ==
    /\ phase = "sent"
    /\ phase' = "back"
    /\ back' = Demarshall[sent]
    /\ UNCHANGED <<value, signature, problem, sent>>

CoercerNext == Write \/ Coerce \/ SendNatural \/ Echo

CoercerSpec == CoercerInit /\ [][CoercerNext]_coercerVars

-----------------------------------------------------------------------------
(* Properties. *)

\* What libdbus demands of a value: an array holds what beginArray() was told, a
\* map and a struct what their types say, a variant one complete type.
HoldsWhatItsTypeSays(w) ==
    LET types == [n \in DOMAIN w.items |-> w.items[n].type] IN
    IF w.content # "none" THEN w.type \in {<<"s">>, <<"i">>}
    ELSE IF w.type = <<"v">> THEN IsSingleCompleteType(types[1])
    ELSE IF IsDict(w.type) THEN
        /\ DictValue(w.type) \in ElementTypes
        /\ \A n \in DOMAIN w.items :
            /\ types[n] = <<"{">>
            /\ w.items[n].items[1].type = <<DictKey(w.type)>>
            /\ w.items[n].items[2].type = DictValue(w.type)
    ELSE IF w.type # <<>> /\ w.type[1] = "a" THEN
        Tail(w.type) \in ElementTypes /\ Range(types) \subseteq {Tail(w.type)}
    ELSE types # <<>> /\ types = StructFields(w.type)

\* An entry is looked at with its map.
IsWellTyped(w) == \A p \in Parts[w] : p[2].type = <<"{">> \/ HoldsWhatItsTypeSays(p[2])

\* "nothing below can fail": what pass 1 accepts pass 2 writes, every element of
\* every container of the type announced, and of the type of the parameter.
WrittenAsDeclared ==
    phase = "sent" => /\ IsWellTyped(sent)
                      /\ signature # <<>> => sent.type = signature

\* No value sits in more containers than the bus takes, whatever the mix of natural
\* and declared types, maps, structs and variants, each of which counts its own way.
NestsWithinLimit == phase = "sent" => \A p \in Parts[sent] : p[1] <= MaxMessageDepth

\* An argument refused as too deep is: its containers, or its types, pass the limit.
RefusedAsDeepRightly ==
    phase = "refused" /\ problem = "depth" =>
        LET w == IF signature = <<>> THEN Natural[value]
                 ELSE Build[<<"value", value, signature>>]
        IN  \E p \in Parts[w] : p[1] + TypeDepth(p[2].type) > MaxMessageDepth

\* A key of sent that reserves its object for naming a type.
HasReservedKey(w) == \E p \in Parts[w] : p[2].content = "@dbus"

\* A client may use what it read as an argument of the same type: it means the same,
\* unless it now nests too deep or has a key that "@dbus" reserves.
EchoIsReusable ==
    phase = "back" /\ signature # <<>> /\ ~HasReservedKey(sent) =>
        \/ Verdict(back, signature) = "depth"
        \/ /\ Verdict(back, signature) = "fine"
           /\ Demarshall[Build[<<"value", back, signature>>]] = back
=============================================================================
