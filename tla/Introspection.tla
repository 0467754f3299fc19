---------------------------- MODULE Introspection ----------------------------
(***************************************************************************)
(* Which method a call targets, and of which type a property is, according *)
(* to the introspection data of an object: resolveMethodFromXml() and      *)
(* propertyTypeFromXml() of src/dbus/interfaceresolver.cpp.                *)
(*                                                                         *)
(* A document is read token by token, as QXmlStreamReader hands them out:  *)
(* starts and ends of nodes, interfaces, methods and signals; arguments    *)
(* and properties, which hold nothing the scanners look at, are one token  *)
(* each with edge "whole".  Both scanners read the same document here.  A  *)
(* document may end after any token; one that ends inside an element is    *)
(* one the reader reports an error for, wherever it was cut or broken.     *)
(***************************************************************************)
EXTENDS Integers, Sequences

CONSTANTS
    NoName,           \* the null QString, and an attribute that is not there
    InterfaceNames,   \* the names of interfaces, and of methods and signals
    MethodNames,
    Args,             \* the attributes of arguments: direction and type
    Properties,       \* those of properties: name and type
    Questions,        \* what is asked for: an interface, a method, a property
    MaxTokens         \* bound: length of the documents

ASSUME IntrospectionAssumption ==
    /\ \A q \in Questions : q = [interface |-> q.interface, method |-> q.method,
                                 property |-> q.property]
    /\ \A a \in Args : a = [direction |-> a.direction, type |-> a.type]
    /\ {a.direction : a \in Args} \subseteq {NoName, "in", "out"}
    /\ NoName \notin {"in", "out"}
    /\ MaxTokens \in Nat

Token(edge, tag, name) ==
    [edge |-> edge, tag |-> tag, name |-> name, direction |-> NoName, type |-> NoName,
     in |-> 0]

VARIABLES
    doc,     \* the tokens read so far; in is the element a token stands in
    open,    \* the elements open behind them: the tokens that start them
    asked,   \* the arguments of the functions
    scan,    \* the local variables of resolveMethodFromXml()
    lookup   \* those of propertyTypeFromXml(), and whether it has returned

docVars == <<doc, open, asked, scan, lookup>>

-----------------------------------------------------------------------------
(* resolveMethodFromXml(). *)

NoCandidate == [interface |-> NoName, inSignature |-> <<>>]

Fresh == [nodeDepth |-> 0, currentInterface |-> NoName, inMethod |-> FALSE,
          current |-> NoCandidate, candidates |-> <<>>]

ScanNode(s, t) == [s EXCEPT !.nodeDepth = IF t.edge = "start" THEN @ + 1 ELSE @ - 1]

\* The current interface, after the start or the end of one.
ScanInterface(s, t) ==
    [s EXCEPT !.currentInterface = IF t.edge = "start" THEN t.name ELSE NoName]

IsAsked(s, t) ==
    /\ t.name = asked.method
    /\ asked.interface = NoName \/ s.currentInterface = asked.interface

StartMethod(s) ==
    [s EXCEPT !.inMethod = TRUE,
              !.current = [interface |-> s.currentInterface, inSignature |-> <<>>]]

EndMethod(s) ==
    [s EXCEPT !.inMethod = FALSE, !.candidates = Append(@, s.current)]

ScanArg(s, t) == [s EXCEPT !.current.inSignature = Append(@, t.type)]

\* Mutant of Skipped: the interfaces of child nodes are read like any other.
NeverSkipped(s) == FALSE

\* A child node may describe interfaces of its own.
Skipped(s) == s.nodeDepth > 1

\* A token of the object's own description.
ScanOwnToken(s, t) ==
    CASE t.tag = "interface" -> ScanInterface(s, t)
      [] t.tag = "method" /\ t.edge = "start" /\ IsAsked(s, t) -> StartMethod(s)
      [] t.tag = "method" /\ t.edge = "end" /\ s.inMethod -> EndMethod(s)
      [] t.tag = "arg" /\ s.inMethod /\ t.direction \in {NoName, "in"} -> ScanArg(s, t)
      [] OTHER -> s

ScanMethodToken(s, t) ==
    IF t.tag = "node" THEN ScanNode(s, t)
    ELSE IF Skipped(s) THEN s
    ELSE ScanOwnToken(s, t)

-----------------------------------------------------------------------------
(* propertyTypeFromXml(). *)

FreshLookup == [nodeDepth |-> 0, currentInterface |-> NoName, found |-> FALSE,
                type |-> NoName]

\* A token of the object's own description, when a property is looked for.
ScanOwnProperty(s, t) ==
    CASE t.tag = "interface" -> ScanInterface(s, t)
      [] t.tag = "property" /\ s.currentInterface = asked.interface
            /\ t.name = asked.property -> [s EXCEPT !.found = TRUE, !.type = t.type]
      [] OTHER -> s

\* The scan ends at the first property that fits.
ScanPropertyToken(s, t) ==
    IF s.found THEN s
    ELSE IF t.tag = "node" THEN ScanNode(s, t)
    ELSE IF Skipped(s) THEN s
    ELSE ScanOwnProperty(s, t)

-----------------------------------------------------------------------------
(* The reader. *)

Root == Token("start", "node", NoName)

Innermost == open[Len(open)]

\* What may stand in an element.
Content(tag) ==
    CASE tag = "node" ->
            {Root} \cup {Token("start", "interface", i) : i \in InterfaceNames}
      [] tag = "interface" ->
            {Token("start", kind, m) : kind \in {"method", "signal"}, m \in MethodNames}
                \cup {[Token("whole", "property", p.name) EXCEPT !.type = p.type] :
                        p \in Properties}
      [] OTHER ->
            {[Token("whole", "arg", NoName) EXCEPT !.direction = a.direction, !.type = a.type] :
                a \in Args}

\* What may follow: more content of the innermost element, or its end.
Following ==
    {[t EXCEPT !.in = Innermost] :
        t \in Content(doc[Innermost].tag) \cup {Token("end", doc[Innermost].tag, NoName)}}

\* readNext() hands out t; both scanners look at it.
Read(t) ==
    /\ Len(doc) < MaxTokens
    /\ doc' = Append(doc, t)
    /\ open' = CASE t.edge = "start" -> Append(open, Len(doc) + 1)
                 [] t.edge = "end" -> SubSeq(open, 1, Len(open) - 1)
                 [] t.edge = "whole" -> open

DocInit ==
    /\ doc = <<>> /\ open = <<>>
    /\ asked = [interface |-> NoName, method |-> NoName, property |-> NoName]
    /\ scan = Fresh /\ lookup = FreshLookup

\* The functions are called, and the outermost node starts.
Begin ==
    /\ doc = <<>>
    /\ asked' \in Questions
    /\ Read(Root)
    /\ scan' = ScanNode(scan, Root)
    /\ lookup' = ScanNode(lookup, Root)

Continue ==
    /\ open # <<>>
    /\ \E t \in Following :
        /\ Read(t)
        /\ scan' = ScanMethodToken(scan, t)
        /\ lookup' = ScanPropertyToken(lookup, t)
    /\ UNCHANGED asked

DocNext == Begin \/ Continue

\* reader.hasError(), if the document ends here.
HasError == doc = <<>> \/ open # <<>>

\* A MethodResolution without a method.
Unresolved(state) ==
    [state |-> state, interface |-> asked.interface, inSignature |-> <<>>]

\* What resolveMethodFromXml() returns, if the document ends here.
Resolution ==
    IF HasError \/ scan.candidates = <<>> THEN Unresolved("Unavailable")
    ELSE IF Len(scan.candidates) > 1 THEN Unresolved("Ambiguous")
    ELSE [state |-> "Unique", interface |-> scan.candidates[1].interface,
          inSignature |-> scan.candidates[1].inSignature]

-----------------------------------------------------------------------------
(* What a document declares. *)

\* Token n stands in an interface of the introspected object, not of a child.
InOwnInterface(n) == doc[doc[n].in].tag = "interface" /\ doc[doc[n].in].in = 1

InterfaceOf(n) == doc[doc[n].in].name

Declarations ==
    {n \in 1 .. Len(doc) :
        /\ doc[n].tag = "method" /\ doc[n].edge = "start" /\ doc[n].name = asked.method
        /\ InOwnInterface(n)
        /\ asked.interface \in {NoName, InterfaceOf(n)}}

\* The input arguments of the method that starts at n.
Inputs(n) ==
    {k \in 1 .. Len(doc) :
        doc[k].tag = "arg" /\ doc[k].in = n /\ doc[k].direction # "out"}

PropertyDeclarations ==
    {n \in 1 .. Len(doc) :
        /\ doc[n].tag = "property" /\ doc[n].name = asked.property
        /\ InOwnInterface(n) /\ InterfaceOf(n) = asked.interface}

\* types are those of the tokens S, in the order of the document.
ListsTypes(types, S) ==
    \E p \in [1 .. Len(types) -> S] :
        /\ \A j, k \in 1 .. Len(types) : j < k => p[j] < p[k]
        /\ \A n \in S : \E k \in 1 .. Len(types) : p[k] = n
        /\ \A k \in 1 .. Len(types) : types[k] = doc[p[k]].type

-----------------------------------------------------------------------------
(* Property: what is resolved is what is declared. *)

MethodAsDeclared ==
    IF HasError \/ Declarations = {} THEN Resolution = Unresolved("Unavailable")
    ELSE \A n \in Declarations :
        IF Declarations # {n} THEN Resolution = Unresolved("Ambiguous")
        ELSE /\ Resolution.state = "Unique"
             /\ Resolution.interface = InterfaceOf(n)
             /\ ListsTypes(Resolution.inSignature, Inputs(n))

PropertyAsDeclared ==
    /\ PropertyDeclarations = {} => lookup.type = NoName
    /\ \A n \in PropertyDeclarations :
        (\A k \in PropertyDeclarations : n <= k) => lookup.type = doc[n].type

\* A call is resolved to the method that the object itself declares, with the
\* types of its inputs, and only when the whole document was read and holds one
\* declaration that fits: child nodes, other methods, signals and what a broken
\* document began with never add to it.  The type of a property is that of its
\* first declaration by the object itself, whatever comes behind it, and unknown
\* as long as there is none.
ResolvesAsDeclared == MethodAsDeclared /\ PropertyAsDeclared
=============================================================================
