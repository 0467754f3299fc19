# Verification of plasma-mcp-bridge

plasma-mcp-bridge is a process between one MCP client (JSON-RPC lines on stdin and
stdout) and D-Bus. This directory holds TLA+ models of its code, the TLC runs that check
them on small instances, and proofs, checked by TLAPS, that the main properties hold for
every value of the constants. Paths below are those of the repository (`src/mcp/...`).

## 1. Inventory

| Component | State | Operations | Used by |
|---|---|---|---|
| **ToolRunner** `src/mcp/toolrunner.cpp` | `m_inFlight` (id -> cancel flag), two `QThreadPool` with their queues, the finish() events posted to the main thread | `submit`, `cancel`, `finish`, the worker lambda | Server |
| **Server** `src/mcp/server.cpp` | `m_modernCalls`, `m_listens`, `m_closing`, the drain timer | `onMessage` (two protocol eras), `handleNotification`, `sendToolResult`, `shutdown` | StdioTransport (signals), ToolRunner (signals) |
| **StdioTransport** `src/mcp/stdiotransport.cpp` | `m_buffer`, `m_broken`, the notifier | `onReadable`, `send` | the event loop, Server |
| **main** `src/main.cpp` | the Qt objects on its stack, the event loop | start-up, wiring of signals, `exec`, teardown | |
| **CallPolicy** `src/core/callpolicy.cpp` | options and three pattern lists, immutable after `configure` | `evaluate`, `globMatch`, `parsePattern` | D-Bus tools, from several workers |
| **D-Bus tools** `src/tools/dbustools.cpp` | none | `dbus_list_services`, `dbus_introspect`, `dbus_call`: resolve, judge, audit, call | ToolRunner's workers |
| **DBusBridge** `src/dbus/dbusbridge.cpp` | none | `callMethod`, JSON <-> D-Bus conversion | D-Bus tools, plugins |
| **InterfaceResolver** `src/dbus/interfaceresolver.cpp` | none | the method and signature named by introspection data | D-Bus tools, DBusBridge |
| **TypeCoercer** `src/dbus/typecoercer.cpp` | none | signature scanner, range-checked conversion of arguments | DBusBridge |
| **ToolRegistry** `src/mcp/toolregistry.cpp` | the tools by name, read-only after start-up | `add`, `find` | main, Server |
| **Protocol versions, JSON-RPC helpers** `src/mcp` | none | a choice of version, builders of messages | Server |
| **Plugins** `src/core/pluginloader.cpp` | the libraries that are loaded | `load`; their tools run on the serial pool | main, ToolRunner |
| **Backends, notify tool, skill emitter** | none after start-up | registration, one D-Bus call, a text file | main |

How they interact. The main thread runs the event loop: it reads a chunk of stdin and
handles all its complete lines in one go, with direct calls from the transport to the
server and to the runner. `tools/call` is queued to a pool; a worker runs the tool and
posts `finish()` back to the event loop, which writes the result. A failing write emits
`closed()`, which runs `Server::shutdown()` *inside* the handler that writes. The workers
share with the main thread nothing but the cancel flags, the two pools and the event queue.

What is hard:

- an id may be cancelled and used again while its old call is queued, running, or
  finished with its event not yet dispatched;
- cancellation races the worker's only look at the flag, and the queued finish();
- sets keyed by id (`m_modernCalls`, `m_listens`, `m_inFlight`) must change together;
- write failures re-enter the server from every handler, and the lines left in the
  chunk are still handled afterwards;
- shutdown waits for results under a timer, must not destroy a pool with a running tool,
  and must end even when a tool hangs;
- bytes arrive in chunks cut anywhere, and a line is handled while others wait behind it;
- tools of plugins must be called one at a time, and may have any name, a built-in one's too;
- a reply is read with iterators that stay where they are on a type nobody can read;
- what a service declares (documents with child nodes, broken ones) decides how
  arguments are written;
- a D-Bus call takes several round trips, between which services and names change;
- arguments cross JSON doubles, strings, eight integer widths, signatures and nested
  containers, each with limits beyond which libdbus aborts or the bus hangs up.

The properties each component owes are listed with its module below; `PROJECT.json`
lists each hazard at its line with the properties that cover it.

## 2. Modules

| Module | Models | State and actions |
|---|---|---|
| `ToolRunner` | `src/mcp/toolrunner.cpp` | A call is named by the rank of its submission, which also stands for the cancel flag allocated for it: `inFlight[i]` is the call whose flag the hash holds under id `i`, `cancelled` the flags that are set. `queue`, `running`, `posted` are where a call waits. Actions: `Submit`, `Cancel`, `Finish` on the main thread; `Start`, `Skip`, `Complete` of the workers. |
| `Server` | `src/mcp/server.cpp`, the line loop and `send()` of `src/mcp/stdiotransport.cpp`, `exec()` and the teardown of `src/main.cpp` | Extends `ToolRunner`. One action per handler of a line (`AnswerNow`, `Listen`, `ToolsCall`, `Cancelled`, ...) and per event of the loop (`Read`, `Eof`, `HandleFinish`, `DrainTimeout`, `Return`). `Send` is every write, with its failure. |
| `Startup` | `main()` before the event loop in `src/main.cpp`, `src/core/pluginloader.cpp`, `add` of `src/mcp/toolregistry.cpp` | A tool is its name; `registry` tells who brought it, `serialized` is the set handed to `setSerializedTools`. One action per step of `main()`, with its early returns (`ReadOptions`, `LoadPlugin`, `PluginFails`, `RegisterBuiltin`, `RegisterPlugin`, ...). |
| `Bridge` | the look-up of a tool and the choice of its pool in `handleToolsCall` | Composes `Startup` and `ToolRunner`: a call names a tool, and the names registered at start-up pick its pool (`Call`). |
| `Framing` | `src/mcp/stdiotransport.cpp` | Bytes of stdin, `m_buffer`, the notifier, `m_broken`; `Receive` (one `read()` of any length up to the chunk), `HandleLine` (a turn of the loop, with writes that may fail), `EndOfInput`, `ResultFails`. |
| `ByteLines` | what a client may rely on: a stream is lines, handled once and in order | The abstract specification `Framing` implements. |
| `ResponseContract` | what a client may rely on about request ids | An id is idle, pending or muted; the abstract specification `Server` implements. |
| `GlobMatch` | `globMatch` in `src/core/callpolicy.cpp` | The loop with its four indices, one action per branch (`EnterStar`, `Advance`, `Backtrack`, `Fail`, `SkipStar`, `Finish`), against a definition of matching by cuts of the text. |
| `Patterns` | `parsePattern` and `configure` of `src/core/callpolicy.cpp` | Pure operators over texts of separators and other characters. |
| `CallPolicy` | `evaluate`, `matches`, `destinationAllowed` of `src/core/callpolicy.cpp` | Pure operators. A rule is the sets of names, interfaces and methods its globs match, and whether its service is literal. |
| `DBusCall` | `DBusCallTool::call` in `src/tools/dbustools.cpp`, the round trips of `callMethod` and `resolveMethod` in `src/dbus` | One call on a worker: resolve, look up owners one by one, judge, audit, introspect again, send, wait. Beside it the bus, where names change hands and services change what they declare (`Acquire`, `Disconnect`, and the answers themselves). Extends `CallPolicy`. |
| `Introspection` | `resolveMethodFromXml` and `propertyTypeFromXml` of `src/dbus/interfaceresolver.cpp` | `QXmlStreamReader` hands out a document token by token (`Begin`, `Continue`) and both scanners look at each, one operator per branch; beside them what a document declares, to compare them with. |
| `Demarshal` | `demarshallElement` and `extractBasic` of `src/dbus/dbusbridge.cpp` | A reply is a tree of numbered elements; `at` is where the iterator of each level stands, `inside` the container being read. `ReadBasic`, `MeetUnknown`, `Begin`, `End`. |
| `IntegerArguments` | `parseInteger`, `inRange`, `signedValue`, `integerVariant` of `src/dbus/typecoercer.cpp`; `variantToJson` and the numbers of `jsonToVariant` in `src/dbus/dbusbridge.cpp` | An integer argument, sent and echoed: `Coerce`, `Natural`, `Echo`. The conversions of C++ are taken modulo their width; the widths are parameters. |
| `Signatures` | `scanType`, `splitTypes`, `typeDepth` of `src/dbus/typecoercer.cpp` | Recursive functions of one argument: a place to scan from (`Scan`), and a phrase to judge (`Grammar`), the grammar to compare the scanner with. |
| `Parsing` | the texts the program takes apart | Composes `Signatures`, `Introspection` and `Patterns`: a behaviour writes one text, character by character or token by token, so that an invariant speaks of every text and of every first part of it. |
| `Coercer` | `checkValue` and `checkVariant` (pass 1), `build`, `write` and `variantContent` (pass 2) of `src/dbus/typecoercer.cpp`; `naturalDepth`, `jsonToVariant`, `demarshall` of `src/dbus/dbusbridge.cpp` | A JSON tree the client writes (`Write`), checked and built (`Coerce`, `SendNatural`), read back (`Echo`). Both passes, the natural mapping and the reading are recursive functions over the JSON values (`JSON`) or the D-Bus values (`Wire`) of a bounded nesting; what the code does at one value is an operator of its own (`CheckMap`, `BuildStruct`, `DemarshallItems`, ...). Extends `Signatures`. |
| `MC...` | | Symmetry and instances. |
| `..._proofs` | | The theorems of section 5. |

Abstractions. A request is the part the handlers look at: its id, method, era, and what
may be wrong with it. Responses keep their id and their shape (legacy, modern, error),
and which call they answer; their contents are left out. Ids are compared as the code
compares them, by `idText`. One chunk holds some number of complete lines; blank lines are
among the ignored ones.

In the D-Bus modules a name, an interface or a method is a model value and a pattern the
set of what it matches (`GlobMatch` is where matching itself is shown right). What a
service answers to an introspection is the set of interfaces that declare the method. A
JSON text in `Coercer` is one that writes an integer or one that does not; basic types
are 's', 'i' and 'h' there, since the others are coerced alike; byte arrays are left out.
In `DBusCall` an introspection may answer
anything the bus allows; which answer a document amounts to is what `Introspection`
computes. A document there is the tokens `QXmlStreamReader` hands out; one that ends inside
an element stands for every document the reader reports an error for. In `Framing` a byte
is a newline, a blank, or part of a JSON text; the handlers of an event are in `Server`.
In `Demarshal` an "unknown" element stands for each wire type no branch reads. In
`Startup` which plugins are given, in what order, and what they bring is free.
The bus, QtDBus and the JSON parser are external and are modelled as the code uses them:
the parser keeps integers of int64 exactly and rounds the others to a double (`Read`),
QtDBus refuses to write an invalid `QVariant` (`IsComplete`), and a look-up of an owner
that fails counts as no owner (`LookUpFails`), as in the code. A connection has its
interface object while owners are looked up: `src/tools/dbustools.cpp:315` uses it without
the check for null of `src/dbus/dbusbridge.cpp:77`. `HungOnce` counts the round trips to the
service; a look-up at the bus daemon has QtDBus's own timeout, which is not counted.

`Bridge` has the calls of tools and not `tools/list`, which changes no state of the program.
`ToolRegistry::toJson()` runs `name()`, `description()` and `inputSchema()` of every tool on
the main thread, and a `call()` of the same plugin may be running then: `PluginCallsAlone` is
about `call()` only, as is the README of the program ("one at a time (they need not be
reentrant)"), and nothing here says that a plugin gets by without thread-safety of the rest.

Two atomicity choices matter. A line is one step of the main thread, and no other event of
that thread is handled while lines of the chunk remain; this is the code's behaviour, since
`onReadable()` calls the handlers directly. A worker's look at the flag and the start of
the tool are one step: the flag is read once and nothing depends on a later value.

## 3. Runs

| Run | Question | Instance |
|---|---|---|
| `toolrunner` | flags, results, calls of plugins' tools alone and in order, built-in calls ending though plugins hang, under every start-up and interleaving | a built-in tool and up to two tools of plugins, of its name or another; 3 ids, 2 threads, 3 calls: the pool fills up, a call waits, ids are used again |
| `server` | the safety properties of the main thread | 2 ids, 1 thread, 3 calls, chunks of 1 or 2 lines: an id used again after a cancellation, a line left after a failing write |
| `server_drain` | a shutdown ends though tools hang; accepted calls end when tools return; refinement of `ResponseContract` | the same with 2 calls |
| `globmatch` | the loop decides as the definition does, and ends | every pattern and text of up to 4 characters over two and a star |
| `dbus_call` | what a call reaches is what the policy allows; a call ends though services may never answer | 2 connections, 2 well-known names, 2 interfaces, one change of the bus; every policy with at most one rule of each kind |
| `integers` | integers are sent and returned exactly | every integer from beyond the least int64 to beyond the greatest uint64, with scaled widths |
| `parsing` | the scanner is the grammar with its limits; a document resolves to what it declares; a rule is read as it was written | every signature of up to 8 characters over 7, with at most 2 arrays, 1 struct, 7 characters; every document of up to 10 tokens, with child nodes, signals and arguments of each direction; every rule of up to 8 characters |
| `framing` | lines are handled as if the stream had come in one piece | every stream of up to 5 bytes, chunks of up to 3, writes failing at any line |
| `demarshal` | reading ends and loses only what is behind an element it cannot read | every reply of up to 5 elements, and maps of two entries in a structure |
| `coercer` | what pass 1 accepts pass 2 can write, the bus takes and a client can send again | 13 types and none, up to 3 containers around a leaf, a limit of 6 containers |
| `dbus_call_judged` | a comment of the code, taken literally | violated: see section 6 |
| `server_one_response` | the sentence of the README on ids in flight, taken literally | violated: see section 6 |

Why the bounds are enough: in the runs of the server and the runner `MaxCalls`, `MaxLines`
and `MaxPluginTools` are the only bounds. Properties relate
at most two calls with the same id, or two calls of the same pool, so three calls contain
every case with one call more; the proofs remove the bounds for all safety properties.
Two tools of plugins are enough for a name brought twice and for one taken from a built-in
tool. The run of `Bridge` switches off deadlock checking: the client may stop for good. Those
of `Server` keep it on: only an ended process stops. The other modules describe one call or
one conversion, which stops when it is done.

In `dbus_call` the policy compares rules one by one, so a rule of each kind, with every
combination of literal and wildcard service and of one interface or any, meets every
interaction of two kinds; one change of the bus (`MaxChanges`) suffices to invalidate any
look-up, and the proofs remove the bounds. The widths of `integers` are scaled to keep the
order of the real ones (8 < 16 < 32 < exact < 64 bits) with every edge inside the
range tried. The limits of `parsing` and `coercer` are scaled so that each is met
exactly and passed: a struct in a struct, three arrays, an eighth character; three
maps or a mix of maps, variants and named types around six containers. That the scanner
does at level 32 what it does at level 2 is proved, and so are the properties of `Coercer`
for values of any nesting (`MaxWraps`) under any limits.

Five bytes in chunks of three hold a line within a chunk, one across two and one that ends
with the first byte of the next, and two lines in one chunk; five elements hold an
unreadable one before, in and behind a container. Both are proved for any size. Ten tokens hold two
interfaces with a method each, a method of three arguments, or one of two arguments and a
child node. Eight characters hold a unique name and both separators. Documents and rules
of any length are the subject of proofs.

## 4. Fairness

- A free thread of a pool takes a waiting call (`Start`, `Skip`): `QThreadPool`.
- The event loop takes the lines of a chunk (`WF_buffered(TakeLine)`; each line has a
  handler), fires a timer that is due, returns after `quit()` (`WF`), and dispatches posted
  events however busy stdin is (`SF`, since a chunk in progress suspends them):
  `QCoreApplication::exec()`.
- The notifier fires as long as bytes wait, and the loop over the lines of a chunk goes on
  (`Framing`): the event loop, and sequential code.
- A worker that runs goes on, the bus daemon answers a look-up or gives no valid answer,
  and a timeout expires (`DBusCall`); a service may never answer. The loop of `GlobMatch`
  and the recursion of `Demarshal` keep running: sequential code.
- Built-in tools return (`BridgeFairSpec`), because each bus call of theirs has a
  timeout. Of the tools of plugins this is not assumed: `BuiltinCallsSettle` and
  `Terminates` are checked with tools that hang, and `EveryCallSettles` says what holds
  of the behaviours in which they do return (`ToolsReturn`). Nothing is assumed of the client.

## 5. Proofs

`ToolRunner_proofs` proves type correctness (`RunnerTypes`) and, through one inductive
invariant `RunnerInv`, `FlagOwner`, `Settled` and `SerialResultsInOrder`. The three are not
inductive alone. `RunnerInv` adds that the four places a call can be in (two queues, the
workers, the event queue) are disjoint and hold no call twice; that a call is in the
structures of its own pool; and, for the order, that the serial queue is increasing, that at
most one serial call runs, and that serial calls in the event queue, the running one and
the queued ones come in increasing order, each later than every delivered one. The step
lemmas say how each action moves one call between the places (`SubmitMoves`, `TakeMoves`,
`FinishMoves`, ...), and the invariant follows action by action.

The second part of the module, on `Bridge`, proves that start-up and calls by name use the runner as it is meant to be
used (`BridgeUsesRunner`), and then `PluginCallsAreAlone`. The invariant behind it says that the
registry changes only before the transport is started, that from `BuiltinsRegistered` on a name is a plugin's
exactly when it is registered and not among the built-in ones, and hence that every call of
a plugin's tool is in the serial pool; `RunnerInv` says that this pool runs one call at a time.

The first part of `Reading_proofs`, on `Framing`, proves `NoLineWaits` and `FramingImplementsLines`. The invariant is that the
buffer is the part of the stream behind the last line handled, up to what was received. The step that
matters is `HandleLine`: the first newline of the buffer is the first one in the
stream behind the handled part, which makes it a step of `ByteLines`; all others stutter.

Its second part, on `Demarshal`, proves `RepliesAreKept` for replies of any size. The invariant says where
every iterator on the way from the current container to the root stands, and that the elements met are exactly those
before the current one that are not behind an unreadable one; `consumed` is false only
while the loop that met such an element is being left.

`Server_proofs` first proves that every step of the server is a step of the runner
(`ServerUsesRunner`), which brings in all of the above without a second proof. On top of it
`SessionInv`, together with `RunnerInv`, gives each safety invariant of the server; it needs
`FlagOwner`, because what `finish()` frees under an id must be the call that ended, and the
link between `broken`, `closing` and `reading` (`LinkDown`). The action properties
`OwnResponse` and `NeverForgotten` follow from the invariant, and `ServerImplementsContract`
shows action by action that a step of the server is a step of `ResponseContract` or a stutter.

`GlobMatch_proofs` proves `GlobMatchIsCorrect` for every pattern and text. The reference
definition cuts the text into one piece per character of the pattern; a cut is a
function of positions. The invariant keeps a cut of what was read (soundness) and, for
completeness, says that if a full cut exists at all then one exists that continues from
where the loop stands, or from where the last star would resume: that only the last star
needs to be tried again is what `StarStretches` and `Mismatch` show.

`DBusCall_proofs` rests on `StrictestReading`: a call allowed with an unknown interface is
allowed with each interface, in every policy. With the invariant that what is sent was
judged either with its interface or with none, it gives `CallsAreAllowed` whatever services
declare in between. `RefusedAreNotReached` needs that the owners seen are still those of the
bus while nothing moved, and that every literal rule that could refuse was looked up. The
property is conditional on that: `sent.stable` is false once a name has moved or the
bus daemon gave no answer since the first look-up, and then the code promises nothing.
`AuditsTellAll` speaks of every call that was judged, those that fail or time out before
they are sent included: `decision` keeps what the policy decided beside the audit, and the
invariant adds that there is none before the judgement (`Places`). The rest is in the
invariant as it stands: `RefusedAreUntouched`, and `CallsHangOnce`, because a timed-out
introspection ends the call.

`IntegerArguments_proofs` proves, for all widths, that reading into sign and magnitude is
exact (`ParsedIsMeant`), that the range check on them is the range of the type
(`RangeIsExact`), and that the way through unsigned and signed C++ integers gives
the integer back (`SignedValueExact`, `VariantIsExact`): `CoerceIsExact`. With it
`IntegersAreSentAsMeant`, `IntegersAreRefusedRightly` and `EchoesAreExact` give the
properties of the run.

`Parsing_proofs` is about texts of any length. Since the library's induction theorems cannot
be instantiated here, it first derives what it needs from finite sets: a set of naturals
has a least element (`LeastElement`), hence what holds of an element whenever it holds of
all of lower rank holds of all (`RankInduction`), and a recursion that only looks at lower
ranks has a solution (`RecursionExists`). This gives the recursive functions of the models
their defining equations. Four theorems follow.

- `RulesAreReadAsWritten`: the last ':' and the last '.' are the only places where a text
  can be cut as a rule (`CutFacts`), and `configure` keeps its patterns unless all parse.
- `ResolutionIsAsDeclared`, for documents of any length: the invariant `DocInv` relates the
  reader to both scanners. The open elements are nested as tokens name them; `nodeDepth` counts
  the open nodes; the current interface is that of the innermost open element as long as no child
  node is open; the candidates describe the declarations already ended, each once, and
  `current` the one that is open. Each kind of token is one case.
- `SignaturesAreSplitByGrammar`, for every signature and all limits: every scan ends behind
  its start (`ScansGetAhead`), so the scanner and the grammar solve their equations
  (`ScanIs`, `GrammarIs`). By induction from the end of the signature, the text between a
  place and another is a type (or fields and a brace) of the grammar exactly when the scan from the
  first ends at the second (`AllDecided`): since a type has one end only, the scanner
  need not try another. The loop of `splitTypes` keeps the types it has found next to
  a rest that is in the grammar exactly when the signature is (`SplitsInvariant`).

- `DepthsAreNestings`, for every single complete type: the depth that is scanned is the most
  containers open at once. An array is around a position when its type covers it, so first a
  type has one end, whatever the limits (`TypesEndOnce`). Then, by induction along the scan
  (`AllNest`), a type closes what it opens, its arrays end in it, and the containers open at
  its characters (`HeightIn`) are at most as many as the scan says, and somewhere as many
  (`TypeNests`, `FieldsNest`). The step is one lemma for each kind of type: counts of positions
  are split where its parts begin (`HeightApart`).

A part of the module is also what `Coercer_proofs` needs of signatures: wider limits take
nothing away from the grammar (`GrammarGrows`), a part of a signature that is scanned as a
type is a single complete type of the same depth by itself (`ScannedPart`, since
texts that read alike are scanned alike, `ScansAlike`), and the depth of a
complete type stays within the two limits together (`DepthBounded`).

`Coercer_proofs` proves the four properties of `Coercer` for arguments of any nesting, any
declared types and any limits. The invariant `CoercerInv` says that what was sent was
made, by pass 2 or by the natural mapping, of an argument that pass 1, or `naturalDepth`, had
found fine; that what came back is what was sent as a client reads it; and that an argument refused as too deep
got that verdict. The properties do not follow from the actions but from what the recursive functions compute, and
that is shown by induction along their ranks (`RankInduction`): a value is larger than its items. Since JSON values and D-Bus values
come in levels, the same induction gives that each function stays in its set (`Demarshall` reads a
D-Bus value of level n as a JSON value of level n at most).

- `SentIsWrittenAsDeclared` and `SentNestsWithinLimit`: one lemma for each kind of type
  says what verdict pass 1 gives in terms of the items (`MapChecked`, `StructChecked`, ...) and one
  what pass 2 makes of them (`MapBuilt`, `StructBuilt`, ...); a value that is fine at
  depth d is then well typed, with no part deeper than the limit (`ValueFits`, `HeldFits`,
  `NaturalFits`). The lemma for a type assumes that d and the depth of the type stay within the
  limit together, as they do at the root and as `checkVariant` makes sure of for a
  declared type: pass 1 does not count the items of a list of strings, and only the depth of the type covers them.
- `RefusalsAreRight`: the other direction, with what a type declares and the value
  leaves empty counted (`ValueDeep`, `VariantDeep`, `NaturalDeep`). A declared type is refused by
  its own depth before its value is looked at.
- `EchoesAreReusable`: what a service echoes is read as a value that pass 1 takes for
  the same type, unless it is too deep now, and that pass 2 writes as a value that is read the
  same (`ValueReturns`). Items of a variant lose the type they were declared with, so the induction is over
  two statements at once: a D-Bus value that has no reserved key can be put in a variant
  (`EchoesFree`), and one built for a type can be written for that type.

The assumptions are those on the constants, named in the module that declares them:
`ConstantsAssumption` (at least one thread, a number of calls), `MaxLinesAssumption`,
`StartupAssumption`, `StreamsAssumption`, `ChunkAssumption`, `RepliesAssumption` (replies
are trees that D-Bus allows), `GlobAssumption`, `NamesAssumption`, `CallAssumption`, `IntegersAssumption` (the widths
grow, and 2^53 lies between those of 32 and 64 bits), `SignaturesAssumption` (the basic types are
none of the characters of containers; the limits are naturals) `IntrospectionAssumption`
(the fields of the records, the directions, and a null name that is none of
them) and `CoercerAssumption` (the limits on the depth of types leave room for an `a{sv}`, and
together are no greater than that of a message: 32 and 32 to 64 in the code); TLC evaluates each in a run.

The type invariants (`TypeOK`, `RunnerTypeOK`) are proved and not checked by a run.

Every invariant and action property of the runs that pass is proved. Only model-checked:

- liveness under fairness (`BuiltinCallsSettle`, the `Terminates` of `Server`, `GlobMatch`
  and `Demarshal`, `EveryCallSettles`, `EveryLineHandled`, `Ends`), which the prover does not
  reason about.

## 6. Findings

`server_one_response` refutes "A request whose id is still in flight is ignored"
(`README.md`, and the comment at `src/mcp/server.cpp:142`): a message with a valid id whose
`method` is absent or empty is answered with error -32600 under its id before the id is
looked up, so a client sees a response under the id of a call that is still running.
`OwnResponse` states what does hold: every response to a well-formed request.

`dbus_call_judged` refutes "what is checked is what is sent"
(`src/tools/dbustools.cpp:302`) as to the interface: when the first introspection leaves it
unknown and the second names one, the message carries an interface that was judged and
audited as unknown. The decision stands all the same, as `ReachedIsAllowed` shows: the
unknown interface was given the strictest reading.

One limit to know of: the JSON parser rounds a number just below -2^63 to the double -2^63,
which fits in int64, so such a number is sent as INT64_MIN instead of being refused. The
rounding is the parser's, hence external: `SentAsMeant` speaks of the number as it was read
(`Read`), and exactly of strings.

Two sentences on introspection data are looser than the code, without harm:
`src/dbus/interfaceresolver.h:15` explains `Ambiguous` as "no interface given and several
interfaces declare it", while two methods of one name within one interface are ambiguous
too, with or without an interface given. `ResolvesAsDeclared` states what holds.

## 7. Not modelled, and why

- JSON text and its parsing, and the wording of messages: library code and layout.
- `negotiateProtocolVersion` and the builders of `src/mcp/jsonrpc.cpp`: pure functions of one
  line or two, without a case a unit test would miss.
- `dbus_list_services`, `dbus_introspect` (with `listServices`, `introspect` of the bridge) and
  `desktop_notify`: they read their arguments, make one blocking request and keep no state. `registerService` is one call whose failure
  is only logged.
- Byte arrays, object paths and doubles in `TypeCoercer`: conversions of leaves that nest
  nothing; the walk around them is in `Coercer`.
- The skill emitter: a text that is printed before the program exits.
- The entries of the built-in list: `CallPolicy` and `DBusCall` take any patterns.

Work that could follow: the contract of a call, `DBusCall` against an abstract "judged, then
sent or refused" specification.
