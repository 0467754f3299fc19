------------------------------- MODULE Bridge -------------------------------
(***************************************************************************)
(* Start-up and the runner together: a tools/call names a tool, the        *)
(* registry tells which tool that is, and m_serializedTools which of the   *)
(* two pools runs it (Server::handleToolsCall()).                          *)
(***************************************************************************)
EXTENDS ToolRunner, Startup

VARIABLE called    \* of each call: the name of the tool

bridgeVars == <<runnerVars, startupVars, called>>

BridgeInit == RunnerInit /\ StartupInit /\ called = <<>>

\* The third argument of submit(), and the pool it picks.
PoolOf(name) == IF name \in serialized THEN "serialPool" ELSE "pool"

\* tools/call of a registered tool.
Call(i, name) ==
    /\ stage = "serving"
    /\ registry[name] # Nobody
    /\ Submit(i, PoolOf(name))
    /\ called' = Append(called, name)
    /\ UNCHANGED startupVars

\* cancel(), finish() and the workers. The other requests, answered on the main thread
\* between these steps, leave the runner and the registry as they are; so does
\* tools/list, whose toJson() asks every tool for its name, description and schema.
Run ==
    /\ \/ \E i \in Ids : Cancel(i)
       \/ Finish
       \/ Worker
    /\ UNCHANGED <<startupVars, called>>

BridgeNext ==
    \/ StartupNext /\ UNCHANGED <<runnerVars, called>>
    \/ \E i \in Ids, name \in Names : Call(i, name)
    \/ Run

BridgeSpec == BridgeInit /\ [][BridgeNext]_bridgeVars

\* Who brought the tool that call c runs.
Owner(c) == registry[called[c]]

\* Built-in tools return, their bus calls being bounded by a timeout; the tools of
\* plugins carry no such promise.
BridgeFairSpec ==
    /\ BridgeSpec
    /\ RunnerFairness
    /\ \A c \in 1 .. MaxCalls :
            WF_runnerVars(Complete(c) /\ Owner(c) = "builtin")

-----------------------------------------------------------------------------
(* Properties. *)

\* Plugins' tools are called "one at a time (they need not be reentrant)": no two threads
\* are in call() of tools of plugins at the same time, whichever plugins bring which
\* tools, under whatever names. Nothing is said of name(), description() and
\* inputSchema(), which tools/list runs on the main thread, beside a call() perhaps.
PluginCallsAlone ==
    \A c, d \in running : Owner(c) = "plugin" /\ Owner(d) = "plugin" => c = d
=============================================================================
