------------------------------- MODULE Startup -------------------------------
(***************************************************************************)
(* main() before the event loop (src/main.cpp): options, plugins, the      *)
(* registry of tools, and the set of the tools that Server serialises.     *)
(* Whatever is wrong with the options or a plugin ends the program before  *)
(* a byte of stdin is read.                                                *)
(*                                                                         *)
(* A tool is its name.  The backends of a plugin are the sequence of tools *)
(* they register; which plugins are given, and what they bring, is chosen  *)
(* freely.                                                                 *)
(***************************************************************************)
EXTENDS Naturals, Sequences

CONSTANTS
    Names,            \* names of tools
    Nobody,           \* the owner of a name that is not registered
    BuiltinNames,     \* what builtinBackends() register, in order
    MaxPluginTools    \* bound: the tools all plugins bring together

ASSUME StartupAssumption ==
    /\ BuiltinNames \in Seq(Names)
    /\ MaxPluginTools \in Nat
    /\ Nobody \notin {"builtin", "plugin"}

VARIABLES
    stage,         \* how far main() is
    builtins,      \* the tools the built-in backends have yet to register
    plugins,       \* those the backends of plugins have yet to register
    registry,      \* m_index: who brought the tool of each name
    builtinTools,  \* the names registered before the plugins came
    serialized     \* pluginTools, which become m_serializedTools

startupVars == <<stage, builtins, plugins, registry, builtinTools, serialized>>

StartupInit ==
    /\ stage = "options"
    /\ builtins = BuiltinNames
    /\ plugins = <<>>
    /\ registry = [n \in Names |-> Nobody]
    /\ builtinTools = {}
    /\ serialized = {}

\* policy.configure() and --call-timeout-ms: main() returns 2 unless both are valid.
ReadOptions ==
    /\ stage = "options"
    /\ stage' \in {"plugins", "stopped"}
    /\ UNCHANGED <<builtins, plugins, registry, builtinTools, serialized>>

\* PluginLoader::load() of the next --plugin: its backends come after the others.
LoadPlugin(tools) ==
    /\ stage = "plugins"
    /\ plugins' = plugins \o tools
    /\ UNCHANGED <<stage, builtins, registry, builtinTools, serialized>>

\* A file that is missing, is no library or has another IID: main() returns 2.
PluginFails ==
    /\ stage = "plugins"
    /\ stage' = "stopped"
    /\ UNCHANGED <<builtins, plugins, registry, builtinTools, serialized>>

PluginsLoaded ==
    /\ stage = "plugins"
    /\ stage' = "register"
    /\ UNCHANGED <<builtins, plugins, registry, builtinTools, serialized>>

\* toolNames().
ToolNames == {n \in Names : registry[n] # Nobody}

\* Mutant of Add: the last tool of a name replaces the first.
AddLast(name, owner) == registry' = [registry EXCEPT ![name] = owner]

\* ToolRegistry::add(): a second tool of the same name is refused.
Add(name, owner) ==
    registry' = [registry EXCEPT ![name] = IF @ = Nobody THEN owner ELSE @]

RegisterBuiltin ==
    /\ stage = "register" /\ builtins # <<>>
    /\ Add(Head(builtins), "builtin")
    /\ builtins' = Tail(builtins)
    /\ UNCHANGED <<stage, plugins, builtinTools, serialized>>

\* The names so far are those of built-in tools.
BuiltinsRegistered ==
    /\ stage = "register" /\ builtins = <<>>
    /\ stage' = "registerPlugins"
    /\ builtinTools' = ToolNames
    /\ UNCHANGED <<builtins, plugins, registry, serialized>>

RegisterPlugin ==
    /\ stage = "registerPlugins" /\ plugins # <<>>
    /\ Add(Head(plugins), "plugin")
    /\ plugins' = Tail(plugins)
    /\ UNCHANGED <<stage, builtins, builtinTools, serialized>>

\* The names that came with the plugins are handed to Server and the transport is
\* started; with --emit-skill main() returns 0 instead.
PluginsRegistered ==
    /\ stage = "registerPlugins" /\ plugins = <<>>
    /\ stage' \in {"serving", "stopped"}
    /\ serialized' = ToolNames \ builtinTools
    /\ UNCHANGED <<builtins, plugins, registry, builtinTools>>

StartupNext ==
    \/ ReadOptions
    \/ \E n \in 1 .. MaxPluginTools - Len(plugins) :
            \E tools \in [1 .. n -> Names] : LoadPlugin(tools)
    \/ PluginFails \/ PluginsLoaded
    \/ RegisterBuiltin \/ BuiltinsRegistered
    \/ RegisterPlugin \/ PluginsRegistered
=============================================================================
