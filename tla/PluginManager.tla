--------------------------- MODULE PluginManager ----------------------------
(***************************************************************************)
(* Plugins and their hooks (plugin.py, PluginManager).  A hook dispatch    *)
(* iterates the live list of plugins by position, and the plugin that is   *)
(* called may itself register, unregister, raise, or end the pipeline by   *)
(* returning None: what a callback does is a step of its own in here.      *)
(* A registration is numbered, so that a plugin that comes back is told    *)
(* from the one that left.                                                 *)
(***************************************************************************)
EXTENDS Integers, SequencesExt

CONSTANTS
  PluginNames,
  MaxInstalls,   \* bound: calls of register that succeed
  MaxDispatches  \* bound: hooks run

ASSUME PluginAssumption == {MaxInstalls, MaxDispatches} \subseteq Nat

VARIABLES
  plugins,     \* _plugins: the registrations, in order
  byName,      \* _plugins_by_name: name -> registration, 0 for none
  registrations, \* registrations so far
  hook,        \* the dispatch that runs: its kind, position, the message, who ran
  dispatches   \* dispatches so far

pluginVars == <<plugins, byName, registrations, hook, dispatches>>

NoHook ==
  [kind |-> "none", at |-> 0, here |-> FALSE, alive |-> TRUE, ran |-> <<>>,
   began |-> {}, removed |-> FALSE]

-----------------------------------------------------------------------------
PluginInit ==
  /\ plugins = <<>>
  /\ byName = [n \in PluginNames |-> 0]
  /\ registrations = 0
  /\ hook = NoHook
  /\ dispatches = 0

\* register: a name that is taken raises.
RegisterPlugin(n) ==
  /\ byName[n] = 0 /\ registrations < MaxInstalls
  /\ registrations' = registrations + 1
  /\ plugins' = Append(plugins, registrations')
  /\ byName' = [byName EXCEPT ![n] = registrations']
  /\ UNCHANGED <<hook, dispatches>>

\* unregister: on_unload comes last, so that it may raise and nothing is left.
UnregisterPlugin(n) ==
  /\ byName[n] # 0
  /\ byName' = [byName EXCEPT ![n] = 0]
  /\ \E i \in DOMAIN plugins : plugins[i] = byName[n] /\ plugins' = RemoveAt(plugins, i)
  /\ hook' = IF hook = NoHook THEN hook ELSE [hook EXCEPT !.removed = TRUE]
  /\ UNCHANGED <<registrations, dispatches>>

\* run_hook, in one of its three ways, or install, which calls on_load.
RunHook(kind) ==
  /\ hook = NoHook /\ dispatches < MaxDispatches
  /\ dispatches' = dispatches + 1
  /\ hook' = [NoHook EXCEPT !.kind = kind, !.began = Range(plugins)]
  /\ UNCHANGED <<plugins, byName, registrations>>

\* The iterator moves on to the next position and calls who is there now.
Call ==
  /\ hook.kind # "none" /\ ~hook.here /\ hook.alive
  /\ hook.at < Len(plugins)
  /\ hook' = [hook EXCEPT !.at = @ + 1, !.here = TRUE, !.ran = Append(@, plugins[hook.at + 1])]
  /\ UNCHANGED <<plugins, byName, registrations, dispatches>>

\* Mutant: the position moves on when a call returns, too.
CallReturnsOn ==
  /\ hook.here
  /\ \E alive \in {TRUE, hook.kind # "pipeline"} :
       hook' = [hook EXCEPT !.here = FALSE, !.alive = alive, !.at = @ + 1]
  /\ UNCHANGED <<plugins, byName, registrations, dispatches>>

\* The callback returns; a pipeline hook may return None.
CallReturns ==
  /\ hook.here
  /\ \E alive \in {TRUE, hook.kind # "pipeline"} :
       hook' = [hook EXCEPT !.here = FALSE, !.alive = alive]
  /\ UNCHANGED <<plugins, byName, registrations, dispatches>>

\* It raises: nothing catches it, the plugins behind it are not called.
CallRaises ==
  /\ hook.here
  /\ hook' = NoHook
  /\ UNCHANGED <<plugins, byName, registrations, dispatches>>

\* The list is used up, or the message is None.
DispatchEnds ==
  /\ hook.kind # "none" /\ ~hook.here
  /\ ~hook.alive \/ hook.at >= Len(plugins)
  /\ hook' = NoHook
  /\ UNCHANGED <<plugins, byName, registrations, dispatches>>

PluginNext ==
  \/ \E n \in PluginNames : RegisterPlugin(n) \/ UnregisterPlugin(n)
  \/ \E kind \in {"pipeline", "broadcast", "install"} : RunHook(kind)
  \/ Call \/ CallReturns \/ CallRaises \/ DispatchEnds

PluginSpec == PluginInit /\ [][PluginNext]_pluginVars

-----------------------------------------------------------------------------

(* A dispatch that no callback ended early has called every plugin that    *)
(* was there when it began, unless one was unregistered meanwhile: then    *)
(* the one behind it may be skipped, since the list closes up.             *)
NobodySkipped ==
  [][DispatchEnds /\ hook.alive /\ ~hook.removed => hook.began \subseteq Range(hook.ran)]_pluginVars
=============================================================================
