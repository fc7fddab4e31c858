------------------------- MODULE MCRegistryAndCache --------------------------
(* The registry of environments and the caching store in one instance, side *)
(* by side: they share no state, so a behaviour is one of one of them.      *)
EXTENDS MCEnvRegistry, MCCachingStore

VARIABLE component

bothVars == <<component, vars, cachingVars>>

BothInit == component \in {"registry", "cache"} /\ Init /\ CachingInit

RegistryStep == component = "registry" /\ Next /\ UNCHANGED <<component, cachingVars>>
CacheStep == component = "cache" /\ CachingNext /\ UNCHANGED <<component, vars>>

BothSpec == BothInit /\ [][RegistryStep \/ CacheStep]_bothVars

BothSymmetry == Symmetry \cup KeySymmetry
=============================================================================
