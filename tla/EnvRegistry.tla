----------------------------- MODULE EnvRegistry ----------------------------
(***************************************************************************)
(* The process-wide registry of open environments (env.cpp): the threads   *)
(* of a process that open the same path share one MDBX_env, and whoever    *)
(* closes it last closes it for good.  envsLock makes open and closeEnv    *)
(* atomic.  A wrapper is opened once, as index.js does; when its thread    *)
(* exits, its cleanup hook runs, if it has one (a thread with several      *)
(* wrappers runs their hooks one after the other).                         *)
(***************************************************************************)
EXTENDS Naturals, Sequences, FiniteSets, SequencesExt

CONSTANTS
  Wrappers,         \* the EnvWrap objects
  Paths,
  OpenMayFail       \* TRUE: a setting is refused, or mdbx_env_open fails

ASSUME RegistryAssumption == IsFiniteSet(Wrappers) /\ OpenMayFail \in BOOLEAN

VARIABLES
  envs,             \* the registry: a sequence of [path, env, count]
  envsLock,         \* TRUE: a call returned without unlocking envsLock
  handle,           \* EnvWrap::env, 0 for nullptr
  hooks,            \* wrappers with an environment cleanup hook
  alive,            \* wrappers whose thread runs
  constructed,      \* wrappers that exist
  mdbx              \* history: state of every environment created so far
vars == <<envs, envsLock, handle, hooks, alive, constructed, mdbx>>

Envs == 1..Cardinality(Wrappers)
Created == DOMAIN mdbx
EnvStates == {"created", "open", "closed"}

Init ==
  /\ envs = <<>> /\ envsLock = FALSE
  /\ handle = [w \in Wrappers |-> 0]
  /\ hooks = {} /\ alive = Wrappers /\ constructed = {}
  /\ mdbx = <<>>

(* new EnvWrap: mdbx_env_create.                                            *)
Construct(w) ==
  /\ w \in alive \ constructed
  /\ mdbx' = Append(mdbx, "created")
  /\ handle' = [handle EXCEPT ![w] = Len(mdbx')]
  /\ constructed' = constructed \cup {w}
  /\ UNCHANGED <<envs, envsLock, hooks, alive>>

Unopened(w) == w \in alive /\ handle[w] # 0 /\ mdbx[handle[w]] = "created"
Entries(p) == {i \in DOMAIN envs : envs[i].path = p}
EntriesOf(e) == {i \in DOMAIN envs : envs[i].env = e}
First(is) == CHOOSE i \in is : \A j \in is : i <= j

(* open, path found: the wrapper takes the registered environment instead   *)
(* of its own.  The loop runs over copies, so the count that is incremented *)
(* is lost with the copy.                                                   *)
OpenShared(w, p) ==
  /\ Unopened(w) /\ ~envsLock
  /\ Entries(p) # {}
  /\ handle' = [handle EXCEPT ![w] = envs[First(Entries(p))].env]
  /\ mdbx' = [mdbx EXCEPT ![handle[w]] = "closed"]
  /\ UNCHANGED <<envs, envsLock, hooks, alive, constructed>>

(* open, path not found: this wrapper opens it, registers it and gets the   *)
(* cleanup hook.                                                            *)
OpenFirst(w, p) ==
  /\ Unopened(w) /\ ~envsLock
  /\ Entries(p) = {}
  /\ mdbx' = [mdbx EXCEPT ![handle[w]] = "open"]
  /\ envs' = Append(envs, [path |-> p, env |-> handle[w], count |-> 1])
  /\ hooks' = hooks \cup {w}
  /\ UNCHANGED <<envsLock, handle, alive, constructed>>

(* open, and mdbx_env_open returns an error.                                *)
OpenFails(w, p) ==
  /\ Unopened(w) /\ ~envsLock /\ OpenMayFail
  /\ Entries(p) = {}
  /\ mdbx' = [mdbx EXCEPT ![handle[w]] = "closed"]
  /\ handle' = [handle EXCEPT ![w] = 0]
  /\ UNCHANGED <<envs, envsLock, hooks, alive, constructed>>

(* open, and mdbx_env_set_maxreaders refuses the option: this error path    *)
(* returns with envsLock locked.                                            *)
MaxReadersFails(w, p) ==
  /\ Unopened(w) /\ ~envsLock /\ OpenMayFail
  /\ Entries(p) = {}
  /\ envsLock' = TRUE
  /\ UNCHANGED <<envs, handle, hooks, alive, constructed, mdbx>>

(* closeEnv: one user less; the entry goes with the last one.               *)
ClosesAnyway(w) ==                                                    \* mutant
  /\ ~envsLock
  /\ mdbx' = IF handle[w] # 0 THEN [mdbx EXCEPT ![handle[w]] = "closed"] ELSE mdbx
  /\ handle' = [handle EXCEPT ![w] = 0]
  /\ UNCHANGED envs
ClosesLate(w) ==                                                      \* mutant
  /\ ~envsLock
  /\ handle' = [handle EXCEPT ![w] = 0]
  /\ UNCHANGED mdbx
  /\ envs' = [i \in DOMAIN envs |-> IF envs[i].env = handle[w]
                                    THEN [envs[i] EXCEPT !.count = 0] ELSE envs[i]]
CloseEnv(w) ==
  LET i == First(EntriesOf(handle[w])) IN
  /\ ~envsLock
  /\ handle' = [handle EXCEPT ![w] = 0]
  /\ IF EntriesOf(handle[w]) = {} THEN UNCHANGED <<envs, mdbx>>
     ELSE IF envs[i].count > 1
     THEN envs' = [envs EXCEPT ![i].count = @ - 1] /\ UNCHANGED mdbx
     ELSE /\ envs' = RemoveAt(envs, i)
          /\ mdbx' = [mdbx EXCEPT ![handle[w]] = "closed"]

(* env.close, which refuses a wrapper that is closed.                       *)
Close(w) ==
  /\ w \in alive /\ handle[w] # 0
  /\ CloseEnv(w)
  /\ UNCHANGED <<envsLock, hooks, alive, constructed>>

(* The thread exits: its cleanup hook closes what it opened first.          *)
Exit(w) ==
  /\ w \in alive
  /\ alive' = alive \ {w}
  /\ IF w \in hooks THEN CloseEnv(w) ELSE UNCHANGED <<envs, handle, mdbx>>
  /\ UNCHANGED <<envsLock, hooks, constructed>>

Next == \E w \in Wrappers :
          \/ Construct(w) \/ Close(w) \/ Exit(w)
          \/ \E p \in Paths : \/ OpenShared(w, p) \/ OpenFirst(w, p)
                              \/ OpenFails(w, p) \/ MaxReadersFails(w, p)

Spec == Init /\ [][Next]_vars

-----------------------------------------------------------------------------
(* Every variable holds a value of its kind; an entry has a user.           *)
Entry == [path : Paths, env : Envs, count : Nat \ {0}]
TypeOK ==
  /\ envs \in Seq(Entry) /\ envsLock \in BOOLEAN
  /\ handle \in [Wrappers -> {0} \cup Envs]
  /\ hooks \subseteq constructed /\ alive \subseteq Wrappers
  /\ constructed \subseteq Wrappers
  /\ mdbx \in Seq(EnvStates) /\ Len(mdbx) = Cardinality(constructed)

(* What the registry hands out is open, and a path that is open is handed   *)
(* out from one entry: no two environments of a process ever have the same  *)
(* file open, which mdbx forbids.  (open, closeEnv.)                        *)
RegisteredAreOpen ==
  /\ \A i \in DOMAIN envs : envs[i].env \in Created /\ mdbx[envs[i].env] = "open"
  /\ \A i, j \in DOMAIN envs :
       envs[i].path = envs[j].path \/ envs[i].env = envs[j].env => i = j
  /\ \A e \in Created : mdbx[e] = "open" => EntriesOf(e) # {}

(* When every thread is gone, no environment is left open, although only    *)
(* the thread that opened a path first has a cleanup hook.  (cleanup.)      *)
NothingLeftOpen == alive = {} => \A e \in Created : mdbx[e] # "open"

(* mdbx_env_close is called once for an environment, and a closed one is    *)
(* never handed out again.  (open, closeEnv.)                               *)
ClosedForGood ==
  [][\A e \in Created : mdbx[e] = "closed" =>
        /\ mdbx'[e] = "closed"
        /\ \A w \in Wrappers : handle'[w] = e => handle[w] = e]_vars

(* An environment is closed when the last thread that uses it closes it.    *)
(* (closeEnv: "last thread using it, we can really close it now".)          *)
LastUserCloses ==
  \A w \in alive : handle[w] # 0 => mdbx[handle[w]] # "closed"
=============================================================================
