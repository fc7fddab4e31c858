-------------------------- MODULE EnvRegistryProofs --------------------------
(***************************************************************************)
(* Proofs about EnvRegistry, for any number of wrappers and paths.  The    *)
(* inductive invariant adds to the types that a handle refers to an        *)
(* environment that was created, and that every registered environment has *)
(* an owner: a running thread that opened it and will close it when it     *)
(* exits, if nobody does before.                                           *)
(***************************************************************************)
EXTENDS EnvRegistry, FiniteSetTheorems, SequenceTheorems, TLAPS

USE RegistryAssumption

(* The handle of a wrapper refers to an environment the process created.    *)
HandlesExist ==
  \A w \in Wrappers : handle[w] # 0 => w \in constructed /\ handle[w] \in Created

(* A registered environment is held by a running thread with a cleanup      *)
(* hook, and the registry never counts more than one user of it.            *)
Owned == \A i \in DOMAIN envs :
           /\ envs[i].count = 1
           /\ \E w \in hooks \cap alive : handle[w] = envs[i].env

RegInv == TypeOK /\ HandlesExist /\ Owned /\ RegisteredAreOpen

-----------------------------------------------------------------------------
(* What open and closeEnv do to a sequence.                                 *)

(* The first of the indices, when there is only one.                        *)
LEMMA FirstOfOne ==
  ASSUME NEW is, is \subseteq Nat, NEW i \in is, \A j \in is : j = i
  PROVE  First(is) = i
<1>1. \E k \in is : \A j \in is : k <= j
  <2>1. \A j \in is : i <= j
    OBVIOUS
  <2> QED BY <2>1
<1>2. First(is) \in is
  BY <1>1, Zenon DEF First
<1> QED BY <1>2

(* Appending keeps what was there.                                          *)
LEMMA Appended ==
  ASSUME NEW S, NEW s \in Seq(S), NEW x \in S
  PROVE  /\ Append(s, x) \in Seq(S)
         /\ Len(Append(s, x)) = Len(s) + 1
         /\ DOMAIN Append(s, x) = DOMAIN s \cup {Len(s) + 1}
         /\ Append(s, x)[Len(s) + 1] = x
         /\ \A i \in DOMAIN s : Append(s, x)[i] = s[i]
  OBVIOUS

(* RemoveAt keeps every element but one, and their order.                   *)
LEMMA Removed ==
  ASSUME NEW S, NEW s \in Seq(S), NEW k \in DOMAIN s
  PROVE  /\ RemoveAt(s, k) \in Seq(S)
         /\ \A i \in DOMAIN RemoveAt(s, k) :
              /\ i \in Nat
              /\ i < k => i \in DOMAIN s /\ RemoveAt(s, k)[i] = s[i]
              /\ ~(i < k) => i + 1 \in DOMAIN s /\ RemoveAt(s, k)[i] = s[i + 1]
         /\ \A j \in DOMAIN s :
              /\ j < k => j \in DOMAIN RemoveAt(s, k) /\ RemoveAt(s, k)[j] = s[j]
              /\ k < j => j - 1 \in DOMAIN RemoveAt(s, k) /\ RemoveAt(s, k)[j - 1] = s[j]
<1> DEFINE a == SubSeq(s, 1, k - 1)
           b == SubSeq(s, k + 1, Len(s))
<1>1. /\ a \in Seq(S) /\ Len(a) = k - 1
      /\ \A i \in 1..k - 1 : a[i] = s[i]
  OBVIOUS
<1>2. /\ b \in Seq(S) /\ Len(b) = Len(s) - k
      /\ \A i \in 1..Len(s) - k : b[i] = s[k + i]
  OBVIOUS
<1>3. RemoveAt(s, k) = a \o b
  BY DEF RemoveAt
<1> HIDE DEF a, b
<1>4. /\ a \o b \in Seq(S) /\ Len(a \o b) = Len(s) - 1
      /\ \A i \in 1..Len(a) + Len(b) :
           (a \o b)[i] = IF i <= Len(a) THEN a[i] ELSE b[i - Len(a)]
  <2>1. k \in 1..Len(s) /\ Len(s) \in Nat
    OBVIOUS
  <2>2. /\ a \o b \in Seq(S) /\ Len(a \o b) = Len(a) + Len(b)
        /\ \A i \in 1..Len(a) + Len(b) :
             (a \o b)[i] = IF i <= Len(a) THEN a[i] ELSE b[i - Len(a)]
    BY ONLY <1>1, <1>2, ConcatProperties
  <2>3. Len(a) + Len(b) = Len(s) - 1
    BY ONLY <1>1, <1>2, <2>1
  <2> QED
    BY ONLY <2>2, <2>3
<1>5. k \in 1..Len(s) /\ Len(s) \in Nat /\ DOMAIN s = 1..Len(s)
  OBVIOUS
<1>6. DOMAIN (a \o b) = 1..Len(s) - 1
  BY <1>4
<1>7. ASSUME NEW i \in 1..Len(s) - 1, i < k PROVE (a \o b)[i] = s[i]
  BY <1>1, <1>2, <1>4, <1>5, <1>7
<1>8. ASSUME NEW i \in 1..Len(s) - 1, ~(i < k) PROVE (a \o b)[i] = s[i + 1]
  <2>1. (a \o b)[i] = b[i - (k - 1)]
    BY <1>1, <1>2, <1>4, <1>5, <1>8
  <2>2. i - (k - 1) \in 1..Len(s) - k /\ k + (i - (k - 1)) = i + 1
    BY <1>5, <1>8
  <2> QED BY <2>1, <2>2, <1>2
<1>9. \A i \in 1..Len(s) - 1 : (i < k => i \in 1..Len(s)) /\ i + 1 \in 1..Len(s)
  BY <1>5
<1>10. ASSUME NEW j \in 1..Len(s)
       PROVE  /\ j < k => j \in 1..Len(s) - 1
              /\ k < j => /\ j - 1 \in 1..Len(s) - 1
                         /\ ~(j - 1 < k) /\ (j - 1) + 1 = j
  BY <1>5
<1>11. \A j \in 1..Len(s) : k < j => (a \o b)[j - 1] = s[j]
  <2> SUFFICES ASSUME NEW j \in 1..Len(s), k < j PROVE (a \o b)[j - 1] = s[j]
    OBVIOUS
  <2>1. (a \o b)[j - 1] = s[(j - 1) + 1]
    BY <1>8, <1>10
  <2> QED BY <2>1, <1>10
<1>12. /\ RemoveAt(s, k) \in Seq(S) /\ DOMAIN RemoveAt(s, k) = 1..Len(s) - 1
       /\ DOMAIN s = 1..Len(s)
  BY <1>3, <1>4, <1>5, <1>6
<1>13. \A i \in 1..Len(s) - 1 :
         /\ i \in Nat
         /\ i < k => i \in 1..Len(s) /\ RemoveAt(s, k)[i] = s[i]
         /\ ~(i < k) => i + 1 \in 1..Len(s) /\ RemoveAt(s, k)[i] = s[i + 1]
  <2>1. \A i \in 1..Len(s) - 1 : i \in Nat
    OBVIOUS
  <2> QED BY <1>3, <1>7, <1>8, <1>9, <2>1
<1>14. \A j \in 1..Len(s) :
         /\ j < k => j \in 1..Len(s) - 1 /\ RemoveAt(s, k)[j] = s[j]
         /\ k < j => j - 1 \in 1..Len(s) - 1 /\ RemoveAt(s, k)[j - 1] = s[j]
  BY <1>3, <1>7, <1>10, <1>11
<1> QED BY <1>12, <1>13, <1>14, Zenon

-----------------------------------------------------------------------------
LEMMA InitRegInv == Init => RegInv
<1> SUFFICES ASSUME Init PROVE RegInv
  OBVIOUS
<1>1. TypeOK
  <2>1. envs \in Seq(Entry) /\ mdbx \in Seq(EnvStates) /\ Len(mdbx) = Cardinality(constructed)
    BY FS_EmptySet DEF Init
  <2>2. envsLock \in BOOLEAN /\ hooks \subseteq constructed /\ constructed \subseteq Wrappers
    BY Zenon DEF Init
  <2>3. handle \in [Wrappers -> {0} \cup Envs] /\ alive \subseteq Wrappers
    BY DEF Init
  <2> QED BY <2>1, <2>2, <2>3 DEF TypeOK
<1>2. HandlesExist
  BY DEF Init, HandlesExist
<1>3. DOMAIN envs = {} /\ DOMAIN mdbx = {}
  BY DEF Init
<1>4. Owned /\ RegisteredAreOpen
  BY <1>3 DEF Owned, RegisteredAreOpen, Created
<1> QED BY <1>1, <1>2, <1>4 DEF RegInv

(* An unopened wrapper's environment exists and is not in the registry.     *)
LEMMA UnopenedFacts ==
  ASSUME RegInv, NEW w \in Wrappers, Unopened(w)
  PROVE  /\ handle[w] \in Created /\ mdbx[handle[w]] = "created"
         /\ \A i \in DOMAIN envs : envs[i].env # handle[w]
  BY DEF RegInv, Unopened, HandlesExist, RegisteredAreOpen

(* The state of one environment changes.                                    *)
LEMMA StateChange ==
  ASSUME TypeOK, NEW e \in Created, NEW st \in EnvStates
  PROVE  LET m == [mdbx EXCEPT ![e] = st] IN
         /\ m \in Seq(EnvStates) /\ Len(m) = Len(mdbx) /\ DOMAIN m = Created
         /\ m[e] = st
         /\ \A d \in Created : d # e => m[d] = mdbx[d]
  BY DEF TypeOK, Created

LEMMA ConstructRegInv ==
  ASSUME RegInv, NEW w \in Wrappers, Construct(w)
  PROVE  RegInv'
<1> USE DEF RegInv
<1>1. /\ mdbx' \in Seq(EnvStates) /\ Len(mdbx') = Len(mdbx) + 1
      /\ Created' = Created \cup {Len(mdbx')}
      /\ mdbx'[Len(mdbx')] = "created"
      /\ \A e \in Created : mdbx'[e] = mdbx[e]
  BY Appended DEF Construct, TypeOK, EnvStates, Created
<1>2. /\ IsFiniteSet(constructed) /\ IsFiniteSet(constructed')
      /\ Cardinality(constructed') = Cardinality(constructed) + 1
      /\ Cardinality(constructed') <= Cardinality(Wrappers)
      /\ Cardinality(constructed) \in Nat /\ Cardinality(Wrappers) \in Nat
  BY FS_AddElement, FS_Subset, FS_CardinalityType DEF Construct, TypeOK
<1>3. TypeOK'
  BY <1>1, <1>2 DEF TypeOK, Construct, Envs, Entry
<1>4. HandlesExist'
  BY <1>1 DEF TypeOK, HandlesExist, Construct
<1>5. RegisteredAreOpen'
  BY <1>1 DEF RegisteredAreOpen, Construct, EntriesOf, TypeOK
<1>6. Owned'
  <2>1. \A e \in Created : handle[w] # e \/ w \notin hooks
    BY DEF Construct, TypeOK
  <2> QED BY <2>1 DEF Owned, Construct, TypeOK, RegisteredAreOpen
<1> QED BY <1>3, <1>4, <1>5, <1>6

LEMMA OpenSharedRegInv ==
  ASSUME RegInv, NEW w \in Wrappers, NEW p \in Paths, OpenShared(w, p)
  PROVE  RegInv'
<1> USE DEF RegInv
<1> DEFINE entry == envs[First(Entries(p))]
<1>1. First(Entries(p)) \in DOMAIN envs
  <2>1. PICK i \in Entries(p) : TRUE
    BY DEF OpenShared
  <2>2. \A j \in Entries(p) : j = i
    BY DEF Entries, RegisteredAreOpen
  <2>3. Entries(p) \subseteq Nat
    BY DEF Entries, TypeOK
  <2> QED BY <2>1, <2>2, <2>3, FirstOfOne DEF Entries
<1>2. entry.env \in Created /\ entry.env \in Envs
  <2>1. envs[First(Entries(p))] \in Entry
    BY <1>1 DEF TypeOK
  <2>2. envs[First(Entries(p))].env \in Created
    BY <1>1 DEF RegisteredAreOpen
  <2> QED BY <2>1, <2>2 DEF Entry
<1>3. /\ handle[w] \in Created /\ mdbx[handle[w]] = "created"
      /\ \A i \in DOMAIN envs : envs[i].env # handle[w]
  BY UnopenedFacts DEF OpenShared
<1>4. /\ mdbx' \in Seq(EnvStates) /\ Len(mdbx') = Len(mdbx) /\ Created' = Created
      /\ mdbx'[handle[w]] = "closed"
      /\ \A d \in Created : d # handle[w] => mdbx'[d] = mdbx[d]
  BY <1>3, StateChange, "closed" \in EnvStates DEF OpenShared, EnvStates, Created
<1>5. handle' = [handle EXCEPT ![w] = entry.env]
  BY DEF OpenShared
<1> HIDE DEF entry
<1>6. TypeOK'
  BY <1>2, <1>4, <1>5 DEF TypeOK, OpenShared
<1>7. HandlesExist'
  BY <1>2, <1>4, <1>5 DEF HandlesExist, TypeOK, OpenShared, Unopened
<1>8. RegisteredAreOpen'
  BY <1>3, <1>4 DEF RegisteredAreOpen, OpenShared, EntriesOf
<1>9. Owned'
  BY <1>3, <1>5 DEF Owned, OpenShared, TypeOK
<1> QED BY <1>6, <1>7, <1>8, <1>9

LEMMA OpenFirstRegInv ==
  ASSUME RegInv, NEW w \in Wrappers, NEW p \in Paths, OpenFirst(w, p)
  PROVE  RegInv'
<1> USE DEF RegInv
<1> DEFINE entry == [path |-> p, env |-> handle[w], count |-> 1]
<1>1. /\ handle[w] \in Created /\ mdbx[handle[w]] = "created"
      /\ \A i \in DOMAIN envs : envs[i].env # handle[w]
  BY UnopenedFacts DEF OpenFirst
<1>2. handle[w] \in Envs /\ w \in constructed
  <2>1. handle[w] # 0
    BY DEF OpenFirst, Unopened
  <2> QED BY <2>1 DEF TypeOK, HandlesExist
<1>3. /\ mdbx' \in Seq(EnvStates) /\ Len(mdbx') = Len(mdbx) /\ Created' = Created
      /\ mdbx'[handle[w]] = "open"
      /\ \A d \in Created : d # handle[w] => mdbx'[d] = mdbx[d]
  BY <1>1, StateChange DEF OpenFirst, EnvStates, Created
<1>4. /\ envs' \in Seq(Entry) /\ DOMAIN envs' = DOMAIN envs \cup {Len(envs) + 1}
      /\ envs'[Len(envs) + 1] = entry
      /\ \A i \in DOMAIN envs : envs'[i] = envs[i]
  BY <1>2, Appended DEF OpenFirst, TypeOK, Entry
<1>5. \A i \in DOMAIN envs : envs[i].path # p
  BY DEF OpenFirst, Entries
<1>6. TypeOK'
  BY <1>2, <1>3, <1>4 DEF TypeOK, OpenFirst
<1>7. HandlesExist'
  BY <1>3 DEF HandlesExist, OpenFirst
<1>8. RegisteredAreOpen'
  <2>1. \A i \in DOMAIN envs' : envs'[i].env \in Created' /\ mdbx'[envs'[i].env] = "open"
    BY <1>1, <1>3, <1>4 DEF RegisteredAreOpen
  <2>2. \A i, j \in DOMAIN envs' :
          envs'[i].path = envs'[j].path \/ envs'[i].env = envs'[j].env => i = j
    BY <1>1, <1>4, <1>5 DEF RegisteredAreOpen
  <2>3. \A e \in Created' : mdbx'[e] = "open" => EntriesOf(e)' # {}
    BY <1>1, <1>3, <1>4 DEF RegisteredAreOpen, EntriesOf
  <2> QED BY <2>1, <2>2, <2>3 DEF RegisteredAreOpen
<1>9. Owned'
  <2>1. w \in alive /\ hooks' = hooks \cup {w} /\ alive' = alive /\ handle' = handle
    BY DEF OpenFirst, Unopened
  <2> QED BY <1>4, <2>1 DEF Owned
<1> QED BY <1>6, <1>7, <1>8, <1>9

LEMMA OpenFailsRegInv ==
  ASSUME RegInv, NEW w \in Wrappers, NEW p \in Paths, OpenFails(w, p)
  PROVE  RegInv'
<1> USE DEF RegInv
<1>1. /\ handle[w] \in Created /\ mdbx[handle[w]] = "created"
      /\ \A i \in DOMAIN envs : envs[i].env # handle[w]
  BY UnopenedFacts DEF OpenFails
<1>2. /\ mdbx' \in Seq(EnvStates) /\ Len(mdbx') = Len(mdbx) /\ Created' = Created
      /\ mdbx'[handle[w]] = "closed"
      /\ \A d \in Created : d # handle[w] => mdbx'[d] = mdbx[d]
  BY <1>1, StateChange DEF OpenFails, EnvStates, Created
<1>3. TypeOK'
  BY <1>2 DEF TypeOK, OpenFails
<1>4. HandlesExist'
  BY <1>2 DEF HandlesExist, OpenFails, TypeOK
<1>5. RegisteredAreOpen'
  BY <1>1, <1>2 DEF RegisteredAreOpen, OpenFails, EntriesOf
<1>6. Owned'
  BY <1>1 DEF Owned, OpenFails, TypeOK
<1> QED BY <1>3, <1>4, <1>5, <1>6

LEMMA MaxReadersFailsRegInv ==
  ASSUME RegInv, NEW w \in Wrappers, NEW p \in Paths, MaxReadersFails(w, p)
  PROVE  RegInv'
<1>1. UNCHANGED <<envs, handle, hooks, alive, constructed, mdbx>> /\ envsLock' \in BOOLEAN
  BY Zenon DEF MaxReadersFails
<1> QED BY <1>1 DEF RegInv, TypeOK, HandlesExist, Owned, RegisteredAreOpen, Created, EntriesOf


(* closeEnv, on a wrapper whose environment is registered at index i.       *)
LEMMA CloseRegistered ==
  ASSUME RegInv, NEW w \in Wrappers, handle[w] # 0, CloseEnv(w),
         NEW i \in DOMAIN envs, envs[i].env = handle[w]
  PROVE  /\ envs' = RemoveAt(envs, i)
         /\ mdbx' = [mdbx EXCEPT ![handle[w]] = "closed"]
<1>1. \A j \in EntriesOf(handle[w]) : j = i
  BY DEF EntriesOf, RegInv, RegisteredAreOpen
<1>2. i \in EntriesOf(handle[w]) /\ EntriesOf(handle[w]) \subseteq Nat
  BY DEF EntriesOf, RegInv, TypeOK
<1>3. First(EntriesOf(handle[w])) = i
  BY <1>1, <1>2, FirstOfOne
<1>4. envs[i].count = 1
  BY DEF RegInv, Owned
<1> QED BY <1>2, <1>3, <1>4 DEF CloseEnv

(* What is left of the invariant in closeEnv, whoever may then still run.   *)
LEMMA CloseEnvKeeps ==
  ASSUME RegInv, NEW w \in Wrappers, CloseEnv(w), alive' \subseteq alive,
         alive \subseteq alive' \cup {w},
         UNCHANGED <<envsLock, hooks, constructed>>
  PROVE  RegInv'
<1> USE DEF RegInv
<1>1. handle' = [handle EXCEPT ![w] = 0]
  BY DEF CloseEnv
<1>2. CASE EntriesOf(handle[w]) = {}
  <2>1. UNCHANGED <<envs, mdbx>>
    BY <1>2 DEF CloseEnv
  <2>2. TypeOK' /\ HandlesExist' /\ RegisteredAreOpen'
    BY <1>1, <2>1 DEF TypeOK, HandlesExist, RegisteredAreOpen, EntriesOf, Created
  <2>3. Owned'
    BY <1>1, <1>2, <2>1 DEF Owned, EntriesOf, TypeOK
  <2> QED BY <2>2, <2>3
<1>3. CASE EntriesOf(handle[w]) # {}
  <2> DEFINE e == handle[w]
  <2>1. PICK k \in DOMAIN envs : envs[k].env = e
    BY <1>3 DEF EntriesOf
  <2>2. e \in Created /\ e # 0
    BY <2>1 DEF RegisteredAreOpen, Created, TypeOK
  <2>3. envs' = RemoveAt(envs, k) /\ mdbx' = [mdbx EXCEPT ![e] = "closed"]
    BY <2>1, <2>2, CloseRegistered
  <2>4. /\ mdbx' \in Seq(EnvStates) /\ Len(mdbx') = Len(mdbx) /\ Created' = Created
        /\ mdbx'[e] = "closed"
        /\ \A d \in Created : d # e => mdbx'[d] = mdbx[d]
    BY <2>2, <2>3, StateChange DEF EnvStates, Created
  <2>5. /\ envs' \in Seq(Entry)
        /\ \A i \in DOMAIN envs' :
             /\ i \in Nat
             /\ i < k => i \in DOMAIN envs /\ envs'[i] = envs[i]
             /\ ~(i < k) => i + 1 \in DOMAIN envs /\ envs'[i] = envs[i + 1]
        /\ \A j \in DOMAIN envs :
             /\ j < k => j \in DOMAIN envs' /\ envs'[j] = envs[j]
             /\ k < j => j - 1 \in DOMAIN envs' /\ envs'[j - 1] = envs[j]
    BY <2>3, Removed DEF TypeOK
  <2> HIDE DEF e
  <2>6. k \in Nat /\ \A i \in DOMAIN envs : i \in Nat /\ (i = k \/ i < k \/ k < i)
    BY DEF TypeOK
  <2>7. \A j \in DOMAIN envs : j # k => envs[j].env # e
    BY <2>1 DEF RegisteredAreOpen
  <2>8. \A i \in DOMAIN envs' : \E j \in DOMAIN envs : j # k /\ envs'[i] = envs[j]
    BY <2>5, <2>6
  <2>9. \A j \in DOMAIN envs : j # k => \E i \in DOMAIN envs' : envs'[i] = envs[j]
    BY <2>5, <2>6
  <2>10. ASSUME NEW i \in DOMAIN envs', NEW j \in DOMAIN envs',
                envs'[i].path = envs'[j].path \/ envs'[i].env = envs'[j].env
         PROVE  i = j
    <3>1. PICK x \in DOMAIN envs : x = (IF i < k THEN i ELSE i + 1) /\ envs'[i] = envs[x]
      BY <2>5
    <3>2. PICK y \in DOMAIN envs : y = (IF j < k THEN j ELSE j + 1) /\ envs'[j] = envs[y]
      BY <2>5
    <3>3. x = y
      BY <3>1, <3>2, <2>10 DEF RegisteredAreOpen
    <3>4. i \in Nat /\ j \in Nat
      BY <2>5
    <3> QED BY <3>1, <3>2, <3>3, <3>4, <2>6
  <2>11. TypeOK'
    BY <1>1, <2>4, <2>5 DEF TypeOK
  <2>12. HandlesExist'
    BY <1>1, <2>4 DEF HandlesExist, TypeOK
  <2>13. RegisteredAreOpen'
    <3>1. \A i \in DOMAIN envs' : envs'[i].env \in Created' /\ mdbx'[envs'[i].env] = "open"
      BY <2>4, <2>7, <2>8 DEF RegisteredAreOpen
    <3>2. \A d \in Created' : mdbx'[d] = "open" => EntriesOf(d)' # {}
      <4> SUFFICES ASSUME NEW d \in Created, mdbx'[d] = "open" PROVE EntriesOf(d)' # {}
        BY <2>4
      <4>1. d # e /\ mdbx[d] = "open"
        BY <2>2, <2>4
      <4>2. PICK j \in DOMAIN envs : envs[j].env = d
        BY <4>1 DEF RegisteredAreOpen, EntriesOf
      <4>3. j # k
        BY <4>1, <4>2, <2>1
      <4> QED BY <4>2, <4>3, <2>9 DEF EntriesOf
    <3> QED BY <3>1, <3>2, <2>10 DEF RegisteredAreOpen
  <2>14. Owned'
    <3> SUFFICES ASSUME NEW i \in DOMAIN envs'
                 PROVE  /\ envs'[i].count = 1
                        /\ \E v \in hooks' \cap alive' : handle'[v] = envs'[i].env
      BY DEF Owned
    <3>1. PICK j \in DOMAIN envs : j # k /\ envs'[i] = envs[j]
      BY <2>8
    <3>2. envs[j].count = 1 /\ \E v \in hooks \cap alive : handle[v] = envs[j].env
      BY DEF Owned
    <3>3. PICK v \in hooks \cap alive : handle[v] = envs[j].env
      BY <3>2
    <3>4. v # w
      BY <3>1, <3>3, <2>7 DEF e
    <3>5. v \in hooks' \cap alive' /\ handle'[v] = handle[v]
      BY <3>4, <1>1 DEF TypeOK
    <3> QED BY <3>1, <3>2, <3>3, <3>5
  <2> QED BY <2>11, <2>12, <2>13, <2>14
<1> QED BY <1>2, <1>3

LEMMA CloseRegInv ==
  ASSUME RegInv, NEW w \in Wrappers, Close(w)
  PROVE  RegInv'
  BY CloseEnvKeeps DEF Close

LEMMA ExitRegInv ==
  ASSUME RegInv, NEW w \in Wrappers, Exit(w)
  PROVE  RegInv'
<1>1. /\ alive' = alive \ {w}
      /\ UNCHANGED <<envsLock, hooks, constructed>>
  BY DEF Exit
<1>2. CASE w \in hooks
  BY <1>1, <1>2, CloseEnvKeeps DEF Exit
<1>3. CASE w \notin hooks
  <2>1. UNCHANGED <<envs, handle, mdbx>>
    BY <1>3 DEF Exit
  <2>2. Owned'
    BY <1>1, <1>3, <2>1 DEF RegInv, Owned
  <2> QED BY <1>1, <2>1, <2>2 DEF RegInv, TypeOK, HandlesExist, RegisteredAreOpen,
             Created, EntriesOf
<1> QED BY <1>2, <1>3

-----------------------------------------------------------------------------
LEMMA NextRegInv == RegInv /\ [Next]_vars => RegInv'
<1> SUFFICES ASSUME RegInv, [Next]_vars PROVE RegInv'
  OBVIOUS
<1>1. CASE UNCHANGED vars
  BY <1>1 DEF vars, RegInv, TypeOK, HandlesExist, Owned, RegisteredAreOpen, Created,
     EntriesOf
<1>2. ASSUME NEW w \in Wrappers, Construct(w) \/ Close(w) \/ Exit(w) PROVE RegInv'
  BY <1>2, ConstructRegInv, CloseRegInv, ExitRegInv
<1>3. ASSUME NEW w \in Wrappers, NEW p \in Paths,
             \/ OpenShared(w, p) \/ OpenFirst(w, p)
             \/ OpenFails(w, p) \/ MaxReadersFails(w, p)
      PROVE  RegInv'
  BY <1>3, OpenSharedRegInv, OpenFirstRegInv, OpenFailsRegInv, MaxReadersFailsRegInv
<1> QED BY <1>1, <1>2, <1>3 DEF Next

LEMMA RegInvCorrect == Spec => []RegInv
  BY InitRegInv, NextRegInv, PTL DEF Spec

(* EnvWrap::open, close and the cleanup hook keep the registry, the handles *)
(* and the hooks within their types; every environment is one a wrapper of  *)
(* some thread created.                                                     *)
THEOREM RegistryTyped == Spec => []TypeOK
<1>1. RegInv => TypeOK
  BY DEF RegInv
<1> QED BY <1>1, RegInvCorrect, PTL

(* The registry hands out open environments only, and no path is ever open  *)
(* in two environments of the process (open, closeEnv).                     *)
THEOREM RegistryCorrect == Spec => []RegisteredAreOpen
<1>1. RegInv => RegisteredAreOpen
  BY DEF RegInv
<1> QED BY <1>1, RegInvCorrect, PTL

(* No environment is left open when every thread has exited, in whatever    *)
(* order they opened, closed and exited (cleanup).                          *)
THEOREM NoneLeftOpen == Spec => []NothingLeftOpen
<1>1. RegInv => NothingLeftOpen
  <2> SUFFICES ASSUME RegInv, alive = {}, NEW e \in Created, mdbx[e] = "open" PROVE FALSE
    BY DEF NothingLeftOpen
  <2> QED BY DEF RegInv, RegisteredAreOpen, Owned, EntriesOf
<1> QED BY <1>1, RegInvCorrect, PTL

(* An environment is closed once, and a closed one is never handed out      *)
(* (open, closeEnv).                                                        *)
THEOREM ClosedOnce == Spec => ClosedForGood
<1> DEFINE Final == \A e \in Created : mdbx[e] = "closed" =>
             /\ mdbx'[e] = "closed"
             /\ \A w \in Wrappers : handle'[w] = e => handle[w] = e
<1>1. RegInv /\ [Next]_vars => [Final]_vars
  <2> SUFFICES ASSUME RegInv, Next, NEW e \in Created, mdbx[e] = "closed"
               PROVE  /\ mdbx'[e] = "closed"
                      /\ \A w \in Wrappers : handle'[w] = e => handle[w] = e
    OBVIOUS
  <2> USE DEF RegInv
  <2>0. e \in Nat \ {0} /\ mdbx \in Seq(EnvStates) /\ e <= Len(mdbx)
        /\ handle \in [Wrappers -> {0} \cup Envs]
    BY DEF Created, TypeOK
  <2>1. ASSUME NEW w \in Wrappers, Construct(w)
        PROVE  mdbx'[e] = "closed" /\ \A v \in Wrappers : handle'[v] = e => handle[v] = e
    <3>1. handle' = [handle EXCEPT ![w] = Len(mdbx) + 1] /\ mdbx'[e] = mdbx[e]
      BY <2>0, <2>1 DEF Construct, Created
    <3> QED BY <3>1, <2>0
  <2>2. ASSUME NEW w \in Wrappers, CloseEnv(w)
        PROVE  mdbx'[e] = "closed" /\ \A v \in Wrappers : handle'[v] = e => handle[v] = e
    <3>1. mdbx' = mdbx \/ mdbx' = [mdbx EXCEPT ![handle[w]] = "closed"]
      BY <2>2 DEF CloseEnv
    <3>2. handle' = [handle EXCEPT ![w] = 0]
      BY <2>2 DEF CloseEnv
    <3> QED BY <3>1, <3>2, <2>0 DEF Created
  <2>3. ASSUME NEW w \in Wrappers, Exit(w)
        PROVE  mdbx'[e] = "closed" /\ \A v \in Wrappers : handle'[v] = e => handle[v] = e
    BY <2>2, <2>3 DEF Exit
  <2>4. ASSUME NEW w \in Wrappers, NEW p \in Paths, OpenShared(w, p)
        PROVE  mdbx'[e] = "closed" /\ \A v \in Wrappers : handle'[v] = e => handle[v] = e
    <3>1. PICK i \in Entries(p) : TRUE
      BY <2>4 DEF OpenShared
    <3>2. First(Entries(p)) = i
      <4>1. \A j \in Entries(p) : j = i
        BY <3>1 DEF Entries, RegisteredAreOpen
      <4>2. Entries(p) \subseteq Nat
        BY DEF Entries, TypeOK
      <4> QED BY <3>1, <4>1, <4>2, FirstOfOne
    <3>3. mdbx[envs[i].env] = "open"
      BY <3>1 DEF Entries, RegisteredAreOpen
    <3>4. handle' = [handle EXCEPT ![w] = envs[i].env]
          /\ mdbx' = [mdbx EXCEPT ![handle[w]] = "closed"]
      BY <2>4, <3>2 DEF OpenShared
    <3> QED BY <3>3, <3>4, <2>0 DEF Created
  <2>5. ASSUME NEW w \in Wrappers, NEW p \in Paths, OpenFirst(w, p)
        PROVE  mdbx'[e] = "closed" /\ \A v \in Wrappers : handle'[v] = e => handle[v] = e
    BY <2>0, <2>5 DEF OpenFirst, Unopened, Created
  <2>6. ASSUME NEW w \in Wrappers, NEW p \in Paths, OpenFails(w, p)
        PROVE  mdbx'[e] = "closed" /\ \A v \in Wrappers : handle'[v] = e => handle[v] = e
    BY <2>0, <2>6 DEF OpenFails, Created
  <2>7. ASSUME NEW w \in Wrappers, NEW p \in Paths, MaxReadersFails(w, p)
        PROVE  mdbx'[e] = "closed" /\ \A v \in Wrappers : handle'[v] = e => handle[v] = e
    BY <2>7 DEF MaxReadersFails
  <2> QED BY <2>1, <2>2, <2>3, <2>4, <2>5, <2>6, <2>7 DEF Next, Close
<1> HIDE DEF Final
<1>2. Spec => [][Final]_vars
  BY <1>1, RegInvCorrect, PTL DEF Spec
<1> QED BY <1>2 DEF ClosedForGood, Final
=============================================================================
