------------------------------ MODULE CommitLog -----------------------------
(***************************************************************************)
(* What the asynchronous write path of lmdbx-js promises, without slots,   *)
(* workers or locks.  Writes are submitted in order, each as part of a     *)
(* group (an event turn, a batch, or the write alone).  A transaction      *)
(* decides, all at once, every write that is waiting up to some group:     *)
(* groups are never torn apart and never overtake each other.  A write is  *)
(* answered only after it was decided.                                     *)
(***************************************************************************)
EXTENDS Integers

CONSTANT Ops            \* the writes, numbered in the order of submission

VARIABLES
  group,                \* the group of a write: its first write, 0 before
  status,               \* of a write
  answered              \* writes whose promise has settled
vars == <<group, status, answered>>

Statuses == {"none", "queued", "committed", "failed"}
Submitted == {o \in Ops : status[o] # "none"}
Queued == {o \in Ops : status[o] = "queued"}
Decided == {o \in Ops : status[o] \in {"committed", "failed"}}

Init ==
  /\ group = [o \in Ops |-> 0]
  /\ status = [o \in Ops |-> "none"]
  /\ answered = {}

(* The program submits write o of group g after all that came before; the   *)
(* first write of an event turn also submits the start f of the turn's      *)
(* block.  A group that a transaction decided is closed.                    *)
Submit(f, o, g) ==
  /\ g <= f /\ f <= o
  /\ \A p \in Submitted : p < f /\ group[p] <= g
  /\ \A p \in Decided : group[p] < g
  /\ group' = [group EXCEPT ![f] = g, ![o] = g]
  /\ status' = [status EXCEPT ![f] = "queued", ![o] = "queued"]
  /\ UNCHANGED answered

(* A transaction ends after group g.                                        *)
Decide(g, result) ==
  LET txn == {o \in Queued : group[o] <= g} IN
  /\ txn # {}
  /\ status' = [o \in Ops |-> IF o \in txn THEN result ELSE status[o]]
  /\ UNCHANGED <<group, answered>>

(* Promises settle.                                                         *)
Answer ==
  /\ answered \subseteq answered'
  /\ answered' \subseteq Decided
  /\ UNCHANGED <<group, status>>

Next ==
  \/ Answer
  \/ \E g \in Ops, result \in {"committed", "failed"} : Decide(g, result)
  \/ \E f, o, g \in Ops : Submit(f, o, g)

Spec == Init /\ [][Next]_vars

(* A group is decided as a whole: what a batch or an event turn promises.   *)
GroupsAreAtomic ==
  \A o, p \in Submitted : group[o] = group[p] => status[o] = status[p]

(* Transactions take the writes in the order of submission.                 *)
DecidedInOrder ==
  \A o \in Decided, p \in Queued : o < p

(* A write is answered only when the fate of its transaction is known.      *)
AnsweredAreDecided == answered \subseteq Decided

(* A transaction that ended is never undone, nor decided again.             *)
DecisionsAreFinal ==
  [][\A o \in Decided : o \in Decided' /\ status'[o] = status[o]]_vars

TypeOK ==
  /\ group \in [Ops -> {0} \cup Ops]
  /\ status \in [Ops -> Statuses]
=============================================================================
