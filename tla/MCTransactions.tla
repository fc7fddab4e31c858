--------------------------- MODULE MCTransactions ---------------------------
(* Four components in one instance, side by side: the hand-over of the      *)
(* write transaction, read transactions, conditions of writes, and ranges.  *)
(* They share no state, so a behaviour is one of one of them.               *)
EXTENDS MCTxnHandoff, MCReadTxns, ConditionalWrites, CursorRange

VARIABLE component

allVars == <<component, vars, readsVars, condVars, rangeVars>>

\* The components that do not run stay in one initial state.
AllInit ==
    /\ component \in {"handoff", "reads", "conditions", "range"}
    /\ component # "handoff" => program = CHOOSE p \in Programs : TRUE
    /\ Init
    /\ ReadsInit
    /\ CondInit
    /\ component # "range" => /\ entries = {}
                              /\ query = CHOOSE q \in Queries : TRUE
    /\ RangeInit

\* A component that is bounded ends.
CondDone == Len(results) = MaxInstructions /\ UNCHANGED condVars

HandoffStep == component = "handoff" /\ Next
               /\ UNCHANGED <<component, readsVars, condVars, rangeVars>>
ReadsStep == component = "reads" /\ ReadsNext
             /\ UNCHANGED <<component, vars, condVars, rangeVars>>
CondStep == component = "conditions" /\ (CondNext \/ CondDone)
            /\ UNCHANGED <<component, vars, readsVars, rangeVars>>
RangeStep == component = "range" /\ RangeNext
             /\ UNCHANGED <<component, vars, readsVars, condVars>>

AllNext == HandoffStep \/ ReadsStep \/ CondStep \/ RangeStep

AllSpec == AllInit /\ [][AllNext]_allVars /\ Fairness
=============================================================================
