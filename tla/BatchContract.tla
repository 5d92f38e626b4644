----------------------------- MODULE BatchContract -----------------------------
(***************************************************************************)
(* What a batch call promises its caller about the tool it runs once per   *)
(* param set: at most `limit` runs at a time; no run begins once the call  *)
(* has begun to abort; the call returns only when every item has a result  *)
(* and raises only when nothing runs any more.                             *)
(***************************************************************************)
EXTENDS Integers, FiniteSets

CONSTANT Items

VARIABLES size, limit, fail_fast,   \* fixed by the call
          phase, status

vars == <<size, limit, fail_fast, phase, status>>

Running == {i \in Items : status[i] = "running"}

Init == /\ phase = "open"
        /\ status = [i \in Items |-> "waiting"]

Begin(i) == /\ phase = "open" /\ i <= size
            /\ status[i] = "waiting"
            /\ Cardinality(Running) < limit
            /\ status' = [status EXCEPT ![i] = "running"]
            /\ UNCHANGED phase

Result == IF fail_fast THEN {"ok", "failed"} ELSE {"ok", "error"}

End(i) == /\ status[i] = "running"
          /\ \E r \in Result : status' = [status EXCEPT ![i] = r]
          /\ UNCHANGED phase

\* Items are given up only by a call that aborts.
GiveUp(i) == /\ phase = "aborting"
             /\ status[i] \in {"waiting", "running"}
             /\ status' = [status EXCEPT ![i] = "cancelled"]
             /\ UNCHANGED phase

Abort == phase = "open" /\ phase' = "aborting" /\ UNCHANGED status

Return == /\ phase = "open"
          /\ \A i \in Items : i <= size => status[i] \in {"ok", "error"}
          /\ phase' = "returned"
          /\ UNCHANGED status

\* The call raises when nothing runs, or in the step that ends the only run.
Raise == /\ phase \in {"open", "aborting"}
         /\ \/ Running = {} /\ UNCHANGED status
            \/ \E i \in Items, r \in {"failed", "cancelled"} :
                  Running = {i} /\ status' = [status EXCEPT ![i] = r]
         /\ phase' = "raised"

Next == /\ \/ \E i \in Items : Begin(i) \/ End(i) \/ GiveUp(i)
           \/ Abort \/ Return \/ Raise
        /\ UNCHANGED <<size, limit, fail_fast>>

Spec == Init /\ [][Next]_vars
================================================================================
