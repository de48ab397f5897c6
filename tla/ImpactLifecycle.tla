-------------------------- MODULE ImpactLifecycle --------------------------
(***************************************************************************)
(* What the stored impacts promise about the jobs they stand for, whatever *)
(* the requests, the claims and the failures in between: the record of a   *)
(* job is written after the job was accepted, reports only what the job    *)
(* itself came to, and once it has left the cache is never put back.       *)
(***************************************************************************)
CONSTANT Jobs

VARIABLES
    outcome,  \* what each job has come to, at the gateway
    life      \* what the cache says of each job

vars == <<outcome, life>>

Ended == {"complete", "failed", "spm"}

Init ==
    /\ outcome = [j \in Jobs |-> "absent"]
    /\ life = [j \in Jobs |-> "unrecorded"]

Accept(j) ==
    /\ outcome[j] = "absent"
    /\ outcome' = [outcome EXCEPT ![j] = "running"]
    /\ UNCHANGED life

End(j) ==
    /\ outcome[j] = "running"
    /\ \E e \in Ended : outcome' = [outcome EXCEPT ![j] = e]
    /\ UNCHANGED life

Record(j) ==
    /\ life[j] = "unrecorded" /\ outcome[j] # "absent"
    /\ life' = [life EXCEPT ![j] = "computing"]
    /\ UNCHANGED outcome

\* What a record may say of a job that ended: its result, its failure, or that
\* this deployment cannot certify it.
Report(j) ==
    /\ life[j] \in {"computing", "ok", "error", "typed"}
    /\ life' = [life EXCEPT ![j] = CASE outcome[j] = "failed" -> "error"
                                     [] outcome[j] = "spm" -> "typed"
                                     [] OTHER -> "ok"]
    /\ outcome[j] \in Ended
    /\ UNCHANGED outcome

Uncertifiable(j) ==
    /\ life[j] \in {"computing", "ok", "typed"} /\ outcome[j] = "complete"
    /\ life' = [life EXCEPT ![j] = "typed"]
    /\ UNCHANGED outcome

Forget(j) ==
    /\ life[j] \in {"computing", "ok", "error", "typed"}
    /\ life' = [life EXCEPT ![j] = "forgotten"]
    /\ UNCHANGED outcome

Next == \E j \in Jobs :
    Accept(j) \/ End(j) \/ Record(j) \/ Report(j) \/ Uncertifiable(j) \/ Forget(j)

Spec == Init /\ [][Next]_vars
=============================================================================
